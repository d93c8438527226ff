------------------------------- MODULE Reactions -------------------------------
(***************************************************************************)
(* Reactions to one message, in both directions: HandleMatrixReaction and   *)
(* HandleMatrixReactionRemove for what the bridge's user does on Matrix,    *)
(* handleChatItemReaction for what everybody, that user included, does on   *)
(* SimpleX.  SimpleX lets everybody have several reactions to an item; the  *)
(* bridge gives all of them the empty EmojiID, under which the framework    *)
(* keeps one row per sender and message, whichever side it came from.  The  *)
(* framework's portal and simplex-chat are external.                        *)
(***************************************************************************)
EXTENDS Naturals, Sequences, FiniteSets, Functions

CONSTANTS
    me,          \* the login's own user
    Contacts,    \* the others
    Keys,        \* keys of Matrix reactions
    NoReaction,  \* of a sender without a row
    NoOne,       \* in an event that does not say whom it is from
    simplexSupportedEmojis,  \* from supported keys to what SimpleX accepts
    EventCap,    \* capacity of eventsCh (64 in the code)
    QueueCap,    \* bound on the events queued to the portal
    MaxActs      \* bound on what the users do

ASSUME ReactionsAssumption ==
    /\ me \notin Contacts /\ NoReaction \notin Keys
    /\ NoOne \notin Contacts \union {me}
    /\ DOMAIN simplexSupportedEmojis \subseteq Keys
    /\ \A e \in Range(simplexSupportedEmojis) :
          e \in DOMAIN simplexSupportedEmojis /\ simplexSupportedEmojis[e] = e
    /\ EventCap \in Nat \ {0} /\ QueueCap \in Nat \ {0} /\ MaxActs \in Nat

Users  == Contacts \union {me}
Emojis == Range(simplexSupportedEmojis)

VARIABLES
    (* simplex-chat: external *)
    acts,      \* what the users have done so far
    onItem,    \* the reactions each user has on the item
    up,        \* the connection of the bridge
    (* the bridge *)
    events,    \* eventsCh
    queue,     \* the portal's events, from Matrix and from SimpleX
    (* the portal: external *)
    known,     \* the message is in the message table
    row,       \* the row of each sender in the reaction table
    shown,     \* the keys each user's reactions in the room have
    (* history *)
    lost,      \* the users an event of whom was lost
    early,     \* those who reacted before the message was known
    plural,    \* the users who had a second reaction beside a first
    crossed,   \* me acted on one side while an act on the other was on its way
    failed,    \* a command was not answered
    refused    \* my keys whose removal simplex-chat refused, until it tells of me

portalVars  == <<known, row, shown>>
historyVars == <<lost, early, plural, crossed, failed, refused>>
vars == <<acts, onItem, up, events, queue, portalVars, historyVars>>

Init ==
    /\ acts = 0
    /\ onItem = [u \in Users |-> {}] /\ up = TRUE
    /\ events = << >> /\ queue = << >>
    /\ known \in BOOLEAN
    /\ row = [u \in Users |-> NoReaction]
    /\ shown = [u \in Users |-> {}]
    /\ lost = {} /\ early = {} /\ plural = {} /\ crossed = FALSE
    /\ failed = FALSE /\ refused = {}

-----------------------------------------------------------------------------
(* handleChatItemReaction: whom an event is from.  An event has a contact   *)
(* or member (from), a direction (dir: the contact or member of a received  *)
(* item, me for a sent one), or neither.                                    *)

Event == [added : BOOLEAN, from : Contacts \union {NoOne}, dir : Users \union {NoOne},
          emoji : Emojis]

(* Mutant: without the fallback to the direction.                           *)
SenderWithoutDir(e) == IF e.from # NoOne THEN e.from ELSE me

Sender(e) == IF e.from # NoOne THEN e.from
             ELSE IF e.dir # NoOne THEN e.dir ELSE me

(* What me did on either side, on its way to the other.                     *)
ToSimplex == \E i \in 1 .. Len(queue) :
                queue[i].type \in {"matrixReaction", "matrixRedaction"}

ToMatrix == \/ \E i \in 1 .. Len(events) : Sender(events[i]) = me
            \/ \E i \in 1 .. Len(queue) :
                  queue[i].type \in {"reaction", "reactionRemove"} /\ queue[i].from = me

-----------------------------------------------------------------------------
(* SimpleX.                                                                 *)

(* An event is lost without a connection and when eventsCh is full.         *)
Emit(u, e) ==
    IF up /\ Len(events) < EventCap
    THEN events' = Append(events, e) /\ UNCHANGED lost
    ELSE lost' = lost \union {u} /\ UNCHANGED events

(* How simplex-chat may name u in an event.                                 *)
Named(u) == IF u = me THEN {<<NoOne, me>>, <<NoOne, NoOne>>}
            ELSE {<<u, NoOne>>, <<NoOne, u>>}

Tell(u, added, e) ==
    \E n \in Named(u) : Emit(u, [added |-> added, from |-> n[1], dir |-> n[2], emoji |-> e])

Reacts(u, e) ==
    /\ e \notin onItem[u]
    /\ onItem' = [onItem EXCEPT ![u] = @ \union {e}]
    /\ plural' = IF onItem[u] = {} THEN plural ELSE plural \union {u}
    /\ Tell(u, TRUE, e)

Unreacts(u, e) ==
    /\ e \in onItem[u]
    /\ onItem' = [onItem EXCEPT ![u] = @ \ {e}]
    /\ Tell(u, FALSE, e)
    /\ UNCHANGED plural

Act == acts < MaxActs /\ acts' = acts + 1

SimplexUser ==
    /\ Act
    /\ \E u \in Users, e \in Emojis :
          /\ Reacts(u, e) \/ Unreacts(u, e)
          /\ crossed' = (crossed \/ (u = me /\ ToSimplex))
    /\ UNCHANGED <<up, queue, portalVars, early, failed, refused>>

Connection ==
    /\ up' = ~up
    /\ UNCHANGED <<acts, onItem, events, queue, portalVars, historyVars>>

(* ReactToChatItem: simplex-chat answers, or refuses what is none of its    *)
(* emoji, or the call fails, executed or not, for want of a connection or   *)
(* of a client.                                                             *)
ReactToChatItem(e, add, answered) ==
    LET after == [onItem EXCEPT ![me] = IF add THEN @ \union {e} ELSE @ \ {e}]
    IN  \/ /\ answered = "ok" /\ up /\ e \in Emojis
           /\ onItem' = after
           /\ UNCHANGED failed
        \/ /\ answered = "refused" /\ up /\ e \notin Emojis
           /\ UNCHANGED <<onItem, failed>>
        \/ /\ answered = "failed"
           /\ onItem' \in {onItem} \union IF e \in Emojis THEN {after} ELSE {}
           /\ failed' = TRUE

-----------------------------------------------------------------------------
(* handleChatItemReaction.                                                  *)

(* Mutant: every event is taken for a new reaction.                         *)
HandleReactionIgnoresAdded ==
    /\ events # << >> /\ Len(queue) < QueueCap
    /\ events' = Tail(events)
    /\ queue' = Append(queue, [type |-> "reaction", from |-> Sender(Head(events)),
                               key |-> Head(events).emoji])
    /\ UNCHANGED <<acts, onItem, up, portalVars, historyVars>>

HandleChatItemReaction ==
    /\ events # << >> /\ Len(queue) < QueueCap
    /\ events' = Tail(events)
    /\ LET e == Head(events) IN
       queue' = Append(queue,
           [type |-> IF e.added THEN "reaction" ELSE "reactionRemove",
            from |-> Sender(e), key |-> e.emoji])
    /\ UNCHANGED <<acts, onItem, up, portalVars, historyVars>>

-----------------------------------------------------------------------------
(* Matrix: the user's own reactions, in the room before the bridge sees     *)
(* them.                                                                    *)

IReact(k) ==
    /\ known /\ k \notin shown[me] /\ Len(queue) < QueueCap
    /\ shown' = [shown EXCEPT ![me] = @ \union {k}]
    /\ queue' = Append(queue, [type |-> "matrixReaction", from |-> me, key |-> k])

IUnreact(k) ==
    /\ k \in shown[me] /\ Len(queue) < QueueCap
    /\ shown' = [shown EXCEPT ![me] = @ \ {k}]
    /\ queue' = Append(queue, [type |-> "matrixRedaction", from |-> me, key |-> k])

MatrixUser ==
    /\ Act
    /\ \E k \in Keys : IReact(k) \/ IUnreact(k)
    /\ crossed' = (crossed \/ ToMatrix)
    /\ UNCHANGED <<onItem, up, events, known, row, lost, early, plural, failed, refused>>

-----------------------------------------------------------------------------
(* The portal handles one event at a time and calls the bridge's handlers.  *)

Pop(type) == /\ queue # << >> /\ Head(queue).type = type
             /\ queue' = Tail(queue)
             /\ UNCHANGED <<acts, up, events, known>>

(* The message is posted: a file that was pending has arrived.              *)
MessagePosted ==
    /\ ~known
    /\ known' = TRUE
    /\ UNCHANGED <<acts, onItem, up, events, queue, row, shown, historyVars>>

(* Mutant: the key is sent as it came from Matrix.                          *)
HandleMatrixReactionRaw(k, answered) ==
    IF k \in DOMAIN simplexSupportedEmojis
    THEN ReactToChatItem(k, TRUE, answered)
    ELSE answered = "ok" /\ UNCHANGED <<onItem, failed>>

(* A key that SimpleX does not have is ignored, with success.               *)
HandleMatrixReaction(k, answered) ==
    IF k \in DOMAIN simplexSupportedEmojis
    THEN ReactToChatItem(simplexSupportedEmojis[k], TRUE, answered)
    ELSE answered = "ok" /\ UNCHANGED <<onItem, failed>>

(* The portal replaces a row that the user has under the same, empty,       *)
(* EmojiID, redacts its reaction, and ignores a reaction it has a row for.  *)
(* The row keeps the key of PreHandleMatrixReaction, unnormalised.          *)
PortalMatrixReaction ==
    /\ Pop("matrixReaction")
    /\ LET k == Head(queue).key IN
       /\ IF row[me] = k
          THEN UNCHANGED <<onItem, row, shown, plural, failed>>
          ELSE /\ \E answered \in {"ok", "refused", "failed"} :
                     /\ HandleMatrixReaction(k, answered)
                     /\ row' = IF answered = "ok" THEN [row EXCEPT ![me] = k] ELSE row
               /\ shown' = [shown EXCEPT ![me] = @ \ {row[me]}]
               /\ plural' = IF row[me] \in DOMAIN simplexSupportedEmojis
                            THEN plural \union {me} ELSE plural
       /\ refused' = refused \ {k}
    /\ UNCHANGED <<lost, early, crossed>>

HandleMatrixReactionRemove(k, answered) == ReactToChatItem(k, FALSE, answered)

PortalMatrixRedaction ==
    /\ Pop("matrixRedaction")
    /\ LET k == Head(queue).key IN
       IF row[me] # k
       THEN UNCHANGED <<onItem, row, failed, refused>>
       ELSE \E answered \in {"ok", "refused", "failed"} :
               /\ HandleMatrixReactionRemove(k, answered)
               /\ row' = IF answered = "ok" THEN [row EXCEPT ![me] = NoReaction] ELSE row
               /\ refused' = IF answered = "refused" THEN refused \union {k} ELSE refused
    /\ UNCHANGED <<shown, lost, early, plural, crossed>>

(* A reaction from SimpleX replaces the sender's row, unless it has the     *)
(* same emoji.                                                              *)
PortalReaction ==
    /\ Pop("reaction")
    /\ LET u == Head(queue).from
           e == Head(queue).key
       IN  \/ /\ ~known
              /\ early' = early \union {u}
              /\ UNCHANGED <<row, shown>>
           \/ /\ known /\ row[u] # e
              /\ row' = [row EXCEPT ![u] = e]
              /\ shown' = [shown EXCEPT ![u] = (@ \ {row[u]}) \union {e}]
              /\ UNCHANGED early
           \/ /\ known /\ row[u] = e
              /\ UNCHANGED <<row, shown, early>>
          /\ refused' = IF u = me THEN {} ELSE refused
    /\ UNCHANGED <<onItem, lost, plural, crossed, failed>>

(* The removed reaction is looked up by its sender and the empty EmojiID:   *)
(* whatever key the row has, it goes.                                       *)
PortalReactionRemove ==
    /\ Pop("reactionRemove")
    /\ LET u == Head(queue).from IN
       /\ row' = [row EXCEPT ![u] = NoReaction]
       /\ shown' = [shown EXCEPT ![u] = @ \ {row[u]}]
       /\ refused' = IF u = me THEN {} ELSE refused
    /\ UNCHANGED <<onItem, lost, early, plural, crossed, failed>>

Portal == \/ MessagePosted \/ PortalMatrixReaction \/ PortalMatrixRedaction
          \/ PortalReaction \/ PortalReactionRemove

Next == SimplexUser \/ Connection \/ HandleChatItemReaction \/ MatrixUser \/ Portal

Spec == Init /\ [][Next]_vars

-----------------------------------------------------------------------------
(* Properties.                                                              *)

TypeOK ==
    /\ acts \in 0 .. MaxActs
    /\ onItem \in [Users -> SUBSET Emojis] /\ up \in BOOLEAN
    /\ events \in Seq(Event)
    /\ Len(events) <= EventCap
    /\ queue \in Seq([type : {"reaction", "reactionRemove", "matrixReaction",
                              "matrixRedaction"}, from : Users, key : Keys])
    /\ Len(queue) <= QueueCap
    /\ known \in BOOLEAN
    /\ row \in [Users -> Keys \union {NoReaction}]
    /\ shown \in [Users -> SUBSET Keys]
    /\ lost \subseteq Users /\ early \subseteq Users /\ plural \subseteq Users
    /\ crossed \in BOOLEAN /\ failed \in BOOLEAN /\ refused \subseteq Keys

Quiet == events = << >> /\ queue = << >>

(* Once everything is handled, the room shows no reaction that its sender   *)
(* does not have on SimpleX, unless an event of theirs was lost: even with  *)
(* several reactions of one sender under one row.                           *)
NoPhantomReactions ==
    Quiet => \A u \in Contacts \ lost : shown[u] \subseteq onItem[u]

(* And it shows theirs, for a sender who had one at a time and waited until *)
(* the message was posted.                                                  *)
ReactionsArrive ==
    Quiet => \A u \in Contacts \ (lost \union early \union plural) :
                shown[u] = onItem[u]

Normalized(keys) ==
    {simplexSupportedEmojis[k] : k \in keys \intersect DOMAIN simplexSupportedEmojis}

(* The user's own reactions are the same on both sides, in whatever form    *)
(* and on whichever side they were made and taken back, the rows of one     *)
(* side met by the other's: SimpleX has the supported ones that the room    *)
(* shows, and those that the user took back in the room in a variant form,  *)
(* whose removal HandleMatrixReactionRemove sends as a key that SimpleX     *)
(* does not have, and none else.  Unless one replaced another, whose        *)
(* removal HandleMatrixReaction leaves to nobody, or the user acted on both *)
(* sides at once, or before the message was posted.                         *)
MyReactionsArrive ==
    Quiet /\ ~failed /\ ~crossed /\ me \notin lost \union early \union plural =>
        onItem[me] = Normalized(shown[me] \union refused)
================================================================================
