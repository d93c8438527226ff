-------------------------------- MODULE Backfill --------------------------------
(***************************************************************************)
(* The history of a chat, fetched in batches: FetchMessages and GetChat,    *)
(* called by the framework when it has created a room and then, for as long *)
(* as there is more, with the oldest message of the room as the anchor.     *)
(* The room is in use meanwhile, and items go on being edited and deleted.  *)
(* How events reach the portal, and files, are Inbound's; the simplex-chat  *)
(* server and the framework are external.                                   *)
(***************************************************************************)
EXTENDS Naturals, Sequences, FiniteSetsExt

CONSTANTS
    N,           \* the items of the chat, numbered as they are created
    Count,       \* params.Count: the size of a batch
    MaxChanges,  \* bound on the edits, deletions and losses of the connection
    QueueCap     \* bound on the remote events that wait

ASSUME BackfillAssumption ==
    /\ N \in Nat \ {0} /\ Count \in Nat \ {0}
    /\ MaxChanges \in Nat /\ QueueCap \in Nat

Items == 1 .. N

VARIABLES
    (* the server: external *)
    last,       \* the newest item
    version,    \* of each item
    deleted,
    up,         \* the connection of the bridge
    changes,
    (* the framework *)
    queue,      \* remote events queued to the portal
    room,       \* the room exists
    task,       \* the backfill: "none", "todo" or "done"
    batch,      \* what FetchMessages returned, while it is being inserted
    more,       \* HasMore of that response
    db,         \* the items in the message table
    shown,      \* the version the room shows of each item: 0 for none
    posts,      \* how often each was posted
    (* history *)
    present,    \* the items there were at the first fetch
    overtaken,  \* items an event of which was handled while they were in a batch
    lost,       \* items an event of which was lost
    jumped      \* items that were still to be fetched when an older one was posted

serverVars  == <<last, version, deleted, up, changes>>
portalVars  == <<queue, room, db, shown, posts>>
historyVars == <<present, overtaken, lost, jumped>>
vars == <<serverVars, portalVars, task, batch, more, historyVars>>

Exists(i) == i <= last /\ i \notin deleted

Init ==
    /\ last \in 0 .. N - 1
    /\ version = [i \in Items |-> 1] /\ deleted = {}
    /\ up = TRUE /\ changes = 0
    /\ queue = << >> /\ room = FALSE /\ task = "none"
    /\ batch = {} /\ more = FALSE /\ db = {}
    /\ shown = [i \in Items |-> 0]
    /\ posts = [i \in Items |-> 0]
    /\ present = {} /\ overtaken = {} /\ lost = {} /\ jumped = {}

-----------------------------------------------------------------------------
(* The server, and the handlers of its events, which queue them or lose     *)
(* them.                                                                    *)

Queued(type, i) ==
    IF up /\ Len(queue) < QueueCap
    THEN /\ queue' = Append(queue, [type |-> type, item |-> i, ver |-> version'[i]])
         /\ UNCHANGED lost
    ELSE lost' = lost \union {i} /\ UNCHANGED queue

Change == changes < MaxChanges /\ changes' = changes + 1

Create ==
    /\ last < N /\ last' = last + 1
    /\ UNCHANGED <<version, deleted, up, changes>>
    /\ Queued("message", last')

(* rcvFileComplete: the handler for new items sees an old one.              *)
Complete(i) ==
    /\ Exists(i) /\ Change
    /\ UNCHANGED <<last, version, deleted, up>>
    /\ Queued("message", i)

Edit(i) ==
    /\ Exists(i) /\ Change
    /\ version' = [version EXCEPT ![i] = @ + 1]
    /\ UNCHANGED <<last, deleted, up>>
    /\ Queued("edit", i)

Delete(i) ==
    /\ Exists(i) /\ Change
    /\ deleted' = deleted \union {i}
    /\ UNCHANGED <<last, version, up>>
    /\ Queued("remove", i)

Connection ==
    /\ up' = ~up
    /\ up => Change
    /\ ~up => UNCHANGED changes
    /\ UNCHANGED <<last, version, deleted, queue, lost>>

Server ==
    /\ \/ Create \/ Connection
       \/ \E i \in Items : Complete(i) \/ Edit(i) \/ Delete(i)
    /\ UNCHANGED <<room, db, shown, posts, task, batch, more, present, overtaken, jumped>>

-----------------------------------------------------------------------------
(* FetchMessages.                                                           *)

(* GetChat: the last items, or the last before an anchor; of those deleted  *)
(* the server lists the ones it has only marked.                            *)
GetChat(range, marked) ==
    LET chat == {i \in range : Exists(i) \/ i \in marked}
    IN  {i \in chat : Cardinality({j \in chat : j > i}) < Count}

(* Mutant: the anchor is part of the batch.                                 *)
BeforeInclusive(anchor) == 1 .. anchor

Before(anchor) == 1 .. anchor - 1

(* Mutant: a full batch is taken for the last.                              *)
HasMoreStrict(items) == Cardinality(items) > Count

(* Mutant: there always is more.                                            *)
HasMoreAlways(items) == Cardinality(items) >= 0

HasMore(items) == Cardinality(items) >= Count

(* Mutant: items are shown as they were first sent.                         *)
FetchOriginals(range) ==
    \E marked \in SUBSET deleted :
        LET items == GetChat(range, marked) IN
        /\ batch' = {[item |-> i, ver |-> IF i \in deleted THEN 0 ELSE 1] : i \in items}
        /\ more' = HasMore(items)

Fetch(range) ==
    \E marked \in SUBSET deleted :
        LET items == GetChat(range, marked) IN
        /\ batch' = {[item |-> i, ver |-> IF i \in deleted THEN 0 ELSE version[i]] : i \in items}
        /\ more' = HasMore(items)

(* The first message or resync creates the room, which is filled before     *)
(* anything else happens in it.  Should that fail, the framework may leave  *)
(* it at that.                                                              *)
CreateRoom ==
    /\ task = "none"
    /\ \/ up /\ Fetch(1 .. last) /\ task' = "todo"
       \/ task' \in {"todo", "done"} /\ UNCHANGED <<batch, more>>
    /\ present' = IF task' = "todo" THEN {i \in Items : Exists(i)} ELSE {}
    /\ room' = (batch' = {})
    /\ UNCHANGED <<serverVars, queue, db, shown, posts, overtaken, lost, jumped>>

(* The next batch; the room may have no message left.                       *)
FetchOlder ==
    /\ room /\ task = "todo" /\ batch = {}
    /\ up /\ Fetch(IF db = {} THEN 1 .. last ELSE Before(Min(db)))
    /\ task' = IF batch' = {} /\ ~more' THEN "done" ELSE task
    /\ UNCHANGED <<serverVars, portalVars, historyVars>>

(* The batch is inserted: FetchMessages does not ask the framework to look  *)
(* which of its messages are there.                                         *)
Insert ==
    /\ batch # {}
    /\ LET new == {v.item : v \in batch}
           Ver(i) == (CHOOSE v \in batch : v.item = i).ver
       IN  /\ db' = db \union new
           /\ shown' = [i \in Items |-> IF i \in new THEN Ver(i) ELSE shown[i]]
           /\ posts' = [i \in Items |-> IF i \in new /\ Ver(i) > 0 THEN posts[i] + 1
                                        ELSE posts[i]]
    /\ batch' = {} /\ room' = TRUE
    /\ task' = IF more THEN "todo" ELSE "done"
    /\ UNCHANGED <<serverVars, queue, more, historyVars>>

-----------------------------------------------------------------------------
(* The portal handles its events while a later batch is on its way.         *)

Pop(type) == /\ queue # << >> /\ Head(queue).type = type
             /\ queue' = Tail(queue)
             /\ overtaken' = overtaken \union ({Head(queue).item} \intersect {v.item : v \in batch})
             /\ UNCHANGED <<serverVars, room, task, batch, more, present, lost>>

Item == Head(queue).item

PortalMessage ==
    /\ room
    /\ Pop("message")
    /\ IF Item \in db THEN UNCHANGED <<db, shown, posts, jumped>>
       ELSE /\ db' = db \union {Item}
            /\ shown' = [shown EXCEPT ![Item] = Head(queue).ver]
            /\ posts' = [posts EXCEPT ![Item] = @ + 1]
            /\ jumped' = jumped \union {i \in present \ db : i > Item}

PortalEdit ==
    /\ room
    /\ Pop("edit")
    /\ shown' = IF Item \in db THEN [shown EXCEPT ![Item] = Head(queue).ver] ELSE shown
    /\ UNCHANGED <<db, posts, jumped>>

PortalRemove ==
    /\ room
    /\ Pop("remove")
    /\ db' = db \ {Item}
    /\ shown' = [shown EXCEPT ![Item] = 0]
    /\ UNCHANGED <<posts, jumped>>

Portal == PortalMessage \/ PortalEdit \/ PortalRemove

-----------------------------------------------------------------------------
Next == Server \/ CreateRoom \/ FetchOlder \/ Insert \/ Portal

Spec == Init /\ [][Next]_vars

(* The framework goes on with its task.                                     *)
FairSpec == Spec /\ WF_vars(FetchOlder) /\ WF_vars(Insert)

-----------------------------------------------------------------------------
(* Properties.                                                              *)

TypeOK ==
    /\ last \in 0 .. N /\ version \in [Items -> 1 .. MaxChanges + 1]
    /\ deleted \subseteq Items /\ up \in BOOLEAN /\ changes \in 0 .. MaxChanges
    /\ queue \in Seq([type : {"message", "edit", "remove"}, item : Items,
                      ver : 1 .. MaxChanges + 1])
    /\ Len(queue) <= QueueCap
    /\ room \in BOOLEAN /\ task \in {"none", "todo", "done"}
    /\ batch \subseteq [item : Items, ver : 0 .. MaxChanges + 1]
    /\ Cardinality(batch) <= Count /\ more \in BOOLEAN
    /\ db \subseteq Items
    /\ shown \in [Items -> 0 .. MaxChanges + 1] /\ posts \in [Items -> Nat]
    /\ present \subseteq Items /\ overtaken \subseteq Items
    /\ lost \subseteq Items /\ jumped \subseteq Items

(* When the backfill is done, everything that was in the chat when it began *)
(* is in the room, wherever the batches were cut and whatever was posted,   *)
(* edited or deleted in the meantime; unless an older item was posted       *)
(* before it (a file that took long), and became the anchor.                *)
NoGaps ==
    task = "done" =>
        \A i \in present \ (deleted \union jumped) : i \in db

(* No item is posted twice by two batches, or by a batch and as a live      *)
(* message, except one that is posted while the batch is on its way.        *)
PostedOnce == \A i \in Items \ overtaken : posts[i] <= 1

(* Once the events are handled, the room shows the last version of what it  *)
(* has and nothing of what was deleted, although batches and events bring   *)
(* different versions in any order; unless an event of the item was lost or *)
(* handled while the batch was on its way.                                  *)
NothingStale ==
    room /\ queue = << >> /\ batch = {} =>
        \A i \in db \ (overtaken \union lost) :
            shown[i] = IF i \in deleted THEN 0 ELSE version[i]

(* A backfill comes to its end.                                             *)
BackfillEnds == <>[]up => (task = "todo" ~> task = "done")
================================================================================
