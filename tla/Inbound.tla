-------------------------------- MODULE Inbound --------------------------------
(***************************************************************************)
(* What happens on SimpleX, on its way into a Matrix room: the event loop's *)
(* handlers of pkg/connector (handleNewChatItems and its siblings), the     *)
(* backfill of a new room (FetchMessages) and the conversion of items.  The *)
(* simplex-chat server and the portal of bridgev2 are external.             *)
(* Events reach the handlers in the order they were sent: WsClient shows    *)
(* that a reconnect waits for those of the old connection.                  *)
(***************************************************************************)
EXTENDS Naturals, Sequences, FiniteSets

CONSTANTS
    Items,       \* chat items of one chat
    Files,       \* those with a file attached
    MaxVersion,  \* bound on the versions an item goes through
    EventCap     \* capacity of eventsCh (64 in the code)

ASSUME InboundAssumption ==
    Files \subseteq Items /\ MaxVersion \in Nat \ {0} /\ EventCap \in Nat \ {0}

VARIABLES
    (* the server: external *)
    version,     \* the version of each item: 0 before it exists
    deleted,     \* the items deleted
    file,        \* how far the download of each file is
    up,          \* the connection of the bridge
    (* the bridge *)
    events,      \* eventsCh
    queue,       \* remote events queued to the portal
    fetched,     \* what FetchMessages returned, while it is being inserted
    (* the portal: external *)
    room,        \* "none", "fetching" or "open"
    db,          \* the items in the message table
    shown,       \* what the room shows of each item
    (* history *)
    lost,        \* the items some event of which was lost
    backfilled,  \* those posted by a backfill
    posts        \* how often each was posted

serverVars  == <<version, deleted, file, up>>
portalVars  == <<room, db, shown, backfilled, posts>>
vars == <<serverVars, events, queue, fetched, portalVars, lost>>

(* An item as an event or a fetch shows it: ready says that its file has a  *)
(* path, gone that it is marked as deleted.                                 *)
View == [item : Items, ver : 1 .. MaxVersion, ready : BOOLEAN, gone : BOOLEAN]

Seen(i) == [item |-> i, ver |-> version'[i], ready |-> file'[i] = "complete",
            gone |-> FALSE]

(* What the room shows: a version and the kind of content.                  *)
Content == {"text", "file", "notice", "bare", "caption", "tombstone"}
Nothing == [ver |-> 0, as |-> "none"]

Init ==
    /\ version = [i \in Items |-> 0] /\ deleted = {}
    /\ file = [i \in Items |-> "none"] /\ up = TRUE
    /\ events = << >> /\ queue = << >> /\ fetched = {}
    /\ room = "none" /\ db = {} /\ backfilled = {}
    /\ shown = [i \in Items |-> Nothing]
    /\ posts = [i \in Items |-> 0]
    /\ lost = {}

-----------------------------------------------------------------------------
(* The server.  An event is lost when there is no connection and when       *)
(* eventsCh is full.                                                        *)

Emit(type, i) ==
    IF up /\ Len(events) < EventCap
    THEN events' = Append(events, [type |-> type, view |-> Seen(i)]) /\ UNCHANGED lost
    ELSE lost' = lost \union {i} /\ UNCHANGED events

Exists(i) == version[i] > 0 /\ i \notin deleted

(* A file the bridge's user sent from another device has its path at once.  *)
Create(i) ==
    /\ version[i] = 0
    /\ version' = [version EXCEPT ![i] = 1]
    /\ \E f \in IF i \in Files THEN {"offered", "complete"} ELSE {"none"} :
          file' = [file EXCEPT ![i] = f]
    /\ Emit("newChatItems", i)
    /\ UNCHANGED <<deleted, up>>

Edit(i) ==
    /\ Exists(i) /\ version[i] < MaxVersion
    /\ version' = [version EXCEPT ![i] = @ + 1]
    /\ UNCHANGED <<deleted, file, up>>
    /\ Emit("chatItemUpdated", i)

Delete(i) ==
    /\ Exists(i)
    /\ deleted' = deleted \union {i}
    /\ UNCHANGED <<version, file, up>>
    /\ Emit("chatItemsDeleted", i)

FileStep(i, from, to, type) ==
    /\ Exists(i) /\ file[i] = from
    /\ file' = [file EXCEPT ![i] = to]
    /\ UNCHANGED <<version, deleted, up>>
    /\ Emit(type, i)

(* No event that the bridge handles tells that a download failed.           *)
FileFails(i) ==
    /\ file[i] = "accepted"
    /\ file' = [file EXCEPT ![i] = "failed"]
    /\ UNCHANGED <<version, deleted, up, events, lost>>

Connection ==
    /\ up' = ~up
    /\ UNCHANGED <<version, deleted, file, events, lost>>

Server ==
    /\ \/ Connection
       \/ \E i \in Items : \/ Create(i) \/ Edit(i) \/ Delete(i) \/ FileFails(i)
                           \/ FileStep(i, "offered", "described", "rcvFileDescrReady")
                           \/ FileStep(i, "accepted", "complete", "rcvFileComplete")
    /\ UNCHANGED <<queue, fetched, portalVars>>

-----------------------------------------------------------------------------
(* handleSimplexEvent.                                                      *)

Take(type) == /\ events # << >> /\ Head(events).type = type
              /\ events' = Tail(events)

Queue(type, v) == queue' = Append(queue, [type |-> type, view |-> v])

Pending(v) == v.item \in Files /\ ~v.ready

(* Mutant: the check for the path of the file is left out.                  *)
ItemUnchecked(v) == Queue("message", v)

(* handleNewChatItems, for one item.                                        *)
Item(v) == IF Pending(v) THEN UNCHANGED queue ELSE Queue("message", v)

HandleNewChatItems ==
    /\ Take("newChatItems")
    /\ Item(Head(events).view)
    /\ UNCHANGED <<serverVars, fetched, portalVars, lost>>

(* Mutant: the completion is taken note of, its item is not handled again.  *)
HandleRcvFileCompleteOnlyLogs ==
    /\ Take("rcvFileComplete")
    /\ UNCHANGED <<serverVars, queue, fetched, portalVars, lost>>

HandleRcvFileComplete ==
    /\ Take("rcvFileComplete")
    /\ Item(Head(events).view)
    /\ UNCHANGED <<serverVars, fetched, portalVars, lost>>

(* ReceiveFile; its failure is only logged.                                 *)
HandleRcvFileDescrReady ==
    /\ Take("rcvFileDescrReady")
    /\ LET i == Head(events).view.item IN
       \/ /\ up /\ file[i] = "described" /\ i \notin deleted
          /\ file' = [file EXCEPT ![i] = "accepted"]
       \/ UNCHANGED file
    /\ UNCHANGED <<version, deleted, up, queue, fetched, portalVars, lost>>

HandleChatItemUpdated ==
    /\ Take("chatItemUpdated")
    /\ Queue("edit", Head(events).view)
    /\ UNCHANGED <<serverVars, fetched, portalVars, lost>>

HandleChatItemsDeleted ==
    /\ Take("chatItemsDeleted")
    /\ Queue("remove", Head(events).view)
    /\ UNCHANGED <<serverVars, fetched, portalVars, lost>>

HandleSimplexEvent ==
    \/ HandleNewChatItems \/ HandleRcvFileComplete \/ HandleRcvFileDescrReady
    \/ HandleChatItemUpdated \/ HandleChatItemsDeleted

-----------------------------------------------------------------------------
(* The portal.  It handles one remote event at a time, and creates the room *)
(* for a message or a resync, with a backfill before anything else.         *)

(* convertChatItemToMatrix and, when "uploads", uploadFilePartToMatrix,     *)
(* which can fail: "bare" is a file message without its file, "caption" the *)
(* text of a file message whose file is pending.                            *)
Convert(v, uploads, failure) ==
    IF v.gone THEN {"tombstone"}
    ELSE IF v.item \notin Files THEN {"text"}
    ELSE IF ~v.ready THEN {"caption"}
    ELSE IF uploads THEN {"file", failure} ELSE {"bare"}

CreateRoom ==
    /\ room = "none"
    /\ room' = "fetching"
    /\ UNCHANGED <<serverVars, events, queue, fetched, db, shown, backfilled, posts, lost>>

(* FetchMessages; GetChat may fail.  The chat is as short as one batch (the *)
(* batches of a longer one are the subject of Backfill); an item that was   *)
(* deleted is gone from it or marked as deleted.                            *)
FetchMessages ==
    /\ room = "fetching" /\ fetched = {}
    /\ \/ /\ up
          /\ \E marked \in SUBSET deleted :
                fetched' = {[item |-> i, ver |-> version[i], ready |-> file[i] = "complete",
                             gone |-> i \in marked] :
                               i \in {j \in Items : Exists(j)} \union marked}
          /\ room' = IF fetched' = {} THEN "open" ELSE room
       \/ room' = "open" /\ UNCHANGED fetched
    /\ UNCHANGED <<serverVars, events, queue, db, shown, backfilled, posts, lost>>

(* Mutant: the backfilled messages do not bear the IDs of the live ones.    *)
InsertOtherIds ==
    /\ fetched # {}
    /\ LET new == {v.item : v \in fetched} IN
       /\ shown' = [i \in Items |->
             IF i \in new
             THEN LET v == CHOOSE w \in fetched : w.item = i
                  IN  [ver |-> v.ver, as |-> CHOOSE a \in Convert(v, FALSE, "bare") : TRUE]
             ELSE shown[i]]
       /\ backfilled' = backfilled \union new
       /\ posts' = [i \in Items |-> IF i \in new THEN posts[i] + 1 ELSE posts[i]]
    /\ fetched' = {} /\ room' = "open"
    /\ UNCHANGED <<serverVars, events, queue, db, lost>>

(* The batch is inserted, except for what the room has already.             *)
Insert ==
    /\ fetched # {}
    /\ LET new == {v.item : v \in fetched} \ db IN
       /\ db' = db \union new
       /\ shown' = [i \in Items |->
             IF i \in new
             THEN LET v == CHOOSE w \in fetched : w.item = i
                  IN  [ver |-> v.ver, as |-> CHOOSE a \in Convert(v, FALSE, "bare") : TRUE]
             ELSE shown[i]]
       /\ backfilled' = backfilled \union new
       /\ posts' = [i \in Items |-> IF i \in new THEN posts[i] + 1 ELSE posts[i]]
    /\ fetched' = {} /\ room' = "open"
    /\ UNCHANGED <<serverVars, events, queue, lost>>

Pop(type) == /\ queue # << >> /\ Head(queue).type = type
             /\ queue' = Tail(queue)
             /\ UNCHANGED <<serverVars, events, fetched, room, backfilled, lost>>

Show(v, uploads, failure) ==
    \E a \in Convert(v, uploads, failure) :
        shown' = [shown EXCEPT ![v.item] = [ver |-> v.ver, as |-> a]]

(* ConvertMessageFunc runs unless the message is known.                     *)
PortalMessage ==
    /\ room = "open"
    /\ Pop("message")
    /\ LET v == Head(queue).view IN
       IF v.item \in db
       THEN UNCHANGED <<db, shown, posts>>
       ELSE /\ db' = db \union {v.item}
            /\ Show(v, TRUE, "notice")
            /\ posts' = [posts EXCEPT ![v.item] = @ + 1]

(* Mutant: an edit is shown whether its message is there or not.            *)
PortalEditUnknown ==
    /\ room # "fetching"
    /\ Pop("edit")
    /\ Show(Head(queue).view, TRUE, "bare")
    /\ UNCHANGED <<db, posts>>

(* ConvertEditFunc runs if the target is known; an upload that fails is     *)
(* only logged.                                                             *)
PortalEdit ==
    /\ room # "fetching"
    /\ Pop("edit")
    /\ LET v == Head(queue).view IN
       IF v.item \in db THEN Show(v, TRUE, "bare") ELSE UNCHANGED shown
    /\ UNCHANGED <<db, posts>>

PortalRemove ==
    /\ room # "fetching"
    /\ Pop("remove")
    /\ LET i == Head(queue).view.item IN
       /\ db' = db \ {i}
       /\ shown' = [shown EXCEPT ![i] = Nothing]
    /\ UNCHANGED posts

Portal == \/ CreateRoom \/ FetchMessages \/ Insert
          \/ PortalMessage \/ PortalEdit \/ PortalRemove

-----------------------------------------------------------------------------
Next == Server \/ HandleSimplexEvent \/ Portal

Spec == Init /\ [][Next]_vars

(* The event loop and the portal run.  The server is free.                  *)
FairSpec == Spec /\ WF_vars(HandleSimplexEvent) /\ WF_vars(Portal)

-----------------------------------------------------------------------------
(* Properties.                                                              *)

TypeOK ==
    /\ version \in [Items -> 0 .. MaxVersion] /\ deleted \subseteq Items
    /\ file \in [Items -> {"none", "offered", "described", "accepted",
                           "complete", "failed"}]
    /\ up \in BOOLEAN
    /\ events \in Seq([type : {"newChatItems", "rcvFileComplete", "rcvFileDescrReady",
                               "chatItemUpdated", "chatItemsDeleted"}, view : View])
    /\ Len(events) <= EventCap
    /\ queue \in Seq([type : {"message", "edit", "remove"}, view : View])
    /\ fetched \subseteq View
    /\ room \in {"none", "fetching", "open"}
    /\ db \subseteq Items
    /\ shown \in [Items -> [ver : 1 .. MaxVersion, as : Content] \union {Nothing}]
    /\ lost \subseteq Items /\ backfilled \subseteq Items
    /\ posts \in [Items -> Nat]

(* An item is posted once, whether it comes from a backfill, as a new item, *)
(* again with its file, or in several of these ways at once.                *)
PostedOnce == \A i \in Items : posts[i] <= 1

(* A live message with a file is not posted before it can be posted with    *)
(* it, and stays with it: only a backfill posts the message alone, and only *)
(* an edit whose upload fails drops the file.                               *)
NoHalfMessages ==
    \A i \in Files :
        /\ shown[i].as = "caption" => i \in backfilled
        /\ shown[i].as = "bare" => i \in backfilled \/ shown[i].ver > 1

Quiet == events = << >> /\ queue = << >> /\ room # "fetching"

Due(i) == version[i] > 0 /\ (i \in Files => file[i] = "complete")

(* Once everything is handled, the room shows the last version of every     *)
(* item no event of which was lost and no content of those deleted,         *)
(* although edits of an item that waits for its file are thrown away and a  *)
(* backfill may run ahead of the events.                                    *)
RoomCatchesUp ==
    Quiet => \A i \in Items \ lost :
                IF i \in deleted THEN shown[i].as \in {"none", "tombstone"}
                ELSE Due(i) => shown[i].ver = version[i]

(* The room is a timeline of the chat: what events, files and the backfill  *)
(* do to it in any order, in many steps, is a step of Timeline or none.  In *)
(* particular no message appears a second time or after its removal, and    *)
(* one that was posted live never goes back to an older version, although   *)
(* no edit says which one it follows.                                       *)
Message == [i \in Items |-> IF i \in db THEN "posted"
                            ELSE IF posts[i] > 0 THEN "removed" ELSE "none"]

Shows == [i \in Items |-> IF shown[i].as = "tombstone" THEN 0 ELSE shown[i].ver]

Reading == INSTANCE Timeline WITH message <- Message, shows <- Shows, history <- backfilled

ImplementsTimeline == Reading!Spec

(* The file is in the room, or the notice that takes its place when its     *)
(* upload fails; or an edit, whose own upload failed, has dropped it again. *)
ShowsFile(i) == \/ shown[i].as \in {"file", "notice"}
                \/ shown[i].as = "bare" /\ shown[i].ver > 1

(* A message that was skipped because its file was pending is shown with    *)
(* the file once that has arrived.  Unless an event of it was lost, or a    *)
(* backfill ran ahead and posted it without its file: the portal then takes *)
(* what rcvFileComplete brings for a message it knows, and the file stays   *)
(* out of the room.                                                         *)
FilesArrive ==
    \A i \in Files : (file[i] = "complete" /\ room = "open")
                     ~> (ShowsFile(i) \/ i \in deleted \union lost \union backfilled)
================================================================================
