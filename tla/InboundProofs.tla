----------------------------- MODULE InboundProofs -----------------------------
(* Theorems about Inbound, for any items, versions and channel capacity.    *)
EXTENDS Inbound, TLAPS

EventType == {"newChatItems", "rcvFileComplete", "rcvFileDescrReady",
              "chatItemUpdated", "chatItemsDeleted"}
RemoteType == {"message", "edit", "remove"}

-----------------------------------------------------------------------------
(* What the three kinds of steps do.                                        *)

Existed == \A i \in Items : version[i] = 0 => i \notin deleted /\ file[i] = "none"

FilesStay == \A i \in Items : file[i] = "complete" => file'[i] = "complete"

(* The server sends at most one event, about an item that was not deleted.  *)
Emitted ==
    \/ UNCHANGED events
    \/ \E i \in Items \ deleted, type \in EventType :
          /\ events' = Append(events, [type |-> type, view |-> Seen(i)])
          /\ Len(events) < EventCap
          /\ version'[i] \in 1 .. MaxVersion
          /\ type = "chatItemsDeleted" => i \in deleted'
          /\ type = "chatItemUpdated" => version'[i] > 1

LEMMA EmitOne ==
    ASSUME TypeOK, NEW i \in Items \ deleted, NEW type \in EventType, Emit(type, i),
           version'[i] \in 1 .. MaxVersion,
           type = "chatItemsDeleted" => i \in deleted',
           type = "chatItemUpdated" => version'[i] > 1
    PROVE  Emitted /\ lost' \subseteq Items
BY DEF Emit, Emitted, TypeOK

LEMMA ServerStep ==
    ASSUME TypeOK, Existed, Server
    PROVE  /\ UNCHANGED <<queue, fetched, portalVars>>
           /\ Emitted /\ FilesStay /\ deleted \subseteq deleted'
           /\ version' \in [Items -> 0 .. MaxVersion] /\ deleted' \subseteq Items
           /\ file' \in [Items -> {"none", "offered", "described", "accepted",
                                   "complete", "failed"}]
           /\ up' \in BOOLEAN /\ lost' \subseteq Items /\ Existed'
<1> USE InboundAssumption DEF InboundAssumption, TypeOK, Existed, FilesStay
<1>0. UNCHANGED <<queue, fetched, portalVars>>
  BY DEF Server
<1>1. CASE Connection
  BY <1>0, <1>1 DEF Connection, Emitted
<1>2. ASSUME NEW i \in Items, Create(i)
      PROVE  /\ Emitted /\ FilesStay /\ deleted \subseteq deleted'
             /\ version' \in [Items -> 0 .. MaxVersion] /\ deleted' \subseteq Items
             /\ file' \in [Items -> {"none", "offered", "described", "accepted",
                                     "complete", "failed"}]
             /\ up' \in BOOLEAN /\ lost' \subseteq Items /\ Existed'
  <2>1. i \notin deleted /\ version' = [version EXCEPT ![i] = 1]
    BY <1>2 DEF Create
  <2>2. Emitted /\ lost' \subseteq Items
    BY <1>2, <2>1, EmitOne DEF Create, EventType
  <2>3. PICK f \in {"offered", "complete", "none"} : file' = [file EXCEPT ![i] = f]
    BY <1>2 DEF Create
  <2>4. version' \in [Items -> 0 .. MaxVersion] /\ UNCHANGED <<deleted, up>>
    BY <1>2, <2>1 DEF Create
  <2>5. file[i] = "none"
    BY <1>2 DEF Create
  <2>6. FilesStay
    BY <2>3, <2>5
  <2>7. Existed'
    BY <2>1, <2>3, <2>4
  <2>8. file' \in [Items -> {"none", "offered", "described", "accepted",
                           "complete", "failed"}]
    BY <2>3
  <2> QED BY <2>2, <2>4, <2>6, <2>7, <2>8
<1>3. ASSUME NEW i \in Items, Edit(i)
      PROVE  /\ Emitted /\ UNCHANGED <<file, deleted, up>> /\ Existed'
             /\ version' \in [Items -> 0 .. MaxVersion] /\ lost' \subseteq Items
  <2>1. /\ i \notin deleted /\ version[i] > 0 /\ version[i] < MaxVersion
        /\ version' = [version EXCEPT ![i] = @ + 1]
        /\ UNCHANGED <<deleted, file, up>>
    BY <1>3 DEF Edit, Exists
  <2>2. /\ version' \in [Items -> 0 .. MaxVersion]
        /\ version'[i] \in 1 .. MaxVersion /\ version'[i] > 1
    BY <2>1
  <2>3. Emitted /\ lost' \subseteq Items
    BY <1>3, <2>1, <2>2, EmitOne DEF Edit, EventType
  <2> QED BY <2>1, <2>2, <2>3
<1>4. ASSUME NEW i \in Items, Delete(i)
      PROVE  /\ Emitted /\ UNCHANGED <<version, file, up>> /\ Existed'
             /\ deleted \subseteq deleted' /\ deleted' \subseteq Items /\ lost' \subseteq Items
  <2>1. /\ i \notin deleted /\ version[i] > 0 /\ deleted' = deleted \union {i}
        /\ UNCHANGED <<version, file, up>>
    BY <1>4 DEF Delete, Exists
  <2>2. Emitted /\ lost' \subseteq Items
    BY <1>4, <2>1, EmitOne DEF Delete, EventType
  <2> QED BY <2>1, <2>2
<1>5. ASSUME NEW i \in Items, NEW from, NEW to, NEW type \in EventType,
             FileStep(i, from, to, type), from # "complete",
             to \in {"described", "complete"},
             type \in {"rcvFileDescrReady", "rcvFileComplete"}
      PROVE  /\ Emitted /\ FilesStay /\ UNCHANGED <<version, deleted, up>> /\ Existed'
             /\ file' \in [Items -> {"none", "offered", "described", "accepted",
                                     "complete", "failed"}]
             /\ lost' \subseteq Items
  <2>1. /\ i \notin deleted /\ version[i] > 0 /\ file[i] = from
        /\ file' = [file EXCEPT ![i] = to] /\ UNCHANGED <<version, deleted, up>>
    BY <1>5 DEF FileStep, Exists
  <2>2. Emitted /\ lost' \subseteq Items
    BY <1>5, <2>1, EmitOne DEF FileStep
  <2> QED BY <1>5, <2>1, <2>2
<1>6. ASSUME NEW i \in Items, FileFails(i)
      PROVE  /\ Emitted /\ FilesStay /\ UNCHANGED <<version, deleted, up, lost>> /\ Existed'
             /\ file' \in [Items -> {"none", "offered", "described", "accepted",
                                     "complete", "failed"}]
  BY <1>6 DEF FileFails, Emitted
<1>7. ASSUME NEW i \in Items,
             \/ FileStep(i, "offered", "described", "rcvFileDescrReady")
             \/ FileStep(i, "accepted", "complete", "rcvFileComplete")
      PROVE  /\ Emitted /\ FilesStay /\ UNCHANGED <<version, deleted, up>> /\ Existed'
             /\ file' \in [Items -> {"none", "offered", "described", "accepted",
                                     "complete", "failed"}]
             /\ lost' \subseteq Items
  <2>1. CASE FileStep(i, "offered", "described", "rcvFileDescrReady")
    BY <1>5, <2>1 DEF EventType
  <2>2. CASE FileStep(i, "accepted", "complete", "rcvFileComplete")
    BY <1>5, <2>2 DEF EventType
  <2> QED BY <1>7, <2>1, <2>2
<1>8. CASE \E i \in Items : Create(i)
  BY <1>0, <1>2, <1>8
<1>9. CASE \E i \in Items : Edit(i)
  BY <1>0, <1>3, <1>9
<1>10. CASE \E i \in Items : Delete(i)
  BY <1>0, <1>4, <1>10
<1>11. CASE \E i \in Items : FileFails(i)
  BY <1>0, <1>6, <1>11
<1>12. CASE \E i \in Items :
              \/ FileStep(i, "offered", "described", "rcvFileDescrReady")
              \/ FileStep(i, "accepted", "complete", "rcvFileComplete")
  BY <1>0, <1>7, <1>12
<1> QED BY <1>1, <1>8, <1>9, <1>10, <1>11, <1>12 DEF Server

(* It changes the version of one item, or deletes one, or neither.          *)
LEMMA ServerWrites ==
    ASSUME TypeOK, Existed, Server
    PROVE  \/ UNCHANGED <<version, deleted>>
           \/ \E i \in Items : /\ i \notin deleted /\ version[i] < MaxVersion
                               /\ version' = [version EXCEPT ![i] = @ + 1] /\ UNCHANGED deleted
           \/ \E i \in Items : /\ version[i] > 0 /\ i \notin deleted
                               /\ deleted' = deleted \union {i} /\ UNCHANGED version
<1>1. ASSUME NEW i \in Items, Create(i)
      PROVE  /\ i \notin deleted /\ version[i] < MaxVersion
             /\ version' = [version EXCEPT ![i] = @ + 1] /\ UNCHANGED deleted
  <2>1. version[i] = 0 /\ version' = [version EXCEPT ![i] = 1] /\ UNCHANGED deleted
    BY <1>1 DEF Create
  <2>2. [version EXCEPT ![i] = 1] = [version EXCEPT ![i] = @ + 1]
    BY <2>1 DEF TypeOK
  <2> QED BY <2>1, <2>2, InboundAssumption DEF InboundAssumption, Existed
<1>2. ASSUME NEW i \in Items, Edit(i)
      PROVE  /\ i \notin deleted /\ version[i] < MaxVersion
             /\ version' = [version EXCEPT ![i] = @ + 1] /\ UNCHANGED deleted
  BY <1>2 DEF Edit, Exists
<1>3. ASSUME NEW i \in Items, Delete(i)
      PROVE  /\ version[i] > 0 /\ i \notin deleted
             /\ deleted' = deleted \union {i} /\ UNCHANGED version
  BY <1>3 DEF Delete, Exists
<1>4. ASSUME NEW i \in Items, NEW from, NEW to, NEW type,
             FileFails(i) \/ FileStep(i, from, to, type)
      PROVE  UNCHANGED <<version, deleted>>
  BY <1>4 DEF FileFails, FileStep
<1>5. CASE Connection
  BY <1>5 DEF Connection
<1> QED BY <1>1, <1>2, <1>3, <1>4, <1>5 DEF Server

LEMMA VersionsGrow ==
    ASSUME TypeOK, Existed, Server
    PROVE  \A i \in Items : version[i] <= version'[i]
<1>1. version \in [Items -> 0 .. MaxVersion] /\ MaxVersion \in Nat
  BY InboundAssumption DEF TypeOK, InboundAssumption
<1>2. \/ UNCHANGED version
      \/ \E i \in Items : version' = [version EXCEPT ![i] = @ + 1]
  BY ServerWrites
<1> QED BY <1>1, <1>2

(* A handler takes an event and queues at most one remote event with its    *)
(* view: a message only if it has its file.                                 *)
Moved ==
    \/ UNCHANGED queue
    \/ \E type \in RemoteType :
          /\ queue' = Append(queue, [type |-> type, view |-> Head(events).view])
          /\ type = "message" => ~Pending(Head(events).view)
          /\ type = "edit" => Head(events).type = "chatItemUpdated"
          /\ type = "remove" => Head(events).type = "chatItemsDeleted"

LEMMA HandlerStep ==
    ASSUME TypeOK, Existed, HandleSimplexEvent
    PROVE  /\ events # << >> /\ events' = Tail(events)
           /\ Moved /\ FilesStay /\ Existed'
           /\ file' \in [Items -> {"none", "offered", "described", "accepted",
                                   "complete", "failed"}]
           /\ UNCHANGED <<version, deleted, up, fetched, portalVars, lost>>
<1> USE DEF TypeOK, Existed, FilesStay, Take, Moved, RemoteType, Queue, Item, serverVars
<1>1. CASE HandleNewChatItems
  BY <1>1 DEF HandleNewChatItems
<1>2. CASE HandleRcvFileComplete
  BY <1>2 DEF HandleRcvFileComplete
<1>3. CASE HandleRcvFileDescrReady
  <2>1. \/ UNCHANGED file
        \/ LET i == Head(events).view.item
           IN  file[i] = "described" /\ file' = [file EXCEPT ![i] = "accepted"]
    BY <1>3 DEF HandleRcvFileDescrReady
  <2> QED BY <1>3, <2>1 DEF HandleRcvFileDescrReady
<1>4. CASE HandleChatItemUpdated
  BY <1>4 DEF HandleChatItemUpdated
<1>5. CASE HandleChatItemsDeleted
  BY <1>5 DEF HandleChatItemsDeleted
<1> QED BY <1>1, <1>2, <1>3, <1>4, <1>5 DEF HandleSimplexEvent

-----------------------------------------------------------------------------
(* Type correctness.                                                        *)

LEMMA HeadIn ==
    ASSUME NEW S, NEW s \in Seq(S), s # << >>
    PROVE  Head(s) \in S /\ Tail(s) \in Seq(S) /\ Len(Tail(s)) <= Len(s)
OBVIOUS

LEMMA AppendIn ==
    ASSUME NEW S, NEW s \in Seq(S), NEW e \in S
    PROVE  Append(s, e) \in Seq(S)
OBVIOUS

Event == [type : EventType, view : View]
RemoteEvent == [type : RemoteType, view : View]

LEMMA Sequences ==
    TypeOK => events \in Seq(Event) /\ queue \in Seq(RemoteEvent)
BY DEF TypeOK, Event, RemoteEvent, EventType, RemoteType

LEMMA ConvertKnown ==
    ASSUME NEW v \in View, NEW uploads \in BOOLEAN, NEW failure \in {"notice", "bare"}
    PROVE  Convert(v, uploads, failure) \subseteq Content /\ Convert(v, uploads, failure) # {}
BY DEF Convert, Content, View

LEMMA ShowKnown ==
    ASSUME TypeOK, NEW v \in View, NEW uploads \in BOOLEAN,
           NEW failure \in {"notice", "bare"}, Show(v, uploads, failure)
    PROVE  shown' \in [Items -> [ver : 1 .. MaxVersion, as : Content] \union {Nothing}]
<1>1. PICK a \in Convert(v, uploads, failure) :
          shown' = [shown EXCEPT ![v.item] = [ver |-> v.ver, as |-> a]]
  BY DEF Show
<1>2. [ver |-> v.ver, as |-> a] \in [ver : 1 .. MaxVersion, as : Content]
  BY ConvertKnown DEF View
<1> QED BY <1>1, <1>2 DEF TypeOK

(* What Insert puts into the room for an item of the batch.                 *)
Inserted(i) ==
    LET v == CHOOSE w \in fetched : w.item = i
    IN  [ver |-> v.ver, as |-> CHOOSE a \in Convert(v, FALSE, "bare") : TRUE]

NewItems == {v.item : v \in fetched} \ db

LEMMA InsertedKnown ==
    ASSUME TypeOK, NEW i \in NewItems
    PROVE  Inserted(i) \in [ver : 1 .. MaxVersion, as : Content]
<1> DEFINE v == CHOOSE w \in fetched : w.item = i
<1>1. v \in fetched /\ v \in View
  BY DEF TypeOK, NewItems
<1>2. (CHOOSE a \in Convert(v, FALSE, "bare") : TRUE) \in Content
  BY <1>1, ConvertKnown
<1> QED BY <1>1, <1>2 DEF Inserted, View

LEMMA InsertStep ==
    ASSUME TypeOK, Insert
    PROVE  /\ NewItems \subseteq Items
           /\ db' = db \union NewItems /\ backfilled' = backfilled \union NewItems
           /\ shown' = [i \in Items |-> IF i \in NewItems THEN Inserted(i) ELSE shown[i]]
           /\ posts' = [i \in Items |-> IF i \in NewItems THEN posts[i] + 1 ELSE posts[i]]
           /\ fetched # {} /\ fetched' = {} /\ room' = "open"
           /\ UNCHANGED <<serverVars, events, queue, lost>>
BY DEF Insert, Inserted, NewItems, TypeOK, View

LEMMA FetchStep ==
    ASSUME TypeOK, Existed, FetchMessages
    PROVE  /\ fetched' \subseteq View /\ room = "fetching" /\ room' \in {"fetching", "open"}
           /\ fetched' # {} => room' = "fetching"
           /\ UNCHANGED <<serverVars, events, queue, db, shown, backfilled, posts, lost>>
<1> USE DEF TypeOK, Existed
<1>1. CASE fetched' = {}
  BY <1>1 DEF FetchMessages
<1>2. CASE fetched' # {}
  <2>1. PICK marked \in SUBSET deleted :
          fetched' = {[item |-> i, ver |-> version[i], ready |-> file[i] = "complete",
                       gone |-> i \in marked] :
                          i \in {j \in Items : Exists(j)} \union marked}
    BY <1>2 DEF FetchMessages
  <2>2. ASSUME NEW i \in {j \in Items : Exists(j)} \union marked
        PROVE  [item |-> i, ver |-> version[i], ready |-> file[i] = "complete",
                gone |-> i \in marked] \in View
    <3>1. i \in Items /\ version[i] \in 1 .. MaxVersion
      BY <2>2, InboundAssumption DEF InboundAssumption, Exists
    <3> QED BY <3>1 DEF View
  <2>3. fetched' \subseteq View
    BY <2>1, <2>2
  <2> QED BY <1>2, <2>3 DEF FetchMessages
<1> QED BY <1>1, <1>2

LEMMA TypeInit == Init => TypeOK /\ Existed
<1> SUFFICES ASSUME Init PROVE TypeOK /\ Existed
  OBVIOUS
<1>1. version \in [Items -> 0 .. MaxVersion] /\ Len(events) <= EventCap
  BY InboundAssumption DEF InboundAssumption, Init
<1> QED BY <1>1 DEF Init, TypeOK, Existed

LEMMA TypeNext == TypeOK /\ Existed /\ [Next]_vars => TypeOK' /\ Existed'
<1> SUFFICES ASSUME TypeOK, Existed, [Next]_vars PROVE TypeOK' /\ Existed'
  OBVIOUS
<1>1. CASE Server
  <2>1. /\ events' \in Seq([type : EventType, view : View]) /\ Len(events') <= EventCap
    <3>1. ASSUME NEW i \in Items, NEW type \in EventType, version'[i] \in 1 .. MaxVersion
          PROVE  [type |-> type, view |-> Seen(i)] \in [type : EventType, view : View]
      BY <3>1 DEF Seen, View
    <3>2. events \in Seq([type : EventType, view : View]) /\ Len(events) <= EventCap
      BY DEF TypeOK, EventType
    <3>3. Emitted
      BY <1>1, ServerStep
    <3>4. CASE UNCHANGED events
      BY <3>2, <3>4
    <3>5. CASE ~UNCHANGED events
      <4>1. PICK i \in Items \ deleted, type \in EventType :
               /\ events' = Append(events, [type |-> type, view |-> Seen(i)])
               /\ Len(events) < EventCap
               /\ version'[i] \in 1 .. MaxVersion
        BY <3>3, <3>5 DEF Emitted
      <4>2. [type |-> type, view |-> Seen(i)] \in [type : EventType, view : View]
        BY <3>1, <4>1
      <4> QED BY <3>2, <4>1, <4>2, InboundAssumption DEF InboundAssumption
    <3> QED BY <3>4, <3>5
  <2> QED BY <1>1, <2>1, ServerStep DEF TypeOK, EventType, portalVars
<1>2. CASE HandleSimplexEvent
  <2>1. events # << >> /\ events' = Tail(events) /\ Moved
    BY <1>2, HandlerStep
  <2>2. Head(events).view \in View
    <3>1. Head(events) \in Event
      BY <2>1, Sequences, HeadIn
    <3> QED BY <3>1 DEF Event
  <2>3. events' \in Seq([type : EventType, view : View]) /\ Len(events') <= EventCap
    BY <2>1, InboundAssumption DEF InboundAssumption, TypeOK, EventType
  <2>4. queue' \in Seq([type : RemoteType, view : View])
    <3>1. ASSUME NEW type \in RemoteType
          PROVE  [type |-> type, view |-> Head(events).view] \in RemoteEvent
      BY <2>2 DEF RemoteEvent
    <3>2. queue' \in Seq(RemoteEvent)
      BY <2>1, <3>1, Sequences, AppendIn DEF Moved
    <3> QED BY <3>2 DEF RemoteEvent
  <2> QED BY <1>2, <2>3, <2>4, HandlerStep
          DEF TypeOK, EventType, RemoteType, serverVars, portalVars
<1>3. CASE CreateRoom
  BY <1>3 DEF CreateRoom, TypeOK, Existed, serverVars
<1>4. CASE FetchMessages
  BY <1>4, FetchStep DEF TypeOK, Existed, serverVars
<1>5. CASE Insert
  <2>1. shown' \in [Items -> [ver : 1 .. MaxVersion, as : Content] \union {Nothing}]
    <3>1. shown \in [Items -> [ver : 1 .. MaxVersion, as : Content] \union {Nothing}]
      BY DEF TypeOK
    <3>2. shown' = [i \in Items |-> IF i \in NewItems THEN Inserted(i) ELSE shown[i]]
      BY <1>5, InsertStep
    <3> QED BY <3>1, <3>2, InsertedKnown
  <2>2. posts' \in [Items -> Nat] /\ db' \subseteq Items /\ backfilled' \subseteq Items
    <3>1. posts' = [i \in Items |-> IF i \in NewItems THEN posts[i] + 1 ELSE posts[i]]
      BY <1>5, InsertStep
    <3>2. posts' \in [Items -> Nat]
      BY <3>1 DEF TypeOK
    <3>3. db' = db \union NewItems /\ backfilled' = backfilled \union NewItems
      BY <1>5, InsertStep
    <3>4. NewItems \subseteq Items
      BY <1>5, InsertStep
    <3> QED BY <3>2, <3>3, <3>4 DEF TypeOK
  <2> QED BY <1>5, <2>1, <2>2, InsertStep DEF TypeOK, Existed, serverVars
<1>6. ASSUME NEW type, Pop(type)
      PROVE  /\ queue # << >> /\ Head(queue).view \in View
             /\ queue' \in Seq([type : RemoteType, view : View])
             /\ UNCHANGED <<serverVars, events, fetched, room, backfilled, lost>>
  <2>1. queue # << >> /\ queue' = Tail(queue)
    BY <1>6 DEF Pop
  <2>2. Head(queue) \in RemoteEvent /\ queue' \in Seq(RemoteEvent)
    BY <2>1, Sequences, HeadIn
  <2> QED BY <1>6, <2>1, <2>2 DEF Pop, RemoteEvent
<1>7. CASE PortalMessage
  <2>1. Pop("message")
    BY <1>7 DEF PortalMessage
  <2>2. shown' \in [Items -> [ver : 1 .. MaxVersion, as : Content] \union {Nothing}]
    BY <1>6, <1>7, <2>1, ShowKnown DEF PortalMessage, TypeOK
  <2>3. db' \subseteq Items /\ posts' \in [Items -> Nat]
    <3>1. Head(queue).view.item \in Items
      BY <1>6, <2>1 DEF View
    <3> DEFINE i == Head(queue).view.item
    <3>2. db' = db \/ db' = db \union {i}
      BY <1>7 DEF PortalMessage
    <3>3. posts' = posts \/ posts' = [posts EXCEPT ![i] = @ + 1]
      BY <1>7 DEF PortalMessage
    <3>4. posts' \in [Items -> Nat]
      BY <3>3 DEF TypeOK
    <3> QED BY <3>1, <3>2, <3>4 DEF TypeOK
  <2> QED BY <1>6, <2>1, <2>2, <2>3 DEF TypeOK, Existed, serverVars, RemoteType
<1>8. CASE PortalEdit
  <2>1. Pop("edit")
    BY <1>8 DEF PortalEdit
  <2>2. shown' \in [Items -> [ver : 1 .. MaxVersion, as : Content] \union {Nothing}]
    BY <1>6, <1>8, <2>1, ShowKnown DEF PortalEdit, TypeOK
  <2>3. UNCHANGED <<db, posts>>
    BY <1>8 DEF PortalEdit
  <2> QED BY <1>6, <2>1, <2>2, <2>3 DEF TypeOK, Existed, serverVars, RemoteType
<1>9. CASE PortalRemove
  <2>1. Pop("remove")
    BY <1>9 DEF PortalRemove
  <2>2. shown' \in [Items -> [ver : 1 .. MaxVersion, as : Content] \union {Nothing}]
    BY <1>9 DEF PortalRemove, TypeOK
  <2>3. db' \subseteq Items /\ UNCHANGED posts
    BY <1>9 DEF PortalRemove, TypeOK
  <2> QED BY <1>6, <2>1, <2>2, <2>3 DEF TypeOK, Existed, serverVars, RemoteType
<1>10. CASE UNCHANGED vars
  BY <1>10 DEF vars, serverVars, portalVars, TypeOK, Existed
<1> QED BY <1>1, <1>2, <1>3, <1>4, <1>5, <1>7, <1>8, <1>9, <1>10 DEF Next, Portal

(* Every variable of the way from SimpleX to a room keeps its type.         *)
THEOREM TypeCorrect == Spec => []TypeOK
BY TypeInit, TypeNext, PTL DEF Spec

-----------------------------------------------------------------------------
(* The order of what is on its way.  An event or remote event is sound, and *)
(* one that comes after another about the same item has its file if that    *)
(* had it, no older version, and does not follow a removal.                 *)

Removal(e) == e.type \in {"remove", "chatItemsDeleted"}

SoundIn(e, files, removed, versions) ==
    /\ e.view.item \in Items /\ ~e.view.gone
    /\ e.view.ver \in Nat /\ e.view.ver <= versions[e.view.item]
    /\ e.view.ready => files[e.view.item] = "complete"
    /\ Removal(e) => e.view.item \in removed
    /\ e.type = "message" => ~Pending(e.view)
    /\ e.type \in {"edit", "chatItemUpdated"} => e.view.ver > 1

Sound(e) == SoundIn(e, file, deleted, version)

Precedes(d, e) ==
    d.view.item = e.view.item =>
        (d.view.ready => e.view.ready) /\ d.view.ver <= e.view.ver /\ ~Removal(d)

Pipeline ==
    /\ \A b \in 1 .. Len(events) : Sound(events[b])
    /\ \A a \in 1 .. Len(queue) : Sound(queue[a])
    /\ \A a, b \in 1 .. Len(events) : a < b => Precedes(events[a], events[b])
    /\ \A a, b \in 1 .. Len(queue) : a < b => Precedes(queue[a], queue[b])
    /\ \A a \in 1 .. Len(queue), b \in 1 .. Len(events) : Precedes(queue[a], events[b])

(* All that is on its way about item i has its file; nothing is on its way. *)
AllReady(i) ==
    /\ \A a \in 1 .. Len(queue) : queue[a].view.item = i => queue[a].view.ready
    /\ \A b \in 1 .. Len(events) : events[b].view.item = i => events[b].view.ready

NoneOf(i) ==
    /\ \A a \in 1 .. Len(queue) : queue[a].view.item # i
    /\ \A b \in 1 .. Len(events) : events[b].view.item # i

(* A live message with a file is not followed by anything that lacks it, a  *)
(* message that was posted and removed by nothing at all.                   *)
Settled ==
    \A i \in Items :
        /\ i \in Files /\ i \in db \ backfilled => file[i] = "complete" /\ AllReady(i)
        /\ posts[i] > 0 /\ i \notin db => i \in deleted /\ NoneOf(i)

Rooms ==
    /\ room # "open" => db = {} /\ \A i \in Items : posts[i] = 0
    /\ fetched # {} => room = "fetching"

IInv == TypeOK /\ Existed /\ Pipeline /\ Settled /\ Rooms /\ PostedOnce /\ NoHalfMessages

LEMMA InvInit == Init => IInv
<1> SUFFICES ASSUME Init PROVE IInv
  OBVIOUS
<1>1. TypeOK /\ Existed
  BY TypeInit
<1>2. Pipeline
  BY DEF Init, Pipeline
<1>3. Settled /\ Rooms /\ PostedOnce
  BY DEF Init, Settled, Rooms, PostedOnce
<1>4. NoHalfMessages
  BY InboundAssumption DEF InboundAssumption, Init, NoHalfMessages, Nothing
<1> QED BY <1>1, <1>2, <1>3, <1>4 DEF IInv

LEMMA ServerKeepsOrder == IInv /\ Server => Pipeline' /\ Settled'
<1> SUFFICES ASSUME IInv, Server PROVE Pipeline' /\ Settled'
  OBVIOUS
<1>0. /\ UNCHANGED <<queue, fetched, portalVars>>
      /\ Emitted /\ FilesStay /\ deleted \subseteq deleted'
  BY ServerStep DEF IInv
<1>4. /\ \A i \in Items : version[i] \in Nat /\ version'[i] \in Nat /\ version[i] <= version'[i]
  BY VersionsGrow, ServerStep DEF IInv, TypeOK
<1>1. ASSUME NEW e, Sound(e) PROVE SoundIn(e, file', deleted', version')
  BY <1>0, <1>4, <1>1 DEF Sound, SoundIn, Removal, FilesStay, Pending
<1>2. CASE UNCHANGED events
  <2>1. Pipeline'
    BY <1>0, <1>1, <1>2 DEF IInv, Pipeline, Precedes, Removal, Sound
  <2>2. Settled'
    BY <1>0, <1>2 DEF IInv, Settled, AllReady, NoneOf, FilesStay, portalVars
  <2> QED BY <2>1, <2>2
<1>3. ASSUME NEW i \in Items \ deleted, NEW type \in EventType,
             events' = Append(events, [type |-> type, view |-> Seen(i)]),
             version'[i] \in 1 .. MaxVersion,
             type = "chatItemsDeleted" => i \in deleted',
             type = "chatItemUpdated" => version'[i] > 1
      PROVE  Pipeline' /\ Settled'
  <2> DEFINE new == [type |-> type, view |-> Seen(i)]
  <2>1. /\ new.type = type /\ new.view.item = i /\ ~new.view.gone
        /\ new.view.ready <=> file'[i] = "complete"
        /\ new.view.ver = version'[i]
    BY DEF Seen
  <2>2. SoundIn(new, file', deleted', version')
    BY <1>3, <2>1 DEF SoundIn, Removal, EventType
  <2>3. events \in Seq(Event)
    BY Sequences DEF IInv
  <2>4. /\ Len(events') = Len(events) + 1 /\ events'[Len(events) + 1] = new
        /\ \A b \in 1 .. Len(events) : events'[b] = events[b]
    BY <1>3, <2>3
  <2>5. ASSUME NEW d, Sound(d) PROVE Precedes(d, new)
    BY <1>0, <1>4, <2>1, <2>5 DEF Sound, SoundIn, Precedes, FilesStay
  <2>6. \A b \in 1 .. Len(events') : b \in 1 .. Len(events) \/ b = Len(events) + 1
    BY <2>3, <2>4
  <2> HIDE DEF new
  <2>7. Pipeline'
    <3>1. \A b \in 1 .. Len(events') : SoundIn(events'[b], file', deleted', version')
      BY <1>1, <2>2, <2>4, <2>6 DEF IInv, Pipeline
    <3>2. \A a \in 1 .. Len(queue') : SoundIn(queue'[a], file', deleted', version')
      BY <1>0, <1>1 DEF IInv, Pipeline
    <3>3. \A a, b \in 1 .. Len(events') : a < b => Precedes(events'[a], events'[b])
      <4> SUFFICES ASSUME NEW a \in 1 .. Len(events'), NEW b \in 1 .. Len(events'), a < b
                   PROVE  Precedes(events'[a], events'[b])
        OBVIOUS
      <4>1. a \in 1 .. Len(events) /\ events'[a] = events[a]
        BY <2>3, <2>4, <2>6
      <4>2. CASE b \in 1 .. Len(events)
        BY <2>4, <4>1, <4>2 DEF IInv, Pipeline
      <4>3. CASE b = Len(events) + 1
        BY <2>4, <2>5, <4>1, <4>3 DEF IInv, Pipeline
      <4> QED BY <2>6, <4>2, <4>3
    <3>4. \A a, b \in 1 .. Len(queue') : a < b => Precedes(queue'[a], queue'[b])
      BY <1>0 DEF IInv, Pipeline
    <3>5. \A a \in 1 .. Len(queue'), b \in 1 .. Len(events') : Precedes(queue'[a], events'[b])
      BY <1>0, <2>4, <2>5, <2>6 DEF IInv, Pipeline
    <3> QED BY <3>1, <3>2, <3>3, <3>4, <3>5 DEF Pipeline, Precedes, Removal, Sound
  <2>8. ASSUME NEW j \in Items, j \in Files, j \in (db \ backfilled)'
        PROVE  file'[j] = "complete" /\ AllReady(j)'
    <3>1. file[j] = "complete" /\ AllReady(j)
      BY <1>0, <2>8 DEF IInv, Settled, portalVars
    <3>2. file'[j] = "complete"
      BY <1>0, <3>1 DEF FilesStay
    <3> QED BY <1>0, <2>1, <2>4, <2>6, <3>1, <3>2 DEF AllReady
  <2>9. ASSUME NEW j \in Items, posts'[j] > 0, j \notin db'
        PROVE  j \in deleted' /\ NoneOf(j)'
    <3>1. j \in deleted /\ NoneOf(j)
      BY <1>0, <2>9 DEF IInv, Settled, portalVars
    <3> QED BY <1>0, <2>1, <2>4, <2>6, <3>1 DEF NoneOf
  <2> QED BY <2>7, <2>8, <2>9 DEF Settled
<1> QED BY <1>0, <1>2, <1>3 DEF Emitted

LEMMA TailOf ==
    ASSUME NEW S, NEW s \in Seq(S), s # << >>
    PROVE  /\ Head(s) = s[1] /\ 1 \in 1 .. Len(s)
           /\ \A a \in 1 .. Len(Tail(s)) : a + 1 \in 1 .. Len(s) /\ Tail(s)[a] = s[a + 1]
OBVIOUS

LEMMA HandlerKeepsOrder == IInv /\ HandleSimplexEvent => Pipeline' /\ Settled'
<1> SUFFICES ASSUME IInv, HandleSimplexEvent PROVE Pipeline' /\ Settled'
  OBVIOUS
<1> DEFINE first == events[1]
<1>0. /\ events # << >> /\ events' = Tail(events)
      /\ Moved /\ FilesStay
      /\ UNCHANGED <<version, deleted, up, fetched, portalVars, lost>>
  BY HandlerStep DEF IInv
<1>1. ASSUME NEW e, Sound(e) PROVE SoundIn(e, file', deleted', version')
  BY <1>0, <1>1 DEF Sound, SoundIn, Removal, FilesStay, Pending
<1>2. events \in Seq(Event) /\ queue \in Seq(RemoteEvent)
  BY Sequences DEF IInv
<1>3. /\ Head(events) = first /\ 1 \in 1 .. Len(events)
      /\ \A b \in 1 .. Len(events') : b + 1 \in 1 .. Len(events) /\ events'[b] = events[b + 1]
  BY <1>0, <1>2, TailOf
<1>4. /\ Sound(first)
      /\ \A b \in 1 .. Len(events') : Precedes(first, events'[b])
      /\ \A a \in 1 .. Len(queue) : Precedes(queue[a], first)
  <2>1. \A b \in 1 .. Len(events') : 1 < b + 1
    OBVIOUS
  <2> QED BY <1>3, <2>1 DEF IInv, Pipeline
<1>5. /\ \A b \in 1 .. Len(events') : SoundIn(events'[b], file', deleted', version')
      /\ \A a, b \in 1 .. Len(events') : a < b => Precedes(events'[a], events'[b])
      /\ \A a \in 1 .. Len(queue), b \in 1 .. Len(events') : Precedes(queue[a], events'[b])
  <2>1. \A a, b \in 1 .. Len(events') : a < b => a + 1 < b + 1
    OBVIOUS
  <2> QED BY <1>1, <1>3, <2>1 DEF IInv, Pipeline
<1>6. \A j \in Items : file[j] = "complete" => file'[j] = "complete"
  BY <1>0 DEF FilesStay
<1>7. CASE UNCHANGED queue
  <2>1. Pipeline'
    <3>1. \A a \in 1 .. Len(queue') : SoundIn(queue'[a], file', deleted', version')
      BY <1>1, <1>7 DEF IInv, Pipeline
    <3> QED BY <1>5, <1>7, <3>1 DEF IInv, Pipeline, Sound, Precedes, Removal
  <2>2. Settled'
    BY <1>0, <1>3, <1>6, <1>7 DEF IInv, Settled, AllReady, NoneOf, portalVars
  <2> QED BY <2>1, <2>2
<1>8. ASSUME NEW type \in RemoteType,
             queue' = Append(queue, [type |-> type, view |-> first.view]),
             type = "message" => ~Pending(first.view),
             type = "edit" => first.type = "chatItemUpdated",
             type = "remove" => first.type = "chatItemsDeleted"
      PROVE  Pipeline' /\ Settled'
  <2> DEFINE new == [type |-> type, view |-> first.view]
  <2>1. new.type = type /\ new.view = first.view
    OBVIOUS
  <2>2. SoundIn(new, file', deleted', version')
    <3>1. SoundIn(first, file', deleted', version')
      BY <1>1, <1>4
    <3> QED BY <1>8, <2>1, <3>1 DEF SoundIn, Removal, RemoteType
  <2>3. /\ Len(queue') = Len(queue) + 1 /\ queue'[Len(queue) + 1] = new
        /\ \A a \in 1 .. Len(queue) : queue'[a] = queue[a]
    BY <1>2, <1>8
  <2>4. \A a \in 1 .. Len(queue') : a \in 1 .. Len(queue) \/ a = Len(queue) + 1
    BY <1>2, <2>3
  <2>5. /\ \A a \in 1 .. Len(queue) : Precedes(queue[a], new)
        /\ \A b \in 1 .. Len(events') : Precedes(new, events'[b])
    BY <1>4, <1>8, <2>1 DEF Precedes, Removal, RemoteType
  <2> HIDE DEF new
  <2>6. Pipeline'
    <3>1. \A a \in 1 .. Len(queue') : SoundIn(queue'[a], file', deleted', version')
      BY <1>1, <2>2, <2>3, <2>4 DEF IInv, Pipeline
    <3>2. \A a, b \in 1 .. Len(queue') : a < b => Precedes(queue'[a], queue'[b])
      <4> SUFFICES ASSUME NEW a \in 1 .. Len(queue'), NEW b \in 1 .. Len(queue'), a < b
                   PROVE  Precedes(queue'[a], queue'[b])
        OBVIOUS
      <4>1. a \in 1 .. Len(queue) /\ queue'[a] = queue[a]
        BY <1>2, <2>3, <2>4
      <4>2. CASE b \in 1 .. Len(queue)
        BY <2>3, <4>1, <4>2 DEF IInv, Pipeline
      <4>3. CASE b = Len(queue) + 1
        BY <2>3, <2>5, <4>1, <4>3
      <4> QED BY <2>4, <4>2, <4>3
    <3>3. \A a \in 1 .. Len(queue'), b \in 1 .. Len(events') : Precedes(queue'[a], events'[b])
      BY <1>5, <2>3, <2>4, <2>5
    <3> QED BY <1>5, <3>1, <3>2, <3>3 DEF Pipeline, Precedes, Removal, Sound
  <2>7. ASSUME NEW j \in Items, j \in Files, j \in (db \ backfilled)'
        PROVE  file'[j] = "complete" /\ AllReady(j)'
    <3>1. file[j] = "complete" /\ AllReady(j)
      BY <1>0, <2>7 DEF IInv, Settled, portalVars
    <3>2. first.view.item = j => first.view.ready
      BY <1>3, <3>1 DEF AllReady
    <3>3. file'[j] = "complete"
      BY <1>6, <3>1
    <3>4. \A a \in 1 .. Len(queue') : queue'[a].view.item = j => queue'[a].view.ready
      BY <2>1, <2>3, <2>4, <3>1, <3>2 DEF AllReady
    <3>5. \A b \in 1 .. Len(events') : events'[b].view.item = j => events'[b].view.ready
      BY <1>3, <3>1 DEF AllReady
    <3> QED BY <3>3, <3>4, <3>5 DEF AllReady
  <2>8. ASSUME NEW j \in Items, posts'[j] > 0, j \notin db'
        PROVE  j \in deleted' /\ NoneOf(j)'
    <3>1. j \in deleted /\ NoneOf(j)
      BY <1>0, <2>8 DEF IInv, Settled, portalVars
    <3> QED BY <1>0, <1>3, <2>1, <2>3, <2>4, <3>1 DEF NoneOf
  <2> QED BY <2>6, <2>7, <2>8 DEF Settled
<1> QED BY <1>0, <1>3, <1>7, <1>8 DEF Moved

-----------------------------------------------------------------------------
(* The portal.                                                              *)

LEMMA PopKeepsOrder ==
    ASSUME IInv, NEW type, Pop(type)
    PROVE  /\ Pipeline'
           /\ queue # << >> /\ Head(queue).type = type /\ Sound(Head(queue))
           /\ Head(queue).view \in View
           /\ \A a \in 1 .. Len(queue') : Precedes(Head(queue), queue'[a])
           /\ \A b \in 1 .. Len(events) : Precedes(Head(queue), events[b])
           /\ \A i \in Items : AllReady(i) => AllReady(i)'
           /\ \A i \in Items : NoneOf(i) => NoneOf(i)'
           /\ \A i \in Items : NoneOf(i) => Head(queue).view.item # i
           /\ UNCHANGED <<serverVars, events, fetched, room, backfilled, lost>>
<1>0. /\ queue # << >> /\ Head(queue).type = type /\ queue' = Tail(queue)
      /\ UNCHANGED <<serverVars, events, fetched, room, backfilled, lost>>
  BY DEF Pop
<1>1. /\ Head(queue) = queue[1] /\ 1 \in 1 .. Len(queue)
      /\ \A a \in 1 .. Len(queue') : a + 1 \in 1 .. Len(queue) /\ queue'[a] = queue[a + 1]
  BY <1>0, Sequences, TailOf DEF IInv
<1>2. Head(queue).view \in View
  <2>1. Head(queue) \in RemoteEvent
    BY <1>0, Sequences, HeadIn DEF IInv
  <2> QED BY <2>1 DEF RemoteEvent
<1>3. /\ \A a \in 1 .. Len(queue') : 1 < a + 1
      /\ \A a, b \in 1 .. Len(queue') : a < b => a + 1 < b + 1
  OBVIOUS
<1>4. Pipeline'
  BY <1>0, <1>1, <1>3 DEF IInv, Pipeline, Sound, SoundIn, Removal, Precedes, Pending, serverVars
<1>5. /\ Sound(Head(queue))
      /\ \A a \in 1 .. Len(queue') : Precedes(Head(queue), queue'[a])
      /\ \A b \in 1 .. Len(events) : Precedes(Head(queue), events[b])
  BY <1>1, <1>3 DEF IInv, Pipeline
<1>6. /\ \A i \in Items : AllReady(i) => AllReady(i)'
      /\ \A i \in Items : NoneOf(i) => NoneOf(i)' /\ Head(queue).view.item # i
  BY <1>0, <1>1 DEF AllReady, NoneOf
<1> QED BY <1>0, <1>2, <1>4, <1>5, <1>6

LEMMA MessageStep ==
    ASSUME IInv, PortalMessage
    PROVE  Pipeline' /\ Settled' /\ Rooms' /\ PostedOnce' /\ NoHalfMessages'
<1> DEFINE v == Head(queue).view
           i == v.item
<1>0. Pop("message") /\ room = "open"
  BY DEF PortalMessage
<1>1. /\ Pipeline' /\ Sound(Head(queue)) /\ v \in View /\ i \in Items
      /\ \A a \in 1 .. Len(queue') : Precedes(Head(queue), queue'[a])
      /\ \A b \in 1 .. Len(events) : Precedes(Head(queue), events[b])
      /\ \A j \in Items : AllReady(j) => AllReady(j)'
      /\ \A j \in Items : NoneOf(j) => NoneOf(j)' /\ i # j
      /\ UNCHANGED <<serverVars, events, fetched, room, backfilled, lost>>
  BY <1>0, PopKeepsOrder DEF View
<1>2. Rooms'
  BY <1>0, <1>1 DEF IInv, Rooms
<1>3. ~v.gone /\ (i \in Files => v.ready /\ file[i] = "complete")
  BY <1>0, <1>1, PopKeepsOrder DEF Sound, SoundIn, Pending
<1>4. CASE i \in db
  <2>1. UNCHANGED <<db, shown, posts>>
    BY <1>4 DEF PortalMessage
  <2> QED BY <1>1, <1>2, <2>1 DEF IInv, Settled, PostedOnce, NoHalfMessages, serverVars
<1>5. CASE i \notin db
  <2>1. /\ db' = db \union {i} /\ Show(v, TRUE, "notice")
        /\ posts' = [posts EXCEPT ![i] = @ + 1]
    BY <1>5 DEF PortalMessage
  <2>2. posts[i] = 0 /\ posts \in [Items -> Nat]
    BY <1>1, <1>5 DEF IInv, Settled, TypeOK
  <2>3. PostedOnce'
    BY <2>1, <2>2 DEF IInv, PostedOnce
  <2>4. PICK a \in Convert(v, TRUE, "notice") :
            shown' = [shown EXCEPT ![i] = [ver |-> v.ver, as |-> a]]
    BY <2>1 DEF Show
  <2>5. a \in {"text", "file", "notice"}
    BY <1>3, <2>4 DEF Convert
  <2>6. NoHalfMessages'
    BY <1>1, <2>4, <2>5, InboundAssumption
    DEF IInv, TypeOK, NoHalfMessages, InboundAssumption
  <2>7. ASSUME NEW j \in Files, j = i PROVE AllReady(j)'
    BY <1>1, <1>3, <2>7 DEF Precedes, AllReady
  <2>8. Settled'
    <3>1. ASSUME NEW j \in Items, j \in Files, j \in (db \ backfilled)'
          PROVE  file'[j] = "complete" /\ AllReady(j)'
      <4>1. CASE j = i
        <5>1. AllReady(j)'
          BY <2>7, <3>1, <4>1
        <5> QED BY <1>1, <1>3, <3>1, <4>1, <5>1 DEF serverVars
      <4>2. CASE j # i
        BY <1>1, <2>1, <3>1, <4>2 DEF IInv, Settled, serverVars
      <4> QED BY <4>1, <4>2
    <3>2. ASSUME NEW j \in Items, posts'[j] > 0, j \notin db'
          PROVE  j \in deleted' /\ NoneOf(j)'
      <4>1. j # i /\ posts[j] > 0 /\ j \notin db
        BY <2>1, <2>2, <3>2
      <4> QED BY <1>1, <4>1 DEF IInv, Settled, serverVars
    <3> QED BY <3>1, <3>2 DEF Settled
  <2> QED BY <1>1, <1>2, <2>3, <2>6, <2>8
<1> QED BY <1>4, <1>5

LEMMA EditStep ==
    ASSUME IInv, PortalEdit
    PROVE  Pipeline' /\ Settled' /\ Rooms' /\ PostedOnce' /\ NoHalfMessages'
<1> DEFINE v == Head(queue).view
           i == v.item
<1>0. Pop("edit") /\ UNCHANGED <<db, posts>>
  BY DEF PortalEdit
<1>1. /\ Pipeline' /\ Sound(Head(queue)) /\ v \in View /\ i \in Items /\ queue # << >>
      /\ \A j \in Items : AllReady(j) => AllReady(j)'
      /\ \A j \in Items : NoneOf(j) => NoneOf(j)'
      /\ UNCHANGED <<serverVars, events, fetched, room, backfilled, lost>>
  BY <1>0, PopKeepsOrder DEF View
<1>2. Rooms' /\ PostedOnce' /\ Settled'
  BY <1>0, <1>1 DEF IInv, Rooms, PostedOnce, Settled, serverVars
<1>3. CASE UNCHANGED shown
  BY <1>1, <1>2, <1>3 DEF IInv, NoHalfMessages
<1>4. CASE ~UNCHANGED shown
  <2>1. i \in db /\ Show(v, TRUE, "bare")
    BY <1>4 DEF PortalEdit
  <2>2. PICK a \in Convert(v, TRUE, "bare") :
            shown' = [shown EXCEPT ![i] = [ver |-> v.ver, as |-> a]]
    BY <2>1 DEF Show
  <2>3. ~v.gone /\ v.ver > 1
    BY <1>0, <1>1, PopKeepsOrder DEF Sound, SoundIn
  <2>4. i \in Files /\ i \notin backfilled => v.ready
    <3>1. queue[1].view = v /\ 1 \in 1 .. Len(queue)
      BY <1>1, Sequences, TailOf DEF IInv
    <3> QED BY <1>1, <2>1, <3>1 DEF IInv, Settled, AllReady
  <2>5. i \in Files => (a = "caption" => i \in backfilled)
    BY <2>2, <2>3, <2>4 DEF Convert
  <2>6. NoHalfMessages'
    <3> SUFFICES ASSUME NEW j \in Files
                 PROVE  /\ shown'[j].as = "caption" => j \in backfilled
                        /\ shown'[j].as = "bare" => j \in backfilled \/ shown'[j].ver > 1
      BY <1>1 DEF NoHalfMessages
    <3>1. j \in Items
      BY InboundAssumption DEF InboundAssumption
    <3>2. CASE j = i
      <4>1. shown'[j] = [ver |-> v.ver, as |-> a]
        BY <1>1, <2>2, <3>1, <3>2 DEF IInv, TypeOK
      <4> QED BY <2>3, <2>5, <3>2, <4>1
    <3>3. CASE j # i
      <4>1. shown'[j] = shown[j]
        BY <2>2, <3>1, <3>3 DEF IInv, TypeOK
      <4> QED BY <4>1 DEF IInv, NoHalfMessages
    <3> QED BY <3>2, <3>3
  <2> QED BY <1>1, <1>2, <2>6
<1> QED BY <1>3, <1>4

LEMMA RemoveStep ==
    ASSUME IInv, PortalRemove
    PROVE  Pipeline' /\ Settled' /\ Rooms' /\ PostedOnce' /\ NoHalfMessages'
<1> DEFINE i == Head(queue).view.item
<1>0. /\ Pop("remove") /\ UNCHANGED posts
      /\ db' = db \ {i} /\ shown' = [shown EXCEPT ![i] = Nothing]
  BY DEF PortalRemove
<1>1. /\ Pipeline' /\ Sound(Head(queue)) /\ Removal(Head(queue)) /\ i \in Items
      /\ \A a \in 1 .. Len(queue') : Precedes(Head(queue), queue'[a])
      /\ \A b \in 1 .. Len(events) : Precedes(Head(queue), events[b])
      /\ \A j \in Items : AllReady(j) => AllReady(j)'
      /\ \A j \in Items : NoneOf(j) => NoneOf(j)'
      /\ UNCHANGED <<serverVars, events, fetched, room, backfilled, lost>>
  BY <1>0, PopKeepsOrder DEF View, Removal
<1>2. ASSUME NEW j \in Items, j = i PROVE j \in deleted /\ NoneOf(j)'
  BY <1>1, <1>2 DEF Sound, SoundIn, Precedes, NoneOf
<1>3. Rooms' /\ PostedOnce'
  BY <1>0, <1>1 DEF IInv, Rooms, PostedOnce
<1>4. Settled'
  <2>1. ASSUME NEW j \in Items, j \in Files, j \in (db \ backfilled)'
        PROVE  file'[j] = "complete" /\ AllReady(j)'
    BY <1>0, <1>1, <2>1 DEF IInv, Settled, serverVars
  <2>2. ASSUME NEW j \in Items, posts'[j] > 0, j \notin db'
        PROVE  j \in deleted' /\ NoneOf(j)'
    <3>1. CASE j = i
      BY <1>1, <1>2, <3>1 DEF serverVars
    <3>2. CASE j # i
      BY <1>0, <1>1, <2>2, <3>2 DEF IInv, Settled, serverVars
    <3> QED BY <3>1, <3>2
  <2> QED BY <2>1, <2>2 DEF Settled
<1>5. NoHalfMessages'
  BY <1>0, <1>1, InboundAssumption
  DEF IInv, TypeOK, NoHalfMessages, Nothing, InboundAssumption
<1> QED BY <1>1, <1>3, <1>4, <1>5

LEMMA BackfillStep ==
    ASSUME IInv, CreateRoom \/ FetchMessages \/ Insert
    PROVE  Pipeline' /\ Settled' /\ Rooms' /\ PostedOnce' /\ NoHalfMessages'
<1>1. UNCHANGED <<serverVars, events, queue, lost>>
  BY InsertStep, FetchStep DEF IInv, CreateRoom
<1>2. Pipeline'
  BY <1>1 DEF IInv, Pipeline, Sound, SoundIn, Removal, Precedes, Pending, serverVars
<1>3. CASE CreateRoom
  BY <1>1, <1>2, <1>3 DEF CreateRoom, IInv, Rooms, Settled, AllReady, NoneOf, PostedOnce,
     NoHalfMessages, serverVars
<1>4. CASE FetchMessages
  <2>1. /\ room = "fetching"
        /\ fetched' # {} => room' = "fetching"
        /\ UNCHANGED <<db, shown, backfilled, posts>>
    BY <1>4, FetchStep DEF IInv
  <2>2. Rooms'
    BY <2>1 DEF IInv, Rooms
  <2>3. Settled'
    BY <1>1, <2>1 DEF IInv, Settled, AllReady, NoneOf, serverVars
  <2>4. PostedOnce' /\ NoHalfMessages'
    BY <2>1 DEF IInv, PostedOnce, NoHalfMessages
  <2> QED BY <1>2, <2>2, <2>3, <2>4
<1>5. CASE Insert
  <2>1. /\ NewItems \subseteq Items /\ fetched' = {} /\ room' = "open"
        /\ db' = db \union NewItems /\ backfilled' = backfilled \union NewItems
        /\ shown' = [i \in Items |-> IF i \in NewItems THEN Inserted(i) ELSE shown[i]]
        /\ posts' = [i \in Items |-> IF i \in NewItems THEN posts[i] + 1 ELSE posts[i]]
        /\ fetched # {}
    BY <1>5, InsertStep DEF IInv
  <2>2. db = {} /\ \A i \in Items : posts[i] = 0
    BY <2>1 DEF IInv, Rooms
  <2>3. Rooms' /\ PostedOnce'
    BY <2>1, <2>2 DEF Rooms, PostedOnce
  <2>4. Settled'
    BY <2>1, <2>2 DEF Settled
  <2>5. NoHalfMessages'
    BY <2>1, InboundAssumption DEF IInv, NoHalfMessages, InboundAssumption
  <2> QED BY <1>2, <2>3, <2>4, <2>5
<1> QED BY <1>3, <1>4, <1>5

LEMMA InvNext == IInv /\ [Next]_vars => IInv'
<1> SUFFICES ASSUME IInv, [Next]_vars PROVE IInv'
  OBVIOUS
<1>0. TypeOK' /\ Existed'
  BY TypeNext DEF IInv
<1>1. CASE Server
  <2>1. UNCHANGED <<queue, fetched, portalVars>>
    BY <1>1 DEF Server
  <2> QED BY <1>0, <1>1, <2>1, ServerKeepsOrder
          DEF IInv, Rooms, PostedOnce, NoHalfMessages, portalVars
<1>2. CASE HandleSimplexEvent
  <2>1. UNCHANGED <<fetched, portalVars>>
    BY <1>2, HandlerStep DEF IInv
  <2> QED BY <1>0, <1>2, <2>1, HandlerKeepsOrder
          DEF IInv, Rooms, PostedOnce, NoHalfMessages, portalVars
<1>3. CASE Portal
  BY <1>0, <1>3, MessageStep, EditStep, RemoveStep, BackfillStep DEF IInv, Portal
<1>4. CASE UNCHANGED vars
  BY <1>0, <1>4 DEF IInv, Pipeline, Sound, SoundIn, Removal, Precedes, Pending, Settled,
     AllReady, NoneOf, Rooms, PostedOnce, NoHalfMessages, vars, serverVars, portalVars
<1> QED BY <1>1, <1>2, <1>3, <1>4 DEF Next

LEMMA Invariant == Spec => []IInv
BY InvInit, InvNext, PTL DEF Spec

(* No item is posted twice, whatever becomes of it on SimpleX and however   *)
(* its backfill, its events and its downloads interleave.                   *)
THEOREM NothingTwice == Spec => []PostedOnce
<1>1. IInv => PostedOnce
  BY DEF IInv
<1> QED BY <1>1, Invariant, PTL

(* A live message with a file has it, and keeps it, except when an edit     *)
(* cannot upload it.                                                        *)
THEOREM FilesBelong == Spec => []NoHalfMessages
<1>1. IInv => NoHalfMessages
  BY DEF IInv
<1> QED BY <1>1, Invariant, PTL
-----------------------------------------------------------------------------
(* The room catches up.  What an event or remote event carries: an edit of  *)
(* item i to version n, a message that can be posted, or either.            *)

Edits(e, i, n) == /\ e.type \in {"edit", "chatItemUpdated"}
                  /\ e.view.item = i /\ e.view.ver = n

Puts(e, i) == /\ e.type \in {"message", "newChatItems", "rcvFileComplete"}
              /\ e.view.item = i /\ ~Pending(e.view)

Carries(e, i) == Edits(e, i, e.view.ver) \/ Puts(e, i)

Removes(e, i) == Removal(e) /\ e.view.item = i

HasEdit(s, i, n) == \E j \in 1 .. Len(s) : Edits(s[j], i, n)
HasPost(s, i)    == \E j \in 1 .. Len(s) : Puts(s[j], i)
HasRemoval(s, i) == \E j \in 1 .. Len(s) : Removes(s[j], i)

(* What carries another version than n of item i is followed by an edit to  *)
(* n.                                                                       *)
Fresh(s, i, n) ==
    \A j \in 1 .. Len(s) :
        Carries(s[j], i) => \/ s[j].view.ver = n
                            \/ \E l \in j + 1 .. Len(s) : Edits(s[l], i, n)

LEMMA OfEmpty ==
    \A i, n : /\ ~HasEdit(<< >>, i, n) /\ ~HasPost(<< >>, i) /\ ~HasRemoval(<< >>, i)
              /\ Fresh(<< >>, i, n)
BY DEF HasEdit, HasPost, HasRemoval, Fresh

LEMMA OfAppend ==
    ASSUME NEW S, NEW s \in Seq(S), NEW e \in S, NEW i, NEW n
    PROVE  /\ HasEdit(Append(s, e), i, n) <=> HasEdit(s, i, n) \/ Edits(e, i, n)
           /\ HasPost(Append(s, e), i) <=> HasPost(s, i) \/ Puts(e, i)
           /\ HasRemoval(Append(s, e), i) <=> HasRemoval(s, i) \/ Removes(e, i)
           /\ Fresh(Append(s, e), i, n) <=>
                 \/ Edits(e, i, n)
                 \/ Fresh(s, i, n) /\ (Carries(e, i) => e.view.ver = n)
<1> DEFINE t == Append(s, e)
<1>1. /\ Len(s) \in Nat /\ Len(t) = Len(s) + 1 /\ t[Len(s) + 1] = e
      /\ \A j \in 1 .. Len(s) : t[j] = s[j]
      /\ \A j \in 1 .. Len(t) : j \in 1 .. Len(s) \/ j = Len(s) + 1
      /\ 1 .. Len(s) \subseteq 1 .. Len(t) /\ Len(s) + 1 \in 1 .. Len(t)
  OBVIOUS
<1> HIDE DEF t
<1>2. HasEdit(t, i, n) <=> HasEdit(s, i, n) \/ Edits(e, i, n)
  BY <1>1 DEF HasEdit
<1>3. HasPost(t, i) <=> HasPost(s, i) \/ Puts(e, i)
  BY <1>1 DEF HasPost
<1>4. HasRemoval(t, i) <=> HasRemoval(s, i) \/ Removes(e, i)
  BY <1>1 DEF HasRemoval
<1>5. Edits(e, i, n) => Fresh(t, i, n)
  <2> SUFFICES ASSUME Edits(e, i, n), NEW j \in 1 .. Len(t)
               PROVE  t[j].view.ver = n \/ \E l \in j + 1 .. Len(t) : Edits(t[l], i, n)
    BY DEF Fresh
  <2>1. CASE j = Len(s) + 1
    BY <1>1, <2>1 DEF Edits
  <2>2. CASE j # Len(s) + 1
    <3>1. Len(s) + 1 \in j + 1 .. Len(t)
      BY <1>1, <2>2
    <3>2. QED
      BY <1>1, <3>1
  <2>3. QED
    BY <2>1, <2>2
<1>6. ASSUME ~Edits(e, i, n), NEW j \in 1 .. Len(s)
      PROVE  (\E l \in j + 1 .. Len(t) : Edits(t[l], i, n)) <=>
             (\E l \in j + 1 .. Len(s) : Edits(s[l], i, n))
  <2>1. /\ \A l \in j + 1 .. Len(t) : l \in j + 1 .. Len(s) \/ l = Len(s) + 1
        /\ \A l \in j + 1 .. Len(s) : l \in j + 1 .. Len(t) /\ t[l] = s[l]
    BY <1>1
  <2>2. QED
    BY <1>1, <1>6, <2>1
<1>7. Len(s) + 1 + 1 .. Len(t) = {}
  BY <1>1
<1>8. ~Edits(e, i, n) =>
         (Fresh(t, i, n) <=> Fresh(s, i, n) /\ (Carries(e, i) => e.view.ver = n))
  <2>1. ASSUME ~Edits(e, i, n), Fresh(t, i, n)
        PROVE  Fresh(s, i, n) /\ (Carries(e, i) => e.view.ver = n)
    <3>1. Fresh(s, i, n)
      BY <1>1, <1>6, <2>1 DEF Fresh
    <3>2. Carries(e, i) => e.view.ver = n
      BY <1>1, <1>7, <2>1 DEF Fresh
    <3>3. QED
      BY <3>1, <3>2
  <2>2. ASSUME ~Edits(e, i, n), Fresh(s, i, n), Carries(e, i) => e.view.ver = n
        PROVE  Fresh(t, i, n)
    BY <1>1, <1>6, <2>2 DEF Fresh
  <2>3. QED
    BY <2>1, <2>2
<1>9. QED
  BY <1>2, <1>3, <1>4, <1>5, <1>8 DEF t

LEMMA OfTail ==
    ASSUME NEW S, NEW s \in Seq(S), s # << >>, NEW i, NEW n
    PROVE  /\ HasEdit(s, i, n) <=> Edits(Head(s), i, n) \/ HasEdit(Tail(s), i, n)
           /\ HasPost(s, i) <=> Puts(Head(s), i) \/ HasPost(Tail(s), i)
           /\ HasRemoval(s, i) <=> Removes(Head(s), i) \/ HasRemoval(Tail(s), i)
           /\ Fresh(s, i, n) <=>
                 /\ Fresh(Tail(s), i, n)
                 /\ Carries(Head(s), i) => Head(s).view.ver = n \/ HasEdit(Tail(s), i, n)
<1> DEFINE t == Tail(s)
<1>1. /\ Len(s) \in Nat \ {0} /\ Len(t) = Len(s) - 1 /\ Head(s) = s[1]
      /\ \A j \in 1 .. Len(t) : j + 1 \in 2 .. Len(s) /\ t[j] = s[j + 1]
      /\ \A j \in 2 .. Len(s) : j - 1 \in 1 .. Len(t) /\ s[j] = t[j - 1]
      /\ \A j \in 1 .. Len(s) : j = 1 \/ j \in 2 .. Len(s)
      /\ 2 .. Len(s) \subseteq 1 .. Len(s) /\ 1 \in 1 .. Len(s)
  OBVIOUS
<1> HIDE DEF t
<1>2. HasEdit(s, i, n) <=> Edits(s[1], i, n) \/ HasEdit(t, i, n)
  BY <1>1 DEF HasEdit
<1>3. HasPost(s, i) <=> Puts(s[1], i) \/ HasPost(t, i)
  BY <1>1 DEF HasPost
<1>4. HasRemoval(s, i) <=> Removes(s[1], i) \/ HasRemoval(t, i)
  BY <1>1 DEF HasRemoval
<1>5. (\E l \in 1 + 1 .. Len(s) : Edits(s[l], i, n)) <=> HasEdit(t, i, n)
  <2>1. 1 + 1 .. Len(s) = 2 .. Len(s)
    OBVIOUS
  <2>2. QED
    BY <1>1, <2>1 DEF HasEdit
<1>6. ASSUME NEW j \in 2 .. Len(s)
      PROVE  (\E l \in j + 1 .. Len(s) : Edits(s[l], i, n)) <=>
             (\E l \in (j - 1) + 1 .. Len(t) : Edits(t[l], i, n))
  <2>1. /\ \A l \in j + 1 .. Len(s) : l - 1 \in (j - 1) + 1 .. Len(t) /\ s[l] = t[l - 1]
        /\ \A l \in (j - 1) + 1 .. Len(t) : l + 1 \in j + 1 .. Len(s) /\ t[l] = s[l + 1]
    BY <1>1
  <2>2. QED
    BY <2>1
<1>7. Fresh(s, i, n) <=> /\ Fresh(t, i, n)
                         /\ Carries(s[1], i) => s[1].view.ver = n \/ HasEdit(t, i, n)
  <2>1. ASSUME Fresh(s, i, n), NEW j \in 1 .. Len(t), Carries(t[j], i)
        PROVE  t[j].view.ver = n \/ \E l \in j + 1 .. Len(t) : Edits(t[l], i, n)
    <3>1. j + 1 \in 2 .. Len(s) /\ j + 1 \in 1 .. Len(s) /\ t[j] = s[j + 1] /\ (j + 1) - 1 = j
      BY <1>1
    <3>2. s[j + 1].view.ver = n \/ \E l \in (j + 1) + 1 .. Len(s) : Edits(s[l], i, n)
      BY <2>1, <3>1 DEF Fresh
    <3>3. (\E l \in (j + 1) + 1 .. Len(s) : Edits(s[l], i, n)) =>
             \E l \in ((j + 1) - 1) + 1 .. Len(t) : Edits(t[l], i, n)
      BY <1>6, <3>1
    <3>4. QED
      BY <3>1, <3>2, <3>3
  <2>2. Fresh(s, i, n) => (Carries(s[1], i) => s[1].view.ver = n \/ HasEdit(t, i, n))
    BY <1>1, <1>5 DEF Fresh
  <2>3. ASSUME Fresh(t, i, n), Carries(s[1], i) => s[1].view.ver = n \/ HasEdit(t, i, n),
               NEW j \in 1 .. Len(s), Carries(s[j], i)
        PROVE  s[j].view.ver = n \/ \E l \in j + 1 .. Len(s) : Edits(s[l], i, n)
    <3>1. CASE j = 1
      BY <1>5, <2>3, <3>1
    <3>2. CASE j # 1
      <4>1. j \in 2 .. Len(s) /\ j - 1 \in 1 .. Len(t) /\ s[j] = t[j - 1]
        BY <1>1, <3>2
      <4>2. t[j - 1].view.ver = n \/ \E l \in (j - 1) + 1 .. Len(t) : Edits(t[l], i, n)
        BY <2>3, <4>1 DEF Fresh
      <4>3. QED
        BY <1>6, <4>1, <4>2
    <3>3. QED
      BY <3>1, <3>2
  <2>4. QED
    BY <2>1, <2>2, <2>3 DEF Fresh
<1>8. QED
  BY <1>1, <1>2, <1>3, <1>4, <1>7 DEF t

(* An edit to the last version of item i is on its way.                     *)
EditComes(i) == HasEdit(events, i, version[i]) \/ HasEdit(queue, i, version[i])

(* What is on its way, what a backfill has fetched and what the room shows  *)
(* of an item that exists is its last version, or an edit to it follows;    *)
(* what is due and not in the room is on its way.                           *)
UpToDate(i) ==
    /\ Fresh(events, i, version[i])
    /\ HasEdit(events, i, version[i]) \/ Fresh(queue, i, version[i])
    /\ i \in db => shown[i].ver = version[i] \/ EditComes(i)
    /\ \A w \in fetched : w.item = i => w.ver = version[i] \/ EditComes(i)
    /\ i \notin db /\ Due(i) => HasPost(events, i) \/ HasPost(queue, i)

(* Nothing of a deleted item is left, nor on its way.                       *)
Cleared(i) == /\ NoneOf(i) /\ shown[i].as \in {"none", "tombstone"}
              /\ \A w \in fetched : w.item = i => w.gone

Unborn(i) == NoneOf(i) /\ i \notin db /\ \A w \in fetched : w.item # i

Following(i) ==
    /\ version[i] = 0 => Unborn(i)
    /\ version[i] # 0 /\ i \notin deleted \union lost => UpToDate(i)
    /\ i \in deleted \ lost => HasRemoval(events, i) \/ HasRemoval(queue, i) \/ Cleared(i)

CatchingUp == \A i \in Items : Following(i)

LEMMA NothingComes ==
    ASSUME NEW i \in Items, NoneOf(i)
    PROVE  \A n : /\ Fresh(events, i, n) /\ Fresh(queue, i, n)
BY DEF NoneOf, Fresh, Carries, Edits, Puts

LEMMA CatchingUpInit == Init => CatchingUp
<1> SUFFICES ASSUME Init PROVE CatchingUp
  OBVIOUS
<1>1. \A i \in Items : version[i] = 0 /\ i \notin deleted
  BY DEF Init
<1>2. \A i \in Items : Unborn(i)
  BY DEF Init, Unborn, NoneOf
<1>3. QED
  BY <1>1, <1>2 DEF CatchingUp, Following

-----------------------------------------------------------------------------
(* The server's steps.                                                      *)

LEMMA EmitSays ==
    ASSUME TypeOK, NEW j \in Items, NEW type \in EventType, Emit(type, j),
           version'[j] \in 1 .. MaxVersion
    PROVE  \E e \in Event :
              /\ e.type = type /\ e.view.item = j /\ e.view.ver = version'[j]
              /\ e.view.ready <=> file'[j] = "complete"
              /\ \/ events' = Append(events, e) /\ lost' = lost
                 \/ events' = events /\ lost' = lost \union {j}
<1> DEFINE e == [type |-> type, view |-> Seen(j)]
<1>1. e \in Event /\ e.type = type /\ e.view = Seen(j)
  BY DEF Event, Seen, View
<1>2. /\ Seen(j).item = j /\ Seen(j).ver = version'[j]
      /\ Seen(j).ready <=> file'[j] = "complete"
  BY DEF Seen
<1>3. \/ events' = Append(events, e) /\ lost' = lost
      \/ events' = events /\ lost' = lost \union {j}
  BY DEF Emit
<1> HIDE DEF e
<1>4. QED
  BY <1>1, <1>2, <1>3

(* An item nothing happens to, while something may be sent about another.   *)
LEMMA OthersFollow ==
    ASSUME NEW i \in Items, Following(i), events \in Seq(Event),
           UNCHANGED <<queue, fetched, db, shown>>, version'[i] = version[i],
           i \in deleted' <=> i \in deleted, i \in lost => i \in lost',
           Due(i)' => Due(i),
           \/ events' = events
           \/ \E e \in Event : events' = Append(events, e) /\ e.view.item # i
    PROVE  Following(i)'
<1>1. CASE events' = events
  <2>1. Unborn(i) => Unborn(i)'
    BY <1>1 DEF Unborn, NoneOf
  <2>2. UpToDate(i) => UpToDate(i)'
    BY <1>1 DEF UpToDate, EditComes
  <2>3. Cleared(i) => Cleared(i)'
    BY <1>1 DEF Cleared, NoneOf
  <2>4. QED
    BY <1>1, <2>1, <2>2, <2>3 DEF Following
<1>2. ASSUME NEW e \in Event, events' = Append(events, e), e.view.item # i
      PROVE  Following(i)'
  <2>1. ~Carries(e, i) /\ ~Puts(e, i) /\ ~Removes(e, i) /\ \A n : ~Edits(e, i, n)
    BY <1>2 DEF Carries, Puts, Edits, Removes
  <2>2. /\ HasPost(events', i) <=> HasPost(events, i)
        /\ HasRemoval(events', i) <=> HasRemoval(events, i)
        /\ \A n : /\ HasEdit(events', i, n) <=> HasEdit(events, i, n)
                  /\ Fresh(events', i, n) <=> Fresh(events, i, n)
    BY <1>2, <2>1, OfAppend
  <2>3. NoneOf(i) => NoneOf(i)'
    <3>1. /\ Len(events') = Len(events) + 1 /\ events'[Len(events) + 1] = e
          /\ \A b \in 1 .. Len(events) : events'[b] = events[b]
          /\ \A b \in 1 .. Len(events') : b \in 1 .. Len(events) \/ b = Len(events) + 1
      BY <1>2
    <3>2. QED
      BY <1>2, <3>1 DEF NoneOf
  <2>4. Unborn(i) => Unborn(i)'
    BY <2>3 DEF Unborn
  <2>5. UpToDate(i) => UpToDate(i)'
    BY <2>2 DEF UpToDate, EditComes
  <2>6. Cleared(i) => Cleared(i)'
    BY <2>3 DEF Cleared
  <2>7. QED
    BY <2>2, <2>4, <2>5, <2>6 DEF Following
<1>3. QED
  BY <1>1, <1>2

(* An item that was created, edited, deleted or whose file moved on: the    *)
(* event says so, or is lost.                                               *)
LEMMA OwnFollows ==
    ASSUME NEW i \in Items, Following(i), events \in Seq(Event), i \notin deleted,
           UNCHANGED <<queue, fetched, db, shown>>, version'[i] # 0,
           NEW e \in Event, e.view.item = i, e.view.ver = version'[i],
           \/ events' = Append(events, e) /\ lost' = lost
           \/ events' = events /\ lost' = lost \union {i},
           i \in deleted' => Removal(e),
           i \notin deleted' =>
              \/ version[i] = 0 /\ (Due(i)' => Puts(e, i))
              \/ version[i] # 0 /\ Edits(e, i, version'[i]) /\ (Due(i)' => Due(i))
              \/ version[i] # 0 /\ version'[i] = version[i] /\ (Due(i)' => Due(i) \/ Puts(e, i))
    PROVE  Following(i)'
<1>1. CASE i \in lost'
  BY <1>1 DEF Following
<1>2. CASE i \notin lost'
  <2>1. events' = Append(events, e) /\ lost' = lost /\ i \notin lost
    BY <1>2
  <2>2. /\ HasPost(events', i) <=> HasPost(events, i) \/ Puts(e, i)
        /\ HasRemoval(events', i) <=> HasRemoval(events, i) \/ Removes(e, i)
        /\ \A n : /\ HasEdit(events', i, n) <=> HasEdit(events, i, n) \/ Edits(e, i, n)
                  /\ Fresh(events', i, n) <=>
                        \/ Edits(e, i, n)
                        \/ Fresh(events, i, n) /\ (Carries(e, i) => e.view.ver = n)
    BY <2>1, OfAppend
  <2>3. CASE i \in deleted'
    BY <2>2, <2>3 DEF Following, Removes
  <2>4. CASE i \notin deleted' /\ version[i] = 0
    <3>1. Unborn(i) /\ (Due(i)' => Puts(e, i))
      BY <2>4 DEF Following
    <3>2. Fresh(events, i, version'[i]) /\ Fresh(queue, i, version'[i])
      BY <3>1, NothingComes DEF Unborn
    <3>3. UpToDate(i)'
      BY <2>2, <3>1, <3>2 DEF UpToDate, Unborn
    <3>4. QED
      BY <2>4, <3>3 DEF Following
  <2>5. CASE i \notin deleted' /\ version[i] # 0 /\ Edits(e, i, version'[i]) /\ (Due(i)' => Due(i))
    <3>1. UpToDate(i)
      BY <2>1, <2>5 DEF Following
    <3>2. UpToDate(i)'
      BY <2>2, <2>5, <3>1 DEF UpToDate, EditComes
    <3>3. QED
      BY <2>5, <3>2 DEF Following
  <2>6. CASE /\ i \notin deleted' /\ version[i] # 0 /\ version'[i] = version[i]
             /\ Due(i)' => Due(i) \/ Puts(e, i)
    <3>1. UpToDate(i)
      BY <2>1, <2>6 DEF Following
    <3>2. UpToDate(i)'
      BY <2>2, <2>6, <3>1 DEF UpToDate, EditComes
    <3>3. QED
      BY <2>6, <3>2 DEF Following
  <2>7. QED
    BY <2>3, <2>4, <2>5, <2>6
<1>3. QED
  BY <1>1, <1>2

LEMMA ServerFollows ==
    ASSUME IInv, CatchingUp, Server
    PROVE  CatchingUp'
<1> SUFFICES ASSUME NEW i \in Items PROVE Following(i)'
  BY DEF CatchingUp
<1>1. /\ Following(i) /\ events \in Seq(Event)
      /\ UNCHANGED <<queue, fetched, db, shown>>
  BY Sequences DEF IInv, CatchingUp, Server, portalVars
<1>2. /\ version \in [Items -> 0 .. MaxVersion] /\ MaxVersion \in Nat \ {0}
      /\ file \in [Items -> {"none", "offered", "described", "accepted", "complete", "failed"}]
      /\ TypeOK
  BY InboundAssumption DEF InboundAssumption, IInv, TypeOK
<1>3. CASE Connection
  BY <1>1, <1>3, OthersFollow DEF Connection, Due
<1>4. ASSUME NEW j \in Items, Create(j) PROVE Following(i)'
  <2>1. /\ version[j] = 0 /\ version' = [version EXCEPT ![j] = 1] /\ UNCHANGED deleted
        /\ \E f : file' = [file EXCEPT ![j] = f]
    BY <1>4 DEF Create
  <2>2. PICK e \in Event :
              /\ e.type = "newChatItems" /\ e.view.item = j /\ e.view.ver = version'[j]
              /\ e.view.ready <=> file'[j] = "complete"
              /\ \/ events' = Append(events, e) /\ lost' = lost
                 \/ events' = events /\ lost' = lost \union {j}
    BY <1>2, <1>4, <2>1, EmitSays DEF Create, EventType
  <2>3. CASE i = j
    <3>1. version'[i] # 0 /\ i \notin deleted
      BY <1>2, <2>1, <2>3 DEF IInv, Existed
    <3>2. Due(i)' => Puts(e, i)
      BY <2>2, <2>3 DEF Due, Puts, Pending
    <3>3. QED
      BY <1>1, <2>1, <2>2, <2>3, <3>1, <3>2, OwnFollows
  <2>4. CASE i # j
    BY <1>1, <1>2, <2>1, <2>2, <2>4, OthersFollow DEF Due
  <2>5. QED
    BY <2>3, <2>4
<1>5. ASSUME NEW j \in Items, Edit(j) PROVE Following(i)'
  <2>1. /\ version[j] # 0 /\ j \notin deleted /\ UNCHANGED <<deleted, file>>
        /\ version' = [version EXCEPT ![j] = @ + 1] /\ version'[j] \in 1 .. MaxVersion
    BY <1>2, <1>5 DEF Edit, Exists
  <2>2. PICK e \in Event :
              /\ e.type = "chatItemUpdated" /\ e.view.item = j /\ e.view.ver = version'[j]
              /\ \/ events' = Append(events, e) /\ lost' = lost
                 \/ events' = events /\ lost' = lost \union {j}
    BY <1>2, <1>5, <2>1, EmitSays DEF Edit, EventType
  <2>3. CASE i = j
    <3>1. Edits(e, i, version'[i])
      BY <2>2, <2>3 DEF Edits
    <3>2. Due(i)' => Due(i)
      BY <1>2, <2>1, <2>3 DEF Due
    <3>3. version'[i] # 0
      BY <2>1, <2>3
    <3>4. QED
      BY <1>1, <2>1, <2>2, <2>3, <3>1, <3>2, <3>3, OwnFollows
  <2>4. CASE i # j
    BY <1>1, <1>2, <2>1, <2>2, <2>4, OthersFollow DEF Due
  <2>5. QED
    BY <2>3, <2>4
<1>6. ASSUME NEW j \in Items, Delete(j) PROVE Following(i)'
  <2>1. /\ version[j] # 0 /\ j \notin deleted /\ UNCHANGED <<version, file>>
        /\ deleted' = deleted \union {j} /\ version'[j] \in 1 .. MaxVersion
    BY <1>2, <1>6 DEF Delete, Exists
  <2>2. PICK e \in Event :
              /\ e.type = "chatItemsDeleted" /\ e.view.item = j /\ e.view.ver = version'[j]
              /\ \/ events' = Append(events, e) /\ lost' = lost
                 \/ events' = events /\ lost' = lost \union {j}
    BY <1>2, <1>6, <2>1, EmitSays DEF Delete, EventType
  <2>3. CASE i = j
    <3>1. Removal(e) /\ i \in deleted' /\ version'[i] # 0
      BY <2>1, <2>2, <2>3 DEF Removal
    <3>2. QED
      BY <1>1, <2>1, <2>2, <2>3, <3>1, OwnFollows
  <2>4. CASE i # j
    BY <1>1, <1>2, <2>1, <2>2, <2>4, OthersFollow DEF Due
  <2>5. QED
    BY <2>3, <2>4
<1>7. ASSUME NEW j \in Items, FileFails(j) PROVE Following(i)'
  <2>1. /\ file' = [file EXCEPT ![j] = "failed"]
        /\ UNCHANGED <<version, deleted, events, lost>>
    BY <1>7 DEF FileFails
  <2>2. Due(i)' => Due(i)
    BY <1>2, <2>1 DEF Due
  <2>3. QED
    BY <1>1, <2>1, <2>2, OthersFollow
<1>8. ASSUME NEW j \in Items, NEW from, NEW to, NEW type \in EventType,
             FileStep(j, from, to, type),
             type = "rcvFileComplete" \/ to # "complete",
             type \in {"rcvFileComplete", "rcvFileDescrReady"}
      PROVE  Following(i)'
  <2>1. /\ version[j] # 0 /\ j \notin deleted /\ UNCHANGED <<version, deleted>>
        /\ file' = [file EXCEPT ![j] = to] /\ version'[j] \in 1 .. MaxVersion
    BY <1>2, <1>8 DEF FileStep, Exists
  <2>2. PICK e \in Event :
              /\ e.type = type /\ e.view.item = j /\ e.view.ver = version'[j]
              /\ e.view.ready <=> file'[j] = "complete"
              /\ \/ events' = Append(events, e) /\ lost' = lost
                 \/ events' = events /\ lost' = lost \union {j}
    BY <1>2, <1>8, <2>1, EmitSays DEF FileStep
  <2>3. CASE i = j
    <3>1. Due(i)' => Due(i) \/ Puts(e, i)
      <4>1. file'[i] = to
        BY <1>2, <2>1, <2>3
      <4>2. QED
        BY <1>8, <2>1, <2>2, <2>3, <4>1 DEF Due, Puts, Pending
    <3>2. QED
      BY <1>1, <2>1, <2>2, <2>3, <3>1, OwnFollows
  <2>4. CASE i # j
    BY <1>1, <1>2, <2>1, <2>2, <2>4, OthersFollow DEF Due
  <2>5. QED
    BY <2>3, <2>4
<1>9. ASSUME NEW j \in Items,
             \/ FileStep(j, "offered", "described", "rcvFileDescrReady")
             \/ FileStep(j, "accepted", "complete", "rcvFileComplete")
      PROVE  Following(i)'
  BY <1>8, <1>9 DEF EventType
<1>10. QED
  BY <1>3, <1>4, <1>5, <1>6, <1>7, <1>9 DEF Server
-----------------------------------------------------------------------------
(* The handlers: what the first event carries is queued, and nothing else.  *)

Passed(q) ==
    \A i, n : LET h == Head(events)
              IN  /\ q.view = h.view
                  /\ Edits(q, i, n) <=> Edits(h, i, n)
                  /\ Puts(q, i) <=> Puts(h, i)
                  /\ Removes(q, i) <=> Removes(h, i)

Dropped ==
    \A i, n : LET h == Head(events)
              IN  ~Edits(h, i, n) /\ ~Puts(h, i) /\ ~Removes(h, i)

LEMMA QueueSays ==
    ASSUME TypeOK, events # << >>, NEW type \in RemoteType, Queue(type, Head(events).view)
    PROVE  \E q \in RemoteEvent :
              queue' = Append(queue, q) /\ q.type = type /\ q.view = Head(events).view
<1> DEFINE q == [type |-> type, view |-> Head(events).view]
<1>1. Head(events) \in Event
  BY Sequences, HeadIn
<1>2. Head(events).view \in View
  BY <1>1 DEF Event
<1>3. q \in RemoteEvent /\ queue' = Append(queue, q)
  BY <1>2 DEF RemoteEvent, Queue
<1>4. QED
  BY <1>3

LEMMA HandlerSays ==
    ASSUME TypeOK, HandleSimplexEvent
    PROVE  /\ \/ UNCHANGED queue /\ Dropped
              \/ \E q \in RemoteEvent : queue' = Append(queue, q) /\ Passed(q)
           /\ \A i \in Items : file'[i] = "complete" => file[i] = "complete"
<1> DEFINE h == Head(events)
<1>1. CASE HandleNewChatItems \/ HandleRcvFileComplete
  <2>1. /\ h.type \in {"newChatItems", "rcvFileComplete"} /\ Item(h.view)
        /\ UNCHANGED file /\ events # << >>
    BY <1>1 DEF HandleNewChatItems, HandleRcvFileComplete, Take, serverVars
  <2>2. CASE Pending(h.view)
    <3>1. UNCHANGED queue
      BY <2>1, <2>2 DEF Item
    <3>2. Dropped
      BY <2>1, <2>2 DEF Dropped, Edits, Puts, Removes, Removal
    <3>3. QED
      BY <2>1, <3>1, <3>2
  <2>3. CASE ~Pending(h.view)
    <3>1. PICK q \in RemoteEvent :
              queue' = Append(queue, q) /\ q.type = "message" /\ q.view = h.view
      BY <2>1, <2>3, QueueSays DEF Item, RemoteType
    <3>2. Passed(q)
      BY <2>1, <3>1 DEF Passed, Edits, Puts, Removes, Removal
    <3>3. QED
      BY <2>1, <3>1, <3>2
  <2>4. QED
    BY <2>2, <2>3
<1>2. CASE HandleRcvFileDescrReady
  <2>1. h.type = "rcvFileDescrReady" /\ UNCHANGED queue
    BY <1>2 DEF HandleRcvFileDescrReady, Take
  <2>2. \A i \in Items : file'[i] = "complete" => file[i] = "complete"
    BY <1>2 DEF HandleRcvFileDescrReady, TypeOK
  <2>3. Dropped
    BY <2>1 DEF Dropped, Edits, Puts, Removes, Removal
  <2>4. QED
    BY <2>1, <2>2, <2>3
<1>3. CASE HandleChatItemUpdated
  <2>1. /\ h.type = "chatItemUpdated" /\ Queue("edit", h.view) /\ events # << >>
        /\ UNCHANGED file
    BY <1>3 DEF HandleChatItemUpdated, Take, serverVars
  <2>2. PICK q \in RemoteEvent : queue' = Append(queue, q) /\ q.type = "edit" /\ q.view = h.view
    BY <2>1, QueueSays DEF RemoteType
  <2>3. Passed(q)
    BY <2>1, <2>2 DEF Passed, Edits, Puts, Removes, Removal
  <2>4. QED
    BY <2>1, <2>2, <2>3
<1>4. CASE HandleChatItemsDeleted
  <2>1. /\ h.type = "chatItemsDeleted" /\ Queue("remove", h.view) /\ events # << >>
        /\ UNCHANGED file
    BY <1>4 DEF HandleChatItemsDeleted, Take, serverVars
  <2>2. PICK q \in RemoteEvent : queue' = Append(queue, q) /\ q.type = "remove" /\ q.view = h.view
    BY <2>1, QueueSays DEF RemoteType
  <2>3. Passed(q)
    BY <2>1, <2>2 DEF Passed, Edits, Puts, Removes, Removal
  <2>4. QED
    BY <2>1, <2>2, <2>3
<1>5. QED
  BY <1>1, <1>2, <1>3, <1>4 DEF HandleSimplexEvent

LEMMA HandlerFollows ==
    ASSUME IInv, CatchingUp, HandleSimplexEvent
    PROVE  CatchingUp'
<1> SUFFICES ASSUME NEW i \in Items PROVE Following(i)'
  BY DEF CatchingUp
<1> DEFINE h == Head(events)
           n == version[i]
<1>1. /\ events # << >> /\ events' = Tail(events) /\ Moved
      /\ UNCHANGED <<version, deleted, fetched, db, shown, lost>>
      /\ events \in Seq(Event) /\ queue \in Seq(RemoteEvent) /\ Following(i) /\ TypeOK
  BY HandlerStep, Sequences DEF IInv, CatchingUp, portalVars
<1>2. /\ HasEdit(events, i, n) <=> Edits(h, i, n) \/ HasEdit(events', i, n)
      /\ HasPost(events, i) <=> Puts(h, i) \/ HasPost(events', i)
      /\ HasRemoval(events, i) <=> Removes(h, i) \/ HasRemoval(events', i)
      /\ Fresh(events, i, n) <=>
            /\ Fresh(events', i, n)
            /\ Carries(h, i) => h.view.ver = n \/ HasEdit(events', i, n)
  BY <1>1, OfTail
<1>3. Due(i)' => Due(i)
  BY <1>1, HandlerSays DEF Due
<1>4. NoneOf(i) => NoneOf(i)'
  <2>1. /\ h = events[1] /\ 1 \in 1 .. Len(events)
        /\ \A b \in 1 .. Len(events') : b + 1 \in 1 .. Len(events) /\ events'[b] = events[b + 1]
    BY <1>1, TailOf
  <2>2. CASE UNCHANGED queue
    BY <2>1, <2>2 DEF NoneOf
  <2>3. ASSUME NEW q \in RemoteEvent, queue' = Append(queue, q), q.view = h.view
        PROVE  NoneOf(i) => NoneOf(i)'
    <3>1. /\ Len(queue') = Len(queue) + 1 /\ queue'[Len(queue) + 1] = q
          /\ \A a \in 1 .. Len(queue) : queue'[a] = queue[a]
          /\ \A a \in 1 .. Len(queue') : a \in 1 .. Len(queue) \/ a = Len(queue) + 1
      BY <1>1, <2>3
    <3> HIDE DEF h
    <3>2. QED
      BY <2>1, <2>3, <3>1 DEF NoneOf
  <2>4. QED
    BY <1>1, <2>2, <2>3, HandlerSays DEF Passed
<1>5. /\ Unborn(i) => Unborn(i)'
      /\ Cleared(i) => Cleared(i)'
  BY <1>1, <1>4 DEF Unborn, Cleared
<1>6. CASE UNCHANGED queue /\ Dropped
  <2>1. ~Edits(h, i, n) /\ ~Puts(h, i) /\ ~Removes(h, i)
    BY <1>6 DEF Dropped
  <2>2. UpToDate(i) => UpToDate(i)'
    BY <1>1, <1>2, <1>3, <1>6, <2>1 DEF UpToDate, EditComes
  <2>3. QED
    BY <1>1, <1>2, <1>5, <1>6, <2>1, <2>2 DEF Following
<1>7. ASSUME NEW q \in RemoteEvent, queue' = Append(queue, q), Passed(q)
      PROVE  Following(i)'
  <2>1. /\ q.view = h.view
        /\ Edits(q, i, n) <=> Edits(h, i, n)
        /\ Puts(q, i) <=> Puts(h, i)
        /\ Removes(q, i) <=> Removes(h, i)
        /\ Carries(q, i) <=> Carries(h, i)
    BY <1>7 DEF Passed, Carries
  <2>2. /\ HasEdit(queue', i, n) <=> HasEdit(queue, i, n) \/ Edits(q, i, n)
        /\ HasPost(queue', i) <=> HasPost(queue, i) \/ Puts(q, i)
        /\ HasRemoval(queue', i) <=> HasRemoval(queue, i) \/ Removes(q, i)
        /\ Fresh(queue', i, n) <=>
              \/ Edits(q, i, n)
              \/ Fresh(queue, i, n) /\ (Carries(q, i) => q.view.ver = n)
    BY <1>1, <1>7, OfAppend
  <2>3. UpToDate(i) => UpToDate(i)'
    BY <1>1, <1>2, <1>3, <2>1, <2>2 DEF UpToDate, EditComes
  <2>4. QED
    BY <1>1, <1>2, <1>5, <2>1, <2>2, <2>3 DEF Following
<1>8. QED
  BY <1>1, <1>6, <1>7, HandlerSays

-----------------------------------------------------------------------------
(* The portal's steps.                                                      *)

(* What a pop does to what is on its way about an item.                     *)
LEMMA PopSays ==
    ASSUME IInv, NEW type, Pop(type), NEW i \in Items
    PROVE  LET h == Head(queue)
               n == version[i]
           IN  /\ HasEdit(queue, i, n) <=> Edits(h, i, n) \/ HasEdit(queue', i, n)
               /\ HasPost(queue, i) <=> Puts(h, i) \/ HasPost(queue', i)
               /\ HasRemoval(queue, i) <=> Removes(h, i) \/ HasRemoval(queue', i)
               /\ Fresh(queue, i, n) <=>
                     /\ Fresh(queue', i, n)
                     /\ Carries(h, i) => h.view.ver = n \/ HasEdit(queue', i, n)
<1>1. queue \in Seq(RemoteEvent) /\ queue # << >> /\ queue' = Tail(queue)
  BY Sequences DEF IInv, Pop
<1>2. QED
  BY <1>1, OfTail

(* An item that is not the head's.                                          *)
LEMMA OthersKept ==
    ASSUME IInv, NEW type, Pop(type), NEW i \in Items, Following(i),
           Head(queue).view.item # i, shown'[i] = shown[i], i \in db' <=> i \in db
    PROVE  Following(i)'
<1>1. /\ UNCHANGED <<version, deleted, file, events, fetched, lost>>
      /\ NoneOf(i) => NoneOf(i)'
  BY PopKeepsOrder DEF serverVars
<1>2. /\ HasPost(queue, i) <=> HasPost(queue', i)
      /\ HasRemoval(queue, i) <=> HasRemoval(queue', i)
      /\ HasEdit(queue, i, version[i]) <=> HasEdit(queue', i, version[i])
      /\ Fresh(queue, i, version[i]) <=> Fresh(queue', i, version[i])
  BY PopSays DEF Edits, Puts, Removes, Carries
<1>3. Due(i)' => Due(i)
  BY <1>1 DEF Due
<1>4. UpToDate(i) => UpToDate(i)'
  BY <1>1, <1>2, <1>3 DEF UpToDate, EditComes
<1>5. (Unborn(i) => Unborn(i)') /\ (Cleared(i) => Cleared(i)')
  BY <1>1 DEF Unborn, Cleared
<1>6. QED
  BY <1>1, <1>2, <1>4, <1>5 DEF Following

LEMMA ShowSays ==
    ASSUME TypeOK, NEW v, v.item \in Items, NEW uploads, NEW failure, Show(v, uploads, failure)
    PROVE  shown'[v.item].ver = v.ver
<1>1. PICK a : shown' = [shown EXCEPT ![v.item] = [ver |-> v.ver, as |-> a]]
  BY DEF Show
<1>2. shown'[v.item] = [ver |-> v.ver, as |-> a]
  BY <1>1 DEF TypeOK
<1>3. QED
  BY <1>2

LEMMA MessageFollows ==
    ASSUME IInv, CatchingUp, PortalMessage, NEW i \in Items
    PROVE  Following(i)'
<1> DEFINE h == Head(queue)
           n == version[i]
<1>1. /\ Pop("message") /\ Following(i) /\ h.view \in View /\ Sound(h) /\ h.type = "message"
      /\ UNCHANGED <<version, deleted, file, events, fetched, lost>>
      /\ NoneOf(i) => h.view.item # i
  BY PopKeepsOrder DEF PortalMessage, CatchingUp, serverVars
<1>2. CASE h.view.item # i
  <2>1. shown'[i] = shown[i] /\ (i \in db' <=> i \in db)
    BY <1>2 DEF PortalMessage, Show, IInv, TypeOK
  <2>2. QED
    BY <1>1, <1>2, <2>1, OthersKept
<1>3. CASE h.view.item = i
  <2>1. ~Edits(h, i, n) /\ ~Removes(h, i) /\ Carries(h, i) /\ ~NoneOf(i)
    BY <1>1, <1>3 DEF Edits, Removes, Removal, Carries, Puts, Sound, SoundIn
  <2>2. /\ HasEdit(queue, i, n) <=> HasEdit(queue', i, n)
        /\ HasRemoval(queue, i) <=> HasRemoval(queue', i)
        /\ Fresh(queue, i, n) <=> /\ Fresh(queue', i, n)
                                  /\ h.view.ver = n \/ HasEdit(queue', i, n)
    BY <1>1, <2>1, PopSays
  <2>3. CASE i \in db
    <3>1. UNCHANGED <<db, shown>>
      BY <1>3, <2>3 DEF PortalMessage
    <3>2. UpToDate(i) => UpToDate(i)'
      BY <1>1, <2>2, <2>3, <3>1 DEF UpToDate, EditComes
    <3>3. QED
      BY <1>1, <2>1, <2>2, <3>2 DEF Following, Unborn, Cleared
  <2>4. CASE i \notin db
    <3>1. i \in db' /\ Show(h.view, TRUE, "notice")
      BY <1>3, <2>4 DEF PortalMessage
    <3>2. shown'[i].ver = h.view.ver
      BY <1>3, <3>1, ShowSays DEF IInv
    <3>3. UpToDate(i) => UpToDate(i)'
      BY <1>1, <2>2, <3>1, <3>2 DEF UpToDate, EditComes
    <3>4. QED
      BY <1>1, <2>1, <2>2, <3>3 DEF Following, Unborn, Cleared
  <2>5. QED
    BY <2>3, <2>4
<1>4. QED
  BY <1>2, <1>3

(* An edit: the batch of the backfill is in the room by now, or not yet     *)
(* fetched.                                                                 *)
LEMMA EditFollows ==
    ASSUME IInv, CatchingUp, PortalEdit, NEW i \in Items
    PROVE  Following(i)'
<1> DEFINE h == Head(queue)
           n == version[i]
<1>1. /\ Pop("edit") /\ Following(i) /\ h.view \in View /\ h.type = "edit" /\ UNCHANGED db
      /\ UNCHANGED <<version, deleted, file, events, fetched, lost>>
      /\ NoneOf(i) => h.view.item # i
  BY PopKeepsOrder DEF PortalEdit, CatchingUp, serverVars
<1>2. fetched = {}
  BY DEF PortalEdit, IInv, Rooms
<1>3. CASE h.view.item # i
  <2>1. shown'[i] = shown[i]
    BY <1>3 DEF PortalEdit, Show, IInv, TypeOK
  <2>2. QED
    BY <1>1, <1>3, <2>1, OthersKept
<1>4. CASE h.view.item = i
  <2>1. ~Puts(h, i) /\ ~Removes(h, i) /\ Carries(h, i) /\ ~NoneOf(i)
    BY <1>1, <1>4 DEF Edits, Removes, Removal, Carries, Puts
  <2>2. /\ HasPost(queue, i) <=> HasPost(queue', i)
        /\ HasRemoval(queue, i) <=> HasRemoval(queue', i)
        /\ Fresh(queue, i, n) <=> /\ Fresh(queue', i, n)
                                  /\ h.view.ver = n \/ HasEdit(queue', i, n)
    BY <1>1, <2>1, PopSays
  <2>3. i \in db => shown'[i].ver = h.view.ver
    <3>1. i \in db => Show(h.view, TRUE, "bare")
      BY <1>4 DEF PortalEdit
    <3>2. QED
      BY <1>4, <3>1, ShowSays DEF IInv
  <2>4. Due(i)' => Due(i)
    BY <1>1 DEF Due
  <2>5. UpToDate(i) => UpToDate(i)'
    BY <1>1, <1>2, <2>2, <2>3, <2>4 DEF UpToDate, EditComes
  <2>6. QED
    BY <1>1, <2>1, <2>2, <2>5 DEF Following, Unborn, Cleared
<1>5. QED
  BY <1>3, <1>4

LEMMA RemoveFollows ==
    ASSUME IInv, CatchingUp, PortalRemove, NEW i \in Items
    PROVE  Following(i)'
<1> DEFINE h == Head(queue)
<1>1. /\ Pop("remove") /\ Following(i) /\ h.view \in View /\ Sound(h) /\ Removal(h)
      /\ \A a \in 1 .. Len(queue') : Precedes(h, queue'[a])
      /\ \A b \in 1 .. Len(events) : Precedes(h, events[b])
      /\ UNCHANGED <<version, deleted, file, events, fetched, lost>>
  BY PopKeepsOrder DEF PortalRemove, CatchingUp, serverVars, Removal
<1>2. /\ fetched = {} /\ db' = db \ {h.view.item}
      /\ shown' = [shown EXCEPT ![h.view.item] = Nothing]
  BY DEF PortalRemove, IInv, Rooms
<1> HIDE DEF h
<1>3. CASE h.view.item # i
  <2>1. shown'[i] = shown[i] /\ (i \in db' <=> i \in db)
    BY <1>2, <1>3 DEF IInv, TypeOK
  <2>2. QED
    BY <1>1, <1>3, <2>1, OthersKept DEF h
<1>4. CASE h.view.item = i
  <2>1. i \in deleted /\ NoneOf(i)'
    BY <1>1, <1>4 DEF Sound, SoundIn, Precedes, NoneOf
  <2>2. shown'[i] = Nothing
    BY <1>2, <1>4 DEF IInv, TypeOK
  <2>3. Cleared(i)'
    BY <1>1, <1>2, <2>1, <2>2 DEF Cleared, Nothing
  <2>4. version[i] # 0
    BY <2>1 DEF IInv, Existed
  <2>5. QED
    BY <1>1, <2>1, <2>3, <2>4 DEF Following
<1>5. QED
  BY <1>3, <1>4

(* A backfill: what is fetched is as the server has it.                     *)
LEMMA BackfillFollows ==
    ASSUME IInv, CatchingUp, CreateRoom \/ FetchMessages \/ Insert, NEW i \in Items
    PROVE  Following(i)'
<1>1. /\ UNCHANGED <<serverVars, events, queue, lost>> /\ Following(i)
      /\ TypeOK /\ Existed
  BY InsertStep, FetchStep DEF IInv, CreateRoom, CatchingUp
<1>2. /\ NoneOf(i) => NoneOf(i)'
      /\ Due(i)' => Due(i)
      /\ EditComes(i) => EditComes(i)'
      /\ UNCHANGED <<version, deleted, file>>
  BY <1>1 DEF NoneOf, Due, EditComes, serverVars
<1>3. ASSUME i \in db => i \in db' /\ shown'[i] = shown[i],
             i \in db' \ db => shown'[i].ver = version[i] \/ EditComes(i),
             \A w \in fetched' : w.item = i => w.ver = version[i] \/ EditComes(i)
      PROVE  UpToDate(i) => UpToDate(i)'
  BY <1>1, <1>2, <1>3 DEF UpToDate
<1>4. CASE UNCHANGED <<fetched, db, shown>>
  BY <1>1, <1>2, <1>4 DEF Following, Unborn, Cleared, UpToDate
<1>5. CASE CreateRoom
  BY <1>4, <1>5 DEF CreateRoom
<1>6. CASE FetchMessages
  <2>1. UNCHANGED <<db, shown>>
    BY <1>1, <1>6, FetchStep
  <2>2. CASE fetched' = {}
    <3>1. UpToDate(i) => UpToDate(i)'
      BY <1>3, <2>1, <2>2
    <3>2. QED
      BY <1>1, <1>2, <2>1, <2>2, <3>1 DEF Following, Unborn, Cleared
  <2>3. CASE fetched' # {} /\ fetched' # fetched
    <3>1. PICK marked \in SUBSET deleted :
            fetched' = {[item |-> j, ver |-> version[j], ready |-> file[j] = "complete",
                         gone |-> j \in marked] :
                            j \in {k \in Items : Exists(k)} \union marked}
      BY <1>6, <2>3 DEF FetchMessages
    <3>2. ASSUME NEW w \in fetched', w.item = i
          PROVE  /\ w.ver = version[i] /\ version[i] # 0
                 /\ i \in deleted => w.gone
      <4>1. PICK j \in {k \in Items : Exists(k)} \union marked :
                w = [item |-> j, ver |-> version[j], ready |-> file[j] = "complete",
                     gone |-> j \in marked]
        BY <3>1, <3>2
      <4>2. j = i /\ w.ver = version[i] /\ (w.gone <=> i \in marked)
        BY <3>2, <4>1
      <4>3. Exists(i) \/ i \in marked
        BY <4>1, <4>2
      <4>4. version[i] # 0
        BY <1>1, <3>1, <4>3 DEF Existed, Exists, TypeOK
      <4>5. i \in deleted => i \in marked
        BY <4>3 DEF Exists
      <4>6. QED
        BY <4>2, <4>4, <4>5
    <3>3. UpToDate(i) => UpToDate(i)'
      BY <1>3, <2>1, <3>2
    <3>4. QED
      BY <1>1, <1>2, <2>1, <3>2, <3>3 DEF Following, Unborn, Cleared
  <2>4. CASE fetched' = fetched
    BY <1>4, <2>1, <2>4
  <2>5. QED
    BY <2>2, <2>3, <2>4
<1>7. CASE Insert
  <2>1. /\ fetched' = {} /\ db' = db \union NewItems
        /\ shown'[i] = IF i \in NewItems THEN Inserted(i) ELSE shown[i]
    BY <1>1, <1>7, InsertStep
  <2>2. CASE i \notin NewItems
    <3>1. UpToDate(i) => UpToDate(i)'
      BY <1>3, <2>1, <2>2
    <3>2. QED
      BY <1>1, <1>2, <2>1, <2>2, <3>1 DEF Following, Unborn, Cleared
  <2>3. CASE i \in NewItems
    <3> DEFINE v == CHOOSE w \in fetched : w.item = i
    <3>1. v \in fetched /\ v.item = i /\ i \notin db
      BY <2>3 DEF NewItems
    <3>2. /\ shown'[i].ver = v.ver
          /\ shown'[i].as = CHOOSE a \in Convert(v, FALSE, "bare") : TRUE
      <4> DEFINE a == CHOOSE b \in Convert(v, FALSE, "bare") : TRUE
      <4>1. shown'[i] = [ver |-> v.ver, as |-> a]
        BY <2>1, <2>3 DEF Inserted
      <4> HIDE DEF v, a
      <4>2. shown'[i].ver = v.ver /\ shown'[i].as = a
        BY <4>1
      <4>3. QED
        BY <4>2 DEF a
    <3> HIDE DEF v
    <3>3. ~Unborn(i)
      BY <3>1 DEF Unborn
    <3>4. UpToDate(i) => UpToDate(i)'
      <4>1. UpToDate(i) => v.ver = version[i] \/ EditComes(i)
        BY <3>1 DEF UpToDate
      <4>2. QED
        BY <1>3, <2>1, <3>1, <3>2, <4>1
    <3>5. Cleared(i) => Cleared(i)'
      <4>1. Cleared(i) => v.gone
        BY <3>1 DEF Cleared
      <4>2. v.gone => shown'[i].as = "tombstone"
        BY <3>2 DEF Convert
      <4>3. QED
        BY <1>2, <2>1, <4>1, <4>2 DEF Cleared
    <3>6. QED
      BY <1>1, <1>2, <3>3, <3>4, <3>5 DEF Following
  <2>4. QED
    BY <2>2, <2>3
<1>8. QED
  BY <1>5, <1>6, <1>7

LEMMA CatchingUpNext == IInv /\ CatchingUp /\ [Next]_vars => CatchingUp'
<1> SUFFICES ASSUME IInv, CatchingUp, [Next]_vars PROVE CatchingUp'
  OBVIOUS
<1>1. CASE Portal
  BY <1>1, MessageFollows, EditFollows, RemoveFollows, BackfillFollows DEF Portal, CatchingUp
<1>2. CASE UNCHANGED vars
  <2>1. \A i \in Items : Following(i) => Following(i)'
    BY <1>2 DEF Following, Unborn, Cleared, NoneOf, UpToDate, EditComes, Due, vars,
       serverVars, portalVars
  <2>2. QED
    BY <2>1 DEF CatchingUp
<1>3. QED
  BY <1>1, <1>2, ServerFollows, HandlerFollows DEF Next

(* Once everything is handled the room shows the last version of each item  *)
(* no event of which was lost, and nothing of the deleted ones, whether its *)
(* messages came by backfill, live or with their files, and although edits  *)
(* of what is not in the room are thrown away.                              *)
THEOREM RoomGetsThere == Spec => []RoomCatchesUp
<1>1. CatchingUp => RoomCatchesUp
  <2> SUFFICES ASSUME CatchingUp, Quiet, NEW i \in Items \ lost
               PROVE  IF i \in deleted THEN shown[i].as \in {"none", "tombstone"}
                      ELSE Due(i) => shown[i].ver = version[i]
    BY DEF RoomCatchesUp
  <2>1. events = << >> /\ queue = << >> /\ Following(i)
    BY DEF Quiet, CatchingUp
  <2>2. CASE i \in deleted
    BY <2>1, <2>2, OfEmpty DEF Following, Cleared
  <2>3. CASE i \notin deleted /\ Due(i)
    <3>1. version[i] # 0
      BY <2>3 DEF Due
    <3>2. UpToDate(i)
      BY <2>1, <2>3, <3>1 DEF Following
    <3>3. QED
      BY <2>1, <2>3, <3>2, OfEmpty DEF UpToDate, EditComes
  <2>4. QED
    BY <2>2, <2>3
<1>2. QED
  BY <1>1, CatchingUpInit, CatchingUpNext, Invariant, PTL DEF Spec

-----------------------------------------------------------------------------
(* The room is a timeline.  Nothing on its way is older than what a live    *)
(* message shows, nothing is shown of an item that is not in the room, and  *)
(* what was fetched has been there.                                         *)

NoneOlder(i, n) ==
    /\ n <= version[i]
    /\ \A a \in 1 .. Len(queue) : queue[a].view.item = i => n <= queue[a].view.ver
    /\ \A b \in 1 .. Len(events) : events[b].view.item = i => n <= events[b].view.ver

Telling ==
    /\ \A w \in fetched : w.ver <= version[w.item] /\ (w.gone => w.item \in deleted)
    /\ \A i \in Items \ db : shown[i] = Nothing
    /\ \A i \in db : posts[i] > 0
    /\ \A i \in db \ backfilled : NoneOlder(i, shown[i].ver)

LEMMA ShownKnown ==
    ASSUME TypeOK
    PROVE  \A i \in Items : version[i] \in Nat /\ shown[i].ver \in Nat
BY DEF TypeOK, Nothing

LEMMA TellingServer == ASSUME IInv, Telling, Server PROVE Telling'
<1>0. /\ UNCHANGED <<queue, fetched, db, shown, backfilled, posts>> /\ deleted \subseteq deleted'
      /\ Emitted /\ events \in Seq(Event) /\ db \subseteq Items
  BY ServerStep, Sequences DEF IInv, TypeOK, portalVars
<1>1. \A i \in Items : /\ version[i] \in Nat /\ version'[i] \in Nat /\ version[i] <= version'[i]
                       /\ shown[i].ver \in Nat
  BY VersionsGrow, ServerStep, ShownKnown DEF IInv, TypeOK
<1>2. \A w \in fetched : w.item \in Items /\ w.ver \in Nat
  BY DEF IInv, TypeOK, View
<1>3. ASSUME NEW i \in Items, NEW n \in Nat, NoneOlder(i, n) PROVE NoneOlder(i, n)'
  <2>1. CASE UNCHANGED events
    BY <1>0, <1>1, <1>3, <2>1 DEF NoneOlder
  <2>2. ASSUME NEW j \in Items, NEW e, e.view = Seen(j), events' = Append(events, e), e \in Event
        PROVE  NoneOlder(i, n)'
    <3>1. \A b \in 1 .. Len(events') : \/ b \in 1 .. Len(events) /\ events'[b] = events[b]
                                       \/ events'[b] = e
      BY <1>0, <2>2
    <3>2. e.view.item = j /\ e.view.ver = version'[j]
      BY <2>2 DEF Seen
    <3>3. n <= version[i] /\ version[i] <= version'[i] /\ version'[i] \in Nat /\ version[i] \in Nat
      BY <1>1, <1>3 DEF NoneOlder
    <3>4. n <= version'[i]
      BY <3>3
    <3>5. \A b \in 1 .. Len(events') : events'[b].view.item = i => n <= events'[b].view.ver
      <4>1. ASSUME NEW b \in 1 .. Len(events'), events'[b] = e, e.view.item = i
            PROVE  n <= events'[b].view.ver
        BY <3>2, <3>4, <4>1
      <4> QED BY <1>3, <3>1, <4>1 DEF NoneOlder
    <3> QED BY <1>0, <1>3, <3>4, <3>5 DEF NoneOlder
  <2>3. ASSUME NEW j \in Items, NEW type \in EventType,
               events' = Append(events, [type |-> type, view |-> Seen(j)]),
               version'[j] \in 1 .. MaxVersion
        PROVE  NoneOlder(i, n)'
    <3>1. PICK e : e = [type |-> type, view |-> Seen(j)]
      OBVIOUS
    <3>2. e.view = Seen(j) /\ e \in Event
      BY <2>3, <3>1 DEF Event, Seen, View
    <3> QED BY <2>2, <2>3, <3>1, <3>2
  <2> QED BY <1>0, <2>1, <2>3 DEF Emitted
<1>4. \A w \in fetched' : w.ver <= version'[w.item] /\ (w.gone => w.item \in deleted')
  BY <1>0, <1>1, <1>2 DEF Telling
<1> QED BY <1>0, <1>1, <1>3, <1>4 DEF Telling

LEMMA TellingHandler == ASSUME IInv, Telling, HandleSimplexEvent PROVE Telling'
<1>0. /\ UNCHANGED <<version, deleted, fetched, db, shown, backfilled, posts>>
      /\ events # << >> /\ events' = Tail(events) /\ Moved
      /\ events \in Seq(Event) /\ queue \in Seq(RemoteEvent) /\ db \subseteq Items
  BY HandlerStep, Sequences DEF IInv, TypeOK, portalVars
<1>1. /\ Head(events) = events[1] /\ 1 \in 1 .. Len(events)
      /\ \A b \in 1 .. Len(events') : b + 1 \in 1 .. Len(events) /\ events'[b] = events[b + 1]
  BY <1>0, TailOf
<1>2. \A a \in 1 .. Len(queue') : \/ a \in 1 .. Len(queue) /\ queue'[a] = queue[a]
                                  \/ queue'[a].view = Head(events).view
  <2>1. CASE UNCHANGED queue
    BY <2>1
  <2>2. ASSUME NEW e, e.view = Head(events).view, queue' = Append(queue, e)
        PROVE  \A a \in 1 .. Len(queue') : \/ a \in 1 .. Len(queue) /\ queue'[a] = queue[a]
                                           \/ queue'[a].view = Head(events).view
    BY <1>0, <2>2
  <2>3. \/ UNCHANGED queue
        \/ \E e : e.view = Head(events).view /\ queue' = Append(queue, e)
    BY <1>0 DEF Moved
  <2> QED BY <2>1, <2>2, <2>3
<1>3. ASSUME NEW i, NEW n, NoneOlder(i, n) PROVE NoneOlder(i, n)'
  BY <1>0, <1>1, <1>2, <1>3 DEF NoneOlder
<1> QED BY <1>0, <1>3 DEF Telling

LEMMA PopTells ==
    ASSUME IInv, Telling, NEW type, Pop(type)
    PROVE  /\ Head(queue).view \in View /\ Sound(Head(queue)) /\ Head(queue).type = type
           /\ \A i, n : NoneOlder(i, n) => NoneOlder(i, n)'
           /\ \A i, n : NoneOlder(i, n) /\ Head(queue).view.item = i => n <= Head(queue).view.ver
           /\ \A i, n : i = Head(queue).view.item /\ n = Head(queue).view.ver => NoneOlder(i, n)'
           /\ UNCHANGED <<version, deleted, events, fetched, room, backfilled, lost>>
<1>0. /\ queue # << >> /\ queue' = Tail(queue) /\ queue \in Seq(RemoteEvent)
      /\ UNCHANGED <<version, deleted, events, fetched, room, backfilled, lost>>
  BY Sequences DEF Pop, IInv, serverVars
<1>1. /\ Head(queue) = queue[1] /\ 1 \in 1 .. Len(queue)
      /\ \A a \in 1 .. Len(queue') : a + 1 \in 1 .. Len(queue) /\ queue'[a] = queue[a + 1]
  BY <1>0, TailOf
<1>2. /\ Sound(Head(queue)) /\ Head(queue).view \in View /\ Head(queue).type = type
      /\ \A a \in 1 .. Len(queue') : Precedes(Head(queue), queue'[a])
      /\ \A b \in 1 .. Len(events) : Precedes(Head(queue), events[b])
  BY PopKeepsOrder
<1>3. \A i, n : NoneOlder(i, n) => NoneOlder(i, n)'
  BY <1>0, <1>1 DEF NoneOlder
<1>4. \A i, n : NoneOlder(i, n) /\ Head(queue).view.item = i => n <= Head(queue).view.ver
  BY <1>1 DEF NoneOlder
<1>5. ASSUME NEW i, NEW n, i = Head(queue).view.item, n = Head(queue).view.ver
      PROVE  NoneOlder(i, n)'
  <2>1. n <= version'[i]
    BY <1>0, <1>2, <1>5 DEF Sound, SoundIn
  <2>2. \A a \in 1 .. Len(queue') : queue'[a].view.item = i => n <= queue'[a].view.ver
    BY <1>2, <1>5 DEF Precedes
  <2>3. \A b \in 1 .. Len(events') : events'[b].view.item = i => n <= events'[b].view.ver
    BY <1>0, <1>2, <1>5 DEF Precedes
  <2> QED BY <2>1, <2>2, <2>3 DEF NoneOlder
<1> QED BY <1>0, <1>2, <1>3, <1>4, <1>5

LEMMA TellingPortal ==
    ASSUME IInv, Telling, PortalMessage \/ PortalEdit \/ PortalRemove
    PROVE  Telling'
<1>a. PICK v : v = Head(queue).view
  OBVIOUS
<1>b. PICK i : i = v.item
  OBVIOUS
<1>c. PICK n : n = v.ver
  OBVIOUS
<1>0. \E type : Pop(type)
  BY DEF PortalMessage, PortalEdit, PortalRemove
<1>1. /\ v \in View /\ i \in Items /\ NoneOlder(i, n)'
      /\ UNCHANGED <<version, deleted, events, fetched, room, backfilled, lost>>
  BY <1>a, <1>b, <1>c, <1>0, PopTells DEF View
<1>2. \A j, m : NoneOlder(j, m) => NoneOlder(j, m)'
  BY <1>0, PopTells
<1>3. shown \in [Items -> [ver : 1 .. MaxVersion, as : Content] \union {Nothing}]
      /\ db \subseteq Items /\ posts \in [Items -> Nat]
  BY DEF IInv, TypeOK
<1>4. \/ UNCHANGED <<db, shown, posts>>
      \/ /\ db' = db \union {i} /\ \E a : shown' = [shown EXCEPT ![i] = [ver |-> n, as |-> a]]
         /\ posts' = [posts EXCEPT ![i] = @ + 1] \/ (i \in db /\ posts' = posts)
      \/ /\ db' = db \ {i} /\ shown' = [shown EXCEPT ![i] = Nothing] /\ posts' = posts
  <2>1. CASE PortalMessage
    BY <1>a, <1>b, <1>c, <2>1 DEF PortalMessage, Show
  <2>2. CASE PortalEdit
    <3>1. db' = db /\ posts' = posts
      BY <2>2 DEF PortalEdit
    <3>2. CASE i \in db
      BY <1>a, <1>b, <1>c, <2>2, <3>1, <3>2 DEF PortalEdit, Show
    <3>3. CASE i \notin db
      BY <1>a, <1>b, <2>2, <3>1, <3>3 DEF PortalEdit
    <3> QED BY <3>2, <3>3
  <2>3. CASE PortalRemove
    BY <1>a, <1>b, <2>3 DEF PortalRemove
  <2> QED BY <2>1, <2>2, <2>3
<1>5. CASE UNCHANGED <<db, shown, posts>>
  BY <1>1, <1>2, <1>5 DEF Telling
<1>6. ASSUME db' = db \union {i}, NEW a, shown' = [shown EXCEPT ![i] = [ver |-> n, as |-> a]],
             posts' = [posts EXCEPT ![i] = @ + 1] \/ (i \in db /\ posts' = posts)
      PROVE  Telling'
  <2>0. \A j \in db' : posts'[j] > 0
    BY <1>1, <1>3, <1>6 DEF Telling
  <2>1. shown'[i].ver = n
    BY <1>1, <1>3, <1>6
  <2>2. ASSUME NEW j \in Items \ db' PROVE shown'[j] = Nothing
    BY <1>1, <1>3, <1>6, <2>2 DEF Telling
  <2>3. ASSUME NEW j \in db' \ backfilled' PROVE NoneOlder(j, shown[j].ver)'
    <3>1. CASE j = i
      BY <1>1, <2>1, <3>1 DEF NoneOlder
    <3>2. CASE j # i
      <4>1. shown'[j] = shown[j] /\ NoneOlder(j, shown[j].ver)
        BY <1>1, <1>3, <1>6, <2>3, <3>2 DEF Telling
      <4>2. PICK m : m = shown[j].ver
        OBVIOUS
      <4>3. NoneOlder(j, m)'
        BY <1>2, <4>1, <4>2
      <4> QED BY <4>1, <4>2, <4>3 DEF NoneOlder
    <3> QED BY <3>1, <3>2
  <2> QED BY <1>1, <2>0, <2>2, <2>3 DEF Telling
<1>7. CASE db' = db \ {i} /\ shown' = [shown EXCEPT ![i] = Nothing] /\ posts' = posts
  <2>1. ASSUME NEW j \in Items \ db' PROVE shown'[j] = Nothing
    BY <1>1, <1>3, <1>7, <2>1 DEF Telling
  <2>2. ASSUME NEW j \in db' \ backfilled' PROVE NoneOlder(j, shown[j].ver)'
    <3>1. shown'[j] = shown[j] /\ NoneOlder(j, shown[j].ver)
      BY <1>1, <1>3, <1>7, <2>2 DEF Telling
    <3>2. PICK m : m = shown[j].ver
      OBVIOUS
    <3>3. NoneOlder(j, m)'
      BY <1>2, <3>1, <3>2
    <3> QED BY <3>1, <3>2, <3>3 DEF NoneOlder
  <2> QED BY <1>1, <1>7, <2>1, <2>2 DEF Telling
<1> QED BY <1>4, <1>5, <1>6, <1>7

LEMMA TellingFetch == ASSUME IInv, Telling, FetchMessages PROVE Telling'
<1>0. UNCHANGED <<version, deleted, events, queue, db, shown, backfilled, posts>>
  BY FetchStep DEF IInv, serverVars
<1>1. fetched' = {} \/ \E marked \in SUBSET deleted :
          fetched' = {[item |-> i, ver |-> version[i], ready |-> file[i] = "complete",
                       gone |-> i \in marked] :
                          i \in {j \in Items : Exists(j)} \union marked}
  BY DEF FetchMessages
<1>2. \A w \in fetched' : w.ver <= version[w.item] /\ (w.gone => w.item \in deleted)
  <2> SUFFICES ASSUME NEW marked \in SUBSET deleted,
                      fetched' = {[item |-> i, ver |-> version[i], ready |-> file[i] = "complete",
                                   gone |-> i \in marked] :
                                      i \in {j \in Items : Exists(j)} \union marked},
                      NEW w \in fetched'
               PROVE  w.ver <= version[w.item] /\ (w.gone => w.item \in deleted)
    BY <1>1
  <2>0. PICK i \in {j \in Items : Exists(j)} \union marked :
            w = [item |-> i, ver |-> version[i], ready |-> file[i] = "complete", gone |-> i \in marked]
    OBVIOUS
  <2>1. i \in Items /\ w.item = i /\ w.ver = version[i] /\ (w.gone => i \in marked)
    BY <2>0 DEF IInv, TypeOK
  <2>2. version[i] \in Nat
    BY <2>1, ShownKnown DEF IInv
  <2> QED BY <2>1, <2>2
<1>3. \A j, n : NoneOlder(j, n) => NoneOlder(j, n)'
  BY <1>0 DEF NoneOlder
<1> QED BY <1>0, <1>2, <1>3 DEF Telling

LEMMA TellingNext == IInv /\ Telling /\ [Next]_vars => Telling'
<1> SUFFICES ASSUME IInv, Telling, [Next]_vars PROVE Telling'
  OBVIOUS
<1>1. CASE CreateRoom \/ UNCHANGED vars
  <2>1. UNCHANGED <<version, deleted, events, queue, fetched, db, shown, backfilled, posts>>
    BY <1>1 DEF CreateRoom, vars, serverVars, portalVars
  <2> QED BY <2>1 DEF Telling, NoneOlder
<1>2. CASE Insert
  <2>1. /\ fetched' = {} /\ db' = db \union NewItems /\ backfilled' = backfilled \union NewItems
        /\ shown' = [i \in Items |-> IF i \in NewItems THEN Inserted(i) ELSE shown[i]]
        /\ posts' = [i \in Items |-> IF i \in NewItems THEN posts[i] + 1 ELSE posts[i]]
        /\ db = {} /\ NewItems \subseteq Items /\ \A i \in Items : posts[i] = 0
    BY <1>2, InsertStep DEF IInv, Rooms
  <2> QED BY <2>1 DEF Telling
<1> QED BY <1>1, <1>2, TellingServer, TellingHandler, TellingPortal, TellingFetch DEF Next, Portal

LEMMA TellingInit == Init => Telling
BY DEF Init, Telling

LEMMA TimelineServer ==
    ASSUME IInv, Server
    PROVE  [Reading!Next]_(Reading!vars)
<1>0. UNCHANGED <<Message, Shows, backfilled>>
  BY ServerStep DEF IInv, Message, Shows, portalVars
<1>1. CASE UNCHANGED <<version, deleted>>
  BY <1>0, <1>1 DEF Reading!vars, Reading!chatVars
<1>2. ASSUME NEW i \in Items, i \notin deleted, version[i] < MaxVersion,
             version' = [version EXCEPT ![i] = @ + 1], UNCHANGED deleted
      PROVE  Reading!Next
  BY <1>0, <1>2 DEF Reading!Next, Reading!Write
<1>3. ASSUME NEW i \in Items, version[i] > 0, i \notin deleted,
             deleted' = deleted \union {i}, UNCHANGED version
      PROVE  Reading!Next
  BY <1>0, <1>3 DEF Reading!Next, Reading!Delete
<1> QED BY <1>1, <1>2, <1>3, ServerWrites DEF IInv

LEMMA TimelineInsert == ASSUME IInv, Telling, Insert PROVE Reading!Next
<1>0. /\ NewItems \subseteq Items /\ db' = db \union NewItems
      /\ backfilled' = backfilled \union NewItems
      /\ shown' = [i \in Items |-> IF i \in NewItems THEN Inserted(i) ELSE shown[i]]
      /\ posts' = [i \in Items |-> IF i \in NewItems THEN posts[i] + 1 ELSE posts[i]]
      /\ UNCHANGED <<version, deleted>>
  BY InsertStep DEF IInv, serverVars
<1>1. db = {} /\ \A i \in Items : posts[i] = 0
  BY InsertStep DEF IInv, Rooms
<1>2. \A i \in Items : Message[i] = "none"
  BY <1>1 DEF Message
<1>3. Message' = [i \in Items |-> IF i \in NewItems THEN "posted" ELSE Message[i]]
  <2>1. ASSUME NEW i \in Items
        PROVE  Message'[i] = IF i \in NewItems THEN "posted" ELSE Message[i]
    BY <1>0, <1>1 DEF Message
  <2> QED BY <2>1 DEF Message
<1>4. ASSUME NEW i \in NewItems
      PROVE  Shows'[i] \in 1 .. version[i] \/ (Shows'[i] = 0 /\ i \in deleted)
  <2> DEFINE v == CHOOSE w \in fetched : w.item = i
  <2>1. v \in fetched /\ v.item = i /\ v \in View
    BY DEF NewItems, IInv, TypeOK
  <2>2. v.ver <= version[i] /\ (v.gone => i \in deleted) /\ v.ver \in 1 .. MaxVersion
    BY <2>1 DEF Telling, View
  <2>3. Inserted(i).ver = v.ver /\ Inserted(i).as \in Convert(v, FALSE, "bare")
    <3>1. Convert(v, FALSE, "bare") # {}
      BY <2>1, ConvertKnown
    <3> QED BY <3>1 DEF Inserted
  <2> HIDE DEF v
  <2>4. Inserted(i).as = "tombstone" => v.gone
    BY <2>3 DEF Convert
  <2>5. Shows'[i] = IF Inserted(i).as = "tombstone" THEN 0 ELSE v.ver
    BY <1>0, <2>3 DEF Shows
  <2> QED BY <2>2, <2>4, <2>5, ShownKnown DEF IInv, NewItems
<1>5. ASSUME NEW i \in Items, i \notin NewItems PROVE Shows'[i] = Shows[i]
  BY <1>0, <1>5 DEF Shows
<1>6. Shows' \in [Items -> 0 .. MaxVersion]
  <2>1. \A i \in Items : Shows'[i] \in 0 .. MaxVersion
    <3>1. TypeOK'
      BY InvNext DEF IInv, Next, Portal
    <3> QED BY <3>1, InboundAssumption DEF TypeOK, Shows, Nothing, InboundAssumption
  <2> QED BY <2>1 DEF Shows
<1>7. Reading!Open(NewItems)
  BY <1>0, <1>2, <1>3, <1>4, <1>5, <1>6 DEF Reading!Open, Reading!chatVars
<1> QED BY <1>0, <1>7 DEF Reading!Next

LEMMA TimelinePortal ==
    ASSUME IInv, Telling, PortalMessage \/ PortalEdit \/ PortalRemove
    PROVE  [Reading!Next]_(Reading!vars)
<1> DEFINE v == Head(queue).view
           i == v.item
<1>0. PICK type : Pop(type)
  BY DEF PortalMessage, PortalEdit, PortalRemove
<1>1. /\ v \in View /\ i \in Items /\ Sound(Head(queue)) /\ Head(queue).type = type
      /\ UNCHANGED <<version, deleted, backfilled>>
      /\ \A n : NoneOlder(i, n) => n <= v.ver
  BY <1>0, PopTells DEF View
<1>2. /\ v.ver \in 1 .. MaxVersion /\ v.ver <= version[i] /\ ~v.gone
  BY <1>1 DEF View, Sound, SoundIn
<1>3. /\ shown \in [Items -> [ver : 1 .. MaxVersion, as : Content] \union {Nothing}]
      /\ db \subseteq Items /\ posts \in [Items -> Nat]
  BY DEF IInv, TypeOK
<1>4. ASSUME NEW a, a # "tombstone", shown' = [shown EXCEPT ![i] = [ver |-> v.ver, as |-> a]]
      PROVE  Shows' = [Shows EXCEPT ![i] = v.ver]
  <2>1. \A j \in Items : Shows'[j] = [Shows EXCEPT ![i] = v.ver][j]
    BY <1>1, <1>3, <1>4 DEF Shows
  <2> QED BY <2>1 DEF Shows
<1>5. ASSUME UNCHANGED <<db, shown, posts>> PROVE UNCHANGED Reading!vars
  BY <1>1, <1>5 DEF Reading!vars, Reading!chatVars, Message, Shows
<1>6. ASSUME NEW uploads, uploads = TRUE, NEW failure \in {"notice", "bare"},
             NEW a \in Convert(v, uploads, failure)
      PROVE  a # "tombstone"
  BY <1>2, <1>6 DEF Convert
<1>7. CASE PortalMessage
  <2>1. CASE i \in db
    BY <1>5, <1>7, <2>1 DEF PortalMessage
  <2>2. CASE i \notin db
    <3>1. /\ db' = db \union {i} /\ posts' = [posts EXCEPT ![i] = @ + 1]
          /\ Show(v, TRUE, "notice")
      BY <1>7, <2>2 DEF PortalMessage
    <3>2. Shows' = [Shows EXCEPT ![i] = v.ver]
      BY <1>4, <1>6, <3>1 DEF Show
    <3>3. posts[i] = 0
      <4>1. Pop("message")
        BY <1>7 DEF PortalMessage
      <4>2. ~NoneOf(i)
        BY <1>1, <4>1, PopKeepsOrder
      <4> QED BY <1>1, <1>3, <2>2, <4>2 DEF IInv, Settled
    <3>4. Message[i] = "none"
      BY <1>1, <2>2, <3>3 DEF Message
    <3>5. Message' = [Message EXCEPT ![i] = "posted"]
      <4>1. \A j \in Items : Message'[j] = [Message EXCEPT ![i] = "posted"][j]
        BY <1>1, <1>3, <3>1 DEF Message
      <4> QED BY <4>1 DEF Message
    <3>6. Reading!Post(i, v.ver)
      BY <1>1, <1>2, <3>2, <3>4, <3>5 DEF Reading!Post, Reading!chatVars
    <3> QED BY <1>1, <1>2, <3>6 DEF Reading!Next
  <2> QED BY <2>1, <2>2
<1>8. CASE PortalEdit
  <2>0. UNCHANGED <<db, posts>>
    BY <1>8 DEF PortalEdit
  <2>1. CASE i \notin db
    BY <1>5, <1>8, <2>0, <2>1 DEF PortalEdit
  <2>2. CASE i \in db
    <3>1. Show(v, TRUE, "bare")
      BY <1>8, <2>2 DEF PortalEdit
    <3>2. Shows' = [Shows EXCEPT ![i] = v.ver]
      BY <1>4, <1>6, <3>1 DEF Show
    <3>3. UNCHANGED Message /\ Message[i] = "posted"
      BY <1>1, <2>0, <2>2 DEF Message
    <3>4. v.ver >= Shows[i] \/ i \in backfilled
      <4> SUFFICES ASSUME i \notin backfilled PROVE v.ver >= Shows[i]
        OBVIOUS
      <4>1. shown[i].ver <= v.ver
        BY <1>1, <2>2 DEF Telling
      <4>2. Shows[i] = 0 \/ Shows[i] = shown[i].ver
        BY <1>1 DEF Shows
      <4> QED BY <1>1, <1>2, <4>1, <4>2, ShownKnown DEF IInv
    <3>5. Reading!Replace(i, v.ver)
      BY <1>1, <1>2, <3>2, <3>3, <3>4 DEF Reading!Replace, Reading!chatVars
    <3> QED BY <1>1, <1>2, <3>5 DEF Reading!Next
  <2> QED BY <2>1, <2>2
<1>9. CASE PortalRemove
  <2>0. /\ UNCHANGED posts /\ db' = db \ {i} /\ shown' = [shown EXCEPT ![i] = Nothing]
        /\ i \in deleted
    BY <1>1, <1>9 DEF PortalRemove, Pop, Sound, SoundIn, Removal
  <2>1. CASE i \notin db
    <3>1. shown' = shown /\ db' = db
      BY <1>1, <1>3, <2>0, <2>1 DEF Telling
    <3> QED BY <1>5, <2>0, <3>1
  <2>2. CASE i \in db
    <3>1. posts[i] > 0
      BY <1>3, <2>2 DEF Telling, IInv
    <3>2. Message[i] = "posted" /\ Message' = [Message EXCEPT ![i] = "removed"]
      <4>1. \A j \in Items : Message'[j] = [Message EXCEPT ![i] = "removed"][j]
        BY <1>1, <1>3, <2>0, <2>2, <3>1 DEF Message
      <4> QED BY <1>1, <2>2, <4>1 DEF Message
    <3>3. Shows' = [Shows EXCEPT ![i] = 0]
      <4>1. \A j \in Items : Shows'[j] = [Shows EXCEPT ![i] = 0][j]
        BY <1>1, <1>3, <2>0 DEF Shows, Nothing
      <4> QED BY <4>1 DEF Shows
    <3>4. Reading!Remove(i)
      BY <1>1, <2>0, <3>2, <3>3 DEF Reading!Remove, Reading!chatVars
    <3> QED BY <1>1, <3>4 DEF Reading!Next
  <2> QED BY <2>1, <2>2
<1> QED BY <1>7, <1>8, <1>9

LEMMA TimelineNext ==
    ASSUME IInv, Telling, [Next]_vars
    PROVE  [Reading!Next]_(Reading!vars)
<1>1. CASE HandleSimplexEvent \/ CreateRoom \/ FetchMessages \/ UNCHANGED vars
  <2>1. UNCHANGED <<version, deleted, db, shown, posts, backfilled>>
    BY <1>1, HandlerStep, FetchStep
    DEF IInv, CreateRoom, vars, serverVars, portalVars
  <2> QED BY <2>1 DEF Reading!vars, Reading!chatVars, Message, Shows
<1> QED BY <1>1, TimelineServer, TimelineInsert, TimelinePortal DEF Next, Portal

LEMMA TimelineInit == Init => Reading!Init
<1> SUFFICES ASSUME Init PROVE Reading!Init
  OBVIOUS
<1>1. Message = [i \in Items |-> "none"] /\ Shows = [i \in Items |-> 0]
  BY DEF Init, Message, Shows, Nothing
<1> QED BY <1>1 DEF Init, Reading!Init

(* The room is a timeline of the chat: whatever the event loop, the files   *)
(* and the backfill do to it is a step of Timeline or none.                 *)
THEOREM RoomIsTimeline == Spec => ImplementsTimeline
<1>1. Spec => [](IInv /\ Telling)
  BY InvInit, InvNext, TellingInit, TellingNext, PTL DEF Spec
<1>2. IInv /\ Telling /\ [Next]_vars => [Reading!Next]_(Reading!vars)
  BY TimelineNext
<1> QED BY <1>1, <1>2, TimelineInit, PTL DEF Spec, ImplementsTimeline, Reading!Spec
================================================================================
