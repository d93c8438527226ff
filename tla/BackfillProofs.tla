----------------------------- MODULE BackfillProofs -----------------------------
(* Theorems about Backfill, for a history and batches of any size.          *)
EXTENDS Backfill, FiniteSetTheorems, WellFoundedInduction, TLAPS

-----------------------------------------------------------------------------
(* Sets of numbers.                                                         *)

LEMMA SmallestOf ==
    ASSUME NEW T \in SUBSET Nat, T # {}
    PROVE  \E x \in T : \A y \in T : x <= y
<1> DEFINE R == OpToRel(<, Nat)
<1>1. \A x, y \in Nat : x < y => <<x, y>> \in R
  BY DEF OpToRel
<1>2. PICK x \in T : \A y \in T : ~(<<y, x>> \in R)
  <2>1. IsWellFoundedOn(R, Nat)
    BY NatLessThanWellFounded
  <2> HIDE DEF R
  <2>2. QED
    BY <2>1, WFMin
<1> HIDE DEF R
<1>3. ASSUME NEW y \in T
      PROVE  x <= y
  <2>1. x \in Nat /\ y \in Nat /\ ~(y < x)
    BY <1>1, <1>2
  <2>2. QED
    BY <2>1
<1>4. QED
  BY <1>3

LEMMA MinIsSmallest ==
    ASSUME NEW T \in SUBSET Nat, T # {}
    PROVE  Min(T) \in T /\ \A y \in T : Min(T) <= y
BY SmallestOf DEF Min

LEMMA LargestOf ==
    ASSUME NEW n \in Nat, NEW T \in SUBSET (1 .. n), T # {}
    PROVE  \E x \in T : \A y \in T : y <= x
<1> DEFINE U == {n - x : x \in T}
<1>1. U \subseteq Nat /\ U # {}
  <2>1. \A x \in T : x \in Int /\ x <= n /\ n - x \in Nat
    OBVIOUS
  <2>2. QED
    BY <2>1
<1>2. PICK m \in U : \A y \in U : m <= y
  BY <1>1, SmallestOf
<1>3. PICK x \in T : m = n - x
  BY <1>2
<1>4. ASSUME NEW y \in T
      PROVE  y <= x
  <2>1. \E z \in T : n - y = n - z
    BY <1>4
  <2>2. m <= n - y
    BY <1>2, <2>1
  <2>3. x \in 1 .. n /\ y \in 1 .. n
    BY <1>3
  <2>4. QED
    BY <1>3, <2>2, <2>3
<1>5. QED
  BY <1>4

-----------------------------------------------------------------------------
(* The last Count elements of a chat: what GetChat returns.                 *)

LastOf(chat) == {i \in chat : Cardinality({j \in chat : j > i}) < Count}

(* They are the newest ones, at most Count, and all if fewer than Count.    *)
LEMMA LastOfChat ==
    ASSUME NEW chat \in SUBSET Items
    PROVE  /\ \A x \in chat \ LastOf(chat), y \in LastOf(chat) : x < y
           /\ IsFiniteSet(LastOf(chat)) /\ Cardinality(LastOf(chat)) <= Count
           /\ Cardinality(LastOf(chat)) < Count => LastOf(chat) = chat
<1> DEFINE T == LastOf(chat)
           Above(i) == {j \in chat : j > i}
<1>1. N \in Nat /\ Count \in Nat \ {0} /\ Items = 1 .. N /\ chat \subseteq Nat /\ T \subseteq chat
  BY BackfillAssumption DEF BackfillAssumption, Items, LastOf
<1>11. \A i, j : j \in Above(i) <=> j \in chat /\ j > i
  OBVIOUS
<1>12. \A i : i \in T <=> i \in chat /\ Cardinality(Above(i)) < Count
  BY DEF LastOf
<1>13. \A i : Above(i) \subseteq chat
  OBVIOUS
<1> HIDE DEF T, Above
<1>2. IsFiniteSet(chat) /\ IsFiniteSet(T) /\ \A i : IsFiniteSet(Above(i))
  <2>1. IsFiniteSet(1 .. N)
    BY <1>1, FS_Interval
  <2>2. IsFiniteSet(chat)
    BY <1>1, <2>1, FS_Subset
  <2>3. QED
    BY <1>1, <1>13, <2>2, FS_Subset
<1>3. /\ \A i : Cardinality(Above(i)) \in Nat
      /\ Cardinality(T) \in Nat
  BY <1>2, FS_CardinalityType
<1>4. ASSUME NEW x \in chat \ T, NEW y \in T
      PROVE  x < y
  <2>0. x \in Nat /\ y \in Nat
    BY <1>1
  <2>1. SUFFICES ASSUME x >= y PROVE FALSE
    BY <2>0
  <2>2. Above(x) \subseteq Above(y)
    <3>1. ASSUME NEW j \in Above(x)
          PROVE  j \in Above(y)
      <4>1. j \in chat /\ j > x
        BY <1>11
      <4>2. j \in Nat
        BY <1>1, <4>1
      <4>3. j > y
        BY <2>0, <2>1, <4>1, <4>2
      <4>4. QED
        BY <1>11, <4>1, <4>3
    <3>2. QED
      BY <3>1
  <2>3. Cardinality(Above(x)) <= Cardinality(Above(y))
    BY <1>2, <2>2, FS_Subset
  <2>4. Cardinality(Above(y)) < Count
    BY <1>12
  <2>5. Cardinality(Above(x)) < Count
    BY <1>1, <1>3, <2>3, <2>4
  <2>6. QED
    BY <1>12, <2>5
<1>5. Cardinality(T) <= Count
  <2>1. CASE T = {}
    BY <1>1, <2>1, FS_EmptySet
  <2>2. CASE T # {}
    <3>1. PICK t \in T : \A y \in T : t <= y
      BY <1>1, <2>2, SmallestOf
    <3>2. Above(t) = T \ {t}
      <4>1. \A j \in chat : j > t => j \in T
        BY <1>1, <1>4
      <4>2. \A j \in T \ {t} : j > t
        BY <1>1, <3>1
      <4>3. \A j \in chat : j > t => j # t
        BY <1>1, <3>1
      <4>4. QED
        BY <1>1, <1>11, <4>1, <4>2, <4>3
    <3>3. Cardinality(T \ {t}) = Cardinality(T) - 1
      BY <1>2, FS_RemoveElement
    <3>4. Cardinality(Above(t)) < Count
      BY <1>12
    <3>5. QED
      BY <1>1, <1>3, <3>2, <3>3, <3>4
  <2>3. QED
    BY <2>1, <2>2
<1>6. ASSUME Cardinality(T) < Count, T # chat
      PROVE  FALSE
  <2>1. PICK x \in chat \ T : \A y \in chat \ T : y <= x
    BY <1>1, <1>6, LargestOf
  <2>2. Above(x) = T
    <3>1. \A j \in chat : j > x => j \in T
      BY <1>1, <2>1
    <3>2. \A j \in T : j > x
      BY <1>1, <1>4, <2>1
    <3>3. QED
      BY <1>1, <1>11, <3>1, <3>2
  <2>3. QED
    BY <1>6, <1>12, <2>1, <2>2
<1>7. QED
  BY <1>2, <1>4, <1>5, <1>6 DEF T

-----------------------------------------------------------------------------
(* Type correctness: batches are what GetChat makes of the chat.            *)

(* What a batch holds, of a range of the chat.                              *)
Chosen(range, marked) == {i \in range : Exists(i) \/ i \in marked}

Truth(i) == IF i \in deleted THEN 0 ELSE version[i]

BatchOf(chat) == {[item |-> i, ver |-> Truth(i)] : i \in LastOf(chat)}

LEMMA FetchIs ==
    ASSUME NEW range, Fetch(range)
    PROVE  \E marked \in SUBSET deleted :
              /\ batch' = BatchOf(Chosen(range, marked))
              /\ more' = (Cardinality(LastOf(Chosen(range, marked))) >= Count)
BY DEF Fetch, GetChat, HasMore, BatchOf, LastOf, Chosen, Truth

LEMMA SizeOfBatch ==
    ASSUME NEW chat \in SUBSET Items
    PROVE  Cardinality(BatchOf(chat)) <= Count
<1> DEFINE T == LastOf(chat)
           B == BatchOf(chat)
           f == [i \in T |-> [item |-> i, ver |-> Truth(i)]]
<1>1. IsFiniteSet(T) /\ Cardinality(T) <= Count
  BY LastOfChat
<1>2. f \in Surjection(T, B)
  BY DEF BatchOf, Surjection
<1>3. IsFiniteSet(B) /\ Cardinality(B) <= Cardinality(T)
  BY <1>1, <1>2, FS_Surjection
<1>4. Cardinality(B) \in Nat /\ Cardinality(T) \in Nat /\ Count \in Nat
  BY <1>1, <1>3, FS_CardinalityType, BackfillAssumption DEF BackfillAssumption
<1> HIDE DEF T, B
<1>5. Cardinality(B) <= Count
  BY <1>1, <1>3, <1>4
<1>6. QED
  BY <1>5 DEF B

(* Every edit is one of the changes.                                        *)
Counted == \A i \in Items : version[i] <= changes + 1

Typed == TypeOK /\ Counted

Version == 1 .. MaxChanges + 1
EventRec == [type : {"message", "edit", "remove"}, item : Items, ver : Version]

LEMMA QueuedKeepsType ==
    ASSUME TypeOK, NEW type \in {"message", "edit", "remove"}, NEW i \in Items,
           version'[i] \in Version, Queued(type, i)
    PROVE  queue' \in Seq(EventRec) /\ Len(queue') <= QueueCap /\ lost' \subseteq Items
<1>1. queue \in Seq(EventRec) /\ Len(queue) <= QueueCap /\ QueueCap \in Nat
  BY BackfillAssumption DEF BackfillAssumption, TypeOK, EventRec, Version
<1>2. CASE up /\ Len(queue) < QueueCap
  <2> DEFINE e == [type |-> type, item |-> i, ver |-> version'[i]]
  <2>1. e \in EventRec
    BY DEF EventRec
  <2>2. queue' = Append(queue, e) /\ lost' = lost
    BY <1>2 DEF Queued
  <2> HIDE DEF e
  <2>3. Append(queue, e) \in Seq(EventRec) /\ Len(Append(queue, e)) = Len(queue) + 1
    BY <1>1, <2>1
  <2>4. QED
    BY <1>1, <1>2, <2>2, <2>3 DEF TypeOK
<1>3. CASE ~(up /\ Len(queue) < QueueCap)
  BY <1>1, <1>3 DEF Queued, TypeOK
<1>4. QED
  BY <1>2, <1>3

(* What the server does to the chat.                                        *)
LEMMA ServerTypes ==
    ASSUME Typed, Server
    PROVE  /\ last' \in last .. N /\ changes' \in 0 .. MaxChanges
           /\ version' \in [Items -> Version] /\ Counted'
           /\ deleted \subseteq deleted' /\ deleted' \subseteq Items /\ up' \in BOOLEAN
           /\ queue' \in Seq(EventRec) /\ Len(queue') <= QueueCap /\ lost' \subseteq Items
<1>1. /\ N \in Nat \ {0} /\ MaxChanges \in Nat /\ Items = 1 .. N
      /\ last \in 0 .. N /\ changes \in 0 .. MaxChanges
      /\ version \in [Items -> Version] /\ Version = 1 .. MaxChanges + 1
  BY BackfillAssumption DEF BackfillAssumption, Items, Typed, TypeOK, Version
<1>2. \A i \in Items : version[i] <= changes + 1
  BY DEF Typed, Counted
<1>3. CASE Create
  <2>1. last' = last + 1 /\ last < N /\ last' \in Items
    BY <1>1, <1>3 DEF Create
  <2>2. UNCHANGED <<version, deleted, up, changes>>
    BY <1>3 DEF Create
  <2>3. queue' \in Seq(EventRec) /\ Len(queue') <= QueueCap /\ lost' \subseteq Items
    BY <1>1, <1>3, <2>1, <2>2, QueuedKeepsType DEF Create, Typed
  <2>4. Counted'
    BY <1>2, <2>2 DEF Counted
  <2>5. deleted \subseteq Items /\ up \in BOOLEAN
    BY DEF Typed, TypeOK
  <2>6. last' \in last .. N
    BY <1>1, <2>1
  <2>7. QED
    BY <1>1, <2>2, <2>3, <2>4, <2>5, <2>6
<1>4. CASE Connection
  <2>1. changes' \in 0 .. MaxChanges /\ changes' >= changes
    <3>1. CASE up
      BY <1>1, <1>4, <3>1 DEF Connection, Change
    <3>2. CASE ~up
      BY <1>1, <1>4, <3>2 DEF Connection
    <3>3. QED
      BY <3>1, <3>2
  <2>2. UNCHANGED <<last, version, deleted, queue, lost>> /\ up' \in BOOLEAN
    BY <1>4 DEF Connection
  <2>3. queue \in Seq(EventRec) /\ Len(queue) <= QueueCap /\ lost \subseteq Items
        /\ deleted \subseteq Items
    BY DEF Typed, TypeOK, EventRec, Version
  <2>4. Counted'
    BY <1>1, <1>2, <2>1, <2>2 DEF Counted
  <2>5. QED
    BY <1>1, <2>1, <2>2, <2>3, <2>4
<1>5. ASSUME NEW i \in Items, Complete(i) \/ Edit(i) \/ Delete(i)
      PROVE  /\ last' \in last .. N /\ changes' \in 0 .. MaxChanges
             /\ version' \in [Items -> Version] /\ Counted'
             /\ deleted \subseteq deleted' /\ deleted' \subseteq Items /\ up' \in BOOLEAN
             /\ queue' \in Seq(EventRec) /\ Len(queue') <= QueueCap /\ lost' \subseteq Items
  <2>1. changes < MaxChanges /\ changes' = changes + 1 /\ UNCHANGED <<last, up>>
    BY <1>5 DEF Complete, Edit, Delete, Change
  <2>2. \/ version' = version
        \/ version' = [version EXCEPT ![i] = @ + 1]
    BY <1>5 DEF Complete, Edit, Delete
  <2>3. version' \in [Items -> Version] /\ Counted'
    <3>1. CASE version' = version
      <4>1. \A j \in Items : version[j] \in Nat
        BY <1>1
      <4>2. \A j \in Items : version'[j] <= changes' + 1
        BY <1>1, <1>2, <2>1, <3>1, <4>1
      <4>3. QED
        BY <1>1, <3>1, <4>2 DEF Counted
    <3>2. CASE version' = [version EXCEPT ![i] = @ + 1]
      <4>1. version'[i] = version[i] + 1 /\ \A j \in Items : j # i => version'[j] = version[j]
        BY <1>1, <3>2
      <4>2. version[i] + 1 <= changes' + 1 /\ version[i] + 1 \in Version
        BY <1>1, <1>2, <2>1
      <4>3. ASSUME NEW j \in Items PROVE version'[j] \in Version /\ version'[j] <= changes' + 1
        <5>1. CASE j = i
          BY <4>1, <4>2, <5>1
        <5>2. CASE j # i
          <6>1. version'[j] = version[j] /\ version[j] \in Version /\ version[j] <= changes + 1
            BY <1>1, <1>2, <4>1, <5>2
          <6>2. QED
            BY <1>1, <2>1, <6>1
        <5>3. QED
          BY <5>1, <5>2
      <4>4. version' \in [Items -> Version]
        BY <1>1, <3>2, <4>2
      <4>5. QED
        BY <4>3, <4>4 DEF Counted
    <3>3. QED
      BY <2>2, <3>1, <3>2
  <2>4. deleted \subseteq deleted' /\ deleted' \subseteq Items
    BY <1>5 DEF Complete, Edit, Delete, Typed, TypeOK
  <2>5. PICK type \in {"message", "edit", "remove"} : Queued(type, i)
    BY <1>5 DEF Complete, Edit, Delete
  <2>6. queue' \in Seq(EventRec) /\ Len(queue') <= QueueCap /\ lost' \subseteq Items
    BY <2>3, <2>5, QueuedKeepsType DEF Typed
  <2>7. last' \in last .. N /\ changes' \in 0 .. MaxChanges
    BY <1>1, <2>1
  <2>8. up' \in BOOLEAN
    BY <2>1 DEF Typed, TypeOK
  <2>9. QED
    BY <2>3, <2>4, <2>6, <2>7, <2>8
<1>6. QED
  BY <1>3, <1>4, <1>5 DEF Server

(* The chat's part of the state, which the framework's steps leave alone.   *)
ServerTyped ==
    /\ last \in 0 .. N /\ version \in [Items -> Version] /\ Counted
    /\ deleted \subseteq Items /\ up \in BOOLEAN /\ changes \in 0 .. MaxChanges

QueueTyped == queue \in Seq(EventRec) /\ Len(queue) <= QueueCap

FrameTyped ==
    /\ room \in BOOLEAN /\ task \in {"none", "todo", "done"}
    /\ batch \subseteq [item : Items, ver : 0 .. MaxChanges + 1]
    /\ Cardinality(batch) <= Count /\ more \in BOOLEAN

RoomTyped ==
    /\ db \subseteq Items
    /\ shown \in [Items -> 0 .. MaxChanges + 1] /\ posts \in [Items -> Nat]
    /\ present \subseteq Items /\ overtaken \subseteq Items
    /\ lost \subseteq Items /\ jumped \subseteq Items

LEMMA TypedParts == Typed <=> ServerTyped /\ QueueTyped /\ FrameTyped /\ RoomTyped
BY DEF Typed, TypeOK, ServerTyped, QueueTyped, FrameTyped, RoomTyped, EventRec, Version

LEMMA ServerKeepsType == ASSUME Typed, Server PROVE Typed'
<1>1. ServerTyped' /\ QueueTyped' /\ lost' \subseteq Items
  <2>1. last' \in 0 .. N
    <3>1. last' \in last .. N
      BY ServerTypes
    <3>2. last \in 0 .. N /\ N \in Nat
      BY BackfillAssumption DEF BackfillAssumption, Typed, TypeOK
    <3>3. QED
      BY <3>1, <3>2
  <2>2. QED
    BY <2>1, ServerTypes DEF ServerTyped, QueueTyped
<1>2. FrameTyped' /\ RoomTyped'
  BY <1>1, TypedParts DEF Server, FrameTyped, RoomTyped
<1>3. QED
  BY <1>1, <1>2, TypedParts, PTL

LEMMA FetchTypes ==
    ASSUME Typed, NEW range \in SUBSET Items, Fetch(range)
    PROVE  /\ batch' \subseteq [item : Items, ver : 0 .. MaxChanges + 1]
           /\ Cardinality(batch') <= Count /\ more' \in BOOLEAN
<1>1. PICK marked \in SUBSET deleted :
          /\ batch' = BatchOf(Chosen(range, marked))
          /\ more' = (Cardinality(LastOf(Chosen(range, marked))) >= Count)
  BY FetchIs
<1>2. Chosen(range, marked) \in SUBSET Items
  BY DEF Chosen
<1>3. Cardinality(batch') <= Count
  BY <1>1, <1>2, SizeOfBatch
<1>4. \A i \in Items : Truth(i) \in 0 .. MaxChanges + 1
  BY BackfillAssumption DEF BackfillAssumption, Truth, Typed, TypeOK
<1>5. batch' \subseteq [item : Items, ver : 0 .. MaxChanges + 1]
  <2>1. \A i \in LastOf(Chosen(range, marked)) :
            [item |-> i, ver |-> Truth(i)] \in [item : Items, ver : 0 .. MaxChanges + 1]
    BY <1>2, <1>4 DEF LastOf
  <2>2. QED
    BY <1>1, <2>1 DEF BatchOf
<1>6. more' \in BOOLEAN
  BY <1>1
<1>7. QED
  BY <1>3, <1>5, <1>6

LEMMA CreateRoomKeepsType == ASSUME Typed, CreateRoom PROVE Typed'
<1>1. ServerTyped' /\ QueueTyped'
  BY TypedParts DEF CreateRoom, serverVars, ServerTyped, QueueTyped, Counted
<1>2. (1 .. last) \in SUBSET Items
  BY BackfillAssumption DEF BackfillAssumption, Items, Typed, TypeOK
<1>3. FrameTyped'
  <2>1. /\ batch' \subseteq [item : Items, ver : 0 .. MaxChanges + 1]
        /\ Cardinality(batch') <= Count /\ more' \in BOOLEAN
    <3>1. CASE Fetch(1 .. last)
      BY <1>2, <3>1, FetchTypes
    <3>2. CASE UNCHANGED <<batch, more>>
      BY <3>2 DEF Typed, TypeOK
    <3>3. QED
      BY <3>1, <3>2 DEF CreateRoom
  <2>2. task' \in {"none", "todo", "done"} /\ room' \in BOOLEAN
    BY DEF CreateRoom
  <2>3. QED
    BY <2>1, <2>2 DEF FrameTyped
<1>4. RoomTyped'
  BY TypedParts DEF CreateRoom, RoomTyped
<1>5. QED
  BY <1>1, <1>3, <1>4, TypedParts, PTL

LEMMA FetchOlderKeepsType == ASSUME Typed, FetchOlder PROVE Typed'
<1> DEFINE range == IF db = {} THEN 1 .. last ELSE Before(Min(db))
<1>1. ServerTyped' /\ QueueTyped' /\ RoomTyped'
  BY TypedParts DEF FetchOlder, serverVars, portalVars, historyVars,
                    ServerTyped, QueueTyped, RoomTyped, Counted
<1>2. range \in SUBSET Items
  <2>1. /\ N \in Nat /\ Items = 1 .. N /\ last \in 0 .. N /\ db \subseteq Items
    BY BackfillAssumption DEF BackfillAssumption, Items, Typed, TypeOK
  <2>2. CASE db = {}
    BY <2>1, <2>2
  <2>3. CASE db # {}
    <3>1. Min(db) \in db
      <4>1. db \in SUBSET Nat
        BY <2>1
      <4>2. QED
        BY <2>3, <4>1, MinIsSmallest
    <3>2. Min(db) \in 1 .. N
      BY <2>1, <3>1
    <3>3. 1 .. Min(db) - 1 \subseteq 1 .. N
      BY <2>1, <3>2
    <3>4. QED
      BY <2>1, <2>3, <3>3 DEF Before
  <2>4. QED
    BY <2>2, <2>3
<1>3. FrameTyped'
  <2>1. Fetch(range)
    BY DEF FetchOlder
  <2> HIDE DEF range
  <2>2. /\ batch' \subseteq [item : Items, ver : 0 .. MaxChanges + 1]
        /\ Cardinality(batch') <= Count /\ more' \in BOOLEAN
    BY <1>2, <2>1, FetchTypes
  <2>3. task' \in {"none", "todo", "done"} /\ room' \in BOOLEAN
    BY DEF FetchOlder, portalVars, Typed, TypeOK
  <2>4. QED
    BY <2>2, <2>3 DEF FrameTyped
<1>4. QED
  BY <1>1, <1>3, TypedParts, PTL

LEMMA InsertKeepsType == ASSUME Typed, Insert PROVE Typed'
<1>1. ServerTyped' /\ QueueTyped'
  BY TypedParts DEF Insert, serverVars, ServerTyped, QueueTyped, Counted
<1>2. batch \subseteq [item : Items, ver : 0 .. MaxChanges + 1] /\ more \in BOOLEAN
  BY DEF Typed, TypeOK
<1>3. FrameTyped'
  <2>1. Cardinality({}) <= Count
    BY FS_EmptySet, BackfillAssumption DEF BackfillAssumption
  <2>2. batch' = {} /\ more' = more /\ room' = TRUE /\ task' \in {"todo", "done"}
    BY DEF Insert
  <2>3. QED
    BY <1>2, <2>1, <2>2 DEF FrameTyped
<1>4. RoomTyped'
  <2> DEFINE new == {v.item : v \in batch}
             Ver(i) == (CHOOSE v \in batch : v.item = i).ver
  <2>1. \A i \in new : Ver(i) \in 0 .. MaxChanges + 1
    <3>1. ASSUME NEW i \in new
          PROVE  Ver(i) \in 0 .. MaxChanges + 1
      <4>1. \E v \in batch : v.item = i
        OBVIOUS
      <4>2. (CHOOSE v \in batch : v.item = i) \in batch
        BY <4>1
      <4>3. QED
        BY <1>2, <4>2
    <3>2. QED
      BY <3>1
  <2>2. new \subseteq Items
    BY <1>2
  <2>3. /\ db' = db \union new
        /\ shown' = [i \in Items |-> IF i \in new THEN Ver(i) ELSE shown[i]]
        /\ posts' = [i \in Items |-> IF i \in new /\ Ver(i) > 0 THEN posts[i] + 1
                                     ELSE posts[i]]
    BY DEF Insert
  <2> HIDE DEF new, Ver
  <2>4. shown' \in [Items -> 0 .. MaxChanges + 1] /\ posts' \in [Items -> Nat]
    BY <2>1, <2>2, <2>3 DEF Typed, TypeOK
  <2>5. QED
    BY <2>2, <2>3, <2>4 DEF Insert, historyVars, RoomTyped, Typed, TypeOK
<1>5. QED
  BY <1>1, <1>3, <1>4, TypedParts, PTL

(* The portal takes the head of its queue.                                  *)
LEMMA HeadOfQueue ==
    ASSUME QueueTyped, NEW type, Pop(type)
    PROVE  /\ Head(queue) \in EventRec /\ Item \in Items /\ Head(queue).ver \in Version
           /\ queue' \in Seq(EventRec) /\ Len(queue') <= QueueCap
<1>1. /\ queue \in Seq(EventRec) /\ Len(queue) <= QueueCap /\ queue # << >>
      /\ queue' = Tail(queue) /\ QueueCap \in Nat
  BY BackfillAssumption DEF BackfillAssumption, QueueTyped, Pop
<1>2. Head(queue) \in EventRec /\ Tail(queue) \in Seq(EventRec)
      /\ Len(Tail(queue)) = Len(queue) - 1 /\ Len(queue) \in Nat
  BY <1>1
<1>3. QED
  BY <1>1, <1>2 DEF EventRec, Item

LEMMA PortalKeepsType == ASSUME Typed, Portal PROVE Typed'
<1>1. PICK type \in {"message", "edit", "remove"} : Pop(type)
  BY DEF Portal, PortalMessage, PortalEdit, PortalRemove
<1>2. ServerTyped /\ QueueTyped /\ FrameTyped /\ RoomTyped
  BY TypedParts
<1>3. ServerTyped' /\ FrameTyped'
  BY <1>1, <1>2 DEF Pop, serverVars, ServerTyped, FrameTyped, Counted
<1>4. QueueTyped' /\ Item \in Items /\ Head(queue).ver \in Version
  BY <1>1, <1>2, HeadOfQueue DEF QueueTyped
<1>5. RoomTyped'
  <2>1. overtaken' \subseteq Items /\ UNCHANGED <<present, lost>>
    BY <1>1, <1>2, <1>4 DEF Pop, RoomTyped, Item
  <2>2. Head(queue).ver \in 0 .. MaxChanges + 1 /\ 0 \in 0 .. MaxChanges + 1
    BY <1>4, BackfillAssumption DEF BackfillAssumption, Version
  <2>3. CASE PortalMessage
    BY <1>2, <1>4, <2>1, <2>2, <2>3 DEF PortalMessage, RoomTyped
  <2>4. CASE PortalEdit
    BY <1>2, <1>4, <2>1, <2>2, <2>4 DEF PortalEdit, RoomTyped
  <2>5. CASE PortalRemove
    BY <1>2, <1>4, <2>1, <2>2, <2>5 DEF PortalRemove, RoomTyped
  <2>6. QED
    BY <2>3, <2>4, <2>5 DEF Portal
<1>6. QED
  BY <1>3, <1>4, <1>5, TypedParts, PTL

LEMMA TypedInit == Init => Typed
<1> SUFFICES ASSUME Init PROVE Typed
  OBVIOUS
<1>1. /\ N \in Nat \ {0} /\ Count \in Nat \ {0} /\ MaxChanges \in Nat /\ QueueCap \in Nat
      /\ Items = 1 .. N
  BY BackfillAssumption DEF BackfillAssumption, Items
<1>2. ServerTyped
  BY <1>1 DEF Init, ServerTyped, Counted, Version
<1>3. QueueTyped
  BY <1>1 DEF Init, QueueTyped
<1>4. FrameTyped
  <2>1. Cardinality(batch) <= Count
    BY <1>1, FS_EmptySet DEF Init
  <2>2. QED
    BY <2>1 DEF Init, FrameTyped
<1>5. RoomTyped
  BY <1>1 DEF Init, RoomTyped
<1>6. QED
  BY <1>2, <1>3, <1>4, <1>5, TypedParts

LEMMA TypedNext == Typed /\ [Next]_vars => Typed'
<1> SUFFICES ASSUME Typed, [Next]_vars PROVE Typed'
  OBVIOUS
<1>1. CASE UNCHANGED vars
  BY <1>1 DEF vars, serverVars, portalVars, historyVars, Typed, TypeOK, Counted
<1>2. QED
  BY <1>1, ServerKeepsType, CreateRoomKeepsType, FetchOlderKeepsType, InsertKeepsType,
     PortalKeepsType DEF Next

(* Every variable keeps its type; in particular no batch has more than      *)
(* Count items.                                                             *)
THEOREM TypeCorrect == Spec => []TypeOK
<1>1. Typed => TypeOK
  BY DEF Typed
<1>2. QED
  BY <1>1, TypedInit, TypedNext, PTL DEF Spec

-----------------------------------------------------------------------------
(* What waits in a queue.                                                   *)

ChangeOf(x, i) == x.item = i /\ x.type # "message"

NoChange(s, i) == \A k \in 1 .. Len(s) : ~ChangeOf(s[k], i)

(* x is in the queue and no change of i follows it.                         *)
After(s, x, i) ==
    \E k \in 1 .. Len(s) : s[k] = x /\ \A m \in k + 1 .. Len(s) : ~ChangeOf(s[m], i)

Gone(s, i) == \A k \in 1 .. Len(s) : s[k].item # i

(* A removal is the last that is said of an item.                           *)
Final(s) == \A k \in 1 .. Len(s) : s[k].type = "remove" =>
                \A m \in k + 1 .. Len(s) : s[m].item # s[k].item

LEMMA AppendTo ==
    ASSUME NEW S, NEW s \in Seq(S), NEW e \in S, NEW i
    PROVE  /\ \A x : After(Append(s, e), x, i) =>
                        x = e \/ (~ChangeOf(e, i) /\ After(s, x, i))
           /\ NoChange(Append(s, e), i) => NoChange(s, i) /\ ~ChangeOf(e, i)
           /\ Gone(s, i) /\ e.item # i => Gone(Append(s, e), i)
<1> DEFINE t == Append(s, e)
<1>1. /\ Len(s) \in Nat /\ Len(t) = Len(s) + 1 /\ t[Len(s) + 1] = e
      /\ \A k \in 1 .. Len(s) : t[k] = s[k]
  OBVIOUS
<1> HIDE DEF t
<1>2. ASSUME NEW x, After(t, x, i), x # e
      PROVE  ~ChangeOf(e, i) /\ After(s, x, i)
  <2>1. PICK k \in 1 .. Len(t) : t[k] = x /\ \A m \in k + 1 .. Len(t) : ~ChangeOf(t[m], i)
    BY <1>2 DEF After
  <2>2. k # Len(s) + 1
    BY <1>1, <1>2, <2>1
  <2>3. k \in 1 .. Len(s) /\ Len(s) + 1 \in k + 1 .. Len(t)
    BY <1>1, <2>1, <2>2
  <2>4. ~ChangeOf(e, i)
    BY <1>1, <2>1, <2>3
  <2>5. s[k] = x /\ \A m \in k + 1 .. Len(s) : ~ChangeOf(s[m], i)
    BY <1>1, <2>1, <2>3
  <2>6. QED
    BY <2>3, <2>4, <2>5 DEF After
<1>3. ASSUME NoChange(t, i)
      PROVE  NoChange(s, i) /\ ~ChangeOf(e, i)
  <2>1. \A k \in 1 .. Len(s) + 1 : ~ChangeOf(t[k], i)
    BY <1>1, <1>3 DEF NoChange
  <2>2. QED
    BY <1>1, <2>1 DEF NoChange
<1>4. ASSUME Gone(s, i), e.item # i
      PROVE  Gone(t, i)
  BY <1>1, <1>4 DEF Gone
<1>5. QED
  BY <1>2, <1>3, <1>4 DEF t

LEMMA FinalAppend ==
    ASSUME NEW S, NEW s \in Seq(S), NEW e \in S, Final(s),
           \A k \in 1 .. Len(s) : s[k].type = "remove" => s[k].item # e.item
    PROVE  Final(Append(s, e))
<1> DEFINE t == Append(s, e)
<1>1. /\ Len(s) \in Nat /\ Len(t) = Len(s) + 1 /\ t[Len(s) + 1] = e
      /\ \A k \in 1 .. Len(s) : t[k] = s[k]
  OBVIOUS
<1> HIDE DEF t
<1>2. ASSUME NEW k \in 1 .. Len(t), t[k].type = "remove", NEW m \in k + 1 .. Len(t)
      PROVE  t[m].item # t[k].item
  <2>1. k \in 1 .. Len(s) /\ t[k] = s[k]
    BY <1>1
  <2>2. CASE m = Len(s) + 1
    BY <1>1, <1>2, <2>1, <2>2
  <2>3. CASE m # Len(s) + 1
    <3>1. m \in k + 1 .. Len(s) /\ m \in 1 .. Len(s)
      BY <1>1, <2>1, <2>3
    <3>2. QED
      BY <1>1, <1>2, <2>1, <3>1 DEF Final
  <2>4. QED
    BY <2>2, <2>3
<1>3. QED
  BY <1>2 DEF Final, t

LEMMA TailFrom ==
    ASSUME NEW S, NEW s \in Seq(S), s # << >>, NEW i
    PROVE  /\ \A x : After(Tail(s), x, i) => After(s, x, i)
           /\ NoChange(Tail(s), i) => After(s, Head(s), i)
           /\ NoChange(Tail(s), i) /\ ~ChangeOf(Head(s), i) => NoChange(s, i)
           /\ Gone(s, i) => Gone(Tail(s), i) /\ Head(s).item # i
<1> DEFINE t == Tail(s)
           h == Head(s)
<1>1. /\ Len(s) \in Nat \ {0} /\ Len(t) = Len(s) - 1 /\ h = s[1]
      /\ \A k \in 1 .. Len(t) : t[k] = s[k + 1]
  OBVIOUS
<1> HIDE DEF t, h
<1>2. \A k \in 2 .. Len(s) : k - 1 \in 1 .. Len(t) /\ s[k] = t[k - 1]
  <2>1. ASSUME NEW k \in 2 .. Len(s)
        PROVE  k - 1 \in 1 .. Len(t) /\ s[k] = t[k - 1]
    <3>1. k - 1 \in 1 .. Len(t) /\ (k - 1) + 1 = k
      BY <1>1
    <3>2. QED
      BY <1>1, <3>1
  <2>2. QED
    BY <2>1
<1>3. ASSUME NEW x, After(t, x, i)
      PROVE  After(s, x, i)
  <2>1. PICK k \in 1 .. Len(t) : t[k] = x /\ \A m \in k + 1 .. Len(t) : ~ChangeOf(t[m], i)
    BY <1>3 DEF After
  <2>2. k + 1 \in 1 .. Len(s) /\ s[k + 1] = x
    BY <1>1, <2>1
  <2>3. ASSUME NEW m \in (k + 1) + 1 .. Len(s)
        PROVE  ~ChangeOf(s[m], i)
    <3>1. m \in 2 .. Len(s) /\ m - 1 \in k + 1 .. Len(t)
      BY <1>1
    <3>2. QED
      BY <1>2, <2>1, <3>1
  <2>4. QED
    BY <2>2, <2>3 DEF After
<1>4. ASSUME NoChange(t, i)
      PROVE  \A m \in 2 .. Len(s) : ~ChangeOf(s[m], i)
  BY <1>2, <1>4 DEF NoChange
<1>5. ASSUME NoChange(t, i)
      PROVE  After(s, h, i)
  BY <1>1, <1>4, <1>5 DEF After
<1>6. ASSUME NoChange(t, i), ~ChangeOf(h, i)
      PROVE  NoChange(s, i)
  <2>1. \A k \in 1 .. Len(s) : k = 1 \/ k \in 2 .. Len(s)
    BY <1>1
  <2>2. QED
    BY <1>1, <1>4, <1>6, <2>1 DEF NoChange
<1>7. ASSUME Gone(s, i)
      PROVE  Gone(t, i) /\ h.item # i
  <2>1. \A k \in 1 .. Len(t) : k + 1 \in 1 .. Len(s)
    BY <1>1
  <2>2. QED
    BY <1>1, <1>7, <2>1 DEF Gone
<1>8. QED
  BY <1>3, <1>5, <1>6, <1>7 DEF t, h

LEMMA FinalTail ==
    ASSUME NEW S, NEW s \in Seq(S), s # << >>, Final(s)
    PROVE  /\ Final(Tail(s))
           /\ Head(s).type = "remove" => Gone(Tail(s), Head(s).item)
<1> DEFINE t == Tail(s)
           h == Head(s)
<1>1. /\ Len(s) \in Nat \ {0} /\ Len(t) = Len(s) - 1 /\ h = s[1]
      /\ \A k \in 1 .. Len(t) : t[k] = s[k + 1]
  OBVIOUS
<1> HIDE DEF t, h
<1>2. ASSUME NEW k \in 1 .. Len(t), t[k].type = "remove", NEW m \in k + 1 .. Len(t)
      PROVE  t[m].item # t[k].item
  <2>1. k + 1 \in 1 .. Len(s) /\ m + 1 \in (k + 1) + 1 .. Len(s) /\ m \in 1 .. Len(t)
    BY <1>1
  <2>2. t[k] = s[k + 1] /\ t[m] = s[m + 1]
    BY <1>1, <2>1
  <2>3. QED
    BY <1>2, <2>1, <2>2 DEF Final
<1>3. ASSUME h.type = "remove"
      PROVE  Gone(t, h.item)
  <2>1. \A k \in 1 .. Len(t) : k + 1 \in 1 + 1 .. Len(s)
    BY <1>1
  <2>2. QED
    BY <1>1, <1>3, <2>1 DEF Final, Gone
<1>4. QED
  BY <1>2, <1>3 DEF Final, t, h

-----------------------------------------------------------------------------
(* The inductive invariant.                                                 *)

(* Who is removed was deleted, and nothing else follows.                    *)
Sound ==
    /\ Final(queue) /\ deleted \subseteq 1 .. last
    /\ \A k \in 1 .. Len(queue) : queue[k].type = "remove" => queue[k].item \in deleted

(* Before the backfill there is no room.                                    *)
Fresh ==
    /\ task = "none" => db = {} /\ present = {} /\ batch = {} /\ ~room
    /\ task = "done" => batch = {}
    /\ present \subseteq 1 .. last

(* An item the room still lacks is in the batch, or below all that was      *)
(* fetched and posted, with more to come.                                   *)
ToCome(i) ==
    IF batch = {} THEN task # "done" /\ \A d \in db : i < d
    ELSE \/ \E v \in batch : v.item = i
         \/ more /\ (\A d \in db : i < d) /\ \A v \in batch : i < v.item

Lacks(i) == i \in present /\ i \notin deleted /\ i \notin jumped /\ i \notin db

NoneLeftOut == \A i \in Items : Lacks(i) => ToCome(i)

(* An item that was posted and is no longer there was deleted, and nothing  *)
(* more is said of it; what a batch would post has not been posted.         *)
Once(i) ==
    /\ posts[i] <= 1
    /\ posts[i] > 0 /\ i \notin db => i \in deleted /\ Gone(queue, i)
    /\ \A v \in batch : v.item = i /\ v.ver > 0 => posts[i] = 0

(* What no change follows in the queue is true, and once no change waits,   *)
(* the room and the batch are as the chat is.                               *)
Truthful(i, x) == IF x.type = "remove" THEN i \in deleted
                  ELSE i \notin deleted /\ x.ver = version[i]

Honest(i) == \A x : After(queue, x, i) /\ x.item = i => Truthful(i, x)

UpToDate(i) ==
    /\ Honest(i)
    /\ NoChange(queue, i) /\ i \in db => shown[i] = Truth(i)
    /\ NoChange(queue, i) => \A v \in batch : v.item = i => v.ver = Truth(i)

IInv ==
    /\ Sound /\ Fresh /\ NoneLeftOut
    /\ \A i \in Items \ overtaken : Once(i)
    /\ \A i \in Items \ (overtaken \union lost) : UpToDate(i)

-----------------------------------------------------------------------------
(* The server says one thing about one item that exists, or is not heard.   *)

SaidOf(type, i) ==
    /\ i \notin deleted /\ i \in 1 .. last'
    /\ \A j \in Items \ {i} : version'[j] = version[j]
    /\ type # "edit" => version' = version
    /\ deleted' = IF type = "remove" THEN deleted \union {i} ELSE deleted
    /\ Queued(type, i)

LEMMA ServerSays ==
    ASSUME Typed, Sound, Server
    PROVE  /\ last' \in Nat /\ last <= last' /\ deleted' \subseteq 1 .. last'
           /\ \/ UNCHANGED <<version, deleted, queue, lost>>
              \/ \E type \in {"message", "edit", "remove"}, i \in Items : SaidOf(type, i)
<1>1. /\ N \in Nat \ {0} /\ Items = 1 .. N /\ last \in 0 .. N /\ deleted \subseteq 1 .. last
      /\ version \in [Items -> Version]
  BY BackfillAssumption DEF BackfillAssumption, Items, Typed, TypeOK, Version, Sound
<1>2. CASE Create
  <2>1. last' = last + 1 /\ last' \in Items /\ last' \notin deleted
    BY <1>1, <1>2 DEF Create
  <2>2. SaidOf("message", last')
    BY <1>1, <1>2, <2>1 DEF Create, SaidOf
  <2>3. deleted' = deleted
    BY <1>2 DEF Create
  <2>4. deleted' \subseteq 1 .. last'
    BY <1>1, <2>1, <2>3
  <2>5. QED
    BY <1>1, <2>1, <2>2, <2>4
<1>3. CASE Connection
  BY <1>1, <1>3 DEF Connection
<1>4. ASSUME NEW i \in Items, Complete(i) \/ Edit(i) \/ Delete(i)
      PROVE  /\ last' = last /\ deleted' \subseteq 1 .. last'
             /\ \E type \in {"message", "edit", "remove"} : SaidOf(type, i)
  <2>1. last' = last /\ i \notin deleted /\ i \in 1 .. last'
    BY <1>1, <1>4 DEF Complete, Edit, Delete, Exists
  <2>2. CASE Complete(i)
    BY <1>1, <2>1, <2>2 DEF Complete, SaidOf
  <2>3. CASE Edit(i)
    BY <1>1, <2>1, <2>3 DEF Edit, SaidOf
  <2>4. CASE Delete(i)
    BY <1>1, <2>1, <2>4 DEF Delete, SaidOf
  <2>5. QED
    BY <1>4, <2>2, <2>3, <2>4
<1>5. QED
  BY <1>1, <1>2, <1>3, <1>4 DEF Server

LEMMA ServerStep == ASSUME Typed, IInv, Server PROVE IInv'
<1>0. /\ Sound /\ queue \in Seq(EventRec) /\ Items = 1 .. N /\ N \in Nat
      /\ last \in Nat /\ deleted \subseteq 1 .. last
  BY BackfillAssumption DEF BackfillAssumption, Items, IInv, Sound, Typed, TypeOK, EventRec, Version
<1>1. /\ last' \in Nat /\ last <= last' /\ deleted' \subseteq 1 .. last'
      /\ \/ UNCHANGED <<version, deleted, queue, lost>>
         \/ \E type \in {"message", "edit", "remove"}, i \in Items : SaidOf(type, i)
  BY <1>0, ServerSays
<1>2. UNCHANGED <<room, db, shown, posts, task, batch, more, present, overtaken, jumped>>
  BY DEF Server
<1>3. Fresh'
  <2>1. present' \subseteq 1 .. last'
    BY <1>0, <1>1, <1>2 DEF IInv, Fresh
  <2>2. QED
    BY <1>2, <2>1 DEF IInv, Fresh
<1>4. deleted \subseteq deleted'
  BY <1>1 DEF SaidOf
<1>5. NoneLeftOut'
  BY <1>2, <1>4 DEF IInv, NoneLeftOut, Lacks, ToCome
<1>6. CASE UNCHANGED <<version, deleted, queue, lost>>
  <2>1. Sound'
    BY <1>0, <1>1, <1>6 DEF Sound
  <2>2. \A i \in Items \ overtaken' : Once(i)'
    BY <1>2, <1>6 DEF IInv, Once
  <2>3. \A i \in Items \ (overtaken' \union lost') : UpToDate(i)'
    BY <1>2, <1>6 DEF IInv, UpToDate, Honest, Truthful, Truth
  <2>4. QED
    BY <1>3, <1>5, <2>1, <2>2, <2>3 DEF IInv
<1>7. ASSUME NEW type \in {"message", "edit", "remove"}, NEW i \in Items, SaidOf(type, i)
      PROVE  Sound' /\ (\A j \in Items \ overtaken' : Once(j)')
             /\ \A j \in Items \ (overtaken' \union lost') : UpToDate(j)'
  <2>1. PICK e \in EventRec :
            /\ \/ queue' = Append(queue, e) /\ lost' = lost
               \/ queue' = queue /\ lost' = lost \union {i}
            /\ e.type = type /\ e.item = i /\ e.ver = version'[i]
    <3> DEFINE m == [type |-> type, item |-> i, ver |-> version'[i]]
    <3>1. version'[i] \in Version
      BY ServerTypes
    <3>2. m \in EventRec /\ m.type = type /\ m.item = i /\ m.ver = version'[i]
      BY <3>1 DEF EventRec
    <3>3. \/ queue' = Append(queue, m) /\ lost' = lost
          \/ queue' = queue /\ lost' = lost \union {i}
      BY <1>7 DEF SaidOf, Queued
    <3>4. QED
      BY <3>2, <3>3
  <2>2. /\ deleted' = IF type = "remove" THEN deleted \union {i} ELSE deleted
        /\ i \notin deleted /\ (\A j \in Items \ {i} : version'[j] = version[j])
        /\ type # "edit" => version' = version
    BY <1>7 DEF SaidOf
  <2>3. CASE queue' = queue /\ lost' = lost \union {i}
    <3>1. Sound'
      BY <1>0, <1>1, <1>4, <2>3 DEF Sound
    <3>2. \A j \in Items \ overtaken' : Once(j)'
      BY <1>2, <1>4, <2>3 DEF IInv, Once
    <3>3. \A j \in Items \ (overtaken' \union lost') :
              /\ UpToDate(j) /\ j # i /\ Truth(j)' = Truth(j) /\ version'[j] = version[j]
              /\ j \in deleted' <=> j \in deleted
      BY <1>2, <2>2, <2>3 DEF IInv, Truth
    <3>4. \A j \in Items \ (overtaken' \union lost') : UpToDate(j)'
      BY <1>2, <2>3, <3>3 DEF UpToDate, Honest, Truthful
    <3>5. QED
      BY <3>1, <3>2, <3>4
  <2>4. CASE queue' = Append(queue, e) /\ lost' = lost
    <3>1. \A j : /\ \A x : After(queue', x, j) => x = e \/ (~ChangeOf(e, j) /\ After(queue, x, j))
                 /\ NoChange(queue', j) => NoChange(queue, j) /\ ~ChangeOf(e, j)
                 /\ Gone(queue, j) /\ i # j => Gone(queue', j)
      BY <1>0, <2>1, <2>2, <2>4, AppendTo
    <3>2. Sound'
      <4>1. \A k \in 1 .. Len(queue) : queue[k].type = "remove" => queue[k].item # e.item
        BY <1>0, <2>1, <2>2 DEF Sound
      <4>2. Final(queue')
        BY <1>0, <2>2, <2>4, <4>1, FinalAppend DEF Sound
      <4>3. ASSUME NEW k \in 1 .. Len(queue'), queue'[k].type = "remove"
            PROVE  queue'[k].item \in deleted'
        <5>1. /\ Len(queue') = Len(queue) + 1 /\ queue'[Len(queue) + 1] = e /\ Len(queue) \in Nat
              /\ \A m \in 1 .. Len(queue) : queue'[m] = queue[m]
          BY <1>0, <2>4
        <5>2. CASE k = Len(queue) + 1
          BY <2>1, <2>2, <4>3, <5>1, <5>2
        <5>3. CASE k \in 1 .. Len(queue)
          BY <1>0, <1>4, <4>3, <5>1, <5>3 DEF Sound
        <5>4. QED
          BY <5>1, <5>2, <5>3
      <4>4. QED
        BY <1>1, <4>2, <4>3 DEF Sound
    <3>3. ASSUME NEW j \in Items \ overtaken'
          PROVE  Once(j)'
      <4>1. Once(j) /\ posts'[j] = posts[j]
        BY <1>2 DEF IInv
      <4>2. QED
        BY <1>2, <1>4, <2>2, <3>1, <4>1 DEF Once
    <3>4. ASSUME NEW j \in Items \ (overtaken' \union lost')
          PROVE  UpToDate(j)'
      <4>1. UpToDate(j)
        BY <1>2, <2>4 DEF IInv
      <4>2. CASE j # i
        <5>1. Truth(j)' = Truth(j) /\ version'[j] = version[j] /\ (j \in deleted' <=> j \in deleted)
          BY <2>2, <4>2 DEF Truth
        <5>2. Honest(j)'
          BY <2>1, <3>1, <4>1, <4>2, <5>1 DEF UpToDate, Honest, Truthful
        <5>3. QED
          BY <1>2, <3>1, <4>1, <5>1, <5>2 DEF UpToDate
      <4>3. CASE j = i /\ type = "message"
        <5>1. Truth(j)' = Truth(j) /\ version'[j] = version[j] /\ (j \in deleted' <=> j \in deleted)
          BY <2>2, <4>3 DEF Truth
        <5>2. Truthful(j, e)'
          BY <2>1, <2>2, <4>3 DEF Truthful
        <5>3. Honest(j)'
          BY <3>1, <4>1, <5>1, <5>2 DEF UpToDate, Honest, Truthful
        <5>4. QED
          BY <1>2, <3>1, <4>1, <5>1, <5>3 DEF UpToDate
      <4>4. CASE j = i /\ type # "message"
        <5>1. ChangeOf(e, j)
          BY <2>1, <4>4 DEF ChangeOf
        <5>2. Truthful(j, e)'
          BY <2>1, <2>2, <4>4 DEF Truthful
        <5>3. Honest(j)' /\ ~NoChange(queue', j)
          BY <3>1, <5>1, <5>2 DEF Honest
        <5>4. QED
          BY <5>3 DEF UpToDate
      <4>5. QED
        BY <4>2, <4>3, <4>4
    <3>5. QED
      BY <3>2, <3>3, <3>4
  <2>5. QED
    BY <2>1, <2>3, <2>4
<1>8. QED
  BY <1>1, <1>3, <1>5, <1>6, <1>7 DEF IInv

-----------------------------------------------------------------------------
(* What a fetch gives: the truth about the newest of the range; what is not *)
(* among them is older, and there is more.                                  *)
LEMMA FetchGives ==
    ASSUME NEW range \in SUBSET Items, Fetch(range)
    PROVE  /\ \A v \in batch' : v.item \in range /\ v.ver = Truth(v.item)
           /\ batch' = {} => ~more'
           /\ \A i \in range : Exists(i) =>
                 \/ \E v \in batch' : v.item = i
                 \/ more' /\ \A v \in batch' : i < v.item
<1>1. PICK marked \in SUBSET deleted :
          /\ batch' = BatchOf(Chosen(range, marked))
          /\ more' = (Cardinality(LastOf(Chosen(range, marked))) >= Count)
  BY FetchIs
<1> DEFINE chat == Chosen(range, marked)
           T == LastOf(chat)
<1>2. chat \in SUBSET Items /\ chat \subseteq range /\ \A i \in range : Exists(i) => i \in chat
  BY DEF Chosen
<1>3. T \subseteq chat
  BY DEF LastOf
<1>4. /\ \A x \in chat \ T, y \in T : x < y
      /\ IsFiniteSet(T) /\ (Cardinality(T) < Count => T = chat)
  BY <1>2, LastOfChat
<1>5. Cardinality(T) \in Nat /\ Count \in Nat \ {0} /\ (T = {} => Cardinality(T) = 0)
  BY <1>4, FS_CardinalityType, FS_EmptySet, BackfillAssumption DEF BackfillAssumption
<1>6. /\ \A v \in batch' : v.item \in T /\ v.ver = Truth(v.item)
      /\ \A i \in T : \E v \in batch' : v.item = i
  <2>1. batch' = {[item |-> i, ver |-> Truth(i)] : i \in T}
    BY <1>1 DEF BatchOf
  <2> HIDE DEF T
  <2>2. ASSUME NEW i \in T
        PROVE  \E v \in batch' : v.item = i
    <3>1. [item |-> i, ver |-> Truth(i)] \in batch'
      BY <2>1
    <3>2. QED
      BY <3>1
  <2>3. QED
    BY <2>1, <2>2
<1>7. more' <=> (Cardinality(T) >= Count)
  BY <1>1
<1> HIDE DEF T, chat
<1>8. batch' = {} => ~more'
  <2>1. batch' = {} => T = {}
    BY <1>6
  <2>2. QED
    BY <1>5, <1>7, <2>1
<1>9. ASSUME NEW i \in range, Exists(i)
      PROVE  \/ \E v \in batch' : v.item = i
             \/ more' /\ \A v \in batch' : i < v.item
  <2>1. CASE i \in T
    BY <1>6, <2>1
  <2>2. CASE i \notin T
    <3>1. i \in chat /\ T # chat
      BY <1>2, <1>9, <2>2
    <3>2. more'
      BY <1>4, <1>5, <1>7, <3>1
    <3>3. \A v \in batch' : i < v.item
      BY <1>4, <1>6, <2>2, <3>1
    <3>4. QED
      BY <3>2, <3>3
  <2>3. QED
    BY <2>1, <2>2
<1>10. QED
  BY <1>2, <1>3, <1>6, <1>8, <1>9

(* What is fetched is neither posted nor out of date.                       *)
LEMMA FetchStep ==
    ASSUME Typed, IInv, NEW range \in SUBSET Items, range \intersect db = {}, Fetch(range),
           UNCHANGED <<serverVars, queue, db, shown, posts, overtaken, lost>>
    PROVE  /\ Sound' /\ (\A i \in Items \ overtaken' : Once(i)')
           /\ \A i \in Items \ (overtaken' \union lost') : UpToDate(i)'
<1>1. \A v \in batch' : v.item \in range /\ v.ver = Truth(v.item)
  BY FetchGives
<1>2. Sound'
  BY DEF IInv, Sound, serverVars
<1>3. ASSUME NEW i \in Items \ overtaken'
      PROVE  Once(i)'
  <2>1. Once(i) /\ posts[i] \in Nat
    BY DEF IInv, Typed, TypeOK
  <2>2. ASSUME NEW v \in batch', v.item = i, v.ver > 0
        PROVE  posts[i] = 0
    <3>1. i \notin db /\ i \notin deleted
      BY <1>1, <2>2 DEF Truth
    <3>2. QED
      BY <2>1, <3>1 DEF Once
  <2>3. QED
    BY <2>1, <2>2 DEF Once, serverVars
<1>4. ASSUME NEW i \in Items \ (overtaken' \union lost')
      PROVE  UpToDate(i)'
  <2>1. UpToDate(i)
    BY DEF IInv
  <2>2. Truth(i)' = Truth(i) /\ Honest(i)'
    BY <2>1 DEF UpToDate, Truth, Honest, Truthful, serverVars
  <2>3. QED
    BY <1>1, <2>1, <2>2 DEF UpToDate
<1>5. QED
  BY <1>2, <1>3, <1>4

LEMMA CreateRoomStep == ASSUME Typed, IInv, CreateRoom PROVE IInv'
<1>1. /\ task = "none" /\ db = {} /\ batch = {}
      /\ UNCHANGED <<serverVars, queue, db, shown, posts, overtaken, lost, jumped>>
      /\ present' = IF task' = "todo" THEN {i \in Items : Exists(i)} ELSE {}
  BY DEF CreateRoom, IInv, Fresh
<1>2. Items = 1 .. N /\ N \in Nat /\ last \in 0 .. N
  BY BackfillAssumption DEF BackfillAssumption, Items, Typed, TypeOK
<1>3. present' \subseteq 1 .. last'
  BY <1>1, <1>2 DEF serverVars, Exists
<1>4. CASE Fetch(1 .. last) /\ task' = "todo"
  <2>1. (1 .. last) \in SUBSET Items /\ (1 .. last) \intersect db = {}
    BY <1>1, <1>2
  <2>2. /\ Sound' /\ (\A i \in Items \ overtaken' : Once(i)')
        /\ \A i \in Items \ (overtaken' \union lost') : UpToDate(i)'
    BY <1>1, <1>4, <2>1, FetchStep
  <2>3. NoneLeftOut'
    <3>1. ASSUME NEW i \in Items, Lacks(i)'
          PROVE  ToCome(i)'
      <4>1. Exists(i) /\ i \in 1 .. last
        BY <1>1, <1>2, <3>1 DEF Lacks, Exists
      <4>2. \/ \E v \in batch' : v.item = i
            \/ more' /\ \A v \in batch' : i < v.item
        BY <1>4, <2>1, <4>1, FetchGives
      <4>3. QED
        BY <1>1, <1>4, <4>2 DEF ToCome
    <3>2. QED
      BY <3>1 DEF NoneLeftOut
  <2>4. Fresh'
    BY <1>3, <1>4 DEF Fresh
  <2>5. QED
    BY <2>2, <2>3, <2>4 DEF IInv
<1>5. CASE task' \in {"todo", "done"} /\ UNCHANGED <<batch, more>>
  <2>1. Sound'
    BY <1>1 DEF IInv, Sound, serverVars
  <2>2. \A i \in Items \ overtaken' : Once(i)'
    BY <1>1, <1>5 DEF IInv, Once, serverVars
  <2>3. \A i \in Items \ (overtaken' \union lost') : UpToDate(i)'
    BY <1>1, <1>5 DEF IInv, UpToDate, Honest, Truthful, Truth, serverVars
  <2>4. NoneLeftOut'
    BY <1>1, <1>5 DEF NoneLeftOut, Lacks, ToCome
  <2>5. Fresh'
    BY <1>1, <1>3, <1>5 DEF Fresh
  <2>6. QED
    BY <2>1, <2>2, <2>3, <2>4, <2>5 DEF IInv
<1>6. QED
  BY <1>4, <1>5 DEF CreateRoom

LEMMA FetchOlderStep == ASSUME Typed, IInv, FetchOlder PROVE IInv'
<1>1. /\ room /\ task = "todo" /\ batch = {}
      /\ UNCHANGED <<serverVars, queue, room, db, shown, posts, present, overtaken, lost, jumped>>
      /\ task' = IF batch' = {} /\ ~more' THEN "done" ELSE task
  BY DEF FetchOlder, portalVars, historyVars
<1>2. Items = 1 .. N /\ N \in Nat /\ last \in 0 .. N /\ db \subseteq Items /\ present \subseteq 1 .. last
  BY BackfillAssumption DEF BackfillAssumption, Items, Typed, TypeOK, IInv, Fresh
<1>3. PICK range \in SUBSET Items :
          /\ Fetch(range) /\ range \intersect db = {}
          /\ \A i \in 1 .. last : (\A d \in db : i < d) => i \in range
  <2>1. CASE db = {}
    <3>1. Fetch(1 .. last) /\ (1 .. last) \in SUBSET Items
      BY <1>2, <2>1 DEF FetchOlder
    <3>2. QED
      BY <2>1, <3>1
  <2>2. CASE db # {}
    <3>1. db \in SUBSET Nat
      BY <1>2
    <3>2. Min(db) \in db /\ \A y \in db : Min(db) <= y
      BY <2>2, <3>1, MinIsSmallest
    <3>3. Min(db) \in 1 .. N
      BY <1>2, <3>2
    <3>4. Fetch(1 .. Min(db) - 1)
      BY <2>2 DEF FetchOlder, Before
    <3>5. (1 .. Min(db) - 1) \in SUBSET Items
      BY <1>2, <3>3
    <3>6. (1 .. Min(db) - 1) \intersect db = {}
      <4>1. ASSUME NEW y \in db, y \in 1 .. Min(db) - 1
            PROVE  FALSE
        <5>1. Min(db) <= y /\ y \in Nat
          BY <3>1, <3>2
        <5>2. QED
          BY <3>3, <4>1, <5>1
      <4>2. QED
        BY <4>1
    <3>7. ASSUME NEW i \in 1 .. last, \A d \in db : i < d
          PROVE  i \in 1 .. Min(db) - 1
      <4>1. i < Min(db)
        BY <3>2, <3>7
      <4>2. QED
        BY <1>2, <3>3, <4>1
    <3>8. QED
      BY <3>4, <3>5, <3>6, <3>7
  <2>3. QED
    BY <2>1, <2>2
<1>4. /\ Sound' /\ (\A i \in Items \ overtaken' : Once(i)')
      /\ \A i \in Items \ (overtaken' \union lost') : UpToDate(i)'
  BY <1>1, <1>3, FetchStep
<1>5. ASSUME NEW i \in Items, Lacks(i)'
      PROVE  ToCome(i)'
  <2>1. Lacks(i)
    BY <1>1, <1>5 DEF Lacks, serverVars
  <2>2. \A d \in db : i < d
    BY <1>1, <2>1 DEF IInv, NoneLeftOut, ToCome
  <2>3. i \in range /\ Exists(i)
    BY <1>2, <1>3, <2>1, <2>2 DEF Lacks, Exists
  <2>4. /\ \/ \E v \in batch' : v.item = i
           \/ more' /\ \A v \in batch' : i < v.item
        /\ batch' = {} => ~more'
    BY <1>3, <2>3, FetchGives
  <2>5. QED
    BY <1>1, <2>2, <2>4 DEF ToCome
<1>6. Fresh'
  BY <1>1, <1>2 DEF Fresh, serverVars
<1>7. QED
  BY <1>4, <1>5, <1>6 DEF IInv, NoneLeftOut

(* A batch is inserted: nothing of it was posted, and it is as true as it   *)
(* was when it was fetched.                                                 *)
LEMMA InsertStep == ASSUME Typed, IInv, Insert PROVE IInv'
<1> DEFINE new == {v.item : v \in batch}
           Ver(i) == (CHOOSE v \in batch : v.item = i).ver
<1>1. /\ batch # {} /\ batch' = {} /\ db' = db \union new
      /\ shown' = [i \in Items |-> IF i \in new THEN Ver(i) ELSE shown[i]]
      /\ posts' = [i \in Items |-> IF i \in new /\ Ver(i) > 0 THEN posts[i] + 1
                                   ELSE posts[i]]
      /\ task' = IF more THEN "todo" ELSE "done"
      /\ UNCHANGED <<serverVars, queue, present, overtaken, lost, jumped>>
  BY DEF Insert, historyVars
<1>2. \A i \in new : \E v \in batch : v.item = i /\ Ver(i) = v.ver
  <2>1. ASSUME NEW i \in new
        PROVE  \E v \in batch : v.item = i /\ Ver(i) = v.ver
    <3>1. \E v \in batch : v.item = i
      OBVIOUS
    <3>2. (CHOOSE v \in batch : v.item = i) \in batch /\ (CHOOSE v \in batch : v.item = i).item = i
      BY <3>1
    <3>3. QED
      BY <3>2
  <2>2. QED
    BY <2>1
<1>3. \A v \in batch : v.item \in new
  OBVIOUS
<1> HIDE DEF new, Ver
<1>4. Sound'
  BY <1>1 DEF IInv, Sound, serverVars
<1>5. Fresh'
  BY <1>1 DEF IInv, Fresh, serverVars
<1>6. ASSUME NEW i \in Items, Lacks(i)'
      PROVE  ToCome(i)'
  <2>1. Lacks(i) /\ i \notin new
    BY <1>1, <1>6 DEF Lacks, serverVars
  <2>2. more /\ (\A d \in db : i < d) /\ \A v \in batch : i < v.item
    BY <1>1, <1>3, <2>1 DEF IInv, NoneLeftOut, ToCome
  <2>3. \A d \in db' : i < d
    BY <1>1, <1>2, <2>2
  <2>4. QED
    BY <1>1, <2>2, <2>3 DEF ToCome
<1>7. ASSUME NEW i \in Items \ overtaken'
      PROVE  Once(i)'
  <2>1. Once(i) /\ posts[i] \in Nat
    BY <1>1 DEF IInv, Typed, TypeOK
  <2>2. CASE i \in new /\ Ver(i) > 0
    <3>1. posts[i] = 0
      BY <1>2, <2>1, <2>2 DEF Once
    <3>2. posts'[i] = 1 /\ i \in db'
      BY <1>1, <2>2, <3>1
    <3>3. QED
      BY <1>1, <3>2 DEF Once
  <2>3. CASE ~(i \in new /\ Ver(i) > 0)
    <3>1. posts'[i] = posts[i] /\ (i \in db => i \in db')
      BY <1>1, <2>3
    <3>2. QED
      BY <1>1, <2>1, <3>1 DEF Once, serverVars
  <2>4. QED
    BY <2>2, <2>3
<1>8. ASSUME NEW i \in Items \ (overtaken' \union lost')
      PROVE  UpToDate(i)'
  <2>1. UpToDate(i)
    BY <1>1 DEF IInv
  <2>2. Truth(i)' = Truth(i) /\ Honest(i)'
    BY <1>1, <2>1 DEF UpToDate, Truth, Honest, Truthful, serverVars
  <2>3. ASSUME NoChange(queue, i), i \in db'
        PROVE  shown'[i] = Truth(i)
    <3>1. CASE i \in new
      BY <1>1, <1>2, <2>1, <2>3, <3>1 DEF UpToDate
    <3>2. CASE i \notin new
      BY <1>1, <2>1, <2>3, <3>2 DEF UpToDate
    <3>3. QED
      BY <3>1, <3>2
  <2>4. QED
    BY <1>1, <2>2, <2>3 DEF UpToDate
<1>9. QED
  BY <1>4, <1>5, <1>6, <1>7, <1>8 DEF IInv, NoneLeftOut

(* The portal takes an event: what that leaves of the queue.                *)
LEMMA PopGives ==
    ASSUME Typed, IInv, NEW type, Pop(type)
    PROVE  /\ Sound'
           /\ Item \in Items /\ Head(queue).item = Item /\ Head(queue).type = type
           /\ type = "remove" => Item \in deleted /\ Gone(queue', Item)
           /\ \A i : /\ \A x : After(queue', x, i) => After(queue, x, i)
                     /\ NoChange(queue', i) => After(queue, Head(queue), i)
                     /\ NoChange(queue', i) /\ ~ChangeOf(Head(queue), i) => NoChange(queue, i)
                     /\ Gone(queue, i) => Gone(queue', i) /\ Item # i
           /\ overtaken \subseteq overtaken'
           /\ (\E v \in batch : v.item = Item) => Item \in overtaken'
           /\ UNCHANGED <<serverVars, room, task, batch, more, present, lost>>
<1>1. /\ queue \in Seq(EventRec) /\ queue # << >> /\ queue' = Tail(queue)
      /\ Head(queue).type = type
  BY DEF Typed, TypeOK, EventRec, Version, Pop
<1>2. Item \in Items /\ Head(queue).item = Item
  BY <1>1, HeadOfQueue, TypedParts DEF Item
<1>3. \A i : /\ \A x : After(queue', x, i) => After(queue, x, i)
             /\ NoChange(queue', i) => After(queue, Head(queue), i)
             /\ NoChange(queue', i) /\ ~ChangeOf(Head(queue), i) => NoChange(queue, i)
             /\ Gone(queue, i) => Gone(queue', i) /\ Item # i
  BY <1>1, <1>2, TailFrom
<1>4. Final(queue') /\ (type = "remove" => Gone(queue', Item))
  BY <1>1, <1>2, FinalTail DEF IInv, Sound
<1>5. /\ overtaken \subseteq overtaken'
      /\ (\E v \in batch : v.item = Item) => Item \in overtaken'
      /\ UNCHANGED <<serverVars, room, task, batch, more, present, lost>>
  BY <1>2 DEF Pop
<1>6. /\ type = "remove" => Item \in deleted
      /\ \A k \in 1 .. Len(queue') : queue'[k].type = "remove" => queue'[k].item \in deleted
  <2>1. /\ Len(queue) \in Nat \ {0} /\ Len(queue') = Len(queue) - 1 /\ Head(queue) = queue[1]
        /\ \A k \in 1 .. Len(queue') : queue'[k] = queue[k + 1] /\ k + 1 \in 1 .. Len(queue)
    BY <1>1
  <2>2. \A k \in 1 .. Len(queue) : queue[k].type = "remove" => queue[k].item \in deleted
    BY DEF IInv, Sound
  <2>3. QED
    BY <1>1, <1>2, <2>1, <2>2
<1>7. Sound'
  BY <1>4, <1>5, <1>6 DEF IInv, Sound, serverVars
<1>8. QED
  BY <1>1, <1>2, <1>3, <1>4, <1>5, <1>6, <1>7

LEMMA PortalMessageStep == ASSUME Typed, IInv, PortalMessage PROVE IInv'
<1>1. Pop("message") /\ room
  BY DEF PortalMessage
<1>2. /\ Sound' /\ Item \in Items /\ Head(queue).item = Item /\ Head(queue).type = "message"
      /\ \A i : /\ \A x : After(queue', x, i) => After(queue, x, i)
                /\ NoChange(queue', i) => After(queue, Head(queue), i)
                /\ NoChange(queue', i) /\ ~ChangeOf(Head(queue), i) => NoChange(queue, i)
                /\ Gone(queue, i) => Gone(queue', i) /\ Item # i
      /\ overtaken \subseteq overtaken'
      /\ (\E v \in batch : v.item = Item) => Item \in overtaken'
      /\ UNCHANGED <<serverVars, room, task, batch, more, present, lost>>
  BY <1>1, PopGives
<1>3. \A i : ~ChangeOf(Head(queue), i)
  BY <1>2 DEF ChangeOf
<1>4. Fresh'
  BY <1>1, <1>2 DEF IInv, Fresh, serverVars
<1>5. ASSUME NEW i, Honest(i)
      PROVE  Honest(i)' /\ Truth(i)' = Truth(i)
  BY <1>2, <1>5 DEF Honest, Truthful, Truth, serverVars
<1>6. CASE Item \in db
  <2>1. UNCHANGED <<db, shown, posts, jumped>>
    BY <1>6 DEF PortalMessage
  <2>2. NoneLeftOut'
    BY <1>2, <2>1 DEF IInv, NoneLeftOut, Lacks, ToCome, serverVars
  <2>3. \A i \in Items \ overtaken' : Once(i)'
    BY <1>2, <2>1 DEF IInv, Once, serverVars
  <2>4. \A i \in Items \ (overtaken' \union lost') : UpToDate(i)'
    BY <1>2, <1>3, <1>5, <2>1 DEF IInv, UpToDate
  <2>5. QED
    BY <1>2, <1>4, <2>2, <2>3, <2>4 DEF IInv
<1>7. CASE Item \notin db
  <2>1. /\ db' = db \union {Item}
        /\ shown' = [shown EXCEPT ![Item] = Head(queue).ver]
        /\ posts' = [posts EXCEPT ![Item] = @ + 1]
        /\ jumped' = jumped \union {i \in present \ db : i > Item}
    BY <1>7 DEF PortalMessage
  <2>2. ASSUME NEW i \in Items, Lacks(i)'
        PROVE  ToCome(i)'
    <3>1. Lacks(i) /\ i # Item /\ ~(i > Item)
      BY <1>2, <2>1, <2>2 DEF Lacks, serverVars
    <3>2. i \in Nat /\ Item \in Nat
      BY <1>2 DEF Items
    <3>3. i < Item /\ ToCome(i)
      BY <3>1, <3>2 DEF IInv, NoneLeftOut
    <3>4. QED
      BY <1>2, <2>1, <3>3 DEF ToCome
  <2>3. ASSUME NEW i \in Items \ overtaken'
        PROVE  Once(i)'
    <3>1. Once(i) /\ posts[i] \in Nat /\ posts \in [Items -> Nat]
      BY <1>2 DEF IInv, Typed, TypeOK
    <3>2. CASE i = Item
      <4>1. posts[i] = 0
        BY <1>2, <1>7, <3>1, <3>2 DEF Once
      <4>2. posts'[i] = 1 /\ i \in db' /\ ~\E v \in batch' : v.item = i
        BY <1>2, <2>1, <2>3, <3>1, <3>2, <4>1
      <4>3. QED
        BY <4>2 DEF Once
    <3>3. CASE i # Item
      <4>1. posts'[i] = posts[i] /\ (i \in db' <=> i \in db)
        BY <2>1, <3>1, <3>3
      <4>2. QED
        BY <1>2, <3>1, <4>1 DEF Once, serverVars
    <3>4. QED
      BY <3>2, <3>3
  <2>4. ASSUME NEW i \in Items \ (overtaken' \union lost')
        PROVE  UpToDate(i)'
    <3>1. UpToDate(i) /\ Honest(i)' /\ Truth(i)' = Truth(i)
      BY <1>2, <1>5 DEF IInv, UpToDate
    <3>2. ASSUME NoChange(queue', i), i \in db'
          PROVE  shown'[i] = Truth(i)
      <4>1. shown \in [Items -> 0 .. MaxChanges + 1]
        BY DEF Typed, TypeOK
      <4>2. CASE i = Item
        <5>1. After(queue, Head(queue), i)
          BY <1>2, <3>2
        <5>2. i \notin deleted /\ Head(queue).ver = version[i]
          BY <1>2, <3>1, <4>2, <5>1 DEF UpToDate, Honest, Truthful
        <5>3. QED
          BY <2>1, <4>1, <4>2, <5>2 DEF Truth
      <4>3. CASE i # Item
        BY <1>2, <1>3, <2>1, <3>1, <3>2, <4>1, <4>3 DEF UpToDate
      <4>4. QED
        BY <4>2, <4>3
    <3>3. QED
      BY <1>2, <1>3, <3>1, <3>2 DEF UpToDate
  <2>5. QED
    BY <1>2, <1>4, <2>2, <2>3, <2>4 DEF IInv, NoneLeftOut
<1>8. QED
  BY <1>6, <1>7

LEMMA PortalEditStep == ASSUME Typed, IInv, PortalEdit PROVE IInv'
<1>1. /\ Pop("edit") /\ room /\ UNCHANGED <<db, posts, jumped>>
      /\ shown' = IF Item \in db THEN [shown EXCEPT ![Item] = Head(queue).ver] ELSE shown
  BY DEF PortalEdit
<1>2. /\ Sound' /\ Item \in Items /\ Head(queue).item = Item /\ Head(queue).type = "edit"
      /\ \A i : /\ \A x : After(queue', x, i) => After(queue, x, i)
                /\ NoChange(queue', i) => After(queue, Head(queue), i)
                /\ NoChange(queue', i) /\ ~ChangeOf(Head(queue), i) => NoChange(queue, i)
                /\ Gone(queue, i) => Gone(queue', i) /\ Item # i
      /\ overtaken \subseteq overtaken'
      /\ (\E v \in batch : v.item = Item) => Item \in overtaken'
      /\ UNCHANGED <<serverVars, room, task, batch, more, present, lost>>
  BY <1>1, PopGives
<1>3. Fresh'
  BY <1>1, <1>2 DEF IInv, Fresh, serverVars
<1>4. NoneLeftOut'
  BY <1>1, <1>2 DEF IInv, NoneLeftOut, Lacks, ToCome, serverVars
<1>5. \A i \in Items \ overtaken' : Once(i)'
  BY <1>1, <1>2 DEF IInv, Once, serverVars
<1>6. ASSUME NEW i \in Items \ (overtaken' \union lost')
      PROVE  UpToDate(i)'
  <2>1. UpToDate(i)
    BY <1>2 DEF IInv
  <2>2. Honest(i)' /\ Truth(i)' = Truth(i)
    BY <1>2, <2>1 DEF UpToDate, Honest, Truthful, Truth, serverVars
  <2>3. shown \in [Items -> 0 .. MaxChanges + 1]
    BY DEF Typed, TypeOK
  <2>4. CASE i = Item
    <3>1. ASSUME NoChange(queue', i), i \in db
          PROVE  shown'[i] = Truth(i)
      <4>1. After(queue, Head(queue), i)
        BY <1>2, <3>1
      <4>2. i \notin deleted /\ Head(queue).ver = version[i]
        BY <1>2, <2>1, <2>4, <4>1 DEF UpToDate, Honest, Truthful
      <4>3. QED
        BY <1>1, <2>3, <2>4, <3>1, <4>2 DEF Truth
    <3>2. ~\E v \in batch' : v.item = i
      BY <1>2, <1>6, <2>4
    <3>3. QED
      BY <1>1, <2>2, <3>1, <3>2 DEF UpToDate
  <2>5. CASE i # Item
    <3>1. ~ChangeOf(Head(queue), i) /\ shown'[i] = shown[i]
      BY <1>1, <1>2, <2>3, <2>5 DEF ChangeOf
    <3>2. QED
      BY <1>1, <1>2, <2>1, <2>2, <3>1 DEF UpToDate
  <2>6. QED
    BY <2>4, <2>5
<1>7. QED
  BY <1>2, <1>3, <1>4, <1>5, <1>6 DEF IInv

LEMMA PortalRemoveStep == ASSUME Typed, IInv, PortalRemove PROVE IInv'
<1>1. /\ Pop("remove") /\ room /\ UNCHANGED <<posts, jumped>>
      /\ db' = db \ {Item} /\ shown' = [shown EXCEPT ![Item] = 0]
  BY DEF PortalRemove
<1>2. /\ Sound' /\ Item \in Items /\ Head(queue).item = Item /\ Head(queue).type = "remove"
      /\ Item \in deleted /\ Gone(queue', Item)
      /\ \A i : /\ \A x : After(queue', x, i) => After(queue, x, i)
                /\ NoChange(queue', i) /\ ~ChangeOf(Head(queue), i) => NoChange(queue, i)
                /\ Gone(queue, i) => Gone(queue', i) /\ Item # i
      /\ overtaken \subseteq overtaken'
      /\ (\E v \in batch : v.item = Item) => Item \in overtaken'
      /\ UNCHANGED <<serverVars, room, task, batch, more, present, lost>>
  BY <1>1, PopGives
<1>3. Fresh'
  BY <1>1, <1>2 DEF IInv, Fresh, serverVars
<1>4. ASSUME NEW i \in Items, Lacks(i)'
      PROVE  ToCome(i)'
  <2>1. Lacks(i)
    BY <1>1, <1>2, <1>4 DEF Lacks, serverVars
  <2>2. QED
    BY <1>1, <1>2, <2>1 DEF IInv, NoneLeftOut, ToCome
<1>5. ASSUME NEW i \in Items \ overtaken'
      PROVE  Once(i)'
  <2>1. Once(i)
    BY <1>2 DEF IInv
  <2>2. CASE i = Item
    BY <1>1, <1>2, <2>1, <2>2 DEF Once, serverVars
  <2>3. CASE i # Item
    BY <1>1, <1>2, <2>1, <2>3 DEF Once, serverVars
  <2>4. QED
    BY <2>2, <2>3
<1>6. ASSUME NEW i \in Items \ (overtaken' \union lost')
      PROVE  UpToDate(i)'
  <2>1. UpToDate(i)
    BY <1>2 DEF IInv
  <2>2. Honest(i)' /\ Truth(i)' = Truth(i)
    BY <1>2, <2>1 DEF UpToDate, Honest, Truthful, Truth, serverVars
  <2>3. shown \in [Items -> 0 .. MaxChanges + 1]
    BY DEF Typed, TypeOK
  <2>4. CASE i = Item
    <3>1. i \notin db' /\ ~\E v \in batch' : v.item = i
      BY <1>1, <1>2, <1>6, <2>4
    <3>2. QED
      BY <2>2, <3>1 DEF UpToDate
  <2>5. CASE i # Item
    <3>1. ~ChangeOf(Head(queue), i) /\ shown'[i] = shown[i] /\ (i \in db' <=> i \in db)
      BY <1>1, <1>2, <2>3, <2>5 DEF ChangeOf
    <3>2. QED
      BY <1>1, <1>2, <2>1, <2>2, <3>1 DEF UpToDate
  <2>6. QED
    BY <2>4, <2>5
<1>7. QED
  BY <1>2, <1>3, <1>4, <1>5, <1>6 DEF IInv, NoneLeftOut

LEMMA InitInv == Init => IInv
<1> SUFFICES ASSUME Init PROVE IInv
  OBVIOUS
<1>1. Sound /\ Fresh /\ NoneLeftOut
  BY DEF Init, Sound, Final, Fresh, NoneLeftOut, Lacks
<1>2. \A i \in Items : Once(i)
  BY DEF Init, Once
<1>3. \A i \in Items : UpToDate(i)
  BY DEF Init, UpToDate, Honest, After
<1>4. QED
  BY <1>1, <1>2, <1>3 DEF IInv

LEMMA NextInv == Typed /\ IInv /\ [Next]_vars => IInv'
<1> SUFFICES ASSUME Typed, IInv, [Next]_vars PROVE IInv'
  OBVIOUS
<1>1. CASE UNCHANGED vars
  <2> USE <1>1 DEF vars, serverVars, portalVars, historyVars
  <2>1. Sound' /\ Fresh' /\ NoneLeftOut'
    BY DEF IInv, Sound, Fresh, NoneLeftOut, Lacks, ToCome
  <2>2. \A i \in Items \ overtaken' : Once(i)'
    BY DEF IInv, Once
  <2>3. \A i \in Items \ (overtaken' \union lost') : UpToDate(i)'
    BY DEF IInv, UpToDate, Honest, Truthful, Truth
  <2>4. QED
    BY <2>1, <2>2, <2>3 DEF IInv
<1>2. QED
  BY <1>1, ServerStep, CreateRoomStep, FetchOlderStep, InsertStep, PortalMessageStep,
     PortalEditStep, PortalRemoveStep DEF Next, Portal

LEMMA Invariant == Spec => [](Typed /\ IInv)
BY TypedInit, TypedNext, InitInv, NextInv, PTL DEF Spec

(* A finished backfill has left nothing out, for any history, any size of   *)
(* the batches and whatever happens in the room meanwhile.                  *)
THEOREM NothingLeftOut == Spec => []NoGaps
<1>1. Typed /\ IInv => NoGaps
  <2> SUFFICES ASSUME Typed, IInv, task = "done", NEW i \in present \ (deleted \union jumped)
               PROVE  i \in db
    BY DEF NoGaps
  <2>1. batch = {} /\ i \in Items
    BY DEF IInv, Fresh, Typed, TypeOK
  <2>2. QED
    BY <2>1 DEF IInv, NoneLeftOut, Lacks, ToCome
<1>2. QED
  BY <1>1, Invariant, PTL

(* Neither two batches nor a batch and a live message post an item twice.   *)
THEOREM NothingTwice == Spec => []PostedOnce
<1>1. IInv => PostedOnce
  BY DEF IInv, Once, PostedOnce
<1>2. QED
  BY <1>1, Invariant, PTL

(* When nothing waits, the room shows of every item what the chat has.      *)
THEOREM RoomIsCurrent == Spec => []NothingStale
<1>1. Typed /\ IInv => NothingStale
  <2> SUFFICES ASSUME Typed, IInv, queue = << >>, NEW i \in db \ (overtaken \union lost)
               PROVE  shown[i] = IF i \in deleted THEN 0 ELSE version[i]
    BY DEF NothingStale
  <2>1. NoChange(queue, i) /\ i \in Items
    BY DEF NoChange, Typed, TypeOK
  <2>2. QED
    BY <2>1 DEF IInv, UpToDate, Truth
<1>2. QED
  BY <1>1, Invariant, PTL
================================================================================
