----------------------------- MODULE ChatSyncProofs -----------------------------
(* Theorems about ChatSync, for any people, IDs and capacities, and any      *)
(* number of changes and connections.                                       *)
EXTENDS ChatSync, FiniteSetTheorems, TLAPS

GroupTypes   == {"joinedGroupMember", "leftMember", "groupUpdated"}
ContactTypes == {"contactConnected", "receivedContactRequest", "contactUpdated"}
EventType == GroupTypes \union ContactTypes
EventRec  == [type : EventType, who : People \union {Group}, ver : Nat]

ResyncRec == [full : BOOLEAN, create : BOOLEAN]
SyncRec   == [at : {"none", "begin", "contacts", "groups", "mark", "done"},
              reconnect : BOOLEAN]
WorkRec   == [at : {"idle", "members", "apply"}, full : BOOLEAN,
              title : Nat, infos : SUBSET UserInfos]
RoomRec   == [exists : BOOLEAN, title : Nat, members : SUBSET UserIDs]

UID(p) == MakeUserID(ContactID[p])

-----------------------------------------------------------------------------
(* Identifiers.                                                             *)

LEMMA PortalIDs ==
    /\ Group \in Portals
    /\ \A p \in People : DM(p) \in Portals /\ DM(p) # Group
    /\ \A p, q \in People : DM(p) = DM(q) => p = q
    /\ \A q \in Portals : q # Group => \E p \in People : q = DM(p)
BY ChatSyncAssumption DEF ChatSyncAssumption, Portals, Group, DM, MakeDMPortalID, MakeGroupPortalID

LEMMA MemberIDs ==
    /\ \A p \in People : UID(p) \in UserIDs /\ MakeMemberUserID(p) \in UserIDs
    /\ \A p \in People : MemberID(p) \in {UID(p), MakeMemberUserID(p)}
    /\ \A p \in People : p \in contacts <=> MemberID(p) = UID(p)
    /\ \A p, q \in People : UID(p) # MakeMemberUserID(q)
    /\ \A p, q \in People : UID(p) = UID(q) => p = q
    /\ \A p, q \in People : MakeMemberUserID(p) = MakeMemberUserID(q) => p = q
BY ChatSyncAssumption
   DEF ChatSyncAssumption, UserIDs, UID, MemberID, MakeUserID, MakeMemberUserID

LEMMA SelfID ==
    ASSUME TypeOK
    PROVE  /\ Self \in UserIDs
           /\ \A p \in People : Self # MakeMemberUserID(p)
           /\ \A p \in People : Apart(p) <=> Self # UID(p)
BY DEF TypeOK, Self, UserIDs, UID, Apart, MakeUserID, MakeMemberUserID

-----------------------------------------------------------------------------
(* Type correctness.                                                        *)

(* The events about contacts are about people.                              *)
OfPeople(e) == e.type \in ContactTypes => e.who \in People
PeopleEvents == events \in Seq({e \in EventRec : OfPeople(e)})

Typed ==
    /\ loginID \in LoginIDs /\ contacts \subseteq People
    /\ status \in [People -> {"invited", "active", "left"}]
    /\ profile \in [People \union {Group} -> Nat \ {0}]
    /\ up \in BOOLEAN /\ changes \in 0 .. MaxChanges
    /\ events \in Seq(EventRec) /\ PeopleEvents /\ Len(events) <= EventCap
    /\ synced \in BOOLEAN
    /\ sync \in [1 .. MaxSyncs -> SyncRec]
    /\ queue \in [Portals -> Seq(ResyncRec)]
    /\ work \in [Portals -> WorkRec]
    /\ room \in [Portals -> RoomRec]
    /\ ghost \in [UserIDs -> Nat] /\ lookup \in UserInfos \union {NoLookup}
    /\ missed \subseteq Portals /\ behind \subseteq People

LEMMA TypedIsTypeOK == Typed => TypeOK
<1>1. EventType = {"joinedGroupMember", "leftMember", "groupUpdated",
                   "contactConnected", "receivedContactRequest", "contactUpdated"}
  BY DEF EventType, GroupTypes, ContactTypes
<1> QED BY <1>1, Zenon DEF Typed, TypeOK, EventRec, SyncRec, ResyncRec, WorkRec, RoomRec

LEMMA TypedInit == Init => Typed
<1> SUFFICES ASSUME Init PROVE Typed
  OBVIOUS
<1> USE ChatSyncAssumption DEF ChatSyncAssumption, Init
<1>1. /\ loginID \in LoginIDs /\ contacts \subseteq People
      /\ status \in [People -> {"invited", "active", "left"}]
      /\ profile \in [People \union {Group} -> Nat \ {0}]
      /\ up \in BOOLEAN /\ changes \in 0 .. MaxChanges
      /\ events \in Seq(EventRec) /\ PeopleEvents /\ Len(events) <= EventCap
      /\ synced \in BOOLEAN
  <2>1. events = << >>
    OBVIOUS
  <2>2. events \in Seq(EventRec) /\ PeopleEvents /\ Len(events) <= EventCap
    BY <2>1 DEF PeopleEvents
  <2>3. profile \in [People \union {Group} -> Nat \ {0}]
    OBVIOUS
  <2>4. changes \in 0 .. MaxChanges
    OBVIOUS
  <2> QED BY <2>2, <2>3, <2>4
<1>2. sync \in [1 .. MaxSyncs -> SyncRec]
  BY DEF SyncRec
<1>3. queue \in [Portals -> Seq(ResyncRec)] /\ work \in [Portals -> WorkRec]
  BY DEF Idle, WorkRec
<1>4. room \in [Portals -> RoomRec]
  BY DEF NoRoom, RoomRec
<1>5. /\ ghost \in [UserIDs -> Nat] /\ lookup \in UserInfos \union {NoLookup}
      /\ missed \subseteq Portals /\ behind \subseteq People
  OBVIOUS
<1> QED BY <1>1, <1>2, <1>3, <1>4, <1>5 DEF Typed

LEMMA EventSays ==
    ASSUME NEW t \in EventType, NEW x \in People \union {Group}, NEW n \in Nat,
           NEW e, e = [type |-> t, who |-> x, ver |-> n]
    PROVE  e \in EventRec /\ e.type = t /\ e.who = x /\ e.ver = n
BY DEF EventRec

LEMMA EmitTyped ==
    ASSUME Typed, NEW t \in EventType, NEW x \in People \union {Group}, NEW q \in Portals,
           t \in ContactTypes => x \in People,
           profile' \in [People \union {Group} -> Nat \ {0}], Emit(t, x, q)
    PROVE  /\ events' \in Seq(EventRec) /\ PeopleEvents' /\ Len(events') <= EventCap
           /\ missed' \subseteq Portals
<1> DEFINE e == [type |-> t, who |-> x, ver |-> profile'[x]]
<1>1. /\ events \in Seq(EventRec) /\ PeopleEvents /\ Len(events) <= EventCap
      /\ missed \subseteq Portals
  BY DEF Typed
<1>2. e \in EventRec /\ e.type = t /\ e.who = x
  <2> profile'[x] \in Nat
    OBVIOUS
  <2> HIDE DEF e
  <2> QED BY EventSays DEF e
<1>3. Emit(t, x, q) => \/ Heard /\ events' = Append(events, e) /\ missed' = missed
                       \/ events' = events /\ missed' = missed \union {q}
  BY DEF Emit
<1> HIDE DEF e
<1>4. CASE Heard /\ events' = Append(events, e) /\ missed' = missed
  <2>1. OfPeople(e)
    BY <1>2 DEF OfPeople
  <2>2. PeopleEvents'
    BY <1>1, <1>2, <1>4, <2>1 DEF PeopleEvents
  <2>3. Len(events') <= EventCap
    BY <1>1, <1>4, ChatSyncAssumption DEF Heard, ChatSyncAssumption
  <2> QED BY <1>1, <1>2, <1>4, <2>2, <2>3
<1>5. CASE events' = events /\ missed' = missed \union {q}
  BY <1>1, <1>5 DEF PeopleEvents
<1> QED BY <1>3, <1>4, <1>5

LEMMA ServerTyped == ASSUME Typed, Server PROVE Typed'
<1> USE DEF Happens
<1>0. /\ loginID \in LoginIDs /\ contacts \subseteq People
      /\ status \in [People -> {"invited", "active", "left"}]
      /\ profile \in [People \union {Group} -> Nat \ {0}]
      /\ up \in BOOLEAN /\ changes \in 0 .. MaxChanges
      /\ events \in Seq(EventRec) /\ PeopleEvents /\ Len(events) <= EventCap
      /\ missed \subseteq Portals /\ behind \subseteq People
  BY DEF Typed
<1>1. changes' \in 0 .. MaxChanges
  BY <1>0, ChatSyncAssumption DEF Server, ChatSyncAssumption
<1> DEFINE Goal == /\ contacts' \subseteq People
                   /\ status' \in [People -> {"invited", "active", "left"}]
                   /\ profile' \in [People \union {Group} -> Nat \ {0}]
                   /\ events' \in Seq(EventRec) /\ PeopleEvents' /\ Len(events') <= EventCap
                   /\ missed' \subseteq Portals /\ behind' \subseteq People
<1> USE DEF EventType, GroupTypes, ContactTypes
<1>2. ASSUME NEW p \in People, JoinsGroup(p) PROVE Goal
  <2>1. status' \in [People -> {"invited", "active", "left"}]
    BY <1>0, <1>2 DEF JoinsGroup
  <2> QED BY <1>0, <1>2, <2>1, EmitTyped, PortalIDs DEF JoinsGroup
<1>3. ASSUME NEW p \in People, LeavesGroup(p) PROVE Goal
  <2>1. status' \in [People -> {"invited", "active", "left"}]
    BY <1>0, <1>3 DEF LeavesGroup
  <2> QED BY <1>0, <1>3, <2>1, EmitTyped, PortalIDs DEF LeavesGroup
<1>4. ASSUME NEW p \in People, RequestsContact(p) PROVE Goal
  BY <1>0, <1>4, EmitTyped, PortalIDs DEF RequestsContact
<1>5. ASSUME NEW p \in People, Connects(p) PROVE Goal
  BY <1>0, <1>5, EmitTyped, PortalIDs DEF Connects
<1>6. ASSUME RenamesGroup PROVE Goal
  <2>1. profile' \in [People \union {Group} -> Nat \ {0}]
    BY <1>0, <1>6 DEF RenamesGroup
  <2>2. Emit("groupUpdated", Group, Group)
    BY <1>6 DEF RenamesGroup
  <2>3. /\ events' \in Seq(EventRec) /\ PeopleEvents' /\ Len(events') <= EventCap
        /\ missed' \subseteq Portals
    BY <2>1, <2>2, EmitTyped, PortalIDs
  <2>4. UNCHANGED <<contacts, status, behind>>
    BY <1>6 DEF RenamesGroup
  <2> QED BY <1>0, <2>1, <2>3, <2>4
<1>7. ASSUME NEW p \in People, Renames(p) PROVE Goal
  <2>1. profile' \in [People \union {Group} -> Nat \ {0}]
    BY <1>0, <1>7 DEF Renames
  <2> DEFINE e == [type |-> "contactUpdated", who |-> p, ver |-> profile'[p]]
  <2>2. e \in EventRec /\ e.type = "contactUpdated" /\ e.who = p
    <3> profile'[p] \in Nat
      BY <2>1
    <3> HIDE DEF e
    <3> QED BY EventSays DEF e
  <2>3. \/ Heard /\ events' = Append(events, e)
        \/ events' = events
    BY <1>7 DEF Renames
  <2> HIDE DEF e
  <2>4. events' \in Seq(EventRec) /\ PeopleEvents' /\ Len(events') <= EventCap
    <3>1. CASE Heard /\ events' = Append(events, e)
      <4>1. OfPeople(e)
        BY <2>2 DEF OfPeople
      <4>2. PeopleEvents'
        BY <1>0, <2>2, <3>1, <4>1 DEF PeopleEvents
      <4>3. Len(events') <= EventCap
        BY <1>0, <3>1, ChatSyncAssumption DEF Heard, ChatSyncAssumption
      <4> QED BY <1>0, <2>2, <3>1, <4>2, <4>3
    <3>2. CASE events' = events
      BY <1>0, <3>2 DEF PeopleEvents
    <3> QED BY <2>3, <3>1, <3>2
  <2> QED BY <1>0, <1>7, <2>1, <2>4 DEF Renames
<1> HIDE DEF Goal, EventType, GroupTypes, ContactTypes
<1>8. Goal
  BY <1>2, <1>3, <1>4, <1>5, <1>6, <1>7 DEF Server
<1> QED BY <1>1, <1>8 DEF Goal, Typed, Server

LEMMA SyncChatsTyped == ASSUME Typed, SyncChats PROVE Typed'
<1>0. /\ synced \in BOOLEAN /\ sync \in [1 .. MaxSyncs -> SyncRec]
      /\ queue \in [Portals -> Seq(ResyncRec)] /\ missed \subseteq Portals
      /\ contacts \subseteq People
  BY DEF Typed
<1>1. PICK k \in DOMAIN sync : \/ SyncBegins(k) \/ SyncContacts(k)
                              \/ SyncGroups(k) \/ MarkSynced(k)
  BY DEF SyncChats
<1>2. k \in 1 .. MaxSyncs /\ sync[k] \in SyncRec
  BY <1>0
<1>3. /\ synced' \in BOOLEAN
      /\ sync' \in [1 .. MaxSyncs -> SyncRec]
  <2>1. \A s \in SyncRec, b \in BOOLEAN :
           /\ \A place \in {"groups", "mark"} : [s EXCEPT !.at = place] \in SyncRec
           /\ [at |-> "contacts", reconnect |-> b] \in SyncRec
           /\ [at |-> "done", reconnect |-> FALSE] \in SyncRec
    BY DEF SyncRec
  <2>2. /\ synced' \in BOOLEAN
        /\ \E s \in SyncRec : sync' = [sync EXCEPT ![k] = s]
    <3>1. CASE SyncBegins(k)
      BY <1>0, <1>2, <2>1, <3>1 DEF SyncBegins
    <3>2. CASE SyncContacts(k)
      <4>1. sync' = [sync EXCEPT ![k] = [sync[k] EXCEPT !.at = "groups"]]
        BY <3>2 DEF SyncContacts, Goto
      <4> QED BY <1>0, <1>2, <2>1, <3>2, <4>1 DEF SyncContacts
    <3>3. CASE SyncGroups(k)
      <4>1. sync' = [sync EXCEPT ![k] = [sync[k] EXCEPT !.at = "mark"]]
        BY <3>3 DEF SyncGroups, Goto
      <4> QED BY <1>0, <1>2, <2>1, <3>3, <4>1 DEF SyncGroups
    <3>4. CASE MarkSynced(k)
      BY <1>0, <1>2, <2>1, <3>4 DEF MarkSynced
    <3> QED BY <1>1, <3>1, <3>2, <3>3, <3>4
  <2> QED BY <1>0, <2>2
<1>4. ASSUME NEW qs \in SUBSET Portals, Enumerate(k, qs)
      PROVE  queue' \in [Portals -> Seq(ResyncRec)] /\ missed' \subseteq Portals
  <2> DEFINE r == Resync(~sync[k].reconnect, TRUE)
  <2>1. r \in ResyncRec
    BY <1>2 DEF Resync, SyncRec, ResyncRec
  <2>2. \/ /\ queue' = [q \in Portals |-> IF q \in qs THEN Append(queue[q], r) ELSE queue[q]]
           /\ missed' = missed \ (qs \ {Group})
        \/ missed' = missed \union qs /\ queue' = queue
    BY <1>4 DEF Enumerate, QueueTo
  <2> HIDE DEF r
  <2>3. \A q \in Portals : Append(queue[q], r) \in Seq(ResyncRec)
    BY <1>0, <2>1
  <2>4. queue' \in [Portals -> Seq(ResyncRec)]
    BY <1>0, <2>2, <2>3
  <2> QED BY <1>0, <2>2, <2>4
<1>5. queue' \in [Portals -> Seq(ResyncRec)] /\ missed' \subseteq Portals
  <2>1. {DM(p) : p \in contacts} \in SUBSET Portals /\ {Group} \in SUBSET Portals
    BY <1>0, PortalIDs
  <2> QED BY <1>0, <1>1, <1>4, <2>1 DEF SyncBegins, SyncContacts, SyncGroups, MarkSynced
<1>6. UNCHANGED <<loginID, contacts, status, profile, up, changes, events, work, room,
                  ghost, lookup, behind>>
  BY DEF SyncChats, serverVars
<1>7. PeopleEvents' <=> PeopleEvents
  BY <1>6 DEF PeopleEvents
<1> QED BY <1>3, <1>5, <1>6, <1>7 DEF Typed

(* The first event is dealt with.                                           *)
LEMMA TakeTyped ==
    ASSUME Typed, NEW types, Take(types)
    PROVE  /\ Head(events) \in EventRec /\ OfPeople(Head(events))
           /\ events # << >> /\ Head(events).type \in types /\ events' = Tail(events)
           /\ events' \in Seq(EventRec) /\ PeopleEvents' /\ Len(events') <= EventCap
<1>1. /\ events \in Seq(EventRec) /\ PeopleEvents /\ Len(events) <= EventCap
      /\ EventCap \in Nat
  BY ChatSyncAssumption DEF Typed, ChatSyncAssumption
<1>2. events # << >> /\ Head(events).type \in types /\ events' = Tail(events)
  BY DEF Take
<1>3. Head(events) \in {e \in EventRec : OfPeople(e)}
  BY <1>1, <1>2 DEF PeopleEvents
<1>4. PeopleEvents'
  BY <1>1, <1>2 DEF PeopleEvents
<1>5. events' \in Seq(EventRec) /\ Len(events') <= EventCap
  BY <1>1, <1>2
<1> QED BY <1>2, <1>3, <1>4, <1>5

LEMMA EventTyped == ASSUME Typed, HandleSimplexEvent PROVE Typed'
<1>0. /\ contacts \subseteq People /\ queue \in [Portals -> Seq(ResyncRec)]
      /\ ghost \in [UserIDs -> Nat] /\ missed \subseteq Portals /\ behind \subseteq People
  BY DEF Typed
<1>1. UNCHANGED <<loginID, status, profile, up, changes, synced, sync, work, room, lookup>>
  BY DEF HandleSimplexEvent
<1>2. Resync(TRUE, FALSE) \in ResyncRec /\ Resync(TRUE, TRUE) \in ResyncRec
  BY DEF Resync, ResyncRec
<1>3. ASSUME NEW qs, NEW r \in ResyncRec, QueueTo(qs, r)
      PROVE  queue' \in [Portals -> Seq(ResyncRec)]
  BY <1>0, <1>3 DEF QueueTo
<1> DEFINE Goal == /\ contacts' \subseteq People /\ queue' \in [Portals -> Seq(ResyncRec)]
                   /\ ghost' \in [UserIDs -> Nat] /\ missed' \subseteq Portals
                   /\ behind' \subseteq People
                   /\ events' \in Seq(EventRec) /\ PeopleEvents' /\ Len(events') <= EventCap
<1>4. ASSUME HandleGroupEvent PROVE Goal
  BY <1>0, <1>2, <1>3, <1>4, TakeTyped DEF HandleGroupEvent
<1>5. ASSUME HandleContactConnected PROVE Goal
  BY <1>0, <1>2, <1>3, <1>5, TakeTyped DEF HandleContactConnected
<1>6. ASSUME HandleReceivedContactRequest PROVE Goal
  <2>1. Who \in People
    BY <1>6, TakeTyped DEF HandleReceivedContactRequest, OfPeople, ContactTypes, Who
  <2> QED BY <1>0, <1>2, <1>3, <1>6, <2>1, TakeTyped DEF HandleReceivedContactRequest
<1>7. ASSUME HandleContactUpdated PROVE Goal
  <2>1. Who \in People /\ Head(events).ver \in Nat
    BY <1>7, TakeTyped DEF HandleContactUpdated, OfPeople, ContactTypes, Who, EventRec
  <2>2. ghost' \in [UserIDs -> Nat]
    BY <1>0, <1>7, <2>1 DEF HandleContactUpdated
  <2> QED BY <1>0, <1>7, <2>1, <2>2, TakeTyped DEF HandleContactUpdated
<1> HIDE DEF Goal
<1>8. Goal
  BY <1>4, <1>5, <1>6, <1>7 DEF HandleSimplexEvent
<1> QED BY <1>1, <1>8 DEF Goal, Typed

LEMMA ConnectionTyped ==
    ASSUME Typed, Disconnects \/ Reconnects \/ Restarts
    PROVE  Typed'
<1>1. CASE Disconnects
  BY <1>1 DEF Disconnects, bridgeVars, historyVars, Typed, PeopleEvents
<1>2. CASE Reconnects
  <2>1. PICK k \in 2 .. MaxSyncs : sync' = [sync EXCEPT ![k].at = "begin"]
    BY <1>2 DEF Reconnects
  <2>2. k \in 1 .. MaxSyncs /\ sync[k] \in SyncRec /\ sync \in [1 .. MaxSyncs -> SyncRec]
    BY ChatSyncAssumption DEF Typed, ChatSyncAssumption
  <2>3. [sync[k] EXCEPT !.at = "begin"] \in SyncRec
    BY <2>2 DEF SyncRec
  <2>4. sync' \in [1 .. MaxSyncs -> SyncRec]
    BY <2>1, <2>2, <2>3
  <2> QED BY <1>2, <2>4 DEF Reconnects, historyVars, Typed, PeopleEvents
<1>3. CASE Restarts
  <2>1. sync' \in [1 .. MaxSyncs -> SyncRec]
    <3>1. DOMAIN sync = 1 .. MaxSyncs /\ \A k \in 1 .. MaxSyncs : sync[k] \in SyncRec
      BY DEF Typed
    <3>2. [at |-> "done", reconnect |-> FALSE] \in SyncRec
      BY DEF SyncRec
    <3>3. sync' = [k \in 1 .. MaxSyncs |-> IF At(k, "none") THEN sync[k]
                                          ELSE [at |-> "done", reconnect |-> FALSE]]
      BY <1>3, <3>1 DEF Restarts
    <3> QED BY <3>1, <3>2, <3>3
  <2>2. queue' \in [Portals -> Seq(ResyncRec)] /\ work' \in [Portals -> WorkRec]
    <3>1. Idle \in WorkRec
      BY DEF Idle, WorkRec
    <3>2. queue' = [q \in Portals |-> << >>] /\ work' = [q \in Portals |-> Idle]
      BY <1>3 DEF Restarts
    <3> QED BY <3>1, <3>2
  <2>3. missed' \subseteq Portals
    <3>1. \A j \in DOMAIN events : About(events[j]) \in Portals
      <4> SUFFICES ASSUME NEW j \in DOMAIN events PROVE About(events[j]) \in Portals
        OBVIOUS
      <4>1. OfPeople(events[j])
        BY DEF Typed, PeopleEvents
      <4> QED BY <4>1, PortalIDs DEF About, OfPeople, ContactTypes
    <3> QED BY <1>3, <3>1 DEF Restarts, Unhandled, Typed
  <2>4. /\ events' = << >> /\ lookup' = NoLookup /\ up' = FALSE
        /\ UNCHANGED <<loginID, contacts, status, profile, changes, synced, room, ghost>>
        /\ behind' \subseteq People
    BY <1>3 DEF Restarts, Typed
  <2>5. events' \in Seq(EventRec) /\ PeopleEvents' /\ Len(events') <= EventCap
    BY <2>4, ChatSyncAssumption DEF PeopleEvents, ChatSyncAssumption
  <2> QED BY <2>1, <2>2, <2>3, <2>4, <2>5 DEF Typed
<1> QED BY <1>1, <1>2, <1>3

-----------------------------------------------------------------------------
(* What a portal does, read with one resync at its head.                    *)

LEMMA IdleIsWork == Idle \in WorkRec /\ Idle.at = "idle" /\ Idle.infos = {}
BY DEF Idle, WorkRec

LEMMA InfoTyped ==
    ASSUME Typed, NEW p \in People
    PROVE  /\ Info(UID(p), p) \in UserInfos /\ Info(MemberID(p), p) \in UserInfos
           /\ Info(UID(p), p).uid = UID(p) /\ Info(UID(p), p).ver = profile[p]
           /\ Info(MemberID(p), p).uid = MemberID(p) /\ Info(MemberID(p), p).ver = profile[p]
<1>1. UID(p) \in UserIDs /\ MemberID(p) \in UserIDs
  BY MemberIDs
<1>2. profile[p] \in Nat
  BY DEF Typed
<1> QED BY <1>1, <1>2 DEF Info, UserInfos

(* What is read of a chat, with its members or without.                     *)
Full(q) == Head(queue[q]).full \/ ~room[q].exists

ReadFrom(q, w) ==
    /\ w.full = Full(q)
    /\ \/ /\ q = Group /\ w.at = "members" /\ w.infos = {}
          /\ w.title = profile[Group]
       \/ \E p \in People :
            /\ q = DM(p) /\ w.at = "apply" /\ w.title = profile[p]
            /\ w.infos = IF Full(q) THEN {Info(UID(p), p)} ELSE {}

(* ReadChat, when there is nothing to bring up to date, when the chat is    *)
(* not to be had, and when it is.                                           *)
LEMMA ReadChatSays ==
    ASSUME Typed, NEW q \in Portals, ReadChat(q)
    PROVE  /\ work[q] = Idle /\ queue[q] # << >> /\ queue' = [queue EXCEPT ![q] = Tail(@)]
           /\ Head(queue[q]) \in ResyncRec /\ UNCHANGED <<room, ghost>>
           /\ \/ /\ ~room[q].exists /\ ~Head(queue[q]).create /\ UNCHANGED <<work, missed>>
              \/ /\ ~up /\ UNCHANGED work
                 /\ missed' = IF Full(q) THEN missed \union {q} ELSE missed
              \/ /\ up /\ missed' = IF Full(q) THEN missed \ {q} ELSE missed
                 /\ \E w \in WorkRec : work' = [work EXCEPT ![q] = w] /\ ReadFrom(q, w)
<1>1. /\ work[q] = Idle /\ queue[q] # << >> /\ queue' = [queue EXCEPT ![q] = Tail(@)]
      /\ queue[q] \in Seq(ResyncRec) /\ UNCHANGED <<room, ghost>>
  BY DEF ReadChat, Typed
<1>2. Head(queue[q]) \in ResyncRec
  BY <1>1
<1>3. Full(q) \in BOOLEAN
  BY <1>2 DEF Full, ResyncRec, Typed, RoomRec
<1>4. \/ /\ ~room[q].exists /\ ~Head(queue[q]).create /\ UNCHANGED <<work, missed>>
      \/ /\ ~up /\ UNCHANGED work
         /\ missed' = IF Full(q) THEN missed \union {q} ELSE missed
      \/ /\ up /\ missed' = IF Full(q) THEN missed \ {q} ELSE missed
         /\ \/ /\ q = Group
               /\ work' = [work EXCEPT ![q] = [at |-> "members", full |-> Full(q),
                                             title |-> profile[Group], infos |-> {}]]
            \/ \E p \in People :
                 /\ q = DM(p)
                 /\ work' = [work EXCEPT ![q] =
                       [at |-> "apply", full |-> Full(q), title |-> profile[p],
                        infos |-> IF Full(q) THEN {Info(UID(p), p)} ELSE {}]]
  BY DEF ReadChat, UID, Full
<1>5. ASSUME q = Group,
             work' = [work EXCEPT ![q] = [at |-> "members", full |-> Full(q),
                                          title |-> profile[Group], infos |-> {}]]
      PROVE  \E w \in WorkRec : work' = [work EXCEPT ![q] = w] /\ ReadFrom(q, w)
  <2>1. PICK w : w = [at |-> "members", full |-> Full(q), title |-> profile[Group], infos |-> {}]
    OBVIOUS
  <2>2. profile[Group] \in Nat
    BY DEF Typed
  <2>3. /\ w \in WorkRec /\ w.full = Full(q) /\ w.at = "members" /\ w.infos = {}
        /\ w.title = profile[Group]
    BY <1>3, <2>1, <2>2 DEF WorkRec
  <2>4. work' = [work EXCEPT ![q] = w]
    BY <1>5, <2>1
  <2>5. ReadFrom(q, w)
    BY <1>5, <2>3 DEF ReadFrom
  <2> QED BY <2>3, <2>4, <2>5
<1>6. ASSUME NEW p \in People, q = DM(p),
             work' = [work EXCEPT ![q] =
                        [at |-> "apply", full |-> Full(q), title |-> profile[p],
                         infos |-> IF Full(q) THEN {Info(UID(p), p)} ELSE {}]]
      PROVE  \E w \in WorkRec : work' = [work EXCEPT ![q] = w] /\ ReadFrom(q, w)
  <2>1. PICK w : w = [at |-> "apply", full |-> Full(q), title |-> profile[p],
                      infos |-> IF Full(q) THEN {Info(UID(p), p)} ELSE {}]
    OBVIOUS
  <2>2. profile[p] \in Nat /\ Info(UID(p), p) \in UserInfos
    BY InfoTyped DEF Typed
  <2>3. /\ w \in WorkRec /\ w.full = Full(q) /\ w.at = "apply" /\ w.title = profile[p]
        /\ w.infos = IF Full(q) THEN {Info(UID(p), p)} ELSE {}
    BY <1>3, <2>1, <2>2 DEF WorkRec
  <2>4. work' = [work EXCEPT ![q] = w]
    BY <1>6, <2>1
  <2>5. ReadFrom(q, w)
    BY <1>6, <2>3 DEF ReadFrom
  <2> QED BY <2>3, <2>4, <2>5
<1> QED BY <1>1, <1>2, <1>4, <1>5, <1>6

(* ReadMembers, connected and not.                                          *)
LEMMA ReadMembersSays ==
    ASSUME Typed, ReadMembers
    PROVE  /\ work[Group].at = "members" /\ UNCHANGED <<queue, room, ghost>>
           /\ \/ /\ up /\ UNCHANGED missed
                 /\ \E w \in WorkRec :
                      /\ work' = [work EXCEPT ![Group] = w]
                      /\ w.at = "apply" /\ w.full = work[Group].full
                      /\ w.title = work[Group].title
                      /\ w.infos = IF w.full THEN {Info(MemberID(p), p) : p \in GroupMembers}
                                             ELSE {}
              \/ /\ ~up /\ work' = [work EXCEPT ![Group] = Idle]
                 /\ missed' = IF work[Group].full THEN missed \union {Group} ELSE missed
<1> DEFINE infos == IF work[Group].full THEN {Info(MemberID(p), p) : p \in GroupMembers} ELSE {}
<1>1. Group \in Portals /\ work \in [Portals -> WorkRec] /\ work[Group] \in WorkRec
  BY PortalIDs DEF Typed
<1>2. /\ work[Group].at = "members" /\ UNCHANGED <<queue, room, ghost>>
      /\ IF up
         THEN /\ work' = [work EXCEPT ![Group].at = "apply", ![Group].infos = infos]
              /\ UNCHANGED missed
         ELSE /\ work' = [work EXCEPT ![Group] = Idle]
              /\ missed' = IF work[Group].full THEN missed \union {Group} ELSE missed
  BY DEF ReadMembers
<1>3. infos \in SUBSET UserInfos
  BY InfoTyped DEF GroupMembers
<1> HIDE DEF infos
<1>4. CASE up
  <2>1. PICK w : w = [work[Group] EXCEPT !.at = "apply", !.infos = infos]
    OBVIOUS
  <2>2. /\ w \in WorkRec /\ w.at = "apply" /\ w.full = work[Group].full
        /\ w.title = work[Group].title /\ w.infos = infos
    BY <1>1, <1>3, <2>1 DEF WorkRec
  <2>3. work' = [work EXCEPT ![Group] = w]
    BY <1>1, <1>2, <1>4, <2>1
  <2> QED BY <1>2, <1>4, <2>2, <2>3 DEF infos
<1>5. CASE ~up
  BY <1>2, <1>5
<1> QED BY <1>4, <1>5

(* Apply: the infos that are not the user's own are shown.                  *)
Shown(q) == {i \in work[q].infos : i.uid # Self}

LEMMA ApplySays ==
    ASSUME Typed, NEW q \in Portals, Apply(q)
    PROVE  /\ work[q].at = "apply" /\ work' = [work EXCEPT ![q] = Idle]
           /\ UNCHANGED <<queue, missed>>
           /\ \E c \in RoomRec :
                /\ room' = [room EXCEPT ![q] = c]
                /\ c.exists /\ c.title = work[q].title
                /\ c.members = IF work[q].full THEN {Self} \union {i.uid : i \in Shown(q)}
                                               ELSE room[q].members
           /\ ghost' \in [UserIDs -> Nat]
           /\ \A u \in UserIDs : \/ ghost'[u] = ghost[u]
                                 \/ \E i \in Shown(q) : i.uid = u /\ ghost'[u] = i.ver
<1>1. /\ work[q] \in WorkRec /\ room \in [Portals -> RoomRec] /\ room[q] \in RoomRec
      /\ ghost \in [UserIDs -> Nat]
  BY DEF Typed
<1>2. Self \in UserIDs
  BY TypedIsTypeOK, SelfID
<1>3. Shown(q) \subseteq UserInfos
  BY <1>1 DEF Shown, WorkRec
<1>4. /\ work[q].at = "apply" /\ work' = [work EXCEPT ![q] = Idle]
      /\ UNCHANGED <<queue, missed>>
      /\ room' = [room EXCEPT ![q] =
            [exists |-> TRUE, title |-> work[q].title,
             members |-> IF work[q].full THEN {Self} \union {i.uid : i \in Shown(q)}
                         ELSE room[q].members]]
      /\ ghost' = [u \in UserIDs |-> IF \E i \in Shown(q) : i.uid = u
                                     THEN (CHOOSE i \in Shown(q) : i.uid = u).ver
                                     ELSE ghost[u]]
  BY <1>1 DEF Apply, Shown
<1>5. ASSUME NEW u \in UserIDs
      PROVE  /\ ghost'[u] \in Nat
             /\ \/ ghost'[u] = ghost[u]
                \/ \E i \in Shown(q) : i.uid = u /\ ghost'[u] = i.ver
  <2>1. CASE \E i \in Shown(q) : i.uid = u
    <3>1. PICK i \in Shown(q) : i.uid = u /\ i = CHOOSE j \in Shown(q) : j.uid = u
      BY <2>1
    <3>2. ghost'[u] = i.ver
      BY <1>4, <2>1, <3>1
    <3> QED BY <1>3, <3>1, <3>2 DEF UserInfos
  <2>2. CASE ~\E i \in Shown(q) : i.uid = u
    BY <1>1, <1>4, <2>2
  <2> QED BY <2>1, <2>2
<1>6. ghost' \in [UserIDs -> Nat]
  BY <1>4, <1>5
<1>7. \E c \in RoomRec :
         /\ room' = [room EXCEPT ![q] = c]
         /\ c.exists /\ c.title = work[q].title
         /\ c.members = IF work[q].full THEN {Self} \union {i.uid : i \in Shown(q)}
                                        ELSE room[q].members
  <2> DEFINE m == IF work[q].full THEN {Self} \union {i.uid : i \in Shown(q)}
                  ELSE room[q].members
  <2>1. m \in SUBSET UserIDs
    BY <1>1, <1>2, <1>3 DEF UserInfos, RoomRec
  <2>2. room' = [room EXCEPT ![q] = [exists |-> TRUE, title |-> work[q].title, members |-> m]]
    BY <1>4
  <2> HIDE DEF m
  <2>3. PICK c : c = [exists |-> TRUE, title |-> work[q].title, members |-> m]
    OBVIOUS
  <2>4. c \in RoomRec /\ c.exists /\ c.title = work[q].title /\ c.members = m
    BY <1>1, <2>1, <2>3 DEF RoomRec, WorkRec
  <2> QED BY <2>2, <2>3, <2>4 DEF m
<1> QED BY <1>4, <1>5, <1>6, <1>7

LEMMA PortalTyped == ASSUME Typed, Portal PROVE Typed'
<1>0. /\ queue \in [Portals -> Seq(ResyncRec)] /\ work \in [Portals -> WorkRec]
      /\ room \in [Portals -> RoomRec] /\ ghost \in [UserIDs -> Nat] /\ missed \subseteq Portals
  BY DEF Typed
<1>1. UNCHANGED <<serverVars, bridgeVars, lookup, behind>>
  BY DEF Portal
<1> DEFINE Goal == /\ queue' \in [Portals -> Seq(ResyncRec)] /\ work' \in [Portals -> WorkRec]
                   /\ room' \in [Portals -> RoomRec] /\ ghost' \in [UserIDs -> Nat]
                   /\ missed' \subseteq Portals
<1>2. ASSUME ReadMembers PROVE Goal
  <2>1. work' \in [Portals -> WorkRec] /\ missed' \subseteq Portals
    BY <1>0, <1>2, ReadMembersSays, PortalIDs, IdleIsWork
  <2> QED BY <1>0, <1>2, <2>1, ReadMembersSays
<1>3. ASSUME NEW q \in Portals, ReadChat(q) PROVE Goal
  <2>1. queue' = [queue EXCEPT ![q] = Tail(@)] /\ queue[q] # << >>
    BY <1>3, ReadChatSays
  <2>2. work' \in [Portals -> WorkRec] /\ missed' \subseteq Portals
    <3>1. work' = work \/ \E w \in WorkRec : work' = [work EXCEPT ![q] = w]
      BY <1>3, ReadChatSays
    <3>2. missed' \in {missed, missed \union {q}, missed \ {q}}
      BY <1>3, ReadChatSays
    <3> QED BY <1>0, <3>1, <3>2
  <2>3. UNCHANGED <<room, ghost>>
    BY <1>3 DEF ReadChat
  <2>4. queue' \in [Portals -> Seq(ResyncRec)]
    BY <1>0, <2>1
  <2> QED BY <1>0, <2>2, <2>3, <2>4
<1>4. ASSUME NEW q \in Portals, Apply(q) PROVE Goal
  <2>1. work' \in [Portals -> WorkRec] /\ room' \in [Portals -> RoomRec]
    <3>1. work' = [work EXCEPT ![q] = Idle] /\ \E c \in RoomRec : room' = [room EXCEPT ![q] = c]
      BY <1>4, ApplySays
    <3> QED BY <1>0, <3>1, IdleIsWork
  <2> QED BY <1>0, <1>4, <2>1, ApplySays
<1> HIDE DEF Goal
<1>5. Goal
  BY <1>2, <1>3, <1>4 DEF Portal
<1> QED BY <1>1, <1>5 DEF Goal, Typed, PeopleEvents, serverVars, bridgeVars

LEMMA GetUserInfoTyped == ASSUME Typed, GetUserInfo PROVE Typed'
<1>0. ghost \in [UserIDs -> Nat] /\ lookup \in UserInfos \union {NoLookup}
  BY DEF Typed
<1>1. UNCHANGED <<serverVars, bridgeVars, queue, work, room, historyVars>>
  BY DEF GetUserInfo
<1>2. ghost' \in [UserIDs -> Nat] /\ lookup' \in UserInfos \union {NoLookup}
  <2>1. CASE LookedUp
    <3>1. lookup.ver \in Nat
      BY <1>0, <2>1 DEF LookedUp, UserInfos
    <3> QED BY <1>0, <2>1, <3>1 DEF LookedUp
  <2>2. ASSUME NEW p \in People, LooksUp(p)
        PROVE  ghost' \in [UserIDs -> Nat] /\ lookup' \in UserInfos \union {NoLookup}
    BY <1>0, <2>2, InfoTyped DEF LooksUp
  <2> QED BY <2>1, <2>2 DEF GetUserInfo
<1> QED BY <1>1, <1>2 DEF Typed, PeopleEvents, serverVars, bridgeVars, historyVars

LEMMA TypedNext == Typed /\ [Next]_vars => Typed'
<1> SUFFICES ASSUME Typed, [Next]_vars PROVE Typed'
  OBVIOUS
<1>1. CASE UNCHANGED vars
  BY <1>1 DEF vars, serverVars, bridgeVars, historyVars, Typed, PeopleEvents
<1> QED BY <1>1, ServerTyped, ConnectionTyped, SyncChatsTyped, EventTyped, PortalTyped,
           GetUserInfoTyped DEF Next

LEMMA AlwaysTyped == Spec => []Typed
BY TypedInit, TypedNext, PTL DEF Spec

(* Every variable keeps its type: eventsCh never holds more than it can,    *)
(* and each portal is given nothing but resyncs, whatever the events, the   *)
(* syncs and the portals do at the same time.                               *)
THEOREM TypeCorrect == Spec => []TypeOK
BY AlwaysTyped, TypedIsTypeOK, PTL

-----------------------------------------------------------------------------
(* Queues: what is in one, and what of it is last.                          *)

Has(s, A) == \E j \in 1 .. Len(s) : s[j] \in A

LEMMA HasOfEmpty == ASSUME NEW A PROVE ~Has(<< >>, A)
BY DEF Has

LEMMA HasOfAppend ==
    ASSUME NEW S, NEW s \in Seq(S), NEW e \in S, NEW A
    PROVE  Has(Append(s, e), A) <=> Has(s, A) \/ e \in A
<1> DEFINE t == Append(s, e)
<1>1. /\ Len(s) \in Nat /\ Len(t) = Len(s) + 1 /\ t[Len(s) + 1] = e
      /\ \A j \in 1 .. Len(s) : t[j] = s[j]
  OBVIOUS
<1> HIDE DEF t
<1>2. Has(t, A) => Has(s, A) \/ e \in A
  BY <1>1 DEF Has
<1>3. Has(s, A) => Has(t, A)
  BY <1>1 DEF Has
<1>4. e \in A => Has(t, A)
  BY <1>1 DEF Has
<1> QED BY <1>2, <1>3, <1>4 DEF t

LEMMA HasOfTail ==
    ASSUME NEW S, NEW s \in Seq(S), s # << >>, NEW A
    PROVE  Has(s, A) <=> Has(Tail(s), A) \/ Head(s) \in A
<1> DEFINE t == Tail(s)
<1>1. /\ Len(s) \in Nat \ {0} /\ Len(t) = Len(s) - 1 /\ s[1] = Head(s)
      /\ \A j \in 1 .. Len(t) : t[j] = s[j + 1]
  OBVIOUS
<1> HIDE DEF t
<1>2. ASSUME Has(s, A) PROVE Has(t, A) \/ Head(s) \in A
  <2>1. PICK j \in 1 .. Len(s) : s[j] \in A
    BY <1>2 DEF Has
  <2>2. CASE j = 1
    BY <1>1, <2>1, <2>2
  <2>3. CASE j # 1
    <3>1. j - 1 \in 1 .. Len(t) /\ t[j - 1] = s[j]
      BY <1>1, <2>3
    <3> QED BY <2>1, <3>1 DEF Has
  <2> QED BY <2>2, <2>3
<1>3. ASSUME Has(t, A) PROVE Has(s, A)
  <2>1. PICK j \in 1 .. Len(t) : t[j] \in A
    BY <1>3 DEF Has
  <2>2. j + 1 \in 1 .. Len(s) /\ s[j + 1] \in A
    BY <1>1, <2>1
  <2> QED BY <2>2 DEF Has
<1>4. Head(s) \in A => Has(s, A)
  BY <1>1 DEF Has
<1> QED BY <1>2, <1>3, <1>4 DEF t

-----------------------------------------------------------------------------
(* Contacts have rooms.                                                     *)

(* The resyncs that create a room, the announcements of a contact, and the  *)
(* connections that have not listed the contacts yet.                       *)
Creating == {r \in ResyncRec : r.create}
Announcing(p) == {e \in EventRec : e.type = "contactConnected" /\ e.who = p}
Listing == \E k \in 1 .. MaxSyncs : sync[k].at \in {"begin", "contacts"}

(* The room of a contact is there, on its way, or known to be missed.       *)
Underway(p) ==
    \/ DM(p) \in missed \/ room[DM(p)].exists
    \/ queue[DM(p)] # << >> \/ work[DM(p)].at = "apply"
    \/ Has(events, Announcing(p)) \/ Listing

Creates ==
    \A p \in People : queue[DM(p)] \in Seq(Creating) /\ work[DM(p)].at # "members"

(* What a restart takes away is only made good by the next connection.      *)
RoomsUnderway == up => \A p \in contacts : Underway(p)

RoomsInv == Creates /\ RoomsUnderway

(* Nothing but a connection's end takes away what is on the way to a room.  *)
LEMMA StaysUnderway ==
    ASSUME RoomsUnderway, up' => up, contacts' \subseteq contacts,
           \A p \in contacts : Underway(p) => Underway(p)'
    PROVE  RoomsUnderway'
BY DEF RoomsUnderway

LEMMA EmitHas ==
    ASSUME Typed, NEW t \in EventType, NEW x \in People \union {Group}, NEW q \in Portals,
           profile' \in [People \union {Group} -> Nat \ {0}], Emit(t, x, q)
    PROVE  /\ missed \subseteq missed'
           /\ \A A : Has(events, A) => Has(events', A)
           /\ \/ q \in missed'
              \/ \E e \in EventRec : /\ e.type = t /\ e.who = x
                                     /\ events' = Append(events, e) /\ missed' = missed
           /\ events' = events \/ missed' = missed
<1> DEFINE e == [type |-> t, who |-> x, ver |-> profile'[x]]
<1>1. profile'[x] \in Nat /\ events \in Seq(EventRec)
  BY DEF Typed
<1>2. e \in EventRec /\ e.type = t /\ e.who = x
  <2> HIDE DEF e
  <2> QED BY <1>1, EventSays DEF e
<1>3. \/ events' = Append(events, e) /\ missed' = missed
      \/ events' = events /\ missed' = missed \union {q}
  BY DEF Emit
<1> HIDE DEF e
<1>4. CASE events' = Append(events, e) /\ missed' = missed
  <2>1. \A A : Has(events, A) => Has(events', A)
    BY <1>1, <1>2, <1>4, HasOfAppend
  <2> QED BY <1>2, <1>4, <2>1
<1>5. CASE events' = events /\ missed' = missed \union {q}
  BY <1>5
<1> QED BY <1>3, <1>4, <1>5

LEMMA ServerProfile == ASSUME Typed, Server PROVE profile' \in [People \union {Group} -> Nat \ {0}]
BY ServerTyped DEF Typed

LEMMA ServerAnnounces ==
    ASSUME Typed, Server
    PROVE  /\ missed \subseteq missed'
           /\ \A p \in People : Has(events, Announcing(p)) => Has(events', Announcing(p))
           /\ \A p \in contacts' \ contacts : DM(p) \in missed' \/ Has(events', Announcing(p))
<1> DEFINE Kept == /\ missed \subseteq missed'
                   /\ \A A : Has(events, A) => Has(events', A)
           Goal == /\ Kept
                   /\ \A p \in contacts' \ contacts :
                         DM(p) \in missed' \/ Has(events', Announcing(p))
<1> USE DEF EventType, GroupTypes, ContactTypes
<1>1. ASSUME NEW p \in People, JoinsGroup(p) PROVE Goal
  BY <1>1, EmitHas, ServerProfile, PortalIDs DEF JoinsGroup
<1>2. ASSUME NEW p \in People, LeavesGroup(p) PROVE Goal
  BY <1>2, EmitHas, ServerProfile, PortalIDs DEF LeavesGroup
<1>3. ASSUME NEW p \in People, RequestsContact(p) PROVE Goal
  BY <1>3, EmitHas, ServerProfile, PortalIDs DEF RequestsContact
<1>4. ASSUME NEW p \in People, Connects(p) PROVE Goal
  <2>1. Emit("contactConnected", p, DM(p)) /\ contacts' = contacts \union {p}
    BY <1>4 DEF Connects
  <2>2. Kept
    BY <2>1, EmitHas, ServerProfile, PortalIDs
  <2>3. DM(p) \in missed' \/ Has(events', Announcing(p))
    <3>1. CASE DM(p) \in missed'
      BY <3>1
    <3>2. ASSUME NEW e \in EventRec, e.type = "contactConnected", e.who = p,
                 events' = Append(events, e)
          PROVE  Has(events', Announcing(p))
      <4>1. e \in Announcing(p) /\ events \in Seq(EventRec)
        BY <3>2 DEF Announcing, Typed
      <4> QED BY <3>2, <4>1, HasOfAppend
    <3> QED BY <2>1, <3>1, <3>2, EmitHas, ServerProfile, PortalIDs
  <2> QED BY <2>1, <2>2, <2>3
<1>5. ASSUME RenamesGroup PROVE Goal
  BY <1>5, EmitHas, ServerProfile, PortalIDs DEF RenamesGroup
<1>6. ASSUME NEW p \in People, Renames(p) PROVE Goal
  <2> DEFINE e == [type |-> "contactUpdated", who |-> p, ver |-> profile'[p]]
  <2>1. e \in EventRec
    <3> profile'[p] \in Nat
      BY ServerProfile
    <3> HIDE DEF e
    <3> QED BY EventSays DEF e
  <2>2. (events' = Append(events, e) \/ events' = events) /\ UNCHANGED <<contacts, missed>>
    BY <1>6 DEF Renames
  <2> HIDE DEF e
  <2>3. events \in Seq(EventRec)
    BY DEF Typed
  <2>4. ASSUME NEW A, Has(events, A) PROVE Has(events', A)
    <3>1. Has(Append(events, e), A)
      BY <2>1, <2>3, <2>4, HasOfAppend
    <3> QED BY <2>2, <2>4, <3>1
  <2> QED BY <2>2, <2>4
<1> HIDE DEF Goal
<1>7. Goal
  BY <1>1, <1>2, <1>3, <1>4, <1>5, <1>6 DEF Server
<1> QED BY <1>7 DEF Goal

LEMMA RoomsServer == ASSUME Typed, RoomsInv, Server PROVE RoomsInv'
<1>1. UNCHANGED <<up, sync, queue, work, room>>
  BY DEF Server
<1>2. Creates'
  BY <1>1 DEF RoomsInv, Creates
<1>3. ASSUME up', NEW p \in contacts' PROVE Underway(p)'
  <2>1. p \in People
    BY ServerTyped DEF Typed
  <2>2. CASE p \in contacts
    <3>1. Underway(p)
      BY <1>1, <1>3, <2>2 DEF RoomsInv, RoomsUnderway
    <3> QED BY <1>1, <2>1, <3>1, ServerAnnounces DEF Underway, Listing
  <2>3. CASE p \notin contacts
    BY <1>3, <2>3, ServerAnnounces DEF Underway
  <2> QED BY <2>2, <2>3
<1> QED BY <1>2, <1>3 DEF RoomsInv, RoomsUnderway

LEMMA RoomsConnection ==
    ASSUME Typed, RoomsInv, Disconnects \/ Reconnects \/ Restarts
    PROVE  RoomsInv'
<1>1. CASE Disconnects
  BY <1>1 DEF Disconnects, RoomsInv, Creates, RoomsUnderway
<1>2. CASE Reconnects
  <2>1. PICK k \in 2 .. MaxSyncs : sync' = [sync EXCEPT ![k].at = "begin"]
    BY <1>2 DEF Reconnects
  <2>2. k \in 1 .. MaxSyncs /\ sync'[k].at = "begin"
    BY <2>1, ChatSyncAssumption DEF Typed, SyncRec, ChatSyncAssumption
  <2>3. Listing'
    BY <2>2 DEF Listing
  <2>4. Creates'
    BY <1>2 DEF Reconnects, RoomsInv, Creates
  <2> QED BY <2>3, <2>4 DEF RoomsInv, RoomsUnderway, Underway
<1>3. CASE Restarts
  <2>1. up' = FALSE /\ \A q \in Portals : queue'[q] = << >> /\ work'[q] = Idle
    BY <1>3 DEF Restarts
  <2>2. \A p \in People : queue'[DM(p)] = << >> /\ work'[DM(p)].at = "idle"
    BY <2>1, IdleIsWork, PortalIDs
  <2>3. Creates'
    <3>1. << >> \in Seq(Creating)
      OBVIOUS
    <3> QED BY <2>2, <3>1 DEF Creates
  <2> QED BY <2>1, <2>3 DEF RoomsInv, RoomsUnderway
<1> QED BY <1>1, <1>2, <1>3

(* Everyone in qs, and nobody else, is queued a resync.                     *)
LEMMA QueueToSays ==
    ASSUME Typed, NEW qs, NEW r \in ResyncRec, QueueTo(qs, r)
    PROVE  /\ \A q \in Portals : queue[q] \in Seq(ResyncRec)
           /\ \A q \in Portals \ qs : queue'[q] = queue[q]
           /\ \A q \in Portals \intersect qs : queue'[q] = Append(queue[q], r)
           /\ \A q \in Portals : queue[q] # << >> => queue'[q] # << >>
           /\ \A q \in Portals \intersect qs : queue'[q] # << >>
<1>1. \A q \in Portals : queue[q] \in Seq(ResyncRec)
  BY DEF Typed
<1>2. \A q \in Portals : queue'[q] = IF q \in qs THEN Append(queue[q], r) ELSE queue[q]
  BY DEF QueueTo
<1>3. \A q \in Portals : Append(queue[q], r) # << >>
  BY <1>1
<1> QED BY <1>1, <1>2, <1>3

(* A resync that creates rooms is queued to portals.                        *)
LEMMA CreatesQueue ==
    ASSUME Typed, Creates, NEW qs, NEW r \in Creating, QueueTo(qs, r), UNCHANGED work
    PROVE  Creates'
<1> SUFFICES ASSUME NEW p \in People PROVE queue'[DM(p)] \in Seq(Creating)
  BY DEF Creates
<1>1. r \in ResyncRec /\ queue[DM(p)] \in Seq(Creating) /\ DM(p) \in Portals
  BY PortalIDs DEF Creating, Creates
<1>2. queue'[DM(p)] = queue[DM(p)] \/ queue'[DM(p)] = Append(queue[DM(p)], r)
  BY <1>1, QueueToSays
<1> QED BY <1>1, <1>2

LEMMA RoomsSync == ASSUME Typed, RoomsInv, SyncChats PROVE RoomsInv'
<1>0. UNCHANGED <<loginID, contacts, status, profile, up, changes, events, work, room>>
  BY DEF SyncChats, serverVars
<1>1. PICK k \in DOMAIN sync : \/ SyncBegins(k) \/ SyncContacts(k)
                              \/ SyncGroups(k) \/ MarkSynced(k)
  BY DEF SyncChats
<1>2. k \in 1 .. MaxSyncs /\ sync[k] \in SyncRec /\ sync \in [1 .. MaxSyncs -> SyncRec]
  BY DEF Typed
<1>3. Resync(~sync[k].reconnect, TRUE) \in Creating
  BY <1>2 DEF Resync, Creating, ResyncRec, SyncRec
<1>4. CASE SyncBegins(k)
  <2>1. sync'[k].at = "contacts" /\ UNCHANGED queue
    BY <1>2, <1>4 DEF SyncBegins
  <2>2. Listing'
    BY <1>2, <2>1 DEF Listing
  <2> QED BY <1>0, <2>1, <2>2 DEF RoomsInv, Creates, RoomsUnderway, Underway
<1>5. CASE SyncContacts(k)
  <2> DEFINE qs == {DM(p) : p \in contacts}
  <2>1. \/ QueueTo(qs, Resync(~sync[k].reconnect, TRUE))
        \/ UNCHANGED queue /\ ~up
    BY <1>5 DEF SyncContacts, Enumerate
  <2>2. Creates'
    BY <1>0, <1>3, <2>1, CreatesQueue DEF RoomsInv, Creates
  <2>3. ASSUME up, NEW p \in contacts PROVE Underway(p)'
    <3>1. DM(p) \in Portals /\ DM(p) \in qs
      BY PortalIDs DEF Typed
    <3>2. queue'[DM(p)] # << >>
      BY <1>3, <2>1, <2>3, <3>1, QueueToSays DEF Creating
    <3> QED BY <3>2 DEF Underway
  <2> QED BY <1>0, <2>2, <2>3 DEF RoomsInv, RoomsUnderway
<1>6. CASE SyncGroups(k) \/ MarkSynced(k)
  <2>1. /\ missed \subseteq missed'
        /\ QueueTo({Group}, Resync(~sync[k].reconnect, TRUE)) \/ UNCHANGED queue
    BY <1>6 DEF SyncGroups, MarkSynced, Enumerate
  <2>2. ASSUME NEW p \in People PROVE queue'[DM(p)] = queue[DM(p)]
    <3>1. DM(p) \in Portals \ {Group}
      BY PortalIDs
    <3>2. Resync(~sync[k].reconnect, TRUE) \in ResyncRec
      BY <1>3 DEF Creating
    <3> QED BY <2>1, <3>1, <3>2, QueueToSays
  <2>3. Creates'
    BY <1>0, <2>2 DEF RoomsInv, Creates
  <2>4. sync[k].at \in {"groups", "mark"} /\ \A j \in 1 .. MaxSyncs : j # k => sync'[j] = sync[j]
    BY <1>2, <1>6 DEF SyncGroups, MarkSynced, At, Goto
  <2>5. Listing => Listing'
    BY <2>4 DEF Listing
  <2>6. ASSUME NEW p \in contacts, Underway(p) PROVE Underway(p)'
    <3>1. p \in People
      BY DEF Typed
    <3> QED BY <1>0, <2>1, <2>2, <2>5, <2>6, <3>1 DEF Underway
  <2> QED BY <1>0, <2>3, <2>6 DEF RoomsInv, RoomsUnderway
<1> QED BY <1>1, <1>4, <1>5, <1>6

LEMMA RoomsEvent == ASSUME Typed, RoomsInv, HandleSimplexEvent PROVE RoomsInv'
<1>0. UNCHANGED <<loginID, status, profile, up, changes, synced, sync, work, room, lookup>>
  BY DEF HandleSimplexEvent
<1>1. Resync(TRUE, FALSE) \in ResyncRec /\ Resync(TRUE, TRUE) \in Creating /\ events \in Seq(EventRec)
  BY DEF Resync, ResyncRec, Creating, Typed
<1>2. ASSUME NEW p \in contacts, Underway(p), events # << >>, events' = Tail(events),
             UNCHANGED missed, \A q \in Portals : queue[q] # << >> => queue'[q] # << >>,
             Head(events) \in Announcing(p) => queue'[DM(p)] # << >>
      PROVE  Underway(p)'
  <2>1. Has(events, Announcing(p)) =>
           Has(events', Announcing(p)) \/ Head(events) \in Announcing(p)
    BY <1>1, <1>2, HasOfTail
  <2>2. DM(p) \in Portals
    BY PortalIDs DEF Typed
  <2> QED BY <1>0, <1>2, <2>1, <2>2 DEF Underway, Listing
<1>3. CASE HandleGroupEvent
  <2>1. /\ Take({"joinedGroupMember", "leftMember", "groupUpdated"})
        /\ QueueTo({Group}, Resync(TRUE, FALSE)) /\ UNCHANGED <<contacts, missed>>
    BY <1>3 DEF HandleGroupEvent
  <2>2. ASSUME NEW p \in People PROVE queue'[DM(p)] = queue[DM(p)]
    <3>1. DM(p) \in Portals \ {Group}
      BY PortalIDs
    <3> QED BY <1>1, <2>1, <3>1, QueueToSays
  <2>3. Creates'
    BY <1>0, <2>2 DEF RoomsInv, Creates
  <2>4. ASSUME NEW p \in contacts, Underway(p) PROVE Underway(p)'
    <3>1. Head(events) \notin Announcing(p)
      BY <2>1 DEF Take, Announcing
    <3>2. \A q \in Portals : queue[q] # << >> => queue'[q] # << >>
      BY <1>1, <2>1, QueueToSays
    <3> QED BY <1>2, <2>1, <2>4, <3>1, <3>2 DEF Take
  <2> QED BY <1>0, <2>1, <2>3, <2>4 DEF RoomsInv, RoomsUnderway
<1>4. CASE HandleContactConnected
  <2>1. /\ Take({"contactConnected"})
        /\ QueueTo({DM(Who)}, Resync(TRUE, TRUE)) /\ UNCHANGED <<contacts, missed>>
    BY <1>4 DEF HandleContactConnected
  <2>2. Creates'
    BY <1>0, <1>1, <2>1, CreatesQueue DEF RoomsInv
  <2>3. ASSUME NEW p \in contacts, Underway(p) PROVE Underway(p)'
    <3>1. Head(events) \in Announcing(p) => queue'[DM(p)] # << >>
      <4>1. DM(p) \in Portals
        BY PortalIDs DEF Typed
      <4> QED BY <1>1, <2>1, <4>1, QueueToSays DEF Announcing, Who, Creating
    <3>2. \A q \in Portals : queue[q] # << >> => queue'[q] # << >>
      BY <1>1, <2>1, QueueToSays DEF Creating
    <3> QED BY <1>2, <2>1, <2>3, <3>1, <3>2 DEF Take
  <2> QED BY <1>0, <2>1, <2>2, <2>3 DEF RoomsInv, RoomsUnderway
<1>5. CASE HandleReceivedContactRequest
  <2>1. Take({"receivedContactRequest"}) /\ UNCHANGED missed
    BY <1>5 DEF HandleReceivedContactRequest
  <2>2. Who \in People
    BY <2>1, TakeTyped DEF OfPeople, ContactTypes, Who
  <2>3. CASE up
    <3>1. contacts' = contacts \union {Who} /\ QueueTo({DM(Who)}, Resync(TRUE, TRUE))
      BY <1>5, <2>3 DEF HandleReceivedContactRequest
    <3>2. Creates'
      BY <1>0, <1>1, <3>1, CreatesQueue DEF RoomsInv
    <3>3. \A q \in Portals : queue[q] # << >> => queue'[q] # << >>
      BY <1>1, <3>1, QueueToSays DEF Creating
    <3>4. queue'[DM(Who)] # << >>
      <4>1. DM(Who) \in Portals
        BY <2>2, PortalIDs
      <4> QED BY <1>1, <3>1, <4>1, QueueToSays DEF Creating
    <3>5. ASSUME NEW p \in contacts PROVE Underway(p)'
      <4>1. Underway(p) /\ Head(events) \notin Announcing(p)
        BY <2>1, <2>3 DEF RoomsInv, RoomsUnderway, Take, Announcing
      <4> QED BY <1>2, <2>1, <3>3, <4>1 DEF Take
    <3>6. ASSUME NEW p \in People, p = Who PROVE Underway(p)'
      BY <3>4, <3>6 DEF Underway
    <3>7. \A p \in contacts' : p \in contacts \/ p = Who
      BY <3>1
    <3>8. \A p \in contacts' : p \in People
      BY <2>2, <3>1 DEF Typed
    <3> QED BY <3>2, <3>5, <3>6, <3>7, <3>8 DEF RoomsInv, RoomsUnderway
  <2>4. CASE ~up
    <3>1. UNCHANGED queue
      BY <1>5, <2>4 DEF HandleReceivedContactRequest
    <3> QED BY <1>0, <2>4, <3>1 DEF RoomsInv, Creates, RoomsUnderway
  <2> QED BY <2>3, <2>4
<1>6. CASE HandleContactUpdated
  <2>1. Take({"contactUpdated"}) /\ UNCHANGED <<contacts, queue, missed>>
    BY <1>6 DEF HandleContactUpdated
  <2>2. Creates'
    BY <1>0, <2>1 DEF RoomsInv, Creates
  <2>3. ASSUME NEW p \in contacts, Underway(p) PROVE Underway(p)'
    <3>1. Head(events) \notin Announcing(p)
      BY <2>1 DEF Take, Announcing
    <3> QED BY <1>2, <2>1, <2>3, <3>1 DEF Take
  <2> QED BY <1>0, <2>1, <2>2, <2>3 DEF RoomsInv, RoomsUnderway
<1> QED BY <1>3, <1>4, <1>5, <1>6 DEF HandleSimplexEvent

LEMMA RoomsPortal == ASSUME Typed, RoomsInv, Portal PROVE RoomsInv'
<1>0. /\ UNCHANGED <<loginID, contacts, up, events, sync>> /\ contacts \subseteq People
      /\ queue \in [Portals -> Seq(ResyncRec)] /\ work \in [Portals -> WorkRec]
      /\ room \in [Portals -> RoomRec]
  BY DEF Portal, serverVars, bridgeVars, Typed
<1>1. CASE ReadMembers
  <2>1. \A p \in People : /\ work'[DM(p)] = work[DM(p)]
                          /\ queue'[DM(p)] = queue[DM(p)] /\ room'[DM(p)] = room[DM(p)]
    BY <1>0, <1>1, ReadMembersSays, PortalIDs
  <2>2. missed \subseteq missed'
    BY <1>1, ReadMembersSays
  <2> QED BY <1>0, <2>1, <2>2 DEF RoomsInv, Creates, RoomsUnderway, Underway, Listing
<1>2. ASSUME NEW q \in Portals, ReadChat(q) PROVE RoomsInv'
  <2>0. /\ queue' = [queue EXCEPT ![q] = Tail(@)] /\ queue[q] # << >> /\ UNCHANGED room
        /\ work' = work \/ \E w \in WorkRec : /\ work' = [work EXCEPT ![q] = w]
                                              /\ w.at = "members" => q = Group
        /\ missed' \in {missed, missed \union {q}, missed \ {q}}
    <3>1. UNCHANGED room
      BY <1>2 DEF ReadChat
    <3>2. queue' = [queue EXCEPT ![q] = Tail(@)] /\ queue[q] # << >>
      BY <1>2, ReadChatSays
    <3>3. work' = work \/ \E w \in WorkRec : /\ work' = [work EXCEPT ![q] = w]
                                             /\ w.at = "members" => q = Group
      <4>1. work' = work \/ \E w \in WorkRec : work' = [work EXCEPT ![q] = w] /\ ReadFrom(q, w)
        BY <1>2, ReadChatSays
      <4>2. ASSUME NEW w, ReadFrom(q, w) PROVE w.at = "members" => q = Group
        BY <4>2 DEF ReadFrom
      <4> QED BY <4>1, <4>2
    <3>4. missed' \in {missed, missed \union {q}, missed \ {q}}
      BY <1>2, ReadChatSays
    <3> QED BY <3>1, <3>2, <3>3, <3>4
  <2>1. Creates'
    <3> SUFFICES ASSUME NEW p \in People
                 PROVE  queue'[DM(p)] \in Seq(Creating) /\ work'[DM(p)].at # "members"
      BY DEF Creates
    <3>1. DM(p) \in Portals /\ DM(p) # Group /\ queue[DM(p)] \in Seq(Creating)
          /\ work[DM(p)].at # "members"
      BY PortalIDs DEF RoomsInv, Creates
    <3>2. work'[DM(p)].at # "members"
      BY <1>0, <2>0, <3>1
    <3>3. queue'[DM(p)] = queue[DM(p)] \/ (queue[DM(p)] # << >> /\ queue'[DM(p)] = Tail(queue[DM(p)]))
      BY <1>0, <2>0, <3>1
    <3>4. queue[DM(p)] # << >> => Tail(queue[DM(p)]) \in Seq(Creating)
      BY <3>1
    <3> QED BY <3>1, <3>2, <3>3, <3>4
  <2>2. ASSUME NEW p \in contacts, DM(p) # q, Underway(p) PROVE Underway(p)'
    <3>1. DM(p) \in Portals
      BY <1>0, PortalIDs
    <3>2. /\ queue'[DM(p)] = queue[DM(p)] /\ work'[DM(p)] = work[DM(p)]
          /\ DM(p) \in missed => DM(p) \in missed'
      BY <1>0, <2>0, <2>2, <3>1
    <3> QED BY <1>0, <2>0, <2>2, <3>2 DEF Underway, Listing
  <2>3. ASSUME up, NEW p \in contacts, DM(p) = q PROVE Underway(p)'
    <3>1. p \in People /\ q # Group
      BY <1>0, <2>3, PortalIDs
    <3>2. Head(queue[q]).create
      <4>1. queue[q] \in Seq(Creating)
        BY <2>3, <3>1 DEF RoomsInv, Creates
      <4> QED BY <2>0, <4>1 DEF Creating
    <3>3. \E w \in WorkRec : work' = [work EXCEPT ![q] = w] /\ w.at = "apply"
      <4>1. \E w \in WorkRec : work' = [work EXCEPT ![q] = w] /\ ReadFrom(q, w)
        BY <1>2, <2>3, <3>2, ReadChatSays
      <4> QED BY <3>1, <4>1 DEF ReadFrom
    <3>4. work'[DM(p)].at = "apply"
      BY <1>0, <2>3, <3>3
    <3> QED BY <3>4 DEF Underway
  <2> QED BY <1>0, <2>1, <2>2, <2>3 DEF RoomsInv, RoomsUnderway
<1>3. ASSUME NEW q \in Portals, Apply(q) PROVE RoomsInv'
  <2>1. /\ work' = [work EXCEPT ![q] = Idle] /\ UNCHANGED <<queue, missed>>
        /\ \E c \in RoomRec : room' = [room EXCEPT ![q] = c] /\ c.exists
    BY <1>3, ApplySays
  <2>2. Creates'
    <3> SUFFICES ASSUME NEW p \in People PROVE work'[DM(p)].at # "members"
      BY <2>1 DEF RoomsInv, Creates
    <3> QED BY <1>0, <2>1, IdleIsWork, PortalIDs DEF RoomsInv, Creates
  <2>3. ASSUME NEW p \in contacts, Underway(p) PROVE Underway(p)'
    <3>1. DM(p) \in Portals
      BY <1>0, PortalIDs
    <3>2. CASE DM(p) = q
      BY <1>0, <2>1, <3>1, <3>2 DEF Underway
    <3>3. CASE DM(p) # q
      <4>1. work'[DM(p)] = work[DM(p)] /\ room'[DM(p)] = room[DM(p)]
        BY <1>0, <2>1, <3>1, <3>3
      <4> QED BY <1>0, <2>1, <2>3, <4>1 DEF Underway, Listing
    <3> QED BY <3>2, <3>3
  <2> QED BY <1>0, <2>2, <2>3 DEF RoomsInv, RoomsUnderway
<1> QED BY <1>1, <1>2, <1>3 DEF Portal

LEMMA RoomsNext == Typed /\ RoomsInv /\ [Next]_vars => RoomsInv'
<1> SUFFICES ASSUME Typed, RoomsInv, [Next]_vars PROVE RoomsInv'
  OBVIOUS
<1>1. CASE GetUserInfo
  BY <1>1 DEF GetUserInfo, serverVars, bridgeVars, historyVars, RoomsInv, Creates,
              RoomsUnderway, Underway, Listing
<1>2. CASE UNCHANGED vars
  BY <1>2 DEF vars, serverVars, bridgeVars, historyVars, RoomsInv, Creates,
              RoomsUnderway, Underway, Listing
<1> QED BY <1>1, <1>2, RoomsServer, RoomsConnection, RoomsSync, RoomsEvent, RoomsPortal DEF Next

LEMMA RoomsInit == Init => RoomsInv
<1> SUFFICES ASSUME Init PROVE RoomsInv
  OBVIOUS
<1>1. \A p \in People : queue[DM(p)] = << >> /\ work[DM(p)] = Idle
  BY PortalIDs DEF Init
<1>2. Creates
  <2>1. << >> \in Seq(Creating)
    OBVIOUS
  <2> QED BY <1>1, <2>1, IdleIsWork DEF Creates
<1>3. 1 \in 1 .. MaxSyncs /\ sync[1].at = "begin"
  BY ChatSyncAssumption DEF ChatSyncAssumption, Init
<1> QED BY <1>2, <1>3 DEF RoomsInv, RoomsUnderway, Underway, Listing

(* Every contact ends up with a room, whether it is found by a sync or      *)
(* announced by an event, over any number of restarts and connections:      *)
(* whoever becomes a contact is always on the way to a room.                *)
THEOREM ContactsGetRooms == Spec => []ContactsHaveRooms
<1>1. Typed /\ RoomsInv => ContactsHaveRooms
  <2> SUFFICES ASSUME Typed, RoomsInv, Quiet, NEW p \in contacts
               PROVE  DM(p) \in missed \/ room[DM(p)].exists
    BY DEF ContactsHaveRooms
  <2>1. DM(p) \in Portals
    BY PortalIDs DEF Typed
  <2>2. queue[DM(p)] = << >> /\ work[DM(p)].at = "idle" /\ events = << >>
    BY <2>1, IdleIsWork DEF Quiet
  <2>3. ~Has(events, Announcing(p))
    BY <2>2, HasOfEmpty
  <2>4. ~Listing
    BY DEF Quiet, Listing, Typed
  <2> QED BY <2>2, <2>3, <2>4 DEF RoomsInv, RoomsUnderway, Underway, Quiet
<1> QED BY <1>1, RoomsInit, RoomsNext, AlwaysTyped, PTL DEF Spec

-----------------------------------------------------------------------------
(* Ghosts keep up.                                                          *)

(* The last element of s that is in A has version n.                        *)
Final(s, A, n) ==
    \E j \in 1 .. Len(s) : /\ s[j] \in A /\ s[j].ver = n
                           /\ \A k \in j + 1 .. Len(s) : s[k] \notin A

LEMMA FinalOfAppend ==
    ASSUME NEW S, NEW s \in Seq(S), NEW e \in S, NEW A, NEW n
    PROVE  /\ e \in A => Final(Append(s, e), A, e.ver)
           /\ e \notin A /\ Final(s, A, n) => Final(Append(s, e), A, n)
<1> DEFINE t == Append(s, e)
<1>1. /\ Len(s) \in Nat /\ Len(t) = Len(s) + 1 /\ t[Len(s) + 1] = e
      /\ \A j \in 1 .. Len(s) : t[j] = s[j]
  OBVIOUS
<1> HIDE DEF t
<1>2. ASSUME e \in A PROVE Final(t, A, e.ver)
  <2>1. Len(t) \in 1 .. Len(t) /\ t[Len(t)] = e
    BY <1>1
  <2>2. \A k \in Len(t) + 1 .. Len(t) : t[k] \notin A
    BY <1>1
  <2> QED BY <1>2, <2>1, <2>2 DEF Final
<1>3. ASSUME e \notin A, Final(s, A, n) PROVE Final(t, A, n)
  <2>1. PICK j \in 1 .. Len(s) : /\ s[j] \in A /\ s[j].ver = n
                                 /\ \A k \in j + 1 .. Len(s) : s[k] \notin A
    BY <1>3 DEF Final
  <2>2. j \in 1 .. Len(t) /\ t[j] \in A /\ t[j].ver = n
    BY <1>1, <2>1
  <2>3. ASSUME NEW k \in j + 1 .. Len(t) PROVE t[k] \notin A
    BY <1>1, <1>3, <2>1
  <2> QED BY <2>2, <2>3 DEF Final
<1> QED BY <1>2, <1>3 DEF t

LEMMA FinalOfTail ==
    ASSUME NEW S, NEW s \in Seq(S), s # << >>, NEW A, NEW n, Final(s, A, n)
    PROVE  \/ Final(Tail(s), A, n)
           \/ Head(s) \in A /\ Head(s).ver = n /\ ~Has(Tail(s), A)
<1> DEFINE t == Tail(s)
<1>1. /\ Len(s) \in Nat \ {0} /\ Len(t) = Len(s) - 1 /\ s[1] = Head(s)
      /\ \A j \in 1 .. Len(t) : t[j] = s[j + 1]
  OBVIOUS
<1> HIDE DEF t
<1>2. PICK j \in 1 .. Len(s) : /\ s[j] \in A /\ s[j].ver = n
                               /\ \A k \in j + 1 .. Len(s) : s[k] \notin A
  BY DEF Final
<1>3. CASE j = 1
  <2>1. \A k \in 1 .. Len(t) : t[k] \notin A
    BY <1>1, <1>2, <1>3
  <2> QED BY <1>1, <1>2, <1>3, <2>1 DEF Has, t
<1>4. CASE j # 1
  <2>1. j - 1 \in 1 .. Len(t) /\ t[j - 1] = s[j]
    BY <1>1, <1>4
  <2>2. \A k \in (j - 1) + 1 .. Len(t) : t[k] \notin A
    BY <1>1, <1>2
  <2>3. Final(t, A, n)
    BY <1>2, <2>1, <2>2 DEF Final
  <2> QED BY <2>3 DEF t
<1> QED BY <1>3, <1>4

(* The updates of a contact's profile that are still to be handled, and the *)
(* profiles that were read and are not shown yet.                           *)
Updates(p) == {e \in EventRec : e.type = "contactUpdated" /\ e.who = p}

OnTheWay == {i \in UserInfos : \/ i = lookup /\ i # NoLookup
                               \/ \E q \in Portals : i \in work[q].infos}

(* A profile on the way is not newer than its owner's.                      *)
Dated == \A i \in OnTheWay :
            i.ver # 0 /\ \A p \in People : i.uid = UID(p) => i.ver <= profile[p]

(* Nothing is known of somebody who is no contact.                          *)
Stranger(p) ==
    /\ ~Has(events, Announcing(p)) /\ ~Has(events, Updates(p))
    /\ queue[DM(p)] = << >> /\ ghost[UID(p)] = 0
    /\ \A i \in OnTheWay : i.uid # UID(p)

Current(p) ==
    /\ ghost[UID(p)] \in {0, profile[p]}
    /\ \A i \in OnTheWay : i.uid = UID(p) => i.ver = profile[p]

(* The last update on the way is that of the profile as it is; or there is  *)
(* none, and all that is shown or about to be is the profile as it is.      *)
Follows(p) ==
    \/ Final(events, Updates(p), profile[p])
    \/ ~Has(events, Updates(p)) /\ Current(p)

Strangers == \A p \in People \ contacts : Stranger(p)
Following == \A p \in contacts \ behind : Follows(p)

GhostsInv == Dated /\ Strangers /\ Following

LEMMA StrangerFollows == ASSUME NEW p \in People, Stranger(p) PROVE Follows(p)
BY DEF Stranger, Follows, Current

(* Profiles are read as they are, and those of contacts alone under their   *)
(* own name; they are shown as they were read.                              *)
Fresh(i) == i.ver # 0 /\ \A p \in People : i.uid = UID(p) => p \in contacts /\ i.ver = profile[p]

LEMMA InfoFresh ==
    ASSUME Typed, NEW p \in People
    PROVE  /\ Fresh(Info(MemberID(p), p))
           /\ p \in contacts => Fresh(Info(UID(p), p))
<1>1. profile[p] # 0 /\ p \in People
  BY DEF Typed
<1>2. ASSUME NEW i, i.ver = profile[p], i.uid = MemberID(p) PROVE Fresh(i)
  BY <1>1, <1>2, MemberIDs DEF Fresh
<1>3. ASSUME NEW i, i.ver = profile[p], i.uid = UID(p), p \in contacts PROVE Fresh(i)
  BY <1>1, <1>3, MemberIDs DEF Fresh
<1> QED BY <1>2, <1>3, InfoTyped

(* A step that reads and shows profiles.                                    *)
LEMMA GhostsShow ==
    ASSUME Typed, GhostsInv, UNCHANGED <<contacts, profile, events, behind>>,
           \A p \in People : queue'[DM(p)] # << >> => queue[DM(p)] # << >>,
           \A i \in OnTheWay' : i \in OnTheWay \/ Fresh(i),
           \A u \in UserIDs : \/ ghost'[u] = ghost[u]
                              \/ \E i \in OnTheWay : i.uid = u /\ ghost'[u] = i.ver
    PROVE  GhostsInv'
<1>1. Dated'
  <2> SUFFICES ASSUME NEW i \in OnTheWay'
               PROVE  i.ver # 0 /\ \A p \in People : i.uid = UID(p) => i.ver <= profile[p]
    BY DEF Dated, UID
  <2>1. \A p \in People : profile[p] \in Nat
    BY DEF Typed
  <2> QED BY <2>1 DEF GhostsInv, Dated, Fresh
<1>2. Strangers'
  <2> SUFFICES ASSUME NEW p \in People \ contacts PROVE Stranger(p)'
    BY DEF Strangers
  <2>1. Stranger(p)
    BY DEF GhostsInv, Strangers
  <2>2. ghost'[UID(p)] = 0
    BY <2>1, MemberIDs DEF Stranger
  <2>3. \A i \in OnTheWay' : i.uid # UID(p)
    BY <2>1 DEF Stranger, Fresh
  <2>4. queue'[DM(p)] = << >>
    BY <2>1 DEF Stranger
  <2> QED BY <2>1, <2>2, <2>3, <2>4 DEF Stranger, UID
<1>3. Following'
  <2> SUFFICES ASSUME NEW p \in contacts \ behind PROVE Follows(p)'
    BY DEF Following
  <2>1. Follows(p) /\ p \in People
    BY DEF GhostsInv, Following, Typed
  <2>2. CASE Final(events, Updates(p), profile[p])
    BY <2>2 DEF Follows
  <2>3. CASE ~Has(events, Updates(p)) /\ Current(p)
    <3>1. ghost'[UID(p)] \in {0, profile[p]}
      BY <2>1, <2>3, MemberIDs DEF Current
    <3>2. \A i \in OnTheWay' : i.uid = UID(p) => i.ver = profile[p]
      BY <2>1, <2>3 DEF Current, Fresh
    <3> QED BY <2>3, <3>1, <3>2 DEF Follows, Current, UID
  <2> QED BY <2>1, <2>2, <2>3 DEF Follows
<1> QED BY <1>1, <1>2, <1>3 DEF GhostsInv

LEMMA GhostsPortal == ASSUME Typed, GhostsInv, Portal PROVE GhostsInv'
<1>0. /\ UNCHANGED <<contacts, profile, events, behind, lookup>>
      /\ work \in [Portals -> WorkRec] /\ queue \in [Portals -> Seq(ResyncRec)]
  BY DEF Portal, serverVars, bridgeVars, Typed
<1> DEFINE Reads == \A i \in OnTheWay' : i \in OnTheWay \/ Fresh(i)
           Keeps == \A p \in People : queue'[DM(p)] # << >> => queue[DM(p)] # << >>
           Shows == \A u \in UserIDs : \/ ghost'[u] = ghost[u]
                                       \/ \E i \in OnTheWay : i.uid = u /\ ghost'[u] = i.ver
<1>1. ASSUME NEW q \in Portals, NEW w \in WorkRec, work' = [work EXCEPT ![q] = w],
             \A i \in w.infos : i \in OnTheWay \/ Fresh(i)
      PROVE  Reads
  <2> SUFFICES ASSUME NEW i \in OnTheWay' PROVE i \in OnTheWay \/ Fresh(i)
    OBVIOUS
  <2>1. i \in UserInfos /\ ((i = lookup /\ i # NoLookup) \/ \E r \in Portals : i \in work'[r].infos)
    BY <1>0 DEF OnTheWay
  <2>2. CASE i = lookup /\ i # NoLookup
    BY <2>1, <2>2 DEF OnTheWay
  <2>3. ASSUME NEW r \in Portals, i \in work'[r].infos PROVE i \in OnTheWay \/ Fresh(i)
    <3>1. CASE r = q
      BY <1>0, <1>1, <2>3, <3>1
    <3>2. CASE r # q
      <4>1. i \in work[r].infos
        BY <1>0, <1>1, <2>3, <3>2
      <4> QED BY <2>1, <4>1 DEF OnTheWay
    <3> QED BY <3>1, <3>2
  <2> QED BY <2>1, <2>2, <2>3
<1>2. ASSUME UNCHANGED work PROVE Reads
  BY <1>0, <1>2 DEF OnTheWay
<1>3. ASSUME ReadMembers PROVE Reads /\ Keeps /\ Shows
  <2>1. UNCHANGED <<queue, ghost>>
    BY <1>3, ReadMembersSays
  <2>2. \E w \in WorkRec : /\ work' = [work EXCEPT ![Group] = w]
                           /\ \A i \in w.infos : i \in OnTheWay \/ Fresh(i)
    <3>1. CASE ~up
      BY <1>3, <3>1, ReadMembersSays, IdleIsWork
    <3>2. CASE up
      <4>1. PICK w \in WorkRec :
               /\ work' = [work EXCEPT ![Group] = w]
               /\ w.infos = IF w.full THEN {Info(MemberID(p), p) : p \in GroupMembers} ELSE {}
        BY <1>3, <3>2, ReadMembersSays
      <4>2. \A i \in w.infos : \E p \in People : i = Info(MemberID(p), p)
        BY <4>1 DEF GroupMembers
      <4>3. \A i \in w.infos : Fresh(i)
        BY <4>2, InfoFresh
      <4> QED BY <4>1, <4>3
    <3> QED BY <3>1, <3>2
  <2>3. Reads
    BY <1>1, <2>2, PortalIDs
  <2> QED BY <2>1, <2>3
<1>4. ASSUME NEW q \in Portals, ReadChat(q) PROVE Reads /\ Keeps /\ Shows
  <2>1. UNCHANGED ghost /\ queue' = [queue EXCEPT ![q] = Tail(@)] /\ queue[q] # << >>
    BY <1>4, ReadChatSays
  <2>2. Keeps
    BY <1>0, <2>1, PortalIDs
  <2>3. CASE UNCHANGED work
    BY <1>2, <2>1, <2>2, <2>3
  <2>4. ASSUME NEW w \in WorkRec, work' = [work EXCEPT ![q] = w], ReadFrom(q, w)
        PROVE  Reads
    <3>1. \A i \in w.infos : \E p \in People : q = DM(p) /\ i = Info(UID(p), p)
      BY <2>4 DEF ReadFrom
    <3>2. \A p \in People : q = DM(p) => p \in contacts
      BY <2>1 DEF GhostsInv, Strangers, Stranger
    <3>3. \A i \in w.infos : Fresh(i)
      BY <3>1, <3>2, InfoFresh
    <3> QED BY <1>1, <2>4, <3>3
  <2> QED BY <1>4, <2>1, <2>2, <2>3, <2>4, ReadChatSays
<1>5. ASSUME NEW q \in Portals, Apply(q) PROVE Reads /\ Keeps /\ Shows
  <2>1. work' = [work EXCEPT ![q] = Idle] /\ UNCHANGED queue
    BY <1>5, ApplySays
  <2>2. Reads
    BY <1>1, <2>1, IdleIsWork
  <2>3. \A u \in UserIDs : \/ ghost'[u] = ghost[u]
                           \/ \E i \in Shown(q) : i.uid = u /\ ghost'[u] = i.ver
    BY <1>5, ApplySays
  <2>4. \A i \in Shown(q) : i \in OnTheWay
    BY <1>0 DEF Shown, OnTheWay, WorkRec
  <2> QED BY <2>1, <2>2, <2>3, <2>4
<1>6. Reads /\ Keeps /\ Shows
  BY <1>3, <1>4, <1>5 DEF Portal
<1> QED BY <1>0, <1>6, GhostsShow

LEMMA GhostsGetUserInfo == ASSUME Typed, GhostsInv, GetUserInfo PROVE GhostsInv'
<1>0. UNCHANGED <<contacts, profile, events, behind, work, queue>> /\ ghost \in [UserIDs -> Nat]
  BY DEF GetUserInfo, serverVars, bridgeVars, historyVars, Typed
<1>1. CASE LookedUp
  <2>1. lookup \in OnTheWay
    BY <1>1 DEF LookedUp, OnTheWay, Typed
  <2>2. /\ ghost' = [ghost EXCEPT ![lookup.uid] = lookup.ver] /\ lookup' = NoLookup
    BY <1>1 DEF LookedUp
  <2>3. \A i \in OnTheWay' : i \in OnTheWay
    BY <1>0, <2>2 DEF OnTheWay
  <2>4. \A u \in UserIDs : \/ ghost'[u] = ghost[u]
                           \/ \E i \in OnTheWay : i.uid = u /\ ghost'[u] = i.ver
    BY <1>0, <2>1, <2>2
  <2> QED BY <1>0, <2>3, <2>4, GhostsShow
<1>2. ASSUME NEW p \in People, LooksUp(p) PROVE GhostsInv'
  <2>1. lookup' = Info(MemberID(p), p) /\ UNCHANGED ghost
    BY <1>2 DEF LooksUp
  <2>2. \A i \in OnTheWay' : i \in OnTheWay \/ i = lookup'
    BY <1>0 DEF OnTheWay
  <2>3. \A i \in OnTheWay' : i \in OnTheWay \/ Fresh(i)
    BY <2>1, <2>2, InfoFresh
  <2> QED BY <1>0, <2>1, <2>3, GhostsShow
<1> QED BY <1>1, <1>2 DEF GetUserInfo

LEMMA GhostsConnection ==
    ASSUME Typed, GhostsInv, Disconnects \/ Reconnects \/ Restarts
    PROVE  GhostsInv'
<1>1. CASE Disconnects \/ Reconnects
  <2>1. UNCHANGED <<contacts, profile, events, behind, work, queue, ghost, lookup>>
    BY <1>1 DEF Disconnects, Reconnects, bridgeVars, historyVars
  <2>2. OnTheWay' = OnTheWay
    BY <2>1 DEF OnTheWay
  <2> QED BY <2>1, <2>2, GhostsShow
<1>2. CASE Restarts
  <2>1. /\ events' = << >> /\ lookup' = NoLookup /\ UNCHANGED <<contacts, profile, ghost>>
        /\ \A q \in Portals : queue'[q] = << >> /\ work'[q] = Idle
        /\ behind' = behind \union {p \in People : \E j \in DOMAIN events :
                                   events[j].type = "contactUpdated" /\ events[j].who = p}
    BY <1>2 DEF Restarts
  <2>2. \A i : i \notin OnTheWay'
    BY <2>1, IdleIsWork DEF OnTheWay
  <2>3. Dated'
    BY <2>2 DEF Dated
  <2>4. \A A : ~Has(events', A)
    BY <2>1, HasOfEmpty
  <2>5. ASSUME NEW p \in People \ contacts PROVE Stranger(p)'
    <3>1. ghost[UID(p)] = 0
      BY DEF GhostsInv, Strangers, Stranger
    <3>2. ghost'[UID(p)] = 0
      BY <2>1, <3>1
    <3> QED BY <2>1, <2>2, <2>4, <3>2, PortalIDs DEF Stranger, UID
  <2>6. ASSUME NEW p \in contacts \ behind' PROVE Follows(p)'
    <3>1. p \in contacts \ behind /\ p \in People
      BY <2>1 DEF Typed
    <3>2. ~Has(events, Updates(p))
      <4>1. events \in Seq(EventRec)
        BY DEF Typed
      <4>2. \A j \in 1 .. Len(events) : ~(events[j].type = "contactUpdated" /\ events[j].who = p)
        BY <2>1, <3>1, <4>1
      <4> QED BY <4>2 DEF Has, Updates
    <3>3. ~Final(events, Updates(p), profile[p])
      BY <3>2 DEF Has, Final
    <3>4. ghost[UID(p)] \in {0, profile[p]}
      BY <3>1, <3>3 DEF GhostsInv, Following, Follows, Current
    <3> QED BY <2>1, <2>2, <2>4, <3>4 DEF Follows, Current, UID
  <2> QED BY <2>1, <2>3, <2>5, <2>6 DEF GhostsInv, Strangers, Following
<1> QED BY <1>1, <1>2

LEMMA GhostsSync == ASSUME Typed, GhostsInv, SyncChats PROVE GhostsInv'
<1>1. UNCHANGED <<contacts, profile, events, behind, work, ghost, lookup>>
  BY DEF SyncChats, serverVars
<1>2. OnTheWay' = OnTheWay
  BY <1>1 DEF OnTheWay
<1>3. ASSUME NEW p \in People, p \notin contacts PROVE queue'[DM(p)] = queue[DM(p)]
  <2>1. PICK k \in DOMAIN sync : \/ SyncBegins(k) \/ SyncContacts(k)
                                \/ SyncGroups(k) \/ MarkSynced(k)
    BY DEF SyncChats
  <2> DEFINE r == Resync(~sync[k].reconnect, TRUE)
  <2>2. r \in ResyncRec
    <3>1. sync[k] \in SyncRec
      BY DEF Typed
    <3> QED BY <3>1 DEF Resync, ResyncRec, SyncRec
  <2>3. \/ UNCHANGED queue \/ QueueTo({Group}, r) \/ QueueTo({DM(c) : c \in contacts}, r)
    BY <2>1 DEF SyncBegins, SyncContacts, SyncGroups, MarkSynced, Enumerate
  <2>4. DM(p) \in Portals /\ DM(p) \notin {Group} /\ DM(p) \notin {DM(c) : c \in contacts}
    BY <1>3, PortalIDs DEF Typed
  <2> HIDE DEF r
  <2> QED BY <2>2, <2>3, <2>4, QueueToSays
<1>4. Dated' /\ Following'
  BY <1>1, <1>2 DEF GhostsInv, Dated, Following, Follows, Current, UID
<1>5. Strangers'
  BY <1>1, <1>2, <1>3 DEF GhostsInv, Strangers, Stranger, UID
<1> QED BY <1>4, <1>5 DEF GhostsInv

(* Everything that a contact's event changes of what another one's shows.   *)
LEMMA GhostsPop ==
    ASSUME Typed, GhostsInv, NEW p \in People, events # << >>, events' = Tail(events),
           UNCHANGED <<profile, work, lookup>>, ghost'[UID(p)] = ghost[UID(p)],
           Head(events) \notin Updates(p)
    PROVE  /\ Stranger(p) /\ queue'[DM(p)] = << >> => Stranger(p)'
           /\ Follows(p) => Follows(p)'
<1>1. events \in Seq(EventRec) /\ OnTheWay' = OnTheWay
  BY DEF Typed, OnTheWay
<1>2. /\ Has(events', Announcing(p)) => Has(events, Announcing(p))
      /\ Has(events', Updates(p)) => Has(events, Updates(p))
  BY <1>1, HasOfTail
<1>3. Final(events, Updates(p), profile[p]) => Final(events', Updates(p), profile[p])
  BY <1>1, FinalOfTail
<1>4. Stranger(p) /\ queue'[DM(p)] = << >> => Stranger(p)'
  BY <1>1, <1>2 DEF Stranger, UID
<1>5. Follows(p) => Follows(p)'
  BY <1>1, <1>2, <1>3 DEF Follows, Current, UID
<1> QED BY <1>4, <1>5

LEMMA GhostsUpdated == ASSUME Typed, GhostsInv, HandleContactUpdated,
                              UNCHANGED <<profile, work, lookup>>
                       PROVE  GhostsInv'
<1> DEFINE e == Head(events)
<1>1. /\ events \in Seq(EventRec) /\ events # << >> /\ events' = Tail(events) /\ e \in EventRec
      /\ e.type = "contactUpdated" /\ e.who \in People
      /\ UNCHANGED <<contacts, queue>>
      /\ ghost' = [ghost EXCEPT ![UID(e.who)] = e.ver]
      /\ behind' = IF Overtakes(e.who, e.ver) THEN behind \union {e.who} ELSE behind
      /\ ghost \in [UserIDs -> Nat] /\ profile \in [People \union {Group} -> Nat \ {0}]
  BY TakeTyped DEF HandleContactUpdated, OfPeople, ContactTypes, Who, Typed, UID
<1> HIDE DEF e
<1>2. PICK p \in People : p = e.who
  BY <1>1
<1>3. e \in Updates(p) /\ \A c \in People : e \in Updates(c) => c = p
  BY <1>1, <1>2 DEF Updates
<1>4. OnTheWay' = OnTheWay
  BY DEF OnTheWay
<1>5. \A c \in People \ {p} : ghost'[UID(c)] = ghost[UID(c)]
  BY <1>1, <1>2, MemberIDs
<1>6. ghost'[UID(p)] = e.ver
  BY <1>1, <1>2, MemberIDs
<1>7. Has(events, Updates(p))
  BY <1>1, <1>3, HasOfTail DEF e
<1>8. p \in contacts
  BY <1>7 DEF GhostsInv, Strangers, Stranger
<1>9. ASSUME NEW c \in People \ {p}
      PROVE  (Stranger(c) => Stranger(c)') /\ (Follows(c) => Follows(c)')
  <2>1. e \notin Updates(c)
    BY <1>3
  <2>2. Stranger(c) => queue'[DM(c)] = << >>
    BY <1>1 DEF Stranger
  <2> QED BY <1>1, <1>5, <2>1, <2>2, GhostsPop DEF e
<1>10. Strangers'
  BY <1>1, <1>8, <1>9 DEF GhostsInv, Strangers
<1>11. ASSUME p \notin behind' PROVE Follows(p)'
  <2>1. p \notin behind /\ ~Overtakes(p, e.ver)
    BY <1>1, <1>2, <1>11
  <2>2. Final(events, Updates(p), profile[p])
    BY <1>7, <1>8, <2>1 DEF GhostsInv, Following, Follows
  <2>3. CASE Final(events', Updates(p), profile[p])
    BY <2>3 DEF Follows
  <2>4. CASE e.ver = profile[p] /\ ~Has(events', Updates(p))
    <3>1. ASSUME NEW i \in OnTheWay, i.uid = UID(p) PROVE i.ver = profile[p]
      <4>1. i.ver # 0 /\ i.ver <= profile[p] /\ i.ver \in Nat /\ profile[p] \in Nat
        BY <1>1, <3>1 DEF GhostsInv, Dated, OnTheWay, UserInfos
      <4>2. i \in (UNION {work[q].infos : q \in Portals}) \union {lookup}
        BY DEF OnTheWay
      <4>3. ~(i.ver < e.ver)
        BY <2>1, <3>1, <4>1, <4>2 DEF Overtakes, UID
      <4> QED BY <2>4, <4>1, <4>3
    <3>2. Current(p)'
      BY <1>4, <1>6, <2>4, <3>1 DEF Current, UID
    <3> QED BY <2>4, <3>2 DEF Follows
  <2> QED BY <1>1, <2>2, <2>3, <2>4, FinalOfTail DEF e
<1>12. Following'
  <2> SUFFICES ASSUME NEW c \in contacts \ behind' PROVE Follows(c)'
    BY <1>1 DEF Following
  <2>1. c \in People /\ c \notin behind
    BY <1>1 DEF Typed
  <2> QED BY <1>9, <1>11, <2>1 DEF GhostsInv, Following
<1>13. Dated'
  BY <1>4 DEF GhostsInv, Dated, UID
<1> QED BY <1>10, <1>12, <1>13 DEF GhostsInv

LEMMA GhostsEvent == ASSUME Typed, GhostsInv, HandleSimplexEvent PROVE GhostsInv'
<1>0. UNCHANGED <<profile, work, lookup>> /\ events \in Seq(EventRec)
  BY DEF HandleSimplexEvent, Typed
<1>1. Resync(TRUE, FALSE) \in ResyncRec /\ Resync(TRUE, TRUE) \in ResyncRec
  BY DEF Resync, ResyncRec
<1>2. OnTheWay' = OnTheWay
  BY <1>0 DEF OnTheWay
<1>3. Dated'
  BY <1>0, <1>2 DEF GhostsInv, Dated, UID
<1>4. ASSUME NEW types, Take(types), "contactUpdated" \notin types,
             contacts \subseteq contacts', contacts' \subseteq People, UNCHANGED <<ghost, behind>>,
             \A p \in People \ contacts' : queue'[DM(p)] = queue[DM(p)]
      PROVE  GhostsInv'
  <2>1. /\ events # << >> /\ events' = Tail(events)
        /\ \A p \in People : Head(events) \notin Updates(p)
    BY <1>4 DEF Take, Updates
  <2>2. \A p \in People : ghost'[UID(p)] = ghost[UID(p)]
    BY <1>4
  <2>3. Strangers'
    <3> SUFFICES ASSUME NEW p \in People \ contacts' PROVE Stranger(p)'
      BY DEF Strangers
    <3>1. Stranger(p) /\ queue'[DM(p)] = << >>
      BY <1>4 DEF GhostsInv, Strangers, Stranger
    <3> QED BY <1>0, <2>1, <2>2, <3>1, GhostsPop
  <2>4. Following'
    <3> SUFFICES ASSUME NEW p \in contacts' \ behind PROVE Follows(p)'
      BY <1>4 DEF Following
    <3>1. p \in People
      BY <1>4
    <3>2. Follows(p)
      BY <3>1, StrangerFollows DEF GhostsInv, Strangers, Following
    <3> QED BY <1>0, <2>1, <2>2, <3>1, <3>2, GhostsPop
  <2> QED BY <1>3, <2>3, <2>4 DEF GhostsInv
<1>5. ASSUME NEW p \in People, NEW c, NEW r \in ResyncRec, QueueTo({c}, r), c # DM(p)
      PROVE  queue'[DM(p)] = queue[DM(p)]
  <2>1. DM(p) \in Portals \ {c}
    BY <1>5, PortalIDs
  <2> QED BY <1>5, <2>1, QueueToSays
<1>6. contacts \subseteq People
  BY DEF Typed
<1>7. CASE HandleGroupEvent
  <2>1. /\ Take({"joinedGroupMember", "leftMember", "groupUpdated"})
        /\ QueueTo({Group}, Resync(TRUE, FALSE)) /\ UNCHANGED <<contacts, ghost, behind>>
    BY <1>7 DEF HandleGroupEvent
  <2>2. \A p \in People : queue'[DM(p)] = queue[DM(p)]
    BY <1>1, <1>5, <2>1, PortalIDs
  <2> QED BY <1>4, <1>6, <2>1, <2>2
<1>8. CASE HandleContactConnected
  <2>1. /\ Take({"contactConnected"})
        /\ QueueTo({DM(Who)}, Resync(TRUE, TRUE)) /\ UNCHANGED <<contacts, ghost, behind>>
    BY <1>8 DEF HandleContactConnected
  <2>2. Who \in People
    BY <2>1, TakeTyped DEF OfPeople, ContactTypes, Who
  <2>3. Who \in contacts
    <3> DEFINE p == Who
    <3>1. Head(events) \in Announcing(p) /\ events # << >>
      BY <2>1, TakeTyped DEF Announcing, Who, Take
    <3> HIDE DEF p
    <3>2. Has(events, Announcing(p))
      BY <1>0, <3>1, HasOfTail
    <3> QED BY <2>2, <3>2 DEF GhostsInv, Strangers, Stranger, p
  <2>4. \A p \in People \ contacts : queue'[DM(p)] = queue[DM(p)]
    BY <1>1, <1>5, <2>1, <2>2, <2>3, PortalIDs
  <2> QED BY <1>4, <1>6, <2>1, <2>4
<1>9. CASE HandleReceivedContactRequest
  <2>1. /\ Take({"receivedContactRequest"}) /\ UNCHANGED <<ghost, behind>>
        /\ \/ contacts' = contacts \union {Who} /\ QueueTo({DM(Who)}, Resync(TRUE, TRUE))
           \/ UNCHANGED <<contacts, queue>>
    BY <1>9 DEF HandleReceivedContactRequest
  <2>2. Who \in People
    BY <2>1, TakeTyped DEF OfPeople, ContactTypes, Who
  <2>3. contacts \subseteq contacts' /\ contacts' \subseteq People
    BY <1>6, <2>1, <2>2
  <2>4. \A p \in People \ contacts' : queue'[DM(p)] = queue[DM(p)]
    BY <1>1, <1>5, <2>1, <2>2, PortalIDs
  <2> QED BY <1>4, <2>1, <2>3, <2>4
<1>10. CASE HandleContactUpdated
  BY <1>0, <1>10, GhostsUpdated
<1> QED BY <1>7, <1>8, <1>9, <1>10 DEF HandleSimplexEvent

(* What a server's step makes of one person's events.                       *)
LEMMA GhostsServer == ASSUME Typed, GhostsInv, Server PROVE GhostsInv'
<1>0. /\ UNCHANGED <<queue, work, lookup, ghost>> /\ events \in Seq(EventRec)
      /\ contacts \subseteq People /\ profile \in [People \union {Group} -> Nat \ {0}]
      /\ contacts' \subseteq People /\ profile' \in [People \union {Group} -> Nat \ {0}]
      /\ behind \subseteq behind'
  BY ServerTyped DEF Server, JoinsGroup, LeavesGroup, RequestsContact, Connects, RenamesGroup,
                     Renames, Typed
<1>1. OnTheWay' = OnTheWay
  BY <1>0 DEF OnTheWay
<1>2. ASSUME \A p \in People : profile[p] <= profile'[p] PROVE Dated'
  <2> SUFFICES ASSUME NEW i \in OnTheWay, NEW p \in People, i.uid = UID(p)
               PROVE  i.ver <= profile'[p]
    BY <1>1 DEF GhostsInv, Dated, UID
  <2>1. i.ver \in Nat /\ i.ver <= profile[p] /\ profile[p] \in Nat /\ profile'[p] \in Nat
    BY <1>0 DEF GhostsInv, Dated, OnTheWay, UserInfos
  <2> QED BY <1>2, <2>1
<1>3. ASSUME \A p \in People : profile'[p] = profile[p], contacts \subseteq contacts',
             \/ events' = events
             \/ \E e \in EventRec : /\ events' = Append(events, e) /\ e.type # "contactUpdated"
                                    /\ e.type = "contactConnected" => e.who \in contacts'
      PROVE  GhostsInv'
  <2>1. ASSUME NEW p \in People, p \in contacts' \/ p \notin contacts'
        PROVE  /\ Has(events', Updates(p)) => Has(events, Updates(p))
               /\ Final(events, Updates(p), profile[p]) => Final(events', Updates(p), profile[p])
               /\ p \notin contacts' /\ Has(events', Announcing(p)) => Has(events, Announcing(p))
    <3>1. CASE events' = events
      BY <3>1
    <3>2. ASSUME NEW e \in EventRec, events' = Append(events, e), e.type # "contactUpdated",
                 e.type = "contactConnected" => e.who \in contacts'
          PROVE  /\ Has(events', Updates(p)) => Has(events, Updates(p))
                 /\ Final(events, Updates(p), profile[p]) => Final(events', Updates(p), profile[p])
                 /\ p \notin contacts' /\ Has(events', Announcing(p)) => Has(events, Announcing(p))
      <4>1. e \notin Updates(p) /\ (p \notin contacts' => e \notin Announcing(p))
        BY <3>2 DEF Updates, Announcing
      <4> QED BY <1>0, <3>2, <4>1, HasOfAppend, FinalOfAppend
    <3> QED BY <1>3, <3>1, <3>2
  <2>2. Strangers'
    <3> SUFFICES ASSUME NEW p \in People \ contacts' PROVE Stranger(p)'
      BY DEF Strangers
    <3>1. Stranger(p)
      BY <1>3 DEF GhostsInv, Strangers
    <3> QED BY <1>0, <1>1, <2>1, <3>1 DEF Stranger, UID
  <2>3. Following'
    <3> SUFFICES ASSUME NEW p \in contacts' \ behind' PROVE Follows(p)'
      BY DEF Following
    <3>1. p \in People /\ p \notin behind
      BY <1>0
    <3>2. Follows(p)
      BY <3>1, StrangerFollows DEF GhostsInv, Strangers, Following
    <3>3. profile'[p] = profile[p]
      BY <1>3, <3>1
    <3> QED BY <1>0, <1>1, <2>1, <3>1, <3>2, <3>3 DEF Follows, Current, UID
  <2>4. Dated'
    BY <1>0, <1>2, <1>3
  <2> QED BY <2>2, <2>3, <2>4 DEF GhostsInv
<1>4. ASSUME NEW t \in EventType, NEW x \in People \union {Group}, NEW q \in Portals, Emit(t, x, q)
      PROVE  \/ events' = events
             \/ \E e \in EventRec : e.type = t /\ e.who = x /\ events' = Append(events, e)
  <2>1. \/ events' = events
        \/ Emit(t, x, q) /\ events' = Append(events, [type |-> t, who |-> x, ver |-> profile'[x]])
    BY <1>4 DEF Emit
  <2>2. profile'[x] \in Nat
    BY <1>0
  <2> QED BY <2>1, <2>2, EventSays
<1>5. CASE \E p \in People : JoinsGroup(p) \/ LeavesGroup(p) \/ RequestsContact(p)
  <2>1. UNCHANGED <<profile, contacts>>
    BY <1>5 DEF JoinsGroup, LeavesGroup, RequestsContact
  <2>2. PICK p \in People, t \in {"joinedGroupMember", "leftMember", "receivedContactRequest"},
             q \in Portals : Emit(t, p, q)
    BY <1>5, PortalIDs DEF JoinsGroup, LeavesGroup, RequestsContact
  <2>3. t \in EventType
    BY DEF EventType, GroupTypes, ContactTypes
  <2> QED BY <1>3, <1>4, <2>1, <2>2, <2>3
<1>6. ASSUME NEW p \in People, Connects(p) PROVE GhostsInv'
  <2>1. /\ UNCHANGED profile /\ contacts' = contacts \union {p}
        /\ Emit("contactConnected", p, DM(p))
    BY <1>6 DEF Connects
  <2>2. "contactConnected" \in EventType /\ DM(p) \in Portals
    BY PortalIDs DEF EventType, ContactTypes
  <2> QED BY <1>3, <1>4, <2>1, <2>2
<1>7. CASE RenamesGroup
  <2>1. UNCHANGED contacts /\ Emit("groupUpdated", Group, Group)
    BY <1>7 DEF RenamesGroup
  <2>2. "groupUpdated" \in EventType /\ Group \in Portals
    BY PortalIDs DEF EventType, GroupTypes
  <2>3. \A p \in People : profile'[p] = profile[p]
    BY <1>0, <1>7, GroupAssumption DEF RenamesGroup
  <2> QED BY <1>3, <1>4, <2>1, <2>2, <2>3
<1>8. ASSUME NEW p \in People, Renames(p) PROVE GhostsInv'
  <2>1. /\ profile'[p] = profile[p] + 1 /\ \A c \in People \ {p} : profile'[c] = profile[c]
        /\ UNCHANGED contacts
    BY <1>0, <1>8 DEF Renames
  <2>2. Dated'
    BY <1>0, <1>2, <2>1
  <2>3. CASE events' = events /\ (p \in contacts => p \in behind')
    <3>1. Strangers'
      BY <1>0, <1>1, <2>1, <2>3 DEF GhostsInv, Strangers, Stranger, UID
    <3>2. Following'
      BY <1>0, <1>1, <2>1, <2>3 DEF GhostsInv, Following, Follows, Current, UID
    <3> QED BY <2>2, <3>1, <3>2 DEF GhostsInv
  <2>4. ASSUME p \in contacts, NEW e \in EventRec, events' = Append(events, e),
               e.type = "contactUpdated", e.who = p, e.ver = profile'[p]
        PROVE  GhostsInv'
    <3>1. e \in Updates(p) /\ \A c \in People \ {p} : e \notin Updates(c)
      BY <2>4 DEF Updates
    <3>2. Follows(p)'
      BY <1>0, <2>4, <3>1, FinalOfAppend DEF Follows
    <3>3. ASSUME NEW c \in People \ {p}
          PROVE  (Stranger(c) => Stranger(c)') /\ (Follows(c) => Follows(c)')
      <4>1. e \notin Announcing(c) /\ e \notin Updates(c)
        BY <2>4, <3>1 DEF Announcing
      <4>2. /\ Has(events', Announcing(c)) => Has(events, Announcing(c))
            /\ Has(events', Updates(c)) => Has(events, Updates(c))
        BY <1>0, <2>4, <4>1, HasOfAppend
      <4>3. Final(events, Updates(c), profile[c]) => Final(events', Updates(c), profile[c])
        BY <1>0, <2>4, <4>1, FinalOfAppend
      <4>4. Stranger(c) => Stranger(c)'
        BY <1>0, <1>1, <4>2 DEF Stranger, UID
      <4>5. Follows(c) => Follows(c)'
        BY <1>0, <1>1, <2>1, <4>2, <4>3 DEF Follows, Current, UID
      <4> QED BY <4>4, <4>5
    <3>4. Strangers'
      BY <2>1, <2>4, <3>3 DEF GhostsInv, Strangers
    <3>5. Following'
      BY <1>0, <2>1, <3>2, <3>3 DEF GhostsInv, Following
    <3> QED BY <2>2, <3>4, <3>5 DEF GhostsInv
  <2>5. \/ events' = events /\ (p \in contacts => p \in behind')
        \/ /\ p \in contacts
           /\ events' = Append(events, [type |-> "contactUpdated", who |-> p, ver |-> profile'[p]])
    BY <1>8 DEF Renames
  <2>6. profile'[p] \in Nat /\ "contactUpdated" \in EventType
    BY <1>0 DEF EventType, ContactTypes
  <2> QED BY <2>3, <2>4, <2>5, <2>6, EventSays
<1> QED BY <1>5, <1>6, <1>7, <1>8 DEF Server

LEMMA GhostsNext == Typed /\ GhostsInv /\ [Next]_vars => GhostsInv'
<1> SUFFICES ASSUME Typed, GhostsInv, [Next]_vars PROVE GhostsInv'
  OBVIOUS
<1>1. CASE UNCHANGED vars
  <2>1. UNCHANGED <<contacts, profile, events, behind, queue, ghost, work, lookup>>
    BY <1>1 DEF vars, serverVars, bridgeVars, historyVars
  <2>2. OnTheWay' = OnTheWay
    BY <2>1 DEF OnTheWay
  <2> QED BY <2>1, <2>2, GhostsShow
<1> QED BY <1>1, GhostsServer, GhostsConnection, GhostsSync, GhostsEvent, GhostsPortal,
           GhostsGetUserInfo DEF Next

LEMMA GhostsInit == Init => GhostsInv
<1> SUFFICES ASSUME Init PROVE GhostsInv
  OBVIOUS
<1>1. events = << >> /\ lookup = NoLookup
  BY DEF Init
<1>2. \A i : i \notin OnTheWay
  BY IdleIsWork DEF Init, OnTheWay
<1>3. \A A : ~Has(events, A)
  BY <1>1, HasOfEmpty
<1>4. \A p \in People : queue[DM(p)] = << >> /\ ghost[UID(p)] = 0
  BY PortalIDs, MemberIDs DEF Init
<1>5. \A p \in People : Stranger(p)
  BY <1>2, <1>3, <1>4 DEF Stranger
<1>6. contacts \subseteq People
  BY ChatSyncAssumption DEF ChatSyncAssumption, Init
<1> QED BY <1>2, <1>5, <1>6, StrangerFollows DEF GhostsInv, Dated, Strangers, Following

(* A ghost shows its contact's last profile: what is read of profiles, held *)
(* by a portal or by GetUserInfo and shown later never hides an update,     *)
(* unless it was read before that update and shown after it.                *)
THEOREM GhostsFollow == Spec => []GhostsKeepUp
<1>1. Typed /\ GhostsInv => GhostsKeepUp
  <2> SUFFICES ASSUME Typed, GhostsInv, Quiet, NEW p \in contacts \ behind
               PROVE  ghost[UID(p)] \in {0, profile[p]}
    BY DEF GhostsKeepUp, UID
  <2>1. events = << >> /\ Follows(p)
    BY DEF GhostsInv, Following, Quiet
  <2>2. ~Final(events, Updates(p), profile[p])
    BY <2>1 DEF Final
  <2> QED BY <2>1, <2>2 DEF Follows, Current
<1> QED BY <1>1, GhostsInit, GhostsNext, AlwaysTyped, PTL DEF Spec

-----------------------------------------------------------------------------
(* The room follows the group.                                              *)

(* What has the group fetched again, with its members.                      *)
GroupChanges == {e \in EventRec : e.type \in GroupTypes}
Fulls == {r \in ResyncRec : r.full}
Refetched == Has(events, GroupChanges) \/ Has(queue[Group], Fulls)

(* Members are in s by one name, and nobody else is by any.                 *)
ByOneName(p, s) ==
    /\ status[p] = "active" => \/ UID(p) \in s /\ MakeMemberUserID(p) \notin s
                               \/ UID(p) \notin s /\ MakeMemberUserID(p) \in s
    /\ status[p] # "active" => UID(p) \notin s /\ MakeMemberUserID(p) \notin s

UIDs(infos) == {i.uid : i \in infos}

(* What is at work on the room, or else the room, has the group's title and *)
(* its members; those that are still to be read need not be right yet.      *)
TitleKept ==
    /\ work[Group].at # "idle" => work[Group].title = profile[Group]
    /\ work[Group].at = "idle" \/ ~work[Group].full => room[Group].title = profile[Group]

MembersKept ==
    /\ work[Group].at = "apply" /\ work[Group].full =>
          \A p \in People : ByOneName(p, UIDs(work[Group].infos))
    /\ work[Group].at = "idle" \/ ~work[Group].full =>
          \A p \in People : Apart(p) => ByOneName(p, room[Group].members)

RoomInv ==
    /\ ~room[Group].exists /\ work[Group].at # "idle" => work[Group].full
    /\ room[Group].exists => Self \in room[Group].members
    /\ (room[Group].exists \/ work[Group].at # "idle") /\ Group \notin missed =>
          Refetched \/ (TitleKept /\ MembersKept)

(* A step that leaves the portal of the group alone.                        *)
LEMMA RoomElsewhere ==
    ASSUME RoomInv, work'[Group] = work[Group], room'[Group] = room[Group], UNCHANGED loginID,
           Group \notin missed' => Group \notin missed,
           Group \notin missed' /\ Refetched => Refetched',
           \/ Group \in missed' \/ Refetched'
           \/ UNCHANGED status /\ profile'[Group] = profile[Group]
    PROVE  RoomInv'
<1>1. Self' = Self
  BY DEF Self
<1>2. ASSUME UNCHANGED status, profile'[Group] = profile[Group], TitleKept, MembersKept
      PROVE  TitleKept' /\ MembersKept'
  BY <1>2 DEF TitleKept, MembersKept, ByOneName, UIDs, Apart, UID
<1> QED BY <1>1, <1>2 DEF RoomInv

LEMMA RoomServer == ASSUME Typed, RoomInv, Server PROVE RoomInv'
<1>0. /\ UNCHANGED <<loginID, queue, work, room>> /\ events \in Seq(EventRec)
      /\ profile \in [People \union {Group} -> Nat \ {0}]
  BY DEF Server, Typed
<1>1. ASSUME NEW t \in EventType, NEW x \in People \union {Group}, NEW q \in Portals,
             Emit(t, x, q), \/ t \in GroupTypes /\ q = Group
                            \/ UNCHANGED status /\ profile'[Group] = profile[Group]
      PROVE  RoomInv'
  <2>1. missed \subseteq missed' /\ (Has(events, GroupChanges) => Has(events', GroupChanges))
    BY <1>1, EmitHas, ServerProfile
  <2>2. Refetched => Refetched'
    BY <1>0, <2>1 DEF Refetched
  <2>3. CASE t \in GroupTypes /\ q = Group
    <3>1. q \in missed' \/ \E e \in EventRec : e.type = t /\ events' = Append(events, e)
      BY <1>1, EmitHas, ServerProfile
    <3>2. ASSUME NEW e \in EventRec, e.type = t, events' = Append(events, e)
          PROVE  Has(events', GroupChanges)
      <4>1. e \in GroupChanges
        BY <2>3, <3>2 DEF GroupChanges
      <4> QED BY <1>0, <3>2, <4>1, HasOfAppend
    <3>3. Group \in missed' \/ Refetched'
      BY <2>3, <3>1, <3>2 DEF Refetched
    <3> QED BY <1>0, <2>1, <2>2, <3>3, RoomElsewhere
  <2>4. CASE UNCHANGED status /\ profile'[Group] = profile[Group]
    BY <1>0, <2>1, <2>2, <2>4, RoomElsewhere
  <2> QED BY <1>1, <2>3, <2>4
<1>2. \A t \in GroupTypes \union ContactTypes : t \in EventType
  BY DEF EventType
<1> USE DEF GroupTypes, ContactTypes
<1>3. ASSUME NEW p \in People, JoinsGroup(p) \/ LeavesGroup(p) PROVE RoomInv'
  <2>1. \E t \in GroupTypes : Emit(t, p, Group)
    BY <1>3 DEF JoinsGroup, LeavesGroup
  <2> QED BY <1>1, <1>2, <2>1, PortalIDs
<1>4. ASSUME NEW p \in People, RequestsContact(p) \/ Connects(p) PROVE RoomInv'
  <2>1. UNCHANGED <<status, profile>> /\ \E t \in ContactTypes : Emit(t, p, DM(p))
    BY <1>4 DEF RequestsContact, Connects
  <2> QED BY <1>1, <1>2, <2>1, PortalIDs
<1>5. CASE RenamesGroup
  <2>1. Emit("groupUpdated", Group, Group)
    BY <1>5 DEF RenamesGroup
  <2> QED BY <1>1, <1>2, <2>1, PortalIDs
<1>6. ASSUME NEW p \in People, Renames(p) PROVE RoomInv'
  <2>1. UNCHANGED <<status, missed>> /\ profile'[Group] = profile[Group]
    BY <1>0, <1>6, GroupAssumption DEF Renames
  <2>2. \/ events' = events
        \/ events' = Append(events, [type |-> "contactUpdated", who |-> p, ver |-> profile'[p]])
    BY <1>6 DEF Renames
  <2>3. profile'[p] \in Nat
    BY ServerProfile
  <2>4. events' = events \/ \E e \in EventRec : events' = Append(events, e)
    BY <1>2, <2>2, <2>3, EventSays
  <2>5. ASSUME NEW e \in EventRec, events' = Append(events, e), Has(events, GroupChanges)
        PROVE  Has(events', GroupChanges)
    <3>1. Has(Append(events, e), GroupChanges)
      BY <1>0, <2>5, HasOfAppend
    <3> QED BY <2>5, <3>1
  <2>6. Refetched => Refetched'
    BY <1>0, <2>4, <2>5 DEF Refetched
  <2> QED BY <1>0, <2>1, <2>6, RoomElsewhere
<1> QED BY <1>3, <1>4, <1>5, <1>6 DEF Server

LEMMA RoomConnection ==
    ASSUME Typed, RoomInv, Disconnects \/ Reconnects \/ Restarts
    PROVE  RoomInv'
<1>1. CASE Disconnects \/ Reconnects
  <2>1. UNCHANGED <<loginID, status, profile, events, missed, work, queue, room>>
    BY <1>1 DEF Disconnects, Reconnects, bridgeVars, historyVars
  <2> QED BY <2>1, RoomElsewhere DEF Refetched
<1>2. CASE Restarts
  <2>1. /\ UNCHANGED <<loginID, status, profile, room>> /\ work'[Group].at = "idle"
        /\ missed' = missed \union Unhandled
    BY <1>2, IdleIsWork, PortalIDs DEF Restarts
  <2>2. ASSUME Group \notin missed'
        PROVE  /\ Group \notin missed /\ work[Group].at = "idle" /\ ~Refetched
    <3>1. Group \notin missed /\ Group \notin Unhandled
      BY <2>1, <2>2
    <3>2. work[Group].at = "idle" /\ queue[Group] = << >>
      BY <3>1, IdleIsWork, PortalIDs DEF Unhandled
    <3>3. \A j \in 1 .. Len(events) : About(events[j]) # Group
      <4>1. DOMAIN events = 1 .. Len(events)
        BY DEF Typed
      <4> QED BY <3>1, <4>1 DEF Unhandled
    <3>4. ~Has(events, GroupChanges)
      BY <3>3 DEF Has, GroupChanges, About, GroupTypes
    <3> QED BY <3>1, <3>2, <3>4, HasOfEmpty DEF Refetched
  <2>3. Self' = Self
    BY <2>1 DEF Self
  <2>4. ASSUME Group \notin missed', room[Group].exists PROVE TitleKept' /\ MembersKept'
    <3>1. TitleKept /\ MembersKept
      BY <2>2, <2>4 DEF RoomInv
    <3> QED BY <2>1, <2>2, <2>4, <3>1 DEF TitleKept, MembersKept, ByOneName, Apart, UID
  <2> QED BY <2>1, <2>3, <2>4 DEF RoomInv
<1> QED BY <1>1, <1>2

LEMMA RoomSync == ASSUME Typed, RoomInv, SyncChats PROVE RoomInv'
<1>1. UNCHANGED <<loginID, status, profile, events, work, room>>
  BY DEF SyncChats, serverVars
<1>2. PICK k \in DOMAIN sync : \/ SyncBegins(k) \/ SyncContacts(k)
                              \/ SyncGroups(k) \/ MarkSynced(k)
  BY DEF SyncChats
<1> DEFINE r == Resync(~sync[k].reconnect, TRUE)
<1>3. r \in ResyncRec
  <2>1. sync[k] \in SyncRec
    BY DEF Typed
  <2> QED BY <2>1 DEF Resync, ResyncRec, SyncRec
<1>4. /\ Group \notin missed' => Group \notin missed
      /\ UNCHANGED queue \/ \E qs : QueueTo(qs, r)
  BY <1>2 DEF SyncBegins, SyncContacts, SyncGroups, MarkSynced, Enumerate
<1> HIDE DEF r
<1>5. queue[Group] \in Seq(ResyncRec)
  BY PortalIDs DEF Typed
<1>6. queue'[Group] = queue[Group] \/ queue'[Group] = Append(queue[Group], r)
  BY <1>3, <1>4, QueueToSays, PortalIDs
<1>7. Has(queue[Group], Fulls) => Has(queue'[Group], Fulls)
  <2>1. Has(queue[Group], Fulls) => Has(Append(queue[Group], r), Fulls)
    BY <1>3, <1>5, HasOfAppend
  <2> QED BY <1>6, <2>1
<1>8. Refetched => Refetched'
  BY <1>1, <1>7 DEF Refetched
<1> QED BY <1>1, <1>4, <1>8, RoomElsewhere

LEMMA RoomEvent == ASSUME Typed, RoomInv, HandleSimplexEvent PROVE RoomInv'
<1>1. UNCHANGED <<loginID, status, profile, work, room>> /\ events \in Seq(EventRec)
  BY DEF HandleSimplexEvent, Typed
<1>2. Resync(TRUE, FALSE) \in Fulls /\ Resync(TRUE, TRUE) \in ResyncRec
  BY DEF Resync, ResyncRec, Fulls
<1>3. queue[Group] \in Seq(ResyncRec)
  BY PortalIDs DEF Typed
<1>4. ASSUME NEW types \in SUBSET ContactTypes, Take(types), UNCHANGED missed,
             queue'[Group] = queue[Group]
      PROVE  RoomInv'
  <2>1. events # << >> /\ events' = Tail(events) /\ Head(events) \notin GroupChanges
    BY <1>4 DEF Take, GroupChanges, GroupTypes, ContactTypes
  <2>2. Has(events, GroupChanges) => Has(events', GroupChanges)
    BY <1>1, <2>1, HasOfTail
  <2>3. Refetched => Refetched'
    BY <1>4, <2>2 DEF Refetched
  <2> QED BY <1>1, <1>4, <2>3, RoomElsewhere
<1>5. CASE HandleGroupEvent
  <2>1. QueueTo({Group}, Resync(TRUE, FALSE)) /\ UNCHANGED missed
    BY <1>5 DEF HandleGroupEvent
  <2>2. queue'[Group] = Append(queue[Group], Resync(TRUE, FALSE))
    <3>1. Group \in Portals \intersect {Group} /\ Resync(TRUE, FALSE) \in ResyncRec
      BY <1>2, PortalIDs DEF Fulls
    <3> QED BY <2>1, <3>1, QueueToSays
  <2>3. Has(queue'[Group], Fulls)
    <3>1. PICK r : r = Resync(TRUE, FALSE)
      OBVIOUS
    <3>2. r \in ResyncRec /\ r \in Fulls
      BY <1>2, <3>1 DEF Fulls
    <3>3. Has(Append(queue[Group], r), Fulls)
      BY <1>3, <3>2, HasOfAppend
    <3> QED BY <2>2, <3>1, <3>3
  <2>4. Refetched'
    BY <2>3 DEF Refetched
  <2> QED BY <1>1, <2>1, <2>4, RoomElsewhere
<1>6. ASSUME NEW types \in SUBSET ContactTypes, Take(types), QueueTo({DM(Who)}, Resync(TRUE, TRUE))
      PROVE  queue'[Group] = queue[Group]
  <2>1. Who \in People
    BY <1>6, TakeTyped DEF OfPeople, Who
  <2>2. Group \in Portals \ {DM(Who)}
    BY <2>1, PortalIDs
  <2> QED BY <1>2, <1>6, <2>2, QueueToSays
<1>7. CASE HandleContactConnected
  <2>1. {"contactConnected"} \in SUBSET ContactTypes
    BY DEF ContactTypes
  <2> QED BY <1>4, <1>6, <1>7, <2>1 DEF HandleContactConnected
<1>8. CASE HandleReceivedContactRequest
  <2>1. {"receivedContactRequest"} \in SUBSET ContactTypes
    BY DEF ContactTypes
  <2> QED BY <1>4, <1>6, <1>8, <2>1 DEF HandleReceivedContactRequest
<1>9. CASE HandleContactUpdated
  <2>1. {"contactUpdated"} \in SUBSET ContactTypes
    BY DEF ContactTypes
  <2> QED BY <1>4, <1>9, <2>1 DEF HandleContactUpdated
<1> QED BY <1>5, <1>7, <1>8, <1>9 DEF HandleSimplexEvent

LEMMA RoomReadChat == ASSUME Typed, RoomInv, NEW q \in Portals, ReadChat(q),
                             UNCHANGED <<loginID, status, profile, events>>
                      PROVE  RoomInv'
<1>0. /\ queue \in [Portals -> Seq(ResyncRec)] /\ work \in [Portals -> WorkRec]
      /\ Group \in Portals
  BY PortalIDs DEF Typed
<1>1. /\ work[q] = Idle /\ queue[q] # << >> /\ queue' = [queue EXCEPT ![q] = Tail(@)]
      /\ Head(queue[q]) \in ResyncRec /\ UNCHANGED room
      /\ \/ /\ ~room[q].exists /\ UNCHANGED <<work, missed>>
         \/ /\ UNCHANGED work
            /\ missed' = IF Full(q) THEN missed \union {q} ELSE missed
         \/ /\ missed' = IF Full(q) THEN missed \ {q} ELSE missed
            /\ \E w \in WorkRec : work' = [work EXCEPT ![q] = w] /\ ReadFrom(q, w)
  <2>1. UNCHANGED room
    BY DEF ReadChat
  <2>2. work[q] = Idle /\ queue[q] # << >> /\ queue' = [queue EXCEPT ![q] = Tail(@)]
    BY ReadChatSays
  <2>3. Head(queue[q]) \in ResyncRec
    BY ReadChatSays
  <2> QED BY <2>1, <2>2, <2>3, ReadChatSays
<1>2. CASE q # Group
  <2>1. /\ work'[Group] = work[Group] /\ queue'[Group] = queue[Group]
        /\ Group \in missed' <=> Group \in missed
    BY <1>0, <1>1, <1>2
  <2>2. Refetched' <=> Refetched
    BY <2>1 DEF Refetched
  <2> QED BY <1>1, <2>1, <2>2, RoomElsewhere
<1>3. CASE q = Group
  <2>1. queue'[Group] = Tail(queue[Group]) /\ work[Group] = Idle
    BY <1>0, <1>1, <1>3
  <2>2. Refetched /\ ~Full(Group) => Refetched'
    <3>1. ~Full(Group) => Head(queue[Group]) \notin Fulls
      BY DEF Full, Fulls
    <3>2. /\ Has(queue[Group], Fulls)
                <=> Has(Tail(queue[Group]), Fulls) \/ Head(queue[Group]) \in Fulls
      BY <1>0, <1>1, <1>3, HasOfTail
    <3> QED BY <2>1, <3>1, <3>2 DEF Refetched
  <2>3. CASE ~room[Group].exists /\ UNCHANGED <<work, missed>>
    BY <1>1, <2>1, <2>3, IdleIsWork DEF RoomInv
  <2>4. CASE UNCHANGED work /\ missed' = IF Full(Group) THEN missed \union {Group} ELSE missed
    <3>1. CASE Full(Group)
      BY <1>1, <2>4, <3>1, RoomElsewhere
    <3>2. CASE ~Full(Group)
      BY <1>1, <2>2, <2>4, <3>2, RoomElsewhere
    <3> QED BY <3>1, <3>2
  <2>5. ASSUME missed' = IF Full(Group) THEN missed \ {Group} ELSE missed,
               NEW w \in WorkRec, work' = [work EXCEPT ![Group] = w], ReadFrom(Group, w)
        PROVE  RoomInv'
    <3>1. /\ work'[Group] = w /\ w.at = "members" /\ w.title = profile[Group]
          /\ w.full = Full(Group)
      <4>1. \A p \in People : Group # DM(p)
        BY PortalIDs
      <4> QED BY <1>0, <2>5, <4>1 DEF ReadFrom
    <3>2. ~room[Group].exists => Full(Group)
      BY DEF Full
    <3>3. Self' = Self
      BY DEF Self
    <3>4. CASE Full(Group)
      <4>1. TitleKept' /\ MembersKept'
        BY <3>1, <3>4 DEF TitleKept, MembersKept
      <4> QED BY <1>1, <3>1, <3>3, <3>4, <4>1 DEF RoomInv
    <3>5. CASE ~Full(Group)
      <4>1. room[Group].exists /\ missed' = missed
        BY <2>5, <3>2, <3>5
      <4>2. ASSUME TitleKept, MembersKept PROVE TitleKept' /\ MembersKept'
        <5>1. /\ room[Group].title = profile[Group]
              /\ \A p \in People : Apart(p) => ByOneName(p, room[Group].members)
          BY <2>1, <4>2, IdleIsWork DEF TitleKept, MembersKept
        <5>2. TitleKept'
          BY <1>1, <3>1, <5>1 DEF TitleKept
        <5>3. MembersKept'
          BY <1>1, <3>1, <5>1 DEF MembersKept, ByOneName, Apart, UID
        <5> QED BY <5>2, <5>3
      <4> QED BY <1>1, <2>2, <3>1, <3>3, <3>5, <4>1, <4>2 DEF RoomInv
    <3> QED BY <3>4, <3>5
  <2> QED BY <1>1, <1>3, <2>3, <2>4, <2>5
<1> QED BY <1>2, <1>3

LEMMA RoomReadMembers == ASSUME Typed, RoomInv, ReadMembers,
                                UNCHANGED <<loginID, status, profile, events>>
                         PROVE  RoomInv'
<1>0. Group \in Portals /\ work \in [Portals -> WorkRec] /\ contacts \subseteq People
  BY PortalIDs DEF Typed
<1>1. work[Group].at = "members" /\ UNCHANGED <<queue, room>>
  BY ReadMembersSays
<1>2. Self' = Self /\ Refetched' = Refetched
  BY <1>1 DEF Self, Refetched
<1>3. ASSUME UNCHANGED missed, NEW w \in WorkRec, work' = [work EXCEPT ![Group] = w],
             w.at = "apply", w.full = work[Group].full, w.title = work[Group].title,
             w.infos = IF w.full THEN {Info(MemberID(p), p) : p \in GroupMembers} ELSE {}
      PROVE  RoomInv'
  <2>1. work'[Group] = w
    BY <1>0, <1>3
  <2>2. ASSUME w.full, NEW p \in People PROVE ByOneName(p, UIDs(w.infos))
    <3>1. \A u : u \in UIDs(w.infos) <=> \E c \in GroupMembers : u = MemberID(c)
      <4>1. \A c \in GroupMembers : Info(MemberID(c), c).uid = MemberID(c)
        BY InfoTyped DEF GroupMembers
      <4> QED BY <1>3, <2>2, <4>1 DEF UIDs
    <3>2. \A c \in People : MemberID(c) \in Names(p) => c = p
      BY MemberIDs DEF Names, UID
    <3>3. \A u \in Names(p) : u \in UIDs(w.infos) <=> status[p] = "active" /\ u = MemberID(p)
      BY <3>1, <3>2 DEF GroupMembers
    <3>4. UID(p) \in Names(p) /\ MakeMemberUserID(p) \in Names(p) /\ UID(p) # MakeMemberUserID(p)
      BY MemberIDs DEF Names, UID
    <3>5. MemberID(p) \in {UID(p), MakeMemberUserID(p)}
      BY MemberIDs
    <3> QED BY <3>3, <3>4, <3>5 DEF ByOneName
  <2>3. ASSUME TitleKept, MembersKept PROVE TitleKept' /\ MembersKept'
    <3>1. TitleKept'
      BY <1>1, <1>3, <2>1, <2>3 DEF TitleKept
    <3>2. w.full => \A p \in People : ByOneName(p, UIDs(w.infos))'
      BY <1>3, <2>2 DEF ByOneName, UIDs, UID
    <3>3. ~w.full => \A p \in People : Apart(p)' => ByOneName(p, room[Group].members)'
      BY <1>1, <1>3, <2>3 DEF MembersKept, ByOneName, Apart, UID
    <3> QED BY <1>3, <2>1, <3>1, <3>2, <3>3 DEF MembersKept, ByOneName
  <2> QED BY <1>1, <1>2, <1>3, <2>1, <2>3 DEF RoomInv
<1>4. ASSUME work' = [work EXCEPT ![Group] = Idle],
             missed' = IF work[Group].full THEN missed \union {Group} ELSE missed
      PROVE  RoomInv'
  <2>1. work'[Group].at = "idle"
    BY <1>0, <1>4, IdleIsWork
  <2>2. CASE work[Group].full
    BY <1>1, <1>2, <1>4, <2>1, <2>2 DEF RoomInv
  <2>3. CASE ~work[Group].full
    <3>1. ASSUME TitleKept, MembersKept PROVE TitleKept' /\ MembersKept'
      BY <1>1, <2>1, <2>3, <3>1 DEF TitleKept, MembersKept, ByOneName, Apart, UID
    <3> QED BY <1>1, <1>2, <1>4, <2>1, <2>3, <3>1 DEF RoomInv
  <2> QED BY <2>2, <2>3
<1> QED BY <1>3, <1>4, ReadMembersSays

LEMMA RoomApply == ASSUME Typed, RoomInv, NEW q \in Portals, Apply(q),
                          UNCHANGED <<loginID, status, profile, events>>
                   PROVE  RoomInv'
<1>0. /\ Group \in Portals /\ work \in [Portals -> WorkRec] /\ room \in [Portals -> RoomRec]
  BY PortalIDs DEF Typed
<1>1. /\ work[q].at = "apply" /\ work' = [work EXCEPT ![q] = Idle]
      /\ UNCHANGED <<queue, missed>>
  BY ApplySays
<1>2. PICK c \in RoomRec :
         /\ room' = [room EXCEPT ![q] = c]
         /\ c.exists /\ c.title = work[q].title
         /\ c.members = IF work[q].full THEN {Self} \union UIDs(Shown(q)) ELSE room[q].members
  BY ApplySays DEF UIDs
<1>3. Self' = Self /\ Refetched' = Refetched
  BY <1>1 DEF Self, Refetched
<1>4. CASE q # Group
  <2>1. work'[Group] = work[Group] /\ room'[Group] = room[Group]
    BY <1>0, <1>1, <1>2, <1>4
  <2> QED BY <1>1, <1>3, <2>1, RoomElsewhere
<1>5. CASE q = Group
  <2>1. work'[Group].at = "idle" /\ room'[Group] = c
    BY <1>0, <1>1, <1>2, <1>5, IdleIsWork
  <2>2. Self \in c.members
    <3>1. ~work[Group].full => room[Group].exists
      BY <1>1, <1>5 DEF RoomInv
    <3> QED BY <1>2, <1>5, <3>1 DEF RoomInv
  <2>3. ASSUME NEW p \in People, Apart(p), MembersKept PROVE ByOneName(p, c.members)
    <3>1. CASE ~work[Group].full
      BY <1>2, <1>5, <2>3, <3>1 DEF MembersKept
    <3>2. CASE work[Group].full
      <4>1. ByOneName(p, UIDs(work[Group].infos))
        BY <1>1, <1>5, <2>3, <3>2 DEF MembersKept
      <4>2. UID(p) # Self /\ MakeMemberUserID(p) # Self
        BY <2>3, SelfID, TypedIsTypeOK
      <4>3. \A u : u # Self => (u \in c.members <=> u \in UIDs(work[Group].infos))
        BY <1>2, <1>5, <3>2 DEF UIDs, Shown
      <4> QED BY <4>1, <4>2, <4>3 DEF ByOneName
    <3> QED BY <3>1, <3>2
  <2>4. ASSUME TitleKept, MembersKept PROVE TitleKept' /\ MembersKept'
    <3>1. TitleKept'
      BY <1>1, <1>2, <1>5, <2>1, <2>4 DEF TitleKept
    <3>2. \A p \in People : Apart(p)' => ByOneName(p, c.members)'
      BY <2>3, <2>4 DEF Apart, ByOneName, UID
    <3> QED BY <2>1, <3>1, <3>2 DEF MembersKept, ByOneName
  <2> QED BY <1>1, <1>3, <1>5, <2>1, <2>2, <2>4 DEF RoomInv
<1> QED BY <1>4, <1>5

LEMMA RoomNext == Typed /\ RoomInv /\ [Next]_vars => RoomInv'
<1> SUFFICES ASSUME Typed, RoomInv, [Next]_vars PROVE RoomInv'
  OBVIOUS
<1>1. CASE Portal
  <2>1. UNCHANGED <<loginID, status, profile, events>>
    BY <1>1 DEF Portal, serverVars, bridgeVars
  <2> QED BY <1>1, <2>1, RoomReadMembers, RoomReadChat, RoomApply DEF Portal
<1>2. CASE GetUserInfo \/ UNCHANGED vars
  <2>1. UNCHANGED <<loginID, status, profile, events, missed, work, queue, room>>
    BY <1>2 DEF GetUserInfo, vars, serverVars, bridgeVars, historyVars
  <2> QED BY <2>1, RoomElsewhere DEF Refetched
<1> QED BY <1>1, <1>2, RoomServer, RoomConnection, RoomSync, RoomEvent DEF Next

LEMMA RoomInit == Init => RoomInv
<1> SUFFICES ASSUME Init PROVE RoomInv
  OBVIOUS
<1>1. ~room[Group].exists /\ work[Group].at = "idle"
  BY PortalIDs, IdleIsWork DEF Init, NoRoom
<1> QED BY <1>1 DEF RoomInv

(* The room follows the group: whatever happens between the reading of the  *)
(* list, that of the members and their use, and however the resyncs of the  *)
(* syncs and of the events are queued, what is shown in the end has been    *)
(* read after the last change, unless an event or a fetch was lost.         *)
THEOREM RoomFollows == Spec => []RoomFollowsGroup
<1>1. Typed /\ RoomInv => RoomFollowsGroup
  <2> SUFFICES ASSUME Typed, RoomInv, Quiet, room[Group].exists, Group \notin missed
               PROVE  /\ room[Group].title = profile[Group]
                      /\ Self \in room[Group].members
                      /\ \A p \in People : Apart(p) =>
                            Cardinality(Names(p) \intersect room[Group].members)
                                = IF status[p] = "active" THEN 1 ELSE 0
    BY DEF RoomFollowsGroup
  <2>1. queue[Group] = << >> /\ work[Group].at = "idle" /\ events = << >>
    BY PortalIDs, IdleIsWork DEF Quiet
  <2>2. TitleKept /\ MembersKept
    BY <2>1, HasOfEmpty DEF RoomInv, Refetched
  <2>3. ASSUME NEW p \in People, Apart(p)
        PROVE  Cardinality(Names(p) \intersect room[Group].members)
                  = IF status[p] = "active" THEN 1 ELSE 0
    <3> DEFINE there == Names(p) \intersect room[Group].members
    <3>1. ByOneName(p, room[Group].members)
      BY <2>1, <2>2, <2>3 DEF MembersKept
    <3>2. Names(p) = {UID(p), MakeMemberUserID(p)}
      BY DEF Names, UID
    <3>3. CASE status[p] = "active"
      <4>1. there = {UID(p)} \/ there = {MakeMemberUserID(p)}
        BY <3>1, <3>2, <3>3 DEF ByOneName
      <4> QED BY <3>3, <4>1, FS_Singleton
    <3>4. CASE status[p] # "active"
      <4>1. there = {}
        BY <3>1, <3>2, <3>4 DEF ByOneName
      <4> QED BY <3>4, <4>1, FS_EmptySet
    <3> QED BY <3>3, <3>4
  <2>4. room[Group].title = profile[Group]
    BY <2>1, <2>2 DEF TitleKept
  <2> QED BY <2>3, <2>4 DEF RoomInv
<1> QED BY <1>1, RoomInit, RoomNext, AlwaysTyped, PTL DEF Spec
================================================================================
