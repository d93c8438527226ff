-------------------------------- MODULE ChatSync --------------------------------
(***************************************************************************)
(* How rooms and ghosts follow the contacts and groups of SimpleX: the      *)
(* event loop's handlers of contacts, members and profiles, syncChats, and  *)
(* GetChatInfo, which a portal calls when it gets to a resync, and which    *)
(* reads the chat, then its members, and has the result applied later.  The *)
(* simplex-chat server and the portals of bridgev2 are external.            *)
(* There is one group; every person has a direct chat, should it exist.     *)
(***************************************************************************)
EXTENDS Naturals, Sequences, FiniteSets

CONSTANTS
    People,      \* the other SimpleX users
    ContactID,   \* the ID of each one's contact record, once it exists
    LoginIDs,    \* the IDs the login's own user may have, from a series of their own
    Friends,     \* the contacts at the start
    Founders,    \* the members at the start; the others are invited
    EventCap,    \* capacity of eventsCh (64 in the code)
    MaxChanges,  \* bound on what happens on SimpleX
    MaxSyncs     \* bound on the connections

ASSUME ChatSyncAssumption ==
    /\ Friends \subseteq People /\ Founders \subseteq People
    /\ ContactID \in [People -> Nat] /\ LoginIDs \subseteq Nat
    /\ \A p, q \in People : ContactID[p] = ContactID[q] => p = q
    /\ EventCap \in Nat \ {0} /\ MaxChanges \in Nat /\ MaxSyncs \in Nat \ {0}

VARIABLES
    (* the server: external *)
    loginID,   \* the ID of the login's user
    contacts,  \* the people that are contacts
    status,    \* each one's status as a member of the group
    profile,   \* the version of each profile, the group's among them
    up,        \* the connection of the bridge
    changes,   \* how much has happened
    (* the bridge *)
    events,    \* eventsCh
    synced,    \* ChatsSynced of the login's metadata, in the database
    sync,      \* the goroutine that runs syncChats for each connection
    (* the portals and ghosts: external, but for GetChatInfo *)
    queue,     \* resyncs queued to each portal
    work,      \* the resync a portal is at
    room,      \* the Matrix rooms
    ghost,     \* the version of the profile each ghost shows: 0 for none
    lookup,    \* a ghost's profile being fetched by GetUserInfo
    (* history *)
    missed,    \* portals an event about which was lost since they were last
               \* fetched, or listed if it is a direct chat's
    behind     \* people an update of whose profile was lost or overtaken

serverVars  == <<loginID, contacts, status, profile, up, changes>>
bridgeVars  == <<events, synced, sync>>
historyVars == <<missed, behind>>
vars == <<serverVars, bridgeVars, queue, work, room, ghost, lookup, historyVars>>

-----------------------------------------------------------------------------
(* Identifiers.  Users are named after a contact ID, in plain digits, or    *)
(* after a member ID, which is marked as one.                               *)

MakeUserID(id) == <<"contact", id>>
MakeMemberUserID(p) == <<"member", p>>
MakeDMPortalID(id) == <<"d", id>>
MakeGroupPortalID(id) == <<"g", id>>

Group == MakeGroupPortalID(1)
DM(p) == MakeDMPortalID(ContactID[p])
Portals == {Group} \union {DM(p) : p \in People}

(* Nobody is a group.                                                       *)
ASSUME GroupAssumption == Group \notin People

Self == MakeUserID(loginID)
UserIDs == {MakeUserID(id) : id \in LoginIDs}
                  \union {MakeUserID(ContactID[p]) : p \in People}
                  \union {MakeMemberUserID(p) : p \in People}

(* The ID of a member: that of the contact, if there is one.                *)
MemberID(p) == IF p \in contacts THEN MakeUserID(ContactID[p]) ELSE MakeMemberUserID(p)

-----------------------------------------------------------------------------
NoRoom == [exists |-> FALSE, title |-> 0, members |-> {}]
Idle   == [at |-> "idle", full |-> FALSE, title |-> 0, infos |-> {}]
NoLookup == [uid |-> MakeUserID(0), ver |-> 0]

Init ==
    /\ loginID \in LoginIDs
    /\ contacts = Friends
    /\ status = [p \in People |-> IF p \in Founders THEN "active" ELSE "invited"]
    /\ profile = [x \in People \union {Group} |-> 1]
    /\ up = TRUE /\ changes = 0
    /\ events = << >> /\ synced = FALSE
    /\ sync = [k \in 1 .. MaxSyncs |->
                 [at |-> IF k = 1 THEN "begin" ELSE "none", reconnect |-> FALSE]]
    /\ queue = [q \in Portals |-> << >>]
    /\ work = [q \in Portals |-> Idle]
    /\ room = [q \in Portals |-> NoRoom]
    /\ ghost = [u \in UserIDs |-> 0]
    /\ lookup = NoLookup
    /\ missed = {} /\ behind = {}

-----------------------------------------------------------------------------
(* The server.  An event is lost when there is no connection and when       *)
(* eventsCh is full.                                                        *)

Heard == up /\ Len(events) < EventCap

Emit(type, who, q) ==
    IF Heard
    THEN /\ events' = Append(events, [type |-> type, who |-> who, ver |-> profile'[who]])
         /\ UNCHANGED missed
    ELSE missed' = missed \union {q} /\ UNCHANGED events

Happens == changes < MaxChanges /\ changes' = changes + 1

JoinsGroup(p) ==
    /\ status[p] # "active"
    /\ status' = [status EXCEPT ![p] = "active"]
    /\ UNCHANGED <<contacts, profile, behind>>
    /\ Emit("joinedGroupMember", p, Group)

(* One who left, or was removed, stays in the list with another status.     *)
LeavesGroup(p) ==
    /\ status[p] = "active"
    /\ status' = [status EXCEPT ![p] = "left"]
    /\ UNCHANGED <<contacts, profile, behind>>
    /\ Emit("leftMember", p, Group)

RequestsContact(p) ==
    /\ p \notin contacts
    /\ UNCHANGED <<contacts, status, profile, behind>>
    /\ Emit("receivedContactRequest", p, DM(p))

(* After a request was accepted, or by an address the user entered.         *)
Connects(p) ==
    /\ contacts' = contacts \union {p}
    /\ UNCHANGED <<status, profile, behind>>
    /\ Emit("contactConnected", p, DM(p))

RenamesGroup ==
    /\ profile' = [profile EXCEPT ![Group] = @ + 1]
    /\ UNCHANGED <<contacts, status, behind>>
    /\ Emit("groupUpdated", Group, Group)

(* Only contacts' new profiles are announced to the bridge.                 *)
Renames(p) ==
    /\ profile' = [profile EXCEPT ![p] = @ + 1]
    /\ IF p \in contacts /\ Heard
       THEN events' = Append(events, [type |-> "contactUpdated", who |-> p, ver |-> profile'[p]])
       ELSE UNCHANGED events
    /\ behind' = IF p \in contacts /\ ~Heard THEN behind \union {p} ELSE behind
    /\ UNCHANGED <<contacts, status, missed>>

Server ==
    /\ Happens
    /\ \/ RenamesGroup
       \/ \E p \in People : \/ JoinsGroup(p) \/ LeavesGroup(p) \/ RequestsContact(p)
                            \/ Connects(p) \/ Renames(p)
    /\ UNCHANGED <<loginID, up, synced, sync, queue, work, room, ghost, lookup>>

-----------------------------------------------------------------------------
(* The connection.  The next one waits for the events of the last one       *)
(* (WsClient), and starts a goroutine of its own (Lifecycle).               *)

Disconnects ==
    /\ up
    /\ up' = FALSE
    /\ UNCHANGED <<loginID, contacts, status, profile, changes, bridgeVars, queue, work, room, ghost, lookup>>
    /\ UNCHANGED historyVars

Reconnects ==
    /\ ~up /\ events = << >>
    /\ \E k \in 2 .. MaxSyncs :
          /\ sync[k].at = "none" /\ sync[k - 1].at # "none"
          /\ sync' = [sync EXCEPT ![k].at = "begin"]
    /\ up' = TRUE
    /\ UNCHANGED <<loginID, contacts, status, profile, changes, events, synced>>
    /\ UNCHANGED <<queue, work, room, ghost, lookup, historyVars>>

At(k, place) == sync[k].at = place

(* The portal an event is about.                                            *)
About(e) == IF e.type \in {"contactConnected", "receivedContactRequest", "contactUpdated"}
            THEN DM(e.who) ELSE Group

Unhandled == {q \in Portals : queue[q] # << >> \/ work[q] # Idle}
                \union {About(events[j]) : j \in DOMAIN events}

(* The bridge dies and starts anew: only rooms, ghosts and ChatsSynced last.*)
Restarts ==
    /\ up' = FALSE /\ events' = << >>
    /\ sync' = [k \in DOMAIN sync |->
                  IF At(k, "none") THEN sync[k] ELSE [at |-> "done", reconnect |-> FALSE]]
    /\ queue' = [q \in Portals |-> << >>]
    /\ work' = [q \in Portals |-> Idle]
    /\ lookup' = NoLookup
    /\ missed' = missed \union Unhandled
    /\ behind' = behind \union {p \in People : \E j \in DOMAIN events :
                                   events[j].type = "contactUpdated" /\ events[j].who = p}
    /\ UNCHANGED <<loginID, contacts, status, profile, changes, synced, room, ghost>>

-----------------------------------------------------------------------------
(* syncChats.                                                               *)

Goto(k, place) == sync' = [sync EXCEPT ![k].at = place]

Resync(full, create) == [full |-> full, create |-> create]
QueueTo(qs, r) == queue' = [q \in Portals |-> IF q \in qs THEN Append(queue[q], r) ELSE queue[q]]

SyncBegins(k) ==
    /\ At(k, "begin")
    /\ sync' = [sync EXCEPT ![k] = [at |-> "contacts", reconnect |-> synced]]
    /\ UNCHANGED <<queue, synced, missed>>

(* Mutant: a later sync creates no rooms.                                   *)
EnumerateOnce(k, qs) ==
    IF up THEN /\ QueueTo(qs, Resync(~sync[k].reconnect, ~sync[k].reconnect))
               /\ missed' = missed \ (qs \ {Group})
          ELSE missed' = missed \union qs /\ UNCHANGED queue

(* What ListContacts or ListGroups lists is resynced, with the member lists *)
(* taken out of a reconnect's; a failure is only logged.                    *)
Enumerate(k, qs) ==
    IF up THEN /\ QueueTo(qs, Resync(~sync[k].reconnect, TRUE))
               /\ missed' = missed \ (qs \ {Group})
          ELSE missed' = missed \union qs /\ UNCHANGED queue

SyncContacts(k) ==
    /\ At(k, "contacts")
    /\ Enumerate(k, {DM(p) : p \in contacts})
    /\ Goto(k, "groups")
    /\ UNCHANGED synced

SyncGroups(k) ==
    /\ At(k, "groups")
    /\ Enumerate(k, {Group})
    /\ Goto(k, "mark")
    /\ UNCHANGED synced

MarkSynced(k) ==
    /\ At(k, "mark")
    /\ synced' = TRUE
    /\ sync' = [sync EXCEPT ![k] = [at |-> "done", reconnect |-> FALSE]]
    /\ UNCHANGED <<queue, missed>>

SyncChats ==
    /\ \E k \in DOMAIN sync : \/ SyncBegins(k) \/ SyncContacts(k)
                              \/ SyncGroups(k) \/ MarkSynced(k)
    /\ UNCHANGED <<serverVars, events, work, room, ghost, lookup, behind>>

-----------------------------------------------------------------------------
(* handleSimplexEvent.                                                      *)

Take(types) == /\ events # << >> /\ Head(events).type \in types
               /\ events' = Tail(events)

Who == Head(events).who

(* handleJoinedGroupMember, handleMemberLeft and handleGroupUpdated.        *)
HandleGroupEvent ==
    /\ Take({"joinedGroupMember", "leftMember", "groupUpdated"})
    /\ QueueTo({Group}, Resync(TRUE, FALSE))
    /\ UNCHANGED <<contacts, ghost, missed, behind>>

HandleContactConnected ==
    /\ Take({"contactConnected"})
    /\ QueueTo({DM(Who)}, Resync(TRUE, TRUE))
    /\ UNCHANGED <<contacts, ghost, missed, behind>>

(* AcceptContact; when it fails the request is forgotten.                   *)
HandleReceivedContactRequest ==
    /\ Take({"receivedContactRequest"})
    /\ IF up
       THEN contacts' = contacts \union {Who} /\ QueueTo({DM(Who)}, Resync(TRUE, TRUE))
       ELSE UNCHANGED <<contacts, queue>>
    /\ UNCHANGED <<ghost, missed, behind>>

(* An older profile of p is on its way to its ghost.                        *)
Overtakes(p, ver) ==
    LET uid == MakeUserID(ContactID[p])
        onTheWay == (UNION {work[q].infos : q \in Portals}) \union {lookup}
    IN  \E i \in onTheWay : i.uid = uid /\ i.ver # 0 /\ i.ver < ver

(* Mutant: the profile before the update is taken.                          *)
ContactUpdatedFrom ==
    /\ Take({"contactUpdated"})
    /\ ghost' = [ghost EXCEPT ![MakeUserID(ContactID[Who])] = Head(events).ver - 1]
    /\ behind' = IF Overtakes(Who, Head(events).ver) THEN behind \union {Who} ELSE behind
    /\ UNCHANGED <<contacts, queue, missed>>

(* The only handler that updates a ghost, and from the event itself.        *)
HandleContactUpdated ==
    /\ Take({"contactUpdated"})
    /\ ghost' = [ghost EXCEPT ![MakeUserID(ContactID[Who])] = Head(events).ver]
    /\ behind' = IF Overtakes(Who, Head(events).ver) THEN behind \union {Who} ELSE behind
    /\ UNCHANGED <<contacts, queue, missed>>

HandleSimplexEvent ==
    /\ \/ HandleGroupEvent \/ HandleContactConnected
       \/ HandleReceivedContactRequest \/ HandleContactUpdated
    /\ UNCHANGED <<loginID, status, profile, up, changes, synced, sync, work, room, lookup>>

-----------------------------------------------------------------------------
(* The portals.                                                             *)

Info(uid, p) == [uid |-> uid, ver |-> profile[p]]

(* A portal takes the next resync and, unless there is no room and none is  *)
(* to be created, calls GetChatInfo: ListContacts, or ListGroups with the   *)
(* members to follow.  A room that is created gets its members although a   *)
(* reconnect's resync has none: the framework asks again.                   *)
ReadChat(q) ==
    /\ work[q] = Idle /\ queue[q] # << >>
    /\ queue' = [queue EXCEPT ![q] = Tail(@)]
    /\ LET r == Head(queue[q])
           full == r.full \/ ~room[q].exists
       IN  IF ~room[q].exists /\ ~r.create THEN UNCHANGED <<work, missed>>
           ELSE IF ~up
           THEN missed' = (IF full THEN missed \union {q} ELSE missed) /\ UNCHANGED work
           ELSE /\ missed' = IF full THEN missed \ {q} ELSE missed
                /\ \/ /\ q = Group
                      /\ work' = [work EXCEPT ![q] =
                            [at |-> "members", full |-> full, title |-> profile[Group], infos |-> {}]]
                   \/ \E p \in People :
                      /\ q = DM(p)
                      /\ work' = [work EXCEPT ![q] =
                            [at |-> "apply", full |-> full, title |-> profile[p],
                             infos |-> IF full THEN {Info(MakeUserID(ContactID[p]), p)} ELSE {}]]
    /\ UNCHANGED <<room, ghost>>

(* Mutant: everyone the group lists is taken for a member of it.            *)
ListedMembers == People

(* groupToChatInfo leaves out those whose status is not that of a member.   *)
GroupMembers == {p \in People : status[p] = "active"}

(* ListMembers.                                                             *)
ReadMembers ==
    /\ work[Group].at = "members"
    /\ IF up
       THEN /\ work' = [work EXCEPT ![Group].at = "apply",
                                    ![Group].infos = IF work[Group].full
                                                     THEN {Info(MemberID(p), p) : p \in GroupMembers}
                                                     ELSE {}]
            /\ UNCHANGED missed
       ELSE /\ work' = [work EXCEPT ![Group] = Idle]
            /\ missed' = IF work[Group].full THEN missed \union {Group} ELSE missed
    /\ UNCHANGED <<queue, room, ghost>>

(* The room is created or brought up to date: the member list is complete,  *)
(* and has the login's user in it, whose entry hides that of a contact with *)
(* the same ID.                                                             *)
Apply(q) ==
    /\ work[q].at = "apply"
    /\ work' = [work EXCEPT ![q] = Idle]
    /\ LET infos == {i \in work[q].infos : i.uid # Self}
       IN  /\ room' = [room EXCEPT ![q] =
                 [exists |-> TRUE, title |-> work[q].title,
                  members |-> IF work[q].full THEN {Self} \union {i.uid : i \in infos}
                              ELSE @.members]]
           /\ ghost' = [u \in UserIDs |-> IF \E i \in infos : i.uid = u
                                          THEN (CHOOSE i \in infos : i.uid = u).ver
                                          ELSE ghost[u]]
    /\ UNCHANGED <<queue, missed>>

Portal ==
    /\ ReadMembers \/ \E q \in Portals : ReadChat(q) \/ Apply(q)
    /\ UNCHANGED <<serverVars, bridgeVars, lookup, behind>>

(* GetUserInfo, for one who speaks while its ghost has no name: a contact   *)
(* is looked for among the contacts, a member in the lists of all groups,   *)
(* whatever its status.                                                     *)
LooksUp(p) ==
    /\ lookup = NoLookup /\ up /\ ghost[MemberID(p)] = 0
    /\ lookup' = Info(MemberID(p), p)
    /\ UNCHANGED ghost

LookedUp ==
    /\ lookup # NoLookup
    /\ ghost' = [ghost EXCEPT ![lookup.uid] = lookup.ver]
    /\ lookup' = NoLookup

GetUserInfo ==
    /\ LookedUp \/ \E p \in People : LooksUp(p)
    /\ UNCHANGED <<serverVars, bridgeVars, queue, work, room, historyVars>>

-----------------------------------------------------------------------------
Next == \/ Server \/ Disconnects \/ Reconnects \/ Restarts
        \/ SyncChats \/ HandleSimplexEvent \/ Portal \/ GetUserInfo

Spec == Init /\ [][Next]_vars

-----------------------------------------------------------------------------
(* Properties.                                                              *)

UserInfos == [uid : UserIDs, ver : Nat]

TypeOK ==
    /\ loginID \in LoginIDs /\ contacts \subseteq People
    /\ status \in [People -> {"invited", "active", "left"}]
    /\ profile \in [People \union {Group} -> Nat \ {0}]
    /\ up \in BOOLEAN /\ changes \in 0 .. MaxChanges
    /\ events \in Seq([type : {"joinedGroupMember", "leftMember", "groupUpdated",
                               "contactConnected", "receivedContactRequest",
                               "contactUpdated"},
                       who : People \union {Group}, ver : Nat])
    /\ Len(events) <= EventCap
    /\ synced \in BOOLEAN
    /\ sync \in [1 .. MaxSyncs ->
                   [at : {"none", "begin", "contacts", "groups", "mark", "done"},
                    reconnect : BOOLEAN]]
    /\ queue \in [Portals -> Seq([full : BOOLEAN, create : BOOLEAN])]
    /\ work \in [Portals -> [at : {"idle", "members", "apply"}, full : BOOLEAN,
                             title : Nat, infos : SUBSET UserInfos]]
    /\ room \in [Portals -> [exists : BOOLEAN, title : Nat, members : SUBSET UserIDs]]
    /\ ghost \in [UserIDs -> Nat] /\ lookup \in UserInfos \union {NoLookup}
    /\ missed \subseteq Portals /\ behind \subseteq People

(* Connected, and everything that was heard or listed is dealt with.        *)
Quiet ==
    /\ up /\ events = << >> /\ lookup = NoLookup
    /\ \A k \in DOMAIN sync : sync[k].at \in {"none", "done"}
    /\ \A q \in Portals : queue[q] = << >> /\ work[q] = Idle

(* The IDs by which a person may be in a room, and those that tell.         *)
Names(p) == {MakeUserID(ContactID[p]), MakeMemberUserID(p)}
Apart(p) == ContactID[p] # loginID

(* Once everything is dealt with, the room of the group has its title, the  *)
(* login's user and each member by exactly one name, although a member may  *)
(* come, go or become a contact between the reading of the list and its use *)
(* and two syncs and the event loop queue resyncs at the same time; unless  *)
(* an event or a fetch was lost since.  A contact whose ID happens to be    *)
(* the login's cannot be told from it.                                      *)
RoomFollowsGroup ==
    (Quiet /\ room[Group].exists /\ Group \notin missed) =>
        /\ room[Group].title = profile[Group]
        /\ Self \in room[Group].members
        /\ \A p \in People : Apart(p) =>
              Cardinality(Names(p) \intersect room[Group].members)
                  = IF status[p] = "active" THEN 1 ELSE 0

(* Every contact ends up with a room, be it found by a sync or announced by *)
(* an event, and after a restart that lost both.                            *)
ContactsHaveRooms ==
    Quiet => \A p \in contacts : DM(p) \in missed \/ room[DM(p)].exists

(* A ghost shows the last profile of its contact, unless an update of it    *)
(* was lost or came while an older one was about to be applied.             *)
GhostsKeepUp ==
    Quiet => \A p \in contacts \ behind :
                Apart(p) => ghost[MakeUserID(ContactID[p])] \in {0, profile[p]}

(* "Sync contacts and groups on every connect to keep avatars/profiles up   *)
(* to date" (pkg/connector/client.go): when nothing was lost but for want   *)
(* of a connection, and the sync that followed is dealt with, contacts are  *)
(* shown as they are.                                                       *)
ProfilesUpToDate ==
    (Quiet /\ missed = {}) =>
        \A p \in contacts : Apart(p) =>
            ghost[MakeUserID(ContactID[p])] = profile[p]
================================================================================
