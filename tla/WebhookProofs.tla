----------------------------- MODULE WebhookProofs -----------------------------
(* Theorems about Webhook, for any users, requests and room keys.           *)
EXTENDS Webhook, TLAPS

-----------------------------------------------------------------------------
(* Type correctness.                                                        *)

LEMMA TypeInit == Init => TypeOK
BY DEF Init, TypeOK

LEMMA TypeNext == TypeOK /\ [Next]_vars => TypeOK'
<1> SUFFICES ASSUME TypeOK, [Next]_vars PROVE TypeOK'
  OBVIOUS
<1> USE WebhookAssumption DEF WebhookAssumption, TypeOK, loginVars, portalVars
<1>1. CASE Logins
  BY <1>1 DEF Logins, NewLogin, SetLogin, LogoutRemote, DeleteLogin
<1>2. ASSUME NEW r \in Requests, Request(r) PROVE TypeOK'
  <2>1. CASE GetLogin(r)
    <3>1. /\ req' \in [Requests -> {"idle", "decode", "named", "answered"}]
          /\ answer' \in [Requests -> {0, 200, 400, 500, 503}]
      <4>1. \/ req' = [req EXCEPT ![r] = "answered"] /\ answer' = [answer EXCEPT ![r] = 503]
            \/ req' = [req EXCEPT ![r] = "decode"] /\ answer' = answer
        BY <2>1, Zenon DEF GetLogin, Respond
      <4>2. CASE req' = [req EXCEPT ![r] = "decode"] /\ answer' = answer
        BY <4>2
      <4>3. CASE req' = [req EXCEPT ![r] = "answered"] /\ answer' = [answer EXCEPT ![r] = 503]
        <5>1. req' \in [Requests -> {"idle", "decode", "named", "answered"}]
          BY <4>3
        <5>2. answer' \in [Requests -> {0, 200, 400, 500, 503}]
          BY <4>3
        <5> QED BY <5>1, <5>2
      <4> QED BY <4>1, <4>2, <4>3
    <3>2. UNCHANGED <<loginVars, roomNames, portalVars>>
      BY <2>1 DEF GetLogin
    <3> QED BY <3>1, <3>2
  <2>2. CASE Refuse(r)
    <3>1. CASE Respond(r, 400)
      BY <2>2, <3>1 DEF Refuse, Respond
    <3>2. CASE Respond(r, 500)
      BY <2>2, <3>2 DEF Refuse, Respond
    <3> QED BY <2>2, <3>1, <3>2 DEF Refuse
  <2>3. CASE SetRoomName(r)
    BY <2>3 DEF SetRoomName
  <2>4. CASE QueueRemoteEvent(r)
    <3>1. queue' \in [Keys -> Seq(Requests)]
      BY <2>4 DEF QueueRemoteEvent
    <3> QED BY <2>4, <3>1 DEF QueueRemoteEvent, Respond
  <2> QED BY <1>2, <2>1, <2>2, <2>3, <2>4 DEF Request
<1>3. ASSUME NEW k \in Keys, CreateRoom(k) PROVE TypeOK'
  <2>1. portal' \in [Keys -> Names \union {NoName, "key"}]
    BY <1>3 DEF CreateRoom
  <2> QED BY <1>3, <2>1 DEF CreateRoom
<1>4. ASSUME NEW k \in Keys, Convert(k) PROVE TypeOK'
  <2>1. queue' \in [Keys -> Seq(Requests)]
    BY <1>4 DEF Convert
  <2>2. outcome' \in [Requests -> {"none", "posted", "failed"}]
    BY <1>4 DEF Convert
  <2> QED BY <1>4, <2>1, <2>2 DEF Convert
<1>5. CASE UNCHANGED vars
  BY <1>5 DEF vars
<1> QED BY <1>1, <1>2, <1>3, <1>4, <1>5 DEF Next

(* Every variable of the webhook bridge keeps its type.                     *)
THEOREM TypeCorrect == Spec => []TypeOK
BY TypeInit, TypeNext, PTL DEF Spec

-----------------------------------------------------------------------------
(* Room names.  A name is stored by a request for the room that is past     *)
(* SetRoomName for good, and before anything is queued to the room.         *)

Past(r) == req[r] \in {"named", "answered"}

StoredByRequest ==
    \A k \in Keys :
        roomNames[k] # NoName => \E r \in Requests : /\ Key[r] = k
                                                     /\ Name[r] = roomNames[k]
                                                     /\ Past(r)

StoredInTime ==
    /\ \A r \in Requests : req[r] = "named" => roomNames[Key[r]] # NoName
    /\ \A k \in Keys : queue[k] # << >> => roomNames[k] # NoName

NamesInv == TypeOK /\ StoredByRequest /\ StoredInTime /\ RoomNamedByItsRequest

LEMMA NamesStep == NamesInv /\ [Next]_vars => NamesInv'
<1> SUFFICES ASSUME NamesInv, [Next]_vars PROVE NamesInv'
  OBVIOUS
<1> USE WebhookAssumption DEF WebhookAssumption, NamesInv, StoredByRequest,
        StoredInTime, RoomNamedByItsRequest, Past
<1>0. TypeOK'
  BY TypeNext
<1>1. ASSUME UNCHANGED <<roomNames, portal, queue>>,
             \A r \in Requests : Past(r) => Past(r)',
             \A r \in Requests : req'[r] = "named" => req[r] = "named"
      PROVE  NamesInv'
  BY <1>0, <1>1 DEF TypeOK
<1>2. CASE Logins
  BY <1>1, <1>2 DEF Logins, NewLogin, SetLogin, LogoutRemote, DeleteLogin, portalVars
<1>3. ASSUME NEW r \in Requests, GetLogin(r) \/ Refuse(r) PROVE NamesInv'
  BY <1>1, <1>3 DEF GetLogin, Refuse, Respond, portalVars, TypeOK
<1>4. ASSUME NEW r \in Requests, SetRoomName(r) PROVE NamesInv'
  <2>1. /\ req[r] = "decode" /\ req' = [req EXCEPT ![r] = "named"]
        /\ roomNames' = [roomNames EXCEPT ![Key[r]] = Name[r]]
        /\ UNCHANGED <<queue, portal>>
    BY <1>4 DEF SetRoomName, portalVars
  <2>2. Key[r] \in Keys /\ Name[r] # NoName
    OBVIOUS
  <2>3. \A s \in Requests : Past(s) => Past(s)'
    BY <2>1 DEF TypeOK
  <2>4. Past(r)'
    BY <2>1 DEF TypeOK
  <2>5. roomNames'[Key[r]] = Name[r] /\ \A k \in Keys \ {Key[r]} : roomNames'[k] = roomNames[k]
    BY <2>1, <2>2 DEF TypeOK
  <2>6. StoredByRequest'
    BY <2>2, <2>3, <2>4, <2>5
  <2>7. StoredInTime'
    BY <2>1, <2>2, <2>5 DEF TypeOK
  <2>8. RoomNamedByItsRequest'
    BY <2>1, <2>3
  <2> QED BY <1>0, <2>6, <2>7, <2>8
<1>5. ASSUME NEW r \in Requests, QueueRemoteEvent(r) PROVE NamesInv'
  <2>1. /\ req[r] = "named" /\ req' = [req EXCEPT ![r] = "answered"]
        /\ queue' = [queue EXCEPT ![Key[r]] = Append(@, r)]
        /\ UNCHANGED <<roomNames, portal>>
    BY <1>5 DEF QueueRemoteEvent, Respond
  <2>2. \A s \in Requests : Past(s) => Past(s)'
    BY <2>1 DEF TypeOK
  <2>3. \A k \in Keys \ {Key[r]} : queue'[k] = queue[k]
    BY <2>1 DEF TypeOK
  <2>4. StoredInTime'
    BY <2>1, <2>3 DEF TypeOK
  <2> QED BY <1>0, <2>1, <2>2, <2>4
<1>6. ASSUME NEW k \in Keys, CreateRoom(k) PROVE NamesInv'
  <2>1. /\ queue[k] # << >>
        /\ portal' = [portal EXCEPT ![k] = IF roomNames[k] = NoName THEN "key" ELSE roomNames[k]]
        /\ UNCHANGED <<roomNames, queue, req>>
    BY <1>6 DEF CreateRoom
  <2>2. portal'[k] = roomNames[k] /\ \A j \in Keys \ {k} : portal'[j] = portal[j]
    BY <2>1 DEF TypeOK
  <2> QED BY <1>0, <2>1, <2>2
<1>7. ASSUME NEW k \in Keys, Convert(k) PROVE NamesInv'
  <2>1. queue[k] # << >> /\ queue' = [queue EXCEPT ![k] = Tail(@)] /\ UNCHANGED <<roomNames, portal, req>>
    BY <1>7 DEF Convert
  <2>2. \A j \in Keys : queue'[j] # << >> => queue[j] # << >>
    BY <2>1 DEF TypeOK
  <2> QED BY <1>0, <2>1, <2>2
<1>8. CASE UNCHANGED vars
  BY <1>1, <1>8 DEF vars, portalVars
<1> QED BY <1>2, <1>3, <1>4, <1>5, <1>6, <1>7, <1>8 DEF Next, Request

(* A room is created with a name that a request for this room gave it.      *)
THEOREM RoomsAreNamed == Spec => []RoomNamedByItsRequest
<1>1. Init => NamesInv
  BY TypeInit DEF Init, NamesInv, StoredByRequest, StoredInTime, RoomNamedByItsRequest
<1>2. NamesInv => RoomNamedByItsRequest
  BY DEF NamesInv
<1> QED BY <1>1, <1>2, NamesStep, PTL DEF Spec

-----------------------------------------------------------------------------
(* The slot of the login, for users who log in and out one at a time.       *)

OneAtATime ==
    SerialLogins =>
        /\ \A u, v \in Users : flow[u] # "idle" /\ flow[v] # "idle" => u = v
        /\ \A u \in Users : flow[u] = "created" => login = u /\ owner = u
        /\ \A u \in Users : flow[u] = "loggingOut" => login = nil /\ owner = u
        /\ Settled => login = owner

LEMMA SlotStep == TypeOK /\ OneAtATime /\ [Next]_vars => OneAtATime'
<1> SUFFICES ASSUME TypeOK, OneAtATime, [Next]_vars, SerialLogins PROVE OneAtATime'
  BY DEF OneAtATime
<1> USE WebhookAssumption DEF WebhookAssumption, TypeOK, OneAtATime, Settled
<1>1. ASSUME NEW u \in Users, NewLogin(u) PROVE OneAtATime'
  BY <1>1 DEF NewLogin
<1>2. ASSUME NEW u \in Users, SetLogin(u) PROVE OneAtATime'
  BY <1>2 DEF SetLogin
<1>3. ASSUME NEW u \in Users, LogoutRemote(u) PROVE OneAtATime'
  BY <1>3 DEF LogoutRemote
<1>4. ASSUME NEW u \in Users, DeleteLogin(u) PROVE OneAtATime'
  BY <1>4 DEF DeleteLogin
<1>5. CASE UNCHANGED loginVars
  BY <1>5 DEF loginVars
<1>6. CASE \E r \in Requests : Request(r)
  BY <1>5, <1>6 DEF Request, GetLogin, Refuse, SetRoomName, QueueRemoteEvent
<1>7. CASE \E k \in Keys : CreateRoom(k) \/ Convert(k)
  BY <1>5, <1>7 DEF CreateRoom, Convert
<1>8. CASE UNCHANGED vars
  BY <1>5, <1>8 DEF vars
<1> QED BY <1>1, <1>2, <1>3, <1>4, <1>6, <1>7, <1>8 DEF Next, Logins

(* The slot holds the active login, or nil, as long as logins and logouts   *)
(* do not overlap.                                                          *)
THEOREM SlotFollowsLogin == Spec => []SlotIsActiveLoginSerial
<1>1. Init => OneAtATime
  BY DEF Init, OneAtATime
<1>2. OneAtATime => SlotIsActiveLoginSerial
  BY DEF OneAtATime, SlotIsActiveLoginSerial, SlotIsActiveLogin
<1> QED BY <1>1, <1>2, SlotStep, TypeCorrect, PTL DEF Spec
================================================================================
