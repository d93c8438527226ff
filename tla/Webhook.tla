-------------------------------- MODULE Webhook --------------------------------
(***************************************************************************)
(* The webhook bridge of pkg/webhook: HTTP requests, each in a goroutine of *)
(* its own, become messages in Matrix rooms.  They share the slot of the    *)
(* active login and the map of room names.  Logging in and out changes the  *)
(* slot; the portals and the table of logins are bridgev2's, external.      *)
(***************************************************************************)
EXTENDS Naturals, Sequences, FiniteSets

CONSTANTS
    Users,         \* Matrix users that may activate the bridge
    Requests,      \* POST requests
    Keys,          \* room keys
    Key,           \* the room key each request renders
    Names,         \* room names
    Name,          \* the room name each request renders (its key when that fails)
    nil,           \* no login
    NoName,        \* no room name
    SerialLogins   \* do the users log in and out one at a time?

ASSUME WebhookAssumption ==
    /\ nil \notin Users /\ NoName \notin Names
    /\ Key \in [Requests -> Keys] /\ Name \in [Requests -> Names]
    /\ SerialLogins \in BOOLEAN

VARIABLES
    (* the WebhookConnector *)
    login,      \* the slot of the active login
    roomNames,  \* the room name stored for each key
    (* the goroutines *)
    flow,       \* where each user's login or logout is
    req,        \* where each request is
    answer,     \* its status code
    (* the framework: external *)
    owner,      \* the user that owns the login "webhook" in the database
    queue,      \* events queued to the portal of each key
    portal,     \* the name its room was created with
    outcome     \* what became of each queued event

loginVars  == <<login, flow, owner>>
portalVars == <<queue, portal, outcome>>
vars == <<loginVars, roomNames, req, answer, portalVars>>

(* The bridge starts with the login of the database, if any.                *)
Init ==
    /\ owner \in Users \union {nil} /\ login = owner
    /\ roomNames = [k \in Keys |-> NoName]
    /\ flow = [u \in Users |-> "idle"]
    /\ req = [r \in Requests |-> "idle"]
    /\ answer = [r \in Requests |-> 0]
    /\ queue = [k \in Keys |-> << >>]
    /\ portal = [k \in Keys |-> NoName]
    /\ outcome = [r \in Requests |-> "none"]

-----------------------------------------------------------------------------
(* WebhookLogin.Start and LogoutRemote.                                     *)

Settled == \A u \in Users : flow[u] = "idle"

(* User.NewLogin replaces the login of another user (DeleteOnConflict), and *)
(* has LoadUserLogin fill the slot.                                         *)
NewLogin(u) ==
    /\ flow[u] = "idle"
    /\ SerialLogins => Settled
    /\ owner' = u
    /\ login' = u
    /\ flow' = [flow EXCEPT ![u] = "created"]
    /\ UNCHANGED <<roomNames, req, answer, portalVars>>

(* The setLogin at the end of Start.                                        *)
SetLogin(u) ==
    /\ flow[u] = "created"
    /\ login' = u
    /\ flow' = [flow EXCEPT ![u] = "idle"]
    /\ UNCHANGED <<owner, roomNames, req, answer, portalVars>>

(* Mutant: logging out does not clear the slot.                             *)
LogoutRemoteKeepsSlot(u) ==
    /\ flow[u] = "idle" /\ owner = u
    /\ SerialLogins => Settled
    /\ flow' = [flow EXCEPT ![u] = "loggingOut"]
    /\ UNCHANGED <<owner, login, roomNames, req, answer, portalVars>>

(* The user logs out: LogoutRemote, then the framework deletes the login.   *)
LogoutRemote(u) ==
    /\ flow[u] = "idle" /\ owner = u
    /\ SerialLogins => Settled
    /\ login' = nil
    /\ flow' = [flow EXCEPT ![u] = "loggingOut"]
    /\ UNCHANGED <<owner, roomNames, req, answer, portalVars>>

DeleteLogin(u) ==
    /\ flow[u] = "loggingOut"
    /\ owner' = IF owner = u THEN nil ELSE owner
    /\ flow' = [flow EXCEPT ![u] = "idle"]
    /\ UNCHANGED <<login, roomNames, req, answer, portalVars>>

Logins == \E u \in Users : \/ NewLogin(u) \/ SetLogin(u)
                           \/ LogoutRemote(u) \/ DeleteLogin(u)

-----------------------------------------------------------------------------
(* makeHandler: a POST request.                                             *)

Respond(r, code) == /\ req' = [req EXCEPT ![r] = "answered"]
                    /\ answer' = [answer EXCEPT ![r] = code]

GetLogin(r) ==
    /\ req[r] = "idle"
    /\ IF login = nil THEN Respond(r, 503)
       ELSE req' = [req EXCEPT ![r] = "decode"] /\ UNCHANGED answer
    /\ UNCHANGED <<loginVars, roomNames, portalVars>>

(* The payload may be no JSON, and the room key template may fail on it.    *)
Refuse(r) ==
    /\ req[r] = "decode"
    /\ Respond(r, 400) \/ Respond(r, 500)
    /\ UNCHANGED <<loginVars, roomNames, portalVars>>

(* Mutant: the name is stored for the webhook, not under the room key.      *)
SetRoomNameForAll(r) ==
    /\ req[r] = "decode"
    /\ roomNames' = [k \in Keys |-> Name[r]]
    /\ req' = [req EXCEPT ![r] = "named"]
    /\ UNCHANGED <<loginVars, answer, portalVars>>

SetRoomName(r) ==
    /\ req[r] = "decode"
    /\ roomNames' = [roomNames EXCEPT ![Key[r]] = Name[r]]
    /\ req' = [req EXCEPT ![r] = "named"]
    /\ UNCHANGED <<loginVars, answer, portalVars>>

QueueRemoteEvent(r) ==
    /\ req[r] = "named"
    /\ queue' = [queue EXCEPT ![Key[r]] = Append(@, r)]
    /\ Respond(r, 200)
    /\ UNCHANGED <<loginVars, roomNames, portal, outcome>>

Request(r) == GetLogin(r) \/ Refuse(r) \/ SetRoomName(r) \/ QueueRemoteEvent(r)

-----------------------------------------------------------------------------
(* The portal of a key: it creates its room for the first event, with the   *)
(* name GetChatInfo finds, and posts what ConvertMessageFunc renders.       *)

CreateRoom(k) ==
    /\ queue[k] # << >> /\ portal[k] = NoName
    /\ portal' = [portal EXCEPT ![k] = IF roomNames[k] = NoName THEN "key" ELSE roomNames[k]]
    /\ UNCHANGED <<loginVars, roomNames, req, answer, queue, outcome>>

(* The plain template may fail on the payload.                              *)
Convert(k) ==
    /\ queue[k] # << >> /\ portal[k] # NoName
    /\ \E result \in {"posted", "failed"} :
          outcome' = [outcome EXCEPT ![Head(queue[k])] = result]
    /\ queue' = [queue EXCEPT ![k] = Tail(@)]
    /\ UNCHANGED <<loginVars, roomNames, req, answer, portal>>

Next == \/ Logins
        \/ \E r \in Requests : Request(r)
        \/ \E k \in Keys : CreateRoom(k) \/ Convert(k)

Spec == Init /\ [][Next]_vars

-----------------------------------------------------------------------------
(* Properties.                                                              *)

TypeOK ==
    /\ login \in Users \union {nil} /\ owner \in Users \union {nil}
    /\ roomNames \in [Keys -> Names \union {NoName}]
    /\ flow \in [Users -> {"idle", "created", "loggingOut"}]
    /\ req \in [Requests -> {"idle", "decode", "named", "answered"}]
    /\ answer \in [Requests -> {0, 200, 400, 500, 503}]
    /\ queue \in [Keys -> Seq(Requests)]
    /\ portal \in [Keys -> Names \union {NoName, "key"}]
    /\ outcome \in [Requests -> {"none", "posted", "failed"}]

(* However requests for the same and for different rooms interleave, a room *)
(* is created with a name that a request for this very room gave it: the    *)
(* name is there before the event that needs it, and never another room's.  *)
RoomNamedByItsRequest ==
    \A k \in Keys :
        portal[k] # NoName => \E r \in Requests : /\ Key[r] = k
                                                  /\ Name[r] = portal[k]
                                                  /\ req[r] \in {"named", "answered"}

(* "getLogin returns the active user login, or nil if none"                 *)
(* (pkg/webhook/connector.go), whenever no login or logout is under way.    *)
SlotIsActiveLogin == Settled => login = owner

(* The same, for users who log in and out one at a time.                    *)
SlotIsActiveLoginSerial == SerialLogins => SlotIsActiveLogin
================================================================================
