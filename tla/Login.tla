--------------------------------- MODULE Login ---------------------------------
(***************************************************************************)
(* The two login flows of pkg/connector, the simplex-chat process that the  *)
(* managed one starts, and the client each saved login gets.  The process,  *)
(* the ports of the machine, and the framework that stores logins and loads *)
(* them at a start are external.                                            *)
(* Everyone has a SimpleX database of their own.  Nobody logs in again      *)
(* while their login or their process exists.                               *)
(***************************************************************************)
EXTENDS Naturals, FiniteSets

CONSTANTS
    Users,       \* Matrix users
    UserIDs,     \* the IDs the active users of their databases may have: every
                 \* database counts its own
    Ports,       \* the free TCP ports of the machine
    OwnPort,     \* the port on which each one would run simplex-chat oneself
    MaxDials,    \* dials of a managed login (10 in the code)
    MaxRestarts  \* bound on the restarts of the bridge

ASSUME LoginAssumption ==
    /\ UserIDs \subseteq [Users -> Nat]
    /\ "none" \notin Users /\ "trying" \notin Users
    /\ \A u, v \in Users : OwnPort[u] \notin Ports /\ (OwnPort[u] = OwnPort[v] => u = v)
    /\ MaxDials \in Nat \ {0} /\ MaxRestarts \in Nat

VARIABLES
    (* the users: external *)
    managed,   \* those for whom the bridge starts simplex-chat
    userID,    \* the ID of the active user in each one's database
    (* the machine: external *)
    proc,      \* each one's simplex-chat: "none", "starting", "up" or "dead"
    port,      \* the port it was given
    (* SubmitUserInput *)
    stage,     \* how far each one's login is
    ctx,       \* the context of the request is not done
    dials,     \* failed dials
    peer,      \* whose process the login is connected to
    (* the framework and the clients *)
    logins,    \* the login stored under each ID: its owner and its WSUrl
    conn,      \* the client of each: "none", "trying" or whose process it talks to
    restarts,
    (* history *)
    finders    \* who was given each port

userVars    == <<managed, userID>>
requestVars == <<stage, ctx, dials, peer>>
loginVars   == <<logins, conn>>
vars == <<userVars, proc, port, requestVars, loginVars, restarts, finders>>

IDs == {f[u] : f \in UserIDs, u \in Users}
NoLogin == [owner |-> 0, port |-> 0]
AllPorts == Ports \union {OwnPort[u] : u \in Users}

Alive(u) == proc[u] \in {"starting", "up"}
Listener(p) == {u \in Users : proc[u] = "up" /\ port[u] = p}
Submitted(u) == stage[u] \in {"spawn", "dial", "verify", "save"}
HasLogin(u) == \E id \in IDs : logins[id].owner = u

Init ==
    /\ managed \in SUBSET Users
    /\ userID \in UserIDs
    /\ proc = [u \in Users |-> IF u \in managed THEN "none" ELSE "up"]
    /\ port = [u \in Users |-> IF u \in managed THEN 0 ELSE OwnPort[u]]
    /\ stage = [u \in Users |-> "idle"]
    /\ ctx = [u \in Users |-> TRUE]
    /\ dials = [u \in Users |-> 0]
    /\ peer = [u \in Users |-> u]
    /\ logins = [id \in IDs |-> NoLogin]
    /\ conn = [id \in IDs |-> "none"]
    /\ restarts = 0
    /\ finders = [p \in Ports |-> {}]

-----------------------------------------------------------------------------
(* The processes.  exec.CommandContext kills its own when the context of    *)
(* the request is done, which it is once the request was answered, or when  *)
(* it is given up; a bot command's lasts.                                   *)

(* A port that was free when it was found may be taken by now.              *)
ProcessListens(u) ==
    /\ proc[u] = "starting"
    /\ proc' = [proc EXCEPT ![u] = IF Listener(port[u]) = {} THEN "up" ELSE "dead"]
    /\ UNCHANGED <<userVars, port, requestVars, loginVars, restarts, finders>>

ProcessDies(u) ==
    /\ Alive(u)
    /\ proc' = [proc EXCEPT ![u] = "dead"]
    /\ UNCHANGED <<userVars, port, requestVars, loginVars, restarts, finders>>

(* Those who run simplex-chat themselves start it again.                    *)
OwnerRestarts(u) ==
    /\ u \notin managed /\ proc[u] = "dead"
    /\ proc' = [proc EXCEPT ![u] = "up"]
    /\ UNCHANGED <<userVars, port, requestVars, loginVars, restarts, finders>>

Killed(u) == proc' = [proc EXCEPT ![u] = IF u \in managed /\ Alive(u) THEN "dead" ELSE @]

RequestEnds(u) ==
    /\ ctx[u]
    /\ Submitted(u) \/ (u \in managed /\ Alive(u))
    /\ ctx' = [ctx EXCEPT ![u] = FALSE]
    /\ Killed(u)
    /\ UNCHANGED <<userVars, port, stage, dials, peer, loginVars, restarts, finders>>

-----------------------------------------------------------------------------
(* SubmitUserInput of ManagedLogin and of WebSocketLogin.                   *)

Goto(u, place) == stage' = [stage EXCEPT ![u] = place]

(* An error is returned: the process is killed if it was started.           *)
Fails(u) == Goto(u, "failed") /\ Killed(u)

(* Users log in when they have no login, none in progress and no process    *)
(* left.  They are taken to: nothing in the code asks for it.               *)
MayLogIn(u) == /\ stage[u] \in {"idle", "complete", "failed"}
               /\ ~HasLogin(u)
               /\ u \in managed => ~Alive(u)

(* findFreePort closes its listener before it returns the port.             *)
FindFreePort(u) ==
    /\ u \in managed /\ MayLogIn(u)
    /\ ctx' = [ctx EXCEPT ![u] = TRUE]
    /\ \/ /\ Goto(u, "failed")
          /\ UNCHANGED <<port, finders>>
       \/ \E p \in Ports :
             /\ Listener(p) = {}
             /\ port' = [port EXCEPT ![u] = p]
             /\ finders' = [finders EXCEPT ![p] = @ \union {u}]
             /\ Goto(u, "spawn")
    /\ UNCHANGED <<userVars, proc, dials, peer, loginVars, restarts>>

(* cmd.Start.                                                               *)
Spawn(u) ==
    /\ stage[u] = "spawn"
    /\ \/ Goto(u, "failed") /\ UNCHANGED proc
       \/ ctx[u] /\ Goto(u, "dial") /\ proc' = [proc EXCEPT ![u] = "starting"]
    /\ UNCHANGED <<userVars, port, ctx, dials, peer, loginVars, restarts, finders>>

WebSocketLogin(u) ==
    /\ u \notin managed /\ MayLogIn(u)
    /\ Goto(u, "dial")
    /\ ctx' = [ctx EXCEPT ![u] = TRUE]
    /\ UNCHANGED <<userVars, proc, port, dials, peer, loginVars, restarts, finders>>

(* Mutant: the login waits until someone answers.                           *)
DialForever(u) ==
    /\ stage[u] = "dial"
    /\ \E w \in Listener(port[u]) : peer' = [peer EXCEPT ![u] = w]
    /\ Goto(u, "verify")
    /\ UNCHANGED <<userVars, proc, dials, port, ctx, loginVars, restarts, finders>>

(* simplexclient.New, once or, for a managed process, MaxDials times in a   *)
(* row without a pause.                                                     *)
Dial(u) ==
    /\ stage[u] = "dial"
    /\ \/ /\ ctx[u]
          /\ \E w \in Listener(port[u]) : peer' = [peer EXCEPT ![u] = w]
          /\ Goto(u, "verify")
          /\ dials' = [dials EXCEPT ![u] = 0]
          /\ UNCHANGED proc
       \/ /\ ~ctx[u] \/ Listener(port[u]) = {}
          /\ IF u \in managed /\ dials[u] + 1 < MaxDials
             THEN dials' = [dials EXCEPT ![u] = @ + 1] /\ UNCHANGED <<stage, proc>>
             ELSE dials' = [dials EXCEPT ![u] = 0] /\ Fails(u)
          /\ UNCHANGED peer
    /\ UNCHANGED <<userVars, port, ctx, loginVars, restarts, finders>>

(* Mutant: only a login that cannot connect kills its process.              *)
VerifyWithoutKill(u) ==
    /\ stage[u] = "verify"
    /\ \/ proc[peer[u]] = "up" /\ Goto(u, "save")
       \/ Goto(u, "failed")
    /\ UNCHANGED <<userVars, proc, port, ctx, dials, peer, loginVars, restarts, finders>>

(* GetActiveUser.                                                           *)
Verify(u) ==
    /\ stage[u] = "verify"
    /\ \/ proc[peer[u]] = "up" /\ Goto(u, "save") /\ UNCHANGED proc
       \/ Fails(u)
    /\ UNCHANGED <<userVars, port, ctx, dials, peer, loginVars, restarts, finders>>

(* NewLogin: a login of someone else with the same ID is deleted and its    *)
(* client disconnected; LoadUserLogin makes the new one's client, and a     *)
(* goroutine with the background context connects it.                       *)
Save(u) ==
    /\ stage[u] = "save"
    /\ peer' = [peer EXCEPT ![u] = u]
    /\ \/ /\ ctx[u]
          /\ Goto(u, "complete")
          /\ logins' = [logins EXCEPT ![userID[peer[u]]] = [owner |-> u, port |-> port[u]]]
          /\ conn' = [conn EXCEPT ![userID[peer[u]]] = "trying"]
          /\ UNCHANGED proc
       \/ Fails(u) /\ UNCHANGED loginVars
    /\ UNCHANGED <<userVars, port, ctx, dials, restarts, finders>>

Submit(u) == Spawn(u) \/ Dial(u) \/ Verify(u) \/ Save(u)

-----------------------------------------------------------------------------
(* The clients.                                                             *)

(* Mutant: the URL is the connector's, not the client's.                    *)
URLOfLast(id) == LET used == {logins[i].port : i \in IDs} \ {0}
                 IN  CHOOSE p \in used : \A q \in used : p <= q

(* LoadUserLogin gives the client its login's WSUrl.                        *)
URL(id) == logins[id].port

(* Mutant: the first failure is the last.                                   *)
ConnectOnce(id) ==
    /\ conn[id] = "trying"
    /\ conn' = [conn EXCEPT ![id] = IF Listener(URL(id)) = {} THEN "none"
                                    ELSE CHOOSE w \in Listener(URL(id)) : TRUE]
    /\ UNCHANGED <<userVars, proc, port, requestVars, logins, restarts, finders>>

(* Connect and tryConnect, which dials until someone answers.               *)
Connect(id) ==
    /\ conn[id] = "trying"
    /\ \E w \in Listener(URL(id)) : conn' = [conn EXCEPT ![id] = w]
    /\ UNCHANGED <<userVars, proc, port, requestVars, logins, restarts, finders>>

(* The event loop finds its channel closed and dials again.                 *)
NoticesLoss(id) ==
    /\ conn[id] \in Users /\ proc[conn[id]] # "up"
    /\ conn' = [conn EXCEPT ![id] = "trying"]
    /\ UNCHANGED <<userVars, proc, port, requestVars, logins, restarts, finders>>

(* The bridge ends, with some of its processes, and starts: every login in  *)
(* the database gets a client that connects, no login gets a process.       *)
BridgeRestarts ==
    /\ restarts < MaxRestarts /\ restarts' = restarts + 1
    /\ \E gone \in SUBSET {u \in managed : Alive(u)} :
          proc' = [u \in Users |-> IF u \in gone THEN "dead" ELSE proc[u]]
    /\ stage' = [u \in Users |-> "idle"]
    /\ ctx' = [u \in Users |-> TRUE]
    /\ dials' = [u \in Users |-> 0]
    /\ peer' = [u \in Users |-> u]
    /\ conn' = [id \in IDs |-> IF logins[id] = NoLogin THEN "none" ELSE "trying"]
    /\ UNCHANGED <<userVars, port, logins, finders>>

-----------------------------------------------------------------------------
Process(u) == ProcessListens(u) \/ ProcessDies(u) \/ OwnerRestarts(u) \/ RequestEnds(u)

Client(id) == Connect(id) \/ NoticesLoss(id)

Next ==
    \/ \E u \in Users : Process(u) \/ FindFreePort(u) \/ WebSocketLogin(u) \/ Submit(u)
    \/ \E id \in IDs : Client(id)
    \/ BridgeRestarts

Spec == Init /\ [][Next]_vars

(* Handlers run, commands return (CommandExchange), processes that start    *)
(* listen or die, and clients dial again and again.                         *)
FairSpec ==
    /\ Spec
    /\ \A u \in Users : WF_vars(Submit(u)) /\ WF_vars(ProcessListens(u) \/ OwnerRestarts(u))
    /\ \A id \in IDs : WF_vars(Client(id))

-----------------------------------------------------------------------------
(* Properties.                                                              *)

TypeOK ==
    /\ managed \subseteq Users /\ userID \in UserIDs
    /\ proc \in [Users -> {"none", "starting", "up", "dead"}]
    /\ port \in [Users -> AllPorts \union {0}]
    /\ stage \in [Users -> {"idle", "spawn", "dial", "verify", "save", "complete", "failed"}]
    /\ ctx \in [Users -> BOOLEAN] /\ dials \in [Users -> 0 .. MaxDials - 1]
    /\ peer \in [Users -> Users]
    /\ logins \in [IDs -> [owner : Users, port : AllPorts] \union {NoLogin}]
    /\ conn \in [IDs -> {"none", "trying"} \union Users]
    /\ restarts \in 0 .. MaxRestarts
    /\ finders \in [Ports -> SUBSET Users]

(* A login that fails, whichever way, leaves no process behind.             *)
NoStrayProcess ==
    \A u \in managed : stage[u] = "failed" => ~Alive(u)

Shared(p) == p \in Ports /\ Cardinality(finders[p]) > 1

(* A login is stored under the ID of its owner's own database, and its      *)
(* client talks to its owner's simplex-chat, over failed dials, deaths of   *)
(* processes and restarts; except when findFreePort gave its port to two.   *)
OwnProfile ==
    \A id \in IDs : LET l == logins[id] IN
        (l # NoLogin /\ ~Shared(l.port)) =>
            userID[l.owner] = id /\ (conn[id] \in Users => conn[id] = l.owner)

(* Every login that is submitted comes to an end.                           *)
EveryLoginReturns ==
    \A u \in Users : Submitted(u) ~> ~Submitted(u)

(* A login is connected as long as someone listens at its URL.              *)
LoginsConnect ==
    \A id \in IDs :
        (logins[id] # NoLogin /\ Listener(logins[id].port) # {})
            ~> (conn[id] \in Users \/ Listener(logins[id].port) = {})

(* "the bridge will spawn and manage a simplex-chat process automatically"  *)
(* (README.md) and "The actual managed process lifecycle will be handled    *)
(* during Connect()" (pkg/connector/login.go): a managed login that was     *)
(* completed is connected, now or after a loss.                             *)
ManagedConnects ==
    \A u \in Users : (u \in managed /\ HasLogin(u)) ~>
        (~HasLogin(u) \/ \E id \in IDs : logins[id].owner = u /\ conn[id] \in Users)
================================================================================
