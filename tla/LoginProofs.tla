------------------------------ MODULE LoginProofs ------------------------------
(* Theorems about Login, for any users, databases and ports.                *)
EXTENDS Login, FiniteSetTheorems, TLAPS

-----------------------------------------------------------------------------
(* Type correctness.  Who is logging in has a port, and those who run       *)
(* simplex-chat themselves keep theirs.                                     *)

PortsKnown ==
    \A u \in Users : /\ Submitted(u) => port[u] \in AllPorts
                     /\ u \notin managed => port[u] = OwnPort[u]

Typed == TypeOK /\ PortsKnown

LEMMA OwnPortKnown == \A u \in Users : OwnPort[u] \in AllPorts
BY DEF AllPorts

LEMMA UserIDKnown == TypeOK => \A u \in Users : userID[u] \in IDs
BY DEF TypeOK, IDs

LEMMA TypedInit == Init => Typed
<1> SUFFICES ASSUME Init PROVE Typed
  OBVIOUS
<1>1. port \in [Users -> AllPorts \union {0}]
  BY OwnPortKnown DEF Init
<1>2. dials \in [Users -> 0 .. MaxDials - 1] /\ restarts \in 0 .. MaxRestarts
  BY LoginAssumption DEF LoginAssumption, Init
<1>3. PortsKnown
  BY DEF Init, PortsKnown, Submitted
<1> QED BY <1>1, <1>2, <1>3 DEF Init, Typed, TypeOK, NoLogin

LEMMA TypedSubmit ==
    ASSUME Typed, NEW u \in Users, FindFreePort(u) \/ WebSocketLogin(u) \/ Submit(u)
    PROVE  Typed'
<1> USE LoginAssumption DEF LoginAssumption, Typed, TypeOK, PortsKnown, Submitted,
        userVars, requestVars, loginVars, Goto, Fails, Killed
<1>1. CASE FindFreePort(u)
  <2>1. Ports \subseteq AllPorts
    BY DEF AllPorts
  <2>2. port' \in [Users -> AllPorts \union {0}]
    BY <1>1, <2>1 DEF FindFreePort
  <2>3. finders' \in [Ports -> SUBSET Users]
    BY <1>1 DEF FindFreePort
  <2>4. PortsKnown'
    BY <1>1, <2>1 DEF FindFreePort, MayLogIn
  <2>5. stage' \in [Users -> {"idle", "spawn", "dial", "verify", "save", "complete", "failed"}]
    BY <1>1 DEF FindFreePort
  <2>6. /\ ctx' \in [Users -> BOOLEAN]
        /\ UNCHANGED <<userVars, proc, dials, peer, loginVars, restarts>>
    BY <1>1 DEF FindFreePort
  <2> QED BY <2>2, <2>3, <2>4, <2>5, <2>6
<1>2. CASE WebSocketLogin(u)
  BY <1>2, OwnPortKnown DEF WebSocketLogin
<1>3. CASE Spawn(u)
  BY <1>3 DEF Spawn
<1>4. CASE Dial(u)
  <2>1. Listener(port[u]) \subseteq Users
    BY DEF Listener
  <2>2. dials' \in [Users -> 0 .. MaxDials - 1]
    BY <1>4 DEF Dial
  <2>3. peer' \in [Users -> Users]
    BY <1>4, <2>1 DEF Dial
  <2>4. stage' \in [Users -> {"idle", "spawn", "dial", "verify", "save", "complete", "failed"}]
    BY <1>4 DEF Dial
  <2>5. proc' \in [Users -> {"none", "starting", "up", "dead"}]
    BY <1>4 DEF Dial
  <2>6. PortsKnown'
    BY <1>4 DEF Dial
  <2> QED BY <1>4, <2>2, <2>3, <2>4, <2>5, <2>6 DEF Dial
<1>5. CASE Verify(u)
  BY <1>5 DEF Verify
<1>6. CASE Save(u)
  <2>1. userID[peer[u]] \in IDs
    BY UserIDKnown
  <2>2. [owner |-> u, port |-> port[u]] \in [owner : Users, port : AllPorts]
    BY <1>6 DEF Save
  <2>3. logins' \in [IDs -> [owner : Users, port : AllPorts] \union {NoLogin}]
    BY <1>6, <2>1, <2>2 DEF Save
  <2>4. conn' \in [IDs -> {"none", "trying"} \union Users]
    BY <1>6, <2>1 DEF Save
  <2>5. peer' \in [Users -> Users]
    BY <1>6 DEF Save
  <2>6. stage' \in [Users -> {"idle", "spawn", "dial", "verify", "save", "complete", "failed"}]
    BY <1>6 DEF Save
  <2>8. proc' \in [Users -> {"none", "starting", "up", "dead"}]
    BY <1>6 DEF Save
  <2>7. PortsKnown'
    <3>1. UNCHANGED <<managed, port>>
      BY <1>6 DEF Save
    <3>0. \E s \in {"complete", "failed"} : stage' = [stage EXCEPT ![u] = s]
      BY <1>6 DEF Save
    <3>2. \A v \in Users : v # u => stage'[v] = stage[v]
      BY <3>0
    <3>3. stage'[u] \in {"complete", "failed"}
      BY <3>0
    <3> QED BY <3>1, <3>2, <3>3
  <2> QED BY <1>6, <2>3, <2>4, <2>5, <2>6, <2>7, <2>8 DEF Save
<1> QED BY <1>1, <1>2, <1>3, <1>4, <1>5, <1>6 DEF Submit

LEMMA TypedOther ==
    ASSUME Typed,
           \/ \E u \in Users : Process(u)
           \/ \E id \in IDs : Client(id)
           \/ BridgeRestarts \/ UNCHANGED vars
    PROVE  Typed'
<1> USE LoginAssumption DEF LoginAssumption, Typed, TypeOK, PortsKnown, Submitted,
        userVars, requestVars, loginVars
<1>1. ASSUME NEW u \in Users, Process(u) PROVE Typed'
  <2>1. CASE ProcessListens(u)
    BY <2>1 DEF ProcessListens
  <2>2. CASE ProcessDies(u)
    BY <2>2 DEF ProcessDies
  <2>3. CASE OwnerRestarts(u)
    BY <2>3 DEF OwnerRestarts
  <2>4. CASE RequestEnds(u)
    BY <2>4 DEF RequestEnds, Killed
  <2> QED BY <1>1, <2>1, <2>2, <2>3, <2>4 DEF Process
<1>2. ASSUME NEW id \in IDs, Client(id) PROVE Typed'
  BY <1>2 DEF Client, Connect, NoticesLoss, Listener
<1>3. CASE BridgeRestarts
  BY <1>3 DEF BridgeRestarts
<1>4. CASE UNCHANGED vars
  BY <1>4 DEF vars
<1> QED BY <1>1, <1>2, <1>3, <1>4

LEMMA TypedCorrect == Spec => []Typed
<1>1. Typed /\ [Next]_vars => Typed'
  BY TypedSubmit, TypedOther DEF Next
<1> QED BY <1>1, TypedInit, PTL DEF Spec

(* Every variable keeps its type.                                           *)
THEOREM TypeCorrect == Spec => []TypeOK
BY TypedCorrect, PTL DEF Typed

-----------------------------------------------------------------------------
(* Processes.                                                               *)

(* There is none before it is started and none after a failure.             *)
NotAlive == \A u \in managed : stage[u] \in {"spawn", "failed"} => ~Alive(u)

LEMMA NotAliveStep == Typed /\ NotAlive /\ [Next]_vars => NotAlive'
<1> SUFFICES ASSUME Typed, NotAlive, [Next]_vars PROVE NotAlive'
  OBVIOUS
<1> USE DEF Typed, TypeOK, NotAlive, Alive, userVars, requestVars, loginVars, Goto, Fails, Killed
<1>1. ASSUME NEW u \in Users, Process(u) PROVE NotAlive'
  BY <1>1 DEF Process, ProcessListens, ProcessDies, OwnerRestarts, RequestEnds
<1>2. ASSUME NEW u \in Users, FindFreePort(u) \/ WebSocketLogin(u) PROVE NotAlive'
  BY <1>2 DEF FindFreePort, WebSocketLogin, MayLogIn
<1>3. ASSUME NEW u \in Users, Submit(u) PROVE NotAlive'
  BY <1>3 DEF Submit, Spawn, Dial, Verify, Save
<1>4. ASSUME NEW id \in IDs, Client(id) PROVE NotAlive'
  BY <1>4 DEF Client, Connect, NoticesLoss
<1>5. CASE BridgeRestarts
  BY <1>5 DEF BridgeRestarts
<1>6. CASE UNCHANGED vars
  BY <1>6 DEF vars
<1> QED BY <1>1, <1>2, <1>3, <1>4, <1>5, <1>6 DEF Next

(* A login that fails, whichever way, leaves no process behind.             *)
THEOREM NoProcessStrays == Spec => []NoStrayProcess
<1>1. Init => NotAlive
  BY DEF Init, NotAlive
<1>2. NotAlive => NoStrayProcess
  BY DEF NotAlive, NoStrayProcess
<1> QED BY <1>1, <1>2, NotAliveStep, TypedCorrect, PTL DEF Spec

-----------------------------------------------------------------------------
(* Whom a login is connected to.                                            *)

(* Who has a port was given it, or brought it along.                        *)
Given(u, p) == IF p \in Ports THEN u \in finders[p] ELSE p = OwnPort[u]

GivenPorts ==
    /\ \A p \in Ports : IsFiniteSet(finders[p])
    /\ \A u \in Users : proc[u] # "none" \/ Submitted(u) => Given(u, port[u])
    /\ \A id \in IDs : logins[id] # NoLogin => Given(logins[id].owner, logins[id].port)

(* Only one process listens at a port that was not given to two.            *)
LEMMA OneListener ==
    ASSUME Typed, GivenPorts, NEW u \in Users, NEW p \in AllPorts, Given(u, p), ~Shared(p),
           NEW w \in Listener(p)
    PROVE  w = u
<1>1. w \in Users /\ proc[w] = "up" /\ Given(w, p)
  BY DEF Listener, GivenPorts
<1>2. CASE p \in Ports
  <2>1. {u, w} \subseteq finders[p] /\ IsFiniteSet(finders[p])
    BY <1>1, <1>2 DEF Given, GivenPorts
  <2>2. Cardinality({u, w}) <= Cardinality(finders[p])
    BY <2>1, FS_Subset
  <2>3. Cardinality(finders[p]) \in Nat /\ Cardinality({u, w}) \in Nat
    BY <2>1, FS_CardinalityType, FS_Subset
  <2>4. Cardinality(finders[p]) <= 1
    BY <1>2, <2>3 DEF Shared
  <2>5. u # w => Cardinality({u, w}) = 2
    <3>1. IsFiniteSet({u}) /\ Cardinality({u}) = 1
      BY FS_Singleton
    <3>2. {u} \union {w} = {u, w}
      OBVIOUS
    <3>3. ASSUME u # w PROVE Cardinality({u} \union {w}) = 2
      <4>1. w \notin {u}
        BY <3>3
      <4>2. Cardinality({u} \union {w}) = Cardinality({u}) + 1
        BY <3>1, <4>1, FS_AddElement, ZenonT(30)
      <4> QED BY <3>1, <4>2
    <3> QED BY <3>2, <3>3
  <2> QED BY <2>2, <2>3, <2>4, <2>5
<1>3. CASE p \notin Ports
  BY <1>1, <1>3, LoginAssumption DEF Given, LoginAssumption
<1> QED BY <1>2, <1>3

(* A login that has been let in talks to its owner's process.               *)
OwnPeer ==
    \A u \in Users : stage[u] \in {"verify", "save"} /\ ~Shared(port[u]) => peer[u] = u

ProfileInv == GivenPorts /\ OwnPeer /\ OwnProfile

LEMMA SharedStays ==
    ASSUME Typed, GivenPorts, NEW u \in Users, NEW q \in Ports,
           finders' = [finders EXCEPT ![q] = @ \union {u}]
    PROVE  /\ \A p \in Ports : IsFiniteSet(finders'[p])
           /\ \A p : Shared(p) => Shared(p)'
<1> USE DEF Typed, TypeOK, GivenPorts
<1>1. \A p \in Ports : IsFiniteSet(finders'[p]) /\ finders[p] \subseteq finders'[p]
  BY FS_AddElement
<1>2. ASSUME NEW p \in Ports, Cardinality(finders[p]) > 1
      PROVE  Cardinality(finders'[p]) > 1
  <2>1. Cardinality(finders[p]) <= Cardinality(finders'[p])
    BY <1>1, FS_Subset
  <2>2. Cardinality(finders[p]) \in Nat /\ Cardinality(finders'[p]) \in Nat
    BY <1>1, FS_CardinalityType
  <2> QED BY <1>2, <2>1, <2>2
<1> QED BY <1>1, <1>2 DEF Shared

LEMMA ProfileFind ==
    ASSUME Typed, ProfileInv, NEW u \in Users, FindFreePort(u) \/ WebSocketLogin(u)
    PROVE  ProfileInv'
<1> USE DEF Typed, TypeOK, ProfileInv, Goto, userVars, requestVars, loginVars
<1>1. CASE FindFreePort(u) /\ UNCHANGED <<port, finders>>
  BY <1>1 DEF FindFreePort, GivenPorts, Given, OwnPeer, OwnProfile, Shared, Submitted
<1>2. CASE FindFreePort(u) /\ ~UNCHANGED <<port, finders>>
  <2>1. PICK q \in Ports : /\ port' = [port EXCEPT ![u] = q]
                           /\ finders' = [finders EXCEPT ![q] = @ \union {u}]
                           /\ stage' = [stage EXCEPT ![u] = "spawn"]
    BY <1>2 DEF FindFreePort
  <2>2. /\ \A p \in Ports : IsFiniteSet(finders'[p])
        /\ \A p : Shared(p) => Shared(p)'
    BY <2>1, SharedStays
  <2>3. \A v \in Users : \A p : Given(v, p) => Given(v, p)'
    BY <2>1 DEF Given
  <2>4. Given(u, q)'
    BY <2>1 DEF Given
  <2>5. GivenPorts'
    BY <1>2, <2>1, <2>2, <2>3, <2>4 DEF GivenPorts, FindFreePort, Submitted
  <2>6. OwnPeer'
    BY <1>2, <2>1, <2>2 DEF OwnPeer, FindFreePort
  <2>7. OwnProfile'
    BY <1>2, <2>1, <2>2 DEF OwnProfile, FindFreePort
  <2> QED BY <2>5, <2>6, <2>7
<1>3. CASE WebSocketLogin(u)
  <2>1. port[u] = OwnPort[u] /\ OwnPort[u] \notin Ports
    BY <1>3, LoginAssumption DEF PortsKnown, WebSocketLogin, LoginAssumption
  <2> QED BY <1>3, <2>1 DEF WebSocketLogin, GivenPorts, Given, OwnPeer, OwnProfile, Shared, Submitted
<1> QED BY <1>1, <1>2, <1>3

LEMMA ProfileSubmit ==
    ASSUME Typed, ProfileInv, NEW u \in Users, Submit(u)
    PROVE  ProfileInv'
<1> USE DEF Typed, TypeOK, ProfileInv, Goto, Fails, Killed, userVars, requestVars, loginVars
<1>1. CASE Spawn(u)
  BY <1>1 DEF Spawn, GivenPorts, Given, OwnPeer, OwnProfile, Shared, Submitted
<1>2. CASE Dial(u)
  <2>1. Given(u, port[u]) /\ port[u] \in AllPorts
    BY <1>2 DEF Dial, GivenPorts, Submitted, PortsKnown
  <2>2. ~Shared(port[u]) => \A w \in Listener(port[u]) : w = u
    BY <2>1, OneListener DEF ProfileInv
  <2>3. GivenPorts'
    BY <1>2 DEF Dial, GivenPorts, Given, Submitted
  <2>4. OwnPeer'
    BY <1>2, <2>2 DEF Dial, OwnPeer, Shared
  <2>5. OwnProfile'
    BY <1>2 DEF Dial, OwnProfile, Shared
  <2> QED BY <2>3, <2>4, <2>5
<1>3. CASE Verify(u)
  BY <1>3 DEF Verify, GivenPorts, Given, OwnPeer, OwnProfile, Shared, Submitted
<1>4. CASE Save(u) /\ UNCHANGED loginVars
  BY <1>4 DEF Save, GivenPorts, Given, OwnPeer, OwnProfile, Shared, Submitted
<1>5. CASE Save(u) /\ ~UNCHANGED loginVars
  <2> DEFINE id == userID[peer[u]]
  <2>1. /\ stage[u] = "save" /\ stage' = [stage EXCEPT ![u] = "complete"]
        /\ logins' = [logins EXCEPT ![id] = [owner |-> u, port |-> port[u]]]
        /\ conn' = [conn EXCEPT ![id] = "trying"]
        /\ UNCHANGED <<userVars, proc, port, finders>>
    BY <1>5 DEF Save
  <2>2. id \in IDs
    BY UserIDKnown
  <2>3. Given(u, port[u])
    BY <2>1 DEF GivenPorts, Submitted
  <2>4. GivenPorts'
    BY <2>1, <2>2, <2>3 DEF GivenPorts, Given, Submitted
  <2>5. OwnPeer'
    BY <1>5, <2>1 DEF OwnPeer, Shared, Save
  <2>6. ~Shared(port[u]) => id = userID[u]
    BY <2>1 DEF OwnPeer
  <2>7. logins'[id].owner = u /\ logins'[id].port = port[u] /\ conn'[id] \notin Users
    BY <2>1, <2>2, LoginAssumption DEF LoginAssumption
  <2>8. OwnProfile'
    BY <2>1, <2>2, <2>6, <2>7 DEF OwnProfile, Shared
  <2> QED BY <2>4, <2>5, <2>8
<1> QED BY <1>1, <1>2, <1>3, <1>4, <1>5 DEF Submit

LEMMA ProfileOther ==
    ASSUME Typed, ProfileInv,
           \/ \E u \in Users : Process(u)
           \/ \E id \in IDs : Client(id)
           \/ BridgeRestarts \/ UNCHANGED vars
    PROVE  ProfileInv'
<1> USE DEF Typed, TypeOK, ProfileInv, userVars, requestVars, loginVars
<1>1. ASSUME NEW u \in Users, Process(u) PROVE ProfileInv'
  <2>1. GivenPorts'
    BY <1>1, LoginAssumption DEF Process, ProcessListens, ProcessDies, OwnerRestarts,
       RequestEnds, Killed, GivenPorts, Given, Submitted, Alive
  <2>2. OwnPeer' /\ OwnProfile'
    BY <1>1 DEF Process, ProcessListens, ProcessDies, OwnerRestarts, RequestEnds, OwnPeer,
       OwnProfile, Shared
  <2> QED BY <2>1, <2>2
<1>2. ASSUME NEW id \in IDs, Connect(id) PROVE ProfileInv'
  <2>1. PICK w \in Listener(logins[id].port) : conn' = [conn EXCEPT ![id] = w]
    BY <1>2 DEF Connect, URL
  <2>2. (logins[id] # NoLogin /\ ~Shared(logins[id].port)) => w = logins[id].owner
    BY <2>1, OneListener DEF GivenPorts
  <2>3. GivenPorts' /\ OwnPeer'
    BY <1>2 DEF Connect, GivenPorts, Given, Submitted, OwnPeer, Shared
  <2>4. OwnProfile'
    BY <1>2, <2>1, <2>2 DEF Connect, OwnProfile, Shared
  <2> QED BY <2>3, <2>4
<1>3. ASSUME NEW id \in IDs, NoticesLoss(id) PROVE ProfileInv'
  BY <1>3, LoginAssumption DEF LoginAssumption, NoticesLoss, GivenPorts, Given, Submitted,
     OwnPeer, OwnProfile, Shared
<1>4. CASE BridgeRestarts
  <2>1. GivenPorts' /\ OwnPeer'
    BY <1>4 DEF BridgeRestarts, GivenPorts, Given, Submitted, OwnPeer, Alive
  <2>2. OwnProfile'
    BY <1>4, LoginAssumption DEF LoginAssumption, BridgeRestarts, OwnProfile, Shared
  <2> QED BY <2>1, <2>2
<1>5. CASE UNCHANGED vars
  BY <1>5 DEF vars, GivenPorts, Given, Submitted, OwnPeer, OwnProfile, Shared
<1> QED BY <1>1, <1>2, <1>3, <1>4, <1>5 DEF Client

(* Whatever happens to processes, ports and the bridge, a login is stored   *)
(* under its owner's own ID and talks to its owner's simplex-chat, unless   *)
(* its port was given to two.                                               *)
THEOREM ProfilesAreOwn == Spec => []OwnProfile
<1>1. Init => ProfileInv
  <2> SUFFICES ASSUME Init PROVE ProfileInv
    OBVIOUS
  <2>1. \A p \in Ports : IsFiniteSet(finders[p])
    BY FS_EmptySet DEF Init
  <2>2. \A u \in Users : proc[u] # "none" \/ Submitted(u) => Given(u, port[u])
    BY LoginAssumption DEF LoginAssumption, Init, Submitted, Given
  <2> QED BY <2>1, <2>2 DEF Init, ProfileInv, GivenPorts, OwnPeer, OwnProfile
<1>2. Typed /\ ProfileInv /\ [Next]_vars => ProfileInv'
  BY ProfileFind, ProfileSubmit, ProfileOther DEF Next
<1>3. ProfileInv => OwnProfile
  BY DEF ProfileInv
<1> QED BY <1>1, <1>2, <1>3, TypedCorrect, PTL DEF Spec
================================================================================
