---------------------------- MODULE LifecycleProofs ----------------------------
(* Theorems about Lifecycle, for any number of connections and handlers.    *)
EXTENDS Lifecycle, FiniteSetTheorems, TLAPS

-----------------------------------------------------------------------------
(* The inductive invariant, in parts.                                       *)

(* A thread starts when the one before it has ended.                        *)
Relay == \A j, k \in Conns : j < k /\ at[k] # "none" => at[j] = "ended"

Connected == {"announce", "arm", "start", "loop"}

(* A thread that is past its dial has a socket, one before it has none, and *)
(* a socket that is up belongs to the last thread.                          *)
Sockets ==
    \A k \in Conns :
        /\ at[k] \in {"none", "begin", "dial", "backoff"} => conn[k] = "none"
        /\ at[k] \in Connected \union {"assign"} => conn[k] # "none"
        /\ conn[k] = "up" => \A j \in Conns : j > k => at[j] = "none"

(* s.Client is the connection of a thread that has assigned it, and that of *)
(* the running thread unless a Disconnect has cleared it.                   *)
ClientIsLast ==
    /\ sClient # nil => at[sClient] \in Connected \union {"ended"}
    /\ \A k \in Conns : at[k] \in Connected =>
          sClient = k \/ (sClient = nil /\ disc = "done")

(* Who has found a client there finds it again, until a Disconnect.         *)
ClientStays ==
    (\/ \E k \in Conns : sync[k] \in {"contacts", "groups"}
     \/ \E h \in Handlers : handler[h] = "checked")
    => sClient # nil \/ disc = "done"

(* s.cancelFn is that of the running event loop.                            *)
Armed == \A k \in Conns : at[k] \in {"start", "loop"} => cancelFn = k

(* Nobody but Disconnect cancels, and it stays at "done" then.              *)
Idle == disc = "idle" => cancelled = {} /\ ~calm

IInv == Relay /\ Sockets /\ ClientIsLast /\ LoopsOnItsOwn /\ ClientStays /\ Armed /\ Idle

-----------------------------------------------------------------------------
LEMMA TypeInit == Init => TypeOK
<1> SUFFICES ASSUME Init PROVE TypeOK
  OBVIOUS
<1>1. retryCount \in [Conns -> 0 .. MaxRetries] /\ loopOn \in [Conns -> 0 .. MaxConn]
  BY LifecycleAssumption DEF LifecycleAssumption, Init, nil
<1>2. sClient \in 0 .. MaxConn /\ cancelFn \in 0 .. MaxConn
  BY LifecycleAssumption DEF LifecycleAssumption, Init, nil
<1> QED BY <1>1, <1>2 DEF Init, TypeOK

LEMMA TypeNext == TypeOK /\ [Next]_vars => TypeOK'
<1> SUFFICES ASSUME TypeOK, [Next]_vars PROVE TypeOK'
  OBVIOUS
<1> USE LifecycleAssumption DEF LifecycleAssumption, TypeOK, Conns, nil, Goto, Panic,
        threadVars, syncVars, discVars
<1>1. CASE Connect
  BY <1>1 DEF Connect
<1>2. CASE Disconnect
  <2>1. CASE DiscCancel
    BY <2>1 DEF DiscCancel
  <2>2. CASE DiscClose
    BY <2>2 DEF DiscClose
  <2>3. CASE DiscClear
    BY <2>3 DEF DiscClear
  <2> QED BY <1>2, <2>1, <2>2, <2>3 DEF Disconnect
<1>3. ASSUME NEW k \in Conns, TryConnect(k) PROVE TypeOK'
  <2>1. CASE Begin(k)
    BY <2>1 DEF Begin
  <2>2. CASE DialOk(k)
    BY <2>2 DEF DialOk
  <2>3. CASE DialFails(k)
    BY <2>3 DEF DialFails
  <2>4. CASE Retry(k)
    BY <2>4 DEF Retry
  <2>5. CASE StopRetrying(k)
    BY <2>5 DEF StopRetrying
  <2>6. CASE Assign(k)
    BY <2>6 DEF Assign
  <2>7. CASE Announce(k)
    BY <2>7 DEF Announce
  <2>8. CASE Arm(k)
    BY <2>8 DEF Arm
  <2> QED BY <1>3, <2>1, <2>2, <2>3, <2>4, <2>5, <2>6, <2>7, <2>8 DEF TryConnect
<1>4. ASSUME NEW k \in Conns, EventLoop(k) PROVE TypeOK'
  <2>1. CASE Start(k)
    <3>1. CASE sClient = 0
      BY <2>1, <3>1 DEF Start
    <3>2. CASE sClient # 0
      <4> HIDE DEF TypeOK
      <4>0. loopOn' = [loopOn EXCEPT ![k] = sClient]
        BY <2>1, <3>2 DEF Start
      <4>1. loopOn' \in [Conns -> 0 .. MaxConn]
        BY <4>0 DEF TypeOK
      <4>2. at' = [at EXCEPT ![k] = "loop"] /\ UNCHANGED panics
        BY <2>1, <3>2 DEF Start
      <4>3. at' \in [Conns -> {"none", "begin", "dial", "backoff", "assign", "announce",
                                "arm", "start", "loop", "ended"}]
        BY <4>2 DEF TypeOK
      <4> QED BY <2>1, <4>1, <4>2, <4>3 DEF Start, TypeOK
    <3> QED BY <3>1, <3>2
  <2>2. CASE HandleEvent(k)
    BY <2>2 DEF HandleEvent
  <2>3. CASE Reconnect(k)
    BY <2>3 DEF Reconnect
  <2>4. CASE LoopDone(k)
    BY <2>4 DEF LoopDone
  <2> QED BY <1>4, <2>1, <2>2, <2>3, <2>4 DEF EventLoop
<1>5. ASSUME NEW k \in Conns, SyncChats(k) PROVE TypeOK'
  <2>1. CASE SyncCheck(k)
    BY <2>1 DEF SyncCheck
  <2>2. CASE SyncList(k, "contacts", "groups")
    BY <2>2 DEF SyncList
  <2>3. CASE SyncList(k, "groups", "save")
    BY <2>3 DEF SyncList
  <2>4. CASE SyncSave(k)
    BY <2>4 DEF SyncSave
  <2> QED BY <1>5, <2>1, <2>2, <2>3, <2>4 DEF SyncChats
<1>6. ASSUME NEW k \in Conns, Lose(k) PROVE TypeOK'
  BY <1>6 DEF Lose
<1>7. ASSUME NEW h \in Handlers, MatrixCheck(h) \/ MatrixSend(h) PROVE TypeOK'
  <2>1. CASE MatrixCheck(h)
    BY <2>1 DEF MatrixCheck
  <2>2. CASE MatrixSend(h)
    BY <2>2 DEF MatrixSend
  <2> QED BY <1>7, <2>1, <2>2
<1>8. CASE UNCHANGED vars
  BY <1>8 DEF vars
<1> QED BY <1>1, <1>2, <1>3, <1>4, <1>5, <1>6, <1>7, <1>8 DEF Next

(* Every variable of the connection's life keeps its type.                  *)
THEOREM TypeCorrect == Spec => []TypeOK
BY TypeInit, TypeNext, PTL DEF Spec

-----------------------------------------------------------------------------
LEMMA InvInit == Init => IInv
BY DEF Init, IInv, Relay, Sockets, Connected, ClientIsLast, LoopsOnItsOwn, ClientStays,
       Armed, Idle, nil, Conns

LEMMA RelayNext == TypeOK /\ IInv /\ [Next]_vars => Relay'
<1> SUFFICES ASSUME TypeOK, IInv, [Next]_vars PROVE Relay'
  OBVIOUS
<1> USE LifecycleAssumption DEF LifecycleAssumption, TypeOK, IInv, Relay, Conns, Goto,
        threadVars, syncVars, discVars
<1>1. CASE Connect
  <2>1. at[1] = "none" /\ \A j \in Conns : j # 1 => at'[j] = at[j]
    BY <1>1 DEF Connect
  <2>2. \A j \in Conns : j > 1 => at[j] = "none"
    BY <2>1
  <2> QED BY <2>1, <2>2
<1>2. CASE Disconnect
  BY <1>2 DEF Disconnect, DiscCancel, DiscClose, DiscClear
<1>3. ASSUME NEW k \in Conns, TryConnect(k) PROVE Relay'
  <2>1. at[k] \notin {"none", "ended"}
    BY <1>3 DEF TryConnect, Begin, DialOk, DialFails, Retry, StopRetrying, Assign, Announce, Arm
  <2>2. PICK place : at' = [at EXCEPT ![k] = place]
    BY <1>3 DEF TryConnect, Begin, DialOk, DialFails, Retry, StopRetrying, Assign, Announce, Arm
  <2>3. \A j \in Conns : j # k => at'[j] = at[j]
    BY <2>2
  <2> SUFFICES ASSUME NEW i \in Conns, NEW j \in Conns, i < j, at'[j] # "none"
               PROVE  at'[i] = "ended"
    OBVIOUS
  <2>4. at[i] = "ended"
    BY <2>1, <2>3
  <2> QED BY <2>1, <2>3, <2>4
<1>4. ASSUME NEW k \in Conns, EventLoop(k) PROVE Relay'
  <2>1. CASE Start(k)
    BY <2>1 DEF Start
  <2>2. CASE HandleEvent(k)
    BY <2>2 DEF HandleEvent
  <2>3. CASE Reconnect(k)
    <3>1. k + 1 \in Conns /\ at' = [at EXCEPT ![k] = "ended", ![k + 1] = "begin"]
      BY <2>3 DEF Reconnect
    <3>2. at'[k] = "ended" /\ at'[k + 1] = "begin"
      BY <3>1
    <3>3. \A j \in Conns : j # k /\ j # k + 1 => at'[j] = at[j]
      BY <3>1
    <3>4. \A j \in Conns : j < k => at[j] = "ended"
      BY <2>3 DEF Reconnect
    <3>5. \A j \in Conns : j > k => at[j] = "none"
      BY <2>3 DEF Reconnect
    <3> SUFFICES ASSUME NEW i \in Conns, NEW j \in Conns, i < j, at'[j] # "none"
                 PROVE  at'[i] = "ended"
      OBVIOUS
    <3>6. j <= k + 1
      BY <3>3, <3>5
    <3>7. CASE i = k
      BY <3>2, <3>7
    <3>8. CASE i < k
      BY <3>3, <3>4, <3>8
    <3> QED BY <3>6, <3>7, <3>8
  <2>4. CASE LoopDone(k)
    BY <2>4 DEF LoopDone
  <2> QED BY <1>4, <2>1, <2>2, <2>3, <2>4 DEF EventLoop
<1>5. ASSUME NEW k \in Conns, SyncChats(k) \/ Lose(k) PROVE Relay'
  BY <1>5 DEF SyncChats, SyncCheck, SyncList, SyncSave, Lose
<1>6. ASSUME NEW h \in Handlers, MatrixCheck(h) \/ MatrixSend(h) PROVE Relay'
  BY <1>6 DEF MatrixCheck, MatrixSend
<1>7. CASE UNCHANGED vars
  BY <1>7 DEF vars
<1> QED BY <1>1, <1>2, <1>3, <1>4, <1>5, <1>6, <1>7 DEF Next

LEMMA SocketsSame == ASSUME Sockets, UNCHANGED <<at, conn>> PROVE Sockets'
BY DEF Sockets

(* A thread goes on, or ends, with the socket it has.                       *)
LEMMA SocketsGoOn ==
    ASSUME TypeOK, Sockets, NEW k \in Conns, at[k] # "none", UNCHANGED conn,
           NEW place, at' = [at EXCEPT ![k] = place],
           place \in {"none", "begin", "dial", "backoff"} => conn[k] = "none",
           place \in Connected \union {"assign"} => conn[k] # "none"
    PROVE  Sockets'
<1>1. at'[k] = place /\ \A j \in Conns : j # k => at'[j] = at[j]
  BY DEF TypeOK
<1>2. \A j \in Conns : at[j] = "none" => at'[j] = "none"
  BY <1>1
<1>3. ASSUME NEW j \in Conns
      PROVE  /\ at'[j] \in {"none", "begin", "dial", "backoff"} => conn'[j] = "none"
             /\ at'[j] \in Connected \union {"assign"} => conn'[j] # "none"
  <2>1. CASE j = k
    BY <1>1, <2>1
  <2>2. CASE j # k
    BY <1>1, <2>2 DEF Sockets
  <2> QED BY <2>1, <2>2
<1>4. ASSUME NEW i \in Conns, conn'[i] = "up", NEW j \in Conns, j > i PROVE at'[j] = "none"
  BY <1>2, <1>4 DEF Sockets
<1> QED BY <1>3, <1>4 DEF Sockets

LEMMA SocketsNext == TypeOK /\ IInv /\ [Next]_vars => Sockets'
<1> SUFFICES ASSUME TypeOK, IInv, [Next]_vars PROVE Sockets'
  OBVIOUS
<1>0. Sockets /\ Relay /\ LoopsOnItsOwn /\ ClientIsLast
  BY DEF IInv
<1>1. CASE Connect
  <2>1. 1 \in Conns /\ at[1] = "none" /\ UNCHANGED conn
    BY <1>1, LifecycleAssumption DEF Connect, Conns, LifecycleAssumption
  <2>2. \A j \in Conns : j > 1 => at[j] = "none"
    BY <1>0, <2>1 DEF Relay
  <2>3. \A j \in Conns : conn[j] = "none"
    <3>1. \A j \in Conns : j = 1 \/ j > 1
      BY DEF Conns
    <3> QED BY <1>0, <2>1, <2>2, <3>1 DEF Sockets
  <2>4. at'[1] \in {"none", "begin", "ended"} /\ \A j \in Conns : j # 1 => at'[j] = at[j]
    BY <1>1, <2>1 DEF Connect, Goto, TypeOK
  <2>5. \A j \in Conns : at'[j] \in {"none", "begin", "ended"}
    <3>1. \A j \in Conns : j = 1 \/ j > 1
      BY DEF Conns
    <3> QED BY <2>2, <2>4, <3>1
  <2> QED BY <2>1, <2>3, <2>5 DEF Sockets, Connected
<1>2. CASE Disconnect
  <2>1. CASE DiscClose
    <3>1. CASE sClient = nil
      <4>1. UNCHANGED <<at, conn>>
        BY <2>1, <3>1 DEF DiscClose, threadVars
      <4> QED BY <1>0, <4>1, SocketsSame
    <3>2. CASE sClient # nil
      <4>1. sClient \in Conns /\ at[sClient] \in Connected \union {"ended"}
        BY <1>0, <3>2 DEF ClientIsLast, TypeOK, Conns, nil
      <4>2. UNCHANGED at /\ conn' = [conn EXCEPT ![sClient] = "closed"]
        BY <2>1, <3>2 DEF DiscClose, threadVars
      <4>3. conn'[sClient] = "closed" /\ \A j \in Conns : j # sClient => conn'[j] = conn[j]
        BY <4>1, <4>2 DEF TypeOK
      <4> QED BY <1>0, <4>1, <4>2, <4>3 DEF Sockets, Connected
    <3> QED BY <3>1, <3>2
  <2>2. CASE DiscCancel \/ DiscClear
    <3>1. UNCHANGED <<at, conn>>
      BY <2>2 DEF DiscCancel, DiscClear, threadVars
    <3> QED BY <1>0, <3>1, SocketsSame
  <2> QED BY <1>2, <2>1, <2>2 DEF Disconnect
<1>3. ASSUME NEW k \in Conns, TryConnect(k) PROVE Sockets'
  <2>1. CASE Begin(k) \/ DialFails(k) \/ Retry(k) \/ StopRetrying(k)
    <3>1. at[k] \in {"begin", "dial", "backoff"} /\ UNCHANGED conn
      BY <2>1 DEF Begin, DialFails, Retry, StopRetrying
    <3>2. \E place \in {"dial", "backoff", "ended"} : at' = [at EXCEPT ![k] = place]
      BY <2>1 DEF Begin, DialFails, Retry, StopRetrying, Goto
    <3>3. conn[k] = "none"
      BY <1>0, <3>1 DEF Sockets
    <3> QED BY <1>0, <3>1, <3>2, <3>3, SocketsGoOn DEF Connected
  <2>2. CASE DialOk(k)
    <3>1. at[k] = "dial"
      BY <2>2 DEF DialOk
    <3>2. at'[k] = "assign" /\ \A j \in Conns : j # k => at'[j] = at[j]
      BY <2>2 DEF DialOk, Goto, TypeOK
    <3>3. conn'[k] = "up" /\ \A j \in Conns : j # k => conn'[j] = conn[j]
      BY <2>2 DEF DialOk, TypeOK
    <3>4. \A j \in Conns : j > k => at[j] = "none"
      BY <1>0, <3>1 DEF Relay
    <3>5. ASSUME NEW i \in Conns, conn'[i] = "up", NEW j \in Conns, j > i PROVE at'[j] = "none"
      <4>1. CASE i = k
        BY <3>2, <3>4, <3>5, <4>1 DEF Conns
      <4>2. CASE i # k
        <5>1. at[j] = "none"
          BY <1>0, <3>3, <3>5, <4>2 DEF Sockets
        <5> QED BY <3>1, <3>2, <5>1
      <4> QED BY <4>1, <4>2
    <3>6. ASSUME NEW j \in Conns
          PROVE  /\ at'[j] \in {"none", "begin", "dial", "backoff"} => conn'[j] = "none"
                 /\ at'[j] \in Connected \union {"assign"} => conn'[j] # "none"
      <4>1. CASE j = k
        BY <3>2, <3>3, <4>1
      <4>2. CASE j # k
        BY <1>0, <3>2, <3>3, <4>2 DEF Sockets
      <4> QED BY <4>1, <4>2
    <3> QED BY <3>5, <3>6 DEF Sockets
  <2>3. CASE Assign(k) \/ Announce(k) \/ Arm(k)
    <3>1. at[k] \in Connected \union {"assign"} /\ UNCHANGED conn
      BY <2>3 DEF Assign, Announce, Arm, Connected
    <3>2. \E place \in Connected : at' = [at EXCEPT ![k] = place]
      BY <2>3 DEF Assign, Announce, Arm, Goto, Connected
    <3>3. conn[k] # "none"
      BY <1>0, <3>1 DEF Sockets
    <3> QED BY <1>0, <3>1, <3>2, <3>3, SocketsGoOn DEF Connected
  <2> QED BY <1>3, <2>1, <2>2, <2>3 DEF TryConnect
<1>4. ASSUME NEW k \in Conns, EventLoop(k) PROVE Sockets'
  <2>1. CASE Reconnect(k)
    <3>1. at[k] = "loop" /\ conn[k] \in {"lost", "closed"} /\ UNCHANGED conn
      BY <1>0, <2>1 DEF Reconnect, EventsClosed, LoopsOnItsOwn
    <3>2. k + 1 \in Conns /\ at'[k] = "ended" /\ at'[k + 1] = "begin"
      BY <2>1, LifecycleAssumption DEF Reconnect, TypeOK, Conns, LifecycleAssumption
    <3>3. \A j \in Conns : j # k /\ j # k + 1 => at'[j] = at[j]
      BY <2>1 DEF Reconnect, TypeOK
    <3>4. \A j \in Conns : j > k => at[j] = "none"
      BY <1>0, <3>1 DEF Relay
    <3>5. \A j \in Conns : j > k => conn[j] = "none"
      BY <1>0, <3>4 DEF Sockets
    <3>6. \A j \in Conns : conn[j] # "up"
      <4> SUFFICES ASSUME NEW j \in Conns, conn[j] = "up" PROVE FALSE
        OBVIOUS
      <4>1. CASE j < k
        BY <1>0, <3>1, <4>1 DEF Sockets
      <4>2. CASE j > k
        BY <3>5, <4>2
      <4>3. j < k \/ j = k \/ j > k
        BY DEF Conns
      <4> QED BY <3>1, <4>1, <4>2, <4>3
    <3>7. k + 1 > k
      BY DEF Conns
    <3> QED BY <1>0, <3>1, <3>2, <3>3, <3>5, <3>6, <3>7 DEF Sockets, Connected
  <2>2. CASE Start(k)
    <3>1. at[k] \in Connected /\ UNCHANGED conn
      BY <2>2 DEF Start, Connected
    <3>2. at' = [at EXCEPT ![k] = "loop"] \/ at' = [at EXCEPT ![k] = "ended"]
      BY <2>2 DEF Start, Goto
    <3>3. conn[k] # "none" /\ at[k] # "none"
      BY <1>0, <3>1 DEF Sockets, Connected
    <3> QED BY <1>0, <3>1, <3>2, <3>3, SocketsGoOn DEF Connected
  <2>3. CASE HandleEvent(k)
    <3>1. at[k] \in Connected /\ UNCHANGED conn
      BY <2>3 DEF HandleEvent, Connected
    <3>2. UNCHANGED at \/ at' = [at EXCEPT ![k] = "ended"]
      BY <2>3 DEF HandleEvent, Goto
    <3>3. conn[k] # "none" /\ at[k] # "none"
      BY <1>0, <3>1 DEF Sockets, Connected
    <3> QED BY <1>0, <3>1, <3>2, <3>3, SocketsGoOn, SocketsSame DEF Connected
  <2>4. CASE LoopDone(k)
    <3>1. at[k] \in Connected /\ UNCHANGED conn /\ at' = [at EXCEPT ![k] = "ended"]
      BY <2>4 DEF LoopDone, Connected, Goto
    <3>2. conn[k] # "none" /\ at[k] # "none"
      BY <1>0, <3>1 DEF Sockets, Connected
    <3> QED BY <1>0, <3>1, <3>2, SocketsGoOn DEF Connected
  <2> QED BY <1>4, <2>1, <2>2, <2>3, <2>4 DEF EventLoop
<1>5. ASSUME NEW k \in Conns, SyncChats(k) \/ Lose(k) PROVE Sockets'
  <2>1. CASE SyncChats(k)
    <3>1. UNCHANGED <<at, conn>>
      BY <2>1 DEF SyncChats, SyncCheck, SyncList, SyncSave, threadVars
    <3> QED BY <1>0, <3>1, SocketsSame
  <2>2. CASE Lose(k)
    BY <1>0, <2>2 DEF Lose, TypeOK, Sockets, Connected, threadVars
  <2> QED BY <1>5, <2>1, <2>2
<1>6. ASSUME NEW h \in Handlers, MatrixCheck(h) \/ MatrixSend(h) PROVE Sockets'
  <2>1. UNCHANGED <<at, conn>>
    BY <1>6 DEF MatrixCheck, MatrixSend, threadVars
  <2> QED BY <1>0, <2>1, SocketsSame
<1>7. CASE UNCHANGED vars
  BY <1>0, <1>7, SocketsSame DEF vars, threadVars
<1> QED BY <1>1, <1>2, <1>3, <1>4, <1>5, <1>6, <1>7 DEF Next

LEMMA ClientNext == TypeOK /\ IInv /\ [Next]_vars => ClientIsLast'
<1> SUFFICES ASSUME TypeOK, IInv, [Next]_vars PROVE ClientIsLast'
  OBVIOUS
<1> USE LifecycleAssumption DEF LifecycleAssumption, TypeOK, IInv, Relay, ClientIsLast,
        Connected, Conns, nil, Goto, threadVars, syncVars, discVars
<1>1. CASE Connect
  BY <1>1 DEF Connect
<1>2. CASE Disconnect
  BY <1>2 DEF Disconnect, DiscCancel, DiscClose, DiscClear
<1>3. ASSUME NEW k \in Conns, TryConnect(k) PROVE ClientIsLast'
  <2>1. CASE Begin(k)
    BY <2>1 DEF Begin
  <2>2. CASE DialOk(k)
    BY <2>2 DEF DialOk
  <2>3. CASE DialFails(k)
    BY <2>3 DEF DialFails
  <2>4. CASE Retry(k)
    BY <2>4 DEF Retry
  <2>5. CASE StopRetrying(k)
    BY <2>5 DEF StopRetrying
  <2>6. CASE Assign(k)
    <3>1. sClient' = k /\ at' = [at EXCEPT ![k] = "announce"]
      BY <2>6 DEF Assign
    <3>2. \A j \in Conns : j # k => at[j] \notin Connected
      <4> TAKE j \in Conns
      <4>1. at[k] = "assign"
        BY <2>6 DEF Assign
      <4>2. CASE j < k
        BY <4>1, <4>2
      <4>3. CASE k < j
        BY <4>1, <4>3
      <4> QED BY <4>2, <4>3
    <3>3. at'[k] = "announce" /\ \A j \in Conns : j # k => at'[j] = at[j]
      BY <3>1
    <3> QED BY <3>1, <3>2, <3>3
  <2>7. CASE Announce(k)
    BY <2>7 DEF Announce
  <2>8. CASE Arm(k)
    BY <2>8 DEF Arm
  <2> QED BY <1>3, <2>1, <2>2, <2>3, <2>4, <2>5, <2>6, <2>7, <2>8 DEF TryConnect
<1>4. ASSUME NEW k \in Conns, EventLoop(k) PROVE ClientIsLast'
  <2>1. CASE Start(k)
    BY <2>1 DEF Start
  <2>2. CASE HandleEvent(k)
    BY <2>2 DEF HandleEvent
  <2>3. CASE Reconnect(k)
    BY <2>3 DEF Reconnect
  <2>4. CASE LoopDone(k)
    BY <2>4 DEF LoopDone
  <2> QED BY <1>4, <2>1, <2>2, <2>3, <2>4 DEF EventLoop
<1>5. ASSUME NEW k \in Conns, SyncChats(k) \/ Lose(k) PROVE ClientIsLast'
  BY <1>5 DEF SyncChats, SyncCheck, SyncList, SyncSave, Lose
<1>6. ASSUME NEW h \in Handlers, MatrixCheck(h) \/ MatrixSend(h) PROVE ClientIsLast'
  BY <1>6 DEF MatrixCheck, MatrixSend
<1>7. CASE UNCHANGED vars
  BY <1>7 DEF vars
<1> QED BY <1>1, <1>2, <1>3, <1>4, <1>5, <1>6, <1>7 DEF Next

LEMMA LoopsOnItsOwnNext == TypeOK /\ IInv /\ [Next]_vars => LoopsOnItsOwn'
<1> SUFFICES ASSUME TypeOK, IInv, [Next]_vars PROVE LoopsOnItsOwn'
  OBVIOUS
<1> USE LifecycleAssumption DEF LifecycleAssumption, TypeOK, IInv, LoopsOnItsOwn,
        ClientIsLast, Connected, Conns, nil,
        Goto, threadVars, syncVars, discVars
<1>1. CASE Connect
  BY <1>1 DEF Connect
<1>2. CASE Disconnect
  <2>1. CASE DiscCancel
    BY <2>1 DEF DiscCancel
  <2>2. CASE DiscClose
    BY <2>2 DEF DiscClose
  <2>3. CASE DiscClear
    BY <2>3 DEF DiscClear
  <2> QED BY <1>2, <2>1, <2>2, <2>3 DEF Disconnect
<1>3. ASSUME NEW k \in Conns, TryConnect(k) PROVE LoopsOnItsOwn'
  <2>1. CASE Begin(k)
    BY <2>1 DEF Begin
  <2>2. CASE DialOk(k)
    BY <2>2 DEF DialOk
  <2>3. CASE DialFails(k)
    BY <2>3 DEF DialFails
  <2>4. CASE Retry(k)
    BY <2>4 DEF Retry
  <2>5. CASE StopRetrying(k)
    BY <2>5 DEF StopRetrying
  <2>6. CASE Assign(k)
    BY <2>6 DEF Assign
  <2>7. CASE Announce(k)
    BY <2>7 DEF Announce
  <2>8. CASE Arm(k)
    BY <2>8 DEF Arm
  <2> QED BY <1>3, <2>1, <2>2, <2>3, <2>4, <2>5, <2>6, <2>7, <2>8 DEF TryConnect
<1>4. ASSUME NEW k \in Conns, EventLoop(k) PROVE LoopsOnItsOwn'
  <2>1. CASE Start(k)
    BY <2>1 DEF Start
  <2>2. CASE HandleEvent(k)
    BY <2>2 DEF HandleEvent
  <2>3. CASE Reconnect(k)
    BY <2>3 DEF Reconnect
  <2>4. CASE LoopDone(k)
    BY <2>4 DEF LoopDone
  <2> QED BY <1>4, <2>1, <2>2, <2>3, <2>4 DEF EventLoop
<1>5. ASSUME NEW k \in Conns, SyncChats(k) \/ Lose(k) PROVE LoopsOnItsOwn'
  BY <1>5 DEF SyncChats, SyncCheck, SyncList, SyncSave, Lose
<1>6. ASSUME NEW h \in Handlers, MatrixCheck(h) \/ MatrixSend(h) PROVE LoopsOnItsOwn'
  BY <1>6 DEF MatrixCheck, MatrixSend
<1>7. CASE UNCHANGED vars
  BY <1>7 DEF vars
<1> QED BY <1>1, <1>2, <1>3, <1>4, <1>5, <1>6, <1>7 DEF Next

LEMMA ClientStaysNext == TypeOK /\ IInv /\ [Next]_vars => ClientStays'
<1> SUFFICES ASSUME TypeOK, IInv, [Next]_vars PROVE ClientStays'
  OBVIOUS
<1> USE LifecycleAssumption DEF LifecycleAssumption, TypeOK, IInv, ClientStays,
        Conns, nil,
        Goto, threadVars, syncVars, discVars
<1>1. CASE Connect
  BY <1>1 DEF Connect
<1>2. CASE Disconnect
  <2>1. CASE DiscCancel
    BY <2>1 DEF DiscCancel
  <2>2. CASE DiscClose
    BY <2>2 DEF DiscClose
  <2>3. CASE DiscClear
    BY <2>3 DEF DiscClear
  <2> QED BY <1>2, <2>1, <2>2, <2>3 DEF Disconnect
<1>3. ASSUME NEW k \in Conns, TryConnect(k) PROVE ClientStays'
  <2>1. CASE Begin(k)
    BY <2>1 DEF Begin
  <2>2. CASE DialOk(k)
    BY <2>2 DEF DialOk
  <2>3. CASE DialFails(k)
    BY <2>3 DEF DialFails
  <2>4. CASE Retry(k)
    BY <2>4 DEF Retry
  <2>5. CASE StopRetrying(k)
    BY <2>5 DEF StopRetrying
  <2>6. CASE Assign(k)
    BY <2>6 DEF Assign
  <2>7. CASE Announce(k)
    BY <2>7 DEF Announce
  <2>8. CASE Arm(k)
    BY <2>8 DEF Arm
  <2> QED BY <1>3, <2>1, <2>2, <2>3, <2>4, <2>5, <2>6, <2>7, <2>8 DEF TryConnect
<1>4. ASSUME NEW k \in Conns, EventLoop(k) PROVE ClientStays'
  <2>1. CASE Start(k)
    BY <2>1 DEF Start
  <2>2. CASE HandleEvent(k)
    BY <2>2 DEF HandleEvent
  <2>3. CASE Reconnect(k)
    BY <2>3 DEF Reconnect
  <2>4. CASE LoopDone(k)
    BY <2>4 DEF LoopDone
  <2> QED BY <1>4, <2>1, <2>2, <2>3, <2>4 DEF EventLoop
<1>5. ASSUME NEW k \in Conns, SyncChats(k) \/ Lose(k) PROVE ClientStays'
  BY <1>5 DEF SyncChats, SyncCheck, SyncList, SyncSave, Lose
<1>6. ASSUME NEW h \in Handlers, MatrixCheck(h) \/ MatrixSend(h) PROVE ClientStays'
  BY <1>6 DEF MatrixCheck, MatrixSend
<1>7. CASE UNCHANGED vars
  BY <1>7 DEF vars
<1> QED BY <1>1, <1>2, <1>3, <1>4, <1>5, <1>6, <1>7 DEF Next

LEMMA ArmedNext == TypeOK /\ IInv /\ [Next]_vars => Armed'
<1> SUFFICES ASSUME TypeOK, IInv, [Next]_vars PROVE Armed'
  OBVIOUS
<1> USE LifecycleAssumption DEF LifecycleAssumption, TypeOK, IInv, Armed, Relay,
        Conns, nil,
        Goto, threadVars, syncVars, discVars
<1>1. CASE Connect
  BY <1>1 DEF Connect
<1>2. CASE Disconnect
  <2>1. CASE DiscCancel
    BY <2>1 DEF DiscCancel
  <2>2. CASE DiscClose
    BY <2>2 DEF DiscClose
  <2>3. CASE DiscClear
    BY <2>3 DEF DiscClear
  <2> QED BY <1>2, <2>1, <2>2, <2>3 DEF Disconnect
<1>3. ASSUME NEW k \in Conns, TryConnect(k) PROVE Armed'
  <2>1. CASE Begin(k)
    BY <2>1 DEF Begin
  <2>2. CASE DialOk(k)
    BY <2>2 DEF DialOk
  <2>3. CASE DialFails(k)
    BY <2>3 DEF DialFails
  <2>4. CASE Retry(k)
    BY <2>4 DEF Retry
  <2>5. CASE StopRetrying(k)
    BY <2>5 DEF StopRetrying
  <2>6. CASE Assign(k)
    BY <2>6 DEF Assign
  <2>7. CASE Announce(k)
    BY <2>7 DEF Announce
  <2>8. CASE Arm(k)
    <3>1. cancelFn' = k /\ at[k] = "arm"
      BY <2>8 DEF Arm
    <3>2. \A j \in Conns : j # k => at'[j] = at[j]
      BY <2>8 DEF Arm
    <3>3. \A j \in Conns : j < k => at[j] = "ended"
      BY <3>1
    <3>4. \A j \in Conns : j > k => at[j] = "none"
      BY <3>1
    <3> SUFFICES ASSUME NEW j \in Conns, at'[j] \in {"start", "loop"} PROVE cancelFn' = j
      OBVIOUS
    <3>5. CASE j < k
      BY <3>2, <3>3, <3>5
    <3>6. CASE j > k
      BY <3>2, <3>4, <3>6
    <3> QED BY <3>1, <3>5, <3>6
  <2> QED BY <1>3, <2>1, <2>2, <2>3, <2>4, <2>5, <2>6, <2>7, <2>8 DEF TryConnect
<1>4. ASSUME NEW k \in Conns, EventLoop(k) PROVE Armed'
  <2>1. CASE Start(k)
    BY <2>1 DEF Start
  <2>2. CASE HandleEvent(k)
    BY <2>2 DEF HandleEvent
  <2>3. CASE Reconnect(k)
    BY <2>3 DEF Reconnect
  <2>4. CASE LoopDone(k)
    BY <2>4 DEF LoopDone
  <2> QED BY <1>4, <2>1, <2>2, <2>3, <2>4 DEF EventLoop
<1>5. ASSUME NEW k \in Conns, SyncChats(k) \/ Lose(k) PROVE Armed'
  BY <1>5 DEF SyncChats, SyncCheck, SyncList, SyncSave, Lose
<1>6. ASSUME NEW h \in Handlers, MatrixCheck(h) \/ MatrixSend(h) PROVE Armed'
  BY <1>6 DEF MatrixCheck, MatrixSend
<1>7. CASE UNCHANGED vars
  BY <1>7 DEF vars
<1> QED BY <1>1, <1>2, <1>3, <1>4, <1>5, <1>6, <1>7 DEF Next

LEMMA IdleNext == TypeOK /\ IInv /\ [Next]_vars => Idle'
<1> SUFFICES ASSUME TypeOK, IInv, [Next]_vars PROVE Idle'
  OBVIOUS
<1> USE LifecycleAssumption DEF LifecycleAssumption, TypeOK, IInv, Idle, Conns, nil,
        Goto, threadVars, syncVars, discVars
<1>1. CASE Connect
  BY <1>1 DEF Connect
<1>2. CASE Disconnect
  <2>1. CASE DiscCancel
    BY <2>1 DEF DiscCancel
  <2>2. CASE DiscClose
    BY <2>2 DEF DiscClose
  <2>3. CASE DiscClear
    BY <2>3 DEF DiscClear
  <2> QED BY <1>2, <2>1, <2>2, <2>3 DEF Disconnect
<1>3. ASSUME NEW k \in Conns, TryConnect(k) PROVE Idle'
  <2>1. CASE Begin(k)
    BY <2>1 DEF Begin
  <2>2. CASE DialOk(k)
    BY <2>2 DEF DialOk
  <2>3. CASE DialFails(k)
    BY <2>3 DEF DialFails
  <2>4. CASE Retry(k)
    BY <2>4 DEF Retry
  <2>5. CASE StopRetrying(k)
    BY <2>5 DEF StopRetrying
  <2>6. CASE Assign(k)
    BY <2>6 DEF Assign
  <2>7. CASE Announce(k)
    BY <2>7 DEF Announce
  <2>8. CASE Arm(k)
    BY <2>8 DEF Arm
  <2> QED BY <1>3, <2>1, <2>2, <2>3, <2>4, <2>5, <2>6, <2>7, <2>8 DEF TryConnect
<1>4. ASSUME NEW k \in Conns, EventLoop(k) PROVE Idle'
  <2>1. CASE Start(k)
    BY <2>1 DEF Start
  <2>2. CASE HandleEvent(k)
    BY <2>2 DEF HandleEvent
  <2>3. CASE Reconnect(k)
    BY <2>3 DEF Reconnect
  <2>4. CASE LoopDone(k)
    BY <2>4 DEF LoopDone
  <2> QED BY <1>4, <2>1, <2>2, <2>3, <2>4 DEF EventLoop
<1>5. ASSUME NEW k \in Conns, SyncChats(k) \/ Lose(k) PROVE Idle'
  BY <1>5 DEF SyncChats, SyncCheck, SyncList, SyncSave, Lose
<1>6. ASSUME NEW h \in Handlers, MatrixCheck(h) \/ MatrixSend(h) PROVE Idle'
  BY <1>6 DEF MatrixCheck, MatrixSend
<1>7. CASE UNCHANGED vars
  BY <1>7 DEF vars
<1> QED BY <1>1, <1>2, <1>3, <1>4, <1>5, <1>6, <1>7 DEF Next

LEMMA InvNext == TypeOK /\ IInv /\ [Next]_vars => IInv'
BY RelayNext, SocketsNext, ClientNext, LoopsOnItsOwnNext, ClientStaysNext, ArmedNext,
   IdleNext DEF IInv

LEMMA Invariant == Spec => [](TypeOK /\ IInv)
BY TypeInit, TypeNext, InvInit, InvNext, PTL DEF Spec

(* There is one thread, and one connection that is up, at a time, and an    *)
(* event loop receives the events of its own connection.                    *)
THEOREM OneAtATime == Spec => []OneConnection
<1>1. TypeOK /\ IInv => OneConnection
  <2> SUFFICES ASSUME TypeOK, IInv, NEW j \in Conns, NEW k \in Conns, j < k
               PROVE  /\ ~(Active(j) /\ Active(k))
                      /\ ~(conn[j] = "up" /\ conn[k] = "up")
    BY DEF OneConnection, Conns, IInv, LoopsOnItsOwn
  <2>1. Active(k) => at[j] = "ended"
    BY DEF Active, IInv, Relay
  <2>2. conn[j] = "up" => conn[k] = "none"
    BY DEF IInv, Sockets
  <2> QED BY <2>1, <2>2 DEF Active
<1> QED BY <1>1, Invariant, PTL

-----------------------------------------------------------------------------
(* A nil s.Client is dereferenced only after a Disconnect has cleared it.   *)

LEMMA PanicsOnlyOnLogoutNext ==
    TypeOK /\ IInv /\ PanicsOnlyOnLogout /\ [Next]_vars => PanicsOnlyOnLogout'
<1> SUFFICES ASSUME TypeOK, IInv, PanicsOnlyOnLogout, [Next]_vars PROVE PanicsOnlyOnLogout'
  OBVIOUS
<1> USE LifecycleAssumption DEF LifecycleAssumption, TypeOK, IInv,
        PanicsOnlyOnLogout, ClientIsLast, ClientStays, Connected, Panic, Conns, nil,
        Goto, threadVars, syncVars, discVars
<1>1. CASE Connect
  BY <1>1 DEF Connect
<1>2. CASE Disconnect
  <2>1. CASE DiscCancel
    BY <2>1 DEF DiscCancel
  <2>2. CASE DiscClose
    BY <2>2 DEF DiscClose
  <2>3. CASE DiscClear
    BY <2>3 DEF DiscClear
  <2> QED BY <1>2, <2>1, <2>2, <2>3 DEF Disconnect
<1>3. ASSUME NEW k \in Conns, TryConnect(k) PROVE PanicsOnlyOnLogout'
  <2>1. CASE Begin(k)
    BY <2>1 DEF Begin
  <2>2. CASE DialOk(k)
    BY <2>2 DEF DialOk
  <2>3. CASE DialFails(k)
    BY <2>3 DEF DialFails
  <2>4. CASE Retry(k)
    BY <2>4 DEF Retry
  <2>5. CASE StopRetrying(k)
    BY <2>5 DEF StopRetrying
  <2>6. CASE Assign(k)
    BY <2>6 DEF Assign
  <2>7. CASE Announce(k)
    BY <2>7 DEF Announce
  <2>8. CASE Arm(k)
    BY <2>8 DEF Arm
  <2> QED BY <1>3, <2>1, <2>2, <2>3, <2>4, <2>5, <2>6, <2>7, <2>8 DEF TryConnect
<1>4. ASSUME NEW k \in Conns, EventLoop(k) PROVE PanicsOnlyOnLogout'
  <2>1. CASE Start(k)
    BY <2>1 DEF Start
  <2>2. CASE HandleEvent(k)
    BY <2>2 DEF HandleEvent
  <2>3. CASE Reconnect(k)
    BY <2>3 DEF Reconnect
  <2>4. CASE LoopDone(k)
    BY <2>4 DEF LoopDone
  <2> QED BY <1>4, <2>1, <2>2, <2>3, <2>4 DEF EventLoop
<1>5. ASSUME NEW k \in Conns, SyncChats(k) \/ Lose(k) PROVE PanicsOnlyOnLogout'
  BY <1>5 DEF SyncChats, SyncCheck, SyncList, SyncSave, Lose
<1>6. ASSUME NEW h \in Handlers, MatrixCheck(h) \/ MatrixSend(h) PROVE PanicsOnlyOnLogout'
  BY <1>6 DEF MatrixCheck, MatrixSend
<1>7. CASE UNCHANGED vars
  BY <1>7 DEF vars
<1> QED BY <1>1, <1>2, <1>3, <1>4, <1>5, <1>6, <1>7 DEF Next

(* However the goroutines interleave, nobody dereferences a nil s.Client    *)
(* before a Disconnect.                                                     *)
THEOREM NoPanicByReconnect == Spec => []PanicsOnlyOnLogout
<1>1. Init => PanicsOnlyOnLogout
  BY DEF Init, PanicsOnlyOnLogout
<1> QED BY <1>1, Invariant, PanicsOnlyOnLogoutNext, PTL DEF Spec

-----------------------------------------------------------------------------
(* A login that shows as connected is watched.                              *)

LEMMA ConnectedIsWatchedNext ==
    TypeOK /\ IInv /\ ConnectedIsWatched /\ [Next]_vars => ConnectedIsWatched'
<1> SUFFICES ASSUME TypeOK, IInv, ConnectedIsWatched, [Next]_vars PROVE ConnectedIsWatched'
  OBVIOUS
<1> USE LifecycleAssumption DEF LifecycleAssumption, TypeOK, IInv,
        ConnectedIsWatched, ClientIsLast, Idle, Cancelled, Connected, Conns, nil,
        Goto, threadVars, syncVars, discVars
<1>1. CASE Connect
  BY <1>1 DEF Connect
<1>2. CASE Disconnect
  <2>1. CASE DiscCancel
    BY <2>1 DEF DiscCancel
  <2>2. CASE DiscClose
    BY <2>2 DEF DiscClose
  <2>3. CASE DiscClear
    BY <2>3 DEF DiscClear
  <2> QED BY <1>2, <2>1, <2>2, <2>3 DEF Disconnect
<1>3. ASSUME NEW k \in Conns, TryConnect(k) PROVE ConnectedIsWatched'
  <2>1. CASE Begin(k)
    BY <2>1 DEF Begin
  <2>2. CASE DialOk(k)
    BY <2>2 DEF DialOk
  <2>3. CASE DialFails(k)
    BY <2>3 DEF DialFails
  <2>4. CASE Retry(k)
    BY <2>4 DEF Retry
  <2>5. CASE StopRetrying(k)
    BY <2>5 DEF StopRetrying
  <2>6. CASE Assign(k)
    <3>1. at[k] = "assign" /\ UNCHANGED <<bridgeState, disc>>
      BY <2>6 DEF Assign
    <3>2. \A j \in Conns : at[j] \notin {"arm", "start", "loop"}
      <4> TAKE j \in Conns
      <4>1. CASE j < k
        BY <3>1, <4>1 DEF Relay
      <4>2. CASE k < j
        BY <3>1, <4>2 DEF Relay
      <4> QED BY <3>1, <4>1, <4>2
    <3> QED BY <3>1, <3>2
  <2>7. CASE Announce(k)
    BY <2>7 DEF Announce
  <2>8. CASE Arm(k)
    BY <2>8 DEF Arm
  <2> QED BY <1>3, <2>1, <2>2, <2>3, <2>4, <2>5, <2>6, <2>7, <2>8 DEF TryConnect
<1>4. ASSUME NEW k \in Conns, EventLoop(k) PROVE ConnectedIsWatched'
  <2>1. CASE Start(k)
    BY <2>1 DEF Start
  <2>2. CASE HandleEvent(k)
    BY <2>2 DEF HandleEvent
  <2>3. CASE Reconnect(k)
    BY <2>3 DEF Reconnect
  <2>4. CASE LoopDone(k)
    BY <2>4 DEF LoopDone
  <2> QED BY <1>4, <2>1, <2>2, <2>3, <2>4 DEF EventLoop
<1>5. ASSUME NEW k \in Conns, SyncChats(k) \/ Lose(k) PROVE ConnectedIsWatched'
  <2>1. UNCHANGED <<at, sClient, bridgeState, disc>>
    BY <1>5 DEF SyncChats, SyncCheck, SyncList, SyncSave, Lose
  <2> QED BY <2>1
<1>6. ASSUME NEW h \in Handlers, MatrixCheck(h) \/ MatrixSend(h) PROVE ConnectedIsWatched'
  BY <1>6 DEF MatrixCheck, MatrixSend
<1>7. CASE UNCHANGED vars
  BY <1>7 DEF vars
<1> QED BY <1>1, <1>2, <1>3, <1>4, <1>5, <1>6, <1>7 DEF Next

(* Unless it is logged out, a login that shows as connected has a thread    *)
(* that will see the loss of its connection.                                *)
THEOREM ConnectedHasWatcher == Spec => []ConnectedIsWatched
<1>1. Init => ConnectedIsWatched
  BY DEF Init, ConnectedIsWatched
<1> QED BY <1>1, Invariant, ConnectedIsWatchedNext, PTL DEF Spec

-----------------------------------------------------------------------------
(* After a Disconnect that found an event loop running: the connection of   *)
(* that loop, and no later one, is the one it closes.                       *)
Final ==
    calm =>
        /\ cancelFn \in cancelled
        /\ at[cancelFn] \in {"loop", "ended"}
        /\ \A j \in Conns : j > cancelFn => at[j] \notin Connected \union {"assign"}
        /\ \A j \in Conns : j # cancelFn => conn[j] # "up"
        /\ disc \in {"close", "clear"} => sClient = cancelFn
        /\ disc \in {"clear", "done"} => conn[cancelFn] # "up"
        /\ disc = "done" => sClient = nil

LEMMA DisconnectIsFinal == TypeOK /\ IInv /\ Final /\ Disconnect => Final'
<1> SUFFICES ASSUME TypeOK, IInv, Final, Disconnect PROVE Final'
  OBVIOUS
<1> USE DEF TypeOK, IInv, nil, threadVars, syncVars
<1>1. CASE DiscCancel
  <2>1. disc' = "close" /\ UNCHANGED <<at, sClient, cancelFn, conn>>
    BY <1>1 DEF DiscCancel
  <2> SUFFICES ASSUME NEW m \in Conns, at[m] = "loop"
               PROVE  Final'
    BY <1>1 DEF DiscCancel, Final
  <2>2. cancelFn = m /\ sClient = m
    BY <1>1 DEF DiscCancel, Armed, ClientIsLast, Connected
  <2>3. cancelFn' \in cancelled'
    BY <1>1, <2>2 DEF DiscCancel, Conns
  <2>4. \A j \in Conns : j > m => at[j] = "none"
    BY DEF Relay
  <2>5. \A j \in Conns : j # m => conn[j] # "up"
    <3> TAKE j \in Conns
    <3>1. CASE j > m
      BY <2>4, <3>1 DEF Sockets
    <3>2. CASE j < m
      BY <3>2 DEF Sockets
    <3> QED BY <3>1, <3>2 DEF Conns
  <2> QED BY <2>1, <2>2, <2>3, <2>4, <2>5 DEF Final, Connected
<1>2. CASE DiscClose
  <2>1. CASE calm
    <3>1. sClient = cancelFn /\ sClient \in Conns /\ conn' = [conn EXCEPT ![sClient] = "closed"]
      BY <1>2, <2>1 DEF DiscClose, Final, Conns
    <3>2. disc' = "clear" /\ UNCHANGED <<calm, at, sClient, cancelFn, cancelled>>
      BY <1>2, <3>1 DEF DiscClose, Conns
    <3> QED BY <2>1, <3>1, <3>2 DEF Final
  <2>2. CASE ~calm
    BY <1>2, <2>2 DEF DiscClose, Final
  <2> QED BY <2>1, <2>2
<1>3. CASE DiscClear
  BY <1>3 DEF DiscClear, Final
<1> QED BY <1>1, <1>2, <1>3 DEF Disconnect

LEMMA FinalNext == TypeOK /\ IInv /\ Final /\ [Next]_vars => Final'
<1> SUFFICES ASSUME TypeOK, IInv, Final, [Next]_vars PROVE Final'
  OBVIOUS
<1> USE DEF TypeOK, nil, Goto, threadVars, syncVars, discVars
<1>1. CASE Disconnect
  BY <1>1, DisconnectIsFinal
<1>2. CASE ~calm /\ ~Disconnect
  <2>1. UNCHANGED calm
    BY <1>2 DEF Next, vars, Connect, TryConnect, Begin, DialOk, DialFails, Retry,
       StopRetrying, Assign, Announce, Arm, EventLoop, Start, HandleEvent, Reconnect,
       LoopDone, SyncChats, SyncCheck, SyncList, SyncSave, Lose, MatrixCheck, MatrixSend
  <2> QED BY <1>2, <2>1 DEF Final
<1>3. CASE calm
  <2>1. cancelFn \in Conns /\ cancelFn \in cancelled
    BY <1>3 DEF Final
  <2>2. ASSUME NEW k \in Conns, at[k] \notin {"none", "loop", "ended"}
        PROVE  k > cancelFn /\ Cancelled(k - 1)
    <3>1. k # cancelFn
      BY <1>3, <2>2 DEF Final
    <3>2. ~(k < cancelFn)
      BY <1>3, <2>1, <2>2 DEF Final, IInv, Relay
    <3> QED BY <2>1, <3>1, <3>2 DEF Cancelled, Conns
  <2>3. ASSUME NEW k \in Conns, TryConnect(k) PROVE Final'
    <3>1. at[k] \notin {"none", "loop", "ended", "assign", "announce", "arm"} /\ ~DialOk(k)
      BY <1>3, <2>2, <2>3 DEF TryConnect, Begin, DialOk, DialFails, Retry, StopRetrying,
         Assign, Announce, Arm, Final, Connected
    <3>2. /\ \E p \in {"dial", "backoff", "ended"} : at' = [at EXCEPT ![k] = p]
          /\ UNCHANGED <<calm, disc, cancelled, cancelFn, sClient, conn>>
      BY <2>3, <3>1 DEF TryConnect, Begin, DialFails, Retry, StopRetrying, Assign, Announce, Arm
    <3>3. at'[cancelFn] = at[cancelFn]
      BY <2>1, <2>2, <3>1, <3>2 DEF Conns
    <3>4. \A j \in Conns : at'[j] = at[j] \/ at'[j] \in {"dial", "backoff", "ended"}
      BY <3>2
    <3> QED BY <1>3, <3>2, <3>3, <3>4 DEF Final, Connected
  <2>4. ASSUME NEW k \in Conns, EventLoop(k) PROVE Final'
    <3>1. CASE Start(k)
      BY <1>3, <2>2, <3>1 DEF Start, Final, Connected
    <3>2. CASE HandleEvent(k) \/ LoopDone(k)
      <4>1. /\ at' = at \/ at' = [at EXCEPT ![k] = "ended"]
            /\ UNCHANGED <<calm, disc, cancelled, cancelFn, sClient, conn>>
        BY <3>2 DEF HandleEvent, LoopDone
      <4>2. \A j \in Conns : at'[j] = at[j] \/ at'[j] = "ended"
        BY <4>1
      <4> QED BY <1>3, <2>1, <4>1, <4>2 DEF Final, Connected
    <3>3. CASE Reconnect(k)
      <4>1. /\ at' = [at EXCEPT ![k] = "ended", ![k + 1] = "begin"] /\ at[k] = "loop"
            /\ UNCHANGED <<calm, disc, cancelled, cancelFn, sClient, conn>>
        BY <3>3 DEF Reconnect
      <4>2. \A j \in Conns : at'[j] = at[j] \/ at'[j] \in {"ended", "begin"}
        BY <4>1
      <4>3. cancelFn # k + 1
        BY <1>3, <4>1 DEF Final, IInv, Relay, Conns
      <4>4. at'[cancelFn] \in {at[cancelFn], "ended"}
        BY <2>1, <4>1, <4>3
      <4> QED BY <1>3, <4>1, <4>2, <4>4 DEF Final, Connected
    <3> QED BY <2>4, <3>1, <3>2, <3>3 DEF EventLoop
  <2>5. ASSUME NEW k \in Conns, Lose(k) PROVE Final'
    BY <1>3, <2>1, <2>5 DEF Lose, Final
  <2>6. CASE \/ \E k \in Conns : SyncChats(k)
             \/ \E h \in Handlers : MatrixCheck(h) \/ MatrixSend(h)
    <3>1. UNCHANGED <<at, calm, disc, cancelled, cancelFn, sClient, conn>>
      BY <2>6 DEF SyncChats, SyncCheck, SyncList, SyncSave, MatrixCheck, MatrixSend
    <3> QED BY <3>1 DEF Final
  <2>7. CASE Connect
    <3>1. FALSE
      <4>1. 1 \in Conns /\ at[1] = "none"
        BY <2>1, <2>7, LifecycleAssumption DEF LifecycleAssumption, Connect, Conns
      <4>2. at[cancelFn] # "none" /\ cancelFn # 1
        BY <1>3, <4>1 DEF Final
      <4>3. 1 < cancelFn
        BY <2>1, <4>2 DEF Conns
      <4> QED BY <2>1, <4>1, <4>2, <4>3 DEF IInv, Relay
    <3> QED BY <3>1
  <2>8. CASE UNCHANGED vars
    BY <2>8 DEF Final, vars
  <2> QED BY <1>1, <2>3, <2>4, <2>5, <2>6, <2>7, <2>8 DEF Next
<1> QED BY <1>1, <1>2, <1>3

(* A Disconnect that found an event loop running leaves no client, no       *)
(* connection and no thread that would make one.                            *)
THEOREM LogoutLeavesNothing == Spec => []LogoutIsFinal
<1>1. Init => Final
  BY DEF Init, Final
<1>2. TypeOK /\ IInv /\ Final => LogoutIsFinal
  <2> SUFFICES ASSUME TypeOK, IInv, Final, calm, disc = "done"
               PROVE  /\ sClient = nil
                      /\ \A k \in Conns : conn[k] # "up"
                      /\ \A k \in Conns : at[k] \notin {"assign", "announce", "arm", "start"}
    BY DEF LogoutIsFinal
  <2>1. cancelFn \in Conns
    BY DEF Final, TypeOK
  <2>2. \A k \in Conns : k < cancelFn => at[k] = "ended"
    BY <2>1 DEF IInv, Relay, Final
  <2>3. sClient = nil /\ \A k \in Conns : conn[k] # "up"
    BY <2>1 DEF Final
  <2>4. \A k \in Conns : at[k] \notin {"assign", "announce", "arm", "start"}
    <3> TAKE k \in Conns
    <3>1. CASE k > cancelFn
      BY <3>1 DEF Final, Connected
    <3>2. CASE k = cancelFn
      BY <3>2 DEF Final
    <3> QED BY <2>1, <2>2, <3>1, <3>2 DEF Conns
  <2> QED BY <2>3, <2>4
<1> QED BY <1>1, <1>2, Invariant, FinalNext, PTL DEF Spec

-----------------------------------------------------------------------------
(* Powers of two, counted as sets of subsets.                               *)

LEMMA PowerOfTwo ==
    ASSUME NEW n \in Nat
    PROVE  /\ IsFiniteSet(SUBSET (1 .. n)) /\ Cardinality(SUBSET (1 .. n)) = 2^n
           /\ 2^n \in Nat
<1>1. IsFiniteSet(1 .. n) /\ Cardinality(1 .. n) = n
  BY FS_Interval
<1>2. IsFiniteSet(SUBSET (1 .. n)) /\ Cardinality(SUBSET (1 .. n)) = 2^n
  BY <1>1, FS_SUBSET
<1>3. Cardinality(SUBSET (1 .. n)) \in Nat
  BY <1>2, FS_CardinalityType
<1> QED BY <1>2, <1>3

LEMMA PowersGrow == ASSUME NEW m \in Nat, NEW n \in Nat, m <= n PROVE 2^m <= 2^n
<1>1. SUBSET (1 .. m) \in SUBSET (SUBSET (1 .. n))
  OBVIOUS
<1>2. Cardinality(SUBSET (1 .. m)) <= Cardinality(SUBSET (1 .. n))
  BY <1>1, PowerOfTwo, FS_Subset
<1> QED BY <1>2, PowerOfTwo

(* Each set of numbers up to n makes two up to n + 1.                       *)
LEMMA PowersDouble == ASSUME NEW n \in Nat PROVE 2^(n + 1) = 2 * 2^n
<1> DEFINE Old == SUBSET (1 .. n)
           New == {T \union {n + 1} : T \in Old}
           f == [T \in Old |-> T \union {n + 1}]
<1>1. SUBSET (1 .. n + 1) = Old \union New
  <2>1. ASSUME NEW T \in SUBSET (1 .. n + 1) PROVE T \in Old \union New
    <3>1. CASE n + 1 \in T
      <4>1. T \ {n + 1} \in Old /\ T = (T \ {n + 1}) \union {n + 1}
        BY <3>1
      <4> QED BY <4>1
    <3>2. CASE n + 1 \notin T
      BY <3>2
    <3> QED BY <3>1, <3>2
  <2>2. ASSUME NEW T \in Old \union New PROVE T \in SUBSET (1 .. n + 1)
    <3>1. 1 .. n \subseteq 1 .. n + 1 /\ n + 1 \in 1 .. n + 1
      OBVIOUS
    <3> QED BY <3>1
  <2> QED BY <2>1, <2>2
<1>2. Old \intersect New = {}
  OBVIOUS
<1>3. f \in Bijection(Old, New)
  <2>1. f \in [Old -> New]
    OBVIOUS
  <2>2. \A S, T \in Old : f[S] = f[T] => S = T
    <3> SUFFICES ASSUME NEW S \in Old, NEW T \in Old, S \union {n + 1} = T \union {n + 1}
                 PROVE  S = T
      OBVIOUS
    <3>1. n + 1 \notin S /\ n + 1 \notin T
      OBVIOUS
    <3> QED BY <3>1
  <2>3. \A T \in New : \E S \in Old : f[S] = T
    OBVIOUS
  <2> QED BY <2>1, <2>2, <2>3 DEF Bijection, Injection, Surjection, IsInjective
<1>4. IsFiniteSet(Old) /\ Cardinality(Old) = 2^n /\ 2^n \in Nat
  BY PowerOfTwo
<1>5. IsFiniteSet(New) /\ Cardinality(New) = Cardinality(Old)
  <2>1. ExistsBijection(Old, New)
    BY <1>3 DEF ExistsBijection
  <2> HIDE DEF New, Old
  <2> QED BY <1>4, <2>1, FS_Bijection
<1> HIDE DEF New, Old
<1>7. Cardinality(Old \union New) = Cardinality(Old) + Cardinality(New) - 0
  BY <1>2, <1>4, <1>5, FS_Union, FS_EmptySet
<1> QED BY <1>1, <1>4, <1>5, <1>7, PowerOfTwo

LEMMA PowersArePositive == ASSUME NEW n \in Nat PROVE 2^n \in Nat \ {0}
<1>1. PICK m \in Nat : m = 0
  OBVIOUS
<1>2. 2^m <= 2^n
  <2>1. m <= n
    BY <1>1
  <2> QED BY <2>1, PowersGrow
<1>3. 2^m = 1
  BY <1>1
<1> QED BY <1>2, <1>3, PowerOfTwo

(* As long as the shift stays clear of the sign bit it doubles.             *)
LEMMA ShiftIsExact ==
    ASSUME NEW n \in Nat, n <= IntBits - 3
    PROVE  Signed(2 * 2^n) = 2 * 2^n
<1>1. IntBits \in Nat /\ IntBits - 1 \in Nat /\ IntBits - 2 \in Nat /\ n + 1 \in Nat
  BY LifecycleAssumption DEF LifecycleAssumption
<1>2. 2 * 2^n = 2^(n + 1)
  BY PowersDouble
<1>3. 2^(n + 1) <= 2^(IntBits - 2)
  BY <1>1, PowersGrow
<1>4. 2^(IntBits - 1) = 2 * 2^(IntBits - 2) /\ 2^IntBits = 2 * 2^(IntBits - 1)
  <2>1. (IntBits - 2) + 1 = IntBits - 1 /\ (IntBits - 1) + 1 = IntBits
    BY <1>1
  <2> QED BY <1>1, <2>1, PowersDouble
<1>5. /\ 2^(n + 1) \in Nat \ {0} /\ 2^(IntBits - 2) \in Nat \ {0}
      /\ 2^(IntBits - 1) \in Nat \ {0} /\ 2^IntBits \in Nat \ {0}
  BY <1>1, PowersArePositive
<1>6. 2^(n + 1) < 2^(IntBits - 1) /\ 2^(n + 1) < 2^IntBits
  BY <1>3, <1>4, <1>5
<1>7. \A v, m \in Nat : v < m => v % m = v
  OBVIOUS
<1>8. 2^(n + 1) % 2^IntBits = 2^(n + 1)
  BY <1>5, <1>6, <1>7
<1> QED BY <1>2, <1>5, <1>6, <1>8 DEF Signed

(* The waits between dials stay within 2 and 150 seconds and do not get     *)
(* shorter, for an int of any width, until the shift reaches its sign bit.  *)
THEOREM WaitsAreInRange == Spec => []BackoffInRange
<1>1. ASSUME NEW n \in Nat, n <= IntBits - 3
      PROVE  RetryIn(n) = IF 2 * 2^n > 150 THEN 150 ELSE 2 * 2^n
  BY <1>1, ShiftIsExact DEF RetryIn
<1>2. TypeOK => BackoffInRange
  <2> SUFFICES ASSUME TypeOK, NEW k \in Conns, NEW n \in retryCount[k] .. IntBits - 3
               PROVE  /\ RetryIn(n) \in 2 .. 150
                      /\ n > retryCount[k] => RetryIn(n - 1) <= RetryIn(n)
    BY DEF BackoffInRange
  <2>1. retryCount[k] \in Nat /\ IntBits \in Nat
    BY LifecycleAssumption DEF TypeOK, LifecycleAssumption
  <2>2. n \in Nat /\ n <= IntBits - 3
    BY <2>1
  <2>3. 2^n \in Nat \ {0} /\ RetryIn(n) = IF 2 * 2^n > 150 THEN 150 ELSE 2 * 2^n
    BY <1>1, <2>2, PowersArePositive
  <2>4. ASSUME n > retryCount[k] PROVE RetryIn(n - 1) <= RetryIn(n)
    <3>1. n - 1 \in Nat /\ n - 1 <= IntBits - 3
      BY <2>1, <2>2, <2>4
    <3>2. 2^(n - 1) \in Nat \ {0} /\ 2^(n - 1) <= 2^n
      BY <2>2, <3>1, PowersArePositive, PowersGrow
    <3>3. RetryIn(n - 1) = IF 2 * 2^(n - 1) > 150 THEN 150 ELSE 2 * 2^(n - 1)
      BY <1>1, <3>1
    <3> QED BY <2>3, <3>2, <3>3
  <2> QED BY <2>3, <2>4
<1> QED BY <1>2, TypeCorrect, PTL
================================================================================
