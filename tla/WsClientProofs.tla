---------------------------- MODULE WsClientProofs ----------------------------
(* Theorems about WsClient, for every value of its constants.               *)
EXTENDS WsClient, TLAPS

-----------------------------------------------------------------------------
(* Type correctness.                                                        *)

LEMMA FrameParts ==
    ASSUME NEW f \in Frame
    PROVE  f.corr \in Nat /\ f.of \in Calls \union {NoCall} /\ f.good \in BOOLEAN
BY DEF Frame

LEMMA TypeInit == Init => TypeOK
<1> SUFFICES ASSUME Init PROVE TypeOK
  OBVIOUS
<1>1. << >> \in Seq(Frame)
  OBVIOUS
<1>2. box \in [Calls -> Seq(Frame)] /\ frames \in Seq(Frame)
  BY <1>1 DEF Init
<1>3. queued \in 0 .. EventCap
  BY WsAssumption DEF WsAssumption, Init
<1>4. cid \in [Calls -> Nat] /\ corrID \in Nat /\ unsolicited \in Nat
  BY DEF Init, NoCorrId
<1> QED BY <1>2, <1>3, <1>4 DEF Init, TypeOK

LEMMA TypeCallStep ==
    ASSUME TypeOK, NEW c \in Calls, CallStep(c)
    PROVE  TypeOK'
<1> USE DEF TypeOK, clientVars, callVars, loopVars, netVars
<1>1. CASE Issue(c)
  <2>1. corrID' \in Nat /\ cid' \in [Calls -> Nat]
    BY <1>1 DEF Issue
  <2> QED BY <1>1, <2>1 DEF Issue
<1>2. CASE Register(c)    BY <1>2 DEF Register, WithoutId
<1>3. CASE Write(c)
  <2>1. [call |-> c, id |-> cid[c], shot |-> FALSE] \in Request
    BY DEF Request
  <2>2. inFlight' \subseteq Request
    BY <1>3, <2>1 DEF Write
  <2> QED BY <1>3, <2>2 DEF Write
<1>4. CASE WriteIntoTheVoid(c) BY <1>4 DEF WriteIntoTheVoid
<1>5. CASE WriteFails(c)  BY <1>5 DEF WriteFails, WithoutId, GiveUp
<1>6. CASE Receive(c)
  <2>1. box[c] \in Seq(Frame) /\ box[c] # << >>
    BY <1>6 DEF Receive
  <2>2. Head(box[c]) \in Frame /\ Tail(box[c]) \in Seq(Frame)
    BY <2>1
  <2>3. Head(box[c]).of \in Calls \union {NoCall}
    BY <2>2, FrameParts
  <2> QED BY <1>6, <2>2, <2>3 DEF Receive, ReturnWith
<1>7. CASE SeesClosed(c)  BY <1>7 DEF SeesClosed, GiveUp
<1>8. CASE Dial(c)
  <2>1. corrID' \in Nat /\ cid' \in [Calls -> Nat]
    BY <1>8 DEF Dial
  <2> QED BY <1>8, <2>1 DEF Dial
<1>9. CASE ShotWrite(c)
  <2>1. [call |-> c, id |-> cid[c], shot |-> TRUE] \in Request
    BY DEF Request
  <2>2. inFlight' \subseteq Request
    BY <1>9, <2>1 DEF ShotWrite
  <2> QED BY <1>9, <2>2 DEF ShotWrite
<1>10. CASE ShotReceive(c)
  <2>1. PICK f \in shotReply[c] : ReturnWith(c, f)
    BY <1>10 DEF ShotReceive
  <2>2. f.of \in Calls \union {NoCall}
    BY <2>1, FrameParts
  <2> QED BY <1>10, <2>1, <2>2 DEF ShotReceive, ReturnWith
<1>11. CASE ShotFails(c)  BY <1>11 DEF ShotFails
<1> QED
  BY <1>1, <1>2, <1>3, <1>4, <1>5, <1>6, <1>7, <1>8, <1>9, <1>10, <1>11
  DEF CallStep

LEMMA TypeReadLoop ==
    ASSUME TypeOK, ReadLoop
    PROVE  TypeOK'
<1> USE DEF TypeOK, clientVars, callVars, loopVars, netVars
<1>1. CASE RouteAnswer
  <2>1. Head(frames) \in Frame /\ Tail(frames) \in Seq(Frame)
    BY <1>1 DEF RouteAnswer, Reading
  <2> QED BY <1>1, <2>1 DEF RouteAnswer, Addressees, WithoutId
<1>2. CASE Deliver
  <2>1. PICK h \in hand : box' = [box EXCEPT ![h.to] = Append(@, h.frame)]
    BY <1>2 DEF Deliver
  <2>2. h.to \in Calls /\ h.frame \in Frame
    BY <2>1
  <2>3. Append(box[h.to], h.frame) \in Seq(Frame)
    BY <2>2
  <2> QED BY <1>2, <2>1, <2>2, <2>3 DEF Deliver
<1>3. CASE RouteEvent
  <2>1. Tail(frames) \in Seq(Frame)
    BY <1>3 DEF RouteEvent, Reading
  <2>2. queued' \in 0 .. EventCap
    BY <1>3, WsAssumption DEF WsAssumption, RouteEvent
  <2> QED BY <1>3, <2>1, <2>2 DEF RouteEvent
<1>4. CASE ReadError      BY <1>4 DEF ReadError
<1>5. CASE CloseEvents    BY <1>5 DEF CloseEvents
<1> QED BY <1>1, <1>2, <1>3, <1>4, <1>5 DEF ReadLoop

LEMMA TypeOther ==
    ASSUME TypeOK, EventLoop \/ Server \/ Break \/ Close
    PROVE  TypeOK'
<1> USE DEF TypeOK, clientVars, callVars, loopVars, netVars
<1>1. CASE TakeEvent      BY <1>1, WsAssumption DEF WsAssumption, TakeEvent
<1>2. CASE EventHandled   BY <1>2 DEF EventHandled
<1>3. CASE SeesEventsClosed BY <1>3 DEF SeesEventsClosed
<1>4. CASE LoopCancelled  BY <1>4 DEF LoopCancelled
<1>5. CASE SendEvent
  <2>1. PICK ok \in BOOLEAN :
          \/ frames' = Append(frames, [corr |-> NoCorrId, of |-> NoCall, good |-> ok])
          \/ \E r \in executed :
                frames' = Append(frames, [corr |-> r.id, of |-> r.call, good |-> ok])
    BY <1>5 DEF SendEvent
  <2>2. [corr |-> NoCorrId, of |-> NoCall, good |-> ok] \in Frame
    BY DEF Frame, NoCorrId
  <2>3. \A r \in executed : [corr |-> r.id, of |-> r.call, good |-> ok] \in Frame
    BY DEF Frame, Request
  <2>4. ASSUME NEW f \in Frame, frames' = Append(frames, f)
        PROVE  frames' \in Seq(Frame)
    BY <2>4
  <2>5. frames' \in Seq(Frame)
    BY <2>1, <2>2, <2>3, <2>4
  <2> QED BY <1>5, <2>5 DEF SendEvent
<1>6. ASSUME NEW r \in inFlight, Execute(r) PROVE TypeOK'
  <2>1. r \in Request /\ r.call \in Calls
    BY DEF Request
  <2>2. PICK ok \in BOOLEAN :
          LET f == [corr |-> r.id, of |-> r.call, good |-> ok] IN
          /\ frames' = IF ~r.shot /\ conn = "up" THEN Append(frames, f) ELSE frames
          /\ shotReply' = IF r.shot THEN [shotReply EXCEPT ![r.call] = @ \union {f}]
                                    ELSE shotReply
    BY <1>6 DEF Execute
  <2> DEFINE f == [corr |-> r.id, of |-> r.call, good |-> ok]
  <2>3. f \in Frame
    BY <2>1 DEF Frame, Request
  <2> HIDE DEF f
  <2>4. frames' \in Seq(Frame)
    BY <2>2, <2>3 DEF f
  <2>5. shotReply' \in [Calls -> SUBSET Frame]
    BY <2>1, <2>2, <2>3 DEF f
  <2> QED BY <1>6, <2>1, <2>4, <2>5 DEF Execute
<1>7. CASE Break          BY <1>7 DEF Break
<1>8. CASE Close          BY <1>8 DEF Close
<1> QED
  BY <1>1, <1>2, <1>3, <1>4, <1>5, <1>6, <1>7, <1>8 DEF EventLoop, Server

LEMMA TypeNext == TypeOK /\ [Next]_vars => TypeOK'
<1> SUFFICES ASSUME TypeOK, [Next]_vars PROVE TypeOK'
  OBVIOUS
<1>1. CASE UNCHANGED vars
  BY <1>1 DEF vars, clientVars, callVars, loopVars, netVars, TypeOK
<1> QED
  BY <1>1, TypeCallStep, TypeReadLoop, TypeOther DEF Next

(* Every variable of the client, the goroutines and the socket keeps its    *)
(* type; in particular eventsCh never holds more than its capacity.         *)
THEOREM TypeCorrect == Spec => []TypeOK
BY TypeInit, TypeNext, PTL DEF Spec
-----------------------------------------------------------------------------
(* Which variables a step leaves alone.                                     *)

OtherSteps == ReadLoop \/ EventLoop \/ Server \/ Break \/ Close

LEMMA NextSplit ==
    ASSUME [Next]_vars
    PROVE  (\E c \in Calls : CallStep(c)) \/ OtherSteps \/ UNCHANGED vars
BY DEF Next, OtherSteps

LEMMA OthersKeepCalls ==
    ASSUME OtherSteps
    PROVE  UNCHANGED <<corrID, pc, cid, result, answerTo>>
BY DEF OtherSteps, ReadLoop, EventLoop, Server, RouteAnswer, Deliver, RouteEvent,
       ReadError, CloseEvents, TakeEvent, EventHandled, SeesEventsClosed,
       LoopCancelled, SendEvent, Execute, Break, Close, clientVars, callVars

-----------------------------------------------------------------------------
(* Correlation IDs.                                                         *)

LEMMA DrawKeepsIds ==
    ASSUME TypeOK, IdsUnique, NEW c \in Calls,
           corrID' = corrID + 1, cid' = [cid EXCEPT ![c] = corrID'],
           pc'[c] # "idle", \A d \in Calls \ {c} : pc'[d] = pc[d]
    PROVE  IdsUnique'
<1>1. corrID \in Nat /\ cid \in [Calls -> Nat]
  BY DEF TypeOK
<1>2. cid'[c] = corrID + 1 /\ \A d \in Calls \ {c} : cid'[d] = cid[d]
  BY <1>1
<1>3. \A d \in Calls : cid[d] <= corrID /\ cid[d] \in Nat
  BY <1>1 DEF IdsUnique
<1> QED BY <1>1, <1>2, <1>3 DEF IdsUnique, NoCorrId

LEMMA IdsStep == TypeOK /\ IdsUnique /\ [Next]_vars => IdsUnique'
<1> SUFFICES ASSUME TypeOK, IdsUnique, [Next]_vars PROVE IdsUnique'
  OBVIOUS
<1>1. ASSUME NEW c \in Calls, Issue(c) PROVE IdsUnique'
  BY <1>1, DrawKeepsIds DEF Issue, TypeOK
<1>2. ASSUME NEW c \in Calls, Dial(c) PROVE IdsUnique'
  BY <1>2, DrawKeepsIds DEF Dial, TypeOK
<1>3. ASSUME NEW c \in Calls, CallStep(c), ~Issue(c), ~Dial(c) PROVE IdsUnique'
  <2>1. corrID' = corrID /\ cid' = cid
    BY <1>3 DEF CallStep, Register, Write, WriteIntoTheVoid, WriteFails, Receive,
                SeesClosed, ShotWrite, ShotReceive, ShotFails, clientVars
  <2>2. pc[c] # "idle" /\ pc'[c] # "idle" /\ \A d \in Calls \ {c} : pc'[d] = pc[d]
    BY <1>3 DEF CallStep, Register, Write, WriteIntoTheVoid, WriteFails, Receive,
                SeesClosed, ShotWrite, ShotReceive, ShotFails, GiveUp, ReturnWith, TypeOK
  <2> QED BY <2>1, <2>2 DEF IdsUnique
<1>4. CASE OtherSteps
  BY <1>4, OthersKeepCalls DEF IdsUnique
<1>5. CASE UNCHANGED vars
  BY <1>5 DEF IdsUnique, vars, clientVars, callVars
<1> QED BY <1>1, <1>2, <1>3, <1>4, <1>5, NextSplit
-----------------------------------------------------------------------------
(* Channels: what is in the map, in the hand of the read loop and closed.   *)

LEMMA ChannelsInit == Init => Channels
BY DEF Init, Channels, Untouched

LEMMA ChannelsCallStep ==
    ASSUME TypeOK, IdsUnique, Channels, NEW c \in Calls, CallStep(c)
    PROVE  Channels'
<1> USE DEF Channels, Untouched, clientVars, callVars, loopVars, netVars
<1>0. /\ pc \in [Calls -> {"idle", "register", "write", "wait",
                           "dial", "shotWrite", "shotWait", "done"}]
      /\ box \in [Calls -> Seq(Frame)]
      /\ pending \subseteq Calls /\ \A h \in hand : h.to \in Calls
  BY DEF TypeOK
<1>1. CASE Issue(c)       BY <1>0, <1>1 DEF Issue
<1>2. CASE Register(c)    BY <1>0, <1>2 DEF Register, WithoutId
<1>3. CASE Write(c)       BY <1>0, <1>3 DEF Write
<1>4. CASE WriteIntoTheVoid(c) BY <1>0, <1>4 DEF WriteIntoTheVoid
<1>5. CASE WriteFails(c)  BY <1>0, <1>5 DEF WriteFails, WithoutId, GiveUp
<1>6. CASE Receive(c)
  <2>1. c \notin pending /\ \A h \in hand : h.to # c
    BY <1>6 DEF Receive
  <2> QED BY <1>0, <1>6, <2>1 DEF Receive, ReturnWith
<1>7. CASE SeesClosed(c)  BY <1>0, <1>7 DEF SeesClosed, GiveUp
<1>8. CASE Dial(c)        BY <1>0, <1>8 DEF Dial
<1>9. CASE ShotWrite(c)   BY <1>0, <1>9 DEF ShotWrite
<1>10. CASE ShotReceive(c) BY <1>0, <1>10 DEF ShotReceive, ReturnWith
<1>11. CASE ShotFails(c)  BY <1>0, <1>11 DEF ShotFails
<1> QED
  BY <1>1, <1>2, <1>3, <1>4, <1>5, <1>6, <1>7, <1>8, <1>9, <1>10, <1>11
  DEF CallStep

LEMMA ChannelsOther ==
    ASSUME TypeOK, IdsUnique, Channels, OtherSteps
    PROVE  Channels'
<1> USE DEF Channels, Untouched, clientVars, callVars, loopVars, netVars
<1>0. /\ pc \in [Calls -> {"idle", "register", "write", "wait",
                           "dial", "shotWrite", "shotWait", "done"}]
      /\ box \in [Calls -> Seq(Frame)]
      /\ pending \subseteq Calls /\ \A h \in hand : h.to \in Calls
  BY DEF TypeOK
<1>1. CASE RouteAnswer
  <2>1. PICK c \in Addressees(Head(frames)) :
            /\ hand' = {[to |-> c, frame |-> Head(frames)]}
            /\ pending' = WithoutId(Head(frames).corr)
    BY <1>1 DEF RouteAnswer
  <2>2. c \in pending /\ c \notin pending' /\ pending' \subseteq pending
    BY <2>1 DEF Addressees, WithoutId
  <2>3. \A h \in hand' : h.to = c
    BY <2>1
  <2>4. \A g, h \in hand' : g = h
    BY <2>1
  <2>5. rl' = "reading" /\ UNCHANGED <<pc, box, shut, conn, eventsClosed, rl>>
    BY <1>1 DEF RouteAnswer, Reading
  <2> QED BY <1>0, <2>2, <2>3, <2>4, <2>5
<1>2. CASE Deliver
  <2>1. PICK h \in hand : box' = [box EXCEPT ![h.to] = Append(@, h.frame)]
    BY <1>2 DEF Deliver
  <2>2. \A d \in Calls : d # h.to => box'[d] = box[d]
    BY <1>0, <2>1
  <2>3. h.to \notin pending /\ pc[h.to] \notin {"idle", "register"}
    BY <1>0, <2>1
  <2> QED BY <1>0, <1>2, <2>2, <2>3 DEF Deliver
<1>3. CASE RouteEvent     BY <1>0, <1>3 DEF RouteEvent
<1>4. CASE ReadError      BY <1>0, <1>4 DEF ReadError
<1>5. CASE CloseEvents    BY <1>0, <1>5 DEF CloseEvents
<1>6. CASE EventLoop
  BY <1>0, <1>6 DEF EventLoop, TakeEvent, EventHandled, SeesEventsClosed, LoopCancelled
<1>7. CASE Server         BY <1>0, <1>7 DEF Server, SendEvent, Execute
<1>8. CASE Break \/ Close BY <1>0, <1>8 DEF Break, Close
<1> QED
  BY <1>1, <1>2, <1>3, <1>4, <1>5, <1>6, <1>7, <1>8 DEF OtherSteps, ReadLoop

LEMMA ChannelsStep ==
    TypeOK /\ IdsUnique /\ Channels /\ [Next]_vars => Channels'
<1> SUFFICES ASSUME TypeOK, IdsUnique, Channels, [Next]_vars PROVE Channels'
  OBVIOUS
<1>1. CASE UNCHANGED vars
  BY <1>1 DEF Channels, Untouched, vars, clientVars, callVars, loopVars, netVars
<1> QED BY <1>1, NextSplit, ChannelsCallStep, ChannelsOther
-----------------------------------------------------------------------------
(* Requests: how often a command is sent.                                   *)

LEMMA RequestsInit == Init => Requests
BY DEF Init, Requests, Retrying

LEMMA LostForGood ==
    ASSUME [Next]_vars, conn # "up"
    PROVE  conn' # "up"
BY DEF Next, CallStep, Issue, Register, Write, WriteIntoTheVoid, WriteFails, Receive,
       SeesClosed, Dial, ShotWrite, ShotReceive, ShotFails, ReadLoop, RouteAnswer,
       Deliver, RouteEvent, ReadError, CloseEvents, EventLoop, TakeEvent, EventHandled,
       SeesEventsClosed, LoopCancelled, Server, SendEvent, Execute, Break, Close,
       vars, netVars

LEMMA RequestsCallStep ==
    ASSUME TypeOK, Channels, Requests, NEW c \in Calls, CallStep(c)
    PROVE  Requests'
<1> USE DEF Requests, Retrying, clientVars, callVars, loopVars, netVars
<1>0. /\ pc \in [Calls -> {"idle", "register", "write", "wait",
                           "dial", "shotWrite", "shotWait", "done"}]
      /\ \A r \in inFlight \union executed : r.call \in Calls
  BY DEF TypeOK, Request
<1>1. CASE Issue(c)       BY <1>0, <1>1 DEF Issue
<1>2. CASE Register(c)    BY <1>0, <1>2 DEF Register
<1>3. CASE Write(c)
  <2> DEFINE q == [call |-> c, id |-> cid[c], shot |-> FALSE]
  <2>1. inFlight' = inFlight \union {q} /\ executed' = executed
    BY <1>3 DEF Write
  <2>2. \A r \in inFlight \union executed : r.call = c => r.shot # q.shot
    BY <1>0, <1>3 DEF Write
  <2> QED BY <1>0, <1>3, <2>1, <2>2 DEF Write
<1>4. CASE WriteIntoTheVoid(c) BY <1>0, <1>4 DEF WriteIntoTheVoid
<1>5. CASE WriteFails(c)  BY <1>0, <1>5 DEF WriteFails, GiveUp
<1>6. CASE Receive(c)     BY <1>0, <1>6 DEF Receive, ReturnWith
<1>7. CASE SeesClosed(c)
  <2>1. conn # "up"
    BY <1>7 DEF SeesClosed, Channels
  <2> QED BY <1>0, <1>7, <2>1 DEF SeesClosed, GiveUp
<1>8. CASE Dial(c)        BY <1>0, <1>8 DEF Dial
<1>9. CASE ShotWrite(c)
  <2> DEFINE q == [call |-> c, id |-> cid[c], shot |-> TRUE]
  <2>1. inFlight' = inFlight \union {q} /\ executed' = executed
    BY <1>9 DEF ShotWrite
  <2>2. \A r \in inFlight \union executed : r.call = c => r.shot # q.shot
    BY <1>0, <1>9 DEF ShotWrite
  <2> QED BY <1>0, <1>9, <2>1, <2>2 DEF ShotWrite
<1>10. CASE ShotReceive(c) BY <1>0, <1>10 DEF ShotReceive, ReturnWith
<1>11. CASE ShotFails(c)  BY <1>0, <1>11 DEF ShotFails
<1> QED
  BY <1>1, <1>2, <1>3, <1>4, <1>5, <1>6, <1>7, <1>8, <1>9, <1>10, <1>11
  DEF CallStep

LEMMA RequestsStep ==
    TypeOK /\ Channels /\ Requests /\ [Next]_vars => Requests'
<1> SUFFICES ASSUME TypeOK, Channels, Requests, [Next]_vars PROVE Requests'
  OBVIOUS
<1>1. CASE OtherSteps
  <2>1. UNCHANGED pc
    BY <1>1, OthersKeepCalls
  <2>2. (inFlight \union executed)' = inFlight \union executed
    BY <1>1 DEF OtherSteps, ReadLoop, RouteAnswer, Deliver, RouteEvent, ReadError,
                CloseEvents, EventLoop, TakeEvent, EventHandled, SeesEventsClosed,
                LoopCancelled, Server, SendEvent, Execute, Break, Close, netVars
  <2> QED BY <2>1, <2>2, LostForGood DEF Requests, Retrying
<1>2. CASE UNCHANGED vars
  BY <1>2 DEF Requests, Retrying, vars, callVars, netVars
<1> QED BY <1>1, <1>2, NextSplit, RequestsCallStep

-----------------------------------------------------------------------------
(* Waiters: somebody attends to every call that has registered.             *)

LEMMA WaitersInit == Init => Waiters
BY DEF Init, Waiters

LEMMA WaitersCallStep ==
    ASSUME TypeOK, IdsUnique, Channels, Waiters, NEW c \in Calls, CallStep(c)
    PROVE  Waiters'
<1> USE DEF Waiters, Attended, clientVars, callVars, loopVars, netVars
<1>0. /\ pc \in [Calls -> {"idle", "register", "write", "wait",
                           "dial", "shotWrite", "shotWait", "done"}]
      /\ box \in [Calls -> Seq(Frame)]
      /\ pending \subseteq Calls
  BY DEF TypeOK
<1>1. CASE Issue(c)       BY <1>0, <1>1 DEF Issue
<1>2. CASE Register(c)
  <2>1. cid[c] # NoCorrId
    BY <1>2 DEF Register, IdsUnique
  <2>2. pending' = pending \union {c}
    BY <1>0, <1>2, <2>1 DEF Register, WithoutId, IdsUnique
  <2> QED BY <1>0, <1>2, <2>2 DEF Register
<1>3. CASE Write(c)
  <2>1. rl = "reading"
    BY <1>3 DEF Write, Channels
  <2> QED BY <1>0, <1>3, <2>1 DEF Write
<1>4. CASE WriteIntoTheVoid(c)
  BY <1>0, <1>4, WsAssumption DEF WsAssumption, WriteIntoTheVoid
<1>5. CASE WriteFails(c)
  <2>1. cid[c] # NoCorrId
    BY <1>5 DEF WriteFails, IdsUnique
  <2>2. pending' = pending \ {c}
    BY <1>0, <1>5, <2>1 DEF WriteFails, WithoutId, IdsUnique
  <2> QED BY <1>0, <1>5, <2>2 DEF WriteFails, GiveUp
<1>6. CASE Receive(c)     BY <1>0, <1>6 DEF Receive, ReturnWith
<1>7. CASE SeesClosed(c)  BY <1>0, <1>7 DEF SeesClosed, GiveUp
<1>8. CASE Dial(c)        BY <1>0, <1>8 DEF Dial
<1>9. CASE ShotWrite(c)   BY <1>0, <1>9 DEF ShotWrite
<1>10. CASE ShotReceive(c) BY <1>0, <1>10 DEF ShotReceive, ReturnWith
<1>11. CASE ShotFails(c)  BY <1>0, <1>11 DEF ShotFails
<1> QED
  BY <1>1, <1>2, <1>3, <1>4, <1>5, <1>6, <1>7, <1>8, <1>9, <1>10, <1>11
  DEF CallStep

LEMMA WaitersOther ==
    ASSUME TypeOK, IdsUnique, Channels, Waiters, OtherSteps
    PROVE  Waiters'
<1> USE DEF Waiters, Attended, clientVars, callVars, loopVars, netVars
<1>0. /\ box \in [Calls -> Seq(Frame)]
      /\ pending \subseteq Calls
      /\ \A h \in hand : h.to \in Calls /\ h.frame \in Frame
  BY DEF TypeOK
<1>1. CASE RouteAnswer
  <2>1. PICK c \in Addressees(Head(frames)) :
            /\ hand' = {[to |-> c, frame |-> Head(frames)]}
            /\ pending' = WithoutId(Head(frames).corr)
    BY <1>1 DEF RouteAnswer
  <2>2. pending' = pending \ {c}
    BY <1>0, <2>1 DEF Addressees, WithoutId, IdsUnique
  <2>3. \E h \in hand' : h.to = c
    BY <2>1
  <2>4. hand = {}
    BY <1>1 DEF RouteAnswer, Reading
  <2> QED BY <1>1, <2>2, <2>3, <2>4 DEF RouteAnswer
<1>2. CASE Deliver
  <2>1. PICK h \in hand : box' = [box EXCEPT ![h.to] = Append(@, h.frame)]
    BY <1>2 DEF Deliver
  <2>2. \A d \in Calls : d # h.to => box'[d] = box[d]
    BY <1>0, <2>1
  <2>3. box'[h.to] = Append(box[h.to], h.frame) /\ box[h.to] \in Seq(Frame)
    BY <1>0, <2>1
  <2>4. box'[h.to] # << >>
    <3>1. Len(box'[h.to]) = Len(box[h.to]) + 1 /\ Len(box[h.to]) \in Nat
      BY <1>0, <2>3
    <3>2. Len(<< >>) = 0
      OBVIOUS
    <3> QED BY <3>1, <3>2
  <2>5. \A g \in hand : g = h
    BY DEF Channels
  <2> QED BY <1>0, <1>2, <2>2, <2>4, <2>5 DEF Deliver
<1>3. CASE RouteEvent
  <2>1. ~eventsClosed
    BY <1>3 DEF RouteEvent, Reading, Channels
  <2> QED BY <1>3, <2>1 DEF RouteEvent
<1>4. CASE ReadError      BY <1>4 DEF ReadError
<1>5. CASE CloseEvents
  <2>1. pending' = pending /\ rl # "reading" /\ rl' # "reading"
    BY <1>5 DEF CloseEvents
  <2> QED BY <1>5, <2>1 DEF CloseEvents
<1>6. CASE EventLoop
  BY <1>6 DEF EventLoop, TakeEvent, EventHandled, SeesEventsClosed, LoopCancelled
<1>7. CASE Server         BY <1>7 DEF Server, SendEvent, Execute
<1>8. CASE Break \/ Close BY <1>8 DEF Break, Close
<1> QED
  BY <1>1, <1>2, <1>3, <1>4, <1>5, <1>6, <1>7, <1>8 DEF OtherSteps, ReadLoop

LEMMA WaitersStep ==
    TypeOK /\ IdsUnique /\ Channels /\ Waiters /\ [Next]_vars => Waiters'
<1> SUFFICES ASSUME TypeOK, IdsUnique, Channels, Waiters, [Next]_vars PROVE Waiters'
  OBVIOUS
<1>1. CASE UNCHANGED vars
  BY <1>1 DEF Waiters, Attended, vars, clientVars, callVars, loopVars, netVars
<1> QED BY <1>1, NextSplit, WaitersCallStep, WaitersOther
-----------------------------------------------------------------------------
(* Provenance: whose answer a frame is.                                     *)

LEMMA ProvenanceInit == Init => Provenance /\ OwnAnswer
BY DEF Init, Provenance, OwnAnswer

(* Drawing a new ID takes none that is in use.                              *)
LEMMA DrawKeepsProvenance ==
    ASSUME TypeOK, IdsUnique, Provenance, NEW c \in Calls,
           corrID' = corrID + 1, cid' = [cid EXCEPT ![c] = corrID'],
           UNCHANGED <<inFlight, executed, frames, shotReply, hand, box>>
    PROVE  Provenance'
<1>1. corrID \in Nat /\ cid \in [Calls -> Nat]
  BY DEF TypeOK
<1>2. cid'[c] = corrID + 1 /\ \A d \in Calls \ {c} : cid'[d] = cid[d]
  BY <1>1
<1>3. ASSUME NEW f \in Frame, Genuine(f) PROVE Genuine(f)'
  BY <1>1, <1>2, <1>3, FrameParts DEF Genuine
<1>4. \A i \in 1 .. Len(frames) : frames[i] \in Frame
  BY DEF TypeOK
<1>5. \A i \in 1 .. Len(frames) : Genuine(frames[i])'
  BY <1>3, <1>4 DEF Provenance
<1>6. \A d \in Calls : \A f \in shotReply[d] : f.corr # NoCorrId /\ Genuine(f)'
  BY <1>3 DEF Provenance, TypeOK
<1>7. \A r \in inFlight \union executed :
          /\ r.id # NoCorrId /\ r.id <= corrID'
          /\ \A d \in Calls : cid'[d] = r.id => r.call = d
  <2> SUFFICES ASSUME NEW r \in inFlight \union executed
               PROVE  /\ r.id # NoCorrId /\ r.id <= corrID'
                      /\ \A d \in Calls : cid'[d] = r.id => r.call = d
    OBVIOUS
  <2>1. r.id \in Nat /\ r.id <= corrID /\ r.id # NoCorrId
    BY DEF TypeOK, Request, Provenance
  <2> QED BY <1>1, <1>2, <2>1 DEF Provenance
<1> QED BY <1>5, <1>6, <1>7 DEF Provenance, Genuine

LEMMA ProvenanceCallStep ==
    ASSUME TypeOK, IdsUnique, Provenance, OwnAnswer, NEW c \in Calls, CallStep(c)
    PROVE  Provenance' /\ OwnAnswer'
<1> USE DEF clientVars, callVars, loopVars, netVars
<1>0. /\ box \in [Calls -> Seq(Frame)]
      /\ answerTo \in [Calls -> SUBSET (Calls \union {NoCall})]
      /\ pc \in [Calls -> {"idle", "register", "write", "wait",
                           "dial", "shotWrite", "shotWait", "done"}]
  BY DEF TypeOK
<1>1. CASE Issue(c)
  BY <1>1, DrawKeepsProvenance DEF Issue, OwnAnswer
<1>2. CASE Dial(c)
  BY <1>2, DrawKeepsProvenance DEF Dial, OwnAnswer
<1>3. CASE Register(c) \/ WriteIntoTheVoid(c) \/ WriteFails(c)
           \/ SeesClosed(c) \/ ShotFails(c)
  BY <1>3 DEF Register, WriteIntoTheVoid, WriteFails, SeesClosed, ShotFails,
              Provenance, OwnAnswer, Genuine
<1>4. CASE Write(c) \/ ShotWrite(c)
  <2>1. PICK b \in BOOLEAN :
            inFlight' = inFlight \union {[call |-> c, id |-> cid[c], shot |-> b]}
    BY <1>4 DEF Write, ShotWrite
  <2>2. cid[c] # NoCorrId /\ cid[c] <= corrID
    BY <1>4 DEF Write, ShotWrite, IdsUnique
  <2>3. \A d \in Calls : cid[d] = cid[c] => c = d
    BY <2>2 DEF IdsUnique
  <2>4. UNCHANGED <<corrID, cid, executed, frames, shotReply, hand, box, answerTo>>
    BY <1>4 DEF Write, ShotWrite
  <2> QED BY <2>1, <2>2, <2>3, <2>4 DEF Provenance, OwnAnswer, Genuine
<1>5. CASE Receive(c)
  <2>1. box[c] \in Seq(Frame) /\ box[c] # << >>
    BY <1>0, <1>5 DEF Receive
  <2>2. 1 \in 1 .. Len(box[c]) /\ Head(box[c]) = box[c][1]
    BY <2>1
  <2>3. Head(box[c]).of = c
    BY <2>2 DEF Provenance
  <2>4. OwnAnswer'
    BY <1>0, <1>5, <2>3 DEF Receive, ReturnWith, OwnAnswer
  <2>5. \A i \in 1 .. Len(Tail(box[c])) : Tail(box[c])[i] = box[c][i + 1]
                                          /\ i + 1 \in 1 .. Len(box[c])
    BY <2>1
  <2>6. box' = [box EXCEPT ![c] = Tail(box[c])]
    BY <1>5 DEF Receive
  <2>7. \A d \in Calls : \A i \in 1 .. Len(box'[d]) : box'[d][i].of = d
    BY <1>0, <2>5, <2>6 DEF Provenance
  <2>8. UNCHANGED <<corrID, cid, inFlight, executed, frames, shotReply, hand>>
    BY <1>5 DEF Receive
  <2> QED BY <2>4, <2>7, <2>8 DEF Provenance, Genuine
<1>6. CASE ShotReceive(c)
  <2>1. PICK f \in shotReply[c] : f.corr = cid[c] /\ ReturnWith(c, f)
    BY <1>6 DEF ShotReceive
  <2>2. f.of = c
    BY <2>1 DEF Provenance, Genuine
  <2>3. OwnAnswer'
    BY <1>0, <2>1, <2>2 DEF ReturnWith, OwnAnswer
  <2> QED BY <1>6, <2>3 DEF ShotReceive, Provenance, Genuine
<1> QED BY <1>1, <1>2, <1>3, <1>4, <1>5, <1>6 DEF CallStep

LEMMA ProvenanceOther ==
    ASSUME TypeOK, IdsUnique, Provenance, OwnAnswer, OtherSteps
    PROVE  Provenance' /\ OwnAnswer'
<1> USE DEF clientVars, callVars, loopVars, netVars
<1>0. UNCHANGED <<corrID, cid, answerTo>>
  BY OthersKeepCalls
<1>1. OwnAnswer'
  BY <1>0 DEF OwnAnswer
<1>2. frames \in Seq(Frame) /\ box \in [Calls -> Seq(Frame)]
  BY DEF TypeOK
<1>3. ASSUME Reading, frames' = Tail(frames)
      PROVE  \A i \in 1 .. Len(frames') : Genuine(frames'[i])
  <2>1. \A i \in 1 .. Len(frames') : frames'[i] = frames[i + 1]
                                     /\ i + 1 \in 1 .. Len(frames)
    BY <1>2, <1>3 DEF Reading
  <2> QED BY <2>1 DEF Provenance
<1>4. ASSUME NEW f, Genuine(f), frames' = Append(frames, f)
      PROVE  \A i \in 1 .. Len(frames') : Genuine(frames'[i])
  <2>1. Len(frames') = Len(frames) + 1 /\ Len(frames) \in Nat
    BY <1>2, <1>4
  <2>2. \A i \in 1 .. Len(frames) : frames'[i] = frames[i]
    BY <1>2, <1>4
  <2>3. frames'[Len(frames) + 1] = f
    BY <1>2, <1>4
  <2>4. \A i \in 1 .. Len(frames) + 1 : i \in 1 .. Len(frames) \/ i = Len(frames) + 1
    BY <2>1
  <2> QED BY <1>4, <2>1, <2>2, <2>3, <2>4 DEF Provenance
<1>5. CASE RouteAnswer
  <2>1. PICK c \in Addressees(Head(frames)) :
            hand' = {[to |-> c, frame |-> Head(frames)]}
    BY <1>5 DEF RouteAnswer
  <2>2. 1 \in 1 .. Len(frames) /\ Head(frames) = frames[1]
    BY <1>2, <1>5 DEF RouteAnswer, Reading
  <2>3. c \in Calls /\ cid[c] = Head(frames).corr /\ Head(frames).corr # NoCorrId
    BY <2>1 DEF Addressees, TypeOK
  <2>4. Head(frames).of = c
    BY <2>2, <2>3 DEF Provenance, Genuine
  <2>5. \A h \in hand' : h.frame.of = h.to
    BY <2>1, <2>4
  <2> QED BY <1>0, <1>1, <1>3, <1>5, <2>5 DEF RouteAnswer, Provenance, Genuine
<1>6. CASE Deliver
  <2>1. PICK h \in hand : box[h.to] = << >>
                          /\ box' = [box EXCEPT ![h.to] = Append(@, h.frame)]
    BY <1>6 DEF Deliver
  <2>2. h.to \in Calls /\ h.frame.of = h.to
    BY <2>1 DEF TypeOK, Provenance
  <2>3. box'[h.to] = << h.frame >>
    BY <1>2, <2>1, <2>2
  <2>4. \A d \in Calls : d # h.to => box'[d] = box[d]
    BY <1>2, <2>1
  <2>5. \A d \in Calls : \A i \in 1 .. Len(box'[d]) : box'[d][i].of = d
    BY <2>2, <2>3, <2>4 DEF Provenance
  <2> QED BY <1>0, <1>1, <1>6, <2>5 DEF Deliver, Provenance, Genuine
<1>7. CASE RouteEvent
  BY <1>0, <1>1, <1>3, <1>7 DEF RouteEvent, Provenance, Genuine
<1>8. CASE ReadError \/ CloseEvents \/ EventLoop \/ Break \/ Close
  BY <1>0, <1>1, <1>8
  DEF ReadError, CloseEvents, EventLoop, TakeEvent, EventHandled, SeesEventsClosed,
      LoopCancelled, Break, Close, Provenance, Genuine
<1>9. CASE SendEvent
  <2>1. PICK ok \in BOOLEAN :
          \/ frames' = Append(frames, [corr |-> NoCorrId, of |-> NoCall, good |-> ok])
          \/ \E r \in executed :
                frames' = Append(frames, [corr |-> r.id, of |-> r.call, good |-> ok])
    BY <1>9 DEF SendEvent
  <2>2. Genuine([corr |-> NoCorrId, of |-> NoCall, good |-> ok])
    BY DEF Genuine
  <2>3. \A r \in executed : Genuine([corr |-> r.id, of |-> r.call, good |-> ok])
    BY DEF Genuine, Provenance
  <2>4. \A i \in 1 .. Len(frames') : Genuine(frames'[i])
    BY <1>4, <2>1, <2>2, <2>3
  <2> QED BY <1>0, <1>1, <1>9, <2>4 DEF SendEvent, Provenance, Genuine
<1>10. ASSUME NEW r \in inFlight, Execute(r) PROVE Provenance'
  <2> DEFINE f(ok) == [corr |-> r.id, of |-> r.call, good |-> ok]
  <2>1. PICK ok \in BOOLEAN :
          /\ frames' = IF ~r.shot /\ conn = "up" THEN Append(frames, f(ok)) ELSE frames
          /\ shotReply' = IF r.shot THEN [shotReply EXCEPT ![r.call] = @ \union {f(ok)}]
                                    ELSE shotReply
    BY <1>10 DEF Execute
  <2>2. Genuine(f(ok)) /\ f(ok).corr # NoCorrId
    BY DEF Genuine, Provenance
  <2> HIDE DEF f
  <2>3. \A i \in 1 .. Len(frames') : Genuine(frames'[i])
    BY <1>4, <2>1, <2>2 DEF Provenance
  <2>4. \A c \in Calls : \A g \in shotReply'[c] : g \in shotReply[c] \/ g = f(ok)
    BY <2>1 DEF TypeOK
  <2>5. \A c \in Calls : \A g \in shotReply'[c] : g.corr # NoCorrId /\ Genuine(g)
    BY <2>2, <2>4 DEF Provenance
  <2>6. (inFlight \union executed)' = inFlight \union executed
        /\ UNCHANGED <<hand, box>>
    BY <1>10 DEF Execute
  <2> QED BY <1>0, <2>3, <2>5, <2>6 DEF Provenance, Genuine
<1> QED
  BY <1>1, <1>5, <1>6, <1>7, <1>8, <1>9, <1>10 DEF OtherSteps, ReadLoop, Server

LEMMA ProvenanceStep ==
    TypeOK /\ IdsUnique /\ Provenance /\ OwnAnswer /\ [Next]_vars
        => Provenance' /\ OwnAnswer'
<1> SUFFICES ASSUME TypeOK, IdsUnique, Provenance, OwnAnswer, [Next]_vars
             PROVE  Provenance' /\ OwnAnswer'
  OBVIOUS
<1>1. CASE UNCHANGED vars
  BY <1>1 DEF Provenance, OwnAnswer, Genuine, vars, clientVars, callVars, loopVars, netVars
<1> QED BY <1>1, NextSplit, ProvenanceCallStep, ProvenanceOther

-----------------------------------------------------------------------------
(* The inductive invariant and what follows from it.                        *)

LEMMA IdsInit == Init => IdsUnique
BY DEF Init, IdsUnique, NoCorrId

(* The conjunction of the parts, types and provenance and channels and      *)
(* requests and waiters, holds for good: each part is kept by every step    *)
(* from the conjunction.                                                    *)
THEOREM InductiveInvariant == Spec => []Inductive
<1>1. Init => Inductive
  BY TypeInit, IdsInit, ProvenanceInit, ChannelsInit, RequestsInit, WaitersInit
  DEF Inductive
<1>2. Inductive /\ [Next]_vars => Inductive'
  BY TypeNext, IdsStep, ProvenanceStep, ChannelsStep, RequestsStep, WaitersStep
  DEF Inductive
<1> QED BY <1>1, <1>2, PTL DEF Spec

(* A call is only ever given the answer to its own command.                 *)
THEOREM AnswersAreOwn == Spec => []OwnAnswer
<1>1. Inductive => OwnAnswer
  BY DEF Inductive
<1> QED BY <1>1, InductiveInvariant, PTL

(* The read loop never blocks on a channel, nor panics on a closed one.     *)
THEOREM ChannelsAreSafe == Spec => []ChannelDiscipline
<1>1. Inductive => ChannelDiscipline
  BY DEF Inductive, Channels, Untouched, ChannelDiscipline
<1> QED BY <1>1, InductiveInvariant, PTL

(* The map of pending calls does not leak: a call that has left sendRaw has *)
(* no entry.                                                                *)
THEOREM MapDoesNotLeak == Spec => []NoStaleEntry
<1>1. Inductive => NoStaleEntry
  BY DEF Inductive, Channels, NoStaleEntry
<1> QED BY <1>1, InductiveInvariant, PTL

(* No goroutine is left waiting for ever when the connection is lost: this  *)
(* is what rests on the library closing the connection on a failed read.    *)
THEOREM NobodyIsOrphaned ==
    ASSUME ~LenientWrites
    PROVE  Spec => []NoOrphanWaiter
<1>1. Inductive => NoOrphanWaiter
  BY DEF Inductive, Waiters, Attended, NoOrphanWaiter
<1> QED BY <1>1, InductiveInvariant, PTL

(* A command is sent again only by sendCmdRetryOnce and only after a loss.  *)
THEOREM ResendsFollowLoss == Spec => []ResentOnlyAfterLoss
<1>1. Inductive => ResentOnlyAfterLoss
  BY DEF Inductive, TypeOK, Request, Requests, ResentOnlyAfterLoss
<1> QED BY <1>1, InductiveInvariant, PTL

(* When the event loop starts to reconnect, all events were handled and     *)
(* every call still blocked on the old connection can return.               *)
THEOREM ReconnectsClean ==
    ASSUME ~LenientWrites
    PROVE  Spec => []ReconnectsAfterTheDust
<1>1. Inductive => ReconnectsAfterTheDust
  BY DEF Inductive, TypeOK, Channels, Waiters, Attended, ReconnectsAfterTheDust
<1> QED BY <1>1, InductiveInvariant, PTL

-----------------------------------------------------------------------------
(* Refinement: the client implements CommandExchange, whose attempts are    *)
(* here any numbers (the run bounds them by two for each call).             *)

Promise == INSTANCE CommandExchange WITH
    Attempts <- Nat,
    up       <- conn = "up",
    status   <- Status,
    executed <- ExecutedFor

HasExecuted(c) == \E r \in executed : r.call = c

(* Whatever a call is given as an answer, its command was executed before.  *)
Founded ==
    /\ \A i \in 1 .. Len(frames) :
          frames[i].corr # NoCorrId => HasExecuted(frames[i].of)
    /\ \A c \in Calls : shotReply[c] # {} => HasExecuted(c)
    /\ \A h \in hand : HasExecuted(h.to)
    /\ \A c \in Calls : box[c] # << >> => HasExecuted(c)

LEMMA FoundedInit == Init => Founded
BY DEF Init, Founded

LEMMA ExecutedStays ==
    ASSUME TypeOK, [Next]_vars
    PROVE  executed \subseteq executed'
BY DEF Next, CallStep, Issue, Register, Write, WriteIntoTheVoid, WriteFails, Receive,
       SeesClosed, Dial, ShotWrite, ShotReceive, ShotFails, ReadLoop, RouteAnswer,
       Deliver, RouteEvent, ReadError, CloseEvents, EventLoop, TakeEvent, EventHandled,
       SeesEventsClosed, LoopCancelled, Server, SendEvent, Execute, Break, Close,
       vars, netVars

LEMMA FoundedStep == Inductive /\ Founded /\ [Next]_vars => Founded'
<1> SUFFICES ASSUME Inductive, Founded, [Next]_vars PROVE Founded'
  OBVIOUS
<1> USE DEF Founded, HasExecuted, clientVars, callVars, loopVars, netVars
<1>0. TypeOK /\ executed \subseteq executed' /\ frames \in Seq(Frame)
  BY ExecutedStays DEF Inductive, TypeOK
<1>1. ASSUME NEW c \in Calls, CallStep(c) PROVE Founded'
  <2>1. CASE Receive(c)
    <3>1. \A d \in Calls : box'[d] # << >> => box[d] # << >>
      BY <1>0, <2>1 DEF Receive, TypeOK
    <3> QED BY <2>1, <3>1 DEF Receive
  <2>2. CASE ~Receive(c)
    <3>1. UNCHANGED <<frames, shotReply, hand, box, executed>>
      BY <1>1, <2>2 DEF CallStep, Issue, Register, Write, WriteIntoTheVoid, WriteFails,
         SeesClosed, Dial, ShotWrite, ShotReceive, ShotFails
    <3> QED BY <3>1
  <2> QED BY <2>1, <2>2
<1>2. CASE ReadLoop
  <2>1. CASE RouteAnswer
    <3>1. frames # << >> /\ frames' = Tail(frames) /\ UNCHANGED <<shotReply, box, executed>>
      BY <2>1 DEF RouteAnswer, Reading
    <3>2. \A h \in hand' : HasExecuted(h.to)
      <4>1. PICK c \in Addressees(Head(frames)) :
                hand' = {[to |-> c, frame |-> Head(frames)]}
        BY <2>1 DEF RouteAnswer
      <4>2. frames[1] = Head(frames) /\ 1 \in 1 .. Len(frames)
        BY <1>0, <3>1
      <4>3. frames[1].corr # NoCorrId /\ cid[c] = frames[1].corr /\ c \in Calls
        BY <1>0, <4>1, <4>2 DEF Addressees, TypeOK
      <4>4. frames[1].of = c
        BY <4>2, <4>3 DEF Inductive, Provenance, Genuine
      <4> QED BY <4>1, <4>2, <4>3, <4>4
    <3>3. \A i \in 1 .. Len(frames') : i + 1 \in 1 .. Len(frames) /\ frames'[i] = frames[i + 1]
      BY <1>0, <3>1
    <3> QED BY <3>1, <3>2, <3>3
  <2>2. CASE Deliver
    <3>1. PICK h \in hand : box' = [box EXCEPT ![h.to] = Append(@, h.frame)]
      BY <2>2 DEF Deliver
    <3>2. \A d \in Calls : d # h.to => box'[d] = box[d]
      BY <1>0, <3>1 DEF TypeOK
    <3>3. hand' = {} /\ UNCHANGED <<frames, shotReply, executed>>
      BY <2>2 DEF Deliver
    <3> QED BY <3>1, <3>2, <3>3
  <2>3. CASE RouteEvent
    <3>1. frames # << >> /\ frames' = Tail(frames) /\ UNCHANGED <<shotReply, box, hand, executed>>
      BY <2>3 DEF RouteEvent, Reading
    <3>2. \A i \in 1 .. Len(frames') : i + 1 \in 1 .. Len(frames) /\ frames'[i] = frames[i + 1]
      BY <1>0, <3>1
    <3> QED BY <3>1, <3>2
  <2>4. CASE ReadError \/ CloseEvents
    <3>1. /\ frames' = << >> \/ frames' = frames
          /\ UNCHANGED <<shotReply, box, hand, executed>>
      BY <2>4 DEF ReadError, CloseEvents
    <3> QED BY <3>1
  <2> QED BY <1>2, <2>1, <2>2, <2>3, <2>4 DEF ReadLoop
<1>3. CASE SendEvent
  <2>1. UNCHANGED <<shotReply, box, hand, executed>>
    BY <1>3 DEF SendEvent
  <2>2. PICK f \in Frame : /\ frames' = Append(frames, f)
                           /\ f.corr # NoCorrId => HasExecuted(f.of)
    <3>1. ASSUME NEW ok \in BOOLEAN PROVE [corr |-> NoCorrId, of |-> NoCall, good |-> ok] \in Frame
      BY DEF Frame, NoCorrId
    <3>2. ASSUME NEW ok \in BOOLEAN, NEW r \in executed
          PROVE  [corr |-> r.id, of |-> r.call, good |-> ok] \in Frame
      BY <1>0 DEF TypeOK, Frame, Request
    <3> QED BY <1>3, <3>1, <3>2 DEF SendEvent
  <2>3. \A i \in 1 .. Len(frames') : IF i <= Len(frames) THEN frames'[i] = frames[i]
                                                       ELSE frames'[i] = f
    BY <1>0, <2>2
  <2> QED BY <1>0, <2>1, <2>2, <2>3
<1>4. ASSUME NEW r \in inFlight, Execute(r) PROVE Founded'
  <2>1. PICK ok \in BOOLEAN :
           LET f == [corr |-> r.id, of |-> r.call, good |-> ok] IN
           /\ frames' = IF ~r.shot /\ conn = "up" THEN Append(frames, f) ELSE frames
           /\ shotReply' = IF r.shot THEN [shotReply EXCEPT ![r.call] = @ \union {f}]
                                     ELSE shotReply
    BY <1>4 DEF Execute
  <2> DEFINE f == [corr |-> r.id, of |-> r.call, good |-> ok]
  <2>2. r \in executed' /\ UNCHANGED <<box, hand>>
    BY <1>4 DEF Execute
  <2>3. f \in Frame /\ r.call \in Calls
    BY <1>0 DEF TypeOK, Frame, Request
  <2>4. \A i \in 1 .. Len(frames') : \/ i \in 1 .. Len(frames) /\ frames'[i] = frames[i]
                                     \/ frames'[i] = f
    BY <1>0, <2>1, <2>3
  <2>5. \A c \in Calls : c # r.call => shotReply'[c] = shotReply[c]
    BY <1>0, <2>1 DEF TypeOK
  <2>6. f.of = r.call
    OBVIOUS
  <2> QED BY <1>0, <2>2, <2>4, <2>5, <2>6
<1>5. CASE EventLoop \/ Break \/ Close \/ UNCHANGED vars
  <2>1. UNCHANGED <<frames, shotReply, hand, box, executed>>
    BY <1>5 DEF EventLoop, TakeEvent, EventHandled, SeesEventsClosed, LoopCancelled,
                Break, Close, vars
  <2> QED BY <2>1
<1> QED BY <1>1, <1>2, <1>3, <1>4, <1>5 DEF Next, Server

LEMMA StatusOf ==
    ASSUME NEW c \in Calls
    PROVE  /\ pc[c] = "idle" => Status[c] = "idle"
           /\ pc[c] = "done" => Status[c] = result[c]
           /\ pc[c] \notin {"idle", "done"} => Status[c] = "open"
BY DEF Status

LEMMA ExecutedForOf ==
    ASSUME NEW c \in Calls
    PROVE  /\ HasExecuted(c) <=> ExecutedFor[c] # {}
           /\ \A a : a \in ExecutedFor[c] <=> \E r \in executed : r.call = c /\ r.id = a
BY DEF ExecutedFor, HasExecuted

(* A step of a call that leaves it inside is no step of the promise.        *)
LEMMA CallStays ==
    ASSUME TypeOK, NEW c \in Calls, pc[c] \notin {"idle", "done"},
           NEW p, p \notin {"idle", "done"}, pc' = [pc EXCEPT ![c] = p],
           UNCHANGED <<result, executed, conn>>
    PROVE  UNCHANGED Promise!vars
<1>1. Status' = Status
  BY DEF TypeOK, Status
<1>2. ExecutedFor' = ExecutedFor
  BY DEF ExecutedFor
<1> QED BY <1>1, <1>2 DEF Promise!vars

LEMMA CallReturns ==
    ASSUME TypeOK, NEW c \in Calls, pc[c] \notin {"idle", "done"},
           NEW r \in {"ok", "error"},
           pc' = [pc EXCEPT ![c] = "done"], result' = [result EXCEPT ![c] = r],
           UNCHANGED <<executed, conn>>,
           HasExecuted(c) \/ (conn # "up" /\ r = "error")
    PROVE  Promise!Next
<1>1. Status[c] = "open" /\ Status' = [Status EXCEPT ![c] = r]
  BY DEF TypeOK, Status
<1>2. ExecutedFor' = ExecutedFor
  BY DEF ExecutedFor
<1>3. CASE r = "ok"
  BY <1>1, <1>2, <1>3, ExecutedForOf DEF Promise!Next, Promise!Answer
<1>4. CASE r = "error"
  BY <1>1, <1>2, <1>4, ExecutedForOf DEF Promise!Next, Promise!Fail
<1> QED BY <1>3, <1>4

LEMMA ServerKeepsPromise ==
    ASSUME Inductive, NEW r \in inFlight, Execute(r)
    PROVE  Promise!Next \/ UNCHANGED Promise!vars
<1> DEFINE c == r.call
<1>0. TypeOK /\ c \in Calls /\ r.id \in Nat /\ r \in Request
  BY DEF Inductive, TypeOK, Request
<1>1. executed' = executed \union {r} /\ UNCHANGED <<pc, result, conn>>
  BY DEF Execute, callVars
<1>2. UNCHANGED Status
  BY <1>1 DEF Status
<1>3. ExecutedFor' = [ExecutedFor EXCEPT ![c] = @ \union {r.id}]
  <2>1. ASSUME NEW d \in Calls
        PROVE  ExecutedFor'[d] = IF d = c THEN ExecutedFor[d] \union {r.id} ELSE ExecutedFor[d]
    BY <1>0, <1>1 DEF ExecutedFor
  <2> QED BY <1>0, <2>1 DEF ExecutedFor
<1>4. CASE r.id \in ExecutedFor[c]
  <2>1. ExecutedFor' = ExecutedFor
    <3>1. ExecutedFor[c] \union {r.id} = ExecutedFor[c]
      BY <1>4
    <3>2. ExecutedFor = [d \in Calls |-> ExecutedFor[d]]
      BY DEF ExecutedFor
    <3> HIDE DEF c
    <3> QED BY <1>3, <3>1, <3>2
  <2> QED BY <1>1, <1>2, <2>1 DEF Promise!vars
<1>5. CASE r.id \notin ExecutedFor[c]
  <2>1. Status[c] # "idle"
    <3>1. pc[c] # "idle"
      BY <1>0 DEF Inductive, Requests, Retrying
    <3>2. pc[c] = "done" => Status[c] \in {"none", "ok", "error"}
      BY <1>0, StatusOf DEF TypeOK
    <3> QED BY <1>0, <3>1, <3>2, StatusOf
  <2>2. CASE ExecutedFor[c] = {}
    BY <1>0, <1>1, <1>2, <1>3, <1>5, <2>1, <2>2 DEF Promise!Next, Promise!Execute
  <2>3. CASE ExecutedFor[c] # {}
    <3>1. PICK s \in executed : s.call = c
      BY <1>0, <2>3, ExecutedForOf DEF HasExecuted
    <3>2. s.id # r.id /\ s # r
      BY <1>0, <1>5, <3>1, ExecutedForOf
    <3>3. \A t \in executed : t.call = c => t.shot # r.shot
      <4> SUFFICES ASSUME NEW t \in executed, t.call = c, t.shot = r.shot PROVE FALSE
        OBVIOUS
      <4>1. t = r
        BY DEF Inductive, Requests
      <4> QED BY <1>0, <1>5, <4>1, ExecutedForOf
    <3>4. \A t \in executed : t.call = c => t = s
      <4> SUFFICES ASSUME NEW t \in executed, t.call = c PROVE t = s
        OBVIOUS
      <4>1. t.shot \in BOOLEAN /\ s.shot \in BOOLEAN /\ r.shot \in BOOLEAN
        BY <1>0 DEF TypeOK, Request
      <4>2. t.shot = s.shot
        BY <3>1, <3>3, <4>1
      <4> QED BY <3>1, <4>2 DEF Inductive, Requests
    <3>5. ExecutedFor[c] = {s.id} /\ s.id \in Nat
      BY <1>0, <3>1, <3>4, ExecutedForOf DEF TypeOK, Request
    <3>6. c \in RetryCalls /\ conn # "up"
      <4>1. r.shot \in BOOLEAN /\ s.shot \in BOOLEAN
        BY <1>0 DEF TypeOK, Request
      <4>2. r.shot \/ s.shot
        BY <3>1, <3>3, <4>1
      <4> QED BY <3>1, <4>2 DEF Inductive, Requests
    <3> QED BY <1>0, <1>1, <1>2, <1>3, <1>5, <2>1, <3>5, <3>6
            DEF Promise!Next, Promise!Execute
  <2> QED BY <2>2, <2>3
<1> QED BY <1>4, <1>5

LEMMA CallKeepsPromise ==
    ASSUME Inductive, Founded, NEW c \in Calls, CallStep(c)
    PROVE  Promise!Next \/ UNCHANGED Promise!vars
<1> USE DEF clientVars, callVars, loopVars, netVars
<1>0. TypeOK
  BY DEF Inductive
<1>1. CASE Issue(c)
  <2>1. Status[c] = "idle" /\ Status' = [Status EXCEPT ![c] = "open"]
    BY <1>0, <1>1 DEF Issue, Status, TypeOK
  <2>2. UNCHANGED <<ExecutedFor, conn>>
    BY <1>1 DEF Issue, ExecutedFor
  <2> QED BY <2>1, <2>2 DEF Promise!Next, Promise!Issue
<1>2. CASE Register(c) \/ Write(c) \/ WriteIntoTheVoid(c) \/ Dial(c) \/ ShotWrite(c)
  <2>1. /\ pc[c] \notin {"idle", "done"}
        /\ \E p \in {"write", "wait", "shotWrite", "shotWait"} : pc' = [pc EXCEPT ![c] = p]
        /\ UNCHANGED <<result, executed, conn>>
    BY <1>2 DEF Register, Write, WriteIntoTheVoid, Dial, ShotWrite
  <2> QED BY <1>0, <2>1, CallStays
<1>3. CASE WriteFails(c) \/ SeesClosed(c)
  <2>1. pc[c] \notin {"idle", "done"} /\ conn # "up" /\ UNCHANGED <<executed, conn>>
    BY <1>3 DEF WriteFails, SeesClosed, Inductive, Channels
  <2>2. CASE c \in RetryCalls
    <3>1. pc' = [pc EXCEPT ![c] = "dial"] /\ UNCHANGED result
      BY <1>3, <2>2 DEF WriteFails, SeesClosed, GiveUp
    <3> QED BY <1>0, <2>1, <3>1, CallStays
  <2>3. CASE c \notin RetryCalls
    <3>1. pc' = [pc EXCEPT ![c] = "done"] /\ result' = [result EXCEPT ![c] = "error"]
      BY <1>3, <2>3 DEF WriteFails, SeesClosed, GiveUp
    <3> QED BY <1>0, <2>1, <3>1, CallReturns
  <2> QED BY <2>2, <2>3
<1>4. CASE Receive(c) \/ ShotReceive(c)
  <2>1. pc[c] \notin {"idle", "done"} /\ UNCHANGED <<executed, conn>> /\ HasExecuted(c)
    BY <1>4 DEF Receive, ShotReceive, Founded
  <2>2. PICK r \in {"ok", "error"} : /\ pc' = [pc EXCEPT ![c] = "done"]
                                    /\ result' = [result EXCEPT ![c] = r]
    BY <1>4 DEF Receive, ShotReceive, ReturnWith
  <2> QED BY <1>0, <2>1, <2>2, CallReturns
<1>5. CASE ShotFails(c)
  <2>1. /\ pc[c] \notin {"idle", "done"} /\ conn # "up" /\ UNCHANGED <<executed, conn>>
        /\ pc' = [pc EXCEPT ![c] = "done"] /\ result' = [result EXCEPT ![c] = "error"]
    BY <1>5 DEF ShotFails, Inductive, Requests, Retrying
  <2> QED BY <1>0, <2>1, CallReturns
<1> QED BY <1>1, <1>2, <1>3, <1>4, <1>5 DEF CallStep

(* Every step of the client is a step of the promise or leaves it as it is. *)
KeepsPromise == Promise!Next \/ UNCHANGED Promise!vars

LEMMA SilentStep ==
    ASSUME UNCHANGED <<pc, result, executed>>, conn' = "up" <=> conn = "up"
    PROVE  KeepsPromise
<1>1. UNCHANGED <<Status, ExecutedFor>>
  BY DEF Status, ExecutedFor
<1>2. (conn = "up")' = (conn = "up")
  OBVIOUS
<1> QED BY <1>1, <1>2 DEF KeepsPromise, Promise!vars

LEMMA LossStep ==
    ASSUME Break \/ Close
    PROVE  KeepsPromise
<1>1. UNCHANGED <<pc, result, executed>> /\ conn' # "up"
  BY DEF Break, Close, callVars
<1>2. CASE conn = "up"
  <2>1. UNCHANGED <<Status, ExecutedFor>>
    BY <1>1 DEF Status, ExecutedFor
  <2> QED BY <1>1, <1>2, <2>1 DEF KeepsPromise, Promise!Next, Promise!Lose
<1>3. CASE conn # "up"
  BY <1>1, <1>3, SilentStep
<1> QED BY <1>2, <1>3

LEMMA Simulation ==
    ASSUME Inductive, Founded, [Next]_vars
    PROVE  KeepsPromise
<1>1. CASE \E c \in Calls : CallStep(c)
  BY <1>1, CallKeepsPromise DEF KeepsPromise
<1>2. CASE \E r \in inFlight : Execute(r)
  BY <1>2, ServerKeepsPromise DEF KeepsPromise
<1>3. CASE Break \/ Close
  BY <1>3, LossStep
<1>4. CASE ReadLoop \/ EventLoop \/ SendEvent
  <2>1. UNCHANGED <<pc, result, executed, conn>>
    BY <1>4 DEF ReadLoop, RouteAnswer, Deliver, RouteEvent, ReadError, CloseEvents,
       EventLoop, TakeEvent, EventHandled, SeesEventsClosed, LoopCancelled, SendEvent,
       callVars, netVars
  <2> QED BY <2>1, SilentStep
<1>5. CASE UNCHANGED vars
  BY <1>5, SilentStep DEF vars, callVars, netVars
<1> QED BY <1>1, <1>2, <1>3, <1>4, <1>5 DEF Next, Server

(* The client keeps the promise of CommandExchange: a command is executed   *)
(* once, or a second time for sendCmdRetryOnce after a loss; a call that    *)
(* returns an answer had its command executed; it fails otherwise only      *)
(* because of a bad answer or a lost connection, and returns once.          *)
THEOREM ClientKeepsPromise == Spec => Promise!Spec
<1>1. Init => Promise!Init
  BY DEF Init, Promise!Init, Status, ExecutedFor
<1>2. Inductive /\ Founded /\ [Next]_vars => [Promise!Next]_(Promise!vars)
  BY Simulation DEF KeepsPromise
<1>3. Inductive /\ Founded /\ [Next]_vars => Founded'
  BY FoundedStep
<1> QED BY <1>1, <1>2, <1>3, FoundedInit, InductiveInvariant, PTL DEF Spec, Promise!Spec
================================================================================
