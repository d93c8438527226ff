------------------------------- MODULE WsClient -------------------------------
(***************************************************************************)
(* The WebSocket client of pkg/simplexclient: goroutines that issue         *)
(* commands (sendRaw, sendCmd, sendCmdRetryOnce, sendOneShotCmd), the read  *)
(* loop that routes answers and events, and the event loop of               *)
(* pkg/connector that takes events and issues commands of its own while it  *)
(* handles one.  The simplex-chat server and the socket are external.       *)
(***************************************************************************)
EXTENDS Naturals, Sequences, FiniteSets

CONSTANTS
    Calls,          \* the calls of sendCmd and sendCmdRetryOnce, one goroutine each
    RetryCalls,     \* those of sendCmdRetryOnce
    LoopCalls,      \* those the event loop makes while it handles an event
    EventCap,       \* capacity of eventsCh (64 in the code)
    NoCall,         \* no call at all
    MaxUnsolicited, \* bound on the frames the server sends of its own accord
    LenientWrites   \* may a Write succeed after a Read has failed?  The library
                    \* documents that an error in any method closes the connection

ASSUME WsAssumption ==
    /\ RetryCalls \subseteq Calls
    /\ LoopCalls \subseteq Calls
    /\ NoCall \notin Calls
    /\ EventCap \in Nat \ {0}
    /\ MaxUnsolicited \in Nat
    /\ LenientWrites \in BOOLEAN

VARIABLES
    (* the Client struct *)
    corrID,        \* the atomic counter correlation IDs are drawn from
    pending,       \* the calls whose channel is in the map, under the ID they drew
    queued,        \* the number of events in eventsCh
    eventsClosed,  \* eventsCh is closed
    (* the calls *)
    pc,            \* where each call is
    cid,           \* the correlation ID it drew last
    box,           \* what is in its channel (one slot)
    shut,          \* the calls whose channel is closed
    result,        \* what it returned
    answerTo,      \* history: the commands it was given answers to
    (* the read loop and the event loop *)
    rl,            \* "reading", "cleaned" or "stopped"
    hand,          \* the answer the read loop is about to put into a channel, if any
    el,            \* "waiting", "handling", "reconnect" or "stopped"
    (* the socket and the server: external *)
    conn,          \* "up", "broken" (by the peer or the network) or "closed" (by Close)
    inFlight,      \* requests on their way to the server
    frames,        \* frames on their way to the read loop
    shotReply,     \* the answer waiting on a call's one-shot connection, if any
    executed,      \* history: the requests the server has executed
    unsolicited    \* how many frames the server has sent of its own accord

clientVars == <<corrID, pending, queued, eventsClosed>>
callVars   == <<pc, cid, box, shut, result, answerTo>>
loopVars   == <<rl, hand, el>>
netVars    == <<conn, inFlight, frames, shotReply, executed, unsolicited>>
vars == <<clientVars, callVars, loopVars, netVars>>

-----------------------------------------------------------------------------
NoCorrId == 0

(* A message from the server.  corr is its corrId, NoCorrId when null; of   *)
(* is the call whose command it is about, NoCall for an event; good says    *)
(* that it has a body of a type its receiver can use.                       *)
Frame == [corr : Nat, of : Calls \union {NoCall}, good : BOOLEAN]

Request == [call : Calls, id : Nat, shot : BOOLEAN]

(* The goroutine of the call is inside it.                                  *)
Open(c) == pc[c] \notin {"idle", "done"}

(* delete(c.pending, corrID), the map being keyed by the ID.                *)
WithoutId(id) == {d \in pending : cid[d] # id}

Init ==
    /\ corrID = 0 /\ pending = {} /\ queued = 0 /\ eventsClosed = FALSE
    /\ pc = [c \in Calls |-> "idle"]
    /\ cid = [c \in Calls |-> NoCorrId]
    /\ box = [c \in Calls |-> << >>]
    /\ shut = {}
    /\ result = [c \in Calls |-> "none"]
    /\ answerTo = [c \in Calls |-> {}]
    /\ rl = "reading" /\ hand = {} /\ el = "waiting"
    /\ conn = "up" /\ inFlight = {} /\ frames = << >>
    /\ shotReply = [c \in Calls |-> {}]
    /\ executed = {}
    /\ unsolicited = 0

-----------------------------------------------------------------------------
(* A call.                                                                  *)

(* Mutant: the counter is read but not advanced.                            *)
IssueStaleId(c) ==
    /\ pc[c] = "idle"
    /\ c \in LoopCalls => el = "handling" /\ \A d \in LoopCalls : ~Open(d)
    /\ cid' = [cid EXCEPT ![c] = corrID + 1]
    /\ pc' = [pc EXCEPT ![c] = "register"]
    /\ UNCHANGED <<clientVars, box, shut, result, answerTo, loopVars, netVars>>

(* sendCmd or sendCmdRetryOnce draws the ID.  The event loop makes its      *)
(* calls one at a time, from the handler of an event.                       *)
Issue(c) ==
    /\ pc[c] = "idle"
    /\ c \in LoopCalls => /\ el = "handling"
                          /\ \A d \in LoopCalls : ~Open(d)
    /\ corrID' = corrID + 1
    /\ cid' = [cid EXCEPT ![c] = corrID']
    /\ pc' = [pc EXCEPT ![c] = "register"]
    /\ UNCHANGED <<pending, queued, eventsClosed, box, shut, result, answerTo>>
    /\ UNCHANGED <<loopVars, netVars>>

(* c.pending[corrID] = ch, under the mutex and before the write.            *)
Register(c) ==
    /\ pc[c] = "register"
    /\ pending' = WithoutId(cid[c]) \union {c}
    /\ pc' = [pc EXCEPT ![c] = "write"]
    /\ UNCHANGED <<corrID, queued, eventsClosed, cid, box, shut, result, answerTo>>
    /\ UNCHANGED <<loopVars, netVars>>

(* The write reaches the server's side of a live socket.                    *)
Write(c) ==
    /\ pc[c] = "write"
    /\ conn = "up"
    /\ inFlight' = inFlight \union {[call |-> c, id |-> cid[c], shot |-> FALSE]}
    /\ pc' = [pc EXCEPT ![c] = "wait"]
    /\ UNCHANGED <<clientVars, cid, box, shut, result, answerTo, loopVars>>
    /\ UNCHANGED <<conn, frames, shotReply, executed, unsolicited>>

(* The peer is gone and the kernel takes the bytes all the same.            *)
WriteIntoTheVoid(c) ==
    /\ pc[c] = "write"
    /\ conn = "broken"
    /\ rl = "reading" \/ LenientWrites
    /\ pc' = [pc EXCEPT ![c] = "wait"]
    /\ UNCHANGED <<clientVars, cid, box, shut, result, answerTo, loopVars, netVars>>

(* Mutant: every command is retried, not only those of sendCmdRetryOnce.    *)
GiveUpAlwaysRetries(c) ==
    /\ pc' = [pc EXCEPT ![c] = "dial"]
    /\ UNCHANGED result

(* The call gives up on the persistent connection: sendCmdRetryOnce dials a *)
(* connection of its own, sendCmd returns the error.                        *)
GiveUp(c) ==
    IF c \in RetryCalls
    THEN /\ pc' = [pc EXCEPT ![c] = "dial"]
         /\ UNCHANGED result
    ELSE /\ pc' = [pc EXCEPT ![c] = "done"]
         /\ result' = [result EXCEPT ![c] = "error"]

(* Mutant: the entry stays in the map when the write fails.                 *)
WriteFailsLeaks(c) ==
    /\ pc[c] = "write"
    /\ conn # "up"
    /\ GiveUp(c)
    /\ UNCHANGED <<clientVars, cid, box, shut, answerTo, loopVars, netVars>>

WriteFails(c) ==
    /\ pc[c] = "write"
    /\ conn # "up"
    /\ pending' = WithoutId(cid[c])
    /\ GiveUp(c)
    /\ UNCHANGED <<corrID, queued, eventsClosed, cid, box, shut, answerTo>>
    /\ UNCHANGED <<loopVars, netVars>>

(* The call returns with frame f: an error when its type is not the one the *)
(* command expects.                                                         *)
ReturnWith(c, f) ==
    /\ pc' = [pc EXCEPT ![c] = "done"]
    /\ result' = [result EXCEPT ![c] = IF f.good THEN "ok" ELSE "error"]
    /\ answerTo' = [answerTo EXCEPT ![c] = @ \union {f.of}]

(* resp, ok := <-ch with a value in the channel.                            *)
Receive(c) ==
    /\ pc[c] = "wait"
    /\ box[c] # << >>
    /\ ReturnWith(c, Head(box[c]))
    /\ box' = [box EXCEPT ![c] = Tail(@)]
    /\ UNCHANGED <<clientVars, cid, shut, loopVars, netVars>>

(* resp, ok := <-ch with the channel closed and empty.                      *)
SeesClosed(c) ==
    /\ pc[c] = "wait"
    /\ box[c] = << >>
    /\ c \in shut
    /\ GiveUp(c)
    /\ UNCHANGED <<clientVars, cid, box, shut, answerTo, loopVars, netVars>>

-----------------------------------------------------------------------------
(* The one-shot connection of a retry.                                      *)

Dial(c) ==
    /\ pc[c] = "dial"
    /\ corrID' = corrID + 1
    /\ cid' = [cid EXCEPT ![c] = corrID']
    /\ pc' = [pc EXCEPT ![c] = "shotWrite"]
    /\ UNCHANGED <<pending, queued, eventsClosed, box, shut, result, answerTo>>
    /\ UNCHANGED <<loopVars, netVars>>

ShotWrite(c) ==
    /\ pc[c] = "shotWrite"
    /\ inFlight' = inFlight \union {[call |-> c, id |-> cid[c], shot |-> TRUE]}
    /\ pc' = [pc EXCEPT ![c] = "shotWait"]
    /\ UNCHANGED <<clientVars, cid, box, shut, result, answerTo, loopVars>>
    /\ UNCHANGED <<conn, frames, shotReply, executed, unsolicited>>

(* Frames that do not carry the call's ID are skipped.                      *)
ShotReceive(c) ==
    /\ pc[c] = "shotWait"
    /\ \E f \in shotReply[c] : f.corr = cid[c] /\ ReturnWith(c, f)
    /\ UNCHANGED <<clientVars, cid, box, shut, loopVars, netVars>>

(* The dial, the write or a read fails, or the caller's context ends.       *)
ShotFails(c) ==
    /\ pc[c] \in {"dial", "shotWrite", "shotWait"}
    /\ pc' = [pc EXCEPT ![c] = "done"]
    /\ result' = [result EXCEPT ![c] = "error"]
    /\ UNCHANGED <<clientVars, cid, box, shut, answerTo, loopVars, netVars>>

-----------------------------------------------------------------------------
(* The read loop.  It handles a frame at a time.                            *)

Reading == rl = "reading" /\ hand = {} /\ conn # "closed" /\ frames # << >>

Addressees(f) == {c \in pending : f.corr # NoCorrId /\ cid[c] = f.corr}

(* Mutant: the entry is looked up but not deleted.                          *)
RouteAnswerKeepsEntry ==
    /\ Reading
    /\ \E c \in Addressees(Head(frames)) :
          hand' = {[to |-> c, frame |-> Head(frames)]}
    /\ frames' = Tail(frames)
    /\ UNCHANGED <<clientVars, callVars, rl, el>>
    /\ UNCHANGED <<conn, inFlight, shotReply, executed, unsolicited>>

(* A pending call: its entry leaves the map under the mutex, the answer is  *)
(* put into its channel afterwards.                                         *)
RouteAnswer ==
    /\ Reading
    /\ \E c \in Addressees(Head(frames)) :
          /\ hand' = {[to |-> c, frame |-> Head(frames)]}
          /\ pending' = WithoutId(Head(frames).corr)
    /\ frames' = Tail(frames)
    /\ UNCHANGED <<corrID, queued, eventsClosed, callVars, rl, el>>
    /\ UNCHANGED <<conn, inFlight, shotReply, executed, unsolicited>>

(* ch <- msg.Resp; the channel has one slot.                                *)
Deliver ==
    /\ \E h \in hand : /\ box[h.to] = << >>
                       /\ box' = [box EXCEPT ![h.to] = Append(@, h.frame)]
    /\ hand' = {}
    /\ UNCHANGED <<clientVars, pc, cid, shut, result, answerTo, rl, el, netVars>>

(* Mutant: the send on eventsCh has no default case and blocks when full.   *)
RouteEventBlocks ==
    /\ Reading
    /\ Addressees(Head(frames)) = {}
    /\ Head(frames).good => queued < EventCap
    /\ queued' = IF Head(frames).good THEN queued + 1 ELSE queued
    /\ frames' = Tail(frames)
    /\ UNCHANGED <<corrID, pending, eventsClosed, callVars, loopVars>>
    /\ UNCHANGED <<conn, inFlight, shotReply, executed, unsolicited>>

(* No call waits for it: it is an event, and dropped when eventsCh is full  *)
(* or when it has no type.                                                  *)
RouteEvent ==
    /\ Reading
    /\ Addressees(Head(frames)) = {}
    /\ queued' = IF Head(frames).good /\ queued < EventCap THEN queued + 1 ELSE queued
    /\ frames' = Tail(frames)
    /\ UNCHANGED <<corrID, pending, eventsClosed, callVars, loopVars>>
    /\ UNCHANGED <<conn, inFlight, shotReply, executed, unsolicited>>

(* Mutant: the map is replaced and its channels are left open.              *)
ReadErrorForgetsWaiters ==
    /\ rl = "reading" /\ hand = {} /\ conn # "up"
    /\ pending' = {}
    /\ rl' = "cleaned"
    /\ frames' = << >>
    /\ UNCHANGED <<corrID, queued, eventsClosed, callVars>>
    /\ UNCHANGED <<hand, el, conn, inFlight, shotReply, executed, unsolicited>>

(* Read fails: every pending channel is closed and the map replaced, under  *)
(* the mutex.  What the socket still held is lost.                          *)
ReadError ==
    /\ rl = "reading" /\ hand = {} /\ conn # "up"
    /\ shut' = shut \union pending
    /\ pending' = {}
    /\ rl' = "cleaned"
    /\ frames' = << >>
    /\ UNCHANGED <<corrID, queued, eventsClosed, pc, cid, box, result, answerTo>>
    /\ UNCHANGED <<hand, el, conn, inFlight, shotReply, executed, unsolicited>>

(* Mutant: eventsCh is not closed.                                          *)
CloseEventsForgotten ==
    /\ rl = "cleaned"
    /\ rl' = "stopped"
    /\ UNCHANGED <<clientVars, callVars, hand, el, netVars>>

CloseEvents ==
    /\ rl = "cleaned"
    /\ eventsClosed' = TRUE
    /\ rl' = "stopped"
    /\ UNCHANGED <<corrID, pending, queued, callVars, hand, el, netVars>>

-----------------------------------------------------------------------------
(* The event loop of the connector.                                         *)

TakeEvent ==
    /\ el = "waiting" /\ queued > 0
    /\ queued' = queued - 1
    /\ el' = "handling"
    /\ UNCHANGED <<corrID, pending, eventsClosed, callVars, rl, hand, netVars>>

(* The handler returns once the command it issued, if any, has returned.    *)
EventHandled ==
    /\ el = "handling"
    /\ \A c \in LoopCalls : ~Open(c)
    /\ el' = "waiting"
    /\ UNCHANGED <<clientVars, callVars, rl, hand, netVars>>

(* Mutant: a flag says that eventsCh is closed before it is drained.        *)
SeesEventsClosedEarly ==
    /\ el = "waiting" /\ eventsClosed
    /\ el' = "reconnect"
    /\ UNCHANGED <<clientVars, callVars, rl, hand, netVars>>

(* evt, ok := <-events with the channel closed and empty: reconnect.        *)
SeesEventsClosed ==
    /\ el = "waiting" /\ queued = 0 /\ eventsClosed
    /\ el' = "reconnect"
    /\ UNCHANGED <<clientVars, callVars, rl, hand, netVars>>

(* Disconnect has cancelled the context of the loop.                        *)
LoopCancelled ==
    /\ el = "waiting" /\ conn = "closed"
    /\ el' = "stopped"
    /\ UNCHANGED <<clientVars, callVars, rl, hand, netVars>>

-----------------------------------------------------------------------------
(* The socket and the server.                                               *)

Break ==
    /\ conn = "up"
    /\ conn' = "broken"
    /\ UNCHANGED <<clientVars, callVars, loopVars>>
    /\ UNCHANGED <<inFlight, frames, shotReply, executed, unsolicited>>

Close ==
    /\ conn \in {"up", "broken"}
    /\ conn' = "closed"
    /\ UNCHANGED <<clientVars, callVars, loopVars>>
    /\ UNCHANGED <<inFlight, frames, shotReply, executed, unsolicited>>

(* The server executes a command it was sent and answers, on the connection *)
(* the command came from.  It may do so after the connection is lost.       *)
Execute(r) ==
    /\ r \in inFlight
    /\ inFlight' = inFlight \ {r}
    /\ executed' = executed \union {r}
    /\ \E ok \in BOOLEAN :
          LET f == [corr |-> r.id, of |-> r.call, good |-> ok] IN
          /\ frames' = IF ~r.shot /\ conn = "up" THEN Append(frames, f) ELSE frames
          /\ shotReply' = IF r.shot THEN [shotReply EXCEPT ![r.call] = @ \union {f}]
                                    ELSE shotReply
    /\ UNCHANGED <<clientVars, callVars, loopVars, conn, unsolicited>>

(* An asynchronous event, or one that carries the ID of a command executed  *)
(* before.                                                                  *)
SendEvent ==
    /\ conn = "up"
    /\ unsolicited < MaxUnsolicited
    /\ unsolicited' = unsolicited + 1
    /\ \E ok \in BOOLEAN :
          \/ frames' = Append(frames, [corr |-> NoCorrId, of |-> NoCall, good |-> ok])
          \/ \E r \in executed :
                frames' = Append(frames, [corr |-> r.id, of |-> r.call, good |-> ok])
    /\ UNCHANGED <<clientVars, callVars, loopVars>>
    /\ UNCHANGED <<conn, inFlight, shotReply, executed>>

-----------------------------------------------------------------------------
CallStep(c) ==
    \/ Issue(c) \/ Register(c)
    \/ Write(c) \/ WriteIntoTheVoid(c) \/ WriteFails(c)
    \/ Receive(c) \/ SeesClosed(c)
    \/ Dial(c) \/ ShotWrite(c) \/ ShotReceive(c) \/ ShotFails(c)

ReadLoop == RouteAnswer \/ Deliver \/ RouteEvent \/ ReadError \/ CloseEvents

EventLoop == TakeEvent \/ EventHandled \/ SeesEventsClosed \/ LoopCancelled

Server == SendEvent \/ \E r \in inFlight : Execute(r)

Next == \/ \E c \in Calls : CallStep(c)
        \/ ReadLoop \/ EventLoop \/ Server
        \/ Break \/ Close

Spec == Init /\ [][Next]_vars

(* The goroutines run, the server executes the commands it was sent, a      *)
(* broken socket is noticed, and a one-shot connection answers or fails.    *)
(* Nothing obliges a call to be issued, an event to be sent or the          *)
(* connection to break.                                                     *)
Fairness ==
    /\ \A c \in Calls : WF_vars(pc[c] # "idle" /\ CallStep(c))
    /\ WF_vars(ReadLoop)
    /\ WF_vars(EventLoop)
    /\ WF_vars(conn = "up" /\ \E r \in inFlight : ~r.shot /\ Execute(r))

FairSpec == Spec /\ Fairness

-----------------------------------------------------------------------------
(* Properties.                                                              *)

TypeOK ==
    /\ corrID \in Nat
    /\ pending \subseteq Calls
    /\ queued \in 0 .. EventCap
    /\ eventsClosed \in BOOLEAN
    /\ pc \in [Calls -> {"idle", "register", "write", "wait",
                         "dial", "shotWrite", "shotWait", "done"}]
    /\ cid \in [Calls -> Nat]
    /\ box \in [Calls -> Seq(Frame)]
    /\ shut \subseteq Calls
    /\ result \in [Calls -> {"none", "ok", "error"}]
    /\ answerTo \in [Calls -> SUBSET (Calls \union {NoCall})]
    /\ rl \in {"reading", "cleaned", "stopped"}
    /\ hand \subseteq [to : Calls, frame : Frame]
    /\ el \in {"waiting", "handling", "reconnect", "stopped"}
    /\ conn \in {"up", "broken", "closed"}
    /\ inFlight \subseteq Request
    /\ frames \in Seq(Frame)
    /\ shotReply \in [Calls -> SUBSET Frame]
    /\ executed \subseteq Request
    /\ unsolicited \in Nat

(* A call is only ever given the answer to its own command: the IDs keep    *)
(* calls of different goroutines, and the two attempts of a retry, apart.   *)
OwnAnswer == \A c \in Calls : answerTo[c] \subseteq {c}

(* The read loop never blocks on a channel, sends on a closed one or closes *)
(* one twice, either of which is a panic of the whole bridge: the channel   *)
(* it is about to send on is empty and open, and so is every pending one.   *)
ChannelDiscipline ==
    /\ \A h \in hand : box[h.to] = << >> /\ h.to \notin shut
    /\ pending \intersect shut = {}

(* Nobody waits for a channel that nobody will write to or close: a call    *)
(* blocked in sendRaw has an entry in the map of a live read loop, its      *)
(* answer is on the way into its channel, or its channel has something.     *)
NoOrphanWaiter ==
    \A c \in Calls :
        pc[c] = "wait" => \/ c \in pending /\ rl = "reading"
                          \/ \E h \in hand : h.to = c
                          \/ box[c] # << >>
                          \/ c \in shut

(* The map holds no entry of a call that has left sendRaw.                  *)
NoStaleEntry == \A c \in pending : pc[c] \in {"write", "wait"}

(* A command is sent to the server a second time only once the connection   *)
(* was lost, and only by sendCmdRetryOnce.                                  *)
ResentOnlyAfterLoss ==
    \A r, s \in inFlight \union executed :
        r # s /\ r.call = s.call => conn # "up" /\ r.call \in RetryCalls

(* By the time the event loop learns that the connection is lost, every     *)
(* goroutine that was blocked on it can return, and every event received    *)
(* before the loss has been handled: a reconnect races with no old call.    *)
ReconnectsAfterTheDust ==
    el = "reconnect" =>
        /\ queued = 0
        /\ \A c \in Calls : pc[c] = "wait" => c \in shut \/ box[c] # << >>

(* Every call returns, and so does every handler of the event loop, whether *)
(* the connection holds, breaks or is closed, and however many events       *)
(* arrive while the event loop is busy with a command of its own.           *)
EveryCallReturns ==
    /\ \A c \in Calls : (pc[c] = "register") ~> (pc[c] = "done")
    /\ (el = "handling") ~> (el # "handling")

(* A lost connection is always noticed by the event loop, which reconnects  *)
(* unless it was cancelled.                                                 *)
LossNoticed == (conn # "up") ~> (el \in {"reconnect", "stopped"})

(* The client implements what CommandExchange promises.                     *)
Status == [c \in Calls |-> CASE pc[c] = "idle" -> "idle"
                             [] pc[c] = "done" -> result[c]
                             [] OTHER -> "open"]

ExecutedFor == [c \in Calls |-> {r.id : r \in {q \in executed : q.call = c}}]

Exchange == INSTANCE CommandExchange WITH
    Attempts <- 1 .. 2 * Cardinality(Calls),
    up       <- conn = "up",
    status   <- Status,
    executed <- ExecutedFor

ImplementsFairExchange == Exchange!FairSpec
-----------------------------------------------------------------------------
(* The parts of the inductive invariant behind these properties.            *)

(* An ID belongs to one call, and is drawn from the counter.                *)
IdsUnique ==
    /\ \A c \in Calls : /\ cid[c] <= corrID
                        /\ pc[c] = "idle" <=> cid[c] = NoCorrId
    /\ \A c, d \in Calls : cid[c] = cid[d] /\ cid[c] # NoCorrId => c = d

(* A frame that bears the ID of a call is about that call.                  *)
Genuine(f) ==
    f.corr # NoCorrId => /\ f.corr <= corrID
                         /\ \A c \in Calls : cid[c] = f.corr => f.of = c

(* So does a request, and a frame on its way to a goroutine is for it.      *)
Provenance ==
    /\ \A r \in inFlight \union executed :
          /\ r.id # NoCorrId /\ r.id <= corrID
          /\ \A c \in Calls : cid[c] = r.id => r.call = c
    /\ \A i \in 1 .. Len(frames) : Genuine(frames[i])
    /\ \A c \in Calls : \A f \in shotReply[c] : f.corr # NoCorrId /\ Genuine(f)
    /\ \A h \in hand : h.frame.of = h.to
    /\ \A c \in Calls : \A i \in 1 .. Len(box[c]) : box[c][i].of = c

(* A channel that is still in use is untouched before its call registers it *)
(* and while it is in the map; the read loop holds one answer at most.      *)
Untouched(c) == box[c] = << >> /\ c \notin shut /\ \A h \in hand : h.to # c

Channels ==
    /\ \A c \in Calls :
          pc[c] \in {"idle", "register"} => c \notin pending /\ Untouched(c)
    /\ \A c \in pending : pc[c] \in {"write", "wait"} /\ Untouched(c)
    /\ \A h \in hand : box[h.to] = << >> /\ h.to \notin shut
    /\ \A g, h \in hand : g = h
    /\ rl # "reading" => hand = {}
    /\ rl # "reading" \/ shut # {} => conn # "up"
    /\ eventsClosed => rl = "stopped"

(* A call has one request on each kind of connection, and its one-shot      *)
(* request exists only if it is a retry after a loss.                       *)
Retrying(c) == pc[c] \in {"dial", "shotWrite", "shotWait"}

Requests ==
    /\ \A c \in Calls : Retrying(c) => c \in RetryCalls /\ conn # "up"
    /\ \A r \in inFlight \union executed :
          IF r.shot THEN /\ pc[r.call] \in {"shotWait", "done"}
                         /\ r.call \in RetryCalls /\ conn # "up"
                    ELSE pc[r.call] = "wait" \/ Retrying(r.call) \/ pc[r.call] = "done"
    /\ \A r, s \in inFlight \union executed :
          r.call = s.call /\ r.shot = s.shot => r = s

(* From its registration on, somebody will write to a call's channel or     *)
(* close it.                                                                *)
Attended(c) ==
    c \in pending \/ (\E h \in hand : h.to = c) \/ box[c] # << >> \/ c \in shut

Waiters ==
    /\ \A c \in Calls : pc[c] \in {"write", "wait"} => Attended(c)
    /\ ~LenientWrites =>
          \A c \in pending : pc[c] = "wait" => rl = "reading"
    /\ el = "reconnect" => eventsClosed /\ queued = 0

Inductive ==
    TypeOK /\ IdsUnique /\ Provenance /\ OwnAnswer /\ Channels /\ Requests /\ Waiters
===============================================================================
