------------------------------- MODULE Lifecycle -------------------------------
(***************************************************************************)
(* The life of a login's connection (pkg/connector: Connect, tryConnect,    *)
(* eventLoop, Disconnect, syncChats) and the goroutines that use s.Client   *)
(* while it changes.  No lock protects s.Client, s.cancelFn or the login's  *)
(* metadata.  The goroutine that dials connection k, runs its event loop    *)
(* and, when it is lost, starts the one of connection k + 1 is the thread k.*)
(***************************************************************************)
EXTENDS Integers, FiniteSets

CONSTANTS
    MaxConn,     \* bound on the connections made
    MaxRetries,  \* bound on the retry counter
    IntBits,     \* width of int (64 on the platforms the bridge is built for)
    Handlers     \* Matrix events being handled

ASSUME LifecycleAssumption ==
    /\ MaxConn \in Nat \ {0}
    /\ MaxRetries \in Nat
    /\ IntBits \in Nat \ {0, 1}

Conns == 1 .. MaxConn
nil == 0        \* of s.Client and s.cancelFn

VARIABLES
    (* the SimplexClient struct and the login *)
    sClient,      \* s.Client: the connection it belongs to
    cancelFn,     \* s.cancelFn: the connection whose context it cancels
    bridgeState,  \* the bridge state sent last
    chatsSynced,  \* meta.ChatsSynced
    (* the goroutines *)
    at,           \* where each thread is
    loopOn,       \* the connection whose events each event loop receives
    retryCount,   \* argument of tryConnect in each thread
    sync,         \* where the syncChats goroutine of each connection is
    isReconnect,  \* the local variable of that name in it
    handler,      \* where the handling of each Matrix event is
    disc,         \* where Disconnect is
    panics,       \* the goroutines that dereferenced a nil s.Client
    (* contexts and sockets *)
    cancelled,    \* contexts of these connections are cancelled
    conn,         \* the sockets
    (* history *)
    calm          \* Disconnect found an event loop running when it cancelled

threadVars == <<at, loopOn, retryCount>>
syncVars   == <<chatsSynced, sync, isReconnect>>
discVars   == <<disc, cancelled, calm>>
vars == <<sClient, cancelFn, bridgeState, threadVars, syncVars, handler,
          discVars, panics, conn>>

-----------------------------------------------------------------------------
(* The backoff, computed in the machine's int: 2 << retryCount, capped.     *)
Signed(v) == LET w == v % 2^IntBits
             IN  IF w >= 2^(IntBits - 1) THEN w - 2^IntBits ELSE w

(* Mutant: the wait is not capped.                                          *)
RetryInUncapped(n) == Signed(2 * 2^n)

RetryIn(n) == LET d == Signed(2 * 2^n) IN IF d > 150 THEN 150 ELSE d

(* connCtx k is derived from connCtx k - 1, and the first from the          *)
(* background context, which nobody cancels.                                *)
Cancelled(k) == \E j \in cancelled : j <= k

Init ==
    /\ sClient = nil /\ cancelFn = nil
    /\ bridgeState = "none" /\ chatsSynced = FALSE
    /\ at = [k \in Conns |-> "none"]
    /\ loopOn = [k \in Conns |-> nil]
    /\ retryCount = [k \in Conns |-> 0]
    /\ sync = [k \in Conns |-> "none"]
    /\ isReconnect = [k \in Conns |-> FALSE]
    /\ handler = [h \in Handlers |-> "idle"]
    /\ disc = "idle" /\ panics = {}
    /\ cancelled = {} /\ conn = [k \in Conns |-> "none"]
    /\ calm = FALSE

-----------------------------------------------------------------------------
(* tryConnect.                                                              *)

Goto(k, place) == at' = [at EXCEPT ![k] = place]

(* The framework calls Connect; a login without a URL stays where it is.    *)
Connect ==
    /\ at[1] = "none" /\ bridgeState = "none"
    /\ \/ Goto(1, "begin") /\ UNCHANGED bridgeState
       \/ bridgeState' = "BadCredentials" /\ UNCHANGED at
    /\ UNCHANGED <<sClient, cancelFn, loopOn, retryCount, syncVars>>
    /\ UNCHANGED <<handler, discVars, panics, conn>>

Begin(k) ==
    /\ at[k] = "begin"
    /\ bridgeState' = "Connecting"
    /\ Goto(k, "dial")
    /\ UNCHANGED <<sClient, cancelFn, loopOn, retryCount, syncVars>>
    /\ UNCHANGED <<handler, discVars, panics, conn>>

(* Mutant: the dial ignores the context of its thread.                      *)
DialOkBackground(k) ==
    /\ at[k] = "dial"
    /\ conn' = [conn EXCEPT ![k] = "up"]
    /\ Goto(k, "assign")
    /\ UNCHANGED <<sClient, cancelFn, bridgeState, loopOn, retryCount, syncVars>>
    /\ UNCHANGED <<handler, discVars, panics>>

(* A dial does not succeed under a cancelled context.                       *)
DialOk(k) ==
    /\ at[k] = "dial"
    /\ ~Cancelled(k - 1)
    /\ conn' = [conn EXCEPT ![k] = "up"]
    /\ Goto(k, "assign")
    /\ UNCHANGED <<sClient, cancelFn, bridgeState, loopOn, retryCount, syncVars>>
    /\ UNCHANGED <<handler, discVars, panics>>

DialFails(k) ==
    /\ at[k] = "dial"
    /\ bridgeState' = "TransientDisconnect"
    /\ Goto(k, "backoff")
    /\ UNCHANGED <<sClient, cancelFn, loopOn, retryCount, syncVars>>
    /\ UNCHANGED <<handler, discVars, panics, conn>>

(* The wait ends one way or the other; the retry counter is bounded.        *)
Retry(k) ==
    /\ at[k] = "backoff"
    /\ retryCount' = [retryCount EXCEPT ![k] = IF @ < MaxRetries THEN @ + 1 ELSE @]
    /\ Goto(k, "dial")
    /\ UNCHANGED <<sClient, cancelFn, bridgeState, loopOn, syncVars>>
    /\ UNCHANGED <<handler, discVars, panics, conn>>

(* Mutant: the wait does not look at the context.                           *)
StopRetryingNever(k) == FALSE /\ at[k] = "backoff" /\ UNCHANGED vars

StopRetrying(k) ==
    /\ at[k] = "backoff"
    /\ Cancelled(k - 1)
    /\ Goto(k, "ended")
    /\ UNCHANGED <<sClient, cancelFn, bridgeState, loopOn, retryCount, syncVars>>
    /\ UNCHANGED <<handler, discVars, panics, conn>>

(* s.Client = client.                                                       *)
Assign(k) ==
    /\ at[k] = "assign"
    /\ sClient' = k
    /\ Goto(k, "announce")
    /\ UNCHANGED <<cancelFn, bridgeState, loopOn, retryCount, syncVars>>
    /\ UNCHANGED <<handler, discVars, panics, conn>>

(* The state is sent and go s.syncChats(ctx) started.                       *)
Announce(k) ==
    /\ at[k] = "announce"
    /\ bridgeState' = "Connected"
    /\ sync' = [sync EXCEPT ![k] = "check"]
    /\ Goto(k, "arm")
    /\ UNCHANGED <<sClient, cancelFn, loopOn, retryCount>>
    /\ UNCHANGED <<chatsSynced, isReconnect>>
    /\ UNCHANGED <<handler, discVars, panics, conn>>

(* s.cancelFn = cancel, go s.eventLoop(connCtx).                            *)
Arm(k) ==
    /\ at[k] = "arm"
    /\ cancelFn' = k
    /\ Goto(k, "start")
    /\ UNCHANGED <<sClient, bridgeState, loopOn, retryCount, syncVars>>
    /\ UNCHANGED <<handler, discVars, panics, conn>>

-----------------------------------------------------------------------------
(* eventLoop.                                                               *)

Panic(who) == panics' = panics \union {who}

(* events := s.Client.Events().                                             *)
Start(k) ==
    /\ at[k] = "start"
    /\ IF sClient = nil
       THEN Panic("eventLoop") /\ Goto(k, "ended") /\ UNCHANGED loopOn
       ELSE /\ loopOn' = [loopOn EXCEPT ![k] = sClient]
            /\ Goto(k, "loop")
            /\ UNCHANGED panics
    /\ UNCHANGED <<sClient, cancelFn, bridgeState, retryCount, syncVars>>
    /\ UNCHANGED <<handler, discVars, conn>>

(* An event whose handler issues a command.                                 *)
HandleEvent(k) ==
    /\ at[k] = "loop"
    /\ IF sClient = nil
       THEN Panic("eventLoop") /\ Goto(k, "ended")
       ELSE UNCHANGED <<panics, at>>
    /\ UNCHANGED <<sClient, cancelFn, bridgeState, loopOn, retryCount, syncVars>>
    /\ UNCHANGED <<handler, discVars, conn>>

EventsClosed(k) == conn[loopOn[k]] \in {"lost", "closed"}

(* Mutant: the loop clears s.Client before it reconnects.                   *)
ReconnectClearsClient(k) ==
    /\ at[k] = "loop" /\ k < MaxConn
    /\ EventsClosed(k)
    /\ sClient' = nil
    /\ bridgeState' = "TransientDisconnect"
    /\ at' = [at EXCEPT ![k] = "ended", ![k + 1] = "begin"]
    /\ UNCHANGED <<cancelFn, loopOn, retryCount, syncVars>>
    /\ UNCHANGED <<handler, discVars, panics, conn>>

(* Mutant: the loop does not return after it has started tryConnect.        *)
ReconnectKeepsLooping(k) ==
    /\ at[k] = "loop" /\ k < MaxConn
    /\ EventsClosed(k)
    /\ bridgeState' = "TransientDisconnect"
    /\ Goto(k + 1, "begin")
    /\ UNCHANGED <<sClient, cancelFn, loopOn, retryCount, syncVars>>
    /\ UNCHANGED <<handler, discVars, panics, conn>>

(* Mutant: the loss is not reported.                                        *)
ReconnectSilently(k) ==
    /\ at[k] = "loop" /\ k < MaxConn
    /\ EventsClosed(k)
    /\ at' = [at EXCEPT ![k] = "ended", ![k + 1] = "begin"]
    /\ UNCHANGED <<sClient, cancelFn, bridgeState, loopOn, retryCount, syncVars>>
    /\ UNCHANGED <<handler, discVars, panics, conn>>

(* Mutant: the loop returns without reconnecting.                           *)
ReconnectForgotten(k) ==
    /\ at[k] = "loop" /\ k < MaxConn
    /\ EventsClosed(k)
    /\ bridgeState' = "TransientDisconnect"
    /\ Goto(k, "ended")
    /\ UNCHANGED <<sClient, cancelFn, loopOn, retryCount, syncVars>>
    /\ UNCHANGED <<handler, discVars, panics, conn>>

(* The loop gives way to a new tryConnect under its own context.  The last  *)
(* connection of the model is not followed by another.                      *)
Reconnect(k) ==
    /\ at[k] = "loop" /\ k < MaxConn
    /\ EventsClosed(k)
    /\ bridgeState' = "TransientDisconnect"
    /\ at' = [at EXCEPT ![k] = "ended", ![k + 1] = "begin"]
    /\ UNCHANGED <<sClient, cancelFn, loopOn, retryCount, syncVars>>
    /\ UNCHANGED <<handler, discVars, panics, conn>>

LoopDone(k) ==
    /\ at[k] = "loop"
    /\ Cancelled(k)
    /\ Goto(k, "ended")
    /\ UNCHANGED <<sClient, cancelFn, bridgeState, loopOn, retryCount, syncVars>>
    /\ UNCHANGED <<handler, discVars, panics, conn>>

-----------------------------------------------------------------------------
(* syncChats.                                                               *)

SyncCheck(k) ==
    /\ sync[k] = "check"
    /\ sync' = [sync EXCEPT ![k] = IF sClient = nil THEN "done" ELSE "contacts"]
    /\ isReconnect' = [isReconnect EXCEPT ![k] = chatsSynced]
    /\ UNCHANGED <<sClient, cancelFn, bridgeState, threadVars, chatsSynced>>
    /\ UNCHANGED <<handler, discVars, panics, conn>>

(* The list of one kind of chats; when it cannot be had that is only logged *)
(* (what comes of it is the subject of ChatSync).                           *)
SyncList(k, kind, next) ==
    /\ sync[k] = kind
    /\ IF sClient = nil
       THEN Panic("syncChats") /\ sync' = [sync EXCEPT ![k] = "done"]
       ELSE sync' = [sync EXCEPT ![k] = next] /\ UNCHANGED panics
    /\ UNCHANGED <<sClient, cancelFn, bridgeState, threadVars, chatsSynced, isReconnect>>
    /\ UNCHANGED <<handler, discVars, conn>>

SyncSave(k) ==
    /\ sync[k] = "save"
    /\ chatsSynced' = TRUE
    /\ sync' = [sync EXCEPT ![k] = "done"]
    /\ UNCHANGED <<sClient, cancelFn, bridgeState, threadVars, isReconnect>>
    /\ UNCHANGED <<handler, discVars, panics, conn>>

SyncChats(k) == \/ SyncCheck(k)
                \/ SyncList(k, "contacts", "groups")
                \/ SyncList(k, "groups", "save")
                \/ SyncSave(k)

-----------------------------------------------------------------------------
(* HandleMatrixMessage: s.Client is checked first and used after the media  *)
(* is downloaded or the link preview fetched.                               *)

MatrixCheck(h) ==
    /\ handler[h] = "idle"
    /\ handler' = [handler EXCEPT ![h] = IF sClient = nil THEN "refused" ELSE "checked"]
    /\ UNCHANGED <<sClient, cancelFn, bridgeState, threadVars, syncVars>>
    /\ UNCHANGED <<discVars, panics, conn>>

MatrixSend(h) ==
    /\ handler[h] = "checked"
    /\ IF sClient = nil THEN Panic("handler") ELSE UNCHANGED panics
    /\ handler' = [handler EXCEPT ![h] = "sent"]
    /\ UNCHANGED <<sClient, cancelFn, bridgeState, threadVars, syncVars, discVars, conn>>

-----------------------------------------------------------------------------
(* Disconnect, called on its own or by LogoutRemote.                        *)

DiscCancel ==
    /\ disc = "idle"
    /\ cancelled' = IF cancelFn = nil THEN cancelled ELSE cancelled \union {cancelFn}
    /\ calm' = \E k \in Conns : at[k] = "loop"
    /\ disc' = "close"
    /\ UNCHANGED <<sClient, cancelFn, bridgeState, threadVars, syncVars>>
    /\ UNCHANGED <<handler, panics, conn>>

DiscClose ==
    /\ disc = "close"
    /\ IF sClient = nil
       THEN disc' = "done" /\ UNCHANGED conn
       ELSE /\ disc' = "clear"
            /\ conn' = [conn EXCEPT ![sClient] = "closed"]
    /\ UNCHANGED <<sClient, cancelFn, bridgeState, threadVars, syncVars>>
    /\ UNCHANGED <<handler, cancelled, calm, panics>>

DiscClear ==
    /\ disc = "clear"
    /\ sClient' = nil
    /\ disc' = "done"
    /\ UNCHANGED <<cancelFn, bridgeState, threadVars, syncVars>>
    /\ UNCHANGED <<handler, cancelled, calm, panics, conn>>

Disconnect == DiscCancel \/ DiscClose \/ DiscClear

(* The connection is lost; the last one of the model is not.                *)
Lose(k) ==
    /\ conn[k] = "up" /\ k < MaxConn
    /\ conn' = [conn EXCEPT ![k] = "lost"]
    /\ UNCHANGED <<sClient, cancelFn, bridgeState, threadVars, syncVars>>
    /\ UNCHANGED <<handler, discVars, panics>>

-----------------------------------------------------------------------------
TryConnect(k) == \/ Begin(k) \/ DialOk(k) \/ DialFails(k) \/ Retry(k) \/ StopRetrying(k)
                 \/ Assign(k) \/ Announce(k) \/ Arm(k)

EventLoop(k) == Start(k) \/ HandleEvent(k) \/ Reconnect(k) \/ LoopDone(k)

Next ==
    \/ Connect \/ Disconnect
    \/ \E k \in Conns : TryConnect(k) \/ EventLoop(k) \/ SyncChats(k) \/ Lose(k)
    \/ \E h \in Handlers : MatrixCheck(h) \/ MatrixSend(h)

Spec == Init /\ [][Next]_vars

(* A thread that can go on does; a server that can be reached again and     *)
(* again is reached in the end, and a select that finds the context         *)
(* cancelled again and again takes that case in the end.  Nothing obliges   *)
(* anybody to disconnect or a connection to be lost.                        *)
Fairness ==
    /\ \A k \in Conns :
          /\ WF_vars(TryConnect(k) \/ Start(k) \/ Reconnect(k) \/ LoopDone(k))
          /\ SF_vars(DialOk(k) \/ StopRetrying(k))
    /\ WF_vars(DiscClose \/ DiscClear)

FairSpec == Spec /\ Fairness

-----------------------------------------------------------------------------
(* Properties.                                                              *)

TypeOK ==
    /\ sClient \in 0 .. MaxConn /\ cancelFn \in 0 .. MaxConn
    /\ bridgeState \in {"none", "BadCredentials", "Connecting", "Connected",
                        "TransientDisconnect"}
    /\ chatsSynced \in BOOLEAN
    /\ at \in [Conns -> {"none", "begin", "dial", "backoff", "assign", "announce",
                         "arm", "start", "loop", "ended"}]
    /\ loopOn \in [Conns -> 0 .. MaxConn]
    /\ retryCount \in [Conns -> 0 .. MaxRetries]
    /\ sync \in [Conns -> {"none", "check", "contacts", "groups", "save", "done"}]
    /\ isReconnect \in [Conns -> BOOLEAN]
    /\ handler \in [Handlers -> {"idle", "refused", "checked", "sent"}]
    /\ disc \in {"idle", "close", "clear", "done"}
    /\ panics \subseteq {"eventLoop", "syncChats", "handler"}
    /\ cancelled \subseteq Conns
    /\ conn \in [Conns -> {"none", "up", "lost", "closed"}]
    /\ calm \in BOOLEAN

(* Losing the connection and reconnecting never makes anybody dereference a *)
(* nil s.Client, however the goroutines interleave: only Disconnect, which  *)
(* clears it under the feet of those that checked it, can.                  *)
PanicsOnlyOnLogout == panics # {} => disc = "done"

Active(k) == at[k] \notin {"none", "ended"}

(* An event loop receives the events of the connection its thread made.     *)
LoopsOnItsOwn == \A k \in Conns : at[k] = "loop" => loopOn[k] = k

(* One thread dials, connects or receives the events of its own connection, *)
(* and one connection is up: events are never handled twice or by two loops.*)
OneConnection ==
    /\ \A j, k \in Conns : Active(j) /\ Active(k) => j = k
    /\ \A j, k \in Conns : conn[j] = "up" /\ conn[k] = "up" => j = k
    /\ LoopsOnItsOwn

(* A login that shows as connected has a thread that will notice when it is *)
(* not: nobody is told "connected" for ever after a loss.                   *)
ConnectedIsWatched ==
    bridgeState = "Connected" /\ disc = "idle" =>
        \E k \in Conns : at[k] \in {"arm", "start", "loop"} /\ sClient = k

(* Disconnect of a login whose event loop is running leaves no client, no   *)
(* connection and no way to a new one.                                      *)
LogoutIsFinal ==
    calm /\ disc = "done" =>
        /\ sClient = nil
        /\ \A k \in Conns : conn[k] # "up"
        /\ \A k \in Conns : at[k] \notin {"assign", "announce", "arm", "start"}

(* The goroutines of the login end after such a Disconnect.                 *)
LogoutEndsThreads ==
    (calm /\ disc = "done") ~> (\A k \in Conns : ~Active(k))

(* Unless the login is disconnected, a lost connection is made again.       *)
LossIsRepaired ==
    [](disc = "idle") =>
        \A k \in 1 .. MaxConn - 1 :
            (conn[k] = "lost") ~> (sClient = k + 1 /\ bridgeState = "Connected")

(* Whatever the retry counter of a thread that waits, this wait and those   *)
(* to come last 2 to 150 seconds and do not get shorter, until the outage   *)
(* overflows the shift.                                                     *)
BackoffInRange ==
    \A k \in Conns : at[k] = "backoff" =>
        \A n \in retryCount[k] .. IntBits - 3 :
            /\ RetryIn(n) \in 2 .. 150
            /\ n > retryCount[k] => RetryIn(n - 1) <= RetryIn(n)
================================================================================
