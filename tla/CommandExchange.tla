--------------------------- MODULE CommandExchange ---------------------------
(***************************************************************************)
(* What the WebSocket client of pkg/simplexclient promises the bridge, with *)
(* no sockets, correlation IDs or channels in sight: a call is issued, the  *)
(* simplex-chat server executes its command, and the call returns once,     *)
(* either with the answer to its own command or with an error.  A command   *)
(* is executed once, except that a call of sendCmdRetryOnce may have its    *)
(* command executed a second time, and only after the connection was lost.  *)
(***************************************************************************)
CONSTANTS Calls,      \* the calls of sendCmd and sendCmdRetryOnce
          RetryCalls, \* those of sendCmdRetryOnce, a subset of Calls
          Attempts    \* the requests a command can be sent in

VARIABLES up,        \* the connection has not been lost or closed yet
          status,    \* how far each call is
          executed   \* the requests of each call that the server has executed

vars == <<up, status, executed>>

Init == /\ up = TRUE
        /\ status = [c \in Calls |-> "idle"]
        /\ executed = [c \in Calls |-> {}]

Lose == /\ up
        /\ up' = FALSE
        /\ UNCHANGED <<status, executed>>

Issue(c) == /\ status[c] = "idle"
            /\ status' = [status EXCEPT ![c] = "open"]
            /\ UNCHANGED <<up, executed>>

(* A command may still be executed after its call has failed.              *)
Execute(c, a) ==
    /\ status[c] # "idle"
    /\ a \notin executed[c]
    /\ \/ executed[c] = {}
       \/ c \in RetryCalls /\ ~up /\ \E b \in Attempts : executed[c] = {b}
    /\ executed' = [executed EXCEPT ![c] = @ \union {a}]
    /\ UNCHANGED <<up, status>>

Answer(c) == /\ status[c] = "open"
             /\ executed[c] # {}
             /\ status' = [status EXCEPT ![c] = "ok"]
             /\ UNCHANGED <<up, executed>>

(* While the connection is up an error means that the server has answered,  *)
(* with something that is no use.                                           *)
Fail(c) == /\ status[c] = "open"
           /\ executed[c] # {} \/ ~up
           /\ status' = [status EXCEPT ![c] = "error"]
           /\ UNCHANGED <<up, executed>>

Next == \/ Lose
        \/ \E c \in Calls : \/ Issue(c) \/ Answer(c) \/ Fail(c)
                           \/ \E a \in Attempts : Execute(c, a)

Spec == Init /\ [][Next]_vars

(* Every call that is issued returns.                                       *)
FairSpec ==
    /\ Spec
    /\ \A c \in Calls :
          /\ WF_vars(up /\ executed[c] = {} /\ \E a \in Attempts : Execute(c, a))
          /\ WF_vars(Answer(c) \/ Fail(c))
==============================================================================
