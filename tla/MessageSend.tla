------------------------------ MODULE MessageSend ------------------------------
(***************************************************************************)
(* A Matrix message on its way to SimpleX (HandleMatrixMessage in           *)
(* pkg/connector), the echo simplex-chat sends of it (handleNewChatItems)   *)
(* and what the bridgev2 framework does with both.  The commands go through *)
(* the promise of CommandExchange, which WsClient is shown to keep.         *)
(***************************************************************************)
EXTENDS Naturals, FiniteSets

CONSTANTS
    Msgs,      \* Matrix messages
    FileMsgs,  \* those of type image, video, audio or file
    Attempts,  \* a command's first request and its retry
    Serial     \* the framework handles the events of a portal one at a time

ASSUME SendAssumption == FileMsgs \subseteq Msgs /\ Serial \in BOOLEAN

VARIABLES
    (* the command exchange *)
    connected, status, executed,
    (* HandleMatrixMessage *)
    loggedIn,   \* s.Client # nil
    stage,      \* where the handler of each message is
    tmp,        \* its temporary file: "none", "there" or "removed"
    outcome,    \* what it returned
    (* the simplex-chat server: a chat item is a message and the attempt     *)
    (* that created it                                                       *)
    echoes,     \* echoes queued to the portal
    (* the framework *)
    toIgnore,   \* transaction IDs registered with AddPendingToIgnore
    db,         \* items recorded in the message table
    bridged     \* items posted to the Matrix room by the echo

handlerVars == <<loggedIn, stage, tmp, outcome>>
echoVars    == <<echoes, toIgnore, db, bridged>>
sendVars == <<connected, status, executed, handlerVars, echoVars>>

X == INSTANCE CommandExchange WITH Calls <- Msgs, RetryCalls <- FileMsgs, up <- connected

SendInit ==
    /\ X!Init
    /\ loggedIn = TRUE
    /\ stage = [m \in Msgs |-> "idle"]
    /\ tmp = [m \in Msgs |-> "none"]
    /\ outcome = [m \in Msgs |-> "none"]
    /\ echoes = {} /\ toIgnore = {} /\ db = {} /\ bridged = {}

-----------------------------------------------------------------------------
(* HandleMatrixMessage.                                                     *)

Handling == {m \in Msgs : stage[m] \notin {"idle", "done"}}

Goto(m, place) == stage' = [stage EXCEPT ![m] = place]

Return(m, result) == /\ Goto(m, "done")
                     /\ outcome' = [outcome EXCEPT ![m] = result]

(* The first check, and the split into text and media.                      *)
Receive(m) ==
    /\ stage[m] = "idle"
    /\ Serial => Handling = {}
    /\ IF loggedIn
       THEN /\ Goto(m, IF m \in FileMsgs THEN "download" ELSE "send")
            /\ UNCHANGED outcome
       ELSE Return(m, "notLoggedIn")
    /\ UNCHANGED <<connected, status, executed, loggedIn, tmp, echoVars>>

(* DownloadMedia, os.CreateTemp and the write; a failed write removes the   *)
(* file it created.                                                         *)
Download(m) ==
    /\ stage[m] = "download"
    /\ \/ Return(m, "mediaFailed") /\ UNCHANGED tmp
       \/ Return(m, "tempFailed") /\ UNCHANGED tmp
       \/ Return(m, "tempFailed") /\ tmp' = [tmp EXCEPT ![m] = "removed"]
       \/ /\ Goto(m, "send")
          /\ tmp' = [tmp EXCEPT ![m] = "there"]
          /\ UNCHANGED outcome
    /\ UNCHANGED <<connected, status, executed, loggedIn, echoVars>>

(* s.Client.SendMessages or SendMessagesRetryOnce; a nil client panics.     *)
Send(m) ==
    /\ stage[m] = "send"
    /\ IF loggedIn
       THEN /\ X!Issue(m)
            /\ Goto(m, "await")
            /\ UNCHANGED outcome
       ELSE /\ Return(m, "panic")
            /\ UNCHANGED <<connected, status, executed>>
    /\ UNCHANGED <<loggedIn, tmp, echoVars>>

(* Mutant: the error returns before the file is removed.                    *)
CleanupAfterError(m) ==
    /\ stage[m] = "await"
    /\ status[m] \in {"ok", "error"}
    /\ IF status[m] = "ok"
       THEN /\ tmp' = [tmp EXCEPT ![m] = IF @ = "there" THEN "removed" ELSE @]
            /\ Goto(m, "register") /\ UNCHANGED outcome
       ELSE Return(m, "sendFailed") /\ UNCHANGED tmp
    /\ UNCHANGED <<connected, status, executed, loggedIn, echoVars>>

(* Mutant: only an answer wakes the handler.                                *)
CleanupOnAnswer(m) ==
    /\ stage[m] = "await"
    /\ status[m] = "ok"
    /\ tmp' = [tmp EXCEPT ![m] = IF @ = "there" THEN "removed" ELSE @]
    /\ Goto(m, "register")
    /\ UNCHANGED <<connected, status, executed, loggedIn, outcome, echoVars>>

(* The command has returned, with or without an answer: os.Remove.          *)
Cleanup(m) ==
    /\ stage[m] = "await"
    /\ status[m] \in {"ok", "error"}
    /\ tmp' = [tmp EXCEPT ![m] = IF @ = "there" THEN "removed" ELSE @]
    /\ IF status[m] = "ok"
       THEN Goto(m, "register") /\ UNCHANGED outcome
       ELSE Return(m, "sendFailed")
    /\ UNCHANGED <<connected, status, executed, loggedIn, echoVars>>

(* The answer names an item the server created, unless it lists none.       *)
(* AddPendingToIgnore registers the item.                                   *)
Register(m) ==
    /\ stage[m] = "register"
    /\ \/ /\ Return(m, "sendFailed")
          /\ UNCHANGED toIgnore
       \/ /\ \E a \in executed[m] : toIgnore' = toIgnore \union {<<m, a>>}
          /\ Goto(m, "return")
          /\ UNCHANGED outcome
    /\ UNCHANGED <<connected, status, executed, loggedIn, tmp, echoes, db, bridged>>

(* Mutant: the row is returned without the item's ID.                       *)
RecordNothing(m) ==
    /\ stage[m] = "return"
    /\ \E i \in toIgnore : i[1] = m /\ toIgnore' = toIgnore \ {i}
    /\ Return(m, "sent")
    /\ UNCHANGED <<connected, status, executed, loggedIn, tmp, echoes, db, bridged>>

(* Mutant: the response does not name the transaction ID to drop.           *)
RecordKeepsPending(m) ==
    /\ stage[m] = "return"
    /\ \E i \in toIgnore : i[1] = m /\ db' = db \union {i}
    /\ Return(m, "sent")
    /\ UNCHANGED <<connected, status, executed, loggedIn, tmp, echoes, toIgnore, bridged>>

(* The framework records the returned row and drops RemovePending.          *)
Record(m) ==
    /\ stage[m] = "return"
    /\ \E i \in toIgnore : /\ i[1] = m
                           /\ db' = db \union {i}
                           /\ toIgnore' = toIgnore \ {i}
    /\ Return(m, "sent")
    /\ UNCHANGED <<connected, status, executed, loggedIn, tmp, echoes, bridged>>

-----------------------------------------------------------------------------
(* The server executes a send and echoes the new item as an event without a *)
(* corrId, which the client may drop.                                       *)
Execute(m, a) ==
    /\ X!Execute(m, a)
    /\ \/ echoes' = echoes \union {<<m, a>>}
       \/ UNCHANGED echoes
    /\ UNCHANGED <<handlerVars, toIgnore, db, bridged>>

(* handleNewChatItems queued the echo with the item's ID as its transaction *)
(* ID; the framework ignores what is pending or recorded.                   *)
HandleEcho(i) ==
    /\ i \in echoes
    /\ Serial => Handling = {}
    /\ echoes' = echoes \ {i}
    /\ IF i \in toIgnore
       THEN toIgnore' = toIgnore \ {i} /\ UNCHANGED <<db, bridged>>
       ELSE /\ bridged' = IF i \in db THEN bridged ELSE bridged \union {i}
            /\ db' = db \union {i}
            /\ UNCHANGED toIgnore
    /\ UNCHANGED <<connected, status, executed, handlerVars>>

Exchange ==
    /\ X!Lose \/ \E m \in Msgs : X!Answer(m) \/ X!Fail(m)
    /\ UNCHANGED <<handlerVars, echoVars>>

Logout ==
    /\ loggedIn
    /\ loggedIn' = FALSE
    /\ UNCHANGED <<connected, status, executed, stage, tmp, outcome, echoVars>>

Handler(m) == \/ Receive(m) \/ Download(m) \/ Send(m)
              \/ Cleanup(m) \/ Register(m) \/ Record(m)

SendNext ==
    \/ \E m \in Msgs : Handler(m) \/ \E a \in Attempts : Execute(m, a) \/ HandleEcho(<<m, a>>)
    \/ Exchange
    \/ Logout

SendSpec == SendInit /\ [][SendNext]_sendVars

(* The exchange is fair and handlers run.                                   *)
SendFairSpec ==
    /\ SendSpec
    /\ \A m \in Msgs :
          /\ WF_sendVars(connected /\ executed[m] = {} /\ \E a \in Attempts : Execute(m, a))
          /\ WF_sendVars((X!Answer(m) \/ X!Fail(m)) /\ UNCHANGED <<handlerVars, echoVars>>)
          /\ WF_sendVars(Download(m) \/ Send(m) \/ Cleanup(m) \/ Register(m) \/ Record(m))

-----------------------------------------------------------------------------
(* Properties.                                                              *)

Items == Msgs \X Attempts

SendTypeOK ==
    /\ connected \in BOOLEAN /\ loggedIn \in BOOLEAN
    /\ status \in [Msgs -> {"idle", "open", "ok", "error"}]
    /\ executed \in [Msgs -> SUBSET Attempts]
    /\ stage \in [Msgs -> {"idle", "download", "send", "await", "register",
                           "return", "done"}]
    /\ tmp \in [Msgs -> {"none", "there", "removed"}]
    /\ outcome \in [Msgs -> {"none", "notLoggedIn", "mediaFailed", "tempFailed",
                             "sendFailed", "sent", "panic"}]
    /\ echoes \subseteq Items /\ toIgnore \subseteq Items
    /\ db \subseteq Items /\ bridged \subseteq Items

(* A message that was sent is not posted to its room a second time by the   *)
(* echo: the room shows an extra copy only if SimpleX holds one, made by a  *)
(* retry.                                                                   *)
EchoIsIgnored ==
    Serial => \A m \in Msgs :
                 outcome[m] = "sent" => \E a \in executed[m] : <<m, a>> \notin bridged

(* No handler leaves its temporary file behind, whichever way it returns,   *)
(* unless it panics on a client that Disconnect cleared meanwhile.          *)
NoTempFileLeak ==
    \A m \in Msgs : stage[m] = "done" /\ tmp[m] = "there" => outcome[m] = "panic"

(* The transaction IDs to ignore do not pile up: each belongs to a handler  *)
(* that is about to have its row recorded.                                  *)
RegisteredIsTransient ==
    \A i \in toIgnore : stage[i[1]] = "return" /\ i \notin db

(* Every Matrix message that is handled gets a status.                      *)
EveryMessageGetsStatus ==
    \A m \in Msgs : (stage[m] # "idle") ~> (outcome[m] # "none")
================================================================================
