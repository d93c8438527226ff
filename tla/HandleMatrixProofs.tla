--------------------------- MODULE HandleMatrixProofs ---------------------------
(* Theorems about the two parts of handlematrix.go that are modelled:       *)
(* MessageSend, for any messages and any number of requests, and Reactions, *)
(* for any contacts, emoji and capacities.                                  *)
EXTENDS MessageSend, Reactions, TLAPS

(***************************************************************************)
(* MessageSend.                                                             *)
(***************************************************************************)

-----------------------------------------------------------------------------
(* Type correctness.                                                        *)

LEMMA TypeHandler ==
    ASSUME SendTypeOK, NEW m \in Msgs, Handler(m)
    PROVE  SendTypeOK'
<1> USE DEF SendTypeOK, Items, Goto, Return, handlerVars, echoVars
<1>1. CASE Receive(m)  BY <1>1 DEF Receive
<1>2. CASE Download(m) BY <1>2 DEF Download
<1>3. CASE Send(m)     BY <1>3 DEF Send, X!Issue
<1>4. CASE Cleanup(m)  BY <1>4 DEF Cleanup
<1>5. CASE Register(m)
  <2>1. \A a \in executed[m] : <<m, a>> \in Msgs \X Attempts
    OBVIOUS
  <2> QED BY <1>5, <2>1 DEF Register
<1>6. CASE Record(m)   BY <1>6 DEF Record
<1> QED BY <1>1, <1>2, <1>3, <1>4, <1>5, <1>6 DEF Handler

LEMMA TypeStep == SendTypeOK /\ [SendNext]_sendVars => SendTypeOK'
<1> SUFFICES ASSUME SendTypeOK, [SendNext]_sendVars PROVE SendTypeOK'
  OBVIOUS
<1> USE DEF SendTypeOK, Items, handlerVars, echoVars
<1>1. ASSUME NEW m \in Msgs, Handler(m) PROVE SendTypeOK'
  BY <1>1, TypeHandler
<1>2. ASSUME NEW m \in Msgs, NEW a \in Attempts, Execute(m, a) PROVE SendTypeOK'
  <2>1. <<m, a>> \in Msgs \X Attempts
    OBVIOUS
  <2>2. executed' \in [Msgs -> SUBSET Attempts]
    BY <1>2 DEF Execute, X!Execute
  <2> QED BY <1>2, <2>1, <2>2 DEF Execute, X!Execute
<1>3. ASSUME NEW i \in Items, HandleEcho(i) PROVE SendTypeOK'
  BY <1>3 DEF HandleEcho
<1>4. CASE Exchange
  BY <1>4 DEF Exchange, X!Lose, X!Answer, X!Fail
<1>5. CASE Logout BY <1>5 DEF Logout
<1>6. CASE UNCHANGED sendVars BY <1>6 DEF sendVars
<1> QED BY <1>1, <1>2, <1>3, <1>4, <1>5, <1>6 DEF SendNext

(* Every variable keeps its type.                                           *)
THEOREM SendTypeCorrect == SendSpec => []SendTypeOK
<1>1. SendInit => SendTypeOK
  BY DEF SendInit, X!Init, SendTypeOK, Items
<1> QED BY <1>1, TypeStep, PTL DEF SendSpec

-----------------------------------------------------------------------------
(* The temporary file exists only between its download and the return of    *)
(* the command, or for good if the handler panics.                          *)

TempFiles ==
    \A m \in Msgs : tmp[m] = "there" =>
        \/ stage[m] \in {"send", "await"}
        \/ stage[m] = "done" /\ outcome[m] = "panic"

LEMMA TempFilesStep == SendTypeOK /\ TempFiles /\ [SendNext]_sendVars => TempFiles'
<1> SUFFICES ASSUME SendTypeOK, TempFiles, [SendNext]_sendVars PROVE TempFiles'
  OBVIOUS
<1> USE DEF SendTypeOK, TempFiles, handlerVars
<1>1. ASSUME NEW m \in Msgs, Handler(m) PROVE TempFiles'
  <2> USE DEF Goto, Return
  <2>1. CASE Receive(m)  BY <2>1 DEF Receive
  <2>2. CASE Download(m) BY <2>2 DEF Download
  <2>3. CASE Send(m)     BY <2>3 DEF Send
  <2>4. CASE Cleanup(m)  BY <2>4 DEF Cleanup
  <2>5. CASE Register(m) BY <2>5 DEF Register
  <2>6. CASE Record(m)   BY <2>6 DEF Record
  <2> QED BY <1>1, <2>1, <2>2, <2>3, <2>4, <2>5, <2>6 DEF Handler
<1>2. ASSUME NEW m \in Msgs, NEW a \in Attempts, Execute(m, a) PROVE TempFiles'
  BY <1>2 DEF Execute
<1>3. ASSUME NEW i \in Msgs \X Attempts, HandleEcho(i) PROVE TempFiles'
  BY <1>3 DEF HandleEcho
<1>4. CASE Exchange \/ Logout \/ UNCHANGED sendVars
  BY <1>4 DEF Exchange, Logout, sendVars
<1> QED BY <1>1, <1>2, <1>3, <1>4 DEF SendNext

(* No handler leaves its temporary file behind, however many messages are   *)
(* handled at once and however often their commands are sent.               *)
THEOREM NoFileIsLeft == SendSpec => []NoTempFileLeak
<1>1. SendInit => TempFiles
  BY DEF SendInit, TempFiles
<1>2. TempFiles => NoTempFileLeak
  BY DEF TempFiles, NoTempFileLeak
<1> QED BY <1>1, <1>2, TempFilesStep, SendTypeCorrect, PTL DEF SendSpec

-----------------------------------------------------------------------------
(* The echo.  While a message is being handled nothing of its portal is,    *)
(* so that none of its items is known before its handler is done.           *)

(* The server executes and echoes only what a handler has sent.             *)
Provenance ==
    \A m \in Msgs :
        /\ stage[m] \in {"idle", "download", "send"} => status[m] = "idle"
        /\ status[m] = "idle" => executed[m] = {}
        /\ \A a \in Attempts : <<m, a>> \in echoes => a \in executed[m]

(* An item of a message whose handler is not done is not known.             *)
Unknown ==
    \A m \in Msgs : stage[m] # "done" =>
        \A a \in Attempts : <<m, a>> \notin db /\ <<m, a>> \notin bridged

(* What is registered is about to be recorded.                              *)
Registered ==
    \A m \in Msgs, a \in Attempts : <<m, a>> \in toIgnore =>
        /\ stage[m] = "return" /\ a \in executed[m]
        /\ \A b \in Attempts : <<m, b>> \in toIgnore => a = b

(* What was sent is recorded and was not posted.                            *)
Sent ==
    \A m \in Msgs : outcome[m] = "sent" =>
        /\ stage[m] = "done"
        /\ \E a \in executed[m] : <<m, a>> \in db /\ <<m, a>> \notin bridged

EchoInv == Provenance /\ Unknown /\ Registered /\ Sent

LEMMA EchoHandler ==
    ASSUME SendTypeOK, EchoInv, NEW m \in Msgs, Handler(m)
    PROVE  EchoInv'
<1> USE DEF SendTypeOK, EchoInv, handlerVars, echoVars, Goto, Return
<1>1. CASE Receive(m)
  <2>1. Provenance'
    BY <1>1 DEF Receive, Provenance
  <2>2. Unknown'
    BY <1>1 DEF Receive, Unknown
  <2>3. Registered'
    BY <1>1 DEF Receive, Registered
  <2>4. Sent'
    BY <1>1 DEF Receive, Sent
  <2> QED BY <2>1, <2>2, <2>3, <2>4
<1>2. CASE Download(m)
  <2>1. Provenance'
    BY <1>2 DEF Download, Provenance
  <2>2. Unknown'
    BY <1>2 DEF Download, Unknown
  <2>3. Registered'
    BY <1>2 DEF Download, Registered
  <2>4. Sent'
    BY <1>2 DEF Download, Sent
  <2> QED BY <2>1, <2>2, <2>3, <2>4
<1>3. CASE Send(m)
  <2>1. Provenance'
    BY <1>3 DEF Send, X!Issue, Provenance
  <2>2. Unknown'
    BY <1>3 DEF Send, X!Issue, Unknown
  <2>3. Registered'
    <3>1. UNCHANGED <<toIgnore, executed>>
      BY <1>3 DEF Send, X!Issue
    <3>2. stage[m] = "send" /\ \A n \in Msgs : n # m => stage'[n] = stage[n]
      BY <1>3 DEF Send
    <3> QED BY <3>1, <3>2 DEF Registered
  <2>4. Sent'
    BY <1>3 DEF Send, X!Issue, Sent
  <2> QED BY <2>1, <2>2, <2>3, <2>4
<1>4. CASE Cleanup(m)
  <2>1. Provenance'
    BY <1>4 DEF Cleanup, Provenance
  <2>2. Unknown'
    BY <1>4 DEF Cleanup, Unknown
  <2>3. Registered'
    BY <1>4 DEF Cleanup, Registered
  <2>4. Sent'
    BY <1>4 DEF Cleanup, Sent
  <2> QED BY <2>1, <2>2, <2>3, <2>4
<1>5. CASE Register(m)
  <2>1. Provenance'
    BY <1>5 DEF Register, Provenance
  <2>2. Unknown'
    BY <1>5 DEF Register, Unknown
  <2>3. Registered'
    BY <1>5 DEF Register, Registered
  <2>4. Sent'
    BY <1>5 DEF Register, Sent
  <2> QED BY <2>1, <2>2, <2>3, <2>4
<1>6. CASE Record(m)
  <2>1. PICK i \in toIgnore : /\ i[1] = m
                            /\ db' = db \union {i}
                            /\ toIgnore' = toIgnore \ {i}
    BY <1>6 DEF Record
  <2>2. PICK a \in Attempts : i = <<m, a>>
    BY <2>1 DEF Items
  <2>3. Provenance'
    BY <1>6 DEF Record, Provenance
  <2>4. Unknown'
    BY <1>6, <2>1, <2>2 DEF Record, Unknown
  <2>5. Registered'
    BY <1>6, <2>1, <2>2 DEF Record, Registered
  <2>6. a \in executed[m] /\ <<m, a>> \notin bridged
    BY <2>1, <2>2 DEF Registered, Unknown
  <2>7. Sent'
    BY <1>6, <2>1, <2>2, <2>6 DEF Record, Sent
  <2> QED BY <2>3, <2>4, <2>5, <2>7
<1> QED BY <1>1, <1>2, <1>3, <1>4, <1>5, <1>6 DEF Handler

LEMMA EchoOther ==
    ASSUME SendTypeOK, EchoInv, Serial,
           \/ \E m \in Msgs, a \in Attempts : Execute(m, a) \/ HandleEcho(<<m, a>>)
           \/ Exchange \/ Logout \/ UNCHANGED sendVars
    PROVE  EchoInv'
<1> USE DEF SendTypeOK, EchoInv, handlerVars, echoVars
<1>1. ASSUME NEW m \in Msgs, NEW a \in Attempts, Execute(m, a) PROVE EchoInv'
  <2>1. Provenance'
    BY <1>1 DEF Execute, X!Execute, Provenance
  <2>2. Unknown'
    BY <1>1 DEF Execute, X!Execute, Unknown
  <2>3. Registered'
    BY <1>1 DEF Execute, X!Execute, Registered
  <2>4. Sent'
    BY <1>1 DEF Execute, X!Execute, Sent
  <2> QED BY <2>1, <2>2, <2>3, <2>4
<1>2. ASSUME NEW m \in Msgs, NEW a \in Attempts, HandleEcho(<<m, a>>) PROVE EchoInv'
  <2>1. \A n \in Msgs : stage[n] \in {"idle", "done"}
    BY <1>2 DEF HandleEcho, Handling
  <2>2. stage[m] = "done"
    BY <1>2, <2>1 DEF HandleEcho, Provenance
  <2>3. Provenance'
    BY <1>2 DEF HandleEcho, Provenance
  <2>4. Unknown'
    BY <1>2, <2>2 DEF HandleEcho, Unknown
  <2>5. Registered'
    BY <1>2 DEF HandleEcho, Registered
  <2>6. Sent'
    <3> SUFFICES ASSUME NEW n \in Msgs, outcome[n] = "sent"
                 PROVE  /\ stage[n] = "done"
                        /\ \E b \in executed[n] : <<n, b>> \in db' /\ <<n, b>> \notin bridged'
      BY <1>2 DEF HandleEcho, Sent
    <3>1. PICK b \in executed[n] : <<n, b>> \in db /\ <<n, b>> \notin bridged
      BY DEF Sent
    <3> QED BY <1>2, <3>1 DEF HandleEcho, Sent
  <2> QED BY <2>3, <2>4, <2>5, <2>6
<1>3. CASE Exchange
  <2>1. Provenance'
    BY <1>3 DEF Exchange, X!Lose, X!Answer, X!Fail, Provenance
  <2>2. Unknown'
    BY <1>3 DEF Exchange, X!Lose, X!Answer, X!Fail, Unknown
  <2>3. Registered'
    BY <1>3 DEF Exchange, X!Lose, X!Answer, X!Fail, Registered
  <2>4. Sent'
    BY <1>3 DEF Exchange, X!Lose, X!Answer, X!Fail, Sent
  <2> QED BY <2>1, <2>2, <2>3, <2>4
<1>4. CASE Logout \/ UNCHANGED sendVars
  <2>1. Provenance'
    BY <1>4 DEF Logout, sendVars, Provenance
  <2>2. Unknown'
    BY <1>4 DEF Logout, sendVars, Unknown
  <2>3. Registered'
    BY <1>4 DEF Logout, sendVars, Registered
  <2>4. Sent'
    BY <1>4 DEF Logout, sendVars, Sent
  <2> QED BY <2>1, <2>2, <2>3, <2>4
<1> QED BY <1>1, <1>2, <1>3, <1>4

LEMMA EchoCorrect == ASSUME Serial PROVE SendSpec => []EchoInv
<1>1. SendInit => EchoInv
  BY DEF SendInit, X!Init, EchoInv, Provenance, Unknown, Registered, Sent
<1>2. SendTypeOK /\ EchoInv /\ [SendNext]_sendVars => EchoInv'
  BY EchoHandler, EchoOther DEF SendNext
<1> QED BY <1>1, <1>2, SendTypeCorrect, PTL DEF SendSpec

(* With the framework's serial portals, the echo of a message that was sent *)
(* is not posted.                                                           *)
THEOREM EchoesAreIgnored == SendSpec => []EchoIsIgnored
<1>1. ASSUME Serial PROVE SendSpec => []EchoIsIgnored
  <2>1. EchoInv => EchoIsIgnored
    BY DEF EchoInv, Sent, EchoIsIgnored
  <2> QED BY <1>1, <2>1, EchoCorrect, PTL
<1>2. ASSUME ~Serial PROVE SendSpec => []EchoIsIgnored
  <2>1. EchoIsIgnored
    BY <1>2 DEF EchoIsIgnored
  <2> QED BY <2>1, PTL
<1> QED BY <1>1, <1>2

(* With serial portals, the transaction IDs to ignore do not pile up.       *)
THEOREM RegisteredDoNotPileUp ==
    ASSUME Serial PROVE SendSpec => []RegisteredIsTransient
<1>1. SendTypeOK /\ EchoInv => RegisteredIsTransient
  BY DEF SendTypeOK, Items, EchoInv, Unknown, Registered, RegisteredIsTransient
<1> QED BY <1>1, EchoCorrect, SendTypeCorrect, PTL

(***************************************************************************)
(* Reactions.                                                               *)
(***************************************************************************)

QueueType == {"reaction", "reactionRemove", "matrixReaction", "matrixRedaction"}
QueueRec == [type : QueueType, from : Users, key : Keys]

(* Whose reactions on SimpleX an element of eventsCh or of the portal's     *)
(* queue is about; what comes from Matrix is about nobody's.                *)
EventFrom == [e \in Event |-> Sender(e)]
Remote == {"reaction", "reactionRemove"}
QueueFrom == [q \in QueueRec |-> IF q.type \in Remote THEN q.from ELSE NoOne]

-----------------------------------------------------------------------------
(* The last element that a user has in a queue s, F telling whose each is.  *)

Absent(s, F, u) == \A i \in 1 .. Len(s) : F[s[i]] # u

Latest(s, F, u, x) ==
    \E i \in 1 .. Len(s) :
        s[i] = x /\ F[x] = u /\ \A j \in i + 1 .. Len(s) : F[s[j]] # u

LEMMA HeadAndTail ==
    ASSUME NEW S, NEW s \in Seq(S), s # << >>
    PROVE  Head(s) \in S /\ Tail(s) \in Seq(S) /\ Len(Tail(s)) = Len(s) - 1
OBVIOUS

(* Appending an element makes it the last of its user and of nobody else.   *)
LEMMA LatestOfAppend ==
    ASSUME NEW S, NEW s \in Seq(S), NEW e \in S, NEW F, NEW u, NEW x
    PROVE  /\ Latest(Append(s, e), F, u, x) =>
                 (x = e /\ F[e] = u) \/ (F[e] # u /\ Latest(s, F, u, x))
           /\ Absent(Append(s, e), F, u) <=> Absent(s, F, u) /\ F[e] # u
<1> DEFINE t == Append(s, e)
<1>1. /\ Len(s) \in Nat /\ Len(t) = Len(s) + 1 /\ t[Len(s) + 1] = e
      /\ \A i \in 1 .. Len(s) : t[i] = s[i]
  OBVIOUS
<1>2. ASSUME Latest(t, F, u, x)
      PROVE  (x = e /\ F[e] = u) \/ (F[e] # u /\ Latest(s, F, u, x))
  <2>1. PICK i \in 1 .. Len(t) :
            t[i] = x /\ F[x] = u /\ \A j \in i + 1 .. Len(t) : F[t[j]] # u
    BY <1>2 DEF Latest
  <2>2. CASE i = Len(s) + 1
    BY <1>1, <2>1, <2>2
  <2>3. CASE i # Len(s) + 1
    <3>1. i \in 1 .. Len(s) /\ Len(s) + 1 \in i + 1 .. Len(t)
      BY <1>1, <2>3
    <3>2. F[e] # u
      BY <1>1, <2>1, <3>1
    <3>3. s[i] = x /\ \A j \in i + 1 .. Len(s) : F[s[j]] # u
      BY <1>1, <2>1, <3>1
    <3>4. QED
      BY <2>1, <3>1, <3>2, <3>3 DEF Latest
  <2>4. QED
    BY <2>2, <2>3
<1>3. ASSUME Absent(t, F, u)
      PROVE  Absent(s, F, u) /\ F[e] # u
  <2>1. \A i \in 1 .. Len(s) + 1 : F[t[i]] # u
    BY <1>1, <1>3 DEF Absent
  <2>2. QED
    BY <1>1, <2>1 DEF Absent
<1>4. ASSUME Absent(s, F, u), F[e] # u PROVE Absent(t, F, u)
  BY <1>1, <1>4 DEF Absent
<1>5. QED
  BY <1>2, <1>3, <1>4

(* Taking the head leaves the last elements as they are, but for the head.  *)
LEMMA LatestOfTail ==
    ASSUME NEW S, NEW s \in Seq(S), s # << >>, NEW F, NEW u, NEW x
    PROVE  /\ Head(s) \in S /\ Tail(s) \in Seq(S) /\ Len(Tail(s)) = Len(s) - 1
           /\ Latest(Tail(s), F, u, x) => Latest(s, F, u, x)
           /\ Absent(s, F, u) => Absent(Tail(s), F, u) /\ F[Head(s)] # u
           /\ Absent(Tail(s), F, u) =>
                 \/ Absent(s, F, u) /\ F[Head(s)] # u
                 \/ F[Head(s)] = u /\ Latest(s, F, u, Head(s))
<1> DEFINE t == Tail(s)
<1>1. /\ Len(s) \in Nat \ {0} /\ Len(t) = Len(s) - 1 /\ Head(s) = s[1]
      /\ \A i \in 1 .. Len(t) : t[i] = s[i + 1]
      /\ Head(s) \in S /\ t \in Seq(S)
  OBVIOUS
<1>2. ASSUME Latest(t, F, u, x)
      PROVE  Latest(s, F, u, x)
  <2>1. PICK i \in 1 .. Len(t) :
            t[i] = x /\ F[x] = u /\ \A j \in i + 1 .. Len(t) : F[t[j]] # u
    BY <1>2 DEF Latest
  <2>2. i + 1 \in 1 .. Len(s) /\ s[i + 1] = x
    BY <1>1, <2>1
  <2>3. ASSUME NEW j \in i + 1 + 1 .. Len(s)
        PROVE  F[s[j]] # u
    <3>1. /\ j - 1 \in i + 1 .. Len(t) /\ j - 1 \in 1 .. Len(t)
          /\ (j - 1) + 1 = j
      BY <1>1, <2>3
    <3>2. t[j - 1] = s[j]
      BY <1>1, <3>1
    <3>3. F[t[j - 1]] # u
      BY <2>1, <3>1
    <3>4. QED
      BY <3>2, <3>3
  <2>4. QED
    BY <2>1, <2>2, <2>3 DEF Latest
<1>3. ASSUME Absent(t, F, u)
      PROVE  \A j \in 2 .. Len(s) : F[s[j]] # u
  <2>1. ASSUME NEW j \in 2 .. Len(s)
        PROVE  F[s[j]] # u
    <3>1. j - 1 \in 1 .. Len(t) /\ (j - 1) + 1 = j
      BY <1>1
    <3>2. QED
      BY <1>1, <1>3, <3>1 DEF Absent
  <2>2. QED
    BY <2>1
<1>4. ASSUME Absent(t, F, u)
      PROVE  \/ Absent(s, F, u) /\ F[Head(s)] # u
             \/ F[Head(s)] = u /\ Latest(s, F, u, Head(s))
  <2>1. CASE F[Head(s)] = u
    BY <1>1, <1>3, <1>4, <2>1 DEF Latest
  <2>2. CASE F[Head(s)] # u
    <3>1. \A j \in 1 .. Len(s) : j = 1 \/ j \in 2 .. Len(s)
      BY <1>1
    <3>2. QED
      BY <1>1, <1>3, <1>4, <2>2, <3>1 DEF Absent
  <2>3. QED
    BY <2>1, <2>2
<1>5. ASSUME Absent(s, F, u) PROVE Absent(t, F, u) /\ F[Head(s)] # u
  <2>1. \A i \in 1 .. Len(t) : i + 1 \in 1 .. Len(s)
    BY <1>1
  <2>2. QED
    BY <1>1, <1>5, <2>1 DEF Absent
<1>6. QED
  BY <1>1, <1>2, <1>4, <1>5

-----------------------------------------------------------------------------
(* Type correctness.                                                        *)

LEMMA EmojisAreKeys ==
    /\ Emojis \subseteq Keys
    /\ \A k \in DOMAIN simplexSupportedEmojis : k \in Keys /\ simplexSupportedEmojis[k] \in Emojis
BY ReactionsAssumption DEF ReactionsAssumption, Emojis, Range

(* What a contact does reaches the event channel, or is lost.               *)
LEMMA EmitKeepsType ==
    ASSUME TypeOK, NEW u \in Users, NEW e \in Event, Emit(u, e)
    PROVE  /\ events' \in Seq(Event) /\ Len(events') <= EventCap
           /\ lost' \subseteq Users
<1>1. events \in Seq(Event) /\ Len(events) <= EventCap /\ EventCap \in Nat
  BY ReactionsAssumption DEF ReactionsAssumption, TypeOK
<1>2. CASE up /\ Len(events) < EventCap
  <2>1. events' = Append(events, e) /\ lost' = lost
    BY <1>2 DEF Emit
  <2>2. Len(Append(events, e)) = Len(events) + 1 /\ Append(events, e) \in Seq(Event)
    BY <1>1
  <2>3. QED
    BY <1>1, <1>2, <2>1, <2>2 DEF TypeOK
<1>3. CASE ~(up /\ Len(events) < EventCap)
  BY <1>1, <1>3 DEF Emit, TypeOK
<1>4. QED
  BY <1>2, <1>3

(* However simplex-chat names a user, its events are taken to be from them. *)
LEMMA NamedIsSender ==
    ASSUME NEW u \in Users, NEW b \in BOOLEAN, NEW e \in Emojis, Tell(u, b, e)
    PROVE  \E v \in Event : /\ Emit(u, v) /\ EventFrom[v] = u
                            /\ (v.added <=> b) /\ v.emoji = e
<1>1. PICK n \in Named(u) :
          Emit(u, [added |-> b, from |-> n[1], dir |-> n[2], emoji |-> e])
  BY DEF Tell
<1> DEFINE v == [added |-> b, from |-> n[1], dir |-> n[2], emoji |-> e]
<1>2. /\ n[1] \in Contacts \union {NoOne} /\ n[2] \in Users \union {NoOne}
      /\ u = IF n[1] # NoOne THEN n[1] ELSE IF n[2] # NoOne THEN n[2] ELSE me
  <2>1. NoOne \notin Users
    BY ReactionsAssumption DEF ReactionsAssumption, Users
  <2>2. CASE u = me
    <3>1. n = <<NoOne, me>> \/ n = <<NoOne, NoOne>>
      BY <2>2 DEF Named
    <3>2. QED
      BY <2>1, <2>2, <3>1
  <2>3. CASE u # me
    <3>1. (n = <<u, NoOne>> \/ n = <<NoOne, u>>) /\ u \in Contacts
      BY <2>3 DEF Named, Users
    <3>2. QED
      BY <2>1, <3>1
  <2>4. QED
    BY <2>2, <2>3
<1>3. v \in Event /\ Sender(v) = u
  BY <1>2 DEF Event, Sender
<1>4. EventFrom[v] = u
  BY <1>3 DEF EventFrom
<1>5. QED
  BY <1>1, <1>3, <1>4

LEMMA QueueKeepsType ==
    ASSUME TypeOK, NEW e \in QueueRec, Len(queue) < QueueCap, queue' = Append(queue, e)
    PROVE  queue' \in Seq(QueueRec) /\ Len(queue') <= QueueCap
<1>1. queue \in Seq(QueueRec) /\ QueueCap \in Nat
  BY ReactionsAssumption DEF ReactionsAssumption, TypeOK, QueueRec, QueueType
<1>2. Len(Append(queue, e)) = Len(queue) + 1 /\ Append(queue, e) \in Seq(QueueRec)
  BY <1>1
<1>3. QED
  BY <1>1, <1>2

LEMMA HeadOfQueue ==
    ASSUME TypeOK, queue # << >>
    PROVE  /\ Head(queue) \in QueueRec /\ Tail(queue) \in Seq(QueueRec)
           /\ Len(Tail(queue)) <= QueueCap
           /\ Head(queue).from \in Users /\ Head(queue).key \in Keys
<1>1. queue \in Seq(QueueRec) /\ Len(queue) <= QueueCap /\ QueueCap \in Nat
  BY ReactionsAssumption DEF ReactionsAssumption, TypeOK, QueueRec, QueueType
<1>2. Head(queue) \in QueueRec /\ Tail(queue) \in Seq(QueueRec) /\ Len(Tail(queue)) = Len(queue) - 1
  BY <1>1, HeadAndTail
<1>3. Len(queue) \in Nat
  BY <1>1
<1>4. QED
  BY <1>1, <1>2, <1>3 DEF QueueRec

(* A command changes the user's own reactions and nobody else's.            *)
LEMMA ReactToChatItemKeepsType ==
    ASSUME TypeOK, NEW e, NEW add \in BOOLEAN, NEW answered, ReactToChatItem(e, add, answered)
    PROVE  /\ onItem' \in [Users -> SUBSET Emojis] /\ failed' \in BOOLEAN
           /\ \A u \in Contacts : onItem'[u] = onItem[u]
<1>1. me \in Users /\ me \notin Contacts /\ Contacts \subseteq Users
  BY ReactionsAssumption DEF ReactionsAssumption, Users
<1>2. onItem \in [Users -> SUBSET Emojis] /\ failed \in BOOLEAN
  BY DEF TypeOK
<1>3. CASE UNCHANGED onItem
  BY <1>2, <1>3 DEF ReactToChatItem
<1>4. CASE onItem' = [onItem EXCEPT ![me] = @ \union {e}] /\ e \in Emojis
  BY <1>1, <1>2, <1>4 DEF ReactToChatItem
<1>5. CASE onItem' = [onItem EXCEPT ![me] = @ \ {e}]
  BY <1>1, <1>2, <1>5 DEF ReactToChatItem
<1>6. QED
  <2>1. \/ onItem' = onItem
        \/ /\ e \in Emojis
           /\ onItem' = [onItem EXCEPT ![me] = IF add THEN @ \union {e} ELSE @ \ {e}]
    BY DEF ReactToChatItem
  <2>2. QED
    BY <1>3, <1>4, <1>5, <2>1

(* A user does something on SimpleX: what it is, and its event.             *)
LEMMA SimplexUserActs ==
    ASSUME SimplexUser
    PROVE  \E u \in Users, e \in Emojis, v \in Event :
              /\ Emit(u, v) /\ EventFrom[v] = u /\ v.emoji = e
              /\ \/ v.added /\ Reacts(u, e)
                 \/ ~v.added /\ Unreacts(u, e)
              /\ crossed' = (crossed \/ (u = me /\ ToSimplex))
<1>1. PICK u \in Users, e \in Emojis :
          /\ Reacts(u, e) \/ Unreacts(u, e)
          /\ crossed' = (crossed \/ (u = me /\ ToSimplex))
  BY DEF SimplexUser
<1>2. CASE Reacts(u, e)
  <2>1. PICK b \in BOOLEAN : b /\ Tell(u, b, e)
    <3>1. Tell(u, TRUE, e)
      BY <1>2 DEF Reacts
    <3>2. QED
      BY <3>1
  <2>2. PICK v \in Event : Emit(u, v) /\ EventFrom[v] = u /\ (v.added <=> b) /\ v.emoji = e
    <3>1. Tell(u, b, e)
      BY <2>1
    <3>2. QED
      BY ONLY <3>1, NamedIsSender
  <2>3. QED
    BY <1>1, <1>2, <2>1, <2>2
<1>3. CASE Unreacts(u, e)
  <2>1. PICK b \in BOOLEAN : ~b /\ Tell(u, b, e)
    <3>1. Tell(u, FALSE, e)
      BY <1>3 DEF Unreacts
    <3>2. QED
      BY <3>1
  <2>2. PICK v \in Event : Emit(u, v) /\ EventFrom[v] = u /\ (v.added <=> b) /\ v.emoji = e
    <3>1. Tell(u, b, e)
      BY <2>1
    <3>2. QED
      BY ONLY <3>1, NamedIsSender
  <2>3. QED
    BY <1>1, <1>3, <2>1, <2>2
<1>4. QED
  BY <1>1, <1>2, <1>3

LEMMA SimplexUserKeepsType == ASSUME TypeOK, SimplexUser PROVE TypeOK'
<1> USE DEF historyVars, portalVars
<1>1. PICK u \in Users, e \in Emojis, v \in Event :
          /\ Emit(u, v)
          /\ Reacts(u, e) \/ Unreacts(u, e)
          /\ crossed' = (crossed \/ (u = me /\ ToSimplex))
  BY SimplexUserActs
<1>2. acts' \in 0 .. MaxActs
  BY ReactionsAssumption DEF ReactionsAssumption, SimplexUser, Act, TypeOK
<1>3. crossed' \in BOOLEAN
  BY <1>1 DEF TypeOK
<1>4. events' \in Seq(Event) /\ Len(events') <= EventCap /\ lost' \subseteq Users
  BY <1>1, EmitKeepsType
<1>5. onItem' \in [Users -> SUBSET Emojis] /\ plural' \subseteq Users
  <2>1. CASE Reacts(u, e)
    BY <2>1 DEF Reacts, TypeOK
  <2>2. CASE Unreacts(u, e)
    BY <2>2 DEF Unreacts, TypeOK
  <2>3. QED
    BY <1>1, <2>1, <2>2
<1>6. QED
  BY <1>2, <1>3, <1>4, <1>5 DEF SimplexUser, TypeOK

LEMMA HandlerKeepsType == ASSUME TypeOK, HandleChatItemReaction PROVE TypeOK'
<1> USE DEF historyVars, portalVars
<1>1. events \in Seq(Event) /\ events # << >> /\ Len(events) <= EventCap
  BY DEF HandleChatItemReaction, TypeOK
<1>2. /\ Head(events) \in Event /\ events' \in Seq(Event)
      /\ Len(events') = Len(events) - 1
  BY <1>1, HeadAndTail DEF HandleChatItemReaction
<1>3. PICK e \in QueueRec : queue' = Append(queue, e)
  <2>1. Sender(Head(events)) \in Users /\ Head(events).emoji \in Keys
    BY <1>2, EmojisAreKeys DEF Event, Users, Sender
  <2>2. QED
    BY <2>1 DEF HandleChatItemReaction, QueueRec, QueueType
<1>4. queue' \in Seq(QueueRec) /\ Len(queue') <= QueueCap
  BY <1>3, QueueKeepsType DEF HandleChatItemReaction
<1>5. Len(events') <= EventCap
  BY <1>1, <1>2, ReactionsAssumption DEF ReactionsAssumption
<1>6. QED
  BY <1>2, <1>4, <1>5 DEF HandleChatItemReaction, TypeOK, QueueRec, QueueType

LEMMA MatrixUserKeepsType == ASSUME TypeOK, MatrixUser PROVE TypeOK'
<1> USE DEF historyVars, portalVars
<1>1. PICK k \in Keys : IReact(k) \/ IUnreact(k)
  BY DEF MatrixUser
<1>2. acts' \in 0 .. MaxActs /\ me \in Users
  BY ReactionsAssumption DEF ReactionsAssumption, MatrixUser, Act, TypeOK, Users
<1>3. PICK e \in QueueRec : queue' = Append(queue, e)
  BY <1>1, <1>2 DEF IReact, IUnreact, QueueRec, QueueType
<1>4. Len(queue) < QueueCap
  BY <1>1 DEF IReact, IUnreact
<1>5. queue' \in Seq(QueueRec) /\ Len(queue') <= QueueCap
  BY <1>3, <1>4, QueueKeepsType
<1>6. shown' \in [Users -> SUBSET Keys]
  <2>1. CASE IReact(k)
    BY <1>2, <2>1 DEF IReact, TypeOK
  <2>2. CASE IUnreact(k)
    BY <1>2, <2>2 DEF IUnreact, TypeOK
  <2>3. QED
    BY <1>1, <2>1, <2>2
<1>7. crossed' \in BOOLEAN
  BY DEF MatrixUser, TypeOK
<1>8. QED
  BY <1>2, <1>5, <1>6, <1>7 DEF MatrixUser, TypeOK, QueueRec, QueueType

(* What the two handlers of the user's own reactions do to the portal.      *)
LEMMA MatrixReactionStep ==
    ASSUME TypeOK, PortalMatrixReaction
    PROVE  /\ onItem' \in [Users -> SUBSET Emojis] /\ failed' \in BOOLEAN
           /\ row' \in [Users -> Keys \union {NoReaction}]
           /\ shown' \in [Users -> SUBSET Keys]
           /\ plural' \subseteq Users /\ refused' \subseteq Keys
           /\ UNCHANGED <<lost, early, crossed>>
           /\ \A u \in Contacts : /\ onItem'[u] = onItem[u] /\ row'[u] = row[u]
                                  /\ shown'[u] = shown[u] /\ (u \in plural' <=> u \in plural)
<1> DEFINE k == Head(queue).key
<1>1. me \in Users /\ me \notin Contacts /\ Contacts \subseteq Users
  BY ReactionsAssumption DEF ReactionsAssumption, Users
<1>2. k \in Keys /\ refused' \subseteq Keys /\ UNCHANGED <<lost, early, crossed>>
  BY HeadOfQueue DEF PortalMatrixReaction, Pop, TypeOK
<1>3. CASE row[me] = k
  BY <1>1, <1>2, <1>3 DEF PortalMatrixReaction, TypeOK
<1>4. CASE row[me] # k
  <2>1. PICK answered \in {"ok", "refused", "failed"} :
            /\ HandleMatrixReaction(k, answered)
            /\ row' = IF answered = "ok" THEN [row EXCEPT ![me] = k] ELSE row
    BY <1>4 DEF PortalMatrixReaction
  <2>2. /\ shown' = [shown EXCEPT ![me] = @ \ {row[me]}]
        /\ plural' = IF row[me] \in DOMAIN simplexSupportedEmojis
                     THEN plural \union {me} ELSE plural
    BY <1>4 DEF PortalMatrixReaction
  <2>3. /\ onItem' \in [Users -> SUBSET Emojis] /\ failed' \in BOOLEAN
        /\ \A u \in Contacts : onItem'[u] = onItem[u]
    <3>1. CASE UNCHANGED <<onItem, failed>>
      BY <3>1 DEF TypeOK
    <3>2. CASE ReactToChatItem(simplexSupportedEmojis[k], TRUE, answered)
      BY <3>2, ReactToChatItemKeepsType
    <3>3. QED
      BY <2>1, <3>1, <3>2 DEF HandleMatrixReaction
  <2>4. /\ row' \in [Users -> Keys \union {NoReaction}]
        /\ \A u \in Contacts : row'[u] = row[u]
    BY <1>1, <1>2, <2>1 DEF TypeOK
  <2>5. QED
    BY <1>1, <1>2, <2>2, <2>3, <2>4 DEF TypeOK
<1>5. QED
  BY <1>3, <1>4

LEMMA MatrixRedactionStep ==
    ASSUME TypeOK, PortalMatrixRedaction
    PROVE  /\ onItem' \in [Users -> SUBSET Emojis] /\ failed' \in BOOLEAN
           /\ row' \in [Users -> Keys \union {NoReaction}]
           /\ refused' \subseteq Keys
           /\ UNCHANGED <<shown, lost, early, plural, crossed>>
           /\ \A u \in Contacts : onItem'[u] = onItem[u] /\ row'[u] = row[u]
<1> DEFINE k == Head(queue).key
<1>1. me \in Users /\ me \notin Contacts /\ Contacts \subseteq Users
  BY ReactionsAssumption DEF ReactionsAssumption, Users
<1>2. UNCHANGED <<shown, lost, early, plural, crossed>> /\ k \in Keys
  BY HeadOfQueue DEF PortalMatrixRedaction, Pop
<1>3. CASE row[me] # k
  BY <1>1, <1>2, <1>3 DEF PortalMatrixRedaction, TypeOK
<1>4. CASE row[me] = k
  <2>1. PICK answered \in {"ok", "refused", "failed"} :
            /\ ReactToChatItem(k, FALSE, answered)
            /\ row' = IF answered = "ok" THEN [row EXCEPT ![me] = NoReaction] ELSE row
            /\ refused' = IF answered = "refused" THEN refused \union {k} ELSE refused
    BY <1>4 DEF PortalMatrixRedaction, HandleMatrixReactionRemove
  <2>2. /\ onItem' \in [Users -> SUBSET Emojis] /\ failed' \in BOOLEAN
        /\ \A u \in Contacts : onItem'[u] = onItem[u]
    BY <2>1, ReactToChatItemKeepsType
  <2>3. /\ row' \in [Users -> Keys \union {NoReaction}]
        /\ \A u \in Contacts : row'[u] = row[u]
    BY <1>1, <2>1 DEF TypeOK
  <2>4. refused' \subseteq Keys
    BY <1>2, <2>1 DEF TypeOK
  <2>5. QED
    BY <1>2, <2>2, <2>3, <2>4
<1>5. QED
  BY <1>3, <1>4

LEMMA PortalKeepsType == ASSUME TypeOK, Portal PROVE TypeOK'
<1> USE DEF historyVars, portalVars
<1>1. CASE MessagePosted
  BY <1>1 DEF MessagePosted, TypeOK
<1>2. ASSUME NEW type, Pop(type)
      PROVE  /\ queue' \in Seq(QueueRec) /\ Len(queue') <= QueueCap
             /\ UNCHANGED <<acts, up, events, known>>
             /\ Head(queue).from \in Users /\ Head(queue).key \in Keys
  BY <1>2, HeadOfQueue DEF Pop
<1>3. CASE PortalMatrixReaction
  BY <1>2, <1>3, MatrixReactionStep DEF TypeOK, QueueRec, QueueType, PortalMatrixReaction
<1>4. CASE PortalMatrixRedaction
  BY <1>2, <1>4, MatrixRedactionStep DEF TypeOK, QueueRec, QueueType, PortalMatrixRedaction
<1>5. CASE PortalReaction
  <2>1. row' \in [Users -> Keys \union {NoReaction}] /\ early' \subseteq Users
    <3>1. CASE known
      BY <1>2, <1>5, <3>1 DEF PortalReaction, TypeOK
    <3>2. CASE ~known
      BY <1>2, <1>5, <3>2 DEF PortalReaction, TypeOK
    <3>3. QED
      BY <3>1, <3>2
  <2>2. shown' \in [Users -> SUBSET Keys]
    <3>1. CASE known /\ row[Head(queue).from] # Head(queue).key
      <4>1. Head(queue).from \in Users /\ Head(queue).key \in Keys
        BY <1>2, <1>5 DEF PortalReaction
      <4> DEFINE u == Head(queue).from
                 new == (shown[u] \ {row[u]}) \union {Head(queue).key}
      <4>2. shown' = [shown EXCEPT ![u] = new]
        BY <1>5, <3>1 DEF PortalReaction
      <4>3. new \in SUBSET Keys
        BY <4>1 DEF TypeOK
      <4> HIDE DEF u, new
      <4>4. QED
        BY <4>2, <4>3 DEF TypeOK
    <3>2. CASE ~(known /\ row[Head(queue).from] # Head(queue).key)
      BY <1>5, <3>2 DEF PortalReaction, TypeOK
    <3>3. QED
      BY <3>1, <3>2
  <2>3. refused' \subseteq Keys
    BY <1>5 DEF PortalReaction, TypeOK
  <2>4. QED
    BY <1>2, <1>5, <2>1, <2>2, <2>3 DEF PortalReaction, TypeOK, QueueRec, QueueType
<1>6. CASE PortalReactionRemove
  <2>1. /\ row' \in [Users -> Keys \union {NoReaction}] /\ shown' \in [Users -> SUBSET Keys]
        /\ refused' \subseteq Keys
    BY <1>2, <1>6 DEF PortalReactionRemove, TypeOK
  <2>2. QED
    BY <1>2, <1>6, <2>1 DEF PortalReactionRemove, TypeOK, QueueRec, QueueType
<1>7. QED
  BY <1>1, <1>3, <1>4, <1>5, <1>6 DEF Portal

LEMMA TypeOfInit == Init => TypeOK
<1> SUFFICES ASSUME Init PROVE TypeOK
  OBVIOUS
<1>1. EventCap \in Nat /\ QueueCap \in Nat /\ 0 \in 0 .. MaxActs
  BY ReactionsAssumption DEF ReactionsAssumption
<1>2. /\ << >> \in Seq(Event)
      /\ << >> \in Seq([type : {"reaction", "reactionRemove", "matrixReaction",
                              "matrixRedaction"}, from : Users, key : Keys])
      /\ Len(<< >>) = 0
  OBVIOUS
<1>3. /\ onItem \in [Users -> SUBSET Emojis] /\ row \in [Users -> Keys \union {NoReaction}]
      /\ shown \in [Users -> SUBSET Keys]
  BY DEF Init
<1>4. /\ up \in BOOLEAN /\ known \in BOOLEAN /\ failed \in BOOLEAN /\ crossed \in BOOLEAN
      /\ refused \subseteq Keys
      /\ lost \subseteq Users /\ early \subseteq Users /\ plural \subseteq Users
  BY DEF Init
<1>5. acts \in 0 .. MaxActs /\ Len(events) <= EventCap /\ Len(queue) <= QueueCap
  BY <1>1, <1>2 DEF Init
<1>6. /\ events \in Seq(Event)
      /\ queue \in Seq([type : {"reaction", "reactionRemove", "matrixReaction",
                                "matrixRedaction"}, from : Users, key : Keys])
  BY <1>2 DEF Init
<1>7. QED
  BY <1>3, <1>4, <1>5, <1>6 DEF TypeOK

LEMMA TypeOfNext == TypeOK /\ [Next]_vars => TypeOK'
<1> SUFFICES ASSUME TypeOK, [Next]_vars PROVE TypeOK'
  OBVIOUS
<1>1. CASE Connection
  BY <1>1 DEF Connection, TypeOK, portalVars, historyVars
<1>2. CASE UNCHANGED vars
  BY <1>2 DEF vars, TypeOK, portalVars, historyVars
<1>3. QED
  BY <1>1, <1>2, SimplexUserKeepsType, HandlerKeepsType, MatrixUserKeepsType, PortalKeepsType DEF Next

(* The state of the portal, of SimpleX and of the queues keeps its type; no *)
(* queue holds more than its capacity.                                      *)
THEOREM TypeCorrect == Spec => []TypeOK
BY TypeOfInit, TypeOfNext, PTL DEF Spec

-----------------------------------------------------------------------------
(* The inductive invariant.                                                 *)

MatrixItem == [type : {"matrixReaction", "matrixRedaction"}, from : {me}, key : Keys]
RemoteItem == [type : Remote, from : Users, key : Emojis]

(* What the portal is told, and of whom.                                    *)
Senders == queue \in Seq(MatrixItem \union RemoteItem)

(* A contact's reactions in the room are that of its row.                   *)
OneRow == \A u \in Contacts : /\ shown[u] = {row[u]} \ {NoReaction}
                              /\ ~known => row[u] = NoReaction

(* Without a second reaction beside a first there is at most one.           *)
Single == \A u \in Contacts \ plural : \A a, b \in onItem[u] : a = b

(* The last that was heard of a contact is true.                            *)
Agrees(u, added, e) ==
    /\ added => e \in onItem[u]
    /\ u \notin plural => onItem[u] = IF added THEN {e} ELSE {}

Heard(u) == \A x : Latest(events, EventFrom, u, x) => Agrees(u, x.added, x.emoji)

Queued(u) == \A x : Latest(queue, QueueFrom, u, x) => Agrees(u, x.type = "reaction", x.key)

(* Events of the user on their way, to the portal and in the portal's queue *)
Coming(u) == ~Absent(events, EventFrom, u)
Waiting(u) == ~Absent(queue, QueueFrom, u)

Synced(u) == /\ shown[u] \subseteq onItem[u]
             /\ u \notin early \union plural => shown[u] = onItem[u]

(* The last event of a user that is still on its way says what the user has *)
(* on SimpleX.                                                              *)
Told(u) == /\ Heard(u)
           /\ ~Coming(u) => Queued(u)

(* For a contact this holds unless one of its events was lost, and the room *)
(* says it when none is on its way.                                         *)
Follows(u) == /\ Told(u)
              /\ ~Coming(u) /\ ~Waiting(u) => Synced(u)

IInv == /\ Senders /\ OneRow /\ Single
        /\ \A u \in Contacts \ lost : Follows(u)

(* Elements of the queues are of those that QueueFrom and EventFrom tell.   *)
LEMMA WhoseItem ==
    /\ \A q \in MatrixItem : q \in QueueRec /\ QueueFrom[q] = NoOne /\ QueueFrom[q] \notin Users
    /\ \A q \in RemoteItem : /\ q \in QueueRec /\ QueueFrom[q] = q.from /\ q.from \in Users
                             /\ q.key \in Keys
    /\ \A v \in Event : EventFrom[v] = Sender(v) /\ EventFrom[v] \in Users
<1>1. NoOne \notin Users /\ me \in Users
  BY ReactionsAssumption DEF ReactionsAssumption, Users
<1>2. ASSUME NEW q \in MatrixItem
      PROVE  q \in QueueRec /\ QueueFrom[q] = NoOne
  <2>1. q \in QueueRec /\ q.type \notin Remote
    BY <1>1 DEF MatrixItem, QueueRec, QueueType, Remote
  <2>2. QED
    BY <2>1 DEF QueueFrom
<1>3. ASSUME NEW q \in RemoteItem
      PROVE  q \in QueueRec /\ QueueFrom[q] = q.from /\ q.from \in Users /\ q.key \in Keys
  <2>1. q \in QueueRec /\ q.type \in Remote /\ q.from \in Users /\ q.key \in Keys
    BY EmojisAreKeys DEF RemoteItem, QueueRec, QueueType, Remote
  <2>2. QED
    BY <2>1 DEF QueueFrom
<1>4. ASSUME NEW v \in Event
      PROVE  EventFrom[v] = Sender(v) /\ Sender(v) \in Users
  BY <1>1 DEF EventFrom, Event, Sender, Users
<1>5. QED
  BY <1>1, <1>2, <1>3, <1>4

LEMMA InitInv == Init => IInv
<1> SUFFICES ASSUME Init PROVE IInv
  OBVIOUS
<1>1. Contacts \subseteq Users
  BY DEF Users
<1>2. \A F, u, x : ~Latest(<< >>, F, u, x)
  BY DEF Latest
<1>3. Senders
  BY DEF Init, Senders
<1>4. OneRow /\ Single
  BY <1>1 DEF Init, OneRow, Single
<1>5. \A u \in Contacts : Follows(u)
  BY <1>1, <1>2 DEF Init, Follows, Told, Heard, Queued, Synced
<1>6. QED
  BY <1>3, <1>4, <1>5 DEF IInv

(* A contact of whom nothing changes, but that events of others come and    *)
(* go, is followed as before.                                               *)
Undisturbed(u) ==
    /\ \A x : Latest(events', EventFrom, u, x) => Latest(events, EventFrom, u, x)
    /\ \A x : Latest(queue', QueueFrom, u, x) => Latest(queue, QueueFrom, u, x)
    /\ Coming(u)' <=> Coming(u)
    /\ Waiting(u)' <=> Waiting(u)
    /\ onItem'[u] = onItem[u] /\ (u \in plural' <=> u \in plural)

LEMMA UndisturbedTold ==
    ASSUME NEW u, Told(u), Undisturbed(u)
    PROVE  Told(u)'
BY DEF Told, Heard, Queued, Agrees, Undisturbed

LEMMA UndisturbedFollows ==
    ASSUME NEW u, Follows(u), Undisturbed(u), shown'[u] = shown[u], u \in early => u \in early'
    PROVE  Follows(u)'
<1>1. Told(u)'
  BY UndisturbedTold DEF Follows
<1>2. Synced(u) => Synced(u)'
  BY DEF Synced, Undisturbed
<1>3. QED
  BY <1>1, <1>2 DEF Follows, Undisturbed

(* Somebody does something on SimpleX: the event, unless lost, is their     *)
(* last, and true; nobody else is disturbed.                                *)
LEMMA SimplexUserStep ==
    ASSUME TypeOK, SimplexUser, NEW w \in Users, w \notin lost',
           w \notin plural => \A a, b \in onItem[w] : a = b
    PROVE  \/ /\ Undisturbed(w)
           \/ /\ Heard(w)' /\ Coming(w)'
              /\ w \notin plural' => w \notin plural /\ \A a, b \in onItem'[w] : a = b
              /\ w = me => (crossed' <=> crossed \/ ToSimplex)
<1>1. PICK u \in Users, e \in Emojis, v \in Event :
              /\ Emit(u, v) /\ EventFrom[v] = u /\ v.emoji = e
              /\ \/ v.added /\ Reacts(u, e)
                 \/ ~v.added /\ Unreacts(u, e)
              /\ crossed' = (crossed \/ (u = me /\ ToSimplex))
  BY SimplexUserActs
<1>2. events \in Seq(Event) /\ onItem \in [Users -> SUBSET Emojis]
  BY DEF TypeOK
<1>3. UNCHANGED queue
  BY DEF SimplexUser
<1>4. w # u => onItem'[w] = onItem[w] /\ (w \in plural' <=> w \in plural)
  <2>1. CASE Reacts(u, e)
    BY <1>2, <2>1 DEF Reacts
  <2>2. CASE Unreacts(u, e)
    BY <1>2, <2>2 DEF Unreacts
  <2>3. QED
    BY <1>1, <2>1, <2>2
<1>5. CASE w = u
  <2>1. /\ Agrees(u, v.added, e)'
        /\ w \notin plural' => w \notin plural /\ \A a, b \in onItem'[w] : a = b
    <3>1. CASE Reacts(u, e)
      <4>1. /\ onItem' = [onItem EXCEPT ![u] = @ \union {e}]
            /\ plural' = IF onItem[u] = {} THEN plural ELSE plural \union {u}
        BY <3>1 DEF Reacts
      <4>2. v.added
        BY <1>1, <3>1 DEF Reacts, Unreacts
      <4>3. QED
        BY <1>2, <1>5, <4>1, <4>2 DEF Agrees
    <3>2. CASE Unreacts(u, e)
      <4>1. /\ onItem' = [onItem EXCEPT ![u] = @ \ {e}] /\ plural' = plural
            /\ e \in onItem[u]
        BY <3>2 DEF Unreacts
      <4>2. ~v.added
        BY <1>1, <3>2 DEF Reacts, Unreacts
      <4>3. QED
        BY <1>2, <1>5, <4>1, <4>2 DEF Agrees
    <3>3. QED
      BY <1>1, <3>1, <3>2
  <2>2. events' = Append(events, v)
    BY <1>1, <1>5 DEF Emit
  <2>3. \A x : /\ Latest(events', EventFrom, w, x) => x = v
               /\ Coming(w)'
    BY <1>1, <1>2, <1>5, <2>2, LatestOfAppend DEF Coming
  <2>4. Heard(w)'
    BY <1>1, <1>5, <2>1, <2>3 DEF Heard
  <2>5. QED
    BY <1>1, <1>5, <2>1, <2>3, <2>4
<1>6. CASE w # u
  <2>1. CASE events' = Append(events, v)
    <3>1. \A x : /\ Latest(events', EventFrom, w, x) => Latest(events, EventFrom, w, x)
                 /\ Coming(w)' <=> Coming(w)
      BY <1>1, <1>2, <1>6, <2>1, LatestOfAppend DEF Coming
    <3>2. QED
      BY <1>3, <1>4, <1>6, <3>1 DEF Undisturbed, Waiting
  <2>2. CASE events' = events
    BY <1>3, <1>4, <1>6, <2>2 DEF Undisturbed, Coming, Waiting
  <2>3. QED
    BY <1>1, <2>1, <2>2 DEF Emit
<1>7. QED
  BY <1>5, <1>6

LEMMA ContactStep == ASSUME TypeOK, IInv, SimplexUser PROVE IInv'
<1>1. UNCHANGED <<queue, known, row, shown, early>> /\ lost \subseteq lost'
  <2>1. UNCHANGED <<queue, known, row, shown, early>>
    BY DEF SimplexUser, portalVars
  <2>2. lost \subseteq lost'
    <3>1. PICK u \in Users, v \in Event : Emit(u, v)
      BY SimplexUserActs
    <3>2. QED
      BY <3>1 DEF Emit
  <2>3. QED
    BY <2>1, <2>2
<1>2. Senders' /\ OneRow'
  BY <1>1 DEF IInv, Senders, OneRow
<1>3. Single'
  <2>1. PICK u \in Users, e \in Emojis : Reacts(u, e) \/ Unreacts(u, e)
    BY DEF SimplexUser
  <2>2. onItem \in [Users -> SUBSET Emojis] /\ Contacts \subseteq Users
    BY DEF TypeOK, Users
  <2>3. CASE Reacts(u, e)
    BY <2>2, <2>3 DEF Reacts, IInv, Single
  <2>4. CASE Unreacts(u, e)
    BY <2>2, <2>4 DEF Unreacts, IInv, Single
  <2>5. QED
    BY <2>1, <2>3, <2>4
<1>4. ASSUME NEW w \in Contacts \ lost'
      PROVE  Follows(w)'
  <2>1. w \in Users /\ w \notin lost /\ Follows(w) /\ (w \notin plural => \A a, b \in onItem[w] : a = b)
    BY <1>1 DEF IInv, Single, Users
  <2>2. CASE Undisturbed(w)
    BY <1>1, <2>1, <2>2, UndisturbedFollows
  <2>3. CASE Heard(w)' /\ Coming(w)'
    BY <2>3 DEF Follows, Told
  <2>4. QED
    BY <2>1, <2>2, <2>3, SimplexUserStep DEF Follows, Told
<1>5. QED
  BY <1>2, <1>3, <1>4 DEF IInv

(* The handler passes the head of eventsCh on.                              *)
LEMMA HandlerStep ==
    ASSUME TypeOK, Senders, HandleChatItemReaction
    PROVE  /\ Senders'
           /\ \E q \in RemoteItem : queue' = Append(queue, q)
           /\ \A w \in Users : /\ Told(w) => Told(w)'
                               /\ Coming(w)' \/ Waiting(w)' <=> Coming(w) \/ Waiting(w)
<1> DEFINE h == Head(events)
           u == Sender(h)
           q == [type |-> IF h.added THEN "reaction" ELSE "reactionRemove",
                 from |-> u, key |-> h.emoji]
<1>1. events \in Seq(Event) /\ events # << >> /\ events' = Tail(events)
  BY DEF HandleChatItemReaction, TypeOK
<1>2. /\ h \in Event
      /\ \A w, x : Latest(events', EventFrom, w, x) => Latest(events, EventFrom, w, x)
      /\ \A w : /\ Absent(events, EventFrom, w) =>
                      Absent(events', EventFrom, w) /\ EventFrom[h] # w
                /\ Absent(events', EventFrom, w) =>
                      \/ Absent(events, EventFrom, w) /\ EventFrom[h] # w
                      \/ EventFrom[h] = w /\ Latest(events, EventFrom, w, h)
  BY <1>1, LatestOfTail
<1>3. u \in Users /\ EventFrom[h] = u
  BY <1>2, WhoseItem
<1>4. q \in RemoteItem /\ q.key = h.emoji /\ (q.type = "reaction" <=> h.added)
  BY <1>2, <1>3 DEF Event, RemoteItem, Remote
<1>5. queue' = Append(queue, q) /\ queue \in Seq(MatrixItem \union RemoteItem)
  BY DEF HandleChatItemReaction, Senders
<1>6. QueueFrom[q] = u
  BY <1>4, WhoseItem
<1> HIDE DEF q
<1>7. /\ Senders'
      /\ \A w, x : Latest(queue', QueueFrom, w, x) =>
                      (x = q /\ u = w) \/ (u # w /\ Latest(queue, QueueFrom, w, x))
      /\ \A w : Absent(queue', QueueFrom, w) <=> Absent(queue, QueueFrom, w) /\ u # w
  <2>1. q \in MatrixItem \union RemoteItem
    BY <1>4
  <2>2. queue' \in Seq(MatrixItem \union RemoteItem)
    BY <1>5, <2>1
  <2>3. \A w, x :
           /\ Latest(Append(queue, q), QueueFrom, w, x) =>
                 \/ x = q /\ QueueFrom[q] = w
                 \/ QueueFrom[q] # w /\ Latest(queue, QueueFrom, w, x)
           /\ Absent(Append(queue, q), QueueFrom, w) <=>
                 Absent(queue, QueueFrom, w) /\ QueueFrom[q] # w
    BY <1>5, <2>1, LatestOfAppend
  <2>4. QED
    BY <1>5, <1>6, <2>2, <2>3 DEF Senders
<1>8. UNCHANGED <<onItem, plural>>
  BY DEF HandleChatItemReaction, historyVars
<1> HIDE DEF h, u
<1>9. ASSUME NEW w \in Users
      PROVE  /\ Told(w) => Told(w)'
             /\ Coming(w)' \/ Waiting(w)' <=> Coming(w) \/ Waiting(w)
  <2>1. CASE u = w
    <3>1. Coming(w) /\ Waiting(w)'
      BY <1>2, <1>3, <1>7, <2>1 DEF Coming, Waiting
    <3>2. ASSUME Told(w), ~Coming(w)', NEW x, Latest(queue', QueueFrom, w, x)
          PROVE  Agrees(w, x.type = "reaction", x.key)'
      <4>1. Latest(events, EventFrom, w, h) /\ x = q
        BY <1>2, <1>3, <1>7, <2>1, <3>2, <3>1 DEF Coming
      <4>2. Agrees(w, h.added, h.emoji)
        BY <3>2, <4>1 DEF Told, Heard
      <4>3. QED
        BY <1>4, <1>8, <4>1, <4>2 DEF Agrees
    <3>3. Told(w) => Heard(w)'
      BY <1>2, <1>8 DEF Told, Heard, Agrees
    <3>4. QED
      BY <3>1, <3>2, <3>3 DEF Told, Queued
  <2>2. CASE u # w
    <3>1. Undisturbed(w)
      BY <1>2, <1>3, <1>7, <1>8, <2>2 DEF Undisturbed, Coming, Waiting
    <3>2. QED
      BY <3>1, UndisturbedTold DEF Undisturbed
  <2>3. QED
    BY <2>1, <2>2
<1>10. QED
  BY <1>4, <1>5, <1>7, <1>9

LEMMA HandlerInv == ASSUME TypeOK, IInv, HandleChatItemReaction PROVE IInv'
<1>1. UNCHANGED <<onItem, known, row, shown, lost, early, plural>>
  BY DEF HandleChatItemReaction, portalVars, historyVars
<1>2. Senders'
  BY HandlerStep DEF IInv
<1>3. ASSUME NEW w \in Contacts \ lost
      PROVE  Follows(w)'
  <2>1. w \in Users /\ Follows(w)
    BY DEF IInv, Users
  <2>2. Told(w)' /\ (Coming(w)' \/ Waiting(w)' <=> Coming(w) \/ Waiting(w))
    BY <2>1, HandlerStep DEF IInv, Follows
  <2>3. Synced(w) => Synced(w)'
    BY <1>1 DEF Synced
  <2>4. QED
    BY <2>1, <2>2, <2>3 DEF Follows
<1>4. QED
  BY <1>1, <1>2, <1>3 DEF IInv, OneRow, Single

(* What the user does on Matrix is queued as nobody's.                      *)
LEMMA AppendMine ==
    ASSUME Senders, NEW e \in MatrixItem, queue' = Append(queue, e)
    PROVE  /\ Senders'
           /\ \A w \in Users :
                 /\ \A x : Latest(queue', QueueFrom, w, x) => Latest(queue, QueueFrom, w, x)
                 /\ Waiting(w)' <=> Waiting(w)
<1>1. e \in MatrixItem \union RemoteItem /\ \A w \in Users : QueueFrom[e] # w
  BY WhoseItem
<1>2. queue \in Seq(MatrixItem \union RemoteItem)
  BY DEF Senders
<1>3. queue' \in Seq(MatrixItem \union RemoteItem)
  BY <1>1, <1>2
<1>4. ASSUME NEW w \in Users, NEW x
      PROVE  /\ Latest(queue', QueueFrom, w, x) => Latest(queue, QueueFrom, w, x)
             /\ Waiting(w)' <=> Waiting(w)
  <2>1. /\ Latest(Append(queue, e), QueueFrom, w, x) =>
             \/ x = e /\ QueueFrom[e] = w
             \/ QueueFrom[e] # w /\ Latest(queue, QueueFrom, w, x)
        /\ Absent(Append(queue, e), QueueFrom, w) <=>
             Absent(queue, QueueFrom, w) /\ QueueFrom[e] # w
    BY <1>1, <1>2, LatestOfAppend
  <2>2. QED
    BY <1>1, <2>1 DEF Waiting
<1>5. QED
  BY <1>3, <1>4 DEF Senders

LEMMA MatrixUserStep == ASSUME TypeOK, IInv, MatrixUser PROVE IInv'
<1> USE DEF historyVars
<1>1. PICK k \in Keys : IReact(k) \/ IUnreact(k)
  BY DEF MatrixUser
<1>2. PICK e \in MatrixItem : queue' = Append(queue, e)
  BY <1>1 DEF IReact, IUnreact, MatrixItem
<1>3. /\ Senders'
      /\ \A w \in Users :
            /\ \A x : Latest(queue', QueueFrom, w, x) => Latest(queue, QueueFrom, w, x)
            /\ Waiting(w)' <=> Waiting(w)
  BY <1>2, AppendMine DEF IInv
<1>4. UNCHANGED <<onItem, events, known, row, lost, early, plural>>
  BY DEF MatrixUser
<1>5. \A w \in Contacts : shown'[w] = shown[w]
  <2>1. shown \in [Users -> SUBSET Keys] /\ me \in Users /\ me \notin Contacts
        /\ Contacts \subseteq Users
    BY ReactionsAssumption DEF ReactionsAssumption, TypeOK, Users
  <2>2. QED
    BY <1>1, <2>1 DEF IReact, IUnreact
<1>6. ASSUME NEW w \in Contacts \ lost
      PROVE  Follows(w)'
  <2>1. w \in Users
    BY DEF Users
  <2>2. Undisturbed(w)
    BY <1>3, <1>4, <2>1 DEF Undisturbed, Coming
  <2>3. QED
    BY <1>4, <1>5, <2>2, UndisturbedFollows DEF IInv
<1>7. QED
  BY <1>3, <1>4, <1>5, <1>6 DEF IInv, OneRow, Single

LEMMA HeadOfSenders ==
    ASSUME Senders, NEW type, Pop(type)
    PROVE  /\ Senders' /\ UNCHANGED <<events, known>>
           /\ Head(queue) \in MatrixItem \union RemoteItem /\ Head(queue).type = type
           /\ \A w, x : Latest(queue', QueueFrom, w, x) => Latest(queue, QueueFrom, w, x)
           /\ \A w : /\ ~Waiting(w) => ~Waiting(w)' /\ QueueFrom[Head(queue)] # w
                     /\ ~Waiting(w)' =>
                           \/ ~Waiting(w) /\ QueueFrom[Head(queue)] # w
                           \/ /\ QueueFrom[Head(queue)] = w
                              /\ Latest(queue, QueueFrom, w, Head(queue))
<1>1. queue \in Seq(MatrixItem \union RemoteItem) /\ queue # << >> /\ queue' = Tail(queue)
  BY DEF Senders, Pop
<1>2. Head(queue) \in MatrixItem \union RemoteItem /\ queue' \in Seq(MatrixItem \union RemoteItem)
  BY <1>1, HeadAndTail
<1>3. /\ \A w, x : Latest(queue', QueueFrom, w, x) => Latest(queue, QueueFrom, w, x)
      /\ \A w : /\ Absent(queue, QueueFrom, w) =>
                      Absent(queue', QueueFrom, w) /\ QueueFrom[Head(queue)] # w
                /\ Absent(queue', QueueFrom, w) =>
                      \/ Absent(queue, QueueFrom, w) /\ QueueFrom[Head(queue)] # w
                      \/ /\ QueueFrom[Head(queue)] = w
                         /\ Latest(queue, QueueFrom, w, Head(queue))
  BY <1>1, LatestOfTail
<1>4. QED
  BY <1>2, <1>3 DEF Senders, Pop, Waiting

LEMMA OwnStep ==
    ASSUME TypeOK, IInv, PortalMatrixReaction \/ PortalMatrixRedaction
    PROVE  IInv'
<1>1. PICK type \in {"matrixReaction", "matrixRedaction"} : Pop(type)
  BY DEF PortalMatrixReaction, PortalMatrixRedaction
<1>2. /\ Senders' /\ UNCHANGED <<events, known>>
      /\ Head(queue) \in MatrixItem \union RemoteItem /\ Head(queue).type = type
      /\ \A w, x : Latest(queue', QueueFrom, w, x) => Latest(queue, QueueFrom, w, x)
      /\ \A w : /\ ~Waiting(w) => ~Waiting(w)'
                /\ ~Waiting(w)' => ~Waiting(w) \/ QueueFrom[Head(queue)] = w
  BY <1>1, HeadOfSenders DEF IInv
<1>3. \A w \in Users : QueueFrom[Head(queue)] # w
  <2>1. Head(queue) \notin RemoteItem
    BY <1>2 DEF RemoteItem, Remote
  <2>2. QED
    BY <1>2, <2>1, WhoseItem
<1>4. /\ UNCHANGED <<lost, early>>
      /\ \A w \in Contacts : /\ onItem'[w] = onItem[w] /\ row'[w] = row[w]
                             /\ shown'[w] = shown[w] /\ (w \in plural' <=> w \in plural)
  BY MatrixReactionStep, MatrixRedactionStep
<1>5. ASSUME NEW w \in Contacts \ lost
      PROVE  Follows(w)'
  <2>1. w \in Users
    BY DEF Users
  <2>2. Undisturbed(w)
    BY <1>2, <1>3, <1>4, <2>1 DEF Undisturbed, Coming
  <2>3. QED
    BY <1>4, <2>2, UndisturbedFollows DEF IInv
<1>6. QED
  BY <1>2, <1>4, <1>5 DEF IInv, OneRow, Single

(* The portal handles the head of its queue: should it be its sender's last *)
(* and nothing be on its way in eventsCh, the room is now as it says.       *)
LEMMA RemoteTold ==
    ASSUME TypeOK, Senders, NEW type \in Remote, Pop(type), UNCHANGED <<onItem, plural>>
    PROVE  /\ Senders'
           /\ Head(queue) \in RemoteItem /\ Head(queue).type = type
           /\ \A w \in Users : /\ Told(w) => Told(w)'
                               /\ Coming(w)' <=> Coming(w)
                               /\ Waiting(w)' => Waiting(w)
                               /\ w # Head(queue).from => Undisturbed(w)
                               /\ w = Head(queue).from =>
                                     /\ Waiting(w)
                                     /\ Told(w) /\ ~Coming(w) /\ ~Waiting(w)' =>
                                           Agrees(w, type = "reaction", Head(queue).key)
<1>a. PICK h : h = Head(queue)
  OBVIOUS
<1> DEFINE u == h.from
<1>1. /\ Senders' /\ UNCHANGED <<events, known>>
      /\ h \in MatrixItem \union RemoteItem /\ h.type = type
      /\ \A w, x : Latest(queue', QueueFrom, w, x) => Latest(queue, QueueFrom, w, x)
      /\ \A w : /\ ~Waiting(w) => ~Waiting(w)' /\ QueueFrom[h] # w
                /\ ~Waiting(w)' =>
                      \/ ~Waiting(w) /\ QueueFrom[h] # w
                      \/ QueueFrom[h] = w /\ Latest(queue, QueueFrom, w, h)
  BY <1>a, HeadOfSenders
<1>2. h \in RemoteItem
  BY <1>1 DEF MatrixItem, Remote
<1>3. QueueFrom[h] = u /\ u \in Users
  BY <1>2, WhoseItem
<1>4. \A w \in Users : /\ Told(w) => Told(w)'
                       /\ Coming(w)' <=> Coming(w)
                       /\ Waiting(w)' => Waiting(w)
                       /\ w # u => Undisturbed(w)
  <2>1. \A w : (Coming(w)' <=> Coming(w)) /\ (Waiting(w)' => Waiting(w))
    BY <1>1 DEF Coming
  <2>2. ASSUME NEW w, Told(w)
        PROVE  Told(w)'
    BY <1>1, <2>1, <2>2 DEF Told, Heard, Queued, Agrees
  <2>3. ASSUME NEW w, w # u
        PROVE  Undisturbed(w)
    BY <1>1, <1>3, <2>1, <2>3 DEF Undisturbed
  <2>4. QED
    BY <2>1, <2>2, <2>3
<1>5. Waiting(u)
  BY <1>1, <1>3
<1>6. ASSUME Told(u), ~Coming(u), ~Waiting(u)'
      PROVE  Agrees(u, type = "reaction", h.key)
  <2>1. Latest(queue, QueueFrom, u, h)
    BY <1>1, <1>3, <1>5, <1>6
  <2>2. Queued(u)
    BY <1>6 DEF Told
  <2>3. QED
    BY <1>1, <2>1, <2>2 DEF Queued
<1>7. QED
  BY <1>a, <1>1, <1>2, <1>3, <1>4, <1>5, <1>6

LEMMA RemoteStep ==
    ASSUME TypeOK, IInv, PortalReaction \/ PortalReactionRemove
    PROVE  IInv'
<1>1. PICK type \in Remote : Pop(type) /\ Head(queue).type = type
  BY DEF PortalReaction, PortalReactionRemove, Pop, Remote
<1>2. UNCHANGED <<onItem, lost, plural, known>> /\ early \subseteq early'
  BY DEF PortalReaction, PortalReactionRemove, Pop, historyVars
<1>a. PICK u, e : u = Head(queue).from /\ e = Head(queue).key
  OBVIOUS
<1>3. /\ Senders' /\ u \in Users /\ e \in Keys \ {NoReaction}
      /\ \A w \in Users : /\ Told(w) => Told(w)'
                          /\ w # u => Undisturbed(w)
      /\ Told(u) /\ ~Coming(u)' /\ ~Waiting(u)' => Agrees(u, type = "reaction", e)
  <2>1. /\ Head(queue) \in RemoteItem /\ Senders'
        /\ \A w \in Users : /\ Told(w) => Told(w)'
                            /\ Coming(w)' <=> Coming(w)
                            /\ w # u => Undisturbed(w)
                            /\ w = u /\ Told(w) /\ ~Coming(w) /\ ~Waiting(w)' =>
                                  Agrees(w, type = "reaction", e)
    BY <1>a, <1>1, <1>2, RemoteTold DEF IInv
  <2>2. u \in Users /\ e \in Keys \ {NoReaction}
    BY <1>a, <2>1, EmojisAreKeys, ReactionsAssumption DEF ReactionsAssumption, RemoteItem
  <2>3. QED
    BY <2>1, <2>2
<1>4. /\ row \in [Users -> Keys \union {NoReaction}] /\ shown \in [Users -> SUBSET Keys]
      /\ Contacts \subseteq Users
  BY DEF TypeOK, Users
<1>5. /\ \A w \in Users \ {u} : row'[w] = row[w] /\ shown'[w] = shown[w]
      /\ u \in Contacts =>
            \/ type = "reaction" /\ known /\ row'[u] = e /\ shown'[u] = {e}
            \/ /\ type = "reaction" /\ ~known /\ u \in early'
               /\ row'[u] = NoReaction /\ shown'[u] = {}
            \/ type = "reactionRemove" /\ row'[u] = NoReaction /\ shown'[u] = {}
  <2>1. CASE PortalReaction
    <3>1. type = "reaction"
      BY <1>1, <2>1 DEF PortalReaction, Pop
    <3>2. CASE ~known
      <4>1. UNCHANGED <<row, shown>> /\ early' = early \union {u}
        BY <1>a, <2>1, <3>2 DEF PortalReaction
      <4>2. QED
        BY <3>1, <3>2, <4>1 DEF IInv, OneRow
    <3>3. CASE known /\ row[u] # e
      <4>1. /\ row' = [row EXCEPT ![u] = e]
            /\ shown' = [shown EXCEPT ![u] = (@ \ {row[u]}) \union {e}]
        BY <1>a, <2>1, <3>3 DEF PortalReaction
      <4>2. u \in Contacts => shown[u] \ {row[u]} = {}
        BY DEF IInv, OneRow
      <4>3. QED
        BY <1>3, <1>4, <3>1, <3>3, <4>1, <4>2
    <3>4. CASE known /\ row[u] = e
      <4>1. UNCHANGED <<row, shown>>
        BY <1>a, <2>1, <3>4 DEF PortalReaction
      <4>2. u \in Contacts => shown[u] = {e}
        BY <1>3, <3>4 DEF IInv, OneRow
      <4>3. QED
        BY <3>1, <3>4, <4>1, <4>2
    <3>5. QED
      BY <3>2, <3>3, <3>4
  <2>2. CASE PortalReactionRemove
    <3>1. type = "reactionRemove"
      BY <1>1, <2>2 DEF PortalReactionRemove, Pop
    <3>2. /\ row' = [row EXCEPT ![u] = NoReaction]
          /\ shown' = [shown EXCEPT ![u] = @ \ {row[u]}]
      BY <1>a, <2>2 DEF PortalReactionRemove
    <3>3. u \in Contacts => shown[u] \ {row[u]} = {}
      BY DEF IInv, OneRow
    <3>4. QED
      BY <1>3, <1>4, <3>1, <3>2, <3>3
  <2>3. QED
    BY <2>1, <2>2
<1>6. OneRow'
  BY <1>2, <1>3, <1>4, <1>5 DEF IInv, OneRow
<1>7. ASSUME NEW w \in Contacts \ lost
      PROVE  Follows(w)'
  <2>1. w \in Users /\ Follows(w)
    BY <1>4 DEF IInv
  <2>2. CASE w = u
    <3>1. Told(w)'
      BY <1>3, <2>1 DEF Follows
    <3>2. ASSUME ~Coming(w)', ~Waiting(w)'
          PROVE  Synced(w)'
      <4>1. Agrees(w, type = "reaction", e)
        BY <1>3, <2>1, <2>2, <3>2 DEF Follows
      <4>2. QED
        BY <1>2, <1>5, <2>2, <4>1 DEF Synced, Agrees
    <3>3. QED
      BY <3>1, <3>2 DEF Follows
  <2>3. CASE w # u
    <3>1. Undisturbed(w) /\ shown'[w] = shown[w]
      BY <1>3, <1>5, <2>1, <2>3
    <3>2. QED
      BY <1>2, <2>1, <3>1, UndisturbedFollows
  <2>4. QED
    BY <2>2, <2>3
<1>8. QED
  BY <1>2, <1>3, <1>6, <1>7 DEF IInv, Single

LEMMA IdleStep ==
    ASSUME IInv, UNCHANGED <<onItem, events, queue, row, shown, lost, early, plural>>,
           known => known'
    PROVE  IInv'
<1>1. Senders' /\ OneRow' /\ Single'
  BY DEF IInv, Senders, OneRow, Single
<1>2. ASSUME NEW w \in Contacts \ lost
      PROVE  Follows(w)'
  <2>1. Undisturbed(w)
    BY DEF Undisturbed, Coming, Waiting
  <2>2. QED
    BY <2>1, UndisturbedFollows DEF IInv
<1>3. QED
  BY <1>1, <1>2 DEF IInv

LEMMA NextInv == TypeOK /\ IInv /\ [Next]_vars => IInv'
<1> SUFFICES ASSUME TypeOK, IInv, [Next]_vars PROVE IInv'
  OBVIOUS
<1> USE DEF portalVars, historyVars
<1>1. CASE Connection
  BY <1>1, IdleStep DEF Connection
<1>2. CASE MessagePosted
  BY <1>2, IdleStep DEF MessagePosted
<1>3. CASE UNCHANGED vars
  BY <1>3, IdleStep DEF vars
<1>4. QED
  BY <1>1, <1>2, <1>3, ContactStep, HandlerInv, MatrixUserStep, OwnStep, RemoteStep
     DEF Next, Portal

LEMMA Invariant == Spec => [](TypeOK /\ IInv)
BY TypeOfInit, TypeOfNext, InitInv, NextInv, PTL DEF Spec

LEMMA QuietContacts ==
    ASSUME IInv, Quiet, NEW u \in Contacts \ lost
    PROVE  Synced(u)
<1>1. ~Coming(u) /\ ~Waiting(u)
  BY DEF Quiet, Coming, Waiting, Absent
<1>2. QED
  BY <1>1 DEF IInv, Follows

(* A room at rest shows no reaction that its sender does not have: one row  *)
(* per sender never keeps alive what was taken back.                        *)
THEOREM NoPhantoms == Spec => []NoPhantomReactions
<1>1. IInv => NoPhantomReactions
  BY QuietContacts DEF NoPhantomReactions, Synced
<1>2. QED
  BY <1>1, Invariant, PTL

(* A room at rest shows the reaction of every sender who had one at a time. *)
THEOREM ReactionsGetThere == Spec => []ReactionsArrive
<1>1. IInv => ReactionsArrive
  BY QuietContacts DEF ReactionsArrive, Synced
<1>2. QED
  BY <1>1, Invariant, PTL
-----------------------------------------------------------------------------
(* The user's own reactions.  What the portal's queue says last of a key    *)
(* from Matrix stands for what the room shows of it, and else what the row  *)
(* says, if simplex-chat did not refuse its removal.                        *)

Mine(e, k) == e.type \in {"matrixReaction", "matrixRedaction"} /\ e.key = k

Unsaid(s, k) == \A j \in 1 .. Len(s) : ~Mine(s[j], k)

SaidLast(s, k) ==
    \E i \in 1 .. Len(s) : /\ Mine(s[i], k) /\ s[i].type = "matrixReaction"
                           /\ \A j \in i + 1 .. Len(s) : ~Mine(s[j], k)

Stands(s, r, k) == SaidLast(s, k) \/ (Unsaid(s, k) /\ r = k)

Kept == IF row[me] \in refused THEN NoReaction ELSE row[me]

(* What MyReactionsArrive leaves out.                                       *)
Spoiled == failed \/ crossed \/ me \in lost \union early \union plural

(* One side at a time has the word: nothing from SimpleX is on its way      *)
(* while something from Matrix is.  With nothing from SimpleX on its way,   *)
(* SimpleX has the reaction of the row, and with something it has what was  *)
(* said last; the room shows the supported keys that stand.                 *)
InStep ==
    /\ ToSimplex => ~Coming(me) /\ ~Waiting(me)
    /\ Told(me)
    /\ ~Coming(me) /\ ~Waiting(me) => onItem[me] = Normalized({row[me]})
    /\ \A a, b \in onItem[me] : a = b
    /\ \A k \in DOMAIN simplexSupportedEmojis : k \in shown[me] <=> Stands(queue, Kept, k)
    /\ \A k \in refused \intersect DOMAIN simplexSupportedEmojis : k = row[me]

Mirrored == /\ refused \intersect Emojis = {}
            /\ ~Spoiled => InStep

(* What is appended is said last of its key, and nothing of another.        *)
LEMMA StandsOfAppend ==
    ASSUME NEW S, NEW s \in Seq(S), NEW e \in S, NEW r, NEW k
    PROVE  Stands(Append(s, e), r, k) <=> IF Mine(e, k) THEN e.type = "matrixReaction"
                                          ELSE Stands(s, r, k)
<1> DEFINE t == Append(s, e)
<1>1. /\ Len(s) \in Nat /\ Len(t) = Len(s) + 1 /\ t[Len(s) + 1] = e
      /\ \A i \in 1 .. Len(s) : t[i] = s[i]
  OBVIOUS
<1> HIDE DEF t
<1>2. CASE Mine(e, k)
  <2>1. ~Unsaid(t, k)
    BY <1>1, <1>2 DEF Unsaid
  <2>2. SaidLast(t, k) => e.type = "matrixReaction"
    <3>1. ASSUME NEW i \in 1 .. Len(t), \A j \in i + 1 .. Len(t) : ~Mine(t[j], k)
          PROVE  t[i] = e
      BY <1>1, <1>2, <3>1
    <3>2. QED
      BY <3>1 DEF SaidLast
  <2>3. e.type = "matrixReaction" => SaidLast(t, k)
    <3>1. Len(s) + 1 \in 1 .. Len(t) /\ \A j \in Len(s) + 1 + 1 .. Len(t) : ~Mine(t[j], k)
      BY <1>1
    <3>2. QED
      BY <1>1, <1>2, <3>1 DEF SaidLast
  <2>4. QED
    BY <1>2, <2>1, <2>2, <2>3 DEF Stands, t
<1>3. CASE ~Mine(e, k)
  <2>1. Unsaid(t, k) <=> Unsaid(s, k)
    BY <1>1, <1>3 DEF Unsaid
  <2>2. ASSUME SaidLast(t, k) PROVE SaidLast(s, k)
    <3>1. PICK i \in 1 .. Len(t) : /\ Mine(t[i], k) /\ t[i].type = "matrixReaction"
                                   /\ \A j \in i + 1 .. Len(t) : ~Mine(t[j], k)
      BY <2>2 DEF SaidLast
    <3>2. i \in 1 .. Len(s)
      BY <1>1, <1>3, <3>1
    <3>3. \A j \in i + 1 .. Len(s) : ~Mine(s[j], k)
      BY <1>1, <3>1, <3>2
    <3>4. QED
      BY <1>1, <3>1, <3>2, <3>3 DEF SaidLast
  <2>3. ASSUME SaidLast(s, k) PROVE SaidLast(t, k)
    <3>1. PICK i \in 1 .. Len(s) : /\ Mine(s[i], k) /\ s[i].type = "matrixReaction"
                                   /\ \A j \in i + 1 .. Len(s) : ~Mine(s[j], k)
      BY <2>3 DEF SaidLast
    <3>2. \A j \in i + 1 .. Len(t) : ~Mine(t[j], k)
      BY <1>1, <1>3, <3>1
    <3>3. i \in 1 .. Len(t)
      BY <1>1
    <3>4. QED
      BY <1>1, <3>1, <3>2, <3>3 DEF SaidLast
  <2>4. QED
    BY <1>3, <2>1, <2>2, <2>3 DEF Stands, t
<1>4. QED
  BY <1>2, <1>3

(* Taking the head leaves what stands, if the row comes to say what it did. *)
LEMMA StandsOfTail ==
    ASSUME NEW S, NEW s \in Seq(S), s # << >>, NEW r, NEW q, NEW k,
           q = k <=> IF Mine(Head(s), k) THEN Head(s).type = "matrixReaction" ELSE r = k
    PROVE  Stands(Tail(s), q, k) <=> Stands(s, r, k)
<1> DEFINE t == Tail(s)
<1>1. /\ Len(s) \in Nat \ {0} /\ Len(t) = Len(s) - 1 /\ Head(s) = s[1]
      /\ \A i \in 1 .. Len(t) : t[i] = s[i + 1]
  OBVIOUS
<1> HIDE DEF t
<1>2. \A j \in 2 .. Len(s) : j - 1 \in 1 .. Len(t) /\ s[j] = t[j - 1]
  BY <1>1
<1>3. Unsaid(s, k) <=> ~Mine(s[1], k) /\ Unsaid(t, k)
  <2>1. Unsaid(s, k) => ~Mine(s[1], k) /\ Unsaid(t, k)
    BY <1>1 DEF Unsaid
  <2>2. ASSUME ~Mine(s[1], k), Unsaid(t, k) PROVE Unsaid(s, k)
    <3>1. \A j \in 1 .. Len(s) : j = 1 \/ j \in 2 .. Len(s)
      BY <1>1
    <3>2. QED
      BY <1>2, <2>2, <3>1 DEF Unsaid
  <2>3. QED
    BY <2>1, <2>2
<1>4. ASSUME SaidLast(t, k) PROVE SaidLast(s, k)
  <2>1. PICK i \in 1 .. Len(t) : /\ Mine(t[i], k) /\ t[i].type = "matrixReaction"
                                 /\ \A j \in i + 1 .. Len(t) : ~Mine(t[j], k)
    BY <1>4 DEF SaidLast
  <2>2. i + 1 \in 1 .. Len(s) /\ s[i + 1] = t[i]
    BY <1>1
  <2>3. ASSUME NEW j \in i + 1 + 1 .. Len(s)
        PROVE  ~Mine(s[j], k)
    <3>1. j \in 2 .. Len(s) /\ j - 1 \in i + 1 .. Len(t)
      BY <1>1
    <3>2. QED
      BY <1>2, <2>1, <3>1
  <2>4. QED
    BY <2>1, <2>2, <2>3 DEF SaidLast
<1>5. ASSUME SaidLast(s, k)
      PROVE  \/ SaidLast(t, k)
             \/ Unsaid(t, k) /\ Mine(s[1], k) /\ s[1].type = "matrixReaction"
  <2>1. PICK i \in 1 .. Len(s) : /\ Mine(s[i], k) /\ s[i].type = "matrixReaction"
                                 /\ \A j \in i + 1 .. Len(s) : ~Mine(s[j], k)
    BY <1>5 DEF SaidLast
  <2>2. \A j \in i .. Len(t) : ~Mine(t[j], k)
    BY <1>1, <2>1
  <2>3. CASE i = 1
    BY <2>1, <2>2, <2>3 DEF Unsaid
  <2>4. CASE i # 1
    <3>1. i - 1 \in 1 .. Len(t) /\ t[i - 1] = s[i] /\ (i - 1) + 1 = i
      BY <1>1, <2>4
    <3>2. QED
      BY <2>1, <2>2, <3>1 DEF SaidLast
  <2>5. QED
    BY <2>3, <2>4
<1>6. ASSUME Unsaid(t, k), Mine(s[1], k), s[1].type = "matrixReaction"
      PROVE  SaidLast(s, k)
  <2>1. \A j \in 1 + 1 .. Len(s) : ~Mine(s[j], k)
    BY <1>2, <1>6 DEF Unsaid
  <2>2. QED
    BY <1>1, <1>6, <2>1 DEF SaidLast
<1>7. QED
  BY <1>1, <1>3, <1>4, <1>5, <1>6 DEF Stands, t

LEMMA NormalizedOne ==
    \A k : Normalized({k}) = IF k \in DOMAIN simplexSupportedEmojis
                             THEN {simplexSupportedEmojis[k]} ELSE {}
BY DEF Normalized

LEMMA MeAndTypes ==
    ASSUME TypeOK
    PROVE  /\ me \in Users /\ me \notin Contacts
           /\ NoReaction \notin Keys /\ DOMAIN simplexSupportedEmojis \subseteq Keys
           /\ onItem \in [Users -> SUBSET Emojis] /\ shown \in [Users -> SUBSET Keys]
           /\ row \in [Users -> Keys \union {NoReaction}]
           /\ refused \subseteq Keys
BY ReactionsAssumption DEF ReactionsAssumption, TypeOK, Users

LEMMA MirroredInit == Init => Mirrored
<1> SUFFICES ASSUME Init PROVE Mirrored
  OBVIOUS
<1>1. me \in Users /\ NoReaction \notin DOMAIN simplexSupportedEmojis
  BY ReactionsAssumption DEF ReactionsAssumption, Users
<1>2. /\ onItem[me] = {} /\ row[me] = NoReaction /\ shown[me] = {}
      /\ queue = << >> /\ events = << >> /\ refused = {}
  BY <1>1 DEF Init
<1>3. Normalized({NoReaction}) = {}
  BY <1>1, NormalizedOne
<1>4. \A F, u, x : ~Latest(<< >>, F, u, x)
  BY DEF Latest
<1>5. Told(me) /\ ~ToSimplex
  BY <1>2, <1>4 DEF Told, Heard, Queued, ToSimplex
<1>6. \A k : ~SaidLast(queue, k)
  BY <1>2 DEF SaidLast
<1>7. QED
  BY <1>1, <1>2, <1>3, <1>5, <1>6 DEF Mirrored, InStep, Stands, Kept

(* What is on its way from Matrix: what one step does to it.                *)
LEMMA ToSimplexOfAppend ==
    ASSUME Senders, NEW e \in MatrixItem \union RemoteItem, queue' = Append(queue, e)
    PROVE  ToSimplex' <=> ToSimplex \/ e \in MatrixItem
<1>1. queue \in Seq(MatrixItem \union RemoteItem)
  BY DEF Senders
<1>2. /\ Len(queue) \in Nat /\ Len(queue') = Len(queue) + 1 /\ queue'[Len(queue) + 1] = e
      /\ \A i \in 1 .. Len(queue) : queue'[i] = queue[i]
  BY <1>1
<1>3. e.type \in {"matrixReaction", "matrixRedaction"} <=> e \in MatrixItem
  BY DEF MatrixItem, RemoteItem, Remote
<1>4. \A i \in 1 .. Len(queue') : i \in 1 .. Len(queue) \/ i = Len(queue) + 1
  BY <1>2
<1>5. Len(queue) + 1 \in 1 .. Len(queue') /\ 1 .. Len(queue) \subseteq 1 .. Len(queue')
  BY <1>2
<1>6. ToSimplex' => ToSimplex \/ e \in MatrixItem
  BY <1>2, <1>3, <1>4 DEF ToSimplex
<1>7. ToSimplex => ToSimplex'
  BY <1>2, <1>5 DEF ToSimplex
<1>8. e \in MatrixItem => ToSimplex'
  BY <1>2, <1>3, <1>5 DEF ToSimplex
<1>9. QED
  BY <1>6, <1>7, <1>8

LEMMA ToSimplexOfTail ==
    ASSUME Senders, queue # << >>, queue' = Tail(queue)
    PROVE  /\ ToSimplex' => ToSimplex
           /\ Head(queue) \in MatrixItem => ToSimplex
<1>1. queue \in Seq(MatrixItem \union RemoteItem)
  BY DEF Senders
<1>2. /\ Len(queue) \in Nat \ {0} /\ Len(queue') = Len(queue) - 1 /\ Head(queue) = queue[1]
      /\ \A i \in 1 .. Len(queue') : queue'[i] = queue[i + 1]
  BY <1>1
<1>3. 1 \in 1 .. Len(queue) /\ \A i \in 1 .. Len(queue') : i + 1 \in 1 .. Len(queue)
  BY <1>2
<1>4. ToSimplex' => ToSimplex
  BY <1>2, <1>3 DEF ToSimplex
<1>5. Head(queue) \in MatrixItem => ToSimplex
  BY <1>2, <1>3 DEF ToSimplex, MatrixItem
<1>6. QED
  BY <1>4, <1>5

(* Without anything from Matrix on its way the room shows what is kept.     *)
LEMMA StandsOfNone ==
    ASSUME ~ToSimplex, NEW r, NEW k
    PROVE  Stands(queue, r, k) <=> r = k
<1>1. ~SaidLast(queue, k) /\ Unsaid(queue, k)
  BY DEF ToSimplex, SaidLast, Unsaid, Mine
<1>2. QED
  BY <1>1 DEF Stands

LEMMA NothingFromSimplex ==
    ASSUME TypeOK, Senders, ~ToMatrix
    PROVE  ~Coming(me) /\ ~Waiting(me)
<1>1. events \in Seq(Event) /\ queue \in Seq(MatrixItem \union RemoteItem)
  BY DEF TypeOK, Senders
<1>2. ASSUME NEW i \in 1 .. Len(events)
      PROVE  EventFrom[events[i]] # me
  <2>1. events[i] \in Event
    BY <1>1
  <2>2. QED
    BY <2>1, WhoseItem DEF ToMatrix
<1>3. ASSUME NEW i \in 1 .. Len(queue)
      PROVE  QueueFrom[queue[i]] # me
  <2>1. CASE queue[i] \in MatrixItem
    BY <2>1, WhoseItem DEF Users
  <2>2. CASE queue[i] \in RemoteItem
    <3>1. queue[i].type \in {"reaction", "reactionRemove"} /\ QueueFrom[queue[i]] = queue[i].from
      BY <2>2, WhoseItem DEF RemoteItem, Remote
    <3>2. QED
      BY <3>1 DEF ToMatrix
  <2>3. queue[i] \in MatrixItem \union RemoteItem
    BY <1>1
  <2>4. QED
    BY <2>1, <2>2, <2>3
<1>4. QED
  BY <1>2, <1>3 DEF Coming, Waiting, Absent

(* Nothing that MyReactionsArrive leaves out is ever undone.                *)
LEMMA SpoiledForGood == [Next]_vars /\ Spoiled => Spoiled'
<1> SUFFICES ASSUME [Next]_vars, Spoiled PROVE Spoiled'
  OBVIOUS
<1> USE DEF historyVars
<1>1. CASE SimplexUser
  <2>1. PICK u \in Users, e \in Emojis :
            (Reacts(u, e) \/ Unreacts(u, e)) /\ crossed' = (crossed \/ (u = me /\ ToSimplex))
    BY <1>1 DEF SimplexUser
  <2>2. lost \subseteq lost' /\ plural \subseteq plural'
    BY <2>1 DEF Reacts, Unreacts, Tell, Emit
  <2>3. UNCHANGED <<early, failed>>
    BY <1>1 DEF SimplexUser
  <2>4. QED
    BY <2>1, <2>2, <2>3 DEF Spoiled
<1>2. CASE Connection
  BY <1>2 DEF Connection, Spoiled
<1>3. CASE HandleChatItemReaction
  BY <1>3 DEF HandleChatItemReaction, Spoiled
<1>4. CASE MatrixUser
  BY <1>4 DEF MatrixUser, Spoiled
<1>5. CASE MessagePosted
  BY <1>5 DEF MessagePosted, Spoiled
<1>6. CASE PortalMatrixReaction
  <2>1. UNCHANGED <<lost, early, crossed>> /\ (failed => failed') /\ plural \subseteq plural'
    BY <1>6 DEF PortalMatrixReaction, HandleMatrixReaction, ReactToChatItem
  <2>2. QED
    BY <2>1 DEF Spoiled
<1>7. CASE PortalMatrixRedaction
  <2>1. UNCHANGED <<lost, early, crossed, plural>> /\ (failed => failed')
    BY <1>7 DEF PortalMatrixRedaction, HandleMatrixReactionRemove, ReactToChatItem
  <2>2. QED
    BY <2>1 DEF Spoiled
<1>8. CASE PortalReaction
  BY <1>8 DEF PortalReaction, Spoiled
<1>9. CASE PortalReactionRemove
  BY <1>9 DEF PortalReactionRemove, Spoiled
<1>10. CASE UNCHANGED vars
  BY <1>10 DEF vars, Spoiled
<1>11. QED
  BY <1>1, <1>2, <1>3, <1>4, <1>5, <1>6, <1>7, <1>8, <1>9, <1>10 DEF Next, Portal

(* What others do leaves the user's own reactions as they are.              *)
LEMMA InStepUntouched ==
    ASSUME InStep, Undisturbed(me), row'[me] = row[me], shown'[me] = shown[me],
           refused' = refused, ToSimplex' => ToSimplex,
           \A k : Stands(queue', Kept, k) <=> Stands(queue, Kept, k)
    PROVE  InStep'
<1>1. Kept' = Kept
  BY DEF Kept
<1>2. Told(me)'
  BY UndisturbedTold DEF InStep
<1>3. \A k : Stands(queue', Kept', k) <=> Stands(queue, Kept, k)
  BY <1>1
<1>4. /\ ToSimplex' => ~Coming(me)' /\ ~Waiting(me)'
      /\ ~Coming(me)' /\ ~Waiting(me)' => onItem'[me] = Normalized({row'[me]})
  BY DEF InStep, Undisturbed
<1>5. \A a, b \in onItem'[me] : a = b
  BY DEF InStep, Undisturbed
<1>6. \A k \in DOMAIN simplexSupportedEmojis : k \in shown'[me] <=> Stands(queue', Kept', k)
  BY <1>3 DEF InStep
<1>7. \A k \in refused' \intersect DOMAIN simplexSupportedEmojis : k = row'[me]
  BY DEF InStep
<1>8. QED
  BY <1>2, <1>4, <1>5, <1>6, <1>7 DEF InStep, Normalized

(* The user acts on SimpleX: unless an act in the room is on its way, the   *)
(* event is all there is.                                                   *)
LEMMA InStepSimplexUser ==
    ASSUME TypeOK, InStep, ~Spoiled, ~Spoiled', SimplexUser
    PROVE  InStep'
<1>1. UNCHANGED <<queue, row, shown, refused>>
  BY DEF SimplexUser, portalVars
<1>2. /\ ~crossed' /\ me \notin lost' /\ me \notin plural /\ me \notin plural' /\ me \in Users
      /\ \A a, b \in onItem[me] : a = b
  BY DEF Spoiled, InStep, Users
<1>3. /\ ToSimplex' <=> ToSimplex
      /\ \A k : Stands(queue', Kept, k) <=> Stands(queue, Kept, k)
  BY <1>1 DEF ToSimplex
<1>4. CASE Undisturbed(me)
  BY <1>1, <1>3, <1>4, InStepUntouched
<1>5. CASE /\ Heard(me)' /\ Coming(me)'
           /\ \A a, b \in onItem'[me] : a = b
           /\ crossed' <=> crossed \/ ToSimplex
  <2>1. ~ToSimplex' /\ Told(me)'
    BY <1>2, <1>3, <1>5 DEF Told
  <2>2. \A k \in DOMAIN simplexSupportedEmojis : k \in shown'[me] <=> Stands(queue', Kept', k)
    BY <1>1 DEF InStep, Kept
  <2>3. \A k \in refused' \intersect DOMAIN simplexSupportedEmojis : k = row'[me]
    BY <1>1 DEF InStep
  <2>4. QED
    BY <1>5, <2>1, <2>2, <2>3 DEF InStep
<1>6. QED
  BY <1>2, <1>4, <1>5, SimplexUserStep

(* The handler only moves what is on its way.                               *)
LEMMA InStepHandler ==
    ASSUME TypeOK, Senders, InStep, HandleChatItemReaction
    PROVE  InStep'
<1>1. UNCHANGED <<onItem, row, shown, plural, refused>> /\ me \in Users
  BY DEF HandleChatItemReaction, portalVars, historyVars, Users
<1>2. PICK q \in RemoteItem : queue' = Append(queue, q)
  BY HandlerStep
<1>3. Told(me)' /\ (Coming(me)' \/ Waiting(me)' <=> Coming(me) \/ Waiting(me))
  BY <1>1, HandlerStep DEF InStep
<1>4. q \notin MatrixItem /\ \A k : ~Mine(q, k)
  BY DEF RemoteItem, MatrixItem, Remote, Mine
<1>5. ToSimplex' <=> ToSimplex
  BY <1>2, <1>4, ToSimplexOfAppend
<1>6. \A k : Stands(queue', Kept', k) <=> Stands(queue, Kept, k)
  <2>1. queue \in Seq(MatrixItem \union RemoteItem) /\ q \in MatrixItem \union RemoteItem
    BY DEF Senders
  <2>2. \A k : Stands(Append(queue, q), Kept, k) <=> Stands(queue, Kept, k)
    BY <1>4, <2>1, StandsOfAppend
  <2>3. QED
    BY <1>1, <1>2, <2>2 DEF Kept
<1>7. \A k \in DOMAIN simplexSupportedEmojis : k \in shown'[me] <=> Stands(queue', Kept', k)
  BY <1>1, <1>6 DEF InStep
<1>8. ~Coming(me)' /\ ~Waiting(me)' => onItem'[me] = Normalized({row'[me]})
  BY <1>1, <1>3 DEF InStep, Normalized
<1>9. /\ \A a, b \in onItem'[me] : a = b
      /\ \A k \in refused' \intersect DOMAIN simplexSupportedEmojis : k = row'[me]
      /\ ToSimplex' => ~Coming(me)' /\ ~Waiting(me)'
  BY <1>1, <1>3, <1>5 DEF InStep
<1>10. QED
  BY <1>3, <1>7, <1>8, <1>9 DEF InStep

(* The user acts in the room: unless an act on SimpleX is on its way,       *)
(* SimpleX has the row's reaction, and the queue says the new one last.     *)
LEMMA InStepMatrixUser ==
    ASSUME TypeOK, Senders, InStep, ~Spoiled', MatrixUser
    PROVE  InStep'
<1>1. PICK c \in Keys : IReact(c) \/ IUnreact(c)
  BY DEF MatrixUser
<1>2. PICK b \in BOOLEAN : (b => IReact(c)) /\ (~b => IUnreact(c))
  BY <1>1
<1> DEFINE e == [type |-> IF b THEN "matrixReaction" ELSE "matrixRedaction",
                 from |-> me, key |-> c]
<1>3. UNCHANGED <<onItem, events, row, plural, refused>>
  BY DEF MatrixUser
<1>4. ~Coming(me) /\ ~Waiting(me)
  <2>1. ~ToMatrix
    BY DEF MatrixUser, Spoiled
  <2>2. QED
    BY <2>1, NothingFromSimplex
<1>5. queue' = Append(queue, e) /\ e \in MatrixItem
  BY <1>2 DEF IReact, IUnreact, MatrixItem
<1>6. \A k : /\ Mine(e, k) <=> k = c
             /\ e.type = "matrixReaction" <=> b
  BY DEF Mine
<1>7. \A k : k \in shown'[me] <=> IF k = c THEN b ELSE k \in shown[me]
  <2>1. me \in Users /\ shown \in [Users -> SUBSET Keys]
    BY MeAndTypes
  <2>2. CASE b
    <3>1. shown' = [shown EXCEPT ![me] = @ \union {c}]
      BY <1>2, <2>2 DEF IReact
    <3>2. QED
      BY <2>1, <2>2, <3>1
  <2>3. CASE ~b
    <3>1. shown' = [shown EXCEPT ![me] = @ \ {c}]
      BY <1>2, <2>3 DEF IUnreact
    <3>2. QED
      BY <2>1, <2>3, <3>1
  <2>4. QED
    BY <2>2, <2>3
<1> HIDE DEF e
<1>8. \A k : Stands(queue', Kept, k) <=> IF k = c THEN b ELSE Stands(queue, Kept, k)
  <2>1. e \in MatrixItem \union RemoteItem /\ queue \in Seq(MatrixItem \union RemoteItem)
    BY <1>5 DEF Senders
  <2>2. QED
    BY <1>5, <1>6, <2>1, StandsOfAppend
<1>9. Kept' = Kept
  BY <1>3 DEF Kept
<1>10. \A k \in DOMAIN simplexSupportedEmojis : k \in shown'[me] <=> Stands(queue', Kept', k)
  BY <1>7, <1>8, <1>9 DEF InStep
<1>11. ~Coming(me)' /\ ~Waiting(me)'
  BY <1>3, <1>4, <1>5, AppendMine DEF Coming, Users
<1>12. Told(me)'
  <2>1. \A x : /\ ~Latest(events', EventFrom, me, x)
               /\ ~Latest(queue', QueueFrom, me, x)
    BY <1>11 DEF Coming, Waiting, Absent, Latest
  <2>2. QED
    BY <2>1 DEF Told, Heard, Queued
<1>13. onItem'[me] = Normalized({row'[me]})
  BY <1>3, <1>4 DEF InStep, Normalized
<1>14. /\ \A x, y \in onItem'[me] : x = y
       /\ \A k \in refused' \intersect DOMAIN simplexSupportedEmojis : k = row'[me]
  BY <1>3 DEF InStep
<1>15. QED
  BY <1>10, <1>11, <1>12, <1>13, <1>14 DEF InStep

(* The portal handles what the user did in the room: nothing from SimpleX   *)
(* is on its way.                                                           *)
LEMMA OwnHead ==
    ASSUME TypeOK, Senders, InStep, NEW type \in {"matrixReaction", "matrixRedaction"}, Pop(type)
    PROVE  /\ UNCHANGED events
           /\ ~Coming(me) /\ ~Waiting(me)
           /\ onItem[me] = Normalized({row[me]})
           /\ ToSimplex' => ~Coming(me)' /\ ~Waiting(me)'
           /\ Told(me)'
           /\ Head(queue).key \in Keys
           /\ \A k : Mine(Head(queue), k) <=> k = Head(queue).key
           /\ \A q, k : (q = k <=> IF k = Head(queue).key THEN type = "matrixReaction"
                                                          ELSE Kept = k) =>
                 (Stands(queue', q, k) <=> Stands(queue, Kept, k))
<1>1. PICK h : h = Head(queue)
  OBVIOUS
<1>2. /\ queue \in Seq(MatrixItem \union RemoteItem) /\ queue # << >> /\ queue' = Tail(queue)
      /\ h \in MatrixItem \union RemoteItem /\ h.type = type /\ UNCHANGED events
  BY <1>1, HeadOfSenders DEF Senders, Pop
<1>3. h \in MatrixItem /\ h.key \in Keys /\ \A k : Mine(h, k) <=> k = h.key
  BY <1>2 DEF MatrixItem, RemoteItem, Remote, Mine
<1>4. ~Coming(me) /\ ~Waiting(me)
  BY <1>1, <1>2, <1>3, ToSimplexOfTail DEF InStep
<1>5. ~Coming(me)' /\ ~Waiting(me)'
  <2>1. ~Waiting(me)'
    BY <1>4, HeadOfSenders
  <2>2. QED
    BY <1>2, <1>4, <2>1 DEF Coming
<1>6. Told(me)'
  <2>1. \A x : /\ ~Latest(events', EventFrom, me, x)
               /\ ~Latest(queue', QueueFrom, me, x)
    BY <1>5 DEF Coming, Waiting, Absent, Latest
  <2>2. QED
    BY <2>1 DEF Told, Heard, Queued
<1>7. ASSUME NEW q, NEW k, q = k <=> IF k = h.key THEN type = "matrixReaction" ELSE Kept = k
      PROVE  Stands(queue', q, k) <=> Stands(queue, Kept, k)
  <2>1. q = k <=> IF Mine(Head(queue), k) THEN Head(queue).type = "matrixReaction" ELSE Kept = k
    BY <1>1, <1>2, <1>3, <1>7
  <2>2. QED
    BY <1>2, <2>1, StandsOfTail
<1>8. onItem[me] = Normalized({row[me]})
  BY <1>4 DEF InStep
<1>9. QED
  BY <1>1, <1>2, <1>3, <1>4, <1>5, <1>6, <1>7, <1>8

(* A key that SimpleX has is never refused, and is said to be there.        *)
LEMMA InStepMatrixReaction ==
    ASSUME TypeOK, Senders, InStep, ~Spoiled', PortalMatrixReaction
    PROVE  InStep'
<1> DEFINE Supported == DOMAIN simplexSupportedEmojis
<1>1. PICK c : c = Head(queue).key
  OBVIOUS
<1>2. /\ UNCHANGED events
      /\ onItem[me] = Normalized({row[me]})
      /\ ToSimplex' => ~Coming(me)' /\ ~Waiting(me)'
      /\ Told(me)' /\ c \in Keys
      /\ \A q, k : (q = k <=> k = c \/ Kept = k) =>
                      (Stands(queue', q, k) <=> Stands(queue, Kept, k))
  <2>1. Pop("matrixReaction")
    BY DEF PortalMatrixReaction
  <2>2. \A q, k : (q = k <=> k = c \/ Kept = k) =>
                     (q = k <=> IF k = c THEN "matrixReaction" = "matrixReaction" ELSE Kept = k)
    OBVIOUS
  <2>3. QED
    BY <1>1, <2>1, <2>2, OwnHead
<1>3. /\ me \in Users /\ NoReaction \notin Keys /\ Supported \subseteq Keys
      /\ onItem \in [Users -> SUBSET Emojis] /\ row \in [Users -> Keys \union {NoReaction}]
      /\ shown \in [Users -> SUBSET Keys]
  BY MeAndTypes
<1>4. refused' = refused \ {c}
  BY <1>1 DEF PortalMatrixReaction
<1>5. /\ row'[me] = c /\ onItem'[me] = Normalized({c})
      /\ \A k \in Supported : k \in shown'[me] <=> k \in shown[me]
      /\ \A k \in Supported \ {c} : k # row[me]
  <2>1. CASE row[me] = c
    BY <1>1, <1>2, <2>1 DEF PortalMatrixReaction
  <2>2. CASE row[me] # c
    <3>1. PICK answered \in {"ok", "refused", "failed"} :
              /\ HandleMatrixReaction(c, answered)
              /\ row' = IF answered = "ok" THEN [row EXCEPT ![me] = c] ELSE row
      BY <1>1, <2>2 DEF PortalMatrixReaction
    <3>2. /\ shown' = [shown EXCEPT ![me] = @ \ {row[me]}]
          /\ plural' = IF row[me] \in Supported THEN plural \union {me} ELSE plural
      BY <1>1, <2>2 DEF PortalMatrixReaction
    <3>3. row[me] \notin Supported
      BY <3>2 DEF Spoiled
    <3>4. /\ answered = "ok"
          /\ onItem' = IF c \in Supported
                       THEN [onItem EXCEPT ![me] = @ \union {simplexSupportedEmojis[c]}]
                       ELSE onItem
      <4>1. CASE c \in Supported
        <5>1. ReactToChatItem(simplexSupportedEmojis[c], TRUE, answered) /\ ~failed'
          BY <3>1, <4>1 DEF HandleMatrixReaction, Spoiled
        <5>2. simplexSupportedEmojis[c] \in Emojis
          BY <4>1, EmojisAreKeys
        <5>3. QED
          BY <4>1, <5>1, <5>2 DEF ReactToChatItem
      <4>2. CASE c \notin Supported
        BY <3>1, <4>2 DEF HandleMatrixReaction
      <4>3. QED
        BY <4>1, <4>2
    <3>5. row'[me] = c /\ shown'[me] = shown[me] \ {row[me]}
      BY <1>3, <3>1, <3>2, <3>4
    <3>6. onItem'[me] = Normalized({c})
      <4>1. onItem[me] = {}
        BY <1>2, <3>3, NormalizedOne
      <4>2. onItem'[me] = IF c \in Supported THEN {simplexSupportedEmojis[c]} ELSE {}
        BY <1>3, <3>4, <4>1
      <4>3. QED
        BY <4>2, NormalizedOne
    <3>7. QED
      BY <3>3, <3>5, <3>6
  <2>3. QED
    BY <2>1, <2>2
<1>6. Kept' = c
  BY <1>4, <1>5 DEF Kept
<1>7. \A k \in Supported : Stands(queue', c, k) <=> Stands(queue, Kept, k)
  <2>1. \A k \in Supported : c = k <=> k = c \/ Kept = k
    BY <1>3, <1>5 DEF Kept
  <2>2. QED
    BY <1>2, <2>1
<1>8. \A k \in Supported : k \in shown'[me] <=> Stands(queue', Kept', k)
  BY <1>5, <1>6, <1>7 DEF InStep
<1>9. \A k \in refused' \intersect Supported : k = row'[me]
  BY <1>4, <1>5 DEF InStep
<1>10. onItem'[me] = Normalized({c}) /\ \A a, b \in onItem'[me] : a = b
  <2>1. \A a, b \in Normalized({c}) : a = b
    BY NormalizedOne
  <2>2. QED
    BY <1>5, <2>1
<1>11. Normalized({c}) = Normalized({row[me]})'
  BY <1>5 DEF Normalized
<1>12. QED
  BY <1>2, <1>8, <1>9, <1>10, <1>11 DEF InStep

(* A removal is passed on if its reaction is still the row's; in a variant  *)
(* form it is refused, and kept on SimpleX and in the row.                  *)
LEMMA InStepMatrixRedaction ==
    ASSUME TypeOK, Senders, InStep, refused \intersect Emojis = {}, ~Spoiled',
           PortalMatrixRedaction
    PROVE  InStep'
<1> DEFINE Supported == DOMAIN simplexSupportedEmojis
<1>1. PICK c : c = Head(queue).key
  OBVIOUS
<1>2. /\ UNCHANGED events
      /\ onItem[me] = Normalized({row[me]})
      /\ ToSimplex' => ~Coming(me)' /\ ~Waiting(me)'
      /\ Told(me)' /\ c \in Keys
      /\ \A q, k : (q = k <=> k # c /\ Kept = k) =>
                      (Stands(queue', q, k) <=> Stands(queue, Kept, k))
  <2>1. Pop("matrixRedaction")
    BY DEF PortalMatrixRedaction
  <2>2. \A q, k : (q = k <=> k # c /\ Kept = k) =>
                     (q = k <=> IF k = c THEN "matrixRedaction" = "matrixReaction" ELSE Kept = k)
    OBVIOUS
  <2>3. QED
    BY <1>1, <2>1, <2>2, OwnHead
<1>3. /\ me \in Users /\ NoReaction \notin Keys /\ Supported \subseteq Keys
      /\ onItem \in [Users -> SUBSET Emojis] /\ row \in [Users -> Keys \union {NoReaction}]
      /\ refused \subseteq Keys
  BY MeAndTypes
<1>4. UNCHANGED shown /\ ~failed'
  BY DEF PortalMatrixRedaction, Spoiled
<1>5. /\ onItem'[me] = Normalized({row'[me]}) /\ \A a, b \in onItem'[me] : a = b
      /\ \A k \in Supported : Kept' = k <=> k # c /\ Kept = k
      /\ \A k \in refused' \intersect Supported : k = row'[me]
  <2>1. CASE row[me] # c
    <3>1. UNCHANGED <<onItem, row, refused>>
      BY <1>1, <2>1 DEF PortalMatrixRedaction
    <3>2. \A k \in Supported : Kept' = k <=> k # c /\ Kept = k
      BY <1>3, <2>1, <3>1 DEF Kept
    <3>3. QED
      BY <1>2, <3>1, <3>2 DEF InStep, Normalized
  <2>2. CASE row[me] = c
    <3>1. PICK answered \in {"ok", "refused", "failed"} :
              /\ ReactToChatItem(c, FALSE, answered)
              /\ row' = IF answered = "ok" THEN [row EXCEPT ![me] = NoReaction] ELSE row
              /\ refused' = IF answered = "refused" THEN refused \union {c} ELSE refused
      BY <1>1, <2>2 DEF PortalMatrixRedaction, HandleMatrixReactionRemove
    <3>2. CASE answered = "ok"
      <4>1. c \in Emojis /\ onItem' = [onItem EXCEPT ![me] = @ \ {c}]
        BY <3>1, <3>2 DEF ReactToChatItem
      <4>2. c \in Supported /\ simplexSupportedEmojis[c] = c
        BY <4>1, ReactionsAssumption DEF ReactionsAssumption, Emojis
      <4>3. onItem'[me] = {} /\ row'[me] = NoReaction /\ refused' = refused
        <5>1. onItem[me] = {c}
          BY <1>2, <2>2, <4>2, NormalizedOne
        <5>2. QED
          BY <1>3, <3>1, <3>2, <4>1, <5>1
      <4>4. Normalized({NoReaction}) = {}
        BY <1>3, NormalizedOne
      <4>5. refused' \intersect Supported = {}
        BY <2>2, <4>1, <4>3 DEF InStep
      <4>6. \A k \in Supported : Kept' # k /\ (k # c => Kept # k)
        BY <1>3, <2>2, <4>3 DEF Kept
      <4>7. QED
        BY <4>3, <4>4, <4>5, <4>6
    <3>3. CASE answered = "refused"
      <4>1. UNCHANGED <<onItem, row>> /\ refused' = refused \union {c}
        BY <3>1, <3>3 DEF ReactToChatItem
      <4>2. \A k \in Supported : Kept' # k /\ (k # c => Kept # k)
        BY <1>3, <2>2, <4>1 DEF Kept
      <4>3. \A k \in refused' \intersect Supported : k = row'[me]
        BY <2>2, <4>1 DEF InStep
      <4>4. QED
        BY <1>2, <4>1, <4>2, <4>3 DEF InStep, Normalized
    <3>4. CASE answered = "failed"
      BY <1>4, <3>1, <3>4 DEF ReactToChatItem
    <3>5. QED
      BY <3>2, <3>3, <3>4
  <2>3. QED
    BY <2>1, <2>2
<1>6. \A k \in Supported : k \in shown'[me] <=> Stands(queue', Kept', k)
  <2>1. \A k \in Supported : Stands(queue', Kept', k) <=> Stands(queue, Kept, k)
    BY <1>2, <1>5
  <2>2. QED
    BY <1>4, <2>1 DEF InStep
<1>7. QED
  BY <1>2, <1>5, <1>6 DEF InStep, Normalized

(* The portal handles an event of SimpleX: if it is the user's, nothing     *)
(* from the room is on its way, and the room comes to show what it says.    *)
LEMMA InStepRemote ==
    ASSUME TypeOK, Senders, InStep, refused \intersect Emojis = {}, ~Spoiled',
           PortalReaction \/ PortalReactionRemove
    PROVE  InStep'
<1> DEFINE Supported == DOMAIN simplexSupportedEmojis
<1>1. PICK h : h = Head(queue)
  OBVIOUS
<1>2. PICK type \in Remote : Pop(type) /\ h.type = type
  BY <1>1 DEF PortalReaction, PortalReactionRemove, Pop, Remote
<1>3. UNCHANGED <<onItem, plural>> /\ me \notin early' /\ me \notin plural
  BY DEF PortalReaction, PortalReactionRemove, historyVars, Spoiled
<1>4. /\ h \in RemoteItem /\ h.from \in Users
      /\ Told(me)'
      /\ Coming(me)' <=> Coming(me)
      /\ Waiting(me)' => Waiting(me)
      /\ h.from # me => Undisturbed(me)
      /\ h.from = me => /\ Waiting(me)
                        /\ ~Coming(me) /\ ~Waiting(me)' => Agrees(me, type = "reaction", h.key)
  <2>1. me \in Users /\ Told(me)
    BY DEF Users, InStep
  <2>2. h \in RemoteItem
    BY <1>1, <1>2, <1>3, RemoteTold
  <2>3. QED
    BY <1>1, <1>2, <1>3, <2>1, <2>2, RemoteTold DEF RemoteItem
<1>5. /\ me \in Users /\ NoReaction \notin Keys /\ Supported \subseteq Keys
      /\ row \in [Users -> Keys \union {NoReaction}] /\ shown \in [Users -> SUBSET Keys]
  BY MeAndTypes
<1>6. /\ queue \in Seq(MatrixItem \union RemoteItem) /\ queue # << >> /\ queue' = Tail(queue)
      /\ ToSimplex' => ToSimplex
  BY <1>2, ToSimplexOfTail DEF Senders, Pop
<1>7. CASE h.from # me
  <2>1. row'[me] = row[me] /\ shown'[me] = shown[me] /\ refused' = refused
    <3>1. CASE PortalReaction
      <4>1. /\ refused' = refused
            /\ \/ UNCHANGED <<row, shown>>
               \/ /\ row' = [row EXCEPT ![h.from] = h.key]
                  /\ shown' = [shown EXCEPT ![h.from] = (@ \ {row[h.from]}) \union {h.key}]
        BY <1>1, <1>7, <3>1 DEF PortalReaction
      <4>2. QED
        BY <1>5, <1>7, <4>1
    <3>2. CASE PortalReactionRemove
      <4>1. /\ refused' = refused
            /\ row' = [row EXCEPT ![h.from] = NoReaction]
            /\ shown' = [shown EXCEPT ![h.from] = @ \ {row[h.from]}]
        BY <1>1, <1>7, <3>2 DEF PortalReactionRemove
      <4>2. QED
        BY <1>5, <1>7, <4>1
    <3>3. QED
      BY <3>1, <3>2
  <2>2. \A k : Stands(queue', Kept, k) <=> Stands(queue, Kept, k)
    <3>1. \A k : ~Mine(Head(queue), k)
      BY <1>1, <1>4 DEF RemoteItem, Remote, Mine
    <3>2. QED
      BY <1>6, <3>1, StandsOfTail
  <2>3. QED
    BY <1>4, <1>6, <1>7, <2>1, <2>2, InStepUntouched
<1>8. CASE h.from = me
  <2>1. ~ToSimplex /\ ~ToSimplex'
    BY <1>4, <1>6, <1>8 DEF InStep
  <2>2. h.key \in Supported /\ simplexSupportedEmojis[h.key] = h.key /\ h.key \in Emojis
    BY <1>4, ReactionsAssumption DEF ReactionsAssumption, Emojis, RemoteItem
  <2>3. \A k \in Supported : k \in shown[me] <=> Kept = k
    BY <2>1, StandsOfNone DEF InStep
  <2>4. /\ refused' = {}
        /\ \/ /\ type = "reaction" /\ row'[me] = h.key
              /\ \A k \in Supported : k \in shown'[me] <=> k = h.key
           \/ /\ type = "reactionRemove" /\ row'[me] = NoReaction
              /\ \A k \in Supported : k \notin shown'[me]
    <3>1. CASE PortalReaction
      <4>1. type = "reaction" /\ refused' = {}
        BY <1>1, <1>2, <1>8, <3>1 DEF PortalReaction, Pop
      <4>2. known
        BY <1>1, <1>3, <1>8, <3>1 DEF PortalReaction
      <4>3. CASE row[me] # h.key
        <5>1. /\ row' = [row EXCEPT ![me] = h.key]
              /\ shown' = [shown EXCEPT ![me] = (@ \ {row[me]}) \union {h.key}]
          BY <1>1, <1>8, <3>1, <4>2, <4>3 DEF PortalReaction
        <5>2. row'[me] = h.key /\ shown'[me] = (shown[me] \ {row[me]}) \union {h.key}
          BY <1>5, <5>1
        <5>3. \A k \in Supported : k \in shown[me] => k = row[me]
          BY <1>5, <2>3 DEF Kept
        <5>4. QED
          BY <4>1, <5>2, <5>3
      <4>4. CASE row[me] = h.key
        <5>1. UNCHANGED <<row, shown>>
          BY <1>1, <1>8, <3>1, <4>2, <4>4 DEF PortalReaction
        <5>2. Kept = h.key
          BY <2>2, <4>4 DEF Kept
        <5>3. QED
          BY <2>3, <4>1, <4>4, <5>1, <5>2
      <4>5. QED
        BY <4>3, <4>4
    <3>2. CASE PortalReactionRemove
      <4>1. type = "reactionRemove" /\ refused' = {}
        BY <1>1, <1>2, <1>8, <3>2 DEF PortalReactionRemove, Pop
      <4>2. /\ row' = [row EXCEPT ![me] = NoReaction]
            /\ shown' = [shown EXCEPT ![me] = @ \ {row[me]}]
        BY <1>1, <1>8, <3>2 DEF PortalReactionRemove
      <4>3. row'[me] = NoReaction /\ shown'[me] = shown[me] \ {row[me]}
        BY <1>5, <4>2
      <4>4. \A k \in Supported : k \in shown[me] => k = row[me]
        BY <1>5, <2>3 DEF Kept
      <4>5. QED
        BY <4>1, <4>3, <4>4
    <3>3. QED
      BY <3>1, <3>2
  <2>5. \A k \in Supported : k \in shown'[me] <=> Stands(queue', Kept', k)
    <3>1. Kept' = row'[me]
      BY <2>4 DEF Kept
    <3>2. \A q, k : Stands(queue', q, k) <=> q = k
      <4>1. \A k : ~SaidLast(queue', k) /\ Unsaid(queue', k)
        BY <2>1 DEF ToSimplex, SaidLast, Unsaid, Mine
      <4>2. QED
        BY <4>1 DEF Stands
    <3>3. \A k \in Supported : k # NoReaction
      BY <1>5
    <3>4. QED
      BY <2>4, <3>1, <3>2, <3>3
  <2>6. ~Coming(me)' /\ ~Waiting(me)' => onItem'[me] = Normalized({row'[me]})
    <3>1. SUFFICES ASSUME ~Coming(me)', ~Waiting(me)'
                   PROVE  onItem'[me] = Normalized({row'[me]})
      OBVIOUS
    <3>2. onItem[me] = IF type = "reaction" THEN {h.key} ELSE {}
      BY <1>3, <1>4, <1>8, <3>1 DEF Agrees
    <3>3. NoReaction \notin Supported
      BY <1>5
    <3>4. onItem[me] = Normalized({row'[me]})
      BY <2>2, <2>4, <3>2, <3>3, NormalizedOne
    <3>5. QED
      BY <1>3, <3>4
  <2>7. /\ \A a, b \in onItem'[me] : a = b
        /\ \A k \in refused' \intersect Supported : k = row'[me]
    BY <1>3, <2>4 DEF InStep
  <2>8. QED
    BY <1>4, <2>1, <2>5, <2>6, <2>7 DEF InStep, Normalized
<1>9. QED
  BY <1>7, <1>8

(* What simplex-chat refuses is none of its emoji.                          *)
LEMMA RefusedStep ==
    ASSUME TypeOK, refused \intersect Emojis = {}, [Next]_vars
    PROVE  refused' \intersect Emojis = {}
<1>1. CASE PortalMatrixRedaction
  BY <1>1 DEF PortalMatrixRedaction, HandleMatrixReactionRemove, ReactToChatItem
<1>2. CASE PortalMatrixReaction
  BY <1>2 DEF PortalMatrixReaction
<1>3. CASE PortalReaction
  <2>1. refused' \subseteq refused
    BY <1>3 DEF PortalReaction
  <2>2. QED
    BY <2>1
<1>4. CASE PortalReactionRemove
  <2>1. refused' \subseteq refused
    BY <1>4 DEF PortalReactionRemove
  <2>2. QED
    BY <2>1
<1>5. CASE SimplexUser \/ Connection \/ HandleChatItemReaction \/ MatrixUser \/ MessagePosted
           \/ UNCHANGED vars
  <2>1. refused' = refused
    BY <1>5 DEF SimplexUser, Connection, HandleChatItemReaction, MatrixUser, MessagePosted,
                vars, historyVars
  <2>2. QED
    BY <2>1
<1>6. QED
  BY <1>1, <1>2, <1>3, <1>4, <1>5 DEF Next, Portal

LEMMA MirroredNext == TypeOK /\ IInv /\ Mirrored /\ [Next]_vars => Mirrored'
<1> SUFFICES ASSUME TypeOK, IInv, Mirrored, [Next]_vars, ~Spoiled' PROVE InStep'
  BY RefusedStep DEF Mirrored
<1>1. Senders /\ ~Spoiled /\ InStep /\ refused \intersect Emojis = {}
  BY SpoiledForGood DEF IInv, Mirrored
<1>2. CASE UNCHANGED <<onItem, events, queue, row, shown, plural, refused>>
  <2>1. Undisturbed(me)
    BY <1>2 DEF Undisturbed, Coming, Waiting
  <2>2. (ToSimplex' => ToSimplex) /\ \A k : Stands(queue', Kept, k) <=> Stands(queue, Kept, k)
    BY <1>2 DEF ToSimplex
  <2>3. QED
    BY <1>1, <1>2, <2>1, <2>2, InStepUntouched
<1>3. CASE Connection \/ MessagePosted \/ UNCHANGED vars
  BY <1>2, <1>3 DEF Connection, MessagePosted, vars, portalVars, historyVars
<1>4. CASE SimplexUser
  BY <1>1, <1>4, InStepSimplexUser
<1>5. CASE HandleChatItemReaction
  BY <1>1, <1>5, InStepHandler
<1>6. CASE MatrixUser
  BY <1>1, <1>6, InStepMatrixUser
<1>7. CASE PortalMatrixReaction
  BY <1>1, <1>7, InStepMatrixReaction
<1>8. CASE PortalMatrixRedaction
  BY <1>1, <1>8, InStepMatrixRedaction
<1>9. CASE PortalReaction \/ PortalReactionRemove
  BY <1>1, <1>9, InStepRemote
<1>10. QED
  BY <1>3, <1>4, <1>5, <1>6, <1>7, <1>8, <1>9 DEF Next, Portal

(* In a room at rest SimpleX has the supported reactions of the user that   *)
(* the room shows and those whose removal it refused, on whichever side     *)
(* they were made and taken back, unless a command failed, an event was     *)
(* lost, the user acted on both sides at once or before the message was     *)
(* posted, or a reaction replaced another.                                  *)
THEOREM MineGetThere == Spec => []MyReactionsArrive
<1>1. Mirrored => MyReactionsArrive
  <2> SUFFICES ASSUME Mirrored, Quiet, ~Spoiled
               PROVE  onItem[me] = Normalized(shown[me] \union refused)
    BY DEF MyReactionsArrive, Spoiled
  <2>1. ~Coming(me) /\ ~Waiting(me) /\ ~ToSimplex
    BY DEF Quiet, Coming, Waiting, Absent, ToSimplex
  <2>2. /\ onItem[me] = Normalized({row[me]})
        /\ \A k \in DOMAIN simplexSupportedEmojis : k \in shown[me] <=> Kept = k
        /\ \A k \in refused \intersect DOMAIN simplexSupportedEmojis : k = row[me]
    BY <2>1, StandsOfNone DEF Mirrored, InStep
  <2>3. \A k \in DOMAIN simplexSupportedEmojis : k \in shown[me] \union refused <=> k = row[me]
    BY <2>2, ReactionsAssumption DEF Kept, ReactionsAssumption
  <2>4. QED
    BY <2>2, <2>3 DEF Normalized
<1>2. QED
  BY <1>1, MirroredInit, MirroredNext, Invariant, PTL DEF Spec
================================================================================
