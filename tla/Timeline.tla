-------------------------------- MODULE Timeline --------------------------------
(***************************************************************************)
(* What the bridge promises the readers of a room, with no events, queues   *)
(* or files in sight: a message appears at most once for an item of the     *)
(* chat, shows versions that the item has had, goes back to an earlier one  *)
(* only if it came with the history of the chat, and is removed for good    *)
(* when the item was deleted, and only then.                                *)
(***************************************************************************)
EXTENDS Naturals

CONSTANTS Items,      \* the items of the chat
          MaxVersion  \* bound on the versions an item goes through

VARIABLES version,  \* the version of each item: 0 before it exists
          deleted,  \* the items deleted
          message,  \* the message of each item: "none", "posted" or "removed"
          shows,    \* the version each shows: 0 for none
          history   \* the items whose messages came with the history

chatVars == <<version, deleted>>
vars == <<chatVars, message, shows, history>>

Init == /\ version = [i \in Items |-> 0] /\ deleted = {}
        /\ message = [i \in Items |-> "none"]
        /\ shows = [i \in Items |-> 0]
        /\ history = {}

(* On SimpleX an item is created and edited, until it is deleted.           *)
Write(i) == /\ i \notin deleted /\ version[i] < MaxVersion
            /\ version' = [version EXCEPT ![i] = @ + 1]
            /\ UNCHANGED <<deleted, message, shows, history>>

Delete(i) == /\ version[i] > 0 /\ i \notin deleted
             /\ deleted' = deleted \union {i}
             /\ UNCHANGED <<version, message, shows, history>>

(* The room begins with what there is of the chat, without the content of   *)
(* what was deleted.                                                        *)
Open(items) ==
    /\ \A i \in Items : message[i] = "none"
    /\ message' = [i \in Items |-> IF i \in items THEN "posted" ELSE message[i]]
    /\ shows' \in [Items -> 0 .. MaxVersion]
    /\ \A i \in Items : IF i \in items THEN \/ shows'[i] \in 1 .. version[i]
                                            \/ shows'[i] = 0 /\ i \in deleted
                                       ELSE shows'[i] = shows[i]
    /\ history' = history \union items
    /\ UNCHANGED chatVars

Post(i, n) == /\ message[i] = "none" /\ n <= version[i]
              /\ message' = [message EXCEPT ![i] = "posted"]
              /\ shows' = [shows EXCEPT ![i] = n]
              /\ UNCHANGED <<chatVars, history>>

Replace(i, n) == /\ message[i] = "posted" /\ n <= version[i]
                 /\ n >= shows[i] \/ i \in history
                 /\ shows' = [shows EXCEPT ![i] = n]
                 /\ UNCHANGED <<chatVars, message, history>>

Remove(i) == /\ message[i] = "posted" /\ i \in deleted
             /\ message' = [message EXCEPT ![i] = "removed"]
             /\ shows' = [shows EXCEPT ![i] = 0]
             /\ UNCHANGED <<chatVars, history>>

Next == \/ \E i \in Items : \/ Write(i) \/ Delete(i) \/ Remove(i)
                            \/ \E n \in 1 .. MaxVersion : Post(i, n) \/ Replace(i, n)
        \/ \E items \in SUBSET Items : Open(items)

Spec == Init /\ [][Next]_vars
================================================================================
