------------------------------ MODULE MCWebhook ------------------------------
(* Webhook on small instances: two requests for one room under two names,   *)
(* one for another room.                                                    *)
EXTENDS Webhook, TLC

CONSTANTS alice, bob, push, tag, alert, code, ops

MCKey  == [r \in Requests |-> IF r = alert THEN ops ELSE code]
MCName == [r \in Requests |-> CASE r = push -> "repository"
                                [] r = tag  -> "releases"
                                [] OTHER    -> "alerts"]
===============================================================================
