------------------------------ MODULE MCWsClient ------------------------------
(* WsClient on small instances.                                             *)
EXTENDS WsClient, TLC

CONSTANTS send, file, accept
===============================================================================
