------------------------------ MODULE MCInbound ------------------------------
(* Inbound on small instances.                                              *)
EXTENDS Inbound, TLC

CONSTANTS text, photo
===============================================================================
