---------------------------- MODULE MCMessageSend ----------------------------
(* MessageSend on small instances.                                          *)
EXTENDS MessageSend, TLC

CONSTANTS text, image
===============================================================================
