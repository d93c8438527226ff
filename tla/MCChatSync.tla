------------------------------ MODULE MCChatSync ------------------------------
(* ChatSync on small instances.                                             *)
EXTENDS ChatSync, TLC

CONSTANT alice

IDs == alice :> 4
===============================================================================
