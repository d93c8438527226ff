------------------------------ MODULE MCBackfill ------------------------------
(* Backfill on small instances.                                             *)
EXTENDS Backfill
===============================================================================
