----------------------------- MODULE MCReactions -----------------------------
(* Reactions with two emoji, one of which has a variant form, and a key     *)
(* that SimpleX does not have.                                              *)
EXTENDS Reactions, TLC

CONSTANTS ann, heart, heartVS, rocket, fox

MCEmojis == heart :> heart @@ heartVS :> heart @@ rocket :> rocket
===============================================================================
