-------------------------------- MODULE MCLogin --------------------------------
(* Login on small instances.                                                *)
EXTENDS Login, TLC

CONSTANTS ann, bea

(* The databases are new, or one is not.                                    *)
FirstOrSecond == {ann :> 1 @@ bea :> 1, ann :> 1 @@ bea :> 2}
OnlyAnn == {ann :> 1}
OwnPorts == ann :> 5225 @@ bea :> 5226
================================================================================
