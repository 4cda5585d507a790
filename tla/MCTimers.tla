------------------------------- MODULE MCTimers -------------------------------
(* Small instances of TimersSTD. *)
EXTENDS TimersSTD, TLC

CONSTANTS t1, t2

OneTimer  == t1 :> 1
TwoTimers == t1 :> 1 @@ t2 :> 2
=============================================================================
