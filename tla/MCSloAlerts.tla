---------------------------- MODULE MCSloAlerts ----------------------------
(***************************************************************************)
(* Hours of two units; windows of one, two and three hours stand for 1h,   *)
(* 6h, 24h and 3d, and two hours out of three are rebuilt, as 48 of 72.    *)
(* At half the time available a rate of 1 is half of the window bad and a  *)
(* rate of 2 all of it.                                                    *)
(***************************************************************************)
EXTENDS SloAlerts, TLC

TwoToFour == {[from |-> 2, to |-> 4]}
Symmetry == Permutations(Workers)
=============================================================================
