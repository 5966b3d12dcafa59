---------------------------- MODULE MCMaintenance ----------------------------
(***************************************************************************)
(* Windows that overlap: one is the second half of another.                *)
(***************************************************************************)
EXTENDS Maintenance, TLC

AskedRanges == {<<0, 2>>, <<1, 2>>}
Symmetry == Permutations(Admins) \cup Permutations(Workers)
=============================================================================
