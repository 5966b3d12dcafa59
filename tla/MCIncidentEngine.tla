-------------------------- MODULE MCIncidentEngine --------------------------
(***************************************************************************)
(* One integration that goes down and up, with repeats and resets of its   *)
(* status, and two workers.                                                *)
(***************************************************************************)
EXTENDS IncidentEngine, TLC

CONSTANTS kOpen, kRecover1, kRecover2

OneOpenKey == [s \in Services |-> kOpen]
RecoverKeys == [i \in 1..MaxIncidents |-> IF i = 1 THEN kRecover1 ELSE kRecover2]
Symmetry == Permutations(Workers) \cup Permutations(Handlers)
=============================================================================
