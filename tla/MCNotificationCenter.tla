------------------------ MODULE MCNotificationCenter ------------------------
(***************************************************************************)
(* A small inbox: two callers, one user, room for two alerts.              *)
(***************************************************************************)
EXTENDS NotificationCenter, TLC

Symmetry == Permutations(Callers) \cup Permutations(Keys)
=============================================================================
