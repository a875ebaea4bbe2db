---------------------------- MODULE MCApiClients ----------------------------
(***************************************************************************)
(* Small instances of ApiClients for TLC.                                  *)
(***************************************************************************)
EXTENDS ApiClients, TLC

Symmetry == Permutations(Managers) \cup Permutations(Callers)
=============================================================================
