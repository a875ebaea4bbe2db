--------------------------- MODULE MCRecipientPage ---------------------------
(***************************************************************************)
(* Small instances of RecipientPage for TLC.                               *)
(***************************************************************************)
EXTENDS RecipientPage, TLC

MCNoRetention == [s \in Terminal |-> 0]

PageSymmetry == Permutations(Requests) \cup Permutations(Pages)
=============================================================================
