--------------------------- MODULE MCEmailDelivery ---------------------------
(***************************************************************************)
(* Small instances of EmailDelivery for TLC.                               *)
(***************************************************************************)
EXTENDS EmailDelivery, TLC

Symmetry == Permutations(Admins) \cup Permutations(Senders)
=============================================================================
