-------------------------- MODULE MCSecretDelivery --------------------------
(***************************************************************************)
(* Small instances of SecretDelivery for TLC.                              *)
(***************************************************************************)
EXTENDS SecretDelivery, TLC

MCNoRetention == [s \in Terminal |-> 0]

\* Only `Verifies' and equality look at passwords, and only the identity of
\* a request matters: both sets are fully symmetric.
Symmetry == Permutations(Requests) \cup Permutations(Passwords)
ReplicaSymmetry == Symmetry \cup Permutations(Cleaners)
=============================================================================
