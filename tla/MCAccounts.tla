----------------------------- MODULE MCAccounts -----------------------------
(***************************************************************************)
(* Small instances of Accounts for TLC.                                    *)
(***************************************************************************)
EXTENDS Accounts, TLC

MCPatches == {[status |-> "disabled"], [status |-> "active"],
              [role |-> "viewer"]}

Symmetry == Permutations(Handlers) \cup Permutations(Admins)
                \cup Permutations(Passwords)
=============================================================================
