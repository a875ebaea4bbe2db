----------------------------- MODULE MCAdminTab -----------------------------
(***************************************************************************)
(* Small instances of AdminTab for TLC.                                    *)
(***************************************************************************)
EXTENDS AdminTab

MCNames == {"", "a", "A", "long"}
MCLower == [n \in MCNames |-> IF n = "A" THEN "a" ELSE n]
=============================================================================
