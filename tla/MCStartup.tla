------------------------------ MODULE MCStartup ------------------------------
(***************************************************************************)
(* Small instances of Startup for TLC.                                     *)
(***************************************************************************)
EXTENDS Startup, TLC

CONSTANTS r1, r2, r3, admin, root

\* r1 still runs the image before, which has a file less.
MCReplicas == {r1, r2, r3}
MCFiles == (r1 :> 2) @@ (r2 :> 3) @@ (r3 :> 3)

\* The bootstrap name was changed for the last replica only.
MCConfigured == (r1 :> admin) @@ (r2 :> admin) @@ (r3 :> root)
=============================================================================
