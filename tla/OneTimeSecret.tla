--------------------------- MODULE OneTimeSecret ---------------------------
(***************************************************************************)
(* What a delivery promises: a secret is deposited under at most one       *)
(* password at a time, is handed to at most one recipient, who offered the *)
(* password in force, or is withdrawn unread; its ciphertext goes with the *)
(* reveal and never comes back.                                            *)
(***************************************************************************)
CONSTANTS Recipients, Passwords, None

VARIABLES
    phase,      \* "absent", "available", "revealed" or "withdrawn"
    lock,       \* the password in force, or None
    offered,    \* the password each recipient has offered, or None
    recipients, \* who received the plaintext
    stored      \* whether the ciphertext is stored

vars == <<phase, lock, offered, recipients, stored>>

Init ==
    /\ phase = "absent"
    /\ lock = None
    /\ offered = [r \in Recipients |-> None]
    /\ recipients = {}
    /\ stored = FALSE

Deposit(p) ==
    /\ phase = "absent"
    /\ phase' = "available"
    /\ lock' = p
    /\ stored' = TRUE
    /\ UNCHANGED <<offered, recipients>>

ChangeLock(p) ==
    /\ phase = "available"
    /\ lock' = p
    /\ UNCHANGED <<phase, offered, recipients, stored>>

Offer(r, p) ==
    /\ offered[r] = None
    /\ offered' = [offered EXCEPT ![r] = p]
    /\ UNCHANGED <<phase, lock, recipients, stored>>

Reveal(r) ==
    /\ phase = "available"
    /\ lock = None \/ offered[r] = lock
    /\ phase' = "revealed"
    /\ recipients' = {r}
    /\ stored' = FALSE
    /\ UNCHANGED <<lock, offered>>

(* Revocation erases at once; expiry may leave the ciphertext for later. *)
Withdraw ==
    /\ phase = "available"
    /\ phase' = "withdrawn"
    /\ stored' \in BOOLEAN
    /\ UNCHANGED <<lock, offered, recipients>>

Erase ==
    /\ phase = "withdrawn"
    /\ stored
    /\ stored' = FALSE
    /\ UNCHANGED <<phase, lock, offered, recipients>>

Next ==
    \/ \E p \in Passwords \cup {None} : Deposit(p) \/ ChangeLock(p)
    \/ \E r \in Recipients, p \in Passwords : Offer(r, p)
    \/ \E r \in Recipients : Reveal(r)
    \/ Withdraw
    \/ Erase

Spec == Init /\ [][Next]_vars
=============================================================================
