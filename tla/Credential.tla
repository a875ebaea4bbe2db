----------------------------- MODULE Credential -----------------------------
(***************************************************************************)
(* What the credential of an API client promises: one secret is in force   *)
(* at a time, each is in force once, and whoever is let in has offered the *)
(* one in force, while the client is active and has not expired.  A        *)
(* revoked client takes no further requests to manage it; only one that    *)
(* was taken before can still make it active.                              *)
(***************************************************************************)
CONSTANTS Requests, Callers, Secrets, None

VARIABLES
    status,     \* "none", "active", "disabled" or "revoked"
    secret,     \* the one in force, or None
    spent,      \* those that were
    expired,
    taken,      \* requests to enable or to rotate that are being served
    used        \* the secret each caller was let in with, or None

vars == <<status, secret, spent, expired, taken, used>>

Init ==
    /\ status = "none"
    /\ secret = None
    /\ spent = {}
    /\ expired = FALSE
    /\ taken = {}
    /\ used = [c \in Callers |-> None]

Issue(s) ==
    /\ status = "none"
    /\ status' = "active"
    /\ secret' = s
    /\ expired' \in BOOLEAN
    /\ UNCHANGED <<spent, taken, used>>

Expire ==
    /\ status # "none"
    /\ expired' = TRUE
    /\ UNCHANGED <<status, secret, spent, taken, used>>

Take(r) ==
    /\ status \in {"active", "disabled"}
    /\ taken' = taken \cup {r}
    /\ UNCHANGED <<status, secret, spent, expired, used>>

Drop(r) ==
    /\ taken' = taken \ {r}
    /\ UNCHANGED <<status, secret, spent, expired, used>>

Activate(r) ==
    /\ r \in taken
    /\ status' = "active"
    /\ taken' = taken \ {r}
    /\ UNCHANGED <<secret, spent, expired, used>>

Replace(r, s) ==
    /\ r \in taken
    /\ s \notin spent \cup {secret}
    /\ status' = "active"
    /\ secret' = s
    /\ spent' = spent \cup {secret}
    /\ taken' = taken \ {r}
    /\ UNCHANGED <<expired, used>>

Suspend ==
    /\ status # "none"
    /\ status' \in {"disabled", "revoked"}
    /\ UNCHANGED <<secret, spent, expired, taken, used>>

Admit(c) ==
    /\ status = "active"
    /\ ~expired
    /\ used[c] = None
    /\ used' = [used EXCEPT ![c] = secret]
    /\ UNCHANGED <<status, secret, spent, expired, taken>>

Next ==
    \/ \E s \in Secrets : Issue(s)
    \/ Expire
    \/ \E r \in Requests : \/ Take(r) \/ Drop(r) \/ Activate(r)
                           \/ \E s \in Secrets : Replace(r, s)
    \/ Suspend
    \/ \E c \in Callers : Admit(c)

Spec == Init /\ [][Next]_vars
=============================================================================
