---------------------------- MODULE DeliveryRow ----------------------------
(***************************************************************************)
(* One row of secret_deliveries and the SQL statements of                  *)
(* internal/delivery/repository.go, each as its WHERE clause (a predicate  *)
(* on the row) and its SET clause (the row it leaves).  `t' is the NOW()   *)
(* of the statement's transaction.                                         *)
(***************************************************************************)
EXTENDS Naturals

CONSTANTS
    Leases,       \* lease ids: one fresh UUID per consume attempt
    Passwords,    \* link passwords and the guesses at them
    MaxSalts,     \* bound on the number of password hashes ever computed
    MaxFailed,    \* max_failed_attempts, fixed when the row is inserted
    LeaseTTL,     \* CONSUMING_LEASE_TTL
    Retention,    \* payload retention of each terminal status
    Null          \* SQL NULL; also the absent row

Terminal == {"consumed", "expired", "revoked"}
Status == {"active", "consuming"} \cup Terminal

(* Argon2 salts every hash: hashing one password twice gives two hashes. *)
Hashes == [text : Passwords, salt : 1 .. MaxSalts]

ASSUME RowAssumption ==
    /\ MaxSalts \in Nat
    /\ MaxFailed \in Nat \ {0}
    /\ LeaseTTL \in Nat
    /\ Retention \in [Terminal -> Nat]
    /\ Null \notin Nat
    /\ Null \notin Leases
    /\ Null \notin Hashes

(* consumed_at, revoked_at and the updated_at of an expired row are each   *)
(* read in one terminal status only: closedAt stands for the three.        *)
Rows == [status    : Status,
         payload   : {"sealed", "blank"},
         hash      : Hashes \cup {Null},
         failed    : 0 .. MaxFailed,
         expiresAt : Nat,
         startedAt : Nat \cup {Null},
         lease     : Leases \cup {Null},
         closedAt  : Nat \cup {Null}]

ASSUME RowNotNull == Null \notin Rows

Inserted(hash, expiresAt) ==
    [status |-> "active", payload |-> "sealed", hash |-> hash, failed |-> 0,
     expiresAt |-> expiresAt, startedAt |-> Null, lease |-> Null,
     closedAt |-> Null]

---------------------------------------------------------------------------
(* The guard shared by FindConsumeCandidate, BeginConsume and              *)
(* RecordPasswordFailure: the row is active, or its lease has gone stale.  *)

Stale(row, t) == row.startedAt + LeaseTTL < t

Consumable(row, t) ==
    /\ row # Null
    /\ row.expiresAt > t
    /\ row.failed < MaxFailed
    /\ \/ row.status = "active"
       \/ row.status = "consuming" /\ Stale(row, t)

(* Mutant: the password may have changed since it was verified. *)
MayBeginAnyHash(row, t, expected) == Consumable(row, t)

MayBegin(row, t, expected) == Consumable(row, t) /\ row.hash = expected

Begun(row, t, lease) ==
    [row EXCEPT !.status = "consuming", !.startedAt = t, !.lease = lease]

(* Mutant: the failure is charged to whatever password is in force. *)
MayChargeAnyHash(row, t, expected) == Consumable(row, t) /\ row.hash # Null

MayCharge(row, t, expected) ==
    Consumable(row, t) /\ expected # Null /\ row.hash = expected

Released(row) ==
    [row EXCEPT !.status = "active", !.startedAt = Null, !.lease = Null]

(* Mutant: only a consume blanks the ciphertext. *)
ClosedUnblanked(row, status, t) ==
    [row EXCEPT !.status = status, !.closedAt = t,
                !.payload = IF status = "consumed" THEN "blank" ELSE @,
                !.startedAt = Null, !.lease = Null]

Closed(row, status, t) ==
    [row EXCEPT !.status = status, !.payload = "blank", !.closedAt = t,
                !.startedAt = Null, !.lease = Null]

(* Mutant: the counter runs down instead of up. *)
ChargedDown(row, t) == Released([row EXCEPT !.failed = @ - 1])

Charged(row, t) ==
    LET counted == [row EXCEPT !.failed = @ + 1]
    IN  IF counted.failed >= MaxFailed
        THEN Closed(counted, "revoked", t)
        ELSE Released(counted)

MayProtect(row, t) ==
    row # Null /\ row.status = "active" /\ row.expiresAt > t

Protected(row, hash) == [row EXCEPT !.hash = hash, !.failed = 0]

(* Mutant: the status guard of Revoke is dropped. *)
MayRevokeAny(row) == row # Null

MayRevoke(row) == row # Null /\ row.status \in {"active", "consuming"}

(* Mutant: any lease will do. *)
HoldsAnyLease(row, lease) == row # Null /\ row.status = "consuming"

Holds(row, lease) ==
    row # Null /\ row.status = "consuming" /\ row.lease = lease

---------------------------------------------------------------------------
(* The three UPDATEs of Cleanup. *)

MayExpire(row, t) ==
    row # Null /\ row.status = "active" /\ row.expiresAt <= t

Expired(row, t) == [row EXCEPT !.status = "expired", !.closedAt = t]

(* Mutants: the lease age is not checked; the expiry test is inverted, or  *)
(* missing.                                                                *)
MayRecoverLive(row, t) ==
    row # Null /\ row.status = "consuming" /\ row.expiresAt > t

MayRecoverExpired(row, t) ==
    /\ row # Null
    /\ row.status = "consuming"
    /\ Stale(row, t)
    /\ row.expiresAt <= t

MayRecoverAtAnyAge(row, t) ==
    row # Null /\ row.status = "consuming" /\ Stale(row, t)

MayRecover(row, t) ==
    /\ row # Null
    /\ row.status = "consuming"
    /\ Stale(row, t)
    /\ row.expiresAt > t

(* Mutant: the branch for expired rows is missing. *)
MayBlankClosed(row, t) ==
    /\ row # Null
    /\ row.payload # "blank"
    /\ row.status \in {"consumed", "revoked"}
    /\ row.closedAt + Retention[row.status] <= t

MayBlank(row, t) ==
    /\ row # Null
    /\ row.payload # "blank"
    /\ row.status \in Terminal
    /\ row.closedAt + Retention[row.status] <= t

Blanked(row) == [row EXCEPT !.payload = "blank"]
=============================================================================
