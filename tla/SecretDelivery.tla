--------------------------- MODULE SecretDelivery ---------------------------
(***************************************************************************)
(* The life of one delivery: the consume handlers, the administrators'     *)
(* calls and the cleanup workers of every server replica, interleaved over *)
(* one row of secret_deliveries.  Every SQL statement of the service is an *)
(* action.  A consume request is a process: it reads a candidate row,      *)
(* verifies the password in memory, then takes the lease, decrypts and     *)
(* completes in separate statements, and may stop for good between any two *)
(* (crash of the server, cancelled context, database or Vault timeout).    *)
(* A cleanup is one transaction of several statements, whose NOW() is      *)
(* frozen when it begins and which locks the row it rewrites until it      *)
(* commits or rolls back.                                                  *)
(***************************************************************************)
EXTENDS DeliveryRow, FiniteSets

CONSTANTS
    Cleaners,       \* cleanup workers and manual cleanups that may overlap
    Lifetimes,      \* the TTLs deliveries are created with
    StatementLag,   \* how old a statement's NOW() may be when it takes effect
    MaxTime         \* bound on the clock

Requests == Leases

ASSUME DeliveryAssumption ==
    /\ IsFiniteSet(Requests)
    /\ Lifetimes \subseteq Nat \ {0}
    /\ StatementLag \in Nat
    /\ MaxTime \in Nat
    /\ Null \notin Cleaners

VARIABLES
    now,          \* the database clock
    row,          \* the committed row, or Null before Insert
    salts,        \* hashes stored so far
    pc,           \* where each consume request stands
    guess,        \* the password it presented
    seen,         \* the password hash its candidate carried
    cipher,       \* the ciphertext BeginConsume returned to it
    completedBy,  \* requests whose CompleteConsume matched (history)
    cpc,          \* where each cleanup transaction stands
    txNow,        \* its frozen NOW()
    holder,       \* the transaction that holds the row lock
    draft         \* the row as that transaction has rewritten it

requestVars == <<pc, guess, seen, cipher>>
cleanupVars == <<cpc, txNow, holder, draft>>
vars == <<now, row, salts, requestVars, completedBy, cleanupVars>>

(* Answers of Consume; "failed" is any answer that was never produced.     *)
Answers == {"revealed", "invalid", "locked", "unavailable", "dependency",
            "failed"}
Working == {"charging", "beginning", "decrypting", "restoring",
            "completing", "replying"}

TypeOK ==
    /\ now \in 0 .. MaxTime
    /\ row \in Rows \cup {Null}
    /\ salts \in 0 .. MaxSalts
    /\ pc \in [Requests -> {"idle"} \cup Working \cup Answers]
    /\ guess \in [Requests -> Passwords \cup {Null}]
    /\ seen \in [Requests -> Hashes \cup {Null}]
    /\ cipher \in [Requests -> {"sealed", "blank", Null}]
    /\ completedBy \subseteq Requests
    /\ cpc \in [Cleaners -> {"idle", "expire", "recover", "blank", "commit"}]
    /\ txNow \in [Cleaners -> 0 .. MaxTime]
    /\ holder \in Cleaners \cup {Null}
    /\ draft \in Rows \cup {Null}

Init ==
    /\ now = 0
    /\ row = Null
    /\ salts = 0
    /\ pc = [r \in Requests |-> "idle"]
    /\ guess = [r \in Requests |-> Null]
    /\ seen = [r \in Requests |-> Null]
    /\ cipher = [r \in Requests |-> Null]
    /\ completedBy = {}
    /\ cpc = [c \in Cleaners |-> "idle"]
    /\ txNow = [c \in Cleaners |-> 0]
    /\ holder = Null
    /\ draft = Null

---------------------------------------------------------------------------
Tick ==
    /\ now < MaxTime
    /\ now' = now + 1
    /\ UNCHANGED <<row, salts, requestVars, completedBy, cleanupVars>>

(* NOW() is read when a statement starts; it may then wait for the row     *)
(* lock, at most the 5 seconds of its context.                             *)
Moments == {t \in 0 .. now : now <= t + StatementLag}

(* An UPDATE that matches waits for the row lock; one that does not match  *)
(* affects no row and waits for nothing.                                   *)
Update(matches, new) ==
    /\ matches
    /\ holder = Null
    /\ row' = new

Miss(matches) ==
    /\ ~matches
    /\ UNCHANGED row

(* A fresh hash of password p, or none for an unprotected link. *)
FreshHash(p) == IF p = Null THEN Null ELSE [text |-> p, salt |-> salts + 1]

NextSalts(p) == salts' = IF p = Null THEN salts ELSE salts + 1

---------------------------------------------------------------------------
(* Administrators and API clients. *)

(* Vault encrypts before the INSERT, so a failed encryption leaves no row. *)
Create(p, ttl) ==
    /\ row = Null
    /\ p # Null => salts < MaxSalts
    /\ \E t \in Moments : row' = Inserted(FreshHash(p), t + ttl)
    /\ NextSalts(p)
    /\ UNCHANGED <<now, requestVars, completedBy, cleanupVars>>

Revoke ==
    /\ \E t \in Moments : Update(MayRevoke(row), Closed(row, "revoked", t))
    /\ UNCHANGED <<now, salts, requestVars, completedBy, cleanupVars>>

(* Set, replace (p is a password) or remove (p is Null) the protection. *)
UpdateProtection(p) ==
    /\ p # Null => salts < MaxSalts
    /\ \E t \in Moments :
          Update(MayProtect(row, t), Protected(row, FreshHash(p)))
    /\ NextSalts(p)
    /\ UNCHANGED <<now, requestVars, completedBy, cleanupVars>>

---------------------------------------------------------------------------
(* The consume request r; its lease id is r. *)

Answer(r, answer) == pc' = [pc EXCEPT ![r] = answer]

Verifies(p, hash) == hash = Null \/ hash.text = p

(* A link leaves Create only after its row is stored. *)
Find(r, p) ==
    /\ row # Null
    /\ pc[r] = "idle"
    /\ guess' = [guess EXCEPT ![r] = p]
    /\ \E t \in Moments :
          \/ /\ Consumable(row, t)
             /\ seen' = [seen EXCEPT ![r] = row.hash]
             /\ Answer(r, IF Verifies(p, row.hash) THEN "beginning"
                                                   ELSE "charging")
          \/ /\ ~Consumable(row, t)
             /\ Answer(r, "unavailable")
             /\ UNCHANGED seen
    /\ UNCHANGED <<now, row, salts, cipher, completedBy, cleanupVars>>

(* A wrong password; the attempt that reaches the limit locks the link.    *)
(* The answer is fixed by what the UPDATE returns, and stands from its     *)
(* commit.                                                                 *)
RecordPasswordFailure(r) ==
    /\ pc[r] = "charging"
    /\ \E t \in Moments :
          \/ /\ Update(MayCharge(row, t, seen[r]), Charged(row, t))
             /\ Answer(r, IF row'.status = "revoked" THEN "locked"
                                                     ELSE "invalid")
          \/ /\ Miss(MayCharge(row, t, seen[r]))
             /\ Answer(r, "unavailable")
    /\ UNCHANGED <<now, salts, guess, seen, cipher, completedBy, cleanupVars>>

BeginConsume(r) ==
    /\ pc[r] = "beginning"
    /\ \E t \in Moments :
          \/ /\ Update(MayBegin(row, t, seen[r]), Begun(row, t, r))
             /\ cipher' = [cipher EXCEPT ![r] = row.payload]
             /\ Answer(r, "decrypting")
          \/ /\ Miss(MayBegin(row, t, seen[r]))
             /\ Answer(r, "unavailable")
             /\ UNCHANGED cipher
    /\ UNCHANGED <<now, salts, guess, seen, completedBy, cleanupVars>>

(* Vault's answer; blank ciphertext is never decrypted. *)
Decrypt(r) ==
    /\ pc[r] = "decrypting"
    /\ \/ cipher[r] = "sealed" /\ Answer(r, "completing")
       \/ Answer(r, "restoring")
    /\ UNCHANGED <<now, row, salts, guess, seen, cipher, completedBy,
                   cleanupVars>>

RestoreConsume(r) ==
    /\ pc[r] = "restoring"
    /\ \/ Update(Holds(row, r), Released(row))
       \/ Miss(Holds(row, r))
    /\ Answer(r, "dependency")
    /\ UNCHANGED <<now, salts, guess, seen, cipher, completedBy, cleanupVars>>

(* Mutant: the number of rows affected is not looked at. *)
CompleteUnchecked(r) ==
    /\ pc[r] = "completing"
    /\ \/ \E t \in Moments : Update(Holds(row, r), Closed(row, "consumed", t))
       \/ Miss(Holds(row, r))
    /\ completedBy' = completedBy \cup {r}
    /\ Answer(r, "replying")
    /\ UNCHANGED <<now, salts, guess, seen, cipher, cleanupVars>>

CompleteConsume(r) ==
    /\ pc[r] = "completing"
    /\ \/ /\ \E t \in Moments :
                Update(Holds(row, r), Closed(row, "consumed", t))
          /\ completedBy' = completedBy \cup {r}
          /\ Answer(r, "replying")
       \/ /\ Miss(Holds(row, r))
          /\ Answer(r, "unavailable")
          /\ UNCHANGED completedBy
    /\ UNCHANGED <<now, salts, guess, seen, cipher, cleanupVars>>

(* The plaintext leaves the server only after the row is consumed. *)
Reply(r) ==
    /\ pc[r] = "replying"
    /\ Answer(r, "revealed")
    /\ UNCHANGED <<now, row, salts, guess, seen, cipher, completedBy,
                   cleanupVars>>

(* A crash, a cancelled request or a timed-out statement ends the request  *)
(* where it stands; whatever it had committed stays committed.             *)
Abandon(r) ==
    /\ pc[r] \in Working
    /\ Answer(r, "failed")
    /\ UNCHANGED <<now, row, salts, guess, seen, cipher, completedBy,
                   cleanupVars>>

---------------------------------------------------------------------------
(* The cleanup transaction c. *)

Version(c) == IF holder = c THEN draft ELSE row

Rewrite(c, matches, new) ==
    \/ /\ matches
       /\ holder \in {Null, c}
       /\ holder' = c
       /\ draft' = new
    \/ /\ ~matches
       /\ UNCHANGED <<holder, draft>>

CleanupStep(c, from, to) ==
    /\ cpc[c] = from
    /\ cpc' = [cpc EXCEPT ![c] = to]
    /\ UNCHANGED <<now, salts, requestVars, completedBy>>

BeginCleanup(c) ==
    /\ CleanupStep(c, "idle", "expire")
    /\ txNow' = [txNow EXCEPT ![c] = now]
    /\ UNCHANGED <<row, holder, draft>>

ExpireActive(c) ==
    /\ CleanupStep(c, "expire", "recover")
    /\ LET v == Version(c)
       IN  Rewrite(c, MayExpire(v, txNow[c]), Expired(v, txNow[c]))
    /\ UNCHANGED <<row, txNow>>

RecoverLeases(c) ==
    /\ CleanupStep(c, "recover", "blank")
    /\ LET v == Version(c)
       IN  Rewrite(c, MayRecover(v, txNow[c]), Released(v))
    /\ UNCHANGED <<row, txNow>>

BlankPayloads(c) ==
    /\ CleanupStep(c, "blank", "commit")
    /\ LET v == Version(c)
       IN  Rewrite(c, MayBlank(v, txNow[c]), Blanked(v))
    /\ UNCHANGED <<row, txNow>>

EndCleanup(c) ==
    /\ CleanupStep(c, cpc[c], "idle")
    /\ txNow' = [txNow EXCEPT ![c] = 0]
    /\ holder' = IF holder = c THEN Null ELSE holder
    /\ draft' = IF holder = c THEN Null ELSE draft

CommitCleanup(c) ==
    /\ cpc[c] = "commit"
    /\ row' = Version(c)
    /\ EndCleanup(c)

(* Any statement, or the commit, may fail or time out: all is undone. *)
RollbackCleanup(c) ==
    /\ cpc[c] # "idle"
    /\ EndCleanup(c)
    /\ UNCHANGED row

---------------------------------------------------------------------------
Manage ==
    \/ \E p \in Passwords \cup {Null}, ttl \in Lifetimes : Create(p, ttl)
    \/ Revoke
    \/ \E p \in Passwords \cup {Null} : UpdateProtection(p)

Consume(r) ==
    \/ \E p \in Passwords : Find(r, p)
    \/ RecordPasswordFailure(r)
    \/ BeginConsume(r)
    \/ Decrypt(r)
    \/ RestoreConsume(r)
    \/ CompleteConsume(r)
    \/ Reply(r)
    \/ Abandon(r)

Cleanup(c) ==
    \/ BeginCleanup(c)
    \/ ExpireActive(c)
    \/ RecoverLeases(c)
    \/ BlankPayloads(c)
    \/ CommitCleanup(c)
    \/ RollbackCleanup(c)

Next ==
    \/ Tick
    \/ Manage
    \/ \E r \in Requests : Consume(r)
    \/ \E c \in Cleaners : Cleanup(c)

Spec == Init /\ [][Next]_vars

(* The clock runs, every worker's ticker fires again, and a cleanup does   *)
(* not fail at the same statement for ever.  Nothing is asked of a consume *)
(* request: its client or its server may be gone.                          *)
Fairness ==
    /\ WF_vars(Tick)
    /\ \A c \in Cleaners :
          /\ WF_vars(BeginCleanup(c))
          /\ SF_vars(ExpireActive(c))
          /\ SF_vars(RecoverLeases(c))
          /\ SF_vars(BlankPayloads(c))
          /\ SF_vars(CommitCleanup(c))

FairSpec == Spec /\ Fairness

---------------------------------------------------------------------------
(* At most one request ever completes a consume, and no other end of the   *)
(* delivery (expiry, revocation, lock) coexists with a completed one: the  *)
(* row is consumed exactly when one request completed, whatever takeovers  *)
(* of stale leases, restores and cleanups came before.                     *)
AtMostOneReveal ==
    /\ \A r, s \in completedBy : r = s
    /\ completedBy # {} <=> (row # Null /\ row.status = "consumed")

(* Whoever holds the lease, or has completed, presented the password that  *)
(* is in force now: replacing or removing the protection between a         *)
(* request's read, its lease and its completion never lets an outdated     *)
(* password through.                                                       *)
LeaseNeedsPasswordInForce ==
    row # Null =>
        /\ row.status = "consuming" =>
              Verifies(guess[row.lease], row.hash)
        /\ \A r \in completedBy : Verifies(guess[r], row.hash)

(* The ciphertext is there as long as the delivery can still be revealed,  *)
(* and gone from the moment it is consumed, revoked or locked, even while  *)
(* a cleanup holds an older version of the row.                            *)
PayloadFollowsStatus ==
    row # Null =>
        /\ row.status \in {"active", "consuming"} => row.payload = "sealed"
        /\ row.status \in {"consumed", "revoked"} => row.payload = "blank"

WrongAnswers(hash) ==
    {r \in Requests : pc[r] \in {"invalid", "locked"} /\ seen[r] = hash}

(* failed_attempts is the number of requests answered as wrong against the *)
(* hash in force: concurrent failures are each counted once, none is       *)
(* charged to a password set after it was verified, and the link is locked *)
(* exactly when the limit is reached.                                      *)
FailuresAreCounted ==
    row # Null =>
        /\ row.failed =
              IF row.hash = Null THEN 0 ELSE Cardinality(WrongAnswers(row.hash))
        /\ row.failed = MaxFailed => row.status = "revoked"

(* Consumed, expired and revoked deliveries never come back, and an erased *)
(* ciphertext is never stored again.                                       *)
EndIsFinal ==
    [][row # Null =>
         /\ row' # Null
         /\ row.status \in Terminal => row'.status = row.status
         /\ row.payload = "blank" => row'.payload = "blank"]_vars

(* A lease that is not stale is given up only by its own holder, which     *)
(* completes or restores, or by a revocation: neither another request, nor *)
(* a wrong password, nor a cleanup whose NOW() is old takes it away.       *)
LiveLeaseIsKept ==
    [][row # Null /\ row.status = "consuming" /\ ~Stale(row, now) =>
         \/ UNCHANGED row
         \/ row'.status = "revoked" /\ row'.failed = row.failed
         \/ pc[row.lease] = "completing" /\ row'.status = "consumed"
         \/ pc[row.lease] = "restoring" /\ row'.status = "active"]_vars

(* What a cleanup whose NOW() is t makes of a row it shares with nobody.   *)
Cleaned(v, t) ==
    LET expired == IF MayExpire(v, t) THEN Expired(v, t) ELSE v
        recovered ==
            IF MayRecover(expired, t) THEN Released(expired) ELSE expired
    IN  IF MayBlank(recovered, t) THEN Blanked(recovered) ELSE recovered

(* OPERATIONS.md:215 "cleanup queries are idempotent": a second cleanup    *)
(* with the same NOW(), a replica's or a manual one, finds nothing left to *)
(* do, although the first statement of a cleanup matches rows that its     *)
(* second one makes active.                                                *)
CleanupIsIdempotent ==
    \A t \in 0 .. MaxTime : Cleaned(Cleaned(row, t), t) = Cleaned(row, t)

Leased == row # Null /\ row.status = "consuming"
Erased == row # Null /\ row.payload = "blank"

(* Every delivery whose expiry lies within the horizon of the clock ends   *)
(* with its ciphertext erased, whatever requests were abandoned, unless it *)
(* is left leased past its expiry: no statement of Cleanup matches then.   *)
ErasedOrStranded ==
    (row # Null /\ row.expiresAt + LeaseTTL < MaxTime) ~>
        [](Erased \/ (Leased /\ row.expiresAt <= now))

(* A delivery that does not expire within the horizon is given back by the *)
(* cleanup when the request that leased it is gone.                        *)
StaleLeaseIsRecovered ==
    (Leased /\ Stale(row, now) /\ row.expiresAt > MaxTime) ~> ~Leased

(* OPERATIONS.md:222 says of the cleanup worker, without a condition, that *)
(* it "Clears stale consuming leases."                                     *)
StaleLeaseIsCleared == (Leased /\ Stale(row, now)) ~> ~Leased

---------------------------------------------------------------------------
(* The refinement mapping: an active or leased row is an available secret. *)
Phase ==
    IF row = Null THEN "absent"
    ELSE IF row.status \in {"active", "consuming"} THEN "available"
    ELSE IF row.status = "consumed" THEN "revealed"
    ELSE "withdrawn"

Lock == IF row = Null \/ row.hash = Null THEN Null ELSE row.hash.text

Stored == row # Null /\ row.payload = "sealed"

Promise == INSTANCE OneTimeSecret WITH
    Recipients <- Requests, None <- Null,
    phase <- Phase, lock <- Lock, offered <- guess,
    recipients <- completedBy, stored <- Stored

(* Seen through the mapping, every behaviour of the service is a behaviour *)
(* of the one-time secret it promises.                                     *)
OneTime == Promise!Spec
=============================================================================
