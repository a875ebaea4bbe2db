------------------------ MODULE SecretDeliveryProofs ------------------------
(***************************************************************************)
(* Safety of SecretDelivery for every set of requests, passwords and       *)
(* cleanup workers and every value of the times and limits.                *)
(***************************************************************************)
EXTENDS SecretDelivery, FiniteSetTheorems, TLAPS

---------------------------------------------------------------------------
(* The SET clauses keep the row's column types. *)

(* A row inserted with any hash and expiry is a row. *)
LEMMA InsertedType ==
    ASSUME NEW h \in Hashes \cup {Null}, NEW e \in Nat
    PROVE  Inserted(h, e) \in Rows
BY RowAssumption, SMT DEF Inserted, Rows, Status, Terminal

(* Taking the lease leaves a row. *)
LEMMA BegunType ==
    ASSUME NEW v \in Rows, NEW t \in Nat, NEW l \in Leases
    PROVE  Begun(v, t, l) \in Rows
BY Zenon DEF Begun, Rows, Status, Terminal

(* Giving the lease back leaves a row. *)
LEMMA ReleasedType ==
    ASSUME NEW v \in Rows
    PROVE  Released(v) \in Rows
BY Zenon DEF Released, Rows, Status, Terminal

(* Consuming or revoking leaves a row. *)
LEMMA ClosedType ==
    ASSUME NEW v \in Rows, NEW s \in Terminal, NEW t \in Nat
    PROVE  Closed(v, s, t) \in Rows
BY Zenon DEF Closed, Rows, Status

(* Counting a failure below the limit leaves a row, which is either locked *)
(* or given back.                                                          *)
LEMMA ChargedType ==
    ASSUME NEW v \in Rows, NEW t \in Nat, v.failed < MaxFailed
    PROVE  Charged(v, t) \in Rows
<1> DEFINE w == [v EXCEPT !.failed = @ + 1]
<1>1. w \in Rows
  BY RowAssumption, SMT DEF Rows
<1>2. Closed(w, "revoked", t) \in Rows
  BY <1>1, ClosedType DEF Terminal
<1>3. Released(w) \in Rows
  BY <1>1, ReleasedType
<1> QED
  BY <1>2, <1>3 DEF Charged

(* Changing the protection leaves a row. *)
LEMMA ProtectedType ==
    ASSUME NEW v \in Rows, NEW h \in Hashes \cup {Null}
    PROVE  Protected(v, h) \in Rows
<1>1. 0 \in 0 .. MaxFailed
  BY RowAssumption, SMT
<1> QED
  BY <1>1, Zenon DEF Protected, Rows

(* Expiring leaves a row. *)
LEMMA ExpiredType ==
    ASSUME NEW v \in Rows, NEW t \in Nat
    PROVE  Expired(v, t) \in Rows
BY Zenon DEF Expired, Rows, Status, Terminal

(* Erasing the ciphertext leaves a row. *)
LEMMA BlankedType ==
    ASSUME NEW v \in Rows
    PROVE  Blanked(v) \in Rows
BY Zenon DEF Blanked, Rows

---------------------------------------------------------------------------
(* A statement's NOW() is a time of the clock. *)
LEMMA MomentsAreTimes ==
    ASSUME TypeOK
    PROVE  Moments \subseteq Nat /\ \A t \in Moments : t <= now
BY DeliveryAssumption, SMT DEF TypeOK, Moments

(* The version of the row a cleanup sees is a row or absent. *)
LEMMA VersionType ==
    ASSUME TypeOK, NEW c \in Cleaners
    PROVE  Version(c) \in Rows \cup {Null}
BY DEF TypeOK, Version

(* A hash stored by Create or UpdateProtection is new and within bounds. *)
LEMMA FreshHashType ==
    ASSUME TypeOK, NEW p \in Passwords \cup {Null}, p # Null => salts < MaxSalts
    PROVE  /\ FreshHash(p) \in Hashes \cup {Null}
           /\ NextSalts(p) => salts' \in 0 .. MaxSalts
           /\ FreshHash(p) = Null <=> p = Null
           /\ p # Null => FreshHash(p).text = p
<1>1. CASE p = Null
  BY <1>1 DEF FreshHash, NextSalts, TypeOK
<1>2. CASE p # Null
  <2>1. salts + 1 \in 1 .. MaxSalts /\ salts + 1 \in 0 .. MaxSalts
    BY <1>2, RowAssumption, SMT DEF TypeOK
  <2>2. FreshHash(p).text = p
    BY <1>2 DEF FreshHash
  <2>3. FreshHash(p) \in Hashes
    BY <1>2, <2>1, Zenon DEF FreshHash, Hashes
  <2>4. NextSalts(p) => salts' \in 0 .. MaxSalts
    BY <1>2, <2>1 DEF NextSalts
  <2> QED
    BY <1>2, <2>2, <2>3, <2>4, RowAssumption
<1> QED
  BY <1>1, <1>2

(* Every action keeps the types of the variables. *)
LEMMA TypeStep ==
    ASSUME TypeOK, [Next]_vars
    PROVE  TypeOK'
<1> USE DEF Requests
<1>1. Moments \subseteq Nat
  BY MomentsAreTimes
<1>2. CASE Tick
  <2>1. now' \in 0 .. MaxTime
    BY <1>2, DeliveryAssumption, SMT DEF Tick, TypeOK
  <2> QED
    BY <1>2, <2>1 DEF Tick, TypeOK, requestVars, cleanupVars
<1>3. ASSUME NEW p \in Passwords \cup {Null}, NEW ttl \in Lifetimes,
             Create(p, ttl)
      PROVE  TypeOK'
  <2>1. FreshHash(p) \in Hashes \cup {Null} /\ salts' \in 0 .. MaxSalts
    BY <1>3, FreshHashType DEF Create
  <2>2. row' \in Rows
    <3>1. PICK t \in Moments : row' = Inserted(FreshHash(p), t + ttl)
      BY <1>3 DEF Create
    <3>2. t + ttl \in Nat
      BY <1>1, DeliveryAssumption
    <3> QED
      BY <2>1, <3>1, <3>2, InsertedType
  <2> QED
    BY <1>3, <2>1, <2>2 DEF Create, TypeOK, requestVars, cleanupVars
<1>4. CASE Revoke
  <2>1. row' \in Rows
    <3>1. PICK t \in Moments :
             Update(MayRevoke(row), Closed(row, "revoked", t))
      BY <1>4 DEF Revoke
    <3> QED
      BY <1>1, <3>1, ClosedType DEF Update, MayRevoke, TypeOK, Terminal
  <2> QED
    BY <1>4, <2>1 DEF Revoke, TypeOK, requestVars, cleanupVars
<1>5. ASSUME NEW p \in Passwords \cup {Null}, UpdateProtection(p)
      PROVE  TypeOK'
  <2>1. FreshHash(p) \in Hashes \cup {Null} /\ salts' \in 0 .. MaxSalts
    BY <1>5, FreshHashType DEF UpdateProtection
  <2>2. row' \in Rows
    <3>1. PICK t \in Moments :
             Update(MayProtect(row, t), Protected(row, FreshHash(p)))
      BY <1>5 DEF UpdateProtection
    <3> QED
      BY <2>1, <3>1, ProtectedType DEF Update, MayProtect, TypeOK
  <2> QED
    BY <1>5, <2>1, <2>2 DEF UpdateProtection, TypeOK, requestVars, cleanupVars
<1>6. ASSUME NEW r \in Requests, Consume(r)
      PROVE  TypeOK'
  <2>1. ASSUME NEW p \in Passwords, Find(r, p)
        PROVE  TypeOK'
    <3>1. seen' \in [Requests -> Hashes \cup {Null}]
      BY <2>1, Zenon DEF Find, Consumable, TypeOK, Rows
    <3>2. pc' \in [Requests -> {"idle"} \cup Working \cup Answers]
      BY <2>1 DEF Find, TypeOK, Answer, Working, Answers
    <3>3. guess' \in [Requests -> Passwords \cup {Null}]
      BY <2>1 DEF Find, TypeOK
    <3> QED
      BY <2>1, <3>1, <3>2, <3>3 DEF Find, TypeOK, cleanupVars
  <2>2. CASE RecordPasswordFailure(r)
    <3>1. row' \in Rows \cup {Null}
      <4>1. PICK t \in Moments :
               \/ Update(MayCharge(row, t, seen[r]), Charged(row, t))
               \/ Miss(MayCharge(row, t, seen[r]))
        BY <2>2 DEF RecordPasswordFailure
      <4>2. CASE Update(MayCharge(row, t, seen[r]), Charged(row, t))
        BY <1>1, <4>2, ChargedType DEF Update, MayCharge, Consumable, TypeOK
      <4> QED
        BY <4>1, <4>2 DEF Miss, TypeOK
    <3>2. pc' \in [Requests -> {"idle"} \cup Working \cup Answers]
      BY <2>2 DEF RecordPasswordFailure, TypeOK, Answer, Answers
    <3> QED
      BY <2>2, <3>1, <3>2 DEF RecordPasswordFailure, TypeOK, cleanupVars
  <2>3. CASE BeginConsume(r)
    <3>1. row' \in Rows \cup {Null}
      <4>1. PICK t \in Moments :
               \/ Update(MayBegin(row, t, seen[r]), Begun(row, t, r))
               \/ Miss(MayBegin(row, t, seen[r]))
        BY <2>3 DEF BeginConsume
      <4>2. CASE Update(MayBegin(row, t, seen[r]), Begun(row, t, r))
        BY <1>1, <4>2, BegunType DEF Update, MayBegin, Consumable, TypeOK
      <4> QED
        BY <4>1, <4>2 DEF Miss, TypeOK
    <3>2. cipher' \in [Requests -> {"sealed", "blank", Null}]
      BY <2>3, Zenon
      DEF BeginConsume, Update, MayBegin, Consumable, TypeOK, Rows
    <3>3. pc' \in [Requests -> {"idle"} \cup Working \cup Answers]
      BY <2>3 DEF BeginConsume, TypeOK, Answer, Working, Answers
    <3> QED
      BY <2>3, <3>1, <3>2, <3>3 DEF BeginConsume, TypeOK, cleanupVars
  <2>4. CASE Decrypt(r)
    BY <2>4 DEF Decrypt, Answer, Working, TypeOK, cleanupVars
  <2>5. CASE RestoreConsume(r)
    <3>1. row' \in Rows \cup {Null}
      BY <2>5, ReleasedType DEF RestoreConsume, Update, Miss, Holds, TypeOK
    <3> QED
      BY <2>5, <3>1 DEF RestoreConsume, Answer, Answers, TypeOK, cleanupVars
  <2>6. CASE CompleteConsume(r)
    <3>1. row' \in Rows \cup {Null}
      BY <1>1, <2>6, ClosedType
      DEF CompleteConsume, Update, Miss, Holds, TypeOK, Terminal
    <3> QED
      BY <2>6, <3>1
      DEF CompleteConsume, Answer, Answers, Working, TypeOK, cleanupVars
  <2>7. CASE Reply(r)
    BY <2>7 DEF Reply, Answer, Answers, TypeOK, cleanupVars
  <2>8. CASE Abandon(r)
    BY <2>8 DEF Abandon, Answer, Answers, TypeOK, cleanupVars
  <2> QED
    BY <1>6, <2>1, <2>2, <2>3, <2>4, <2>5, <2>6, <2>7, <2>8 DEF Consume
<1>7. ASSUME NEW c \in Cleaners, Cleanup(c)
      PROVE  TypeOK'
  <2>1. Version(c) \in Rows \cup {Null} /\ txNow[c] \in Nat
    BY VersionType, DeliveryAssumption, SMT DEF TypeOK
  <2>2. CASE BeginCleanup(c)
    BY <2>2 DEF BeginCleanup, CleanupStep, TypeOK, requestVars
  <2>3. CASE ExpireActive(c)
    <3>1. draft' \in Rows \cup {Null}
      BY <2>1, <2>3, ExpiredType DEF ExpireActive, Rewrite, MayExpire, TypeOK
    <3> QED
      BY <2>3, <3>1
      DEF ExpireActive, Rewrite, CleanupStep, TypeOK, requestVars
  <2>4. CASE RecoverLeases(c)
    <3>1. draft' \in Rows \cup {Null}
      BY <2>1, <2>4, ReleasedType DEF RecoverLeases, Rewrite, MayRecover, TypeOK
    <3> QED
      BY <2>4, <3>1
      DEF RecoverLeases, Rewrite, CleanupStep, TypeOK, requestVars
  <2>5. CASE BlankPayloads(c)
    <3>1. draft' \in Rows \cup {Null}
      BY <2>1, <2>5, BlankedType DEF BlankPayloads, Rewrite, MayBlank, TypeOK
    <3> QED
      BY <2>5, <3>1
      DEF BlankPayloads, Rewrite, CleanupStep, TypeOK, requestVars
  <2>6. 0 \in 0 .. MaxTime
    BY DeliveryAssumption, SMT
  <2>7. CASE CommitCleanup(c)
    BY <2>1, <2>6, <2>7
    DEF CommitCleanup, EndCleanup, CleanupStep, TypeOK, requestVars
  <2>8. CASE RollbackCleanup(c)
    BY <2>6, <2>8
    DEF RollbackCleanup, EndCleanup, CleanupStep, TypeOK, requestVars
  <2> QED
    BY <1>7, <2>2, <2>3, <2>4, <2>5, <2>7, <2>8 DEF Cleanup
<1>8. CASE UNCHANGED vars
  BY <1>8 DEF vars, requestVars, cleanupVars, TypeOK
<1> QED
  BY <1>2, <1>3, <1>4, <1>5, <1>6, <1>7, <1>8 DEF Next, Manage

(* Every variable keeps its type, for any number of requests, cleanups and *)
(* passwords and any value of the times and limits.                        *)
THEOREM TypeCorrect == Spec => []TypeOK
<1>1. Init => TypeOK
  BY RowAssumption, DeliveryAssumption, SMT DEF Init, TypeOK, Requests
<1>2. TypeOK /\ [Next]_vars => TypeOK'
  BY TypeStep
<1> QED
  BY <1>1, <1>2, PTL DEF Spec

---------------------------------------------------------------------------
(* The inductive invariant.  The safety properties alone are not           *)
(* inductive: one must know what a row carries in each status, that the    *)
(* request holding the lease verified its password against the hash still  *)
(* stored, and that the version a cleanup is about to commit continues the *)
(* committed row, which the row lock protects meanwhile.                   *)

RowInv(v) ==
    v # Null =>
        /\ v.status \in {"active", "consuming"} => v.payload = "sealed"
        /\ v.status # "revoked" => v.failed < MaxFailed
        /\ v.status \in {"consumed", "revoked"} => v.payload = "blank"
        /\ v.status = "consuming" => v.lease \in Requests /\ v.startedAt \in Nat

(* `new' is what a cleanup may make of `old' with NOW() = t. *)
Continues(old, new, t) ==
    /\ old # Null
    /\ new # Null
    /\ new.hash = old.hash
    /\ new.failed = old.failed
    /\ old.payload = "blank" => new.payload = "blank"
    /\ \/ old.status = "active" /\ new.status = "expired"
       \/ /\ old.status = "consuming"
          /\ Stale(old, t)
          /\ new.status = "active"
          /\ new.payload = old.payload
       \/ old.status \in Terminal /\ new.status = old.status

CleanupInv ==
    /\ \A c \in Cleaners : txNow[c] <= now
    /\ holder # Null =>
          /\ cpc[holder] \in {"recover", "blank", "commit"}
          /\ Continues(row, draft, txNow[holder])
          /\ RowInv(draft)

Verified(r) == Verifies(guess[r], seen[r])

RequestInv ==
    /\ \A r \in Requests :
          /\ pc[r] = "idle" => guess[r] = Null /\ r \notin completedBy
          /\ pc[r] = "beginning" => Verified(r)
    /\ row # Null /\ row.status = "consuming" =>
          /\ pc[row.lease] \notin {"idle", "beginning", "charging"}
          /\ seen[row.lease] = row.hash
          /\ Verified(row.lease)

CompletionInv ==
    /\ \A r, s \in completedBy : r = s
    /\ completedBy # {} <=> (row # Null /\ row.status = "consumed")
    /\ \A r \in completedBy : Verifies(guess[r], row.hash)

IInv ==
    /\ TypeOK
    /\ RowInv(row)
    /\ CleanupInv
    /\ RequestInv
    /\ CompletionInv
---------------------------------------------------------------------------
(* What each SET clause does to the columns the invariant speaks of. *)

(* Taking the lease changes nothing but the status and the lease. *)
LEMMA BegunFields ==
    ASSUME NEW v \in Rows, NEW t \in Nat, NEW l \in Leases
    PROVE  LET w == Begun(v, t, l)
           IN  /\ w.status = "consuming" /\ w.startedAt = t /\ w.lease = l
               /\ w.payload = v.payload /\ w.hash = v.hash
               /\ w.failed = v.failed
BY SMT DEF Begun, Rows

(* Giving the lease back keeps ciphertext, password and failures. *)
LEMMA ReleasedFields ==
    ASSUME NEW v \in Rows
    PROVE  LET w == Released(v)
           IN  /\ w.status = "active" /\ w.payload = v.payload
               /\ w.hash = v.hash /\ w.failed = v.failed
BY SMT DEF Released, Rows

(* Consuming or revoking erases the ciphertext. *)
LEMMA ClosedFields ==
    ASSUME NEW v \in Rows, NEW s \in Terminal, NEW t \in Nat
    PROVE  LET w == Closed(v, s, t)
           IN  /\ w.status = s /\ w.payload = "blank"
               /\ w.hash = v.hash /\ w.failed = v.failed
BY SMT DEF Closed, Rows

(* A counted failure locks and erases, or gives the lease back below the   *)
(* limit.                                                                  *)
LEMMA ChargedFields ==
    ASSUME NEW v \in Rows, NEW t \in Nat, v.failed < MaxFailed
    PROVE  LET w == Charged(v, t)
           IN  /\ w.hash = v.hash
               /\ w.failed = v.failed + 1
               /\ \/ w.status = "revoked" /\ w.payload = "blank"
                  \/ /\ w.status = "active" /\ w.payload = v.payload
                     /\ w.failed < MaxFailed
<1> DEFINE u == [v EXCEPT !.failed = @ + 1]
<1>1. /\ u \in Rows /\ u.failed = v.failed + 1
      /\ u.hash = v.hash /\ u.payload = v.payload
  BY RowAssumption, SMT DEF Rows
<1>2. v.failed \in Nat
  BY RowAssumption, SMT DEF Rows
<1>3. CASE u.failed >= MaxFailed
  <2>1. Charged(v, t) = Closed(u, "revoked", t)
    BY <1>3 DEF Charged
  <2> HIDE DEF u
  <2>2. "revoked" \in Terminal
    BY DEF Terminal
  <2> QED
    BY <1>1, <2>1, <2>2, ClosedFields
<1>4. CASE ~(u.failed >= MaxFailed)
  <2>1. u.failed < MaxFailed
    BY <1>1, <1>2, <1>4, RowAssumption, SMT
  <2> QED
    BY <1>1, <1>4, <2>1, ReleasedFields DEF Charged
<1> QED
  BY <1>3, <1>4

(* Changing the protection restarts the count of failures. *)
LEMMA ProtectedFields ==
    ASSUME NEW v \in Rows, NEW h \in Hashes \cup {Null}
    PROVE  LET w == Protected(v, h)
           IN  /\ w.status = v.status /\ w.payload = v.payload
               /\ w.hash = h /\ w.failed = 0
BY SMT DEF Protected, Rows

(* Expiring keeps the ciphertext for its retention. *)
LEMMA ExpiredFields ==
    ASSUME NEW v \in Rows, NEW t \in Nat
    PROVE  LET w == Expired(v, t)
           IN  /\ w.status = "expired" /\ w.payload = v.payload
               /\ w.hash = v.hash /\ w.failed = v.failed
BY SMT DEF Expired, Rows

(* Erasing keeps everything but the ciphertext. *)
LEMMA BlankedFields ==
    ASSUME NEW v \in Rows
    PROVE  LET w == Blanked(v)
           IN  /\ w.status = v.status /\ w.payload = "blank"
               /\ w.hash = v.hash /\ w.failed = v.failed
BY SMT DEF Blanked, Rows
---------------------------------------------------------------------------
(* The invariant is inductive. *)

(* The row lock: a statement that rewrites the row finds no cleanup        *)
(* holding it, any other leaves the row as the cleanup knows it.           *)
LEMMA CleanupInvKept ==
    ASSUME TypeOK, CleanupInv, UNCHANGED cleanupVars,
           now' \in Nat, now <= now',
           holder = Null \/ row' = row
    PROVE  CleanupInv'
<1>1. \A c \in Cleaners : txNow'[c] <= now'
  BY DeliveryAssumption, SMT DEF TypeOK, CleanupInv, cleanupVars
<1>2. holder' # Null => UNCHANGED <<cpc, txNow, holder, draft, row>>
  BY DEF cleanupVars
<1> QED
  BY <1>1, <1>2, Zenon DEF CleanupInv, Continues, RowInv, Stale, cleanupVars

(* A step that touches neither row nor requests keeps what relates them. *)
LEMMA RequestInvKept ==
    ASSUME RequestInv, CompletionInv,
           UNCHANGED <<row, pc, guess, seen, completedBy>>
    PROVE  RequestInv' /\ CompletionInv'
BY DEF RequestInv, CompletionInv, Verified

(* Creating, revoking and changing the protection keep the invariant. *)
LEMMA ManageStep ==
    ASSUME IInv, Manage
    PROVE  /\ RowInv(row)' /\ CleanupInv'
           /\ RequestInv' /\ CompletionInv'
<1>1. Moments \subseteq Nat /\ now \in Nat /\ now <= now
  BY MomentsAreTimes, DeliveryAssumption, SMT DEF IInv, TypeOK
<1>2. ASSUME NEW p \in Passwords \cup {Null}, NEW ttl \in Lifetimes,
             Create(p, ttl)
      PROVE  /\ RowInv(row)' /\ CleanupInv'
             /\ RequestInv' /\ CompletionInv'
  <2>1. PICK t \in Moments : row' = Inserted(FreshHash(p), t + ttl)
    BY <1>2 DEF Create
  <2>2. /\ row' # Null /\ row'.status = "active" /\ row'.payload = "sealed"
        /\ row'.failed = 0
    <3>1. t + ttl \in Nat
      BY <1>1, DeliveryAssumption
    <3>2. row' \in Rows
      BY <1>2, <2>1, <3>1, FreshHashType, InsertedType DEF IInv, Create
    <3> QED
      BY <2>1, <3>2, RowNotNull, SMT DEF Inserted
  <2>3. RowInv(row)'
    BY <2>2, RowAssumption, SMT DEF RowInv
  <2>4. holder = Null
    BY <1>2 DEF IInv, CleanupInv, Continues, Create
  <2>5. CleanupInv'
    BY <1>1, <1>2, <2>4, CleanupInvKept DEF IInv, Create
  <2>6. RequestInv' /\ CompletionInv'
    BY <1>2, <2>2
    DEF IInv, Create, RequestInv, CompletionInv, Verified, requestVars
  <2> QED
    BY <2>3, <2>5, <2>6
<1>3. ASSUME NEW new, row \in Rows, row' = new, new \in Rows, holder = Null,
             UNCHANGED <<now, requestVars, completedBy, cleanupVars>>,
             row.status \in {"active", "consuming"},
             \/ new.status = "revoked" /\ new.payload = "blank"
             \/ /\ new.status = "active" /\ new.payload = row.payload
                /\ new.failed < MaxFailed
      PROVE  /\ RowInv(row)' /\ CleanupInv'
             /\ RequestInv' /\ CompletionInv'
  <2>1. RowInv(row)'
    BY <1>3, RowNotNull DEF IInv, RowInv
  <2>2. CleanupInv'
    BY <1>1, <1>3, CleanupInvKept DEF IInv
  <2>3. RequestInv' /\ CompletionInv'
    BY <1>3, RowNotNull
    DEF IInv, RequestInv, CompletionInv, Verified, requestVars
  <2> QED
    BY <2>1, <2>2, <2>3
<1>4. CASE Revoke
  <2>1. PICK t \in Moments : Update(MayRevoke(row), Closed(row, "revoked", t))
    BY <1>4 DEF Revoke
  <2>2. row \in Rows
    BY <2>1 DEF Update, MayRevoke, IInv, TypeOK
  <2>3. Closed(row, "revoked", t) \in Rows
    BY <1>1, <2>2, ClosedType DEF Terminal
  <2> QED
    BY <1>1, <1>3, <1>4, <2>1, <2>2, <2>3, ClosedFields
    DEF Revoke, Update, MayRevoke, Terminal
<1>5. ASSUME NEW p \in Passwords \cup {Null}, UpdateProtection(p)
      PROVE  /\ RowInv(row)' /\ CleanupInv'
             /\ RequestInv' /\ CompletionInv'
  <2>1. PICK t \in Moments :
             Update(MayProtect(row, t), Protected(row, FreshHash(p)))
    BY <1>5 DEF UpdateProtection
  <2>2. row \in Rows /\ FreshHash(p) \in Hashes \cup {Null}
    BY <1>5, <2>1, FreshHashType
    DEF Update, MayProtect, IInv, TypeOK, UpdateProtection
  <2>3. Protected(row, FreshHash(p)) \in Rows
    BY <2>2, ProtectedType
  <2>4. 0 < MaxFailed
    BY RowAssumption, SMT
  <2> QED
    BY <1>3, <1>5, <2>1, <2>2, <2>3, <2>4, ProtectedFields
    DEF UpdateProtection, Update, MayProtect
<1> QED
  BY <1>2, <1>4, <1>5 DEF Manage
(* What a consume request does to its own state and to the row, whatever   *)
(* statement it executes: the facts the invariant needs of each.           *)
LEMMA ConsumeStep ==
    ASSUME IInv, NEW r \in Requests, Consume(r)
    PROVE  /\ RowInv(row)' /\ CleanupInv'
           /\ RequestInv' /\ CompletionInv'
<1>1. Moments \subseteq Nat /\ now \in Nat /\ now <= now
  BY MomentsAreTimes, DeliveryAssumption, SMT DEF IInv, TypeOK
<1>2. ASSUME UNCHANGED <<now, cleanupVars>>, holder = Null \/ row' = row
      PROVE  CleanupInv'
  BY <1>1, <1>2, CleanupInvKept DEF IInv
<1> USE DEF Requests
<1>3. ASSUME NEW p \in Passwords, Find(r, p)
      PROVE  /\ RowInv(row)' /\ CleanupInv'
             /\ RequestInv' /\ CompletionInv'
  <2>1. RowInv(row)' /\ CleanupInv'
    BY <1>2, <1>3 DEF Find, IInv, RowInv
  <2>2. \A s \in Requests : s # r =>
           pc'[s] = pc[s] /\ guess'[s] = guess[s] /\ seen'[s] = seen[s]
    BY <1>3 DEF Find, Answer, IInv, TypeOK
  <2>3. pc'[r] \in {"beginning", "charging", "unavailable"}
    BY <1>3 DEF Find, Answer, IInv, TypeOK
  <2>4. pc'[r] = "beginning" => Verified(r)'
    BY <1>3 DEF Find, Answer, IInv, TypeOK, Verified
  <2>5. pc[r] = "idle" /\ UNCHANGED <<row, completedBy>>
    BY <1>3 DEF Find
  <2>6. RequestInv'
    <3>1. row # Null /\ row.status = "consuming" =>
             row.lease \in Requests /\ row.lease # r
      BY <2>5 DEF IInv, RowInv, RequestInv
    <3> QED
      BY <2>2, <2>3, <2>4, <2>5, <3>1 DEF IInv, RequestInv, Verified
  <2>7. CompletionInv'
    BY <2>2, <2>5 DEF IInv, RequestInv, CompletionInv, TypeOK
  <2> QED
    BY <2>1, <2>6, <2>7
<1>4. ASSUME UNCHANGED <<row, guess, seen, completedBy>>,
             NEW a \in Working \cup Answers, Answer(r, a),
             pc[r] # "idle", a \notin {"beginning", "charging"}
      PROVE  RowInv(row)' /\ RequestInv' /\ CompletionInv'
  <2>1. \A s \in Requests : s # r => pc'[s] = pc[s]
    BY <1>4 DEF Answer, IInv, TypeOK
  <2>2. pc'[r] = a /\ a # "idle"
    BY <1>4 DEF Answer, IInv, TypeOK, Working, Answers
  <2> QED
    BY <1>4, <2>1, <2>2
    DEF IInv, RowInv, RequestInv, CompletionInv, Verified
<1>5. CASE RecordPasswordFailure(r)
  <2>1. PICK t \in Moments :
          \/ /\ Update(MayCharge(row, t, seen[r]), Charged(row, t))
             /\ Answer(r, IF row'.status = "revoked" THEN "locked"
                                                     ELSE "invalid")
          \/ /\ Miss(MayCharge(row, t, seen[r]))
             /\ Answer(r, "unavailable")
    BY <1>5 DEF RecordPasswordFailure
  <2>2. CleanupInv'
    BY <1>2, <1>5, <2>1 DEF RecordPasswordFailure, Update, Miss
  <2>3. CASE Update(MayCharge(row, t, seen[r]), Charged(row, t))
    <3>1. /\ row \in Rows /\ row # Null /\ row.failed < MaxFailed
          /\ row.status \in {"active", "consuming"}
      BY <2>3
      DEF Update, MayCharge, Consumable, IInv, TypeOK
    <3>2. row' \in Rows /\ row' # Null
      BY <1>1, <2>3, <3>1, ChargedType, RowNotNull DEF Update
    <3>3. \/ row'.status = "revoked" /\ row'.payload = "blank"
          \/ /\ row'.status = "active" /\ row'.payload = row.payload
             /\ row'.failed < MaxFailed
      BY <1>1, <2>3, <3>1, ChargedFields DEF Update
    <3>4. RowInv(row)'
      BY <3>1, <3>2, <3>3 DEF IInv, RowInv
    <3>5. \A s \in Requests : s # r => pc'[s] = pc[s]
      BY <1>5 DEF RecordPasswordFailure, Answer, IInv, TypeOK
    <3>6. pc'[r] \in {"locked", "invalid", "unavailable"} /\ pc[r] = "charging"
      BY <1>5 DEF RecordPasswordFailure, Answer, IInv, TypeOK
    <3>7. RequestInv' /\ CompletionInv'
      BY <1>5, <3>1, <3>2, <3>3, <3>5, <3>6
      DEF IInv, RecordPasswordFailure, RequestInv, CompletionInv, Verified
    <3> QED
      BY <2>2, <3>4, <3>7
  <2>4. CASE Miss(MayCharge(row, t, seen[r])) /\ Answer(r, "unavailable")
    BY <1>4, <1>5, <2>2, <2>4
    DEF Miss, RecordPasswordFailure, Answers
  <2> QED
    BY <2>1, <2>3, <2>4
<1>6. CASE BeginConsume(r)
  <2>1. PICK t \in Moments :
          \/ /\ Update(MayBegin(row, t, seen[r]), Begun(row, t, r))
             /\ Answer(r, "decrypting")
          \/ /\ Miss(MayBegin(row, t, seen[r]))
             /\ Answer(r, "unavailable")
    BY <1>6 DEF BeginConsume
  <2>2. CleanupInv'
    BY <1>2, <1>6, <2>1 DEF BeginConsume, Update, Miss
  <2>3. CASE /\ Update(MayBegin(row, t, seen[r]), Begun(row, t, r))
             /\ Answer(r, "decrypting")
    <3>1. /\ row \in Rows /\ row # Null /\ row.failed < MaxFailed
          /\ row.status \in {"active", "consuming"} /\ row.hash = seen[r]
      BY <2>3 DEF Update, MayBegin, Consumable, IInv, TypeOK
    <3>2. row' \in Rows /\ row' # Null
      BY <1>1, <2>3, <3>1, BegunType, RowNotNull DEF Update
    <3>3. /\ row'.status = "consuming" /\ row'.startedAt = t /\ row'.lease = r
          /\ row'.payload = row.payload /\ row'.hash = row.hash
          /\ row'.failed = row.failed
      BY <1>1, <2>3, <3>1, BegunFields DEF Update
    <3>4. RowInv(row)'
      BY <1>1, <3>1, <3>2, <3>3 DEF IInv, RowInv
    <3>5. \A s \in Requests : s # r => pc'[s] = pc[s]
      BY <2>3 DEF Answer, IInv, TypeOK
    <3>6. pc'[r] = "decrypting" /\ pc[r] = "beginning" /\ Verified(r)
      BY <1>6, <2>3
      DEF BeginConsume, Answer, IInv, TypeOK, RequestInv
    <3>7. RequestInv'
      BY <1>6, <3>1, <3>2, <3>3, <3>5, <3>6
      DEF IInv, BeginConsume, RequestInv, Verified
    <3>8. CompletionInv'
      BY <1>6, <3>1, <3>2, <3>3 DEF IInv, BeginConsume, CompletionInv
    <3> QED
      BY <2>2, <3>4, <3>7, <3>8
  <2>4. CASE Miss(MayBegin(row, t, seen[r])) /\ Answer(r, "unavailable")
    BY <1>4, <1>6, <2>2, <2>4 DEF Miss, BeginConsume, Answers
  <2> QED
    BY <2>1, <2>3, <2>4
<1>7. CASE Decrypt(r)
  <2>1. CleanupInv'
    BY <1>2, <1>7 DEF Decrypt
  <2>2. RowInv(row)' /\ RequestInv' /\ CompletionInv'
    BY <1>4, <1>7 DEF Decrypt, Working
  <2> QED
    BY <2>1, <2>2
<1>8. CASE RestoreConsume(r)
  <2>1. CleanupInv'
    BY <1>2, <1>8 DEF RestoreConsume, Update, Miss
  <2>2. CASE Update(Holds(row, r), Released(row))
    <3>1. row \in Rows /\ row # Null /\ row.status = "consuming"
      BY <2>2 DEF Update, Holds, IInv, TypeOK
    <3>2. row' \in Rows /\ row' # Null
      BY <2>2, <3>1, ReleasedType, RowNotNull DEF Update
    <3>3. /\ row'.status = "active" /\ row'.payload = row.payload
          /\ row'.failed = row.failed
      BY <2>2, <3>1, ReleasedFields DEF Update
    <3>4. RowInv(row)'
      BY <3>1, <3>2, <3>3 DEF IInv, RowInv
    <3>5. \A s \in Requests : s # r => pc'[s] = pc[s]
      BY <1>8 DEF RestoreConsume, Answer, IInv, TypeOK
    <3>6. pc'[r] = "dependency" /\ pc[r] = "restoring"
      BY <1>8 DEF RestoreConsume, Answer, IInv, TypeOK
    <3>7. RequestInv' /\ CompletionInv'
      BY <1>8, <3>1, <3>2, <3>3, <3>5, <3>6
      DEF IInv, RestoreConsume, RequestInv, CompletionInv, Verified
    <3> QED
      BY <2>1, <3>4, <3>7
  <2>3. CASE Miss(Holds(row, r))
    BY <1>4, <1>8, <2>1, <2>3 DEF Miss, RestoreConsume, Answers
  <2> QED
    BY <1>8, <2>2, <2>3 DEF RestoreConsume
<1>9. CASE CompleteConsume(r)
  <2>1. CleanupInv'
    BY <1>2, <1>9 DEF CompleteConsume, Update, Miss
  <2>2. CASE /\ \E t \in Moments :
                   Update(Holds(row, r), Closed(row, "consumed", t))
             /\ completedBy' = completedBy \cup {r}
             /\ Answer(r, "replying")
    <3>1. PICK t \in Moments : Update(Holds(row, r), Closed(row, "consumed", t))
      BY <2>2
    <3>2. /\ row \in Rows /\ row # Null /\ row.status = "consuming"
          /\ row.lease = r
      BY <3>1 DEF Update, Holds, IInv, TypeOK
    <3>3. row' \in Rows /\ row' # Null
      BY <1>1, <3>1, <3>2, ClosedType, RowNotNull DEF Update, Terminal
    <3>4. /\ row'.status = "consumed" /\ row'.payload = "blank"
          /\ row'.hash = row.hash /\ row'.failed = row.failed
      BY <1>1, <3>1, <3>2, ClosedFields DEF Update, Terminal
    <3>5. RowInv(row)'
      BY <3>2, <3>3, <3>4 DEF IInv, RowInv
    <3>6. completedBy = {} /\ Verifies(guess[r], row.hash)
      BY <3>2 DEF IInv, RequestInv, CompletionInv, Verified
    <3>7. \A s \in Requests : s # r => pc'[s] = pc[s]
      BY <2>2 DEF Answer, IInv, TypeOK
    <3>8. pc'[r] = "replying" /\ pc[r] = "completing"
      BY <1>9, <2>2 DEF CompleteConsume, Answer, IInv, TypeOK
    <3>9. RequestInv'
      BY <1>9, <2>2, <3>4, <3>7, <3>8
      DEF IInv, CompleteConsume, RequestInv, Verified
    <3>10. CompletionInv'
      BY <1>9, <2>2, <3>3, <3>4, <3>6
      DEF CompleteConsume, CompletionInv
    <3> QED
      BY <2>1, <3>5, <3>9, <3>10
  <2>3. CASE /\ Miss(Holds(row, r)) /\ Answer(r, "unavailable")
             /\ UNCHANGED completedBy
    BY <1>4, <1>9, <2>1, <2>3 DEF Miss, CompleteConsume, Answers
  <2> QED
    BY <1>9, <2>2, <2>3 DEF CompleteConsume
<1>10. CASE Reply(r)
  BY <1>2, <1>4, <1>10 DEF Reply, Answers
<1>11. CASE Abandon(r)
  BY <1>2, <1>4, <1>11 DEF Abandon, Answers, Working
<1> QED
  BY <1>3, <1>5, <1>6, <1>7, <1>8, <1>9, <1>10, <1>11 DEF Consume
(* Every step of a cleanup keeps the invariant: its draft continues the    *)
(* row it locked, so committing the draft is a legal step of the row.      *)
LEMMA CleanupsStep ==
    ASSUME IInv, NEW c \in Cleaners, Cleanup(c)
    PROVE  /\ RowInv(row)' /\ CleanupInv'
           /\ RequestInv' /\ CompletionInv'
<1>1. /\ now \in Nat /\ txNow[c] \in Nat /\ txNow[c] <= now
      /\ now' = now
      /\ UNCHANGED <<salts, pc, guess, seen, cipher, completedBy>>
  <2>1. now \in Nat /\ txNow[c] \in Nat /\ txNow[c] <= now
    BY DeliveryAssumption, SMT DEF IInv, TypeOK, CleanupInv
  <2> QED
    BY <2>1
    DEF Cleanup, BeginCleanup, ExpireActive, RecoverLeases, BlankPayloads,
        CommitCleanup, RollbackCleanup, EndCleanup, CleanupStep, requestVars
<1>2. ASSUME row' = row
      PROVE  RowInv(row)' /\ RequestInv' /\ CompletionInv'
  BY <1>1, <1>2, RequestInvKept DEF IInv, RowInv
<1>3. \A d \in Cleaners : d # c => cpc'[d] = cpc[d] /\ txNow'[d] = txNow[d]
  BY DEF IInv, TypeOK, Cleanup, BeginCleanup, ExpireActive, RecoverLeases,
     BlankPayloads, CommitCleanup, RollbackCleanup, EndCleanup, CleanupStep
<1>4. Version(c) \in Rows \cup {Null} /\ Null \notin Rows /\ Null \notin Cleaners
  BY VersionType, RowNotNull, DeliveryAssumption DEF IInv
<1>5. ASSUME NEW from \in {"expire", "recover", "blank"},
             NEW to \in {"recover", "blank", "commit"},
             NEW matches \in BOOLEAN, NEW new,
             CleanupStep(c, from, to), UNCHANGED <<row, txNow>>,
             Rewrite(c, matches, new),
             matches => Continues(row, new, txNow[c]) /\ RowInv(new)
      PROVE  CleanupInv'
  <2>1. cpc[c] = from /\ cpc'[c] = to
    BY <1>5 DEF CleanupStep, IInv, TypeOK
  <2>2. \A d \in Cleaners : txNow'[d] <= now'
    BY <1>1, <1>5 DEF IInv, CleanupInv
  <2>3. CASE holder' = c
    <3>1. Continues(row, draft', txNow[c]) /\ RowInv(draft')
      BY <1>4, <1>5, <2>3 DEF Rewrite, IInv, CleanupInv, TypeOK
    <3>2. Continues(row, draft, txNow[holder])' /\ RowInv(draft)'
      BY <1>5, <2>3, <3>1 DEF Continues, RowInv, Stale
    <3> QED
      BY <2>1, <2>2, <2>3, <3>2 DEF CleanupInv
  <2>4. CASE holder' # c
    <3>1. UNCHANGED <<holder, draft>> /\ holder # c
      BY <1>5, <2>4 DEF Rewrite
    <3>2. holder # Null => holder \in Cleaners /\ cpc'[holder] = cpc[holder]
      BY <1>3, <3>1 DEF IInv, TypeOK
    <3> QED
      BY <1>5, <2>2, <3>1, <3>2
      DEF IInv, CleanupInv, Continues, RowInv, Stale
  <2> QED
    BY <2>3, <2>4
<1>6. CASE BeginCleanup(c)
  <2>1. holder # c /\ UNCHANGED <<row, holder, draft>>
    BY <1>4, <1>6 DEF BeginCleanup, CleanupStep, IInv, CleanupInv
  <2>2. txNow'[c] = now
    BY <1>6 DEF BeginCleanup, IInv, TypeOK
  <2>3. \A d \in Cleaners : txNow'[d] <= now'
    BY <1>1, <1>3, <2>2, SMT DEF IInv, CleanupInv
  <2>4. holder # Null =>
           holder \in Cleaners /\ cpc'[holder] = cpc[holder]
           /\ txNow'[holder] = txNow[holder]
    BY <1>3, <2>1 DEF IInv, TypeOK
  <2>5. CleanupInv'
    BY <2>1, <2>3, <2>4 DEF IInv, CleanupInv, Continues, RowInv, Stale
  <2> QED
    BY <1>2, <2>1, <2>5
<1>7. CASE ExpireActive(c)
  <2> DEFINE v == Version(c)
             m == MayExpire(v, txNow[c])
  <2>1. v = row
    BY <1>4, <1>7 DEF ExpireActive, CleanupStep, Version, IInv, CleanupInv
  <2>2. m => Continues(row, Expired(v, txNow[c]), txNow[c])
             /\ RowInv(Expired(v, txNow[c]))
    <3> SUFFICES ASSUME m
                 PROVE  Continues(row, Expired(v, txNow[c]), txNow[c])
                        /\ RowInv(Expired(v, txNow[c]))
      OBVIOUS
    <3>1. row \in Rows /\ row # Null /\ row.status = "active"
      BY <1>4, <2>1 DEF MayExpire
    <3>2. Expired(row, txNow[c]) \in Rows
      BY <1>1, <3>1, ExpiredType
    <3> QED
      BY <1>1, <1>4, <2>1, <3>1, <3>2, ExpiredFields
      DEF Continues, RowInv, IInv
  <2>3. m \in BOOLEAN
    BY DEF MayExpire
  <2>4. CleanupStep(c, "expire", "recover") /\ UNCHANGED <<row, txNow>>
        /\ Rewrite(c, m, Expired(v, txNow[c]))
    BY <1>7 DEF ExpireActive
  <2> HIDE DEF m, v
  <2>5. CleanupInv'
    BY <1>5, <2>2, <2>3, <2>4
  <2> QED
    BY <1>2, <2>4, <2>5
<1>8. CASE RecoverLeases(c)
  <2> DEFINE v == Version(c)
             m == MayRecover(v, txNow[c])
  <2>1. v = row \/ v.status # "consuming"
    BY <1>4, <1>8
    DEF RecoverLeases, CleanupStep, Version, IInv, CleanupInv, Continues, Terminal
  <2>2. m => Continues(row, Released(v), txNow[c]) /\ RowInv(Released(v))
    <3> SUFFICES ASSUME m
                 PROVE  Continues(row, Released(v), txNow[c])
                        /\ RowInv(Released(v))
      OBVIOUS
    <3>1. /\ v = row /\ row \in Rows /\ row # Null
          /\ row.status = "consuming" /\ Stale(row, txNow[c])
      BY <1>4, <2>1 DEF MayRecover
    <3>2. Released(row) \in Rows
      BY <3>1, ReleasedType
    <3> QED
      BY <1>4, <3>1, <3>2, ReleasedFields DEF Continues, RowInv, IInv
  <2>3. m \in BOOLEAN
    BY DEF MayRecover, Stale
  <2>4. CleanupStep(c, "recover", "blank") /\ UNCHANGED <<row, txNow>>
        /\ Rewrite(c, m, Released(v))
    BY <1>8 DEF RecoverLeases
  <2> HIDE DEF m, v
  <2>5. CleanupInv'
    BY <1>5, <2>2, <2>3, <2>4
  <2> QED
    BY <1>2, <2>4, <2>5
<1>9. CASE BlankPayloads(c)
  <2> DEFINE v == Version(c)
             m == MayBlank(v, txNow[c])
  <2>1. m => Continues(row, Blanked(v), txNow[c]) /\ RowInv(Blanked(v))
    <3> SUFFICES ASSUME m
                 PROVE  Continues(row, Blanked(v), txNow[c])
                        /\ RowInv(Blanked(v))
      OBVIOUS
    <3>1. v \in Rows /\ v # Null /\ v.status \in Terminal
      BY <1>4 DEF MayBlank
    <3>2. /\ Blanked(v) \in Rows
          /\ Blanked(v).status = v.status /\ Blanked(v).payload = "blank"
          /\ Blanked(v).hash = v.hash /\ Blanked(v).failed = v.failed
      BY <3>1, BlankedType, BlankedFields
    <3>3. RowInv(v) /\ (v = row \/ Continues(row, v, txNow[c]))
      BY <1>4 DEF Version, IInv, CleanupInv
    <3> QED
      BY <1>4, <3>1, <3>2, <3>3 DEF Continues, RowInv, Terminal
  <2>2. m \in BOOLEAN
    BY DEF MayBlank
  <2>3. CleanupStep(c, "blank", "commit") /\ UNCHANGED <<row, txNow>>
        /\ Rewrite(c, m, Blanked(v))
    BY <1>9 DEF BlankPayloads
  <2> HIDE DEF m, v
  <2>4. CleanupInv'
    BY <1>5, <2>1, <2>2, <2>3
  <2> QED
    BY <1>2, <2>3, <2>4
<1>10. ASSUME EndCleanup(c), row' = row \/ holder = c
       PROVE  CleanupInv'
  <2>1. \A d \in Cleaners : txNow'[d] <= now'
    BY <1>1, <1>3, <1>10, SMT DEF EndCleanup, IInv, CleanupInv, TypeOK
  <2>2. holder' # Null =>
           /\ holder' = holder /\ holder \in Cleaners /\ row' = row
           /\ draft' = draft
           /\ cpc'[holder] = cpc[holder] /\ txNow'[holder] = txNow[holder]
    BY <1>3, <1>10 DEF EndCleanup, IInv, TypeOK
  <2> QED
    BY <2>1, <2>2 DEF IInv, CleanupInv, Continues, RowInv, Stale
<1>11. CASE CommitCleanup(c)
  <2>1. EndCleanup(c) /\ row' = Version(c)
    BY <1>11 DEF CommitCleanup
  <2>2. CASE holder # c
    <3>1. row' = row
      BY <2>1, <2>2 DEF Version
    <3> QED
      BY <1>2, <1>10, <2>1, <3>1
  <2>3. CASE holder = c
    <3>1. row' = draft /\ Continues(row, draft, txNow[c]) /\ RowInv(draft)
      BY <1>4, <2>1, <2>3 DEF Version, IInv, CleanupInv
    <3>2. RowInv(row)'
      BY <3>1 DEF RowInv
    <3>3. CleanupInv'
      BY <1>10, <2>1, <2>3
    <3>4. row'.status # "consuming" /\ row # Null /\ row' # Null
          /\ row'.hash = row.hash
          /\ (row'.status = "consumed" <=> row.status = "consumed")
      BY <3>1 DEF Continues, Terminal
    <3>5. RequestInv' /\ CompletionInv'
      BY <1>1, <3>4 DEF IInv, RequestInv, CompletionInv, Verified
    <3> QED
      BY <3>2, <3>3, <3>5
  <2> QED
    BY <2>2, <2>3
<1>12. CASE RollbackCleanup(c)
  BY <1>2, <1>10, <1>12 DEF RollbackCleanup
<1> QED
  BY <1>6, <1>7, <1>8, <1>9, <1>11, <1>12 DEF Cleanup

LEMMA InitInv == Init => IInv
<1> SUFFICES ASSUME Init PROVE IInv
  OBVIOUS
<1>1. TypeOK
  BY RowAssumption, DeliveryAssumption, SMT DEF Init, TypeOK, Requests
<1>2. CleanupInv
  BY SMT DEF Init, CleanupInv
<1> QED
  BY <1>1, <1>2 DEF Init, IInv, RowInv, RequestInv, CompletionInv

LEMMA StepInv == IInv /\ [Next]_vars => IInv'
<1> SUFFICES ASSUME IInv, [Next]_vars PROVE IInv'
  OBVIOUS
<1>1. TypeOK'
  BY TypeStep DEF IInv
<1>2. now \in Nat /\ now <= now
  BY DeliveryAssumption, SMT DEF IInv, TypeOK
<1>3. ASSUME UNCHANGED <<row, pc, guess, seen, completedBy, cleanupVars>>,
             now' \in Nat, now <= now'
      PROVE  /\ RowInv(row)' /\ CleanupInv'
             /\ RequestInv' /\ CompletionInv'
  BY <1>3, RequestInvKept, CleanupInvKept DEF IInv, RowInv
<1>4. CASE Tick
  <2>1. now' \in Nat /\ now <= now'
    BY <1>2, <1>4, SMT DEF Tick
  <2> QED
    BY <1>1, <1>3, <1>4, <2>1 DEF Tick, requestVars, IInv
<1>5. CASE Manage
  BY <1>1, <1>5, ManageStep DEF IInv
<1>6. CASE \E r \in Requests : Consume(r)
  BY <1>1, <1>6, ConsumeStep DEF IInv
<1>7. CASE \E c \in Cleaners : Cleanup(c)
  BY <1>1, <1>7, CleanupsStep DEF IInv
<1>8. CASE UNCHANGED vars
  BY <1>1, <1>2, <1>3, <1>8 DEF vars, requestVars, IInv
<1> QED
  BY <1>4, <1>5, <1>6, <1>7, <1>8 DEF Next

(* The invariant holds initially and is kept by every step. *)
THEOREM Invariance == Spec => []IInv
BY InitInv, StepInv, PTL DEF Spec
---------------------------------------------------------------------------
(* The safety properties. *)

(* However many requests race for the lease, take it over when stale or    *)
(* have it restored under them, at most one completes, and the row is      *)
(* consumed exactly when one has.                                          *)
THEOREM RevealedAtMostOnce == Spec => []AtMostOneReveal
<1>1. IInv => AtMostOneReveal
  BY DEF IInv, CompletionInv, AtMostOneReveal
<1> QED
  BY <1>1, Invariance, PTL

(* The holder of the lease, and the request that completed, presented the  *)
(* password whose hash the row carries now.                                *)
THEOREM PasswordInForce == Spec => []LeaseNeedsPasswordInForce
<1>1. IInv => LeaseNeedsPasswordInForce
  BY DEF IInv, RequestInv, CompletionInv, Verified, LeaseNeedsPasswordInForce
<1> QED
  BY <1>1, Invariance, PTL

(* Ciphertext is stored while the delivery can be revealed and gone once   *)
(* it is consumed, revoked or locked.                                      *)
THEOREM CiphertextFollowsStatus == Spec => []PayloadFollowsStatus
<1>1. IInv => PayloadFollowsStatus
  BY DEF IInv, RowInv, PayloadFollowsStatus
<1> QED
  BY <1>1, Invariance, PTL

(* A row the first two statements leave alone is only ever blanked, and    *)
(* once is enough.                                                         *)
LEMMA BlankedOnce ==
    ASSUME NEW v \in Rows, NEW t \in Nat, ~MayExpire(v, t), ~MayRecover(v, t)
    PROVE  Cleaned(Cleaned(v, t), t) = Cleaned(v, t)
<1>1. CASE MayBlank(v, t)
  <2>1. Cleaned(v, t) = Blanked(v)
    BY <1>1 DEF Cleaned
  <2>2. /\ Blanked(v) \in Rows
        /\ Blanked(v).status = v.status /\ Blanked(v).payload = "blank"
        /\ v.status \in Terminal
    BY <1>1, BlankedType, BlankedFields DEF MayBlank
  <2>3. /\ ~MayExpire(Blanked(v), t)
        /\ ~MayRecover(Blanked(v), t)
        /\ ~MayBlank(Blanked(v), t)
    BY <2>2 DEF MayExpire, MayRecover, MayBlank, Terminal
  <2> QED
    BY <2>1, <2>3 DEF Cleaned
<1>2. CASE ~MayBlank(v, t)
  BY <1>2 DEF Cleaned
<1> QED
  BY <1>1, <1>2

(* A cleanup leaves nothing to do for another one with the same NOW().     *)
LEMMA CleanedTwice ==
    ASSUME NEW v \in Rows \cup {Null}, NEW t \in Nat
    PROVE  Cleaned(Cleaned(v, t), t) = Cleaned(v, t)
<1>1. CASE v = Null
  <2>1. ~MayExpire(v, t) /\ ~MayRecover(v, t) /\ ~MayBlank(v, t)
    BY <1>1 DEF MayExpire, MayRecover, MayBlank
  <2> QED
    BY <2>1 DEF Cleaned
<1>2. CASE v \in Rows /\ MayExpire(v, t)
  <2> DEFINE w == Expired(v, t)
  <2>1. w \in Rows /\ w.status = "expired"
    BY <1>2, ExpiredType, ExpiredFields
  <2>2. ~MayExpire(w, t) /\ ~MayRecover(w, t)
    BY <2>1 DEF MayExpire, MayRecover
  <2>3. Cleaned(v, t) = Cleaned(w, t)
    BY <1>2, <2>2 DEF Cleaned
  <2> QED
    BY <2>1, <2>2, <2>3, BlankedOnce
<1>3. CASE v \in Rows /\ MayRecover(v, t)
  <2> DEFINE w == Released(v)
  <2>1. w \in Rows /\ w.status = "active" /\ w.expiresAt = v.expiresAt
    <3>1. w \in Rows
      BY <1>3, ReleasedType
    <3>2. w.status = "active" /\ w.expiresAt = v.expiresAt
      BY <1>3, SMT DEF Released, Rows
    <3> QED
      BY <3>1, <3>2
  <2>2. v.expiresAt \in Nat /\ v.expiresAt > t /\ v.status = "consuming"
    BY <1>3 DEF MayRecover, Rows
  <2>3. ~MayExpire(w, t) /\ ~MayExpire(v, t)
    BY <2>1, <2>2, SMT DEF MayExpire
  <2>4. ~MayRecover(w, t) /\ ~MayBlank(w, t)
    BY <2>1 DEF MayRecover, MayBlank, Terminal
  <2>5. Cleaned(v, t) = w
    BY <1>3, <2>3, <2>4 DEF Cleaned
  <2> QED
    BY <2>3, <2>4, <2>5 DEF Cleaned
<1> QED
  BY <1>1, <1>2, <1>3, BlankedOnce

(* Cleanups of several replicas, or one repeated by hand, have nothing to  *)
(* do after the first with the same NOW().                                 *)
THEOREM IdempotentCleanup == Spec => []CleanupIsIdempotent
<1>1. TypeOK => CleanupIsIdempotent
  <2> SUFFICES ASSUME TypeOK, NEW t \in 0 .. MaxTime
               PROVE  Cleaned(Cleaned(row, t), t) = Cleaned(row, t)
    BY DEF CleanupIsIdempotent
  <2>1. row \in Rows \cup {Null} /\ t \in Nat
    BY DeliveryAssumption, SMT DEF TypeOK
  <2> QED
    BY <2>1, CleanedTwice
<1> QED
  BY <1>1, TypeCorrect, PTL

(* What any step of the system may do to the committed row.  Every later   *)
(* result about steps reads this summary instead of the actions.           *)
RowStep ==
    \/ row' = row
    \/ row = Null /\ row' # Null
    \/ /\ row # Null /\ row' # Null
       /\ row.status \in {"active", "consuming"}
       /\ \/ /\ row'.status = "revoked"
             /\ row'.payload = "blank"
             /\ \/ row'.failed = row.failed
                \/ row.status = "active"
                \/ Stale(row, now)
          \/ /\ row'.status \in {"active", "consuming"}
             /\ row'.payload = row.payload
             /\ \/ row.status = "active"
                \/ Stale(row, now)
                \/ pc[row.lease] = "restoring" /\ row'.status = "active"
          \/ /\ row.status = "consuming"
             /\ pc[row.lease] = "completing"
             /\ row'.status = "consumed"
             /\ row'.payload = "blank"
          \/ row.status = "active" /\ row'.status = "expired"
    \/ /\ row # Null /\ row' # Null
       /\ row.status \in Terminal /\ row'.status = row.status
       /\ row.payload = "blank" => row'.payload = "blank"

(* An older NOW() finds fewer stale leases. *)
LEMMA StaleIsMonotone ==
    ASSUME NEW v, v.startedAt \in Nat, NEW t \in Nat, NEW u \in Nat, t <= u,
           Stale(v, t)
    PROVE  Stale(v, u)
BY RowAssumption, SMT DEF Stale

(* Every step is one of these. *)
LEMMA StepsOfTheRow ==
    ASSUME IInv, [Next]_vars
    PROVE  RowStep
<1>1. Moments \subseteq Nat /\ now \in Nat /\ \A t \in Moments : t <= now
  BY MomentsAreTimes, DeliveryAssumption, SMT DEF IInv, TypeOK
<1>2. /\ row # Null => row \in Rows
      /\ row # Null /\ row.status = "consuming" => row.startedAt \in Nat
      /\ Null \notin Rows
  BY RowNotNull DEF IInv, TypeOK, RowInv
<1> USE DEF Requests
<1>3. CASE Tick \/ UNCHANGED vars
  BY <1>3 DEF Tick, vars, RowStep
<1>4. ASSUME NEW p \in Passwords \cup {Null}, NEW ttl \in Lifetimes,
             Create(p, ttl)
      PROVE  RowStep
  <2>1. PICK t \in Moments : row' = Inserted(FreshHash(p), t + ttl)
    BY <1>4 DEF Create
  <2>2. t + ttl \in Nat
    BY <1>1, DeliveryAssumption
  <2>3. row' \in Rows
    BY <1>4, <2>1, <2>2, FreshHashType, InsertedType DEF IInv, Create
  <2> QED
    BY <1>2, <1>4, <2>3 DEF Create, RowStep
<1>5. CASE Revoke
  <2>1. PICK t \in Moments : Update(MayRevoke(row), Closed(row, "revoked", t))
    BY <1>5 DEF Revoke
  <2>2. row \in Rows
    BY <1>2, <2>1 DEF Update, MayRevoke
  <2>3. Closed(row, "revoked", t) \in Rows
    BY <1>1, <2>2, ClosedType DEF Terminal
  <2> QED
    BY <1>1, <1>2, <2>1, <2>2, <2>3, ClosedFields
    DEF Update, MayRevoke, Terminal, RowStep
<1>6. ASSUME NEW p \in Passwords \cup {Null}, UpdateProtection(p)
      PROVE  RowStep
  <2>1. PICK t \in Moments :
             Update(MayProtect(row, t), Protected(row, FreshHash(p)))
    BY <1>6 DEF UpdateProtection
  <2>2. row \in Rows /\ FreshHash(p) \in Hashes \cup {Null}
    BY <1>2, <1>6, <2>1, FreshHashType
    DEF Update, MayProtect, IInv, UpdateProtection
  <2>3. Protected(row, FreshHash(p)) \in Rows
    BY <2>2, ProtectedType
  <2> QED
    BY <1>2, <2>1, <2>2, <2>3, ProtectedFields DEF Update, MayProtect, RowStep
<1>7. ASSUME NEW t \in Moments, Consumable(row, t)
      PROVE  /\ row \in Rows /\ row.failed < MaxFailed
             /\ \/ row.status = "active"
                \/ row.status = "consuming" /\ Stale(row, now)
  BY <1>1, <1>2, <1>7, StaleIsMonotone DEF Consumable
<1>8. ASSUME NEW r \in Requests, Consume(r)
      PROVE  RowStep
  <2>1. CASE RecordPasswordFailure(r)
    <3>1. PICK t \in Moments :
             \/ Update(MayCharge(row, t, seen[r]), Charged(row, t))
             \/ Miss(MayCharge(row, t, seen[r]))
      BY <2>1 DEF RecordPasswordFailure
    <3>2. CASE Miss(MayCharge(row, t, seen[r]))
      BY <3>2 DEF Miss, RowStep
    <3>3. CASE Update(MayCharge(row, t, seen[r]), Charged(row, t))
      <4>1. Consumable(row, t) /\ row' = Charged(row, t)
        BY <3>3 DEF Update, MayCharge
      <4>2. /\ row \in Rows /\ row.failed < MaxFailed
            /\ \/ row.status = "active"
               \/ row.status = "consuming" /\ Stale(row, now)
        BY <1>7, <4>1
      <4>3. row' \in Rows
        BY <1>1, <4>1, <4>2, ChargedType
      <4>4. \/ row'.status = "revoked" /\ row'.payload = "blank"
            \/ row'.status = "active" /\ row'.payload = row.payload
        BY <1>1, <4>1, <4>2, ChargedFields
      <4> QED
        BY <1>2, <4>2, <4>3, <4>4 DEF RowStep
    <3> QED
      BY <3>1, <3>2, <3>3
  <2>2. CASE BeginConsume(r)
    <3>1. PICK t \in Moments :
             \/ Update(MayBegin(row, t, seen[r]), Begun(row, t, r))
             \/ Miss(MayBegin(row, t, seen[r]))
      BY <2>2 DEF BeginConsume
    <3>2. CASE Miss(MayBegin(row, t, seen[r]))
      BY <3>2 DEF Miss, RowStep
    <3>3. CASE Update(MayBegin(row, t, seen[r]), Begun(row, t, r))
      <4>1. Consumable(row, t) /\ row' = Begun(row, t, r)
        BY <3>3 DEF Update, MayBegin
      <4>2. /\ row \in Rows
            /\ \/ row.status = "active"
               \/ row.status = "consuming" /\ Stale(row, now)
        BY <1>7, <4>1
      <4>3. /\ row' \in Rows /\ row'.status = "consuming"
            /\ row'.payload = row.payload
        BY <1>1, <4>1, <4>2, BegunType, BegunFields
      <4> QED
        BY <1>2, <4>2, <4>3 DEF RowStep
    <3> QED
      BY <3>1, <3>2, <3>3
  <2>3. CASE RestoreConsume(r)
    <3>1. CASE Update(Holds(row, r), Released(row))
      <4>1. /\ row \in Rows /\ row.status = "consuming" /\ row.lease = r
            /\ pc[r] = "restoring"
        BY <1>2, <2>3, <3>1 DEF RestoreConsume, Update, Holds
      <4>2. /\ row' \in Rows /\ row'.status = "active"
            /\ row'.payload = row.payload
        BY <3>1, <4>1, ReleasedType, ReleasedFields DEF Update
      <4> QED
        BY <1>2, <4>1, <4>2 DEF RowStep
    <3> QED
      BY <2>3, <3>1 DEF RestoreConsume, Miss, RowStep
  <2>4. CASE CompleteConsume(r)
    <3>1. ASSUME NEW t \in Moments,
                 Update(Holds(row, r), Closed(row, "consumed", t))
          PROVE  RowStep
      <4>1. /\ row \in Rows /\ row.status = "consuming" /\ row.lease = r
            /\ pc[r] = "completing"
        BY <1>2, <2>4, <3>1 DEF CompleteConsume, Update, Holds
      <4>2. /\ row' \in Rows /\ row'.status = "consumed"
            /\ row'.payload = "blank"
        BY <1>1, <3>1, <4>1, ClosedType, ClosedFields DEF Update, Terminal
      <4> QED
        BY <1>2, <4>1, <4>2 DEF RowStep
    <3> QED
      BY <2>4, <3>1 DEF CompleteConsume, Miss, RowStep
  <2>5. CASE \/ \E p \in Passwords : Find(r, p)
             \/ Decrypt(r) \/ Reply(r) \/ Abandon(r)
    BY <2>5 DEF Find, Decrypt, Reply, Abandon, RowStep
  <2> QED
    BY <1>8, <2>1, <2>2, <2>3, <2>4, <2>5 DEF Consume
<1>9. ASSUME NEW c \in Cleaners, Cleanup(c)
      PROVE  RowStep
  <2>1. CASE CommitCleanup(c) /\ holder = c
    <3>1. /\ row' = draft /\ Continues(row, draft, txNow[c])
          /\ txNow[c] \in Nat /\ txNow[c] <= now
      BY <2>1, DeliveryAssumption, SMT
      DEF CommitCleanup, Version, IInv, CleanupInv, TypeOK
    <3>2. row.status = "consuming" => Stale(row, now)
      BY <1>1, <1>2, <3>1, StaleIsMonotone DEF Continues, Terminal
    <3> QED
      BY <3>1, <3>2 DEF Continues, RowStep
  <2>2. CASE row' = row
    BY <2>2 DEF RowStep
  <2> QED
    BY <1>9, <2>1, <2>2
    DEF Cleanup, BeginCleanup, ExpireActive, RecoverLeases, BlankPayloads,
        CommitCleanup, RollbackCleanup, Version
<1> QED
  BY <1>3, <1>4, <1>5, <1>6, <1>8, <1>9 DEF Next, Manage
(* Ended deliveries stay ended and erased ciphertext stays erased: no      *)
(* statement, and no cleanup committing an older version, brings a         *)
(* consumed, expired or revoked delivery back.                             *)
THEOREM EndsAreFinal == Spec => EndIsFinal
<1> DEFINE Step == row # Null =>
                     /\ row' # Null
                     /\ row.status \in Terminal => row'.status = row.status
                     /\ row.payload = "blank" => row'.payload = "blank"
<1>1. IInv /\ [Next]_vars => [Step]_vars
  <2> SUFFICES ASSUME IInv, [Next]_vars PROVE Step
    OBVIOUS
  <2>1. RowStep
    BY StepsOfTheRow
  <2> QED
    BY <2>1 DEF RowStep, IInv, RowInv, Terminal
<1> QED
  BY <1>1, Invariance, PTL DEF Spec, EndIsFinal

(* A lease that is not stale is left only through its holder or a          *)
(* revocation.                                                             *)
THEOREM LiveLeasesAreKept == Spec => LiveLeaseIsKept
<1> DEFINE Step ==
      row # Null /\ row.status = "consuming" /\ ~Stale(row, now) =>
         \/ UNCHANGED row
         \/ row'.status = "revoked" /\ row'.failed = row.failed
         \/ pc[row.lease] = "completing" /\ row'.status = "consumed"
         \/ pc[row.lease] = "restoring" /\ row'.status = "active"
<1>1. IInv /\ [Next]_vars => [Step]_vars
  <2> SUFFICES ASSUME IInv, [Next]_vars PROVE Step
    OBVIOUS
  <2>1. RowStep
    BY StepsOfTheRow
  <2> QED
    BY <2>1 DEF RowStep, Terminal
<1> QED
  BY <1>1, Invariance, PTL DEF Spec, LiveLeaseIsKept

---------------------------------------------------------------------------
(* The service implements the one-time secret. *)

(* Initially nothing is deposited. *)
LEMMA InitRefines == Init => Promise!Init
BY DEF Init, Promise!Init, Phase, Lock, Stored, Requests

(* Every step of the service is a step of the one-time secret or invisible *)
(* to it.                                                                  *)
LEMMA StepRefines ==
    ASSUME IInv, [Next]_vars
    PROVE  [Promise!Next]_(Promise!vars)
<1> USE DEF Requests
<1>1. RowStep
  BY StepsOfTheRow
<1>2. /\ row # Null => row \in Rows
      /\ Null \notin Rows /\ Null \notin Hashes
  BY RowNotNull, RowAssumption DEF IInv, TypeOK
<1>3. row' # Null => row' \in Rows
  BY TypeStep DEF IInv, TypeOK
<1>4. ASSUME UNCHANGED <<row, guess, completedBy>>
      PROVE  UNCHANGED Promise!vars
  BY <1>4 DEF Promise!vars, Phase, Lock, Stored
<1>5. ASSUME UNCHANGED <<guess, completedBy>>, row # Null, row' # Null,
             row'.hash = row.hash,
             row'.status = "consumed" => row.status = "consumed"
      PROVE  [Promise!Next]_(Promise!vars)
  <2>1. UNCHANGED <<Lock, guess, completedBy>>
    BY <1>5 DEF Lock
  <2>2. CASE row.status \in {"active", "consuming"}
    <3>1. Phase = "available"
      BY <1>5, <2>2 DEF Phase
    <3>2. CASE row'.status \in {"active", "consuming"}
      <4>1. row'.payload = row.payload
        BY <1>1, <1>5, <2>2, <3>2 DEF RowStep, Terminal
      <4> QED
        BY <1>5, <2>1, <3>1, <3>2, <4>1 DEF Promise!vars, Phase, Stored
    <3>3. CASE row'.status \in {"expired", "revoked"}
      <4>1. Phase' = "withdrawn" /\ Stored' \in BOOLEAN
        BY <1>5, <3>3 DEF Phase, Stored
      <4> QED
        BY <2>1, <3>1, <4>1 DEF Promise!Next, Promise!Withdraw
    <3> QED
      BY <1>2, <1>3, <1>5, <2>2, <3>2, <3>3, Zenon DEF Rows, Status, Terminal
  <2>3. CASE row.status \in Terminal
    <3>1. /\ row'.status = row.status
          /\ row.payload = "blank" => row'.payload = "blank"
      BY <1>1, <1>5, <2>3 DEF RowStep, Terminal
    <3>2. UNCHANGED Phase
      BY <1>5, <3>1 DEF Phase
    <3>3. CASE Stored' = Stored
      BY <2>1, <3>2, <3>3 DEF Promise!vars
    <3>4. CASE Stored' # Stored
      <4>1. Stored /\ ~Stored' /\ Stored' = FALSE
        <5>1. row.payload \in {"sealed", "blank"}
          BY <1>2, <1>5, Zenon DEF Rows
        <5> QED
          BY <1>5, <3>1, <3>4, <5>1 DEF Stored
      <4>2. Phase = "withdrawn"
        BY <1>5, <2>3, <4>1 DEF Phase, Stored, IInv, RowInv, Terminal
      <4> QED
        BY <2>1, <3>2, <4>1, <4>2 DEF Promise!Next, Promise!Erase
    <3> QED
      BY <3>3, <3>4
  <2> QED
    BY <1>2, <1>5, <2>2, <2>3, Zenon DEF Rows, Status
<1>6. Moments \subseteq Nat
  BY MomentsAreTimes DEF IInv
<1>7. CASE Tick \/ UNCHANGED vars
  BY <1>4, <1>7 DEF Tick, vars, requestVars
<1>8. ASSUME NEW p \in Passwords \cup {Null}, NEW ttl \in Lifetimes,
             Create(p, ttl)
      PROVE  Promise!Deposit(p)
  <2>1. PICK t \in Moments : row' = Inserted(FreshHash(p), t + ttl)
    BY <1>8 DEF Create
  <2>2. t + ttl \in Nat
    BY <1>6, DeliveryAssumption
  <2>3. /\ FreshHash(p) \in Hashes \cup {Null}
        /\ FreshHash(p) = Null <=> p = Null
        /\ p # Null => FreshHash(p).text = p
    BY <1>8, FreshHashType DEF IInv, Create
  <2>4. row' \in Rows
    BY <2>1, <2>2, <2>3, InsertedType
  <2>5. /\ row'.status = "active" /\ row'.payload = "sealed"
        /\ row'.hash = FreshHash(p)
    BY <2>1 DEF Inserted
  <2>6. Lock' = p
    BY <1>2, <2>3, <2>4, <2>5 DEF Lock
  <2> QED
    BY <1>2, <1>8, <2>4, <2>5, <2>6
    DEF Create, Promise!Deposit, Phase, Stored, requestVars
<1>9. CASE Revoke
  <2>1. PICK t \in Moments : Update(MayRevoke(row), Closed(row, "revoked", t))
    BY <1>9 DEF Revoke
  <2>2. row \in Rows /\ row # Null
    BY <1>2, <2>1 DEF Update, MayRevoke
  <2>3. row' \in Rows /\ row'.hash = row.hash /\ row'.status = "revoked"
    BY <1>6, <2>1, <2>2, ClosedType, ClosedFields DEF Update, Terminal
  <2> QED
    BY <1>2, <1>5, <1>9, <2>2, <2>3 DEF Revoke, requestVars
<1>10. ASSUME NEW p \in Passwords \cup {Null}, UpdateProtection(p)
       PROVE  Promise!ChangeLock(p)
  <2>1. PICK t \in Moments :
             Update(MayProtect(row, t), Protected(row, FreshHash(p)))
    BY <1>10 DEF UpdateProtection
  <2>2. /\ row \in Rows /\ row # Null /\ row.status = "active"
        /\ FreshHash(p) \in Hashes \cup {Null}
        /\ FreshHash(p) = Null <=> p = Null
        /\ p # Null => FreshHash(p).text = p
    BY <1>2, <1>10, <2>1, FreshHashType
    DEF Update, MayProtect, IInv, UpdateProtection
  <2>3. /\ row' \in Rows /\ row'.status = row.status
        /\ row'.payload = row.payload /\ row'.hash = FreshHash(p)
    BY <2>1, <2>2, ProtectedType, ProtectedFields DEF Update
  <2>4. Lock' = p
    BY <1>2, <2>2, <2>3 DEF Lock
  <2> QED
    BY <1>2, <1>10, <2>2, <2>3, <2>4
    DEF UpdateProtection, Promise!ChangeLock, Phase, Stored, requestVars
<1>11. ASSUME NEW r \in Requests, Consume(r)
       PROVE  [Promise!Next]_(Promise!vars)
  <2>1. ASSUME NEW p \in Passwords, Find(r, p)
        PROVE  Promise!Offer(r, p)
    BY <2>1
    DEF Find, Promise!Offer, IInv, RequestInv, Phase, Lock, Stored
  <2>2. CASE RecordPasswordFailure(r)
    <3>1. PICK t \in Moments :
             \/ Update(MayCharge(row, t, seen[r]), Charged(row, t))
             \/ Miss(MayCharge(row, t, seen[r]))
      BY <2>2 DEF RecordPasswordFailure
    <3>2. CASE Miss(MayCharge(row, t, seen[r]))
      BY <1>4, <2>2, <3>2 DEF Miss, RecordPasswordFailure
    <3>3. CASE Update(MayCharge(row, t, seen[r]), Charged(row, t))
      <4>1. /\ row \in Rows /\ row # Null /\ row.failed < MaxFailed
            /\ row' = Charged(row, t)
        BY <1>2, <3>3 DEF Update, MayCharge, Consumable
      <4>2. /\ row' \in Rows /\ row'.hash = row.hash
            /\ row'.status # "consumed"
        BY <1>6, <4>1, ChargedType, ChargedFields
      <4> QED
        BY <1>2, <1>5, <2>2, <4>1, <4>2 DEF RecordPasswordFailure
    <3> QED
      BY <3>1, <3>2, <3>3
  <2>3. CASE BeginConsume(r)
    <3>1. PICK t \in Moments :
             \/ Update(MayBegin(row, t, seen[r]), Begun(row, t, r))
             \/ Miss(MayBegin(row, t, seen[r]))
      BY <2>3 DEF BeginConsume
    <3>2. CASE Miss(MayBegin(row, t, seen[r]))
      BY <1>4, <2>3, <3>2 DEF Miss, BeginConsume
    <3>3. CASE Update(MayBegin(row, t, seen[r]), Begun(row, t, r))
      <4>1. row \in Rows /\ row # Null /\ row' = Begun(row, t, r)
        BY <1>2, <3>3 DEF Update, MayBegin, Consumable
      <4>2. /\ row' \in Rows /\ row'.hash = row.hash
            /\ row'.status = "consuming"
        BY <1>6, <4>1, BegunType, BegunFields
      <4> QED
        BY <1>2, <1>5, <2>3, <4>1, <4>2 DEF BeginConsume
    <3> QED
      BY <3>1, <3>2, <3>3
  <2>4. CASE RestoreConsume(r)
    <3>1. CASE Update(Holds(row, r), Released(row))
      <4>1. row \in Rows /\ row # Null /\ row' = Released(row)
        BY <1>2, <3>1 DEF Update, Holds
      <4>2. row' \in Rows /\ row'.hash = row.hash /\ row'.status = "active"
        BY <4>1, ReleasedType, ReleasedFields
      <4> QED
        BY <1>2, <1>5, <2>4, <4>1, <4>2 DEF RestoreConsume
    <3> QED
      BY <1>4, <2>4, <3>1 DEF RestoreConsume, Miss
  <2>5. CASE CompleteConsume(r)
    <3>1. ASSUME NEW t \in Moments,
                 Update(Holds(row, r), Closed(row, "consumed", t)),
                 completedBy' = completedBy \cup {r}
          PROVE  Promise!Reveal(r)
      <4>1. /\ row \in Rows /\ row # Null /\ row.status = "consuming"
            /\ row.lease = r
        BY <1>2, <3>1 DEF Update, Holds
      <4>2. /\ row' \in Rows /\ row'.status = "consumed"
            /\ row'.payload = "blank" /\ row'.hash = row.hash
        BY <1>6, <3>1, <4>1, ClosedType, ClosedFields DEF Update, Terminal
      <4>3. completedBy' = {r} /\ Verifies(guess[r], row.hash)
        BY <3>1, <4>1 DEF IInv, RequestInv, CompletionInv, Verified
      <4>4. Lock = Null \/ guess[r] = Lock
        BY <4>1, <4>3 DEF Lock, Verifies
      <4>5. Phase = "available" /\ Phase' = "revealed" /\ Stored' = FALSE
            /\ Lock' = Lock
        BY <1>2, <4>1, <4>2 DEF Phase, Stored, Lock
      <4> QED
        BY <2>5, <4>3, <4>4, <4>5 DEF CompleteConsume, Promise!Reveal
    <3>2. CASE Miss(Holds(row, r)) /\ UNCHANGED completedBy
      BY <1>4, <2>5, <3>2 DEF Miss, CompleteConsume
    <3> QED
      BY <2>5, <3>1, <3>2 DEF CompleteConsume, Promise!Next
  <2>6. CASE Decrypt(r) \/ Reply(r) \/ Abandon(r)
    BY <1>4, <2>6 DEF Decrypt, Reply, Abandon
  <2> QED
    BY <1>11, <2>1, <2>2, <2>3, <2>4, <2>5, <2>6 DEF Consume, Promise!Next
<1>12. ASSUME NEW c \in Cleaners, Cleanup(c)
       PROVE  [Promise!Next]_(Promise!vars)
  <2>1. UNCHANGED <<guess, completedBy>>
    BY <1>12
    DEF Cleanup, BeginCleanup, ExpireActive, RecoverLeases, BlankPayloads,
        CommitCleanup, RollbackCleanup, EndCleanup, CleanupStep, requestVars
  <2>2. CASE CommitCleanup(c) /\ holder = c
    <3>1. row' = draft /\ Continues(row, draft, txNow[c])
      BY <2>2, DeliveryAssumption DEF CommitCleanup, Version, IInv, CleanupInv
    <3> QED
      BY <1>5, <2>1, <3>1 DEF Continues, Terminal
  <2>3. CASE row' = row
    BY <1>4, <2>1, <2>3
  <2> QED
    BY <1>12, <2>2, <2>3
    DEF Cleanup, BeginCleanup, ExpireActive, RecoverLeases, BlankPayloads,
        CommitCleanup, RollbackCleanup, Version
<1> QED
  BY <1>7, <1>8, <1>9, <1>10, <1>11, <1>12 DEF Next, Manage, Promise!Next

(* Through the mapping, the service keeps the promise of the one-time      *)
(* secret: one recipient, who offered the password in force.               *)
THEOREM Refinement == Spec => OneTime
<1>1. Init => Promise!Init
  BY InitRefines
<1>2. IInv /\ [Next]_vars => [Promise!Next]_(Promise!vars)
  BY StepRefines
<1> QED
  BY <1>1, <1>2, Invariance, PTL DEF Spec, OneTime, Promise!Spec
---------------------------------------------------------------------------
(* Failures are counted against the password in force.  Beside the count   *)
(* itself one must know that no request has seen a hash not yet computed:  *)
(* a protection set afresh then starts with no wrong answer.               *)
CountInv ==
    /\ \A r \in Requests : seen[r] # Null => seen[r].salt <= salts
    /\ row # Null /\ row.hash # Null => row.hash.salt <= salts
    /\ row # Null =>
          row.failed =
             IF row.hash = Null THEN 0 ELSE Cardinality(WrongAnswers(row.hash))

(* The count of wrong answers changes only when a request is given one. *)
LEMMA CountKept ==
    ASSUME IInv, CountInv, TypeOK', salts <= salts',
           row # Null => row'.hash = row.hash /\ row'.failed = row.failed,
           row = Null => row' = row,
           \A r \in Requests :
              /\ seen'[r] = seen[r] \/ (row # Null /\ seen'[r] = row.hash)
              /\ \/ seen'[r] = seen[r] /\ pc'[r] = pc[r]
                 \/ {pc[r], pc'[r]} \cap {"invalid", "locked"} = {}
    PROVE  CountInv'
<1>1. \A h : WrongAnswers(h)' = WrongAnswers(h)
  BY DEF WrongAnswers
<1>2. /\ salts \in Nat /\ salts' \in Nat
      /\ \A r \in Requests : seen[r] # Null => seen[r].salt \in Nat
      /\ row # Null /\ row.hash # Null => row.hash.salt \in Nat
  <2>1. \A h \in Hashes : h.salt \in Nat
    BY RowAssumption, SMT DEF Hashes
  <2>2. row # Null => row.hash \in Hashes \cup {Null}
    BY Zenon DEF IInv, TypeOK, Rows
  <2>3. salts \in Nat /\ salts' \in Nat
    BY RowAssumption, SMT DEF IInv, TypeOK
  <2> QED
    BY <2>1, <2>2, <2>3 DEF IInv, TypeOK
<1>3. \A r \in Requests : seen'[r] # Null => seen'[r].salt <= salts'
  <2> SUFFICES ASSUME NEW r \in Requests, seen'[r] # Null
               PROVE  seen'[r].salt <= salts'
    OBVIOUS
  <2>1. CASE seen'[r] = seen[r]
    BY <1>2, <2>1, SMT DEF CountInv
  <2>2. CASE row # Null /\ seen'[r] = row.hash
    BY <1>2, <2>2, SMT DEF CountInv
  <2> QED
    BY <2>1, <2>2
<1>4. row' # Null /\ row'.hash # Null => row'.hash.salt <= salts'
  BY <1>2, SMT DEF CountInv
<1>5. row' # Null => row # Null
  OBVIOUS
<1> QED
  BY <1>1, <1>3, <1>4, <1>5 DEF CountInv
(* A delivery stored with a fresh hash, or none, starts with no failure.   *)
LEMMA CountRestarts ==
    ASSUME IInv, CountInv, TypeOK', NEW p \in Passwords \cup {Null},
           p # Null => salts < MaxSalts, UNCHANGED <<pc, seen>>, NextSalts(p),
           row' # Null, row'.hash = FreshHash(p), row'.failed = 0
    PROVE  CountInv'
<1>1. salts \in Nat /\ \A r \in Requests : seen[r] # Null => seen[r].salt \in Nat
  <2>1. \A h \in Hashes : h.salt \in Nat
    BY RowAssumption, SMT DEF Hashes
  <2>2. salts \in Nat
    BY RowAssumption, SMT DEF IInv, TypeOK
  <2> QED
    BY <2>1, <2>2 DEF IInv, TypeOK
<1>2. CASE p = Null
  BY <1>2 DEF FreshHash, NextSalts, CountInv
<1>3. CASE p # Null
  <2>1. row'.hash.salt = salts + 1 /\ salts' = salts + 1
    BY <1>3 DEF FreshHash, NextSalts
  <2>2. \A r \in Requests : seen[r] # Null => seen[r].salt <= salts
    BY DEF CountInv
  <2>3. row'.hash # Null
    BY <1>3, FreshHashType DEF IInv
  <2>4. \A r \in Requests : seen'[r] # row'.hash
    BY <1>1, <2>1, <2>2, <2>3, SMT
  <2>5. WrongAnswers(row.hash)' = {}
    BY <2>4 DEF WrongAnswers
  <2>6. \A r \in Requests : seen'[r] # Null => seen'[r].salt <= salts'
    BY <1>1, <2>1, <2>2, SMT
  <2>7. salts' <= salts'
    BY <1>1, <2>1, SMT
  <2> QED
    BY <2>1, <2>5, <2>6, <2>7, FS_EmptySet DEF CountInv
<1> QED
  BY <1>2, <1>3

(* Every step keeps the count. *)
LEMMA CountStep ==
    ASSUME IInv, CountInv, [Next]_vars
    PROVE  CountInv'
<1> USE DEF Requests
<1>1. TypeOK' /\ salts \in Nat /\ salts <= salts
  BY TypeStep, RowAssumption, SMT DEF IInv, TypeOK
<1>2. Moments \subseteq Nat
  BY MomentsAreTimes DEF IInv
<1>3. /\ row # Null => row \in Rows
      /\ Null \notin Rows /\ Null \notin Hashes
  BY RowNotNull, RowAssumption DEF IInv, TypeOK
<1>4. ASSUME UNCHANGED <<row, salts, pc, seen>>
      PROVE  CountInv'
  BY <1>4 DEF CountInv, WrongAnswers
<1>5. CASE Tick \/ UNCHANGED vars
  BY <1>4, <1>5 DEF Tick, vars, requestVars
<1>6. ASSUME NEW p \in Passwords \cup {Null}, NEW ttl \in Lifetimes,
             Create(p, ttl)
      PROVE  CountInv'
  <2>1. PICK t \in Moments : row' = Inserted(FreshHash(p), t + ttl)
    BY <1>6 DEF Create
  <2>2. FreshHash(p) \in Hashes \cup {Null} /\ t + ttl \in Nat
    BY <1>2, <1>6, FreshHashType, DeliveryAssumption DEF IInv, Create
  <2>3. row' \in Rows
    BY <2>1, <2>2, InsertedType
  <2>4. row'.hash = FreshHash(p) /\ row'.failed = 0
    BY <2>1 DEF Inserted
  <2> QED
    BY <1>1, <1>3, <1>6, <2>3, <2>4, CountRestarts DEF Create, requestVars
<1>7. ASSUME NEW p \in Passwords \cup {Null}, UpdateProtection(p)
      PROVE  CountInv'
  <2>1. PICK t \in Moments :
             Update(MayProtect(row, t), Protected(row, FreshHash(p)))
    BY <1>7 DEF UpdateProtection
  <2>2. row \in Rows /\ FreshHash(p) \in Hashes \cup {Null}
    BY <1>3, <1>7, <2>1, FreshHashType
    DEF Update, MayProtect, IInv, UpdateProtection
  <2>3. row' \in Rows /\ row'.hash = FreshHash(p) /\ row'.failed = 0
    BY <2>1, <2>2, ProtectedType, ProtectedFields DEF Update
  <2> QED
    BY <1>1, <1>3, <1>7, <2>3, CountRestarts DEF UpdateProtection, requestVars
<1>8. CASE Revoke
  <2>1. PICK t \in Moments : Update(MayRevoke(row), Closed(row, "revoked", t))
    BY <1>8 DEF Revoke
  <2>2. row \in Rows
    BY <1>3, <2>1 DEF Update, MayRevoke
  <2>3. row'.hash = row.hash /\ row'.failed = row.failed
    BY <1>2, <2>1, <2>2, ClosedFields DEF Update, Terminal
  <2> QED
    BY <1>1, <1>3, <1>8, <2>2, <2>3, CountKept DEF Revoke, requestVars
<1>9. ASSUME NEW r \in Requests, Consume(r)
      PROVE  CountInv'
  <2>1. \A s \in Requests : s # r => pc'[s] = pc[s] /\ seen'[s] = seen[s]
    BY <1>9
    DEF IInv, TypeOK, Consume, Find, RecordPasswordFailure, BeginConsume,
        Decrypt, RestoreConsume, CompleteConsume, Reply, Abandon, Answer
  <2>2. pc[r] \notin {"invalid", "locked"} /\ salts' = salts
    BY <1>9
    DEF Consume, Find, RecordPasswordFailure, BeginConsume, Decrypt,
        RestoreConsume, CompleteConsume, Reply, Abandon, Working
  <2>3. ASSUME row # Null => row'.hash = row.hash /\ row'.failed = row.failed,
               row = Null => row' = row,
               seen'[r] = seen[r] \/ (row # Null /\ seen'[r] = row.hash),
               pc'[r] \notin {"invalid", "locked"}
        PROVE  CountInv'
    BY <1>1, <2>1, <2>2, <2>3, CountKept
  <2>4. ASSUME NEW p \in Passwords, Find(r, p)
        PROVE  CountInv'
    <3>1. seen'[r] = seen[r] \/ (row # Null /\ seen'[r] = row.hash)
      BY <2>4 DEF Find, Consumable, IInv, TypeOK
    <3>2. pc'[r] \notin {"invalid", "locked"} /\ row' = row
      BY <2>4 DEF Find, Answer, IInv, TypeOK
    <3> QED
      BY <2>3, <3>1, <3>2
  <2>5. CASE RecordPasswordFailure(r)
    <3>1. PICK t \in Moments :
          \/ Update(MayCharge(row, t, seen[r]), Charged(row, t))
             /\ pc'[r] \in {"invalid", "locked"}
          \/ /\ Miss(MayCharge(row, t, seen[r]))
             /\ pc'[r] = "unavailable"
      BY <2>5 DEF RecordPasswordFailure, Answer, IInv, TypeOK
    <3>2. CASE Miss(MayCharge(row, t, seen[r])) /\ pc'[r] = "unavailable"
      BY <2>3, <2>5, <3>2 DEF Miss, RecordPasswordFailure
    <3>3. CASE /\ Update(MayCharge(row, t, seen[r]), Charged(row, t))
               /\ pc'[r] \in {"invalid", "locked"}
      <4>1. /\ row \in Rows /\ row # Null /\ row.failed < MaxFailed
            /\ row' = Charged(row, t) /\ seen[r] = row.hash /\ row.hash # Null
        BY <1>3, <3>3 DEF Update, MayCharge, Consumable
      <4>2. /\ row' \in Rows /\ row'.hash = row.hash
            /\ row'.failed = row.failed + 1
        BY <1>2, <4>1, ChargedType, ChargedFields
      <4>3. WrongAnswers(row.hash)' = WrongAnswers(row.hash) \cup {r}
            /\ r \notin WrongAnswers(row.hash)
        BY <2>1, <2>2, <2>5, <3>3, <4>1, <4>2
        DEF WrongAnswers, RecordPasswordFailure
      <4>4. IsFiniteSet(WrongAnswers(row.hash))
        BY DeliveryAssumption, FS_Subset DEF WrongAnswers
      <4>5. Cardinality(WrongAnswers(row.hash))' = row'.failed
        BY <4>1, <4>2, <4>3, <4>4, FS_AddElement DEF CountInv
      <4>6. /\ \A s \in Requests : seen'[s] # Null => seen'[s].salt <= salts'
            /\ row'.hash.salt <= salts'
        BY <2>2, <2>5, <4>1, <4>2 DEF CountInv, RecordPasswordFailure
      <4> QED
        BY <1>3, <4>1, <4>2, <4>5, <4>6 DEF CountInv
    <3> QED
      BY <3>1, <3>2, <3>3
  <2>6. CASE BeginConsume(r)
    <3>1. PICK t \in Moments :
          \/ Update(MayBegin(row, t, seen[r]), Begun(row, t, r))
          \/ Miss(MayBegin(row, t, seen[r]))
      BY <2>6 DEF BeginConsume
    <3>2. pc'[r] \notin {"invalid", "locked"} /\ seen' = seen
      BY <2>6 DEF BeginConsume, Answer, IInv, TypeOK
    <3>3. CASE Miss(MayBegin(row, t, seen[r]))
      BY <2>3, <3>2, <3>3 DEF Miss
    <3>4. CASE Update(MayBegin(row, t, seen[r]), Begun(row, t, r))
      <4>1. row \in Rows /\ row # Null /\ row' = Begun(row, t, r)
        BY <1>3, <3>4 DEF Update, MayBegin, Consumable
      <4>2. row'.hash = row.hash /\ row'.failed = row.failed
        BY <1>2, <4>1, BegunFields
      <4> QED
        BY <2>3, <3>2, <4>1, <4>2
    <3> QED
      BY <3>1, <3>3, <3>4
  <2>7. CASE RestoreConsume(r)
    <3>1. pc'[r] \notin {"invalid", "locked"} /\ seen' = seen
      BY <2>7 DEF RestoreConsume, Answer, IInv, TypeOK
    <3>2. CASE Update(Holds(row, r), Released(row))
      BY <1>3, <2>3, <3>1, <3>2, ReleasedFields DEF Update, Holds
    <3> QED
      BY <2>3, <2>7, <3>1, <3>2 DEF RestoreConsume, Miss
  <2>8. CASE CompleteConsume(r)
    <3>1. pc'[r] \notin {"invalid", "locked"} /\ seen' = seen
      BY <2>8 DEF CompleteConsume, Answer, IInv, TypeOK
    <3>2. ASSUME NEW t \in Moments,
                 Update(Holds(row, r), Closed(row, "consumed", t))
          PROVE  CountInv'
      BY <1>2, <1>3, <2>3, <3>1, <3>2, ClosedFields
      DEF Update, Holds, Terminal
    <3> QED
      BY <2>3, <2>8, <3>1, <3>2 DEF CompleteConsume, Miss
  <2>9. CASE Decrypt(r) \/ Reply(r) \/ Abandon(r)
    <3>1. /\ pc'[r] \notin {"invalid", "locked"} /\ seen' = seen
          /\ row' = row
      BY <2>9 DEF Decrypt, Reply, Abandon, Answer, IInv, TypeOK
    <3> QED
      BY <2>3, <3>1
  <2> QED
    BY <1>9, <2>4, <2>5, <2>6, <2>7, <2>8, <2>9 DEF Consume
<1>10. ASSUME NEW c \in Cleaners, Cleanup(c)
       PROVE  CountInv'
  <2>1. UNCHANGED <<salts, pc, seen>>
    BY <1>10
    DEF Cleanup, BeginCleanup, ExpireActive, RecoverLeases, BlankPayloads,
        CommitCleanup, RollbackCleanup, EndCleanup, CleanupStep, requestVars
  <2>2. CASE CommitCleanup(c) /\ holder = c
    <3>1. row' = draft /\ Continues(row, draft, txNow[c])
      BY <2>2, DeliveryAssumption DEF CommitCleanup, Version, IInv, CleanupInv
    <3> QED
      BY <1>1, <2>1, <3>1, CountKept DEF Continues
  <2>3. CASE row' = row
    BY <1>4, <2>1, <2>3
  <2> QED
    BY <1>10, <2>2, <2>3
    DEF Cleanup, BeginCleanup, ExpireActive, RecoverLeases, BlankPayloads,
        CommitCleanup, RollbackCleanup, Version
<1> QED
  BY <1>5, <1>6, <1>7, <1>8, <1>9, <1>10 DEF Next, Manage

(* failed_attempts counts exactly the wrong answers given against the      *)
(* password in force, and a link whose limit is reached is revoked.        *)
THEOREM EveryFailureIsCounted == Spec => []FailuresAreCounted
<1>1. Init => CountInv
  BY DEF Init, CountInv
<1>2. IInv /\ CountInv /\ [Next]_vars => CountInv'
  BY CountStep
<1>3. IInv /\ CountInv => FailuresAreCounted
  <2> SUFFICES ASSUME IInv, CountInv, row # Null
               PROVE  row.failed = MaxFailed => row.status = "revoked"
    BY DEF FailuresAreCounted, CountInv
  <2> QED
    BY RowAssumption, SMT DEF IInv, RowInv
<1> QED
  BY <1>1, <1>2, <1>3, Invariance, PTL DEF Spec
=============================================================================
