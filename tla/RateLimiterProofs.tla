-------------------------- MODULE RateLimiterProofs --------------------------
(***************************************************************************)
(* The promises of the fixed-window limiter for every number of calls and  *)
(* every limit, window and lag.                                            *)
(***************************************************************************)
EXTENDS RateLimiter, FiniteSetTheorems, TLAPS

InWindow(e) == {c \in Calls : outcome[c] = "allowed" /\ in[c] = e}

(* A time that was read is recent. *)
ClockInv ==
    /\ \A c \in Calls :
          Waiting(c) => read[c] <= now /\ now <= read[c] + MaxLag
    /\ sweep # Null => sweep <= now

(* The entry belongs to the current window, and is gone only once that     *)
(* window has run its length, less the lag.                                *)
BucketInv ==
    /\ opened <= now
    /\ bucket # Null =>
          /\ epoch > 0
          /\ opened + Window <= bucket.resetAt + MaxLag
          /\ bucket.resetAt <= opened + Window
          /\ Cardinality(InWindow(epoch)) = bucket.count
    /\ bucket = Null /\ epoch > 0 => opened + Window < now + MaxLag

(* Where the admitted calls lie: those of the current window after its     *)
(* opening, those before it no later, and those of windows that are not    *)
(* neighbours a window apart.                                              *)
CallsInv ==
    /\ \A c \in Calls : outcome[c] = "allowed" =>
          /\ 0 < in[c] /\ in[c] <= epoch
          /\ at[c] <= now
          /\ in[c] = epoch => opened <= at[c]
          /\ in[c] < epoch => at[c] <= opened
          /\ in[c] + 1 < epoch => at[c] + Window < opened + MaxLag
    /\ \A c, d \in Calls :
          outcome[c] = "allowed" /\ outcome[d] = "allowed"
              /\ in[c] + 1 < in[d] => at[c] + Window < at[d] + MaxLag
    /\ \A e \in Nat : Cardinality(InWindow(e)) <= Limit

IInv == TypeOK /\ ClockInv /\ BucketInv /\ CallsInv
---------------------------------------------------------------------------
(* The calls of one window can be counted. *)
LEMMA WindowFinite ==
    ASSUME NEW e
    PROVE  IsFiniteSet(InWindow(e)) /\ Cardinality(InWindow(e)) \in Nat
<1>1. InWindow(e) \subseteq Calls
  BY DEF InWindow
<1> QED
  BY <1>1, LimiterAssumption, FS_Subset, FS_CardinalityType

(* The initial state satisfies the invariant. *)
LEMMA InvInit == Init => IInv
<1> SUFFICES ASSUME Init PROVE IInv
  OBVIOUS
<1>1. TypeOK
  BY LimiterAssumption, SMT DEF Init, TypeOK
<1>2. \A e \in Nat : Cardinality(InWindow(e)) <= Limit
  <2> SUFFICES ASSUME NEW e \in Nat
               PROVE  Cardinality(InWindow(e)) <= Limit
    OBVIOUS
  <2>1. InWindow(e) = {}
    BY DEF Init, InWindow
  <2>2. Cardinality(InWindow(e)) = 0
    BY <2>1, FS_EmptySet
  <2> QED
    BY <2>2, LimiterAssumption, SMT
<1> QED
  BY <1>1, <1>2, SMT DEF Init, IInv, ClockInv, BucketInv, CallsInv, Waiting

(* Every action keeps the types of the variables. *)
LEMMA TypeStep ==
    ASSUME TypeOK, [Next]_vars
    PROVE  TypeOK'
<1> USE DEF TypeOK, history
<1>1. CASE Tick
  <2>1. now' \in 0 .. MaxTime
    BY <1>1, LimiterAssumption, SMT DEF Tick
  <2> QED
    BY <1>1, <2>1 DEF Tick
<1>2. ASSUME NEW c \in Calls, Allow(c)
      PROVE  TypeOK'
  <2>1. now \in Nat
    BY LimiterAssumption, SMT
  <2>2. CASE ReadClock(c)
    BY <2>1, <2>2 DEF ReadClock
  <2>3. CASE OpenWindow(c)
    <3>1. bucket' \in Buckets /\ epoch + 1 \in Nat
      BY <2>3, LimiterAssumption, SMT DEF OpenWindow, Waiting, Buckets
    <3> QED
      BY <2>1, <2>3, <3>1 DEF OpenWindow, Admit
  <2>4. CASE CountCall(c)
    <3>1. bucket \in Buckets /\ bucket.count < Limit
      BY <2>4 DEF CountCall, Over, Room
    <3>2. bucket' \in Buckets
      BY <2>4, <3>1, LimiterAssumption, SMT DEF CountCall, Buckets
    <3> QED
      BY <2>1, <2>4, <3>2 DEF CountCall, Admit
  <2>5. CASE Refuse(c)
    BY <2>5 DEF Refuse
  <2> QED
    BY <1>2, <2>2, <2>3, <2>4, <2>5 DEF Allow
<1>3. CASE BeginSweep
  <2>1. now \in Nat
    BY LimiterAssumption, SMT
  <2> QED
    BY <1>3, <2>1 DEF BeginSweep
<1>4. CASE Sweep
  BY <1>4 DEF Sweep
<1>5. CASE UNCHANGED vars
  BY <1>5 DEF vars
<1> QED
  BY <1>1, <1>2, <1>3, <1>4, <1>5 DEF Next, Cleanup

(* The clock of a waiting call. *)
LEMMA WaitingClock ==
    ASSUME TypeOK, ClockInv, NEW c \in Calls, Waiting(c)
    PROVE  /\ read[c] \in Nat /\ now \in Nat
           /\ read[c] <= now /\ now <= read[c] + MaxLag
<1>1. now \in Nat
  BY LimiterAssumption, SMT DEF TypeOK
<1> QED
  BY <1>1 DEF TypeOK, ClockInv, Waiting

(* When a window may be opened, the one before it has run its length, less *)
(* the lag.                                                                *)
LEMMA OverIsLate ==
    ASSUME IInv, NEW t \in Nat, t <= now, Over(t), epoch > 0
    PROVE  opened + Window < now + MaxLag
<1> USE LimiterAssumption
<1>1. CASE bucket = Null
  BY <1>1 DEF IInv, BucketInv
<1>2. CASE bucket # Null
  <2>1. bucket.resetAt \in Nat
    BY <1>2 DEF IInv, TypeOK, Buckets
  <2> QED
    BY <1>2, <2>1, SMT DEF IInv, BucketInv, Over, TypeOK
<1> QED
  BY <1>1, <1>2

(* An admission adds its call to one window and leaves the others alone.   *)
LEMMA Admission ==
    ASSUME TypeOK, NEW c \in Calls, Waiting(c), NEW w \in Nat, Admit(c, w)
    PROVE  /\ outcome' = [outcome EXCEPT ![c] = "allowed"]
           /\ at' = [at EXCEPT ![c] = now]
           /\ in' = [in EXCEPT ![c] = w]
           /\ \A e : e # w => InWindow(e)' = InWindow(e)
           /\ InWindow(w)' = InWindow(w) \cup {c}
           /\ Cardinality(InWindow(w)') = Cardinality(InWindow(w)) + 1
<1>1. /\ outcome' = [outcome EXCEPT ![c] = "allowed"]
      /\ at' = [at EXCEPT ![c] = now]
      /\ in' = [in EXCEPT ![c] = w]
  BY DEF Admit
<1>2. outcome[c] = "none"
  BY DEF Waiting
<1>3. \A e : e # w => InWindow(e)' = InWindow(e)
  BY <1>1, <1>2 DEF InWindow, TypeOK
<1>4. InWindow(w)' = InWindow(w) \cup {c} /\ c \notin InWindow(w)
  BY <1>1, <1>2 DEF InWindow, TypeOK
<1>5. Cardinality(InWindow(w)') = Cardinality(InWindow(w)) + 1
  BY <1>4, WindowFinite, FS_AddElement
<1> QED
  BY <1>1, <1>3, <1>4, <1>5

(* A step that admits nobody and leaves the windows alone keeps what is    *)
(* known of the calls.                                                     *)
LEMMA CallsKept ==
    ASSUME IInv, now' \in Nat, now <= now', UNCHANGED <<epoch, opened, at, in>>,
           \A c \in Calls : outcome'[c] = "allowed" <=> outcome[c] = "allowed"
    PROVE  CallsInv' /\ \A e : InWindow(e)' = InWindow(e)
<1>1. \A e : InWindow(e)' = InWindow(e)
  BY DEF InWindow
<1>2. now \in Nat /\ \A c \in Calls : at[c] \in Nat
  BY LimiterAssumption, SMT DEF IInv, TypeOK
<1>3. \A c \in Calls : at[c] <= now => at[c] <= now'
  BY <1>2, SMT
<1>4. \A e \in Nat : Cardinality(InWindow(e)') <= Limit
  BY <1>1 DEF IInv, CallsInv
<1> QED
  BY <1>1, <1>3, <1>4 DEF IInv, CallsInv

(* Opening a window keeps the invariant.                                   *)
LEMMA OpenWindowStep ==
    ASSUME IInv, NEW c \in Calls, OpenWindow(c)
    PROVE  ClockInv' /\ BucketInv' /\ CallsInv'
<1> USE LimiterAssumption
<1>1. /\ read[c] \in Nat /\ now \in Nat
      /\ read[c] <= now /\ now <= read[c] + MaxLag
  BY WaitingClock DEF IInv, OpenWindow
<1>2. epoch \in Nat /\ opened \in Nat /\ at \in [Calls -> Nat]
        /\ in \in [Calls -> Nat]
        /\ outcome \in [Calls -> {"none", "allowed", "refused"}]
  BY DEF IInv, TypeOK
<1>3. epoch > 0 => opened + Window < now + MaxLag
  BY <1>1, OverIsLate DEF OpenWindow
<1>4. Waiting(c) /\ Admit(c, epoch + 1) /\ epoch + 1 \in Nat
  BY <1>2 DEF OpenWindow
<1>5. TypeOK
  BY DEF IInv
<1> PICK w \in Nat : w = epoch + 1
  BY <1>4
<1>6. /\ outcome' = [outcome EXCEPT ![c] = "allowed"]
      /\ at' = [at EXCEPT ![c] = now]
      /\ in' = [in EXCEPT ![c] = w]
      /\ \A e : e # w => InWindow(e)' = InWindow(e)
      /\ InWindow(w)' = InWindow(w) \cup {c}
      /\ Cardinality(InWindow(w)') = Cardinality(InWindow(w)) + 1
  BY <1>4, <1>5, Admission
<1>7. Cardinality(InWindow(w)') = 1
  <2>1. InWindow(w) = {}
    <3> SUFFICES ASSUME NEW d \in InWindow(w) PROVE FALSE
      OBVIOUS
    <3>1. d \in Calls /\ in[d] = epoch + 1 /\ in[d] <= epoch
      BY DEF InWindow, IInv, CallsInv
    <3> QED
      BY <1>2, <3>1, SMT
  <2>2. Cardinality(InWindow(w)) = 0
    BY <2>1, FS_EmptySet
  <2> QED
    BY <1>6, <2>2
<1>8. /\ bucket' = [count |-> 1, resetAt |-> read[c] + Window]
      /\ epoch' = w /\ opened' = now /\ now' = now
      /\ read' = read /\ sweep' = sweep
  BY DEF OpenWindow, Admit
<1>9. ClockInv'
  <2>1. \A d \in Calls : Waiting(d)' => Waiting(d)
    BY <1>2, <1>6, <1>8 DEF Waiting
  <2> QED
    BY <1>8, <2>1 DEF IInv, ClockInv
<1>10. BucketInv'
  <2>1. bucket' # Null /\ bucket'.count = 1
          /\ bucket'.resetAt = read[c] + Window
    <3>1. bucket' \in Buckets
      BY <1>1, <1>8, SMT DEF Buckets
    <3> QED
      BY <1>8, <3>1, BucketNotNull
  <2>2. opened' <= now' /\ epoch' > 0
          /\ opened' + Window <= bucket'.resetAt + MaxLag
          /\ bucket'.resetAt <= opened' + Window
    BY <1>1, <1>2, <1>8, <2>1, SMT
  <2>3. Cardinality(InWindow(epoch))' = bucket'.count
    <3>1. InWindow(epoch)' = InWindow(w)'
      BY <1>8 DEF InWindow
    <3> QED
      BY <1>7, <2>1, <3>1
  <2> QED
    BY <2>1, <2>2, <2>3 DEF BucketInv
<1>11. CallsInv'
  <2>1. ASSUME NEW d \in Calls, outcome'[d] = "allowed"
        PROVE  /\ 0 < in'[d] /\ in'[d] <= epoch'
               /\ at'[d] <= now'
               /\ in'[d] = epoch' => opened' <= at'[d]
               /\ in'[d] < epoch' => at'[d] <= opened'
               /\ in'[d] + 1 < epoch' => at'[d] + Window < opened' + MaxLag
    <3>1. CASE d = c
      <4>1. in'[d] = epoch + 1 /\ at'[d] = now
        BY <1>2, <1>6, <3>1
      <4> QED
        BY <1>1, <1>2, <1>8, <4>1, SMT
    <3>2. CASE d # c
      <4>1. in'[d] = in[d] /\ at'[d] = at[d] /\ outcome[d] = "allowed"
        BY <1>2, <1>6, <2>1, <3>2
      <4>2. /\ 0 < in[d] /\ in[d] <= epoch /\ at[d] <= now
            /\ in[d] < epoch => at[d] <= opened
        BY <4>1 DEF IInv, CallsInv
      <4>3. in[d] \in Nat /\ at[d] \in Nat
        BY <1>2
      <4> QED
        BY <1>1, <1>2, <1>3, <1>8, <4>1, <4>2, <4>3, SMT
    <3> QED
      BY <3>1, <3>2
  <2>2. ASSUME NEW d \in Calls, NEW e \in Calls,
               outcome'[d] = "allowed", outcome'[e] = "allowed",
               in'[d] + 1 < in'[e]
        PROVE  at'[d] + Window < at'[e] + MaxLag
    <3>1. CASE e = c
      <4>1. in'[e] = epoch' /\ at'[e] = opened'
        BY <1>2, <1>6, <1>8, <3>1
      <4> QED
        BY <2>1, <2>2, <4>1
    <3>2. CASE e # c /\ d # c
      <4>1. /\ in'[d] = in[d] /\ at'[d] = at[d] /\ outcome[d] = "allowed"
            /\ in'[e] = in[e] /\ at'[e] = at[e] /\ outcome[e] = "allowed"
        BY <1>2, <1>6, <2>2, <3>2
      <4> QED
        BY <2>2, <4>1 DEF IInv, CallsInv
    <3>3. CASE e # c /\ d = c
      <4>1. in'[d] = epoch' /\ in'[e] <= epoch' /\ in'[e] \in Nat
        BY <1>2, <1>6, <1>8, <2>1, <2>2, <3>3
      <4>2. epoch' \in Nat
        BY <1>2, <1>8
      <4> QED
        BY <2>2, <4>1, <4>2, SMT
    <3> QED
      BY <3>1, <3>2, <3>3
  <2>3. \A e \in Nat : Cardinality(InWindow(e)') <= Limit
    <3> SUFFICES ASSUME NEW e \in Nat
                 PROVE  Cardinality(InWindow(e)') <= Limit
      OBVIOUS
    <3>1. CASE e = w
      BY <1>7, <3>1, SMT
    <3>2. CASE e # w
      BY <1>6, <3>2 DEF IInv, CallsInv
    <3> QED
      BY <3>1, <3>2
  <2> QED
    BY <2>1, <2>2, <2>3 DEF CallsInv
<1> QED
  BY <1>9, <1>10, <1>11

(* Counting a call into the current window keeps the invariant.            *)
LEMMA CountCallStep ==
    ASSUME IInv, NEW c \in Calls, CountCall(c)
    PROVE  ClockInv' /\ BucketInv' /\ CallsInv'
<1> USE LimiterAssumption
<1>1. now \in Nat /\ opened <= now
  BY SMT DEF IInv, TypeOK, BucketInv
<1>2. epoch \in Nat /\ opened \in Nat /\ at \in [Calls -> Nat]
        /\ in \in [Calls -> Nat]
        /\ outcome \in [Calls -> {"none", "allowed", "refused"}]
  BY DEF IInv, TypeOK
<1>3. bucket # Null /\ bucket \in Buckets /\ bucket.count < Limit
  BY DEF CountCall, Over, Room, IInv, TypeOK
<1>4. /\ epoch > 0
      /\ opened + Window <= bucket.resetAt + MaxLag
      /\ bucket.resetAt <= opened + Window
      /\ Cardinality(InWindow(epoch)) = bucket.count
  BY <1>3 DEF IInv, BucketInv
<1> PICK w \in Nat : w = epoch
  BY <1>2
<1>5. /\ outcome' = [outcome EXCEPT ![c] = "allowed"]
      /\ at' = [at EXCEPT ![c] = now]
      /\ in' = [in EXCEPT ![c] = w]
      /\ \A e : e # w => InWindow(e)' = InWindow(e)
      /\ InWindow(w)' = InWindow(w) \cup {c}
      /\ Cardinality(InWindow(w)') = Cardinality(InWindow(w)) + 1
  <2>1. Waiting(c) /\ Admit(c, w) /\ TypeOK
    BY DEF CountCall, IInv
  <2> QED
    BY <2>1, Admission
<1>6. /\ bucket' = [bucket EXCEPT !.count = @ + 1]
      /\ epoch' = w /\ epoch' = epoch /\ opened' = opened /\ now' = now
      /\ read' = read /\ sweep' = sweep
  BY DEF CountCall, Admit
<1>7. Cardinality(InWindow(w)') = bucket.count + 1
  BY <1>4, <1>5
<1>8. /\ bucket' # Null /\ bucket'.resetAt = bucket.resetAt
      /\ bucket'.count = bucket.count + 1
  <2>1. bucket' \in Buckets /\ bucket'.resetAt = bucket.resetAt
          /\ bucket'.count = bucket.count + 1
    BY <1>3, <1>6, SMT DEF Buckets
  <2> QED
    BY <2>1, BucketNotNull
<1>9. ClockInv'
  <2>1. \A d \in Calls : Waiting(d)' => Waiting(d)
    BY <1>2, <1>5, <1>6 DEF Waiting
  <2> QED
    BY <1>6, <2>1 DEF IInv, ClockInv
<1>10. BucketInv'
  <2>1. Cardinality(InWindow(epoch))' = bucket'.count
    <3>1. InWindow(epoch)' = InWindow(w)'
      BY <1>6 DEF InWindow
    <3> QED
      BY <1>7, <1>8, <3>1
  <2> QED
    BY <1>1, <1>4, <1>6, <1>8, <2>1 DEF BucketInv
<1>11. CallsInv'
  <2>1. ASSUME NEW d \in Calls, outcome'[d] = "allowed"
        PROVE  /\ 0 < in'[d] /\ in'[d] <= epoch'
               /\ at'[d] <= now'
               /\ in'[d] = epoch' => opened' <= at'[d]
               /\ in'[d] < epoch' => at'[d] <= opened'
               /\ in'[d] + 1 < epoch' => at'[d] + Window < opened' + MaxLag
    <3>1. CASE d = c
      <4>1. in'[d] = epoch /\ at'[d] = now
        BY <1>2, <1>5, <3>1
      <4> QED
        BY <1>1, <1>2, <1>4, <1>6, <4>1, SMT
    <3>2. CASE d # c
      <4>1. in'[d] = in[d] /\ at'[d] = at[d] /\ outcome[d] = "allowed"
        BY <1>2, <1>5, <2>1, <3>2
      <4> QED
        BY <1>6, <4>1 DEF IInv, CallsInv
    <3> QED
      BY <3>1, <3>2
  <2>2. ASSUME NEW d \in Calls, NEW e \in Calls,
               outcome'[d] = "allowed", outcome'[e] = "allowed",
               in'[d] + 1 < in'[e]
        PROVE  at'[d] + Window < at'[e] + MaxLag
    <3>1. CASE e = c
      <4>1. in'[e] = epoch' /\ at'[e] = now
        BY <1>2, <1>5, <1>6, <3>1
      <4>2. at'[d] + Window < opened + MaxLag
        BY <1>6, <2>1, <2>2, <4>1
      <4>3. at'[d] \in Nat
        BY <1>1, <1>2, <1>5
      <4> QED
        BY <1>1, <1>2, <4>1, <4>2, <4>3, SMT
    <3>2. CASE e # c /\ d # c
      <4>1. /\ in'[d] = in[d] /\ at'[d] = at[d] /\ outcome[d] = "allowed"
            /\ in'[e] = in[e] /\ at'[e] = at[e] /\ outcome[e] = "allowed"
        BY <1>2, <1>5, <2>2, <3>2
      <4> QED
        BY <2>2, <4>1 DEF IInv, CallsInv
    <3>3. CASE e # c /\ d = c
      <4>1. in'[d] = epoch' /\ in'[e] <= epoch' /\ in'[e] \in Nat
        BY <1>2, <1>5, <1>6, <2>1, <2>2, <3>3
      <4>2. epoch' \in Nat
        BY <1>2, <1>6
      <4> QED
        BY <2>2, <4>1, <4>2, SMT
    <3> QED
      BY <3>1, <3>2, <3>3
  <2>3. \A e \in Nat : Cardinality(InWindow(e)') <= Limit
    <3> SUFFICES ASSUME NEW e \in Nat
                 PROVE  Cardinality(InWindow(e)') <= Limit
      OBVIOUS
    <3>1. CASE e = w
      BY <1>3, <1>7, <3>1, SMT DEF Buckets
    <3>2. CASE e # w
      BY <1>5, <3>2 DEF IInv, CallsInv
    <3> QED
      BY <3>1, <3>2
  <2> QED
    BY <2>1, <2>2, <2>3 DEF CallsInv
<1> QED
  BY <1>9, <1>10, <1>11

(* The invariant is inductive.                                             *)
THEOREM LimiterInvariance == Spec => []IInv
<1>1. IInv /\ [Next]_vars => IInv'
  <2> SUFFICES ASSUME IInv, [Next]_vars PROVE IInv'
    OBVIOUS
  <2> USE LimiterAssumption
  <2>1. TypeOK'
    BY TypeStep DEF IInv
  <2>2. now \in Nat /\ now' \in Nat
    BY <2>1, SMT DEF IInv, TypeOK
  <2>3. ASSUME now <= now', UNCHANGED <<bucket, outcome, history>>
        PROVE  BucketInv' /\ CallsInv'
    <3>1. UNCHANGED <<bucket, outcome, epoch, opened, at, in>>
      BY <2>3 DEF history
    <3>2. CallsInv' /\ \A e : InWindow(e)' = InWindow(e)
      BY <2>2, <2>3, <3>1, CallsKept
    <3>3. InWindow(epoch)' = InWindow(epoch)
      BY <3>1 DEF InWindow
    <3>4. opened \in Nat
      BY DEF IInv, TypeOK
    <3>5. opened <= now => opened <= now'
      BY <2>2, <2>3, <3>4, SMT
    <3>6. opened + Window < now + MaxLag => opened + Window < now' + MaxLag
      <4>1. now <= now'
        BY <2>3
      <4>2. opened + Window \in Nat
        BY <3>4
      <4> QED
        BY <2>2, <4>1, <4>2, SMT
    <3> QED
      BY <3>1, <3>2, <3>3, <3>5, <3>6 DEF IInv, BucketInv
  <2>4. CASE Tick
    <3>1. now <= now'
      BY <2>2, <2>4, SMT DEF Tick
    <3>2. ClockInv'
      <4>1. ASSUME NEW c \in Calls, Waiting(c)'
            PROVE  read'[c] <= now' /\ now' <= read'[c] + MaxLag
        <5>1. Waiting(c) /\ read' = read /\ now' = now + 1
                /\ now < read[c] + MaxLag
          BY <2>4, <4>1 DEF Tick, Waiting
        <5>2. read[c] \in Nat /\ read[c] <= now
          BY <5>1, WaitingClock DEF IInv
        <5> QED
          BY <2>2, <5>1, <5>2, SMT
      <4>2. sweep' # Null => sweep' <= now'
        <5>1. sweep' = sweep /\ sweep \in Nat \cup {Null}
          BY <2>4 DEF Tick, IInv, TypeOK
        <5>2. sweep # Null => sweep <= now
          BY DEF IInv, ClockInv
        <5> QED
          BY <2>2, <3>1, <5>1, <5>2, SMT
      <4> QED
        BY <4>1, <4>2 DEF ClockInv
    <3> QED
      BY <2>1, <2>3, <2>4, <3>1, <3>2 DEF Tick, IInv
  <2>5. ASSUME NEW c \in Calls, Allow(c)
        PROVE  IInv'
    <3>1. CASE ReadClock(c)
      <4>1. now' = now /\ read' = [read EXCEPT ![c] = now]
              /\ UNCHANGED <<bucket, outcome, sweep, history>>
        BY <3>1 DEF ReadClock
      <4>2. ClockInv'
        <5>1. ASSUME NEW d \in Calls, Waiting(d)'
              PROVE  read'[d] <= now' /\ now' <= read'[d] + MaxLag
          <6>1. CASE d = c
            <7>1. read'[d] = now
              BY <4>1, <6>1 DEF IInv, TypeOK
            <7> QED
              BY <2>2, <4>1, <7>1, SMT
          <6>2. CASE d # c
            BY <4>1, <5>1, <6>2 DEF Waiting, IInv, ClockInv, TypeOK
          <6> QED
            BY <6>1, <6>2
        <5> QED
          BY <4>1, <5>1 DEF IInv, ClockInv
      <4>3. now <= now'
        BY <2>2, <4>1, SMT
      <4> QED
        BY <2>1, <2>3, <4>1, <4>2, <4>3 DEF IInv
    <3>2. CASE OpenWindow(c)
      BY <2>1, <3>2, OpenWindowStep DEF IInv
    <3>3. CASE CountCall(c)
      BY <2>1, <3>3, CountCallStep DEF IInv
    <3>4. CASE Refuse(c)
      <4>1. /\ outcome' = [outcome EXCEPT ![c] = "refused"]
            /\ UNCHANGED <<now, bucket, read, sweep, epoch, opened, at, in>>
            /\ outcome[c] = "none"
        BY <3>4 DEF Refuse, Waiting, history
      <4>2. \A d \in Calls : outcome'[d] = "allowed" <=> outcome[d] = "allowed"
        BY <4>1 DEF IInv, TypeOK
      <4>3. CallsInv' /\ \A e : InWindow(e)' = InWindow(e)
        <5>1. now <= now'
          BY <2>2, <4>1, SMT
        <5> QED
          BY <2>2, <4>1, <4>2, <5>1, CallsKept
      <4>4. InWindow(epoch)' = InWindow(epoch)
        BY <4>1, <4>2 DEF InWindow
      <4>5. BucketInv'
        BY <4>1, <4>4 DEF IInv, BucketInv
      <4>6. \A d \in Calls : Waiting(d)' => Waiting(d)
        BY <4>1 DEF Waiting, IInv, TypeOK
      <4>7. ClockInv'
        BY <4>1, <4>6 DEF IInv, ClockInv
      <4> QED
        BY <2>1, <4>3, <4>5, <4>7 DEF IInv
    <3> QED
      BY <2>5, <3>1, <3>2, <3>3, <3>4 DEF Allow
  <2>6. CASE BeginSweep
    <3>1. now' = now /\ sweep' = now
            /\ UNCHANGED <<bucket, read, outcome, history>>
      BY <2>6 DEF BeginSweep
    <3>2. ClockInv'
      <4>1. \A d \in Calls : Waiting(d)' => Waiting(d)
        BY <3>1 DEF Waiting
      <4>2. sweep' <= now'
        BY <2>2, <3>1, SMT
      <4> QED
        BY <3>1, <4>1, <4>2 DEF IInv, ClockInv
    <3>3. now <= now'
      BY <2>2, <3>1, SMT
    <3> QED
      BY <2>1, <2>3, <3>1, <3>2, <3>3 DEF IInv
  <2>7. CASE Sweep
    <3>1. /\ sweep # Null /\ sweep' = Null
          /\ bucket' = IF Over(sweep) THEN Null ELSE bucket
          /\ UNCHANGED <<now, read, outcome, epoch, opened, at, in>>
      BY <2>7 DEF Sweep, history
    <3>2. ClockInv'
      <4>1. \A d \in Calls : Waiting(d)' => Waiting(d)
        BY <3>1 DEF Waiting
      <4> QED
        BY <3>1, <4>1 DEF IInv, ClockInv
    <3>3. CallsInv'
      <4>1. now <= now'
        BY <2>2, <3>1, SMT
      <4> QED
        BY <2>2, <3>1, <4>1, CallsKept
    <3>4. BucketInv'
      <4>1. CASE Over(sweep)
        <5>1. sweep \in Nat /\ sweep <= now
          BY <3>1 DEF IInv, TypeOK, ClockInv
        <5>2. epoch > 0 => opened + Window < now + MaxLag
          BY <4>1, <5>1, OverIsLate
        <5>3. opened <= now
          BY DEF IInv, BucketInv
        <5> QED
          BY <3>1, <4>1, <5>2, <5>3 DEF BucketInv
      <4>2. CASE ~Over(sweep)
        <5>1. InWindow(epoch)' = InWindow(epoch)
          BY <3>1 DEF InWindow
        <5> QED
          BY <3>1, <4>2, <5>1 DEF IInv, BucketInv
      <4> QED
        BY <4>1, <4>2
    <3> QED
      BY <2>1, <3>2, <3>3, <3>4 DEF IInv
  <2>8. CASE UNCHANGED vars
    <3>1. UNCHANGED <<now, bucket, read, outcome, sweep, history>>
      BY <2>8 DEF vars
    <3>2. ClockInv'
      BY <3>1 DEF IInv, ClockInv, Waiting
    <3>3. now <= now'
      BY <2>2, <3>1, SMT
    <3> QED
      BY <2>1, <2>3, <3>1, <3>2, <3>3 DEF IInv
  <2> QED
    BY <2>4, <2>5, <2>6, <2>7, <2>8 DEF Next, Cleanup
<1> QED
  BY <1>1, InvInit, PTL DEF Spec

(* The types of the variables. *)
THEOREM LimiterTypeCorrect == Spec => []TypeOK
<1>1. IInv => TypeOK
  BY DEF IInv
<1> QED
  BY <1>1, LimiterInvariance, PTL

(* A window opens only when the one before it has run its length, less the *)
(* lag of a call.                                                          *)
THEOREM WindowsStayApart == Spec => WindowsAreApart
<1>1. IInv /\ [Next]_vars =>
        [(epoch' # epoch /\ epoch > 0) =>
            opened' > opened + Window - MaxLag]_vars
  <2> SUFFICES ASSUME IInv, [Next]_vars, epoch' # epoch, epoch > 0
               PROVE  opened' > opened + Window - MaxLag
    OBVIOUS
  <2>1. PICK c \in Calls : OpenWindow(c)
    BY DEF Next, Tick, Allow, ReadClock, CountCall, Refuse, Cleanup,
           BeginSweep, Sweep, vars, history
  <2>2. read[c] \in Nat /\ read[c] <= now /\ now \in Nat
    BY <2>1, WaitingClock DEF OpenWindow, IInv
  <2>3. opened + Window < now + MaxLag
    BY <2>1, <2>2, OverIsLate DEF OpenWindow
  <2>4. opened' = now /\ opened \in Nat
    BY <2>1 DEF OpenWindow, IInv, TypeOK
  <2> QED
    BY <2>2, <2>3, <2>4, LimiterAssumption, SMT
<1> QED
  BY <1>1, LimiterInvariance, PTL DEF Spec, WindowsAreApart

(* No interval shorter than a window, less the lag, holds calls of more    *)
(* than two windows, hence no more than twice the limit.                   *)
THEOREM NeverMoreThanTwice == Spec => []AtMostTwiceTheLimit
<1>1. IInv => AtMostTwiceTheLimit
  <2> SUFFICES ASSUME IInv, NEW t \in 0 .. MaxTime
               PROVE  Cardinality(Admitted(t, t + Window - MaxLag))
                         <= 2 * Limit
    BY DEF AtMostTwiceTheLimit
  <2> DEFINE S == Admitted(t, t + Window - MaxLag)
  <2> USE LimiterAssumption
  <2>1. t \in Nat
    BY SMT
  <2>2. \A c \in S : /\ c \in Calls /\ outcome[c] = "allowed"
                     /\ in[c] \in Nat /\ at[c] \in Nat
                     /\ t <= at[c] /\ at[c] <= t + Window - MaxLag
    BY <2>1 DEF Admitted, IInv, TypeOK
  <2>3. \A c, d \in S : ~(in[c] + 1 < in[d])
    <3> SUFFICES ASSUME NEW c \in S, NEW d \in S, in[c] + 1 < in[d]
                 PROVE  FALSE
      OBVIOUS
    <3>1. at[c] + Window < at[d] + MaxLag
      BY <2>2 DEF IInv, CallsInv
    <3> QED
      BY <2>1, <2>2, <3>1, SMT
  <2>4. PICK e \in Nat, f \in Nat : S \subseteq InWindow(e) \cup InWindow(f)
    <3>1. CASE \E c, d \in S : in[c] < in[d]
      <4>1. PICK c \in S, d \in S : in[c] < in[d]
        BY <3>1
      <4>2. ASSUME NEW x \in S
            PROVE  in[x] = in[c] \/ in[x] = in[d]
        <5>1. /\ ~(in[c] + 1 < in[d]) /\ ~(in[c] + 1 < in[x])
              /\ ~(in[x] + 1 < in[d])
          BY <2>3
        <5> QED
          BY <2>2, <4>1, <5>1, SMT
      <4>3. S \subseteq InWindow(in[c]) \cup InWindow(in[d])
        BY <2>2, <4>2 DEF InWindow
      <4> QED
        BY <2>2, <4>3
    <3>2. CASE ~\E c, d \in S : in[c] < in[d]
      <4>1. CASE S = {}
        BY <4>1
      <4>2. CASE S # {}
        <5>1. PICK c \in S : TRUE
          BY <4>2
        <5>2. \A x \in S : in[x] = in[c]
          <6> SUFFICES ASSUME NEW x \in S PROVE in[x] = in[c]
            OBVIOUS
          <6>1. ~(in[x] < in[c]) /\ ~(in[c] < in[x])
            BY <3>2
          <6> QED
            BY <2>2, <6>1, SMT
        <5>3. S \subseteq InWindow(in[c])
          BY <2>2, <5>2 DEF InWindow
        <5> QED
          BY <2>2, <5>3
      <4> QED
        BY <4>1, <4>2
    <3> QED
      BY <3>1, <3>2
  <2> HIDE DEF S
  <2>5. /\ IsFiniteSet(InWindow(e) \cup InWindow(f))
        /\ Cardinality(InWindow(e) \cup InWindow(f)) <= 2 * Limit
    <3>1. /\ IsFiniteSet(InWindow(e)) /\ IsFiniteSet(InWindow(f))
          /\ Cardinality(InWindow(e)) \in Nat
          /\ Cardinality(InWindow(f)) \in Nat
      BY WindowFinite
    <3>2. /\ Cardinality(InWindow(e)) <= Limit
          /\ Cardinality(InWindow(f)) <= Limit
      BY DEF IInv, CallsInv
    <3>3. /\ IsFiniteSet(InWindow(e) \cup InWindow(f))
          /\ Cardinality(InWindow(e) \cup InWindow(f)) =
                Cardinality(InWindow(e)) + Cardinality(InWindow(f))
                    - Cardinality(InWindow(e) \cap InWindow(f))
      BY <3>1, FS_Union
    <3>4. Cardinality(InWindow(e) \cap InWindow(f)) \in Nat
      BY <3>1, FS_Intersection, FS_CardinalityType
    <3> QED
      BY <3>1, <3>2, <3>3, <3>4, SMT
  <2>6. /\ Cardinality(S) \in Nat
        /\ Cardinality(S) <= Cardinality(InWindow(e) \cup InWindow(f))
    BY <2>4, <2>5, FS_Subset, FS_CardinalityType
  <2>7. Cardinality(InWindow(e) \cup InWindow(f)) \in Nat
    BY <2>5, FS_CardinalityType
  <2>8. Cardinality(S) <= 2 * Limit
    BY <2>5, <2>6, <2>7, SMT
  <2> QED
    BY <2>8 DEF S
<1> QED
  BY <1>1, LimiterInvariance, PTL

(* Whoever is refused finds a window that is full and recent.              *)
THEOREM RefusedWhenSpent == Spec => RefusedOnlyWhenSpent
<1>1. IInv /\ [Next]_vars =>
        [\A c \in Calls :
           (outcome[c] = "none" /\ outcome'[c] = "refused") =>
               Cardinality({d \in Calls : /\ outcome[d] = "allowed"
                                          /\ now <= at[d] + Window + MaxLag})
                   >= Limit]_vars
  <2> SUFFICES ASSUME IInv, [Next]_vars, NEW c \in Calls,
                      outcome[c] = "none", outcome'[c] = "refused"
               PROVE  Cardinality({d \in Calls :
                                      /\ outcome[d] = "allowed"
                                      /\ now <= at[d] + Window + MaxLag})
                          >= Limit
    OBVIOUS
  <2> USE LimiterAssumption
  <2> DEFINE Recent == {d \in Calls : /\ outcome[d] = "allowed"
                                      /\ now <= at[d] + Window + MaxLag}
  <2>1. PICK x \in Calls : Refuse(x)
    <3>1. CASE \E x \in Calls : OpenWindow(x) \/ CountCall(x)
      BY <3>1 DEF OpenWindow, CountCall, Admit, IInv, TypeOK
    <3>2. CASE outcome' = outcome
      BY <3>2
    <3> QED
      BY <3>1, <3>2 DEF Next, Tick, Allow, ReadClock, Cleanup, BeginSweep,
                        Sweep, vars
  <2>2. /\ read[x] \in Nat /\ now \in Nat /\ now <= read[x] + MaxLag
    BY <2>1, WaitingClock DEF Refuse, IInv
  <2>3. bucket # Null /\ bucket.count \in Nat /\ bucket.count >= Limit
          /\ bucket.resetAt \in Nat /\ read[x] <= bucket.resetAt
    <3>1. bucket # Null /\ bucket \in Buckets
      BY <2>1 DEF Refuse, Over, IInv, TypeOK
    <3> QED
      BY <2>1, <2>2, <3>1, SMT DEF Refuse, Over, Room, Buckets
  <2>4. /\ bucket.resetAt <= opened + Window /\ opened \in Nat
        /\ Cardinality(InWindow(epoch)) = bucket.count
    BY <2>3 DEF IInv, BucketInv, TypeOK
  <2>5. InWindow(epoch) \subseteq Recent
    <3> SUFFICES ASSUME NEW d \in InWindow(epoch)
                 PROVE  d \in Recent
      OBVIOUS
    <3>1. d \in Calls /\ outcome[d] = "allowed" /\ opened <= at[d]
            /\ at[d] \in Nat
      BY DEF InWindow, IInv, CallsInv, TypeOK
    <3>2. now <= at[d] + Window + MaxLag
      BY <2>2, <2>3, <2>4, <3>1, SMT
    <3> QED
      BY <3>1, <3>2
  <2>6. IsFiniteSet(Recent)
    <3>1. Recent \subseteq Calls
      OBVIOUS
    <3> QED
      BY <3>1, FS_Subset
  <2> HIDE DEF Recent
  <2>7. Cardinality(InWindow(epoch)) <= Cardinality(Recent)
          /\ Cardinality(Recent) \in Nat
    BY <2>5, <2>6, FS_Subset, FS_CardinalityType
  <2>8. Cardinality(Recent) >= Limit
    BY <2>3, <2>4, <2>7, SMT
  <2> QED
    BY <2>8 DEF Recent
<1> QED
  BY <1>1, LimiterInvariance, PTL DEF Spec, RefusedOnlyWhenSpent
=============================================================================
