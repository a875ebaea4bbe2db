----------------------------- MODULE RateLimiter -----------------------------
(***************************************************************************)
(* One key of one fixed-window limiter (internal/ratelimit/ratelimit.go)   *)
(* during one life of its process.  Every call reads the clock before it   *)
(* takes the lock, so calls enter the critical section in another order    *)
(* than their times; so does the sweep of Cleanup.  Each critical section  *)
(* is one action.                                                          *)
(***************************************************************************)
EXTENDS Naturals, FiniteSets

CONSTANTS
    Calls,      \* calls of Allow
    Limit,      \* admissions per window
    Window,     \* the length of a window
    MaxLag,     \* how old the time a call has read may be under the lock
    MaxTime,    \* bound on the clock
    Null        \* a time that was never read; no bucket

ASSUME LimiterAssumption ==
    /\ IsFiniteSet(Calls)
    /\ Limit \in Nat \ {0}
    /\ Window \in Nat
    /\ MaxLag \in Nat
    /\ MaxTime \in Nat
    /\ Null \notin Nat

Buckets == [count : 1 .. Limit, resetAt : Nat]

ASSUME BucketNotNull == Null \notin Buckets

VARIABLES
    now,        \* the monotonic clock
    bucket,     \* items[key], or Null while the map has no entry
    read,       \* the time each waiting call has read
    outcome,    \* what each call was answered
    sweep,      \* the time a waiting Cleanup has read
    epoch,      \* windows opened so far (history)
    opened,     \* when the current window was opened (history)
    at,         \* when each admitted call was admitted (history)
    in          \* the window each admitted call was counted in (history)

history == <<epoch, opened, at, in>>
vars == <<now, bucket, read, outcome, sweep, history>>

TypeOK ==
    /\ now \in 0 .. MaxTime
    /\ bucket \in Buckets \cup {Null}
    /\ read \in [Calls -> Nat \cup {Null}]
    /\ outcome \in [Calls -> {"none", "allowed", "refused"}]
    /\ sweep \in Nat \cup {Null}
    /\ epoch \in Nat
    /\ opened \in Nat
    /\ at \in [Calls -> Nat]
    /\ in \in [Calls -> Nat]

Init ==
    /\ now = 0
    /\ bucket = Null
    /\ read = [c \in Calls |-> Null]
    /\ outcome = [c \in Calls |-> "none"]
    /\ sweep = Null
    /\ epoch = 0
    /\ opened = 0
    /\ at = [c \in Calls |-> 0]
    /\ in = [c \in Calls |-> 0]

---------------------------------------------------------------------------
(* A call that has read the clock is not held up longer than MaxLag. *)
Waiting(c) == read[c] # Null /\ outcome[c] = "none"

Tick ==
    /\ now < MaxTime
    /\ \A c \in Calls : Waiting(c) => now < read[c] + MaxLag
    /\ sweep # Null => now < sweep + MaxLag
    /\ now' = now + 1
    /\ UNCHANGED <<bucket, read, outcome, sweep, history>>

ReadClock(c) ==
    /\ read[c] = Null
    /\ read' = [read EXCEPT ![c] = now]
    /\ UNCHANGED <<now, bucket, outcome, sweep, history>>

(* now.After(item.resetAt), or no item. *)
Over(t) == bucket # Null => t > bucket.resetAt

Admit(c, window) ==
    /\ outcome' = [outcome EXCEPT ![c] = "allowed"]
    /\ at' = [at EXCEPT ![c] = now]
    /\ in' = [in EXCEPT ![c] = window]
    /\ UNCHANGED <<now, read, sweep>>

OpenWindow(c) ==
    /\ Waiting(c)
    /\ Over(read[c])
    /\ bucket' = [count |-> 1, resetAt |-> read[c] + Window]
    /\ epoch' = epoch + 1
    /\ opened' = now
    /\ Admit(c, epoch + 1)

(* Mutant: the limit is compared after counting. *)
RoomForOneMore == bucket.count <= Limit

Room == bucket.count < Limit

(* Mutant: every call prolongs the window. *)
CountSliding(c) ==
    /\ Waiting(c)
    /\ ~Over(read[c])
    /\ Room
    /\ bucket' = [count |-> bucket.count + 1, resetAt |-> read[c] + Window]
    /\ Admit(c, epoch)
    /\ UNCHANGED <<epoch, opened>>

CountCall(c) ==
    /\ Waiting(c)
    /\ ~Over(read[c])
    /\ Room
    /\ bucket' = [bucket EXCEPT !.count = @ + 1]
    /\ Admit(c, epoch)
    /\ UNCHANGED <<epoch, opened>>

Refuse(c) ==
    /\ Waiting(c)
    /\ ~Over(read[c])
    /\ ~Room
    /\ outcome' = [outcome EXCEPT ![c] = "refused"]
    /\ UNCHANGED <<now, bucket, read, sweep, history>>

Allow(c) ==
    \/ ReadClock(c)
    \/ OpenWindow(c)
    \/ CountCall(c)
    \/ Refuse(c)

BeginSweep ==
    /\ sweep = Null
    /\ sweep' = now
    /\ UNCHANGED <<now, bucket, read, outcome, history>>

(* Mutant: entries are deleted whatever their age. *)
SweepAll ==
    /\ sweep # Null
    /\ sweep' = Null
    /\ bucket' = Null
    /\ UNCHANGED <<now, read, outcome, history>>

Sweep ==
    /\ sweep # Null
    /\ sweep' = Null
    /\ bucket' = IF Over(sweep) THEN Null ELSE bucket
    /\ UNCHANGED <<now, read, outcome, history>>

Cleanup == BeginSweep \/ Sweep

Next ==
    \/ Tick
    \/ \E c \in Calls : Allow(c)
    \/ Cleanup

Spec == Init /\ [][Next]_vars

---------------------------------------------------------------------------
Admitted(first, last) ==
    {c \in Calls : outcome[c] = "allowed" /\ at[c] \in first .. last}

(* What the fixed windows guarantee of any interval of time, wherever it   *)
(* starts: no interval shorter than a window, less the lag of a call,      *)
(* holds more than twice the limit, in whatever order the calls enter the  *)
(* critical section and whenever the entry is swept.                       *)
AtMostTwiceTheLimit ==
    \A t \in 0 .. MaxTime :
        Cardinality(Admitted(t, t + Window - MaxLag)) <= 2 * Limit

(* A call is refused only when the limit was used up within the last       *)
(* window, and a lag: no entry outlives its window, whatever was deleted   *)
(* or reopened meanwhile.                                                  *)
RefusedOnlyWhenSpent ==
    [][\A c \in Calls :
         (outcome[c] = "none" /\ outcome'[c] = "refused") =>
             Cardinality({d \in Calls : /\ outcome[d] = "allowed"
                                        /\ now <= at[d] + Window + MaxLag})
                 >= Limit]_vars

(* A window is opened only when the one before it has run its length, less *)
(* the lag.                                                                *)
WindowsAreApart ==
    [][(epoch' # epoch /\ epoch > 0) => opened' > opened + Window - MaxLag]_vars
=============================================================================
