-------------------------------- MODULE Startup --------------------------------
(***************************************************************************)
(* Replicas that start against one database (cmd/secureshare/main.go):     *)
(* each runs the migrations of its own image, one transaction per file     *)
(* (internal/database/migrate.go), creates the bootstrap administrator if  *)
(* it counts no users (internal/auth/users.go), and serves.  Nothing locks *)
(* the others out; a replica that loses a race on a primary key or a       *)
(* unique name exits and is restarted.                                     *)
(***************************************************************************)
EXTENDS Naturals

CONSTANTS
    Replicas,
    Versions,    \* the number of migration files there are
    Files,       \* how many of them each replica's image has
    Names,       \* user names; e-mail addresses go with them
    Configured,  \* BOOTSTRAP_ADMIN_USERNAME of each replica, or Null
    LegacyKey,   \* whether the legacy admin API key is enabled
    MaxStops,    \* bound on stops and crashes
    Null

ASSUME StartupAssumption ==
    /\ Versions \in Nat
    /\ Files \in [Replicas -> 0 .. Versions]
    /\ Configured \in [Replicas -> Names \cup {Null}]
    /\ LegacyKey \in BOOLEAN
    /\ MaxStops \in Nat
    /\ Null \notin Names

VARIABLES
    applied,     \* versions in schema_migrations
    runs,        \* how often each file has been committed (history)
    users,       \* names in users
    pc,          \* where each replica stands
    at,          \* the file it is at
    stops,       \* stops so far
    created,     \* replicas whose bootstrap has created a user (history)
    early        \* replicas that counted none before the first user was
                 \* there, and have not been restarted since (history)

vars == <<applied, runs, users, pc, at, stops, created, early>>

TypeOK ==
    /\ applied \subseteq 1 .. Versions
    /\ runs \in [1 .. Versions -> Nat]
    /\ users \subseteq Names
    /\ pc \in [Replicas -> {"down", "checking", "applying", "counting",
                            "creating", "serving"}]
    /\ at \in [Replicas -> 1 .. Versions + 1]
    /\ stops \in Nat
    /\ created \subseteq Replicas
    /\ early \subseteq Replicas

Init ==
    /\ applied = {}
    /\ runs = [v \in 1 .. Versions |-> 0]
    /\ users = {}
    /\ pc = [r \in Replicas |-> "down"]
    /\ at = [r \in Replicas |-> 1]
    /\ stops = 0
    /\ created = {}
    /\ early = {}

---------------------------------------------------------------------------
Goto(r, to) == pc' = [pc EXCEPT ![r] = to]

Exit(r) ==
    /\ Goto(r, "down")
    /\ early' = early \ {r}

Start(r) ==
    /\ pc[r] = "down"
    /\ Goto(r, "checking")
    /\ at' = [at EXCEPT ![r] = 1]
    /\ UNCHANGED <<applied, runs, users, stops, created, early>>

(* Mutant: files are run from the first that is missing, without asking    *)
(* for each.                                                               *)
CheckFirst(r) ==
    /\ pc[r] = "checking"
    /\ at[r] <= Files[r]
    /\ IF at[r] \in applied /\ at[r] = 1
       THEN at' = [at EXCEPT ![r] = Files[r] + 1] /\ UNCHANGED pc
       ELSE Goto(r, "applying") /\ UNCHANGED at
    /\ UNCHANGED <<applied, runs, users, stops, created, early>>

CheckVersion(r) ==
    /\ pc[r] = "checking"
    /\ at[r] <= Files[r]
    /\ IF at[r] \in applied
       THEN at' = [at EXCEPT ![r] = @ + 1] /\ UNCHANGED pc
       ELSE Goto(r, "applying") /\ UNCHANGED at
    /\ UNCHANGED <<applied, runs, users, stops, created, early>>

(* Mutant: INSERT ... ON CONFLICT DO NOTHING. *)
CommitAnyhow(r) ==
    /\ pc[r] = "applying"
    /\ applied' = applied \cup {at[r]}
    /\ runs' = [runs EXCEPT ![at[r]] = @ + 1]
    /\ at' = [at EXCEPT ![r] = @ + 1]
    /\ Goto(r, "checking")
    /\ UNCHANGED <<users, stops, created, early>>

(* The file and its version are committed together.  Where two replicas    *)
(* run one file, the second waits for the first and fails on the key.      *)
Commit(r) ==
    /\ pc[r] = "applying"
    /\ \/ /\ at[r] \notin applied
          /\ applied' = applied \cup {at[r]}
          /\ runs' = [runs EXCEPT ![at[r]] = @ + 1]
          /\ at' = [at EXCEPT ![r] = @ + 1]
          /\ Goto(r, "checking")
          /\ UNCHANGED early
       \/ /\ at[r] \in applied
          /\ Exit(r)
          /\ UNCHANGED <<applied, runs, at>>
    /\ UNCHANGED <<users, stops, created>>

Migrated(r) ==
    /\ pc[r] = "checking"
    /\ at[r] > Files[r]
    /\ Goto(r, "counting")
    /\ UNCHANGED <<applied, runs, users, at, stops, created, early>>

(* Mutant: the users are not counted. *)
CountNothing(r) ==
    /\ pc[r] = "counting"
    /\ Goto(r, IF Configured[r] = Null THEN "serving" ELSE "creating")
    /\ UNCHANGED <<applied, runs, users, at, stops, created, early>>

CountUsers(r) ==
    /\ pc[r] = "counting"
    /\ IF users # {} \/ Configured[r] = Null
       THEN Goto(r, "serving") /\ UNCHANGED early
       ELSE Goto(r, "creating") /\ early' = early \cup {r}
    /\ UNCHANGED <<applied, runs, users, at, stops, created>>

CreateAdmin(r) ==
    /\ pc[r] = "creating"
    /\ \/ /\ Configured[r] \notin users
          /\ users' = users \cup {Configured[r]}
          /\ created' = created \cup {r}
          /\ Goto(r, "serving")
          /\ UNCHANGED early
       \/ /\ Configured[r] \in users
          /\ Exit(r)
          /\ UNCHANGED <<users, created>>
    /\ UNCHANGED <<applied, runs, at, stops>>

(* A signal, a crash, or a statement that fails or times out. *)
Stop(r) ==
    /\ pc[r] # "down"
    /\ stops < MaxStops
    /\ stops' = stops + 1
    /\ Exit(r)
    /\ UNCHANGED <<applied, runs, users, at, created>>

---------------------------------------------------------------------------
(* What the replicas that serve do to the users; none is ever deleted. *)

Serving == {r \in Replicas : pc[r] = "serving"}

AddUser(n) ==
    /\ Serving # {}
    /\ users # {} \/ LegacyKey
    /\ n \notin users
    /\ users' = users \cup {n}
    /\ UNCHANGED <<applied, runs, pc, at, stops, created, early>>

RenameUser(n, m) ==
    /\ Serving # {}
    /\ n \in users
    /\ m \notin users
    /\ users' = (users \ {n}) \cup {m}
    /\ UNCHANGED <<applied, runs, pc, at, stops, created, early>>

Run(r) ==
    \/ Start(r)
    \/ CheckVersion(r)
    \/ Commit(r)
    \/ Migrated(r)
    \/ CountUsers(r)
    \/ CreateAdmin(r)

Next ==
    \/ \E r \in Replicas : Run(r) \/ Stop(r)
    \/ \E n \in Names : AddUser(n)
    \/ \E n, m \in Names : RenameUser(n, m)

Spec == Init /\ [][Next]_vars

(* Every statement returns, and an exited replica is started again.        *)
FairSpec == Spec /\ \A r \in Replicas : WF_vars(Run(r))

---------------------------------------------------------------------------
(* Whatever replicas and images start together: each file is committed     *)
(* once, after all files before it.                                        *)
OnceInOrder ==
    \A v \in 1 .. Versions :
        /\ runs[v] = IF v \in applied THEN 1 ELSE 0
        /\ v \in applied => 1 .. v \subseteq applied

(* A replica that counts users or serves finds every file of its image     *)
(* applied, whichever replica applied it.                                  *)
ServingIsMigrated ==
    \A r \in Replicas : pc[r] \in {"counting", "creating", "serving"} =>
        1 .. Files[r] \subseteq applied

(* The bootstrap of a replica creates a user only if, since it was         *)
(* started, it has seen the users empty.                                   *)
BootstrapSawNone ==
    [][\A r \in Replicas : r \in created' \ created => r \in early]_vars

(* Replicas that exit on each other's keys and names do so finitely often: *)
(* once nothing stops them any more, all of them serve.                    *)
AllServe == \A r \in Replicas : <>[](pc[r] = "serving")
=============================================================================
