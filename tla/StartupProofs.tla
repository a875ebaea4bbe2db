----------------------------- MODULE StartupProofs -----------------------------
(***************************************************************************)
(* Proofs about Startup for any number of replicas, images and files.      *)
(***************************************************************************)
EXTENDS Startup, TLAPS

(* A replica has found or made applied every file before the one it is at. *)
Progress ==
    \A r \in Replicas :
        /\ at[r] <= Files[r] + 1
        /\ pc[r] # "down" => 1 .. at[r] - 1 \subseteq applied
        /\ pc[r] = "applying" => at[r] <= Files[r]
        /\ pc[r] \in {"counting", "creating", "serving"} => at[r] = Files[r] + 1
        /\ pc[r] = "creating" => r \in early /\ Configured[r] # Null

IInv == TypeOK /\ OnceInOrder /\ Progress

---------------------------------------------------------------------------
(* No replica runs yet and nothing is applied. *)
LEMMA InitInv == Init => IInv
<1> SUFFICES ASSUME Init PROVE IInv
    OBVIOUS
<1>1. TypeOK
    BY StartupAssumption DEF Init, TypeOK
<1>2. OnceInOrder
    BY StartupAssumption DEF Init, OnceInOrder
<1>3. Progress
  <2> SUFFICES ASSUME NEW r \in Replicas
               PROVE  /\ at[r] <= Files[r] + 1
                      /\ pc[r] = "down"
    BY DEF Progress
  <2>1. Files[r] \in Nat /\ at[r] = 1 /\ pc[r] = "down"
    BY StartupAssumption DEF Init
  <2> QED
    BY <2>1
<1> QED
    BY <1>1, <1>2, <1>3 DEF IInv

(* Every step keeps the types; a replica that applies a file is at one its *)
(* image has.                                                              *)
LEMMA StepTypes ==
    ASSUME IInv, [Next]_vars
    PROVE  TypeOK'
<1> USE StartupAssumption DEF IInv, TypeOK, Goto, Exit
<1>1. ASSUME NEW r \in Replicas, Start(r) PROVE TypeOK'
    BY <1>1 DEF Start
<1>2. ASSUME NEW r \in Replicas, CheckVersion(r) PROVE TypeOK'
  <2>1. Files[r] \in 0 .. Versions
    OBVIOUS
  <2>2. pc[r] = "checking" /\ at[r] <= Files[r]
    BY <1>2 DEF CheckVersion
  <2>3. at[r] + 1 \in 1 .. Versions + 1
    BY <2>1, <2>2
  <2>4. at' \in [Replicas -> 1 .. Versions + 1]
    BY <1>2, <2>3 DEF CheckVersion
  <2> QED
    BY <1>2, <2>4 DEF CheckVersion
<1>3. ASSUME NEW r \in Replicas, Commit(r) PROVE TypeOK'
  <2>1. Files[r] \in 0 .. Versions /\ at[r] \in 1 .. Versions + 1
    OBVIOUS
  <2>2. at[r] <= Files[r]
    BY <1>3 DEF Commit, Progress
  <2>3. at[r] \in 1 .. Versions /\ at[r] + 1 \in 1 .. Versions + 1
    BY <2>1, <2>2
  <2>4. applied' \subseteq 1 .. Versions
    BY <1>3, <2>3 DEF Commit
  <2>5. runs' \in [1 .. Versions -> Nat]
    <3>1. runs[at[r]] + 1 \in Nat
      BY <2>3
    <3> QED
      BY <1>3, <3>1 DEF Commit
  <2>6. at' \in [Replicas -> 1 .. Versions + 1]
    BY <1>3, <2>3 DEF Commit
  <2> QED
    BY <1>3, <2>4, <2>5, <2>6 DEF Commit
<1>4. ASSUME NEW r \in Replicas, Migrated(r) PROVE TypeOK'
    BY <1>4 DEF Migrated
<1>5. ASSUME NEW r \in Replicas, CountUsers(r) PROVE TypeOK'
    BY <1>5 DEF CountUsers
<1>6. ASSUME NEW r \in Replicas, CreateAdmin(r) PROVE TypeOK'
  <2>1. Configured[r] \in Names
    BY <1>6 DEF CreateAdmin, Progress
  <2> QED
    BY <1>6, <2>1 DEF CreateAdmin
<1>7. ASSUME NEW r \in Replicas, Stop(r) PROVE TypeOK'
    BY <1>7 DEF Stop
<1>8. ASSUME NEW n \in Names, AddUser(n) PROVE TypeOK'
    BY <1>8 DEF AddUser
<1>9. ASSUME NEW n \in Names, NEW m \in Names, RenameUser(n, m) PROVE TypeOK'
    BY <1>9 DEF RenameUser
<1>10. CASE UNCHANGED vars
    BY <1>10 DEF vars
<1> QED
    BY <1>1, <1>2, <1>3, <1>4, <1>5, <1>6, <1>7, <1>8, <1>9, <1>10
    DEF Next, Run

(* The key of schema_migrations lets one transaction of a file commit, and *)
(* a file is run only by a replica that has passed all files before it.    *)
LEMMA StepOnceInOrder ==
    ASSUME IInv, [Next]_vars
    PROVE  OnceInOrder'
<1>1. ASSUME NEW r \in Replicas, Commit(r) PROVE OnceInOrder'
  <2>1. CASE at[r] \notin applied
    <3>1. /\ at[r] \in 1 .. Versions
          /\ 1 .. at[r] - 1 \subseteq applied
          /\ applied' = applied \cup {at[r]}
          /\ runs' = [runs EXCEPT ![at[r]] = @ + 1]
      <4>1. pc[r] = "applying" /\ applied' = applied \cup {at[r]}
            /\ runs' = [runs EXCEPT ![at[r]] = @ + 1]
        BY <1>1, <2>1 DEF Commit
      <4>2. at[r] <= Files[r] /\ 1 .. at[r] - 1 \subseteq applied
        BY <4>1 DEF IInv, Progress
      <4>3. Files[r] \in 0 .. Versions /\ at[r] \in 1 .. Versions + 1
        BY StartupAssumption DEF IInv, TypeOK
      <4>4. at[r] \in 1 .. Versions
        BY <4>2, <4>3, StartupAssumption
      <4> QED
        BY <4>1, <4>2, <4>4
    <3> SUFFICES ASSUME NEW v \in 1 .. Versions
                 PROVE  /\ runs'[v] = IF v \in applied' THEN 1 ELSE 0
                        /\ v \in applied' => 1 .. v \subseteq applied'
      BY DEF OnceInOrder
    <3>2. CASE v = at[r]
      <4>1. runs[v] = 0
        BY <2>1, <3>2 DEF IInv, OnceInOrder
      <4>2. runs'[v] = 1
        BY <3>1, <3>2, <4>1 DEF IInv, TypeOK
      <4>3. 1 .. v \subseteq applied'
        BY <3>1, <3>2
      <4> QED
        BY <3>1, <3>2, <4>2, <4>3
    <3>3. CASE v # at[r]
      BY <3>1, <3>3 DEF IInv, OnceInOrder, TypeOK
    <3> QED
      BY <3>2, <3>3
  <2>2. CASE at[r] \in applied
    <3>1. UNCHANGED <<applied, runs>>
      BY <1>1, <2>2 DEF Commit
    <3> QED
      BY <3>1 DEF IInv, OnceInOrder
  <2> QED
    BY <2>1, <2>2
<1>2. ASSUME UNCHANGED <<applied, runs>> PROVE OnceInOrder'
    BY <1>2 DEF IInv, OnceInOrder
<1>3. ASSUME NEW r \in Replicas, ~Commit(r), Run(r) \/ Stop(r)
      PROVE  OnceInOrder'
    BY <1>2, <1>3
    DEF Run, Stop, Start, CheckVersion, Migrated, CountUsers, CreateAdmin
<1>4. ASSUME NEW n \in Names, NEW m \in Names, AddUser(n) \/ RenameUser(n, m)
      PROVE  OnceInOrder'
    BY <1>2, <1>4 DEF AddUser, RenameUser
<1> QED
    BY <1>1, <1>2, <1>3, <1>4 DEF Next, vars

(* The files a replica has passed stay applied, whoever applied them.      *)
LEMMA StepProgress ==
    ASSUME IInv, [Next]_vars
    PROVE  Progress'
<1> DEFINE Here(r) ==
        /\ at[r] <= Files[r] + 1
        /\ pc[r] # "down" => 1 .. at[r] - 1 \subseteq applied
        /\ pc[r] = "applying" => at[r] <= Files[r]
        /\ pc[r] \in {"counting", "creating", "serving"} => at[r] = Files[r] + 1
        /\ pc[r] = "creating" => r \in early /\ Configured[r] # Null
<1>1. \A r \in Replicas : /\ Here(r)
                           /\ Files[r] \in Nat
                           /\ at[r] \in Nat \ {0}
    BY StartupAssumption DEF IInv, TypeOK, Progress
<1> SUFFICES \A r \in Replicas : Here(r)'
    BY DEF Progress
<1>2. applied \subseteq applied'
    BY DEF Next, Run, Stop, Start, CheckVersion, Commit, Migrated, CountUsers,
           CreateAdmin, AddUser, RenameUser, vars
<1>3. ASSUME NEW r \in Replicas, NEW s \in Replicas,
             UNCHANGED <<pc[s], at[s]>>, s \in early => s \in early'
      PROVE  Here(s)'
    BY <1>1, <1>2, <1>3
<1>4. ASSUME NEW r \in Replicas, Run(r) \/ Stop(r), NEW s \in Replicas
      PROVE  Here(s)'
  <2>1. CASE s # r
    <3>1. UNCHANGED <<pc[s], at[s]>> /\ (s \in early => s \in early')
      BY <1>4, <2>1
      DEF IInv, TypeOK, Run, Stop, Start, CheckVersion, Commit, Migrated,
          CountUsers, CreateAdmin, Goto, Exit
    <3> QED
      BY <1>3, <3>1
  <2> SUFFICES ASSUME s = r PROVE Here(r)'
    BY <2>1
  <2> USE <1>1, <1>2 DEF IInv, TypeOK, Goto, Exit
  <2>2. CASE Start(r)
    BY <2>2 DEF Start
  <2>3. CASE CheckVersion(r)
    BY <2>3 DEF CheckVersion
  <2>4. CASE Commit(r)
    BY <2>4 DEF Commit
  <2>5. CASE Migrated(r)
    BY <2>5 DEF Migrated
  <2>6. CASE CountUsers(r)
    BY <2>6 DEF CountUsers
  <2>7. CASE CreateAdmin(r)
    BY <2>7 DEF CreateAdmin
  <2>8. CASE Stop(r)
    BY <2>8 DEF Stop
  <2> QED
    BY <1>4, <2>2, <2>3, <2>4, <2>5, <2>6, <2>7, <2>8 DEF Run
<1>5. ASSUME NEW n \in Names, NEW m \in Names, AddUser(n) \/ RenameUser(n, m)
      PROVE  \A r \in Replicas : Here(r)'
    BY <1>3, <1>5 DEF AddUser, RenameUser
<1>6. CASE UNCHANGED vars
    BY <1>3, <1>6 DEF vars
<1> QED
    BY <1>4, <1>5, <1>6 DEF Next

---------------------------------------------------------------------------
(* The inductive invariant holds in every reachable state.                 *)
THEOREM StartupInvariance == Spec => []IInv
<1>1. Init => IInv
    BY InitInv
<1>2. IInv /\ [Next]_vars => IInv'
    BY StepTypes, StepOnceInOrder, StepProgress DEF IInv
<1> QED
    BY <1>1, <1>2, PTL DEF Spec

(* Every reachable state of any number of replicas is well typed.          *)
THEOREM StartupTypeCorrect == Spec => []TypeOK
<1>1. IInv => TypeOK
    BY DEF IInv
<1> QED
    BY <1>1, StartupInvariance, PTL

(* Each migration file is committed once and in order (migrate.go).        *)
THEOREM MigratedOnceInOrder == Spec => []OnceInOrder
<1>1. IInv => OnceInOrder
    BY DEF IInv
<1> QED
    BY <1>1, StartupInvariance, PTL

(* A replica that serves finds the schema of its image (main.go:54).       *)
THEOREM SchemaBeforeService == Spec => []ServingIsMigrated
<1>1. IInv => ServingIsMigrated
  <2> SUFFICES ASSUME IInv, NEW r \in Replicas,
                      pc[r] \in {"counting", "creating", "serving"}
               PROVE  1 .. Files[r] \subseteq applied
    BY DEF ServingIsMigrated
  <2>1. Files[r] \in Nat /\ at[r] = Files[r] + 1
    BY StartupAssumption DEF IInv, Progress
  <2>2. 1 .. at[r] - 1 \subseteq applied
    BY DEF IInv, Progress
  <2> QED
    BY <2>1, <2>2
<1> QED
    BY <1>1, StartupInvariance, PTL

(* Every bootstrap that creates a user has counted none since its replica  *)
(* was started (users.go:194).                                             *)
THEOREM BootstrapCounted == Spec => BootstrapSawNone
<1>1. IInv /\ [Next]_vars =>
        [\A r \in Replicas : r \in created' \ created => r \in early]_vars
  <2> SUFFICES ASSUME IInv, Next, NEW r \in Replicas, r \in created' \ created
               PROVE  r \in early
    BY DEF vars
  <2>1. PICK s \in Replicas : CreateAdmin(s)
    BY DEF Next, Run, Stop, Start, CheckVersion, Commit, Migrated, CountUsers,
           AddUser, RenameUser
  <2>2. r = s /\ pc[r] = "creating"
    BY <2>1 DEF CreateAdmin
  <2> QED
    BY <2>2 DEF IInv, Progress
<1> QED
    BY <1>1, StartupInvariance, PTL DEF Spec, BootstrapSawNone
=============================================================================
