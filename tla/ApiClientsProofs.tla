-------------------------- MODULE ApiClientsProofs --------------------------
(***************************************************************************)
(* Safety of an API client for every number of managers and callers.       *)
(***************************************************************************)
EXTENDS ApiClients, TLAPS

(* The secret of a rotation that has not written yet is nowhere, and       *)
(* nothing is retired before there is a client.                            *)
SecretsInv ==
    /\ RetiredSecretsStayOut
    /\ client = Null => retired = {}
    /\ \A m \in Managers : manager[m] # "rotated" =>
          /\ m \notin retired
          /\ client # Null => client.secret # m

IInv == TypeOK /\ SecretsInv

(* A new status leaves a row that differs in the status only.              *)
LEMMA StatusSet ==
    ASSUME client \in Clients, NEW s \in {"active", "disabled", "revoked"},
           SetStatus(s)
    PROVE  /\ client' \in Clients /\ client' # Null
           /\ client'.secret = client.secret
BY ClientNotNull DEF SetStatus, Clients

(* A step that writes no secret, or that of a rotation, keeps the          *)
(* invariant.                                                              *)
LEMMA StepKeepsSecrets ==
    ASSUME IInv, NEW m \in Managers, NEW from, NEW to, Step(m, from, to),
           client' \in Clients, client' # Null,
           \/ /\ client'.secret = client.secret
              /\ retired' = retired
              /\ to # "rotated" /\ from # "rotated"
           \/ /\ client'.secret = m
              /\ retired' = retired \cup {client.secret}
              /\ from # "rotated" /\ to = "rotated"
    PROVE  SecretsInv'
<1> USE DEF IInv, TypeOK
<1>1. /\ client # Null /\ client \in Clients /\ manager[m] = from
      /\ manager' = [manager EXCEPT ![m] = to]
  BY DEF Step
<1>2. client.secret \notin retired
  BY <1>1 DEF SecretsInv, RetiredSecretsStayOut
<1>3. CASE client'.secret = client.secret /\ retired' = retired
             /\ to # "rotated" /\ from # "rotated"
  <2>1. \A n \in Managers : manager'[n] # "rotated" => manager[n] # "rotated"
    BY <1>1, <1>3
  <2> QED
    BY <1>1, <1>2, <1>3, <2>1 DEF SecretsInv, RetiredSecretsStayOut
<1>4. CASE client'.secret = m /\ retired' = retired \cup {client.secret}
             /\ from # "rotated" /\ to = "rotated"
  <2>1. m \notin retired /\ m # client.secret
    BY <1>1, <1>4 DEF SecretsInv
  <2>2. \A n \in Managers : manager'[n] # "rotated" =>
                               manager[n] # "rotated" /\ n # m
    BY <1>1, <1>4
  <2> QED
    BY <1>1, <1>4, <2>1, <2>2 DEF SecretsInv, RetiredSecretsStayOut
<1> QED
  BY <1>3, <1>4

(* The invariant holds initially and is kept by every step: two rotations  *)
(* that overlap write two different secrets.                               *)
THEOREM ClientInvariance == Spec => []IInv
<1> USE ClientAssumption
<1>1. Init => IInv
  BY SMT DEF Init, IInv, TypeOK, SecretsInv, RetiredSecretsStayOut
<1>2. IInv /\ [Next]_vars => IInv'
  <2> SUFFICES ASSUME IInv, [Next]_vars PROVE IInv'
    OBVIOUS
  <2> USE DEF IInv
  <2>1. CASE Tick
    <3>1. now' \in 0 .. MaxTime
      BY <2>1, SMT DEF Tick, TypeOK
    <3> QED
      BY <2>1, <3>1 DEF Tick, TypeOK, SecretsInv, RetiredSecretsStayOut
  <2>2. ASSUME NEW t \in 0 .. MaxTime \cup {Null}, CreateAPIClient(t)
        PROVE  IInv'
    <3>1. client' \in Clients /\ client'.secret = First
      BY <2>2 DEF CreateAPIClient, Clients, Secrets
    <3>2. retired' = {} /\ First \notin Managers
      BY <2>2 DEF CreateAPIClient, SecretsInv
    <3> QED
      BY <2>2, <3>1, <3>2
      DEF CreateAPIClient, TypeOK, SecretsInv, RetiredSecretsStayOut
  <2>3. ASSUME NEW m \in Managers, Manage(m)
        PROVE  IInv'
    <3>1. client # Null /\ client \in Clients
      BY <2>3 DEF Manage, ReadUnlessRevoked, Disable, Enable, Revoke, Rotate,
                  Abandon, Step, TypeOK
    <3>2. CASE \/ \E to \in {"enabling", "rotating"} : ReadUnlessRevoked(m, to)
               \/ Abandon(m)
      <4>1. PICK from \in {"idle", "enabling", "rotating"},
                 to \in {"enabling", "rotating", "refused"} : Step(m, from, to)
        BY <3>2 DEF ReadUnlessRevoked, Abandon
      <4>2. UNCHANGED <<client, retired, revoked>>
        BY <3>2 DEF ReadUnlessRevoked, Abandon
      <4>3. SecretsInv'
        BY <3>1, <4>1, <4>2, StepKeepsSecrets
      <4> QED
        BY <4>1, <4>2, <4>3 DEF Step, TypeOK
    <3>3. CASE Disable(m) \/ Enable(m) \/ Revoke(m)
      <4>1. PICK s \in {"active", "disabled", "revoked"} : SetStatus(s)
        BY <3>3 DEF Disable, Enable, Revoke
      <4>2. client' \in Clients /\ client' # Null
              /\ client'.secret = client.secret
        BY <3>1, <4>1, StatusSet
      <4>3. PICK from \in {"idle", "enabling"} : Step(m, from, "done")
        BY <3>3 DEF Disable, Enable, Revoke
      <4>4. retired' = retired /\ revoked' \in {"no", "alone", "overlapped"}
        BY <3>3 DEF Disable, Enable, Revoke, TypeOK
      <4>5. SecretsInv'
        BY <4>2, <4>3, <4>4, StepKeepsSecrets
      <4> QED
        BY <4>2, <4>3, <4>4, <4>5 DEF Step, TypeOK
    <3>4. CASE Rotate(m)
      <4>1. client' \in Clients /\ client'.secret = m
        BY <3>1, <3>4 DEF Rotate, Clients, Secrets
      <4>2. /\ Step(m, "rotating", "rotated") /\ revoked' = revoked
            /\ retired' = retired \cup {client.secret}
            /\ client.secret \in Secrets
        BY <3>1, <3>4 DEF Rotate, Clients
      <4>3. SecretsInv'
        BY <4>1, <4>2, ClientNotNull, StepKeepsSecrets
      <4> QED
        BY <4>1, <4>2, <4>3 DEF Step, TypeOK
    <3> QED
      BY <2>3, <3>2, <3>3, <3>4 DEF Manage
  <2>4. ASSUME NEW c \in Callers, NEW s \in Secrets, Authenticate(c, s)
        PROVE  IInv'
    BY <2>4 DEF Authenticate, TypeOK, SecretsInv, RetiredSecretsStayOut
  <2>5. CASE UNCHANGED vars
    BY <2>5 DEF vars, TypeOK, SecretsInv, RetiredSecretsStayOut
  <2> QED
    BY <2>1, <2>2, <2>3, <2>4, <2>5 DEF Next
<1> QED
  BY <1>1, <1>2, PTL DEF Spec

(* The client, its managers and its callers are always well typed: a       *)
(* client is never stored without a secret.                                *)
THEOREM ClientTypeCorrect == Spec => []TypeOK
<1>1. IInv => TypeOK
  BY DEF IInv
<1> QED
  BY <1>1, ClientInvariance, PTL

(* A secret that a rotation has replaced never authenticates again.        *)
THEOREM RetiredForGood == Spec => []RetiredSecretsStayOut
<1>1. IInv => RetiredSecretsStayOut
  BY DEF IInv, SecretsInv
<1> QED
  BY <1>1, ClientInvariance, PTL

(* A management request that starts after a revocation does not bring the  *)
(* client back in one step.                                                *)
THEOREM RevivedByEarlierRead == Spec => RevivedOnlyByEarlierRead
<1>1. IInv /\ [Next]_vars =>
        [(client # Null /\ client.status = "revoked") =>
           /\ client'.status = "active" => \E m \in Early : m \notin Early'
           /\ Early' \subseteq Early]_vars
  <2> SUFFICES ASSUME IInv, [Next]_vars,
                      client # Null, client.status = "revoked"
               PROVE  /\ client'.status = "active" =>
                            \E m \in Early : m \notin Early'
                      /\ Early' \subseteq Early
    OBVIOUS
  <2>1. client \in Clients /\ manager \in [Managers -> {"idle", "enabling",
                                  "rotating", "rotated", "done", "refused"}]
    BY DEF IInv, TypeOK
  <2>2. CASE \E m \in Managers : Manage(m)
    <3>1. PICK m \in Managers : Manage(m)
      BY <2>2
    <3>2. CASE \/ \E to \in {"enabling", "rotating"} : ReadUnlessRevoked(m, to)
               \/ Abandon(m)
      BY <2>1, <3>2 DEF ReadUnlessRevoked, Abandon, Step, Early
    <3>3. CASE Disable(m) \/ Revoke(m)
      <4>1. client'.status # "active"
        BY <2>1, <3>3 DEF Disable, Revoke, SetStatus, Clients
      <4> QED
        BY <2>1, <3>3, <4>1 DEF Disable, Revoke, Step, Early
    <3>4. CASE Enable(m) \/ Rotate(m)
      BY <2>1, <3>4 DEF Enable, Rotate, Step, Early
    <3> QED
      BY <3>1, <3>2, <3>3, <3>4 DEF Manage
  <2>3. CASE UNCHANGED <<client, manager>>
    BY <2>3 DEF Early
  <2> QED
    BY <2>2, <2>3 DEF Next, Tick, CreateAPIClient, Authenticate, vars
<1> QED
  BY <1>1, ClientInvariance, PTL DEF Spec, RevivedOnlyByEarlierRead

---------------------------------------------------------------------------
(* The promise of the credential, through the mapping.                     *)

promised == <<Status, InForce, retired, Expired, Early, Used>>

LEMMA InitPromise == Init => Promise!Init
BY ClientAssumption DEF Init, Promise!Init, Status, InForce, Expired, Early, Used

(* The requests being served, after a step of one of them.                 *)
LEMMA EarlyMoves ==
    ASSUME TypeOK, NEW m \in Managers, NEW from, NEW to, Step(m, from, to)
    PROVE  /\ client # Null /\ client \in Clients
           /\ m \in Early <=> from \in {"enabling", "rotating"}
           /\ Early' = IF to \in {"enabling", "rotating"}
                       THEN Early \cup {m} ELSE Early \ {m}
           /\ UNCHANGED Used
<1>1. /\ client # Null /\ client \in Clients /\ manager[m] = from
      /\ manager' = [manager EXCEPT ![m] = to] /\ UNCHANGED caller
      /\ DOMAIN manager = Managers
  BY DEF Step, TypeOK
<1> QED
  BY <1>1 DEF Early, Used

(* What the mapping shows of a new row.                                    *)
LEMMA RowShown ==
    ASSUME client' # Null
    PROVE  Status' = client'.status /\ InForce' = client'.secret
BY DEF Status, InForce

LEMMA ManageKeepsPromise ==
    ASSUME IInv, NEW m \in Managers, Manage(m)
    PROVE  [Promise!Next]_promised
<1>t. TypeOK /\ SecretsInv
  BY DEF IInv
<1>n. \E from, to : Step(m, from, to)
  BY DEF Manage, ReadUnlessRevoked, Disable, Enable, Revoke, Rotate, Abandon
<1>c. /\ client # Null /\ client \in Clients /\ UNCHANGED <<Used, now>>
      /\ Status = client.status /\ InForce = client.secret
  BY <1>t, <1>n, EarlyMoves DEF Step, Status, InForce
<1>s. ASSUME NEW status \in {"active", "disabled", "revoked"}, SetStatus(status)
      PROVE  /\ Status' = status /\ UNCHANGED <<InForce, Expired>>
  <2>1. /\ client' # Null /\ client'.status = status
        /\ client'.secret = client.secret /\ client'.expiresAt = client.expiresAt
    BY <1>c, <1>s, ClientNotNull DEF SetStatus, Clients
  <2> QED
    BY <1>c, <2>1 DEF Status, InForce, Expired
<1>1. ASSUME NEW to \in {"enabling", "rotating"}, ReadUnlessRevoked(m, to)
      PROVE  [Promise!Next]_promised
  <2>1. UNCHANGED <<Status, InForce, retired, Expired>>
    BY <1>1, <1>c DEF ReadUnlessRevoked, Status, InForce, Expired
  <2>2. CASE client.status = "revoked"
    <3>1. Step(m, "idle", "refused")
      BY <1>1, <2>2 DEF ReadUnlessRevoked
    <3>2. Early' = Early \ {m}
      BY <1>t, <3>1, EarlyMoves
    <3> QED
      BY <1>c, <2>1, <3>2 DEF Promise!Next, Promise!Drop
  <2>3. CASE client.status # "revoked"
    <3>1. Step(m, "idle", to)
      BY <1>1, <2>3 DEF ReadUnlessRevoked
    <3>2. Early' = Early \cup {m} /\ Status \in {"active", "disabled"}
      BY <1>t, <1>c, <2>3, <3>1, EarlyMoves DEF Clients
    <3> QED
      BY <1>c, <2>1, <3>2 DEF Promise!Next, Promise!Take
  <2> QED
    BY <2>2, <2>3
<1>2. CASE Disable(m) \/ Revoke(m)
  <2>1. Status' \in {"disabled", "revoked"} /\ UNCHANGED <<InForce, Expired>>
    BY <1>2, <1>s DEF Disable, Revoke
  <2>2. Step(m, "idle", "done") /\ UNCHANGED retired
    BY <1>2 DEF Disable, Revoke
  <2>3. UNCHANGED Early
    BY <1>t, <2>2, EarlyMoves
  <2>4. Status # "none"
    BY <1>c DEF Clients
  <2> QED
    BY <1>c, <2>1, <2>2, <2>3, <2>4 DEF Promise!Next, Promise!Suspend
<1>3. CASE Enable(m)
  <2>1. Step(m, "enabling", "done") /\ UNCHANGED retired
    BY <1>3 DEF Enable
  <2>2. Status' = "active" /\ UNCHANGED <<InForce, Expired>>
    BY <1>3, <1>s DEF Enable
  <2>3. m \in Early /\ Early' = Early \ {m}
    BY <1>t, <2>1, EarlyMoves
  <2> QED
    BY <1>c, <2>1, <2>2, <2>3 DEF Promise!Next, Promise!Activate
<1>4. CASE Rotate(m)
  <2>1. /\ Step(m, "rotating", "rotated") /\ retired' = retired \cup {InForce}
        /\ client' = [client EXCEPT !.secret = m, !.status = "active"]
    BY <1>4, <1>c DEF Rotate
  <2>2. /\ client' # Null /\ client'.status = "active" /\ client'.secret = m
        /\ client'.expiresAt = client.expiresAt
    <3>1. m \in Secrets
      BY DEF Secrets
    <3>2. client' \in Clients
      BY <1>c, <2>1, <3>1 DEF Clients
    <3> QED
      BY <1>c, <2>1, <3>2, ClientNotNull DEF Clients
  <2>3. Status' = "active" /\ InForce' = m /\ UNCHANGED Expired
    BY <1>c, <2>2, RowShown DEF Expired
  <2>4. m \in Early /\ Early' = Early \ {m} /\ manager[m] # "rotated"
    BY <1>t, <2>1, EarlyMoves DEF Step
  <2>5. m \notin retired \cup {InForce}
    BY <1>t, <1>c, <2>4 DEF SecretsInv
  <2>6. m \in Secrets
    BY DEF Secrets
  <2> QED
    BY <1>c, <2>1, <2>3, <2>4, <2>5, <2>6 DEF Promise!Next, Promise!Replace
<1>5. CASE Abandon(m)
  <2>1. Step(m, manager[m], "refused") /\ UNCHANGED <<client, retired>>
    BY <1>5 DEF Abandon
  <2>2. Early' = Early \ {m}
    BY <1>t, <2>1, EarlyMoves
  <2>3. UNCHANGED <<Status, InForce, Expired>>
    BY <1>c, <2>1 DEF Status, InForce, Expired
  <2> QED
    BY <1>c, <2>1, <2>2, <2>3 DEF Promise!Next, Promise!Drop
<1> QED
  BY <1>1, <1>2, <1>3, <1>4, <1>5 DEF Manage

(* A caller that is let in has offered the secret of an active row that    *)
(* has not expired.                                                        *)
LEMMA CallerKeepsPromise ==
    ASSUME IInv, NEW c \in Callers, NEW s \in Secrets, Authenticate(c, s)
    PROVE  [Promise!Next]_promised
<1>1. /\ caller[c] = "idle" /\ client # Null
      /\ UNCHANGED <<now, client, manager, retired>>
      /\ DOMAIN caller = Callers /\ client \in Clients /\ now \in Nat
  BY ClientAssumption DEF Authenticate, IInv, TypeOK
<1>2. UNCHANGED <<Status, InForce, retired, Expired, Early>>
  BY <1>1 DEF Status, InForce, Expired, Early
<1>3. "idle" \notin Secrets /\ "refused" \notin Secrets
  BY ClientAssumption
<1>4. CASE IsAPIClientUsable(client, now) /\ s = client.secret
  <2>1. caller' = [caller EXCEPT ![c] = client.secret]
    BY <1>4 DEF Authenticate
  <2>2. Status = "active" /\ InForce = client.secret /\ ~Expired
    <3>1. client.expiresAt # Null => client.expiresAt \in Nat
      BY <1>1, ClientAssumption DEF Clients
    <3> QED
      BY <1>1, <1>4, <3>1 DEF IsAPIClientUsable, Status, InForce, Expired
  <2>3. Used[c] = Null /\ Used' = [Used EXCEPT ![c] = InForce]
    BY <1>1, <1>3, <1>4, <2>1, <2>2 DEF Used
  <2> QED
    BY <1>2, <2>2, <2>3 DEF Promise!Next, Promise!Admit
<1>5. CASE ~(IsAPIClientUsable(client, now) /\ s = client.secret)
  <2>1. caller' = [caller EXCEPT ![c] = "refused"]
    BY <1>5 DEF Authenticate
  <2>2. UNCHANGED Used
    BY <1>1, <1>3, <2>1 DEF Used
  <2> QED
    BY <1>2, <2>2 DEF promised
<1> QED
  BY <1>4, <1>5

LEMMA StepKeepsPromise ==
    ASSUME IInv, [Next]_vars
    PROVE  [Promise!Next]_promised
<1>1. CASE Tick
  <2>1. UNCHANGED <<Status, InForce, retired, Early, Used>>
    BY <1>1 DEF Tick, Status, InForce, Early, Used
  <2>2. Expired => Expired'
    <3>1. /\ now \in Nat /\ now' = now + 1 /\ UNCHANGED client
          /\ client # Null => client \in Clients
      BY <1>1, ClientAssumption DEF Tick, IInv, TypeOK
    <3>2. client # Null /\ client.expiresAt # Null => client.expiresAt \in Nat
      BY <3>1, ClientAssumption DEF Clients
    <3> QED
      BY <3>1, <3>2 DEF Expired
  <2>3. CASE client = Null
    BY <1>1, <2>1, <2>3 DEF Tick, Expired, promised
  <2>4. CASE client # Null
    <3>1. Status # "none"
      BY <2>4 DEF IInv, TypeOK, Clients, Status
    <3>2. CASE Expired'
      BY <2>1, <3>1, <3>2 DEF Promise!Next, Promise!Expire
    <3>3. CASE ~Expired'
      BY <2>1, <2>2, <3>3 DEF promised, Expired
    <3> QED
      BY <3>2, <3>3
  <2> QED
    BY <2>3, <2>4
<1>2. ASSUME NEW t \in 0 .. MaxTime \cup {Null}, CreateAPIClient(t)
      PROVE  [Promise!Next]_promised
  <2>1. /\ client' # Null /\ client'.status = "active" /\ client'.secret = First
        /\ client = Null /\ UNCHANGED <<manager, caller, retired>>
    <3>1. client' \in Clients
      BY <1>2 DEF CreateAPIClient, Clients, Secrets
    <3> QED
      BY <1>2, <3>1, ClientNotNull DEF CreateAPIClient
  <2>2. Status = "none" /\ Status' = "active" /\ InForce' = First
    BY <2>1, RowShown DEF Status
  <2>3. UNCHANGED <<retired, Early, Used>> /\ Expired' \in BOOLEAN
    BY <2>1 DEF Early, Used, Expired
  <2>4. First \in Secrets
    BY DEF Secrets
  <2> QED
    BY <2>2, <2>3, <2>4 DEF Promise!Next, Promise!Issue
<1>3. CASE UNCHANGED vars
  BY <1>3 DEF vars, promised, Status, InForce, Expired, Early, Used
<1> QED
  BY <1>1, <1>2, <1>3, ManageKeepsPromise, CallerKeepsPromise DEF Next

(* The handlers, whichever of their statements interleave, implement the   *)
(* credential: every secret is in force once, and nobody is let in with    *)
(* another one, after the expiry or while the client is not active.        *)
THEOREM CredentialRefinement == Spec => KeepsCredential
<1>1. IInv /\ [Next]_vars => [Promise!Next]_(Promise!vars)
  BY StepKeepsPromise DEF promised, Promise!vars
<1> QED
  BY <1>1, InitPromise, ClientInvariance, PTL DEF Spec, KeepsCredential, Promise!Spec
=============================================================================
