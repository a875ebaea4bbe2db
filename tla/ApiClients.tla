----------------------------- MODULE ApiClients -----------------------------
(***************************************************************************)
(* One API client (internal/auth/clients.go): the administrators' requests *)
(* that enable, disable, revoke and rotate it, and the Basic-auth requests *)
(* that use it.  Enable and rotate read the row in one statement and       *)
(* update it by id in another; disable and revoke update it unread.        *)
(***************************************************************************)
EXTENDS Naturals

CONSTANTS
    Managers,    \* management requests; a rotation's secret is named after it
    Callers,     \* Basic-auth requests
    First,       \* the secret the client is created with
    MaxTime,     \* bound on the clock
    Null         \* no row, no secret, no expiry

Secrets == Managers \cup {First}

ASSUME ClientAssumption ==
    /\ MaxTime \in Nat
    /\ Null \notin Nat
    /\ Null \notin Secrets
    /\ First \notin Managers
    /\ Secrets \cap {"idle", "refused"} = {}

VARIABLES
    now,
    client,      \* the row, or Null before it is created
    manager,     \* where each management request stands
    caller,      \* each Basic-auth request, or the secret that let it in
    retired,     \* secrets a rotation has replaced (history)
    revoked      \* how the first revoke ran, if any (history)

vars == <<now, client, manager, caller, retired, revoked>>

(* Management requests that have read the row and not yet written it. *)
Early == {m \in Managers : manager[m] \in {"enabling", "rotating"}}

Clients == [status    : {"active", "disabled", "revoked"},
            secret    : Secrets,
            expiresAt : 0 .. MaxTime \cup {Null}]

ASSUME ClientNotNull == Null \notin Clients

TypeOK ==
    /\ now \in 0 .. MaxTime
    /\ client \in Clients \cup {Null}
    /\ manager \in [Managers -> {"idle", "enabling", "rotating", "rotated",
                                 "done", "refused"}]
    /\ caller \in [Callers -> Secrets \cup {"idle", "refused"}]
    /\ retired \subseteq Secrets
    /\ revoked \in {"no", "alone", "overlapped"}

Init ==
    /\ now = 0
    /\ client = Null
    /\ manager = [m \in Managers |-> "idle"]
    /\ caller = [c \in Callers |-> "idle"]
    /\ retired = {}
    /\ revoked = "no"

Tick ==
    /\ now < MaxTime
    /\ now' = now + 1
    /\ UNCHANGED <<client, manager, caller, retired, revoked>>

(* An expiry in the past is accepted. *)
CreateAPIClient(expiresAt) ==
    /\ client = Null
    /\ client' = [status |-> "active", secret |-> First,
                  expiresAt |-> expiresAt]
    /\ UNCHANGED <<now, manager, caller, retired, revoked>>

---------------------------------------------------------------------------
(* A management request is idle, has read the row, or is answered. *)

Step(m, from, to) ==
    /\ client # Null
    /\ manager[m] = from
    /\ manager' = [manager EXCEPT ![m] = to]
    /\ UNCHANGED <<now, caller>>

(* Mutant: the status read is not looked at. *)
ReadUnchecked(m, to) ==
    /\ Step(m, "idle", to)
    /\ UNCHANGED <<client, retired, revoked>>

ReadUnlessRevoked(m, to) ==
    /\ Step(m, "idle", IF client.status = "revoked" THEN "refused" ELSE to)
    /\ UNCHANGED <<client, retired, revoked>>

SetStatus(status) == client' = [client EXCEPT !.status = status]

Disable(m) ==
    /\ Step(m, "idle", "done")
    /\ SetStatus("disabled")
    /\ UNCHANGED <<retired, revoked>>

Enable(m) ==
    /\ Step(m, "enabling", "done")
    /\ SetStatus("active")
    /\ UNCHANGED <<retired, revoked>>

Revoke(m) ==
    /\ Step(m, "idle", "done")
    /\ SetStatus("revoked")
    /\ revoked' = IF revoked # "no" THEN revoked
                  ELSE IF Early = {} THEN "alone" ELSE "overlapped"
    /\ UNCHANGED retired

(* Mutant: the new secret's hash is not stored. *)
RotateKeepingSecret(m) ==
    /\ Step(m, "rotating", "rotated")
    /\ SetStatus("active")
    /\ retired' = retired \cup {client.secret}
    /\ UNCHANGED revoked

Rotate(m) ==
    /\ Step(m, "rotating", "rotated")
    /\ client' = [client EXCEPT !.secret = m, !.status = "active"]
    /\ retired' = retired \cup {client.secret}
    /\ UNCHANGED revoked

(* A crash, a cancelled context or a failed statement. *)
Abandon(m) ==
    /\ manager[m] \in {"enabling", "rotating"}
    /\ Step(m, manager[m], "refused")
    /\ UNCHANGED <<client, retired, revoked>>

---------------------------------------------------------------------------
(* Mutant: expires_at is not looked at. *)
IsAPIClientActive(row, t) == row.status = "active"

IsAPIClientUsable(row, t) ==
    /\ row.status = "active"
    /\ row.expiresAt = Null \/ t < row.expiresAt

(* The row is read once; what the request then does is not taken back.     *)
Authenticate(c, secret) ==
    /\ client # Null
    /\ caller[c] = "idle"
    /\ caller' = [caller EXCEPT ![c] =
          IF IsAPIClientUsable(client, now) /\ secret = client.secret
          THEN secret ELSE "refused"]
    /\ UNCHANGED <<now, client, manager, retired, revoked>>

Manage(m) ==
    \/ \E to \in {"enabling", "rotating"} : ReadUnlessRevoked(m, to)
    \/ Disable(m)
    \/ Enable(m)
    \/ Revoke(m)
    \/ Rotate(m)
    \/ Abandon(m)

Next ==
    \/ Tick
    \/ \E t \in 0 .. MaxTime \cup {Null} : CreateAPIClient(t)
    \/ \E m \in Managers : Manage(m)
    \/ \E c \in Callers, s \in Secrets : Authenticate(c, s)

Spec == Init /\ [][Next]_vars

---------------------------------------------------------------------------
(* admin.js:831 "The previous client secret will stop authenticating       *)
(* immediately": a secret that a rotation has replaced is never the stored *)
(* one again, also when two rotations overlap and the one that read the    *)
(* row first writes last.                                                  *)
RetiredSecretsStayOut == client # Null => client.secret \notin retired

(* A revoked client becomes active in one step only by an enable or a      *)
(* rotation that had read its row while it was not revoked: a management   *)
(* request that starts after the revocation is refused.                    *)
RevivedOnlyByEarlierRead ==
    [][(client # Null /\ client.status = "revoked") =>
         /\ client'.status = "active" => \E m \in Early : m \notin Early'
         /\ Early' \subseteq Early]_vars

(* admin.js:830 "Revoked clients cannot authenticate and the secret cannot *)
(* be recovered.": no request is accepted after a revoke was answered that *)
(* no enable or rotation overlapped.                                       *)
RevokedCannotAuthenticate ==
    [][\A c \in Callers :
         (caller[c] = "idle" /\ caller'[c] \in Secrets) =>
             revoked # "alone"]_vars

---------------------------------------------------------------------------
(* The promise of the credential. *)

Status == IF client = Null THEN "none" ELSE client.status

InForce == IF client = Null THEN Null ELSE client.secret

Expired == client # Null /\ client.expiresAt # Null /\ client.expiresAt <= now

Used == [c \in Callers |-> IF caller[c] \in Secrets THEN caller[c] ELSE Null]

Promise == INSTANCE Credential WITH
    Requests <- Managers, None <- Null,
    status <- Status, secret <- InForce, spent <- retired, expired <- Expired,
    taken <- Early, used <- Used

(* Seen through the mapping, every behaviour of the handlers, of their two *)
(* statements and of the callers between them is one of the credential:    *)
(* nobody is let in with a secret not yet or no longer in force, after the *)
(* expiry, or while the client is not active (internal/auth/clients.go,    *)
(* 229-280; internal/http/server.go, 1114-1190 and 1916-1940).             *)
KeepsCredential == Promise!Spec
=============================================================================
