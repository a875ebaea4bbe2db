------------------------------ MODULE Accounts ------------------------------
(***************************************************************************)
(* One user account and its browser sessions (internal/auth/users.go,      *)
(* session.go and their handlers in internal/http/server.go).  A handler   *)
(* is a process that runs one request: a login, a password change, a       *)
(* logout, a revocation of the other sessions, or an ordinary page.  An    *)
(* administrator's PATCH, enable or disable reads the row in one statement *)
(* and writes all its profile columns in another.  Handlers may stop       *)
(* between any two statements.                                             *)
(***************************************************************************)
CONSTANTS
    Handlers,     \* requests; the session a handler opens is named after it
    Admins,       \* administrators' updates of the user
    Passwords,    \* login passwords
    Patches,      \* the profiles' partial updates that are tried
    Null

Profiles == [status : {"active", "disabled"},
             role   : {"admin", "developer", "viewer"},
             force  : BOOLEAN]

ASSUME AccountAssumption ==
    /\ Null \notin Handlers
    /\ Null \notin Passwords
    /\ \A patch \in Patches :
          /\ DOMAIN patch \subseteq {"status", "role", "force"}
          /\ \A p \in Profiles :
                [f \in DOMAIN p |-> IF f \in DOMAIN patch THEN patch[f]
                                    ELSE p[f]] \in Profiles

VARIABLES
    profile,    \* status, role and force_password_change of the row
    password,   \* the password its hash was made from
    session,    \* the state of the session each handler may open
    pc,         \* where each handler stands
    via,        \* the session its cookie names, or Null
    new,        \* the password a change will set
    offered,    \* the password it may open a session for, or Null (history)
    apc,        \* where each update stands
    patch,      \* what it changes
    readRow,    \* the profile it has read
    raced,      \* whether another update wrote since (history)
    disturbed   \* whether another request stepped since a handler's change
                \* set the password, or a revocation failed (history)

sessionVars == <<session, pc, via, new, offered>>
adminVars == <<apc, patch, readRow, raced>>
vars == <<profile, password, sessionVars, adminVars, disturbed>>

Changing == {"setting", "others", "destroying", "reopening", "changed"}
Stages == {"idle", "opening", "verifying", "revoking", "logging_out",
           "loggedout", "served", "done", "failed"} \cup Changing

TypeOK ==
    /\ profile \in Profiles
    /\ password \in Passwords
    /\ session \in [Handlers -> {"none", "live", "revoked"}]
    /\ pc \in [Handlers -> Stages]
    /\ via \in [Handlers -> Handlers \cup {Null}]
    /\ new \in [Handlers -> Passwords \cup {Null}]
    /\ offered \in [Handlers -> Passwords \cup {Null}]
    /\ apc \in [Admins -> {"idle", "read", "done"}]
    /\ patch \in [Admins -> Patches \cup {Null}]
    /\ readRow \in [Admins -> Profiles \cup {Null}]
    /\ raced \in [Admins -> BOOLEAN]
    /\ disturbed \in [Handlers -> BOOLEAN]

Init ==
    /\ profile \in [status : {"active"}, role : {"developer"}, force : BOOLEAN]
    /\ password \in Passwords
    /\ session = [h \in Handlers |-> "none"]
    /\ pc = [h \in Handlers |-> "idle"]
    /\ via = [h \in Handlers |-> Null]
    /\ new = [h \in Handlers |-> Null]
    /\ offered = [h \in Handlers |-> Null]
    /\ apc = [a \in Admins |-> "idle"]
    /\ patch = [a \in Admins |-> Null]
    /\ readRow = [a \in Admins |-> Null]
    /\ raced = [a \in Admins |-> FALSE]
    /\ disturbed = [h \in Handlers |-> FALSE]

---------------------------------------------------------------------------
(* Every step of another request disturbs a password change in progress. *)
Disturb(others) ==
    disturbed' = [x \in Handlers |->
        disturbed[x] \/ (x \in others /\ pc[x] \in Changing)]

(* It has verified a password and has not yet opened a session. *)
Granting == {"opening", "setting", "others", "destroying", "reopening"}

Goto(h, to) ==
    /\ pc' = [pc EXCEPT ![h] = to]
    /\ offered' = IF to \in Granting THEN offered
                  ELSE [offered EXCEPT ![h] = Null]
    /\ Disturb(Handlers \ {h})
    /\ UNCHANGED adminVars

(* The handler goes on after a failure that it only logs. *)
GotoAnyhow(h, to) ==
    /\ pc' = [pc EXCEPT ![h] = to]
    /\ Disturb(Handlers)
    /\ UNCHANGED <<session, offered, adminVars>>

(* An UPDATE of the profile overtakes the updates that have read the row. *)
Overtake(others) ==
    raced' = [a \in Admins |-> raced[a] \/ (a \in others /\ apc[a] = "read")]

(* SessionByHash: the cookie's session is not revoked and its user active. *)
Usable(s) == session[s] = "live" /\ profile.status = "active"

(* Mutant: the user's status is not looked at. *)
AuthenticatesAnyone(p) == password = p

Authenticates(p) == profile.status = "active" /\ password = p

(* A request offers a password and goes on if it is the one in force.      *)
Verify(h, p, to) ==
    /\ pc' = [pc EXCEPT ![h] = IF Authenticates(p) THEN to ELSE "done"]
    /\ offered' = [offered EXCEPT ![h] = IF Authenticates(p) THEN p ELSE Null]
    /\ Disturb(Handlers \ {h})
    /\ UNCHANGED adminVars

(* Mutant: revoked_at is never written. *)
CloseNone(sessions) == UNCHANGED session

Close(sessions) ==
    session' = [s \in Handlers |->
        IF s \in sessions /\ session[s] = "live" THEN "revoked" ELSE session[s]]

---------------------------------------------------------------------------
(* Login.  A request that carries a cookie destroys that session; Destroy  *)
(* ignores a failure of its UPDATE.                                        *)

Login(h, p) ==
    /\ pc[h] = "idle"
    /\ Verify(h, p, "opening")
    /\ \E s \in {s \in Handlers : session[s] # "none"} \cup {Null} :
          via' = [via EXCEPT ![h] = s]
    /\ UNCHANGED <<profile, password, session, new>>

LoginDestroys(h) ==
    /\ pc[h] = "opening"
    /\ via[h] # Null
    /\ \/ Close({via[h]})
       \/ UNCHANGED session
    /\ via' = [via EXCEPT ![h] = Null]
    /\ Goto(h, "opening")
    /\ UNCHANGED <<profile, password, new>>

LoginOpens(h) ==
    /\ pc[h] = "opening"
    /\ via[h] = Null
    /\ session' = [session EXCEPT ![h] = "live"]
    /\ Goto(h, "done")
    /\ UNCHANGED <<profile, password, via, new>>

---------------------------------------------------------------------------
(* Requests through a session: authorised, then run.                       *)

Authorize(h, s, to) ==
    /\ pc[h] = "idle"
    /\ Usable(s)
    /\ via' = [via EXCEPT ![h] = s]
    /\ Goto(h, to)
    /\ UNCHANGED <<profile, password, session>>

Page(h, s) == Authorize(h, s, "served") /\ UNCHANGED new

ChangePassword(h, s, q) ==
    /\ Authorize(h, s, "verifying")
    /\ new' = [new EXCEPT ![h] = q]

VerifyCurrent(h, p) ==
    /\ pc[h] = "verifying"
    /\ Verify(h, p, "setting")
    /\ UNCHANGED <<profile, password, session, via, new>>

SetPassword(h) ==
    /\ pc[h] = "setting"
    /\ password' = new[h]
    /\ profile' = [profile EXCEPT !.force = FALSE]
    /\ pc' = [pc EXCEPT ![h] = "others"]
    /\ Disturb(Handlers \ {h})
    /\ Overtake(Admins)
    /\ UNCHANGED <<session, via, new, offered, apc, patch, readRow>>

(* A failure to revoke is logged and the change goes on. *)
ChangeRevokesOthers(h) ==
    /\ pc[h] = "others"
    /\ \/ Close(Handlers \ {via[h]}) /\ Goto(h, "destroying")
       \/ GotoAnyhow(h, "destroying")
    /\ UNCHANGED <<profile, password, via, new>>

ChangeDestroys(h) ==
    /\ pc[h] = "destroying"
    /\ \/ Close({via[h]}) /\ Goto(h, "reopening")
       \/ GotoAnyhow(h, "reopening")
    /\ UNCHANGED <<profile, password, via, new>>

ChangeReopens(h) ==
    /\ pc[h] = "reopening"
    /\ session' = [session EXCEPT ![h] = "live"]
    /\ Goto(h, "changed")
    /\ UNCHANGED <<profile, password, via, new>>

RevokeOthers(h, s) == Authorize(h, s, "revoking") /\ UNCHANGED new

RevokeOtherSessions(h) ==
    /\ pc[h] = "revoking"
    /\ Close(Handlers \ {via[h]})
    /\ Goto(h, "served")
    /\ UNCHANGED <<profile, password, via, new>>

Logout(h, s) == Authorize(h, s, "logging_out") /\ UNCHANGED new

LogoutDestroys(h) ==
    /\ pc[h] = "logging_out"
    /\ \/ Close({via[h]})
       \/ UNCHANGED session
    /\ Goto(h, "loggedout")
    /\ UNCHANGED <<profile, password, via, new>>

Abandon(h) ==
    /\ pc[h] \in Stages \ {"idle", "served", "done", "changed", "loggedout",
                           "failed"}
    /\ Goto(h, "failed")
    /\ UNCHANGED <<profile, password, session, via, new>>

---------------------------------------------------------------------------
(* Administrators. *)

AdminStep(a, from, to) ==
    /\ apc[a] = from
    /\ apc' = [apc EXCEPT ![a] = to]
    /\ Disturb(Handlers)
    /\ UNCHANGED <<password, sessionVars>>

ReadUser(a, fields) ==
    /\ AdminStep(a, "idle", "read")
    /\ patch' = [patch EXCEPT ![a] = fields]
    /\ readRow' = [readRow EXCEPT ![a] = profile]
    /\ UNCHANGED <<profile, raced>>

(* Mutant: a status that is not patched is taken to be active. *)
PatchedActive(row, fields) ==
    [f \in DOMAIN row |-> IF f \in DOMAIN fields THEN fields[f]
                          ELSE IF f = "status" THEN "active" ELSE row[f]]

Patched(row, fields) ==
    [f \in DOMAIN row |-> IF f \in DOMAIN fields THEN fields[f] ELSE row[f]]

WriteUser(a) ==
    /\ AdminStep(a, "read", "done")
    /\ profile' = Patched(readRow[a], patch[a])
    /\ Overtake(Admins \ {a})
    /\ UNCHANGED <<patch, readRow>>

(* Reset by an administrator: one UPDATE; the sessions stay. *)
ResetPassword(p, force) ==
    /\ password' = p
    /\ profile' = [profile EXCEPT !.force = force]
    /\ Disturb(Handlers)
    /\ Overtake(Admins)
    /\ UNCHANGED <<sessionVars, apc, patch, readRow>>

---------------------------------------------------------------------------
Handle(h) ==
    \/ \E p \in Passwords : Login(h, p) \/ VerifyCurrent(h, p)
    \/ LoginDestroys(h)
    \/ LoginOpens(h)
    \/ \E s \in Handlers : \/ Page(h, s)
                           \/ RevokeOthers(h, s)
                           \/ Logout(h, s)
                           \/ \E q \in Passwords : ChangePassword(h, s, q)
    \/ SetPassword(h)
    \/ ChangeRevokesOthers(h)
    \/ ChangeDestroys(h)
    \/ ChangeReopens(h)
    \/ RevokeOtherSessions(h)
    \/ LogoutDestroys(h)
    \/ Abandon(h)

Administer ==
    \/ \E a \in Admins : \/ \E fields \in Patches : ReadUser(a, fields)
                         \/ WriteUser(a)
    \/ \E p \in Passwords, force \in BOOLEAN : ResetPassword(p, force)

Next == Administer \/ \E h \in Handlers : Handle(h)

Spec == Init /\ [][Next]_vars

---------------------------------------------------------------------------
Live == {s \in Handlers : session[s] = "live"}

(* A password change that nothing else ran into, and whose revocations did *)
(* not fail, leaves exactly one session of the user: the one it opened,    *)
(* whoever had signed in with the old password before.                     *)
ChangeLeavesOneSession ==
    \A h \in Handlers : pc[h] = "changed" /\ ~disturbed[h] => Live = {h}

(* An update that no other overtook changes only the columns it patches,   *)
(* although it writes them all: a disabled user stays disabled.            *)
UpdateKeepsTheRest ==
    [][\A a \in Admins :
         (apc[a] = "read" /\ apc'[a] = "done" /\ ~raced[a]) =>
             \A f \in DOMAIN profile :
                 profile'[f] # profile[f] => f \in DOMAIN patch[a]]_vars

---------------------------------------------------------------------------
(* The promise of signing in. *)

Closed == {s \in Handlers : session[s] = "revoked"}

Inside == Changing \cup {"served", "verifying", "revoking", "logging_out",
                         "loggedout"}

Through == [h \in Handlers |-> IF pc[h] \in Inside THEN via[h] ELSE Null]

Promise == INSTANCE Membership WITH
    Requests <- Handlers, None <- Null, active <- profile.status = "active",
    open <- Live, closed <- Closed, through <- Through

(* Seen through the mapping, the handlers' statements, in any order and    *)
(* with any failures between them, are steps of the promise: no session is *)
(* opened for a request that did not offer the password in force to an     *)
(* active user, none comes back after it was revoked, and no request is    *)
(* let in but through a live session of an active user                     *)
(* (internal/auth/session.go; users.go, 411-438; server.go, 817-856).      *)
KeepsMembership == Promise!Spec
=============================================================================
