--------------------------- MODULE AccountsProofs ---------------------------
(***************************************************************************)
(* Safety of the accounts, for every number of handlers and updates, and   *)
(* all passwords and patches.                                              *)
(***************************************************************************)
EXTENDS Accounts, TLAPS

(* The password a change is on its way to set came from a body.            *)
NewIsGiven ==
    \A h \in Handlers : pc[h] \in {"verifying", "setting"} => new[h] \in Passwords

(* What an update has read is the row, until another update writes it.     *)
ReadIsCurrent ==
    \A a \in Admins : apc[a] = "read" =>
        /\ patch[a] \in Patches
        /\ readRow[a] \in Profiles
        /\ ~raced[a] => readRow[a] = profile

(* Which sessions can be live while a change of h closes and reopens.      *)
Closing(h) ==
    ~disturbed[h] =>
        /\ pc[h] = "destroying" => Live \subseteq {via[h]}
        /\ pc[h] = "reopening" => Live = {}
        /\ pc[h] = "changed" => Live = {h}

AccountInv ==
    /\ TypeOK
    /\ NewIsGiven
    /\ ReadIsCurrent
    /\ \A h \in Handlers : Closing(h)

LEMMA InitAccount == Init => AccountInv
BY AccountAssumption
   DEF Init, AccountInv, TypeOK, NewIsGiven, ReadIsCurrent, Closing, Profiles,
       Stages

LEMMA PatchedProfile ==
    ASSUME NEW p \in Profiles, NEW fields \in Patches
    PROVE  Patched(p, fields) \in Profiles
BY AccountAssumption DEF Patched

---------------------------------------------------------------------------
(* A step of h leaves every other change disturbed.                        *)
LEMMA OthersAreDisturbed ==
    ASSUME AccountInv, NEW h \in Handlers, NEW to,
           pc' = [pc EXCEPT ![h] = to],
           Disturb(Handlers \ {h}) \/ Disturb(Handlers)
    PROVE  \A x \in Handlers \ {h} : Closing(x)'
<1> SUFFICES ASSUME NEW x \in Handlers \ {h} PROVE Closing(x)'
  OBVIOUS
<1>1. pc'[x] = pc[x]
  BY DEF AccountInv, TypeOK
<1>2. pc[x] \in Changing => disturbed'[x]
  BY DEF Disturb
<1> QED
  BY <1>1, <1>2 DEF Closing, Changing

LEMMA GotoTypes ==
    ASSUME AccountInv, NEW h \in Handlers, NEW to, Goto(h, to)
    PROVE  /\ pc' = [pc EXCEPT ![h] = to] /\ Disturb(Handlers \ {h})
           /\ UNCHANGED adminVars
           /\ offered' \in [Handlers -> Passwords \cup {Null}]
BY DEF Goto, AccountInv, TypeOK

LEMMA VerifyTypes ==
    ASSUME AccountInv, NEW h \in Handlers, NEW p \in Passwords, NEW to,
           Verify(h, p, to)
    PROVE  /\ \E next \in {to, "done"} : pc' = [pc EXCEPT ![h] = next]
           /\ Disturb(Handlers \ {h}) /\ UNCHANGED adminVars
           /\ offered' \in [Handlers -> Passwords \cup {Null}]
<1>t. offered \in [Handlers -> Passwords \cup {Null}]
  BY DEF AccountInv, TypeOK
<1>1. PICK next \in {to, "done"} : pc' = [pc EXCEPT ![h] = next]
  BY DEF Verify
<1>2. PICK offer \in Passwords \cup {Null} :
          offered' = [offered EXCEPT ![h] = offer]
  BY DEF Verify
<1> QED
  BY <1>t, <1>1, <1>2 DEF Verify

(* A step of h that leaves profile, password and updates alone and is not  *)
(* on the way from a new password to a new session.                        *)
LEMMA Moves ==
    ASSUME AccountInv, NEW h \in Handlers, NEW to \in Stages,
           pc' = [pc EXCEPT ![h] = to], Disturb(Handlers \ {h}),
           UNCHANGED adminVars,
           offered' \in [Handlers -> Passwords \cup {Null}],
           to \notin {"destroying", "reopening", "changed"},
           UNCHANGED <<profile, password>>,
           session' \in [Handlers -> {"none", "live", "revoked"}],
           via' \in [Handlers -> Handlers \cup {Null}],
           new' \in [Handlers -> Passwords \cup {Null}],
           \A x \in Handlers \ {h} : new'[x] = new[x],
           to \in {"verifying", "setting"} => new'[h] \in Passwords
    PROVE  AccountInv'
<1>1. TypeOK'
  BY DEF AccountInv, TypeOK, Disturb, adminVars
<1>2. NewIsGiven'
  BY DEF AccountInv, TypeOK, NewIsGiven
<1>3. ReadIsCurrent'
  BY DEF AccountInv, ReadIsCurrent, adminVars
<1>4. Closing(h)'
  BY DEF AccountInv, TypeOK, Closing
<1> QED
  BY <1>1, <1>2, <1>3, <1>4, OthersAreDisturbed DEF AccountInv

(* A step of h on that way.                                                *)
LEMMA Closes ==
    ASSUME AccountInv, NEW h \in Handlers,
           NEW to \in {"destroying", "reopening", "changed"},
           pc' = [pc EXCEPT ![h] = to],
           Disturb(Handlers \ {h}) \/ Disturb(Handlers),
           UNCHANGED <<profile, password, via, new, adminVars>>,
           offered' \in [Handlers -> Passwords \cup {Null}],
           session' \in [Handlers -> {"none", "live", "revoked"}],
           Closing(h)'
    PROVE  AccountInv'
<1>1. TypeOK'
  BY DEF AccountInv, TypeOK, Disturb, adminVars, Stages, Changing
<1>2. NewIsGiven'
  BY DEF AccountInv, TypeOK, NewIsGiven
<1>3. ReadIsCurrent'
  BY DEF AccountInv, ReadIsCurrent, adminVars
<1> QED
  BY <1>1, <1>2, <1>3, OthersAreDisturbed DEF AccountInv

LEMMA CloseType ==
    ASSUME AccountInv, NEW S, Close(S)
    PROVE  /\ session' \in [Handlers -> {"none", "live", "revoked"}]
           /\ Live' = Live \ S
BY DEF AccountInv, TypeOK, Close, Live

LEMMA AuthorizeMoves ==
    ASSUME AccountInv, NEW h \in Handlers, NEW s \in Handlers,
           NEW to \in {"served", "revoking", "logging_out"},
           Authorize(h, s, to), UNCHANGED new
    PROVE  AccountInv'
BY GotoTypes, Moves DEF Authorize, AccountInv, TypeOK, Stages

LEMMA HandlerSteps ==
    ASSUME AccountInv, NEW h \in Handlers, Handle(h)
    PROVE  AccountInv'
<1>t. TypeOK /\ NewIsGiven /\ ReadIsCurrent /\ \A x \in Handlers : Closing(x)
  BY DEF AccountInv
<1> USE DEF Stages
<1>1. ASSUME NEW p \in Passwords, Login(h, p) PROVE AccountInv'
  <2>1. via' \in [Handlers -> Handlers \cup {Null}]
    BY <1>1, <1>t DEF Login, TypeOK
  <2>2. Verify(h, p, "opening") /\ UNCHANGED <<profile, password, session, new>>
    BY <1>1 DEF Login
  <2>3. PICK to \in {"opening", "done"} : pc' = [pc EXCEPT ![h] = to]
    BY <2>2, VerifyTypes
  <2>4. /\ Disturb(Handlers \ {h}) /\ UNCHANGED adminVars
        /\ offered' \in [Handlers -> Passwords \cup {Null}]
    BY <2>2, VerifyTypes
  <2> QED
    BY <1>t, <2>1, <2>2, <2>3, <2>4, Moves DEF TypeOK
<1>2. ASSUME NEW p \in Passwords, VerifyCurrent(h, p) PROVE AccountInv'
  <2>1. /\ pc[h] = "verifying" /\ new[h] \in Passwords
        /\ UNCHANGED <<profile, password, session, via, new>>
    BY <1>2, <1>t DEF VerifyCurrent, NewIsGiven
  <2>2. PICK to \in {"setting", "done"} : pc' = [pc EXCEPT ![h] = to]
    BY <1>2, VerifyTypes DEF VerifyCurrent
  <2>5. /\ Disturb(Handlers \ {h}) /\ UNCHANGED adminVars
        /\ offered' \in [Handlers -> Passwords \cup {Null}]
    BY <1>2, VerifyTypes DEF VerifyCurrent
  <2>3. to \in Stages /\ to \notin {"destroying", "reopening", "changed"}
    BY <2>2 DEF Stages, Changing
  <2>4. /\ session' \in [Handlers -> {"none", "live", "revoked"}]
        /\ via' \in [Handlers -> Handlers \cup {Null}]
        /\ new' \in [Handlers -> Passwords \cup {Null}]
    BY <1>t, <2>1 DEF TypeOK
  <2> QED
    BY <2>1, <2>2, <2>3, <2>4, <2>5, Moves
<1>3. CASE LoginDestroys(h)
  <2>1. session' \in [Handlers -> {"none", "live", "revoked"}]
    BY <1>3, <1>t, CloseType DEF LoginDestroys, TypeOK
  <2> QED
    BY <1>3, <1>t, <2>1, GotoTypes, Moves DEF LoginDestroys, TypeOK
<1>4. CASE LoginOpens(h)
  BY <1>4, <1>t, GotoTypes, Moves DEF LoginOpens, TypeOK
<1>5. ASSUME NEW s \in Handlers,
             Page(h, s) \/ RevokeOthers(h, s) \/ Logout(h, s)
      PROVE  AccountInv'
  BY <1>5, AuthorizeMoves DEF Page, RevokeOthers, Logout
<1>6. ASSUME NEW s \in Handlers, NEW q \in Passwords, ChangePassword(h, s, q)
      PROVE  AccountInv'
  BY <1>6, <1>t, GotoTypes, Moves DEF ChangePassword, Authorize, TypeOK
<1>7. CASE SetPassword(h)
  <2>1. /\ pc[h] = "setting" /\ pc' = [pc EXCEPT ![h] = "others"]
        /\ password' = new[h] /\ profile' = [profile EXCEPT !.force = FALSE]
        /\ Disturb(Handlers \ {h}) /\ Overtake(Admins)
        /\ UNCHANGED <<session, via, new, offered, apc, patch, readRow>>
    BY <1>7 DEF SetPassword
  <2>2. TypeOK'
    <3>1. password' \in Passwords
      BY <1>t, <2>1 DEF NewIsGiven
    <3>2. profile' \in Profiles
      BY <1>t, <2>1 DEF TypeOK, Profiles
    <3> QED
      BY <1>t, <2>1, <3>1, <3>2 DEF TypeOK, Disturb, Overtake, Changing
  <2>3. NewIsGiven'
    BY <1>t, <2>1 DEF TypeOK, NewIsGiven
  <2>4. ReadIsCurrent'
    BY <1>t, <2>1 DEF TypeOK, ReadIsCurrent, Overtake
  <2>5. Closing(h)'
    BY <1>t, <2>1 DEF TypeOK, Closing
  <2> QED
    BY <2>1, <2>2, <2>3, <2>4, <2>5, OthersAreDisturbed DEF AccountInv
<1>8. CASE ChangeRevokesOthers(h)
  <2>1. pc[h] = "others" /\ UNCHANGED <<profile, password, via, new>>
    BY <1>8 DEF ChangeRevokesOthers
  <2>2. CASE Close(Handlers \ {via[h]}) /\ Goto(h, "destroying")
    <3>1. Closing(h)'
      BY <1>t, <2>1, <2>2, CloseType DEF TypeOK, Closing, Goto, Live
    <3> QED
      BY <2>1, <2>2, <3>1, CloseType, GotoTypes, Closes
  <2>3. CASE GotoAnyhow(h, "destroying")
    <3>1. Closing(h)'
      BY <1>t, <2>1, <2>3 DEF TypeOK, Closing, GotoAnyhow, Disturb, Changing
    <3> QED
      BY <1>t, <2>1, <2>3, <3>1, Closes DEF TypeOK, GotoAnyhow
  <2> QED
    BY <1>8, <2>2, <2>3 DEF ChangeRevokesOthers
<1>9. CASE ChangeDestroys(h)
  <2>1. pc[h] = "destroying" /\ UNCHANGED <<profile, password, via, new>>
    BY <1>9 DEF ChangeDestroys
  <2>2. CASE Close({via[h]}) /\ Goto(h, "reopening")
    <3>1. ~disturbed'[h] => ~disturbed[h]
      BY <1>t, <2>2 DEF TypeOK, Goto, Disturb
    <3>2. Closing(h)'
      BY <1>t, <2>1, <2>2, <3>1, CloseType DEF TypeOK, Closing, Goto
    <3> QED
      BY <2>1, <2>2, <3>2, CloseType, GotoTypes, Closes
  <2>3. CASE GotoAnyhow(h, "reopening")
    <3>1. Closing(h)'
      BY <1>t, <2>1, <2>3 DEF TypeOK, Closing, GotoAnyhow, Disturb, Changing
    <3> QED
      BY <1>t, <2>1, <2>3, <3>1, Closes DEF TypeOK, GotoAnyhow
  <2> QED
    BY <1>9, <2>2, <2>3 DEF ChangeDestroys
<1>10. CASE ChangeReopens(h)
  <2>1. /\ pc[h] = "reopening" /\ UNCHANGED <<profile, password, via, new>>
        /\ session' = [session EXCEPT ![h] = "live"] /\ Goto(h, "changed")
    BY <1>10 DEF ChangeReopens
  <2>2. ~disturbed'[h] => ~disturbed[h]
    BY <1>t, <2>1 DEF TypeOK, Goto, Disturb
  <2>3. Live' = Live \cup {h}
    BY <1>t, <2>1 DEF TypeOK, Live
  <2>4. Closing(h)'
    BY <1>t, <2>1, <2>2, <2>3 DEF TypeOK, Closing, Goto
  <2> QED
    BY <1>t, <2>1, <2>4, GotoTypes, Closes DEF TypeOK
<1>11. CASE RevokeOtherSessions(h)
  BY <1>11, <1>t, CloseType, GotoTypes, Moves DEF RevokeOtherSessions, TypeOK
<1>12. CASE LogoutDestroys(h)
  <2>1. session' \in [Handlers -> {"none", "live", "revoked"}]
    BY <1>12, <1>t, CloseType DEF LogoutDestroys, TypeOK
  <2> QED
    BY <1>12, <1>t, <2>1, GotoTypes, Moves DEF LogoutDestroys, TypeOK
<1>13. CASE Abandon(h)
  BY <1>13, <1>t, GotoTypes, Moves DEF Abandon, TypeOK
<1> QED
  BY <1>1, <1>2, <1>3, <1>4, <1>5, <1>6, <1>7, <1>8, <1>9, <1>10, <1>11, <1>12,
     <1>13 DEF Handle

---------------------------------------------------------------------------
(* The requests of administrators disturb every change.                    *)
LEMMA AllAreDisturbed ==
    ASSUME AccountInv, Disturb(Handlers), UNCHANGED sessionVars
    PROVE  NewIsGiven' /\ \A x \in Handlers : Closing(x)'
BY DEF AccountInv, TypeOK, NewIsGiven, Disturb, Closing, Changing, sessionVars

LEMMA AdminSteps ==
    ASSUME AccountInv, Administer
    PROVE  AccountInv'
<1>t. TypeOK /\ ReadIsCurrent
  BY DEF AccountInv
<1>1. ASSUME NEW a \in Admins, NEW fields \in Patches, ReadUser(a, fields)
      PROVE  AccountInv'
  <2>1. /\ apc' = [apc EXCEPT ![a] = "read"] /\ Disturb(Handlers)
        /\ patch' = [patch EXCEPT ![a] = fields]
        /\ readRow' = [readRow EXCEPT ![a] = profile]
        /\ UNCHANGED <<profile, password, sessionVars, raced>>
    BY <1>1 DEF ReadUser, AdminStep
  <2>2. TypeOK'
    BY <1>t, <2>1 DEF TypeOK, Disturb, sessionVars
  <2>3. ReadIsCurrent'
    BY <1>t, <2>1 DEF TypeOK, ReadIsCurrent
  <2> QED
    BY <2>1, <2>2, <2>3, AllAreDisturbed DEF AccountInv
<1>2. ASSUME NEW a \in Admins, WriteUser(a)
      PROVE  AccountInv'
  <2>1. /\ apc[a] = "read" /\ apc' = [apc EXCEPT ![a] = "done"]
        /\ Disturb(Handlers) /\ Overtake(Admins \ {a})
        /\ profile' = Patched(readRow[a], patch[a])
        /\ UNCHANGED <<password, sessionVars, patch, readRow>>
    BY <1>2 DEF WriteUser, AdminStep
  <2>2. profile' \in Profiles
    BY <1>t, <2>1, PatchedProfile DEF ReadIsCurrent
  <2>3. TypeOK'
    BY <1>t, <2>1, <2>2 DEF TypeOK, Disturb, Overtake, sessionVars
  <2>4. ReadIsCurrent'
    BY <1>t, <2>1, <2>2 DEF TypeOK, ReadIsCurrent, Overtake
  <2> QED
    BY <2>1, <2>3, <2>4, AllAreDisturbed DEF AccountInv
<1>3. ASSUME NEW p \in Passwords, NEW force \in BOOLEAN, ResetPassword(p, force)
      PROVE  AccountInv'
  <2>1. /\ password' = p /\ profile' = [profile EXCEPT !.force = force]
        /\ Disturb(Handlers) /\ Overtake(Admins)
        /\ UNCHANGED <<sessionVars, apc, patch, readRow>>
    BY <1>3 DEF ResetPassword
  <2>2. profile' \in Profiles
    BY <1>t, <2>1 DEF TypeOK, Profiles
  <2>3. TypeOK'
    BY <1>t, <2>1, <2>2 DEF TypeOK, Disturb, Overtake, sessionVars
  <2>4. ReadIsCurrent'
    BY <1>t, <2>1 DEF TypeOK, ReadIsCurrent, Overtake
  <2> QED
    BY <2>1, <2>3, <2>4, AllAreDisturbed DEF AccountInv
<1> QED
  BY <1>1, <1>2, <1>3 DEF Administer

---------------------------------------------------------------------------
LEMMA AccountStep == AccountInv /\ [Next]_vars => AccountInv'
<1> SUFFICES ASSUME AccountInv, [Next]_vars PROVE AccountInv'
  OBVIOUS
<1>1. CASE Next
  BY <1>1, AdminSteps, HandlerSteps DEF Next
<1>2. CASE UNCHANGED vars
  BY <1>2 DEF vars, sessionVars, adminVars, AccountInv, TypeOK, NewIsGiven,
              ReadIsCurrent, Closing, Live
<1> QED
  BY <1>1, <1>2

LEMMA AccountInvariance == Spec => []AccountInv
BY InitAccount, AccountStep, PTL DEF Spec

(* Whatever requests overlap, the row holds a status, a role and a         *)
(* password that some request gave it.                                     *)
THEOREM AccountTypeCorrect == Spec => []TypeOK
<1>1. AccountInv => TypeOK
  BY DEF AccountInv
<1> QED
  BY <1>1, AccountInvariance, PTL

(* A password change that nothing ran into leaves one session of the user, *)
(* its own, however many there were.                                       *)
THEOREM ChangeClosesTheRest == Spec => []ChangeLeavesOneSession
<1>1. AccountInv => ChangeLeavesOneSession
  BY DEF AccountInv, Closing, ChangeLeavesOneSession
<1> QED
  BY <1>1, AccountInvariance, PTL

LEMMA WriteKeepsTheRest ==
    ASSUME AccountInv, Next, NEW a \in Admins,
           apc[a] = "read", apc'[a] = "done", ~raced[a]
    PROVE  \A f \in DOMAIN profile :
               profile'[f] # profile[f] => f \in DOMAIN patch[a]
<1>1. WriteUser(a)
  <2>1. ASSUME NEW h \in Handlers, Handle(h) PROVE UNCHANGED apc
    BY <2>1 DEF Handle, Login, VerifyCurrent, LoginDestroys, LoginOpens, Page,
         RevokeOthers, Logout, ChangePassword, Authorize, SetPassword,
         ChangeRevokesOthers, ChangeDestroys, ChangeReopens,
         RevokeOtherSessions, LogoutDestroys, Abandon, Goto, GotoAnyhow,
         Verify, adminVars
  <2>2. PICK b \in Admins : (\E f \in Patches : ReadUser(b, f)) \/ WriteUser(b)
    BY <2>1 DEF Next, Administer, ResetPassword
  <2>3. apc' \in {[apc EXCEPT ![b] = "read"], [apc EXCEPT ![b] = "done"]}
    BY <2>2 DEF ReadUser, WriteUser, AdminStep
  <2>4. b = a
    BY <2>3 DEF AccountInv, TypeOK
  <2> QED
    BY <2>2, <2>4 DEF ReadUser, AdminStep
<1>2. readRow[a] = profile
  BY DEF AccountInv, ReadIsCurrent
<1> QED
  BY <1>1, <1>2 DEF WriteUser, Patched

(* An update that no other write overtook writes back what it read in      *)
(* every column it was not asked to change.                                *)
THEOREM UpdatesAreNarrow == Spec => UpdateKeepsTheRest
<1> DEFINE Kept == \A a \in Admins :
             (apc[a] = "read" /\ apc'[a] = "done" /\ ~raced[a]) =>
                 \A f \in DOMAIN profile :
                     profile'[f] # profile[f] => f \in DOMAIN patch[a]
<1>1. AccountInv /\ [Next]_vars => [Kept]_vars
  BY WriteKeepsTheRest
<1> HIDE DEF Kept
<1>2. [][Kept]_vars <=> UpdateKeepsTheRest
  BY DEF Kept, UpdateKeepsTheRest
<1> QED
  BY <1>1, <1>2, AccountInvariance, PTL DEF Spec

---------------------------------------------------------------------------
(* The promise of signing in.  A request that may yet open its session has *)
(* none, and it holds on to an offer exactly from the verification of the  *)
(* password to the opening.                                                *)
Unopened ==
    \A h \in Handlers :
        pc[h] \in Granting \cup {"idle", "verifying"} => session[h] = "none"

OfferStands == \A h \in Handlers : offered[h] # Null <=> pc[h] \in Granting

SignInInv == AccountInv /\ Unopened /\ OfferStands

LEMMA InitSignIn == Init => SignInInv /\ Promise!Init
<1> SUFFICES ASSUME Init PROVE SignInInv /\ Promise!Init
  OBVIOUS
<1>1. Unopened /\ OfferStands
  BY DEF Init, Unopened, OfferStands, Granting
<1>2. Live = {} /\ Closed = {} /\ Through = [h \in Handlers |-> Null]
  BY DEF Init, Live, Closed, Through, Inside, Changing
<1>3. profile.status = "active"
  BY DEF Init
<1>4. Promise!Init
  BY <1>2, <1>3 DEF Init, Promise!Init
<1> QED
  BY <1>1, <1>4, InitAccount DEF SignInInv

(* A step of h, after which it holds an offer if it is on its way to open  *)
(* a session, and no session of a request that may yet open one begins.    *)
LEMMA OffersKept ==
    ASSUME SignInInv, NEW h \in Handlers, NEW to, NEW offer,
           pc' = [pc EXCEPT ![h] = to],
           offered' = [offered EXCEPT ![h] = offer],
           offer # Null <=> to \in Granting,
           \A x \in Handlers \ {h} : session[x] = "none" => session'[x] = "none",
           to \in Granting \cup {"idle", "verifying"} => session'[h] = "none"
    PROVE  Unopened' /\ OfferStands'
BY DEF SignInInv, AccountInv, TypeOK, Unopened, OfferStands

(* How a step that goes to a stage changes the offer.                      *)
LEMMA GotoOffers ==
    ASSUME SignInInv, NEW h \in Handlers, NEW to,
           Goto(h, to) \/ (GotoAnyhow(h, to) /\ to \in Granting),
           to \in Granting => pc[h] \in Granting
    PROVE  \E offer : /\ offered' = [offered EXCEPT ![h] = offer]
                      /\ offer # Null <=> to \in Granting
<1>t. offered \in [Handlers -> Passwords \cup {Null}]
  BY DEF SignInInv, AccountInv, TypeOK
<1>1. CASE to \in Granting
  <2>1. offered' = offered
    BY <1>1 DEF Goto, GotoAnyhow
  <2>2. offered' = [offered EXCEPT ![h] = offered[h]]
    BY <1>t, <2>1
  <2> QED
    BY <1>1, <2>2 DEF SignInInv, OfferStands
<1>2. CASE to \notin Granting
  BY <1>2, <1>t DEF Goto, GotoAnyhow, SignInInv, OfferStands
<1> QED
  BY <1>1, <1>2

(* A step that stays inside, or outside, lets nobody in or out.            *)
LEMMA NobodyEnters ==
    ASSUME TypeOK, NEW h \in Handlers, NEW to, pc' = [pc EXCEPT ![h] = to],
           to \in Inside <=> pc[h] \in Inside,
           pc[h] \in Inside => via'[h] = via[h],
           \A x \in Handlers \ {h} : via'[x] = via[x]
    PROVE  Through' = Through
BY DEF TypeOK, Through

LEMMA OnlyEnters ==
    ASSUME TypeOK, NEW h \in Handlers, NEW to, pc' = [pc EXCEPT ![h] = to],
           \A x \in Handlers \ {h} : via'[x] = via[x]
    PROVE  Through' = [Through EXCEPT ![h] =
                          IF to \in Inside THEN via'[h] ELSE Null]
BY DEF TypeOK, Through

LEMMA CloseCloses ==
    ASSUME TypeOK, NEW sessions, Close(sessions)
    PROVE  /\ Live' = Live \ (sessions \cap Handlers)
           /\ Closed' = Closed \cup (Live \cap sessions \cap Handlers)
           /\ \A x \in Handlers : session[x] = "none" => session'[x] = "none"
BY DEF TypeOK, Close, Live, Closed

LEMMA OpenOpens ==
    ASSUME TypeOK, NEW h \in Handlers, session[h] = "none",
           session' = [session EXCEPT ![h] = "live"]
    PROVE  /\ Live' = Live \cup {h} /\ Closed' = Closed
           /\ \A x \in Handlers \ {h} : session'[x] = session[x]
BY DEF TypeOK, Live, Closed

LEMMA SameSessions ==
    ASSUME UNCHANGED session
    PROVE  Live' = Live /\ Closed' = Closed
BY DEF Live, Closed

(* Every step of a handler is one of the promise, or none.                 *)
MemberStep == [Promise!Next]_(Promise!vars)

(* A session is granted by the verification of a password.                 *)
LEMMA VerifyKeeps ==
    ASSUME SignInInv, NEW h \in Handlers, NEW p \in Passwords,
           NEW to \in {"opening", "setting"}, Verify(h, p, to),
           UNCHANGED <<profile, password, session>>,
           \/ pc[h] = "idle" /\ to = "opening"
           \/ pc[h] = "verifying" /\ to = "setting" /\ UNCHANGED via,
           \A x \in Handlers \ {h} : via'[x] = via[x]
    PROVE  Unopened' /\ OfferStands' /\ MemberStep
<1>t. TypeOK /\ Unopened /\ OfferStands
  BY DEF SignInInv, AccountInv
<1>1. offered[h] = Null /\ session[h] = "none"
  BY <1>t DEF Unopened, OfferStands, Granting
<1>2. Live' = Live /\ Closed' = Closed
  BY SameSessions
<1>3. CASE Authenticates(p)
  <2>1. /\ pc' = [pc EXCEPT ![h] = to] /\ offered' = [offered EXCEPT ![h] = p]
        /\ profile.status = "active" /\ password = p
    BY <1>3 DEF Verify, Authenticates
  <2>2. Unopened' /\ OfferStands'
    <3>1. p # Null /\ to \in Granting
      BY AccountAssumption DEF Granting
    <3> QED
      BY <1>1, <2>1, <3>1, OffersKept
  <2>3. Through' = Through
    <3>1. to \in Inside <=> pc[h] \in Inside
      BY DEF Inside, Changing
    <3>2. pc[h] \in Inside => via'[h] = via[h]
      BY DEF Inside, Changing
    <3> QED
      BY <1>t, <2>1, <3>1, <3>2, NobodyEnters
  <2>4. h \notin Live \cup Closed
    BY <1>1 DEF Live, Closed
  <2>5. Promise!Grant(h)
    BY <1>1, <1>2, <2>1, <2>3, <2>4 DEF Promise!Grant
  <2> QED
    BY <2>2, <2>5 DEF MemberStep, Promise!Next
<1>4. CASE ~Authenticates(p)
  <2>1. pc' = [pc EXCEPT ![h] = "done"] /\ offered' = [offered EXCEPT ![h] = Null]
    BY <1>4 DEF Verify
  <2>2. Unopened' /\ OfferStands'
    BY <2>1, OffersKept DEF Granting
  <2>3. Through' = [Through EXCEPT ![h] = Null]
    <3>1. "done" \notin Inside
      BY DEF Inside, Changing
    <3> QED
      BY <1>t, <2>1, <3>1, OnlyEnters
  <2>4. Promise!Leave(h)
    BY <1>2, <2>1, <2>3 DEF Promise!Leave
  <2> QED
    BY <2>2, <2>4 DEF MemberStep, Promise!Next
<1> QED
  BY <1>3, <1>4

(* A request is let in through a session.                                  *)
LEMMA AuthorizeKeeps ==
    ASSUME SignInInv, NEW h \in Handlers, NEW s \in Handlers,
           NEW to \in {"served", "verifying", "revoking", "logging_out"},
           Authorize(h, s, to)
    PROVE  Unopened' /\ OfferStands' /\ MemberStep
<1>t. TypeOK /\ Unopened /\ OfferStands
  BY DEF SignInInv, AccountInv
<1>1. /\ pc[h] = "idle" /\ session[s] = "live" /\ profile.status = "active"
      /\ via' = [via EXCEPT ![h] = s] /\ pc' = [pc EXCEPT ![h] = to]
      /\ offered' = [offered EXCEPT ![h] = Null]
      /\ UNCHANGED <<profile, password, session>>
  BY DEF Authorize, Usable, Goto, Granting
<1>2. offered' = offered /\ session[h] = "none"
  BY <1>t, <1>1 DEF TypeOK, Unopened, OfferStands, Granting
<1>3. Unopened' /\ OfferStands'
  BY <1>1, <1>2, OffersKept DEF Granting
<1>4. Through' = [Through EXCEPT ![h] = s]
  <2>1. to \in Inside
    BY DEF Inside
  <2>2. via'[h] = s /\ \A x \in Handlers \ {h} : via'[x] = via[x]
    BY <1>t, <1>1 DEF TypeOK
  <2> QED
    BY <1>t, <1>1, <2>1, <2>2, OnlyEnters
<1>5. Through[h] = Null
  BY <1>1 DEF Through, Inside, Changing
<1>6. s \in Live
  BY <1>1 DEF Live
<1>7. Promise!Enter(h, s)
  BY <1>1, <1>2, <1>4, <1>5, <1>6, SameSessions DEF Promise!Enter
<1> QED
  BY <1>3, <1>7 DEF MemberStep, Promise!Next

(* Sessions are closed, or the attempt fails; the request goes on.         *)
LEMMA CloseKeeps ==
    ASSUME SignInInv, NEW h \in Handlers, NEW to, NEW sessions,
           Goto(h, to) \/ (GotoAnyhow(h, to) /\ to \in Granting),
           Close(sessions) \/ UNCHANGED session,
           UNCHANGED <<profile, password>>,
           \A x \in Handlers \ {h} : via'[x] = via[x],
           to \in Granting <=> pc[h] \in Granting,
           to \in Inside <=> pc[h] \in Inside,
           pc[h] \in Inside => via'[h] = via[h],
           to \notin {"idle", "verifying"}
    PROVE  Unopened' /\ OfferStands' /\ MemberStep
<1>t. TypeOK /\ Unopened /\ OfferStands
  BY DEF SignInInv, AccountInv
<1>1. pc' = [pc EXCEPT ![h] = to]
  BY DEF Goto, GotoAnyhow
<1>2. PICK offer : /\ offered' = [offered EXCEPT ![h] = offer]
                   /\ offer # Null <=> to \in Granting
  BY GotoOffers
<1>3. \A x \in Handlers : session[x] = "none" => session'[x] = "none"
  BY <1>t, CloseCloses
<1>4. Unopened' /\ OfferStands'
  BY <1>t, <1>1, <1>2, <1>3, OffersKept DEF Unopened
<1>5. offered' = offered
  <2>1. CASE to \in Granting
    BY <2>1 DEF Goto, GotoAnyhow
  <2>2. CASE to \notin Granting
    BY <1>t, <1>2, <2>2 DEF TypeOK, OfferStands
  <2> QED
    BY <2>1, <2>2
<1>6. Through' = Through
  BY <1>t, <1>1, NobodyEnters
<1>7. CASE Close(sessions)
  <2>1. Promise!Close(sessions \cap Handlers)
    BY <1>t, <1>5, <1>6, <1>7, CloseCloses DEF Promise!Close
  <2> QED
    BY <1>4, <2>1 DEF MemberStep, Promise!Next
<1>8. CASE UNCHANGED session
  BY <1>4, <1>5, <1>6, <1>8, SameSessions DEF MemberStep, Promise!vars
<1> QED
  BY <1>7, <1>8

(* A session is opened.                                                    *)
LEMMA OpenKeeps ==
    ASSUME SignInInv, NEW h \in Handlers, NEW to, Goto(h, to),
           session' = [session EXCEPT ![h] = "live"],
           UNCHANGED <<profile, password, via>>,
           \/ pc[h] = "opening" /\ to = "done"
           \/ pc[h] = "reopening" /\ to = "changed"
    PROVE  Unopened' /\ OfferStands' /\ MemberStep
<1>t. TypeOK /\ Unopened /\ OfferStands
  BY DEF SignInInv, AccountInv
<1>1. /\ pc' = [pc EXCEPT ![h] = to] /\ offered' = [offered EXCEPT ![h] = Null]
      /\ to \notin Granting \cup {"idle", "verifying"}
  BY DEF Goto, Granting
<1>2. offered[h] # Null /\ session[h] = "none"
  BY <1>t DEF Unopened, OfferStands, Granting
<1>3. /\ Live' = Live \cup {h} /\ Closed' = Closed
      /\ \A x \in Handlers \ {h} : session'[x] = session[x]
  BY <1>t, <1>2, OpenOpens
<1>4. Unopened' /\ OfferStands'
  BY <1>1, <1>3, OffersKept
<1>5. Through' = Through
  <2>1. to \in Inside <=> pc[h] \in Inside
    BY DEF Inside, Changing
  <2> QED
    BY <1>t, <1>1, <2>1, NobodyEnters
<1>6. Promise!Open(h)
  BY <1>1, <1>2, <1>3, <1>5 DEF Promise!Open
<1> QED
  BY <1>4, <1>6 DEF MemberStep, Promise!Next

(* A request ends without having opened a session.                         *)
LEMMA AbandonKeeps ==
    ASSUME SignInInv, NEW h \in Handlers, Abandon(h)
    PROVE  Unopened' /\ OfferStands' /\ MemberStep
<1>t. TypeOK
  BY DEF SignInInv, AccountInv
<1>1. /\ pc' = [pc EXCEPT ![h] = "failed"]
      /\ offered' = [offered EXCEPT ![h] = Null]
      /\ UNCHANGED <<profile, password, session, via, new>>
  BY DEF Abandon, Goto, Granting
<1>2. Unopened' /\ OfferStands'
  BY <1>1, OffersKept DEF Granting
<1>3. Through' = [Through EXCEPT ![h] = Null]
  <2>1. "failed" \notin Inside
    BY DEF Inside, Changing
  <2> QED
    BY <1>t, <1>1, <2>1, OnlyEnters
<1>4. Promise!Leave(h)
  BY <1>1, <1>3, SameSessions DEF Promise!Leave
<1> QED
  BY <1>2, <1>4 DEF MemberStep, Promise!Next

(* The password is replaced by the request that verified the old one.      *)
LEMMA SetPasswordKeeps ==
    ASSUME SignInInv, NEW h \in Handlers, SetPassword(h)
    PROVE  Unopened' /\ OfferStands' /\ MemberStep
<1>t. TypeOK /\ NewIsGiven /\ Unopened /\ OfferStands
  BY DEF SignInInv, AccountInv
<1>1. /\ pc[h] = "setting" /\ pc' = [pc EXCEPT ![h] = "others"]
      /\ password' = new[h] /\ profile' = [profile EXCEPT !.force = FALSE]
      /\ UNCHANGED <<session, via, offered>>
  BY DEF SetPassword
<1>2. Unopened' /\ OfferStands'
  <2>1. offered' = [offered EXCEPT ![h] = offered[h]]
    BY <1>t, <1>1 DEF TypeOK
  <2>2. offered[h] # Null /\ session[h] = "none"
    BY <1>t, <1>1 DEF Unopened, OfferStands, Granting
  <2> QED
    BY <1>1, <2>1, <2>2, OffersKept DEF Granting
<1>3. Through' = Through
  <2>1. "others" \in Inside /\ "setting" \in Inside
    BY DEF Inside, Changing
  <2> QED
    BY <1>t, <1>1, <2>1, NobodyEnters
<1>4. password' \in Passwords /\ profile'.status = profile.status
  BY <1>t, <1>1 DEF TypeOK, NewIsGiven, Profiles
<1>5. Promise!Replace
  BY <1>1, <1>3, <1>4, SameSessions DEF Promise!Replace
<1> QED
  BY <1>2, <1>5 DEF MemberStep, Promise!Next

LEMMA HandlerKeeps ==
    ASSUME SignInInv, NEW h \in Handlers, Handle(h)
    PROVE  Unopened' /\ OfferStands' /\ MemberStep
<1>t. TypeOK
  BY DEF SignInInv, AccountInv
<1>1. ASSUME NEW p \in Passwords, Login(h, p)
      PROVE  Unopened' /\ OfferStands' /\ MemberStep
  <2>1. \A x \in Handlers \ {h} : via'[x] = via[x]
    BY <1>t, <1>1 DEF Login, TypeOK
  <2> QED
    BY <1>1, <2>1, VerifyKeeps DEF Login
<1>2. ASSUME NEW p \in Passwords, VerifyCurrent(h, p)
      PROVE  Unopened' /\ OfferStands' /\ MemberStep
  BY <1>2, VerifyKeeps DEF VerifyCurrent
<1>3. CASE LoginDestroys(h)
  <2>1. /\ pc[h] = "opening" /\ Goto(h, "opening")
        /\ Close({via[h]}) \/ UNCHANGED session
        /\ via' = [via EXCEPT ![h] = Null] /\ UNCHANGED <<profile, password>>
    BY <1>3 DEF LoginDestroys
  <2>2. \A x \in Handlers \ {h} : via'[x] = via[x]
    BY <1>t, <2>1 DEF TypeOK
  <2>3. "opening" \notin Inside
    BY DEF Inside, Changing
  <2> QED
    BY <2>1, <2>2, <2>3, CloseKeeps
<1>4. CASE LoginOpens(h)
  BY <1>4, OpenKeeps DEF LoginOpens
<1>5. ASSUME NEW s \in Handlers,
             \/ Page(h, s) \/ RevokeOthers(h, s) \/ Logout(h, s)
             \/ \E q \in Passwords : ChangePassword(h, s, q)
      PROVE  Unopened' /\ OfferStands' /\ MemberStep
  BY <1>5, AuthorizeKeeps DEF Page, RevokeOthers, Logout, ChangePassword
<1>6. CASE SetPassword(h)
  BY <1>6, SetPasswordKeeps
<1>7. CASE ChangeRevokesOthers(h)
  <2>1. /\ pc[h] = "others"
        /\ Close(Handlers \ {via[h]}) \/ UNCHANGED session
        /\ Goto(h, "destroying") \/ GotoAnyhow(h, "destroying")
        /\ UNCHANGED <<profile, password, via>>
    BY <1>7 DEF ChangeRevokesOthers, GotoAnyhow
  <2>2. {"others", "destroying"} \subseteq Granting \cap Inside
    BY DEF Granting, Inside, Changing
  <2> QED
    BY <2>1, <2>2, CloseKeeps
<1>8. CASE ChangeDestroys(h)
  <2>1. /\ pc[h] = "destroying"
        /\ Close({via[h]}) \/ UNCHANGED session
        /\ Goto(h, "reopening") \/ GotoAnyhow(h, "reopening")
        /\ UNCHANGED <<profile, password, via>>
    BY <1>8 DEF ChangeDestroys, GotoAnyhow
  <2>2. {"destroying", "reopening"} \subseteq Granting \cap Inside
    BY DEF Granting, Inside, Changing
  <2> QED
    BY <2>1, <2>2, CloseKeeps
<1>9. CASE ChangeReopens(h)
  BY <1>9, OpenKeeps DEF ChangeReopens
<1>10. CASE RevokeOtherSessions(h)
  <2>1. /\ {"revoking", "served"} \subseteq Inside
        /\ {"revoking", "served"} \cap Granting = {}
    BY DEF Granting, Inside
  <2> QED
    BY <1>10, <2>1, CloseKeeps DEF RevokeOtherSessions
<1>11. CASE LogoutDestroys(h)
  <2>1. /\ {"logging_out", "loggedout"} \subseteq Inside
        /\ {"logging_out", "loggedout"} \cap Granting = {}
    BY DEF Granting, Inside
  <2> QED
    BY <1>11, <2>1, CloseKeeps DEF LogoutDestroys
<1>12. CASE Abandon(h)
  BY <1>12, AbandonKeeps
<1> QED
  BY <1>1, <1>2, <1>3, <1>4, <1>5, <1>6, <1>7, <1>8, <1>9, <1>10, <1>11, <1>12
     DEF Handle

(* Administrators replace the password or switch the user on and off.      *)
LEMMA AdministerKeeps ==
    ASSUME SignInInv, Administer
    PROVE  Unopened' /\ OfferStands' /\ MemberStep
<1>t. TypeOK /\ Unopened /\ OfferStands
  BY DEF SignInInv, AccountInv
<1>1. UNCHANGED sessionVars
  BY DEF Administer, ReadUser, WriteUser, ResetPassword, AdminStep
<1>2. Unopened' /\ OfferStands'
  BY <1>t, <1>1 DEF Unopened, OfferStands, sessionVars
<1>3. Live' = Live /\ Closed' = Closed /\ offered' = offered
  BY <1>1, SameSessions DEF sessionVars
<1>4. Through' = Through
  BY <1>1 DEF Through, sessionVars
<1>5. CASE UNCHANGED <<profile, password>>
  BY <1>2, <1>3, <1>4, <1>5 DEF MemberStep, Promise!vars
<1>6. CASE UNCHANGED password
  <2>1. Promise!Switch
    BY <1>3, <1>4, <1>6 DEF Promise!Switch
  <2> QED
    BY <1>2, <2>1 DEF MemberStep, Promise!Next
<1>7. ASSUME NEW p \in Passwords, NEW force \in BOOLEAN, ResetPassword(p, force)
      PROVE  MemberStep
  <2>1. password' \in Passwords /\ profile'.status = profile.status
    BY <1>t, <1>7 DEF ResetPassword, TypeOK, Profiles
  <2>2. Promise!Replace
    BY <1>3, <1>4, <2>1 DEF Promise!Replace
  <2> QED
    BY <2>2 DEF MemberStep, Promise!Next
<1> QED
  BY <1>2, <1>5, <1>6, <1>7 DEF Administer, ReadUser, WriteUser, AdminStep

LEMMA SignInStep == SignInInv /\ [Next]_vars => SignInInv' /\ MemberStep
<1> SUFFICES ASSUME SignInInv, [Next]_vars PROVE SignInInv' /\ MemberStep
  OBVIOUS
<1>1. AccountInv'
  BY AccountStep DEF SignInInv
<1>2. CASE Next
  BY <1>1, <1>2, HandlerKeeps, AdministerKeeps DEF Next, SignInInv
<1>3. CASE UNCHANGED vars
  <2>1. UNCHANGED <<profile, password, sessionVars>>
    BY <1>3 DEF vars
  <2>2. Live' = Live /\ Closed' = Closed /\ Through' = Through
    BY <2>1, SameSessions DEF Through, sessionVars
  <2>3. Unopened' /\ OfferStands'
    BY <2>1 DEF SignInInv, Unopened, OfferStands, sessionVars
  <2> QED
    BY <1>1, <2>1, <2>2, <2>3 DEF SignInInv, MemberStep, Promise!vars, sessionVars
<1> QED
  BY <1>2, <1>3

(* However logins, changes, revocations and updates interleave and fail, a *)
(* session is opened only for a request that offered the password in force *)
(* to an active user, is never live again once revoked, and nobody is let  *)
(* in but through a live session of an active user.                        *)
THEOREM MembershipRefinement == Spec => KeepsMembership
<1>1. Init => SignInInv /\ Promise!Init
  BY InitSignIn
<1>2. SignInInv /\ [Next]_vars => SignInInv' /\ [Promise!Next]_(Promise!vars)
  BY SignInStep DEF MemberStep
<1> QED
  BY <1>1, <1>2, PTL DEF Spec, KeepsMembership, Promise!Spec
=============================================================================
