------------------------- MODULE EmailDeliveryProofs -------------------------
(***************************************************************************)
(* Safety of the delivery by e-mail, for every number of settings requests *)
(* and senders, in production and outside it, and for all timeouts.        *)
(***************************************************************************)
EXTENDS EmailDelivery, TLAPS

(* What a request is about to store was validated when it was made.        *)
DraftsAreValid ==
    \A a \in Admins : apc[a] = "saving" =>
        draft[a] \in Settings /\ Valid(draft[a], draft[a].enabled)

(* Who talks to the SMTP server does so with settings validated on the way *)
(* there.                                                                  *)
UsingIsValid ==
    \A h \in Senders : pc[h] = "connected" =>
        using[h] \in Settings /\ using[h].enabled /\ Valid(using[h], TRUE)

Past == {"rendering", "sending", "connected", "answering", "answered", "lost"}

(* A creator's link is stored exactly when it is past CreateLink, and what *)
(* another sends again was stored before.                                  *)
LinkIsStored ==
    \A h \in Senders :
        /\ pc[h] = "idle" => link[h] = "none"
        /\ pc[h] # "idle" => via[h] \in Senders
        /\ pc[h] = "creating" => via[h] = h
        /\ pc[h] \in Past => link[via[h]] # "none"
        /\ pc[h] = "preflight" /\ via[h] # h => link[via[h]] # "none"
        /\ via[h] = h /\ pc[h] \in {"preflight", "creating", "refused"}
              => link[h] = "none"

EmailInv ==
    /\ TypeOK
    /\ SettingsAreValid
    /\ DraftsAreValid
    /\ UsingIsValid
    /\ LinkIsStored
    /\ MailIsAuthorised

LEMMA InitEmail == Init => EmailInv
BY EmailAssumption
   DEF Init, EmailInv, TypeOK, SettingsAreValid, DraftsAreValid, UsingIsValid,
       LinkIsStored, MailIsAuthorised, Past, Final

---------------------------------------------------------------------------
(* The requests of administrators *)

LEMMA AdminKeeps ==
    ASSUME EmailInv, UNCHANGED <<link, senderVars, mail>>
    PROVE  UsingIsValid' /\ LinkIsStored' /\ MailIsAuthorised'
BY DEF EmailInv, senderVars, UsingIsValid, LinkIsStored, MailIsAuthorised, Valid

LEMMA DraftStep ==
    ASSUME EmailInv, NEW a \in Admins, NEW next, NEW valid \in BOOLEAN,
           Draft(a, next, valid),
           valid => next \in Settings /\ Valid(next, next.enabled)
    PROVE  EmailInv'
<1>1. /\ UNCHANGED settings /\ UNCHANGED <<link, senderVars, mail>>
      /\ apc' = [apc EXCEPT ![a] = IF valid THEN "saving" ELSE "refused"]
      /\ draft' = [draft EXCEPT ![a] = IF valid THEN next ELSE Null]
  BY DEF Draft, AdminStep
<1>2. TypeOK'
  BY <1>1 DEF EmailInv, TypeOK, senderVars
<1>3. SettingsAreValid'
  BY <1>1 DEF EmailInv, SettingsAreValid, Valid
<1>4. DraftsAreValid'
  BY <1>1 DEF EmailInv, TypeOK, DraftsAreValid, Valid
<1> QED
  BY <1>1, <1>2, <1>3, <1>4, AdminKeeps DEF EmailInv

LEMMA AdminSteps ==
    ASSUME EmailInv, NEW a \in Admins, Administer(a)
    PROVE  EmailInv'
<1> USE EmailAssumption
<1>1. CASE Update(a)
  <2>1. PICK next \in Settings : Draft(a, next, Valid(next, next.enabled))
    BY <1>1 DEF Update
  <2>2. Valid(next, next.enabled) \in BOOLEAN
    BY DEF Valid
  <2> QED
    BY <2>1, <2>2, DraftStep
<1>2. ASSUME NEW on \in BOOLEAN, SetEnabled(a, on)
      PROVE  EmailInv'
  <2> DEFINE next == [settings EXCEPT !.enabled = on]
  <2>1. settings \in Settings /\ Valid(settings, settings.enabled)
    BY <1>2 DEF SetEnabled, EmailInv, TypeOK, SettingsAreValid
  <2>2. next \in Settings /\ next.enabled = on
    BY <2>1 DEF Settings
  <2>3. (on => Valid(next, TRUE)) => Valid(next, next.enabled)
    BY <2>1, <2>2 DEF Valid, Settings
  <2>4. Draft(a, next, on => Valid(next, TRUE))
    BY <1>2 DEF SetEnabled
  <2>5. (on => Valid(next, TRUE)) \in BOOLEAN
    BY DEF Valid
  <2> HIDE DEF next
  <2> QED
    BY <2>2, <2>3, <2>4, <2>5, DraftStep
<1>3. CASE SaveSettings(a)
  <2>1. /\ UNCHANGED <<draft, link, senderVars, mail>>
        /\ settings' = draft[a] /\ apc[a] = "saving"
        /\ apc' = [apc EXCEPT ![a] = "saved"]
    BY <1>3 DEF SaveSettings, AdminStep
  <2>2. draft[a] \in Settings /\ Valid(draft[a], draft[a].enabled)
    BY <2>1 DEF EmailInv, DraftsAreValid
  <2>3. TypeOK'
    BY <2>1, <2>2 DEF EmailInv, TypeOK, senderVars
  <2>4. SettingsAreValid' /\ DraftsAreValid'
    BY <2>1, <2>2 DEF EmailInv, TypeOK, SettingsAreValid, DraftsAreValid, Valid
  <2> QED
    BY <2>1, <2>3, <2>4, AdminKeeps DEF EmailInv
<1>4. CASE AbandonSave(a)
  <2>1. /\ UNCHANGED <<settings, draft, link, senderVars, mail>>
        /\ apc' = [apc EXCEPT ![a] = "refused"]
    BY <1>4 DEF AbandonSave, AdminStep
  <2>2. TypeOK'
    BY <2>1 DEF EmailInv, TypeOK, senderVars
  <2>3. SettingsAreValid' /\ DraftsAreValid'
    BY <2>1 DEF EmailInv, TypeOK, SettingsAreValid, DraftsAreValid, Valid
  <2> QED
    BY <2>1, <2>2, <2>3, AdminKeeps DEF EmailInv
<1> QED
  BY <1>1, <1>2, <1>3, <1>4 DEF Administer

---------------------------------------------------------------------------
(* The requests that send *)

LEMMA SendKeeps ==
    ASSUME EmailInv, UNCHANGED adminVars
    PROVE  SettingsAreValid' /\ DraftsAreValid'
BY DEF EmailInv, adminVars, SettingsAreValid, DraftsAreValid, Valid

(* A step of h that only moves it, and stores what it says of the e-mail. *)
LEMMA Moves ==
    ASSUME EmailInv, NEW h \in Senders, NEW to, Goto(h, to),
           UNCHANGED <<adminVars, link, via, using, spent, mail>>,
           result' \in [Senders -> {"none", "sent", "failed"}],
           to \in {"creating", "rendering", "sending", "answering", "answered",
                   "refused", "lost", "crashed"},
           pc[h] # "idle",
           to \in Past => pc[h] \in Past \/ (pc[h] = "preflight" /\ via[h] # h),
           to = "creating" => pc[h] = "preflight" /\ via[h] = h,
           to = "refused" => pc[h] = "preflight"
    PROVE  EmailInv'
<1> USE DEF Goto, TypeOK, EmailInv
<1>1. TypeOK'
  BY DEF adminVars, Final
<1>2. pc' = [pc EXCEPT ![h] = to] /\ to # "connected" /\ to # "preflight" /\ to # "idle"
  OBVIOUS
<1>3. UsingIsValid'
  BY <1>2 DEF UsingIsValid, Valid
<1>4. LinkIsStored'
  BY <1>2 DEF LinkIsStored, Past
<1>5. MailIsAuthorised'
  BY DEF MailIsAuthorised, Valid
<1> QED
  BY <1>1, <1>3, <1>4, <1>5, SendKeeps

LEMMA SendSteps ==
    ASSUME EmailInv, NEW h \in Senders, Send(h)
    PROVE  EmailInv'
<1> USE EmailAssumption
<1>t. TypeOK /\ LinkIsStored /\ UsingIsValid /\ MailIsAuthorised
  BY DEF EmailInv
<1>1. CASE Create(h)
  <2>1. /\ pc[h] = "idle" /\ pc' = [pc EXCEPT ![h] = "preflight"]
        /\ via' = [via EXCEPT ![h] = h]
        /\ UNCHANGED <<adminVars, link, using, result, spent, mail>>
    BY <1>1 DEF Create, Goto
  <2>2. TypeOK'
    BY <1>t, <2>1 DEF TypeOK, adminVars
  <2>3. LinkIsStored'
    BY <1>t, <2>1 DEF TypeOK, LinkIsStored, Past
  <2>4. UsingIsValid' /\ MailIsAuthorised'
    BY <1>t, <2>1 DEF TypeOK, UsingIsValid, MailIsAuthorised, Valid
  <2> QED
    BY <2>1, <2>2, <2>3, <2>4, SendKeeps DEF EmailInv
<1>2. ASSUME NEW l \in Senders, SendAgain(h, l)
      PROVE  EmailInv'
  <2> DEFINE to == IF link[l] = "active" THEN "preflight" ELSE "refused"
  <2>1. /\ pc[h] = "idle" /\ pc[l] = "answered" /\ via[l] = l
        /\ pc' = [pc EXCEPT ![h] = to]
        /\ via' = [via EXCEPT ![h] = l]
        /\ UNCHANGED <<adminVars, link, using, result, spent, mail>>
    BY <1>2 DEF SendAgain, Goto
  <2>2. l # h /\ link[l] # "none" /\ to \in {"preflight", "refused"}
    BY <1>t, <2>1 DEF LinkIsStored, Past
  <2> HIDE DEF to
  <2>3. TypeOK'
    BY <1>t, <2>1, <2>2 DEF TypeOK, adminVars, Final
  <2>4. LinkIsStored'
    BY <1>t, <2>1, <2>2 DEF TypeOK, LinkIsStored, Past
  <2>5. UsingIsValid' /\ MailIsAuthorised'
    BY <1>t, <2>1, <2>2 DEF TypeOK, UsingIsValid, MailIsAuthorised, Valid
  <2> QED
    BY <2>1, <2>3, <2>4, <2>5, SendKeeps DEF EmailInv
<1>3. CASE Preflight(h)
  <2>1. pc[h] = "preflight"
    BY <1>3 DEF Preflight
  <2>2. CASE ~Deliverable
    BY <1>3, <1>t, <2>1, <2>2, Moves DEF Preflight, Past, TypeOK
  <2>3. CASE Deliverable /\ via[h] = h
    BY <1>3, <1>t, <2>1, <2>3, Moves DEF Preflight, Past, TypeOK
  <2>4. CASE Deliverable /\ via[h] # h
    BY <1>3, <1>t, <2>1, <2>4, Moves DEF Preflight, Past, TypeOK
  <2> QED
    BY <2>2, <2>3, <2>4
<1>4. CASE CreateLink(h)
  <2>1. /\ pc[h] = "creating" /\ pc' = [pc EXCEPT ![h] = "rendering"]
        /\ link' = [link EXCEPT ![h] = "active"]
        /\ UNCHANGED <<adminVars, via, using, result, spent, mail>>
    BY <1>4 DEF CreateLink, Goto
  <2>2. TypeOK'
    BY <1>t, <2>1 DEF TypeOK, adminVars
  <2>3. LinkIsStored'
    BY <1>t, <2>1 DEF TypeOK, LinkIsStored, Past
  <2>4. UsingIsValid' /\ MailIsAuthorised'
    BY <1>t, <2>1 DEF TypeOK, UsingIsValid, MailIsAuthorised, Valid, Mails
  <2> QED
    BY <2>1, <2>2, <2>3, <2>4, SendKeeps DEF EmailInv
<1>5. CASE Render(h)
  BY <1>5, <1>t, Moves DEF Render, Fail, TypeOK, Past
<1>6. CASE SendRendered(h)
  <2>1. CASE settings # Null /\ settings.enabled /\ Valid(settings, TRUE)
    <3>1. /\ pc[h] = "sending" /\ pc' = [pc EXCEPT ![h] = "connected"]
          /\ using' = [using EXCEPT ![h] = settings]
          /\ UNCHANGED <<adminVars, link, via, result, spent, mail>>
      BY <1>6, <2>1 DEF SendRendered, Goto
    <3>2. settings \in Settings
      BY <1>t, <2>1 DEF TypeOK
    <3>3. TypeOK'
      BY <1>t, <3>1, <3>2 DEF TypeOK, adminVars
    <3>4. LinkIsStored' /\ MailIsAuthorised'
      BY <1>t, <3>1 DEF TypeOK, LinkIsStored, MailIsAuthorised, Past, Valid
    <3>5. UsingIsValid'
      BY <1>t, <2>1, <3>1, <3>2 DEF TypeOK, UsingIsValid, Valid
    <3> QED
      BY <3>1, <3>3, <3>4, <3>5, SendKeeps DEF EmailInv
  <2>2. CASE ~(settings # Null /\ settings.enabled /\ Valid(settings, TRUE))
    BY <1>6, <1>t, <2>2, Moves DEF SendRendered, Fail, TypeOK, Past
  <2> QED
    BY <2>1, <2>2
<1>7. CASE SendMail(h)
  <2> DEFINE accepted == [by |-> h, link |-> via[h], settings |-> using[h]]
  <2>1. /\ pc[h] = "connected" /\ pc' = [pc EXCEPT ![h] = "answering"]
        /\ result' \in {[result EXCEPT ![h] = "sent"],
                        [result EXCEPT ![h] = "failed"]}
        /\ mail' \in {mail, mail \cup {accepted}}
        /\ UNCHANGED <<adminVars, link, via, using>>
    BY <1>7 DEF SendMail, Goto, Fail
  <2>2. /\ using[h] \in Settings /\ using[h].enabled /\ Valid(using[h], TRUE)
        /\ via[h] \in Senders /\ link[via[h]] # "none"
    BY <1>t, <2>1 DEF UsingIsValid, LinkIsStored, Past
  <2>3. spent' \in [Senders -> Nat]
    <3>1. PICK t \in 0 .. using[h].timeout : spent' = [spent EXCEPT ![h] = t]
      BY <1>7 DEF SendMail
    <3> QED
      BY <1>t, <3>1 DEF TypeOK
  <2>4. /\ accepted \in Mails /\ accepted.settings = using[h]
        /\ accepted.link = via[h]
    BY <2>2 DEF Mails
  <2> HIDE DEF accepted
  <2>5. TypeOK'
    BY <1>t, <2>1, <2>3, <2>4 DEF TypeOK, adminVars
  <2>6. LinkIsStored' /\ UsingIsValid'
    BY <1>t, <2>1 DEF TypeOK, LinkIsStored, UsingIsValid, Past, Valid
  <2>7. MailIsAuthorised'
    BY <1>t, <2>1, <2>2, <2>4 DEF MailIsAuthorised, Valid
  <2> QED
    BY <2>1, <2>5, <2>6, <2>7, SendKeeps DEF EmailInv
<1>8. CASE Respond(h)
  BY <1>8, <1>t, Moves DEF Respond, TypeOK, Past
<1>9. CASE Crash(h)
  BY <1>9, <1>t, Moves DEF Crash, TypeOK, Past
<1>10. CASE End(h)
  <2>1. /\ link[h] = "active" /\ link' = [link EXCEPT ![h] = "ended"]
        /\ UNCHANGED <<adminVars, senderVars, mail>>
    BY <1>10 DEF End
  <2>2. TypeOK'
    BY <1>t, <2>1 DEF TypeOK, adminVars, senderVars
  <2>3. LinkIsStored'
    BY <1>t, <2>1 DEF TypeOK, LinkIsStored, Past, senderVars
  <2>4. UsingIsValid' /\ MailIsAuthorised'
    BY <1>t, <2>1 DEF TypeOK, UsingIsValid, MailIsAuthorised, Valid, Mails,
                      senderVars
  <2> QED
    BY <2>1, <2>2, <2>3, <2>4, SendKeeps DEF EmailInv
<1> QED
  BY <1>1, <1>2, <1>3, <1>4, <1>5, <1>6, <1>7, <1>8, <1>9, <1>10 DEF Send

---------------------------------------------------------------------------
LEMMA EmailStep == EmailInv /\ [Next]_vars => EmailInv'
<1> SUFFICES ASSUME EmailInv, [Next]_vars PROVE EmailInv'
  OBVIOUS
<1>1. CASE Next
  BY <1>1, AdminSteps, SendSteps DEF Next
<1>2. CASE UNCHANGED vars
  <2>1. UNCHANGED <<adminVars, link, senderVars, mail>>
    BY <1>2 DEF vars
  <2>2. TypeOK'
    BY <2>1 DEF EmailInv, TypeOK, adminVars, senderVars
  <2> QED
    BY <2>1, <2>2, AdminKeeps, SendKeeps DEF EmailInv
<1> QED
  BY <1>1, <1>2

LEMMA EmailInvariance == Spec => []EmailInv
BY InitEmail, EmailStep, PTL DEF Spec

(* The row, the requests and the e-mails are always well typed: a step     *)
(* that stores or sends what it never checked would break it.              *)
THEOREM EmailTypeCorrect == Spec => []TypeOK
<1>1. EmailInv => TypeOK
  BY DEF EmailInv
<1> QED
  BY <1>1, EmailInvariance, PTL

(* However the requests of administrators overlap, the row that is stored  *)
(* passes the validation as a whole.                                       *)
THEOREM StoredSettingsAreValid == Spec => []SettingsAreValid
<1>1. EmailInv => SettingsAreValid
  BY DEF EmailInv
<1> QED
  BY <1>1, EmailInvariance, PTL

(* No e-mail goes out with settings that were disabled or invalid when     *)
(* they were last read, nor with a link that is not stored.                *)
THEOREM EveryMailIsAuthorised == Spec => []MailIsAuthorised
<1>1. EmailInv => MailIsAuthorised
  BY DEF EmailInv
<1> QED
  BY <1>1, EmailInvariance, PTL

(* A refused request has stored no link, an answered one has.              *)
THEOREM NothingIsCreatedByRefused == Spec => []RefusedCreatesNothing
<1>1. EmailInv => RefusedCreatesNothing
  BY DEF EmailInv, LinkIsStored, RefusedCreatesNothing, Past
<1> QED
  BY <1>1, EmailInvariance, PTL
=============================================================================
