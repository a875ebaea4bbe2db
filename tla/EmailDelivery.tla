---------------------------- MODULE EmailDelivery ----------------------------
(***************************************************************************)
(* Delivery of links by e-mail: the one row of email_settings, which an    *)
(* administrator's request reads in one statement and rewrites as a whole  *)
(* in another (internal/email/service.go), and the requests that create a  *)
(* link and send it, or send it again (internal/http/server.go), which     *)
(* read that row up to three times and then talk to the SMTP server.       *)
(***************************************************************************)
EXTENDS Naturals

CONSTANTS
    Admins,        \* settings requests; a password is named after its setter
    Senders,       \* create and send-again requests; a link after its creator
    Production,    \* APP_ENV is production
    Timeouts,      \* connection and send timeout together, as configured
    WriteTimeout,  \* how long a response can still be written
    Null           \* no row, no password, no link

Settings == [enabled  : BOOLEAN,
             complete : BOOLEAN,      \* host, port and sender are given
             plain    : BOOLEAN,      \* encryption_mode is none
             user     : BOOLEAN,      \* smtp_username is given
             password : Admins \cup {Null},
             timeout  : Timeouts]

ASSUME EmailAssumption ==
    /\ Production \in BOOLEAN
    /\ Timeouts \subseteq Nat
    /\ WriteTimeout \in Nat
    /\ Null \notin Admins
    /\ Null \notin Senders
    /\ Null \notin Settings

VARIABLES
    settings,   \* the row, or Null before it is first saved
    apc,        \* where each settings request stands
    draft,      \* the row it will save
    link,       \* the link of each creator
    pc,         \* where each create or send-again request stands
    via,        \* the link it sends
    using,      \* the settings it sends with
    result,     \* what it says of the e-mail
    spent,      \* the time it spent with the SMTP server
    mail        \* e-mails the SMTP server has accepted

adminVars == <<settings, apc, draft>>
senderVars == <<pc, via, using, result, spent>>
vars == <<adminVars, link, senderVars, mail>>

Final == {"answered", "refused", "lost", "crashed"}
Mails == [by : Senders, link : Senders, settings : Settings]

TypeOK ==
    /\ settings \in Settings \cup {Null}
    /\ apc \in [Admins -> {"idle", "saving", "saved", "refused"}]
    /\ draft \in [Admins -> Settings \cup {Null}]
    /\ link \in [Senders -> {"none", "active", "ended"}]
    /\ pc \in [Senders -> {"idle", "preflight", "creating", "rendering",
                           "sending", "connected", "answering"} \cup Final]
    /\ via \in [Senders -> Senders \cup {Null}]
    /\ using \in [Senders -> Settings \cup {Null}]
    /\ result \in [Senders -> {"none", "sent", "failed"}]
    /\ spent \in [Senders -> Nat]
    /\ mail \subseteq Mails

Init ==
    /\ settings = Null
    /\ apc = [a \in Admins |-> "idle"]
    /\ draft = [a \in Admins |-> Null]
    /\ link = [h \in Senders |-> "none"]
    /\ pc = [h \in Senders |-> "idle"]
    /\ via = [h \in Senders |-> Null]
    /\ using = [h \in Senders |-> Null]
    /\ result = [h \in Senders |-> "none"]
    /\ spent = [h \in Senders |-> 0]
    /\ mail = {}

---------------------------------------------------------------------------
(* The settings. *)

(* validateStored; `whole' is its requireComplete. *)
Valid(s, whole) ==
    /\ Production => ~s.plain
    /\ whole => s.complete
    /\ s.password # Null => s.user

StoredPassword == IF settings = Null THEN Null ELSE settings.password

AdminStep(a, from, to) ==
    /\ apc[a] = from
    /\ apc' = [apc EXCEPT ![a] = to]
    /\ UNCHANGED <<link, senderVars, mail>>

Draft(a, next, valid) ==
    /\ AdminStep(a, "idle", IF valid THEN "saving" ELSE "refused")
    /\ draft' = [draft EXCEPT ![a] = IF valid THEN next ELSE Null]
    /\ UNCHANGED settings

(* The form replaces every column but the password, which it sets, clears  *)
(* or carries over as it was read.                                         *)
Update(a) ==
    \E next \in Settings :
        /\ next.password \in {a, Null, StoredPassword}
        /\ Draft(a, next, Valid(next, next.enabled))

(* Mutant: enabling does not validate what is stored. *)
SetEnabledUnchecked(a, on) ==
    /\ settings # Null
    /\ Draft(a, [settings EXCEPT !.enabled = on], TRUE)

SetEnabled(a, on) ==
    LET next == [settings EXCEPT !.enabled = on]
    IN  /\ settings # Null
        /\ Draft(a, next, on => Valid(next, TRUE))

SaveSettings(a) ==
    /\ AdminStep(a, "saving", "saved")
    /\ settings' = draft[a]
    /\ UNCHANGED draft

(* Vault, the database or the client gives up. *)
AbandonSave(a) ==
    /\ AdminStep(a, "saving", "refused")
    /\ UNCHANGED <<settings, draft>>

---------------------------------------------------------------------------
(* A create or send-again request h. *)

Goto(h, to) == pc' = [pc EXCEPT ![h] = to]

(* Mutant: a failure without a category is reported as it is. *)
FailUncategorised(h) ==
    /\ Goto(h, "answering")
    /\ result' = [result EXCEPT ![h] = "uncategorised"]

Fail(h) ==
    /\ Goto(h, "answering")
    /\ result' = [result EXCEPT ![h] = "failed"]

Create(h) ==
    /\ pc[h] = "idle"
    /\ via' = [via EXCEPT ![h] = h]
    /\ Goto(h, "preflight")
    /\ UNCHANGED <<adminVars, link, using, result, spent, mail>>

(* The creator's page still holds the token; Prepare revalidates the link. *)
SendAgain(h, l) ==
    /\ pc[h] = "idle"
    /\ pc[l] = "answered"
    /\ via[l] = l
    /\ via' = [via EXCEPT ![h] = l]
    /\ Goto(h, IF link[l] = "active" THEN "preflight" ELSE "refused")
    /\ UNCHANGED <<adminVars, link, using, result, spent, mail>>

(* SafeSettings gives the defaults, which are disabled, without a row.     *)
Deliverable ==
    /\ settings # Null
    /\ settings.enabled
    /\ settings.complete
    /\ Production => ~settings.plain

(* Mutant: the link is stored before the settings are looked at. *)
PreflightLate(h) ==
    /\ pc[h] = "preflight"
    /\ link' = IF via[h] = h THEN [link EXCEPT ![h] = "active"] ELSE link
    /\ Goto(h, IF Deliverable THEN "rendering" ELSE "refused")
    /\ UNCHANGED <<adminVars, via, using, result, spent, mail>>

Preflight(h) ==
    /\ pc[h] = "preflight"
    /\ Goto(h, IF ~Deliverable THEN "refused"
               ELSE IF via[h] = h THEN "creating" ELSE "rendering")
    /\ UNCHANGED <<adminVars, link, via, using, result, spent, mail>>

CreateLink(h) ==
    /\ pc[h] = "creating"
    /\ link' = [link EXCEPT ![h] = "active"]
    /\ Goto(h, "rendering")
    /\ UNCHANGED <<adminVars, via, using, result, spent, mail>>

(* The templates are read anew; they may be gone or no longer render. *)
Render(h) ==
    /\ pc[h] = "rendering"
    /\ \/ Goto(h, "sending") /\ UNCHANGED result
       \/ Fail(h)
    /\ UNCHANGED <<adminVars, link, via, using, spent, mail>>

(* Mutant: the settings are trusted to be as the preflight found them. *)
SendTrusting(h) ==
    /\ pc[h] = "sending"
    /\ settings # Null
    /\ using' = [using EXCEPT ![h] = settings]
    /\ Goto(h, "connected")
    /\ UNCHANGED <<adminVars, link, via, result, spent, mail>>

SendRendered(h) ==
    /\ pc[h] = "sending"
    /\ IF settings # Null /\ settings.enabled /\ Valid(settings, TRUE)
       THEN /\ using' = [using EXCEPT ![h] = settings]
            /\ Goto(h, "connected")
            /\ UNCHANGED result
       ELSE Fail(h) /\ UNCHANGED using
    /\ UNCHANGED <<adminVars, link, via, spent, mail>>

(* The SMTP server accepts the e-mail or not; the reply that says so may   *)
(* be lost.                                                                *)
SendMail(h) ==
    /\ pc[h] = "connected"
    /\ \E t \in 0 .. using[h].timeout : spent' = [spent EXCEPT ![h] = t]
    /\ LET accepted == [by |-> h, link |-> via[h], settings |-> using[h]]
       IN  \/ /\ mail' = mail \cup {accepted}
              /\ Goto(h, "answering")
              /\ result' = [result EXCEPT ![h] = "sent"]
           \/ mail' \in {mail, mail \cup {accepted}} /\ Fail(h)
    /\ UNCHANGED <<adminVars, link, via, using>>

(* The connection is closed when WriteTimeout has passed. *)
Respond(h) ==
    /\ pc[h] = "answering"
    /\ Goto(h, IF spent[h] <= WriteTimeout THEN "answered" ELSE "lost")
    /\ UNCHANGED <<adminVars, link, via, using, result, spent, mail>>

Crash(h) ==
    /\ pc[h] \notin {"idle"} \cup Final
    /\ Goto(h, "crashed")
    /\ UNCHANGED <<adminVars, link, via, using, result, spent, mail>>

(* The link is consumed, revoked or expires. *)
End(l) ==
    /\ link[l] = "active"
    /\ link' = [link EXCEPT ![l] = "ended"]
    /\ UNCHANGED <<adminVars, senderVars, mail>>

---------------------------------------------------------------------------
Administer(a) ==
    \/ Update(a)
    \/ \E on \in BOOLEAN : SetEnabled(a, on)
    \/ SaveSettings(a)
    \/ AbandonSave(a)

Send(h) ==
    \/ Create(h)
    \/ \E l \in Senders : SendAgain(h, l)
    \/ Preflight(h)
    \/ CreateLink(h)
    \/ Render(h)
    \/ SendRendered(h)
    \/ SendMail(h)
    \/ Respond(h)
    \/ Crash(h)
    \/ End(h)

Next ==
    \/ \E a \in Admins : Administer(a)
    \/ \E h \in Senders : Send(h)

Spec == Init /\ [][Next]_vars

---------------------------------------------------------------------------
(* Whatever form, enabling and disabling overlap, the stored settings pass *)
(* the validation as a whole: enabled ones are complete, a password has    *)
(* its username, and production never stores an unencrypted mode.          *)
SettingsAreValid == settings # Null => Valid(settings, settings.enabled)

(* Every accepted e-mail was sent with settings that were enabled and      *)
(* valid together, not merely when the preflight looked, and carries a     *)
(* link that was stored.                                                   *)
MailIsAuthorised ==
    \A m \in mail : /\ m.settings.enabled
                    /\ Valid(m.settings, TRUE)
                    /\ link[m.link] # "none"

(* API.md:268: a request that is refused has created no secret, and one    *)
(* that was answered has.                                                  *)
RefusedCreatesNothing ==
    \A h \in Senders : via[h] = h =>
        /\ pc[h] = "refused" => link[h] = "none"
        /\ pc[h] = "answered" => link[h] # "none"
=============================================================================
