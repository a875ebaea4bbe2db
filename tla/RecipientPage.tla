---------------------------- MODULE RecipientPage ----------------------------
(***************************************************************************)
(* The recipient pages of one link (web/static/reveal.js) composed with    *)
(* the delivery they talk to.  A page is one tab with the link's path: its *)
(* script prepares on load, sends a consume request when the recipient     *)
(* chooses Reveal, and shows what comes back.  A request that was sent may *)
(* reach the server late, after its page gave it up, or never; a response  *)
(* may be lost, or arrive with its status and a truncated body.            *)
(***************************************************************************)
EXTENDS SecretDelivery

CONSTANTS
    Pages,      \* browser tabs
    Blank       \* the empty password an untouched field sends

ASSUME PageAssumption ==
    /\ Blank \in Passwords
    /\ Null \notin Passwords
    /\ {"none", "prepare"} \cap Requests = {}

VARIABLES
    page,       \* each tab
    asked       \* the password each consume request was sent with

pageVars == <<page, asked>>
allVars == <<vars, pageVars>>

PageRecords ==
    [view   : {"loading", "ready", "submitting", "password_error", "revealed",
               "unavailable", "network_error", "closed"},
     token  : BOOLEAN,                         \* held in the script's memory
     address: BOOLEAN,                         \* in the address bar
     field  : BOOLEAN,                         \* password field visible
     typed  : Passwords,                       \* its value
     retry  : {"prepare", "reveal"},           \* what Try again does
     chosen : BOOLEAN,                         \* Reveal clicked (history)
     call   : {"none", "prepare"} \cup Requests,
     reply  : {"none", "no", "open", "protected"},   \* prepare's answer
     shown  : BOOLEAN]                         \* the secret is on the page

PageTypeOK ==
    /\ TypeOK
    /\ page \in [Pages -> PageRecords]
    /\ asked \in [Requests -> Passwords \cup {Null}]

Fresh ==
    [view |-> "closed", token |-> FALSE, address |-> FALSE,
     field |-> FALSE, typed |-> Blank, retry |-> "prepare", chosen |-> FALSE,
     call |-> "none", reply |-> "none", shown |-> FALSE]

PageInit ==
    /\ Init
    /\ page = [g \in Pages |-> Fresh]
    /\ asked = [r \in Requests |-> Null]

---------------------------------------------------------------------------
(* The functions of reveal.js, each as the page it leaves. *)

Unavailable(pg) ==
    [pg EXCEPT !.token = FALSE, !.view = "unavailable",
               !.call = "none", !.reply = "none"]

(* The same panel with another text. *)
SessionLost(pg) == Unavailable(pg)

(* Mutant: a failed prepare is retried as a reveal. *)
NetworkErrorSwapped(pg, action) ==
    [pg EXCEPT !.retry = "reveal", !.view = "network_error",
               !.call = "none", !.reply = "none"]

NetworkError(pg, action) ==
    [pg EXCEPT !.retry = action, !.view = "network_error",
               !.call = "none", !.reply = "none"]

(* A fragment in the address bar is taken over and stripped. *)
Prepare(pg) ==
    IF pg.token \/ pg.address
    THEN [pg EXCEPT !.token = TRUE, !.address = FALSE, !.view = "loading",
                    !.call = "prepare", !.reply = "none"]
    ELSE SessionLost(pg)

Submitted(pg, r) == [pg EXCEPT !.view = "submitting", !.call = r]

Prepared(pg) ==
    IF pg.reply = "no"
    THEN Unavailable(pg)
    ELSE [pg EXCEPT !.view = "ready", !.field = (pg.reply = "protected"),
                    !.call = "none", !.reply = "none"]

(* Mutant: the token is dropped with the wrong password. *)
AnsweredForgetful(pg, answer) ==
    CASE answer = "revealed" ->
            [pg EXCEPT !.token = FALSE, !.view = "revealed", !.shown = TRUE,
                       !.call = "none"]
      [] answer = "invalid" ->
            [pg EXCEPT !.token = FALSE, !.view = "password_error",
                       !.call = "none"]
      [] answer \in {"locked", "unavailable"} -> Unavailable(pg)
      [] OTHER -> NetworkError(pg, "reveal")

Answered(pg, answer) ==
    CASE answer = "revealed" ->
            [pg EXCEPT !.token = FALSE, !.view = "revealed", !.shown = TRUE,
                       !.call = "none"]
      [] answer = "invalid" ->
            [pg EXCEPT !.view = "password_error", !.call = "none"]
      [] answer \in {"locked", "unavailable"} -> Unavailable(pg)
      [] OTHER -> NetworkError(pg, "reveal")

(* `response.json().catch(() => ({}))': a body that breaks off is read as  *)
(* an object without may_attempt, code, payload or secret.                 *)
AnsweredBlank(pg, answer) ==
    IF answer = "revealed"
    THEN [pg EXCEPT !.token = FALSE, !.view = "revealed", !.call = "none"]
    ELSE NetworkError(pg, "reveal")

---------------------------------------------------------------------------
SetPage(g, pg) == page' = [page EXCEPT ![g] = pg]

(* Following the link in a new tab; the link exists once the row does. *)
Open(g) ==
    /\ page[g].view = "closed"
    /\ row # Null
    /\ SetPage(g, Prepare([Fresh EXCEPT !.address = TRUE]))
    /\ UNCHANGED <<vars, asked>>

(* Following it again in the tab that has it open: only the fragment       *)
(* differs, so the browser runs no script, and nothing listens to it.      *)
Reopen(g) ==
    /\ page[g].view # "closed"
    /\ SetPage(g, [page[g] EXCEPT !.address = TRUE])
    /\ UNCHANGED <<vars, asked>>

(* The browser forgets calls in flight, the network does not. *)
Reload(g) ==
    /\ page[g].view # "closed"
    /\ SetPage(g, Prepare([Fresh EXCEPT !.address = page[g].address]))
    /\ UNCHANGED <<vars, asked>>

Close(g) ==
    /\ page[g].view # "closed"
    /\ SetPage(g, Fresh)
    /\ UNCHANGED <<vars, asked>>

Reveal(g, pg) ==
    IF pg.token
    THEN \E r \in Requests :
            /\ asked[r] = Null
            /\ asked' = [asked EXCEPT ![r] = pg.typed]
            /\ SetPage(g, Submitted(pg, r))
    ELSE SetPage(g, SessionLost(pg)) /\ UNCHANGED asked

(* Only a visible field is typed in; untouched it sends the empty password. *)
ClickReveal(g) ==
    /\ page[g].view \in {"ready", "password_error"}
    /\ \E p \in IF page[g].field THEN Passwords ELSE {page[g].typed} :
          Reveal(g, [page[g] EXCEPT !.typed = p, !.chosen = TRUE])
    /\ UNCHANGED vars

ClickRetry(g) ==
    /\ page[g].view = "network_error"
    /\ \/ /\ page[g].retry = "reveal"
          /\ Reveal(g, page[g])
       \/ /\ page[g].retry = "prepare"
          /\ SetPage(g, Prepare(page[g]))
          /\ UNCHANGED asked
    /\ UNCHANGED vars

---------------------------------------------------------------------------
(* The server's side: Prepare is one SELECT, a consume starts at Find. *)

Preparable(t) ==
    /\ row # Null
    /\ row.status = "active"
    /\ row.expiresAt > t
    /\ row.failed < MaxFailed

ServePrepare(g) ==
    /\ page[g].call = "prepare"
    /\ page[g].reply = "none"
    /\ \E t \in Moments :
          LET reply == IF ~Preparable(t) THEN "no"
                       ELSE IF row.hash = Null THEN "open" ELSE "protected"
          IN  SetPage(g, [page[g] EXCEPT !.reply = reply])
    /\ UNCHANGED <<vars, asked>>

Arrive(r) ==
    /\ asked[r] # Null
    /\ Find(r, asked[r])

(* What the browser reports to the script. *)

PrepareAnswered(g) ==
    /\ page[g].call = "prepare"
    /\ page[g].reply # "none"
    /\ SetPage(g, Prepared(page[g]))
    /\ UNCHANGED <<vars, asked>>

PrepareTruncated(g) ==
    /\ page[g].call = "prepare"
    /\ page[g].reply # "none"
    /\ SetPage(g, Unavailable(page[g]))
    /\ UNCHANGED <<vars, asked>>

HasAnswer(g) ==
    /\ page[g].call \in Requests
    /\ pc[page[g].call] \in Answers \ {"failed"}

RevealAnswered(g) ==
    /\ HasAnswer(g)
    /\ SetPage(g, Answered(page[g], pc[page[g].call]))
    /\ UNCHANGED <<vars, asked>>

RevealTruncated(g) ==
    /\ HasAnswer(g)
    /\ SetPage(g, AnsweredBlank(page[g], pc[page[g].call]))
    /\ UNCHANGED <<vars, asked>>

(* No response, a rate limit, or an error status of the server. *)
CallFails(g) ==
    /\ page[g].call # "none"
    /\ SetPage(g, NetworkError(page[g], IF page[g].call = "prepare"
                                        THEN "prepare" ELSE "reveal"))
    /\ UNCHANGED <<vars, asked>>

---------------------------------------------------------------------------
Recipient(g) ==
    \/ Open(g)
    \/ Reopen(g)
    \/ Reload(g)
    \/ Close(g)
    \/ ClickReveal(g)
    \/ ClickRetry(g)

Browser(g) ==
    \/ ServePrepare(g)
    \/ PrepareAnswered(g)
    \/ PrepareTruncated(g)
    \/ RevealAnswered(g)
    \/ RevealTruncated(g)
    \/ CallFails(g)

(* No administrator sets an empty password. *)
Administer ==
    LET settable == (Passwords \ {Blank}) \cup {Null}
    IN  \/ \E p \in settable, ttl \in Lifetimes : Create(p, ttl)
        \/ Revoke
        \/ \E p \in settable : UpdateProtection(p)

Serve(r) ==
    \/ Arrive(r)
    \/ RecordPasswordFailure(r)
    \/ BeginConsume(r)
    \/ Decrypt(r)
    \/ RestoreConsume(r)
    \/ CompleteConsume(r)
    \/ Reply(r)
    \/ Abandon(r)

Server ==
    \/ Tick
    \/ Administer
    \/ \E r \in Requests : Serve(r)

PageNext ==
    \/ Server /\ UNCHANGED pageVars
    \/ \E g \in Pages : Recipient(g) \/ Browser(g)

PageSpec == PageInit /\ [][PageNext]_allVars

---------------------------------------------------------------------------
(* However often the link is opened, reloaded and retried, in however many *)
(* tabs, and however late the requests arrive: one tab shows the secret,   *)
(* and it was the one whose request completed the consume.                 *)
SecretOnOnePage ==
    /\ \A g, h \in Pages : page[g].shown /\ page[h].shown => g = h
    /\ \A g \in Pages : page[g].shown => completedBy # {}

(* A page waits for exactly the call it has in flight; while it offers     *)
(* Reveal or Try again it still holds the token, so that a wrong password  *)
(* or a network error can be retried without the link; once it shows an    *)
(* end it has none.                                                        *)
ViewFitsTokenAndCall ==
    \A g \in Pages : LET pg == page[g] IN
        /\ pg.call = "prepare" <=> pg.view = "loading"
        /\ pg.call \in Requests <=> pg.view = "submitting"
        /\ pg.token <=> pg.view \notin {"closed", "revealed", "unavailable"}

(* help.html:29 "Opening the link does not consume the secret": a consume  *)
(* request leaves only a page whose recipient chose Reveal on it, also     *)
(* when it is sent by Try again.                                           *)
RevealIsChosen ==
    \A g \in Pages : page[g].call \in Requests => page[g].chosen

(* UI_QA_CHECKLIST.md:115 "A wrong password shows the localized inline     *)
(* error, ... focuses the field": the field is there to type in.           *)
WrongPasswordShowsField ==
    \A g \in Pages : page[g].view = "password_error" => page[g].field
=============================================================================
