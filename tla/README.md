# SecureShare in TLA+

SecureShare (`src/`) stores a secret encrypted by HashiCorp Vault, hands out a
one-time link for it, shows the secret to whoever first opens the link with the
right password, and erases it.  It is one Go program, run as one or more
replicas over one PostgreSQL database and one Vault; all coordination between
replicas, requests and background workers goes through single SQL statements
and the row locks of PostgreSQL.  This directory models that coordination,
model-checks it with TLC on small instances and proves its central results
with TLAPS.

Contents: [1 The system](#1-the-system) · [2 Plan](#2-plan) ·
[3 Modules and code](#3-modules-and-code) · [4 Runs](#4-runs) ·
[5 Proofs](#5-proofs) · [6 Where the code and its documents disagree](#6-where-the-code-and-its-documents-disagree) ·
[7 What is not modelled](#7-what-is-not-modelled)

## 1. The system

### Components, their state and their operations

| Component | Source | State | Operations | Correct when |
|---|---|---|---|---|
| Delivery repository | `internal/delivery/repository.go`, `migrations/000001*.sql` | table `secret_deliveries` (status, ciphertext, password hash, failure counter, lease, timestamps) | one SQL statement per operation: Insert, Revoke, Prepare, FindConsumeCandidate, BeginConsume, RecordPasswordFailure, UpdatePasswordProtection, RestoreConsume, CompleteConsume; Cleanup, a transaction of four statements | ended deliveries stay ended; the ciphertext is there exactly while it can be revealed, and erased afterwards |
| Delivery service | `internal/delivery/service.go` | none of its own; a consume is a sequence of statements with Argon2 and Vault calls between them | Create, Consume, Revoke, SetPasswordProtection, RemovePasswordProtection, Prepare, reads | at most one reveal, with the password in force; every wrong guess counted once |
| Cleanup worker | `internal/cleanup/`, `server.go` handleManualCleanup | a ticker per replica | Cleanup on start, on each tick and on an administrator's demand | idempotent; takes no live lease; erases in the end |
| Link passwords | `internal/auth/password.go` | none (Argon2id with a fresh salt per hash) | HashPassword, VerifyPassword | — |
| Vault client, link tokens | `internal/crypto/` | none | Encrypt, Decrypt, Ready; GenerateToken, TokenHMAC | — |
| Users | `internal/auth/users.go` | table `users` | bootstrap, create, update, login, password change and reset | updates keep what they do not name |
| Sessions | `internal/auth/session.go`, `users.go` | table `user_sessions` | create, touch, revoke one, revoke others | a password change leaves one session |
| API clients | `internal/auth/clients.go` | table `api_clients` | create, enable, disable, revoke, rotate, touch | a replaced secret never works again; neither does a revoked client |
| E-mail | `internal/email/` | table `email_settings`, and the events in `audit_events` | settings, preflight, send, retry, templates | stored settings are valid as a whole; nothing is sent with others |
| HTTP server | `internal/http/server.go` | none; composes the others, checks roles, scopes, CSRF, limits | every endpoint and page | handlers make their calls in a safe order |
| Rate limiter | `internal/ratelimit/` | a map of fixed windows in memory, one per replica | Allow, Cleanup | at most twice the limit in any window's time |
| Recipient page | `web/static/reveal.js` | the page's view, the call in flight, the token, the shown secret | prepare, reveal, retry | the page never consumes unasked and never loses the token early |
| Start-up | `cmd/secureshare`, `internal/database`, `auth.BootstrapAdmin` | `schema_migrations`, the first user | migrate, bootstrap, serve, stop | each migration once and in order; every replica comes up |
| Administration pages | `web/static/admin.js`, `time.js`, `web/templates/` | per page: form and panel, buttons, calls in flight, the ids its handlers closed over; one confirmation dialog per page; the browser's cookie | create, protect and revoke a link; create and manage an API client; save, test and enable the e-mail settings; change the password, revoke sessions, log out | what a page shows, offers and asks agrees with what its next call does, and with the server unless it was not told |
| Public experience | `internal/publicexperience/` | table `application_settings` | read and replace the locale | — |
| Configuration, navigation, middleware, observability, build info | `internal/config`, `internal/http/navigation.go`, `internal/middleware`, `internal/observability`, `internal/buildinfo` | process environment, counters | cross-cutting code | — |

### How they interact

The HTTP server calls the services; a service calls its repository, Vault or the
SMTP server.  No component calls back.  Two handlers meet only in the database
(a row) or in a limiter's map (a mutex).  The recipient page meets the server
only through `POST /api/v1/secret-links/prepare` and `/consume`, whose requests
and responses may be late or lost.  Replicas know nothing of each other.

### Where it is hard

* A consume is not a transaction.  It reads a candidate row, spends hundreds of
  milliseconds in Argon2, takes a lease with one UPDATE, waits for Vault and
  completes with another UPDATE.  Everything may happen between two of these
  steps: another recipient, a revocation, a new password, a cleanup, a crash.
* A lease is only a timestamp.  Once it is stale another consume may take it
  over while its first holder is still alive, or a cleanup may give it back.
* A cleanup is one transaction, so its `NOW()` is the moment it began however
  long it waits for locks; it holds the rows it touched until it commits, and
  cleanups of several replicas overlap.
* A request's context may end at any statement, also at the one that was to
  restore the lease after a failed decryption.
* Users, API clients and e-mail settings are read in one statement, changed in
  memory and written in another, mostly without a condition on what was read.
* The limiter's callers read the clock before they take its lock.
* Replicas that start together migrate and bootstrap without a lock.
* The page decides on load what it asks for; the link changes under it.
* The administration pages' handlers overlap: each awaits a dialog or a call and
  then reads the page again, which other handlers, and the administrator, have
  changed meanwhile.

PROJECT.json lists every hazard with its line and the properties about it.

## 2. Plan

Order: the delivery first, since everything else exists for it; then what
stands around it.

1. **Delivery** — `DeliveryRow`, `SecretDelivery`, the abstract `OneTimeSecret`
   and the refinement; all safety proved.  *Done.*
2. **Recipient page** — `RecipientPage`, composed with `SecretDelivery`.
   *Done, with proofs.*
3. **API clients** — `ApiClients` and the abstract `Credential`.  *Done, with
   proofs and the refinement.*
4. **Rate limiter** — `RateLimiter`.  *Done, with proofs.*
5. **Users and sessions** — `Accounts` and the abstract `Membership`.  *Done for
   one user, with proofs and the refinement.*
6. **E-mail** — `EmailDelivery`.  *Done, with proofs.*
7. **Start-up** — `Startup`.  *Done, with proofs.*
8. **Administration pages** — `ConfirmDialog`, one module for each page and
   `AdminTab`, which composes them.  *Done, with proofs.*

Open:

* the table of users and the links' `created_by` in one module: logins by name
  or e-mail, renames (`server.go` canManageProtection);
* absolute and idle expiry of a session with a clock per replica (`session.go`,
  `users.go` SessionByHash).

## 3. Modules and code

PROJECT.json maps every definition to its lines.  In all modules one action is
one SQL statement (or one critical section, one handler's read, one transition
of the page); a handler is a process that goes through its statements and may
stop for good between any two of them (`Abandon`, `Crash`: a crash, a cancelled
context, a timed-out statement).

### DeliveryRow

One row of `secret_deliveries` as a record.  Each statement is two operators:
its WHERE clause (`MayBegin`, `MayCharge`, `MayProtect`, `MayRevoke`,
`MayExpire`, `MayRecover`, `MayBlank`, `Holds`) and its SET clause (`Begun`,
`Charged`, `Protected`, `Closed`, `Expired`, `Released`, `Blanked`).  A password
hash is the password and a salt no other hash has; `consumed_at`, `revoked_at`
and the `updated_at` of an expired row, each read in one status only, share a
field.

### SecretDelivery

The consume requests, the administrators' calls and the cleanups of all
replicas over one row.  A request goes `Find` → (`RecordPasswordFailure` |
`BeginConsume` → `Decrypt` → (`CompleteConsume` → `Reply` | `RestoreConsume`)).
Argon2 runs between `Find` and the next step, on the hash that `Find` returned.
A cleanup goes `BeginCleanup` → `ExpireActive` → `RecoverLeases` →
`BlankPayloads` → `CommitCleanup`, or `RollbackCleanup`; from the first row it
rewrites it holds the lock (`holder`) and its version is in `draft`.

PostgreSQL is modelled as the code uses it, in READ COMMITTED: an UPDATE that
matches waits while another transaction holds the row and then sees its latest
version, one that does not match changes nothing.  `NOW()` of a single
statement may be `StatementLag` older than the moment it takes effect, that of
a cleanup as old as its transaction.

One row is enough: no statement on `secret_deliveries` reads two rows, and all
of them address a row by its key or treat every row alike.

### OneTimeSecret

The promise: a secret is deposited under a password, handed to at most one
recipient who offered the password in force, or withdrawn; its ciphertext goes
with the reveal.  `SecretDelivery!OneTime` is this specification under the
mapping of statuses to phases, the stored hash to its password and `guess` to
what was offered.

### RecipientPage

Browser tabs with the link's page over `SecretDelivery`.  The functions of
`reveal.js` are operators from page to page (`Prepare`, `Submitted`, `Answered`,
`Unavailable`, `NetworkError`); the actions are what the recipient does (open,
reopen, reload, close, reveal, retry), what arrives at the server (`Arrive` is
`Find` with the password sent; it may happen long after the page gave the call
up, or never) and what comes back: an answer, an answer whose body breaks off
(`PrepareTruncated`, `RevealTruncated`), or nothing (`CallFails`).

### ApiClients

One client.  Enabling and rotating are two steps (`ReadUnlessRevoked`, then
`Enable` or `Rotate`), disabling and revoking one.  A rotation's new secret is
named after its request.  `Authenticate` reads the row and the clock once;
`caller` keeps the secret that let a request in.

### Credential

The promise of an API client: one secret in force at a time, each once; who is
let in has offered the one in force, while the client is active and not expired;
a revoked client takes no new request to manage it.  `ApiClients!KeepsCredential`
maps the row to it, the replaced secrets to `spent`, and the requests that have
read the row and not yet written it to `taken`: the gap between the two
statements is part of the promise, and the only way out of `revoked` other than
being disabled.

### RateLimiter

One key.  `ReadClock` is the read before the lock, `OpenWindow`, `CountCall` and
`Refuse` are the branches under it; `BeginSweep` and `Sweep` are `Cleanup`.
`MaxLag` bounds the time between the read and the critical section.

### Accounts

One user and the sessions opened for it.  A password change is `ChangePassword`
(authorised) → `VerifyCurrent` → `SetPassword` → `ChangeRevokesOthers` →
`ChangeDestroys` → `ChangeReopens`; a failure of the two revocations is only
logged and the change goes on.  An update is `ReadUser` → `WriteUser`, which
writes every column of the profile.  `offered` is a history variable: the
password with which a request was granted the session it has yet to open.

### Membership

The promise of signing in: a session is opened only for a request that offered
the password in force while the user was active, it is closed for good, and a
request is let in only through an open session of an active user.  A grant
outlives what happens meanwhile: a login that verified the old password may open
its session after a password change, which is why `ChangeLeavesOneSession` says
"undisturbed".  `Accounts!KeepsMembership` maps live and revoked sessions to
`open` and `closed`, and the cookie of a request that was authorised to
`through`.

### EmailDelivery

The settings row, requests that change it (`Update` or `SetEnabled`, then
`SaveSettings`) and requests that create and send a link (`Preflight` →
`CreateLink` → `Render` → `SendRendered` → `SendMail` → `Respond`) or send one
again.  The settings are read by the preflight and again by the sender.  An
e-mail may be accepted although the reply that says so is lost.

### Startup

Replicas with images of different age: `Start` → `CheckVersion` / `Commit` per
file → `Migrated` → `CountUsers` → `CreateAdmin` → serving.  Who loses on the
key of `schema_migrations` or on a user's name exits and is started again.

### ConfirmDialog, CreatePage, DetailPage, ClientPage, EmailPage, AccountPage

The administration pages.  A handler of `admin.js` runs without interruption
from one `await` to the next, and each such stretch is one action: the click
(`Submit`, `AskRevoke`, `Press`), the dialog's answer with what the handler does
then (`RevokeClosed`, `ActionClosed`), the answer of a call (`PostAnswered`,
`Answered`), or its failure (`…Lost`, with the `catch` or `finally` the code
has, or hasn't).  Between them stand the steps of the server (`…Arrives`,
`…Refused`), taken as one step each — what they consist of is in
`SecretDelivery`, `ApiClients`, `Accounts` and `EmailDelivery` — and those of
others (`Others…`, `LinkEnds`, `LoginElsewhere`).

* `ConfirmDialog`: the one `<dialog>` of a page.  `returnValue` is kept when
  Escape closes it.  Pages without it (account, users) use `window.confirm`,
  which stops the page: there asking is part of the action.
* `CreatePage`: the structured fields with the form's own test
  (`StructuredPayload`) against the server's (`NormalizePayload`); the panel,
  with `createdID`, the URL shown, and the revocation.
* `DetailPage`: setting, replacing and removing the password and revoking,
  together.  The page as somebody with the right to revoke has it (without it
  there is no dialog, and no Revoke button).
* `ClientPage`: the form that creates a client and the page that manages one;
  the buttons offered are those of the status the page was rendered with.
* `EmailPage`: five buttons, of which four save the form and three go on with a
  second call.  A handler's `sent` is the form as it was when it was pressed.
* `AccountPage`: the browser's cookie, the page's CSRF token (that of the
  session it was rendered for) and the account's sessions.

### AdminTab

One tab: `Load` brings a new document, with its own dialog, state and calls;
then the handlers of that page run.  What a call of the page before still does
is done by others.  A page that is not in the tab rests in one state, so the
tab's states are the sum, not the product, of the pages'.

### Mutants

A definition that a comment calls a mutant is a plausible slip in the
definition that follows it (a dropped guard, a missing reset).  Nothing uses
it; for each property of a passing run PROJECT.json names one that, put in the
place of its definition, makes TLC find the property violated.

## 4. Runs

| Run | Instance | Shows |
|---|---|---|
| `delivery_safety` | 2 requests, 2 passwords, 2 cleanups, 2 hashes, limit 2, a lifetime of 2 and a lease that is stale after a tick | the invariants and action properties of a delivery, and that it implements `OneTimeSecret` |
| `delivery_liveness` | 1 request, 1 cleanup, deliveries that expire and that do not, fair clock and cleanup | erasure in the end, except for stranded leases; recovery of stale leases |
| `delivery_stranded` | the same | *violation*: a stale lease that no cleanup ever clears |
| `page_invariants` | 2 tabs, 2 requests, a password and the empty one | one tab shows the secret; token, view and call agree; nothing is consumed unasked |
| `page_password_field` | 1 tab | *violation*: a password asked for in a hidden field |
| `clients_invariants` | 4 overlapping management requests, a caller, two moments | replaced secrets stay out; only an earlier read revives; the statements implement `Credential` |
| `clients_revoked` | the same | *violation*: revoke, disable, enable |
| `limiter_invariants` | 6 calls, limit 2, window 2, lag 1, clock up to 6 | the limiter's bounds over three windows |
| `accounts_invariants` | 3 requests, 2 updates, 2 passwords | a change leaves one session; an update keeps the rest; the handlers implement `Membership` |
| `email_invariants` | 2 settings requests, 2 senders, production rules | settings valid as a whole; e-mail only with such; refused creates store nothing |
| `admin_pages` | 2 links, names `""`, `a`, `A` and a long one in 2 fields, 3 secrets, 3 sessions, 2 e-mail buttons at once | each page agrees with its next call and with the server; nothing is done unasked; the form lets out what the server takes; a browser stays signed in |
| `startup_invariants` | 3 replicas, images of 2 and 3 files, two bootstrap names, 1 stop | migrations once and in order; all serve in the end |

### Why the bounds are enough

*Delivery.*  Two requests make every race the statements know: both read, one
leases, the other takes over or is charged.  Two passwords distinguish a wrong
guess, a replaced and a removed protection; two hashes allow a password to be
set and replaced, also by itself.  A
failure limit of 2 has a counted failure that locks and one that does not.  A
lease can go stale before the expiry and at it.  Two cleanups
overlap; a third would wait for the same lock.  Retention is 0: it only delays
the blanking.  The proofs hold for all values.

*Page.*  The second tab and the second request are the concurrency a page
meets; its prepares are not bounded, its consume requests are.

*Clients.*  A revival needs a read, a revocation, a write and one more request
to be caught by; that is four.  *Limiter.*  Six calls fill two windows and
leave two that are refused or open a third.  *Accounts.*  Three
requests are a session, a change through it and a login beside it.  *E-mail.*
Two of each overlap; every further one repeats.  *Start-up.*  Three replicas are
an older image, a twin and one with another bootstrap name.  *Administration
pages.*  Two links are the one shown and the one before it; two fields are what
a duplicate needs, and the names are a blank, two that differ in case and one
only the server refuses.  Three secrets are the shown one, the next and one by
others; three sessions are the page's, the one a change opens and a login
beside it.  A link's revocation is out once at a time, and so is the call that
revokes other sessions: a second of either repeats the first.

Symmetry is declared for sets whose members no definition tells apart, and
never where a liveness property is checked.  Deadlock is checked where some
action always remains enabled (the deliveries' cleanups, a page, the
administrators); elsewhere the instance ends when its finite requests are
answered and the clock has run out.

### Fairness

*Delivery.*  Weak fairness of the clock and of every cleanup's beginning: each
replica's ticker fires every `CLEANUP_INTERVAL` until the process ends, and the
process is restarted (`restart: unless-stopped`, docker-compose).  Strong
fairness of a cleanup's statements: one may wait for a lock or fail, and the
whole transaction is tried again at the next tick; what is assumed is that it
does not fail at the same statement for ever.  Nothing is assumed of requests,
clients or Vault.

*Start-up.*  Weak fairness of each replica's own steps, which includes being
started again after it has exited.

## 5. Proofs

All theorems are proved for every value of the constants that satisfies the
named assumptions (`RowAssumption`, `DeliveryAssumption`, `PageAssumption`,
`LimiterAssumption`, `ClientAssumption`, `AccountAssumption`, `EmailAssumption`,
`StartupAssumption`, `CreateAssumption`, `ClientPageAssumption`,
`AccountPageAssumption`), which only say that bounds are numbers, that the sets
to be counted are finite, that `Null` and the other markers are nothing else,
and that a patch makes a profile of a profile.

**SecretDeliveryProofs.**  Lemmas state what each SET clause does to the
columns.  The safety properties alone are not inductive; `IInv` adds to the type
invariant

* `RowInv`: what a row carries in each status (an active or leased row has its
  ciphertext and attempts left, a leased one a lease and its time);
* `CleanupInv`: while a cleanup holds the row, its draft is a legal
  continuation of the *committed* row with the same hash and counter, so that
  committing it cannot undo what others did;
* `RequestInv`: a request about to lease has verified its password against the
  hash it saw, and the hash that the current lease's holder saw is the one in
  the row — the reason why BeginConsume compares the hash;
* `CompletionInv`: at most one completion, exactly if the row is consumed.

From `Invariance` follow `RevealedAtMostOnce`, `PasswordInForce`,
`CiphertextFollowsStatus` and `IdempotentCleanup`.  `StepsOfTheRow` summarises
what any step may do to the row; `EndsAreFinal` and `LiveLeasesAreKept` read
that summary.  `Refinement` shows every step to be a step of `OneTimeSecret` or
a stutter.  `EveryFailureIsCounted` needs one invariant more (`CountInv`): no
request has seen a hash that was not yet computed, so a fresh protection starts
with no wrong answer against it.

**RecipientPageProofs.**  Every step of the pages is a step of the delivery or
leaves it alone (`ServerIsDelivery`), so the delivery's `IInv` holds here too.
`PageInv` adds that a page fits its call (`Fits`), that a request belongs to the
one page that sent it (`CallsAreOwn`), and that once a page shows the secret the
request that revealed is waited for by nobody (`AnswerIsTaken`).  A second page
could only be shown the secret by a second request that completed, which `IInv`
excludes: `OnePageShows`.  `PageTypeCorrect`, `PageIsConsistent` and
`NothingIsConsumedUnasked` read the other conjuncts.  `PagesUseTheDelivery`
makes the composition a theorem: hiding the pages, the system is a behaviour of
`SecretDelivery`, so all that is proved of the delivery holds of it, the one-time
secret first (`PagesKeepThePromise`).

**RateLimiterProofs.**  `CallsInv` places every admitted call: those of the
current window after its opening, those of windows that are not neighbours a
window's length apart.  An interval shorter than a window, less the lag, then
meets at most two windows of at most `Limit` calls each
(`NeverMoreThanTwice`); `RefusedWhenSpent` and `WindowsStayApart` follow.

**ApiClientsProofs.**  `SecretsInv`: the secret of a rotation that has not
written is nowhere yet; so whichever rotation writes last, what it stores was
never retired (`RetiredForGood`).  `RevivedByEarlierRead` needs the types only.
`CredentialRefinement` follows the actions: `EarlyMoves` says what a request's
step does to the set of those between their two statements, `ManageKeepsPromise`
and `CallerKeepsPromise` name the abstract step of each action.  That a rotation
is a `Replace`, which takes a secret that was in force never before, is
`SecretsInv` again.

**AccountsProofs.**  `Closing` says, of a password change that nothing has
disturbed, which sessions can be live at each of its steps: its own after the
others are revoked, none before it opens the new one, that one at the end
(`ChangeClosesTheRest`).  Every other request's step disturbs it, so only its own
steps count.  `ReadIsCurrent` says that an update that was not overtaken still
holds the row as stored (`UpdatesAreNarrow`).  `MembershipRefinement` adds
`Unopened` (who may yet open a session has none, so that no revoked session is
opened again) and `OfferStands` (an offer is held exactly from the verification
to the opening); each kind of step has a lemma that names its abstract step:
a verification grants (`VerifyKeeps`), an authorisation enters
(`AuthorizeKeeps`), an UPDATE of `revoked_at` closes or fails (`CloseKeeps`), an
INSERT opens (`OpenKeeps`).

**EmailDeliveryProofs.**  What a settings request is about to store was
validated when it was made (`DraftsAreValid`) and is stored as a whole, so
overlapping requests cannot mix two rows (`StoredSettingsAreValid`); what a
sender sends with was validated when it read it, not when the preflight did
(`UsingIsValid`).  `LinkIsStored` places every creator before or after its
INSERT; `EveryMailIsAuthorised` and `NothingIsCreatedByRefused` follow.

**StartupProofs.**  `Progress`: a replica that is at file *n* has found or made
all files before it applied, whatever the others did; with it `OnceInOrder`
is inductive, and `SchemaBeforeService` and `BootstrapCounted` follow.

**AdminTabProofs.**  `TabInv` is one invariant for the dialog, one for each page
and `RestInv`, that all pages but one rest.  What the pages' invariants add to
the properties:

* `DialogInv`: a return value of `confirm` was pressed on this page;
* `CreateInv`: while the call is out there is no panel, and a question about a
  link is about the one that is shown *and* named by `createdID` — the reason
  why re-reading it after the dialog is harmless;
* `DetailInv`: of a save and a removal whose answers are both on their way, the
  stored state is that of the later, or they have crossed;
* `ClientInv`: no secret is shown while one is being drawn, and the one on its
  way is the one in force unless others have drawn; with `ClientTypeOK`,
  `ButtonsOfPage` and `SecretOnItsWay` as its parts;
* `EmailInv`: a save whose answer is on its way is what is stored;
* `AccountInv`: while the answer with the new cookie is on its way, the session
  the page's token belongs to is closed, so that no call that is out is
  authorised — the reason why a revocation of other sessions cannot close the
  new one.

Each page has a lemma that its steps preserve its invariant; `Frames` says that
a page's invariant survives the others' steps, since no two pages ask the same
question.  The theorems read one conjunct each; `RevokesTheShownLink` and
`FormMatchesServer` are about steps.

Only model-checked: liveness under fairness (`ErasedOrStranded`,
`StaleLeaseIsRecovered`, `AllServe`), which the installed provers cannot do.
Every invariant, action property and refinement of a passing run is a theorem.

## 6. Where the code and its documents disagree

Three disagreements are runs that end in a counterexample; PROJECT.json quotes
both sides.

* `delivery_stranded` — a request that dies holding the lease shortly before
  `expires_at` leaves a row that is neither expired (not active) nor recovered
  (expired): its ciphertext stays until somebody revokes the link.
  `ErasedOrStranded` shows that this is the only way a ciphertext survives.
* `page_password_field` — a password set after the page was prepared is asked
  for in a field that stays hidden.
* `clients_revoked` — disabling a revoked client makes it possible to enable it.

Others were met while modelling.  The modules contain the steps that lead to
them, and no property contradicts them:

* A recipient may be told `SECRET_UNAVAILABLE` (`service.go:302`) while the link
  still works: its password was changed between the read and the lease, or
  another request's lease is given back later.  `docs/DEVELOPER_GUIDE.md:210`
  calls the answer terminal and `publicexperience/catalog.go:73` tells the
  recipient that the link has ended.
* A consume response whose body breaks off is read as `{}` (`reveal.js:243`):
  the page announces a secret and shows none.  After one that is lost as a whole
  it says that the link remains available (`catalog.go:77`); it is consumed.
* Following the link again in a tab that shows it changes only the fragment;
  nothing listens, and the token stays in the address bar (`README.md:53`).
* `force_password_change` is stored, shown and cleared, and stops no call
  (`session.go:151`, `user_new.html:26`).
* A logout whose UPDATE fails is answered as if it had revoked the session
  (`session.go:121`, `openapi.yaml:66`).
* Of two overlapping settings requests the later may store an SMTP password
  again that the earlier removed (`email/service.go:83`, `API.md:410`).
* The SMTP timeouts that the settings allow exceed the server's WriteTimeout
  (`main.go:102`): the creator of a stored link may never get its URL
  (`docs/DEVELOPER_GUIDE.md:169`).
* An update of a user that read the row before a disable writes `active` back
  (`users.go:311-348`, `admin.js:732`); the user page sends every field of its
  form, a stale status included (`admin.js:698`).
* Escape answers a confirmation as the last button pressed on the page did
  (`admin.js:630`): after one Confirm it means yes.
* The answer to an earlier link's revocation disables the button of the link
  shown by then (`admin.js:470`).
* A create whose response is lost has no `catch` (`admin.js:438`): the page says
  for ever that it is creating a link, which may exist.
* Setting and removing a password at once: the badge shows the answer that came
  last, which need not be what is stored (`admin.js:587`, `616`).
* A button of the API clients stays disabled after a network failure
  (`admin.js:836`), and so does Revoke of a link, which after any refusal says
  `Unavailable` (`admin.js:646`).
* Disable leaves the form's checkbox as it is, so that the next Test connection
  saves `enabled` again (`admin.js:1026`); a password typed while a save is out
  is emptied by its answer (`admin.js:961`).
* A password change answers with a new CSRF token (`server.go:853`), which the
  page does not read (`admin.js:879`): until it is loaded again its calls and
  its logout are refused.
* A field name of more than 100 characters passes the form and not the server
  (`admin.js:298`, `service.go:447`).
* Replicas with different bootstrap names that start together create an
  administrator each (`users.go:194`, `README.md:84`).

## 7. What is not modelled

* **Vault and cryptography**: encryption, HMAC and Argon2 are functions without
  collisions; Vault answers or does not.
* **Roles and scopes, cookies' signatures**: decided from one request and a
  fixed table, without a state of their own.
* **Expiry of sessions, identity of users, width of lifetimes**: see the plan.
  A lifetime wraps around in 64 bits of nanoseconds (`service.go:387`), which
  TLC cannot calculate.
* **Lists, dashboards, audit events, metrics**: reads and appends that no
  decision depends on.
* **Of the administration pages**: the forms of the user administration, the
  login and the public experience, each one call whose answer is shown; the
  e-mail's retry and preview; the navigation drawer, the theme, times, labels
  and toasts.
* **Templates, languages, navigation**: text and layout.
* **Configuration**: read once; its values are the modules' constants.
* **Deployment, scripts, examples, vendored code**: not this program.
