----------------------------- MODULE ClientPage -----------------------------
(***************************************************************************)
(* The pages of API clients (web/static/admin.js, setupAPIClients): the    *)
(* form that creates one and the page that manages one, both with a panel  *)
(* that shows a secret once.  The server's answers are those of ApiClients *)
(* with the two statements of a handler taken together; what a reload      *)
(* abandons may still arrive, as a change by others.                       *)
(***************************************************************************)
EXTENDS ConfirmDialog, Naturals

CONSTANT MaxSecrets     \* bounds the secrets drawn

ASSUME ClientPageAssumption == MaxSecrets \in Nat

VARIABLES
    client,     \* the server's row; "new": the page creates clients
    clientPage  \* the page

clientVars == <<client, clientPage>>

Actions == {"create", "disable", "enable", "rotate-secret", "revoke"}
Statuses == {"new", "active", "disabled", "revoked"}
Secrets == 1..MaxSecrets

ClientTypeOK ==
    /\ client \in [status: Statuses, secret: Secrets \cup {0}]
    /\ clientPage \in [loaded: Statuses,            \* as the page was rendered
                       call  : [Actions -> Fetch],
                       busy  : SUBSET Actions,      \* disabled buttons
                       answer: Secrets \cup {0},    \* the secret on its way
                       shown : Secrets \cup {0},    \* in the visible panel
                       others: BOOLEAN]     \* replaced by others (history)

NoClient == [status |-> "new", secret |-> 0]

FreshClientPage(status) ==
    [loaded |-> status, call |-> [a \in Actions |-> "none"], busy |-> {},
     answer |-> 0, shown |-> 0, others |-> FALSE]

(* The buttons of the page, as it was rendered. *)
Offered ==
    CASE clientPage.loaded = "active"   -> {"disable", "rotate-secret", "revoke"}
      [] clientPage.loaded = "disabled" -> {"enable", "rotate-secret", "revoke"}
      [] OTHER                          -> {}

(* Mutant: the panel stays while the call is out. *)
SentVisible(action) ==
    [clientPage EXCEPT !.call[action] = "sent", !.busy = @ \cup {action}]

Sent(action) ==
    [clientPage EXCEPT !.call[action] = "sent", !.busy = @ \cup {action},
                       !.shown = 0]

SubmitClient ==
    /\ clientPage.loaded = "new" /\ Clickable
    /\ "create" \notin clientPage.busy
    /\ clientPage' = Sent("create")
    /\ UNCHANGED <<dialog, client>>

AskAction(action) ==
    /\ action \in Offered \ clientPage.busy
    /\ Ask(action)
    /\ UNCHANGED clientVars

ActionClosed(action, button) ==
    /\ Close(action, button)
    /\ clientPage' = IF Agrees(button) THEN Sent(action) ELSE clientPage
    /\ UNCHANGED client

StatusAfter(action) ==
    CASE action = "disable" -> "disabled"
      [] action = "enable"  -> "active"
      [] action = "revoke"  -> "revoked"
      [] OTHER              -> client.status

Draws(action) == action \in {"create", "rotate-secret"}

Accepts(action) ==
    /\ action \in {"enable", "rotate-secret"} => client.status # "revoked"
    /\ Draws(action) => client.secret < MaxSecrets

ActionArrives(action) ==
    /\ clientPage.call[action] = "sent" /\ Accepts(action)
    /\ client' = [status |-> StatusAfter(action),
                  secret |-> client.secret + (IF Draws(action) THEN 1 ELSE 0)]
    /\ clientPage' = [clientPage EXCEPT
            !.call[action] = "ok",
            !.answer = IF Draws(action) THEN client'.secret ELSE @,
            !.others = @ /\ ~Draws(action)]
    /\ UNCHANGED dialog

ActionRefused(action) ==
    /\ clientPage.call[action] = "sent"
    /\ clientPage' = [clientPage EXCEPT !.call[action] = "refused"]
    /\ UNCHANGED <<dialog, client>>

Answered(action) ==
    [clientPage EXCEPT !.call[action] = "none", !.busy = @ \ {action}]

(* The panel, with an empty secret if the body broke off. *)
ShowCredentials(action) ==
    \E secret \in {clientPage.answer, 0} :
        clientPage' = [Answered(action) EXCEPT !.shown = secret, !.answer = 0]

(* A new status is shown by reloading the page. *)
ActionAnswered(action) ==
    /\ \/ clientPage.call[action] = "refused" /\ clientPage' = Answered(action)
       \/ /\ clientPage.call[action] = "ok"
          /\ IF Draws(action) THEN ShowCredentials(action)
                              ELSE clientPage' = FreshClientPage(client.status)
    /\ dialog' = IF clientPage.call[action] = "ok" /\ ~Draws(action)
                 THEN FreshDialog ELSE dialog
    /\ UNCHANGED client

(* The form's button comes back; there is no finally for the others.       *)
ActionLost(action) ==
    /\ clientPage.call[action] # "none"
    /\ clientPage' = [clientPage EXCEPT
            !.call[action] = "none",
            !.busy = IF action = "create" THEN @ \ {action} ELSE @,
            !.answer = IF Draws(action) THEN 0 ELSE @]
    /\ UNCHANGED <<dialog, client>>

OthersAct(action) ==
    /\ client.status # "new" /\ action # "create" /\ Accepts(action)
    /\ client' = [status |-> StatusAfter(action),
                  secret |-> client.secret + (IF Draws(action) THEN 1 ELSE 0)]
    /\ clientPage' = [clientPage EXCEPT !.others = @ \/ Draws(action)]
    /\ UNCHANGED dialog

ClientNext ==
    \/ SubmitClient
    \/ \E action \in Actions :
          \/ AskAction(action)
          \/ \E button \in Buttons : ActionClosed(action, button)
          \/ ActionArrives(action) \/ ActionRefused(action)
          \/ ActionAnswered(action) \/ ActionLost(action)
          \/ OthersAct(action)

---------------------------------------------------------------------------
(* A secret that a page shows is the one the server accepts, although the  *)
(* page may rotate it again, lose the answer and go on: the panel is       *)
(* hidden before each call.  Only a rotation by others makes it stale      *)
(* (web/static/admin.js, 772-858).                                         *)
ShownSecretWorks ==
    clientPage.shown # 0 /\ ~clientPage.others => clientPage.shown = client.secret
=============================================================================
