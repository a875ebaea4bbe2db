---------------------------- MODULE ConfirmDialog ----------------------------
(***************************************************************************)
(* The confirmation dialog that the handlers of a page share               *)
(* (web/static/admin.js, confirmAction), and the life of a fetch.  The     *)
(* dialog is one element: its returnValue is what the last button wrote,   *)
(* and closing it with Escape writes nothing.  A page without the element  *)
(* (account, users) falls back to window.confirm, which is one step.       *)
(***************************************************************************)
CONSTANT Null

VARIABLE dialog     \* of the loaded page

(* A fetch on its way to the server, and the answer on its way back.       *)
Fetch == {"none", "sent", "ok", "refused"}

(* What the pages ask. *)
Questions == {"revoke link", "remove password", "revoke secret",
              "disable", "enable", "rotate-secret", "revoke"}

Buttons == {"confirm", "cancel", "escape"}

DialogTypeOK ==
    dialog \in [question : Questions \cup {"none"},
                value    : {"", "confirm", "cancel"},
                confirmed: BOOLEAN]     \* Confirm pressed (history)

FreshDialog == [question |-> "none", value |-> "", confirmed |-> FALSE]

(* An open dialog makes the page around it inert; answers still arrive.    *)
Clickable == dialog.question = "none"

(* showModal() *)
Ask(question) ==
    /\ Clickable
    /\ dialog' = [dialog EXCEPT !.question = question]

(* Mutant: Escape writes its own name. *)
ReturnedRaw(button) == button

Returned(button) == IF button = "escape" THEN dialog.value ELSE button

(* The handler that asked goes on, if it does, in the same step.           *)
Close(question, button) ==
    /\ dialog.question = question
    /\ dialog' = [question  |-> "none",
                  value     |-> Returned(button),
                  confirmed |-> dialog.confirmed \/ button = "confirm"]

(* Mutant: whatever is not a refusal counts as yes. *)
AgreesUnlessCancelled(button) == Returned(button) # "cancel"

Agrees(button) == Returned(button) = "confirm"
=============================================================================
