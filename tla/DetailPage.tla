----------------------------- MODULE DetailPage -----------------------------
(***************************************************************************)
(* The page of one active link (web/static/admin.js,                       *)
(* setupPasswordProtection and setupRevokeButtons): it sets, replaces and  *)
(* removes the link's password, and revokes it.  The three calls may be    *)
(* out together; whoever else manages the link does so meanwhile.          *)
(***************************************************************************)
EXTENDS ConfirmDialog

VARIABLES
    secret,     \* the server's row
    detail      \* the page

detailVars == <<secret, detail>>

SecretRecords == [active: BOOLEAN, protected: BOOLEAN]

DetailTypeOK ==
    /\ secret \in SecretRecords
    /\ detail \in [says  : BOOLEAN,         \* protected, as the page has it
                   save  : Fetch,           \* PUT password
                   remove: Fetch,           \* DELETE password
                   revoke: Fetch,
                   button: {"Revoke", "disabled", "Revoked", "Unavailable"},
                   missed: BOOLEAN]         \* a change it was not told (history)

FreshDetail(row) ==
    [says |-> row.protected, save |-> "none", remove |-> "none",
     revoke |-> "none", button |-> "Revoke", missed |-> FALSE]

SetDetail(field, value) == detail' = [detail EXCEPT ![field] = value]

---------------------------------------------------------------------------
(* The password of the link *)

SubmitSave ==
    /\ Clickable /\ detail.save = "none"
    /\ SetDetail("save", "sent")
    /\ UNCHANGED <<dialog, secret>>

(* The button is there while the page says that there is a password. *)
AskRemove ==
    /\ detail.says /\ detail.remove = "none"
    /\ Ask("remove password")
    /\ UNCHANGED detailVars

RemoveClosed(button) ==
    /\ Close("remove password", button)
    /\ SetDetail("remove", IF Agrees(button) THEN "sent" ELSE detail.remove)
    /\ UNCHANGED secret

(* call: "save" or "remove".  The server refuses an inactive link; a short *)
(* password or a failing dependency is refused too.                        *)
ProtectionArrives(call) ==
    /\ detail[call] = "sent"
    /\ \/ /\ secret.active
          /\ secret' = [secret EXCEPT !.protected = (call = "save")]
          /\ SetDetail(call, "ok")
       \/ SetDetail(call, "refused") /\ UNCHANGED secret
    /\ UNCHANGED dialog

Other(call) == IF call = "save" THEN "remove" ELSE "save"

(* The answers of two calls may come in the other order than their         *)
(* changes.                                                                *)
Crossed(call) ==
    /\ detail[call] = "ok" /\ detail[Other(call)] = "ok"
    /\ secret.protected = (call = "save")

(* Mutant: a refused call updates the page as well. *)
UpdateProtectionAnyhow(call) == call = "save"

(* What updateProtectionUI leaves, if it is called. *)
UpdateProtectionUI(call) ==
    IF detail[call] = "ok" THEN call = "save" ELSE detail.says

ProtectionAnswered(call) ==
    /\ detail[call] \in {"ok", "refused"}
    /\ detail' = [detail EXCEPT ![call] = "none",
                                !.says = UpdateProtectionUI(call),
                                !.missed = @ \/ Crossed(call)]
    /\ UNCHANGED <<dialog, secret>>

ProtectionLost(call) ==
    /\ detail[call] # "none"
    /\ detail' = [detail EXCEPT ![call] = "none",
                                !.missed = @ \/ detail[call] = "ok"]
    /\ UNCHANGED <<dialog, secret>>

---------------------------------------------------------------------------
(* Revoking the link *)

AskRevokeSecret ==
    /\ detail.button = "Revoke"
    /\ Ask("revoke secret")
    /\ UNCHANGED detailVars

RevokeSecretClosed(button) ==
    /\ Close("revoke secret", button)
    /\ IF Agrees(button)
       THEN detail' = [detail EXCEPT !.button = "disabled", !.revoke = "sent"]
       ELSE UNCHANGED detail
    /\ UNCHANGED secret

RevokeSecretArrives ==
    /\ detail.revoke = "sent"
    /\ \/ /\ secret.active
          /\ secret' = [secret EXCEPT !.active = FALSE]
          /\ SetDetail("revoke", "ok")
       \/ SetDetail("revoke", "refused") /\ UNCHANGED secret
    /\ UNCHANGED dialog

(* Whatever the reason of a refusal, the button then says Unavailable. *)
RevokeSecretAnswered ==
    /\ detail.revoke \in {"ok", "refused"}
    /\ detail' = [detail EXCEPT
            !.revoke = "none",
            !.button = IF detail.revoke = "ok" THEN "Revoked" ELSE "Unavailable"]
    /\ UNCHANGED <<dialog, secret>>

(* No catch: the button stays disabled with its text. *)
RevokeSecretLost ==
    /\ detail.revoke # "none"
    /\ SetDetail("revoke", "none")
    /\ UNCHANGED <<dialog, secret>>

(* Opened, expired, revoked or its password changed by others. *)
OthersManage ==
    /\ secret.active
    /\ secret' \in SecretRecords \ {secret}
    /\ SetDetail("missed", detail.missed \/ secret'.protected # secret.protected)
    /\ UNCHANGED dialog

DetailNext ==
    \/ SubmitSave \/ AskRemove \/ AskRevokeSecret
    \/ \E button \in Buttons : RemoveClosed(button) \/ RevokeSecretClosed(button)
    \/ \E call \in {"save", "remove"} :
          ProtectionArrives(call) \/ ProtectionAnswered(call) \/ ProtectionLost(call)
    \/ RevokeSecretArrives \/ RevokeSecretAnswered \/ RevokeSecretLost
    \/ OthersManage

---------------------------------------------------------------------------
(* Once no change of its own is on the way back, the page says of an       *)
(* active link whether it has a password as the server has it, and a link  *)
(* it calls revoked is; except after a change by others, one whose answer  *)
(* was lost, and two whose answers crossed (web/static/admin.js, 546-621). *)
SaysWhatIsStored ==
    /\ secret.active /\ detail.save # "ok" /\ detail.remove # "ok" /\ ~detail.missed
           => detail.says = secret.protected
    /\ detail.button = "Revoked" => ~secret.active
=============================================================================
