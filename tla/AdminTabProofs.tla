--------------------------- MODULE AdminTabProofs ---------------------------
(***************************************************************************)
(* Safety of the administration pages, for every number of links, names,   *)
(* secrets and sessions.                                                   *)
(***************************************************************************)
EXTENDS AdminTab, TLAPS, SequenceTheorems

(* What a page does to the dialog: nothing, or it asks, is answered or is  *)
(* loaded again.                                                           *)
DialogStep(questions) ==
    \/ UNCHANGED dialog
    \/ \E question \in questions : Ask(question)
    \/ \E question \in questions, button \in Buttons : Close(question, button)
    \/ dialog' = FreshDialog

DialogInv ==
    /\ DialogTypeOK
    /\ dialog.value = "confirm" => dialog.confirmed

LEMMA DialogSteps ==
    ASSUME NEW questions \in SUBSET Questions, DialogInv, DialogStep(questions)
    PROVE  DialogInv'
<1> USE DEF DialogInv, DialogTypeOK
<1>1. CASE UNCHANGED dialog
  BY <1>1
<1>2. ASSUME NEW question \in questions, Ask(question)
      PROVE  DialogInv'
  BY <1>2 DEF Ask
<1>3. ASSUME NEW question \in questions, NEW button \in Buttons,
             Close(question, button)
      PROVE  DialogInv'
  <2>1. dialog' = [question |-> "none", value |-> Returned(button),
                   confirmed |-> dialog.confirmed \/ button = "confirm"]
    BY <1>3 DEF Close
  <2>2. /\ Returned(button) \in {"", "confirm", "cancel"}
        /\ Returned(button) = "confirm" => dialog.confirmed \/ button = "confirm"
    BY DEF Returned, Buttons
  <2> QED
    BY <2>1, <2>2
<1>4. CASE dialog' = FreshDialog
  BY <1>4 DEF FreshDialog
<1> QED
  BY <1>1, <1>2, <1>3, <1>4 DEF DialogStep

(* A handler that goes on after its question was answered has seen, or     *)
(* inherited, a Confirm.                                                   *)
LEMMA AgreedIsConfirmed ==
    ASSUME DialogInv, NEW question, NEW button \in Buttons,
           Close(question, button), Agrees(button)
    PROVE  dialog'.confirmed
BY DEF DialogInv, DialogTypeOK, Close, Agrees, Returned, Buttons

---------------------------------------------------------------------------
(* The page that creates links *)

(* While its call is out there is no panel, and while it asks about a link *)
(* that link is the one it shows and createdID names.                      *)
CreateInv ==
    /\ CreateTypeOK
    /\ PanelNamesOneLink
    /\ Len(create.rows) <= MaxFields
    /\ create.made # Null => links[create.made] # "none"
    /\ create.call # "none" => ~create.open
    /\ dialog.question = "revoke link" =>
          /\ create.open /\ create.id # Null /\ create.asked = create.shown
          /\ revokes[create.id] = "none"

LEMMA RowsEdited ==
    ASSUME CreateInv, NEW rows \in Seq(Names), Len(rows) <= MaxFields, Edit(rows),
           CreateAssumption
    PROVE  CreateInv'
BY DEF CreateInv, CreateTypeOK, PanelNamesOneLink, Edit, Clickable,
       CreateAssumption

LEMMA NoRowsFit ==
    ASSUME NEW rows, rows = <<>>
    PROVE  rows \in Seq(Names) /\ Len(rows) <= MaxFields
<1>1. rows \in Seq(Names) /\ Len(rows) = 0
  BY EmptySeq, Zenon
<1>2. 0 <= MaxFields
  BY CreateAssumption DEF CreateAssumption
<1> QED
  BY <1>1, <1>2

(* The revocation of one link moves, and the link may end. *)
LEMMA RevokeMoved ==
    ASSUME CreateInv, NEW l \in Links, NEW stage \in Fetch, revokes[l] # "none",
           revokes' = [revokes EXCEPT ![l] = stage],
           links' = links \/ links' = [links EXCEPT ![l] = "ended"],
           create' = create \/ create' = [create EXCEPT !.revocable = FALSE],
           UNCHANGED dialog
    PROVE  CreateInv'
<1>1. CreateTypeOK
  BY DEF CreateInv
<1>2. /\ revokes' \in [Links -> Fetch]
      /\ \A k \in Links : k # l => revokes'[k] = revokes[k]
  BY <1>1 DEF CreateTypeOK
<1>3. /\ links' \in [Links -> {"none", "active", "ended"}]
      /\ \A k \in Links : links[k] # "none" => links'[k] # "none"
  BY <1>1 DEF CreateTypeOK
<1>4. /\ create'.id = create.id /\ create'.made = create.made
      /\ create'.shown = create.shown /\ create'.open = create.open
      /\ create'.call = create.call /\ create'.asked = create.asked
      /\ create'.rows = create.rows
  BY <1>1 DEF CreateTypeOK
<1>5. CreateTypeOK'
  BY <1>1, <1>2, <1>3 DEF CreateTypeOK
<1>6. create.id \in Links \cup {Null} /\ create.made \in Links \cup {Null}
  BY <1>1 DEF CreateTypeOK
<1>7. PanelNamesOneLink'
  BY <1>3, <1>4, <1>6 DEF CreateInv, PanelNamesOneLink
<1>8. /\ Len(create'.rows) <= MaxFields
      /\ create'.made # Null => links'[create'.made] # "none"
      /\ create'.call # "none" => ~create'.open
  BY <1>3, <1>4, <1>6 DEF CreateInv
<1>9. dialog'.question = "revoke link" =>
          /\ create'.open /\ create'.id # Null /\ create'.asked = create'.shown
          /\ revokes'[create'.id] = "none"
  BY <1>2, <1>4, <1>6 DEF CreateInv
<1> QED
  BY <1>5, <1>7, <1>8, <1>9 DEF CreateInv

LEMMA CreateSteps ==
    ASSUME CreateInv, CreateNext
    PROVE  /\ CreateInv'
           /\ DialogStep({"revoke link"})
<1> USE CreateAssumption DEF CreateAssumption
<1>0. /\ create.rows \in Seq(Names) /\ DOMAIN create.rows = 1..Len(create.rows)
      /\ Len(create.rows) \in Nat /\ Len(create.rows) <= MaxFields
  BY LenProperties DEF CreateInv, CreateTypeOK
<1>a. ASSUME NEW rows, Edit(rows), rows \in Seq(Names), Len(rows) <= MaxFields
      PROVE  CreateInv' /\ DialogStep({"revoke link"})
  BY <1>a, RowsEdited DEF Edit, DialogStep
<1>1. ASSUME NEW name \in Presets \cup {Blank}, AddStructuredField(name)
      PROVE  CreateInv' /\ DialogStep({"revoke link"})
  <2>1. Lower[name] \in Names
    OBVIOUS
  <2>2. /\ Append(create.rows, Lower[name]) \in Seq(Names)
        /\ Len(Append(create.rows, Lower[name])) <= MaxFields
    BY <1>0, <1>1, <2>1, AppendProperties DEF AddStructuredField
  <2> QED
    BY <1>1, <1>a, <2>2 DEF AddStructuredField
<1>2. ASSUME NEW i \in DOMAIN create.rows, NEW name \in Names, Rename(i, name)
      PROVE  CreateInv' /\ DialogStep({"revoke link"})
  <2>1. /\ [create.rows EXCEPT ![i] = name] \in Seq(Names)
        /\ Len([create.rows EXCEPT ![i] = name]) <= MaxFields
    BY <1>0, ExceptSeq
  <2> QED
    BY <1>2, <1>a, <2>1 DEF Rename
<1>3. ASSUME NEW i \in DOMAIN create.rows, RemoveRow(i)
      PROVE  CreateInv' /\ DialogStep({"revoke link"})
  <2>1. /\ RemoveAt(create.rows, i) \in Seq(Names)
        /\ Len(RemoveAt(create.rows, i)) <= MaxFields
    BY <1>0 DEF RemoveAt
  <2> QED
    BY <1>3, <1>a, <2>1 DEF RemoveRow
<1>4. ASSUME NEW i \in DOMAIN create.rows, MoveRow(i)
      PROVE  CreateInv' /\ DialogStep({"revoke link"})
  <2>1. /\ i \in 1..Len(create.rows) /\ i + 1 \in 1..Len(create.rows)
        /\ create.rows[i] \in Names /\ create.rows[i + 1] \in Names
    BY <1>0, <1>4, ElementOfSeq DEF MoveRow
  <2> DEFINE swapped == [create.rows EXCEPT ![i] = create.rows[i + 1],
                                            ![i + 1] = create.rows[i]]
  <2>2. swapped \in Seq(Names) /\ Len(swapped) = Len(create.rows)
    BY <1>0, <2>1, ExceptSeq
  <2> QED
    BY <1>0, <1>4, <1>a, <2>2 DEF MoveRow
<1>15. ASSUME NEW l \in Links, RevokeArrives(l)
       PROVE  CreateInv' /\ DialogStep({"revoke link"})
  <2>1. /\ revokes[l] # "none" /\ UNCHANGED <<create, dialog>>
        /\ \E stage \in Fetch : revokes' = [revokes EXCEPT ![l] = stage]
        /\ links' = links \/ links' = [links EXCEPT ![l] = "ended"]
    BY <1>15 DEF RevokeArrives, Fetch
  <2> QED
    BY <2>1, RevokeMoved DEF DialogStep
<1>16. ASSUME NEW l \in Links, RevokeAnswered(l)
       PROVE  CreateInv' /\ DialogStep({"revoke link"})
  <2>1. /\ revokes[l] # "none" /\ UNCHANGED <<links, dialog>>
        /\ revokes' = [revokes EXCEPT ![l] = "none"]
    BY <1>16 DEF RevokeAnswered
  <2>2. create' = create \/ create' = [create EXCEPT !.revocable = FALSE]
    <3>1. create' = [create EXCEPT
              !.revocable = create.revocable /\ revokes[l] = "refused"]
      BY <1>16 DEF RevokeAnswered
    <3>2. create = [create EXCEPT !.revocable = create.revocable]
      BY DEF CreateInv, CreateTypeOK
    <3>3. create.revocable \in BOOLEAN
      BY DEF CreateInv, CreateTypeOK
    <3> QED
      BY <3>1, <3>2, <3>3
  <2>3. "none" \in Fetch
    BY DEF Fetch
  <2> QED
    BY <2>1, <2>2, <2>3, RevokeMoved DEF DialogStep
<1>17. ASSUME NEW l \in Links, RevokeLost(l)
       PROVE  CreateInv' /\ DialogStep({"revoke link"})
  <2>1. /\ revokes[l] # "none" /\ UNCHANGED <<create, links, dialog>>
        /\ revokes' = [revokes EXCEPT ![l] = "none"]
    BY <1>17 DEF RevokeLost
  <2>2. "none" \in Fetch
    BY DEF Fetch
  <2> QED
    BY <2>1, <2>2, RevokeMoved DEF DialogStep
<1> USE DEF CreateInv, CreateTypeOK, PanelNamesOneLink
<1>5. CASE SubmitInvalid
  BY <1>5 DEF SubmitInvalid, Submittable, Hidden, Clickable, DialogStep
<1>6. ASSUME NEW kind \in {"structured", "plain"}, Submit(kind)
      PROVE  CreateInv' /\ DialogStep({"revoke link"})
  BY <1>6 DEF Submit, Submittable, Hidden, Clickable, DialogStep
<1>7. CASE PostRefused
  BY <1>7 DEF PostRefused, DialogStep
<1>8. CASE PostAnswered
  <2>1. ASSUME NEW l \in {create.made, Null}, create' = FillResult(l),
               create.call = "ok"
        PROVE  CreateInv'
    <3>1. l \in Links \cup {Null} /\ (l # Null => links[l] # "none")
      BY <2>1
    <3>2. create' = [create EXCEPT
              !.call = "none", !.made = Null, !.status = "created",
              !.id = l, !.shown = l, !.open = TRUE, !.revocable = TRUE]
      BY <2>1 DEF FillResult, Settled
    <3>3. /\ create'.call = "none" /\ create'.made = Null
          /\ create'.id = l /\ create'.shown = l /\ create'.rows = create.rows
          /\ CreateTypeOK'
      BY <1>8, <3>1, <3>2 DEF PostAnswered
    <3> QED
      BY <1>8, <2>1, <3>1, <3>3 DEF PostAnswered
  <2>2. ASSUME create' = Settled("failed") PROVE CreateInv'
    BY <1>8, <2>2 DEF PostAnswered, Settled
  <2> QED
    BY <1>8, <2>1, <2>2 DEF PostAnswered, DialogStep
<1>9. CASE PostLost
  BY <1>9 DEF PostLost, Settled, DialogStep
<1>10. CASE CreateAnother
  <2>1. create'.rows = <<>>
    BY <1>10 DEF CreateAnother, Hidden
  <2>2. create'.rows \in Seq(Names) /\ Len(create'.rows) <= MaxFields
    BY <2>1, NoRowsFit
  <2> QED
    BY <1>10, <2>2 DEF CreateAnother, Hidden, Clickable, DialogStep
<1>11. CASE AskRevoke
  BY <1>11 DEF AskRevoke, Ask, DialogStep
<1>12. ASSUME NEW button \in Buttons, RevokeClosed(button)
       PROVE  CreateInv' /\ DialogStep({"revoke link"})
  BY <1>12 DEF RevokeClosed, Close, Fetch, DialogStep
<1>13. ASSUME NEW l \in Links, PostCreates(l)
       PROVE  CreateInv' /\ DialogStep({"revoke link"})
  BY <1>13 DEF PostCreates, DialogStep
<1>14. ASSUME NEW l \in Links, LinkEnds(l)
       PROVE  CreateInv' /\ DialogStep({"revoke link"})
  <2>1. /\ links' = [links EXCEPT ![l] = "ended"]
        /\ UNCHANGED <<dialog, create, revokes>>
    BY <1>14 DEF LinkEnds
  <2>2. /\ links' \in [Links -> {"none", "active", "ended"}]
        /\ \A k \in Links : links[k] # "none" => links'[k] # "none"
    BY <2>1
  <2> QED
    BY <2>1, <2>2 DEF DialogStep
<1> QED
  BY <1>1, <1>2, <1>3, <1>4, <1>5, <1>6, <1>7, <1>8, <1>9, <1>10, <1>11,
     <1>12, <1>13, <1>14, <1>15, <1>16, <1>17 DEF CreateNext

---------------------------------------------------------------------------
(* The page of one link *)

(* A change on its way back is the last one, unless the page missed        *)
(* another; of two, the one that is not the last is answered first, or     *)
(* they have crossed.                                                      *)
DetailInv ==
    /\ DetailTypeOK
    /\ SaysWhatIsStored
    /\ secret.active /\ ~detail.missed =>
          /\ detail.save = "ok" /\ detail.remove # "ok" => secret.protected
          /\ detail.remove = "ok" /\ detail.save # "ok" => ~secret.protected
    /\ detail.revoke = "ok" => ~secret.active
    /\ dialog.question = "remove password" => detail.remove = "none"

DetailQuestions == {"remove password", "revoke secret"}

LEMMA DetailSteps ==
    ASSUME DetailInv, DetailNext, DialogTypeOK
    PROVE  /\ DetailInv'
           /\ DialogStep(DetailQuestions)
<1> USE DEF DetailInv, DetailTypeOK, SaysWhatIsStored, SecretRecords, Fetch,
            DetailQuestions, SetDetail, DialogTypeOK
<1>1. CASE SubmitSave
  BY <1>1 DEF SubmitSave, DialogStep
<1>2. CASE AskRemove
  BY <1>2 DEF AskRemove, Ask, detailVars, DialogStep
<1>3. CASE AskRevokeSecret
  BY <1>3 DEF AskRevokeSecret, Ask, detailVars, DialogStep
<1>4. ASSUME NEW button \in Buttons, RemoveClosed(button)
      PROVE  DetailInv' /\ DialogStep(DetailQuestions)
  <2>1. /\ UNCHANGED secret /\ DialogStep(DetailQuestions)
        /\ detail.remove = "none" /\ dialog'.question = "none"
        /\ \/ detail' = [detail EXCEPT !["remove"] = "sent"]
           \/ detail' = [detail EXCEPT !["remove"] = detail.remove]
    BY <1>4 DEF RemoveClosed, Close, DialogStep
  <2>2. CASE detail' = [detail EXCEPT !["remove"] = detail.remove]
    BY <2>1, <2>2
  <2>3. CASE detail' = [detail EXCEPT !["remove"] = "sent"]
    BY <2>1, <2>3
  <2> QED
    BY <2>1, <2>2, <2>3
<1>5. ASSUME NEW button \in Buttons, RevokeSecretClosed(button)
      PROVE  DetailInv' /\ DialogStep(DetailQuestions)
  <2>1. /\ UNCHANGED secret /\ DialogStep(DetailQuestions)
        /\ dialog'.question = "none"
        /\ detail' \in {detail, [detail EXCEPT !.button = "disabled", !.revoke = "sent"]}
    <3>1. Close("revoke secret", button)
      BY <1>5 DEF RevokeSecretClosed
    <3>2. DialogStep(DetailQuestions) /\ dialog'.question = "none"
      BY <3>1 DEF Close, DialogStep
    <3> QED
      BY <1>5, <3>2 DEF RevokeSecretClosed
  <2>2. CASE detail' = detail
    <3>1. UNCHANGED <<secret, detail>>
      BY <2>1, <2>2
    <3> HIDE DEF SecretRecords, Fetch
    <3>2. DetailTypeOK'
      BY <3>1
    <3>3. SaysWhatIsStored'
      BY <3>1
    <3> QED
      BY <2>1, <3>1, <3>2, <3>3
  <2>3. CASE detail' = [detail EXCEPT !.button = "disabled", !.revoke = "sent"]
    BY <2>1, <2>3
  <2> QED
    BY <2>1, <2>2, <2>3
<1>6. ASSUME NEW call \in {"save", "remove"}, ProtectionArrives(call)
      PROVE  DetailInv' /\ DialogStep(DetailQuestions)
  <2>0. UNCHANGED dialog /\ DialogStep(DetailQuestions) /\ detail[call] = "sent"
    BY <1>6 DEF ProtectionArrives, DialogStep
  <2>1. CASE /\ secret.active
             /\ secret' = [secret EXCEPT !.protected = (call = "save")]
             /\ detail' = [detail EXCEPT ![call] = "ok"]
    <3>1. CASE call = "save"
      BY <2>0, <2>1, <3>1
    <3>2. CASE call = "remove"
      BY <2>0, <2>1, <3>2
    <3> QED
      BY <3>1, <3>2
  <2>2. CASE UNCHANGED secret /\ detail' = [detail EXCEPT ![call] = "refused"]
    <3>1. CASE call = "save"
      BY <2>0, <2>2, <3>1
    <3>2. CASE call = "remove"
      BY <2>0, <2>2, <3>2
    <3> QED
      BY <3>1, <3>2
  <2> QED
    BY <1>6, <2>1, <2>2 DEF ProtectionArrives
<1>7. ASSUME NEW call \in {"save", "remove"}, ProtectionAnswered(call)
      PROVE  DetailInv' /\ DialogStep(DetailQuestions)
  <2>0. UNCHANGED <<dialog, secret>> /\ DialogStep(DetailQuestions)
    BY <1>7 DEF ProtectionAnswered, DialogStep
  <2>1. ASSUME call = "save"
        PROVE  DetailInv'
    <3>1. CASE detail.save = "ok"
      <4>1. detail' = [detail EXCEPT
                !.save = "none", !.says = TRUE,
                !.missed = @ \/ (detail.remove = "ok" /\ secret.protected)]
        BY <1>7, <2>1, <3>1
           DEF ProtectionAnswered, UpdateProtectionUI, Crossed, Other
      <4> QED
        BY <2>0, <3>1, <4>1
    <3>2. CASE detail.save = "refused"
      <4>1. detail' = [detail EXCEPT
                !.save = "none", !.says = detail.says, !.missed = @ \/ FALSE]
        BY <1>7, <2>1, <3>2
           DEF ProtectionAnswered, UpdateProtectionUI, Crossed
      <4> QED
        BY <2>0, <3>2, <4>1
    <3> QED
      BY <1>7, <2>1, <3>1, <3>2 DEF ProtectionAnswered
  <2>2. ASSUME call = "remove"
        PROVE  DetailInv'
    <3>1. CASE detail.remove = "ok"
      <4>1. detail' = [detail EXCEPT
                !.remove = "none", !.says = FALSE,
                !.missed = @ \/ (detail.save = "ok" /\ ~secret.protected)]
        BY <1>7, <2>2, <3>1
           DEF ProtectionAnswered, UpdateProtectionUI, Crossed, Other
      <4> QED
        BY <2>0, <3>1, <4>1
    <3>2. CASE detail.remove = "refused"
      <4>1. detail' = [detail EXCEPT
                !.remove = "none", !.says = detail.says, !.missed = @ \/ FALSE]
        BY <1>7, <2>2, <3>2
           DEF ProtectionAnswered, UpdateProtectionUI, Crossed
      <4> QED
        BY <2>0, <3>2, <4>1
    <3> QED
      BY <1>7, <2>2, <3>1, <3>2 DEF ProtectionAnswered
  <2> QED
    BY <2>0, <2>1, <2>2
<1>8. ASSUME NEW call \in {"save", "remove"}, ProtectionLost(call)
      PROVE  DetailInv' /\ DialogStep(DetailQuestions)
  <2>0. UNCHANGED <<dialog, secret>> /\ DialogStep(DetailQuestions)
    BY <1>8 DEF ProtectionLost, DialogStep
  <2>1. CASE call = "save"
    <3>1. detail' = [detail EXCEPT !.save = "none",
                                   !.missed = @ \/ detail.save = "ok"]
      BY <1>8, <2>1 DEF ProtectionLost
    <3>2. CASE detail.save = "ok"
      BY <2>0, <3>1, <3>2
    <3>3. CASE detail.save # "ok"
      <4>1. detail' = [detail EXCEPT !.save = "none"]
        BY <3>1, <3>3
      <4>2. DetailTypeOK' /\ SaysWhatIsStored'
        BY <2>0, <3>3, <4>1
      <4> QED
        BY <2>0, <3>3, <4>1, <4>2
    <3> QED
      BY <3>2, <3>3
  <2>2. CASE call = "remove"
    <3>1. detail' = [detail EXCEPT !.remove = "none",
                                   !.missed = @ \/ detail.remove = "ok"]
      BY <1>8, <2>2 DEF ProtectionLost
    <3>2. CASE detail.remove = "ok"
      BY <2>0, <3>1, <3>2
    <3>3. CASE detail.remove # "ok"
      <4>1. detail' = [detail EXCEPT !.remove = "none"]
        BY <3>1, <3>3
      <4>2. DetailTypeOK' /\ SaysWhatIsStored'
        BY <2>0, <3>3, <4>1
      <4> QED
        BY <2>0, <3>3, <4>1, <4>2
    <3> QED
      BY <3>2, <3>3
  <2> QED
    BY <2>1, <2>2
<1>9. CASE RevokeSecretArrives
  <2>0. UNCHANGED dialog /\ DialogStep(DetailQuestions) /\ detail.revoke = "sent"
    BY <1>9 DEF RevokeSecretArrives, DialogStep
  <2>1. CASE /\ secret.active /\ secret' = [secret EXCEPT !.active = FALSE]
             /\ detail' = [detail EXCEPT !["revoke"] = "ok"]
    BY <2>0, <2>1
  <2>2. CASE UNCHANGED secret /\ detail' = [detail EXCEPT !["revoke"] = "refused"]
    BY <2>0, <2>2
  <2> QED
    BY <1>9, <2>1, <2>2 DEF RevokeSecretArrives
<1>10. CASE RevokeSecretAnswered
  BY <1>10 DEF RevokeSecretAnswered, DialogStep
<1>11. CASE RevokeSecretLost
  BY <1>11 DEF RevokeSecretLost, DialogStep
<1>12. CASE OthersManage
  BY <1>12 DEF OthersManage, DialogStep
<1> QED
  BY <1>1, <1>2, <1>3, <1>4, <1>5, <1>6, <1>7, <1>8, <1>9, <1>10, <1>11,
     <1>12 DEF DetailNext

---------------------------------------------------------------------------
(* The pages of API clients *)

(* A page draws secrets with one button only. *)
ButtonsOfPage ==
    /\ clientPage.loaded = "new" => clientPage.call["rotate-secret"] = "none"
    /\ clientPage.loaded # "new" => clientPage.call["create"] = "none"
    /\ dialog.question = "rotate-secret" => clientPage.loaded # "new"

(* It shows none while one is being drawn; the one on its way back is the  *)
(* one in force.                                                           *)
SecretOnItsWay ==
    \A action \in {"create", "rotate-secret"} :
        /\ clientPage.call[action] # "none" => clientPage.shown = 0
        /\ clientPage.call[action] = "ok" /\ ~clientPage.others
              => clientPage.answer = client.secret

ClientInv ==
    /\ ClientTypeOK
    /\ ShownSecretWorks
    /\ ButtonsOfPage
    /\ SecretOnItsWay

ClientQuestions == Actions \ {"create"}

Drawing == {"create", "rotate-secret"}

(* A step on one call, which moves to stage. *)
CallMoves(action, stage) ==
    /\ clientPage'.loaded = clientPage.loaded
    /\ clientPage'.call = [clientPage.call EXCEPT ![action] = stage]

LEMMA CallMoved ==
    ASSUME ClientTypeOK, NEW action \in Actions, NEW stage, CallMoves(action, stage)
    PROVE  /\ \A a \in Drawing : clientPage'.call[a] =
                  IF a = action THEN stage ELSE clientPage.call[a]
           /\ clientPage'.loaded = clientPage.loaded
<1>1. clientPage.call \in [Actions -> Fetch] /\ Drawing \subseteq Actions
  BY DEF ClientTypeOK, Drawing, Actions
<1> QED
  BY <1>1 DEF CallMoves

LEMMA ButtonsKept ==
    ASSUME ClientTypeOK, ButtonsOfPage, NEW action \in Actions, NEW stage,
           CallMoves(action, stage),
           dialog'.question \in {dialog.question, "none"},
           stage # "none" => clientPage.call[action] # "none" \/
              /\ action = "create" => clientPage.loaded = "new"
              /\ action = "rotate-secret" => clientPage.loaded # "new"
    PROVE  ButtonsOfPage'
BY CallMoved DEF ButtonsOfPage, Drawing

(* A step that draws nothing and shows nothing new. *)
LEMMA QuietCall ==
    ASSUME ClientInv, NEW action \in Actions, NEW stage,
           CallMoves(action, stage), client'.secret = client.secret,
           stage = "ok" => action \notin Drawing,
           clientPage'.others = clientPage.others,
           clientPage'.answer = clientPage.answer \/ action \in Drawing,
           \/ clientPage'.shown = 0
           \/ /\ clientPage'.shown = clientPage.shown
              /\ stage # "none" => action \notin Drawing \/ clientPage.shown = 0,
           action \in Drawing => \A a \in Drawing \ {action} :
              clientPage.call[a] = "none"
    PROVE  ShownSecretWorks' /\ SecretOnItsWay'
<1>1. ShownSecretWorks'
  BY DEF ClientInv, ShownSecretWorks
<1>2. \A a \in Drawing :
        clientPage'.call[a] = IF a = action THEN stage ELSE clientPage.call[a]
  BY CallMoved DEF ClientInv
<1>3. SecretOnItsWay
  BY DEF ClientInv
<1> QED
  BY <1>1, <1>2, <1>3 DEF SecretOnItsWay, Drawing

(* Of the two buttons that draw, the page has one. *)
LEMMA OneDraws ==
    ASSUME ClientInv, NEW action \in Drawing,
           clientPage.call[action] # "none"
              \/ (clientPage.loaded = "new" <=> action = "create")
    PROVE  \A a \in Drawing \ {action} : clientPage.call[a] = "none"
BY DEF ClientInv, ButtonsOfPage, Drawing

LEMMA DrawsDrawing == ASSUME NEW a PROVE Draws(a) <=> a \in Drawing
BY DEF Draws, Drawing

(* A page of a client, field by field. *)
LEMMA ClientTyped ==
    ASSUME NEW call \in [Actions -> Fetch], NEW busy \in SUBSET Actions,
           NEW answer \in Secrets \cup {0}, NEW shown \in Secrets \cup {0},
           NEW others \in BOOLEAN, NEW loaded \in Statuses,
           clientPage' = [loaded |-> loaded, call |-> call, busy |-> busy,
                          answer |-> answer, shown |-> shown,
                          others |-> others],
           client' \in [status: Statuses, secret: Secrets \cup {0}]
    PROVE  ClientTypeOK'
BY DEF ClientTypeOK

LEMMA ClientSteps ==
    ASSUME ClientInv, ClientNext, DialogTypeOK
    PROVE  /\ ClientInv'
           /\ DialogStep(ClientQuestions)
<1>t. /\ client \in [status: Statuses, secret: Secrets \cup {0}]
      /\ clientPage \in [loaded: Statuses, call: [Actions -> Fetch],
                         busy: SUBSET Actions, answer: Secrets \cup {0},
                         shown: Secrets \cup {0}, others: BOOLEAN]
      /\ ClientTypeOK /\ ButtonsOfPage /\ ShownSecretWorks /\ SecretOnItsWay
  BY DEF ClientInv, ClientTypeOK
<1>c. /\ \A a \in Actions, stage \in Fetch :
            [clientPage.call EXCEPT ![a] = stage] \in [Actions -> Fetch]
      /\ {"none", "sent", "ok", "refused"} \subseteq Fetch
  BY <1>t DEF Fetch
<1>0. "create" \notin Questions
  BY DEF Questions
<1>s. ASSUME NEW action \in Actions, clientPage' = Sent(action),
             UNCHANGED client, dialog'.question \in {dialog.question, "none"},
             action = "create" => clientPage.loaded = "new",
             action = "rotate-secret" => clientPage.loaded # "new"
      PROVE  ClientInv'
  <2>1. clientPage' = [clientPage EXCEPT
            !.call = [clientPage.call EXCEPT ![action] = "sent"],
            !.busy = clientPage.busy \cup {action}, !.shown = 0]
    BY <1>s DEF Sent
  <2>2. ClientTypeOK'
    <3>1. clientPage' = [loaded |-> clientPage.loaded,
              call |-> [clientPage.call EXCEPT ![action] = "sent"],
              busy |-> clientPage.busy \cup {action},
              answer |-> clientPage.answer, shown |-> 0,
              others |-> clientPage.others]
      BY <1>t, <2>1
    <3> QED
      BY <1>c, <1>t, <1>s, <3>1, ClientTyped
  <2>3. /\ CallMoves(action, "sent") /\ clientPage'.shown = 0
        /\ clientPage'.others = clientPage.others
        /\ clientPage'.answer = clientPage.answer
    BY <1>t, <2>1 DEF CallMoves
  <2>4. ButtonsOfPage'
    BY <1>s, <1>t, <2>3, ButtonsKept
  <2>5. action \in Drawing => \A a \in Drawing \ {action} : clientPage.call[a] = "none"
    BY <1>s, OneDraws DEF Drawing
  <2>6. ShownSecretWorks' /\ SecretOnItsWay'
    BY <1>s, <2>3, <2>5, QuietCall
  <2> QED
    BY <2>2, <2>4, <2>6 DEF ClientInv
<1>1. CASE SubmitClient
  <2>1. "create" \in Actions /\ "create" # "rotate-secret"
    BY DEF Actions
  <2>2. ClientInv'
    BY <1>1, <1>s, <2>1 DEF SubmitClient
  <2> QED
    BY <1>1, <2>2 DEF SubmitClient, DialogStep
<1>2. ASSUME NEW action \in Actions, AskAction(action)
      PROVE  ClientInv' /\ DialogStep(ClientQuestions)
  <2>1. action # "create" /\ clientPage.loaded # "new" /\ action \in ClientQuestions
    BY <1>2 DEF AskAction, Offered, ClientQuestions
  <2>2. UNCHANGED clientVars /\ dialog'.question = action /\ Ask(action)
    BY <1>2 DEF AskAction, Ask, DialogTypeOK
  <2>3. ButtonsOfPage'
    BY <1>t, <2>1, <2>2 DEF ButtonsOfPage, clientVars
  <2>4. ClientTypeOK'
    BY <1>t, <2>2 DEF ClientTypeOK, clientVars
  <2>5. ShownSecretWorks' /\ SecretOnItsWay'
    BY <1>t, <2>2 DEF ShownSecretWorks, SecretOnItsWay, clientVars
  <2> QED
    BY <2>1, <2>2, <2>3, <2>4, <2>5 DEF ClientInv, DialogStep
<1>3. ASSUME NEW action \in Actions, NEW button \in Buttons,
             ActionClosed(action, button)
      PROVE  ClientInv' /\ DialogStep(ClientQuestions)
  <2>1. /\ action # "create" /\ action \in ClientQuestions
        /\ dialog'.question = "none"
        /\ action = "rotate-secret" => clientPage.loaded # "new"
        /\ UNCHANGED client
        /\ clientPage' = Sent(action) \/ UNCHANGED clientPage
        /\ Close(action, button)
    BY <1>0, <1>3, <1>t
       DEF ActionClosed, Close, DialogTypeOK, ButtonsOfPage, ClientQuestions
  <2>2. ASSUME UNCHANGED clientPage
        PROVE  ClientInv'
    <3>1. ButtonsOfPage'
      BY <1>t, <2>1, <2>2 DEF ButtonsOfPage
    <3>2. ClientTypeOK'
      BY <1>t, <2>1, <2>2 DEF ClientTypeOK
    <3>3. ShownSecretWorks' /\ SecretOnItsWay'
      BY <1>t, <2>1, <2>2 DEF ShownSecretWorks, SecretOnItsWay
    <3> QED
      BY <3>1, <3>2, <3>3 DEF ClientInv
  <2>3. ASSUME clientPage' = Sent(action)
        PROVE  ClientInv'
    BY <1>s, <2>1, <2>3
  <2> QED
    BY <2>1, <2>2, <2>3 DEF DialogStep
<1>4. ASSUME NEW action \in Actions, ActionArrives(action)
      PROVE  ClientInv' /\ DialogStep(ClientQuestions)
  <2>1. /\ StatusAfter(action) \in Statuses
        /\ clientPage.call[action] = "sent" /\ UNCHANGED dialog
    BY <1>4, <1>t DEF StatusAfter, ActionArrives, Statuses
  <2>2. CASE Draws(action)
    <3>1. /\ client.secret + 1 \in Secrets
          /\ client' = [status |-> StatusAfter(action), secret |-> client.secret + 1]
          /\ client'.secret = client.secret + 1
      <4>1. (IF Draws(action) THEN 1 ELSE 0) = 1 /\ client.secret < MaxSecrets
        BY <1>4, <2>2 DEF ActionArrives, Accepts
      <4>2. client.secret + 1 \in Secrets
        BY <1>t, <4>1, ClientPageAssumption DEF Secrets, ClientPageAssumption
      <4>3. client' = [status |-> StatusAfter(action), secret |-> client.secret + 1]
        BY <1>4, <4>1 DEF ActionArrives
      <4> QED
        BY <4>2, <4>3
    <3>2. clientPage' = [clientPage EXCEPT
              !.call = [clientPage.call EXCEPT ![action] = "ok"],
              !.answer = client.secret + 1, !.others = FALSE]
      <4>1. (clientPage.others /\ ~Draws(action)) = FALSE
        BY <2>2
      <4>2. clientPage' = [clientPage EXCEPT
                !.call[action] = "ok",
                !.answer = IF Draws(action) THEN client'.secret ELSE clientPage.answer,
                !.others = clientPage.others /\ ~Draws(action)]
        BY <1>4 DEF ActionArrives
      <4> QED
        BY <2>2, <3>1, <4>1, <4>2
    <3>3. action \in Drawing /\ clientPage.shown = 0
      BY <1>t, <2>1, <2>2, DrawsDrawing DEF SecretOnItsWay, Drawing
    <3>4. ClientTypeOK'
      <4>1. clientPage' = [loaded |-> clientPage.loaded,
                call |-> [clientPage.call EXCEPT ![action] = "ok"],
                busy |-> clientPage.busy,
                answer |-> client.secret + 1, shown |-> clientPage.shown,
                others |-> FALSE]
        BY <1>t, <3>2
      <4> QED
        BY <1>c, <1>t, <2>1, <3>1, <4>1, ClientTyped
    <3>5. /\ CallMoves(action, "ok") /\ clientPage'.shown = 0
          /\ clientPage'.answer = client'.secret
      BY <1>t, <3>1, <3>2, <3>3 DEF CallMoves
    <3>6. ButtonsOfPage'
      BY <1>t, <2>1, <3>5, ButtonsKept
    <3>7. \A a \in Drawing \ {action} : clientPage'.call[a] = "none"
      <4>1. \A a \in Drawing \ {action} : clientPage.call[a] = "none"
        BY <2>1, <3>3, OneDraws
      <4> QED
        BY <1>t, <3>5, <4>1, CallMoved
    <3>8. ShownSecretWorks' /\ SecretOnItsWay'
      BY <3>3, <3>5, <3>7 DEF ShownSecretWorks, SecretOnItsWay, Drawing
    <3> QED
      BY <2>1, <3>4, <3>6, <3>8 DEF ClientInv, DialogStep
  <2>3. CASE ~Draws(action)
    <3>1. /\ client' = [status |-> StatusAfter(action), secret |-> client.secret + 0]
          /\ clientPage' = [clientPage EXCEPT
                !.call = [clientPage.call EXCEPT ![action] = "ok"],
                !.answer = clientPage.answer, !.others = clientPage.others /\ TRUE]
      BY <1>4, <2>3 DEF ActionArrives
    <3>2. client.secret + 0 = client.secret
      BY <1>t, ClientPageAssumption DEF Secrets, ClientPageAssumption
    <3>3. /\ CallMoves(action, "ok") /\ client'.secret = client.secret
          /\ clientPage'.others = clientPage.others
          /\ clientPage'.answer = clientPage.answer
          /\ clientPage'.shown = clientPage.shown
      BY <1>t, <3>1, <3>2 DEF CallMoves
    <3>4. ClientTypeOK'
      <4>1. clientPage' = [loaded |-> clientPage.loaded,
                call |-> [clientPage.call EXCEPT ![action] = "ok"],
                busy |-> clientPage.busy,
                answer |-> clientPage.answer, shown |-> clientPage.shown,
                others |-> clientPage.others]
        BY <1>t, <3>1
      <4>2. client' \in [status: Statuses, secret: Secrets \cup {0}]
        BY <1>t, <2>1, <3>1, <3>2
      <4> QED
        BY <1>c, <1>t, <4>1, <4>2, ClientTyped
    <3>5. ButtonsOfPage'
      BY <1>t, <2>1, <3>3, ButtonsKept
    <3>6. ShownSecretWorks' /\ SecretOnItsWay'
      BY <2>3, <3>3, DrawsDrawing, QuietCall
    <3> QED
      BY <2>1, <3>4, <3>5, <3>6 DEF ClientInv, DialogStep
  <2> QED
    BY <2>2, <2>3
<1>e. ASSUME NEW action \in Actions, NEW stage \in {"none", "refused"},
             CallMoves(action, stage), ClientTypeOK', UNCHANGED <<client, dialog>>,
             clientPage.call[action] # "none",
             clientPage'.others = clientPage.others,
             clientPage'.answer = clientPage.answer \/ action \in Drawing,
             clientPage'.shown = clientPage.shown
      PROVE  ClientInv' /\ DialogStep(ClientQuestions)
  <2>1. ButtonsOfPage'
    BY <1>e, <1>t, ButtonsKept
  <2>2. action \in Drawing =>
            /\ \A a \in Drawing \ {action} : clientPage.call[a] = "none"
            /\ clientPage.shown = 0
    BY <1>e, <1>t, OneDraws DEF SecretOnItsWay, Drawing
  <2>3. ShownSecretWorks' /\ SecretOnItsWay'
    BY <1>e, <2>2, QuietCall
  <2> QED
    BY <1>e, <2>1, <2>3 DEF ClientInv, DialogStep
<1>5. ASSUME NEW action \in Actions, ActionRefused(action)
      PROVE  ClientInv' /\ DialogStep(ClientQuestions)
  <2>1. /\ clientPage.call[action] = "sent" /\ UNCHANGED <<client, dialog>>
        /\ clientPage' = [clientPage EXCEPT
              !.call = [clientPage.call EXCEPT ![action] = "refused"]]
    BY <1>5 DEF ActionRefused
  <2>2. ClientTypeOK'
    <3>1. clientPage' = [loaded |-> clientPage.loaded,
              call |-> [clientPage.call EXCEPT ![action] = "refused"],
              busy |-> clientPage.busy,
              answer |-> clientPage.answer, shown |-> clientPage.shown,
              others |-> clientPage.others]
      BY <1>t, <2>1
    <3> QED
      BY <1>c, <1>t, <2>1, <3>1, ClientTyped
  <2>3. /\ CallMoves(action, "refused")
        /\ clientPage'.others = clientPage.others
        /\ clientPage'.answer = clientPage.answer
        /\ clientPage'.shown = clientPage.shown
    BY <1>t, <2>1 DEF CallMoves
  <2> QED
    BY <1>e, <2>1, <2>2, <2>3
<1>6. ASSUME NEW action \in Actions, ActionAnswered(action)
      PROVE  ClientInv' /\ DialogStep(ClientQuestions)
  <2>0. UNCHANGED client
    BY <1>6 DEF ActionAnswered
  <2>1. CASE clientPage.call[action] = "refused"
    <3>1. /\ UNCHANGED dialog
          /\ clientPage' = [clientPage EXCEPT
                !.call = [clientPage.call EXCEPT ![action] = "none"],
                !.busy = clientPage.busy \ {action}]
      BY <1>6, <2>1 DEF ActionAnswered, Answered
    <3>2. ClientTypeOK'
      <4>1. clientPage' = [loaded |-> clientPage.loaded,
                call |-> [clientPage.call EXCEPT ![action] = "none"],
                busy |-> clientPage.busy \ {action},
                answer |-> clientPage.answer, shown |-> clientPage.shown,
                others |-> clientPage.others]
        BY <1>t, <3>1
      <4> QED
        BY <1>c, <1>t, <2>0, <4>1, ClientTyped
    <3>3. /\ CallMoves(action, "none")
          /\ clientPage'.others = clientPage.others
          /\ clientPage'.answer = clientPage.answer
          /\ clientPage'.shown = clientPage.shown
      BY <1>t, <3>1 DEF CallMoves
    <3> QED
      BY <1>e, <2>0, <2>1, <3>1, <3>2, <3>3
  <2>2. CASE clientPage.call[action] = "ok" /\ Draws(action)
    <3>1. PICK secr \in {clientPage.answer, 0} :
             clientPage' = [Answered(action) EXCEPT !.shown = secr, !.answer = 0]
      BY <1>6, <2>2 DEF ActionAnswered, ShowCredentials
    <3>2. /\ UNCHANGED dialog
          /\ clientPage' = [clientPage EXCEPT
                !.call = [clientPage.call EXCEPT ![action] = "none"],
                !.busy = clientPage.busy \ {action}, !.shown = secr, !.answer = 0]
      BY <1>6, <2>2, <3>1 DEF ActionAnswered, Answered
    <3>3. ClientTypeOK'
      <4>1. clientPage' = [loaded |-> clientPage.loaded,
                call |-> [clientPage.call EXCEPT ![action] = "none"],
                busy |-> clientPage.busy \ {action},
                answer |-> 0, shown |-> secr, others |-> clientPage.others]
        BY <1>t, <3>2
      <4> QED
        BY <1>c, <1>t, <2>0, <4>1, ClientTyped
    <3>4. /\ CallMoves(action, "none") /\ clientPage'.shown = secr
          /\ clientPage'.others = clientPage.others
      BY <1>t, <3>2 DEF CallMoves
    <3>5. action \in Drawing
      BY <2>2, DrawsDrawing
    <3>6. ButtonsOfPage'
      BY <1>t, <2>2, <3>2, <3>4, ButtonsKept
    <3>7. \A a \in Drawing : clientPage'.call[a] = "none"
      BY <1>t, <2>2, <3>4, <3>5, CallMoved, OneDraws
    <3>8. ~clientPage.others => clientPage.answer = client.secret
      BY <1>t, <2>2, <3>5 DEF SecretOnItsWay, Drawing
    <3>9. ShownSecretWorks' /\ SecretOnItsWay'
      BY <2>0, <3>1, <3>4, <3>7, <3>8 DEF ShownSecretWorks, SecretOnItsWay, Drawing
    <3> QED
      BY <3>2, <3>3, <3>6, <3>9 DEF ClientInv, DialogStep
  <2>3. CASE clientPage.call[action] = "ok" /\ ~Draws(action)
    <3>1. /\ dialog' = FreshDialog
          /\ clientPage' = FreshClientPage(client.status)
      BY <1>6, <2>3 DEF ActionAnswered
    <3>2. clientPage' = [loaded |-> client'.status,
                         call |-> [a \in Actions |-> "none"], busy |-> {},
                         answer |-> 0, shown |-> 0, others |-> FALSE]
      BY <2>0, <3>1 DEF FreshClientPage
    <3>3. \A a \in Drawing : clientPage'.call[a] = "none"
      <4>1. clientPage'.call = [a \in Actions |-> "none"] /\ Drawing \subseteq Actions
        BY <3>2 DEF Drawing, Actions
      <4> QED
        BY <4>1
    <3>4. dialog'.question = "none" /\ clientPage'.shown = 0
      <4>1. dialog'.question = "none"
        BY <3>1 DEF FreshDialog
      <4>2. clientPage'.shown = 0
        BY <3>2
      <4> QED
        BY <4>1, <4>2
    <3>5. ClientTypeOK'
      <4>1. [a \in Actions |-> "none"] \in [Actions -> Fetch]
        BY <1>c
      <4>2. client'.status \in Statuses /\ {} \in SUBSET Actions
        BY <2>0, <1>t
      <4> QED
        BY <2>0, <3>2, <1>t, <4>1, <4>2, ClientTyped
    <3>6. ButtonsOfPage' /\ ShownSecretWorks' /\ SecretOnItsWay'
      BY <3>3, <3>4 DEF ButtonsOfPage, ShownSecretWorks, SecretOnItsWay, Drawing
    <3> QED
      BY <3>1, <3>5, <3>6 DEF ClientInv, DialogStep
  <2> QED
    BY <1>6, <2>1, <2>2, <2>3 DEF ActionAnswered
<1>7. ASSUME NEW action \in Actions, ActionLost(action)
      PROVE  ClientInv' /\ DialogStep(ClientQuestions)
  <2>1. /\ clientPage.call[action] # "none" /\ UNCHANGED <<client, dialog>>
        /\ \E busy \in SUBSET Actions, answer \in {0, clientPage.answer} :
              /\ clientPage' = [clientPage EXCEPT
                    !.call = [clientPage.call EXCEPT ![action] = "none"],
                    !.busy = busy, !.answer = answer]
              /\ answer = clientPage.answer \/ action \in Drawing
    <3> DEFINE busy == IF action = "create" THEN clientPage.busy \ {action}
                                            ELSE clientPage.busy
               answer == IF Draws(action) THEN 0 ELSE clientPage.answer
    <3>1. /\ busy \in SUBSET Actions /\ answer \in {0, clientPage.answer}
          /\ answer = clientPage.answer \/ action \in Drawing
      BY <1>t, DrawsDrawing
    <3>2. /\ clientPage.call[action] # "none" /\ UNCHANGED <<client, dialog>>
          /\ clientPage' = [clientPage EXCEPT
                !.call = [clientPage.call EXCEPT ![action] = "none"],
                !.busy = busy, !.answer = answer]
      BY <1>7 DEF ActionLost
    <3> HIDE DEF busy, answer
    <3> QED
      BY <3>1, <3>2
  <2>2. ClientTypeOK'
    <3>1. PICK busy \in SUBSET Actions, answer \in {0, clientPage.answer} :
             clientPage' = [clientPage EXCEPT
                !.call = [clientPage.call EXCEPT ![action] = "none"],
                !.busy = busy, !.answer = answer]
      BY <2>1
    <3>2. clientPage' = [loaded |-> clientPage.loaded,
              call |-> [clientPage.call EXCEPT ![action] = "none"],
              busy |-> busy,
              answer |-> answer, shown |-> clientPage.shown,
              others |-> clientPage.others]
      BY <1>t, <3>1
    <3>3. answer \in Secrets \cup {0}
      BY <1>t
    <3>4. [clientPage.call EXCEPT ![action] = "none"] \in [Actions -> Fetch]
      BY <1>c
    <3>5. client' \in [status: Statuses, secret: Secrets \cup {0}]
      BY <1>t, <2>1
    <3>6. /\ clientPage.loaded \in Statuses /\ clientPage.others \in BOOLEAN
          /\ clientPage.shown \in Secrets \cup {0}
      BY <1>t
    <3> QED
      BY <3>1, <3>2, <3>3, <3>4, <3>5, <3>6 DEF ClientTypeOK
  <2>3. /\ CallMoves(action, "none")
        /\ clientPage'.others = clientPage.others
        /\ clientPage'.answer = clientPage.answer \/ action \in Drawing
        /\ clientPage'.shown = clientPage.shown
    BY <1>t, <2>1 DEF CallMoves
  <2> QED
    BY <1>e, <2>1, <2>2, <2>3
<1>8. ASSUME NEW action \in Actions, OthersAct(action)
      PROVE  ClientInv' /\ DialogStep(ClientQuestions)
  <2>1. StatusAfter(action) \in Statuses /\ UNCHANGED dialog
    BY <1>8, <1>t DEF StatusAfter, OthersAct, Statuses
  <2>2. CASE Draws(action)
    <3>1. /\ (IF Draws(action) THEN 1 ELSE 0) = 1 /\ client.secret < MaxSecrets
          /\ (clientPage.others \/ Draws(action)) = TRUE
      BY <1>8, <2>2 DEF OthersAct, Accepts
    <3>2. client.secret + 1 \in Secrets
      BY <1>t, <3>1, ClientPageAssumption DEF Secrets, ClientPageAssumption
    <3>3. client' = [status |-> StatusAfter(action), secret |-> client.secret + 1]
      BY <1>8, <3>1 DEF OthersAct
    <3>4. clientPage' = [clientPage EXCEPT !.others = TRUE]
      <4>1. clientPage' = [clientPage EXCEPT
                !.others = clientPage.others \/ Draws(action)]
        BY <1>8 DEF OthersAct
      <4> QED
        BY <3>1, <4>1
    <3>5. ClientTypeOK'
      <4>1. clientPage' = [loaded |-> clientPage.loaded,
                call |-> clientPage.call, busy |-> clientPage.busy,
                answer |-> clientPage.answer, shown |-> clientPage.shown,
                others |-> TRUE]
        BY <1>t, <3>4
      <4> QED
        BY <1>c, <1>t, <2>1, <3>2, <3>3, <4>1, ClientTyped
    <3>6. ButtonsOfPage'
      BY <1>t, <2>1, <3>4 DEF ButtonsOfPage
    <3>7. ShownSecretWorks' /\ SecretOnItsWay'
      BY <1>t, <3>4 DEF ShownSecretWorks, SecretOnItsWay
    <3> QED
      BY <2>1, <3>5, <3>6, <3>7 DEF ClientInv, DialogStep
  <2>3. CASE ~Draws(action)
    <3>1. /\ client' = [status |-> StatusAfter(action), secret |-> client.secret + 0]
          /\ clientPage' = [clientPage EXCEPT !.others = clientPage.others \/ FALSE]
      BY <1>8, <2>3 DEF OthersAct
    <3>2. client.secret + 0 = client.secret
      BY <1>t, ClientPageAssumption DEF Secrets, ClientPageAssumption
    <3>3. client'.secret = client.secret /\ clientPage' = clientPage
      BY <1>t, <3>1, <3>2
    <3>4. ClientTypeOK'
      BY <1>t, <2>1, <3>1, <3>2, <3>3 DEF ClientTypeOK
    <3>5. ButtonsOfPage' /\ ShownSecretWorks' /\ SecretOnItsWay'
      BY <1>t, <2>1, <3>3 DEF ButtonsOfPage, ShownSecretWorks, SecretOnItsWay
    <3> QED
      BY <2>1, <3>4, <3>5 DEF ClientInv, DialogStep
  <2> QED
    BY <2>2, <2>3
<1> QED
  BY <1>1, <1>2, <1>3, <1>4, <1>5, <1>6, <1>7, <1>8 DEF ClientNext

---------------------------------------------------------------------------
(* The page of the e-mail settings *)

(* Settings that were saved, or are being acted upon, are the stored ones  *)
(* until somebody writes.                                                  *)
EmailInv ==
    /\ EmailTypeOK
    /\ \A h \in Handlers \ {"disable"} :
          LET sent == handlers[h].sent
          IN  handlers[h].stage \in {"saved", "acting"} /\ ~handlers[h].overwritten
                => /\ stored.enabled = sent.enabled
                   /\ sent.password # "keep" => stored.password = (sent.password = "new")

Stages == {"idle", "saving", "saved", "rejected", "acting", "acted"}

LEMMA IdleType ==
    /\ Idle \in [stage: Stages, sent: Forms, overwritten: BOOLEAN]
    /\ Idle.stage = "idle"
BY DEF Idle, Stages, Forms

(* A handler that goes on by itself. *)
LEMMA StageStep ==
    ASSUME EmailInv, NEW h \in Handlers, NEW stage \in Stages, Stage(h, stage),
           UNCHANGED stored, form' \in Forms,
           stage \in {"saved", "acting"} => handlers[h].stage \in {"saved", "acting"}
    PROVE  EmailInv'
<1> USE DEF EmailInv, EmailTypeOK
<1>1. ASSUME stage = "idle"
      PROVE  EmailInv'
  <2>1. handlers' = [handlers EXCEPT ![h] = Idle]
    BY <1>1 DEF Stage
  <2> QED
    BY <2>1, IdleType DEF Stages
<1>2. ASSUME stage # "idle"
      PROVE  EmailInv'
  <2>1. handlers' = [handlers EXCEPT ![h] = [handlers[h] EXCEPT !.stage = stage]]
    BY <1>2 DEF Stage
  <2> QED
    BY <2>1 DEF Stages
<1> QED
  BY <1>1, <1>2

(* Every write of the settings tells the handlers that are under way.      *)
LEMMA WriteStep ==
    ASSUME EmailInv, NEW writers \in SUBSET Handlers,
           stored' \in Stored, UNCHANGED form,
           handlers' \in [Handlers -> [stage: Stages, sent: Forms,
                                       overwritten: BOOLEAN]],
           \A k \in Handlers \ writers : handlers'[k] = Overwrite(k),
           \A k \in writers \ {"disable"} :
              handlers'[k].stage \in {"saved", "acting"} =>
                /\ stored'.enabled = handlers'[k].sent.enabled
                /\ handlers'[k].sent.password # "keep"
                      => stored'.password = (handlers'[k].sent.password = "new")
    PROVE  EmailInv'
<1>1. ASSUME NEW k \in Handlers \ writers,
             handlers'[k].stage \in {"saved", "acting"}
      PROVE  handlers'[k].overwritten
  <2>1. handlers'[k] = [handlers[k] EXCEPT !.overwritten = k \in Busy]
    BY DEF Overwrite
  <2>2. handlers[k] \in [stage: Stages, sent: Forms, overwritten: BOOLEAN]
    BY DEF EmailInv, EmailTypeOK, Stages
  <2>3. handlers'[k].stage = handlers[k].stage
    BY <2>1, <2>2
  <2>4. k \in Busy
    BY <1>1, <2>3 DEF Busy
  <2> QED
    BY <2>1, <2>2, <2>4
<1> QED
  BY <1>1 DEF EmailInv, EmailTypeOK, Stages

LEMMA OverwriteType ==
    ASSUME EmailInv, NEW k \in Handlers
    PROVE  Overwrite(k) \in [stage: Stages, sent: Forms, overwritten: BOOLEAN]
<1>1. handlers[k] \in [stage: Stages, sent: Forms, overwritten: BOOLEAN]
  BY DEF EmailInv, EmailTypeOK, Stages
<1>2. CASE k \in Busy
  <2>1. (k \in Busy) = TRUE
    BY <1>2
  <2>2. Overwrite(k) = [handlers[k] EXCEPT !.overwritten = TRUE]
    BY <2>1 DEF Overwrite
  <2> QED
    BY <1>1, <2>2
<1>3. CASE k \notin Busy
  <2>1. (k \in Busy) = FALSE
    BY <1>3
  <2>2. Overwrite(k) = [handlers[k] EXCEPT !.overwritten = FALSE]
    BY <2>1 DEF Overwrite
  <2> QED
    BY <1>1, <2>2
<1> QED
  BY <1>2, <1>3

(* A handler that writes, and reaches stage with it. *)
LEMMA WroteStep ==
    ASSUME EmailInv, NEW h \in Handlers, NEW stage \in Stages, Wrote(h, stage),
           stored' \in Stored, UNCHANGED form,
           stage \in {"saved", "acting"} =>
              /\ stored'.enabled = handlers[h].sent.enabled
              /\ handlers[h].sent.password # "keep"
                    => stored'.password = (handlers[h].sent.password = "new")
    PROVE  EmailInv'
<1>1. handlers[h] \in [stage: Stages, sent: Forms, overwritten: BOOLEAN]
  BY DEF EmailInv, EmailTypeOK, Stages
<1>2. handlers'[h] = [handlers[h] EXCEPT !.stage = stage, !.overwritten = FALSE]
  BY DEF Wrote
<1>3. \A k \in Handlers \ {h} : handlers'[k] = Overwrite(k)
  BY DEF Wrote
<1>4. /\ handlers'[h] \in [stage: Stages, sent: Forms, overwritten: BOOLEAN]
      /\ handlers'[h].stage = stage /\ handlers'[h].sent = handlers[h].sent
  BY <1>1, <1>2
<1>5. handlers' \in [Handlers -> [stage: Stages, sent: Forms, overwritten: BOOLEAN]]
  BY <1>3, <1>4, OverwriteType DEF Wrote
<1>6. {h} \in SUBSET Handlers
  OBVIOUS
<1>7. \A k \in {h} \ {"disable"} :
        handlers'[k].stage \in {"saved", "acting"} =>
          /\ stored'.enabled = handlers'[k].sent.enabled
          /\ handlers'[k].sent.password # "keep"
                => stored'.password = (handlers'[k].sent.password = "new")
  BY <1>4
<1> QED
  BY <1>3, <1>5, <1>6, <1>7, WriteStep

LEMMA EmailSteps ==
    ASSUME EmailInv, EmailNext
    PROVE  EmailInv'
<1>0. EmailTypeOK
  BY DEF EmailInv
<1>1. ASSUME NEW values \in Forms, EditForm(values)
      PROVE  EmailInv'
  BY <1>1 DEF EditForm, EmailInv, EmailTypeOK
<1>2. ASSUME NEW h \in Handlers, Press(h)
      PROVE  EmailInv'
  <2>1. ASSUME h # "disable"
        PROVE  EmailInv'
    <3>1. handlers' = [handlers EXCEPT ![h] =
             [stage |-> "saving", sent |-> form, overwritten |-> FALSE]]
      BY <1>2, <2>1 DEF Press
    <3> QED
      BY <1>2, <3>1 DEF Press, EmailInv, EmailTypeOK
  <2>2. ASSUME h = "disable"
        PROVE  EmailInv'
    <3>1. handlers' = [handlers EXCEPT ![h] =
             [stage |-> "acting", sent |-> form, overwritten |-> FALSE]]
      BY <1>2, <2>2 DEF Press
    <3> QED
      BY <1>2, <2>2, <3>1 DEF Press, EmailInv, EmailTypeOK
  <2> QED
    BY <2>1, <2>2
<1>3. ASSUME NEW h \in Handlers, SaveArrives(h)
      PROVE  EmailInv'
  <2>1. handlers[h].sent \in Forms
    BY <1>0 DEF EmailTypeOK
  <2>2. /\ Saved(handlers[h].sent) \in Stored
        /\ Saved(handlers[h].sent).enabled = handlers[h].sent.enabled
        /\ handlers[h].sent.password # "keep" =>
              Saved(handlers[h].sent).password = (handlers[h].sent.password = "new")
    BY <1>0, <2>1 DEF Saved, Stored, Forms, EmailTypeOK
  <2> QED
    BY <1>3, <2>2, WroteStep DEF SaveArrives, Stages
<1>4. ASSUME NEW h \in Handlers, SaveRejected(h)
      PROVE  EmailInv'
  BY <1>0, <1>4, StageStep DEF SaveRejected, Stages, EmailTypeOK
<1>5. ASSUME NEW h \in Handlers, SaveAnswered(h)
      PROVE  EmailInv'
  <2>1. form' \in Forms
    BY <1>0, <1>5 DEF SaveAnswered, EmailTypeOK, Forms
  <2>2. /\ SecondCall(h) \in {"idle", "acting"}
        /\ SecondCall(h) = "acting" => handlers[h].stage = "saved"
    BY DEF SecondCall
  <2> QED
    BY <1>5, <2>1, <2>2, StageStep DEF SaveAnswered, Stages
<1>6. ASSUME NEW h \in Handlers, ActionReached(h)
      PROVE  EmailInv'
  <2>1. CASE Stage(h, "acted") /\ UNCHANGED stored
    BY <1>0, <1>6, <2>1, StageStep DEF ActionReached, Stages, EmailTypeOK
  <2>2. CASE Wrote(h, "acted") /\ stored' = [stored EXCEPT !.enabled = (h = "enable")]
    BY <1>0, <1>6, <2>2, WroteStep DEF ActionReached, Stages, EmailTypeOK, Stored
  <2> QED
    BY <1>6, <2>1, <2>2 DEF ActionReached
<1>7. ASSUME NEW h \in Handlers, ActionDone(h)
      PROVE  EmailInv'
  BY <1>0, <1>7, StageStep DEF ActionDone, Stages, EmailTypeOK
<1>8. ASSUME NEW h \in Handlers, HandlerFails(h)
      PROVE  EmailInv'
  BY <1>0, <1>8, StageStep DEF HandlerFails, Stages, EmailTypeOK
<1>9. CASE OthersSave
  <2>1. handlers' \in [Handlers -> [stage: Stages, sent: Forms, overwritten: BOOLEAN]]
    BY <1>9, OverwriteType DEF OthersSave
  <2>2. {} \in SUBSET Handlers /\ \A k \in Handlers \ {} : handlers'[k] = Overwrite(k)
    BY <1>9 DEF OthersSave
  <2> QED
    BY <1>9, <2>1, <2>2, WriteStep DEF OthersSave
<1> QED
  BY <1>1, <1>2, <1>3, <1>4, <1>5, <1>6, <1>7, <1>8, <1>9 DEF EmailNext
---------------------------------------------------------------------------
(* The account page *)

(* The calls that are out carry the page's token.  While the answer that   *)
(* brings the new cookie is on its way, the session that the token belongs *)
(* to is closed: nothing the page sends is authorised.                     *)
AccountInv ==
    /\ AccountTypeOK
    /\ sessions.live \subseteq 1..sessions.opened
    /\ account.cookie <= sessions.opened
    /\ account.token <= sessions.opened
    /\ \A call \in {"change", "revoke"} :
          /\ account[call].cookie <= sessions.opened
          /\ account[call].stage # "none" => account[call].token = account.token
    /\ account.change.stage = "ok" => account.cookie # account.change.cookie
    /\ ~account.cut /\ account.left = "no" =>
          IF account.change.stage = "ok"
          THEN account.change.cookie \in sessions.live /\ account.token \notin sessions.live
          ELSE account.cookie \in sessions.live

LEMMA AccountSteps ==
    ASSUME AccountInv, AccountNext
    PROVE  AccountInv'
<1> USE AccountPageAssumption
    DEF AccountInv, AccountTypeOK, SessionIds, Call, AccountPageAssumption
<1>0. account.left = "no"
  BY DEF AccountNext
<1>1. CASE SubmitChange
  BY <1>1 DEF SubmitChange, StartCall, SetAccount
<1>2. CASE RevokeOthers
  BY <1>2 DEF RevokeOthers, StartCall, SetAccount
<1>3. CASE CallRefused("change")
  BY <1>3 DEF CallRefused
<1>4. CASE CallRefused("revoke")
  BY <1>4 DEF CallRefused
<1>5. CASE CallLost("change")
  BY <1>5 DEF CallLost
<1>6. CASE CallLost("revoke")
  BY <1>6 DEF CallLost
<1>7. CASE ChangeArrives
  <2>1. /\ NextSession \in SessionIds /\ NextSession > sessions.opened
        /\ NextSession \in 0..MaxSessions
    BY <1>7 DEF ChangeArrives, NextSession
  <2>2. /\ sessions' = [live |-> {NextSession}, opened |-> NextSession]
        /\ account' = [account EXCEPT !.change =
              [account.change EXCEPT !.stage = "ok", !.cookie = NextSession]]
    BY <1>7 DEF ChangeArrives
  <2>3. /\ account'.change \in Call
        /\ account'.change.stage = "ok" /\ account'.change.cookie = NextSession
        /\ account'.change.token = account.change.token
        /\ account'.revoke = account.revoke /\ account'.token = account.token
        /\ account'.cookie = account.cookie
    BY <2>1, <2>2
  <2>4. account.token \notin {NextSession} /\ NextSession \in 1..NextSession
    BY <2>1
  <2>5. AccountTypeOK'
    BY <2>1, <2>2
  <2> HIDE DEF NextSession
  <2>6. account.change.token = account.token
    BY <1>7 DEF ChangeArrives
  <2> QED
    BY <2>1, <2>2, <2>3, <2>4, <2>5, <2>6
<1>8. CASE ChangeAnswered
  BY <1>8 DEF ChangeAnswered, CookieAfter
<1>9. CASE RevokeOthersArrives
  BY <1>9 DEF RevokeOthersArrives, Authorised, ValidCSRF
<1>10. CASE RevokeOthersAnswered
  <2>1. CASE account.revoke.stage = "ok"
    <3>1. /\ UNCHANGED sessions
          /\ account' = [account EXCEPT
                !.revoke = NoCall, !.change = NoCall, !.token = account.cookie,
                !.left = IF account.cookie \in sessions.live THEN "no" ELSE "login",
                !.cut = account.cut \/ account.change.stage \in {"sent", "ok"}]
      BY <1>10, <2>1 DEF RevokeOthersAnswered, Reloaded
    <3>2. NoCall \in Call /\ NoCall.stage = "none" /\ NoCall.cookie = 1
      BY DEF NoCall
    <3>3. account'.change = NoCall /\ account'.revoke = NoCall
          /\ account'.token = account.cookie /\ account'.cookie = account.cookie
      BY <3>1
    <3>4. ~account'.cut => ~account.cut /\ account.change.stage # "ok"
      BY <3>1
    <3>5. account'.cut \in BOOLEAN
      BY <3>1
    <3>6. account'.left \in {"no", "login"}
      BY <3>1
    <3>7. 1 <= sessions.opened
      OBVIOUS
    <3>8. account' \in [cookie: SessionIds, token: SessionIds, change: Call,
                        revoke: Call, left: {"no", "forbidden", "login"}, cut: BOOLEAN]
      BY <3>1, <3>2, <3>5, <3>6
    <3> QED
      BY <1>0, <3>1, <3>2, <3>3, <3>4, <3>7, <3>8
  <2>2. CASE account.revoke.stage = "refused"
    BY <1>10, <2>2 DEF RevokeOthersAnswered
  <2> QED
    BY <1>10, <2>1, <2>2 DEF RevokeOthersAnswered
<1>11. CASE Logout
  BY <1>11 DEF Logout, SetAccount
<1>12. CASE LoginElsewhere
  <2>1. /\ NextSession \in SessionIds /\ NextSession > sessions.opened
        /\ NextSession \in 0..MaxSessions
        /\ 1..sessions.opened \subseteq 1..NextSession /\ NextSession \in 1..NextSession
    BY <1>12 DEF LoginElsewhere, NextSession
  <2> HIDE DEF NextSession
  <2>2. ASSUME account' = [account EXCEPT !.cookie = account.cookie],
               sessions' = [opened |-> NextSession,
                            live   |-> {NextSession} \cup sessions.live]
        PROVE  AccountInv'
    <3>1. account.token \notin {NextSession} /\ account' = account
      BY <2>1, <2>2
    <3> QED
      BY <2>1, <2>2, <3>1
  <2>3. ASSUME account' = [account EXCEPT !.cookie = NextSession],
               sessions' = [opened |-> NextSession,
                            live   |-> {NextSession} \cup
                                          (sessions.live \ {account.cookie})]
        PROVE  AccountInv'
    <3>1. account.token \notin {NextSession}
      BY <2>1
    <3>2. account.change.stage = "ok" => NextSession # account.change.cookie
      BY <2>1
    <3> QED
      BY <2>1, <2>3, <3>1, <3>2
  <2>4. NextSession # account.cookie
    BY <2>1
  <2>5. \/ /\ account' = [account EXCEPT !.cookie = account.cookie]
           /\ sessions' = [opened |-> NextSession,
                           live   |-> {NextSession} \cup sessions.live]
        \/ /\ account' = [account EXCEPT !.cookie = NextSession]
           /\ sessions' = [opened |-> NextSession,
                           live   |-> {NextSession} \cup
                                         (sessions.live \ {account.cookie})]
    BY <1>12, <2>4 DEF LoginElsewhere
  <2> HIDE DEF AccountInv
  <2> QED
    BY <2>2, <2>3, <2>5
<1>13. CASE EndedElsewhere
  <2>1. account' = [account EXCEPT !.cut = TRUE]
    BY <1>13 DEF EndedElsewhere, SetAccount
  <2>2. PICK s \in sessions.live :
           sessions' = [sessions EXCEPT !.live = sessions.live \ {s}]
    BY <1>13 DEF EndedElsewhere
  <2> QED
    BY <2>1, <2>2
<1> QED
  BY <1>1, <1>2, <1>3, <1>4, <1>5, <1>6, <1>7, <1>8, <1>9, <1>10, <1>11,
     <1>12, <1>13 DEF AccountNext
---------------------------------------------------------------------------
(* The tab *)

(* A page's question is asked by no other page, so what the invariants say *)
(* of it survives the steps of others.                                     *)
LEMMA Frames ==
    ASSUME NEW questions \in SUBSET Questions, DialogInv, DialogStep(questions)
    PROVE  /\ CreateInv /\ UNCHANGED createVars /\ "revoke link" \notin questions
                 => CreateInv'
           /\ DetailInv /\ UNCHANGED detailVars /\ "remove password" \notin questions
                 => DetailInv'
           /\ ClientInv /\ UNCHANGED clientVars /\ "rotate-secret" \notin questions
                 => ClientInv'
<1>1. \A q \in Questions \ questions : dialog'.question = q => dialog.question = q
  <2>1. CASE UNCHANGED dialog
    BY <2>1
  <2>2. ASSUME NEW question \in questions, Ask(question)
        PROVE  dialog'.question = question
    BY <2>2 DEF Ask, DialogInv, DialogTypeOK
  <2>3. ASSUME NEW question \in questions, NEW button \in Buttons,
               Close(question, button)
        PROVE  dialog'.question = "none"
    BY <2>3 DEF Close
  <2>4. ASSUME dialog' = FreshDialog
        PROVE  dialog'.question = "none"
    BY <2>4 DEF FreshDialog
  <2> QED
    BY <2>1, <2>2, <2>3, <2>4 DEF DialogStep, Questions
<1>2. {"revoke link", "remove password", "rotate-secret"} \subseteq Questions
  BY DEF Questions
<1>3. ASSUME CreateInv, UNCHANGED createVars, "revoke link" \notin questions
      PROVE  CreateInv'
  BY <1>1, <1>2, <1>3 DEF CreateInv, CreateTypeOK, PanelNamesOneLink, createVars
<1>4. ASSUME DetailInv, UNCHANGED detailVars, "remove password" \notin questions
      PROVE  DetailInv'
  BY <1>1, <1>2, <1>4 DEF DetailInv, DetailTypeOK, SaysWhatIsStored, detailVars
<1>5. ASSUME ClientInv, UNCHANGED clientVars, "rotate-secret" \notin questions
      PROVE  ClientInv'
  BY <1>1, <1>2, <1>5
     DEF ClientInv, ClientTypeOK, ShownSecretWorks, ButtonsOfPage, SecretOnItsWay,
         clientVars
<1> QED
  BY <1>3, <1>4, <1>5

LEMMA EmailFrame ==
    ASSUME EmailInv, UNCHANGED emailVars
    PROVE  EmailInv'
BY DEF EmailInv, EmailTypeOK, emailVars

LEMMA AccountFrame ==
    ASSUME AccountInv, UNCHANGED accountVars
    PROVE  AccountInv'
BY DEF AccountInv, AccountTypeOK, accountVars

(* Each page as it is loaded. *)
LEMMA FreshCreateInv ==
    ASSUME create = FreshCreate, links = NoLinks, revokes = NoRevokes,
           dialog = FreshDialog
    PROVE  CreateInv
<1>1. create.rows = <<>>
  BY DEF FreshCreate
<1>2. create.rows \in Seq(Names) /\ Len(create.rows) <= MaxFields
  BY <1>1, NoRowsFit
<1> QED
  BY <1>1, <1>2 DEF FreshCreate, NoLinks, NoRevokes, FreshDialog, CreateInv,
                    CreateTypeOK, PanelNamesOneLink, Fetch

LEMMA FreshDetailInv ==
    ASSUME secret \in SecretRecords, detail = FreshDetail(secret),
           dialog = FreshDialog
    PROVE  DetailInv
BY DEF FreshDetail, FreshDialog, DetailInv, DetailTypeOK, SaysWhatIsStored,
       SecretRecords, Fetch

LEMMA FreshClientInv ==
    ASSUME client \in [status: Statuses, secret: {0}],
           clientPage = FreshClientPage(client.status), dialog = FreshDialog
    PROVE  ClientInv
BY ClientPageAssumption
   DEF FreshClientPage, FreshDialog, ClientInv, ClientTypeOK, ShownSecretWorks,
       ButtonsOfPage, SecretOnItsWay,
       Actions, Fetch, Secrets, ClientPageAssumption

LEMMA FreshEmailInv ==
    ASSUME stored \in Stored, form = FreshForm(stored), handlers = FreshHandlers
    PROVE  EmailInv
BY IdleType DEF FreshForm, FreshHandlers, EmailInv, EmailTypeOK, Stored, Forms, Stages

LEMMA FreshAccountInv ==
    ASSUME sessions = FirstSession, account = FreshAccount
    PROVE  AccountInv
BY AccountPageAssumption
   DEF FirstSession, FreshAccount, NoCall, Call, SessionIds, AccountInv,
       AccountTypeOK, AccountPageAssumption

(* No page but the one in the tab has a call out that asked first. *)
RestInv ==
    /\ at # "create" => revokes = NoRevokes
    /\ at # "detail" => detail.remove = "none" /\ detail.revoke = "none"
    /\ at # "client" => \A action \in Actions : clientPage.call[action] = "none"

TabInv ==
    /\ at \in TabPages \cup {"none"}
    /\ DialogInv
    /\ CreateInv /\ DetailInv /\ ClientInv /\ EmailInv /\ AccountInv
    /\ RestInv
    /\ ActsOnlyOnceConfirmed

LEMMA ConfirmedStays ==
    ASSUME DialogInv, NEW question, NEW button,
           UNCHANGED dialog \/ Ask(question) \/ Close(question, button)
    PROVE  dialog.confirmed => dialog'.confirmed
<1>1. ASSUME Ask(question) PROVE dialog.confirmed => dialog'.confirmed
  BY <1>1 DEF Ask, DialogInv, DialogTypeOK
<1>2. ASSUME Close(question, button) PROVE dialog.confirmed => dialog'.confirmed
  BY <1>2 DEF Close
<1> QED
  BY <1>1, <1>2

(* On each page, what asks first is out only after Confirm was pressed.    *)
CreateConfirmed == \A l \in Links : revokes[l] # "none" => dialog.confirmed

DetailConfirmed ==
    detail.remove # "none" \/ detail.revoke # "none" => dialog.confirmed

ClientConfirmed ==
    \A a \in Actions \ {"create"} : clientPage.call[a] # "none" => dialog.confirmed

LEMMA CreateConfirms ==
    ASSUME CreateInv, DialogInv, CreateNext, CreateConfirmed
    PROVE  CreateConfirmed'
<1> USE DEF CreateConfirmed
<1>1. ASSUME NEW button \in Buttons, RevokeClosed(button)
      PROVE  CreateConfirmed'
  <2>1. Close("revoke link", button)
    BY <1>1 DEF RevokeClosed
  <2>2. CASE Agrees(button)
    BY <2>1, <2>2, AgreedIsConfirmed
  <2>3. CASE ~Agrees(button)
    BY <1>1, <2>1, <2>3, ConfirmedStays DEF RevokeClosed
  <2> QED
    BY <2>2, <2>3
<1>2. ASSUME NEW l \in Links, RevokeArrives(l) \/ RevokeAnswered(l) \/ RevokeLost(l)
      PROVE  CreateConfirmed'
  <2>1. /\ UNCHANGED dialog /\ revokes[l] # "none"
        /\ \E stage : revokes' = [revokes EXCEPT ![l] = stage]
    BY <1>2 DEF RevokeArrives, RevokeAnswered, RevokeLost
  <2>2. revokes \in [Links -> Fetch]
    BY DEF CreateInv, CreateTypeOK
  <2> QED
    BY <2>1, <2>2
<1>3. CASE AskRevoke
  BY <1>3, ConfirmedStays DEF AskRevoke
<1>4. ASSUME UNCHANGED <<dialog, revokes>>
      PROVE  CreateConfirmed'
  BY <1>4
<1>5. ASSUME ~\E button \in Buttons : RevokeClosed(button), ~AskRevoke,
             ~\E l \in Links : RevokeArrives(l) \/ RevokeAnswered(l) \/ RevokeLost(l)
      PROVE  UNCHANGED <<dialog, revokes>>
  BY <1>5 DEF CreateNext, AddStructuredField, Rename, RemoveRow, MoveRow, Edit,
              SubmitInvalid, Submit, PostRefused, PostAnswered, PostLost,
              CreateAnother, PostCreates, LinkEnds
<1> QED
  BY <1>1, <1>2, <1>3, <1>4, <1>5

LEMMA DetailConfirms ==
    ASSUME DetailInv, DialogInv, DetailNext, DetailConfirmed
    PROVE  DetailConfirmed'
<1> USE DEF DetailConfirmed
<1> USE DEF DetailInv, DetailTypeOK, SetDetail
<1>1. ASSUME NEW button \in Buttons, RemoveClosed(button) \/ RevokeSecretClosed(button)
      PROVE  DetailConfirmed'
  <2>1. PICK question \in Questions : Close(question, button)
    BY <1>1 DEF RemoveClosed, RevokeSecretClosed, Questions
  <2>2. CASE Agrees(button)
    BY <2>1, <2>2, AgreedIsConfirmed
  <2>3. CASE ~Agrees(button)
    <3>1. detail'.remove = detail.remove /\ detail'.revoke = detail.revoke
      BY <1>1, <2>3 DEF RemoveClosed, RevokeSecretClosed
    <3> QED
      BY <2>1, <3>1, ConfirmedStays
  <2> QED
    BY <2>2, <2>3
<1>2. ASSUME NEW question, Ask(question), UNCHANGED detailVars
      PROVE  DetailConfirmed'
  BY <1>2, ConfirmedStays DEF detailVars
<1>3. ASSUME UNCHANGED dialog,
             detail'.remove # "none" => detail.remove # "none",
             detail'.revoke # "none" => detail.revoke # "none"
      PROVE  DetailConfirmed'
  BY <1>3
<1>4. CASE SubmitSave
  BY <1>3, <1>4 DEF SubmitSave
<1>5. CASE AskRemove \/ AskRevokeSecret
  <2>1. UNCHANGED detailVars /\ \E question : Ask(question)
    BY <1>5 DEF AskRemove, AskRevokeSecret
  <2> QED
    BY <1>2, <2>1
<1>6. ASSUME NEW call \in {"save", "remove"}, ProtectionArrives(call)
      PROVE  DetailConfirmed'
  BY <1>3, <1>6 DEF ProtectionArrives
<1>7. ASSUME NEW call \in {"save", "remove"},
             ProtectionAnswered(call) \/ ProtectionLost(call)
      PROVE  DetailConfirmed'
  BY <1>3, <1>7 DEF ProtectionAnswered, ProtectionLost
<1>8. CASE RevokeSecretArrives
  BY <1>3, <1>8 DEF RevokeSecretArrives
<1>9. CASE RevokeSecretAnswered \/ RevokeSecretLost
  BY <1>3, <1>9 DEF RevokeSecretAnswered, RevokeSecretLost
<1>10. CASE OthersManage
  BY <1>3, <1>10 DEF OthersManage
<1> QED
  BY <1>1, <1>4, <1>5, <1>6, <1>7, <1>8, <1>9, <1>10 DEF DetailNext

LEMMA ClientConfirms ==
    ASSUME ClientInv, DialogInv, ClientNext, ClientConfirmed
    PROVE  ClientConfirmed'
<1> USE DEF ClientConfirmed
<1>0. clientPage.call \in [Actions -> Fetch]
  BY DEF ClientInv, ClientTypeOK
<1>1. CASE SubmitClient
  <2>1. /\ UNCHANGED dialog
        /\ clientPage'.call = [clientPage.call EXCEPT !["create"] = "sent"]
    BY <1>1 DEF SubmitClient, Sent, ClientInv, ClientTypeOK
  <2> QED
    BY <1>0, <2>1
<1>2. ASSUME NEW action \in Actions, AskAction(action)
      PROVE  ClientConfirmed'
  BY <1>2, ConfirmedStays DEF AskAction, clientVars
<1>3. ASSUME NEW action \in Actions, NEW button \in Buttons,
             ActionClosed(action, button)
      PROVE  ClientConfirmed'
  <2>1. Close(action, button)
    BY <1>3 DEF ActionClosed
  <2>2. CASE Agrees(button)
    BY <2>1, <2>2, AgreedIsConfirmed
  <2>3. CASE ~Agrees(button)
    BY <1>3, <2>1, <2>3, ConfirmedStays DEF ActionClosed
  <2> QED
    BY <2>2, <2>3
<1>4. ASSUME NEW action \in Actions, UNCHANGED dialog,
             NEW stage, clientPage.call[action] # "none",
             clientPage'.call = [clientPage.call EXCEPT ![action] = stage]
      PROVE  ClientConfirmed'
  BY <1>0, <1>4
<1>5. ASSUME NEW action \in Actions,
             ActionArrives(action) \/ ActionRefused(action) \/ ActionLost(action)
      PROVE  ClientConfirmed'
  <2>1. /\ UNCHANGED dialog /\ clientPage.call[action] # "none"
        /\ \E stage : clientPage'.call = [clientPage.call EXCEPT ![action] = stage]
    BY <1>5 DEF ActionArrives, ActionRefused, ActionLost, ClientInv, ClientTypeOK
  <2> QED
    BY <1>4, <2>1
<1>6. ASSUME NEW action \in Actions, ActionAnswered(action)
      PROVE  ClientConfirmed'
  <2>1. CASE clientPage.call[action] = "ok" /\ ~Draws(action)
    BY <1>6, <2>1 DEF ActionAnswered, FreshClientPage
  <2>2. CASE ~(clientPage.call[action] = "ok" /\ ~Draws(action))
    <3>1. UNCHANGED dialog /\ clientPage.call[action] # "none"
      BY <1>6, <2>2 DEF ActionAnswered
    <3>2. clientPage'.call = [clientPage.call EXCEPT ![action] = "none"]
      BY <1>6, <2>2 DEF ActionAnswered, ShowCredentials, Answered, ClientInv, ClientTypeOK
    <3> QED
      BY <1>4, <3>1, <3>2
  <2> QED
    BY <2>1, <2>2
<1>7. ASSUME NEW action \in Actions, OthersAct(action)
      PROVE  ClientConfirmed'
  <2>1. UNCHANGED dialog /\ clientPage'.call = clientPage.call
    BY <1>7 DEF OthersAct, ClientInv, ClientTypeOK
  <2> QED
    BY <2>1
<1> QED
  BY <1>1, <1>2, <1>3, <1>5, <1>6, <1>7 DEF ClientNext

---------------------------------------------------------------------------
LEMMA ConfirmedParts ==
    ActsOnlyOnceConfirmed <=> CreateConfirmed /\ DetailConfirmed /\ ClientConfirmed
BY DEF ActsOnlyOnceConfirmed, CreateConfirmed, DetailConfirmed, ClientConfirmed

LEMMA ConfirmedPartsNext ==
    ActsOnlyOnceConfirmed' <=> CreateConfirmed' /\ DetailConfirmed' /\ ClientConfirmed'
BY ConfirmedParts, PTL

(* A page without a pending call meets its part. *)
LEMMA RestConfirmed ==
    /\ revokes = NoRevokes => CreateConfirmed
    /\ detail.remove = "none" /\ detail.revoke = "none" => DetailConfirmed
    /\ (\A action \in Actions : clientPage.call[action] = "none") => ClientConfirmed
BY DEF NoRevokes, CreateConfirmed, DetailConfirmed, ClientConfirmed

(* A page that has just been loaded, beside others that rest. *)
Loaded ==
    /\ at \in TabPages \cup {"none"} /\ dialog = FreshDialog
    /\ create = FreshCreate /\ links = NoLinks /\ revokes = NoRevokes
    /\ secret \in SecretRecords /\ detail = FreshDetail(secret)
    /\ client \in [status: Statuses, secret: {0}]
    /\ clientPage = FreshClientPage(client.status)
    /\ stored \in Stored /\ form = FreshForm(stored) /\ handlers = FreshHandlers
    /\ sessions = FirstSession /\ account = FreshAccount

LEMMA LoadedInv ==
    Loaded => TabInv
<1> SUFFICES ASSUME Loaded PROVE TabInv
  OBVIOUS
<1>1. CreateInv /\ DetailInv /\ ClientInv /\ EmailInv /\ AccountInv
  BY FreshCreateInv, FreshDetailInv, FreshClientInv, FreshEmailInv,
     FreshAccountInv DEF Loaded
<1>2. DialogInv
  BY DEF Loaded, FreshDialog, DialogInv, DialogTypeOK
<1>3. /\ revokes = NoRevokes /\ detail.remove = "none" /\ detail.revoke = "none"
      /\ \A action \in Actions : clientPage.call[action] = "none"
  BY DEF Loaded, FreshDetail, FreshClientPage
<1> QED
  BY <1>1, <1>2, <1>3, RestConfirmed, ConfirmedParts DEF TabInv, RestInv, Loaded

LEMMA LoadedInvNext ==
    Loaded' => TabInv'
BY LoadedInv, PTL

LEMMA InitTab ==
    Init => TabInv
<1> SUFFICES ASSUME Init PROVE Loaded
  BY LoadedInv
<1> QED
  BY DEF Init, Loaded, RestSecret, SecretRecords, NoClient, Statuses, RestStored,
         Stored

LEMMA LoadTab ==
    ASSUME NEW p \in TabPages, Load(p)
    PROVE  TabInv'
<1>1. secret' \in SecretRecords /\ detail' = FreshDetail(secret')
  <2>1. SecretRows \cup {RestSecret} \subseteq SecretRecords
    <3>1. {TRUE} \subseteq BOOLEAN
      OBVIOUS
    <3>2. SecretRows \subseteq SecretRecords
      BY <3>1, Zenon DEF SecretRows, SecretRecords
    <3>3. RestSecret \in SecretRecords
      BY DEF RestSecret, SecretRecords
    <3> QED
      BY <3>2, <3>3
  <2>2. PICK row \in SecretRows \cup {RestSecret} :
           secret' = row /\ detail' = FreshDetail(row)
    BY DEF Load
  <2> QED
    BY <2>1, <2>2
<1>2. /\ client' \in [status: Statuses, secret: {0}]
      /\ clientPage' = FreshClientPage(client'.status)
  BY DEF Load, ClientRows, NoClient, Statuses
<1>3. /\ stored' \in Stored /\ form' = FreshForm(stored')
      /\ handlers' = FreshHandlers
  <2>1. RestStored \in Stored
    BY DEF RestStored, Stored
  <2>2. PICK row \in Stored :
           stored' = row /\ form' = FreshForm(row) /\ handlers' = FreshHandlers
    BY <2>1 DEF Load
  <2> QED
    BY <2>2
<1>4. Loaded'
  BY <1>1, <1>2, <1>3 DEF Load, Loaded, FreshDialog, FreshCreate, NoLinks,
     NoRevokes, FreshDetail, FreshClientPage, FreshForm, FreshHandlers, Idle,
     FirstSession, FreshAccount, NoCall
<1> QED
  BY <1>4, LoadedInvNext

LEMMA NextTab ==
    ASSUME TabInv, [Next]_tabVars
    PROVE  TabInv'
<1> USE DEF TabInv
<1>0. CreateConfirmed /\ DetailConfirmed /\ ClientConfirmed
  BY ConfirmedParts
<1>1. ASSUME NEW p \in TabPages, Load(p)
      PROVE  TabInv'
  BY <1>1, LoadTab
<1>2. CASE OnCreatePage
  <2>1. CreateInv' /\ DialogStep({"revoke link"})
    BY <1>2, CreateSteps DEF OnCreatePage
  <2>2. {"revoke link"} \in SUBSET Questions
    BY DEF Questions
  <2>3. DialogInv'
    BY <2>1, <2>2, DialogSteps
  <2>4. DetailInv' /\ ClientInv' /\ EmailInv' /\ AccountInv'
    BY <1>2, <2>1, <2>2, Frames, EmailFrame, AccountFrame DEF OnCreatePage
  <2>5. /\ at' = "create" /\ detail'.remove = "none" /\ detail'.revoke = "none"
        /\ \A action \in Actions : clientPage'.call[action] = "none"
    BY <1>2 DEF OnCreatePage, RestInv, detailVars, clientVars
  <2>6. CreateConfirmed' /\ DetailConfirmed' /\ ClientConfirmed'
    BY <1>0, <1>2, <2>5, CreateConfirms
       DEF OnCreatePage, DetailConfirmed, ClientConfirmed
  <2>7. ActsOnlyOnceConfirmed' /\ RestInv'
    BY <2>5, <2>6, ConfirmedPartsNext DEF RestInv
  <2> QED
    BY <2>1, <2>3, <2>4, <2>5, <2>7 DEF TabPages
<1>3. CASE OnDetailPage
  <2>1. DetailInv' /\ DialogStep(DetailQuestions)
    BY <1>3, DetailSteps DEF OnDetailPage, DialogInv
  <2>2. DetailQuestions \in SUBSET Questions
    BY DEF Questions, DetailQuestions
  <2>3. DialogInv'
    BY <2>1, <2>2, DialogSteps
  <2>4. CreateInv' /\ ClientInv' /\ EmailInv' /\ AccountInv'
    BY <1>3, <2>1, <2>2, Frames, EmailFrame, AccountFrame
       DEF OnDetailPage, DetailQuestions
  <2>5. /\ at' = "detail" /\ revokes' = NoRevokes
        /\ \A action \in Actions : clientPage'.call[action] = "none"
    BY <1>3 DEF OnDetailPage, RestInv, createVars, clientVars
  <2>6. CreateConfirmed' /\ DetailConfirmed' /\ ClientConfirmed'
    BY <1>0, <1>3, <2>5, DetailConfirms
       DEF OnDetailPage, CreateConfirmed, ClientConfirmed, NoRevokes
  <2>7. ActsOnlyOnceConfirmed' /\ RestInv'
    BY <2>5, <2>6, ConfirmedPartsNext DEF RestInv, NoRevokes
  <2> QED
    BY <2>1, <2>3, <2>4, <2>5, <2>7 DEF TabPages
<1>4. CASE OnClientPage
  <2>1. ClientInv' /\ DialogStep(ClientQuestions)
    BY <1>4, ClientSteps DEF OnClientPage, DialogInv
  <2>2. /\ ClientQuestions \in SUBSET Questions
        /\ "revoke link" \notin ClientQuestions
        /\ "remove password" \notin ClientQuestions
    BY DEF Questions, ClientQuestions, Actions
  <2>3. DialogInv'
    BY <2>1, <2>2, DialogSteps
  <2>4. CreateInv' /\ DetailInv' /\ EmailInv' /\ AccountInv'
    BY <1>4, <2>1, <2>2, Frames, EmailFrame, AccountFrame DEF OnClientPage
  <2>5. /\ at' = "client" /\ revokes' = NoRevokes
        /\ detail'.remove = "none" /\ detail'.revoke = "none"
    BY <1>4 DEF OnClientPage, RestInv, createVars, detailVars
  <2>6. CreateConfirmed' /\ DetailConfirmed' /\ ClientConfirmed'
    BY <1>0, <1>4, <2>5, ClientConfirms
       DEF OnClientPage, CreateConfirmed, DetailConfirmed, NoRevokes
  <2>7. ActsOnlyOnceConfirmed' /\ RestInv'
    BY <2>5, <2>6, ConfirmedPartsNext DEF RestInv, NoRevokes
  <2> QED
    BY <2>1, <2>3, <2>4, <2>5, <2>7 DEF TabPages
<1>5. ASSUME UNCHANGED <<at, dialog, createVars, detailVars, clientVars>>,
             EmailInv', AccountInv'
      PROVE  TabInv'
  <2>1. DialogInv'
    BY <1>5 DEF DialogInv, DialogTypeOK
  <2>2. {} \in SUBSET Questions /\ DialogStep({})
    BY <1>5 DEF DialogStep
  <2>3. CreateInv' /\ DetailInv' /\ ClientInv'
    BY <1>5, <2>2, Frames
  <2>4. RestInv' /\ ActsOnlyOnceConfirmed'
    BY <1>5 DEF RestInv, NoRevokes, ActsOnlyOnceConfirmed, createVars,
                detailVars, clientVars
  <2> QED
    BY <1>5, <2>1, <2>3, <2>4
<1>6. CASE OnEmailPage
  BY <1>5, <1>6, EmailSteps, AccountFrame DEF OnEmailPage
<1>7. CASE OnAccountPage
  BY <1>5, <1>7, EmailFrame, AccountSteps DEF OnAccountPage
<1>8. CASE UNCHANGED tabVars
  BY <1>5, <1>8, EmailFrame, AccountFrame DEF tabVars
<1> QED
  BY <1>1, <1>2, <1>3, <1>4, <1>6, <1>7, <1>8 DEF Next

(* The invariant of the tab: one part for each page, of which all but one  *)
(* rest, and the dialog they share.                                        *)
THEOREM TabInvariant ==
    Spec => []TabInv
<1>1. TabInv /\ [Next]_tabVars => TabInv'
  BY NextTab
<1> QED
  BY InitTab, <1>1, PTL DEF Spec

---------------------------------------------------------------------------
(* Every variable of the pages keeps its type, whatever the numbers of     *)
(* links, names, secrets and sessions.                                     *)
THEOREM TabTypes ==
    Spec => []TypeOK
<1>1. TabInv => TypeOK
  BY DEF TabInv, TypeOK, DialogInv, CreateInv, DetailInv, ClientInv, EmailInv,
         AccountInv
<1> QED
  BY TabInvariant, <1>1, PTL

(* No revocation, removal of a password or action on an API client goes    *)
(* out before Confirm has been pressed on the page (web/static/admin.js,   *)
(* 623-632).                                                               *)
THEOREM ConfirmedActions ==
    Spec => []ActsOnlyOnceConfirmed
<1>1. TabInv => ActsOnlyOnceConfirmed
  BY DEF TabInv
<1> QED
  BY TabInvariant, <1>1, PTL

(* The visible panel copies and revokes one and the same link              *)
(* (web/static/admin.js, 337-358 and 477-489).                             *)
THEOREM PanelIsOfOneLink ==
    Spec => []PanelNamesOneLink
<1>1. TabInv => PanelNamesOneLink
  BY DEF TabInv, CreateInv
<1> QED
  BY TabInvariant, <1>1, PTL

(* A revocation goes out for the link that the panel showed when the       *)
(* administrator was asked (web/static/admin.js, 464-468).                 *)
THEOREM RevokesTheShownLink ==
    Spec => RevokesWhatWasShown
<1>1. TabInv /\ [Next]_tabVars =>
        [\A l \in Links : revokes[l] = "none" /\ revokes'[l] = "sent"
             => l = create.asked /\ links[l] # "none"]_createVars
  <2> SUFFICES ASSUME TabInv, [Next]_tabVars, NEW l \in Links,
                      revokes[l] = "none", revokes'[l] = "sent"
               PROVE  l = create.asked /\ links[l] # "none"
    OBVIOUS
  <2>1. CreateInv /\ revokes \in [Links -> Fetch]
    BY DEF TabInv, CreateInv, CreateTypeOK
  <2>2. ASSUME UNCHANGED revokes
        PROVE  FALSE
    BY <2>2
  <2>3. ASSUME NEW p \in TabPages, Load(p)
        PROVE  FALSE
    BY <2>3 DEF Load, NoRevokes
  <2>4. ASSUME NEW button \in Buttons, RevokeClosed(button)
        PROVE  l = create.asked /\ links[l] # "none"
    <3>1. dialog.question = "revoke link" /\ l = create.id
      BY <2>1, <2>4 DEF RevokeClosed, Close
    <3> QED
      BY <2>1, <3>1 DEF CreateInv, PanelNamesOneLink
  <2>5. ASSUME NEW k \in Links,
               RevokeArrives(k) \/ RevokeAnswered(k) \/ RevokeLost(k)
        PROVE  FALSE
    BY <2>1, <2>5 DEF RevokeArrives, RevokeAnswered, RevokeLost
  <2>6. CASE OnCreatePage
    BY <2>2, <2>4, <2>5, <2>6
       DEF OnCreatePage, CreateNext, AddStructuredField, Rename, RemoveRow,
           MoveRow, Edit, SubmitInvalid, Submit, PostRefused, PostAnswered,
           PostLost, CreateAnother, AskRevoke, PostCreates, LinkEnds
  <2>7. CASE OnDetailPage \/ OnClientPage \/ OnEmailPage \/ OnAccountPage
              \/ UNCHANGED tabVars
    BY <2>2, <2>7 DEF OnDetailPage, OnClientPage, OnEmailPage, OnAccountPage,
                      tabVars, createVars
  <2> QED
    BY <2>3, <2>6, <2>7 DEF Next
<1> QED
  BY TabInvariant, <1>1, PTL DEF Spec, RevokesWhatWasShown

(* The form lets out no structured fields that the server refuses for      *)
(* anything but a long name (web/static/admin.js, 287-311;                 *)
(* internal/delivery/service.go, 433-450).                                 *)
THEOREM FormMatchesServer ==
    Spec => FieldsAreAccepted
<1> DEFINE Fits(rows) == \/ NormalizePayload(rows)
                         \/ \E i \in DOMAIN rows : rows[i] \in Long
<1>1. TabInv /\ [Next]_tabVars =>
        [create.call = "none" /\ create'.call = "structured"
             => Fits(create'.rows)]_createVars
  <2> SUFFICES ASSUME TabInv, [Next]_tabVars,
                      create.call = "none", create'.call = "structured"
               PROVE  Fits(create'.rows)
    OBVIOUS
  <2>1. CreateInv /\ CreateTypeOK
    BY DEF TabInv, CreateInv
  <2>2. ~UNCHANGED create
    OBVIOUS
  <2>3. ASSUME NEW p \in TabPages, Load(p)
        PROVE  FALSE
    BY <2>3 DEF Load, FreshCreate
  <2>4. ASSUME Submit("structured")
        PROVE  Fits(create'.rows)
    <3>1. create'.rows = create.rows /\ StructuredPayload(create.rows)
      BY <2>1, <2>4 DEF Submit, Submittable, Hidden, CreateTypeOK
    <3>2. Len(create.rows) <= MaxFields
      BY <2>1 DEF CreateInv
    <3> QED
      BY <3>1, <3>2 DEF StructuredPayload, NormalizePayload
  <2>5. CASE OnCreatePage
    <3>1. ASSUME NEW kind \in {"structured", "plain"}, Submit(kind)
          PROVE  kind = "structured"
      BY <2>1, <3>1 DEF Submit, Submittable, Hidden, CreateTypeOK
    <3>2. ASSUME create'.call = create.call
          PROVE  FALSE
      BY <3>2
    <3>3. CASE \E rows : Edit(rows)
      BY <2>1, <3>2, <3>3 DEF Edit, CreateTypeOK
    <3>4. CASE SubmitInvalid \/ CreateAnother
      BY <2>1, <3>2, <3>4 DEF SubmitInvalid, Submittable, Hidden, CreateAnother,
                              CreateTypeOK
    <3>5. CASE AskRevoke \/ \E button \in Buttons : RevokeClosed(button)
      BY <2>1, <3>2, <3>5 DEF AskRevoke, RevokeClosed, CreateTypeOK
    <3>6. ASSUME NEW l \in Links, RevokeAnswered(l)
          PROVE  FALSE
      BY <2>1, <3>2, <3>6 DEF RevokeAnswered, CreateTypeOK
    <3>7. ~(PostRefused \/ PostAnswered \/ PostLost \/ \E l \in Links : PostCreates(l))
      BY DEF PostRefused, PostAnswered, PostLost, PostCreates
    <3>8. ~\E l \in Links : LinkEnds(l) \/ RevokeArrives(l) \/ RevokeLost(l)
      BY <2>2 DEF LinkEnds, RevokeArrives, RevokeLost
    <3> QED
      BY <2>4, <2>5, <3>1, <3>3, <3>4, <3>5, <3>6, <3>7, <3>8
         DEF OnCreatePage, CreateNext, AddStructuredField, Rename, RemoveRow, MoveRow
  <2>6. CASE OnDetailPage \/ OnClientPage \/ OnEmailPage \/ OnAccountPage
              \/ UNCHANGED tabVars
    BY <2>2, <2>6 DEF OnDetailPage, OnClientPage, OnEmailPage, OnAccountPage,
                      tabVars, createVars
  <2> QED
    BY <2>3, <2>5, <2>6 DEF Next
<1> QED
  BY TabInvariant, <1>1, PTL DEF Spec, FieldsAreAccepted

(* The detail page says of an active link whether it has a password as the *)
(* server has it (web/static/admin.js, 546-621).                           *)
THEOREM DetailTellsTheTruth ==
    Spec => []SaysWhatIsStored
<1>1. TabInv => SaysWhatIsStored
  BY DEF TabInv, DetailInv
<1> QED
  BY TabInvariant, <1>1, PTL

(* A secret that a page of API clients shows is the one in force unless    *)
(* others replaced it (web/static/admin.js, 772-858).                      *)
THEOREM ShownSecretIsInForce ==
    Spec => []ShownSecretWorks
<1>1. TabInv => ShownSecretWorks
  BY DEF TabInv, ClientInv
<1> QED
  BY TabInvariant, <1>1, PTL

(* What a test or an enabling finds on the server is what the form said    *)
(* when its button was pressed (web/static/admin.js, 1020-1074).           *)
THEOREM TestsWhatWasSaved ==
    Spec => []SavedBeforeTested
<1>1. TabInv => SavedBeforeTested
  BY DEF TabInv, EmailInv, SavedBeforeTested
<1> QED
  BY TabInvariant, <1>1, PTL

(* A browser that changes the password and revokes other sessions keeps a  *)
(* session that is open (web/static/admin.js, 860-902;                     *)
(* internal/http/server.go, 804-854).                                      *)
THEOREM BrowserStaysSignedIn ==
    Spec => []StaysSignedIn
<1>1. TabInv => StaysSignedIn
  BY DEF TabInv, AccountInv, StaysSignedIn
<1> QED
  BY TabInvariant, <1>1, PTL
=============================================================================
