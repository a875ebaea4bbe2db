----------------------------- MODULE CreatePage -----------------------------
(***************************************************************************)
(* The page that creates a link (web/static/admin.js, setupCreateSecret):  *)
(* a form with structured fields, the call that creates the link, and the  *)
(* panel that shows its URL and can revoke it.  The form stays editable    *)
(* while the call is out.  One revocation of a link is out at a time.      *)
(***************************************************************************)
EXTENDS ConfirmDialog, Naturals, Sequences, SequencesExt

CONSTANTS
    Links,      \* what the server may create (bounds the creations)
    Names,      \* what a field's name may read, trimmed
    Blank,      \* the empty name
    WellFormed, \* names of letters, digits, dots, dashes, underscores
    Long,       \* names of more than 100 characters
    Lower,      \* their lower case
    Presets,    \* the names in the picker
    MaxFields

ASSUME CreateAssumption ==
    /\ Null \notin Links
    /\ Blank \in Names \ WellFormed
    /\ WellFormed \subseteq Names
    /\ Presets \subseteq WellFormed
    /\ Lower \in [Names -> Names]
    /\ Lower[Blank] = Blank
    /\ MaxFields \in Nat

VARIABLES
    create,     \* the page
    links,      \* the server's links
    revokes     \* the page's revocation of each link

createVars == <<create, links, revokes>>

CreateTypeOK ==
    /\ create \in [rows     : Seq(Names),
                   call     : {"none", "structured", "plain", "ok", "refused"},
                   made     : Links \cup {Null},    \* in the answer
                   id       : Links \cup {Null},    \* createdID
                   shown    : Links \cup {Null},    \* whose URL is in the panel
                   open     : BOOLEAN,              \* the panel is visible
                   revocable: BOOLEAN,              \* its button is enabled
                   asked    : Links \cup {Null},    \* the dialog is about
                   status   : {"", "creating", "created", "failed"}]
    /\ links \in [Links -> {"none", "active", "ended"}]
    /\ revokes \in [Links -> Fetch]

FreshCreate ==
    [rows |-> <<>>, call |-> "none", made |-> Null, id |-> Null,
     shown |-> Null, open |-> FALSE, revocable |-> TRUE, asked |-> Null,
     status |-> ""]

NoLinks == [l \in Links |-> "none"]
NoRevokes == [l \in Links |-> "none"]

---------------------------------------------------------------------------
(* The fields *)

Edit(rows) ==
    /\ Clickable
    /\ create' = [create EXCEPT !.rows = rows]
    /\ UNCHANGED <<dialog, links, revokes>>

CurrentFieldNames == {Lower[n] : n \in ToSet(create.rows)} \ {Blank}

(* From the picker, or an empty row for a name of one's own. *)
AddStructuredField(name) ==
    /\ Len(create.rows) < MaxFields
    /\ Lower[name] \notin CurrentFieldNames
    /\ Edit(Append(create.rows, Lower[name]))

(* Typing is not checked before the form is submitted. *)
Rename(i, name) == Edit([create.rows EXCEPT ![i] = name])

RemoveRow(i) == Edit(RemoveAt(create.rows, i))

(* Up and down are the same exchange of two neighbours. *)
MoveRow(i) ==
    /\ i < Len(create.rows)
    /\ Edit([create.rows EXCEPT ![i] = create.rows[i + 1],
                                ![i + 1] = create.rows[i]])

Distinct(rows) ==
    \A i, j \in DOMAIN rows : i # j => Lower[rows[i]] # Lower[rows[j]]

(* Mutant: fields are not compared with those before them. *)
StructuredPayloadUnseen(rows) ==
    rows # <<>> /\ \A i \in DOMAIN rows : rows[i] \in WellFormed

StructuredPayload(rows) ==
    /\ rows # <<>>
    /\ \A i \in DOMAIN rows : rows[i] \in WellFormed
    /\ Distinct(rows)

(* What the server asks of the fields. *)
NormalizePayload(rows) ==
    /\ rows # <<>> /\ Len(rows) <= MaxFields
    /\ \A i \in DOMAIN rows : rows[i] \in WellFormed \ Long
    /\ Distinct(rows)

---------------------------------------------------------------------------
(* Creating a link *)

Hidden(page) == [page EXCEPT !.open = FALSE, !.status = ""]

(* Mutant: the panel of the link before stays. *)
SubmittableVisible == [create EXCEPT !.status = ""]

(* The submit button is disabled while the call is out. *)
Submittable == Hidden(create)

SubmitInvalid ==
    /\ Clickable /\ create.call = "none"
    /\ create' = [Submittable EXCEPT !.status = "failed"]
    /\ UNCHANGED <<dialog, links, revokes>>

Submit(kind) ==
    /\ Clickable /\ create.call = "none"
    /\ kind = "structured" => StructuredPayload(create.rows)
    /\ create' = [Submittable EXCEPT !.call = kind, !.status = "creating"]
    /\ UNCHANGED <<dialog, links, revokes>>

PostCreates(l) ==
    /\ create.call \in {"structured", "plain"}
    /\ links[l] = "none"
    /\ links' = [links EXCEPT ![l] = "active"]
    /\ create' = [create EXCEPT !.call = "ok", !.made = l]
    /\ UNCHANGED <<dialog, revokes>>

PostRefused ==
    /\ create.call \in {"structured", "plain"}
    /\ create' = [create EXCEPT !.call = "refused"]
    /\ UNCHANGED <<dialog, links, revokes>>

Settled(status) ==
    [create EXCEPT !.call = "none", !.made = Null, !.status = status]

FillResult(l) ==
    [Settled("created") EXCEPT !.id = l, !.shown = l, !.open = TRUE,
                               !.revocable = TRUE]

(* A body that breaks off is read as an object without an id. *)
PostAnswered ==
    /\ \/ create.call = "ok" /\ \E l \in {create.made, Null} : create' = FillResult(l)
       \/ create.call = "refused" /\ create' = Settled("failed")
    /\ UNCHANGED <<dialog, links, revokes>>

(* No catch: the status line goes on saying that the link is created.      *)
PostLost ==
    /\ create.call # "none"
    /\ create' = Settled(create.status)
    /\ UNCHANGED <<dialog, links, revokes>>

(* Mutant: the panel stays open. *)
CreateAnotherOpen ==
    /\ Clickable /\ create.open
    /\ create' = [create EXCEPT !.status = "", !.id = Null, !.rows = <<>>]
    /\ UNCHANGED <<dialog, links, revokes>>

(* The URL stays in the hidden panel. *)
CreateAnother ==
    /\ Clickable /\ create.open
    /\ create' = [Hidden(create) EXCEPT !.id = Null, !.rows = <<>>]
    /\ UNCHANGED <<dialog, links, revokes>>

---------------------------------------------------------------------------
(* Revoking it *)

AskRevoke ==
    /\ create.open /\ create.revocable
    /\ create.id # Null /\ revokes[create.id] = "none"
    /\ Ask("revoke link")
    /\ create' = [create EXCEPT !.asked = create.shown]
    /\ UNCHANGED <<links, revokes>>

(* createdID is read again when the dialog closes. *)
RevokeClosed(button) ==
    /\ Close("revoke link", button)
    /\ revokes' = IF Agrees(button) THEN [revokes EXCEPT ![create.id] = "sent"]
                                    ELSE revokes
    /\ create' = [create EXCEPT !.asked = Null]
    /\ UNCHANGED links

RevokeArrives(l) ==
    /\ revokes[l] = "sent"
    /\ \/ /\ links[l] = "active"
          /\ links' = [links EXCEPT ![l] = "ended"]
          /\ revokes' = [revokes EXCEPT ![l] = "ok"]
       \/ revokes' = [revokes EXCEPT ![l] = "refused"] /\ UNCHANGED links
    /\ UNCHANGED <<dialog, create>>

(* The button it disables is that of whichever link is shown by then.      *)
RevokeAnswered(l) ==
    /\ revokes[l] \in {"ok", "refused"}
    /\ create' = [create EXCEPT !.revocable = @ /\ revokes[l] = "refused"]
    /\ revokes' = [revokes EXCEPT ![l] = "none"]
    /\ UNCHANGED <<dialog, links>>

RevokeLost(l) ==
    /\ revokes[l] # "none"
    /\ revokes' = [revokes EXCEPT ![l] = "none"]
    /\ UNCHANGED <<dialog, create, links>>

(* Opened, expired or revoked by others. *)
LinkEnds(l) ==
    /\ links[l] = "active"
    /\ links' = [links EXCEPT ![l] = "ended"]
    /\ UNCHANGED <<dialog, create, revokes>>

CreateNext ==
    \/ \E name \in Presets \cup {Blank} : AddStructuredField(name)
    \/ \E i \in DOMAIN create.rows, name \in Names : Rename(i, name)
    \/ \E i \in DOMAIN create.rows : RemoveRow(i) \/ MoveRow(i)
    \/ SubmitInvalid
    \/ \E kind \in {"structured", "plain"} : Submit(kind)
    \/ PostRefused \/ PostAnswered \/ PostLost
    \/ CreateAnother
    \/ AskRevoke
    \/ \E button \in Buttons : RevokeClosed(button)
    \/ \E l \in Links : \/ PostCreates(l) \/ LinkEnds(l)
                        \/ RevokeArrives(l) \/ RevokeAnswered(l) \/ RevokeLost(l)

---------------------------------------------------------------------------
(* A revocation goes out only for the link that the panel showed when the  *)
(* administrator was asked, although the handler reads createdID again     *)
(* after the answer (web/static/admin.js, 464-468).                        *)
RevokesWhatWasShown ==
    [][\A l \in Links : revokes[l] = "none" /\ revokes'[l] = "sent"
                            => l = create.asked /\ links[l] # "none"]_createVars

(* The link whose URL the visible panel offers to copy is the one that its *)
(* Revoke button would revoke; a link the server never reported has        *)
(* neither (web/static/admin.js, 337-358 and 477-489).                     *)
PanelNamesOneLink ==
    create.open => /\ create.id = create.shown
                   /\ create.id # Null => links[create.id] # "none"

(* Structured fields that the form lets out, however they were added,      *)
(* renamed and moved, are refused by the server for a long name at most    *)
(* (web/static/admin.js, 287-311; internal/delivery/service.go, 433-450).  *)
FieldsAreAccepted ==
    [][create.call = "none" /\ create'.call = "structured"
           => \/ NormalizePayload(create'.rows)
              \/ \E i \in DOMAIN create'.rows : create'.rows[i] \in Long]_createVars
=============================================================================
