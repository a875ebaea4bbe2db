------------------------------ MODULE EmailPage ------------------------------
(***************************************************************************)
(* The page of the e-mail settings (web/static/admin.js,                   *)
(* setupEmailSettings).  Each button has a handler of one or two calls:    *)
(* all but Disable save the form first, and test or enable afterwards.     *)
(* Handlers may overlap, two at a time (the bound here), and the form can  *)
(* be edited throughout.                                                   *)
(***************************************************************************)
EXTENDS Naturals, FiniteSets

VARIABLES
    stored,     \* the server's settings
    form,       \* the values on the page
    handlers    \* of the buttons

emailVars == <<stored, form, handlers>>

Handlers == {"save", "test-connection", "enable", "disable", "send-test"}

Forms == [enabled: BOOLEAN, password: {"keep", "new", "clear"}]
Stored == [enabled: BOOLEAN, password: BOOLEAN]     \* a password is stored

EmailTypeOK ==
    /\ stored \in Stored
    /\ form \in Forms
    /\ handlers \in
        [Handlers -> [stage: {"idle",
                              "saving",     \* the PUT is on its way,
                              "saved", "rejected",              \* answered
                              "acting",     \* the POST is on its way,
                              "acted"},                         \* answered
                      sent : Forms,         \* what the PUT carries
                      overwritten: BOOLEAN]]    \* by others (history)

FreshForm(settings) == [enabled |-> settings.enabled, password |-> "keep"]

Idle == [stage |-> "idle", sent |-> [enabled |-> FALSE, password |-> "keep"],
         overwritten |-> FALSE]

FreshHandlers == [h \in Handlers |-> Idle]

Busy == {h \in Handlers : handlers[h].stage # "idle"}

Stage(h, stage) ==
    handlers' = [handlers EXCEPT ![h] = IF stage = "idle" THEN Idle
                                        ELSE [@ EXCEPT !.stage = stage]]

(* What another's write leaves of a handler. *)
Overwrite(k) == [handlers[k] EXCEPT !.overwritten = k \in Busy]

(* h has written the settings. *)
Wrote(h, stage) ==
    handlers' = [k \in Handlers |->
        IF k = h THEN [handlers[k] EXCEPT !.stage = stage, !.overwritten = FALSE]
                 ELSE Overwrite(k)]

EditForm(values) ==
    /\ form' = values
    /\ UNCHANGED <<stored, handlers>>

Press(h) ==
    /\ h \notin Busy /\ Cardinality(Busy) < 2
    /\ handlers' = [handlers EXCEPT ![h] =
            [stage |-> IF h = "disable" THEN "acting" ELSE "saving",
             sent |-> form, overwritten |-> FALSE]]
    /\ UNCHANGED <<stored, form>>

Saved(values) ==
    [enabled  |-> values.enabled,
     password |-> CASE values.password = "keep"  -> stored.password
                    [] values.password = "new"   -> TRUE
                    [] values.password = "clear" -> FALSE]

SaveArrives(h) ==
    /\ handlers[h].stage = "saving"
    /\ stored' = Saved(handlers[h].sent)
    /\ Wrote(h, "saved")
    /\ UNCHANGED form

SaveRejected(h) ==
    /\ handlers[h].stage = "saving"
    /\ Stage(h, "rejected")
    /\ UNCHANGED <<stored, form>>

(* Mutant: the second call is made whatever became of the first. *)
SecondCallAnyhow(h) == IF h = "save" THEN "idle" ELSE "acting"

(* saveCurrentSettings(...).ok *)
SecondCall(h) ==
    IF h # "save" /\ handlers[h].stage = "saved" THEN "acting" ELSE "idle"

(* The password fields are emptied, also of what was typed meanwhile. *)
SaveAnswered(h) ==
    /\ handlers[h].stage \in {"saved", "rejected"}
    /\ form' = IF handlers[h].stage = "saved"
               THEN [form EXCEPT !.password = "keep"] ELSE form
    /\ Stage(h, SecondCall(h))
    /\ UNCHANGED stored

(* Enable and Disable write the one column the server's way. *)
ActionReached(h) ==
    /\ handlers[h].stage = "acting"
    /\ \/ /\ h \in {"enable", "disable"}
          /\ stored' = [stored EXCEPT !.enabled = (h = "enable")]
          /\ Wrote(h, "acted")
       \/ Stage(h, "acted") /\ UNCHANGED stored
    /\ UNCHANGED form

(* The checkbox keeps what it said before Enable or Disable. *)
ActionDone(h) ==
    /\ handlers[h].stage = "acted"
    /\ Stage(h, "idle")
    /\ UNCHANGED <<stored, form>>

(* The finally; nothing is reported. *)
HandlerFails(h) ==
    /\ handlers[h].stage # "idle"
    /\ Stage(h, "idle")
    /\ UNCHANGED <<stored, form>>

OthersSave ==
    /\ stored' \in Stored
    /\ handlers' = [k \in Handlers |-> Overwrite(k)]
    /\ UNCHANGED form

EmailNext ==
    \/ \E values \in Forms : EditForm(values)
    \/ \E h \in Handlers : \/ Press(h) \/ SaveArrives(h) \/ SaveRejected(h)
                           \/ ActionReached(h) \/ SaveAnswered(h)
                           \/ ActionDone(h) \/ HandlerFails(h)
    \/ OthersSave

---------------------------------------------------------------------------
(* A test, or an enabling, that reaches the server finds the settings that *)
(* the form had when the button was pressed, unless somebody else wrote    *)
(* in between: ``Test Connection and Send Test Email save the current form *)
(* values first'' (web/templates/email_settings.html, 63;                  *)
(* web/static/admin.js, 1020-1074).                                        *)
SavedBeforeTested ==
    \A h \in Handlers \ {"disable"} :
        LET sent == handlers[h].sent
        IN  handlers[h].stage = "acting" /\ ~handlers[h].overwritten
               => /\ stored.enabled = sent.enabled
                  /\ sent.password # "keep" => stored.password = (sent.password = "new")
=============================================================================
