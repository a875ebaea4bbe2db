------------------------------ MODULE AdminTab ------------------------------
(***************************************************************************)
(* One tab of the administration: it loads a page, and that page's         *)
(* handlers (web/static/admin.js sets them all up, each finds its own      *)
(* elements or none) run until the next load.  A load begins with a new    *)
(* document: state, dialog and calls of the page before are gone, and what *)
(* those calls still do on the server is done by ``others''.               *)
(***************************************************************************)
EXTENDS CreatePage, DetailPage, ClientPage, EmailPage, AccountPage

VARIABLE at     \* the page in the tab

tabVars == <<at, dialog, createVars, detailVars, clientVars, emailVars, accountVars>>

TabPages == {"create", "detail", "client", "email", "account"}

(* What the server has when a page is rendered. *)
SecretRows == [active: {TRUE}, protected: BOOLEAN]
ClientRows == [status: Statuses, secret: {0}]

(* A page that is not in the tab rests in one state. *)
RestSecret == [active |-> TRUE, protected |-> FALSE]
RestStored == [enabled |-> FALSE, password |-> FALSE]

TypeOK ==
    /\ at \in TabPages \cup {"none"}
    /\ DialogTypeOK
    /\ CreateTypeOK
    /\ DetailTypeOK
    /\ ClientTypeOK
    /\ EmailTypeOK
    /\ AccountTypeOK

Init ==
    /\ at = "none"
    /\ dialog = FreshDialog
    /\ create = FreshCreate /\ links = NoLinks /\ revokes = NoRevokes
    /\ secret = RestSecret /\ detail = FreshDetail(RestSecret)
    /\ client = NoClient /\ clientPage = FreshClientPage("new")
    /\ stored = RestStored /\ form = FreshForm(RestStored)
    /\ handlers = FreshHandlers
    /\ sessions = FirstSession /\ account = FreshAccount

Load(p) ==
    /\ at' = p
    /\ dialog' = FreshDialog
    /\ create' = FreshCreate /\ links' = NoLinks /\ revokes' = NoRevokes
    /\ \E row \in IF p = "detail" THEN SecretRows ELSE {RestSecret} :
          secret' = row /\ detail' = FreshDetail(row)
    /\ \E row \in IF p = "client" THEN ClientRows ELSE {NoClient} :
          client' = row /\ clientPage' = FreshClientPage(row.status)
    /\ \E row \in IF p = "email" THEN Stored ELSE {RestStored} :
          /\ stored' = row /\ form' = FreshForm(row)
          /\ handlers' = FreshHandlers
    /\ sessions' = FirstSession /\ account' = FreshAccount

OnCreatePage ==
    /\ at = "create" /\ CreateNext
    /\ UNCHANGED <<at, detailVars, clientVars, emailVars, accountVars>>

OnDetailPage ==
    /\ at = "detail" /\ DetailNext
    /\ UNCHANGED <<at, createVars, clientVars, emailVars, accountVars>>

OnClientPage ==
    /\ at = "client" /\ ClientNext
    /\ UNCHANGED <<at, createVars, detailVars, emailVars, accountVars>>

OnEmailPage ==
    /\ at = "email" /\ EmailNext
    /\ UNCHANGED <<at, dialog, createVars, detailVars, clientVars, accountVars>>

OnAccountPage ==
    /\ at = "account" /\ AccountNext
    /\ UNCHANGED <<at, dialog, createVars, detailVars, clientVars, emailVars>>

Next ==
    \/ \E p \in TabPages : Load(p)
    \/ OnCreatePage \/ OnDetailPage \/ OnClientPage
    \/ OnEmailPage \/ OnAccountPage

Spec == Init /\ [][Next]_tabVars

---------------------------------------------------------------------------
(* Whatever asks before it acts sends its request only after Confirm has   *)
(* been pressed on the page since it was loaded; the dialog's return value *)
(* outlives the question it answered, so a later Escape may repeat it      *)
(* (web/static/admin.js, 623-632).                                         *)
ActsOnlyOnceConfirmed ==
    (\/ \E l \in Links : revokes[l] # "none"
     \/ detail.remove # "none" \/ detail.revoke # "none"
     \/ \E action \in Actions \ {"create"} : clientPage.call[action] # "none")
        => dialog.confirmed
=============================================================================
