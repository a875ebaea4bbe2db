---------------------------- MODULE AccountPage ----------------------------
(***************************************************************************)
(* The account page of one browser (web/static/admin.js, setupAccount):    *)
(* it changes the password, which replaces the session, revokes the other  *)
(* sessions and logs out.  The cookie belongs to the browser and changes   *)
(* under the page; the CSRF token is in the page and stays.  The statement *)
(* by statement view of the server is Accounts.                            *)
(***************************************************************************)
EXTENDS Naturals

CONSTANT MaxSessions    \* bounds the sessions of the account

ASSUME AccountPageAssumption == MaxSessions \in Nat \ {0}

VARIABLES
    sessions,   \* of the account, on the server
    account     \* the browser and its page

accountVars == <<sessions, account>>

SessionIds == 1..MaxSessions

Call == [stage : {"none", "sent", "ok", "refused"},
         cookie: SessionIds,    \* sent along
         token : SessionIds]    \* the session its CSRF token is bound to

AccountTypeOK ==
    /\ sessions \in [live: SUBSET SessionIds, opened: 0..MaxSessions]
    /\ account \in
        [cookie: SessionIds,
         token : SessionIds,    \* the page's, in a meta tag and a form
         change: Call,          \* POST /api/v1/me/password
         revoke: Call,          \* POST /api/v1/me/sessions/revoke-other
         left  : {"no", "forbidden", "login"},     \* for which page
         cut   : BOOLEAN]       \* others ended it, or an answer was lost

NoCall == [stage |-> "none", cookie |-> 1, token |-> 1]
FirstSession == [live |-> {1}, opened |-> 1]
FreshAccount ==
    [cookie |-> 1, token |-> 1, change |-> NoCall, revoke |-> NoCall,
     left |-> "no", cut |-> FALSE]

(* Of a call, or of the browser with its page. *)
ValidCSRF(call) == call.token = call.cookie

Authorised(call) == call.cookie \in sessions.live /\ ValidCSRF(call)

SetAccount(field, value) == account' = [account EXCEPT ![field] = value]

(* The cookie and the token are those of the moment it is sent. *)
StartCall(call) ==
    SetAccount(call, [stage |-> "sent", cookie |-> account.cookie,
                      token |-> account.token])

(* The submit button is disabled while the call is out. *)
SubmitChange ==
    /\ account.change.stage = "none"
    /\ StartCall("change")
    /\ UNCHANGED sessions

(* The page has no dialog: window.confirm stops the page, so that asking   *)
(* and agreeing is one step.  One such call is out at a time, the bound.   *)
RevokeOthers ==
    /\ account.revoke.stage = "none"
    /\ StartCall("revoke")
    /\ UNCHANGED sessions

NextSession == sessions.opened + 1

(* The new session stands alone; its cookie comes with the answer. *)
ChangeArrives ==
    /\ account.change.stage = "sent" /\ Authorised(account.change)
    /\ sessions.opened < MaxSessions
    /\ sessions' = [live |-> {NextSession}, opened |-> NextSession]
    /\ account' = [account EXCEPT !.change.stage = "ok",
                                  !.change.cookie = NextSession]

(* Others are also those that this browser opened after it sent the call.  *)
RevokeOthersArrives ==
    /\ account.revoke.stage = "sent" /\ Authorised(account.revoke)
    /\ sessions' = [sessions EXCEPT !.live = {account.revoke.cookie}]
    /\ account' = [account EXCEPT !.revoke.stage = "ok",
                                  !.cut = @ \/ account.cookie # account.revoke.cookie]

CallRefused(call) ==
    /\ account[call].stage = "sent"
    /\ account' = [account EXCEPT ![call].stage = "refused"]
    /\ UNCHANGED sessions

(* Mutant: the cookie is set before the old one is cleared. *)
CookieBefore == account.cookie

(* Destroy clears the cookie before CreateForUser sets it. *)
CookieAfter == account.change.cookie

(* The csrf_token of the answer is not read: the page keeps its own.       *)
ChangeAnswered ==
    /\ account.change.stage \in {"ok", "refused"}
    /\ account' = [account EXCEPT
            !.change.stage = "none",
            !.cookie = IF account.change.stage = "ok" THEN CookieAfter ELSE @]
    /\ UNCHANGED sessions

(* Success reloads the page: a change that is out is abandoned.            *)
Reloaded ==
    [account EXCEPT !.revoke = NoCall, !.change = NoCall,
                    !.token = account.cookie,
                    !.left = IF account.cookie \in sessions.live THEN "no" ELSE "login",
                    !.cut = @ \/ account.change.stage \in {"sent", "ok"}]

RevokeOthersAnswered ==
    /\ account.revoke.stage \in {"ok", "refused"}
    /\ account' = IF account.revoke.stage = "ok" THEN Reloaded
                  ELSE [account EXCEPT !.revoke.stage = "none"]
    /\ UNCHANGED sessions

CallLost(call) ==
    /\ account[call].stage # "none"
    /\ account' = [account EXCEPT
            ![call].stage = "none",
            !.cut = @ \/ (call = "change" /\ account.change.stage = "ok")]
    /\ UNCHANGED sessions

(* The form carries the page's token; a session that has ended is as good  *)
(* as logged out.                                                          *)
Logout ==
    \/ /\ account.cookie \notin sessions.live
       /\ SetAccount("left", "login") /\ UNCHANGED sessions
    \/ /\ Authorised(account)
       /\ sessions' = [sessions EXCEPT !.live = @ \ {account.cookie}]
       /\ SetAccount("left", "login")
    \/ /\ account.cookie \in sessions.live /\ ~ValidCSRF(account)
       /\ SetAccount("left", "forbidden") /\ UNCHANGED sessions

(* In another tab of this browser, where the login closes the session of   *)
(* the cookie it finds and replaces the cookie, or elsewhere.              *)
LoginElsewhere ==
    /\ sessions.opened < MaxSessions
    /\ \E cookie \in {account.cookie, NextSession} :
          /\ account' = [account EXCEPT !.cookie = cookie]
          /\ sessions' = [opened |-> NextSession,
                          live   |-> {NextSession} \cup
                              (sessions.live \ IF cookie = NextSession
                                               THEN {account.cookie} ELSE {})]

(* Logged out, revoked or expired there. *)
EndedElsewhere ==
    /\ \E s \in sessions.live : sessions' = [sessions EXCEPT !.live = @ \ {s}]
    /\ SetAccount("cut", TRUE)

AccountNext ==
    /\ account.left = "no"
    /\ \/ SubmitChange \/ RevokeOthers
       \/ \E call \in {"change", "revoke"} : CallRefused(call) \/ CallLost(call)
       \/ ChangeArrives \/ ChangeAnswered
       \/ RevokeOthersArrives \/ RevokeOthersAnswered
       \/ Logout \/ LoginElsewhere \/ EndedElsewhere

---------------------------------------------------------------------------
(* A browser that changes the password and revokes other sessions, in any  *)
(* overlap and beside other logins, keeps a session that is open: it is    *)
(* signed out only by a lost answer, by a page it left while the change    *)
(* was out, or by somebody else (web/static/admin.js, 860-902;             *)
(* internal/http/server.go, 804-854).                                      *)
StaysSignedIn ==
    ~account.cut /\ account.left = "no" /\ account.change.stage # "ok"
        => account.cookie \in sessions.live
=============================================================================
