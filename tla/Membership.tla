----------------------------- MODULE Membership -----------------------------
(***************************************************************************)
(* What signing in to an account promises: a session is opened only for a  *)
(* request that offered the password in force, while the user was active;  *)
(* it is closed for good; and a request is let in only through an open     *)
(* session of an active user.  Who was let in stays inside, and who was    *)
(* granted a session may still open it, whatever happens meanwhile.        *)
(***************************************************************************)
CONSTANTS Requests, Passwords, None

VARIABLES
    active,
    password,    \* the one in force
    offered,     \* what each request that may open a session offered, or None
    open,        \* sessions, each named after the request that opened it
    closed,
    through      \* the session each request inside was let in through, or None

vars == <<active, password, offered, open, closed, through>>

Init ==
    /\ active = TRUE
    /\ password \in Passwords
    /\ offered = [r \in Requests |-> None]
    /\ open = {}
    /\ closed = {}
    /\ through = [r \in Requests |-> None]

Switch ==
    /\ active' \in BOOLEAN
    /\ UNCHANGED <<password, offered, open, closed, through>>

Replace ==
    /\ password' \in Passwords
    /\ UNCHANGED <<active, offered, open, closed, through>>

Grant(r) ==
    /\ active
    /\ r \notin open \cup closed
    /\ offered[r] = None
    /\ offered' = [offered EXCEPT ![r] = password]
    /\ UNCHANGED <<active, password, open, closed, through>>

Open(r) ==
    /\ offered[r] # None
    /\ offered' = [offered EXCEPT ![r] = None]
    /\ open' = open \cup {r}
    /\ UNCHANGED <<active, password, closed, through>>

Close(sessions) ==
    /\ open' = open \ sessions
    /\ closed' = closed \cup (open \cap sessions)
    /\ UNCHANGED <<active, password, offered, through>>

Enter(r, s) ==
    /\ active
    /\ s \in open
    /\ through[r] = None
    /\ through' = [through EXCEPT ![r] = s]
    /\ UNCHANGED <<active, password, offered, open, closed>>

Leave(r) ==
    /\ offered' = [offered EXCEPT ![r] = None]
    /\ through' = [through EXCEPT ![r] = None]
    /\ UNCHANGED <<active, password, open, closed>>

Next ==
    \/ Switch
    \/ Replace
    \/ \E r \in Requests : \/ Grant(r) \/ Open(r) \/ Leave(r)
                           \/ \E s \in Requests : Enter(r, s)
    \/ \E sessions \in SUBSET Requests : Close(sessions)

Spec == Init /\ [][Next]_vars
=============================================================================
