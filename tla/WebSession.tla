------------------------------ MODULE WebSession ------------------------------
(***************************************************************************)
(* The session of the web application: tabs of one browser that share the    *)
(* token in localStorage, their login and register pages, the check for a    *)
(* token when a protected page mounts, and the query of the projects page,   *)
(* whose cache belongs to the tab and outlives logout and login.             *)
(*                                                                           *)
(* A client of Accounts is one form that a tab submitted.  A client-side     *)
(* change of page takes the form away and leaves its answer to arrive later, *)
(* beside that of a form submitted since; a reload (Load) forgets both.      *)
(***************************************************************************)
EXTENDS Accounts

CONSTANTS
    Tabs,
    MaxSubmits  \* bound: forms submitted

VARIABLES
    submits,  \* forms submitted so far
    session,  \* the token in localStorage
    page,     \* page[t]: the page tab t shows
    form,     \* form[c]: the answer that the submitted form waits for
    tab,      \* tab[c]: the tab whose document waits for it
    shown,    \* the clients whose form is still on its page, disabled (isSubmitting)
    query,    \* query[t]: the query ['projects'] of the tab's QueryClient
    mounted   \* history: the token that the projects page found when it mounted,
              \* and whether its query joined a fetch that was under way

tabVars == <<page, form, tab, shown, query, mounted>>
vars == <<accountVars, submits, session, tabVars>>

Pages == {"login", "register", "projects"}

NotMounted == [token |-> None, joined |-> FALSE]

\* fetch: not running (after a success, or a failure), sent, what came back, or
\* waiting for the one retry; token: what the request carries; data: the token
\* whose user's list is cached.
NoQuery == [fetch |-> "idle", token |-> None, retried |-> FALSE, data |-> None]
Running(q) == q.fetch \notin {"idle", "failed"}

Init ==
    /\ AccountsInit
    /\ submits = 0
    /\ session = None
    /\ page = [t \in Tabs |-> "login"]
    /\ form = [c \in Clients |-> "none"]
    /\ tab = [c \in Clients |-> None]
    /\ shown = {}
    /\ query = [t \in Tabs |-> NoQuery]
    /\ mounted = [t \in Tabs |-> NotMounted]

-----------------------------------------------------------------------------
(* Pages *)

\* Where a mount ends: HomePage and useRequireAuth look for a token in an
\* effect, before anything but a spinner is there to be seen.
Landing(p, token) ==
    CASE p = "home" -> IF token = None THEN "login" ELSE "projects"
      [] p = "projects" /\ token = None -> "login"
      [] OTHER -> p

\* queryFn: request() takes the token of the moment.
Sent(q, token, again) == [q EXCEPT !.fetch = "sent", !.token = token, !.retried = again]

\* Mutant: cached data is taken for fresh.
ObservedFresh(q, token) ==
    IF Running(q) \/ q.data # None THEN q ELSE Sent(q, token, FALSE)

\* A mounted query starts a fetch unless one is under way, which it joins.
Observed(q, token) == IF Running(q) THEN q ELSE Sent(q, token, FALSE)

\* The forms that tab t waits for.
In(t) == {c \in Clients : tab[c] = t}

\* Page p mounts in tab t, whose query is q, while token is stored; the form of
\* the page that was there is gone.
Mount(t, p, q, token) ==
    LET next == Landing(p, token) IN
    /\ page' = [page EXCEPT ![t] = next]
    /\ shown' = shown \ In(t)
    /\ IF next = "projects"
       THEN /\ mounted' = [mounted EXCEPT ![t] = [token |-> token, joined |-> Running(q)]]
            /\ query' = [query EXCEPT ![t] = Observed(q, token)]
       ELSE /\ mounted' = [mounted EXCEPT ![t] = NotMounted]
            /\ query' = [query EXCEPT ![t] = q]

\* The router goes to page p: the page that is shown already does not mount.
Show(t, p, token) ==
    IF page[t] = p THEN UNCHANGED <<page, shown, query, mounted>>
    ELSE Mount(t, p, query[t], token)

\* A link, or back.
Navigate(t, p) ==
    /\ page[t] # p
    /\ Show(t, p, session)
    /\ UNCHANGED <<accountVars, submits, session, form, tab>>

\* The address bar, or reload: a new document with an empty query cache.  (Next
\* loads two addresses, from which a Navigate step gives what the others give.)
Load(t, p) ==
    /\ Mount(t, p, NoQuery, session)
    /\ form' = [c \in Clients |-> IF c \in In(t) THEN "none" ELSE form[c]]
    /\ tab' = [c \in Clients |-> IF c \in In(t) THEN None ELSE tab[c]]
    /\ UNCHANGED <<accountVars, submits, session>>

-----------------------------------------------------------------------------
(* The login and register forms, the button Log out *)

\* The form of page t is submitted: both calls go out without a token.  Only a
\* form that is still there is disabled by its submission.
Submit(t, c, e, p) ==
    /\ page[t] \in {"login", "register"}
    /\ form[c] = "none" /\ call[c] = NoCall
    /\ In(t) \cap shown = {}
    /\ submits < MaxSubmits /\ submits' = submits + 1
    /\ form' = [form EXCEPT ![c] = page[t]]
    /\ tab' = [tab EXCEPT ![c] = t]
    /\ shown' = shown \cup {c}
    /\ IF page[t] = "register" THEN CallRegister(c, e, p) ELSE CallLogin(c, e, p)
    /\ UNCHANGED <<account, issued, expired, session, page, query, mounted>>

\* Mutant: every 401 clears the token, that of a login too.
SessionAfterAnyForm(status, token) ==
    IF status = "401" THEN None ELSE IF status = "200" THEN token ELSE session

\* setSession after a login; request() with auth: false clears nothing.
SessionAfterForm(status, token) == IF status = "200" THEN token ELSE session

\* The register page goes on to its login.
LoginFollows(c) ==
    /\ call[c].at = "201"
    /\ form' = [form EXCEPT ![c] = "login of register"]
    /\ CallLogin(c, call[c].email, call[c].password)
    /\ UNCHANGED <<page, tab, shown, query, mounted>>

\* The end of onSubmit, whichever page the tab shows by now: a login opens the
\* session and goes to the projects, anything else is shown as the form's error.
FormEnds(c) ==
    /\ call[c].at \in {"200", "401", "409", "500"}
    /\ form' = [form EXCEPT ![c] = "none"]
    /\ tab' = [tab EXCEPT ![c] = None]
    /\ call' = [call EXCEPT ![c] = NoCall]
    /\ IF call[c].at = "200" /\ page[tab[c]] # "projects"
       THEN Mount(tab[c], "projects", query[tab[c]], call[c].token)
       ELSE shown' = shown \ {c} /\ UNCHANGED <<page, query, mounted>>

\* The answer reaches onSubmit.
FormAnswered(c) ==
    /\ form[c] # "none"
    /\ session' = SessionAfterForm(call[c].at, call[c].token)
    /\ LoginFollows(c) \/ FormEnds(c)
    /\ UNCHANGED <<account, issued, expired, submits>>

\* The answer of a call whose document is gone.
AnswerDropped(c) ==
    /\ form[c] = "none"
    /\ call[c].at \in {"200", "201", "401", "409", "500"}
    /\ call' = [call EXCEPT ![c] = NoCall]
    /\ UNCHANGED <<account, issued, expired, submits, session, tabVars>>

\* onLogout: the token goes, the tab goes to the login page; the tab's
\* query cache stays, and nothing tells the other tabs.
Logout(t) ==
    /\ session # None
    /\ session' = None
    /\ Show(t, "login", None)
    /\ UNCHANGED <<accountVars, submits, form, tab>>

-----------------------------------------------------------------------------
(* GET /projects *)

\* The guard lets the request in; the list is on its way.
Handle(t) ==
    /\ query[t].fetch = "sent" /\ Good(query[t].token)
    /\ query' = [query EXCEPT ![t].fetch = "ok", ![t].retried = FALSE]
    /\ UNCHANGED <<accountVars, submits, session, page, form, tab, shown, mounted>>

Arrived(t) ==
    /\ query[t].fetch = "ok"
    /\ query' = [query EXCEPT ![t] = [NoQuery EXCEPT !.data = query[t].token]]
    /\ UNCHANGED <<accountVars, submits, session, page, form, tab, shown, mounted>>

\* A failed fetch is tried once more, if somebody still looks at it.
AfterFailure(t) ==
    IF ~query[t].retried /\ page[t] = "projects"
    THEN [query[t] EXCEPT !.fetch = "retrying", !.token = None]
    ELSE [NoQuery EXCEPT !.fetch = "failed", !.data = query[t].data]

\* A 401 clears the session of the moment, not the token it was about.
Denied(t) ==
    /\ query[t].fetch = "sent" /\ ~Good(query[t].token)
    /\ session' = None
    /\ query' = [query EXCEPT ![t] = AfterFailure(t)]
    /\ UNCHANGED <<accountVars, submits, page, form, tab, shown, mounted>>

\* Any other error of the API or of the network.
Failed(t) ==
    /\ query[t].fetch = "sent"
    /\ query' = [query EXCEPT ![t] = AfterFailure(t)]
    /\ UNCHANGED <<accountVars, submits, session, page, form, tab, shown, mounted>>

\* The retry's delay is over; it reads the token again.
Retry(t) ==
    /\ query[t].fetch = "retrying"
    /\ query' = [query EXCEPT ![t] =
                    IF page[t] = "projects" THEN Sent(@, session, TRUE)
                    ELSE [@ EXCEPT !.fetch = "failed", !.retried = FALSE]]
    /\ UNCHANGED <<accountVars, submits, session, page, form, tab, shown, mounted>>

Next ==
    \/ AccountsStep /\ UNCHANGED <<submits, session, tabVars>>
    \/ \E c \in Clients : FormAnswered(c) \/ AnswerDropped(c)
    \/ \E t \in Tabs :
          \/ \E p \in Pages : Navigate(t, p)
          \/ Load(t, "home")  \* without a token, the login page as well
          \/ session # None /\ Load(t, "login")
          \/ \E c \in Clients, e \in Spellings, p \in Passwords : Submit(t, c, e, p)
          \/ Logout(t)
          \/ Handle(t) \/ Arrived(t) \/ Denied(t) \/ Failed(t) \/ Retry(t)

Spec == Init /\ [][Next]_vars

-----------------------------------------------------------------------------
(* Properties *)

\* The variables hold what the code can put there.
TypeOK ==
    /\ AccountsTypeOK
    /\ session \in Tokens \cup {None}
    /\ page \in [Tabs -> Pages]
    /\ form \in [Clients -> {"none", "login", "register", "login of register"}]
    /\ tab \in [Clients -> Tabs \cup {None}]
    /\ \A c \in Clients : form[c] # "none" => tab[c] \in Tabs
    /\ shown \in SUBSET Clients
    /\ query \in [Tabs -> [fetch : {"idle", "failed", "sent", "ok", "retrying"},
                           token : Tokens \cup {None}, retried : BOOLEAN,
                           data : Tokens \cup {None}]]
    /\ mounted \in [Tabs -> [token : Tokens \cup {None}, joined : BOOLEAN]]

\* However registrations of one address, in any spelling, race between hash
\* and INSERT, the one that was answered 201 owns the address: the login that
\* the register page sends next is never refused.
RegisteredCanLogIn ==
    \A c \in Clients : form[c] = "login of register" => call[c].at # "401"

\* A 200 is for an account with the address, in some spelling, and the
\* password of the call, and its token is that account's; a 409 is about an
\* address that somebody has.
AnswersAreTrue ==
    \A c \in Clients :
        /\ call[c].at = "200" =>
              LET i == issued[call[c].token] IN
              i \in Matching(call[c].email) /\ account[i].password = call[c].password
        /\ call[c].at = "409" => Matching(call[c].email) # {}

\* A session whose token is good ends by Log out, in any tab, or by the 401
\* of a request that carried another token or none (request() clears whatever
\* is stored when the answer comes); the 401 of a form never ends it.
GoodSessionEndHasCause ==
    [][Good(session) /\ session' = None =>
          \/ \E t \in Tabs : Logout(t)
          \/ \E t \in Tabs : Denied(t) /\ query[t].token # session]_vars

\* A projects page that mounted with the session that is still open shows the
\* list of another user, cached before the login, only while a fetch is under
\* way, when its fetch failed, or when it joined a fetch that was sent before
\* the login.
ForeignListHasCause ==
    \A t \in Tabs :
        LET q == query[t] IN
        /\ page[t] = "projects" /\ session # None /\ session = mounted[t].token
        /\ q.data # None /\ issued[q.data] # issued[session]
        => q.fetch # "idle" \/ mounted[t].joined

-----------------------------------------------------------------------------
(* The inductive invariant behind these properties *)

\* The index: one account to an address.
AddressesAreUnique ==
    \A i, j \in UserIds :
        account[i] # None /\ account[j] # None /\ Lower[account[i].email] = Lower[account[j].email]
        => i = j

\* The account that the call of client c names, address and password.
Owns(c, i) == i \in Matching(call[c].email) /\ account[i].password = call[c].password

CallInv(c) ==
    /\ call[c].at # "none" => call[c].email \in Spellings /\ call[c].password \in Passwords
    /\ call[c].at = "200" =>
          call[c].token \in 1 .. Len(issued) /\ Owns(c, issued[call[c].token])
    /\ call[c].at = "201" => \E i \in UserIds : Owns(c, i)
    /\ call[c].at = "409" => Matching(call[c].email) # {}
    /\ form[c] = "login of register" =>
          call[c].at \in {"lookup", "200", "500"} /\ \E i \in UserIds : Owns(c, i)

CallsInv == \A c \in Clients : CallInv(c)

\* The token of an answer that no tab has handled is nobody's session yet, nor
\* was it when a page mounted.
TokensInv ==
    /\ session # None => session \in 1 .. Len(issued)
    /\ \A t \in Tabs : mounted[t].token # None => mounted[t].token \in 1 .. Len(issued)
    /\ \A c \in Clients : call[c].at = "200" =>
          /\ call[c].token # session
          /\ \A t \in Tabs : call[c].token # mounted[t].token
          /\ \A d \in Clients \ {c} : call[d].at = "200" => call[d].token # call[c].token

\* What a projects page that joined no fetch asks for, and gets, is the list of
\* the session it mounted with, while that is open.
ListInv ==
    \A t \in Tabs :
        page[t] = "projects" /\ session # None /\ session = mounted[t].token /\ ~mounted[t].joined
        => /\ query[t].fetch \in {"sent", "ok"} => query[t].token = session
           /\ query[t].fetch = "idle" => query[t].data = session

SessionInv == TypeOK /\ AddressesAreUnique /\ CallsInv /\ TokensInv /\ ListInv

=============================================================================
