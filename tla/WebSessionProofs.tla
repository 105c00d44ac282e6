--------------------------- MODULE WebSessionProofs ---------------------------
(***************************************************************************)
(* Accounts, tokens and the session of the browser, for any number of tabs, *)
(* accounts, addresses, tokens and forms: registration and login keep their *)
(* promises, and a session and the list shown under it do not get mixed up. *)
(***************************************************************************)
EXTENDS WebSession, TLAPS

CallRecord == [at : {"none", "insert", "lookup"} \cup {"200", "201", "401", "409", "500"},
               email : Spellings \cup {None}, password : Passwords \cup {None},
               token : Tokens \cup {None}]

QueryRecord == [fetch : {"idle", "failed", "sent", "ok", "retrying"},
                token : Tokens \cup {None}, retried : BOOLEAN, data : Tokens \cup {None}]

MountRecord == [token : Tokens \cup {None}, joined : BOOLEAN]

\* TypeOK, with its records named.
LEMMA Types ==
  TypeOK <=>
    /\ account \in [UserIds -> Account \cup {None}]
    /\ call \in [Clients -> CallRecord]
    /\ issued \in Seq(UserIds) /\ Len(issued) \in 0 .. MaxTokens
    /\ expired \in 0 .. Len(issued)
    /\ session \in Tokens \cup {None}
    /\ page \in [Tabs -> Pages]
    /\ form \in [Clients -> {"none", "login", "register", "login of register"}]
    /\ tab \in [Clients -> Tabs \cup {None}]
    /\ \A c \in Clients : form[c] # "none" => tab[c] \in Tabs
    /\ shown \in SUBSET Clients
    /\ query \in [Tabs -> QueryRecord]
    /\ mounted \in [Tabs -> MountRecord]
BY DEF TypeOK, AccountsTypeOK, CallRecord, QueryRecord, MountRecord

LEMMA InitSessionInv == Init => SessionInv
<1>. SUFFICES ASSUME Init PROVE SessionInv
  OBVIOUS
<1>. USE DEF Init, AccountsInit
<1>1. NoCall \in CallRecord /\ NoCall.at = "none"
  BY DEF NoCall, CallRecord
<1>2. NoQuery \in QueryRecord /\ NotMounted \in MountRecord
  BY DEF NoQuery, QueryRecord, NotMounted, MountRecord
<1>3. TypeOK
  BY <1>1, <1>2, TokensAssumption, Types DEF Pages
<1>4. AddressesAreUnique /\ CallsInv
  BY <1>1 DEF AddressesAreUnique, CallsInv, CallInv
<1>5. TokensInv /\ ListInv
  BY <1>1 DEF TokensInv, ListInv, NotMounted
<1>. QED
  BY <1>3, <1>4, <1>5 DEF SessionInv

-----------------------------------------------------------------------------
(* The API *)

\* Accounts are only added, tokens only appended: what held of a call that does
\* not move still does.
LEMMA CallStays ==
  ASSUME SessionInv,
         \A i \in UserIds : account[i] # None => account'[i] = account[i],
         issued' = issued \/ \E i \in UserIds : issued' = Append(issued, i),
         NEW c \in Clients, call'[c] = call[c], form'[c] = form[c]
  PROVE  CallInv(c)'
<1>1. /\ issued \in Seq(UserIds) /\ CallInv(c)
      /\ \A k \in 1 .. Len(issued) : k \in 1 .. Len(issued') /\ issued'[k] = issued[k]
  <2>1. issued \in Seq(UserIds)
    BY Types DEF SessionInv
  <2>2. CASE issued' = issued
    BY <2>1, <2>2 DEF SessionInv, CallsInv
  <2>3. CASE \E i \in UserIds : issued' = Append(issued, i)
    BY <2>1, <2>3 DEF SessionInv, CallsInv
  <2>. QED
    BY <2>2, <2>3
<1>2. \A i \in UserIds : Owns(c, i) => Owns(c, i)'
  BY DEF Owns, Matching
<1>3. call[c].at = "200" => call'[c].token \in 1 .. Len(issued') /\ Owns(c, issued[call[c].token])'
  <2>1. SUFFICES ASSUME call[c].at = "200" PROVE call[c].token \in 1 .. Len(issued') /\ Owns(c, issued[call[c].token])'
    OBVIOUS
  <2>2. call[c].token \in 1 .. Len(issued) /\ Owns(c, issued[call[c].token])
    BY <1>1, <2>1 DEF CallInv
  <2>3. /\ issued'[call'[c].token] = issued[call[c].token] /\ issued[call[c].token] \in UserIds
        /\ call[c].token \in 1 .. Len(issued')
    BY <1>1, <2>2
  <2>. QED
    BY <2>2, <2>3 DEF Owns, Matching
<1>4. Matching(call[c].email) # {} => Matching(call[c].email)' # {}
  BY DEF Matching
<1>5. call[c].at = "201" \/ form[c] = "login of register" => \E i \in UserIds : Owns(c, i)'
  BY <1>1, <1>2 DEF CallInv
<1>6. /\ call'[c].at = "200" =>
            call'[c].token \in 1 .. Len(issued') /\ Owns(c, issued[call[c].token])'
      /\ call'[c].at = "201" => \E i \in UserIds : Owns(c, i)'
      /\ call'[c].at = "409" => Matching(call[c].email)' # {}
  <2>1. call'[c].at = call[c].at
    OBVIOUS
  <2>2. call[c].at = "409" => Matching(call[c].email)' # {}
    BY <1>1, <1>4 DEF CallInv
  <2>. QED
    BY ONLY <1>3, <1>5, <2>1, <2>2
<1>7. /\ call'[c].at # "none" => call'[c].email \in Spellings /\ call'[c].password \in Passwords
      /\ form'[c] = "login of register" =>
            call'[c].at \in {"lookup", "200", "500"} /\ \E i \in UserIds : Owns(c, i)'
  BY <1>1, <1>5 DEF CallInv
<1>. QED
  BY ONLY <1>6, <1>7 DEF CallInv

LEMMA InsertStep ==
  ASSUME SessionInv, NEW c \in Clients, Insert(c),
         UNCHANGED <<submits, session, tabVars>>
  PROVE  SessionInv'
<1>. USE DEF SessionInv
<1>1. PICK i \in UserIds :
        /\ account[i] = None
        /\ account' = [account EXCEPT
              ![i] = [email |-> call[c].email, password |-> call[c].password]]
  BY DEF Insert
<1>2. PICK status \in {"201", "500"} : call' = [call EXCEPT ![c].at = status]
  BY DEF Insert, Answer, Problem, Rethrown
<1>3. /\ call[c].at = "insert" /\ Matching(call[c].email) = {}
      /\ UNCHANGED <<issued, expired, session, page, form, tab, shown, query, mounted>>
  BY DEF Insert, tabVars
<1>4. /\ account \in [UserIds -> Account \cup {None}] /\ call \in [Clients -> CallRecord]
      /\ call[c].email \in Spellings /\ call[c].password \in Passwords
      /\ issued \in Seq(UserIds)
  BY <1>3, Types DEF CallsInv, CallInv
<1>5. /\ call' \in [Clients -> CallRecord] /\ call'[c].at = status
      /\ \A d \in Clients : /\ call'[d].email = call[d].email
                            /\ call'[d].password = call[d].password
                            /\ call'[d].token = call[d].token
      /\ \A d \in Clients \ {c} : call'[d] = call[d]
  BY <1>2, <1>4 DEF CallRecord
<1>6. /\ account' \in [UserIds -> Account \cup {None}]
      /\ account'[i] # None /\ account'[i].email = call[c].email
      /\ account'[i].password = call[c].password
      /\ \A j \in UserIds \ {i} : account'[j] = account[j]
      /\ \A j \in UserIds : account[j] # None => account'[j] = account[j]
  BY <1>1, <1>4, NoneAssumption DEF Account
<1>7. TypeOK'
  BY <1>3, <1>5, <1>6, Types DEF TypeOK, AccountsTypeOK, CallRecord
<1>8. AddressesAreUnique'
  BY <1>3, <1>6 DEF AddressesAreUnique, Matching
<1>9. CallsInv'
  <2>1. ASSUME NEW d \in Clients \ {c} PROVE CallInv(d)'
    <3>1. call'[d] = call[d] /\ form'[d] = form[d] /\ issued' = issued
      BY <1>3, <1>5
    <3>. QED
      BY <1>6, <3>1, CallStays
  <2>2. Owns(c, i)'
    BY <1>5, <1>6 DEF Owns, Matching
  <2>3. CallInv(c)'
    BY <1>3, <1>4, <1>5, <2>2 DEF CallInv, CallsInv
  <2>. QED
    BY <2>1, <2>3 DEF CallsInv
<1>10. TokensInv'
  BY <1>2, <1>3, <1>5 DEF TokensInv
<1>11. ListInv'
  BY <1>3 DEF ListInv
<1>. QED
  BY <1>7, <1>8, <1>9, <1>10, <1>11

\* A call is refused, or fails.
LEMMA RefusedStep ==
  ASSUME SessionInv, NEW c \in Clients, NEW status \in {"401", "409", "500"},
         call' = [call EXCEPT ![c].at = status],
         status = "409" => Matching(call[c].email) # {},
         call[c].at \in {"insert", "lookup"},
         form[c] = "login of register" => status = "500",
         UNCHANGED <<account, issued, expired, submits, session, tabVars>>
  PROVE  SessionInv'
<1>. USE DEF SessionInv
<1>1. UNCHANGED <<account, issued, expired, session, page, form, tab, shown, query, mounted>>
  BY DEF tabVars
<1>2. call \in [Clients -> CallRecord] /\ issued \in Seq(UserIds) /\ Len(issued) \in Nat
  <2>1. call \in [Clients -> CallRecord] /\ issued \in Seq(UserIds)
    BY Types
  <2>. QED
    BY ONLY <2>1
<1>3. /\ call' \in [Clients -> CallRecord] /\ call'[c].at = status
      /\ call'[c].email = call[c].email /\ call'[c].password = call[c].password
      /\ \A d \in Clients \ {c} : call'[d] = call[d]
  BY <1>2 DEF CallRecord
<1>4. TypeOK'
  BY <1>1, <1>3, Types DEF TypeOK, AccountsTypeOK, CallRecord
<1>5. CallsInv'
  <2>1. ASSUME NEW d \in Clients \ {c} PROVE CallInv(d)'
    <3>1. call'[d] = call[d] /\ form'[d] = form[d] /\ issued' = issued /\ account' = account
      BY <1>1, <1>3
    <3>. QED
      BY <3>1, CallStays
  <2>2. \A i \in UserIds : Owns(c, i) => Owns(c, i)'
    BY <1>1, <1>3 DEF Owns, Matching
  <2>3. Matching(call[c].email) # {} => Matching(call[c].email)' # {}
    <3>1. ASSUME NEW i \in Matching(call[c].email) PROVE i \in Matching(call[c].email)'
      BY <1>1, <1>3, <3>1 DEF Matching
    <3>. QED
      BY <3>1
  <2>4. CallInv(c)
    BY DEF CallsInv
  <2>5. /\ call'[c].email \in Spellings /\ call'[c].password \in Passwords
        /\ call'[c].at # "200" /\ call'[c].at # "201"
        /\ call'[c].at = "409" => Matching(call[c].email)' # {}
    BY <1>3, <2>3, <2>4 DEF CallInv
  <2>6. form'[c] = "login of register" =>
          call'[c].at \in {"lookup", "200", "500"} /\ \E i \in UserIds : Owns(c, i)'
    BY <1>1, <1>3, <2>2, <2>4 DEF CallInv
  <2>7. CallInv(c)'
    BY ONLY <2>5, <2>6 DEF CallInv
  <2>. QED
    BY <2>1, <2>7 DEF CallsInv
<1>6. AddressesAreUnique' /\ ListInv'
  BY <1>1 DEF AddressesAreUnique, ListInv
<1>7. TokensInv'
  BY <1>1, <1>3 DEF TokensInv
<1>. QED
  BY <1>4, <1>5, <1>6, <1>7

LEMMA LoginStep ==
  ASSUME SessionInv, NEW c \in Clients, Login(c), UNCHANGED <<submits, session, tabVars>>
  PROVE  SessionInv'
<1>. USE DEF SessionInv
<1>1. /\ call[c].at = "lookup"
      /\ UNCHANGED <<account, expired, session, page, form, tab, shown, query, mounted>>
  BY DEF Login, tabVars
<1>2. /\ call \in [Clients -> CallRecord] /\ issued \in Seq(UserIds)
      /\ Len(issued) \in Nat /\ Len(issued) <= MaxTokens /\ CallInv(c)
  <2>1. call \in [Clients -> CallRecord] /\ issued \in Seq(UserIds) /\ Len(issued) \in 0 .. MaxTokens
    BY Types
  <2>. QED
    BY <2>1, TokensAssumption DEF CallsInv
<1>3. ASSUME NEW i \in Matching(call[c].email), Verified(c, i), Len(issued) < MaxTokens,
             issued' = Append(issued, i),
             call' = [call EXCEPT ![c].at = "200", ![c].token = Len(issued) + 1]
      PROVE  SessionInv'
  <2>1. /\ issued' \in Seq(UserIds) /\ Len(issued') = Len(issued) + 1
        /\ issued'[Len(issued) + 1] = i /\ i \in UserIds
        /\ \A k \in 1 .. Len(issued) : issued'[k] = issued[k]
    BY <1>2, <1>3 DEF Matching
  <2>2. Len(issued) + 1 \in Tokens
    BY <1>2, <1>3, TokensAssumption DEF Tokens
  <2>3. /\ [call[c] EXCEPT !.at = "200", !.token = Len(issued) + 1] \in CallRecord
        /\ [call[c] EXCEPT !.at = "200", !.token = Len(issued) + 1].at = "200"
        /\ [call[c] EXCEPT !.at = "200", !.token = Len(issued) + 1].token = Len(issued) + 1
        /\ [call[c] EXCEPT !.at = "200", !.token = Len(issued) + 1].email = call[c].email
        /\ [call[c] EXCEPT !.at = "200", !.token = Len(issued) + 1].password = call[c].password
    <3>1. call[c] \in CallRecord
      BY <1>2
    <3>. QED
      BY ONLY <2>2, <3>1 DEF CallRecord
  <2>4. call' = [call EXCEPT ![c] = [call[c] EXCEPT !.at = "200", !.token = Len(issued) + 1]]
    BY <1>2, <1>3
  <2>5. /\ call' \in [Clients -> CallRecord]
        /\ call'[c].at = "200" /\ call'[c].token = Len(issued) + 1
        /\ call'[c].email = call[c].email /\ call'[c].password = call[c].password
        /\ \A d \in Clients \ {c} : call'[d] = call[d]
    BY <1>2, <2>3, <2>4
  <2>6. TypeOK'
    <3>1. Len(issued') \in 0 .. MaxTokens /\ expired' \in 0 .. Len(issued')
      <4>1. expired \in 0 .. Len(issued)
        BY Types
      <4>. QED
        BY ONLY <1>1, <1>2, <1>3, <2>1, <4>1, TokensAssumption
    <3>. QED
      BY <1>1, <2>1, <2>5, <3>1, Types DEF TypeOK, AccountsTypeOK, CallRecord
  <2>7. CallsInv'
    <3>1. ASSUME NEW d \in Clients \ {c} PROVE CallInv(d)'
      <4>1. call'[d] = call[d] /\ form'[d] = form[d] /\ account' = account
        BY <1>1, <2>5
      <4>2. \E j \in UserIds : issued' = Append(issued, j)
        BY <1>3, <2>1
      <4>. QED
        BY <4>1, <4>2, CallStays
    <3>2. \A j \in UserIds : Owns(c, j) => Owns(c, j)'
      BY <1>1, <2>5 DEF Owns, Matching
    <3>3. i \in {j \in UserIds : account'[j] # None
                                   /\ Lower[account'[j].email] = Lower[call'[c].email]}
          /\ account'[i].password = call'[c].password
      BY <1>1, <1>3, <2>5 DEF Matching, Verified
    <3>4. call'[c].token \in 1 .. Len(issued') /\ issued'[call'[c].token] = i
      BY <1>2, <2>1, <2>5
    <3>5. form'[c] = "login of register" => \E j \in UserIds : Owns(c, j)'
      BY <1>1, <1>2, <3>2 DEF CallInv
    <3>6. call'[c].email \in Spellings /\ call'[c].password \in Passwords
      BY <1>1, <1>2, <2>5 DEF CallInv
    <3>7. Owns(c, issued[call[c].token])'
      BY <3>3, <3>4 DEF Owns, Matching
    <3>8. CallInv(c)'
      BY ONLY <2>5, <3>4, <3>5, <3>6, <3>7 DEF CallInv
    <3>. QED
      BY <3>1, <3>8 DEF CallsInv
  <2>8. AddressesAreUnique' /\ ListInv'
    BY <1>1 DEF AddressesAreUnique, ListInv
  <2>9. TokensInv'
    <3>1. ASSUME NEW k \in 1 .. Len(issued) PROVE k \in 1 .. Len(issued') /\ k # Len(issued) + 1
      BY <1>2, <2>1
    <3>2. None # Len(issued) + 1
      BY <1>2, NoneAssumption
    <3>3. \A d \in Clients : call[d].at = "200" => call[d].token \in 1 .. Len(issued)
      BY DEF CallsInv, CallInv
    <3>. QED
      BY <1>1, <2>5, <3>1, <3>2, <3>3 DEF TokensInv
  <2>. QED
    BY <2>6, <2>7, <2>8, <2>9
<1>4. ASSUME Matching(call[c].email) = {} \/ \E i \in Matching(call[c].email) : ~Verified(c, i),
             call' = [call EXCEPT ![c].at = "401"], UNCHANGED issued
      PROVE  SessionInv'
  <2>1. form[c] # "login of register"
    <3>1. SUFFICES ASSUME NEW i \in UserIds, Owns(c, i) PROVE FALSE
      BY <1>2 DEF CallInv
    <3>2. Matching(call[c].email) = {i}
      BY <3>1 DEF Owns, Matching, AddressesAreUnique
    <3>. QED
      BY <1>4, <3>1, <3>2 DEF Owns, Verified
  <2>. QED
    BY <1>1, <1>4, <2>1, RefusedStep DEF tabVars, Login
<1>. QED
  BY <1>3, <1>4 DEF Login, Answer, Problem

LEMMA ExpireStep ==
  ASSUME SessionInv, Expire, UNCHANGED <<submits, session, tabVars>>
  PROVE  SessionInv'
<1>. USE DEF SessionInv
<1>1. /\ expired < Len(issued) /\ expired' = expired + 1
      /\ UNCHANGED <<account, call, issued, session, page, form, tab, shown, query, mounted>>
  BY DEF Expire, tabVars
<1>2. expired' \in 0 .. Len(issued)
  <2>1. expired \in 0 .. Len(issued)
    BY Types
  <2>. QED
    BY ONLY <1>1, <2>1
<1>3. TypeOK'
  BY <1>1, <1>2, Types DEF TypeOK, AccountsTypeOK
<1>4. AddressesAreUnique' /\ CallsInv' /\ TokensInv' /\ ListInv'
  BY <1>1 DEF AddressesAreUnique, CallsInv, CallInv, Owns, Matching, TokensInv, ListInv
<1>. QED
  BY <1>3, <1>4

LEMMA ApiStep ==
  ASSUME SessionInv, AccountsStep, UNCHANGED <<submits, session, tabVars>>
  PROVE  SessionInv'
<1>1. ASSUME NEW c \in Clients, InsertRefused(c) PROVE SessionInv'
  <2>1. call' = [call EXCEPT ![c].at = "409"] /\ Matching(call[c].email) # {}
        /\ call[c].at = "insert" /\ UNCHANGED <<account, issued, expired>>
    BY <1>1 DEF InsertRefused, Answer, Problem, Rethrown
  <2>2. form[c] # "login of register"
    BY <2>1 DEF SessionInv, CallsInv, CallInv
  <2>. QED
    BY <2>1, <2>2, RefusedStep
<1>2. ASSUME NEW c \in Clients, FailCall(c) PROVE SessionInv'
  <2>1. call' = [call EXCEPT ![c].at = "500"] /\ call[c].at \in {"insert", "lookup"}
        /\ UNCHANGED <<account, issued, expired>>
    BY <1>2 DEF FailCall, Answer, Problem, Rethrown
  <2>. QED
    BY <2>1, RefusedStep
<1>. QED
  BY <1>1, <1>2, InsertStep, LoginStep, ExpireStep DEF AccountsStep

-----------------------------------------------------------------------------
(* The tabs *)

\* The page that mounts in a tab is of that tab alone; when the projects page
\* starts a fetch, it carries the token that the page found.
LEMMA Mounted ==
  ASSUME TypeOK, NEW t \in Tabs, NEW p \in Pages \cup {"home"}, NEW q \in QueryRecord,
         NEW token \in Tokens \cup {None}, Mount(t, p, q, token)
  PROVE  /\ shown' \in SUBSET Clients
         /\ page' \in [Tabs -> Pages] /\ query' \in [Tabs -> QueryRecord]
         /\ mounted' \in [Tabs -> MountRecord]
         /\ \A u \in Tabs \ {t} :
               page'[u] = page[u] /\ query'[u] = query[u] /\ mounted'[u] = mounted[u]
         /\ mounted'[t].token \in {token, None}
         /\ page'[t] = "projects" /\ ~mounted'[t].joined
               => query'[t].fetch = "sent" /\ query'[t].token = token
<1> DEFINE next == Landing(p, token)
           m == IF next = "projects" THEN [token |-> token, joined |-> Running(q)] ELSE NotMounted
           r == IF next = "projects" THEN Observed(q, token) ELSE q
<1>1. next \in Pages
  BY DEF Landing, Pages
<1>2. /\ Sent(q, token, FALSE) \in QueryRecord
      /\ Sent(q, token, FALSE).fetch = "sent" /\ Sent(q, token, FALSE).token = token
  BY DEF Sent, QueryRecord
<1>3. m \in MountRecord /\ m.token \in {token, None}
  <2>1. Running(q) \in BOOLEAN
    BY DEF Running
  <2>. QED
    BY <2>1 DEF MountRecord, NotMounted
<1>4. r \in QueryRecord
  BY <1>2 DEF Observed
<1>5. next = "projects" /\ ~m.joined => r.fetch = "sent" /\ r.token = token
  BY <1>2 DEF Observed
<1>6. /\ page' = [page EXCEPT ![t] = next]
      /\ mounted' = [mounted EXCEPT ![t] = m] /\ query' = [query EXCEPT ![t] = r]
  BY DEF Mount
<1>7. /\ page \in [Tabs -> Pages] /\ query \in [Tabs -> QueryRecord]
      /\ mounted \in [Tabs -> MountRecord] /\ shown' \in SUBSET Clients
  BY Types DEF Mount
<1>. HIDE DEF next, m, r
<1>. QED
  BY <1>1, <1>3, <1>4, <1>5, <1>6, <1>7

LEMMA Shown ==
  ASSUME TypeOK, NEW t \in Tabs, NEW p \in Pages, NEW token \in Tokens \cup {None},
         Show(t, p, token)
  PROVE  /\ shown' \in SUBSET Clients
         /\ page' \in [Tabs -> Pages] /\ query' \in [Tabs -> QueryRecord]
         /\ mounted' \in [Tabs -> MountRecord]
         /\ \A u \in Tabs \ {t} :
               page'[u] = page[u] /\ query'[u] = query[u] /\ mounted'[u] = mounted[u]
         /\ \/ UNCHANGED <<page, query, mounted>>
            \/ /\ mounted'[t].token \in {token, None}
               /\ page'[t] = "projects" /\ ~mounted'[t].joined
                    => query'[t].fetch = "sent" /\ query'[t].token = token
<1>1. CASE page[t] = p
  BY <1>1, Types DEF Show
<1>2. CASE page[t] # p
  <2>1. Mount(t, p, query[t], token) /\ query[t] \in QueryRecord
    BY <1>2, Types DEF Show
  <2>. QED
    BY <2>1, Mounted
<1>. QED
  BY <1>1, <1>2

LEMMA LenIssued == ASSUME SessionInv PROVE Len(issued) \in Nat
<1>1. issued \in Seq(UserIds)
  BY Types DEF SessionInv
<1>. QED
  BY ONLY <1>1

LEMMA PendingTokens ==
  ASSUME SessionInv, NEW c \in Clients, call[c].at = "200"
  PROVE  call[c].token \in 1 .. Len(issued) /\ call[c].token # None /\ call[c].token # session
<1>1. call[c].token \in 1 .. Len(issued)
  BY DEF SessionInv, CallsInv, CallInv
<1>2. Len(issued) \in Nat
  BY LenIssued
<1>3. call[c].token \in Nat
  BY ONLY <1>1, <1>2
<1>4. call[c].token # session
  BY DEF SessionInv, TokensInv
<1>. QED
  BY ONLY <1>1, <1>3, <1>4, NoneAssumption

\* Whatever becomes of the session: a page that is not of it shows nothing that
\* ListInv speaks of, and no answer that is still on its way brings its token.
LEMMA PageTurns ==
  ASSUME SessionInv, NEW t \in Tabs, issued' = issued,
         session' # None => session' \in 1 .. Len(issued),
         \A u \in Tabs : session' # None /\ mounted[u].token = session' => session = session',
         \A c \in Clients : call'[c].at = "200" => call'[c] = call[c] /\ call[c].token # session',
         \A u \in Tabs \ {t} :
            page'[u] = page[u] /\ query'[u] = query[u] /\ mounted'[u] = mounted[u],
         \/ UNCHANGED <<page, query, mounted>>
         \/ /\ mounted'[t].token \in {session', None}
            /\ page'[t] = "projects" /\ ~mounted'[t].joined
                 => query'[t].fetch = "sent" /\ query'[t].token = session'
  PROVE  TokensInv' /\ ListInv'
<1>. USE DEF SessionInv
<1>1. \A c \in Clients : call[c].at = "200" => call[c].token # None
  BY PendingTokens
<1>2. TokensInv'
  <2>1. \A u \in Tabs : mounted'[u].token = mounted[u].token \/ mounted'[u].token \in {session', None}
    OBVIOUS
  <2>. QED
    BY <1>1, <2>1 DEF TokensInv
<1>3. ListInv'
  <2>1. ASSUME NEW u \in Tabs, page'[u] = page[u], query'[u] = query[u], mounted'[u] = mounted[u],
               page[u] = "projects", session' # None, session' = mounted'[u].token, ~mounted'[u].joined
        PROVE  /\ query'[u].fetch \in {"sent", "ok"} => query'[u].token = session'
               /\ query'[u].fetch = "idle" => query'[u].data = session'
    <3>1. session = session' /\ session = mounted[u].token /\ ~mounted[u].joined
      BY <2>1
    <3>2. /\ query[u].fetch \in {"sent", "ok"} => query[u].token = session
          /\ query[u].fetch = "idle" => query[u].data = session
      BY <2>1, <3>1 DEF ListInv
    <3>. QED
      BY <2>1, <3>1, <3>2
  <2>. QED
    BY <2>1 DEF ListInv
<1>. QED
  BY <1>2, <1>3

LEMMA PageSteps ==
  ASSUME SessionInv, NEW t \in Tabs,
         \/ \E p \in Pages : Navigate(t, p)
         \/ \E p \in {"home", "login"} : Load(t, p)
         \/ Logout(t)
  PROVE  SessionInv'
<1>. USE DEF SessionInv
<1>1. /\ UNCHANGED <<account, call, issued, expired>> /\ session' \in {session, None}
      /\ \/ form' = form /\ tab' = tab
         \/ /\ form' = [c \in Clients |-> IF c \in In(t) THEN "none" ELSE form[c]]
            /\ tab' = [c \in Clients |-> IF c \in In(t) THEN None ELSE tab[c]]
  BY DEF Navigate, Load, Logout, accountVars
<1> DEFINE Turned ==
             /\ shown' \in SUBSET Clients
             /\ page' \in [Tabs -> Pages] /\ query' \in [Tabs -> QueryRecord]
             /\ mounted' \in [Tabs -> MountRecord]
             /\ \A u \in Tabs \ {t} :
                   page'[u] = page[u] /\ query'[u] = query[u] /\ mounted'[u] = mounted[u]
             /\ \/ UNCHANGED <<page, query, mounted>>
                \/ /\ mounted'[t].token \in {session', None}
                   /\ page'[t] = "projects" /\ ~mounted'[t].joined
                        => query'[t].fetch = "sent" /\ query'[t].token = session'
<1>2. Turned
  <2>1. session \in Tokens \cup {None}
    BY Types
  <2>2. ASSUME NEW p \in Pages, Navigate(t, p) PROVE Turned
    BY <2>1, <2>2, Shown DEF Navigate
  <2>3. ASSUME NEW p \in {"home", "login"}, Load(t, p) PROVE Turned
    <3>1. NoQuery \in QueryRecord
      BY DEF NoQuery, QueryRecord
    <3>2. Mount(t, p, NoQuery, session) /\ session' = session /\ p \in Pages \cup {"home"}
      BY <2>3 DEF Load, Pages
    <3>. QED
      BY <2>1, <3>1, <3>2, Mounted
  <2>4. ASSUME Logout(t) PROVE Turned
    <3>1. Show(t, "login", None) /\ session' = None /\ "login" \in Pages
      BY <2>4 DEF Logout, Pages
    <3>. QED
      BY <3>1, Shown
  <2>. QED
    BY <2>2, <2>3, <2>4
<1>3. TypeOK'
  <2>1. /\ form' \in [Clients -> {"none", "login", "register", "login of register"}]
        /\ tab' \in [Clients -> Tabs \cup {None}]
        /\ \A c \in Clients : form'[c] # "none" => tab'[c] \in Tabs
    BY <1>1, Types
  <2>. QED
    BY <1>1, <1>2, <2>1, Types DEF TypeOK, AccountsTypeOK, QueryRecord, MountRecord
<1>4. AddressesAreUnique' /\ CallsInv'
  <2>1. \A c \in Clients : form'[c] = "login of register" => form[c] = "login of register"
    BY <1>1, Types
  <2>. QED
    BY <1>1, <2>1 DEF AddressesAreUnique, CallsInv, CallInv, Owns, Matching
<1>5. TokensInv' /\ ListInv'
  <2>1. \A c \in Clients : call[c].at = "200" => call[c].token # session /\ call[c].token # None
    BY PendingTokens
  <2>2. session # None => session \in 1 .. Len(issued)
    BY DEF TokensInv
  <2>. QED
    BY <1>1, <1>2, <2>1, <2>2, PageTurns
<1>. QED
  BY <1>3, <1>4, <1>5

\* The body of a call that a form sends.
LEMMA CalledFacts ==
  ASSUME NEW at \in {"insert", "lookup"}, NEW e \in Spellings, NEW p \in Passwords
  PROVE  /\ Called(at, e, p) \in CallRecord
         /\ Called(at, e, p).at = at /\ Called(at, e, p).email = Lower[e]
         /\ Called(at, e, p).password = p
         /\ Lower[e] \in Spellings /\ Lower[Lower[e]] = Lower[e]
         /\ NoCall \in CallRecord /\ NoCall.at = "none"
<1>1. NoCall \in CallRecord /\ NoCall.at = "none"
  BY DEF NoCall, CallRecord
<1>2. Lower[e] \in Spellings /\ Lower[Lower[e]] = Lower[e]
  BY LowerAssumption
<1>. QED
  BY <1>1, <1>2 DEF Called, CallRecord

\* Form c goes on to another call, or is done with the one it has.
LEMMA CallTurns ==
  ASSUME SessionInv, NEW c \in Clients, NEW next \in CallRecord, call' = [call EXCEPT ![c] = next],
         NEW answer \in {"none", "login", "register", "login of register"},
         form' = [form EXCEPT ![c] = answer],
         next.at \in {"none", "insert", "lookup"},
         next.at # "none" => next.email \in Spellings /\ next.password \in Passwords,
         answer = "login of register" =>
            next.at = "lookup" /\ \E i \in Matching(next.email) : account[i].password = next.password,
         UNCHANGED <<account, issued>>
  PROVE  /\ call' \in [Clients -> CallRecord] /\ call'[c] = next
         /\ \A d \in Clients \ {c} : call'[d] = call[d]
         /\ form' \in [Clients -> {"none", "login", "register", "login of register"}]
         /\ AddressesAreUnique' /\ CallsInv'
<1>. USE DEF SessionInv
<1>1. /\ call \in [Clients -> CallRecord] /\ issued \in Seq(UserIds)
      /\ form \in [Clients -> {"none", "login", "register", "login of register"}]
  BY Types
<1>2. /\ call' \in [Clients -> CallRecord] /\ call'[c] = next
      /\ \A d \in Clients \ {c} : call'[d] = call[d] /\ form'[d] = form[d]
      /\ form' \in [Clients -> {"none", "login", "register", "login of register"}]
      /\ form'[c] = answer
  BY <1>1
<1>3. AddressesAreUnique'
  BY DEF AddressesAreUnique
<1>4. ASSUME NEW d \in Clients \ {c} PROVE CallInv(d)'
  <2>1. call'[d] = call[d] /\ form'[d] = form[d]
    BY <1>2
  <2>. QED
    BY <2>1, CallStays
<1>5. CallInv(c)'
  <2>1. answer = "login of register" => \E i \in UserIds : Owns(c, i)'
    BY <1>2 DEF Owns, Matching
  <2>. QED
    BY <1>2, <2>1 DEF CallInv
<1>. QED
  BY <1>2, <1>3, <1>4, <1>5 DEF CallsInv

LEMMA SubmitStep ==
  ASSUME SessionInv, NEW t \in Tabs, NEW c \in Clients, NEW e \in Spellings, NEW p \in Passwords,
         Submit(t, c, e, p)
  PROVE  SessionInv'
<1>. USE DEF SessionInv
<1>1. /\ UNCHANGED <<account, issued, expired, session, page, query, mounted>>
      /\ tab' = [tab EXCEPT ![c] = t] /\ shown' = shown \cup {c}
      /\ form' = [form EXCEPT ![c] = page[t]] /\ page[t] \in {"login", "register"}
  BY DEF Submit
<1>2. PICK at \in {"insert", "lookup"} : call' = [call EXCEPT ![c] = Called(at, e, p)]
  BY DEF Submit, CallRegister, CallLogin
<1>3. /\ call' \in [Clients -> CallRecord] /\ call'[c] = Called(at, e, p)
      /\ \A d \in Clients \ {c} : call'[d] = call[d]
      /\ form' \in [Clients -> {"none", "login", "register", "login of register"}]
      /\ AddressesAreUnique' /\ CallsInv'
  <2>1. /\ Called(at, e, p) \in CallRecord /\ Called(at, e, p).at \in {"none", "insert", "lookup"}
        /\ Called(at, e, p).email \in Spellings /\ Called(at, e, p).password \in Passwords
    BY CalledFacts
  <2>2. page[t] \in {"none", "login", "register", "login of register"}
        /\ page[t] # "login of register"
    BY <1>1
  <2>. QED
    BY <1>1, <1>2, <2>1, <2>2, CallTurns
<1>4. call'[c].at # "200"
  <2>1. Called(at, e, p).at = at /\ at # "200"
    BY CalledFacts
  <2>. QED
    BY ONLY <1>3, <2>1
<1>5. TypeOK'
  <2>1. /\ tab' \in [Clients -> Tabs \cup {None}] /\ shown' \in SUBSET Clients
        /\ \A d \in Clients : form'[d] # "none" => tab'[d] \in Tabs
    BY <1>1, Types
  <2>. QED
    BY <1>1, <1>3, <2>1, Types DEF TypeOK, AccountsTypeOK, CallRecord
<1>6. TokensInv' /\ ListInv'
  <2>1. \A d \in Clients : call'[d].at = "200" => call'[d] = call[d]
    BY ONLY <1>3, <1>4
  <2>2. TokensInv'
    BY <1>1, <2>1 DEF TokensInv
  <2>3. ListInv'
    BY <1>1 DEF ListInv
  <2>. QED
    BY <2>2, <2>3
<1>. QED
  BY <1>3, <1>5, <1>6

LEMMA DroppedStep ==
  ASSUME SessionInv, NEW c \in Clients, AnswerDropped(c)
  PROVE  SessionInv'
<1>. USE DEF SessionInv
<1>1. /\ UNCHANGED <<account, issued, expired, session, page, form, tab, shown, query, mounted>>
      /\ form[c] = "none" /\ call' = [call EXCEPT ![c] = NoCall]
  BY DEF AnswerDropped, tabVars
<1>2. form' = [form EXCEPT ![c] = "none"]
  BY <1>1, Types
<1>3. NoCall \in CallRecord /\ NoCall.at = "none"
  BY DEF NoCall, CallRecord
<1>4. /\ call' \in [Clients -> CallRecord] /\ call'[c] = NoCall
      /\ \A d \in Clients \ {c} : call'[d] = call[d]
      /\ form' \in [Clients -> {"none", "login", "register", "login of register"}]
      /\ AddressesAreUnique' /\ CallsInv'
  BY <1>1, <1>2, <1>3, CallTurns
<1>5. TypeOK'
  BY <1>1, <1>4, Types DEF TypeOK, AccountsTypeOK, CallRecord
<1>6. TokensInv' /\ ListInv'
  <2>1. \A d \in Clients : call'[d].at = "200" => call'[d] = call[d]
    BY ONLY <1>3, <1>4
  <2>2. TokensInv'
    BY <1>1, <2>1 DEF TokensInv
  <2>3. ListInv'
    BY <1>1 DEF ListInv
  <2>. QED
    BY <2>2, <2>3
<1>. QED
  BY <1>4, <1>5, <1>6

\* The answer of a call reaches the form: a registration goes on to its login,
\* whose token opens the session, and any other answer is the end of it.
LEMMA AnsweredStep ==
  ASSUME SessionInv, NEW c \in Clients, FormAnswered(c)
  PROVE  SessionInv'
<1>. USE DEF SessionInv
<1>1. /\ UNCHANGED <<account, issued, expired>> /\ form[c] # "none"
      /\ session' = SessionAfterForm(call[c].at, call[c].token)
      /\ LoginFollows(c) \/ FormEnds(c)
  BY DEF FormAnswered
<1>2. /\ call \in [Clients -> CallRecord] /\ session \in Tokens \cup {None} /\ CallInv(c)
      /\ page \in [Tabs -> Pages] /\ query \in [Tabs -> QueryRecord]
      /\ mounted \in [Tabs -> MountRecord] /\ tab[c] \in Tabs /\ shown \in SUBSET Clients
      /\ form \in [Clients -> {"none", "login", "register", "login of register"}]
      /\ tab \in [Clients -> Tabs \cup {None}]
      /\ \A d \in Clients : form[d] # "none" => tab[d] \in Tabs
  BY <1>1, Types DEF CallsInv
<1>3. /\ call' \in [Clients -> CallRecord] /\ call'[c].at # "200"
      /\ \A d \in Clients \ {c} : call'[d] = call[d]
      /\ form' \in [Clients -> {"none", "login", "register", "login of register"}]
      /\ AddressesAreUnique' /\ CallsInv'
  <2>1. CASE call[c].at = "201"
    <3> DEFINE next == Called("lookup", call[c].email, call[c].password)
    <3>1. call' = [call EXCEPT ![c] = next] /\ form' = [form EXCEPT ![c] = "login of register"]
      BY <1>1, <2>1 DEF LoginFollows, FormEnds, CallLogin
    <3>2. call[c].email \in Spellings /\ call[c].password \in Passwords
          /\ \E i \in UserIds : Owns(c, i)
      BY <1>2, <2>1 DEF CallInv
    <3>3. /\ next \in CallRecord /\ next.at = "lookup" /\ next.email = Lower[call[c].email]
          /\ next.password = call[c].password
          /\ next.email \in Spellings /\ Lower[next.email] = Lower[call[c].email]
      BY <3>2, CalledFacts
    <3>. HIDE DEF next
    <3>4. \E i \in Matching(next.email) : account[i].password = next.password
      BY <3>2, <3>3 DEF Owns, Matching
    <3>5. account' = account /\ issued' = issued
      BY <1>1
    <3>6. next.at \in {"none", "insert", "lookup"} /\ next.password \in Passwords
      BY <3>2, <3>3
    <3>7. /\ call' \in [Clients -> CallRecord] /\ call'[c] = next
          /\ \A d \in Clients \ {c} : call'[d] = call[d]
          /\ form' \in [Clients -> {"none", "login", "register", "login of register"}]
          /\ AddressesAreUnique' /\ CallsInv'
      BY <3>1, <3>3, <3>4, <3>5, <3>6, CallTurns
    <3>. QED
      BY <3>3, <3>7
  <2>2. CASE call[c].at # "201"
    <3>1. call' = [call EXCEPT ![c] = NoCall] /\ form' = [form EXCEPT ![c] = "none"]
      BY <1>1, <2>2 DEF LoginFollows, FormEnds
    <3>2. NoCall \in CallRecord /\ NoCall.at = "none"
      BY DEF NoCall, CallRecord
    <3>3. /\ call' \in [Clients -> CallRecord] /\ call'[c] = NoCall
          /\ \A d \in Clients \ {c} : call'[d] = call[d]
          /\ form' \in [Clients -> {"none", "login", "register", "login of register"}]
          /\ AddressesAreUnique' /\ CallsInv'
      BY <1>1, <3>1, <3>2, CallTurns
    <3>. QED
      BY <3>2, <3>3
  <2>. QED
    BY <2>1, <2>2
<1>6. /\ tab' \in [Clients -> Tabs \cup {None}]
      /\ \A d \in Clients : form'[d] # "none" => tab'[d] \in Tabs
  <2>1. CASE LoginFollows(c)
    BY <1>2, <2>1 DEF LoginFollows
  <2>2. CASE FormEnds(c)
    BY <1>2, <2>2 DEF FormEnds
  <2>. QED
    BY <1>1, <2>1, <2>2
<1>4. CASE call[c].at = "200"
  <2> DEFINE t == tab[c]
  <2>1. /\ session' = call[c].token /\ call[c].token \in 1 .. Len(issued)
        /\ \/ Show(t, "projects", session')
           \/ UNCHANGED <<page, query, mounted>> /\ shown' = shown \ {c}
    <3>1. session' = call[c].token /\ call[c].token \in 1 .. Len(issued)
      BY <1>1, <1>4, PendingTokens DEF SessionAfterForm
    <3>2. FormEnds(c)
      BY <1>1, <1>4 DEF LoginFollows
    <3>3. CASE page[t] = "projects"
      BY <1>4, <3>1, <3>2, <3>3 DEF FormEnds
    <3>4. CASE page[t] # "projects"
      <4>1. Mount(t, "projects", query[t], call[c].token)
        BY <1>4, <3>2, <3>4 DEF FormEnds
      <4>. QED
        BY <3>1, <3>4, <4>1 DEF Show
    <3>. QED
      BY <3>1, <3>3, <3>4
  <2>2. session' \in Tokens \cup {None} /\ "projects" \in Pages
    BY <1>2, <2>1 DEF CallRecord, Pages
  <2>3. /\ shown' \in SUBSET Clients
        /\ page' \in [Tabs -> Pages] /\ query' \in [Tabs -> QueryRecord]
        /\ mounted' \in [Tabs -> MountRecord]
        /\ \A u \in Tabs \ {t} :
              page'[u] = page[u] /\ query'[u] = query[u] /\ mounted'[u] = mounted[u]
        /\ \/ UNCHANGED <<page, query, mounted>>
           \/ /\ mounted'[t].token \in {session', None}
              /\ page'[t] = "projects" /\ ~mounted'[t].joined
                   => query'[t].fetch = "sent" /\ query'[t].token = session'
    <3>1. CASE Show(t, "projects", session')
      BY <1>2, <2>2, <3>1, Shown
    <3>2. CASE UNCHANGED <<page, query, mounted>> /\ shown' = shown \ {c}
      BY <1>2, <3>2
    <3>. QED
      BY <2>1, <3>1, <3>2
  <2>4. TypeOK'
    BY <1>1, <1>3, <1>6, <2>2, <2>3, Types
       DEF TypeOK, AccountsTypeOK, CallRecord, QueryRecord, MountRecord
  <2>5. \A u \in Tabs : mounted[u].token # session'
    BY <1>4, <2>1 DEF TokensInv
  <2>6. \A d \in Clients : call'[d].at = "200" => call'[d] = call[d] /\ call[d].token # session'
    BY <1>3, <1>4, <2>1 DEF TokensInv
  <2>7. TokensInv' /\ ListInv'
    BY <1>1, <1>2, <2>1, <2>3, <2>5, <2>6, PageTurns
  <2>. QED
    BY <1>3, <2>4, <2>7
<1>5. CASE call[c].at # "200"
  <2>1. UNCHANGED <<session, page, query, mounted>> /\ shown' \in SUBSET Clients
    BY <1>1, <1>2, <1>5 DEF SessionAfterForm, LoginFollows, FormEnds
  <2>2. TypeOK'
    BY <1>1, <1>2, <1>3, <1>6, <2>1, Types DEF TypeOK, AccountsTypeOK, CallRecord
  <2>3. \A d \in Clients : call'[d].at = "200" => call'[d] = call[d]
    BY ONLY <1>3
  <2>4. TokensInv'
    BY <1>1, <2>1, <2>3 DEF TokensInv
  <2>5. ListInv'
    BY <2>1 DEF ListInv
  <2>. QED
    BY <1>3, <2>2, <2>4, <2>5
<1>. QED
  BY <1>4, <1>5

\* The query of a tab moves: only the list and the token it carries are at
\* stake, and after a 401 there is no session.
LEMMA QuerySteps ==
  ASSUME SessionInv, NEW t \in Tabs,
         Handle(t) \/ Arrived(t) \/ Denied(t) \/ Failed(t) \/ Retry(t)
  PROVE  SessionInv'
<1>. USE DEF SessionInv
<1>1. /\ UNCHANGED <<account, call, issued, expired, page, form, tab, shown, mounted>>
      /\ session' \in {session, None}
  BY DEF Handle, Arrived, Denied, Failed, Retry, accountVars
<1>2. query[t] \in QueryRecord /\ query \in [Tabs -> QueryRecord] /\ session \in Tokens \cup {None}
  BY Types
<1>3. ASSUME NEW q \in QueryRecord, query' = [query EXCEPT ![t] = q],
             session' # None =>
               /\ q.fetch \in {"sent", "ok"} =>
                     \/ q.token = session
                     \/ query[t].fetch \in {"sent", "ok"} /\ q.token = query[t].token
               /\ q.fetch = "idle" => query[t].fetch = "ok" /\ q.data = query[t].token
      PROVE  SessionInv'
  <2>1. /\ query' \in [Tabs -> QueryRecord] /\ query'[t] = q
        /\ \A u \in Tabs \ {t} : query'[u] = query[u]
    BY <1>2, <1>3
  <2>2. TypeOK'
    BY <1>1, <1>2, <2>1, Types DEF TypeOK, AccountsTypeOK, QueryRecord
  <2>3. AddressesAreUnique' /\ CallsInv'
    BY <1>1 DEF AddressesAreUnique, CallsInv, CallInv, Owns, Matching
  <2>4. TokensInv'
    BY <1>1, PendingTokens DEF TokensInv
  <2>5. ListInv'
    BY <1>1, <1>3, <2>1 DEF ListInv
  <2>. QED
    BY <2>2, <2>3, <2>4, <2>5
<1>4. /\ AfterFailure(t) \in QueryRecord
      /\ AfterFailure(t).fetch \in {"retrying", "failed"}
  BY <1>2 DEF AfterFailure, NoQuery, QueryRecord
<1>5. CASE Handle(t)
  <2> DEFINE q == [query[t] EXCEPT !.fetch = "ok", !.retried = FALSE]
  <2>1. query' = [query EXCEPT ![t] = q] /\ query[t].fetch = "sent"
    BY <1>5 DEF Handle
  <2>2. q \in QueryRecord /\ q.fetch = "ok" /\ q.token = query[t].token
    BY <1>2 DEF QueryRecord
  <2>. QED
    BY <1>3, <2>1, <2>2
<1>6. CASE Arrived(t)
  <2> DEFINE q == [NoQuery EXCEPT !.data = query[t].token]
  <2>1. query' = [query EXCEPT ![t] = q] /\ query[t].fetch = "ok"
    BY <1>6 DEF Arrived
  <2>2. q \in QueryRecord /\ q.fetch = "idle" /\ q.data = query[t].token
    BY <1>2 DEF QueryRecord, NoQuery
  <2>. QED
    BY <1>3, <2>1, <2>2
<1>7. CASE Denied(t) \/ Failed(t)
  <2>1. query' = [query EXCEPT ![t] = AfterFailure(t)]
    BY <1>7 DEF Denied, Failed
  <2>. QED
    BY <1>3, <1>4, <2>1
<1>8. CASE Retry(t)
  <2>1. CASE page[t] = "projects"
    <3>1. query' = [query EXCEPT ![t] = Sent(query[t], session, TRUE)]
      BY <1>2, <1>8, <2>1 DEF Retry
    <3>2. /\ Sent(query[t], session, TRUE) \in QueryRecord
          /\ Sent(query[t], session, TRUE).fetch = "sent"
          /\ Sent(query[t], session, TRUE).token = session
      BY <1>2 DEF Sent, QueryRecord
    <3>. QED
      BY <1>3, <3>1, <3>2
  <2>2. CASE page[t] # "projects"
    <3> DEFINE q == [query[t] EXCEPT !.fetch = "failed", !.retried = FALSE]
    <3>1. query' = [query EXCEPT ![t] = q]
      BY <1>2, <1>8, <2>2 DEF Retry
    <3>2. q \in QueryRecord /\ q.fetch = "failed"
      BY <1>2 DEF QueryRecord
    <3>. QED
      BY <1>3, <3>1, <3>2
  <2>. QED
    BY <2>1, <2>2
<1>. QED
  BY <1>5, <1>6, <1>7, <1>8

-----------------------------------------------------------------------------
(* The theorems *)

LEMMA NextSessionInv == SessionInv /\ [Next]_vars => SessionInv'
<1>. SUFFICES ASSUME SessionInv, [Next]_vars PROVE SessionInv'
  OBVIOUS
<1>1. CASE UNCHANGED vars
  <2>1. UNCHANGED <<account, call, issued, expired, session, page, form, tab, shown, query, mounted>>
    BY <1>1 DEF vars, accountVars, tabVars
  <2>2. TypeOK'
    BY <2>1 DEF SessionInv, TypeOK, AccountsTypeOK
  <2>3. AddressesAreUnique' /\ CallsInv'
    BY <2>1 DEF SessionInv, AddressesAreUnique, CallsInv, CallInv, Owns, Matching
  <2>4. TokensInv' /\ ListInv'
    BY <2>1 DEF SessionInv, TokensInv, ListInv
  <2>. QED
    BY <2>2, <2>3, <2>4 DEF SessionInv
<1>2. CASE AccountsStep /\ UNCHANGED <<submits, session, tabVars>>
  BY <1>2, ApiStep
<1>3. ASSUME NEW t \in Tabs,
             \/ \E p \in Pages : Navigate(t, p)
             \/ \E p \in {"home", "login"} : Load(t, p)
             \/ Logout(t)
      PROVE  SessionInv'
  BY <1>3, PageSteps
<1>4. ASSUME NEW t \in Tabs,
             \E c \in Clients, e \in Spellings, p \in Passwords : Submit(t, c, e, p)
      PROVE  SessionInv'
  BY <1>4, SubmitStep
<1>5. ASSUME NEW c \in Clients, FormAnswered(c) \/ AnswerDropped(c)
      PROVE  SessionInv'
  BY <1>5, AnsweredStep, DroppedStep
<1>6. ASSUME NEW t \in Tabs, Handle(t) \/ Arrived(t) \/ Denied(t) \/ Failed(t) \/ Retry(t)
      PROVE  SessionInv'
  BY <1>6, QuerySteps
<1>. QED
  BY <1>1, <1>2, <1>3, <1>4, <1>5, <1>6 DEF Next

\* The inductive invariant of accounts, calls, tokens and tabs.
THEOREM SessionInvariance == Spec => []SessionInv
BY InitSessionInv, NextSessionInv, PTL DEF Spec

\* The variables hold what the code can put there.
THEOREM TypeCorrect == Spec => []TypeOK
<1>1. SessionInv => TypeOK
  BY DEF SessionInv
<1>. QED
  BY SessionInvariance, <1>1, PTL

\* The login that follows a registration is never refused: the account that the
\* INSERT made is the only one with its address, and it has the password.
THEOREM RegistrationIsEnough == Spec => []RegisteredCanLogIn
<1>1. SessionInv => RegisteredCanLogIn
  BY DEF SessionInv, CallsInv, CallInv, RegisteredCanLogIn
<1>. QED
  BY SessionInvariance, <1>1, PTL

\* A 200 is for the account it names, and a 409 for an address that is taken.
THEOREM StatusesAreTrue == Spec => []AnswersAreTrue
<1>1. SessionInv => AnswersAreTrue
  BY DEF SessionInv, CallsInv, CallInv, Owns, AnswersAreTrue
<1>. QED
  BY SessionInvariance, <1>1, PTL

\* The projects page of a session shows another user's list only for a reason.
THEOREM ListsDoNotCrossSessions == Spec => []ForeignListHasCause
<1>1. SessionInv => ForeignListHasCause
  BY DEF SessionInv, ListInv, ForeignListHasCause
<1>. QED
  BY SessionInvariance, <1>1, PTL

\* A session whose token is good ends only by Log out, or by the 401 of another
\* request: no form, no expiry and no other step takes it away.
THEOREM GoodSessionsEndByCause == Spec => GoodSessionEndHasCause
<1>1. ASSUME SessionInv, [Next]_vars, Good(session), session' = None
      PROVE  \/ \E t \in Tabs : Logout(t)
             \/ \E t \in Tabs : Denied(t) /\ query[t].token # session
  <2>1. session # None
    BY <1>1 DEF Good
  <2>2. ASSUME NEW c \in Clients, FormAnswered(c) PROVE FALSE
    <3>1. call[c].at = "200" => call[c].token # None
      BY <1>1, PendingTokens
    <3>. QED
      BY <1>1, <2>1, <2>2, <3>1 DEF FormAnswered, SessionAfterForm
  <2>3. ASSUME NEW t \in Tabs, Denied(t) PROVE query[t].token # session
    BY <1>1, <2>3 DEF Denied
  <2>4. (\E t \in Tabs : Logout(t) \/ Denied(t)) \/ \E c \in Clients : FormAnswered(c)
    BY <1>1, <2>1 DEF Next, vars, Navigate, Load, Submit, AnswerDropped, Handle, Arrived, Failed,
       Retry
  <2>. QED
    BY <2>2, <2>3, <2>4
<1>2. SessionInv /\ [Next]_vars =>
        (Good(session) /\ session' = None =>
          \/ \E t \in Tabs : Logout(t)
          \/ \E t \in Tabs : Denied(t) /\ query[t].token # session)
  BY <1>1
<1>. QED
  BY SessionInvariance, <1>2, PTL DEF Spec, GoodSessionEndHasCause

=============================================================================
