------------------------------- MODULE Accounts -------------------------------
(***************************************************************************)
(* Accounts and access tokens of the API: AuthService and UsersService over  *)
(* the users table.  register looks for no earlier account: it hashes, and   *)
(* the unique index on lower(email) decides at the INSERT.  login reads the  *)
(* account, verifies the password and signs a token that is good for an hour.*)
(* The calls of all clients interleave between these awaits.                 *)
(*                                                                           *)
(* An account is never changed or removed.  A hash stands for its password:  *)
(* argon2.verify fails only on a hash that hash() did not make.              *)
(***************************************************************************)
EXTENDS Naturals, Sequences

CONSTANTS
    Clients,    \* who calls the API, one call at a time each
    UserIds,
    Spellings,  \* addresses as people type them
    Lower,      \* Lower[e]: e.trim().toLowerCase(), and lower(e) of PostgreSQL
    Passwords,
    MaxTokens,  \* bound: tokens issued
    None

ASSUME LowerAssumption ==
    Lower \in [Spellings -> Spellings] /\ \A e \in Spellings : Lower[Lower[e]] = Lower[e]

ASSUME TokensAssumption == MaxTokens \in Nat

ASSUME NoneAssumption ==
    None \notin Nat /\ None \notin [email : Spellings, password : Passwords]

VARIABLES
    account,  \* account[i]: the row of users, or None
    call,     \* call[c]: the call of client c
    issued,   \* the subjects of the tokens signed so far
    expired   \* how many of these, the oldest first, are past their hour

accountVars == <<account, call, issued, expired>>

Account == [email : Spellings, password : Passwords]
Tokens == 1 .. MaxTokens

\* A call: the await it is at or its HTTP status, what it carries, the token
\* of a 200.
NoCall == [at |-> "none", email |-> None, password |-> None, token |-> None]

AccountsInit ==
    /\ account = [i \in UserIds |-> None]
    /\ call = [c \in Clients |-> NoCall]
    /\ issued = <<>>
    /\ expired = 0

-----------------------------------------------------------------------------
\* The rows that the index, or the SELECT, takes for address e.
Matching(e) == {i \in UserIds : account[i] # None /\ Lower[account[i].email] = Lower[e]}

\* A request body that passed the schemas: the address in lower case.
Called(at, e, p) == [NoCall EXCEPT !.at = at, !.email = Lower[e], !.password = p]

Answer(c, status) == call' = [call EXCEPT ![c].at = status]

\* register's catch: a violation of the unique index is a conflict.
Rethrown(err) == IF err = "23505" THEN "ConflictException" ELSE err

\* ProblemDetailsFilter: an HttpException has its status, any other error is
\* a 500.
Problem(exception) ==
    CASE exception = "ConflictException" -> "409"
      [] exception = "UnauthorizedException" -> "401"
      [] OTHER -> "500"

CallRegister(c, e, p) == call' = [call EXCEPT ![c] = Called("insert", e, p)]
CallLogin(c, e, p) == call' = [call EXCEPT ![c] = Called("lookup", e, p)]

\* The INSERT commits: 201, or 500 when the answer of the database is lost.
Insert(c) ==
    /\ call[c].at = "insert"
    /\ Matching(call[c].email) = {}
    /\ \E i \in UserIds :
          /\ account[i] = None
          /\ account' = [account EXCEPT
                ![i] = [email |-> call[c].email, password |-> call[c].password]]
    /\ Answer(c, "201") \/ Answer(c, Problem(Rethrown("connection lost")))
    /\ UNCHANGED <<issued, expired>>

\* Mutant: no unique index: the row goes in beside the other.
InsertAgain(c) ==
    /\ call[c].at = "insert"
    /\ Matching(call[c].email) # {}
    /\ \E i \in UserIds :
          /\ account[i] = None
          /\ account' = [account EXCEPT
                ![i] = [email |-> call[c].email, password |-> call[c].password]]
    /\ Answer(c, "201")
    /\ UNCHANGED <<issued, expired>>

\* users_email_lower_uq refuses the row; isUniqueViolation makes it a 409.
InsertRefused(c) ==
    /\ call[c].at = "insert"
    /\ Matching(call[c].email) # {}
    /\ Answer(c, Problem(Rethrown("23505")))
    /\ UNCHANGED <<account, issued, expired>>

\* Mutant: whoever has an account gets in.
VerifiedByAddress(c, i) == TRUE

\* The row that findByEmailNormalized gives, with the password of the call:
\* getOne takes any one of the rows that match.
Verified(c, i) == account[i].password = call[c].password

\* login: the row, which nothing changes before its password is verified; the
\* token and the 200, or the one 401 for both reasons.
Login(c) ==
    LET rows == Matching(call[c].email) IN
    /\ call[c].at = "lookup"
    /\ \/ \E i \in rows :
             /\ Verified(c, i)
             /\ Len(issued) < MaxTokens
             /\ issued' = Append(issued, i)
             /\ call' = [call EXCEPT ![c].at = "200", ![c].token = Len(issued) + 1]
       \/ /\ rows = {} \/ \E i \in rows : ~Verified(c, i)
          /\ Answer(c, Problem("UnauthorizedException"))
          /\ UNCHANGED issued
    /\ UNCHANGED <<account, expired>>

\* A database error; the limiter's 429 and a lost answer are no different to
\* the form, which shows an error.
FailCall(c) ==
    /\ call[c].at \in {"insert", "lookup"}
    /\ Answer(c, Problem(Rethrown("connection lost")))
    /\ UNCHANGED <<account, issued, expired>>

\* Mutant: the clock of a token starts before it is signed.
ExpireEarly ==
    /\ expired < MaxTokens
    /\ expired' = expired + 1
    /\ UNCHANGED <<account, call, issued>>

\* The hour of the oldest token is over.
Expire ==
    /\ expired < Len(issued)
    /\ expired' = expired + 1
    /\ UNCHANGED <<account, call, issued>>

\* What JwtAuthGuard accepts.
Good(token) == token # None /\ token > expired

AccountsStep ==
    \/ \E c \in Clients :
          Insert(c) \/ InsertRefused(c) \/ Login(c) \/ FailCall(c)
    \/ Expire

-----------------------------------------------------------------------------
AccountsTypeOK ==
    /\ account \in [UserIds -> Account \cup {None}]
    /\ call \in [Clients -> [at : {"none", "insert", "lookup"}
                                   \cup {"200", "201", "401", "409", "500"},
                             email : Spellings \cup {None},
                             password : Passwords \cup {None},
                             token : Tokens \cup {None}]]
    /\ issued \in Seq(UserIds) /\ Len(issued) \in 0 .. MaxTokens
    /\ expired \in 0 .. Len(issued)

=============================================================================
