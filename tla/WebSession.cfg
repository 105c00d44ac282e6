SPECIFICATION Spec
CONSTANTS
    Tabs = {t1, t2}
    Clients = {c1, c2}
    UserIds = {u1, u2}
    Ann = Ann
    ann = ann
    bob = bob
    Spellings = {Ann, ann, bob}
    Lower <- MCLower
    Passwords = {p1, p2}
    MaxTokens = 2
    MaxSubmits = 2
    None = None
SYMMETRY Symmetry
INVARIANTS
    TypeOK
    RegisteredCanLogIn
    AnswersAreTrue
    ForeignListHasCause
    SessionInv
PROPERTY GoodSessionEndHasCause
