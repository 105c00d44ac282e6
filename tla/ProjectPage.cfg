SPECIFICATION PageSpec
CONSTANTS
    Readers = {r1}
    Writers = {form, table}
    Ttl = 1
    MaxDelay = 0
    MaxWrites = 2
    MaxReturns = 1
    None = None
SYMMETRY Symmetry
VIEW View
INVARIANTS
    ListHasCause
    SummaryHasCause
    PageInv
