SPECIFICATION Spec
CONSTANTS
    e1 = e1
    m1 = m1
    m2 = m2
    NoMessage = NoMessage
    Exports <- MCOneExport
    Messages <- MCTwoCopies
    ExportOf <- MCBothOfOne
    Workers = {w1, w2}
    MaxReceive = 2
    BatchSize = 2
    ClaimReturnsRows = FALSE
SYMMETRY Symmetry
INVARIANTS
    TypeOK
    NoLostExport
    CompletedWasStored
    RejectedIsRecorded
    IInv
PROPERTY CompletedIsFinal
