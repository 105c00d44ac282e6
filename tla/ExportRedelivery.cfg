SPECIFICATION Spec
CONSTANTS
    e1 = e1
    m1 = m1
    m2 = m2
    NoMessage = NoMessage
    Exports <- MCOneExport
    Messages <- MCOneMessage
    ExportOf <- MCSingle
    Workers = {w1}
    MaxReceive = 3
    BatchSize = 5
    ClaimReturnsRows = FALSE
PROPERTY RedeliveryIsNoOp
