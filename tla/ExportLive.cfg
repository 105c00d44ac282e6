SPECIFICATION PanelSpec
CONSTANTS
    e1 = e1
    m1 = m1
    NoMessage = NoMessage
    Exports <- MCOneExport
    Messages <- MCOneMessage
    ExportOf <- MCSingle
    Workers = {w1, w2}
    MaxReceive = 2
    BatchSize = 2
    ClaimReturnsRows = FALSE
    Chars <- MCChars
    MaxTitle = 3
    MaxDescription = 3
INVARIANTS
    PanelIsRightAboutCompleted
    CsvReadsBack
PROPERTIES
    AcceptedSettles
    ShutdownCompletes
    PanelStops
    ImplementsLifecycle
