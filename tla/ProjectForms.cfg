SPECIFICATION FormsSpec
CONSTANTS
    Fields = {"name"}
    Ops = {o1}
    MaxVersions = 3
    None = None
INVARIANTS
    ChangesAreShown
    FormsInv
PROPERTY TakesBackOnlyUnseen
