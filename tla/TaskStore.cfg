CONSTANTS
    Users = {u1, u2}
    Projects = {p1, p2}
    Tasks = {t1, t2}
    Fields = {status}
    Values = {todo, done}
    Requests = {r1, r2}
    None = None
    Places = {1, 2, 3}
    Statuses = {"todo", "done"}
    Dates = {1}
    Limits = {1, 2}
    MaxLeft = 2
    MaxEntered = 1
    NoTask = NoTask
SPECIFICATION MCSpec
INVARIANTS TasksBelong IInv ListInv ListSkipsNothing ListRepeatsNothing
PROPERTY ChangesAreInvalidated
CHECK_DEADLOCK FALSE
SYMMETRY Symmetry
