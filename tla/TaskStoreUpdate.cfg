CONSTANTS
    Users = {u1}
    Projects = {p1}
    Tasks = {t1}
    Fields = {title, status}
    Values = {old, new}
    Requests = {r1, r2}
    None = None
SPECIFICATION Spec
PROPERTY UpdatesOnlyProvidedFields
CHECK_DEADLOCK FALSE
