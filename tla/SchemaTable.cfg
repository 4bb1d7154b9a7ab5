SPECIFICATION Spec
CONSTANTS
    Emails = {e1, e2, e3}
    MaxRows = 2
INVARIANTS
    EntityTablesExist
CHECK_DEADLOCK FALSE
