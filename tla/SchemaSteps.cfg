SPECIFICATION Spec
CONSTANTS
    Emails = {e1, e2, e3}
    MaxRows = 2
INVARIANTS
    TypeOK
    SchemaIsTheLogs
    OnlyDuplicatesRefuse
    AddressesAreUnique
PROPERTIES
    ImplementsMigrations
    ServerStarts
