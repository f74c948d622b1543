CONSTANTS
    u1 = u1
    u2 = u2
    r1 = r1
    r2 = r2
    r3 = r3
    None = None
    Users <- MCUsers
    Reqs <- MCReqs
    Owner <- MCOwner
    AccessSets <- MCAccessSets
    SchemaIds <- MCSchemaIds
    SchemaDefs <- MCSchemaDefs
    MaxCalls = 3
    MaxChanges = 1
    ProjErrors = TRUE
SPECIFICATION Spec
INVARIANTS
    TypeOK
    ProjectionComplete
    NoStaleProjection
\* The server may stop receiving requests: a state where every request
\* goroutine is idle with its calls made is a real end state.
CHECK_DEADLOCK FALSE
