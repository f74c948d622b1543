CONSTANTS
    u1 = u1
    u2 = u2
    r1 = r1
    r2 = r2
    r3 = r3
    None = None
    Users <- MCUsers
    Reqs <- MCReqs
    Owner <- MCOwner
    AccessSets <- MCAccessSetsWatch
    SchemaIds <- MCSchemaIds
    SchemaDefs <- MCSchemaDefs
    MaxCalls = 2
    MaxChanges = 0
    ProjErrors = FALSE
SPECIFICATION Spec
INVARIANT NamespacesListedBySynthesis
CHECK_DEADLOCK FALSE
