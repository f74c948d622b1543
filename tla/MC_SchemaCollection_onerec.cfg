CONSTANTS
    u1 = u1
    u2 = u2
    r1 = r1
    r2 = r2
    r3 = r3
    None = None
    Users <- MCUsers
    Reqs <- MCReqsSameUser
    Owner <- MCOwnerSameUser
    AccessSets <- MCAccessSets
    SchemaIds <- MCSchemaIds
    SchemaDefs <- MCSchemaDefs
    MaxCalls = 1
    MaxChanges = 1
    ProjErrors = FALSE
SPECIFICATION Spec
INVARIANT OneRecordPerUser
CHECK_DEADLOCK FALSE
