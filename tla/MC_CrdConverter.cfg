SPECIFICATION Spec
CONSTANTS
    VersionNames = {"v1", "v2"}
    Descs <- MCDescs
    NoSchema = NoSchema
    NoOpenAPI = NoOpenAPI
    PrinterCols <- MCPrinterCols
    CRDLists <- MCCRDLists
    SchemaMaps <- MCSchemaMaps
    CanFail = TRUE
INVARIANTS
    TypeOK
    AnnotatedWhenListed
\* addCustomResources returns: the final states are those after line 50 or 35.
CHECK_DEADLOCK FALSE
