SPECIFICATION Spec
CONSTANTS
    PolicyIds <- MCPolicyIds
    Contents <- MCContents
    ValidContents <- MCValidContents
    Unbuildable <- MCUnbuildable
    EntityTypes <- MCEntityTypes
    EntityIds = {"a"}
    Attrs <- MCAttrs
    Values <- MCValues
    Kinds <- MCKinds
    KindOf <- MCKindOf
    StringKind = "String"
    Absent = Absent
    EmptySchema = EmptySchema
    NoSchema = NoSchema
    Malformed = Malformed
    AnyType = AnyType
    Clients = {"c1", "c2"}
    Files <- MCFiles
    Requests <- DataTraffic
INVARIANTS
    TypeOK
    CacheFresh
    CedarCopyCurrent
PROPERTIES
    StrictSafety
