SPECIFICATION ReadPathsSpec
CONSTANTS
    PolicyIds <- MCPolicyIds
    Contents <- MCContents
    ValidContents <- MCValidContents
    Unbuildable <- MCUnbuildable
    EntityTypes <- MCEntityTypes
    EntityIds = {"a"}
    Attrs <- MCAttrs
    Values <- MCValues
    Kinds <- MCKinds
    KindOf <- MCKindOf
    StringKind = "String"
    Absent = Absent
    EmptySchema = EmptySchema
    NoSchema = NoSchema
    Malformed = Malformed
    AnyType = AnyType
    Clients = {"c1"}
    Files <- ColdStart
    Requests <- ReadPathsTraffic
    Databases <- MCDatabases
    TargetLists <- MCTargetLists
    Readers = {"r1", "r2"}
INVARIANT
    StaleHasReason
PROPERTIES
    WarmStaysWarm
    OnlyColdReadersSpoil
    InvalidationEnds
