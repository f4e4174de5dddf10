SPECIFICATION PSpec
CONSTANTS
    PolicyIds <- MCPolicyIds
    Contents <- MCContents
    ValidContents <- MCValidContents
    Unbuildable <- MCUnbuildable
    EntityTypes <- MCEntityTypes
    EntityIds = {"a"}
    Attrs <- MCAttrs
    Values <- MCValues
    Kinds <- MCKinds
    KindOf <- MCKindOf
    StringKind = "String"
    Absent = Absent
    EmptySchema = EmptySchema
    NoSchema = NoSchema
    Malformed = Malformed
    AnyType = AnyType
    Clients = {"c1"}
    Files <- ColdStart
    Requests <- PoltreeTraffic
    Readers = {"r1"}
PROPERTIES
    SecondWriterAgrees
