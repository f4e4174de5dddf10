SPECIFICATION DashboardSpec
CONSTANTS
    p1 = p1
    p2 = p2
    PolicyIds <- MCPolicyIds
    Contents <- MCContents
    ValidContents <- MCValidContents
    EntityTypes <- MCEntityTypes
    EntityIds <- MCEntityIds
    Attrs <- MCAttrs
    Values <- MCValues
    Kinds <- MCKinds
    KindOf <- MCKindOf
    StringKind = "String"
    Requests = {}
    Absent = Absent
    EmptySchema = EmptySchema
    NoSchema = NoSchema
    Malformed = Malformed
    AnyType = AnyType
    MaxWrites = 2
    MaxForeign = 1
    AsText <- MCAsText
    JsonOf <- MCJsonOf
    ParsedAs <- MCParsedAs
    MaxEntityChanges = 2
    NotJson = NotJson
    NoText = NoText
    Drafts <- MCDrafts
    MaxSchemaChanges = 2
    Asks = {"admin", "user"}
    FirstAsk = "user"
    Examples = {"user"}
    ContextTexts = {"empty", "address", "broken"}
    EmptyText = "empty"
    InvalidText = "broken"
    Allows <- MCAllows
    MaxChecks = 2
    MaxAuthForeign = 2
    MaxOverviewForeign = 1
    BaseUrls = {"url1", "url2"}
    ApiKeys = {"key1", "key2"}
    NoSetting = NoSetting
    FirstEnvironment <- MCFirstEnvironment
    MaxDeploys = 1
    Pages = {"policies", "entities", "schema", "authorization", "overview", "settings"}
    Contents0 <- MCContents0
INVARIANTS
    PoliciesTypeOK
    ListFollowsAgent
    SpinnersMeanFetching
    ConfirmationsAreNamed
    EditorConsistent
    NoFirstSchema
    ResultOfLastCheck
    DecisionFromStored
    StatsComplete
    SavedMeansUsed
PROPERTIES
    SavedAsEntered
    SavesNeverRemove
    RequiredNeverCreated
    OnlyStringsSaved
    BusyEnds
CHECK_DEADLOCK FALSE
