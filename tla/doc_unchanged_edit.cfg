SPECIFICATION FormsSpec
CONSTANTS
    Types <- MCTypes
    BaseName <- MCBaseName
    ActionType = "Action"
    Ids <- MCIds
    EmptyId = ""
    Bodies <- MCBodies
    ValidBodies <- MCValidBodies
    ToFirstBrace <- MCToFirstBrace
    Says <- MCSays
    None = None
    Absent = Absent
    PolicyIds = {"p"}
    StoredTexts <- MCStoredTexts
    SchemaTypes <- MCSchemaTypes
    SchemaActions <- MCSchemaActions
    KnownIds <- MCKnownIds
    MaxEdits = 0
    MaxSaves = 1
    ContextKeys <- MCContextKeys
    JsonValues <- MCJsonValues
    FieldTexts = {"1", "[]"}
    FieldTypes = {"Long", "String"}
    DefaultType = "String"
    SchemaType <- MCSchemaType
    JsonTypeOf <- MCTypeOf
    JsonTextOf <- MCTextOf
    ValueOf <- MCValueOf
    NoValue = NoValue
    BadJson = BadJson
    MaxFields = 2
PROPERTIES
    UnchangedEditKeepsPolicy
