SPECIFICATION Spec
CONSTANTS
    Origin <- MCOrigin
    CorsSetting <- MCCorsSetting
    TrimOf <- MCTrimOf
    Letter = {"v", "q", "b", ".", "2", "3", "5", "F"}
    Escaped <- MCEscaped
    BasePath <- MCBasePath
    Path <- MCPath
    Query <- MCQuery
    Method <- MCMethod
    Name <- MCName
    Value = {"close", "x-trace", "vary, upgrade"}
    Listed <- MCListed
    Answer <- MCAnswer
INVARIANT TypeOK
INVARIANT EndToEnd
INVARIANT AllowedOrigin
INVARIANT PathKept
CHECK_DEADLOCK FALSE
