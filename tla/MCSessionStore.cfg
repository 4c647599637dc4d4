SPECIFICATION Spec
CONSTANTS
    a = a
    b = b
    Payload <- MCPayload
    MaxLen = 3
    MaxLines = 6
    MaxCrashes = 2
    TornWrites = FALSE
    Diverging = FALSE
    V1Files = {}
INVARIANTS TypeOK SavedIsLoaded
PROPERTY ImplementsDurableTranscript
