SPECIFICATION Spec
CONSTANTS
    x = x
    p = p
    q = q
    Callers = {c1, c2}
    MaxAttempts = 3
    MaxCalls = 3
    Answers <- MCAnswers
    Streams <- MCStreams
INVARIANTS TypeOK FormatIsNegotiated 
CHECK_DEADLOCK FALSE
