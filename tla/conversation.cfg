CONSTANTS
    None = None
    Chunks <- MCChunks
    MaxAnswers = 2
    MaxChunks = 2
SPECIFICATION Spec
INVARIANTS
    TypeOK
    ResponsesMatch
    SignatureSurvives
    CallsSurvive
PROPERTIES
    SessionKept
CHECK_DEADLOCK FALSE
