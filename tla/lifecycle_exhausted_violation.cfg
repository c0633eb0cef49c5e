CONSTANTS
    None = None
    MaxSessions = 2
    Answers <- MCAnswers
SPECIFICATION Spec
PROPERTIES
    HealthKeepsExhausted
CHECK_DEADLOCK FALSE
