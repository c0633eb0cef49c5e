CONSTANTS
    None = None
    MaxSessions = 2
    Answers <- MCAnswers
SPECIFICATION Spec
INVARIANTS
    TypeOK
PROPERTIES
    TerminalSticks
    ExhaustedIsSpent
    SpentSticks
    CooldownEnds
    ExhaustionEnds
CHECK_DEADLOCK FALSE
