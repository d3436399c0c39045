CONSTANTS
    MaxTurns = 2
    Speeches = {0, 1, 2}
    Samples <- Delays
    Written <- Ways
SPECIFICATION ProcessSpec
INVARIANTS
    TypeOK
    RecordedLatencyFair
    OnlyLastFourReadable
PROPERTIES
    OnlyAbsentCallersHungUp
    AnswerNotInterrupted
    SilentCallerHungUp
    MeasuredTurnsFinal
