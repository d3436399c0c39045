CONSTANTS
    Calls = {a, b}
    Signallers = {a}
    MaxExtras = 1
    MaxInFlight = 1
    MaxFaults = 1
SPECIFICATION Spec
INVARIANTS
    TypeOK
    CardsTellTheTruth
    TranscriptUsable
    RecordMatchesTranscript
PROPERTIES
    CardsSettle
