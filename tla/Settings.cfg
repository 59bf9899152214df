SPECIFICATION Spec
CONSTANTS
    None = None
    Offered <- MCOffered
    Requests <- MCRequests
    Preset <- MCPreset
    Address <- MCAddress
    WifiPieces = 2
    TextPieces = 3
    IdPieces = 2
    MaxLen = 8
    MaxPort = 65535
    MaxDelay = 1800
    MaxCalls = 3
\* No call is under way and none need follow: the setters may rest.
CHECK_DEADLOCK FALSE
INVARIANTS
    TypeOK
    ReadsBack
    OkMeansInEffect
    CommandDoesAsAsked
PROPERTIES
    RepeatChangesNothing
    ConfiguresAsAsked
