SPECIFICATION Spec
CONSTANTS
    None = None
    Offered <- WifiOnly
    Requests <- NoRequests
    Preset <- MCPreset
    Address <- MCAddress
    WifiPieces = 2
    TextPieces = 3
    IdPieces = 2
    MaxLen = 8
    MaxPort = 65535
    MaxDelay = 1800
    MaxCalls = 1
PROPERTY WifiRulesAreValueErrors
