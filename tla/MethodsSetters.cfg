SPECIFICATION Spec
CONSTANTS
    None = None
    t1 = t1
    t2 = t2
    ssid = ssid
    key = key
    zone = zone
    Task = {t1, t2}
    Field = {ssid, key, zone}
    Group <- MCGroup
    Offered <- SettersAndAlarms
    Password = {None}
    Moods = {"available"}
    Faulty = {"bank1", "bank2"}
    MaxCalls = 2
SYMMETRY MCSymmetry
INVARIANTS
    AppliedWhole
    OkMeansApplied
    FaultsReachCaller
PROPERTIES
    ConfiguresInTurn
