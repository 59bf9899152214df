SPECIFICATION Spec
CONSTANTS
    None = None
    t1 = t1
    t2 = t2
    ssid = ssid
    key = key
    zone = zone
    Task = {t1, t2}
    Field = {}
    Group <- NoGroup
    Offered <- LimitAndControl
    Password = {"right", "wrong", "unfit", None}
    Moods = {"available", "open", "unknown"}
    Faulty = {}
    MaxCalls = 2
SYMMETRY MCSymmetry
INVARIANTS
    TypeOK
    LimitAfterCheck
    OutcomeTellsTruth
