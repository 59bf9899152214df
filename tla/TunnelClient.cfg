SPECIFICATION Spec
CONSTANTS
    None = None
    Nobody = Nobody
    t1 = t1
    t2 = t2
    read = read
    first = first
    second = second
    streamed = streamed
    mine = mine
    Sender = {t1, t2}
    Callbacks = {mine}
    Mine = mine
    Key = {read, first, second, streamed}
    RequestKey = {read}
    Setter <- MCSetter
    HistoryKey = {streamed}
    MaxConnects = 3
    MaxCalls = 2
SYMMETRY MCSymmetry
INVARIANTS
    TypeOK
    OkMeansHandled
    DropEndsCalls
PROPERTIES
    KeepsContract
