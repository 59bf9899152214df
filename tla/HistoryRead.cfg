SPECIFICATION Spec
CONSTANTS
    Timeout = 3
    Idle = 2
    Stored = 3
    MaxBulk = 4
    MaxReads = 2
INVARIANTS
    TypeOK
    EndsByDeadline
    MostRecentFirst
PROPERTIES
    CutOnlyBySilence
    ResultIsWhatCame
