SPECIFICATION FairSpec
CONSTANTS
    None = None
    c1 = c1
    c2 = c2
    c3 = c3
    r1 = r1
    r2 = r2
    Caller = {c1, c2}
    Register = {r1, r2}
    Flag = {0, 1, 2, 3}
    RequestKey <- OneRequestKey
    Setter <- MCSetter
    HistoryKey <- MCHistoryKey
    SlowCancel = FALSE
    MaxCalls = 2
PROPERTY EveryCallReturns
