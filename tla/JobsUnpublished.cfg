SPECIFICATION Spec
CONSTANTS
    Discoveries = {d1}
    Analyses = {a1}
    Threads <- AllJobs
    Tokens = {k1}
    Pcaps = {p1}
    Signatures = {s1}
    Stuck = {}
    StuckUploads = {}
    TTL = 0
    FinishedTTL = 0
    MaxTime = 1
    NoToken = NoToken
    NoRecord = NoRecord
    NoPcap = NoPcap
INVARIANT
    UnsuccessfulNeverPublishes
