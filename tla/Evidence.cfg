SPECIFICATION FairEvidenceSpec
CONSTANTS
    Tokens = {k1, k2}
    Threads = {t1, t2}
    Pcaps = {p1}
    Signatures = {s1, s2}
    Stuck = {k2}
    TTL = 0
    MaxTime = 2
    NoToken = NoToken
    NoRecord = NoRecord
INVARIANTS
    LeasedEvidenceStays
    LeaseCountExact
    NoLostDirectory
    EvidenceInv
PROPERTIES
    LeaseProtocol
    ExpiredIsRemoved
