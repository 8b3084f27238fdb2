SPECIFICATION EvidenceSpec
CONSTANTS
    Tokens = {k1}
    Threads = {t1, t2}
    Pcaps = {p1}
    Signatures = {s1, s2}
    Stuck = {}
    TTL = 1
    MaxTime = 1
    NoToken = NoToken
    NoRecord = NoRecord
SYMMETRY EvidenceSymmetry
PROPERTIES
    LeaseMatchesExtraction
