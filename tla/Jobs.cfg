SPECIFICATION Spec
CONSTANTS
    Discoveries = {d1}
    Analyses = {a1, a2}
    Threads <- AllJobs
    Tokens = {k1}
    Pcaps = {p1, p2}
    Signatures = {s1, s2}
    Stuck = {}
    StuckUploads = {d1}
    TTL = 0
    FinishedTTL = 0
    MaxTime = 1
    NoToken = NoToken
    NoRecord = NoRecord
    NoPcap = NoPcap
CONSTRAINT AloneOrReusing
SYMMETRY DataSymmetry
INVARIANTS
    JobsInv
    CompletedIsSaved
    AnalysisHasEvidence
PROPERTIES
    JobsKeepTheirEnd
    EvidenceSpec
