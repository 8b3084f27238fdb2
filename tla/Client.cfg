SPECIFICATION PcapSpec
CONSTANTS
    Files = {a, b}
    MaxJobs = 2
    MaxFlows = 2
    None = None
SYMMETRY FileSymmetry
CHECK_DEADLOCK FALSE
INVARIANTS
    PcapInv
    PairedEvidence
