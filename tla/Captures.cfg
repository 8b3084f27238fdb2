SPECIFICATION Spec
CONSTANTS
    Clients = {c1, c2}
    Shas = {x1, x2, x3}
    Ids = {k1, k2, k3}
    Limit = 1
    Retention = 1
    MaxTime = 2
    NoRow = NoRow
    NoId = NoId
SYMMETRY CaptureSymmetry
INVARIANTS
    MissingFileIsTransient
    QuotaOvershoot
    CaptureInv
