SPECIFICATION Spec
CONSTANTS
    User = {f, a}
    Founder = {f}
    Worker = {w1, w2}
    MaxTokens = 1
    MaxGrants = 1
    None = None
SYMMETRY MCSymmetry
INVARIANTS
    AnAdminRemains
CHECK_DEADLOCK FALSE
