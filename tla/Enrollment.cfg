SPECIFICATION Spec
CONSTANTS
    s1 = s1
    s2 = s2
    s3 = s3
    Student = {s1, s2, s3}
    Existing = {s1, s2}
    Applicant = {s3}
    Cohort = {c1}
    Room = {rm1}
    Place = {e1, e2, e3}
    Worker = {w1, w2}
    NoOne = NoOne
    Size = {1, 2}
SYMMETRY MCSymmetry
INVARIANTS
    NeverOverMaxSize
    PlacesAreSound
    SeatFinishesApplication
PROPERTIES
    LineKeepsOrder
    FinishedIsFinal
