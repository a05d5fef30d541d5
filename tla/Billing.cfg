SPECIFICATION Spec
CONSTANTS
    i1 = i1
    i2 = i2
    Invoice = {i1, i2}
    Payment = {p1, p2, p3}
    Request = {r1, r2}
    User = {u1, u2}
    Worker = {w1, w2}
    NoOne = NoOne
    Fee <- MCTwoFees
    Amount = {1, 2, 3}
    Terms <- MCTerms
SYMMETRY MCSymmetry
INVARIANTS
    BooksBalance
    NoInstalmentOverpaid
    ReceiptsGapless
    FourEyes
    WorkIsCurrent
PROPERTIES
    HistoryIsFinal
    ImplementsLedger
\* Nobody has to ask for anything.
CHECK_DEADLOCK FALSE
