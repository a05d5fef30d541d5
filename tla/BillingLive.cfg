SPECIFICATION FairSpec
CONSTANTS
    i1 = i1
    i2 = i2
    Invoice = {i1}
    Payment = {p1, p2}
    Request = {r1, r2}
    User = {u1, u2}
    Worker = {w1, w2}
    NoOne = NoOne
    Fee <- MCFee
    Amount = {1, 2}
    Terms <- MCTerms
PROPERTIES
    TransactionsEnd
\* Nobody has to ask for anything.
CHECK_DEADLOCK FALSE
