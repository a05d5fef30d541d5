------------------------------ MODULE MCBilling ------------------------------
EXTENDS BillingProperties, TLC

CONSTANTS i1, i2

MCFee    == i1 :> <<2, 1>>
MCTwoFees == i1 :> <<2, 1>> @@ i2 :> <<1, 0>>
MCTerms  == {[kind |-> "fixed", value |-> 1], [kind |-> "percent", value |-> 5000]}
MCSymmetry == Permutations(Payment) \cup Permutations(Request)
                  \cup Permutations(User) \cup Permutations(Worker)
=============================================================================
