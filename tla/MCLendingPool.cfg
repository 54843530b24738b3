SPECIFICATION Spec
CONSTANTS
    Lender = {u1}
    Loan = {l1, l2}
    Maturity = {m1, m2}
    Precision = 10
    Rate = {19}
    ReserveFactor = 9
    ReferralFeeFactor = 5
    SupplyCap = 6
    BorrowCap = 6
    Amount = {3}
    MaxHeight = 2
SYMMETRY Symmetry
INVARIANTS SupplyIsBacked AvailableIsHeld LoansAreBooked
PROPERTIES NoDilution
