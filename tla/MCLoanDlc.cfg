CONSTANTS
    Loan = {l1, l2}
    Tx = {t1, t2}
    Pays <- PaysAll
    KeyOf <- OneKey
    Maturity = 2
    MaxTime = 3
    MaxPrice = 2
    MaxEvent = 2
    MaxRedemption = 2
SPECIFICATION Spec
SYMMETRY Symmetry
INVARIANTS AttestationIsSound QueuesAreExact DisbursedIsCovered ContractIsSound
PROPERTIES CollateralSpec
