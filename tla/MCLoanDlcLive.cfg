CONSTANTS
    Loan = {l1}
    Tx = {t1, t2}
    Pays <- PaysAllAndChange
    KeyOf <- OneKey
    Maturity = 2
    MaxTime = 3
    MaxPrice = 2
    MaxEvent = 1
    MaxRedemption = 2
SPECIFICATION FairSpec
PROPERTIES LoansEnd SigningsComplete
