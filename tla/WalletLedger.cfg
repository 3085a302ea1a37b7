\* Two top-ups race.
CONSTANTS
    p1 = p1
    p2 = p2
    Payment <- TwoPayments
    NoPayment = NoPayment
    Paid <- MCPaid
    TopupAmounts = {1}
    Prices = {1, 2}
    MaxLedger = 3
    Topper = {t1, t2}
    Payer = {}
    Provider = {}
    Failures = FALSE
SPECIFICATION Spec
INVARIANT LedgerExplainsBalance
