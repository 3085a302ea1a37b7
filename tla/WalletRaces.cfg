\* Top-ups, charges and repeated webhooks at once, with failures.  No symmetry: liveness.
CONSTANTS
    p1 = p1
    p2 = p2
    Payment <- TwoPayments
    NoPayment = NoPayment
    Paid <- MCPaid
    TopupAmounts = {1}
    Prices = {2}
    MaxLedger = 3
    Topper = {t1, t2}
    Payer = {c1}
    Provider = {w1, w2}
    Failures = TRUE
SPECIFICATION FairSpec
INVARIANT TypeOK
INVARIANT PaymentOnce
INVARIANT BalanceNeverNegative
PROPERTY WebhookCreditsExactly
PROPERTY EveryWalletRequestAnswered
