\* Two payers of one invoice, whose calls may all fail or crash.  When nothing is
\* under way the system rests, so that deadlock is not checked.
SPECIFICATION Spec
CONSTANTS
    Payer = {p1, p2}
    Attempt = {1, 2}
    Kind = {"card", "debit"}
    Total = 3
    Amount = {1}
    Fee = 1
    MinRemainder = 2
    Mishap = {"call_fails", "crash", "event_refused", "event_early"}
SYMMETRY PayerSymmetry
INVARIANTS
    TypeOK
    LockExcludes
    NeverOvercharged
    OneReceiptPerPayment
    UnlockedMeansBooked
    LeftoversFollowMoney
    RemainderPayable
    DebitBooked
CHECK_DEADLOCK FALSE
