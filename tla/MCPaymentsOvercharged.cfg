SPECIFICATION Spec
CONSTANTS
    Payer = {p1, p2}
    Attempt = {1}
    Kind = {"debit"}
    Total = 3
    Amount = {1}
    Fee = 0
    MinRemainder = 2
    Mishap = {"stale_snapshot"}
INVARIANT
    NeverOvercharged
CHECK_DEADLOCK FALSE
