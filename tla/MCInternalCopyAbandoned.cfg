SPECIFICATION Spec
CONSTANTS
    BA = {b1}
    Run = {r1}
    Worker = {w1}
    Interval = 1
    Mishap = {"copy_abandoned"}
    MaxRecord = 1
    MaxIteration = 2
INVARIANT
    NoRowTwice
