\* A run that outlives its lease next to the run that caught it afterwards.
SPECIFICATION Spec
CONSTANTS
  BA = {b1}
  Unreachable = {}
  Run = {r1, r2}
  Worker = {w1}
  MaxRecord = 1
  MaxIteration = 1
INVARIANT NoRowTwice
