\* Liveness of one attempt.
SPECIFICATION FairSpec
CONSTANTS
  BA = {b1}
  Unreachable = {}
  Run = {r1}
  Worker = {w1}
  MaxRecord = 1
  MaxIteration = 1
PROPERTIES AttemptEnds OnboardingMarked LeaseReleased
