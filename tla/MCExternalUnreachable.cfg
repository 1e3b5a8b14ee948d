\* One account has no BigQuery client.
SPECIFICATION FairSpec
CONSTANTS
  BA = {b1, b2}
  Unreachable = {b2}
  Run = {r1}
  Worker = {w1}
  MaxRecord = 1
  MaxIteration = 1
PROPERTY OnboardingMarked
