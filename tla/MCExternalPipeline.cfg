\* One manager run at a time, two deliveries of cloud tasks at a time.
SPECIFICATION Spec
CONSTANTS
  BA = {b1}
  Unreachable = {}
  Run = {r1}
  Worker = {w1, w2}
  MaxRecord = 2
  MaxIteration = 2
SYMMETRY WorkerSymmetry
INVARIANTS
  TypeOK
  OneJobPerAttempt
  LiveWorkerOwnsTask
  LoadsSettled
  FilesKeptWhileLoading
  OnboardedHistoryLoaded
  LocalIsPrefix
PROPERTY CopiesSegments
