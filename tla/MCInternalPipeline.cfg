\* One manager run at a time, two deliveries of cloud tasks, two rows of which a segment
\* holds one, two iterations.
SPECIFICATION Spec
CONSTANTS
    BA = {b1}
    Run = {r1}
    Worker = {w1, w2}
    Interval = 1
    Mishap = {}
    MaxRecord = 2
    MaxIteration = 2
SYMMETRY WorkerSymmetry
INVARIANTS
    TypeOK
    CopyJobAwaited
    VerifiedMeansCopied
    OneCopyJobPerIteration
PROPERTY CopiesSegments
