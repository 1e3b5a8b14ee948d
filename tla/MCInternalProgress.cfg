SPECIFICATION FairSpec
CONSTANTS
    BA = {b1}
    Run = {r1}
    Worker = {w1}
    Interval = 1
    Mishap = {}
    MaxRecord = 1
    MaxIteration = 2
PROPERTIES
    ManagerRests
    TasksRest
