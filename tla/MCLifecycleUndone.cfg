\* An account is removed after a manager has listed it as created.
SPECIFICATION Spec
CONSTANTS
    Caller = {c1}
    External = {e1}
    Internal = {i1}
    Job = {j1, j2}
    NoJob = NoJob
    MaxDeaths = 0
    Mishap = {}
PROPERTY DeprecatedIsFinal
