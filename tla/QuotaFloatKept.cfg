SPECIFICATION Spec
CONSTANTS
    Instances = {i1, i2}
    Addresses = {a1}
    NoProxy = NoProxy
    None = None
    RestoreAttempts = 2
    MaxUserStarts = 1
    Disturbances = {}
INVARIANT OriginalKept
