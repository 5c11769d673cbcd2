SPECIFICATION Spec
CONSTANTS
    Instances = {i1, i2, i3}
    Addresses = {a1, a2}
    NoProxy = NoProxy
    None = None
    RestoreAttempts = 2
    MaxUserStarts = 2
    Disturbances = {"crash", "miss"}
SYMMETRY MCSymmetry
INVARIANTS
    IInv
    OneRunningPerOrigin
    RestoredMeansDefaultEnvironment
    ActiveMeansCurrentAddress
    TriedOncePerConfigure
    ClosedStaysClosed
PROPERTY
    SwitchOnlyWhenPrepared
