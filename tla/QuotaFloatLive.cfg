SPECIFICATION FairSpec
CONSTANTS
    Instances = {i1, i2, i3}
    Addresses = {a1}
    NoProxy = NoProxy
    None = None
    RestoreAttempts = 2
    MaxUserStarts = 2
    Disturbances = {}
PROPERTIES
    EveryInstanceHandled
    RestoreAnswers
