SPECIFICATION Spec
CONSTANTS
    UserPacs = {p1, p2}
    NoPac = NoPac
    OurPac = OurPac
    None = None
    Torn = Torn
    Disturbances = {"settings"}
SYMMETRY MCSymmetry
INVARIANT PacBackOnExit
