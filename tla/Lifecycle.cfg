SPECIFICATION LifecycleFairSpec
CONSTANTS
    UserPacs = {p1}
    NoPac = NoPac
    OurPac = OurPac
    None = None
    Torn = Torn
    Disturbances = {"crash", "settings", "outside", "rollback", "serve"}
    Processes = {bk1, bk2}
    Nobody = Nobody
INVARIANTS
    LifecycleInv
    UserPacSafe
    ExitRestores
    PacNeverDangles
PROPERTIES
    NeverOursAfterSuspend
    QuitEnds
