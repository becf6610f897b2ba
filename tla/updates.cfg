SPECIFICATION FairSpec
CONSTANTS
    p1 = p1
    p2 = p2
    None = None
    Procs = {p1, p2}
    MaxVersion = 3
INVARIANTS
    TypeOK
    ReadyIsNewer
    OnePackage
    BusyIsHeld
    CancelReachesDownload
    SpinnerIsReal
PROPERTIES
    UpgradesOnly
    UpdaterRecovers
