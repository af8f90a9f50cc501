SPECIFICATION Spec
CONSTANTS
    Runs = {r1, r2}
    StepIds = {s1, s2}
    Sessions = {t1, t2}
    Keys = {k1, k2}
    Params = {p1}
    NoStep = NoStep
    Kinds = {"assets"}
    Externals = {"storyboard"}
    Bindings <- AssetBindings
    Outputs <- OneShot
    Singles = {"manifest", "cover"}
    ExternalVersions = {1}
SYMMETRY Symmetry
CHECK_DEADLOCK FALSE
INVARIANTS
    StreamVersionsDistinct
    NoLockCycle
PROPERTY ImplementsLedger
