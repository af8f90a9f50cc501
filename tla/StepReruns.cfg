SPECIFICATION Spec
CONSTANTS
    Runs = {r1}
    StepIds = {s1, s2, s3}
    Sessions = {t1}
    Keys = {k1, k2, k3}
    Params = {p1}
    NoStep = NoStep
    Kinds = {"assets", "cover"}
    Externals = {"storyboard"}
    Bindings <- AssetBindings
    Outputs <- AssetOutputs
    Singles = {"manifest", "cover"}
    ExternalVersions = {1}
SYMMETRY Symmetry
CHECK_DEADLOCK FALSE
INVARIANTS
    WholeStepCanBeRerun
    RerunStaysAtNode
    RerunCoversParent
PROPERTY InvalidationExact
