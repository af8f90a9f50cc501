SPECIFICATION Spec
CONSTANTS
    Projects = {p1, p2}
    Existing = {p1}
    Delivered = {p1}
    NoProject = NoProject
    MaxRequests = 3
    MaxLoads = 2
    MaxRevision <- OneProjectMoves
INVARIANT SettledWhenQuiet
CHECK_DEADLOCK FALSE
