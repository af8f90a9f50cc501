SPECIFICATION FairSpec
CONSTANTS
    Projects = {p1, p2}
    Existing = {p1}
    Delivered = {p1}
    NoProject = NoProject
    MaxRequests = 3
    MaxLoads = 2
    MaxRevision <- OneProjectMoves
INVARIANTS
    PartsMatch
    OfferedJobHasEnded
PROPERTIES
    ReviewedWhatWasShown
    ShownNeverOlder
    CreatedStaysListed
    ReviewFormReturns
ACTION_CONSTRAINT OvertakenReadNoMore
CHECK_DEADLOCK FALSE
