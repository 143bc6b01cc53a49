SPECIFICATION FairSpec
CONSTANTS
    None = None
    Day = 7
    OpenHours <- MCOpenHours
    ClosedHours <- MCClosedHours
    Driver = "pifacedigital"
    Actions <- MCActions
    ExitDuration = 1
    ContactDuration = 1
    PollTime = 1
    MaxTime = 2
    StopHours = {0}
    MaxQueue = 1
    MaxEdges = 1
    MaxRaised = 1
INVARIANTS TypeOK ClosedHolds OpenHolds NeverLeftOpen ContactTracksDoor
PROPERTIES GrantOpens
CHECK_DEADLOCK FALSE
