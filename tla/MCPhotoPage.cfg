SPECIFICATION PageSpec
CONSTANTS
    Second = 2
    Duration = 2
    MaxLate = 2
    MaxClicks = 2
    Horizon = 8
    MaxRequests = 3
    NoImage = NoImage
    FilterMayLack = TRUE
    RenderMayFail = FALSE
    Buttons = 2
    MaxRunning = 3
CHECK_DEADLOCK FALSE
INVARIANTS
    GoneWhenOver
    EachRequestOnce
    OnlyOvertakingHidesNewest
    MenuMeetsTouches
PROPERTIES
    NotCutShort
    EveryRequestCompletes
    OpensInTheEnd
