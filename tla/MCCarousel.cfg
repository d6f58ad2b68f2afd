SPECIFICATION CarouselSpec
CONSTANTS
    Images = 6
CHECK_DEADLOCK FALSE
INVARIANTS
    RestsOnOriginal
    OneTimer
    DragsNeverMeetFreedTimer
PROPERTIES
    TickAdvances
    ShowsEveryImage
