SPECIFICATION BarSpec
CONSTANTS
    box = box
    NoField = NoField
    ZeroFrame = ZeroFrame
    Order <- MCOrder
    TextViews = {box}
    Top <- MCTop
    Bottom <- MCBottom
    WindowHeight = 568
    StatusBar = 20
    Distance = 10
    Toolbar = 44
    Inputs <- MCInputs
    MayToggle = FALSE
    BarHeight = 49
    MaxSwipes = 2
    MaxFrames = 5
CHECK_DEADLOCK FALSE
INVARIANTS
    BarNeverCreeps
    BoxFollowsKeyboard
