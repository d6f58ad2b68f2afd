SPECIFICATION Spec
CONSTANTS
    name = name
    short = short
    memo = memo
    big = big
    NoField = NoField
    ZeroFrame = ZeroFrame
    Order <- MCOrder
    TextViews = {memo, big}
    Top <- MCTop
    Bottom <- MCBottom
    WindowHeight = 568
    StatusBar = 20
    Distance = 10
    Toolbar = 44
    Inputs <- MCInputs
    MayToggle = TRUE
INVARIANTS
    RestoredWhenHidden
