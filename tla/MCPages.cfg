SPECIFICATION PagesSpec
CONSTANTS
    Items = {i1, i2, i3}
    Cells = {c1, c2}
    NoItem = NoItem
    Wide = 320
    Room = 60
    beijing = beijing
    shanghai = shanghai
    Sections = {beijing, shanghai}
    Count <- MCCount
INVARIANTS
    CancelWhileEditing
    SingleSelection
    StripFollowsPage
