SPECIFICATION Spec
CONSTANTS
    p1 = p1
    p2 = p2
    Peer <- MCPeer
    NoPeer = NoPeer
    Empty = Empty
    Picture = Picture
    BadLiteral = BadLiteral
    plain = plain
    doubled = doubled
    single = single
    Text <- MCText
    Stored <- MCStored
    Window = 2
    MaxSent <- MCMaxSent
    MaxRows = 1
    MaxBubbles = 3
    MaxPictures = 1
INVARIANTS
    NothingLost
    NothingInvented
    ReopenShowsNothingNew
    SendMatchesDraft
PROPERTIES
    DurableOnlyGrows
    TablelessForever
    ChatLogSpec
