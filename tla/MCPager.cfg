SPECIFICATION Spec
CONSTANTS
    connA = connA
    connB = connB
    Conns = {connA, connB}
    Writers = {connA}
    Starts <- MCStarts
    MaxPages = 2
    JournalLen = 4
    Journals = {1, 2}
    MaxTxns = 2
    MaxFaults = 2
    MaxEvents = 3
    Writeback = TRUE
    Nothing = Nothing
    Zeros = Zeros
    Junk = Junk
CHECK_DEADLOCK FALSE
INVARIANTS
    CachesAreRecognized
    AnyJournalRollsBack
    JournalStaysLinked
PROPERTIES
    Implements
