SPECIFICATION Spec
CONSTANTS
    connA = connA
    connB = connB
    Conns = {connA}
    Writers = {connA}
    Starts <- MCStarts
    MaxPages = 2
    JournalLen = 4
    Journals = {1, 2}
    MaxTxns = 2
    MaxFaults = 2
    MaxEvents = 4
    Writeback = FALSE
    Nothing = Nothing
    Zeros = Zeros
    Junk = Junk
CHECK_DEADLOCK FALSE
INVARIANTS
    AnyJournalRollsBack
