SPECIFICATION Spec
CONSTANTS
    connA = connA
    connB = connB
    Conns = {connA, connB}
    Writers = {connA, connB}
    Starts <- MCMixedStarts
    MaxPages = 2
    JournalLen = 4
    Journals = {1, 2, 3}
    MaxTxns = 3
    MaxFaults = 0
    MaxEvents = 3
    Writeback = TRUE
    Nothing = Nothing
    Zeros = Zeros
    Junk = Junk
CHECK_DEADLOCK FALSE
INVARIANTS
    JournalStaysLinked
