SPECIFICATION Spec
CONSTANTS
    app = app
    other = other
    a = a
    b = b
    c = c
    Procs = {app, other}
    Handles = {a, b, c}
    Proc <- MCProc
    Idle = Idle
    MayLack = TRUE
INVARIANTS
    TypeOK
    InodeMatchesKernel
    WritersAreSeen
PROPERTIES
    Implements
    PendingGetsThrough
