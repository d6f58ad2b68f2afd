SPECIFICATION BlurSpec
CONSTANTS
    MaxRequests = 4
    NoImage = NoImage
    FilterMayLack = TRUE
    RenderMayFail = TRUE
CHECK_DEADLOCK FALSE
INVARIANTS
    CompletedMeansImageSet
