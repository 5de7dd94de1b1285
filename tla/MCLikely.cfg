CONSTANTS
    Width = 8
    PageBytes = 16
    MemPages = {8}
    DevicePage = 9
    RA = 4
    Vector = Vector
    Counter = 128
    MaxOthers = 2
    Programs <- McLikelyPrograms
    Starts <- LikelyStarts
SPECIFICATION InterpSpec
INVARIANT ExceptionReachesHandler
