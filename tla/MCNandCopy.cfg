\* A store outside the page buffer ends a behaviour.
SPECIFICATION Spec
CHECK_DEADLOCK FALSE
CONSTANTS
    Radix = 2
    PageSize = 3
    PagesPerBlock = 2
    TotalBlocks = 4
    Operations <- MCOperations
    None = None
    NoFile = NoFile
PROPERTY
    CopyBackCopies
