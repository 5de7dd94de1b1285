SPECIFICATION MCSpec
CONSTANTS
    Entries = 2
    MappedPages <- MCPages
    Direct <- MCDirect
    Asids <- MCAsids
    Contents <- MCLargeContents
    DeviceFrames <- MCDevices
    NotFound = NotFound
    Nothing = Nothing
    Buckets = 2
    Empty = Empty
    v = v
    r = r
    k = k
    u1 = u1
    u2 = u2
    f1 = f1
    f2 = f2
    KernelPages <- MCKernel
    UserPages <- MCUser
    Vector = v
    UserExits <- MCKernelText
    ResetPage = r
    Follows <- MCFollows
    Frames <- MCFrames
    NULL = NULL
INVARIANT
    CacheCoherent
