CONSTANTS
    FrameKinds <- McFrames
    MaxFrames = 2
    MaxSends = 2
    SendLengths = {2}
    PadTo = 2
    MaxLength = 3
    Rivals = {"tcu0"}
    MaxBoots = 1
    Ports = {"B", "C"}
    Pins = {"net", "rb", "key"}
    ReadyPort = "C"
    ReadyPin = "rb"
    NetPort = "B"
    NetPin = "net"
    TcuModulus = 6
    Rates = {1, 2}
    Fulls = {3}
    WdtLimit = 1
    Channels = {0, 1}
    RamSize = 7
    DmaPage = 2
    Transfers <- McTransfers
    Slots = {0, 16}
    Ddas = {0, 8, 16}
    Bank = 8
    Descriptors <- McDescriptors
    MaxTransfers = 2
    LastYear = 2009
    Skips = {1, 2}
    Hours <- McHours
    AlarmSpan = 2
    MaxPolls = 2
    Widths = {2, 3}
    WindowWidths = {2, 3}
    TsMax = 4
    MaxTouches = 1
    MaxReads = 4
    Parts = {"ram", "uart", "gpio"}
    Ram = "ram"
    Sizes <- McSizes
    Addresses = {0, 1, 2, 3}
    TableSize = 2
    ListHead = "dev_list"
    None = "NULL"
    Points = {1, 2}
    MaxCommands = 5
    MaxBreaks = 1
    MaxSpoilt = 1
    MaxSessions = 1
    Ops = {"Z", "z", "c", "s", "ask"}
SPECIFICATION Spec
INVARIANTS
    BoardTypeOK
    EventsNotLost
    FramesReadWhole
    LcdPollSound
    BreakpointsStop
    RepliesMatch
    FindsItsDevice
    TimeFollowsCalendar
    TimersFollow
PROPERTIES
    TransfersMean
    SamplesInStep
CHECK_DEADLOCK FALSE
