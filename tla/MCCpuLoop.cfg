SPECIFICATION MCSpec
CONSTANTS
    uart = uart
    tcu = tcu
    wdt = wdt
    Off = Off
    Timers <- MCTimers
    GuestTimers <- MCGuestTimers
    BootTimers <- MCBootTimers
    Watchdog = wdt
    Period <- MCPeriod
    MaxAhead = 4
    Width = 8
    PageBytes = 16
    MemPages = {8}
    DevicePage = 9
    RA = 4
    Vector = Vector
    Counter = 128
    MaxOthers = 2
    Programs <- McPrograms
    Starts <- McStarts
INVARIANTS
    TypeOK
    ListSound
    ExecOnlyOnRunningBoard
    PausedOnlyInRound
    InterpTypeOK
    NoLostUpdate
PROPERTIES
    ImplementsDeadlines
    DueServed
    GuestRunsOn
    RunsAsIfAlone
    DataInstructionsMean
    AccessesMean
