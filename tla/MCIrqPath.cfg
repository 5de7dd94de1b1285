\* Two sources, of which the VTTY thread raises one.
SPECIFICATION Spec
CONSTANTS
    tcu0 = tcu0
    uart0 = uart0
    NoIrq = NoIrq
    Irqs <- MCIrqs
    Tick = tcu0
    Serial = uart0
INVARIANTS
    TypeOK
    InterruptOnlyWhenEnabled
PROPERTIES
    LatchedServed
