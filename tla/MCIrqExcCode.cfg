\* The same instance; the VTTY thread against the exception code.
SPECIFICATION Spec
CONSTANTS
    tcu0 = tcu0
    uart0 = uart0
    NoIrq = NoIrq
    Irqs <- MCIrqs
    Tick = tcu0
    Serial = uart0
PROPERTIES
    ExcCodeStands
