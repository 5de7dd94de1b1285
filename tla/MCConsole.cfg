\* The terminal is readable twice, up to two characters each: the ring fills.
SPECIFICATION Spec
CONSTANTS
    a = a
    b = b
    Chars <- MCChars
    Size = 3
    NoChar = NoChar
    MaxTyped = 2
    MaxStored = 2
INVARIANT
    TypeOK
PROPERTIES
    ImplementsFifo
    InputRead
    OutputAsked
