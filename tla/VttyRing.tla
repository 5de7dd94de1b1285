------------------------------ MODULE VttyRing ------------------------------
(***************************************************************************)
(* The input buffer of a virtual terminal (dev_vtty.c): a ring filled by   *)
(* the VTTY thread and drained by the CPU thread.  Each operation holds    *)
(* the vtty's lock, so it is one step.                                     *)
(***************************************************************************)
EXTENDS Integers, Sequences

CONSTANTS
    Chars,  \* what a terminal sends, once its escapes are resolved
    Size,   \* VTTY_BUFFER_SIZE
    NoChar  \* the -1 of vtty_get_char

ASSUME SizeAssumption == Size \in Nat \ {0, 1}
ASSUME CharsAssumption == NoChar \notin Chars

VARIABLES
    buffer,   \* vtty->buffer
    readPtr,  \* vtty->read_ptr
    writePtr, \* vtty->write_ptr
    refused,  \* whether the last vtty_store returned -1
    got       \* what the last vtty_get_char returned

ringVars == <<buffer, readPtr, writePtr, refused, got>>

Slots == 0..(Size - 1)

(* Variant: the pointer wraps one slot late.                               *)
WrapLate(p) == IF p = Size THEN 0 ELSE p + 1

Wrap(p) == IF p + 1 = Size THEN 0 ELSE p + 1

CharAvail == readPtr # writePtr

(* Variant: the store that overwrites the oldest character.                *)
StoreAnyway(c) ==
    /\ refused' = FALSE
    /\ buffer' = [buffer EXCEPT ![writePtr] = c]
    /\ writePtr' = Wrap(writePtr)
    /\ UNCHANGED <<readPtr, got>>

(* vtty_store: the newest character is the one to go.                      *)
Store(c) ==
    /\ refused' = (Wrap(writePtr) = readPtr)
    /\ IF Wrap(writePtr) = readPtr
       THEN UNCHANGED <<buffer, writePtr>>
       ELSE /\ buffer' = [buffer EXCEPT ![writePtr] = c]
            /\ writePtr' = Wrap(writePtr)
    /\ UNCHANGED <<readPtr, got>>

(* vtty_get_char.                                                          *)
GetChar ==
    /\ got' = IF CharAvail THEN buffer[readPtr] ELSE NoChar
    /\ readPtr' = IF CharAvail THEN Wrap(readPtr) ELSE readPtr
    /\ UNCHANGED <<buffer, writePtr, refused>>

(* vtty_create: a zeroed vtty_t.                                           *)
RingInit ==
    /\ buffer = [s \in Slots |-> NoChar]
    /\ readPtr = 0
    /\ writePtr = 0
    /\ refused = FALSE
    /\ got = NoChar

(* The slots in use, oldest first, hold characters.                        *)
Used == IF readPtr <= writePtr THEN writePtr - readPtr
                               ELSE writePtr - readPtr + Size

SlotOf(i) == IF readPtr + i - 1 < Size THEN readPtr + i - 1
                                       ELSE readPtr + i - 1 - Size

Held == [i \in 1..Used |-> buffer[SlotOf(i)]]

RingTypeOK ==
    /\ buffer \in [Slots -> Chars \cup {NoChar}]
    /\ readPtr \in Slots
    /\ writePtr \in Slots
    /\ refused \in BOOLEAN
    /\ got \in Chars \cup {NoChar}
    /\ \A i \in 1..Used : buffer[SlotOf(i)] \in Chars

=============================================================================
