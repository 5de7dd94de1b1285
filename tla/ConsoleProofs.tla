---------------------------- MODULE ConsoleProofs ----------------------------
(***************************************************************************)
(* The ring of VttyRing is a bounded FIFO, for every size, and so is the   *)
(* console's input, whatever the two threads do around it.                 *)
(*                                                                         *)
(* Held, the refinement mapping, reads the ring from readPtr to writePtr.  *)
(* The lemmas first say where its positions lie, then what a store and a   *)
(* read do to it.                                                          *)
(***************************************************************************)
EXTENDS Console, SequenceTheorems, TLAPS

-----------------------------------------------------------------------------
(* Positions of the ring.                                                  *)

LEMMA WrapType == \A p \in Slots : Wrap(p) \in Slots
BY SizeAssumption DEF Slots, Wrap

(* Used counts the characters held, and a full ring is one slot short.     *)
LEMMA UsedRange ==
    ASSUME readPtr \in Slots, writePtr \in Slots
    PROVE  /\ Used \in 0..(Size - 1)
           /\ Used = 0 <=> ~CharAvail
           /\ Used = Size - 1 <=> Wrap(writePtr) = readPtr
BY SizeAssumption DEF Slots, Used, Wrap, CharAvail

LEMMA SlotRange ==
    ASSUME readPtr \in Slots, writePtr \in Slots, NEW i \in 1..Used
    PROVE  SlotOf(i) \in Slots /\ SlotOf(i) # writePtr
BY SizeAssumption DEF Slots, Used, SlotOf

LEMMA HeldType ==
    ASSUME RingTypeOK
    PROVE  /\ Held \in Seq(Chars)
           /\ Len(Held) = Used
           /\ \A i \in 1..Used : Held[i] = buffer[SlotOf(i)]
<1>1. Used \in Nat
  BY UsedRange DEF RingTypeOK
<1>2. \A i \in 1..Used : buffer[SlotOf(i)] \in Chars
  BY DEF RingTypeOK
<1>. QED BY <1>1, <1>2 DEF Held

-----------------------------------------------------------------------------
(* vtty_store.                                                             *)

LEMMA StoreSound ==
    ASSUME RingTypeOK, NEW c \in Chars, Store(c)
    PROVE  RingTypeOK' /\ Fifo!Put(c)
<1>. USE SizeAssumption
<1>1. readPtr \in Slots /\ writePtr \in Slots
  BY DEF RingTypeOK
<1>2. CASE Wrap(writePtr) = readPtr
  <2>1. UNCHANGED <<buffer, readPtr, writePtr, got>> /\ refused' = TRUE
    BY <1>2 DEF Store
  <2>2. Held' = Held /\ RingTypeOK'
    BY <2>1 DEF Held, Used, SlotOf, RingTypeOK
  <2>3. Len(Held) = Size - 1
    BY <1>1, <1>2, UsedRange, HeldType
  <2>. QED BY <2>1, <2>2, <2>3 DEF Fifo!Put
<1>3. CASE Wrap(writePtr) # readPtr
  <2>1. /\ buffer' = [buffer EXCEPT ![writePtr] = c]
        /\ writePtr' = Wrap(writePtr)
        /\ UNCHANGED <<readPtr, got>>
        /\ refused' = FALSE
    BY <1>3 DEF Store
  <2>2. writePtr' \in Slots
    BY <1>1, <2>1, WrapType
  <2>3. PICK n \in Nat : n = Used
    BY <1>1, UsedRange
  <2>4. Used' = n + 1
    BY <1>1, <1>3, <2>1, <2>3 DEF Used, Wrap, Slots
  <2>5. \A i \in 1..n : SlotOf(i)' = SlotOf(i)
    BY <1>1, <2>1 DEF SlotOf
  <2>6. SlotOf(n + 1)' = writePtr
    BY <1>1, <2>1, <2>3 DEF Used, SlotOf, Slots
  <2>7. /\ \A i \in 1..n : buffer'[SlotOf(i)'] = buffer[SlotOf(i)]
        /\ buffer'[SlotOf(n + 1)'] = c
    BY <1>1, <2>1, <2>3, <2>5, <2>6, SlotRange DEF RingTypeOK
  <2>8. \A i \in 1..(n + 1) : buffer'[SlotOf(i)'] \in Chars
    <3>1. \A i \in 1..n : buffer[SlotOf(i)] \in Chars
      BY <2>3 DEF RingTypeOK
    <3>2. \A i \in 1..(n + 1) : i \in 1..n \/ i = n + 1
      BY <2>3
    <3>. QED BY <2>7, <3>1, <3>2
  <2>9. RingTypeOK'
    <3>1. buffer' \in [Slots -> Chars \cup {NoChar}]
      BY <1>1, <2>1 DEF RingTypeOK
    <3>. QED BY <2>1, <2>2, <2>4, <2>8, <3>1 DEF RingTypeOK
  <2>10. Held' = Append(Held, c)
    <3>1. Held' \in Seq(Chars) /\ Len(Held') = n + 1
          /\ \A i \in 1..(n + 1) : Held'[i] = buffer'[SlotOf(i)']
      BY <2>3, <2>4, <2>8 DEF Held
    <3>2. Held \in Seq(Chars) /\ Len(Held) = n
          /\ \A i \in 1..n : Held[i] = buffer[SlotOf(i)]
      BY <2>3, HeldType
    <3>3. Append(Held, c) \in Seq(Chars) /\ Len(Append(Held, c)) = n + 1
          /\ \A i \in 1..n : Append(Held, c)[i] = Held[i]
          /\ Append(Held, c)[n + 1] = c
      BY <3>2
    <3>4. \A i \in 1..(n + 1) : i \in 1..n \/ i = n + 1
      BY <2>3
    <3>5. \A i \in 1..(n + 1) : Held'[i] = Append(Held, c)[i]
      BY <2>7, <3>1, <3>2, <3>3, <3>4
    <3>. QED BY <3>1, <3>3, <3>5
  <2>11. Len(Held) # Size - 1
    BY <1>1, <1>3, UsedRange, HeldType
  <2>. QED BY <2>1, <2>9, <2>10, <2>11 DEF Fifo!Put
<1>. QED BY <1>2, <1>3

-----------------------------------------------------------------------------
(* vtty_get_char.                                                          *)

LEMMA GetSound ==
    ASSUME RingTypeOK, GetChar
    PROVE  RingTypeOK' /\ Fifo!Get
<1>. USE SizeAssumption
<1>1. readPtr \in Slots /\ writePtr \in Slots
  BY DEF RingTypeOK
<1>2. Held \in Seq(Chars) /\ Len(Held) = Used
      /\ \A i \in 1..Used : Held[i] = buffer[SlotOf(i)]
  BY HeldType
<1>3. Used \in Nat
  BY <1>1, UsedRange
<1>4. CASE ~CharAvail
  <2>1. UNCHANGED <<buffer, readPtr, writePtr, refused>> /\ got' = NoChar
    BY <1>4 DEF GetChar
  <2>2. Held' = Held /\ RingTypeOK'
    BY <2>1 DEF Held, Used, SlotOf, RingTypeOK
  <2>3. Held = <<>>
    BY <1>1, <1>2, <1>4, UsedRange
  <2>. QED BY <2>1, <2>2, <2>3 DEF Fifo!Get
<1>5. CASE CharAvail
  <2>1. /\ got' = buffer[readPtr]
        /\ readPtr' = Wrap(readPtr)
        /\ UNCHANGED <<buffer, writePtr, refused>>
    BY <1>5 DEF GetChar
  <2>2. Used # 0
    BY <1>1, <1>5, UsedRange
  <2>3. Used' = Used - 1
    BY <1>1, <1>5, <2>1 DEF Used, Wrap, Slots, CharAvail
  <2>4. \A i \in 1..(Used - 1) : SlotOf(i)' = SlotOf(i + 1)
    BY <1>1, <2>1 DEF Used, SlotOf, Slots, Wrap
  <2>5. SlotOf(1) = readPtr
    BY <1>1 DEF SlotOf, Slots
  <2>6. got' = Held[1] /\ Held # <<>>
    BY <1>2, <1>3, <2>1, <2>2, <2>5
  <2>7. \A i \in 1..Used' : buffer'[SlotOf(i)'] = Held[i + 1]
    BY <1>2, <1>3, <2>1, <2>3, <2>4
  <2>8. \A i \in 1..Used' : buffer'[SlotOf(i)'] \in Chars
    BY <1>2, <1>3, <2>2, <2>3, <2>7
  <2>9. RingTypeOK'
    <3>1. readPtr' \in Slots
      BY <1>1, <2>1, WrapType
    <3>2. got' \in Chars
      BY <1>2, <1>3, <2>2, <2>6
    <3>. QED BY <2>1, <2>8, <3>1, <3>2 DEF RingTypeOK
  <2>10. Held' = Tail(Held)
    <3>1. Held' \in Seq(Chars) /\ Len(Held') = Used - 1
          /\ \A i \in 1..(Used - 1) : Held'[i] = Held[i + 1]
      BY <1>3, <2>2, <2>3, <2>7, <2>8 DEF Held
    <3>2. Tail(Held) \in Seq(Chars) /\ Len(Tail(Held)) = Used - 1
          /\ \A i \in 1..(Used - 1) : Tail(Held)[i] = Held[i + 1]
      BY <1>2, <1>3, <2>2, <2>6
    <3>. QED BY <3>1, <3>2
  <2>. QED BY <2>1, <2>6, <2>9, <2>10 DEF Fifo!Get
<1>. QED BY <1>4, <1>5

-----------------------------------------------------------------------------
(* The two threads around the ring.                                        *)

(* What the VTTY thread still has to store is one of Inputs.               *)
LEMMA InputsShrink ==
    ASSUME NEW in \in Inputs, in # <<>>
    PROVE  Head(in) \in Chars /\ Tail(in) \in Inputs
<1>1. PICK n \in 0..MaxStored : in \in [1..n -> Chars]
  BY DEF Inputs
<1>2. n \in Nat /\ n - 1 \in Nat /\ n - 1 \in 0..MaxStored
  <2>1. n # 0
    BY <1>1
  <2>. QED BY <2>1, TypedAssumption
<1>3. in \in Seq(Chars) /\ Len(in) = n
  BY <1>1, <1>2
<1>4. Tail(in) \in Seq(Chars) /\ Len(Tail(in)) = n - 1
  BY <1>3, HeadTailProperties
<1>5. Tail(in) \in [1..(n - 1) -> Chars]
  BY <1>4, LenProperties
<1>. QED BY <1>2, <1>3, <1>5, HeadTailProperties DEF Inputs

LEMMA InitHolds == Init => TypeOK /\ Fifo!Init
<1>. SUFFICES ASSUME Init PROVE TypeOK /\ Fifo!Init
  OBVIOUS
<1>1. Used = 0
  BY DEF Init, RingInit, Used
<1>2. RingTypeOK
  <2>1. 0 \in Slots
    BY SizeAssumption DEF Slots
  <2>2. 1..Used = {}
    BY <1>1
  <2>. QED BY <2>1, <2>2 DEF Init, RingInit, RingTypeOK
<1>3. Held = <<>>
  BY <1>1, <1>2, HeldType
<1>4. TypeOK
  <2>1. <<>> \in Inputs
    <3>1. <<>> \in [1..0 -> Chars] /\ 0 \in 0..MaxStored
      BY TypedAssumption
    <3>. QED BY <3>1 DEF Inputs
  <2>2. 0 \in 0..MaxTyped
    BY TypedAssumption
  <2>. QED BY <1>2, <2>1, <2>2 DEF Init, TypeOK
<1>. QED BY <1>3, <1>4 DEF Fifo!Init, Init, RingInit

(* Only a store and a read touch the ring.                                 *)
LEMMA RingStep ==
    ASSUME TypeOK, [Next]_vars
    PROVE  RingTypeOK' /\ [Fifo!Next]_(Fifo!vars) /\ RingCalls
<1>1. ASSUME VttyStores PROVE RingTypeOK' /\ Fifo!Next /\ Fifo!Put(Head(input))
  <2>1. Head(input) \in Chars /\ Store(Head(input))
    BY <1>1, InputsShrink DEF VttyStores, TypeOK
  <2>. QED BY <2>1, StoreSound DEF TypeOK, Fifo!Next
<1>2. ASSUME ReadRbr PROVE RingTypeOK' /\ Fifo!Next /\ Fifo!Get
  BY <1>2, GetSound DEF ReadRbr, TypeOK, Fifo!Next
<1>3. ASSUME UNCHANGED ringVars PROVE RingTypeOK' /\ [Fifo!Next]_(Fifo!vars)
  <2>1. Held' = Held /\ RingTypeOK'
    BY <1>3 DEF ringVars, TypeOK, RingTypeOK, Held, Used, SlotOf
  <2>. QED BY <1>3, <2>1 DEF ringVars, Fifo!vars
<1>4. VttyStores \/ ReadRbr \/ UNCHANGED ringVars
  BY DEF Next, vars, Vtty, VttyReads, VttyTests, VttyRaises, VttyMarks, UartPoll,
         OtherSourceShown, TakeInterrupt, Handles, ReadIir, IirTells, ReadLsr,
         LsrStores, LsrTests, LsrTells, RbrTests, RbrMarks, WriteThr, Guest,
         GuestPrints, WriteIer, WriteFcr, GuestUnmasks, GuestSettles,
         WatchdogResets
<1>5. RingCalls
  BY <1>1, <1>2 DEF RingCalls
<1>. QED BY <1>1, <1>2, <1>3, <1>4, <1>5

LEMMA TypeStep ==
    ASSUME TypeOK, [Next]_vars
    PROVE  TypeOK'
<1>. USE DEF TypeOK
<1>0. RingTypeOK'
  BY RingStep
<1>1. CASE Vtty
  <2>1. CASE VttyReads
    BY <1>0, <2>1, TypedAssumption DEF VttyReads, uartVars, intcVars, vttyVars, cpuVars
  <2>2. CASE VttyStores
    BY <1>0, <2>2, InputsShrink DEF VttyStores, uartVars, intcVars, vttyVars, cpuVars
  <2>3. CASE VttyTests
    BY <1>0, <2>3 DEF VttyTests, uartVars, intcVars, vttyVars, cpuVars
  <2>4. CASE VttyRaises
    BY <1>0, <2>4 DEF VttyRaises, SetIrq, uartVars, intcVars, vttyVars, cpuVars
  <2>5. CASE VttyMarks
    BY <1>0, <2>5 DEF VttyMarks, uartVars, intcVars, vttyVars, cpuVars
  <2>. QED BY <1>1, <2>1, <2>2, <2>3, <2>4, <2>5 DEF Vtty
<1>2. CASE UartPoll
  BY <1>0, <1>2 DEF UartPoll, CharAvail, SetIrq, uartVars, intcVars, vttyVars, cpuVars
<1>3. CASE OtherSourceShown
  <2>1. shown' \in BOOLEAN
    BY <1>3 DEF OtherSourceShown, ClearIrq
  <2>2. UNCHANGED <<ier, ume, output, dry, masked, vtty, input, typed, driver, access,
                    oldDry, settled>>
    BY <1>3 DEF OtherSourceShown, ClearIrq, uartVars, vttyVars, cpuVars
  <2>. QED BY <1>0, <2>1, <2>2
<1>4. CASE TakeInterrupt
  BY <1>0, <1>4 DEF TakeInterrupt, uartVars, intcVars, vttyVars, cpuVars
<1>5. CASE Handles
  <2>1. CASE ReadIir
    BY <1>0, <2>1 DEF ReadIir, ClearIrq, uartVars, intcVars, vttyVars, cpuVars
  <2>2. CASE IirTells
    BY <1>0, <2>2 DEF IirTells, CharAvail, uartVars, intcVars, vttyVars, cpuVars
  <2>3. CASE ReadLsr
    BY <1>0, <2>3 DEF ReadLsr, uartVars, intcVars, vttyVars, cpuVars
  <2>4. CASE LsrStores
    <3>1. /\ dry' \in BOOLEAN /\ oldDry' \in BOOLEAN
          /\ access' = "lsrAvail" /\ driver' # "out"
      BY <2>4 DEF LsrStores
    <3>2. UNCHANGED <<ier, ume, output, shown, masked, vtty, input, typed, driver, settled>>
      BY <2>4 DEF LsrStores, intcVars, vttyVars
    <3>. QED BY <1>0, <3>1, <3>2
  <2>5. CASE LsrTests
    BY <1>0, <2>5 DEF LsrTests, CharAvail, uartVars, intcVars, vttyVars, cpuVars
  <2>6. CASE LsrTells
    BY <1>0, <2>6 DEF LsrTells, uartVars, intcVars, vttyVars, cpuVars
  <2>7. CASE ReadRbr
    BY <1>0, <2>7 DEF ReadRbr, uartVars, intcVars, vttyVars, cpuVars
  <2>8. CASE RbrTests
    BY <1>0, <2>8 DEF RbrTests, uartVars, intcVars, vttyVars, cpuVars
  <2>9. CASE RbrMarks
    BY <1>0, <2>9 DEF RbrMarks, uartVars, intcVars, vttyVars, cpuVars
  <2>10. CASE WriteThr
    BY <1>0, <2>10 DEF WriteThr, PutChar, SetIrq, uartVars, intcVars, vttyVars, cpuVars
  <2>. QED BY <1>5, <2>1, <2>2, <2>3, <2>4, <2>5, <2>6, <2>7, <2>8, <2>9, <2>10
          DEF Handles
<1>6. CASE Guest
  <2>1. CASE GuestPrints
    <3>1. output' \in BOOLEAN /\ shown' \in BOOLEAN /\ masked' \in BOOLEAN
      BY <2>1 DEF GuestPrints, PutChar, SetIrq, intcVars
    <3>2. UNCHANGED <<ier, ume, dry, vtty, input, typed, driver, access, oldDry, settled>>
      BY <2>1 DEF GuestPrints, vttyVars, cpuVars
    <3>. QED BY <1>0, <3>1, <3>2
  <2>2. CASE WriteIer
    BY <1>0, <2>2 DEF WriteIer, uartVars, intcVars, vttyVars, cpuVars
  <2>3. CASE WriteFcr(TRUE) \/ WriteFcr(FALSE)
    BY <1>0, <2>3 DEF WriteFcr, ClearIrq, uartVars, intcVars, vttyVars, cpuVars
  <2>4. CASE GuestUnmasks
    BY <1>0, <2>4 DEF GuestUnmasks, uartVars, intcVars, vttyVars, cpuVars
  <2>5. CASE GuestSettles
    BY <1>0, <2>5 DEF GuestSettles, uartVars, intcVars, vttyVars, cpuVars
  <2>. QED BY <1>6, <2>1, <2>2, <2>3, <2>4, <2>5 DEF Guest
<1>7. CASE WatchdogResets
  BY <1>0, <1>7 DEF WatchdogResets, uartVars, intcVars, vttyVars, cpuVars
<1>8. CASE UNCHANGED vars
  BY <1>0, <1>8 DEF vars, uartVars, intcVars, vttyVars, cpuVars
<1>. QED BY <1>1, <1>2, <1>3, <1>4, <1>5, <1>6, <1>7, <1>8 DEF Next

-----------------------------------------------------------------------------
(* Type correctness of the console, for any ring and any characters.       *)
THEOREM TypesHold == Spec => []TypeOK
<1>1. Init => TypeOK
  BY InitHolds
<1>2. TypeOK /\ [Next]_vars => TypeOK'
  BY TypeStep
<1>. QED BY <1>1, <1>2, PTL DEF Spec

(* Whatever the two threads do, the guest reads the terminal's characters  *)
(* in order, each once, and loses one only when the ring is full.          *)
THEOREM DeliversInOrder == Spec => ImplementsFifo
<1>1. Init => Fifo!Init
  BY InitHolds
<1>2. TypeOK /\ [Next]_vars => [Fifo!Next]_(Fifo!vars) /\ [RingCalls]_vars
  BY RingStep
<1>. QED BY <1>1, <1>2, TypesHold, PTL DEF Spec, ImplementsFifo, Fifo!Spec

=============================================================================
