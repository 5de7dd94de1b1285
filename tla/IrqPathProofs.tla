---------------------------- MODULE IrqPathProofs ----------------------------
(***************************************************************************)
(* Theorems about IrqPath, for any set of sources: the types, and that no  *)
(* race with the VTTY thread interrupts a guest that has interrupts off.   *)
(***************************************************************************)
EXTENDS IrqPath, TLAPS

TestedPoints == {"flagUp", "excLoad", "excStore", "excClear", "excEnter"}

(* The CPU thread goes from the test in mips64_update_irq_flag to the      *)
(* store that sets EXL without executing a guest instruction: STATUS is    *)
(* still what it tested.  What the VTTY thread makes of irq_pending and    *)
(* CAUSE meanwhile does not matter.                                        *)
TestStands ==
    task = "take" /\ at["cpu"] \in TestedPoints => Enabled /\ "IM2" \in status

IInv == DOMAIN at = Threads /\ TestStands

-----------------------------------------------------------------------------
(* A step of one thread moves that thread only.                            *)
LEMMA GoesMoves ==
    ASSUME DOMAIN at = Threads, NEW p \in Threads, NEW from, NEW to,
           Goes(p, from, to)
    PROVE  /\ DOMAIN at' = Threads
           /\ at[p] = from /\ at'[p] = to
           /\ \A q \in Threads : q # p => at'[q] = at[q]
BY DEF Goes

(* Steps of set_irq and update_irq_flag on either thread.  On the VTTY     *)
(* thread they leave the CPU thread's point, its task and STATUS alone; on *)
(* the CPU thread "flagUp" is reached by the test alone.                   *)
LEMMA IrqStepsKeep ==
    ASSUME IInv, NEW p \in Threads, IrqSteps(p)
    PROVE  IInv'
<1>. USE DEF IInv
<1>1. UNCHANGED status
  BY DEF IrqSteps, TestMask, HideLoad, HideStore, Show, Raise, FlagDown,
     MergeLoad, MergeStore, TestEnabled, FlagUp, cpuVars
<1>2. CASE TestMask(p)
  <2>1. PICK to \in {"hideLoad", "show"} : Goes(p, "mask", to)
    BY <1>2 DEF TestMask
  <2>. QED BY <1>1, <1>2, <2>1, GoesMoves
           DEF TestMask, TestStands, TestedPoints, Enabled, Threads
<1>3. CASE HideLoad(p) \/ Show(p) \/ Raise(p) \/ FlagDown(p) \/ MergeLoad(p)
             \/ MergeStore(p)
  <2>1. PICK to \in {"hideStore", "raise", "flagDown", "mergeLoad",
                     "mergeStore", "test"} : \E from : Goes(p, from, to)
    BY <1>3 DEF HideLoad, Show, Raise, FlagDown, MergeLoad, MergeStore
  <2>2. UNCHANGED task
    BY <1>3 DEF HideLoad, Show, Raise, FlagDown, MergeLoad, MergeStore
  <2>. QED BY <1>1, <2>1, <2>2, GoesMoves
           DEF TestStands, TestedPoints, Enabled, Threads
<1>4. CASE HideStore(p)
  BY <1>1, <1>4, GoesMoves
     DEF HideStore, Returns, TestStands, TestedPoints, Enabled, Threads
<1>5. CASE TestEnabled(p)
  <2>1. CASE Enabled /\ "IM2" \in status /\ cause.ip
    <3>1. Goes(p, "test", "flagUp") /\ UNCHANGED task
      BY <1>5, <2>1 DEF TestEnabled
    <3>. QED BY <1>1, <2>1, <3>1, GoesMoves DEF TestStands, Enabled
  <2>2. CASE ~(Enabled /\ "IM2" \in status /\ cause.ip)
    <3>1. Goes(p, "test", "out") /\ Returns(p)
      BY <1>5, <2>2 DEF TestEnabled
    <3>. QED BY <1>1, <3>1, GoesMoves
             DEF Returns, TestStands, TestedPoints, Enabled, Threads
  <2>. QED BY <2>1, <2>2
<1>6. CASE FlagUp(p)
  <2>1. CASE p = "cpu" /\ task = "take"
    <3>1. Goes(p, "flagUp", "excLoad") /\ UNCHANGED task
      BY <1>6, <2>1 DEF FlagUp
    <3>. QED BY <1>1, <2>1, <3>1, GoesMoves
             DEF TestStands, TestedPoints, Enabled
  <2>2. CASE ~(p = "cpu" /\ task = "take")
    <3>1. Goes(p, "flagUp", "out") /\ Returns(p)
      BY <1>6, <2>2 DEF FlagUp
    <3>. QED BY <1>1, <3>1, GoesMoves
             DEF Returns, TestStands, TestedPoints, Enabled, Threads
  <2>. QED BY <2>1, <2>2
<1>. QED BY <1>2, <1>3, <1>4, <1>5, <1>6 DEF IrqSteps

(* Steps of mips64_trigger_exception: STATUS changes in the last but one.  *)
LEMMA ExceptionKeeps ==
    ASSUME IInv, ExcLoad \/ ExcStore \/ ExcClear \/ ExcEnter \/ ExcFlag
    PROVE  IInv'
<1>. USE DEF IInv, TestStands, TestedPoints, Enabled, Threads
<1>1. CASE ExcLoad
  BY <1>1, GoesMoves DEF ExcLoad, cpuVars
<1>2. CASE ExcStore
  <2>1. PICK to \in {"excClear", "excEnter"} : Goes("cpu", "excStore", to)
    BY <1>2 DEF ExcStore
  <2>. QED BY <1>2, <2>1, GoesMoves DEF ExcStore
<1>3. CASE ExcClear
  BY <1>3, GoesMoves DEF ExcClear
<1>4. CASE ExcEnter
  BY <1>4, GoesMoves DEF ExcEnter
<1>5. CASE ExcFlag
  BY <1>5, GoesMoves DEF ExcFlag
<1>. QED BY <1>1, <1>2, <1>3, <1>4, <1>5

(* Steps of mips64_clear_irq, in mtc0 to COMPARE.                          *)
LEMMA ClearIrqKeeps ==
    ASSUME IInv, ClearLoad \/ ClearStore \/ ClearTest
    PROVE  IInv'
<1>1. PICK from, to \in {"clearLoad", "clearStore", "clearTest", "flagDown"} :
          Goes("cpu", from, to)
  BY DEF ClearLoad, ClearStore, ClearTest
<1>. QED BY <1>1, GoesMoves DEF IInv, TestStands, TestedPoints, Threads

(* Everything else happens with the CPU thread at none of those points.    *)
LEMMA OutsideKeeps ==
    ASSUME IInv,
           \/ TakeIrq \/ GuestInstruction \/ CpuResets \/ IntcResets
           \/ \E i \in Irqs : DeviceRaises(i)
    PROVE  IInv'
<1>. USE DEF IInv, TestStands, TestedPoints, Threads
<1>1. CASE TakeIrq \/ CpuResets \/ IntcResets
           \/ \E i \in Irqs : DeviceRaises(i)
  <2>1. PICK from, to \in {"flagDown", "reset", "out", "mask"} :
            Goes("cpu", from, to)
    BY <1>1 DEF TakeIrq, CpuResets, IntcResets, DeviceRaises, CallSetIrq
  <2>. QED BY <2>1, GoesMoves
<1>2. CASE GuestExcepts
  BY <1>2, GoesMoves DEF GuestExcepts
<1>3. CASE GuestWritesCompare \/ GuestAcksSerial
  <2>1. PICK to \in {"clearLoad", "hideLoad"} : Goes("cpu", "out", to)
    BY <1>3 DEF GuestWritesCompare, GuestAcksSerial
  <2>. QED BY <2>1, GoesMoves
<1>4. CASE \/ GuestWritesStatus \/ GuestWritesCause \/ GuestErets
           \/ GuestReadsIpr \/ GuestRests
           \/ \E i \in Irqs : GuestMasks(i) \/ GuestUnmasks(i)
  BY <1>4 DEF GuestWritesStatus, GuestWritesCause, GuestErets, GuestReadsIpr,
     GuestRests, GuestMasks, GuestUnmasks, GuestRuns, OnlyGuest
<1>. QED BY <1>1, <1>2, <1>3, <1>4 DEF GuestInstruction

LEMMA VttyKeeps ==
    ASSUME IInv, VttyNotifies
    PROVE  IInv'
<1>1. Goes("vtty", "out", "mask") /\ UNCHANGED <<task, status>>
  BY DEF VttyNotifies, CallSetIrq, cpuVars
<1>. QED BY <1>1, GoesMoves DEF IInv, TestStands, Threads, Enabled

-----------------------------------------------------------------------------
(* InterruptOnlyWhenEnabled: mips64_trigger_irq takes an interrupt only    *)
(* with IE and IM2 set and EXL and ERL clear, whatever the VTTY thread has *)
(* stored to irq_pending, irq_cause and CAUSE, and when.                   *)
THEOREM NoUnwantedInterrupt == Spec => []InterruptOnlyWhenEnabled
<1>1. Init => IInv
  BY DEF Init, IInv, TestStands, TestedPoints, Threads
<1>2. IInv /\ [Next]_vars => IInv'
  <2>1. SUFFICES ASSUME IInv, [Next]_vars PROVE IInv'
    OBVIOUS
  <2>2. CASE UNCHANGED vars
    BY <2>1, <2>2 DEF vars, cpuVars, IInv, TestStands, Enabled
  <2>3. CASE Next
    BY <2>1, <2>3, IrqStepsKeep, ExceptionKeeps, ClearIrqKeeps,
       OutsideKeeps, VttyKeeps
       DEF Next, CpuFinishes, Threads
  <2>. QED BY <2>1, <2>2, <2>3
<1>3. IInv => InterruptOnlyWhenEnabled
  BY DEF IInv, TestStands, TestedPoints, InterruptOnlyWhenEnabled
<1>. QED BY <1>1, <1>2, <1>3, PTL DEF Spec

-----------------------------------------------------------------------------
(* The types.  The conjuncts about a thread's place hold for each thread   *)
(* by itself: a step moves one thread, and moves the source it has in hand *)
(* and, on the CPU thread, the task, with it.                              *)

LEMMA IrqStepsTyped ==
    ASSUME TypeOK, NEW p \in Threads, IrqSteps(p)
    PROVE  TypeOK'
<1>. USE IrqsAssumption DEF TypeOK, Threads, SetIrqPoints, UpdatePoints,
     ExceptionPoints, ClearIrqPoints, intcVars, cpuVars, localVars
<1>1. CASE TestMask(p)
  <2>1. PICK to \in {"hideLoad", "show"} : Goes(p, "mask", to)
    BY <1>1 DEF TestMask
  <2>. QED BY <1>1, <2>1 DEF TestMask, Goes
<1>2. CASE HideLoad(p)
  BY <1>2 DEF HideLoad, Goes
<1>3. CASE HideStore(p)
  BY <1>3 DEF HideStore, Goes, Returns, Drops
<1>4. CASE Show(p)
  BY <1>4 DEF Show, Goes
<1>5. CASE Raise(p)
  BY <1>5 DEF Raise, Goes, Drops
<1>6. CASE FlagDown(p)
  BY <1>6 DEF FlagDown, Goes
<1>7. CASE MergeLoad(p)
  BY <1>7 DEF MergeLoad, Goes, CauseValues
<1>8. CASE MergeStore(p)
  BY <1>8 DEF MergeStore, Goes, CauseValues, NoCause
<1>9. CASE TestEnabled(p)
  <2>1. PICK to \in {"flagUp", "out"} :
            /\ Goes(p, "test", to)
            /\ to = "out" => Returns(p)
            /\ to = "flagUp" => UNCHANGED task
    BY <1>9 DEF TestEnabled
  <2>. QED BY <1>9, <2>1 DEF TestEnabled, Goes, Returns
<1>10. CASE FlagUp(p)
  <2>1. PICK to \in {"excLoad", "out"} :
            /\ Goes(p, "flagUp", to)
            /\ to = "out" => Returns(p)
            /\ to = "excLoad" => UNCHANGED task
    BY <1>10 DEF FlagUp
  <2>. QED BY <1>10, <2>1 DEF FlagUp, Goes, Returns
<1>. QED BY <1>1, <1>2, <1>3, <1>4, <1>5, <1>6, <1>7, <1>8, <1>9, <1>10
         DEF IrqSteps

LEMMA ExceptionTyped ==
    ASSUME TypeOK, ExcLoad \/ ExcStore \/ ExcClear \/ ExcEnter \/ ExcFlag
    PROVE  TypeOK'
<1>. USE DEF TypeOK, Threads, SetIrqPoints, UpdatePoints, ExceptionPoints,
     ClearIrqPoints, intcVars, cpuVars, localVars, Goes
<1>1. CASE ExcLoad
  BY <1>1 DEF ExcLoad
<1>2. CASE ExcStore
  <2>1. PICK to \in {"excClear", "excEnter"} : Goes("cpu", "excStore", to)
    BY <1>2 DEF ExcStore
  <2>. QED BY <1>2, <2>1 DEF ExcStore, CauseValues, NoCause
<1>3. CASE ExcClear
  BY <1>3 DEF ExcClear
<1>4. CASE ExcEnter
  BY <1>4 DEF ExcEnter, StatusBits
<1>5. CASE ExcFlag
  BY <1>5 DEF ExcFlag, Returns
<1>. QED BY <1>1, <1>2, <1>3, <1>4, <1>5

LEMMA ClearIrqTyped ==
    ASSUME TypeOK, ClearLoad \/ ClearStore \/ ClearTest
    PROVE  TypeOK'
<1>. USE DEF TypeOK, Threads, SetIrqPoints, UpdatePoints, ExceptionPoints,
     ClearIrqPoints, intcVars, cpuVars, localVars, Goes
<1>1. CASE ClearLoad
  BY <1>1 DEF ClearLoad
<1>2. CASE ClearStore
  BY <1>2 DEF ClearStore
<1>3. CASE ClearTest
  BY <1>3 DEF ClearTest
<1>. QED BY <1>1, <1>2, <1>3

(* The guest, the devices and the watchdog.                                *)
LEMMA OutsideTyped ==
    ASSUME TypeOK,
           \/ TakeIrq \/ GuestInstruction \/ CpuResets \/ IntcResets
           \/ VttyNotifies
           \/ \E i \in Irqs : DeviceRaises(i)
    PROVE  TypeOK'
<1>. USE IrqsAssumption DEF TypeOK, Threads, SetIrqPoints, UpdatePoints,
     ExceptionPoints, ClearIrqPoints, intcVars, cpuVars, localVars, Goes
<1>1. CASE TakeIrq \/ GuestExcepts \/ GuestWritesCompare
  BY <1>1 DEF TakeIrq, GuestExcepts, GuestWritesCompare
<1>2. CASE GuestAcksSerial
  BY <1>2 DEF GuestAcksSerial
<1>3. CASE VttyNotifies \/ \E i \in Irqs : DeviceRaises(i)
  BY <1>3 DEF VttyNotifies, DeviceRaises, CallSetIrq
<1>4. CASE GuestWritesStatus \/ GuestWritesCause \/ GuestReadsIpr \/ GuestRests
  BY <1>4 DEF GuestWritesStatus, GuestWritesCause, GuestReadsIpr, GuestRests,
     OnlyGuest, StatusBits, CauseValues
<1>5. CASE GuestErets
  BY <1>5 DEF GuestErets, OnlyGuest, StatusBits
<1>6. CASE \E i \in Irqs : GuestMasks(i) \/ GuestUnmasks(i)
  BY <1>6 DEF GuestMasks, GuestUnmasks, OnlyGuest
<1>7. CASE CpuResets
  BY <1>7 DEF CpuResets, NoCause, CauseValues, StatusBits
<1>8. CASE IntcResets
  BY <1>8 DEF IntcResets, Returns
<1>. QED BY <1>1, <1>2, <1>3, <1>4, <1>5, <1>6, <1>7, <1>8 DEF GuestInstruction

(* TypeOK: a thread has a source in hand exactly inside pavo_set_irq or    *)
(* pavo_clear_irq, and the CPU thread a task exactly outside of guest code.*)
THEOREM TypesHold == Spec => []TypeOK
<1>1. Init => TypeOK
  <2>1. NoCause \in CauseValues
    BY DEF NoCause, CauseValues
  <2>. QED BY <2>1 DEF Init, TypeOK, Threads, SetIrqPoints
<1>2. TypeOK /\ [Next]_vars => TypeOK'
  <2>1. SUFFICES ASSUME TypeOK, [Next]_vars PROVE TypeOK'
    OBVIOUS
  <2>2. CASE UNCHANGED vars
    BY <2>1, <2>2 DEF vars, intcVars, cpuVars, localVars, TypeOK
  <2>3. CASE Next
    BY <2>1, <2>3, IrqStepsTyped, ExceptionTyped, ClearIrqTyped,
       OutsideTyped
       DEF Next, CpuFinishes, Threads
  <2>. QED BY <2>1, <2>2, <2>3
<1>. QED BY <1>1, <1>2, PTL DEF Spec

=============================================================================
