------------------------------- MODULE IrqPath -------------------------------
(***************************************************************************)
(* The path of an interrupt: a device calls vm->set_irq (pavo.c), which    *)
(* goes through the interrupt controller's mask and pending registers      *)
(* (jz4740_dev_int.c) to cpu->irq_cause, CP0 CAUSE and cpu->irq_pending    *)
(* (mips64.c), and the CPU thread takes the exception.                     *)
(*                                                                         *)
(* Devices call it on two threads: on the CPU thread, from a guest store   *)
(* or a timer callback, and on the VTTY thread, from the UART's            *)
(* read_notifier.  Nothing is locked, so every read and every write of a   *)
(* shared word is a step, and a word that is read, changed and written     *)
(* back is read and written in two steps.  INTC_ISR is left out: it is     *)
(* written on this path and read by nobody but the guest.                  *)
(***************************************************************************)
EXTENDS FiniteSets

CONSTANTS
    Irqs,    \* the interrupt controller's sources
    Tick,    \* IRQ_TCU0, raised by the system timer's callback
    Serial,  \* the UART's, raised on either thread
    NoIrq    \* no set_irq or clear_irq is in progress

ASSUME IrqsAssumption == Tick \in Irqs /\ Serial \in Irqs /\ NoIrq \notin Irqs

VARIABLES
    imr,      \* INTC_IMR: the sources the guest masks
    ipr,      \* INTC_IPR: the sources the guest is shown
    irqCause, \* IP2 in cpu->irq_cause
    pending,  \* cpu->irq_pending
    cause,    \* CP0 CAUSE: IP2 and ExcCode
    status,   \* CP0 STATUS: the bits that are set
    at,       \* where each thread is
    irq,      \* the source in each thread's set_irq or clear_irq
    oldIpr,   \* the INTC_IPR each thread is about to change
    oldCause, \* the CP0 CAUSE each thread is about to change
    oldIrq,   \* the cpu->irq_cause mtc0 to COMPARE is about to store back
    task,     \* what the CPU thread is in the middle of
    resting   \* from here on the guest idles, interrupts enabled

intcVars == <<imr, ipr>>
cpuVars == <<irqCause, pending, cause, status>>
localVars == <<irq, oldIpr, oldCause, oldIrq>>
vars == <<intcVars, cpuVars, at, localVars, task, resting>>

Threads == {"cpu", "vtty"}
StatusBits == {"IE", "IM2", "EXL", "ERL"}
CauseValues == [ip : BOOLEAN, code : {"Interrupt", "Other"}]

NoCause == [ip |-> FALSE, code |-> "Interrupt"]

SetIrqPoints == {"mask", "hideLoad", "hideStore", "show", "raise"}
UpdatePoints == {"flagDown", "mergeLoad", "mergeStore", "test", "flagUp"}
ExceptionPoints == {"excLoad", "excStore", "excClear", "excEnter", "excFlag"}
ClearIrqPoints == {"clearLoad", "clearStore", "clearTest"}

(* What mips64_update_irq_flag tests.                                      *)
Enabled == status \cap {"IE", "EXL", "ERL"} = {"IE"}

Goes(p, from, to) == at[p] = from /\ at' = [at EXCEPT ![p] = to]

-----------------------------------------------------------------------------
(* pavo_set_irq, on thread p.                                              *)

CallSetIrq(p, i) ==
    /\ Goes(p, "out", "mask")
    /\ irq' = [irq EXCEPT ![p] = i]
    /\ UNCHANGED <<intcVars, cpuVars, oldIpr, oldCause, oldIrq, resting>>

Returns(p) == task' = IF p = "cpu" THEN "guest" ELSE task
Drops(p) == irq' = [irq EXCEPT ![p] = NoIrq]

TestMask(p) ==
    /\ Goes(p, "mask", IF irq[p] \in imr THEN "hideLoad" ELSE "show")
    /\ UNCHANGED <<intcVars, cpuVars, localVars, task, resting>>

(* INTC_IPR &= ~irq_mask, here and in pavo_clear_irq.                      *)
HideLoad(p) ==
    /\ Goes(p, "hideLoad", "hideStore")
    /\ oldIpr' = [oldIpr EXCEPT ![p] = ipr]
    /\ UNCHANGED <<intcVars, cpuVars, irq, oldCause, oldIrq, task, resting>>

HideStore(p) ==
    /\ Goes(p, "hideStore", "out")
    /\ ipr' = oldIpr[p] \ {irq[p]}
    /\ oldIpr' = [oldIpr EXCEPT ![p] = {}]
    /\ Returns(p) /\ Drops(p)
    /\ UNCHANGED <<imr, cpuVars, oldCause, oldIrq, resting>>

(* INTC_IPR is assigned: what other sources were shown is forgotten.       *)
Show(p) ==
    /\ Goes(p, "show", "raise")
    /\ ipr' = {irq[p]}
    /\ UNCHANGED <<imr, cpuVars, localVars, task, resting>>

(* Variant: only a newly raised line re-evaluates irq_pending.             *)
RaiseOnce(p) ==
    /\ Goes(p, "raise", IF irqCause THEN "out" ELSE "flagDown")
    /\ irqCause' = TRUE
    /\ IF irqCause THEN Returns(p) ELSE UNCHANGED task
    /\ Drops(p)
    /\ UNCHANGED <<intcVars, pending, cause, status, oldIpr, oldCause, oldIrq,
                   resting>>

(* mips64_set_irq.  IP2 is the only bit ever raised.                       *)
Raise(p) ==
    /\ Goes(p, "raise", "flagDown")
    /\ irqCause' = TRUE
    /\ Drops(p)
    /\ UNCHANGED <<intcVars, pending, cause, status, oldIpr, oldCause, oldIrq,
                   task, resting>>

-----------------------------------------------------------------------------
(* mips64_update_irq_flag, on thread p.                                    *)

FlagDown(p) ==
    /\ Goes(p, "flagDown", "mergeLoad")
    /\ pending' = FALSE
    /\ UNCHANGED <<intcVars, irqCause, cause, status, localVars, task, resting>>

MergeLoad(p) ==
    /\ Goes(p, "mergeLoad", "mergeStore")
    /\ oldCause' = [oldCause EXCEPT ![p] = [cause EXCEPT !.ip = irqCause]]
    /\ UNCHANGED <<intcVars, cpuVars, irq, oldIpr, oldIrq, task, resting>>

MergeStore(p) ==
    /\ Goes(p, "mergeStore", "test")
    /\ cause' = oldCause[p]
    /\ oldCause' = [oldCause EXCEPT ![p] = NoCause]
    /\ UNCHANGED <<intcVars, irqCause, pending, status, irq, oldIpr, oldIrq,
                   task, resting>>

TestEnabled(p) ==
    /\ at[p] = "test"
    /\ IF Enabled /\ "IM2" \in status /\ cause.ip
       THEN Goes(p, "test", "flagUp") /\ UNCHANGED task
       ELSE Goes(p, "test", "out") /\ Returns(p)
    /\ UNCHANGED <<intcVars, cpuVars, localVars, resting>>

(* TRUE goes back to mips64_trigger_irq as well, which then triggers.      *)
FlagUp(p) ==
    /\ at[p] = "flagUp"
    /\ pending' = TRUE
    /\ IF p = "cpu" /\ task = "take"
       THEN Goes(p, "flagUp", "excLoad") /\ UNCHANGED task
       ELSE Goes(p, "flagUp", "out") /\ Returns(p)
    /\ UNCHANGED <<intcVars, irqCause, cause, status, localVars, resting>>

IrqSteps(p) ==
    \/ TestMask(p) \/ HideLoad(p) \/ HideStore(p) \/ Show(p) \/ Raise(p)
    \/ FlagDown(p) \/ MergeLoad(p) \/ MergeStore(p) \/ TestEnabled(p)
    \/ FlagUp(p)

-----------------------------------------------------------------------------
(* mips64_trigger_exception, on the CPU thread.                            *)

ExcLoad ==
    /\ Goes("cpu", "excLoad", "excStore")
    /\ oldCause' = [oldCause EXCEPT !["cpu"] = cause]
    /\ UNCHANGED <<intcVars, cpuVars, irq, oldIpr, oldIrq, task, resting>>

ExcStore ==
    /\ Goes("cpu", "excStore", IF task = "take" THEN "excClear" ELSE "excEnter")
    /\ cause' = [ip |-> oldCause["cpu"].ip,
                 code |-> IF task = "take" THEN "Interrupt" ELSE "Other"]
    /\ oldCause' = [oldCause EXCEPT !["cpu"] = NoCause]
    /\ UNCHANGED <<intcVars, irqCause, pending, status, irq, oldIpr, oldIrq,
                   task, resting>>

ExcClear ==
    /\ Goes("cpu", "excClear", "excEnter")
    /\ irqCause' = FALSE
    /\ UNCHANGED <<intcVars, pending, cause, status, localVars, task, resting>>

ExcEnter ==
    /\ Goes("cpu", "excEnter", "excFlag")
    /\ status' = (status \cup {"EXL"}) \ {"ERL"}
    /\ UNCHANGED <<intcVars, irqCause, pending, cause, localVars, task, resting>>

ExcFlag ==
    /\ Goes("cpu", "excFlag", "out")
    /\ pending' = FALSE
    /\ Returns("cpu")
    /\ UNCHANGED <<intcVars, irqCause, cause, status, localVars, resting>>

-----------------------------------------------------------------------------
(* What the CPU thread does between two of those: outside of a round it    *)
(* tests irq_pending before every guest instruction.                       *)

(* Variant: the exception is triggered on irq_pending alone.               *)
TakeIrqUntested ==
    /\ pending
    /\ Goes("cpu", "out", "excLoad")
    /\ task' = "take"
    /\ UNCHANGED <<intcVars, cpuVars, localVars, resting>>

(* mips64_trigger_irq.                                                     *)
TakeIrq ==
    /\ pending
    /\ Goes("cpu", "out", "flagDown")
    /\ task' = "take"
    /\ UNCHANGED <<intcVars, cpuVars, localVars, resting>>

(* A device on the CPU thread: a timer callback or a guest store.          *)
DeviceRaises(i) ==
    /\ CallSetIrq("cpu", i)
    /\ task' = "raise"

GuestRuns == at["cpu"] = "out" /\ ~pending
OnlyGuest == UNCHANGED <<at, localVars, task>>

GuestExcepts ==
    /\ GuestRuns /\ ~resting
    /\ Goes("cpu", "out", "excLoad")
    /\ task' = "except"
    /\ UNCHANGED <<intcVars, cpuVars, localVars, resting>>

(* mtc0 to STATUS or CAUSE stores the value and re-evaluates nothing.      *)
GuestWritesStatus ==
    /\ GuestRuns /\ ~resting /\ OnlyGuest
    /\ status' \in SUBSET StatusBits
    /\ UNCHANGED <<intcVars, irqCause, pending, cause, resting>>

GuestWritesCause ==
    /\ GuestRuns /\ ~resting /\ OnlyGuest
    /\ cause' \in CauseValues
    /\ UNCHANGED <<intcVars, irqCause, pending, status, resting>>

(* mtc0 to COMPARE clears the timer's line, which nothing ever raises:     *)
(* mips64_clear_irq reads irq_cause and writes IP2 back as it was.  Then   *)
(* it re-evaluates.                                                        *)
GuestWritesCompare ==
    /\ GuestRuns /\ ~resting
    /\ Goes("cpu", "out", "clearLoad")
    /\ task' = "compare"
    /\ UNCHANGED <<intcVars, cpuVars, localVars, resting>>

ClearLoad ==
    /\ Goes("cpu", "clearLoad", "clearStore")
    /\ oldIrq' = irqCause
    /\ UNCHANGED <<intcVars, cpuVars, irq, oldIpr, oldCause, task, resting>>

ClearStore ==
    /\ Goes("cpu", "clearStore", "clearTest")
    /\ irqCause' = oldIrq
    /\ oldIrq' = FALSE
    /\ UNCHANGED <<intcVars, pending, cause, status, irq, oldIpr, oldCause,
                   task, resting>>

ClearTest ==
    /\ Goes("cpu", "clearTest", "flagDown")
    /\ pending' = (irqCause /\ pending)
    /\ UNCHANGED <<intcVars, irqCause, cause, status, localVars, task, resting>>

(* mips64_exec_eret: re-evaluates nothing either.                          *)
GuestErets ==
    /\ GuestRuns /\ OnlyGuest
    /\ resting => "EXL" \in status
    /\ status' = IF "ERL" \in status THEN status \ {"ERL"} ELSE status \ {"EXL"}
    /\ UNCHANGED <<intcVars, irqCause, pending, cause, resting>>

GuestMasks(i) ==
    /\ GuestRuns /\ ~resting /\ OnlyGuest
    /\ imr' = imr \cup {i}
    /\ UNCHANGED <<ipr, cpuVars, resting>>

GuestUnmasks(i) ==
    /\ GuestRuns /\ ~resting /\ OnlyGuest
    /\ imr' = imr \ {i}
    /\ UNCHANGED <<ipr, cpuVars, resting>>

(* A load from INTC_IPR reads and clears it.                               *)
GuestReadsIpr ==
    /\ GuestRuns /\ OnlyGuest
    /\ resting => "EXL" \in status
    /\ ipr' = {}
    /\ UNCHANGED <<imr, cpuVars, resting>>

(* Variant: clear_irq without its argument.                                *)
GuestAcksNothing ==
    /\ GuestRuns
    /\ resting => "EXL" \in status
    /\ Goes("cpu", "out", "hideLoad")
    /\ task' = "ack"
    /\ UNCHANGED <<intcVars, cpuVars, localVars, resting>>

(* A load from UART_IIR: pavo_clear_irq.                                   *)
GuestAcksSerial ==
    /\ GuestRuns
    /\ resting => "EXL" \in status
    /\ Goes("cpu", "out", "hideLoad")
    /\ irq' = [irq EXCEPT !["cpu"] = Serial]
    /\ task' = "ack"
    /\ UNCHANGED <<intcVars, cpuVars, oldIpr, oldCause, oldIrq, resting>>

(* The guest reaches its idle loop, the system timer's interrupt unmasked, *)
(* and runs nothing but the handler from there on.                         *)
GuestRests ==
    /\ GuestRuns /\ ~resting /\ OnlyGuest
    /\ Enabled /\ "IM2" \in status /\ Tick \notin imr
    /\ resting' = TRUE
    /\ UNCHANGED <<intcVars, cpuVars>>

(* The watchdog: mips64_reset, which leaves irq_cause and irq_pending as   *)
(* they are, then dev_jz4740_int_reset.                                    *)
CpuResets ==
    /\ Goes("cpu", "out", "reset")
    /\ status' = {}
    /\ cause' = NoCause
    /\ resting' = FALSE
    /\ task' = "reset"
    /\ UNCHANGED <<intcVars, irqCause, pending, localVars>>

IntcResets ==
    /\ Goes("cpu", "reset", "out")
    /\ imr' = Irqs
    /\ ipr' = {}
    /\ Returns("cpu")
    /\ UNCHANGED <<cpuVars, localVars, resting>>

(* jz4740_tty_con_input, when the guest has enabled receive interrupts.    *)
VttyNotifies ==
    /\ CallSetIrq("vtty", Serial)
    /\ UNCHANGED task

CpuFinishes ==
    \/ IrqSteps("cpu")
    \/ ExcLoad \/ ExcStore \/ ExcClear \/ ExcEnter \/ ExcFlag
    \/ ClearLoad \/ ClearStore \/ ClearTest
    \/ IntcResets

GuestInstruction ==
    \/ GuestExcepts \/ GuestWritesStatus \/ GuestWritesCause
    \/ GuestWritesCompare \/ GuestErets \/ GuestReadsIpr \/ GuestAcksSerial
    \/ GuestRests
    \/ \E i \in Irqs : GuestMasks(i) \/ GuestUnmasks(i)

Next ==
    \/ CpuFinishes \/ TakeIrq \/ GuestInstruction \/ CpuResets
    \/ \E i \in Irqs : DeviceRaises(i)
    \/ VttyNotifies \/ IrqSteps("vtty")

(* mips64_create and dev_jz4740_int_init, then jz4740_reset.               *)
Init ==
    /\ imr = Irqs
    /\ ipr = {}
    /\ irqCause = FALSE
    /\ pending = FALSE
    /\ cause = NoCause
    /\ status = {}
    /\ at = [p \in Threads |-> "out"]
    /\ irq = [p \in Threads |-> NoIrq]
    /\ oldIpr = [p \in Threads |-> {}]
    /\ oldCause = [p \in Threads |-> NoCause]
    /\ oldIrq = FALSE
    /\ task = "guest"
    /\ resting = FALSE

(* The CPU thread finishes what it is in, comes to test irq_pending and    *)
(* serves the system timer again and again (what CpuLoop shows); a handler *)
(* returns.                                                                *)
Spec == /\ Init /\ [][Next]_vars
        /\ WF_vars(CpuFinishes)
        /\ SF_vars(TakeIrq) /\ SF_vars(DeviceRaises(Tick)) /\ SF_vars(GuestErets)

-----------------------------------------------------------------------------
(* Types; a thread has a source in hand exactly inside pavo_set_irq or     *)
(* pavo_clear_irq.                                                         *)
TypeOK ==
    /\ imr \subseteq Irqs /\ ipr \subseteq Irqs
    /\ irqCause \in BOOLEAN /\ pending \in BOOLEAN /\ resting \in BOOLEAN
    /\ cause \in CauseValues
    /\ status \subseteq StatusBits
    /\ at \in [Threads -> {"out", "reset"} \cup SetIrqPoints
                           \cup UpdatePoints \cup ExceptionPoints
                           \cup ClearIrqPoints]
    /\ irq \in [Threads -> Irqs \cup {NoIrq}]
    /\ oldIpr \in [Threads -> SUBSET Irqs]
    /\ oldCause \in [Threads -> CauseValues]
    /\ oldIrq \in BOOLEAN
    /\ task \in {"guest", "raise", "ack", "compare", "take", "except", "reset"}
    /\ (task = "guest") <=> (at["cpu"] = "out")
    /\ \A p \in Threads : at[p] \in SetIrqPoints <=> irq[p] # NoIrq

(* A guest that has disabled interrupts, or is inside a handler, is never  *)
(* interrupted, though the VTTY thread may set irq_pending long after it   *)
(* looked at STATUS.                                                       *)
InterruptOnlyWhenEnabled ==
    task = "take" /\ at["cpu"] \in {"excLoad", "excStore", "excClear", "excEnter"}
        => Enabled /\ "IM2" \in status

(* An interrupt that came while the guest had them off is not re-evaluated *)
(* by eret or mtc0; still an idle guest gets it, with the next tick, once  *)
(* the console is quiet.                                                   *)
LatchedServed ==
    <>[](resting /\ at["vtty"] = "out") => []<>(~irqCause)

(* mips64_update_irq_flag only updates the IRQ flag and the IP bits: on    *)
(* the VTTY thread it changes no exception code the guest has yet to read. *)
ExcCodeStands ==
    [][at'["vtty"] # at["vtty"] => cause'.code = cause.code]_vars

=============================================================================
