-------------------------------- MODULE Interp --------------------------------
(***************************************************************************)
(* The interpreter's main loop (mips64_cpu_fdd) running a guest program:   *)
(* fetch, dispatch, delay slots, the exceptions of mips64.c, and the       *)
(* guest kernel's answer to each, up to its ERET.                          *)
(*                                                                         *)
(* The code the program is fetched from is apart from the memory it        *)
(* stores to; a page that is not present has no entry in the TLB.  The     *)
(* kernel is external: it maps the page that was missing, emulates the     *)
(* coprocessor, serves the call, or lets another thread run.               *)
(***************************************************************************)
EXTENDS Program, FiniteSets

CONSTANTS
    Vector,  \* the handler's address: every exception but the refill's
    Starts,  \* [text, core, present, credit]: where a run may begin
    Counter, \* the word the other thread increments
    MaxOthers

VARIABLES
    text,    \* the program in memory
    pc,
    core,    \* [gpr, hi, lo, ll, mem, dev]
    present, \* the pages the TLB maps
    exl,     \* Status.EXL
    epc, bd, cause, \* EPC, Cause.BD and the exception code
    bad,     \* the page of BadVAddr
    done,    \* the program has exited
    credit,  \* interrupts still to come (bound)
    others   \* what the other thread has added

cp0Vars == <<exl, epc, bd, cause, bad>>
worldVars == <<text, credit, others>>
interpVars == <<worldVars, pc, core, present, cp0Vars, done>>

InterpTypeOK ==
    /\ text \in Programs
    /\ pc \in Word \cup {Vector}
    /\ DOMAIN core.gpr = 0..RA /\ \A r \in 0..RA : core.gpr[r] \in Word
    /\ core.hi \in Word /\ core.lo \in Word /\ core.ll \in BOOLEAN
    /\ DOMAIN core.mem = MemBytes /\ \A b \in MemBytes : core.mem[b] \in Byte
    /\ core.dev \in Word
    /\ exl \in BOOLEAN /\ bd \in BOOLEAN /\ done \in BOOLEAN
    /\ epc \in Word
    /\ credit \in Nat /\ others \in 0..MaxOthers

InterpInit ==
    \E start \in Starts :
        /\ text = start.text /\ core = start.core
        /\ present = start.present /\ credit = start.credit
        /\ pc = 0 /\ epc = 0 /\ cause = "none" /\ bad = 0
        /\ exl = FALSE /\ bd = FALSE /\ done = FALSE
        /\ others = 0

-----------------------------------------------------------------------------
(* mips64_trigger_exception: EPC and BD only when EXL was clear.  bp and   *)
(* traps say FALSE for slot, wherever they were met.                       *)
Excepts(code, slot, page, to) ==
    /\ exl' = TRUE
    /\ epc' = IF exl THEN epc ELSE pc
    /\ bd' = IF exl THEN bd ELSE slot
    /\ cause' = code
    /\ bad' = page
    /\ pc' = to
    /\ UNCHANGED <<worldVars, present, done>>

Raises(i, s) ==
    CASE i.op \in Loads \cup Stores -> AccessRaises(i, s, present)
      [] i.op = "syscall" -> "Sys"
      [] i.op = "break" -> "Bp"
      [] TrapHolds(i, s) \/ TrapIfNotEqual(i, s) -> "Tr"
      [] i.op \in FpuOps -> "CpU"
      [] OTHER -> "none"

(* Variant: is_in_bdslot is not passed on.                                 *)
BdNever(code, slot) == FALSE

BdSlot(code, slot) == slot /\ code \notin {"Bp", "Tr"}
BadPage(i, s) == IF i.op \in Loads \cup Stores THEN PageOf(Touched(i, s)) ELSE bad

(* What a raising instruction leaves behind.                               *)
Failed(i, s) == IF i.op \in Loads \cup Stores THEN AccessFailed(i, s) ELSE s

(* The program ends: unknown_op, or a signal from the host's division.     *)
Kills(i, s) ==
    \/ i.op \in Exits
    \/ i.op = "div" /\ HostTraps(s.gpr[i.rs], s.gpr[i.rt])

Fetchable(a) == PageOf(a) \in present

(* The top of the main loop: register 0 is cleared.                        *)
AtTop == ~done /\ pc # Vector /\ Within(text, pc)
Clean == ZeroCleared(core)
Here == Insn(text, pc)

-----------------------------------------------------------------------------
FetchFaults ==
    /\ AtTop /\ ~Fetchable(pc)
    /\ core' = Clean
    /\ Excepts("TLBL", FALSE, PageOf(pc), Vector)

RunPlain ==
    /\ AtTop /\ Fetchable(pc)
    /\ Here.op \notin Branches
    /\ Raises(Here, Clean) = "none" /\ ~Kills(Here, Clean)
    /\ core' = Effect(Here, Clean)
    /\ pc' = (pc + 4) % Modulus
    /\ UNCHANGED <<worldVars, present, cp0Vars, done>>

RunRaises ==
    /\ AtTop /\ Fetchable(pc)
    /\ Here.op \notin Branches
    /\ Raises(Here, Clean) # "none"
    /\ core' = Failed(Here, Clean)
    /\ Excepts(Raises(Here, Clean), FALSE, BadPage(Here, Clean), Vector)

(* mips64_exec_bdslot: what the slot of the branch at pc does to s.        *)
DelaySlot == Insn(text, pc + 4)
SlotFaults(s) == ~Fetchable(pc + 4) \/ Raises(DelaySlot, s) # "none"

(* Does the branch run its slot?  A likely branch only when it is taken.   *)
AtBranch == AtTop /\ Fetchable(pc) /\ Here.op \in Branches
RunsSlot(s) == Taken(Here, s) \/ Here.op \notin Likely

(* These handlers do not look at what mips64_exec_bdslot returns.          *)
Heedless ==
    {"bnel", "bgezl", "bgezall", "bgtzl", "blezl", "bltzl", "bltzall"}

RunBranch ==
    LET s == WithLink(Here, Clean, pc)
    IN  /\ AtBranch /\ RunsSlot(s)
        /\ ~SlotFaults(s) /\ ~Kills(DelaySlot, s)
        /\ core' = Effect(DelaySlot, s)
        /\ pc' = IF Taken(Here, s) THEN Target(Here, s, pc)
                 ELSE (pc + 8) % Modulus
        /\ UNCHANGED <<worldVars, present, cp0Vars, done>>

SkipSlot ==
    LET s == WithLink(Here, Clean, pc)
    IN  /\ AtBranch /\ ~RunsSlot(s)
        /\ core' = s
        /\ pc' = (pc + 8) % Modulus
        /\ UNCHANGED <<worldVars, present, cp0Vars, done>>

SlotExcepts ==
    LET s == WithLink(Here, Clean, pc)
        to == IF Here.op \in Heedless THEN Target(Here, s, pc) ELSE Vector
        code == IF Fetchable(pc + 4) THEN Raises(DelaySlot, s) ELSE "TLBL"
    IN  /\ AtBranch /\ RunsSlot(s) /\ SlotFaults(s)
        /\ core' = IF Fetchable(pc + 4) THEN Failed(DelaySlot, s) ELSE s
        /\ Excepts(code, BdSlot(code, TRUE),
                   IF Fetchable(pc + 4) THEN BadPage(DelaySlot, s)
                   ELSE PageOf(pc + 4), to)

Exit ==
    LET s == WithLink(Here, Clean, pc)
    IN  /\ AtTop /\ Fetchable(pc)
        /\ \/ Here.op \notin Branches /\ Kills(Here, Clean) /\ core' = Clean
           \/ /\ Here.op \in Branches /\ RunsSlot(s) /\ ~SlotFaults(s)
              /\ Kills(DelaySlot, s)
              /\ core' = s
        /\ done' = TRUE
        /\ UNCHANGED <<worldVars, pc, present, cp0Vars>>

(* mips64_trigger_irq, tested between instructions.                        *)
Interrupt ==
    /\ AtTop /\ ~exl /\ credit > 0
    /\ credit' = credit - 1
    /\ exl' = TRUE /\ epc' = pc /\ bd' = FALSE /\ cause' = "Int"
    /\ pc' = Vector
    /\ core' = Clean
    /\ UNCHANGED <<text, others, present, bad, done>>

-----------------------------------------------------------------------------
(* Variant: the link survives.                                             *)
AfterEretLinked(s) == s

(* mips64_exec_eret, from the kernel, with EPC as the kernel left it.      *)
AfterEret(s) == [s EXCEPT !.ll = FALSE]
Eret(to) == exl' = FALSE /\ pc' = to /\ UNCHANGED <<epc, bd, cause, bad, done>>

InHandler == ~done /\ pc = Vector

HandlePageFault ==
    /\ InHandler /\ cause \in {"TLBL", "TLBS"}
    /\ present' = present \cup {bad}
    /\ core' = AfterEret(core)
    /\ Eret(epc)
    /\ UNCHANGED worldVars

(* A call is served and a coprocessor instruction is emulated: the kernel  *)
(* goes on behind it, and finishes the branch itself when BD is set.       *)
HandleCall ==
    LET i == Insn(text, epc)
    IN  /\ InHandler /\ cause \in {"Sys", "CpU", "Bp", "Tr"}
        /\ core' = AfterEret(core)
        /\ Eret(CASE ~bd -> (epc + 4) % Modulus
                  [] Taken(i, core) -> Target(i, core, epc)
                  [] OTHER -> (epc + 8) % Modulus)
        /\ UNCHANGED <<worldVars, present>>

(* An address error ends the program.                                      *)
HandleAddressError ==
    /\ InHandler /\ cause \in {"AdEL", "AdES"}
    /\ done' = TRUE
    /\ UNCHANGED <<worldVars, pc, core, present, cp0Vars>>

HandleInterrupt ==
    /\ InHandler /\ cause = "Int"
    /\ present' = present
    /\ core' = AfterEret(core)
    /\ Eret(epc)
    /\ UNCHANGED worldVars

(* The kernel takes a page away.                                           *)
HandleEvicting ==
    /\ InHandler /\ cause = "Int"
    /\ \E p \in present : present' = present \ {p}
    /\ core' = AfterEret(core)
    /\ Eret(epc)
    /\ UNCHANGED worldVars

(* Another thread runs in between and increments the word.                 *)
HandleSwitching ==
    /\ InHandler /\ cause = "Int" /\ others < MaxOthers
    /\ others' = others + 1
    /\ core' = Put(AfterEret(core), Counter, 4,
                   (WordAt(core, Counter) + 1) % Modulus)
    /\ Eret(epc)
    /\ UNCHANGED <<text, credit, present>>

-----------------------------------------------------------------------------
Guest == FetchFaults \/ RunPlain \/ RunRaises \/ RunBranch \/ SkipSlot
            \/ SlotExcepts \/ Exit \/ Interrupt
Kernel == HandlePageFault \/ HandleCall \/ HandleAddressError
            \/ HandleInterrupt \/ HandleEvicting \/ HandleSwitching

InterpNext == Guest \/ Kernel

InterpSpec == InterpInit /\ [][InterpNext]_interpVars

-----------------------------------------------------------------------------
(* A program that is interrupted, that faults in or out of a delay slot,   *)
(* and whose pages come and go, runs as Arch says.  During a handler the   *)
(* program stands at EPC.  This is about mips64_exec_bdslot's results, the *)
(* order of link and slot, and EPC and BD.                                 *)
A == INSTANCE Arch WITH
        pc <- IF exl THEN epc ELSE pc,
        core <- [ZeroCleared(core) EXCEPT !.ll = FALSE]

RunsAsIfAlone == A!Spec

(* Every data instruction the loop completes has the architecture's effect *)
(* on its registers: the handlers' masks, shifts and C conversions.        *)
DataInstructionsMean ==
    [][(RunPlain /\ Here.op \in AluOps) => AluMeans(Here, Clean, core')]_interpVars

(* Every access to memory the loop completes moves the bytes the           *)
(* architecture names and no others: the merging forms' masks.             *)
AccessesMean ==
    [][(RunPlain /\ Here.op \in Loads \cup Stores /\ ~OnDevice(Here, Clean))
            => MemoryMeans(Here, Clean, core')]_interpVars

(* An exception hands over to the kernel: Status.EXL is set only while its *)
(* handler runs.  The handlers' return value says "normal flow" or not.    *)
ExceptionReachesHandler == exl => pc = Vector
=============================================================================
