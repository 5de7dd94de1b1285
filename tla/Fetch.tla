-------------------------------- MODULE Fetch --------------------------------
(***************************************************************************)
(* Instruction fetch (mips64_fdd.c): the page last fetched from and its    *)
(* host address are kept (njm_exec_page, njm_exec_ptr), and the MMU is     *)
(* asked only when execution moves to another page.                        *)
(*                                                                         *)
(* The MMU is the function mem_op_lookup computes from the TLB; the guest  *)
(* changes it from unmapped pages only, as MIPS kernels do.  An            *)
(* instruction is where it leaves the program counter and what it does to  *)
(* the TLB.                                                                *)
(***************************************************************************)
EXTENDS FiniteSets

CONSTANTS
    KernelPages,  \* unmapped pages of RAM
    UserPages,    \* pages the TLB maps
    Vector,       \* the page of the general exception vector
    ResetPage,    \* the page of def.pc
    UserExits,    \* the kernel's pages that code leaves for a mapped page
    Follows,      \* the page at the addresses after a page's
    Frames,       \* host pages
    NULL

ASSUME CodeAssumption ==
    /\ Vector \in KernelPages /\ ResetPage \in KernelPages
    /\ KernelPages \cap UserPages = {}
    /\ UserExits \subseteq KernelPages
    /\ Follows \in [KernelPages \cup UserPages -> KernelPages \cup UserPages]
    /\ NULL \notin Frames \cup KernelPages \cup UserPages

CodePages == KernelPages \cup UserPages

VARIABLES
    pc,       \* the page of cpu->pc
    slot,     \* the page of pc + 4 when a branch has its delay slot there
    at,       \* "fetch", "exec", "slot" (fetching it) or "inSlot"
    njmPage,  \* njm_exec_page
    njmPtr,   \* njm_exec_ptr
    insnFrom, \* the host page the instruction being executed came from
    enabled,  \* CP0 STATUS lets interrupts in
    mapping   \* the answer of mem_op_lookup for each mapped page

fetchVars == <<pc, slot, at, njmPage, njmPtr, insnFrom, enabled, mapping>>

(* Kernel pages are their own host pages.                                  *)
Lookup(p) == IF p \in KernelPages THEN p ELSE mapping[p]

FetchTypeOK ==
    /\ pc \in CodePages
    /\ slot \in CodePages \cup {NULL}
    /\ at \in {"fetch", "exec", "slot", "inSlot"}
    /\ njmPage \in CodePages \cup {NULL}
    /\ njmPtr \in Frames \cup KernelPages \cup {NULL}
    /\ insnFrom \in Frames \cup KernelPages \cup {NULL}
    /\ enabled \in BOOLEAN
    /\ mapping \in [UserPages -> Frames \cup {NULL}]
    /\ (at \in {"slot", "inSlot"}) <=> (slot # NULL)

(* njm_exec_page is never initialised: cpu_mips_t comes zeroed, and page 0 *)
(* is not a page fetched from before another is.                           *)
FetchInit ==
    /\ pc = ResetPage
    /\ slot = NULL
    /\ at = "fetch"
    /\ njmPage = NULL
    /\ njmPtr = NULL
    /\ insnFrom = NULL
    /\ enabled = FALSE
    /\ mapping = [p \in UserPages |-> NULL]

-----------------------------------------------------------------------------
(* mips64_fetch_instruction for page p.  A lookup that fails has raised    *)
(* the exception itself.                                                   *)

(* Variant: is_in_bdslot outlives the fetch that failed.                   *)
ExceptionInSlot ==
    /\ pc' = Vector
    /\ enabled' = FALSE
    /\ at' = "fetch"
    /\ insnFrom' = NULL
    /\ UNCHANGED slot

Exception ==
    /\ pc' = Vector
    /\ enabled' = FALSE
    /\ at' = "fetch"
    /\ slot' = NULL
    /\ insnFrom' = NULL

(* Variant: a lookup on behalf of a fetch raises nothing.                  *)
MissSilent(p) ==
    /\ p # njmPage
    /\ Lookup(p) = NULL
    /\ njmPtr' = NULL
    /\ at' = "fetch" /\ slot' = NULL /\ insnFrom' = NULL
    /\ UNCHANGED <<pc, enabled, njmPage, mapping>>

Miss(p) ==
    /\ p # njmPage
    /\ Lookup(p) = NULL
    /\ njmPtr' = NULL
    /\ Exception
    /\ UNCHANGED <<njmPage, mapping>>

(* Variant: another page's pointer under the page noted before.            *)
FoundKeepsPage(p, next) ==
    /\ p # njmPage
    /\ Lookup(p) # NULL
    /\ njmPtr' = Lookup(p)
    /\ insnFrom' = Lookup(p)
    /\ njmPage' = IF njmPage = NULL THEN p ELSE njmPage
    /\ at' = next
    /\ UNCHANGED <<pc, slot, enabled, mapping>>

Found(p, next) ==
    /\ p # njmPage
    /\ Lookup(p) # NULL
    /\ njmPtr' = Lookup(p)
    /\ insnFrom' = Lookup(p)
    /\ njmPage' = p
    /\ at' = next
    /\ UNCHANGED <<pc, slot, enabled, mapping>>

(* The page noted is the one wanted.  If its pointer is NULL nothing is    *)
(* looked up and nothing is raised; in a delay slot the branch is tried    *)
(* again.                                                                  *)
Same(p, next) ==
    /\ p = njmPage
    /\ IF njmPtr = NULL
       THEN at' = "fetch" /\ slot' = NULL /\ insnFrom' = NULL
       ELSE at' = next /\ slot' = slot /\ insnFrom' = njmPtr
    /\ UNCHANGED <<pc, njmPage, njmPtr, enabled, mapping>>

Fetch(p, next) == Miss(p) \/ Found(p, next) \/ Same(p, next)

FetchInstruction == at = "fetch" /\ Fetch(pc, "exec")

FetchSlot == at = "slot" /\ Fetch(slot, "inSlot")

-----------------------------------------------------------------------------
(* The instruction, in a page or in a delay slot.                          *)

Executing == at \in {"exec", "inSlot"}

(* Where code in page p may continue.                                      *)
Exits(p) == IF p \in UserPages \cup UserExits THEN CodePages ELSE KernelPages

(* mtc0 to STATUS and ERET enable and disable interrupts.                  *)
Continue ==
    /\ Executing
    /\ pc' \in Exits(pc)
    /\ enabled' \in IF pc \in KernelPages THEN BOOLEAN ELSE {enabled}
    /\ at' = "fetch"
    /\ slot' = NULL
    /\ insnFrom' = NULL
    /\ UNCHANGED <<njmPage, njmPtr, mapping>>

(* A branch whose delay slot is in this page or, at its end, in the next.  *)
Branch ==
    /\ at = "exec"
    /\ at' = "slot"
    /\ slot' \in {pc, Follows[pc]}
    /\ insnFrom' = NULL
    /\ UNCHANGED <<pc, njmPage, njmPtr, enabled, mapping>>

Excepts ==
    /\ Executing
    /\ Exception
    /\ UNCHANGED <<njmPage, njmPtr, mapping>>

(* TLBWI, TLBWR or a change of ASID.                                       *)
KernelRemaps(p, f) ==
    /\ at = "exec"
    /\ pc \in KernelPages
    /\ mapping' = [mapping EXCEPT ![p] = f]
    /\ at' = "fetch"
    /\ insnFrom' = NULL
    /\ UNCHANGED <<pc, slot, njmPage, njmPtr, enabled>>

(* Between two instructions: an interrupt, or the watchdog's mips64_reset. *)
Interrupt ==
    /\ at = "fetch" /\ enabled
    /\ Exception
    /\ UNCHANGED <<njmPage, njmPtr, mapping>>

CpuReset ==
    /\ at = "fetch"
    /\ pc' = ResetPage
    /\ enabled' = FALSE
    /\ mapping' = [p \in UserPages |-> NULL]
    /\ UNCHANGED <<slot, at, njmPage, njmPtr, insnFrom>>

Fetches == FetchInstruction \/ FetchSlot

Executes ==
    \/ Continue \/ Branch \/ Excepts
    \/ \E p \in UserPages, f \in Frames \cup {NULL} : KernelRemaps(p, f)

FetchNext == Fetches \/ Executes \/ Interrupt \/ CpuReset

FetchSpec == /\ FetchInit /\ [][FetchNext]_fetchVars
             /\ WF_fetchVars(Fetches) /\ WF_fetchVars(Executes)

-----------------------------------------------------------------------------
(* An instruction is executed only from the host page the MMU gives for    *)
(* its own page now, though the MMU was last asked when that page was      *)
(* entered.                                                                *)
FetchCoherent ==
    /\ at = "exec" => insnFrom = Lookup(pc)
    /\ at = "inSlot" => insnFrom = Lookup(slot)

(* A fetch that yields no instruction has raised an exception, whose       *)
(* handler is then fetched: the CPU does not stop fetching for good.       *)
FetchProgress == []<>Executing

=============================================================================
