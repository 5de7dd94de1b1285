----------------------------- MODULE FetchProofs -----------------------------
(***************************************************************************)
(* Theorems about Fetch, for any pages, any mappings and any program: the  *)
(* page kept from the last fetch is never used for another one's           *)
(* instructions.                                                           *)
(***************************************************************************)
EXTENDS Fetch, TLAPS

USE CodeAssumption

(* While an instruction is executed, what is kept is its own page's.       *)
ExecutesKept ==
    /\ at = "exec" => /\ njmPage = pc
                      /\ njmPtr = Lookup(pc) /\ insnFrom = njmPtr
    /\ at = "inSlot" => /\ njmPage = slot
                        /\ njmPtr = Lookup(slot) /\ insnFrom = njmPtr

(* What is kept may be stale in one case: the reset has emptied the TLB,   *)
(* and the next fetch is from an unmapped page, so that it looks again.    *)
Forgotten == at = "fetch" /\ pc \in KernelPages /\ njmPage \in UserPages

KeptCoherent ==
    njmPtr # NULL => /\ njmPage # NULL
                     /\ njmPtr = Lookup(njmPage) \/ Forgotten

IInv == FetchTypeOK /\ ExecutesKept /\ KeptCoherent

-----------------------------------------------------------------------------
(* A kernel page is found at once; whatever is found is a host page.       *)
LEMMA LookupTyped ==
    ASSUME FetchTypeOK, NEW p \in CodePages
    PROVE  /\ Lookup(p) \in Frames \cup KernelPages \cup {NULL}
           /\ p \in KernelPages => Lookup(p) = p /\ Lookup(p) # NULL
BY DEF Lookup, FetchTypeOK, CodePages

LEMMA InitHolds == FetchInit => IInv
BY DEF FetchInit, IInv, FetchTypeOK, ExecutesKept, KeptCoherent, CodePages

(* A fetch of the page pc or of the slot's.                                *)
LEMMA FetchKeeps ==
    ASSUME IInv, NEW p \in CodePages, NEW next \in {"exec", "inSlot"},
           \/ at = "fetch" /\ p = pc /\ next = "exec"
           \/ at = "slot" /\ p = slot /\ next = "inSlot",
           Fetch(p, next)
    PROVE  IInv'
<1>. USE DEF IInv
<1>1. Lookup(p) \in Frames \cup KernelPages \cup {NULL}
  BY LookupTyped
<1>2. \A q : Lookup(q)' = Lookup(q)
  BY DEF Fetch, Miss, Found, Same, Lookup
<1>3. CASE Miss(p)
  BY <1>3 DEF Miss, Exception, FetchTypeOK, ExecutesKept, KeptCoherent, CodePages
<1>4. CASE Found(p, next)
  <2>1. FetchTypeOK'
    BY <1>1, <1>4 DEF Found, FetchTypeOK
  <2>2. ExecutesKept' /\ KeptCoherent'
    BY <1>2, <1>4, <2>1 DEF Found, FetchTypeOK, ExecutesKept, KeptCoherent, CodePages
  <2>. QED BY <2>1, <2>2
<1>5. CASE Same(p, next)
  <2>1. FetchTypeOK'
    BY <1>5 DEF Same, FetchTypeOK
  <2>2. CASE njmPtr = NULL
    BY <1>5, <2>1, <2>2 DEF Same, ExecutesKept, KeptCoherent
  <2>3. CASE njmPtr # NULL
    <3>1. njmPtr = Lookup(p)
      BY <1>5, <2>3 DEF Same, KeptCoherent, Forgotten, FetchTypeOK
    <3>. QED BY <1>2, <1>5, <2>1, <2>3, <3>1
             DEF Same, ExecutesKept, KeptCoherent, FetchTypeOK
  <2>. QED BY <2>1, <2>2, <2>3
<1>. QED BY <1>3, <1>4, <1>5 DEF Fetch

(* Instructions and exceptions leave what is kept alone; the kernel        *)
(* changes the TLB while what is kept is a page of its own.                *)
LEMMA ExecutionKeeps ==
    ASSUME IInv, Executes
    PROVE  IInv'
<1>. USE DEF IInv
<1>1. CASE Continue
  <2>1. pc' \in CodePages
    BY <1>1 DEF Continue, Exits, CodePages
  <2>2. KeptCoherent'
    BY <1>1 DEF Continue, Executing, KeptCoherent, Forgotten, Lookup, FetchTypeOK
  <2>. QED BY <1>1, <2>1, <2>2 DEF Continue, FetchTypeOK, ExecutesKept
<1>2. CASE Branch
  <2>1. slot' \in CodePages /\ slot' # NULL
    BY <1>2 DEF Branch, FetchTypeOK, CodePages
  <2>2. KeptCoherent'
    BY <1>2 DEF Branch, KeptCoherent, Forgotten, Lookup
  <2>. QED BY <1>2, <2>1, <2>2 DEF Branch, FetchTypeOK, ExecutesKept
<1>3. CASE Excepts
  <2>1. KeptCoherent'
    BY <1>3 DEF Excepts, Executing, Exception, KeptCoherent, Forgotten, Lookup
  <2>. QED BY <1>3, <2>1
           DEF Excepts, Exception, FetchTypeOK, ExecutesKept, CodePages
<1>4. ASSUME NEW p \in UserPages, NEW f \in Frames \cup {NULL},
             KernelRemaps(p, f)
      PROVE  IInv'
  <2>1. njmPage = pc /\ pc \in KernelPages /\ Lookup(pc)' = Lookup(pc)
    BY <1>4 DEF KernelRemaps, ExecutesKept, Lookup
  <2>2. KeptCoherent'
    BY <1>4, <2>1 DEF KernelRemaps, KeptCoherent, Forgotten, Lookup
  <2>. QED BY <1>4, <2>2 DEF KernelRemaps, FetchTypeOK, ExecutesKept
<1>. QED BY <1>1, <1>2, <1>3, <1>4 DEF Executes

LEMMA BetweenKeeps ==
    ASSUME IInv, Interrupt \/ CpuReset
    PROVE  IInv'
<1>. USE DEF IInv
<1>1. CASE Interrupt
  <2>1. KeptCoherent'
    BY <1>1 DEF Interrupt, Exception, KeptCoherent, Forgotten, Lookup
  <2>. QED BY <1>1, <2>1
           DEF Interrupt, Exception, FetchTypeOK, ExecutesKept, CodePages
<1>2. CASE CpuReset
  <2>1. FetchTypeOK' /\ ExecutesKept'
    BY <1>2 DEF CpuReset, FetchTypeOK, ExecutesKept, CodePages
  <2>2. KeptCoherent'
    BY <1>2 DEF CpuReset, KeptCoherent, Forgotten, Lookup, FetchTypeOK, CodePages
  <2>. QED BY <2>1, <2>2
<1>. QED BY <1>1, <1>2

LEMMA NextKeeps == IInv /\ [FetchNext]_fetchVars => IInv'
<1>1. SUFFICES ASSUME IInv, [FetchNext]_fetchVars PROVE IInv'
  OBVIOUS
<1>2. CASE UNCHANGED fetchVars
  BY <1>1, <1>2
     DEF fetchVars, IInv, FetchTypeOK, ExecutesKept, KeptCoherent, Forgotten, Lookup
<1>3. CASE FetchInstruction
  BY <1>1, <1>3, FetchKeeps DEF FetchInstruction, IInv, FetchTypeOK
<1>4. CASE FetchSlot
  BY <1>1, <1>4, FetchKeeps DEF FetchSlot, IInv, FetchTypeOK
<1>5. CASE Executes \/ Interrupt \/ CpuReset
  BY <1>1, <1>5, ExecutionKeeps, BetweenKeeps
<1>. QED BY <1>1, <1>2, <1>3, <1>4, <1>5 DEF FetchNext, Fetches

-----------------------------------------------------------------------------
(* IInv holds in every state of the emulator.                              *)
THEOREM Inductive == FetchSpec => []IInv
BY InitHolds, NextKeeps, PTL DEF FetchSpec

(* FetchTypeOK: a slot is noted exactly while one is fetched or executed.       *)
THEOREM TypesHold == FetchSpec => []FetchTypeOK
<1>1. IInv => FetchTypeOK
  BY DEF IInv
<1>. QED BY <1>1, Inductive, PTL

(* FetchCoherent: mips64_fetch_instruction asks the MMU when execution     *)
(* moves to another page only, yet no instruction comes from a page the    *)
(* MMU would not give now, through any remapping, exception and reset.     *)
THEOREM FetchStaysCoherent == FetchSpec => []FetchCoherent
<1>1. IInv => FetchCoherent
  BY DEF IInv, ExecutesKept, FetchCoherent
<1>. QED BY <1>1, Inductive, PTL

=============================================================================
