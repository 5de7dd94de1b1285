--------------------------------- MODULE Tlb ---------------------------------
(***************************************************************************)
(* The TLB of CP0 (mips64_cp0.c): what a walk of it answers, and the       *)
(* instructions that read and write it.  Translation and Mmu build on it.  *)
(*                                                                         *)
(* A page is the number of a 4K page of virtual addresses, a frame that of *)
(* a 4K page of physical ones.  EntryLo0, EntryLo1 and PageMask are read   *)
(* by TLBWI and TLBWR only, so what the guest has put there is an input of *)
(* those two.                                                              *)
(***************************************************************************)
EXTENDS Integers, FiniteSetsExt

CONSTANTS
    Entries,      \* cp0->tlb_entries
    MappedPages,  \* the pages of kuseg and kseg2-3 the guest touches
    Direct,       \* the frame of each page of kseg0-1 the guest touches
    Asids,        \* address space identifiers; reset leaves 0
    Contents,     \* what the guest writes to PageMask, EntryLo0 and EntryLo1
    DeviceFrames, \* frames of a device that keeps no host memory
    NotFound,     \* bit 31 of INDEX: the last probe failed
    Nothing       \* no access has just been made

ASSUME EntriesAssumption == Entries \in Nat \ {0} /\ NotFound \notin Int
ASSUME PagesAssumption ==
    /\ MappedPages \subseteq Nat
    /\ DOMAIN Direct \subseteq Nat \ MappedPages
    /\ \A p \in DOMAIN Direct : Direct[p] \in Nat
ASSUME AsidsAssumption == 0 \in Asids

Lo == [frame : Nat, dirty : BOOLEAN, valid : BOOLEAN]

ASSUME ContentsAssumption ==
    Contents \subseteq [size : Nat \ {0}, g : BOOLEAN, lo0 : Lo, lo1 : Lo]

VARIABLES
    tlb,   \* cp0->tlb
    hi,    \* CP0 TLB_HI: VPN2 and ASID
    index, \* CP0 INDEX
    last   \* the access just made and what became of it

tlbVars == <<tlb, hi, index>>

Pages == MappedPages \cup DOMAIN Direct
Indices == 0..(Entries - 1)
Pairs == {p \div 2 : p \in Pages} \cup {0}
Ops == {"read", "write"}
Outcomes == [fault : {"none", "TLB_LOAD", "TLB_SAVE", "TLB_MOD", "ADDRESS",
                      "NULL"},
             frame : Nat]

Entry == [vpn2 : Nat, asid : Asids, g : BOOLEAN, size : Nat \ {0},
          lo0 : Lo, lo1 : Lo]

NoLo == [frame |-> 0, dirty |-> FALSE, valid |-> FALSE]
BlankEntry == [vpn2 |-> 0, asid |-> 0, g |-> FALSE, size |-> 1,
               lo0 |-> NoLo, lo1 |-> NoLo]

-----------------------------------------------------------------------------
(* mips64_cp0_tlb_lookup.  A page pair of an entry with PageMask is size   *)
(* times as large; the low bits of its VPN2 are ignored.                   *)

Covers(e, p) == (p \div 2) \div e.size = e.vpn2 \div e.size

Matches(e, p, asid) == Covers(e, p) /\ (e.g \/ e.asid = asid)

Half(e, p) == IF (p \div e.size) % 2 = 0 THEN e.lo0 ELSE e.lo1

Matching(p, asid) == {i \in Indices : Matches(tlb[i], p, asid)}

(* Whether the walk ends in a valid half, and where that leads.            *)
Hits(p, asid) ==
    /\ Matching(p, asid) # {}
    /\ Half(tlb[Min(Matching(p, asid))], p).valid

Walk(p, asid) ==
    LET e == tlb[Min(Matching(p, asid))]
    IN  [frame |-> Half(e, p).frame + (p % e.size),
         dirty |-> Half(e, p).dirty,
         g |-> e.g]

To(frame) == [fault |-> "none", frame |-> frame]
No(fault) == [fault |-> fault, frame |-> 0]

(* What an access by the current address space comes to.                   *)
Outcome(p, op) ==
    IF p \in DOMAIN Direct THEN To(Direct[p])
    ELSE IF ~Hits(p, hi.asid)
         THEN No(IF op = "read" THEN "TLB_LOAD" ELSE "TLB_SAVE")
         ELSE IF op = "write" /\ ~Walk(p, hi.asid).dirty
              THEN No("TLB_MOD")
              ELSE To(Walk(p, hi.asid).frame)

Faults(p, op) == Outcome(p, op).fault # "none"

Answer(p, op, outcome) ==
    last' = [page |-> p, op |-> op, outcome |-> outcome]

(* mips_access_special: every fault leaves its page in EntryHi.            *)
EntryHiTakes(p) == hi' = [hi EXCEPT !.vpn2 = p \div 2]

-----------------------------------------------------------------------------
(* The instructions, as far as CP0 goes.                                   *)

(* mtc0 to TLB_HI.                                                         *)
WriteHi(vpn2, asid) ==
    /\ hi' = [vpn2 |-> vpn2, asid |-> asid]
    /\ last' = Nothing
    /\ UNCHANGED <<tlb, index>>

(* mtc0 to INDEX.                                                          *)
WriteIndex(i) ==
    /\ index' = i
    /\ last' = Nothing
    /\ UNCHANGED <<tlb, hi>>

(* Variant: a failed probe leaves the loop's counter.                      *)
ProbeLeavesCounter ==
    /\ LET found == Matching(2 * hi.vpn2, hi.asid)
       IN  index' = IF found = {} THEN Entries ELSE Min(found)
    /\ last' = Nothing
    /\ UNCHANGED <<tlb, hi>>

(* TLBP.                                                                   *)
Probe ==
    /\ LET found == Matching(2 * hi.vpn2, hi.asid)
       IN  index' = IF found = {} THEN NotFound ELSE Min(found)
    /\ last' = Nothing
    /\ UNCHANGED <<tlb, hi>>

(* TLBR.                                                                   *)
ReadEntry ==
    /\ index # NotFound
    /\ hi' = [vpn2 |-> tlb[index].vpn2, asid |-> tlb[index].asid]
    /\ last' = Nothing
    /\ UNCHANGED <<tlb, index>>

EntryOf(c) == [vpn2 |-> hi.vpn2, asid |-> hi.asid, g |-> c.g, size |-> c.size,
               lo0 |-> c.lo0, lo1 |-> c.lo1]

(* Some address would match both.                                          *)
Clash(d, e) ==
    /\ \E p \in MappedPages : Covers(d, p) /\ Covers(e, p)
    /\ d.g \/ e.g \/ d.asid = e.asid

(* mips64_cp0_exec_tlbw.  MIPS leaves a TLB with two matching entries      *)
(* undefined; the guest does not write one.                                *)
WriteEntry(i, c) ==
    /\ \A j \in Indices \ {i} : ~Clash(tlb[j], EntryOf(c))
    /\ tlb' = [tlb EXCEPT ![i] = EntryOf(c)]
    /\ last' = Nothing
    /\ UNCHANGED <<hi, index>>

(* The entry TLBWI writes: any, as TLBWR, if the last probe failed.        *)
IndexedSlots == IF index = NotFound THEN Indices ELSE {index}

(* mips64_reset; CP0 keeps its INDEX and TLB_HI.                           *)
ClearTlb ==
    /\ tlb' = [i \in Indices |-> BlankEntry]
    /\ last' = Nothing
    /\ UNCHANGED <<hi, index>>

TlbInit ==
    /\ tlb = [i \in Indices |-> BlankEntry]
    /\ hi = [vpn2 |-> 0, asid |-> 0]
    /\ index = 0
    /\ last = Nothing

TlbTypeOK ==
    /\ tlb \in [Indices -> Entry]
    /\ hi \in [vpn2 : Nat, asid : Asids]
    /\ index \in Indices \cup {NotFound}
    /\ last \in [page : Pages, op : Ops, outcome : Outcomes] \cup {Nothing}

=============================================================================
