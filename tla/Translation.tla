----------------------------- MODULE Translation -----------------------------
(***************************************************************************)
(* What the guest is promised of its memory accesses: each one walks the   *)
(* TLB as it stands, and goes where the walk leads or faults.              *)
(***************************************************************************)
EXTENDS Tlb

vars == <<tlbVars, last>>

Accesses(p, op) ==
    /\ Answer(p, op, Outcome(p, op))
    /\ IF Faults(p, op) THEN EntryHiTakes(p) ELSE UNCHANGED hi
    /\ UNCHANGED <<tlb, index>>

Misaligned(p, op) ==
    /\ Answer(p, op, No("ADDRESS"))
    /\ EntryHiTakes(p)
    /\ UNCHANGED <<tlb, index>>

(* The debugger is told of no fault and leaves no trace of one.            *)
DebuggerMisses(p, op) ==
    /\ Answer(p, op, No("NULL"))
    /\ Faults(p, op)
    /\ UNCHANGED tlbVars

Next ==
    \/ \E p \in Pages, op \in Ops :
           Accesses(p, op) \/ Misaligned(p, op) \/ DebuggerMisses(p, op)
    \/ \E vpn2 \in Pairs, asid \in Asids : WriteHi(vpn2, asid)
    \/ \E i \in Indices : WriteIndex(i)
    \/ Probe \/ ReadEntry
    \/ \E c \in Contents, i \in Indices : WriteEntry(i, c)
    \/ ClearTlb

Init == TlbInit
Spec == Init /\ [][Next]_vars

=============================================================================
