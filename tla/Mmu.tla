--------------------------------- MODULE Mmu ---------------------------------
(***************************************************************************)
(* The guest's memory accesses as mips64_memory.c makes them: through a    *)
(* direct-mapped cache of translations (mts32_cache), filled on the fly    *)
(* from the TLB and unmapped when a TLB entry is overwritten.              *)
(*                                                                         *)
(* Every physical page is backed by a device, or the program exits.        *)
(***************************************************************************)
EXTENDS Tlb

CONSTANTS
    Buckets, \* MTS32_HASH_SIZE
    Empty    \* an entry of 0xFF bytes

MappedLine == [page : MappedPages, frame : Nat, asid : Asids, g : BOOLEAN,
               dirty : BOOLEAN]
DirectLine == [page : DOMAIN Direct, frame : Nat]

ASSUME BucketsAssumption ==
    Buckets \in Nat \ {0} /\ Empty \notin MappedLine \cup DirectLine

VARIABLE cache \* mts32_cache

vars == <<tlbVars, last, cache>>

Bucket(p) == p % Buckets
BucketSet == 0..(Buckets - 1)

TypeOK ==
    /\ TlbTypeOK
    /\ cache \in [BucketSet -> MappedLine \cup DirectLine \cup {Empty}]
    /\ \A b \in BucketSet : cache[b] # Empty => Bucket(cache[b].page) = b

Init ==
    /\ TlbInit
    /\ cache = [b \in BucketSet |-> Empty]

-----------------------------------------------------------------------------
(* Variant: an ASID that does not matter.                                  *)
CachedAnyAsid(p, op) ==
    LET c == cache[Bucket(p)]
    IN  /\ c # Empty
        /\ c.page = p
        /\ p \in MappedPages /\ op = "write" => c.dirty

(* mips_mts32_check_tlbcache.                                              *)
Cached(p, op) ==
    LET c == cache[Bucket(p)]
    IN  /\ c # Empty
        /\ c.page = p
        /\ p \in MappedPages /\ op = "write" => c.dirty
        /\ p \in MappedPages => c.g \/ c.asid = hi.asid

(* What mips_mts32_map leaves in the bucket.                               *)
Line(p) ==
    IF p \in DOMAIN Direct
    THEN [page |-> p, frame |-> Direct[p]]
    ELSE LET w == Walk(p, hi.asid)
         IN  [page |-> p, frame |-> w.frame, asid |-> hi.asid, g |-> w.g,
              dirty |-> w.dirty]

(* The slow lookup's success; a device's pages are never cached.           *)
Fills(p) ==
    cache' = IF Outcome(p, "read").frame \in DeviceFrames
             THEN cache
             ELSE [cache EXCEPT ![Bucket(p)] = Line(p)]

-----------------------------------------------------------------------------
(* mips_mts32_access, for a load, a store, a fetch, or the debugger.       *)

AccessCached(p, op) ==
    /\ Cached(p, op)
    /\ Answer(p, op, To(cache[Bucket(p)].frame))
    /\ UNCHANGED <<tlbVars, cache>>

AccessWalks(p, op) ==
    /\ ~Cached(p, op)
    /\ ~Faults(p, op)
    /\ Fills(p)
    /\ Answer(p, op, Outcome(p, op))
    /\ UNCHANGED tlbVars

AccessFaults(p, op) ==
    /\ ~Cached(p, op)
    /\ Faults(p, op)
    /\ Answer(p, op, Outcome(p, op))
    /\ EntryHiTakes(p)
    /\ UNCHANGED <<tlb, index, cache>>

AccessMisaligned(p, op) ==
    /\ Answer(p, op, No("ADDRESS"))
    /\ EntryHiTakes(p)
    /\ UNCHANGED <<tlb, index, cache>>

DebuggerMisses(p, op) ==
    /\ ~Cached(p, op)
    /\ Faults(p, op)
    /\ Answer(p, op, No("NULL"))
    /\ UNCHANGED <<tlbVars, cache>>

Access(p, op) ==
    \/ AccessCached(p, op) \/ AccessWalks(p, op) \/ AccessFaults(p, op)
    \/ AccessMisaligned(p, op) \/ DebuggerMisses(p, op)

-----------------------------------------------------------------------------
(* Variant: nothing is unmapped.                                           *)
UnmapNothing(e) == cache

(* mips64_cp0_unmap_tlb_to_mts: one bucket for each valid half, found from *)
(* the half's first address.                                               *)
Unmap(e) ==
    [b \in BucketSet |->
        IF \/ e.lo0.valid /\ b = Bucket(2 * e.vpn2)
           \/ e.lo1.valid /\ b = Bucket(2 * e.vpn2 + e.size)
        THEN Empty
        ELSE cache[b]]

Writes(i, c) ==
    /\ WriteEntry(i, c)
    /\ cache' = Unmap(tlb[i])

WriteIndexed(c) == \E i \in IndexedSlots : Writes(i, c)
WriteRandom(c) == \E i \in Indices : Writes(i, c)

(* Variant: the translations outlive the TLB.                              *)
ResetTlbOnly ==
    /\ ClearTlb
    /\ UNCHANGED cache

(* mips64_reset, by the watchdog.                                          *)
Reset ==
    /\ ClearTlb
    /\ cache' = [b \in BucketSet |-> Empty]

Cp0Moves ==
    \/ \E vpn2 \in Pairs, asid \in Asids : WriteHi(vpn2, asid)
    \/ \E i \in Indices : WriteIndex(i)
    \/ Probe
    \/ ReadEntry

Next ==
    \/ \E p \in Pages, op \in Ops : Access(p, op)
    \/ Cp0Moves /\ UNCHANGED cache
    \/ \E c \in Contents : WriteIndexed(c) \/ WriteRandom(c)
    \/ Reset

Spec == Init /\ [][Next]_vars

-----------------------------------------------------------------------------
CoherentLine(c) ==
    IF c.page \in DOMAIN Direct
    THEN c.frame = Direct[c.page]
    ELSE \A a \in Asids :
             c.g \/ c.asid = a =>
                 /\ Hits(c.page, a)
                 /\ Walk(c.page, a) =
                        [frame |-> c.frame, dirty |-> c.dirty, g |-> c.g]

(* Every cached translation is what a walk of the TLB would answer now, in *)
(* every address space it can serve: not only the current one, since the   *)
(* guest changes the ASID without telling the cache.                       *)
CacheCoherent ==
    \A b \in BucketSet : cache[b] # Empty => CoherentLine(cache[b])

(* To the guest the cache does not exist: each access ends where a walk of *)
(* the TLB leads, with the same fault and the same EntryHi.                *)
Abstract == INSTANCE Translation

ImplementsTranslation == Abstract!Spec

=============================================================================
