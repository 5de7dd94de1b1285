------------------------------ MODULE MmuProofs ------------------------------
(***************************************************************************)
(* With pages of the smallest size, whatever the guest does the cache of   *)
(* translations stays coherent with the TLB, and so the guest cannot tell  *)
(* that there is one.  The larger pages MIPS has are the case MCMmuLarge   *)
(* refutes.                                                                *)
(***************************************************************************)
EXTENDS Mmu, WellFoundedInduction, TLAPS

USE EntriesAssumption, PagesAssumption, AsidsAssumption, ContentsAssumption,
    BucketsAssumption

SmallPages == \A c \in Contents : c.size = 1

(* Two entries match an address only if neither says anything of it: the   *)
(* blank ones of a cleared TLB.                                            *)
Silent(e) == ~e.lo0.valid /\ ~e.lo1.valid

Disjoint == \A i, j \in Indices :
                i # j /\ Clash(tlb[i], tlb[j]) => Silent(tlb[i]) /\ Silent(tlb[j])

Small == \A i \in Indices : tlb[i].size = 1

IInv == TypeOK /\ Small /\ Disjoint /\ CacheCoherent

(* Entry i alone decides what the walk answers for p.                      *)
Decides(i, p, a) ==
    /\ i \in Matching(p, a)
    /\ Half(tlb[i], p).valid

LEMMA LeastElement ==
    ASSUME NEW T \in SUBSET Nat, T # {}
    PROVE  \E m \in T : \A n \in T : m <= n
<1>. DEFINE R == {ss \in Nat \X Nat : ss[1] < ss[2]}
<1>1. R = OpToRel(<, Nat)
  BY DEF OpToRel
<1>2. IsWellFoundedOn(R, Nat)
  BY <1>1, NatLessThanWellFounded
<1>. HIDE DEF R
<1>3. PICK m \in T : \A n \in T : ~(<<n, m>> \in R)
  BY <1>2, WFMin
<1>4. \A n \in T : ~(n < m)
  BY <1>3 DEF R
<1>. QED BY <1>3, <1>4

LEMMA MinIsMember ==
    ASSUME NEW T \in SUBSET Nat, T # {}
    PROVE  Min(T) \in T
BY LeastElement DEF Min

(* A small entry covers exactly its two pages.                             *)
LEMMA SmallCovers ==
    ASSUME NEW e \in Entry, e.size = 1, NEW p \in Nat
    PROVE  /\ Covers(e, p) <=> p = 2 * e.vpn2 \/ p = 2 * e.vpn2 + 1
           /\ p = 2 * e.vpn2 => Half(e, p) = e.lo0
           /\ p = 2 * e.vpn2 + 1 => Half(e, p) = e.lo1
           /\ Half(e, p) \in Lo
           /\ p % e.size = 0
<1>1. /\ e.vpn2 \in Nat /\ e.lo0 \in Lo /\ e.lo1 \in Lo
      /\ (p \div 2) \div 1 = p \div 2 /\ e.vpn2 \div 1 = e.vpn2
      /\ p \div 1 = p /\ p % 1 = 0
  BY DEF Entry
<1>. QED BY <1>1 DEF Covers, Half

LEMMA MatchingRange ==
    ASSUME NEW p, NEW a
    PROVE  Matching(p, a) \in SUBSET Nat /\ Matching(p, a) \subseteq Indices
BY DEF Matching, Indices

(* The first match is the only one that has anything to say.               *)
LEMMA WalkDecided ==
    ASSUME TypeOK, Disjoint, Small,
           NEW p \in MappedPages, NEW a \in Asids, NEW i \in Indices,
           Decides(i, p, a)
    PROVE  /\ Hits(p, a)
           /\ Walk(p, a) = [frame |-> Half(tlb[i], p).frame + (p % tlb[i].size),
                            dirty |-> Half(tlb[i], p).dirty,
                            g |-> tlb[i].g]
<1>1. i \in Matching(p, a) /\ Half(tlb[i], p).valid
  BY DEF Decides
<1>2. ASSUME NEW j \in Matching(p, a), j # i
      PROVE  FALSE
  <2>1. j \in Indices /\ Covers(tlb[j], p) /\ Covers(tlb[i], p)
    BY <1>1, <1>2 DEF Matching, Matches
  <2>2. tlb[i].g \/ tlb[j].g \/ tlb[i].asid = tlb[j].asid
    BY <1>1, <1>2 DEF Matching, Matches
  <2>3. Silent(tlb[i])
    BY <1>2, <2>1, <2>2 DEF Disjoint, Clash
  <2>. QED BY <1>1, <2>3 DEF Silent, Half
<1>3. Matching(p, a) = {i}
  BY <1>1, <1>2
<1>4. Min(Matching(p, a)) = i
  BY <1>3, MinIsMember, MatchingRange
<1>. QED BY <1>1, <1>3, <1>4 DEF Hits, Walk

(* The same of the next state.                                             *)
LEMMA WalkDecidedNext ==
    ASSUME TypeOK', Disjoint', Small',
           NEW p \in MappedPages, NEW a \in Asids, NEW i \in Indices,
           Decides(i, p, a)'
    PROVE  /\ Hits(p, a)'
           /\ Walk(p, a)' = [frame |-> Half(tlb'[i], p).frame + (p % tlb'[i].size),
                             dirty |-> Half(tlb'[i], p).dirty,
                             g |-> tlb'[i].g]
<1>1. i \in Matching(p, a)' /\ Half(tlb'[i], p).valid
  BY DEF Decides, Half
<1>2. ASSUME NEW j \in Matching(p, a)', j # i
      PROVE  FALSE
  <2>1. j \in Indices /\ Covers(tlb'[j], p) /\ Covers(tlb'[i], p)
    BY <1>1, <1>2 DEF Matching, Matches, Covers
  <2>2. tlb'[i].g \/ tlb'[j].g \/ tlb'[i].asid = tlb'[j].asid
    BY <1>1, <1>2 DEF Matching, Matches
  <2>3. Silent(tlb'[i])
    BY <1>2, <2>1, <2>2 DEF Disjoint, Clash, Silent, Covers
  <2>. QED BY <1>1, <2>3 DEF Silent, Half
<1>3. Matching(p, a)' = {i}
  BY <1>1, <1>2
<1>4. Min(Matching(p, a)') = i
  BY <1>3, MinIsMember DEF Indices
<1>. QED BY <1>1, <1>3, <1>4 DEF Hits, Walk, Half

LEMMA HitDecided ==
    ASSUME NEW p \in MappedPages, NEW a \in Asids, Hits(p, a)
    PROVE  \E i \in Indices :
               /\ Decides(i, p, a)
               /\ Walk(p, a) = [frame |-> Half(tlb[i], p).frame + (p % tlb[i].size),
                                dirty |-> Half(tlb[i], p).dirty,
                                g |-> tlb[i].g]
<1>1. Min(Matching(p, a)) \in Matching(p, a)
  BY MinIsMember, MatchingRange DEF Hits
<1>. QED BY <1>1, MatchingRange DEF Hits, Decides, Walk

(* Types of what a walk answers.                                           *)
LEMMA WalkType ==
    ASSUME TypeOK, NEW p \in MappedPages, NEW a \in Asids, Hits(p, a)
    PROVE  Walk(p, a) \in [frame : Nat, dirty : BOOLEAN, g : BOOLEAN]
<1>1. PICK i \in Indices :
          /\ Decides(i, p, a)
          /\ Walk(p, a) = [frame |-> Half(tlb[i], p).frame + (p % tlb[i].size),
                           dirty |-> Half(tlb[i], p).dirty,
                           g |-> tlb[i].g]
  BY HitDecided
<1>2. tlb[i] \in Entry /\ p \in Nat
  BY DEF TypeOK, TlbTypeOK
<1>3. Half(tlb[i], p) \in Lo /\ p % tlb[i].size \in Nat
  <2>1. tlb[i].size \in Nat \ {0} /\ tlb[i].lo0 \in Lo /\ tlb[i].lo1 \in Lo
    BY <1>2 DEF Entry
  <2>2. p % tlb[i].size \in Nat
    BY <1>2, <2>1
  <2>. QED BY <2>1, <2>2 DEF Half
<1>. QED BY <1>1, <1>2, <1>3 DEF Lo, Entry

LEMMA BucketType == \A p \in Pages : p \in Nat /\ Bucket(p) \in BucketSet
BY DEF Bucket, BucketSet, Pages

-----------------------------------------------------------------------------
(* Types, with pages of any size.                                          *)
LEMMA OutcomeType ==
    ASSUME TypeOK, NEW p \in Pages, NEW op \in Ops
    PROVE  Outcome(p, op) \in Outcomes
<1>1. CASE p \in DOMAIN Direct
  BY <1>1 DEF Outcome, Outcomes, To
<1>2. CASE p \notin DOMAIN Direct
  <2>1. p \in MappedPages /\ hi.asid \in Asids
    BY <1>2 DEF Pages, TypeOK, TlbTypeOK
  <2>2. Hits(p, hi.asid) => Walk(p, hi.asid).frame \in Nat
    BY <2>1, WalkType
  <2>. QED BY <1>2, <2>2 DEF Outcome, Outcomes, To, No
<1>. QED BY <1>1, <1>2

LEMMA LineTyped ==
    ASSUME TypeOK, NEW p \in Pages, NEW op \in Ops, ~Faults(p, op)
    PROVE  Line(p) \in MappedLine \cup DirectLine /\ Line(p).page = p
<1>1. p \notin DOMAIN Direct => p \in MappedPages /\ Hits(p, hi.asid)
  BY DEF Faults, Outcome, No, Pages
<1>2. hi.asid \in Asids
  BY DEF TypeOK, TlbTypeOK
<1>3. CASE p \in DOMAIN Direct
  BY <1>3 DEF Line, DirectLine
<1>4. CASE p \notin DOMAIN Direct
  <2>1. Walk(p, hi.asid) \in [frame : Nat, dirty : BOOLEAN, g : BOOLEAN]
    BY <1>1, <1>2, <1>4, WalkType
  <2>. QED BY <1>1, <1>2, <1>4, <2>1 DEF Line, MappedLine
<1>. QED BY <1>3, <1>4

LEMMA AccessTyped ==
    ASSUME TypeOK, NEW p \in Pages, NEW op \in Ops, Access(p, op)
    PROVE  TypeOK'
<1>1. /\ p \in Nat /\ p \div 2 \in Nat /\ Bucket(p) \in BucketSet
      /\ hi \in [vpn2 : Nat, asid : Asids] /\ hi.asid \in Asids
      /\ cache \in [BucketSet -> MappedLine \cup DirectLine \cup {Empty}]
  BY BucketType DEF TypeOK, TlbTypeOK
<1>2. Outcome(p, op) \in Outcomes
  BY OutcomeType
<1>3. CASE AccessCached(p, op)
  <2>1. cache[Bucket(p)] \in MappedLine \cup DirectLine
    BY <1>1, <1>3 DEF AccessCached, Cached
  <2>2. cache[Bucket(p)].frame \in Nat
    BY <2>1 DEF MappedLine, DirectLine
  <2>. QED BY <1>3, <2>2
           DEF AccessCached, Answer, To, Outcomes, TypeOK, TlbTypeOK, tlbVars
<1>4. CASE AccessFaults(p, op) \/ AccessMisaligned(p, op)
  <2>1. \E o \in Outcomes : Answer(p, op, o)
    BY <1>2, <1>4 DEF AccessFaults, AccessMisaligned, No, Outcomes
  <2>2. hi' \in [vpn2 : Nat, asid : Asids]
    BY <1>1, <1>4 DEF AccessFaults, AccessMisaligned, EntryHiTakes
  <2>3. UNCHANGED <<tlb, index, cache>>
    BY <1>4 DEF AccessFaults, AccessMisaligned
  <2>. QED BY <2>1, <2>2, <2>3 DEF Answer, TypeOK, TlbTypeOK
<1>5. CASE DebuggerMisses(p, op)
  <2>1. No("NULL") \in Outcomes
    BY DEF No, Outcomes
  <2>. QED BY <1>5, <2>1 DEF DebuggerMisses, Answer, TypeOK, TlbTypeOK, tlbVars
<1>6. CASE AccessWalks(p, op)
  <2>. DEFINE c == Line(p)
  <2>1. /\ UNCHANGED tlbVars
        /\ Answer(p, op, Outcome(p, op))
        /\ ~Faults(p, op)
        /\ Fills(p)
    BY <1>6 DEF AccessWalks
  <2>2. c \in MappedLine \cup DirectLine /\ c.page = p
    BY <2>1, LineTyped
  <2>3. cache' \in [BucketSet -> MappedLine \cup DirectLine \cup {Empty}]
    BY <1>1, <2>1, <2>2 DEF Fills
  <2>4. \A b \in BucketSet : cache'[b] = cache[b] \/ (b = Bucket(p) /\ cache'[b] = c)
    BY <1>1, <2>1 DEF Fills
  <2>5. \A b \in BucketSet : cache'[b] # Empty => Bucket(cache'[b].page) = b
    BY <2>2, <2>4 DEF TypeOK
  <2>6. TlbTypeOK'
    BY <1>2, <2>1 DEF tlbVars, Answer, TypeOK, TlbTypeOK
  <2>. QED BY <2>3, <2>5, <2>6 DEF TypeOK, Bucket
<1>. QED BY <1>3, <1>4, <1>5, <1>6 DEF Access

LEMMA Cp0Typed ==
    ASSUME TypeOK, Cp0Moves, UNCHANGED cache
    PROVE  TypeOK'
<1>1. UNCHANGED <<tlb, cache>>
  BY DEF Cp0Moves, WriteHi, WriteIndex, Probe, ReadEntry
<1>2. Pairs \subseteq Nat /\ Nothing = last'
  BY DEF Pairs, Pages, Cp0Moves, WriteHi, WriteIndex, Probe, ReadEntry
<1>3. CASE \E vpn2 \in Pairs, asid \in Asids : WriteHi(vpn2, asid)
  BY <1>1, <1>2, <1>3 DEF WriteHi, TypeOK, TlbTypeOK
<1>4. CASE \E i \in Indices : WriteIndex(i)
  BY <1>1, <1>2, <1>4 DEF WriteIndex, TypeOK, TlbTypeOK
<1>5. CASE Probe
  <2>1. index' \in Indices \cup {NotFound}
    BY <1>5, MinIsMember, MatchingRange DEF Probe
  <2>. QED BY <1>1, <1>2, <1>5, <2>1 DEF Probe, TypeOK, TlbTypeOK
<1>6. CASE ReadEntry
  <2>1. index \in Indices /\ tlb[index] \in Entry
    BY <1>6 DEF ReadEntry, TypeOK, TlbTypeOK
  <2>2. hi' \in [vpn2 : Nat, asid : Asids]
    BY <1>6, <2>1 DEF ReadEntry, Entry
  <2>. QED BY <1>1, <1>2, <1>6, <2>2 DEF ReadEntry, TypeOK, TlbTypeOK
<1>. QED BY <1>3, <1>4, <1>5, <1>6 DEF Cp0Moves

LEMMA WritesTyped ==
    ASSUME TypeOK, NEW i \in Indices, NEW c \in Contents, Writes(i, c)
    PROVE  TypeOK'
<1>. DEFINE e == EntryOf(c)
<1>1. e \in Entry
  BY DEF EntryOf, Entry, TypeOK, TlbTypeOK
<1>2. /\ tlb' = [tlb EXCEPT ![i] = e]
      /\ UNCHANGED <<hi, index>> /\ last' = Nothing
      /\ cache' = Unmap(tlb[i])
  BY DEF Writes, WriteEntry
<1>. HIDE DEF e
<1>3. TlbTypeOK'
  BY <1>1, <1>2 DEF TypeOK, TlbTypeOK
<1>4. cache' \in [BucketSet -> MappedLine \cup DirectLine \cup {Empty}]
  BY <1>2 DEF Unmap, TypeOK
<1>5. \A b \in BucketSet : cache'[b] # Empty => cache'[b] = cache[b]
  BY <1>2 DEF Unmap
<1>. QED BY <1>3, <1>4, <1>5 DEF TypeOK, Bucket

LEMMA ResetTyped == TypeOK /\ Reset => TypeOK'
<1>1. BlankEntry \in Entry
  BY DEF BlankEntry, NoLo, Entry, Lo
<1>. QED BY <1>1 DEF Reset, ClearTlb, TypeOK, TlbTypeOK

LEMMA SlotsTyped == TypeOK => IndexedSlots \subseteq Indices
BY DEF IndexedSlots, TypeOK, TlbTypeOK

LEMMA TypesStep == TypeOK /\ [Next]_vars => TypeOK'
<1>. SUFFICES ASSUME TypeOK, [Next]_vars PROVE TypeOK'
  OBVIOUS
<1>1. CASE UNCHANGED vars
  BY <1>1 DEF vars, tlbVars, TypeOK, TlbTypeOK, Bucket
<1>2. ASSUME NEW c \in Contents, WriteIndexed(c) \/ WriteRandom(c) PROVE TypeOK'
  BY <1>2, WritesTyped, SlotsTyped DEF WriteIndexed, WriteRandom
<1>. QED BY <1>1, <1>2, AccessTyped, Cp0Typed, ResetTyped DEF Next

LEMMA InitTyped == Init => TypeOK
<1>1. BlankEntry \in Entry
  BY DEF BlankEntry, NoLo, Entry, Lo
<1>. QED BY <1>1 DEF Init, TlbInit, TypeOK, TlbTypeOK, Indices

(* TypeOK, whatever the sizes of the pages: a line is kept in its page's   *)
(* bucket, and what an access comes to is a frame or a fault the code has. *)
THEOREM TypesHold == Spec => []TypeOK
BY InitTyped, TypesStep, PTL DEF Spec

-----------------------------------------------------------------------------
LEMMA InitHolds == Init => IInv
<1>. SUFFICES ASSUME Init PROVE IInv
  OBVIOUS
<1>2. \A i \in Indices : tlb[i] = BlankEntry
  BY DEF Init, TlbInit
<1>3. TypeOK
  BY InitTyped
<1>4. Small /\ Disjoint
  BY <1>2 DEF Small, Disjoint, Silent, BlankEntry, NoLo
<1>5. CacheCoherent
  BY DEF Init, CacheCoherent
<1>. QED BY <1>3, <1>4, <1>5 DEF IInv

(* The registers move; the TLB and the cache do not.                       *)
LEMMA CoherenceOfTlbAndCache ==
    ASSUME IInv, UNCHANGED <<tlb, cache>>
    PROVE  Small' /\ Disjoint' /\ CacheCoherent'
BY DEF IInv, Small, Disjoint, Clash, CacheCoherent, CoherentLine, Hits, Walk,
       Matching

LEMMA AccessHolds ==
    ASSUME IInv, NEW p \in Pages, NEW op \in Ops, Access(p, op)
    PROVE  IInv'
<1>1. /\ p \in Nat /\ Bucket(p) \in BucketSet /\ hi.asid \in Asids
      /\ cache \in [BucketSet -> MappedLine \cup DirectLine \cup {Empty}]
  BY BucketType DEF IInv, TypeOK, TlbTypeOK
<1>2. TypeOK'
  BY AccessTyped DEF IInv
<1>3. CASE ~AccessWalks(p, op)
  <2>1. UNCHANGED <<tlb, cache>>
    BY <1>3 DEF Access, AccessCached, AccessFaults, AccessMisaligned,
       DebuggerMisses, tlbVars
  <2>. QED BY <1>2, <2>1, CoherenceOfTlbAndCache DEF IInv
<1>6. CASE AccessWalks(p, op)
  <2>. DEFINE c == Line(p)
  <2>1. /\ UNCHANGED tlbVars
        /\ Answer(p, op, Outcome(p, op))
        /\ ~Faults(p, op)
        /\ Fills(p)
    BY <1>6 DEF AccessWalks
  <2>2. p \notin DOMAIN Direct => p \in MappedPages /\ Hits(p, hi.asid)
    BY <2>1 DEF Faults, Outcome, No, Pages
  <2>5. \A b \in BucketSet : cache'[b] = cache[b] \/ (b = Bucket(p) /\ cache'[b] = c)
    BY <1>1, <2>1 DEF Fills
  <2>7. Small' /\ Disjoint'
    BY <2>1 DEF tlbVars, IInv, Small, Disjoint, Clash
  <2>8. /\ \A q \in MappedPages, a \in Asids : Hits(q, a)' <=> Hits(q, a)
        /\ \A q \in MappedPages, a \in Asids : Walk(q, a)' = Walk(q, a)
    BY <2>1 DEF tlbVars, Hits, Walk, Matching
  <2>9. CacheCoherent'
    <3>. SUFFICES ASSUME NEW b \in BucketSet, cache'[b] # Empty
                  PROVE  CoherentLine(cache[b])'
      BY DEF CacheCoherent
    <3>1. CASE cache'[b] = cache[b]
      <4>1. cache[b] \in MappedLine \cup DirectLine
        BY <1>1, <3>1
      <4>2. cache[b].page \notin DOMAIN Direct => cache[b].page \in MappedPages
        BY <4>1 DEF MappedLine, DirectLine
      <4>3. CoherentLine(cache[b])
        BY <3>1 DEF IInv, CacheCoherent
      <4>. QED BY <2>8, <3>1, <4>2, <4>3 DEF CoherentLine
    <3>2. CASE cache'[b] = c /\ p \in DOMAIN Direct
      BY <3>2 DEF CoherentLine, Line
    <3>3. CASE cache'[b] = c /\ p \notin DOMAIN Direct
      <4>1. c = [page |-> p, frame |-> Walk(p, hi.asid).frame, asid |-> hi.asid,
                 g |-> Walk(p, hi.asid).g, dirty |-> Walk(p, hi.asid).dirty]
        BY <3>3 DEF Line
      <4>2. PICK i \in Indices :
                /\ Decides(i, p, hi.asid)
                /\ Walk(p, hi.asid) =
                       [frame |-> Half(tlb[i], p).frame + (p % tlb[i].size),
                        dirty |-> Half(tlb[i], p).dirty,
                        g |-> tlb[i].g]
        BY <1>1, <2>2, <3>3, HitDecided
      <4>3. ASSUME NEW a \in Asids, c.g \/ c.asid = a
            PROVE  Hits(p, a) /\ Walk(p, a) = Walk(p, hi.asid)
        <5>1. Decides(i, p, a)
          BY <4>1, <4>2, <4>3 DEF Decides, Matching, Matches
        <5>. QED BY <2>2, <3>3, <4>2, <5>1, WalkDecided DEF IInv
      <4>4. /\ c.page = p
            /\ [frame |-> c.frame, dirty |-> c.dirty, g |-> c.g] = Walk(p, hi.asid)
        BY <4>1, <4>2
      <4>. HIDE DEF c
      <4>5. \A a \in Asids :
                c.g \/ c.asid = a =>
                    /\ Hits(p, a)'
                    /\ Walk(p, a)' = [frame |-> c.frame, dirty |-> c.dirty, g |-> c.g]
        BY <2>2, <2>8, <3>3, <4>3, <4>4
      <4>. QED BY <3>3, <4>4, <4>5 DEF CoherentLine
    <3>. QED BY <2>5, <3>1, <3>2, <3>3
  <2>. QED BY <1>2, <2>7, <2>9 DEF IInv
<1>. QED BY <1>3, <1>6

LEMMA Cp0Holds ==
    ASSUME IInv, Cp0Moves, UNCHANGED cache
    PROVE  IInv'
<1>1. UNCHANGED <<tlb, cache>>
  BY DEF Cp0Moves, WriteHi, WriteIndex, Probe, ReadEntry
<1>2. TypeOK'
  BY Cp0Typed DEF IInv
<1>. QED BY <1>1, <1>2, CoherenceOfTlbAndCache DEF IInv

LEMMA WritesHold ==
    ASSUME IInv, SmallPages, NEW i \in Indices, NEW c \in Contents, Writes(i, c)
    PROVE  IInv'
<1>. DEFINE e == EntryOf(c)
<1>1. e \in Entry /\ e.size = 1
  BY DEF EntryOf, Entry, SmallPages, IInv, TypeOK, TlbTypeOK
<1>2. /\ \A j \in Indices \ {i} : ~Clash(tlb[j], e)
      /\ tlb' = [tlb EXCEPT ![i] = e]
      /\ UNCHANGED <<hi, index>> /\ last' = Nothing
      /\ cache' = Unmap(tlb[i])
  BY DEF Writes, WriteEntry
<1>3. tlb \in [Indices -> Entry] /\ tlb[i] \in Entry /\ tlb[i].size = 1
  BY DEF IInv, TypeOK, TlbTypeOK, Small
<1>. HIDE DEF e
<1>4. tlb'[i] = e /\ \A j \in Indices : j # i => tlb'[j] = tlb[j]
  BY <1>2, <1>3
<1>5. \A b \in BucketSet :
          cache'[b] # Empty =>
              /\ cache'[b] = cache[b]
              /\ tlb[i].lo0.valid => b # Bucket(2 * tlb[i].vpn2)
              /\ tlb[i].lo1.valid => b # Bucket(2 * tlb[i].vpn2 + 1)
  BY <1>2, <1>3 DEF Unmap
<1>6. TypeOK'
  BY WritesTyped DEF IInv
<1>7. Small'
  BY <1>1, <1>4 DEF IInv, Small
<1>8. Disjoint'
  <2>. SUFFICES ASSUME NEW j \in Indices, NEW k \in Indices, j # k,
                       Clash(tlb'[j], tlb'[k])
                PROVE  Silent(tlb'[j]) /\ Silent(tlb'[k])
    BY DEF Disjoint, Clash, Silent, Covers
  <2>1. CASE j = i
    BY <1>2, <1>4, <2>1 DEF Clash
  <2>2. CASE k = i
    BY <1>2, <1>4, <2>2 DEF Clash
  <2>3. CASE j # i /\ k # i
    BY <1>4, <2>3 DEF IInv, Disjoint
  <2>. QED BY <2>1, <2>2, <2>3
<1>9. CacheCoherent'
  <2>. SUFFICES ASSUME NEW b \in BucketSet, cache'[b] # Empty
                PROVE  CoherentLine(cache[b])'
    BY DEF CacheCoherent
  <2>1. PICK l \in MappedLine \cup DirectLine :
            l = cache'[b] /\ l = cache[b] /\ CoherentLine(l) /\ Bucket(l.page) = b
    BY <1>5 DEF IInv, TypeOK, CacheCoherent
  <2>2. CASE l.page \in DOMAIN Direct
    BY <2>1, <2>2 DEF CoherentLine
  <2>3. CASE l.page \notin DOMAIN Direct
    <3>1. l.page \in MappedPages /\ l.page \in Nat
      BY <2>1, <2>3 DEF MappedLine, DirectLine
    <3>2. ASSUME NEW a \in Asids, l.g \/ l.asid = a
          PROVE  /\ Hits(l.page, a)'
                 /\ Walk(l.page, a)' = [frame |-> l.frame, dirty |-> l.dirty, g |-> l.g]
      <4>1. /\ Hits(l.page, a)
            /\ Walk(l.page, a) = [frame |-> l.frame, dirty |-> l.dirty, g |-> l.g]
        BY <2>1, <2>3, <3>2 DEF CoherentLine
      <4>2. PICK j \in Indices :
                /\ Decides(j, l.page, a)
                /\ Walk(l.page, a) =
                       [frame |-> Half(tlb[j], l.page).frame + (l.page % tlb[j].size),
                        dirty |-> Half(tlb[j], l.page).dirty,
                        g |-> tlb[j].g]
        BY <3>1, <4>1, HitDecided
      <4>3. j # i
        <5>. SUFFICES ASSUME j = i PROVE FALSE
          OBVIOUS
        <5>1. Covers(tlb[i], l.page) /\ Half(tlb[i], l.page).valid
          BY <4>2 DEF Decides, Matching, Matches
        <5>2. \/ l.page = 2 * tlb[i].vpn2 /\ tlb[i].lo0.valid
              \/ l.page = 2 * tlb[i].vpn2 + 1 /\ tlb[i].lo1.valid
          BY <1>3, <3>1, <5>1, SmallCovers
        <5>. QED BY <1>5, <2>1, <5>2
      <4>4. tlb'[j] = tlb[j]
        BY <1>4, <4>3
      <4>5. Decides(j, l.page, a)'
        BY <4>2, <4>4 DEF Decides, Matching, Matches
      <4>6. /\ Hits(l.page, a)'
            /\ Walk(l.page, a)' =
                   [frame |-> Half(tlb'[j], l.page).frame + (l.page % tlb'[j].size),
                    dirty |-> Half(tlb'[j], l.page).dirty,
                    g |-> tlb'[j].g]
        BY <1>6, <1>7, <1>8, <3>1, <4>5, WalkDecidedNext
      <4>. QED BY <4>1, <4>2, <4>4, <4>6
    <3>. QED BY <2>1, <2>3, <3>2 DEF CoherentLine
  <2>. QED BY <2>2, <2>3
<1>. QED BY <1>6, <1>7, <1>8, <1>9 DEF IInv

LEMMA ResetHolds == IInv /\ Reset => IInv'
<1>. SUFFICES ASSUME IInv, Reset PROVE IInv'
  OBVIOUS
<1>2. /\ tlb' = [i \in Indices |-> BlankEntry]
      /\ cache' = [b \in BucketSet |-> Empty]
      /\ UNCHANGED <<hi, index>> /\ last' = Nothing
  BY DEF Reset, ClearTlb
<1>3. \A i \in Indices : tlb'[i] = BlankEntry
  BY <1>2
<1>4. TypeOK'
  BY ResetTyped DEF IInv
<1>5. Small' /\ Disjoint'
  BY <1>3 DEF Small, Disjoint, Silent, BlankEntry, NoLo
<1>6. CacheCoherent'
  BY <1>2 DEF CacheCoherent
<1>. QED BY <1>4, <1>5, <1>6 DEF IInv

LEMMA StutterHolds == IInv /\ UNCHANGED vars => IInv'
<1>. SUFFICES ASSUME IInv, UNCHANGED vars PROVE IInv'
  OBVIOUS
<1>1. TypeOK'
  BY TypesStep DEF IInv
<1>. QED BY <1>1, CoherenceOfTlbAndCache DEF vars, tlbVars, IInv

(* The inductive invariant: what is cached agrees with the TLB, no two     *)
(* entries that say anything match one address.                            *)
THEOREM Inductive == SmallPages => (Spec => []IInv)
<1>. SUFFICES ASSUME SmallPages PROVE Spec => []IInv
  OBVIOUS
<1>1. IInv /\ [Next]_vars => IInv'
  <2>. SUFFICES ASSUME IInv, [Next]_vars PROVE IInv'
    OBVIOUS
  <2>1. ASSUME NEW c \in Contents, WriteIndexed(c) PROVE IInv'
    BY <2>1, SlotsTyped, WritesHold DEF WriteIndexed, IInv
  <2>2. ASSUME NEW c \in Contents, WriteRandom(c) PROVE IInv'
    BY <2>2, WritesHold DEF WriteRandom
  <2>. QED BY <2>1, <2>2, AccessHolds, Cp0Holds, ResetHolds, StutterHolds DEF Next
<1>. QED BY <1>1, InitHolds, PTL DEF Spec

(* CacheCoherent: no line of mts32_cache outlives the TLB entry it came    *)
(* from, for any number of entries, buckets, pages and address spaces.     *)
THEOREM CacheStaysCoherent == SmallPages => (Spec => []CacheCoherent)
<1>. SUFFICES ASSUME SmallPages PROVE Spec => []CacheCoherent
  OBVIOUS
<1>1. IInv => CacheCoherent
  BY DEF IInv
<1>. QED BY <1>1, Inductive, PTL

(* A line that serves the current access answers as the walk would.        *)
LEMMA CachedOutcome ==
    ASSUME IInv, NEW p \in Pages, NEW op \in Ops, Cached(p, op)
    PROVE  Outcome(p, op) = To(cache[Bucket(p)].frame)
<1>. DEFINE c == cache[Bucket(p)]
<1>1. /\ c # Empty /\ c.page = p /\ Bucket(p) \in BucketSet
      /\ p \in MappedPages => (op = "write" => c.dirty)
      /\ p \in MappedPages => c.g \/ c.asid = hi.asid
  BY BucketType DEF Cached
<1>2. CoherentLine(c) /\ hi.asid \in Asids
  BY <1>1 DEF IInv, CacheCoherent, TypeOK, TlbTypeOK
<1>3. CASE p \in DOMAIN Direct
  BY <1>1, <1>2, <1>3 DEF CoherentLine, Outcome
<1>4. CASE p \notin DOMAIN Direct
  <2>1. p \in MappedPages
    BY <1>4 DEF Pages
  <2>2. /\ Hits(p, hi.asid)
        /\ Walk(p, hi.asid) = [frame |-> c.frame, dirty |-> c.dirty, g |-> c.g]
    BY <1>1, <1>2, <1>4, <2>1 DEF CoherentLine
  <2>. QED BY <1>1, <1>4, <2>1, <2>2 DEF Outcome
<1>. QED BY <1>3, <1>4

(* Abstract is a copy of Translation: its walk of the TLB is this one.     *)
LEMMA SameWalk ==
    ASSUME NEW p, NEW op
    PROVE  /\ Abstract!Outcome(p, op) = Outcome(p, op)
           /\ Abstract!Faults(p, op) <=> Faults(p, op)
           /\ \A o : Abstract!Answer(p, op, o) <=> Answer(p, op, o)
           /\ Abstract!EntryHiTakes(p) <=> EntryHiTakes(p)
           /\ \A k : Abstract!No(k) = No(k)
           /\ Abstract!tlbVars = tlbVars
           /\ Abstract!Pages = Pages /\ Abstract!Ops = Ops
<1>1. \A q, a : Abstract!Matching(q, a) = Matching(q, a)
  BY DEF Abstract!Matching, Matching, Abstract!Matches, Matches, Abstract!Covers,
         Covers, Abstract!Indices, Indices
<1>2. \A T : Abstract!Min(T) = Min(T)
  BY DEF Abstract!Min, Min
<1>3. \A e, q : Abstract!Half(e, q) = Half(e, q)
  BY DEF Abstract!Half, Half
<1>4. \A q, a : /\ Abstract!Hits(q, a) <=> Hits(q, a)
               /\ Abstract!Walk(q, a) = Walk(q, a)
  BY <1>1, <1>2, <1>3 DEF Abstract!Hits, Hits, Abstract!Walk, Walk
<1>5. Abstract!Outcome(p, op) = Outcome(p, op)
  BY <1>4 DEF Abstract!Outcome, Outcome, Abstract!To, To, Abstract!No, No
<1>6. /\ \A o : Abstract!Answer(p, op, o) <=> Answer(p, op, o)
      /\ Abstract!EntryHiTakes(p) <=> EntryHiTakes(p)
      /\ \A k : Abstract!No(k) = No(k)
      /\ Abstract!tlbVars = tlbVars
  BY DEF Abstract!Answer, Answer, Abstract!EntryHiTakes, EntryHiTakes, Abstract!No,
         No, Abstract!tlbVars, tlbVars
<1>7. Abstract!Pages = Pages /\ Abstract!Ops = Ops
  BY DEF Abstract!Pages, Pages, Abstract!Ops, Ops
<1>. QED BY <1>5, <1>6, <1>7 DEF Abstract!Faults, Faults

LEMMA AccessImplements ==
    ASSUME IInv, NEW p \in Pages, NEW op \in Ops, Access(p, op)
    PROVE  Abstract!Next
<1>1. CASE AccessCached(p, op)
  <2>1. Cached(p, op) /\ UNCHANGED tlbVars
        /\ Answer(p, op, To(cache[Bucket(p)].frame))
    BY <1>1 DEF AccessCached
  <2>2. Outcome(p, op) = To(cache[Bucket(p)].frame)
    BY <2>1, CachedOutcome
  <2>3. ~Faults(p, op)
    BY <2>2 DEF Faults, To
  <2>4. Abstract!Accesses(p, op)
    BY <2>1, <2>2, <2>3, SameWalk DEF Abstract!Accesses, tlbVars
  <2>. QED BY <2>4, SameWalk DEF Abstract!Next
<1>2. CASE AccessWalks(p, op)
  <2>1. Abstract!Accesses(p, op)
    BY <1>2, SameWalk DEF AccessWalks, Abstract!Accesses, tlbVars
  <2>. QED BY <2>1, SameWalk DEF Abstract!Next
<1>3. CASE AccessFaults(p, op)
  <2>1. Abstract!Accesses(p, op)
    BY <1>3, SameWalk DEF AccessFaults, Abstract!Accesses
  <2>. QED BY <2>1, SameWalk DEF Abstract!Next
<1>4. CASE AccessMisaligned(p, op)
  <2>1. Abstract!Misaligned(p, op)
    BY <1>4, SameWalk DEF AccessMisaligned, Abstract!Misaligned
  <2>. QED BY <2>1, SameWalk DEF Abstract!Next
<1>5. CASE DebuggerMisses(p, op)
  <2>1. Abstract!DebuggerMisses(p, op)
    BY <1>5, SameWalk
       DEF DebuggerMisses, Abstract!DebuggerMisses, tlbVars, Abstract!tlbVars
  <2>. QED BY <2>1, SameWalk DEF Abstract!Next
<1>. QED BY <1>1, <1>2, <1>3, <1>4, <1>5 DEF Access

(* The instructions on the TLB are Translation's own.                      *)
LEMMA Cp0Implements ==
    /\ Cp0Moves => Abstract!Next
    /\ \A c \in Contents, i \in Indices : Writes(i, c) => Abstract!Next
    /\ Reset => Abstract!Next
<1>1. ASSUME Cp0Moves PROVE Abstract!Next
  <2>1. CASE \E vpn2 \in Pairs, asid \in Asids : WriteHi(vpn2, asid)
    <3>1. \E vpn2 \in Pairs, asid \in Asids : Abstract!WriteHi(vpn2, asid)
      BY <2>1 DEF WriteHi, Abstract!WriteHi
    <3>. QED BY <3>1 DEF Abstract!Next, Abstract!Pairs, Pairs, Abstract!Pages, Pages
  <2>2. CASE \E i \in Indices : WriteIndex(i)
    <3>1. \E i \in Indices : Abstract!WriteIndex(i)
      BY <2>2 DEF WriteIndex, Abstract!WriteIndex
    <3>. QED BY <3>1 DEF Abstract!Next, Abstract!Indices, Indices
  <2>3. CASE Probe
    <3>1. Abstract!Probe
      BY <2>3 DEF Probe, Abstract!Probe, Abstract!Matching, Matching,
         Abstract!Matches, Matches, Abstract!Covers, Covers, Abstract!Indices,
         Indices, Abstract!Min, Min
    <3>. QED BY <3>1 DEF Abstract!Next
  <2>4. CASE ReadEntry
    <3>1. Abstract!ReadEntry
      BY <2>4 DEF ReadEntry, Abstract!ReadEntry
    <3>. QED BY <3>1 DEF Abstract!Next
  <2>. QED BY <1>1, <2>1, <2>2, <2>3, <2>4 DEF Cp0Moves
<1>2. ASSUME NEW c \in Contents, NEW i \in Indices, Writes(i, c)
      PROVE  Abstract!Next
  <2>1. Abstract!WriteEntry(i, c)
    BY <1>2 DEF Writes, WriteEntry, Abstract!WriteEntry, EntryOf, Abstract!EntryOf,
       Clash, Abstract!Clash, Covers, Abstract!Covers, Indices, Abstract!Indices
  <2>. QED BY <2>1 DEF Abstract!Next, Abstract!Indices, Indices
<1>3. ASSUME Reset PROVE Abstract!Next
  <2>1. Abstract!ClearTlb
    BY <1>3 DEF Reset, ClearTlb, Abstract!ClearTlb, BlankEntry, Abstract!BlankEntry,
       NoLo, Abstract!NoLo, Indices, Abstract!Indices
  <2>. QED BY <2>1 DEF Abstract!Next
<1>. QED BY <1>1, <1>2, <1>3

(* ImplementsTranslation: to the guest the cache does not exist.  Each     *)
(* access ends where a walk of the TLB leads, or raises the fault the walk *)
(* calls for.                                                              *)
THEOREM TranslatesAsPromised == SmallPages => (Spec => ImplementsTranslation)
<1>. SUFFICES ASSUME SmallPages PROVE Spec => ImplementsTranslation
  OBVIOUS
<1>1. Init => Abstract!Init
  BY DEF Init, Abstract!Init, TlbInit, Abstract!TlbInit, BlankEntry,
         Abstract!BlankEntry, NoLo, Abstract!NoLo, Indices, Abstract!Indices
<1>2. IInv /\ [Next]_vars => [Abstract!Next]_(Abstract!vars)
  <2>. SUFFICES ASSUME IInv, [Next]_vars
                PROVE  Abstract!Next \/ UNCHANGED Abstract!vars
    OBVIOUS
  <2>1. IndexedSlots \subseteq Indices
    BY DEF IndexedSlots, IInv, TypeOK, TlbTypeOK
  <2>2. ASSUME NEW c \in Contents, WriteIndexed(c) \/ WriteRandom(c)
        PROVE  Abstract!Next
    BY <2>1, <2>2, Cp0Implements DEF WriteIndexed, WriteRandom
  <2>3. CASE UNCHANGED vars
    BY <2>3 DEF vars, Abstract!vars, tlbVars, Abstract!tlbVars
  <2>. QED BY <2>2, <2>3, AccessImplements, Cp0Implements DEF Next
<1>. QED BY <1>1, <1>2, Inductive, PTL
         DEF Spec, ImplementsTranslation, Abstract!Spec

=============================================================================
