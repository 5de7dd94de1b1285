-------------------------------- MODULE MCMmu --------------------------------
(***************************************************************************)
(* The two caches on the way to the guest's memory, for TLC: Mmu with two  *)
(* TLB entries, where pages of two pairs and a page of kseg0 share a       *)
(* bucket, and Fetch with the pages of the vector and of reset, another    *)
(* one of the kernel and two of a program.  Fetch sees of the MMU only     *)
(* what a lookup answers, so a behaviour is of the one that focus names.   *)
(***************************************************************************)
EXTENDS Mmu, Fetch

CONSTANTS v, r, k, u1, u2, f1, f2

RamLo(f, d) == [frame |-> f, dirty |-> d, valid |-> TRUE]
Small(g, lo0, lo1) == [size |-> 1, g |-> g, lo0 |-> lo0, lo1 |-> lo1]

MCPages == 0..2
MCDirect == [p \in {4} |-> 9]
MCAsids == {0, 1}
MCDevices == {20}
MCContents == {Small(FALSE, RamLo(10, TRUE), NoLo),
               Small(TRUE, RamLo(11, FALSE), RamLo(20, TRUE))}

(* A 16K page of RAM.                                                      *)
MCLargeContents == {Small(FALSE, NoLo, NoLo),
                    [size |-> 4, g |-> FALSE, lo0 |-> RamLo(12, TRUE), lo1 |-> NoLo]}

MCKernel == {v, r, k}
MCUser == {u1, u2}
MCFollows == [p \in {v, r, k, u1, u2} |->
                IF p = r THEN k ELSE IF p = u1 THEN u2 ELSE p]
MCFrames == {f1, f2}
MCKernelText == {k}

-----------------------------------------------------------------------------
VARIABLE focus
mcVars == <<focus, vars, fetchVars>>

Accessing == focus = "mmu" /\ Next /\ UNCHANGED <<focus, fetchVars>>
Fetching(A) == focus = "fetch" /\ A /\ UNCHANGED <<focus, vars>>

MCInit == focus \in {"mmu", "fetch"} /\ Init /\ FetchInit
MCNext == Accessing \/ Fetching(FetchNext)
MCSpec == /\ MCInit /\ [][MCNext]_mcVars
          /\ WF_mcVars(Fetching(Fetches)) /\ WF_mcVars(Fetching(Executes))

(* A fetch that fails leads to the fetch of its exception's handler.       *)
FetchesOn == focus = "fetch" => FetchProgress

=============================================================================
