-------------------------------- MODULE Arch --------------------------------
(***************************************************************************)
(* The promise to the guest's program: it runs as if there were neither    *)
(* interrupts nor page faults.  One instruction at a time, a branch with   *)
(* its delay slot; two liberties only.  A branch that links may write the  *)
(* link register once before it is executed (its slot faulted and it runs  *)
(* again), and a store conditional may be refused at any time.             *)
(*                                                                         *)
(* Memory also changes by Others: another thread of the guest.             *)
(***************************************************************************)
EXTENDS Program

VARIABLES
    text, \* the program
    pc,
    core, \* [gpr, hi, lo, ll, mem, dev]; the link bit is not shown
    done  \* TRUE once an instruction outside the implemented set was met

archVars == <<text, pc, core, done>>

Shown(s) == [ZeroCleared(s) EXCEPT !.ll = FALSE]

CONSTANT Counter \* the address of the word Others increments
Incremented(s) == Put(s, Counter, 4, (WordAt(s, Counter) + 1) % Modulus)

Results(i, s) ==
    IF i.op = "sc"
    THEN {Shown(Effect(i, [s EXCEPT !.ll = b])) : b \in BOOLEAN}
    ELSE {Shown(Effect(i, s))}

(* Outside the promise: an instruction nobody implements, a division whose *)
(* result the architecture leaves open, and a misaligned access.           *)
Refused(i, s) ==
    \/ i.op \in Exits
    \/ i.op = "div" /\ HostTraps(s.gpr[i.rs], s.gpr[i.rt])
    \/ i.op \in Loads \cup Stores /\ Misaligned(i, s)

Init == text \in Programs /\ pc = 0 /\ done = FALSE

Steps ==
    LET i == Insn(text, pc)
    IN  /\ ~done /\ Within(text, pc)
        /\ i.op \notin Branches /\ ~Refused(i, core)
        /\ core' \in Results(i, core)
        /\ pc' = (pc + 4) % Modulus
        /\ UNCHANGED <<text, done>>

Leaps ==
    LET i == Insn(text, pc)
        s == WithLink(i, core, pc)
        t == Taken(i, core)
    IN  /\ ~done /\ Within(text, pc)
        /\ i.op \in Branches
        /\ IF t \/ i.op \notin Likely
           THEN /\ ~Refused(Insn(text, pc + 4), s)
                /\ core' \in Results(Insn(text, pc + 4), Shown(s))
           ELSE core' = Shown(s)
        /\ pc' = IF t THEN Target(i, core, pc) ELSE (pc + 8) % Modulus
        /\ UNCHANGED <<text, done>>

LinksEarly ==
    LET i == Insn(text, pc)
    IN  /\ ~done /\ Within(text, pc)
        /\ i.op \in Branches
        /\ core' = Shown(WithLink(i, core, pc))
        /\ UNCHANGED <<text, pc, done>>

Others == core' = Incremented(core) /\ UNCHANGED <<text, pc, done>>

Stops ==
    LET i == Insn(text, pc)
        s == Shown(WithLink(i, core, pc))
    IN  /\ ~done /\ Within(text, pc)
        /\ done' = TRUE
        /\ \/ Refused(i, core)
           \/ i.op \in Branches /\ Refused(Insn(text, pc + 4), s)
        /\ core' \in {core, s}
        /\ UNCHANGED <<text, pc>>

Next == Steps \/ Leaps \/ LinksEarly \/ Others \/ Stops

Spec == Init /\ [][Next]_archVars
=============================================================================
