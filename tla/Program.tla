------------------------------- MODULE Program -------------------------------
(***************************************************************************)
(* A guest program and what its instructions do when nothing interferes:   *)
(* the branches and jumps of mips64_codetable.h over the data instructions *)
(* of Alu and the accesses of MemOps.                                      *)
(*                                                                         *)
(* A program is a sequence of instruction words, [major, func, low, rs,    *)
(* rt, rd, sa, imm, index], from address 0.                                *)
(***************************************************************************)
EXTENDS Decode, MemOps

CONSTANTS
    RA,      \* MIPS_GPR_RA
    Programs \* the programs the guest may run

Insn(text, a) ==
    LET w == text[a \div 4 + 1]
    IN  [op |-> Op(w), rs |-> w.rs, rt |-> w.rt, rd |-> w.rd, sa |-> w.sa,
         imm |-> w.imm, index |-> w.index]
Within(text, a) == a \div 4 + 1 \in DOMAIN text

-----------------------------------------------------------------------------
(* The tests of the conditional branches: one for the plain, linking and   *)
(* likely forms of each.                                                   *)
IfEqual(i, s) == i.op \in {"beq", "beql"} /\ s.gpr[i.rs] = s.gpr[i.rt]
IfNotEqual(i, s) == i.op \in {"bne", "bnel"} /\ s.gpr[i.rs] # s.gpr[i.rt]
IfNotNegative(i, s) ==
    i.op \in {"bgez", "bgezl", "bgezal", "bgezall"} /\ Signed(s.gpr[i.rs]) >= 0
IfPositive(i, s) == i.op \in {"bgtz", "bgtzl"} /\ Signed(s.gpr[i.rs]) > 0
IfNotPositive(i, s) == i.op \in {"blez", "blezl"} /\ Signed(s.gpr[i.rs]) <= 0
IfNegative(i, s) ==
    i.op \in {"bltz", "bltzl", "bltzal", "bltzall"} /\ Signed(s.gpr[i.rs]) < 0

Jumps == {"j", "jal", "jr", "jalr"}
Likely == {"beql", "bnel", "bgezl", "bgezall", "bgtzl", "blezl", "bltzl",
           "bltzall"}
Branches == Jumps \cup Likely \cup
    {"beq", "bne", "bgez", "bgezal", "bgtz", "blez", "bltz", "bltzal"}

Taken(i, s) ==
    \/ i.op \in Jumps
    \/ IfEqual(i, s) \/ IfNotEqual(i, s)
    \/ IfNotNegative(i, s) \/ IfPositive(i, s)
    \/ IfNotPositive(i, s) \/ IfNegative(i, s)

(* The return address, written before the slot runs.                       *)
LinkRegister(i) ==
    CASE i.op \in {"jal", "bgezal", "bgezall", "bltzal", "bltzall"} -> {RA}
      [] i.op = "jalr" -> {i.rd}
      [] OTHER -> {}
WithLink(i, s, pc) ==
    [s EXCEPT !.gpr = [r \in DOMAIN s.gpr |->
        IF r \in LinkRegister(i) THEN (pc + 8) % Modulus ELSE s.gpr[r]]]

(* Where a jump goes, read from the registers after the link.              *)
JumpTarget(i, s) ==
    IF i.op \in {"j", "jal"} THEN (4 * i.index) % Modulus ELSE s.gpr[i.rs]
Target(i, s, pc) ==
    IF i.op \in Jumps THEN JumpTarget(i, s)
    ELSE (pc + 4 + SignExtend(i.imm) * 4) % Modulus

-----------------------------------------------------------------------------
(* The traps: teq, teqi and tne.                                           *)
TrapHolds(i, s) ==
    \/ i.op = "teq" /\ s.gpr[i.rs] = s.gpr[i.rt]
    \/ i.op = "teqi" /\ s.gpr[i.rs] = SignExtend(i.imm)
TrapIfNotEqual(i, s) == i.op = "tne" /\ s.gpr[i.rs] # s.gpr[i.rt]

(* An instruction that is not a branch, when it raises nothing.            *)
Effect(i, s) ==
    CASE i.op \in AluOps -> Computed(i, s)
      [] i.op \in Loads \cup Stores -> Accessed(i, s)
      [] i.op = "cache" -> [s EXCEPT !.ll = FALSE]
      [] OTHER -> s

(* The main loop clears register 0 before every instruction.               *)
ZeroCleared(s) == [s EXCEPT !.gpr[0] = 0]
=============================================================================
