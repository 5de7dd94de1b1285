----------------------------- MODULE MCProcessor -----------------------------
(***************************************************************************)
(* Guest programs for Interp: words of 8 bits, pages of four instructions, *)
(* 16 bytes of memory at 128 and a device at 144.                          *)
(***************************************************************************)
EXTENDS Interp

(* Instruction words, by the fields their handlers read.                   *)
W(major, func, low) == [major |-> major, func |-> func, low |-> low, rs |-> 0,
                        rt |-> 0, rd |-> 0, sa |-> 0, imm |-> 0, index |-> 0]
R(func, rs, rt, rd) ==
    [W(0, func, 0) EXCEPT !.rs = rs, !.rt = rt, !.rd = rd]
S(func, rt, rd, sa) == [R(func, 0, rt, rd) EXCEPT !.sa = sa]
M(func, rs, rt, rd) == [R(func, rs, rt, rd) EXCEPT !.major = 28]
I(major, rs, rt, imm) ==
    [W(major, 0, 0) EXCEPT !.rs = rs, !.rt = rt, !.imm = imm]
Z(func, rs, imm) == [W(1, func, 0) EXCEPT !.rs = rs, !.imm = imm]
J(major, index) == [W(major, 0, 0) EXCEPT !.index = index]
Nop == S(0, 0, 0, 0)
Base == I(15, 0, 3, 8) \* lui r3, 8: the memory's address
Addi(rs, rt, n) == I(9, rs, rt, n % 16)

(* Branch to itself: where a program ends.                                 *)
End == <<I(4, 0, 0, 15), Nop>>

Bytes == [b \in MemBytes |-> IF b < 132 THEN 0 ELSE (3 * b + b \div 4) % 4]
Blank == [gpr |-> [r \in 0..RA |-> 0], hi |-> 0, lo |-> 0, ll |-> FALSE,
          mem |-> Bytes, dev |-> 141]
With(a, b, c) == [Blank EXCEPT !.gpr[1] = a, !.gpr[2] = b, !.gpr[3] = c]
AllPages == {0, 1, 2, 3, 8, 9}
Run(t, c, p, n) == [text |-> t, core |-> c, present |-> p, credit |-> n]

(* One data instruction on chosen operands.                                *)
Operands == {0, 1, 127, 128, 254, 255}
Alone(i, c) == Run(<<i>> \o End, c, AllPages, 0)
RegisterCode(f, m) == {R(f, 1, 2, 3), R(f, 1, 2, 0)} \cup
                      (IF m THEN {R(f, 1, 1, 1)} ELSE {})
SpecData == {10, 11, 4, 6, 7, 16, 18, 26, 27, 24, 25, 17, 19} \cup (32..39)
                \cup {42, 43}
DataWords ==
    UNION {RegisterCode(f, TRUE) : f \in SpecData}
    \cup {S(f, 2, 3, n) : f \in {0, 2, 3}, n \in {0, 3, 7}}
    \cup {I(f, 1, 2, n) : f \in 8..15, n \in {0, 1, 7, 8, 15}}
    \cup {M(f, 1, 2, 3) : f \in {2, 32}}
AccumulatorWords == {M(f, 1, 2, 0) : f \in {0, 1, 4, 5}}
DataStarts ==
    {Alone(i, With(a, b, 77)) : i \in DataWords, a \in Operands, b \in Operands}
    \cup {Alone(i, [With(a, b, 0) EXCEPT !.hi = h[1], !.lo = h[2]]) :
              i \in AccumulatorWords, a \in Operands, b \in Operands,
              h \in {<<0, 0>>, <<255, 255>>, <<127, 255>>, <<128, 3>>}}

(* One access, at each distance from the base; r1 is what a store stores.  *)
AccessWords ==
    {I(f, 3, 1, n) : f \in (32..39) \cup {40, 41, 42, 43, 46}, n \in 0..7}
AccessStarts ==
    {Run(<<i>> \o End, [With(201, 0, 132) EXCEPT !.ll = TRUE], p, 0) :
         i \in AccessWords, p \in {AllPages, AllPages \ {8}}}
    \cup {Run(<<i>> \o End, With(201, 0, 144), AllPages, 0) :
              i \in {j \in AccessWords : j.imm \in {0, 1}}}

(* A call and a loop: slots that store, load and lie on the next page.     *)
Calls == <<
    Base,               \*  0
    Addi(0, 1, 2),      \*  4
    J(3, 9),            \*  8 jal 36
    I(43, 3, 1, 0),     \* 12   sw r1, 0(r3)
    I(7, 1, 0, 13),     \* 16 bgtz r1, 8
    Addi(1, 1, -1),     \* 20
    I(4, 0, 0, 15),     \* 24 end
    Nop,                \* 28
    Nop,                \* 32
    I(35, 3, 2, 0),     \* 36 lw r2, 0(r3)
    I(20, 1, 2, 1),     \* 40 beql r1, r2, 48
    Nop,                \* 44
    R(8, RA, 0, 0),     \* 48 jr ra
    W(17, 0, 0)>>       \* 52   cop1, in the slot

(* Every conditional branch, both ways, with a load in its slot.  The slot *)
(* of a likely branch that does not heed it cannot fault.                  *)
Slotted(i, slot) == <<i, slot, Addi(2, 2, 1)>> \o End
PlainBranches == {I(4, 1, 2, 2), I(5, 1, 2, 2), I(6, 1, 0, 2), I(7, 1, 0, 2),
                  Z(0, 1, 2), Z(1, 1, 2), Z(16, 1, 2), Z(17, 1, 2),
                  I(20, 1, 2, 2), R(9, 1, 0, RA), J(2, 3)}
HeedlessBranches == {I(21, 1, 2, 2), I(22, 1, 0, 2), I(23, 1, 0, 2),
                     Z(2, 1, 2), Z(3, 1, 2), Z(18, 1, 2), Z(19, 1, 2)}
BranchStarts ==
    {Run(Slotted(i, I(35, 3, 2, 0)), With(a, 12, 132), p, 1) :
         i \in PlainBranches, a \in {0, 12, 200}, p \in {AllPages, {0, 1}}}
    \cup {Run(Slotted(i, Addi(2, 2, 3)), With(a, 12, 132), AllPages, 1) :
              i \in HeedlessBranches, a \in {0, 12, 200}}
LikelyStarts ==
    {Run(Slotted(i, I(35, 3, 2, 0)), With(a, 12, 132), AllPages \ {8}, 0) :
         i \in HeedlessBranches, a \in {0, 12, 200}}

(* Calls, traps, the coprocessor, an unknown instruction, a misaligned     *)
(* access, and a division in the host, each alone and in a slot.           *)
Odd == {W(0, 12, 0), W(0, 13, 0), R(52, 0, 0, 0), Z(12, 0, 0), R(54, 1, 0, 0),
        W(17, 0, 0), W(53, 0, 0), W(0, 44, 0), I(33, 3, 1, 1), R(26, 1, 0, 0),
        I(47, 3, 0, 0), W(51, 0, 0), [W(16, 16, 32) EXCEPT !.rs = 0]}
OddStarts ==
    {Run(<<i>> \o End, With(1, 2, 132), AllPages, 1) : i \in Odd}
    \cup {Run(Slotted(Z(17, 2, 2), i), With(1, 2, 132), AllPages, 1) :
              i \in Odd \ {W(0, 13, 0), R(52, 0, 0, 0), Z(12, 0, 0),
                           R(54, 1, 0, 0)}}

(* ll, addiu, sc, and again if it was refused.                             *)
Increment == <<Base, I(48, 3, 1, 0), Addi(1, 1, 1), I(56, 3, 1, 0),
               I(4, 1, 0, 12), Nop>> \o End

McStarts ==
    DataStarts \cup AccessStarts \cup BranchStarts \cup OddStarts
    \cup {Run(Calls, Blank, p, 2) : p \in {{0}, AllPages}}
    \cup {Run(Increment, Blank, AllPages, 3), Run(End, Blank, {}, 0)}
McPrograms == {s.text : s \in McStarts}
McLikelyPrograms == {s.text : s \in LikelyStarts}

(* The guest's atomic increment: once it is through, the word holds every  *)
(* increment, its own and the other thread's.  The link bit must not       *)
(* survive the ERET of the switch between them.                            *)
NoLostUpdate ==
    (text = Increment /\ pc = 24 /\ ~exl) => WordAt(core, Counter) = 1 + others
=============================================================================
