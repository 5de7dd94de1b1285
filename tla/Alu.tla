--------------------------------- MODULE Alu ---------------------------------
(***************************************************************************)
(* The data instructions of mips64_codetable.h on words of Width bits, as  *)
(* the code computes them: with C's unsigned arithmetic, masks and shifts. *)
(* AluMeans says what the architecture asks of the same instructions, in   *)
(* terms of integers.  Width stands for 32, Width \div 2 for the 16 bits   *)
(* of an immediate and 2^(Width \div 2) for the lui shift.                 *)
(*                                                                         *)
(* An instruction i has the fields op, rs, rt, rd, imm and sa; s is the    *)
(* register state [gpr, hi, lo, ...].                                      *)
(***************************************************************************)
EXTENDS Integers, Sequences, Bitwise

CONSTANT Width \* bits of a register: a power of two

ASSUME WidthAssumption == Width \in {4, 8, 16}

Modulus == 2^Width
Word == 0..(Modulus - 1)
Signed(x) == IF 2 * x >= Modulus THEN x - Modulus ELSE x

(* sign_extend of an immediate: (x << len) >> len.                         *)
SignExtend(imm) ==
    IF 2 * imm >= 2^(Width \div 2)
    THEN imm + Modulus - 2^(Width \div 2)
    ELSE imm

(* Two registers as one value, and back: the code's m_int64_t.             *)
Pair(hi, lo) == hi * Modulus + lo
Halves(v) ==
    LET w == v % (Modulus * Modulus)
    IN  [hi |-> w \div Modulus, lo |-> w % Modulus]

-----------------------------------------------------------------------------
(* Variant: the carry kept.                                               *)
SumWithCarry(a, b) == a + b

Sum(a, b) == (a + b) % Modulus
Difference(a, b) == (a - b) % Modulus
Conjunction(a, b) == a & b
Disjunction(a, b) == a | b
ExclusiveOr(a, b) == a ^^ b
NeitherOf(a, b) == Modulus - 1 - (a | b)
ShiftLeft(x, n) == (x * 2^n) % Modulus
ShiftRight(x, n) == x \div 2^n
(* Variant: the shift done on the unsigned value.                          *)
ShiftRightUnsigned(x, n) == x \div 2^n

ShiftRightSigned(x, n) ==
    (x \div 2^n) + (IF 2 * x >= Modulus THEN Modulus - 2^(Width - n) ELSE 0)
LessSigned(a, b) == IF Signed(a) < Signed(b) THEN 1 ELSE 0
LessUnsigned(a, b) == IF a < b THEN 1 ELSE 0
UpperHalf(imm) == (SignExtend(imm) * 2^(Width \div 2)) % Modulus
ProductLow(a, b) == (Signed(a) * Signed(b)) % Modulus

(* clz_op: the distance of the highest set bit from the top.               *)
LeadingZeros(a) ==
    IF a = 0 THEN Width
    ELSE Width - 1 - (CHOOSE n \in 0..(Width - 1) :
                          2^n <= a /\ a < 2^(n + 1))

(* div_op: C's division truncates; it traps on the host for a zero divisor *)
(* and for the one quotient that does not fit.                             *)
HostTraps(a, b) == b = 0 \/ (Signed(a) = -(Modulus \div 2) /\ Signed(b) = -1)

Magnitude(n) == IF n < 0 THEN -n ELSE n
Quotient(a, b) ==
    LET q == Magnitude(Signed(a)) \div Magnitude(Signed(b))
        r == Magnitude(Signed(a)) % Magnitude(Signed(b))
    IN  [hi |-> (IF Signed(a) < 0 THEN -r ELSE r) % Modulus,
         lo |-> (IF (Signed(a) < 0) # (Signed(b) < 0) THEN -q ELSE q)
                    % Modulus]

QuotientUnsigned(a, b, s) ==
    IF b = 0 THEN [hi |-> s.hi, lo |-> s.lo]
    ELSE [hi |-> a % b, lo |-> a \div b]

SignedProduct(a, b) == Halves(Signed(a) * Signed(b))
UnsignedProduct(a, b) == Halves(a * b)
AddSigned(a, b, s) == Halves(Signed(a) * Signed(b) + Pair(s.hi, s.lo))
AddUnsigned(a, b, s) == Halves(a * b + Pair(s.hi, s.lo))
SubtractSigned(a, b, s) == Halves(Pair(s.hi, s.lo) - Signed(a) * Signed(b))
SubtractUnsigned(a, b, s) == Halves(Pair(s.hi, s.lo) - a * b)
ToHiLo(i, a, s) ==
    IF i.op = "mthi" THEN [hi |-> a, lo |-> s.lo] ELSE [hi |-> s.hi, lo |-> a]

-----------------------------------------------------------------------------
HiLoOps == {"mult", "multu", "madd", "maddu", "msub", "msubu", "div", "divu",
            "mthi", "mtlo"}
ImmediateOps == {"addi", "addiu", "slti", "sltiu", "andi", "ori", "xori", "lui"}
RegisterOps == {"add", "addu", "sub", "subu", "and", "or", "xor", "nor", "slt",
                "sltu", "sll", "srl", "sra", "sllv", "srlv", "srav", "mul",
                "clz", "mfhi", "mflo", "movz", "movn"}
AluOps == HiLoOps \cup ImmediateOps \cup RegisterOps

HiLo(i, s) ==
    LET a == s.gpr[i.rs]
        b == s.gpr[i.rt]
    IN  CASE i.op = "mult"  -> SignedProduct(a, b)
          [] i.op = "multu" -> UnsignedProduct(a, b)
          [] i.op = "madd"  -> AddSigned(a, b, s)
          [] i.op = "maddu" -> AddUnsigned(a, b, s)
          [] i.op = "msub"  -> SubtractSigned(a, b, s)
          [] i.op = "msubu" -> SubtractUnsigned(a, b, s)
          [] i.op = "div"   -> Quotient(a, b)
          [] i.op = "divu"  -> QuotientUnsigned(a, b, s)
          [] OTHER          -> ToHiLo(i, a, s)

(* movz and movn may leave rd alone; mfhi and mflo do for rd = 0.          *)
Moved(i, s) ==
    CASE i.op = "movz" -> IF s.gpr[i.rt] = 0 THEN s.gpr[i.rs] ELSE s.gpr[i.rd]
      [] i.op = "movn" -> IF s.gpr[i.rt] # 0 THEN s.gpr[i.rs] ELSE s.gpr[i.rd]
FromHiLo(i, s) ==
    CASE i.rd = 0 -> s.gpr[0]
      [] i.op = "mfhi" -> s.hi
      [] OTHER -> s.lo

Immediate(i, a) ==
    LET x == SignExtend(i.imm)
    IN  CASE i.op \in {"addi", "addiu"} -> Sum(a, x)
          [] i.op = "slti"  -> LessSigned(a, x)
          [] i.op = "sltiu" -> LessUnsigned(a, x)
          [] i.op = "andi"  -> Conjunction(a, i.imm)
          [] i.op = "ori"   -> Disjunction(a, i.imm)
          [] i.op = "xori"  -> ExclusiveOr(a, i.imm)
          [] i.op = "lui"   -> UpperHalf(i.imm)

Result(i, s) ==
    LET a == s.gpr[i.rs]
        b == s.gpr[i.rt]
        n == a % Width
    IN  CASE i.op \in {"add", "addu"} -> Sum(a, b)
          [] i.op \in {"sub", "subu"} -> Difference(a, b)
          [] i.op = "and"  -> Conjunction(a, b)
          [] i.op = "or"   -> Disjunction(a, b)
          [] i.op = "xor"  -> ExclusiveOr(a, b)
          [] i.op = "nor"  -> NeitherOf(a, b)
          [] i.op = "slt"  -> LessSigned(a, b)
          [] i.op = "sltu" -> LessUnsigned(a, b)
          [] i.op = "sll"  -> ShiftLeft(b, i.sa)
          [] i.op = "srl"  -> ShiftRight(b, i.sa)
          [] i.op = "sra"  -> ShiftRightSigned(b, i.sa)
          [] i.op = "sllv" -> ShiftLeft(b, n)
          [] i.op = "srlv" -> ShiftRight(b, n)
          [] i.op = "srav" -> ShiftRightSigned(b, n)
          [] i.op = "mul"  -> ProductLow(a, b)
          [] i.op = "clz"  -> LeadingZeros(a)
          [] i.op \in {"movz", "movn"} -> Moved(i, s)
          [] OTHER -> FromHiLo(i, s)

(* The handler's effect on the registers.  Register 0 is written like any  *)
(* other: the main loop clears it before it looks at it again.             *)
Computed(i, s) ==
    CASE i.op \in HiLoOps ->
            [s EXCEPT !.hi = HiLo(i, s).hi, !.lo = HiLo(i, s).lo]
      [] i.op \in ImmediateOps ->
            [s EXCEPT !.gpr[i.rt] = Immediate(i, s.gpr[i.rs])]
      [] i.op \in RegisterOps ->
            [s EXCEPT !.gpr[i.rd] = Result(i, s)]

-----------------------------------------------------------------------------
(* What the architecture says.  r is the value of the written register.    *)
Bit(x, n) == (x \div 2^n) % 2
SameModulo(m, x, y) == (x - y) % m = 0
Wide(s) == Signed(s.hi) * Modulus + s.lo

BitwiseMeans(op, a, b, r) ==
    \A n \in 0..(Width - 1) :
        LET x == Bit(a, n)  y == Bit(b, n)
        IN  Bit(r, n) = CASE op = "and" -> x * y
                          [] op = "or"  -> x + y - x * y
                          [] op = "xor" -> (x + y) % 2
                          [] op = "nor" -> (1 - x) * (1 - y)

ShiftMeans(op, x, n, r) ==
    CASE op = "sll" -> \A k \in 0..(Width - 1) :
                           Bit(r, k) = IF k < n THEN 0 ELSE Bit(x, k - n)
      [] op = "srl" -> \A k \in 0..(Width - 1) :
                           Bit(r, k) = IF k + n < Width THEN Bit(x, k + n)
                                       ELSE 0
      [] op = "sra" -> Signed(r) = Signed(x) \div 2^n

DivisionMeans(n, d, q, r) ==
    /\ n = q * d + r
    /\ Magnitude(r) < Magnitude(d)
    /\ r # 0 => (r < 0) = (n < 0)

(* t is the state after i, from s.                                         *)
AluMeans(i, s, t) ==
    LET a == s.gpr[i.rs]
        b == s.gpr[i.rt]
        r == t.gpr[IF i.op \in ImmediateOps THEN i.rt ELSE i.rd]
        x == IF 2 * i.imm >= 2^(Width \div 2)
             THEN i.imm - 2^(Width \div 2) ELSE i.imm
        n == i.sa
        long == Modulus * Modulus
    IN  CASE i.op \in {"add", "addu"} ->
                SameModulo(Modulus, Signed(r), Signed(a) + Signed(b))
          [] i.op \in {"sub", "subu"} ->
                SameModulo(Modulus, Signed(r), Signed(a) - Signed(b))
          [] i.op \in {"addi", "addiu"} ->
                SameModulo(Modulus, Signed(r), Signed(a) + x)
          [] i.op \in {"and", "or", "xor", "nor"} -> BitwiseMeans(i.op, a, b, r)
          [] i.op = "andi" -> BitwiseMeans("and", a, i.imm, r)
          [] i.op = "ori"  -> BitwiseMeans("or", a, i.imm, r)
          [] i.op = "xori" -> BitwiseMeans("xor", a, i.imm, r)
          [] i.op \in {"sll", "srl", "sra"} -> ShiftMeans(i.op, b, n, r)
          [] i.op = "sllv" -> ShiftMeans("sll", b, a % Width, r)
          [] i.op = "srlv" -> ShiftMeans("srl", b, a % Width, r)
          [] i.op = "srav" -> ShiftMeans("sra", b, a % Width, r)
          [] i.op = "slt"   -> (r = 1) = (Signed(a) < Signed(b)) /\ r \in {0, 1}
          [] i.op = "slti"  -> (r = 1) = (Signed(a) < x) /\ r \in {0, 1}
          [] i.op = "sltu"  -> (r = 1) = (a < b) /\ r \in {0, 1}
          [] i.op = "sltiu" -> (r = 1) = (a < x % Modulus) /\ r \in {0, 1}
          [] i.op = "lui"   -> /\ r % 2^(Width \div 2) = 0
                               /\ r \div 2^(Width \div 2) = i.imm
          [] i.op = "mul"   -> SameModulo(Modulus, r, a * b)
          [] i.op = "clz"   -> /\ a < 2^(Width - r)
                               /\ r < Width => a >= 2^(Width - r - 1)
          [] i.op = "movz"  -> r = IF b = 0 THEN a ELSE s.gpr[i.rd]
          [] i.op = "movn"  -> r = IF b = 0 THEN s.gpr[i.rd] ELSE a
          [] i.op = "mfhi"  -> i.rd # 0 => r = s.hi
          [] i.op = "mflo"  -> i.rd # 0 => r = s.lo
          [] i.op = "mthi"  -> t.hi = a /\ t.lo = s.lo
          [] i.op = "mtlo"  -> t.lo = a /\ t.hi = s.hi
          [] i.op = "mult"  -> Wide(t) = Signed(a) * Signed(b)
          [] i.op = "multu" -> Pair(t.hi, t.lo) = a * b
          [] i.op = "madd"  ->
                SameModulo(long, Wide(t), Wide(s) + Signed(a) * Signed(b))
          [] i.op = "maddu" -> SameModulo(long, Wide(t), Wide(s) + a * b)
          [] i.op = "msub"  ->
                SameModulo(long, Wide(t), Wide(s) - Signed(a) * Signed(b))
          [] i.op = "msubu" -> SameModulo(long, Wide(t), Wide(s) - a * b)
          [] i.op = "div"   -> DivisionMeans(Signed(a), Signed(b),
                                             Signed(t.lo), Signed(t.hi))
          [] i.op = "divu"  -> b # 0 => DivisionMeans(a, b, t.lo, t.hi)
=============================================================================
