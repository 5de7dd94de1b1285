------------------------------- MODULE MemOps -------------------------------
(***************************************************************************)
(* The loads and stores of mips64_memory.c, with the words of Alu cut into *)
(* four bytes, the lowest address holding the lowest byte.  s is the state *)
(* [gpr, hi, lo, ll, mem, dev]: registers, ll_bit, memory by bytes, and    *)
(* the one register of a device, on a page of its own.                     *)
(*                                                                         *)
(* An access finds either a host pointer or, on a device's page, a value   *)
(* the device has set (has_set_value).  The doubleword accesses have no    *)
(* instruction that reaches them.                                          *)
(***************************************************************************)
EXTENDS Alu

CONSTANTS
    PageBytes, \* bytes of a page
    MemPages,  \* the pages memory stands behind
    DevicePage \* the page the device stands behind

ByteBits == Width \div 4
ByteBase == 2^ByteBits
Byte == 0..(ByteBase - 1)
PageOf(a) == a \div PageBytes
MemBytes == {a \in Word : PageOf(a) \in MemPages}

ASSUME MemOpsAssumption ==
    /\ PageBytes \in Nat /\ PageBytes % 4 = 0 /\ PageBytes > 0
    /\ DevicePage \notin MemPages

Loads == {"lb", "lbu", "lh", "lhu", "lw", "lwu", "lwl", "lwr", "ll"}
PlainStores == {"sb", "sh", "sw", "swl", "swr"}
Stores == PlainStores \cup {"sc"}
Halves16 == {"lh", "lhu", "sh"}
Words32 == {"lw", "lwu", "ll", "sw", "sc"}
Merging == {"lwl", "lwr", "swl", "swr"}

(* mips64_exec_memop2.                                                     *)
Address(i, s) == (s.gpr[i.rs] + SignExtend(i.imm)) % Modulus
KeepsLink(op) == op \notin PlainStores \cup {"cache"}

(* The address an access is made at: the word's, for the merging ones.     *)
Touched(i, s) ==
    LET a == Address(i, s) IN IF i.op \in Merging THEN a - (a % 4) ELSE a
OnDevice(i, s) == PageOf(Touched(i, s)) = DevicePage

-----------------------------------------------------------------------------
(* The exception of an access, or "none".  SC without the link makes none. *)
Misaligned(i, s) ==
    \/ i.op \in Halves16 /\ Touched(i, s) % 2 # 0
    \/ i.op \in Words32 /\ Touched(i, s) % 4 # 0

AccessRaises(i, s, present) ==
    IF i.op = "sc" /\ ~s.ll THEN "none"
    ELSE LET read == i.op \in Loads
         IN  CASE Misaligned(i, s) -> IF read THEN "AdEL" ELSE "AdES"
               [] PageOf(Touched(i, s)) \notin present ->
                      IF read THEN "TLBL" ELSE "TLBS"
               [] OTHER -> "none"

-----------------------------------------------------------------------------
(* Little-endian values in memory.                                         *)
Part(x, n) == (x \div ByteBase^n) % ByteBase
Low(x, n) == x % ByteBase^n
ByteAt(s, a) == s.mem[a]
HalfAt(s, a) == s.mem[a] + s.mem[a + 1] * ByteBase
WordAt(s, a) == HalfAt(s, a) + HalfAt(s, a + 2) * ByteBase^2

SignFrom(x, bytes) ==
    IF 2 * x >= ByteBase^bytes THEN x + Modulus - ByteBase^bytes ELSE x

(* What a load reads: the device's register is read as it is.              *)
ByteRead(i, s) == IF OnDevice(i, s) THEN Low(s.dev, 1) ELSE ByteAt(s, Address(i, s))
HalfRead(i, s) == IF OnDevice(i, s) THEN Low(s.dev, 2) ELSE HalfAt(s, Address(i, s))
WordRead(i, s) == IF OnDevice(i, s) THEN s.dev ELSE WordAt(s, Address(i, s))

LoadByte(i, s) ==
    IF i.op = "lb" THEN SignFrom(ByteRead(i, s), 1) ELSE ByteRead(i, s)
LoadHalf(i, s) ==
    IF i.op = "lh" THEN SignFrom(HalfRead(i, s), 2) ELSE HalfRead(i, s)
LoadWord(i, s) == WordRead(i, s)
LoadLinked(i, s) == WordRead(i, s)

(* Variant: the mask keeps one byte too many of the register.              *)
LoadRightNarrow(i, s) ==
    LET k == Address(i, s) % 4
        w == WordAt(s, Touched(i, s))
        r == s.gpr[i.rt]
    IN  (r - Low(r, 3 - k)) + Low(w \div ByteBase^k, 3 - k)

(* The masks and shifts of LWL and LWR, by the address's two low bits; a   *)
(* device's value is dropped.                                              *)
LoadLeft(i, s) ==
    LET k == Address(i, s) % 4
        w == WordAt(s, Touched(i, s))
        r == s.gpr[i.rt]
    IN  IF OnDevice(i, s) THEN r
        ELSE Low(r, 3 - k) + Low(w, k + 1) * ByteBase^(3 - k)
LoadRight(i, s) ==
    LET k == Address(i, s) % 4
        w == WordAt(s, Touched(i, s))
        r == s.gpr[i.rt]
    IN  IF OnDevice(i, s) THEN r
        ELSE (r - Low(r, 4 - k)) + w \div ByteBase^k

Loaded(i, s) ==
    CASE i.op \in {"lb", "lbu"} -> LoadByte(i, s)
      [] i.op \in {"lh", "lhu"} -> LoadHalf(i, s)
      [] i.op \in {"lw", "lwu"} -> LoadWord(i, s)
      [] i.op = "ll"  -> LoadLinked(i, s)
      [] i.op = "lwl" -> LoadLeft(i, s)
      [] i.op = "lwr" -> LoadRight(i, s)

-----------------------------------------------------------------------------
(* A host store of the n low bytes of x at a.                              *)
Put(s, a, n, x) ==
    [s EXCEPT !.mem = [b \in DOMAIN s.mem |->
        IF b \in a..(a + n - 1) THEN Part(x, b - a) ELSE s.mem[b]]]

StoreByte(i, s) == Put(s, Address(i, s), 1, s.gpr[i.rt])
StoreHalf(i, s) == Put(s, Address(i, s), 2, s.gpr[i.rt])
StoreWord(i, s) == Put(s, Address(i, s), 4, s.gpr[i.rt])

(* SWL and SWR read the word, merge, and write it back.                    *)
StoreLeft(i, s) ==
    LET a == Touched(i, s)
        k == Address(i, s) % 4
        w == WordAt(s, a)
    IN  Put(s, a, 4, (w - Low(w, k + 1)) + s.gpr[i.rt] \div ByteBase^(3 - k))
StoreRight(i, s) ==
    LET a == Touched(i, s)
        k == Address(i, s) % 4
    IN  Put(s, a, 4, Low(WordAt(s, a), k)
                         + Low(s.gpr[i.rt], 4 - k) * ByteBase^k)

(* A device takes the whole register, whatever part of it is stored; bytes *)
(* and halves are masked before they are offered.                          *)
StoreDevice(i, s) ==
    [s EXCEPT !.dev = CASE i.op = "sb" -> Low(s.gpr[i.rt], 1)
                        [] i.op = "sh" -> Low(s.gpr[i.rt], 2)
                        [] OTHER -> s.gpr[i.rt]]

Stored(i, s) ==
    CASE OnDevice(i, s) -> StoreDevice(i, s)
      [] i.op = "sb"  -> StoreByte(i, s)
      [] i.op = "sh"  -> StoreHalf(i, s)
      [] i.op = "swl" -> StoreLeft(i, s)
      [] i.op = "swr" -> StoreRight(i, s)
      [] OTHER -> StoreWord(i, s)

(* SC: the store if the link holds, and the link, which stays, as result.  *)
StoredConditional(i, s) ==
    LET t == IF s.ll THEN Stored(i, s) ELSE s
    IN  [t EXCEPT !.gpr[i.rt] = IF s.ll THEN 1 ELSE 0]

(* The whole of a load or a store that raises nothing.                     *)
Accessed(i, s) ==
    CASE i.op = "sc" -> StoredConditional(i, s)
      [] i.op \in Loads ->
            [s EXCEPT !.gpr[i.rt] = Loaded(i, s), !.ll = @ \/ i.op = "ll"]
      [] OTHER -> [Stored(i, s) EXCEPT !.ll = FALSE]

(* What is left of one that raises: memop2 clears the link first.          *)
AccessFailed(i, s) == [s EXCEPT !.ll = @ /\ KeepsLink(i.op)]

-----------------------------------------------------------------------------
(* What the architecture says of an access to memory, byte by byte: the    *)
(* bytes moved, and that no other byte of memory or of rt changes.         *)

(* <<register byte, memory address>> pairs.                                *)
Lanes(i, s) ==
    LET a == Address(i, s)
        k == a % 4
    IN  CASE i.op \in {"lb", "lbu", "sb"} -> {<<0, a>>}
          [] i.op \in Halves16 -> {<<n, a + n>> : n \in 0..1}
          [] i.op \in Words32  -> {<<n, a + n>> : n \in 0..3}
          [] i.op \in {"lwl", "swl"} -> {<<3 - n, a - n>> : n \in 0..k}
          [] i.op \in {"lwr", "swr"} -> {<<n, a + n>> : n \in 0..(3 - k)}

Filler(i, s, n) ==
    LET sign == \E p \in Lanes(i, s) :
                    /\ 2 * s.mem[p[2]] >= ByteBase
                    /\ \A q \in Lanes(i, s) : q[1] <= p[1]
    IN  CASE i.op \in {"lb", "lh"} -> IF sign THEN ByteBase - 1 ELSE 0
          [] i.op \in {"lbu", "lhu"} -> 0
          [] OTHER -> Part(s.gpr[i.rt], n)

MemoryMeans(i, s, t) ==
    LET lanes == Lanes(i, s)
        moved == {p[1] : p \in lanes}
        reached == {p[2] : p \in lanes}
    IN  IF i.op \in Loads
        THEN /\ t.mem = s.mem
             /\ \A p \in lanes : Part(t.gpr[i.rt], p[1]) = s.mem[p[2]]
             /\ \A n \in (0..3) \ moved :
                    Part(t.gpr[i.rt], n) = Filler(i, s, n)
        ELSE \* a store; SC's may be refused
             \/ i.op = "sc" /\ t.gpr[i.rt] = 0 /\ t.mem = s.mem
             \/ /\ i.op = "sc" => t.gpr[i.rt] = 1
                /\ \A p \in lanes : t.mem[p[2]] = Part(s.gpr[i.rt], p[1])
                /\ \A b \in MemBytes \ reached : t.mem[b] = s.mem[b]
=============================================================================
