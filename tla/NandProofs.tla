----------------------------- MODULE NandProofs -----------------------------
(***************************************************************************)
(* Theorems about Nand for chips of any size and any operations its driver *)
(* may ask for: no assertion fails, no access of the data port leaves the  *)
(* page it is meant for, and the chip does what Flash promises.            *)
(***************************************************************************)
EXTENDS Nand, WellFoundedInduction, TLAPS

PartNow == PartOf(op, part)
Reading == op # None /\ op.kind = "read"
Programming == op # None /\ op.kind = "program"

(* The states the chip may be in when step k of part i comes.              *)
Expected(o, i, k) ==
    CASE o.kind = "read" ->
             IF k \in {0, 7} THEN {"init"}
             ELSE {IF i = 1 THEN "readStart" ELSE "randomReadStart"}
      [] o.kind = "program" ->
             IF i = 1 THEN {IF k = 0 THEN "init" ELSE "writeStart"}
             ELSE {"writeStart", "randomWriteStart"}
      [] o.kind = "copy" ->
             IF i = 1 THEN {IF k = 0 THEN "init" ELSE "readStart"}
             ELSE {IF k = 0 THEN "readPageForCopy" ELSE "copyStart"}
      [] o.kind = "erase" -> {IF k = 0 THEN "init" ELSE "eraseStart"}
      [] o.kind = "abandon" -> {IF k = 0 THEN "init" ELSE "readStart"}
      [] OTHER -> {"init"}

StateExpected == op # None => state \in Expected(op, part, step)

(* What the bytes sent so far have latched.                                *)
Latched ==
    op # None =>
        /\ step \in 1..5 => addrOffset = step - 1
        /\ step = 2 => colAddr = PartNow.column % Radix
        /\ step \in 3..7 /\ 2 \in PartNow.steps => colAddr = PartNow.column
        /\ step = 4 => rowAddr = PartNow.row % Radix
        /\ step = 5 => rowAddr = PartNow.row % (Radix * Radix)
        /\ step \in 6..7 /\ 5 \in PartNow.steps => rowAddr = PartNow.row
        /\ op.kind \in {"read", "program"} /\ part > 1 => rowAddr = op.row

(* What the data port reads; a page read that has not moved may.           *)
PointedRight ==
    /\ Reading /\ step = 7 =>
           /\ dataPort = [to |-> IF flashMap[BlockNo(op.row)] = NoFile
                                 THEN "fake" ELSE "array",
                          row |-> op.row]
           /\ readOffset = op.columns[part]
    /\ Reading /\ (part > 1 \/ step = 7)
       /\ (\A j \in 1..part : Moves(op, j) => j = part /\ step = 0) => issued30h
    /\ op # None /\ op.kind = "id" /\ step > 0 =>
           dataPort.to = "id" /\ readOffset = part - 1
    /\ op # None /\ op.kind = "status" /\ step > 0 =>
           dataPort.to = "status" /\ readOffset = 0

(* What the data port writes: a page begins where the last reset has left  *)
(* the offset, and a move takes it back to zero.                           *)
StoreColumn(o, i, n) == o.puts[i].column + (IF FirstRun(o, i) THEN n ELSE 0)

LoadsRight ==
    /\ op = None \/ ~EndsInProgram(op) \/ (op.kind = "program" /\ part = 1)
           => writeOffset = left
    /\ Programming /\ part > 1 /\ step \in {1, 2} => writeOffset = 0
    /\ Programming /\ step = 7 => colAddr + writeOffset = StoreColumn(op, part, left)

(* The type invariant: the chip's part and the driver's.                   *)
Targets == {"fake", "array", "id", "status", "nothing"}
ChipTyped ==
    /\ state \in DOMAIN Accepted
    /\ flashMap \in [Blocks -> Files \cup {NoFile}]
    /\ rowAddr \in Rows /\ colAddr \in Columns
    /\ writeBuffer \in [Columns -> Bytes]
    /\ readOffset \in Nat /\ writeOffset \in 0..PageSize
    /\ addrOffset \in 0..5
    /\ issued30h \in BOOLEAN /\ cut \in BOOLEAN /\ wild \in BOOLEAN
    /\ left \in 0..PageSize
    /\ dataPort \in [to : Targets, row : Rows]

DriverTyped ==
    /\ op \in Operations \cup {None}
    /\ op # None => part \in 1..Parts(op) /\ step \in PartNow.steps

IdleWhenDone == op = None => state = "init"

SafeInv ==
    /\ ChipTyped /\ DriverTyped /\ IdleWhenDone
    /\ StateExpected /\ Latched /\ PointedRight /\ LoadsRight

(* The first n of puts, as they stand in the buffer.                       *)
Holds(buffer, puts, n) ==
    \A c \in Columns :
        /\ (\A j \in 1..n : puts[j].column # c) => buffer[c] = Blank
        /\ \A j \in 1..n :
               puts[j].column = c /\ (\A m \in (j + 1)..n : puts[m].column # c)
               => buffer[c] = puts[j].byte

Loading ==
    /\ Programming /\ (part > 1 \/ step > 0) =>
           Holds(writeBuffer, Chip!Displaced(op.puts, left), part - 1)
    /\ op # None /\ op.kind = "copy" /\ part = 2 => writeBuffer = BlankPage

(* The driver has been answered what was promised, as far as it has come.  *)
Answered == op # None /\ op.kind \in {"read", "id", "status"}
Due(i) == CASE op.kind = "read" -> PageAt(op.row)[op.columns[i]]
            [] op.kind = "id" -> IdInfo[i]
            [] op.kind = "status" -> NandStatus
Answering ==
    /\ op # None => answers \in Seq(Bytes)
    /\ Answered => Len(answers) = part - 1 /\ \A i \in 1..(part - 1) : answers[i] = Due(i)

DataInv == Loading /\ Answering

IInv == SafeInv /\ DataInv

-----------------------------------------------------------------------------
(* Sizes and addresses.                                                    *)

LEMMA Sizes ==
    /\ Radix \in Nat /\ Radix > 0
    /\ PageSize \in Nat /\ PageSize > 0
    /\ PagesPerBlock \in Nat /\ PagesPerBlock > 0
    /\ TotalBlocks \in Nat /\ TotalBlocks > 0
BY NandAssumption

LEMMA SizesOfProducts ==
    /\ TotalBlocks * PagesPerBlock \in Nat /\ TotalBlocks * PagesPerBlock > 0
    /\ Radix * Radix \in Nat /\ Radix * Radix > 0
    /\ 0 \in Rows /\ 0 \in Columns
<1>1. \A a, b \in Nat : a > 0 /\ b > 0 => a * b \in Nat /\ a * b > 0
  OBVIOUS
<1>. QED BY <1>1, Sizes DEF Rows, Columns

LEMMA Quotient ==
    ASSUME NEW r \in Nat, NEW n \in Nat, n > 0
    PROVE  /\ r % n \in 0..(n - 1) /\ r \div n \in Nat
           /\ r = (r % n) + (r \div n) * n
           /\ r % n <= r
OBVIOUS

(* A quotient and a remainder are what they are of one number only.        *)
LEMMA QuotientUnique ==
    ASSUME NEW n \in Nat, n > 0, NEW q \in Nat, NEW s \in 0..(n - 1)
    PROVE  (s + q * n) \div n = q /\ (s + q * n) % n = s
OBVIOUS

LEMMA ColumnBytes ==
    ASSUME NEW c \in Columns
    PROVE  /\ c % Radix \in Columns
           /\ (c % Radix) + (c \div Radix) * Radix = c
BY Sizes, Quotient DEF Columns

LEMMA RowBytes ==
    ASSUME NEW r \in Rows
    PROVE  /\ r % Radix \in Rows
           /\ r % (Radix * Radix) \in Rows
           /\ (r % Radix) + ((r \div Radix) % Radix) * Radix = r % (Radix * Radix)
           /\ (r % (Radix * Radix)) + (r \div (Radix * Radix)) * Radix * Radix = r
<1>. DEFINE R == Radix
            RR == Radix * Radix
            N == TotalBlocks * PagesPerBlock
            q == r \div R
<1>1. R \in Nat /\ R > 0 /\ RR \in Nat /\ RR > 0 /\ N \in Nat
  BY Sizes, SizesOfProducts
<1>2. r \in 0..(N - 1) /\ r \in Nat
  BY <1>1 DEF Rows
<1>3. /\ r % R \in 0..(R - 1) /\ q \in Nat /\ r = (r % R) + q * R /\ r % R <= r
      /\ r % RR <= r /\ r % RR \in Nat /\ r \div RR \in Nat
      /\ r = (r % RR) + (r \div RR) * RR
  BY <1>1, <1>2, Quotient
<1>4. q % R \in 0..(R - 1) /\ q \div R \in Nat /\ q = (q % R) + (q \div R) * R
  BY <1>1, <1>3, Quotient
<1>. DEFINE u == r % R
            v == q % R
            w == q \div R
            s == u + v * R
<1>5. /\ u \in Nat /\ u <= R - 1 /\ v \in Nat /\ v <= R - 1 /\ w \in Nat
      /\ r = u + (v + w * R) * R
  BY <1>1, <1>3, <1>4
<1>. HIDE DEF u, v, w
<1>6. s \in 0..(RR - 1) /\ r = s + w * RR
  <2>1. v * R <= (R - 1) * R /\ v * R \in Nat
    BY <1>1, <1>5
  <2>2. (v + w * R) * R = v * R + w * RR
    BY <1>1, <1>5
  <2>. QED BY <2>1, <2>2, <1>1, <1>5
<1>. HIDE DEF s
<1>7. r % RR = s
  BY <1>1, <1>5, <1>6, QuotientUnique
<1>8. (r \div RR) * Radix * Radix = (r \div RR) * RR
  BY <1>1, <1>3
<1>. QED BY <1>1, <1>2, <1>3, <1>7, <1>8 DEF Rows, s, u, v

(* A row's block and page, and the row back.                               *)
LEMMA RowPlace ==
    ASSUME NEW r \in Rows
    PROVE  /\ BlockNo(r) \in Blocks
           /\ PageNo(r) \in 0..(PagesPerBlock - 1)
           /\ r = PageNo(r) + BlockNo(r) * PagesPerBlock
<1>1. /\ r \in Nat /\ r <= TotalBlocks * PagesPerBlock - 1
  BY SizesOfProducts DEF Rows
<1>2. /\ PageNo(r) \in 0..(PagesPerBlock - 1) /\ BlockNo(r) \in Nat
      /\ r = PageNo(r) + BlockNo(r) * PagesPerBlock
  BY <1>1, Sizes, Quotient DEF BlockNo, PageNo
<1>3. BlockNo(r) <= TotalBlocks - 1
  <2>1. \A a, b \in Nat : a >= b => a * PagesPerBlock >= b * PagesPerBlock
    BY Sizes
  <2>. QED BY <1>1, <1>2, <2>1, Sizes
<1>. QED BY <1>2, <1>3, Sizes DEF Blocks

-----------------------------------------------------------------------------
(* The driver's walk through an operation.                                 *)

LEMMA LeastElement ==
    ASSUME NEW T \in SUBSET Nat, T # {}
    PROVE  \E m \in T : \A n \in T : m <= n
<1>. DEFINE R == {ss \in Nat \X Nat : ss[1] < ss[2]}
<1>1. R = OpToRel(<, Nat)
  BY DEF OpToRel
<1>2. IsWellFoundedOn(R, Nat)
  BY <1>1, NatLessThanWellFounded
<1>. HIDE DEF R
<1>3. PICK m \in T : \A n \in T : ~(<<n, m>> \in R)
  BY <1>2, WFMin
<1>4. \A n \in T : ~(n < m)
  BY <1>3 DEF R
<1>. QED BY <1>3, <1>4

LEMMA LeastStep ==
    ASSUME NEW S \in SUBSET (0..7), S # {}
    PROVE  Min(S) \in S /\ \A k \in S : Min(S) <= k
<1>1. \E m \in S : \A n \in S : m <= n
  BY LeastElement, (0..7) \subseteq Nat
<1>. QED BY <1>1 DEF Min

LEMMA LeastStepIs ==
    ASSUME NEW S \in SUBSET (0..7), NEW m \in S, \A k \in S : m <= k
    PROVE  Min(S) = m
<1>1. Min(S) \in S /\ Min(S) <= m /\ m <= Min(S)
  BY LeastStep
<1>2. \A k \in S : k \in 0..7
  OBVIOUS
<1>3. Min(S) \in 0..7 /\ m \in 0..7
  BY <1>1, <1>2
<1>. QED BY <1>1, <1>3

LEMMA Shapes ==
    ASSUME NEW o \in Operations
    PROVE  /\ o # None
           /\ o.kind \in {"read", "program", "copy", "erase", "id", "status",
                          "abandon", "reset"}
           /\ o.kind = "read" =>
                  /\ o.row \in Rows
                  /\ o.columns \in Seq(Columns) /\ o.columns # <<>>
                  /\ \A i, j \in DOMAIN o.columns :
                         Moves(o, i) /\ Moves(o, j) => i = j
           /\ o.kind = "program" =>
                  /\ o.row \in Rows
                  /\ o.puts \in Seq([column : Columns, byte : Bytes])
                  /\ o.puts # <<>>
           /\ o.kind = "copy" => o.from \in Rows /\ o.to \in Rows
           /\ o.kind \in {"erase", "abandon"} => o.row \in Rows
<1>1. Supported(o) /\ o # None
  BY NandAssumption
<1>. QED BY <1>1 DEF Supported

LEMMA ReadShape ==
    ASSUME NEW o \in Operations, o.kind = "read"
    PROVE  /\ o.row \in Rows
           /\ Len(o.columns) \in Nat /\ Len(o.columns) >= 1
           /\ Parts(o) = Len(o.columns)
           /\ \A i \in 1..Len(o.columns) :
                  /\ o.columns[i] \in Columns
                  /\ i > 1 /\ ~Moves(o, i) => o.columns[i] = o.columns[i - 1] + 1
           /\ \A i, j \in 1..Len(o.columns) : Moves(o, i) /\ Moves(o, j) => i = j
<1>1. /\ o.columns \in Seq(Columns) /\ o.columns # <<>> /\ o.row \in Rows
      /\ \A i, j \in DOMAIN o.columns : Moves(o, i) /\ Moves(o, j) => i = j
  BY Shapes
<1>2. Len(o.columns) \in Nat /\ DOMAIN o.columns = 1..Len(o.columns)
  BY <1>1
<1>3. \A i \in 1..Len(o.columns) : o.columns[i] \in Columns
  BY <1>1, <1>2
<1>4. Len(o.columns) # 0
  BY <1>1
<1>. QED BY <1>1, <1>2, <1>3, <1>4 DEF Parts, Moves, ColumnOf

LEMMA ProgramShape ==
    ASSUME NEW o \in Operations, o.kind = "program"
    PROVE  /\ o.row \in Rows
           /\ Len(o.puts) \in Nat /\ Len(o.puts) >= 1
           /\ Parts(o) = Len(o.puts) + 1
           /\ \A i \in 1..Len(o.puts) :
                  /\ o.puts[i].column \in Columns /\ o.puts[i].byte \in Bytes
                  /\ i > 1 /\ ~Moves(o, i) =>
                         o.puts[i].column = o.puts[i - 1].column + 1
<1>. DEFINE P == [column : Columns, byte : Bytes]
<1>1. o.puts \in Seq(P) /\ o.puts # <<>> /\ o.row \in Rows
  BY Shapes
<1>4. \A u \in P : u.column \in Columns /\ u.byte \in Bytes
  OBVIOUS
<1>. HIDE DEF P
<1>2. Len(o.puts) \in Nat /\ Len(o.puts) # 0
  BY <1>1
<1>3. \A i \in 1..Len(o.puts) : o.puts[i] \in P
  BY <1>1
<1>. QED BY <1>1, <1>2, <1>3, <1>4 DEF Parts, Moves, ColumnOf

LEMMA OtherShape ==
    ASSUME NEW o \in Operations
    PROVE  /\ o.kind = "copy" => Parts(o) = 2
           /\ o.kind = "id" => Parts(o) = 5
           /\ o.kind \in {"erase", "status", "abandon", "reset"} => Parts(o) = 1
BY DEF Parts, IdInfo

(* The parts, kind by kind.                                                *)
LEMMA ReadParts ==
    ASSUME NEW o, o.kind = "read", NEW i \in Nat \ {0}
    PROVE  /\ PartOf(o, i).steps = IF i = 1 THEN 0..7
                                   ELSE IF Moves(o, i) THEN {0, 1, 2, 6, 7} ELSE {7}
           /\ PartOf(o, i).opens = IF i = 1 THEN \h00 ELSE \h05
           /\ PartOf(o, i).column = o.columns[i]
           /\ PartOf(o, i).row = o.row
           /\ PartOf(o, i).confirms = IF i = 1 THEN \h30 ELSE \hE0
           /\ PartOf(o, i).data = DataOut
<1>1. PartOf(o, i) = ReadPart(o, i)
  BY DEF PartOf
<1>. QED BY <1>1 DEF ReadPart, Part

LEMMA ProgramParts ==
    ASSUME NEW o, o.kind = "program", Len(o.puts) \in Nat, Len(o.puts) >= 1,
           NEW i \in Nat \ {0}
    PROVE  /\ PartOf(o, i).steps = IF i > Len(o.puts) THEN {6}
                                   ELSE IF i = 1 THEN {0, 1, 2, 3, 4, 5, 7}
                                   ELSE IF Moves(o, i) THEN {0, 1, 2, 7} ELSE {7}
           /\ PartOf(o, i).opens = IF i = 1 \/ i > Len(o.puts) THEN \h80 ELSE \h85
           /\ PartOf(o, i).row = o.row
           /\ PartOf(o, i).confirms = \h10
           /\ i <= Len(o.puts) => PartOf(o, i).column = o.puts[i].column
           /\ i <= Len(o.puts) => PartOf(o, i).data = DataIn(o.puts[i].byte)
<1>1. PartOf(o, i) = ProgramPart(o, i)
  BY DEF PartOf
<1>. QED BY <1>1 DEF ProgramPart, Part

LEMMA CopyParts ==
    ASSUME NEW o, o.kind = "copy", NEW i \in Nat
    PROVE  /\ PartOf(o, i).steps = 0..6
           /\ PartOf(o, i).opens = IF i = 1 THEN \h00 ELSE \h85
           /\ PartOf(o, i).column = 0
           /\ PartOf(o, i).row = IF i = 1 THEN o.from ELSE o.to
           /\ PartOf(o, i).confirms = IF i = 1 THEN \h35 ELSE \h10
<1>1. PartOf(o, i) = CopyPart(o, i)
  BY DEF PartOf
<1>. QED BY <1>1 DEF CopyPart, Part

LEMMA EraseParts ==
    ASSUME NEW o, o.kind = "erase", NEW i \in Nat
    PROVE  /\ PartOf(o, i).steps = {0, 3, 4, 5, 6}
           /\ PartOf(o, i).opens = \h60
           /\ PartOf(o, i).column = 0
           /\ PartOf(o, i).row = o.row
           /\ PartOf(o, i).confirms = \hD0
BY DEF PartOf, Part

LEMMA IdParts ==
    ASSUME NEW o, o.kind = "id", NEW i \in Nat
    PROVE  /\ PartOf(o, i).steps = IF i = 1 THEN {0, 1, 7} ELSE {7}
           /\ PartOf(o, i).opens = \h90
           /\ PartOf(o, i).column = 0
           /\ PartOf(o, i).row = 0
           /\ PartOf(o, i).data = DataOut
BY DEF PartOf, IdPart, Part

LEMMA StatusParts ==
    ASSUME NEW o, o.kind = "status", NEW i \in Nat
    PROVE  /\ PartOf(o, i).steps = {0, 7}
           /\ PartOf(o, i).opens = \h70
           /\ PartOf(o, i).column = 0
           /\ PartOf(o, i).row = 0
           /\ PartOf(o, i).data = DataOut
BY DEF PartOf, Part

LEMMA AbandonParts ==
    ASSUME NEW o, o.kind = "abandon", NEW i \in Nat
    PROVE  /\ PartOf(o, i).steps = 0..6
           /\ PartOf(o, i).opens = \h00
           /\ PartOf(o, i).column = 0
           /\ PartOf(o, i).row = o.row
           /\ PartOf(o, i).confirms = \hFF
BY DEF PartOf, Part

LEMMA ResetParts ==
    ASSUME NEW o, o.kind = "reset", NEW i \in Nat
    PROVE  /\ PartOf(o, i).steps = {0}
           /\ PartOf(o, i).opens = \hFF
           /\ PartOf(o, i).column = 0
           /\ PartOf(o, i).row = 0
BY DEF PartOf, Part

(* Every part has a step, and where it begins.                             *)
Begun(o, i) == Min(PartOf(o, i).steps)

LEMMA ReadBegins ==
    ASSUME NEW o \in Operations, o.kind = "read", NEW i \in 1..Parts(o)
    PROVE  Begun(o, i) = IF i = 1 \/ Moves(o, i) THEN 0 ELSE 7
<1>1. i \in Nat \ {0}
  BY ReadShape
<1>2. PartOf(o, i).steps = IF i = 1 THEN 0..7
                           ELSE IF Moves(o, i) THEN {0, 1, 2, 6, 7} ELSE {7}
  BY <1>1, ReadParts
<1>3. Min(0..7) = 0 /\ Min({0, 1, 2, 6, 7}) = 0 /\ Min({7}) = 7
  BY LeastStepIs
<1>. QED BY <1>2, <1>3 DEF Begun

LEMMA ProgramBegins ==
    ASSUME NEW o \in Operations, o.kind = "program", NEW i \in 1..Parts(o)
    PROVE  Begun(o, i) = IF i > Len(o.puts) THEN 6
                         ELSE IF i = 1 \/ Moves(o, i) THEN 0 ELSE 7
<1>1. i \in Nat \ {0} /\ Len(o.puts) \in Nat /\ Len(o.puts) >= 1
  BY ProgramShape
<1>2. PartOf(o, i).steps = IF i > Len(o.puts) THEN {6}
                           ELSE IF i = 1 THEN {0, 1, 2, 3, 4, 5, 7}
                           ELSE IF Moves(o, i) THEN {0, 1, 2, 7} ELSE {7}
  BY <1>1, ProgramParts
<1>3. /\ Min({6}) = 6 /\ Min({0, 1, 2, 3, 4, 5, 7}) = 0
      /\ Min({0, 1, 2, 7}) = 0 /\ Min({7}) = 7
  BY LeastStepIs
<1>. QED BY <1>1, <1>2, <1>3 DEF Begun

LEMMA OthersBegin ==
    ASSUME NEW o \in Operations, o.kind \notin {"read", "program"},
           NEW i \in 1..Parts(o)
    PROVE  Begun(o, i) = IF o.kind = "id" /\ i > 1 THEN 7 ELSE 0
<1>1. o.kind \in {"copy", "erase", "id", "status", "abandon", "reset"} /\ i \in Nat
  BY Shapes, OtherShape
<1>2. /\ o.kind = "copy" => PartOf(o, i).steps = 0..6
      /\ o.kind = "abandon" => PartOf(o, i).steps = 0..6
      /\ o.kind = "erase" => PartOf(o, i).steps = {0, 3, 4, 5, 6}
      /\ o.kind = "id" => PartOf(o, i).steps = IF i = 1 THEN {0, 1, 7} ELSE {7}
      /\ o.kind = "status" => PartOf(o, i).steps = {0, 7}
      /\ o.kind = "reset" => PartOf(o, i).steps = {0}
  <2>1. o.kind = "copy" => PartOf(o, i).steps = 0..6
    BY <1>1, CopyParts
  <2>2. o.kind = "abandon" => PartOf(o, i).steps = 0..6
    BY <1>1, AbandonParts
  <2>3. o.kind = "erase" => PartOf(o, i).steps = {0, 3, 4, 5, 6}
    BY <1>1, EraseParts
  <2>4. o.kind = "id" => PartOf(o, i).steps = IF i = 1 THEN {0, 1, 7} ELSE {7}
    BY <1>1, IdParts
  <2>5. o.kind = "status" => PartOf(o, i).steps = {0, 7}
    BY <1>1, StatusParts
  <2>6. o.kind = "reset" => PartOf(o, i).steps = {0}
    BY <1>1, ResetParts
  <2>. QED BY <2>1, <2>2, <2>3, <2>4, <2>5, <2>6
<1>3. /\ Min(0..6) = 0 /\ Min({0, 3, 4, 5, 6}) = 0 /\ Min({0, 1, 7}) = 0
      /\ Min({7}) = 7 /\ Min({0, 7}) = 0 /\ Min({0}) = 0
  BY LeastStepIs
<1>4. i # 1 => i > 1
  BY <1>1, OtherShape, Shapes
<1>5. CASE o.kind = "id"
  BY <1>2, <1>3, <1>4, <1>5 DEF Begun
<1>6. CASE o.kind \in {"copy", "abandon"}
  BY <1>2, <1>3, <1>6 DEF Begun
<1>7. CASE o.kind \in {"erase", "status", "reset"}
  BY <1>2, <1>3, <1>7 DEF Begun
<1>. QED BY <1>1, <1>5, <1>6, <1>7

Goes(i, k) == op' = op /\ left' = left /\ part' = i /\ step' = k
Ends ==
    /\ op' = None /\ part' = 1 /\ step' = 0
    /\ left' = IF EndsInProgram(op) THEN 0 ELSE left

(* To the next step of the part, or to the next part, or to the end.       *)
LEMMA Walk ==
    ASSUME DriverTyped, op # None, Continues, PartNow.steps \in SUBSET (0..7)
    PROVE  \/ \E k \in PartNow.steps :
                  /\ k > step /\ Goes(part, k)
                  /\ \A j \in PartNow.steps : j > step => k <= j
           \/ /\ \A j \in PartNow.steps : ~(j > step)
              /\ \/ part < Parts(op) /\ Goes(part + 1, Begun(op, part + 1))
                 \/ part = Parts(op) /\ Ends
<1>. DEFINE later == {k \in PartNow.steps : k > step}
<1>1. CASE later # {}
  <2>1. later \in SUBSET (0..7)
    OBVIOUS
  <2>2. Min(later) \in later /\ \A j \in later : Min(later) <= j
    BY <1>1, <2>1, LeastStep
  <2>3. Goes(part, Min(later))
    BY <1>1 DEF Continues, Goes, PartNow
  <2>. QED BY <2>2, <2>3
<1>2. CASE later = {}
  BY <1>2 DEF Continues, Goes, Ends, Begun, PartNow
<1>. QED BY <1>1, <1>2

LEMMA WalkRead ==
    ASSUME DriverTyped, op # None, op.kind = "read", Continues
    PROVE  /\ part \in 1..Len(op.columns) /\ step \in PartNow.steps
           /\ step \in 0..7
           /\ part > 1 => step \in {0, 1, 2, 6, 7}
           /\ part > 1 /\ step # 7 => Moves(op, part)
           /\ step < 7 => Goes(part, IF step = 2 /\ part > 1 THEN 6 ELSE step + 1)
           /\ step = 7 /\ part < Len(op.columns) =>
                  Goes(part + 1, IF Moves(op, part + 1) THEN 0 ELSE 7)
           /\ step = 7 /\ part >= Len(op.columns) => Ends
<1>1. /\ op \in Operations /\ Parts(op) = Len(op.columns) /\ Len(op.columns) \in Nat
      /\ part \in 1..Len(op.columns) /\ step \in PartNow.steps
  BY ReadShape DEF DriverTyped
<1>2. PartNow.steps = IF part = 1 THEN 0..7
                      ELSE IF Moves(op, part) THEN {0, 1, 2, 6, 7} ELSE {7}
  BY <1>1, ReadParts DEF PartNow
<1>3. PartNow.steps \in SUBSET (0..7)
  BY <1>2
<1>4. part < Len(op.columns) =>
          Begun(op, part + 1) = IF Moves(op, part + 1) THEN 0 ELSE 7
  BY <1>1, ReadBegins
<1>5. CASE PartNow.steps = 0..7 /\ part = 1
  <2>1. CASE step = 7
    BY <1>1, <1>3, <1>4, <1>5, <2>1, Walk
  <2>2. CASE step < 7
    <3>1. step \in 0..7 /\ step + 1 \in PartNow.steps
      BY <1>1, <1>5, <2>2
    <3>2. Goes(part, step + 1)
      BY <1>3, <1>5, <3>1, Walk
    <3>. QED BY <1>1, <1>5, <2>2, <3>1, <3>2
  <2>. QED BY <1>1, <1>5, <2>1, <2>2
<1>6. CASE PartNow.steps = {0, 1, 2, 6, 7} /\ part > 1 /\ Moves(op, part)
  BY <1>1, <1>3, <1>4, <1>6, Walk
<1>7. CASE PartNow.steps = {7} /\ part > 1
  BY <1>1, <1>3, <1>4, <1>7, Walk
<1>. QED BY <1>1, <1>2, <1>5, <1>6, <1>7

LEMMA WalkProgram ==
    ASSUME DriverTyped, op # None, op.kind = "program", Continues
    PROVE  /\ part \in 1..(Len(op.puts) + 1) /\ step \in PartNow.steps
           /\ step \in 0..7
           /\ step = 6 <=> part = Len(op.puts) + 1
           /\ part > 1 => step \in {0, 1, 2, 6, 7}
           /\ part > 1 /\ step < 6 => Moves(op, part)
           /\ step < 6 => Goes(part, IF step = 5 \/ (step = 2 /\ part > 1)
                                     THEN 7 ELSE step + 1)
           /\ step = 7 => Goes(part + 1, IF part = Len(op.puts) THEN 6
                                         ELSE IF Moves(op, part + 1) THEN 0 ELSE 7)
           /\ step = 6 => Ends
<1>1. /\ op \in Operations /\ Parts(op) = Len(op.puts) + 1
      /\ Len(op.puts) \in Nat /\ Len(op.puts) >= 1
      /\ part \in 1..(Len(op.puts) + 1) /\ step \in PartNow.steps
  BY ProgramShape DEF DriverTyped
<1>2. PartNow.steps = IF part > Len(op.puts) THEN {6}
                      ELSE IF part = 1 THEN {0, 1, 2, 3, 4, 5, 7}
                      ELSE IF Moves(op, part) THEN {0, 1, 2, 7} ELSE {7}
  BY <1>1, ProgramParts DEF PartNow
<1>3. PartNow.steps \in SUBSET (0..7)
  BY <1>2
<1>4. part < Len(op.puts) + 1 =>
          Begun(op, part + 1) = IF part = Len(op.puts) THEN 6
                                ELSE IF Moves(op, part + 1) THEN 0 ELSE 7
  BY <1>1, ProgramBegins
<1>5. CASE PartNow.steps = {6} /\ part = Len(op.puts) + 1
  BY <1>1, <1>3, <1>4, <1>5, Walk
<1>6. CASE PartNow.steps = {0, 1, 2, 3, 4, 5, 7} /\ part = 1
  BY <1>1, <1>3, <1>4, <1>6, Walk
<1>7. CASE PartNow.steps = {0, 1, 2, 7} /\ part > 1 /\ Moves(op, part) /\ part <= Len(op.puts)
  BY <1>1, <1>3, <1>4, <1>7, Walk
<1>8. CASE PartNow.steps = {7} /\ part > 1 /\ part <= Len(op.puts)
  BY <1>1, <1>3, <1>4, <1>8, Walk
<1>. QED BY <1>1, <1>2, <1>5, <1>6, <1>7, <1>8

LEMMA WalkCopy ==
    ASSUME DriverTyped, op # None, op.kind = "copy", Continues
    PROVE  /\ part \in 1..2 /\ step \in 0..6
           /\ step < 6 => Goes(part, step + 1)
           /\ step = 6 /\ part = 1 => Goes(2, 0)
           /\ step = 6 /\ part = 2 => Ends
<1>1. op \in Operations /\ Parts(op) = 2 /\ part \in 1..2 /\ step \in PartNow.steps
  BY OtherShape DEF DriverTyped
<1>2. PartNow.steps = 0..6
  BY <1>1, CopyParts DEF PartNow
<1>3. part = 1 => Begun(op, part + 1) = 0
  BY <1>1, OthersBegin
<1>. QED BY <1>1, <1>2, <1>3, Walk

LEMMA WalkErase ==
    ASSUME DriverTyped, op # None, op.kind = "erase", Continues
    PROVE  /\ part = 1 /\ step \in {0, 3, 4, 5, 6}
           /\ step < 6 => Goes(1, IF step = 0 THEN 3 ELSE step + 1)
           /\ step = 6 => Ends
<1>1. op \in Operations /\ Parts(op) = 1 /\ part \in 1..1 /\ step \in PartNow.steps
  BY OtherShape DEF DriverTyped
<1>2. PartNow.steps = {0, 3, 4, 5, 6}
  BY <1>1, EraseParts DEF PartNow
<1>. QED BY <1>1, <1>2, Walk

LEMMA WalkId ==
    ASSUME DriverTyped, op # None, op.kind = "id", Continues
    PROVE  /\ part \in 1..5 /\ step \in {0, 1, 7}
           /\ part > 1 => step = 7
           /\ step < 7 => Goes(1, IF step = 0 THEN 1 ELSE 7)
           /\ step = 7 /\ part < 5 => Goes(part + 1, 7)
           /\ step = 7 /\ part = 5 => Ends
<1>1. op \in Operations /\ Parts(op) = 5 /\ part \in 1..5 /\ step \in PartNow.steps
  BY OtherShape DEF DriverTyped
<1>2. PartNow.steps = IF part = 1 THEN {0, 1, 7} ELSE {7}
  BY <1>1, IdParts DEF PartNow
<1>3. part < 5 => Begun(op, part + 1) = 7
  BY <1>1, OthersBegin
<1>4. CASE part = 1
  BY <1>1, <1>2, <1>3, <1>4, Walk
<1>5. CASE part > 1
  BY <1>1, <1>2, <1>3, <1>5, Walk
<1>. QED BY <1>1, <1>4, <1>5

LEMMA WalkStatus ==
    ASSUME DriverTyped, op # None, op.kind = "status", Continues
    PROVE  /\ part = 1 /\ step \in {0, 7}
           /\ step = 0 => Goes(1, 7)
           /\ step = 7 => Ends
<1>1. op \in Operations /\ Parts(op) = 1 /\ part \in 1..1 /\ step \in PartNow.steps
  BY OtherShape DEF DriverTyped
<1>2. PartNow.steps = {0, 7}
  BY <1>1, StatusParts DEF PartNow
<1>. QED BY <1>1, <1>2, Walk

LEMMA WalkAbandon ==
    ASSUME DriverTyped, op # None, op.kind = "abandon", Continues
    PROVE  /\ part = 1 /\ step \in 0..6
           /\ step < 6 => Goes(1, step + 1)
           /\ step = 6 => Ends
<1>1. op \in Operations /\ Parts(op) = 1 /\ part \in 1..1 /\ step \in PartNow.steps
  BY OtherShape DEF DriverTyped
<1>2. PartNow.steps = 0..6
  BY <1>1, AbandonParts DEF PartNow
<1>. QED BY <1>1, <1>2, Walk

LEMMA WalkReset ==
    ASSUME DriverTyped, op # None, op.kind = "reset", Continues
    PROVE  part = 1 /\ step = 0 /\ Ends
<1>1. op \in Operations /\ Parts(op) = 1 /\ part \in 1..1 /\ step \in PartNow.steps
  BY OtherShape DEF DriverTyped
<1>2. PartNow.steps = {0}
  BY <1>1, ResetParts DEF PartNow
<1>. QED BY <1>1, <1>2, Walk

-----------------------------------------------------------------------------
(* What the driver's next access is, and which action takes it.            *)

LEMMA PartSteps ==
    ASSUME NEW o \in Operations, NEW i \in 1..Parts(o)
    PROVE  /\ i \in Nat \ {0}
           /\ PartOf(o, i).steps \in SUBSET (0..7) /\ PartOf(o, i).steps # {}
           /\ 7 \in PartOf(o, i).steps =>
                  /\ o.kind \in {"read", "program", "id", "status"}
                  /\ PartOf(o, i).data = IF o.kind = "program"
                                         THEN DataIn(o.puts[i].byte) ELSE DataOut
<1>2. CASE o.kind = "read"
  <2>1. i \in Nat \ {0}
    BY <1>2, ReadShape
  <2>. QED BY <1>2, <2>1, ReadParts
<1>3. CASE o.kind = "program"
  <2>1. i \in Nat \ {0} /\ Len(o.puts) \in Nat /\ Len(o.puts) >= 1
    BY <1>3, ProgramShape
  <2>2. PartOf(o, i).steps = IF i > Len(o.puts) THEN {6}
                             ELSE IF i = 1 THEN {0, 1, 2, 3, 4, 5, 7}
                             ELSE IF Moves(o, i) THEN {0, 1, 2, 7} ELSE {7}
    BY <1>3, <2>1, ProgramParts
  <2>3. i <= Len(o.puts) => PartOf(o, i).data = DataIn(o.puts[i].byte)
    BY <1>3, <2>1, ProgramParts
  <2>4. 7 \in PartOf(o, i).steps => i <= Len(o.puts)
    BY <2>1, <2>2
  <2>5. PartOf(o, i).steps \in {{6}, {0, 1, 2, 3, 4, 5, 7}, {0, 1, 2, 7}, {7}}
    BY <2>2
  <2>6. /\ {6} \subseteq 0..7 /\ {0, 1, 2, 3, 4, 5, 7} \subseteq 0..7
        /\ {0, 1, 2, 7} \subseteq 0..7 /\ {7} \subseteq 0..7
    OBVIOUS
  <2>. QED BY <1>3, <2>1, <2>3, <2>4, <2>5, <2>6
<1>4. o.kind \notin {"read", "program"} => i \in Nat \ {0}
  BY OtherShape, Shapes
<1>5. CASE o.kind = "copy"
  BY <1>4, <1>5, CopyParts
<1>6. CASE o.kind = "erase"
  BY <1>4, <1>6, EraseParts
<1>7. CASE o.kind = "id"
  BY <1>4, <1>7, IdParts
<1>8. CASE o.kind = "status"
  BY <1>4, <1>8, StatusParts
<1>9. CASE o.kind = "abandon"
  BY <1>4, <1>9, AbandonParts
<1>10. CASE o.kind = "reset"
  BY <1>4, <1>10, ResetParts
<1>. QED BY <1>2, <1>3, <1>5, <1>6, <1>7, <1>8, <1>9, <1>10, Shapes

LEMMA Steps ==
    ASSUME DriverTyped, op # None
    PROVE  /\ op \in Operations /\ part \in Nat \ {0}
           /\ PartNow.steps \in SUBSET (0..7) /\ step \in PartNow.steps
           /\ step \in 0..7
           /\ step = 7 => op.kind \in {"read", "program", "id", "status"}
           /\ step = 7 => PartNow.data = IF op.kind = "program"
                                         THEN DataIn(op.puts[part].byte) ELSE DataOut
BY PartSteps DEF DriverTyped, PartNow

LEMMA NextAccess ==
    ASSUME DriverTyped, op # None
    PROVE  /\ step = 0 => Access = Command(PartNow.opens)
           /\ step = 1 => Access = Address(PartNow.column % Radix)
           /\ step = 2 => Access = Address(PartNow.column \div Radix)
           /\ step = 3 => Access = Address(PartNow.row % Radix)
           /\ step = 4 => Access = Address((PartNow.row \div Radix) % Radix)
           /\ step = 5 => Access = Address(PartNow.row \div (Radix * Radix))
           /\ step = 6 => Access = Command(PartNow.confirms)
           /\ step = 7 => Access = IF op.kind = "program"
                                   THEN DataIn(op.puts[part].byte) ELSE DataOut
<1>1. Access = AccessAt(PartNow, step)
  BY DEF Access, PartNow
<1>2. step \in 0..7
  BY Steps
<1>3. step = 7 => Access = PartNow.data
  BY <1>1 DEF AccessAt
<1>. QED BY <1>1, <1>2, <1>3, Steps DEF AccessAt

LEMMA Ports ==
    ASSUME DriverTyped, op # None
    PROVE  /\ Access.port = "command" <=> step \in {0, 6}
           /\ Access.port = "address" <=> step \in 1..5
           /\ Access.port = "in" <=> step = 7 /\ op.kind = "program"
           /\ Access.port = "out" <=> step = 7 /\ op.kind # "program"
           /\ step = 0 => Access.value = PartNow.opens
           /\ step = 6 => Access.value = PartNow.confirms
<1>1. step \in 0..7
  BY Steps
<1>2. \A v : /\ Command(v).port = "command" /\ Address(v).port = "address"
             /\ DataIn(v).port = "in" /\ DataOut.port = "out"
             /\ Command(v).value = v
  BY DEF Command, Address, DataIn, DataOut
<1>3. CASE step \in {0, 6}
  BY <1>2, <1>3, NextAccess
<1>4. CASE step \in 1..5
  BY <1>2, <1>4, NextAccess
<1>5. CASE step = 7
  BY <1>2, <1>5, NextAccess
<1>. QED BY <1>1, <1>3, <1>4, <1>5

(* The commands that come, and the states they come in.                    *)
Comes(k, s, v) == step = k /\ state = s /\ Access.value = v

LEMMA CommandsComing ==
    ASSUME DriverTyped, StateExpected, op # None, Access.port = "command", Continues
    PROVE  /\ op.kind = "read" =>
                 \/ part = 1 /\ Comes(0, "init", \h00) /\ Goes(1, 1)
                 \/ part > 1 /\ Comes(0, "init", \h05) /\ Goes(part, 1) /\ Moves(op, part)
                 \/ part = 1 /\ Comes(6, "readStart", \h30) /\ Goes(1, 7)
                 \/ part > 1 /\ Comes(6, "randomReadStart", \hE0) /\ Goes(part, 7)
           /\ op.kind = "program" =>
                 \/ part = 1 /\ Comes(0, "init", \h80) /\ Goes(1, 1)
                 \/ /\ part > 1 /\ part <= Len(op.puts) /\ Goes(part, 1)
                    /\ Comes(0, "writeStart", \h85) \/ Comes(0, "randomWriteStart", \h85)
                 \/ /\ part = Len(op.puts) + 1 /\ Ends
                    /\ Comes(6, "writeStart", \h10) \/ Comes(6, "randomWriteStart", \h10)
           /\ op.kind = "copy" =>
                 \/ part = 1 /\ Comes(0, "init", \h00) /\ Goes(1, 1)
                 \/ part = 1 /\ Comes(6, "readStart", \h35) /\ Goes(2, 0)
                 \/ part = 2 /\ Comes(0, "readPageForCopy", \h85) /\ Goes(2, 1)
                 \/ part = 2 /\ Comes(6, "copyStart", \h10) /\ Ends
           /\ op.kind = "erase" =>
                 /\ part = 1
                 /\ \/ Comes(0, "init", \h60) /\ Goes(1, 3)
                    \/ Comes(6, "eraseStart", \hD0) /\ Ends
           /\ op.kind = "id" => part = 1 /\ Comes(0, "init", \h90) /\ Goes(1, 1)
           /\ op.kind = "status" => part = 1 /\ Comes(0, "init", \h70) /\ Goes(1, 7)
           /\ op.kind = "abandon" =>
                 /\ part = 1
                 /\ \/ Comes(0, "init", \h00) /\ Goes(1, 1)
                    \/ Comes(6, "readStart", \hFF) /\ Ends
           /\ op.kind = "reset" => part = 1 /\ Comes(0, "init", \hFF) /\ Ends
<1>1. /\ step \in {0, 6} /\ state \in Expected(op, part, step)
      /\ step = 0 => Access.value = PartNow.opens
      /\ step = 6 => Access.value = PartNow.confirms
      /\ op \in Operations /\ part \in Nat \ {0}
  BY Ports, Steps DEF StateExpected
<1>2. ASSUME op.kind = "read"
      PROVE  \/ part = 1 /\ Comes(0, "init", \h00) /\ Goes(1, 1)
             \/ part > 1 /\ Comes(0, "init", \h05) /\ Goes(part, 1) /\ Moves(op, part)
             \/ part = 1 /\ Comes(6, "readStart", \h30) /\ Goes(1, 7)
             \/ part > 1 /\ Comes(6, "randomReadStart", \hE0) /\ Goes(part, 7)
  <2>1. /\ PartNow.opens = IF part = 1 THEN \h00 ELSE \h05
        /\ PartNow.confirms = IF part = 1 THEN \h30 ELSE \hE0
    BY <1>1, <1>2, ReadParts DEF PartNow
  <2>2. /\ Goes(part, step + 1)
        /\ part > 1 => Moves(op, part)
    BY <1>1, <1>2, WalkRead
  <2>. QED BY <1>1, <1>2, <2>1, <2>2 DEF Comes, Expected
<1>3. ASSUME op.kind = "program"
      PROVE  \/ part = 1 /\ Comes(0, "init", \h80) /\ Goes(1, 1)
             \/ /\ part > 1 /\ part <= Len(op.puts) /\ Goes(part, 1)
                /\ Comes(0, "writeStart", \h85) \/ Comes(0, "randomWriteStart", \h85)
             \/ /\ part = Len(op.puts) + 1 /\ Ends
                /\ Comes(6, "writeStart", \h10) \/ Comes(6, "randomWriteStart", \h10)
  <2>0. Len(op.puts) \in Nat /\ Len(op.puts) >= 1
    BY <1>1, <1>3, ProgramShape
  <2>1. /\ PartNow.opens = IF part = 1 \/ part > Len(op.puts) THEN \h80 ELSE \h85
        /\ PartNow.confirms = \h10
    BY <1>1, <1>3, <2>0, ProgramParts DEF PartNow
  <2>2. CASE step = 0
    <3>1. part <= Len(op.puts) /\ Goes(part, 1)
      BY <1>1, <1>3, <2>0, <2>2, WalkProgram
    <3>. QED BY <1>1, <1>3, <2>0, <2>1, <2>2, <3>1 DEF Comes, Expected
  <2>3. CASE step = 6
    <3>1. part = Len(op.puts) + 1 /\ Ends
      BY <1>1, <1>3, <2>0, <2>3, WalkProgram
    <3>. QED BY <1>1, <1>3, <2>0, <2>1, <2>3, <3>1 DEF Comes, Expected
  <2>. QED BY <1>1, <2>2, <2>3
<1>4. ASSUME op.kind = "copy"
      PROVE  \/ part = 1 /\ Comes(0, "init", \h00) /\ Goes(1, 1)
             \/ part = 1 /\ Comes(6, "readStart", \h35) /\ Goes(2, 0)
             \/ part = 2 /\ Comes(0, "readPageForCopy", \h85) /\ Goes(2, 1)
             \/ part = 2 /\ Comes(6, "copyStart", \h10) /\ Ends
  <2>1. /\ PartNow.opens = IF part = 1 THEN \h00 ELSE \h85
        /\ PartNow.confirms = IF part = 1 THEN \h35 ELSE \h10
    BY <1>1, <1>4, CopyParts DEF PartNow
  <2>. QED BY <1>1, <1>4, <2>1, WalkCopy DEF Comes, Expected
<1>5. ASSUME op.kind = "erase"
      PROVE  /\ part = 1
             /\ \/ Comes(0, "init", \h60) /\ Goes(1, 3)
                \/ Comes(6, "eraseStart", \hD0) /\ Ends
  BY <1>1, <1>5, EraseParts, WalkErase DEF Comes, Expected, PartNow
<1>6. ASSUME op.kind = "id"
      PROVE  part = 1 /\ Comes(0, "init", \h90) /\ Goes(1, 1)
  BY <1>1, <1>6, IdParts, WalkId DEF Comes, Expected, PartNow
<1>7. ASSUME op.kind = "status"
      PROVE  part = 1 /\ Comes(0, "init", \h70) /\ Goes(1, 7)
  BY <1>1, <1>7, StatusParts, WalkStatus DEF Comes, Expected, PartNow
<1>8. ASSUME op.kind = "abandon"
      PROVE  /\ part = 1
             /\ \/ Comes(0, "init", \h00) /\ Goes(1, 1)
                \/ Comes(6, "readStart", \hFF) /\ Ends
  BY <1>1, <1>8, AbandonParts, WalkAbandon DEF Comes, Expected, PartNow
<1>9. ASSUME op.kind = "reset"
      PROVE  part = 1 /\ Comes(0, "init", \hFF) /\ Ends
  BY <1>1, <1>9, ResetParts, WalkReset DEF Comes, Expected, PartNow
<1>. QED BY <1>2, <1>3, <1>4, <1>5, <1>6, <1>7, <1>8, <1>9

-----------------------------------------------------------------------------
(* The command port.                                                       *)

LEMMA TakesMeans ==
    ASSUME NEW s, NEW v, Takes(s, v)
    PROVE  /\ op # None /\ state = s /\ Access.port = "command" /\ Access.value = v
           /\ Continues
           /\ addrOffset' = IF v = \h60 THEN 2 ELSE 0
           /\ rowAddr' = rowAddr /\ colAddr' = colAddr
           /\ answers' = answers /\ cut' = cut /\ wild' = wild
BY DEF Takes, Accessed, Command, address

LEMMA StartReadComes ==
    ASSUME DriverTyped, StateExpected, Takes("init", \h00)
    PROVE  /\ op.kind \in {"read", "copy", "abandon"} /\ part = 1 /\ step = 0
           /\ Goes(1, 1)
BY TakesMeans, CommandsComing, Steps, Shapes DEF Comes

LEMMA StartWriteComes ==
    ASSUME DriverTyped, StateExpected, Takes("init", \h80)
    PROVE  op.kind = "program" /\ part = 1 /\ step = 0 /\ Goes(1, 1)
BY TakesMeans, CommandsComing, Steps, Shapes DEF Comes

LEMMA StartRandomReadComes ==
    ASSUME DriverTyped, StateExpected,
           Takes("init", \h05) \/ Takes("randomReadStart", \h05)
    PROVE  /\ op.kind = "read" /\ part > 1 /\ step = 0 /\ Moves(op, part)
           /\ state = "init" /\ Goes(part, 1)
<1>1. CASE Takes("init", \h05)
  BY <1>1, TakesMeans, CommandsComing, Steps, Shapes DEF Comes
<1>2. CASE Takes("randomReadStart", \h05)
  BY <1>2, TakesMeans, CommandsComing, Steps, Shapes DEF Comes
<1>. QED BY <1>1, <1>2

LEMMA StartEraseComes ==
    ASSUME DriverTyped, StateExpected, Takes("init", \h60)
    PROVE  op.kind = "erase" /\ part = 1 /\ step = 0 /\ Goes(1, 3)
BY TakesMeans, CommandsComing, Steps, Shapes DEF Comes

LEMMA ReadIdComes ==
    ASSUME DriverTyped, StateExpected, Takes("init", \h90)
    PROVE  op.kind = "id" /\ part = 1 /\ step = 0 /\ Goes(1, 1)
BY TakesMeans, CommandsComing, Steps, Shapes DEF Comes

LEMMA ReadStatusComes ==
    ASSUME DriverTyped, StateExpected, Takes("init", \h70)
    PROVE  op.kind = "status" /\ part = 1 /\ step = 0 /\ Goes(1, 7)
BY TakesMeans, CommandsComing, Steps, Shapes DEF Comes

LEMMA ResetCommandComes ==
    ASSUME DriverTyped, StateExpected,
           Takes("init", \hFF) \/ Takes("readStart", \hFF)
    PROVE  op.kind \in {"reset", "abandon"} /\ Ends
<1>1. CASE Takes("init", \hFF)
  BY <1>1, TakesMeans, CommandsComing, Steps, Shapes DEF Comes
<1>2. CASE Takes("readStart", \hFF)
  BY <1>2, TakesMeans, CommandsComing, Steps, Shapes DEF Comes
<1>. QED BY <1>1, <1>2

LEMMA ReadPageComes ==
    ASSUME DriverTyped, StateExpected, Takes("readStart", \h30)
    PROVE  op.kind = "read" /\ part = 1 /\ step = 6 /\ Goes(1, 7)
BY TakesMeans, CommandsComing, Steps, Shapes DEF Comes

LEMMA ReadColumnComes ==
    ASSUME DriverTyped, StateExpected, Takes("randomReadStart", \hE0)
    PROVE  op.kind = "read" /\ part > 1 /\ step = 6 /\ Goes(part, 7)
BY TakesMeans, CommandsComing, Steps, Shapes DEF Comes

LEMMA ReadForCopyComes ==
    ASSUME DriverTyped, StateExpected, Takes("readStart", \h35)
    PROVE  op.kind = "copy" /\ part = 1 /\ step = 6 /\ Goes(2, 0)
BY TakesMeans, CommandsComing, Steps, Shapes DEF Comes

LEMMA StartCopyComes ==
    ASSUME DriverTyped, StateExpected, Takes("readPageForCopy", \h85)
    PROVE  op.kind = "copy" /\ part = 2 /\ step = 0 /\ Goes(2, 1)
BY TakesMeans, CommandsComing, Steps, Shapes DEF Comes

LEMMA StartRandomWriteComes ==
    ASSUME DriverTyped, StateExpected,
           \E s \in {"writeStart", "randomWriteStart", "copyStart"} : Takes(s, \h85)
    PROVE  /\ op.kind = "program" /\ part > 1 /\ part <= Len(op.puts) /\ step = 0
           /\ Goes(part, 1)
<1>1. PICK s \in {"writeStart", "randomWriteStart", "copyStart"} : Takes(s, \h85)
  OBVIOUS
<1>. QED BY <1>1, TakesMeans, CommandsComing, Steps, Shapes DEF Comes

LEMMA ProgramComes ==
    ASSUME DriverTyped, StateExpected,
           \E s \in {"writeStart", "randomWriteStart", "copyStart"} : Takes(s, \h10)
    PROVE  /\ step = 6 /\ Ends
           /\ \/ op.kind = "program" /\ part = Len(op.puts) + 1
              \/ op.kind = "copy" /\ part = 2
<1>1. PICK s \in {"writeStart", "randomWriteStart", "copyStart"} : Takes(s, \h10)
  OBVIOUS
<1>. QED BY <1>1, TakesMeans, CommandsComing, Steps, Shapes DEF Comes

LEMMA EraseComes ==
    ASSUME DriverTyped, StateExpected, Takes("eraseStart", \hD0)
    PROVE  op.kind = "erase" /\ part = 1 /\ step = 6 /\ Ends
BY TakesMeans, CommandsComing, Steps, Shapes DEF Comes

-----------------------------------------------------------------------------
(* Types.                                                                  *)

LEMMA DriverGoes ==
    ASSUME DriverTyped, op # None, Continues
    PROVE  DriverTyped'
<1>1. /\ op \in Operations /\ part \in 1..Parts(op) /\ PartNow.steps \in SUBSET (0..7)
  BY Steps DEF DriverTyped
<1>2. CASE \E k \in PartNow.steps : Goes(part, k)
  BY <1>1, <1>2 DEF DriverTyped, Goes, PartNow
<1>3. CASE part < Parts(op) /\ Goes(part + 1, Begun(op, part + 1))
  <2>1. part \in Nat \ {0} /\ Parts(op) \in Nat
    <3>1. Parts(op) \in Nat
      BY <1>1, ReadShape, ProgramShape, OtherShape, Shapes
    <3>. QED BY <1>1, <3>1
  <2>2. part + 1 \in 1..Parts(op)
    BY <1>3, <2>1
  <2>3. Begun(op, part + 1) \in PartOf(op, part + 1).steps
    BY <1>1, <2>2, PartSteps, LeastStep DEF Begun
  <2>. QED BY <1>1, <1>3, <2>2, <2>3 DEF DriverTyped, Goes, PartNow
<1>4. CASE Ends
  BY <1>4 DEF DriverTyped, Ends
<1>. QED BY <1>1, <1>2, <1>3, <1>4, Walk

LEMMA BlankTyped ==
    BlankPage \in [Columns -> Bytes] /\ BlankBlock \in Files
BY DEF BlankPage, BlankBlock, Bytes, Blank, Files

LEMMA FileTyped ==
    ASSUME flashMap \in [Blocks -> Files \cup {NoFile}], NEW r \in Rows
    PROVE  FileOf(r) \in Files /\ FileOf(r)[PageNo(r)] \in [Columns -> Bytes]
<1>1. FileOf(r) \in Files
  BY BlankTyped, RowPlace DEF FileOf
<1>. QED BY <1>1, RowPlace DEF Files

LEMMA States == DOMAIN Accepted = {"init", "readStart", "randomReadStart", "writeStart",
                                   "randomWriteStart", "readPageForCopy", "copyStart",
                                   "eraseStart"}
BY DEF Accepted

LEMMA InvariantParts ==
    SafeInv => /\ ChipTyped /\ DriverTyped /\ IdleWhenDone
               /\ StateExpected /\ Latched /\ PointedRight /\ LoadsRight
BY DEF SafeInv

-----------------------------------------------------------------------------
(* Each command keeps the invariant of the accesses.                       *)

LEMMA StartReadKeeps ==
    ASSUME SafeInv, StartRead
    PROVE  SafeInv'
<1>1. Takes("init", \h00)
  BY DEF StartRead
<1>2. /\ op # None /\ Continues /\ addrOffset' = 0 /\ cut' = cut /\ wild' = wild
      /\ rowAddr' = rowAddr /\ colAddr' = colAddr
      /\ op' = op /\ left' = left /\ part' = 1 /\ step' = 1 /\ part = 1
      /\ op.kind \in {"read", "copy", "abandon"}
  BY <1>1, InvariantParts, TakesMeans, StartReadComes DEF Goes
<1>3. /\ state' = "readStart" /\ flashMap' = flashMap /\ dataPort' = dataPort
      /\ writeBuffer' = writeBuffer /\ readOffset' = readOffset
      /\ writeOffset' = writeOffset /\ issued30h' = issued30h
  BY DEF StartRead, Idle, buffers
<1>4. ChipTyped'
  BY <1>2, <1>3, InvariantParts, States DEF ChipTyped
<1>5. DriverTyped' /\ IdleWhenDone'
  BY <1>2, InvariantParts, DriverGoes DEF IdleWhenDone
<1>6. StateExpected'
  BY <1>2, <1>3 DEF StateExpected, Expected
<1>7. Latched'
  BY <1>2, InvariantParts DEF Latched, PartNow
<1>8. PointedRight'
  BY <1>2, <1>3, InvariantParts DEF PointedRight, Reading
<1>9. LoadsRight'
  BY <1>2, <1>3, InvariantParts DEF LoadsRight, Programming, EndsInProgram
<1>. QED BY <1>4, <1>5, <1>6, <1>7, <1>8, <1>9 DEF SafeInv

LEMMA StartWriteKeeps ==
    ASSUME SafeInv, StartWrite
    PROVE  SafeInv'
<1>1. Takes("init", \h80)
  BY DEF StartWrite
<1>2. /\ op # None /\ Continues /\ addrOffset' = 0 /\ cut' = cut /\ wild' = wild
      /\ rowAddr' = rowAddr /\ colAddr' = colAddr
      /\ op' = op /\ left' = left /\ part' = 1 /\ step' = 1 /\ part = 1 /\ op.kind = "program"
  BY <1>1, InvariantParts, TakesMeans, StartWriteComes DEF Goes
<1>3. /\ state' = "writeStart" /\ flashMap' = flashMap /\ dataPort' = dataPort
      /\ writeBuffer' = BlankPage /\ readOffset' = readOffset
      /\ writeOffset' = writeOffset /\ issued30h' = issued30h
  BY DEF StartWrite, Idle
<1>4. ChipTyped'
  BY <1>2, <1>3, InvariantParts, States, BlankTyped DEF ChipTyped
<1>5. DriverTyped' /\ IdleWhenDone'
  BY <1>2, InvariantParts, DriverGoes DEF IdleWhenDone
<1>6. StateExpected'
  BY <1>2, <1>3 DEF StateExpected, Expected
<1>7. Latched'
  BY <1>2, InvariantParts DEF Latched, PartNow
<1>8. PointedRight'
  BY <1>2 DEF PointedRight, Reading
<1>9. LoadsRight'
  BY <1>2, <1>3, InvariantParts DEF LoadsRight, Programming, EndsInProgram
<1>. QED BY <1>4, <1>5, <1>6, <1>7, <1>8, <1>9 DEF SafeInv

(* The move is the only one, so that issued30h is not asked for again.     *)
LEMMA StartRandomReadKeeps ==
    ASSUME SafeInv, StartRandomRead
    PROVE  SafeInv'
<1>1. Takes("init", \h05) \/ Takes("randomReadStart", \h05)
  BY DEF StartRandomRead
<1>2. /\ op # None /\ Continues /\ addrOffset' = 0 /\ cut' = cut /\ wild' = wild
      /\ rowAddr' = rowAddr /\ colAddr' = colAddr
      /\ op' = op /\ left' = left /\ part' = part /\ step' = 1 /\ part > 1 /\ op.kind = "read"
      /\ Moves(op, part) /\ part \in 1..part
  <2>1. part \in Nat \ {0} /\ op # None
    BY <1>1, InvariantParts, Steps, TakesMeans
  <2>. QED BY <2>1, <1>1, InvariantParts, TakesMeans, StartRandomReadComes DEF Goes
<1>3. /\ state' = "randomReadStart" /\ flashMap' = flashMap /\ dataPort' = dataPort
      /\ writeBuffer' = writeBuffer /\ readOffset' = readOffset
      /\ writeOffset' = writeOffset /\ issued30h' = FALSE
  BY DEF StartRandomRead, Idle, buffers
<1>4. ChipTyped'
  <2>1. issued30h' \in BOOLEAN
    BY <1>3
  <2>. QED BY <1>2, <1>3, <2>1, InvariantParts, States DEF ChipTyped
<1>5. DriverTyped' /\ IdleWhenDone'
  BY <1>2, InvariantParts, DriverGoes DEF IdleWhenDone
<1>6. StateExpected'
  BY <1>2, <1>3 DEF StateExpected, Expected
<1>7. Latched'
  BY <1>2, InvariantParts DEF Latched, PartNow
<1>8. PointedRight'
  BY <1>2 DEF PointedRight, Reading
<1>9. LoadsRight'
  BY <1>2, <1>3, InvariantParts DEF LoadsRight, Programming, EndsInProgram
<1>. QED BY <1>4, <1>5, <1>6, <1>7, <1>8, <1>9 DEF SafeInv

LEMMA StartEraseKeeps ==
    ASSUME SafeInv, StartErase
    PROVE  SafeInv'
<1>1. Takes("init", \h60)
  BY DEF StartErase
<1>2. /\ op # None /\ Continues /\ addrOffset' = 2 /\ cut' = cut /\ wild' = wild
      /\ rowAddr' = rowAddr /\ colAddr' = colAddr
      /\ op' = op /\ left' = left /\ part' = 1 /\ step' = 3 /\ part = 1 /\ op.kind = "erase"
  BY <1>1, InvariantParts, TakesMeans, StartEraseComes DEF Goes
<1>3. /\ state' = "eraseStart" /\ flashMap' = flashMap /\ dataPort' = dataPort
      /\ writeBuffer' = writeBuffer /\ readOffset' = readOffset
      /\ writeOffset' = writeOffset /\ issued30h' = issued30h
  BY DEF StartErase, Idle, buffers
<1>4. ChipTyped'
  BY <1>2, <1>3, InvariantParts, States DEF ChipTyped
<1>5. DriverTyped' /\ IdleWhenDone'
  BY <1>2, InvariantParts, DriverGoes DEF IdleWhenDone
<1>6. StateExpected'
  BY <1>2, <1>3 DEF StateExpected, Expected
<1>7. Latched'
  BY <1>2, EraseParts DEF Latched, PartNow
<1>8. PointedRight'
  BY <1>2 DEF PointedRight, Reading
<1>9. LoadsRight'
  BY <1>2, <1>3, InvariantParts DEF LoadsRight, Programming, EndsInProgram
<1>. QED BY <1>4, <1>5, <1>6, <1>7, <1>8, <1>9 DEF SafeInv

LEMMA ReadInfoKeeps ==
    ASSUME SafeInv, ReadInfo(\h90, "id") \/ ReadInfo(\h70, "status")
    PROVE  SafeInv'
<1>1. \/ Takes("init", \h90) /\ dataPort' = [to |-> "id", row |-> 0]
      \/ Takes("init", \h70) /\ dataPort' = [to |-> "status", row |-> 0]
  BY DEF ReadInfo
<1>2. /\ op # None /\ Continues /\ addrOffset' = 0 /\ cut' = cut /\ wild' = wild
      /\ rowAddr' = rowAddr /\ colAddr' = colAddr /\ state = "init"
      /\ op' = op /\ left' = left /\ part' = 1 /\ part = 1
      /\ \/ op.kind = "id" /\ step' = 1 /\ dataPort' = [to |-> "id", row |-> 0]
         \/ op.kind = "status" /\ step' = 7 /\ dataPort' = [to |-> "status", row |-> 0]
  <2>1. CASE Takes("init", \h90) /\ dataPort' = [to |-> "id", row |-> 0]
    BY <2>1, InvariantParts, TakesMeans, ReadIdComes DEF Goes
  <2>2. CASE Takes("init", \h70) /\ dataPort' = [to |-> "status", row |-> 0]
    BY <2>2, InvariantParts, TakesMeans, ReadStatusComes DEF Goes
  <2>. QED BY <1>1, <2>1, <2>2
<1>3. /\ state' = state /\ flashMap' = flashMap
      /\ writeBuffer' = writeBuffer /\ readOffset' = 0
      /\ writeOffset' = writeOffset /\ issued30h' = issued30h
  BY DEF ReadInfo
<1>4. ChipTyped'
  <2>1. dataPort' \in [to : Targets, row : Rows]
    BY <1>2, SizesOfProducts DEF Targets
  <2>. QED BY <2>1, <1>2, <1>3, InvariantParts, States DEF ChipTyped
<1>5. DriverTyped' /\ IdleWhenDone'
  BY <1>2, InvariantParts, DriverGoes DEF IdleWhenDone
<1>6. StateExpected'
  BY <1>2, <1>3 DEF StateExpected, Expected
<1>7. Latched'
  BY <1>2, InvariantParts, StatusParts DEF Latched, PartNow
<1>8. PointedRight'
  BY <1>2, <1>3 DEF PointedRight, Reading
<1>9. LoadsRight'
  BY <1>2, <1>3, InvariantParts DEF LoadsRight, Programming, EndsInProgram
<1>. QED BY <1>4, <1>5, <1>6, <1>7, <1>8, <1>9 DEF SafeInv

LEMMA ResetCommandKeeps ==
    ASSUME SafeInv, ResetCommand
    PROVE  SafeInv'
<1>1. Takes("init", \hFF) \/ Takes("readStart", \hFF)
  BY DEF ResetCommand
<1>2. /\ op # None /\ Continues /\ addrOffset' = 0 /\ cut' = cut /\ wild' = wild
      /\ rowAddr' = rowAddr /\ colAddr' = colAddr
      /\ op' = None /\ left' = left /\ op.kind \in {"reset", "abandon"}
  BY <1>1, InvariantParts, TakesMeans, ResetCommandComes DEF Ends, EndsInProgram
<1>3. /\ state' = "init" /\ flashMap' = flashMap /\ dataPort' = dataPort
      /\ writeBuffer' = writeBuffer /\ readOffset' = readOffset
      /\ writeOffset' = writeOffset /\ issued30h' = issued30h
  BY DEF ResetCommand, Idle, buffers
<1>4. ChipTyped'
  BY <1>2, <1>3, InvariantParts, States DEF ChipTyped
<1>5. DriverTyped' /\ IdleWhenDone'
  BY <1>2, <1>3, InvariantParts, DriverGoes DEF IdleWhenDone
<1>6. StateExpected' /\ Latched' /\ PointedRight'
  BY <1>2 DEF StateExpected, Latched, PointedRight, Reading
<1>7. LoadsRight'
  BY <1>2, <1>3, InvariantParts DEF LoadsRight, Programming, EndsInProgram
<1>. QED BY <1>4, <1>5, <1>6, <1>7 DEF SafeInv

(* The address of a read is complete when its command is confirmed.        *)
LEMMA ReadLatched ==
    ASSUME SafeInv, Reading, step = 6
    PROVE  /\ colAddr = op.columns[part] /\ rowAddr = op.row
           /\ part \in 1..part /\ op \in Operations
<1>1. /\ op # None /\ op.kind = "read" /\ part \in Nat \ {0} /\ op \in Operations
      /\ step \in PartNow.steps
  BY InvariantParts, Steps DEF Reading
<1>2. /\ PartNow.steps = IF part = 1 THEN 0..7
                         ELSE IF Moves(op, part) THEN {0, 1, 2, 6, 7} ELSE {7}
      /\ PartNow.column = op.columns[part] /\ PartNow.row = op.row
  BY <1>1, ReadParts DEF PartNow
<1>3. 2 \in PartNow.steps /\ (part = 1 => 5 \in PartNow.steps)
  BY <1>1, <1>2
<1>4. part # 1 => part > 1
  BY <1>1
<1>. QED BY <1>1, <1>2, <1>3, <1>4, InvariantParts DEF Latched

LEMMA PointsToPageTyped ==
    ASSUME SafeInv, PointsToPage
    PROVE  dataPort' \in [to : Targets, row : Rows] /\ readOffset' \in Nat
<1>1. rowAddr \in Rows /\ colAddr \in Nat
  BY InvariantParts, Sizes DEF ChipTyped, Columns
<1>. QED BY <1>1 DEF PointsToPage, Targets

LEMMA ReadPageKeeps ==
    ASSUME SafeInv, ReadPage
    PROVE  SafeInv'
<1>1. Takes("readStart", \h30) /\ PointsToPage
  BY DEF ReadPage
<1>2. /\ op # None /\ Continues /\ addrOffset' = 0 /\ cut' = cut /\ wild' = wild
      /\ rowAddr' = rowAddr /\ colAddr' = colAddr
      /\ op' = op /\ left' = left /\ part' = 1 /\ step' = 7 /\ part = 1 /\ op.kind = "read"
      /\ step = 6 /\ op \in Operations
  BY <1>1, InvariantParts, TakesMeans, ReadPageComes, Steps DEF Goes
<1>3. /\ state' = "init" /\ flashMap' = flashMap /\ writeBuffer' = writeBuffer
      /\ readOffset' = colAddr /\ writeOffset' = writeOffset /\ issued30h' = TRUE
      /\ dataPort' = [to |-> IF flashMap[BlockNo(rowAddr)] = NoFile
                             THEN "fake" ELSE "array",
                      row |-> rowAddr]
  BY DEF ReadPage, PointsToPage
<1>4. colAddr = op.columns[part] /\ rowAddr = op.row
  BY <1>2, ReadLatched DEF Reading
<1>5. ChipTyped'
  <2>1. issued30h' \in BOOLEAN /\ writeOffset' \in 0..PageSize
    BY <1>3, InvariantParts DEF ChipTyped
  <2>. QED BY <1>1, <1>2, <1>3, <2>1, InvariantParts, States, PointsToPageTyped
           DEF ChipTyped
<1>6. DriverTyped' /\ IdleWhenDone'
  BY <1>2, InvariantParts, DriverGoes DEF IdleWhenDone
<1>7. StateExpected'
  BY <1>2, <1>3 DEF StateExpected, Expected
<1>8. Latched'
  BY <1>2, <1>4, ReadParts DEF Latched, PartNow
<1>9. PointedRight'
  <2>1. issued30h'
    BY <1>3
  <2>2. /\ dataPort' = [to |-> IF flashMap'[BlockNo(op.row)] = NoFile
                               THEN "fake" ELSE "array",
                        row |-> op.row]
        /\ readOffset' = op.columns[part]
    BY <1>3, <1>4
  <2>. QED BY <1>2, <2>1, <2>2 DEF PointedRight, Reading
<1>10. LoadsRight'
  BY <1>2, <1>3, InvariantParts DEF LoadsRight, Programming, EndsInProgram
<1>. QED BY <1>5, <1>6, <1>7, <1>8, <1>9, <1>10 DEF SafeInv

LEMMA ReadColumnKeeps ==
    ASSUME SafeInv, ReadColumn
    PROVE  SafeInv'
<1>1. Takes("randomReadStart", \hE0) /\ PointsToPage
  BY DEF ReadColumn
<1>2. /\ op # None /\ Continues /\ addrOffset' = 0 /\ cut' = cut /\ wild' = wild
      /\ rowAddr' = rowAddr /\ colAddr' = colAddr
      /\ op' = op /\ left' = left /\ part' = part /\ step' = 7 /\ part > 1 /\ op.kind = "read"
      /\ step = 6 /\ op \in Operations /\ part \in Nat \ {0}
  BY <1>1, InvariantParts, TakesMeans, ReadColumnComes, Steps DEF Goes
<1>3. /\ state' = "init" /\ flashMap' = flashMap /\ writeBuffer' = writeBuffer
      /\ readOffset' = colAddr /\ writeOffset' = writeOffset
      /\ issued30h' = issued30h
      /\ dataPort' = [to |-> IF flashMap[BlockNo(rowAddr)] = NoFile
                             THEN "fake" ELSE "array",
                      row |-> rowAddr]
  BY DEF ReadColumn, PointsToPage
<1>4. colAddr = op.columns[part] /\ rowAddr = op.row
  BY <1>2, ReadLatched DEF Reading
<1>5. ChipTyped'
  BY <1>1, <1>2, <1>3, InvariantParts, States, PointsToPageTyped DEF ChipTyped
<1>6. DriverTyped' /\ IdleWhenDone'
  BY <1>2, InvariantParts, DriverGoes DEF IdleWhenDone
<1>7. StateExpected'
  BY <1>2, <1>3 DEF StateExpected, Expected
<1>8. Latched'
  BY <1>2, <1>4, ReadParts DEF Latched, PartNow
<1>9. PointedRight'
  <2>1. Moves(op, part) /\ part \in 1..part
    <3>1. DriverTyped
      BY InvariantParts
    <3>. QED BY <1>2, <3>1, WalkRead
  <2>2. /\ dataPort' = [to |-> IF flashMap'[BlockNo(op.row)] = NoFile
                               THEN "fake" ELSE "array",
                        row |-> op.row]
        /\ readOffset' = op.columns[part]
    BY <1>3, <1>4
  <2>. QED BY <1>2, <2>1, <2>2 DEF PointedRight, Reading
<1>10. LoadsRight'
  BY <1>2, <1>3, InvariantParts DEF LoadsRight, Programming, EndsInProgram
<1>. QED BY <1>5, <1>6, <1>7, <1>8, <1>9, <1>10 DEF SafeInv

LEMMA ReadForCopyKeeps ==
    ASSUME SafeInv, ReadForCopy
    PROVE  SafeInv'
<1>1. Takes("readStart", \h35)
  BY DEF ReadForCopy
<1>2. /\ op # None /\ Continues /\ addrOffset' = 0 /\ cut' = cut /\ wild' = wild
      /\ rowAddr' = rowAddr /\ colAddr' = colAddr
      /\ op' = op /\ left' = left /\ part' = 2 /\ step' = 0 /\ op.kind = "copy"
  BY <1>1, InvariantParts, TakesMeans, ReadForCopyComes DEF Goes
<1>3. /\ state' = "readPageForCopy" /\ flashMap' = flashMap /\ dataPort' = dataPort
      /\ writeBuffer' = BlankPage /\ readOffset' = readOffset
      /\ writeOffset' = writeOffset /\ issued30h' = issued30h
  BY DEF ReadForCopy, Idle
<1>4. ChipTyped'
  BY <1>2, <1>3, InvariantParts, States, BlankTyped DEF ChipTyped
<1>5. DriverTyped' /\ IdleWhenDone'
  BY <1>2, InvariantParts, DriverGoes DEF IdleWhenDone
<1>6. StateExpected'
  BY <1>2, <1>3 DEF StateExpected, Expected
<1>7. Latched'
  BY <1>2 DEF Latched, PartNow
<1>8. PointedRight'
  BY <1>2 DEF PointedRight, Reading
<1>9. LoadsRight'
  BY <1>2, <1>3, InvariantParts DEF LoadsRight, Programming, EndsInProgram
<1>. QED BY <1>4, <1>5, <1>6, <1>7, <1>8, <1>9 DEF SafeInv

LEMMA StartCopyKeeps ==
    ASSUME SafeInv, StartCopy
    PROVE  SafeInv'
<1>1. Takes("readPageForCopy", \h85)
  BY DEF StartCopy
<1>2. /\ op # None /\ Continues /\ addrOffset' = 0 /\ cut' = cut /\ wild' = wild
      /\ rowAddr' = rowAddr /\ colAddr' = colAddr
      /\ op' = op /\ left' = left /\ part' = 2 /\ step' = 1 /\ op.kind = "copy"
  BY <1>1, InvariantParts, TakesMeans, StartCopyComes DEF Goes
<1>3. /\ state' = "copyStart" /\ flashMap' = flashMap /\ dataPort' = dataPort
      /\ writeBuffer' = writeBuffer /\ readOffset' = readOffset
      /\ writeOffset' = 0 /\ issued30h' = issued30h
  BY DEF StartCopy, Idle
<1>4. ChipTyped'
  BY <1>2, <1>3, InvariantParts, States, Sizes DEF ChipTyped
<1>5. DriverTyped' /\ IdleWhenDone'
  BY <1>2, InvariantParts, DriverGoes DEF IdleWhenDone
<1>6. StateExpected'
  BY <1>2, <1>3 DEF StateExpected, Expected
<1>7. Latched'
  BY <1>2 DEF Latched, PartNow
<1>8. PointedRight'
  BY <1>2 DEF PointedRight, Reading
<1>9. LoadsRight'
  BY <1>2, <1>3 DEF LoadsRight, Programming, EndsInProgram
<1>. QED BY <1>4, <1>5, <1>6, <1>7, <1>8, <1>9 DEF SafeInv

LEMMA StartRandomWriteKeeps ==
    ASSUME SafeInv, StartRandomWrite
    PROVE  SafeInv'
<1>1. \E s \in {"writeStart", "randomWriteStart", "copyStart"} : Takes(s, \h85)
  BY DEF StartRandomWrite
<1>2. /\ op # None /\ Continues /\ addrOffset' = 0 /\ cut' = cut /\ wild' = wild
      /\ rowAddr' = rowAddr /\ colAddr' = colAddr
      /\ op' = op /\ left' = left /\ part' = part /\ step' = 1 /\ part > 1 /\ op.kind = "program"
      /\ part \in Nat
  <2>1. op # None /\ Continues /\ addrOffset' = 0 /\ cut' = cut /\ wild' = wild
        /\ rowAddr' = rowAddr /\ colAddr' = colAddr
    BY <1>1, TakesMeans
  <2>. QED BY <1>1, <2>1, InvariantParts, StartRandomWriteComes, Steps DEF Goes
<1>3. /\ state' = "randomWriteStart" /\ flashMap' = flashMap /\ dataPort' = dataPort
      /\ writeBuffer' = writeBuffer /\ readOffset' = readOffset
      /\ writeOffset' = 0 /\ issued30h' = issued30h
  BY DEF StartRandomWrite, Idle
<1>4. ChipTyped'
  BY <1>2, <1>3, InvariantParts, States, Sizes DEF ChipTyped
<1>5. DriverTyped' /\ IdleWhenDone'
  BY <1>2, InvariantParts, DriverGoes DEF IdleWhenDone
<1>6. StateExpected'
  BY <1>2, <1>3 DEF StateExpected, Expected
<1>7. Latched'
  BY <1>2, InvariantParts DEF Latched, PartNow
<1>8. PointedRight'
  BY <1>2 DEF PointedRight, Reading
<1>9. LoadsRight'
  BY <1>2, <1>3 DEF LoadsRight, Programming, EndsInProgram
<1>. QED BY <1>4, <1>5, <1>6, <1>7, <1>8, <1>9 DEF SafeInv

(* A block's file becomes another; every other block keeps its own.        *)
LEMMA MapTyped ==
    ASSUME flashMap \in [Blocks -> Files \cup {NoFile}], NEW b \in Blocks,
           NEW f \in Files
    PROVE  [flashMap EXCEPT ![b] = f] \in [Blocks -> Files \cup {NoFile}]
OBVIOUS

LEMMA WrittenTyped ==
    ASSUME writeBuffer \in [Columns -> Bytes], NEW page \in [Columns -> Bytes]
    PROVE  Written(page) \in [Columns -> Bytes]
BY DEF Written

(* The file programmed: the page latched is written, the others are kept.  *)
Programmed(r) == [FileOf(r) EXCEPT ![PageNo(r)] = Written(@)]

LEMMA ProgrammedIs ==
    ASSUME ChipTyped, NEW r \in Rows
    PROVE  /\ Programmed(r) \in Files
           /\ \A p \in 0..(PagesPerBlock - 1) :
                  Programmed(r)[p] = IF p = PageNo(r) THEN Written(FileOf(r)[p])
                                                      ELSE FileOf(r)[p]
<1>1. /\ FileOf(r) \in Files /\ PageNo(r) \in 0..(PagesPerBlock - 1)
      /\ FileOf(r)[PageNo(r)] \in [Columns -> Bytes]
  BY FileTyped, RowPlace DEF ChipTyped
<1>2. Written(FileOf(r)[PageNo(r)]) \in [Columns -> Bytes]
  BY <1>1, WrittenTyped DEF ChipTyped
<1>. QED BY <1>1, <1>2 DEF Programmed, Files

LEMMA ProgramKeeps ==
    ASSUME SafeInv, Program
    PROVE  SafeInv'
<1>1. \E s \in {"writeStart", "randomWriteStart", "copyStart"} : Takes(s, \h10)
  BY DEF Program
<1>2. /\ op # None /\ Continues /\ addrOffset' = 0 /\ cut' = cut /\ wild' = wild
      /\ rowAddr' = rowAddr /\ colAddr' = colAddr /\ op' = None /\ left' = 0
  <2>1. op # None /\ Continues /\ addrOffset' = 0 /\ cut' = cut /\ wild' = wild
        /\ rowAddr' = rowAddr /\ colAddr' = colAddr
    BY <1>1, TakesMeans
  <2>. QED BY <1>1, <2>1, InvariantParts, ProgramComes DEF Ends, EndsInProgram
<1>3. /\ state' = "init" /\ dataPort' = dataPort
      /\ flashMap' = [flashMap EXCEPT ![BlockNo(rowAddr)] = Programmed(rowAddr)]
      /\ writeBuffer' = writeBuffer /\ readOffset' = readOffset
      /\ writeOffset' = 0 /\ issued30h' = issued30h
  BY DEF Program, Programmed
<1>4. ChipTyped'
  <2>1. rowAddr \in Rows /\ flashMap \in [Blocks -> Files \cup {NoFile}]
    BY InvariantParts DEF ChipTyped
  <2>2. flashMap' \in [Blocks -> Files \cup {NoFile}]
    BY <1>3, <2>1, InvariantParts, ProgrammedIs, RowPlace, MapTyped
  <2>. QED BY <1>2, <1>3, <2>2, InvariantParts, States, Sizes DEF ChipTyped
<1>5. DriverTyped' /\ IdleWhenDone'
  BY <1>2, <1>3, InvariantParts, DriverGoes DEF IdleWhenDone
<1>6. StateExpected' /\ Latched' /\ PointedRight'
  BY <1>2 DEF StateExpected, Latched, PointedRight, Reading
<1>7. LoadsRight'
  BY <1>2, <1>3 DEF LoadsRight, Programming, EndsInProgram
<1>. QED BY <1>4, <1>5, <1>6, <1>7 DEF SafeInv

LEMMA EraseKeeps ==
    ASSUME SafeInv, Erase
    PROVE  SafeInv'
<1>1. Takes("eraseStart", \hD0)
  BY DEF Erase
<1>2. /\ op # None /\ Continues /\ addrOffset' = 0 /\ cut' = cut /\ wild' = wild
      /\ rowAddr' = rowAddr /\ colAddr' = colAddr
      /\ op' = None /\ left' = left /\ op.kind = "erase"
  BY <1>1, InvariantParts, TakesMeans, EraseComes DEF Ends, EndsInProgram
<1>3. /\ state' = "init" /\ dataPort' = dataPort
      /\ flashMap' = [flashMap EXCEPT ![BlockNo(rowAddr)] = BlankBlock]
      /\ writeBuffer' = writeBuffer /\ readOffset' = readOffset
      /\ writeOffset' = writeOffset /\ issued30h' = issued30h
  BY DEF Erase, buffers
<1>4. ChipTyped'
  <2>1. rowAddr \in Rows /\ flashMap \in [Blocks -> Files \cup {NoFile}]
    BY InvariantParts DEF ChipTyped
  <2>2. flashMap' \in [Blocks -> Files \cup {NoFile}]
    BY <1>3, <2>1, BlankTyped, RowPlace, MapTyped
  <2>. QED BY <1>2, <1>3, <2>2, InvariantParts, States DEF ChipTyped
<1>5. DriverTyped' /\ IdleWhenDone'
  BY <1>2, <1>3, InvariantParts, DriverGoes DEF IdleWhenDone
<1>6. StateExpected' /\ Latched' /\ PointedRight'
  BY <1>2 DEF StateExpected, Latched, PointedRight, Reading
<1>7. LoadsRight'
  BY <1>2, <1>3, InvariantParts DEF LoadsRight, Programming, EndsInProgram
<1>. QED BY <1>4, <1>5, <1>6, <1>7 DEF SafeInv

-----------------------------------------------------------------------------
(* The address port.                                                       *)

LEMMA AddressWalk ==
    ASSUME DriverTyped, op # None, step \in 1..5, Continues
    PROVE  /\ op' = op /\ left' = left /\ part' = part
           /\ step = 1 => step' = IF op.kind = "id" THEN 7 ELSE 2
           /\ step = 2 => step' = IF part = 1 \/ op.kind \in {"copy", "abandon"} THEN 3
                                  ELSE IF op.kind = "read" THEN 6 ELSE 7
           /\ step \in 3..4 => step' = step + 1
           /\ step = 5 => step' = IF op.kind = "program" THEN 7 ELSE 6
<1>1. op.kind \in {"read", "program", "copy", "erase", "id", "status", "abandon", "reset"}
  BY Steps, Shapes
<1>2. CASE op.kind = "read"
  <2>1. /\ part \in Nat \ {0} /\ (part > 1 => step \in {1, 2})
        /\ Goes(part, IF step = 2 /\ part > 1 THEN 6 ELSE step + 1)
    BY <1>2, WalkRead, Steps
  <2>. QED BY <1>2, <2>1 DEF Goes
<1>3. CASE op.kind = "program"
  <2>1. /\ part \in Nat \ {0} /\ (part > 1 => step \in {1, 2})
        /\ Goes(part, IF step = 5 \/ (step = 2 /\ part > 1) THEN 7 ELSE step + 1)
    BY <1>3, WalkProgram, Steps
  <2>. QED BY <1>3, <2>1 DEF Goes
<1>4. CASE op.kind = "copy"
  BY <1>4, WalkCopy DEF Goes
<1>5. CASE op.kind = "erase"
  BY <1>5, WalkErase DEF Goes
<1>6. CASE op.kind = "id"
  BY <1>6, WalkId DEF Goes
<1>7. CASE op.kind \in {"status", "reset"}
  BY <1>7, WalkStatus, WalkReset
<1>8. CASE op.kind = "abandon"
  BY <1>8, WalkAbandon DEF Goes
<1>. QED BY <1>1, <1>2, <1>3, <1>4, <1>5, <1>6, <1>7, <1>8

LEMMA AddressTyped ==
    ASSUME DriverTyped, op # None, step \in 1..5
    PROVE  /\ step \in 1..2 => PartNow.column \in Columns
           /\ step \in 3..5 => PartNow.row \in Rows
           /\ op.kind = "id" => 2 \notin PartNow.steps
           /\ part > 1 /\ op.kind \in {"read", "program"} => 5 \notin PartNow.steps
<1>1. /\ op \in Operations /\ part \in 1..Parts(op) /\ step \in PartNow.steps
      /\ part \in Nat \ {0}
  BY Steps DEF DriverTyped
<1>2. CASE op.kind = "read"
  <2>1. part \in 1..Len(op.columns) /\ op.row \in Rows
    BY <1>1, <1>2, ReadShape
  <2>2. op.columns[part] \in Columns
    BY <1>1, <1>2, <2>1, ReadShape
  <2>3. /\ PartNow.steps = IF part = 1 THEN 0..7
                           ELSE IF Moves(op, part) THEN {0, 1, 2, 6, 7} ELSE {7}
        /\ PartNow.column = op.columns[part] /\ PartNow.row = op.row
    BY <1>1, <1>2, ReadParts DEF PartNow
  <2>4. part > 1 => 5 \notin PartNow.steps
    BY <2>3
  <2>. QED BY <1>2, <2>1, <2>2, <2>3, <2>4
<1>3. CASE op.kind = "program"
  <2>1. Len(op.puts) \in Nat /\ Len(op.puts) >= 1 /\ op.row \in Rows
    BY <1>1, <1>3, ProgramShape
  <2>2. PartNow.steps = IF part > Len(op.puts) THEN {6}
                        ELSE IF part = 1 THEN {0, 1, 2, 3, 4, 5, 7}
                        ELSE IF Moves(op, part) THEN {0, 1, 2, 7} ELSE {7}
    BY <1>1, <1>3, <2>1, ProgramParts DEF PartNow
  <2>3. part \in 1..Len(op.puts)
    BY <1>1, <2>1, <2>2
  <2>4. PartNow.column = op.puts[part].column /\ PartNow.row = op.row
    BY <1>1, <1>3, <2>1, <2>3, ProgramParts DEF PartNow
  <2>5. op.puts[part].column \in Columns
    BY <1>1, <1>3, <2>3, ProgramShape
  <2>. QED BY <1>1, <1>3, <2>1, <2>2, <2>4, <2>5
<1>4. CASE op.kind = "copy"
  BY <1>1, <1>4, CopyParts, Shapes, SizesOfProducts DEF PartNow
<1>5. CASE op.kind = "erase"
  BY <1>1, <1>5, EraseParts, Shapes, SizesOfProducts DEF PartNow
<1>6. CASE op.kind = "id"
  BY <1>1, <1>6, IdParts, SizesOfProducts DEF PartNow
<1>7. CASE op.kind \in {"status", "reset"}
  BY <1>1, <1>7, StatusParts, ResetParts DEF PartNow
<1>8. CASE op.kind = "abandon"
  BY <1>1, <1>8, AbandonParts, Shapes, SizesOfProducts DEF PartNow
<1>. QED BY <1>1, <1>2, <1>3, <1>4, <1>5, <1>6, <1>7, <1>8, Shapes

(* A byte of the address completes what it is the next byte of.            *)
LEMMA AddressLatches ==
    ASSUME SafeInv, AddressPort
    PROVE  /\ op # None /\ step \in 1..5 /\ Continues
           /\ addrOffset' = step
           /\ step = 1 => colAddr' = PartNow.column % Radix /\ rowAddr' = rowAddr
           /\ step = 2 => colAddr' = PartNow.column /\ rowAddr' = rowAddr
           /\ step = 3 => rowAddr' = PartNow.row % Radix /\ colAddr' = colAddr
           /\ step = 4 => rowAddr' = PartNow.row % (Radix * Radix) /\ colAddr' = colAddr
           /\ step = 5 => rowAddr' = PartNow.row /\ colAddr' = colAddr
<1>. DEFINE v == Access.value
<1>1. op # None /\ Access.port = "address" /\ Continues
  BY DEF AddressPort, Accessed
<1>2. step \in 1..5 /\ DriverTyped
  BY <1>1, InvariantParts, Ports
<1>3. addrOffset = step - 1
  BY <1>1, <1>2, InvariantParts DEF Latched
<1>4. \A x : Address(x).value = x
  BY DEF Address
<1>5. addrOffset' = step
  BY <1>2, <1>3 DEF AddressPort
<1>6. CASE step = 1
  <2>1. v = PartNow.column % Radix
    BY <1>1, <1>2, <1>4, <1>6, NextAccess
  <2>2. colAddr' = v /\ rowAddr' = rowAddr
    BY <1>3, <1>6 DEF AddressPort
  <2>. QED BY <1>1, <1>5, <1>6, <2>1, <2>2
<1>7. CASE step = 2
  <2>1. v = PartNow.column \div Radix /\ colAddr = PartNow.column % Radix
    BY <1>1, <1>2, <1>4, <1>7, NextAccess, InvariantParts DEF Latched
  <2>2. colAddr' = colAddr + v * Radix /\ rowAddr' = rowAddr
    BY <1>3, <1>7 DEF AddressPort
  <2>3. colAddr' = PartNow.column
    BY <1>1, <1>2, <1>7, <2>1, <2>2, AddressTyped, ColumnBytes
  <2>. QED BY <1>1, <1>5, <1>7, <2>2, <2>3
<1>8. CASE step = 3
  <2>1. v = PartNow.row % Radix
    BY <1>1, <1>2, <1>4, <1>8, NextAccess
  <2>2. rowAddr' = v /\ colAddr' = colAddr
    BY <1>3, <1>8 DEF AddressPort
  <2>. QED BY <1>1, <1>5, <1>8, <2>1, <2>2
<1>9. CASE step = 4
  <2>1. v = (PartNow.row \div Radix) % Radix /\ rowAddr = PartNow.row % Radix
    BY <1>1, <1>2, <1>4, <1>9, NextAccess, InvariantParts DEF Latched
  <2>2. rowAddr' = rowAddr + v * Radix /\ colAddr' = colAddr
    BY <1>3, <1>9 DEF AddressPort
  <2>3. rowAddr' = PartNow.row % (Radix * Radix)
    BY <1>1, <1>2, <1>9, <2>1, <2>2, AddressTyped, RowBytes
  <2>. QED BY <1>1, <1>5, <1>9, <2>2, <2>3
<1>10. CASE step = 5
  <2>1. /\ v = PartNow.row \div (Radix * Radix)
        /\ rowAddr = PartNow.row % (Radix * Radix)
    BY <1>1, <1>2, <1>4, <1>10, NextAccess, InvariantParts DEF Latched
  <2>2. rowAddr' = rowAddr + v * Radix * Radix /\ colAddr' = colAddr
    BY <1>3, <1>10 DEF AddressPort
  <2>3. rowAddr' = PartNow.row
    BY <1>1, <1>2, <1>10, <2>1, <2>2, AddressTyped, RowBytes
  <2>. QED BY <1>1, <1>5, <1>10, <2>2, <2>3
<1>. QED BY <1>2, <1>6, <1>7, <1>8, <1>9, <1>10

LEMMA AddressPortKeeps ==
    ASSUME SafeInv, AddressPort
    PROVE  SafeInv'
<1>1. /\ op # None /\ step \in 1..5 /\ Continues /\ DriverTyped
      /\ addrOffset' = step /\ op \in Operations /\ part \in Nat \ {0}
  BY AddressLatches, InvariantParts, Steps
<1>2. /\ op' = op /\ left' = left /\ part' = part
      /\ step = 1 => step' = IF op.kind = "id" THEN 7 ELSE 2
      /\ step = 2 => step' = IF part = 1 \/ op.kind \in {"copy", "abandon"} THEN 3
                             ELSE IF op.kind = "read" THEN 6 ELSE 7
      /\ step \in 3..4 => step' = step + 1
      /\ step = 5 => step' = IF op.kind = "program" THEN 7 ELSE 6
  BY <1>1, AddressWalk
<1>3. /\ state' = state /\ flashMap' = flashMap /\ dataPort' = dataPort
      /\ writeBuffer' = writeBuffer /\ readOffset' = readOffset
      /\ writeOffset' = writeOffset /\ issued30h' = issued30h /\ cut' = cut /\ wild' = wild
  BY DEF AddressPort, Accessed, buffers
<1>4. PartNow' = PartNow /\ step' \in 2..7
  BY <1>1, <1>2 DEF PartNow
<1>5. ChipTyped'
  <2>1. rowAddr' \in Rows /\ colAddr' \in Columns
    BY <1>1, AddressLatches, AddressTyped, ColumnBytes, RowBytes, InvariantParts
       DEF ChipTyped
  <2>. QED BY <1>1, <1>2, <1>3, <2>1, InvariantParts DEF ChipTyped
<1>6. DriverTyped' /\ IdleWhenDone'
  BY <1>1, <1>2, DriverGoes DEF IdleWhenDone
<1>7. StateExpected'
  <2>1. op.kind \notin {"status", "reset"}
    BY <1>1, WalkStatus, WalkReset
  <2>2. step' # 0 /\ step # 0 /\ step # 7 /\ (op.kind = "read" => step' # 7)
    BY <1>1, <1>2, <1>4
  <2>3. Expected(op, part, step') = Expected(op, part, step)
    BY <2>1, <2>2 DEF Expected
  <2>. QED BY <1>1, <1>2, <1>3, <2>3, InvariantParts DEF StateExpected
<1>8. Latched'
  <2>1. ASSUME step' \in 1..5
        PROVE  addrOffset' = step' - 1
    <3>1. step \in 1..2 \/ step \in 3..4 \/ step = 5
      BY <1>1
    <3>2. step' = step + 1
      BY <2>1, <3>1, <1>2
    <3>. QED BY <1>1, <3>2
  <2>2. step' = 2 => colAddr' = PartNow.column % Radix
    BY <1>1, <1>2, AddressLatches
  <2>3. step' \in 3..7 /\ 2 \in PartNow.steps => colAddr' = PartNow.column
    <3>1. step \in 3..5 /\ 2 \in PartNow.steps => colAddr = PartNow.column
      BY <1>1, InvariantParts DEF Latched
    <3>2. step = 1 /\ step' \in 3..7 => 2 \notin PartNow.steps
      BY <1>1, <1>2, AddressTyped
    <3>. QED BY <1>1, <3>1, <3>2, AddressLatches
  <2>4. step' = 4 => rowAddr' = PartNow.row % Radix
    BY <1>1, <1>2, AddressLatches
  <2>5. step' = 5 => rowAddr' = PartNow.row % (Radix * Radix)
    BY <1>1, <1>2, AddressLatches
  <2>6. step' \in 6..7 /\ 5 \in PartNow.steps => rowAddr' = PartNow.row
    <3>1. CASE step \in 3..5
      BY <1>1, <1>2, <3>1, AddressLatches
    <3>2. CASE step = 2 /\ step' \in 6..7
      <4>1. op.kind \in {"read", "program"} /\ part > 1
        BY <1>1, <1>2, <3>2, WalkErase, WalkId, WalkStatus, WalkReset, Shapes
      <4>. QED BY <1>1, <4>1, AddressTyped
    <3>3. CASE step = 1 /\ step' \in 6..7
      <4>1. op.kind = "id"
        BY <1>2, <3>3
      <4>. QED BY <1>1, <4>1, IdParts DEF PartNow
    <3>. QED BY <1>1, <3>1, <3>2, <3>3
  <2>7. op.kind \in {"read", "program"} /\ part > 1 => rowAddr' = op.row
    <3>1. op.kind \in {"read", "program"} /\ part > 1 => step \in 1..2
      BY <1>1, WalkRead, WalkProgram
    <3>. QED BY <1>1, <3>1, AddressLatches, InvariantParts DEF Latched
  <2>. QED BY <1>2, <1>4, <2>1, <2>2, <2>3, <2>4, <2>5, <2>6, <2>7 DEF Latched
<1>9. PointedRight'
  BY <1>1, <1>2, <1>3, <1>4, InvariantParts DEF PointedRight, Reading
<1>10. LoadsRight'
  <2>1. ASSUME op.kind = "program", step' = 7
        PROVE  colAddr' + writeOffset = StoreColumn(op, part, left)
    <3>1. step \in {2, 5} /\ (step = 2 => part > 1) /\ (step = 5 => part = 1)
      BY <1>1, <1>2, <2>1, WalkProgram
    <3>2. /\ Len(op.puts) \in Nat /\ Len(op.puts) >= 1
          /\ part \in 1..Len(op.puts)
      BY <1>1, <2>1, <3>1, ProgramShape, WalkProgram
    <3>3. /\ PartNow.column = op.puts[part].column /\ op.puts[part].column \in Nat
          /\ writeOffset \in Nat
      BY <1>1, <2>1, <3>2, ProgramParts, ProgramShape, InvariantParts
         DEF PartNow, Columns, ChipTyped
    <3>4. CASE step = 2
      <4>1. colAddr' = op.puts[part].column
        BY <3>3, <3>4, AddressLatches
      <4>2. writeOffset = 0
        BY <1>1, <2>1, <3>1, <3>4, InvariantParts DEF LoadsRight, Programming
      <4>3. ~FirstRun(op, part)
        <5>1. Moves(op, part) /\ part \in 2..part
          BY <1>1, <2>1, <3>1, <3>4, WalkProgram
        <5>. QED BY <5>1 DEF FirstRun
      <4>. QED BY <3>3, <4>1, <4>2, <4>3 DEF StoreColumn
    <3>5. CASE step = 5
      <4>1. PartNow.steps = {0, 1, 2, 3, 4, 5, 7}
        BY <1>1, <2>1, <3>1, <3>2, <3>5, ProgramParts DEF PartNow
      <4>2. colAddr = PartNow.column
        BY <1>1, <3>5, <4>1, InvariantParts DEF Latched
      <4>3. colAddr' = op.puts[part].column
        BY <3>3, <3>5, <4>2, AddressLatches
      <4>4. writeOffset = left
        BY <1>1, <2>1, <3>1, <3>5, InvariantParts DEF LoadsRight
      <4>5. FirstRun(op, part)
        BY <3>1, <3>5 DEF FirstRun
      <4>. QED BY <4>3, <4>4, <4>5 DEF StoreColumn
    <3>. QED BY <3>1, <3>4, <3>5
  <2>2. /\ op = None \/ ~EndsInProgram(op) \/ (op.kind = "program" /\ part = 1)
               => writeOffset = left
        /\ Programming /\ part > 1 /\ step' \in {1, 2} => writeOffset = 0
    <3>1. step' = 2 => step = 1
      BY <1>1, <1>2
    <3>. QED BY <1>1, <1>4, <3>1, InvariantParts DEF LoadsRight
  <2>. QED BY <1>2, <1>3, <2>1, <2>2 DEF LoadsRight, Programming, EndsInProgram
<1>. QED BY <1>5, <1>6, <1>7, <1>8, <1>9, <1>10 DEF SafeInv

-----------------------------------------------------------------------------
(* The data port.                                                          *)

(* A part that only goes on has latched nothing.                           *)
LEMMA GoesOn ==
    ASSUME NEW o \in Operations, NEW i \in 2..Parts(o),
           (o.kind \in {"read", "program"} /\ ~Moves(o, i)) \/ o.kind = "id"
    PROVE  2 \notin PartOf(o, i).steps /\ 5 \notin PartOf(o, i).steps
<1>1. CASE o.kind = "read" /\ ~Moves(o, i)
  <2>1. i \in Nat \ {0} /\ i # 1
    BY <1>1, ReadShape
  <2>2. PartOf(o, i).steps = {7}
    BY <1>1, <2>1, ReadParts
  <2>. QED BY <2>2
<1>2. CASE o.kind = "program" /\ ~Moves(o, i)
  <2>1. i \in Nat \ {0} /\ i # 1 /\ Len(o.puts) \in Nat /\ Len(o.puts) >= 1
    BY <1>2, ProgramShape
  <2>2. PartOf(o, i).steps \in {{6}, {7}}
    BY <1>2, <2>1, ProgramParts
  <2>. QED BY <2>2
<1>3. CASE o.kind = "id"
  <2>1. i \in Nat /\ i # 1
    BY <1>3, OtherShape
  <2>. QED BY <1>3, <2>1, IdParts
<1>. QED BY <1>1, <1>2, <1>3

LEMMA DataPortReadComes ==
    ASSUME SafeInv, DataPortRead
    PROVE  /\ op # None /\ step = 7 /\ Continues
           /\ op.kind \in {"read", "id", "status"} /\ state = "init"
           /\ op.kind = "read" =>
                  /\ part \in 1..Len(op.columns) /\ Len(op.columns) \in Nat
                  /\ rowAddr = op.row
                  /\ part < Len(op.columns) =>
                         Goes(part + 1, IF Moves(op, part + 1) THEN 0 ELSE 7)
                  /\ part >= Len(op.columns) => Ends
           /\ op.kind = "id" =>
                  /\ part \in 1..5
                  /\ part < 5 => Goes(part + 1, 7)
                  /\ part = 5 => Ends
           /\ op.kind = "status" => part = 1 /\ Ends
<1>1. op # None /\ Access.port = "out" /\ Continues
  BY DEF DataPortRead, Accessed
<1>2. /\ step = 7 /\ op.kind \in {"read", "id", "status"} /\ op \in Operations
      /\ DriverTyped /\ part \in Nat \ {0}
  BY <1>1, InvariantParts, Ports, Steps
<1>3. state = "init"
  BY <1>1, <1>2, InvariantParts DEF StateExpected, Expected
<1>4. ASSUME op.kind = "read"
      PROVE  /\ part \in 1..Len(op.columns) /\ Len(op.columns) \in Nat
             /\ rowAddr = op.row
             /\ part < Len(op.columns) =>
                    Goes(part + 1, IF Moves(op, part + 1) THEN 0 ELSE 7)
             /\ part >= Len(op.columns) => Ends
  <2>1. part = 1 => 5 \in PartNow.steps /\ PartNow.row = op.row
    BY <1>2, <1>4, ReadParts DEF PartNow
  <2>2. rowAddr = op.row
    BY <1>1, <1>2, <1>4, <2>1, InvariantParts DEF Latched
  <2>. QED BY <1>1, <1>2, <1>4, <2>2, ReadShape, WalkRead
<1>. QED BY <1>1, <1>2, <1>3, <1>4, WalkId, WalkStatus

LEMMA DataPortReadKeeps ==
    ASSUME SafeInv, DataPortRead
    PROVE  SafeInv'
<1>1. /\ op # None /\ step = 7 /\ Continues /\ DriverTyped /\ op \in Operations
      /\ op.kind \in {"read", "id", "status"} /\ state = "init"
      /\ readOffset \in Nat /\ part \in Nat \ {0}
  BY DataPortReadComes, InvariantParts, Steps DEF ChipTyped
<1>2. /\ state' = state /\ flashMap' = flashMap /\ dataPort' = dataPort
      /\ rowAddr' = rowAddr /\ colAddr' = colAddr /\ addrOffset' = addrOffset
      /\ writeBuffer' = writeBuffer /\ readOffset' = readOffset + 1
      /\ writeOffset' = writeOffset /\ issued30h' = issued30h /\ cut' = cut /\ wild' = wild
  BY DEF DataPortRead, Accessed, address
<1>3. ChipTyped'
  <2>1. readOffset' \in Nat
    BY <1>1, <1>2
  <2>2. left' = left
    BY <1>1, DataPortReadComes DEF Goes, Ends, EndsInProgram
  <2>. QED BY <1>1, <1>2, <2>1, <2>2, InvariantParts DEF ChipTyped
<1>4. DriverTyped' /\ IdleWhenDone'
  BY <1>1, <1>2, DriverGoes DEF IdleWhenDone
<1>5. writeOffset = left /\ ~EndsInProgram(op)
  BY <1>1, InvariantParts DEF LoadsRight, EndsInProgram
<1>6. LoadsRight'
  <2>1. op' \in {op, None} /\ left' = left
    BY <1>1, <1>5, DataPortReadComes DEF Goes, Ends
  <2>. QED BY <1>1, <1>2, <1>5, <2>1 DEF LoadsRight, Programming, EndsInProgram
<1>7. CASE Ends
  BY <1>3, <1>4, <1>6, <1>7
     DEF SafeInv, Ends, StateExpected, Latched, PointedRight, Reading
<1>8. CASE op.kind = "read" /\ ~Ends
  <2>1. /\ part \in 1..Len(op.columns) /\ Len(op.columns) \in Nat /\ rowAddr = op.row
        /\ part < Len(op.columns) /\ part + 1 \in 2..Parts(op)
        /\ op' = op /\ left' = left /\ part' = part + 1 /\ step' = IF Moves(op, part + 1) THEN 0 ELSE 7
    <3>1. /\ part \in 1..Len(op.columns) /\ Len(op.columns) \in Nat /\ rowAddr = op.row
          /\ part < Len(op.columns)
          /\ Goes(part + 1, IF Moves(op, part + 1) THEN 0 ELSE 7)
      BY <1>8, DataPortReadComes
    <3>2. Parts(op) = Len(op.columns)
      BY <1>1, <1>8, ReadShape
    <3>. QED BY <3>1, <3>2 DEF Goes
  <2>2. StateExpected'
    BY <1>1, <1>2, <1>8, <2>1 DEF StateExpected, Expected
  <2>3. Latched'
    <3>1. step' = 7 => 2 \notin PartNow'.steps /\ 5 \notin PartNow'.steps
      BY <1>1, <1>8, <2>1, GoesOn DEF PartNow
    <3>. QED BY <1>2, <1>8, <2>1, <3>1 DEF Latched
  <2>4. PointedRight'
    <3>1. ASSUME step' = 7
          PROVE  readOffset' = op.columns[part + 1]
      <4>1. op.columns[part + 1] = op.columns[part] + 1
        <5>1. ~Moves(op, part + 1)
          BY <2>1, <3>1
        <5>. QED BY <1>1, <1>8, <2>1, <5>1, ReadShape
      <4>2. readOffset = op.columns[part]
        BY <1>1, <1>8, InvariantParts DEF PointedRight, Reading
      <4>. QED BY <1>2, <4>1, <4>2
    <3>2. dataPort' = [to |-> IF flashMap'[BlockNo(op.row)] = NoFile
                              THEN "fake" ELSE "array",
                       row |-> op.row]
      BY <1>1, <1>2, <1>8, InvariantParts DEF PointedRight, Reading
    <3>3. ASSUME \A j \in 1..(part + 1) : Moves(op, j) => j = part + 1 /\ step' = 0
          PROVE  issued30h'
      <4>1. \A j \in 1..part : j \in 1..(part + 1) /\ j # part + 1
        BY <1>1
      <4>2. \A j \in 1..part : ~Moves(op, j)
        BY <3>3, <4>1
      <4>. QED BY <1>1, <1>2, <1>8, <4>2, InvariantParts DEF PointedRight, Reading
    <3>. QED BY <1>8, <2>1, <3>1, <3>2, <3>3 DEF PointedRight, Reading
  <2>. QED BY <1>3, <1>4, <1>6, <2>2, <2>3, <2>4 DEF SafeInv
<1>9. CASE op.kind = "id" /\ ~Ends
  <2>1. /\ part \in 1..5 /\ part + 1 \in 2..Parts(op)
        /\ op' = op /\ left' = left /\ part' = part + 1 /\ step' = 7
    <3>1. part \in 1..5 /\ part < 5 /\ Goes(part + 1, 7)
      BY <1>9, DataPortReadComes
    <3>. QED BY <1>1, <1>9, <3>1, OtherShape DEF Goes
  <2>2. StateExpected'
    BY <1>1, <1>2, <1>9, <2>1 DEF StateExpected, Expected
  <2>3. Latched'
    <3>1. 2 \notin PartNow'.steps /\ 5 \notin PartNow'.steps
      BY <1>1, <1>9, <2>1, GoesOn DEF PartNow
    <3>. QED BY <1>9, <2>1, <3>1 DEF Latched
  <2>4. PointedRight'
    <3>1. dataPort.to = "id" /\ readOffset = part - 1
      BY <1>1, <1>9, InvariantParts DEF PointedRight
    <3>. QED BY <1>2, <1>9, <2>1, <3>1 DEF PointedRight, Reading
  <2>. QED BY <1>3, <1>4, <1>6, <2>2, <2>3, <2>4 DEF SafeInv
<1>. QED BY <1>1, <1>7, <1>8, <1>9, DataPortReadComes

LEMMA DataPortWriteComes ==
    ASSUME SafeInv, DataPortWrite
    PROVE  /\ op # None /\ step = 7 /\ Continues /\ op.kind = "program"
           /\ Len(op.puts) \in Nat /\ part \in 1..Len(op.puts)
           /\ rowAddr = op.row
           /\ colAddr + writeOffset = StoreColumn(op, part, left)
           /\ colAddr + writeOffset \in Columns
           /\ Access.value = op.puts[part].byte /\ op.puts[part].byte \in Bytes
           /\ op' = op /\ left' = left /\ part' = part + 1
           /\ step' = IF part = Len(op.puts) THEN 6
                      ELSE IF Moves(op, part + 1) THEN 0 ELSE 7
<1>1. op # None /\ Access.port = "in" /\ Continues
  BY DEF DataPortWrite, Accessed
<1>2. /\ step = 7 /\ op.kind = "program" /\ op \in Operations
      /\ DriverTyped /\ part \in Nat \ {0}
  BY <1>1, InvariantParts, Ports, Steps
<1>3. /\ Len(op.puts) \in Nat /\ Len(op.puts) >= 1 /\ part \in 1..Len(op.puts)
      /\ Goes(part + 1, IF part = Len(op.puts) THEN 6
                        ELSE IF Moves(op, part + 1) THEN 0 ELSE 7)
  <2>1. Len(op.puts) \in Nat /\ Len(op.puts) >= 1
    BY <1>2, ProgramShape
  <2>2. part \in 1..(Len(op.puts) + 1) /\ part # Len(op.puts) + 1
    BY <1>1, <1>2, WalkProgram
  <2>3. Goes(part + 1, IF part = Len(op.puts) THEN 6
                       ELSE IF Moves(op, part + 1) THEN 0 ELSE 7)
    BY <1>1, <1>2, WalkProgram
  <2>. QED BY <2>1, <2>2, <2>3
<1>4. rowAddr = op.row
  <2>1. part = 1 => 5 \in PartNow.steps /\ PartNow.row = op.row
    BY <1>2, <1>3, ProgramParts DEF PartNow
  <2>. QED BY <1>1, <1>2, <2>1, InvariantParts DEF Latched
<1>5. /\ colAddr + writeOffset = StoreColumn(op, part, left)
      /\ colAddr + writeOffset \in Columns
  BY <1>1, <1>2, InvariantParts DEF LoadsRight, Programming, DataPortWrite
<1>6. Access.value = op.puts[part].byte
  BY <1>1, <1>2, NextAccess DEF DataIn
<1>. QED BY <1>1, <1>2, <1>3, <1>4, <1>5, <1>6, ProgramShape DEF Goes

LEMMA DataPortWriteKeeps ==
    ASSUME SafeInv, DataPortWrite
    PROVE  SafeInv'
<1>1. /\ op # None /\ step = 7 /\ Continues /\ DriverTyped /\ op \in Operations
      /\ op.kind = "program" /\ Len(op.puts) \in Nat /\ part \in 1..Len(op.puts)
      /\ op' = op /\ left' = left /\ part' = part + 1
      /\ step' = IF part = Len(op.puts) THEN 6
                 ELSE IF Moves(op, part + 1) THEN 0 ELSE 7
  BY DataPortWriteComes, InvariantParts, Steps
<1>2. /\ state' = state /\ flashMap' = flashMap /\ dataPort' = dataPort
      /\ rowAddr' = rowAddr /\ colAddr' = colAddr /\ addrOffset' = addrOffset
      /\ readOffset' = readOffset /\ writeOffset' = writeOffset + 1
      /\ issued30h' = issued30h /\ cut' = cut /\ wild' = wild
      /\ writeBuffer' = [writeBuffer EXCEPT ![colAddr + writeOffset] = Access.value]
  BY DEF DataPortWrite, Accessed, address
<1>3. /\ colAddr \in Columns /\ writeOffset \in 0..PageSize
      /\ colAddr + writeOffset \in Columns
  BY InvariantParts, DataPortWriteComes DEF ChipTyped
<1>4. ChipTyped'
  <2>1. writeOffset' \in 0..PageSize
    BY <1>2, <1>3, Sizes DEF Columns
  <2>2. writeBuffer' \in [Columns -> Bytes]
    BY <1>2, DataPortWriteComes, InvariantParts DEF ChipTyped
  <2>. QED BY <1>1, <1>2, <2>1, <2>2, InvariantParts DEF ChipTyped
<1>5. DriverTyped' /\ IdleWhenDone'
  BY <1>1, DriverGoes DEF IdleWhenDone
<1>6. StateExpected'
  <2>1. state \in {"writeStart", "randomWriteStart"}
    BY <1>1, InvariantParts DEF StateExpected, Expected
  <2>. QED BY <1>1, <1>2, <2>1 DEF StateExpected, Expected
<1>7. Latched'
  <2>1. step' # 0 => 2 \notin PartNow'.steps /\ 5 \notin PartNow'.steps
    <3>1. Parts(op) = Len(op.puts) + 1
      BY <1>1, ProgramShape
    <3>2. CASE part = Len(op.puts)
      <4>1. PartNow'.steps = {6}
        BY <1>1, <3>2, ProgramParts DEF PartNow
      <4>. QED BY <4>1
    <3>3. CASE part < Len(op.puts) /\ ~Moves(op, part + 1)
      BY <1>1, <3>1, <3>3, GoesOn DEF PartNow
    <3>. QED BY <1>1, <3>2, <3>3
  <2>2. rowAddr' = op.row
    BY <1>2, DataPortWriteComes
  <2>. QED BY <1>1, <2>1, <2>2 DEF Latched
<1>8. PointedRight'
  BY <1>1 DEF PointedRight, Reading
<1>9. LoadsRight'
  <2>1. ASSUME step' = 7
        PROVE  colAddr + (writeOffset + 1) = StoreColumn(op, part + 1, left)
    <3>1. /\ part < Len(op.puts) /\ ~Moves(op, part + 1)
          /\ op.puts[part + 1].column = op.puts[part].column + 1
          /\ op.puts[part].column \in Nat
      BY <1>1, <2>1, ProgramShape DEF Columns
    <3>2. FirstRun(op, part + 1) <=> FirstRun(op, part)
      <4>1. \A j : j \in 2..(part + 1) => j \in 2..part \/ j = part + 1
        BY <1>1
      <4>2. \A j \in 2..part : j \in 2..(part + 1)
        BY <1>1
      <4>. QED BY <3>1, <4>1, <4>2 DEF FirstRun
    <3>3. left \in Nat
      BY InvariantParts DEF ChipTyped
    <3>4. colAddr + writeOffset = StoreColumn(op, part, left)
      BY DataPortWriteComes
    <3>5. colAddr \in Nat /\ writeOffset \in Nat
      BY <1>3, Sizes DEF Columns
    <3>. QED BY <3>1, <3>2, <3>3, <3>4, <3>5 DEF StoreColumn
  <2>2. part + 1 > 1 /\ step' \notin {1, 2}
    BY <1>1
  <2>. QED BY <1>1, <1>2, <2>1, <2>2 DEF LoadsRight, Programming, EndsInProgram
<1>. QED BY <1>4, <1>5, <1>6, <1>7, <1>8, <1>9 DEF SafeInv

-----------------------------------------------------------------------------
(* The invariant of the accesses.                                          *)

LEMMA BeginsKeeps ==
    ASSUME SafeInv, NEW o \in Operations, Begins(o)
    PROVE  SafeInv'
<1>1. /\ op = None /\ op' = o /\ part' = 1 /\ step' = Begun(o, 1) /\ cut' = FALSE
      /\ state' = state /\ flashMap' = flashMap /\ dataPort' = dataPort
      /\ rowAddr' = rowAddr /\ colAddr' = colAddr /\ addrOffset' = addrOffset
      /\ writeBuffer' = writeBuffer /\ readOffset' = readOffset
      /\ writeOffset' = writeOffset /\ issued30h' = issued30h
      /\ left' = left /\ wild' = wild
  BY DEF Begins, Begun, address, buffers
<1>2. state = "init" /\ writeOffset = left
  BY <1>1, InvariantParts DEF IdleWhenDone, LoadsRight
<1>3. 1 \in 1..Parts(o)
  BY ReadShape, ProgramShape, OtherShape, Shapes
<1>4. step' = 0 /\ step' \in PartOf(o, 1).steps
  <2>1. o.kind = "program" => Len(o.puts) \in Nat /\ Len(o.puts) >= 1
    BY ProgramShape
  <2>2. Begun(o, 1) = 0
    BY <1>3, <2>1, ReadBegins, ProgramBegins, OthersBegin
  <2>. QED BY <1>1, <1>3, <2>2, PartSteps, LeastStep DEF Begun
<1>5. ChipTyped'
  <2>1. cut' \in BOOLEAN
    BY <1>1
  <2>. QED BY <1>1, <2>1, InvariantParts DEF ChipTyped
<1>6. DriverTyped' /\ IdleWhenDone'
  BY <1>1, <1>2, <1>3, <1>4 DEF DriverTyped, IdleWhenDone, PartNow
<1>7. StateExpected'
  BY <1>1, <1>2, <1>4 DEF StateExpected, Expected
<1>8. Latched'
  BY <1>1, <1>4 DEF Latched
<1>9. PointedRight'
  BY <1>1, <1>4 DEF PointedRight, Reading
<1>10. LoadsRight'
  BY <1>1, <1>2, <1>4 DEF LoadsRight, Programming, EndsInProgram
<1>. QED BY <1>5, <1>6, <1>7, <1>8, <1>9, <1>10 DEF SafeInv

(* A store outside the buffer is followed no further.                      *)
LEMMA DataPortOverrunsKeeps ==
    ASSUME SafeInv, DataPortOverruns
    PROVE  SafeInv'
<1>1. /\ op' = op /\ part' = part /\ step' = step /\ left' = left /\ cut' = cut
      /\ state' = state /\ flashMap' = flashMap /\ dataPort' = dataPort
      /\ rowAddr' = rowAddr /\ colAddr' = colAddr /\ addrOffset' = addrOffset
      /\ writeBuffer' = writeBuffer /\ readOffset' = readOffset
      /\ writeOffset' = writeOffset /\ issued30h' = issued30h
  BY DEF DataPortOverruns, address, buffers
<1>2. ChipTyped'
  <2>1. wild' \in BOOLEAN
    BY DEF DataPortOverruns
  <2>. QED BY <1>1, <2>1, InvariantParts DEF ChipTyped
<1>3. /\ DriverTyped' /\ IdleWhenDone' /\ StateExpected' /\ Latched'
      /\ PointedRight' /\ LoadsRight'
  BY <1>1, InvariantParts DEF DriverTyped, IdleWhenDone, StateExpected, Latched,
     PointedRight, Reading, LoadsRight, Programming, PartNow
<1>. QED BY <1>2, <1>3 DEF SafeInv

(* write_offset is the one thing of an operation that a reset leaves.      *)
LEMMA BoardResetsKeeps ==
    ASSUME SafeInv, BoardResets
    PROVE  SafeInv'
<1>1. /\ op' = None /\ cut' = TRUE /\ state' = "init" /\ writeBuffer' = BlankPage
      /\ flashMap' = flashMap /\ dataPort' = dataPort
      /\ rowAddr' = rowAddr /\ colAddr' = colAddr /\ addrOffset' = addrOffset
      /\ readOffset' = readOffset /\ writeOffset' = writeOffset
      /\ issued30h' = issued30h /\ left' = writeOffset /\ wild' = wild
  BY DEF BoardResets, address
<1>2. ChipTyped'
  <2>1. cut' \in BOOLEAN
    BY <1>1
  <2>. QED BY <1>1, <2>1, InvariantParts, States, BlankTyped DEF ChipTyped
<1>3. part' = 1 /\ step' = 0
  BY DEF BoardResets
<1>4. DriverTyped' /\ IdleWhenDone'
  BY <1>1, <1>3 DEF DriverTyped, IdleWhenDone
<1>5. StateExpected' /\ Latched' /\ PointedRight'
  BY <1>1 DEF StateExpected, Latched, PointedRight, Reading
<1>6. LoadsRight'
  BY <1>1 DEF LoadsRight, Programming, EndsInProgram
<1>. QED BY <1>2, <1>4, <1>5, <1>6 DEF SafeInv

LEMMA SafeInitially == Init => SafeInv
<1>. SUFFICES ASSUME Init PROVE SafeInv
  OBVIOUS
<1>1. ChipTyped
  <2>1. flashMap \in [Blocks -> Files \cup {NoFile}]
    BY DEF Init
  <2>2. dataPort \in [to : Targets, row : Rows]
    BY SizesOfProducts DEF Init, Targets
  <2>3. issued30h \in BOOLEAN /\ cut \in BOOLEAN /\ wild \in BOOLEAN
    BY DEF Init
  <2>. QED BY <2>1, <2>2, <2>3, BlankTyped, States, Sizes, SizesOfProducts
           DEF Init, ChipTyped
<1>. QED BY <1>1 DEF Init, SafeInv, DriverTyped, IdleWhenDone, StateExpected, Latched,
                     PointedRight, Reading, LoadsRight, Programming

LEMMA SafeStep ==
    ASSUME SafeInv, [Next]_vars
    PROVE  SafeInv'
<1>1. CASE \E o \in Operations : Begins(o)
  BY <1>1, BeginsKeeps
<1>2. CASE CommandPort
  BY <1>2, StartReadKeeps, StartWriteKeeps, StartRandomReadKeeps, StartEraseKeeps,
     ReadInfoKeeps, ResetCommandKeeps, ReadPageKeeps, ReadColumnKeeps,
     ReadForCopyKeeps, StartCopyKeeps, StartRandomWriteKeeps, ProgramKeeps, EraseKeeps
     DEF CommandPort
<1>3. CASE AddressPort
  BY <1>3, AddressPortKeeps
<1>4. CASE DataPortRead
  BY <1>4, DataPortReadKeeps
<1>5. CASE DataPortWrite
  BY <1>5, DataPortWriteKeeps
<1>6. CASE BoardResets
  BY <1>6, BoardResetsKeeps
<1>8. CASE DataPortOverruns
  BY <1>8, DataPortOverrunsKeeps
<1>7. CASE UNCHANGED vars
  BY <1>7 DEF SafeInv, ChipTyped, DriverTyped, IdleWhenDone, StateExpected, Latched,
              PointedRight, Reading, LoadsRight, Programming, PartNow,
              vars, address, buffers, driver
<1>. QED BY <1>1, <1>2, <1>3, <1>4, <1>5, <1>6, <1>7, <1>8 DEF Next

LEMMA TypesFollow == SafeInv => TypeOK
BY DEF SafeInv, TypeOK, ChipTyped, DriverTyped, IdleWhenDone, PartNow, Targets

(* The chip takes every access of every operation.                         *)
LEMMA NeverAbortsFollows == SafeInv => NeverAborts
<1>. SUFFICES ASSUME SafeInv, op # None PROVE Allowed(Access)
  BY DEF NeverAborts
<1>1. /\ op \in Operations /\ part \in Nat \ {0} /\ step \in PartNow.steps
      /\ step \in 0..7 /\ DriverTyped /\ state \in Expected(op, part, step)
      /\ part \in 1..Parts(op)
  BY InvariantParts, Steps DEF StateExpected, DriverTyped
<1>2. Access.port = "address" => addrOffset \in 0..4
  <2>1. step \in 1..5 => addrOffset = step - 1
    BY InvariantParts DEF Latched
  <2>. QED BY <1>1, <2>1, Ports
<1>3. ASSUME Access.port = "command"
      PROVE  /\ Access.value \in Accepted[state]
             /\ Access.value = \h05 /\ state = "init" => issued30h
  <2>1. /\ step \in {0, 6}
        /\ step = 0 => Access.value = PartNow.opens
        /\ step = 6 => Access.value = PartNow.confirms
    BY <1>1, <1>3, Ports
  <2>2. CASE op.kind = "read"
    <3>1. /\ PartNow.steps = IF part = 1 THEN 0..7
                             ELSE IF Moves(op, part) THEN {0, 1, 2, 6, 7} ELSE {7}
          /\ PartNow.opens = IF part = 1 THEN \h00 ELSE \h05
          /\ PartNow.confirms = IF part = 1 THEN \h30 ELSE \hE0
      BY <1>1, <2>2, ReadParts DEF PartNow
    <3>2. Access.value \in Accepted[state]
      BY <1>1, <2>1, <2>2, <3>1 DEF Expected, Accepted
    <3>3. ASSUME Access.value = \h05, state = "init"
          PROVE  issued30h
      <4>1. part > 1 /\ step = 0 /\ Moves(op, part)
        BY <1>1, <2>1, <3>1, <3>3
      <4>2. \A j \in 1..part : Moves(op, j) => j = part
        BY <1>1, <2>2, <4>1, ReadShape
      <4>. QED BY <2>2, <4>1, <4>2, InvariantParts DEF PointedRight, Reading
    <3>. QED BY <3>2, <3>3
  <2>3. CASE op.kind = "program"
    <3>0. Len(op.puts) \in Nat /\ Len(op.puts) >= 1
      BY <1>1, <2>3, ProgramShape
    <3>1. /\ PartNow.opens = IF part = 1 \/ part > Len(op.puts) THEN \h80 ELSE \h85
          /\ PartNow.confirms = \h10
          /\ PartNow.steps = IF part > Len(op.puts) THEN {6}
                             ELSE IF part = 1 THEN {0, 1, 2, 3, 4, 5, 7}
                             ELSE IF Moves(op, part) THEN {0, 1, 2, 7} ELSE {7}
      BY <1>1, <2>3, <3>0, ProgramParts DEF PartNow
    <3>2. CASE step = 0
      BY <1>1, <2>1, <2>3, <3>0, <3>1, <3>2 DEF Expected, Accepted
    <3>3. CASE step = 6
      <4>1. part > 1
        BY <1>1, <3>0, <3>1, <3>3
      <4>. QED BY <1>1, <2>1, <2>3, <3>1, <3>3, <4>1 DEF Expected, Accepted
    <3>. QED BY <2>1, <3>2, <3>3
  <2>4. CASE op.kind = "copy"
    <3>1. part \in 1..2
      BY <1>1, <2>4, OtherShape
    <3>. QED BY <1>1, <2>1, <2>4, <3>1, CopyParts DEF Expected, Accepted, PartNow
  <2>5. CASE op.kind = "erase"
    BY <1>1, <2>1, <2>5, EraseParts DEF Expected, Accepted, PartNow
  <2>6. CASE op.kind = "id"
    BY <1>1, <2>1, <2>6, IdParts DEF Expected, Accepted, PartNow
  <2>7. CASE op.kind = "status"
    BY <1>1, <2>1, <2>7, StatusParts DEF Expected, Accepted, PartNow
  <2>8. CASE op.kind = "abandon"
    BY <1>1, <2>1, <2>8, AbandonParts DEF Expected, Accepted, PartNow
  <2>9. CASE op.kind = "reset"
    BY <1>1, <2>1, <2>9, ResetParts DEF Expected, Accepted, PartNow
  <2>. QED BY <1>1, <2>2, <2>3, <2>4, <2>5, <2>6, <2>7, <2>8, <2>9, Shapes
<1>. QED BY <1>2, <1>3 DEF Allowed

LEMMA InBoundsFollows == SafeInv => DataPortInBounds
<1>. SUFFICES ASSUME SafeInv, op # None
              PROVE  /\ Access.port = "in" =>
                            \/ colAddr + writeOffset \in Columns
                            \/ left > 0 /\ FirstRun(op, part)
                     /\ Access.port = "out" => readOffset \in DOMAIN Pointed
  BY DEF DataPortInBounds
<1>1. /\ op \in Operations /\ part \in 1..Parts(op) /\ step \in PartNow.steps
      /\ part \in Nat \ {0} /\ DriverTyped
  BY InvariantParts, Steps DEF DriverTyped
<1>2. ASSUME Access.port = "in"
      PROVE  colAddr + writeOffset \in Columns \/ (left > 0 /\ FirstRun(op, part))
  <2>1. step = 7 /\ op.kind = "program"
    BY <1>1, <1>2, Ports
  <2>2. colAddr + writeOffset = StoreColumn(op, part, left) /\ left \in Nat
    BY <2>1, InvariantParts DEF LoadsRight, Programming, ChipTyped
  <2>3. Len(op.puts) \in Nat /\ Len(op.puts) >= 1
    BY <1>1, <2>1, ProgramShape
  <2>4. part \in 1..Len(op.puts)
    <3>1. part > Len(op.puts) => PartNow.steps = {6}
      BY <1>1, <2>1, <2>3, ProgramParts DEF PartNow
    <3>. QED BY <1>1, <2>1, <2>3, <3>1
  <2>5. op.puts[part].column \in Columns
    BY <1>1, <2>1, <2>4, ProgramShape
  <2>. QED BY <2>2, <2>5 DEF StoreColumn, Columns
<1>3. ASSUME Access.port = "out"
      PROVE  readOffset \in DOMAIN Pointed
  <2>1. step = 7 /\ op.kind # "program"
    BY <1>1, <1>3, Ports
  <2>2. op.kind \in {"read", "id", "status"}
    BY <1>1, <2>1, Steps
  <2>3. CASE op.kind = "read"
    <3>1. /\ dataPort.to \in {"fake", "array"} /\ dataPort.row = op.row
          /\ readOffset = op.columns[part]
      BY <2>1, <2>3, InvariantParts DEF PointedRight, Reading
    <3>2. op.row \in Rows /\ op.columns[part] \in Columns
      BY <1>1, <2>3, ReadShape
    <3>3. FileOf(op.row)[PageNo(op.row)] \in [Columns -> Bytes]
      BY <3>2, InvariantParts, FileTyped DEF ChipTyped
    <3>4. DOMAIN Pointed = Columns
      BY <3>1, <3>3 DEF Pointed
    <3>. QED BY <3>1, <3>2, <3>4
  <2>4. CASE op.kind = "id"
    <3>1. dataPort.to = "id" /\ readOffset = part - 1
      BY <2>1, <2>4, InvariantParts DEF PointedRight
    <3>2. part \in 1..5
      BY <1>1, <2>4, OtherShape
    <3>. QED BY <3>1, <3>2 DEF Pointed
  <2>5. CASE op.kind = "status"
    <3>1. dataPort.to = "status" /\ readOffset = 0
      BY <2>1, <2>5, InvariantParts DEF PointedRight
    <3>. QED BY <3>1 DEF Pointed
  <2>. QED BY <2>2, <2>3, <2>4, <2>5
<1>. QED BY <1>2, <1>3
-----------------------------------------------------------------------------
(* Whatever the driver does and whenever the board is reset, there is      *)
(* agreement between the chip's registers and the     *)
(* place the driver has reached: its state, the address latched so far,    *)
(* where the data port points, and where the next byte is loaded           *)
(* (dev_nand_flash_1g_access and its two helpers).                         *)
THEOREM SafeInductive == Spec => []SafeInv
<1>1. SafeInv /\ [Next]_vars => SafeInv'
  BY SafeStep
<1>. QED BY <1>1, SafeInitially, PTL DEF Spec

(* The registers of the chip keep their types, rowAddr and colAddr name a  *)
(* page and a column of the chip however the address was built up, and the *)
(* machine is back in its first state whenever the driver has finished.    *)
THEOREM TypesHold == Spec => []TypeOK
<1>. QED BY SafeInductive, TypesFollow, PTL

(* No sequence of the listed operations fails an assertion of              *)
(* dev_nand_flash_1g.c, in chips and pages of any size.                    *)
THEOREM NothingAborts == Spec => []NeverAborts
<1>. QED BY SafeInductive, NeverAbortsFollows, PTL

(* The data port never reaches outside the page or the answer it points    *)
(* into, nor outside the buffer it loads but in the first run of a page,   *)
(* after a reset has cut the program before it short.                      *)
THEOREM DataStaysInBounds == Spec => []DataPortInBounds
<1>. QED BY SafeInductive, InBoundsFollows, PTL

-----------------------------------------------------------------------------
(* What is loaded, and what is written.                                    *)

LEMMA GreatestElement ==
    ASSUME NEW n \in Nat, NEW T \in SUBSET (1..n), T # {}
    PROVE  \E m \in T : \A k \in T : k <= m
<1>. DEFINE R == {i \in 0..n : n - i \in T}
<1>1. R \in SUBSET Nat
  OBVIOUS
<1>2. R # {}
  <2>1. PICK k \in T : TRUE
    OBVIOUS
  <2>2. n - k \in 0..n /\ n - (n - k) = k
    OBVIOUS
  <2>. QED BY <2>1, <2>2
<1>3. PICK i \in R : \A j \in R : i <= j
  BY <1>1, <1>2, LeastElement
<1>4. \A k \in T : n - k \in R
  OBVIOUS
<1>. QED BY <1>3, <1>4

(* Bytes put into a blank buffer one after another are the page that Flash *)
(* makes of them: the last byte put into a column counts.                  *)
LEMMA BufferLoaded ==
    ASSUME NEW n \in Nat, NEW puts, DOMAIN puts = 1..n,
           NEW buffer \in [Columns -> Bytes], Holds(buffer, puts, n)
    PROVE  buffer = Chip!Loaded(puts)
<1>1. n \in Nat /\ DOMAIN puts = 1..n
  OBVIOUS
<1>. DEFINE At(c) == {i \in DOMAIN puts : puts[i].column = c}
            LastAt(c) == CHOOSE x \in At(c) : \A y \in At(c) : x >= y
<1>2. ASSUME NEW c \in Columns
      PROVE  buffer[c] = IF At(c) = {} THEN Blank ELSE puts[LastAt(c)].byte
  <2>1. CASE At(c) = {}
    <3>1. \A j \in 1..n : puts[j].column # c
      BY <1>1, <2>1
    <3>. QED BY <2>1, <3>1 DEF Holds
  <2>2. CASE At(c) # {}
    <3>1. At(c) \in SUBSET (1..n)
      BY <1>1
    <3>2. \E m \in At(c) : \A k \in At(c) : k <= m
      BY <1>1, <2>2, <3>1, GreatestElement
    <3>3. \E m \in At(c) : \A k \in At(c) : m >= k
      BY <1>1, <3>1, <3>2
    <3>4. LastAt(c) \in At(c) /\ \A k \in At(c) : LastAt(c) >= k
      BY <3>3
    <3>. HIDE DEF LastAt
    <3>5. LastAt(c) \in 1..n /\ puts[LastAt(c)].column = c
      BY <1>1, <3>4
    <3>6. \A m \in (LastAt(c) + 1)..n : puts[m].column # c
      <4>1. ASSUME NEW m \in (LastAt(c) + 1)..n, puts[m].column = c
            PROVE  FALSE
        <5>1. m \in 1..n /\ ~(LastAt(c) >= m)
          BY <1>1, <3>5, <4>1
        <5>. QED BY <1>1, <3>4, <4>1, <5>1
      <4>. QED BY <4>1
    <3>. QED BY <2>2, <3>5, <3>6 DEF Holds
  <2>. QED BY <2>1, <2>2
<1>3. Chip!Loaded(puts) = [c \in Columns |-> IF At(c) = {} THEN Blank
                                               ELSE puts[LastAt(c)].byte]
  BY DEF Chip!Loaded, Chip!Max
<1>. HIDE DEF At, LastAt
<1>. QED BY <1>2, <1>3

(* The bytes of a program, displaced, keep their order and their values.   *)
LEMMA DisplacedIs ==
    ASSUME NEW o \in Operations, o.kind = "program", NEW n \in Nat
    PROVE  /\ DOMAIN Chip!Displaced(o.puts, n) = 1..Len(o.puts)
           /\ \A i \in 1..Len(o.puts) :
                  /\ Chip!Displaced(o.puts, n)[i].column = StoreColumn(o, i, n)
                  /\ Chip!Displaced(o.puts, n)[i].byte = o.puts[i].byte
<1>. DEFINE P == [column : Columns, byte : Bytes]
<1>0. o.puts \in Seq(P)
  BY Shapes
<1>5. \A u \in P : /\ u.column \in Nat
                  /\ [u EXCEPT !.column = @ + n].column = u.column + n
                  /\ [u EXCEPT !.column = @ + n].byte = u.byte
  BY DEF Columns
<1>. HIDE DEF P
<1>1. DOMAIN o.puts = 1..Len(o.puts) /\ \A i \in 1..Len(o.puts) : o.puts[i] \in P
  BY <1>0
<1>2. Chip!Displaced(o.puts, n) =
          [i \in 1..Len(o.puts) |-> IF Chip!Moved(o.puts, i) THEN o.puts[i]
                                    ELSE [o.puts[i] EXCEPT !.column = @ + n]]
  BY <1>1 DEF Chip!Displaced
<1>3. ASSUME NEW i \in 1..Len(o.puts)
      PROVE  Chip!Moved(o.puts, i) <=> ~FirstRun(o, i)
  <2>1. \A j \in 2..i : Moves(o, j) <=> o.puts[j].column # o.puts[j - 1].column + 1
    BY DEF Moves, ColumnOf
  <2>. QED BY <2>1 DEF Chip!Moved, FirstRun
<1>4. ASSUME NEW i \in 1..Len(o.puts)
      PROVE  /\ Chip!Displaced(o.puts, n)[i].column = StoreColumn(o, i, n)
             /\ Chip!Displaced(o.puts, n)[i].byte = o.puts[i].byte
  <2>1. o.puts[i] \in P
    BY <1>1
  <2>2. o.puts[i].column \in Nat
    BY <1>5, <2>1
  <2>3. CASE Chip!Moved(o.puts, i)
    <3>1. Chip!Displaced(o.puts, n)[i] = o.puts[i]
      BY <1>2, <2>3
    <3>. QED BY <1>3, <2>2, <2>3, <3>1 DEF StoreColumn
  <2>4. CASE ~Chip!Moved(o.puts, i)
    <3>1. Chip!Displaced(o.puts, n)[i] = [o.puts[i] EXCEPT !.column = @ + n]
      BY <1>2, <2>4
    <3>2. /\ [o.puts[i] EXCEPT !.column = @ + n].column = o.puts[i].column + n
          /\ [o.puts[i] EXCEPT !.column = @ + n].byte = o.puts[i].byte
      BY <1>5, <2>1
    <3>. QED BY <1>3, <2>4, <3>1, <3>2 DEF StoreColumn
  <2>. QED BY <2>3, <2>4
<1>. QED BY <1>2, <1>4

LEMMA WrittenMerges ==
    /\ \A page : Written(page) = Chip!Merge(page, writeBuffer)
    /\ \A page \in [Columns -> Bytes] : Chip!Merge(page, BlankPage) = page
BY DEF Written, Chip!Merge, BlankPage

(* Only the pages of the block named change.                               *)
LEMMA PagesAfter ==
    ASSUME ChipTyped, NEW b \in Blocks, NEW f \in Files,
           flashMap' = [flashMap EXCEPT ![b] = f], NEW r \in Rows
    PROVE  PageAt(r)' = IF BlockNo(r) = b THEN f[PageNo(r)] ELSE PageAt(r)
<1>1. BlockNo(r) \in Blocks /\ flashMap \in [Blocks -> Files \cup {NoFile}]
  BY RowPlace DEF ChipTyped
<1>2. flashMap'[BlockNo(r)] = IF BlockNo(r) = b THEN f ELSE flashMap[BlockNo(r)]
  BY <1>1
<1>3. f # NoFile
  BY NandAssumption
<1>. QED BY <1>2, <1>3 DEF PageAt, FileOf

LEMMA ProgramWrites ==
    ASSUME SafeInv, Program, NEW r \in Rows
    PROVE  PageAt(r)' = IF r = rowAddr THEN Written(PageAt(r)) ELSE PageAt(r)
<1>1. ChipTyped /\ rowAddr \in Rows
  BY InvariantParts DEF ChipTyped
<1>2. flashMap' = [flashMap EXCEPT ![BlockNo(rowAddr)] = Programmed(rowAddr)]
  BY DEF Program, Programmed
<1>3. /\ BlockNo(rowAddr) \in Blocks /\ Programmed(rowAddr) \in Files
      /\ PageNo(r) \in 0..(PagesPerBlock - 1)
  BY <1>1, RowPlace, ProgrammedIs
<1>4. PageAt(r)' = IF BlockNo(r) = BlockNo(rowAddr) THEN Programmed(rowAddr)[PageNo(r)]
                 ELSE PageAt(r)
  BY <1>1, <1>2, <1>3, PagesAfter
<1>5. Programmed(rowAddr)[PageNo(r)] =
          IF PageNo(r) = PageNo(rowAddr) THEN Written(FileOf(rowAddr)[PageNo(r)])
          ELSE FileOf(rowAddr)[PageNo(r)]
  BY <1>1, <1>3, ProgrammedIs
<1>6. BlockNo(r) = BlockNo(rowAddr) => FileOf(r) = FileOf(rowAddr)
  BY DEF FileOf
<1>7. r = rowAddr <=> BlockNo(r) = BlockNo(rowAddr) /\ PageNo(r) = PageNo(rowAddr)
  <2>1. /\ r = PageNo(r) + BlockNo(r) * PagesPerBlock
        /\ rowAddr = PageNo(rowAddr) + BlockNo(rowAddr) * PagesPerBlock
    BY <1>1, RowPlace
  <2>. QED BY <2>1
<1>. QED BY <1>4, <1>5, <1>6, <1>7 DEF PageAt

LEMMA EraseBlanks ==
    ASSUME SafeInv, Erase, NEW r \in Rows
    PROVE  PageAt(r)' = IF BlockNo(r) = BlockNo(rowAddr) THEN BlankPage ELSE PageAt(r)
<1>1. ChipTyped /\ rowAddr \in Rows
  BY InvariantParts DEF ChipTyped
<1>2. /\ flashMap' = [flashMap EXCEPT ![BlockNo(rowAddr)] = BlankBlock]
      /\ BlockNo(rowAddr) \in Blocks /\ BlankBlock \in Files
      /\ PageNo(r) \in 0..(PagesPerBlock - 1)
  BY <1>1, RowPlace, BlankTyped DEF Erase
<1>3. BlankBlock[PageNo(r)] = BlankPage
  BY <1>2 DEF BlankBlock
<1>. QED BY <1>1, <1>2, <1>3, PagesAfter

LEMMA PageTyped ==
    ASSUME ChipTyped, NEW r \in Rows
    PROVE  PageAt(r) \in [Columns -> Bytes]
BY FileTyped DEF PageAt, ChipTyped

-----------------------------------------------------------------------------
(* Steps that change nothing Flash knows of.                               *)

LEMMA QuietKeeps ==
    ASSUME DataInv, op # None,
           op' = op, left' = left, part' = part, flashMap' = flashMap, writeBuffer' = writeBuffer,
           answers' = answers, cut' = cut,
           op.kind = "program" => part > 1 \/ step > 0
    PROVE  DataInv' /\ UNCHANGED Chip!vars
<1>1. Loading'
  BY DEF DataInv, Loading, Programming, Holds
<1>2. \A r : PageAt(r)' = PageAt(r)
  BY DEF PageAt, FileOf
<1>3. Answering'
  BY <1>2 DEF DataInv, Answering, Answered, Due
<1>5. UNCHANGED Chip!vars
  BY <1>2 DEF Chip!vars
<1>. QED BY <1>1, <1>3, <1>5 DEF DataInv

LEMMA DoneKeeps ==
    ASSUME op' = None
    PROVE  DataInv'
BY DEF DataInv, Loading, Programming, Answering, Answered

LEMMA PagesStay ==
    ASSUME flashMap' = flashMap
    PROVE  /\ \A r : PageAt(r)' = PageAt(r)
           /\ [r \in Rows |-> PageAt(r)]' = [r \in Rows |-> PageAt(r)]
BY DEF PageAt, FileOf

-----------------------------------------------------------------------------
(* Each action keeps it, and is a step of Flash or none.                   *)
FlashStep == [Chip!Next]_(Chip!vars)

LEMMA CommandsRefine ==
    ASSUME IInv,
           StartRead \/ StartRandomRead \/ StartErase \/ ReadInfo(\h90, "id")
           \/ ReadInfo(\h70, "status") \/ ReadPage \/ ReadColumn \/ StartCopy
           \/ StartRandomWrite
    PROVE  DataInv' /\ FlashStep
<1>1. DriverTyped /\ StateExpected /\ DataInv
  BY InvariantParts DEF IInv
<1>2. /\ op # None /\ op' = op /\ left' = left /\ part' = part /\ flashMap' = flashMap
      /\ writeBuffer' = writeBuffer /\ answers' = answers /\ cut' = cut
      /\ op.kind = "program" => part > 1 \/ step > 0
  <2>1. CASE StartRead
    <3>1. Takes("init", \h00) /\ flashMap' = flashMap /\ writeBuffer' = writeBuffer
      BY <2>1 DEF StartRead, Idle, buffers
    <3>. QED BY <1>1, <3>1, TakesMeans, StartReadComes DEF Goes
  <2>2. CASE StartRandomRead
    <3>1. /\ Takes("init", \h05) \/ Takes("randomReadStart", \h05)
          /\ flashMap' = flashMap /\ writeBuffer' = writeBuffer
      BY <2>2 DEF StartRandomRead, Idle, buffers
    <3>. QED BY <1>1, <3>1, TakesMeans, StartRandomReadComes DEF Goes
  <2>3. CASE StartErase
    <3>1. Takes("init", \h60) /\ flashMap' = flashMap /\ writeBuffer' = writeBuffer
      BY <2>3 DEF StartErase, Idle, buffers
    <3>. QED BY <1>1, <3>1, TakesMeans, StartEraseComes DEF Goes
  <2>4. CASE ReadInfo(\h90, "id")
    <3>1. Takes("init", \h90) /\ flashMap' = flashMap /\ writeBuffer' = writeBuffer
      BY <2>4 DEF ReadInfo
    <3>. QED BY <1>1, <3>1, TakesMeans, ReadIdComes DEF Goes
  <2>5. CASE ReadInfo(\h70, "status")
    <3>1. Takes("init", \h70) /\ flashMap' = flashMap /\ writeBuffer' = writeBuffer
      BY <2>5 DEF ReadInfo
    <3>. QED BY <1>1, <3>1, TakesMeans, ReadStatusComes DEF Goes
  <2>6. CASE ReadPage
    <3>1. Takes("readStart", \h30) /\ flashMap' = flashMap /\ writeBuffer' = writeBuffer
      BY <2>6 DEF ReadPage, PointsToPage
    <3>. QED BY <1>1, <3>1, TakesMeans, ReadPageComes DEF Goes
  <2>7. CASE ReadColumn
    <3>1. /\ Takes("randomReadStart", \hE0)
          /\ flashMap' = flashMap /\ writeBuffer' = writeBuffer
      BY <2>7 DEF ReadColumn, PointsToPage
    <3>. QED BY <1>1, <3>1, TakesMeans, ReadColumnComes DEF Goes
  <2>8. CASE StartCopy
    <3>1. /\ Takes("readPageForCopy", \h85)
          /\ flashMap' = flashMap /\ writeBuffer' = writeBuffer
      BY <2>8 DEF StartCopy, Idle
    <3>. QED BY <1>1, <3>1, TakesMeans, StartCopyComes DEF Goes
  <2>9. CASE StartRandomWrite
    <3>1. /\ \E s \in {"writeStart", "randomWriteStart", "copyStart"} : Takes(s, \h85)
          /\ flashMap' = flashMap /\ writeBuffer' = writeBuffer
      BY <2>9 DEF StartRandomWrite, Idle
    <3>. QED BY <1>1, <3>1, TakesMeans, StartRandomWriteComes DEF Goes
  <2>. QED BY <2>1, <2>2, <2>3, <2>4, <2>5, <2>6, <2>7, <2>8, <2>9
<1>. QED BY <1>1, <1>2, QuietKeeps DEF FlashStep

LEMMA AddressPortRefines ==
    ASSUME IInv, AddressPort
    PROVE  DataInv' /\ FlashStep
<1>1. SafeInv /\ DataInv
  BY DEF IInv
<1>2. op # None /\ step \in 1..5 /\ Continues /\ DriverTyped
  BY <1>1, AddressLatches, InvariantParts
<1>3. op' = op /\ left' = left /\ part' = part
  BY <1>2, AddressWalk
<1>4. /\ flashMap' = flashMap /\ writeBuffer' = writeBuffer
      /\ answers' = answers /\ cut' = cut
  BY DEF AddressPort, Accessed, buffers
<1>. QED BY <1>1, <1>2, <1>3, <1>4, QuietKeeps DEF FlashStep

LEMMA StartWriteRefines ==
    ASSUME IInv, StartWrite
    PROVE  DataInv' /\ FlashStep
<1>1. Takes("init", \h80) /\ flashMap' = flashMap /\ writeBuffer' = BlankPage
  BY DEF StartWrite, Idle
<1>2. /\ op # None /\ op' = op /\ left' = left /\ part' = 1 /\ part = 1 /\ op.kind = "program"
      /\ answers' = answers /\ cut' = cut
  BY <1>1, TakesMeans, StartWriteComes, InvariantParts DEF IInv, Goes
<1>3. Loading'
  <2>1. Holds(writeBuffer', Chip!Displaced(op.puts, left), 0)
    BY <1>1 DEF Holds, BlankPage
  <2>. QED BY <1>2, <2>1 DEF Loading, Programming
<1>4. Answering'
  BY <1>2 DEF IInv, DataInv, Answering, Answered
<1>6. UNCHANGED Chip!vars
  BY <1>1, <1>2 DEF Chip!vars, PageAt, FileOf
<1>. QED BY <1>3, <1>4, <1>6 DEF DataInv, FlashStep

LEMMA ReadForCopyRefines ==
    ASSUME IInv, ReadForCopy
    PROVE  DataInv' /\ FlashStep
<1>1. Takes("readStart", \h35) /\ flashMap' = flashMap /\ writeBuffer' = BlankPage
  BY DEF ReadForCopy, Idle
<1>2. /\ op # None /\ op' = op /\ left' = left /\ part' = 2 /\ op.kind = "copy"
      /\ answers' = answers /\ cut' = cut
  BY <1>1, TakesMeans, ReadForCopyComes, InvariantParts DEF IInv, Goes
<1>3. Loading'
  BY <1>1, <1>2 DEF Loading, Programming
<1>4. Answering'
  BY <1>2 DEF IInv, DataInv, Answering, Answered
<1>6. UNCHANGED Chip!vars
  BY <1>1, <1>2 DEF Chip!vars, PageAt, FileOf
<1>. QED BY <1>3, <1>4, <1>6 DEF DataInv, FlashStep

LEMMA ResetCommandRefines ==
    ASSUME IInv, ResetCommand
    PROVE  DataInv' /\ FlashStep
<1>1. /\ Takes("init", \hFF) \/ Takes("readStart", \hFF)
      /\ flashMap' = flashMap
  BY DEF ResetCommand, Idle
<1>2. /\ op # None /\ op.kind \in {"reset", "abandon"} /\ op' = None
      /\ answers' = answers /\ cut' = cut
      /\ left' = IF EndsInProgram(op) THEN 0 ELSE left
  BY <1>1, TakesMeans, ResetCommandComes, InvariantParts DEF IInv, Ends
<1>3. DataInv'
  BY <1>2, DoneKeeps
<1>4. [r \in Rows |-> PageAt(r)]' = [r \in Rows |-> PageAt(r)]
  BY <1>1, PagesStay
<1>5. Chip!Applies
  BY <1>2, <1>4 DEF Chip!Applies, Chip!Promised, Chip!After, Chip!EndsInProgram,
     EndsInProgram
<1>. QED BY <1>3, <1>5 DEF FlashStep, Chip!Next

LEMMA DataPortWriteRefines ==
    ASSUME IInv, DataPortWrite
    PROVE  DataInv' /\ FlashStep
<1>. DEFINE puts == Chip!Displaced(op.puts, left)
<1>1. SafeInv /\ DataInv
  BY DEF IInv
<1>2. /\ op # None /\ step = 7 /\ op.kind = "program" /\ op \in Operations
      /\ Len(op.puts) \in Nat /\ part \in 1..Len(op.puts)
      /\ op' = op /\ left' = left /\ part' = part + 1
      /\ puts[part].column = colAddr + writeOffset
      /\ puts[part].byte = Access.value
      /\ puts[part].column \in Columns
  <2>1. /\ op # None /\ step = 7 /\ op.kind = "program" /\ op \in Operations
        /\ Len(op.puts) \in Nat /\ part \in 1..Len(op.puts)
        /\ colAddr + writeOffset = StoreColumn(op, part, left)
        /\ colAddr + writeOffset \in Columns
        /\ Access.value = op.puts[part].byte
        /\ op' = op /\ left' = left /\ part' = part + 1
    BY <1>1, DataPortWriteComes, InvariantParts DEF DriverTyped
  <2>2. left \in Nat
    BY <1>1, InvariantParts DEF ChipTyped
  <2>. QED BY <2>1, <2>2, DisplacedIs
<1>. HIDE DEF puts
<1>3. /\ flashMap' = flashMap /\ answers' = answers /\ cut' = cut
      /\ writeBuffer' = [writeBuffer EXCEPT ![puts[part].column] = puts[part].byte]
  BY <1>2 DEF DataPortWrite, Accessed
<1>4. writeBuffer \in [Columns -> Bytes] /\ Holds(writeBuffer, puts, part - 1)
  BY <1>1, <1>2, InvariantParts DEF ChipTyped, DataInv, Loading, Programming, puts
<1>5. Holds(writeBuffer', puts, part)
  <2>. SUFFICES ASSUME NEW c \in Columns
       PROVE  /\ (\A j \in 1..part : puts[j].column # c) => writeBuffer'[c] = Blank
              /\ \A j \in 1..part :
                     puts[j].column = c
                     /\ (\A m \in (j + 1)..part : puts[m].column # c)
                     => writeBuffer'[c] = puts[j].byte
    BY DEF Holds
  <2>1. CASE c = puts[part].column
    <3>1. writeBuffer'[c] = puts[part].byte
      BY <1>2, <1>3, <1>4, <2>1
    <3>2. ASSUME NEW j \in 1..part, \A m \in (j + 1)..part : puts[m].column # c
          PROVE  j = part
      <4>1. j < part => part \in (j + 1)..part
        BY <1>2
      <4>. QED BY <1>2, <2>1, <3>2, <4>1
    <3>. QED BY <1>2, <2>1, <3>1, <3>2
  <2>2. CASE c # puts[part].column
    <3>1. writeBuffer'[c] = writeBuffer[c]
      BY <1>3, <1>4, <2>2
    <3>2. \A j \in 1..part : puts[j].column = c => j \in 1..(part - 1)
      BY <1>2, <2>2
    <3>3. \A j \in 1..(part - 1) :
             /\ j \in 1..part
             /\ \A m \in (j + 1)..(part - 1) : m \in (j + 1)..part
      BY <1>2
    <3>. QED BY <1>4, <3>1, <3>2, <3>3 DEF Holds
  <2>. QED BY <2>1, <2>2
<1>6. Loading'
  <2>1. part' - 1 = part
    BY <1>2
  <2>. QED BY <1>2, <1>5, <2>1 DEF Loading, Programming, puts
<1>7. Answering'
  BY <1>1, <1>2, <1>3 DEF DataInv, Answering, Answered
<1>9. UNCHANGED Chip!vars
  BY <1>2, <1>3, PagesStay DEF Chip!vars
<1>. QED BY <1>6, <1>7, <1>9 DEF DataInv, FlashStep

LEMMA ProgramRefines ==
    ASSUME IInv, Program
    PROVE  DataInv' /\ FlashStep
<1>1. SafeInv /\ DataInv /\ ChipTyped /\ DriverTyped /\ StateExpected
  BY InvariantParts DEF IInv
<1>2. \E s \in {"writeStart", "randomWriteStart", "copyStart"} : Takes(s, \h10)
  BY DEF Program
<1>3. /\ op # None /\ op' = None /\ op \in Operations /\ part \in Nat \ {0}
      /\ answers' = answers /\ cut' = cut /\ left' = 0
      /\ \/ op.kind = "program" /\ part = Len(op.puts) + 1
         \/ op.kind = "copy" /\ part = 2
  BY <1>1, <1>2, TakesMeans, ProgramComes, Steps DEF Ends, EndsInProgram
<1>4. \A r \in Rows : /\ PageAt(r) \in [Columns -> Bytes]
                      /\ PageAt(r)' = IF r = rowAddr THEN Written(PageAt(r))
                                                     ELSE PageAt(r)
  BY <1>1, ProgramWrites, PageTyped
<1>5. Chip!Promised(op) = <<>> /\ Chip!EndsInProgram(op)
  BY <1>3 DEF Chip!Promised, Chip!EndsInProgram
<1>6. CASE op.kind = "program"
  <2>. DEFINE puts == Chip!Displaced(op.puts, left)
  <2>1. /\ Len(op.puts) \in Nat /\ Len(op.puts) >= 1 /\ part > 1
        /\ part - 1 = Len(op.puts) /\ op.row \in Rows
    BY <1>3, <1>6, ProgramShape
  <2>2. rowAddr = op.row
    BY <1>1, <1>3, <1>6, <2>1, InvariantParts DEF Latched
  <2>3. writeBuffer = Chip!Loaded(puts)
    <3>1. writeBuffer \in [Columns -> Bytes] /\ Holds(writeBuffer, puts, Len(op.puts))
      BY <1>1, <1>3, <1>6, <2>1 DEF ChipTyped, DataInv, Loading, Programming
    <3>2. DOMAIN puts = 1..Len(op.puts)
      BY <1>1, <1>3, <1>6, DisplacedIs DEF ChipTyped
    <3>. QED BY <2>1, <3>1, <3>2, BufferLoaded
  <2>. HIDE DEF puts
  <2>5. \A r \in Rows : PageAt(r)' = IF r = op.row
                                     THEN Chip!Merge(PageAt(r), Chip!Loaded(puts))
                                     ELSE PageAt(r)
    BY <1>4, <2>2, <2>3, WrittenMerges
  <2>6. [r \in Rows |-> PageAt(r)]' =
            [[r \in Rows |-> PageAt(r)] EXCEPT
                 ![op.row] = Chip!Merge(@, Chip!Loaded(puts))]
    BY <2>1, <2>5
  <2>7. Chip!Applies
    BY <1>3, <1>5, <1>6, <2>6 DEF Chip!Applies, Chip!After, puts
  <2>. QED BY <1>3, <2>7, DoneKeeps DEF FlashStep, Chip!Next
<1>7. CASE op.kind = "copy"
  <2>1. writeBuffer = BlankPage
    BY <1>1, <1>3, <1>7 DEF DataInv, Loading
  <2>2. \A r \in Rows : PageAt(r)' = PageAt(r)
    BY <1>4, <2>1, WrittenMerges
  <2>3. [r \in Rows |-> PageAt(r)]' = [r \in Rows |-> PageAt(r)]
    BY <2>2
  <2>4. Chip!Applies
    BY <1>3, <1>5, <1>7, <2>3 DEF Chip!Applies, Chip!After
  <2>. QED BY <1>3, <2>4, DoneKeeps DEF FlashStep, Chip!Next
<1>. QED BY <1>3, <1>6, <1>7

LEMMA EraseRefines ==
    ASSUME IInv, Erase
    PROVE  DataInv' /\ FlashStep
<1>1. SafeInv /\ DataInv /\ DriverTyped /\ StateExpected
  BY InvariantParts DEF IInv
<1>2. Takes("eraseStart", \hD0)
  BY DEF Erase
<1>3. /\ op # None /\ op.kind = "erase" /\ part = 1 /\ step = 6 /\ op' = None
      /\ op \in Operations /\ answers' = answers /\ cut' = cut
      /\ left' = IF EndsInProgram(op) THEN 0 ELSE left
  BY <1>1, <1>2, TakesMeans, EraseComes, Steps DEF Ends
<1>4. rowAddr = op.row
  <2>1. 5 \in PartNow.steps /\ PartNow.row = op.row
    BY <1>3, EraseParts DEF PartNow
  <2>. QED BY <1>1, <1>3, <2>1, InvariantParts DEF Latched
<1>5. \A r \in Rows : PageAt(r)' = IF BlockNo(r) = BlockNo(op.row) THEN BlankPage
                                 ELSE PageAt(r)
  BY <1>1, <1>4, EraseBlanks
<1>7. [r \in Rows |-> PageAt(r)]' =
          [r \in Rows |-> IF Chip!Block(r) = Chip!Block(op.row) THEN Chip!BlankPage
                          ELSE [q \in Rows |-> PageAt(q)][r]]
  BY <1>5 DEF Chip!Block, Chip!BlankPage, BlockNo, BlankPage
<1>8. Chip!Applies
  BY <1>3, <1>7 DEF Chip!Applies, Chip!Promised, Chip!After, Chip!EndsInProgram,
     EndsInProgram
<1>. QED BY <1>3, <1>8, DoneKeeps DEF FlashStep, Chip!Next

-----------------------------------------------------------------------------
(* The bytes answered.                                                     *)

LEMMA SequencesEqual ==
    ASSUME NEW S, NEW s \in Seq(S), NEW t \in Seq(S), Len(s) = Len(t),
           \A i \in 1..Len(s) : s[i] = t[i]
    PROVE  s = t
OBVIOUS

LEMMA PromisedIs ==
    ASSUME ChipTyped, DriverTyped, Answered
    PROVE  /\ Chip!Promised(op) \in Seq(Bytes)
           /\ Len(Chip!Promised(op)) = Parts(op) /\ Parts(op) \in Nat
           /\ \A i \in 1..Parts(op) : /\ Chip!Promised(op)[i] = Due(i)
                                      /\ Due(i) \in Bytes
<1>1. op \in Operations /\ op # None
  BY DEF Answered, DriverTyped
<1>2. CASE op.kind = "read"
  <2>1. /\ Len(op.columns) \in Nat /\ Parts(op) = Len(op.columns) /\ op.row \in Rows
        /\ DOMAIN op.columns = 1..Len(op.columns)
        /\ \A i \in 1..Len(op.columns) : op.columns[i] \in Columns
    BY <1>1, <1>2, ReadShape, Shapes
  <2>2. PageAt(op.row) \in [Columns -> Bytes]
    BY <2>1, PageTyped
  <2>3. Chip!Promised(op) = [i \in 1..Len(op.columns) |-> PageAt(op.row)[op.columns[i]]]
    BY <1>2, <2>1 DEF Chip!Promised, PageAt
  <2>. QED BY <1>2, <2>1, <2>2, <2>3 DEF Due
<1>3. CASE op.kind = "id"
  <2>1. Parts(op) = 5
    BY <1>1, <1>3, OtherShape
  <2>2. Chip!Promised(op) = IdInfo
    BY <1>3 DEF Chip!Promised
  <2>. QED BY <1>3, <2>1, <2>2 DEF Due, IdInfo, Bytes
<1>4. CASE op.kind = "status"
  <2>1. Parts(op) = 1
    BY <1>1, <1>4, OtherShape
  <2>2. Chip!Promised(op) = <<NandStatus>>
    BY <1>4 DEF Chip!Promised
  <2>. QED BY <1>4, <2>1, <2>2 DEF Due, NandStatus, Bytes
<1>. QED BY <1>2, <1>3, <1>4 DEF Answered

(* The byte read is the one due.                                           *)
LEMMA ReadsWhatIsDue ==
    ASSUME SafeInv, Answered, step = 7
    PROVE  Pointed[readOffset] = Due(part)
<1>1. op # None /\ op \in Operations /\ part \in 1..Parts(op)
  BY InvariantParts DEF Answered, DriverTyped
<1>2. CASE op.kind = "read"
  <2>1. /\ dataPort = [to |-> IF flashMap[BlockNo(op.row)] = NoFile
                              THEN "fake" ELSE "array",
                       row |-> op.row]
        /\ readOffset = op.columns[part]
    BY <1>1, <1>2, InvariantParts DEF PointedRight, Reading
  <2>2. /\ op.row \in Rows /\ op.columns[part] \in Columns
        /\ PageNo(op.row) \in 0..(PagesPerBlock - 1)
    BY <1>1, <1>2, ReadShape, RowPlace
  <2>3. CASE flashMap[BlockNo(op.row)] = NoFile
    <3>1. PageAt(op.row) = BlankPage
      BY <2>2, <2>3 DEF PageAt, FileOf, BlankBlock
    <3>. QED BY <1>2, <2>1, <2>2, <2>3, <3>1 DEF Pointed, Due, BlankPage
  <2>4. CASE flashMap[BlockNo(op.row)] # NoFile
    BY <1>2, <2>1, <2>4 DEF Pointed, Due, PageAt
  <2>. QED BY <2>3, <2>4
<1>3. CASE op.kind = "id"
  <2>1. /\ dataPort.to = "id" /\ readOffset = part - 1 /\ part \in 1..5
    BY <1>1, <1>3, InvariantParts, OtherShape DEF PointedRight
  <2>2. Pointed = [i \in 0..4 |-> IdInfo[i + 1]]
    BY <2>1 DEF Pointed
  <2>3. readOffset \in 0..4 /\ readOffset + 1 = part
    BY <2>1
  <2>. QED BY <1>3, <2>2, <2>3 DEF Due
<1>4. CASE op.kind = "status"
  <2>1. dataPort.to = "status" /\ readOffset = 0
    BY <1>1, <1>4, InvariantParts DEF PointedRight
  <2>. QED BY <1>4, <2>1 DEF Pointed, Due
<1>. QED BY <1>2, <1>3, <1>4 DEF Answered

LEMMA DataPortReadRefines ==
    ASSUME IInv, DataPortRead
    PROVE  DataInv' /\ FlashStep
<1>1. SafeInv /\ DataInv /\ ChipTyped /\ DriverTyped
  BY InvariantParts DEF IInv
<1>2. /\ Answered /\ step = 7 /\ op # None /\ op \in Operations
      /\ part \in 1..Parts(op) /\ Parts(op) \in Nat
  BY <1>1, DataPortReadComes, PromisedIs DEF Answered, DriverTyped
<1>3. /\ flashMap' = flashMap /\ cut' = cut /\ writeBuffer' = writeBuffer
      /\ answers' = Append(answers, Due(part))
  BY <1>1, <1>2, ReadsWhatIsDue DEF DataPortRead, Accessed
<1>4. /\ part < Parts(op) => op' = op /\ left' = left /\ part' = part + 1
      /\ part = Parts(op) => op' = None /\ left' = left
  BY <1>1, <1>2, DataPortReadComes, ReadShape, OtherShape
     DEF Goes, Ends, Answered, EndsInProgram
<1>5. /\ answers \in Seq(Bytes) /\ Len(answers) = part - 1
      /\ \A i \in 1..(part - 1) : answers[i] = Due(i)
      /\ Due(part) \in Bytes
  BY <1>1, <1>2, PromisedIs DEF DataInv, Answering
<1>6. /\ answers' \in Seq(Bytes) /\ Len(answers') = part
      /\ \A i \in 1..part : answers'[i] = Due(i)
  BY <1>2, <1>3, <1>5
<1>8. DataInv'
  <2>1. CASE part = Parts(op)
    BY <1>4, <2>1, DoneKeeps
  <2>2. CASE part < Parts(op)
    <3>1. Loading'
      BY <1>2, <1>4, <2>2 DEF Loading, Programming, Answered
    <3>2. \A i : Due(i)' = Due(i)
      BY <1>3, <1>4, <2>2 DEF Due, PageAt, FileOf
    <3>3. part' - 1 = part
      BY <1>2, <1>4, <2>2
    <3>4. Answering'
      BY <1>2, <1>4, <1>6, <2>2, <3>2, <3>3 DEF Answering
    <3>. QED BY <3>1, <3>4 DEF DataInv
  <2>. QED BY <1>2, <2>1, <2>2
<1>9. Chip!Answers
  <2>1. /\ Chip!Promised(op) \in Seq(Bytes) /\ Len(Chip!Promised(op)) = Parts(op)
        /\ \A i \in 1..Parts(op) : Chip!Promised(op)[i] = Due(i)
    BY <1>1, <1>2, PromisedIs
  <2>2. /\ Len(answers) < Len(Chip!Promised(op))
        /\ Chip!Promised(op)[Len(answers) + 1] = Due(part)
    BY <1>2, <1>5, <2>1
  <2>3. CASE part = Parts(op)
    <3>1. answers' = Chip!Promised(op)
      BY <1>6, <2>1, <2>3, SequencesEqual
    <3>. QED BY <1>2, <1>3, <1>4, <2>2, <2>3, <3>1, PagesStay DEF Chip!Answers
  <2>4. CASE part < Parts(op)
    <3>1. answers' # Chip!Promised(op)
      BY <1>2, <1>6, <2>1, <2>4
    <3>. QED BY <1>2, <1>3, <1>4, <2>2, <2>4, <3>1, PagesStay DEF Chip!Answers
  <2>. QED BY <1>2, <2>3, <2>4
<1>. QED BY <1>8, <1>9 DEF FlashStep, Chip!Next

-----------------------------------------------------------------------------
(* The refinement.                                                         *)

LEMMA BeginsRefines ==
    ASSUME IInv, NEW o \in Operations, Begins(o)
    PROVE  DataInv' /\ FlashStep
<1>1. /\ op = None /\ op' = o /\ part' = 1 /\ step' = Begun(o, 1) /\ cut' = FALSE
      /\ answers' = <<>> /\ flashMap' = flashMap /\ left' = left
  BY DEF Begins, Begun
<1>2. o.kind = "program" => Begun(o, 1) = 0
  BY ProgramBegins, ProgramShape
<1>3. Loading'
  BY <1>1, <1>2 DEF Loading, Programming
<1>4. Answering'
  BY <1>1 DEF Answering, Answered
<1>6. Chip!Begins(o)
  BY <1>1 DEF Chip!Begins, PageAt, FileOf
<1>. QED BY <1>3, <1>4, <1>6 DEF DataInv, FlashStep, Chip!Next

LEMMA DataPortOverrunsRefines ==
    ASSUME IInv, DataPortOverruns
    PROVE  DataInv' /\ FlashStep
<1>1. /\ op # None /\ op' = op /\ left' = left /\ part' = part /\ step' = step
      /\ flashMap' = flashMap /\ writeBuffer' = writeBuffer
      /\ answers' = answers /\ cut' = cut /\ Access.port = "in"
  BY DEF DataPortOverruns, buffers
<1>2. op.kind = "program" => step > 0
  <2>1. DriverTyped
    BY InvariantParts DEF IInv
  <2>. QED BY <1>1, <2>1, Ports
<1>. QED BY <1>1, <1>2, QuietKeeps DEF IInv, FlashStep

LEMMA BoardResetsRefines ==
    ASSUME IInv, BoardResets
    PROVE  DataInv' /\ FlashStep
<1>1. /\ op' = None /\ cut' = TRUE /\ answers' = <<>> /\ flashMap' = flashMap
      /\ left' = writeOffset
  BY DEF BoardResets
<1>2. DataInv'
  BY <1>1, DoneKeeps
<1>3. writeOffset \in Nat /\ (op = None \/ ~EndsInProgram(op) => writeOffset = left)
  BY InvariantParts DEF IInv, ChipTyped, LoadsRight
<1>4. Chip!BoardResets
  BY <1>1, <1>3, PagesStay DEF Chip!BoardResets, Chip!EndsInProgram, EndsInProgram
<1>. QED BY <1>2, <1>4 DEF FlashStep, Chip!Next

LEMMA InitRefines == Init => IInv /\ Chip!Init
<1>. SUFFICES ASSUME Init PROVE IInv /\ Chip!Init
  OBVIOUS
<1>1. \A r \in Rows : PageAt(r) = BlankPage
  BY RowPlace DEF Init, PageAt, FileOf, BlankBlock
<1>2. DataInv
  BY <1>1 DEF Init, DataInv, Loading, Programming, Answering, Answered
<1>3. [r \in Rows |-> PageAt(r)] \in [Rows -> [Columns -> Nat]]
  BY <1>1 DEF BlankPage, Blank
<1>4. Chip!Init
  BY <1>3 DEF Init, Chip!Init, PageAt
<1>. QED BY <1>2, <1>4, SafeInitially DEF IInv

LEMMA StepRefines ==
    ASSUME IInv, [Next]_vars
    PROVE  IInv' /\ FlashStep
<1>1. SafeInv'
  BY SafeStep DEF IInv
<1>2. CASE \E o \in Operations : Begins(o)
  BY <1>1, <1>2, BeginsRefines DEF IInv
<1>3. CASE CommandPort
  BY <1>1, <1>3, CommandsRefine, StartWriteRefines, ReadForCopyRefines,
     ResetCommandRefines, ProgramRefines, EraseRefines DEF CommandPort, IInv
<1>4. CASE AddressPort
  BY <1>1, <1>4, AddressPortRefines DEF IInv
<1>5. CASE DataPortRead
  BY <1>1, <1>5, DataPortReadRefines DEF IInv
<1>6. CASE DataPortWrite
  BY <1>1, <1>6, DataPortWriteRefines DEF IInv
<1>7. CASE BoardResets
  BY <1>1, <1>7, BoardResetsRefines DEF IInv
<1>9. CASE DataPortOverruns
  BY <1>1, <1>9, DataPortOverrunsRefines DEF IInv
<1>8. CASE UNCHANGED vars
  <2>1. /\ op' = op /\ left' = left /\ part' = part /\ step' = step /\ flashMap' = flashMap
        /\ writeBuffer' = writeBuffer /\ answers' = answers /\ cut' = cut
    BY <1>8 DEF vars, buffers, driver
  <2>2. Loading'
    BY <2>1 DEF IInv, DataInv, Loading, Programming, Holds
  <2>3. Answering'
    BY <2>1 DEF IInv, DataInv, Answering, Answered, Due, PageAt, FileOf
  <2>4. UNCHANGED Chip!vars
    BY <2>1, PagesStay DEF Chip!vars
  <2>. QED BY <1>1, <2>2, <2>3, <2>4 DEF IInv, DataInv, FlashStep
<1>. QED BY <1>2, <1>3, <1>4, <1>5, <1>6, <1>7, <1>8, <1>9 DEF Next

(* ImplementsFlash: whatever the sizes of the chip, whatever its driver asks *)
(* for and whenever the board is reset, the driver reads what it has        *)
(* programmed, displaced at most by what a reset left of the offset.  Of a  *)
(* copy this says that it changes nothing.                                  *)
THEOREM ChipIsFlash == Spec => ImplementsFlash
<1>1. IInv /\ [Next]_vars => IInv' /\ FlashStep
  BY StepRefines
<1>. QED BY <1>1, InitRefines, PTL DEF Spec, ImplementsFlash, Chip!Spec, FlashStep

=============================================================================
