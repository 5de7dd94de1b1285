-------------------------------- MODULE Nand --------------------------------
(***************************************************************************)
(* The NAND flash (dev_nand_flash_1g.c): a state machine of commands, an   *)
(* address latched a byte at a time, a page buffer, and a file per block   *)
(* that is created when the block is first written.                        *)
(*                                                                         *)
(* The guest's driver performs the operations of the list at the top of    *)
(* that file, each as the sequence of port accesses the chip's data sheet  *)
(* asks for.  Commands have the values of the code; an address byte has    *)
(* Radix values instead of 256.                                            *)
(***************************************************************************)
EXTENDS Integers, Sequences, SequencesExt

CONSTANTS
    Radix,            \* bound: the values of an address byte
    PageSize,
    PagesPerBlock,
    TotalBlocks,
    Operations,       \* the driver's operations
    None,
    NoFile            \* a block never written

Columns == 0..(PageSize - 1)
Rows == 0..(TotalBlocks * PagesPerBlock - 1)
Blocks == 0..(TotalBlocks - 1)
Blank == \hFF
Bytes == 0..\hFF
Files == [0..(PagesPerBlock - 1) -> [Columns -> Bytes]]

IdInfo == <<\hEC, \hD3, \h51, \h95, \h58>>
NandStatus == \hC0

VARIABLES
    state,
    flashMap,    \* each block's pages
    rowAddr, colAddr,
    writeBuffer,
    readOffset, writeOffset,
    addrOffset,  \* which address byte comes next
    issued30h,   \* has_issue_30h
    dataPort,    \* what data_port_ipr points to
    op,          \* what the driver is at
    part, step,  \* how far it has come with it
    answers,     \* the bytes it has read for it
    cut,         \* whether the board's reset has cut it short
    left,        \* where the last reset left write_offset, until a page is
                 \* programmed
    wild         \* whether a store has left the page buffer

address == <<rowAddr, colAddr>>
buffers == <<writeBuffer, readOffset, writeOffset>>
driver == <<op, part, step, answers, cut, left, wild>>
vars == <<state, flashMap, address, buffers, addrOffset, issued30h, dataPort, driver>>

BlockNo(r) == r \div PagesPerBlock
PageNo(r) == r % PagesPerBlock
BlankPage == [c \in Columns |-> Blank]
BlankBlock == [p \in 0..(PagesPerBlock - 1) |-> BlankPage]

-----------------------------------------------------------------------------
(* The driver's accesses.  An operation has parts; a part takes some of    *)
(* eight steps, in their order: a command (0), the bytes of a column (1    *)
(* and 2) and of a row (3 to 5), a command that confirms it (6), and a     *)
(* byte of data (7).                                                       *)

Command(v) == [port |-> "command", value |-> v]
Address(v) == [port |-> "address", value |-> v]
DataIn(v) == [port |-> "in", value |-> v]
DataOut == [port |-> "out", value |-> 0]

AccessAt(p, k) ==
    CASE k = 0 -> Command(p.opens)
      [] k = 1 -> Address(p.column % Radix)
      [] k = 2 -> Address(p.column \div Radix)
      [] k = 3 -> Address(p.row % Radix)
      [] k = 4 -> Address((p.row \div Radix) % Radix)
      [] k = 5 -> Address(p.row \div (Radix * Radix))
      [] k = 6 -> Command(p.confirms)
      [] k = 7 -> p.data

Part(steps, opens, column, row, confirms, data) ==
    [steps |-> steps, opens |-> opens, column |-> column, row |-> row,
     confirms |-> confirms, data |-> data]

(* Bytes read or loaded: from a first column, and on, or moving to another.*)
ColumnOf(o, i) == IF o.kind = "read" THEN o.columns[i] ELSE o.puts[i].column
Moves(o, i) == i > 1 /\ ColumnOf(o, i) # ColumnOf(o, i - 1) + 1

ReadPart(o, i) ==
    IF i = 1 THEN Part(0..7, \h00, o.columns[i], o.row, \h30, DataOut)
             ELSE Part(IF Moves(o, i) THEN {0, 1, 2, 6, 7} ELSE {7},
                       \h05, o.columns[i], o.row, \hE0, DataOut)

(* After the last byte, the command that programs the page.                *)
ProgramPart(o, i) ==
    IF i > Len(o.puts) THEN Part({6}, \h80, 0, o.row, \h10, DataOut)
    ELSE IF i = 1
    THEN Part({0, 1, 2, 3, 4, 5, 7}, \h80, o.puts[i].column, o.row, \h10,
              DataIn(o.puts[i].byte))
    ELSE Part(IF Moves(o, i) THEN {0, 1, 2, 7} ELSE {7},
              \h85, o.puts[i].column, o.row, \h10, DataIn(o.puts[i].byte))

CopyPart(o, i) == IF i = 1 THEN Part(0..6, \h00, 0, o.from, \h35, DataOut)
                           ELSE Part(0..6, \h85, 0, o.to, \h10, DataOut)

IdPart(i) == Part(IF i = 1 THEN {0, 1, 7} ELSE {7}, \h90, 0, 0, \h90, DataOut)

Parts(o) ==
    CASE o.kind = "read"    -> Len(o.columns)
      [] o.kind = "program" -> Len(o.puts) + 1
      [] o.kind = "copy"    -> 2
      [] o.kind = "id"      -> Len(IdInfo)
      [] OTHER              -> 1

PartOf(o, i) ==
    CASE o.kind = "read"    -> ReadPart(o, i)
      [] o.kind = "program" -> ProgramPart(o, i)
      [] o.kind = "copy"    -> CopyPart(o, i)
      [] o.kind = "erase"   -> Part({0, 3, 4, 5, 6}, \h60, 0, o.row, \hD0, DataOut)
      [] o.kind = "id"      -> IdPart(i)
      [] o.kind = "status"  -> Part({0, 7}, \h70, 0, 0, \h70, DataOut)
      [] o.kind = "abandon" -> Part(0..6, \h00, 0, o.row, \hFF, DataOut)
      [] o.kind = "reset"   -> Part({0}, \hFF, 0, 0, \hFF, DataOut)

(* What ends in a page programmed.                                         *)
EndsInProgram(o) == o.kind \in {"program", "copy"}

(* What the driver may ask for: every byte of it lies in its page, and a   *)
(* page read moves once, since has_issue_30h is taken back then.           *)
Supported(o) ==
    CASE o.kind = "read" ->
             /\ o.row \in Rows
             /\ o.columns \in Seq(Columns) \ {<<>>}
             /\ \A i, j \in DOMAIN o.columns : Moves(o, i) /\ Moves(o, j) => i = j
      [] o.kind = "program" ->
             /\ o.row \in Rows
             /\ o.puts \in Seq([column : Columns, byte : Bytes]) \ {<<>>}
      [] o.kind = "copy" -> o.from \in Rows /\ o.to \in Rows
      [] o.kind \in {"erase", "abandon"} -> o.row \in Rows
      [] OTHER -> o.kind \in {"id", "status", "reset"}

ASSUME NandAssumption ==
    /\ {Radix, PageSize, PagesPerBlock, TotalBlocks} \subseteq Nat \ {0}
    /\ PageSize <= Radix * Radix
    /\ TotalBlocks * PagesPerBlock <= Radix * Radix * Radix
    /\ None \notin Operations
    /\ NoFile \notin Files
    /\ \A o \in Operations : Supported(o)

Begins(o) ==
    /\ op = None
    /\ op' = o
    /\ part' = 1
    /\ step' = Min(PartOf(o, 1).steps)
    /\ answers' = <<>>
    /\ cut' = FALSE
    /\ UNCHANGED <<state, flashMap, address, buffers, addrOffset, issued30h,
                   dataPort, left, wild>>

(* What the assertions let pass: the commands each state takes, 0x05 only   *)
(* after a 0x30, and no more than five bytes of address.                    *)
Accepted ==
    [init             |-> {\h00, \h80, \h05, \hFF, \h90, \h60, \h70},
     readStart        |-> {\h30, \h35, \hFF},
     randomReadStart  |-> {\hE0, \h05},
     writeStart       |-> {\h10, \h85},
     randomWriteStart |-> {\h10, \h85},
     readPageForCopy  |-> {\h85},
     copyStart        |-> {\h10, \h85},
     eraseStart       |-> {\hD0}]

Allowed(access) ==
    /\ access.port = "command" => access.value \in Accepted[state]
    /\ access.port = "command" /\ access.value = \h05 /\ state = "init"
           => issued30h
    /\ access.port = "address" => addrOffset \in 0..4

(* The driver's next access, which may be the operation's last.            *)
Access == AccessAt(PartOf(op, part), step)

Continues ==
    LET later == {k \in PartOf(op, part).steps : k > step}
    IN  \/ /\ later # {}
           /\ step' = Min(later)
           /\ UNCHANGED <<op, part, left>>
        \/ /\ later = {} /\ part < Parts(op)
           /\ part' = part + 1
           /\ step' = Min(PartOf(op, part + 1).steps)
           /\ UNCHANGED <<op, left>>
        \/ /\ later = {} /\ part = Parts(op)
           /\ op' = None /\ part' = 1 /\ step' = 0
           /\ left' = IF EndsInProgram(op) THEN 0 ELSE left

Accessed(port) ==
    /\ op # None
    /\ Access.port = port
    /\ Allowed(Access)
    /\ Continues
    /\ UNCHANGED <<cut, wild>>

-----------------------------------------------------------------------------
(* The command port.                                                       *)

(* Command v in state s; every command starts a new address.               *)
Takes(s, v) ==
    /\ op # None /\ state = s
    /\ Access = Command(v)
    /\ Accessed("command")
    /\ addrOffset' = IF v = \h60 THEN 2 ELSE 0
    /\ UNCHANGED <<address, answers>>

Idle == UNCHANGED <<flashMap, dataPort>>

StartRead ==
    /\ Takes("init", \h00)
    /\ state' = "readStart"
    /\ Idle /\ UNCHANGED <<buffers, issued30h>>

StartWrite ==
    /\ Takes("init", \h80)
    /\ state' = "writeStart"
    /\ writeBuffer' = BlankPage
    /\ Idle /\ UNCHANGED <<readOffset, writeOffset, issued30h>>

StartRandomRead ==
    /\ Takes("init", \h05) \/ Takes("randomReadStart", \h05)
    /\ state' = "randomReadStart"
    /\ issued30h' = FALSE
    /\ Idle /\ UNCHANGED buffers

(* Variant: erasing expects the column's address first, as the others do.  *)
StartEraseFromColumn ==
    /\ Accessed("command")
    /\ state = "init"
    /\ Access.value = \h60
    /\ state' = "eraseStart"
    /\ addrOffset' = 0
    /\ Idle /\ UNCHANGED <<address, answers, buffers, issued30h>>

StartErase ==
    /\ Takes("init", \h60)
    /\ state' = "eraseStart"
    /\ Idle /\ UNCHANGED <<buffers, issued30h>>

ReadInfo(v, what) ==
    /\ Takes("init", v)
    /\ dataPort' = [to |-> what, row |-> 0]
    /\ readOffset' = 0
    /\ UNCHANGED <<state, flashMap, writeBuffer, writeOffset, issued30h>>

ResetCommand ==
    /\ Takes("init", \hFF) \/ Takes("readStart", \hFF)
    /\ state' = "init"
    /\ Idle /\ UNCHANGED <<buffers, issued30h>>

(* The data port is turned to the page latched, or, of a block without a   *)
(* file, to a blank one.                                                   *)
PointsToPage ==
    /\ dataPort' = [to |-> IF flashMap[BlockNo(rowAddr)] = NoFile
                           THEN "fake" ELSE "array",
                    row |-> rowAddr]
    /\ readOffset' = colAddr
    /\ UNCHANGED <<flashMap, writeBuffer, writeOffset>>

(* Variant: it is forgotten that a page has been read.                     *)
ReadPageUnmarked ==
    /\ Takes("readStart", \h30)
    /\ state' = "init"
    /\ PointsToPage
    /\ UNCHANGED issued30h

ReadPage ==
    /\ Takes("readStart", \h30)
    /\ state' = "init"
    /\ issued30h' = TRUE
    /\ PointsToPage

ReadColumn ==
    /\ Takes("randomReadStart", \hE0)
    /\ state' = "init"
    /\ PointsToPage
    /\ UNCHANGED issued30h

(* Nothing is read into the buffer.                                        *)
ReadForCopy ==
    /\ Takes("readStart", \h35)
    /\ state' = "readPageForCopy"
    /\ writeBuffer' = BlankPage
    /\ Idle /\ UNCHANGED <<readOffset, writeOffset, issued30h>>

StartCopy ==
    /\ Takes("readPageForCopy", \h85)
    /\ state' = "copyStart"
    /\ writeOffset' = 0
    /\ Idle /\ UNCHANGED <<writeBuffer, readOffset, issued30h>>

StartRandomWrite ==
    /\ \E s \in {"writeStart", "randomWriteStart", "copyStart"} : Takes(s, \h85)
    /\ state' = "randomWriteStart"
    /\ writeOffset' = 0
    /\ Idle /\ UNCHANGED <<writeBuffer, readOffset, issued30h>>

(* The block's file, created now if need be.                               *)
FileOf(r) == IF flashMap[BlockNo(r)] = NoFile THEN BlankBlock
                                              ELSE flashMap[BlockNo(r)]

(* write_nand_fiash_page_file: blank bytes are not written.                *)
Written(page) ==
    [c \in Columns |-> IF writeBuffer[c] = Blank THEN page[c] ELSE writeBuffer[c]]

(* Variant: the next page is loaded from where this one ended.             *)
ProgramKeepsOffset ==
    /\ \E s \in {"writeStart", "randomWriteStart", "copyStart"} : Takes(s, \h10)
    /\ state' = "init"
    /\ flashMap' = [flashMap EXCEPT ![BlockNo(rowAddr)] =
                        [FileOf(rowAddr) EXCEPT ![PageNo(rowAddr)] = Written(@)]]
    /\ UNCHANGED <<buffers, issued30h, dataPort>>

Program ==
    /\ \E s \in {"writeStart", "randomWriteStart", "copyStart"} : Takes(s, \h10)
    /\ state' = "init"
    /\ flashMap' = [flashMap EXCEPT ![BlockNo(rowAddr)] =
                        [FileOf(rowAddr) EXCEPT ![PageNo(rowAddr)] = Written(@)]]
    /\ writeOffset' = 0
    /\ UNCHANGED <<writeBuffer, readOffset, issued30h, dataPort>>

(* Variant: another 0xd0 would erase the block again.                      *)
EraseStays ==
    /\ Takes("eraseStart", \hD0)
    /\ flashMap' = [flashMap EXCEPT ![BlockNo(rowAddr)] = BlankBlock]
    /\ UNCHANGED <<state, buffers, issued30h, dataPort>>

Erase ==
    /\ Takes("eraseStart", \hD0)
    /\ state' = "init"
    /\ flashMap' = [flashMap EXCEPT ![BlockNo(rowAddr)] = BlankBlock]
    /\ UNCHANGED <<buffers, issued30h, dataPort>>

CommandPort ==
    \/ StartRead \/ StartWrite \/ StartRandomRead \/ StartErase
    \/ ReadInfo(\h90, "id") \/ ReadInfo(\h70, "status") \/ ResetCommand
    \/ ReadPage \/ ReadColumn
    \/ ReadForCopy \/ StartCopy
    \/ StartRandomWrite \/ Program \/ Erase

-----------------------------------------------------------------------------
(* The address port.                                                       *)
AddressPort ==
    LET v == Access.value
    IN  /\ Accessed("address")
        /\ \/ addrOffset = 0 /\ colAddr' = v /\ UNCHANGED rowAddr
           \/ addrOffset = 1 /\ colAddr' = colAddr + v * Radix /\ UNCHANGED rowAddr
           \/ addrOffset = 2 /\ rowAddr' = v /\ UNCHANGED colAddr
           \/ addrOffset = 3 /\ rowAddr' = rowAddr + v * Radix /\ UNCHANGED colAddr
           \/ addrOffset = 4 /\ rowAddr' = rowAddr + v * Radix * Radix
                             /\ UNCHANGED colAddr
        /\ addrOffset' = addrOffset + 1
        /\ UNCHANGED <<state, flashMap, buffers, issued30h, dataPort, answers>>

-----------------------------------------------------------------------------
(* The data port.                                                          *)

(* What data_port_ipr points to, from its first byte on.                   *)
Pointed ==
    CASE dataPort.to = "fake"    -> [i \in Columns |-> Blank]
      [] dataPort.to = "array"   -> FileOf(dataPort.row)[PageNo(dataPort.row)]
      [] dataPort.to = "id"      -> [i \in 0..4 |-> IdInfo[i + 1]]
      [] dataPort.to = "status"  -> [i \in {0} |-> NandStatus]
      [] dataPort.to = "nothing" -> [i \in {} |-> Blank]

DataPortRead ==
    /\ Accessed("out")
    /\ answers' = Append(answers, Pointed[readOffset])
    /\ readOffset' = readOffset + 1
    /\ UNCHANGED <<state, flashMap, address, writeBuffer, writeOffset, addrOffset,
                   issued30h, dataPort>>

DataPortWrite ==
    /\ Accessed("in")
    /\ colAddr + writeOffset \in Columns
    /\ writeBuffer' = [writeBuffer EXCEPT ![colAddr + writeOffset] = Access.value]
    /\ writeOffset' = writeOffset + 1
    /\ UNCHANGED <<state, flashMap, address, readOffset, addrOffset, issued30h,
                   dataPort, answers>>

(* The pointer handed out lies behind write_buffer.  What the store changes *)
(* there is undefined: the program is followed no further.                  *)
DataPortOverruns ==
    /\ op # None /\ Access.port = "in"
    /\ colAddr + writeOffset \notin Columns
    /\ wild' = TRUE
    /\ UNCHANGED <<state, flashMap, address, buffers, addrOffset, issued30h,
                   dataPort, op, part, step, answers, cut, left>>

-----------------------------------------------------------------------------
(* dev_nand_flash_1g_reset.  The guest boots anew; the offsets stay.       *)
BoardResets ==
    /\ state' = "init"
    /\ writeBuffer' = BlankPage
    /\ op' = None /\ part' = 1 /\ step' = 0 /\ answers' = <<>> /\ cut' = TRUE
    /\ left' = writeOffset
    /\ UNCHANGED <<flashMap, address, readOffset, writeOffset, addrOffset,
                   issued30h, dataPort, wild>>

(* dev_nand_flash_1g_init, in a directory without block files.             *)
Init ==
    /\ state = "init"
    /\ flashMap = [b \in Blocks |-> NoFile]
    /\ rowAddr = 0 /\ colAddr = 0
    /\ writeBuffer = BlankPage
    /\ readOffset = 0 /\ writeOffset = 0 /\ addrOffset = 0
    /\ issued30h = FALSE
    /\ dataPort = [to |-> "nothing", row |-> 0]
    /\ op = None /\ part = 1 /\ step = 0 /\ answers = <<>> /\ cut = FALSE
    /\ left = 0 /\ wild = FALSE

Next ==
    /\ ~wild
    /\ \/ \E o \in Operations : Begins(o)
       \/ CommandPort
       \/ AddressPort
       \/ DataPortRead \/ DataPortWrite \/ DataPortOverruns
       \/ BoardResets

Spec == Init /\ [][Next]_vars

-----------------------------------------------------------------------------
(* Types; between two operations the machine is back in its first state.   *)
TypeOK ==
    /\ state \in DOMAIN Accepted
    /\ flashMap \in [Blocks -> Files \cup {NoFile}]
    /\ rowAddr \in Rows
    /\ colAddr \in Columns
    /\ writeBuffer \in [Columns -> Bytes]
    /\ readOffset \in Nat /\ writeOffset \in 0..PageSize
    /\ addrOffset \in 0..5
    /\ issued30h \in BOOLEAN /\ cut \in BOOLEAN /\ wild \in BOOLEAN
    /\ left \in 0..PageSize
    /\ dataPort \in [to : {"fake", "array", "id", "status", "nothing"}, row : Rows]
    /\ op \in Operations \cup {None}
    /\ op = None => state = "init"
    /\ op # None => part \in 1..Parts(op) /\ step \in PartOf(op, part).steps

(* "supported operation": none of the list fails an assertion, whatever    *)
(* came before.                                                            *)
NeverAborts == op # None => Allowed(Access)

(* The pointers handed out by the data port stay inside the page, the      *)
(* buffer or the answer they point into, whatever came before.  One store  *)
(* may not: a byte of the first run of a page, when a reset came while an   *)
(* earlier page was being loaded and none has been programmed since.       *)
FirstRun(o, i) == \A j \in 2..i : ~Moves(o, j)

DataPortInBounds ==
    op # None =>
        /\ Access.port = "in" =>
               colAddr + writeOffset \in Columns \/ (left > 0 /\ FirstRun(op, part))
        /\ Access.port = "out" => readOffset \in DOMAIN Pointed

(* What `write_buffer[NAND_FLASH_1G_PAGE_SIZE]` asks of every store, and a   *)
(* reset in the middle of a program breaks.                                *)
LoadsInBuffer ==
    op # None /\ Access.port = "in" => colAddr + writeOffset \in Columns

(* The driver reads what it programmed, and nothing else has changed: no   *)
(* operation leaves anything behind for the next, but for the offset of a   *)
(* program that a reset cuts short.                                        *)
PageAt(r) == FileOf(r)[PageNo(r)]

Chip == INSTANCE Flash WITH array <- [r \in Rows |-> PageAt(r)],
                            Status <- NandStatus

ImplementsFlash == Chip!Spec

(* "Copy-back": the page copied to holds what the page read held, as after  *)
(* a program of it.                                                        *)
CopyBackCopies ==
    [][\A a, b \in Rows :
          op = [kind |-> "copy", from |-> a, to |-> b] /\ op' = None /\ ~cut'
              => PageAt(b)' = Chip!Merge(PageAt(b), PageAt(a))]_vars

=============================================================================
