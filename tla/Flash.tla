-------------------------------- MODULE Flash --------------------------------
(***************************************************************************)
(* What a NAND flash promises its driver: an array of pages, blank until   *)
(* programmed, erased a block at a time; an operation that the board's     *)
(* reset cuts short changes nothing.  This one keeps two promises less than *)
(* its data sheet makes: copy-back copies nothing, and a program that a     *)
(* reset has cut short may displace the start of the next one.             *)
(***************************************************************************)
EXTENDS Integers, Sequences, FiniteSetsExt

CONSTANTS
    Rows,          \* page numbers
    Columns,       \* byte numbers of a page
    Blank,         \* an erased byte
    PagesPerBlock,
    Operations,    \* what the driver asks for
    None,
    IdInfo,        \* the answer to READ ID
    Status         \* the answer to READ STATUS

VARIABLES array,   \* the pages
          op,      \* what the driver is at
          answers, \* the bytes it has been given
          cut,     \* whether the board's reset has cut it short
          left     \* how far the next page programmed is displaced

vars == <<array, op, answers, cut, left>>

BlankPage == [c \in Columns |-> Blank]

Block(r) == r \div PagesPerBlock

(* A blank byte leaves what is there.                                      *)
Merge(page, new) == [c \in Columns |-> IF new[c] = Blank THEN page[c] ELSE new[c]]

(* The page that stores of bytes to columns, one after another, build.     *)
Loaded(puts) ==
    [c \in Columns |->
        LET At == {i \in DOMAIN puts : puts[i].column = c}
        IN  IF At = {} THEN Blank ELSE puts[Max(At)].byte]

(* The bytes before the first move go n columns too far.                   *)
Moved(puts, i) == \E j \in 2..i : puts[j].column # puts[j - 1].column + 1

Displaced(puts, n) ==
    [i \in DOMAIN puts |-> IF Moved(puts, i) THEN puts[i]
                           ELSE [puts[i] EXCEPT !.column = @ + n]]

Promised(o) ==
    CASE o.kind = "read"   -> [i \in DOMAIN o.columns |-> array[o.row][o.columns[i]]]
      [] o.kind = "id"     -> IdInfo
      [] o.kind = "status" -> <<Status>>
      [] OTHER             -> <<>>

After(o) ==
    CASE o.kind = "program" ->
             [array EXCEPT ![o.row] = Merge(@, Loaded(Displaced(o.puts, left)))]
      [] o.kind = "erase"   -> [r \in Rows |-> IF Block(r) = Block(o.row)
                                               THEN BlankPage ELSE array[r]]
      [] OTHER              -> array

Init ==
    /\ array \in [Rows -> [Columns -> Nat]]
    /\ op = None
    /\ answers = <<>>
    /\ cut = FALSE
    /\ left = 0

EndsInProgram(o) == o.kind \in {"program", "copy"}

Begins(o) ==
    /\ op = None
    /\ op' = o
    /\ answers' = <<>>
    /\ cut' = FALSE
    /\ UNCHANGED <<array, left>>

(* The next byte asked for; the last one ends the operation.               *)
Answers ==
    /\ op # None
    /\ Len(answers) < Len(Promised(op))
    /\ answers' = Append(answers, Promised(op)[Len(answers) + 1])
    /\ op' = IF answers' = Promised(op) THEN None ELSE op
    /\ UNCHANGED <<array, cut, left>>

Applies ==
    /\ op # None
    /\ Promised(op) = <<>>
    /\ op' = None
    /\ array' = After(op)
    /\ left' = IF EndsInProgram(op) THEN 0 ELSE left
    /\ UNCHANGED <<answers, cut>>

BoardResets ==
    /\ op' = None
    /\ answers' = <<>>
    /\ cut' = TRUE
    /\ left' \in Nat
    /\ op = None \/ ~EndsInProgram(op) => left' = left
    /\ UNCHANGED array

Next == (\E o \in Operations : Begins(o)) \/ Answers \/ Applies \/ BoardResets

Spec == Init /\ [][Next]_vars

=============================================================================
