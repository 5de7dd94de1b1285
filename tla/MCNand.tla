------------------------------- MODULE MCNand -------------------------------
(* Pages of three bytes, two to a block, two blocks written.  Reads run on  *)
(* and move back, programs skip and move back.                              *)
EXTENDS Nand

Put(c, b) == [column |-> c, byte |-> b]

Reads == [kind : {"read"}, row : {6}, columns : {<<0, 1, 2, 1>>}]
Programs == [kind : {"program"}, row : {1}, puts : {<<Put(2, 7)>>}]
            \cup [kind : {"program"}, row : {6},
                  puts : {<<Put(0, 7), Put(2, 5), Put(1, 5)>>}]
Erases == [kind : {"erase"}, row : {7}]
Others == [kind : {"id", "status", "reset"}] \cup [kind : {"abandon"}, row : {6}]

(* Of a page that is programmed, to one that may be.                        *)
Copies == {[kind |-> "copy", from |-> 1, to |-> 6]}

MCOperations == Reads \cup Programs \cup Erases \cup Others \cup Copies

=============================================================================
