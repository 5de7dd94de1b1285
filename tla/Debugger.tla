------------------------------ MODULE Debugger ------------------------------
(***************************************************************************)
(* The GDB stub (gdb/gdb_interface.c, gdb/debug.c) and the CPU loop's call *)
(* of it before each instruction.  The stub runs on the CPU thread: while  *)
(* it talks the program stands still.  A packet is one item of the         *)
(* connection, spoilt or not; acknowledgements and ^C are others.  GDB     *)
(* itself is external: it acknowledges, sends again, and takes a packet    *)
(* that comes where an acknowledgement should as an old one.               *)
(***************************************************************************)
EXTENDS Naturals, Sequences

CONSTANTS
    Points,      \* addresses of instructions
    MaxCommands, \* packets of GDB's (bound)
    MaxBreaks,   \* ^C (bound)
    MaxSpoilt,   \* packets spoilt on their way (bound)
    MaxSessions, \* connections (bound)
    Ops          \* the operations GDB asks for

ASSUME DebuggerAssumption ==
    /\ Points \subseteq Nat \ {0} /\ Points # {}
    /\ Ops \subseteq {"Z", "z", "c", "s", "vCont;s", "ask", "other"}

VARIABLES
    bps,    \* the breakpoints' list: head, tail, next
    dbg,    \* mipsy_debug_mode, mipsy_break_nexti
    sock,   \* gdb_interact_sock is a connection
    stub,   \* where it is, what it sends, and why
    dpc,    \* the program counter
    toGdb, toStub,
    inbuf, \* readchar's buffer
    gdb     \* what GDB does, its command, the breakpoints it has, counters

dbgVars == <<bps, dbg, sock, stub, dpc, toGdb, toStub, inbuf, gdb>>

NoNode == 0
Commands == [op : Ops \cap {"Z", "z"}, at : Points]
            \cup [op : Ops \ {"Z", "z"}, at : {0}]
StopReply == [op |-> "S05", at |-> 0]
Packet(c, spoilt) == [type |-> "packet", is |-> c, spoilt |-> spoilt]
Plus  == [type |-> "+"]
Minus == [type |-> "-"]
Break == [type |-> "^C"]
Eof   == [type |-> "eof"]

(* The commands that let the program go on.                                *)
Resuming == {"c", "s", "vCont;s"}

(* A reply names the command it answers.                                   *)
Reply(c) == IF c.op = "ask" THEN [op |-> "data", at |-> 0]
            ELSE IF c.op = "other" THEN [op |-> "E01", at |-> 0]
            ELSE [c EXCEPT !.op = IF c.op = "Z" THEN "OK Z" ELSE "OK z"]

(* vm_debug_init.                                                          *)
DbgInit ==
    /\ bps = [head |-> NoNode, tail |-> NoNode, next |-> [a \in Points |-> NoNode]]
    /\ dbg = [mode |-> TRUE, nexti |-> "any"] /\ sock = FALSE
    /\ stub = [at |-> "check", out |-> StopReply, why |-> "", resumed |-> FALSE]
    /\ dpc \in Points
    /\ toGdb = << >> /\ toStub = << >> /\ inbuf = << >>
    /\ gdb = [does |-> "away", cmd |-> StopReply, has |-> {}, got |-> << >>,
              sent |-> 0, breaks |-> 0, spoilt |-> 0, sessions |-> 0]

DbgTypeOK ==
    /\ {bps.head, bps.tail} \subseteq Points \cup {NoNode}
    /\ dbg.nexti \in {"any", "none", "0"}
    /\ stub.at \in {"check", "accept", "command", "ack", "exec"}
    /\ dpc \in Points /\ gdb.has \subseteq Points

-----------------------------------------------------------------------------
(* The list of breakpoints: what a walk along next from its head meets,    *)
(* the least set that holds the head and is closed under next.             *)
Follows(b, S) ==
    /\ b.head # NoNode => b.head \in S
    /\ \A p \in S : b.next[p] # NoNode => b.next[p] \in S
Chained(b) == {a \in Points : \A S \in SUBSET Points : Follows(b, S) => a \in S}

(* insert_breakpoint: the same one again is dropped.                       *)
Inserted(b, a) ==
    IF b.head = NoNode
    THEN [b EXCEPT !.head = a, !.tail = a, !.next[a] = NoNode]
    ELSE IF a \in Chained(b) THEN b
    ELSE [b EXCEPT !.next = [@ EXCEPT ![a] = NoNode, ![b.tail] = a], !.tail = a]

(* Variant: the tail stays at what was deleted.                            *)
DeletedTailKept(b, a) ==
    IF a \notin Chained(b) THEN b
    ELSE [b EXCEPT !.next = [p \in Points |-> IF @[p] = a THEN @[a] ELSE @[p]],
                   !.head = IF @ = a THEN b.next[a] ELSE @]

(* delete_breakpoint.                                                      *)
Before(b, a) == {p \in Chained(b) : b.next[p] = a}
Deleted(b, a) ==
    IF a \notin Chained(b) THEN b
    ELSE [b EXCEPT !.next = [p \in Points |-> IF @[p] = a THEN @[a] ELSE @[p]],
                   !.head = IF @ = a THEN b.next[a] ELSE @,
                   !.tail = IF @ # a THEN @
                            ELSE IF Before(b, a) = {} THEN NoNode
                            ELSE CHOOSE p \in Before(b, a) : TRUE]

-----------------------------------------------------------------------------
(* The connection.  At most MaxSpoilt packets arrive spoilt.               *)
Arriving(c) == {Packet(c, FALSE)}
               \cup IF gdb.spoilt < MaxSpoilt THEN {Packet(c, TRUE)} ELSE {}
Spoiling(p) == [gdb EXCEPT !.spoilt = @ + IF p.spoilt THEN 1 ELSE 0]

Sends(c) == \E p \in Arriving(c) : toGdb' = Append(toGdb, p) /\ gdb' = Spoiling(p)

Closed == sock' = FALSE /\ toStub' = << >> /\ toGdb' = << >>

-----------------------------------------------------------------------------
(* The CPU loop, before the instruction at dpc: mipsy_debug_mode and a     *)
(* breakpoint hit, or no debugger, or a step asked for.                    *)
Hit == dpc \in Chained(bps)
CheckHits ==
    /\ stub.at = "check" /\ dbg.mode /\ Hit /\ sock
    /\ stub' = [stub EXCEPT !.at = "ack", !.out = StopReply, !.why = "hit"]
    /\ Sends(StopReply)
    /\ UNCHANGED <<bps, dbg, sock, dpc, toStub, inbuf>>

(* With no connection the packet of a hit cannot be written, which clears  *)
(* the mode; mips_debug sets it again.                                     *)
CheckWaits ==
    /\ stub.at = "check" /\ dbg.mode /\ ~sock
    /\ stub' = [stub EXCEPT !.at = "accept"]
    /\ dbg' = [dbg EXCEPT !.mode = ~Hit]
    /\ UNCHANGED <<bps, sock, dpc, toGdb, toStub, inbuf, gdb>>

CheckStops ==
    /\ stub.at = "check" /\ dbg.mode /\ ~Hit /\ sock /\ dbg.nexti = "any"
    /\ stub' = [stub EXCEPT !.at = "command"]
    /\ UNCHANGED <<bps, dbg, sock, dpc, toGdb, toStub, inbuf, gdb>>

CheckPasses ==
    /\ stub.at = "check"
    /\ dbg.mode => ~Hit /\ sock /\ dbg.nexti # "any"
    /\ stub' = [stub EXCEPT !.at = "exec", !.resumed = FALSE]
    /\ UNCHANGED <<bps, dbg, sock, dpc, toGdb, toStub, inbuf, gdb>>

(* The instruction, and then any other.                                    *)
Executes ==
    /\ stub.at = "exec"
    /\ stub' = [stub EXCEPT !.at = "check"]
    /\ dpc' \in Points
    /\ UNCHANGED <<bps, dbg, sock, toGdb, toStub, inbuf, gdb>>

(* bad_memory_access_gdb, called by an access that finds nothing; without  *)
(* a connection it turns debugging off.                                    *)
AccessesNothing ==
    /\ stub.at = "exec" /\ dbg.mode
    /\ dpc' \in Points
    /\ IF sock
       THEN /\ stub' = [stub EXCEPT !.at = "ack", !.out = StopReply, !.why = "bad"]
            /\ dbg' = [dbg EXCEPT !.nexti = "any"]
            /\ Sends(StopReply)
       ELSE /\ stub' = [stub EXCEPT !.at = "check"]
            /\ dbg' = [mode |-> FALSE, nexti |-> "any"]
            /\ UNCHANGED <<toGdb, gdb>>
    /\ UNCHANGED <<bps, sock, toStub, inbuf>>

-----------------------------------------------------------------------------
(* putpkt: it is sent again for whatever is not a plus.                    *)
Sent ==
    /\ stub' = [stub EXCEPT !.at = IF stub.why = "bad" THEN "check" ELSE "command"]
    /\ UNCHANGED <<toGdb, gdb>>
TakesAck ==
    /\ stub.at = "ack" /\ toStub # << >> /\ Head(toStub) # Eof
    /\ toStub' = Tail(toStub)
    /\ IF Head(toStub) = Plus THEN Sent ELSE Sends(stub.out) /\ UNCHANGED stub
    /\ UNCHANGED <<bps, dbg, sock, dpc, inbuf>>

(* The connection ends.  cpu_hit_breakpoint turns debugging off, and the   *)
(* loop, which tests the connection next, calls mips_debug; the command    *)
(* loop lets the program go on.                                            *)
LosesAck ==
    /\ stub.at = "ack" /\ toStub # << >> /\ Head(toStub) = Eof
    /\ Closed
    /\ \/ /\ stub.why = "hit"
          /\ stub' = [stub EXCEPT !.at = "accept"]
          /\ dbg' = [dbg EXCEPT !.mode = FALSE]
       \/ /\ stub.why = "reply"
          /\ stub' = [stub EXCEPT !.at = "exec", !.resumed = TRUE]
          /\ dbg' = [mode |-> TRUE, nexti |-> "none"]
       \/ /\ stub.why = "bad"
          /\ stub' = [stub EXCEPT !.at = "check"]
          /\ dbg' = [dbg EXCEPT !.mode = FALSE]
    /\ UNCHANGED <<bps, dpc, inbuf, gdb>>

-----------------------------------------------------------------------------
(* readchar reads what has come, up to a size of its own.                  *)
Reads ==
    /\ stub.at = "command" /\ inbuf = << >> /\ toStub # << >>
    /\ Head(toStub) # Eof
    /\ \E n \in 1..Len(toStub) :
         /\ \A i \in 1..n : toStub[i] # Eof
         /\ inbuf' = SubSeq(toStub, 1, n)
         /\ toStub' = SubSeq(toStub, n + 1, Len(toStub))
    /\ UNCHANGED <<bps, dbg, sock, stub, dpc, toGdb, gdb>>

(* Variant: the checksum is not looked at.                                 *)
AcceptedUnchecked(p) == p.type = "packet"

(* getpkt skips everything up to a packet, and asks for a spoilt one again.*)
Accepted(p) == p.type = "packet" /\ ~p.spoilt
Understood(p) == IF p.spoilt THEN [op |-> "other", at |-> 0] ELSE p.is

SkipsInput ==
    /\ stub.at = "command" /\ inbuf # << >> /\ ~Accepted(Head(inbuf))
    /\ inbuf' = Tail(inbuf)
    /\ toGdb' = IF Head(inbuf).type = "packet" THEN Append(toGdb, Minus) ELSE toGdb
    /\ UNCHANGED <<bps, dbg, sock, stub, dpc, toStub, gdb>>

HasCommand == stub.at = "command" /\ inbuf # << >> /\ Accepted(Head(inbuf))
Command == Understood(Head(inbuf))

(* A step asks for another stop; that of vCont asks for CPU 0's, which     *)
(* nothing tests.                                                          *)
Goes == [o \in Resuming |-> IF o = "c" THEN "none" ELSE IF o = "s" THEN "any" ELSE "0"]
TakesResume ==
    /\ HasCommand /\ Command.op \in Resuming
    /\ dbg' = [mode |-> TRUE, nexti |-> Goes[Command.op]]
    /\ stub' = [stub EXCEPT !.at = "exec", !.resumed = TRUE]
    /\ toGdb' = Append(toGdb, Plus) /\ inbuf' = Tail(inbuf)
    /\ UNCHANGED <<bps, sock, dpc, toStub, gdb>>

(* Every other command is answered.                                        *)
TakesCommand ==
    /\ HasCommand /\ Command.op \notin Resuming
    /\ bps' = IF Command.op = "Z" THEN Inserted(bps, Command.at)
              ELSE IF Command.op = "z" THEN Deleted(bps, Command.at) ELSE bps
    /\ stub' = [stub EXCEPT !.at = "ack", !.out = Reply(Command), !.why = "reply"]
    /\ \E p \in Arriving(Reply(Command)) :
          toGdb' = toGdb \o <<Plus, p>> /\ gdb' = Spoiling(p)
    /\ inbuf' = Tail(inbuf)
    /\ UNCHANGED <<dbg, sock, dpc, toStub>>

LosesCommand ==
    /\ stub.at = "command" /\ inbuf = << >>
    /\ toStub # << >> /\ Head(toStub) = Eof
    /\ Closed
    /\ stub' = [stub EXCEPT !.at = "exec", !.resumed = TRUE]
    /\ dbg' = [mode |-> TRUE, nexti |-> "none"]
    /\ UNCHANGED <<bps, dpc, inbuf, gdb>>

-----------------------------------------------------------------------------
(* GDB.                                                                    *)
GdbConnects ==
    /\ stub.at = "accept" /\ gdb.does = "away" /\ gdb.sessions < MaxSessions
    /\ sock' = TRUE /\ stub' = [stub EXCEPT !.at = "command"]
    /\ gdb' = [gdb EXCEPT !.does = "idle", !.sessions = @ + 1]
    /\ UNCHANGED <<bps, dbg, dpc, toGdb, toStub, inbuf>>

GdbSends ==
    /\ gdb.does = "idle" /\ gdb.sent < MaxCommands
    /\ \E c \in Commands : \E p \in Arriving(c) :
         /\ toStub' = Append(toStub, p)
         /\ gdb' = [Spoiling(p) EXCEPT !.does = "sent", !.cmd = c, !.sent = @ + 1,
                       !.has = IF c.op = "z" THEN @ \ {c.at} ELSE @]
    /\ UNCHANGED <<bps, dbg, sock, stub, dpc, toGdb, inbuf>>

(* It waits for its command's acknowledgement.                             *)
GdbTakesAck ==
    /\ gdb.does = "sent" /\ toGdb # << >>
    /\ toGdb' = Tail(toGdb)
    /\ CASE Head(toGdb) = Plus ->
                 /\ gdb' = [gdb EXCEPT !.does = IF gdb.cmd.op \in Resuming
                                                THEN "running" ELSE "asked"]
                 /\ UNCHANGED toStub
         [] Head(toGdb) = Minus ->
                 toStub' = Append(toStub, Packet(gdb.cmd, FALSE)) /\ UNCHANGED gdb
         [] OTHER -> toStub' = Append(toStub, Plus) /\ UNCHANGED gdb
    /\ UNCHANGED <<bps, dbg, sock, stub, dpc, inbuf>>

(* It waits for a reply, or for the program to stop.                       *)
GdbTakesReply ==
    /\ gdb.does \in {"asked", "running"} /\ toGdb # << >>
    /\ toGdb' = Tail(toGdb)
    /\ LET p == Head(toGdb) IN
       CASE p.type # "packet" -> UNCHANGED <<gdb, toStub>>
         [] p.type = "packet" /\ p.spoilt ->
                 toStub' = Append(toStub, Minus) /\ UNCHANGED gdb
         [] OTHER ->
                 /\ toStub' = Append(toStub, Plus)
                 /\ gdb' = [gdb EXCEPT !.does = "idle", !.got = <<gdb.cmd, p.is>>,
                              !.has = IF p.is.op = "OK Z" THEN @ \cup {p.is.at}
                                      ELSE @]
    /\ UNCHANGED <<bps, dbg, sock, stub, dpc, inbuf>>

GdbInterrupts ==
    /\ gdb.does = "running" /\ gdb.breaks < MaxBreaks
    /\ toStub' = Append(toStub, Break)
    /\ gdb' = [gdb EXCEPT !.breaks = @ + 1]
    /\ UNCHANGED <<bps, dbg, sock, stub, dpc, toGdb, inbuf>>

GdbLeaves ==
    /\ gdb.does # "away"
    /\ toStub' = Append(toStub, Eof)
    /\ gdb' = [gdb EXCEPT !.does = "away", !.has = {}]
    /\ UNCHANGED <<bps, dbg, sock, stub, dpc, toGdb, inbuf>>

DbgNext ==
    \/ CheckHits \/ CheckWaits \/ CheckStops \/ CheckPasses
    \/ Executes \/ AccessesNothing
    \/ TakesAck \/ LosesAck \/ Reads \/ SkipsInput \/ TakesResume \/ TakesCommand
    \/ LosesCommand
    \/ GdbConnects \/ GdbSends \/ GdbTakesAck \/ GdbTakesReply \/ GdbInterrupts
    \/ GdbLeaves

DbgSpec == DbgInit /\ [][DbgNext]_dbgVars

-----------------------------------------------------------------------------
(* The program never passes an instruction on which GDB was told a         *)
(* breakpoint is set without having been stopped there: whatever is set    *)
(* and removed in whatever order, the list loses none.                     *)
BreakpointsStop ==
    (stub.at = "exec" /\ dpc \in gdb.has) => stub.resumed

(* What GDB takes for the answer to a command is the answer to it, and     *)
(* what it takes for a stop is one, though packets are sent again for a    *)
(* spoilt one, for a lost acknowledgement and for a ^C.                    *)
RepliesMatch ==
    gdb.got # << >> =>
        gdb.got[2] = IF gdb.got[1].op \in Resuming THEN StopReply
                     ELSE Reply(gdb.got[1])

(* The stub and GDB never wait for each other: whatever the program is     *)
(* stopped for, Simdebug_run lets GDB know why.                            *)
NeverBothWait ==
    ~(/\ stub.at = "command" /\ gdb.does = "running"
      /\ inbuf = << >> /\ toStub = << >> /\ toGdb = << >>)
=============================================================================
