---------------------------- MODULE DebuggerProofs ----------------------------
(***************************************************************************)
(* The GDB stub: its list of breakpoints loses none, so the program never  *)
(* passes one that GDB has, and what GDB takes for an answer is the answer *)
(* to what it asked.                                                       *)
(***************************************************************************)
EXTENDS Integers, Debugger, TLAPS

-----------------------------------------------------------------------------
(* What a sequence of items holds of a set K.                              *)
Without(s, K) == \A i \in 1..Len(s) : s[i] \notin K
AtMostOne(s, K) == \A i, j \in 1..Len(s) : s[i] \in K /\ s[j] \in K => i = j
Only(s, K) == \A i \in 1..Len(s) : s[i] \in K
(* Behind an item of K there is nothing but G.                             *)
Behind(s, K, G) == \A i, j \in 1..Len(s) : i < j /\ s[i] \in K => s[j] \in G

-----------------------------------------------------------------------------
(* What travels.                                                           *)
Answer(c) == IF c.op \in Resuming THEN StopReply ELSE Reply(c)
Answers == {StopReply} \cup {Reply(c) : c \in Commands}
Copies(c) == {Packet(c, spoilt) : spoilt \in BOOLEAN}
AskPackets == [type : {"packet"}, is : Commands, spoilt : BOOLEAN]
AnswerPackets == [type : {"packet"}, is : Answers, spoilt : BOOLEAN]
StubItems == AskPackets \cup {Plus, Minus, Break, Eof}
GdbItems == AnswerPackets \cup {Plus, Minus}
Acks == {Plus, Minus}

Lists == [head : Points \cup {NoNode}, tail : Points \cup {NoNode},
          next : [Points -> Points \cup {NoNode}]]

CpuTyped ==
    /\ bps \in Lists
    /\ dbg \in [mode : BOOLEAN, nexti : {"any", "none", "0"}] /\ sock \in BOOLEAN
    /\ stub \in [at : {"check", "accept", "command", "ack", "exec"}, out : Answers,
                 why : {"", "hit", "bad", "reply"}, resumed : BOOLEAN]
    /\ dpc \in Points

WireTyped ==
    /\ toGdb \in Seq(GdbItems) /\ toStub \in Seq(StubItems)
    /\ inbuf \in Seq(StubItems)
    /\ gdb \in [does : {"away", "idle", "sent", "asked", "running"},
                cmd : Commands \cup {StopReply}, has : SUBSET Points,
                got : {<< >>} \cup (Commands \X Answers), sent : Nat, breaks : Nat,
                spoilt : Nat, sessions : Nat]
    /\ gdb.does \in {"sent", "asked", "running"} => gdb.cmd \in Commands

DbgTyped == CpuTyped /\ WireTyped

-----------------------------------------------------------------------------
(* The list: no node has two before it, the first has none, the tail is    *)
(* the last.                                                               *)
WellLinked(b) ==
    /\ b.head # NoNode => b.tail \in Chained(b) /\ b.next[b.tail] = NoNode
    /\ \A p, q \in Chained(b) : b.next[p] = b.next[q] /\ b.next[p] # NoNode => p = q
    /\ \A p \in Chained(b) : b.next[p] # NoNode => b.next[p] # b.head

(* The connection and the CPU loop.  The stub leaves its command loop with *)
(* no packet unread.                                                       *)
Connected ==
    /\ gdb.does # "away" => sock /\ Without(toStub, {Eof})
    /\ gdb.does = "away" => gdb.has = {}
    /\ ~sock => toStub = << >> /\ toGdb = << >>
    /\ stub.at \in {"command", "ack"} => sock
    /\ stub.at = "accept" => ~sock
    /\ stub.at \in {"check", "exec"} /\ ~dbg.mode => ~sock
    /\ stub.at = "ack" /\ stub.why = "bad" => dbg.mode /\ dbg.nexti = "any"
    /\ stub.at # "command" => Without(inbuf, AskPackets)

(* One packet of GDB's, or its acknowledgement, is under way at a time.    *)
OneUnderWay ==
    /\ AtMostOne(inbuf, AskPackets) /\ AtMostOne(toStub, AskPackets)
    /\ AtMostOne(toGdb, Acks)
    /\ Without(inbuf, AskPackets) \/ Without(toStub, AskPackets)
    /\ (Without(inbuf, AskPackets) /\ Without(toStub, AskPackets)) \/ Without(toGdb, Acks)
    /\ gdb.does \in {"idle", "asked", "running"} =>
           /\ Without(inbuf, AskPackets) /\ Without(toStub, AskPackets)
           /\ Without(toGdb, Acks)
    /\ gdb.does = "sent" =>
           Only(inbuf, Copies(gdb.cmd) \cup {Plus, Minus, Break, Eof})
           /\ Only(toStub, Copies(gdb.cmd) \cup {Plus, Minus, Break, Eof})

(* The stub has taken GDB's command.                                       *)
Taken == gdb.does \in {"asked", "running"} \/ (gdb.does = "sent" /\ ~Without(toGdb, {Plus}))
(* The program does not run on.                                            *)
Stopped == \/ stub.at \in {"command", "ack"}
           \/ stub.at = "check" /\ dbg.mode /\ dbg.nexti = "any" /\ sock
(* Something other than old packets is under way to GDB.                   *)
Answered == \/ gdb.does \in {"asked", "running"} /\ toGdb # << >>
            \/ gdb.does = "sent" /\ ~Behind(toGdb, {Plus}, {})

(* Behind the acknowledgement of GDB's command come its answers only.      *)
FlowInStep ==
    /\ gdb.does = "sent" => Behind(toGdb, {Plus}, Copies(Answer(gdb.cmd)))
    /\ gdb.does \in {"asked", "running"} => Only(toGdb, Copies(Answer(gdb.cmd)))
    /\ gdb.does = "asked" => gdb.cmd.op \notin Resuming
    /\ gdb.does = "running" => gdb.cmd.op \in Resuming

(* A command is taken by a stopped program; until it is, and once it is    *)
(* answered, the program stays stopped.                                    *)
StubInStep ==
    /\ gdb.does \in {"idle", "sent"} /\ ~Taken => Stopped
    /\ Taken /\ gdb.cmd.op \in Resuming =>
           /\ Answered => Stopped
           /\ stub.at = "ack" => stub.out = StopReply
    /\ Taken /\ gdb.cmd.op \notin Resuming =>
           \/ stub.at = "command"
           \/ stub.at = "ack" /\ stub.why = "reply" /\ stub.out = Reply(gdb.cmd)

(* What GDB has been told is set is.                                       *)
HasIsSet ==
    /\ gdb.has \subseteq Chained(bps)
    /\ Taken /\ gdb.cmd.op = "Z" => gdb.cmd.at \in Chained(bps)
    /\ gdb.does = "sent" /\ gdb.cmd.op = "z" => gdb.cmd.at \notin gdb.has

DbgIInv ==
    /\ DbgTyped /\ WellLinked(bps) /\ Connected /\ OneUnderWay
    /\ FlowInStep /\ StubInStep /\ HasIsSet
    /\ BreakpointsStop /\ RepliesMatch

-----------------------------------------------------------------------------
(* Sequences, read at the head and written at the end.                     *)
LEMMA EmptyHolds ==
    ASSUME NEW K, NEW G
    PROVE  Without(<< >>, K) /\ AtMostOne(<< >>, K) /\ Only(<< >>, K) /\ Behind(<< >>, K, G)
BY DEF Without, AtMostOne, Only, Behind

LEMMA EmptyIs == << >> \in Seq(GdbItems) /\ << >> \in Seq(StubItems)
<1>1. << >> \in Seq(GdbItems)
  OBVIOUS
<1>2. << >> \in Seq(StubItems)
  OBVIOUS
<1>. QED BY <1>1, <1>2

LEMMA AppendedAt ==
    ASSUME NEW D, NEW s \in Seq(D), NEW e \in D
    PROVE  /\ Append(s, e) \in Seq(D) /\ Len(s) \in Nat /\ Len(Append(s, e)) = Len(s) + 1
           /\ \A i \in 1..Len(s) : i \in 1..Len(Append(s, e)) /\ Append(s, e)[i] = s[i]
           /\ Len(s) + 1 \in 1..Len(Append(s, e)) /\ Append(s, e)[Len(s) + 1] = e
           /\ \A i \in 1..Len(Append(s, e)) : i \in 1..Len(s) \/ i = Len(s) + 1
OBVIOUS

LEMMA Appended ==
    ASSUME NEW D, NEW s \in Seq(D), NEW e \in D, NEW K, NEW G
    PROVE  /\ Append(s, e) \in Seq(D) /\ Append(s, e) # << >>
           /\ Without(Append(s, e), K) <=> Without(s, K) /\ e \notin K
           /\ AtMostOne(s, K) /\ (e \notin K \/ Without(s, K)) => AtMostOne(Append(s, e), K)
           /\ Only(s, K) /\ e \in K => Only(Append(s, e), K)
           /\ Behind(s, K, G) /\ (e \in G \/ Without(s, K)) => Behind(Append(s, e), K, G)
           /\ Without(s, K) => Behind(s, K, G)
<1>. DEFINE t == Append(s, e)
            n == Len(s)
<1>1. /\ t \in Seq(D) /\ n \in Nat /\ Len(t) = n + 1
      /\ \A i \in 1..n : i \in 1..Len(t) /\ t[i] = s[i]
      /\ n + 1 \in 1..Len(t) /\ t[n + 1] = e
      /\ \A i \in 1..Len(t) : i \in 1..n \/ i = n + 1
  BY AppendedAt
<1>2. t # << >>
  BY <1>1
<1>. HIDE DEF t, n
<1>3. Without(t, K) <=> (\A i \in 1..n : s[i] \notin K) /\ e \notin K
  BY <1>1 DEF Without
<1>4. ASSUME \A i, j \in 1..n : s[i] \in K /\ s[j] \in K => i = j,
             e \notin K \/ \A i \in 1..n : s[i] \notin K
      PROVE  AtMostOne(t, K)
  BY <1>1, <1>4 DEF AtMostOne
<1>5. (\A i \in 1..n : s[i] \in K) /\ e \in K => Only(t, K)
  BY <1>1 DEF Only
<1>6. ASSUME \A i, j \in 1..n : i < j /\ s[i] \in K => s[j] \in G,
             e \in G \/ \A i \in 1..n : s[i] \notin K
      PROVE  Behind(t, K, G)
  <2>. SUFFICES ASSUME NEW i \in 1..Len(t), NEW j \in 1..Len(t), i < j, t[i] \in K
                PROVE  t[j] \in G
    BY DEF Behind
  <2>1. i \in 1..n /\ t[i] = s[i]
    BY <1>1
  <2>2. CASE j \in 1..n
    BY <1>1, <1>6, <2>1, <2>2
  <2>3. CASE j = n + 1
    BY <1>1, <1>6, <2>1, <2>3
  <2>. QED BY <1>1, <2>2, <2>3
<1>7. Without(s, K) => Behind(s, K, G)
  BY DEF Without, Behind
<1>. QED BY <1>1, <1>2, <1>3, <1>4, <1>5, <1>6, <1>7 DEF t, n, Without, AtMostOne, Only, Behind

LEMMA TailAt ==
    ASSUME NEW D, NEW s \in Seq(D), s # << >>
    PROVE  /\ Tail(s) \in Seq(D) /\ Head(s) \in D /\ Len(s) \in Nat /\ Len(s) >= 1
           /\ Len(Tail(s)) = Len(s) - 1 /\ Head(s) = s[1]
           /\ \A i \in 1..Len(Tail(s)) : i + 1 \in 2..Len(s) /\ Tail(s)[i] = s[i + 1]
           /\ \A i \in 1..Len(s) : i = 1 \/ (i - 1 \in 1..Len(Tail(s)) /\ s[i] = Tail(s)[i - 1])
OBVIOUS

LEMMA Removed ==
    ASSUME NEW D, NEW s \in Seq(D), s # << >>, NEW K, NEW G
    PROVE  /\ Tail(s) \in Seq(D) /\ Head(s) \in D
           /\ Without(s, K) <=> Head(s) \notin K /\ Without(Tail(s), K)
           /\ AtMostOne(s, K) => /\ AtMostOne(Tail(s), K)
                                 /\ Head(s) \in K => Without(Tail(s), K)
           /\ Only(s, K) => Head(s) \in K /\ Only(Tail(s), K)
           /\ Behind(s, K, G) => /\ Behind(Tail(s), K, G)
                                 /\ Head(s) \in K => Only(Tail(s), G)
<1>. DEFINE t == Tail(s)
            n == Len(s)
<1>1. /\ t \in Seq(D) /\ Head(s) \in D /\ n \in Nat /\ n >= 1 /\ Len(t) = n - 1
      /\ Head(s) = s[1]
      /\ \A i \in 1..Len(t) : i + 1 \in 2..n /\ t[i] = s[i + 1]
      /\ \A i \in 1..n : i = 1 \/ (i - 1 \in 1..Len(t) /\ s[i] = t[i - 1])
  BY TailAt
<1>. HIDE DEF t, n
<1>2. \A i \in 1..Len(t) : i \in Int /\ i + 1 \in 1..n /\ 1 < i + 1 /\ t[i] = s[i + 1]
  BY <1>1
<1>3. (\A i \in 1..n : s[i] \notin K) <=> Head(s) \notin K /\ Without(t, K)
  <2>1. ASSUME \A i \in 1..n : s[i] \notin K PROVE Head(s) \notin K /\ Without(t, K)
    BY <1>1, <1>2, <2>1 DEF Without
  <2>2. ASSUME Head(s) \notin K, Without(t, K), NEW i \in 1..n PROVE s[i] \notin K
    BY <1>1, <2>2 DEF Without
  <2>. QED BY <2>1, <2>2
<1>4. ASSUME \A i, j \in 1..n : s[i] \in K /\ s[j] \in K => i = j
      PROVE  AtMostOne(t, K) /\ (Head(s) \in K => Without(t, K))
  <2>1. ASSUME NEW i \in 1..Len(t), NEW j \in 1..Len(t), t[i] \in K, t[j] \in K
        PROVE  i = j
    <3>1. i + 1 = j + 1
      BY <1>2, <1>4, <2>1
    <3>. QED BY <1>2, <3>1
  <2>2. ASSUME Head(s) \in K, NEW i \in 1..Len(t) PROVE t[i] \notin K
    <3>1. 1 \in 1..n /\ i + 1 \in 1..n /\ 1 # i + 1
      BY <1>1, <1>2
    <3>. QED BY <1>1, <1>2, <1>4, <2>2, <3>1
  <2>. QED BY <2>1, <2>2 DEF AtMostOne, Without
<1>5. (\A i \in 1..n : s[i] \in K) => Head(s) \in K /\ Only(t, K)
  BY <1>1, <1>2 DEF Only
<1>6. ASSUME \A i, j \in 1..n : i < j /\ s[i] \in K => s[j] \in G
      PROVE  Behind(t, K, G) /\ (Head(s) \in K => Only(t, G))
  <2>1. ASSUME NEW i \in 1..Len(t), NEW j \in 1..Len(t), i < j, t[i] \in K
        PROVE  t[j] \in G
    <3>1. i + 1 < j + 1
      BY <1>2, <2>1
    <3>. QED BY <1>2, <1>6, <2>1, <3>1
  <2>2. ASSUME Head(s) \in K, NEW i \in 1..Len(t) PROVE t[i] \in G
    <3>1. 1 \in 1..n
      BY <1>1
    <3>. QED BY <1>1, <1>2, <1>6, <2>2, <3>1
  <2>. QED BY <2>1, <2>2 DEF Behind, Only
<1>. QED BY <1>1, <1>3, <1>4, <1>5, <1>6 DEF t, n, Without, AtMostOne, Only, Behind

LEMMA CutAt ==
    ASSUME NEW D, NEW s \in Seq(D), NEW n \in 1..Len(s)
    PROVE  /\ SubSeq(s, 1, n) \in Seq(D) /\ SubSeq(s, n + 1, Len(s)) \in Seq(D)
           /\ \A i \in 1..Len(SubSeq(s, 1, n)) :
                  i \in 1..Len(s) /\ i <= n /\ SubSeq(s, 1, n)[i] = s[i]
           /\ \A i \in 1..Len(SubSeq(s, n + 1, Len(s))) :
                  n + i \in 1..Len(s) /\ n + i > n /\ SubSeq(s, n + 1, Len(s))[i] = s[n + i]
<1>1. SubSeq(s, 1, n) \in Seq(D) /\ SubSeq(s, n + 1, Len(s)) \in Seq(D)
  OBVIOUS
<1>2. \A i \in 1..Len(SubSeq(s, 1, n)) :
          i \in 1..Len(s) /\ i <= n /\ SubSeq(s, 1, n)[i] = s[i]
  OBVIOUS
<1>3. \A i \in 1..Len(SubSeq(s, n + 1, Len(s))) :
          n + i \in 1..Len(s) /\ n + i > n /\ SubSeq(s, n + 1, Len(s))[i] = s[n + i]
  OBVIOUS
<1>. QED BY <1>1, <1>2, <1>3

LEMMA Cut ==
    ASSUME NEW D, NEW s \in Seq(D), NEW n \in 1..Len(s), NEW K
    PROVE  LET f == SubSeq(s, 1, n)
               r == SubSeq(s, n + 1, Len(s))
           IN  /\ f \in Seq(D) /\ r \in Seq(D)
               /\ Without(s, K) => Without(f, K) /\ Without(r, K)
               /\ AtMostOne(s, K) => AtMostOne(f, K) /\ AtMostOne(r, K)
                                     /\ (Without(f, K) \/ Without(r, K))
               /\ Only(s, K) => Only(f, K) /\ Only(r, K)
<1>. DEFINE f == SubSeq(s, 1, n)
            r == SubSeq(s, n + 1, Len(s))
            m == Len(s)
<1>1. /\ f \in Seq(D) /\ r \in Seq(D)
      /\ \A i \in 1..Len(f) : i \in 1..m /\ i <= n /\ f[i] = s[i]
      /\ \A i \in 1..Len(r) : n + i \in 1..m /\ n + i > n /\ r[i] = s[n + i]
  BY CutAt
<1>. HIDE DEF f, r, m
<1>2. n \in Int
  OBVIOUS
<1>3. (\A i \in 1..m : s[i] \notin K) => Without(f, K) /\ Without(r, K)
  BY <1>1 DEF Without
<1>4. (\A i \in 1..m : s[i] \in K) => Only(f, K) /\ Only(r, K)
  BY <1>1 DEF Only
<1>5. ASSUME \A i, j \in 1..m : s[i] \in K /\ s[j] \in K => i = j
      PROVE  AtMostOne(f, K) /\ AtMostOne(r, K) /\ (Without(f, K) \/ Without(r, K))
  <2>1. AtMostOne(f, K)
    BY <1>1, <1>5 DEF AtMostOne
  <2>2. ASSUME NEW i \in 1..Len(r), NEW j \in 1..Len(r), r[i] \in K, r[j] \in K
        PROVE  i = j
    <3>1. n + i = n + j
      BY <1>1, <1>5, <2>2
    <3>2. i \in Int /\ j \in Int
      OBVIOUS
    <3>. QED BY <1>2, <3>1, <3>2
  <2>3. ASSUME NEW i \in 1..Len(f), NEW j \in 1..Len(r), f[i] \in K, r[j] \in K
        PROVE  FALSE
    <3>1. i = n + j
      BY <1>1, <1>5, <2>3
    <3>2. i <= n /\ n + j > n /\ i \in Int /\ j \in Int
      BY <1>1
    <3>. QED BY <1>2, <3>1, <3>2
  <2>. QED BY <2>1, <2>2, <2>3 DEF AtMostOne, Without
<1>. QED BY <1>1, <1>3, <1>4, <1>5 DEF f, r, m, Without, AtMostOne, Only
-----------------------------------------------------------------------------
(* What travels: acknowledgements are no packets, and a packet is what     *)
(* getpkt takes it for.                                                    *)
LEMMA KindsApart ==
    /\ \A x \in AskPackets \cup AnswerPackets : x.type = "packet" /\ x.spoilt \in BOOLEAN
    /\ Plus \notin AskPackets \cup AnswerPackets /\ Minus \notin AskPackets \cup AnswerPackets
    /\ Break \notin AskPackets /\ Eof \notin AskPackets
    /\ Plus # Minus /\ Plus # Break /\ Plus # Eof /\ Minus # Eof /\ Break # Eof
    /\ Minus # Break
<1>1. \A x \in AskPackets \cup AnswerPackets : x.type = "packet" /\ x.spoilt \in BOOLEAN
  BY DEF AskPackets, AnswerPackets
<1>2. Plus.type = "+" /\ Minus.type = "-" /\ Break.type = "^C" /\ Eof.type = "eof"
  BY DEF Plus, Minus, Break, Eof
<1>. QED BY <1>1, <1>2

LEMMA CopiesAre ==
    /\ \A c \in Commands : Copies(c) \subseteq AskPackets /\ Answer(c) \in Answers
    /\ \A c \in Answers : Copies(c) \subseteq AnswerPackets
    /\ \A c, x : x \in Copies(c) => x.type = "packet" /\ x.is = c
    /\ \A c : \A spoilt \in BOOLEAN : Packet(c, spoilt) \in Copies(c)
<1>1. \A c \in Commands : Answer(c) \in Answers
  BY DEF Answer, Answers
<1>2. \A c \in Commands : Copies(c) \subseteq AskPackets
  BY DEF Copies, Packet, AskPackets
<1>3. \A c \in Answers : Copies(c) \subseteq AnswerPackets
  BY DEF Copies, Packet, AnswerPackets
<1>4. \A c, x : x \in Copies(c) => x.type = "packet" /\ x.is = c
  BY DEF Copies, Packet
<1>. QED BY <1>1, <1>2, <1>3, <1>4 DEF Copies

LEMMA PacketsRead ==
    ASSUME NEW x \in StubItems
    PROVE  /\ x.type = "packet" <=> x \in AskPackets
           /\ Accepted(x) => x \in AskPackets /\ Understood(x) = x.is /\ x.is \in Commands
           /\ x \in AskPackets => x.is \in Commands /\ x.spoilt \in BOOLEAN
<1>1. x.type = "packet" <=> x \in AskPackets
  BY KindsApart DEF StubItems, Plus, Minus, Break, Eof
<1>2. x \in AskPackets => x.is \in Commands /\ x.spoilt \in BOOLEAN
  BY DEF AskPackets
<1>. QED BY <1>1, <1>2 DEF Accepted, Understood

LEMMA ResumesGo ==
    \A o \in Resuming : Goes[o] \in {"any", "none", "0"}
BY DEF Goes, Resuming

LEMMA AnswersAre ==
    /\ StopReply \in Answers
    /\ \A c \in Commands : Reply(c) \in Answers /\ (c.op \notin Resuming => Answer(c) = Reply(c))
    /\ \A c \in Commands : c.op \in Resuming => Answer(c) = StopReply
    /\ \A c \in Commands : Reply(c).op = "OK Z" => c.op = "Z" /\ Reply(c).at = c.at
    /\ StopReply.op # "OK Z"
    /\ \A c \in Commands : c.op \in {"Z", "z"} => c.at \in Points
<1>1. \A c \in Commands : c.op \in Ops
  BY DEF Commands
<1>2. \A c \in Commands : c.op \in {"Z", "z"} => c.at \in Points
  BY DEF Commands
<1>3. \A c \in Commands : Reply(c).op = "OK Z" => c.op = "Z" /\ Reply(c).at = c.at
  BY DebuggerAssumption DEF Reply, Commands
<1>. QED BY <1>2, <1>3 DEF Answer, Answers, StopReply
-----------------------------------------------------------------------------
(* The list of breakpoints.                                                *)
LEMMA ChainedIs ==
    ASSUME NEW b \in Lists
    PROVE  /\ Chained(b) \subseteq Points /\ Follows(b, Chained(b))
           /\ \A S \in SUBSET Points : Follows(b, S) => Chained(b) \subseteq S
<1>1. Chained(b) \subseteq Points
  BY DEF Chained
<1>2. \A S \in SUBSET Points : Follows(b, S) => Chained(b) \subseteq S
  BY DEF Chained
<1>3. ASSUME b.head # NoNode PROVE b.head \in Chained(b)
  BY <1>3 DEF Chained, Follows, Lists
<1>4. ASSUME NEW p \in Chained(b), b.next[p] # NoNode PROVE b.next[p] \in Chained(b)
  <2>1. b.next[p] \in Points
    BY <1>1, <1>4 DEF Lists
  <2>2. \A S \in SUBSET Points : Follows(b, S) => p \in S
    BY DEF Chained
  <2>. QED BY <1>4, <2>1, <2>2 DEF Chained, Follows
<1>. QED BY <1>1, <1>2, <1>3, <1>4 DEF Follows

(* insert_breakpoint adds the breakpoint and loses none.                   *)
THEOREM InsertedSound ==
    ASSUME NEW b \in Lists, WellLinked(b), NEW a \in Points
    PROVE  /\ Inserted(b, a) \in Lists /\ WellLinked(Inserted(b, a))
           /\ Chained(Inserted(b, a)) = Chained(b) \cup {a}
<1>. DEFINE d == Inserted(b, a)
<1>0. NoNode \notin Points
  BY DebuggerAssumption DEF NoNode
<1>1. /\ Chained(b) \subseteq Points /\ Follows(b, Chained(b))
      /\ \A S \in SUBSET Points : Follows(b, S) => Chained(b) \subseteq S
  BY ChainedIs
<1>2. CASE b.head = NoNode
  <2>1. d = [b EXCEPT !.head = a, !.tail = a, !.next[a] = NoNode]
    BY <1>2 DEF Inserted
  <2>2. d \in Lists /\ d.head = a /\ d.tail = a /\ d.next[a] = NoNode
    <3>. DEFINE n == [b.next EXCEPT ![a] = NoNode]
    <3>1. b.next \in [Points -> Points \cup {NoNode}]
      BY DEF Lists
    <3>2. n \in [Points -> Points \cup {NoNode}] /\ n[a] = NoNode
      BY <3>1
    <3>3. d = [b EXCEPT !.head = a, !.tail = a, !.next = n]
      BY <2>1
    <3>. HIDE DEF n, d
    <3>4. d.head = a /\ d.tail = a /\ d.next = n /\ d \in Lists
      BY <3>2, <3>3 DEF Lists
    <3>. QED BY <3>2, <3>4
  <2>. HIDE DEF d
  <2>3. Follows(b, {}) /\ Follows(d, {a})
    BY <1>2, <2>2 DEF Follows
  <2>4. Chained(b) = {} /\ Chained(d) \subseteq {a}
    BY <1>1, <2>2, <2>3, ChainedIs
  <2>5. Chained(d) = {a}
    BY <1>0, <2>2, <2>4, ChainedIs DEF Follows
  <2>6. WellLinked(d)
    BY <2>2, <2>5 DEF WellLinked
  <2>. QED BY <2>2, <2>4, <2>5, <2>6 DEF d
<1>3. CASE b.head # NoNode /\ a \in Chained(b)
  BY <1>3 DEF Inserted
<1>4. CASE b.head # NoNode /\ a \notin Chained(b)
  <2>1. d = [b EXCEPT !.next = [@ EXCEPT ![a] = NoNode, ![b.tail] = a], !.tail = a]
    BY <1>4 DEF Inserted
  <2>2. b.tail \in Chained(b) /\ b.next[b.tail] = NoNode /\ b.head \in Chained(b)
    BY <1>1, <1>4 DEF WellLinked, Follows
  <2>3. /\ d \in Lists /\ d.head = b.head /\ d.tail = a /\ d.next[a] = NoNode
        /\ d.next[b.tail] = a
        /\ \A p \in Points : p # a /\ p # b.tail => d.next[p] = b.next[p]
    <3>. DEFINE n == [b.next EXCEPT ![a] = NoNode, ![b.tail] = a]
    <3>1. b.next \in [Points -> Points \cup {NoNode}] /\ b.head \in Points \cup {NoNode}
      BY DEF Lists
    <3>2. b.tail \in Points /\ a # b.tail
      BY <1>1, <1>4, <2>2
    <3>3. /\ n \in [Points -> Points \cup {NoNode}] /\ n[a] = NoNode /\ n[b.tail] = a
          /\ \A p \in Points : p # a /\ p # b.tail => n[p] = b.next[p]
      BY <3>1, <3>2
    <3>4. d = [b EXCEPT !.next = n, !.tail = a]
      BY <2>1
    <3>. HIDE DEF n, d
    <3>5. d \in Lists /\ d.head = b.head /\ d.tail = a /\ d.next = n
      BY <3>1, <3>3, <3>4 DEF Lists
    <3>. QED BY <3>3, <3>5
  <2>. HIDE DEF d
  <2>4. \A p \in Chained(b) : d.next[p] = IF p = b.tail THEN a ELSE b.next[p]
    BY <1>1, <1>4, <2>3
  <2>5. \A p \in Chained(b) : b.next[p] # NoNode => b.next[p] \in Chained(b)
    BY <1>1 DEF Follows
  <2>6. Chained(d) \subseteq Chained(b) \cup {a}
    <3>1. Follows(d, Chained(b) \cup {a})
      BY <2>2, <2>3, <2>4, <2>5 DEF Follows
    <3>. QED BY <1>1, <2>3, <3>1, ChainedIs
  <2>7. Chained(b) \cup {a} \subseteq Chained(d)
    <3>. DEFINE S == Chained(d) \cap Chained(b)
    <3>1. Follows(d, Chained(d))
      BY <2>3, ChainedIs
    <3>2. b.head \in S
      BY <1>4, <2>2, <2>3, <3>1 DEF Follows
    <3>3. ASSUME NEW p \in S, b.next[p] # NoNode PROVE b.next[p] \in S
      <4>1. d.next[p] = b.next[p]
        BY <2>2, <2>4, <3>3
      <4>. QED BY <2>5, <3>1, <3>3, <4>1 DEF Follows
    <3>4. Follows(b, S)
      BY <3>2, <3>3 DEF Follows
    <3>5. Chained(b) \subseteq Chained(d)
      BY <1>1, <3>4
    <3>6. a \in Chained(d)
      BY <1>0, <2>2, <2>3, <3>1, <3>5 DEF Follows
    <3>. QED BY <3>5, <3>6
  <2>8. Chained(d) = Chained(b) \cup {a}
    BY <2>6, <2>7
  <2>9. ASSUME NEW p \in Chained(d), NEW q \in Chained(d), d.next[p] = d.next[q],
               d.next[p] # NoNode
        PROVE  p = q
    <3>1. p \in Chained(b) /\ q \in Chained(b)
      BY <2>3, <2>8, <2>9
    <3>2. CASE p = b.tail \/ q = b.tail
      BY <1>0, <1>4, <2>3, <2>4, <2>5, <2>9, <3>1, <3>2
    <3>3. CASE p # b.tail /\ q # b.tail
      BY <2>4, <2>9, <3>1, <3>3 DEF WellLinked
    <3>. QED BY <3>2, <3>3
  <2>10. ASSUME NEW p \in Chained(d), d.next[p] # NoNode PROVE d.next[p] # d.head
    BY <1>4, <2>2, <2>3, <2>4, <2>8, <2>10 DEF WellLinked
  <2>11. WellLinked(d)
    BY <2>3, <2>8, <2>9, <2>10 DEF WellLinked
  <2>. QED BY <2>3, <2>8, <2>11 DEF d
<1>. QED BY <1>2, <1>3, <1>4

(* delete_breakpoint takes out the breakpoint alone; the tail is moved     *)
(* back when it is the one that goes.                                      *)
THEOREM DeletedSound ==
    ASSUME NEW b \in Lists, WellLinked(b), NEW a \in Points
    PROVE  /\ Deleted(b, a) \in Lists /\ WellLinked(Deleted(b, a))
           /\ Chained(Deleted(b, a)) = Chained(b) \ {a}
<1>. DEFINE d == Deleted(b, a)
            C == Chained(b)
<1>0. NoNode \notin Points
  BY DebuggerAssumption DEF NoNode
<1>1. /\ C \subseteq Points /\ Follows(b, C)
      /\ \A S \in SUBSET Points : Follows(b, S) => C \subseteq S
  BY ChainedIs
<1>2. CASE a \notin C
  BY <1>2 DEF Deleted
<1>3. CASE a \in C
  <2>0. /\ b.head # NoNode => b.tail \in C /\ b.next[b.tail] = NoNode
        /\ \A p, q \in C : b.next[p] = b.next[q] /\ b.next[p] # NoNode => p = q
        /\ \A p \in C : b.next[p] # NoNode => b.next[p] # b.head
        /\ b.head # NoNode => b.head \in C
        /\ \A p \in C : b.next[p] # NoNode => b.next[p] \in C
    BY <1>1 DEF WellLinked, Follows
  <2>1. d = [b EXCEPT !.next = [p \in Points |-> IF @[p] = a THEN @[a] ELSE @[p]],
                      !.head = IF @ = a THEN b.next[a] ELSE @,
                      !.tail = IF @ # a THEN @
                               ELSE IF Before(b, a) = {} THEN NoNode
                               ELSE CHOOSE p \in Before(b, a) : TRUE]
    BY <1>3 DEF Deleted
  <2>2. Before(b, a) = {p \in C : b.next[p] = a}
    BY DEF Before
  <2>3. /\ d.head = IF b.head = a THEN b.next[a] ELSE b.head
        /\ d.tail = IF b.tail # a THEN b.tail
                    ELSE IF Before(b, a) = {} THEN NoNode
                    ELSE CHOOSE p \in Before(b, a) : TRUE
        /\ \A p \in Points : d.next[p] = IF b.next[p] = a THEN b.next[a] ELSE b.next[p]
        /\ d.next \in [Points -> Points \cup {NoNode}]
    BY <2>1 DEF Lists
  <2>. DEFINE last == CHOOSE p \in Before(b, a) : TRUE
  <2>4. Before(b, a) # {} => last \in Before(b, a)
    OBVIOUS
  <2>. HIDE DEF last
  <2>5. d \in Lists
    <3>1. d.head \in Points \cup {NoNode}
      BY <1>1, <1>3, <2>3 DEF Lists
    <3>2. d.tail \in Points \cup {NoNode}
      BY <1>1, <2>2, <2>3, <2>4 DEF Lists, last
    <3>3. DOMAIN d = {"head", "tail", "next"}
          /\ d = [head |-> d.head, tail |-> d.tail, next |-> d.next]
      BY <2>1 DEF Lists
    <3>. HIDE DEF d
    <3>. QED BY <2>3, <3>1, <3>2, <3>3 DEF Lists
  <2>. HIDE DEF d
  \* Each node of the list but the first has one before it.
  <2>6. a # b.head => \E p \in C : p # a /\ b.next[p] = a
    <3>1. SUFFICES ASSUME a # b.head, \A p \in C : p # a => b.next[p] # a
                   PROVE  FALSE
      OBVIOUS
    <3>2. Follows(b, C \ {a})
      BY <2>0, <3>1 DEF Follows
    <3>. QED BY <1>1, <1>3, <3>2
  <2>7. b.next[a] # a
    BY <1>0, <1>1, <1>3, <2>0, <2>6
  <2>8. Follows(d, C \ {a})
    <3>1. d.head # NoNode => d.head \in C \ {a}
      BY <1>3, <2>0, <2>3, <2>7
    <3>2. ASSUME NEW p \in C \ {a}, d.next[p] # NoNode PROVE d.next[p] \in C \ {a}
      BY <1>1, <1>3, <2>0, <2>3, <2>7, <3>2
    <3>. QED BY <3>1, <3>2 DEF Follows
  <2>9. Chained(d) \subseteq C \ {a}
    BY <1>1, <2>5, <2>8, ChainedIs
  <2>10. C \ {a} \subseteq Chained(d)
    <3>. DEFINE T == Chained(d)
    <3>1. T \subseteq Points /\ Follows(d, T)
      BY <2>5, ChainedIs
    <3>2. /\ d.head # NoNode => d.head \in T
          /\ \A p \in T : d.next[p] # NoNode => d.next[p] \in T
      BY <3>1 DEF Follows
    <3>. HIDE DEF T
    <3>3. CASE a = b.head \/ \E q \in T : b.next[q] = a
      <4>1. b.next[a] # NoNode => b.next[a] \in T
        BY <2>3, <3>1, <3>2, <3>3
      <4>2. \A p \in T : b.next[p] # NoNode => b.next[p] \in T \cup {a}
        BY <2>3, <3>1, <3>2
      <4>3. b.head # NoNode => b.head \in T \cup {a}
        BY <2>3, <3>2
      <4>4. Follows(b, T \cup {a})
        BY <4>1, <4>2, <4>3 DEF Follows
      <4>. QED BY <1>1, <3>1, <4>4 DEF T
    <3>4. CASE ~(a = b.head \/ \E q \in T : b.next[q] = a)
      <4>1. Follows(b, T)
        BY <2>3, <3>1, <3>2, <3>4 DEF Follows
      <4>. QED BY <1>1, <3>1, <4>1 DEF T
    <3>. QED BY <3>3, <3>4
  <2>11. Chained(d) = C \ {a}
    BY <2>9, <2>10
  <2>12. ASSUME NEW p \in C \ {a}, NEW q \in C \ {a}, d.next[p] = d.next[q],
                d.next[p] # NoNode
         PROVE  p = q
    <3>1. p \in Points /\ q \in Points
      BY <1>1
    <3>2. CASE b.next[p] = a /\ b.next[q] = a
      BY <1>0, <1>1, <1>3, <2>0, <3>2
    <3>3. CASE b.next[p] = a /\ b.next[q] # a
      BY <1>3, <2>0, <2>3, <2>12, <3>1, <3>3
    <3>4. CASE b.next[p] # a /\ b.next[q] = a
      BY <1>3, <2>0, <2>3, <2>12, <3>1, <3>4
    <3>5. CASE b.next[p] # a /\ b.next[q] # a
      BY <2>0, <2>3, <2>12, <3>1, <3>5
    <3>. QED BY <3>2, <3>3, <3>4, <3>5
  <2>13. ASSUME NEW p \in C \ {a}, d.next[p] # NoNode PROVE d.next[p] # d.head
    <3>1. p \in Points
      BY <1>1
    <3>2. CASE b.head = a
      <4>1. b.next[p] # a
        BY <1>0, <1>1, <1>3, <2>0, <3>2
      <4>. QED BY <1>3, <2>0, <2>3, <2>13, <3>1, <3>2, <4>1
    <3>3. CASE b.head # a
      BY <1>3, <2>0, <2>3, <2>13, <3>1, <3>3
    <3>. QED BY <3>2, <3>3
  <2>14. ASSUME d.head # NoNode PROVE d.tail \in C \ {a} /\ d.next[d.tail] = NoNode
    <3>1. b.head # NoNode
      BY <1>3, <1>0, <1>1, <2>3, <2>14
    <3>2. CASE b.tail # a
      <4>1. d.tail = b.tail /\ b.tail \in C /\ b.next[b.tail] = NoNode
        BY <2>0, <2>3, <3>1, <3>2
      <4>2. b.next[b.tail] # a
        BY <1>0, <1>1, <1>3, <4>1
      <4>. QED BY <1>1, <2>3, <3>2, <4>1, <4>2
    <3>3. CASE b.tail = a
      <4>1. b.next[a] = NoNode
        BY <2>0, <3>1, <3>3
      <4>2. b.head # a
        BY <2>3, <2>14, <4>1
      <4>3. Before(b, a) # {}
        BY <2>2, <2>6, <4>2
      <4>4. last \in C /\ b.next[last] = a /\ d.tail = last
        BY <2>2, <2>3, <2>4, <3>3, <4>3 DEF last
      <4>5. last # a
        BY <2>7, <4>4
      <4>. QED BY <1>1, <2>3, <4>1, <4>4, <4>5
    <3>. QED BY <3>2, <3>3
  <2>15. WellLinked(d)
    BY <2>11, <2>12, <2>13, <2>14 DEF WellLinked
  <2>. QED BY <2>5, <2>11, <2>15 DEF d
<1>. QED BY <1>2, <1>3
-----------------------------------------------------------------------------
(* The initial state, and the steps of the CPU loop that send nothing.     *)
LEMMA DbgInitHolds == DbgInit => DbgIInv
<1>. SUFFICES ASSUME DbgInit PROVE DbgIInv
  OBVIOUS
<1>1. /\ toGdb = << >> /\ toStub = << >> /\ inbuf = << >> /\ gdb.does = "away"
      /\ gdb.has = {} /\ gdb.got = << >> /\ stub.at = "check" /\ sock = FALSE
      /\ bps.head = NoNode /\ dbg.mode = TRUE
  BY DEF DbgInit
<1>2. bps \in Lists
  BY DEF DbgInit, Lists
<1>3. DbgTyped
  <2>1. toGdb \in Seq(GdbItems) /\ toStub \in Seq(StubItems) /\ inbuf \in Seq(StubItems)
    BY <1>1
  <2>2. stub \in [at : {"check", "accept", "command", "ack", "exec"}, out : Answers,
                  why : {"", "hit", "bad", "reply"}, resumed : BOOLEAN]
    BY AnswersAre DEF DbgInit
  <2>3. gdb \in [does : {"away", "idle", "sent", "asked", "running"},
                 cmd : Commands \cup {StopReply}, has : SUBSET Points,
                 got : {<< >>} \cup (Commands \X Answers), sent : Nat, breaks : Nat,
                 spoilt : Nat, sessions : Nat]
    BY DEF DbgInit
  <2>4. /\ dbg \in [mode : BOOLEAN, nexti : {"any", "none", "0"}]
        /\ dpc \in Points /\ sock \in BOOLEAN
    BY DEF DbgInit
  <2>. QED BY <1>1, <1>2, <2>1, <2>2, <2>3, <2>4 DEF DbgTyped, CpuTyped, WireTyped
<1>4. WellLinked(bps)
  <2>1. Follows(bps, {})
    BY <1>1 DEF Follows
  <2>. QED BY <1>1, <1>2, <2>1, ChainedIs DEF WellLinked
<1>5. Connected /\ OneUnderWay
  BY <1>1, EmptyHolds DEF Connected, OneUnderWay
<1>6. ~Taken /\ FlowInStep /\ StubInStep /\ HasIsSet
  BY <1>1 DEF Taken, FlowInStep, StubInStep, HasIsSet
<1>. QED BY <1>1, <1>3, <1>4, <1>5, <1>6 DEF DbgIInv, BreakpointsStop, RepliesMatch

LEMMA CpuStays == CpuTyped /\ UNCHANGED <<bps, dbg, sock, stub, dpc>> => CpuTyped'
<1>. SUFFICES ASSUME CpuTyped, UNCHANGED <<bps, dbg, sock, stub, dpc>> PROVE CpuTyped'
  OBVIOUS
<1>1. sock' \in BOOLEAN
  BY DEF CpuTyped
<1>2. dbg' \in [mode : BOOLEAN, nexti : {"any", "none", "0"}]
  BY DEF CpuTyped
<1>. QED BY <1>1, <1>2 DEF CpuTyped

(* The stub reads nothing, or what comes first.                            *)
Shrinks == toStub' = toStub \/ (toStub # << >> /\ toStub' = Tail(toStub))

LEMMA ShrinksKeeps ==
    ASSUME toStub \in Seq(StubItems), Shrinks, NEW K
    PROVE  /\ toStub' \in Seq(StubItems)
           /\ Without(toStub, K) => Without(toStub', K)
           /\ AtMostOne(toStub, K) => AtMostOne(toStub', K)
           /\ Only(toStub, K) => Only(toStub', K)
<1>1. CASE toStub' = toStub
  BY <1>1
<1>2. CASE toStub # << >> /\ toStub' = Tail(toStub)
  <2>1. /\ Tail(toStub) \in Seq(StubItems)
        /\ Without(toStub, K) => Without(Tail(toStub), K)
        /\ AtMostOne(toStub, K) => AtMostOne(Tail(toStub), K)
        /\ Only(toStub, K) => Only(Tail(toStub), K)
    BY <1>2, Removed
  <2>. QED BY <1>2, <2>1
<1>. QED BY <1>1, <1>2 DEF Shrinks

LEMMA OneStays ==
    ASSUME DbgIInv, Shrinks, UNCHANGED inbuf, gdb'.does = gdb.does, gdb'.cmd = gdb.cmd,
           AtMostOne(toGdb', Acks), Without(toGdb, Acks) => Without(toGdb', Acks)
    PROVE  OneUnderWay'
<1>1. toStub \in Seq(StubItems)
  BY DEF DbgIInv, DbgTyped, CpuTyped, WireTyped
<1>2. \A K : /\ Without(toStub, K) => Without(toStub', K)
             /\ AtMostOne(toStub, K) => AtMostOne(toStub', K)
             /\ Only(toStub, K) => Only(toStub', K)
  BY <1>1, ShrinksKeeps
<1>. QED BY <1>2 DEF DbgIInv, OneUnderWay

LEMMA SameFlow ==
    ASSUME DbgIInv, UNCHANGED <<bps, toGdb, inbuf, gdb>>, Shrinks
    PROVE  /\ WellLinked(bps') /\ OneUnderWay' /\ FlowInStep' /\ HasIsSet' /\ RepliesMatch'
           /\ Taken' = Taken /\ Answered' = Answered
<1>1. Taken' = Taken /\ Answered' = Answered
  BY DEF Taken, Answered
<1>2. HasIsSet'
  BY <1>1 DEF DbgIInv, HasIsSet
<1>3. AtMostOne(toGdb', Acks) /\ (Without(toGdb, Acks) => Without(toGdb', Acks))
  BY DEF DbgIInv, OneUnderWay
<1>. QED BY <1>1, <1>2, <1>3, OneStays DEF DbgIInv, FlowInStep, RepliesMatch

LEMMA CheckHolds ==
    ASSUME DbgIInv, CheckWaits \/ CheckStops \/ CheckPasses \/ Executes
    PROVE  DbgIInv'
<1>1. UNCHANGED <<bps, sock, toGdb, toStub, inbuf, gdb>>
  BY DEF CheckWaits, CheckStops, CheckPasses, Executes
<1>2. /\ WellLinked(bps') /\ OneUnderWay' /\ FlowInStep' /\ HasIsSet' /\ RepliesMatch'
      /\ Taken' = Taken /\ Answered' = Answered
  BY <1>1, SameFlow DEF Shrinks
<1>. USE DEF DbgIInv
<1>3. CASE CheckWaits
  <2>1. /\ stub.at = "check" /\ stub'.at = "accept" /\ ~sock /\ UNCHANGED dpc
        /\ gdb.does = "away"
    BY <1>3 DEF CheckWaits, DbgTyped, CpuTyped, WireTyped, Connected
  <2>2. DbgTyped'
    BY <1>1, <1>3 DEF CheckWaits, DbgTyped, CpuTyped, WireTyped
  <2>3. Connected' /\ BreakpointsStop'
    BY <1>1, <2>1 DEF Connected, BreakpointsStop
  <2>4. StubInStep'
    BY <1>1, <1>2, <2>1 DEF StubInStep, Taken
  <2>. QED BY <1>2, <2>2, <2>3, <2>4
<1>4. CASE CheckStops
  <2>1. /\ stub.at = "check" /\ stub'.at = "command" /\ sock /\ UNCHANGED <<dpc, dbg>>
        /\ dbg.mode /\ dbg.nexti = "any"
    BY <1>4 DEF CheckStops, DbgTyped, CpuTyped, WireTyped
  <2>2. DbgTyped'
    BY <1>1, <1>4 DEF CheckStops, DbgTyped, CpuTyped, WireTyped
  <2>3. Connected' /\ BreakpointsStop'
    BY <1>1, <2>1 DEF Connected, BreakpointsStop
  <2>4. StubInStep'
    BY <1>1, <1>2, <2>1 DEF StubInStep, Stopped
  <2>. QED BY <1>2, <2>2, <2>3, <2>4
<1>5. CASE CheckPasses
  <2>1. /\ stub.at = "check" /\ stub'.at = "exec" /\ UNCHANGED <<dpc, dbg>>
        /\ dbg.mode => ~Hit /\ sock /\ dbg.nexti # "any"
    BY <1>5 DEF CheckPasses, DbgTyped, CpuTyped, WireTyped
  <2>2. DbgTyped'
    BY <1>1, <1>5 DEF CheckPasses, DbgTyped, CpuTyped, WireTyped
  <2>3. Connected'
    BY <1>1, <2>1 DEF Connected
  <2>4. BreakpointsStop'
    BY <1>1, <2>1 DEF Connected, BreakpointsStop, HasIsSet, Hit
  <2>5. ~Stopped
    BY <2>1 DEF Stopped
  <2>6. StubInStep'
    BY <1>1, <1>2, <2>1, <2>5 DEF StubInStep
  <2>. QED BY <1>2, <2>2, <2>3, <2>4, <2>6
<1>6. CASE Executes
  <2>1. stub.at = "exec" /\ stub'.at = "check" /\ UNCHANGED dbg
    BY <1>6 DEF Executes, DbgTyped, CpuTyped, WireTyped
  <2>2. DbgTyped'
    BY <1>1, <1>6 DEF Executes, DbgTyped, CpuTyped, WireTyped
  <2>3. Connected' /\ BreakpointsStop'
    BY <1>1, <2>1 DEF Connected, BreakpointsStop
  <2>4. ~Stopped
    BY <2>1 DEF Stopped
  <2>5. StubInStep'
    BY <1>1, <1>2, <2>1, <2>4 DEF StubInStep
  <2>. QED BY <1>2, <2>2, <2>3, <2>5
<1>. QED BY <1>3, <1>4, <1>5, <1>6
-----------------------------------------------------------------------------
(* The stub sends an answer.                                               *)
LEMMA ArrivingIs ==
    ASSUME NEW c, NEW p \in Arriving(c)
    PROVE  p \in Copies(c) /\ p.spoilt \in BOOLEAN
<1>1. PICK b \in BOOLEAN : p = Packet(c, b)
  BY DEF Arriving
<1>2. p.spoilt = b
  BY <1>1 DEF Packet
<1>. QED BY <1>1, <1>2 DEF Copies

LEMMA SpoilingIs ==
    ASSUME DbgTyped, NEW p, p.spoilt \in BOOLEAN
    PROVE  \E n \in Nat : Spoiling(p) = [gdb EXCEPT !.spoilt = n]
<1>1. gdb.spoilt \in Nat
  BY DEF DbgTyped, CpuTyped, WireTyped
<1>2. (gdb.spoilt + IF p.spoilt THEN 1 ELSE 0) \in Nat
  BY <1>1
<1>. QED BY <1>2 DEF Spoiling

LEMMA SendsOne ==
    ASSUME DbgIInv, NEW c \in Answers, Sends(c)
    PROVE  /\ \E p \in Copies(c) : toGdb' = Append(toGdb, p)
           /\ toGdb' \in Seq(GdbItems) /\ toGdb' # << >>
           /\ gdb'.does = gdb.does /\ gdb'.cmd = gdb.cmd /\ gdb'.has = gdb.has
           /\ gdb'.got = gdb.got
           /\ gdb' \in [does : {"away", "idle", "sent", "asked", "running"},
                        cmd : Commands \cup {StopReply}, has : SUBSET Points,
                        got : {<< >>} \cup (Commands \X Answers), sent : Nat,
                        breaks : Nat, spoilt : Nat, sessions : Nat]
<1>1. PICK p \in Arriving(c) : toGdb' = Append(toGdb, p) /\ gdb' = Spoiling(p)
  BY DEF Sends
<1>2. p \in Copies(c) /\ p.spoilt \in BOOLEAN
  BY <1>1, ArrivingIs
<1>3. p \in GdbItems
  BY <1>2, CopiesAre DEF GdbItems
<1>4. toGdb \in Seq(GdbItems)
  BY DEF DbgIInv, DbgTyped, CpuTyped, WireTyped
<1>5. toGdb' \in Seq(GdbItems) /\ toGdb' # << >>
  BY <1>1, <1>3, <1>4, Appended
<1>6. PICK n \in Nat : gdb' = [gdb EXCEPT !.spoilt = n]
  BY <1>1, <1>2, SpoilingIs DEF DbgIInv
<1>. QED BY <1>1, <1>2, <1>5, <1>6 DEF DbgIInv, DbgTyped, CpuTyped, WireTyped

(* It is one that GDB may take for what it waits for.                      *)
LEMMA SendsInStep ==
    ASSUME DbgIInv, NEW c \in Answers, Sends(c), UNCHANGED <<bps, inbuf>>, Shrinks,
           Taken => c = Answer(gdb.cmd)
    PROVE  /\ Taken' = Taken /\ WellLinked(bps') /\ OneUnderWay' /\ FlowInStep'
           /\ HasIsSet' /\ RepliesMatch'
<1>1. PICK p \in Copies(c) : toGdb' = Append(toGdb, p)
  BY SendsOne
<1>2. gdb'.does = gdb.does /\ gdb'.cmd = gdb.cmd /\ gdb'.has = gdb.has /\ gdb'.got = gdb.got
  BY SendsOne
<1>3. toGdb \in Seq(GdbItems) /\ p \in AnswerPackets /\ p \in GdbItems
  BY CopiesAre DEF DbgIInv, DbgTyped, CpuTyped, WireTyped, GdbItems
<1>4. p \notin Acks /\ p \notin {Plus}
  BY <1>3, KindsApart DEF Acks
<1>5. /\ Without(toGdb', Acks) <=> Without(toGdb, Acks)
      /\ Without(toGdb', {Plus}) <=> Without(toGdb, {Plus})
      /\ AtMostOne(toGdb, Acks) => AtMostOne(toGdb', Acks)
  BY <1>1, <1>3, <1>4, Appended
<1>6. Taken' = Taken
  BY <1>2, <1>5 DEF Taken
<1>7. OneUnderWay'
  BY <1>2, <1>5, OneStays DEF DbgIInv, OneUnderWay
<1>8. ASSUME gdb.does = "sent" PROVE Behind(toGdb', {Plus}, Copies(Answer(gdb.cmd)))
  <2>. DEFINE G == Copies(Answer(gdb.cmd))
  <2>1. Behind(toGdb, {Plus}, G)
    BY <1>8 DEF DbgIInv, FlowInStep
  <2>2. p \in G \/ Without(toGdb, {Plus})
    BY <1>8 DEF Taken
  <2>. HIDE DEF G
  <2>3. Behind(toGdb', {Plus}, G)
    BY <1>1, <1>3, <2>1, <2>2, Appended
  <2>. QED BY <2>3 DEF G
<1>9. ASSUME gdb.does \in {"asked", "running"} PROVE Only(toGdb', Copies(Answer(gdb.cmd)))
  <2>. DEFINE G == Copies(Answer(gdb.cmd))
  <2>1. Only(toGdb, G) /\ p \in G
    BY <1>9 DEF DbgIInv, FlowInStep, Taken
  <2>. HIDE DEF G
  <2>2. Only(toGdb', G)
    BY <1>1, <1>3, <2>1, Appended
  <2>. QED BY <2>2 DEF G
<1>10. FlowInStep'
  BY <1>2, <1>8, <1>9 DEF DbgIInv, FlowInStep
<1>11. HasIsSet' /\ RepliesMatch'
  BY <1>2, <1>6 DEF DbgIInv, HasIsSet, RepliesMatch
<1>. QED BY <1>6, <1>7, <1>10, <1>11 DEF DbgIInv

(* A stop, of a program that runs or of one stopped already.               *)
LEMMA StopsHold ==
    ASSUME DbgIInv, Sends(StopReply), UNCHANGED <<bps, sock, toStub, inbuf>>,
           stub.at \in {"check", "exec"}, sock, dbg.mode,
           NEW why \in {"hit", "bad"},
           stub' = [stub EXCEPT !.at = "ack", !.out = StopReply, !.why = why],
           dpc' \in Points, dbg'.mode = dbg.mode,
           (dbg' = dbg /\ why = "hit") \/ dbg' = [dbg EXCEPT !.nexti = "any"]
    PROVE  DbgIInv'
<1>. USE DEF DbgIInv
<1>1. /\ stub'.at = "ack" /\ stub'.out = StopReply /\ stub'.why = why
      /\ stub' \in [at : {"check", "accept", "command", "ack", "exec"}, out : Answers,
                    why : {"", "hit", "bad", "reply"}, resumed : BOOLEAN]
  BY AnswersAre DEF DbgTyped, CpuTyped, WireTyped
<1>2. /\ dbg' \in [mode : BOOLEAN, nexti : {"any", "none", "0"}]
      /\ why = "bad" => dbg'.nexti = "any"
  BY DEF DbgTyped, CpuTyped, WireTyped
<1>3. StopReply \in Answers
  BY AnswersAre
<1>4. Taken => gdb.cmd.op \in Resuming /\ Answer(gdb.cmd) = StopReply
  BY DEF StubInStep, Answer
<1>5. /\ Taken' = Taken /\ WellLinked(bps') /\ OneUnderWay' /\ FlowInStep'
      /\ HasIsSet' /\ RepliesMatch'
  BY <1>3, <1>4, SendsInStep DEF Shrinks
<1>6. gdb'.does = gdb.does /\ gdb'.cmd = gdb.cmd /\ gdb'.has = gdb.has
  BY <1>3, SendsOne
<1>7. DbgTyped'
  BY <1>1, <1>2, <1>3, <1>6, SendsOne DEF DbgTyped, CpuTyped, WireTyped
<1>8. Connected' /\ BreakpointsStop'
  BY <1>1, <1>2, <1>6 DEF Connected, BreakpointsStop
<1>9. StubInStep'
  BY <1>1, <1>4, <1>5, <1>6 DEF StubInStep, Stopped
<1>. QED BY <1>5, <1>7, <1>8, <1>9

LEMMA HitHolds == DbgIInv /\ CheckHits => DbgIInv'
<1>. SUFFICES ASSUME DbgIInv, CheckHits PROVE DbgIInv'
  OBVIOUS
<1>1. /\ Sends(StopReply) /\ UNCHANGED <<bps, dbg, sock, dpc, toStub, inbuf>>
      /\ stub.at = "check" /\ sock /\ dbg.mode
      /\ stub' = [stub EXCEPT !.at = "ack", !.out = StopReply, !.why = "hit"]
  BY DEF CheckHits
<1>2. dpc' \in Points
  BY <1>1 DEF DbgIInv, DbgTyped, CpuTyped, WireTyped
<1>. QED BY <1>1, <1>2, StopsHold

LEMMA BadAccessHolds == DbgIInv /\ AccessesNothing => DbgIInv'
<1>. SUFFICES ASSUME DbgIInv, AccessesNothing PROVE DbgIInv'
  OBVIOUS
<1>1. /\ UNCHANGED <<bps, sock, toStub, inbuf>> /\ stub.at = "exec" /\ dbg.mode
      /\ dpc' \in Points
  BY DEF AccessesNothing
<1>2. CASE sock
  <2>1. /\ stub' = [stub EXCEPT !.at = "ack", !.out = StopReply, !.why = "bad"]
        /\ dbg' = [dbg EXCEPT !.nexti = "any"] /\ Sends(StopReply)
    BY <1>2 DEF AccessesNothing
  <2>2. dbg'.mode = dbg.mode
    BY <2>1 DEF DbgIInv, DbgTyped, CpuTyped, WireTyped
  <2>. QED BY <1>1, <1>2, <2>1, <2>2, StopsHold
<1>3. CASE ~sock
  <2>. USE DEF DbgIInv
  <2>1. /\ stub' = [stub EXCEPT !.at = "check"] /\ dbg' = [mode |-> FALSE, nexti |-> "any"]
        /\ UNCHANGED <<toGdb, gdb>>
    BY <1>3 DEF AccessesNothing
  <2>2. stub'.at = "check" /\ gdb.does = "away"
    BY <1>3, <2>1 DEF DbgTyped, CpuTyped, WireTyped, Connected
  <2>3. /\ WellLinked(bps') /\ OneUnderWay' /\ FlowInStep' /\ HasIsSet' /\ RepliesMatch'
        /\ Taken' = Taken /\ Answered' = Answered
    BY <1>1, <2>1, SameFlow DEF Shrinks
  <2>4. DbgTyped'
    BY <1>1, <2>1 DEF DbgTyped, CpuTyped, WireTyped
  <2>5. Connected' /\ BreakpointsStop'
    BY <1>1, <1>3, <2>1, <2>2 DEF Connected, BreakpointsStop
  <2>6. StubInStep'
    BY <2>1, <2>2, <2>3 DEF StubInStep, Taken
  <2>. QED BY <2>3, <2>4, <2>5, <2>6
<1>. QED BY <1>2, <1>3
-----------------------------------------------------------------------------
(* The stub waits for an acknowledgement.                                  *)
LEMMA AckHolds == DbgIInv /\ TakesAck => DbgIInv'
<1>. SUFFICES ASSUME DbgIInv, TakesAck PROVE DbgIInv'
  OBVIOUS
<1>. USE DEF DbgIInv
<1>1. /\ stub.at = "ack" /\ toStub # << >> /\ toStub' = Tail(toStub) /\ Shrinks
      /\ UNCHANGED <<bps, dbg, sock, dpc, inbuf>> /\ sock
  BY DEF TakesAck, Shrinks, Connected
<1>2. /\ toStub' \in Seq(StubItems)
      /\ Without(toStub, {Eof}) => Without(toStub', {Eof})
  BY <1>1, ShrinksKeeps DEF DbgTyped, CpuTyped, WireTyped
<1>3. CASE Sent /\ Head(toStub) = Plus
  <2>1. /\ stub' = [stub EXCEPT !.at = IF stub.why = "bad" THEN "check" ELSE "command"]
        /\ UNCHANGED <<toGdb, gdb>>
    BY <1>3 DEF Sent
  <2>2. /\ stub'.at = IF stub.why = "bad" THEN "check" ELSE "command"
        /\ stub'.out = stub.out /\ stub'.why = stub.why
        /\ stub' \in [at : {"check", "accept", "command", "ack", "exec"}, out : Answers,
                      why : {"", "hit", "bad", "reply"}, resumed : BOOLEAN]
    BY <2>1 DEF DbgTyped, CpuTyped, WireTyped
  <2>3. /\ WellLinked(bps') /\ OneUnderWay' /\ FlowInStep' /\ HasIsSet' /\ RepliesMatch'
        /\ Taken' = Taken /\ Answered' = Answered
    BY <1>1, <2>1, SameFlow
  <2>4. DbgTyped'
    BY <1>1, <1>2, <2>1, <2>2 DEF DbgTyped, CpuTyped, WireTyped
  <2>5. Connected' /\ BreakpointsStop'
    BY <1>1, <1>2, <2>1, <2>2 DEF Connected, BreakpointsStop
  <2>6. Stopped'
    BY <1>1, <2>2 DEF Connected, Stopped
  <2>7. StubInStep'
    BY <1>1, <2>1, <2>2, <2>3, <2>6 DEF StubInStep
  <2>. QED BY <2>3, <2>4, <2>5, <2>7
<1>4. CASE Sends(stub.out) /\ UNCHANGED stub
  <2>1. stub.out \in Answers /\ (Taken => gdb.cmd \in Commands)
    BY DEF DbgTyped, CpuTyped, WireTyped, Taken
  <2>2. Taken => stub.out = Answer(gdb.cmd)
    BY <1>1, <2>1 DEF StubInStep, Answer
  <2>3. /\ Taken' = Taken /\ WellLinked(bps') /\ OneUnderWay' /\ FlowInStep'
        /\ HasIsSet' /\ RepliesMatch'
    BY <1>1, <1>4, <2>1, <2>2, SendsInStep
  <2>4. gdb'.does = gdb.does /\ gdb'.cmd = gdb.cmd /\ gdb'.has = gdb.has
    BY <1>4, <2>1, SendsOne
  <2>5. DbgTyped'
    BY <1>1, <1>2, <1>4, <2>1, <2>4, SendsOne DEF DbgTyped, CpuTyped, WireTyped
  <2>6. Connected' /\ BreakpointsStop'
    BY <1>1, <1>2, <1>4, <2>4 DEF Connected, BreakpointsStop
  <2>7. Stopped'
    BY <1>1, <1>4 DEF Stopped
  <2>8. StubInStep'
    BY <1>1, <1>4, <2>3, <2>4, <2>7 DEF StubInStep
  <2>. QED BY <2>3, <2>5, <2>6, <2>8
<1>. QED BY <1>3, <1>4 DEF TakesAck

(* The connection ends: nothing is under way.                              *)
LEMMA ClosedHolds ==
    ASSUME DbgIInv, Closed, Without(inbuf, AskPackets), UNCHANGED <<bps, dpc, inbuf, gdb>>,
           toStub # << >>, Head(toStub) = Eof,
           stub' \in [at : {"check", "accept", "command", "ack", "exec"}, out : Answers,
                      why : {"", "hit", "bad", "reply"}, resumed : BOOLEAN],
           dbg' \in [mode : BOOLEAN, nexti : {"any", "none", "0"}],
           stub'.at \in {"check", "accept", "exec"}
    PROVE  DbgIInv'
<1>. USE DEF DbgIInv
<1>1. toGdb' = << >> /\ toStub' = << >> /\ sock' = FALSE
  BY DEF Closed
<1>2. gdb.does = "away" /\ gdb.has = {}
  <2>1. ~Without(toStub, {Eof})
    BY Removed DEF DbgTyped, CpuTyped, WireTyped
  <2>. QED BY <2>1 DEF Connected
<1>3. DbgTyped'
  <2>1. toGdb' \in Seq(GdbItems) /\ toStub' \in Seq(StubItems)
    BY <1>1, EmptyIs
  <2>2. sock' \in BOOLEAN
    BY <1>1
  <2>. QED BY <2>1, <2>2 DEF DbgTyped, CpuTyped, WireTyped
<1>4. Connected' /\ BreakpointsStop' /\ HasIsSet' /\ RepliesMatch'
  BY <1>1, <1>2 DEF Connected, BreakpointsStop, HasIsSet, RepliesMatch, Taken
<1>5. OneUnderWay'
  BY <1>1, <1>2, EmptyHolds DEF OneUnderWay
<1>6. FlowInStep' /\ StubInStep'
  BY <1>1, <1>2 DEF FlowInStep, StubInStep, Taken
<1>. QED BY <1>3, <1>4, <1>5, <1>6

LEMMA LosesHold == DbgIInv /\ (LosesAck \/ LosesCommand) => DbgIInv'
<1>. SUFFICES ASSUME DbgIInv, LosesAck \/ LosesCommand PROVE DbgIInv'
  OBVIOUS
<1>. USE DEF DbgIInv
<1>1. ASSUME LosesAck PROVE DbgIInv'
  <2>1. /\ stub.at = "ack" /\ toStub # << >> /\ Head(toStub) = Eof /\ Closed
        /\ UNCHANGED <<bps, dpc, inbuf, gdb>>
    BY <1>1 DEF LosesAck
  <2>2. Without(inbuf, AskPackets)
    BY <2>1 DEF Connected
  <2>3. /\ stub' \in [at : {"check", "accept", "command", "ack", "exec"}, out : Answers,
                      why : {"", "hit", "bad", "reply"}, resumed : BOOLEAN]
        /\ stub'.at \in {"check", "accept", "exec"}
    BY <1>1 DEF LosesAck, DbgTyped, CpuTyped, WireTyped
  <2>4. dbg' \in [mode : BOOLEAN, nexti : {"any", "none", "0"}]
    <3>1. PICK m \in BOOLEAN, n \in {"none", dbg.nexti} : dbg' = [mode |-> m, nexti |-> n]
      BY <1>1 DEF LosesAck, DbgTyped, CpuTyped, WireTyped
    <3>2. dbg.nexti \in {"any", "none", "0"}
      BY DEF DbgTyped, CpuTyped, WireTyped
    <3>. QED BY <3>1, <3>2
  <2>. QED BY <2>1, <2>2, <2>3, <2>4, ClosedHolds
<1>2. ASSUME LosesCommand PROVE DbgIInv'
  <2>1. /\ inbuf = << >> /\ toStub # << >> /\ Head(toStub) = Eof /\ Closed
        /\ UNCHANGED <<bps, dpc, inbuf, gdb>>
    BY <1>2 DEF LosesCommand
  <2>2. Without(inbuf, AskPackets)
    BY <2>1, EmptyHolds
  <2>3. /\ stub' \in [at : {"check", "accept", "command", "ack", "exec"}, out : Answers,
                      why : {"", "hit", "bad", "reply"}, resumed : BOOLEAN]
        /\ stub'.at \in {"check", "accept", "exec"}
    BY <1>2 DEF LosesCommand, DbgTyped, CpuTyped, WireTyped
  <2>4. dbg' \in [mode : BOOLEAN, nexti : {"any", "none", "0"}]
    BY <1>2 DEF LosesCommand, DbgTyped, CpuTyped, WireTyped
  <2>. QED BY <2>1, <2>2, <2>3, <2>4, ClosedHolds
<1>. QED BY <1>1, <1>2
-----------------------------------------------------------------------------
(* The stub reads commands.                                                *)
LEMMA ReadsHold == DbgIInv /\ Reads => DbgIInv'
<1>. SUFFICES ASSUME DbgIInv, Reads PROVE DbgIInv'
  OBVIOUS
<1>. USE DEF DbgIInv
<1>1. /\ inbuf = << >> /\ stub.at = "command"
      /\ UNCHANGED <<bps, dbg, sock, stub, dpc, toGdb, gdb>>
  BY DEF Reads
<1>2. PICK n \in 1..Len(toStub) : /\ inbuf' = SubSeq(toStub, 1, n)
                                  /\ toStub' = SubSeq(toStub, n + 1, Len(toStub))
  BY DEF Reads
<1>3. inbuf' \in Seq(StubItems) /\ toStub' \in Seq(StubItems)
  BY <1>2, Cut DEF DbgTyped, CpuTyped, WireTyped
<1>4. \A K : /\ Without(toStub, K) => Without(inbuf', K) /\ Without(toStub', K)
             /\ AtMostOne(toStub, K) => AtMostOne(inbuf', K) /\ AtMostOne(toStub', K)
                                        /\ (Without(inbuf', K) \/ Without(toStub', K))
             /\ Only(toStub, K) => Only(inbuf', K) /\ Only(toStub', K)
  <2>1. toStub \in Seq(StubItems)
    BY DEF DbgTyped, CpuTyped, WireTyped
  <2>. QED BY <1>2, <2>1, Cut
<1>5. OneUnderWay'
  BY <1>1, <1>4 DEF OneUnderWay
<1>6. Taken' = Taken /\ Answered' = Answered /\ Stopped' = Stopped
  BY <1>1 DEF Taken, Answered, Stopped
<1>7. HasIsSet' /\ StubInStep' /\ FlowInStep'
  BY <1>1, <1>6 DEF HasIsSet, StubInStep, FlowInStep
<1>8. Connected'
  BY <1>1, <1>4 DEF Connected
<1>9. DbgTyped'
  BY <1>1, <1>3, CpuStays DEF DbgTyped, WireTyped
<1>. QED BY <1>1, <1>5, <1>7, <1>8, <1>9 DEF BreakpointsStop, RepliesMatch

LEMMA SkipHolds == DbgIInv /\ SkipsInput => DbgIInv'
<1>. SUFFICES ASSUME DbgIInv, SkipsInput PROVE DbgIInv'
  OBVIOUS
<1>. USE DEF DbgIInv
<1>1. /\ stub.at = "command" /\ inbuf # << >> /\ ~Accepted(Head(inbuf))
      /\ inbuf' = Tail(inbuf)
      /\ UNCHANGED <<bps, dbg, sock, stub, dpc, toStub, gdb>>
  BY DEF SkipsInput
<1>2. inbuf \in Seq(StubItems) /\ toGdb \in Seq(GdbItems) /\ Head(inbuf) \in StubItems
      /\ inbuf' \in Seq(StubItems)
  BY <1>1, Removed DEF DbgTyped, CpuTyped, WireTyped
<1>3. /\ Without(inbuf, AskPackets) <=>
             Head(inbuf) \notin AskPackets /\ Without(inbuf', AskPackets)
      /\ AtMostOne(inbuf, AskPackets) =>
             /\ AtMostOne(inbuf', AskPackets)
             /\ Head(inbuf) \in AskPackets => Without(inbuf', AskPackets)
      /\ \A K : Only(inbuf, K) => Only(inbuf', K)
  BY <1>1, <1>2, Removed
<1>4. CASE Head(inbuf) \notin AskPackets
  <2>1. UNCHANGED toGdb
    BY <1>1, <1>2, <1>4, PacketsRead DEF SkipsInput
  <2>2. OneUnderWay'
    BY <1>1, <1>3, <1>4, <2>1 DEF OneUnderWay
  <2>3. Taken' = Taken /\ Answered' = Answered /\ Stopped' = Stopped
    BY <1>1, <2>1 DEF Taken, Answered, Stopped
  <2>4. HasIsSet' /\ StubInStep' /\ FlowInStep'
    BY <1>1, <2>1, <2>3 DEF HasIsSet, StubInStep, FlowInStep
  <2>5. Connected'
    BY <1>1, <1>3, <2>1 DEF Connected
  <2>6. DbgTyped'
    BY <1>1, <1>2, <2>1, CpuStays DEF DbgTyped, WireTyped
  <2>. QED BY <1>1, <2>2, <2>4, <2>5, <2>6 DEF BreakpointsStop, RepliesMatch
<1>5. CASE Head(inbuf) \in AskPackets
  \* A spoilt packet; another is asked for.
  <2>1. toGdb' = Append(toGdb, Minus)
    BY <1>1, <1>2, <1>5, PacketsRead DEF SkipsInput
  <2>2. ~Without(inbuf, AskPackets) /\ Without(inbuf', AskPackets)
    BY <1>3, <1>5 DEF OneUnderWay
  <2>3. Without(toStub, AskPackets) /\ Without(toGdb, Acks) /\ gdb.does \in {"away", "sent"}
    BY <2>2 DEF OneUnderWay, DbgTyped, CpuTyped, WireTyped
  <2>4. Minus \in GdbItems /\ Minus \in Acks /\ Minus \notin {Plus}
    BY KindsApart DEF GdbItems, Acks
  <2>5. /\ toGdb' \in Seq(GdbItems) /\ AtMostOne(toGdb', Acks)
        /\ Without(toGdb', {Plus}) <=> Without(toGdb, {Plus})
    BY <1>2, <2>1, <2>3, <2>4, Appended DEF OneUnderWay
  <2>6. Without(toGdb, {Plus})
    BY <2>3 DEF Without, Acks
  <2>7. ~Taken /\ ~Taken'
    BY <1>1, <2>3, <2>5, <2>6 DEF Taken
  <2>8. \A G : Behind(toGdb', {Plus}, G)
    BY <2>5, <2>6 DEF Without, Behind
  <2>9. OneUnderWay'
    BY <1>1, <1>3, <2>2, <2>3, <2>5 DEF OneUnderWay
  <2>10. HasIsSet' /\ FlowInStep'
    BY <1>1, <2>3, <2>7, <2>8 DEF HasIsSet, FlowInStep
  <2>11. StubInStep'
    BY <1>1, <2>7 DEF StubInStep, Stopped
  <2>12. Connected'
    BY <1>1, <2>2 DEF Connected
  <2>13. DbgTyped'
    BY <1>1, <1>2, <2>5, CpuStays DEF DbgTyped, WireTyped
  <2>. QED BY <1>1, <2>9, <2>10, <2>11, <2>12, <2>13 DEF BreakpointsStop, RepliesMatch
<1>. QED BY <1>4, <1>5

(* What is true when the stub has a command before it.                     *)
LEMMA CommandIs ==
    ASSUME DbgIInv, HasCommand
    PROVE  /\ stub.at = "command" /\ inbuf # << >> /\ sock /\ gdb.does \in {"away", "sent"}
           /\ Command \in Commands /\ (gdb.does = "sent" => Command = gdb.cmd)
           /\ Tail(inbuf) \in Seq(StubItems) /\ Without(Tail(inbuf), AskPackets)
           /\ Without(toStub, AskPackets) /\ Without(toGdb, Acks)
           /\ \A K : Only(inbuf, K) => Only(Tail(inbuf), K)
<1>. USE DEF DbgIInv
<1>1. stub.at = "command" /\ inbuf # << >> /\ Accepted(Head(inbuf))
  BY DEF HasCommand
<1>2. inbuf \in Seq(StubItems) /\ Head(inbuf) \in StubItems
      /\ Tail(inbuf) \in Seq(StubItems)
  BY <1>1, Removed DEF DbgTyped, CpuTyped, WireTyped
<1>3. Head(inbuf) \in AskPackets /\ Command = Head(inbuf).is /\ Command \in Commands
  BY <1>1, <1>2, PacketsRead DEF Command
<1>4. /\ ~Without(inbuf, AskPackets) /\ Without(Tail(inbuf), AskPackets)
      /\ \A K : Only(inbuf, K) => Only(Tail(inbuf), K) /\ Head(inbuf) \in K
  BY <1>1, <1>2, <1>3, Removed DEF OneUnderWay
<1>5. gdb.does = "sent" => Command = gdb.cmd
  <2>1. SUFFICES ASSUME gdb.does = "sent" PROVE Head(inbuf).is = gdb.cmd
    BY <1>3
  <2>2. Head(inbuf) \in Copies(gdb.cmd) \cup {Plus, Minus, Break, Eof}
    BY <1>4, <2>1 DEF OneUnderWay
  <2>. QED BY <1>3, <2>2, KindsApart, CopiesAre
<1>. QED BY <1>1, <1>2, <1>3, <1>4, <1>5 DEF OneUnderWay, Connected, DbgTyped, CpuTyped, WireTyped
(* A command that lets the program go on is acknowledged, one that does    *)
(* not is answered as well.                                                *)
LEMMA ResumeHolds == DbgIInv /\ TakesResume => DbgIInv'
<1>. SUFFICES ASSUME DbgIInv, TakesResume PROVE DbgIInv'
  OBVIOUS
<1>. USE DEF DbgIInv
<1>1. /\ HasCommand /\ Command.op \in Resuming
      /\ dbg' = [mode |-> TRUE, nexti |-> Goes[Command.op]]
      /\ stub' = [stub EXCEPT !.at = "exec", !.resumed = TRUE]
      /\ toGdb' = Append(toGdb, Plus) /\ inbuf' = Tail(inbuf)
      /\ UNCHANGED <<bps, sock, dpc, toStub, gdb>>
  BY DEF TakesResume
<1>2. /\ stub.at = "command" /\ sock /\ gdb.does \in {"away", "sent"}
      /\ gdb.does = "sent" => Command = gdb.cmd
      /\ inbuf' \in Seq(StubItems) /\ Without(inbuf', AskPackets)
      /\ Without(toStub, AskPackets) /\ Without(toGdb, Acks)
      /\ \A K : Only(inbuf, K) => Only(inbuf', K)
  BY <1>1, CommandIs
<1>3. toGdb \in Seq(GdbItems) /\ Plus \in GdbItems /\ Without(toGdb, {Plus})
  BY <1>2 DEF DbgTyped, CpuTyped, WireTyped, GdbItems, Without, Acks
<1>4. /\ toGdb' \in Seq(GdbItems) /\ AtMostOne(toGdb', Acks)
      /\ ~Without(toGdb', {Plus}) /\ \A G : Behind(toGdb', {Plus}, G)
  <2>1. toGdb' \in Seq(GdbItems) /\ AtMostOne(toGdb', Acks) /\ ~Without(toGdb', {Plus})
    BY <1>1, <1>2, <1>3, Appended DEF OneUnderWay
  <2>2. ASSUME NEW G PROVE Behind(toGdb', {Plus}, G)
    <3>1. Behind(toGdb, {Plus}, G)
      BY <1>3 DEF Without, Behind
    <3>. QED BY <1>1, <1>3, <3>1, Appended
  <2>. QED BY <2>1, <2>2
<1>5. stub'.at = "exec" /\ stub'.resumed /\ dbg'.mode
  BY <1>1 DEF DbgTyped, CpuTyped, WireTyped
<1>14. stub' \in [at : {"check", "accept", "command", "ack", "exec"}, out : Answers,
                    why : {"", "hit", "bad", "reply"}, resumed : BOOLEAN]
  BY <1>1 DEF DbgTyped, CpuTyped, WireTyped
<1>6. dbg' \in [mode : BOOLEAN, nexti : {"any", "none", "0"}]
  BY <1>1, ResumesGo
<1>7. DbgTyped'
  <2>1. UNCHANGED <<bps, sock, dpc, toStub, gdb>>
    BY <1>1
  <2>. QED BY <1>2, <1>4, <1>6, <1>14, <2>1 DEF DbgTyped, CpuTyped, WireTyped
<1>8. Connected' /\ BreakpointsStop' /\ RepliesMatch'
  BY <1>1, <1>2, <1>5 DEF Connected, BreakpointsStop, RepliesMatch
<1>9. OneUnderWay'
  <2>1. AtMostOne(inbuf', AskPackets) /\ AtMostOne(toGdb', Acks)
    <3>1. AtMostOne(inbuf', AskPackets)
      BY <1>2 DEF Without, AtMostOne
    <3>. QED BY <1>4, <3>1
  <2>. QED BY <1>1, <1>2, <2>1 DEF OneUnderWay
<1>10. FlowInStep'
  BY <1>1, <1>2, <1>4 DEF FlowInStep
<1>11. ~Answered' /\ (gdb'.does = "sent" => Taken') /\ (Taken' => gdb'.cmd.op \in Resuming)
  BY <1>1, <1>2, <1>4 DEF Answered, Taken
<1>12. StubInStep'
  BY <1>1, <1>2, <1>5, <1>11 DEF StubInStep
<1>13. HasIsSet'
  BY <1>1, <1>11 DEF HasIsSet, Resuming
<1>. QED BY <1>1, <1>7, <1>8, <1>9, <1>10, <1>12, <1>13

LEMMA ListedHolds ==
    ASSUME DbgIInv, TakesCommand
    PROVE  /\ bps' \in Lists /\ WellLinked(bps') /\ gdb.has \subseteq Chained(bps')
           /\ gdb.does = "sent" /\ gdb.cmd.op = "Z" => gdb.cmd.at \in Chained(bps')
<1>. USE DEF DbgIInv
<1>1. /\ HasCommand
      /\ bps' = IF Command.op = "Z" THEN Inserted(bps, Command.at)
                ELSE IF Command.op = "z" THEN Deleted(bps, Command.at) ELSE bps
  BY DEF TakesCommand
<1>2. /\ gdb.does \in {"away", "sent"} /\ Command \in Commands
      /\ gdb.does = "sent" => Command = gdb.cmd
  BY <1>1, CommandIs
<1>3. /\ bps \in Lists /\ WellLinked(bps) /\ gdb.has \subseteq Chained(bps)
      /\ gdb.does = "away" => gdb.has = {}
      /\ gdb.does = "sent" /\ gdb.cmd.op = "z" => gdb.cmd.at \notin gdb.has
  BY DEF DbgTyped, CpuTyped, WireTyped, HasIsSet, Connected
<1>4. CASE Command.op = "Z"
  <2>1. Command.at \in Points /\ bps' = Inserted(bps, Command.at)
    BY <1>1, <1>2, <1>4, AnswersAre
  <2>2. /\ bps' \in Lists /\ WellLinked(bps')
        /\ Chained(bps') = Chained(bps) \cup {Command.at}
    BY <1>3, <2>1, InsertedSound
  <2>. QED BY <1>2, <1>3, <2>2
<1>5. CASE Command.op = "z"
  <2>1. Command.at \in Points /\ bps' = Deleted(bps, Command.at)
    BY <1>1, <1>2, <1>5, AnswersAre
  <2>2. /\ bps' \in Lists /\ WellLinked(bps')
        /\ Chained(bps') = Chained(bps) \ {Command.at}
    BY <1>3, <2>1, DeletedSound
  <2>3. gdb.has \subseteq Chained(bps')
    BY <1>2, <1>3, <1>5, <2>2
  <2>4. ~(gdb.does = "sent" /\ gdb.cmd.op = "Z")
    BY <1>2, <1>5
  <2>. QED BY <2>2, <2>3, <2>4
<1>6. CASE Command.op \notin {"Z", "z"}
  BY <1>1, <1>2, <1>3, <1>6
<1>. QED BY <1>4, <1>5, <1>6

LEMMA CommandHolds == DbgIInv /\ TakesCommand => DbgIInv'
<1>. SUFFICES ASSUME DbgIInv, TakesCommand PROVE DbgIInv'
  OBVIOUS
<1>. USE DEF DbgIInv
<1>1. /\ HasCommand /\ Command.op \notin Resuming
      /\ stub' = [stub EXCEPT !.at = "ack", !.out = Reply(Command), !.why = "reply"]
      /\ inbuf' = Tail(inbuf) /\ UNCHANGED <<dbg, sock, dpc, toStub>>
  BY DEF TakesCommand
<1>2. PICK p \in Arriving(Reply(Command)) :
          toGdb' = toGdb \o <<Plus, p>> /\ gdb' = Spoiling(p)
  BY DEF TakesCommand
<1>3. /\ stub.at = "command" /\ sock /\ gdb.does \in {"away", "sent"}
      /\ Command \in Commands /\ (gdb.does = "sent" => Command = gdb.cmd)
      /\ inbuf' \in Seq(StubItems) /\ Without(inbuf', AskPackets)
      /\ Without(toStub, AskPackets) /\ Without(toGdb, Acks)
      /\ \A K : Only(inbuf, K) => Only(inbuf', K)
  BY <1>1, CommandIs
<1>4. Reply(Command) \in Answers /\ Answer(Command) = Reply(Command)
  BY <1>1, <1>3, AnswersAre
<1>5. p \in Copies(Reply(Command)) /\ p \in GdbItems /\ p \in AnswerPackets
      /\ p.spoilt \in BOOLEAN
  BY <1>2, <1>4, ArrivingIs, CopiesAre DEF GdbItems
<1>6. /\ gdb'.does = gdb.does /\ gdb'.cmd = gdb.cmd /\ gdb'.has = gdb.has
      /\ gdb'.got = gdb.got
      /\ gdb' \in [does : {"away", "idle", "sent", "asked", "running"},
                   cmd : Commands \cup {StopReply}, has : SUBSET Points,
                   got : {<< >>} \cup (Commands \X Answers), sent : Nat,
                   breaks : Nat, spoilt : Nat, sessions : Nat]
  <2>1. PICK n \in Nat : gdb' = [gdb EXCEPT !.spoilt = n]
    BY <1>2, <1>5, SpoilingIs
  <2>. QED BY <2>1 DEF DbgTyped, CpuTyped, WireTyped
<1>7. toGdb \in Seq(GdbItems) /\ Plus \in GdbItems /\ Without(toGdb, {Plus})
  BY <1>3 DEF DbgTyped, CpuTyped, WireTyped, GdbItems, Without, Acks
<1>. DEFINE t == Append(toGdb, Plus)
            G == Copies(Reply(Command))
<1>8. t \in Seq(GdbItems) /\ toGdb' = Append(t, p)
  BY <1>2, <1>5, <1>7
<1>9. p \notin Acks /\ p \notin {Plus} /\ p \in G
  BY <1>5, KindsApart DEF Acks
<1>. HIDE DEF G
<1>10. AtMostOne(t, Acks) /\ ~Without(t, {Plus}) /\ Behind(t, {Plus}, G)
  <2>1. AtMostOne(toGdb, Acks) /\ Behind(toGdb, {Plus}, G)
    BY <1>7 DEF OneUnderWay, Behind, Without
  <2>2. AtMostOne(t, Acks) /\ ~Without(t, {Plus})
    BY <1>3, <1>7, <2>1, Appended
  <2>3. Behind(t, {Plus}, G)
    BY <1>7, <2>1, Appended
  <2>. QED BY <2>2, <2>3
<1>. HIDE DEF t
<1>11. /\ toGdb' \in Seq(GdbItems) /\ AtMostOne(toGdb', Acks)
       /\ ~Without(toGdb', {Plus}) /\ Behind(toGdb', {Plus}, G)
  <2>1. toGdb' \in Seq(GdbItems) /\ AtMostOne(toGdb', Acks)
    BY <1>5, <1>8, <1>9, <1>10, Appended
  <2>2. ~Without(toGdb', {Plus})
    BY <1>5, <1>8, <1>9, <1>10, Appended
  <2>3. Behind(toGdb', {Plus}, G)
    BY <1>5, <1>8, <1>9, <1>10, Appended
  <2>. QED BY <2>1, <2>2, <2>3
<1>12. /\ stub'.at = "ack" /\ stub'.why = "reply" /\ stub'.out = Reply(Command)
       /\ stub' \in [at : {"check", "accept", "command", "ack", "exec"}, out : Answers,
                     why : {"", "hit", "bad", "reply"}, resumed : BOOLEAN]
  BY <1>1, <1>4 DEF DbgTyped, CpuTyped, WireTyped
<1>13. /\ bps' \in Lists /\ WellLinked(bps') /\ gdb.has \subseteq Chained(bps')
       /\ gdb.does = "sent" /\ gdb.cmd.op = "Z" => gdb.cmd.at \in Chained(bps')
  BY ListedHolds
<1>14. DbgTyped'
  BY <1>1, <1>3, <1>6, <1>11, <1>12, <1>13 DEF DbgTyped, CpuTyped, WireTyped
<1>15. Connected' /\ BreakpointsStop' /\ RepliesMatch'
  BY <1>1, <1>3, <1>6, <1>12 DEF Connected, BreakpointsStop, RepliesMatch
<1>16. OneUnderWay'
  <2>1. AtMostOne(inbuf', AskPackets)
    BY <1>3 DEF Without, AtMostOne
  <2>. QED BY <1>1, <1>3, <1>6, <1>11, <2>1 DEF OneUnderWay
<1>17. FlowInStep'
  BY <1>3, <1>4, <1>6, <1>11 DEF FlowInStep, G
<1>18. (gdb'.does = "sent" => Taken') /\ (Taken' => gdb'.does = "sent")
  BY <1>3, <1>6, <1>11 DEF Taken
<1>19. StubInStep'
  BY <1>1, <1>3, <1>6, <1>12, <1>18 DEF StubInStep
<1>20. HasIsSet'
  BY <1>3, <1>6, <1>13, <1>18 DEF HasIsSet
<1>. QED BY <1>13, <1>14, <1>15, <1>16, <1>17, <1>19, <1>20
-----------------------------------------------------------------------------
(* GDB.  What it sends is one of what the stub may read.                   *)
LEMMA ToStubIs ==
    ASSUME DbgIInv, NEW e \in StubItems, toStub' = Append(toStub, e), NEW K
    PROVE  /\ toStub' \in Seq(StubItems)
           /\ Without(toStub', K) <=> Without(toStub, K) /\ e \notin K
           /\ AtMostOne(toStub, K) /\ (e \notin K \/ Without(toStub, K)) =>
                  AtMostOne(toStub', K)
           /\ Only(toStub, K) /\ e \in K => Only(toStub', K)
BY Appended DEF DbgIInv, DbgTyped, CpuTyped, WireTyped

LEMMA ConnectHolds == DbgIInv /\ GdbConnects => DbgIInv'
<1>. SUFFICES ASSUME DbgIInv, GdbConnects PROVE DbgIInv'
  OBVIOUS
<1>. USE DEF DbgIInv
<1>1. /\ stub.at = "accept" /\ gdb.does = "away"
      /\ UNCHANGED <<bps, dbg, dpc, toGdb, toStub, inbuf>>
      /\ sock' = TRUE /\ stub' = [stub EXCEPT !.at = "command"]
      /\ gdb' = [gdb EXCEPT !.does = "idle", !.sessions = @ + 1]
  BY DEF GdbConnects
<1>2. toStub = << >> /\ toGdb = << >> /\ Without(inbuf, AskPackets) /\ gdb.has = {}
  BY <1>1 DEF Connected
<1>3. /\ gdb'.does = "idle" /\ gdb'.has = {} /\ gdb'.got = gdb.got
      /\ gdb' \in [does : {"away", "idle", "sent", "asked", "running"},
                   cmd : Commands \cup {StopReply}, has : SUBSET Points,
                   got : {<< >>} \cup (Commands \X Answers), sent : Nat,
                   breaks : Nat, spoilt : Nat, sessions : Nat]
  <2>1. (gdb.sessions + 1) \in Nat
    <3>1. gdb.sessions \in Nat
      BY DEF DbgTyped, CpuTyped, WireTyped
    <3>. QED BY <3>1
  <2>. QED BY <1>1, <1>2, <2>1 DEF DbgTyped, CpuTyped, WireTyped
<1>4. stub'.at = "command" /\ stub' \in [at : {"check", "accept", "command", "ack", "exec"},
          out : Answers, why : {"", "hit", "bad", "reply"}, resumed : BOOLEAN]
  BY <1>1 DEF DbgTyped, CpuTyped, WireTyped
<1>5. sock' \in BOOLEAN
  BY <1>1
<1>6. DbgTyped'
  BY <1>1, <1>3, <1>4, <1>5 DEF DbgTyped, CpuTyped, WireTyped
<1>7. OneUnderWay'
  BY <1>1, <1>2, <1>3, EmptyHolds DEF OneUnderWay
<1>8. Connected'
  BY <1>1, <1>2, <1>3, <1>4, EmptyHolds DEF Connected
<1>9. ~Taken' /\ Stopped'
  BY <1>3, <1>4 DEF Taken, Stopped
<1>10. FlowInStep' /\ StubInStep' /\ HasIsSet'
  BY <1>1, <1>3, <1>9 DEF FlowInStep, StubInStep, HasIsSet
<1>. QED BY <1>1, <1>3, <1>4, <1>6, <1>7, <1>8, <1>10 DEF BreakpointsStop, RepliesMatch

LEMMA AskHolds == DbgIInv /\ GdbSends => DbgIInv'
<1>. SUFFICES ASSUME DbgIInv, GdbSends PROVE DbgIInv'
  OBVIOUS
<1>. USE DEF DbgIInv
<1>1. gdb.does = "idle" /\ UNCHANGED <<bps, dbg, sock, stub, dpc, toGdb, inbuf>>
  BY DEF GdbSends
<1>2. PICK c \in Commands : \E p \in Arriving(c) :
         /\ toStub' = Append(toStub, p)
         /\ gdb' = [Spoiling(p) EXCEPT !.does = "sent", !.cmd = c, !.sent = @ + 1,
                       !.has = IF c.op = "z" THEN @ \ {c.at} ELSE @]
  BY DEF GdbSends
<1>3. PICK p \in Arriving(c) :
         /\ toStub' = Append(toStub, p)
         /\ gdb' = [Spoiling(p) EXCEPT !.does = "sent", !.cmd = c, !.sent = @ + 1,
                       !.has = IF c.op = "z" THEN @ \ {c.at} ELSE @]
  BY <1>2
<1>4. p \in Copies(c) /\ p.spoilt \in BOOLEAN /\ p \in AskPackets /\ p \in StubItems
  BY <1>3, ArrivingIs, CopiesAre DEF StubItems
<1>5. /\ gdb'.does = "sent" /\ gdb'.cmd = c /\ gdb'.got = gdb.got
      /\ gdb'.has = IF c.op = "z" THEN gdb.has \ {c.at} ELSE gdb.has
      /\ gdb' \in [does : {"away", "idle", "sent", "asked", "running"},
                   cmd : Commands \cup {StopReply}, has : SUBSET Points,
                   got : {<< >>} \cup (Commands \X Answers), sent : Nat,
                   breaks : Nat, spoilt : Nat, sessions : Nat]
  <2>1. PICK n \in Nat : Spoiling(p) = [gdb EXCEPT !.spoilt = n]
    BY <1>4, SpoilingIs
  <2>. DEFINE h == IF c.op = "z" THEN gdb.has \ {c.at} ELSE gdb.has
  <2>2. h \subseteq Points /\ (gdb.sent + 1) \in Nat
    <3>1. gdb.sent \in Nat /\ gdb.has \subseteq Points
      BY DEF DbgTyped, CpuTyped, WireTyped
    <3>2. h \subseteq Points
      BY <3>1
    <3>. QED BY <3>1, <3>2
  <2>3. gdb' = [gdb EXCEPT !.spoilt = n, !.does = "sent", !.cmd = c, !.sent = gdb.sent + 1,
                           !.has = h]
    BY <1>3, <2>1 DEF DbgTyped, CpuTyped, WireTyped
  <2>. HIDE DEF h
  <2>4. gdb'.has = h
    BY <2>3 DEF DbgTyped, CpuTyped, WireTyped
  <2>5. /\ gdb'.does = "sent" /\ gdb'.cmd = c /\ gdb'.got = gdb.got
        /\ gdb' \in [does : {"away", "idle", "sent", "asked", "running"},
                     cmd : Commands \cup {StopReply}, has : SUBSET Points,
                     got : {<< >>} \cup (Commands \X Answers), sent : Nat,
                     breaks : Nat, spoilt : Nat, sessions : Nat]
    BY <2>2, <2>3 DEF DbgTyped, CpuTyped, WireTyped
  <2>. QED BY <2>4, <2>5 DEF h
<1>6. /\ Without(inbuf, AskPackets) /\ Without(toStub, AskPackets) /\ Without(toGdb, Acks)
      /\ Without(toStub, {Eof}) /\ sock /\ Stopped
  BY <1>1 DEF OneUnderWay, Connected, StubInStep, Taken
<1>7. Without(toGdb, {Plus})
  BY <1>6 DEF Without, Acks
<1>. DEFINE K == Copies(c) \cup {Plus, Minus, Break, Eof}
<1>8. Only(inbuf, K) /\ Only(toStub, K)
  <2>1. \A s : s \in Seq(StubItems) /\ Without(s, AskPackets) => Only(s, K)
    BY DEF Without, Only, StubItems
  <2>. QED BY <1>6, <2>1 DEF DbgTyped, CpuTyped, WireTyped
<1>. HIDE DEF K
<1>9. p \in K /\ p # Eof
  BY <1>4, KindsApart DEF K
<1>10. /\ toStub' \in Seq(StubItems) /\ AtMostOne(toStub', AskPackets)
       /\ Without(toStub', {Eof}) /\ Only(toStub', K)
  BY <1>3, <1>4, <1>6, <1>8, <1>9, ToStubIs DEF OneUnderWay
<1>11. DbgTyped'
  BY <1>1, <1>5, <1>10 DEF DbgTyped, CpuTyped, WireTyped
<1>12. OneUnderWay'
  BY <1>1, <1>5, <1>6, <1>8, <1>10 DEF OneUnderWay, K
<1>13. Connected'
  BY <1>1, <1>5, <1>6, <1>10 DEF Connected
<1>14. Stopped' /\ ~Taken'
  BY <1>1, <1>5, <1>6, <1>7 DEF Stopped, Taken
<1>15. FlowInStep'
  BY <1>1, <1>5, <1>7 DEF FlowInStep, Without, Behind
<1>16. StubInStep'
  BY <1>14 DEF StubInStep
<1>17. HasIsSet'
  BY <1>1, <1>5, <1>14 DEF HasIsSet
<1>18. BreakpointsStop' /\ RepliesMatch' /\ WellLinked(bps')
  BY <1>1, <1>5 DEF BreakpointsStop, RepliesMatch
<1>. QED BY <1>11, <1>12, <1>13, <1>15, <1>16, <1>17, <1>18

(* GDB answers with no packet: nothing else of what is under way changes.  *)
LEMMA AnsweringKeeps ==
    ASSUME DbgIInv, NEW e \in {Plus, Minus, Break, Eof},
           toStub' = toStub \/ toStub' = Append(toStub, e)
    PROVE  /\ toStub' \in Seq(StubItems)
           /\ Without(toStub, AskPackets) <=> Without(toStub', AskPackets)
           /\ AtMostOne(toStub, AskPackets) => AtMostOne(toStub', AskPackets)
           /\ e # Eof /\ Without(toStub, {Eof}) => Without(toStub', {Eof})
           /\ \A c : Only(toStub, Copies(c) \cup {Plus, Minus, Break, Eof}) =>
                         Only(toStub', Copies(c) \cup {Plus, Minus, Break, Eof})
<1>1. e \in StubItems /\ e \notin AskPackets
  BY KindsApart DEF StubItems
<1>2. CASE toStub' = toStub
  BY <1>2 DEF DbgIInv, DbgTyped, CpuTyped, WireTyped
<1>3. CASE toStub' = Append(toStub, e)
  <2>1. ASSUME NEW c, Only(toStub, Copies(c) \cup {Plus, Minus, Break, Eof})
        PROVE  Only(toStub', Copies(c) \cup {Plus, Minus, Break, Eof})
    BY <1>1, <1>3, <2>1, ToStubIs
  <2>. QED BY <1>1, <1>3, <2>1, ToStubIs
<1>. QED BY <1>2, <1>3

LEMMA InterruptHolds == DbgIInv /\ (GdbInterrupts \/ GdbLeaves) => DbgIInv'
<1>. SUFFICES ASSUME DbgIInv, GdbInterrupts \/ GdbLeaves PROVE DbgIInv'
  OBVIOUS
<1>. USE DEF DbgIInv
<1>1. UNCHANGED <<bps, dbg, sock, stub, dpc, toGdb, inbuf>> /\ gdb.does # "away"
  BY DEF GdbInterrupts, GdbLeaves
<1>2. CASE GdbInterrupts
  <2>1. /\ gdb'.does = gdb.does /\ gdb'.cmd = gdb.cmd /\ gdb'.has = gdb.has
        /\ gdb'.got = gdb.got
        /\ gdb' \in [does : {"away", "idle", "sent", "asked", "running"},
                     cmd : Commands \cup {StopReply}, has : SUBSET Points,
                     got : {<< >>} \cup (Commands \X Answers), sent : Nat,
                     breaks : Nat, spoilt : Nat, sessions : Nat]
    <3>1. (gdb.breaks + 1) \in Nat
      <4>1. gdb.breaks \in Nat
        BY DEF DbgTyped, CpuTyped, WireTyped
      <4>. QED BY <4>1
    <3>. QED BY <1>2, <3>1 DEF GdbInterrupts, DbgTyped, CpuTyped, WireTyped
  <2>2. toStub' = Append(toStub, Break) /\ Break # Eof
    BY <1>2, KindsApart DEF GdbInterrupts
  <2>3. /\ toStub' \in Seq(StubItems)
        /\ Without(toStub, AskPackets) <=> Without(toStub', AskPackets)
        /\ AtMostOne(toStub, AskPackets) => AtMostOne(toStub', AskPackets)
        /\ Without(toStub, {Eof}) => Without(toStub', {Eof})
        /\ \A c : Only(toStub, Copies(c) \cup {Plus, Minus, Break, Eof}) =>
                      Only(toStub', Copies(c) \cup {Plus, Minus, Break, Eof})
    BY <2>2, AnsweringKeeps
  <2>4. Taken' = Taken /\ Answered' = Answered /\ Stopped' = Stopped
    BY <1>1, <2>1 DEF Taken, Answered, Stopped
  <2>5. DbgTyped'
    BY <1>1, <2>1, <2>3, CpuStays DEF DbgTyped, WireTyped
  <2>6. OneUnderWay'
    BY <1>1, <2>1, <2>3 DEF OneUnderWay
  <2>7. Connected'
    BY <1>1, <2>1, <2>3 DEF Connected
  <2>8. FlowInStep' /\ StubInStep' /\ HasIsSet'
    BY <1>1, <2>1, <2>4 DEF FlowInStep, StubInStep, HasIsSet
  <2>9. BreakpointsStop' /\ RepliesMatch' /\ WellLinked(bps')
    BY <1>1, <2>1 DEF BreakpointsStop, RepliesMatch
  <2>. QED BY <2>5, <2>6, <2>7, <2>8, <2>9
<1>3. CASE GdbLeaves
  <2>1. /\ gdb'.does = "away" /\ gdb'.has = {} /\ gdb'.got = gdb.got
        /\ gdb' \in [does : {"away", "idle", "sent", "asked", "running"},
                     cmd : Commands \cup {StopReply}, has : SUBSET Points,
                     got : {<< >>} \cup (Commands \X Answers), sent : Nat,
                     breaks : Nat, spoilt : Nat, sessions : Nat]
    BY <1>3 DEF GdbLeaves, DbgTyped, CpuTyped, WireTyped
  <2>2. /\ toStub' \in Seq(StubItems)
        /\ Without(toStub, AskPackets) <=> Without(toStub', AskPackets)
        /\ AtMostOne(toStub, AskPackets) => AtMostOne(toStub', AskPackets)
    BY <1>3, AnsweringKeeps DEF GdbLeaves
  <2>3. ~Taken'
    BY <2>1 DEF Taken
  <2>4. DbgTyped'
    BY <1>1, <2>1, <2>2 DEF DbgTyped, CpuTyped, WireTyped
  <2>5. OneUnderWay'
    BY <1>1, <2>1, <2>2 DEF OneUnderWay
  <2>6. Connected'
    BY <1>1, <2>1 DEF Connected
  <2>7. FlowInStep' /\ StubInStep' /\ HasIsSet'
    BY <1>1, <2>1, <2>3 DEF FlowInStep, StubInStep, HasIsSet
  <2>8. BreakpointsStop' /\ RepliesMatch' /\ WellLinked(bps')
    BY <1>1, <2>1 DEF BreakpointsStop, RepliesMatch
  <2>. QED BY <2>4, <2>5, <2>6, <2>7, <2>8
<1>. QED BY <1>2, <1>3
(* It takes the acknowledgement of its command.                            *)
LEMMA GdbAckHolds == DbgIInv /\ GdbTakesAck => DbgIInv'
<1>. SUFFICES ASSUME DbgIInv, GdbTakesAck PROVE DbgIInv'
  OBVIOUS
<1>. USE DEF DbgIInv
<1>1. /\ gdb.does = "sent" /\ toGdb # << >> /\ toGdb' = Tail(toGdb)
      /\ UNCHANGED <<bps, dbg, sock, stub, dpc, inbuf>>
  BY DEF GdbTakesAck
<1>2. gdb.cmd \in Commands /\ toGdb \in Seq(GdbItems)
  BY <1>1 DEF DbgTyped, CpuTyped, WireTyped
<1>. DEFINE G == Copies(Answer(gdb.cmd))
<1>3. AtMostOne(toGdb, Acks) /\ Behind(toGdb, {Plus}, G)
  BY <1>1 DEF OneUnderWay, FlowInStep
<1>. HIDE DEF G
<1>4. /\ toGdb' \in Seq(GdbItems) /\ Head(toGdb) \in GdbItems
      /\ Without(toGdb, Acks) <=> Head(toGdb) \notin Acks /\ Without(toGdb', Acks)
      /\ Without(toGdb, {Plus}) <=> Head(toGdb) \notin {Plus} /\ Without(toGdb', {Plus})
      /\ AtMostOne(toGdb', Acks) /\ (Head(toGdb) \in Acks => Without(toGdb', Acks))
      /\ Behind(toGdb', {Plus}, G) /\ (Head(toGdb) \in {Plus} => Only(toGdb', G))
  BY <1>1, <1>2, <1>3, Removed
<1>5. Stopped' = Stopped
  BY <1>1 DEF Stopped
<1>6. CASE Head(toGdb) = Plus
  \* It is behind its command, the acknowledgement of it.
  <2>1. /\ gdb' = [gdb EXCEPT !.does = IF gdb.cmd.op \in Resuming THEN "running" ELSE "asked"]
        /\ UNCHANGED toStub
    BY <1>6, KindsApart DEF GdbTakesAck
  <2>2. /\ gdb'.does = IF gdb.cmd.op \in Resuming THEN "running" ELSE "asked"
        /\ gdb'.cmd = gdb.cmd /\ gdb'.has = gdb.has /\ gdb'.got = gdb.got
        /\ gdb' \in [does : {"away", "idle", "sent", "asked", "running"},
                     cmd : Commands \cup {StopReply}, has : SUBSET Points,
                     got : {<< >>} \cup (Commands \X Answers), sent : Nat,
                     breaks : Nat, spoilt : Nat, sessions : Nat]
    BY <2>1 DEF DbgTyped, CpuTyped, WireTyped
  <2>3. Plus \in Acks
    BY DEF Acks
  <2>4. /\ Without(toGdb', Acks) /\ Only(toGdb', G) /\ Taken /\ Taken'
        /\ Without(inbuf, AskPackets) /\ Without(toStub, AskPackets)
    BY <1>1, <1>4, <1>6, <2>2, <2>3 DEF Taken, OneUnderWay
  <2>5. Answered' => Answered
    <3>1. ASSUME toGdb' # << >> PROVE ~Behind(toGdb, {Plus}, {})
      <4>1. Behind(toGdb, {Plus}, {}) => Only(Tail(toGdb), {})
        BY <1>1, <1>2, <1>6, Removed
      <4>2. Len(toGdb') \in Nat /\ Len(toGdb') >= 1
        BY <1>4, <3>1, TailAt
      <4>. QED BY <1>1, <4>1, <4>2 DEF Only
    <3>. QED BY <1>1, <2>2, <3>1 DEF Answered
  <2>6. DbgTyped'
    BY <1>1, <1>2, <1>4, <2>1, <2>2 DEF DbgTyped, CpuTyped, WireTyped
  <2>7. Connected'
    BY <1>1, <2>1, <2>2 DEF Connected
  <2>8. OneUnderWay'
    BY <1>1, <1>4, <2>1, <2>2, <2>4 DEF OneUnderWay
  <2>9. FlowInStep'
    BY <1>1, <2>2, <2>4 DEF FlowInStep, G
  <2>10. StubInStep'
    BY <1>1, <1>5, <2>2, <2>4, <2>5 DEF StubInStep
  <2>11. HasIsSet'
    BY <1>1, <2>2, <2>4 DEF HasIsSet
  <2>12. BreakpointsStop' /\ RepliesMatch' /\ WellLinked(bps')
    BY <1>1, <2>2 DEF BreakpointsStop, RepliesMatch
  <2>. QED BY <2>6, <2>7, <2>8, <2>9, <2>10, <2>11, <2>12
<1>7. CASE Head(toGdb) # Plus
  <2>1. /\ UNCHANGED gdb
        /\ toStub' = Append(toStub, IF Head(toGdb) = Minus THEN Packet(gdb.cmd, FALSE) ELSE Plus)
    BY <1>7, KindsApart DEF GdbTakesAck
  <2>. DEFINE e == IF Head(toGdb) = Minus THEN Packet(gdb.cmd, FALSE) ELSE Plus
              K == Copies(gdb.cmd) \cup {Plus, Minus, Break, Eof}
  <2>2. /\ e \in K /\ e \in StubItems /\ e # Eof
        /\ e \in AskPackets => Head(toGdb) \in Acks
    <3>1. Packet(gdb.cmd, FALSE) \in Copies(gdb.cmd) /\ Copies(gdb.cmd) \subseteq AskPackets
      BY <1>2, CopiesAre
    <3>2. CASE Head(toGdb) = Minus
      <4>1. e = Packet(gdb.cmd, FALSE)
        BY <3>2
      <4>. QED BY <3>1, <3>2, <4>1, KindsApart DEF StubItems, Acks
    <3>3. CASE Head(toGdb) # Minus
      BY <3>3, KindsApart DEF StubItems
    <3>. QED BY <3>2, <3>3
  <2>3. e \in AskPackets => /\ Without(inbuf, AskPackets) /\ Without(toStub, AskPackets)
                            /\ Without(toGdb', Acks)
    BY <1>4, <2>2 DEF OneUnderWay
  <2>4. toStub' = Append(toStub, e)
    BY <2>1
  <2>. HIDE DEF e
  <2>5. Only(inbuf, K) /\ Only(toStub, K)
    BY <1>1 DEF OneUnderWay
  <2>. HIDE DEF K
  <2>6. /\ toStub' \in Seq(StubItems)
        /\ Without(toStub', AskPackets) <=> Without(toStub, AskPackets) /\ e \notin AskPackets
        /\ AtMostOne(toStub', AskPackets)
        /\ Only(toStub', K)
        /\ Without(toStub, {Eof}) => Without(toStub', {Eof})
    BY <2>2, <2>3, <2>4, <2>5, ToStubIs DEF OneUnderWay
  <2>7. Taken' = Taken
    BY <1>4, <1>7, <2>1 DEF Taken
  <2>8. Answered' => Answered
    <3>1. Behind(toGdb, {Plus}, {}) => Behind(toGdb', {Plus}, {})
      BY <1>1, <1>2, Removed
    <3>. QED BY <1>1, <2>1, <3>1 DEF Answered
  <2>9. DbgTyped'
    BY <1>1, <1>4, <2>1, <2>6, CpuStays DEF DbgTyped, WireTyped
  <2>10. Connected'
    BY <1>1, <2>1, <2>6 DEF Connected
  <2>11. OneUnderWay'
    BY <1>1, <1>4, <2>1, <2>3, <2>5, <2>6 DEF OneUnderWay, K
  <2>12. FlowInStep'
    BY <1>1, <1>4, <2>1 DEF FlowInStep, G
  <2>13. StubInStep'
    BY <1>1, <1>5, <2>1, <2>7, <2>8 DEF StubInStep
  <2>14. HasIsSet'
    BY <1>1, <2>1, <2>7 DEF HasIsSet
  <2>15. BreakpointsStop' /\ RepliesMatch' /\ WellLinked(bps')
    BY <1>1, <2>1 DEF BreakpointsStop, RepliesMatch
  <2>. QED BY <2>9, <2>10, <2>11, <2>12, <2>13, <2>14, <2>15
<1>. QED BY <1>6, <1>7

(* It takes an answer: the stub has stopped the program by then.           *)
LEMMA GdbReplyHolds == DbgIInv /\ GdbTakesReply => DbgIInv'
<1>. SUFFICES ASSUME DbgIInv, GdbTakesReply PROVE DbgIInv'
  OBVIOUS
<1>. USE DEF DbgIInv
<1>1. /\ gdb.does \in {"asked", "running"} /\ toGdb # << >> /\ toGdb' = Tail(toGdb)
      /\ UNCHANGED <<bps, dbg, sock, stub, dpc, inbuf>>
  BY DEF GdbTakesReply
<1>2. gdb.cmd \in Commands /\ toGdb \in Seq(GdbItems)
  BY <1>1 DEF DbgTyped, CpuTyped, WireTyped
<1>3. Stopped /\ Stopped' = Stopped /\ Taken
  <2>1. Taken /\ Answered
    BY <1>1 DEF Taken, Answered
  <2>. QED BY <1>1, <2>1 DEF StubInStep, Stopped
<1>. DEFINE G == Copies(Answer(gdb.cmd))
<1>4. /\ Only(toGdb, G) /\ Without(inbuf, AskPackets) /\ Without(toStub, AskPackets)
      /\ Without(toGdb, Acks)
  BY <1>1 DEF OneUnderWay, FlowInStep
<1>. HIDE DEF G
<1>5. /\ toGdb' \in Seq(GdbItems) /\ Head(toGdb) \in G /\ Only(toGdb', G)
      /\ Without(toGdb', Acks)
  BY <1>1, <1>2, <1>4, Removed
<1>6. Head(toGdb).type = "packet" /\ Head(toGdb).is = Answer(gdb.cmd)
  BY <1>5, CopiesAre DEF G
<1>7. AtMostOne(toGdb', Acks) /\ AtMostOne(toGdb, Acks)
  BY <1>4, <1>5 DEF Without, AtMostOne
<1>8. CASE Head(toGdb).spoilt
  <2>1. toStub' = Append(toStub, Minus) /\ UNCHANGED gdb
    BY <1>6, <1>8 DEF GdbTakesReply
  <2>2. /\ toStub' \in Seq(StubItems)
        /\ Without(toStub', AskPackets)
        /\ AtMostOne(toStub, AskPackets) => AtMostOne(toStub', AskPackets)
        /\ Without(toStub, {Eof}) => Without(toStub', {Eof})
    BY <1>4, <2>1, AnsweringKeeps, KindsApart
  <2>3. DbgTyped'
    BY <1>1, <1>5, <2>1, <2>2, CpuStays DEF DbgTyped, WireTyped
  <2>4. Connected'
    BY <1>1, <2>1, <2>2 DEF Connected
  <2>5. OneUnderWay'
    BY <1>1, <1>4, <1>5, <1>7, <2>1, <2>2 DEF OneUnderWay
  <2>6. FlowInStep'
    BY <1>1, <1>5, <2>1 DEF FlowInStep, G
  <2>7. Taken'
    BY <1>1, <2>1 DEF Taken
  <2>8. StubInStep'
    BY <1>1, <1>3, <2>1, <2>7 DEF StubInStep
  <2>9. HasIsSet'
    BY <1>1, <1>3, <2>1 DEF HasIsSet
  <2>10. BreakpointsStop' /\ RepliesMatch' /\ WellLinked(bps')
    BY <1>1, <2>1 DEF BreakpointsStop, RepliesMatch
  <2>. QED BY <2>3, <2>4, <2>5, <2>6, <2>8, <2>9, <2>10
<1>9. CASE ~Head(toGdb).spoilt
  <2>. DEFINE a == Answer(gdb.cmd)
              h == IF a.op = "OK Z" THEN gdb.has \cup {a.at} ELSE gdb.has
  <2>1. toStub' = Append(toStub, Plus)
    BY <1>6, <1>9 DEF GdbTakesReply
  <2>2. gdb' = [gdb EXCEPT !.does = "idle", !.got = <<gdb.cmd, a>>, !.has = h]
    BY <1>6, <1>9 DEF GdbTakesReply
  <2>3. a \in Answers /\ a = IF gdb.cmd.op \in Resuming THEN StopReply ELSE Reply(gdb.cmd)
    BY <1>2, CopiesAre DEF Answer
  <2>4. h \subseteq Chained(bps) /\ h \subseteq Points
    <3>1. gdb.has \subseteq Chained(bps) /\ Chained(bps) \subseteq Points
      BY ChainedIs DEF HasIsSet, DbgTyped, CpuTyped, WireTyped
    <3>2. a.op = "OK Z" => a.at \in Chained(bps)
      BY <1>2, <1>3, <2>3, AnswersAre DEF HasIsSet
    <3>. QED BY <3>1, <3>2
  <2>. HIDE DEF a, h
  <2>5. /\ gdb'.does = "idle" /\ gdb'.cmd = gdb.cmd /\ gdb'.got = <<gdb.cmd, a>>
        /\ gdb'.has = h
        /\ gdb' \in [does : {"away", "idle", "sent", "asked", "running"},
                     cmd : Commands \cup {StopReply}, has : SUBSET Points,
                     got : {<< >>} \cup (Commands \X Answers), sent : Nat,
                     breaks : Nat, spoilt : Nat, sessions : Nat]
    BY <1>2, <2>2, <2>3, <2>4 DEF DbgTyped, CpuTyped, WireTyped
  <2>6. /\ toStub' \in Seq(StubItems)
        /\ Without(toStub', AskPackets)
        /\ AtMostOne(toStub, AskPackets) => AtMostOne(toStub', AskPackets)
        /\ Without(toStub, {Eof}) => Without(toStub', {Eof})
    BY <1>4, <2>1, AnsweringKeeps, KindsApart
  <2>7. DbgTyped'
    BY <1>1, <1>5, <2>5, <2>6 DEF DbgTyped, CpuTyped, WireTyped
  <2>8. Connected'
    BY <1>1, <2>5, <2>6 DEF Connected
  <2>9. OneUnderWay'
    BY <1>1, <1>4, <1>5, <1>7, <2>5, <2>6 DEF OneUnderWay
  <2>10. ~Taken' /\ FlowInStep'
    BY <2>5 DEF FlowInStep, Taken
  <2>11. StubInStep'
    BY <1>3, <2>10 DEF StubInStep
  <2>12. HasIsSet'
    BY <1>1, <2>4, <2>5, <2>10 DEF HasIsSet
  <2>13. BreakpointsStop'
    BY <1>1, <1>3 DEF BreakpointsStop, Stopped
  <2>14. RepliesMatch' /\ WellLinked(bps')
    BY <1>1, <2>3, <2>5 DEF RepliesMatch
  <2>. QED BY <2>7, <2>8, <2>9, <2>10, <2>11, <2>12, <2>13, <2>14
<1>. QED BY <1>8, <1>9
-----------------------------------------------------------------------------
LEMMA DbgStutters == DbgIInv /\ UNCHANGED dbgVars => DbgIInv'
<1>. SUFFICES ASSUME DbgIInv, UNCHANGED dbgVars PROVE DbgIInv'
  OBVIOUS
<1>1. UNCHANGED <<bps, dbg, sock, stub, dpc, toGdb, toStub, inbuf, gdb>>
  BY DEF dbgVars
<1>2. DbgTyped' /\ Connected' /\ OneUnderWay'
  <2>1. DbgTyped'
    <3>1. DbgTyped
      BY DEF DbgIInv
    <3>. QED BY <1>1, <3>1, CpuStays DEF DbgTyped, WireTyped
  <2>2. Connected'
    BY <1>1 DEF DbgIInv, Connected
  <2>3. OneUnderWay'
    BY <1>1 DEF DbgIInv, OneUnderWay
  <2>. QED BY <2>1, <2>2, <2>3
<1>3. Taken' = Taken /\ Answered' = Answered /\ Stopped' = Stopped
  BY <1>1 DEF Taken, Answered, Stopped
<1>4. FlowInStep' /\ StubInStep' /\ HasIsSet'
  BY <1>1, <1>3 DEF DbgIInv, FlowInStep, StubInStep, HasIsSet
<1>. QED BY <1>1, <1>2, <1>4 DEF DbgIInv, BreakpointsStop, RepliesMatch

LEMMA DbgStepHolds == DbgIInv /\ DbgNext => DbgIInv'
<1>1. DbgIInv /\ (CheckHits \/ CheckWaits \/ CheckStops \/ CheckPasses) => DbgIInv'
  BY HitHolds, CheckHolds
<1>2. DbgIInv /\ (Executes \/ AccessesNothing) => DbgIInv'
  BY CheckHolds, BadAccessHolds
<1>3. DbgIInv /\ (TakesAck \/ LosesAck \/ LosesCommand) => DbgIInv'
  BY AckHolds, LosesHold
<1>4. DbgIInv /\ (Reads \/ SkipsInput \/ TakesResume \/ TakesCommand) => DbgIInv'
  BY ReadsHold, SkipHolds, ResumeHolds, CommandHolds
<1>5. DbgIInv /\ (GdbConnects \/ GdbSends \/ GdbTakesAck \/ GdbTakesReply) => DbgIInv'
  BY ConnectHolds, AskHolds, GdbAckHolds, GdbReplyHolds
<1>6. DbgIInv /\ (GdbInterrupts \/ GdbLeaves) => DbgIInv'
  BY InterruptHolds
<1>. QED BY <1>1, <1>2, <1>3, <1>4, <1>5, <1>6 DEF DbgNext

(* The invariant from which the theorems below follow.                     *)
LEMMA DbgInvariant == DbgSpec => []DbgIInv
<1>1. DbgIInv /\ [DbgNext]_dbgVars => DbgIInv'
  BY DbgStepHolds, DbgStutters
<1>. QED BY <1>1, DbgInitHolds, PTL DEF DbgSpec

(* The types of the stub's and GDB's state.                                *)
THEOREM DebuggerTypes == DbgSpec => []DbgTypeOK
<1>1. DbgIInv => DbgTypeOK
  BY DEF DbgIInv, DbgTyped, CpuTyped, WireTyped, Lists, DbgTypeOK
<1>. QED BY <1>1, DbgInvariant, PTL

(* For any code and any commands in any number: the program never passes   *)
(* a breakpoint GDB was told is set without having been stopped there.     *)
THEOREM NoBreakpointPassed == DbgSpec => []BreakpointsStop
<1>1. DbgIInv => BreakpointsStop
  BY DEF DbgIInv
<1>. QED BY <1>1, DbgInvariant, PTL

(* However often packets are spoilt and sent again, what GDB takes for the *)
(* answer to a command is its answer, and a stop is a stop.                *)
THEOREM AnswersMatch == DbgSpec => []RepliesMatch
<1>1. DbgIInv => RepliesMatch
  BY DEF DbgIInv
<1>. QED BY <1>1, DbgInvariant, PTL

(* The list of breakpoints is always well linked, and GDB's breakpoints    *)
(* are in it.                                                              *)
THEOREM ListKeepsBreakpoints ==
    DbgSpec => [](WellLinked(bps) /\ gdb.has \subseteq Chained(bps))
<1>1. DbgIInv => WellLinked(bps) /\ gdb.has \subseteq Chained(bps)
  BY DEF DbgIInv, HasIsSet
<1>. QED BY <1>1, DbgInvariant, PTL

=============================================================================
