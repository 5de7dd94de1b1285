--------------------------------- MODULE Dma ---------------------------------
(***************************************************************************)
(* The DMA controller (jz4740_dev_dma.c) and the copy it makes in guest    *)
(* RAM (physmem_dma_transfer).                                             *)
(*                                                                         *)
(* A register is the set of its bits' names.  A store to a register runs   *)
(* the whole transfer it starts; a doorbell's walk along the descriptors   *)
(* is a step for each descriptor, since a walk need not end.               *)
(*                                                                         *)
(* Descriptors are kept apart from the RAM the transfers move, and from    *)
(* each other.                                                             *)
(***************************************************************************)
EXTENDS Naturals, FiniteSets

CONSTANTS
    Channels,   \* the first ones of the controller's six: 0..n
    RamSize,    \* bytes of guest RAM
    DmaPage,    \* VM_PAGE_SIZE
    Transfers,  \* [src, dst, len]: what the guest programs
    Slots,      \* where in its page a descriptor may be
    Ddas,       \* where in its page a channel's DDA may point
    Bank,       \* what the top byte of an address counts: 16 MB
    Descriptors, \* [cmd, move]: what the guest writes there
    MaxTransfers \* transfers and descriptors programmed, resets (bound)

ControlBits == {"NDES", "EN", "INV", "TT", "CT", "AR"}
ChannelBits == {"TIE", "BadSize"}
CommandBits == ChannelBits \cup {"V", "VM", "LINK"}

(* What is in RAM at both ends: physmem_dma_transfer asserts it.           *)
Memory == [0..(RamSize - 1) -> 0..(RamSize - 1)]
Moves == {t \in [src : 0..RamSize, dst : 0..RamSize, len : 0..RamSize] :
              t.src + t.len <= RamSize /\ t.dst + t.len <= RamSize}

ASSUME DmaAssumption ==
    /\ RamSize \in Nat /\ DmaPage \in Nat \ {0} /\ Bank \in Nat \ {0}
    /\ 0 \in Ddas /\ Ddas \subseteq Nat
    /\ {a \in Ddas : a % 16 = 0} \subseteq Slots
    /\ \A a \in 0..RamSize : a \div Bank \in Slots
    /\ \E n \in 0..5 : Channels = 0..n
    /\ Transfers \subseteq Moves /\ MaxTransfers \in Nat
    /\ Descriptors \subseteq [cmd : SUBSET CommandBits, move : Moves]

VARIABLES
    chan,   \* for each channel: its transfer (DSAR, DTAR, DTCR), DCCSR, DCMD, DDA
    master, \* DMACR: DMAE is set
    ended,  \* DMAIPR: channels that ended
    ram,
    slot,   \* the descriptors
    walk,   \* the doorbell's walk: the channel, and where it is
    dmaTold,   \* an interrupt was asked for by the last step
    programmed, \* transfers programmed (bound)
    crashed    \* an assertion failed

dmaVars == <<chan, master, ended, ram, slot, walk, dmaTold, programmed, crashed>>

NoMove == [src |-> 0, dst |-> 0, len |-> 0]
NoWalk == [on |-> FALSE, chan |-> 0, at |-> 0]
ChannelsCleared == [c \in Channels |-> [move |-> NoMove, ctl |-> {}, cmd |-> {}, dda |-> 0]]

DmaInit ==
    /\ chan = ChannelsCleared
    /\ master = FALSE /\ ended = {}
    /\ ram = [a \in 0..(RamSize - 1) |-> a]
    /\ slot = [s \in Slots |-> [cmd |-> {}, move |-> NoMove]]
    /\ walk = NoWalk /\ dmaTold = FALSE /\ programmed = 0 /\ crashed = FALSE

DmaTypeOK ==
    /\ chan \in [Channels -> [move : Moves, ctl : SUBSET ControlBits,
                              cmd : SUBSET ChannelBits, dda : Ddas]]
    /\ slot \in [Slots -> [cmd : SUBSET CommandBits, move : Moves]]
    /\ walk \in [on : BOOLEAN, chan : Channels, at : Slots]
    /\ ram \in Memory /\ ended \subseteq Channels /\ programmed \in 0..MaxTransfers
    /\ master \in BOOLEAN /\ dmaTold \in BOOLEAN /\ crashed \in BOOLEAN

-----------------------------------------------------------------------------
(* physmem_dma_transfer: in pieces that cross no page of either side.      *)
Least(S) == CHOOSE n \in S : \A k \in S : n <= k
Piece(t) == Least({DmaPage - (t.src % DmaPage), DmaPage - (t.dst % DmaPage), t.len})

PutPiece(m, t, n) ==
    [a \in DOMAIN m |-> IF a >= t.dst /\ a < t.dst + n THEN m[t.src + (a - t.dst)]
                                                       ELSE m[a]]
RestOf(t, n) == [src |-> t.src + n, dst |-> t.dst + n, len |-> t.len - n]

Copied[c \in [ram : Memory, move : Moves]] ==
    IF c.move.len = 0 THEN c.ram
    ELSE LET n == Piece(c.move)
         IN  Copied[[ram |-> PutPiece(c.ram, c.move, n), move |-> RestOf(c.move, n)]]

Moved(m, t) == Copied[[ram |-> m, move |-> t]]

-----------------------------------------------------------------------------
(* Variant: the count is left.                                             *)
FinishedWithCount(ch) == [ch EXCEPT !.ctl = ControlBits]

(* dma_non_descriptor_trans.  "|= ~AR" and "|= ~TT" set every bit.         *)
Finished(ch) == [ch EXCEPT !.move.len = 0, !.ctl = ControlBits]

(* enable_global_dma and enable_dma_channel, over the channels that start, *)
(* in their order.  A transfer also sets DMAE.                             *)
MovedAll[x \in [ram : Memory, todo : SUBSET Channels]] ==
    IF x.todo = {} THEN x.ram
    ELSE LET c == Least(x.todo)
         IN  MovedAll[[ram |-> Moved(x.ram, chan[c].move), todo |-> x.todo \ {c}]]

RunsAll(S, new, on) ==
    /\ ram' = MovedAll[[ram |-> ram, todo |-> S]]
    /\ chan' = [c \in Channels |-> IF c \in S THEN Finished(new[c]) ELSE new[c]]
    /\ ended' = ended \cup S
    /\ master' = (on \/ S # {})
    /\ dmaTold' = (\E c \in S : "TIE" \in new[c].cmd)
    /\ UNCHANGED <<slot, walk, programmed, crashed>>

(* An assertion ends the program.                                          *)
Crashes ==
    /\ crashed' = TRUE /\ walk' = NoWalk
    /\ UNCHANGED <<chan, master, ended, ram, slot, dmaTold, programmed>>

(* get_dma_unit_size asserts against a unit that is reserved.              *)
Runs(S, new, on) ==
    \/ (\A c \in S : "BadSize" \notin new[c].cmd) /\ RunsAll(S, new, on)
    \/ (\E c \in S : "BadSize" \in new[c].cmd) /\ Crashes

Waiting == ~walk.on /\ ~crashed

(* DSAR, DTAR, DTCR, DCMD and DDA are plain registers.                     *)
Programs ==
    /\ Waiting /\ programmed < MaxTransfers
    /\ \E c \in Channels, t \in Transfers, b \in SUBSET ChannelBits, a \in Ddas :
           \/ chan' = [chan EXCEPT ![c].move = t, ![c].cmd = b]
           \/ chan' = [chan EXCEPT ![c].dda = a]
    /\ programmed' = programmed + 1 /\ dmaTold' = FALSE
    /\ UNCHANGED <<master, ended, ram, slot, walk, crashed>>

(* The board's reset clears every register.                                *)
DmaResets ==
    /\ Waiting /\ programmed < MaxTransfers
    /\ chan' = ChannelsCleared /\ master' = FALSE /\ ended' = {}
    /\ programmed' = programmed + 1 /\ dmaTold' = FALSE
    /\ UNCHANGED <<ram, slot, walk, crashed>>

WritesControl ==
    /\ Waiting
    /\ \E c \in Channels, b \in {{}, {"NDES"}, {"EN"}, {"NDES", "EN"}} :
           Runs(IF master /\ {"NDES", "EN"} \subseteq b THEN {c} ELSE {},
                [chan EXCEPT ![c].ctl = b], master)

WritesMaster ==
    /\ Waiting
    /\ \E on \in BOOLEAN :
           Runs(IF on THEN {c \in Channels : "NDES" \in chan[c].ctl} ELSE {},
                chan, on)

-----------------------------------------------------------------------------
(* Descriptors.  The doorbell serves the first channel named, if its       *)
(* NDES bit is set.                                                        *)
WritesDescriptor ==
    /\ Waiting /\ programmed < MaxTransfers
    /\ \E s \in Slots, d \in Descriptors : slot' = [slot EXCEPT ![s] = d]
    /\ programmed' = programmed + 1 /\ dmaTold' = FALSE
    /\ UNCHANGED <<chan, master, ended, ram, walk, crashed>>

Misaligned(c) == chan[c].dda % 16 # 0

RingsDoorbell ==
    /\ Waiting
    /\ \E S \in (SUBSET Channels) \ {{}} :
          LET c == Least(S)
              served == master /\ "NDES" \in chan[c].ctl
          IN  \/ /\ served /\ Misaligned(c)
                 /\ Crashes
              \/ /\ ~(served /\ Misaligned(c))
                 /\ walk' = IF served
                            THEN [on |-> TRUE, chan |-> c, at |-> chan[c].dda]
                            ELSE NoWalk
                 /\ dmaTold' = FALSE
                 /\ UNCHANGED <<chan, master, ended, ram, slot, programmed, crashed>>

(* "|= ~V" sets every bit of DCMD but V, which stays as it was: LINK and   *)
(* TIE are then set, and the unit size is one get_dma_unit_size refuses.   *)
Cleared(cmd) == IF "VM" \in cmd THEN cmd \cup (CommandBits \ {"V"}) ELSE cmd

(* The next descriptor is in the page DDA points to, where the top byte of *)
(* this one's target address says, and not the one of its DDADR.           *)
NextSlot(d) == d.move.dst \div Bank

Serves(d, cmd) ==
    /\ ram' = Moved(ram, d.move)
    /\ slot' = [slot EXCEPT ![walk.at].cmd = cmd]
    /\ chan' = [chan EXCEPT ![walk.chan].ctl =
                    @ \cup {IF "LINK" \in cmd THEN "CT" ELSE "TT"}]
    /\ dmaTold' = ("TIE" \in cmd)
    /\ walk' = [walk EXCEPT !.on = "LINK" \in cmd,
                            !.at = IF "LINK" \in cmd THEN NextSlot(d) ELSE @]
    /\ UNCHANGED <<master, ended, programmed, crashed>>

StopsInvalid ==
    /\ chan' = [chan EXCEPT ![walk.chan].ctl = @ \cup {"INV"}]
    /\ walk' = NoWalk
    /\ UNCHANGED <<master, ended, ram, slot, dmaTold, programmed, crashed>>

WalksOn ==
    /\ walk.on
    /\ LET d == slot[walk.at]
       IN  CASE "VM" \in d.cmd /\ "V" \notin d.cmd -> StopsInvalid
             [] ~("VM" \in d.cmd /\ "V" \notin d.cmd) /\ "BadSize" \in d.cmd ->
                    Crashes
             [] OTHER -> Serves(d, Cleared(d.cmd))

DmaNext ==
    \/ Programs \/ WritesControl \/ WritesMaster \/ WritesDescriptor
    \/ RingsDoorbell \/ WalksOn \/ DmaResets

DmaSpec == DmaInit /\ [][DmaNext]_dmaVars

-----------------------------------------------------------------------------
(* What a transfer means: the target holds what the source held and the    *)
(* rest of memory is as it was, however the copy was cut.                  *)
PlainCopy(m, t) ==
    [a \in DOMAIN m |-> IF a \in t.dst..(t.dst + t.len - 1)
                        THEN m[t.src + (a - t.dst)] ELSE m[a]]

(* A transfer that writes nothing it reads.  memcpy is undefined where the *)
(* ends of a piece overlap.                                                *)
Aside(t) == t.src + t.len <= t.dst \/ t.dst + t.len <= t.src

(* The channels whose transfer a step has made: their count is zero now,   *)
(* and it is not the guest that made it so.                                *)
Emptied == {c \in Channels : /\ chan[c].move.len > 0 /\ chan'[c].move.len = 0
                             /\ programmed' = programmed}

(* Memory changes by exactly the transfers that end: a channel's count     *)
(* falls to zero with its one copy, and a register write, a doorbell or a  *)
(* second start of a channel that has ended copies nothing again.          *)
TransfersMean ==
    [][/\ Cardinality(Emptied) = 1 =>
              ram' = PlainCopy(ram, chan[Least(Emptied)].move)
       /\ (Emptied = {} /\ ~walk.on) => ram' = ram
       /\ walk.on /\ ram' # ram => ram' = PlainCopy(ram, slot[walk.at].move)]_dmaVars
=============================================================================
