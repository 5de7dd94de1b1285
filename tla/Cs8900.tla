-------------------------------- MODULE Cs8900 --------------------------------
(***************************************************************************)
(* The CS8900 network card (dev_cs8900.c), the GPIO pin and the interrupt  *)
(* controller between it and the CPU (jz4740_dev_gpio.c, pavo.c), and the  *)
(* guest's driver.                                                         *)
(*                                                                         *)
(* Lengths and indices count halfwords, the unit the data port moves.  A   *)
(* halfword of a frame is <<frame, position>>.  The PacketPage pointer and *)
(* the access through it are one action, the driver holding its lock.      *)
(*                                                                         *)
(* The receive timer's callback runs on the CPU thread between two guest   *)
(* instructions: between any two of the driver's accesses.                 *)
(***************************************************************************)
EXTENDS Naturals, Sequences, FiniteSets, Gpio

CONSTANTS
    FrameKinds, \* [dest, len]: what may arrive
    MaxFrames,  \* frames that arrive (bound)
    MaxSends,   \* frames the driver sends (bound)
    SendLengths,
    PadTo,      \* CS8900_RUN_PKT_SIZE
    MaxLength,  \* CS8900_MAX_PKT_SIZE
    Rivals,     \* the other sources that interrupt
    MaxBoots,   \* resets of the board or of the card (bound)
    NetPort, NetPin \* the card's interrupt line

ASSUME Cs8900Assumption ==
    /\ PadTo \in Nat \ {0} /\ MaxLength \in Nat /\ PadTo <= MaxLength
    /\ \A k \in FrameKinds :
           k.dest \in {"me", "all", "group", "other"} /\ k.len \in Nat \ {0}
    /\ SendLengths \subseteq 1..MaxLength
    /\ NetPort \in Ports /\ NetPin \in Pins

VARIABLES
    nic,      \* the card's registers and indices
    rxRam,    \* PP_RxFrame
    ports,    \* the GPIO's registers
    line,     \* [ipr, raised]: INTC_IPR, the interrupt the CPU has pending
    driver,   \* the guest's driver
    arrived, sent, boots, \* bounds
    silent,   \* an event was recorded while BusCTL forbade to signal it
    unread,   \* a received frame was announced and not yet looked at
    disturbed \* a frame or a reset came while the driver read a frame

nicVars == <<nic, rxRam, ports, line, driver, arrived, sent, boots, silent, unread,
             disturbed>>

(* dev_cs8900_init_defaultvalue: the bits the guest's driver sets are off. *)
Default(rx, tx, armed) ==
    [rxOn |-> FALSE, txOn |-> FALSE, accept |-> {}, rxIrq |-> FALSE,
     txIrq |-> FALSE, irqOn |-> FALSE, isq |-> {}, rxEvent |-> {},
     txOk |-> FALSE, bufEvent |-> {}, rxLength |-> 0, txLength |-> 0,
     rxIndex |-> rx, txIndex |-> tx, armed |-> armed, dead |-> FALSE]

Calm == [ipr |-> "none", raised |-> FALSE]
NoFrame == [h \in 1..MaxLength |-> <<0, 0>>]
Driver(phase) ==
    [phase |-> phase, left |-> 0, got |-> << >>, awaits |-> FALSE]

NicInit ==
    /\ nic = Default(0, 0, FALSE)
    /\ rxRam = NoFrame
    /\ ports = PortDefault /\ line = Calm
    /\ driver = Driver("boot")
    /\ arrived = 0 /\ sent = 0 /\ boots = 0
    /\ silent = FALSE /\ unread = FALSE /\ disturbed = FALSE

NicTypeOK ==
    /\ nic.isq \subseteq {"Rx", "Tx"}
    /\ nic.rxEvent \subseteq {"RxOK", "all", "group", "me"}
    /\ nic.bufEvent \subseteq {"SWint", "Rdy4Tx"}
    /\ nic.rxIndex \in 0..MaxLength /\ nic.txIndex \in 0..MaxLength
    /\ nic.rxLength \in 0..MaxLength
    /\ ports \in PortStates
    /\ line.ipr \in Rivals \cup {"none", "gpio1"}
    /\ driver.phase \in {"boot", "idle", "isr", "receiving", "sending"}
    /\ driver.left \in 0..MaxLength

-----------------------------------------------------------------------------
(* pavo_set_irq for an unmasked source: IPR is assigned, so that it shows  *)
(* one source only.                                                        *)
SetIrq(source) == line' = [ipr |-> source, raised |-> TRUE]

(* An event's bits go into ISQ, and if BusCTL's interrupt bit allows it    *)
(* the pin's flag is set and its port's interrupt asked for                *)
(* (dev_cs8900_gen_interrupt, plat_soc_irq).                               *)
Announce(n, bits) ==
    /\ nic' = [n EXCEPT !.isq = @ \cup bits]
    /\ IF n.irqOn
       THEN ports' = FlagSet(ports, NetPort, NetPin) /\ SetIrq("gpio1")
       ELSE UNCHANGED <<ports, line>>
    /\ silent' = (silent \/ ~n.irqOn)
Quietly(n) == nic' = n /\ UNCHANGED <<ports, line, silent>>

Alive == ~nic.dead
Dies == nic' = [nic EXCEPT !.dead = TRUE]

-----------------------------------------------------------------------------
(* The receive callback, dev_cs8900_cb.                                    *)

(* cs8900_handle_mac_addr: a unicast frame is looked at only if            *)
(* IndividualA is set; the filter adds the reason to RxEvent.              *)
Wanted(k) ==
    \/ "promiscuous" \in nic.accept
    \/ k.dest \in {"all", "group"} /\ k.dest \in nic.accept
    \/ k.dest \in {"me", "other"} /\ ("me" \in nic.accept => k.dest = "me")
Reason(k) ==
    IF "promiscuous" \notin nic.accept /\ k.dest \in nic.accept
    THEN {k.dest} ELSE {}

Padded(len) == IF len < PadTo THEN PadTo ELSE len

(* dev_cs8900_receive_pkt: over whatever the buffer held.                  *)
Delivered(k) ==
    LET len == Padded(k.len)
    IN  /\ rxRam' = [h \in 1..MaxLength |->
                        IF h <= len THEN <<arrived + 1, h>> ELSE rxRam[h]]
        /\ LET n == [nic EXCEPT !.rxLength = len,
                                !.rxEvent = @ \cup Reason(k) \cup {"RxOK"}]
           IN  IF nic.rxIrq THEN Announce(n, {"Rx"}) ELSE Quietly(n)
        /\ unread' = (unread \/ nic.rxIrq)
        /\ disturbed' = (disturbed \/ driver.phase = "receiving")

FrameArrives ==
    /\ Alive /\ nic.armed /\ arrived < MaxFrames
    /\ arrived' = arrived + 1
    /\ \E k \in FrameKinds :
          CASE ~nic.rxOn \/ ~Wanted(k) ->
                 UNCHANGED <<nic, rxRam, ports, line, silent, unread, disturbed>>
            [] nic.rxOn /\ Wanted(k) /\ k.len > MaxLength ->
                 /\ Dies
                 /\ UNCHANGED <<rxRam, ports, line, silent, unread, disturbed>>
            [] OTHER -> Delivered(k)
    /\ UNCHANGED <<driver, sent, boots>>

-----------------------------------------------------------------------------
(* The guest's registers: dev_cs8900_access, as the driver uses it.        *)

WritesLineCtl ==
    Quietly([nic EXCEPT !.rxOn = TRUE, !.txOn = TRUE, !.armed = TRUE])
WritesRxCtl ==
    \E a \in {{"me", "all"}, {"promiscuous"}, {"all", "group"}} :
        Quietly([nic EXCEPT !.accept = a])
WritesConfig == Quietly([nic EXCEPT !.rxIrq = TRUE, !.txIrq = TRUE])
WritesBusCtl == Quietly([nic EXCEPT !.irqOn = TRUE])

(* The driver's start: the card's registers in turn.                       *)
Opens ==
    /\ Alive /\ driver.phase = "boot"
    /\ CASE ~nic.rxOn -> WritesLineCtl
         [] nic.rxOn /\ nic.accept = {} -> WritesRxCtl
         [] nic.accept # {} /\ ~nic.rxIrq -> WritesConfig
         [] OTHER -> WritesBusCtl
    /\ driver' = IF nic.rxIrq THEN Driver("idle") ELSE driver
    /\ UNCHANGED <<rxRam, arrived, sent, boots, unread, disturbed>>

(* SelfCTL's reset bit, from a driver that opens the card again: the       *)
(* registers and the frames are cleared; the two indices, the timer and    *)
(* what was signalled are not.                                             *)
ResetsCard ==
    /\ Alive /\ driver.phase = "idle" /\ boots < MaxBoots
    /\ boots' = boots + 1
    /\ nic' = Default(nic.rxIndex, nic.txIndex, nic.armed)
    /\ rxRam' = NoFrame
    /\ driver' = Driver("boot")
    /\ silent' = FALSE /\ unread' = FALSE
    /\ UNCHANGED <<ports, line, arrived, sent, disturbed>>

(* BufCFG: SWint_X and Rdy4TxiE record a BufEvent, whose code is 0x0c.     *)
BufBits == {"Rx", "Tx"}
WritesBufCfg ==
    /\ Alive /\ driver.phase = "idle" /\ nic.bufEvent = {}
    /\ \E e \in {"SWint", "Rdy4Tx"} :
           Announce([nic EXCEPT !.bufEvent = @ \cup {e}], BufBits)
    /\ UNCHANGED <<rxRam, driver, arrived, sent, boots, unread, disturbed>>

(* The interrupt: INTC_IPR is read, which clears it, and the pin's flag is *)
(* acknowledged (GPIO_PXFLGC) before the driver's routine runs.            *)
TakesInterrupt ==
    /\ Alive /\ driver.phase = "idle" /\ line.raised
    /\ line' = Calm
    /\ IF line.ipr = "gpio1" /\ NetPin \in ports[NetPort]["FLG"]
       THEN /\ ports' = FlagsCleared(ports, NetPort, {NetPin})
            /\ driver' = [driver EXCEPT !.phase = "isr"]
       ELSE UNCHANGED <<ports, driver>>
    /\ UNCHANGED <<nic, rxRam, arrived, sent, boots, silent, unread, disturbed>>

(* Variant: a read of ISQ takes everything.                                *)
IsqLeftNothing(isq) == {}

(* Reading ISQ: the transmitter's event first, then the receiver's; since  *)
(* BufEvent is both, its own case is never reached.                        *)
IsqLeft(isq) == IF "Tx" \in isq THEN isq \ {"Tx"} ELSE isq \ {"Rx"}

ReadsTxEvent ==
    /\ "Tx" \in nic.isq
    /\ nic' = [nic EXCEPT !.isq = IsqLeft(@), !.txOk = FALSE]
    /\ driver' = [driver EXCEPT !.awaits = @ /\ ~nic.txOk]
    /\ UNCHANGED unread

(* The driver goes on to RxLength when the event says RxOK.                *)
ReadsRxEvent ==
    /\ "Tx" \notin nic.isq /\ "Rx" \in nic.isq
    /\ nic' = [nic EXCEPT !.isq = IsqLeft(@), !.rxEvent = {}]
    /\ driver' = IF "RxOK" \in nic.rxEvent
                 THEN [driver EXCEPT !.phase = "receiving",
                                     !.left = nic.rxLength, !.got = << >>]
                 ELSE driver
    /\ unread' = FALSE

ReadsIsq ==
    /\ Alive /\ driver.phase = "isr" /\ nic.isq # {}
    /\ ReadsTxEvent \/ ReadsRxEvent
    /\ silent' = (silent /\ IsqLeft(nic.isq) # {})
    /\ UNCHANGED <<rxRam, ports, line, arrived, sent, boots, disturbed>>

(* ISQ reads as zero: the routine returns.                                 *)
Returns ==
    /\ Alive /\ driver.phase = "isr" /\ nic.isq = {}
    /\ driver' = [driver EXCEPT !.phase = "idle"]
    /\ UNCHANGED <<nic, rxRam, ports, line, arrived, sent, boots, silent,
                   unread, disturbed>>

(* RxCFG's Skip_1, for a frame the driver does not want: the frame is      *)
(* erased; the index stays.                                                *)
SkipsFrame ==
    /\ Alive /\ driver.phase = "receiving" /\ driver.got = << >>
    /\ rxRam' = NoFrame
    /\ driver' = [driver EXCEPT !.phase = "isr", !.left = 0]
    /\ UNCHANGED <<nic, ports, line, arrived, sent, boots, silent, unread,
                   disturbed>>

(* Variant: the index goes on past the last.                               *)
NextIndexOn(i, length) == i + 1

(* A halfword from the data port; the index returns to the start with the  *)
(* last one, and past the end the program exits.                           *)
NextIndex(i, length) == IF i + 1 >= length THEN 0 ELSE i + 1

ReadsData ==
    /\ Alive /\ driver.phase = "receiving"
    /\ IF nic.rxIndex >= nic.rxLength
       THEN Dies /\ UNCHANGED driver
       ELSE /\ nic' = [nic EXCEPT !.rxIndex = NextIndex(@, nic.rxLength)]
            /\ driver' =
                 [driver EXCEPT !.got = Append(@, rxRam[nic.rxIndex + 1]),
                                !.left = @ - 1,
                                !.phase = IF driver.left = 1 THEN "isr" ELSE @]
    /\ UNCHANGED <<rxRam, ports, line, arrived, sent, boots, silent, unread,
                   disturbed>>

-----------------------------------------------------------------------------
(* The driver asks for room and writes the frame's length.                 *)
StartsSending ==
    /\ Alive /\ driver.phase = "idle" /\ ~driver.awaits /\ sent < MaxSends
    /\ sent' = sent + 1
    /\ \E n \in SendLengths :
           /\ nic' = [nic EXCEPT !.txLength = n]
           /\ driver' = [driver EXCEPT !.phase = "sending", !.left = n]
    /\ UNCHANGED <<rxRam, ports, line, arrived, boots, silent, unread, disturbed>>

(* dev_cs8900_tx: pad, send, and announce.                                 *)
Transmitted ==
    LET n == [nic EXCEPT !.txIndex = 0,
                         !.txLength = IF nic.txOn THEN Padded(@) ELSE @,
                         !.txOk = @ \/ nic.txOn]
    IN  IF nic.txOn /\ nic.txIrq THEN Announce(n, {"Tx"}) ELSE Quietly(n)

(* The driver writes all of its frame; the card sends when its index is at *)
(* the end, which is early if a reset left the index inside of a frame.    *)
Wrote(d) ==
    IF d.left = 1 THEN [d EXCEPT !.left = 0, !.phase = "idle", !.awaits = TRUE]
                  ELSE [d EXCEPT !.left = @ - 1]

WritesData ==
    /\ Alive /\ driver.phase = "sending"
    /\ IF nic.txIndex + 1 >= nic.txLength
       THEN Transmitted
       ELSE Quietly([nic EXCEPT !.txIndex = @ + 1])
    /\ driver' = Wrote(driver)
    /\ UNCHANGED <<rxRam, arrived, sent, boots, unread, disturbed>>

-----------------------------------------------------------------------------
(* Another device's interrupt, from a timer's callback; and other drivers, *)
(* which change their own pins and wait for the NAND flash.                *)
RivalRaises ==
    /\ Alive /\ \E r \in Rivals : SetIrq(r)
    /\ UNCHANGED <<nic, rxRam, ports, driver, arrived, sent, boots, silent,
                   unread, disturbed>>
OthersUsePorts ==
    /\ Alive
    /\ \/ ports' = PinsSet(ports, NetPort, "DAT", Pins \ {NetPin}, "half")
       \/ ports' = PinsCleared(ports, NetPort, "DAT", Pins \ {NetPin}, "half")
       \/ \E p \in Ports : ports' = LevelsRead(ports, p)
    /\ UNCHANGED <<nic, rxRam, line, driver, arrived, sent, boots, silent,
                   unread, disturbed>>

(* The watchdog resets the board and the guest boots again: the registers  *)
(* take their defaults, the two indices and the timer do not.              *)
Reboots ==
    /\ Alive /\ boots < MaxBoots
    /\ boots' = boots + 1
    /\ nic' = Default(nic.rxIndex, nic.txIndex, nic.armed)
    /\ rxRam' = NoFrame
    /\ ports' = PortDefault /\ line' = Calm
    /\ driver' = Driver("boot")
    /\ silent' = FALSE /\ unread' = FALSE
    /\ disturbed' = (disturbed \/ driver.phase = "receiving")
    /\ UNCHANGED <<arrived, sent>>

NicNext ==
    \/ FrameArrives \/ Opens \/ WritesBufCfg \/ TakesInterrupt \/ ReadsIsq
    \/ Returns \/ SkipsFrame \/ ReadsData \/ StartsSending \/ WritesData
    \/ RivalRaises \/ OthersUsePorts \/ ResetsCard \/ Reboots

NicSpec == NicInit /\ [][NicNext]_nicVars

-----------------------------------------------------------------------------
(* No event is lost between its recording and the driver's read of ISQ:    *)
(* while the driver waits for a transmission the event that ends the wait  *)
(* is there, and a frame it was not told of is still announced; and while  *)
(* the driver is idle, the pin's flag tells of what ISQ holds, whatever    *)
(* other drivers do to the port.  Events share ISQ, and their codes share  *)
(* bits.                                                                   *)
EventsNotLost ==
    /\ driver.awaits => "Tx" \in nic.isq /\ nic.txOk
    /\ unread => "Rx" \in nic.isq /\ "RxOK" \in nic.rxEvent
    /\ (Alive /\ driver.phase = "idle" /\ nic.isq # {} /\ ~silent)
           => NetPin \in ports[NetPort]["FLG"]

(* What the driver reads as one frame is one frame, from its first         *)
(* halfword to its last, unless another arrived, or the board was reset,   *)
(* while it was reading: there is one buffer and one index into it.        *)
FramesReadWhole ==
    ~disturbed =>
        /\ \A h \in DOMAIN driver.got :
               driver.got[h] = <<driver.got[1][1], h>>
        /\ driver.phase # "receiving" => nic.rxIndex = 0
=============================================================================
