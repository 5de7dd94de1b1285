--------------------------------- MODULE Gpio ---------------------------------
(***************************************************************************)
(* The GPIO ports (jz4740_dev_gpio.c).  A port has registers of one bit a  *)
(* pin; the guest changes most of them through a second address that sets  *)
(* pins and a third that clears them, so that drivers which share a port   *)
(* need not read a register to change it.                                  *)
(***************************************************************************)
EXTENDS Naturals

CONSTANTS
    Ports, \* the four groups of 32 pins
    Pins,
    ReadyPort, ReadyPin \* port C's pin 30, the NAND flash's R/B line

ASSUME GpioAssumption == ReadyPort \in Ports /\ ReadyPin \in Pins

PlainRegs == {"DAT", "IM", "PE", "FUN", "SEL", "DIR", "TRG"}
PortRegs == PlainRegs \cup {"PIN", "FLG"}
PortStates == [Ports -> [PortRegs -> SUBSET Pins]]

(* dev_jz4740_gpio_init_defaultvalue: every interrupt is masked.           *)
PortDefault ==
    [p \in Ports |-> [r \in PortRegs |-> IF r = "IM" THEN Pins ELSE {}]]

(* The store's width selects the pins it reaches: the low 8, 16 or 32.     *)
Reached(pins, size) == IF size = "word" THEN pins ELSE pins \ {ReadyPin}

(* GPIO_PXDATS, GPIO_PXIMS and so on.                                      *)
PinsSet(g, p, r, pins, size) ==
    IF r \in PlainRegs THEN [g EXCEPT ![p][r] = @ \cup Reached(pins, size)]
    ELSE g

(* GPIO_PXDATC, GPIO_PXIMC and so on.                                      *)
PinsCleared(g, p, r, pins, size) ==
    IF r \in PlainRegs THEN [g EXCEPT ![p][r] = @ \ Reached(pins, size)]
    ELSE g

(* GPIO_PXFLGC: the only address that changes a flag.                      *)
FlagsCleared(g, p, pins) == [g EXCEPT ![p]["FLG"] = @ \ pins]

(* dev_jz4740_gpio_setirq; dev_jz4740_gpio_clearirq has no caller.         *)
FlagSet(g, p, pin) == [g EXCEPT ![p]["FLG"] = @ \cup {pin}]

(* Reading a port's levels: at the NAND flash's port every read finds the  *)
(* R/B line changed, and no other pin.                                     *)
LevelsRead(g, p) ==
    IF p # ReadyPort THEN g
    ELSE [g EXCEPT ![p]["PIN"] = IF ReadyPin \in @ THEN {} ELSE {ReadyPin}]
=============================================================================
