------------------------------- MODULE Console -------------------------------
(***************************************************************************)
(* The serial console: the VTTY thread, which reads the terminal into the  *)
(* ring and notifies the UART (dev_vtty.c), and the UART's registers and   *)
(* 25 ms poll on the CPU thread (jz4740_dev_uart.c).                       *)
(*                                                                         *)
(* The two threads share the ring, IER, LSR and the interrupt controller;  *)
(* an access of the guest is as many steps as it touches those.  The       *)
(* poll is one step: what it does after testing the ring the VTTY thread   *)
(* cannot tell from having been done at once.  IrqPath has the details of  *)
(* set_irq, here one step.                                                 *)
(*                                                                         *)
(* The guest is a driver that follows the protocol described at the top of *)
(* jz4740_dev_uart.c, as Linux' 8250 driver does, and a console that also  *)
(* writes without asking.                                                  *)
(***************************************************************************)
EXTENDS VttyRing

CONSTANTS
    MaxTyped, \* bound: how often the terminal's descriptor is readable
    MaxStored \* most characters stored for a byte, 3 for an unknown escape

ASSUME TypedAssumption == MaxTyped \in Nat /\ MaxStored \in Nat

VARIABLES
    vtty,    \* where the VTTY thread is
    input,   \* what it has to store for the bytes it has read
    typed,   \* how often it has read
    ier,     \* UART_IER: {"RDR", "TDR"}
    ume,     \* UART_FCR_UME
    output,  \* d->output: an output interrupt is on its way
    dry,     \* UART_LSR_DRY
    shown,   \* INTC_IPR shows the UART's source
    masked,  \* INTC_IMR masks it
    driver,  \* the register the guest's interrupt handler turns to next
    access,  \* where the CPU thread is in an access to the UART
    oldDry,  \* the DRY bit of the LSR it is about to change
    settled  \* from here on the guest leaves IER, FCR and the mask alone

uartVars == <<ier, ume, output, dry>>
intcVars == <<shown, masked>>
vttyVars == <<vtty, input, typed>>
cpuVars == <<driver, access, oldDry>>
vars == <<ringVars, uartVars, intcVars, vttyVars, cpuVars, settled>>

Inputs == UNION {[1..n -> Chars] : n \in 0..MaxStored}

(* A masked source is not shown.                                           *)
SetIrq == shown' = ~masked /\ UNCHANGED masked
ClearIrq == shown' = FALSE /\ UNCHANGED masked

-----------------------------------------------------------------------------
(* The VTTY thread: vtty_thread_main when select returns.                  *)

(* vtty_read_and_store: what it stores depends on the escape or telnet     *)
(* command the byte is part of.                                            *)
VttyReads ==
    /\ vtty = "select"
    /\ typed < MaxTyped
    /\ typed' = typed + 1
    /\ input' \in Inputs
    /\ vtty' = "store"
    /\ UNCHANGED <<ringVars, uartVars, intcVars, cpuVars, settled>>

VttyStores ==
    /\ vtty = "store"
    /\ input # <<>>
    /\ Store(Head(input))
    /\ input' = Tail(input)
    /\ UNCHANGED <<uartVars, intcVars, vtty, typed, cpuVars, settled>>

(* jz4740_tty_con_input, called whether or not anything has been stored.   *)
VttyTests ==
    /\ vtty = "store"
    /\ input = <<>>
    /\ vtty' = IF "RDR" \in ier THEN "raise" ELSE "mark"
    /\ UNCHANGED <<ringVars, uartVars, intcVars, input, typed, cpuVars, settled>>

VttyRaises ==
    /\ vtty = "raise"
    /\ SetIrq
    /\ vtty' = "mark"
    /\ UNCHANGED <<ringVars, uartVars, input, typed, cpuVars, settled>>

VttyMarks ==
    /\ vtty = "mark"
    /\ dry' = TRUE
    /\ vtty' = "select"
    /\ UNCHANGED <<ringVars, ier, ume, output, intcVars, input, typed, cpuVars,
                   settled>>

Vtty == VttyReads \/ VttyStores \/ VttyTests \/ VttyRaises \/ VttyMarks

-----------------------------------------------------------------------------
(* The poll, a timer callback: between two guest instructions.             *)

(* Variant: input is left to the VTTY thread's notification.               *)
UartPollOutputOnly ==
    /\ access = "none"
    /\ dry' = (dry \/ CharAvail)
    /\ output' = ("TDR" \in ier /\ ume)
    /\ IF "TDR" \in ier /\ ume THEN SetIrq ELSE UNCHANGED intcVars
    /\ UNCHANGED <<ringVars, ier, ume, vttyVars, cpuVars, settled>>

(* Variant: an output interrupt already on its way is waited for.          *)
UartPollKeepsOutput ==
    LET Input == CharAvail /\ "RDR" \in ier
        Output == ~Input /\ "TDR" \in ier /\ ~output /\ ume
    IN  /\ access = "none"
        /\ dry' = (dry \/ CharAvail)
        /\ output' = (output \/ Output)
        /\ IF Input \/ Output THEN SetIrq ELSE UNCHANGED intcVars
        /\ UNCHANGED <<ringVars, ier, ume, vttyVars, cpuVars, settled>>

UartPoll ==
    LET Input == CharAvail /\ "RDR" \in ier
        Output == ~Input /\ "TDR" \in ier /\ ume
    IN  /\ access = "none"
        /\ dry' = (dry \/ CharAvail)
        /\ output' = Output
        /\ IF Input \/ Output THEN SetIrq ELSE UNCHANGED intcVars
        /\ UNCHANGED <<ringVars, ier, ume, vttyVars, cpuVars, settled>>

(* Another device's set_irq assigns INTC_IPR.                              *)
OtherSourceShown ==
    /\ access = "none"
    /\ ClearIrq
    /\ UNCHANGED <<ringVars, uartVars, vttyVars, cpuVars, settled>>

-----------------------------------------------------------------------------
(* The handler's accesses.                                                 *)

(* The interrupt is taken; the kernel masks its source for the while.      *)
TakeInterrupt ==
    /\ access = "none" /\ driver = "out" /\ shown
    /\ driver' = "iir"
    /\ masked' = TRUE
    /\ UNCHANGED <<ringVars, uartVars, shown, vttyVars, access, oldDry, settled>>

ReadIir ==
    /\ access = "none" /\ driver = "iir"
    /\ ClearIrq
    /\ access' = "iir"
    /\ UNCHANGED <<ringVars, uartVars, vttyVars, driver, oldDry, settled>>

(* RXRDY, or TXRDY, or nothing pending: the handler returns.               *)
IirTells ==
    /\ access = "iir"
    /\ access' = "none"
    /\ output' = (output /\ CharAvail)
    /\ IF CharAvail \/ output
       THEN driver' = "lsr" /\ UNCHANGED masked
       ELSE driver' = "out" /\ masked' = FALSE
    /\ UNCHANGED <<ringVars, ier, ume, dry, shown, vttyVars, oldDry, settled>>

(* lsr |= TDRQ | TEMP: the load, and the store, which puts DRY back.       *)
ReadLsr ==
    /\ access = "none" /\ driver = "lsr"
    /\ oldDry' = dry
    /\ access' = "lsr"
    /\ UNCHANGED <<ringVars, uartVars, intcVars, vttyVars, driver, settled>>

LsrStores ==
    /\ access = "lsr"
    /\ dry' = oldDry
    /\ oldDry' = FALSE
    /\ access' = "lsrAvail"
    /\ UNCHANGED <<ringVars, ier, ume, output, intcVars, vttyVars, driver, settled>>

LsrTests ==
    /\ access = "lsrAvail"
    /\ dry' = (dry \/ CharAvail)
    /\ access' = "lsrTold"
    /\ UNCHANGED <<ringVars, ier, ume, output, intcVars, vttyVars, driver, oldDry,
                   settled>>

(* The guest's load from the pointer returned.                             *)
LsrTells ==
    /\ access = "lsrTold"
    /\ access' = "none"
    /\ driver' = IF dry THEN "rbr" ELSE IF "TDR" \in ier THEN "thr" ELSE "iir"
    /\ UNCHANGED <<ringVars, uartVars, intcVars, vttyVars, oldDry, settled>>

ReadRbr ==
    /\ access = "none" /\ driver = "rbr"
    /\ GetChar
    /\ access' = "rbr"
    /\ UNCHANGED <<uartVars, intcVars, vttyVars, driver, oldDry, settled>>

RbrTests ==
    /\ access = "rbr"
    /\ access' = IF CharAvail THEN "rbrSet" ELSE "rbrClear"
    /\ UNCHANGED <<ringVars, uartVars, intcVars, vttyVars, driver, oldDry, settled>>

RbrMarks ==
    /\ access \in {"rbrSet", "rbrClear"}
    /\ dry' = (access = "rbrSet")
    /\ access' = "none"
    /\ driver' = "lsr"
    /\ UNCHANGED <<ringVars, ier, ume, output, intcVars, vttyVars, oldDry, settled>>

(* A store to THR, which asks at once for the interrupt to send the next.  *)
PutChar ==
    IF "TDR" \in ier /\ ~output /\ ume
    THEN output' = TRUE /\ SetIrq
    ELSE UNCHANGED <<output, intcVars>>

WriteThr ==
    /\ access = "none" /\ driver = "thr"
    /\ PutChar
    /\ driver' = "iir"
    /\ UNCHANGED <<ringVars, ier, ume, dry, vttyVars, access, oldDry, settled>>

Handles ==
    \/ ReadIir \/ IirTells
    \/ ReadLsr \/ LsrStores \/ LsrTests \/ LsrTells
    \/ ReadRbr \/ RbrTests \/ RbrMarks
    \/ WriteThr

-----------------------------------------------------------------------------
(* The rest of the guest, and the watchdog.                                *)

GuestPrints ==
    /\ access = "none" /\ ~settled
    /\ PutChar
    /\ UNCHANGED <<ringVars, ier, ume, dry, vttyVars, cpuVars, settled>>

WriteIer ==
    /\ access = "none" /\ ~settled
    /\ ier' \in SUBSET {"RDR", "TDR"}
    /\ UNCHANGED <<ringVars, ume, output, dry, intcVars, vttyVars, cpuVars, settled>>

(* The same address as IIR's: a store clears the interrupt as well.        *)
WriteFcr(clearDry) ==
    /\ access = "none" /\ ~settled
    /\ ClearIrq
    /\ ume' \in BOOLEAN
    /\ dry' = (dry /\ ~clearDry)
    /\ UNCHANGED <<ringVars, ier, output, vttyVars, cpuVars, settled>>

GuestUnmasks ==
    /\ access = "none" /\ driver = "out" /\ masked
    /\ masked' = FALSE
    /\ UNCHANGED <<ringVars, uartVars, shown, vttyVars, cpuVars, settled>>

(* The driver is set up and stays so.                                      *)
GuestSettles ==
    /\ access = "none" /\ driver = "out"
    /\ "RDR" \in ier /\ ~masked /\ ~settled
    /\ settled' = TRUE
    /\ UNCHANGED <<ringVars, uartVars, intcVars, vttyVars, cpuVars>>

(* dev_jz4740_uart_reset leaves IER and output as they are.                *)
WatchdogResets ==
    /\ access = "none" /\ ~settled
    /\ ume' = FALSE
    /\ shown' = FALSE
    /\ masked' = TRUE
    /\ driver' = "out"
    /\ UNCHANGED <<ringVars, ier, output, dry, vttyVars, access, oldDry, settled>>

Guest ==
    \/ GuestPrints \/ WriteIer \/ WriteFcr(TRUE) \/ WriteFcr(FALSE)
    \/ GuestUnmasks \/ GuestSettles

Next ==
    \/ Vtty
    \/ UartPoll \/ OtherSourceShown
    \/ TakeInterrupt \/ Handles
    \/ Guest \/ WatchdogResets

Init ==
    /\ RingInit
    /\ vtty = "select" /\ input = <<>> /\ typed = 0
    /\ ier = {} /\ ume = FALSE /\ output = FALSE /\ dry = FALSE
    /\ shown = FALSE /\ masked = TRUE
    /\ driver = "out" /\ access = "none" /\ oldDry = FALSE
    /\ settled = FALSE

(* Both threads run; the poll's timer is served again and again, as        *)
(* CpuLoop shows.  Of two polls 25 ms apart the system timer's tick, every *)
(* 10 ms, can fall together with one, so the guest finds the UART's source *)
(* shown again and again if it is raised again and again.                  *)
Spec == /\ Init /\ [][Next]_vars
        /\ WF_vars(Vtty) /\ WF_vars(Handles)
        /\ SF_vars(UartPoll) /\ SF_vars(TakeInterrupt)

-----------------------------------------------------------------------------
(* Types; the slots in use hold characters.                                *)
TypeOK ==
    /\ RingTypeOK
    /\ vtty \in {"select", "store", "raise", "mark"}
    /\ input \in Inputs
    /\ vtty # "store" => input = <<>>
    /\ typed \in 0..MaxTyped
    /\ ier \subseteq {"RDR", "TDR"}
    /\ ume \in BOOLEAN /\ output \in BOOLEAN /\ dry \in BOOLEAN
    /\ shown \in BOOLEAN /\ masked \in BOOLEAN
    /\ oldDry \in BOOLEAN /\ settled \in BOOLEAN
    /\ driver \in {"out", "iir", "lsr", "rbr", "thr"}
    /\ access \in {"none", "iir", "lsr", "lsrAvail", "lsrTold", "rbr", "rbrSet",
                   "rbrClear"}
    /\ driver = "out" => access = "none"

(* The guest is given the terminal's characters in order, each once; one   *)
(* is lost only when the ring is full.  Each store puts its own character  *)
(* and each read of RBR takes one: neither may pass for no step at all.    *)
Fifo == INSTANCE BoundedFifo WITH held <- Held, Capacity <- Size - 1

RingCalls == /\ VttyStores => Fifo!Put(Head(input))
             /\ ReadRbr => Fifo!Get

ImplementsFifo == Fifo!Spec /\ [][RingCalls]_vars

(* With receive interrupts on, whatever is in the ring is read in the end, *)
(* though an interrupt raised for it may have been hidden or cleared.      *)
InputRead == (settled /\ CharAvail) ~> ~CharAvail

(* With output interrupts on, the driver is asked for the next character   *)
(* again and again: it is never left waiting for an interrupt that was     *)
(* hidden or cleared.                                                      *)
OutputAsked ==
    <>[](settled /\ "TDR" \in ier /\ ume) => []<>(driver = "thr")

=============================================================================
