------------------------------- MODULE MCBoard -------------------------------
(***************************************************************************)
(* The board's devices, the VM's table of them and the debugger, for TLC.  *)
(* They share no state with each other (what they raise goes to the        *)
(* interrupt controller, which IrqPath models), so an exploration of all   *)
(* of them at once would only multiply their states: a behaviour is of the *)
(* one that focus names.                                                   *)
(***************************************************************************)
EXTENDS Cs8900, WdtTcu, Dma, Rtc, Lcd, TouchScreen, Devices, Debugger, TLC

VARIABLE focus
vars == <<focus, nicVars, tcuVars, dmaVars, rtcVars, lcdVars, tsVars, devVars, dbgVars>>

McFrames == {[dest |-> "me", len |-> 1], [dest |-> "all", len |-> 3],
             [dest |-> "other", len |-> 3], [dest |-> "me", len |-> 4]}
Init ==
    /\ focus \in {"nic", "tcu", "dma", "rtc", "lcd", "ts", "devices", "gdb"}
    /\ NicInit /\ TcuInit /\ DmaInit /\ RtcInit
    /\ LcdInit /\ TsInit /\ DevInit /\ DbgInit
    /\ focus # "lcd" => ds.width = 2
    /\ focus # "ts" => width = 2
    /\ focus # "gdb" => dpc = 1
NicRuns ==
    /\ focus = "nic" /\ NicNext
    /\ UNCHANGED <<focus, tcuVars, dmaVars, rtcVars, lcdVars, tsVars, devVars, dbgVars>>
TcuRuns ==
    /\ focus = "tcu" /\ TcuNext
    /\ UNCHANGED <<focus, nicVars, dmaVars, rtcVars, lcdVars, tsVars, devVars, dbgVars>>
DmaRuns ==
    /\ focus = "dma" /\ DmaNext
    /\ UNCHANGED <<focus, nicVars, tcuVars, rtcVars, lcdVars, tsVars, devVars, dbgVars>>
RtcRuns ==
    /\ focus = "rtc" /\ RtcNext
    /\ UNCHANGED <<focus, nicVars, tcuVars, dmaVars, lcdVars, tsVars, devVars, dbgVars>>
LcdRuns ==
    /\ focus = "lcd" /\ LcdNext
    /\ UNCHANGED <<focus, nicVars, tcuVars, dmaVars, rtcVars, tsVars, devVars, dbgVars>>
TsRuns ==
    /\ focus = "ts" /\ TsNext
    /\ UNCHANGED <<focus, nicVars, tcuVars, dmaVars, rtcVars, lcdVars, devVars, dbgVars>>
DevicesRun ==
    /\ focus = "devices" /\ DevNext
    /\ UNCHANGED <<focus, nicVars, tcuVars, dmaVars, rtcVars, lcdVars, tsVars, dbgVars>>
DebuggerRuns ==
    /\ focus = "gdb" /\ DbgNext
    /\ UNCHANGED <<focus, nicVars, tcuVars, dmaVars, rtcVars, lcdVars, tsVars, devVars>>
Next ==
    \/ NicRuns \/ TcuRuns \/ DmaRuns \/ RtcRuns \/ LcdRuns \/ TsRuns
    \/ DevicesRun \/ DebuggerRuns
Spec == Init /\ [][Next]_vars

BoardTypeOK ==
    CASE focus = "nic" -> NicTypeOK
      [] focus = "tcu" -> TcuTypeOK
      [] focus = "dma" -> DmaTypeOK
      [] focus = "rtc" -> RtcTypeOK
      [] focus = "lcd" -> LcdTypeOK
      [] focus = "ts" -> TsTypeOK
      [] focus = "devices" -> DevTypeOK
      [] focus = "gdb" -> DbgTypeOK

McSizes == "ram" :> 2 @@ "uart" :> 1 @@ "gpio" :> 1
(* Transfers whose ends do not overlap, across pages on both sides.        *)
McTransfers == {[src |-> 1, dst |-> 4, len |-> 3]}
McDescriptors ==
    {[cmd |-> {"V", "VM", "LINK"}, move |-> [src |-> 0, dst |-> 5, len |-> 2]],
     [cmd |-> {"V", "VM", "TIE"}, move |-> [src |-> 4, dst |-> 1, len |-> 3]],
     [cmd |-> {"VM"}, move |-> NoMove],
     [cmd |-> {"BadSize"}, move |-> NoMove]}
McHours == {<<23, 59, 58>>}
=============================================================================
