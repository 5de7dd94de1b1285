----------------------------- MODULE MCCpuLoop -----------------------------
(***************************************************************************)
(* The CPU thread for TLC: CpuLoop with three timers (a UART poll, armed   *)
(* from the start and out of the guest's reach, the TCU and the watchdog,  *)
(* both guest-controlled), and Interp with the programs of MCProcessor.    *)
(* CpuLoop sees of an instruction which timer it moves and Interp sees of  *)
(* the loop that interrupts come, so a behaviour is of the one that focus  *)
(* names.                                                                  *)
(*                                                                         *)
(* The clock never stops, and the states are still finitely many: what the *)
(* code does depends on how far its dates lie from each other, never on    *)
(* what the clock shows, so that all of them may be moved back together.   *)
(* The bound is how far the clock runs ahead of the oldest date in use.    *)
(***************************************************************************)
EXTENDS CpuLoop, MCProcessor

CONSTANTS uart, tcu, wdt,
          MaxAhead  \* bound: ms from the oldest date in use to rt_clock

VARIABLE focus
mcVars == <<focus, vars, interpVars>>

MCTimers == {uart, tcu, wdt}
MCGuestTimers == {tcu, wdt}
MCBootTimers == {uart}
MCPeriod == [t \in MCTimers |-> IF t = uart THEN 2 ELSE 1]

-----------------------------------------------------------------------------
Tick == time < MaxAhead /\ ClockTick

(* The dates some step may still read.  A round's is spent once it is the  *)
(* oldest of them: nothing is left for the round to fire.                  *)
Dates ==
    {time} \cup {expire[t] : t \in {u \in Timers : Linked(u)}}
        \cup (IF \E t \in Timers : Reached(t) THEN {horizon} ELSE {})
        \cup (IF thread = "link" THEN {due} ELSE {})

Surplus == Min(Dates) - 1

(* Not a step of the program: every date in use is set back by as much.    *)
Transposes ==
    /\ time = MaxAhead /\ Surplus > 0
    /\ time' = time - Surplus
    /\ expire' = [t \in Timers |-> IF Linked(t) THEN expire[t] - Surplus ELSE 0]
    /\ horizon' = IF horizon = Off THEN Off ELSE Max({0, horizon - Surplus})
    /\ due' = IF thread = "link" THEN due - Surplus ELSE 0
    /\ UNCHANGED <<active, target, state, pause, status, thread, alarm, boot>>

Looping(Step) ==
    focus = "loop" /\ Step /\ UNCHANGED <<focus, interpVars>>
Running == focus = "program" /\ InterpNext /\ UNCHANGED <<focus, vars>>

MCInit ==
    /\ focus \in {"loop", "program"}
    /\ Init /\ InterpInit
    /\ focus = "loop" => text = End

(* The emulator has exited, or the program has left its text.              *)
Over == /\ focus = "program"
        /\ done \/ (pc # Vector /\ ~Within(text, pc))
        /\ UNCHANGED mcVars

MCNext == Looping(Tick \/ Transposes \/ Main \/ Alarm \/ Cpu) \/ Running \/ Over

MCSpec == /\ MCInit /\ [][MCNext]_mcVars
          /\ WF_mcVars(Looping(Main)) /\ WF_mcVars(Looping(Cpu))
          /\ WF_mcVars(Looping(Alarm))

(* The loop comes back to a guest instruction for ever, unless the alarm   *)
(* signal asks for a round between Resume and the loop's test every time.  *)
GuestRunsOn == focus = "loop" => GuestProgress

=============================================================================
