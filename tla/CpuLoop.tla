------------------------------- MODULE CpuLoop -------------------------------
(***************************************************************************)
(* The scheduling core of the emulator: the CPU thread's main loop         *)
(* (mips64_fdd.c), the host alarm signal that asks it to pause             *)
(* (mips64_hostalarm.c), the timer list it serves while paused             *)
(* (vp_timer.c), the main thread that boots the board (main.c, pavo.c,     *)
(* jz4740.c) and the watchdog that resets it from inside a timer callback. *)
(*                                                                         *)
(* cpu->state and cpu->pause_request are plain shared fields; nothing is   *)
(* locked.  Each action is a stretch of code in which one thread touches   *)
(* shared memory once, or touches only what no other thread reads then.    *)
(*                                                                         *)
(* Guest instructions appear as what they do to timers: a store to a       *)
(* device register arms or cancels one.  What devices and interrupts do    *)
(* besides is the business of the other modules.                           *)
(***************************************************************************)
EXTENDS TimerQueue

CONSTANTS
    Timers,      \* all the timers created by dev_*_init
    GuestTimers, \* those a guest store to a device register arms or cancels
    BootTimers,  \* those armed by their dev_*_init (the UARTs)
    Watchdog,    \* the timer whose callback may reset the board
    Period,      \* ms after which a timer's callback is due again
    Off          \* no round of callbacks is in progress

ASSUME TimersAssumption ==
    /\ GuestTimers \subseteq Timers
    /\ BootTimers \subseteq Timers
    /\ Watchdog \in Timers
ASSUME PeriodAssumption == Period \in [Timers -> Nat \ {0}]
ASSUME TimeAssumption == Off \notin Int

VARIABLES
    time,      \* rt_clock, in ms
    active,    \* active_timers[VP_TIMER_REALTIME], as a sequence of timers
    expire,    \* the expire_time field of every timer
    state,     \* cpu->state
    pause,     \* CPU_INTERRUPT_EXIT in cpu->pause_request
    status,    \* vm->status
    thread,    \* where the CPU thread is
    horizon,   \* current_time of the vp_run_timers call in progress, or Off
    target,    \* the timer being fired or moved by the CPU thread
    due,       \* the expire_time argument of the vp_mod_timer in progress
    alarm,     \* where the host alarm handler is
    boot       \* where the main thread is

vars == <<time, active, expire, state, pause, status, thread, horizon,
          target, due, alarm, boot>>

timerVars == <<active, expire, horizon, target, due>>

CpuStates == {"SUSPENDED", "RUNNING", "PAUSING", "RESTARTING"}

ThreadPoints == {"none", "loop", "exec", "switch", "timers", "callback",
                 "reset", "link", "resume"}

Linked(t) == Contains(active, t)

-----------------------------------------------------------------------------
(* vp_mod_timer in two halves.  The list is shared with the alarm handler, *)
(* which looks at its head between any two of the CPU thread's stores.     *)

(* Variant: the insertion without the vp_del_timer in front of it.         *)
BeginModTimerStillLinked(t) ==
    /\ UNCHANGED active
    /\ target' = t
    /\ due' = time + Period[t]

BeginModTimer(t) ==
    /\ active' = Unlink(active, t)
    /\ target' = t
    /\ due' = time + Period[t]

FinishModTimer ==
    /\ active' = Link(active, expire, target, due)
    /\ expire' = [expire EXCEPT ![target] = due]

-----------------------------------------------------------------------------
Init ==
    /\ time = 0
    /\ active = <<>>
    /\ expire = [t \in Timers |-> 0]
    /\ state = "SUSPENDED"
    /\ pause = FALSE
    /\ status = "HALTED"
    /\ thread = "none"
    /\ horizon = Off
    /\ target = Off
    /\ due = 0
    /\ alarm = "idle"
    /\ boot = "platform"

(* CLOCK_MONOTONIC: time passes between any two steps of any thread.       *)
ClockTick ==
    /\ time' = time + 1
    /\ UNCHANGED <<timerVars, state, pause, status, thread, alarm, boot>>

-----------------------------------------------------------------------------
(* The main thread: pavo_init_platform starts the CPU thread first, with   *)
(* cpu->state SUSPENDED, and builds the board while that thread spins.     *)

MainSpawnsCpu ==
    /\ boot = "platform"
    /\ boot' = "devices"
    /\ thread' = "loop"
    /\ UNCHANGED <<time, timerVars, state, pause, status, alarm>>

(* dev_*_init of one device that arms its timer as it is created.          *)
MainArms(t) ==
    /\ boot = "devices"
    /\ t \in BootTimers /\ ~Linked(t)
    /\ active' = Link(active, expire, t, time + Period[t])
    /\ expire' = [expire EXCEPT ![t] = time + Period[t]]
    /\ UNCHANGED <<time, horizon, target, due, state, pause, status, thread,
                   alarm, boot>>

(* jz4740_reset up to vm->status: the CPU and the devices are reset and    *)
(* the first pages of flash are copied to RAM.                             *)
MainResetsBoard ==
    /\ boot = "devices"
    /\ \A t \in BootTimers : Linked(t)
    /\ boot' = "start"
    /\ status' = "RUNNING"
    /\ UNCHANGED <<time, timerVars, state, pause, thread, alarm>>

MainStartsCpu ==
    /\ boot = "start"
    /\ boot' = "monitor"
    /\ state' = "RUNNING"
    /\ UNCHANGED <<time, timerVars, pause, status, thread, alarm>>

Main == (\E t \in BootTimers : MainArms(t))
        \/ MainSpawnsCpu \/ MainResetsBoard \/ MainStartsCpu

-----------------------------------------------------------------------------
(* host_alarm_handler, run by a periodic signal in whichever thread the    *)
(* host picks once the CPU thread has installed it.  It reads cpu->state,  *)
(* then the list, then stores the request.                                 *)

AlarmEnter ==
    /\ thread # "none"
    /\ alarm = "idle"
    /\ state = "RUNNING"
    /\ alarm' = "look"
    /\ UNCHANGED <<time, timerVars, state, pause, status, thread, boot>>

AlarmLook ==
    /\ alarm = "look"
    /\ alarm' = IF HeadExpired(active, expire, time) THEN "request" ELSE "idle"
    /\ UNCHANGED <<time, timerVars, state, pause, status, thread, boot>>

AlarmRequest ==
    /\ alarm = "request"
    /\ pause' = TRUE
    /\ alarm' = "idle"
    /\ UNCHANGED <<time, timerVars, state, status, thread, boot>>

Alarm == AlarmEnter \/ AlarmLook \/ AlarmRequest

-----------------------------------------------------------------------------
(* The top of the for loop of mips64_cpu_fdd.  Once the board is started   *)
(* only the CPU thread stores to cpu->state, so testing it and acting on   *)
(* the test are one step.                                                  *)

LoopLeave ==
    /\ thread = "loop"
    /\ state # "RUNNING"
    /\ thread' = "switch"
    /\ UNCHANGED <<time, timerVars, state, pause, status, alarm, boot>>

LoopPause ==
    /\ thread = "loop"
    /\ state = "RUNNING"
    /\ pause
    /\ state' = "PAUSING"
    /\ thread' = "switch"
    /\ UNCHANGED <<time, timerVars, pause, status, alarm, boot>>

(* Variant: the loop that tests pause_request alone.                       *)
LoopExecUntested ==
    /\ thread = "loop"
    /\ ~pause
    /\ thread' = "exec"
    /\ UNCHANGED <<time, timerVars, state, pause, status, alarm, boot>>

LoopExec ==
    /\ thread = "loop"
    /\ state = "RUNNING"
    /\ ~pause
    /\ thread' = "exec"
    /\ UNCHANGED <<time, timerVars, state, pause, status, alarm, boot>>

(* A guest instruction (or an interrupt taken instead of one) that moves   *)
(* no timer.                                                               *)
ExecOther ==
    /\ thread = "exec"
    /\ thread' = "loop"
    /\ UNCHANGED <<time, timerVars, state, pause, status, alarm, boot>>

(* A guest store that enables a timer: dev_*_active_*.                     *)
ExecArm(t) ==
    /\ thread = "exec"
    /\ BeginModTimer(t)
    /\ thread' = "link"
    /\ UNCHANGED <<time, expire, horizon, state, pause, status, alarm, boot>>

(* A guest store that disables a timer: dev_*_unactive_*.                  *)
ExecCancel(t) ==
    /\ thread = "exec"
    /\ active' = Unlink(active, t)
    /\ thread' = "loop"
    /\ UNCHANGED <<time, expire, horizon, target, due, state, pause, status,
                   alarm, boot>>

(* The second half of vp_mod_timer, back to the guest or to the round.     *)
LinkTarget ==
    /\ thread = "link"
    /\ FinishModTimer
    /\ target' = Off
    /\ due' = 0
    /\ thread' = IF horizon = Off THEN "loop" ELSE "timers"
    /\ UNCHANGED <<time, horizon, state, pause, status, alarm, boot>>

-----------------------------------------------------------------------------
(* The switch after the for loop.  SUSPENDED and RESTARTING have no case   *)
(* that leaves it: the thread spins, which is a stuttering step.           *)

SwitchRun ==
    /\ thread = "switch"
    /\ state = "RUNNING"
    /\ thread' = "loop"
    /\ UNCHANGED <<time, timerVars, state, pause, status, alarm, boot>>

SwitchPause ==
    /\ thread = "switch"
    /\ state = "PAUSING"
    /\ horizon' = time
    /\ thread' = "timers"
    /\ UNCHANGED <<time, active, expire, target, due, state, pause, status,
                   alarm, boot>>

(* Variant: a round that reads the clock again for every timer.            *)
RunTimerRereadsClock ==
    /\ thread = "timers"
    /\ HeadExpired(active, expire, time)
    /\ target' = Head(active)
    /\ active' = Tail(active)
    /\ thread' = "callback"
    /\ UNCHANGED <<time, expire, horizon, due, state, pause, status, alarm,
                   boot>>

(* vp_run_timers: the head is unlinked before its callback runs.           *)
RunTimer ==
    /\ thread = "timers"
    /\ HeadExpired(active, expire, horizon)
    /\ target' = Head(active)
    /\ active' = Tail(active)
    /\ thread' = "callback"
    /\ UNCHANGED <<time, expire, horizon, due, state, pause, status, alarm,
                   boot>>

(* Every device's callback ends by arming its own timer again.             *)
CallbackRearms ==
    /\ thread = "callback"
    /\ BeginModTimer(target)
    /\ thread' = "link"
    /\ UNCHANGED <<time, expire, horizon, state, pause, status, alarm, boot>>

(* dev_jz4740_wdt_cb past TDR: cpu_restart, then jz4740_reset, whose first *)
(* half suspends the VM and whose second half starts it again.             *)
WatchdogBites ==
    /\ thread = "callback"
    /\ target = Watchdog
    /\ state' = "RESTARTING"
    /\ status' = IF status = "RUNNING" THEN "SUSPENDED" ELSE status
    /\ thread' = "reset"
    /\ UNCHANGED <<time, timerVars, pause, alarm, boot>>

WatchdogRestarts ==
    /\ thread = "reset"
    /\ status' = "RUNNING"
    /\ state' = "RUNNING"
    /\ BeginModTimer(target)
    /\ thread' = "link"
    /\ UNCHANGED <<time, expire, horizon, pause, alarm, boot>>

(* Variant: the round that forgets its current_time outlives it.           *)
RoundEndsOpen ==
    /\ thread = "timers"
    /\ ~HeadExpired(active, expire, horizon)
    /\ state' = "RUNNING"
    /\ thread' = "resume"
    /\ UNCHANGED <<time, timerVars, pause, status, alarm, boot>>

(* Variant: cpu->state is not set back to RUNNING after the round.         *)
RoundEndsPaused ==
    /\ thread = "timers"
    /\ ~HeadExpired(active, expire, horizon)
    /\ horizon' = Off
    /\ thread' = "resume"
    /\ UNCHANGED <<time, active, expire, target, due, state, pause, status,
                   alarm, boot>>

RoundEnds ==
    /\ thread = "timers"
    /\ ~HeadExpired(active, expire, horizon)
    /\ horizon' = Off
    /\ state' = "RUNNING"
    /\ thread' = "resume"
    /\ UNCHANGED <<time, active, expire, target, due, pause, status, alarm,
                   boot>>

(* pause_request &= ~CPU_INTERRUPT_EXIT, after cpu->state is RUNNING again *)
(* and the alarm has had a chance to ask for the next round.               *)
Resume ==
    /\ thread = "resume"
    /\ pause' = FALSE
    /\ thread' = "loop"
    /\ UNCHANGED <<time, timerVars, state, status, alarm, boot>>

Cpu ==
    \/ LoopLeave \/ LoopPause \/ LoopExec
    \/ ExecOther
    \/ \E t \in GuestTimers : ExecArm(t) \/ ExecCancel(t)
    \/ LinkTarget
    \/ SwitchRun \/ SwitchPause
    \/ RunTimer \/ CallbackRearms \/ WatchdogBites \/ WatchdogRestarts
    \/ RoundEnds \/ Resume

Next == ClockTick \/ Main \/ Alarm \/ Cpu

(* The host runs both threads, and the periodic signal keeps coming.       *)
Spec == /\ Init /\ [][Next]_vars
        /\ WF_vars(Main) /\ WF_vars(Cpu) /\ WF_vars(Alarm)

-----------------------------------------------------------------------------
(* Types, with what the position of the CPU thread says of its locals: a   *)
(* round has a horizon until it ends, and only the code inside a callback  *)
(* or vp_mod_timer has a timer in hand.                                    *)
TypeOK ==
    /\ time \in Nat
    /\ active \in Seq(Timers)
    /\ expire \in [Timers -> Nat]
    /\ state \in CpuStates
    /\ pause \in BOOLEAN
    /\ status \in {"HALTED", "SUSPENDED", "RUNNING"}
    /\ thread \in ThreadPoints
    /\ horizon \in (0..time) \cup {Off}
    /\ thread \in {"timers", "callback", "reset"} => horizon # Off
    /\ horizon # Off => thread \in {"timers", "callback", "reset", "link"}
    /\ thread \in {"callback", "reset", "link"} => target \in Timers
    /\ thread \notin {"callback", "reset", "link"} => target = Off
    /\ due \in Nat
    /\ alarm \in {"idle", "look", "request"}
    /\ boot \in {"platform", "devices", "start", "monitor"}

(* The comment in vp_del_timer and vp_mod_timer asks them to be signal     *)
(* safe: at every store the alarm handler can interrupt, the list has no   *)
(* cycle and its head is an earliest timer.                                *)
ListSound == Linear(active) /\ Ordered(active, expire)

(* The CPU thread runs while the board is still being built; it executes   *)
(* no instruction before the devices, the IRQ routing and the boot code    *)
(* are there, and none while the watchdog is resetting them.               *)
ExecOnlyOnRunningBoard ==
    thread = "exec" => boot = "monitor" /\ status = "RUNNING"

(* cpu->state PAUSING or RESTARTING is never left behind: outside of the   *)
(* round that set it the CPU thread is RUNNING, so it cannot end up        *)
(* spinning in the switch, nor can the alarm handler stay disabled.        *)
PausedOnlyInRound ==
    /\ state = "PAUSING" =>
           thread \in {"switch", "timers", "callback", "link"}
    /\ state = "RESTARTING" => thread = "reset"

(* The list serves its timers as Deadlines promises: a linked timer is an  *)
(* armed one, its expire_time says when it is due, and a round has to fire *)
(* those its current_time has reached.                                     *)
LeftOf(t) == IF Linked(t) THEN expire[t] - time ELSE Off

Reached(t) == horizon # Off /\ Linked(t) /\ expire[t] <= horizon

Abstract == INSTANCE Deadlines WITH
    left <- [t \in Timers |-> LeftOf(t)],
    open <- horizon # Off,
    serving <- {t \in Timers : Reached(t)}

ImplementsDeadlines == Abstract!Spec

(* A linked timer that is due is fired, moved or cancelled in the end,     *)
(* whatever requests the CPU thread wipes out as it resumes and however    *)
(* the handler's three steps fall among its own.                           *)
DueServed ==
    \A t \in Timers :
        (Linked(t) /\ expire[t] <= time) ~> ~(Linked(t) /\ expire[t] <= time)

(* The guest keeps executing: no round goes on for ever, though its        *)
(* callbacks arm timers while the clock runs, and no request outlives the  *)
(* round it asked for.  Only the alarm signal can keep the guest from its  *)
(* next instruction, and only by storing a fresh request, round after      *)
(* round, between the two statements that drop the last one and test it.   *)
RequestInTheGap == AlarmRequest /\ thread = "loop"

GuestProgress == []<>(thread = "exec") \/ []<><<RequestInTheGap>>_vars

=============================================================================
