------------------------------ MODULE Deadlines ------------------------------
(***************************************************************************)
(* What the timer service promises its devices, with no list, no threads   *)
(* and no host signal: a timer is armed for a deadline, cancelled, or      *)
(* fired.  Timers fire in rounds.  A round serves the timers that are due  *)
(* when it opens, an earliest deadline first; it may be closed only when   *)
(* it has served them all, and what its callbacks arm waits for another.   *)
(*                                                                         *)
(* A deadline is told from now on, in ms, and negative once it is past;    *)
(* the clock itself is nothing a device sees.                              *)
(*                                                                         *)
(* CpuLoop, the model of the code, is shown to implement this module.      *)
(***************************************************************************)
EXTENDS Integers

CONSTANTS Timers,  \* the timers devices create
          Off      \* not armed

VARIABLES left,    \* [Timers -> Int \cup {Off}]: how far the deadline is
          open,    \* a round is being served
          serving  \* the timers it still has to fire

vars == <<left, open, serving>>

Armed == {t \in Timers : left[t] # Off}
DueNow == {t \in Armed : left[t] <= 0}

Init ==
    /\ left = [t \in Timers |-> Off]
    /\ open = FALSE
    /\ serving = {}

(* One ms later every deadline is one ms nearer, or further in the past.   *)
Advance ==
    /\ left' = [t \in Timers |-> IF left[t] = Off THEN Off ELSE left[t] - 1]
    /\ UNCHANGED <<open, serving>>

(* A deadline is always set on an idle timer; re-arming is Cancel, Arm.    *)
Arm(t) ==
    /\ left[t] = Off
    /\ left'[t] \in Int
    /\ left' = [left EXCEPT ![t] = left'[t]]
    /\ UNCHANGED <<open, serving>>

Cancel(t) ==
    /\ left[t] # Off
    /\ ~open
    /\ left' = [left EXCEPT ![t] = Off]
    /\ UNCHANGED <<open, serving>>

OpenRound ==
    /\ ~open
    /\ open' = TRUE
    /\ serving' = DueNow
    /\ UNCHANGED left

Fire(t) ==
    /\ t \in serving
    /\ \A u \in Armed : left[t] <= left[u]
    /\ left' = [left EXCEPT ![t] = Off]
    /\ serving' = serving \ {t}
    /\ UNCHANGED open

CloseRound ==
    /\ open
    /\ serving = {}
    /\ open' = FALSE
    /\ UNCHANGED <<left, serving>>

Next ==
    \/ Advance
    \/ OpenRound
    \/ CloseRound
    \/ \E t \in Timers : Arm(t) \/ Cancel(t) \/ Fire(t)

Spec == Init /\ [][Next]_vars

=============================================================================
