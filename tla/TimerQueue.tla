----------------------------- MODULE TimerQueue -----------------------------
(***************************************************************************)
(* The active-timer list of src/emulator/utils/vp_timer.c as operators.    *)
(*                                                                         *)
(* A list is the sequence of timers reached from active_timers[type] along *)
(* the `next` pointers; `expire` is the expire_time field of every timer,  *)
(* linked or not.  The operators take both, so a module that keeps them as *)
(* variables can update them together or, as the C code does, apart.       *)
(***************************************************************************)
EXTENDS Integers, SequencesExt

(* No timer is linked twice, so the `next` pointers form no cycle.         *)
Linear(q) == \A i, j \in 1..Len(q) : q[i] = q[j] => i = j

(* The list is in non-decreasing order of expire_time.                     *)
Ordered(q, expire) ==
    \A i, j \in 1..Len(q) : i < j => expire[q[i]] <= expire[q[j]]

(* vp_del_timer: unlink the first node that is t, if there is one.         *)
Position(q, t) ==
    CHOOSE i \in 1..Len(q) : q[i] = t /\ \A j \in 1..(i - 1) : q[j] # t

Unlink(q, t) == IF Contains(q, t) THEN RemoveAt(q, Position(q, t)) ELSE q

(* The insertion loop of vp_mod_timer: walk past every node whose          *)
(* expire_time is not later than e, so equal times keep arming order.      *)
Slot(q, expire, e) ==
    CHOOSE i \in 1..(Len(q) + 1) :
        /\ \A j \in 1..(i - 1) : expire[q[j]] <= e
        /\ i <= Len(q) => expire[q[i]] > e

Link(q, expire, t, e) == InsertAt(q, Slot(q, expire, e), t)

(* Variant: a timer is due only at its exact expire_time.                  *)
HeadExpiredExactly(q, expire, time) == q # <<>> /\ expire[Head(q)] = time

(* vp_timer_expired, which vp_run_timers and the host alarm both apply to  *)
(* the head of the list.                                                   *)
HeadExpired(q, expire, time) == q # <<>> /\ expire[Head(q)] <= time

=============================================================================
