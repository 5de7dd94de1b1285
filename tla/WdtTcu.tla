-------------------------------- MODULE WdtTcu --------------------------------
(***************************************************************************)
(* The watchdog and the timer/counter unit (jz4740_dev_wdt_tcu.c), and     *)
(* the board's reset that the watchdog asks for (jz4740.c).                *)
(*                                                                         *)
(* A register with set and clear addresses is a set of bits: "t0" is       *)
(* timer 0's stop or enable bit, "wdt" the watchdog's, "full" and "half"   *)
(* timer 0's matches.  Both host timers are polled every 10 ms on the      *)
(* CPU thread, where the guest's accesses are made too.                    *)
(***************************************************************************)
EXTENDS Naturals

CONSTANTS
    TcuModulus, \* 2^16, the width of a counter
    Rates,      \* what a clock and a prescaler add to a counter in 10 ms
    Fulls,      \* values for TDFR0
    WdtLimit    \* the values of WDT_TCNT and WDT_TDR are up to it (bound)

ASSUME WdtTcuAssumption ==
    /\ TcuModulus \in Nat \ {0, 1} /\ WdtLimit \in Nat \ {0}
    /\ Rates \subseteq Nat /\ Fulls \subseteq 1..(TcuModulus - 1)

VARIABLES
    tcu,    \* timer 0: its registers, and whether its host timer is armed
    wdt,    \* the watchdog: the same
    orphan, \* the board was reset while timer 0 was armed, and not since stopped
    told    \* IRQ_TCU0 was asked for by the last poll

tcuVars == <<tcu, wdt, orphan, told>>

(* dev_jz4740_wdt_tcu_init_defaultvalue; a match is due at the first tick. *)
TcuDefault(rate, armed) ==
    [stop |-> {}, enable |-> {}, flag |-> {}, mask |-> {}, rate |-> rate,
     count |-> TcuModulus - 2, half |-> TcuModulus - 2,
     full |-> TcuModulus - 1, armed |-> armed]
WdtDefault(rate, armed) ==
    [enable |-> FALSE, count |-> 0, limit |-> 0, rate |-> rate,
     armed |-> armed]

TcuInit ==
    /\ tcu = TcuDefault(0, FALSE) /\ wdt = WdtDefault(0, FALSE)
    /\ orphan = FALSE /\ told = FALSE

TcuTypeOK ==
    /\ tcu.stop \subseteq {"t0", "wdt"} /\ tcu.enable \subseteq {"t0"}
    /\ tcu.flag \cup tcu.mask \subseteq {"full", "half"}
    /\ tcu.count \in 0..(TcuModulus - 1) /\ tcu.rate \in Rates \cup {0}
    /\ wdt.count \in 0..(2 * WdtLimit) /\ wdt.limit \in 0..WdtLimit

-----------------------------------------------------------------------------
(* dev_jz4740_tcu_active_timer0, _unactive_timer0 and the watchdog's pair. *)
Start(t) == [t EXCEPT !.armed = TRUE]
(* Variant: the host's timer goes on.                                      *)
StopNothing(t) == t

Stop(t)  == [t EXCEPT !.armed = FALSE]

(* (!TSR & 0x01) is 1 only when no bit of TSR is set: timer 0 is not       *)
(* started while the watchdog is stopped.                                  *)
MayStart(t) == t.stop = {} /\ "t0" \in t.enable
StartedIf(t) == IF MayStart(t) THEN Start(t) ELSE t

WdtRuns(t, w) == w.enable /\ "wdt" \notin t.stop

(* TCU_TSSR and TCU_TSCR.                                                  *)
WritesStopSet ==
    \E b \in SUBSET {"t0", "wdt"} :
        LET t == [tcu EXCEPT !.stop = @ \cup b]
        IN  /\ tcu' = IF "t0" \in t.stop THEN Stop(t) ELSE t
            /\ wdt' = IF "wdt" \in t.stop THEN Stop(wdt) ELSE wdt
            /\ orphan' = (orphan /\ "t0" \notin t.stop)
            /\ UNCHANGED told
WritesStopClear ==
    \E b \in SUBSET {"t0", "wdt"} :
        LET t == [tcu EXCEPT !.stop = @ \ b]
        IN  /\ tcu' = StartedIf(t)
            /\ wdt' = IF WdtRuns(t, wdt) THEN Start(wdt) ELSE wdt
            /\ UNCHANGED <<orphan, told>>

(* TCU_TESR and TCU_TECR, for timer 0 or for another.                      *)
WritesEnableSet ==
    \E b \in SUBSET {"t0"} :
        /\ tcu' = StartedIf([tcu EXCEPT !.enable = @ \cup b])
        /\ UNCHANGED <<wdt, orphan, told>>
WritesEnableClear ==
    \E b \in SUBSET {"t0"} :
        LET t == [tcu EXCEPT !.enable = @ \ b]
        IN  /\ tcu' = IF "t0" \in t.enable THEN t ELSE Stop(t)
            /\ orphan' = (orphan /\ "t0" \in t.enable)
            /\ UNCHANGED <<wdt, told>>

(* TCU_TFCR, TCU_TMSR and TCU_TMCR.                                        *)
WritesFlagClear ==
    \E b \in {{"full"}, {"half"}} :
        tcu' = [tcu EXCEPT !.flag = @ \ b] /\ UNCHANGED <<wdt, orphan, told>>
WritesMask ==
    \E b \in {{"full"}, {"half"}} :
        /\ \/ tcu' = [tcu EXCEPT !.mask = @ \cup b]
           \/ tcu' = [tcu EXCEPT !.mask = @ \ b]
        /\ UNCHANGED <<wdt, orphan, told>>

(* TCU_TCSR0, whose clock outlives a reset, TDFR0 and TDHR0, or TCNT0.     *)
WritesTimer ==
    /\ \/ \E r \in Rates : tcu' = [tcu EXCEPT !.rate = r]
       \/ \E f \in Fulls : tcu' = [tcu EXCEPT !.full = f, !.half = f - 1]
       \/ tcu' = [tcu EXCEPT !.count = 0]
    /\ UNCHANGED <<wdt, orphan, told>>

(* WDT_TCSR and WDT_TDR, then WDT_TCNT: the guest feeds the watchdog.      *)
WritesWdt ==
    /\ \/ \E n \in 1..WdtLimit : wdt' = [wdt EXCEPT !.limit = n, !.rate = 1]
       \/ wdt' = [wdt EXCEPT !.count = 0]
    /\ UNCHANGED <<tcu, orphan, told>>

(* WDT_TCER.                                                               *)
WritesWdtEnable ==
    \E on \in BOOLEAN :
        LET w == [wdt EXCEPT !.enable = on]
        IN  /\ wdt' = IF WdtRuns(tcu, w) THEN Start(w) ELSE Stop(w)
            /\ UNCHANGED <<tcu, orphan, told>>

-----------------------------------------------------------------------------
(* dev_jz4740_tcu_cb: half match, full match, each with its mask, and the  *)
(* timer is armed again whatever the registers say.                        *)
Counted == (tcu.count + tcu.rate) % TcuModulus
Matches(n) ==
    {b \in {"full", "half"} : n >= (IF b = "full" THEN tcu.full ELSE tcu.half)}

TcuPoll ==
    /\ tcu.armed
    /\ LET hit == Matches(Counted)
       IN  /\ tcu' = Start([tcu EXCEPT
                               !.flag = @ \cup hit,
                               !.count = IF "full" \in hit THEN 0 ELSE Counted])
           /\ told' = (hit \ tcu.mask # {})
    /\ UNCHANGED <<wdt, orphan>>

(* jz4740_reset: every device's registers take their defaults; the host    *)
(* timers and the clocks are not among them.                               *)
TcuReset ==
    /\ tcu' = TcuDefault(tcu.rate, tcu.armed)
    /\ wdt' = Start(WdtDefault(wdt.rate, TRUE))
    /\ orphan' = tcu.armed
    /\ told' = FALSE

(* dev_jz4740_wdt_cb.                                                      *)
WdtPoll ==
    /\ wdt.armed
    /\ LET n == wdt.count + wdt.rate
       IN  IF WdtRuns(tcu, wdt) /\ n >= wdt.limit
           THEN TcuReset
           ELSE /\ wdt' = Start(IF WdtRuns(tcu, wdt)
                                THEN [wdt EXCEPT !.count = n] ELSE wdt)
                /\ UNCHANGED <<tcu, orphan, told>>

TcuNext ==
    \/ WritesStopSet \/ WritesStopClear \/ WritesEnableSet
    \/ WritesEnableClear \/ WritesFlagClear \/ WritesMask \/ WritesTimer
    \/ WritesWdt \/ WritesWdtEnable \/ TcuPoll \/ WdtPoll

TcuSpec == TcuInit /\ [][TcuNext]_tcuVars

-----------------------------------------------------------------------------
(* The host timers follow the registers that four addresses change: timer  *)
(* 0's is armed when it is enabled and nothing is stopped, and only when   *)
(* it is enabled and not stopped or a reset of the board forgot it; the    *)
(* watchdog's is armed when the watchdog counts.                           *)
TimersFollow ==
    /\ "t0" \in tcu.enable /\ tcu.stop = {} => tcu.armed
    /\ tcu.armed => orphan \/ ("t0" \in tcu.enable /\ "t0" \notin tcu.stop)
    /\ WdtRuns(tcu, wdt) => wdt.armed
=============================================================================
