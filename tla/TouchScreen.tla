----------------------------- MODULE TouchScreen -----------------------------
(***************************************************************************)
(* The touch screen (jz4740_dev_ts.c), which takes the mouse's events from *)
(* the host's window (utils/sdl) when a host timer polls it.  Coordinates  *)
(* are the window's units.                                                 *)
(***************************************************************************)
EXTENDS Naturals, Sequences

CONSTANTS
    WindowWidths, \* the window's width, which the LCD has set
    TsMax,        \* TSMAXX
    MaxTouches,   \* events of the mouse (bound)
    MaxReads      \* halves of samples read (bound)

ASSUME TouchScreenAssumption ==
    /\ WindowWidths \subseteq Nat \ {0} /\ TsMax \in Nat \ {0}
    /\ MaxTouches \in Nat

VARIABLES
    ts,      \* ENA, CTRL, STATE, snum, read_index, x, armed
    events,  \* SDL's queue
    width, touches,
    user,    \* the guest's driver: it has set CFG; what it has read since
    tsTold   \* the last step asked for IRQ_SADC

tsVars == <<ts, events, width, touches, user, tsTold>>

Booted == [set |-> FALSE, read |-> << >>]

TsInit ==
    /\ ts = [on |-> FALSE, mask |-> {}, state |-> {}, xyz |-> FALSE, snum |-> 0,
             index |-> 0, x |-> 0, armed |-> FALSE]
    /\ events = << >> /\ touches = 0 /\ width \in WindowWidths
    /\ user = Booted /\ tsTold = FALSE

TsTypeOK ==
    /\ ts.state \subseteq {"PEND", "PENU", "TSRDY"}
    /\ (ts.index = 0 \/ ts.index < ts.snum) /\ ts.x \in 0..TsMax
    /\ Len(events) <= MaxTouches

-----------------------------------------------------------------------------
(* The user.                                                               *)
MouseMoves ==
    /\ touches < MaxTouches
    /\ touches' = touches + 1
    /\ \E e \in {"down", "other"}, x \in 0..(width - 1) :
           events' = Append(events, [type |-> e, x |-> x])
    /\ UNCHANGED <<ts, width, user, tsTold>>

(* sdl_getmouse_down takes one event, and drops it when it is another.     *)
PenDown ==
    "PENDM" \notin ts.mask /\ events # << >> /\ Head(events).type = "down"
Scaled(x) == IF (x * TsMax) \div width > TsMax THEN TsMax
             ELSE (x * TsMax) \div width

(* The LCD gives the window another width; what is in SDL's queue stays.   *)
WindowResizes ==
    /\ width' \in WindowWidths
    /\ tsTold' = FALSE
    /\ UNCHANGED <<ts, events, touches, user>>

(* dev_jz4740_ts_cb: the pen is up whenever no sample is half read.        *)
PenUp == "PENUM" \notin ts.mask /\ ts.index = 0

TsPoll ==
    /\ ts.armed
    /\ ts' = IF ~ts.on THEN ts
             ELSE [ts EXCEPT
                     !.x = IF PenDown THEN Scaled(Head(events).x) ELSE @,
                     !.state = @ \cup (IF PenDown THEN {"PEND", "TSRDY"} ELSE {})
                                 \cup (IF PenUp THEN {"PENU", "TSRDY"} ELSE {})]
    /\ tsTold' = (ts.on /\ (PenDown \/ PenUp))
    /\ events' = IF ts.on /\ "PENDM" \notin ts.mask /\ events # << >>
                 THEN Tail(events) ELSE events
    /\ UNCHANGED <<width, touches, user>>

(* SADC_ENA and SADC_CTRL.                                                 *)
WritesSadc ==
    /\ tsTold' = FALSE
    /\ \/ ts' = [ts EXCEPT !.on = TRUE, !.armed = TRUE]
       \/ \E b \in SUBSET {"PENDM", "PENUM"} : ts' = [ts EXCEPT !.mask = b]
    /\ UNCHANGED <<events, width, touches, user>>

(* SADC_CFG: with XYZ a sample is read twice, its position and its         *)
(* pressure.                                                               *)
WritesSadcCfg ==
    /\ \E n \in 1..2, z \in BOOLEAN :
           ts' = [ts EXCEPT !.xyz = z, !.snum = IF z THEN 2 * n ELSE n,
                            !.index = 0]
    /\ user' = [set |-> TRUE, read |-> << >>] /\ tsTold' = FALSE
    /\ UNCHANGED <<events, width, touches>>

(* A store to SADC_STATE complements what is stored: the bits to clear are *)
(* cleared, and every other one is set.                                    *)
WritesSadcState ==
    /\ tsTold' = FALSE
    /\ \E b \in {{"PEND"}, {"PENU"}, {"PEND", "PENU", "TSRDY"}} :
           ts' = [ts EXCEPT !.state = {"PEND", "PENU", "TSRDY"} \ b]
    /\ UNCHANGED <<events, width, touches, user>>

(* SADC_TSDAT.                                                             *)

(* Variant: one past the end.                                              *)
NextSampleLate(i, snum) == IF i = snum THEN 0 ELSE i + 1

NextSample(i, snum) == IF i + 1 = snum THEN 0 ELSE i + 1

(* A position or a pressure.                                               *)
Kind(i) == IF i % 2 = 0 THEN "position" ELSE "pressure"
ReadsSample ==
    /\ ts.on /\ user.set /\ Len(user.read) < MaxReads
    /\ user' = [user EXCEPT !.read = Append(@, Kind(ts.index))]
    /\ ts' = [ts EXCEPT !.index = NextSample(@, ts.snum)]
    /\ tsTold' = FALSE
    /\ UNCHANGED <<events, width, touches>>

(* The board's reset clears the registers; the host's timer, the format    *)
(* and the place in a sample stay, until the guest boots and sets CFG.     *)
TsReset ==
    /\ ts' = [ts EXCEPT !.on = FALSE, !.mask = {}, !.state = {}]
    /\ user' = Booted /\ tsTold' = FALSE
    /\ UNCHANGED <<events, width, touches>>

TsNext ==
    \/ MouseMoves \/ TsPoll \/ WritesSadc \/ WritesSadcCfg \/ WritesSadcState
    \/ ReadsSample \/ TsReset \/ WindowResizes

TsSpec == TsInit /\ [][TsNext]_tsVars

-----------------------------------------------------------------------------
(* A driver that reads position and pressure in turn gets them in turn,    *)
(* from sample to sample, whatever polls and resets come between, and a    *)
(* pen-up interrupt never comes in the middle of a sample.                 *)
SamplesInStep ==
    [][ts'.xyz =>
         /\ \A i \in DOMAIN user'.read : user'.read[i] = Kind(i - 1)
         /\ (tsTold' /\ "PEND" \notin ts'.state /\ user.set)
                => Len(user.read) % 2 = 0]_tsVars
=============================================================================
