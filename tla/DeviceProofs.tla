----------------------------- MODULE DeviceProofs -----------------------------
(***************************************************************************)
(* The board's devices, one after the other: the watchdog and timer unit,  *)
(* the LCD controller, the touch screen, the clock, the network card, the  *)
(* device table and the DMA controller.  Each has an inductive invariant   *)
(* that completes its types and says what its registers, its host timer    *)
(* and its driver have in common.  Last comes the board, which implements  *)
(* each of its parts, the debugger of DebuggerProofs included.             *)
(***************************************************************************)
EXTENDS Integers, MCBoard, DebuggerProofs, FiniteSetTheorems, WellFoundedInduction, TLAPS

-----------------------------------------------------------------------------
(* The watchdog and the timer/counter unit.                                *)
TcuRecords ==
    /\ tcu \in [stop : SUBSET {"t0", "wdt"}, enable : SUBSET {"t0"},
                flag : SUBSET {"full", "half"}, mask : SUBSET {"full", "half"},
                rate : Rates \cup {0}, count : 0..(TcuModulus - 1),
                half : Nat, full : Nat, armed : BOOLEAN]
    /\ wdt \in [enable : BOOLEAN, count : 0..WdtLimit, limit : 0..WdtLimit,
                rate : {0, 1}, armed : BOOLEAN]
    /\ orphan \in BOOLEAN /\ told \in BOOLEAN

TcuIInv == TcuRecords /\ TimersFollow

LEMMA TcuInitHolds == TcuInit => TcuIInv
<1>1. TcuModulus - 2 \in 0..(TcuModulus - 1) /\ TcuModulus - 1 \in Nat
      /\ TcuModulus - 2 \in Nat /\ 0 \in 0..WdtLimit
  BY WdtTcuAssumption
<1>. SUFFICES ASSUME TcuInit PROVE TcuRecords /\ TimersFollow
  BY DEF TcuIInv
<1>2. TcuRecords
  BY <1>1 DEF TcuInit, TcuRecords, TcuDefault, WdtDefault
<1>3. tcu.enable = {} /\ tcu.armed = FALSE /\ wdt.enable = FALSE
  BY DEF TcuInit, TcuDefault, WdtDefault
<1>. QED BY <1>2, <1>3 DEF TimersFollow, WdtRuns

(* The guest's stores to the registers that start and stop timers.         *)
LEMMA TcuStopsHold ==
    TcuIInv /\ (WritesStopSet \/ WritesStopClear) => TcuIInv'
<1>. SUFFICES ASSUME TcuIInv, WritesStopSet \/ WritesStopClear PROVE TcuIInv'
  OBVIOUS
<1>. USE DEF TcuIInv, TcuRecords, TimersFollow, Start, Stop, StartedIf, MayStart,
     WdtRuns
<1>1. CASE WritesStopSet
  <2>1. PICK b \in SUBSET {"t0", "wdt"} :
          LET t == [tcu EXCEPT !.stop = @ \cup b]
          IN  /\ tcu' = IF "t0" \in t.stop THEN Stop(t) ELSE t
              /\ wdt' = IF "wdt" \in t.stop THEN Stop(wdt) ELSE wdt
              /\ orphan' = (orphan /\ "t0" \notin t.stop)
              /\ UNCHANGED told
    BY <1>1 DEF WritesStopSet
  <2>. DEFINE s == tcu.stop \cup b
  <2>2. /\ tcu'.stop = s /\ tcu'.enable = tcu.enable
        /\ tcu'.armed = IF "t0" \in s THEN FALSE ELSE tcu.armed
        /\ wdt'.enable = wdt.enable
        /\ wdt'.armed = IF "wdt" \in s THEN FALSE ELSE wdt.armed
        /\ orphan' = (orphan /\ "t0" \notin s)
    BY <2>1
  <2>3. TcuRecords'
    BY <2>1
  <2>. QED BY <2>2, <2>3
<1>2. CASE WritesStopClear
  <2>1. PICK b \in SUBSET {"t0", "wdt"} :
          LET t == [tcu EXCEPT !.stop = @ \ b]
          IN  /\ tcu' = StartedIf(t)
              /\ wdt' = IF WdtRuns(t, wdt) THEN Start(wdt) ELSE wdt
              /\ UNCHANGED <<orphan, told>>
    BY <1>2 DEF WritesStopClear
  <2>. DEFINE s == tcu.stop \ b
  <2>2. /\ tcu'.stop = s /\ tcu'.enable = tcu.enable
        /\ tcu'.armed = IF s = {} /\ "t0" \in tcu.enable THEN TRUE ELSE tcu.armed
        /\ wdt'.enable = wdt.enable
        /\ wdt'.armed = IF wdt.enable /\ "wdt" \notin s THEN TRUE ELSE wdt.armed
        /\ orphan' = orphan
    BY <2>1
  <2>3. TcuRecords'
    BY <2>1
  <2>. QED BY <2>2, <2>3
<1>. QED BY <1>1, <1>2

LEMMA TcuEnablesHold ==
    TcuIInv /\ (WritesEnableSet \/ WritesEnableClear) => TcuIInv'
<1>. SUFFICES ASSUME TcuIInv, WritesEnableSet \/ WritesEnableClear PROVE TcuIInv'
  OBVIOUS
<1>. USE DEF TcuIInv, TcuRecords, TimersFollow, Start, Stop, StartedIf, MayStart,
     WdtRuns
<1>1. CASE WritesEnableSet
  <2>1. PICK b \in SUBSET {"t0"} :
            /\ tcu' = StartedIf([tcu EXCEPT !.enable = @ \cup b])
            /\ UNCHANGED <<wdt, orphan, told>>
    BY <1>1 DEF WritesEnableSet
  <2>. DEFINE e == tcu.enable \cup b
  <2>2. /\ tcu'.stop = tcu.stop /\ tcu'.enable = e
        /\ tcu'.armed = IF tcu.stop = {} /\ "t0" \in e THEN TRUE ELSE tcu.armed
    BY <2>1
  <2>3. TcuRecords'
    BY <2>1
  <2>. QED BY <2>1, <2>2, <2>3
<1>2. CASE WritesEnableClear
  <2>1. PICK b \in SUBSET {"t0"} :
            LET t == [tcu EXCEPT !.enable = @ \ b]
            IN  /\ tcu' = IF "t0" \in t.enable THEN t ELSE Stop(t)
                /\ orphan' = (orphan /\ "t0" \in t.enable)
                /\ UNCHANGED <<wdt, told>>
    BY <1>2 DEF WritesEnableClear
  <2>. DEFINE e == tcu.enable \ b
  <2>2. /\ tcu'.stop = tcu.stop /\ tcu'.enable = e
        /\ tcu'.armed = IF "t0" \in e THEN tcu.armed ELSE FALSE
        /\ orphan' = (orphan /\ "t0" \in e)
    BY <2>1
  <2>3. TcuRecords'
    BY <2>1
  <2>. QED BY <2>1, <2>2, <2>3
<1>. QED BY <1>1, <1>2

(* The stores that neither start nor stop timer 0, and the watchdog's.     *)
LEMMA TcuStoresHold ==
    TcuIInv /\ (WritesFlagClear \/ WritesMask \/ WritesTimer \/ WritesWdt
                \/ WritesWdtEnable) => TcuIInv'
<1>. SUFFICES ASSUME TcuIInv,
                     WritesFlagClear \/ WritesMask \/ WritesTimer \/ WritesWdt
                     \/ WritesWdtEnable
              PROVE  TcuIInv'
  OBVIOUS
<1>. USE DEF TcuIInv, TcuRecords, TimersFollow, WdtRuns
<1>1. CASE WritesFlagClear
  BY <1>1 DEF WritesFlagClear
<1>2. CASE WritesMask
  BY <1>2 DEF WritesMask
<1>3. CASE WritesTimer
  <2>1. TcuRecords'
    <3>1. \A f \in Fulls : f \in Nat /\ f - 1 \in Nat
      BY WdtTcuAssumption
    <3>2. 0 \in 0..(TcuModulus - 1)
      BY WdtTcuAssumption
    <3>3. CASE \E r \in Rates : tcu' = [tcu EXCEPT !.rate = r]
      BY <1>3, <3>3 DEF WritesTimer
    <3>4. CASE \E f \in Fulls : tcu' = [tcu EXCEPT !.full = f, !.half = f - 1]
      <4>1. PICK f \in Fulls : tcu' = [tcu EXCEPT !.full = f, !.half = f - 1]
        BY <3>4
      <4>2. f \in Nat /\ f - 1 \in Nat
        BY <3>1
      <4>. DEFINE h == f - 1
      <4>3. tcu' = [tcu EXCEPT !.full = f, !.half = h] /\ h \in Nat
        BY <4>1, <4>2
      <4>. HIDE DEF h
      <4>. QED BY <1>3, <4>2, <4>3 DEF WritesTimer
    <3>5. CASE tcu' = [tcu EXCEPT !.count = 0]
      BY <1>3, <3>2, <3>5 DEF WritesTimer
    <3>. QED BY <1>3, <3>3, <3>4, <3>5 DEF WritesTimer
  <2>2. /\ tcu'.stop = tcu.stop /\ tcu'.enable = tcu.enable
        /\ tcu'.armed = tcu.armed /\ UNCHANGED <<wdt, orphan>>
    BY <1>3 DEF WritesTimer
  <2>. QED BY <2>1, <2>2
<1>4. CASE WritesWdt
  <2>1. 0 \in 0..WdtLimit /\ 1..WdtLimit \subseteq 0..WdtLimit
    BY WdtTcuAssumption
  <2>2. TcuRecords'
    BY <1>4, <2>1 DEF WritesWdt
  <2>3. /\ wdt'.enable = wdt.enable /\ wdt'.armed = wdt.armed
        /\ UNCHANGED <<tcu, orphan>>
    BY <1>4 DEF WritesWdt
  <2>. QED BY <2>2, <2>3
<1>5. CASE WritesWdtEnable
  <2>1. PICK on \in BOOLEAN :
            LET w == [wdt EXCEPT !.enable = on]
            IN  /\ wdt' = IF WdtRuns(tcu, w) THEN Start(w) ELSE Stop(w)
                /\ UNCHANGED <<tcu, orphan, told>>
    BY <1>5 DEF WritesWdtEnable
  <2>2. /\ wdt'.enable = on
        /\ wdt'.armed = (on /\ "wdt" \notin tcu.stop)
    BY <2>1 DEF Start, Stop
  <2>3. TcuRecords'
    BY <2>1 DEF Start, Stop
  <2>. QED BY <2>1, <2>2, <2>3
<1>. QED BY <1>1, <1>2, <1>3, <1>4, <1>5

LEMMA TcuPollsHold == TcuIInv /\ (TcuPoll \/ WdtPoll) => TcuIInv'
<1>. SUFFICES ASSUME TcuIInv, TcuPoll \/ WdtPoll PROVE TcuIInv'
  OBVIOUS
<1>1. CASE TcuPoll
  <2>1. Counted \in 0..(TcuModulus - 1) /\ 0 \in 0..(TcuModulus - 1)
    <3>1. TcuModulus \in Nat /\ TcuModulus > 0 /\ Rates \cup {0} \subseteq Nat
      BY WdtTcuAssumption
    <3>2. tcu.count \in Nat /\ tcu.rate \in Nat
      BY <3>1 DEF TcuIInv, TcuRecords
    <3>3. tcu.count + tcu.rate \in Nat
      BY <3>2
    <3>. QED BY <3>1, <3>3 DEF Counted
  <2>2. Matches(Counted) \in SUBSET {"full", "half"}
    BY DEF Matches
  <2>3. /\ tcu' = [[tcu EXCEPT !.flag = @ \cup Matches(Counted),
                               !.count = IF "full" \in Matches(Counted)
                                         THEN 0 ELSE Counted]
                   EXCEPT !.armed = TRUE]
        /\ told' = (Matches(Counted) \ tcu.mask # {})
        /\ UNCHANGED <<wdt, orphan>> /\ tcu.armed
    BY <1>1 DEF TcuPoll, Start
  <2>. QED BY <2>1, <2>2, <2>3 DEF TcuIInv, TcuRecords, TimersFollow, WdtRuns
<1>2. CASE WdtPoll /\ ~(WdtRuns(tcu, wdt) /\ wdt.count + wdt.rate >= wdt.limit)
  <2>1. /\ wdt' = Start(IF WdtRuns(tcu, wdt)
                        THEN [wdt EXCEPT !.count = wdt.count + wdt.rate] ELSE wdt)
        /\ UNCHANGED <<tcu, orphan, told>>
    BY <1>2 DEF WdtPoll
  <2>2. WdtRuns(tcu, wdt) => wdt.count + wdt.rate \in 0..WdtLimit
    BY <1>2, WdtTcuAssumption DEF TcuIInv, TcuRecords
  <2>3. TcuRecords'
    BY <2>1, <2>2 DEF Start, TcuIInv, TcuRecords
  <2>4. wdt'.armed /\ wdt'.enable = wdt.enable
    BY <2>1 DEF Start, TcuIInv, TcuRecords
  <2>. QED BY <2>1, <2>3, <2>4 DEF TcuIInv, TimersFollow, WdtRuns
<1>3. CASE WdtPoll /\ WdtRuns(tcu, wdt) /\ wdt.count + wdt.rate >= wdt.limit
  <2>1. TcuReset
    BY <1>3 DEF WdtPoll
  <2>2. TcuModulus - 2 \in 0..(TcuModulus - 1) /\ TcuModulus - 1 \in Nat
        /\ TcuModulus - 2 \in Nat /\ 0 \in 0..WdtLimit
    BY WdtTcuAssumption
  <2>3. TcuRecords'
    BY <2>1, <2>2 DEF TcuReset, TcuIInv, TcuRecords, TcuDefault, WdtDefault, Start
  <2>4. /\ tcu'.enable = {} /\ tcu'.armed = tcu.armed /\ orphan' = tcu.armed
        /\ wdt'.enable = FALSE
    BY <2>1 DEF TcuReset, TcuDefault, WdtDefault, Start
  <2>. QED BY <2>3, <2>4 DEF TcuIInv, TimersFollow, WdtRuns
<1>. QED BY <1>1, <1>2, <1>3

(* TcuIInv: the stop and enable registers, the two timers' linked flags    *)
(* and the timer a board reset forgot agree after every store and callback.*)
THEOREM TcuInductive == TcuSpec => []TcuIInv
<1>1. TcuIInv /\ UNCHANGED tcuVars => TcuIInv'
  BY DEF tcuVars, TcuIInv, TcuRecords, TimersFollow, WdtRuns
<1>2. TcuIInv /\ [TcuNext]_tcuVars => TcuIInv'
  BY <1>1, TcuStopsHold, TcuEnablesHold, TcuStoresHold, TcuPollsHold DEF TcuNext
<1>. QED BY <1>2, TcuInitHolds, PTL DEF TcuSpec

(* TimersFollow: in whatever order the guest writes the four addresses     *)
(* that start and stop the two timers, the host's timers follow, but for   *)
(* the one a reset of the board forgets.                                   *)
THEOREM HostTimersFollow == TcuSpec => [](TcuTypeOK /\ TimersFollow)
<1>1. TcuIInv => TcuTypeOK /\ TimersFollow
  BY WdtTcuAssumption DEF TcuIInv, TcuRecords, TcuTypeOK
<1>. QED BY <1>1, TcuInductive, PTL

-----------------------------------------------------------------------------
(* The LCD controller: the surface is always the window's, and while the   *)
(* timer is armed the controller is on and its mode is the window's depth. *)
LcdTyped ==
    /\ lcd \in [ctl : SUBSET {"ENA", "DIS", "QDM", "LDDM", "EOFM"},
                mode : {0, 16, 32}, state : SUBSET {"QD", "LDD", "EOF"},
                da : {"ram", "nowhere"}, armed : BOOLEAN]
    /\ lcdTold \in BOOLEAN /\ lcdDead \in BOOLEAN

Window(w, h, d) ==
    [width |-> w, height |-> h, depth |-> d, surface |-> <<w, h, d>>]

WindowWhole ==
    /\ ds.width \in Widths /\ ds.height \in Widths /\ ds.depth \in {16, 32}
    /\ ds = Window(ds.width, ds.height, ds.depth)

PollFits ==
    lcd.armed /\ ~lcdDead =>
        /\ lcd.mode \in {16, 32} /\ ds.depth = lcd.mode
        /\ "ENA" \in lcd.ctl /\ "DIS" \notin lcd.ctl

LcdIInv == LcdTyped /\ WindowWhole /\ PollFits

LEMMA ResizedIsWindow ==
    ASSUME NEW w, NEW h, NEW d, NEW s
    PROVE  Resized([width |-> w, height |-> h, depth |-> d, surface |-> s])
               = Window(w, h, d)
BY DEF Resized, Window

LEMMA WindowFields ==
    ASSUME NEW w, NEW h, NEW d
    PROVE  /\ Window(w, h, d).width = w /\ Window(w, h, d).height = h
           /\ Window(w, h, d).depth = d /\ Window(w, h, d).surface = <<w, h, d>>
BY DEF Window

LEMMA LcdInitHolds == LcdInit => LcdIInv
<1>. SUFFICES ASSUME LcdInit PROVE LcdIInv
  OBVIOUS
<1>1. PICK w \in Widths :
          ds = Resized([width |-> w, height |-> w, depth |-> 32, surface |-> << >>])
  BY DEF LcdInit
<1>2. WindowWhole
  BY <1>1, ResizedIsWindow, WindowFields DEF WindowWhole
<1>3. LcdTyped /\ PollFits
  BY DEF LcdInit, LcdTyped, PollFits, LcdDefault
<1>. QED BY <1>2, <1>3 DEF LcdIInv

LEMMA LcdStepHolds == LcdIInv /\ [LcdNext]_lcdVars => LcdIInv'
<1>. SUFFICES ASSUME LcdIInv, [LcdNext]_lcdVars PROVE LcdIInv'
  OBVIOUS
<1>. USE DEF LcdIInv
<1>1. CASE WritesLcdCtrl
  <2>1. PICK b \in SUBSET {"ENA", "DIS", "QDM", "EOFM"}, m \in {0, 16, 32} :
         /\ lcd' = [lcd EXCEPT !.ctl = b, !.mode = m, !.armed = ~LcdStops(b),
                               !.state = @ \cup Reported(b)]
         /\ lcdTold' = LcdTells(b)
         /\ lcdDead' = (m = 0)
         /\ ds' = IF m = 0 THEN ds ELSE Resized([ds EXCEPT !.depth = m])
    BY <1>1 DEF WritesLcdCtrl
  <2>2. /\ Reported(b) \in SUBSET {"QD", "LDD"}
        /\ LcdTells(b) \in BOOLEAN
        /\ LcdStops(b) <=> "ENA" \notin b \/ "DIS" \in b
        /\ LcdStops(b) \in BOOLEAN
    BY DEF Reported, LcdStops, LcdTells, Quick, Disabled
  <2>3. LcdTyped'
    <3>1. lcd.state \cup Reported(b) \in SUBSET {"QD", "LDD", "EOF"}
      BY <2>2 DEF LcdTyped
    <3>2. (~LcdStops(b)) \in BOOLEAN /\ (m = 0) \in BOOLEAN
      OBVIOUS
    <3>. QED BY <2>1, <2>2, <3>1, <3>2 DEF LcdTyped
  <2>4. WindowWhole' /\ (m # 0 => ds'.depth = m)
    <3>1. CASE m = 0
      BY <2>1, <3>1 DEF WindowWhole
    <3>2. CASE m # 0
      <4>1. [ds EXCEPT !.depth = m] = [width |-> ds.width, height |-> ds.height,
                                       depth |-> m, surface |-> ds.surface]
        BY DEF WindowWhole, Window
      <4>2. ds' = Window(ds.width, ds.height, m)
        BY <2>1, <3>2, <4>1, ResizedIsWindow
      <4>. QED BY <3>2, <4>2, WindowFields DEF WindowWhole
    <3>. QED BY <3>1, <3>2
  <2>5. PollFits'
    <3>1. lcd'.ctl = b /\ lcd'.mode = m /\ (lcd'.armed <=> ~LcdStops(b))
      BY <2>1 DEF LcdTyped
    <3>. QED BY <2>1, <2>2, <2>4, <3>1 DEF PollFits
  <2>. QED BY <2>3, <2>4, <2>5
<1>2. CASE WritesLcdArea
  <2>0. CASE lcdDead' = TRUE /\ UNCHANGED ds
    BY <1>2, <2>0 DEF WritesLcdArea, LcdTyped, WindowWhole, PollFits
  <2>. SUFFICES ASSUME ~(lcdDead' = TRUE /\ UNCHANGED ds) PROVE LcdIInv'
    BY <2>0
  <2>1. PICK n \in Widths : \/ ds' = Resized([ds EXCEPT !.width = n])
                            \/ ds' = Resized([ds EXCEPT !.height = n])
    BY <1>2 DEF WritesLcdArea
  <2>2. UNCHANGED <<lcd, lcdDead>> /\ lcdTold' = FALSE
    BY <1>2 DEF WritesLcdArea
  <2>3. /\ [ds EXCEPT !.width = n] = [width |-> n, height |-> ds.height,
                                      depth |-> ds.depth, surface |-> ds.surface]
        /\ [ds EXCEPT !.height = n] = [width |-> ds.width, height |-> n,
                                       depth |-> ds.depth, surface |-> ds.surface]
    BY DEF WindowWhole, Window
  <2>4. \/ ds' = Window(n, ds.height, ds.depth)
        \/ ds' = Window(ds.width, n, ds.depth)
    BY <2>1, <2>3, ResizedIsWindow
  <2>5. WindowWhole' /\ ds'.depth = ds.depth
    BY <2>4, WindowFields DEF WindowWhole
  <2>. QED BY <2>2, <2>5 DEF LcdTyped, PollFits
<1>3. CASE WritesLcdDa0
  <2>1. LcdTyped'
    BY <1>3 DEF WritesLcdDa0, LcdTyped
  <2>2. /\ lcd'.armed = lcd.armed /\ lcd'.mode = lcd.mode /\ lcd'.ctl = lcd.ctl
        /\ UNCHANGED <<ds, lcdDead>>
    BY <1>3 DEF WritesLcdDa0, LcdTyped
  <2>. QED BY <2>1, <2>2 DEF WindowWhole, PollFits
<1>4. CASE LcdPoll
  <2>1. LcdTyped'
    <3>1. CASE lcd.da = "nowhere" \/ lcd.mode = 0
      BY <1>4, <3>1 DEF LcdPoll, LcdTyped
    <3>2. CASE ~(lcd.da = "nowhere" \/ lcd.mode = 0)
      <4>1. /\ lcd' = [lcd EXCEPT !.state = @ \cup {"EOF"}]
            /\ lcdTold' \in BOOLEAN /\ lcdDead' = lcdDead
        BY <1>4, <3>2 DEF LcdPoll
      <4>. QED BY <4>1 DEF LcdTyped
    <3>. QED BY <3>1, <3>2
  <2>2. /\ lcd'.armed = lcd.armed /\ lcd'.mode = lcd.mode /\ lcd'.ctl = lcd.ctl
    BY <1>4 DEF LcdPoll, LcdTyped
  <2>3. UNCHANGED ds /\ ~lcdDead
    BY <1>4 DEF LcdPoll
  <2>. QED BY <2>1, <2>2, <2>3 DEF WindowWhole, PollFits
<1>5. CASE LcdReset
  <2>1. LcdTyped' /\ UNCHANGED ds /\ lcd'.armed = FALSE
    BY <1>5 DEF LcdReset, LcdDefault, LcdTyped
  <2>. QED BY <2>1 DEF WindowWhole, PollFits
<1>6. CASE UNCHANGED lcdVars
  BY <1>6 DEF lcdVars, LcdTyped, WindowWhole, PollFits
<1>. QED BY <1>1, <1>2, <1>3, <1>4, <1>5, <1>6 DEF LcdNext

(* LcdPollSound: a poll of the LCD finds a mode, a depth and a surface     *)
(* that belong together, for any sizes of window.                          *)
THEOREM PollsFindTheWindow == LcdSpec => [](LcdTypeOK /\ LcdPollSound)
<1>1. LcdIInv => LcdTypeOK /\ LcdPollSound
  <2>. SUFFICES ASSUME LcdIInv PROVE LcdTypeOK /\ LcdPollSound
    OBVIOUS
  <2>1. ds.surface = <<ds.width, ds.height, ds.depth>>
    BY WindowFields DEF LcdIInv, WindowWhole
  <2>2. LcdTypeOK
    BY DEF LcdIInv, LcdTyped, WindowWhole, LcdTypeOK
  <2>. QED BY <2>1, <2>2 DEF LcdIInv, PollFits, LcdPollSound
<1>. QED BY <1>1, LcdInitHolds, LcdStepHolds, PTL DEF LcdSpec

-----------------------------------------------------------------------------
(* The touch screen.  While a sample is read in two halves, the place in   *)
(* the sample and what the driver has read since it set the format have    *)
(* the same parity.                                                        *)
SampleKinds == {"position", "pressure"}
TsRecords ==
    [on : BOOLEAN, mask : SUBSET {"PENDM", "PENUM"},
     state : SUBSET {"PEND", "PENU", "TSRDY"}, xyz : BOOLEAN,
     snum : {0, 1, 2, 4}, index : 0..3, x : 0..TsMax, armed : BOOLEAN]
MouseEvents == [type : {"down", "other"}, x : Nat]

EventsTyped ==
    /\ events \in Seq(MouseEvents) /\ width \in WindowWidths
    /\ Len(events) <= touches /\ touches \in 0..MaxTouches

TsTyped ==
    /\ ts \in TsRecords /\ EventsTyped
    /\ user \in [set : BOOLEAN, read : Seq(SampleKinds)]
    /\ tsTold \in BOOLEAN

IndexInSample ==
    /\ ts.index = 0 \/ ts.index < ts.snum
    /\ user.set => ts.snum # 0
    /\ ts.xyz => ts.snum \in {2, 4}

HalvesInTurn ==
    /\ ts.xyz /\ user.set => ts.index % 2 = Len(user.read) % 2
    /\ ts.xyz => \A i \in 1..Len(user.read) : user.read[i] = Kind(i - 1)
    /\ ~user.set => user.read = << >>

ToldBetween == tsTold => "PEND" \in ts.state \/ ts.index = 0

TsIInv == TsTyped /\ IndexInSample /\ HalvesInTurn /\ ToldBetween

LEMMA TsInitHolds == TsInit => TsIInv
<1>. SUFFICES ASSUME TsInit PROVE TsIInv
  OBVIOUS
<1>1. 0 \in 0..TsMax /\ 0 \in 0..MaxTouches
  BY TouchScreenAssumption
<1>2. ts \in TsRecords
  BY <1>1 DEF TsInit, TsRecords
<1>3. EventsTyped
  BY <1>1 DEF TsInit, EventsTyped
<1>4. user \in [set : BOOLEAN, read : Seq(SampleKinds)]
  BY DEF TsInit, Booted
<1>. QED BY <1>2, <1>3, <1>4 DEF TsInit, TsTyped, TsIInv, IndexInSample, HalvesInTurn, ToldBetween, Booted

LEMMA ScaledBounded ==
    ASSUME NEW x \in Nat, width \in WindowWidths
    PROVE  Scaled(x) \in 0..TsMax
<1>. DEFINE n == x * TsMax
<1>1. n \in Nat /\ width \in Nat /\ width > 0 /\ TsMax \in Nat
  BY TouchScreenAssumption
<1>. HIDE DEF n
<1>2. n \div width \in Nat
  BY <1>1
<1>3. Scaled(x) = IF n \div width > TsMax THEN TsMax ELSE n \div width
  BY DEF Scaled, n
<1>. QED BY <1>1, <1>2, <1>3

LEMMA TsPollHolds == TsIInv /\ TsPoll => TsIInv'
<1>. SUFFICES ASSUME TsIInv, TsPoll PROVE TsIInv'
  OBVIOUS
<1>. DEFINE s == ts.state \cup (IF PenDown THEN {"PEND", "TSRDY"} ELSE {})
                           \cup (IF PenUp THEN {"PENU", "TSRDY"} ELSE {})
            x == IF PenDown THEN Scaled(Head(events).x) ELSE ts.x
<1>1. /\ ts' = IF ~ts.on THEN ts ELSE [ts EXCEPT !.x = x, !.state = s]
      /\ tsTold' = (ts.on /\ (PenDown \/ PenUp))
      /\ UNCHANGED <<width, touches, user>>
  BY DEF TsPoll
<1>2. events' = events \/ (events # << >> /\ events' = Tail(events))
  BY DEF TsPoll
<1>3. x \in 0..TsMax
  <2>1. CASE PenDown
    <3>1. events \in Seq(MouseEvents) /\ events # << >> /\ width \in WindowWidths
      BY <2>1 DEF PenDown, TsIInv, TsTyped, EventsTyped
    <3>2. Head(events) \in MouseEvents
      BY <3>1
    <3>. QED BY <2>1, <3>1, <3>2, ScaledBounded DEF MouseEvents
  <2>2. CASE ~PenDown
    BY <2>2 DEF TsIInv, TsTyped, TsRecords
  <2>. QED BY <2>1, <2>2
<1>4. /\ s \in SUBSET {"PEND", "PENU", "TSRDY"}
      /\ PenDown => "PEND" \in s
  BY DEF TsIInv, TsTyped, TsRecords
<1>. HIDE DEF s, x
<1>5. /\ ts' \in TsRecords
      /\ ts'.index = ts.index /\ ts'.snum = ts.snum /\ ts'.xyz = ts.xyz
      /\ ts.on => ts'.state = s
  BY <1>1, <1>3, <1>4 DEF TsIInv, TsTyped, TsRecords
<1>6. EventsTyped'
  <2>1. events \in Seq(MouseEvents) /\ Len(events) <= touches /\ touches \in Nat
    BY TouchScreenAssumption DEF TsIInv, TsTyped, EventsTyped
  <2>2. events' \in Seq(MouseEvents) /\ Len(events') <= touches
    BY <1>2, <2>1
  <2>. QED BY <1>1, <2>2 DEF TsIInv, TsTyped, EventsTyped
<1>7. TsTyped'
  BY <1>1, <1>5, <1>6 DEF TsIInv, TsTyped
<1>8. ToldBetween'
  BY <1>1, <1>4, <1>5 DEF ToldBetween, PenUp
<1>. QED BY <1>1, <1>5, <1>7, <1>8 DEF TsIInv, IndexInSample, HalvesInTurn

LEMMA ReadsSampleHolds == TsIInv /\ ReadsSample => TsIInv'
<1>. SUFFICES ASSUME TsIInv, ReadsSample PROVE TsIInv'
  OBVIOUS
<1>1. /\ user.set /\ user' = [user EXCEPT !.read = Append(@, Kind(ts.index))]
      /\ ts' = [ts EXCEPT !.index = NextSample(@, ts.snum)]
      /\ tsTold' = FALSE /\ UNCHANGED <<events, width, touches>>
  BY DEF ReadsSample
<1>2. /\ ts.snum \in {1, 2, 4} /\ ts.index \in 0..3 /\ ts.index < ts.snum
      /\ user.read \in Seq(SampleKinds) /\ Len(user.read) \in Nat
  BY <1>1 DEF TsIInv, TsTyped, TsRecords, IndexInSample
<1>3. /\ NextSample(ts.index, ts.snum) \in 0..3
      /\ NextSample(ts.index, ts.snum) < ts.snum
      /\ ts.snum \in {2, 4} =>
             NextSample(ts.index, ts.snum) % 2 = (ts.index + 1) % 2
  BY <1>2 DEF NextSample
<1>4. /\ user'.set = user.set /\ user'.read = Append(user.read, Kind(ts.index))
      /\ ts'.xyz = ts.xyz /\ ts'.snum = ts.snum
      /\ ts'.index = NextSample(ts.index, ts.snum)
      /\ ts' \in TsRecords
  BY <1>1, <1>3 DEF TsIInv, TsTyped, TsRecords
<1>5. Kind(ts.index) \in SampleKinds
  BY DEF Kind, SampleKinds
<1>6. TsTyped'
  <2>1. user' \in [set : BOOLEAN, read : Seq(SampleKinds)]
    <3>. DEFINE k == Kind(ts.index)
    <3>1. user' = [user EXCEPT !.read = Append(@, k)] /\ k \in SampleKinds
      BY <1>1, <1>5
    <3>2. user \in [set : BOOLEAN, read : Seq(SampleKinds)]
      BY DEF TsIInv, TsTyped
    <3>. HIDE DEF k
    <3>3. Append(user.read, k) \in Seq(SampleKinds)
      BY <3>1, <3>2
    <3>. QED BY <3>1, <3>2, <3>3
  <2>. QED BY <1>1, <1>4, <2>1 DEF TsIInv, TsTyped, EventsTyped
<1>7. /\ Len(user'.read) = Len(user.read) + 1
      /\ \A i \in 1..Len(user.read) : user'.read[i] = user.read[i]
      /\ user'.read[Len(user.read) + 1] = Kind(ts.index)
  BY <1>2, <1>4, <1>5
<1>8. HalvesInTurn'
  <2>1. CASE ts.xyz
    <3>1. ts.index % 2 = Len(user.read) % 2 /\ ts.snum \in {2, 4}
      BY <1>1, <2>1 DEF TsIInv, HalvesInTurn, IndexInSample
    <3>2. Kind(ts.index) = Kind(Len(user.read))
      BY <3>1 DEF Kind
    <3>3. (ts.index + 1) % 2 = (Len(user.read) + 1) % 2
      <4>1. \A m, n \in Nat : m % 2 = n % 2 => (m + 1) % 2 = (n + 1) % 2
        OBVIOUS
      <4>2. ts.index \in Nat /\ Len(user.read) \in Nat
        BY <1>2
      <4>. QED BY <3>1, <4>1, <4>2
    <3>4. \A i \in 1..(Len(user.read) + 1) : user'.read[i] = Kind(i - 1)
      <4>. SUFFICES ASSUME NEW i \in 1..(Len(user.read) + 1)
                    PROVE  user'.read[i] = Kind(i - 1)
        OBVIOUS
      <4>1. CASE i \in 1..Len(user.read)
        BY <1>7, <2>1, <4>1 DEF TsIInv, HalvesInTurn
      <4>2. CASE i = Len(user.read) + 1
        <5>1. i - 1 = Len(user.read)
          BY <1>2, <4>2
        <5>. QED BY <1>7, <3>2, <4>2, <5>1
      <4>. QED BY <1>2, <4>1, <4>2
    <3>. QED BY <1>1, <1>3, <1>4, <1>7, <3>1, <3>3, <3>4 DEF HalvesInTurn
  <2>2. CASE ~ts.xyz
    BY <1>1, <1>4, <2>2 DEF HalvesInTurn
  <2>. QED BY <2>1, <2>2
<1>. QED BY <1>1, <1>2, <1>3, <1>4, <1>6, <1>8 DEF TsIInv, IndexInSample, ToldBetween

LEMMA TsStoresHold ==
    TsIInv /\ (MouseMoves \/ WritesSadc \/ WritesSadcCfg \/ WritesSadcState
               \/ TsReset) => TsIInv'
<1>. SUFFICES ASSUME TsIInv,
                     MouseMoves \/ WritesSadc \/ WritesSadcCfg \/ WritesSadcState
                     \/ TsReset
              PROVE  TsIInv'
  OBVIOUS
<1>1. CASE MouseMoves
  <2>1. PICK e \in {"down", "other"}, x \in 0..(width - 1) :
            events' = Append(events, [type |-> e, x |-> x])
    BY <1>1 DEF MouseMoves
  <2>2. touches < MaxTouches /\ touches' = touches + 1
        /\ UNCHANGED <<ts, width, user, tsTold>>
    BY <1>1 DEF MouseMoves
  <2>3. [type |-> e, x |-> x] \in MouseEvents
    BY DEF MouseEvents
  <2>4. EventsTyped'
    BY <2>1, <2>2, <2>3, TouchScreenAssumption DEF TsIInv, TsTyped, EventsTyped
  <2>. QED BY <2>2, <2>4 DEF TsIInv, TsTyped, IndexInSample, HalvesInTurn, ToldBetween
<1>2. CASE WritesSadc
  <2>1. TsTyped'
    <3>1. ts \in TsRecords
      BY DEF TsIInv, TsTyped
    <3>2. ASSUME ts' = [ts EXCEPT !.on = TRUE, !.armed = TRUE]
          PROVE  ts' \in TsRecords
      BY <3>1, <3>2 DEF TsRecords
    <3>3. ASSUME NEW b \in SUBSET {"PENDM", "PENUM"}, ts' = [ts EXCEPT !.mask = b]
          PROVE  ts' \in TsRecords
      BY <3>1, <3>3 DEF TsRecords
    <3>4. ts' \in TsRecords
      BY <1>2, <3>2, <3>3 DEF WritesSadc
    <3>. QED BY <1>2, <3>4 DEF WritesSadc, TsIInv, TsTyped, EventsTyped
  <2>2. /\ ts'.index = ts.index /\ ts'.snum = ts.snum /\ ts'.xyz = ts.xyz
        /\ tsTold' = FALSE /\ UNCHANGED user
    BY <1>2 DEF WritesSadc, TsIInv, TsTyped, TsRecords, EventsTyped
  <2>. QED BY <2>1, <2>2 DEF TsIInv, IndexInSample, HalvesInTurn, ToldBetween
<1>3. CASE WritesSadcCfg
  <2>1. PICK n \in 1..2, z \in BOOLEAN :
           ts' = [ts EXCEPT !.xyz = z, !.snum = IF z THEN 2 * n ELSE n, !.index = 0]
    BY <1>3 DEF WritesSadcCfg
  <2>2. /\ user' = [set |-> TRUE, read |-> << >>] /\ tsTold' = FALSE
        /\ UNCHANGED <<events, width, touches>>
    BY <1>3 DEF WritesSadcCfg
  <2>3. /\ (IF z THEN 2 * n ELSE n) \in {1, 2, 4}
        /\ z => (IF z THEN 2 * n ELSE n) \in {2, 4}
    OBVIOUS
  <2>4. /\ ts'.index = 0 /\ ts'.snum = (IF z THEN 2 * n ELSE n) /\ ts'.xyz = z
    BY <2>1 DEF TsIInv, TsTyped, TsRecords
  <2>5. TsTyped'
    <3>1. ts' \in TsRecords
      <4>. DEFINE k == IF z THEN 2 * n ELSE n
      <4>1. ts' = [ts EXCEPT !.xyz = z, !.snum = k, !.index = 0]
        BY <2>1
      <4>2. k \in {0, 1, 2, 4} /\ 0 \in 0..3
        BY <2>3
      <4>. HIDE DEF k
      <4>. QED BY <4>1, <4>2 DEF TsIInv, TsTyped, TsRecords
    <3>2. user' \in [set : BOOLEAN, read : Seq(SampleKinds)]
      BY <2>2
    <3>. QED BY <2>2, <3>1, <3>2 DEF TsIInv, TsTyped, EventsTyped
  <2>6. user'.set = TRUE /\ user'.read = << >> /\ Len(user'.read) = 0
    BY <2>2
  <2>. QED BY <2>2, <2>3, <2>4, <2>5, <2>6
           DEF TsIInv, IndexInSample, HalvesInTurn, ToldBetween
<1>4. CASE WritesSadcState
  <2>1. TsTyped'
    <3>1. ts' \in TsRecords
      <4>1. PICK b : ts' = [ts EXCEPT !.state = {"PEND", "PENU", "TSRDY"} \ b]
        BY <1>4 DEF WritesSadcState
      <4>2. ts \in TsRecords
        BY DEF TsIInv, TsTyped
      <4>. DEFINE k == {"PEND", "PENU", "TSRDY"} \ b
      <4>3. k \subseteq {"PEND", "PENU", "TSRDY"}
        OBVIOUS
      <4>4. ts' = [ts EXCEPT !.state = k]
        BY <4>1
      <4>. HIDE DEF k
      <4>. QED BY <4>2, <4>3, <4>4 DEF TsRecords
    <3>. QED BY <1>4, <3>1 DEF WritesSadcState, TsIInv, TsTyped, EventsTyped
  <2>2. /\ ts'.index = ts.index /\ ts'.snum = ts.snum /\ ts'.xyz = ts.xyz
        /\ tsTold' = FALSE /\ UNCHANGED user
    BY <1>4 DEF WritesSadcState, TsIInv, TsTyped, TsRecords, EventsTyped
  <2>. QED BY <2>1, <2>2 DEF TsIInv, IndexInSample, HalvesInTurn, ToldBetween
<1>5. CASE TsReset
  <2>1. TsTyped'
    <3>1. ts' \in TsRecords
      BY <1>5 DEF TsReset, TsIInv, TsTyped, TsRecords
    <3>2. user' \in [set : BOOLEAN, read : Seq(SampleKinds)] /\ tsTold' = FALSE
          /\ UNCHANGED <<events, width, touches>>
      BY <1>5 DEF TsReset, Booted
    <3>. QED BY <3>1, <3>2 DEF TsIInv, TsTyped, EventsTyped
  <2>2. /\ ts'.index = ts.index /\ ts'.snum = ts.snum /\ ts'.xyz = ts.xyz
        /\ tsTold' = FALSE
        /\ user'.set = FALSE /\ user'.read = << >> /\ Len(user'.read) = 0
    BY <1>5 DEF TsReset, Booted, TsIInv, TsTyped, TsRecords
  <2>. QED BY <2>1, <2>2 DEF TsIInv, IndexInSample, HalvesInTurn, ToldBetween
<1>. QED BY <1>1, <1>2, <1>3, <1>4, <1>5

LEMMA WindowResizesHolds == TsIInv /\ WindowResizes => TsIInv'
BY DEF WindowResizes, TsIInv, TsTyped, EventsTyped, IndexInSample, HalvesInTurn,
   ToldBetween

LEMMA TsStepHolds == TsIInv /\ [TsNext]_tsVars => TsIInv'
<1>1. TsIInv /\ UNCHANGED tsVars => TsIInv'
  BY DEF tsVars, TsIInv, TsTyped, EventsTyped, IndexInSample, HalvesInTurn, ToldBetween
<1>. QED BY <1>1, TsPollHolds, ReadsSampleHolds, TsStoresHold, WindowResizesHolds
     DEF TsNext

(* TsIInv: the index into the sample, the events queued and what the       *)
(* driver was told agree after every poll, store and read.                 *)
THEOREM TsInductive == TsSpec => []TsIInv
BY TsInitHolds, TsStepHolds, PTL DEF TsSpec

(* SamplesInStep: position and pressure come in turn from sample to        *)
(* sample, and no pen-up interrupt comes between the two.                  *)
THEOREM HalvesStayInStep == TsSpec => []TsTypeOK /\ SamplesInStep
<1>1. TsIInv => TsTypeOK
  BY TouchScreenAssumption
     DEF TsIInv, TsTyped, TsRecords, EventsTyped, IndexInSample, TsTypeOK
<1>2. TsIInv /\ TsIInv' /\ [TsNext]_tsVars =>
          [ts'.xyz =>
             /\ \A i \in DOMAIN user'.read : user'.read[i] = Kind(i - 1)
             /\ (tsTold' /\ "PEND" \notin ts'.state /\ user.set)
                    => Len(user.read) % 2 = 0]_tsVars
  <2>. SUFFICES ASSUME TsIInv, TsIInv', [TsNext]_tsVars, ts'.xyz, tsVars' # tsVars
                PROVE  /\ \A i \in DOMAIN user'.read : user'.read[i] = Kind(i - 1)
                       /\ (tsTold' /\ "PEND" \notin ts'.state /\ user.set)
                              => Len(user.read) % 2 = 0
    OBVIOUS
  <2>1. \A i \in DOMAIN user'.read : user'.read[i] = Kind(i - 1)
    <3>1. DOMAIN user'.read = 1..Len(user'.read)
      BY DEF TsIInv, TsTyped
    <3>. QED BY <3>1 DEF TsIInv, HalvesInTurn
  <2>2. ASSUME tsTold', "PEND" \notin ts'.state, user.set
        PROVE  Len(user.read) % 2 = 0
    <3>1. TsPoll \/ MouseMoves
      BY <2>2 DEF TsNext, tsVars, WritesSadc, WritesSadcCfg, WritesSadcState,
         ReadsSample, TsReset, WindowResizes
    <3>2. ts'.xyz = ts.xyz /\ UNCHANGED user
      BY <3>1 DEF TsPoll, MouseMoves, TsIInv, TsTyped, TsRecords
    <3>3. ts'.index = 0 /\ user'.set
      BY <2>2, <3>2 DEF TsIInv, ToldBetween
    <3>4. ts'.index % 2 = Len(user'.read) % 2
      BY <3>3 DEF TsIInv, HalvesInTurn
    <3>5. ts'.index % 2 = 0
      BY <3>3
    <3>. QED BY <3>2, <3>4, <3>5
  <2>. QED BY <2>1, <2>2
<1>. QED BY <1>1, <1>2, TsInductive, PTL DEF TsSpec, SamplesInStep

-----------------------------------------------------------------------------
(* The clock.  A date of the years checked, and the days before it as      *)
(* jz_mktime computes them.                                                *)
DateRecords ==
    [year : Int, month : Int, day : Int, hour : Int, min : Int, sec : Int]
IsDate(d) ==
    /\ d \in DateRecords
    /\ d.year \in 2000..2100 /\ d.month \in 1..12
    /\ d.day \in 1..31 /\ d.day <= MonthLength(d.year, d.month)
    /\ d.hour \in 0..23 /\ d.min \in 0..59 /\ d.sec \in 0..59
    /\ d.year = 2100 => d.month = 1 /\ d.day = 1
InCentury(d) == IsDate(d) /\ d.year <= 2099

YearStart(y) == (y \div 4) * 1461 + YearDay[(y % 4) + 1]
DaysBefore(d) ==
    YearStart(d.year - 2000) + SumMonthDay[d.month]
        + LeapDay(d.year - 2000, d.month) + d.day - 1

RtcRecords ==
    [ctl : SUBSET {"RTCE", "AE", "AIE", "1HZ", "1HZIE", "AF", "WRDY"},
     now : Nat, alarm : Nat, armed : BOOLEAN, told : BOOLEAN]
RtcIInv == IsDate(date) /\ day = DaysBefore(date) /\ rtc \in RtcRecords

(* A year is a day longer every fourth year; in this century, the          *)
(* calendar's rule says the same.                                          *)
LEMMA YearLength ==
    ASSUME NEW y \in Nat
    PROVE  YearStart(y + 1) = YearStart(y) + 365 + (IF y % 4 = 0 THEN 1 ELSE 0)
<1>. DEFINE q == y \div 4
            r == y % 4
<1>1. q \in Nat /\ r \in 0..3 /\ y = 4 * q + r
  OBVIOUS
<1>2. /\ r < 3 => (y + 1) \div 4 = q /\ (y + 1) % 4 = r + 1
      /\ r = 3 => (y + 1) \div 4 = q + 1 /\ (y + 1) % 4 = 0
  BY <1>1
<1>3. /\ YearDay[1] = 0 /\ YearDay[2] = 366 /\ YearDay[3] = 731
      /\ YearDay[4] = 1096
  BY DEF YearDay
<1>4. YearStart(y) = q * 1461 + YearDay[r + 1]
  BY DEF YearStart
<1>. HIDE DEF q, r
<1>5. CASE r < 3
  <2>1. YearStart(y + 1) = q * 1461 + YearDay[r + 2]
    BY <1>1, <1>2, <1>5 DEF YearStart
  <2>2. r = 0 \/ r = 1 \/ r = 2
    BY <1>1, <1>5
  <2>. QED BY <1>1, <1>3, <1>4, <2>1, <2>2 DEF r
<1>6. CASE r = 3
  <2>1. YearStart(y + 1) = (q + 1) * 1461 + YearDay[1]
    BY <1>2, <1>6 DEF YearStart
  <2>. QED BY <1>1, <1>3, <1>4, <1>6, <2>1 DEF r
<1>. QED BY <1>1, <1>5, <1>6

LEMMA CenturyMonths ==
    ASSUME NEW y \in 0..99, NEW m \in 1..12
    PROVE  MonthLength(2000 + y, m) = CASE m = 2 -> IF y % 4 = 0 THEN 29 ELSE 28
                                        [] m \in {4, 6, 9, 11} -> 30
                                        [] OTHER -> 31
<1>1. /\ (2000 + y) % 4 = 0 <=> y % 4 = 0
      /\ (2000 + y) % 100 # 0 \/ (2000 + y) % 400 = 0
  OBVIOUS
<1>. QED BY <1>1 DEF MonthLength

(* The months' table gives each month its length.                          *)
NextMonthStarts(y, m) ==
    SumMonthDay[m + 1] + LeapDay(y, m + 1)
        = SumMonthDay[m] + LeapDay(y, m) + MonthLength(2000 + y, m)

LEMMA MonthsInTable ==
    ASSUME NEW y \in 0..99, NEW m \in 1..11
    PROVE  NextMonthStarts(y, m)
<1>. USE DEF NextMonthStarts
<1>1. /\ SumMonthDay[1] = 0 /\ SumMonthDay[2] = 31 /\ SumMonthDay[3] = 59
      /\ SumMonthDay[4] = 90 /\ SumMonthDay[5] = 120 /\ SumMonthDay[6] = 151
      /\ SumMonthDay[7] = 181 /\ SumMonthDay[8] = 212 /\ SumMonthDay[9] = 243
      /\ SumMonthDay[10] = 273 /\ SumMonthDay[11] = 304 /\ SumMonthDay[12] = 334
  BY DEF SumMonthDay
<1>2. MonthLength(2000 + y, m) = CASE m = 2 -> IF y % 4 = 0 THEN 29 ELSE 28
                                    [] m \in {4, 6, 9, 11} -> 30
                                    [] OTHER -> 31
  BY CenturyMonths
<1>3. m \in {1, 2, 3, 4, 5, 6, 7, 8, 9, 10, 11}
  OBVIOUS
<1>4. CASE m = 1
  BY <1>1, <1>2, <1>4 DEF LeapDay
<1>5. CASE m = 2
  BY <1>1, <1>2, <1>5 DEF LeapDay
<1>6. CASE m \in {3, 4, 5, 6, 7, 8, 9, 10, 11}
  <2>1. LeapDay(y, m + 1) = LeapDay(y, m)
    BY <1>6 DEF LeapDay
  <2>2. LeapDay(y, m) \in {0, 1}
    BY DEF LeapDay
  <2>3. SumMonthDay[m + 1] = SumMonthDay[m] + MonthLength(2000 + y, m)
    BY <1>1, <1>2, <1>6
  <2>4. SumMonthDay[m] \in Nat /\ MonthLength(2000 + y, m) \in Nat
    BY <1>1, <1>2, <1>6
  <2>. QED BY <2>1, <2>2, <2>3, <2>4
<1>. QED BY <1>3, <1>4, <1>5, <1>6

LEMMA NextMonthIs ==
    ASSUME NEW d \in DateRecords, NEW e, e = [d EXCEPT !.day = 1, !.month = @ + 1]
    PROVE  e = [year |-> d.year, month |-> d.month + 1, day |-> 1,
                hour |-> d.hour, min |-> d.min, sec |-> d.sec]
BY DEF DateRecords

LEMMA NextYearIs ==
    ASSUME NEW d \in DateRecords, NEW e,
           e = [d EXCEPT !.day = 1, !.month = 1, !.year = @ + 1]
    PROVE  e = [year |-> d.year + 1, month |-> 1, day |-> 1,
                hour |-> d.hour, min |-> d.min, sec |-> d.sec]
BY DEF DateRecords

LEMMA TimeOfDayIs ==
    ASSUME NEW d \in DateRecords, NEW e, NEW h, NEW m, NEW c,
           e = [d EXCEPT !.hour = h, !.min = m, !.sec = c]
    PROVE  e = [year |-> d.year, month |-> d.month, day |-> d.day,
                hour |-> h, min |-> m, sec |-> c]
BY DEF DateRecords

AtTime(d, h, m, c) == [d EXCEPT !.hour = h, !.min = m, !.sec = c]

LEMMA AtTimeIs ==
    ASSUME NEW d \in DateRecords, NEW h, NEW m, NEW c
    PROVE  AtTime(d, h, m, c) = [year |-> d.year, month |-> d.month, day |-> d.day,
                                 hour |-> h, min |-> m, sec |-> c]
<1>1. PICK e : e = AtTime(d, h, m, c)
  OBVIOUS
<1>2. e = [d EXCEPT !.hour = h, !.min = m, !.sec = c]
  BY <1>1 DEF AtTime
<1>3. e = [year |-> d.year, month |-> d.month, day |-> d.day,
           hour |-> h, min |-> m, sec |-> c]
  BY <1>2, TimeOfDayIs, Zenon
<1>. QED BY <1>1, <1>3

LEMMA NextDayCounts ==
    ASSUME NEW d, InCentury(d)
    PROVE  /\ IsDate(NextDay(d)) /\ NextDay(d).day # d.day
           /\ DaysBefore(NextDay(d)) = DaysBefore(d) + 1
           /\ NextDay(d).year = d.year
              \/ (NextDay(d).year = d.year + 1 /\ NextDay(d).month = 1
                  /\ NextDay(d).day = 1)
<1>1. PICK y, m, n, h, i, s :
          /\ y = d.year - 2000 /\ m = d.month /\ n = d.day
          /\ h = d.hour /\ i = d.min /\ s = d.sec
  OBVIOUS
<1>2. /\ y \in 0..99 /\ m \in 1..12 /\ n \in 1..31
      /\ h \in 0..23 /\ i \in 0..59 /\ s \in 0..59
      /\ d.year = 2000 + y /\ d \in DateRecords
      /\ n <= MonthLength(2000 + y, m)
  BY <1>1 DEF InCentury, IsDate, DateRecords
<1>3. d = [year |-> 2000 + y, month |-> m, day |-> n, hour |-> h, min |-> i, sec |-> s]
  BY <1>1, <1>2 DEF DateRecords
<1>4. /\ MonthLength(2000 + y, m) \in {28, 29, 30, 31}
      /\ m = 12 => MonthLength(2000 + y, m) = 31
  BY <1>2, CenturyMonths
<1>5. /\ YearStart(y) \in Int /\ SumMonthDay[m] \in Int /\ LeapDay(y, m) \in Int
  <2>1. y \div 4 \in Nat /\ y % 4 \in {0, 1, 2, 3}
    BY <1>2
  <2>2. YearDay[(y % 4) + 1] \in Nat
    BY <2>1 DEF YearDay
  <2>3. YearStart(y) \in Int
    BY <2>1, <2>2 DEF YearStart
  <2>4. SumMonthDay[m] \in Int
    BY <1>2 DEF SumMonthDay
  <2>. QED BY <2>3, <2>4 DEF LeapDay
<1>10. (2000 + y) - 2000 = y /\ (2000 + (y + 1)) - 2000 = y + 1
  BY <1>2
<1>6. DaysBefore(d) = YearStart(y) + SumMonthDay[m] + LeapDay(y, m) + n - 1
  BY <1>3, <1>10 DEF DaysBefore
<1>7. CASE n < MonthLength(2000 + y, m)
  <2>1. NextDay(d) = [year |-> 2000 + y, month |-> m, day |-> n + 1,
                      hour |-> h, min |-> i, sec |-> s]
    BY <1>3, <1>7 DEF NextDay
  <2>2. DaysBefore(NextDay(d)) = YearStart(y) + SumMonthDay[m] + LeapDay(y, m)
                                     + (n + 1) - 1
    BY <1>10, <2>1 DEF DaysBefore
  <2>3. DaysBefore(NextDay(d)) = DaysBefore(d) + 1
    BY <1>2, <1>5, <1>6, <2>2
  <2>4. IsDate(NextDay(d))
    BY <1>2, <1>4, <1>7, <2>1 DEF IsDate, DateRecords
  <2>. QED BY <1>2, <1>3, <2>1, <2>3, <2>4
<1>8. CASE n = MonthLength(2000 + y, m) /\ m < 12
  <2>1. NextDay(d) = [year |-> 2000 + y, month |-> m + 1, day |-> 1,
                      hour |-> h, min |-> i, sec |-> s]
    <3>1. ~(n < MonthLength(2000 + y, m))
      BY <1>2, <1>8
    <3>2. NextDay(d) = [d EXCEPT !.day = 1, !.month = @ + 1]
      BY <1>3, <1>8, <3>1 DEF NextDay
    <3>3. d \in DateRecords
      BY <1>2
    <3>4. NextDay(d) = [year |-> d.year, month |-> d.month + 1, day |-> 1,
                        hour |-> d.hour, min |-> d.min, sec |-> d.sec]
      BY <3>2, <3>3, NextMonthIs
    <3>. QED BY <1>1, <1>2, <3>4
  <2>2. DaysBefore(NextDay(d)) = YearStart(y) + SumMonthDay[m + 1]
                                     + LeapDay(y, m + 1) + 1 - 1
    BY <1>10, <2>1 DEF DaysBefore
  <2>3. SumMonthDay[m + 1] + LeapDay(y, m + 1) = SumMonthDay[m] + LeapDay(y, m) + n
    <3>1. m \in 1..11 /\ y \in 0..99
      BY <1>2, <1>8
    <3>2. NextMonthStarts(y, m)
      BY <3>1, MonthsInTable
    <3>. QED BY <1>8, <3>2 DEF NextMonthStarts
  <2>4. SumMonthDay[m + 1] \in Int /\ LeapDay(y, m + 1) \in Int
    BY <1>2, <1>8 DEF SumMonthDay, LeapDay
  <2>5. DaysBefore(NextDay(d)) = DaysBefore(d) + 1
    BY <1>2, <1>5, <1>6, <2>2, <2>3, <2>4
  <2>6. 1 <= MonthLength(2000 + y, m + 1)
    BY <1>2, <1>8, CenturyMonths
  <2>7. IsDate(NextDay(d))
    BY <1>2, <1>8, <2>1, <2>6 DEF IsDate, DateRecords
  <2>. QED BY <1>2, <1>3, <1>4, <1>8, <2>1, <2>5, <2>7
<1>9. CASE n = MonthLength(2000 + y, m) /\ m = 12
  <2>1. NextDay(d) = [year |-> 2000 + (y + 1), month |-> 1, day |-> 1,
                      hour |-> h, min |-> i, sec |-> s]
    <3>1. ~(n < MonthLength(2000 + y, m)) /\ ~(m < 12)
      BY <1>2, <1>9
    <3>2. (2000 + y) + 1 = 2000 + (y + 1)
      BY <1>2
    <3>3. NextDay(d) = [d EXCEPT !.day = 1, !.month = 1, !.year = @ + 1]
      BY <1>3, <3>1 DEF NextDay
    <3>4. d \in DateRecords
      BY <1>2
    <3>5. NextDay(d) = [year |-> d.year + 1, month |-> 1, day |-> 1,
                        hour |-> d.hour, min |-> d.min, sec |-> d.sec]
      BY <3>3, <3>4, NextYearIs
    <3>. QED BY <1>1, <1>2, <3>2, <3>5
  <2>2. DaysBefore(NextDay(d)) = YearStart(y + 1) + SumMonthDay[1]
                                     + LeapDay(y + 1, 1) + 1 - 1
    BY <1>10, <2>1 DEF DaysBefore
  <2>3. YearStart(y + 1) = YearStart(y) + 365 + (IF y % 4 = 0 THEN 1 ELSE 0)
    BY <1>2, YearLength
  <2>4. /\ SumMonthDay[12] = 334 /\ SumMonthDay[1] = 0
        /\ LeapDay(y, 12) = (IF y % 4 = 0 THEN 1 ELSE 0) /\ LeapDay(y + 1, 1) = 0
    BY DEF SumMonthDay, LeapDay
  <2>5. DaysBefore(NextDay(d)) = DaysBefore(d) + 1
    BY <1>4, <1>5, <1>6, <1>9, <2>2, <2>3, <2>4
  <2>6. \A z : 1 <= MonthLength(z, 1)
    BY DEF MonthLength
  <2>7. IsDate(NextDay(d))
    BY <1>2, <2>1, <2>6 DEF IsDate, DateRecords
  <2>. QED BY <1>2, <1>3, <1>4, <1>9, <2>1, <2>5, <2>7
<1>. QED BY <1>2, <1>4, <1>7, <1>8, <1>9

(* A poll finds the same day or the next one, at a time of the day.        *)
LEMMA LaterIsDate ==
    ASSUME NEW d, InCentury(d), NEW n \in Nat
    PROVE  /\ IsDate(Later(d, n))
           /\ Later(d, n).year = d.year
              \/ (Later(d, n).year = d.year + 1 /\ Later(d, n).month = 1
                  /\ Later(d, n).day = 1)
           /\ DaysBefore(Later(d, n)) =
                  IF Later(d, n).day = d.day THEN DaysBefore(d) ELSE DaysBefore(d) + 1
<1>. DEFINE s == SecondsOfDay(d) + n
<1>1. s \in Nat
  <2>1. d.hour \in Nat /\ d.min \in Nat /\ d.sec \in Nat
    BY DEF InCentury, IsDate, DateRecords
  <2>. QED BY <2>1 DEF SecondsOfDay
<1>. HIDE DEF s
<1>2. PICK e, t : e = (IF s >= 86400 THEN NextDay(d) ELSE d) /\ t = s % 86400
  OBVIOUS
<1>3. PICK h, m, c : h = t \div 3600 /\ m = (t \div 60) % 60 /\ c = t % 60
  OBVIOUS
<1>4. h \in 0..23 /\ m \in 0..59 /\ c \in 0..59
  <2>1. t \in Nat /\ t <= 86399
    BY <1>1, <1>2
  <2>2. t \div 3600 \in Nat /\ t \div 3600 <= 23 /\ t \div 60 \in Nat
    BY <2>1
  <2>3. (t \div 60) % 60 \in 0..59 /\ t % 60 \in 0..59
    BY <2>1, <2>2
  <2>. QED BY <1>3, <2>2, <2>3
<1>5. IsDate(e) /\ DaysBefore(e) = (IF e.day = d.day THEN DaysBefore(d)
                                      ELSE DaysBefore(d) + 1)
      /\ (e.year = d.year \/ (e.year = d.year + 1 /\ e.month = 1 /\ e.day = 1))
  BY <1>2, NextDayCounts DEF InCentury
<1>6. Later(d, n) = AtTime(e, h, m, c)
  <2>1. Later(d, n) = AtTime(IF s >= 86400 THEN NextDay(d) ELSE d,
                             (s % 86400) \div 3600, ((s % 86400) \div 60) % 60,
                             (s % 86400) % 60)
    BY DEF Later, s, AtTime
  <2>. QED BY <1>2, <1>3, <2>1
<1>7. e \in DateRecords
  BY <1>5 DEF IsDate
<1>8. Later(d, n) = [year |-> e.year, month |-> e.month, day |-> e.day,
                     hour |-> h, min |-> m, sec |-> c]
  BY <1>6, <1>7, AtTimeIs
<1>9. IsDate(Later(d, n))
  BY <1>4, <1>5, <1>8 DEF IsDate, DateRecords
<1>10. DaysBefore(Later(d, n)) = DaysBefore(e)
  BY <1>8 DEF DaysBefore
<1>. QED BY <1>5, <1>8, <1>9, <1>10

-----------------------------------------------------------------------------
(* The seconds of a date are those of its days.                            *)
LEMMA SecondsOfDate ==
    ASSUME NEW d, IsDate(d)
    PROVE  /\ MkTime(d) = DaysBefore(d) * 86400 + SecondsOfDay(d)
           /\ DaysBefore(d) \in Nat /\ SecondsOfDay(d) \in Nat
<1>1. PICK y, m, n, h, i, s :
          /\ y = d.year - 2000 /\ m = d.month /\ n = d.day
          /\ h = d.hour /\ i = d.min /\ s = d.sec
  OBVIOUS
<1>2. /\ y \in 0..100 /\ m \in 1..12 /\ n \in 1..31
      /\ h \in 0..23 /\ i \in 0..59 /\ s \in 0..59
      /\ ~(d.year < 2000)
  BY <1>1 DEF IsDate, DateRecords
<1>3. /\ y \div 4 \in Nat /\ YearDay[(y % 4) + 1] \in Nat
      /\ SumMonthDay[m] \in Nat /\ LeapDay(y, m) \in Nat
  <2>1. y \div 4 \in Nat /\ y % 4 \in {0, 1, 2, 3}
    BY <1>2
  <2>. QED BY <1>2, <2>1 DEF YearDay, SumMonthDay, LeapDay
<1>. DEFINE q == y \div 4
            a == YearDay[(y % 4) + 1]
            b == SumMonthDay[m]
            l == LeapDay(y, m)
<1>4. MkTime(d) = (((q * (365 * 3 + 366) + a + b + l + n - 1) * 24 + h) * 60 + i) * 60 + s
  BY <1>1, <1>2 DEF MkTime
<1>5. DaysBefore(d) = q * 1461 + a + b + l + n - 1
  BY <1>1 DEF DaysBefore, YearStart
<1>6. SecondsOfDay(d) = (h * 60 + i) * 60 + s
  BY <1>1 DEF SecondsOfDay
<1>. HIDE DEF q, a, b, l
<1>7. q \in Nat /\ a \in Nat /\ b \in Nat /\ l \in Nat
  BY <1>3 DEF q, a, b, l
<1>. QED BY <1>2, <1>4, <1>5, <1>6, <1>7

LEMMA RtcInitHolds == RtcInit => RtcIInv
<1>. SUFFICES ASSUME RtcInit PROVE RtcIInv
  OBVIOUS
<1>1. PICK h \in (0..23) \X (0..59) \X (0..59) :
         date = [year |-> 2000, month |-> 1, day |-> 1,
                 hour |-> h[1], min |-> h[2], sec |-> h[3]]
  BY RtcAssumption DEF RtcInit
<1>2. \A z : 1 <= MonthLength(z, 1)
  BY DEF MonthLength
<1>3. IsDate(date)
  BY <1>1, <1>2 DEF IsDate, DateRecords
<1>4. DaysBefore(date) = 0
  <2>1. 2000 - 2000 = 0 /\ 0 \div 4 = 0 /\ 0 % 4 = 0
    OBVIOUS
  <2>2. SumMonthDay[1] = 0 /\ YearDay[1] = 0 /\ LeapDay(0, 1) = 0
    BY DEF SumMonthDay, YearDay, LeapDay
  <2>3. DaysBefore(date) = YearStart(0) + SumMonthDay[1] + LeapDay(0, 1) + 1 - 1
    BY <1>1, <2>1 DEF DaysBefore
  <2>4. YearStart(0) = 0
    BY <2>1, <2>2 DEF YearStart
  <2>. QED BY <2>2, <2>3, <2>4
<1>5. MkTime(date) \in Nat
  BY <1>3, SecondsOfDate
<1>6. rtc \in RtcRecords
  BY <1>5 DEF RtcInit, RtcRecords
<1>. QED BY <1>3, <1>4, <1>6 DEF RtcInit, RtcIInv

(* A poll: the date moves on by the seconds that went by, and the days are *)
(* counted with it.                                                        *)
LEMMA RtcPollHolds == RtcIInv /\ RtcPoll => RtcIInv'
<1>. SUFFICES ASSUME RtcIInv, RtcPoll PROVE RtcIInv'
  OBVIOUS
<1>1. InCentury(date)
  BY RtcAssumption DEF RtcIInv, RtcPoll, InCentury, IsDate, DateRecords
<1>2. PICK n \in Skips :
         /\ date' = Later(date, n)
         /\ day' = IF date'.day = date.day THEN day ELSE day + 1
         /\ rtc' = IF "RTCE" \in rtc.ctl
                   THEN [rtc EXCEPT
                           !.now = MkTime(date'),
                           !.ctl = @ \cup {"1HZ"}
                                   \cup (IF MkTime(date') = rtc.alarm
                                            /\ "AE" \in rtc.ctl
                                         THEN {"AF"} ELSE {}),
                           !.told = "1HZIE" \in rtc.ctl
                                    \/ ((MkTime(date') = rtc.alarm
                                         /\ "AE" \in rtc.ctl)
                                       /\ "AIE" \in rtc.ctl)]
                   ELSE [rtc EXCEPT !.told = FALSE]
  BY DEF RtcPoll
<1>3. n \in Nat
  BY RtcAssumption
<1>4. IsDate(date') /\ DaysBefore(date') = IF date'.day = date.day
                                         THEN DaysBefore(date)
                                         ELSE DaysBefore(date) + 1
  BY <1>1, <1>2, <1>3, LaterIsDate
<1>5. MkTime(date') \in Nat
  <2>1. PICK e : e = date'
    OBVIOUS
  <2>2. IsDate(e)
    BY <1>4, <2>1
  <2>3. MkTime(e) \in Nat
    BY <2>2, SecondsOfDate
  <2>. QED BY <2>1, <2>3
<1>6. rtc' \in RtcRecords
  BY <1>2, <1>5 DEF RtcIInv, RtcRecords
<1>. QED BY <1>2, <1>4, <1>6 DEF RtcIInv, DaysBefore

LEMMA MembershipIsBoolean == \A x, S : (x \in S) \in BOOLEAN
OBVIOUS

LEMMA RtcStepHolds == RtcIInv /\ [RtcNext]_rtcVars => RtcIInv'
<1>. SUFFICES ASSUME RtcIInv, [RtcNext]_rtcVars PROVE RtcIInv'
  OBVIOUS
<1>1. CASE UNCHANGED rtcVars
  BY <1>1 DEF RtcIInv, rtcVars
<1>2. CASE DaysPass
  <2>1. InCentury(date)
    BY <1>2, RtcAssumption DEF RtcIInv, DaysPass, InCentury, IsDate, DateRecords
  <2>2. PICK e : e = NextDay(date)
    OBVIOUS
  <2>3. IsDate(e) /\ DaysBefore(e) = DaysBefore(date) + 1
    BY <2>1, <2>2, NextDayCounts
  <2>. QED BY <1>2, <2>2, <2>3 DEF DaysPass, RtcIInv
<1>3. CASE WritesRcr
  <2>1. PICK b \in {{}, {"RTCE"}, {"RTCE", "AE", "AIE", "1HZIE"}} :
           rtc' = [rtc EXCEPT !.ctl = b, !.armed = "RTCE" \in b, !.told = FALSE]
    BY <1>3 DEF WritesRcr
  <2>2. b \in SUBSET {"RTCE", "AE", "AIE", "1HZ", "1HZIE", "AF", "WRDY"}
    OBVIOUS
  <2>3. rtc' \in RtcRecords
    <3>. DEFINE a == "RTCE" \in b
    <3>1. a \in BOOLEAN
      BY MembershipIsBoolean
    <3>2. rtc' = [rtc EXCEPT !.ctl = b, !.armed = a, !.told = FALSE]
      BY <2>1
    <3>. HIDE DEF a
    <3>. QED BY <2>2, <3>1, <3>2 DEF RtcIInv, RtcRecords
  <2>. QED BY <1>3, <2>3 DEF WritesRcr, RtcIInv
<1>4. CASE ReadsRcr
  <2>1. rtc' \in RtcRecords
    BY <1>4 DEF ReadsRcr, RtcIInv, RtcRecords
  <2>. QED BY <1>4, <2>1 DEF ReadsRcr, RtcIInv
<1>5. CASE WritesAlarm
  <2>1. PICK n \in 1..AlarmSpan : rtc' = [rtc EXCEPT !.alarm = rtc.now + n]
    BY <1>5 DEF WritesAlarm
  <2>2. rtc.now + n \in Nat
    BY RtcAssumption DEF RtcIInv, RtcRecords
  <2>3. rtc' \in RtcRecords
    BY <2>1, <2>2 DEF RtcIInv, RtcRecords
  <2>. QED BY <1>5, <2>3 DEF WritesAlarm, RtcIInv
<1>6. CASE RtcPoll
  BY <1>6, RtcPollHolds
<1>7. CASE RtcReset
  <2>1. MkTime(date) \in Nat
    BY SecondsOfDate DEF RtcIInv
  <2>2. rtc' \in RtcRecords
    BY <1>7, <2>1 DEF RtcReset, RtcIInv, RtcRecords
  <2>. QED BY <1>7, <2>2 DEF RtcReset, RtcIInv
<1>. QED BY <1>1, <1>2, <1>3, <1>4, <1>5, <1>6, <1>7 DEF RtcNext

(* TimeFollowsCalendar: jz_mktime's seconds are those of the days counted  *)
(* one by one, on every day from 2000 to the end of any year up to 2099.   *)
THEOREM ClockFollowsCalendar == RtcSpec => [](RtcTypeOK /\ TimeFollowsCalendar)
<1>1. RtcIInv => RtcTypeOK /\ TimeFollowsCalendar
  <2>. SUFFICES ASSUME RtcIInv PROVE RtcTypeOK /\ TimeFollowsCalendar
    OBVIOUS
  <2>1. TimeFollowsCalendar
    BY SecondsOfDate DEF RtcIInv, TimeFollowsCalendar
  <2>2. RtcTypeOK
    BY DEF RtcIInv, RtcRecords, IsDate, DateRecords, RtcTypeOK
  <2>. QED BY <2>1, <2>2
<1>. QED BY <1>1, RtcInitHolds, RtcStepHolds, PTL DEF RtcSpec

-----------------------------------------------------------------------------
(* The network card, for any frames, buffer and line: no event is lost on  *)
(* its way to the driver, and what the driver reads as one frame is one.   *)
NicRecords ==
    [rxOn : BOOLEAN, txOn : BOOLEAN,
     accept : SUBSET {"me", "all", "group", "promiscuous"},
     rxIrq : BOOLEAN, txIrq : BOOLEAN, irqOn : BOOLEAN,
     isq : SUBSET {"Rx", "Tx"}, rxEvent : SUBSET {"RxOK", "all", "group", "me"},
     txOk : BOOLEAN, bufEvent : SUBSET {"SWint", "Rdy4Tx"},
     rxLength : 0..MaxLength, txLength : 0..MaxLength,
     rxIndex : 0..MaxLength, txIndex : 0..MaxLength,
     armed : BOOLEAN, dead : BOOLEAN]
DriverRecords ==
    [phase : {"boot", "idle", "isr", "receiving", "sending"},
     left : 0..MaxLength, got : Seq(Nat \X Nat), awaits : BOOLEAN]

NicTyped ==
    /\ nic \in NicRecords /\ driver \in DriverRecords
    /\ rxRam \in [1..MaxLength -> Nat \X Nat] /\ arrived \in Nat
    /\ ports \in PortStates
    /\ line \in [ipr : Rivals \cup {"none", "gpio1"}, raised : BOOLEAN]
    /\ silent \in BOOLEAN /\ unread \in BOOLEAN /\ disturbed \in BOOLEAN

(* The driver sets the card's registers one after the other, and works     *)
(* only when all are set.                                                  *)
OpenedInOrder ==
    /\ nic.rxOn => nic.txOn
    /\ nic.accept # {} => nic.rxOn
    /\ nic.rxIrq => nic.txIrq /\ nic.accept # {}
    /\ driver.phase # "boot" => nic.rxIrq /\ nic.irqOn

(* What ISQ holds is told of by the pin's flag also while the driver       *)
(* starts or sends; while it serves the interrupt it reads ISQ until       *)
(* nothing is left.                                                        *)
EventsKept ==
    /\ driver.awaits => "Tx" \in nic.isq /\ nic.txOk
    /\ unread => "Rx" \in nic.isq /\ "RxOK" \in nic.rxEvent
    /\ (driver.phase \in {"boot", "idle", "sending"} /\ nic.isq # {} /\ ~silent)
           => NetPin \in ports[NetPort]["FLG"]

(* The buffer holds one frame, of the length the card tells.               *)
BufferWhole ==
    \E f \in Nat : \A h \in 1..nic.rxLength : rxRam[h] = <<f, h>>

LengthKept ==
    /\ "RxOK" \in nic.rxEvent => nic.rxLength > 0
    /\ driver.phase = "receiving" => driver.left > 0

(* Nothing has come in between: the driver is as far in the frame as the   *)
(* card's index says.                                                      *)
ReadingInStep ==
    /\ "RxOK" \in nic.rxEvent => BufferWhole
    /\ driver.phase # "receiving" => nic.rxIndex = 0
    /\ driver.phase = "receiving" =>
           /\ "RxOK" \notin nic.rxEvent /\ BufferWhole
           /\ nic.rxIndex = Len(driver.got)
           /\ driver.left + Len(driver.got) = nic.rxLength
           /\ \A h \in 1..Len(driver.got) : driver.got[h] = rxRam[h]
    /\ \A h \in 1..Len(driver.got) : driver.got[h] = <<driver.got[1][1], h>>

(* While the driver sends, either the card has already sent a frame whose   *)
(* event waits in ISQ, or what is left to write brings its index to the    *)
(* end: also when a reset left the index inside of a frame.                *)
SendsWhole ==
    driver.phase = "sending" =>
        /\ driver.left > 0
        /\ \/ "Tx" \in nic.isq /\ nic.txOk
           \/ nic.txIndex + driver.left >= nic.txLength

NicIInv ==
    /\ NicTyped /\ OpenedInOrder /\ EventsKept /\ LengthKept
    /\ ~disturbed => ReadingInStep

-----------------------------------------------------------------------------
LEMMA DefaultTyped ==
    ASSUME NEW rx \in 0..MaxLength, NEW tx \in 0..MaxLength, NEW armed \in BOOLEAN
    PROVE  /\ Default(rx, tx, armed) \in NicRecords
           /\ NoFrame \in [1..MaxLength -> Nat \X Nat]
           /\ PortDefault \in PortStates
           /\ Calm \in [ipr : Rivals \cup {"none", "gpio1"}, raised : BOOLEAN]
           /\ Driver("boot") \in DriverRecords
           /\ Len(Driver("boot").got) = 0
<1>1. MaxLength \in Nat /\ 0 \in 0..MaxLength
  BY Cs8900Assumption
<1>2. Default(rx, tx, armed) \in NicRecords
  BY <1>1 DEF Default, NicRecords
<1>3. PortDefault \in PortStates
  BY DEF PortDefault, PortStates
<1>. QED BY <1>1, <1>2, <1>3 DEF NoFrame, Calm, Driver, DriverRecords

LEMMA NicInitHolds == NicInit => NicIInv
<1>. SUFFICES ASSUME NicInit PROVE NicIInv
  OBVIOUS
<1>1. 0 \in 0..MaxLength
  BY Cs8900Assumption
<1>2. NicTyped
  BY <1>1, DefaultTyped DEF NicInit, NicTyped
<1>3. /\ nic.accept = {} /\ ~nic.rxIrq /\ ~nic.rxOn /\ nic.isq = {}
      /\ nic.rxEvent = {} /\ nic.rxIndex = 0
  BY DEF NicInit, Default
<1>4. driver.phase = "boot" /\ ~driver.awaits /\ Len(driver.got) = 0
  BY DEF NicInit, Driver
<1>5. ReadingInStep
  BY <1>3, <1>4 DEF ReadingInStep
<1>. QED BY <1>2, <1>3, <1>4, <1>5
         DEF NicInit, NicIInv, OpenedInOrder, EventsKept, LengthKept

(* Events, and the pin's flag.                                             *)
LEMMA PortsTyped ==
    ASSUME NEW g \in PortStates, NEW p \in Ports, NEW pin \in Pins,
           NEW pins \in SUBSET Pins, NEW size
    PROVE  /\ FlagSet(g, p, pin) \in PortStates
           /\ pin \in FlagSet(g, p, pin)[p]["FLG"]
           /\ FlagsCleared(g, p, pins) \in PortStates
<1>1. "DAT" \in PlainRegs /\ "FLG" \in PortRegs /\ "DAT" \in PortRegs
  BY DEF PlainRegs, PortRegs
<1>. HIDE DEF PortRegs, PlainRegs
<1>2. /\ FlagSet(g, p, pin) \in PortStates
      /\ pin \in FlagSet(g, p, pin)[p]["FLG"]
      /\ FlagsCleared(g, p, pins) \in PortStates
  BY <1>1 DEF FlagSet, FlagsCleared, PortStates
<1>. QED BY <1>2

LEMMA PinsSetTyped ==
    ASSUME NEW g \in PortStates, NEW p \in Ports,
           NEW pins \in SUBSET Pins, NEW size
    PROVE  /\ PinsSet(g, p, "DAT", pins, size) \in PortStates
           /\ PinsSet(g, p, "DAT", pins, size)[p]["FLG"] = g[p]["FLG"]
<1>1. "DAT" \in PlainRegs /\ "FLG" \in PortRegs /\ "DAT" \in PortRegs
  BY DEF PlainRegs, PortRegs
<1>2. Reached(pins, size) \in SUBSET Pins
  BY DEF Reached
<1>. QED BY <1>1, <1>2 DEF PinsSet, PortStates

LEMMA PinsClearedTyped ==
    ASSUME NEW g \in PortStates, NEW p \in Ports,
           NEW pins \in SUBSET Pins, NEW size
    PROVE  /\ PinsCleared(g, p, "DAT", pins, size) \in PortStates
           /\ PinsCleared(g, p, "DAT", pins, size)[p]["FLG"] = g[p]["FLG"]
<1>1. "DAT" \in PlainRegs /\ "FLG" \in PortRegs /\ "DAT" \in PortRegs
  BY DEF PlainRegs, PortRegs
<1>. QED BY <1>1 DEF PinsCleared, PortStates

LEMMA LevelsTyped ==
    ASSUME NEW g \in PortStates, NEW p \in Ports, NEW q \in Ports
    PROVE  /\ LevelsRead(g, p) \in PortStates
           /\ LevelsRead(g, p)[q]["FLG"] = g[q]["FLG"]
<1>1. "PIN" \in PortRegs /\ "FLG" \in PortRegs
  BY DEF PortRegs
<1>. HIDE DEF PortRegs
<1>. QED BY <1>1, GpioAssumption DEF LevelsRead, PortStates

LEMMA AnnounceKeeps ==
    ASSUME NicTyped, NEW n \in NicRecords, NEW bits \in SUBSET {"Rx", "Tx"},
           Announce(n, bits)
    PROVE  /\ nic' = [n EXCEPT !.isq = n.isq \cup bits] /\ nic' \in NicRecords
           /\ ports' \in PortStates /\ silent' \in BOOLEAN
           /\ line' \in [ipr : Rivals \cup {"none", "gpio1"}, raised : BOOLEAN]
           /\ ~silent' => NetPin \in ports'[NetPort]["FLG"]
<1>1. nic' = [n EXCEPT !.isq = n.isq \cup bits]
  BY DEF Announce
<1>2. nic' \in NicRecords
  BY <1>1 DEF NicRecords
<1>3. n.irqOn \in BOOLEAN
  BY DEF NicRecords
<1>4. CASE n.irqOn
  <2>1. /\ ports' = FlagSet(ports, NetPort, NetPin)
        /\ line' = [ipr |-> "gpio1", raised |-> TRUE]
        /\ silent' = (silent \/ ~n.irqOn)
    BY <1>4 DEF Announce, SetIrq
  <2>2. ports' \in PortStates /\ NetPin \in ports'[NetPort]["FLG"]
    BY <2>1, PortsTyped, Cs8900Assumption DEF NicTyped
  <2>. QED BY <1>1, <1>2, <2>1, <2>2 DEF NicTyped
<1>5. CASE ~n.irqOn
  BY <1>1, <1>2, <1>5 DEF Announce, NicTyped
<1>. QED BY <1>3, <1>4, <1>5

-----------------------------------------------------------------------------
(* A frame arrives.                                                        *)
LEMMA ReasonIs ==
    ASSUME NicTyped, NEW k \in FrameKinds
    PROVE  Reason(k) \in SUBSET {"all", "group", "me"}
BY Cs8900Assumption DEF NicTyped, NicRecords, Reason

LEMMA DeliveredHolds ==
    ASSUME NicIInv, NEW k \in FrameKinds, Delivered(k), k.len <= MaxLength,
           arrived' = arrived + 1, UNCHANGED driver
    PROVE  NicIInv'
<1>. DEFINE len == Padded(k.len)
            ev == nic.rxEvent \cup Reason(k) \cup {"RxOK"}
            n == [nic EXCEPT !.rxLength = len, !.rxEvent = ev]
<1>1. len \in 1..MaxLength
  BY Cs8900Assumption DEF Padded
<1>2. /\ rxRam' = [h \in 1..MaxLength |->
                      IF h <= len THEN <<arrived + 1, h>> ELSE rxRam[h]]
      /\ IF nic.rxIrq THEN Announce(n, {"Rx"}) ELSE Quietly(n)
      /\ unread' = (unread \/ nic.rxIrq)
      /\ disturbed' = (disturbed \/ driver.phase = "receiving")
  BY DEF Delivered
<1>3. ev \in SUBSET {"RxOK", "all", "group", "me"} /\ "RxOK" \in ev
  BY ReasonIs DEF NicIInv, NicTyped, NicRecords
<1>. HIDE DEF ev, len
<1>4. n \in NicRecords /\ n.rxEvent = ev /\ n.rxLength = len
      /\ n.isq = nic.isq /\ n.irqOn = nic.irqOn /\ n.txOk = nic.txOk
      /\ n.rxIndex = nic.rxIndex /\ n.rxOn = nic.rxOn /\ n.txOn = nic.txOn
      /\ n.accept = nic.accept /\ n.rxIrq = nic.rxIrq /\ n.txIrq = nic.txIrq
  <2>1. nic \in NicRecords /\ len \in 0..MaxLength
    BY <1>1, Cs8900Assumption DEF NicIInv, NicTyped
  <2>2. n \in NicRecords
    BY <1>3, <2>1 DEF NicRecords
  <2>. QED BY <2>1, <2>2 DEF NicRecords
<1>. HIDE DEF n
<1>5. /\ nic' \in NicRecords /\ nic'.rxEvent = ev /\ nic'.rxLength = len
      /\ nic'.isq = nic.isq \cup (IF nic.rxIrq THEN {"Rx"} ELSE {})
      /\ nic'.irqOn = nic.irqOn /\ nic'.txOk = nic.txOk
      /\ nic'.rxIndex = nic.rxIndex /\ nic'.rxOn = nic.rxOn /\ nic'.txOn = nic.txOn
      /\ nic'.accept = nic.accept /\ nic'.rxIrq = nic.rxIrq /\ nic'.txIrq = nic.txIrq
      /\ ports' \in PortStates /\ silent' \in BOOLEAN
      /\ line' \in [ipr : Rivals \cup {"none", "gpio1"}, raised : BOOLEAN]
      /\ nic.rxIrq /\ ~silent' => NetPin \in ports'[NetPort]["FLG"]
      /\ ~nic.rxIrq => UNCHANGED <<ports, silent>>
  <2>1. CASE nic.rxIrq
    <3>1. Announce(n, {"Rx"})
      BY <1>2, <2>1
    <3>2. nic' = [n EXCEPT !.isq = n.isq \cup {"Rx"}] /\ nic' \in NicRecords
          /\ ports' \in PortStates /\ silent' \in BOOLEAN
          /\ line' \in [ipr : Rivals \cup {"none", "gpio1"}, raised : BOOLEAN]
          /\ (~silent' => NetPin \in ports'[NetPort]["FLG"])
      BY <1>4, <3>1, AnnounceKeeps DEF NicIInv
    <3>. QED BY <1>4, <2>1, <3>2 DEF NicRecords
  <2>2. CASE ~nic.rxIrq
    BY <1>2, <1>4, <2>2 DEF Quietly, NicIInv, NicTyped
  <2>. QED BY <2>1, <2>2
<1>6. rxRam' \in [1..MaxLength -> Nat \X Nat]
  BY <1>2 DEF NicIInv, NicTyped
<1>7. NicTyped'
  BY <1>2, <1>5, <1>6 DEF NicIInv, NicTyped, NicRecords
<1>8. OpenedInOrder' /\ LengthKept'
  BY <1>1, <1>5 DEF NicIInv, OpenedInOrder, LengthKept
<1>9. EventsKept'
  <2>1. nic.isq \in SUBSET {"Rx", "Tx"}
    BY DEF NicIInv, NicTyped, NicRecords
  <2>2. driver.awaits => "Tx" \in nic'.isq /\ nic'.txOk
    BY <1>5 DEF NicIInv, EventsKept
  <2>3. unread' => "Rx" \in nic'.isq /\ "RxOK" \in nic'.rxEvent
    BY <1>2, <1>3, <1>5 DEF NicIInv, EventsKept
  <2>4. (driver.phase \in {"boot", "idle", "sending"} /\ nic'.isq # {} /\ ~silent')
           => NetPin \in ports'[NetPort]["FLG"]
    BY <1>5, <2>1 DEF NicIInv, EventsKept
  <2>. QED BY <2>2, <2>3, <2>4 DEF EventsKept
<1>10. ASSUME ~disturbed' PROVE ReadingInStep'
  <2>1. BufferWhole'
    <3>1. \A h \in 1..nic'.rxLength : rxRam'[h] = <<arrived + 1, h>>
      BY <1>1, <1>2, <1>5, Cs8900Assumption
    <3>2. arrived + 1 \in Nat
      BY DEF NicIInv, NicTyped
    <3>. QED BY <3>1, <3>2 DEF BufferWhole
  <2>. QED BY <1>2, <1>5, <1>10, <2>1 DEF NicIInv, ReadingInStep
<1>. QED BY <1>7, <1>8, <1>9, <1>10 DEF NicIInv

(* The fields the invariant reads.                                         *)
CoreSame ==
    /\ nic'.rxOn = nic.rxOn /\ nic'.txOn = nic.txOn /\ nic'.accept = nic.accept
    /\ nic'.rxIrq = nic.rxIrq /\ nic'.txIrq = nic.txIrq /\ nic'.irqOn = nic.irqOn
    /\ nic'.isq = nic.isq /\ nic'.rxEvent = nic.rxEvent /\ nic'.txOk = nic.txOk
    /\ nic'.rxLength = nic.rxLength /\ nic'.rxIndex = nic.rxIndex

LEMMA SameHolds ==
    ASSUME NicIInv, NicTyped', CoreSame,
           UNCHANGED <<rxRam, driver, ports, silent, unread, disturbed>>
    PROVE  NicIInv'
<1>1. OpenedInOrder' /\ LengthKept'
  BY DEF NicIInv, CoreSame, OpenedInOrder, LengthKept
<1>2. EventsKept'
  BY DEF NicIInv, CoreSame, EventsKept
<1>3. BufferWhole' <=> BufferWhole
  BY DEF CoreSame, BufferWhole
<1>4. ReadingInStep' <=> ReadingInStep
  BY <1>3 DEF CoreSame, ReadingInStep
<1>. QED BY <1>1, <1>2, <1>4 DEF NicIInv

LEMMA FrameArrivesHolds == NicIInv /\ FrameArrives => NicIInv'
<1>. SUFFICES ASSUME NicIInv, FrameArrives PROVE NicIInv'
  OBVIOUS
<1>1. PICK k \in FrameKinds :
         CASE ~nic.rxOn \/ ~Wanted(k) ->
                UNCHANGED <<nic, rxRam, ports, line, silent, unread, disturbed>>
           [] nic.rxOn /\ Wanted(k) /\ k.len > MaxLength ->
                /\ Dies
                /\ UNCHANGED <<rxRam, ports, line, silent, unread, disturbed>>
           [] OTHER -> Delivered(k)
  BY DEF FrameArrives
<1>2. arrived' = arrived + 1 /\ UNCHANGED driver /\ arrived' \in Nat
  BY DEF FrameArrives, NicIInv, NicTyped
<1>3. CASE ~nic.rxOn \/ ~Wanted(k)
  <2>1. UNCHANGED <<nic, rxRam, ports, line, silent, unread, disturbed>>
    BY <1>1, <1>3
  <2>. QED BY <1>2, <2>1, SameHolds DEF NicIInv, NicTyped, CoreSame
<1>4. CASE nic.rxOn /\ Wanted(k) /\ k.len > MaxLength
  <2>1. Dies /\ UNCHANGED <<rxRam, ports, line, silent, unread, disturbed>>
    BY <1>1, <1>4
  <2>2. nic' \in NicRecords
    BY <2>1 DEF Dies, NicIInv, NicTyped, NicRecords
  <2>3. CoreSame
    BY <2>1 DEF Dies, NicIInv, NicTyped, NicRecords, CoreSame
  <2>4. NicTyped'
    BY <1>2, <2>1, <2>2 DEF NicIInv, NicTyped
  <2>. QED BY <1>2, <2>1, <2>3, <2>4, SameHolds
<1>5. CASE nic.rxOn /\ Wanted(k) /\ ~(k.len > MaxLength)
  <2>1. Delivered(k)
    BY <1>1, <1>5
  <2>2. k.len <= MaxLength
    BY <1>5, Cs8900Assumption
  <2>. QED BY <1>2, <2>1, <2>2, DeliveredHolds
<1>. QED BY <1>3, <1>4, <1>5

-----------------------------------------------------------------------------
(* The driver opens the card, or opens it again.                           *)
LEMMA OpensHolds == NicIInv /\ Opens => NicIInv'
<1>. SUFFICES ASSUME NicIInv, Opens PROVE NicIInv'
  OBVIOUS
<1>1. /\ driver.phase = "boot" /\ UNCHANGED <<rxRam, arrived, unread, disturbed>>
      /\ UNCHANGED <<ports, line, silent>>
      /\ driver' = IF nic.rxIrq THEN Driver("idle") ELSE driver
  BY DEF Opens, WritesLineCtl, WritesRxCtl, WritesConfig, WritesBusCtl, Quietly
<1>2. /\ nic' \in NicRecords
      /\ nic'.isq = nic.isq /\ nic'.rxEvent = nic.rxEvent /\ nic'.txOk = nic.txOk
      /\ nic'.rxLength = nic.rxLength /\ nic'.rxIndex = nic.rxIndex
      /\ OpenedInOrder'
  <2>1. CASE ~nic.rxOn
    <3>1. nic' = [nic EXCEPT !.rxOn = TRUE, !.txOn = TRUE, !.armed = TRUE]
      BY <2>1 DEF Opens, WritesLineCtl, Quietly, NicIInv, OpenedInOrder
    <3>2. nic.accept = {} /\ ~nic.rxIrq
      BY <2>1 DEF NicIInv, OpenedInOrder
    <3>3. driver'.phase = "boot"
      BY <1>1, <3>2
    <3>4. nic' \in NicRecords
      BY <3>1 DEF NicIInv, NicTyped, NicRecords
    <3>. QED BY <3>1, <3>2, <3>3, <3>4
             DEF NicIInv, NicTyped, NicRecords, OpenedInOrder
  <2>2. CASE nic.rxOn /\ nic.accept = {}
    <3>1. WritesRxCtl
      BY <2>2 DEF Opens
    <3>2. PICK a \in {{"me", "all"}, {"promiscuous"}, {"all", "group"}} :
             nic' = [nic EXCEPT !.accept = a]
      BY <3>1 DEF WritesRxCtl, Quietly
    <3>3. a \in SUBSET {"me", "all", "group", "promiscuous"}
      OBVIOUS
    <3>4. ~nic.rxIrq
      BY <2>2 DEF NicIInv, OpenedInOrder
    <3>5. driver'.phase = "boot"
      BY <1>1, <3>4
    <3>6. nic' \in NicRecords
      BY <3>2, <3>3 DEF NicIInv, NicTyped, NicRecords
    <3>. QED BY <2>2, <3>2, <3>4, <3>5, <3>6
             DEF NicIInv, NicTyped, NicRecords, OpenedInOrder
  <2>3. CASE nic.rxOn /\ nic.accept # {} /\ ~nic.rxIrq
    <3>1. nic' = [nic EXCEPT !.rxIrq = TRUE, !.txIrq = TRUE]
      BY <2>3 DEF Opens, WritesConfig, Quietly
    <3>2. driver'.phase = "boot"
      BY <1>1, <2>3
    <3>3. nic' \in NicRecords
      BY <3>1 DEF NicIInv, NicTyped, NicRecords
    <3>. QED BY <2>3, <3>1, <3>2, <3>3
             DEF NicIInv, NicTyped, NicRecords, OpenedInOrder
  <2>4. CASE nic.rxOn /\ nic.accept # {} /\ nic.rxIrq
    <3>1. nic' = [nic EXCEPT !.irqOn = TRUE]
      BY <2>4 DEF Opens, WritesBusCtl, Quietly
    <3>2. nic' \in NicRecords
      BY <3>1 DEF NicIInv, NicTyped, NicRecords
    <3>. QED BY <2>4, <3>1, <3>2
             DEF NicIInv, NicTyped, NicRecords, OpenedInOrder
  <2>. QED BY <2>1, <2>2, <2>3, <2>4
<1>3. /\ driver' \in DriverRecords /\ driver'.phase \in {"boot", "idle"}
      /\ driver'.awaits => driver.awaits
      /\ driver' = driver \/ Len(driver'.got) = 0
  <2>1. 0 \in 0..MaxLength
    BY Cs8900Assumption
  <2>. QED BY <1>1, <2>1 DEF NicIInv, NicTyped, Driver, DriverRecords
<1>4. NicTyped'
  BY <1>1, <1>2, <1>3 DEF NicIInv, NicTyped
<1>5. EventsKept' /\ LengthKept'
  BY <1>1, <1>2, <1>3 DEF NicIInv, EventsKept, LengthKept
<1>6. ReadingInStep => ReadingInStep'
  <2>1. BufferWhole' <=> BufferWhole
    BY <1>1, <1>2 DEF BufferWhole
  <2>. QED BY <1>1, <1>2, <1>3, <2>1 DEF ReadingInStep
<1>. QED BY <1>1, <1>2, <1>4, <1>5, <1>6 DEF NicIInv

(* The card or the board is reset.                                         *)
LEMMA ResetHolds ==
    ASSUME NicIInv, driver' = Driver("boot"), rxRam' = NoFrame, arrived' = arrived,
           nic' = Default(nic.rxIndex, nic.txIndex, nic.armed),
           \/ UNCHANGED <<ports, line>>
           \/ ports' = PortDefault /\ line' = Calm,
           silent' = FALSE, unread' = FALSE,
           disturbed' = (disturbed \/ driver.phase = "receiving")
    PROVE  NicIInv'
<1>1. /\ nic.rxIndex \in 0..MaxLength /\ nic.txIndex \in 0..MaxLength
      /\ nic.armed \in BOOLEAN
  BY DEF NicIInv, NicTyped, NicRecords
<1>2. NicTyped'
  BY <1>1, DefaultTyped DEF NicIInv, NicTyped
<1>3. /\ nic'.accept = {} /\ ~nic'.rxIrq /\ ~nic'.rxOn /\ nic'.isq = {}
      /\ nic'.rxEvent = {} /\ nic'.rxIndex = nic.rxIndex
  BY DEF Default
<1>4. driver'.phase = "boot" /\ ~driver'.awaits /\ Len(driver'.got) = 0
  BY DEF Driver
<1>5. ASSUME ~disturbed' PROVE ReadingInStep'
  <2>1. ~disturbed /\ driver.phase # "receiving"
    BY <1>5
  <2>2. nic'.rxIndex = 0
    BY <1>3, <2>1 DEF NicIInv, ReadingInStep
  <2>3. 1..Len(driver'.got) = {}
    BY <1>4
  <2>. QED BY <1>3, <1>4, <2>2, <2>3 DEF ReadingInStep
<1>. QED BY <1>2, <1>3, <1>4, <1>5 DEF NicIInv, OpenedInOrder, EventsKept, LengthKept

LEMMA ResetsHold == NicIInv /\ (ResetsCard \/ Reboots) => NicIInv'
<1>1. NicIInv /\ ResetsCard => NicIInv'
  <2>. SUFFICES ASSUME NicIInv, ResetsCard PROVE NicIInv'
    OBVIOUS
  <2>1. disturbed' = (disturbed \/ driver.phase = "receiving")
    BY DEF ResetsCard, NicIInv, NicTyped
  <2>. QED BY <2>1, ResetHolds DEF ResetsCard
<1>2. NicIInv /\ Reboots => NicIInv'
  BY ResetHolds DEF Reboots
<1>. QED BY <1>1, <1>2

(* BufCFG announces an event of its own.                                   *)
LEMMA WritesBufCfgHolds == NicIInv /\ WritesBufCfg => NicIInv'
<1>. SUFFICES ASSUME NicIInv, WritesBufCfg PROVE NicIInv'
  OBVIOUS
<1>1. PICK e \in {"SWint", "Rdy4Tx"} :
         Announce([nic EXCEPT !.bufEvent = @ \cup {e}], BufBits)
  BY DEF WritesBufCfg
<1>2. /\ driver.phase = "idle"
      /\ UNCHANGED <<rxRam, driver, arrived, sent, boots, unread, disturbed>>
  BY DEF WritesBufCfg
<1>. DEFINE n == [nic EXCEPT !.bufEvent = @ \cup {e}]
<1>3. n \in NicRecords /\ n.isq = nic.isq
  BY DEF NicIInv, NicTyped, NicRecords
<1>4. /\ n.rxOn = nic.rxOn /\ n.txOn = nic.txOn /\ n.accept = nic.accept
      /\ n.rxIrq = nic.rxIrq /\ n.txIrq = nic.txIrq /\ n.irqOn = nic.irqOn
      /\ n.rxEvent = nic.rxEvent /\ n.txOk = nic.txOk
      /\ n.rxLength = nic.rxLength /\ n.rxIndex = nic.rxIndex
  BY DEF NicIInv, NicTyped, NicRecords
<1>5. Announce(n, BufBits)
  BY <1>1
<1>. HIDE DEF n
<1>6. /\ nic' = [n EXCEPT !.isq = n.isq \cup BufBits] /\ nic' \in NicRecords
      /\ ports' \in PortStates /\ silent' \in BOOLEAN
      /\ line' \in [ipr : Rivals \cup {"none", "gpio1"}, raised : BOOLEAN]
      /\ ~silent' => NetPin \in ports'[NetPort]["FLG"]
  BY <1>3, <1>5, AnnounceKeeps DEF NicIInv, BufBits
<1>7. /\ nic'.rxOn = nic.rxOn /\ nic'.txOn = nic.txOn /\ nic'.accept = nic.accept
      /\ nic'.rxIrq = nic.rxIrq /\ nic'.txIrq = nic.txIrq /\ nic'.irqOn = nic.irqOn
      /\ nic'.rxEvent = nic.rxEvent /\ nic'.txOk = nic.txOk
      /\ nic'.rxLength = nic.rxLength /\ nic'.rxIndex = nic.rxIndex
      /\ nic'.isq = {"Rx", "Tx"}
  <2>1. nic.isq \in SUBSET {"Rx", "Tx"}
    BY DEF NicIInv, NicTyped, NicRecords
  <2>2. nic'.isq = nic.isq \cup {"Rx", "Tx"}
    BY <1>3, <1>6 DEF NicRecords, BufBits
  <2>. QED BY <1>3, <1>4, <1>6, <2>1, <2>2 DEF NicRecords
<1>8. NicTyped' /\ OpenedInOrder' /\ LengthKept'
  BY <1>2, <1>6, <1>7 DEF NicIInv, NicTyped, OpenedInOrder, LengthKept
<1>9. EventsKept'
  BY <1>2, <1>6, <1>7 DEF NicIInv, EventsKept
<1>10. ReadingInStep' <=> ReadingInStep
  <2>1. BufferWhole' <=> BufferWhole
    BY <1>2, <1>7 DEF BufferWhole
  <2>. QED BY <1>2, <1>7, <2>1 DEF ReadingInStep
<1>. QED BY <1>2, <1>8, <1>9, <1>10 DEF NicIInv

-----------------------------------------------------------------------------
(* The interrupt, and the driver's reads of ISQ.                           *)
LEMMA TakesInterruptHolds == NicIInv /\ TakesInterrupt => NicIInv'
<1>. SUFFICES ASSUME NicIInv, TakesInterrupt PROVE NicIInv'
  OBVIOUS
<1>1. /\ driver.phase = "idle" /\ line' = Calm
      /\ UNCHANGED <<nic, rxRam, arrived, silent, unread, disturbed>>
  BY DEF TakesInterrupt
<1>2. /\ driver' \in DriverRecords /\ ports' \in PortStates
      /\ driver'.got = driver.got /\ driver'.awaits = driver.awaits
      /\ driver'.left = driver.left
      /\ \/ driver'.phase = "isr"
         \/ driver'.phase = "idle" /\ ports' = ports
  <2>1. CASE line.ipr = "gpio1" /\ NetPin \in ports[NetPort]["FLG"]
    <3>1. /\ ports' = FlagsCleared(ports, NetPort, {NetPin})
          /\ driver' = [driver EXCEPT !.phase = "isr"]
      BY <2>1 DEF TakesInterrupt
    <3>2. ports' \in PortStates
      BY <3>1, PortsTyped, Cs8900Assumption DEF NicIInv, NicTyped
    <3>. QED BY <3>1, <3>2 DEF NicIInv, NicTyped, DriverRecords
  <2>2. CASE ~(line.ipr = "gpio1" /\ NetPin \in ports[NetPort]["FLG"])
    <3>1. UNCHANGED <<ports, driver>>
      BY <2>2 DEF TakesInterrupt
    <3>. QED BY <1>1, <3>1 DEF NicIInv, NicTyped
  <2>. QED BY <2>1, <2>2
<1>3. NicTyped' /\ OpenedInOrder' /\ LengthKept'
  BY <1>1, <1>2 DEF NicIInv, NicTyped, Calm, OpenedInOrder, LengthKept
<1>4. EventsKept'
  BY <1>1, <1>2 DEF NicIInv, EventsKept
<1>5. ReadingInStep => ReadingInStep'
  <2>1. BufferWhole' <=> BufferWhole
    BY <1>1 DEF BufferWhole
  <2>. QED BY <1>1, <1>2, <2>1 DEF ReadingInStep
<1>. QED BY <1>1, <1>3, <1>4, <1>5 DEF NicIInv

LEMMA ReadsTxEventHolds ==
    ASSUME NicIInv, driver.phase = "isr", ReadsTxEvent,
           silent' = (silent /\ IsqLeft(nic.isq) # {}),
           UNCHANGED <<rxRam, ports, line, arrived, disturbed>>
    PROVE  NicIInv'
<1>1. /\ "Tx" \in nic.isq /\ UNCHANGED unread
      /\ nic' = [nic EXCEPT !.isq = nic.isq \ {"Tx"}, !.txOk = FALSE]
      /\ driver' = [driver EXCEPT !.awaits = driver.awaits /\ ~nic.txOk]
  BY DEF ReadsTxEvent, IsqLeft
<1>2. driver.awaits => nic.txOk
  BY DEF NicIInv, EventsKept
<1>3. driver' = [driver EXCEPT !.awaits = FALSE]
  <2>1. driver.awaits \in BOOLEAN /\ nic.txOk \in BOOLEAN
    BY DEF NicIInv, NicTyped, NicRecords, DriverRecords
  <2>. QED BY <1>1, <1>2, <2>1
<1>4. nic' \in NicRecords
  <2>1. nic.isq \ {"Tx"} \in SUBSET {"Rx", "Tx"}
    BY DEF NicIInv, NicTyped, NicRecords
  <2>. QED BY <1>1, <2>1 DEF NicIInv, NicTyped, NicRecords
<1>5. /\ nic'.rxOn = nic.rxOn /\ nic'.txOn = nic.txOn /\ nic'.accept = nic.accept
      /\ nic'.rxIrq = nic.rxIrq /\ nic'.txIrq = nic.txIrq /\ nic'.irqOn = nic.irqOn
      /\ nic'.isq = nic.isq \ {"Tx"} /\ nic'.rxEvent = nic.rxEvent
      /\ nic'.rxLength = nic.rxLength /\ nic'.rxIndex = nic.rxIndex
  BY <1>1 DEF NicIInv, NicTyped, NicRecords
<1>6. /\ driver' \in DriverRecords /\ driver'.phase = "isr" /\ ~driver'.awaits
      /\ driver'.got = driver.got /\ driver'.left = driver.left
  BY <1>3 DEF NicIInv, NicTyped, DriverRecords
<1>7. silent' \in BOOLEAN
  BY DEF NicIInv, NicTyped
<1>8. NicTyped' /\ OpenedInOrder' /\ LengthKept'
  BY <1>1, <1>4, <1>5, <1>6, <1>7
     DEF NicIInv, NicTyped, OpenedInOrder, LengthKept
<1>9. EventsKept'
  BY <1>1, <1>5, <1>6 DEF NicIInv, EventsKept
<1>10. ReadingInStep => ReadingInStep'
  <2>1. BufferWhole' <=> BufferWhole
    BY <1>5 DEF BufferWhole
  <2>. QED BY <1>5, <1>6, <2>1 DEF ReadingInStep
<1>. QED BY <1>8, <1>9, <1>10 DEF NicIInv

LEMMA ReadsRxEventHolds ==
    ASSUME NicIInv, driver.phase = "isr", ReadsRxEvent,
           silent' = (silent /\ IsqLeft(nic.isq) # {}),
           UNCHANGED <<rxRam, ports, line, arrived, disturbed>>
    PROVE  NicIInv'
<1>1. /\ "Tx" \notin nic.isq /\ unread' = FALSE
      /\ nic' = [nic EXCEPT !.isq = nic.isq \ {"Rx"}, !.rxEvent = {}]
      /\ driver' = IF "RxOK" \in nic.rxEvent
                   THEN [driver EXCEPT !.phase = "receiving",
                                       !.left = nic.rxLength, !.got = << >>]
                   ELSE driver
  BY DEF ReadsRxEvent, IsqLeft
<1>2. ~driver.awaits
  BY <1>1 DEF NicIInv, EventsKept
<1>3. nic' \in NicRecords
  <2>1. nic.isq \ {"Rx"} \in SUBSET {"Rx", "Tx"}
    BY DEF NicIInv, NicTyped, NicRecords
  <2>. QED BY <1>1, <2>1 DEF NicIInv, NicTyped, NicRecords
<1>4. /\ nic'.rxOn = nic.rxOn /\ nic'.txOn = nic.txOn /\ nic'.accept = nic.accept
      /\ nic'.rxIrq = nic.rxIrq /\ nic'.txIrq = nic.txIrq /\ nic'.irqOn = nic.irqOn
      /\ nic'.isq = nic.isq \ {"Rx"} /\ nic'.rxEvent = {} /\ nic'.txOk = nic.txOk
      /\ nic'.rxLength = nic.rxLength /\ nic'.rxIndex = nic.rxIndex
  BY <1>1 DEF NicIInv, NicTyped, NicRecords
<1>5. nic.rxLength \in 0..MaxLength /\ << >> \in Seq(Nat \X Nat)
  BY DEF NicIInv, NicTyped, NicRecords
<1>6. /\ driver' \in DriverRecords
      /\ driver'.awaits = driver.awaits
      /\ \/ driver' = driver /\ "RxOK" \notin nic.rxEvent
         \/ /\ driver'.phase = "receiving" /\ driver'.left = nic.rxLength
            /\ driver'.got = << >> /\ "RxOK" \in nic.rxEvent
  BY <1>1, <1>5 DEF NicIInv, NicTyped, DriverRecords
<1>7. silent' \in BOOLEAN
  BY DEF NicIInv, NicTyped
<1>8. NicTyped' /\ OpenedInOrder' /\ LengthKept'
  BY <1>1, <1>3, <1>4, <1>6, <1>7
     DEF NicIInv, NicTyped, OpenedInOrder, LengthKept
<1>9. EventsKept'
  BY <1>1, <1>2, <1>4, <1>6 DEF EventsKept
<1>10. ReadingInStep => ReadingInStep'
  <2>1. BufferWhole' <=> BufferWhole
    BY <1>4 DEF BufferWhole
  <2>2. CASE driver' = driver
    BY <1>4, <2>1, <2>2 DEF ReadingInStep
  <2>3. CASE driver'.phase = "receiving" /\ driver'.left = nic.rxLength
             /\ driver'.got = << >> /\ "RxOK" \in nic.rxEvent
    <3>1. Len(driver'.got) = 0 /\ 1..Len(driver'.got) = {}
      BY <2>3
    <3>. QED BY <1>4, <1>5, <2>1, <2>3, <3>1 DEF ReadingInStep
  <2>. QED BY <1>6, <2>2, <2>3
<1>. QED BY <1>8, <1>9, <1>10 DEF NicIInv

LEMMA ReadsIsqHolds == NicIInv /\ (ReadsIsq \/ Returns) => NicIInv'
<1>1. NicIInv /\ ReadsIsq => NicIInv'
  BY ReadsTxEventHolds, ReadsRxEventHolds DEF ReadsIsq
<1>2. NicIInv /\ Returns => NicIInv'
  <2>. SUFFICES ASSUME NicIInv, Returns PROVE NicIInv'
    OBVIOUS
  <2>1. /\ driver.phase = "isr" /\ nic.isq = {}
        /\ driver' = [driver EXCEPT !.phase = "idle"]
        /\ UNCHANGED <<nic, rxRam, ports, line, arrived, silent, unread, disturbed>>
    BY DEF Returns
  <2>2. /\ driver' \in DriverRecords /\ driver'.phase = "idle"
        /\ driver'.awaits = driver.awaits
        /\ driver'.got = driver.got /\ driver'.left = driver.left
    BY <2>1 DEF NicIInv, NicTyped, DriverRecords
  <2>3. NicTyped' /\ OpenedInOrder' /\ LengthKept' /\ EventsKept'
    BY <2>1, <2>2 DEF NicIInv, NicTyped, OpenedInOrder, LengthKept, EventsKept
  <2>4. ReadingInStep => ReadingInStep'
    <3>1. BufferWhole' <=> BufferWhole
      BY <2>1 DEF BufferWhole
    <3>. QED BY <2>1, <2>2, <3>1 DEF ReadingInStep
  <2>. QED BY <2>1, <2>3, <2>4 DEF NicIInv
<1>. QED BY <1>1, <1>2

-----------------------------------------------------------------------------
(* The driver passes a frame over, or reads it.                            *)
LEMMA SkipsFrameHolds == NicIInv /\ SkipsFrame => NicIInv'
<1>. SUFFICES ASSUME NicIInv, SkipsFrame PROVE NicIInv'
  OBVIOUS
<1>1. /\ driver.phase = "receiving" /\ driver.got = << >> /\ rxRam' = NoFrame
      /\ driver' = [driver EXCEPT !.phase = "isr", !.left = 0]
      /\ UNCHANGED <<nic, ports, line, arrived, silent, unread, disturbed>>
  BY DEF SkipsFrame
<1>2. 0 \in 0..MaxLength
  BY Cs8900Assumption
<1>3. /\ driver' \in DriverRecords /\ driver'.phase = "isr"
      /\ driver'.awaits = driver.awaits /\ driver'.got = driver.got
  BY <1>1, <1>2 DEF NicIInv, NicTyped, DriverRecords
<1>4. rxRam' \in [1..MaxLength -> Nat \X Nat]
  BY <1>1 DEF NoFrame
<1>5. NicTyped' /\ OpenedInOrder' /\ LengthKept' /\ EventsKept'
  BY <1>1, <1>3, <1>4
     DEF NicIInv, NicTyped, OpenedInOrder, LengthKept, EventsKept
<1>6. ReadingInStep => ReadingInStep'
  <2>1. Len(driver.got) = 0
    BY <1>1
  <2>. QED BY <1>1, <1>3, <2>1 DEF ReadingInStep
<1>. QED BY <1>1, <1>5, <1>6 DEF NicIInv

LEMMA DiesHolds ==
    ASSUME NicIInv, Dies, arrived' \in Nat, line' = line,
           UNCHANGED <<rxRam, driver, ports, silent, unread, disturbed>>
    PROVE  NicIInv'
<1>1. nic' \in NicRecords
  BY DEF Dies, NicIInv, NicTyped, NicRecords
<1>2. CoreSame
  BY DEF Dies, NicIInv, NicTyped, NicRecords, CoreSame
<1>3. NicTyped'
  BY <1>1 DEF NicIInv, NicTyped
<1>. QED BY <1>2, <1>3, SameHolds

LEMMA ReadsDataHolds == NicIInv /\ ReadsData => NicIInv'
<1>. SUFFICES ASSUME NicIInv, ReadsData PROVE NicIInv'
  OBVIOUS
<1>1. /\ driver.phase = "receiving"
      /\ UNCHANGED <<rxRam, ports, line, arrived, silent, unread, disturbed>>
  BY DEF ReadsData
<1>2. CASE nic.rxIndex >= nic.rxLength
  BY <1>1, <1>2, DiesHolds DEF ReadsData, NicIInv, NicTyped
<1>3. CASE ~(nic.rxIndex >= nic.rxLength)
  <2>. DEFINE i == nic.rxIndex
              L == nic.rxLength
              h == rxRam[i + 1]
              g == Append(driver.got, h)
              after == NextIndex(i, L)
              phase == IF driver.left = 1 THEN "isr" ELSE "receiving"
  <2>1. /\ i \in 0..MaxLength /\ L \in 0..MaxLength /\ i < L
        /\ i + 1 \in 1..MaxLength /\ driver.left \in 1..MaxLength
    <3>1. MaxLength \in Nat
      BY Cs8900Assumption
    <3>2. i \in 0..MaxLength /\ L \in 0..MaxLength
      BY DEF NicIInv, NicTyped, NicRecords
    <3>3. driver.left \in 0..MaxLength /\ driver.left > 0
      BY <1>1 DEF NicIInv, NicTyped, DriverRecords, LengthKept
    <3>4. i < L
      BY <1>3, <3>1, <3>2
    <3>. QED BY <3>1, <3>2, <3>3, <3>4
  <2>2. h \in Nat \X Nat /\ driver.got \in Seq(Nat \X Nat)
    BY <2>1 DEF NicIInv, NicTyped, DriverRecords
  <2>3. /\ nic' = [nic EXCEPT !.rxIndex = after]
        /\ driver' = [driver EXCEPT !.got = g, !.left = driver.left - 1,
                                    !.phase = phase]
    BY <1>1, <1>3 DEF ReadsData
  <2>4. after \in 0..MaxLength /\ after = (IF i + 1 >= L THEN 0 ELSE i + 1)
    BY <2>1, Cs8900Assumption DEF NextIndex
  <2>. HIDE DEF h, after
  <2>5. /\ g \in Seq(Nat \X Nat) /\ Len(g) = Len(driver.got) + 1
        /\ \A j \in 1..Len(driver.got) : g[j] = driver.got[j]
        /\ g[Len(driver.got) + 1] = h /\ Len(driver.got) \in Nat
    BY <2>2
  <2>6. driver.left - 1 \in 0..MaxLength /\ phase \in {"isr", "receiving"}
    BY <2>1, Cs8900Assumption
  <2>. HIDE DEF g, phase
  <2>7. /\ nic' \in NicRecords
        /\ nic'.rxOn = nic.rxOn /\ nic'.txOn = nic.txOn /\ nic'.accept = nic.accept
        /\ nic'.rxIrq = nic.rxIrq /\ nic'.txIrq = nic.txIrq
        /\ nic'.irqOn = nic.irqOn /\ nic'.isq = nic.isq
        /\ nic'.rxEvent = nic.rxEvent /\ nic'.txOk = nic.txOk
        /\ nic'.rxLength = L /\ nic'.rxIndex = after
    BY <2>3, <2>4 DEF NicIInv, NicTyped, NicRecords
  <2>8. /\ driver' \in DriverRecords /\ driver'.phase = phase
        /\ driver'.awaits = driver.awaits /\ driver'.got = g
        /\ driver'.left = driver.left - 1
    BY <2>3, <2>5, <2>6 DEF NicIInv, NicTyped, DriverRecords
  <2>9. NicTyped' /\ OpenedInOrder' /\ EventsKept'
    BY <1>1, <2>6, <2>7, <2>8 DEF NicIInv, NicTyped, OpenedInOrder, EventsKept
  <2>10. LengthKept'
    BY <2>1, <2>7, <2>8 DEF NicIInv, LengthKept, phase
  <2>11. ASSUME ReadingInStep PROVE ReadingInStep'
    <3>1. /\ "RxOK" \notin nic.rxEvent /\ BufferWhole
          /\ i = Len(driver.got) /\ driver.left + Len(driver.got) = L
          /\ \A j \in 1..Len(driver.got) : driver.got[j] = rxRam[j]
      BY <1>1, <2>11 DEF ReadingInStep
    <3>2. BufferWhole'
      BY <1>1, <2>7, <3>1 DEF BufferWhole
    <3>3. \A j \in 1..Len(g) : g[j] = rxRam[j]
      <4>1. h = rxRam[Len(driver.got) + 1]
        BY <3>1 DEF h
      <4>2. ASSUME NEW j \in 1..Len(g) PROVE g[j] = rxRam[j]
        <5>1. j \in 1..Len(driver.got) \/ j = Len(driver.got) + 1
          BY <2>5
        <5>. QED BY <2>5, <3>1, <4>1, <5>1
      <4>. QED BY <4>2
    <3>4. PICK f \in Nat : \A j \in 1..L : rxRam[j] = <<f, j>>
      BY <3>1 DEF BufferWhole
    <3>5. Len(g) <= L /\ 1 \in 1..Len(g) /\ L \in Nat
      BY <2>1, <2>5, <3>1
    <3>6. \A j \in 1..Len(g) : g[j] = <<f, j>>
      <4>1. \A j \in 1..Len(g) : j \in 1..L
        <5>1. Len(g) \in Nat
          BY <2>5
        <5>. QED BY <3>5, <5>1
      <4>. QED BY <3>3, <3>4, <4>1
    <3>7. g[1][1] = f
      BY <3>5, <3>6
    <3>8. \A j \in 1..Len(g) : g[j] = <<g[1][1], j>>
      BY <3>6, <3>7
    <3>9. phase # "receiving" => after = 0
      BY <2>1, <2>4, <3>1 DEF phase
    <3>10. phase = "receiving" => after = Len(g) /\ driver.left - 1 + Len(g) = L
      <4>1. ASSUME phase = "receiving" PROVE i + 1 < L /\ driver.left # 1
        BY <2>1, <3>1, <4>1 DEF phase
      <4>2. i \in Nat /\ L \in Nat /\ driver.left \in Nat
        BY <2>1
      <4>3. ASSUME phase = "receiving" PROVE after = i + 1
        BY <2>4, <4>1, <4>2, <4>3
      <4>4. Len(g) = i + 1 /\ driver.left + i = L
        BY <2>5, <3>1
      <4>5. driver.left - 1 + (i + 1) = L
        BY <4>2, <4>4
      <4>. QED BY <4>3, <4>4, <4>5
    <3>. QED BY <1>1, <2>6, <2>7, <2>8, <3>1, <3>2, <3>3, <3>8, <3>9, <3>10
             DEF ReadingInStep
  <2>. QED BY <1>1, <2>9, <2>10, <2>11 DEF NicIInv
<1>. QED BY <1>2, <1>3

-----------------------------------------------------------------------------
(* Sending.                                                                *)
LEMMA StartsSendingHolds == NicIInv /\ StartsSending => NicIInv' /\ SendsWhole'
<1>. SUFFICES ASSUME NicIInv, StartsSending PROVE NicIInv' /\ SendsWhole'
  OBVIOUS
<1>1. PICK n \in SendLengths :
         /\ nic' = [nic EXCEPT !.txLength = n]
         /\ driver' = [driver EXCEPT !.phase = "sending", !.left = n]
  BY DEF StartsSending
<1>2. /\ driver.phase = "idle" /\ ~driver.awaits
      /\ UNCHANGED <<rxRam, ports, line, arrived, silent, unread, disturbed>>
  BY DEF StartsSending
<1>3. n \in 0..MaxLength /\ n > 0
  BY Cs8900Assumption
<1>4. nic' \in NicRecords /\ CoreSame /\ nic'.txLength = n /\ nic'.txIndex \in Nat
  <2>1. nic \in NicRecords /\ nic' = [nic EXCEPT !.txLength = n]
    BY <1>1 DEF NicIInv, NicTyped
  <2>2. nic.txIndex \in 0..MaxLength
    BY <2>1 DEF NicRecords
  <2>3. nic' \in NicRecords /\ CoreSame
    BY <1>3, <2>1 DEF NicRecords, CoreSame
  <2>4. nic'.txLength = n /\ nic'.txIndex = nic.txIndex
    BY <2>1 DEF NicRecords
  <2>. QED BY <2>2, <2>3, <2>4, Cs8900Assumption
<1>5. /\ driver' \in DriverRecords /\ driver'.phase = "sending"
      /\ driver'.awaits = driver.awaits
      /\ driver'.got = driver.got /\ driver'.left = n
  BY <1>1, <1>3 DEF NicIInv, NicTyped, DriverRecords
<1>6. NicTyped' /\ OpenedInOrder' /\ LengthKept' /\ EventsKept'
  BY <1>2, <1>4, <1>5
     DEF NicIInv, NicTyped, OpenedInOrder, LengthKept, EventsKept, CoreSame
<1>7. ReadingInStep => ReadingInStep'
  <2>1. BufferWhole' <=> BufferWhole
    BY <1>2, <1>4 DEF BufferWhole, CoreSame
  <2>. QED BY <1>2, <1>4, <1>5, <2>1 DEF ReadingInStep, CoreSame
<1>8. SendsWhole'
  BY <1>3, <1>4, <1>5 DEF SendsWhole
<1>. QED BY <1>2, <1>6, <1>7, <1>8 DEF NicIInv

LEMMA WroteIs ==
    ASSUME NicIInv, SendsWhole, driver.phase = "sending", driver' = Wrote(driver)
    PROVE  /\ driver' \in DriverRecords /\ driver'.got = driver.got
           /\ driver.left \in Nat /\ driver'.left = driver.left - 1
           /\ driver'.phase = IF driver.left = 1 THEN "idle" ELSE "sending"
           /\ driver'.awaits => driver.awaits \/ driver.left = 1
<1>1. driver \in DriverRecords /\ driver.left \in 0..MaxLength /\ driver.left > 0
  BY DEF NicIInv, NicTyped, DriverRecords, SendsWhole
<1>2. driver.left - 1 \in 0..MaxLength /\ driver.left \in Nat /\ 0 \in 0..MaxLength
  BY <1>1, Cs8900Assumption
<1>3. CASE driver.left = 1
  <2>1. driver' = [driver EXCEPT !.left = 0, !.phase = "idle", !.awaits = TRUE]
    BY <1>3 DEF Wrote
  <2>2. /\ driver' \in DriverRecords /\ driver'.got = driver.got /\ driver'.left = 0
        /\ driver'.phase = "idle"
    BY <1>1, <1>2, <2>1 DEF DriverRecords
  <2>. QED BY <1>2, <1>3, <2>2
<1>4. CASE driver.left # 1
  <2>. DEFINE k == driver.left - 1
  <2>1. driver' = [driver EXCEPT !.left = k] /\ k \in 0..MaxLength
    BY <1>2, <1>4 DEF Wrote
  <2>. HIDE DEF k
  <2>2. /\ driver' \in DriverRecords /\ driver'.got = driver.got /\ driver'.left = k
        /\ driver'.phase = driver.phase /\ driver'.awaits = driver.awaits
    BY <1>1, <2>1 DEF DriverRecords
  <2>. QED BY <1>2, <1>4, <2>2 DEF k
<1>. QED BY <1>3, <1>4

(* The halfword that brings the index to the end sends the frame.          *)
LEMMA TransmittedHolds ==
    ASSUME NicIInv, SendsWhole, driver.phase = "sending", Transmitted,
           driver' = Wrote(driver),
           UNCHANGED <<rxRam, arrived, unread, disturbed>>
    PROVE  NicIInv' /\ SendsWhole'
<1>1. nic.txOn = TRUE /\ nic.txIrq = TRUE
  BY DEF NicIInv, NicTyped, NicRecords, OpenedInOrder
<1>. DEFINE len == Padded(nic.txLength)
            n == [nic EXCEPT !.txIndex = 0, !.txLength = len, !.txOk = TRUE]
<1>2. len \in 0..MaxLength /\ 0 \in 0..MaxLength
  BY Cs8900Assumption DEF Padded, NicIInv, NicTyped, NicRecords
<1>3. Announce(n, {"Tx"})
  BY <1>1 DEF Transmitted, NicIInv, NicTyped, NicRecords
<1>. HIDE DEF len
<1>4. n \in NicRecords
  BY <1>2 DEF NicIInv, NicTyped, NicRecords
<1>5. /\ n.rxOn = nic.rxOn /\ n.txOn = nic.txOn /\ n.accept = nic.accept
      /\ n.rxIrq = nic.rxIrq /\ n.txIrq = nic.txIrq /\ n.irqOn = nic.irqOn
      /\ n.isq = nic.isq /\ n.rxEvent = nic.rxEvent /\ n.txOk = TRUE
      /\ n.rxLength = nic.rxLength /\ n.rxIndex = nic.rxIndex
  BY DEF NicIInv, NicTyped, NicRecords
<1>. HIDE DEF n
<1>6. /\ nic' = [n EXCEPT !.isq = n.isq \cup {"Tx"}] /\ nic' \in NicRecords
      /\ ports' \in PortStates /\ silent' \in BOOLEAN
      /\ line' \in [ipr : Rivals \cup {"none", "gpio1"}, raised : BOOLEAN]
      /\ ~silent' => NetPin \in ports'[NetPort]["FLG"]
  BY <1>3, <1>4, AnnounceKeeps DEF NicIInv
<1>7. /\ nic'.rxOn = nic.rxOn /\ nic'.txOn = nic.txOn /\ nic'.accept = nic.accept
      /\ nic'.rxIrq = nic.rxIrq /\ nic'.txIrq = nic.txIrq /\ nic'.irqOn = nic.irqOn
      /\ nic'.rxEvent = nic.rxEvent /\ nic'.txOk = TRUE
      /\ nic'.rxLength = nic.rxLength /\ nic'.rxIndex = nic.rxIndex
      /\ nic'.isq = nic.isq \cup {"Tx"}
  BY <1>4, <1>5, <1>6 DEF NicRecords
<1>8. /\ driver' \in DriverRecords /\ driver'.phase \in {"idle", "sending"}
      /\ driver'.got = driver.got
      /\ driver'.phase = "sending" => driver'.left > 0
  BY WroteIs DEF SendsWhole
<1>9. NicTyped' /\ OpenedInOrder' /\ LengthKept'
  BY <1>6, <1>7, <1>8 DEF NicIInv, NicTyped, OpenedInOrder, LengthKept
<1>12. SendsWhole'
  BY <1>7, <1>8 DEF SendsWhole
<1>10. EventsKept'
  BY <1>6, <1>7, <1>8 DEF NicIInv, EventsKept
<1>11. ReadingInStep => ReadingInStep'
  <2>1. BufferWhole' <=> BufferWhole
    BY <1>7 DEF BufferWhole
  <2>. QED BY <1>7, <1>8, <2>1 DEF ReadingInStep
<1>. QED BY <1>9, <1>10, <1>11, <1>12 DEF NicIInv

LEMMA WritesDataHolds ==
    NicIInv /\ SendsWhole /\ WritesData => NicIInv' /\ SendsWhole'
<1>. SUFFICES ASSUME NicIInv, SendsWhole, WritesData PROVE NicIInv' /\ SendsWhole'
  OBVIOUS
<1>1. /\ driver.phase = "sending" /\ driver' = Wrote(driver)
      /\ UNCHANGED <<rxRam, arrived, unread, disturbed>>
  BY DEF WritesData
<1>2. CASE nic.txIndex + 1 >= nic.txLength
  BY <1>1, <1>2, TransmittedHolds DEF WritesData
<1>3. CASE ~(nic.txIndex + 1 >= nic.txLength)
  <2>1. /\ nic' = [nic EXCEPT !.txIndex = nic.txIndex + 1]
        /\ UNCHANGED <<ports, line, silent>>
    BY <1>3 DEF WritesData, Quietly
  <2>0. nic.txIndex \in 0..MaxLength /\ nic.txLength \in 0..MaxLength
    BY DEF NicIInv, NicTyped, NicRecords
  <2>2. nic.txIndex + 1 \in 0..MaxLength
    BY <1>3, <2>0, Cs8900Assumption
  <2>3. /\ nic' \in NicRecords /\ CoreSame
        /\ nic'.txIndex = nic.txIndex + 1 /\ nic'.txLength = nic.txLength
    BY <2>1, <2>2 DEF NicIInv, NicTyped, NicRecords, CoreSame
  <2>4. /\ driver' \in DriverRecords /\ driver'.got = driver.got
        /\ driver.left \in Nat /\ driver'.left = driver.left - 1
        /\ driver'.phase = IF driver.left = 1 THEN "idle" ELSE "sending"
        /\ driver'.awaits => driver.awaits \/ driver.left = 1
    BY <1>1, WroteIs
  <2>5. /\ driver.left > 0
        /\ \/ "Tx" \in nic.isq /\ nic.txOk
           \/ nic.txIndex + driver.left >= nic.txLength
    BY <1>1 DEF SendsWhole
  <2>6. driver.left = 1 => "Tx" \in nic.isq /\ nic.txOk
    BY <1>3, <2>5
  <2>7. NicTyped' /\ OpenedInOrder' /\ LengthKept'
    BY <1>1, <2>1, <2>3, <2>4
       DEF NicIInv, NicTyped, OpenedInOrder, LengthKept, CoreSame
  <2>8. EventsKept'
    BY <1>1, <2>1, <2>3, <2>4, <2>6 DEF NicIInv, EventsKept, CoreSame
  <2>9. ReadingInStep => ReadingInStep'
    <3>1. BufferWhole' <=> BufferWhole
      BY <1>1, <2>3 DEF BufferWhole, CoreSame
    <3>. QED BY <1>1, <2>3, <2>4, <3>1 DEF ReadingInStep, CoreSame
  <2>10. SendsWhole'
    <3>1. ASSUME nic.txIndex + driver.left >= nic.txLength
          PROVE  nic'.txIndex + driver'.left >= nic'.txLength
      <4>1. nic.txIndex + 1 + (driver.left - 1) >= nic.txLength
        BY <2>0, <2>4, <3>1
      <4>. QED BY <2>3, <2>4, <4>1
    <3>2. driver'.phase = "sending" => driver'.left > 0
      BY <2>4, <2>5
    <3>3. nic'.isq = nic.isq /\ nic'.txOk = nic.txOk
      BY <2>3 DEF CoreSame
    <3>. QED BY <2>5, <3>1, <3>2, <3>3 DEF SendsWhole
  <2>. QED BY <1>1, <2>7, <2>8, <2>9, <2>10 DEF NicIInv
<1>. QED BY <1>2, <1>3

(* Everything else leaves a frame that is being sent as it is, or the      *)
(* driver sends nothing afterwards.                                        *)
LEMMA SendingStays ==
    ASSUME SendsWhole, UNCHANGED driver, nic.isq \subseteq nic'.isq,
           nic'.txOk = nic.txOk, nic'.txIndex = nic.txIndex,
           nic'.txLength = nic.txLength
    PROVE  SendsWhole'
BY DEF SendsWhole

LEMMA FrameArrivesSends == NicIInv /\ SendsWhole /\ FrameArrives => SendsWhole'
<1>. SUFFICES ASSUME NicIInv, SendsWhole, FrameArrives PROVE SendsWhole'
  OBVIOUS
<1>1. PICK k \in FrameKinds : UNCHANGED nic \/ Dies \/ Delivered(k)
  BY DEF FrameArrives
<1>2. UNCHANGED driver
  BY DEF FrameArrives
<1>3. nic \in NicRecords
  BY DEF NicIInv, NicTyped
<1>4. CASE UNCHANGED nic
  BY <1>2, <1>4, SendingStays
<1>5. CASE Dies
  BY <1>2, <1>3, <1>5, SendingStays DEF Dies, NicRecords
<1>6. CASE Delivered(k)
  <2>. DEFINE ev == nic.rxEvent \cup Reason(k) \cup {"RxOK"}
              len == Padded(k.len)
              n == [nic EXCEPT !.rxLength = len, !.rxEvent = ev]
  <2>1. Announce(n, {"Rx"}) \/ Quietly(n)
    BY <1>6 DEF Delivered
  <2>. HIDE DEF ev, len
  <2>2. /\ n.isq = nic.isq /\ n.txOk = nic.txOk /\ n.txIndex = nic.txIndex
        /\ n.txLength = nic.txLength
        /\ [n EXCEPT !.isq = nic.isq \cup {"Rx"}].isq = nic.isq \cup {"Rx"}
        /\ [n EXCEPT !.isq = nic.isq \cup {"Rx"}].txOk = nic.txOk
        /\ [n EXCEPT !.isq = nic.isq \cup {"Rx"}].txIndex = nic.txIndex
        /\ [n EXCEPT !.isq = nic.isq \cup {"Rx"}].txLength = nic.txLength
    BY <1>3 DEF NicRecords
  <2>. HIDE DEF n
  <2>3. nic' = n \/ nic' = [n EXCEPT !.isq = nic.isq \cup {"Rx"}]
    BY <2>1, <2>2 DEF Announce, Quietly
  <2>. QED BY <1>2, <2>2, <2>3, SendingStays
<1>. QED BY <1>1, <1>4, <1>5, <1>6

LEMMA OthersSend ==
    ASSUME NicIInv, SendsWhole,
           \/ Opens \/ WritesBufCfg \/ TakesInterrupt \/ ReadsIsq \/ Returns
           \/ SkipsFrame \/ ReadsData \/ RivalRaises \/ OthersUsePorts
           \/ ResetsCard \/ Reboots
    PROVE  SendsWhole'
<1>0. driver \in DriverRecords
  BY DEF NicIInv, NicTyped
<1>1. CASE RivalRaises \/ OthersUsePorts
  BY <1>1, SendingStays DEF RivalRaises, OthersUsePorts
<1>2. CASE ResetsCard \/ Reboots
  BY <1>2 DEF ResetsCard, Reboots, Driver, SendsWhole
<1>3. CASE Opens
  <2>1. driver.phase = "boot" /\ (driver' = Driver("idle") \/ driver' = driver)
    BY <1>3 DEF Opens
  <2>. QED BY <2>1 DEF SendsWhole, Driver
<1>4. CASE WritesBufCfg \/ TakesInterrupt
  <2>1. driver.phase = "idle"
        /\ (driver' = [driver EXCEPT !.phase = "isr"] \/ driver' = driver)
    BY <1>4 DEF WritesBufCfg, TakesInterrupt
  <2>. QED BY <1>0, <2>1 DEF SendsWhole, DriverRecords
<1>5. CASE ReadsIsq
  <2>1. driver.phase = "isr"
    BY <1>5 DEF ReadsIsq
  <2>2. CASE ReadsTxEvent
    <3>. DEFINE w == driver.awaits /\ ~nic.txOk
    <3>1. driver' = [driver EXCEPT !.awaits = w]
      BY <2>2 DEF ReadsTxEvent
    <3>. HIDE DEF w
    <3>. QED BY <1>0, <2>1, <3>1 DEF SendsWhole, DriverRecords
  <2>3. CASE ReadsRxEvent
    <3>1. \/ driver' = driver
          \/ driver' = [driver EXCEPT !.phase = "receiving",
                                      !.left = nic.rxLength, !.got = << >>]
      BY <2>3 DEF ReadsRxEvent
    <3>. QED BY <1>0, <2>1, <3>1 DEF SendsWhole, DriverRecords
  <2>. QED BY <1>5, <2>2, <2>3 DEF ReadsIsq
<1>6. CASE Returns \/ SkipsFrame
  <2>1. \/ driver' = [driver EXCEPT !.phase = "idle"]
        \/ driver' = [driver EXCEPT !.phase = "isr", !.left = 0]
    BY <1>6 DEF Returns, SkipsFrame
  <2>. QED BY <1>0, <2>1 DEF SendsWhole, DriverRecords
<1>7. CASE ReadsData
  <2>. DEFINE g == Append(driver.got, rxRam[nic.rxIndex + 1])
              k == driver.left - 1
              phase == IF driver.left = 1 THEN "isr" ELSE driver.phase
  <2>1. driver.phase = "receiving" /\ phase \in {"isr", "receiving"}
    BY <1>7 DEF ReadsData
  <2>2. \/ driver' = driver
        \/ driver' = [driver EXCEPT !.got = g, !.left = k, !.phase = phase]
    BY <1>7 DEF ReadsData
  <2>. HIDE DEF g, k, phase
  <2>. QED BY <1>0, <2>1, <2>2 DEF SendsWhole, DriverRecords
<1>. QED BY <1>1, <1>2, <1>3, <1>4, <1>5, <1>6, <1>7

-----------------------------------------------------------------------------
(* Others' interrupts and pins.                                            *)
LEMMA OthersHold == NicIInv /\ (RivalRaises \/ OthersUsePorts) => NicIInv'
<1>1. NicIInv /\ RivalRaises => NicIInv'
  <2>. SUFFICES ASSUME NicIInv, RivalRaises PROVE NicIInv'
    OBVIOUS
  <2>1. NicTyped'
    BY DEF RivalRaises, SetIrq, NicIInv, NicTyped
  <2>. QED BY <2>1, SameHolds DEF RivalRaises, CoreSame
<1>2. NicIInv /\ OthersUsePorts => NicIInv'
  <2>. SUFFICES ASSUME NicIInv, OthersUsePorts PROVE NicIInv'
    OBVIOUS
  <2>1. UNCHANGED <<nic, rxRam, line, driver, arrived, silent, unread, disturbed>>
    BY DEF OthersUsePorts
  <2>2. ports' \in PortStates /\ ports'[NetPort]["FLG"] = ports[NetPort]["FLG"]
    <3>1. Pins \ {NetPin} \in SUBSET Pins /\ ports \in PortStates
      BY DEF NicIInv, NicTyped
    <3>2. CASE ports' = PinsSet(ports, NetPort, "DAT", Pins \ {NetPin}, "half")
      <4>. DEFINE pins == Pins \ {NetPin}
      <4>1. pins \in SUBSET Pins /\ ports \in PortStates /\ NetPort \in Ports
            /\ NetPin \in Pins /\ ports' = PinsSet(ports, NetPort, "DAT", pins, "half")
        BY <3>1, <3>2, Cs8900Assumption
      <4>. HIDE DEF pins
      <4>2. /\ PinsSet(ports, NetPort, "DAT", pins, "half") \in PortStates
            /\ PinsSet(ports, NetPort, "DAT", pins, "half")[NetPort]["FLG"]
                   = ports[NetPort]["FLG"]
        BY <4>1, PinsSetTyped
      <4>. QED BY <4>1, <4>2
    <3>3. CASE ports' = PinsCleared(ports, NetPort, "DAT", Pins \ {NetPin}, "half")
      <4>. DEFINE pins == Pins \ {NetPin}
      <4>1. pins \in SUBSET Pins /\ ports \in PortStates /\ NetPort \in Ports
            /\ NetPin \in Pins /\ ports' = PinsCleared(ports, NetPort, "DAT", pins, "half")
        BY <3>1, <3>3, Cs8900Assumption
      <4>. HIDE DEF pins
      <4>2. /\ PinsCleared(ports, NetPort, "DAT", pins, "half") \in PortStates
            /\ PinsCleared(ports, NetPort, "DAT", pins, "half")[NetPort]["FLG"]
                   = ports[NetPort]["FLG"]
        BY <4>1, PinsClearedTyped
      <4>. QED BY <4>1, <4>2
    <3>4. CASE \E p \in Ports : ports' = LevelsRead(ports, p)
      BY <3>1, <3>4, LevelsTyped, Cs8900Assumption
    <3>. QED BY <3>2, <3>3, <3>4 DEF OthersUsePorts
  <2>3. NicTyped' /\ OpenedInOrder' /\ LengthKept' /\ EventsKept'
    BY <2>1, <2>2 DEF NicIInv, NicTyped, OpenedInOrder, LengthKept, EventsKept
  <2>4. ReadingInStep' <=> ReadingInStep
    BY <2>1 DEF ReadingInStep, BufferWhole
  <2>. QED BY <2>1, <2>3, <2>4 DEF NicIInv
<1>. QED BY <1>1, <1>2

LEMMA NicStepHolds ==
    NicIInv /\ SendsWhole /\ [NicNext]_nicVars => NicIInv' /\ SendsWhole'
<1>1. NicIInv /\ SendsWhole /\ UNCHANGED nicVars => NicIInv' /\ SendsWhole'
  <2>. SUFFICES ASSUME NicIInv, SendsWhole, UNCHANGED nicVars
                PROVE  NicIInv' /\ SendsWhole'
    OBVIOUS
  <2>1. NicTyped'
    BY DEF nicVars, NicIInv, NicTyped
  <2>2. SendsWhole'
    BY DEF nicVars, SendsWhole
  <2>. QED BY <2>1, <2>2, SameHolds DEF nicVars, CoreSame
<1>. QED BY <1>1, FrameArrivesHolds, FrameArrivesSends, OpensHolds, ResetsHold,
            WritesBufCfgHolds, TakesInterruptHolds, ReadsIsqHolds, SkipsFrameHolds,
            ReadsDataHolds, StartsSendingHolds, WritesDataHolds, OthersHold,
            OthersSend
     DEF NicNext

(* NicIInv: ISQ, the pin's flag and the two indices are what the place the *)
(* driver has reached asks for, whenever a frame arrives or a reset comes. *)
THEOREM NicInductive == NicSpec => [](NicIInv /\ SendsWhole)
<1>1. NicInit => NicIInv /\ SendsWhole
  <2>1. NicInit => SendsWhole
    BY DEF NicInit, Driver, SendsWhole
  <2>. QED BY <2>1, NicInitHolds
<1>. QED BY <1>1, NicStepHolds, PTL DEF NicSpec

(* EventsNotLost: what the card records reaches the driver: an awaited     *)
(* transmission and an announced frame are in ISQ until they are read, and *)
(* the pin's flag tells of them.                                           *)
THEOREM EventsReachDriver == NicSpec => [](NicTypeOK /\ EventsNotLost)
<1>1. NicIInv => NicTypeOK
  BY DEF NicIInv, NicTyped, NicRecords, DriverRecords, NicTypeOK
<1>2. NicIInv => EventsNotLost
  BY DEF NicIInv, EventsKept, EventsNotLost
<1>. QED BY <1>1, <1>2, NicInductive, PTL

(* FramesReadWhole: one buffer and one index suffice for a driver that     *)
(* reads each frame before the next arrives.                               *)
THEOREM FramesAreOne == NicSpec => []FramesReadWhole
<1>1. NicIInv => FramesReadWhole
  <2>. SUFFICES ASSUME NicIInv PROVE FramesReadWhole
    OBVIOUS
  <2>1. DOMAIN driver.got = 1..Len(driver.got)
    BY DEF NicIInv, NicTyped, DriverRecords
  <2>. QED BY <2>1 DEF NicIInv, ReadingInStep, FramesReadWhole
<1>. QED BY <1>1, NicInductive, PTL

-----------------------------------------------------------------------------
(* The device table.  The list is a sequence of devices: a field of it, in *)
(* the order the list's pointers go.                                       *)
Fields == Parts \cup {ListHead}
Field(s, i) == IF i = 0 THEN ListHead ELSE s[i]
After(s, i) == IF i < Len(s) THEN s[i + 1] ELSE None

Links == [Fields -> Parts \cup {None}]
BackLinks == [Parts -> Parts \cup {ListHead, None}]

Apart(s) == \A i, j \in 1..Len(s) : s[i] = s[j] => i = j
Onward(s, n) == \A i \in 0..Len(s) : n[Field(s, i)] = After(s, i)
Backward(s, p) ==
    /\ \A i \in 1..Len(s) : p[s[i]] = Field(s, i - 1)
    /\ \A d \in Parts : p[d] # None => \E i \in 1..Len(s) : s[i] = d
Linked(s, n, p) == Apart(s) /\ Onward(s, n) /\ Backward(s, p)

(* The list is in the order of the addresses.                              *)
Rising(s, b) == \A i, j \in 1..Len(s) : i < j => b[s[i]] <= b[s[j]]

(* A device that is bound is in the table once, at its id.                 *)
Tabled(t, i, B) ==
    /\ \A d \in B : t[i[d]] = d
    /\ \A k \in Ids : t[k] # None => t[k] \in B /\ i[t[k]] = k

Devs(s) == {s[i] : i \in 1..Len(s)}

DevTyped == DevTypeOK /\ next \in Links /\ pprev \in BackLinks
DevIInv ==
    /\ DevTyped
    /\ \E s \in Seq(Parts) : Linked(s, next, pprev) /\ Rising(s, base) /\ bound = Devs(s)
    /\ Tabled(table, id, bound)

LEMMA LeastOf ==
    ASSUME NEW T \in SUBSET Nat, T # {}
    PROVE  \E m \in T : \A n \in T : m <= n
<1>. DEFINE R == {ss \in Nat \X Nat : ss[1] < ss[2]}
<1>1. R = OpToRel(<, Nat)
  BY DEF OpToRel
<1>2. IsWellFoundedOn(R, Nat)
  BY <1>1, NatLessThanWellFounded
<1>. HIDE DEF R
<1>3. PICK m \in T : \A n \in T : ~(<<n, m>> \in R)
  BY <1>2, WFMin
<1>4. \A n \in T : ~(n < m)
  BY <1>3 DEF R
<1>. QED BY <1>3, <1>4

LEMMA FieldsOf ==
    ASSUME NEW s \in Seq(Parts)
    PROVE  /\ Len(s) \in Nat /\ None \notin Fields /\ ListHead \notin Parts
           /\ \A i \in 1..Len(s) : s[i] \in Parts /\ Field(s, i) = s[i] /\ i \in Nat /\ i # 0
           /\ \A i \in 0..Len(s) : Field(s, i) \in Fields /\ i \in Nat
           /\ \A i \in 0..Len(s) : i # 0 => i - 1 \in 0..Len(s) /\ i \in 1..Len(s)
           /\ \A i \in 0..Len(s) : i < Len(s) => i + 1 \in 1..Len(s) /\ After(s, i) = s[i + 1]
           /\ \A i \in 0..Len(s) : i >= Len(s) => i = Len(s) /\ After(s, i) = None
<1>1. Len(s) \in Nat /\ \A i \in 1..Len(s) : s[i] \in Parts
  OBVIOUS
<1>2. None \notin Fields /\ ListHead \notin Parts
  BY DevicesAssumption DEF Fields
<1>3. \A i \in 1..Len(s) : Field(s, i) = s[i] /\ i \in Nat /\ i # 0
  BY <1>1 DEF Field
<1>4. \A i \in 0..Len(s) : Field(s, i) \in Fields /\ i \in Nat
  BY <1>1 DEF Field, Fields
<1>5. \A i \in 0..Len(s) : i # 0 => i - 1 \in 0..Len(s) /\ i \in 1..Len(s)
  BY <1>1
<1>6. \A i \in 0..Len(s) : i < Len(s) => i + 1 \in 1..Len(s) /\ After(s, i) = s[i + 1]
  BY <1>1 DEF After
<1>7. \A i \in 0..Len(s) : i >= Len(s) => i = Len(s) /\ After(s, i) = None
  BY <1>1 DEF After
<1>. QED BY <1>1, <1>2, <1>3, <1>4, <1>5, <1>6, <1>7

LEMMA FieldsApart ==
    ASSUME NEW s \in Seq(Parts), Apart(s), NEW i \in 0..Len(s), NEW j \in 0..Len(s),
           Field(s, i) = Field(s, j)
    PROVE  i = j
<1>1. CASE i = 0
  BY <1>1, FieldsOf DEF Field
<1>2. CASE i # 0
  <2>1. i \in 1..Len(s) /\ Field(s, i) = s[i] /\ s[i] \in Parts /\ s[i] # ListHead
    BY <1>2, FieldsOf
  <2>2. j # 0
    BY <2>1 DEF Field
  <2>3. j \in 1..Len(s) /\ Field(s, j) = s[j]
    BY <2>2, FieldsOf
  <2>. QED BY <2>1, <2>3 DEF Apart
<1>. QED BY <1>1, <1>2

(* A search stops at the first of T, or at the end.                        *)
LEMMA SearchStops ==
    ASSUME NEW s \in Seq(Parts), NEW n \in Links, Onward(s, n), NEW T
    PROVE  \E k \in 0..Len(s) :
              /\ StopsAt(n, T) = Field(s, k)
              /\ \A i \in 1..k : s[i] \notin T
              /\ k < Len(s) => s[k + 1] \in T
<1>. DEFINE S == {k \in 0..Len(s) : k = Len(s) \/ s[k + 1] \in T}
<1>0. Len(s) \in Nat
  BY FieldsOf
<1>1. PICK k \in S : \A j \in S : k <= j
  <2>1. S \subseteq Nat /\ Len(s) \in S
    BY <1>0
  <2>. QED BY <2>1, LeastOf
<1>2. \A i \in 1..k : s[i] \notin T
  <2>1. ASSUME NEW i \in 1..k, s[i] \in T PROVE FALSE
    <3>1. i - 1 \in 0..Len(s) /\ (i - 1) + 1 = i /\ i - 1 < k
      BY <1>0
    <3>2. i - 1 \in S
      BY <2>1, <3>1
    <3>. QED BY <1>1, <3>1, <3>2
  <2>. QED BY <2>1
<1>. DEFINE P == {Field(s, i) : i \in 0..k}
<1>3. P \subseteq Fields /\ k \in 0..Len(s) /\ k \in Nat
  BY <1>0, FieldsOf
<1>4. Walks(n, T, P)
  <2>1. ListHead \in P
    BY <1>3 DEF Field
  <2>2. ASSUME NEW i \in 0..k, n[Field(s, i)] # None, n[Field(s, i)] \notin T
        PROVE  n[Field(s, i)] \in P
    <3>1. i \in 0..Len(s) /\ n[Field(s, i)] = After(s, i)
      BY <1>3, <1>0 DEF Onward
    <3>2. i < Len(s) /\ After(s, i) = s[i + 1] /\ i + 1 \in 1..Len(s)
      BY <2>2, <3>1, <1>0, FieldsOf
    <3>3. i # k
      BY <2>2, <3>1, <3>2, <1>1
    <3>4. i + 1 \in 0..k /\ Field(s, i + 1) = s[i + 1]
      BY <1>3, <3>2, <3>3, FieldsOf
    <3>. QED BY <3>1, <3>2, <3>4
  <2>. QED BY <2>1, <2>2 DEF Walks
<1>5. Walked(n, T) \subseteq P
  BY <1>3, <1>4 DEF Walked, Fields
<1>6. Field(s, k) \in Walked(n, T)
  <2>1. SUFFICES ASSUME NEW F \in SUBSET Fields, Walks(n, T, F), Field(s, k) \notin F
                 PROVE  FALSE
    BY <1>3, FieldsOf DEF Walked, Fields
  <2>. DEFINE B == {i \in 0..k : Field(s, i) \notin F}
  <2>2. B \subseteq Nat /\ k \in B
    BY <1>3, <2>1
  <2>3. PICK m \in B : \A i \in B : m <= i
    BY <2>2, LeastOf
  <2>4. m # 0
    BY <2>1, <2>3 DEF Walks, Field
  <2>5. m - 1 \in 0..k /\ m - 1 \in 0..Len(s) /\ m - 1 < Len(s) /\ (m - 1) + 1 = m
        /\ m \in 1..k /\ m - 1 < m /\ m \in 1..Len(s)
    BY <1>0, <1>3, <2>3, <2>4
  <2>6. Field(s, m - 1) \in F
    BY <2>3, <2>5
  <2>7. n[Field(s, m - 1)] = s[m] /\ s[m] \in Parts /\ s[m] # None /\ s[m] = Field(s, m)
    BY <2>5, FieldsOf DEF Onward, Fields
  <2>. QED BY <1>2, <2>1, <2>3, <2>5, <2>6, <2>7 DEF Walks
<1>7. n[Field(s, k)] = None \/ n[Field(s, k)] \in T
  <2>1. n[Field(s, k)] = After(s, k)
    BY <1>3 DEF Onward
  <2>. QED BY <1>0, <1>1, <1>3, <2>1, FieldsOf
<1>8. ASSUME NEW f \in Walked(n, T), n[f] = None \/ n[f] \in T PROVE f = Field(s, k)
  <2>1. PICK i \in 0..k : f = Field(s, i)
    BY <1>5
  <2>2. i \in 0..Len(s) /\ n[f] = After(s, i)
    BY <1>0, <1>3, <2>1 DEF Onward
  <2>3. i \in S
    <3>1. CASE i < Len(s)
      BY <1>8, <2>2, <3>1, FieldsOf DEF Fields
    <3>2. CASE ~(i < Len(s))
      BY <1>0, <2>2, <3>2
    <3>. QED BY <3>1, <3>2
  <2>4. i = k
    BY <1>1, <1>3, <2>3
  <2>. QED BY <2>1, <2>4
<1>. HIDE DEF P
<1>9. StopsAt(n, T) = Field(s, k)
  BY <1>6, <1>7, <1>8 DEF StopsAt
<1>10. k < Len(s) => s[k + 1] \in T
  BY <1>0, <1>1
<1>. QED BY <1>2, <1>3, <1>9, <1>10
(* A device put behind the first k of the list, and one taken out of it.   *)
Joined(s, k, d) ==
    [i \in 1..(Len(s) + 1) |-> IF i <= k THEN s[i] ELSE IF i = k + 1 THEN d ELSE s[i - 1]]
Left(s, j) == [i \in 1..(Len(s) - 1) |-> IF i < j THEN s[i] ELSE s[i + 1]]

LEMMA FunctionIsSequence ==
    ASSUME NEW D, NEW q \in Nat, NEW t \in [1..q -> D]
    PROVE  t \in Seq(D) /\ Len(t) = q
OBVIOUS

LEMMA JoinedIs ==
    ASSUME NEW s \in Seq(Parts), NEW k \in 0..Len(s), NEW d \in Parts
    PROVE  /\ Joined(s, k, d) \in Seq(Parts) /\ Len(Joined(s, k, d)) = Len(s) + 1
           /\ \A i \in 1..k : i \in 1..Len(s) /\ Joined(s, k, d)[i] = s[i]
           /\ Joined(s, k, d)[k + 1] = d
           /\ \A i \in (k + 2)..(Len(s) + 1) :
                  i - 1 \in 1..Len(s) /\ i - 1 > k /\ Joined(s, k, d)[i] = s[i - 1]
           /\ \A i \in 1..(Len(s) + 1) : i \in 1..k \/ i = k + 1 \/ i \in (k + 2)..(Len(s) + 1)
<1>. DEFINE m == Len(s)
            t == Joined(s, k, d)
<1>1. m \in Nat /\ k \in Nat /\ k <= m /\ \A i \in 1..m : s[i] \in Parts
  OBVIOUS
<1>2. \A i \in 1..(m + 1) : i \in 1..k \/ i = k + 1 \/ i \in (k + 2)..(m + 1)
  BY <1>1
<1>3. \A i \in 1..k : i \in 1..m /\ i \in 1..(m + 1)
  BY <1>1
<1>4. \A i \in (k + 2)..(m + 1) : /\ i - 1 \in 1..m /\ i - 1 > k /\ i \in 1..(m + 1)
                                  /\ ~(i <= k) /\ i # k + 1
  BY <1>1
<1>5. k + 1 \in 1..(m + 1) /\ ~(k + 1 <= k)
  BY <1>1
<1>6. /\ \A i \in 1..k : t[i] = s[i]
      /\ t[k + 1] = d
      /\ \A i \in (k + 2)..(m + 1) : t[i] = s[i - 1]
  BY <1>1, <1>3, <1>4, <1>5 DEF Joined
<1>7. t = [i \in 1..(m + 1) |-> IF i <= k THEN s[i] ELSE IF i = k + 1 THEN d ELSE s[i - 1]]
  BY DEF Joined
<1>. HIDE DEF t, m
<1>8. \A i \in 1..(m + 1) : t[i] \in Parts
  BY <1>1, <1>2, <1>3, <1>4, <1>6
<1>9. m + 1 \in Nat /\ t \in [1..(m + 1) -> Parts]
  <2>1. t = [i \in 1..(m + 1) |-> t[i]]
    BY <1>7
  <2>. QED BY <1>1, <1>8, <2>1
<1>10. t \in Seq(Parts) /\ Len(t) = m + 1
  BY <1>9, FunctionIsSequence
<1>. QED BY <1>2, <1>3, <1>4, <1>6, <1>10 DEF t, m

LEMMA LeftIs ==
    ASSUME NEW s \in Seq(Parts), NEW j \in 1..Len(s)
    PROVE  /\ Left(s, j) \in Seq(Parts) /\ Len(Left(s, j)) = Len(s) - 1
           /\ \A i \in 1..(Len(s) - 1) : i < j => i \in 1..Len(s) /\ Left(s, j)[i] = s[i]
           /\ \A i \in 1..(Len(s) - 1) :
                  ~(i < j) => i + 1 \in 1..Len(s) /\ i + 1 > j /\ Left(s, j)[i] = s[i + 1]
<1>. DEFINE m == Len(s)
            t == Left(s, j)
<1>1. m \in Nat /\ j \in Nat /\ j <= m /\ 1 <= j /\ \A i \in 1..m : s[i] \in Parts
  OBVIOUS
<1>2. t = [i \in 1..(m - 1) |-> IF i < j THEN s[i] ELSE s[i + 1]] /\ m - 1 \in Nat
  BY <1>1 DEF Left
<1>3. \A i \in 1..(m - 1) : i \in 1..m /\ i + 1 \in 1..m /\ (~(i < j) => i + 1 > j)
  BY <1>1
<1>. HIDE DEF t, m
<1>4. \A i \in 1..(m - 1) : (i < j => t[i] = s[i]) /\ (~(i < j) => t[i] = s[i + 1])
  BY <1>2
<1>5. t \in [1..(m - 1) -> Parts]
  <2>1. \A i \in 1..(m - 1) : t[i] \in Parts
    BY <1>1, <1>3, <1>4
  <2>2. t = [i \in 1..(m - 1) |-> t[i]]
    BY <1>2
  <2>. QED BY <2>1, <2>2
<1>6. t \in Seq(Parts) /\ Len(t) = m - 1
  BY <1>2, <1>5, FunctionIsSequence
<1>. QED BY <1>3, <1>4, <1>6 DEF t, m

(* vm_bind_device's assignments link the device in where the search ended. *)
LinkedIn(n, f, d) == [n EXCEPT ![d] = n[f], ![f] = d]
LinkedBack(n, p, f, d) ==
    [e \in Parts |-> IF e = d THEN f ELSE IF e = n[f] THEN d ELSE p[e]]

LEMMA JoinedLinked ==
    ASSUME NEW s \in Seq(Parts), NEW n \in Links, NEW p \in BackLinks, Linked(s, n, p),
           NEW k \in 0..Len(s), NEW d \in Parts, \A i \in 1..Len(s) : s[i] # d
    PROVE  /\ LinkedIn(n, Field(s, k), d) \in Links
           /\ LinkedBack(n, p, Field(s, k), d) \in BackLinks
           /\ Linked(Joined(s, k, d), LinkedIn(n, Field(s, k), d),
                     LinkedBack(n, p, Field(s, k), d))
<1>. DEFINE m == Len(s)
            f == Field(s, k)
            t == Joined(s, k, d)
            n2 == LinkedIn(n, f, d)
            p2 == LinkedBack(n, p, f, d)
<1>1. /\ m \in Nat /\ k \in Nat /\ k <= m /\ f \in Fields /\ d \in Fields /\ f # d
      /\ None \notin Fields
  BY FieldsOf DEF Field, Fields
<1>2. /\ t \in Seq(Parts) /\ Len(t) = m + 1
      /\ \A i \in 1..k : i \in 1..m /\ t[i] = s[i]
      /\ t[k + 1] = d
      /\ \A i \in (k + 2)..(m + 1) : i - 1 \in 1..m /\ i - 1 > k /\ t[i] = s[i - 1]
      /\ \A i \in 1..(m + 1) : i \in 1..k \/ i = k + 1 \/ i \in (k + 2)..(m + 1)
  BY JoinedIs
<1>3. /\ n2 \in Links /\ n2[f] = d /\ n2[d] = n[f]
      /\ \A e \in Fields : e # d /\ e # f => n2[e] = n[e]
  BY <1>1 DEF LinkedIn, Links, Fields
<1>4. /\ p2 \in BackLinks /\ p2[d] = f
      /\ \A e \in Parts : e # d /\ e = n[f] => p2[e] = d
      /\ \A e \in Parts : e # d /\ e # n[f] => p2[e] = p[e]
  BY <1>1 DEF LinkedBack, BackLinks, Fields
<1>5. /\ \A i \in 1..m : s[i] \in Parts /\ Field(s, i) = s[i] /\ s[i] # d
      /\ \A i \in 0..m : n[Field(s, i)] = After(s, i)
      /\ \A i \in 0..m : \A j \in 0..m : Field(s, i) = Field(s, j) => i = j
      /\ \A i \in 1..m : p[s[i]] = Field(s, i - 1)
      /\ \A i, j \in 1..m : s[i] = s[j] => i = j
      /\ \A i \in 0..m : Field(s, i) # d /\ Field(s, i) \in Fields
      /\ n[f] = After(s, k)
  BY <1>1, FieldsOf, FieldsApart DEF Linked, Onward, Backward, Apart, Field
<1>. HIDE DEF m, f, t, n2, p2
<1>6. Apart(t)
  <2>. SUFFICES ASSUME NEW i \in 1..(m + 1), NEW j \in 1..(m + 1), t[i] = t[j] PROVE i = j
    BY <1>2 DEF Apart
  <2>1. CASE i \in 1..k
    <3>1. i \in 1..m /\ t[i] = s[i] /\ t[i] # d
      BY <1>2, <1>5, <2>1
    <3>2. CASE j \in 1..k
      <4>1. j \in 1..m /\ t[j] = s[j]
        BY <1>2, <3>2
      <4>. QED BY <1>5, <3>1, <4>1
    <3>3. CASE j \in (k + 2)..(m + 1)
      <4>0. j - 1 \in 1..m /\ t[j] = s[j - 1]
        BY <1>2, <3>3
      <4>1. i = j - 1
        BY <1>5, <3>1, <4>0
      <4>2. i <= k /\ j - 1 > k /\ k \in Nat
        BY <1>1, <2>1, <3>3
      <4>. QED BY <4>1, <4>2
    <3>. QED BY <1>2, <3>1, <3>2, <3>3
  <2>2. CASE i = k + 1
    BY <1>1, <1>2, <1>5, <2>2
  <2>3. CASE i \in (k + 2)..(m + 1)
    <3>1. j # k + 1
      BY <1>2, <1>5, <2>3
    <3>2. CASE j \in 1..k
      <4>1. j = i - 1
        BY <1>2, <1>5, <2>3, <3>2
      <4>2. j <= k /\ i - 1 > k /\ k \in Nat
        BY <1>1, <2>3, <3>2
      <4>. QED BY <4>1, <4>2
    <3>3. CASE j \in (k + 2)..(m + 1)
      <4>1. i - 1 = j - 1
        BY <1>2, <1>5, <2>3, <3>3
      <4>. QED BY <4>1
    <3>. QED BY <1>2, <3>1, <3>2, <3>3
  <2>. QED BY <1>2, <2>1, <2>2, <2>3
<1>7. Onward(t, n2)
  <2>. SUFFICES ASSUME NEW i \in 0..(m + 1) PROVE n2[Field(t, i)] = After(t, i)
    BY <1>2 DEF Onward
  <2>1. CASE i < k
    <3>1. /\ i \in 0..m /\ i + 1 \in 1..k /\ i # k /\ i < m + 1 /\ i < m /\ k \in 0..m
          /\ i = 0 \/ i \in 1..k
      BY <1>1, <2>1
    <3>2. Field(t, i) = Field(s, i)
      BY <1>2, <3>1 DEF Field
    <3>3. n2[Field(t, i)] = n[Field(s, i)]
      BY <1>3, <1>5, <3>1, <3>2 DEF f
    <3>. QED BY <1>2, <1>5, <3>1, <3>3 DEF After, m
  <2>2. CASE i = k
    <3>1. Field(t, i) = f
      BY <1>1, <1>2, <2>2 DEF Field, f
    <3>2. After(t, i) = d
      BY <1>1, <1>2, <2>2 DEF After
    <3>. QED BY <1>3, <3>1, <3>2
  <2>3. CASE i = k + 1
    <3>1. Field(t, i) = d
      BY <1>1, <1>2, <2>3 DEF Field
    <3>2. CASE k < m
      <4>1. i + 1 \in (k + 2)..(m + 1) /\ i < m + 1 /\ (i + 1) - 1 = k + 1
        BY <1>1, <2>3, <3>2
      <4>2. After(t, i) = s[k + 1]
        BY <1>2, <4>1 DEF After
      <4>. QED BY <1>3, <1>5, <3>1, <3>2, <4>2 DEF After, m
    <3>3. CASE k = m
      BY <1>1, <1>2, <1>3, <1>5, <2>3, <3>1, <3>3 DEF After, m
    <3>. QED BY <1>1, <3>2, <3>3
  <2>4. CASE i > k + 1
    <3>1. i \in (k + 2)..(m + 1) /\ i # 0 /\ i - 1 \in 1..m /\ i - 1 # k /\ k \in 0..m
          /\ i - 1 \in 0..m
      BY <1>1, <2>4
    <3>2. Field(t, i) = Field(s, i - 1)
      BY <1>2, <1>5, <3>1 DEF Field
    <3>3. n2[Field(t, i)] = After(s, i - 1)
      BY <1>3, <1>5, <3>1, <3>2 DEF f
    <3>4. CASE i < m + 1
      <4>1. i + 1 \in (k + 2)..(m + 1) /\ i - 1 < m /\ (i + 1) - 1 = (i - 1) + 1
        BY <1>1, <2>4, <3>4
      <4>. QED BY <1>2, <3>3, <3>4, <4>1 DEF After, m
    <3>5. CASE i = m + 1
      BY <1>1, <1>2, <3>3, <3>5 DEF After, m
    <3>. QED BY <1>1, <3>4, <3>5
  <2>. QED BY <1>1, <2>1, <2>2, <2>3, <2>4
<1>8. ASSUME NEW i \in 1..(m + 1) PROVE p2[t[i]] = Field(t, i - 1)
  <2>1. CASE i \in 1..k
    <3>1. /\ i \in 1..m /\ t[i] = s[i] /\ s[i] # d /\ s[i] \in Parts /\ i - 1 \in 0..m
          /\ i - 1 = 0 \/ i - 1 \in 1..k
      BY <1>1, <1>2, <1>5, <2>1
    <3>2. s[i] # n[f]
      <4>1. CASE k < m
        <5>1. k + 1 \in 1..m /\ i # k + 1
          BY <1>1, <2>1, <4>1
        <5>. QED BY <1>5, <3>1, <4>1, <5>1 DEF After, m
      <4>2. CASE ~(k < m)
        BY <1>1, <1>5, <3>1, <4>2 DEF After, m, Fields
      <4>. QED BY <4>1, <4>2
    <3>3. Field(t, i - 1) = Field(s, i - 1)
      BY <1>2, <3>1 DEF Field
    <3>. QED BY <1>4, <1>5, <3>1, <3>2, <3>3
  <2>2. CASE i = k + 1
    <3>1. i - 1 = k /\ t[i] = d
      BY <1>1, <1>2, <2>2
    <3>2. Field(t, k) = Field(s, k)
      BY <1>1, <1>2 DEF Field
    <3>. QED BY <1>4, <3>1, <3>2 DEF f
  <2>3. CASE i = k + 2
    <3>1. i \in (k + 2)..(m + 1) /\ k < m /\ i - 1 = k + 1 /\ k + 1 \in 1..m /\ k + 1 # 0
      BY <1>1, <2>3
    <3>2. t[i] = s[k + 1] /\ n[f] = s[k + 1] /\ Field(t, i - 1) = d
      BY <1>2, <1>5, <3>1 DEF After, Field, m
    <3>. QED BY <1>4, <1>5, <3>1, <3>2
  <2>4. CASE i > k + 2
    <3>1. /\ i \in (k + 2)..(m + 1) /\ i - 1 \in (k + 2)..(m + 1) /\ i - 1 \in 1..m
          /\ k < m /\ k + 1 \in 1..m /\ i - 1 # k + 1 /\ i - 1 # 0 /\ (i - 1) - 1 # 0
          /\ (i - 1) - 1 \in 1..m
      BY <1>1, <2>4
    <3>2. t[i] = s[i - 1] /\ s[i - 1] # d /\ s[i - 1] \in Parts /\ s[i - 1] # n[f]
      BY <1>2, <1>5, <3>1 DEF After, m
    <3>3. Field(t, i - 1) = Field(s, (i - 1) - 1)
      BY <1>2, <3>1 DEF Field
    <3>. QED BY <1>4, <1>5, <3>1, <3>2, <3>3
  <2>. QED BY <1>1, <2>1, <2>2, <2>3, <2>4
<1>9. ASSUME NEW e \in Parts, p2[e] # None PROVE \E i \in 1..(m + 1) : t[i] = e
  <2>1. CASE e = d
    BY <1>1, <1>2, <2>1
  <2>2. CASE e # d
    <3>1. \E i \in 1..m : s[i] = e
      <4>1. CASE e = n[f]
        <5>1. k < m
          BY <1>1, <1>5, <4>1 DEF After, m, Fields
        <5>2. k + 1 \in 1..m /\ n[f] = s[k + 1]
          BY <1>1, <1>5, <5>1 DEF After, m
        <5>. QED BY <4>1, <5>2
      <4>2. CASE e # n[f]
        BY <1>4, <1>9, <2>2, <4>2 DEF Linked, Backward, m
      <4>. QED BY <4>1, <4>2
    <3>2. PICK i \in 1..m : s[i] = e
      BY <3>1
    <3>3. CASE i <= k
      <4>1. i \in 1..k /\ i \in 1..(m + 1)
        BY <1>1, <3>3
      <4>. QED BY <1>2, <3>2, <4>1
    <3>4. CASE ~(i <= k)
      <4>1. i + 1 \in (k + 2)..(m + 1) /\ (i + 1) - 1 = i /\ i + 1 \in 1..(m + 1)
        BY <1>1, <3>4
      <4>2. t[i + 1] = e
        BY <1>2, <3>2, <4>1
      <4>. QED BY <4>1, <4>2
    <3>. QED BY <3>3, <3>4
  <2>. QED BY <2>1, <2>2
<1>10. Backward(t, p2)
  BY <1>2, <1>8, <1>9 DEF Backward
<1>. QED BY <1>3, <1>4, <1>6, <1>7, <1>10 DEF Linked, n2, p2, t, f

LEMMA LeftLinked ==
    ASSUME NEW s \in Seq(Parts), NEW j \in 1..Len(s), Linked(s, next, pprev), DevTyped,
           NEW d \in Parts, s[j] = d
    PROVE  /\ Unlinked(d) \in Links /\ UnlinkedBack(d) \in BackLinks
           /\ Linked(Left(s, j), Unlinked(d), UnlinkedBack(d))
<1>. DEFINE m == Len(s)
            f == Field(s, j - 1)
            t == Left(s, j)
            n2 == Unlinked(d)
            p2 == UnlinkedBack(d)
<1>1. /\ m \in Nat /\ j \in Nat /\ 1 <= j /\ j <= m /\ j - 1 \in 0..m /\ j \in 0..m /\ j # 0
      /\ d \in Fields /\ None \notin Fields /\ f \in Fields /\ Field(s, j) = d
  BY FieldsOf DEF Field, Fields
<1>2. /\ t \in Seq(Parts) /\ Len(t) = m - 1
      /\ \A i \in 1..(m - 1) : i < j => i \in 1..m /\ t[i] = s[i]
      /\ \A i \in 1..(m - 1) : ~(i < j) => i + 1 \in 1..m /\ i + 1 > j /\ t[i] = s[i + 1]
  BY LeftIs
<1>3. /\ \A i \in 1..m : s[i] \in Parts /\ Field(s, i) = s[i]
      /\ \A i \in 0..m : next[Field(s, i)] = After(s, i)
      /\ \A i \in 0..m : \A k \in 0..m : Field(s, i) = Field(s, k) => i = k
      /\ \A i \in 1..m : pprev[s[i]] = Field(s, i - 1)
      /\ \A i, k \in 1..m : s[i] = s[k] => i = k
      /\ \A i \in 0..m : Field(s, i) \in Fields
      /\ next[d] = After(s, j) /\ pprev[d] = f
  BY <1>1, FieldsOf, FieldsApart DEF Linked, Onward, Backward, Apart
<1>4. f # d
  BY <1>1, <1>3
<1>5. /\ n2 \in Links /\ n2[f] = next[d]
      /\ \A e \in Fields : e # d /\ e # f => n2[e] = next[e]
  BY <1>1, <1>3, <1>4 DEF Unlinked, Links, DevTyped, Fields
<1>6. /\ p2 \in BackLinks /\ p2[d] = None
      /\ \A e \in Parts : e # d /\ e = next[d] => p2[e] = f
      /\ \A e \in Parts : e # d /\ e # next[d] => p2[e] = pprev[e]
  BY <1>1, <1>3 DEF UnlinkedBack, BackLinks, DevTyped, Fields
<1>. HIDE DEF m, f, t, n2, p2
<1>7. Apart(t)
  <2>. SUFFICES ASSUME NEW i \in 1..(m - 1), NEW k \in 1..(m - 1), t[i] = t[k] PROVE i = k
    BY <1>2 DEF Apart
  <2>1. CASE i < j /\ k < j
    BY <1>2, <1>3, <2>1
  <2>2. CASE i < j /\ ~(k < j)
    <3>1. i = k + 1 /\ k + 1 > j
      BY <1>2, <1>3, <2>2
    <3>. QED BY <1>1, <2>2, <3>1
  <2>3. CASE ~(i < j) /\ k < j
    <3>1. k = i + 1 /\ i + 1 > j
      BY <1>2, <1>3, <2>3
    <3>. QED BY <1>1, <2>3, <3>1
  <2>4. CASE ~(i < j) /\ ~(k < j)
    <3>1. i + 1 = k + 1
      BY <1>2, <1>3, <2>4
    <3>. QED BY <1>1, <3>1
  <2>. QED BY <2>1, <2>2, <2>3, <2>4
<1>8. Onward(t, n2)
  <2>. SUFFICES ASSUME NEW i \in 0..(m - 1) PROVE n2[Field(t, i)] = After(t, i)
    BY <1>1, <1>2 DEF Onward
  <2>1. CASE i < j - 1
    <3>1. /\ i \in 0..m /\ i + 1 \in 1..(m - 1) /\ i + 1 < j /\ i # j /\ i # j - 1
          /\ i < m /\ i < m - 1 /\ (i = 0 \/ (i \in 1..(m - 1) /\ i < j))
      BY <1>1, <2>1
    <3>2. Field(t, i) = Field(s, i) /\ After(t, i) = s[i + 1] /\ After(s, i) = s[i + 1]
      BY <1>2, <3>1 DEF Field, After, m
    <3>3. n2[Field(t, i)] = next[Field(s, i)]
      BY <1>1, <1>3, <1>5, <3>1, <3>2 DEF f
    <3>. QED BY <1>3, <3>1, <3>2, <3>3
  <2>2. CASE i = j - 1
    <3>1. i = 0 \/ (i \in 1..(m - 1) /\ i < j)
      BY <1>1, <2>2
    <3>2. Field(t, i) = f
      BY <1>2, <2>2, <3>1 DEF Field, f
    <3>3. CASE j < m
      <4>1. j \in 1..(m - 1) /\ ~(j < j) /\ i < m - 1 /\ i + 1 = j
        BY <1>1, <2>2, <3>3
      <4>2. After(t, i) = t[j] /\ t[j] = s[j + 1]
        BY <1>2, <4>1 DEF After
      <4>. QED BY <1>3, <1>5, <3>2, <3>3, <4>2 DEF After, m
    <3>4. CASE j = m
      BY <1>1, <1>2, <1>3, <1>5, <2>2, <3>2, <3>4 DEF After, m
    <3>. QED BY <1>1, <3>3, <3>4
  <2>3. CASE i > j - 1
    <3>1. /\ i \in 1..(m - 1) /\ ~(i < j) /\ i # 0 /\ i + 1 \in 1..m /\ i + 1 # 0
          /\ i + 1 # j /\ i + 1 # j - 1 /\ i + 1 \in 0..m
      BY <1>1, <2>3
    <3>2. Field(t, i) = Field(s, i + 1)
      BY <1>2, <3>1 DEF Field
    <3>3. n2[Field(t, i)] = After(s, i + 1)
      BY <1>1, <1>3, <1>5, <3>1, <3>2 DEF f
    <3>4. CASE i < m - 1
      <4>1. i + 1 \in 1..(m - 1) /\ ~(i + 1 < j) /\ i + 1 < m
        BY <1>1, <3>1, <3>4
      <4>. QED BY <1>2, <3>3, <3>4, <4>1 DEF After, m
    <3>5. CASE i = m - 1
      BY <1>1, <1>2, <3>3, <3>5 DEF After, m
    <3>. QED BY <1>1, <3>4, <3>5
  <2>. QED BY <1>1, <2>1, <2>2, <2>3
<1>9. ASSUME NEW i \in 1..(m - 1) PROVE p2[t[i]] = Field(t, i - 1)
  <2>1. CASE i < j
    <3>1. /\ i \in 1..m /\ i # j /\ i # j + 1 /\ (i - 1 = 0 \/ (i - 1 \in 1..(m - 1) /\ i - 1 < j))
          /\ j \in 1..m
      BY <1>1, <2>1
    <3>2. t[i] = s[i] /\ s[i] # d /\ s[i] \in Parts /\ Field(t, i - 1) = Field(s, i - 1)
      BY <1>2, <1>3, <2>1, <3>1 DEF Field
    <3>3. s[i] # next[d]
      <4>1. CASE j < m
        <5>1. j + 1 \in 1..m
          BY <1>1, <4>1
        <5>. QED BY <1>3, <3>1, <4>1, <5>1 DEF After, m
      <4>2. CASE ~(j < m)
        BY <1>1, <1>3, <3>2, <4>2 DEF After, m, Fields
      <4>. QED BY <4>1, <4>2
    <3>. QED BY <1>3, <1>6, <3>1, <3>2, <3>3
  <2>2. CASE i = j
    <3>1. /\ ~(i < j) /\ j < m /\ j + 1 \in 1..m /\ j + 1 # j /\ j \in 1..m
          /\ (j - 1 = 0 \/ (j - 1 \in 1..(m - 1) /\ j - 1 < j))
      BY <1>1, <2>2
    <3>2. t[i] = s[j + 1] /\ s[j + 1] # d /\ s[j + 1] \in Parts /\ next[d] = s[j + 1]
      BY <1>2, <1>3, <2>2, <3>1 DEF After, m
    <3>3. Field(t, i - 1) = f
      BY <1>2, <2>2, <3>1 DEF Field, f
    <3>. QED BY <1>6, <3>2, <3>3
  <2>3. CASE i > j
    <3>1. /\ ~(i < j) /\ i + 1 \in 1..m /\ i + 1 # j /\ i + 1 # j + 1 /\ j \in 1..m
          /\ i - 1 \in 1..(m - 1) /\ ~(i - 1 < j) /\ i - 1 # 0 /\ (i - 1) + 1 = i
          /\ (i + 1) - 1 = i /\ i # 0 /\ j < m /\ j + 1 \in 1..m
      BY <1>1, <2>3
    <3>2. /\ t[i] = s[i + 1] /\ s[i + 1] # d /\ s[i + 1] \in Parts /\ s[i + 1] # next[d]
          /\ t[i - 1] = s[i]
      <4>1. t[i] = s[i + 1] /\ t[i - 1] = s[i] /\ s[i + 1] \in Parts /\ s[i + 1] # d
        BY <1>2, <1>3, <3>1
      <4>2. next[d] = s[j + 1]
        BY <1>3, <3>1 DEF After, m
      <4>. QED BY <1>3, <3>1, <4>1, <4>2
    <3>3. Field(t, i - 1) = Field(s, i) /\ pprev[s[i + 1]] = Field(s, i)
      BY <1>3, <3>1, <3>2 DEF Field
    <3>. QED BY <1>6, <3>2, <3>3
  <2>. QED BY <1>1, <2>1, <2>2, <2>3
<1>10. ASSUME NEW e \in Parts, p2[e] # None PROVE \E i \in 1..(m - 1) : t[i] = e
  <2>1. e # d
    BY <1>6, <1>10
  <2>2. \E i \in 1..m : s[i] = e
    <3>1. CASE e = next[d]
      <4>1. j < m /\ j + 1 \in 1..m
        BY <1>1, <1>3, <3>1 DEF After, m, Fields
      <4>. QED BY <1>3, <3>1, <4>1 DEF After, m
    <3>2. CASE e # next[d]
      BY <1>6, <1>10, <2>1, <3>2 DEF Linked, Backward, m
    <3>. QED BY <3>1, <3>2
  <2>3. PICK i \in 1..m : s[i] = e
    BY <2>2
  <2>4. i # j
    BY <2>1, <2>3
  <2>5. CASE i < j
    <3>1. i \in 1..(m - 1)
      BY <1>1, <2>5
    <3>. QED BY <1>2, <2>3, <2>5, <3>1
  <2>6. CASE i > j
    <3>1. i - 1 \in 1..(m - 1) /\ ~(i - 1 < j) /\ (i - 1) + 1 = i
      BY <1>1, <2>6
    <3>2. t[i - 1] = e
      BY <1>2, <2>3, <3>1
    <3>. QED BY <3>1, <3>2
  <2>. QED BY <1>1, <2>4, <2>5, <2>6
<1>11. Backward(t, p2)
  BY <1>1, <1>2, <1>9, <1>10 DEF Backward
<1>. QED BY <1>5, <1>6, <1>7, <1>8, <1>11 DEF Linked, n2, p2, t

(* Binding and unbinding keep the order, the bound ones and the table.     *)
Rebased(b, d, a) == [b EXCEPT ![d] = a]

(* The place of address a is behind the first k.                           *)
Splits(s, b, k, a) ==
    /\ \A i \in 1..k : ~(b[s[i]] > a)
    /\ k < Len(s) => b[s[k + 1]] > a

LEMMA JoinedRises ==
    ASSUME NEW s \in Seq(Parts), NEW b \in [Parts -> Nat], Rising(s, b), NEW k \in 0..Len(s),
           NEW d \in Parts, NEW a \in Nat, \A i \in 1..Len(s) : s[i] # d,
           Splits(s, b, k, a)
    PROVE  /\ Rising(Joined(s, k, d), Rebased(b, d, a))
           /\ Devs(Joined(s, k, d)) = Devs(s) \cup {d}
<1>. DEFINE m == Len(s)
            t == Joined(s, k, d)
            c == Rebased(b, d, a)
<1>1. m \in Nat /\ k \in Nat /\ k <= m
  BY FieldsOf
<1>2. /\ t \in Seq(Parts) /\ Len(t) = m + 1
      /\ \A i \in 1..k : i \in 1..m /\ t[i] = s[i]
      /\ t[k + 1] = d
      /\ \A i \in (k + 2)..(m + 1) : i - 1 \in 1..m /\ i - 1 > k /\ t[i] = s[i - 1]
      /\ \A i \in 1..(m + 1) : i \in 1..k \/ i = k + 1 \/ i \in (k + 2)..(m + 1)
  BY JoinedIs
<1>3. /\ c[d] = a /\ \A i \in 1..m : s[i] \in Parts /\ c[s[i]] = b[s[i]] /\ b[s[i]] \in Nat
      /\ \A i, j \in 1..m : i < j => b[s[i]] <= b[s[j]]
  <2>1. \A i \in 1..m : s[i] \in Parts /\ s[i] # d
    BY FieldsOf
  <2>2. c[d] = a /\ \A i \in 1..m : c[s[i]] = b[s[i]] /\ b[s[i]] \in Nat
    BY <2>1 DEF Rebased
  <2>3. \A i, j \in 1..m : i < j => b[s[i]] <= b[s[j]]
    BY DEF Rising
  <2>. QED BY <2>1, <2>2, <2>3
<1>. HIDE DEF m, t, c
<1>4. \A i \in 1..k : b[s[i]] <= a
  BY <1>2, <1>3 DEF Splits
<1>5. \A i \in (k + 1)..m : a <= b[s[i]]
  <2>. SUFFICES ASSUME NEW i \in (k + 1)..m PROVE a <= b[s[i]]
    OBVIOUS
  <2>1. k < m /\ k + 1 \in 1..m /\ i \in 1..m /\ (i = k + 1 \/ k + 1 < i)
    BY <1>1
  <2>2. b[s[k + 1]] > a /\ b[s[k + 1]] \in Nat /\ b[s[i]] \in Nat
    BY <1>3, <2>1 DEF m, Splits
  <2>3. b[s[k + 1]] <= b[s[i]]
    BY <1>3, <2>1, <2>2
  <2>. QED BY <2>2, <2>3
<1>6. ASSUME NEW i \in 1..(m + 1), NEW j \in 1..(m + 1), i < j PROVE c[t[i]] <= c[t[j]]
  <2>1. CASE i \in 1..k /\ j \in 1..k
    <3>1. i \in 1..m /\ j \in 1..m /\ t[i] = s[i] /\ t[j] = s[j]
      BY <1>2, <2>1
    <3>. QED BY <1>3, <1>6, <3>1
  <2>2. CASE i \in 1..k /\ j = k + 1
    BY <1>2, <1>3, <1>4, <2>2
  <2>3. CASE i \in 1..k /\ j \in (k + 2)..(m + 1)
    <3>1. i \in 1..m /\ j - 1 \in 1..m /\ i < j - 1 /\ t[i] = s[i] /\ t[j] = s[j - 1]
      <4>1. i < j - 1
        BY <1>1, <2>3
      <4>. QED BY <1>2, <2>3, <4>1
    <3>. QED BY <1>3, <3>1
  <2>4. CASE i = k + 1 /\ j \in (k + 2)..(m + 1)
    <3>1. j - 1 \in (k + 1)..m /\ j - 1 \in 1..m /\ t[i] = d /\ t[j] = s[j - 1]
      BY <1>1, <1>2, <2>4
    <3>. QED BY <1>3, <1>5, <3>1
  <2>5. CASE i \in (k + 2)..(m + 1) /\ j \in (k + 2)..(m + 1)
    <3>1. i - 1 \in 1..m /\ j - 1 \in 1..m /\ i - 1 < j - 1 /\ t[i] = s[i - 1] /\ t[j] = s[j - 1]
      <4>1. i - 1 < j - 1
        BY <1>1, <1>6
      <4>. QED BY <1>2, <2>5, <4>1
    <3>. QED BY <1>3, <3>1
  <2>6. i \in 1..k => ~(i > k)
    BY <1>1
  <2>. QED BY <1>1, <1>2, <1>6, <2>1, <2>2, <2>3, <2>4, <2>5
<1>7. Devs(t) = Devs(s) \cup {d}
  <2>1. Devs(t) \subseteq Devs(s) \cup {d}
    <3>1. ASSUME NEW i \in 1..(m + 1) PROVE t[i] \in Devs(s) \cup {d}
      <4>1. t[i] = d \/ \E j \in 1..m : t[i] = s[j]
        BY <1>2
      <4>. QED BY <4>1 DEF Devs, m
    <3>2. ASSUME NEW e \in Devs(t) PROVE \E i \in 1..(m + 1) : e = t[i]
      BY <1>2 DEF Devs
    <3>. QED BY <3>1, <3>2
  <2>2. d \in Devs(t)
    <3>1. k + 1 \in 1..Len(t)
      BY <1>1, <1>2
    <3>. QED BY <1>2, <3>1 DEF Devs
  <2>3. ASSUME NEW i \in 1..m PROVE s[i] \in Devs(t)
    <3>1. CASE i <= k
      <4>1. i \in 1..k /\ i \in 1..Len(t)
        BY <1>1, <1>2, <3>1
      <4>. QED BY <1>2, <4>1 DEF Devs
    <3>2. CASE ~(i <= k)
      <4>1. i + 1 \in (k + 2)..(m + 1) /\ (i + 1) - 1 = i /\ i + 1 \in 1..Len(t)
        BY <1>1, <1>2, <3>2
      <4>2. t[i + 1] = s[i]
        BY <1>2, <4>1
      <4>. QED BY <4>1, <4>2 DEF Devs
    <3>. QED BY <3>1, <3>2
  <2>. QED BY <2>1, <2>2, <2>3 DEF Devs, m
<1>8. Rising(t, c)
  BY <1>2, <1>6 DEF Rising
<1>. QED BY <1>7, <1>8 DEF t, c

LEMMA LeftRises ==
    ASSUME NEW s \in Seq(Parts), NEW b, Rising(s, b), Apart(s), NEW j \in 1..Len(s)
    PROVE  Rising(Left(s, j), b) /\ Devs(Left(s, j)) = Devs(s) \ {s[j]}
<1>. DEFINE m == Len(s)
            t == Left(s, j)
<1>1. m \in Nat /\ j \in Nat /\ 1 <= j /\ j <= m
  BY FieldsOf
<1>2. /\ t \in Seq(Parts) /\ Len(t) = m - 1
      /\ \A i \in 1..(m - 1) : i < j => i \in 1..m /\ t[i] = s[i]
      /\ \A i \in 1..(m - 1) : ~(i < j) => i + 1 \in 1..m /\ i + 1 > j /\ t[i] = s[i + 1]
  BY LeftIs
<1>3. /\ \A i, k \in 1..m : i < k => b[s[i]] <= b[s[k]]
      /\ \A i, k \in 1..m : s[i] = s[k] => i = k
  BY DEF Rising, Apart
<1>. HIDE DEF m, t
<1>4. ASSUME NEW i \in 1..(m - 1), NEW k \in 1..(m - 1), i < k PROVE b[t[i]] <= b[t[k]]
  <2>1. CASE i < j /\ k < j
    BY <1>2, <1>3, <1>4, <2>1
  <2>2. CASE i < j /\ ~(k < j)
    <3>1. i < k + 1 /\ k + 1 \in 1..m /\ i \in 1..m /\ t[i] = s[i] /\ t[k] = s[k + 1]
      BY <1>2, <1>4, <2>2
    <3>. QED BY <1>3, <3>1
  <2>3. CASE ~(i < j)
    <3>1. ~(k < j)
      BY <1>1, <1>4, <2>3
    <3>2. i + 1 < k + 1 /\ k + 1 \in 1..m /\ i + 1 \in 1..m /\ t[i] = s[i + 1] /\ t[k] = s[k + 1]
      BY <1>2, <1>4, <2>3, <3>1
    <3>. QED BY <1>3, <3>2
  <2>. QED BY <2>1, <2>2, <2>3
<1>5. Devs(t) = Devs(s) \ {s[j]}
  <2>1. ASSUME NEW i \in 1..(m - 1) PROVE t[i] \in Devs(s) \ {s[j]}
    <3>1. CASE i < j
      <4>1. i \in 1..m /\ t[i] = s[i] /\ i # j /\ j \in 1..m
        BY <1>1, <1>2, <3>1
      <4>. QED BY <1>3, <4>1 DEF Devs, m
    <3>2. CASE ~(i < j)
      <4>1. i + 1 \in 1..m /\ t[i] = s[i + 1] /\ i + 1 # j /\ j \in 1..m
        BY <1>1, <1>2, <3>2
      <4>. QED BY <1>3, <4>1 DEF Devs, m
    <3>. QED BY <3>1, <3>2
  <2>2. ASSUME NEW i \in 1..m, s[i] # s[j] PROVE s[i] \in Devs(t)
    <3>1. CASE i < j
      <4>1. i \in 1..(m - 1)
        BY <1>1, <3>1
      <4>. QED BY <1>2, <3>1, <4>1 DEF Devs
    <3>2. CASE ~(i < j)
      <4>1. i - 1 \in 1..(m - 1) /\ ~(i - 1 < j) /\ (i - 1) + 1 = i
        BY <1>1, <2>2, <3>2
      <4>2. t[i - 1] = s[i]
        BY <1>2, <4>1
      <4>. QED BY <1>2, <4>1, <4>2 DEF Devs
    <3>. QED BY <3>1, <3>2
  <2>3. Devs(t) \subseteq Devs(s) \ {s[j]}
    BY <1>2, <2>1 DEF Devs
  <2>. QED BY <2>2, <2>3 DEF Devs, m
<1>6. Rising(t, b)
  BY <1>2, <1>4 DEF Rising
<1>. QED BY <1>5, <1>6 DEF t

(* What a state of the table and the list, not yet bound, has to be.       *)
BoundAs(s, t, i, b, n, p, B) ==
    /\ s \in Seq(Parts) /\ n \in Links /\ p \in BackLinks /\ b \in [Parts -> Addresses]
    /\ i \in [Parts -> Ids] /\ t \in [Ids -> Parts \cup {None}] /\ B \subseteq Parts
    /\ Linked(s, n, p) /\ Rising(s, b) /\ B = Devs(s) /\ Tabled(t, i, B)

LEMMA UnlinkedSound ==
    ASSUME NEW s \in Seq(Parts), BoundAs(s, table, id, base, next, pprev, bound),
           NEW d \in Parts, Listed(d)
    PROVE  \E r \in Seq(Parts) :
              BoundAs(r, Untabled(d), id, base, Unlinked(d), UnlinkedBack(d), bound \ {d})
<1>. USE DEF BoundAs
<1>1. PICK j \in 1..Len(s) : s[j] = d
  BY DEF Listed, Linked, Backward
<1>2. DevTyped
  BY DEF DevTyped, DevTypeOK, Links, BackLinks, Fields
<1>3. /\ Unlinked(d) \in Links /\ UnlinkedBack(d) \in BackLinks
      /\ Linked(Left(s, j), Unlinked(d), UnlinkedBack(d))
  BY <1>1, <1>2, LeftLinked
<1>4. Rising(Left(s, j), base) /\ Devs(Left(s, j)) = bound \ {d}
  BY <1>1, LeftRises DEF Linked
<1>5. Untabled(d) \in [Ids -> Parts \cup {None}] /\ Tabled(Untabled(d), id, bound \ {d})
  BY DEF Untabled, Tabled
<1>6. Left(s, j) \in Seq(Parts)
  BY LeftIs
<1>. QED BY <1>3, <1>4, <1>5, <1>6

LEMMA FirstFree ==
    ASSUME NEW t, Free(t) # {}
    PROVE  First(Free(t)) \in Ids /\ t[First(Free(t))] = None
<1>1. Free(t) \subseteq Nat
  BY DEF Free, Ids
<1>2. \E m \in Free(t) : \A n \in Free(t) : m <= n
  BY <1>1, LeastOf
<1>3. First(Free(t)) \in Free(t)
  BY <1>2 DEF First
<1>. QED BY <1>3 DEF Free

LEMMA BindSound ==
    ASSUME NEW s \in Seq(Parts), NEW t, NEW n, NEW p, NEW d \in Parts, NEW a \in Addresses,
           BoundAs(s, t, id, base, n, p, bound \ {d}), p[d] = None, d \notin bound \/ Free(t) # {},
           bound \subseteq Parts, Bind(d, a, t, n, p)
    PROVE  \E r \in Seq(Parts) : BoundAs(r, table', id', base', next', pprev', bound')
<1>. DEFINE T == {e \in Parts : base[e] > a}
            c == Rebased(base, d, a)
<1>1. /\ n \in Links /\ p \in BackLinks /\ base \in [Parts -> Addresses]
      /\ id \in [Parts -> Ids] /\ t \in [Ids -> Parts \cup {None}]
      /\ Linked(s, n, p) /\ Rising(s, base) /\ bound \ {d} = Devs(s)
      /\ Tabled(t, id, Devs(s))
  BY DEF BoundAs
<1>2. base' = c /\ c \in [Parts -> Addresses] /\ Addresses \subseteq Nat /\ a \in Nat
      /\ base \in [Parts -> Nat]
  BY <1>1, DevicesAssumption DEF Bind, Rebased
<1>3. \A i \in 1..Len(s) : s[i] # d
  BY <1>1 DEF Devs
<1>. HIDE DEF c
<1>4. CASE Free(t) = {}
  <2>1. table' = t /\ next' = n /\ pprev' = p /\ bound' = bound \ {d} /\ UNCHANGED id
    BY <1>4 DEF Bind
  <2>2. Rising(s, c)
    BY <1>1, <1>3, FieldsOf DEF Rising, Rebased, c
  <2>. QED BY <1>1, <1>2, <2>1, <2>2 DEF BoundAs
<1>5. CASE Free(t) # {}
  <2>. DEFINE f == FieldFor(n, a)
              i0 == First(Free(t))
  <2>1. /\ table' = [t EXCEPT ![i0] = d] /\ id' = [id EXCEPT ![d] = i0]
        /\ next' = LinkedIn(n, f, d) /\ pprev' = LinkedBack(n, p, f, d)
        /\ bound' = bound \cup {d}
    BY <1>5 DEF Bind, LinkedIn, LinkedBack
  <2>2. i0 \in Ids /\ t[i0] = None
    BY <1>5, FirstFree
  <2>3. f = StopsAt(n, T)
    BY DEF FieldFor
  <2>. HIDE DEF f, i0, T
  <2>4. PICK k \in 0..Len(s) : /\ f = Field(s, k)
                               /\ \A i \in 1..k : s[i] \notin T
                               /\ k < Len(s) => s[k + 1] \in T
    BY <1>1, <2>3, SearchStops DEF Linked
  <2>5. /\ next' \in Links /\ pprev' \in BackLinks
        /\ Linked(Joined(s, k, d), next', pprev')
    BY <1>1, <1>3, <2>1, <2>4, JoinedLinked
  <2>6. Splits(s, base, k, a)
    <3>1. \A i \in 1..k : s[i] \in Parts
      BY FieldsOf
    <3>. QED BY <2>4, <3>1 DEF Splits, T
  <2>8. Rising(Joined(s, k, d), c) /\ Devs(Joined(s, k, d)) = Devs(s) \cup {d}
    <3>1. base \in [Parts -> Nat] /\ Rising(s, base) /\ a \in Nat
      BY <1>1, <1>2
    <3>2. /\ Rising(Joined(s, k, d), Rebased(base, d, a))
          /\ Devs(Joined(s, k, d)) = Devs(s) \cup {d}
      BY <1>3, <2>6, <3>1, JoinedRises
    <3>. QED BY <3>2 DEF c
  <2>9. bound' = Devs(s) \cup {d}
    BY <1>1, <2>1
  <2>10. /\ table' \in [Ids -> Parts \cup {None}] /\ id' \in [Parts -> Ids]
         /\ Tabled(table', id', bound')
    <3>1. None \notin Parts /\ Devs(s) \subseteq Parts /\ d \notin Devs(s)
      BY <1>1, DevicesAssumption
    <3>2. /\ table' \in [Ids -> Parts \cup {None}] /\ id' \in [Parts -> Ids]
          /\ table'[i0] = d /\ id'[d] = i0
          /\ \A k1 \in Ids : k1 # i0 => table'[k1] = t[k1]
          /\ \A e \in Parts : e # d => id'[e] = id[e]
      BY <1>1, <2>1, <2>2
    <3>3. \A e \in Devs(s) : t[id[e]] = e /\ id[e] \in Ids
      BY <1>1, <3>1 DEF Tabled
    <3>4. \A e \in bound' : table'[id'[e]] = e
      BY <2>2, <2>9, <3>1, <3>2, <3>3
    <3>5. ASSUME NEW k1 \in Ids, table'[k1] # None
          PROVE  table'[k1] \in bound' /\ id'[table'[k1]] = k1
      <4>1. CASE k1 = i0
        BY <2>9, <3>2, <4>1
      <4>2. CASE k1 # i0
        <5>1. t[k1] \in Devs(s) /\ id[t[k1]] = k1 /\ table'[k1] = t[k1]
          BY <1>1, <3>2, <3>5, <4>2 DEF Tabled
        <5>. QED BY <2>9, <3>1, <3>2, <5>1
      <4>. QED BY <4>1, <4>2
    <3>. QED BY <3>2, <3>4, <3>5 DEF Tabled
  <2>11. Joined(s, k, d) \in Seq(Parts) /\ bound' \subseteq Parts
    BY <2>1, JoinedIs
  <2>. QED BY <1>2, <2>5, <2>8, <2>9, <2>10, <2>11 DEF BoundAs
<1>. QED BY <1>4, <1>5

LEMMA DevIs == DevIInv <=> \E s \in Seq(Parts) : BoundAs(s, table, id, base, next, pprev, bound)
BY DEF DevIInv, BoundAs, DevTyped, DevTypeOK, Links, BackLinks, Fields

LEMMA DevKept ==
    ASSUME NEW s \in Seq(Parts), BoundAs(s, table', id', base', next', pprev', bound')
    PROVE  DevIInv'
BY DEF DevIInv, BoundAs, DevTyped, DevTypeOK, Links, BackLinks, Fields

LEMMA DevInitHolds == DevInit => DevIInv
<1>. SUFFICES ASSUME DevInit PROVE DevIInv
  OBVIOUS
<1>1. 0 \in Ids /\ 0 \in Addresses
  BY DevicesAssumption DEF Ids
<1>2. DevTyped
  BY <1>1 DEF DevInit, DevTyped, DevTypeOK, Links, BackLinks, Fields
<1>3. << >> \in Seq(Parts)
  OBVIOUS
<1>4. Linked(<< >>, next, pprev) /\ Rising(<< >>, base) /\ bound = Devs(<< >>)
  BY DEF DevInit, Linked, Apart, Onward, Backward, Rising, Devs, Field, After
<1>5. Tabled(table, id, bound)
  BY DEF DevInit, Tabled
<1>. QED BY <1>2, <1>3, <1>4, <1>5 DEF DevIInv

LEMMA DevStepHolds == DevIInv /\ [DevNext]_devVars => DevIInv'
<1>. SUFFICES ASSUME DevIInv, [DevNext]_devVars PROVE DevIInv'
  OBVIOUS
<1>1. PICK s \in Seq(Parts) : BoundAs(s, table, id, base, next, pprev, bound)
  BY DevIs
<1>2. \A d \in Parts : Listed(d) <=> d \in bound
  <2>1. /\ bound = Devs(s) /\ \A i \in 1..Len(s) : pprev[s[i]] = Field(s, i - 1)
        /\ \A d \in Parts : pprev[d] # None => \E i \in 1..Len(s) : s[i] = d
    BY <1>1 DEF BoundAs, Linked, Backward
  <2>2. ASSUME NEW i \in 1..Len(s) PROVE pprev[s[i]] # None
    <3>1. i - 1 \in 0..Len(s)
      BY FieldsOf
    <3>2. Field(s, i - 1) \in Fields /\ None \notin Fields
      BY <3>1, FieldsOf
    <3>. QED BY <2>1, <3>2
  <2>. QED BY <2>1, <2>2 DEF Listed, Devs
<1>3. bound \subseteq Parts /\ pprev \in BackLinks
  BY <1>1 DEF BoundAs
<1>4. ASSUME NEW d \in Parts, NEW a \in Addresses, ~Listed(d),
             Bind(d, a, table, next, pprev)
      PROVE  DevIInv'
  <2>1. bound \ {d} = bound /\ pprev[d] = None /\ d \notin bound
    BY <1>2, <1>4 DEF Listed
  <2>2. \E r \in Seq(Parts) : BoundAs(r, table', id', base', next', pprev', bound')
    BY <1>1, <1>3, <1>4, <2>1, BindSound
  <2>. QED BY <2>2, DevKept
<1>5. ASSUME NEW d \in Parts, NEW a \in Addresses, Listed(d),
             Bind(d, a, Untabled(d), Unlinked(d), UnlinkedBack(d))
      PROVE  DevIInv'
  <2>1. PICK r \in Seq(Parts) :
            BoundAs(r, Untabled(d), id, base, Unlinked(d), UnlinkedBack(d), bound \ {d})
    BY <1>1, <1>5, UnlinkedSound
  <2>2. UnlinkedBack(d)[d] = None
    BY DEF UnlinkedBack
  <2>3. Free(Untabled(d)) # {}
    <3>1. id[d] \in Ids /\ table[id[d]] = d
      BY <1>1, <1>2, <1>5 DEF BoundAs, Tabled
    <3>. QED BY <3>1 DEF Free, Untabled
  <2>4. \E q \in Seq(Parts) : BoundAs(q, table', id', base', next', pprev', bound')
    BY <1>3, <1>5, <2>1, <2>2, <2>3, BindSound
  <2>. QED BY <2>4, DevKept
<1>6. ASSUME NEW d \in Parts, Removes(d) PROVE DevIInv'
  <2>1. PICK r \in Seq(Parts) :
            BoundAs(r, Untabled(d), id, base, Unlinked(d), UnlinkedBack(d), bound \ {d})
    BY <1>1, <1>6, UnlinkedSound DEF Removes
  <2>2. /\ table' = Untabled(d) /\ next' = Unlinked(d) /\ pprev' = UnlinkedBack(d)
        /\ base' = [base EXCEPT ![d] = 0] /\ id' = [id EXCEPT ![d] = 0]
        /\ bound' = bound \ {d}
    BY <1>6 DEF Removes
  <2>3. 0 \in Ids /\ 0 \in Addresses
    BY DevicesAssumption DEF Ids
  <2>4. base' \in [Parts -> Addresses] /\ id' \in [Parts -> Ids]
        /\ \A e \in bound' : base'[e] = base[e] /\ id'[e] = id[e]
    BY <1>1, <1>3, <2>2, <2>3 DEF BoundAs
  <2>5. Rising(r, base')
    <3>1. Rising(r, base) /\ \A i \in 1..Len(r) : r[i] \in bound'
      BY <2>1, <2>2 DEF BoundAs, Devs
    <3>. QED BY <2>4, <3>1 DEF Rising
  <2>6. Tabled(table', id', bound')
    BY <2>1, <2>2, <2>4 DEF BoundAs, Tabled
  <2>7. BoundAs(r, table', id', base', next', pprev', bound')
    BY <2>1, <2>2, <2>4, <2>5, <2>6 DEF BoundAs
  <2>. QED BY <2>7, DevKept
<1>7. CASE UNCHANGED <<table, id, base, next, pprev, bound>>
  <2>1. BoundAs(s, table', id', base', next', pprev', bound')
    BY <1>1, <1>7
  <2>. QED BY <2>1, DevKept
<1>. QED BY <1>4, <1>5, <1>6, <1>7 DEF DevNext, devVars, Binds, Maps, Resets, GuestStores,
        Suspends, Resumes

(* The list is a sequence in the order of the addresses, and table and id  *)
(* agree with it, whatever is bound, moved or removed.                     *)
THEOREM TableInductive == DevSpec => []DevIInv
BY DevInitHolds, DevStepHolds, PTL DEF DevSpec

(* FindsItsDevice: no sequence of bindings, moves and removals, of any     *)
(* devices at any addresses, full table or not, breaks list or table.      *)
THEOREM LookupsFind == DevSpec => [](DevTypeOK /\ FindsItsDevice)
<1>1. DevIInv => DevTypeOK
  BY DEF DevIInv, DevTyped
<1>2. DevIInv => FindsItsDevice
  <2>. SUFFICES ASSUME DevIInv, NEW a \in Addresses
                PROVE  /\ Lookup(a) = None => \A d \in bound : ~Holds(d, a)
                       /\ Lookup(a) # None => /\ Lookup(a) \in bound /\ Holds(Lookup(a), a)
                                              /\ table[id[Lookup(a)]] = Lookup(a)
                       /\ \A d \in bound : base[d] > a =>
                              LookupNext(a) # None /\ base[LookupNext(a)] <= base[d]
    BY DEF FindsItsDevice
  <2>1. PICK s \in Seq(Parts) : BoundAs(s, table, id, base, next, pprev, bound)
    BY DevIs
  <2>2. /\ next \in Links /\ Onward(s, next) /\ bound = Devs(s) /\ Rising(s, base)
        /\ bound \subseteq Parts /\ base \in [Parts -> Nat]
        /\ \A d \in bound : table[id[d]] = d
    <3>1. next \in Links /\ Onward(s, next) /\ bound = Devs(s) /\ Rising(s, base)
      BY <2>1 DEF BoundAs, Linked
    <3>4. base \in [Parts -> Nat]
      <4>1. base \in [Parts -> Addresses] /\ Addresses \subseteq Nat
        BY <2>1, DevicesAssumption DEF BoundAs
      <4>. QED BY <4>1
    <3>2. bound \subseteq Parts
      BY <3>1 DEF Devs
    <3>3. \A d \in bound : table[id[d]] = d
      BY <2>1 DEF BoundAs, Tabled
    <3>. QED BY <3>1, <3>2, <3>3, <3>4
  <2>. DEFINE T == {d \in Parts : Holds(d, a)}
              U == {d \in Parts : base[d] > a}
  <2>a. \A d \in Parts : (d \in T <=> Holds(d, a)) /\ (d \in U <=> base[d] > a)
    OBVIOUS
  <2>b. next \in Links /\ Onward(s, next)
    BY <2>2
  <2>c. Lookup(a) = next[StopsAt(next, T)] /\ LookupNext(a) = next[StopsAt(next, U)]
    BY DEF Lookup, LookupNext, FieldFor
  <2>. HIDE DEF T, U
  <2>3. PICK k \in 0..Len(s) : /\ StopsAt(next, T) = Field(s, k)
                               /\ \A i \in 1..k : s[i] \notin T
                               /\ k < Len(s) => s[k + 1] \in T
    BY <2>b, SearchStops
  <2>4. PICK j \in 0..Len(s) : /\ StopsAt(next, U) = Field(s, j)
                               /\ \A i \in 1..j : s[i] \notin U
                               /\ j < Len(s) => s[j + 1] \in U
    BY <2>b, SearchStops
  <2>5. Lookup(a) = After(s, k) /\ LookupNext(a) = After(s, j)
    BY <2>b, <2>c, <2>3, <2>4 DEF Onward
  <2>6. ASSUME k < Len(s)
        PROVE  Lookup(a) \in bound /\ Lookup(a) \in T /\ Lookup(a) # None
    BY <2>2, <2>3, <2>5, <2>6, FieldsOf DEF Devs, Fields
  <2>7. ASSUME ~(k < Len(s)) PROVE Lookup(a) = None /\ \A d \in bound : d \notin T
    <3>1. k = Len(s) /\ Lookup(a) = None
      BY <2>5, <2>7, FieldsOf
    <3>. QED BY <2>2, <2>3, <3>1 DEF Devs
  <2>8. ASSUME NEW d \in bound, base[d] > a
        PROVE  LookupNext(a) # None /\ base[LookupNext(a)] <= base[d]
    <3>1. PICK i \in 1..Len(s) : s[i] = d
      BY <2>2 DEF Devs
    <3>2. s[i] \in U
      BY <2>a, <2>2, <2>8, <3>1
    <3>3. i \notin 1..j
      BY <2>4, <3>2
    <3>4. j < Len(s) /\ j + 1 \in 1..Len(s) /\ (i = j + 1 \/ j + 1 < i)
      BY <3>3, FieldsOf
    <3>5. LookupNext(a) = s[j + 1] /\ s[j + 1] \in Parts /\ s[j + 1] # None
      BY <2>5, <3>4, FieldsOf DEF Fields
    <3>6. base[s[j + 1]] <= base[d]
      <4>1. CASE i = j + 1
        BY <2>2, <3>1, <3>5, <4>1
      <4>2. CASE j + 1 < i
        BY <2>2, <3>1, <3>4, <4>2 DEF Rising
      <4>. QED BY <3>4, <4>1, <4>2
    <3>. QED BY <3>5, <3>6
  <2>. QED BY <2>2, <2>a, <2>6, <2>7, <2>8
<1>. QED BY <1>1, <1>2, TableInductive, PTL
-----------------------------------------------------------------------------
(* The DMA controller.  Its two loops are tail recursions over data that   *)
(* gets smaller: each ends where the walk from x first finds a rank of 0.  *)
Solves(f, D, r, nx, b) ==
    /\ f = [x \in D |-> f[x]]
    /\ \A x \in D : f[x] = IF r[x] = 0 THEN b[x] ELSE f[nx[x]]

LEMMA TailRecursion ==
    ASSUME NEW D, NEW r \in [D -> Nat], NEW nx \in [D -> D], NEW b
    PROVE  \E f : Solves(f, D, r, nx, b)
<1>. DEFINE Shut(S) == \A y \in S : r[y] # 0 => nx[y] \in S
            From(x) == {y \in D : \A S \in SUBSET D : x \in S /\ Shut(S) => y \in S}
            Ends(x) == {y \in From(x) : r[y] = 0}
            g == [x \in D |-> b[CHOOSE y \in Ends(x) : TRUE]]
<1>1. ASSUME NEW x \in D, r[x] = 0 PROVE g[x] = b[x]
  <2>1. {x} \in SUBSET D /\ Shut({x}) /\ x \in {x}
    BY <1>1
  <2>2. From(x) = {x}
    BY <2>1
  <2>3. Ends(x) = {x}
    BY <2>2, <1>1
  <2>. QED BY <2>3
<1>2. ASSUME NEW x \in D, r[x] # 0 PROVE g[x] = g[nx[x]]
  <2>1. nx[x] \in D
    OBVIOUS
  <2>2. ASSUME NEW y \in Ends(nx[x]) PROVE y \in Ends(x)
    <3>1. ASSUME NEW S \in SUBSET D, x \in S, Shut(S) PROVE y \in S
      <4>1. nx[x] \in S
        BY <1>2, <3>1
      <4>. QED BY <2>2, <3>1, <4>1
    <3>. QED BY <2>2, <3>1
  <2>3. ASSUME NEW y \in Ends(x) PROVE y \in Ends(nx[x])
    <3>1. ASSUME NEW S \in SUBSET D, nx[x] \in S, Shut(S) PROVE y \in S
      <4>1. S \cup {x} \in SUBSET D /\ Shut(S \cup {x}) /\ x \in S \cup {x}
        BY <3>1
      <4>2. y \in S \cup {x}
        BY <2>3, <4>1
      <4>3. y # x
        BY <1>2, <2>3
      <4>. QED BY <4>2, <4>3
    <3>. QED BY <2>3, <3>1
  <2>4. Ends(x) = Ends(nx[x])
    BY <2>2, <2>3
  <2>. HIDE DEF Ends
  <2>. QED BY <2>1, <2>4
<1>3. \A x \in D : g[x] = IF r[x] = 0 THEN b[x] ELSE g[nx[x]]
  <2>. HIDE DEF g
  <2>. SUFFICES ASSUME NEW x \in D PROVE g[x] = IF r[x] = 0 THEN b[x] ELSE g[nx[x]]
    OBVIOUS
  <2>1. r[x] = 0 => g[x] = b[x]
    BY <1>1
  <2>2. r[x] # 0 => g[x] = g[nx[x]]
    BY <1>2
  <2>. QED BY <2>1, <2>2
<1>4. g = [x \in D |-> g[x]]
  OBVIOUS
<1>. HIDE DEF g
<1>5. Solves(g, D, r, nx, b)
  BY <1>3, <1>4 DEF Solves
<1>. QED BY <1>5

(* Where the ranks fall, what computes the same step by step is the same.  *)
LEMMA TailComputes ==
    ASSUME NEW D, NEW r \in [D -> Nat], NEW nx \in [D -> D], NEW b,
           \A x \in D : r[x] # 0 => r[nx[x]] < r[x],
           NEW E \in SUBSET D, \A x \in E : r[x] # 0 => nx[x] \in E,
           NEW f, \A x \in D : f[x] = IF r[x] = 0 THEN b[x] ELSE f[nx[x]],
           NEW g, \A x \in E : g[x] = IF r[x] = 0 THEN b[x] ELSE g[nx[x]]
    PROVE  \A x \in E : f[x] = g[x]
<1>. DEFINE Wrong == {n \in Nat : \E x \in E : r[x] = n /\ f[x] # g[x]}
<1>1. ASSUME Wrong # {} PROVE FALSE
  <2>1. PICK n \in Wrong : \A k \in Wrong : n <= k
    <3>1. Wrong \in SUBSET Nat
      OBVIOUS
    <3>. HIDE DEF Wrong
    <3>. QED BY <1>1, <3>1, LeastOf
  <2>2. PICK x \in E : r[x] = n /\ f[x] # g[x]
    BY <2>1
  <2>3. r[x] # 0 /\ nx[x] \in E /\ r[nx[x]] < r[x] /\ r[nx[x]] \in Nat
    BY <2>2
  <2>4. f[nx[x]] # g[nx[x]]
    BY <2>2, <2>3
  <2>5. r[nx[x]] \in Wrong
    BY <2>3, <2>4
  <2>6. r[x] <= r[nx[x]] /\ r[x] \in Nat
    BY <2>1, <2>2, <2>5
  <2>. QED BY <2>3, <2>6
<1>2. ASSUME NEW x \in E, f[x] # g[x] PROVE FALSE
  <2>1. r[x] \in Wrong
    BY <1>2
  <2>. HIDE DEF Wrong
  <2>. QED BY <1>1, <2>1
<1>. QED BY <1>2

LEMMA TailTyped ==
    ASSUME NEW D, NEW r \in [D -> Nat], NEW nx \in [D -> D], NEW b,
           \A x \in D : r[x] # 0 => r[nx[x]] < r[x],
           NEW f, \A x \in D : f[x] = IF r[x] = 0 THEN b[x] ELSE f[nx[x]],
           NEW M, \A x \in D : b[x] \in M
    PROVE  \A x \in D : f[x] \in M
<1>. SUFFICES ASSUME NEW z \in D PROVE \A x \in D : f[x] \in M
  OBVIOUS
<1>. DEFINE g == [x \in D |-> IF f[x] \in M THEN f[x] ELSE b[z]]
<1>1. ASSUME NEW x \in D PROVE g[x] = IF r[x] = 0 THEN b[x] ELSE g[nx[x]]
  <2>1. nx[x] \in D
    OBVIOUS
  <2>. QED BY <2>1
<1>2. D \in SUBSET D /\ \A x \in D : r[x] # 0 => nx[x] \in D
  OBVIOUS
<1>3. \A x \in D : g[x] \in M
  OBVIOUS
<1>. HIDE DEF g
<1>4. \A x \in D : f[x] = g[x]
  BY <1>1, <1>2, TailComputes
<1>. QED BY <1>3, <1>4

LEMMA MovesAre ==
    ASSUME NEW t \in Moves
    PROVE  /\ t = [src |-> t.src, dst |-> t.dst, len |-> t.len]
           /\ t.src \in Nat /\ t.dst \in Nat /\ t.len \in Nat /\ RamSize \in Nat
           /\ t.src + t.len <= RamSize /\ t.dst + t.len <= RamSize
<1>. QED BY DmaAssumption DEF Moves

LEMMA MoveIs ==
    ASSUME NEW s \in Nat, NEW d \in Nat, NEW l \in Nat, s + l <= RamSize, d + l <= RamSize
    PROVE  [src |-> s, dst |-> d, len |-> l] \in Moves
<1>1. s \in 0..RamSize /\ d \in 0..RamSize /\ l \in 0..RamSize
  BY DmaAssumption
<1>. QED BY <1>1 DEF Moves

LEMMA PageLeft == \A n \in Nat : DmaPage - (n % DmaPage) \in Nat \ {0}
<1>. SUFFICES ASSUME NEW n \in Nat PROVE DmaPage - (n % DmaPage) \in Nat \ {0}
  OBVIOUS
<1>1. DmaPage \in Nat /\ DmaPage > 0
  BY DmaAssumption
<1>2. n % DmaPage \in 0..(DmaPage - 1)
  BY <1>1
<1>. QED BY <1>1, <1>2

LEMMA LeastIs ==
    ASSUME NEW S \in SUBSET Nat, S # {}
    PROVE  Least(S) \in S /\ \A k \in S : Least(S) <= k
<1>1. PICK m \in S : \A k \in S : m <= k
  BY LeastOf
<1>. QED BY <1>1 DEF Least

LEMMA PieceIs ==
    ASSUME NEW t \in Moves, t.len # 0
    PROVE  Piece(t) \in 1..t.len
<1>. DEFINE S == {DmaPage - (t.src % DmaPage), DmaPage - (t.dst % DmaPage), t.len}
<1>1. t.len \in Nat \ {0} /\ t.src \in Nat /\ t.dst \in Nat
  BY MovesAre
<1>2. S \in SUBSET (Nat \ {0}) /\ t.len \in S
  BY <1>1, PageLeft
<1>3. Piece(t) = Least(S)
  BY DEF Piece
<1>. HIDE DEF S
<1>4. S \in SUBSET Nat /\ S # {}
  BY <1>2
<1>5. Least(S) \in S /\ Least(S) <= t.len
  BY <1>2, <1>4, LeastIs
<1>6. Least(S) \in Nat \ {0}
  BY <1>2, <1>5
<1>. QED BY <1>1, <1>3, <1>5, <1>6

LEMMA RestIs ==
    ASSUME NEW t \in Moves, NEW n \in 1..t.len
    PROVE  RestOf(t, n) \in Moves /\ RestOf(t, n).len < t.len /\ (Aside(t) => Aside(RestOf(t, n)))
<1>1. /\ t.src \in Nat /\ t.dst \in Nat /\ t.len \in Nat /\ n \in Nat /\ n >= 1 /\ n <= t.len
      /\ t.src + t.len <= RamSize /\ t.dst + t.len <= RamSize /\ RamSize \in Nat
  BY MovesAre
<1>2. /\ t.src + n \in Nat /\ t.dst + n \in Nat /\ t.len - n \in Nat /\ t.len - n < t.len
      /\ (t.src + n) + (t.len - n) <= RamSize /\ (t.dst + n) + (t.len - n) <= RamSize
  BY <1>1
<1>3. RestOf(t, n) \in Moves
  BY <1>2, MoveIs DEF RestOf
<1>4. Aside(t) => Aside(RestOf(t, n))
  BY <1>1 DEF Aside, RestOf
<1>. QED BY <1>2, <1>3, <1>4 DEF RestOf

LEMMA PieceTyped ==
    ASSUME NEW m \in Memory, NEW t \in Moves, NEW n \in 0..t.len
    PROVE  PutPiece(m, t, n) \in Memory
<1>1. /\ t.src \in Nat /\ t.dst \in Nat /\ t.len \in Nat /\ n \in Nat /\ n <= t.len
      /\ t.src + t.len <= RamSize /\ t.dst + t.len <= RamSize /\ RamSize \in Nat
  BY MovesAre
<1>2. ASSUME NEW a \in 0..(RamSize - 1), a >= t.dst, a < t.dst + n
      PROVE  t.src + (a - t.dst) \in 0..(RamSize - 1)
  BY <1>1, <1>2
<1>3. m \in [0..(RamSize - 1) -> 0..(RamSize - 1)]
  BY DEF Memory
<1>. QED BY <1>2, <1>3 DEF PutPiece, Memory

(* One memcpy after the other is one memcpy of all, where ends are apart.  *)
LEMMA PiecesJoin ==
    ASSUME NEW m \in Memory, NEW t \in Moves, Aside(t), NEW n \in 1..t.len
    PROVE  PlainCopy(PutPiece(m, t, n), RestOf(t, n)) = PlainCopy(m, t)
<1>. DEFINE p == PutPiece(m, t, n)
            u == RestOf(t, n)
<1>1. /\ t.src \in Nat /\ t.dst \in Nat /\ t.len \in Nat /\ n \in Nat /\ n >= 1 /\ n <= t.len
      /\ t.src + t.len <= RamSize /\ t.dst + t.len <= RamSize /\ RamSize \in Nat
  BY MovesAre
<1>2. /\ DOMAIN m = 0..(RamSize - 1) /\ DOMAIN p = 0..(RamSize - 1)
      /\ \A a \in 0..(RamSize - 1) :
             p[a] = IF a >= t.dst /\ a < t.dst + n THEN m[t.src + (a - t.dst)] ELSE m[a]
  BY DEF Memory, PutPiece
<1>3. u.src = t.src + n /\ u.dst = t.dst + n /\ u.len = t.len - n
  BY DEF RestOf
<1>. HIDE DEF p, u
<1>4. ASSUME NEW a \in 0..(RamSize - 1)
      PROVE  (IF a \in u.dst..(u.dst + u.len - 1) THEN p[u.src + (a - u.dst)] ELSE p[a])
             = IF a \in t.dst..(t.dst + t.len - 1) THEN m[t.src + (a - t.dst)] ELSE m[a]
  <2>1. CASE a \in u.dst..(u.dst + u.len - 1)
    <3>1. u.src + (a - u.dst) = t.src + (a - t.dst) /\ a \in t.dst..(t.dst + t.len - 1)
      BY <1>1, <1>3, <2>1
    <3>2. /\ t.src + (a - t.dst) \in 0..(RamSize - 1)
          /\ ~(t.src + (a - t.dst) >= t.dst /\ t.src + (a - t.dst) < t.dst + n)
      BY <1>1, <1>3, <2>1, <3>1 DEF Aside
    <3>. QED BY <1>2, <2>1, <3>1, <3>2
  <2>2. CASE a \notin u.dst..(u.dst + u.len - 1) /\ a \in t.dst..(t.dst + t.len - 1)
    <3>1. a >= t.dst /\ a < t.dst + n
      BY <1>1, <1>3, <2>2
    <3>. QED BY <1>2, <2>2, <3>1
  <2>3. CASE a \notin u.dst..(u.dst + u.len - 1) /\ a \notin t.dst..(t.dst + t.len - 1)
    <3>1. ~(a >= t.dst /\ a < t.dst + n)
      BY <1>1, <2>3
    <3>. QED BY <1>2, <2>3, <3>1
  <2>4. a \in u.dst..(u.dst + u.len - 1) => a \in t.dst..(t.dst + t.len - 1)
    BY <1>1, <1>3
  <2>. QED BY <2>1, <2>2, <2>3
<1>5. PlainCopy(p, u) = [a \in 0..(RamSize - 1) |->
          IF a \in u.dst..(u.dst + u.len - 1) THEN p[u.src + (a - u.dst)] ELSE p[a]]
  BY <1>2 DEF PlainCopy
<1>6. PlainCopy(m, t) = [a \in 0..(RamSize - 1) |->
          IF a \in t.dst..(t.dst + t.len - 1) THEN m[t.src + (a - t.dst)] ELSE m[a]]
  BY <1>2 DEF PlainCopy
<1>7. PlainCopy(p, u) = PlainCopy(m, t)
  BY <1>4, <1>5, <1>6
<1>. QED BY <1>7 DEF p, u

LEMMA NothingCopied ==
    ASSUME NEW m \in Memory, NEW t \in Moves, t.len = 0
    PROVE  PlainCopy(m, t) = m
<1>1. t.dst \in Nat /\ DOMAIN m = 0..(RamSize - 1) /\ m = [a \in 0..(RamSize - 1) |-> m[a]]
  BY MovesAre DEF Memory
<1>2. \A a \in 0..(RamSize - 1) : a \notin t.dst..(t.dst + t.len - 1)
  BY <1>1
<1>. QED BY <1>1, <1>2 DEF PlainCopy

-----------------------------------------------------------------------------
CopyJobs == [ram : Memory, move : Moves]
CopyOn(c) ==
    IF c.move.len = 0 THEN c
    ELSE [ram |-> PutPiece(c.ram, c.move, Piece(c.move)),
          move |-> RestOf(c.move, Piece(c.move))]
CopyRank == [c \in CopyJobs |-> c.move.len]
CopyNext == [c \in CopyJobs |-> CopyOn(c)]
CopyLast == [c \in CopyJobs |-> c.ram]

LEMMA CopyGoesOn ==
    ASSUME NEW c \in CopyJobs
    PROVE  /\ c.ram \in Memory /\ c.move \in Moves /\ c.move.len \in Nat
           /\ c = [ram |-> c.ram, move |-> c.move]
           /\ CopyOn(c) \in CopyJobs
           /\ c.move.len # 0 =>
                  /\ CopyOn(c).move.len < c.move.len
                  /\ CopyOn(c) = [ram |-> PutPiece(c.ram, c.move, Piece(c.move)),
                                  move |-> RestOf(c.move, Piece(c.move))]
                  /\ Piece(c.move) \in 1..c.move.len
<1>1. /\ c.ram \in Memory /\ c.move \in Moves
      /\ c = [ram |-> c.ram, move |-> c.move]
  BY DEF CopyJobs
<1>2. c.move.len \in Nat
  BY <1>1, MovesAre
<1>3. CASE c.move.len = 0
  BY <1>1, <1>2, <1>3 DEF CopyOn
<1>4. CASE c.move.len # 0
  <2>1. Piece(c.move) \in 1..c.move.len
    BY <1>1, <1>4, PieceIs
  <2>2. Piece(c.move) \in 0..c.move.len
    BY <2>1, <1>2
  <2>3. RestOf(c.move, Piece(c.move)) \in Moves /\ RestOf(c.move, Piece(c.move)).len < c.move.len
    BY <1>1, <2>1, RestIs
  <2>4. PutPiece(c.ram, c.move, Piece(c.move)) \in Memory
    BY <1>1, <2>2, PieceTyped
  <2>5. CopyOn(c) = [ram |-> PutPiece(c.ram, c.move, Piece(c.move)),
                     move |-> RestOf(c.move, Piece(c.move))]
    BY <1>4 DEF CopyOn
  <2>6. CopyOn(c) \in CopyJobs
    BY <2>3, <2>4, <2>5 DEF CopyJobs
  <2>7. CopyOn(c).move.len < c.move.len
    BY <2>3, <2>5
  <2>. QED BY <1>1, <1>2, <2>1, <2>5, <2>6, <2>7
<1>. QED BY <1>3, <1>4

LEMMA CopyRanks ==
    /\ CopyRank \in [CopyJobs -> Nat] /\ CopyNext \in [CopyJobs -> CopyJobs]
    /\ \A c \in CopyJobs : CopyRank[c] # 0 => CopyRank[CopyNext[c]] < CopyRank[c]
<1>1. CopyRank \in [CopyJobs -> Nat]
  BY CopyGoesOn DEF CopyRank
<1>2. CopyNext \in [CopyJobs -> CopyJobs]
  BY CopyGoesOn DEF CopyNext
<1>3. ASSUME NEW c \in CopyJobs, CopyRank[c] # 0
      PROVE  CopyRank[CopyNext[c]] < CopyRank[c]
  <2>1. CopyRank[c] = c.move.len /\ CopyNext[c] = CopyOn(c) /\ CopyOn(c) \in CopyJobs
    BY CopyGoesOn DEF CopyRank, CopyNext
  <2>2. CopyRank[CopyOn(c)] = CopyOn(c).move.len
    BY <2>1 DEF CopyRank
  <2>. QED BY <1>3, <2>1, <2>2, CopyGoesOn
<1>. QED BY <1>1, <1>2, <1>3

(* physmem_dma_transfer's loop defines a copy of memory.                   *)
LEMMA CopiedIs ==
    \A c \in CopyJobs : Copied[c] = IF CopyRank[c] = 0 THEN CopyLast[c] ELSE Copied[CopyNext[c]]
<1>0. PICK f : Solves(f, CopyJobs, CopyRank, CopyNext, CopyLast)
  <2>1. CopyRank \in [CopyJobs -> Nat] /\ CopyNext \in [CopyJobs -> CopyJobs]
    BY CopyRanks
  <2>. QED BY <2>1, TailRecursion
<1>1. /\ f = [c \in CopyJobs |-> f[c]]
      /\ \A c \in CopyJobs : f[c] = IF CopyRank[c] = 0 THEN CopyLast[c] ELSE f[CopyNext[c]]
  BY <1>0 DEF Solves
<1>2. \A c \in CopyJobs :
        /\ CopyRank[c] = c.move.len /\ CopyLast[c] = c.ram
        /\ CopyNext[c] = CopyOn(c)
  BY DEF CopyRank, CopyLast, CopyNext
<1>3. \A g : \A c \in CopyJobs :
        (IF CopyRank[c] = 0 THEN CopyLast[c] ELSE g[CopyNext[c]])
        = IF c.move.len = 0 THEN c.ram
          ELSE g[[ram |-> PutPiece(c.ram, c.move, Piece(c.move)),
                  move |-> RestOf(c.move, Piece(c.move))]]
  BY <1>2 DEF CopyOn
<1>4. f = [c \in CopyJobs |->
          IF c.move.len = 0 THEN c.ram
          ELSE f[[ram |-> PutPiece(c.ram, c.move, Piece(c.move)),
                  move |-> RestOf(c.move, Piece(c.move))]]]
  <2>1. \A c \in CopyJobs : f[c] = IF c.move.len = 0 THEN c.ram
          ELSE f[[ram |-> PutPiece(c.ram, c.move, Piece(c.move)),
                  move |-> RestOf(c.move, Piece(c.move))]]
    BY <1>1, <1>3
  <2>. QED BY <1>1, <2>1
<1>5. Copied = CHOOSE g : g = [c \in CopyJobs |->
          IF c.move.len = 0 THEN c.ram
          ELSE g[[ram |-> PutPiece(c.ram, c.move, Piece(c.move)),
                  move |-> RestOf(c.move, Piece(c.move))]]]
  BY DEF Copied, CopyJobs
<1>6. Copied = [c \in CopyJobs |->
          IF c.move.len = 0 THEN c.ram
          ELSE Copied[[ram |-> PutPiece(c.ram, c.move, Piece(c.move)),
                       move |-> RestOf(c.move, Piece(c.move))]]]
  BY <1>4, <1>5
<1>7. ASSUME NEW c \in CopyJobs
      PROVE  Copied[c] = IF CopyRank[c] = 0 THEN CopyLast[c] ELSE Copied[CopyNext[c]]
  <2>1. Copied[c] = IF c.move.len = 0 THEN c.ram
                    ELSE Copied[[ram |-> PutPiece(c.ram, c.move, Piece(c.move)),
                                 move |-> RestOf(c.move, Piece(c.move))]]
    BY <1>6
  <2>. QED BY <2>1, <1>3
<1>. QED BY <1>7

LEMMA CopyMeans ==
    ASSUME NEW m \in Memory, NEW t \in Moves, Aside(t)
    PROVE  Moved(m, t) = PlainCopy(m, t)
<1>. DEFINE E == {c \in CopyJobs : Aside(c.move)}
            g == [c \in CopyJobs |-> PlainCopy(c.ram, c.move)]
<1>1. E \in SUBSET CopyJobs
  OBVIOUS
<1>2. ASSUME NEW c \in E, CopyRank[c] # 0 PROVE CopyNext[c] \in E
  <2>1. c \in CopyJobs /\ Aside(c.move) /\ c.move.len # 0 /\ CopyNext[c] = CopyOn(c)
    BY <1>2 DEF CopyRank, CopyNext
  <2>2. /\ c.move \in Moves /\ Piece(c.move) \in 1..c.move.len /\ CopyOn(c) \in CopyJobs
        /\ CopyOn(c).move = RestOf(c.move, Piece(c.move))
    BY <2>1, CopyGoesOn
  <2>3. Aside(RestOf(c.move, Piece(c.move)))
    BY <2>1, <2>2, RestIs
  <2>. QED BY <2>1, <2>2, <2>3
<1>3. ASSUME NEW c \in E
      PROVE  g[c] = IF CopyRank[c] = 0 THEN CopyLast[c] ELSE g[CopyNext[c]]
  <2>1. /\ c \in CopyJobs /\ Aside(c.move) /\ CopyNext[c] = CopyOn(c) /\ CopyRank[c] = c.move.len
        /\ CopyLast[c] = c.ram /\ g[c] = PlainCopy(c.ram, c.move)
        /\ c.ram \in Memory /\ c.move \in Moves
    BY CopyGoesOn DEF CopyRank, CopyNext, CopyLast
  <2>2. CASE c.move.len = 0
    BY <2>1, <2>2, NothingCopied
  <2>3. CASE c.move.len # 0
    <3>1. /\ Piece(c.move) \in 1..c.move.len /\ CopyOn(c) \in CopyJobs
          /\ CopyOn(c).move = RestOf(c.move, Piece(c.move))
          /\ CopyOn(c).ram = PutPiece(c.ram, c.move, Piece(c.move))
      BY <2>1, <2>3, CopyGoesOn
    <3>2. g[CopyOn(c)] = PlainCopy(CopyOn(c).ram, CopyOn(c).move)
      BY <3>1
    <3>3. PlainCopy(PutPiece(c.ram, c.move, Piece(c.move)), RestOf(c.move, Piece(c.move)))
          = PlainCopy(c.ram, c.move)
      BY <2>1, <3>1, PiecesJoin
    <3>. HIDE DEF g
    <3>4. g[CopyOn(c)] = PlainCopy(c.ram, c.move)
      BY <3>1, <3>2, <3>3
    <3>. QED BY <2>1, <2>3, <3>4
  <2>. QED BY <2>2, <2>3
<1>4. [ram |-> m, move |-> t] \in E
  BY DEF CopyJobs
<1>5. g[[ram |-> m, move |-> t]] = PlainCopy(m, t)
  BY <1>4
<1>. HIDE DEF E, g
<1>6. \A c \in E : Copied[c] = g[c]
  BY <1>1, <1>2, <1>3, CopyRanks, CopiedIs, TailComputes
<1>. QED BY <1>4, <1>5, <1>6 DEF Moved

LEMMA CopiedTyped ==
    ASSUME NEW m \in Memory, NEW t \in Moves
    PROVE  Moved(m, t) \in Memory /\ (t.len = 0 => Moved(m, t) = m)
<1>1. \A c \in CopyJobs : CopyLast[c] \in Memory
  BY CopyGoesOn DEF CopyLast
<1>2. \A c \in CopyJobs : Copied[c] \in Memory
  BY <1>1, CopyRanks, CopiedIs, TailTyped
<1>3. [ram |-> m, move |-> t] \in CopyJobs
  BY DEF CopyJobs
<1>4. t.len = 0 => Copied[[ram |-> m, move |-> t]] = m
  BY <1>3, CopiedIs DEF CopyRank, CopyLast
<1>. QED BY <1>2, <1>3, <1>4 DEF Moved

-----------------------------------------------------------------------------
(* The channels that a write to DMACR starts, one after the other.         *)
Starts == [ram : Memory, todo : SUBSET Channels]
StartOn(x) ==
    IF x.todo = {} THEN x
    ELSE [ram |-> Moved(x.ram, chan[Least(x.todo)].move), todo |-> x.todo \ {Least(x.todo)}]
StartRank == [x \in Starts |-> Cardinality(x.todo)]
StartNext == [x \in Starts |-> StartOn(x)]
StartLast == [x \in Starts |-> x.ram]

LEMMA ChannelsAre ==
    ASSUME NEW S \in SUBSET Channels
    PROVE  /\ IsFiniteSet(S) /\ Cardinality(S) \in Nat /\ (Cardinality(S) = 0 <=> S = {})
           /\ 0 \in Channels /\ Channels \subseteq Nat
           /\ S # {} => Least(S) \in S /\ Cardinality(S \ {Least(S)}) < Cardinality(S)
<1>1. PICK n \in 0..5 : Channels = 0..n
  BY DmaAssumption
<1>2. IsFiniteSet(Channels)
  BY <1>1, FS_Interval
<1>3. Channels \subseteq Nat /\ 0 \in Channels
  BY <1>1
<1>4. IsFiniteSet(S) /\ Cardinality(S) \in Nat /\ (Cardinality(S) = 0 <=> S = {})
  BY <1>2, FS_Subset, FS_CardinalityType, FS_EmptySet
<1>5. ASSUME S # {} PROVE Least(S) \in S /\ Cardinality(S \ {Least(S)}) < Cardinality(S)
  <2>1. S \in SUBSET Nat
    BY <1>3
  <2>2. Least(S) \in S
    BY <1>5, <2>1, LeastIs
  <2>3. Cardinality(S \ {Least(S)}) = Cardinality(S) - 1
    BY <1>4, <2>2, FS_RemoveElement
  <2>. QED BY <1>4, <2>2, <2>3
<1>. QED BY <1>3, <1>4, <1>5

LEMMA StartGoesOn ==
    ASSUME DmaTypeOK, NEW x \in Starts
    PROVE  /\ x.ram \in Memory /\ x.todo \in SUBSET Channels /\ StartOn(x) \in Starts
           /\ Cardinality(x.todo) \in Nat /\ (Cardinality(x.todo) = 0 <=> x.todo = {})
           /\ x.todo # {} =>
                  /\ Least(x.todo) \in x.todo /\ chan[Least(x.todo)].move \in Moves
                  /\ StartOn(x) = [ram |-> Moved(x.ram, chan[Least(x.todo)].move),
                                   todo |-> x.todo \ {Least(x.todo)}]
                  /\ Cardinality(StartOn(x).todo) < Cardinality(x.todo)
<1>1. x.ram \in Memory /\ x.todo \in SUBSET Channels
  BY DEF Starts
<1>2. Cardinality(x.todo) \in Nat /\ (Cardinality(x.todo) = 0 <=> x.todo = {})
  BY <1>1, ChannelsAre
<1>3. ASSUME x.todo # {}
      PROVE  /\ Least(x.todo) \in x.todo /\ chan[Least(x.todo)].move \in Moves
             /\ StartOn(x) = [ram |-> Moved(x.ram, chan[Least(x.todo)].move),
                              todo |-> x.todo \ {Least(x.todo)}]
             /\ Cardinality(StartOn(x).todo) < Cardinality(x.todo)
             /\ StartOn(x) \in Starts
  <2>1. Least(x.todo) \in x.todo
        /\ Cardinality(x.todo \ {Least(x.todo)}) < Cardinality(x.todo)
    BY <1>1, <1>3, ChannelsAre
  <2>2. chan[Least(x.todo)].move \in Moves
    BY <1>1, <2>1 DEF DmaTypeOK
  <2>3. StartOn(x) = [ram |-> Moved(x.ram, chan[Least(x.todo)].move),
                      todo |-> x.todo \ {Least(x.todo)}]
    BY <1>3 DEF StartOn
  <2>4. Moved(x.ram, chan[Least(x.todo)].move) \in Memory
    BY <1>1, <2>2, CopiedTyped
  <2>5. StartOn(x) \in Starts
    BY <1>1, <2>3, <2>4 DEF Starts
  <2>6. StartOn(x).todo = x.todo \ {Least(x.todo)}
    BY <2>3
  <2>. QED BY <2>1, <2>2, <2>3, <2>5, <2>6
<1>4. x.todo = {} => StartOn(x) \in Starts
  BY DEF StartOn
<1>. QED BY <1>1, <1>2, <1>3, <1>4

LEMMA StartRanks ==
    ASSUME DmaTypeOK
    PROVE  /\ StartRank \in [Starts -> Nat] /\ StartNext \in [Starts -> Starts]
           /\ \A x \in Starts : StartRank[x] # 0 => StartRank[StartNext[x]] < StartRank[x]
<1>1. StartRank \in [Starts -> Nat]
  BY StartGoesOn DEF StartRank
<1>2. StartNext \in [Starts -> Starts]
  BY StartGoesOn DEF StartNext
<1>3. ASSUME NEW x \in Starts, StartRank[x] # 0
      PROVE  StartRank[StartNext[x]] < StartRank[x]
  <2>1. StartRank[x] = Cardinality(x.todo) /\ StartNext[x] = StartOn(x) /\ StartOn(x) \in Starts
    BY StartGoesOn DEF StartRank, StartNext
  <2>2. StartRank[StartOn(x)] = Cardinality(StartOn(x).todo)
    BY <2>1 DEF StartRank
  <2>. QED BY <1>3, <2>1, <2>2, StartGoesOn
<1>. QED BY <1>1, <1>2, <1>3

(* enable_global_dma's loop defines what the memory is after all of them.  *)
LEMMA MovedAllIs ==
    ASSUME DmaTypeOK
    PROVE  \A x \in Starts :
               MovedAll[x] = IF StartRank[x] = 0 THEN StartLast[x] ELSE MovedAll[StartNext[x]]
<1>0. PICK f : Solves(f, Starts, StartRank, StartNext, StartLast)
  <2>1. StartRank \in [Starts -> Nat] /\ StartNext \in [Starts -> Starts]
    BY StartRanks
  <2>. QED BY <2>1, TailRecursion
<1>1. /\ f = [x \in Starts |-> f[x]]
      /\ \A x \in Starts : f[x] = IF StartRank[x] = 0 THEN StartLast[x] ELSE f[StartNext[x]]
  BY <1>0 DEF Solves
<1>2. \A x \in Starts :
        /\ StartRank[x] = 0 <=> x.todo = {}
        /\ StartLast[x] = x.ram /\ StartNext[x] = StartOn(x)
  BY StartGoesOn DEF StartRank, StartLast, StartNext
<1>3. \A g : \A x \in Starts :
        (IF StartRank[x] = 0 THEN StartLast[x] ELSE g[StartNext[x]])
        = IF x.todo = {} THEN x.ram
          ELSE g[[ram |-> Moved(x.ram, chan[Least(x.todo)].move),
                  todo |-> x.todo \ {Least(x.todo)}]]
  BY <1>2 DEF StartOn
<1>4. f = [x \in Starts |->
          IF x.todo = {} THEN x.ram
          ELSE f[[ram |-> Moved(x.ram, chan[Least(x.todo)].move),
                  todo |-> x.todo \ {Least(x.todo)}]]]
  <2>1. \A x \in Starts : f[x] = IF x.todo = {} THEN x.ram
          ELSE f[[ram |-> Moved(x.ram, chan[Least(x.todo)].move),
                  todo |-> x.todo \ {Least(x.todo)}]]
    BY <1>1, <1>3
  <2>. QED BY <1>1, <2>1
<1>5. MovedAll = CHOOSE g : g = [x \in Starts |->
          IF x.todo = {} THEN x.ram
          ELSE g[[ram |-> Moved(x.ram, chan[Least(x.todo)].move),
                  todo |-> x.todo \ {Least(x.todo)}]]]
  BY DEF MovedAll, Starts
<1>6. MovedAll = [x \in Starts |->
          IF x.todo = {} THEN x.ram
          ELSE MovedAll[[ram |-> Moved(x.ram, chan[Least(x.todo)].move),
                         todo |-> x.todo \ {Least(x.todo)}]]]
  BY <1>4, <1>5
<1>7. ASSUME NEW x \in Starts
      PROVE  MovedAll[x] = IF StartRank[x] = 0 THEN StartLast[x] ELSE MovedAll[StartNext[x]]
  <2>1. MovedAll[x] = IF x.todo = {} THEN x.ram
                    ELSE MovedAll[[ram |-> Moved(x.ram, chan[Least(x.todo)].move),
                                   todo |-> x.todo \ {Least(x.todo)}]]
    BY <1>6
  <2>. QED BY <2>1, <1>3
<1>. QED BY <1>7

LEMMA MovedAllTyped ==
    ASSUME DmaTypeOK, NEW S \in SUBSET Channels
    PROVE  MovedAll[[ram |-> ram, todo |-> S]] \in Memory
<1>1. \A x \in Starts : StartLast[x] \in Memory
  BY StartGoesOn DEF StartLast
<1>2. \A x \in Starts : MovedAll[x] \in Memory
  BY <1>1, StartRanks, MovedAllIs, TailTyped
<1>3. [ram |-> ram, todo |-> S] \in Starts
  BY DEF Starts, DmaTypeOK
<1>. QED BY <1>2, <1>3

(* What starting the channels of S copies if only channel c can have       *)
(* something to copy.                                                      *)
LEMMA OneMoves ==
    ASSUME DmaTypeOK, NEW S \in SUBSET Channels, NEW c \in Channels, Aside(chan[c].move),
           \A d \in S : d # c => chan[d].move.len = 0
    PROVE  MovedAll[[ram |-> ram, todo |-> S]]
           = IF c \in S THEN PlainCopy(ram, chan[c].move) ELSE ram
<1>. DEFINE E == {x \in Starts : \A d \in x.todo : d # c => chan[d].move.len = 0}
            g == [x \in Starts |-> IF c \in x.todo THEN PlainCopy(x.ram, chan[c].move) ELSE x.ram]
<1>1. E \in SUBSET Starts
  OBVIOUS
<1>2. ASSUME NEW x \in E, StartRank[x] # 0 PROVE StartNext[x] \in E
  <2>1. x \in Starts /\ x.todo # {} /\ StartNext[x] = StartOn(x)
    BY <1>2, StartGoesOn DEF StartRank, StartNext
  <2>2. StartOn(x) \in Starts /\ StartOn(x).todo = x.todo \ {Least(x.todo)}
    BY <2>1, StartGoesOn
  <2>. QED BY <2>1, <2>2
<1>3. ASSUME NEW x \in E
      PROVE  g[x] = IF StartRank[x] = 0 THEN StartLast[x] ELSE g[StartNext[x]]
  <2>1. /\ x \in Starts /\ StartNext[x] = StartOn(x) /\ (StartRank[x] = 0 <=> x.todo = {})
        /\ StartLast[x] = x.ram /\ x.ram \in Memory
        /\ g[x] = IF c \in x.todo THEN PlainCopy(x.ram, chan[c].move) ELSE x.ram
    BY StartGoesOn DEF StartRank, StartNext, StartLast
  <2>2. CASE x.todo = {}
    BY <2>1, <2>2
  <2>3. CASE x.todo # {}
    <3>1. /\ Least(x.todo) \in x.todo /\ chan[Least(x.todo)].move \in Moves
          /\ StartOn(x) \in Starts /\ StartOn(x).todo = x.todo \ {Least(x.todo)}
          /\ StartOn(x).ram = Moved(x.ram, chan[Least(x.todo)].move)
      BY <2>1, <2>3, StartGoesOn
    <3>2. g[StartOn(x)] = IF c \in StartOn(x).todo THEN PlainCopy(StartOn(x).ram, chan[c].move)
                          ELSE StartOn(x).ram
      BY <3>1
    <3>3. \A d \in x.todo : d # c => chan[d].move.len = 0
      OBVIOUS
    <3>. HIDE DEF g
    <3>4. CASE Least(x.todo) = c
      <4>1. Moved(x.ram, chan[c].move) = PlainCopy(x.ram, chan[c].move)
        BY <2>1, <3>1, <3>4, CopyMeans
      <4>. QED BY <2>1, <2>3, <3>1, <3>2, <3>4, <4>1
    <3>5. CASE Least(x.todo) # c
      <4>1. Moved(x.ram, chan[Least(x.todo)].move) = x.ram
        BY <2>1, <3>1, <3>3, <3>5, CopiedTyped
      <4>. QED BY <2>1, <2>3, <3>1, <3>2, <3>5, <4>1
    <3>. QED BY <3>4, <3>5
  <2>. QED BY <2>2, <2>3
<1>4. [ram |-> ram, todo |-> S] \in E
  BY DEF Starts, DmaTypeOK
<1>5. g[[ram |-> ram, todo |-> S]] = IF c \in S THEN PlainCopy(ram, chan[c].move) ELSE ram
  BY <1>4
<1>. HIDE DEF E, g
<1>6. \A x \in E : MovedAll[x] = g[x]
  BY <1>1, <1>2, <1>3, StartRanks, MovedAllIs, TailComputes
<1>. QED BY <1>4, <1>5, <1>6

-----------------------------------------------------------------------------
ChannelRecords ==
    [move : Moves, ctl : SUBSET ControlBits, cmd : SUBSET ChannelBits, dda : Ddas]
SlotRecords == [cmd : SUBSET CommandBits, move : Moves]
WalkRecords == [on : BOOLEAN, chan : Channels, at : Slots]

LEMMA DmaTyped ==
    DmaTypeOK <=> /\ chan \in [Channels -> ChannelRecords] /\ slot \in [Slots -> SlotRecords]
                  /\ walk \in WalkRecords /\ ram \in Memory /\ ended \subseteq Channels
                  /\ programmed \in 0..MaxTransfers /\ master \in BOOLEAN
                  /\ dmaTold \in BOOLEAN /\ crashed \in BOOLEAN
BY DEF DmaTypeOK, ChannelRecords, SlotRecords, WalkRecords

LEMMA DmaStays ==
    ASSUME chan' \in [Channels -> ChannelRecords], slot' \in [Slots -> SlotRecords],
           walk' \in WalkRecords, ram' \in Memory, ended' \subseteq Channels,
           programmed' \in 0..MaxTransfers, master' \in BOOLEAN,
           dmaTold' \in BOOLEAN, crashed' \in BOOLEAN
    PROVE  DmaTypeOK'
BY DEF DmaTypeOK, ChannelRecords, SlotRecords, WalkRecords

LEMMA NoMoveIs == NoMove \in Moves /\ Aside(NoMove)
<1>1. RamSize \in Nat
  BY DmaAssumption
<1>2. [src |-> 0, dst |-> 0, len |-> 0] \in Moves
  BY <1>1, MoveIs
<1>. QED BY <1>2 DEF NoMove, Aside

LEMMA FinishedIs ==
    ASSUME NEW r \in ChannelRecords
    PROVE  /\ Finished(r) \in ChannelRecords /\ Finished(r).move.len = 0
           /\ Aside(Finished(r).move)
<1>1. r.move \in Moves
  BY DEF ChannelRecords
<1>2. /\ r.move.src \in Nat /\ r.move.dst \in Nat /\ r.move.len \in Nat /\ RamSize \in Nat
      /\ r.move.src + r.move.len <= RamSize /\ r.move.dst + r.move.len <= RamSize
      /\ r.move = [src |-> r.move.src, dst |-> r.move.dst, len |-> r.move.len]
  BY <1>1, MovesAre
<1>3. r.move.src + 0 <= RamSize /\ r.move.dst + 0 <= RamSize
  BY <1>2
<1>4. [src |-> r.move.src, dst |-> r.move.dst, len |-> 0] \in Moves
  BY <1>2, <1>3, MoveIs
<1>5. Finished(r) = [move |-> [src |-> r.move.src, dst |-> r.move.dst, len |-> 0],
                     ctl |-> ControlBits, cmd |-> r.cmd, dda |-> r.dda]
  <2>1. r = [move |-> r.move, ctl |-> r.ctl, cmd |-> r.cmd, dda |-> r.dda]
    BY DEF ChannelRecords
  <2>2. [r.move EXCEPT !.len = 0] = [src |-> r.move.src, dst |-> r.move.dst, len |-> 0]
    BY <1>2
  <2>3. Finished(r) = [move |-> [r.move EXCEPT !.len = 0], ctl |-> ControlBits, cmd |-> r.cmd, dda |-> r.dda]
    <3>1. r \in [move : Moves, ctl : SUBSET ControlBits,
                cmd : SUBSET ChannelBits, dda : Ddas]
      BY DEF ChannelRecords
    <3>2. Finished(r) = [[r EXCEPT !.move = [r.move EXCEPT !.len = 0]] EXCEPT !.ctl = ControlBits]
      BY <3>1 DEF Finished
    <3>3. [r EXCEPT !.move = [r.move EXCEPT !.len = 0]]
          = [move |-> [r.move EXCEPT !.len = 0], ctl |-> r.ctl, cmd |-> r.cmd, dda |-> r.dda]
      BY <2>1
    <3>. QED BY <3>2, <3>3
  <2>. QED BY <2>2, <2>3
<1>6. Finished(r) \in ChannelRecords /\ Finished(r).move.len = 0
  BY <1>4, <1>5 DEF ChannelRecords
<1>7. Aside([src |-> r.move.src, dst |-> r.move.dst, len |-> 0])
  BY <1>2 DEF Aside
<1>. QED BY <1>5, <1>6, <1>7

LEMMA ClearedChannels ==
    /\ ChannelsCleared \in [Channels -> ChannelRecords]
    /\ \A c \in Channels : ChannelsCleared[c].move = NoMove
BY NoMoveIs, DmaAssumption DEF ChannelsCleared, ChannelRecords

LEMMA DmaInitHolds == DmaInit => DmaTypeOK
<1>. SUFFICES ASSUME DmaInit PROVE DmaTypeOK
  OBVIOUS
<1>. USE DEF DmaInit
<1>1. 0 \in Channels
  BY ChannelsAre
<1>2. /\ 0 \in Slots /\ 0 \in 0..MaxTransfers /\ RamSize \in Nat
  BY DmaAssumption
<1>3. chan \in [Channels -> ChannelRecords] /\ slot \in [Slots -> SlotRecords]
  BY <1>2, NoMoveIs, ClearedChannels DEF SlotRecords
<1>4. walk \in WalkRecords
  BY <1>1, <1>2 DEF NoWalk, WalkRecords
<1>5. ram \in Memory
  BY <1>2 DEF Memory
<1>. QED BY <1>2, <1>3, <1>4, <1>5, DmaTyped

LEMMA CrashesHolds ==
    ASSUME DmaTypeOK, Crashes
    PROVE  DmaTypeOK'
<1>1. NoWalk \in WalkRecords
  BY ChannelsAre, DmaAssumption DEF WalkRecords, NoWalk
<1>2. crashed' \in BOOLEAN
  BY DEF Crashes
<1>3. /\ chan' \in [Channels -> ChannelRecords] /\ slot' \in [Slots -> SlotRecords]
      /\ walk' \in WalkRecords /\ ram' \in Memory /\ ended' \subseteq Channels
      /\ programmed' \in 0..MaxTransfers /\ master' \in BOOLEAN /\ dmaTold' \in BOOLEAN
  BY <1>1, DmaTyped DEF Crashes
<1>. QED BY <1>2, <1>3, DmaStays

LEMMA RunsAllHold ==
    ASSUME DmaTypeOK, NEW S \in SUBSET Channels, NEW new \in [Channels -> ChannelRecords],
           NEW on \in BOOLEAN, RunsAll(S, new, on)
    PROVE  DmaTypeOK'
<1>. USE DEF RunsAll
<1>1. ram' \in Memory
  BY MovedAllTyped
<1>2. chan' \in [Channels -> ChannelRecords]
  BY FinishedIs
<1>3. ended' \subseteq Channels
  BY DEF DmaTypeOK
<1>4. master' \in BOOLEAN /\ dmaTold' \in BOOLEAN
  BY Zenon
<1>5. /\ slot' \in [Slots -> SlotRecords] /\ walk' \in WalkRecords
      /\ programmed' \in 0..MaxTransfers /\ crashed' \in BOOLEAN
  BY DmaTyped
<1>. QED BY <1>1, <1>2, <1>3, <1>4, <1>5, DmaStays

LEMMA RunsHold ==
    ASSUME DmaTypeOK, NEW S \in SUBSET Channels, NEW new \in [Channels -> ChannelRecords],
           NEW on \in BOOLEAN, Runs(S, new, on)
    PROVE  DmaTypeOK'
BY CrashesHolds, RunsAllHold DEF Runs

LEMMA DmaResetsHolds == DmaTypeOK /\ DmaResets => DmaTypeOK'
<1>. SUFFICES ASSUME DmaTypeOK, DmaResets PROVE DmaTypeOK'
  OBVIOUS
<1>1. programmed' \in 0..MaxTransfers
  BY DmaTyped, DmaAssumption DEF DmaResets
<1>2. /\ chan' \in [Channels -> ChannelRecords] /\ slot' \in [Slots -> SlotRecords]
      /\ walk' \in WalkRecords /\ ram' \in Memory /\ crashed' \in BOOLEAN
  BY DmaTyped, ClearedChannels DEF DmaResets
<1>3. ended' \subseteq Channels /\ master' \in BOOLEAN /\ dmaTold' \in BOOLEAN
  BY DEF DmaResets
<1>. QED BY <1>1, <1>2, <1>3, DmaStays

LEMMA ProgramsHolds == DmaTypeOK /\ Programs => DmaTypeOK'
<1>. SUFFICES ASSUME DmaTypeOK, Programs PROVE DmaTypeOK'
  OBVIOUS
<1>1. PICK c \in Channels, t \in Transfers, b \in SUBSET ChannelBits, a \in Ddas :
          \/ chan' = [chan EXCEPT ![c].move = t, ![c].cmd = b]
          \/ chan' = [chan EXCEPT ![c].dda = a]
  BY DEF Programs
<1>2. t \in Moves /\ MaxTransfers \in Nat
  BY DmaAssumption
<1>3. chan' \in [Channels -> ChannelRecords]
  BY <1>1, <1>2, DmaTyped DEF ChannelRecords
<1>4. programmed' \in 0..MaxTransfers
  BY <1>2, DmaTyped DEF Programs
<1>5. /\ slot' \in [Slots -> SlotRecords] /\ walk' \in WalkRecords /\ ram' \in Memory
      /\ ended' \subseteq Channels /\ master' \in BOOLEAN /\ crashed' \in BOOLEAN
  BY DmaTyped DEF Programs
<1>6. dmaTold' \in BOOLEAN
  BY DEF Programs
<1>. QED BY <1>3, <1>4, <1>5, <1>6, DmaStays

LEMMA WritesDescriptorHolds == DmaTypeOK /\ WritesDescriptor => DmaTypeOK'
<1>. SUFFICES ASSUME DmaTypeOK, WritesDescriptor PROVE DmaTypeOK'
  OBVIOUS
<1>1. PICK s \in Slots, d \in Descriptors : slot' = [slot EXCEPT ![s] = d]
  BY DEF WritesDescriptor
<1>2. d \in SlotRecords /\ MaxTransfers \in Nat
  BY DmaAssumption DEF SlotRecords
<1>3. slot' \in [Slots -> SlotRecords]
  BY <1>1, <1>2, DmaTyped
<1>4. programmed' \in 0..MaxTransfers
  BY <1>2, DmaTyped DEF WritesDescriptor
<1>5. /\ chan' \in [Channels -> ChannelRecords] /\ walk' \in WalkRecords /\ ram' \in Memory
      /\ ended' \subseteq Channels /\ master' \in BOOLEAN /\ crashed' \in BOOLEAN
  BY DmaTyped DEF WritesDescriptor
<1>6. dmaTold' \in BOOLEAN
  BY DEF WritesDescriptor
<1>. QED BY <1>3, <1>4, <1>5, <1>6, DmaStays

LEMMA WritesRegistersHold == DmaTypeOK /\ (WritesControl \/ WritesMaster) => DmaTypeOK'
<1>. SUFFICES ASSUME DmaTypeOK, WritesControl \/ WritesMaster PROVE DmaTypeOK'
  OBVIOUS
<1>0. chan \in [Channels -> ChannelRecords] /\ master \in BOOLEAN
  BY DmaTyped
<1>1. CASE WritesControl
  <2>1. PICK c \in Channels, b \in {{}, {"NDES"}, {"EN"}, {"NDES", "EN"}} :
            Runs(IF master /\ {"NDES", "EN"} \subseteq b THEN {c} ELSE {},
                 [chan EXCEPT ![c].ctl = b], master)
    BY <1>1 DEF WritesControl
  <2>2. [chan EXCEPT ![c].ctl = b] \in [Channels -> ChannelRecords]
    BY <1>0 DEF ChannelRecords, ControlBits
  <2>3. (IF master /\ {"NDES", "EN"} \subseteq b THEN {c} ELSE {}) \in SUBSET Channels
    OBVIOUS
  <2>. QED BY <1>0, <2>1, <2>2, <2>3, RunsHold
<1>2. CASE WritesMaster
  <2>1. PICK on \in BOOLEAN :
            Runs(IF on THEN {c \in Channels : "NDES" \in chan[c].ctl} ELSE {}, chan, on)
    BY <1>2 DEF WritesMaster
  <2>2. (IF on THEN {c \in Channels : "NDES" \in chan[c].ctl} ELSE {}) \in SUBSET Channels
    OBVIOUS
  <2>. QED BY <1>0, <2>1, <2>2, RunsHold
<1>. QED BY <1>1, <1>2

LEMMA RingsDoorbellHolds == DmaTypeOK /\ RingsDoorbell => DmaTypeOK'
<1>. SUFFICES ASSUME DmaTypeOK, RingsDoorbell PROVE DmaTypeOK'
  OBVIOUS
<1>1. PICK S \in (SUBSET Channels) \ {{}} :
          \/ Crashes
          \/ /\ ~(/\ master /\ "NDES" \in chan[Least(S)].ctl
                 /\ Misaligned(Least(S)))
             /\ walk' = IF master /\ "NDES" \in chan[Least(S)].ctl
                        THEN [on |-> TRUE, chan |-> Least(S), at |-> chan[Least(S)].dda]
                        ELSE NoWalk
             /\ dmaTold' = FALSE
             /\ UNCHANGED <<chan, master, ended, ram, slot, programmed, crashed>>
  BY DEF RingsDoorbell
<1>2. CASE Crashes
  BY <1>2, CrashesHolds
<1>3. CASE ~Crashes
  <2>1. Least(S) \in Channels /\ NoWalk \in WalkRecords
    <3>1. 0 \in {a \in Ddas : a % 16 = 0}
      BY DmaAssumption
    <3>2. 0 \in Slots
      BY <3>1, DmaAssumption
    <3>. QED BY <3>2, ChannelsAre DEF NoWalk, WalkRecords
  <2>2. chan[Least(S)].dda \in Ddas
    BY <2>1, DmaTyped DEF ChannelRecords
  <2>3. walk' \in WalkRecords
    <3>1. CASE master /\ "NDES" \in chan[Least(S)].ctl
      <4>1. chan[Least(S)].dda \in Slots
        BY <1>1, <1>3, <2>2, <3>1, DmaAssumption DEF Misaligned
      <4>2. walk' = [on |-> TRUE, chan |-> Least(S), at |-> chan[Least(S)].dda]
        BY <1>1, <1>3, <3>1
      <4>. QED BY <2>1, <4>1, <4>2 DEF WalkRecords
    <3>2. CASE ~(master /\ "NDES" \in chan[Least(S)].ctl)
      <4>1. walk' = NoWalk
        BY <1>1, <1>3, <3>2
      <4>. QED BY <2>1, <4>1
    <3>. QED BY <3>1, <3>2
  <2>4. /\ chan' \in [Channels -> ChannelRecords] /\ slot' \in [Slots -> SlotRecords]
        /\ ram' \in Memory /\ ended' \subseteq Channels /\ master' \in BOOLEAN
        /\ crashed' \in BOOLEAN /\ programmed' \in 0..MaxTransfers
    BY <1>1, <1>3, DmaTyped
  <2>5. dmaTold' \in BOOLEAN
    BY <1>1, <1>3
  <2>. QED BY <2>3, <2>4, <2>5, DmaStays
<1>. QED BY <1>2, <1>3

LEMMA WalksOnCases ==
    ASSUME WalksOn
    PROVE  /\ walk.on
           /\ \/ StopsInvalid \/ Crashes
              \/ Serves(slot[walk.at], Cleared(slot[walk.at].cmd))
BY DEF WalksOn

LEMMA ServesHolds ==
    ASSUME DmaTypeOK, Serves(slot[walk.at], Cleared(slot[walk.at].cmd))
    PROVE  DmaTypeOK'
<1>. DEFINE d == slot[walk.at]
            cmd == Cleared(d.cmd)
<1>1. walk.at \in Slots /\ walk.chan \in Channels /\ d \in SlotRecords
  BY DmaTyped DEF WalkRecords
<1>2. d.move \in Moves /\ NextSlot(d) \in Slots /\ d.cmd \in SUBSET CommandBits
  <2>1. d.move \in Moves /\ d.cmd \in SUBSET CommandBits
    BY <1>1 DEF SlotRecords
  <2>2. d.move.dst \in 0..RamSize
    BY <2>1 DEF Moves
  <2>. QED BY <2>1, <2>2, DmaAssumption DEF NextSlot
<1>3. cmd \in SUBSET CommandBits
  BY <1>2 DEF Cleared
<1>. HIDE DEF d, cmd
<1>4. Serves(d, cmd)
  BY DEF d, cmd
<1>5. ram' \in Memory
  BY <1>2, <1>4, DmaTyped, CopiedTyped DEF Serves
<1>6. slot' \in [Slots -> SlotRecords]
  BY <1>1, <1>3, <1>4, DmaTyped DEF Serves, SlotRecords
<1>7. chan' \in [Channels -> ChannelRecords]
  BY <1>1, <1>4, DmaTyped DEF Serves, ChannelRecords, ControlBits
<1>8. dmaTold' \in BOOLEAN
  <2>1. dmaTold' = ("TIE" \in cmd)
    BY <1>4 DEF Serves
  <2>. QED BY <2>1, MembershipIsBoolean
<1>9. walk' \in WalkRecords
  <2>1. walk' = [walk EXCEPT !.on = "LINK" \in cmd,
                             !.at = IF "LINK" \in cmd THEN NextSlot(d) ELSE walk.at]
    BY <1>4 DEF Serves
  <2>2. walk \in WalkRecords /\ ("LINK" \in cmd) \in BOOLEAN
    BY DmaTyped, MembershipIsBoolean
  <2>3. (IF "LINK" \in cmd THEN NextSlot(d) ELSE walk.at) \in Slots
    BY <1>1, <1>2
  <2>. QED BY <2>1, <2>2, <2>3 DEF WalkRecords
<1>10. /\ ended' \subseteq Channels /\ master' \in BOOLEAN /\ crashed' \in BOOLEAN
       /\ programmed' \in 0..MaxTransfers
  BY <1>4, DmaTyped DEF Serves
<1>. QED BY <1>5, <1>6, <1>7, <1>8, <1>9, <1>10, DmaStays

LEMMA WalksOnHolds == DmaTypeOK /\ WalksOn => DmaTypeOK'
<1>. SUFFICES ASSUME DmaTypeOK, WalksOn PROVE DmaTypeOK'
  OBVIOUS
<1>1. walk.chan \in Channels /\ NoWalk \in WalkRecords
  BY DmaTyped, ChannelsAre, DmaAssumption DEF WalkRecords, NoWalk
<1>2. CASE StopsInvalid
  <2>1. chan' \in [Channels -> ChannelRecords]
    BY <1>1, <1>2, DmaTyped DEF StopsInvalid, ChannelRecords, ControlBits
  <2>. QED BY <1>1, <1>2, <2>1, DmaTyped, DmaStays DEF StopsInvalid
<1>3. CASE Crashes
  BY <1>3, CrashesHolds
<1>. QED BY <1>2, <1>3, WalksOnCases, ServesHolds

LEMMA DmaStepHolds == DmaTypeOK /\ [DmaNext]_dmaVars => DmaTypeOK'
<1>. SUFFICES ASSUME DmaTypeOK, [DmaNext]_dmaVars PROVE DmaTypeOK'
  OBVIOUS
<1>1. CASE UNCHANGED dmaVars
  BY <1>1 DEF dmaVars, DmaTypeOK
<1>. QED BY <1>1, ProgramsHolds, WritesDescriptorHolds, WritesRegistersHold, RingsDoorbellHolds,
        WalksOnHolds, DmaResetsHolds DEF DmaNext

(* The controller's registers, its channels, its descriptors and the       *)
(* memory keep their types, whatever starts, for any size of page.         *)
THEOREM DmaTypes == DmaSpec => []DmaTypeOK
BY DmaInitHolds, DmaStepHolds, PTL DEF DmaSpec

-----------------------------------------------------------------------------
(* Where the guest programs only transfers that write nothing they read.   *)
AllAside ==
    /\ \A c \in Channels : Aside(chan[c].move)
    /\ \A s \in Slots : Aside(slot[s].move)
GuestAside ==
    /\ \A t \in Transfers : Aside(t)
    /\ \A d \in Descriptors : Aside(d.move)

StepMeans ==
    /\ Cardinality(Emptied) = 1 => ram' = PlainCopy(ram, chan[Least(Emptied)].move)
    /\ (Emptied = {} /\ ~walk.on) => ram' = ram
    /\ walk.on /\ ram' # ram => ram' = PlainCopy(ram, slot[walk.at].move)

LEMMA RunsAllMean ==
    ASSUME DmaTypeOK, AllAside, Waiting, NEW S \in SUBSET Channels,
           NEW new \in [Channels -> ChannelRecords], NEW on, RunsAll(S, new, on),
           \A c \in Channels : new[c].move = chan[c].move
    PROVE  StepMeans /\ AllAside'
<1>1. /\ ram' = MovedAll[[ram |-> ram, todo |-> S]] /\ programmed' = programmed
      /\ \A c \in Channels : chan'[c] = IF c \in S THEN Finished(new[c]) ELSE new[c]
      /\ slot' = slot /\ ~walk.on
  BY DEF RunsAll, Waiting
<1>2. \A c \in Channels :
        /\ chan[c].move \in Moves /\ chan[c].move.len \in Nat /\ Aside(chan[c].move)
        /\ Finished(new[c]).move.len = 0 /\ Aside(Finished(new[c]).move)
  BY DmaTyped, MovesAre, FinishedIs DEF AllAside, ChannelRecords
<1>3. Emptied = {c \in S : chan[c].move.len # 0}
  <2>1. \A c \in Channels : c \in Emptied <=> c \in S /\ chan[c].move.len # 0
    BY <1>1, <1>2 DEF Emptied
  <2>. QED BY <2>1 DEF Emptied
<1>4. AllAside'
  BY <1>1, <1>2 DEF AllAside
<1>5. ASSUME Cardinality(Emptied) = 1 PROVE ram' = PlainCopy(ram, chan[Least(Emptied)].move)
  <2>1. IsFiniteSet(Emptied)
    BY ChannelsAre DEF Emptied
  <2>2. PICK c : Emptied = {c}
    BY <1>5, <2>1, FS_Singleton
  <2>3. c \in S /\ c \in Channels /\ \A d \in S : d # c => chan[d].move.len = 0
    BY <1>3, <2>2
  <2>4. Least(Emptied) = c
    <3>1. {c} \in SUBSET Nat
      BY <2>3, ChannelsAre
    <3>. QED BY <2>2, <3>1, LeastIs
  <2>. QED BY <1>1, <1>2, <2>3, <2>4, OneMoves
<1>6. ASSUME Emptied = {} PROVE ram' = ram
  <2>1. 0 \in Channels /\ \A d \in S : chan[d].move.len = 0
    BY <1>3, <1>6, ChannelsAre
  <2>2. ram' = IF 0 \in S THEN PlainCopy(ram, chan[0].move) ELSE ram
    BY <1>1, <1>2, <2>1, OneMoves
  <2>3. 0 \in S => PlainCopy(ram, chan[0].move) = ram
    BY <1>2, <2>1, NothingCopied DEF DmaTypeOK
  <2>. QED BY <2>2, <2>3
<1>. QED BY <1>1, <1>4, <1>5, <1>6 DEF StepMeans

(* A step that programs copies nothing, and ends nothing by itself.        *)
LEMMA StillMeans ==
    ASSUME DmaTypeOK, ram' = ram, Emptied = {}
    PROVE  StepMeans
<1>1. Cardinality(Emptied) # 1
  BY FS_EmptySet
<1>. QED BY <1>1 DEF StepMeans

LEMMA NoneEmptied ==
    ASSUME \A c \in Channels : chan'[c].move = chan[c].move, DmaTypeOK
    PROVE  Emptied = {}
<1>1. \A c \in Channels : chan[c].move.len \in Nat
  BY DmaTyped, MovesAre DEF ChannelRecords
<1>. QED BY <1>1 DEF Emptied

LEMMA CrashesMeans ==
    ASSUME DmaTypeOK, AllAside, Crashes
    PROVE  StepMeans /\ AllAside'
<1>1. ram' = ram /\ slot' = slot /\ chan' = chan
  BY DEF Crashes
<1>2. StepMeans
  BY <1>1, NoneEmptied, StillMeans
<1>. QED BY <1>1, <1>2 DEF AllAside

LEMMA RunsMean ==
    ASSUME DmaTypeOK, AllAside, Waiting, NEW S \in SUBSET Channels,
           NEW new \in [Channels -> ChannelRecords], NEW on, Runs(S, new, on),
           \A c \in Channels : new[c].move = chan[c].move
    PROVE  StepMeans /\ AllAside'
BY RunsAllMean, CrashesMeans DEF Runs

LEMMA DmaStepMeans ==
    DmaTypeOK /\ AllAside /\ GuestAside /\ [DmaNext]_dmaVars
        => [StepMeans]_dmaVars /\ AllAside'
<1>. SUFFICES ASSUME DmaTypeOK, AllAside, GuestAside, [DmaNext]_dmaVars
              PROVE  (UNCHANGED dmaVars \/ StepMeans) /\ AllAside'
  OBVIOUS
<1>0. /\ chan \in [Channels -> ChannelRecords] /\ slot \in [Slots -> SlotRecords]
      /\ walk \in WalkRecords
  BY DmaTyped
<1>1. CASE Programs
  <2>1. PICK c \in Channels, t \in Transfers, b \in SUBSET ChannelBits, a \in Ddas :
            \/ chan' = [chan EXCEPT ![c].move = t, ![c].cmd = b]
            \/ chan' = [chan EXCEPT ![c].dda = a]
    BY <1>1 DEF Programs
  <2>2. ram' = ram /\ slot' = slot /\ programmed' = programmed + 1 /\ programmed \in Nat
    BY <1>1, DmaTyped DEF Programs
  <2>3. Emptied = {}
    BY <2>2 DEF Emptied
  <2>4. StepMeans
    BY <2>2, <2>3, StillMeans
  <2>5. AllAside'
    BY <1>0, <2>1, <2>2 DEF AllAside, GuestAside, ChannelRecords
  <2>. QED BY <2>4, <2>5
<1>2. CASE WritesDescriptor
  <2>1. PICK s \in Slots, d \in Descriptors : slot' = [slot EXCEPT ![s] = d]
    BY <1>2 DEF WritesDescriptor
  <2>2. ram' = ram /\ chan' = chan
    BY <1>2 DEF WritesDescriptor
  <2>3. StepMeans
    BY <2>2, NoneEmptied, StillMeans
  <2>4. AllAside'
    BY <1>0, <2>1, <2>2 DEF AllAside, GuestAside
  <2>. QED BY <2>3, <2>4
<1>3. CASE WritesControl
  <2>1. PICK c \in Channels, b \in {{}, {"NDES"}, {"EN"}, {"NDES", "EN"}} :
            Runs(IF master /\ {"NDES", "EN"} \subseteq b THEN {c} ELSE {},
                 [chan EXCEPT ![c].ctl = b], master)
    BY <1>3 DEF WritesControl
  <2>2. [chan EXCEPT ![c].ctl = b] \in [Channels -> ChannelRecords]
    BY <1>0 DEF ChannelRecords, ControlBits
  <2>3. \A e \in Channels : [chan EXCEPT ![c].ctl = b][e].move = chan[e].move
    BY <1>0 DEF ChannelRecords
  <2>4. (IF master /\ {"NDES", "EN"} \subseteq b THEN {c} ELSE {}) \in SUBSET Channels
    OBVIOUS
  <2>5. Waiting
    BY <1>3 DEF WritesControl
  <2>. QED BY <2>1, <2>2, <2>3, <2>4, <2>5, RunsMean
<1>4. CASE WritesMaster
  <2>1. PICK on \in BOOLEAN :
            Runs(IF on THEN {c \in Channels : "NDES" \in chan[c].ctl} ELSE {}, chan, on)
    BY <1>4 DEF WritesMaster
  <2>2. (IF on THEN {c \in Channels : "NDES" \in chan[c].ctl} ELSE {}) \in SUBSET Channels
    OBVIOUS
  <2>3. Waiting
    BY <1>4 DEF WritesMaster
  <2>. QED BY <1>0, <2>1, <2>2, <2>3, RunsMean
<1>5. CASE RingsDoorbell
  <2>0. CASE Crashes
    BY <2>0, CrashesMeans
  <2>. SUFFICES ASSUME ~Crashes PROVE StepMeans /\ AllAside'
    BY <2>0
  <2>1. ram' = ram /\ chan' = chan /\ slot' = slot
    BY <1>5 DEF RingsDoorbell
  <2>2. StepMeans
    BY <2>1, NoneEmptied, StillMeans
  <2>3. AllAside'
    BY <2>1 DEF AllAside
  <2>. QED BY <2>2, <2>3
<1>6. CASE WalksOn
  <2>1. walk.at \in Slots /\ walk.chan \in Channels
    BY <1>0 DEF WalkRecords
  <2>2. CASE Serves(slot[walk.at], Cleared(slot[walk.at].cmd))
    <3>. DEFINE d == slot[walk.at]
                bit == IF "LINK" \in Cleared(d.cmd) THEN "CT" ELSE "TT"
    <3>1. /\ ram' = Moved(ram, d.move)
          /\ slot' = [slot EXCEPT ![walk.at].cmd = Cleared(d.cmd)]
          /\ chan' = [chan EXCEPT ![walk.chan].ctl = chan[walk.chan].ctl \cup {bit}]
      BY <2>2 DEF Serves
    <3>. HIDE DEF bit
    <3>2. \A e \in Channels : chan'[e].move = chan[e].move
      BY <1>0, <3>1 DEF ChannelRecords
    <3>3. \A s \in Slots : slot'[s].move = slot[s].move
      BY <1>0, <3>1 DEF SlotRecords
    <3>4. Emptied = {}
      BY <3>2, NoneEmptied
    <3>5. d.move \in Moves /\ Aside(d.move) /\ ram \in Memory
      BY <1>0, <2>1, DmaTyped DEF AllAside, SlotRecords
    <3>6. ram' = PlainCopy(ram, d.move)
      BY <3>1, <3>5, CopyMeans
    <3>7. StepMeans
      <4>1. Cardinality(Emptied) # 1
        BY <3>4, FS_EmptySet
      <4>2. walk.on
        BY <1>6, WalksOnCases
      <4>. QED BY <3>6, <4>1, <4>2 DEF StepMeans
    <3>8. AllAside'
      BY <3>2, <3>3 DEF AllAside
    <3>. QED BY <3>7, <3>8
  <2>3. CASE StopsInvalid
    <3>1. ram' = ram /\ slot' = slot
          /\ chan' = [chan EXCEPT ![walk.chan].ctl = chan[walk.chan].ctl \cup {"INV"}]
      BY <2>3 DEF StopsInvalid
    <3>2. \A e \in Channels : chan'[e].move = chan[e].move
      BY <1>0, <3>1 DEF ChannelRecords
    <3>3. StepMeans
      BY <3>1, <3>2, NoneEmptied, StillMeans
    <3>4. AllAside'
      BY <3>1, <3>2 DEF AllAside
    <3>. QED BY <3>3, <3>4
  <2>4. CASE Crashes
    BY <2>4, CrashesMeans
  <2>. QED BY <1>6, <2>2, <2>3, <2>4, WalksOnCases
<1>7. CASE UNCHANGED dmaVars
  <2>1. chan' = chan /\ slot' = slot
    BY <1>7 DEF dmaVars
  <2>. QED BY <1>7, <2>1 DEF AllAside
<1>8. CASE DmaResets
  <2>1. ram' = ram /\ slot' = slot /\ programmed' = programmed + 1
        /\ chan' = ChannelsCleared /\ programmed \in Nat
    BY <1>8, DmaTyped DEF DmaResets
  <2>2. Emptied = {}
    BY <2>1 DEF Emptied
  <2>3. StepMeans
    BY <2>1, <2>2, StillMeans
  <2>4. AllAside'
    BY <2>1, ClearedChannels, NoMoveIs DEF AllAside
  <2>. QED BY <2>3, <2>4
<1>. QED BY <1>1, <1>2, <1>3, <1>4, <1>5, <1>6, <1>7, <1>8 DEF DmaNext

(* TransfersMean: a channel's transfer and a descriptor's change memory as *)
(* one memcpy of all of it, however the copy is cut at the pages.          *)
THEOREM TransfersCopy ==
    ASSUME GuestAside
    PROVE  DmaSpec => TransfersMean
<1>1. DmaInit => AllAside
  <2>1. ASSUME DmaInit PROVE AllAside
    <3>1. \A c \in Channels : chan[c].move = NoMove
      BY <2>1, ClearedChannels DEF DmaInit
    <3>2. \A t \in Slots : slot[t].move = NoMove
      BY <2>1 DEF DmaInit
    <3>. QED BY <3>1, <3>2, NoMoveIs DEF AllAside
  <2>. QED BY <2>1
<1>2. DmaTypeOK /\ AllAside /\ [DmaNext]_dmaVars => [StepMeans]_dmaVars /\ AllAside'
  BY DmaStepMeans
<1>3. [StepMeans]_dmaVars
      => [/\ Cardinality(Emptied) = 1 => ram' = PlainCopy(ram, chan[Least(Emptied)].move)
          /\ (Emptied = {} /\ ~walk.on) => ram' = ram
          /\ walk.on /\ ram' # ram => ram' = PlainCopy(ram, slot[walk.at].move)]_dmaVars
  BY DEF StepMeans
<1>. QED BY <1>1, <1>2, <1>3, DmaTypes, PTL DEF DmaSpec, TransfersMean

-----------------------------------------------------------------------------
(* The board: what each of its parts does is what that part does alone.    *)
LEMMA BoardStarts ==
    Init => /\ NicInit /\ TcuInit /\ DmaInit /\ RtcInit
            /\ LcdInit /\ TsInit /\ DevInit /\ DbgInit
BY DEF Init

LEMMA BoardMoves ==
    ASSUME [Next]_vars
    PROVE  /\ [NicNext]_nicVars /\ [TcuNext]_tcuVars /\ [DmaNext]_dmaVars /\ [RtcNext]_rtcVars
           /\ [LcdNext]_lcdVars /\ [TsNext]_tsVars /\ [DevNext]_devVars /\ [DbgNext]_dbgVars
           /\ focus' = focus
<1>1. CASE NicRuns
  BY <1>1 DEF NicRuns
<1>2. CASE TcuRuns
  BY <1>2 DEF TcuRuns
<1>3. CASE DmaRuns
  BY <1>3 DEF DmaRuns
<1>4. CASE RtcRuns
  BY <1>4 DEF RtcRuns
<1>5. CASE LcdRuns
  BY <1>5 DEF LcdRuns
<1>6. CASE TsRuns
  BY <1>6 DEF TsRuns
<1>7. CASE DevicesRun
  BY <1>7 DEF DevicesRun
<1>8. CASE DebuggerRuns
  BY <1>8 DEF DebuggerRuns
<1>9. CASE UNCHANGED vars
  BY <1>9 DEF vars
<1>. QED BY <1>1, <1>2, <1>3, <1>4, <1>5, <1>6, <1>7, <1>8, <1>9 DEF Next

(* The board implements each of its parts, so what is proved of a part     *)
(* holds of the board.                                                     *)
THEOREM BoardIsItsParts ==
    Spec => /\ NicSpec /\ TcuSpec /\ DmaSpec /\ RtcSpec
            /\ LcdSpec /\ TsSpec /\ DevSpec /\ DbgSpec
<1>1. [Next]_vars =>
        /\ [NicNext]_nicVars /\ [TcuNext]_tcuVars /\ [DmaNext]_dmaVars /\ [RtcNext]_rtcVars
        /\ [LcdNext]_lcdVars /\ [TsNext]_tsVars /\ [DevNext]_devVars /\ [DbgNext]_dbgVars
  BY BoardMoves
<1>. QED
  BY <1>1, BoardStarts, PTL
     DEF Spec, NicSpec, TcuSpec, DmaSpec, RtcSpec, LcdSpec, TsSpec, DevSpec, DbgSpec

(* Whatever part runs, its registers keep their types.                     *)
THEOREM BoardTypes == Spec => []BoardTypeOK
<1>. DEFINE Focused ==
         focus \in {"nic", "tcu", "dma", "rtc", "lcd", "ts", "devices", "gdb"}
<1>1. Init => Focused
  BY DEF Init
<1>2. Focused /\ [Next]_vars => Focused'
  BY BoardMoves
<1>3. /\ Focused /\ NicTypeOK /\ TcuTypeOK /\ DmaTypeOK /\ RtcTypeOK
      /\ LcdTypeOK /\ TsTypeOK /\ DevTypeOK /\ DbgTypeOK
      => BoardTypeOK
  BY DEF BoardTypeOK
<1>. HIDE DEF Focused
<1>4. TsSpec => []TsTypeOK
  BY HalvesStayInStep, PTL
<1>. QED
  BY <1>1, <1>2, <1>3, <1>4, BoardIsItsParts, EventsReachDriver, HostTimersFollow, DmaTypes,
     ClockFollowsCalendar, PollsFindTheWindow, LookupsFind, DebuggerTypes, PTL DEF Spec

=============================================================================
