--------------------------------- MODULE Rtc ---------------------------------
(***************************************************************************)
(* The real-time clock (jz4740_dev_rtc.c): the host's date is turned into  *)
(* seconds since 2000, once a second by a host timer and at each reset.    *)
(* The host's clock goes on by itself; the timer's callback is never       *)
(* early, and late when the CPU thread is.                                 *)
(***************************************************************************)
EXTENDS Naturals

CONSTANTS
    LastYear,  \* the dates checked end with it (bound)
    Skips,     \* seconds that may pass between two callbacks
    Hours,     \* <<hour, minute, second>> a day starts with, for the checks
    AlarmSpan, \* the guest sets its alarm at most this far ahead (bound)
    MaxPolls   \* seconds the clock is on (bound)

ASSUME RtcAssumption ==
    /\ LastYear \in 2000..2099 /\ AlarmSpan \in Nat /\ Skips \subseteq Nat \ {0}
    /\ Hours \subseteq (0..23) \X (0..59) \X (0..59)

VARIABLES
    date,   \* the host's date: year, month, day, hour, minute, second
    rtc,    \* RCR, RSR and RSAR, and whether the host's timer is armed
    day,    \* days since 1 January 2000, counted and not computed
    polls   \* (bound)

rtcVars == <<date, rtc, day, polls>>

-----------------------------------------------------------------------------
(* sum_monthday, yearday and jz_mktime.                                    *)
SumMonthDay ==
    <<0, 31, 59, 90, 120, 151, 181, 212, 243, 273, 304, 334, 365>>
YearDay == <<0, 366, 731, 1096, 1461>>

(* Variant: February's 29th day is counted from the first of the year.     *)
LeapDayEarly(y, m) == IF y % 4 = 0 /\ m >= 2 THEN 1 ELSE 0

LeapDay(y, m) == IF y % 4 = 0 /\ m >= 3 THEN 1 ELSE 0

MkTime(d) ==
    LET y == (IF d.year < 2000 THEN 2000 ELSE d.year) - 2000
        days == (y \div 4) * (365 * 3 + 366) + YearDay[(y % 4) + 1]
                + SumMonthDay[d.month] + LeapDay(y, d.month) + d.day - 1
    IN  ((days * 24 + d.hour) * 60 + d.min) * 60 + d.sec

-----------------------------------------------------------------------------
(* The host's calendar.                                                    *)
MonthLength(y, m) ==
    CASE m = 2 -> IF y % 4 = 0 /\ (y % 100 # 0 \/ y % 400 = 0) THEN 29 ELSE 28
      [] m \in {4, 6, 9, 11} -> 30
      [] OTHER -> 31
NextDay(d) ==
    IF d.day < MonthLength(d.year, d.month)
    THEN [d EXCEPT !.day = @ + 1]
    ELSE IF d.month < 12 THEN [d EXCEPT !.day = 1, !.month = @ + 1]
         ELSE [d EXCEPT !.day = 1, !.month = 1, !.year = @ + 1]
SecondsOfDay(d) == (d.hour * 60 + d.min) * 60 + d.sec

(* n seconds later, by the second.                                         *)
Later(d, n) ==
    LET s == SecondsOfDay(d) + n
        e == IF s >= 86400 THEN NextDay(d) ELSE d
        t == s % 86400
    IN  [e EXCEPT !.hour = t \div 3600, !.min = (t \div 60) % 60,
                  !.sec = t % 60]

-----------------------------------------------------------------------------
RtcInit ==
    /\ \E h \in Hours :
           date = [year |-> 2000, month |-> 1, day |-> 1,
                   hour |-> h[1], min |-> h[2], sec |-> h[3]]
    /\ rtc = [ctl |-> {}, now |-> MkTime(date), alarm |-> 0, armed |-> FALSE,
              told |-> FALSE]
    /\ day = 0 /\ polls = 0

RtcTypeOK ==
    /\ date.month \in 1..12 /\ date.day \in 1..31
    /\ rtc.ctl \subseteq {"RTCE", "AE", "AIE", "1HZ", "1HZIE", "AF", "WRDY"}
    /\ rtc.now \in Nat /\ rtc.alarm \in Nat

(* While the clock is off, days go by.                                     *)
DaysPass ==
    /\ ~rtc.armed /\ polls = 0 /\ rtc.alarm = 0 /\ date.year <= LastYear
    /\ date' = NextDay(date) /\ day' = day + 1
    /\ UNCHANGED <<rtc, polls>>

(* A store to RCR starts and stops the host's timer; a read says ready.    *)
WritesRcr ==
    /\ date.month \in {2, 12}
    /\ date.day = MonthLength(date.year, date.month)
    /\ \E b \in {{}, {"RTCE"}, {"RTCE", "AE", "AIE", "1HZIE"}} :
          rtc' = [rtc EXCEPT !.ctl = b, !.armed = "RTCE" \in b, !.told = FALSE]
    /\ UNCHANGED <<date, day, polls>>
ReadsRcr ==
    /\ rtc.armed /\ rtc' = [rtc EXCEPT !.ctl = @ \cup {"WRDY"}]
    /\ UNCHANGED <<date, day, polls>>
WritesAlarm ==
    /\ rtc.armed /\ \E n \in 1..AlarmSpan : rtc' = [rtc EXCEPT !.alarm = rtc.now + n]
    /\ UNCHANGED <<date, day, polls>>

(* dev_jz4740_rtc_cb.                                                      *)
RtcPoll ==
    /\ rtc.armed /\ polls < MaxPolls /\ date.year <= LastYear
    /\ polls' = polls + 1
    /\ \E n \in Skips :
          LET d == Later(date, n)
              hit == MkTime(d) = rtc.alarm /\ "AE" \in rtc.ctl
          IN  /\ date' = d
              /\ day' = IF d.day = date.day THEN day ELSE day + 1
              /\ rtc' = IF "RTCE" \in rtc.ctl
                        THEN [rtc EXCEPT
                                !.now = MkTime(d),
                                !.ctl = @ \cup {"1HZ"}
                                        \cup (IF hit THEN {"AF"} ELSE {}),
                                !.told = "1HZIE" \in rtc.ctl
                                         \/ (hit /\ "AIE" \in rtc.ctl)]
                        ELSE [rtc EXCEPT !.told = FALSE]

(* The watchdog's reset: the registers are cleared and the time is read    *)
(* again; the host's timer is left armed.                                  *)
RtcReset ==
    /\ rtc.armed
    /\ rtc' = [rtc EXCEPT !.ctl = {}, !.now = MkTime(date), !.alarm = 0,
                          !.told = FALSE]
    /\ UNCHANGED <<date, day, polls>>

RtcNext ==
    \/ DaysPass \/ WritesRcr \/ ReadsRcr \/ WritesAlarm \/ RtcPoll \/ RtcReset

RtcSpec == RtcInit /\ [][RtcNext]_rtcVars

-----------------------------------------------------------------------------
(* jz_mktime agrees with the calendar: the seconds it computes for a date  *)
(* are those of the days counted one by one since 2000, through every leap *)
(* day and end of a year.                                                  *)
TimeFollowsCalendar == MkTime(date) = day * 86400 + SecondsOfDay(date)
=============================================================================
