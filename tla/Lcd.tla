--------------------------------- MODULE Lcd ---------------------------------
(***************************************************************************)
(* The LCD controller (jz4740_dev_lcd.c) and the host's window             *)
(* (utils/sdl).  A host timer on the CPU thread copies a frame.            *)
(***************************************************************************)
EXTENDS Naturals

CONSTANT Widths \* what LCD_DAH and LCD_DAV may ask for

ASSUME LcdAssumption == Widths \subseteq Nat \ {0}

VARIABLES
    lcd,     \* CTRL's bits and its bpp, STATE, what DA0 points to, armed
    ds,      \* DisplayState: width, height, depth and the surface's size
    lcdTold, \* the last step asked for IRQ_LCD
    lcdDead  \* an assertion failed, or a pointer was NULL

lcdVars == <<lcd, ds, lcdTold, lcdDead>>

LcdDefault(armed) ==
    [ctl |-> {}, mode |-> 0, state |-> {}, da |-> "ram", armed |-> armed]

(* sdl_resize: the surface is made again for the current size and depth.   *)
Resized(d) == [d EXCEPT !.surface = <<d.width, d.height, d.depth>>]

LcdInit ==
    /\ lcd = LcdDefault(FALSE)
    /\ \E w \in Widths :
           ds = Resized([width |-> w, height |-> w, depth |-> 32,
                         surface |-> << >>])
    /\ lcdTold = FALSE /\ lcdDead = FALSE

LcdTypeOK ==
    /\ lcd.ctl \subseteq {"ENA", "DIS", "QDM", "LDDM", "EOFM"}
    /\ lcd.state \subseteq {"QD", "LDD", "EOF"}
    /\ {ds.width, ds.height} \subseteq Widths

-----------------------------------------------------------------------------
(* LCD_CTRL: the masks tested are those of the register before the store.  *)
Quick(b)    == "ENA" \notin b
Disabled(b) == "DIS" \in b

(* Variant: only DIS stops the polling.                                    *)
LcdStopsOnDis(b) == Disabled(b)

LcdStops(b) == Quick(b) \/ Disabled(b)
Reported(b) == (IF Quick(b) THEN {"QD"} ELSE {})
               \cup (IF Disabled(b) THEN {"LDD"} ELSE {})
LcdTells(b) == \/ Quick(b) /\ "QDM" \notin lcd.ctl
               \/ Disabled(b) /\ "LDDM" \notin lcd.ctl

WritesLcdCtrl ==
    /\ ~lcdDead
    /\ \E b \in SUBSET {"ENA", "DIS", "QDM", "EOFM"}, m \in {0, 16, 32} :
         /\ lcd' = [lcd EXCEPT !.ctl = b, !.mode = m, !.armed = ~LcdStops(b),
                               !.state = @ \cup Reported(b)]
         /\ lcdTold' = LcdTells(b)
         /\ lcdDead' = (m = 0)
         /\ ds' = IF m = 0 THEN ds ELSE Resized([ds EXCEPT !.depth = m])

(* LCD_DAH and LCD_DAV: the window follows.  An end that is not after the  *)
(* start is asserted against.                                              *)
WritesLcdArea ==
    /\ ~lcdDead
    /\ \/ \E n \in Widths : /\ \/ ds' = Resized([ds EXCEPT !.width = n])
                               \/ ds' = Resized([ds EXCEPT !.height = n])
                            /\ UNCHANGED lcdDead
       \/ lcdDead' = TRUE /\ UNCHANGED ds
    /\ lcdTold' = FALSE
    /\ UNCHANGED lcd

(* LCD_DA0 is plain: a frame descriptor in RAM, or nowhere.                *)
WritesLcdDa0 ==
    /\ ~lcdDead
    /\ \E p \in {"ram", "nowhere"} : lcd' = [lcd EXCEPT !.da = p]
    /\ lcdTold' = FALSE
    /\ UNCHANGED <<ds, lcdDead>>

(* dev_jz4740_lcd_cb: a whole frame is copied to the window's surface.     *)
LcdPoll ==
    /\ lcd.armed /\ ~lcdDead
    /\ IF lcd.da = "nowhere" \/ lcd.mode = 0
       THEN /\ lcdDead' = TRUE /\ lcdTold' = FALSE
            /\ UNCHANGED lcd
       ELSE /\ lcd' = [lcd EXCEPT !.state = @ \cup {"EOF"}]
            /\ \E eofInt \in BOOLEAN :
                  lcdTold' = (eofInt /\ "EOFM" \notin lcd.ctl)
            /\ UNCHANGED lcdDead
    /\ UNCHANGED ds

-----------------------------------------------------------------------------
(* The board's reset: the registers are cleared and the timer stopped.     *)
LcdReset ==
    /\ ~lcdDead
    /\ lcd' = LcdDefault(FALSE) /\ lcdTold' = FALSE
    /\ UNCHANGED <<ds, lcdDead>>

LcdNext ==
    \/ WritesLcdCtrl \/ WritesLcdArea \/ WritesLcdDa0 \/ LcdPoll \/ LcdReset

LcdSpec == LcdInit /\ [][LcdNext]_lcdVars

-----------------------------------------------------------------------------
(* A poll of the LCD never finds a mode it asserts against, a controller   *)
(* that was turned off or reset, or a window of another size than the      *)
(* frame it copies: every store and reset that could make one keeps the    *)
(* timer, the depth and the surface in step.                               *)
LcdPollSound ==
    (lcd.armed /\ ~lcdDead) =>
        /\ lcd.mode \in {16, 32} /\ "ENA" \in lcd.ctl /\ "DIS" \notin lcd.ctl
        /\ ds.depth = lcd.mode
        /\ ds.surface = <<ds.width, ds.height, ds.depth>>
=============================================================================
