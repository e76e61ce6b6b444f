------------------------------ MODULE TouchDrv ------------------------------
(***************************************************************************)
(* The touch controllers: AD_touch (indev/AD_touch.c), whose handler takes *)
(* one step of an acquisition at every tick of a timer, in an interrupt;   *)
(* XPT2046 and FT5406EE8 (indev/XPT2046.c, indev/FT5406EE8.c), which are   *)
(* asked for the point while LVGL waits.                                   *)
(*                                                                         *)
(* A behaviour has one `panel`.  The pen is modelled by what the panel     *)
(* would measure; the converter from how ad_touch_handler uses it: it is   *)
(* started, measures what the pins are wired for, and says when it is      *)
(* done.  Swapped and inverted axes are left out.                          *)
(***************************************************************************)
EXTENDS Integers, Sequences, SequencesExt

CONSTANTS
  Pens,       \* where a pen may rest, as the panel measures it: <<x, y>>
  Floating,   \* what a pin may measure when nothing touches the panel
  RawX, RawY, \* TOUCHCAL_ULX and so on: upper left, upper right, lower right,
              \* lower left
  MaxX, MaxY, \* GetMaxX() and GetMaxY()
  XptMin, XptMax, XptRes, \* XPT2046_X_MIN and so on: <<x, y>>
  Average,    \* XPT2046_AVG
  FingerMax   \* FT5406EE8_FINGER_MAX

ASSUME TouchAssumption ==
  /\ Pens \subseteq (Nat \ {0}) \X (Nat \ {0}) /\ Floating \subseteq Nat
  /\ {RawX, RawY} \subseteq [1 .. 4 -> Nat] /\ {MaxX, MaxY} \subseteq Nat
  /\ {XptMin, XptMax, XptRes} \subseteq Nat \X Nat
  /\ XptMin[1] < XptMax[1] /\ XptMin[2] < XptMax[2]
  /\ Average \in Nat \ {0} /\ FingerMax \in Nat

Up == <<0, 0>> \* no pen
Moved == <<-1, -1>>

VARIABLES
  panel,     \* "ad", "xpt" or "ft"
  pen,       \* where the pen is
  adState,   \* state
  temp,      \* <<tempX, tempY>>
  adc,       \* <<adcX, adcY>>
  wired,     \* what the pins are wired for: "press", "x" or "y"
  adcBuf, adcDone, \* ADC1BUF0 and TOUCH_ADC_DONE
  steady,    \* the pen has not moved since the acquisition began
  rested,    \* history: where the pen was during the last one, or Moved
  selected,  \* xpt2046_read has found the pen down and talks to the controller
  halfRead,  \* what the callback that runs has read of the point so far
  avgBuf,    \* the first avg_last points of avg_buf_x and avg_buf_y
  lastPoint, \* last_x and last_y
  touch,     \* history: the coordinates measured in this touch, or in the last one
  reported   \* history: what LVGL was told last, [pressed, point], and, when that was of
             \* a release, the point that was pressed before

adVars    == <<adState, temp, adc, wired, adcBuf, adcDone, steady, rested>>
lvTouchVars == <<selected, halfRead, avgBuf, lastPoint, touch, reported>>
touchVars == <<panel, pen, adVars, lvTouchVars>>

\* Division in C.
Div(a, b) == LET q(x, y) == IF x >= 0 THEN x \div y ELSE -((-x) \div y)
             IN  IF b > 0 THEN q(a, b) ELSE q(-a, -b)

----------------------------------------------------------------------------
(* AD_touch: calibration *)

\* The line through two points of the calibration: raw value r is at p and s at q.
LineOf(p, q, r, s) ==
  LET a == Div((p - q) * 256, r - s) IN <<a, p * 256 - a * r>>

\* TouchCalculateCalPoints: the mean of the lines through two pairs of points, of an
\* axis whose four points are P.
CalPoints(P, Raw, i, j, k, l) ==
  LET m == LineOf(P[i], P[j], Raw[i], Raw[j])
      n == LineOf(P[k], P[l], Raw[k], Raw[l])
  IN  <<(n[1] + m[1]) \div 2, (n[2] + m[2]) \div 2>>

Inset(max) == ((max + 1) * 10) \div 100
TrX == LET i == Inset(MaxX) IN CalPoints(<<i, MaxX - i, MaxX - i, i>>, RawX, 1, 3, 2, 4)
TrY == LET i == Inset(MaxY) IN CalPoints(<<i, i, MaxY - i, MaxY - i>>, RawY, 1, 4, 2, 3)

\* TouchGetX and TouchGetY, of a raw value.
TouchGet(tr, raw) == IF raw > 0 THEN (tr[1] * raw + tr[2]) \div 256 ELSE raw

----------------------------------------------------------------------------
(* AD_touch: the handler *)

\* A conversion ends.  What it measures without a pen is anything, unless it is
\* whether the panel is touched: then the value is low when it is.
High10 == 1023
Convert ==
  /\ panel = "ad" /\ ~adcDone
  /\ adcDone' = TRUE
  /\ adcBuf' \in IF wired = "press" THEN {IF pen = Up THEN High10 ELSE 0}
                 ELSE IF pen = Up THEN Floating
                 ELSE {IF wired = "x" THEN pen[1] ELSE pen[2]}
  /\ UNCHANGED <<panel, pen, adState, temp, adc, wired, steady, rested, lvTouchVars>>

\* TOUCHSCREEN_RESISTIVE_PRESS_THRESHOLD, with which ADC1BUF0 is compared.
IsPressed == 350 > adcBuf

\* The acquisition goes on: in state s, with the pins wired for w and the converter
\* started.
Go(s, w, t) ==
  /\ adState' = s /\ wired' = w /\ temp' = t /\ adcDone' = FALSE
  /\ steady' = IF adState = "SET_X" THEN TRUE ELSE steady
  /\ UNCHANGED <<adc, rested>>

\* It is over, with value v.
Acquired(v) ==
  /\ adc' = v /\ adState' = "SET_X"
  /\ rested' = IF steady THEN pen ELSE Moved
  /\ UNCHANGED <<temp, wired, adcDone, steady>>

SetX == adState = "SET_X" /\ Go("CHECK_X", "press", temp)

\* Mutant of CheckX: the case does not fall through, and the next state finds the
\* conversion that checked the press.
CheckXOnly ==
  /\ adState = "CHECK_X" /\ adcDone
  /\ IF IsPressed
       THEN /\ adState' = "GET_X" /\ wired' = "x" /\ temp' = <<0, temp[2]>>
            /\ UNCHANGED <<adcDone, adc, steady, rested>>
       ELSE Acquired(Up)

\* CHECK_X and CHECK_Y go on to the first conversion, RUN_X or RUN_Y.
CheckX ==
  /\ adState = "CHECK_X" /\ adcDone
  /\ IF IsPressed THEN Go("GET_X", "x", <<0, temp[2]>>) ELSE Acquired(Up)

CheckY ==
  /\ adState = "CHECK_Y" /\ adcDone
  /\ IF IsPressed THEN Go("GET_Y", "y", <<temp[1], 0>>) ELSE Acquired(Up)

\* RUN_X and RUN_Y: another conversion of the same.
Run ==
  \/ adState = "RUN_X" /\ Go("GET_X", wired, temp)
  \/ adState = "RUN_Y" /\ Go("GET_Y", wired, temp)

\* GET_X and GET_Y: two conversions after each other must agree.
Again(s, t) ==
  adState' = s /\ temp' = t /\ UNCHANGED <<adc, wired, adcDone, steady, rested>>
Get ==
  /\ adcDone
  /\ \/ /\ adState = "GET_X"
        /\ IF adcBuf # temp[1] THEN Again("RUN_X", <<adcBuf, temp[2]>>)
                               ELSE Go("SET_Y", "press", temp)
     \/ /\ adState = "GET_Y"
        /\ IF adcBuf # temp[2] THEN Again("RUN_Y", <<temp[1], adcBuf>>)
                               ELSE Go("SET_VALUES", "press", temp)

SetY ==
  /\ adState = "SET_Y" /\ adcDone
  /\ IF IsPressed THEN Go("CHECK_Y", "press", temp) ELSE Acquired(Up)

SetValues ==
  /\ adState = "SET_VALUES" /\ adcDone
  /\ Acquired(IF IsPressed THEN temp ELSE Up)

\* ad_touch_handler.
AdHandler ==
  /\ panel = "ad"
  /\ SetX \/ CheckX \/ CheckY \/ Run \/ Get \/ SetY \/ SetValues
  /\ UNCHANGED <<panel, pen, adcBuf, lvTouchVars>>

----------------------------------------------------------------------------
(* What LVGL is told *)

Tell(pressed, p) ==
  reported' = [pressed |-> pressed, point |-> p,
               before |-> IF pressed THEN Up
                          ELSE IF reported.pressed THEN reported.point ELSE reported.before]

\* ad_touch_read reads one coordinate ...
AdReadX ==
  /\ panel = "ad" /\ halfRead = <<>>
  /\ halfRead' = <<TouchGet(TrX, adc[1])>>
  /\ UNCHANGED <<panel, pen, adVars, selected, avgBuf, lastPoint, touch, reported>>

\* ... and then the other: a point that is not within the screen's upper left edges
\* counts as none.
AdReadY ==
  LET p == Append(halfRead, TouchGet(TrY, adc[2]))
  IN  /\ panel = "ad" /\ halfRead # <<>>
      /\ halfRead' = <<>>
      /\ IF p[1] > 0 /\ p[2] > 0 THEN Tell(TRUE, p) /\ lastPoint' = p
                                 ELSE Tell(FALSE, lastPoint) /\ UNCHANGED lastPoint
      /\ UNCHANGED <<panel, pen, adVars, selected, avgBuf, touch>>

\* xpt2046_corr, of one coordinate.
Corr(raw, i) == IF raw > XptMin[i]
                  THEN ((raw - XptMin[i]) * XptRes[i]) \div (XptMax[i] - XptMin[i])
                  ELSE 0

\* xpt2046_avg: the mean of the points in b.
Mean(b, i) == FoldLeft(LAMBDA sum, p : sum + p[i], 0, b) \div Len(b)

\* Mutant of XptUp: avg_last is not reset.
XptUpKeeps == UNCHANGED avgBuf
XptUp == avgBuf' = <<>>

\* What the controller measures of coordinate i: anything, once the pen is lifted.
Sampled(i) == IF pen = Up THEN Floating ELSE {pen[i]}

\* xpt2046_read asks first whether the pen is down ...
XptIrq ==
  /\ panel = "xpt" /\ ~selected
  /\ IF pen # Up THEN selected' = TRUE /\ UNCHANGED <<avgBuf, reported>>
                 ELSE UNCHANGED selected /\ XptUp /\ Tell(FALSE, lastPoint)
  /\ UNCHANGED <<panel, pen, adVars, halfRead, lastPoint, touch>>

\* ... then reads one coordinate ...
XptReadX ==
  /\ selected /\ halfRead = <<>>
  /\ \E x \in Sampled(1) : halfRead' = <<Corr(x, 1)>>
  /\ UNCHANGED <<panel, pen, adVars, selected, avgBuf, lastPoint, touch, reported>>

\* ... and the other, and tells the mean of the last points of this touch.
XptReadY ==
  /\ selected /\ halfRead # <<>>
  /\ \E y \in Sampled(2) :
       LET p == <<halfRead[1], Corr(y, 2)>>
           b == <<p>> \o (IF Len(avgBuf) < Average THEN avgBuf ELSE Front(avgBuf))
           mean == <<Mean(b, 1), Mean(b, 2)>>
       IN  /\ avgBuf' = b /\ lastPoint' = mean /\ Tell(TRUE, mean)
           /\ touch' = [i \in 1 .. 2 |-> (IF reported.pressed THEN touch[i] ELSE {}) \cup {p[i]}]
  /\ selected' = FALSE /\ halfRead' = <<>>
  /\ UNCHANGED <<panel, pen, adVars>>

\* ft5406ee8_read, which ignores a touch of too many fingers and one the controller
\* does not mark as valid.
FtRead(fingers, valid) ==
  LET p == <<(pen[1] * 320) \div 2048, (pen[2] * 240) \div 2048>>
      ok == fingers \in 1 .. FingerMax /\ valid
  IN  /\ panel = "ft" /\ (pen = Up <=> fingers = 0)
      /\ IF ok THEN Tell(TRUE, p) /\ lastPoint' = p
               ELSE Tell(FALSE, lastPoint) /\ UNCHANGED lastPoint
      /\ UNCHANGED <<panel, pen, adVars, selected, halfRead, avgBuf, touch>>

----------------------------------------------------------------------------

MovePen(p) ==
  /\ p # pen
  /\ pen' = p /\ steady' = FALSE
  /\ UNCHANGED <<panel, adState, temp, adc, wired, adcBuf, adcDone, rested, lvTouchVars>>

TouchInit ==
  /\ panel \in {"ad", "xpt", "ft"}
  /\ pen = Up
  /\ adState = "SET_X" /\ temp = <<0, 0>> /\ adc = <<0, 0>>
  /\ wired = "press" /\ adcBuf = 0 /\ adcDone = FALSE
  /\ steady = TRUE /\ rested = Up
  /\ selected = FALSE /\ halfRead = <<>> /\ avgBuf = <<>>
  /\ lastPoint = <<0, 0>> /\ touch = <<{}, {}>>
  /\ reported = [pressed |-> FALSE, point |-> <<0, 0>>, before |-> <<0, 0>>]

TouchNext ==
  \/ \E p \in Pens \cup {Up} : MovePen(p)
  \/ Convert \/ AdHandler
  \/ AdReadX \/ AdReadY
  \/ XptIrq \/ XptReadX \/ XptReadY
  \/ \E fingers \in 0 .. FingerMax + 1, valid \in BOOLEAN : FtRead(fingers, valid)

TouchSpec == TouchInit /\ [][TouchNext]_touchVars

----------------------------------------------------------------------------
(* Properties *)

\* The type invariant.
TouchTypeOK ==
  /\ panel \in {"ad", "xpt", "ft"} /\ pen \in Pens \cup {Up}
  /\ adState \in {"SET_X", "CHECK_X", "RUN_X", "GET_X", "SET_Y", "CHECK_Y", "RUN_Y",
                  "GET_Y", "SET_VALUES"}
  /\ temp \in Nat \X Nat /\ adc \in Nat \X Nat
  /\ wired \in {"press", "x", "y"} /\ adcBuf \in Nat
  /\ {adcDone, steady, selected, reported.pressed} \subseteq BOOLEAN
  /\ rested \in Pens \cup {Up, Moved} /\ Len(halfRead) <= 1
  /\ Len(avgBuf) <= Average

\* A pen that rests while AD_touch acquires it is measured where it is (what
\* ad_touch_read makes of the measured values is another matter).  XPT2046 reports
\* coordinates among those it has measured in this touch, never ones that lean to a
\* former touch; they need not be of one place of the pen.  And a released report has
\* the point that was pressed last.
TouchTold ==
  /\ rested # Moved => adc = rested
  /\ panel = "xpt" /\ reported.pressed =>
       \A i \in 1 .. 2 : /\ \E c \in touch[i] : c <= reported.point[i]
                         /\ \E c \in touch[i] : c >= reported.point[i]
  /\ ~reported.pressed => reported.point = reported.before

============================================================================
