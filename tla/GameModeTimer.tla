--------------------------- MODULE GameModeTimer ---------------------------
(***************************************************************************)
(* The clock of the game modes (source/server/gamemode/GameModeTimer.cpp)  *)
(* as functions of its members.  Time is counted in units of 1/Second of a *)
(* second: mMilliseconds (a float of seconds) holds the units that are not *)
(* a whole second yet, and dt of them pass in a frame.                     *)
(***************************************************************************)
EXTENDS Integers

CONSTANTS
  Second, \* units of a second
  Sixty   \* seconds of a minute and minutes of an hour: 60 in the code

ASSUME SecondAssumption == Second \in Nat \ {0}
ASSUME SixtyAssumption == Sixty \in Nat \ {0, 1}

\* GameTime.
Times == [ms : 0 .. Second - 1, s : 0 .. Sixty - 1, m : Int, h : Nat]
Zero == [ms |-> 0, s |-> 0, m |-> 0, h |-> 0]

\* up is mIsCountUp, on is mIsEnabled, control is mIsUseControl.
Timers == [up : BOOLEAN, on : BOOLEAN, control : BOOLEAN, time : Times]

\* GameModeTimer(GameTime const&), and with Zero GameModeTimer().
NewTimer(time) == [up |-> TRUE, on |-> FALSE, control |-> TRUE, time |-> time]

\* In units; the fraction of a clock that counts down is already gone.
\* Mistake: it is still to come.
getTimeCombined_Up(t) ==
  Second * (t.time.s + Sixty * (t.time.m + Sixty * t.time.h)) + t.time.ms

getTimeCombined(t) ==
  LET seconds == t.time.s + Sixty * (t.time.m + Sixty * t.time.h)
  IN Second * seconds + IF t.up THEN t.time.ms ELSE -t.time.ms

-----------------------------------------------------------------------------
\* One second more, with carry.
SecondUp(time) ==
  IF time.s + 1 < Sixty THEN [time EXCEPT !.s = @ + 1]
  ELSE IF time.m + 1 < Sixty THEN [time EXCEPT !.s = 0, !.m = @ + 1]
  ELSE [time EXCEPT !.s = 0, !.m = 0, !.h = @ + 1]

\* One second less, with borrow; "under" is left in the minutes when there is
\* nothing to borrow from.
SecondDown(time, under) ==
  IF time.s > 0 THEN [time EXCEPT !.s = @ - 1]
  ELSE IF time.m > 0 THEN [time EXCEPT !.s = Sixty - 1, !.m = @ - 1]
  ELSE IF time.h > 0 THEN [time EXCEPT !.s = Sixty - 1, !.m = Sixty - 1, !.h = @ - 1]
  ELSE [time EXCEPT !.s = Sixty - 1, !.m = under]

Empty(time) == time.s = 0 /\ time.m <= 0 /\ time.h = 0

\* L + Down sets the clock to zero; holding Right adds a second per frame,
\* pressing Left takes one off as long as there are minutes.
timerControl(time, keys) ==
  LET cut   == [time EXCEPT !.ms = 0]
      right == IF "right" \in keys THEN SecondUp(cut) ELSE time
  IN IF "L" \in keys THEN IF "down" \in keys THEN Zero ELSE time
     ELSE IF "left" \in keys
     THEN IF right.m # 0 THEN SecondDown([right EXCEPT !.ms = 0], 0) ELSE [right EXCEPT !.ms = 0]
     ELSE right

\* A clock that is counted down through zero is stopped there.
updateTimer(t, keys, dt) ==
  LET now  == IF t.control THEN timerControl(t.time, keys) ELSE t.time
      full == now.ms + dt >= Second
      rest == [now EXCEPT !.ms = IF full THEN @ + dt - Second ELSE @ + dt]
  IN IF ~t.on THEN [t EXCEPT !.time = now]
     ELSE [t EXCEPT !.time = IF ~full THEN rest
                             ELSE IF t.up THEN SecondUp(rest)
                             ELSE SecondDown(rest, rest.m - 1),
                    !.on = ~(full /\ ~t.up /\ Empty(now))]

=============================================================================
