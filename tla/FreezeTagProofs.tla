-------------------------- MODULE FreezeTagProofs --------------------------
(***************************************************************************)
(* For every number of players, round length and length of a frame: what a *)
(* packet's byte says, what the clock's functions return, the types of     *)
(* FreezeTag, that no chaser is ever frozen, that the clock stops in time, *)
(* and that points for survival are earned.                                *)
(***************************************************************************)
EXTENDS FreezeTag, TLAPS

-----------------------------------------------------------------------------
(* The byte of a packet.                                                   *)

LEMMA Halves ==
  \A b \in Bytes : High(b) \in Nibbles /\ updateType(b) \in Nibbles /\ b = High(b) * 16 + updateType(b)
BY Z3 DEF Bytes, Nibbles, High, updateType

LEMMA Joined ==
  \A h, l \in Nibbles : /\ (h * 16) + l \in Bytes
                        /\ High((h * 16) + l) = h
                        /\ updateType((h * 16) + l) = l
BY Z3 DEF Bytes, Nibbles, High, updateType

LEMMA ModeNibble ==
  \A m \in GameModes : m % 16 \in Nibbles /\ (((m % 16) + 1) % 16) - 1 = m
BY Z3 DEF GameModes, Nibbles

\* setGameMode and setUpdateType keep to their half of the byte.
LEMMA SettersKeepHalves ==
  \A b \in Bytes, m \in GameModes, t \in Nibbles :
    /\ setGameMode(b, m) \in Bytes
    /\ writtenMode(setGameMode(b, m)) = m
    /\ updateType(setGameMode(b, m)) = updateType(b)
    /\ setUpdateType(b, t) \in Bytes
    /\ writtenMode(setUpdateType(b, t)) = writtenMode(b)
    /\ updateType(setUpdateType(b, t)) = t
<1> SUFFICES ASSUME NEW b \in Bytes, NEW m \in GameModes, NEW t \in Nibbles
             PROVE /\ setGameMode(b, m) \in Bytes
                   /\ writtenMode(setGameMode(b, m)) = m
                   /\ updateType(setGameMode(b, m)) = updateType(b)
                   /\ setUpdateType(b, t) \in Bytes
                   /\ writtenMode(setUpdateType(b, t)) = writtenMode(b)
                   /\ updateType(setUpdateType(b, t)) = t
  OBVIOUS
<1>1. High(b) \in Nibbles /\ updateType(b) \in Nibbles
  BY Halves
<1>2. m % 16 \in Nibbles /\ (((m % 16) + 1) % 16) - 1 = m
  BY ModeNibble
<1>3. t % 16 = t
  BY DEF Nibbles
<1>4. /\ setGameMode(b, m) \in Bytes
      /\ High(setGameMode(b, m)) = m % 16
      /\ updateType(setGameMode(b, m)) = updateType(b)
  BY <1>1, <1>2, Joined DEF setGameMode
<1>5. /\ setUpdateType(b, t) \in Bytes
      /\ High(setUpdateType(b, t)) = High(b)
      /\ updateType(setUpdateType(b, t)) = t
  BY <1>1, <1>3, Joined DEF setUpdateType
<1> QED
  BY <1>2, <1>4, <1>5 DEF writtenMode

\* What a client writes is read back by every other client: the mode, unless
\* it is LEGACY, and the kind of update (GameModeInf.h).
THEOREM RoundTrip ==
  \A m \in GameModes, t \in Nibbles, aboutMe \in BOOLEAN :
    /\ ModeAndType(m, t) \in Bytes
    /\ updateType(ModeAndType(m, t)) = t
    /\ m # LEGACY => gameMode(ModeAndType(m, t), aboutMe) = m
<1> SUFFICES ASSUME NEW m \in GameModes, NEW t \in Nibbles, NEW aboutMe \in BOOLEAN
             PROVE /\ ModeAndType(m, t) \in Bytes
                   /\ updateType(ModeAndType(m, t)) = t
                   /\ m # LEGACY => gameMode(ModeAndType(m, t), aboutMe) = m
  OBVIOUS
<1> DEFINE b == setGameMode(0, m)
<1>1. 0 \in Bytes
  BY DEF Bytes
<1>2. b \in Bytes /\ writtenMode(b) = m
  BY <1>1, SettersKeepHalves
<1>3. /\ ModeAndType(m, t) \in Bytes
      /\ writtenMode(ModeAndType(m, t)) = m
      /\ updateType(ModeAndType(m, t)) = t
  BY <1>2, SettersKeepHalves DEF ModeAndType
<1> QED
  BY <1>3 DEF gameMode


-----------------------------------------------------------------------------
(* The clock.                                                              *)

LEMMA ZeroTime == Zero \in Times
BY SecondAssumption, SixtyAssumption DEF Zero, Times

LEMMA SecondUpTypes == \A time \in Times : SecondUp(time) \in Times
<1> TAKE time \in Times
<1>1. 0 \in 0 .. Sixty - 1 /\ 0 \in Int
  BY SixtyAssumption
<1>2. CASE time.s + 1 < Sixty
  <2>1. time.s + 1 \in 0 .. Sixty - 1
    BY <1>2, SixtyAssumption DEF Times
  <2> QED
    BY <1>2, <2>1 DEF SecondUp, Times
<1>3. CASE ~(time.s + 1 < Sixty)
  <2>1. time.m + 1 \in Int /\ time.h + 1 \in Nat
    BY DEF Times
  <2> QED
    BY <1>1, <1>3, <2>1 DEF SecondUp, Times
<1> QED
  BY <1>2, <1>3

LEMMA SecondDownTypes ==
  \A time \in Times, under \in Int : SecondDown(time, under) \in Times
<1> TAKE time \in Times, under \in Int
<1>1. Sixty - 1 \in 0 .. Sixty - 1 /\ Sixty - 1 \in Int
  BY SixtyAssumption
<1>2. CASE time.s > 0
  <2>1. time.s - 1 \in 0 .. Sixty - 1
    BY <1>2, SixtyAssumption DEF Times
  <2> QED
    BY <1>2, <2>1 DEF SecondDown, Times
<1>3. CASE ~(time.s > 0)
  <2>1. time.m - 1 \in Int /\ (time.h > 0 => time.h - 1 \in Nat)
    BY DEF Times
  <2> QED
    BY <1>1, <1>3, <2>1 DEF SecondDown, Times
<1> QED
  BY <1>2, <1>3

LEMMA CutTypes == \A time \in Times : [time EXCEPT !.ms = 0] \in Times
BY SecondAssumption DEF Times

LEMMA ControlTypes ==
  ASSUME NEW time \in Times, NEW keys PROVE timerControl(time, keys) \in Times
<1> DEFINE cut   == [time EXCEPT !.ms = 0]
           right == IF "right" \in keys THEN SecondUp(cut) ELSE time
<1>1. cut \in Times
  BY CutTypes
<1>2. right \in Times
  BY <1>1, SecondUpTypes
<1>3. [right EXCEPT !.ms = 0] \in Times
  BY <1>2, CutTypes
<1>4. SecondDown([right EXCEPT !.ms = 0], 0) \in Times
  BY <1>3, SecondDownTypes
<1> HIDE DEF right
<1> QED
  BY <1>2, <1>3, <1>4, ZeroTime DEF timerControl, right

\* The fraction of a second after a frame.
LEMMA RestTypes ==
  \A time \in Times, dt \in 0 .. Second - 1 :
    /\ time.ms + dt >= Second => [time EXCEPT !.ms = @ + dt - Second] \in Times
    /\ ~(time.ms + dt >= Second) => [time EXCEPT !.ms = @ + dt] \in Times
BY SecondAssumption DEF Times

LEMMA TimerTypes ==
  ASSUME NEW t \in Timers, NEW keys, NEW dt \in 0 .. Second - 1
  PROVE  updateTimer(t, keys, dt) \in Timers
<1> DEFINE now  == IF t.control THEN timerControl(t.time, keys) ELSE t.time
           full == now.ms + dt >= Second
           rest == [now EXCEPT !.ms = IF full THEN @ + dt - Second ELSE @ + dt]
           then == IF ~full THEN rest
                   ELSE IF t.up THEN SecondUp(rest)
                   ELSE SecondDown(rest, rest.m - 1)
           stop == ~(full /\ ~t.up /\ Empty(now))
<1>1. t.time \in Times
  BY DEF Timers
<1>2. now \in Times
  BY <1>1, ControlTypes
<1>3. rest \in Times
  <2> HIDE DEF now
  <2> QED BY <1>2, RestTypes
<1>4. rest.m - 1 \in Int
  BY <1>3 DEF Times
<1>5. then \in Times
  BY <1>3, <1>4, SecondUpTypes, SecondDownTypes
<1>6. stop \in BOOLEAN
  OBVIOUS
<1>7. updateTimer(t, keys, dt) = IF ~t.on THEN [t EXCEPT !.time = now]
                                 ELSE [t EXCEPT !.time = then, !.on = stop]
  BY DEF updateTimer
<1> HIDE DEF now, then, stop
<1> QED
  BY <1>2, <1>5, <1>6, <1>7 DEF Timers


-----------------------------------------------------------------------------
(* The triggers keep the types, ...                                        *)

LEMMA Players == Player \subseteq BOOLEAN
BY DEF Player

LEMMA StartTypes ==
  /\ \A minutes \in RoundLengths : RoundTime(minutes) \in Times
  /\ \A m \in Mine, minutes \in RoundLengths : startRound(m, minutes) \in Mine
<1>1. ASSUME NEW minutes \in RoundLengths PROVE RoundTime(minutes) \in Times
  BY SecondAssumption, SixtyAssumption, LengthAssumption DEF Times, RoundTime
<1>2. ASSUME NEW m \in Mine, NEW minutes \in RoundLengths PROVE startRound(m, minutes) \in Mine
  <2>1. [CountingDown(m.timer) EXCEPT !.time = RoundTime(minutes)] \in Timers
    BY <1>1 DEF CountingDown, Mine, Timers
  <2> QED
    BY <2>1 DEF startRound, Mine
<1> QED
  BY <1>1, <1>2

LEMMA ThawTypes == \A m \in Mine, player \in BOOLEAN : Thaw(m, player) \in Mine
BY DEF Thaw, Mine

LEMMA EndTypes ==
  \A m \in Mine, isAbort \in BOOLEAN, player \in BOOLEAN : endRound(m, isAbort, player) \in Mine
<1> TAKE m \in Mine, isAbort \in BOOLEAN, player \in BOOLEAN
<1> DEFINE over == [m EXCEPT !.round = FALSE, !.timer.on = FALSE]
<1>1. [m.timer EXCEPT !.on = FALSE] \in Timers
  BY DEF Mine, Timers
<1>2. over \in Mine
  BY <1>1 DEF Mine
<1>3. [over EXCEPT !.runner = TRUE] \in Mine /\ [over EXCEPT !.scored = @ \/ ~isAbort] \in Mine
  <2> HIDE DEF over
  <2> QED BY <1>2 DEF Mine
<1> HIDE DEF over
<1> QED
  BY <1>2, <1>3, ThawTypes DEF endRound, over

LEMMA OvertakenTypes == \A m \in Mine : Overtaken(m) \subseteq Mine
<1> SUFFICES ASSUME NEW m \in Mine, NEW minutes \in RoundLengths
             PROVE  [m EXCEPT !.round = TRUE, !.timer.time = RoundTime(minutes)] \in Mine
  BY DEF Overtaken
<1>1. [m.timer EXCEPT !.time = RoundTime(minutes)] \in Timers
  BY StartTypes DEF Mine, Timers
<1> QED
  BY <1>1 DEF Mine

LEMMA EndsTypes ==
  \A m \in Mine, isAbort \in BOOLEAN, player \in BOOLEAN : Ends(m, isAbort, player) \subseteq Mine
BY EndTypes, OvertakenTypes DEF Ends

LEMMA WipeoutTypes == \A m \in Mine, player \in BOOLEAN : Wipeout(m, player) \subseteq Mine
<1> TAKE m \in Mine, player \in BOOLEAN
<1>1. [m EXCEPT !.endgame = TRUE, !.scored = @ \/ ~m.runner] \in Mine /\ [m EXCEPT !.endgame = TRUE] \in Mine
  BY DEF Mine
<1> QED
  BY <1>1, EndsTypes DEF Wipeout

LEMMA RecoveryTypes ==
  \A m \in Mine, point \in {"point", "zero"} : tryStartRecoveryEvent(m, point) \in Mine
BY DEF tryStartRecoveryEvent, Mine

LEMMA EndgameOverTypes == \A m \in Mine : EndgameOver(m) \in Mine
<1> TAKE m \in Mine
<1>1. [m EXCEPT !.runner = TRUE, !.endgame = FALSE] \in Mine
  BY DEF Mine
<1> QED
  BY <1>1, RecoveryTypes DEF EndgameOver

LEMMA PressedTypes == \A m \in Mine : Pressed(m) \subseteq Mine
<1> TAKE m \in Mine
<1>1. [m EXCEPT !.runner = ~@] \in Mine /\ [m EXCEPT !.scored = TRUE] \in Mine
  BY DEF Mine
<1> QED
  BY <1>1, StartTypes, EndsTypes DEF Pressed

LEMMA ScoreTypes ==
  ASSUME TypeOK, NEW o, NEW frozen \in BOOLEAN, NEW near \in BOOLEAN, NEW player \in BOOLEAN
  PROVE  tryScoreEvent(o, frozen, near, player) \subseteq Mine
<1> DEFINE points == near /\ IF my.runner THEN ~my.frozen /\ ~frozen ELSE frozen
           m == [my EXCEPT !.scored = @ \/ points]
<1>1. my \in Mine
  BY DEF TypeOK
<1>2. points \in BOOLEAN
  BY <1>1 DEF Mine
<1>3. m \in Mine
  <2> HIDE DEF points
  <2> QED BY <1>1, <1>2 DEF Mine
<1>4. Wipeout(m, player) \subseteq Mine
  BY <1>3, WipeoutTypes
<1> HIDE DEF m, points
<1> QED
  BY <1>1, <1>3, <1>4 DEF tryScoreEvent, m, points

\* ... and so does every action.
LEMMA InitTypes == Init => TypeOK
<1> SUFFICES ASSUME Init PROVE TypeOK
  OBVIOUS
<1>1. NewTimer(Zero) \in Timers
  BY ZeroTime DEF NewTimer, Timers
<1>2. my \in Mine
  BY <1>1 DEF Init, Mine
<1>3. 1 \in Others
  BY PuppetsAssumption DEF Others
<1> QED
  BY <1>2, <1>3, ZeroTime DEF Init, TypeOK, NoPacket, Packets, Nobody

LEMMA NextTypes == TypeOK /\ [Next]_vars => TypeOK'
<1> SUFFICES ASSUME TypeOK, [Next]_vars PROVE TypeOK'
  OBVIOUS
<1> USE DEF TypeOK
<1>0. my \in Mine /\ my.timer \in Timers
  BY DEF Mine
<1>1. ASSUME NEW dt \in FrameTimes, NEW keys \in Buttons, Tick(dt, keys) PROVE TypeOK'
  <2> DEFINE t == updateTimer(my.timer, keys, dt)
             m == [my EXCEPT !.timer = [t EXCEPT !.control = FALSE], !.scored = @ \/ Survives(t.time)]
  <2>1. t \in Timers
    BY <1>0, FrameAssumption, TimerTypes
  <2>2. m \in Mine
    <3>1. [t EXCEPT !.control = FALSE] \in Timers
      BY <2>1 DEF Timers
    <3>2. Survives(t.time) \in BOOLEAN
      BY DEF Survives, Mine
    <3> HIDE DEF t
    <3> QED BY <3>1, <3>2 DEF Mine
  <2>3. Ends(m, FALSE, TRUE) \subseteq Mine
    BY <2>2, EndsTypes
  <2>4. t.time \in Times
    BY <2>1 DEF Timers
  <2> HIDE DEF t, m
  <2>5. my' \in Mine /\ lastTime' \in Times
    BY <1>1, <2>2, <2>3, <2>4 DEF Tick, t, m
  <2> QED
    BY <1>1, <2>5 DEF Tick
<1>2. ASSUME List PROVE TypeOK'
  <2>1. slot # Puppets => slot + 1 \in Others
    BY PuppetsAssumption DEF Others
  <2>2. 1 \in Others
    BY PuppetsAssumption DEF Others
  <2> QED
    BY <1>2, <2>1, <2>2 DEF List
<1>3. ASSUME TouchChaser \/ ContactDone \/ GoesOn \/ pause \/ unpause PROVE TypeOK'
  BY <1>3 DEF TouchChaser, ContactDone, GoesOn, pause, unpause
<1>4. ASSUME SetFrozen PROVE TypeOK'
  BY <1>4 DEF SetFrozen, Mine
<1>5. ASSUME CheckWipeout PROVE TypeOK'
  BY <1>5, WipeoutTypes DEF CheckWipeout
<1>6. ASSUME TouchRunner PROVE TypeOK'
  BY <1>6, ThawTypes DEF TouchRunner
<1>7. ASSUME EndRecovery PROVE TypeOK'
  <2>1. \A m \in Mine : [m EXCEPT !.recovery = "none"] \in Mine
    BY DEF Mine
  <2>2. my' \in Mine
    BY <1>7, <2>1, ThawTypes DEF EndRecovery
  <2> QED
    BY <1>7, <2>2 DEF EndRecovery
<1>8. ASSUME NEW over \in BOOLEAN, Finish(over) PROVE TypeOK'
  <2>1. \A m \in Mine : [m EXCEPT !.scored = FALSE] \in Mine
    BY DEF Mine
  <2>2. my' \in Mine
    BY <1>8, <2>1, EndgameOverTypes, PressedTypes DEF Finish
  <2> QED
    BY <1>8, <2>2 DEF Finish
<1>9. ASSUME FallOff PROVE TypeOK'
  BY <1>9, RecoveryTypes DEF FallOff
<1>10. ASSUME begin PROVE TypeOK'
  <2>1. my' \in Mine
    BY <1>10 DEF begin, CountingDown, Mine, Timers
  <2> QED
    BY <1>10, <2>1 DEF begin
<1>11. ASSUME NEW isPaused \in BOOLEAN, NEW player \in BOOLEAN, end(isPaused, player) PROVE TypeOK'
  BY <1>11, ThawTypes DEF end
<1>12. ASSUME init PROVE TypeOK'
  <2>1. NewClock(my) \in Timers /\ NewTimer(lastTime) \in Timers
    BY <1>0 DEF NewClock, NewTimer, CountingDown, Mine, Timers
  <2>2. my' \in Mine
    BY <1>0, <1>12, <2>1 DEF init, Mine
  <2> QED
    BY <1>12, <2>2 DEF init
<1>13. ASSUME ApplyPlayer PROVE TypeOK'
  <2>1. read.who \in Others \cup {Nobody} /\ read.runner \in BOOLEAN /\ read.frozen \in BOOLEAN
    BY DEF Packets
  <2> QED
    BY <1>13, <2>1 DEF ApplyPlayer, NoPacket, Packets
<1>14. ASSUME NEW o \in Active, Disconnect(o) PROVE TypeOK'
  BY <1>14, ActiveAssumption DEF Disconnect, Others
<1>15. ASSUME NEW o \in Active, NEW byte \in SentBytes, Receive(o, byte) PROVE TypeOK'
  <2>1. o \in Others
    BY ActiveAssumption DEF Others
  <2>2. my' \in Mine
    <3>1. ASSUME RoundPacket(o, updateType(byte)) PROVE my' \in Mine
      <4>1. [my EXCEPT !.scored = @ \/ ~my.runner] \in Mine
        BY DEF Mine
      <4> QED
        BY <3>1, <4>1, StartTypes, EndsTypes, Players DEF RoundPacket
    <3>2. ASSUME NEW runner \in BOOLEAN, NEW frozen \in BOOLEAN, NEW near \in BOOLEAN,
                 PlayerPacket(o, runner, frozen, near)
          PROVE  my' \in Mine
      BY <3>2, ScoreTypes, Players DEF PlayerPacket
    <3> QED
      BY <1>15, <3>1, <3>2 DEF Receive
  <2>3. others' \in [Others -> [here : BOOLEAN, runner : BOOLEAN, frozen : BOOLEAN]]
    BY <1>15, <2>1 DEF Receive, RoundPacket, PlayerPacket, Comes
  <2>4. read' \in Packets
    <3>1. \A runner, frozen \in BOOLEAN : [who |-> o, runner |-> runner, frozen |-> frozen] \in Packets
      BY <2>1 DEF Packets
    <3> QED
      BY <1>15, <3>1 DEF Receive, RoundPacket, PlayerPacket
  <2> QED
    BY <1>15, <2>2, <2>3, <2>4 DEF Receive
<1>16. CASE UNCHANGED vars
  BY <1>16 DEF vars
<1> QED
  BY <1>1, <1>2, <1>3, <1>4, <1>5, <1>6, <1>7, <1>8, <1>9, <1>10, <1>11, <1>12,
     <1>13, <1>14, <1>15, <1>16 DEF Next, Frame, Between, ReadThread

\* Every variable keeps its type, for any number of players and any clock.
THEOREM TypeCorrect == Spec => []TypeOK
BY InitTypes, NextTypes, PTL DEF Spec


-----------------------------------------------------------------------------
(* No chaser is frozen.                                                    *)

Sound(m) == m.frozen => m.runner

\* What a step may do to a frozen runner: thaw him, never change his team.
Keeps(m, n) == /\ Sound(m) => Sound(n)
               /\ m.runner => n.runner

LEMMA EndKeeps ==
  \A m \in Mine, isAbort \in BOOLEAN, player \in BOOLEAN : Keeps(m, endRound(m, isAbort, player))
BY DEF Keeps, Sound, endRound, Thaw, Mine

LEMMA EndsKeep ==
  \A m \in Mine, isAbort \in BOOLEAN, player \in BOOLEAN : \A n \in Ends(m, isAbort, player) : Keeps(m, n)
<1> SUFFICES ASSUME NEW m \in Mine, NEW isAbort \in BOOLEAN, NEW player \in BOOLEAN,
                    NEW n \in Ends(m, isAbort, player)
             PROVE  Keeps(m, n)
  OBVIOUS
<1> DEFINE over == endRound(m, isAbort, player)
<1>1. over \in Mine /\ Keeps(m, over)
  BY EndTypes, EndKeeps
<1> HIDE DEF over
<1>2. \A k \in Overtaken(over) : k.frozen = over.frozen /\ k.runner = over.runner
  BY <1>1 DEF Overtaken, Mine
<1>3. n = over \/ n \in Overtaken(over)
  BY DEF Ends, over
<1> QED
  BY <1>1, <1>2, <1>3 DEF Keeps, Sound

LEMMA WipeoutKeeps == \A m \in Mine, player \in BOOLEAN : \A n \in Wipeout(m, player) : Keeps(m, n)
<1> SUFFICES ASSUME NEW m \in Mine, NEW player \in BOOLEAN, NEW n \in Wipeout(m, player) PROVE Keeps(m, n)
  OBVIOUS
<1> DEFINE e == [m EXCEPT !.endgame = TRUE, !.scored = @ \/ ~m.runner]
           f == [m EXCEPT !.endgame = TRUE]
<1>1. e \in Mine /\ e.frozen = m.frozen /\ e.runner = m.runner
      /\ f.frozen = m.frozen /\ f.runner = m.runner
  BY DEF Mine
<1>2. n \in Ends(e, FALSE, player) \/ n = f
  BY DEF Wipeout
<1> HIDE DEF e, f
<1> QED
  BY <1>1, <1>2, EndsKeep DEF Keeps, Sound

LEMMA SmallKeep ==
  \A m \in Mine : /\ \A player \in BOOLEAN : Keeps(m, Thaw(m, player))
                  /\ Keeps(m, EndgameOver(m))
                  /\ \A point : Keeps(m, tryStartRecoveryEvent(m, point))
                  /\ \A minutes \in RoundLengths : Keeps(m, startRound(m, minutes))
BY DEF Keeps, Sound, Thaw, EndgameOver, tryStartRecoveryEvent, startRound, Mine

LEMMA PressedSound == \A m \in Mine : \A n : n \in Pressed(m) /\ Sound(m) => Sound(n)
<1> SUFFICES ASSUME NEW m \in Mine, NEW n, n \in Pressed(m), Sound(m) PROVE Sound(n)
  OBVIOUS
<1>1. CASE n = [m EXCEPT !.runner = ~@] /\ MayChange(m)
  BY <1>1 DEF MayChange, Sound, Mine
<1>2. CASE n = [m EXCEPT !.scored = TRUE] \/ n = m
  BY <1>2 DEF Sound, Mine
<1>3. CASE n \in Ends(m, TRUE, TRUE) \/ \E minutes \in RoundLengths : n = startRound(m, minutes)
  BY <1>3, EndsKeep, SmallKeep DEF Keeps
<1> QED
  BY <1>1, <1>2, <1>3 DEF Pressed

LEMMA ScoreKeeps ==
  ASSUME TypeOK, NEW o, NEW frozen \in BOOLEAN, NEW near \in BOOLEAN, NEW player \in BOOLEAN,
         NEW n \in tryScoreEvent(o, frozen, near, player)
  PROVE  Keeps(my, n)
<1> DEFINE points == near /\ IF my.runner THEN ~my.frozen /\ ~frozen ELSE frozen
           m == [my EXCEPT !.scored = @ \/ points]
<1>1. my \in Mine
  BY DEF TypeOK
<1>2. points \in BOOLEAN
  BY <1>1 DEF Mine
<1>3. m \in Mine /\ Keeps(my, m) /\ m.frozen = my.frozen /\ m.runner = my.runner
  <2> HIDE DEF points
  <2> QED BY <1>1, <1>2 DEF Mine, Keeps, Sound
<1>4. \A k \in Wipeout(m, player) : Keeps(m, k)
  BY <1>3, WipeoutKeeps
<1>5. n = my \/ n = m \/ n \in Wipeout(m, player)
  <2> HIDE DEF m, points
  <2> QED BY DEF tryScoreEvent, m, points
<1> HIDE DEF m, points
<1> QED
  BY <1>3, <1>4, <1>5 DEF Keeps, Sound

\* The game thread is about to freeze a runner, or has just done it, only where
\* update and a recovery call trySetPlayerRunnerState.
FreezeInv ==
  /\ Sound(my)
  /\ freezing = "checked" => my.runner
  /\ freezing # "no" => pc \in {"contact", "recover"}

LEMMA NextFreeze == TypeOK /\ FreezeInv /\ [Next]_vars => FreezeInv'
<1> SUFFICES ASSUME TypeOK, FreezeInv, [Next]_vars PROVE FreezeInv'
  OBVIOUS
<1>0. my \in Mine
  BY DEF TypeOK
<1>1. ASSUME NEW dt \in FrameTimes, NEW keys \in Buttons, Tick(dt, keys) PROVE FreezeInv'
  <2> DEFINE t == updateTimer(my.timer, keys, dt)
             m == [my EXCEPT !.timer = [t EXCEPT !.control = FALSE], !.scored = @ \/ Survives(t.time)]
  <2>1. m \in Mine
    <3>1. dt \in 0 .. Second - 1 /\ my.timer \in Timers
      BY <1>0, FrameAssumption DEF Mine
    <3>2. t \in Timers
      BY <3>1, TimerTypes
    <3>3. [t EXCEPT !.control = FALSE] \in Timers
      BY <3>2 DEF Timers
    <3>4. Survives(t.time) \in BOOLEAN
      BY <1>0 DEF Survives, Mine
    <3> HIDE DEF t
    <3> QED BY <1>0, <3>3, <3>4 DEF Mine
  <2>2. Keeps(my, m)
    <3> HIDE DEF t
    <3> QED BY <1>0 DEF Keeps, Sound, Mine
  <2>3. \A n \in Ends(m, FALSE, TRUE) : Keeps(m, n)
    BY <2>1, EndsKeep
  <2> HIDE DEF t, m
  <2>4. Keeps(my, my')
    BY <1>1, <2>2, <2>3 DEF Tick, t, m, Keeps
  <2> QED
    BY <1>1, <2>4 DEF Tick, FreezeInv, Keeps
<1>2. ASSUME List \/ ContactDone \/ GoesOn \/ pause \/ unpause \/ ApplyPlayer
             \/ \E o \in Active : Disconnect(o)
      PROVE FreezeInv'
  BY <1>2 DEF List, ContactDone, GoesOn, pause, unpause, ApplyPlayer, Disconnect, FreezeInv, Sound
<1>3. ASSUME TouchChaser PROVE FreezeInv'
  BY <1>3 DEF TouchChaser, FreezeInv, Sound
<1>4. ASSUME SetFrozen PROVE FreezeInv'
  BY <1>0, <1>4 DEF SetFrozen, FreezeInv, Sound, Mine
<1>5. ASSUME CheckWipeout PROVE FreezeInv'
  BY <1>0, <1>5, WipeoutKeeps DEF CheckWipeout, FreezeInv, Keeps, Sound
<1>6. ASSUME TouchRunner PROVE FreezeInv'
  BY <1>0, <1>6, SmallKeep DEF TouchRunner, FreezeInv, Keeps
<1>7. ASSUME EndRecovery PROVE FreezeInv'
  <2>1. \A m \in Mine : /\ [m EXCEPT !.recovery = "none"].frozen = m.frozen
                        /\ [m EXCEPT !.recovery = "none"].runner = m.runner
    BY DEF Mine
  <2>2. Keeps(my, my')
    BY <1>0, <1>7, <2>1, SmallKeep, ThawTypes DEF EndRecovery, Keeps, Sound
  <2>3. Refreezes(my) => my.runner
    BY DEF Refreezes
  <2> QED
    BY <1>7, <2>2, <2>3 DEF EndRecovery, FreezeInv, Keeps
<1>8. ASSUME NEW over \in BOOLEAN, Finish(over) PROVE FreezeInv'
  <2> DEFINE e == IF over THEN EndgameOver(my) ELSE my
             m == [e EXCEPT !.scored = FALSE]
  <2>1. e \in Mine /\ Sound(e)
    BY <1>0, SmallKeep, EndgameOverTypes DEF FreezeInv, Keeps
  <2>2. m \in Mine /\ Sound(m)
    <3> HIDE DEF e
    <3> QED BY <2>1 DEF Sound, Mine
  <2>3. my' \in Pressed(m) /\ pc = "finish" /\ UNCHANGED freezing
    BY <1>8 DEF Finish
  <2> HIDE DEF m
  <2> QED
    BY <2>2, <2>3, PressedSound DEF FreezeInv
<1>9. ASSUME FallOff PROVE FreezeInv'
  BY <1>0, <1>9, SmallKeep DEF FallOff, FreezeInv, Keeps
<1>10. ASSUME begin \/ init PROVE FreezeInv'
  BY <1>0, <1>10 DEF begin, init, FreezeInv, Sound, Mine
<1>11. ASSUME NEW isPaused \in BOOLEAN, NEW player \in BOOLEAN, end(isPaused, player) PROVE FreezeInv'
  BY <1>0, <1>11, SmallKeep DEF end, FreezeInv, Keeps
<1>12. ASSUME NEW o \in Active, NEW byte \in SentBytes, Receive(o, byte) PROVE FreezeInv'
  <2>1. Keeps(my, my')
    <3>1. ASSUME RoundPacket(o, updateType(byte)) PROVE Keeps(my, my')
      BY <1>0, <3>1, EndsKeep, SmallKeep, Players DEF RoundPacket, Keeps, Sound, Mine
    <3>2. ASSUME NEW runner \in BOOLEAN, NEW frozen \in BOOLEAN, NEW near \in BOOLEAN,
                 PlayerPacket(o, runner, frozen, near)
          PROVE  Keeps(my, my')
      BY <3>2, ScoreKeeps, Players DEF PlayerPacket
    <3>3. ASSUME UNCHANGED my PROVE Keeps(my, my')
      BY <3>3 DEF Keeps, Sound
    <3> QED
      BY <1>12, <3>1, <3>2, <3>3 DEF Receive
  <2> QED
    BY <1>12, <2>1 DEF Receive, FreezeInv, Keeps
<1>13. CASE UNCHANGED vars
  BY <1>13 DEF vars, FreezeInv, Sound
<1> QED
  BY <1>1, <1>2, <1>3, <1>4, <1>5, <1>6, <1>7, <1>8, <1>9, <1>10, <1>11, <1>12, <1>13
  DEF Next, Frame, Between, ReadThread

\* "Verify you are never frozen on chaser team" (FreezeTagMode.cpp:256) never
\* finds one, whatever packets come at any point of a frame.
THEOREM ChaserNotFrozen == Spec => []ChaserNeverFrozen
<1>1. Init => FreezeInv
  BY DEF Init, FreezeInv, Sound
<1>2. FreezeInv => ChaserNeverFrozen
  BY DEF FreezeInv, Sound, ChaserNeverFrozen
<1> QED
  BY <1>1, <1>2, NextFreeze, TypeCorrect, PTL DEF Spec


-----------------------------------------------------------------------------
(* The clock runs in rounds only, and never through zero.                  *)

\* A clock that may count down shows some time, or begins a second of none.
Lasts(time) == Empty(time) => time.ms = 0

Clocked(m) ==
  /\ m.timer.time.m >= 0
  /\ m.timer.on => m.round /\ ~m.timer.up
  /\ m.round => Lasts(m.timer.time)

LEMMA SomeTime ==
  ASSUME NEW t \in Timers, ~t.up, t.time.m >= 0, getTimeCombined(t) > 0
  PROVE  ~Empty(t.time)
<1> SUFFICES ASSUME Empty(t.time) PROVE FALSE
  OBVIOUS
<1>1. t.time.s = 0 /\ t.time.m = 0 /\ t.time.h = 0 /\ t.time.ms >= 0 /\ t.time.ms \in Int
  BY SecondAssumption DEF Empty, Timers, Times
<1>2. Sixty * (t.time.m + Sixty * t.time.h) = 0
  BY <1>1, SixtyAssumption
<1>3. getTimeCombined(t) = Second * 0 + -t.time.ms
  BY <1>1, <1>2 DEF getTimeCombined
<1>4. Second * 0 = 0
  BY SecondAssumption
<1> QED
  BY <1>1, <1>3, <1>4

LEMMA BorrowStops ==
  ASSUME NEW time \in Times, NEW under \in Int, ~Empty(time) \/ under >= 0, time.m >= 0
  PROVE  SecondDown(time, under).m >= 0
BY SixtyAssumption DEF SecondDown, Times, Empty

\* Buttons cut the fraction of a second and leave no minute below zero.
LEMMA ControlLasts ==
  ASSUME NEW time \in Times, NEW keys, time.m >= 0
  PROVE  LET now == timerControl(time, keys)
         IN now.m >= 0 /\ (Lasts(time) => Lasts(now))
<1> DEFINE cut   == [time EXCEPT !.ms = 0]
           right == IF "right" \in keys THEN SecondUp(cut) ELSE time
           flat  == [right EXCEPT !.ms = 0]
           now   == timerControl(time, keys)
<1>1. cut \in Times /\ cut.m = time.m /\ cut.ms = 0
  BY CutTypes DEF Times
<1>2. SecondUp(cut) \in Times /\ SecondUp(cut).m >= 0 /\ SecondUp(cut).ms = 0
  <2> HIDE DEF cut
  <2>1. SecondUp(cut) \in Times
    BY <1>1, SecondUpTypes
  <2>2. cut.m \in Int /\ cut.m + 1 \in Int /\ cut.m + 1 >= 0
    BY <1>1 DEF Times
  <2>3. SecondUp(cut).m \in {cut.m, cut.m + 1, 0} /\ SecondUp(cut).ms = cut.ms
    BY <1>1 DEF SecondUp, Times
  <2>4. SecondUp(cut).m >= 0
    BY <1>1, <2>2, <2>3
  <2> QED BY <1>1, <2>1, <2>3, <2>4
<1>3. right \in Times /\ right.m >= 0 /\ (Lasts(time) => Lasts(right))
  <2> HIDE DEF cut
  <2> QED BY <1>2 DEF Lasts
<1> HIDE DEF cut, right
<1>4. flat \in Times /\ flat.m >= 0 /\ flat.ms = 0
  BY <1>3, CutTypes DEF Times
<1> HIDE DEF flat
<1>5. SecondDown(flat, 0).m >= 0 /\ SecondDown(flat, 0).ms = 0
  <2>1. SecondDown(flat, 0).ms = 0
    BY <1>4 DEF SecondDown, Times
  <2> QED BY <1>4, <2>1, BorrowStops
<1>6. Zero.m = 0 /\ Zero.ms = 0
  BY DEF Zero
<1>7. now \in {Zero, time, SecondDown(flat, 0), flat, right}
  BY DEF timerControl, flat, right, cut
<1> HIDE DEF now
<1>8. now.m >= 0 /\ (Lasts(time) => Lasts(now))
  BY <1>3, <1>4, <1>5, <1>6, <1>7 DEF Lasts
<1> QED BY <1>8 DEF now

\* A frame takes some of the time that is left, and keeps the clock running.
LEMMA FrameRuns ==
  ASSUME NEW t \in Timers, NEW keys, NEW dt \in 0 .. Second - 1,
         t.time.m >= 0, t.on => ~t.up /\ Lasts(t.time)
  PROVE  LET u == updateTimer(t, keys, dt)
         IN u.on = t.on /\ u.up = t.up /\ u.time.m >= 0 /\ (~t.on /\ Lasts(t.time) => Lasts(u.time))
<1> DEFINE now  == IF t.control THEN timerControl(t.time, keys) ELSE t.time
           full == now.ms + dt >= Second
           rest == [now EXCEPT !.ms = IF full THEN @ + dt - Second ELSE @ + dt]
           then == IF ~full THEN rest
                   ELSE IF t.up THEN SecondUp(rest)
                   ELSE SecondDown(rest, rest.m - 1)
           stop == ~(full /\ ~t.up /\ Empty(now))
<1>1. t.time \in Times /\ t.on \in BOOLEAN
  BY DEF Timers
<1>2. now \in Times /\ now.m >= 0 /\ (Lasts(t.time) => Lasts(now))
  BY <1>1, ControlTypes, ControlLasts
<1>3. rest \in Times /\ rest.s = now.s /\ rest.m = now.m /\ rest.h = now.h
  <2> HIDE DEF now
  <2> QED BY <1>2, RestTypes DEF Times
<1>4. t.on => ~t.up /\ (full => ~Empty(now))
  <2> HIDE DEF now
  <2> QED BY <1>2, SecondAssumption DEF Lasts, Times
<1>5. t.on => then.m >= 0
  <2> SUFFICES ASSUME t.on PROVE then.m >= 0
    OBVIOUS
  <2>1. (full => ~Empty(rest)) /\ rest.m >= 0 /\ rest.m - 1 \in Int
    <3> HIDE DEF rest, now, full
    <3> QED BY <1>2, <1>3, <1>4 DEF Empty, Times
  <2>2. full => SecondDown(rest, rest.m - 1).m >= 0
    <3> HIDE DEF rest, full
    <3> QED BY <1>3, <2>1, BorrowStops
  <2> HIDE DEF rest, full
  <2> QED
    BY <1>4, <2>1, <2>2
<1>6. updateTimer(t, keys, dt) = IF ~t.on THEN [t EXCEPT !.time = now]
                                 ELSE [t EXCEPT !.time = then, !.on = stop]
  BY DEF updateTimer
<1>7. t.on => stop = t.on
  <2> HIDE DEF full
  <2> QED BY <1>1, <1>4
<1> HIDE DEF then, stop, now
<1> QED
  BY <1>1, <1>2, <1>5, <1>6, <1>7 DEF Timers

LEMMA RoundLasts == \A minutes \in RoundLengths : RoundTime(minutes).m >= 0 /\ Lasts(RoundTime(minutes))
BY LengthAssumption DEF RoundTime, Lasts

LEMMA StartClocked == \A m \in Mine, minutes \in RoundLengths : Clocked(startRound(m, minutes))
<1> TAKE m \in Mine, minutes \in RoundLengths
<1> DEFINE n == startRound(m, minutes)
<1>1. ~n.timer.up /\ n.round /\ n.timer.time = RoundTime(minutes)
  BY DEF startRound, CountingDown, Mine, Timers
<1> HIDE DEF n
<1>2. Clocked(n)
  BY <1>1, RoundLasts DEF Clocked
<1> QED
  BY <1>2 DEF n

LEMMA EndStops ==
  ASSUME NEW m \in Mine, NEW isAbort \in BOOLEAN, NEW player \in BOOLEAN
  PROVE  LET n == endRound(m, isAbort, player)
         IN ~n.round /\ ~n.timer.on /\ n.timer.up = m.timer.up /\ n.timer.time = m.timer.time
<1> DEFINE n == endRound(m, isAbort, player)
<1>1. n.timer = [m.timer EXCEPT !.on = FALSE] /\ n.round = FALSE
  BY DEF endRound, Thaw, Mine
<1>2. n.timer.on = FALSE /\ n.timer.up = m.timer.up /\ n.timer.time = m.timer.time
  BY <1>1 DEF Mine, Timers
<1> HIDE DEF n
<1>3. ~n.round /\ ~n.timer.on /\ n.timer.up = m.timer.up /\ n.timer.time = m.timer.time
  BY <1>1, <1>2
<1> QED
  BY <1>3 DEF n

LEMMA OvertakenStops ==
  ASSUME NEW m \in Mine, NEW n \in Overtaken(m)
  PROVE  \E minutes \in RoundLengths :
           n.round /\ n.timer.on = m.timer.on /\ n.timer.time = RoundTime(minutes)
<1>1. PICK minutes \in RoundLengths : n = [m EXCEPT !.round = TRUE, !.timer.time = RoundTime(minutes)]
  BY DEF Overtaken
<1>2. n.round = TRUE /\ n.timer = [m.timer EXCEPT !.time = RoundTime(minutes)]
  BY <1>1 DEF Mine
<1>3. n.timer.on = m.timer.on /\ n.timer.time = RoundTime(minutes)
  BY <1>2 DEF Mine, Timers
<1> QED BY <1>2, <1>3

LEMMA EndsClocked ==
  ASSUME NEW m \in Mine, NEW isAbort \in BOOLEAN, NEW player \in BOOLEAN, m.timer.time.m >= 0,
         NEW n \in Ends(m, isAbort, player)
  PROVE  Clocked(n)
<1> DEFINE over == endRound(m, isAbort, player)
<1>1. over \in Mine /\ ~over.round /\ ~over.timer.on /\ over.timer.time = m.timer.time
  BY EndTypes, EndStops
<1>2. n = over \/ n \in Overtaken(over)
  BY DEF Ends
<1> HIDE DEF over
<1>3. CASE n = over
  BY <1>1, <1>3 DEF Clocked
<1>4. CASE n \in Overtaken(over)
  <2>1. PICK minutes \in RoundLengths :
          n.round /\ n.timer.on = over.timer.on /\ n.timer.time = RoundTime(minutes)
    BY <1>1, <1>4, OvertakenStops
  <2> QED BY <1>1, <2>1, RoundLasts DEF Clocked
<1> QED BY <1>2, <1>3, <1>4

\* A change that concerns neither the clock nor the round.
LEMMA SameClock ==
  \A m \in Mine : \A n : Clocked(m) /\ n.timer = m.timer /\ n.round = m.round => Clocked(n)
BY DEF Clocked

LEMMA WipeoutClocked ==
  ASSUME NEW m \in Mine, NEW player \in BOOLEAN, Clocked(m), NEW n \in Wipeout(m, player)
  PROVE  Clocked(n)
<1> DEFINE e == [m EXCEPT !.endgame = TRUE, !.scored = @ \/ ~m.runner]
           f == [m EXCEPT !.endgame = TRUE]
<1>1. e \in Mine /\ e.timer = m.timer /\ f.timer = m.timer /\ f.round = m.round
  BY DEF Mine
<1>2. e.timer.time.m >= 0
  BY <1>1 DEF Clocked
<1>3. n \in Ends(e, FALSE, player) \/ n = f
  BY DEF Wipeout
<1> HIDE DEF e, f
<1> QED
  BY <1>1, <1>2, <1>3, EndsClocked, SameClock

LEMMA SmallClocked ==
  \A m \in Mine : /\ \A player \in BOOLEAN : /\ Thaw(m, player).timer = m.timer
                                             /\ Thaw(m, player).round = m.round
                  /\ EndgameOver(m).timer = m.timer /\ EndgameOver(m).round = m.round
                  /\ \A point : /\ tryStartRecoveryEvent(m, point).timer = m.timer
                                /\ tryStartRecoveryEvent(m, point).round = m.round
BY DEF Thaw, EndgameOver, tryStartRecoveryEvent, Mine

\* Steps that leave the clock and the round alone.
LEMMA ClockKept ==
  ASSUME my \in Mine,
         TouchRunner \/ FallOff \/ EndRecovery \/ (\E isPaused, player \in BOOLEAN : end(isPaused, player))
  PROVE  my'.timer = my.timer /\ my'.round = my.round /\ lastTime' = lastTime
<1>1. Thaw(my, TRUE) \in Mine /\ Thaw(my, TRUE).timer = my.timer /\ Thaw(my, TRUE).round = my.round
  BY SmallClocked, ThawTypes
<1>2. CASE TouchRunner
  BY <1>1, <1>2 DEF TouchRunner
<1>3. CASE FallOff
  BY <1>3, SmallClocked DEF FallOff
<1>4. CASE EndRecovery
  <2>1. \A m \in Mine : /\ [m EXCEPT !.recovery = "none"].timer = m.timer
                        /\ [m EXCEPT !.recovery = "none"].round = m.round
    BY DEF Mine
  <2>2. \/ my' = [my EXCEPT !.recovery = "none"]
        \/ my' = [Thaw(my, TRUE) EXCEPT !.recovery = "none"]
    BY <1>4 DEF EndRecovery
  <2>3. lastTime' = lastTime
    BY <1>4 DEF EndRecovery
  <2> QED BY <1>1, <2>1, <2>2, <2>3
<1>5. ASSUME NEW isPaused \in BOOLEAN, NEW player \in BOOLEAN, end(isPaused, player)
      PROVE  my'.timer = my.timer /\ my'.round = my.round /\ lastTime' = lastTime
  <2>1. my' = my \/ my' = Thaw(my, player)
    BY <1>5 DEF end
  <2>2. Thaw(my, player).timer = my.timer /\ Thaw(my, player).round = my.round
    BY SmallClocked
  <2> QED BY <1>5, <2>1, <2>2 DEF end
<1> QED BY <1>2, <1>3, <1>4, <1>5

LEMMA PressedClocked == \A m \in Mine : \A n : n \in Pressed(m) /\ Clocked(m) => Clocked(n)
<1> SUFFICES ASSUME NEW m \in Mine, NEW n, n \in Pressed(m), Clocked(m) PROVE Clocked(n)
  OBVIOUS
<1>1. CASE n \in {[m EXCEPT !.runner = ~@], [m EXCEPT !.scored = TRUE], m}
  <2>1. n.timer = m.timer /\ n.round = m.round
    BY <1>1 DEF Mine
  <2> QED BY <2>1, SameClock
<1>2. CASE n \in Ends(m, TRUE, TRUE)
  <2>1. m.timer.time.m >= 0
    BY DEF Clocked
  <2> QED BY <1>2, <2>1, EndsClocked
<1>3. CASE \E minutes \in RoundLengths : n = startRound(m, minutes)
  BY <1>3, StartClocked
<1> QED
  BY <1>1, <1>2, <1>3 DEF Pressed

LEMMA ScoreClocked ==
  ASSUME TypeOK, NEW o, NEW frozen \in BOOLEAN, NEW near \in BOOLEAN, NEW player \in BOOLEAN,
         Clocked(my), NEW n \in tryScoreEvent(o, frozen, near, player)
  PROVE  Clocked(n)
<1> DEFINE points == near /\ IF my.runner THEN ~my.frozen /\ ~frozen ELSE frozen
           m == [my EXCEPT !.scored = @ \/ points]
<1>1. my \in Mine
  BY DEF TypeOK
<1>2. points \in BOOLEAN
  BY <1>1 DEF Mine
<1>3. m \in Mine /\ m.timer = my.timer /\ m.round = my.round
  <2> HIDE DEF points
  <2> QED BY <1>1, <1>2 DEF Mine
<1>4. n = my \/ n = m \/ n \in Wipeout(m, player)
  <2> HIDE DEF m, points
  <2> QED BY DEF tryScoreEvent, m, points
<1> HIDE DEF m, points
<1>5. Clocked(m)
  BY <1>1, <1>3, SameClock
<1> QED
  BY <1>3, <1>4, <1>5, WipeoutClocked

ClockInv == Clocked(my) /\ lastTime.m >= 0

LEMMA NextClock ==
  ASSUME "load" \notin Overlaps
  PROVE  TypeOK /\ ClockInv /\ [Next]_vars => ClockInv'
<1> SUFFICES ASSUME TypeOK, ClockInv, [Next]_vars PROVE ClockInv'
  OBVIOUS
<1>0. my \in Mine /\ my.timer \in Timers /\ Clocked(my) /\ my.timer.time.m >= 0
  BY DEF TypeOK, Mine, ClockInv, Clocked
<1>1. ASSUME NEW dt \in FrameTimes, NEW keys \in Buttons, Tick(dt, keys) PROVE ClockInv'
  <2> DEFINE t == updateTimer(my.timer, keys, dt)
             u == [t EXCEPT !.control = FALSE]
             m == [my EXCEPT !.timer = u, !.scored = @ \/ Survives(t.time)]
  <2>1. dt \in 0 .. Second - 1
    BY FrameAssumption
  <2>2. t \in Timers
    BY <1>0, <2>1, TimerTypes
  <2>3. my.timer.on => ~my.timer.up /\ Lasts(my.timer.time)
    BY <1>0 DEF Clocked
  <2>4. /\ t.on = my.timer.on /\ t.up = my.timer.up /\ t.time.m >= 0
        /\ ~my.timer.on /\ Lasts(my.timer.time) => Lasts(t.time)
    BY <1>0, <2>1, <2>3, FrameRuns
  <2> HIDE DEF t
  <2>5. u \in Timers /\ u.on = t.on /\ u.up = t.up /\ u.time = t.time
    BY <2>2 DEF Timers
  <2> HIDE DEF u
  <2>6. Survives(t.time) \in BOOLEAN
    BY <1>0 DEF Survives, Mine
  <2>7. m \in Mine /\ m.timer = u /\ m.round = my.round
    BY <1>0, <2>5, <2>6 DEF Mine
  <2> HIDE DEF m
  <2>8. m.timer.time.m >= 0
    BY <2>4, <2>5, <2>7
  <2>9. \A n \in Ends(m, FALSE, TRUE) : Clocked(n)
    BY <2>7, <2>8, EndsClocked
  <2>10. ~(t.on /\ getTimeCombined(t) <= 0) => Clocked(m)
    <3> SUFFICES ASSUME ~(t.on /\ getTimeCombined(t) <= 0) PROVE Clocked(m)
      OBVIOUS
    <3>1. getTimeCombined(t) \in Int
      BY <2>2, SecondAssumption, SixtyAssumption DEF getTimeCombined, Timers, Times
    <3>2. t.on => getTimeCombined(t) > 0
      BY <3>1
    <3>3. t.on => ~Empty(t.time)
      BY <2>2, <2>3, <2>4, <3>2, SomeTime
    <3>4. m.round => Lasts(t.time)
      BY <1>0, <2>4, <2>7, <3>3 DEF Clocked, Lasts
    <3>5. m.timer.on => m.round /\ ~m.timer.up
      BY <1>0, <2>3, <2>4, <2>5, <2>7 DEF Clocked
    <3> QED
      BY <2>5, <2>7, <2>8, <3>4, <3>5 DEF Clocked
  <2>11. Clocked(my') /\ lastTime' = t.time
    BY <1>1, <2>9, <2>10 DEF Tick, t, m, u
  <2> QED
    BY <2>4, <2>11 DEF ClockInv, Clocked
<1>2. ASSUME UNCHANGED <<my, lastTime>> PROVE ClockInv'
  BY <1>2 DEF ClockInv, Clocked
<1>3. ASSUME SetFrozen PROVE ClockInv'
  <2>1. my'.timer = my.timer /\ my'.round = my.round
    BY <1>0, <1>3 DEF SetFrozen, Mine
  <2> QED
    BY <1>0, <1>3, <2>1, SameClock DEF SetFrozen, ClockInv, Clocked
<1>4. ASSUME CheckWipeout PROVE ClockInv'
  <2>1. Clocked(my')
    BY <1>0, <1>4, WipeoutClocked DEF CheckWipeout
  <2> QED
    BY <1>4, <2>1 DEF CheckWipeout, ClockInv, Clocked
<1>5. ASSUME TouchRunner \/ FallOff \/ (\E isPaused, player \in BOOLEAN : end(isPaused, player))
      PROVE ClockInv'
  <2>1. my'.timer = my.timer /\ my'.round = my.round /\ lastTime' = lastTime
    BY <1>0, <1>5, ClockKept
  <2> QED
    BY <1>0, <2>1 DEF ClockInv, Clocked
<1>6. ASSUME EndRecovery PROVE ClockInv'
  <2>2. my'.timer = my.timer /\ my'.round = my.round /\ lastTime' = lastTime
    BY <1>0, <1>6, ClockKept
  <2> QED
    BY <1>0, <2>2 DEF ClockInv, Clocked
<1>7. ASSUME NEW over \in BOOLEAN, Finish(over) PROVE ClockInv'
  <2> DEFINE e == IF over THEN EndgameOver(my) ELSE my
             m == [e EXCEPT !.scored = FALSE]
  <2>1. e \in Mine /\ e.timer = my.timer /\ e.round = my.round
    BY <1>0, SmallClocked, EndgameOverTypes
  <2>2. m \in Mine /\ m.timer = my.timer /\ m.round = my.round
    <3> HIDE DEF e
    <3> QED BY <2>1 DEF Mine
  <2>3. my' \in Pressed(m) /\ lastTime' = lastTime
    BY <1>7 DEF Finish
  <2> HIDE DEF m
  <2>4. Clocked(m)
    BY <1>0, <2>2, SameClock
  <2>5. Clocked(my')
    BY <2>2, <2>3, <2>4, PressedClocked
  <2> QED
    BY <2>3, <2>5 DEF ClockInv, Clocked
<1>8. ASSUME begin PROVE ClockInv'
  <2> DEFINE u == [CountingDown(my.timer) EXCEPT !.on = my.timer.on \/ my.round]
  <2>1. my.round \in BOOLEAN /\ (my.timer.on => my.round)
    BY <1>0 DEF Mine, Clocked
  <2>2. ~u.up /\ u.on = my.round /\ u.time = my.timer.time
    BY <1>0, <2>1 DEF CountingDown, Timers
  <2>3. my' = [my EXCEPT !.timer = u] /\ lastTime' = lastTime
    BY <1>8 DEF begin
  <2> HIDE DEF u
  <2>4. my'.timer = u /\ my'.round = my.round
    BY <1>0, <2>3 DEF Mine
  <2> QED
    BY <1>0, <2>2, <2>3, <2>4 DEF ClockInv, Clocked
<1>9. ASSUME init PROVE ClockInv'
  <2> DEFINE u == my'.timer
  <2>1. my.round \in BOOLEAN
    BY <1>0 DEF Mine
  <2>2. /\ my' = [my EXCEPT !.timer = IF mode = "on" THEN NewClock(my) ELSE NewTimer(lastTime)]
        /\ lastTime' = lastTime /\ my.timer.time = lastTime
    BY <1>9 DEF init
  <2>3. u = (IF mode = "on" THEN NewClock(my) ELSE NewTimer(lastTime)) /\ my'.round = my.round
    BY <1>0, <2>2 DEF Mine
  <2>4. u.time = lastTime /\ (u.on => my.round /\ ~u.up)
    BY <2>1, <2>3 DEF NewClock, NewTimer, CountingDown
  <2> HIDE DEF u
  <2>5. Clocked(my')
    BY <1>0, <2>2, <2>3, <2>4 DEF Clocked, u
  <2> QED
    BY <1>0, <2>2, <2>5 DEF ClockInv, Clocked
<1>10. ASSUME NEW o \in Active, NEW byte \in SentBytes, Receive(o, byte) PROVE ClockInv'
  <2>1. Clocked(my')
    <3>1. ASSUME RoundPacket(o, updateType(byte)) PROVE Clocked(my')
      <4>1. [my EXCEPT !.scored = @ \/ ~my.runner].timer = my.timer
            /\ [my EXCEPT !.scored = @ \/ ~my.runner].round = my.round
        BY <1>0 DEF Mine
      <4> QED
        BY <1>0, <3>1, <4>1, SameClock, StartClocked, EndsClocked, Players DEF RoundPacket
    <3>2. ASSUME NEW runner \in BOOLEAN, NEW frozen \in BOOLEAN, NEW near \in BOOLEAN,
                 PlayerPacket(o, runner, frozen, near)
          PROVE  Clocked(my')
      BY <1>0, <3>2, ScoreClocked, Players DEF PlayerPacket
    <3>3. ASSUME UNCHANGED my PROVE Clocked(my')
      BY <1>0, <3>3
    <3> QED
      BY <1>10, <3>1, <3>2, <3>3 DEF Receive
  <2> QED
    BY <1>10, <2>1 DEF Receive, ClockInv, Clocked
<1>11. ASSUME List \/ TouchChaser \/ ContactDone \/ GoesOn \/ pause \/ unpause \/ ApplyPlayer
              \/ (\E o \in Active : Disconnect(o)) \/ UNCHANGED vars
       PROVE UNCHANGED <<my, lastTime>>
  BY <1>11 DEF List, TouchChaser, ContactDone, GoesOn, pause, unpause, ApplyPlayer, Disconnect, vars
<1> QED
  BY <1>1, <1>2, <1>3, <1>4, <1>5, <1>6, <1>7, <1>8, <1>9, <1>10, <1>11
  DEF Next, Frame, Between, ReadThread

\* If no packet starts a round while a stage is loaded, the clock never goes
\* through zero: endRound stops it before, or it is stopped already.
THEOREM ClockStops ==
  ASSUME "load" \notin Overlaps
  PROVE  Spec => []NeverBelowZero
<1>1. Init => ClockInv
  <2> SUFFICES ASSUME Init PROVE ClockInv
    OBVIOUS
  <2>1. my.timer = NewTimer(Zero) /\ my.round = FALSE /\ lastTime = Zero
    BY DEF Init
  <2>2. my.timer.on = FALSE /\ my.timer.time.m = 0 /\ lastTime.m = 0
    BY <2>1 DEF NewTimer, Zero
  <2>3. my.timer.time.m >= 0 /\ lastTime.m >= 0
    BY <2>2
  <2> QED
    BY <2>1, <2>2, <2>3, Zenon DEF ClockInv, Clocked
<1>2. ClockInv => NeverBelowZero
  BY DEF ClockInv, Clocked, NeverBelowZero
<1>3. TypeOK /\ ClockInv /\ [Next]_vars => ClockInv'
  BY NextClock
<1> QED
  BY <1>1, <1>2, <1>3, TypeCorrect, PTL DEF Spec

-----------------------------------------------------------------------------
(* Where survival points come from, when all rounds are of one length and  *)
(* nobody adds time.                                                       *)

\* The clock that is on counts a round down, has no hours, shows no less than
\* "last", the minutes of the last frame, and no more than a round begins with.
Falls(m, last) ==
  /\ m.timer.on => m.round /\ ~m.timer.up
  /\ m.timer.time.h = 0
  /\ last <= m.timer.time.m
  /\ \A minutes \in RoundLengths : m.timer.time.m < minutes

\* The same for what the last frame saw, so that init can go back to it.
LastInv == lastTime.h = 0 /\ Falls(my, lastTime.m)

\* What a frame does to a clock that falls.
LEMMA FrameFalls ==
  ASSUME NEW t \in Timers, NEW keys, "right" \notin keys, NEW dt \in 0 .. Second - 1,
         t.on => ~t.up, t.time.h = 0
  PROVE  LET u == updateTimer(t, keys, dt)
         IN (u.on => t.on) /\ u.up = t.up /\ u.time.h = 0 /\ (u.time.m <= t.time.m \/ u.time.m <= 0)
<1> DEFINE now  == IF t.control THEN timerControl(t.time, keys) ELSE t.time
           full == now.ms + dt >= Second
           rest == [now EXCEPT !.ms = IF full THEN @ + dt - Second ELSE @ + dt]
           then == IF ~full THEN rest
                   ELSE IF t.up THEN SecondUp(rest)
                   ELSE SecondDown(rest, rest.m - 1)
           stop == ~(full /\ ~t.up /\ Empty(now))
<1>1. t.time \in Times /\ t.on \in BOOLEAN
  BY DEF Timers
<1>2. now \in Times /\ now.h = 0 /\ (now.m <= t.time.m \/ now.m <= 0)
  <2> DEFINE flat == [t.time EXCEPT !.ms = 0]
  <2>1. flat \in Times /\ flat.m = t.time.m /\ flat.h = 0
    BY <1>1, CutTypes DEF Times
  <2>2. timerControl(t.time, keys) \in {Zero, t.time, SecondDown(flat, 0), flat}
    BY DEF timerControl
  <2> HIDE DEF flat
  <2>3. SecondDown(flat, 0).h = 0 /\ (SecondDown(flat, 0).m <= flat.m \/ SecondDown(flat, 0).m <= 0)
    BY <2>1 DEF SecondDown, Times
  <2>4. Zero.h = 0 /\ Zero.m = 0
    BY DEF Zero
  <2>5. now \in {Zero, t.time, SecondDown(flat, 0), flat}
    BY <2>2
  <2>6. now \in Times
    BY <1>1, ControlTypes
  <2> HIDE DEF now
  <2>7. t.time.m <= t.time.m /\ flat.m <= t.time.m
    BY <1>1, <2>1 DEF Times
  <2> QED BY <1>1, <2>1, <2>3, <2>4, <2>5, <2>6, <2>7
<1>3. rest \in Times /\ rest.m = now.m /\ rest.h = now.h
  <2> HIDE DEF now
  <2> QED BY <1>2, RestTypes DEF Times
<1>4. t.on => then.h = 0 /\ then.m <= now.m
  <2> SUFFICES ASSUME t.on PROVE then.h = 0 /\ then.m <= now.m
    OBVIOUS
  <2>1. SecondDown(rest, rest.m - 1).h = 0 /\ SecondDown(rest, rest.m - 1).m <= rest.m
    <3> HIDE DEF rest
    <3> QED BY <1>2, <1>3 DEF SecondDown, Times
  <2>2. rest.m <= now.m /\ rest.h = 0
    <3> HIDE DEF rest, now
    <3> QED BY <1>2, <1>3 DEF Times
  <2> HIDE DEF rest
  <2> QED BY <1>3, <2>1, <2>2
<1>5. updateTimer(t, keys, dt) = IF ~t.on THEN [t EXCEPT !.time = now]
                                 ELSE [t EXCEPT !.time = then, !.on = stop]
  BY DEF updateTimer
<1>6. t.on => then \in Times
  <2> HIDE DEF now
  <2>1. rest.m - 1 \in Int
    BY <1>3 DEF Times
  <2> HIDE DEF rest
  <2> QED BY <1>3, <2>1, SecondDownTypes
<1>7. t.on => then.m <= t.time.m \/ then.m <= 0
  <2> HIDE DEF then, now
  <2> QED BY <1>1, <1>2, <1>4, <1>6 DEF Times
<1> HIDE DEF then, stop, now
<1> QED
  BY <1>1, <1>2, <1>4, <1>5, <1>7 DEF Timers

\* A round that starts shows at least what any clock showed before.
LEMMA StartFalls ==
  ASSUME \A a, b \in RoundLengths : a = b,
         NEW m \in Mine, NEW last \in Int, Falls(m, last), NEW minutes \in RoundLengths
  PROVE  Falls(startRound(m, minutes), last)
<1> DEFINE n == startRound(m, minutes)
<1>1. n \in Mine
  BY StartTypes
<1>2. ~n.timer.up /\ n.round /\ n.timer.time.m = minutes - 1 /\ n.timer.time.h = 0
  BY <1>1 DEF startRound, RoundTime, CountingDown, Mine, Timers
<1>3. m.timer.time.m < minutes /\ m.timer.time.m \in Int /\ minutes \in Int
  BY LengthAssumption DEF Falls, Mine, Timers, Times
<1>4. last <= minutes - 1
  BY <1>3 DEF Falls
<1>5. \A b \in RoundLengths : minutes - 1 < b
  BY <1>3
<1> HIDE DEF n
<1> QED
  BY <1>2, <1>4, <1>5 DEF Falls, n

LEMMA EndFalls ==
  ASSUME "end" \notin Overlaps,
         NEW m \in Mine, NEW last, Falls(m, last), NEW isAbort \in BOOLEAN, NEW player \in BOOLEAN,
         NEW n \in Ends(m, isAbort, player)
  PROVE  Falls(n, last) /\ ~n.round /\ n.timer.time = m.timer.time
<1>1. n = endRound(m, isAbort, player)
  BY DEF Ends
<1>2. ~n.round /\ ~n.timer.on /\ n.timer.time = m.timer.time
  BY <1>1, EndStops
<1> QED
  BY <1>2 DEF Falls

LEMMA SameFalls ==
  ASSUME NEW m, NEW n, NEW last, Falls(m, last), n.timer = m.timer, n.round = m.round
  PROVE  Falls(n, last)
BY DEF Falls

LEMMA WipeoutFalls ==
  ASSUME "end" \notin Overlaps,
         NEW m \in Mine, NEW player \in BOOLEAN, NEW last, Falls(m, last), NEW n \in Wipeout(m, player)
  PROVE  Falls(n, last)
<1> DEFINE e == [m EXCEPT !.endgame = TRUE, !.scored = @ \/ ~m.runner]
           f == [m EXCEPT !.endgame = TRUE]
<1>1. e \in Mine /\ e.timer = m.timer /\ e.round = m.round /\ f.timer = m.timer /\ f.round = m.round
  BY DEF Mine
<1>2. n \in Ends(e, FALSE, player) \/ n = f
  BY DEF Wipeout
<1> HIDE DEF e, f
<1>3. Falls(e, last) /\ Falls(f, last)
  BY <1>1, SameFalls
<1> QED
  BY <1>1, <1>2, <1>3, EndFalls

LEMMA PressedFalls ==
  ASSUME \A a, b \in RoundLengths : a = b, "end" \notin Overlaps,
         NEW m \in Mine, NEW last \in Int, Falls(m, last), NEW n \in Pressed(m)
  PROVE  Falls(n, last)
<1>1. CASE n \in {[m EXCEPT !.runner = ~@], [m EXCEPT !.scored = TRUE], m}
  <2>1. n.timer = m.timer /\ n.round = m.round
    BY <1>1 DEF Mine
  <2> QED BY <2>1, SameFalls
<1>2. CASE n \in Ends(m, TRUE, TRUE)
  BY <1>2, EndFalls
<1>3. CASE \E minutes \in RoundLengths : n = startRound(m, minutes)
  BY <1>3, StartFalls
<1> QED
  BY <1>1, <1>2, <1>3 DEF Pressed

LEMMA ScoreFalls ==
  ASSUME "end" \notin Overlaps, TypeOK,
         NEW o, NEW frozen \in BOOLEAN, NEW near \in BOOLEAN, NEW player \in BOOLEAN,
         NEW last, Falls(my, last), NEW n \in tryScoreEvent(o, frozen, near, player)
  PROVE  Falls(n, last)
<1> DEFINE points == near /\ IF my.runner THEN ~my.frozen /\ ~frozen ELSE frozen
           m == [my EXCEPT !.scored = @ \/ points]
<1>1. my \in Mine
  BY DEF TypeOK
<1>2. points \in BOOLEAN
  BY <1>1 DEF Mine
<1>3. m \in Mine /\ m.timer = my.timer /\ m.round = my.round
  <2> HIDE DEF points
  <2> QED BY <1>1, <1>2 DEF Mine
<1>4. n = my \/ n = m \/ n \in Wipeout(m, player)
  <2> HIDE DEF m, points
  <2> QED BY DEF tryScoreEvent, m, points
<1> HIDE DEF m, points
<1>5. Falls(m, last)
  BY <1>3, SameFalls
<1> QED
  BY <1>3, <1>4, <1>5, WipeoutFalls

\* The clock's part of a frame: it goes on falling, and a new point is that of
\* a minute or of the round that is over.
LEMMA TickFalls ==
  ASSUME "right" \notin Keys, "end" \notin Overlaps,
         TypeOK, LastInv, NEW dt \in FrameTimes, NEW keys \in Buttons, Tick(dt, keys)
  PROVE  /\ LastInv'
         /\ ~my.scored /\ my'.scored =>
              (my'.timer.time.m < my.timer.time.m \/ (my.round /\ ~my'.round))
<1> DEFINE t == updateTimer(my.timer, keys, dt)
           u == [t EXCEPT !.control = FALSE]
           m == [my EXCEPT !.timer = u, !.scored = @ \/ Survives(t.time)]
           over == t.on /\ getTimeCombined(t) <= 0
<1>0. my \in Mine /\ my.timer \in Timers /\ Falls(my, lastTime.m)
  BY DEF TypeOK, Mine, LastInv
<1>1. dt \in 0 .. Second - 1 /\ (my.timer.on => my.round /\ ~my.timer.up) /\ my.timer.time.h = 0
  BY <1>0, FrameAssumption DEF Falls
<1>2. t \in Timers
  BY <1>0, <1>1, TimerTypes
<1>3. /\ (t.on => my.timer.on) /\ t.up = my.timer.up /\ t.time.h = 0
      /\ t.time.m <= my.timer.time.m \/ t.time.m <= 0
  <2>1. "right" \notin keys
    BY DEF Buttons
  <2> QED BY <1>0, <1>1, <2>1, FrameFalls
<1>4. my' \in (IF over THEN Ends(m, FALSE, TRUE) ELSE {m}) /\ lastTime' = t.time
  BY DEF Tick
<1> HIDE DEF t, over
<1>5. u \in Timers /\ u.on = t.on /\ u.up = t.up /\ u.time = t.time
  BY <1>2 DEF Timers
<1> HIDE DEF u
<1>6. Survives(t.time) \in BOOLEAN
  BY <1>0 DEF Survives, Mine
<1>7. m \in Mine /\ m.timer = u /\ m.round = my.round /\ m.scored = (my.scored \/ Survives(t.time))
  BY <1>0, <1>5, <1>6 DEF Mine
<1> HIDE DEF m
<1>8. lastTime.m \in Int /\ t.time.m \in Int /\ my.timer.time.m \in Int
  BY <1>0, <1>2 DEF TypeOK, Timers, Times
<1>9. Falls(m, t.time.m)
  <2>1. \A minutes \in RoundLengths : t.time.m < minutes
    BY <1>0, <1>3, <1>8, LengthAssumption DEF Falls
  <2> QED
    BY <1>1, <1>3, <1>5, <1>7, <1>8, <2>1 DEF Falls
<1>10. \A n \in Ends(m, FALSE, TRUE) : Falls(n, t.time.m) /\ ~n.round /\ n.timer.time = m.timer.time
  BY <1>7, <1>9, EndFalls
<1>11. Falls(my', t.time.m) /\ my'.timer.time = t.time /\ (over => ~my'.round)
  BY <1>4, <1>5, <1>7, <1>9, <1>10
<1>12. LastInv'
  BY <1>3, <1>4, <1>11 DEF LastInv, Falls
<1>13. ASSUME ~my.scored, my'.scored
       PROVE  my'.timer.time.m < my.timer.time.m \/ (my.round /\ ~my'.round)
  <2>1. CASE over
    BY <1>1, <1>3, <1>11, <2>1 DEF over
  <2>2. CASE ~over
    <3>1. t.time.m < lastTime.m
      BY <1>4, <1>7, <1>13, <2>2 DEF Survives
    <3> QED
      BY <1>0, <1>8, <1>11, <3>1 DEF Falls
  <2> QED BY <2>1, <2>2
<1> QED BY <1>12, <1>13

LEMMA NextFalls ==
  ASSUME \A a, b \in RoundLengths : a = b, "right" \notin Keys, "end" \notin Overlaps
  PROVE  TypeOK /\ LastInv /\ [Next]_vars => LastInv'
<1> SUFFICES ASSUME TypeOK, LastInv, [Next]_vars PROVE LastInv'
  OBVIOUS
<1>0. /\ my \in Mine /\ my.timer \in Timers /\ Falls(my, lastTime.m)
      /\ lastTime \in Times /\ lastTime.m \in Int
  BY DEF TypeOK, Mine, LastInv, Times
<1>1. ASSUME NEW dt \in FrameTimes, NEW keys \in Buttons, Tick(dt, keys) PROVE LastInv'
  BY <1>1, TickFalls
<1>2. ASSUME Falls(my', lastTime.m), lastTime' = lastTime PROVE LastInv'
  BY <1>2 DEF LastInv, Falls
<1>3. ASSUME my'.timer = my.timer, my'.round = my.round, lastTime' = lastTime PROVE LastInv'
  BY <1>0, <1>2, <1>3, SameFalls
<1>4. ASSUME SetFrozen PROVE LastInv'
  <2>1. my'.timer = my.timer /\ my'.round = my.round
    BY <1>0, <1>4 DEF SetFrozen, Mine
  <2> QED
    BY <1>3, <1>4, <2>1 DEF SetFrozen
<1>5. ASSUME CheckWipeout PROVE LastInv'
  <2>1. Falls(my', lastTime.m) /\ lastTime' = lastTime
    BY <1>0, <1>5, WipeoutFalls DEF CheckWipeout
  <2> QED BY <1>2, <2>1
<1>6. ASSUME TouchRunner \/ FallOff \/ (\E isPaused, player \in BOOLEAN : end(isPaused, player))
      PROVE LastInv'
  <2>1. my'.timer = my.timer /\ my'.round = my.round /\ lastTime' = lastTime
    BY <1>0, <1>6, ClockKept
  <2> QED BY <1>3, <2>1
<1>7. ASSUME EndRecovery PROVE LastInv'
  <2>2. my'.timer = my.timer /\ my'.round = my.round /\ lastTime' = lastTime
    BY <1>0, <1>7, ClockKept
  <2> QED BY <1>3, <2>2
<1>8. ASSUME NEW over \in BOOLEAN, Finish(over) PROVE LastInv'
  <2> DEFINE e == IF over THEN EndgameOver(my) ELSE my
             m == [e EXCEPT !.scored = FALSE]
  <2>1. e \in Mine /\ e.timer = my.timer /\ e.round = my.round
    BY <1>0, SmallClocked, EndgameOverTypes
  <2>2. m \in Mine /\ m.timer = my.timer /\ m.round = my.round
    <3> HIDE DEF e
    <3> QED BY <2>1 DEF Mine
  <2>3. my' \in Pressed(m) /\ lastTime' = lastTime
    BY <1>8 DEF Finish
  <2> HIDE DEF m
  <2>4. Falls(m, lastTime.m)
    BY <1>0, <2>2, SameFalls
  <2>5. Falls(my', lastTime.m)
    BY <1>0, <2>2, <2>3, <2>4, PressedFalls
  <2> QED BY <1>2, <2>3, <2>5
<1>9. ASSUME begin PROVE LastInv'
  <2> DEFINE u == [CountingDown(my.timer) EXCEPT !.on = my.timer.on \/ my.round]
  <2>1. my.round \in BOOLEAN /\ (my.timer.on => my.round)
    BY <1>0 DEF Mine, Falls
  <2>2. ~u.up /\ u.on = my.round /\ u.time = my.timer.time
    BY <1>0, <2>1 DEF CountingDown, Timers
  <2>3. my' = [my EXCEPT !.timer = u] /\ lastTime' = lastTime
    BY <1>9 DEF begin
  <2> HIDE DEF u
  <2>4. my'.timer = u /\ my'.round = my.round
    BY <1>0, <2>3 DEF Mine
  <2> QED
    BY <1>0, <1>2, <2>2, <2>3, <2>4 DEF Falls
<1>10. ASSUME init PROVE LastInv'
  <2> DEFINE u == my'.timer
  <2>0. my.round \in BOOLEAN
    BY <1>0 DEF Mine
  <2>1. /\ my' = [my EXCEPT !.timer = IF mode = "on" THEN NewClock(my) ELSE NewTimer(lastTime)]
        /\ lastTime' = lastTime
    BY <1>10 DEF init
  <2>2. u = (IF mode = "on" THEN NewClock(my) ELSE NewTimer(lastTime)) /\ my'.round = my.round
    BY <1>0, <2>1 DEF Mine
  <2>3. u.time = lastTime /\ (u.on => my.round /\ ~u.up)
    BY <2>0, <2>2 DEF NewClock, NewTimer, CountingDown
  <2> HIDE DEF u
  <2>4. \A minutes \in RoundLengths : lastTime.m < minutes
    <3> TAKE minutes \in RoundLengths
    <3>1. my.timer.time.m \in Int /\ minutes \in Int /\ lastTime.m <= my.timer.time.m
          /\ my.timer.time.m < minutes
      BY <1>0, LengthAssumption DEF Falls, Timers, Times
    <3> QED BY <1>0, <3>1
  <2>5. lastTime.h = 0 /\ lastTime.m <= lastTime.m
    BY <1>0 DEF LastInv
  <2>6. Falls(my', lastTime.m)
    BY <2>2, <2>3, <2>4, <2>5 DEF Falls, u
  <2> QED
    BY <1>2, <2>1, <2>6
<1>11. ASSUME NEW o \in Active, NEW byte \in SentBytes, Receive(o, byte) PROVE LastInv'
  <2>1. Falls(my', lastTime.m)
    <3>1. ASSUME RoundPacket(o, updateType(byte)) PROVE Falls(my', lastTime.m)
      <4>1. [my EXCEPT !.scored = @ \/ ~my.runner].timer = my.timer
            /\ [my EXCEPT !.scored = @ \/ ~my.runner].round = my.round
        BY <1>0 DEF Mine
      <4> QED
        <5>1. CASE \E minutes \in RoundLengths : my' = startRound(my, minutes)
          BY <1>0, <5>1, StartFalls
        <5>2. ASSUME NEW player \in Player, my' \in Ends(my, TRUE, player) PROVE Falls(my', lastTime.m)
          BY <1>0, <5>2, EndFalls, Players
        <5>3. CASE my' = [my EXCEPT !.scored = @ \/ ~my.runner]
          BY <1>0, <4>1, <5>3, SameFalls
        <5>4. CASE UNCHANGED my
          BY <1>0, <5>4
        <5> QED BY <3>1, <5>1, <5>2, <5>3, <5>4 DEF RoundPacket
    <3>2. ASSUME NEW runner \in BOOLEAN, NEW frozen \in BOOLEAN, NEW near \in BOOLEAN,
                 PlayerPacket(o, runner, frozen, near)
          PROVE  Falls(my', lastTime.m)
      BY <1>0, <3>2, ScoreFalls, Players DEF PlayerPacket
    <3>3. ASSUME UNCHANGED my PROVE Falls(my', lastTime.m)
      BY <1>0, <3>3
    <3> QED
      BY <1>11, <3>1, <3>2, <3>3 DEF Receive
  <2> QED
    BY <1>2, <1>11, <2>1 DEF Receive
<1>12. ASSUME List \/ TouchChaser \/ ContactDone \/ GoesOn \/ pause \/ unpause \/ ApplyPlayer
              \/ (\E o \in Active : Disconnect(o)) \/ UNCHANGED vars
       PROVE LastInv'
  <2>1. UNCHANGED <<my, lastTime>>
    BY <1>12 DEF List, TouchChaser, ContactDone, GoesOn, pause, unpause, ApplyPlayer, Disconnect, vars
  <2> QED BY <1>3, <2>1
<1> QED
  BY <1>1, <1>4, <1>5, <1>6, <1>7, <1>8, <1>9, <1>10, <1>11, <1>12
  DEF Next, Frame, Between, ReadThread

\* Only the clock's part of a frame takes the game thread from "frame" to "list".
LEMMA FrameTicks ==
  ASSUME TypeOK, [Next]_vars, pc = "frame", pc' = "list"
  PROVE  \E dt \in FrameTimes, keys \in Buttons : Tick(dt, keys)
<1>1. ~(List \/ TouchChaser \/ SetFrozen \/ TouchRunner \/ ContactDone \/ EndRecovery \/ GoesOn
        \/ \E over \in BOOLEAN : Finish(over))
  BY DEF List, TouchChaser, SetFrozen, TouchRunner, ContactDone, EndRecovery, GoesOn, Finish
<1>2. ~CheckWipeout
  BY DEF CheckWipeout
<1>3. ~Between
  BY DEF Between, FallOff, begin, end, pause, unpause, init
<1>4. ~ReadThread
  BY DEF ReadThread, ApplyPlayer, Disconnect, Receive
<1>5. ~UNCHANGED vars
  BY DEF vars
<1> QED
  BY <1>1, <1>2, <1>3, <1>4, <1>5 DEF Next, Frame

\* If every round has the same length, no button adds time and no round starts
\* while another ends, a point in the clock's part of a frame comes with a minute
\* that ended in that frame or with the end of the round, whatever packets, loads
\* and pauses there were between the frames.
THEOREM PointsAreEarned ==
  ASSUME \A a, b \in RoundLengths : a = b, "right" \notin Keys, "end" \notin Overlaps
  PROVE  Spec => SurvivalEarned
<1>1. Init => LastInv
  <2> SUFFICES ASSUME Init PROVE LastInv
    OBVIOUS
  <2>1. my.timer = NewTimer(Zero) /\ lastTime = Zero
    BY DEF Init
  <2>2. my.timer.on = FALSE /\ my.timer.time = Zero
    BY <2>1 DEF NewTimer
  <2>3. Zero.m = 0 /\ Zero.h = 0
    BY DEF Zero
  <2>4. \A minutes \in RoundLengths : 0 < minutes
    BY LengthAssumption
  <2> QED
    BY <2>1, <2>2, <2>3, <2>4 DEF LastInv, Falls
<1>2. TypeOK /\ LastInv /\ [Next]_vars => LastInv'
  BY NextFalls
<1>3. TypeOK /\ LastInv /\ [Next]_vars
      => [(pc = "frame" /\ pc' = "list" /\ ~my.scored /\ my'.scored)
           => (my'.timer.time.m < my.timer.time.m \/ (my.round /\ ~my'.round))]_vars
  BY FrameTicks, TickFalls
<1> QED
  BY <1>1, <1>2, <1>3, TypeCorrect, PTL DEF Spec, SurvivalEarned

=============================================================================
