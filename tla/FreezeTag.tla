----------------------------- MODULE FreezeTag -----------------------------
(***************************************************************************)
(* Freeze-Tag on one client (source/server/freeze-tag): rounds, freezing,  *)
(* the wipeout that ends a round ("endgame"), the recovery from a fall,    *)
(* and when points are scored.                                             *)
(*                                                                         *)
(* The game thread runs FreezeTagMode::update once per frame, in steps     *)
(* between which the read thread handles packets of the other players;     *)
(* both read and write the same members, without a lock.  startRound,      *)
(* endRound and tryStartEndgameEvent are one step each, in which another   *)
(* start may come (Ends).  How much time a frame takes, who is near whom   *)
(* and what is pressed is any choice; scores are told apart only by        *)
(* whether the others know the last one.                                   *)
(***************************************************************************)
EXTENDS GameModeInf, GameModeTimer, FiniteSets

CONSTANTS
  Puppets,      \* number of slots for other players
  Active,       \* bound: the slots whose players send packets; the others are
                \* runners who stay frozen
  RoundLengths, \* minutes a host chooses, clamped to 2 .. 60
  FrameTimes,   \* units of time a frame may take, less than a second
  Keys,         \* bound: buttons pressed while they set the clock
  Overlaps      \* what may overlap: a packet that ends the round with a "freeze",
                \* a packet that starts one with the "load" of a stage, a start
                \* of a round with the "end" of one, a packet with the time in
                \* which there is no player ("gone")

ASSUME PuppetsAssumption == Puppets \in Nat \ {0}
ASSUME ActiveAssumption == Active \subseteq 1 .. Puppets
ASSUME LengthAssumption == RoundLengths \subseteq 2 .. 60
ASSUME FrameAssumption == FrameTimes \subseteq 0 .. Second - 1
ASSUME KeysAssumption == Keys \subseteq {"L", "down", "left", "right"}
ASSUME OverlapsAssumption == Overlaps \subseteq {"freeze", "load", "end", "gone"}

Others == 1 .. Puppets
Nobody == 0

\* FreezeUpdateType.
PLAYER == 1
ROUNDSTART == 2
ROUNDCANCEL == 4
FALLOFF == 8

\* The bytes of packets as they come from new and old clients, from players
\* of no mode, and from old clients in another one.
SentBytes ==
  {ModeAndType(m, t) : m \in {FREEZETAG, LEGACY}, t \in {PLAYER, ROUNDSTART, ROUNDCANCEL, FALLOFF}}
    \cup {ModeAndType(NONE, 0), ModeAndType(LEGACY, 3)}

VARIABLES
  my,       \* members of FreezeTagMode and its FreezeTagInfo, see Mine
  mode,     \* is the mode running, paused, or off
  lastTime, \* mRoundTimer: the clock as the last frame saw it
  others,   \* per slot: plays Freeze-Tag (connected), is a runner, is frozen
  listed,   \* mRunnerPlayers
  pc,       \* where in update the game thread is
  slot,     \* the slot it looks at next while it makes the list
  freezing, \* where in trySetPlayerRunnerState(FREEZE) it is
  read      \* the PLAYER packet the read thread has scored and not applied

vars == <<my, mode, lastTime, others, listed, pc, slot, freezing, read>>

Mine ==
  [runner : BOOLEAN, frozen : BOOLEAN, round : BOOLEAN, endgame : BOOLEAN,
   scored : BOOLEAN,                       \* mScore # mPrevScore
   recovery : {"none", "point", "zero"},   \* mRecoveryEventFrames > 0, and the
                                           \* kind of mRecoverySafetyPoint
   timer : Timers]

NoPacket == [who |-> Nobody, runner |-> FALSE, frozen |-> FALSE]
Packets == [who : Others \cup {Nobody}, runner : BOOLEAN, frozen : BOOLEAN]

Init ==
  /\ my = [runner |-> TRUE, frozen |-> FALSE, round |-> FALSE, endgame |-> FALSE,
           scored |-> FALSE, recovery |-> "none", timer |-> NewTimer(Zero)]
  /\ mode = "off"
  /\ lastTime = Zero
  /\ others = [o \in Others |-> [here |-> o \notin Active, runner |-> TRUE, frozen |-> o \notin Active]]
  /\ listed = {}
  /\ pc = "frame" /\ slot = 1 /\ freezing = "no"
  /\ read = NoPacket

-----------------------------------------------------------------------------
(* Triggers, as functions of the members (FreezeTagModeTrigger.cpp).       *)

CountingDown(t) == [t EXCEPT !.up = FALSE, !.on = TRUE, !.control = FALSE]

\* Mistake: the seconds start at a whole minute.
RoundTime_Whole(minutes) == [ms |-> 0, s |-> Sixty, m |-> minutes - 1, h |-> 0]
RoundTime(minutes) == [ms |-> 0, s |-> Sixty - 1, m |-> minutes - 1, h |-> 0]

startRound(m, minutes) ==
  [m EXCEPT !.round = TRUE, !.timer = [CountingDown(@) EXCEPT !.time = RoundTime(minutes)]]

\* trySetPlayerRunnerState(ALIVE): nothing happens to a chaser, or without a
\* player in the scene.
Thaw(m, player) == [m EXCEPT !.frozen = @ /\ ~(m.runner /\ player)]

\* A chaser only becomes a runner again; a runner who was not stopped has won,
\* and is no longer frozen.  In the endgame all that comes later.
endRound(m, isAbort, player) ==
  LET over == [m EXCEPT !.round = FALSE, !.timer.on = FALSE] IN
  IF m.endgame THEN over
  ELSE IF ~m.runner THEN [over EXCEPT !.runner = TRUE]
  ELSE Thaw([over EXCEPT !.scored = @ \/ ~isAbort], player)

\* A round that the other thread starts between the two assignments of "over"
\* goes on with its clock stopped.
Overtaken(m) == {[m EXCEPT !.round = TRUE, !.timer.time = RoundTime(minutes)] : minutes \in RoundLengths}
Ends(m, isAbort, player) ==
  LET over == endRound(m, isAbort, player) IN
  {over} \cup {n \in Overtaken(over) : "end" \in Overlaps}

\* Without a player there is no more than the screen that says so.
Wipeout(m, player) ==
  IF player THEN Ends([m EXCEPT !.endgame = TRUE, !.scored = @ \/ ~m.runner], FALSE, player)
  ELSE {[m EXCEPT !.endgame = TRUE]}

tryStartRecoveryEvent(m, point) == [m EXCEPT !.recovery = IF @ = "none" THEN point ELSE @]

\* The listed runners are frozen, the one the packet is about is not asked,
\* and so is this player if he is a runner; not if he would be alone.
areAllOtherRunnersFrozen(m, who) ==
  /\ Cardinality(listed) >= IF m.runner THEN 1 ELSE 2
  /\ m.runner => m.frozen
  /\ \A o \in listed \ {who} : others[o].frozen

-----------------------------------------------------------------------------
(* FreezeTagMode::update, on the game thread.                              *)

\* A survival point for every minute that ends.  Mistake: for every frame.
Survives_EveryFrame(time) == time.m <= lastTime.m /\ my.runner
Survives(time) == time.m < lastTime.m /\ my.runner

\* The buttons that matter to the clock.
Buttons == {{}} \cup {keys \in SUBSET Keys : my.timer.control}

\* The clock, which buttons may set in the frame after a load; when the time is
\* up the round ends.  Then the list of runners is cleared.
Tick(dt, keys) ==
  LET t == updateTimer(my.timer, keys, dt)
      m == [my EXCEPT !.timer = [t EXCEPT !.control = FALSE], !.scored = @ \/ Survives(t.time)]
  IN
  /\ mode = "on" /\ pc = "frame"
  /\ my' \in IF t.on /\ getTimeCombined(t) <= 0 THEN Ends(m, FALSE, TRUE) ELSE {m}
  /\ lastTime' = t.time
  /\ listed' = {}
  /\ pc' = "list"
  /\ UNCHANGED <<mode, others, slot, freezing, read>>

\* One more slot is looked at.
List ==
  /\ pc = "list"
  /\ listed' = {o \in {slot} : others[o].here /\ others[o].runner} \cup listed
  /\ IF slot = Puppets THEN pc' = "contact" /\ slot' = 1 ELSE pc' = pc /\ slot' = slot + 1
  /\ UNCHANGED <<my, mode, lastTime, others, freezing, read>>

\* An unfrozen runner touches a chaser: trySetPlayerRunnerState(FREEZE) finds
\* that he is a runner, not frozen, in a round, ...
TouchChaser ==
  /\ pc = "contact" /\ freezing = "no"
  /\ my.round /\ my.runner /\ ~my.frozen
  /\ \E o \in Others : others[o].here /\ ~others[o].runner
  /\ freezing' = "checked"
  /\ UNCHANGED <<my, mode, lastTime, others, listed, pc, slot, read>>

\* ... freezes him ...
SetFrozen ==
  /\ freezing = "checked"
  /\ my' = [my EXCEPT !.frozen = TRUE]
  /\ freezing' = "set"
  /\ UNCHANGED <<mode, lastTime, others, listed, pc, slot, read>>

\* ... and looks whether he was the last one.
CheckWipeout ==
  /\ freezing = "set"
  /\ my' \in IF areAllOtherRunnersFrozen(my, Nobody) THEN Wipeout(my, TRUE) ELSE {my}
  /\ freezing' = "no"
  /\ pc' = IF pc = "contact" /\ my.recovery # "none" THEN "recover" ELSE "finish"
  /\ UNCHANGED <<mode, lastTime, others, listed, slot, read>>

\* A frozen runner touches one that is not.
TouchRunner ==
  /\ pc = "contact" /\ freezing = "no"
  /\ my.round /\ my.frozen
  /\ \E o \in Others : others[o].here /\ others[o].runner /\ ~others[o].frozen
  /\ my' = Thaw(my, TRUE)
  /\ UNCHANGED <<mode, lastTime, others, listed, pc, slot, freezing, read>>

ContactDone ==
  /\ pc = "contact" /\ freezing = "no"
  /\ pc' = IF my.recovery = "none" THEN "finish" ELSE "recover"
  /\ UNCHANGED <<my, mode, lastTime, others, listed, slot, freezing, read>>

\* A runner who fell in a round is frozen.
Refreezes(m) == m.runner /\ m.recovery = "point" /\ m.round

\* tryEndRecoveryEvent, when the frames have been counted down.
EndRecovery ==
  /\ pc = "recover" /\ freezing = "no"
  /\ my.recovery # "none"
  /\ IF Refreezes(my)
     THEN my' = [my EXCEPT !.recovery = "none"]
     ELSE my' = [Thaw(my, TRUE) EXCEPT !.recovery = "none"]
  /\ IF Refreezes(my) /\ ~my.frozen
     THEN freezing' = "checked" /\ UNCHANGED pc
     ELSE pc' = "finish" /\ UNCHANGED freezing
  /\ UNCHANGED <<mode, lastTime, others, listed, slot, read>>

\* The recovery goes on.
GoesOn ==
  /\ pc = "recover" /\ freezing = "no"
  /\ pc' = "finish"
  /\ UNCHANGED <<my, mode, lastTime, others, listed, slot, freezing, read>>

\* After six seconds of endgame everybody is a runner, and a recovery without
\* a point to return to thaws him.  Mistake: it does not.
EndgameOver_NoRecovery(m) == [m EXCEPT !.runner = TRUE, !.endgame = FALSE]
EndgameOver(m) == tryStartRecoveryEvent([m EXCEPT !.runner = TRUE, !.endgame = FALSE], "zero")

\* What the player may press: change the team, reset the score, and as host
\* start or end a round; at most one of it in a frame.  Mistake: he may change the
\* team while he is frozen in the endgame.
MayChange_NotRecovering(m) == m.recovery = "none"
MayChange(m) == ~m.frozen /\ m.recovery = "none" /\ ~m.endgame
Pressed(m) ==
  {m}
    \cup {n \in {[m EXCEPT !.runner = ~@]} : ~m.round /\ MayChange(m)}
    \cup {n \in {[m EXCEPT !.scored = TRUE]} : MayChange(m)}
    \cup {n \in {startRound(m, minutes) : minutes \in RoundLengths} : ~m.round}
    \cup {n \in Ends(m, TRUE, TRUE) : m.round}

\* The rest of the frame: the endgame, a new score is announced, the buttons.
Finish(over) ==
  /\ pc = "finish"
  /\ over => my.endgame
  /\ my' \in Pressed([(IF over THEN EndgameOver(my) ELSE my) EXCEPT !.scored = FALSE])
  /\ pc' = "frame"
  /\ UNCHANGED <<mode, lastTime, others, listed, slot, freezing, read>>

-----------------------------------------------------------------------------
(* Between two frames of the mode, also on the game thread.                *)

\* freezeDeathArea.
FallOff ==
  /\ pc = "frame" /\ mode # "off"
  /\ ~my.endgame /\ my.recovery = "none"
  /\ my' = tryStartRecoveryEvent(my, "point")
  /\ UNCHANGED <<mode, lastTime, others, listed, pc, slot, freezing, read>>

begin ==
  /\ pc = "frame" /\ mode = "off"
  /\ mode' = "on"
  /\ my' = [my EXCEPT !.timer = [CountingDown(@) EXCEPT !.on = my.timer.on \/ my.round]]
  /\ UNCHANGED <<lastTime, others, listed, pc, slot, freezing, read>>

\* Who quits while the manager is paused stays frozen, and so he may when the
\* scene is gone.
end(isPaused, player) ==
  /\ pc = "frame" /\ mode = "on"
  /\ mode' = "off"
  /\ my' = IF isPaused THEN my ELSE Thaw(my, player)
  /\ UNCHANGED <<lastTime, others, listed, pc, slot, freezing, read>>

pause ==
  /\ pc = "frame" /\ mode = "on"
  /\ mode' = "paused"
  /\ UNCHANGED <<my, lastTime, others, listed, pc, slot, freezing, read>>

unpause ==
  /\ pc = "frame" /\ mode = "paused"
  /\ mode' = "on"
  /\ UNCHANGED <<my, lastTime, others, listed, pc, slot, freezing, read>>

\* A new stage: init makes a new clock from the one the last frame saw and
\* empty lists.  Only if the mode is active begin follows, which goes on with
\* the round; unpause leaves the clock stopped.  Mistake: begin does, too.
NewClock_Stopped(m) == [CountingDown(NewTimer(lastTime)) EXCEPT !.on = FALSE]
NewClock(m) == [CountingDown(NewTimer(lastTime)) EXCEPT !.on = m.round]
init ==
  /\ pc = "frame"
  /\ my.timer.time = lastTime \/ "load" \in Overlaps
  /\ my' = [my EXCEPT !.timer = IF mode = "on" THEN NewClock(my) ELSE NewTimer(lastTime)]
  /\ listed' = {}
  /\ UNCHANGED <<mode, lastTime, others, pc, slot, freezing, read>>

-----------------------------------------------------------------------------
(* processPacket, on the read thread.                                      *)

\* In a frame of the mode there is a player; between two there may be none.
Player == {TRUE} \cup {player \in {FALSE} : pc = "frame" /\ "gone" \in Overlaps}

\* tryScoreEvent, of a runner who freezes or thaws: the one who did it is near,
\* and with the last one the round ends.
tryScoreEvent(o, frozen, near, player) ==
  LET points == near /\ IF my.runner THEN ~my.frozen /\ ~frozen ELSE frozen
      m == [my EXCEPT !.scored = @ \/ points]
  IN IF mode = "off" \/ ~others[o].runner \/ others[o].frozen = frozen THEN {my}
     ELSE IF frozen /\ areAllOtherRunnersFrozen(m, o) THEN Wipeout(m, player)
     ELSE {m}

\* The packet of a player says that he plays Freeze-Tag.
Comes(o) == others' = [others EXCEPT ![o].here = TRUE]

PlayerPacket(o, runner, frozen, near) ==
  /\ \E player \in Player : my' \in tryScoreEvent(o, frozen, near, player)
  /\ read' = [who |-> o, runner |-> runner, frozen |-> frozen]
  /\ UNCHANGED others

\* The last part of processPacket, and what the manager notes behind it.
ApplyPlayer ==
  /\ read # NoPacket
  /\ others' = [others EXCEPT ![read.who] = [here |-> TRUE, runner |-> read.runner, frozen |-> read.frozen]]
  /\ read' = NoPacket
  /\ UNCHANGED <<my, mode, lastTime, listed, pc, slot, freezing>>

RoundPacket(o, type) ==
  /\ \/ /\ type = ROUNDSTART /\ ~my.round
        /\ \E minutes \in RoundLengths : my' = startRound(my, minutes)
     \/ /\ type = ROUNDCANCEL /\ my.round
        /\ \E player \in Player : my' \in Ends(my, TRUE, player)
     \/ /\ type = FALLOFF /\ my.round
        /\ my' = [my EXCEPT !.scored = @ \/ ~my.runner]
     \/ /\ type = ROUNDSTART <=> my.round
        /\ UNCHANGED my
  /\ Comes(o)
  /\ UNCHANGED read

\* processModePacket: what is not Freeze-Tag only shows that he left.  A packet
\* has a valid content: only runners are frozen.
Receive(o, byte) ==
  /\ read = NoPacket
  /\ IF gameMode(byte, FALSE) # FREEZETAG
     THEN /\ others' = [others EXCEPT ![o].here = FALSE]
          /\ UNCHANGED <<my, read>>
     ELSE IF updateType(byte) = PLAYER
     THEN \E runner, frozen, near \in BOOLEAN :
            (frozen => runner) /\ PlayerPacket(o, runner, frozen, near)
     ELSE RoundPacket(o, updateType(byte))
  /\ freezing = "checked" /\ my.round => my'.round \/ "freeze" \in Overlaps
  /\ UNCHANGED <<mode, lastTime, listed, pc, slot, freezing>>

\* updatePlayerConnect with PLAYERDC.
Disconnect(o) ==
  /\ read = NoPacket
  /\ others' = [others EXCEPT ![o].here = FALSE]
  /\ UNCHANGED <<my, mode, lastTime, listed, pc, slot, freezing, read>>

-----------------------------------------------------------------------------
Frame ==
  \/ \E dt \in FrameTimes, keys \in Buttons : Tick(dt, keys)
  \/ List
  \/ TouchChaser \/ SetFrozen \/ CheckWipeout \/ TouchRunner \/ ContactDone
  \/ EndRecovery \/ GoesOn
  \/ \E over \in BOOLEAN : Finish(over)
Between == FallOff \/ begin \/ (\E isPaused, player \in BOOLEAN : end(isPaused, player)) \/ pause \/ unpause \/ init
ReadThread ==
  \/ ApplyPlayer
  \/ \E o \in Active : Disconnect(o) \/ \E byte \in SentBytes : Receive(o, byte)

Next == Frame \/ Between \/ ReadThread

Spec == Init /\ [][Next]_vars

\* A packet starts the wipeout anew, and its six seconds.
Rewiped ==
  /\ my.endgame /\ read = NoPacket /\ read'.frozen
  /\ ~others[read'.who].frozen /\ areAllOtherRunnersFrozen(my, read'.who)

\* Both threads run; while frames come, seconds pass, and with them the frames
\* of a recovery and, unless it starts anew again and again, the six seconds of
\* the endgame.
FairSpec ==
  /\ Spec
  /\ WF_vars(Frame) /\ WF_vars(ApplyPlayer)
  /\ SF_vars(\E dt \in FrameTimes \ {0}, keys \in Buttons : Tick(dt, keys)) /\ SF_vars(EndRecovery)
  /\ []<><<Rewiped>>_vars \/ SF_vars(Finish(TRUE))

-----------------------------------------------------------------------------
\* Every variable keeps its shape.
TypeOK ==
  /\ my \in Mine
  /\ mode \in {"on", "paused", "off"}
  /\ lastTime \in Times
  /\ others \in [Others -> [here : BOOLEAN, runner : BOOLEAN, frozen : BOOLEAN]]
  /\ listed \subseteq Others
  /\ pc \in {"frame", "list", "contact", "recover", "finish"}
  /\ slot \in Others
  /\ freezing \in {"no", "checked", "set"}
  /\ read \in Packets

\* "Verify you are never frozen on chaser team" (FreezeTagMode.cpp:256): the
\* check there does nothing, trySetPlayerRunnerState refuses chasers; that no
\* chaser is frozen holds because no packet, button or end of a round makes a
\* frozen runner a chaser, wherever update is.
ChaserNeverFrozen == my.frozen => my.runner

\* Whoever is frozen when no round is on (in the endgame, while it fades, after
\* a fall) is thawed by what is pending, unless a new round takes him over, he
\* stops the mode or the wipeout never ends.  Holds only if no packet ends the
\* round in the middle of a freeze or while there is no player (Overlaps).
Thawed ==
  []<><<Rewiped>>_vars \/ ((my.frozen /\ ~my.round) ~> (~my.frozen \/ my.round \/ mode # "on"))

\* A round whose clock runs comes to an end by it, through new stages and
\* packets, as long as the mode runs.  (A stage loaded while the mode is paused
\* leaves a round without a running clock.)
RoundEnds == (my.round /\ my.timer.on) ~> (~my.round \/ mode # "on")

\* The round is over before the clock runs through zero.
NeverBelowZero == my.timer.time.m >= 0

\* "... to not instantly set off a score event that happens every full minute"
\* (FreezeTagModeTrigger.cpp:19): a point in the clock's part of a frame comes
\* with a minute that ended in that frame, or with the end of the round.
SurvivalEarned ==
  [][(pc = "frame" /\ pc' = "list" /\ ~my.scored /\ my'.scored)
       => (my'.timer.time.m < my.timer.time.m \/ (my.round /\ ~my'.round))]_vars

=============================================================================
