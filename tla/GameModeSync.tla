---------------------------- MODULE GameModeSync ----------------------------
(***************************************************************************)
(* Game modes of several clients: the GameModeManager of each one          *)
(* (source/server/gamemode), its tag mode (Hide & Seek, Infection and      *)
(* Sardines share this logic), and the packets by which the clients tell   *)
(* each other what they play and who is "it".                              *)
(*                                                                         *)
(* The game thread of a client runs GameModeManager::update once per frame *)
(* and initScene when a stage is loaded; its read thread runs              *)
(* processModePacket at any time in between.  Both build packets from the  *)
(* current state and queue them a moment later.  The way of a packet to    *)
(* the other clients is one ordered, reliable step (SocketClient has the   *)
(* rest), times and distances are left out: who becomes it, and when, is   *)
(* any choice.                                                             *)
(***************************************************************************)
EXTENDS Naturals, Sequences

CONSTANTS
  Clients,
  Modes,       \* the tag modes
  DefaultMode, \* HIDEANDSEEK
  FreezeTag,   \* FREEZETAG, here only a mode that nobody plays
  NoMode,      \* NONE
  MayOvertake, \* may a thread build a packet while the other one has one to queue
  MayHurry,    \* may a stage be left before its first frame
  Budgets      \* bounds: how often each kind of input may happen, see Kinds

ASSUME ModesAssumption == DefaultMode \in Modes /\ {NoMode, FreezeTag} \cap Modes = {}
ASSUME NoneAssumption == NoMode # FreezeTag
ASSUME FlagAssumption == MayOvertake \in BOOLEAN /\ MayHurry \in BOOLEAN

\* What players, the stage loader and the server do.
Kinds == {"stage", "menu", "toggle", "pause", "role", "command", "again"}

ASSUME BudgetsAssumption == \A b \in Budgets : b \in [Kinds -> Nat]

VARIABLES
  mgr,     \* per client: the members of its GameModeManager, see Managers
  it,      \* mIsPlayerIt or mIsIt of its mode's info
  loading, \* initScene has deleted the old mode and not made the new one
  theirs,  \* gameMode in its PuppetInfo of another client
  itSeen,  \* isIt in its PuppetInfo of another client
  inbox,   \* mode packets on the way to it
  read,    \* what its read thread has in hand, see Reading
  made,    \* packets a thread has built and not yet queued
  left     \* inputs of each kind still to come

vars == <<mgr, it, loading, theirs, itSeen, inbox, read, made, left>>

Managers ==
  [active : BOOLEAN, paused : BOOLEAN, wasPaused : BOOLEAN, sceneTrans : BOOLEAN,
   wasSet : BOOLEAN,
   cur : Modes, next : Modes,
   base : Modes \cup {NoMode},  \* mCurModeBase: its getMode(), NoMode for null
   on : BOOLEAN]                \* mCurModeBase->isModeActive()

\* A state packet of a client, or the server's tag command about one: an old
\* format packet without a mode.
States == [kind : {"state"}, who : Clients, mode : Modes \cup {NoMode}, it : BOOLEAN]
Tags   == [kind : {"tag"}, who : Clients, it : BOOLEAN]

\* The read thread between two packets, before processPacket with the mode
\* object it looked up, or lost because that object had been deleted.
Idle == [at |-> "idle"]
Lost == [at |-> "lost"]
Reading == {Idle, Lost} \cup [at : {"process"}, packet : States \cup Tags, base : Modes \cup {NoMode}]

Init ==
  /\ mgr = [c \in Clients |->
              [active |-> FALSE, paused |-> FALSE, wasPaused |-> FALSE, sceneTrans |-> FALSE,
               wasSet |-> TRUE, cur |-> DefaultMode, next |-> DefaultMode,
               base |-> NoMode, on |-> FALSE]]
  /\ it = [c \in Clients |-> FALSE]
  /\ loading = [c \in Clients |-> FALSE]
  /\ theirs = [c \in Clients |-> [d \in Clients |-> NoMode]]
  /\ itSeen = [c \in Clients |-> [d \in Clients |-> FALSE]]
  /\ inbox = [c \in Clients |-> <<>>]
  /\ read = [c \in Clients |-> Idle]
  /\ made = [c \in Clients |-> [game |-> <<>>, read |-> <<>>]]
  /\ left \in Budgets

Input(kinds) ==
  /\ \A k \in kinds : left[k] > 0
  /\ left' = [k \in Kinds |-> IF k \in kinds THEN left[k] - 1 ELSE left[k]]

\* The game thread is between two frames or stage loads.
Ready(c) == ~loading[c] /\ made[c].game = <<>> /\ read[c] # Lost

\* May a thread build a packet now, of which the other one has perhaps one.
MayBuild(c, other) == MayOvertake \/ made[c][other] = <<>>

-----------------------------------------------------------------------------
(* Packets.                                                                *)

\* createPacket of the current mode, nothing without one; a mode that is not
\* active answers DisabledGameModeInf.
Announcement(c, m, isIt) ==
  IF m.base = NoMode THEN <<>>
  ELSE <<[kind |-> "state", who |-> c,
          mode |-> IF m.on THEN m.base ELSE NoMode, it |-> m.on /\ isIt]>>

\* queuePacket and all the way to the others.
Deliver(c, thread) ==
  /\ made[c][thread] # <<>>
  /\ inbox' = [d \in Clients |-> IF d = c THEN inbox[d] ELSE Append(inbox[d], Head(made[c][thread]))]
  /\ made' = [made EXCEPT ![c][thread] = Tail(@)]
  /\ Input({})
  /\ UNCHANGED <<mgr, it, loading, theirs, itSeen, read>>

-----------------------------------------------------------------------------
(* GameModeManager::update, as functions of the manager.                   *)

Begins(m) ==
  (m.active /\ ~m.paused /\ ~m.wasPaused /\ ~m.on) \/ m.sceneTrans
Ends(m) == ~Begins(m) /\ ~m.active /\ m.on

BeginOrEnd(m) ==
  IF Begins(m) THEN [m EXCEPT !.on = TRUE, !.wasPaused = FALSE, !.sceneTrans = FALSE]
  ELSE IF Ends(m) THEN [m EXCEPT !.on = FALSE]
  ELSE m

\* Mistake: that it was paused is not forgotten.
PauseOrUnpause_NoReset(m) ==
  IF ~m.active THEN m
  ELSE [m EXCEPT !.on = \/ m.on /\ ~(m.paused /\ ~m.wasPaused)
                        \/ ~m.on /\ ~m.paused /\ m.wasPaused,
                 !.wasPaused = m.paused \/ @]

PauseOrUnpause(m) ==
  IF ~m.active THEN m
  ELSE [m EXCEPT !.on = \/ m.on /\ ~(m.paused /\ ~m.wasPaused)
                        \/ ~m.on /\ ~m.paused /\ m.wasPaused,
                 !.wasPaused = m.paused]

\* One frame: setPaused, update, and in the mode's own update perhaps a change
\* of who is it (updateTagState), which is announced.
Frame(c, p, newIt) ==
  LET m0 == [mgr[c] EXCEPT !.paused = p]
      m1 == BeginOrEnd(m0)
      m2 == PauseOrUnpause(m1)
      tagged == newIt # it[c]
  IN
  /\ Ready(c) /\ MayBuild(c, "read")
  /\ mgr[c].base # NoMode
  /\ p # mgr[c].paused \/ tagged \/ m2 # m0
  /\ tagged => m2.on
  /\ mgr' = [mgr EXCEPT ![c] = m2]
  /\ it' = [it EXCEPT ![c] = newIt]
  /\ made' = [made EXCEPT ![c].game =
       (IF Begins(m0) \/ Ends(m0) THEN Announcement(c, m1, it[c]) ELSE <<>>)
       \o (IF tagged THEN Announcement(c, m2, newIt) ELSE <<>>)]
  /\ Input((IF p # mgr[c].paused THEN {"pause"} ELSE {}) \cup (IF tagged THEN {"role"} ELSE {}))
  /\ UNCHANGED <<loading, theirs, itSeen, inbox, read>>

ToggleActive(c) ==
  /\ Ready(c)
  /\ mgr' = [mgr EXCEPT ![c].active = ~@]
  /\ Input({"toggle"})
  /\ UNCHANGED <<it, loading, theirs, itSeen, inbox, read, made>>

\* setMode, from the menu.
SetMode(c, mode) ==
  /\ Ready(c)
  /\ mode # mgr[c].next
  /\ mgr' = [mgr EXCEPT ![c].next = mode, ![c].cur = IF mgr[c].wasSet THEN mode ELSE @]
  /\ Input({"menu"})
  /\ UNCHANGED <<it, loading, theirs, itSeen, inbox, read, made>>

\* The stage that is left has had a frame, in which its mode was begun.
Begun(c) == MayHurry \/ ~mgr[c].sceneTrans

\* initScene: first the mode that is to be replaced is deleted, ...
DeleteMode(c) ==
  /\ Ready(c) /\ Begun(c)
  /\ mgr[c].base # NoMode
  /\ mgr[c].cur # mgr[c].next
  /\ mgr' = [mgr EXCEPT ![c].base = NoMode, ![c].on = FALSE]
  /\ loading' = [loading EXCEPT ![c] = TRUE]
  /\ Input({"stage"})
  /\ UNCHANGED <<it, theirs, itSeen, inbox, read, made>>

\* A new mode object, to be begun in the next frame.
Fresh(m) ==
  [m EXCEPT !.cur = m.next, !.base = m.next, !.on = FALSE, !.wasSet = FALSE,
            !.sceneTrans = TRUE, !.wasPaused = FALSE]

\* ... then the new one is made, with new info (nobody is it); a mode that
\* stays is initialised again and, if it is active, begun again.
InitScene(c) ==
  /\ loading[c] \/ (Ready(c) /\ Begun(c) /\ (mgr[c].base = NoMode \/ mgr[c].cur = mgr[c].next))
  /\ read[c] # Lost
  /\ loading' = [loading EXCEPT ![c] = FALSE]
  /\ IF mgr[c].cur # mgr[c].next \/ mgr[c].wasSet
     THEN /\ mgr' = [mgr EXCEPT ![c] = Fresh(@)]
          /\ it' = [it EXCEPT ![c] = FALSE]
     ELSE /\ mgr' = [mgr EXCEPT ![c].sceneTrans = @ \/ mgr[c].on]
          /\ UNCHANGED it
  /\ IF loading[c] THEN Input({}) ELSE Input({"stage"})
  /\ UNCHANGED <<theirs, itSeen, inbox, read, made>>

-----------------------------------------------------------------------------
(* processModePacket, on the read thread.                                  *)

\* Mistake: an old format update is for any mode, whoever it is about.
ModeOf_Legacy(c, p) == IF p.kind = "state" THEN p.mode ELSE "any"

\* gameMode(): an update about another player in the old format is taken for
\* a Freeze-Tag one, an update about this player is for any mode.
ModeOf(c, p) == CASE p.kind = "state" -> p.mode
                  [] p.kind = "tag" -> IF p.who = c THEN "any" ELSE FreezeTag

IsOurs(c, p, base) == base # NoMode /\ ModeOf(c, p) \in {"any", base}

\* The mode object is looked up.
LookUp(c) ==
  /\ read[c] = Idle
  /\ inbox[c] # <<>>
  /\ made[c].read = <<>>
  /\ read' = [read EXCEPT ![c] = [at |-> "process", packet |-> Head(inbox[c]), base |-> mgr[c].base]]
  /\ inbox' = [inbox EXCEPT ![c] = Tail(@)]
  /\ Input({})
  /\ UNCHANGED <<mgr, it, loading, theirs, itSeen, made>>

\* Mistake: nobody answers a client that has come to our mode.
Answer_Never(c, p, ours) == <<>>

\* A client that has come to our mode is told what we are.
Answer(c, p, ours) ==
  IF ours /\ theirs[c][p.who] # ModeOf(c, p)
  THEN Announcement(c, mgr[c], it[c]) ELSE <<>>

\* The packet is about another player: note if he is it, and what he plays.
ProcessOther(c, p, ours) ==
  /\ p.who # c
  /\ itSeen' = [itSeen EXCEPT ![c][p.who] = ours /\ p.it]
  /\ theirs' = [theirs EXCEPT ![c][p.who] = ModeOf(c, p)]
  /\ made' = [made EXCEPT ![c].read = Answer(c, p, ours)]
  /\ UNCHANGED it

\* The packet is about this player: updateTagState, which announces it.
ProcessOwn(c, p, ours) ==
  /\ p.who = c
  /\ IF ours THEN /\ it' = [it EXCEPT ![c] = p.it]
                  /\ made' = [made EXCEPT ![c].read = Announcement(c, mgr[c], p.it)]
             ELSE UNCHANGED <<it, made>>
  /\ UNCHANGED <<theirs, itSeen>>

Process(c) ==
  /\ read[c].at = "process" /\ MayBuild(c, "game")
  /\ LET p == read[c].packet
         ours == IsOurs(c, p, read[c].base)
     IN \/ /\ ours => read[c].base = mgr[c].base
           /\ ProcessOther(c, p, ours) \/ ProcessOwn(c, p, ours)
           /\ read' = [read EXCEPT ![c] = Idle]
        \/ /\ ours /\ read[c].base # mgr[c].base   \* a deleted object is called
           /\ read' = [read EXCEPT ![c] = Lost]
           /\ UNCHANGED <<it, theirs, itSeen, made>>
  /\ Input({})
  /\ UNCHANGED <<mgr, loading, inbox>>

\* PLAYERCON of some player, or resendInitPackets after a reconnect.
Reannounce(c) ==
  /\ read[c] = Idle /\ MayBuild(c, "game")
  /\ made[c].read = <<>>
  /\ made' = [made EXCEPT ![c].read = Announcement(c, mgr[c], it[c])]
  /\ Input({"again"})
  /\ UNCHANGED <<mgr, it, loading, theirs, itSeen, inbox, read>>

\* The server's tag command makes c it or not; everybody is told.
ServerTag(c, isIt) ==
  /\ inbox' = [d \in Clients |-> Append(inbox[d], [kind |-> "tag", who |-> c, it |-> isIt])]
  /\ Input({"command"})
  /\ UNCHANGED <<mgr, it, loading, theirs, itSeen, read, made>>

-----------------------------------------------------------------------------
GameThread(c) ==
  \/ \E p, newIt \in BOOLEAN : Frame(c, p, newIt)
  \/ ToggleActive(c) \/ DeleteMode(c) \/ InitScene(c)
  \/ \E mode \in Modes : SetMode(c, mode)
  \/ Deliver(c, "game")
ReadThread(c) == LookUp(c) \/ Process(c) \/ Reannounce(c) \/ Deliver(c, "read")

Next ==
  \E c \in Clients :
    GameThread(c) \/ ReadThread(c) \/ \E isIt \in BOOLEAN : ServerTag(c, isIt)

Spec == Init /\ [][Next]_vars

\* A frame in which the player does nothing.
IdleFrame(c) == Frame(c, mgr[c].paused, it[c])

\* Both threads run; a frame comes again and again.
FairSpec ==
  /\ Spec
  /\ \A c \in Clients :
       /\ WF_vars(IdleFrame(c)) /\ WF_vars(Deliver(c, "game")) /\ WF_vars(loading[c] /\ InitScene(c))
       /\ WF_vars(LookUp(c) \/ Process(c) \/ Deliver(c, "read"))

-----------------------------------------------------------------------------
\* Every variable keeps its shape.
TypeOK ==
  /\ mgr \in [Clients -> Managers]
  /\ it \in [Clients -> BOOLEAN]
  /\ loading \in [Clients -> BOOLEAN]
  /\ theirs \in [Clients -> [Clients -> Modes \cup {NoMode, FreezeTag}]]
  /\ itSeen \in [Clients -> [Clients -> BOOLEAN]]
  /\ inbox \in [Clients -> Seq(States \cup Tags)]
  /\ read \in [Clients -> Reading]
  /\ made \in [Clients -> [game : Seq(States), read : Seq(States)]]
  /\ left \in [Kinds -> Nat]

\* Every client is in a stage, no packet is on the way, no thread has one in
\* hand, no mode waits to begin or to end.
Settled ==
  \A c \in Clients :
    /\ mgr[c].base # NoMode /\ ~loading[c]
    /\ inbox[c] = <<>> /\ read[c] = Idle
    /\ made[c].game = <<>> /\ made[c].read = <<>>
    /\ ~Begins(mgr[c]) /\ ~Ends(mgr[c])

\* d knows what c plays and, if it is d's mode too, whether c is it.
Knows(d, c) ==
  /\ theirs[d][c] = IF mgr[c].on THEN mgr[c].base ELSE NoMode
  /\ mgr[c].on /\ mgr[c].base = mgr[d].base => itSeen[d][c] = it[c]

\* The handshake of processModePacket ("when they changed to our mode, resend
\* our game mode info") is enough: however the players begin and quit modes,
\* change them with the stage, become it or are made it by the server, once all
\* is quiet everybody knows who plays what and who is it.  Holds as long as no
\* packet is lost (no connection breaks, no send or receive queue is full: the
\* network of this module is reliable), nobody pauses (no pause in Budgets), no
\* packet of one thread overtakes one of the other (MayOvertake) and every stage
\* has a frame, in which its mode is announced (MayHurry).
AllKnow == Settled => \A c, d \in Clients : c # d => Knows(d, c)

\* In the end a client's mode is on exactly when its player has it activated
\* and has not paused, whatever was toggled while paused or between stages.
ModeFollowsPlayer ==
  \A c \in Clients :
    <>[](read[c] # Lost /\ mgr[c].base # NoMode
           => (mgr[c].on <=> mgr[c].active /\ ~mgr[c].paused))

=============================================================================
