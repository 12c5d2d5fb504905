---------------------------- MODULE PuppetTable ----------------------------
(***************************************************************************)
(* The client's table of the other players: mPuppetInfoArr, maxPuppets and *)
(* mConnectCount (source/server/Client.cpp), and the puppets shown for it  *)
(* (source/puppets/PuppetHolder.cpp).                                      *)
(*                                                                         *)
(* The read thread runs the packet handlers: one action each, whatever     *)
(* packet comes (PuppetSync says which packets a server sends).  The game  *)
(* thread goes through the puppets once per frame; per puppet it first     *)
(* reads the slot and then writes it, and a handler may come in between.   *)
(*                                                                         *)
(* Of a player's data only what the table's own logic reads is kept: the   *)
(* stage.  A scenario below 15 is not compared (checkInfoIsInStage).       *)
(***************************************************************************)
EXTENDS Naturals, Integers, FiniteSets

CONSTANTS
  Players,    \* user ids of other players
  NoOne,      \* the all-zero id of a slot never used
  Stages,     \* stage names
  NoStage,    \* the empty stage name
  MaxSlots,   \* MAXPUPINDEX
  Limits,     \* values maxPuppets takes: maxPlayers - 1 of a CLIENTINIT
  HolderCap,  \* capacity of mPuppetArr: maxPuppets when the Client was made
  MayShrink,  \* may a later CLIENTINIT lower the limit
  LowestCount \* bound: mConnectCount is followed down to here

ASSUME SlotsAssumption == MaxSlots \in Nat /\ HolderCap \in 0..MaxSlots
ASSUME LimitsAssumption == Limits \subseteq 0..MaxSlots /\ Limits # {}
ASSUME NoOneAssumption == NoOne \notin Players
ASSUME NoStageAssumption == NoStage \notin Stages
ASSUME ShrinkAssumption == MayShrink \in BOOLEAN
ASSUME CountAssumption == LowestCount \in Int

VARIABLES
  id,       \* PuppetInfo::playerID
  conn,     \* PuppetInfo::isConnected
  stage,    \* PuppetInfo::stageName
  inSame,   \* PuppetInfo::isInSameStage
  limit,    \* maxPuppets
  count,    \* mConnectCount
  myStage,  \* PuppetHolder::mStageName
  puppets,  \* number of registered puppets; puppet i shows slot i
  shown,    \* puppets that are alive
  scan,     \* puppet the game thread is at, 0 between frames
  step,     \* what it does next to that puppet
  verdict   \* what checkInfoIsInStage answered for it

table == <<id, conn, stage, limit, count>>
frame == <<scan, step, verdict>>
scene == <<inSame, myStage, puppets, shown, frame>>
vars == <<table, scene>>

Slots == 1..MaxSlots

\* Mistake: findPuppetInfo looks at getMaxPlayerCount() slots.
InRange_OffByOne == {i \in Slots : i <= limit + 1}

\* The slots findPuppetInfo looks at: getMaxPlayerCount() - 1 = maxPuppets.
InRange == {i \in Slots : i <= limit}

Init ==
  /\ id = [i \in Slots |-> NoOne]
  /\ conn = [i \in Slots |-> FALSE]
  /\ stage = [i \in Slots |-> NoStage]
  /\ inSame = [i \in Slots |-> FALSE]
  /\ limit \in Limits
  /\ count = 0
  /\ myStage \in Stages
  /\ puppets = 0
  /\ shown = {}
  /\ scan = 0
  /\ step = "check"
  /\ verdict = FALSE

-----------------------------------------------------------------------------
(* findPuppetInfo                                                          *)

First(S) == {i \in S : \A j \in S : i <= j}

Known(p) == {i \in InRange : id[i] = p}
Free == {i \in InRange : ~conn[i]}

\* The slot findPuppetInfo answers for p, if any: the first with p's id, else,
\* if asked for, the first one that is not connected.
Found(p) == First(Known(p))

\* Mistake: the first slot that fits either way.
FoundOrFree_First(p) == First(Known(p) \cup Free)

FoundOrFree(p) == IF Known(p) # {} THEN Found(p) ELSE First(Free)

-----------------------------------------------------------------------------
(* Packet handlers, on the read thread.                                    *)

\* Mistake: a PLAYERCON of a connected player counts again.
PlayerCon_CountsAgain(p) ==
  /\ IF FoundOrFree(p) # {}
     THEN \E i \in FoundOrFree(p) :
            /\ id' = [id EXCEPT ![i] = p]
            /\ conn' = [conn EXCEPT ![i] = TRUE]
            /\ count' = count + 1
     ELSE UNCHANGED <<id, conn, count>>
  /\ UNCHANGED <<stage, limit, scene>>

\* Mistake: the slot keeps the id of the player it had before.
PlayerCon_KeepsId(p) ==
  /\ IF \E i \in FoundOrFree(p) : ~conn[i]
     THEN \E i \in FoundOrFree(p) :
            /\ id' = [id EXCEPT ![i] = IF @ = NoOne THEN p ELSE @]
            /\ conn' = [conn EXCEPT ![i] = TRUE]
            /\ count' = count + 1
     ELSE UNCHANGED <<id, conn, count>>
  /\ UNCHANGED <<stage, limit, scene>>

\* updatePlayerConnect
PlayerCon(p) ==
  /\ IF \E i \in FoundOrFree(p) : ~conn[i]
     THEN \E i \in FoundOrFree(p) :
            /\ id' = [id EXCEPT ![i] = p]
            /\ conn' = [conn EXCEPT ![i] = TRUE]
            /\ count' = count + 1
     ELSE UNCHANGED <<id, conn, count>>
  /\ UNCHANGED <<stage, limit, scene>>

\* Mistake: the player is not counted off.
PlayerDC_StaysCounted(p) ==
  /\ count > LowestCount
  /\ conn' = [i \in Slots |-> conn[i] /\ i \notin Found(p)]
  /\ UNCHANGED <<id, stage, inSame, limit, count, myStage, puppets, shown, frame>>

\* disconnectPlayer; the id stays in the slot.
PlayerDC(p) ==
  /\ count > LowestCount
  /\ IF \E i \in Found(p) : conn[i]
     THEN \E i \in Found(p) :
            /\ conn' = [conn EXCEPT ![i] = FALSE]
            /\ stage' = [stage EXCEPT ![i] = NoStage]
            /\ inSame' = [inSame EXCEPT ![i] = FALSE]
            /\ count' = count - 1
     ELSE UNCHANGED <<conn, stage, inSame, count>>
  /\ UNCHANGED <<id, limit, myStage, puppets, shown, frame>>

\* updatePlayerInfo: a slot with the sender's id becomes connected.
PlayerInf(p) ==
  /\ conn' = [i \in Slots |-> conn[i] \/ i \in Found(p)]
  /\ UNCHANGED <<id, stage, limit, count, scene>>

\* updateGameInfo; a name of at most three characters changes no stage.
GameInf(p, s) ==
  /\ stage' = [i \in Slots |-> IF i \in Found(p) /\ conn[i] /\ s # NoStage THEN s ELSE stage[i]]
  /\ UNCHANGED <<id, conn, limit, count, scene>>

\* CLIENTINIT
ClientInit(n) ==
  /\ MayShrink \/ n >= limit
  /\ limit' = n
  /\ UNCHANGED <<id, conn, stage, count, scene>>

-----------------------------------------------------------------------------
(* The game thread.                                                        *)

Lesser(a, b) == IF a <= b THEN a ELSE b

\* Mistake: the holder takes every puppet.
StageInit_NoCap(s) ==
  /\ scan = 0
  /\ myStage' = s
  /\ puppets' = limit + 1
  /\ shown' = {}
  /\ UNCHANGED <<table, inSame, frame>>

\* stageInitHook and initPuppetActors: a scene starts with new, dead puppets,
\* one per player but no more than the holder has room for.
StageInit(s) ==
  /\ scan = 0
  /\ myStage' = s
  /\ puppets' = Lesser(limit + 1, HolderCap)
  /\ shown' = {}
  /\ UNCHANGED <<table, inSame, frame>>

\* checkInfoIsInStage
IsInStage(i) == conn[i] /\ stage[i] = myStage

\* PuppetHolder::update goes to its next puppet and asks, ...
HolderCheck ==
  /\ step = "check"
  /\ scan < puppets
  /\ scan' = scan + 1
  /\ verdict' = IsInStage(scan + 1)
  /\ step' = "write"
  /\ UNCHANGED <<table, inSame, myStage, puppets, shown>>

\* Mistake: a puppet once out of the stage stays out.
HolderWrite_OnlyClears ==
  /\ step = "write"
  /\ inSame' = [inSame EXCEPT ![scan] = @ /\ verdict]
  /\ step' = "show"
  /\ UNCHANGED <<table, myStage, puppets, shown, scan, verdict>>

\* ... writes the answer into the slot, ...
HolderWrite ==
  /\ step = "write"
  /\ inSame' = [inSame EXCEPT ![scan] = verdict]
  /\ step' = "show"
  /\ UNCHANGED <<table, myStage, puppets, shown, scan, verdict>>

\* Mistake: a puppet is woken up but never killed.
HolderShow_NoKill ==
  /\ step = "show"
  /\ shown' = IF inSame[scan] THEN shown \cup {scan} ELSE shown
  /\ scan' = IF scan = puppets THEN 0 ELSE scan
  /\ step' = "check"
  /\ UNCHANGED <<table, inSame, myStage, puppets, verdict>>

\* ... and wakes or kills the actor by what the slot now says.
HolderShow ==
  /\ step = "show"
  /\ shown' = IF inSame[scan] THEN shown \cup {scan} ELSE shown \ {scan}
  /\ scan' = IF scan = puppets THEN 0 ELSE scan
  /\ step' = "check"
  /\ UNCHANGED <<table, inSame, myStage, puppets, verdict>>

-----------------------------------------------------------------------------
Handler ==
  \/ \E p \in Players : PlayerCon(p) \/ PlayerDC(p) \/ PlayerInf(p)
  \/ \E p \in Players, s \in Stages \cup {NoStage} : GameInf(p, s)
  \/ \E n \in Limits : ClientInit(n)

Update == HolderCheck \/ HolderWrite \/ HolderShow
Game == Update \/ \E s \in Stages : StageInit(s)

Next == Handler \/ Game

Spec == Init /\ [][Next]_vars

\* The game calls Client::update in every frame.
FairSpec == Spec /\ WF_vars(Update)

-----------------------------------------------------------------------------
\* Every variable keeps its shape, and no puppet of the running frame is one
\* that is not there.
TypeOK ==
  /\ id \in [Slots -> Players \cup {NoOne}]
  /\ conn \in [Slots -> BOOLEAN]
  /\ stage \in [Slots -> Stages \cup {NoStage}]
  /\ inSame \in [Slots -> BOOLEAN]
  /\ limit \in Limits
  /\ count \in Int
  /\ myStage \in Stages
  /\ puppets \in 0..HolderCap
  /\ shown \subseteq 1..puppets
  /\ scan \in 0..puppets
  /\ step \in {"check", "write", "show"}
  /\ verdict \in BOOLEAN
  /\ step # "check" => scan > 0

ConnectedSlots == {i \in Slots : conn[i]}
ConnectedIds == {id[i] : i \in ConnectedSlots}

\* Whatever packets come in whatever order, no player ever occupies two slots
\* (findPuppetInfo looks for the id before it offers a free slot).  Holds as
\* long as no CLIENTINIT lowers the limit.
OneSlotPerPlayer == \A i, j \in Slots : id[i] = id[j] /\ id[i] # NoOne => i = j

\* Beyond the limit every slot is as it was made: no player is stranded in a
\* slot findPuppetInfo does not look at.
NobodyBeyondLimit == \A i \in Slots : i > limit => id[i] = NoOne /\ ~conn[i]

\* The number on the HUD (mConnectCount) is never more than the number of
\* connected slots, whatever packets come and however the limit changes.
CountNeverOverstates == count <= Cardinality(ConnectedSlots)

\* The puppet of a player that is gone or in another stage disappears, also
\* when his packet came between the check and the write of the same frame.
AbsentAreHidden == \A i \in Slots : <>[](~IsInStage(i)) => <>[](i \notin shown)

\* A player that stays in this stage is seen, if his slot has a puppet.
PresentAreShown ==
  \A i \in Slots : <>[](i <= puppets /\ IsInStage(i)) => []<>(i \in shown)

=============================================================================
