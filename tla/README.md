# SMOO-Plus: a TLA+ verification project

SMOO-Plus is a mod of Super Mario Odyssey that lets several players see each other
over a network. This directory models the parts of its code (`src/source`,
`src/include`) that keep state between threads, clients and frames, checks them with
TLC and proves theorems about them with TLAPS. All paths below are relative to
`src/`; `PROJECT.json` maps every definition to the lines it models.

## 1. Inventory

A game process has four threads that matter here: the **game thread** (hooks in
`source/main.cpp`, once per frame and at stage loads), the **read thread**
(`Client::readFunc`: handles received packets), the **receive thread** and the
**send thread** (`SocketClient::recvFunc`, `sendFunc`). Almost nothing is locked:
they share the members of `Client`, `SocketClient`, `GameModeManager` and the puppet
infos. A server, which is not in this repository, relays packets between the
clients.

| component | state | operations | interacts with |
|---|---|---|---|
| Socket layer (`SocketClient.cpp`, `SocketBase.cpp`) | state, descriptors, two bounded queues, threads | `init`, `tryReconnect`, `closeSocket`, `queuePacket`, `send`, `recv`, `recvTcp`, `recvUdp`, `sendFunc`, `recvFunc` | queues to game and read thread; calls `Client::resendInitPackets` |
| Client, connection (`Client.cpp`) | first-connect flag, backups of sent packets | `startConnection`, `readFunc`, `resendInitPackets`, the `send…Packet` functions, keyboard | runs `init`, dispatches packets to all parts below |
| Table of players (`Client.cpp`, `PuppetInfo.h`) | `mPuppetInfoArr`, `maxPuppets`, `mConnectCount` | `findPuppetInfo`, `updatePlayerConnect`, `disconnectPlayer`, `updatePlayerInfo`, `updateGameInfo`, CLIENTINIT | read by the puppets, the modes, the HUD |
| PuppetHolder (`PuppetHolder.cpp`) | registered puppets, stage | registration, `update`, `checkInfoIsInStage` | reads and writes the table |
| Moon sharing (`Client.cpp`, `main.cpp`) | `curCollectedShines`, its count, last reported shine, save file | `sendShineCollectPacket`, `updateShineInfo`, `updateShines`, `resetCollectedShines` | read and game thread of every client |
| GameModeManager (`gamemode/GameModeManager.cpp`) | mode object, active/paused flags, next mode | `update`, `begin`, `end`, `pause`, `setMode`, `initScene`, `processModePacket` | menu, stage loader, mode object, read thread |
| Tag modes (`hns`, `inf`, `sardines`) | who is it; the other's mode and role in the table | `processPacket`, `createPacket`, `updateTagState` | GameModeManager |
| GameModeInf codec (`include/packets/GameModeInf.h`) | none | mode and update type in one byte, legacy format | packets of all modes |
| Freeze-Tag (`freeze-tag/*`) | rounds, freezing, endgame, score | triggers and `update` | GameModeManager, table |
| GameModeTimer | minutes, seconds, fractions | `updateTimer`, `setTime`, `timerControl` | modes |
| Puppet actors, capture sync (`PuppetActor.cpp`, `HackModelHolder.cpp`, `captureSync.cpp`) | current model, capture and 2D flag | `control`, `changeModel`, `setCapture`, `getCurrentModel` | table |
| Sending of captures, game and other info (`main.cpp`, `Client.cpp`) | last packets sent, `isSentCaptureInf`, first-connect flag | `sendCaptureInfPacket`, `sendGameInfPacket`, the answer to PLAYERCON | socket layer, player |
| Settings menu and keyboard (`StageSceneStateServerConfig.cpp`, `Keyboard.cpp`) | menu position, save file | set server, set mode, reconnect | Client, GameModeManager |
| Layouts, name tags, cameras, logger, speedboot, scripts | display and tools | – | read only |

What is hard in it:

* *Three threads reconnect.* Whichever of read, receive and send thread sees an
  error runs `tryReconnect` on the shared members; a failing greeting reconnects
  again from inside `init`.
* *Ownership by hand.* A packet goes from its maker over a queue to the thread that
  frees it, with refusals and errors in between.
* *Check and act are two steps*: `isFull`/`push`, the state of the socket and its
  `Close`, `checkInfoIsInStage`/write, the count of shines, build and queue a mode
  packet.
* *Late, lost and repeated packets*: PLAYERINF may come by UDP; a full receive queue
  drops whatever comes, while the read thread sleeps; a reconnect loses what was
  under way and the table is kept.
* *Copies of what was sent* are sent again to newcomers and after a reconnect, by
  other threads, while the packet they copy is still queued or was refused.
* *A stream without marks*: packets are cut out of the bytes of a connection by the
  sizes in their headers, in pieces as the network gives them, while another thread
  may replace the connection.
* *Sequences nobody scripts*: toggles, pauses, mode and stage changes in any order;
  two clients that come to a mode at the same time.

What makes each part correct, and the properties that say so:

* socket layer – one owner per packet (`PacketOwnership`), nothing received is
  leaked (`ReceivedNeverLost`, `RecvPushSucceeds`), CONNECTED is true of the socket
  (`ConnectedIsReal`), blocked threads are woken (`WakesReader`, `WakesSender`), a
  lost connection comes back (`LoneReconnectSucceeds`), packets are cut whole out of
  the stream (`ImplementsPacketStream`) unless for known reasons (`StrayCauses`),
  what is copied fits what was allocated (`CopiesFit`), and the end of the stream is
  noticed (`ServerCloseNoticed`);
* table and holder – one slot per player (`OneSlotPerPlayer`), nobody where he is
  not looked for (`NobodyBeyondLimit`), a HUD that does not overstate
  (`CountNeverOverstates`), exact when all is delivered (`InSync`,
  `ImplementsDelayedView`), nobody missing after an outage (`EveryoneKnown`),
  puppets that follow the table (`PresentAreShown`, `AbsentAreHidden`,
  `GoneVanish`);
* moons – inside the array (`TypeOK` of `ShineSync`), shared in the end
  (`SharedUnlessOverlap`);
* modes – all know who plays what and who is it (`AllKnow`), and the mode does what
  its player last asked for (`ModeFollowsPlayer`);
* Freeze-Tag – no frozen chaser (`ChaserNeverFrozen`), nobody left frozen after a
  round (`Thawed`), rounds that end (`RoundEnds`) on a clock that stops in time
  (`NeverBelowZero`), points that were earned (`SurvivalEarned`); the byte of its
  packets is read back as written (theorem `RoundTrip`);
* actors and capture sync – one model per puppet (`OneModel`), the right one after a
  stage load (`FreshShown`), and what a player has captured and whether he is flat
  known to the others in spite of full queues, breaks and overtaking backups, but
  for gaps that are named (`CaptureKnown`, `DimensionKnown`, `PlainSeen`).

`PROJECT.json` lists the hazards line by line.

## 2. Plan

Modules, the most important behaviour first; 1–9 are built.

1. `SocketClient` – threads, queues, reconnects. Safety proved.
2. `PuppetTable`, `PuppetSync` (table with server and network), `DelayedView` (its
   abstract specification). Safety proved.
3. `ShineSync` – moons on all clients. Safety proved.
4. `GameModeSync` – managers and tag modes of several clients. Safety proved.
5. `GameModeTimer` – the clock, as `FreezeTag` uses it. Proved there.
6. `FreezeTag` – rounds, freezing and thawing, endgame, recovery, score of one
   client with two threads. Safety proved.
7. `GameModeInf` – the byte of mode and update type, with its two old formats.
   Proved.
8. `PuppetModel` – which model an actor shows. Safety proved.
9. What a connection is made of: the first-connect flag and the caches of captures
   and dimension in `AvatarSync`, which composes the sending client, the network and
   `PuppetModel`; packets in the stream of bytes in `TcpFraming`, with
   `PacketStream` as its abstract specification. Safety proved. Left: the UDP hole
   punch.
10. `System` – several clients composed from 1, 2 and 4 with one server, and two
    Freeze-Tag clients with the packets between them. Left.

Every safety property of the runs is a theorem. Theorems still worth proving:
`AllKnow` with pauses, for which the code would have to announce the end of a pause;
what is left true of the table after a limit was lowered; and the invariants of
`System`, once it is built.

## 3. Modules and code

### SocketClient

`pc[t]` is where thread t is in its function, between two accesses to shared state;
`cur[t]` is the packet it received or popped and must free, `out[t]` the one it is
handing to `queuePacket`; `frames[t]` the stack of `init` calls whose greeting
failed and called `tryReconnect`; `kept` the packet that `sendCaptureInfPacket`
reads once more when it is queued. Three threads may be in `closeSocket` and `init`
at once, each with the members the others replace; the history variable `crossed`
says that two were, and no thread has opened a socket alone since.

| actions | code |
|---|---|
| `CloseQueue`, `CloseTest`, `CloseSocket`, `Closed` | `tryReconnect`, `closeSocket`, `SocketBase::closeSocket`: queue, test, `Close`, state |
| `InitSocket`, `Connect`, `OpenUdp`, `OpenQueue`, `SayConnected`, `InitFails` | `init` from top to bottom: `Socket`, `Connect`, the UDP socket, queue, state; its error returns |
| `StartThreads`, `Greet`, `Resend` | the rest of `init`, `startThreads`, `Client::resendInitPackets` |
| `QueueCheck`, `QueuePush` | `queuePacket`: the test, then the push |
| `GamePacket`, `CopyPacket` | the game thread sends; the copy that follows in `sendCaptureInfPacket` |
| `SendPop`, `SendPacket`, `SendFree` | `sendFunc`, `trySendQueue`, `send` |
| `RecvError`, `RecvPacket`, `RecvAdmit`, `RecvPut`, `RecvTest`, `RecvWakeSend`, `RecvWakeRecv` | `recv`, `recvTcp`, `recvUdp`, `recvFunc` |
| `ReadBegin` … `ReadRelease` | `startConnection`, `readFunc` with the answer to PLAYERCON |
| `ServerDrops`, `NetworkDown`, `NetworkUp` | the environment |

Abstractions: a packet is the storage it lives in, not its bytes. Failed greetings
call `tryReconnect` within each other as deep as the stack goes (`MaxNested`); how
often threads cross is bounded (`MaxCrossings`). The test of the network at
`SocketClient.cpp:50` is left out, because every build defines `EMU`
(`MakefileNSO:64`). The three sends of a greeting are one step (`Greet`), as all of
them end the same way. A failed UDP send is not told apart from a failed TCP send.
Descriptors are numbers given out again after a Close; which free one `Socket()`
answers is left to the system (`NewFd`). `sendFunc` tests and pops in one step,
because nobody else takes from the queue.

### TcpFraming, PacketStream

`TcpFraming` is `recv` and `recvTcp` with the bytes left out of `SocketClient`. A
byte is a cell that knows its packet and its place in it (`wire`, `coming`); the
code reads a size only when a whole header is in its buffer (`Claims`), and anything
else that is taken for a header says any size and type. The size in a header is a
signed short (`Packet.h:66`), so that the size of the packet may come out smaller
than its header; such a size passes the test at `SocketClient.cpp:302` and the whole
header is copied into the smaller buffer (`:324`).

| actions | code |
|---|---|
| `Poll` | `recv` up to the call of `recvTcp` |
| `ReadHeader`, `HeaderRead` | the first loop of `recvTcp`, the test of the size, the allocation |
| `ReadBody`, `Deliver` | the second loop; the test of the type, push or free |
| `Retry`, `Reopen` | `tryReconnect` on this thread: `closeSocket`, `init` |
| `CloseElsewhere`, `OpenElsewhere` | the same on the thread whose `Send` has failed |
| `Take` | `tryGetPacket` |
| `Arrive`, `Break`; `Reads`, `Fails` | the network; what `Recv` answers |

`Recv` gives any part of what is there. When there is nothing, the console build
waits and the emulator build (`MSG_DONTWAIT`, `SocketBase.cpp:10`) gets EAGAIN; at
the end of the stream it answers 0 and leaves the last error as it was. `fd` is
noted at the start of `recvTcp`; if another thread replaces the connection, the new
socket has the same number or another (`mine`). The thread's end is in
`SocketClient`; here it goes on trying.

`PacketStream` is the promise: some packets are lost, those handed over are whole,
each once and in order, except while the reader is `astray`. `TcpFraming` implements
it with `astray <- ~InStep`: the buffer is the beginning of a packet and the next
byte goes on with it.

### PuppetTable, PuppetSync, DelayedView

`PuppetTable` has one action per packet handler and the frame of
`PuppetHolder::update` as three steps per puppet (`HolderCheck`, `HolderWrite`,
`HolderShow`), so that a handler can come between the check and the write.
`StageInit` is a stage load: new puppets, all dead, one per player up to the
holder's capacity. A slot keeps id, connected flag, stage and `isInSameStage`; the
scenario number below 15 is not compared by the code, and position, costume, capture
and cap fields do not decide anything here.

`PuppetSync` adds the server and the connection: an ordered sequence of packets
(`tcp`), a set of UDP packets that may be lost, repeated and late (`udp`), and
`Outage`, after which the server says how many players it takes (CLIENTINIT) and
announces everybody again, and the table stays; what was in the receive queue by
then, a beginning of `tcp`, is still handled. `RefuseTcp` is the end of `recvTcp` at
a full or closed queue (`SocketClient.cpp:348-352`), on a connection that lives:
nobody is told. `lost` and `missed` note which announcements were refused. The
server is external; it is modelled as the client relies on it (announce, forward).
`DelayedView` is the abstract promise: a set that changes, announcements of the
changes in order, a view that applies them, until one is lost (`Lose`) and nothing
is promised any more (`Adrift`). `PuppetSync` on an ordered connection implements it
under `view <- ConnectedIds`, `pending <- Pending(tcp)`, the announcements still on
the way, and `lost <- missed # 0`: `Pending` numbers the packets that announce
something (`Rank`) and takes the n-th (`Nth`), without recursion, so that it can be
reasoned about. `Safe` is the promise without its liveness.

### ShineSync

Per client: the shines of its save file (`got`), the last one reported, the inbox,
`curCollectedShines` and its count. `Admit`, `Write`, `Bump` are `updateShineInfo`
on the read thread; `Frame`, `Scan`, `Clear` are `Client::update`, `updateShines`
and `resetCollectedShines` on the game thread. The count is a plain member used by
two threads without synchronisation, so a racing read sees the loaded or the current
value and the two writes of the reset come in either order. A shine whose actor is
in the stage is collected by `getDirect`, which reports it once more (`Scan`). A
report may be refused by `queuePacket`, or reach only some of the others, because
the receive queues of the rest are full or closed (`Report`). `LeaveCapWorld` is the
stage and scenario in which `updateShines` does nothing.

### GameModeSync

`mgr[c]` is the members of a client's `GameModeManager`. A `Frame` is
`GameModeManager::update` (`BeginOrEnd`, `PauseOrUnpause`) with the mode's own
update, which may change who is it; `DeleteMode` and `InitScene` are the two halves
of `initScene`; `LookUp` and `Process` are `processModePacket` with the mode object
taken first and called later; `Deliver` queues a packet built before. `Reannounce`
is what a PLAYERCON or a reconnect makes a client send. `ServerTag` is the server's
tag command, an old-format packet. Distances, times and the pack rule of Sardines
are left out: who becomes it, and when, is any choice. A frame's packets are built
together. If the read thread calls a deleted mode object, what follows is undefined
and the thread stops there (`Lost`). A stage is left after at least one frame,
unless `MayHurry`. The network between the clients loses nothing here: that is a
premise. First packets in the old format from clients of older versions are not
modelled. The branch of `initScene` for mode NONE cannot be reached: the menu never
sets it.

### GameModeInf, GameModeTimer, FreezeTag

`GameModeInf` is the arithmetic of the two nibbles (`setGameMode`, `setUpdateType`,
`gameMode`, `updateType`) with the two old formats. `GameModeTimer` is the clock of
a mode: `updateTimer` adds or takes a frame's time in parts of a second, with the
carries as the code makes them; `Second` and `Sixty` scale it down for TLC.

`FreezeTag` is one client. `my` is the members of `FreezeTagMode` and its info,
`others` what the slots say of the other players.

| actions | code |
|---|---|
| `Tick`, `List`, `TouchChaser`, `SetFrozen`, `CheckWipeout`, `TouchRunner`, `ContactDone`, `EndRecovery`, `GoesOn`, `Finish` | `FreezeTagMode::update`, cut where the read thread may come in between; `SetFrozen` and `CheckWipeout` are the rest of `trySetPlayerRunnerState(FREEZE)` |
| `FallOff` | `tryStartRecoveryEvent` by a fall |
| `begin`, `end`, `pause`, `unpause`, `init` | the same functions, called by the manager |
| `Receive`, `ApplyPlayer` | `processPacket`: rounds and the score of a PLAYER packet, then what it says of its player |
| `Disconnect` | PLAYERDC |

`startRound`, `endRound` and `tryStartEndgameEvent` are functions of `my`. Each is
one step, and what another thread may do inside is part of it: `Ends` is `endRound`
with a ROUNDSTART between its first two assignments ("end" in `Overlaps`), and a
packet may come while there is no player ("gone": `Thaw` and `Wipeout` then return
early). `init` also runs while the mode is paused or off; only an active mode is
begun behind it. `Buttons` are the debug buttons that move the clock (`Keys`), in
the one frame after a load in which they do. Distances, waiting times and how much
time a frame takes are any choice; a score is only told apart from the last one that
was announced.

### PuppetModel, AvatarSync

`PuppetModel` is one slot and its puppet. `info` is the slot, which the read thread
writes: `CaptureInf` sets `isCaptured` at once and copies the name after
(`CopyHack`; while it does, `HackRead` is the old or no name). `SwitchFlat` and
`SwitchCapture` are the two halves of `PuppetActor::control`, `Wake` and `Kill` what
`PuppetHolder` does, `NewScene` a stage load. `Becomes` is every call that makes one
model dead and another one alive; `Current` is `getCurrentModel`. Which captures
have an actor (`Listed`) is a constant.

`AvatarSync` is the way from another player to this slot: his game thread
(`CaptureTick`, `SaveCapture`: `sendCaptureInfPacket` with the backup copied after
the packet was queued; `GameTick`, `LoadStage`: both `sendGameInfPacket`),
`queuePacket` in two steps, the test and the push (`pushing`, `Push`; `repeating`,
`Resend`, `PushBackup`), between which another thread may take the last place and
the push fails without a word, the send thread, the server that forwards, `Break`
and `Connect`, the greeting as first or as returning client with
`resendInitPackets`, the answer to PLAYERCON (`PlayerCon`, `Answer`), which the read
thread sends past the queue, and a new address in the menu, which changes the
first-connect flag. A connection may come without a send thread (`serving`; see
`SocketThreads`). At the other end a packet is handled (`Receive`) or not
(`Refuse`): the receive queue is full or closed, that client's connection breaks, or
it has no connected slot for the player (`Client.cpp:853`, `:857`). A queued backup
is its address, so what is sent is what it holds by then. The history variable
`late` names the kinds whose last change the code may not have told: a queue at
either end was full, a push found the last place taken, a backup was sent again
before it was updated, the client greeted like a new one, or a backup was made from
a packet that had been freed. `Told` says that the last tick told the capture the
player is in: the code compares only whether there is one (`Client.cpp:629-643`).
`AvatarSync` extends `PuppetModel` and its steps are steps of `PuppetModel`
(theorem).

## 4. Runs

All run with small sets of model values; the bounds are the constants called "bound"
in the modules.

| run | shows | bounds |
|---|---|---|
| `SocketSafety` | types, ownership, receive side, meaning of CONNECTED | 2 heap blocks, queues of 1, 3 descriptors, 1 break, 1 crossing, 1 failed greeting within another, 1 direct send; Send on a broken link may fail |
| `SocketLiveness` | blocked threads are freed at the end of `recvFunc`; a lone reconnecting thread succeeds | as above with 1 heap block and nothing queued again after a reconnect |
| `SocketThreads` (violation) | a connection with only one of its two threads | as `SocketLiveness` |
| `SocketBackups` (violation) | a member of `Client` is freed | as `SocketSafety` |
| `TcpFraming` | packets whole, once, in order; copies that fit; how the reader gets out of step; the end of the stream is noticed | 3 packets with bodies of 1, 0 and 2 bytes, header of 2, queue of 1, 2 breaks, both builds |
| `SyncReliable` | refinement of `DelayedView`, exactness, puppets follow | 2 players, 2 stages, 2 packets under way, a holder of 1, 1 refused announcement, no UDP |
| `SyncLossy` | one slot per player, nobody beyond the limit, the count, nobody at the server missing | 2 players, 3 slots, limits 1–2 growing, UDP, 1 outage, 1 refused announcement, 3 packets under way |
| `ShineShared` | no write behind the array; shines reach everybody | 2 clients, 3 shines, list of 3, 1 refused report; client 2 starts in the stage that is skipped |
| `ModeKnown` | all know who plays what and who is it | 2 clients, 2 modes; budgets of `MCTwo` |
| `ModeFollows` | the mode follows its player | 1 client; budget `MCAlone`, with pauses and stages left at once |
| `FreezeSafety` | no frozen chaser, clock, score, thawing, end of a round | 2 puppets, one of them active; rounds of 2 minutes of 2 seconds of 3 units; frames of 0 or 2 units; buttons L and down; no overlaps |
| `AvatarSync` | one model, known capture and dimension, a plain player seen plain | 2 captures, one with an actor, queue of 2, 2 packets on the way, 3 events |

Why the bounds are enough. The socket's interesting cases need a queue that is full
(one place), a second packet that meets it (two blocks), one break, and a descriptor
that is leaked by a double reconnect next to the current one and the UDP socket
(three). The table needs more players than slots in use and a slot that is used
again. With three slots, two players and a limit that grows from one to two, a
player finds no place, comes in after an outage, and a slot before a taken one is
freed and used again. A list of three has two usable entries: it fills up with two
reports and drops the third. `Budgets` bounds how often players act: both clients
load a stage and begin the mode (two stage loads, two toggles) and then the mode is
changed with a third load, somebody becomes it, or the server says so; in the last
budget of `MCTwo` one client alone plays, becomes it and changes the mode.
Freeze-Tag needs a wipeout (a listed runner next to this player), a minute that
ends, and frames that do not divide a second, so that the clock skips zero.
`AvatarSync` needs a queue that is filled by one change and one backup, and three
events for a change, a break and a change that meets them. `TcpFraming` needs a
header of two bytes, so that it can be cut, a packet without a body, one whose body
can be cut, and a packet behind each; four packets and a queue of two (590 000
states) show nothing else.

Deadlock is checked in the two runs of the table. It is off where the system may
stop: the socket's threads end, shines are finite, budgets and events run out, a
Freeze-Tag game may be off, the server may have said all it has to say.

**Premises.** What a property does not promise, it says; the code does reach each of
the excluded cases, see the counterexamples below.

* `LoneReconnectSucceeds` is about one thread that reconnects; with two, one may
  close what the other has just connected. `ConnectedIsReal` speaks when no thread
  is inside `closeSocket` or `init` (`Quiet`) and none that crossed has left its
  mark (`~crossed`). `PacketOwnership` is about packets in queues and in the hands
  of threads, not about the copy `sendCaptureInfPacket` makes of a packet it has
  given away.
* `ServerCloseNoticed` is for the console build; the other properties of
  `TcpFraming` are for both. `CopiesFit` promises that a size is at least a header's
  only while the reader is in step.
* `OneSlotPerPlayer` and `EveryoneKnown` are for a limit that does not shrink
  (`MayShrink = FALSE`), the latter also for a slot for everybody;
  `CountNeverOverstates` holds in all cases by theorem. `InSync` is for one ordered
  connection without outages, after which ghosts stay. A full or closed receive
  queue may refuse an announcement: `InSync` and `ImplementsDelayedView` are for
  none refused (`missed = 0`), `EveryoneKnown` and `GoneVanish` for players whose
  last announcement was not (`lost`).
* `SharedUnlessOverlap` states its premises: no append during `updateShines`, no
  report at a full list, none refused by a queue at either end.
* `CaptureKnown`, `DimensionKnown` and `PlainSeen` speak of changes that are not
  `late`, `CaptureKnown` also of captures the last tick told (`Told`), `PlainSeen`
  of connections that have a send thread (`serving`).
* `Overlaps` is empty in the Freeze-Tag run: no ROUNDCANCEL between the test and the
  write of a freeze ("freeze"), no ROUNDSTART between the last frame and a stage
  load ("load") or inside `endRound` ("end"), no packet while there is no player
  ("gone"). `SurvivalEarned` is for rounds of one length, and no button that adds
  time ("right"). `RoundEnds` speaks of rounds whose clock runs, `Thawed` of a
  wipeout that is not started again for ever (`Rewiped`).
* `AllKnow` is for a network that loses no packet, clients that do not pause,
  packets that do not overtake each other between the two threads of a client
  (`MayOvertake = FALSE`) and stages that have a frame (`MayHurry = FALSE`). With
  these premises TLC also found it true for the budget that refutes it without the
  last one (`MCBudget(4, 2, 2, 0, 1, 0, 0)`, some 21 million states, 22 minutes: too
  long for a run).

**Fairness.** Threads of the process are scheduled (`WF` of each thread's steps, of
the game thread's only what follows once it sends; in `TcpFraming` of the receive
thread); an unavailable network comes back; the game calls `Client::update` and
`GameModeManager::update` in each frame (`WF` of the frame's steps). In `FreezeTag`
frames take time again and again (`SF` of a `Tick` that takes some), a recovery is
counted down to its end and so is the endgame (`SF` of `EndRecovery` and
`Finish(TRUE)`: each is a counter that goes down in each frame, which the model
abstracts to a choice), the endgame only if packets do not start it anew for ever
(`tryStartEndgameEvent` resets its six seconds, `FreezeTagModeTrigger.cpp:100`). In
`AvatarSync` the sender's tick, the push and the copy to its backup, sending where
there is a send thread, receiving and control of the puppet are weakly fair, the
tick in which the dimension is told strongly (each sixtieth frame; it cannot fall
between the queueing of a capture and the copy to its backup, which captures repeat,
but frames without one go on coming). Nothing is assumed of players, of the server's
relay, or of UDP.

**Findings.** The two violation runs each check a sentence of the code that the
interleavings refute; `PROJECT.json` quotes it. In short: `startThreads` starts none
if only one has ended (`SocketClient.cpp:491`), and `resendInitPackets` queues
addresses of members whose consumer frees them (`Client.cpp:652`).

**Counterexamples.** What the models reach when a premise is dropped, or what was
met while modelling and is not a run:

* *CONNECTED on a socket that never was* (`ConnectedIsReal` without `~crossed`): one
  thread is between `Connect` (`SocketClient.cpp:83`) and the write of the state
  (`:104`), another finds DISCONNECTED in `closeSocket`, replaces the descriptor
  (`:58`) or gets none, and the first then says CONNECTED of it.
* *A copy of a packet that is gone* (`CopiedWhileLive`, an invariant no run checks,
  since it is false): `queuePacket` frees what it refuses, and the send thread what
  it has sent, before `lastCaptureInfPacket = *packet` (`Client.cpp:634`, `:641`).
* *A size smaller than a header* (`CopiesFit` without `full >= Header`): out of
  step, a negative `mPacketSize` makes `fullSize` pass `SocketClient.cpp:302`, and
  `:324` copies a header beyond the end of the buffer.
* *A ghost, or a player missing, on a connection that lives*: PLAYERDC or PLAYERCON
  met a full or closed receive queue (`SocketClient.cpp:352`; `GoneVanish`,
  `EveryoneKnown`, `InSync` and `ImplementsDelayedView` without their premises). Its
  reader sleeps up to 1.5 s (`Client.cpp:878`).
* *A count too low*: a PLAYERINF that comes late makes a player who left connected
  again without counting him (`Client.cpp:705`); `InSync` with `Udp = TRUE`.
* *A packet that is none*: in the emulator build a header cut short by EAGAIN is
  dropped (`SocketClient.cpp:285`) and the rest of it read as the next header; on
  both, if another thread replaces the connection under a packet half read and the
  new socket has the number of the old one (`SocketClient.cpp:273`, `:435`), the
  packet handed over is half of either. `StrayCauses` without the second or the
  third part of `StrayCause` is violated by the step that leads there.
* *A body in two pieces* costs the emulator build its connection, since EAGAIN is an
  error there (`SocketClient.cpp:334-336`).
* *A server that has closed the connection and is not missed*: in the emulator build
  the last error may still be EAGAIN at the end of the stream, and `recv` goes round
  for ever (`SocketClient.cpp:284`); `ServerCloseNoticed` without `build =
  "console"`.
* *A minute nobody survived* (`RoundLengths = {2, 3}` violates `SurvivalEarned`):
  `update` compares the clock with that of the last frame, which `startRound` does
  not touch (`FreezeTagMode.cpp:224`); a shorter round after a longer one scores in
  its first frame, against "to not instantly set off a score event"
  (`FreezeTagModeTrigger.cpp:19`).
* *A shine lost*: one appended between scan and reset is wiped with the list
  (`Client.cpp:1124`), against "Moon Collection is shared" (`README.md:10`); the
  premise of `SharedUnlessOverlap`.
* *Frozen for good*: ROUNDCANCEL between `FreezeTagModeTrigger.cpp:68` and `:71`
  (`Overlaps = {"freeze"}`), or while there is no player to thaw (`:57-60`,
  `Overlaps = {"gone"}`); both violate `Thawed`.
* *A clock at minus one minute* (`Overlaps = {"load"}`): ROUNDSTART between the last
  update and `init`, which makes the clock anew from the old one; violates
  `NeverBelowZero`.
* *A round without a clock*: a stage loaded while the mode is paused makes a new
  clock (`FreezeTagMode.cpp:46-50`) and skips `begin`, which would start it
  (`GameModeManager.cpp:214-219`); the end of the pause (`:171`) does not. Or
  ROUNDSTART comes between `FreezeTagModeTrigger.cpp:24` and `:27` (`Overlaps =
  {"end"}`). `RoundEnds` without `my.timer.on` is violated by each.
* *A stale capture or dimension*: each way a kind becomes `late` violates
  `CaptureKnown` or `DimensionKnown` if it is left out of `late`; among them the
  push that finds the last place taken (`SocketClient.cpp:537`, `:539`), after which
  the caches are updated all the same (`Client.cpp:542`), and the refusal by the
  other client's receive queue.
* *A capture nobody hears of*: who lets go of one thing and captures another between
  two ticks is not told, since `sendCaptureInfPacket` compares only whether there is
  a capture (`Client.cpp:629-643`); `CaptureKnown` without the second part of
  `Told`.
* *A connection without a send thread* (`PlainSeen` without `serving`): what
  `SocketThreads` finds, seen from the other client.
* *A flat player shown round*: the end of a capture shows the "Normal" model
  (`PuppetActor.cpp:186`), against "2D Sync" (`README.md:9`). *A captured player
  shown as himself*: `isCaptured` is set before the name (`Client.cpp:783-786`) and
  the name is read once (`PuppetActor.cpp:178`). Both until the next change or
  stage.
* *Two players who do not know of each other*: a paused client answers a newcomer
  that it plays nothing (`HideAndSeekMode.cpp:109`) and never corrects it (a pause
  budget, `MCBudget(2, 0, 2, 2, 0, 0, 1)` in `MCTwo`); the older of two packets is
  sent last (`Client.cpp:587-590`, `MayOvertake = TRUE`); a mode left before its
  first frame was never announced, and who comes back to the old one is not answered
  (`MayHurry = TRUE` with `MCBudget(4, 2, 2, 0, 1, 0, 0)`).
* Two producers passing `isFull` together (`SocketClient.cpp:537`: the packet whose
  push fails is neither queued nor freed), a second connection left open by two
  threads reconnecting at once (`SocketClient.cpp:435`), and the mode object deleted
  under the read thread (`GameModeManager.cpp:187`).

**Mutants.** An operator named `X_Something` above `X` is a mistaken variant of `X`;
put in its place, the property named in `PROJECT.json` is violated. No specification
uses it.

## 5. Proofs

TLAPS checks every theorem for all values of the constants under the `ASSUME`s of
the modules, which TLC evaluates in the runs.

* **`SocketClientProofs`**: `TypeCorrect`, `ConnectedReal`, `Ownership`, `RecvPush`,
  `NeverLost`. `TypeOK` alone is not inductive: the receive thread must hold a heap
  block where it is about to push one (`RecvHoldsBlock`), and `resend` is reached
  only with an index (`IndexInv`). `TypeInv` is the conjunction. One lemma per group
  of actions, with `ReturnType`, `ProduceType` and `PushedType` for the shared
  helpers. The second needs `RealInv`: unless threads have crossed, at most one is
  inside `closeSocket` or `init`, and while CONNECTED is said the descriptor is a
  connected one or that thread has closed or replaced it and will write the state
  before it leaves. For the ownership of packets: every action moves a packet in one
  of few ways (allocate, drop, free, push, wake, pop); each is a lemma (`MoveAlloc`
  … `MovePop`) on the contents of the queues (`PushedContents`, `PopContents`), and
  `OwnershipStep` sorts the actions among them. `NeverLost` needs in addition that a
  thread's hand is empty where its code says so (`HandsInv`).
* **`TcpFramingProofs`**: `TypeCorrect`, `CopiesAlwaysFit`, `StreamImplemented`,
  `StraysOnlySo`. What a call of `Recv` does to buffer and stream is `ReadsEffect`.
  That copies fit follows from the size that was noted (`HeaderInv`), which bounds
  what `ReadBody` asks for. The refinement needs `OrderInv` (bytes stand in the
  order of their packets, so the packet in the buffer is the first on the way) and
  `HeaderInv` (the size noted is that of the packet whose header is in the buffer);
  `WholePacket` is where they meet. The third needs `ChainInv` (within a packet
  bytes follow one another, across any distance, and a new packet follows the last
  byte), from which a read that goes no further than the packet keeps in step
  (`ReadsInStep`), and `ErrnoInv`.
* **`PuppetTableProofs`**: `TypeCorrect`, `OneSlot` and `NobodyStranded` (with
  `SlotInv`: the two properties together are inductive, as one slot per player needs
  that nobody sits where `findPuppetInfo` does not look), and `CountBounded` (from
  the cardinality of the connected slots before and after each handler, lemmas
  `ConEffect` and `DcEffect`).
* **`PuppetSyncProofs`**: `ImplementsPuppetTable` (the composition takes only steps
  of `PuppetTable`, so its theorems hold here: `TableIsRight`), `SyncTypes`,
  `EveryoneIsKnown`, `InSyncAlways` and `DelayedViewKept`. For `EveryoneIsKnown`,
  `OnTheWay`: every PLAYERDC of a player at the server and every CLIENTINIT on the
  way is followed by a PLAYERCON of his, and with room for all he is in the table or
  such a packet is on the way; when it is handled `findPuppetInfo` has a slot by the
  pigeonhole principle (`SlotIsFound`), since no player has two. An announcement
  that was refused puts its player into `lost`, and a later one that is handled
  takes him out, so the argument goes on for everybody else. For `InSyncAlways`, as
  long as none was refused, `Exact`: there is a sequence of sets, one after each
  packet on the way (`Replay`), from who is in the table to who is at the server,
  each the last one changed as its packet says and none larger than the limit.
  Sending appends to it (`ReplaySend`), handling takes its head off
  (`ReplayReceive`), so a PLAYERCON finds a free slot (`ConAdds`), a PLAYERDC the
  right one (`DcRemoves`) and a PLAYERINF changes nothing (`InfKeeps`).
  `DelayedViewKept` is the refinement of `DelayedView!Safe`, step by step: the first
  refusal is `Lose`, all that follows `Adrift`, and before it, with `Exact`, a
  handled packet changes the view as its announcement says, or not at all
  (`ReceiveFollows`), and `Pending` gains a last and loses a first element as the
  packets do (`PendingAppend`, `PendingTail`, from lemmas about `Rank`).
* **`ShineSyncProofs`**: `TypeCorrect`, from `RoomInv`: while an append is under way
  both the index it has loaded and the count leave an entry to spare, since the game
  thread's reset only lowers the count. `SharedWhenIdle`, under the premises of
  `SharedUnlessOverlap`: whenever no report is left anywhere, all save files are
  equal. Inductive is `SharedInv`: whoever has a shine, or has it coming (saved,
  held, in the inbox or the list), everybody has it or has it coming (`Everywhere`);
  the last shine a client reported is one it got (`Reported`), so that
  `lastCollectedShine` holds back no first report; and `Tidy`, what an append may
  rely on and how far a scan has come, without which an entry could be overwritten
  or cleared before it is scanned.
* **`FreezeTagProofs`**: `RoundTrip` of the codec, by cases of the nibbles;
  `TypeCorrect`; `ChaserNotFrozen`, from `FreezeInv`, which adds that a freeze that
  has passed its test still has a runner (nothing on the game thread turns him in
  between) and that one is under way only where `update` and a recovery call
  `trySetPlayerRunnerState`; `ClockStops` for `"load" \notin Overlaps`, from
  `ClockInv`: the clock is on only in a round, and while it is on it runs down from
  a time above zero, because the frame in which it would reach zero stops it and
  ends the round. `PointsAreEarned` for rounds of one length, no key "right" and no
  overlap "end", from `LastInv`: a running clock counts down, has no hours, and
  shows fewer minutes than a round starts with and no fewer than the last frame saw,
  so that a minute less than then is one that has ended in this frame.
* **`GameModeSyncProofs`**: `TypeCorrect` and `EverybodyKnows` (`AllKnow`) for any
  number of clients, modes and inputs, with the premises of section 4 and without
  pauses. What is to be shown holds only when all is quiet; the inductive invariant
  `KnowInv` says what is true on the way there, for a client `o` that hears of a
  client `s`. `LastInv`: the last packet about `s` on the way to `o` (built and not
  queued, queued, in hand), else what `o` has noted, is what `s` would announce now,
  unless `s` is certain to announce itself (`Due`: before its first frame in a mode,
  or with a tag command to obey). That is enough for the mode, but not for who is
  it: only clients in the mode note it, so a client that has just come is told
  because others see it come and answer. `InfoInv` says so: `o` knows if `s` is it,
  or will hear it (`Heard`), or has packets on the way from which `s` will see `o`
  come (`Ask`). For a coming to be seen, the packet must differ from what was noted
  before, which is `RangeInv`: nobody has heard of a mode that `s` has not begun.
  `ManagerInv` and `MadeInv` are the facts about one client that these need. TLC
  found the invariant to hold of all 1.1 million states of `ModeKnown`, and
  inductive on samples, before it was proved. The proof has one lemma per action and
  part; `EndsIn`, `Told`, `News` and `Other` say what a queue ends with, and have
  their own lemmas for a packet put in, taken off and processed.
* **`AvatarSyncProofs`**: first of `PuppetModel`, `ModelTypes`, `OneModelLives` and
  `FreshPuppetShown`, all from `ModelInv`, the types with `OneModel` and `Follows`
  (what a puppet has noted agrees with its slot, part by part, as far as control has
  come). Then of `AvatarSync`, `ImplementsPuppetModel`, so that these hold of the
  composition (`PuppetIsRight`); `SyncTypes`; `DimensionIsKnown` and
  `CaptureIsKnown`. The argument of the last two: follow the last packet of the kind
  on the way – a queue, then the wire, then the slot. Unless the kind is late, its
  value is the player's (`GameWay`, `CaptureWay`, step lemmas `GameWayStep`,
  `CaptureWayStep`). A queued backup counts with the value it will have, so the
  backup must not be older than what is queued before it; `Named`, `Shown`, `Latest`
  and `Values` relate the backup, the player and what was sent, `SentIsQueued` the
  caches to the queue, `PushInv` says that what has found room is still known, and
  `Virgin` covers the time before the first capture, when there is no backup.
  Between the test and the push the kind is late, so nothing is claimed until the
  push has taken place; a packet that is refused at the other end either has a later
  one behind it, which is then the one to follow, or makes its kind late
  (`ThisRefused`).

Only model-checked is what needs fairness or ENABLED, which are out of the prover's
reach: `WakesReader`, `WakesSender`, `LoneReconnectSucceeds`, `ServerCloseNoticed`,
`GoneVanish`, `AbsentAreHidden`, `PresentAreShown`, `SharedUnlessOverlap`,
`ModeFollowsPlayer`, `Thawed`, `RoundEnds`, `PlainSeen`, and that announcements are
applied in the end, the liveness in `ImplementsDelayedView`. Of two of them the
safety is proved: `DelayedViewKept` and `SharedWhenIdle`. No model needs a recursive
definition, so nothing is left to TLC for want of induction over data.

## 6. Not modelled

* *Connections*: name lookup and `recvUdp`'s tests of size (a datagram is whole or
  dropped), the UDP hole punch, whose other end is the server, and the stage change
  a server orders (CHANGESTAGE), which is one call into the game.
* *Fields that decide nothing in this code*: position, costume, name, cap and
  animation of a slot; player and cap packets are sent anew all the time.
* *Freeze-Tag*: debug buttons, positions, invulnerability and waiting times, the
  value of scores and their cap, which packets go out (`mNextUpdateType` is shared
  by two threads, `FreezeTagMode.cpp:516`), warps, `mIsHostMode`. That the list of
  runners is read while it is refilled is in the model, but no property says that a
  wipeout is never early or missed (`FreezeTagMode.cpp:238`,
  `FreezeTagModeTrigger.cpp:85`): no comment forbids it.
* *Captures of Yukimaru*, whose player sends no end of capture (`main.cpp:44`), and
  the capacity of the list of actors (16).
* *Sizes of the system*: stack (`Client.cpp:25`; the depth of `tryReconnect` within
  `init` is in `frames` and bounded by `MaxNested`), sockets and message queues,
  which are used as the client uses them. The heap (`Client.cpp:21`) is used by all
  threads; an allocation and a free are one step each.
* *Code in no build*: the test of the network in `init` (`SocketClient.cpp:50`).
* *Display and devices*: layouts, icons, name tags, HUD, cameras, keyboard, menu
  apart from what it does to mode and connection, movement (float arithmetic),
  logger, speedboot, scripts.
* *The game's own code and the libraries* (`include/al`, `sead`, `nn`, `game`,
  `rs`): most of the repository's lines are their declarations. They hold no logic
  of this program; the share of all lines that is mapped stays small for that
  reason.

