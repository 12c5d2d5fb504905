---------------------------- MODULE AvatarSync -----------------------------
(***************************************************************************)
(* From a player's shape to the puppet another client shows for him: the   *)
(* game thread of his client tells changes of capture and dimension        *)
(* (main.cpp updatePlayerInfo, Client::sendCaptureInfPacket,               *)
(* Client::sendGameInfPacket), its read thread repeats the last ones for a *)
(* player that comes (PLAYERCON), and a thread that has connected again    *)
(* queues them (Client::resendInitPackets) or greets like a first client   *)
(* (SocketClient::init).  The other client's side is PuppetModel.          *)
(*                                                                         *)
(* Queue and connection are those of SocketClient with one thread that     *)
(* connects again; that the backups are freed with the packets             *)
(* (SocketBackups) has no effect here.  The server forwards what it        *)
(* receives, in order, and the other client may refuse it.  Of a GAMEINF   *)
(* only is2D is kept.  A flat player captures nothing, and lets go of one  *)
(* thing before he captures another.                                       *)
(***************************************************************************)
EXTENDS PuppetModel, Naturals, Sequences

CONSTANTS
  Unset,      \* the user id of a backup is not this player's
  MaxQueue,   \* room in mSendQueue
  MaxWire,    \* bound: packets on the way to the other client
  MaxEvents   \* bound: changes of the player, players that come, lost
              \* connections and addresses entered in the menu, together

ASSUME BoundsAssumption ==
  MaxQueue \in Nat \ {0} /\ MaxWire \in Nat \ {0} /\ MaxEvents \in Nat
ASSUME UnsetAssumption == Unset \notin Names \cup BOOLEAN

VARIABLES
  me,      \* what the player is: capture and dimension
  sent,    \* isSentCaptureInf
  last,    \* lastCaptureInfPacket, lastGameInfPacket
  pushing, \* the kind of packet for which queuePacket has found room, on the game
           \* thread, and that it is about to push
  unsaved, \* the packet sendCaptureInfPacket has yet to copy to its backup: its
           \* name, and whether it is in the hand of the thread, queued or freed
  queue,   \* mSendQueue: packets, or backups (their content is read when sent)
  wire,    \* packets on the way, in order
  link,    \* is the client connected
  serving, \* does a send thread serve the connection
  first,   \* mIsFirstConnect
  joining, \* where in the answer to PLAYERCON the read thread is
  hello,   \* where in SocketClient::init the connecting thread is
  repeating, \* resendInitPackets has found room for its backup
  late,    \* history: kinds whose last change may not have reached the other client
  events   \* events so far, see MaxEvents

senderVars == <<me, sent, last, pushing, unsaved>>
connection == <<link, serving, first>>
greeting == <<hello, repeating>>
netVars == <<queue, wire, connection, joining, greeting, late, events>>
syncVars == <<vars, senderVars, netVars>>

Kinds == {"capture", "game"}
Packet(kind, value) == [kind |-> kind, value |-> value]

\* What a queued backup holds is not settled before it is sent.
Backup == Unset
Nothing == [hack |-> Unset, place |-> "hand"]
Places == {"hand", "queue", "freed"}

Packets == [kind : {"capture"}, value : Names] \cup [kind : {"game"}, value : BOOLEAN]
Queued == Packets \cup [kind : Kinds, value : {Backup}]

SyncInit ==
  /\ Init
  /\ me = [hack |-> NoHack, flat |-> FALSE]
  /\ sent = FALSE
  /\ last = [capture |-> Unset, game |-> Unset]
  /\ pushing = "no" /\ unsaved = Nothing
  /\ queue = <<>> /\ wire = <<>>
  /\ link = TRUE /\ serving = TRUE /\ first = FALSE
  /\ joining = "no" /\ hello = "no" /\ repeating = FALSE
  /\ late = {}
  /\ events = 0

-----------------------------------------------------------------------------
Event == events < MaxEvents /\ events' = events + 1

\* Mistake: the last place counts twice.
HasRoom_Late == Len(queue) <= MaxQueue
HasRoom == Len(queue) < MaxQueue

\* The test of queuePacket on the game thread.  A packet that is refused for want
\* of room is told to nobody, nor is one before it is pushed; one refused for
\* want of a connection is left to resendInitPackets.
queuePacket(kind) ==
  /\ pushing' = IF link /\ HasRoom THEN kind ELSE "no"
  /\ late' = IF link THEN late \cup {kind} ELSE late

\* send, by a thread other than the send thread.
sendNow(p) ==
  /\ link => Len(wire) < MaxWire
  /\ wire' = IF link THEN Append(wire, p) ELSE wire

-----------------------------------------------------------------------------
(* The player and his game thread.                                         *)

\* The game thread is not in one of the functions that send.
Free == unsaved = Nothing /\ pushing = "no"

Moves(new) ==
  /\ Free
  /\ Event
  /\ me' = new

Shifts(new) ==
  Moves(new) /\ UNCHANGED <<sent, last, pushing, unsaved, queue, wire, connection, joining, greeting, late>>

Capture == ~me.flat /\ me.hack = NoHack /\ \E h \in Hacks : Shifts([me EXCEPT !.hack = h])
Release == me.hack # NoHack /\ Shifts([me EXCEPT !.hack = NoHack])
Turn == me.hack = NoHack /\ Shifts([me EXCEPT !.flat = ~@])

\* sendCaptureInfPacket, each third frame: up to the test of queuePacket, ...
CaptureTick ==
  /\ Free
  /\ sent # (me.hack # NoHack)
  /\ queuePacket("capture")
  /\ sent' = ~sent
  /\ unsaved' = [hack |-> me.hack, place |-> IF link /\ HasRoom THEN "hand" ELSE "freed"]
  /\ UNCHANGED <<me, last, queue, wire, connection, joining, greeting, events>>

\* ... the push of any packet of this thread, which fails without a word if
\* another thread took the last place, ...
Push ==
  /\ pushing # "no"
  /\ pushing' = "no"
  /\ IF HasRoom
     THEN /\ queue' = Append(queue, Packet(pushing, IF pushing = "capture" THEN unsaved.hack ELSE last.game))
          /\ unsaved' = IF unsaved = Nothing THEN unsaved ELSE [unsaved EXCEPT !.place = "queue"]
          /\ late' = late \ {pushing}
     ELSE late' = late \cup {pushing} /\ UNCHANGED <<queue, unsaved>>
  /\ UNCHANGED <<me, sent, last, wire, connection, joining, greeting, events>>

\* The packet to be copied is freed: refused, or sent and freed already.
Freed ==
  \/ unsaved.place = "freed"
  \/ unsaved.place = "queue" /\ \A k \in DOMAIN queue : queue[k].kind # "capture" \/ queue[k].value = Backup

\* ... and from there: the backup is a copy of the packet.  The memory of one
\* that was freed may by then be another packet's.
SaveCapture ==
  /\ unsaved # Nothing /\ pushing = "no"
  /\ \/ last' = [last EXCEPT !.capture = unsaved.hack] /\ UNCHANGED late
     \/ Freed /\ last' = [last EXCEPT !.capture = Unset] /\ late' = late \cup {"capture"}
  /\ unsaved' = Nothing
  /\ UNCHANGED <<me, sent, pushing, queue, wire, connection, joining, greeting, events>>

\* sendGameInfPacket(player, holder), each sixtieth frame.
GameTick ==
  /\ Free
  /\ me.flat # last.game
  /\ queuePacket("game")
  /\ last' = [last EXCEPT !.game = me.flat]
  /\ UNCHANGED <<me, sent, unsaved, queue, wire, connection, joining, greeting, events>>

\* A stage is loaded: sendGameInfPacket(holder), without a player.
LoadStage ==
  /\ \E flat \in BOOLEAN : Moves([hack |-> NoHack, flat |-> flat])
  /\ queuePacket("game")
  /\ last' = [last EXCEPT !.game = FALSE]
  /\ UNCHANGED <<sent, unsaved, queue, wire, connection, joining, greeting>>

\* setIsFirstConn, by openKeyboardIP or openKeyboardPort: is it another one.
EnterAddress ==
  /\ Event
  /\ first' \in BOOLEAN
  /\ UNCHANGED <<senderVars, queue, wire, link, serving, joining, greeting, late>>

-----------------------------------------------------------------------------
(* The send thread, the connection, and the threads that repeat packets.   *)

Content(p) == IF p.value = Backup THEN Packet(p.kind, last[p.kind]) ELSE p

Has(s, kind) == \E k \in DOMAIN s : s[k].kind = kind

\* The backup is older than the packet that is yet to be copied to it.
Older(kind) == kind = "capture" /\ unsaved # Nothing

\* trySendQueue
Send ==
  /\ link /\ serving /\ queue # <<>>
  /\ Len(wire) < MaxWire
  /\ wire' = IF Content(Head(queue)).value = Unset THEN wire ELSE Append(wire, Content(Head(queue)))
  /\ queue' = Tail(queue)
  /\ UNCHANGED <<senderVars, connection, joining, greeting, late, events>>

\* The connection breaks: of what was on the way a part arrives, and the packet
\* the send thread fails to send is lost.  The rest of the queue stays.
Break ==
  /\ link /\ hello = "no"
  /\ Event
  /\ link' = FALSE
  /\ \E n \in 0 .. Len(wire) : wire' = SubSeq(wire, 1, n)
  /\ queue' \in {queue} \cup (IF queue = <<>> THEN {} ELSE {Tail(queue)})
  /\ UNCHANGED <<senderVars, serving, first, joining, greeting, late>>

\* SocketClient::init: connected, announced, and then one of two greetings.
\* Whether the connection gets a send thread see SocketClient.
Connect ==
  /\ ~link
  /\ link' = TRUE /\ serving' \in BOOLEAN
  /\ hello' = IF first THEN "first" ELSE "game"
  /\ first' = FALSE
  /\ UNCHANGED <<senderVars, queue, wire, joining, repeating, late, events>>

\* A first client is captured by nothing, and nothing is repeated.
GreetFirst ==
  /\ hello = "first"
  /\ sendNow(Packet("capture", NoHack))
  /\ hello' = "no"
  /\ late' = Kinds
  /\ UNCHANGED <<senderVars, queue, connection, joining, repeating, events>>

\* resendInitPackets repeats the game packet, then the capture packet.  Mistakes:
\* only the first; only the second.
After_NoCapture(kind) == "no"
After(kind) == IF kind = "game" THEN "capture" ELSE "no"
Repeated_NoGame(kind) == kind = "capture" /\ last[kind] # Unset
Repeated(kind) == last[kind] # Unset

\* The test of queuePacket for a backup that was set, ...
Resend(kind) ==
  /\ hello = kind /\ ~repeating
  /\ repeating' = (Repeated(kind) /\ HasRoom)
  /\ hello' = IF repeating' THEN hello ELSE After(kind)
  /\ late' = IF Repeated(kind) \/ Older(kind) THEN late \cup {kind} ELSE late
  /\ UNCHANGED <<senderVars, queue, wire, connection, joining, events>>

\* ... and its push.
PushBackup(kind) ==
  /\ hello = kind /\ repeating
  /\ repeating' = FALSE
  /\ hello' = After(kind)
  /\ queue' = IF HasRoom THEN Append(queue, Packet(kind, Backup)) ELSE queue
  /\ late' = IF HasRoom /\ last[kind] # Unset /\ ~Older(kind) THEN late \ {kind} ELSE late \cup {kind}
  /\ UNCHANGED <<senderVars, wire, connection, joining, events>>

\* PLAYERCON: the last packets are sent at once, past the queue.
PlayerCon ==
  /\ joining = "no"
  /\ Event
  /\ joining' = "game"
  /\ UNCHANGED <<senderVars, queue, wire, connection, greeting, late>>

\* The other client knows the last change once it is through, unless an older
\* packet is still queued.
Answer(kind) ==
  /\ joining = kind
  /\ IF last[kind] = Unset THEN UNCHANGED <<wire, late>>
     ELSE /\ sendNow(Packet(kind, last[kind]))
          /\ late' = IF Older(kind) THEN late \cup {kind}
                     ELSE IF link /\ ~Has(queue, kind) THEN late \ {kind}
                     ELSE late
  /\ joining' = IF kind = "game" THEN "capture" ELSE "no"
  /\ UNCHANGED <<senderVars, queue, connection, greeting, events>>

-----------------------------------------------------------------------------
(* The other client's read thread.                                         *)

Receive ==
  /\ wire # <<>>
  /\ IF Head(wire).kind = "capture" THEN CaptureInf(Head(wire).value) ELSE GameInf(Head(wire).value)
  /\ wire' = Tail(wire)
  /\ UNCHANGED <<senderVars, queue, connection, joining, greeting, late, events>>

\* A packet does not get there: the other client's receive queue is full or
\* closed, its connection breaks, or it has no (connected) slot for the player.
\* The last change is late then, unless a later packet brings it.
Refuse ==
  /\ wire # <<>>
  /\ wire' = Tail(wire)
  /\ late' = LET kind == Head(wire).kind
             IN IF Has(Tail(wire), kind) \/ Has(queue, kind) THEN late ELSE late \cup {kind}
  /\ UNCHANGED <<vars, senderVars, queue, connection, joining, greeting, events>>

-----------------------------------------------------------------------------
Player == Capture \/ Release \/ Turn \/ LoadStage \/ EnterAddress
Ticks == CaptureTick \/ Push \/ SaveCapture \/ GameTick
Network ==
  \/ Send \/ Break \/ Connect \/ GreetFirst \/ PlayerCon
  \/ \E kind \in Kinds : Resend(kind) \/ PushBackup(kind) \/ Answer(kind)

Here == (Player \/ Ticks \/ Network) /\ UNCHANGED vars
There == (CopyHack \/ Game) /\ UNCHANGED <<senderVars, netVars>>

SyncNext == Here \/ Receive \/ Refuse \/ There

SyncSpec == SyncInit /\ [][SyncNext]_syncVars

\* Frames go by on both sides, and the threads of both sides run.
SyncFairSpec ==
  /\ SyncSpec
  /\ WF_syncVars((CaptureTick \/ Push \/ SaveCapture) /\ UNCHANGED vars)
  /\ SF_syncVars(GameTick /\ UNCHANGED vars)
  /\ WF_syncVars(Send /\ UNCHANGED vars)
  /\ WF_syncVars(Receive)
  /\ WF_syncVars(CopyHack /\ UNCHANGED <<senderVars, netVars>>)
  /\ WF_syncVars(Control /\ UNCHANGED <<senderVars, netVars>>)

-----------------------------------------------------------------------------
\* Packets are of a kind a puppet knows, and queues and wire keep their bounds.
SyncTypeOK ==
  /\ ModelTypeOK
  /\ me \in [hack : Names, flat : BOOLEAN]
  /\ sent \in BOOLEAN /\ link \in BOOLEAN /\ serving \in BOOLEAN /\ first \in BOOLEAN
  /\ last \in [capture : Names \cup {Unset}, game : BOOLEAN \cup {Unset}]
  /\ pushing \in {"no"} \cup Kinds
  /\ unsaved = Nothing \/ unsaved \in [hack : Names, place : Places]
  /\ queue \in Seq(Queued) /\ Len(queue) <= MaxQueue
  /\ wire \in Seq(Packets) /\ Len(wire) <= MaxWire
  /\ joining \in {"no"} \cup Kinds
  /\ hello \in {"no", "first"} \cup Kinds
  /\ hello # "no" => link
  /\ repeating \in BOOLEAN
  /\ late \subseteq Kinds
  /\ events \in 0 .. MaxEvents

Quiet ==
  /\ link /\ hello = "no" /\ joining = "no"
  /\ queue = <<>> /\ wire = <<>>
  /\ Free /\ naming = NoHack

\* The last tick of the game thread told what he has captured now.  Only whether
\* he has captured something is compared: one capture that follows another
\* between two ticks is never told.
Told == sent = (me.hack # NoHack) /\ (sent => me.hack = last.capture)

\* When nothing is under way, the other client knows what the player has
\* captured, if the last tick told it, through full queues, lost connections,
\* repeated and overtaking packets, unless that fell to one of the gaps "late"
\* names: a full queue on either side, a backup repeated before it was updated
\* or copied from memory that was freed, a greeting as a first client.  The next
\* change closes the gap.
CaptureKnown ==
  Quiet /\ "capture" \notin late /\ Told
    => /\ info.captured = (me.hack # NoHack)
       /\ info.captured => info.hack = me.hack

\* The same for the dimension; its backup is never older than what is queued.
DimensionKnown == Quiet /\ "game" \notin late /\ me.flat = last.game => info.flat = me.flat

\* Whatever went wrong before, a player that ends up captured by nothing and
\* three-dimensional, with nothing late, is seen as he is by everybody whose
\* client shows his puppet, if his connection has a send thread.
PlainSeen ==
  <>[](me = [hack |-> NoHack, flat |-> FALSE] /\ link /\ serving /\ hello = "no" /\ joining = "no"
       /\ late = {} /\ puppet.alive)
    => <>[](models = {"Normal"})

=============================================================================
