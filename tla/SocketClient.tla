--------------------------- MODULE SocketClient ---------------------------
(***************************************************************************)
(* The client's socket layer (source/server/SocketClient.cpp) and the four *)
(* threads that run it at the same time with no lock between them:         *)
(*                                                                         *)
(*   "game"  queues packets (queuePacket);                                 *)
(*   "read"  Client::readFunc: opens the connection, takes received        *)
(*           packets, answers some of them on the socket and queues others;*)
(*   "recv"  recvFunc: polls the socket, fills mRecvQueue;                 *)
(*   "send"  sendFunc: drains mSendQueue.                                  *)
(*                                                                         *)
(* A step is what a thread does between two accesses to shared state that  *)
(* another thread may separate.  Whichever of recv, send and read sees an  *)
(* error runs tryReconnect (close, init) itself, on the shared members.    *)
(*                                                                         *)
(* The content of a packet is left out: a packet is the storage it lives   *)
(* in, a block of the client heap or one of the Client's member backups.   *)
(* Descriptors are numbers the system hands out again after a Close.       *)
(***************************************************************************)
EXTENDS Naturals, Sequences, FiniteSets

CONSTANTS
  Blocks,       \* blocks of mHeap that packets are allocated in
  Backups,      \* the Client's lastXxxPacket members (not heap blocks)
  Resent,       \* what resendInitPackets queues: a sequence over Backups and Fresh
  Fresh,        \* in Resent: a packet allocated on the spot (sendGameModeInfPacket)
  Null,         \* the null pointer, also the wake-up pushed by recvFunc
  QueueSize,    \* maxBufSize
  MaxFd,        \* descriptors the process may have open
  MaxDrops,     \* bound: how often the network breaks a connection
  MaxCrossings, \* bound: how often a thread joins another in replacing the socket
  MaxNested,    \* bound: failed greetings a thread handles within each other
  DirectSends,  \* backups a PLAYERCON makes the read thread send (at most 4)
  SendMayFail   \* whether a Send on a broken link can report it (else buffered)

ASSUME QueueSizeAssumption == QueueSize \in Nat \ {0}
ASSUME DescriptorAssumption == MaxFd \in Nat \ {0} /\ MaxDrops \in Nat /\ MaxNested \in Nat /\ MaxCrossings \in Nat /\ DirectSends \in Nat \ {0}
ASSUME StorageAssumption ==
  /\ Null \notin Blocks \cup Backups
  /\ Fresh \notin Backups
  /\ Blocks \cap Backups = {}
  /\ Resent \in Seq(Backups \cup {Fresh})
ASSUME FlagAssumption == SendMayFail \in BOOLEAN

VARIABLES
  sockState,  \* socket_log_state
  fd,         \* socket_log_socket, 0 when Socket() returned -1
  link,       \* per descriptor: closed, open, up (connected), broken or udp
  queueOpen,  \* mPacketQueueOpen
  firstConn,  \* mIsFirstConnect
  sendQ,      \* mSendQueue
  recvQ,      \* mRecvQueue
  live,       \* storage that is allocated: blocks in use and the backups
  pc,         \* where each thread is
  cur,        \* the packet a thread received or popped and must free
  out,        \* the packet a thread is handing to queuePacket
  nextRes,    \* per thread: index in Resent, 0 outside resendInitPackets
  frames,     \* per thread: inits whose greeting's failure is being handled
  direct,     \* what the read thread still owes to a PLAYERCON, see ReadHandle
  kept,       \* the packet sendCaptureInfPacket still reads once it is queued
  crossed,    \* history: two threads replaced the socket at the same time, and
              \* none has opened one alone since
  crossings,  \* crossings so far
  net,        \* is the network up
  drops       \* breaks so far

connVars  == <<sockState, fd, link, queueOpen, firstConn>>
queueVars == <<sendQ, recvQ, live>>
crossVars == <<crossed, crossings>>
netVars   == <<net, drops>>
vars == <<connVars, queueVars, pc, cur, out, nextRes, frames, direct, kept, crossVars, netVars>>

Threads == {"game", "read", "recv", "send"}
SockStates == {"UNINITIALIZED", "CONNECTED", "UNAVAILABLE", "DISCONNECTED"}
Fds == 1..MaxFd
LinkStates == {"closed", "open", "up", "broken", "udp"}
ConTypes == {"INIT", "RECONNECT"}
Packets == Blocks \cup Backups
Labels ==
  {"idle", "check", "push", "copy",                          \* queuePacket
   "begin", "getinit", "popinit", "tossinit",                \* startConnection
   "get", "pop", "handle", "direct", "fresh", "release",     \* readFunc
   "sendpop", "send", "sendfree", "sendfail",                \* sendFunc
   "recv", "admit", "admitudp", "put", "recvtest", "wakesend", "wakerecv",
   "close", "test", "closing", "closed",                      \* closeSocket
   "init", "connect", "udp", "online", "say", "failed",       \* init
   "spawn", "greet", "resend", "done"}

Init ==
  /\ sockState = "UNINITIALIZED"
  /\ fd = 0
  /\ link = [d \in Fds |-> "closed"]
  /\ queueOpen = TRUE
  /\ firstConn = TRUE
  /\ sendQ = <<>>
  /\ recvQ = <<>>
  /\ live = Backups
  /\ pc = [t \in Threads |-> CASE t = "game" -> "idle"
                               [] t = "read" -> "begin"
                               [] OTHER -> "done"]
  /\ cur = [t \in Threads |-> Null]
  /\ out = [t \in Threads |-> Null]
  /\ nextRes = [t \in Threads |-> 0]
  /\ frames = [t \in Threads |-> <<>>]
  /\ direct = 0
  /\ kept = Null
  /\ crossed = FALSE
  /\ crossings = 0
  /\ net = TRUE
  /\ drops = 0

Goto(t, l) == pc' = [pc EXCEPT ![t] = l]
At(t, l) == pc[t] = l

\* Mistake: the queue does not refuse.
Pushed_Unbounded(q, p) == Append(q, p)

\* MessageQueue::push(.., NonBlocking): a full queue refuses the message.
Pushed(q, p) == IF Len(q) < QueueSize THEN Append(q, p) ELSE q

Connected == sockState = "CONNECTED"
OpenFd == fd \in Fds /\ link[fd] # "closed"
FreeFds == {d \in Fds : link[d] = "closed"}
NewFd == CHOOSE d \in FreeFds : TRUE  \* which one is up to the system

\* What nn::socket::Send on the current descriptor may answer.
SendCanSucceed == fd \in Fds /\ link[fd] \in {"up", "broken"}
SendCanFail == ~SendCanSucceed \/ (SendMayFail /\ fd \in Fds /\ link[fd] = "broken")

\* new Packet(): t gets a block to queue; with the heap used up it goes on at l.
Produce(t, l) ==
  IF Blocks \subseteq live
  THEN Goto(t, l) /\ UNCHANGED <<out, live>>
  ELSE \E b \in Blocks \ live : /\ out' = [out EXCEPT ![t] = b]
                                 /\ live' = live \cup {b}
                                 /\ Goto(t, "check")

-----------------------------------------------------------------------------
(* tryReconnect and init, run by whichever thread needs them.              *)

\* Where a thread continues after tryReconnect (or its first init) answered r.
After(t, r) ==
  CASE t = "recv" -> IF r THEN "recv" ELSE "recvtest"
    [] t = "send" -> IF r THEN "sendfree" ELSE "sendfail"
    [] OTHER -> IF cur[t] # Null THEN "direct" ELSE IF r THEN "getinit" ELSE "done"

\* init or tryReconnect returns: to the init whose greeting failed if there is
\* one (it ignores r, finishes and answers its own success), else to the caller.
Return(t, r) ==
  IF frames[t] = <<>>
  THEN /\ Goto(t, After(t, r))
       /\ nextRes' = [nextRes EXCEPT ![t] = 0]
       /\ UNCHANGED frames
  ELSE /\ frames' = [frames EXCEPT ![t] = Tail(@)]
       /\ IF Head(frames[t]) = "RECONNECT"
          THEN Goto(t, "resend") /\ nextRes' = [nextRes EXCEPT ![t] = 1]
          ELSE Goto(t, After(t, TRUE)) /\ nextRes' = [nextRes EXCEPT ![t] = 0]

\* Between these labels a thread has the shared socket in its hands.
Inside == {"closing", "closed", "init", "connect", "udp", "online", "say", "failed"}
Alone(t) == \A u \in Threads \ {t} : pc[u] \notin Inside
Enter(t) ==
  IF Alone(t) THEN UNCHANGED crossVars
  ELSE crossings < MaxCrossings /\ crossings' = crossings + 1 /\ crossed' = TRUE

\* closeSocket: the queue is closed, then the state tested.
CloseQueue(t) ==
  /\ At(t, "close")
  /\ queueOpen' = FALSE
  /\ Goto(t, "test")
  /\ UNCHANGED <<sockState, fd, link, firstConn, queueVars, cur, out, nextRes, frames, direct, kept, crossVars, netVars>>

CloseTest(t) ==
  /\ At(t, "test")
  /\ Goto(t, IF sockState = "DISCONNECTED" THEN "init" ELSE "closing")
  /\ Enter(t)
  /\ UNCHANGED <<connVars, queueVars, cur, out, nextRes, frames, direct, kept, netVars>>

\* A Close of a descriptor that is not open fails, and tryReconnect gives up.
CloseSocket(t) ==
  /\ At(t, "closing")
  /\ \/ /\ OpenFd
        /\ link' = [link EXCEPT ![fd] = "closed"]
        /\ Goto(t, "closed")
        /\ UNCHANGED <<frames, nextRes>>
     \/ /\ ~OpenFd
        /\ Return(t, FALSE)
        /\ UNCHANGED link
  /\ UNCHANGED <<sockState, fd, queueOpen, firstConn, queueVars, cur, out, direct, kept, crossVars, netVars>>

Closed(t) ==
  /\ At(t, "closed")
  /\ sockState' = "DISCONNECTED"
  /\ Goto(t, "init")
  /\ UNCHANGED <<fd, link, queueOpen, firstConn, queueVars, cur, out, nextRes, frames, direct, kept, crossVars, netVars>>

\* init up to Socket(), which answers -1 when no descriptor is left.  The
\* socket of a thread that is alone here is nobody else's.
InitSocket(t) ==
  /\ At(t, "init")
  /\ IF FreeFds = {}
     THEN /\ fd' = 0
          /\ Goto(t, "failed")
          /\ UNCHANGED <<link, crossed>>
     ELSE /\ fd' = NewFd
          /\ link' = [link EXCEPT ![NewFd] = "open"]
          /\ Goto(t, "connect")
          /\ crossed' = (crossed /\ ~Alone(t))
  /\ UNCHANGED <<sockState, queueOpen, firstConn, queueVars, cur, out, nextRes, frames, direct, kept, crossings, netVars>>

\* Whether Connect on the shared descriptor can succeed.
CanConnect == net /\ fd \in Fds /\ link[fd] = "open"

\* Mistake: the result of Connect is not looked at.
Connect_Unchecked(t) ==
  /\ At(t, "connect")
  /\ link' = IF CanConnect THEN [link EXCEPT ![fd] = "up"] ELSE link
  /\ Goto(t, "udp")
  /\ UNCHANGED <<sockState, fd, queueOpen, firstConn, queueVars, cur, out, nextRes, frames, direct, kept, crossVars, netVars>>

\* Name lookup and Connect.
Connect(t) ==
  /\ At(t, "connect")
  /\ IF CanConnect THEN link' = [link EXCEPT ![fd] = "up"] /\ Goto(t, "udp")
                   ELSE Goto(t, "failed") /\ UNCHANGED link
  /\ UNCHANGED <<sockState, fd, queueOpen, firstConn, queueVars, cur, out, nextRes, frames, direct, kept, crossVars, netVars>>

\* The UDP socket; the one of an earlier connection is never closed.
OpenUdp(t) ==
  /\ At(t, "udp")
  /\ IF FreeFds = {} THEN Goto(t, "failed") /\ UNCHANGED link
                     ELSE link' = [link EXCEPT ![NewFd] = "udp"] /\ Goto(t, "online")
  /\ UNCHANGED <<sockState, fd, queueOpen, firstConn, queueVars, cur, out, nextRes, frames, direct, kept, crossVars, netVars>>

OpenQueue(t) ==
  /\ At(t, "online")
  /\ queueOpen' = TRUE
  /\ Goto(t, "say")
  /\ UNCHANGED <<sockState, fd, link, firstConn, queueVars, cur, out, nextRes, frames, direct, kept, crossVars, netVars>>

SayConnected(t) ==
  /\ At(t, "say")
  /\ sockState' = "CONNECTED"
  /\ Goto(t, "spawn")
  /\ UNCHANGED <<fd, link, queueOpen, firstConn, queueVars, cur, out, nextRes, frames, direct, kept, crossVars, netVars>>

\* Socket, Connect or the UDP socket failed.
InitFails(t) ==
  /\ At(t, "failed")
  /\ sockState' = "UNAVAILABLE"
  /\ Return(t, FALSE)
  /\ UNCHANGED <<fd, link, queueOpen, firstConn, queueVars, cur, out, direct, kept, crossVars, netVars>>

StartThreads(t) ==
  /\ At(t, "spawn")
  /\ IF At("recv", "done") /\ At("send", "done")
     THEN pc' = [pc EXCEPT !["recv"] = "recv", !["send"] = "sendpop", ![t] = "greet"]
     ELSE Goto(t, "greet")
  /\ UNCHANGED <<connVars, queueVars, cur, out, nextRes, frames, direct, kept, crossVars, netVars>>

\* The PlayerConnect packet (with INIT the two empty packets that follow it).
Greet(t) ==
  /\ At(t, "greet")
  /\ firstConn' = FALSE
  /\ LET conType == IF firstConn THEN "INIT" ELSE "RECONNECT" IN
     \/ /\ ~Connected \/ SendCanSucceed
        /\ IF conType = "RECONNECT"
           THEN /\ Goto(t, "resend")
                /\ nextRes' = [nextRes EXCEPT ![t] = 1]
                /\ UNCHANGED frames
           ELSE Return(t, TRUE)
     \/ /\ Connected /\ SendCanFail
        /\ Len(frames[t]) < MaxNested
        /\ frames' = [frames EXCEPT ![t] = <<conType>> \o @]
        /\ Goto(t, "close")
        /\ UNCHANGED nextRes
  /\ UNCHANGED <<sockState, fd, link, queueOpen, queueVars, cur, out, direct, kept, crossVars, netVars>>

\* Client::resendInitPackets, one queuePacket after the other.
Resend(t) ==
  /\ At(t, "resend")
  /\ \/ /\ nextRes[t] > Len(Resent)
        /\ Return(t, TRUE)
        /\ UNCHANGED <<live, out>>
     \/ /\ nextRes[t] <= Len(Resent)
        /\ nextRes' = [nextRes EXCEPT ![t] = @ + 1]
        /\ UNCHANGED frames
        /\ \/ /\ Resent[nextRes[t]] # Fresh
              /\ out' = [out EXCEPT ![t] = Resent[nextRes[t]]]
              /\ Goto(t, "check")
              /\ UNCHANGED live
           \/ /\ Resent[nextRes[t]] = Fresh
              /\ Produce(t, "resend")
  /\ UNCHANGED <<connVars, sendQ, recvQ, cur, direct, kept, crossVars, netVars>>

-----------------------------------------------------------------------------
(* queuePacket.                                                            *)

AfterQueue(t) ==
  IF nextRes[t] > 0 THEN "resend"
  ELSE IF t = "game" THEN IF kept = Null THEN "idle" ELSE "copy"
  ELSE IF direct > 0 THEN "direct" ELSE "release"

\* The test of state, openness and room; a refused packet is freed.
QueueCheck(t) ==
  /\ At(t, "check")
  /\ IF Connected /\ queueOpen /\ Len(sendQ) < QueueSize
     THEN Goto(t, "push") /\ UNCHANGED <<live, out>>
     ELSE /\ live' = live \ {out[t]}
          /\ out' = [out EXCEPT ![t] = Null]
          /\ Goto(t, AfterQueue(t))
  /\ UNCHANGED <<connVars, sendQ, recvQ, cur, nextRes, frames, direct, kept, crossVars, netVars>>

\* The push, whose answer is ignored.
QueuePush(t) ==
  /\ At(t, "push")
  /\ sendQ' = Pushed(sendQ, out[t])
  /\ out' = [out EXCEPT ![t] = Null]
  /\ Goto(t, AfterQueue(t))
  /\ UNCHANGED <<connVars, recvQ, live, cur, nextRes, frames, direct, kept, crossVars, netVars>>

\* The game thread has something to tell the server.  sendCaptureInfPacket
\* reads its packet once more when queuePacket has answered.
GamePacket ==
  /\ At("game", "idle")
  /\ ~(Blocks \subseteq live)
  /\ Produce("game", "idle")
  /\ kept' \in {Null, out'["game"]}
  /\ UNCHANGED <<connVars, sendQ, recvQ, cur, nextRes, frames, direct, crossVars, netVars>>

\* lastCaptureInfPacket = *packet.
CopyPacket ==
  /\ At("game", "copy")
  /\ kept' = Null
  /\ Goto("game", "idle")
  /\ UNCHANGED <<connVars, queueVars, cur, out, nextRes, frames, direct, crossVars, netVars>>

-----------------------------------------------------------------------------
(* sendFunc and trySendQueue.                                              *)

SendPop ==
  /\ At("send", "sendpop")
  /\ sendQ # <<>>
  /\ cur' = [cur EXCEPT !["send"] = Head(sendQ)]
  /\ sendQ' = Tail(sendQ)
  /\ Goto("send", "send")
  /\ UNCHANGED <<connVars, recvQ, live, out, nextRes, frames, direct, kept, crossVars, netVars>>

SendPacket ==
  /\ At("send", "send")
  /\ \/ /\ ~Connected \/ cur["send"] = Null
        /\ Goto("send", "sendfail")
     \/ /\ Connected /\ cur["send"] # Null /\ SendCanSucceed
        /\ Goto("send", "sendfree")
     \/ /\ Connected /\ cur["send"] # Null /\ SendCanFail
        /\ Goto("send", "close")
  /\ UNCHANGED <<connVars, queueVars, cur, out, nextRes, frames, direct, kept, crossVars, netVars>>

\* free, then the loop's test: a failed send ends the thread if it now finds
\* the state DISCONNECTED.
SendFree ==
  /\ pc["send"] \in {"sendfree", "sendfail"}
  /\ live' = live \ {cur["send"]}
  /\ cur' = [cur EXCEPT !["send"] = Null]
  /\ Goto("send", IF At("send", "sendfail") /\ sockState = "DISCONNECTED"
                  THEN "done" ELSE "sendpop")
  /\ UNCHANGED <<connVars, sendQ, recvQ, out, nextRes, frames, direct, kept, crossVars, netVars>>

-----------------------------------------------------------------------------
(* recvFunc, recv, recvTcp and recvUdp.                                    *)

\* recv: not connected, or the poll finds the connection broken.
RecvError ==
  /\ At("recv", "recv")
  /\ ~Connected \/ (fd \in Fds /\ link[fd] = "broken")
  /\ Goto("recv", "close")
  /\ UNCHANGED <<connVars, queueVars, cur, out, nextRes, frames, direct, kept, crossVars, netVars>>

RecvChange(l, c, live1) ==
  /\ Goto("recv", l)
  /\ cur' = [cur EXCEPT !["recv"] = c]
  /\ live' = live1
  /\ UNCHANGED <<connVars, sendQ, recvQ, out, nextRes, frames, direct, kept, crossVars, netVars>>

\* A packet arrives by TCP or UDP.  Polling a descriptor that is not connected
\* shows nothing and the thread goes round.
RecvPacket ==
  /\ At("recv", "recv")
  /\ Connected
  /\ fd \in Fds /\ link[fd] = "up"
  /\ \E b \in Blocks \ live, l \in {"admit", "admitudp"} : RecvChange(l, b, live \cup {b})

\* Mistakes: no test of isFull; the refused packet is not freed.
RecvAdmit_Always ==
  pc["recv"] \in {"admit", "admitudp"} /\ RecvChange("put", cur["recv"], live)
RecvAdmit_Leaks ==
  /\ pc["recv"] \in {"admit", "admitudp"}
  /\ IF Len(recvQ) < QueueSize THEN RecvChange("put", cur["recv"], live)
                               ELSE RecvChange("recv", Null, live)

\* Only recvTcp asks whether the queue is open.
RecvAdmit ==
  /\ pc["recv"] \in {"admit", "admitudp"}
  /\ IF Len(recvQ) < QueueSize /\ (queueOpen \/ At("recv", "admitudp"))
     THEN RecvChange("put", cur["recv"], live)
     ELSE RecvChange("recv", Null, live \ {cur["recv"]})

\* Mistake: the buffer is freed although the queue has it.
RecvPut_Frees ==
  /\ At("recv", "put")
  /\ recvQ' = Pushed(recvQ, cur["recv"])
  /\ cur' = [cur EXCEPT !["recv"] = Null]
  /\ live' = live \ {cur["recv"]}
  /\ Goto("recv", "recv")
  /\ UNCHANGED <<connVars, sendQ, out, nextRes, frames, direct, kept, crossVars, netVars>>

RecvPut ==
  /\ At("recv", "put")
  /\ recvQ' = Pushed(recvQ, cur["recv"])
  /\ cur' = [cur EXCEPT !["recv"] = Null]
  /\ Goto("recv", "recv")
  /\ UNCHANGED <<connVars, sendQ, live, out, nextRes, frames, direct, kept, crossVars, netVars>>

\* Mistake: the loop ends with the first recv that answers false.
RecvTest_Once ==
  /\ At("recv", "recvtest")
  /\ Goto("recv", "wakesend")
  /\ UNCHANGED <<connVars, queueVars, cur, out, nextRes, frames, direct, kept, crossVars, netVars>>

\* The loop's test after recv answered false.
RecvTest ==
  /\ At("recv", "recvtest")
  /\ Goto("recv", IF sockState = "DISCONNECTED" THEN "wakesend" ELSE "recv")
  /\ UNCHANGED <<connVars, queueVars, cur, out, nextRes, frames, direct, kept, crossVars, netVars>>

\* Mistakes: the end of recvFunc forgets one of the two queues.
RecvWakeSend_Forgotten ==
  /\ At("recv", "wakesend")
  /\ Goto("recv", "wakerecv")
  /\ UNCHANGED <<connVars, queueVars, cur, out, nextRes, frames, direct, kept, crossVars, netVars>>
RecvWakeRecv_Forgotten ==
  /\ At("recv", "wakerecv")
  /\ Goto("recv", "done")
  /\ UNCHANGED <<connVars, queueVars, cur, out, nextRes, frames, direct, kept, crossVars, netVars>>

\* The end of recvFunc frees the threads blocked on the two queues.
RecvWakeSend ==
  /\ At("recv", "wakesend")
  /\ sendQ' = Pushed(sendQ, Null)
  /\ Goto("recv", "wakerecv")
  /\ UNCHANGED <<connVars, recvQ, live, cur, out, nextRes, frames, direct, kept, crossVars, netVars>>

RecvWakeRecv ==
  /\ At("recv", "wakerecv")
  /\ recvQ' = Pushed(recvQ, Null)
  /\ Goto("recv", "done")
  /\ UNCHANGED <<connVars, sendQ, live, cur, out, nextRes, frames, direct, kept, crossVars, netVars>>

-----------------------------------------------------------------------------
(* Client::startConnection and Client::readFunc.                           *)

ReadBegin ==
  /\ At("read", "begin")
  /\ Goto("read", "init")
  /\ Enter("read")
  /\ UNCHANGED <<connVars, queueVars, cur, out, nextRes, frames, direct, kept, netVars>>

\* tryGetPacket's test.  While waiting for CLIENTINIT a null ends the read
\* thread; later it only makes it ask again.
ReadTest ==
  /\ \/ /\ At("read", "getinit")
        /\ Goto("read", IF Connected THEN "popinit" ELSE "done")
     \/ /\ At("read", "get") /\ Connected
        /\ Goto("read", "pop")
  /\ UNCHANGED <<connVars, queueVars, cur, out, nextRes, frames, direct, kept, crossVars, netVars>>

\* tryGetPacket's blocking pop.
ReadPop ==
  /\ pc["read"] \in {"popinit", "pop"}
  /\ recvQ # <<>>
  /\ cur' = [cur EXCEPT !["read"] = Head(recvQ)]
  /\ recvQ' = Tail(recvQ)
  /\ Goto("read", CASE Head(recvQ) = Null -> IF At("read", "pop") THEN "get" ELSE "done"
                    [] OTHER -> IF At("read", "pop") THEN "handle" ELSE "tossinit")
  /\ UNCHANGED <<connVars, sendQ, live, out, nextRes, frames, direct, kept, crossVars, netVars>>

\* startConnection: the packet is CLIENTINIT, or it is dropped.
ReadInitPacket ==
  /\ At("read", "tossinit")
  /\ live' = live \ {cur["read"]}
  /\ cur' = [cur EXCEPT !["read"] = Null]
  /\ \E l \in {"get", "getinit"} : Goto("read", l)
  /\ UNCHANGED <<connVars, sendQ, recvQ, out, nextRes, frames, direct, kept, crossVars, netVars>>

\* readFunc's switch: an update of local state, a packet queued in answer, or
\* PLAYERCON, for which DirectSends backups are sent on the socket at once and,
\* before the last of them, the mode packet is queued.
ReadHandle ==
  /\ At("read", "handle")
  /\ \/ direct' = 0 /\ \E l \in {"release", "fresh"} : Goto("read", l)
     \/ direct' = DirectSends + 1 /\ Goto("read", "direct")
  /\ UNCHANGED <<connVars, queueVars, cur, out, nextRes, frames, kept, crossVars, netVars>>

ReadDirectSend ==
  /\ At("read", "direct")
  /\ \/ direct = 0 /\ Goto("read", "release") /\ UNCHANGED direct
     \/ /\ direct \notin {0, 2}
        /\ direct' = direct - 1
        /\ \/ (~Connected \/ SendCanSucceed) /\ UNCHANGED pc
           \/ Connected /\ SendCanFail /\ Goto("read", "close")
  /\ UNCHANGED <<connVars, queueVars, cur, out, nextRes, frames, kept, crossVars, netVars>>

ReadAnswer ==
  /\ \/ At("read", "fresh") /\ Produce("read", "release") /\ UNCHANGED direct
     \/ /\ At("read", "direct") /\ direct = 2
        /\ Produce("read", "direct")
        /\ direct' = 1
  /\ UNCHANGED <<connVars, sendQ, recvQ, cur, nextRes, frames, kept, crossVars, netVars>>

ReadRelease ==
  /\ At("read", "release")
  /\ live' = live \ {cur["read"]}
  /\ cur' = [cur EXCEPT !["read"] = Null]
  /\ Goto("read", "get")
  /\ UNCHANGED <<connVars, sendQ, recvQ, out, nextRes, frames, direct, kept, crossVars, netVars>>

-----------------------------------------------------------------------------
(* The network: the server drops one connection, or the network goes away  *)
(* and comes back.                                                         *)

Break(D) == link' = [d \in Fds |-> IF d \in D /\ link[d] = "up" THEN "broken" ELSE link[d]]

ServerDrops ==
  /\ drops < MaxDrops
  /\ \E d \in Fds : link[d] = "up" /\ Break({d})
  /\ drops' = drops + 1
  /\ UNCHANGED <<sockState, fd, queueOpen, firstConn, queueVars, pc, cur, out, nextRes, frames, direct, kept, crossVars, net>>

NetworkDown ==
  /\ net
  /\ drops < MaxDrops
  /\ net' = FALSE
  /\ drops' = drops + 1
  /\ Break(Fds)
  /\ UNCHANGED <<sockState, fd, queueOpen, firstConn, queueVars, pc, cur, out, nextRes, frames, direct, kept, crossVars>>

NetworkUp ==
  /\ ~net
  /\ net' = TRUE
  /\ UNCHANGED <<connVars, queueVars, pc, cur, out, nextRes, frames, direct, kept, crossVars, drops>>

-----------------------------------------------------------------------------
Reconnecting(t) ==
  CloseQueue(t) \/ CloseTest(t) \/ CloseSocket(t) \/ Closed(t)
  \/ InitSocket(t) \/ Connect(t) \/ OpenUdp(t) \/ OpenQueue(t) \/ SayConnected(t) \/ InitFails(t)
  \/ StartThreads(t) \/ Greet(t) \/ Resend(t)
Queueing(t) == QueueCheck(t) \/ QueuePush(t)

Game == GamePacket \/ CopyPacket \/ Queueing("game")
Send == SendPop \/ SendPacket \/ SendFree \/ Reconnecting("send") \/ Queueing("send")
Recv == \/ RecvError \/ RecvPacket \/ RecvAdmit \/ RecvPut \/ RecvTest
        \/ RecvWakeSend \/ RecvWakeRecv \/ Reconnecting("recv") \/ Queueing("recv")
Read == \/ ReadBegin \/ ReadTest \/ ReadPop \/ ReadInitPacket \/ ReadHandle
        \/ ReadDirectSend \/ ReadAnswer \/ ReadRelease
        \/ Reconnecting("read") \/ Queueing("read")
Network == ServerDrops \/ NetworkDown \/ NetworkUp

Next == Game \/ Send \/ Recv \/ Read \/ Network

Spec == Init /\ [][Next]_vars

\* The system schedules its four threads fairly and the network comes back.
Fairness == WF_vars(CopyPacket \/ Queueing("game")) /\ WF_vars(Send) /\ WF_vars(Recv) /\ WF_vars(Read) /\ WF_vars(NetworkUp)

FairSpec == Spec /\ Fairness

-----------------------------------------------------------------------------
\* Every variable keeps its shape and neither queue outgrows maxBufSize, even
\* when two producers pass isFull together and both push (queuePacket).
TypeOK ==
  /\ sockState \in SockStates
  /\ fd \in 0..MaxFd
  /\ link \in [Fds -> LinkStates]
  /\ queueOpen \in BOOLEAN
  /\ firstConn \in BOOLEAN
  /\ sendQ \in Seq(Packets \cup {Null}) /\ Len(sendQ) <= QueueSize
  /\ recvQ \in Seq(Blocks \cup {Null}) /\ Len(recvQ) <= QueueSize
  /\ live \subseteq Packets
  /\ pc \in [Threads -> Labels]
  /\ cur \in [Threads -> Packets \cup {Null}]
  /\ out \in [Threads -> Packets \cup {Null}]
  /\ nextRes \in [Threads -> 0..Len(Resent) + 1]
  /\ frames \in [Threads -> Seq(ConTypes)]
  /\ direct \in 0..DirectSends + 1
  /\ kept \in Packets \cup {Null}
  /\ crossed \in BOOLEAN
  /\ crossings \in 0..MaxCrossings
  /\ net \in BOOLEAN
  /\ drops \in 0..MaxDrops

InQueue(q, p) == \E i \in DOMAIN q : q[i] = p
Once(q, p) == \A i, j \in DOMAIN q : q[i] = p /\ q[j] = p => i = j
Held(h, p) == \E t \in Threads : h[t] = p
Referenced(p) == Held(cur, p) \/ Held(out, p) \/ InQueue(sendQ, p) \/ InQueue(recvQ, p)

\* A heap block is referred to from one place at most ...
OneOwner ==
  \A b \in Blocks :
    /\ \A t, u \in Threads : (cur[t] = b /\ cur[u] = b) \/ (out[t] = b /\ out[u] = b) => t = u
    /\ Once(sendQ, b) /\ Once(recvQ, b)
    /\ Held(cur, b) => ~Held(out, b) /\ ~InQueue(sendQ, b) /\ ~InQueue(recvQ, b)
    /\ Held(out, b) => ~InQueue(sendQ, b) /\ ~InQueue(recvQ, b)
    /\ InQueue(sendQ, b) => ~InQueue(recvQ, b)

\* ... and only while it is allocated.
NoDangling == \A b \in Blocks : Referenced(b) => b \in live

\* Whatever the four threads, the reconnects and the two queues do, no heap
\* packet is freed twice, queued or held as one's own after its free, or handed
\* to two threads: who pops or allocates a packet is the one to free it
\* (queuePacket, trySendQueue, recvTcp, readFunc).  The copy that
\* sendCaptureInfPacket makes of a packet it has given away is no ownership:
\* see CopiedWhileLive.
PacketOwnership == OneOwner /\ NoDangling

\* The receive queue has one producer, so between isFull and push nobody can
\* take its last place (recvTcp, recvUdp): no received packet is lost there.
RecvPushSucceeds == At("recv", "put") => Len(recvQ) < QueueSize

\* A packet the receive side holds or has queued is never leaked: while it is
\* allocated, a thread or a queue still has it after every step.
ReceivedNeverLost ==
  [][\A b \in Blocks :
       (cur["recv"] = b \/ InQueue(recvQ, b) \/ cur["read"] = b) /\ b \in live'
          => Referenced(b)']_vars

\* CONNECTED is true of the socket: with no thread inside closeSocket or init,
\* a client that says CONNECTED holds an open descriptor that was connected,
\* unless two threads replaced the socket at the same time and no thread has
\* opened one alone since (init, closeSocket).
Quiet == \A t \in Threads : pc[t] \notin Inside
ConnectedIsReal ==
  Quiet /\ ~crossed /\ Connected => fd \in Fds /\ link[fd] \in {"up", "broken"}

\* "Free up all blocked threads": a thread blocked on its queue when recvFunc
\* ends gets out of that pop, also when the queue had no room for the null.
WakesReader == (At("recv", "wakerecv") /\ At("read", "pop")) ~> ~At("read", "pop")
WakesSender == (At("recv", "wakesend") /\ At("send", "sendpop")) ~> ~At("send", "sendpop")

\* As long as the receive thread is the only one that reconnects, a connection
\* it has closed is made again, however often Connect fails in between.
LoneReconnectSucceeds ==
  [](\A t \in {"send", "read"} : ~At(t, "close"))
     => [](At("recv", "init") => <>Connected)

-----------------------------------------------------------------------------
(* What comments in the code say, and the interleavings refute.            *)

\* SocketClient.cpp:108 "start recv and send threads after succesful
\* connection": once connected, both socket threads run.
ThreadsServeConnection ==
  Connected /\ (\A t \in Threads : ~At(t, "spawn")) => ~At("recv", "done") /\ ~At("send", "done")

\* Client.hpp:238 "Backups for our last player/game packets, used for example
\* to re-send them": the backups are never freed, so they can be sent again.
BackupsAlive == Backups \subseteq live

\* Client.hpp:238 "Backups for our last player/game packets": a backup is a copy
\* of the packet that was sent, so the packet read for it is still allocated.
CopiedWhileLive == At("game", "copy") => kept \in live

=============================================================================
