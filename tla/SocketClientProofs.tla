------------------------- MODULE SocketClientProofs -------------------------
(***************************************************************************)
(* Theorems about SocketClient, for any heap, queue size, number of        *)
(* descriptors and list of resent packets.                                 *)
(***************************************************************************)
EXTENDS SocketClient, SequenceTheorems, TLAPS

USE QueueSizeAssumption, DescriptorAssumption, StorageAssumption, FlagAssumption

-----------------------------------------------------------------------------
(* The pieces several actions share.                                       *)

\* A free descriptor is one of the process, and not in use.
LEMMA NewFdFree == FreeFds # {} => NewFd \in Fds /\ link[NewFd] = "closed"
  BY DEF FreeFds, NewFd

\* A push keeps the queue's type and its bound.
LEMMA PushedType ==
  ASSUME NEW S, NEW q \in Seq(S), Len(q) <= QueueSize, NEW p \in S
  PROVE  Pushed(q, p) \in Seq(S) /\ Len(Pushed(q, p)) <= QueueSize
  BY DEF Pushed

\* The caller of tryReconnect goes on at a label it has.
LEMMA AfterLabel ==
  ASSUME NEW t \in Threads, NEW r \in BOOLEAN
  PROVE  After(t, r) \in Labels
  BY DEF After, Labels, Threads

LEMMA ReturnType ==
  ASSUME TypeOK, NEW t \in Threads, NEW r \in BOOLEAN, Return(t, r)
  PROVE  /\ pc' \in [Threads -> Labels]
         /\ nextRes' \in [Threads -> 0..Len(Resent) + 1]
         /\ frames' \in [Threads -> Seq(ConTypes)]
<1>0. Len(Resent) \in Nat /\ 1 \in 0..Len(Resent) + 1 /\ 0 \in 0..Len(Resent) + 1
  OBVIOUS
<1>1. CASE frames[t] = <<>>
  <2>1. /\ pc' = [pc EXCEPT ![t] = After(t, r)]
        /\ nextRes' = [nextRes EXCEPT ![t] = 0]
        /\ frames' = frames
    BY <1>1 DEF Return, Goto
  <2> QED
    BY <1>0, <2>1, AfterLabel DEF TypeOK
<1>2. CASE frames[t] # <<>>
  <2>1. frames[t] \in Seq(ConTypes) /\ Tail(frames[t]) \in Seq(ConTypes)
    BY <1>2 DEF TypeOK
  <2>2. frames' = [frames EXCEPT ![t] = Tail(frames[t])]
    BY <1>2 DEF Return
  <2>3. CASE Head(frames[t]) = "RECONNECT"
    BY <1>0, <1>2, <2>1, <2>2, <2>3 DEF Return, TypeOK, Goto, Labels
  <2>4. CASE Head(frames[t]) # "RECONNECT"
    BY <1>0, <1>2, <2>1, <2>2, <2>4, AfterLabel DEF Return, TypeOK, Goto
  <2> QED
    BY <2>3, <2>4
<1> QED
  BY <1>1, <1>2

LEMMA ProduceType ==
  ASSUME TypeOK, NEW t \in Threads, NEW l \in Labels, Produce(t, l)
  PROVE  /\ pc' \in [Threads -> Labels]
         /\ out' \in [Threads -> Packets \cup {Null}]
         /\ live' \subseteq Packets
<1>1. CASE Goto(t, l) /\ UNCHANGED <<out, live>>
  BY <1>1 DEF TypeOK, Goto
<1>2. ASSUME NEW b \in Blocks, out' = [out EXCEPT ![t] = b], live' = live \cup {b}, Goto(t, "check")
      PROVE  /\ pc' \in [Threads -> Labels]
             /\ out' \in [Threads -> Packets \cup {Null}]
             /\ live' \subseteq Packets
  <2>1. "check" \in Labels /\ b \in Packets
    BY DEF Labels, Packets
  <2> QED
    BY <1>2, <2>1 DEF TypeOK, Goto
<1> QED
  BY <1>1, <1>2 DEF Produce

LEMMA AfterQueueLabel == ASSUME NEW t \in Threads PROVE AfterQueue(t) \in Labels
  BY DEF AfterQueue, Labels, Threads

-----------------------------------------------------------------------------
(* The type invariant.  It needs that the receive thread only ever holds   *)
(* heap blocks, or recvQ could not be said to, and that a thread inside    *)
(* resendInitPackets has begun with the first packet.                      *)

RecvHoldsBlock == cur["recv"] \in Blocks \cup {Null}
IndexInv == \A t \in Threads : At(t, "resend") => nextRes[t] > 0
TypeInv == TypeOK /\ RecvHoldsBlock /\ IndexInv

\* A thread that is not in the middle of resendInitPackets can be anywhere else.
LEMMA IndexReturn ==
  ASSUME TypeOK, IndexInv, NEW t \in Threads, NEW r \in BOOLEAN, Return(t, r)
  PROVE  IndexInv'
<1>1. After(t, r) # "resend" /\ After(t, TRUE) # "resend"
  BY DEF After
<1>2. CASE frames[t] = <<>>
  BY <1>1, <1>2 DEF Return, IndexInv, TypeOK, Goto, At
<1>3. CASE frames[t] # <<>> /\ Head(frames[t]) = "RECONNECT"
  <2>1. pc' = [pc EXCEPT ![t] = "resend"] /\ nextRes' = [nextRes EXCEPT ![t] = 1]
    BY <1>3 DEF Return, Goto
  <2> QED
    BY <2>1 DEF IndexInv, TypeOK, At
<1>4. CASE frames[t] # <<>> /\ Head(frames[t]) # "RECONNECT"
  BY <1>1, <1>4 DEF Return, IndexInv, TypeOK, Goto, At
<1> QED
  BY <1>2, <1>3, <1>4

LEMMA IndexGoto ==
  ASSUME TypeOK, IndexInv, NEW t \in Threads, NEW l, l # "resend", Goto(t, l), UNCHANGED nextRes
  PROVE  IndexInv'
  BY DEF IndexInv, TypeOK, Goto, At

LEMMA IndexReconnecting ==
  ASSUME TypeOK, IndexInv, NEW t \in Threads, Reconnecting(t)
  PROVE  IndexInv'
<1>1. CASE CloseQueue(t) \/ CloseTest(t) \/ Closed(t)
  BY <1>1, IndexGoto DEF CloseQueue, CloseTest, Closed
<1>2. CASE CloseSocket(t)
  BY <1>2, IndexReturn, IndexGoto DEF CloseSocket
<1>3. CASE InitSocket(t) \/ Connect(t) \/ OpenUdp(t)
  BY <1>3, IndexGoto DEF InitSocket, Connect, OpenUdp
<1>4. CASE OpenQueue(t) \/ SayConnected(t) \/ InitFails(t)
  BY <1>4, IndexReturn, IndexGoto DEF OpenQueue, SayConnected, InitFails
<1>5. CASE StartThreads(t)
  BY <1>5 DEF StartThreads, IndexInv, TypeOK, Goto, At
<1>6. CASE Greet(t)
  <2>1. CASE Return(t, TRUE)
    BY <2>1, IndexReturn
  <2>2. CASE Goto(t, "resend") /\ nextRes' = [nextRes EXCEPT ![t] = 1]
    BY <2>2 DEF IndexInv, TypeOK, Goto, At
  <2>3. CASE Goto(t, "close") /\ UNCHANGED nextRes
    BY <2>3, IndexGoto
  <2> QED
    BY <1>6, <2>1, <2>2, <2>3 DEF Greet
<1>7. CASE Resend(t)
  <2>1. CASE Return(t, TRUE)
    BY <2>1, IndexReturn
  <2>2. CASE nextRes[t] <= Len(Resent) /\ nextRes' = [nextRes EXCEPT ![t] = @ + 1]
    <3>1. nextRes[t] > 0 /\ nextRes[t] \in Nat
      BY <1>7 DEF Resend, IndexInv, TypeOK
    <3>2. \A u \in Threads \ {t} : pc'[u] = pc[u]
      BY <1>7, <2>2 DEF Resend, Return, Produce, Goto, TypeOK
    <3> QED
      BY <2>2, <3>1, <3>2 DEF IndexInv, TypeOK, At
  <2> QED
    BY <1>7, <2>1, <2>2 DEF Resend
<1> QED
  BY <1>1, <1>2, <1>3, <1>4, <1>5, <1>6, <1>7 DEF Reconnecting

\* Entering with others inside counts as a crossing.
LEMMA EnterType ==
  ASSUME TypeOK, NEW t \in Threads, Enter(t)
  PROVE  crossed' \in BOOLEAN /\ crossings' \in 0..MaxCrossings
<1>1. crossings \in 0..MaxCrossings /\ crossed \in BOOLEAN
  BY DEF TypeOK
<1>2. CASE Alone(t)
  BY <1>1, <1>2 DEF Enter, crossVars
<1>3. CASE ~Alone(t)
  <2>1. crossings < MaxCrossings /\ crossings' = crossings + 1 /\ crossed' = TRUE
    BY <1>3 DEF Enter
  <2> QED
    BY <1>1, <2>1
<1> QED
  BY <1>2, <1>3

\* closeSocket, init and resendInitPackets.
LEMMA TypeReconnecting ==
  ASSUME TypeInv, NEW t \in Threads, Reconnecting(t)
  PROVE  TypeOK' /\ RecvHoldsBlock'
<1> USE DEF TypeInv, RecvHoldsBlock, connVars, queueVars, crossVars, netVars
<1> DEFINE Ls == {"test", "init", "closing", "closed", "connect", "udp", "failed", "online", "say", "spawn"}
<1>0. ASSUME NEW l \in Ls, Goto(t, l) PROVE pc' \in [Threads -> Labels]
  <2>1. l \in Labels
    BY <1>0 DEF Labels
  <2> HIDE DEF Ls
  <2> QED
    BY <1>0, <2>1 DEF TypeOK, Goto
<1> HIDE DEF Ls
<1>1. CASE CloseQueue(t) \/ CloseTest(t)
  <2>1. PICK l \in {"test", "init", "closing"} : Goto(t, l)
    BY <1>1 DEF CloseQueue, CloseTest
  <2>2. pc' \in [Threads -> Labels]
    BY <1>0, <2>1 DEF Ls
  <2>3. crossed' \in BOOLEAN /\ crossings' \in 0..MaxCrossings
    BY <1>1, EnterType DEF CloseQueue, CloseTest, TypeOK
  <2> QED
    BY <1>1, <2>2, <2>3 DEF CloseQueue, CloseTest, TypeOK
<1>2. CASE CloseSocket(t) \/ InitFails(t)
  <2>1. link' \in [Fds -> LinkStates] /\ sockState' \in SockStates
    BY <1>2 DEF CloseSocket, InitFails, TypeOK, LinkStates, SockStates
  <2>2. /\ pc' \in [Threads -> Labels]
        /\ nextRes' \in [Threads -> 0..Len(Resent) + 1]
        /\ frames' \in [Threads -> Seq(ConTypes)]
    BY <1>2, ReturnType DEF CloseSocket, InitFails, TypeOK, Goto, Labels
  <2> QED
    BY <1>2, <2>1, <2>2 DEF CloseSocket, InitFails, TypeOK
<1>3. CASE Closed(t) \/ OpenQueue(t) \/ SayConnected(t)
  <2>1. PICK l \in {"init", "say", "spawn"} : Goto(t, l)
    BY <1>3 DEF Closed, OpenQueue, SayConnected
  <2>2. pc' \in [Threads -> Labels]
    BY <1>0, <2>1 DEF Ls
  <2>3. sockState' \in SockStates /\ queueOpen' \in BOOLEAN
    BY <1>3 DEF Closed, OpenQueue, SayConnected, TypeOK, SockStates
  <2> QED
    BY <1>3, <2>2, <2>3 DEF Closed, OpenQueue, SayConnected, TypeOK
<1>4. CASE InitSocket(t) \/ Connect(t) \/ OpenUdp(t)
  <2>1. fd' \in 0..MaxFd /\ crossed' \in BOOLEAN
    <3>1. FreeFds # {} => NewFd \in 0..MaxFd
      BY NewFdFree DEF Fds
    <3>2. fd \in 0..MaxFd /\ 0 \in 0..MaxFd /\ crossed \in BOOLEAN
      BY DEF TypeOK
    <3>3. fd' \in {fd, 0} \/ (FreeFds # {} /\ fd' = NewFd)
      BY <1>4 DEF InitSocket, Connect, OpenUdp
    <3>4. crossed' \in {crossed, crossed /\ ~Alone(t)}
      BY <1>4 DEF InitSocket, Connect, OpenUdp
    <3> QED
      BY <3>1, <3>2, <3>3, <3>4
  <2>2. link' \in [Fds -> LinkStates]
    BY <1>4 DEF InitSocket, Connect, OpenUdp, TypeOK, LinkStates
  <2>3. PICK l \in {"failed", "connect", "udp", "online"} : Goto(t, l)
    BY <1>4 DEF InitSocket, Connect, OpenUdp
  <2>4. pc' \in [Threads -> Labels]
    BY <1>0, <2>3 DEF Ls
  <2> QED
    BY <1>4, <2>1, <2>2, <2>4 DEF InitSocket, Connect, OpenUdp, TypeOK
<1>5. CASE StartThreads(t)
  <2>1. pc' \in [Threads -> Labels]
    <3>1. "recv" \in Labels /\ "sendpop" \in Labels /\ "greet" \in Labels
      BY DEF Labels
    <3> QED
      BY <1>5, <3>1 DEF StartThreads, TypeOK, Goto
  <2> QED
    BY <1>5, <2>1 DEF StartThreads, TypeOK
<1>6. CASE Greet(t)
  <2> DEFINE conType == IF firstConn THEN "INIT" ELSE "RECONNECT"
  <2>0. conType \in ConTypes /\ Len(Resent) \in Nat
    BY DEF ConTypes
  <2>1. /\ pc' \in [Threads -> Labels]
        /\ nextRes' \in [Threads -> 0..Len(Resent) + 1]
        /\ frames' \in [Threads -> Seq(ConTypes)]
    <3>1. CASE Return(t, TRUE)
      BY <3>1, ReturnType
    <3>2. CASE Goto(t, "resend") /\ nextRes' = [nextRes EXCEPT ![t] = 1] /\ UNCHANGED frames
      BY <2>0, <3>2 DEF TypeOK, Goto, Labels
    <3>3. CASE /\ frames' = [frames EXCEPT ![t] = <<conType>> \o @]
               /\ Goto(t, "close") /\ UNCHANGED nextRes
      <4>1. <<conType>> \o frames[t] \in Seq(ConTypes)
        BY <2>0 DEF TypeOK
      <4> HIDE DEF conType
      <4> QED
        BY <3>3, <4>1 DEF TypeOK, Goto, Labels
    <3> QED
      BY <1>6, <3>1, <3>2, <3>3 DEF Greet
  <2> HIDE DEF conType
  <2> QED
    BY <1>6, <2>1 DEF Greet, TypeOK
<1>7. CASE Resend(t)
  <2>0. Len(Resent) \in Nat /\ nextRes[t] \in 1..Len(Resent) + 1
    BY <1>7 DEF TypeOK, Resend, IndexInv
  <2>1. CASE Return(t, TRUE) /\ UNCHANGED <<live, out>>
    BY <1>7, <2>1, ReturnType DEF Resend, TypeOK
  <2>2. CASE /\ nextRes[t] <= Len(Resent)
             /\ nextRes' = [nextRes EXCEPT ![t] = @ + 1]
             /\ UNCHANGED frames
    <3>1. nextRes' \in [Threads -> 0..Len(Resent) + 1]
      BY <2>0, <2>2 DEF TypeOK
    <3>2. CASE Produce(t, "resend")
      BY <1>7, <2>2, <3>1, <3>2, ProduceType DEF Resend, TypeOK, Labels
    <3>3. CASE /\ Resent[nextRes[t]] # Fresh
               /\ out' = [out EXCEPT ![t] = Resent[nextRes[t]]]
               /\ Goto(t, "check")
               /\ UNCHANGED live
      <4>1. Resent[nextRes[t]] \in Packets
        BY <2>0, <2>2, <3>3 DEF Packets
      <4> QED
        BY <1>7, <2>2, <3>1, <3>3, <4>1 DEF Resend, TypeOK, Goto, Labels
    <3>4. \/ Produce(t, "resend")
          \/ /\ Resent[nextRes[t]] # Fresh
             /\ out' = [out EXCEPT ![t] = Resent[nextRes[t]]]
             /\ Goto(t, "check")
             /\ UNCHANGED live
      <4>1. ~(nextRes[t] > Len(Resent))
        BY <2>0, <2>2
      <4> QED
        BY <1>7, <4>1 DEF Resend
    <3> QED
      BY <3>2, <3>3, <3>4
  <2> QED
    BY <1>7, <2>1, <2>2 DEF Resend
<1> QED
  BY <1>1, <1>2, <1>3, <1>4, <1>5, <1>6, <1>7 DEF Reconnecting

\* queuePacket.
LEMMA TypeQueueing ==
  ASSUME TypeInv, NEW t \in Threads, Queueing(t)
  PROVE  TypeInv'
<1> USE DEF TypeInv, RecvHoldsBlock, connVars, crossVars, netVars
<1>0. AfterQueue(t) \in Labels /\ (AfterQueue(t) = "resend" => nextRes[t] > 0)
  BY AfterQueueLabel DEF AfterQueue
<1>1. pc' \in [Threads -> Labels]
  <2>1. PICK l \in {"push", AfterQueue(t)} : Goto(t, l)
    BY DEF Queueing, QueueCheck, QueuePush
  <2> QED
    BY <1>0, <2>1 DEF TypeOK, Goto, Labels
<1>2. IndexInv'
  BY <1>0 DEF Queueing, QueueCheck, QueuePush, TypeOK, Goto, IndexInv, At
<1>3. CASE QueueCheck(t)
  BY <1>1, <1>2, <1>3 DEF QueueCheck, TypeOK
<1>4. CASE QueuePush(t)
  <2>1. sendQ' \in Seq(Packets \cup {Null}) /\ Len(sendQ') <= QueueSize
    BY <1>4, PushedType DEF QueuePush, TypeOK
  <2> QED
    BY <1>1, <1>2, <1>4, <2>1 DEF QueuePush, TypeOK
<1> QED
  BY <1>3, <1>4 DEF Queueing

LEMMA TypeGame == ASSUME TypeInv, GamePacket \/ CopyPacket PROVE TypeInv'
<1> USE DEF TypeInv, RecvHoldsBlock, connVars, queueVars, crossVars, netVars
<1>1. "game" \in Threads /\ "idle" \in Labels /\ "check" \in Labels
  BY DEF Threads, Labels
<1>2. CASE GamePacket
  <2>1. /\ pc' \in [Threads -> Labels]
        /\ out' \in [Threads -> Packets \cup {Null}]
        /\ live' \subseteq Packets
    BY <1>1, <1>2, ProduceType DEF GamePacket
  <2>2. kept' \in Packets \cup {Null}
    BY <1>1, <1>2, <2>1 DEF GamePacket
  <2>3. TypeOK'
    BY <1>2, <2>1, <2>2 DEF GamePacket, TypeOK
  <2>4. IndexInv'
    BY <1>1, <1>2 DEF GamePacket, Produce, Goto, TypeOK, IndexInv, At
  <2> QED
    BY <1>2, <2>3, <2>4 DEF GamePacket
<1>3. CASE CopyPacket
  BY <1>1, <1>3 DEF CopyPacket, TypeOK, Goto, IndexInv, At
<1> QED
  BY <1>2, <1>3

\* sendFunc.
LEMMA TypeSend == ASSUME TypeInv, SendPop \/ SendPacket \/ SendFree PROVE TypeInv'
<1> USE DEF TypeInv, RecvHoldsBlock, connVars, queueVars, crossVars, netVars
<1>1. {"send", "sendfree", "sendfail", "sendpop", "close", "done"} \subseteq Labels
      /\ "send" \in Threads /\ "recv" \in Threads
  BY DEF Threads, Labels
<1>2. IndexInv' /\ pc' \in [Threads -> Labels]
  <2>1. PICK l \in {"send", "sendfree", "sendfail", "sendpop", "close", "done"} :
          Goto("send", l) /\ UNCHANGED nextRes
    BY DEF SendPop, SendPacket, SendFree
  <2> QED
    BY <1>1, <2>1 DEF Goto, TypeOK, IndexInv, At
<1>3. CASE SendPop
  <2>1. Head(sendQ) \in Packets \cup {Null}
    BY <1>3 DEF SendPop, TypeOK
  <2>2. Tail(sendQ) \in Seq(Packets \cup {Null}) /\ Len(Tail(sendQ)) <= QueueSize
    BY <1>3 DEF SendPop, TypeOK
  <2> QED
    BY <1>1, <1>2, <1>3, <2>1, <2>2 DEF SendPop, TypeOK
<1>4. CASE SendPacket
  BY <1>2, <1>4 DEF SendPacket, TypeOK
<1>5. CASE SendFree
  BY <1>1, <1>2, <1>5 DEF SendFree, TypeOK
<1> QED
  BY <1>3, <1>4, <1>5

\* recvFunc.
Receiving ==
  \/ RecvError \/ RecvPacket \/ RecvAdmit \/ RecvPut \/ RecvTest \/ RecvWakeSend \/ RecvWakeRecv

LEMMA TypeRecv == ASSUME TypeInv, Receiving PROVE TypeInv'
<1> USE DEF TypeInv, RecvHoldsBlock, connVars, queueVars, crossVars, netVars
<1>1. {"recv", "close", "admit", "admitudp", "put", "recvtest", "wakesend", "wakerecv", "done"}
        \subseteq Labels /\ "recv" \in Threads
  BY DEF Threads, Labels
<1>2. IndexInv' /\ pc' \in [Threads -> Labels]
  <2>1. PICK l \in {"recv", "close", "admit", "admitudp", "put", "wakesend", "wakerecv", "done"} :
          Goto("recv", l) /\ UNCHANGED nextRes
    BY DEF Receiving, RecvError, RecvPacket, RecvAdmit, RecvPut, RecvTest, RecvWakeSend,
           RecvWakeRecv, RecvChange
  <2> QED
    BY <1>1, <2>1 DEF Goto, TypeOK, IndexInv, At
<1>3. CASE RecvError \/ RecvTest
  BY <1>2, <1>3 DEF RecvError, RecvTest, TypeOK
<1>4. ASSUME NEW l, NEW c \in Blocks \cup {Null}, NEW L \in SUBSET Packets, RecvChange(l, c, L)
      PROVE  TypeInv'
  <2>1. cur' \in [Threads -> Packets \cup {Null}] /\ cur'["recv"] = c
    BY <1>1, <1>4 DEF RecvChange, TypeOK, Packets
  <2> QED
    BY <1>2, <1>4, <2>1 DEF RecvChange, TypeOK
<1>5. CASE RecvPacket
  <2>1. PICK b \in Blocks, l \in {"admit", "admitudp"} : RecvChange(l, b, live \cup {b})
    BY <1>5 DEF RecvPacket
  <2>2. live \cup {b} \in SUBSET Packets
    BY DEF TypeOK, Packets
  <2> QED
    BY <1>4, <2>1, <2>2
<1>6. CASE RecvAdmit
  <2>1. live \in SUBSET Packets /\ live \ {cur["recv"]} \in SUBSET Packets
    BY DEF TypeOK
  <2> QED
    BY <1>4, <1>6, <2>1 DEF RecvAdmit
<1>7. CASE RecvPut
  <2>1. recvQ' \in Seq(Blocks \cup {Null}) /\ Len(recvQ') <= QueueSize
    BY <1>7, PushedType DEF RecvPut, TypeOK
  <2> QED
    BY <1>1, <1>2, <1>7, <2>1 DEF RecvPut, TypeOK
<1>8. CASE RecvWakeSend
  <2>1. sendQ' \in Seq(Packets \cup {Null}) /\ Len(sendQ') <= QueueSize
    BY <1>8, PushedType DEF RecvWakeSend, TypeOK
  <2> QED
    BY <1>2, <1>8, <2>1 DEF RecvWakeSend, TypeOK
<1>9. CASE RecvWakeRecv
  <2>1. recvQ' \in Seq(Blocks \cup {Null}) /\ Len(recvQ') <= QueueSize
    BY <1>9, PushedType DEF RecvWakeRecv, TypeOK
  <2> QED
    BY <1>2, <1>9, <2>1 DEF RecvWakeRecv, TypeOK
<1> QED
  BY <1>3, <1>5, <1>6, <1>7, <1>8, <1>9 DEF Receiving

\* startConnection and readFunc.
Reading ==
  \/ ReadBegin \/ ReadTest \/ ReadPop \/ ReadInitPacket \/ ReadHandle
  \/ ReadDirectSend \/ ReadAnswer \/ ReadRelease

LEMMA TypeRead == ASSUME TypeInv, Reading PROVE TypeInv'
<1> USE DEF TypeInv, RecvHoldsBlock, connVars, queueVars, crossVars, netVars
<1> DEFINE Ls == {"init", "popinit", "done", "pop", "get", "handle", "tossinit", "getinit",
                  "release", "fresh", "direct", "close", "check"}
<1>1. Ls \subseteq Labels /\ "read" \in Threads /\ "recv" \in Threads
  BY DEF Threads, Labels
<1>2. IndexInv' /\ pc' \in [Threads -> Labels]
  <2>1. CASE UNCHANGED <<pc, nextRes>>
    BY <2>1 DEF IndexInv, TypeOK, At
  <2>2. ASSUME NEW l \in Ls, Goto("read", l), UNCHANGED nextRes PROVE IndexInv' /\ pc' \in [Threads -> Labels]
    BY <1>1, <2>2 DEF Goto, TypeOK, IndexInv, At
  <2>3. \/ UNCHANGED <<pc, nextRes>>
        \/ \E l \in Ls : Goto("read", l) /\ UNCHANGED nextRes
    <3>1. CASE ReadBegin \/ ReadTest \/ ReadInitPacket \/ ReadRelease
      BY <3>1 DEF ReadBegin, ReadTest, ReadInitPacket, ReadRelease
    <3>2. CASE ReadPop
      BY <3>2 DEF ReadPop
    <3>3. CASE ReadHandle
      BY <3>3 DEF ReadHandle
    <3>4. CASE ReadDirectSend
      BY <3>4 DEF ReadDirectSend
    <3>5. CASE ReadAnswer
      BY <3>5 DEF ReadAnswer, Produce
    <3> QED
      BY <3>1, <3>2, <3>3, <3>4, <3>5 DEF Reading
  <2> QED
    BY <2>1, <2>2, <2>3
<1> HIDE DEF Ls
<1>3. CASE ReadBegin \/ ReadTest
  <2>1. crossed' \in BOOLEAN /\ crossings' \in 0..MaxCrossings
    BY <1>1, <1>3, EnterType DEF ReadBegin, ReadTest, TypeOK
  <2> QED
    BY <1>2, <1>3, <2>1 DEF ReadBegin, ReadTest, TypeOK
<1>4. CASE ReadPop
  <2>1. Head(recvQ) \in Packets \cup {Null}
    BY <1>4 DEF ReadPop, TypeOK, Packets
  <2>2. Tail(recvQ) \in Seq(Blocks \cup {Null}) /\ Len(Tail(recvQ)) <= QueueSize
    BY <1>4 DEF ReadPop, TypeOK
  <2> QED
    BY <1>1, <1>2, <1>4, <2>1, <2>2 DEF ReadPop, TypeOK
<1>5. CASE ReadInitPacket
  BY <1>1, <1>2, <1>5 DEF ReadInitPacket, TypeOK
<1>6. CASE ReadHandle
  <2>1. direct' \in 0..DirectSends + 1
    BY <1>6 DEF ReadHandle
  <2> QED
    BY <1>2, <1>6, <2>1 DEF ReadHandle, TypeOK
<1>7. CASE ReadDirectSend
  <2>1. direct' \in 0..DirectSends + 1
    BY <1>7 DEF ReadDirectSend, TypeOK
  <2> QED
    BY <1>2, <1>7, <2>1 DEF ReadDirectSend, TypeOK
<1>8. CASE ReadAnswer
  <2>1. "read" \in Threads /\ {"release", "direct"} \subseteq Labels
    BY DEF Labels, Threads
  <2>2. direct' \in 0..DirectSends + 1
    BY <1>8, DescriptorAssumption DEF ReadAnswer, TypeOK
  <2>3. /\ pc' \in [Threads -> Labels]
        /\ out' \in [Threads -> Packets \cup {Null}]
        /\ live' \subseteq Packets
    BY <1>8, <2>1, ProduceType DEF ReadAnswer
  <2> QED
    BY <1>1, <1>2, <1>8, <2>2, <2>3 DEF ReadAnswer, TypeOK
<1>9. CASE ReadRelease
  BY <1>1, <1>2, <1>9 DEF ReadRelease, TypeOK
<1> QED
  BY <1>3, <1>4, <1>5, <1>6, <1>7, <1>8, <1>9 DEF Reading

LEMMA TypeNetwork == ASSUME TypeInv, Network PROVE TypeInv'
<1> USE DEF TypeInv, RecvHoldsBlock, queueVars, connVars, crossVars
<1>1. ASSUME NEW D, Break(D) PROVE link' \in [Fds -> LinkStates]
  BY <1>1 DEF Break, TypeOK, LinkStates
<1>2. CASE ServerDrops
  <2>1. PICK d \in Fds : Break({d})
    BY <1>2 DEF ServerDrops
  <2>2. link' \in [Fds -> LinkStates]
    BY <1>1, <2>1
  <2> QED
    BY <1>2, <2>2 DEF ServerDrops, TypeOK, IndexInv, At
<1>3. CASE NetworkDown
  <2>1. link' \in [Fds -> LinkStates]
    BY <1>1, <1>3 DEF NetworkDown
  <2>2. drops' \in 0..MaxDrops /\ net' \in BOOLEAN
    <3>1. drops \in 0..MaxDrops
      BY DEF TypeOK
    <3>2. drops < MaxDrops /\ drops' = drops + 1
      BY <1>3 DEF NetworkDown
    <3>3. net' \in BOOLEAN
      BY <1>3 DEF NetworkDown
    <3> QED
      BY <3>1, <3>2, <3>3
  <2>3. UNCHANGED <<sockState, fd, queueOpen, firstConn, sendQ, recvQ, live, pc, cur, out,
                    nextRes, frames, direct, kept, crossed, crossings>>
    BY <1>3 DEF NetworkDown
  <2> QED
    BY <2>1, <2>2, <2>3 DEF TypeOK, IndexInv, At
<1>4. CASE NetworkUp
  BY <1>4 DEF NetworkUp, TypeOK, IndexInv, At
<1> QED
  BY <1>2, <1>3, <1>4 DEF Network

\* A step is one of the five kinds above, or nothing changes.
LEMMA StepKinds ==
  ASSUME [Next]_vars
  PROVE  \/ GamePacket \/ CopyPacket
         \/ SendPop \/ SendPacket \/ SendFree
         \/ Receiving
         \/ Reading
         \/ \E t \in Threads : Reconnecting(t) \/ Queueing(t)
         \/ Network
         \/ UNCHANGED vars
  BY DEF Next, Game, Send, Recv, Read, Receiving, Reading, Threads

LEMMA TypeStep == TypeInv /\ [Next]_vars => TypeInv'
<1> SUFFICES ASSUME TypeInv, [Next]_vars PROVE TypeInv'
  OBVIOUS
<1>1. ASSUME NEW t \in Threads, Reconnecting(t) PROVE TypeInv'
  <2>1. TypeOK /\ IndexInv
    BY DEF TypeInv
  <2>2. TypeOK' /\ RecvHoldsBlock'
    BY <1>1, TypeReconnecting
  <2>3. IndexInv'
    BY <1>1, <2>1, IndexReconnecting
  <2> QED
    BY <2>2, <2>3 DEF TypeInv
<1>2. CASE UNCHANGED vars
  BY <1>2 DEF vars, connVars, queueVars, crossVars, netVars, TypeInv, TypeOK, RecvHoldsBlock, IndexInv, At
<1> QED
  BY <1>1, <1>2, StepKinds, TypeGame, TypeSend, TypeRecv, TypeRead, TypeQueueing, TypeNetwork

LEMMA TypeInit == Init => TypeInv
<1> SUFFICES ASSUME Init PROVE TypeInv
  OBVIOUS
<1> USE DEF Init
<1>1. sockState \in SockStates /\ fd \in 0..MaxFd /\ link \in [Fds -> LinkStates]
  BY DEF SockStates, LinkStates
<1>2. /\ queueOpen \in BOOLEAN /\ firstConn \in BOOLEAN /\ net \in BOOLEAN
      /\ kept \in Packets \cup {Null} /\ crossed \in BOOLEAN
  OBVIOUS
<1>3. /\ sendQ \in Seq(Packets \cup {Null}) /\ Len(sendQ) <= QueueSize
      /\ recvQ \in Seq(Blocks \cup {Null}) /\ Len(recvQ) <= QueueSize
  OBVIOUS
<1>4. live \subseteq Packets
  BY DEF Packets
<1>5. pc \in [Threads -> Labels]
  BY DEF Labels
<1>6. cur \in [Threads -> Packets \cup {Null}] /\ out \in [Threads -> Packets \cup {Null}]
  OBVIOUS
<1>7. nextRes \in [Threads -> 0..Len(Resent) + 1] /\ frames \in [Threads -> Seq(ConTypes)]
  OBVIOUS
<1>8. direct \in 0..DirectSends + 1 /\ drops \in 0..MaxDrops /\ crossings \in 0..MaxCrossings
  OBVIOUS
<1>9. RecvHoldsBlock /\ IndexInv
  BY DEF RecvHoldsBlock, IndexInv, At, Threads
<1> QED
  BY <1>1, <1>2, <1>3, <1>4, <1>5, <1>6, <1>7, <1>8, <1>9 DEF TypeInv, TypeOK

LEMMA TypeAlways == Spec => []TypeInv
  BY TypeInit, TypeStep, PTL DEF Spec

\* Type correctness: the queues never exceed maxBufSize, also when producers
\* race past isFull, and every variable keeps its shape (SocketClient).
THEOREM TypeCorrect == Spec => []TypeOK
<1>1. TypeInv => TypeOK
  BY DEF TypeInv
<1> QED
  BY <1>1, TypeAlways, PTL

-----------------------------------------------------------------------------
(* CONNECTED is true of the socket.  Unless threads crossed, one thread at  *)
(* most is inside closeSocket or init; while CONNECTED is said the          *)
(* descriptor is a connected one, or that thread has closed or replaced it  *)
(* and writes the state before it leaves.                                   *)

RealFd == fd \in Fds /\ link[fd] \in {"up", "broken"}
Replacing == Inside \ {"closing"}
OneInside == \A t, u \in Threads : pc[t] \in Inside /\ pc[u] \in Inside => t = u
RealInv ==
  ~crossed => /\ OneInside
              /\ Connected => RealFd \/ \E t \in Threads : pc[t] \in Replacing
              /\ \A t \in Threads : pc[t] \in {"udp", "online", "say"} => RealFd

\* A step that leaves the socket alone and moves no thread into or out of it.
LEMMA RealElsewhere ==
  ASSUME RealInv, UNCHANGED <<sockState, fd, link, crossed>>,
         \A u \in Threads : pc'[u] = pc[u] \/ (pc[u] \notin Inside /\ pc'[u] \notin Inside)
  PROVE  RealInv'
  BY DEF RealInv, Connected, RealFd, OneInside, Replacing, Inside

\* A thread goes in: alone, or this is a crossing.
LEMMA RealEnter ==
  ASSUME TypeInv, RealInv, NEW t \in Threads, pc[t] \notin Inside, Enter(t),
         UNCHANGED <<sockState, fd, link>>, NEW l \in {"closing", "init"}, Goto(t, l)
  PROVE  RealInv'
<1>1. pc \in [Threads -> Labels]
  BY DEF TypeInv, TypeOK
<1>2. CASE Alone(t)
  BY <1>1, <1>2 DEF Alone, Enter, crossVars, RealInv, Connected, RealFd, OneInside, Replacing, Inside, Goto
<1>3. CASE ~Alone(t)
  BY <1>3 DEF Enter, RealInv
<1> QED
  BY <1>2, <1>3

\* Where Return goes on is outside.
LEMMA ReturnOutside ==
  ASSUME TypeInv, NEW t \in Threads, NEW r \in BOOLEAN, Return(t, r)
  PROVE  pc'[t] \notin Inside /\ \A u \in Threads \ {t} : pc'[u] = pc[u]
<1>1. pc \in [Threads -> Labels]
  BY DEF TypeInv, TypeOK
<1>2. After(t, r) \notin Inside /\ After(t, TRUE) \notin Inside /\ "resend" \notin Inside
  BY DEF After, Inside
<1> QED
  BY <1>1, <1>2 DEF Return, Goto

LEMMA RealReplacing ==
  ASSUME TypeInv, RealInv, NEW t \in Threads,
         \/ CloseSocket(t) \/ Closed(t) \/ InitSocket(t) \/ Connect(t) \/ OpenUdp(t)
         \/ OpenQueue(t) \/ SayConnected(t) \/ InitFails(t)
  PROVE  RealInv'
<1> USE DEF At, queueVars, crossVars
<1>0. /\ pc \in [Threads -> Labels] /\ link \in [Fds -> LinkStates] /\ pc[t] \in Inside
  BY DEF TypeInv, TypeOK, CloseSocket, Closed, InitSocket, Connect, OpenUdp, OpenQueue, SayConnected,
         InitFails, Inside
<1> SUFFICES ASSUME ~crossed'
             PROVE  /\ OneInside'
                    /\ Connected' => RealFd' \/ \E u \in Threads : pc'[u] \in Replacing
                    /\ \A u \in Threads : pc'[u] \in {"udp", "online", "say"} => RealFd'
  BY DEF RealInv
<1>1. \A u \in Threads \ {t} : pc[u] \notin Inside
  <2>1. CASE InitSocket(t)
    BY <1>0, <2>1 DEF InitSocket, RealInv, OneInside, Alone
  <2>2. CASE ~InitSocket(t)
    BY <1>0, <2>2 DEF CloseSocket, Closed, Connect, OpenUdp, OpenQueue, SayConnected, InitFails,
                      RealInv, OneInside
  <2> QED
    BY <2>1, <2>2
<1>2. \A u \in Threads \ {t} : pc'[u] = pc[u]
  BY <1>0, ReturnOutside DEF CloseSocket, Closed, InitSocket, Connect, OpenUdp, OpenQueue,
     SayConnected, InitFails, Goto
<1>3. OneInside'
  BY <1>1, <1>2 DEF OneInside
<1>4. \A u \in Threads \ {t} : pc'[u] \notin {"udp", "online", "say"}
  BY <1>1, <1>2 DEF Inside
<1>5. CASE CloseSocket(t)
  <2>1. CASE Goto(t, "closed")
    BY <1>0, <1>3, <1>4, <2>1 DEF Goto, Replacing, Inside
  <2>2. CASE ~OpenFd /\ Return(t, FALSE)
    <3>1. ~crossed /\ pc[t] = "closing"
      BY <1>5 DEF CloseSocket
    <3>2. ~RealFd
      BY <2>2 DEF RealFd, OpenFd
    <3>3. ~Connected
      BY <1>1, <3>1, <3>2 DEF RealInv, Replacing
    <3>4. ~Connected' /\ pc'[t] \notin Inside
      BY <1>5, <2>2, <3>3, ReturnOutside DEF CloseSocket, Connected
    <3> QED
      BY <1>3, <1>4, <3>4 DEF Inside
  <2> QED
    BY <1>5, <2>1, <2>2 DEF CloseSocket
<1>6. CASE Closed(t)
  BY <1>0, <1>3, <1>4, <1>6 DEF Closed, Goto, Connected
<1>7. CASE InitSocket(t)
  BY <1>0, <1>3, <1>4, <1>7 DEF InitSocket, Goto, Replacing, Inside
<1>8. CASE Connect(t)
  <2>1. CASE CanConnect /\ link' = [link EXCEPT ![fd] = "up"] /\ Goto(t, "udp")
    <3>1. RealFd'
      BY <1>0, <1>8, <2>1 DEF CanConnect, Connect, RealFd
    <3> QED
      BY <1>3, <3>1
  <2>2. CASE Goto(t, "failed")
    BY <1>0, <1>3, <1>4, <2>2 DEF Goto, Replacing, Inside
  <2> QED
    BY <1>8, <2>1, <2>2 DEF Connect
<1>9. CASE OpenUdp(t)
  <2>1. RealFd
    BY <1>9 DEF OpenUdp, RealInv
  <2>2. RealFd'
    BY <1>0, <1>9, <2>1, NewFdFree DEF OpenUdp, RealFd
  <2> QED
    BY <1>3, <2>2
<1>10. CASE OpenQueue(t) \/ SayConnected(t)
  <2>1. RealFd
    BY <1>10 DEF OpenQueue, SayConnected, RealInv
  <2>2. RealFd'
    BY <1>10, <2>1 DEF OpenQueue, SayConnected, RealFd
  <2> QED
    BY <1>3, <2>2
<1>11. CASE InitFails(t)
  BY <1>3, <1>4, <1>11, ReturnOutside DEF InitFails, Connected, Inside
<1> QED
  BY <1>5, <1>6, <1>7, <1>8, <1>9, <1>10, <1>11

LEMMA RealReconnecting ==
  ASSUME TypeInv, RealInv, NEW t \in Threads, Reconnecting(t)
  PROVE  RealInv'
<1> USE DEF At, queueVars, crossVars
<1>0. pc \in [Threads -> Labels] /\ {"game", "read", "recv", "send"} \subseteq Threads
  BY DEF TypeInv, TypeOK, Threads
<1>1. ASSUME UNCHANGED <<sockState, fd, link, crossed>>, pc[t] \notin Inside,
             NEW l, l \notin Inside, Goto(t, l)
      PROVE  RealInv'
  BY <1>0, <1>1, RealElsewhere DEF Goto
<1>2. ASSUME UNCHANGED <<sockState, fd, link, crossed>>, pc[t] \notin Inside, Return(t, TRUE)
      PROVE  RealInv'
  BY <1>2, RealElsewhere, ReturnOutside
<1>3. CASE CloseQueue(t)
  BY <1>1, <1>3 DEF CloseQueue, Inside
<1>4. CASE CloseTest(t)
  BY <1>4, RealEnter DEF CloseTest, connVars, Inside
<1>5. CASE StartThreads(t)
  <2>1. \A u \in Threads : pc'[u] = pc[u] \/ (pc[u] \notin Inside /\ pc'[u] \notin Inside)
    BY <1>0, <1>5 DEF StartThreads, Goto, Inside
  <2> QED
    BY <1>5, <2>1, RealElsewhere DEF StartThreads, connVars
<1>6. CASE Greet(t)
  BY <1>1, <1>2, <1>6 DEF Greet, Inside
<1>7. CASE Resend(t)
  BY <1>1, <1>2, <1>7 DEF Resend, Produce, connVars, Inside
<1> QED
  BY <1>3, <1>4, <1>5, <1>6, <1>7, RealReplacing DEF Reconnecting

LEMMA RealStep == TypeInv /\ RealInv /\ [Next]_vars => RealInv'
<1> SUFFICES ASSUME TypeInv, RealInv, [Next]_vars PROVE RealInv'
  OBVIOUS
<1> USE DEF At, queueVars, connVars, crossVars
<1>0. /\ pc \in [Threads -> Labels] /\ link \in [Fds -> LinkStates]
      /\ {"game", "read", "recv", "send"} \subseteq Threads
  BY DEF TypeInv, TypeOK, Threads
<1>1. ASSUME NEW t \in Threads, UNCHANGED <<sockState, fd, link, crossed>>, pc[t] \notin Inside,
             UNCHANGED pc \/ \E l : Goto(t, l) /\ l \notin Inside
      PROVE  RealInv'
  <2>1. \A u \in Threads : pc'[u] = pc[u] \/ (pc[u] \notin Inside /\ pc'[u] \notin Inside)
    BY <1>0, <1>1 DEF Goto
  <2> QED
    BY <1>1, <2>1, RealElsewhere
<1>2. CASE GamePacket \/ CopyPacket
  <2>1. pc["game"] \notin Inside /\ \E l : Goto("game", l) /\ l \notin Inside
    BY <1>2 DEF GamePacket, CopyPacket, Produce, Inside
  <2> QED
    BY <1>0, <1>1, <1>2, <2>1 DEF GamePacket, CopyPacket
<1>3. CASE SendPop \/ SendPacket \/ SendFree
  <2>1. pc["send"] \notin Inside /\ \E l : Goto("send", l) /\ l \notin Inside
    BY <1>3 DEF SendPop, SendPacket, SendFree, Inside
  <2> QED
    BY <1>0, <1>1, <1>3, <2>1 DEF SendPop, SendPacket, SendFree
<1>4. CASE Receiving
  <2>1. pc["recv"] \notin Inside /\ \E l : Goto("recv", l) /\ l \notin Inside
    BY <1>4 DEF Receiving, RecvError, RecvPacket, RecvAdmit, RecvPut, RecvTest, RecvWakeSend,
                RecvWakeRecv, RecvChange, Inside
  <2>2. UNCHANGED <<sockState, fd, link, crossed>>
    BY <1>4 DEF Receiving, RecvError, RecvPacket, RecvAdmit, RecvPut, RecvTest, RecvWakeSend,
                RecvWakeRecv, RecvChange
  <2> QED
    BY <1>0, <1>1, <2>1, <2>2
<1>5. CASE Reading
  <2>0. CASE ReadBegin
    BY <1>0, <2>0, RealEnter DEF ReadBegin, Inside
  <2>1. CASE ~ReadBegin
    <3>1. pc["read"] \notin Inside /\ (UNCHANGED pc \/ \E l : Goto("read", l) /\ l \notin Inside)
      BY <1>5, <2>1 DEF Reading, ReadTest, ReadPop, ReadInitPacket, ReadHandle, ReadDirectSend,
                  ReadAnswer, ReadRelease, Produce, Inside
    <3>2. UNCHANGED <<sockState, fd, link, crossed>>
      BY <1>5, <2>1 DEF Reading, ReadTest, ReadPop, ReadInitPacket, ReadHandle, ReadDirectSend,
                  ReadAnswer, ReadRelease
    <3> QED
      BY <1>0, <1>1, <3>1, <3>2
  <2> QED
    BY <2>0, <2>1
<1>6. ASSUME NEW t \in Threads, Queueing(t) PROVE RealInv'
  <2>1. pc[t] \notin Inside /\ \E l : Goto(t, l) /\ l \notin Inside
    BY <1>6 DEF Queueing, QueueCheck, QueuePush, AfterQueue, Inside
  <2> QED
    BY <1>1, <1>6, <2>1 DEF Queueing, QueueCheck, QueuePush
<1>7. CASE Network
  <2>1. UNCHANGED <<sockState, fd, pc, crossed>>
    BY <1>7 DEF Network, ServerDrops, NetworkDown, NetworkUp
  <2>2. UNCHANGED link \/ \E D : Break(D)
    BY <1>7 DEF Network, ServerDrops, NetworkDown, NetworkUp
  <2>3. RealFd => RealFd'
    BY <1>0, <2>1, <2>2 DEF Break, RealFd
  <2> QED
    BY <2>1, <2>3 DEF RealInv, Connected, OneInside
<1>8. CASE UNCHANGED vars
  BY <1>8 DEF vars, RealInv, Connected, RealFd, OneInside
<1> QED
  BY <1>2, <1>3, <1>4, <1>5, <1>6, <1>7, <1>8, RealReconnecting, StepKinds

\* With nobody inside closeSocket or init, a client that says CONNECTED holds a
\* descriptor that was connected, unless threads crossed in there and nobody
\* has opened a socket alone since.
THEOREM ConnectedReal == Spec => []ConnectedIsReal
<1>1. Init => RealInv
  BY DEF Init, RealInv, Connected, OneInside, Inside
<1>2. RealInv => ConnectedIsReal
  BY DEF RealInv, ConnectedIsReal, Quiet, Replacing, RealFd
<1> QED
  BY <1>1, <1>2, RealStep, TypeAlways, PTL DEF Spec

-----------------------------------------------------------------------------
(* Who owns a packet: PacketOwnership is an invariant, and the receive side *)
(* loses no packet.  Every action moves a packet in one of few ways (a      *)
(* block is allocated, pushed, popped or freed); each way is a lemma.       *)

-----------------------------------------------------------------------------
(* What push and pop do to the contents of a queue.                        *)

LEMMA PushedContents ==
  ASSUME NEW S, NEW q \in Seq(S), NEW p \in S
  PROVE  /\ \A x : InQueue(Pushed(q, p), x) => InQueue(q, x) \/ x = p
         /\ \A x : InQueue(q, x) => InQueue(Pushed(q, p), x)
         /\ \A x : Once(q, x) /\ (x = p => ~InQueue(q, x)) => Once(Pushed(q, p), x)
         /\ Len(q) < QueueSize => InQueue(Pushed(q, p), p)
<1>1. CASE Len(q) < QueueSize
  <2> DEFINE r == Append(q, p)
  <2>1. /\ Pushed(q, p) = r
        /\ DOMAIN r = 1..Len(q) + 1 /\ DOMAIN q = 1..Len(q) /\ Len(q) \in Nat
        /\ \A i \in 1..Len(q) : r[i] = q[i]
        /\ r[Len(q) + 1] = p
    BY <1>1 DEF Pushed
  <2> HIDE DEF r
  <2> QED
    BY <1>1, <2>1 DEF InQueue, Once
<1>2. CASE ~(Len(q) < QueueSize)
  BY <1>2 DEF Pushed
<1> QED
  BY <1>1, <1>2

LEMMA PopContents ==
  ASSUME NEW S, NEW q \in Seq(S), q # <<>>
  PROVE  /\ InQueue(q, Head(q))
         /\ \A x : InQueue(Tail(q), x) => InQueue(q, x)
         /\ \A x : InQueue(q, x) => InQueue(Tail(q), x) \/ x = Head(q)
         /\ \A x : Once(q, x) => Once(Tail(q), x)
         /\ \A x : Once(q, x) /\ x = Head(q) => ~InQueue(Tail(q), x)
<1> DEFINE r == Tail(q)
<1>1. /\ DOMAIN q = 1..Len(q) /\ Len(q) \in Nat /\ Len(q) > 0
      /\ DOMAIN r = 1..Len(q) - 1
      /\ \A i \in 1..Len(q) - 1 : r[i] = q[i + 1]
      /\ Head(q) = q[1]
  OBVIOUS
<1> HIDE DEF r
<1>2. InQueue(q, Head(q))
  <2>1. 1 \in DOMAIN q
    BY <1>1
  <2> QED
    BY <1>1, <2>1 DEF InQueue
<1>6. \A x : InQueue(r, x) => InQueue(q, x)
  <2> SUFFICES ASSUME NEW x, NEW i \in DOMAIN r, r[i] = x PROVE InQueue(q, x)
    BY DEF InQueue
  <2>1. i + 1 \in DOMAIN q /\ q[i + 1] = x
    BY <1>1
  <2> QED
    BY <2>1 DEF InQueue
<1>3. \A x : InQueue(q, x) => InQueue(r, x) \/ x = Head(q)
  <2> SUFFICES ASSUME NEW x, NEW i \in 1..Len(q), q[i] = x, i # 1 PROVE InQueue(r, x)
    BY <1>1 DEF InQueue
  <2>1. i - 1 \in DOMAIN r /\ r[i - 1] = x
    BY <1>1
  <2> QED
    BY <2>1 DEF InQueue
<1>4. \A x : Once(q, x) => Once(r, x)
  <2> SUFFICES ASSUME NEW x, Once(q, x), NEW i \in DOMAIN r, NEW j \in DOMAIN r, r[i] = x, r[j] = x
               PROVE  i = j
    BY DEF Once
  <2>1. i + 1 \in DOMAIN q /\ j + 1 \in DOMAIN q /\ q[i + 1] = x /\ q[j + 1] = x
    BY <1>1
  <2>2. i + 1 = j + 1
    BY <2>1 DEF Once
  <2> QED
    BY <1>1, <2>2
<1>5. \A x : Once(q, x) /\ x = Head(q) => ~InQueue(r, x)
  <2> SUFFICES ASSUME NEW x, Once(q, x), x = Head(q), NEW i \in DOMAIN r, r[i] = x PROVE FALSE
    BY DEF InQueue
  <2>1. i + 1 \in DOMAIN q /\ 1 \in DOMAIN q /\ q[i + 1] = x /\ q[1] = x
    BY <1>1
  <2>2. i + 1 = 1
    BY <2>1 DEF Once
  <2> QED
    BY <1>1, <2>2
<1> QED
  BY <1>2, <1>3, <1>4, <1>5, <1>6 DEF r

-----------------------------------------------------------------------------
(* The ways a packet moves.                                                *)

\* A thread takes a block that was free, into cur or out.
LEMMA MoveAlloc ==
  ASSUME TypeInv, PacketOwnership, NEW t \in Threads, NEW b \in Blocks, b \notin live,
         live' = live \cup {b}, UNCHANGED <<sendQ, recvQ>>,
         \/ cur' = [cur EXCEPT ![t] = b] /\ UNCHANGED out
         \/ out' = [out EXCEPT ![t] = b] /\ UNCHANGED cur
  PROVE  PacketOwnership'
<1>1. ~Referenced(b)
  BY DEF PacketOwnership, NoDangling
<1>2. cur \in [Threads -> Packets \cup {Null}] /\ out \in [Threads -> Packets \cup {Null}]
  BY DEF TypeInv, TypeOK
<1>3. OneOwner'
  BY <1>1, <1>2 DEF PacketOwnership, OneOwner, Referenced, Held
<1>4. NoDangling'
  BY <1>1, <1>2 DEF PacketOwnership, NoDangling, Referenced, Held
<1> QED
  BY <1>3, <1>4 DEF PacketOwnership

\* A thread lets go of what it holds, or holds something that is no block.
LEMMA MoveDrop ==
  ASSUME TypeInv, PacketOwnership, NEW t \in Threads, NEW x, x \notin Blocks,
         UNCHANGED <<sendQ, recvQ, live>>,
         \/ cur' = [cur EXCEPT ![t] = x] /\ UNCHANGED out
         \/ out' = [out EXCEPT ![t] = x] /\ UNCHANGED cur
  PROVE  PacketOwnership'
<1>2. cur \in [Threads -> Packets \cup {Null}] /\ out \in [Threads -> Packets \cup {Null}]
  BY DEF TypeInv, TypeOK
<1>3. OneOwner'
  BY <1>2 DEF PacketOwnership, OneOwner, Held
<1>4. NoDangling'
  BY <1>2 DEF PacketOwnership, NoDangling, Referenced, Held
<1> QED
  BY <1>3, <1>4 DEF PacketOwnership

\* A thread frees what it holds.
LEMMA MoveFree ==
  ASSUME TypeInv, PacketOwnership, NEW t \in Threads, UNCHANGED <<sendQ, recvQ>>,
         \/ cur' = [cur EXCEPT ![t] = Null] /\ live' = live \ {cur[t]} /\ UNCHANGED out
         \/ out' = [out EXCEPT ![t] = Null] /\ live' = live \ {out[t]} /\ UNCHANGED cur
  PROVE  PacketOwnership'
<1>2. cur \in [Threads -> Packets \cup {Null}] /\ out \in [Threads -> Packets \cup {Null}]
  BY DEF TypeInv, TypeOK
<1>3. OneOwner'
  BY <1>2 DEF PacketOwnership, OneOwner, Held
<1>4. NoDangling'
  BY <1>2 DEF PacketOwnership, OneOwner, NoDangling, Referenced, Held
<1> QED
  BY <1>3, <1>4 DEF PacketOwnership

\* A thread pushes what it holds, which a full queue refuses.
LEMMA MovePush ==
  ASSUME TypeInv, PacketOwnership, NEW t \in Threads, UNCHANGED live,
         \/ /\ sendQ' = Pushed(sendQ, out[t]) /\ UNCHANGED recvQ
            /\ out' = [out EXCEPT ![t] = Null] /\ UNCHANGED cur
         \/ /\ t = "recv"
            /\ recvQ' = Pushed(recvQ, cur[t]) /\ UNCHANGED sendQ
            /\ cur' = [cur EXCEPT ![t] = Null] /\ UNCHANGED out
  PROVE  PacketOwnership'
<1>1. cur \in [Threads -> Packets \cup {Null}] /\ out \in [Threads -> Packets \cup {Null}]
  BY DEF TypeInv, TypeOK
<1>2. sendQ \in Seq(Packets \cup {Null}) /\ recvQ \in Seq(Blocks \cup {Null})
  BY DEF TypeInv, TypeOK
<1>3. CASE /\ sendQ' = Pushed(sendQ, out[t]) /\ UNCHANGED recvQ
           /\ out' = [out EXCEPT ![t] = Null] /\ UNCHANGED cur
  <2>1. \A b \in Blocks :
          /\ InQueue(sendQ', b) => InQueue(sendQ, b) \/ b = out[t]
          /\ Once(sendQ, b) /\ (b = out[t] => ~InQueue(sendQ, b)) => Once(sendQ', b)
    BY <1>1, <1>2, <1>3, PushedContents
  <2>2. OneOwner'
    BY <1>1, <1>3, <2>1 DEF PacketOwnership, OneOwner, Held
  <2>3. NoDangling'
    BY <1>1, <1>3, <2>1 DEF PacketOwnership, NoDangling, Referenced, Held
  <2> QED
    BY <2>2, <2>3 DEF PacketOwnership
<1>4. CASE /\ t = "recv"
           /\ recvQ' = Pushed(recvQ, cur[t]) /\ UNCHANGED sendQ
           /\ cur' = [cur EXCEPT ![t] = Null] /\ UNCHANGED out
  <2>0. cur[t] \in Blocks \cup {Null}
    BY <1>4 DEF TypeInv, RecvHoldsBlock
  <2>1. \A b \in Blocks :
          /\ InQueue(recvQ', b) => InQueue(recvQ, b) \/ b = cur[t]
          /\ Once(recvQ, b) /\ (b = cur[t] => ~InQueue(recvQ, b)) => Once(recvQ', b)
    BY <1>2, <1>4, <2>0, PushedContents
  <2>2. OneOwner'
    BY <1>1, <1>4, <2>1 DEF PacketOwnership, OneOwner, Held
  <2>3. NoDangling'
    BY <1>1, <1>4, <2>1 DEF PacketOwnership, NoDangling, Referenced, Held
  <2> QED
    BY <2>2, <2>3 DEF PacketOwnership
<1> QED
  BY <1>3, <1>4

\* The wake-up message is no packet.
LEMMA MoveWake ==
  ASSUME TypeInv, PacketOwnership, UNCHANGED <<cur, out, live>>,
         \/ sendQ' = Pushed(sendQ, Null) /\ UNCHANGED recvQ
         \/ recvQ' = Pushed(recvQ, Null) /\ UNCHANGED sendQ
  PROVE  PacketOwnership'
<1>1. sendQ \in Seq(Packets \cup {Null}) /\ recvQ \in Seq(Blocks \cup {Null})
  BY DEF TypeInv, TypeOK
<1>2. \A b \in Blocks :
        /\ InQueue(sendQ', b) => InQueue(sendQ, b)
        /\ InQueue(recvQ', b) => InQueue(recvQ, b)
        /\ Once(sendQ, b) => Once(sendQ', b)
        /\ Once(recvQ, b) => Once(recvQ', b)
  BY <1>1, PushedContents
<1>3. OneOwner'
  BY <1>2 DEF PacketOwnership, OneOwner, Held
<1>4. NoDangling'
  BY <1>2 DEF PacketOwnership, NoDangling, Referenced, Held
<1> QED
  BY <1>3, <1>4 DEF PacketOwnership

\* A thread takes the oldest packet of a queue.
LEMMA MovePop ==
  ASSUME TypeInv, PacketOwnership, NEW t \in Threads, UNCHANGED <<out, live>>,
         \/ /\ sendQ # <<>> /\ sendQ' = Tail(sendQ) /\ UNCHANGED recvQ
            /\ cur' = [cur EXCEPT ![t] = Head(sendQ)]
         \/ /\ recvQ # <<>> /\ recvQ' = Tail(recvQ) /\ UNCHANGED sendQ
            /\ cur' = [cur EXCEPT ![t] = Head(recvQ)]
  PROVE  PacketOwnership'
<1>1. cur \in [Threads -> Packets \cup {Null}]
  BY DEF TypeInv, TypeOK
<1>2. sendQ \in Seq(Packets \cup {Null}) /\ recvQ \in Seq(Blocks \cup {Null})
  BY DEF TypeInv, TypeOK
<1>3. ASSUME sendQ # <<>>, sendQ' = Tail(sendQ), UNCHANGED recvQ,
             cur' = [cur EXCEPT ![t] = Head(sendQ)]
      PROVE  PacketOwnership'
  <2>1. /\ InQueue(sendQ, Head(sendQ))
        /\ \A b \in Blocks :
             /\ InQueue(sendQ', b) => InQueue(sendQ, b)
             /\ Once(sendQ, b) => Once(sendQ', b)
             /\ Once(sendQ, b) /\ b = Head(sendQ) => ~InQueue(sendQ', b)
    BY <1>2, <1>3, PopContents
  <2>2. OneOwner'
    BY <1>1, <1>3, <2>1 DEF PacketOwnership, OneOwner, Held
  <2>3. NoDangling'
    BY <1>1, <1>3, <2>1 DEF PacketOwnership, NoDangling, Referenced, Held
  <2> QED
    BY <2>2, <2>3 DEF PacketOwnership
<1>4. ASSUME recvQ # <<>>, recvQ' = Tail(recvQ), UNCHANGED sendQ,
             cur' = [cur EXCEPT ![t] = Head(recvQ)]
      PROVE  PacketOwnership'
  <2>1. /\ InQueue(recvQ, Head(recvQ))
        /\ \A b \in Blocks :
             /\ InQueue(recvQ', b) => InQueue(recvQ, b)
             /\ Once(recvQ, b) => Once(recvQ', b)
             /\ Once(recvQ, b) /\ b = Head(recvQ) => ~InQueue(recvQ', b)
    BY <1>2, <1>4, PopContents
  <2>2. OneOwner'
    BY <1>1, <1>4, <2>1 DEF PacketOwnership, OneOwner, Held
  <2>3. NoDangling'
    BY <1>1, <1>4, <2>1 DEF PacketOwnership, NoDangling, Referenced, Held
  <2> QED
    BY <2>2, <2>3 DEF PacketOwnership
<1> QED
  BY <1>3, <1>4

-----------------------------------------------------------------------------
(* Every action is one of these moves.                                     *)

LEMMA OwnershipSame ==
  ASSUME PacketOwnership, UNCHANGED <<cur, out, sendQ, recvQ, live>>
  PROVE  PacketOwnership'
  BY DEF PacketOwnership, OneOwner, NoDangling, Referenced, Held

LEMMA OwnershipProduce ==
  ASSUME TypeInv, PacketOwnership, NEW t \in Threads, NEW l, Produce(t, l),
         UNCHANGED <<cur, sendQ, recvQ>>
  PROVE  PacketOwnership'
<1>1. CASE UNCHANGED <<out, live>>
  BY <1>1, OwnershipSame
<1>2. ASSUME NEW b \in Blocks \ live, out' = [out EXCEPT ![t] = b], live' = live \cup {b}
      PROVE  PacketOwnership'
  BY <1>2, MoveAlloc
<1> QED
  BY <1>1, <1>2 DEF Produce

LEMMA OwnershipStep == TypeInv /\ PacketOwnership /\ [Next]_vars => PacketOwnership'
<1> SUFFICES ASSUME TypeInv, PacketOwnership, [Next]_vars PROVE PacketOwnership'
  OBVIOUS
<1> USE DEF queueVars
<1>0. {"game", "read", "recv", "send"} \subseteq Threads
  BY DEF Threads
<1>1. CASE GamePacket \/ CopyPacket
  BY <1>0, <1>1, OwnershipProduce, OwnershipSame DEF GamePacket, CopyPacket
<1>2. CASE SendPop
  BY <1>0, <1>2, MovePop DEF SendPop
<1>3. CASE SendPacket
  BY <1>3, OwnershipSame DEF SendPacket
<1>4. CASE SendFree
  BY <1>0, <1>4, MoveFree DEF SendFree
<1>5. CASE Receiving
  <2>1. CASE RecvError \/ RecvTest
    BY <2>1, OwnershipSame DEF RecvError, RecvTest
  <2>2. CASE RecvPacket
    <3>1. PICK b \in Blocks \ live : \E l \in {"admit", "admitudp"} : RecvChange(l, b, live \cup {b})
      BY <2>2 DEF RecvPacket
    <3> QED
      BY <1>0, <3>1, MoveAlloc DEF RecvChange
  <2>3. CASE RecvAdmit
    <3>1. CASE RecvChange("put", cur["recv"], live)
      <4>1. cur' = cur
        BY <1>0, <3>1 DEF RecvChange, TypeInv, TypeOK
      <4> QED
        BY <3>1, <4>1, OwnershipSame DEF RecvChange
    <3>2. CASE RecvChange("recv", Null, live \ {cur["recv"]})
      BY <1>0, <3>2, MoveFree DEF RecvChange
    <3> QED
      BY <2>3, <3>1, <3>2 DEF RecvAdmit
  <2>4. CASE RecvPut
    BY <1>0, <2>4, MovePush DEF RecvPut
  <2>5. CASE RecvWakeSend \/ RecvWakeRecv
    BY <2>5, MoveWake DEF RecvWakeSend, RecvWakeRecv
  <2> QED
    BY <1>5, <2>1, <2>2, <2>3, <2>4, <2>5 DEF Receiving
<1>6. CASE Reading
  <2>1. CASE ReadBegin \/ ReadTest \/ ReadHandle \/ ReadDirectSend
    BY <2>1, OwnershipSame DEF ReadBegin, ReadTest, ReadHandle, ReadDirectSend
  <2>2. CASE ReadPop
    BY <1>0, <2>2, MovePop DEF ReadPop
  <2>3. CASE ReadInitPacket \/ ReadRelease
    BY <1>0, <2>3, MoveFree DEF ReadInitPacket, ReadRelease
  <2>4. CASE ReadAnswer
    BY <1>0, <2>4, OwnershipProduce DEF ReadAnswer
  <2> QED
    BY <1>6, <2>1, <2>2, <2>3, <2>4 DEF Reading
<1>7. ASSUME NEW t \in Threads, Reconnecting(t) PROVE PacketOwnership'
  <2>1. CASE CloseQueue(t) \/ CloseTest(t) \/ CloseSocket(t) \/ Closed(t) \/ StartThreads(t) \/ Greet(t)
    BY <2>1, OwnershipSame DEF CloseQueue, CloseTest, CloseSocket, Closed, StartThreads, Greet
  <2>3. CASE InitSocket(t) \/ Connect(t) \/ OpenUdp(t) \/ OpenQueue(t) \/ SayConnected(t) \/ InitFails(t)
    BY <2>3, OwnershipSame DEF InitSocket, Connect, OpenUdp, OpenQueue, SayConnected, InitFails
  <2>2. CASE Resend(t)
    <3>1. CASE UNCHANGED <<live, out>>
      BY <2>2, <3>1, OwnershipSame DEF Resend
    <3>2. CASE Produce(t, "resend")
      BY <2>2, <3>2, OwnershipProduce DEF Resend
    <3>3. CASE /\ At(t, "resend") /\ nextRes[t] <= Len(Resent) /\ Resent[nextRes[t]] # Fresh
               /\ out' = [out EXCEPT ![t] = Resent[nextRes[t]]] /\ UNCHANGED live
      <4>1. nextRes[t] \in 1..Len(Resent)
        BY <3>3 DEF TypeInv, TypeOK, IndexInv
      <4>2. Resent[nextRes[t]] \notin Blocks
        BY <3>3, <4>1
      <4> QED
        BY <2>2, <3>3, <4>2, MoveDrop DEF Resend
    <3> QED
      BY <2>2, <3>1, <3>2, <3>3 DEF Resend
  <2> QED
    BY <1>7, <2>1, <2>2, <2>3 DEF Reconnecting
<1>8. ASSUME NEW t \in Threads, Queueing(t) PROVE PacketOwnership'
  <2>1. CASE QueueCheck(t)
    BY <2>1, MoveFree, OwnershipSame DEF QueueCheck
  <2>2. CASE QueuePush(t)
    BY <2>2, MovePush DEF QueuePush
  <2> QED
    BY <1>8, <2>1, <2>2 DEF Queueing
<1>9. CASE Network
  BY <1>9, OwnershipSame DEF Network, ServerDrops, NetworkDown, NetworkUp
<1>10. CASE UNCHANGED vars
  BY <1>10, OwnershipSame DEF vars
<1> QED
  BY <1>1, <1>2, <1>3, <1>4, <1>5, <1>6, <1>7, <1>8, <1>9, <1>10, StepKinds

\* Whatever the threads, reconnects and queues do, a heap packet has one owner
\* and is allocated while it has one, so none is freed twice (queuePacket,
\* trySendQueue, recvTcp, recvUdp, readFunc).  Who only looks at a packet it has
\* given away, as sendCaptureInfPacket does, is not an owner.
THEOREM Ownership == Spec => []PacketOwnership
<1>1. Init => PacketOwnership
  BY DEF Init, PacketOwnership, OneOwner, NoDangling, Referenced, Held, InQueue, Once
<1> QED
  BY <1>1, OwnershipStep, TypeAlways, PTL DEF Spec

-----------------------------------------------------------------------------
(* The receive queue has one producer.                                     *)

\* No step but those of the receive thread moves it or fills its queue.
LEMMA RecvPushStep == TypeInv /\ RecvPushSucceeds /\ [Next]_vars => RecvPushSucceeds'
<1> SUFFICES ASSUME TypeInv, RecvPushSucceeds, [Next]_vars PROVE RecvPushSucceeds'
  OBVIOUS
<1> USE DEF RecvPushSucceeds, At, queueVars
<1>0. /\ pc \in [Threads -> Labels] /\ "recv" \in Threads
      /\ recvQ \in Seq(Blocks \cup {Null}) /\ Len(recvQ) \in Nat
  BY DEF TypeInv, TypeOK, Threads
<1>1. ASSUME UNCHANGED <<recvQ, pc>> PROVE RecvPushSucceeds'
  BY <1>1
<1>2. ASSUME NEW t \in Threads, NEW l, l # "put", Goto(t, l), UNCHANGED recvQ PROVE RecvPushSucceeds'
  BY <1>0, <1>2 DEF Goto
<1>3. CASE GamePacket \/ CopyPacket \/ SendPop \/ SendPacket \/ SendFree
  BY <1>0, <1>3 DEF GamePacket, CopyPacket, Produce, SendPop, SendPacket, SendFree, Goto, Threads
<1>4. CASE Receiving
  <2>1. CASE RecvAdmit
    BY <1>0, <2>1 DEF RecvAdmit, RecvChange, Goto
  <2>2. CASE RecvError \/ RecvPacket \/ RecvPut \/ RecvTest \/ RecvWakeSend \/ RecvWakeRecv
    BY <1>0, <2>2 DEF RecvError, RecvPacket, RecvPut, RecvTest, RecvWakeSend, RecvWakeRecv, RecvChange, Goto
  <2> QED
    BY <1>4, <2>1, <2>2 DEF Receiving
<1>5. CASE Reading
  <2>1. pc'["recv"] = pc["recv"]
    BY <1>0, <1>5 DEF Reading, ReadBegin, ReadTest, ReadPop, ReadInitPacket, ReadHandle,
                      ReadDirectSend, ReadAnswer, ReadRelease, Produce, Goto
  <2>2. CASE ReadPop
    <3>1. Len(recvQ') <= Len(recvQ) /\ Len(recvQ') \in Nat
      BY <1>0, <2>2 DEF ReadPop
    <3> QED
      BY <1>0, <2>1, <3>1
  <2>3. CASE UNCHANGED recvQ
    BY <2>1, <2>3
  <2> QED
    BY <1>5, <2>2, <2>3 DEF Reading, ReadBegin, ReadTest, ReadInitPacket, ReadHandle,
                      ReadDirectSend, ReadAnswer, ReadRelease
<1>6. ASSUME NEW t \in Threads, NEW r \in BOOLEAN, Return(t, r), UNCHANGED recvQ
      PROVE  RecvPushSucceeds'
  <2>1. After(t, r) # "put" /\ After(t, TRUE) # "put"
    BY DEF After
  <2> QED
    BY <1>2, <1>6, <2>1 DEF Return
<1>7. ASSUME NEW t \in Threads, Reconnecting(t) PROVE RecvPushSucceeds'
  <2>1. CASE CloseQueue(t) \/ CloseTest(t) \/ CloseSocket(t) \/ Closed(t) \/ Greet(t)
    BY <1>2, <1>6, <2>1 DEF CloseQueue, CloseTest, CloseSocket, Closed, Greet
  <2>4. CASE InitSocket(t) \/ Connect(t) \/ OpenUdp(t) \/ OpenQueue(t) \/ SayConnected(t) \/ InitFails(t)
    BY <1>2, <1>6, <2>4 DEF InitSocket, Connect, OpenUdp, OpenQueue, SayConnected, InitFails
  <2>2. CASE StartThreads(t)
    BY <1>0, <2>2 DEF StartThreads, Goto
  <2>3. CASE Resend(t)
    BY <1>2, <1>6, <2>3 DEF Resend, Produce
  <2> QED
    BY <1>7, <2>1, <2>2, <2>3, <2>4 DEF Reconnecting
<1>8. ASSUME NEW t \in Threads, Queueing(t) PROVE RecvPushSucceeds'
  <2>1. AfterQueue(t) # "put"
    BY DEF AfterQueue
  <2> QED
    BY <1>2, <1>8, <2>1 DEF Queueing, QueueCheck, QueuePush
<1>9. CASE Network \/ UNCHANGED vars
  BY <1>1, <1>9 DEF Network, ServerDrops, NetworkDown, NetworkUp, vars
<1> QED
  BY <1>3, <1>4, <1>5, <1>7, <1>8, <1>9, StepKinds

\* A packet that passed isFull is queued: the receive thread is the queue's only
\* producer (recvTcp, recvUdp).
THEOREM RecvPush == Spec => []RecvPushSucceeds
<1>1. Init => RecvPushSucceeds
  BY DEF Init, RecvPushSucceeds, At, Threads
<1> QED
  BY <1>1, RecvPushStep, TypeAlways, PTL DEF Spec

-----------------------------------------------------------------------------
(* No packet of the receive side is lost.  A thread that takes a packet    *)
(* into cur must not hold one already: the receive thread holds one from   *)
(* recv to the push only, the read thread none while it asks for the next. *)

Holding == {"admit", "admitudp", "put"}
Asking == {"begin", "getinit", "popinit", "get", "pop", "done"}
HandsInv ==
  /\ pc["recv"] \notin Holding => cur["recv"] = Null
  /\ pc["read"] \in Asking => cur["read"] = Null

LEMMA HandsGoto ==
  ASSUME TypeInv, HandsInv, NEW t \in Threads, NEW l, Goto(t, l), UNCHANGED cur,
         t = "recv" => pc["recv"] \notin Holding /\ l \notin Holding,
         t = "read" /\ l \in Asking => cur["read"] = Null
  PROVE  HandsInv'
<1>1. pc \in [Threads -> Labels] /\ "recv" \in Threads /\ "read" \in Threads
  BY DEF TypeInv, TypeOK, Threads
<1> QED
  BY <1>1 DEF HandsInv, Goto

LEMMA HandsReturn ==
  ASSUME TypeInv, HandsInv, NEW t \in Threads, NEW r \in BOOLEAN, Return(t, r), UNCHANGED cur,
         pc["recv"] \notin Holding \/ t # "recv"
  PROVE  HandsInv'
<1>1. \A s \in BOOLEAN : /\ t = "recv" => After(t, s) \notin Holding
                         /\ t = "read" /\ After(t, s) \in Asking => cur["read"] = Null
  BY DEF After, Holding, Asking
<1>2. "resend" \notin Holding /\ "resend" \notin Asking
  BY DEF Holding, Asking
<1> QED
  BY <1>1, <1>2, HandsGoto DEF Return

LEMMA HandsReconnecting ==
  ASSUME TypeInv, HandsInv, NEW t \in Threads, Reconnecting(t)
  PROVE  HandsInv'
<1> USE DEF At, queueVars
<1>0. pc["recv"] \notin Holding \/ t # "recv"
  BY DEF Reconnecting, CloseQueue, CloseTest, CloseSocket, Closed, InitSocket, Connect, OpenUdp, OpenQueue,
         SayConnected, InitFails, StartThreads, Greet, Resend, Holding
<1>1. \A l \in {"test", "closing", "closed", "init", "connect", "udp", "online", "say", "failed",
              "spawn", "greet", "resend", "close", "check"} :
        l \notin Holding /\ l \notin Asking
  BY DEF Holding, Asking
<1>2. CASE CloseQueue(t) \/ CloseTest(t) \/ CloseSocket(t) \/ Closed(t) \/ Greet(t)
  BY <1>0, <1>1, <1>2, HandsGoto, HandsReturn DEF CloseQueue, CloseTest, CloseSocket, Closed, Greet
<1>5. CASE InitSocket(t) \/ Connect(t) \/ OpenUdp(t) \/ OpenQueue(t) \/ SayConnected(t) \/ InitFails(t)
  BY <1>0, <1>1, <1>5, HandsGoto, HandsReturn DEF InitSocket, Connect, OpenUdp, OpenQueue, SayConnected, InitFails
<1>3. CASE StartThreads(t)
  <2>1. CASE Goto(t, "greet")
    BY <1>0, <1>1, <1>3, <2>1, HandsGoto DEF StartThreads
  <2>2. CASE /\ At("recv", "done")
             /\ pc' = [pc EXCEPT !["recv"] = "recv", !["send"] = "sendpop", ![t] = "greet"]
    BY <1>1, <1>3, <2>2 DEF StartThreads, TypeInv, TypeOK, Threads, HandsInv, Holding, Asking
  <2> QED
    BY <1>3, <2>1, <2>2 DEF StartThreads
<1>4. CASE Resend(t)
  BY <1>0, <1>1, <1>4, HandsGoto, HandsReturn DEF Resend, Produce
<1> QED
  BY <1>2, <1>3, <1>4, <1>5 DEF Reconnecting

LEMMA HandsStep == TypeInv /\ HandsInv /\ [Next]_vars => HandsInv'
<1> SUFFICES ASSUME TypeInv, HandsInv, [Next]_vars PROVE HandsInv'
  OBVIOUS
<1> USE DEF At, queueVars
<1>0. /\ pc \in [Threads -> Labels] /\ cur \in [Threads -> Packets \cup {Null}]
      /\ {"game", "read", "recv", "send"} \subseteq Threads
  BY DEF TypeInv, TypeOK, Threads
<1>1. CASE GamePacket \/ CopyPacket
  BY <1>0, <1>1, HandsGoto DEF GamePacket, CopyPacket, Produce
<1>2. CASE SendPop \/ SendPacket \/ SendFree
  BY <1>0, <1>2 DEF SendPop, SendPacket, SendFree, HandsInv, Goto
<1>3. CASE Receiving
  <2>1. cur'["read"] = cur["read"] /\ pc'["read"] = pc["read"]
    BY <1>0, <1>3 DEF Receiving, RecvError, RecvPacket, RecvAdmit, RecvPut, RecvTest, RecvWakeSend,
                      RecvWakeRecv, RecvChange, Goto
  <2>2. pc'["recv"] \notin Holding => cur'["recv"] = Null
    <3>1. CASE RecvPacket
      BY <1>0, <3>1 DEF RecvPacket, RecvChange, Goto, Holding
    <3>2. CASE RecvAdmit
      BY <1>0, <3>2 DEF RecvAdmit, RecvChange, Goto, Holding
    <3>3. CASE RecvPut
      BY <1>0, <3>3 DEF RecvPut
    <3>4. CASE RecvError \/ RecvTest \/ RecvWakeSend \/ RecvWakeRecv
      BY <1>0, <3>4 DEF RecvError, RecvTest, RecvWakeSend, RecvWakeRecv, HandsInv, Holding
    <3> QED
      BY <1>3, <3>1, <3>2, <3>3, <3>4 DEF Receiving
  <2> QED
    BY <2>1, <2>2 DEF HandsInv
<1>4. CASE Reading
  <2>1. cur'["recv"] = cur["recv"] /\ pc'["recv"] = pc["recv"]
    BY <1>0, <1>4 DEF Reading, ReadBegin, ReadTest, ReadPop, ReadInitPacket, ReadHandle,
                      ReadDirectSend, ReadAnswer, ReadRelease, Produce, Goto
  <2>2. pc'["read"] \in Asking => cur'["read"] = Null
    <3>1. CASE ReadBegin \/ ReadTest
      BY <1>0, <3>1 DEF ReadBegin, ReadTest, HandsInv, Asking
    <3>2. CASE ReadPop
      BY <1>0, <3>2 DEF ReadPop, Goto, Asking
    <3>3. CASE ReadInitPacket \/ ReadRelease
      BY <1>0, <3>3 DEF ReadInitPacket, ReadRelease
    <3>4. CASE ReadHandle
      BY <1>0, <3>4 DEF ReadHandle, Goto, Asking
    <3>5. CASE ReadDirectSend
      BY <1>0, <3>5 DEF ReadDirectSend, Goto, Asking
    <3>6. CASE ReadAnswer
      BY <1>0, <3>6 DEF ReadAnswer, Produce, Goto, Asking
    <3> QED
      BY <1>4, <3>1, <3>2, <3>3, <3>4, <3>5, <3>6 DEF Reading
  <2> QED
    BY <2>1, <2>2 DEF HandsInv
<1>5. ASSUME NEW t \in Threads, Queueing(t) PROVE HandsInv'
  <2>1. pc[t] \in {"check", "push"} /\ UNCHANGED cur
        /\ \E l \in {"push", "resend", "idle", "copy", "direct", "release"} : Goto(t, l)
    BY <1>5 DEF Queueing, QueueCheck, QueuePush, AfterQueue
  <2> QED
    BY <2>1, HandsGoto DEF Holding, Asking
<1>6. CASE Network \/ UNCHANGED vars
  BY <1>6 DEF Network, ServerDrops, NetworkDown, NetworkUp, vars, HandsInv
<1> QED
  BY <1>1, <1>2, <1>3, <1>4, <1>5, <1>6, HandsReconnecting, StepKinds

\* What the receive side refers to stays referred to, or is freed.
LEMMA ReceivedStep ==
  ASSUME TypeInv, HandsInv, RecvPushSucceeds, [Next]_vars,
         NEW b \in Blocks, cur["recv"] = b \/ InQueue(recvQ, b) \/ cur["read"] = b, b \in live'
  PROVE  Referenced(b)'
<1> USE DEF At, queueVars
<1>0. /\ cur \in [Threads -> Packets \cup {Null}]
      /\ {"game", "read", "recv", "send"} \subseteq Threads
      /\ recvQ \in Seq(Blocks \cup {Null}) /\ sendQ \in Seq(Packets \cup {Null})
  BY DEF TypeInv, TypeOK, Threads
<1>1. ASSUME recvQ' = recvQ, cur'["recv"] = cur["recv"], cur'["read"] = cur["read"]
      PROVE  Referenced(b)'
  BY <1>0, <1>1 DEF Referenced, Held
<1>2. CASE GamePacket \/ CopyPacket \/ SendPop \/ SendPacket \/ SendFree
  BY <1>0, <1>1, <1>2 DEF GamePacket, CopyPacket, SendPop, SendPacket, SendFree
<1>3. CASE Receiving
  <2>1. CASE RecvError \/ RecvTest \/ RecvWakeSend
    BY <1>1, <2>1 DEF RecvError, RecvTest, RecvWakeSend
  <2>2. CASE RecvPacket
    <3>1. cur["recv"] = Null
      BY <2>2 DEF RecvPacket, HandsInv, Holding
    <3> QED
      BY <1>0, <2>2, <3>1 DEF RecvPacket, RecvChange, Referenced, Held
  <2>3. CASE RecvAdmit
    BY <1>0, <2>3 DEF RecvAdmit, RecvChange, Referenced, Held
  <2>4. CASE RecvPut
    <3>1. InQueue(recvQ, b) \/ b = cur["recv"] => InQueue(recvQ', b)
      <4>1. cur["recv"] \in Blocks \cup {Null}
        BY DEF TypeInv, RecvHoldsBlock
      <4> QED
        BY <1>0, <2>4, <4>1, PushedContents DEF RecvPut, RecvPushSucceeds
    <3>2. cur'["read"] = cur["read"]
      BY <1>0, <2>4 DEF RecvPut
    <3> QED
      BY <1>0, <3>1, <3>2 DEF Referenced, Held
  <2>5. CASE RecvWakeRecv
    <3>1. InQueue(recvQ, b) => InQueue(recvQ', b)
      BY <1>0, <2>5, PushedContents DEF RecvWakeRecv
    <3> QED
      BY <1>0, <2>5, <3>1 DEF RecvWakeRecv, Referenced, Held
  <2> QED
    BY <1>3, <2>1, <2>2, <2>3, <2>4, <2>5 DEF Receiving
<1>4. CASE Reading
  <2>1. CASE ReadBegin \/ ReadTest \/ ReadHandle \/ ReadDirectSend \/ ReadAnswer
    BY <1>1, <2>1 DEF ReadBegin, ReadTest, ReadHandle, ReadDirectSend, ReadAnswer
  <2>2. CASE ReadPop
    <3>1. cur["read"] = Null
      BY <2>2 DEF ReadPop, HandsInv, Asking
    <3>2. InQueue(recvQ, b) => InQueue(recvQ', b) \/ b = Head(recvQ)
      BY <1>0, <2>2, PopContents DEF ReadPop
    <3> QED
      BY <1>0, <2>2, <3>1, <3>2 DEF ReadPop, Referenced, Held
  <2>3. CASE ReadInitPacket \/ ReadRelease
    BY <1>0, <2>3 DEF ReadInitPacket, ReadRelease, Referenced, Held
  <2> QED
    BY <1>4, <2>1, <2>2, <2>3 DEF Reading
<1>5. ASSUME NEW t \in Threads, Reconnecting(t) \/ Queueing(t) PROVE Referenced(b)'
  BY <1>1, <1>5 DEF Reconnecting, CloseQueue, CloseTest, CloseSocket, Closed, InitSocket, Connect, OpenUdp,
                    OpenQueue, SayConnected, InitFails, StartThreads, Greet, Resend, Queueing, QueueCheck, QueuePush
<1>6. CASE Network \/ UNCHANGED vars
  BY <1>1, <1>6 DEF Network, ServerDrops, NetworkDown, NetworkUp, vars
<1> QED
  BY <1>2, <1>3, <1>4, <1>5, <1>6, StepKinds

\* A received packet is never leaked: while it is allocated, the receive queue,
\* the thread that received it or the read thread has it (recvTcp, recvUdp,
\* startConnection, readFunc).
THEOREM NeverLost == Spec => ReceivedNeverLost
<1>1. Init => HandsInv
  BY DEF Init, HandsInv, Threads
<1>2. Spec => []HandsInv
  BY <1>1, HandsStep, TypeAlways, PTL DEF Spec
<1>3. TypeInv /\ HandsInv /\ RecvPushSucceeds /\ [Next]_vars =>
        [\A b \in Blocks : (cur["recv"] = b \/ InQueue(recvQ, b) \/ cur["read"] = b) /\ b \in live'
            => Referenced(b)']_vars
  BY ReceivedStep
<1> QED
  BY <1>2, <1>3, TypeAlways, RecvPush, PTL DEF Spec, ReceivedNeverLost

=============================================================================
