----------------------------- MODULE TcpFraming -----------------------------
(***************************************************************************)
(* How recvTcp (source/server/SocketClient.cpp) cuts packets out of the    *)
(* stream of bytes of a connection: a header of fixed size, which says how *)
(* long the body is, then the body, each in as many pieces as Recv gives.  *)
(*                                                                         *)
(* A byte is a cell that knows which packet it belongs to and where it     *)
(* stands in it; the code sees a number only in a whole header.  Another   *)
(* thread may replace the connection between any two calls of Recv, and    *)
(* the new socket may get the descriptor number recvTcp goes on with.      *)
(* Threads and states of the connection in full are in SocketClient; what  *)
(* comes by UDP has no stream to cut and is left out.                      *)
(***************************************************************************)
EXTENDS Naturals, Sequences

CONSTANTS
  Bodies,     \* what the server sends: the sizes of the bodies, in order
  Header,     \* sizeof(Packet)
  MaxPack,    \* MAXPACKSIZE
  QueueSize,  \* maxBufSize
  Builds,     \* "console": Recv waits; "emulator": it does not (sock_flags)
  MaxBreaks,  \* bound: how often a connection ends or breaks
  Garbage     \* what a buffer is that is no packet

ASSUME SizesAssumption ==
  /\ Header \in Nat \ {0} /\ MaxPack \in Nat /\ Header <= MaxPack
  /\ QueueSize \in Nat \ {0} /\ MaxBreaks \in Nat
  /\ Bodies \in Seq(Nat)
  /\ \A n \in DOMAIN Bodies : Header + Bodies[n] <= MaxPack
ASSUME BuildAssumption == Builds \subseteq {"console", "emulator"} /\ Garbage \notin DOMAIN Bodies

VARIABLES
  build,      \* which build runs
  wire,       \* bytes that have arrived on the current connection
  coming,     \* the next byte that will
  link,       \* up, ended (closed by the server), broken or closed
  other,      \* is another thread in tryReconnect
  pc,         \* where the receive thread is
  mine,       \* fd in recvTcp: the current socket or one that is gone
  buf,        \* the valread bytes read, header and body
  full,       \* fullSize, once the header is read
  known,      \* does the header say a type there is
  errno,      \* socket_errno: again (EAGAIN, 11) or other
  queueOpen,  \* mPacketQueueOpen
  inbox,      \* mRecvQueue
  breaks

netVars == <<wire, coming, link, breaks>>
recvVars == <<pc, mine, buf, full, known, errno>>
vars == <<build, netVars, other, recvVars, queueOpen, inbox>>

Numbers == DOMAIN Bodies
Length(n) == Header + Bodies[n]
Bytes(n) == [k \in 1 .. Length(n) |-> [msg |-> n, at |-> k]]
Cells == [msg : 1 .. Len(Bodies) + 1, at : 1 .. MaxPack]

Init ==
  /\ build \in Builds
  /\ wire = <<>> /\ coming = [msg |-> 1, at |-> 1]
  /\ link = "up" /\ other = FALSE
  /\ pc = "poll" /\ mine = "current"
  /\ buf = <<>> /\ full = 0 /\ known = TRUE
  /\ errno = "other"
  /\ queueOpen = TRUE /\ inbox = <<>>
  /\ breaks = 0

-----------------------------------------------------------------------------
(* The network, and the threads that replace the connection.               *)

\* The byte after coming; on a new connection the server begins a new packet.
After(c) == IF c.at < Length(c.msg) THEN [c EXCEPT !.at = @ + 1] ELSE [msg |-> c.msg + 1, at |-> 1]
Anew == IF coming.at = 1 THEN coming ELSE [msg |-> coming.msg + 1, at |-> 1]

Arrive ==
  /\ link = "up" /\ coming.msg \in Numbers
  /\ wire' = Append(wire, coming)
  /\ coming' = After(coming)
  /\ UNCHANGED <<build, link, breaks, other, recvVars, queueOpen, inbox>>

\* The server closes the connection, or it breaks.
Break ==
  /\ link = "up" /\ breaks < MaxBreaks
  /\ breaks' = breaks + 1
  /\ link' \in {"ended", "broken"}
  /\ UNCHANGED <<build, wire, coming, other, recvVars, queueOpen, inbox>>

\* closeSocket
Close ==
  /\ link' = "closed" /\ queueOpen' = FALSE
  /\ wire' = <<>> /\ coming' = Anew

\* init
Open ==
  /\ link' \in {"up", "closed"}
  /\ queueOpen' = (queueOpen \/ link' = "up")
  /\ wire' = <<>> /\ coming' = Anew

\* tryReconnect on another thread, whose Send has failed.
CloseElsewhere ==
  /\ ~other /\ link \in {"ended", "broken"}
  /\ other' = TRUE
  /\ Close
  /\ UNCHANGED <<build, breaks, recvVars, inbox>>

\* The new socket may have the number of the old one.
OpenElsewhere ==
  /\ other
  /\ other' = FALSE
  /\ Open
  /\ mine' \in IF pc \in {"header", "body"} THEN {mine, "gone"} ELSE {mine}
  /\ UNCHANGED <<build, breaks, pc, buf, full, known, errno, inbox>>

Take ==
  /\ inbox # <<>>
  /\ inbox' = Tail(inbox)
  /\ UNCHANGED <<build, netVars, other, recvVars, queueOpen>>

-----------------------------------------------------------------------------
(* nn::socket::Recv                                                        *)

Valid == link # "closed" /\ mine = "current"

\* It gives a part of what was asked for, unless the connection is broken, ...
Reads(count) ==
  /\ Valid /\ link # "broken"
  /\ \E k \in 1 .. Len(wire) :
       /\ k <= count
       /\ buf' = buf \o SubSeq(wire, 1, k)
       /\ wire' = SubSeq(wire, k + 1, Len(wire))
  /\ UNCHANGED <<pc, mine, full, known, errno>>

\* ... or no byte; then GetLastErrno is e.  The end of the stream is no error
\* and leaves the last one.
Fails(e) ==
  \/ Valid /\ wire = <<>> /\ link = "ended" /\ e = errno
  \/ Valid /\ wire = <<>> /\ link = "up" /\ build = "emulator" /\ e = "again"
  \/ (~Valid \/ link = "broken") /\ e = "other"

Leave(l) == pc' = l /\ mine' = "current" /\ buf' = <<>> /\ full' = 0 /\ known' = TRUE

-----------------------------------------------------------------------------
(* recv and recvTcp.                                                       *)

\* recv: reconnects without a connection, else waits until it can read.
Poll ==
  /\ pc = "poll"
  /\ \/ link = "closed" /\ pc' = "retry"
     \/ link # "closed" /\ (wire # <<>> \/ link # "up") /\ pc' = "header"
  /\ UNCHANGED <<build, netVars, other, mine, buf, full, known, errno, queueOpen, inbox>>

\* Mistake: no failure is one.
ReadHeader_Ignores ==
  /\ pc = "header" /\ Len(buf) < Header
  /\ \/ Reads(Header - Len(buf))
     \/ \E e \in {"again", "other"} : Fails(e) /\ errno' = e /\ Leave("poll") /\ UNCHANGED wire
  /\ UNCHANGED <<build, coming, link, breaks, other, queueOpen, inbox>>

ReadHeader ==
  /\ pc = "header" /\ Len(buf) < Header
  /\ \/ Reads(Header - Len(buf))
     \/ \E e \in {"again", "other"} :
          /\ Fails(e)
          /\ errno' = e
          /\ Leave(IF e = "again" THEN "poll" ELSE "retry")
          /\ UNCHANGED wire
  /\ UNCHANGED <<build, coming, link, breaks, other, queueOpen, inbox>>

\* What the bytes say, read as a header.  mPacketSize is a signed short, so that
\* fullSize may be below a header's; the sizes that fail the test of range are
\* all like the one above it.
Claims ==
  LET whole == {n \in Numbers : buf = SubSeq(Bytes(n), 1, Header)}
  IN  IF whole = {} THEN [size : 1 .. MaxPack + 1, known : BOOLEAN]
      ELSE {[size |-> Length(n), known |-> TRUE] : n \in whole}

\* Mistake: any size will do.
HeaderRead_NoTest ==
  /\ pc = "header" /\ Len(buf) = Header
  /\ \E c \in Claims :
       \/ Leave("poll")
       \/ pc' = "body" /\ full' = c.size /\ known' = c.known /\ UNCHANGED <<mine, buf>>
  /\ UNCHANGED <<build, netVars, other, errno, queueOpen, inbox>>

\* The test of range, and the buffer of fullSize bytes, for which there may be
\* no memory.  All of the header is copied into it.
HeaderRead ==
  /\ pc = "header" /\ Len(buf) = Header
  /\ \E c \in Claims :
       \/ Leave("poll")
       \/ c.size <= MaxPack /\ pc' = "body" /\ full' = c.size /\ known' = c.known /\ UNCHANGED <<mine, buf>>
  /\ UNCHANGED <<build, netVars, other, errno, queueOpen, inbox>>

\* Mistakes: each call asks for all of the packet; after a failure the
\* connection is kept.
ReadBody_Again ==
  /\ pc = "body" /\ Len(buf) < full
  /\ \/ Reads(full)
     \/ \E e \in {"again", "other"} : Fails(e) /\ errno' = e /\ Leave("retry") /\ UNCHANGED wire
  /\ UNCHANGED <<build, coming, link, breaks, other, queueOpen, inbox>>
ReadBody_Keeps ==
  /\ pc = "body" /\ Len(buf) < full
  /\ \/ Reads(full - Len(buf))
     \/ \E e \in {"again", "other"} :
          /\ Fails(e)
          /\ errno' = e
          /\ Leave(IF e = "again" THEN "poll" ELSE "retry")
          /\ UNCHANGED wire
  /\ UNCHANGED <<build, coming, link, breaks, other, queueOpen, inbox>>

ReadBody ==
  /\ pc = "body" /\ Len(buf) < full
  /\ \/ Reads(full - Len(buf))
     \/ \E e \in {"again", "other"} : Fails(e) /\ errno' = e /\ Leave("retry") /\ UNCHANGED wire
  /\ UNCHANGED <<build, coming, link, breaks, other, queueOpen, inbox>>

Admits == known /\ Len(inbox) < QueueSize /\ queueOpen

\* Mistake: one call of Recv is taken for the whole body.
Deliver_Early ==
  /\ pc = "body" /\ (Len(buf) > Header \/ full <= Header)
  /\ inbox' = IF Admits THEN Append(inbox, buf) ELSE inbox
  /\ Leave("poll")
  /\ UNCHANGED <<build, netVars, other, errno, queueOpen>>

\* The test of the type, then the push or the free.
Deliver ==
  /\ pc = "body" /\ Len(buf) >= full
  /\ inbox' = IF Admits THEN Append(inbox, buf) ELSE inbox
  /\ Leave("poll")
  /\ UNCHANGED <<build, netVars, other, errno, queueOpen>>

\* tryReconnect on this thread: closeSocket, then init.
Retry ==
  /\ pc = "retry"
  /\ Close
  /\ pc' = "reopen"
  /\ UNCHANGED <<build, breaks, other, mine, buf, full, known, errno, inbox>>

Reopen ==
  /\ pc = "reopen"
  /\ Open
  /\ pc' = "poll"
  /\ UNCHANGED <<build, breaks, other, mine, buf, full, known, errno, inbox>>

-----------------------------------------------------------------------------
RecvThread == Poll \/ ReadHeader \/ HeaderRead \/ ReadBody \/ Deliver \/ Retry \/ Reopen
Next == RecvThread \/ Arrive \/ Break \/ CloseElsewhere \/ OpenElsewhere \/ Take

Spec == Init /\ [][Next]_vars
FairSpec == Spec /\ WF_vars(RecvThread)

-----------------------------------------------------------------------------
\* Every variable keeps its shape, and the queue its room, however the stream is
\* cut.
TypeOK ==
  /\ build \in Builds
  /\ wire \in Seq(Cells) /\ coming \in Cells
  /\ link \in {"up", "ended", "broken", "closed"} /\ other \in BOOLEAN
  /\ pc \in {"poll", "header", "body", "retry", "reopen"}
  /\ mine \in {"current", "gone"}
  /\ buf \in Seq(Cells) /\ full \in 0 .. MaxPack /\ known \in BOOLEAN
  /\ Len(buf) <= IF pc = "body" THEN MaxPack ELSE IF pc = "header" THEN Header ELSE 0
  /\ errno \in {"again", "other"} /\ queueOpen \in BOOLEAN
  /\ inbox \in Seq(Seq(Cells)) /\ Len(inbox) <= QueueSize
  /\ breaks \in 0 .. MaxBreaks

\* recvTcp has read the beginning of a packet, and the next byte goes on with it;
\* or it is about to give up the connection.
Upcoming == IF wire = <<>> THEN coming ELSE Head(wire)
Begins(n) == Len(buf) <= Length(n) /\ \A k \in DOMAIN buf : buf[k] = [msg |-> n, at |-> k]

InStep ==
  \/ pc = "retry"
  \/ buf = <<>> /\ Upcoming.at = 1
  \/ /\ buf # <<>>
     /\ \E n \in Numbers :
          /\ Begins(n)
          /\ IF Len(buf) = Length(n) THEN Upcoming.at = 1
             ELSE Upcoming = [msg |-> n, at |-> Len(buf) + 1]

\* No more is copied into the buffer than was allocated for it, wherever the
\* stream is cut, when fullSize is at least a header's; and so it is in step.
\* (Out of step a smaller fullSize passes the test of range, and the header is
\* copied over the end of the buffer.)
CopiesFit ==
  pc = "body" => (full >= Header => Len(buf) <= full) /\ (InStep => full >= Header)

\* recvTcp gets out of step in three ways only: memory for the packet is
\* missing when its header is gone from the stream; the rest of a header is not
\* there yet (emulator build); another thread replaces the connection while a
\* packet is half read.  A body cut short, an end of the stream anywhere, a
\* reconnect of its own, a full or closed queue keep it in step.
StrayCause ==
  \/ pc = "header" /\ Len(buf) = Header /\ pc' = "poll"
  \/ pc = "header" /\ build = "emulator" /\ buf # <<>> /\ wire = <<>> /\ pc' = "poll"
  \/ other' # other /\ pc \in {"header", "body"} /\ buf # <<>>
StrayCauses == [][InStep /\ ~InStep' => StrayCause]_vars

\* What recvTcp hands over while in step is whole packets of the server, each
\* once and in order, wherever Recv cuts the stream and connections end.
Content(b) == IF \E n \in Numbers : b = Bytes(n) THEN b[1].msg ELSE Garbage
On(s) == {n \in Numbers : \E k \in DOMAIN s : s[k] = [msg |-> n, at |-> 1]}

Said == IF coming.at = 1 THEN coming.msg - 1 ELSE coming.msg
Pending == On(buf) \cup On(wire)
HandedOver == [k \in DOMAIN inbox |-> Content(inbox[k])]

Stream == INSTANCE PacketStream WITH
  said <- Said, pending <- Pending, inbox <- HandedOver, astray <- ~InStep

ImplementsPacketStream == Stream!Spec

\* A connection the server has closed is given up, wherever in a packet it
\* ends.  Only for the console: in the emulator the end of the stream is taken
\* for EAGAIN if that was the last error, and recv goes round for ever.
ServerCloseNoticed == (build = "console" /\ link = "ended") ~> (link # "ended")

=============================================================================
