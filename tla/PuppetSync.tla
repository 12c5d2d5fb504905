----------------------------- MODULE PuppetSync -----------------------------
(***************************************************************************)
(* The puppet table fed by a server: which packets reach the read thread,  *)
(* and in which order.                                                     *)
(*                                                                         *)
(* The server is not part of this repository.  It is modelled as the       *)
(* client relies on it: it announces every player that comes or goes on    *)
(* the TCP connection, forwards the others' updates (on UDP, if it was     *)
(* negotiated, the PLAYERINF ones), and tells a client that connects again *)
(* who is there.  Every packet of it first goes through the receive queue, *)
(* where the receive thread frees it if the queue is full or closed: the   *)
(* read thread, which may sleep for a second, never learns of it.          *)
(***************************************************************************)
EXTENDS PuppetTable, Sequences, SequencesExt

CONSTANTS
  Udp,        \* do PLAYERINF packets come by UDP
  MaxTcp,     \* bound: packets on the way by TCP
  MaxOutages, \* bound: how often this client loses its connection
  MaxMissed   \* bound: how many announcements find the receive queue full or closed

ASSUME UdpAssumption == Udp \in BOOLEAN
ASSUME BoundAssumption == {MaxTcp, MaxOutages, MaxMissed} \subseteq Nat
ASSUME PlayersAssumption == IsFiniteSet(Players)

VARIABLES
  online,  \* players at the server
  tcp,     \* packets on the way, in order
  udp,     \* PLAYERINF packets on the way by UDP: in any order, any number of times
  outages, \* connections lost so far
  lost,    \* history: players of whom the last announcement was refused, not handled
  missed   \* history: how many announcements were refused

history == <<lost, missed>>
netVars == <<online, tcp, udp, outages, history>>
syncVars == <<vars, netVars>>

Con(p) == [type |-> "PLAYERCON", who |-> p]
Dc(p) == [type |-> "PLAYERDC", who |-> p]
Inf(p) == [type |-> "PLAYERINF", who |-> p]
MaxPlayers(n) == [type |-> "CLIENTINIT", limit |-> n]
GameMsg(p, s) == [type |-> "GAMEINF", who |-> p, stage |-> s]

SyncInit == Init /\ online = {} /\ tcp = <<>> /\ udp = {} /\ outages = 0 /\ lost = {} /\ missed = 0

Post(m) == Len(tcp) < MaxTcp /\ tcp' = Append(tcp, m)

-----------------------------------------------------------------------------
(* The server.                                                             *)

Join(p) ==
  /\ p \notin online
  /\ Cardinality(online) < limit
  /\ online' = online \cup {p}
  /\ Post(Con(p))
  /\ UNCHANGED <<vars, udp, outages, history>>

Leave(p) ==
  /\ p \in online
  /\ online' = online \ {p}
  /\ Post(Dc(p))
  /\ UNCHANGED <<vars, udp, outages, history>>

ForwardPlayer(p) ==
  /\ p \in online
  /\ IF Udp THEN udp' = udp \cup {p} /\ UNCHANGED tcp
            ELSE Post(Inf(p)) /\ UNCHANGED udp
  /\ UNCHANGED <<vars, online, outages, history>>

ForwardGame(p, s) ==
  /\ p \in online
  /\ Post(GameMsg(p, s))
  /\ UNCHANGED <<vars, online, udp, outages, history>>

\* A server does not lower the number of players it takes.
NoLess(n) == n >= limit /\ \A k \in DOMAIN tcp : tcp[k].type = "CLIENTINIT" => n >= tcp[k].limit

\* The connection breaks and is made again: of what was on the way the packets
\* already in the receive queue stay, and the server says how many it takes,
\* perhaps more than before, and announces who is there now.  The client keeps
\* its table.
Outage ==
  /\ outages < MaxOutages
  /\ outages' = outages + 1
  /\ \E queued \in 0..Len(tcp), n \in Limits, order \in SetToSeqs(online) :
       /\ queued + 1 + Cardinality(online) <= MaxTcp
       /\ MayShrink \/ NoLess(n)
       /\ tcp' = SubSeq(tcp, 1, queued) \o <<MaxPlayers(n)>> \o [k \in DOMAIN order |-> Con(order[k])]
  /\ UNCHANGED <<vars, online, udp, history>>

-----------------------------------------------------------------------------
(* The read thread: the next TCP packet, or a UDP packet when it happens   *)
(* to come.                                                                *)

Handle(m) ==
  CASE m.type = "PLAYERCON" -> PlayerCon(m.who)
    [] m.type = "PLAYERDC" -> PlayerDC(m.who)
    [] m.type = "PLAYERINF" -> PlayerInf(m.who)
    [] m.type = "GAMEINF" -> GameInf(m.who, m.stage)
    [] m.type = "CLIENTINIT" -> ClientInit(m.limit)

Announces(m) == m.type \in {"PLAYERCON", "PLAYERDC"}

ReceiveTcp ==
  /\ tcp # <<>>
  /\ Handle(Head(tcp))
  /\ tcp' = Tail(tcp)
  /\ lost' = IF Announces(Head(tcp)) THEN lost \ {Head(tcp).who} ELSE lost
  /\ UNCHANGED <<online, udp, outages, missed>>

\* The end of recvTcp: the packet found the receive queue full, or closed while
\* a thread connects again, and is freed.  (It is taken off when its turn would
\* have come: it is the same to the handlers.)
RefuseTcp ==
  /\ tcp # <<>>
  /\ tcp' = Tail(tcp)
  /\ IF Announces(Head(tcp))
     THEN /\ missed < MaxMissed
          /\ missed' = missed + 1
          /\ lost' = lost \cup {Head(tcp).who}
     ELSE UNCHANGED history
  /\ UNCHANGED <<vars, online, udp, outages>>

\* UDP may deliver a packet again: it need not leave.
ReceiveUdp(p) ==
  /\ p \in udp
  /\ PlayerInf(p)
  /\ udp' \in {udp, udp \ {p}}
  /\ UNCHANGED <<online, tcp, outages, history>>

\* On the way, or at a full receive queue.
LoseUdp(p) ==
  /\ p \in udp
  /\ udp' = udp \ {p}
  /\ UNCHANGED <<vars, online, tcp, outages, history>>

-----------------------------------------------------------------------------
Server ==
  \/ \E p \in Players : Join(p) \/ Leave(p) \/ ForwardPlayer(p)
  \/ \E p \in Players, s \in Stages : ForwardGame(p, s)

SyncNext ==
  \/ Server
  \/ Outage
  \/ ReceiveTcp
  \/ RefuseTcp
  \/ \E p \in Players : ReceiveUdp(p) \/ LoseUdp(p)
  \/ Game /\ UNCHANGED netVars

SyncSpec == SyncInit /\ [][SyncNext]_syncVars

\* The read thread runs and the game calls Client::update in every frame.
SyncFairSpec == SyncSpec /\ WF_syncVars(ReceiveTcp) /\ WF_syncVars(Update /\ UNCHANGED netVars)

-----------------------------------------------------------------------------
\* The connection carries packets the client knows, about players.
SyncTypeOK ==
  /\ TypeOK
  /\ online \subseteq Players
  /\ \A k \in DOMAIN tcp :
       \/ tcp[k].type \in {"PLAYERCON", "PLAYERDC", "PLAYERINF", "GAMEINF"} /\ tcp[k].who \in Players
       \/ tcp[k].type = "CLIENTINIT" /\ tcp[k].limit \in Limits
  /\ udp \subseteq Players
  /\ outages \in 0..MaxOutages
  /\ lost \subseteq Players
  /\ missed \in 0..MaxMissed

\* With everything on one ordered connection the table is exact: when no
\* packet is on the way, the connected slots are the players at the server,
\* one each, and mConnectCount is their number, as long as the receive queue
\* refused no announcement.
InSync ==
  tcp = <<>> /\ missed = 0 => /\ ConnectedIds = online
                            /\ Cardinality(ConnectedSlots) = Cardinality(online)
                            /\ count = Cardinality(online)

\* Whatever UDP repeats or delays and whatever an outage loses, nobody at the
\* server is missing from the table when no packet is on the way, as long as
\* there is a slot for every player that was ever there; but for one whose
\* last announcement the receive queue refused.
EveryoneKnown ==
  tcp = <<>> /\ limit >= Cardinality(Players) => online \subseteq ConnectedIds \cup lost

\* The announcements among the packets "s", in order; the n-th element of a set
\* of numbers is the one with n - 1 below it.
Announcing(s) == {k \in DOMAIN s : Announces(s[k])}
Rank(A, k) == Cardinality({j \in A : j <= k})
Nth(A, n) == CHOOSE k \in A : Rank(A, k) = n
Note(m) == [who |-> m.who, here |-> m.type = "PLAYERCON"]
Pending(s) == [n \in 1 .. Cardinality(Announcing(s)) |-> Note(s[Nth(Announcing(s), n)])]

\* The table implements the delayed view of who is at the server: until the
\* receive queue refuses an announcement, and then nothing is promised.
View == INSTANCE DelayedView WITH
  Members <- Players,
  real <- online,
  view <- ConnectedIds,
  pending <- Pending(tcp),
  lost <- missed # 0
ImplementsDelayedView == View!Spec

\* A player that is gone for good is not seen for ever, unless the receive queue
\* refused the PLAYERDC that told so.
GoneVanish ==
  \A p \in Players : <>[](p \notin online \cup lost) => <>[](\A i \in shown : id[i] # p)

=============================================================================
