--------------------------- MODULE PuppetSyncProofs ---------------------------
(***************************************************************************)
(* Theorems about PuppetSync, for any number of players, slots, packets    *)
(* and outages, with and without UDP: the table does what PuppetTable      *)
(* allows, and nobody at the server is missing from it when no packet is   *)
(* on the way.  On a reliable connection it is a delayed view of the       *)
(* server's players, exact when nothing is on the way.                     *)
(*                                                                         *)
(* The argument for the second: a player at the server is in the table, or *)
(* a PLAYERCON of his is on the way; every PLAYERDC of his on the way is   *)
(* followed by a PLAYERCON; and when that is handled there is a slot for   *)
(* him, since two players never share one and no player has two.           *)
(***************************************************************************)
EXTENDS PuppetSync, PuppetTableProofs, FunctionTheorems, SequenceTheorems, WellFoundedInduction

-----------------------------------------------------------------------------
(* Packets.                                                                *)

Messages ==
  {Con(p) : p \in Players} \cup {Dc(p) : p \in Players} \cup {Inf(p) : p \in Players}
    \cup {MaxPlayers(n) : n \in Limits}
    \cup {GameMsg(p, s) : p \in Players, s \in Stages}

LEMMA MessageCases ==
  ASSUME NEW m \in Messages
  PROVE  \/ \E p \in Players : m = Con(p) \/ m = Dc(p) \/ m = Inf(p)
         \/ \E n \in Limits : m = MaxPlayers(n)
         \/ \E p \in Players, s \in Stages : m = GameMsg(p, s)
BY DEF Messages

\* A packet is handled by the handler of its type; what it is about tells it
\* apart from every other one.
LEMMA HandleIs ==
  /\ \A p : Handle(Con(p)) <=> PlayerCon(p)
  /\ \A p : Handle(Dc(p)) <=> PlayerDC(p)
  /\ \A p : Handle(Inf(p)) <=> PlayerInf(p)
  /\ \A p, s : Handle(GameMsg(p, s)) <=> GameInf(p, s)
  /\ \A n : Handle(MaxPlayers(n)) <=> ClientInit(n)
BY DEF Handle, Con, Dc, Inf, GameMsg, MaxPlayers

LEMMA HandleHandles == ASSUME NEW m \in Messages, Handle(m) PROVE Handler
<1>1. ASSUME NEW p \in Players, m = Con(p) \/ m = Dc(p) \/ m = Inf(p) PROVE Handler
  BY <1>1, HandleIs DEF Handler
<1>2. ASSUME NEW n \in Limits, m = MaxPlayers(n) PROVE Handler
  BY <1>2, HandleIs DEF Handler
<1>3. ASSUME NEW p \in Players, NEW s \in Stages, m = GameMsg(p, s) PROVE Handler
  BY <1>3, HandleIs DEF Handler
<1> QED
  BY <1>1, <1>2, <1>3, MessageCases

LEMMA Different ==
  /\ \A p, q : Con(p) = Con(q) => p = q
  /\ \A p, q : Dc(p) = Dc(q) => p = q
  /\ \A p, q : Con(p) # Dc(q) /\ Con(p) # Inf(q) /\ Dc(p) # Inf(q)
  /\ \A p, n : Con(p) # MaxPlayers(n) /\ Dc(p) # MaxPlayers(n) /\ Inf(p) # MaxPlayers(n)
  /\ \A p, q, s : Con(p) # GameMsg(q, s) /\ Dc(p) # GameMsg(q, s)
  /\ \A p, s, n : GameMsg(p, s) # MaxPlayers(n)
<1>1. ASSUME NEW p, NEW q PROVE (Con(p) = Con(q) => p = q) /\ (Dc(p) = Dc(q) => p = q)
  <2>1. Con(p).who = p /\ Con(q).who = q /\ Dc(p).who = p /\ Dc(q).who = q
    BY DEF Con, Dc
  <2> QED
    BY <2>1
<1>2. /\ \A p : Con(p).type = "PLAYERCON" /\ Dc(p).type = "PLAYERDC" /\ Inf(p).type = "PLAYERINF"
      /\ \A n : MaxPlayers(n).type = "CLIENTINIT"
      /\ \A p, s : GameMsg(p, s).type = "GAMEINF"
  BY DEF Con, Dc, Inf, MaxPlayers, GameMsg
<1>3. "PLAYERCON" # "PLAYERDC" /\ "PLAYERCON" # "PLAYERINF" /\ "PLAYERDC" # "PLAYERINF"
      /\ "PLAYERCON" # "CLIENTINIT" /\ "PLAYERDC" # "CLIENTINIT" /\ "PLAYERINF" # "CLIENTINIT"
      /\ "PLAYERCON" # "GAMEINF" /\ "PLAYERDC" # "GAMEINF" /\ "GAMEINF" # "CLIENTINIT"
  OBVIOUS
<1> QED
  BY <1>1, <1>2, <1>3, Zenon

-----------------------------------------------------------------------------
(* The connection.                                                         *)

Told(s, p) == \E k \in DOMAIN s : s[k] = Con(p)

\* After each m there is a PLAYERCON of p.
ConFollows(s, m, p) ==
  \A k \in DOMAIN s : s[k] = m => \E j \in DOMAIN s : j > k /\ s[j] = Con(p)

LEMMA AppendTold ==
  ASSUME NEW s \in Seq(Messages), NEW m \in Messages, NEW p, NEW x
  PROVE  /\ Append(s, m) \in Seq(Messages)
         /\ Told(s, p) => Told(Append(s, m), p)
         /\ ConFollows(s, x, p) /\ m # x => ConFollows(Append(s, m), x, p)
         /\ m = Con(p) /\ x # Con(p) => Told(Append(s, m), p) /\ ConFollows(Append(s, m), x, p)
<1>1. /\ Append(s, m) \in Seq(Messages) /\ Len(Append(s, m)) = Len(s) + 1
      /\ \A k \in 1 .. Len(s) : Append(s, m)[k] = s[k]
      /\ Append(s, m)[Len(s) + 1] = m
      /\ DOMAIN s = 1 .. Len(s) /\ DOMAIN Append(s, m) = 1 .. Len(s) + 1 /\ Len(s) \in Nat
  OBVIOUS
<1>2. Told(s, p) => Told(Append(s, m), p)
  BY <1>1 DEF Told
<1>3. ConFollows(s, x, p) /\ m # x => ConFollows(Append(s, m), x, p)
  BY <1>1 DEF ConFollows
<1>4. ASSUME m = Con(p), x # Con(p) PROVE Told(Append(s, m), p) /\ ConFollows(Append(s, m), x, p)
  BY <1>1, <1>4 DEF Told, ConFollows
<1> QED
  BY <1>1, <1>2, <1>3, <1>4

LEMMA TailTold ==
  ASSUME NEW s \in Seq(Messages), s # <<>>, NEW p, NEW x
  PROVE  /\ Head(s) \in Messages /\ Tail(s) \in Seq(Messages)
         /\ Told(s, p) => Head(s) = Con(p) \/ Told(Tail(s), p)
         /\ ConFollows(s, x, p) => ConFollows(Tail(s), x, p) /\ (Head(s) = x => Told(Tail(s), p))
<1>1. /\ Len(s) \in Nat \ {0} /\ DOMAIN s = 1 .. Len(s) /\ Head(s) = s[1]
      /\ DOMAIN Tail(s) = 1 .. Len(s) - 1
      /\ \A k \in 1 .. Len(s) - 1 : Tail(s)[k] = s[k + 1]
      /\ Head(s) \in Messages /\ Tail(s) \in Seq(Messages)
  OBVIOUS
<1>2. \A k \in 2 .. Len(s) : k - 1 \in DOMAIN Tail(s) /\ Tail(s)[k - 1] = s[k]
  BY <1>1
<1>3. ASSUME Told(s, p) PROVE Head(s) = Con(p) \/ Told(Tail(s), p)
  <2>1. PICK k \in DOMAIN s : s[k] = Con(p)
    BY <1>3 DEF Told
  <2>2. k = 1 \/ k \in 2 .. Len(s)
    BY <1>1
  <2> QED
    BY <1>1, <1>2, <2>1, <2>2 DEF Told
<1>4. ASSUME ConFollows(s, x, p) PROVE ConFollows(Tail(s), x, p)
  <2> SUFFICES ASSUME NEW k \in DOMAIN Tail(s), Tail(s)[k] = x
               PROVE  \E j \in DOMAIN Tail(s) : j > k /\ Tail(s)[j] = Con(p)
    BY DEF ConFollows
  <2>1. k + 1 \in DOMAIN s /\ s[k + 1] = x /\ k \in Nat
    BY <1>1
  <2>2. PICK j \in DOMAIN s : j > k + 1 /\ s[j] = Con(p)
    BY <1>4, <2>1 DEF ConFollows
  <2>3. j \in 2 .. Len(s) /\ j - 1 > k
    BY <1>1, <2>1, <2>2
  <2> QED
    BY <1>2, <2>2, <2>3
<1>5. ASSUME ConFollows(s, x, p), Head(s) = x PROVE Told(Tail(s), p)
  <2>1. PICK j \in DOMAIN s : j > 1 /\ s[j] = Con(p)
    BY <1>1, <1>5 DEF ConFollows
  <2>2. j \in 2 .. Len(s)
    BY <1>1, <2>1
  <2> QED
    BY <1>2, <2>1, <2>2 DEF Told
<1> QED
  BY <1>1, <1>3, <1>4, <1>5

\* Connected again, the client is told who is there: everybody, once.
LEMMA ToldAgain ==
  ASSUME online \subseteq Players, NEW n \in Limits, NEW order \in SetToSeqs(online),
         NEW s \in Seq(Messages), NEW q \in 0 .. Len(s),
         NEW t, t = SubSeq(s, 1, q) \o <<MaxPlayers(n)>> \o [k \in DOMAIN order |-> Con(order[k])]
  PROVE  /\ t \in Seq(Messages)
         /\ \A p \in online : /\ Told(t, p) /\ ConFollows(t, Dc(p), p)
                              /\ \A x \in Limits : ConFollows(t, MaxPlayers(x), p)
<1> DEFINE N == Cardinality(online)
<1> DEFINE cons == [k \in DOMAIN order |-> Con(order[k])]
<1>1. IsFiniteSet(online) /\ N \in Nat
  BY PlayersAssumption, FS_Subset, FS_CardinalityType
<1>2. order \in [1 .. N -> online] /\ \A i, j \in 1 .. N : i # j => order[i] # order[j]
  BY DEF SetToSeqs
<1>3. order \in Injection(1 .. N, online)
  BY <1>2, Fun_IsInj
<1>4. Cardinality(1 .. N) = N
  <2>1. N \in Int /\ 1 \in Int /\ (1 > N => N = 0)
    BY <1>1
  <2> HIDE DEF N
  <2>2. Cardinality(1 .. N) = IF 1 > N THEN 0 ELSE N - 1 + 1
    BY <2>1, FS_Interval
  <2> QED
    BY <2>1, <2>2
<1>5. order \in Surjection(1 .. N, online)
  BY <1>1, <1>3, <1>4, FS_Injection
<1>6. \A p \in online : \E k \in 1 .. N : order[k] = p
  BY <1>5 DEF Surjection
<1> HIDE DEF N
<1>7. cons \in Seq(Messages) /\ Len(cons) = N /\ \A k \in 1 .. N : cons[k] = Con(order[k])
  <2>1. DOMAIN order = 1 .. N
    BY <1>2
  <2>2. \A k \in 1 .. N : Con(order[k]) \in Messages
    BY <1>2 DEF Messages
  <2>3. cons = [k \in 1 .. N |-> Con(order[k])]
    BY <2>1
  <2> QED
    BY <1>1, <2>2, <2>3
<1> HIDE DEF cons
<1> DEFINE pre == SubSeq(s, 1, q)
<1>8. /\ t = pre \o <<MaxPlayers(n)>> \o cons /\ q \in Nat
      /\ pre \in Seq(Messages) /\ Len(pre) = q
  BY DEF cons
<1> HIDE DEF pre
<1>9. MaxPlayers(n) \in Messages
  BY DEF Messages
<1> DEFINE u == pre \o <<MaxPlayers(n)>>
<1>9a. u \in Seq(Messages) /\ Len(u) = q + 1
  BY <1>8, <1>9
<1>9b. t = u \o cons
  BY <1>8
<1> HIDE DEF u
<1>10. /\ t \in Seq(Messages) /\ Len(t) = q + 1 + N /\ DOMAIN t = 1 .. q + 1 + N
       /\ \A k \in 1 .. N : t[q + 1 + k] = Con(order[k])
  <2>1. t \in Seq(Messages) /\ Len(t) = q + 1 + N /\ DOMAIN t = 1 .. q + 1 + N
    <3>1. u \o cons \in Seq(Messages) /\ Len(u \o cons) = Len(u) + Len(cons)
      BY <1>7, <1>9a, ConcatProperties
    <3>2. DOMAIN (u \o cons) = 1 .. Len(u \o cons)
      BY <3>1
    <3> QED
      BY <1>7, <1>9a, <1>9b, <3>1, <3>2
  <2>2. ASSUME NEW k \in 1 .. N PROVE t[q + 1 + k] = cons[k]
    <3>1. q + 1 + k \in 1 .. Len(u) + Len(cons) /\ q + 1 + k > Len(u) /\ q + 1 + k - Len(u) = k
      BY <1>1, <1>7, <1>8, <1>9a
    <3>2. (u \o cons)[q + 1 + k] = cons[q + 1 + k - Len(u)]
      BY <1>7, <1>9a, <3>1
    <3> QED
      BY <1>9b, <3>1, <3>2
  <2> QED
    BY <1>7, <2>1, <2>2
<1>11. \A k \in DOMAIN t : k <= q + 1 \/ \E p \in online : t[k] = Con(p)
  <2> SUFFICES ASSUME NEW k \in DOMAIN t, ~(k <= q + 1) PROVE \E p \in online : t[k] = Con(p)
    OBVIOUS
  <2>1. k - (q + 1) \in 1 .. N /\ q + 1 + (k - (q + 1)) = k
    BY <1>1, <1>8, <1>10
  <2>2. t[k] = Con(order[k - (q + 1)]) /\ order[k - (q + 1)] \in online
    BY <1>2, <1>10, <2>1
  <2> QED
    BY <2>2
<1>12. ASSUME NEW p \in online
       PROVE  /\ Told(t, p) /\ ConFollows(t, Dc(p), p)
              /\ \A x \in Limits : ConFollows(t, MaxPlayers(x), p)
  <2>1. PICK k \in 1 .. N : order[k] = p
    BY <1>6
  <2>2. q + 1 + k \in DOMAIN t /\ q + 1 + k > q + 1 /\ t[q + 1 + k] = Con(p)
    BY <1>1, <1>8, <1>10, <2>1
  <2>3. ASSUME NEW i \in DOMAIN t, NEW x, t[i] = Dc(p) \/ t[i] = MaxPlayers(x) PROVE i <= q + 1
    <3> SUFFICES ASSUME ~(i <= q + 1) PROVE FALSE
      OBVIOUS
    <3>1. PICK y \in online : t[i] = Con(y)
      BY <1>11
    <3> QED
      BY <2>3, <3>1, Different
  <2>5. \A i \in DOMAIN t : i <= q + 1 => q + 1 + k > i
    BY <1>8, <1>10, <2>1
  <2> QED
    BY <2>2, <2>3, <2>5 DEF Told, ConFollows
<1> QED
  BY <1>10, <1>12

-----------------------------------------------------------------------------
(* A slot for everybody.                                                   *)

LEMMA FirstExists == ASSUME NEW S \in SUBSET Nat, S # {} PROVE First(S) # {}
<1>1. PICK i \in S : \A j \in S : ~ (<<j, i>> \in OpToRel(<, Nat))
  BY NatLessThanWellFounded, WFMin
<1>2. \A j \in S : j < i => <<j, i>> \in OpToRel(<, Nat)
  BY DEF OpToRel
<1>3. \A j \in S : ~ (j < i)
  BY <1>1, <1>2, Zenon
<1>4. \A j \in S : i <= j
  BY <1>3
<1> QED
  BY <1>4 DEF First

Room == limit >= Cardinality(Players)

\* A connected slot is some player's.
Owned == \A i \in Slots : conn[i] => id[i] \in Players

LEMMA SlotsOfNat == Slots \subseteq Nat /\ InRange \subseteq Slots
BY SlotsAssumption DEF Slots, InRange

\* findPuppetInfo finds a slot for a player as long as there are no fewer than
\* players: otherwise all would be other players', each another one's.
LEMMA SlotIsFound ==
  ASSUME TypeOK, OneSlotPerPlayer, Owned, Room, NEW p \in Players
  PROVE  FoundOrFree(p) # {}
<1>1. Known(p) \in SUBSET Nat /\ Free \in SUBSET Nat
  BY SlotsOfNat DEF Known, Free
<1>2. CASE Known(p) # {}
  BY <1>1, <1>2, FirstExists DEF FoundOrFree, Found
<1>3. CASE Known(p) = {}
  <2>1. SUFFICES ASSUME Free = {} PROVE FALSE
    BY <1>1, <1>3, FirstExists DEF FoundOrFree
  <2>2. limit \in Nat /\ limit <= MaxSlots
    BY SlotsAssumption, LimitsAssumption DEF TypeOK
  <2>3. 1 .. limit = InRange
    BY <2>2, SlotsAssumption DEF InRange, Slots
  <2>4. \A i \in 1 .. limit : i \in Slots /\ conn[i] /\ id[i] # p
    BY <2>1, <2>3, <1>3, SlotsOfNat DEF Free, Known
  <2>5. \A i \in 1 .. limit : id[i] \in Players \ {p}
    BY <2>4 DEF Owned
  <2>6. \A i, j \in 1 .. limit : id[i] = id[j] => i = j
    BY <2>4, <2>5, NoOneAssumption DEF OneSlotPerPlayer
  <2> DEFINE f == [i \in 1 .. limit |-> id[i]]
  <2>7. f \in Injection(1 .. limit, Players \ {p})
    BY <2>5, <2>6, Fun_IsInj
  <2> HIDE DEF f
  <2>8. /\ IsFiniteSet(Players \ {p}) /\ Cardinality(Players) \in Nat
        /\ Cardinality(Players \ {p}) = Cardinality(Players) - 1
    BY PlayersAssumption, FS_RemoveElement, FS_CardinalityType
  <2>9. Cardinality(1 .. limit) <= Cardinality(Players \ {p})
    BY <2>7, <2>8, FS_Injection
  <2>10. Cardinality(1 .. limit) = limit
    <3>1. Cardinality(1 .. limit) = IF 1 > limit THEN 0 ELSE limit - 1 + 1
      BY <2>2, FS_Interval
    <3> QED
      BY <2>2, <3>1
  <2> QED
    BY <2>2, <2>8, <2>9, <2>10 DEF Room
<1> QED
  BY <1>2, <1>3

\* What the handlers do to the players that are in the table.
LEMMA ConKnows ==
  ASSUME TypeOK, OneSlotPerPlayer, Owned, NEW p \in Players, PlayerCon(p)
  PROVE  /\ ConnectedIds \subseteq ConnectedIds'
         /\ Room => p \in ConnectedIds'
         /\ Owned' /\ limit' = limit
<1>1. /\ limit' = limit
      /\ \/ UNCHANGED <<id, conn>>
         \/ \E i \in Slots : /\ ~conn[i]
                             /\ id' = [id EXCEPT ![i] = p]
                             /\ conn' = [conn EXCEPT ![i] = TRUE]
  BY ConEffect
<1>2. CASE UNCHANGED <<id, conn>>
  <2>1. ConnectedIds' = ConnectedIds /\ Owned'
    BY <1>2 DEF ConnectedIds, ConnectedSlots, Owned
  <2>2. ASSUME Room PROVE p \in ConnectedIds
    <3>1. PICK i : i \in FoundOrFree(p)
      BY <2>2, SlotIsFound
    <3>2. i \in Slots
      BY <3>1, FoundSlot
    <3>3. conn[i]
      <4>1. ASSUME ~conn[i] PROVE FALSE
        <5>1. \E k \in FoundOrFree(p) : conn' = [conn EXCEPT ![k] = TRUE]
          BY <3>1, <4>1 DEF PlayerCon
        <5>2. conn' = [conn EXCEPT ![i] = TRUE]
          BY <3>1, <5>1, FoundSlot
        <5> QED
          BY <1>2, <3>2, <4>1, <5>2 DEF TypeOK
      <4> QED
        BY <4>1
    <3>4. id[i] = p
      BY <3>1, <3>3 DEF FoundOrFree, Found, First, Known, Free
    <3> QED
      BY <3>2, <3>3, <3>4 DEF ConnectedIds, ConnectedSlots
  <2> QED
    BY <1>1, <2>1, <2>2
<1>3. ASSUME NEW i \in Slots, ~conn[i], id' = [id EXCEPT ![i] = p], conn' = [conn EXCEPT ![i] = TRUE]
      PROVE  ConnectedIds \subseteq ConnectedIds' /\ p \in ConnectedIds' /\ Owned'
  <2>1. id'[i] = p /\ conn'[i] /\ \A j \in Slots \ {i} : id'[j] = id[j] /\ conn'[j] = conn[j]
    BY <1>3 DEF TypeOK
  <2> QED
    BY <1>3, <2>1 DEF ConnectedIds, ConnectedSlots, Owned
<1> QED
  BY <1>1, <1>2, <1>3

LEMMA DcForgets ==
  ASSUME TypeOK, Owned, NEW p \in Players, PlayerDC(p)
  PROVE  ConnectedIds \ {p} \subseteq ConnectedIds' /\ Owned' /\ limit' = limit
<1>1. /\ UNCHANGED <<id, limit>>
      /\ conn' = conn \/ \E i \in Found(p) : conn' = [conn EXCEPT ![i] = FALSE]
  BY DEF PlayerDC
<1>2. \A i \in Found(p) : i \in Slots /\ id[i] = p
  BY FoundSlot
<1>3. \A j \in Slots : (conn'[j] => conn[j]) /\ (conn[j] /\ id[j] # p => conn'[j])
  BY <1>1, <1>2 DEF TypeOK
<1> QED
  BY <1>1, <1>3 DEF ConnectedIds, ConnectedSlots, Owned

LEMMA InfKnows ==
  ASSUME TypeOK, Owned, NEW p \in Players, PlayerInf(p)
  PROVE  ConnectedIds \subseteq ConnectedIds' /\ Owned' /\ limit' = limit
<1>1. UNCHANGED <<id, limit>> /\ conn' = [i \in Slots |-> conn[i] \/ i \in Found(p)]
  BY DEF PlayerInf
<1>2. \A i \in Found(p) : i \in Slots /\ id[i] = p
  BY FoundSlot
<1> QED
  BY <1>1, <1>2 DEF ConnectedIds, ConnectedSlots, Owned

LEMMA OthersKeep ==
  ASSUME Owned, UNCHANGED <<id, conn>>
  PROVE  ConnectedIds' = ConnectedIds /\ Owned'
BY DEF ConnectedIds, ConnectedSlots, Owned

-----------------------------------------------------------------------------
(* Types, and that PuppetSync implements PuppetTable.                      *)

NetTypes ==
  /\ online \subseteq Players /\ udp \subseteq Players
  /\ tcp \in Seq(Messages)
  /\ outages \in 0 .. MaxOutages
  /\ lost \subseteq Players /\ missed \in 0 .. MaxMissed

LEMMA PostType == ASSUME NetTypes, NEW m \in Messages, Post(m) PROVE tcp' \in Seq(Messages)
BY AppendTold DEF NetTypes, Post

\* A packet that is received is one a handler expects.
LEMMA ReceiveHandles ==
  ASSUME NetTypes, ReceiveTcp
  PROVE  /\ tcp # <<>> /\ tcp' = Tail(tcp) /\ tcp' \in Seq(Messages)
         /\ Head(tcp) \in Messages /\ Handle(Head(tcp)) /\ Handler
         /\ UNCHANGED <<online, udp, outages, missed>>
         /\ lost' = IF Announces(Head(tcp)) THEN lost \ {Head(tcp).who} ELSE lost
<1>1. Head(tcp) \in Messages /\ Tail(tcp) \in Seq(Messages)
  BY TailTold DEF ReceiveTcp, NetTypes
<1> QED
  BY <1>1, HandleHandles DEF ReceiveTcp

LEMMA WhoAnnounces ==
  /\ \A p : Announces(Con(p)) /\ Announces(Dc(p)) /\ ~Announces(Inf(p))
  /\ \A p, s : ~Announces(GameMsg(p, s))
  /\ \A n : ~Announces(MaxPlayers(n))
  /\ \A p : Con(p).who = p /\ Dc(p).who = p
BY DEF Announces, Con, Dc, Inf, GameMsg, MaxPlayers

LEMMA AnnouncedPlayer ==
  ASSUME NEW m \in Messages, Announces(m)
  PROVE  \E p \in Players : m.who = p /\ (m = Con(p) \/ m = Dc(p))
BY WhoAnnounces, MessageCases

LEMMA NetStep ==
  ASSUME NetTypes, [SyncNext]_syncVars
  PROVE  NetTypes' /\ [Next]_vars
<1>a. \A p \in Players : Con(p) \in Messages /\ Dc(p) \in Messages /\ Inf(p) \in Messages
  BY DEF Messages
<1>b. \A p \in Players : \A s \in Stages : GameMsg(p, s) \in Messages
  BY DEF Messages
<1>1. ASSUME NEW p \in Players, Join(p) \/ Leave(p) \/ ForwardPlayer(p)
      PROVE  NetTypes' /\ [Next]_vars
  <2>1. tcp' \in Seq(Messages)
    BY <1>1, <1>a, PostType DEF Join, Leave, ForwardPlayer, NetTypes
  <2>2. UNCHANGED vars /\ UNCHANGED outages /\ UNCHANGED <<lost, missed>> /\ online' \subseteq Players /\ udp' \subseteq Players
    BY <1>1 DEF Join, Leave, ForwardPlayer, NetTypes, history
  <2> QED
    BY <2>1, <2>2 DEF NetTypes
<1>2. ASSUME NEW p \in Players, NEW s \in Stages, ForwardGame(p, s) PROVE NetTypes' /\ [Next]_vars
  <2>1. tcp' \in Seq(Messages)
    BY <1>2, <1>b, PostType DEF ForwardGame
  <2> QED
    BY <1>2, <2>1 DEF ForwardGame, NetTypes, history
<1>3. CASE Outage
  <2>1. tcp' \in Seq(Messages)
    <3>1. PICK queued \in 0 .. Len(tcp), n \in Limits, order \in SetToSeqs(online) :
            tcp' = SubSeq(tcp, 1, queued) \o <<MaxPlayers(n)>> \o [k \in DOMAIN order |-> Con(order[k])]
      BY <1>3 DEF Outage
    <3> QED
      BY <3>1, ToldAgain DEF NetTypes
  <2>2. outages' \in 0 .. MaxOutages
    BY <1>3, BoundAssumption DEF Outage, NetTypes
  <2>3. UNCHANGED <<vars, online, udp, lost, missed>>
    BY <1>3 DEF Outage, history
  <2> QED
    BY <2>1, <2>2, <2>3 DEF NetTypes
<1>4. CASE ReceiveTcp
  <2>1. lost' \subseteq lost
    BY <1>4, ReceiveHandles
  <2> QED
    BY <1>4, <2>1, ReceiveHandles DEF NetTypes, Next
<1>4a. CASE RefuseTcp
  <2>1. Head(tcp) \in Messages /\ tcp' \in Seq(Messages) /\ UNCHANGED <<vars, online, udp, outages>>
    BY <1>4a, TailTold DEF RefuseTcp, NetTypes
  <2>2. CASE Announces(Head(tcp))
    <3>1. Head(tcp).who \in Players
      BY <2>1, <2>2, AnnouncedPlayer
    <3>2. lost' \subseteq Players /\ missed' \in 0 .. MaxMissed
      BY <1>4a, <2>2, <3>1, BoundAssumption DEF RefuseTcp, NetTypes
    <3> QED
      BY <2>1, <3>2 DEF NetTypes
  <2>3. CASE ~Announces(Head(tcp))
    BY <1>4a, <2>1, <2>3 DEF RefuseTcp, NetTypes, history
  <2> QED
    BY <2>2, <2>3
<1>5. ASSUME NEW p \in Players, ReceiveUdp(p) \/ LoseUdp(p) PROVE NetTypes' /\ [Next]_vars
  <2>1. NetTypes'
    BY <1>5 DEF ReceiveUdp, LoseUdp, NetTypes, history
  <2>2. PlayerInf(p) \/ UNCHANGED vars
    BY <1>5 DEF ReceiveUdp, LoseUdp
  <2> QED
    BY <2>1, <2>2 DEF Next, Handler
<1>6. CASE Game /\ UNCHANGED netVars
  BY <1>6 DEF netVars, history, NetTypes, Next
<1>7. CASE UNCHANGED syncVars
  BY <1>7 DEF syncVars, netVars, history, NetTypes
<1> QED
  BY <1>1, <1>2, <1>3, <1>4, <1>4a, <1>5, <1>6, <1>7 DEF SyncNext, Server

LEMMA SyncInitTypes == SyncInit => NetTypes
BY BoundAssumption DEF SyncInit, NetTypes

LEMMA NetTyped == SyncSpec => []NetTypes
BY SyncInitTypes, NetStep, PTL DEF SyncSpec

\* Whatever server and network do, the table does what PuppetTable allows, so
\* what is proved of it holds here.
THEOREM ImplementsPuppetTable == SyncSpec => Spec
<1>1. SyncInit => Init
  BY DEF SyncInit
<1> QED
  BY <1>1, SyncInitTypes, NetStep, PTL DEF SyncSpec, Spec

\* So whatever UDP repeats and outages lose, the count on the HUD does not exceed
\* the connected slots; and while the limit is never lowered no player has two
\* slots and none sits where findPuppetInfo does not look.
THEOREM TableIsRight ==
  /\ SyncSpec => []CountNeverOverstates
  /\ ~MayShrink => (SyncSpec => [](OneSlotPerPlayer /\ NobodyBeyondLimit))
<1>1. SyncSpec => []CountNeverOverstates
  BY ImplementsPuppetTable, CountBounded, PTL
<1>2. ASSUME ~MayShrink PROVE SyncSpec => [](OneSlotPerPlayer /\ NobodyBeyondLimit)
  <2>1. Spec => [](OneSlotPerPlayer /\ NobodyBeyondLimit)
    BY <1>2, OneSlot
  <2> QED BY <2>1, ImplementsPuppetTable, PTL
<1> QED BY <1>1, <1>2

\* The connection carries only packets the client knows, about players.
THEOREM SyncTypes == SyncSpec => []SyncTypeOK
<1>1. NetTypes /\ TypeOK => SyncTypeOK
  <2> SUFFICES ASSUME NetTypes, TypeOK PROVE SyncTypeOK
    OBVIOUS
  <2>1. ASSUME NEW k \in DOMAIN tcp
        PROVE  \/ tcp[k].type \in {"PLAYERCON", "PLAYERDC", "PLAYERINF", "GAMEINF"} /\ tcp[k].who \in Players
               \/ tcp[k].type = "CLIENTINIT" /\ tcp[k].limit \in Limits
    <3>1. tcp[k] \in Messages
      BY <2>1 DEF NetTypes
    <3> QED
      BY <3>1, MessageCases DEF Con, Dc, Inf, GameMsg, MaxPlayers
  <2> QED
    BY <2>1 DEF SyncTypeOK, NetTypes
<1> QED
  BY <1>1, NetTyped, ImplementsPuppetTable, TypeCorrect, PTL

-----------------------------------------------------------------------------
(* Nobody is missing.                                                      *)

OnTheWay ==
  \A p \in online :
    /\ ConFollows(tcp, Dc(p), p)
    /\ \A n \in Limits : ConFollows(tcp, MaxPlayers(n), p)
    /\ Room => Told(tcp, p) \/ p \in ConnectedIds \cup lost

\* The server and the network: the table stays as it is.
LEMMA SendStep ==
  ASSUME NetTypes, Owned, OnTheWay, UNCHANGED <<id, conn, limit, lost>>,
         \/ \E p \in Players : Join(p) \/ Leave(p) \/ ForwardPlayer(p) \/ LoseUdp(p)
         \/ \E p \in Players, s \in Stages : ForwardGame(p, s)
  PROVE  OnTheWay'
<1>0. ConnectedIds' = ConnectedIds /\ (Room' <=> Room)
  BY OthersKeep DEF Room
<1>1. ASSUME NEW m \in Messages, Post(m), online' \subseteq online, \A q \in online' : m # Dc(q),
             \A n \in Limits : m # MaxPlayers(n)
      PROVE  OnTheWay'
  <2>1. tcp' = Append(tcp, m) /\ tcp \in Seq(Messages)
    BY <1>1 DEF Post, NetTypes
  <2> QED
    BY <1>0, <1>1, <2>1, AppendTold DEF OnTheWay
<1>2. ASSUME NEW p \in Players, Join(p) PROVE OnTheWay'
  <2>1. /\ tcp' = Append(tcp, Con(p)) /\ tcp \in Seq(Messages) /\ Con(p) \in Messages
        /\ online' = online \cup {p}
    BY <1>2 DEF Join, Post, NetTypes, Messages
  <2>2. /\ \A q : Dc(q) # Con(p)
        /\ \A n : MaxPlayers(n) # Con(p)
    BY Different
  <2>3. /\ Told(tcp', p) /\ ConFollows(tcp', Dc(p), p)
        /\ \A n \in Limits : ConFollows(tcp', MaxPlayers(n), p)
    BY <2>1, <2>2, AppendTold
  <2>4. ASSUME NEW q \in online
        PROVE  /\ ConFollows(tcp', Dc(q), q)
               /\ \A n \in Limits : ConFollows(tcp', MaxPlayers(n), q)
               /\ Room' => Told(tcp', q) \/ q \in ConnectedIds' \cup lost'
    BY <1>0, <2>1, <2>2, AppendTold DEF OnTheWay
  <2> QED
    BY <2>1, <2>3, <2>4 DEF OnTheWay
<1>3. ASSUME NEW p \in Players, Leave(p) PROVE OnTheWay'
  <2>1. Post(Dc(p)) /\ online' = online \ {p} /\ Dc(p) \in Messages
    BY <1>3 DEF Leave, Messages
  <2>2. /\ \A q \in online' : Dc(p) # Dc(q)
        /\ \A n \in Limits : Dc(p) # MaxPlayers(n)
    BY <2>1, Different
  <2> QED
    BY <1>1, <2>1, <2>2
<1>4. ASSUME NEW p \in Players, ForwardPlayer(p) \/ LoseUdp(p) PROVE OnTheWay'
  <2>1. online' = online /\ (tcp' = tcp \/ Post(Inf(p))) /\ Inf(p) \in Messages
    BY <1>4 DEF ForwardPlayer, LoseUdp, Messages
  <2>2. /\ \A q \in online' : Inf(p) # Dc(q)
        /\ \A n \in Limits : Inf(p) # MaxPlayers(n)
    BY Different
  <2>3. tcp' = tcp => OnTheWay'
    BY <1>0, <2>1 DEF OnTheWay
  <2> QED
    BY <1>1, <2>1, <2>2, <2>3
<1>5. ASSUME NEW p \in Players, NEW s \in Stages, ForwardGame(p, s) PROVE OnTheWay'
  <2>1. Post(GameMsg(p, s)) /\ online' = online /\ GameMsg(p, s) \in Messages
    BY <1>5 DEF ForwardGame, Messages
  <2>2. /\ \A q \in online' : GameMsg(p, s) # Dc(q)
        /\ \A n \in Limits : GameMsg(p, s) # MaxPlayers(n)
    BY Different
  <2> QED
    BY <1>1, <2>1, <2>2
<1> QED
  BY <1>2, <1>3, <1>4, <1>5

\* A packet is handled: it is no longer on the way, ...
LEMMA ReceiveStep ==
  ASSUME NetTypes, TypeOK, OneSlotPerPlayer, Owned, OnTheWay, ReceiveTcp
  PROVE  Owned' /\ OnTheWay'
<1>1. /\ tcp # <<>> /\ tcp' = Tail(tcp) /\ tcp \in Seq(Messages)
      /\ Head(tcp) \in Messages /\ Handle(Head(tcp)) /\ online' = online
      /\ lost' = IF Announces(Head(tcp)) THEN lost \ {Head(tcp).who} ELSE lost
  BY ReceiveHandles DEF NetTypes
<1>2. ASSUME NEW q \in online
      PROVE  /\ ConFollows(tcp', Dc(q), q)
             /\ \A n \in Limits : ConFollows(tcp', MaxPlayers(n), q)
             /\ Told(tcp, q) => Head(tcp) = Con(q) \/ Told(tcp', q)
             /\ Head(tcp) = Dc(q) => Told(tcp', q)
             /\ \A n \in Limits : Head(tcp) = MaxPlayers(n) => Told(tcp', q)
             /\ Room => Told(tcp, q) \/ q \in ConnectedIds \cup lost
  BY <1>1, TailTold DEF OnTheWay
\* ... and who is not told of any more is in the table.
<1>3. ASSUME \A q \in online : Room' => Told(tcp', q) \/ q \in ConnectedIds' \cup lost'
      PROVE  OnTheWay'
  BY <1>1, <1>2, <1>3 DEF OnTheWay
<1>4. ASSUME NEW p \in Players, Head(tcp) = Con(p) PROVE Owned' /\ OnTheWay'
  <2>1. PlayerCon(p)
    BY <1>1, <1>4, HandleIs
  <2>2. /\ ConnectedIds \subseteq ConnectedIds' /\ (Room => p \in ConnectedIds')
        /\ Owned' /\ (Room' <=> Room)
    BY <2>1, ConKnows DEF Room
  <2>3. \A q : Con(p) = Con(q) => p = q
    BY Different
  <2>4. lost' = lost \ {p}
    BY <1>1, <1>4, WhoAnnounces
  <2> QED
    BY <1>2, <1>3, <1>4, <2>2, <2>3, <2>4
<1>5. ASSUME NEW p \in Players, Head(tcp) = Dc(p) PROVE Owned' /\ OnTheWay'
  <2>1. PlayerDC(p)
    BY <1>1, <1>5, HandleIs
  <2>2. ConnectedIds \ {p} \subseteq ConnectedIds' /\ Owned' /\ (Room' <=> Room)
    BY <2>1, DcForgets DEF Room
  <2>3. \A q : Dc(p) # Con(q)
    BY Different
  <2>4. lost' = lost \ {p}
    BY <1>1, <1>5, WhoAnnounces
  <2> QED
    BY <1>2, <1>3, <1>5, <2>2, <2>3, <2>4
<1>6. ASSUME NEW p \in Players, Head(tcp) = Inf(p) PROVE Owned' /\ OnTheWay'
  <2>1. PlayerInf(p)
    BY <1>1, <1>6, HandleIs
  <2>2. ConnectedIds \subseteq ConnectedIds' /\ Owned' /\ (Room' <=> Room)
    BY <2>1, InfKnows DEF Room
  <2>3. \A q : Inf(p) # Con(q)
    BY Different
  <2>4. lost' = lost
    BY <1>1, <1>6, WhoAnnounces
  <2> QED
    BY <1>2, <1>3, <1>6, <2>2, <2>3, <2>4
<1>7. ASSUME NEW p \in Players, NEW s \in Stages, Head(tcp) = GameMsg(p, s) PROVE Owned' /\ OnTheWay'
  <2>1. GameInf(p, s)
    BY <1>1, <1>7, HandleIs
  <2>2. ConnectedIds' = ConnectedIds /\ Owned' /\ (Room' <=> Room)
    BY <2>1, OthersKeep DEF GameInf, Room
  <2>3. \A q : GameMsg(p, s) # Con(q)
    BY Different
  <2>4. lost' = lost
    BY <1>1, <1>7, WhoAnnounces
  <2> QED
    BY <1>2, <1>3, <1>7, <2>2, <2>3, <2>4
<1>8. ASSUME NEW n \in Limits, Head(tcp) = MaxPlayers(n) PROVE Owned' /\ OnTheWay'
  <2>1. ClientInit(n)
    BY <1>1, <1>8, HandleIs
  <2>2. Owned'
    BY <2>1, OthersKeep DEF ClientInit
  <2> QED
    BY <1>2, <1>3, <1>8, <2>2
<1> QED
  BY <1>1, <1>4, <1>5, <1>6, <1>7, <1>8, MessageCases

LEMMA KnownStep ==
  ASSUME NetTypes, TypeOK, OneSlotPerPlayer, Owned, OnTheWay, [SyncNext]_syncVars
  PROVE  Owned' /\ OnTheWay'
<1>1. ASSUME NEW p \in Players, Join(p) \/ Leave(p) \/ ForwardPlayer(p) \/ LoseUdp(p)
      PROVE  Owned' /\ OnTheWay'
  <2>1. UNCHANGED <<id, conn, limit, lost>>
    BY <1>1 DEF Join, Leave, ForwardPlayer, LoseUdp, vars, table, history
  <2> QED
    BY <1>1, <2>1, SendStep, OthersKeep
<1>2. ASSUME NEW p \in Players, NEW s \in Stages, ForwardGame(p, s) PROVE Owned' /\ OnTheWay'
  <2>1. UNCHANGED <<id, conn, limit, lost>>
    BY <1>2 DEF ForwardGame, vars, table, history
  <2> QED
    BY <1>2, <2>1, SendStep, OthersKeep
<1>3. CASE Outage
  <2>1. UNCHANGED <<id, conn, limit, online>> /\ online \subseteq Players
    BY <1>3 DEF Outage, vars, table, NetTypes
  <2>2. \A p \in online : /\ Told(tcp', p) /\ ConFollows(tcp', Dc(p), p)
                          /\ \A n \in Limits : ConFollows(tcp', MaxPlayers(n), p)
    <3>1. PICK queued \in 0 .. Len(tcp), n \in Limits, order \in SetToSeqs(online) :
            tcp' = SubSeq(tcp, 1, queued) \o <<MaxPlayers(n)>> \o [k \in DOMAIN order |-> Con(order[k])]
      BY <1>3 DEF Outage
    <3> QED
      BY <2>1, <3>1, ToldAgain DEF NetTypes
  <2> QED
    BY <2>1, <2>2, OthersKeep DEF OnTheWay
<1>4. CASE ReceiveTcp
  BY <1>4, ReceiveStep
<1>4a. CASE RefuseTcp
  <2>1. /\ tcp # <<>> /\ tcp' = Tail(tcp) /\ tcp \in Seq(Messages) /\ Head(tcp) \in Messages
        /\ UNCHANGED <<id, conn, limit, online>>
    BY <1>4a, TailTold DEF RefuseTcp, NetTypes, vars, table
  <2>2. ASSUME NEW q \in online
        PROVE  /\ ConFollows(tcp', Dc(q), q)
               /\ \A n \in Limits : ConFollows(tcp', MaxPlayers(n), q)
               /\ Told(tcp, q) => Head(tcp) = Con(q) \/ Told(tcp', q)
               /\ Room => Told(tcp, q) \/ q \in ConnectedIds \cup lost
    BY <2>1, TailTold DEF OnTheWay
  <2>3. ASSUME NEW q \in online, Head(tcp) = Con(q) PROVE q \in lost'
    BY <1>4a, <2>3, WhoAnnounces DEF RefuseTcp
  <2>4. lost \subseteq lost'
    BY <1>4a DEF RefuseTcp, history
  <2>5. ConnectedIds' = ConnectedIds /\ Owned' /\ (Room' <=> Room)
    BY <2>1, OthersKeep DEF Room
  <2> QED
    BY <2>1, <2>2, <2>3, <2>4, <2>5 DEF OnTheWay
<1>5. ASSUME NEW p \in Players, ReceiveUdp(p) PROVE Owned' /\ OnTheWay'
  <2>1. ConnectedIds \subseteq ConnectedIds' /\ Owned' /\ (Room' <=> Room)
    BY <1>5, InfKnows DEF ReceiveUdp, Room
  <2>2. UNCHANGED <<online, tcp, lost>>
    BY <1>5 DEF ReceiveUdp, history
  <2> QED
    BY <2>1, <2>2 DEF OnTheWay
<1>6. CASE (Game /\ UNCHANGED netVars) \/ UNCHANGED syncVars
  <2>1. UNCHANGED <<id, conn, limit, online, tcp, lost>>
    BY <1>6 DEF Game, Update, StageInit, HolderCheck, HolderWrite, HolderShow,
                syncVars, netVars, history, vars, table
  <2> QED
    BY <2>1, OthersKeep DEF OnTheWay, Room
<1> QED
  BY <1>1, <1>2, <1>3, <1>4, <1>4a, <1>5, <1>6 DEF SyncNext, Server

\* Whatever UDP loses, repeats and delays, however often the connection breaks
\* and however the limit grows: when no packet is on the way and there is a
\* slot for every player, everybody at the server is in the table.
THEOREM EveryoneIsKnown == ~MayShrink => (SyncSpec => []EveryoneKnown)
<1> SUFFICES ASSUME ~MayShrink PROVE SyncSpec => []EveryoneKnown
  OBVIOUS
<1>1. SyncInit => Owned /\ OnTheWay
  BY DEF SyncInit, Init, Owned, OnTheWay
<1>2. NetTypes /\ TypeOK /\ OneSlotPerPlayer /\ Owned /\ OnTheWay /\ [SyncNext]_syncVars
        => (Owned /\ OnTheWay)'
  BY KnownStep
<1>3. OnTheWay => EveryoneKnown
  BY DEF OnTheWay, EveryoneKnown, Told, Room
<1>4. SyncSpec => []TypeOK
  BY ImplementsPuppetTable, TypeCorrect, PTL
<1>5. SyncSpec => []OneSlotPerPlayer
  BY ImplementsPuppetTable, OneSlot, PTL
<1> QED
  BY <1>1, <1>2, <1>3, <1>4, <1>5, NetTyped, PTL DEF SyncSpec

-----------------------------------------------------------------------------
(* The table is exact.  With everything on one connection, the players that *)
(* the table will hold after each packet on the way are, in order, the ones *)
(* that were at the server when it was sent: from who is in the table now   *)
(* to who is at the server now, never more than there are slots for.        *)

Follows(S, m, T) ==
  \/ \E p \in Players : m = Con(p) /\ p \notin S /\ T = S \cup {p}
  \/ \E p \in Players : m = Dc(p) /\ p \in S /\ T = S \ {p}
  \/ \E p \in Players : m = Inf(p) /\ p \in S /\ T = S
  \/ \E p \in Players, s \in Stages : m = GameMsg(p, s) /\ T = S

Replay(h) ==
  /\ h \in [0 .. Len(tcp) -> SUBSET Players]
  /\ h[0] = ConnectedIds /\ h[Len(tcp)] = online
  /\ \A k \in 1 .. Len(tcp) : Follows(h[k - 1], tcp[k], h[k])
  /\ \A k \in 0 .. Len(tcp) : Cardinality(h[k]) <= limit

Exact ==
  /\ \E h : Replay(h)
  /\ Owned /\ udp = {}
  /\ count = Cardinality(ConnectedSlots)

LEMMA OneEach ==
  ASSUME TypeOK, OneSlotPerPlayer, Owned
  PROVE  IsFiniteSet(ConnectedIds) /\ Cardinality(ConnectedSlots) = Cardinality(ConnectedIds)
<1> DEFINE f == [i \in ConnectedSlots |-> id[i]]
<1>1. \A i \in ConnectedSlots : i \in Slots /\ id[i] \in Players
  BY DEF ConnectedSlots, Owned
<1>2. \A i, j \in ConnectedSlots : id[i] = id[j] => i = j
  BY <1>1, NoOneAssumption DEF OneSlotPerPlayer
<1>3. f \in [ConnectedSlots -> ConnectedIds] /\ \A i \in ConnectedSlots : f[i] = id[i]
  BY DEF ConnectedIds
<1>4. \A x \in ConnectedIds : \E i \in ConnectedSlots : f[i] = x
  BY DEF ConnectedIds
<1> HIDE DEF f
<1>5. f \in Injection(ConnectedSlots, ConnectedIds)
  BY <1>2, <1>3, Fun_IsInj
<1>6. f \in Surjection(ConnectedSlots, ConnectedIds)
  BY <1>3, <1>4, Fun_IsSurj
<1> QED
  BY <1>5, <1>6, ConnectedFinite, FS_Surjection

LEMMA Full == ASSUME TypeOK, Free = {} PROVE limit <= Cardinality(ConnectedSlots)
<1>1. limit \in Nat /\ limit <= MaxSlots
  BY SlotsAssumption, LimitsAssumption DEF TypeOK
<1>2. 1 .. limit \in SUBSET ConnectedSlots
  BY <1>1, SlotsAssumption DEF Free, InRange, Slots, ConnectedSlots
<1>3. Cardinality(1 .. limit) = IF 1 > limit THEN 0 ELSE limit - 1 + 1
  BY <1>1, FS_Interval
<1>4. Cardinality(1 .. limit) <= Cardinality(ConnectedSlots)
  BY <1>2, FS_Subset, ConnectedFinite
<1> QED
  BY <1>1, <1>3, <1>4, ConnectedFinite

LEMMA ConAdds ==
  ASSUME TypeOK, OneSlotPerPlayer, Owned, count = Cardinality(ConnectedSlots),
         NEW p \in Players, PlayerCon(p),
         p \notin ConnectedIds, Cardinality(ConnectedIds) < limit
  PROVE  /\ ConnectedIds' = ConnectedIds \cup {p}
         /\ Owned' /\ limit' = limit /\ count' = Cardinality(ConnectedSlots')
<1>1. PICK i : i \in FoundOrFree(p)
  <2>1. Known(p) \in SUBSET Nat /\ Free \in SUBSET Nat
    BY SlotsOfNat DEF Known, Free
  <2>2. limit \in Nat
    BY SlotsAssumption, LimitsAssumption DEF TypeOK
  <2>3. Free # {}
    BY <2>2, Full, OneEach, ConnectedFinite
  <2> QED
    BY <2>1, <2>3, FirstExists DEF FoundOrFree, Found
<1>2. i \in Slots /\ ~conn[i]
  BY <1>1, FoundSlot DEF FoundOrFree, Found, First, Known, Free, ConnectedIds, ConnectedSlots
<1>3. PICK k \in FoundOrFree(p) : /\ id' = [id EXCEPT ![k] = p]
                                  /\ conn' = [conn EXCEPT ![k] = TRUE]
                                  /\ count' = count + 1
  BY <1>1, <1>2 DEF PlayerCon
<1>4. k = i
  BY <1>1, <1>3, FoundSlot
<1>5. id'[i] = p /\ conn'[i] /\ \A j \in Slots \ {i} : id'[j] = id[j] /\ conn'[j] = conn[j]
  BY <1>2, <1>3, <1>4 DEF TypeOK
<1>6. ConnectedSlots' = ConnectedSlots \cup {i} /\ i \notin ConnectedSlots
  BY <1>2, <1>5 DEF ConnectedSlots
<1>7. ConnectedIds' = ConnectedIds \cup {p}
  BY <1>5, <1>6 DEF ConnectedIds, ConnectedSlots
<1>8. Owned'
  BY <1>5 DEF Owned
<1>9. Cardinality(ConnectedSlots') = Cardinality(ConnectedSlots) + 1
  BY <1>6, FS_AddElement, ConnectedFinite
<1> QED
  BY <1>3, <1>7, <1>8, <1>9 DEF PlayerCon

\* The slot of a player that is in the table.
LEMMA SlotOf ==
  ASSUME TypeOK, OneSlotPerPlayer, NobodyBeyondLimit, NEW p \in Players, p \in ConnectedIds
  PROVE  \E i \in Slots : conn[i] /\ id[i] = p /\ Found(p) = {i}
                          /\ \A j \in Slots : id[j] = p => j = i
<1>1. PICK i \in Slots : conn[i] /\ id[i] = p
  BY DEF ConnectedIds, ConnectedSlots
<1>2. limit \in Nat /\ i \in Nat /\ i <= i
  BY SlotsAssumption, LimitsAssumption DEF TypeOK, Slots
<1>3. i \in InRange
  BY <1>1, <1>2 DEF NobodyBeyondLimit, InRange
<1>4. \A j \in Slots : id[j] = p => j = i
  BY <1>1, NoOneAssumption DEF OneSlotPerPlayer
<1>5. Known(p) = {i}
  BY <1>1, <1>3, <1>4, SlotsOfNat DEF Known
<1>6. Found(p) = {i}
  BY <1>2, <1>5 DEF Found, First
<1> QED
  BY <1>1, <1>4, <1>6

LEMMA DcRemoves ==
  ASSUME TypeOK, OneSlotPerPlayer, NobodyBeyondLimit, Owned, count = Cardinality(ConnectedSlots),
         NEW p \in Players, PlayerDC(p), p \in ConnectedIds
  PROVE  /\ ConnectedIds' = ConnectedIds \ {p}
         /\ Owned' /\ limit' = limit /\ count' = Cardinality(ConnectedSlots')
<1>1. PICK i \in Slots : conn[i] /\ id[i] = p /\ Found(p) = {i}
                         /\ \A j \in Slots : id[j] = p => j = i
  BY SlotOf
<1>2. /\ conn' = [conn EXCEPT ![i] = FALSE] /\ count' = count - 1
      /\ UNCHANGED <<id, limit>>
  BY <1>1 DEF PlayerDC
<1>3. ~conn'[i] /\ \A j \in Slots \ {i} : conn'[j] = conn[j]
  BY <1>2 DEF TypeOK
<1>4. ConnectedSlots' = ConnectedSlots \ {i} /\ i \in ConnectedSlots
  BY <1>1, <1>3 DEF ConnectedSlots
<1>5. ConnectedIds' = ConnectedIds \ {p}
  BY <1>1, <1>2, <1>4 DEF ConnectedIds, ConnectedSlots
<1>6. Owned'
  BY <1>2, <1>3 DEF Owned
<1>7. Cardinality(ConnectedSlots') = Cardinality(ConnectedSlots) - 1
  BY <1>4, FS_RemoveElement, ConnectedFinite
<1> QED
  BY <1>2, <1>5, <1>6, <1>7

LEMMA InfKeeps ==
  ASSUME TypeOK, OneSlotPerPlayer, NobodyBeyondLimit, NEW p \in Players, PlayerInf(p), p \in ConnectedIds
  PROVE  UNCHANGED <<id, conn, limit, count>>
<1>1. \A i \in Found(p) : conn[i]
  BY SlotOf
<1>2. conn' = [i \in Slots |-> conn[i]]
  BY <1>1 DEF PlayerInf, TypeOK
<1> QED
  BY <1>2 DEF PlayerInf, TypeOK

\* A packet is sent: the last of the sets is who is at the server after it.
LEMMA ReplaySend ==
  ASSUME NetTypes, NEW h, Replay(h), UNCHANGED <<id, conn, limit>>,
         NEW m \in Messages, Post(m), NEW S \in SUBSET Players, online' = S,
         Follows(online, m, S), Cardinality(S) <= limit
  PROVE  (\E g : Replay(g))'
<1> DEFINE n == Len(tcp)
<1>1. /\ n \in Nat /\ tcp' = Append(tcp, m) /\ Len(tcp') = n + 1
      /\ tcp'[n + 1] = m /\ \A k \in 1 .. n : tcp'[k] = tcp[k]
  BY DEF NetTypes, Post
<1>2. ConnectedIds' = ConnectedIds
  BY DEF ConnectedIds, ConnectedSlots
<1>3. PICK g : /\ g \in [0 .. n + 1 -> SUBSET Players]
               /\ g[n + 1] = S /\ \A k \in 0 .. n : g[k] = h[k]
  <2> DEFINE f == [k \in 0 .. n + 1 |-> IF k = n + 1 THEN S ELSE h[k]]
  <2>1. f \in [0 .. n + 1 -> SUBSET Players]
    BY <1>1 DEF Replay
  <2>2. f[n + 1] = S /\ \A k \in 0 .. n : f[k] = h[k]
    BY <1>1
  <2> QED
    BY <2>1, <2>2
<1>5. g[0] = ConnectedIds
  BY <1>1, <1>3 DEF Replay
<1>6. \A k \in 1 .. n + 1 : Follows(g[k - 1], tcp'[k], g[k])
  <2> SUFFICES ASSUME NEW k \in 1 .. n + 1 PROVE Follows(g[k - 1], tcp'[k], g[k])
    OBVIOUS
  <2>1. CASE k = n + 1
    <3>1. g[k - 1] = online
      BY <1>1, <1>3, <2>1 DEF Replay
    <3> QED
      BY <1>1, <1>3, <2>1, <3>1
  <2>2. CASE k \in 1 .. n
    <3>1. k - 1 \in 0 .. n /\ k \in 0 .. n
      BY <1>1, <2>2
    <3> QED
      BY <1>1, <1>3, <2>2, <3>1 DEF Replay
  <2> QED
    BY <1>1, <2>1, <2>2
<1>7. \A k \in 0 .. n + 1 : Cardinality(g[k]) <= limit
  <2> SUFFICES ASSUME NEW k \in 0 .. n + 1 PROVE Cardinality(g[k]) <= limit
    OBVIOUS
  <2>1. k = n + 1 \/ k \in 0 .. n
    BY <1>1
  <2> QED
    BY <1>3, <2>1 DEF Replay
<1>8. Replay(g)'
  BY <1>1, <1>2, <1>3, <1>5, <1>6, <1>7 DEF Replay, Follows
<1> QED
  BY <1>8

\* A packet is handled: the table becomes the first of the sets.
LEMMA ReplayReceive ==
  ASSUME NetTypes, NEW h, Replay(h), tcp # <<>>, tcp' = Tail(tcp),
         online' = online, limit' = limit, ConnectedIds' = h[1]
  PROVE  (\E g : Replay(g))'
<1> DEFINE n == Len(tcp)
<1>1. /\ n \in Nat \ {0} /\ Len(tcp') = n - 1
      /\ \A k \in 1 .. n - 1 : tcp'[k] = tcp[k + 1]
  BY DEF NetTypes
<1>2. PICK g : /\ g \in [0 .. n - 1 -> SUBSET Players]
               /\ \A k \in 0 .. n - 1 : k + 1 \in 1 .. n /\ k + 1 \in 0 .. n /\ g[k] = h[k + 1]
  <2> DEFINE f == [k \in 0 .. n - 1 |-> h[k + 1]]
  <2>1. \A k \in 0 .. n - 1 : k + 1 \in 1 .. n /\ k + 1 \in 0 .. n /\ f[k] = h[k + 1]
    BY <1>1
  <2>2. f \in [0 .. n - 1 -> SUBSET Players]
    BY <1>1, <2>1 DEF Replay
  <2> QED
    BY <2>1, <2>2
<1>4. g[0] = ConnectedIds' /\ g[n - 1] = online
  BY <1>1, <1>2 DEF Replay
<1>5. \A k \in 1 .. n - 1 : Follows(g[k - 1], tcp'[k], g[k])
  <2> SUFFICES ASSUME NEW k \in 1 .. n - 1 PROVE Follows(g[k - 1], tcp'[k], g[k])
    OBVIOUS
  <2>1. k - 1 \in 0 .. n - 1 /\ k \in 0 .. n - 1 /\ (k - 1) + 1 = k /\ (k + 1) - 1 = k
    BY <1>1
  <2>2. Follows(h[k], tcp[k + 1], h[k + 1])
    BY <1>2, <2>1 DEF Replay
  <2> QED
    BY <1>1, <1>2, <2>1, <2>2
<1>6. \A k \in 0 .. n - 1 : Cardinality(g[k]) <= limit
  BY <1>2 DEF Replay
<1>7. Replay(g)'
  BY <1>1, <1>2, <1>4, <1>5, <1>6 DEF Replay, Follows
<1> QED
  BY <1>7

\* The table becomes what the packet says, and stays exact.
LEMMA ReceiveFollows ==
  ASSUME NetTypes, TypeOK, OneSlotPerPlayer, NobodyBeyondLimit, Exact, ReceiveTcp
  PROVE  /\ Follows(ConnectedIds, Head(tcp), ConnectedIds')
         /\ Exact'
<1> DEFINE Done == Follows(ConnectedIds, Head(tcp), ConnectedIds') /\ Exact'
<1> HIDE DEF Done
<1>1. /\ tcp # <<>> /\ tcp' = Tail(tcp) /\ Handle(Head(tcp))
      /\ UNCHANGED <<online, udp>>
  BY ReceiveHandles
<1>2. PICK h : Replay(h)
  BY DEF Exact
<1>3. /\ h[0] = ConnectedIds /\ Follows(h[0], Head(tcp), h[1])
      /\ Cardinality(h[0]) <= limit /\ Cardinality(h[1]) <= limit
      /\ h[0] \subseteq Players
  <2>1. Len(tcp) \in Nat \ {0} /\ Head(tcp) = tcp[1]
    BY <1>1 DEF NetTypes
  <2>2. 1 \in 1 .. Len(tcp) /\ 0 \in 0 .. Len(tcp) /\ 1 \in 0 .. Len(tcp) /\ 1 - 1 = 0
    BY <2>1
  <2> QED
    BY <1>2, <2>1, <2>2 DEF Replay
<1>4. Owned /\ count = Cardinality(ConnectedSlots) /\ udp = {}
  BY DEF Exact
<1>5. ASSUME ConnectedIds' = h[1], limit' = limit, Owned', count' = Cardinality(ConnectedSlots')
      PROVE  Done
  BY <1>1, <1>2, <1>3, <1>4, <1>5, ReplayReceive DEF Exact, Done
<1>6. ASSUME NEW p \in Players, Head(tcp) = Con(p), p \notin h[0], h[1] = h[0] \cup {p} PROVE Done
  <2>1. PlayerCon(p)
    BY <1>1, <1>6, HandleIs
  <2>2. Cardinality(ConnectedIds) < limit
    <3>1. IsFiniteSet(h[0]) /\ Cardinality(h[0]) \in Nat
      BY <1>3, <1>4, OneEach, FS_CardinalityType
    <3>2. Cardinality(h[1]) = Cardinality(h[0]) + 1
      BY <1>6, <3>1, FS_AddElement
    <3>3. limit \in Nat
      BY SlotsAssumption, LimitsAssumption DEF TypeOK
    <3> QED
      BY <1>3, <3>1, <3>2, <3>3
  <2> QED
    BY <1>3, <1>4, <1>5, <1>6, <2>1, <2>2, ConAdds
<1>7. ASSUME NEW p \in Players, Head(tcp) = Dc(p), p \in h[0], h[1] = h[0] \ {p} PROVE Done
  <2>1. PlayerDC(p)
    BY <1>1, <1>7, HandleIs
  <2> QED
    BY <1>3, <1>4, <1>5, <1>7, <2>1, DcRemoves
<1>8. ASSUME UNCHANGED <<id, conn, limit, count>>, h[1] = h[0] PROVE Done
  <2>1. ConnectedIds' = ConnectedIds /\ Owned' /\ ConnectedSlots' = ConnectedSlots
    BY <1>4, <1>8, OthersKeep DEF ConnectedSlots
  <2> QED
    BY <1>3, <1>4, <1>5, <1>8, <2>1
<1>9. ASSUME NEW p \in Players, Head(tcp) = Inf(p), p \in h[0], h[1] = h[0] PROVE Done
  <2>1. PlayerInf(p)
    BY <1>1, <1>9, HandleIs
  <2> QED
    BY <1>3, <1>8, <1>9, <2>1, InfKeeps
<1>10. ASSUME NEW p \in Players, NEW s \in Stages, Head(tcp) = GameMsg(p, s), h[1] = h[0] PROVE Done
  <2>1. GameInf(p, s)
    BY <1>1, <1>10, HandleIs
  <2> QED
    BY <1>8, <1>10, <2>1 DEF GameInf
<1> QED
  BY <1>3, <1>6, <1>7, <1>9, <1>10 DEF Follows, Done

LEMMA ExactSend ==
  ASSUME NetTypes, TypeOK, ~Udp, Exact,
         \/ \E p \in Players : Join(p) \/ Leave(p) \/ ForwardPlayer(p)
         \/ \E p \in Players, s \in Stages : ForwardGame(p, s)
  PROVE  Exact'
<1>1. UNCHANGED <<id, conn, limit, count, udp>>
  BY DEF Join, Leave, ForwardPlayer, ForwardGame, vars, table
<1>2. PICK h : Replay(h)
  BY DEF Exact
<1>3. Owned' /\ count' = Cardinality(ConnectedSlots') /\ udp' = {}
  <2>1. ConnectedSlots' = ConnectedSlots
    BY <1>1 DEF ConnectedSlots
  <2> QED
    BY <1>1, <2>1, OthersKeep DEF Exact
<1>4. limit \in Nat /\ online \subseteq Players /\ IsFiniteSet(online) /\ Cardinality(online) \in Nat
      /\ Cardinality(online) <= limit
  <2>1. online \in SUBSET Players
    BY DEF NetTypes
  <2>2. Len(tcp) \in 0 .. Len(tcp)
    BY DEF NetTypes
  <2> QED
    BY <1>2, <2>1, <2>2, SlotsAssumption, LimitsAssumption, PlayersAssumption, FS_Subset,
       FS_CardinalityType DEF TypeOK, Replay
<1>5. ASSUME NEW m \in Messages, Post(m), NEW S \in SUBSET Players, online' = S,
             Follows(online, m, S), Cardinality(S) <= limit
      PROVE  Exact'
  BY <1>1, <1>2, <1>3, <1>5, ReplaySend DEF Exact
<1>6. ASSUME NEW p \in Players, Join(p) PROVE Exact'
  <2>1. Con(p) \in Messages /\ Post(Con(p)) /\ p \notin online /\ online' = online \cup {p}
        /\ Cardinality(online) < limit
    BY <1>6 DEF Join, Messages
  <2>2. Cardinality(online') = Cardinality(online) + 1
    BY <1>4, <2>1, FS_AddElement
  <2>3. Follows(online, Con(p), online')
    BY <2>1 DEF Follows
  <2> QED
    BY <1>4, <1>5, <2>1, <2>2, <2>3
<1>7. ASSUME NEW p \in Players, Leave(p) PROVE Exact'
  <2>1. Dc(p) \in Messages /\ Post(Dc(p)) /\ p \in online /\ online' = online \ {p}
    BY <1>7 DEF Leave, Messages
  <2>2. Cardinality(online') = Cardinality(online) - 1
    BY <1>4, <2>1, FS_RemoveElement
  <2>3. Follows(online, Dc(p), online')
    BY <2>1 DEF Follows
  <2> QED
    BY <1>4, <1>5, <2>1, <2>2, <2>3
<1>8. ASSUME NEW p \in Players, ForwardPlayer(p) PROVE Exact'
  <2>1. Inf(p) \in Messages /\ Post(Inf(p)) /\ p \in online /\ online' = online
    BY <1>8 DEF ForwardPlayer, Messages
  <2>2. Follows(online, Inf(p), online')
    BY <2>1 DEF Follows
  <2> QED
    BY <1>4, <1>5, <2>1, <2>2
<1>9. ASSUME NEW p \in Players, NEW s \in Stages, ForwardGame(p, s) PROVE Exact'
  <2>1. GameMsg(p, s) \in Messages /\ Post(GameMsg(p, s)) /\ online' = online
    BY <1>9 DEF ForwardGame, Messages
  <2>2. Follows(online, GameMsg(p, s), online')
    BY <2>1 DEF Follows
  <2> QED
    BY <1>4, <1>5, <2>1, <2>2
<1> QED
  BY <1>6, <1>7, <1>8, <1>9

LEMMA ExactStep ==
  ASSUME NetTypes, TypeOK, OneSlotPerPlayer, NobodyBeyondLimit, ~Udp, MaxOutages = 0, Exact,
         missed' = missed,
         [SyncNext]_syncVars
  PROVE  Exact'
<1>1. CASE Server
  BY <1>1, ExactSend DEF Server
<1>2. CASE Outage
  <2>1. outages = 0 /\ outages < MaxOutages
    BY <1>2 DEF Outage, NetTypes
  <2> QED
    BY <2>1
<1>3. CASE ReceiveTcp
  BY <1>3, ReceiveFollows
<1>3a. CASE RefuseTcp
  <2>1. Head(tcp) \in Messages /\ ~Announces(Head(tcp))
    BY <1>3a, TailTold DEF RefuseTcp, NetTypes
  <2>2. PICK h : Replay(h)
    BY DEF Exact
  <2>3. h[0] = ConnectedIds /\ Follows(h[0], Head(tcp), h[1])
    <3>1. Len(tcp) \in Nat \ {0} /\ Head(tcp) = tcp[1]
      BY <1>3a DEF NetTypes, RefuseTcp
    <3>2. 1 \in 1 .. Len(tcp) /\ 1 - 1 = 0
      BY <3>1
    <3> QED
      BY <2>2, <3>1, <3>2 DEF Replay
  <2>4. h[1] = h[0]
    BY <2>1, <2>3, WhoAnnounces DEF Follows
  <2>5. UNCHANGED <<id, conn, limit, count, online, udp>> /\ tcp # <<>> /\ tcp' = Tail(tcp)
    BY <1>3a DEF RefuseTcp, vars, table
  <2>6. ConnectedIds' = ConnectedIds /\ ConnectedSlots' = ConnectedSlots /\ Owned'
    BY <2>5, OthersKeep DEF ConnectedSlots, Exact
  <2>7. (\E g : Replay(g))'
    BY <2>2, <2>3, <2>4, <2>5, <2>6, ReplayReceive
  <2> QED
    BY <2>5, <2>6, <2>7 DEF Exact
<1>4. ASSUME NEW p \in Players, ReceiveUdp(p) \/ LoseUdp(p) PROVE Exact'
  BY <1>4 DEF ReceiveUdp, LoseUdp, Exact
<1>5. CASE (Game /\ UNCHANGED netVars) \/ UNCHANGED syncVars
  <2>1. UNCHANGED <<id, conn, limit, count, online, tcp, udp>>
    BY <1>5 DEF Game, Update, StageInit, HolderCheck, HolderWrite, HolderShow,
                syncVars, netVars, vars, table
  <2>2. ConnectedIds' = ConnectedIds /\ ConnectedSlots' = ConnectedSlots
    BY <2>1 DEF ConnectedIds, ConnectedSlots
  <2> QED
    BY <2>1, <2>2 DEF Exact, Replay, Owned
<1> QED
  BY <1>1, <1>2, <1>3, <1>3a, <1>4, <1>5 DEF SyncNext

LEMMA ExactInit == SyncInit => Exact
<1> SUFFICES ASSUME SyncInit PROVE Exact
  OBVIOUS
<1>1. ConnectedSlots = {} /\ ConnectedIds = {} /\ count = 0 /\ tcp = <<>> /\ online = {} /\ udp = {}
      /\ Owned /\ limit \in Nat
  BY SlotsAssumption, LimitsAssumption DEF SyncInit, Init, ConnectedSlots, ConnectedIds, Owned
<1>2. Cardinality({}) = 0
  BY FS_EmptySet
<1>3. Len(tcp) = 0
  BY <1>1
<1> DEFINE h == [k \in 0 .. 0 |-> {}]
<1>4. Replay(h)
  BY <1>1, <1>2, <1>3 DEF Replay
<1> QED
  BY <1>1, <1>2, <1>4 DEF Exact

LEMMA MissedStep ==
  ASSUME NetTypes, [SyncNext]_syncVars
  PROVE  missed' = missed \/ (missed' = missed + 1 /\ RefuseTcp /\ Announces(Head(tcp)))
BY DEF SyncNext, Server, Join, Leave, ForwardPlayer, ForwardGame, Outage, ReceiveTcp, RefuseTcp,
       ReceiveUdp, LoseUdp, netVars, syncVars, history

ExactSoFar == missed = 0 => Exact

LEMMA ExactUnlessMissed ==
  ASSUME NetTypes, TypeOK, OneSlotPerPlayer, NobodyBeyondLimit, ~Udp, MaxOutages = 0,
         ExactSoFar, [SyncNext]_syncVars
  PROVE  ExactSoFar'
<1>1. missed' = 0 => missed = 0 /\ missed' = missed
  BY MissedStep DEF NetTypes
<1> QED
  BY <1>1, ExactStep DEF ExactSoFar

\* Without UDP and outages, and while the receive queue refuses no announcement,
\* the table is exact when no packet is on the way, and so is the number on the HUD: updatePlayerConnect always finds a slot,
\* disconnectPlayer the right one, and updatePlayerInfo brings nobody back.
THEOREM InSyncAlways == ~MayShrink /\ ~Udp /\ MaxOutages = 0 => (SyncSpec => []InSync)
<1> SUFFICES ASSUME ~MayShrink, ~Udp, MaxOutages = 0 PROVE SyncSpec => []InSync
  OBVIOUS
<1>1b. NetTypes /\ TypeOK /\ OneSlotPerPlayer /\ NobodyBeyondLimit /\ ExactSoFar /\ [SyncNext]_syncVars
        => ExactSoFar'
  BY ExactUnlessMissed
<1>1c. SyncInit => ExactSoFar
  BY ExactInit DEF ExactSoFar
<1>2. TypeOK /\ OneSlotPerPlayer /\ ExactSoFar => InSync
  <2> SUFFICES ASSUME TypeOK, OneSlotPerPlayer, Exact, tcp = <<>>
               PROVE  /\ ConnectedIds = online
                      /\ Cardinality(ConnectedSlots) = Cardinality(online)
                      /\ count = Cardinality(online)
    BY DEF InSync, ExactSoFar
  <2>1. Len(tcp) = 0
    OBVIOUS
  <2>2. ConnectedIds = online
    BY <2>1 DEF Exact, Replay
  <2> QED
    BY <2>2, OneEach DEF Exact
<1>3. SyncSpec => []TypeOK
  BY ImplementsPuppetTable, TypeCorrect, PTL
<1>4. SyncSpec => []OneSlotPerPlayer /\ []NobodyBeyondLimit
  BY ImplementsPuppetTable, OneSlot, PTL
<1> QED
  BY <1>1b, <1>1c, <1>2, <1>3, <1>4, NetTyped, PTL DEF SyncSpec

-----------------------------------------------------------------------------
(* The table is a delayed view.  First, elements of finite sets of numbers *)
(* by their rank.                                                          *)

LEMMA RankGrows ==
  ASSUME NEW A \in SUBSET Nat, IsFiniteSet(A), NEW j \in A, NEW k \in A, j < k
  PROVE  Rank(A, j) < Rank(A, k)
<1> DEFINE J == {i \in A : i <= j}
           K == {i \in A : i <= k}
<1>0. j \in Int /\ k \in Int /\ \A i \in A : i \in Int
  OBVIOUS
<1>1. J \in SUBSET A /\ K \in SUBSET A /\ J \cup {k} \in SUBSET K /\ k \notin J
  <2>1. \A i \in A : i <= j => i <= k
    BY <1>0
  <2>2. ~(k <= j) /\ k <= k
    BY <1>0
  <2> QED BY <2>1, <2>2
<1> HIDE DEF J, K
<1>2. IsFiniteSet(J) /\ IsFiniteSet(K)
  BY <1>1, FS_Subset
<1>3. Cardinality(J \cup {k}) = Cardinality(J) + 1 /\ Cardinality(J \cup {k}) <= Cardinality(K)
  BY <1>1, <1>2, FS_AddElement, FS_Subset
<1>4. Cardinality(J) \in Nat /\ Cardinality(K) \in Nat
  BY <1>2, FS_CardinalityType
<1>5. Cardinality(J) < Cardinality(K)
  BY <1>3, <1>4
<1> QED
  BY <1>5 DEF Rank, J, K

LEMMA RankBounds ==
  ASSUME NEW A \in SUBSET Nat, IsFiniteSet(A), NEW k \in A
  PROVE  Rank(A, k) \in 1 .. Cardinality(A)
<1> DEFINE K == {i \in A : i <= k}
<1>1. K \in SUBSET A /\ k \in K
  OBVIOUS
<1> HIDE DEF K
<1>2. IsFiniteSet(K) /\ Cardinality(K) <= Cardinality(A)
  BY <1>1, FS_Subset
<1>3. Cardinality(K) \in Nat /\ Cardinality(A) \in Nat /\ Cardinality(K) # 0
  BY <1>1, <1>2, FS_CardinalityType, FS_EmptySet
<1>4. Cardinality(K) \in 1 .. Cardinality(A)
  BY <1>2, <1>3
<1> QED
  BY <1>4 DEF Rank, K

\* Every rank up to the size of the set is taken, ...
LEMMA NthIs ==
  ASSUME NEW A \in SUBSET Nat, IsFiniteSet(A), NEW n \in 1 .. Cardinality(A)
  PROVE  Nth(A, n) \in A /\ Rank(A, Nth(A, n)) = n
<1> DEFINE c == Cardinality(A)
           f == [k \in A |-> Rank(A, k)]
<1>1. c \in Nat
  BY FS_CardinalityType
<1>2. IsFiniteSet(1 .. c) /\ Cardinality(1 .. c) = c
  <2>1. IsFiniteSet(1 .. c) /\ Cardinality(1 .. c) = IF 1 > c THEN 0 ELSE c - 1 + 1
    BY <1>1, FS_Interval
  <2> HIDE DEF c
  <2> QED BY <1>1, <2>1
<1>3. f \in [A -> 1 .. c]
  BY RankBounds
<1>4. \A j, k \in A : f[j] = f[k] => j = k
  <2> SUFFICES ASSUME NEW j \in A, NEW k \in A, Rank(A, j) = Rank(A, k) PROVE j = k
    OBVIOUS
  <2>1. Rank(A, j) \in Int /\ Rank(A, k) \in Int
    BY RankBounds, <1>1
  <2>2. ~(j < k) /\ ~(k < j)
    BY <2>1, RankGrows
  <2> QED BY <2>2
<1>5. \A k \in A : f[k] = Rank(A, k)
  OBVIOUS
<1> HIDE DEF f, c
<1>6. f \in Injection(A, 1 .. c)
  BY <1>3, <1>4, Fun_IsInj
<1>7. f \in Surjection(A, 1 .. c)
  BY <1>2, <1>6, FS_Injection DEF c
<1>8. \E k \in A : Rank(A, k) = n
  BY <1>5, <1>7 DEF Surjection, c
<1> QED
  BY <1>8 DEF Nth

\* ... by one element.
LEMMA NthUnique ==
  ASSUME NEW A \in SUBSET Nat, IsFiniteSet(A), NEW k \in A
  PROVE  Nth(A, Rank(A, k)) = k
<1> DEFINE j == Nth(A, Rank(A, k))
<1>1. j \in A /\ Rank(A, j) = Rank(A, k)
  BY RankBounds, NthIs
<1>2. Rank(A, k) \in Int
  BY RankBounds, FS_CardinalityType
<1> HIDE DEF j
<1>3. ~(j < k) /\ ~(k < j)
  BY <1>1, <1>2, RankGrows
<1>4. j = k
  BY <1>1, <1>3
<1> QED BY <1>4 DEF j

\* A number above all others is the last one.
LEMMA NthAbove ==
  ASSUME NEW A \in SUBSET Nat, IsFiniteSet(A), NEW x \in Nat, \A k \in A : k < x
  PROVE  LET B == A \cup {x}
         IN /\ Cardinality(B) = Cardinality(A) + 1
            /\ Nth(B, Cardinality(A) + 1) = x
            /\ \A n \in 1 .. Cardinality(A) : Nth(B, n) = Nth(A, n)
<1> DEFINE B == A \cup {x}
<1>1. x \notin A
  OBVIOUS
<1>2. B \in SUBSET Nat /\ IsFiniteSet(B) /\ Cardinality(B) = Cardinality(A) + 1
  BY <1>1, FS_AddElement
<1>3. Rank(B, x) = Cardinality(A) + 1
  <2>1. {j \in B : j <= x} = B
    <3>1. \A j \in A : j \in Int /\ j <= x
      OBVIOUS
    <3>2. x <= x
      OBVIOUS
    <3> QED BY <3>1, <3>2
  <2> HIDE DEF B
  <2> QED BY <1>2, <2>1 DEF Rank
<1>4. \A k \in A : Rank(B, k) = Rank(A, k)
  <2> TAKE k \in A
  <2>1. {j \in B : j <= k} = {j \in A : j <= k}
    <3>1. k \in Int /\ k < x
      OBVIOUS
    <3>2. ~(x <= k)
      BY <3>1
    <3> QED BY <3>2
  <2> HIDE DEF B
  <2> QED BY <2>1 DEF Rank
<1>5. x \in B /\ A \subseteq B
  OBVIOUS
<1> HIDE DEF B
<1>6. Nth(B, Cardinality(A) + 1) = x
  BY <1>2, <1>3, <1>5, NthUnique
<1>7. \A n \in 1 .. Cardinality(A) : Nth(B, n) = Nth(A, n)
  <2> TAKE n \in 1 .. Cardinality(A)
  <2>1. Nth(A, n) \in A /\ Rank(A, Nth(A, n)) = n
    BY NthIs
  <2>2. Rank(B, Nth(A, n)) = n
    BY <1>4, <2>1
  <2> QED BY <1>2, <1>5, <2>1, <2>2, NthUnique
<1> QED BY <1>2, <1>6, <1>7 DEF B

\* All numbers are one less.
LEMMA Shifted ==
  ASSUME NEW A \in SUBSET (Nat \ {0}), IsFiniteSet(A)
  PROVE  LET B == {k - 1 : k \in A}
         IN IsFiniteSet(B) /\ Cardinality(B) = Cardinality(A)
<1> DEFINE B == {k - 1 : k \in A}
           f == [k \in A |-> k - 1]
<1>1. f \in [A -> B] /\ \A k \in A : f[k] = k - 1
  OBVIOUS
<1>2. \A b \in B : \E k \in A : f[k] = b
  OBVIOUS
<1>3. \A j, k \in A : f[j] = f[k] => j = k
  <2> TAKE j \in A, k \in A
  <2>1. j \in Int /\ k \in Int /\ f[j] = j - 1 /\ f[k] = k - 1
    OBVIOUS
  <2> HIDE DEF f
  <2> QED BY <2>1
<1> HIDE DEF f, B
<1>4. f \in Injection(A, B) /\ f \in Surjection(A, B)
  BY <1>1, <1>2, <1>3, Fun_IsInj, Fun_IsSurj
<1>5. IsFiniteSet(B) /\ Cardinality(B) = Cardinality(A)
  BY <1>4, FS_Surjection
<1> QED BY <1>5 DEF B

LEMMA NthShifted ==
  ASSUME NEW A \in SUBSET (Nat \ {0}), IsFiniteSet(A)
  PROVE  LET B == {k - 1 : k \in A}
         IN \A n \in 1 .. Cardinality(A) : Nth(B, n) = Nth(A, n) - 1
<1> DEFINE B == {k - 1 : k \in A}
<1>1. IsFiniteSet(B) /\ Cardinality(B) = Cardinality(A)
  BY Shifted
<1>2. \A k \in A : k - 1 \in B /\ Rank(B, k - 1) = Rank(A, k)
  <2> TAKE k \in A
  <2> DEFINE K == {j \in A : j <= k}
  <2>1. {j \in B : j <= k - 1} = {j - 1 : j \in K}
    OBVIOUS
  <2>2. K \in SUBSET A
    OBVIOUS
  <2> HIDE DEF K
  <2>3. IsFiniteSet(K)
    BY <2>2, FS_Subset
  <2>4. Cardinality({j - 1 : j \in K}) = Cardinality(K)
    BY <2>2, <2>3, Shifted
  <2>5. k - 1 \in B
    OBVIOUS
  <2> HIDE DEF B
  <2> QED BY <2>1, <2>4, <2>5 DEF Rank, K
<1>3. B \in SUBSET Nat /\ A \in SUBSET Nat
  OBVIOUS
<1> HIDE DEF B
<1>4. \A n \in 1 .. Cardinality(A) : Nth(B, n) = Nth(A, n) - 1
  <2> TAKE n \in 1 .. Cardinality(A)
  <2>1. Nth(A, n) \in A /\ Rank(A, Nth(A, n)) = n
    BY <1>3, NthIs
  <2>2. Nth(A, n) - 1 \in B /\ Rank(B, Nth(A, n) - 1) = n
    BY <1>2, <2>1
  <2> QED BY <1>1, <1>3, <2>2, NthUnique
<1> QED BY <1>4 DEF B

\* The least one is the first.
LEMMA NthLeast ==
  ASSUME NEW A \in SUBSET Nat, IsFiniteSet(A), NEW x \in A, \A k \in A : x <= k
  PROVE  LET B == A \ {x}
         IN /\ IsFiniteSet(B) /\ Cardinality(A) = Cardinality(B) + 1
            /\ Nth(A, 1) = x
            /\ \A n \in 1 .. Cardinality(B) : Nth(A, n + 1) = Nth(B, n)
<1> DEFINE B == A \ {x}
<1>1. B \in SUBSET Nat /\ IsFiniteSet(B) /\ Cardinality(B) = Cardinality(A) - 1
  BY FS_RemoveElement
<1>2. Cardinality(A) \in Nat /\ Cardinality(B) \in Nat
  BY <1>1, FS_CardinalityType
<1>3. Rank(A, x) = 1
  <2>1. {j \in A : j <= x} = {x}
    <3>1. x \in Int /\ \A j \in A : j \in Int /\ x <= j
      OBVIOUS
    <3>2. x <= x /\ \A j \in A : j <= x => j = x
      BY <3>1
    <3> QED BY <3>2
  <2> QED BY <2>1, FS_Singleton DEF Rank
<1>4. \A k \in B : Rank(A, k) = Rank(B, k) + 1
  <2> TAKE k \in B
  <2> DEFINE K == {j \in B : j <= k}
  <2>1. {j \in A : j <= k} = K \cup {x} /\ K \in SUBSET B /\ x \notin K
    <3>1. k \in A /\ x <= k /\ A = B \cup {x} /\ x \notin B
      OBVIOUS
    <3> HIDE DEF B
    <3>2. \A j : j \in A /\ j <= k <=> j \in K \cup {x}
      BY <3>1
    <3> QED BY <3>1, <3>2
  <2> HIDE DEF K, B
  <2>2. IsFiniteSet(K)
    BY <1>1, <2>1, FS_Subset
  <2>3. Cardinality(K \cup {x}) = Cardinality(K) + 1
    BY <2>1, <2>2, FS_AddElement
  <2> QED BY <2>1, <2>3 DEF Rank, K
<1>5. B \subseteq A
  OBVIOUS
<1> HIDE DEF B
<1>6. Nth(A, 1) = x
  BY <1>3, NthUnique
<1>7. \A n \in 1 .. Cardinality(B) : Nth(A, n + 1) = Nth(B, n)
  <2> TAKE n \in 1 .. Cardinality(B)
  <2>1. Nth(B, n) \in B /\ Rank(B, Nth(B, n)) = n
    BY <1>1, NthIs
  <2>2. Rank(A, Nth(B, n)) = n + 1
    BY <1>4, <2>1
  <2>3. Nth(B, n) \in A
    BY <1>5, <2>1
  <2>4. Nth(A, Rank(A, Nth(B, n))) = Nth(B, n)
    BY <2>3, NthUnique
  <2> QED BY <2>2, <2>4
<1>8. Cardinality(A) = Cardinality(B) + 1
  BY <1>1, <1>2
<1> QED BY <1>1, <1>6, <1>7, <1>8 DEF B

(* Second, the announcements on the way: sending one appends it, handling   *)
(* one takes the first, and the other packets change nothing.               *)

Notes == {Note(m) : m \in Messages}

LEMMA AnnouncingType ==
  ASSUME NEW s \in Seq(Messages)
  PROVE  /\ Announcing(s) \in SUBSET (Nat \ {0}) /\ Announcing(s) \in SUBSET Nat
         /\ IsFiniteSet(Announcing(s))
         /\ \A k : k \in Announcing(s) <=> k \in 1 .. Len(s) /\ Announces(s[k])
<1>1. Announcing(s) \in SUBSET (1 .. Len(s)) /\ 0 \in Int /\ Len(s) \in Nat
  BY DEF Announcing
<1>2. IsFiniteSet(1 .. Len(s))
  BY <1>1, FS_Interval
<1>3. IsFiniteSet(Announcing(s))
  BY <1>1, <1>2, FS_Subset
<1>4. 1 .. Len(s) \in SUBSET (Nat \ {0})
  BY <1>1
<1> QED
  BY <1>1, <1>3, <1>4 DEF Announcing, Announces

LEMMA PendingIs ==
  ASSUME NEW s \in Seq(Messages)
  PROVE  LET c == Cardinality(Announcing(s))
         IN /\ c \in Nat /\ Pending(s) \in Seq(Notes) /\ Len(Pending(s)) = c
            /\ \A n \in 1 .. c : /\ Nth(Announcing(s), n) \in Announcing(s)
                                 /\ Pending(s)[n] = Note(s[Nth(Announcing(s), n)])
<1> DEFINE c == Cardinality(Announcing(s))
<1>1. c \in Nat
  BY AnnouncingType, FS_CardinalityType
<1>2. \A n \in 1 .. c : Nth(Announcing(s), n) \in Announcing(s)
  BY AnnouncingType, NthIs
<1>3. \A n \in 1 .. c : Note(s[Nth(Announcing(s), n)]) \in Notes
  <2> TAKE n \in 1 .. c
  <2>1. Nth(Announcing(s), n) \in 1 .. Len(s)
    BY <1>2, AnnouncingType
  <2>2. s[Nth(Announcing(s), n)] \in Messages
    BY <2>1
  <2> QED BY <2>2 DEF Notes
<1>4. Pending(s) = [n \in 1 .. c |-> Note(s[Nth(Announcing(s), n)])]
  BY DEF Pending
<1> HIDE DEF c
<1>5. Pending(s) \in [1 .. c -> Notes]
  BY <1>3, <1>4
<1>6. Pending(s) \in Seq(Notes) /\ Len(Pending(s)) = c
  BY <1>1, <1>5
<1>7. \A n \in 1 .. c : Pending(s)[n] = Note(s[Nth(Announcing(s), n)])
  BY <1>4
<1> QED BY <1>1, <1>2, <1>6, <1>7 DEF c

LEMMA PendingAppend ==
  ASSUME NEW s \in Seq(Messages), NEW m \in Messages
  PROVE  Pending(Append(s, m)) = IF Announces(m) THEN Append(Pending(s), Note(m)) ELSE Pending(s)
<1> DEFINE t == Append(s, m)
           A == Announcing(s)
           c == Cardinality(A)
<1>1. /\ t \in Seq(Messages) /\ Len(s) \in Nat /\ Len(t) = Len(s) + 1
      /\ t[Len(s) + 1] = m /\ \A k \in 1 .. Len(s) : t[k] = s[k]
  OBVIOUS
<1>2. /\ A \in SUBSET Nat /\ IsFiniteSet(A)
      /\ \A k : k \in A <=> k \in 1 .. Len(s) /\ Announces(s[k])
  BY AnnouncingType
<1>3. \A k : k \in Announcing(t) <=> k \in 1 .. Len(t) /\ Announces(t[k])
  BY <1>1, AnnouncingType
<1>4. /\ c \in Nat /\ Pending(s) \in Seq(Notes) /\ Len(Pending(s)) = c
      /\ \A n \in 1 .. c : Nth(A, n) \in A /\ Pending(s)[n] = Note(s[Nth(A, n)])
  BY PendingIs
<1>5. LET d == Cardinality(Announcing(t))
      IN /\ d \in Nat /\ Pending(t) \in Seq(Notes) /\ Len(Pending(t)) = d
         /\ \A n \in 1 .. d : /\ Nth(Announcing(t), n) \in Announcing(t)
                              /\ Pending(t)[n] = Note(t[Nth(Announcing(t), n)])
  BY <1>1, PendingIs
<1> HIDE DEF t, A, c
<1>6. \A k \in 1 .. Len(t) : k \in 1 .. Len(s) \/ k = Len(s) + 1
  BY <1>1
<1>7. 1 .. Len(s) \subseteq 1 .. Len(t) /\ Len(s) + 1 \in 1 .. Len(t)
  BY <1>1
<1>8. CASE Announces(m)
  <2>1. Announcing(t) = A \cup {Len(s) + 1}
    BY <1>1, <1>2, <1>3, <1>6, <1>7, <1>8
  <2>2. Len(s) + 1 \in Nat /\ \A k \in A : k < Len(s) + 1
    BY <1>1, <1>2
  <2>3. /\ Cardinality(Announcing(t)) = c + 1
        /\ Nth(Announcing(t), c + 1) = Len(s) + 1
        /\ \A n \in 1 .. c : Nth(Announcing(t), n) = Nth(A, n)
    <3> DEFINE x == Len(s) + 1
    <3>1. /\ Cardinality(A \cup {x}) = Cardinality(A) + 1
          /\ Nth(A \cup {x}, Cardinality(A) + 1) = x
          /\ \A n \in 1 .. Cardinality(A) : Nth(A \cup {x}, n) = Nth(A, n)
      <4>1. x \in Nat /\ \A k \in A : k < x
        BY <2>2
      <4> HIDE DEF x
      <4> QED BY <1>2, <4>1, NthAbove
    <3> QED BY <2>1, <3>1 DEF c
  <2>4. Note(m) \in Notes
    BY DEF Notes
  <2> DEFINE u == Append(Pending(s), Note(m))
  <2>5. /\ u \in Seq(Notes) /\ Len(u) = c + 1 /\ u[c + 1] = Note(m)
        /\ \A n \in 1 .. c : u[n] = Pending(s)[n]
    BY <1>4, <2>4
  <2> HIDE DEF u
  <2>6. \A n \in 1 .. c + 1 : Pending(t)[n] = u[n]
    <3> TAKE n \in 1 .. c + 1
    <3>1. CASE n = c + 1
      BY <1>1, <1>5, <2>3, <2>5, <3>1
    <3>2. CASE n \in 1 .. c
      <4>1. n \in 1 .. c + 1
        OBVIOUS
      <4>2. Pending(t)[n] = Note(t[Nth(A, n)])
        BY <1>5, <2>3, <3>2, <4>1
      <4>3. t[Nth(A, n)] = s[Nth(A, n)]
        BY <1>1, <1>2, <1>4, <3>2
      <4> QED BY <1>4, <2>5, <3>2, <4>2, <4>3
    <3> QED BY <1>4, <3>1, <3>2
  <2>7. Pending(t) \in Seq(Notes) /\ Len(Pending(t)) = c + 1
    BY <1>5, <2>3
  <2>8. Pending(t) = u
    BY <2>5, <2>6, <2>7, SeqEqual
  <2> QED BY <1>8, <2>8 DEF t, u
<1>9. CASE ~Announces(m)
  <2>1. Announcing(t) = A
    BY <1>1, <1>2, <1>3, <1>6, <1>7, <1>9
  <2>2. \A n \in 1 .. c : Pending(t)[n] = Pending(s)[n]
    <3> TAKE n \in 1 .. c
    <3>1. t[Nth(A, n)] = s[Nth(A, n)]
      BY <1>1, <1>2, <1>4
    <3> QED BY <1>4, <1>5, <2>1, <3>1 DEF c
  <2>3. Pending(t) \in Seq(Notes) /\ Len(Pending(t)) = c
    BY <1>5, <2>1 DEF c
  <2>4. Pending(t) = Pending(s)
    BY <1>4, <2>2, <2>3, SeqEqual
  <2> QED BY <1>9, <2>4 DEF t
<1> QED BY <1>8, <1>9

LEMMA PendingTail ==
  ASSUME NEW s \in Seq(Messages), s # <<>>
  PROVE  IF Announces(Head(s))
         THEN /\ Pending(s) # <<>> /\ Head(Pending(s)) = Note(Head(s))
              /\ Pending(Tail(s)) = Tail(Pending(s))
         ELSE Pending(Tail(s)) = Pending(s)
<1> DEFINE t == Tail(s)
           A == Announcing(s)
           E == A \ {1}
           B == {k - 1 : k \in E}
           c == Cardinality(A)
           e == Cardinality(E)
<1>1. /\ t \in Seq(Messages) /\ Len(s) \in Nat \ {0} /\ Len(t) = Len(s) - 1
      /\ Head(s) = s[1] /\ \A k \in 1 .. Len(t) : t[k] = s[k + 1]
  OBVIOUS
<1>2. /\ A \in SUBSET Nat /\ A \in SUBSET (Nat \ {0}) /\ IsFiniteSet(A)
      /\ \A k : k \in A <=> k \in 1 .. Len(s) /\ Announces(s[k])
  BY AnnouncingType
<1>3. \A k : k \in Announcing(t) <=> k \in 1 .. Len(t) /\ Announces(t[k])
  BY <1>1, AnnouncingType
<1>4. /\ c \in Nat /\ Pending(s) \in Seq(Notes) /\ Len(Pending(s)) = c
      /\ \A n \in 1 .. c : Nth(A, n) \in A /\ Pending(s)[n] = Note(s[Nth(A, n)])
  BY PendingIs
<1>5. LET d == Cardinality(Announcing(t))
      IN /\ d \in Nat /\ Pending(t) \in Seq(Notes) /\ Len(Pending(t)) = d
         /\ \A n \in 1 .. d : /\ Nth(Announcing(t), n) \in Announcing(t)
                              /\ Pending(t)[n] = Note(t[Nth(Announcing(t), n)])
  BY <1>1, PendingIs
<1> HIDE DEF t, A
<1>6. E \in SUBSET (Nat \ {0}) /\ E \in SUBSET Nat /\ IsFiniteSet(E)
      /\ \A k \in E : k \in Int /\ k >= 2 /\ k - 1 \in 1 .. Len(t) /\ (k - 1) + 1 = k
  <2>1. E \in SUBSET A
    OBVIOUS
  <2>2. \A k \in E : k \in 1 .. Len(s) /\ k # 1
    BY <1>2
  <2> HIDE DEF E
  <2>3. IsFiniteSet(E)
    BY <1>2, <2>1, FS_Subset
  <2>4. \A k \in E : k \in Int /\ k >= 2 /\ k - 1 \in 1 .. Len(t) /\ (k - 1) + 1 = k
    BY <1>1, <2>2
  <2> QED BY <1>2, <2>1, <2>3, <2>4
<1>7. Announcing(t) = B
  <2>1. ASSUME NEW k \in Announcing(t) PROVE k \in B
    <3>1. k \in 1 .. Len(t) /\ Announces(t[k])
      BY <1>3, <2>1
    <3>2. k + 1 \in 1 .. Len(s) /\ k + 1 # 1 /\ Announces(s[k + 1])
      BY <1>1, <3>1
    <3>3. k + 1 \in E /\ k = (k + 1) - 1
      BY <1>2, <3>1, <3>2
    <3> QED BY <3>3
  <2>2. ASSUME NEW k \in E PROVE k - 1 \in Announcing(t)
    <3>1. k - 1 \in 1 .. Len(t) /\ t[k - 1] = s[k] /\ k \in A
      BY <1>1, <1>6, <2>2
    <3> QED BY <1>2, <1>3, <3>1
  <2> QED BY <2>1, <2>2
<1>8. /\ Cardinality(B) = e /\ e \in Nat
      /\ \A n \in 1 .. e : Nth(B, n) = Nth(E, n) - 1 /\ Nth(E, n) \in E
  <2>1. Cardinality(B) = e /\ \A n \in 1 .. e : Nth(B, n) = Nth(E, n) - 1
    <3> HIDE DEF E
    <3> QED BY <1>6, Shifted, NthShifted
  <2>2. e \in Nat /\ \A n \in 1 .. e : Nth(E, n) \in E
    <3> HIDE DEF E
    <3> QED BY <1>6, NthIs, FS_CardinalityType
  <2> QED BY <2>1, <2>2
<1>9. \A n \in 1 .. e : Pending(t)[n] = Note(s[Nth(E, n)])
  <2> TAKE n \in 1 .. e
  <2>1. Pending(t)[n] = Note(t[Nth(E, n) - 1])
    <3> HIDE DEF B, E
    <3> QED BY <1>5, <1>7, <1>8
  <2>2. Nth(E, n) \in E
    BY <1>8
  <2>3. t[Nth(E, n) - 1] = s[Nth(E, n)]
    <3> HIDE DEF E
    <3> QED BY <1>1, <1>6, <2>2
  <2> QED BY <2>1, <2>3
<1>10. Pending(t) \in Seq(Notes) /\ Len(Pending(t)) = e
  <2> HIDE DEF B, E
  <2> QED BY <1>5, <1>7, <1>8
<1>11. CASE Announces(Head(s))
  <2>1. 1 \in A /\ \A k \in A : 1 <= k
    BY <1>1, <1>2, <1>11
  <2>2. /\ c = e + 1 /\ Nth(A, 1) = 1
        /\ \A n \in 1 .. e : Nth(A, n + 1) = Nth(E, n)
    BY <1>2, <2>1, NthLeast
  <2> HIDE DEF E, B, c, e
  <2>3. Pending(s) # <<>> /\ Head(Pending(s)) = Note(Head(s))
    <3>1. 1 \in 1 .. c /\ Len(Pending(s)) # 0
      BY <1>4, <1>8, <2>2
    <3>2. Pending(s)[1] = Note(s[1])
      BY <1>4, <2>2, <3>1
    <3> QED BY <1>1, <1>4, <3>1, <3>2
  <2> DEFINE u == Tail(Pending(s))
  <2>4. /\ u \in Seq(Notes) /\ Len(u) = e
        /\ \A n \in 1 .. e : u[n] = Pending(s)[n + 1]
    BY <1>4, <1>8, <2>2, <2>3
  <2> HIDE DEF u
  <2>5. \A n \in 1 .. e : Pending(t)[n] = u[n]
    <3> TAKE n \in 1 .. e
    <3>1. n + 1 \in 1 .. c
      BY <1>8, <2>2
    <3> QED BY <1>4, <1>9, <2>2, <2>4, <3>1
  <2>6. Pending(t) = u
    BY <1>10, <2>4, <2>5, SeqEqual
  <2> QED BY <1>11, <2>3, <2>6 DEF t, u
<1>12. CASE ~Announces(Head(s))
  <2>1. 1 \notin A
    BY <1>1, <1>2, <1>12
  <2>2. E = A
    BY <2>1
  <2> HIDE DEF E, B
  <2>3. \A n \in 1 .. e : Pending(t)[n] = Pending(s)[n]
    BY <1>4, <1>9, <2>2
  <2>4. Pending(t) = Pending(s)
    BY <1>4, <1>10, <2>2, <2>3, SeqEqual
  <2> QED BY <1>12, <2>4 DEF t
<1> QED BY <1>11, <1>12

LEMMA NotesOf ==
  /\ \A p : Announces(Con(p)) /\ Announces(Dc(p)) /\ ~Announces(Inf(p))
  /\ \A p, s : ~Announces(GameMsg(p, s))
  /\ \A p : Note(Con(p)) = [who |-> p, here |-> TRUE] /\ Note(Dc(p)) = [who |-> p, here |-> FALSE]
BY DEF Announces, Note, Con, Dc, Inf, GameMsg

\* A player that comes or goes is a change of the abstract set, with its
\* announcement; what else the server sends is none.
LEMMA SendMaps ==
  ASSUME NetTypes, ~Udp, missed = 0,
         \/ \E p \in Players : Join(p) \/ Leave(p) \/ ForwardPlayer(p)
         \/ \E p \in Players, s \in Stages : ForwardGame(p, s)
  PROVE  View!Change \/ UNCHANGED View!vars
<1>1. ConnectedIds' = ConnectedIds
  BY DEF Join, Leave, ForwardPlayer, ForwardGame, vars, table, ConnectedIds, ConnectedSlots
<1>0. missed' = missed /\ (missed # 0)' = (missed # 0)
  BY DEF Join, Leave, ForwardPlayer, ForwardGame, history
<1>2. tcp \in Seq(Messages)
  BY DEF NetTypes
<1>3. ASSUME NEW m \in Messages, Post(m)
      PROVE  Pending(tcp)' = IF Announces(m) THEN Append(Pending(tcp), Note(m)) ELSE Pending(tcp)
  <2>1. tcp' = Append(tcp, m)
    BY <1>3 DEF Post
  <2> QED BY <1>2, <2>1, PendingAppend
<1>4. ASSUME NEW p \in Players, Join(p) PROVE View!Change
  <2> DEFINE a == [who |-> p, here |-> TRUE]
  <2>1. Con(p) \in Messages /\ Post(Con(p)) /\ p \notin online /\ online' = online \cup {p}
    BY <1>4 DEF Join, Messages
  <2>2. Pending(tcp)' = Append(Pending(tcp), a)
    BY <1>3, <2>1, NotesOf
  <2>3. a \in View!Announcements /\ a.here /\ a.who = p
    BY DEF View!Announcements
  <2>4. online' = View!With(online, a)
    BY <2>1, <2>3 DEF View!With
  <2> HIDE DEF a
  <2> QED BY <1>0, <1>1, <2>1, <2>2, <2>3, <2>4 DEF View!Change
<1>5. ASSUME NEW p \in Players, Leave(p) PROVE View!Change
  <2> DEFINE a == [who |-> p, here |-> FALSE]
  <2>1. Dc(p) \in Messages /\ Post(Dc(p)) /\ p \in online /\ online' = online \ {p}
    BY <1>5 DEF Leave, Messages
  <2>2. Pending(tcp)' = Append(Pending(tcp), a)
    BY <1>3, <2>1, NotesOf
  <2>3. a \in View!Announcements /\ ~a.here /\ a.who = p
    BY DEF View!Announcements
  <2>4. online' = View!With(online, a)
    BY <2>1, <2>3 DEF View!With
  <2> HIDE DEF a
  <2> QED BY <1>0, <1>1, <2>1, <2>2, <2>3, <2>4 DEF View!Change
<1>6. ASSUME NEW p \in Players, ForwardPlayer(p) PROVE UNCHANGED View!vars
  <2>1. Inf(p) \in Messages /\ Post(Inf(p)) /\ online' = online
    BY <1>6 DEF ForwardPlayer, Messages
  <2> QED BY <1>0, <1>1, <1>3, <2>1, NotesOf DEF View!vars
<1>7. ASSUME NEW p \in Players, NEW s \in Stages, ForwardGame(p, s) PROVE UNCHANGED View!vars
  <2>1. GameMsg(p, s) \in Messages /\ Post(GameMsg(p, s)) /\ online' = online
    BY <1>7 DEF ForwardGame, Messages
  <2> QED BY <1>0, <1>1, <1>3, <2>1, NotesOf DEF View!vars
<1> QED BY <1>4, <1>5, <1>6, <1>7

\* The read thread applies the next announcement; other packets change nobody.
LEMMA ReceiveMaps ==
  ASSUME NetTypes, TypeOK, OneSlotPerPlayer, NobodyBeyondLimit, Exact, missed = 0, ReceiveTcp
  PROVE  View!Apply \/ UNCHANGED View!vars
<1>1. /\ tcp \in Seq(Messages) /\ tcp # <<>> /\ tcp' = Tail(tcp) /\ online' = online
      /\ Follows(ConnectedIds, Head(tcp), ConnectedIds')
  BY ReceiveHandles, ReceiveFollows DEF NetTypes
<1>0. missed' = missed
  BY ReceiveHandles
<1>2. IF Announces(Head(tcp))
      THEN /\ Pending(tcp) # <<>> /\ Head(Pending(tcp)) = Note(Head(tcp))
           /\ Pending(tcp)' = Tail(Pending(tcp))
      ELSE Pending(tcp)' = Pending(tcp)
  BY <1>1, PendingTail
<1>3. ASSUME NEW p \in Players, Head(tcp) = Con(p), ConnectedIds' = ConnectedIds \cup {p}
      PROVE  View!Apply
  <2>1. Announces(Head(tcp)) /\ Note(Head(tcp)) = [who |-> p, here |-> TRUE]
    BY <1>3, NotesOf
  <2>2. ConnectedIds' = View!With(ConnectedIds, Note(Head(tcp)))
    BY <1>3, <2>1 DEF View!With
  <2> QED BY <1>0, <1>1, <1>2, <2>1, <2>2 DEF View!Apply
<1>4. ASSUME NEW p \in Players, Head(tcp) = Dc(p), ConnectedIds' = ConnectedIds \ {p}
      PROVE  View!Apply
  <2>1. Announces(Head(tcp)) /\ Note(Head(tcp)) = [who |-> p, here |-> FALSE]
    BY <1>4, NotesOf
  <2>2. ConnectedIds' = View!With(ConnectedIds, Note(Head(tcp)))
    BY <1>4, <2>1 DEF View!With
  <2> QED BY <1>0, <1>1, <1>2, <2>1, <2>2 DEF View!Apply
<1>5. ASSUME ConnectedIds' = ConnectedIds, ~Announces(Head(tcp)) PROVE UNCHANGED View!vars
  BY <1>0, <1>1, <1>2, <1>5 DEF View!vars
<1> QED BY <1>1, <1>3, <1>4, <1>5, NotesOf DEF Follows

\* A packet is refused: if it is an announcement that is the end of the promise.
LEMMA RefuseMaps ==
  ASSUME NetTypes, missed = 0, RefuseTcp
  PROVE  View!Lose \/ UNCHANGED View!vars
<1>1. /\ tcp \in Seq(Messages) /\ tcp # <<>> /\ tcp' = Tail(tcp) /\ online' = online
      /\ ConnectedIds' = ConnectedIds
  BY DEF NetTypes, RefuseTcp, vars, table, ConnectedIds, ConnectedSlots
<1>2. IF Announces(Head(tcp))
      THEN Pending(tcp) # <<>> /\ Pending(tcp)' = Tail(Pending(tcp))
      ELSE Pending(tcp)' = Pending(tcp)
  BY <1>1, PendingTail
<1>3. CASE Announces(Head(tcp))
  <2>1. missed' # 0
    BY <1>3 DEF RefuseTcp
  <2> QED BY <1>1, <1>2, <1>3, <2>1 DEF View!Lose
<1>4. CASE ~Announces(Head(tcp))
  <2>1. missed' = missed
    BY <1>4 DEF RefuseTcp, history
  <2> QED BY <1>1, <1>2, <1>4, <2>1 DEF View!vars
<1> QED BY <1>3, <1>4

LEMMA ViewStep ==
  ASSUME NetTypes, TypeOK, OneSlotPerPlayer, NobodyBeyondLimit, ~Udp, MaxOutages = 0,
         ExactSoFar, [SyncNext]_syncVars
  PROVE  [View!Next]_(View!vars)
<1>0. CASE missed # 0
  <2>1. missed' # 0
    BY <1>0, MissedStep DEF NetTypes
  <2> QED
    BY <1>0, <2>1 DEF View!Adrift, View!Next
<1> SUFFICES ASSUME missed = 0, Exact PROVE [View!Next]_(View!vars)
  BY <1>0 DEF ExactSoFar
<1>1. CASE Server
  BY <1>1, SendMaps DEF Server, View!Next
<1>2. CASE Outage
  <2>1. outages = 0 /\ outages < MaxOutages
    BY <1>2 DEF Outage, NetTypes
  <2> QED
    BY <2>1
<1>3. CASE ReceiveTcp
  BY <1>3, ReceiveMaps DEF View!Next
<1>3a. CASE RefuseTcp
  BY <1>3a, RefuseMaps DEF View!Next
<1>4. ASSUME NEW p \in Players, ReceiveUdp(p) \/ LoseUdp(p) PROVE FALSE
  BY <1>4 DEF ReceiveUdp, LoseUdp, Exact
<1>5. CASE (Game /\ UNCHANGED netVars) \/ UNCHANGED syncVars
  <2>1. UNCHANGED <<id, conn, online, tcp, missed>>
    BY <1>5 DEF Game, Update, StageInit, HolderCheck, HolderWrite, HolderShow,
                syncVars, netVars, history, vars, table
  <2>2. ConnectedIds' = ConnectedIds /\ Pending(tcp)' = Pending(tcp)
    BY <2>1 DEF ConnectedIds, ConnectedSlots
  <2> QED
    BY <2>1, <2>2 DEF View!vars
<1> QED
  BY <1>1, <1>2, <1>3, <1>3a, <1>4, <1>5 DEF SyncNext

\* Without UDP and outages the table is a delayed view of who is at the server:
\* every packet handled is the next announcement applied, or changes nobody, and
\* none is invented or overtaken; until the receive queue refuses one.  (That
\* each is applied in the end, the rest of ImplementsDelayedView, needs fairness.)
THEOREM DelayedViewKept == ~MayShrink /\ ~Udp /\ MaxOutages = 0 => (SyncSpec => View!Safe)
<1> SUFFICES ASSUME ~MayShrink, ~Udp, MaxOutages = 0 PROVE SyncSpec => View!Safe
  OBVIOUS
<1>1. SyncInit => View!Init
  <2> SUFFICES ASSUME SyncInit PROVE View!Init
    OBVIOUS
  <2>1. ConnectedIds = {} /\ online = {} /\ tcp = <<>>
    BY DEF SyncInit, Init, ConnectedIds, ConnectedSlots
  <2>2. tcp \in Seq(Messages) /\ Len(tcp) = 0
    BY <2>1
  <2>3. Announcing(tcp) = {}
    <3>1. \A k \in Announcing(tcp) : k \in 1 .. Len(tcp)
      BY <2>2, AnnouncingType
    <3> QED BY <2>2, <3>1
  <2>4. Pending(tcp) \in Seq(Notes) /\ Len(Pending(tcp)) = 0
    BY <2>2, <2>3, PendingIs, FS_EmptySet
  <2>5. Pending(tcp) = <<>>
    BY <2>4
  <2>6. missed = 0
    BY DEF SyncInit
  <2> QED BY <2>1, <2>5, <2>6 DEF View!Init
<1>2. NetTypes /\ TypeOK /\ OneSlotPerPlayer /\ NobodyBeyondLimit /\ ExactSoFar /\ [SyncNext]_syncVars
        => ExactSoFar' /\ [View!Next]_(View!vars)
  BY ExactUnlessMissed, ViewStep
<1>2a. SyncInit => ExactSoFar
  BY ExactInit DEF ExactSoFar
<1>3. SyncSpec => []TypeOK
  BY ImplementsPuppetTable, TypeCorrect, PTL
<1>4. SyncSpec => []OneSlotPerPlayer /\ []NobodyBeyondLimit
  BY ImplementsPuppetTable, OneSlot, PTL
<1> QED
  BY <1>1, <1>2, <1>2a, <1>3, <1>4, NetTyped, PTL DEF SyncSpec, View!Safe

=============================================================================
