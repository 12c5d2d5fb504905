-------------------------- MODULE GameModeSyncProofs --------------------------
(***************************************************************************)
(* Theorems about GameModeSync, for any clients, modes and budgets: its    *)
(* types, and that when nothing is under way every client knows who plays  *)
(* what and who is it (AllKnow).                                           *)
(*                                                                         *)
(* The argument for the second, for a client o that hears of a client s:   *)
(* the last packet on its way to o, else what o has noted, is true of s    *)
(* unless s has a packet or a frame to come that says so (LastInv).  A     *)
(* change of mode is heard as one (RangeInv), so that a client that is in  *)
(* the mode and has not heard of it asks, and is answered (InfoInv).       *)
(***************************************************************************)
EXTENDS GameModeSync, SequenceTheorems, TLAPS

USE ModesAssumption, NoneAssumption, FlagAssumption, BudgetsAssumption

Packets == States \cup Tags

-----------------------------------------------------------------------------
(* Types.                                                                  *)

LEMMA InputType ==
  ASSUME left \in [Kinds -> Nat], NEW kinds, Input(kinds)
  PROVE  left' \in [Kinds -> Nat]
<1>1. \A k \in Kinds : (IF k \in kinds THEN left[k] - 1 ELSE left[k]) \in Nat
  <2> TAKE k \in Kinds
  <2>1. CASE k \in kinds
    BY <2>1 DEF Input
  <2>2. CASE k \notin kinds
    BY <2>2
  <2> QED BY <2>1, <2>2
<1> QED BY <1>1 DEF Input

LEMMA AnnouncementType ==
  ASSUME NEW c \in Clients, NEW m \in Managers, NEW isIt \in BOOLEAN
  PROVE  /\ Announcement(c, m, isIt) \in Seq(States)
         /\ m.base = NoMode => Announcement(c, m, isIt) = <<>>
         /\ m.base # NoMode => Announcement(c, m, isIt) =
              <<[kind |-> "state", who |-> c, mode |-> IF m.on THEN m.base ELSE NoMode, it |-> m.on /\ isIt]>>
<1> DEFINE a == [kind |-> "state", who |-> c, mode |-> IF m.on THEN m.base ELSE NoMode, it |-> m.on /\ isIt]
<1>1. (IF m.on THEN m.base ELSE NoMode) \in Modes \cup {NoMode} /\ (m.on /\ isIt) \in BOOLEAN
  BY DEF Managers
<1>2. a \in States
  BY <1>1 DEF States
<1>3. Announcement(c, m, isIt) = IF m.base = NoMode THEN <<>> ELSE <<a>>
  BY DEF Announcement
<1> HIDE DEF a
<1>4. <<a>> \in Seq(States) /\ <<>> \in Seq(States)
  BY <1>2
<1> QED BY <1>3, <1>4 DEF a

\* What the actions do to a manager, beside BeginOrEnd and PauseOrUnpause.
LEMMA EditType ==
  ASSUME NEW m \in Managers, NEW mode \in Modes
  PROVE  /\ [m EXCEPT !.active = ~@] \in Managers
         /\ [m EXCEPT !.base = NoMode, !.on = FALSE] \in Managers
         /\ Fresh(m) \in Managers
         /\ [m EXCEPT !.sceneTrans = @ \/ m.on] \in Managers
         /\ [m EXCEPT !.next = mode, !.cur = IF m.wasSet THEN mode ELSE @] \in Managers
<1>1. [m EXCEPT !.active = ~@] \in Managers
  BY DEF Managers
<1>2. [m EXCEPT !.base = NoMode, !.on = FALSE] \in Managers
  BY DEF Managers
<1>3. Fresh(m) \in Managers
  BY DEF Managers, Fresh
<1>4. [m EXCEPT !.sceneTrans = @ \/ m.on] \in Managers
  BY DEF Managers
<1>5. [m EXCEPT !.next = mode, !.cur = IF m.wasSet THEN mode ELSE @] \in Managers
  BY DEF Managers
<1> QED BY <1>1, <1>2, <1>3, <1>4, <1>5

LEMMA UpdateType ==
  ASSUME NEW m \in Managers
  PROVE  BeginOrEnd(m) \in Managers /\ PauseOrUnpause(m) \in Managers
BY DEF BeginOrEnd, PauseOrUnpause, Managers, Begins, Ends

LEMMA TypeFrame ==
  ASSUME TypeOK, NEW c \in Clients, NEW p \in BOOLEAN, NEW newIt \in BOOLEAN, Frame(c, p, newIt)
  PROVE  TypeOK'
<1> DEFINE m0 == [mgr[c] EXCEPT !.paused = p]
           m1 == BeginOrEnd(m0)
           m2 == PauseOrUnpause(m1)
           a1 == IF Begins(m0) \/ Ends(m0) THEN Announcement(c, m1, it[c]) ELSE <<>>
           a2 == IF newIt # it[c] THEN Announcement(c, m2, newIt) ELSE <<>>
<1>1. mgr[c] \in Managers /\ it[c] \in BOOLEAN
  BY DEF TypeOK
<1>2. m0 \in Managers
  BY <1>1 DEF Managers
<1>3. m1 \in Managers /\ m2 \in Managers
  BY <1>2, UpdateType
<1>4. a1 \in Seq(States) /\ a2 \in Seq(States)
  BY <1>1, <1>3, AnnouncementType
<1>5. a1 \o a2 \in Seq(States)
  BY <1>4, ConcatProperties
<1>6. /\ mgr' = [mgr EXCEPT ![c] = m2] /\ it' = [it EXCEPT ![c] = newIt]
      /\ made' = [made EXCEPT ![c].game = a1 \o a2]
      /\ UNCHANGED <<loading, theirs, itSeen, inbox, read>>
  BY DEF Frame
<1>7. left' \in [Kinds -> Nat]
  BY InputType DEF Frame, TypeOK
<1> HIDE DEF m0, m1, m2, a1, a2
<1> QED BY <1>3, <1>5, <1>6, <1>7 DEF TypeOK

LEMMA TypeDeliver ==
  ASSUME TypeOK, NEW c \in Clients, NEW thread \in {"game", "read"}, Deliver(c, thread)
  PROVE  TypeOK'
<1>1. left' \in [Kinds -> Nat]
  BY InputType DEF Deliver, TypeOK
<1>2. made[c] \in [game : Seq(States), read : Seq(States)] /\ made[c][thread] \in Seq(States) /\ made[c][thread] # <<>>
  BY DEF TypeOK, Deliver
<1>3. Head(made[c][thread]) \in States /\ Tail(made[c][thread]) \in Seq(States)
  BY <1>2
<1>4. \A d \in Clients : Append(inbox[d], Head(made[c][thread])) \in Seq(States \cup Tags)
  BY <1>3 DEF TypeOK
<1>5. inbox' \in [Clients -> Seq(States \cup Tags)]
  BY <1>4 DEF TypeOK, Deliver
<1>6. [made[c] EXCEPT ![thread] = Tail(made[c][thread])] \in [game : Seq(States), read : Seq(States)]
  BY <1>2, <1>3
<1>7. made' = [made EXCEPT ![c] = [made[c] EXCEPT ![thread] = Tail(made[c][thread])]]
  BY DEF Deliver
<1>8. made' \in [Clients -> [game : Seq(States), read : Seq(States)]]
  BY <1>6, <1>7 DEF TypeOK
<1> QED BY <1>1, <1>5, <1>8 DEF TypeOK, Deliver

LEMMA TypeGame ==
  ASSUME TypeOK, NEW c \in Clients, GameThread(c)
  PROVE  TypeOK'
<1>0. mgr[c] \in Managers
  BY DEF TypeOK
<1>1. ASSUME NEW p \in BOOLEAN, NEW newIt \in BOOLEAN, Frame(c, p, newIt) PROVE TypeOK'
  BY <1>1, TypeFrame
<1>2. CASE ToggleActive(c)
  <2>1. left' \in [Kinds -> Nat]
    BY <1>2, InputType DEF ToggleActive, TypeOK
  <2>2. [mgr[c] EXCEPT !.active = ~@] \in Managers
    BY <1>0, EditType
  <2>3. mgr' = [mgr EXCEPT ![c] = [mgr[c] EXCEPT !.active = ~@]]
    BY <1>2 DEF ToggleActive
  <2> QED BY <1>2, <2>1, <2>2, <2>3 DEF ToggleActive, TypeOK
<1>3. CASE DeleteMode(c)
  <2>1. left' \in [Kinds -> Nat]
    BY <1>3, InputType DEF DeleteMode, TypeOK
  <2>2. [mgr[c] EXCEPT !.base = NoMode, !.on = FALSE] \in Managers
    BY <1>0, EditType
  <2>3. mgr' = [mgr EXCEPT ![c] = [mgr[c] EXCEPT !.base = NoMode, !.on = FALSE]]
    BY <1>3 DEF DeleteMode
  <2> QED BY <1>3, <2>1, <2>2, <2>3 DEF DeleteMode, TypeOK
<1>4. CASE InitScene(c)
  <2>1. left' \in [Kinds -> Nat]
    BY <1>4, InputType DEF InitScene, TypeOK
  <2>2. /\ Fresh(mgr[c]) \in Managers
        /\ [mgr[c] EXCEPT !.sceneTrans = @ \/ mgr[c].on] \in Managers
    BY <1>0, EditType
  <2>3. \/ mgr' = [mgr EXCEPT ![c] = Fresh(mgr[c])] /\ it' = [it EXCEPT ![c] = FALSE]
        \/ mgr' = [mgr EXCEPT ![c] = [mgr[c] EXCEPT !.sceneTrans = @ \/ mgr[c].on]] /\ UNCHANGED it
    BY <1>4 DEF InitScene
  <2>4. loading' \in [Clients -> BOOLEAN] /\ UNCHANGED <<theirs, itSeen, inbox, read, made>>
    BY <1>4 DEF InitScene, TypeOK
  <2>5. mgr' \in [Clients -> Managers] /\ it' \in [Clients -> BOOLEAN]
    BY <2>2, <2>3 DEF TypeOK
  <2> QED BY <2>1, <2>4, <2>5 DEF TypeOK
<1>5. ASSUME NEW mode \in Modes, SetMode(c, mode) PROVE TypeOK'
  <2>1. left' \in [Kinds -> Nat]
    BY <1>5, InputType DEF SetMode, TypeOK
  <2>2. [mgr[c] EXCEPT !.next = mode, !.cur = IF mgr[c].wasSet THEN mode ELSE @] \in Managers
    BY <1>0, EditType
  <2>3. mgr' = [mgr EXCEPT ![c] = [mgr[c] EXCEPT !.next = mode, !.cur = IF mgr[c].wasSet THEN mode ELSE @]]
    BY <1>5 DEF SetMode, TypeOK, Managers
  <2> QED BY <1>5, <2>1, <2>2, <2>3 DEF SetMode, TypeOK
<1>6. CASE Deliver(c, "game")
  BY <1>6, TypeDeliver
<1> QED BY <1>1, <1>2, <1>3, <1>4, <1>5, <1>6 DEF GameThread

LEMMA TypeProcess ==
  ASSUME TypeOK, NEW c \in Clients, Process(c)
  PROVE  TypeOK'
<1> DEFINE p == read[c].packet
           ours == IsOurs(c, p, read[c].base)
<1>1. left' \in [Kinds -> Nat]
  BY InputType DEF Process, TypeOK
<1>2. /\ read[c] \in [at : {"process"}, packet : States \cup Tags, base : Modes \cup {NoMode}]
      /\ p \in Packets /\ mgr[c] \in Managers /\ it[c] \in BOOLEAN
  BY DEF Process, TypeOK, Reading, Idle, Lost, Packets
<1>3. ours \in BOOLEAN /\ p.it \in BOOLEAN /\ p.who \in Clients
  BY <1>2 DEF IsOurs, Packets, States, Tags
<1>4. /\ \A isIt \in BOOLEAN : Announcement(c, mgr[c], isIt) \in Seq(States)
      /\ Answer(c, p, ours) \in Seq(States)
  BY <1>2, AnnouncementType DEF Answer
<1>5. UNCHANGED <<mgr, loading, inbox>> /\ read' \in [Clients -> Reading]
  BY DEF Process, TypeOK, Reading
<1>6. CASE ProcessOther(c, p, ours)
  <2>1. ModeOf(c, p) \in Modes \cup {NoMode, FreezeTag}
    BY <1>2, <1>6 DEF ProcessOther, ModeOf, Packets, States, Tags
  <2> HIDE DEF p, ours
  <2> QED BY <1>1, <1>3, <1>4, <1>5, <1>6, <2>1 DEF ProcessOther, TypeOK
<1>7. CASE ProcessOwn(c, p, ours)
  <2>1. Announcement(c, mgr[c], p.it) \in Seq(States)
    BY <1>3, <1>4
  <2> HIDE DEF p, ours
  <2>2. it' \in [Clients -> BOOLEAN] /\ made' \in [Clients -> [game : Seq(States), read : Seq(States)]]
    <3>1. CASE ours
      <4>1. it' = [it EXCEPT ![c] = p.it] /\ made' = [made EXCEPT ![c].read = Announcement(c, mgr[c], p.it)]
        BY <1>7, <3>1 DEF ProcessOwn
      <4> QED BY <1>3, <2>1, <4>1 DEF TypeOK
    <3>2. CASE ~ours
      BY <1>7, <3>2 DEF ProcessOwn, TypeOK
    <3> QED BY <3>1, <3>2
  <2> QED BY <1>1, <1>5, <1>7, <2>2 DEF ProcessOwn, TypeOK
<1>8. CASE UNCHANGED <<it, theirs, itSeen, made>>
  BY <1>1, <1>5, <1>8 DEF TypeOK
<1> QED BY <1>6, <1>7, <1>8 DEF Process

LEMMA TypeRead ==
  ASSUME TypeOK, NEW c \in Clients, ReadThread(c)
  PROVE  TypeOK'
<1>1. CASE LookUp(c)
  <2>1. left' \in [Kinds -> Nat]
    BY <1>1, InputType DEF LookUp, TypeOK
  <2>2. inbox[c] \in Seq(States \cup Tags) /\ inbox[c] # <<>> /\ mgr[c] \in Managers
    BY <1>1 DEF LookUp, TypeOK
  <2>3. /\ Head(inbox[c]) \in States \cup Tags /\ Tail(inbox[c]) \in Seq(States \cup Tags)
        /\ mgr[c].base \in Modes \cup {NoMode}
    BY <2>2 DEF Managers
  <2>4. [at |-> "process", packet |-> Head(inbox[c]), base |-> mgr[c].base] \in Reading
    BY <2>3 DEF Reading
  <2> QED BY <1>1, <2>1, <2>3, <2>4 DEF LookUp, TypeOK
<1>2. CASE Process(c)
  BY <1>2, TypeProcess
<1>3. CASE Reannounce(c)
  <2>1. left' \in [Kinds -> Nat]
    BY <1>3, InputType DEF Reannounce, TypeOK
  <2>2. Announcement(c, mgr[c], it[c]) \in Seq(States)
    BY AnnouncementType DEF TypeOK
  <2> QED BY <1>3, <2>1, <2>2 DEF Reannounce, TypeOK
<1>4. CASE Deliver(c, "read")
  BY <1>4, TypeDeliver
<1> QED BY <1>1, <1>2, <1>3, <1>4 DEF ReadThread

LEMMA TypeStep == TypeOK /\ [Next]_vars => TypeOK'
<1> SUFFICES ASSUME TypeOK, [Next]_vars PROVE TypeOK'
  OBVIOUS
<1>1. ASSUME NEW c \in Clients, NEW isIt \in BOOLEAN, ServerTag(c, isIt) PROVE TypeOK'
  <2>1. left' \in [Kinds -> Nat]
    BY <1>1, InputType DEF ServerTag, TypeOK
  <2>2. [kind |-> "tag", who |-> c, it |-> isIt] \in States \cup Tags
    BY DEF Tags
  <2> QED BY <1>1, <2>1, <2>2 DEF ServerTag, TypeOK
<1>2. CASE UNCHANGED vars
  BY <1>2 DEF vars, TypeOK
<1> QED BY <1>1, <1>2, TypeGame, TypeRead DEF Next

\* Every member of every manager, every table and every packet that is built,
\* queued or in hand is of its type, for any clients, modes and budgets.
THEOREM TypeCorrect == Spec => []TypeOK
<1>1. Init => TypeOK
  BY DEF Init, TypeOK, Managers, Reading
<1> QED BY <1>1, TypeStep, PTL DEF Spec

-----------------------------------------------------------------------------
(* What is said about a player in a sequence q of packets, in the order in *)
(* which they are processed, by a client that now has t for that player's  *)
(* mode.                                                                   *)

Says(p) == IF p.kind = "state" THEN p.mode ELSE FreezeTag

\* t once p has been processed.
Noted(t, p, s) == IF p.who = s THEN Says(p) ELSE t

\* After position j nothing is said about s.
Silent(q, s, j) == \A i \in DOMAIN q : i > j => q[i].who # s

\* The last packet about s is in P; without one, t is in V.
EndsIn(q, t, s, P, V) ==
  \/ Silent(q, s, 0) /\ t \in V
  \/ \E j \in DOMAIN q : q[j].who = s /\ q[j] \in P /\ Silent(q, s, j)

\* Before position k the client has something else than mode m for o.  The
\* first packet counts for t if it is processed with a stale mode object.
Other(q, t, o, m, stale, k) ==
  \/ t # m /\ ~(stale /\ q[1].who = o)
  \/ \E j \in DOMAIN q : j < k /\ q[j].who = o /\ Says(q[j]) # m

\* A packet makes o's mode m that was something else, so it will be answered.
News(q, t, o, m, stale) ==
  \E k \in DOMAIN q : /\ q[k].who = o /\ (stale => k # 1) /\ Says(q[k]) = m
                      /\ Other(q, t, o, m, stale, k)

\* A packet about s is to come that is processed with the present mode object.
Told(q, s, stale) == \E k \in DOMAIN q : q[k].who = s /\ (stale => k # 1)

LEMMA AppendFacts ==
  ASSUME NEW q \in Seq(Packets), NEW p \in Packets
  PROVE  /\ Append(q, p) \in Seq(Packets) /\ Append(q, p) # <<>>
         /\ DOMAIN q = 1 .. Len(q) /\ Len(q) \in Nat
         /\ DOMAIN Append(q, p) = 1 .. Len(q) + 1 /\ Len(Append(q, p)) = Len(q) + 1
         /\ \A i \in DOMAIN q : i \in DOMAIN Append(q, p) /\ Append(q, p)[i] = q[i]
         /\ \A i \in DOMAIN Append(q, p) : i \in DOMAIN q \/ i = Len(q) + 1
         /\ Append(q, p)[Len(q) + 1] = p
BY AppendProperties

LEMMA TailFacts ==
  ASSUME NEW q \in Seq(Packets), q # <<>>
  PROVE  /\ Tail(q) \in Seq(Packets)
         /\ DOMAIN q = 1 .. Len(q) /\ Len(q) \in Nat \ {0} /\ 1 \in DOMAIN q
         /\ DOMAIN Tail(q) = 1 .. Len(q) - 1 /\ Len(Tail(q)) = Len(q) - 1
         /\ \A i \in DOMAIN Tail(q) : i \in Nat /\ i + 1 \in DOMAIN q /\ Tail(q)[i] = q[i + 1]
         /\ \A i \in DOMAIN q : i = 1 \/ (i - 1 \in DOMAIN Tail(q) /\ Tail(q)[i - 1] = q[i])
         /\ \A i \in DOMAIN q : i \in Nat /\ q[i] \in Packets
<1>1. /\ Tail(q) \in Seq(Packets) /\ Len(q) \in Nat \ {0} /\ DOMAIN q = 1 .. Len(q)
      /\ Len(Tail(q)) = Len(q) - 1 /\ DOMAIN Tail(q) = 1 .. Len(q) - 1
      /\ \A i \in 1 .. Len(q) - 1 : Tail(q)[i] = q[i + 1]
  BY HeadTailProperties, EmptySeq
<1>2. \A i \in DOMAIN q : i = 1 \/ (i - 1 \in DOMAIN Tail(q) /\ Tail(q)[i - 1] = q[i])
  <2> TAKE i \in DOMAIN q
  <2>1. i = 1 \/ (i - 1 \in 1 .. Len(q) - 1 /\ (i - 1) + 1 = i)
    BY <1>1
  <2> QED BY <1>1, <2>1
<1> QED BY <1>1, <1>2

LEMMA EndsAppend ==
  ASSUME NEW q \in Seq(Packets), NEW p \in Packets, NEW t, NEW s, NEW P, NEW V
  PROVE  /\ p.who # s /\ EndsIn(q, t, s, P, V) => EndsIn(Append(q, p), t, s, P, V)
         /\ p.who = s /\ p \in P => EndsIn(Append(q, p), t, s, P, V)
<1> DEFINE a == Append(q, p)
<1> HIDE DEF a
<1>0. /\ DOMAIN q = 1 .. Len(q) /\ Len(q) \in Nat /\ DOMAIN a = 1 .. Len(q) + 1
      /\ \A i \in DOMAIN q : i \in DOMAIN a /\ a[i] = q[i]
      /\ \A i \in DOMAIN a : i \in DOMAIN q \/ i = Len(q) + 1
      /\ a[Len(q) + 1] = p
  BY AppendFacts DEF a
<1>1. ASSUME p.who # s, EndsIn(q, t, s, P, V) PROVE EndsIn(a, t, s, P, V)
  <2>1. \A j : Silent(q, s, j) => Silent(a, s, j)
    BY <1>0, <1>1 DEF Silent
  <2> QED BY <1>0, <1>1, <2>1 DEF EndsIn
<1>2. ASSUME p.who = s, p \in P PROVE EndsIn(a, t, s, P, V)
  <2>1. Len(q) + 1 \in DOMAIN a /\ Silent(a, s, Len(q) + 1)
    BY <1>0 DEF Silent
  <2> QED BY <1>0, <1>2, <2>1 DEF EndsIn
<1> QED BY <1>1, <1>2 DEF a

LEMMA EndsTail ==
  ASSUME NEW q \in Seq(Packets), q # <<>>, NEW t, NEW s, NEW P, NEW V,
         \A p \in P : Says(p) \in V, EndsIn(q, t, s, P, V)
  PROVE  EndsIn(Tail(q), Noted(t, q[1], s), s, P, V)
<1> DEFINE a == Tail(q)
<1> HIDE DEF a
<1>0. /\ DOMAIN q = 1 .. Len(q) /\ Len(q) \in Nat \ {0}
      /\ \A i \in DOMAIN a : i \in Nat /\ i + 1 \in DOMAIN q /\ a[i] = q[i + 1]
      /\ \A i \in DOMAIN q : i = 1 \/ (i - 1 \in DOMAIN a /\ a[i - 1] = q[i])
  BY TailFacts DEF a
<1>1. ASSUME NEW j \in Nat, Silent(q, s, j) PROVE Silent(a, s, j - 1) /\ (j = 0 => Silent(a, s, 0))
  BY <1>0, <1>1 DEF Silent
<1>2. CASE Silent(q, s, 0) /\ t \in V
  <2>1. q[1].who # s
    BY <1>0, <1>2 DEF Silent
  <2> QED BY <1>1, <1>2, <2>1 DEF EndsIn, Noted, a
<1>3. CASE \E j \in DOMAIN q : q[j].who = s /\ q[j] \in P /\ Silent(q, s, j)
  <2> PICK j \in DOMAIN q : q[j].who = s /\ q[j] \in P /\ Silent(q, s, j)
    BY <1>3
  <2>1. j \in Nat
    BY <1>0
  <2>2. Silent(a, s, j - 1)
    BY <1>1, <2>1
  <2>3. CASE j = 1
    <3>1. Says(q[1]) \in V /\ q[1].who = s
      BY <2>3
    <3> QED BY <2>2, <2>3, <3>1 DEF EndsIn, Noted, a
  <2>4. CASE j # 1
    <3>1. j - 1 \in DOMAIN a /\ a[j - 1] = q[j]
      BY <1>0, <2>4
    <3> QED BY <2>2, <3>1 DEF EndsIn, a
  <2> QED BY <2>3, <2>4
<1> QED BY <1>2, <1>3 DEF EndsIn

LEMMA NewsAppend ==
  ASSUME NEW q \in Seq(Packets), NEW p \in Packets, NEW t, NEW o, NEW m, NEW stale,
         stale => q # <<>>
  PROVE  /\ Other(q, t, o, m, stale, Len(q) + 1)
              => Other(Append(q, p), t, o, m, stale, Len(Append(q, p)) + 1)
         /\ p.who = o /\ Says(p) # m => Other(Append(q, p), t, o, m, stale, Len(Append(q, p)) + 1)
         /\ News(q, t, o, m, stale) => News(Append(q, p), t, o, m, stale)
         /\ Told(q, o, stale) => Told(Append(q, p), o, stale)
         /\ p.who = o => Told(Append(q, p), o, stale)
         /\ p.who = o /\ Says(p) = m /\ Other(q, t, o, m, stale, Len(q) + 1)
              => News(Append(q, p), t, o, m, stale)
<1> DEFINE a == Append(q, p)
<1>0. /\ DOMAIN q = 1 .. Len(q) /\ Len(q) \in Nat /\ DOMAIN a = 1 .. Len(q) + 1 /\ Len(a) = Len(q) + 1
      /\ \A i \in DOMAIN q : i \in DOMAIN a /\ a[i] = q[i]
      /\ a[Len(q) + 1] = p
  BY AppendFacts
<1>1. stale => 1 \in DOMAIN q /\ Len(q) + 1 # 1
  BY <1>0, EmptySeq
<1> HIDE DEF a
<1>2. ASSUME NEW k \in Nat, NEW l \in Nat, k <= l, Other(q, t, o, m, stale, k)
      PROVE Other(a, t, o, m, stale, l)
  BY <1>0, <1>1, <1>2 DEF Other
<1>3. Len(q) + 1 \in Nat /\ Len(a) + 1 \in Nat /\ Len(q) + 1 <= Len(a) + 1
      /\ Len(q) + 1 \in DOMAIN a /\ Len(q) + 1 < Len(a) + 1
  BY <1>0
<1>4. Other(q, t, o, m, stale, Len(q) + 1) => Other(a, t, o, m, stale, Len(a) + 1)
  BY <1>2, <1>3
<1>5. p.who = o /\ Says(p) # m => Other(a, t, o, m, stale, Len(a) + 1)
  BY <1>0, <1>3 DEF Other
<1>6. News(q, t, o, m, stale) => News(a, t, o, m, stale)
  <2>1. \A k \in DOMAIN q : k \in Nat /\ k <= k
    BY <1>0
  <2> QED BY <1>0, <1>2, <2>1 DEF News
<1>7. (Told(q, o, stale) => Told(a, o, stale)) /\ (p.who = o => Told(a, o, stale))
  BY <1>0, <1>1, <1>3 DEF Told
<1>8. p.who = o /\ Says(p) = m /\ Other(q, t, o, m, stale, Len(q) + 1) => News(a, t, o, m, stale)
  <2>1. Other(q, t, o, m, stale, Len(q) + 1) => Other(a, t, o, m, stale, Len(q) + 1)
    BY <1>2, <1>3
  <2> QED BY <1>0, <1>1, <1>3, <2>1 DEF News
<1> QED BY <1>4, <1>5, <1>6, <1>7, <1>8 DEF a

LEMMA NewsTail ==
  ASSUME NEW q \in Seq(Packets), q # <<>>, NEW t, NEW o, NEW m, NEW stale \in BOOLEAN,
         ~stale /\ q[1].who = o /\ Says(q[1]) = m => t = m
  PROVE  /\ Other(q, t, o, m, stale, Len(q) + 1)
              => Other(Tail(q), Noted(t, q[1], o), o, m, FALSE, Len(Tail(q)) + 1)
         /\ News(q, t, o, m, stale) => News(Tail(q), Noted(t, q[1], o), o, m, FALSE)
<1> DEFINE a == Tail(q)
           u == Noted(t, q[1], o)
<1>0. /\ DOMAIN q = 1 .. Len(q) /\ Len(q) \in Nat \ {0} /\ Len(a) = Len(q) - 1
      /\ \A i \in DOMAIN a : i \in Nat /\ i + 1 \in DOMAIN q /\ a[i] = q[i + 1]
      /\ \A i \in DOMAIN q : i = 1 \/ (i - 1 \in DOMAIN a /\ a[i - 1] = q[i])
  BY TailFacts
<1> HIDE DEF a
<1>1. q[1].who # o => u = t
  BY DEF Noted
<1>2. q[1].who = o => u = Says(q[1])
  BY DEF Noted
<1> HIDE DEF u
<1>3. ASSUME NEW k \in Nat, k > 1, Other(q, t, o, m, stale, k) PROVE Other(a, u, o, m, FALSE, k - 1)
  <2>1. CASE t # m /\ ~(stale /\ q[1].who = o)
    BY <1>1, <1>2, <2>1 DEF Other
  <2>2. CASE \E j \in DOMAIN q : j < k /\ q[j].who = o /\ Says(q[j]) # m
    <3> PICK j \in DOMAIN q : j < k /\ q[j].who = o /\ Says(q[j]) # m
      BY <2>2
    <3>1. CASE j = 1
      BY <1>2, <3>1 DEF Other
    <3>2. CASE j # 1
      <4>1. j - 1 \in DOMAIN a /\ a[j - 1] = q[j] /\ j - 1 < k - 1
        BY <1>0, <3>2
      <4> QED BY <4>1 DEF Other
    <3> QED BY <3>1, <3>2
  <2> QED BY <1>3, <2>1, <2>2 DEF Other
<1>4. Other(q, t, o, m, stale, Len(q) + 1) => Other(a, u, o, m, FALSE, Len(a) + 1)
  <2>1. Len(q) + 1 \in Nat /\ Len(q) + 1 > 1 /\ (Len(q) + 1) - 1 = Len(a) + 1
    BY <1>0
  <2> HIDE <1>0
  <2> QED BY <1>3, <2>1
<1>5. ASSUME News(q, t, o, m, stale) PROVE News(a, u, o, m, FALSE)
  <2> PICK k \in DOMAIN q : /\ q[k].who = o /\ (stale => k # 1) /\ Says(q[k]) = m
                            /\ Other(q, t, o, m, stale, k)
    BY <1>5 DEF News
  <2>1. k # 1
    <3> SUFFICES ASSUME k = 1 PROVE FALSE
      OBVIOUS
    <3>1. ~stale /\ t = m
      OBVIOUS
    <3>2. PICK j \in DOMAIN q : j < 1
      BY <3>1 DEF Other
    <3> QED BY <1>0, <3>2
  <2>2. k \in Nat /\ k > 1 /\ k - 1 \in DOMAIN a /\ a[k - 1] = q[k]
    BY <1>0, <2>1
  <2>3. Other(a, u, o, m, FALSE, k - 1)
    BY <1>3, <2>2
  <2> QED BY <2>2, <2>3 DEF News
<1> QED BY <1>4, <1>5 DEF a, u

LEMMA ToldTail ==
  ASSUME NEW q \in Seq(Packets), q # <<>>, NEW s, NEW stale \in BOOLEAN,
         Told(q, s, stale), ~stale => q[1].who # s
  PROVE  Told(Tail(q), s, FALSE)
<1>0. \A i \in DOMAIN q : i = 1 \/ (i - 1 \in DOMAIN Tail(q) /\ Tail(q)[i - 1] = q[i])
  BY TailFacts
<1> PICK k \in DOMAIN q : q[k].who = s /\ (stale => k # 1)
  BY DEF Told
<1>1. k # 1
  OBVIOUS
<1> QED BY <1>0, <1>1 DEF Told

-----------------------------------------------------------------------------
(* The invariant, for code that keeps packets in order (~MayOvertake),     *)
(* stages that last a frame (~MayHurry) and players who do not pause.      *)

\* The packets a client has still to process, the one in hand first.
In(o) == IF read[o].at = "process" THEN <<read[o].packet>> \o inbox[o] ELSE inbox[o]

\* The packets it has built and not yet queued.
Out(s) == IF made[s].game = <<>> THEN made[s].read ELSE made[s].game

\* What it would announce now.
Now(s) == [kind |-> "state", who |-> s, mode |-> IF mgr[s].on THEN mgr[s].base ELSE NoMode,
           it |-> mgr[s].on /\ it[s]]

\* The packet in hand is processed with a mode object that is no more.
Stale(o) == read[o].at = "process" /\ read[o].base # mgr[o].base

\* A tag command about itself is to come and will be obeyed.
Commanded(s) ==
  \E k \in DOMAIN In(s) : /\ In(s)[k].who = s
                          /\ ~(k = 1 /\ read[s].at = "process" /\ read[s].base = NoMode)

\* It will announce itself, whatever else happens, or never does anything again.
Due(s) == mgr[s].base = NoMode \/ mgr[s].sceneTrans \/ read[s] = Lost \/ Commanded(s)

\* Without pauses the manager is simple.
ManagerInv(s) ==
  /\ ~mgr[s].paused /\ ~mgr[s].wasPaused
  /\ mgr[s].base \in {NoMode, mgr[s].cur}
  /\ mgr[s].base = NoMode => (loading[s] \/ mgr[s].wasSet) /\ ~mgr[s].on /\ ~mgr[s].sceneTrans
  /\ loading[s] => mgr[s].base = NoMode /\ mgr[s].cur # mgr[s].next
  /\ mgr[s].wasSet => mgr[s].base = NoMode /\ mgr[s].cur = mgr[s].next

\* One thread at a time has packets, all of one mode; a client gets no packet
\* about itself but a tag command.
MadeInv(s) ==
  /\ made[s].game = <<>> \/ made[s].read = <<>>
  /\ \A i \in DOMAIN Out(s) : Out(s)[i].who = s /\ Out(s)[i].mode = Out(s)[1].mode
  /\ read[s].at = "process" => made[s].read = <<>>
  /\ \A k \in DOMAIN In(s) : In(s)[k].who = s => In(s)[k].kind = "tag"

\* The modes others may last have heard of before the next one begins.
Played(s) == {NoMode, FreezeTag} \cup (IF mgr[s].wasSet THEN {} ELSE {mgr[s].cur})
Saying(V) == {p \in Packets : Says(p) \in V}

RangeInv(o, s) ==
  read[o] # Lost /\ ~mgr[s].sceneTrans =>
    IF Out(s) # <<>> THEN Out(s)[1].mode \in Played(s)
    ELSE EndsIn(In(o), theirs[o][s], s, Saying(Played(s)), Played(s))

\* The last thing that o hears of s is true, unless s is to say more.
LastInv(o, s) ==
  read[o] # Lost /\ ~Due(s) =>
    IF Out(s) # <<>> THEN Out(s)[Len(Out(s))] = Now(s)
    ELSE EndsIn(In(o), theirs[o][s], s, {Now(s)}, {Now(s).mode})

\* s will find that o has come to o's mode and answer.
Ask(o, s) ==
  LET m == mgr[o].base
      Differs == Other(In(s), theirs[s][o], o, m, Stale(s), Len(In(s)) + 1)
  IN \/ mgr[o].sceneTrans /\ m # NoMode /\ (Differs \/ (Out(o) # <<>> /\ Out(o)[1].mode # m))
     \/ Out(o) # <<>> /\ Out(o)[1].mode = m /\ Differs
     \/ News(In(s), theirs[s][o], o, m, Stale(s))

Heard(o, s) == Out(s) # <<>> \/ Told(In(o), s, Stale(o))

\* o knows if s is it, and does not forget.
Right(o, s) == itSeen[o][s] = it[s] /\ ~(Stale(o) /\ In(o)[1].who = s)

\* Two clients in the same mode: o knows if s is it, will hear it, or makes s
\* answer.
Mates(o, s) == read[o] # Lost /\ ~Due(s) /\ mgr[s].on /\ mgr[s].base = mgr[o].base
InfoInv(o, s) == Mates(o, s) => Heard(o, s) \/ Ask(o, s) \/ Right(o, s)

PairInv(o, s) == RangeInv(o, s) /\ LastInv(o, s) /\ InfoInv(o, s)

KnowInv ==
  /\ left["pause"] = 0
  /\ \A s \in Clients : ManagerInv(s) /\ MadeInv(s)
  /\ \A o, s \in Clients : o # s => PairInv(o, s)

\* Every client but c keeps its variables and its queues ...
Same(d) ==
  /\ mgr'[d] = mgr[d] /\ it'[d] = it[d] /\ theirs'[d] = theirs[d] /\ itSeen'[d] = itSeen[d]
  /\ loading'[d] = loading[d] /\ made'[d] = made[d]
  /\ read'[d] = read[d] /\ inbox'[d] = inbox[d]

\* ... and so what the invariant says of it alone.
View(d) ==
  /\ In(d)' = In(d) /\ Out(d)' = Out(d) /\ Stale(d)' = Stale(d) /\ Due(d)' = Due(d)
  /\ Now(d)' = Now(d) /\ Played(d)' = Played(d) /\ (read'[d] = Lost) = (read[d] = Lost)

LEMMA SameView == ASSUME NEW d \in Clients, Same(d) PROVE View(d)
<1>1. In(d)' = In(d) /\ Out(d)' = Out(d) /\ Stale(d)' = Stale(d)
  BY DEF Same, In, Out, Stale
<1>2. Commanded(d)' = Commanded(d)
  BY <1>1 DEF Same, Commanded
<1> QED BY <1>1, <1>2 DEF Same, View, Due, Now, Played

LEMMA InType ==
  ASSUME TypeOK, NEW d \in Clients
  PROVE  /\ In(d) \in Seq(Packets) /\ Out(d) \in Seq(States) /\ inbox[d] \in Seq(Packets)
         /\ Now(d) \in Packets /\ Now(d).who = d /\ Now(d).mode \in Modes \cup {NoMode}
         /\ Stale(d) => In(d) # <<>> /\ In(d)[1] = read[d].packet
         /\ Stale(d) \in BOOLEAN /\ mgr[d] \in Managers
         /\ read[d].at = "process" => /\ In(d) # <<>> /\ In(d)[1] = read[d].packet /\ Tail(In(d)) = inbox[d]
                                      /\ read[d].packet \in Packets /\ read[d] # Lost
<1>1. mgr[d] \in Managers /\ it[d] \in BOOLEAN /\ inbox[d] \in Seq(Packets) /\ read[d] \in Reading
      /\ made[d].game \in Seq(States) /\ made[d].read \in Seq(States)
  BY DEF TypeOK, Packets
<1>2. ASSUME read[d].at = "process"
      PROVE  /\ read[d].packet \in Packets /\ read[d] # Lost
             /\ In(d) = <<read[d].packet>> \o inbox[d]
  BY <1>1, <1>2 DEF Reading, Idle, Lost, Packets, In
<1>3. ASSUME NEW p \in Packets, NEW q \in Seq(Packets)
      PROVE  /\ <<p>> \o q \in Seq(Packets) /\ <<p>> \o q # <<>> /\ (<<p>> \o q)[1] = p
             /\ Tail(<<p>> \o q) = q
  OBVIOUS
<1>4. In(d) \in Seq(Packets)
  BY <1>1, <1>2, <1>3 DEF In
<1>5. Now(d) \in Packets /\ Now(d).who = d /\ Now(d).mode \in Modes \cup {NoMode}
  <2>1. (IF mgr[d].on THEN mgr[d].base ELSE NoMode) \in Modes \cup {NoMode} /\ (mgr[d].on /\ it[d]) \in BOOLEAN
    BY <1>1 DEF Managers
  <2> QED BY <2>1 DEF Now, Packets, States
<1> QED BY <1>1, <1>2, <1>3, <1>4, <1>5 DEF Out, Stale

-----------------------------------------------------------------------------
(* How a pair keeps its invariant: nothing is said, something is said that *)
(* is not about s, or s announces itself.                                  *)

Extends(new, old) == new = old \/ \E p \in Packets : new = Append(old, p)

LEMMA RangeKeep ==
  ASSUME TypeOK, NEW o \in Clients, NEW s \in Clients, RangeInv(o, s),
         read'[o] # Lost => read[o] # Lost,
         ~mgr'[s].sceneTrans => ~mgr[s].sceneTrans /\ Played(s)' = Played(s) /\ Out(s)' = Out(s),
         theirs'[o][s] = theirs[o][s],
         \/ In(o)' = In(o)
         \/ \E p \in Packets : In(o)' = Append(In(o), p) /\ (p.who = s => Says(p) \in Played(s))
  PROVE  RangeInv(o, s)'
<1> DEFINE P == Saying(Played(s))
           E(q) == EndsIn(q, theirs[o][s], s, P, Played(s))
<1>1. E(In(o)) => E(In(o)')
  <2>1. ASSUME NEW p \in Packets, In(o)' = Append(In(o), p), p.who = s => Says(p) \in Played(s), E(In(o))
        PROVE E(In(o)')
    <3>1. p.who = s => p \in P
      BY <2>1 DEF Saying
    <3> QED BY <2>1, <3>1, EndsAppend, InType
  <2> QED BY <2>1
<1> SUFFICES ASSUME read'[o] # Lost, ~mgr'[s].sceneTrans
             PROVE IF Out(s)' # <<>> THEN Out(s)'[1].mode \in Played(s)'
                   ELSE EndsIn(In(o)', theirs'[o][s], s, Saying(Played(s)'), Played(s)')
  BY DEF RangeInv
<1>2. IF Out(s) # <<>> THEN Out(s)[1].mode \in Played(s) ELSE E(In(o))
  BY DEF RangeInv
<1> QED BY <1>1, <1>2

LEMMA LastKeep ==
  ASSUME TypeOK, NEW o \in Clients, NEW s \in Clients, LastInv(o, s),
         read'[o] # Lost => read[o] # Lost,
         ~Due(s)' => ~Due(s) /\ Now(s)' = Now(s) /\ Out(s)' = Out(s),
         theirs'[o][s] = theirs[o][s],
         \/ In(o)' = In(o)
         \/ \E p \in Packets : In(o)' = Append(In(o), p) /\ (p.who # s \/ Due(s)')
  PROVE  LastInv(o, s)'
<1> SUFFICES ASSUME read'[o] # Lost, ~Due(s)'
             PROVE IF Out(s)' # <<>> THEN Out(s)'[Len(Out(s)')] = Now(s)'
                   ELSE EndsIn(In(o)', theirs'[o][s], s, {Now(s)'}, {Now(s)'.mode})
  BY DEF LastInv
<1> DEFINE E(q) == EndsIn(q, theirs[o][s], s, {Now(s)}, {Now(s).mode})
<1>1. E(In(o)) => E(In(o)')
  <2>1. ASSUME NEW p \in Packets, In(o)' = Append(In(o), p), p.who # s, E(In(o))
        PROVE E(In(o)')
    BY <2>1, EndsAppend, InType
  <2> QED BY <2>1
<1>2. IF Out(s) # <<>> THEN Out(s)[Len(Out(s))] = Now(s) ELSE E(In(o))
  BY DEF LastInv
<1> QED BY <1>1, <1>2

LEMMA InfoKeep ==
  ASSUME TypeOK, NEW o \in Clients, NEW s \in Clients, InfoInv(o, s),
         Mates(o, s)' =>
           /\ Mates(o, s) /\ it'[s] = it[s] /\ mgr'[o].base = mgr[o].base
           /\ Stale(o)' = Stale(o) /\ Stale(s)' = Stale(s)
           /\ itSeen'[o][s] = itSeen[o][s] /\ theirs'[s][o] = theirs[s][o]
           /\ mgr[o].sceneTrans => mgr'[o].sceneTrans
           /\ Out(s)' = Out(s) /\ (Out(o)' = Out(o) \/ Out(o) = <<>>)
           /\ Extends(In(o)', In(o)) /\ Extends(In(s)', In(s))
  PROVE  InfoInv(o, s)'
<1> SUFFICES ASSUME Mates(o, s)' PROVE Heard(o, s)' \/ Ask(o, s)' \/ Right(o, s)'
  BY DEF InfoInv
<1> DEFINE m == mgr[o].base
           t == theirs[s][o]
<1>1. Heard(o, s) \/ Ask(o, s) \/ Right(o, s)
  BY DEF InfoInv
<1>2. /\ In(o) \in Seq(Packets) /\ In(s) \in Seq(Packets)
      /\ Stale(o) => In(o) # <<>>
      /\ Stale(s) => In(s) # <<>>
  BY InType
<1>3. CASE Heard(o, s)
  <2>1. Told(In(o), s, Stale(o)) => Told(In(o)', s, Stale(o))
    <3>1. ASSUME NEW p \in Packets, Told(In(o), s, Stale(o)) PROVE Told(Append(In(o), p), s, Stale(o))
      BY <1>2, <3>1, NewsAppend
    <3> QED BY <3>1 DEF Extends
  <2> QED BY <1>3, <2>1 DEF Heard
<1>4. CASE Ask(o, s)
  <2>1. /\ Other(In(s), t, o, m, Stale(s), Len(In(s)) + 1) => Other(In(s)', t, o, m, Stale(s), Len(In(s)') + 1)
        /\ News(In(s), t, o, m, Stale(s)) => News(In(s)', t, o, m, Stale(s))
    <3> DEFINE D(q) == Other(q, t, o, m, Stale(s), Len(q) + 1)
               N(q) == News(q, t, o, m, Stale(s))
    <3>1. ASSUME NEW p \in Packets
          PROVE  (D(In(s)) => D(Append(In(s), p))) /\ (N(In(s)) => N(Append(In(s), p)))
      BY <1>2, NewsAppend
    <3> HIDE DEF D, N
    <3>2. (D(In(s)) => D(In(s)')) /\ (N(In(s)) => N(In(s)'))
      BY <3>1 DEF Extends
    <3> QED BY <3>2 DEF D, N
  <2> QED BY <1>4, <2>1 DEF Ask
<1>5. CASE Right(o, s)
  <2>1. Stale(o) => In(o)'[1] = In(o)[1]
    <3>1. ASSUME NEW p \in Packets, Stale(o) PROVE Append(In(o), p)[1] = In(o)[1]
      <4>1. 1 \in DOMAIN In(o)
        BY <1>2, <3>1, TailFacts
      <4> QED BY <1>2, <4>1, AppendFacts
    <3> QED BY <3>1 DEF Extends
  <2> QED BY <1>5, <2>1 DEF Right
<1> QED BY <1>1, <1>3, <1>4, <1>5

\* What s has built ends with what it is now.
Announced(a, n) ==
  /\ a # <<>> /\ a[Len(a)] = n /\ a[1].mode = n.mode
  /\ \A i \in DOMAIN a : a[i].who = n.who /\ a[i].mode = n.mode

LEMMA PairAnnounce ==
  ASSUME NEW o \in Clients, NEW s \in Clients, ManagerInv(s)', Announced(Out(s)', Now(s)')
  PROVE  PairInv(o, s)'
<1>1. Now(s)'.mode \in Played(s)'
  BY DEF ManagerInv, Now, Played
<1> QED BY <1>1 DEF Announced, PairInv, RangeInv, LastInv, InfoInv, Heard

LEMMA PairKeep ==
  ASSUME TypeOK, NEW o \in Clients, NEW s \in Clients, PairInv(o, s), View(s), View(o), Same(o), Same(s)
  PROVE  PairInv(o, s)'
<1>1. RangeInv(o, s)'
  BY RangeKeep DEF PairInv, View, Same
<1>2. LastInv(o, s)'
  BY LastKeep DEF PairInv, View, Same
<1>3. Mates(o, s)' => Mates(o, s)
  BY DEF Mates, View, Same
<1>4. InfoInv(o, s)'
  BY <1>3, InfoKeep DEF PairInv, View, Same, Extends
<1> QED BY <1>1, <1>2, <1>4 DEF PairInv

-----------------------------------------------------------------------------
(* What the actions do to a client and leave of the others.                *)

LEMMA InputPause ==
  ASSUME left \in [Kinds -> Nat], left["pause"] = 0, NEW kinds, Input(kinds)
  PROVE  left'["pause"] = 0 /\ "pause" \notin kinds
BY DEF Input, Kinds

LEMMA UpdateSimple ==
  ASSUME NEW m \in Managers, ~m.paused, ~m.wasPaused, m.sceneTrans => m.base # NoMode
  PROVE  LET n == PauseOrUnpause(BeginOrEnd([m EXCEPT !.paused = FALSE]))
         IN /\ n = BeginOrEnd([m EXCEPT !.paused = FALSE]) /\ n \in Managers
            /\ ~n.paused /\ ~n.wasPaused /\ ~n.sceneTrans
            /\ n.base = m.base /\ n.cur = m.cur /\ n.next = m.next /\ n.wasSet = m.wasSet
            /\ ~Begins(m) /\ ~Ends(m) => n.on = m.on /\ ~m.sceneTrans
            /\ m.sceneTrans => n.on
            /\ [m EXCEPT !.paused = FALSE] = m
<1>1. [m EXCEPT !.paused = FALSE] = m
  BY DEF Managers
<1> DEFINE b == BeginOrEnd(m)
<1>2. /\ b \in Managers /\ ~b.paused /\ ~b.wasPaused /\ ~b.sceneTrans
      /\ b.base = m.base /\ b.cur = m.cur /\ b.next = m.next /\ b.wasSet = m.wasSet
      /\ ~Begins(m) /\ ~Ends(m) => b.on = m.on /\ ~m.sceneTrans
      /\ m.sceneTrans => b.on
  BY DEF BeginOrEnd, Managers, Begins, Ends
<1> HIDE DEF b
<1>3. PauseOrUnpause(b) = b
  BY <1>2 DEF PauseOrUnpause, Managers
<1> QED BY <1>1, <1>2, <1>3 DEF b

LEMMA TwoPackets ==
  ASSUME NEW x, NEW y, x.who = y.who, x.mode = y.mode
  PROVE  /\ <<>> \o <<>> = <<>>
         /\ Announced(<<x>> \o <<>>, x) /\ Announced(<<>> \o <<y>>, y) /\ Announced(<<x>> \o <<y>>, y)
         /\ Announced(<<x>>, x)
<1>0. <<>> \in Seq({x, y}) /\ <<x>> \in Seq({x, y}) /\ <<y>> \in Seq({x, y})
  OBVIOUS
<1>1. <<>> \o <<>> = <<>> /\ <<x>> \o <<>> = <<x>> /\ <<>> \o <<y>> = <<y>>
  BY <1>0, ConcatEmptySeq
<1>2. \A z : Announced(<<z>>, z)
  BY DEF Announced
<1>3. Announced(<<x>> \o <<y>>, y)
  <2> DEFINE a == <<x>> \o <<y>>
             u == <<x>>
             v == <<y>>
  <2>1. Len(u) = 1 /\ Len(v) = 1 /\ u[1] = x /\ v[1] = y
    OBVIOUS
  <2>2. /\ a \in Seq({x, y}) /\ Len(a) = 2
        /\ \A i \in 1 .. 2 : a[i] = IF i <= 1 THEN u[i] ELSE v[i - 1]
    <3> HIDE DEF u, v
    <3>1. /\ u \o v \in Seq({x, y}) /\ Len(u \o v) = Len(u) + Len(v)
          /\ \A i \in 1 .. Len(u) + Len(v) : (u \o v)[i] = IF i <= Len(u) THEN u[i] ELSE v[i - Len(u)]
      BY <1>0, ConcatProperties DEF u, v
    <3>2. Len(u) + Len(v) = 2 /\ Len(u) = 1
      BY <2>1
    <3> QED BY <3>1, <3>2 DEF u, v
  <2> HIDE DEF a, u, v
  <2>3. a[1] = x /\ a[2] = y /\ DOMAIN a = 1 .. 2 /\ a # <<>>
    BY <2>1, <2>2
  <2>4. \A i \in 1 .. 2 : i = 1 \/ i = 2
    OBVIOUS
  <2> QED BY <2>2, <2>3, <2>4 DEF Announced, a, u, v
<1> QED BY <1>1, <1>2, <1>3

LEMMA FrameEffect ==
  ASSUME TypeOK, KnowInv, ~MayOvertake, NEW c \in Clients,
         NEW p \in BOOLEAN, NEW newIt \in BOOLEAN, Frame(c, p, newIt)
  PROVE  /\ \A d \in Clients \ {c} : Same(d)
         /\ mgr'[c].base = mgr[c].base /\ mgr'[c].cur = mgr[c].cur /\ mgr'[c].next = mgr[c].next
         /\ mgr'[c].wasSet = mgr[c].wasSet
         /\ ~mgr'[c].paused /\ ~mgr'[c].wasPaused /\ ~mgr'[c].sceneTrans /\ mgr[c].base # NoMode
         /\ mgr[c].sceneTrans => mgr'[c].on
         /\ UNCHANGED <<loading, theirs, itSeen, read, inbox>> /\ ~loading[c] /\ read[c] # Lost
         /\ made[c].game = <<>> /\ made[c].read = <<>> /\ made'[c].read = <<>>
         /\ \/ /\ made'[c].game = <<>> /\ mgr'[c].on = mgr[c].on /\ it'[c] = it[c]
               /\ ~mgr[c].sceneTrans
            \/ Announced(made'[c].game, Now(c)')
<1>0. /\ mgr[c] \in Managers /\ it[c] \in BOOLEAN /\ ManagerInv(c)
      /\ made[c] \in [game : Seq(States), read : Seq(States)]
  BY DEF TypeOK, KnowInv
<1> DEFINE m == mgr[c]
           n == PauseOrUnpause(BeginOrEnd([m EXCEPT !.paused = FALSE]))
           tagged == newIt # it[c]
           a1 == IF Begins(m) \/ Ends(m) THEN Announcement(c, n, it[c]) ELSE <<>>
           a2 == IF tagged THEN Announcement(c, n, newIt) ELSE <<>>
<1>1. ~p
  <2> SUFFICES ASSUME p PROVE FALSE
    OBVIOUS
  <2>1. p # mgr[c].paused
    BY <1>0 DEF ManagerInv
  <2>2. Input({"pause"} \cup (IF tagged THEN {"role"} ELSE {}))
    BY <2>1 DEF Frame
  <2> QED BY <2>2, InputPause DEF TypeOK, KnowInv
<1>2. m.sceneTrans => m.base # NoMode
  BY <1>0 DEF ManagerInv
<1>3. /\ n = BeginOrEnd([m EXCEPT !.paused = FALSE]) /\ n \in Managers
      /\ ~n.paused /\ ~n.wasPaused /\ ~n.sceneTrans
      /\ n.base = m.base /\ n.cur = m.cur /\ n.next = m.next /\ n.wasSet = m.wasSet
      /\ ~Begins(m) /\ ~Ends(m) => n.on = m.on /\ ~m.sceneTrans
      /\ m.sceneTrans => n.on
      /\ [m EXCEPT !.paused = FALSE] = m
  BY <1>0, <1>2, UpdateSimple DEF ManagerInv
<1>4. p = FALSE
  BY <1>1
<1>5. /\ mgr' = [mgr EXCEPT ![c] = n] /\ it' = [it EXCEPT ![c] = newIt]
      /\ made' = [made EXCEPT ![c].game = a1 \o a2]
      /\ UNCHANGED <<loading, theirs, itSeen, inbox, read>>
      /\ Ready(c) /\ MayBuild(c, "read") /\ mgr[c].base # NoMode /\ (tagged => n.on)
  <2> HIDE DEF n, m
  <2>1. /\ BeginOrEnd(m) = n /\ PauseOrUnpause(n) = n /\ [m EXCEPT !.paused = FALSE] = m
    BY <1>3 DEF n
  <2>2. [mgr[c] EXCEPT !.paused = p] = m
    BY <1>4, <2>1 DEF m
  <2> QED BY <2>1, <2>2 DEF Frame
<1>6. /\ ~loading[c] /\ made[c].game = <<>> /\ read[c] # Lost /\ made[c].read = <<>>
  BY <1>5 DEF Ready, MayBuild
<1> HIDE DEF n
<1>7. /\ mgr'[c] = n /\ it'[c] = newIt /\ made'[c].game = a1 \o a2 /\ made'[c].read = <<>>
      /\ \A d \in Clients \ {c} : mgr'[d] = mgr[d] /\ it'[d] = it[d] /\ made'[d] = made[d]
  BY <1>0, <1>5, <1>6 DEF TypeOK
<1>8. \A d \in Clients \ {c} : Same(d)
  BY <1>5, <1>7 DEF Same
<1>9. \/ made'[c].game = <<>> /\ n.on = m.on /\ newIt = it[c] /\ ~m.sceneTrans
      \/ Announced(made'[c].game, Now(c)')
  <2> DEFINE x(b) == [kind |-> "state", who |-> c, mode |-> IF n.on THEN n.base ELSE NoMode, it |-> n.on /\ b]
  <2>1. \A b \in BOOLEAN : Announcement(c, n, b) = <<x(b)>>
    BY <1>3, <1>5, AnnouncementType
  <2>2. Now(c)' = x(newIt)
    BY <1>7 DEF Now
  <2>3. x(it[c]).who = x(newIt).who /\ x(it[c]).mode = x(newIt).mode
    OBVIOUS
  <2>4. ~tagged => x(it[c]) = x(newIt)
    OBVIOUS
  <2> HIDE DEF x
  <2>5. /\ a1 = IF Begins(m) \/ Ends(m) THEN <<x(it[c])>> ELSE <<>>
        /\ a2 = IF tagged THEN <<x(newIt)>> ELSE <<>>
    BY <1>0, <2>1
  <2>6. CASE Begins(m) \/ Ends(m)
    <3>1. CASE tagged
      <4>1. Announced(<<x(it[c])>> \o <<x(newIt)>>, x(newIt))
        BY <2>3, TwoPackets
      <4> QED BY <1>7, <2>2, <2>5, <2>6, <3>1, <4>1
    <3>2. CASE ~tagged
      <4>1. Announced(<<x(it[c])>> \o <<>>, x(it[c]))
        BY TwoPackets
      <4> QED BY <1>7, <2>2, <2>4, <2>5, <2>6, <3>2, <4>1
    <3> QED BY <3>1, <3>2
  <2>7. CASE ~(Begins(m) \/ Ends(m))
    BY <1>3, <1>7, <2>2, <2>3, <2>5, <2>7, TwoPackets
  <2> QED BY <2>6, <2>7
<1> QED BY <1>3, <1>5, <1>6, <1>7, <1>8, <1>9

-----------------------------------------------------------------------------
(* Every step keeps the invariant.                                         *)

LEMMA Assemble ==
  ASSUME TypeOK, KnowInv, NEW c \in Clients, \A d \in Clients \ {c} : Same(d),
         left'["pause"] = 0, ManagerInv(c)', MadeInv(c)',
         \A d \in Clients \ {c} : PairInv(c, d)' /\ PairInv(d, c)'
  PROVE  KnowInv'
<1>1. ASSUME NEW s \in Clients PROVE ManagerInv(s)' /\ MadeInv(s)'
  <2>1. CASE s = c
    BY <2>1
  <2>2. CASE s # c
    <3>1. Same(s) /\ View(s) /\ ManagerInv(s) /\ MadeInv(s)
      BY <2>2, SameView DEF KnowInv
    <3>2. ManagerInv(s)'
      BY <3>1 DEF Same, ManagerInv
    <3>3. MadeInv(s)'
      BY <3>1 DEF Same, View, MadeInv
    <3> QED BY <3>2, <3>3
  <2> QED BY <2>1, <2>2
<1>2. ASSUME NEW o \in Clients, NEW s \in Clients, o # s PROVE PairInv(o, s)'
  <2>1. CASE o = c \/ s = c
    BY <1>2, <2>1
  <2>2. CASE o # c /\ s # c
    BY <1>2, <2>2, SameView, PairKeep DEF KnowInv
  <2> QED BY <2>1, <2>2
<1> QED BY <1>1, <1>2 DEF KnowInv

LEMMA KnowFrame ==
  ASSUME TypeOK, KnowInv, ~MayOvertake, NEW c \in Clients,
         NEW p \in BOOLEAN, NEW newIt \in BOOLEAN, Frame(c, p, newIt)
  PROVE  KnowInv'
<1>0. ManagerInv(c) /\ MadeInv(c) /\ \A d \in Clients \ {c} : PairInv(c, d) /\ PairInv(d, c)
  BY DEF KnowInv
<1>1. /\ \A d \in Clients \ {c} : Same(d) /\ View(d)
      /\ mgr'[c].base = mgr[c].base /\ mgr'[c].cur = mgr[c].cur /\ mgr'[c].next = mgr[c].next
      /\ mgr'[c].wasSet = mgr[c].wasSet
      /\ ~mgr'[c].paused /\ ~mgr'[c].wasPaused /\ ~mgr'[c].sceneTrans /\ mgr[c].base # NoMode
      /\ mgr[c].sceneTrans => mgr'[c].on
      /\ UNCHANGED <<loading, theirs, itSeen, read, inbox>> /\ ~loading[c] /\ read[c] # Lost
      /\ made[c].game = <<>> /\ made[c].read = <<>> /\ made'[c].read = <<>>
      /\ \/ /\ made'[c].game = <<>> /\ mgr'[c].on = mgr[c].on /\ it'[c] = it[c]
            /\ ~mgr[c].sceneTrans
         \/ Announced(made'[c].game, Now(c)')
  BY FrameEffect, SameView
<1>2. left'["pause"] = 0
  BY InputPause DEF Frame, TypeOK, KnowInv
<1>3. ManagerInv(c)'
  BY <1>0, <1>1 DEF ManagerInv
<1>4. In(c)' = In(c) /\ Stale(c)' = Stale(c) /\ Commanded(c)' = Commanded(c) /\ Played(c)' = Played(c)
  <2>1. In(c)' = In(c) /\ Stale(c)' = Stale(c) /\ Played(c)' = Played(c)
    BY <1>1 DEF In, Stale, Played
  <2> QED BY <1>1, <2>1 DEF Commanded
<1>5. Out(c) = <<>> /\ Out(c)' = made'[c].game
  BY <1>1 DEF Out
<1>6. Now(c)'.who = c
  BY DEF Now
<1>7. MadeInv(c)'
  <2>1. \A i \in DOMAIN Out(c)' : Out(c)'[i].who = c /\ Out(c)'[i].mode = Out(c)'[1].mode
    <3>1. CASE made'[c].game = <<>>
      BY <1>5, <3>1
    <3>2. CASE Announced(made'[c].game, Now(c)')
      BY <1>5, <1>6, <3>2 DEF Announced
    <3> QED BY <1>1, <3>1, <3>2
  <2> QED BY <1>0, <1>1, <1>4, <2>1 DEF MadeInv
<1>8. CASE Announced(made'[c].game, Now(c)')
  <2>1. ASSUME NEW d \in Clients \ {c} PROVE PairInv(d, c)'
    BY <1>3, <1>5, <1>8, PairAnnounce
  <2>2. ASSUME NEW d \in Clients \ {c} PROVE PairInv(c, d)'
    <3>1. RangeInv(c, d)'
      BY <1>0, <1>1, <1>4, RangeKeep DEF View, Same, PairInv
    <3>2. LastInv(c, d)'
      BY <1>0, <1>1, <1>4, LastKeep DEF View, Same, PairInv
    <3>3. Mates(c, d)' => Mates(c, d)
      BY <1>1 DEF Mates, View, Same
    <3>4. CASE ~mgr[c].sceneTrans
      <4>1. InfoInv(c, d)'
        BY <1>0, <1>1, <1>4, <1>5, <3>3, <3>4, InfoKeep DEF View, Same, PairInv, Extends
      <4> QED BY <3>1, <3>2, <4>1 DEF PairInv
    <3>5. CASE mgr[c].sceneTrans
      <4>1. Out(c)' # <<>> /\ Out(c)'[1].mode = mgr[c].base
        BY <1>1, <1>5, <1>8, <3>5 DEF Announced, Now
      <4>2. In(d)' = In(d) /\ theirs'[d][c] = theirs[d][c] /\ Stale(d)' = Stale(d) /\ Out(d)' = Out(d)
        BY <1>1 DEF View, Same
      <4>3. Ask(c, d) => Ask(c, d)'
        BY <1>1, <1>5, <4>1, <4>2 DEF Ask
      <4>4. Heard(c, d) => Heard(c, d)'
        BY <1>4, <4>2 DEF Heard
      <4>5. Right(c, d) => Right(c, d)'
        BY <1>1, <1>4 DEF Right, Same
      <4>6. InfoInv(c, d)'
        BY <1>0, <3>3, <4>3, <4>4, <4>5 DEF InfoInv, PairInv
      <4> QED BY <3>1, <3>2, <4>6 DEF PairInv
    <3> QED BY <3>4, <3>5
  <2> QED BY <1>1, <1>2, <1>3, <1>7, <2>1, <2>2, Assemble
<1>9. CASE made'[c].game = <<>> /\ mgr'[c].on = mgr[c].on /\ it'[c] = it[c] /\ ~mgr[c].sceneTrans
  <2>1. Now(c)' = Now(c) /\ Due(c)' = Due(c) /\ Out(c)' = Out(c)
    BY <1>1, <1>4, <1>5, <1>9 DEF Now, Due
  <2>2. ASSUME NEW o \in Clients, NEW s \in Clients, o # s, c \in {o, s} PROVE PairInv(o, s)'
    <3>0. /\ View(s) \/ s = c
          /\ View(o) \/ o = c
          /\ Same(s) \/ s = c
          /\ Same(o) \/ o = c
          /\ PairInv(o, s)
      BY <1>1, <2>2 DEF KnowInv
    <3>1. RangeInv(o, s)'
      <4>1. /\ ~mgr'[s].sceneTrans => ~mgr[s].sceneTrans
            /\ Played(s)' = Played(s) /\ Out(s)' = Out(s)
            /\ read'[o] = read[o] /\ theirs'[o][s] = theirs[o][s] /\ In(o)' = In(o)
        BY <1>1, <1>4, <1>9, <2>1, <3>0 DEF View, Same
      <4> QED BY <3>0, <4>1, RangeKeep DEF PairInv
    <3>2. LastInv(o, s)'
      BY <1>1, <1>4, <2>1, <3>0, LastKeep DEF View, Same, PairInv
    <3>3. Mates(o, s)' => Mates(o, s)
      BY <1>1, <1>9, <2>1, <3>0 DEF Mates, View, Same
    <3>4. InfoInv(o, s)'
      <4>1. /\ it'[s] = it[s] /\ mgr'[o].base = mgr[o].base
            /\ Stale(o)' = Stale(o) /\ Stale(s)' = Stale(s)
            /\ itSeen'[o][s] = itSeen[o][s] /\ theirs'[s][o] = theirs[s][o]
            /\ mgr[o].sceneTrans => mgr'[o].sceneTrans
            /\ Out(s)' = Out(s) /\ Out(o)' = Out(o)
            /\ In(o)' = In(o) /\ In(s)' = In(s)
        BY <1>1, <1>4, <1>9, <2>1, <3>0 DEF View, Same
      <4> QED BY <3>0, <3>3, <4>1, InfoKeep DEF PairInv, Extends
    <3> QED BY <3>1, <3>2, <3>4 DEF PairInv
  <2> QED BY <1>1, <1>2, <1>3, <1>7, <2>2, Assemble
<1> QED BY <1>1, <1>8, <1>9

\* Steps of the game thread that change the manager and announce nothing.
LEMMA ManagerStep ==
  ASSUME TypeOK, KnowInv, NEW c \in Clients, \A d \in Clients \ {c} : Same(d),
         UNCHANGED <<theirs, itSeen, inbox, read, made>>, left'["pause"] = 0, ManagerInv(c)',
         \/ mgr'[c].sceneTrans \/ mgr'[c].base = NoMode
         \/ /\ mgr'[c].base = mgr[c].base /\ mgr'[c].on = mgr[c].on /\ it'[c] = it[c]
            /\ mgr'[c].sceneTrans = mgr[c].sceneTrans,
         ~mgr'[c].sceneTrans => ~mgr[c].sceneTrans /\ Played(c)' = Played(c),
         \/ mgr'[c].base = NoMode
         \/ mgr'[c].base = mgr[c].base /\ (mgr[c].sceneTrans => mgr'[c].sceneTrans)
         \/ mgr'[c].sceneTrans /\ mgr'[c].base \notin Played(c) /\ ~mgr[c].sceneTrans
  PROVE  KnowInv'
<1>0. ManagerInv(c) /\ MadeInv(c) /\ \A d \in Clients \ {c} : PairInv(c, d) /\ PairInv(d, c)
  BY DEF KnowInv
<1>1. \A d \in Clients \ {c} : View(d)
  BY SameView
<1>2. In(c)' = In(c) /\ Out(c)' = Out(c) /\ Commanded(c)' = Commanded(c)
  <2>1. In(c)' = In(c) /\ Out(c)' = Out(c)
    BY DEF In, Out
  <2> QED BY <2>1 DEF Commanded
<1>3. MadeInv(c)'
  BY <1>0, <1>2 DEF MadeInv
<1>4. ~Due(c)' => /\ ~Due(c) /\ Now(c)' = Now(c) /\ it'[c] = it[c] /\ mgr'[c].on = mgr[c].on
                  /\ mgr'[c].base = mgr[c].base
  BY <1>2 DEF Due, Now
<1>5. ASSUME NEW d \in Clients \ {c} PROVE PairInv(d, c)'
  <2>1. RangeInv(d, c)'
    BY <1>0, <1>1, <1>2, RangeKeep DEF View, Same, PairInv
  <2>2. LastInv(d, c)'
    BY <1>0, <1>1, <1>2, <1>4, LastKeep DEF View, Same, PairInv
  <2>3. Mates(d, c)' => /\ Mates(d, c) /\ it'[c] = it[c] /\ mgr'[d].base = mgr[d].base
                        /\ Stale(d)' = Stale(d) /\ Stale(c)' = Stale(c)
                        /\ mgr[d].sceneTrans => mgr'[d].sceneTrans
    BY <1>1, <1>4 DEF Mates, View, Same, Stale
  <2>4. InfoInv(d, c)'
    BY <1>0, <1>1, <1>2, <2>3, InfoKeep DEF View, Same, PairInv, Extends
  <2> QED BY <2>1, <2>2, <2>4 DEF PairInv
<1>6. ASSUME NEW d \in Clients \ {c} PROVE PairInv(c, d)'
  <2>1. RangeInv(c, d)'
    BY <1>0, <1>1, <1>2, RangeKeep DEF View, Same, PairInv
  <2>2. LastInv(c, d)'
    BY <1>0, <1>1, <1>2, LastKeep DEF View, Same, PairInv
  <2>3. /\ In(d)' = In(d) /\ Out(d)' = Out(d) /\ Stale(d)' = Stale(d) /\ Due(d)' = Due(d)
        /\ mgr'[d] = mgr[d] /\ it'[d] = it[d] /\ theirs'[d] = theirs[d]
    BY <1>1 DEF View, Same
  <2>4. InfoInv(c, d)'
    <3>1. CASE mgr'[c].base = NoMode
      BY <2>3, <3>1 DEF InfoInv, Mates, Due
    <3>2. CASE mgr'[c].base = mgr[c].base /\ (mgr[c].sceneTrans => mgr'[c].sceneTrans)
      <4>1. Mates(c, d)' => Mates(c, d) /\ Stale(c)' = Stale(c)
        BY <2>3, <3>2 DEF Mates, Stale
      <4> QED BY <1>0, <1>2, <2>3, <3>2, <4>1, InfoKeep DEF PairInv, Extends
    <3>3. CASE mgr'[c].sceneTrans /\ mgr'[c].base \notin Played(c) /\ ~mgr[c].sceneTrans
      <4> SUFFICES ASSUME Mates(c, d)' PROVE Ask(c, d)'
        BY DEF InfoInv
      <4> DEFINE m == mgr'[c].base
                 D == Other(In(d), theirs[d][c], c, m, Stale(d), Len(In(d)) + 1)
      <4>1. read[d] # Lost /\ RangeInv(d, c)
        BY <1>0, <2>3 DEF PairInv, Mates, Due
      <4>2. m # NoMode
        BY <3>3 DEF Played
      <4>3. CASE Out(c) # <<>>
        <5>1. Out(c)[1].mode # m
          BY <3>3, <4>1, <4>3 DEF RangeInv
        <5> QED BY <1>2, <2>3, <3>3, <4>2, <4>3, <5>1 DEF Ask
      <4>4. CASE Out(c) = <<>>
        <5>1. EndsIn(In(d), theirs[d][c], c, Saying(Played(c)), Played(c))
          BY <3>3, <4>1, <4>4 DEF RangeInv
        <5>2. In(d) \in Seq(Packets) /\ (Stale(d) => In(d) # <<>>)
          BY InType
        <5>3. D
          <6>1. CASE Silent(In(d), c, 0) /\ theirs[d][c] \in Played(c)
            <7>1. Stale(d) => 1 \in DOMAIN In(d)
              BY <5>2, TailFacts
            <7>2. Stale(d) => In(d)[1].who # c
              BY <6>1, <7>1 DEF Silent
            <7> QED BY <3>3, <6>1, <7>2 DEF Other
          <6>2. ASSUME NEW j \in DOMAIN In(d), In(d)[j].who = c, In(d)[j] \in Saying(Played(c)) PROVE D
            <7>1. j < Len(In(d)) + 1
              BY <5>2
            <7>2. Says(In(d)[j]) # m
              BY <3>3, <6>2 DEF Saying
            <7> QED BY <6>2, <7>1, <7>2 DEF Other
          <6> QED BY <5>1, <6>1, <6>2 DEF EndsIn
        <5> QED BY <1>2, <2>3, <3>3, <4>2, <5>3 DEF Ask
      <4> QED BY <4>3, <4>4
    <3> QED BY <3>1, <3>2, <3>3
  <2> QED BY <2>1, <2>2, <2>4 DEF PairInv
<1> QED BY <1>3, <1>5, <1>6, Assemble

LEMMA KnowManager ==
  ASSUME TypeOK, KnowInv, ~MayHurry, NEW c \in Clients,
         ToggleActive(c) \/ DeleteMode(c) \/ InitScene(c) \/ \E mode \in Modes : SetMode(c, mode)
  PROVE  KnowInv'
<1>0. mgr[c] \in Managers /\ ManagerInv(c)
  BY DEF TypeOK, KnowInv
<1>1. left'["pause"] = 0 /\ UNCHANGED <<theirs, itSeen, inbox, read, made>>
  BY InputPause DEF ToggleActive, DeleteMode, InitScene, SetMode, TypeOK, KnowInv
<1>2. \A d \in Clients \ {c} : Same(d)
  BY DEF ToggleActive, DeleteMode, InitScene, SetMode, Same, TypeOK
<1>3. CASE ToggleActive(c)
  <2>1. mgr'[c] = [mgr[c] EXCEPT !.active = ~@] /\ loading' = loading /\ it' = it
    BY <1>3 DEF ToggleActive, TypeOK
  <2>2. ManagerInv(c)' /\ Played(c)' = Played(c)
    BY <1>0, <1>1, <2>1 DEF ManagerInv, Managers, Played
  <2>3. mgr'[c].base = mgr[c].base /\ mgr'[c].on = mgr[c].on /\ mgr'[c].sceneTrans = mgr[c].sceneTrans
    BY <1>0, <2>1 DEF Managers
  <2> QED BY <1>1, <1>2, <2>1, <2>2, <2>3, ManagerStep
<1>4. CASE DeleteMode(c)
  <2>1. mgr'[c] = [mgr[c] EXCEPT !.base = NoMode, !.on = FALSE] /\ loading'[c] /\ it' = it
    BY <1>4 DEF DeleteMode, TypeOK
  <2>2. ~mgr[c].sceneTrans /\ mgr[c].base # NoMode /\ mgr[c].cur # mgr[c].next
    BY <1>4 DEF DeleteMode, Begun
  <2>3. ManagerInv(c)' /\ Played(c)' = Played(c)
    BY <1>0, <1>1, <2>1, <2>2 DEF ManagerInv, Managers, Played
  <2>4. mgr'[c].base = NoMode
    BY <1>0, <2>1 DEF Managers
  <2> QED BY <1>1, <1>2, <2>2, <2>3, <2>4, ManagerStep
<1>5. ASSUME NEW mode \in Modes, SetMode(c, mode) PROVE KnowInv'
  <2>1. /\ mgr'[c] = [mgr[c] EXCEPT !.next = mode, !.cur = IF mgr[c].wasSet THEN mode ELSE @]
        /\ loading' = loading /\ it' = it /\ ~loading[c]
    BY <1>5 DEF SetMode, TypeOK, Managers, Ready
  <2>2. ManagerInv(c)' /\ Played(c)' = Played(c)
    BY <1>0, <1>1, <2>1 DEF ManagerInv, Managers, Played
  <2>3. mgr'[c].base = mgr[c].base /\ mgr'[c].on = mgr[c].on /\ mgr'[c].sceneTrans = mgr[c].sceneTrans
    BY <1>0, <2>1 DEF Managers
  <2> QED BY <1>1, <1>2, <2>1, <2>2, <2>3, ManagerStep
<1>6. CASE InitScene(c)
  <2>1. ~loading'[c] /\ ~mgr[c].sceneTrans
    BY <1>0, <1>6 DEF InitScene, Begun, ManagerInv, TypeOK
  <2>2. CASE mgr[c].cur # mgr[c].next \/ mgr[c].wasSet
    <3>1. mgr'[c] = Fresh(mgr[c])
      BY <1>6, <2>2 DEF InitScene, TypeOK
    <3>2. /\ mgr'[c].base = mgr[c].next /\ mgr'[c].sceneTrans /\ mgr[c].next \in Modes
          /\ ManagerInv(c)'
      BY <1>0, <2>1, <3>1 DEF Fresh, Managers, ManagerInv
    <3>3. mgr'[c].base \notin Played(c)
      BY <2>2, <3>2 DEF Played
    <3> QED BY <1>1, <1>2, <2>1, <3>2, <3>3, ManagerStep
  <2>3. CASE ~(mgr[c].cur # mgr[c].next \/ mgr[c].wasSet)
    <3>1. mgr'[c] = [mgr[c] EXCEPT !.sceneTrans = @ \/ mgr[c].on] /\ it' = it
      BY <1>6, <2>3 DEF InitScene, TypeOK
    <3>2. mgr[c].base # NoMode
      BY <1>0, <2>3 DEF ManagerInv
    <3>3. /\ mgr'[c].base = mgr[c].base /\ mgr'[c].on = mgr[c].on
          /\ mgr'[c].sceneTrans = (mgr[c].sceneTrans \/ mgr[c].on)
          /\ Played(c)' = Played(c) /\ ManagerInv(c)'
      BY <1>0, <2>1, <3>1, <3>2 DEF Managers, Played, ManagerInv
    <3>4. mgr[c].sceneTrans \in BOOLEAN /\ mgr[c].on \in BOOLEAN
      BY <1>0 DEF Managers
    <3> QED BY <1>1, <1>2, <2>1, <3>1, <3>3, <3>4, ManagerStep
  <2> QED BY <2>2, <2>3
<1> QED BY <1>3, <1>4, <1>5, <1>6

LEMMA KnowLookUp ==
  ASSUME TypeOK, KnowInv, NEW c \in Clients, LookUp(c)
  PROVE  KnowInv'
<1>0. ManagerInv(c) /\ MadeInv(c) /\ \A d \in Clients \ {c} : PairInv(c, d) /\ PairInv(d, c)
  BY DEF KnowInv
<1>1. left'["pause"] = 0 /\ UNCHANGED <<mgr, it, loading, theirs, itSeen, made>>
  BY InputPause DEF LookUp, TypeOK, KnowInv
<1>2. \A d \in Clients \ {c} : Same(d) /\ View(d)
  BY SameView DEF LookUp, Same, TypeOK
<1>3. /\ read[c] = Idle /\ read[c] # Lost /\ read[c].at # "process" /\ inbox[c] # <<>> /\ made[c].read = <<>>
      /\ read'[c] = [at |-> "process", packet |-> Head(inbox[c]), base |-> mgr[c].base]
      /\ read'[c] # Lost /\ read'[c].at = "process" /\ read'[c].base = mgr[c].base
      /\ inbox'[c] = Tail(inbox[c])
  BY DEF LookUp, TypeOK, Idle, Lost
<1>4. In(c)' = In(c)
  <2>1. inbox[c] \in Seq(Packets) /\ inbox[c] # <<>>
    BY <1>3, InType
  <2>2. <<Head(inbox[c])>> \o Tail(inbox[c]) = inbox[c]
    BY <2>1
  <2>3. In(c) = inbox[c] /\ In(c)' = <<read'[c].packet>> \o inbox'[c]
    BY <1>3 DEF In
  <2> QED BY <1>3, <2>2, <2>3
<1>5. Stale(c)' = Stale(c) /\ Out(c)' = Out(c) /\ Now(c)' = Now(c) /\ Played(c)' = Played(c)
  BY <1>1, <1>3 DEF Stale, Out, Now, Played
<1>6. Due(c)' = Due(c)
  BY <1>1, <1>3, <1>4 DEF Due, Commanded
<1>7. ManagerInv(c)' /\ MadeInv(c)'
  <2>1. ManagerInv(c)'
    BY <1>0, <1>1 DEF ManagerInv
  <2>2. MadeInv(c)'
    BY <1>0, <1>1, <1>3, <1>4, <1>5 DEF MadeInv
  <2> QED BY <2>1, <2>2
<1>8. ASSUME NEW o \in Clients, NEW s \in Clients, o # s, c \in {o, s} PROVE PairInv(o, s)'
  <2>1. /\ In(o)' = In(o) /\ In(s)' = In(s) /\ Out(o)' = Out(o) /\ Out(s)' = Out(s)
        /\ Stale(o)' = Stale(o) /\ Stale(s)' = Stale(s)
        /\ Now(s)' = Now(s) /\ Played(s)' = Played(s) /\ Due(s)' = Due(s)
        /\ read'[o] # Lost => read[o] # Lost
        /\ mgr' = mgr /\ theirs' = theirs /\ itSeen' = itSeen /\ it' = it
    <3>1. \A d \in {o, s} : d = c \/ (d \in Clients \ {c} /\ View(d) /\ Same(d))
      BY <1>2, <1>8
    <3>2. \A d \in {o, s} : /\ In(d)' = In(d) /\ Out(d)' = Out(d) /\ Stale(d)' = Stale(d)
                            /\ Now(d)' = Now(d) /\ Played(d)' = Played(d) /\ Due(d)' = Due(d)
                            /\ read'[d] # Lost => read[d] # Lost
      <4> SUFFICES ASSUME NEW d \in {o, s}
                   PROVE  /\ In(d)' = In(d) /\ Out(d)' = Out(d) /\ Stale(d)' = Stale(d)
                          /\ Now(d)' = Now(d) /\ Played(d)' = Played(d) /\ Due(d)' = Due(d)
                          /\ read'[d] # Lost => read[d] # Lost
        OBVIOUS
      <4> QED BY <1>3, <1>4, <1>5, <1>6, <3>1 DEF View
    <3> QED BY <1>1, <3>2
  <2>2. PairInv(o, s)
    BY <1>8 DEF KnowInv
  <2>3. RangeInv(o, s)'
    BY <2>1, <2>2, RangeKeep DEF PairInv
  <2>4. LastInv(o, s)'
    BY <2>1, <2>2, LastKeep DEF PairInv
  <2>5. Mates(o, s)' => Mates(o, s)
    BY <2>1 DEF Mates
  <2>6. InfoInv(o, s)'
    BY <2>1, <2>2, <2>5, InfoKeep DEF PairInv, Extends
  <2> QED BY <2>3, <2>4, <2>6 DEF PairInv
<1> QED BY <1>1, <1>2, <1>7, <1>8, Assemble

\* A client builds a packet about itself on its read thread.
LEMMA AnnouncedNow ==
  ASSUME TypeOK, NEW c \in Clients, NEW isIt \in BOOLEAN, mgr[c].base # NoMode,
         made[c].game = <<>>, made' = [made EXCEPT ![c].read = Announcement(c, mgr[c], isIt)],
         mgr'[c] = mgr[c], it'[c] = isIt
  PROVE  Announced(Out(c)', Now(c)') /\ made'[c].game = <<>>
<1> DEFINE x == [kind |-> "state", who |-> c, mode |-> IF mgr[c].on THEN mgr[c].base ELSE NoMode,
                 it |-> mgr[c].on /\ isIt]
<1>1. Announcement(c, mgr[c], isIt) = <<x>>
  BY AnnouncementType, InType
<1>2. Now(c)' = x
  BY DEF Now
<1> HIDE DEF x
<1>3. made'[c].read = <<x>> /\ made'[c].game = <<>>
  BY <1>1 DEF TypeOK
<1>4. Announced(<<x>>, x)
  BY TwoPackets
<1> QED BY <1>2, <1>3, <1>4 DEF Out

LEMMA KnowReannounce ==
  ASSUME TypeOK, KnowInv, ~MayOvertake, NEW c \in Clients, Reannounce(c)
  PROVE  KnowInv'
<1>0. ManagerInv(c) /\ MadeInv(c) /\ \A d \in Clients \ {c} : PairInv(c, d) /\ PairInv(d, c)
  BY DEF KnowInv
<1>1. left'["pause"] = 0 /\ UNCHANGED <<mgr, it, loading, theirs, itSeen, inbox, read>>
  BY InputPause DEF Reannounce, TypeOK, KnowInv
<1>2. /\ read[c] = Idle /\ read[c].at # "process" /\ made[c].read = <<>> /\ made[c].game = <<>>
      /\ made' = [made EXCEPT ![c].read = Announcement(c, mgr[c], it[c])]
  BY DEF Reannounce, Idle, MayBuild
<1>3. \A d \in Clients \ {c} : Same(d) /\ View(d)
  BY <1>1, <1>2, SameView DEF Same, TypeOK
<1>4. mgr[c] \in Managers /\ it[c] \in BOOLEAN
  BY DEF TypeOK
<1>5. In(c)' = In(c) /\ Stale(c)' = Stale(c) /\ Due(c)' = Due(c) /\ Out(c) = <<>>
  <2>1. In(c)' = In(c) /\ Stale(c)' = Stale(c) /\ Out(c) = <<>>
    BY <1>1, <1>2 DEF In, Stale, Out
  <2>2. Due(c)' = Due(c)
    BY <1>1, <2>1 DEF Due, Commanded
  <2> QED BY <2>1, <2>2
<1>6. ManagerInv(c)'
  BY <1>0, <1>1 DEF ManagerInv
<1>7. CASE mgr[c].base = NoMode
  <2>1. Announcement(c, mgr[c], it[c]) = <<>>
    BY <1>4, <1>7, AnnouncementType
  <2>2. made' = made
    BY <1>2, <2>1 DEF TypeOK
  <2>3. \A d \in Clients : Same(d) /\ View(d)
    BY <1>1, <2>2, SameView DEF Same
  <2>4. MadeInv(c)'
    BY <1>0, <1>1, <2>2, <2>3 DEF MadeInv, View
  <2> QED BY <1>0, <1>1, <1>3, <1>6, <2>3, <2>4, PairKeep, Assemble
<1>8. CASE mgr[c].base # NoMode
  <2>1. Announced(Out(c)', Now(c)') /\ made'[c].game = <<>>
    BY <1>1, <1>2, <1>4, <1>8, AnnouncedNow
  <2>2. MadeInv(c)'
    <3>1. Now(c)'.who = c
      BY DEF Now
    <3> QED BY <1>0, <1>1, <1>2, <1>5, <2>1, <3>1 DEF MadeInv, Announced
  <2>3. ASSUME NEW d \in Clients \ {c} PROVE PairInv(d, c)'
    BY <1>6, <2>1, PairAnnounce
  <2>4. ASSUME NEW d \in Clients \ {c} PROVE PairInv(c, d)'
    <3>1. RangeInv(c, d)'
      BY <1>0, <1>1, <1>3, <1>5, RangeKeep DEF View, PairInv
    <3>2. LastInv(c, d)'
      BY <1>0, <1>1, <1>3, <1>5, LastKeep DEF View, PairInv
    <3>3. Mates(c, d)' => Mates(c, d)
      BY <1>1, <1>3 DEF Mates, View
    <3>4. InfoInv(c, d)'
      BY <1>0, <1>1, <1>3, <1>5, <3>3, InfoKeep DEF View, PairInv, Extends
    <3> QED BY <3>1, <3>2, <3>4 DEF PairInv
  <2> QED BY <1>1, <1>3, <1>6, <2>2, <2>3, <2>4, Assemble
<1> QED BY <1>7, <1>8

\* A packet comes to a client, and nothing else of it changes.
LEMMA Arrives ==
  ASSUME TypeOK, NEW d \in Clients, NEW p \in Packets,
         mgr'[d] = mgr[d], read'[d] = read[d], inbox'[d] = Append(inbox[d], p)
  PROVE  /\ In(d)' = Append(In(d), p)
         /\ Stale(d)' = Stale(d)
         /\ p.who # d => Due(d)' = Due(d)
         /\ p.who = d => Due(d)'
         /\ (\A k \in DOMAIN In(d) : In(d)[k].who = d => In(d)[k].kind = "tag") /\ (p.who = d => p.kind = "tag")
              => \A k \in DOMAIN In(d)' : In(d)'[k].who = d => In(d)'[k].kind = "tag"
<1>0. In(d) \in Seq(Packets) /\ inbox[d] \in Seq(Packets)
      /\ (read[d].at = "process" => In(d) # <<>> /\ read[d].packet \in Packets)
  BY InType
<1>1. In(d)' = Append(In(d), p)
  <2>1. ASSUME NEW x \in Packets, NEW q \in Seq(Packets) PROVE <<x>> \o Append(q, p) = Append(<<x>> \o q, p)
    <3>1. <<x>> \in Seq(Packets) /\ <<p>> \in Seq(Packets)
      OBVIOUS
    <3>2. <<x>> \o q \in Seq(Packets)
      BY <3>1, ConcatProperties
    <3>3. Append(q, p) = q \o <<p>> /\ Append(<<x>> \o q, p) = (<<x>> \o q) \o <<p>>
      BY <3>2, AppendIsConcat
    <3> QED BY <3>1, <3>3, ConcatAssociative
  <2> QED BY <1>0, <2>1 DEF In
<1>2. Stale(d)' = Stale(d)
  BY DEF Stale
<1> DEFINE a == Append(In(d), p)
<1>3. /\ DOMAIN In(d) = 1 .. Len(In(d)) /\ Len(In(d)) \in Nat /\ Len(In(d)) + 1 \in DOMAIN a
      /\ \A i \in DOMAIN In(d) : i \in DOMAIN a /\ a[i] = In(d)[i]
      /\ \A i \in DOMAIN a : i \in DOMAIN In(d) \/ i = Len(In(d)) + 1
      /\ a[Len(In(d)) + 1] = p
  BY <1>0, AppendFacts
<1> HIDE DEF a
<1>4. In(d)' = a
  BY <1>1 DEF a
<1>5. p.who # d => Commanded(d)' = Commanded(d)
  BY <1>3, <1>4 DEF Commanded
<1>6. p.who = d => Commanded(d)'
  <2>1. read[d].at = "process" => Len(In(d)) + 1 # 1
    BY <1>0, <1>3, EmptySeq
  <2> QED BY <1>3, <1>4, <2>1 DEF Commanded
<1>7. (\A k \in DOMAIN In(d) : In(d)[k].who = d => In(d)[k].kind = "tag") /\ (p.who = d => p.kind = "tag")
         => \A k \in DOMAIN a : a[k].who = d => a[k].kind = "tag"
  BY <1>3
<1>8. (p.who # d => Due(d)' = Due(d)) /\ (p.who = d => Due(d)')
  BY <1>5, <1>6 DEF Due
<1> QED BY <1>1, <1>2, <1>4, <1>7, <1>8

LEMMA KnowServerTag ==
  ASSUME TypeOK, KnowInv, NEW c \in Clients, NEW isIt \in BOOLEAN, ServerTag(c, isIt)
  PROVE  KnowInv'
<1> DEFINE p == [kind |-> "tag", who |-> c, it |-> isIt]
<1>1. left'["pause"] = 0 /\ UNCHANGED <<mgr, it, loading, theirs, itSeen, read, made>>
  BY InputPause DEF ServerTag, TypeOK, KnowInv
<1>2. p \in Packets /\ p.who = c /\ p.kind = "tag" /\ Says(p) = FreezeTag
  BY DEF Packets, Tags, Says
<1>3. \A d \in Clients : inbox'[d] = Append(inbox[d], p)
  BY DEF ServerTag
<1> HIDE DEF p
<1>4. \A d \in Clients : /\ In(d)' = Append(In(d), p) /\ Stale(d)' = Stale(d)
                         /\ (c # d => Due(d)' = Due(d)) /\ (c = d => Due(d)')
                         /\ MadeInv(d)'
  <2> TAKE d \in Clients
  <2>1. MadeInv(d) /\ Out(d)' = Out(d)
    BY <1>1 DEF KnowInv, Out
  <2>2. /\ In(d)' = Append(In(d), p) /\ Stale(d)' = Stale(d)
        /\ (c # d => Due(d)' = Due(d)) /\ (c = d => Due(d)')
        /\ \A k \in DOMAIN In(d)' : In(d)'[k].who = d => In(d)'[k].kind = "tag"
    BY <1>1, <1>2, <1>3, <2>1, Arrives DEF MadeInv
  <2>3. MadeInv(d)'
    BY <1>1, <2>1, <2>2 DEF MadeInv
  <2> QED BY <2>2, <2>3
<1>5. \A d \in Clients : Out(d)' = Out(d) /\ Now(d)' = Now(d) /\ Played(d)' = Played(d) /\ ManagerInv(d)'
  <2> TAKE d \in Clients
  <2>1. ManagerInv(d)
    BY DEF KnowInv
  <2> QED BY <1>1, <2>1 DEF Out, Now, Played, ManagerInv
<1>6. ASSUME NEW o \in Clients, NEW s \in Clients, o # s PROVE PairInv(o, s)'
  <2>1. PairInv(o, s)
    BY <1>6 DEF KnowInv
  <2>2. RangeInv(o, s)'
    <3>1. Says(p) \in Played(s)
      BY <1>2 DEF Played
    <3> QED BY <1>1, <1>2, <1>4, <1>5, <2>1, <3>1, RangeKeep DEF PairInv
  <2>3. LastInv(o, s)'
    <3>1. ~Due(s)' => ~Due(s) /\ c # s
      BY <1>4
    <3> QED BY <1>1, <1>2, <1>4, <1>5, <2>1, <3>1, LastKeep DEF PairInv
  <2>4. Mates(o, s)' => Mates(o, s)
    BY <1>1, <1>4 DEF Mates
  <2>5. InfoInv(o, s)'
    BY <1>1, <1>2, <1>4, <1>5, <2>1, <2>4, InfoKeep DEF PairInv, Extends
  <2> QED BY <2>2, <2>3, <2>5 DEF PairInv
<1> QED BY <1>1, <1>4, <1>5, <1>6 DEF KnowInv

LEMMA DeliverEffect ==
  ASSUME TypeOK, NEW c \in Clients, MadeInv(c), NEW thread \in {"game", "read"}, Deliver(c, thread)
  PROVE  /\ Out(c) \in Seq(Packets) /\ Out(c) # <<>> /\ Out(c)' = Tail(Out(c))
         /\ Out(c)[1] \in Packets /\ Out(c)[1].who = c /\ Out(c)[1].kind = "state"
         /\ \A d \in Clients \ {c} : inbox'[d] = Append(inbox[d], Out(c)[1]) /\ made'[d] = made[d]
         /\ inbox'[c] = inbox[c]
         /\ made'[c].game = <<>> \/ made'[c].read = <<>>
         /\ read[c].at = "process" => made'[c].read = <<>>
<1>1. /\ made[c] \in [game : Seq(States), read : Seq(States)] /\ made[c][thread] # <<>>
      /\ made'[c] = [made[c] EXCEPT ![thread] = Tail(made[c][thread])]
      /\ \A d \in Clients \ {c} : inbox'[d] = Append(inbox[d], Head(made[c][thread])) /\ made'[d] = made[d]
      /\ inbox'[c] = inbox[c]
  BY DEF Deliver, TypeOK
<1>2. made[c].game = <<>> \/ made[c].read = <<>>
  BY DEF MadeInv
<1>3. Out(c) = made[c][thread]
  BY <1>1, <1>2 DEF Out
<1>4. /\ thread = "game" => made'[c].game = Tail(Out(c)) /\ made'[c].read = made[c].read /\ made[c].read = <<>>
      /\ thread = "read" => made'[c].read = Tail(Out(c)) /\ made'[c].game = made[c].game /\ made[c].game = <<>>
                            /\ read[c].at # "process"
  BY <1>1, <1>2, <1>3 DEF MadeInv
<1>5. Out(c)' = Tail(Out(c))
  BY <1>4 DEF Out
<1>6. Out(c) \in Seq(States) /\ Out(c) \in Seq(Packets) /\ Out(c) # <<>> /\ Head(Out(c)) = Out(c)[1]
  BY <1>1, <1>3 DEF Packets
<1>7. 1 \in DOMAIN Out(c) /\ Out(c)[1] \in States
  BY <1>6
<1> QED BY <1>1, <1>3, <1>4, <1>5, <1>6, <1>7 DEF MadeInv, Packets, States

LEMMA KnowDeliver ==
  ASSUME TypeOK, KnowInv, NEW c \in Clients, NEW thread \in {"game", "read"}, Deliver(c, thread)
  PROVE  KnowInv'
<1> DEFINE p == Out(c)[1]
           b == Tail(Out(c))
<1>1. left'["pause"] = 0 /\ UNCHANGED <<mgr, it, loading, theirs, itSeen, read>>
  BY InputPause DEF Deliver, TypeOK, KnowInv
<1>2. /\ Out(c) \in Seq(Packets) /\ Out(c) # <<>> /\ Out(c)' = b
      /\ p \in Packets /\ p.who = c /\ p.kind = "state"
      /\ \A d \in Clients \ {c} : inbox'[d] = Append(inbox[d], p) /\ made'[d] = made[d]
      /\ inbox'[c] = inbox[c]
      /\ made'[c].game = <<>> \/ made'[c].read = <<>>
      /\ read[c].at = "process" => made'[c].read = <<>>
  BY DeliverEffect DEF KnowInv
<1>3. /\ DOMAIN Out(c) = 1 .. Len(Out(c)) /\ Len(Out(c)) \in Nat \ {0} /\ DOMAIN b = 1 .. Len(Out(c)) - 1
      /\ Len(b) = Len(Out(c)) - 1
      /\ \A i \in DOMAIN b : i + 1 \in DOMAIN Out(c) /\ b[i] = Out(c)[i + 1]
      /\ b \in Seq(Packets)
  BY <1>2, TailFacts
<1>4. b # <<>> => /\ 1 \in DOMAIN b /\ b[1].mode = p.mode
                  /\ b[Len(b)] = Out(c)[Len(Out(c))]
  <2> SUFFICES ASSUME b # <<>> PROVE 1 \in DOMAIN b /\ b[1].mode = p.mode /\ b[Len(b)] = Out(c)[Len(Out(c))]
    OBVIOUS
  <2> HIDE DEF b, p
  <2>1. Len(b) # 0
    BY <1>3, EmptySeq
  <2>2. 1 \in DOMAIN b /\ Len(b) \in DOMAIN b /\ Len(b) + 1 = Len(Out(c))
    BY <1>3, <2>1
  <2>3. b[1] = Out(c)[1 + 1] /\ 1 + 1 \in DOMAIN Out(c) /\ b[Len(b)] = Out(c)[Len(b) + 1]
    BY <1>3, <2>2
  <2>4. b[1].mode = p.mode
    BY <2>3 DEF KnowInv, MadeInv, p
  <2> QED BY <2>2, <2>3, <2>4
<1>5. b = <<>> => Len(Out(c)) = 1
  <2> HIDE DEF b
  <2>1. b = <<>> => Len(b) = 0
    BY <1>3, EmptySeq
  <2>2. Len(b) = Len(Out(c)) - 1 /\ Len(Out(c)) \in Int
    BY <1>3
  <2> QED BY <2>1, <2>2
<1>6. \A d \in Clients \ {c} : /\ In(d)' = Append(In(d), p) /\ Stale(d)' = Stale(d) /\ Due(d)' = Due(d)
                               /\ Out(d)' = Out(d) /\ MadeInv(d)'
  <2> TAKE d \in Clients \ {c}
  <2>1. MadeInv(d) /\ Out(d)' = Out(d)
    BY <1>2 DEF KnowInv, Out
  <2> HIDE DEF p
  <2>2. /\ In(d)' = Append(In(d), p) /\ Stale(d)' = Stale(d) /\ Due(d)' = Due(d)
        /\ \A k \in DOMAIN In(d)' : In(d)'[k].who = d => In(d)'[k].kind = "tag"
    BY <1>1, <1>2, <2>1, Arrives DEF MadeInv
  <2>3. MadeInv(d)'
    BY <1>1, <1>2, <2>1, <2>2 DEF MadeInv
  <2> QED BY <2>1, <2>2, <2>3
<1>7. In(c)' = In(c) /\ Stale(c)' = Stale(c) /\ Due(c)' = Due(c)
  <2>1. In(c)' = In(c) /\ Stale(c)' = Stale(c)
    BY <1>1, <1>2 DEF In, Stale
  <2> QED BY <1>1, <2>1 DEF Due, Commanded
<1>8. MadeInv(c)'
  <2>1. ASSUME NEW i \in DOMAIN b PROVE b[i].who = c /\ b[i].mode = b[1].mode
    <3>1. b[i] = Out(c)[i + 1] /\ i + 1 \in DOMAIN Out(c) /\ b # <<>>
      BY <1>3
    <3>2. b[i].who = c /\ b[i].mode = p.mode
      BY <3>1 DEF KnowInv, MadeInv
    <3> QED BY <1>4, <3>1, <3>2
  <2> QED BY <1>1, <1>2, <1>7, <2>1 DEF KnowInv, MadeInv
<1>9. \A d \in Clients : Now(d)' = Now(d) /\ Played(d)' = Played(d) /\ ManagerInv(d)'
  <2> TAKE d \in Clients
  <2>1. ManagerInv(d)
    BY DEF KnowInv
  <2> QED BY <1>1, <2>1 DEF Now, Played, ManagerInv
<1>10. \A d \in Clients : In(d) \in Seq(Packets) /\ (Stale(d) => In(d) # <<>>)
  BY InType
<1> HIDE DEF p, b
<1>11. ASSUME NEW o \in Clients, NEW s \in Clients, o # s PROVE PairInv(o, s)'
  <2>1. RangeInv(o, s) /\ LastInv(o, s) /\ InfoInv(o, s)
    BY <1>11 DEF KnowInv, PairInv
  <2>2. Mates(o, s)' => Mates(o, s)
    BY <1>1, <1>6, <1>7 DEF Mates
  <2>3. CASE s # c
    <3>1. Out(s)' = Out(s) /\ Due(s)' = Due(s) /\ Stale(o)' = Stale(o) /\ Stale(s)' = Stale(s)
          /\ In(s)' = Append(In(s), p) /\ (In(o)' = In(o) \/ In(o)' = Append(In(o), p))
      BY <1>6, <1>7, <2>3
    <3>2. RangeInv(o, s)'
      BY <1>1, <1>2, <1>9, <2>1, <2>3, <3>1, RangeKeep
    <3>3. LastInv(o, s)'
      BY <1>1, <1>2, <1>9, <2>1, <2>3, <3>1, LastKeep
    <3>4. InfoInv(o, s)'
      <4>1. CASE o # c
        <5>1. Out(o)' = Out(o)
          BY <1>6, <4>1
        <5> QED BY <1>1, <1>2, <2>1, <2>2, <3>1, <5>1, InfoKeep DEF Extends
      <4>2. CASE o = c
        <5>1. In(o)' = In(o)
          BY <1>7, <4>2
        <5>2. Heard(o, s) => Heard(o, s)'
          BY <3>1, <5>1 DEF Heard
        <5>3. Right(o, s) => Right(o, s)'
          BY <1>1, <3>1, <5>1 DEF Right
        <5>4. Ask(o, s) => Ask(o, s)'
          <6> DEFINE m == mgr[o].base
                     t == theirs[s][o]
                     D(q) == Other(q, t, o, m, Stale(s), Len(q) + 1)
                     N(q) == News(q, t, o, m, Stale(s))
          <6>1. Says(p) = p.mode
            BY <1>2 DEF Says
          <6>2. /\ D(In(s)) \/ p.mode # m => D(In(s)')
                /\ N(In(s)) \/ (p.mode = m /\ D(In(s))) => N(In(s)')
            BY <1>2, <1>10, <3>1, <4>2, <6>1, NewsAppend
          <6>3. /\ mgr' = mgr /\ theirs' = theirs /\ Stale(s)' = Stale(s)
                /\ Out(o) # <<>> /\ Out(o)[1] = p
            BY <1>1, <1>2, <3>1, <4>2 DEF p
          <6> HIDE DEF D, N
          <6>4. Ask(o, s) => \/ mgr[o].sceneTrans /\ m # NoMode /\ (D(In(s)) \/ p.mode # m)
                             \/ N(In(s)) \/ (p.mode = m /\ D(In(s)))
            BY <6>3 DEF Ask, D, N
          <6>5. (mgr[o].sceneTrans /\ m # NoMode /\ D(In(s)')) \/ N(In(s)') => Ask(o, s)'
            BY <6>3 DEF Ask, D, N
          <6> QED BY <6>2, <6>4, <6>5
        <5> QED BY <2>1, <2>2, <5>2, <5>3, <5>4 DEF InfoInv
      <4> QED BY <4>1, <4>2
    <3> QED BY <3>2, <3>3, <3>4 DEF PairInv
  <2>4. CASE s = c
    <3>1. In(o)' = Append(In(o), p) /\ Out(s)' = b /\ p.who = s /\ Due(s)' = Due(s)
          /\ Out(s) # <<>> /\ Stale(o)' = Stale(o)
      BY <1>2, <1>6, <1>7, <1>11, <2>4
    <3>2. RangeInv(o, s)'
      <4> SUFFICES ASSUME read[o] # Lost, ~mgr[s].sceneTrans
                   PROVE IF b # <<>> THEN b[1].mode \in Played(s)
                         ELSE EndsIn(Append(In(o), p), theirs[o][s], s, Saying(Played(s)), Played(s))
        BY <1>1, <1>9, <3>1 DEF RangeInv
      <4>1. p.mode \in Played(s)
        BY <2>1, <2>4, <3>1 DEF RangeInv, p
      <4>2. p \in Saying(Played(s))
        BY <1>2, <4>1 DEF Saying, Says
      <4> QED BY <1>2, <1>4, <1>10, <3>1, <4>1, <4>2, EndsAppend
    <3>3. LastInv(o, s)'
      <4> SUFFICES ASSUME read[o] # Lost, ~Due(s)
                   PROVE IF b # <<>> THEN b[Len(b)] = Now(s)
                         ELSE EndsIn(Append(In(o), p), theirs[o][s], s, {Now(s)}, {Now(s).mode})
        BY <1>1, <1>9, <3>1 DEF LastInv
      <4>1. Out(s)[Len(Out(s))] = Now(s)
        BY <2>1, <3>1 DEF LastInv
      <4>2. b = <<>> => p = Now(s)
        BY <1>5, <2>4, <4>1 DEF p
      <4> QED BY <1>2, <1>4, <1>10, <2>4, <3>1, <4>1, <4>2, EndsAppend
    <3>4. Heard(o, s)'
      <4>1. Told(Append(In(o), p), s, Stale(o))
        BY <1>2, <1>10, <3>1, NewsAppend
      <4> QED BY <3>1, <4>1 DEF Heard
    <3> QED BY <3>2, <3>3, <3>4 DEF PairInv, InfoInv
  <2> QED BY <2>3, <2>4
<1>12. \A d \in Clients : MadeInv(d)'
  BY <1>6, <1>8
<1> QED BY <1>1, <1>9, <1>11, <1>12 DEF KnowInv

LEMMA ProcessEffect ==
  ASSUME TypeOK, KnowInv, ~MayOvertake, NEW c \in Clients, Process(c)
  PROVE  /\ \A d \in Clients \ {c} : Same(d)
         /\ mgr' = mgr /\ loading' = loading /\ read[c].at = "process"
         /\ In(c) \in Seq(Packets) /\ In(c) # <<>> /\ In(c)' = Tail(In(c)) /\ In(c)[1] = read[c].packet
         /\ Out(c) = <<>> /\ ~Stale(c)'
         /\ \/ read'[c] = Lost /\ read'[c].at # "process" /\ it' = it /\ made' = made
            \/ /\ read'[c] = Idle /\ read'[c].at # "process" /\ read'[c] # Lost
               /\ \A s \in Clients \ {c} :
                    /\ theirs'[c][s] = Noted(theirs[c][s], In(c)[1], s)
                    /\ In(c)[1].who # s => itSeen'[c][s] = itSeen[c][s]
                    /\ \A b \in BOOLEAN :
                         /\ In(c)[1] = [kind |-> "state", who |-> s, mode |-> mgr[c].base, it |-> b]
                         /\ mgr[c].base # NoMode /\ ~Stale(c)
                         => itSeen'[c][s] = b
               /\ \/ Announced(Out(c)', Now(c)') /\ made'[c].game = <<>>
                  \/ /\ made' = made /\ it' = it
                     /\ In(c)[1].who = c => read[c].base = NoMode
                     /\ \A o \in Clients \ {c} :
                          ~Stale(c) /\ In(c)[1].who = o /\ Says(In(c)[1]) = mgr[c].base /\ mgr[c].base # NoMode
                            => theirs[c][o] = Says(In(c)[1])
<1> DEFINE p == read[c].packet
           ours == IsOurs(c, p, read[c].base)
<1>1. /\ read[c].at = "process" /\ read[c] # Lost /\ made[c].game = <<>> /\ made[c].read = <<>>
      /\ UNCHANGED <<mgr, loading, inbox>>
  BY DEF Process, MayBuild, KnowInv, MadeInv, Lost
<1>2. /\ In(c) \in Seq(Packets) /\ In(c) # <<>> /\ In(c)[1] = p /\ Tail(In(c)) = inbox[c] /\ p \in Packets
      /\ mgr[c] \in Managers
  BY <1>1, InType
<1>3. /\ p.who \in Clients /\ p.it \in BOOLEAN /\ p.kind \in {"state", "tag"} /\ it[c] \in BOOLEAN
      /\ p.who = c => p.kind = "tag"
  <2>1. p.who \in Clients /\ p.it \in BOOLEAN /\ p.kind \in {"state", "tag"} /\ it[c] \in BOOLEAN
    BY <1>2 DEF Packets, States, Tags, TypeOK
  <2>2. 1 \in DOMAIN In(c)
    BY <1>2, TailFacts
  <2> QED BY <1>2, <2>1, <2>2 DEF KnowInv, MadeInv
<1>4. p.who # c => ModeOf(c, p) = Says(p)
  BY <1>3 DEF ModeOf, Says
<1>5. p.who = c => ours = (read[c].base # NoMode)
  BY <1>3 DEF IsOurs, ModeOf
<1>6. p.who # c => ours = (read[c].base # NoMode /\ (Says(p) = "any" \/ Says(p) = read[c].base))
  BY <1>4 DEF IsOurs
<1>7. ours \in BOOLEAN
  BY DEF IsOurs
<1>8. Stale(c) <=> read[c].base # mgr[c].base
  BY <1>1 DEF Stale
<1>9. Out(c) = <<>>
  BY <1>1 DEF Out
<1>10. CASE ours /\ read[c].base # mgr[c].base /\ read' = [read EXCEPT ![c] = Lost]
            /\ UNCHANGED <<it, theirs, itSeen, made>>
  <2>1. read'[c] = Lost /\ read'[c].at # "process" /\ \A d \in Clients \ {c} : read'[d] = read[d]
    BY <1>10 DEF Lost, TypeOK
  <2>2. In(c)' = Tail(In(c)) /\ ~Stale(c)'
    BY <1>1, <1>2, <2>1 DEF In, Stale
  <2>3. \A d \in Clients \ {c} : Same(d)
    BY <1>1, <1>10, <2>1 DEF Same
  <2> QED BY <1>1, <1>2, <1>9, <1>10, <2>1, <2>2, <2>3
<1>11. CASE /\ ours => read[c].base = mgr[c].base
            /\ ProcessOther(c, p, ours) \/ ProcessOwn(c, p, ours)
            /\ read' = [read EXCEPT ![c] = Idle]
  <2>1. read'[c] = Idle /\ read'[c].at # "process" /\ read'[c] # Lost
        /\ \A d \in Clients \ {c} : read'[d] = read[d]
    BY <1>11 DEF Idle, Lost, TypeOK
  <2>2. In(c)' = Tail(In(c)) /\ ~Stale(c)'
    BY <1>1, <1>2, <2>1 DEF In, Stale
  <2> HIDE DEF p, ours
  <2>3. CASE ProcessOther(c, p, ours)
    <3>1. /\ p.who # c /\ it' = it /\ made' = [made EXCEPT ![c].read = Answer(c, p, ours)]
          /\ itSeen'[c] = [itSeen[c] EXCEPT ![p.who] = ours /\ p.it]
          /\ theirs'[c] = [theirs[c] EXCEPT ![p.who] = Says(p)]
          /\ \A d \in Clients \ {c} : itSeen'[d] = itSeen[d] /\ theirs'[d] = theirs[d] /\ made'[d] = made[d]
      BY <1>4, <2>3 DEF ProcessOther, TypeOK
    <3>2. \A d \in Clients \ {c} : Same(d)
      BY <1>1, <2>1, <3>1 DEF Same
    <3>3. ASSUME NEW s \in Clients \ {c}
          PROVE  /\ theirs'[c][s] = Noted(theirs[c][s], p, s)
                 /\ p.who # s => itSeen'[c][s] = itSeen[c][s]
                 /\ \A b \in BOOLEAN :
                      /\ p = [kind |-> "state", who |-> s, mode |-> mgr[c].base, it |-> b]
                      /\ mgr[c].base # NoMode /\ ~Stale(c)
                      => itSeen'[c][s] = b
      <4>1. theirs'[c][s] = Noted(theirs[c][s], p, s) /\ (p.who # s => itSeen'[c][s] = itSeen[c][s])
        BY <3>1 DEF Noted, TypeOK
      <4>2. ASSUME NEW b \in BOOLEAN, p = [kind |-> "state", who |-> s, mode |-> mgr[c].base, it |-> b],
                   mgr[c].base # NoMode, ~Stale(c)
            PROVE  itSeen'[c][s] = b
        <5>1. p.who = s /\ p.it = b /\ Says(p) = mgr[c].base
          BY <4>2 DEF Says
        <5>2. ours
          BY <1>6, <1>8, <3>1, <4>2, <5>1
        <5>3. itSeen'[c][s] = (ours /\ p.it)
          BY <3>1, <5>1 DEF TypeOK
        <5> QED BY <1>7, <4>2, <5>1, <5>2, <5>3
      <4> QED BY <4>1, <4>2
    <3>4. CASE ours /\ theirs[c][p.who] # ModeOf(c, p)
      <4>1. Answer(c, p, ours) = Announcement(c, mgr[c], it[c]) /\ mgr[c].base # NoMode
        BY <1>6, <1>11, <3>1, <3>4 DEF Answer
      <4>2. Announced(Out(c)', Now(c)') /\ made'[c].game = <<>>
        <5>1. made' = [made EXCEPT ![c].read = Announcement(c, mgr[c], it[c])]
          BY <3>1, <4>1
        <5> QED BY <1>1, <1>3, <3>1, <4>1, <5>1, AnnouncedNow
      <4> QED BY <1>1, <1>2, <1>9, <2>1, <2>2, <3>2, <3>3, <4>2 DEF p
    <3>5. CASE ~(ours /\ theirs[c][p.who] # ModeOf(c, p))
      <4>1. Answer(c, p, ours) = <<>>
        BY <3>5 DEF Answer
      <4>2. made' = made
        BY <1>1, <3>1, <4>1 DEF TypeOK
      <4>3. \A o \in Clients \ {c} : ~Stale(c) /\ p.who = o /\ Says(p) = mgr[c].base /\ mgr[c].base # NoMode
                                       => theirs[c][o] = Says(p)
        BY <1>4, <1>6, <1>8, <3>1, <3>5
      <4> QED BY <1>1, <1>2, <1>9, <2>1, <2>2, <3>1, <3>2, <3>3, <4>2, <4>3 DEF p
    <3> QED BY <3>4, <3>5
  <2>4. CASE ProcessOwn(c, p, ours)
    <3>1. p.who = c /\ UNCHANGED <<theirs, itSeen>>
      BY <2>4 DEF ProcessOwn
    <3>2. \A s \in Clients \ {c} :
            /\ theirs'[c][s] = Noted(theirs[c][s], p, s)
            /\ p.who # s => itSeen'[c][s] = itSeen[c][s]
            /\ \A b \in BOOLEAN :
                 /\ p = [kind |-> "state", who |-> s, mode |-> mgr[c].base, it |-> b]
                 /\ mgr[c].base # NoMode /\ ~Stale(c)
                 => itSeen'[c][s] = b
      BY <3>1 DEF Noted
    <3>3. CASE ours
      <4>1. /\ it' = [it EXCEPT ![c] = p.it]
            /\ made' = [made EXCEPT ![c].read = Announcement(c, mgr[c], p.it)]
            /\ mgr[c].base # NoMode
        BY <1>5, <1>11, <2>4, <3>1, <3>3 DEF ProcessOwn
      <4>2. it'[c] = p.it /\ \A d \in Clients \ {c} : it'[d] = it[d] /\ made'[d] = made[d]
        BY <4>1 DEF TypeOK
      <4>3. Announced(Out(c)', Now(c)') /\ made'[c].game = <<>>
        BY <1>1, <1>3, <4>1, <4>2, AnnouncedNow
      <4>4. \A d \in Clients \ {c} : Same(d)
        BY <1>1, <2>1, <3>1, <4>2 DEF Same
      <4> QED BY <1>1, <1>2, <1>9, <2>1, <2>2, <3>2, <4>3, <4>4 DEF p
    <3>4. CASE ~ours
      <4>1. UNCHANGED <<it, made>> /\ read[c].base = NoMode
        BY <1>5, <2>4, <3>1, <3>4 DEF ProcessOwn
      <4>2. \A d \in Clients \ {c} : Same(d)
        BY <1>1, <2>1, <3>1, <4>1 DEF Same
      <4> QED BY <1>1, <1>2, <1>9, <2>1, <2>2, <3>1, <3>2, <4>1, <4>2 DEF p
    <3> QED BY <3>3, <3>4
  <2> QED BY <1>11, <2>3, <2>4
<1> QED BY <1>10, <1>11 DEF Process

LEMMA KnowProcess ==
  ASSUME TypeOK, KnowInv, ~MayOvertake, NEW c \in Clients, Process(c)
  PROVE  KnowInv'
<1> DEFINE q == In(c)
           Quiet == /\ made' = made /\ it' = it
                    /\ q[1].who = c => read[c].base = NoMode
                    /\ \A o \in Clients \ {c} :
                         ~Stale(c) /\ q[1].who = o /\ Says(q[1]) = mgr[c].base /\ mgr[c].base # NoMode
                           => theirs[c][o] = Says(q[1])
           Taken == /\ read'[c] = Idle /\ read'[c].at # "process" /\ read'[c] # Lost
                    /\ \A s \in Clients \ {c} :
                         /\ theirs'[c][s] = Noted(theirs[c][s], q[1], s)
                         /\ q[1].who # s => itSeen'[c][s] = itSeen[c][s]
                         /\ \A b \in BOOLEAN :
                              /\ q[1] = [kind |-> "state", who |-> s, mode |-> mgr[c].base, it |-> b]
                              /\ mgr[c].base # NoMode /\ ~Stale(c)
                              => itSeen'[c][s] = b
<1>1. /\ \A d \in Clients \ {c} : Same(d) /\ View(d)
      /\ mgr' = mgr /\ loading' = loading /\ read[c].at = "process"
      /\ q \in Seq(Packets) /\ q # <<>> /\ In(c)' = Tail(q) /\ q[1] = read[c].packet
      /\ Out(c) = <<>> /\ ~Stale(c)'
  BY ProcessEffect, SameView
<1>2. \/ read'[c] = Lost /\ read'[c].at # "process" /\ it' = it /\ made' = made
      \/ Taken /\ (Quiet \/ (Announced(Out(c)', Now(c)') /\ made'[c].game = <<>>))
  BY ProcessEffect
<1>3. left'["pause"] = 0
  BY InputPause DEF Process, TypeOK, KnowInv
<1> HIDE DEF q, Quiet
<1>4. ManagerInv(c)' /\ ManagerInv(c) /\ MadeInv(c) /\ Played(c)' = Played(c)
  BY <1>1 DEF KnowInv, ManagerInv, Played
<1>5. /\ \A i \in DOMAIN Tail(q) : i + 1 \in DOMAIN q /\ Tail(q)[i] = q[i + 1]
      /\ \A i \in DOMAIN q : i = 1 \/ (i - 1 \in DOMAIN Tail(q) /\ Tail(q)[i - 1] = q[i])
      /\ 1 \in DOMAIN q
  BY <1>1, TailFacts
<1>6. /\ read'[c].at # "process"
      /\ \A k \in DOMAIN In(c)' : In(c)'[k].who = c => In(c)'[k].kind = "tag"
  BY <1>1, <1>2, <1>4, <1>5 DEF MadeInv, q
<1>7. ~Commanded(c)' => \A k \in DOMAIN q : q[k].who = c => k = 1
  <2> SUFFICES ASSUME NEW k \in DOMAIN q, q[k].who = c, k # 1 PROVE Commanded(c)'
    OBVIOUS
  <2>1. k - 1 \in DOMAIN In(c)' /\ In(c)'[k - 1].who = c
    BY <1>1, <1>5
  <2> QED BY <1>6, <2>1 DEF Commanded
<1>8. ~Commanded(c)' /\ (q[1].who = c => read[c].base = NoMode) => ~Commanded(c)
  BY <1>1, <1>7 DEF Commanded, q
<1>9. made' = made => Out(c)' = Out(c)
  BY DEF Out
<1>10. MadeInv(c)'
  <2>1. CASE made' = made
    BY <1>4, <1>6, <1>9, <2>1 DEF MadeInv
  <2>2. CASE Announced(Out(c)', Now(c)') /\ made'[c].game = <<>>
    <3>1. Now(c)'.who = c
      BY DEF Now
    <3> QED BY <1>6, <2>2, <3>1 DEF MadeInv, Announced
  <2> QED BY <1>2, <2>1, <2>2 DEF Quiet
<1>11. ASSUME NEW d \in Clients \ {c} PROVE PairInv(d, c)'
  <2>0. /\ PairInv(d, c) /\ In(d)' = In(d) /\ Stale(d)' = Stale(d) /\ Out(d)' = Out(d)
        /\ theirs'[d] = theirs[d] /\ itSeen'[d] = itSeen[d] /\ (read'[d] # Lost => read[d] # Lost)
        /\ mgr'[d] = mgr[d]
    BY <1>1, <1>11 DEF KnowInv, View, Same
  <2>1. CASE Announced(Out(c)', Now(c)')
    BY <1>4, <2>1, PairAnnounce
  <2>2. CASE made' = made
    <3>1. RangeInv(d, c)'
      BY <1>1, <1>4, <1>9, <2>0, <2>2, RangeKeep DEF PairInv
    <3>2. CASE read'[c] = Lost
      <4>1. Due(c)'
        BY <3>2 DEF Due
      <4> QED BY <3>1, <4>1 DEF PairInv, LastInv, InfoInv, Mates
    <3>3. CASE Taken /\ Quiet
      <4>1. ~Due(c)' => ~Due(c) /\ mgr[c].base # NoMode
        <5>1. read[c] # Lost
          BY <1>1, InType
        <5> QED BY <1>1, <1>8, <3>3, <5>1 DEF Due, Quiet
      <4>2. Now(c)' = Now(c) /\ Out(c)' = Out(c) /\ it' = it
        BY <1>1, <1>9, <3>3 DEF Now, Quiet
      <4>3. LastInv(d, c)'
        BY <2>0, <4>1, <4>2, LastKeep DEF PairInv
      <4>4. InfoInv(d, c)'
        <5> SUFFICES ASSUME Mates(d, c)' PROVE Heard(d, c)' \/ Ask(d, c)' \/ Right(d, c)'
          BY DEF InfoInv
        <5>1. Mates(d, c) /\ mgr[c].base # NoMode /\ mgr[c].base = mgr[d].base
          BY <1>1, <2>0, <4>1 DEF Mates
        <5>2. Heard(d, c) => Heard(d, c)'
          BY <2>0, <4>2 DEF Heard
        <5>3. Right(d, c) => Right(d, c)'
          BY <2>0, <4>2 DEF Right
        <5>4. Ask(d, c) => Ask(d, c)'
          <6> DEFINE m == mgr[d].base
                     t == theirs[c][d]
                     u == theirs'[c][d]
          <6>1. ~Stale(c) /\ q[1].who = d /\ Says(q[1]) = m => t = m
            BY <3>3, <5>1, <1>11 DEF Quiet
          <6>2. u = Noted(t, q[1], d)
            BY <3>3, <1>11
          <6>3. Stale(c) \in BOOLEAN
            BY InType
          <6> HIDE DEF u
          <6>4. /\ Other(q, t, d, m, Stale(c), Len(q) + 1) => Other(Tail(q), u, d, m, FALSE, Len(Tail(q)) + 1)
                /\ News(q, t, d, m, Stale(c)) => News(Tail(q), u, d, m, FALSE)
            BY <1>1, <6>1, <6>2, <6>3, NewsTail
          <6>5. /\ In(c)' = Tail(q) /\ Stale(c)' = FALSE /\ mgr' = mgr /\ Out(d)' = Out(d)
                /\ theirs'[c][d] = u /\ In(c) = q
            BY <1>1, <2>0 DEF u, q, Stale
          <6> QED BY <6>4, <6>5 DEF Ask
        <5> QED BY <2>0, <5>1, <5>2, <5>3, <5>4 DEF PairInv, InfoInv
      <4> QED BY <3>1, <4>3, <4>4 DEF PairInv
    <3>4. CASE Announced(Out(c)', Now(c)')
      BY <1>4, <3>4, PairAnnounce
    <3> QED BY <1>2, <3>2, <3>3, <3>4
  <2> QED BY <1>2, <2>1, <2>2 DEF Quiet
<1>12. ASSUME NEW d \in Clients \ {c} PROVE PairInv(c, d)'
  <2>1. CASE read'[c] = Lost
    BY <2>1 DEF PairInv, RangeInv, LastInv, InfoInv, Mates
  <2>2. CASE Taken
    <3> DEFINE t == theirs[c][d]
               u == Noted(t, q[1], d)
    <3>1. /\ RangeInv(c, d) /\ LastInv(c, d) /\ InfoInv(c, d) /\ read[c] # Lost
          /\ In(d)' = In(d) /\ Out(d)' = Out(d) /\ Due(d)' = Due(d) /\ Now(d)' = Now(d)
          /\ Played(d)' = Played(d) /\ mgr' = mgr /\ it'[d] = it[d] /\ theirs'[d] = theirs[d]
          /\ Stale(d)' = Stale(d)
      BY <1>1, <1>12, InType DEF KnowInv, PairInv, View, Same
    <3>2. theirs'[c][d] = u /\ In(c)' = Tail(q) /\ In(c) = q
      BY <1>1, <1>12, <2>2 DEF q
    <3>3. RangeInv(c, d)'
      <4>1. \A x \in Saying(Played(d)) : Says(x) \in Played(d)
        BY DEF Saying
      <4>2. EndsIn(q, t, d, Saying(Played(d)), Played(d)) => EndsIn(Tail(q), u, d, Saying(Played(d)), Played(d))
        BY <1>1, <4>1, EndsTail
      <4> HIDE DEF u
      <4> QED BY <3>1, <3>2, <4>2 DEF RangeInv
    <3>4. LastInv(c, d)'
      <4>1. \A x \in {Now(d)} : Says(x) \in {Now(d).mode}
        BY DEF Now, Says
      <4>2. EndsIn(q, t, d, {Now(d)}, {Now(d).mode}) => EndsIn(Tail(q), u, d, {Now(d)}, {Now(d).mode})
        BY <1>1, <4>1, EndsTail
      <4> HIDE DEF u
      <4> QED BY <3>1, <3>2, <4>2 DEF LastInv
    <3>5. InfoInv(c, d)'
      <4> SUFFICES ASSUME Mates(c, d)' PROVE Heard(c, d)' \/ Ask(c, d)' \/ Right(c, d)'
        BY DEF InfoInv
      <4>1. /\ Mates(c, d) /\ mgr[d].on /\ mgr[d].base = mgr[c].base /\ ~Due(d) /\ mgr[c].base # NoMode
        BY <3>1 DEF Mates, Due
      <4>2. Ask(c, d) => Ask(c, d)'
        BY <1>1, <3>1 DEF Ask
      <4>3. Stale(c) \in BOOLEAN /\ Stale(c)' = FALSE /\ In(c)' = Tail(q) /\ Out(d)' = Out(d)
        BY <1>1, <3>1, InType DEF Stale
      <4>4. CASE q[1].who = d /\ ~Stale(c)
        <5>1. CASE Out(d) # <<>>
          BY <3>1, <5>1 DEF Heard
        <5>2. CASE Out(d) = <<>>
          <6>1. EndsIn(q, t, d, {Now(d)}, {Now(d).mode})
            BY <3>1, <3>2, <4>1, <5>2 DEF LastInv
          <6>2. ~Silent(q, d, 0)
            BY <1>5, <4>4 DEF Silent
          <6>3. PICK j \in DOMAIN q : q[j].who = d /\ q[j] = Now(d)
            BY <6>1, <6>2 DEF EndsIn
          <6>4. CASE j = 1
            <7>1. itSeen'[c][d] = it[d]
              <8>1. it[d] \in BOOLEAN /\ (mgr[d].on /\ it[d]) = it[d]
                BY <4>1 DEF TypeOK
              <8>2. q[1] = [kind |-> "state", who |-> d, mode |-> mgr[c].base, it |-> it[d]]
                BY <4>1, <6>3, <6>4, <8>1 DEF Now
              <8> QED BY <1>12, <2>2, <4>1, <4>4, <8>1, <8>2
            <7> QED BY <3>1, <4>3, <7>1 DEF Right
          <6>5. CASE j # 1
            <7>1. Told(Tail(q), d, FALSE)
              BY <1>5, <6>3, <6>5 DEF Told
            <7> QED BY <4>3, <7>1 DEF Heard
          <6> QED BY <6>4, <6>5
        <5> QED BY <5>1, <5>2
      <4>5. CASE ~(q[1].who = d /\ ~Stale(c))
        <5>1. Heard(c, d) => Heard(c, d)'
          <6>1. Told(q, d, Stale(c)) => Told(Tail(q), d, FALSE)
            BY <1>1, <4>3, <4>5, ToldTail
          <6> QED BY <3>2, <4>3, <6>1 DEF Heard
        <5>2. Right(c, d) => Right(c, d)'
          <6> SUFFICES ASSUME Right(c, d) PROVE itSeen'[c][d] = it'[d]
            BY <4>3 DEF Right
          <6>1. q[1].who # d
            BY <3>2, <4>5 DEF Right
          <6>2. itSeen'[c][d] = itSeen[c][d]
            BY <1>12, <2>2, <6>1
          <6> QED BY <3>1, <6>2 DEF Right
        <5> QED BY <3>1, <4>1, <4>2, <5>1, <5>2 DEF InfoInv
      <4> QED BY <4>4, <4>5
    <3> QED BY <3>3, <3>4, <3>5 DEF PairInv
  <2> QED BY <1>2, <2>1, <2>2
<1> QED BY <1>1, <1>3, <1>4, <1>10, <1>11, <1>12, Assemble

LEMMA KnowInit == (\A b \in Budgets : b["pause"] = 0) /\ Init => KnowInv
<1> SUFFICES ASSUME \A b \in Budgets : b["pause"] = 0, Init PROVE KnowInv
  OBVIOUS
<1>1. left["pause"] = 0
  BY DEF Init
<1>2. \A s \in Clients : /\ In(s) = <<>> /\ Out(s) = <<>> /\ Due(s) /\ Played(s) = {NoMode, FreezeTag}
                         /\ ManagerInv(s)
  BY DEF Init, In, Out, Due, Played, ManagerInv, Idle
<1>3. \A s \in Clients : MadeInv(s)
  <2> TAKE s \in Clients
  <2>1. made[s].game = <<>> /\ made[s].read = <<>>
    BY DEF Init
  <2>2. DOMAIN In(s) = {} /\ DOMAIN Out(s) = {}
    BY <1>2
  <2> QED BY <2>1, <2>2 DEF MadeInv
<1>4. ASSUME NEW o \in Clients, NEW s \in Clients PROVE PairInv(o, s)
  <2>1. theirs[o][s] = NoMode
    BY DEF Init
  <2>2. EndsIn(<<>>, NoMode, s, Saying({NoMode, FreezeTag}), {NoMode, FreezeTag})
    BY DEF EndsIn, Silent
  <2> QED BY <1>2, <2>1, <2>2 DEF PairInv, RangeInv, LastInv, InfoInv, Mates
<1> QED BY <1>1, <1>2, <1>3, <1>4 DEF KnowInv

LEMMA KnowStep == ~MayOvertake /\ ~MayHurry /\ TypeOK /\ KnowInv /\ [Next]_vars => KnowInv'
<1> SUFFICES ASSUME ~MayOvertake, ~MayHurry, TypeOK, KnowInv, [Next]_vars PROVE KnowInv'
  OBVIOUS
<1>1. CASE UNCHANGED vars
  <2>1. \A d \in Clients : Same(d)
    BY <1>1 DEF vars, Same
  <2>2. left'["pause"] = 0
    BY <1>1 DEF vars, KnowInv
  <2>3. \A d \in Clients : ManagerInv(d)' /\ MadeInv(d)'
    <3> TAKE d \in Clients
    <3>1. View(d) /\ ManagerInv(d) /\ MadeInv(d)
      BY <2>1, SameView DEF KnowInv
    <3> QED BY <2>1, <3>1 DEF ManagerInv, MadeInv, View, Same
  <2>4. \A o, s \in Clients : o # s => PairInv(o, s)'
    BY <2>1, SameView, PairKeep DEF KnowInv
  <2> QED BY <2>2, <2>3, <2>4 DEF KnowInv
<1>2. ASSUME NEW c \in Clients, GameThread(c) PROVE KnowInv'
  BY <1>2, KnowFrame, KnowManager, KnowDeliver DEF GameThread
<1>3. ASSUME NEW c \in Clients, ReadThread(c) PROVE KnowInv'
  BY <1>3, KnowLookUp, KnowProcess, KnowReannounce, KnowDeliver DEF ReadThread
<1>4. ASSUME NEW c \in Clients, NEW isIt \in BOOLEAN, ServerTag(c, isIt) PROVE KnowInv'
  BY <1>4, KnowServerTag
<1> QED BY <1>1, <1>2, <1>3, <1>4 DEF Next

LEMMA KnowSettled == TypeOK /\ KnowInv => AllKnow
<1> SUFFICES ASSUME TypeOK, KnowInv, Settled, NEW c \in Clients, NEW d \in Clients, c # d
             PROVE  Knows(d, c)
  BY DEF AllKnow
<1>1. \A s \in Clients : /\ In(s) = <<>> /\ Out(s) = <<>> /\ read[s] # Lost /\ read[s].at # "process"
                         /\ mgr[s].base # NoMode /\ ~mgr[s].sceneTrans
  BY DEF Settled, In, Out, Idle, Lost, Begins
<1>2. \A s \in Clients : ~Due(s) /\ ~Stale(s)
  <2> TAKE s \in Clients
  <2>1. DOMAIN In(s) = {}
    BY <1>1
  <2> QED BY <1>1, <2>1 DEF Due, Commanded, Stale
<1>3. LastInv(d, c) /\ InfoInv(d, c)
  BY DEF KnowInv, PairInv
<1>4. theirs[d][c] = Now(c).mode
  BY <1>1, <1>2, <1>3 DEF LastInv, EndsIn
<1>5. ASSUME mgr[c].on, mgr[c].base = mgr[d].base PROVE itSeen[d][c] = it[c]
  <2>1. Mates(d, c)
    BY <1>1, <1>2, <1>5 DEF Mates
  <2>2. ~Heard(d, c) /\ ~Ask(d, c)
    BY <1>1 DEF Heard, Told, Ask, News
  <2> QED BY <1>3, <2>1, <2>2 DEF InfoInv, Right
<1> QED BY <1>4, <1>5 DEF Knows, Now

\* Once all is quiet everybody knows who plays what and who is it, for any
\* number of clients and of inputs, as long as no packet of one thread of a
\* client overtakes one of the other, every stage lasts for a frame and nobody
\* pauses.
THEOREM EverybodyKnows ==
  ~MayOvertake /\ ~MayHurry /\ (\A b \in Budgets : b["pause"] = 0) => (Spec => []AllKnow)
<1> SUFFICES ASSUME ~MayOvertake, ~MayHurry, \A b \in Budgets : b["pause"] = 0 PROVE Spec => []AllKnow
  OBVIOUS
<1>1. Init => KnowInv
  BY KnowInit
<1>2. TypeOK /\ KnowInv /\ [Next]_vars => KnowInv'
  BY KnowStep
<1>3. TypeOK /\ KnowInv => AllKnow
  BY KnowSettled
<1> QED BY <1>1, <1>2, <1>3, TypeCorrect, PTL DEF Spec

=============================================================================
