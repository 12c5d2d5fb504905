-------------------------- MODULE ShineSyncProofs --------------------------
(***************************************************************************)
(* The list of received shines stays within its array, for any number of   *)
(* clients and shines and any capacity.  The append tests the count before *)
(* it writes and counts, so what it needs is that nobody raises the count  *)
(* in between: the reset only lowers it.                                   *)
(*                                                                         *)
(* And while the two threads do not overlap, no list is full and no report *)
(* is refused, no shine is lost: when nothing is under way, all save files *)
(* agree.                                                                  *)
(***************************************************************************)
EXTENDS ShineSync, TLAPS

\* While an append is under way there is an entry to spare.
RoomInv ==
  \A c \in Clients : reader[c] # "idle" => index[c] < Cap - 1 /\ count[c] < Cap - 1

ListInv == TypeOK /\ RoomInv

LEMMA ReportType ==
  ASSUME TypeOK, NEW c \in Clients, NEW s \in Shines, Report(c, s)
  PROVE  /\ last' \in [Clients -> Shines \cup {NoShine}]
         /\ inbox' \in [Clients -> Seq(Shines)]
         /\ refusals' \in 0..MaxRefusals
<1>1. last' \in [Clients -> Shines \cup {NoShine}]
  BY DEF Report, TypeOK, Set
<1>2. \A d \in Clients : Append(inbox[d], s) \in Seq(Shines)
  BY DEF TypeOK
<1>3. inbox' \in [Clients -> Seq(Shines)]
  <2>1. inbox \in [Clients -> Seq(Shines)]
    BY DEF TypeOK
  <2>2. CASE inbox' = inbox
    BY <2>1, <2>2
  <2>3. CASE inbox' = [d \in Clients |-> IF d = c THEN inbox[d] ELSE Append(inbox[d], s)]
    <3>1. ASSUME NEW d \in Clients
          PROVE  (IF d = c THEN inbox[d] ELSE Append(inbox[d], s)) \in Seq(Shines)
      BY <1>2, <2>1, Zenon
    <3> QED
      BY <2>3, <3>1, Zenon
  <2>4. ASSUME NEW lost,
               inbox' = [d \in Clients |-> IF d \in lost \cup {c} THEN inbox[d] ELSE Append(inbox[d], s)]
        PROVE  inbox' \in [Clients -> Seq(Shines)]
    <3>1. ASSUME NEW d \in Clients
          PROVE  (IF d \in lost \cup {c} THEN inbox[d] ELSE Append(inbox[d], s)) \in Seq(Shines)
      BY <1>2, <2>1, Zenon
    <3> QED
      BY <2>4, <3>1, Zenon
  <2> QED
    BY <2>2, <2>3, <2>4 DEF Report, wireVars
<1>4. refusals' \in 0..MaxRefusals
  BY RefusalsAssumption DEF Report, TypeOK, wireVars
<1> QED BY <1>1, <1>3, <1>4

LEMMA InitList == Init => ListInv
<1> SUFFICES ASSUME Init PROVE ListInv
  OBVIOUS
<1>1. TypeOK
  BY CapAssumption, RefusalsAssumption DEF Init, TypeOK, Entries, Empty
<1>2. RoomInv
  BY DEF Init, RoomInv
<1> QED BY <1>1, <1>2 DEF ListInv

LEMMA StepList == ListInv /\ [Next]_vars => ListInv'
<1> SUFFICES ASSUME ListInv, [Next]_vars PROVE ListInv'
  OBVIOUS
<1> USE DEF ListInv
<1>1. ASSUME NEW c \in Clients, Admit(c) PROVE ListInv'
  <2>1. CASE count[c] < Cap - 1
    <3>1. Head(inbox[c]) \in Shines /\ Tail(inbox[c]) \in Seq(Shines)
      BY <1>1 DEF Admit, TypeOK
    <3>2. TypeOK'
      <4>1. count[c] \in Entries /\ ~(count[c] >= Cap - 1)
        BY <2>1, CapAssumption DEF TypeOK, Entries
      <4>2. /\ inbox' = Set(inbox, c, Tail(inbox[c]))
            /\ held' = Set(held, c, Head(inbox[c]))
            /\ index' = Set(index, c, count[c])
            /\ reader' = Set(reader, c, "write")
        BY <1>1, <4>1 DEF Admit
      <4>3. index' \in [Clients -> Entries]
        BY <4>1, <4>2 DEF TypeOK, Set
      <4>4. /\ inbox' \in [Clients -> Seq(Shines)]
            /\ held' \in [Clients -> Shines \cup {NoShine}]
            /\ reader' \in [Clients -> {"idle", "write", "count"}]
        BY <3>1, <4>2 DEF TypeOK, Set
      <4> QED BY <1>1, <4>3, <4>4 DEF Admit, TypeOK, saveVars, gameVars
    <3>3. RoomInv'
      BY <1>1, <2>1, <3>2, CapAssumption DEF Admit, TypeOK, RoomInv, Set, Entries
    <3> QED BY <3>2, <3>3
  <2>2. CASE ~(count[c] < Cap - 1)
    <3>1. Tail(inbox[c]) \in Seq(Shines)
      BY <1>1 DEF Admit, TypeOK
    <3>2. TypeOK'
      BY <1>1, <2>2, <3>1 DEF Admit, TypeOK, Set, saveVars, gameVars, readVars
    <3>3. RoomInv'
      BY <1>1, <2>2 DEF Admit, RoomInv, readVars
    <3> QED BY <3>2, <3>3
  <2> QED BY <2>1, <2>2
<1>2. ASSUME NEW c \in Clients, Write(c) PROVE ListInv'
  <2>1. PICK i \in {index[c], count[c]} :
          list' = [list EXCEPT ![c][i] = held[c]] /\ index' = Set(index, c, i)
    BY <1>2 DEF Write
  <2>2. i \in Entries /\ i < Cap - 1
    <3>1. index[c] \in Entries /\ count[c] \in 0..Cap - 1
      BY DEF TypeOK
    <3>2. index[c] < Cap - 1 /\ count[c] < Cap - 1
      BY <1>2 DEF Write, RoomInv
    <3> QED BY <2>1, <3>1, <3>2, CapAssumption DEF Entries
  <2>3. list' \in [Clients -> [Entries -> Shines \cup {NoShine}]]
    BY <2>1, <2>2 DEF TypeOK
  <2>4. TypeOK'
    BY <1>2, <2>1, <2>2, <2>3 DEF Write, TypeOK, Set, saveVars, wireVars, gameVars
  <2>5. RoomInv'
    BY <1>2, <2>1, <2>2 DEF Write, TypeOK, RoomInv, Set
  <2> QED BY <2>4, <2>5
<1>3. ASSUME NEW c \in Clients, Bump(c) PROVE ListInv'
  <2>1. PICK n \in {index[c], count[c]} : count' = Set(count, c, n + 1)
    BY <1>3 DEF Bump
  <2>2. n + 1 \in 0..Cap - 1
    <3>1. index[c] \in Entries /\ count[c] \in 0..Cap - 1
      BY DEF TypeOK
    <3>2. index[c] < Cap - 1 /\ count[c] < Cap - 1
      BY <1>3 DEF Bump, RoomInv
    <3>3. n \in 0..Cap - 1 /\ n < Cap - 1
      BY <2>1, <3>1, <3>2 DEF Entries
    <3> QED BY <3>3, CapAssumption
  <2>3. TypeOK'
    BY <1>3, <2>1, <2>2, CapAssumption DEF Bump, TypeOK, Set, saveVars, wireVars, gameVars, Entries
  <2>4. RoomInv'
    BY <1>3, <2>1 DEF Bump, TypeOK, RoomInv, Set
  <2> QED BY <2>3, <2>4
<1>4. ASSUME NEW c \in Clients, Frame(c) PROVE ListInv'
  BY <1>4 DEF Frame, TypeOK, RoomInv, Set, saveVars, wireVars, readVars
<1>5. ASSUME NEW c \in Clients, Scan(c) PROVE ListInv'
  <2>1. /\ game' \in [Clients -> {"idle", "scan", "reset"}]
        /\ pos' \in [Clients -> Entries]
        /\ toClear' \in [Clients -> SUBSET {"count", "list"}]
    <3>1. pos[c] \in 0..Cap - 1
      BY DEF TypeOK, Entries
    <3>2. CASE pos[c] < Cap - 1
      <4>1. pos[c] + 1 \in Entries
        BY <3>1, <3>2, CapAssumption DEF Entries
      <4>2. UNCHANGED <<game, toClear>> /\ pos' = Set(pos, c, pos[c] + 1)
        BY <1>5, <3>1, <3>2, CapAssumption DEF Scan, Advance
      <4> QED BY <4>1, <4>2 DEF TypeOK, Set
    <3>3. CASE pos[c] = Cap - 1
      <4>1. 0 \in Entries
        BY CapAssumption DEF Entries
      <4>2. /\ pos' = Set(pos, c, 0)
            /\ game' = Set(game, c, "reset")
            /\ toClear' = Set(toClear, c, {"count", "list"})
        BY <1>5, <3>1, <3>3, CapAssumption DEF Scan, Advance
      <4> QED BY <4>1, <4>2 DEF TypeOK, Set
    <3> QED BY <3>1, <3>2, <3>3, CapAssumption
  <2>2. /\ got' \in [Clients -> SUBSET Shines]
        /\ last' \in [Clients -> Shines \cup {NoShine}]
        /\ inbox' \in [Clients -> Seq(Shines)]
        /\ refusals' \in 0..MaxRefusals
    <3>1. CASE ~New(c)
      BY <1>5, <3>1 DEF Scan, TypeOK, wireVars
    <3>2. CASE New(c)
      <4>1. list[c][pos[c]] \in Shines
        BY <3>2 DEF New, TypeOK
      <4>2. got' \in [Clients -> SUBSET Shines]
        <5>1. got[c] \cup {list[c][pos[c]]} \in SUBSET Shines
          BY <4>1 DEF TypeOK
        <5> QED BY <1>5, <3>2, <5>1 DEF Scan, TypeOK, Set
      <4> QED BY <1>5, <3>2, <4>1, <4>2, ReportType DEF Scan, TypeOK, wireVars
    <3> QED BY <3>1, <3>2
  <2>3. UNCHANGED <<early, list, count, reader, held, index>>
    BY <1>5 DEF Scan, readVars
  <2> QED BY <2>1, <2>2, <2>3 DEF TypeOK, RoomInv
<1>6. ASSUME NEW c \in Clients, NEW part \in {"count", "list"}, Clear(c, part) PROVE ListInv'
  <2>1. count' \in [Clients -> 0..Cap - 1] /\ \A d \in Clients : count'[d] <= count[d]
    BY <1>6, CapAssumption DEF Clear, TypeOK, Set
  <2>2. list' \in [Clients -> [Entries -> Shines \cup {NoShine}]]
    BY <1>6 DEF Clear, TypeOK, Set, Empty
  <2>3. TypeOK'
    BY <1>6, <2>1, <2>2 DEF Clear, TypeOK, Set, saveVars, wireVars, readVars
  <2>4. RoomInv'
    BY <1>6, <2>1, CapAssumption DEF Clear, TypeOK, RoomInv, readVars
  <2> QED BY <2>3, <2>4
<1>7. ASSUME NEW c \in Clients, LeaveCapWorld(c) PROVE ListInv'
  BY <1>7 DEF LeaveCapWorld, TypeOK, RoomInv, Set, wireVars, readVars, gameVars
<1>8. ASSUME NEW c \in Clients, NEW s \in Finds[c], Collect(c, s) PROVE ListInv'
  <2>1. got' \in [Clients -> SUBSET Shines]
    BY <1>8, FindsAssumption DEF Collect, TypeOK, Set
  <2>2. s \in Shines
    BY FindsAssumption
  <2> QED BY <1>8, <2>1, <2>2, ReportType DEF Collect, TypeOK, RoomInv, readVars, gameVars
<1>9. CASE UNCHANGED vars
  BY <1>9 DEF vars, saveVars, wireVars, readVars, gameVars, TypeOK, RoomInv
<1> QED
  BY <1>1, <1>2, <1>3, <1>4, <1>5, <1>6, <1>7, <1>8, <1>9
  DEF Next, ReadThread, UpdateShines, Player

\* curCollectedShines is never written outside its bounds and
\* collectedShineCount never passes size() - 1 (updateShineInfo), however the
\* appends and resets of the two threads interleave.
THEOREM TypeCorrect == Spec => []TypeOK
<1>1. ListInv => TypeOK
  BY DEF ListInv
<1> QED BY InitList, StepList, <1>1, PTL DEF Spec

-----------------------------------------------------------------------------
(* Nothing is lost, as long as no append falls into a frame's updateShines, *)
(* no report meets a full list and none is refused: a shine that anybody    *)
(* has, or has coming, everybody has or has coming.  That needs to know     *)
(* where an append writes, what a scan has already taken over, and that     *)
(* who did not get a shine did not report it either (lastCollectedShine).   *)

Orderly == ~Overlap /\ ~Full /\ refusals = 0

Holds(f, s) == \E k \in DOMAIN f : f[k] = s

Has(c, s) == s \in got[c] \/ held[c] = s \/ Holds(inbox[c], s) \/ Holds(list[c], s)

Everywhere == \A s \in Shines, c, d \in Clients : Has(c, s) => Has(d, s)

Reported == \A c \in Clients : last[c] \in got[c] \cup {NoShine}

\* An append under way knows the true count; behind the counted entries there
\* are none, except the one being counted; what is scanned is got, and all is
\* when the list is being cleared.
Tidy(c) ==
  /\ reader[c] # "idle" => held[c] \in Shines /\ index[c] = count[c]
  /\ reader[c] = "idle" => held[c] = NoShine
  /\ reader[c] = "count" => list[c][count[c]] = held[c]
  /\ game[c] # "reset" =>
       /\ toClear[c] = {}
       /\ \A i \in Entries : i > count[c] \/ (i = count[c] /\ reader[c] # "count") => list[c][i] = NoShine
  /\ game[c] # "scan" => pos[c] = 0
  /\ game[c] = "scan" => \A i \in Entries : i < pos[c] => list[c][i] \in got[c] \cup {NoShine}
  /\ game[c] = "reset" =>
       /\ toClear[c] # {}
       /\ \A i \in Entries : list[c][i] \in got[c] \cup {NoShine}
       /\ "list" \in toClear[c] \/ list[c] = Empty
       /\ "count" \in toClear[c] \/ count[c] = 0

SharedInv == Everywhere /\ Reported /\ \A c \in Clients : Tidy(c)

LEMMA HoldsAppend ==
  ASSUME NEW q \in Seq(Shines), NEW x \in Shines, NEW s
  PROVE  Holds(Append(q, x), s) <=> Holds(q, s) \/ s = x
<1> DEFINE t == Append(q, x)
<1>1. /\ Len(q) \in Nat /\ Len(t) = Len(q) + 1 /\ DOMAIN q = 1 .. Len(q) /\ DOMAIN t = 1 .. Len(t)
      /\ t[Len(q) + 1] = x /\ \A k \in 1 .. Len(q) : t[k] = q[k]
  OBVIOUS
<1> HIDE DEF t
<1>2. \A k : k \in DOMAIN t <=> k \in DOMAIN q \/ k = Len(q) + 1
  BY <1>1
<1>3. Holds(t, s) <=> Holds(q, s) \/ s = x
  BY <1>1, <1>2 DEF Holds
<1> QED BY <1>3 DEF t

LEMMA HoldsTail ==
  ASSUME NEW q \in Seq(Shines), q # <<>>, NEW s
  PROVE  Holds(q, s) <=> Holds(Tail(q), s) \/ s = Head(q)
<1> DEFINE t == Tail(q)
<1>1. /\ Len(q) \in Nat \ {0} /\ Len(t) = Len(q) - 1 /\ DOMAIN q = 1 .. Len(q) /\ DOMAIN t = 1 .. Len(t)
      /\ Head(q) = q[1] /\ \A k \in 1 .. Len(t) : t[k] = q[k + 1]
  OBVIOUS
<1> HIDE DEF t
<1>2. ASSUME NEW k \in DOMAIN q, q[k] = s PROVE Holds(t, s) \/ s = Head(q)
  <2>1. CASE k = 1
    BY <1>1, <1>2, <2>1
  <2>2. CASE k # 1
    <3>1. k - 1 \in DOMAIN t /\ (k - 1) + 1 = k
      BY <1>1, <2>2
    <3> QED BY <1>1, <1>2, <3>1 DEF Holds
  <2> QED BY <2>1, <2>2
<1>3. ASSUME NEW k \in DOMAIN t, t[k] = s PROVE Holds(q, s)
  <2>1. k + 1 \in DOMAIN q /\ q[k + 1] = s
    BY <1>1, <1>3
  <2> QED BY <2>1 DEF Holds
<1>4. s = Head(q) => Holds(q, s)
  <2>1. 1 \in DOMAIN q
    BY <1>1
  <2> QED BY <1>1, <2>1 DEF Holds
<1>5. Holds(q, s) <=> Holds(t, s) \/ s = Head(q)
  BY <1>2, <1>3, <1>4 DEF Holds
<1> QED BY <1>5 DEF t

\* Whoever has a shine keeps it; what is new to somebody was somebody's, or is
\* now everybody's.
LEMMA EverywhereStep ==
  ASSUME Everywhere,
         \A d \in Clients, s \in Shines : Has(d, s) => Has(d, s)',
         \A d \in Clients, s \in Shines :
           Has(d, s)' => (\E e \in Clients : Has(e, s)) \/ (\A e \in Clients : Has(e, s)')
  PROVE  Everywhere'
BY DEF Everywhere

\* A client on which nothing happens.
LEMMA TidySame ==
  ASSUME NEW d, Tidy(d),
         reader'[d] = reader[d], held'[d] = held[d], index'[d] = index[d], count'[d] = count[d],
         list'[d] = list[d], game'[d] = game[d], pos'[d] = pos[d], toClear'[d] = toClear[d],
         got[d] \subseteq got'[d]
  PROVE  Tidy(d)'
BY DEF Tidy

\* A shine that is new to a client is reported to all the others.
LEMMA ReportSends ==
  ASSUME TypeOK, Orderly, Orderly', Reported,
         NEW c \in Clients, NEW s \in Shines, s \notin got[c], Report(c, s)
  PROVE  /\ last' = Set(last, c, s)
         /\ inbox' = [d \in Clients |-> IF d = c THEN inbox[d] ELSE Append(inbox[d], s)]
<1>1. last[c] # s
  BY NoShineAssumption DEF Reported
<1>2. refusals' # refusals + 1
  BY DEF Orderly
<1> QED BY <1>1, <1>2 DEF Report

LEMMA ReportHas ==
  ASSUME TypeOK, NEW c \in Clients, NEW s \in Shines,
         inbox' = [d \in Clients |-> IF d = c THEN inbox[d] ELSE Append(inbox[d], s)],
         NEW d \in Clients, NEW x
  PROVE  Holds(inbox'[d], x) <=> Holds(inbox[d], x) \/ (d # c /\ x = s)
<1>1. inbox[d] \in Seq(Shines)
  BY DEF TypeOK
<1>2. CASE d = c
  BY <1>2
<1>3. CASE d # c
  <2>1. inbox'[d] = Append(inbox[d], s)
    BY <1>3
  <2> QED BY <1>1, <1>3, <2>1, HoldsAppend
<1> QED BY <1>2, <1>3

LEMMA AdmitShares ==
  ASSUME ListInv, Orderly, Orderly', SharedInv, NEW c \in Clients, Admit(c)
  PROVE  SharedInv'
<1>0. TypeOK /\ Tidy(c) /\ reader[c] = "idle" /\ inbox[c] # <<>> /\ inbox[c] \in Seq(Shines)
      /\ count[c] \in 0 .. Cap - 1
  BY DEF ListInv, TypeOK, Admit, SharedInv
<1>1. count[c] < Cap - 1
  BY <1>0, CapAssumption DEF Orderly, Full
<1>2. ~(count[c] >= Cap - 1)
  BY <1>0, <1>1, CapAssumption
<1>3. /\ inbox' = Set(inbox, c, Tail(inbox[c])) /\ held' = Set(held, c, Head(inbox[c]))
      /\ index' = Set(index, c, count[c]) /\ reader' = Set(reader, c, "write")
      /\ UNCHANGED <<got, last, list, count, game, pos, toClear>>
  BY <1>2 DEF Admit, saveVars, gameVars
<1>4. /\ inbox'[c] = Tail(inbox[c]) /\ held'[c] = Head(inbox[c])
      /\ index'[c] = count[c] /\ reader'[c] = "write"
      /\ \A d \in Clients \ {c} : inbox'[d] = inbox[d] /\ held'[d] = held[d]
                                  /\ index'[d] = index[d] /\ reader'[d] = reader[d]
  BY <1>0, <1>3 DEF TypeOK, Set
<1>5. game[c] = "idle" /\ Head(inbox[c]) \in Shines
  BY <1>0, <1>3, <1>4 DEF Orderly, Overlap
<1>6. \A d \in Clients, s \in Shines : Has(d, s)' <=> Has(d, s)
  <2> TAKE d \in Clients, s \in Shines
  <2>1. CASE d = c
    <3>1. held[c] # s
      BY <1>0, NoShineAssumption DEF Tidy
    <3>2. Holds(inbox[c], s) <=> Holds(Tail(inbox[c]), s) \/ s = Head(inbox[c])
      BY <1>0, HoldsTail
    <3> QED BY <1>3, <1>4, <2>1, <3>1, <3>2 DEF Has
  <2>2. CASE d # c
    BY <1>3, <1>4, <2>2 DEF Has
  <2> QED BY <2>1, <2>2
<1>7. Everywhere'
  BY <1>6, EverywhereStep DEF SharedInv
<1>8. Tidy(c)'
  BY <1>0, <1>3, <1>4, <1>5 DEF Tidy
<1>9. \A d \in Clients \ {c} : Tidy(d)'
  BY <1>3, <1>4, TidySame DEF SharedInv
<1>10. Reported'
  BY <1>3 DEF SharedInv, Reported
<1> QED BY <1>7, <1>8, <1>9, <1>10 DEF SharedInv

LEMMA WriteShares ==
  ASSUME ListInv, Orderly, Orderly', SharedInv, NEW c \in Clients, Write(c)
  PROVE  SharedInv'
<1>0. /\ TypeOK /\ Tidy(c) /\ reader[c] = "write" /\ game[c] = "idle" /\ index[c] = count[c]
      /\ held[c] \in Shines /\ count[c] \in Entries
  BY DEF ListInv, TypeOK, Write, SharedInv, Orderly, Overlap, Tidy
<1>1. /\ list' = [list EXCEPT ![c][count[c]] = held[c]] /\ index' = Set(index, c, count[c])
      /\ reader' = Set(reader, c, "count")
      /\ UNCHANGED <<got, last, inbox, held, count, game, pos, toClear>>
  BY <1>0 DEF Write, saveVars, wireVars, gameVars
<1>2. /\ list'[c][count[c]] = held[c] /\ DOMAIN list'[c] = Entries
      /\ \A i \in Entries \ {count[c]} : list'[c][i] = list[c][i]
      /\ index'[c] = count[c] /\ reader'[c] = "count"
      /\ \A d \in Clients \ {c} : list'[d] = list[d] /\ index'[d] = index[d] /\ reader'[d] = reader[d]
  BY <1>0, <1>1 DEF TypeOK, Set
<1>3. list[c][count[c]] = NoShine /\ DOMAIN list[c] = Entries
  BY <1>0 DEF Tidy, TypeOK
<1>4. \A d \in Clients, s \in Shines : Has(d, s)' <=> Has(d, s)
  <2> TAKE d \in Clients, s \in Shines
  <2>1. CASE d = c
    <3>1. Holds(list'[c], s) <=> Holds(list[c], s) \/ held[c] = s
      BY <1>0, <1>2, <1>3, NoShineAssumption DEF Holds
    <3> QED BY <1>1, <2>1, <3>1 DEF Has
  <2>2. CASE d # c
    BY <1>1, <1>2, <2>2 DEF Has
  <2> QED BY <2>1, <2>2
<1>5. Everywhere'
  BY <1>4, EverywhereStep DEF SharedInv
<1>6. \A i \in Entries : i > count[c] => list'[c][i] = NoShine
  <2>1. \A i \in Entries : i > count[c] => i # count[c]
    BY <1>0 DEF Entries
  <2> QED BY <1>0, <1>2, <2>1 DEF Tidy
<1>7. Tidy(c)'
  BY <1>0, <1>1, <1>2, <1>6 DEF Tidy
<1>8. \A d \in Clients \ {c} : Tidy(d)'
  BY <1>1, <1>2, TidySame DEF SharedInv
<1>9. Reported'
  BY <1>1 DEF SharedInv, Reported
<1> QED BY <1>5, <1>7, <1>8, <1>9 DEF SharedInv

LEMMA BumpShares ==
  ASSUME ListInv, Orderly, Orderly', SharedInv, NEW c \in Clients, Bump(c)
  PROVE  SharedInv'
<1>0. /\ TypeOK /\ Tidy(c) /\ reader[c] = "count" /\ game[c] = "idle" /\ index[c] = count[c]
      /\ list[c][count[c]] = held[c] /\ count[c] \in Entries
  BY DEF ListInv, TypeOK, Bump, SharedInv, Orderly, Overlap, Tidy, Entries
<1>1. /\ count' = Set(count, c, count[c] + 1) /\ held' = Set(held, c, NoShine)
      /\ reader' = Set(reader, c, "idle") /\ index' = Set(index, c, 0)
      /\ UNCHANGED <<got, last, inbox, list, game, pos, toClear>>
  BY <1>0 DEF Bump, saveVars, wireVars, gameVars
<1>2. /\ count'[c] = count[c] + 1 /\ held'[c] = NoShine /\ reader'[c] = "idle"
      /\ \A d \in Clients \ {c} : count'[d] = count[d] /\ held'[d] = held[d]
                                  /\ index'[d] = index[d] /\ reader'[d] = reader[d]
  BY <1>0, <1>1 DEF TypeOK, Set
<1>3. \A d \in Clients, s \in Shines : Has(d, s)' <=> Has(d, s)
  <2> TAKE d \in Clients, s \in Shines
  <2>1. CASE d = c
    <3>1. held[c] = s => Holds(list[c], s)
      BY <1>0 DEF Holds, TypeOK
    <3> QED BY <1>1, <1>2, <2>1, <3>1, NoShineAssumption DEF Has
  <2>2. CASE d # c
    BY <1>1, <1>2, <2>2 DEF Has
  <2> QED BY <2>1, <2>2
<1>4. Everywhere'
  BY <1>3, EverywhereStep DEF SharedInv
<1>5. \A i \in Entries : i > count[c] + 1 \/ i = count[c] + 1 => list[c][i] = NoShine
  <2>1. \A i \in Entries : i > count[c] + 1 \/ i = count[c] + 1 => i > count[c]
    BY <1>0 DEF Entries
  <2> QED BY <1>0, <2>1 DEF Tidy
<1>6. Tidy(c)'
  BY <1>0, <1>1, <1>2, <1>5 DEF Tidy
<1>7. \A d \in Clients \ {c} : Tidy(d)'
  BY <1>1, <1>2, TidySame DEF SharedInv
<1>8. Reported'
  BY <1>1 DEF SharedInv, Reported
<1> QED BY <1>4, <1>6, <1>7, <1>8 DEF SharedInv

LEMMA FrameShares ==
  ASSUME ListInv, Orderly, Orderly', SharedInv, NEW c \in Clients, Frame(c)
  PROVE  SharedInv'
<1>0. TypeOK /\ Tidy(c) /\ game[c] = "idle" /\ pos[c] = 0
  BY DEF ListInv, Frame, SharedInv, Tidy
<1>1. /\ game' = Set(game, c, "scan")
      /\ UNCHANGED <<got, last, inbox, held, list, count, reader, index, pos, toClear>>
  BY DEF Frame, saveVars, wireVars, readVars
<1>2. game'[c] = "scan" /\ \A d \in Clients \ {c} : game'[d] = game[d]
  BY <1>0, <1>1 DEF TypeOK, Set
<1>3. Everywhere'
  BY <1>1 DEF SharedInv, Everywhere, Has
<1>4. \A i \in Entries : ~(i < 0)
  BY DEF Entries
<1>5. Tidy(c)'
  BY <1>0, <1>1, <1>2, <1>4 DEF Tidy
<1>6. \A d \in Clients \ {c} : Tidy(d)'
  BY <1>1, <1>2, TidySame DEF SharedInv
<1>7. Reported'
  BY <1>1 DEF SharedInv, Reported
<1> QED BY <1>3, <1>5, <1>6, <1>7 DEF SharedInv

LEMMA ScanShares ==
  ASSUME ListInv, Orderly, Orderly', SharedInv, NEW c \in Clients, Scan(c)
  PROVE  SharedInv'
<1> DEFINE x == list[c][pos[c]]
<1>0. /\ TypeOK /\ Tidy(c) /\ game[c] = "scan" /\ reader[c] = "idle" /\ Reported
      /\ pos[c] \in Entries /\ x \in Shines \cup {NoShine} /\ Holds(list[c], x)
  BY DEF ListInv, Scan, SharedInv, Orderly, Overlap, TypeOK, Holds
<1>1. UNCHANGED <<list, count, reader, held, index>>
  BY DEF Scan, readVars
<1>2. /\ got \in [Clients -> SUBSET Shines] /\ \A d \in Clients : got[d] \subseteq got'[d]
      /\ x \in got'[c] \cup {NoShine}
      /\ \A d \in Clients : got'[d] \subseteq got[d] \cup {x}
  <2>1. got \in [Clients -> SUBSET Shines]
    BY <1>0 DEF TypeOK
  <2>2. CASE ~New(c)
    <3>1. got' = got /\ x \in got[c] \cup {NoShine}
      BY <2>2 DEF Scan, New
    <3> HIDE DEF x
    <3> QED BY <2>1, <3>1
  <2>3. CASE New(c)
    <3>1. got' = Set(got, c, got[c] \cup {x})
      BY <2>3 DEF Scan
    <3> HIDE DEF x
    <3>2. got'[c] = got[c] \cup {x} /\ \A d \in Clients \ {c} : got'[d] = got[d]
      BY <2>1, <3>1 DEF Set
    <3> QED BY <2>1, <3>2
  <2> QED BY <2>2, <2>3
<1>3. /\ Reported'
      /\ \A d \in Clients, s \in Shines :
           /\ Holds(inbox[d], s) => Holds(inbox'[d], s)
           /\ Holds(inbox'[d], s) => Holds(inbox[d], s) \/ s = x
  <2>1. CASE UNCHANGED <<last, inbox>>
    BY <1>0, <1>2, <2>1 DEF Reported
  <2>2. CASE New(c) /\ Report(c, x)
    <3>1. x \in Shines /\ x \notin got[c]
      BY <1>0, <2>2 DEF New
    <3>2. /\ last' = Set(last, c, x)
          /\ inbox' = [d \in Clients |-> IF d = c THEN inbox[d] ELSE Append(inbox[d], x)]
      BY <1>0, <2>2, <3>1, ReportSends
    <3>3. Reported'
      BY <1>0, <1>2, <3>2 DEF Reported, Set, TypeOK
    <3> HIDE DEF x
    <3> QED BY <1>0, <3>1, <3>2, <3>3, ReportHas
  <2> QED BY <2>1, <2>2 DEF Scan, wireVars
<1>4. Everywhere'
  <2>1. \A d \in Clients, s \in Shines : Has(d, s) => Has(d, s)'
    BY <1>1, <1>2, <1>3 DEF Has
  <2>2. \A d \in Clients, s \in Shines : Has(d, s)' => Has(d, s) \/ s = x
    BY <1>1, <1>2, <1>3 DEF Has
  <2>3. Has(c, x)
    BY <1>0 DEF Has
  <2> HIDE DEF x
  <2>4. \A d \in Clients, s \in Shines : Has(d, s)' => \E e \in Clients : Has(e, s)
    BY <2>2, <2>3
  <2> QED BY <2>1, <2>4, EverywhereStep DEF SharedInv
<1>5. \A i \in Entries : i < pos[c] \/ i = pos[c] => list[c][i] \in got'[c] \cup {NoShine}
  BY <1>0, <1>2 DEF Tidy
<1> HIDE DEF x
<1>6. Tidy(c)'
  <2>1. CASE pos[c] < Cap - 1
    <3>1. /\ UNCHANGED <<game, toClear>> /\ pos' = Set(pos, c, pos[c] + 1)
      BY <1>0, <2>1, CapAssumption DEF Scan, Advance, Entries
    <3>2. pos'[c] = pos[c] + 1
      BY <1>0, <3>1 DEF TypeOK, Set
    <3>3. \A i \in Entries : i < pos[c] + 1 => i < pos[c] \/ i = pos[c]
      BY <1>0 DEF Entries
    <3>4. \A i \in Entries : i < pos'[c] => list[c][i] \in got'[c] \cup {NoShine}
      BY <1>5, <3>2, <3>3
    <3> QED BY <1>0, <1>1, <3>1, <3>4 DEF Tidy
  <2>2. CASE ~(pos[c] < Cap - 1)
    <3>1. pos[c] = Cap - 1
      BY <1>0, <2>2, CapAssumption DEF Entries
    <3>2. /\ pos' = Set(pos, c, 0) /\ game' = Set(game, c, "reset")
          /\ toClear' = Set(toClear, c, {"count", "list"})
      BY <2>2 DEF Scan, Advance
    <3>3. pos'[c] = 0 /\ game'[c] = "reset" /\ toClear'[c] = {"count", "list"}
      BY <1>0, <3>2 DEF TypeOK, Set
    <3>4. \A i \in Entries : i < pos[c] \/ i = pos[c]
      BY <3>1, CapAssumption DEF Entries
    <3> QED BY <1>0, <1>1, <1>5, <3>3, <3>4 DEF Tidy
  <2> QED BY <2>1, <2>2
<1>7. \A d \in Clients \ {c} : Tidy(d)'
  <2>1. \A d \in Clients \ {c} : game'[d] = game[d] /\ pos'[d] = pos[d] /\ toClear'[d] = toClear[d]
    BY <1>0 DEF Scan, Advance, Set, TypeOK
  <2> QED BY <1>1, <1>2, <2>1, TidySame DEF SharedInv
<1> QED BY <1>3, <1>4, <1>6, <1>7 DEF SharedInv

LEMMA ClearShares ==
  ASSUME ListInv, Orderly, Orderly', SharedInv,
         NEW c \in Clients, NEW part \in {"count", "list"}, Clear(c, part)
  PROVE  SharedInv'
<1>0. /\ TypeOK /\ Tidy(c) /\ game[c] = "reset" /\ reader[c] = "idle" /\ part \in toClear[c]
      /\ toClear[c] \subseteq {"count", "list"} /\ pos[c] = 0
      /\ DOMAIN list[c] = Entries
  BY CapAssumption DEF ListInv, Clear, SharedInv, Tidy, Orderly, Overlap, TypeOK
<1>1. UNCHANGED <<got, last, inbox, reader, held, index, pos>>
  BY DEF Clear, saveVars, wireVars, readVars
<1>2. /\ toClear'[c] = toClear[c] \ {part}
      /\ game'[c] = (IF toClear[c] = {part} THEN "idle" ELSE "reset")
      /\ count'[c] = (IF part = "count" THEN 0 ELSE count[c])
      /\ list'[c] = (IF part = "list" THEN Empty ELSE list[c])
      /\ \A d \in Clients \ {c} : toClear'[d] = toClear[d] /\ game'[d] = game[d]
                                  /\ count'[d] = count[d] /\ list'[d] = list[d]
  BY <1>0 DEF Clear, Set, TypeOK
<1>3. DOMAIN Empty = Entries /\ \A i \in Entries : Empty[i] = NoShine
  BY DEF Empty
<1>4. \A d \in Clients, s \in Shines : Has(d, s)' <=> Has(d, s)
  <2> TAKE d \in Clients, s \in Shines
  <2>1. CASE d = c
    <3>1. Holds(list[c], s) => s \in got[c]
      BY <1>0, NoShineAssumption DEF Tidy, Holds
    <3>2. Holds(list'[c], s) => Holds(list[c], s)
      BY <1>2, <1>3, NoShineAssumption DEF Holds
    <3> QED BY <1>1, <2>1, <3>1, <3>2 DEF Has
  <2>2. CASE d # c
    BY <1>1, <1>2, <2>2 DEF Has
  <2> QED BY <2>1, <2>2
<1>5. Everywhere'
  BY <1>4, EverywhereStep DEF SharedInv
<1>6. Tidy(c)'
  <2>1. /\ reader'[c] = "idle" /\ held'[c] = NoShine /\ pos'[c] = 0
        /\ game'[c] # "scan" /\ (game'[c] # "reset" => toClear'[c] = {})
        /\ (game'[c] = "reset" => toClear'[c] # {})
    BY <1>0, <1>1, <1>2 DEF Tidy
  <2>2. \A i \in Entries : list'[c][i] \in got'[c] \cup {NoShine}
    BY <1>0, <1>1, <1>2, <1>3 DEF Tidy
  <2>3. "list" \in toClear'[c] \/ list'[c] = Empty
    BY <1>0, <1>2 DEF Tidy
  <2>4. "count" \in toClear'[c] \/ count'[c] = 0
    BY <1>0, <1>2 DEF Tidy
  <2>5. game'[c] # "reset" => \A i \in Entries : list'[c][i] = NoShine
    BY <1>3, <2>1, <2>3
  <2> QED BY <2>1, <2>2, <2>3, <2>4, <2>5 DEF Tidy
<1>7. \A d \in Clients \ {c} : Tidy(d)'
  BY <1>1, <1>2, TidySame DEF SharedInv
<1>8. Reported'
  BY <1>1 DEF SharedInv, Reported
<1> QED BY <1>5, <1>6, <1>7, <1>8 DEF SharedInv

LEMMA CollectShares ==
  ASSUME ListInv, Orderly, Orderly', SharedInv,
         NEW c \in Clients, NEW x \in Finds[c], Collect(c, x)
  PROVE  SharedInv'
<1>0. TypeOK /\ Reported /\ x \in Shines /\ x \notin got[c]
  BY FindsAssumption DEF ListInv, SharedInv, Collect
<1>1. /\ last' = Set(last, c, x)
      /\ inbox' = [d \in Clients |-> IF d = c THEN inbox[d] ELSE Append(inbox[d], x)]
  BY <1>0, ReportSends DEF Collect
<1>2. /\ got'[c] = got[c] \cup {x} /\ \A d \in Clients \ {c} : got'[d] = got[d]
      /\ UNCHANGED <<list, count, reader, held, index, game, pos, toClear>>
  BY <1>0 DEF Collect, Set, TypeOK, readVars, gameVars
<1>3. \A d \in Clients, s \in Shines : Holds(inbox'[d], s) <=> Holds(inbox[d], s) \/ (d # c /\ s = x)
  BY <1>0, <1>1, ReportHas
<1>4. Everywhere'
  <2>1. \A d \in Clients, s \in Shines : Has(d, s) => Has(d, s)'
    BY <1>2, <1>3 DEF Has
  <2>2. \A d \in Clients, s \in Shines : Has(d, s)' => Has(d, s) \/ s = x
    BY <1>2, <1>3 DEF Has
  <2>3. \A e \in Clients : Has(e, x)'
    BY <1>0, <1>2, <1>3 DEF Has
  <2> QED BY <2>1, <2>2, <2>3, EverywhereStep DEF SharedInv
<1>5. \A d \in Clients : Tidy(d)'
  <2>1. \A d \in Clients : got[d] \subseteq got'[d]
    BY <1>2
  <2> QED BY <1>2, <2>1, TidySame DEF SharedInv
<1>6. Reported'
  BY <1>0, <1>1, <1>2 DEF Reported, Set, TypeOK
<1> QED BY <1>4, <1>5, <1>6 DEF SharedInv

LEMMA StepShares ==
  ListInv /\ Orderly /\ Orderly' /\ SharedInv /\ [Next]_vars => SharedInv'
<1> SUFFICES ASSUME ListInv, Orderly, Orderly', SharedInv, [Next]_vars PROVE SharedInv'
  OBVIOUS
<1>1. ASSUME UNCHANGED <<got, last, inbox, held, list, count, reader, index, game, pos, toClear>>
      PROVE  SharedInv'
  BY <1>1 DEF SharedInv, Everywhere, Has, Reported, Tidy
<1>2. ASSUME NEW c \in Clients, LeaveCapWorld(c) PROVE SharedInv'
  BY <1>1, <1>2 DEF LeaveCapWorld, wireVars, readVars, gameVars
<1>3. CASE UNCHANGED vars
  BY <1>1, <1>3 DEF vars, saveVars, wireVars, readVars, gameVars
<1> QED
  BY <1>2, <1>3, AdmitShares, WriteShares, BumpShares, FrameShares, ScanShares, ClearShares,
     CollectShares
  DEF Next, ReadThread, UpdateShines, Player

\* A client on which no report waits, is taken over or is still in the list.
Idle(c) == inbox[c] = <<>> /\ reader[c] = "idle" /\ list[c] = Empty

Agreed == (\A c \in Clients : Idle(c)) => \A c, d \in Clients : got[c] = got[d]

\* While threads do not overlap, no list is full and no report is refused, all
\* save files have the same shines whenever no report is left anywhere: the
\* echoes getDirect sends, and the reports lastCollectedShine keeps back, lose
\* and invent nothing.  (That it comes to that is SharedUnlessOverlap.)
THEOREM SharedWhenIdle == Spec /\ []Orderly => []Agreed
<1>1. Init => SharedInv
  <2> SUFFICES ASSUME Init PROVE SharedInv
    OBVIOUS
  <2>1. \A c \in Clients : /\ got[c] = {} /\ last[c] = NoShine /\ inbox[c] = <<>>
                           /\ list[c] = Empty /\ count[c] = 0 /\ reader[c] = "idle"
                           /\ held[c] = NoShine /\ game[c] = "idle" /\ pos[c] = 0 /\ toClear[c] = {}
    BY DEF Init
  <2>2. \A i \in Entries : Empty[i] = NoShine
    BY DEF Empty
  <2>3. \A s \in Shines : ~Holds(<<>>, s) /\ ~Holds(Empty, s)
    BY NoShineAssumption DEF Holds, Empty
  <2>4. Everywhere
    BY <2>1, <2>3, NoShineAssumption DEF Everywhere, Has
  <2> QED BY <2>1, <2>2, <2>4 DEF SharedInv, Reported, Tidy
<1>2. ListInv /\ SharedInv => Agreed
  <2> SUFFICES ASSUME ListInv, SharedInv, \A c \in Clients : Idle(c), NEW c \in Clients, NEW d \in Clients
               PROVE  got[c] \subseteq got[d]
    BY DEF Agreed
  <2>1. \A s \in Shines : ~Holds(<<>>, s) /\ ~Holds(Empty, s)
    BY NoShineAssumption DEF Holds, Empty
  <2>2. inbox[d] = <<>> /\ list[d] = Empty /\ held[d] = NoShine
    BY DEF Idle, SharedInv, Tidy
  <2>3. \A s \in Shines : Has(d, s) => s \in got[d]
    BY <2>1, <2>2, NoShineAssumption DEF Has
  <2>4. \A s \in got[c] : s \in Shines /\ Has(c, s)
    BY DEF ListInv, TypeOK, Has
  <2> QED BY <2>3, <2>4 DEF SharedInv, Everywhere
<1> QED BY InitList, StepList, StepShares, <1>1, <1>2, PTL DEF Spec

=============================================================================
