------------------------- MODULE PuppetTableProofs -------------------------
(***************************************************************************)
(* Theorems about PuppetTable, for any number of players, slots and        *)
(* puppets: the type invariant, one slot per player (while the limit does  *)
(* not shrink), and the bound on mConnectCount.                            *)
(***************************************************************************)
EXTENDS PuppetTable, FiniteSetTheorems, TLAPS

USE SlotsAssumption, LimitsAssumption, NoOneAssumption, NoStageAssumption

\* findPuppetInfo answers at most one slot: one it looked at, which has the id,
\* or, only when no slot has it and a free one was asked for, is not connected.
LEMMA FoundSlot ==
  ASSUME NEW p
  PROVE  /\ \A i \in Found(p) : i \in Slots /\ i <= limit /\ id[i] = p
         /\ \A i \in FoundOrFree(p) :
              /\ i \in Slots /\ i <= limit
              /\ id[i] = p \/ (\A j \in Slots : j <= limit => id[j] # p)
         /\ \A i, j \in Found(p) : i = j
         /\ \A i, j \in FoundOrFree(p) : i = j
  BY DEF Found, FoundOrFree, First, Known, Free, InRange, Slots

\* updatePlayerConnect changes nothing, or connects one slot that was free.
LEMMA ConEffect ==
  ASSUME NEW p, PlayerCon(p)
  PROVE  /\ UNCHANGED <<stage, limit, scene>>
         /\ \/ UNCHANGED <<id, conn, count>>
            \/ \E i \in Slots :
                 /\ i <= limit /\ ~conn[i]
                 /\ id[i] = p \/ (\A j \in Slots : j <= limit => id[j] # p)
                 /\ id' = [id EXCEPT ![i] = p]
                 /\ conn' = [conn EXCEPT ![i] = TRUE]
                 /\ count' = count + 1
<1>1. CASE \E i \in FoundOrFree(p) : ~conn[i]
  <2>1. PICK i \in FoundOrFree(p) : ~conn[i]
    BY <1>1
  <2>2. PICK k \in FoundOrFree(p) : /\ id' = [id EXCEPT ![k] = p]
                                    /\ conn' = [conn EXCEPT ![k] = TRUE]
                                    /\ count' = count + 1
    BY <1>1 DEF PlayerCon
  <2>3. i = k
    BY FoundSlot
  <2> QED
    BY <2>1, <2>2, <2>3, FoundSlot DEF PlayerCon
<1>2. CASE ~\E i \in FoundOrFree(p) : ~conn[i]
  BY <1>2 DEF PlayerCon
<1> QED
  BY <1>1, <1>2

\* disconnectPlayer changes nothing, or disconnects one slot that was connected.
LEMMA DcEffect ==
  ASSUME NEW p, PlayerDC(p)
  PROVE  /\ UNCHANGED <<id, limit, myStage, puppets, shown, frame>>
         /\ \/ UNCHANGED <<conn, stage, inSame, count>>
            \/ \E i \in Slots :
                 /\ conn[i]
                 /\ conn' = [conn EXCEPT ![i] = FALSE]
                 /\ stage' = [stage EXCEPT ![i] = NoStage]
                 /\ inSame' = [inSame EXCEPT ![i] = FALSE]
                 /\ count' = count - 1
<1>1. CASE \E i \in Found(p) : conn[i]
  <2>1. PICK i \in Found(p) : conn[i]
    BY <1>1
  <2>2. PICK k \in Found(p) : /\ conn' = [conn EXCEPT ![k] = FALSE]
                              /\ stage' = [stage EXCEPT ![k] = NoStage]
                              /\ inSame' = [inSame EXCEPT ![k] = FALSE]
                              /\ count' = count - 1
    BY <1>1 DEF PlayerDC
  <2>3. i = k
    BY FoundSlot
  <2> QED
    BY <2>1, <2>2, <2>3, FoundSlot DEF PlayerDC
<1>2. CASE ~\E i \in Found(p) : conn[i]
  BY <1>2 DEF PlayerDC
<1> QED
  BY <1>1, <1>2

\* PuppetHolder and Client: every variable keeps its shape in every step.
LEMMA TypeStep == TypeOK /\ [Next]_vars => TypeOK'
<1> SUFFICES ASSUME TypeOK, [Next]_vars PROVE TypeOK'
  OBVIOUS
<1> USE DEF TypeOK, table, scene, frame
<1>1. ASSUME NEW p \in Players, PlayerCon(p) PROVE TypeOK'
  <2>1. CASE UNCHANGED <<id, conn, count>>
    BY <1>1, <2>1, ConEffect
  <2>2. ASSUME NEW i \in Slots, id' = [id EXCEPT ![i] = p],
               conn' = [conn EXCEPT ![i] = TRUE], count' = count + 1
        PROVE  TypeOK'
    <3>1. UNCHANGED <<stage, limit, scene>>
      BY <1>1, ConEffect
    <3> QED
      BY <2>2, <3>1
  <2> QED
    BY <1>1, <2>1, <2>2, ConEffect
<1>2. ASSUME NEW p \in Players, PlayerDC(p) PROVE TypeOK'
  <2>1. CASE UNCHANGED <<conn, stage, inSame, count>>
    BY <1>2, <2>1, DcEffect
  <2>2. ASSUME NEW i \in Slots, conn' = [conn EXCEPT ![i] = FALSE],
               stage' = [stage EXCEPT ![i] = NoStage],
               inSame' = [inSame EXCEPT ![i] = FALSE], count' = count - 1
        PROVE  TypeOK'
    <3>1. UNCHANGED <<id, limit, myStage, puppets, shown, frame>>
      BY <1>2, DcEffect
    <3> QED
      BY <2>2, <3>1
  <2> QED
    BY <1>2, <2>1, <2>2, DcEffect
<1>3. ASSUME NEW p \in Players, PlayerInf(p) PROVE TypeOK'
  BY <1>3 DEF PlayerInf
<1>4. ASSUME NEW p \in Players, NEW s \in Stages \cup {NoStage}, GameInf(p, s) PROVE TypeOK'
  BY <1>4 DEF GameInf
<1>5. ASSUME NEW n \in Limits, ClientInit(n) PROVE TypeOK'
  BY <1>5 DEF ClientInit
<1>6. ASSUME NEW s \in Stages, StageInit(s) PROVE TypeOK'
  BY <1>6 DEF StageInit, Lesser
<1>7. CASE HolderCheck
  <2>1. scan + 1 \in 1..puppets /\ scan + 1 \in Slots
    BY <1>7 DEF HolderCheck, Slots
  <2>2. IsInStage(scan + 1) \in BOOLEAN
    BY <2>1 DEF IsInStage
  <2> QED
    BY <1>7, <2>1, <2>2 DEF HolderCheck
<1>8. CASE HolderWrite
  BY <1>8 DEF HolderWrite
<1>9. CASE HolderShow
  <2>1. scan \in 1..puppets
    BY <1>9 DEF HolderShow
  <2> QED
    BY <1>9, <2>1 DEF HolderShow
<1>10. CASE UNCHANGED vars
  BY <1>10 DEF vars
<1> QED
  BY <1>1, <1>2, <1>3, <1>4, <1>5, <1>6, <1>7, <1>8, <1>9, <1>10
     DEF Next, Handler, Game, Update

\* Type correctness: whatever packets come, the table, the counter and the
\* frame of Client::update keep their shape.
THEOREM TypeCorrect == Spec => []TypeOK
<1>1. Init => TypeOK
  <2> SUFFICES ASSUME Init PROVE TypeOK
    OBVIOUS
  <2>1. puppets \in 0..HolderCap /\ scan \in 0..puppets /\ shown \subseteq 1..puppets
    BY DEF Init
  <2>2. /\ id \in [Slots -> Players \cup {NoOne}] /\ stage \in [Slots -> Stages \cup {NoStage}]
        /\ conn \in [Slots -> BOOLEAN] /\ inSame \in [Slots -> BOOLEAN]
    BY DEF Init
  <2>3. limit \in Limits /\ count \in Int /\ myStage \in Stages
    BY DEF Init
  <2>4. step = "check" /\ verdict \in BOOLEAN
    BY DEF Init
  <2> QED
    BY <2>1, <2>2, <2>3, <2>4 DEF TypeOK
<1> QED
  BY <1>1, TypeStep, PTL DEF Spec

-----------------------------------------------------------------------------
(* One slot per player.  NobodyBeyondLimit is what makes it inductive: an  *)
(* id in a slot findPuppetInfo does not look at could be given out again.  *)

SlotInv == OneSlotPerPlayer /\ NobodyBeyondLimit

LEMMA SlotStep == ~MayShrink /\ TypeOK /\ SlotInv /\ [Next]_vars => SlotInv'
<1> SUFFICES ASSUME ~MayShrink, TypeOK, SlotInv, [Next]_vars PROVE SlotInv'
  OBVIOUS
<1> USE DEF SlotInv, OneSlotPerPlayer, NobodyBeyondLimit
<1>0. limit \in Nat
  BY DEF TypeOK
<1>1. ASSUME NEW p \in Players, PlayerCon(p) PROVE SlotInv'
  BY <1>0, <1>1, ConEffect DEF TypeOK, Slots
<1>2. ASSUME NEW p \in Players, PlayerDC(p) PROVE SlotInv'
  BY <1>2, DcEffect DEF TypeOK
<1>3. ASSUME NEW p \in Players, PlayerInf(p) PROVE SlotInv'
  <2>1. conn' = [i \in Slots |-> conn[i] \/ i \in Found(p)] /\ UNCHANGED <<id, limit>>
    BY <1>3 DEF PlayerInf
  <2> QED
    BY <2>1, <1>0, FoundSlot DEF Slots
<1>4. ASSUME NEW p \in Players, NEW s \in Stages \cup {NoStage}, GameInf(p, s) PROVE SlotInv'
  BY <1>4 DEF GameInf
<1>5. ASSUME NEW n \in Limits, ClientInit(n) PROVE SlotInv'
  BY <1>5, <1>0 DEF ClientInit, Slots
<1>6. CASE Game
  BY <1>6 DEF Game, StageInit, Update, HolderCheck, HolderWrite, HolderShow, table
<1>7. CASE UNCHANGED vars
  BY <1>7 DEF vars, table
<1> QED
  BY <1>1, <1>2, <1>3, <1>4, <1>5, <1>6, <1>7 DEF Next, Handler

\* No player ever has two slots, and none sits beyond the limit, as long as no
\* CLIENTINIT lowers it (findPuppetInfo, updatePlayerConnect).
THEOREM OneSlot == ~MayShrink => (Spec => [](OneSlotPerPlayer /\ NobodyBeyondLimit))
<1>1. Init => SlotInv
  BY DEF Init, SlotInv, OneSlotPerPlayer, NobodyBeyondLimit
<1>2. ASSUME ~MayShrink PROVE SlotInv /\ TypeOK /\ [Next]_vars => SlotInv'
  BY <1>2, SlotStep
<1> SUFFICES ASSUME ~MayShrink PROVE Spec => []SlotInv
  BY DEF SlotInv
<1> QED
  BY <1>1, <1>2, TypeCorrect, PTL DEF Spec

\* The half of it that a change of the limit endangers: CLIENTINIT leaves no
\* player in a slot that findPuppetInfo no longer looks at.
THEOREM NobodyStranded == ~MayShrink => (Spec => []NobodyBeyondLimit)
<1> SUFFICES ASSUME ~MayShrink PROVE Spec => []NobodyBeyondLimit
  OBVIOUS
<1>1. Spec => [](OneSlotPerPlayer /\ NobodyBeyondLimit)
  BY OneSlot
<1> QED
  BY <1>1, PTL

-----------------------------------------------------------------------------
(* The counter.                                                            *)

LEMMA FiniteSlots ==
  ASSUME NEW S \in SUBSET Slots
  PROVE  IsFiniteSet(S) /\ Cardinality(S) \in Int
<1>1. IsFiniteSet(Slots)
  BY FS_Interval DEF Slots
<1>2. IsFiniteSet(S)
  BY <1>1, FS_Subset
<1> QED
  BY <1>2, FS_CardinalityType

LEMMA ConnectedFinite ==
  /\ IsFiniteSet(ConnectedSlots) /\ Cardinality(ConnectedSlots) \in Int
  /\ IsFiniteSet(ConnectedSlots') /\ Cardinality(ConnectedSlots') \in Int
<1>1. ConnectedSlots \in SUBSET Slots /\ ConnectedSlots' \in SUBSET Slots
  BY DEF ConnectedSlots
<1> QED
  BY <1>1, FiniteSlots

LEMMA CountStep == TypeOK /\ CountNeverOverstates /\ [Next]_vars => CountNeverOverstates'
<1> SUFFICES ASSUME TypeOK, CountNeverOverstates, [Next]_vars PROVE CountNeverOverstates'
  OBVIOUS
<1> USE DEF CountNeverOverstates
<1>0. count \in Int
  BY DEF TypeOK
<1>1. ASSUME UNCHANGED <<conn, count>> PROVE CountNeverOverstates'
  BY <1>1 DEF ConnectedSlots
<1>2. ASSUME NEW p \in Players, PlayerCon(p) PROVE CountNeverOverstates'
  <2>1. CASE UNCHANGED <<conn, count>>
    BY <1>1, <2>1
  <2>2. ASSUME NEW i \in Slots, ~conn[i], conn' = [conn EXCEPT ![i] = TRUE], count' = count + 1
        PROVE  CountNeverOverstates'
    <3>1. ConnectedSlots' = ConnectedSlots \cup {i} /\ i \notin ConnectedSlots
      BY <2>2 DEF ConnectedSlots, TypeOK
    <3>2. Cardinality(ConnectedSlots') = Cardinality(ConnectedSlots) + 1
      BY <3>1, FS_AddElement, ConnectedFinite
    <3> QED
      BY <1>0, <2>2, <3>2, ConnectedFinite
  <2> QED
    BY <1>2, <2>1, <2>2, ConEffect
<1>3. ASSUME NEW p \in Players, PlayerDC(p) PROVE CountNeverOverstates'
  <2>1. CASE UNCHANGED <<conn, count>>
    BY <1>1, <2>1
  <2>2. ASSUME NEW i \in Slots, conn[i], conn' = [conn EXCEPT ![i] = FALSE], count' = count - 1
        PROVE  CountNeverOverstates'
    <3>1. ConnectedSlots' = ConnectedSlots \ {i} /\ i \in ConnectedSlots
      BY <2>2 DEF ConnectedSlots, TypeOK
    <3>2. Cardinality(ConnectedSlots') = Cardinality(ConnectedSlots) - 1
      BY <3>1, FS_RemoveElement, ConnectedFinite
    <3> QED
      BY <1>0, <2>2, <3>2, ConnectedFinite
  <2> QED
    BY <1>3, <2>1, <2>2, DcEffect
<1>4. ASSUME NEW p \in Players, PlayerInf(p) PROVE CountNeverOverstates'
  <2>1. ConnectedSlots \subseteq ConnectedSlots' /\ count' = count
    BY <1>4 DEF PlayerInf, ConnectedSlots
  <2>2. Cardinality(ConnectedSlots) <= Cardinality(ConnectedSlots')
    BY <2>1, FS_Subset, ConnectedFinite
  <2> QED
    BY <1>0, <2>1, <2>2, ConnectedFinite
<1>5. ASSUME NEW p \in Players, NEW s \in Stages \cup {NoStage}, GameInf(p, s)
      PROVE  CountNeverOverstates'
  BY <1>1, <1>5 DEF GameInf
<1>6. ASSUME NEW n \in Limits, ClientInit(n) PROVE CountNeverOverstates'
  BY <1>1, <1>6 DEF ClientInit
<1>7. CASE Game
  BY <1>1, <1>7 DEF Game, StageInit, Update, HolderCheck, HolderWrite, HolderShow, table
<1>8. CASE UNCHANGED vars
  BY <1>1, <1>8 DEF vars, table
<1> QED
  BY <1>2, <1>3, <1>4, <1>5, <1>6, <1>7, <1>8 DEF Next, Handler

\* mConnectCount is never above the number of connected slots, for any order of
\* packets and any change of the limit (updatePlayerConnect, disconnectPlayer,
\* updatePlayerInfo).
THEOREM CountBounded == Spec => []CountNeverOverstates
<1>1. Init => CountNeverOverstates
  <2>1. Init => ConnectedSlots = {} /\ count = 0
    BY DEF Init, ConnectedSlots
  <2> QED
    BY <2>1, FS_EmptySet DEF CountNeverOverstates
<1>2. TypeOK /\ CountNeverOverstates /\ [Next]_vars => CountNeverOverstates'
  BY CountStep
<1> QED
  BY <1>1, <1>2, TypeCorrect, PTL DEF Spec

=============================================================================
