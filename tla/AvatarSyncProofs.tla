-------------------------- MODULE AvatarSyncProofs --------------------------
(***************************************************************************)
(* Proofs about PuppetModel and AvatarSync, for any captures, queues and   *)
(* bounds.  PuppetModel, whatever packets come: one model is alive per     *)
(* living puppet, and a puppet of a slot that changes nothing after the    *)
(* stage was loaded shows the right one.  AvatarSync: it implements        *)
(* PuppetModel, so the same holds of the puppet here; and when nothing is  *)
(* under way, the other client knows capture and dimension of the player,  *)
(* but for the gaps "late" names.                                          *)
(*                                                                         *)
(* The argument for the last: of each kind, the last packet on its way     *)
(* (in the queue, else on the wire) carries the last change or is a backup *)
(* that holds it; when none is on its way, the slot shows it ("Way").      *)
(***************************************************************************)
EXTENDS AvatarSync, TLAPS

-----------------------------------------------------------------------------
(* PuppetModel.                                                            *)

\* The label of a player's own model.
Label(flat) == IF flat THEN "Normal2D" ELSE "Normal"

\* While the slot does not change, the puppet's own copies of it are known: in
\* the first frame those of a new puppet, then those of the slot.
Follows ==
  /\ settled # "no" => naming = NoHack
  /\ settled = "new" =>
       /\ ~puppet.capture
       /\ puppet.flat = (pc = "capture" /\ info.flat)
       /\ puppet.label = Label(puppet.flat)
  /\ settled = "yes" =>
       /\ puppet.flat = info.flat
       /\ puppet.label = Label(info.flat)
       /\ puppet.capture = info.captured
       /\ puppet.capture => puppet.current = setCurrent(info.hack)

ModelInv == ModelTypeOK /\ OneModel /\ Follows

-----------------------------------------------------------------------------
\* The current model is one of the puppet's.
LEMMA CurrentIsModel ==
  ASSUME NEW p \in Puppets
  PROVE  Current(p) \in Labels \cup Listed
BY DEF Puppets, Current, Names

\* The label that belongs to a dimension is a label.
LEMMA LabelIsLabel == \A flat \in BOOLEAN : Label(flat) \in Labels
BY DEF Label, Labels

\* To become another puppet keeps exactly the current model alive.
LEMMA BecomesOne ==
  ASSUME ModelTypeOK, OneModel, puppet.alive,
         NEW p \in Puppets, p.alive, Becomes(p)
  PROVE  /\ puppet' = p
         /\ models' \subseteq Labels \cup Listed
         /\ OneModel'
<1>1. models = {Current(puppet)} /\ models' = {Current(p)} /\ puppet' = p
  BY DEF OneModel, Becomes
<1>2. Current(p) \in Labels \cup Listed
  BY CurrentIsModel
<1>3. Current(puppet)' = Current(p)
  BY <1>1 DEF Current
<1> QED
  BY <1>1, <1>2, <1>3 DEF OneModel

LEMMA NewPuppetIsPuppet == NewPuppet \in Puppets
BY DEF NewPuppet, Puppets, Labels

LEMMA InitInv == Init => ModelInv
<1> SUFFICES ASSUME Init PROVE ModelInv
  OBVIOUS
<1>1. ModelTypeOK
  BY NewPuppetIsPuppet DEF Init, ModelTypeOK, Infos, Names
<1>2. OneModel
  BY DEF Init, OneModel, NewPuppet
<1>3. Follows
  BY DEF Init, Follows, NewPuppet, Label
<1> QED
  BY <1>1, <1>2, <1>3 DEF ModelInv

\* The read thread leaves the puppet alone, and unsettles it with every change.
LEMMA ReadStep ==
  ASSUME ModelInv, (\E h \in Names : CaptureInf(h)) \/ CopyHack \/ (\E flat \in BOOLEAN : GameInf(flat))
  PROVE  ModelInv'
<1> USE DEF ModelInv
<1>1. UNCHANGED <<puppet, models, pc>>
  BY DEF CaptureInf, CopyHack, GameInf, puppetVars
<1>2. OneModel'
  BY <1>1 DEF OneModel, Current
<1> DEFINE Unsettled == settled' = "no" \/ (settled' = settled /\ info' = info /\ naming' = NoHack)
<1>t. info \in Infos /\ naming \in Names /\ settled \in {"new", "yes", "no"}
  BY DEF ModelTypeOK
<1>3. info' \in Infos /\ naming' \in Names /\ settled' \in {"new", "yes", "no"} /\ Unsettled
  <2>1. ASSUME NEW h \in Names, CaptureInf(h)
        PROVE  info' \in Infos /\ naming' \in Names /\ settled' \in {"new", "yes", "no"} /\ Unsettled
    <3>1. (h # NoHack) \in BOOLEAN
      OBVIOUS
    <3>2. info' \in Infos
      BY <1>t, <2>1, <3>1 DEF CaptureInf, Infos
    <3>3. naming' = h /\ settled' = IF info' = info /\ naming' = NoHack THEN settled ELSE "no"
      BY <2>1 DEF CaptureInf
    <3> QED
      BY <1>t, <3>2, <3>3
  <2>2. CASE CopyHack
    <3>1. info' \in Infos
      BY <1>t, <2>2 DEF CopyHack, Infos, Names
    <3>2. naming' = NoHack /\ settled' = "no"
      BY <2>2 DEF CopyHack
    <3> QED
      BY <3>1, <3>2 DEF Names
  <2>3. ASSUME NEW flat \in BOOLEAN, GameInf(flat)
        PROVE  info' \in Infos /\ naming' \in Names /\ settled' \in {"new", "yes", "no"} /\ Unsettled
    <3>1. info' \in Infos
      BY <1>t, <2>3 DEF GameInf, Infos
    <3>2. naming' = NoHack /\ settled' = IF info' = info THEN settled ELSE "no"
      BY <2>3 DEF GameInf
    <3> QED
      BY <1>t, <3>1, <3>2 DEF Names
  <2> QED
    BY <2>1, <2>2, <2>3
<1>4. ModelTypeOK'
  BY <1>1, <1>3 DEF ModelTypeOK
<1>5. Follows'
  BY <1>1, <1>3 DEF Follows, Label, setCurrent
<1> QED
  BY <1>2, <1>4, <1>5

\* A stage, and what PuppetHolder does.
LEMMA HolderStep ==
  ASSUME ModelInv, NewScene \/ Wake \/ Kill
  PROVE  ModelInv'
<1> USE DEF ModelInv
<1>1. CASE NewScene
  <2>1. ModelTypeOK'
    BY <1>1, NewPuppetIsPuppet DEF NewScene, ModelTypeOK, NewPuppet
  <2>2. OneModel'
    BY <1>1 DEF NewScene, OneModel, NewPuppet
  <2>3. Follows'
    BY <1>1 DEF NewScene, Follows, NewPuppet, Label
  <2> QED
    BY <2>1, <2>2, <2>3
<1>2. CASE Wake
  <2>1. puppet' \in Puppets /\ puppet'.alive /\ Current(puppet)' = Current(puppet)
        /\ puppet' = [puppet EXCEPT !.alive = TRUE]
    BY <1>2 DEF Wake, ModelTypeOK, Puppets, Current
  <2>2. models = {} /\ models' = {Current(puppet)}
    BY <1>2 DEF Wake, OneModel
  <2>3. ModelTypeOK'
    BY <1>2, <2>1, <2>2, CurrentIsModel DEF Wake, ModelTypeOK
  <2>4. OneModel'
    BY <2>1, <2>2 DEF OneModel
  <2>5. Follows'
    BY <1>2, <2>1 DEF Wake, Follows, ModelTypeOK, Puppets, Label, setCurrent
  <2> QED
    BY <2>3, <2>4, <2>5
<1>3. CASE Kill
  <2>1. puppet' \in Puppets /\ ~puppet'.alive
        /\ puppet' = [puppet EXCEPT !.alive = FALSE]
    BY <1>3 DEF Kill, ModelTypeOK, Puppets
  <2>2. models' = {}
    BY <1>3 DEF Kill, OneModel
  <2>3. ModelTypeOK'
    BY <1>3, <2>1, <2>2 DEF Kill, ModelTypeOK
  <2>4. OneModel'
    BY <2>1, <2>2 DEF OneModel
  <2>5. Follows'
    BY <1>3, <2>1 DEF Kill, Follows, ModelTypeOK, Puppets, Label, setCurrent
  <2> QED
    BY <2>3, <2>4, <2>5
<1> QED
  BY <1>1, <1>2, <1>3

\* The first half of a frame.
LEMMA FlatStep ==
  ASSUME ModelInv, SwitchFlat
  PROVE  ModelInv'
<1> USE DEF ModelInv
<1> DEFINE p == [puppet EXCEPT !.flat = info.flat, !.label = Label(info.flat)]
<1>1. p \in Puppets /\ p.alive /\ puppet.alive
  BY LabelIsLabel DEF ModelTypeOK, Puppets, Infos, SwitchFlat
<1>2. CASE puppet.flat # info.flat
  <2>1. Becomes(p)
    BY <1>2 DEF SwitchFlat, Label
  <2>2. puppet' = p /\ models' \subseteq Labels \cup Listed /\ OneModel'
    BY <1>1, <2>1, BecomesOne
  <2>3. ModelTypeOK'
    BY <1>1, <2>2 DEF ModelTypeOK, SwitchFlat
  <2>4. Follows'
    BY <1>2, <2>2 DEF Follows, ModelTypeOK, Puppets, Infos, SwitchFlat, Label
  <2> QED
    BY <2>2, <2>3, <2>4
<1>3. CASE puppet.flat = info.flat
  <2>1. UNCHANGED <<puppet, models, info, naming, settled>> /\ pc' = "capture"
    BY <1>3 DEF SwitchFlat
  <2>2. ModelTypeOK' /\ OneModel'
    BY <1>1, <2>1 DEF ModelTypeOK, OneModel, Current
  <2>3. Follows'
    BY <1>3, <2>1 DEF Follows, ModelTypeOK, Puppets, Infos, Label, setCurrent
  <2> QED
    BY <2>2, <2>3
<1> QED
  BY <1>2, <1>3

\* The second half: what curHack reads as is settled, or the puppet is not.
LEMMA CaptureStep ==
  ASSUME ModelInv, SwitchCapture
  PROVE  ModelInv'
<1> USE DEF ModelInv
<1>1. puppet.alive /\ pc = "capture" /\ pc' = "flat" /\ UNCHANGED <<info, naming>>
      /\ settled' = IF settled = "new" THEN "yes" ELSE settled
  BY DEF SwitchCapture, ModelTypeOK
<1>2. CASE StartCapture
  <2>1. PICK h \in HackRead :
          Becomes([puppet EXCEPT !.capture = TRUE, !.current = setCurrent(h)])
    BY <1>2 DEF StartCapture
  <2> DEFINE p == [puppet EXCEPT !.capture = TRUE, !.current = setCurrent(h)]
  <2>2. p \in Puppets /\ p.alive
    BY <1>1 DEF ModelTypeOK, Puppets, setCurrent
  <2>3. puppet' = p /\ models' \subseteq Labels \cup Listed /\ OneModel'
    BY <1>1, <2>1, <2>2, BecomesOne
  <2>4. ModelTypeOK'
    BY <1>1, <2>2, <2>3 DEF ModelTypeOK
  <2>5. info.captured /\ ~puppet.capture
    BY <1>2 DEF StartCapture
  <2>6. settled # "no" => h = info.hack
    BY DEF Follows, HackRead
  <2>7. p.capture /\ p.current = setCurrent(h) /\ p.flat = puppet.flat /\ p.label = puppet.label
    BY DEF ModelTypeOK, Puppets
  <2>8. puppet.flat \in BOOLEAN /\ info.flat \in BOOLEAN /\ info.captured \in BOOLEAN
    BY DEF ModelTypeOK, Puppets, Infos
  <2>9. Follows'
    BY <1>1, <2>3, <2>5, <2>6, <2>7, <2>8 DEF Follows, Label, setCurrent
  <2> QED
    BY <2>3, <2>4, <2>9
<1>3. CASE EndCapture
  <2> DEFINE p == [puppet EXCEPT !.capture = FALSE, !.label = "Normal"]
  <2>1. Becomes(p) /\ ~info.captured /\ puppet.capture
    BY <1>3 DEF EndCapture
  <2>2. p \in Puppets /\ p.alive
    BY <1>1 DEF ModelTypeOK, Puppets, Labels
  <2>3. puppet' = p /\ models' \subseteq Labels \cup Listed /\ OneModel'
    BY <1>1, <2>1, <2>2, BecomesOne
  <2>4. ModelTypeOK'
    BY <1>1, <2>2, <2>3 DEF ModelTypeOK
  <2>5. settled = "no"
    BY <2>1 DEF Follows, ModelTypeOK
  <2>6. Follows'
    BY <1>1, <2>5 DEF Follows
  <2> QED
    BY <2>3, <2>4, <2>6
<1>4. CASE info.captured = puppet.capture /\ UNCHANGED <<puppet, models>>
  <2>1. ModelTypeOK' /\ OneModel'
    BY <1>1, <1>4 DEF ModelTypeOK, OneModel, Current
  <2>2. puppet.flat \in BOOLEAN /\ info.flat \in BOOLEAN /\ info.captured \in BOOLEAN
    BY DEF ModelTypeOK, Puppets, Infos
  <2>3. Follows'
    BY <1>1, <1>4, <2>2 DEF Follows, Label, setCurrent
  <2> QED
    BY <2>1, <2>3
<1> QED
  BY <1>2, <1>3, <1>4 DEF SwitchCapture

LEMMA NextInv == ModelInv /\ [Next]_vars => ModelInv'
<1> SUFFICES ASSUME ModelInv, [Next]_vars
             PROVE  ModelInv'
  OBVIOUS
<1>1. CASE Next
  BY <1>1, ReadStep, HolderStep, FlatStep, CaptureStep DEF Next, Game, Control
<1>2. CASE UNCHANGED vars
  BY <1>2 DEF vars, puppetVars, ModelInv, ModelTypeOK, OneModel, Follows, Current, setCurrent, Label
<1> QED
  BY <1>1, <1>2

THEOREM Invariant == Spec => []ModelInv
BY InitInv, NextInv, PTL DEF Spec

\* PuppetActor and the slot keep their shapes, whatever packets come.
THEOREM ModelTypes == Spec => []ModelTypeOK
<1>1. ModelInv => ModelTypeOK
  BY DEF ModelInv
<1> QED
  BY <1>1, Invariant, PTL

\* However the read thread's writes fall between the game thread's reads, a
\* living puppet has exactly one living model, a dead one none: the changes of
\* changeModel, the captures and the holder never kill or revive the wrong one.
THEOREM OneModelLives == Spec => []OneModel
<1>1. ModelInv => OneModel
  BY DEF ModelInv
<1> QED
  BY <1>1, Invariant, PTL

\* A puppet made after the last change of its slot shows, from its first frame,
\* what the slot calls for.
THEOREM FreshPuppetShown == Spec => []FreshShown
<1>1. ModelInv => FreshShown
  <2> SUFFICES ASSUME ModelInv, settled = "yes", puppet.alive
               PROVE  Current(puppet) = Wanted(info)
    BY DEF FreshShown, ModelInv, OneModel
  <2>1. puppet.label = Label(info.flat) /\ puppet.capture = info.captured
        /\ (puppet.capture => puppet.current = setCurrent(info.hack))
    BY DEF ModelInv, Follows
  <2> QED
    BY <2>1, HacksAssumption DEF Current, Wanted, Label, setCurrent
<1> QED
  BY <1>1, Invariant, PTL

-----------------------------------------------------------------------------
(* AvatarSync.                                                             *)

\* The value of the last packet of that kind, if there is one, is in V.
LastIs(s, kind, V) ==
  \A k \in DOMAIN s :
    s[k].kind = kind /\ (\A j \in DOMAIN s : j > k => s[j].kind # kind) => s[k].value \in V

Way(q, w, kind, v, V, x) ==
  IF Has(q, kind) THEN LastIs(q, kind, V)
  ELSE IF Has(w, kind) THEN LastIs(w, kind, {v})
  ELSE x = v

-----------------------------------------------------------------------------
(* Sequences of packets.                                                   *)

LEMMA AppendOther ==
  ASSUME NEW S, NEW s \in Seq(S), NEW p \in S, NEW kind, NEW V, p.kind # kind
  PROVE  /\ Has(Append(s, p), kind) <=> Has(s, kind)
         /\ LastIs(s, kind, V) => LastIs(Append(s, p), kind, V)
<1>1. /\ Append(s, p) \in Seq(S) /\ Len(Append(s, p)) = Len(s) + 1
      /\ \A k \in 1 .. Len(s) : Append(s, p)[k] = s[k]
      /\ Append(s, p)[Len(s) + 1] = p
  OBVIOUS
<1>2. DOMAIN s = 1 .. Len(s) /\ DOMAIN Append(s, p) = 1 .. Len(s) + 1 /\ Len(s) \in Nat
  BY <1>1
<1>3. Has(Append(s, p), kind) <=> Has(s, kind)
  BY <1>1, <1>2 DEF Has
<1>4. LastIs(s, kind, V) => LastIs(Append(s, p), kind, V)
  BY <1>1, <1>2 DEF LastIs
<1> QED
  BY <1>3, <1>4

LEMMA AppendThis ==
  ASSUME NEW S, NEW s \in Seq(S), NEW p \in S, NEW V, p.value \in V
  PROVE  Has(Append(s, p), p.kind) /\ LastIs(Append(s, p), p.kind, V)
<1>1. /\ Len(Append(s, p)) = Len(s) + 1
      /\ Append(s, p)[Len(s) + 1] = p
      /\ DOMAIN Append(s, p) = 1 .. Len(s) + 1 /\ Len(s) \in Nat
  OBVIOUS
<1> QED
  BY <1>1 DEF Has, LastIs

LEMMA TailKeeps ==
  ASSUME NEW S, NEW s \in Seq(S), s # <<>>, NEW kind, NEW V
  PROVE  /\ Has(s, kind) <=> (Head(s).kind = kind \/ Has(Tail(s), kind))
         /\ LastIs(s, kind, V) => LastIs(Tail(s), kind, V)
         /\ LastIs(s, kind, V) /\ Head(s).kind = kind /\ ~Has(Tail(s), kind) => Head(s).value \in V
<1>1. /\ Len(s) \in Nat \ {0} /\ DOMAIN s = 1 .. Len(s) /\ Head(s) = s[1]
      /\ DOMAIN Tail(s) = 1 .. Len(s) - 1
      /\ \A k \in 1 .. Len(s) - 1 : Tail(s)[k] = s[k + 1]
  OBVIOUS
<1>2. \A k \in 2 .. Len(s) : k - 1 \in DOMAIN Tail(s) /\ Tail(s)[k - 1] = s[k]
  BY <1>1
<1>3. Has(s, kind) <=> (Head(s).kind = kind \/ Has(Tail(s), kind))
  <2>1. CASE Has(s, kind)
    <3>1. PICK k \in 1 .. Len(s) : s[k].kind = kind
      BY <2>1, <1>1 DEF Has
    <3>2. k = 1 \/ k \in 2 .. Len(s)
      BY <1>1
    <3> QED
      BY <2>1, <3>1, <3>2, <1>1, <1>2 DEF Has
  <2>2. CASE Has(Tail(s), kind)
    <3>1. PICK k \in 1 .. Len(s) - 1 : s[k + 1].kind = kind
      BY <2>2, <1>1 DEF Has
    <3>2. k + 1 \in DOMAIN s
      BY <1>1
    <3> QED
      BY <2>2, <3>1, <3>2 DEF Has
  <2>3. CASE Head(s).kind = kind
    BY <2>3, <1>1 DEF Has
  <2> QED
    BY <2>1, <2>2, <2>3
<1>4. ASSUME LastIs(s, kind, V), NEW k \in DOMAIN Tail(s), Tail(s)[k].kind = kind,
             \A j \in DOMAIN Tail(s) : j > k => Tail(s)[j].kind # kind
      PROVE  Tail(s)[k].value \in V
  <2>1. k + 1 \in DOMAIN s /\ s[k + 1] = Tail(s)[k]
    BY <1>1
  <2>2. ASSUME NEW j \in DOMAIN s, j > k + 1
        PROVE  s[j].kind # kind
    <3>1. j \in 2 .. Len(s) /\ j - 1 > k
      BY <1>1, <2>2
    <3> QED
      BY <3>1, <1>2, <1>4
  <2> QED
    BY <2>1, <2>2, <1>4 DEF LastIs
<1>5. ASSUME LastIs(s, kind, V), Head(s).kind = kind, ~Has(Tail(s), kind)
      PROVE  Head(s).value \in V
  <2>1. ASSUME NEW j \in DOMAIN s, j > 1
        PROVE  s[j].kind # kind
    <3>1. j \in 2 .. Len(s)
      BY <1>1, <2>1
    <3> QED
      BY <3>1, <1>2, <1>5 DEF Has
  <2> QED
    BY <2>1, <1>1, <1>5 DEF LastIs
<1> QED
  BY <1>3, <1>4, <1>5 DEF LastIs

LEMMA SubSeqHasNot ==
  ASSUME NEW S, NEW s \in Seq(S), NEW n \in 0 .. Len(s), NEW kind, ~Has(s, kind)
  PROVE  ~Has(SubSeq(s, 1, n), kind)
<1>1. /\ n \in Nat /\ n <= Len(s) /\ Len(s) \in Nat
      /\ DOMAIN s = 1 .. Len(s)
  OBVIOUS
<1>2. DOMAIN SubSeq(s, 1, n) = 1 .. n /\ \A k \in 1 .. n : SubSeq(s, 1, n)[k] = s[k]
  BY <1>1
<1> QED
  BY <1>1, <1>2 DEF Has

-----------------------------------------------------------------------------
(* Steps on the way.                                                       *)

\* A packet of another kind is queued, or sent at once.
LEMMA OtherQueued ==
  ASSUME NEW S, NEW q \in Seq(S), NEW w, NEW p \in S,
         NEW kind, NEW v, NEW V, NEW x, p.kind # kind, Way(q, w, kind, v, V, x)
  PROVE  Way(Append(q, p), w, kind, v, V, x)
BY AppendOther DEF Way

LEMMA OtherSent ==
  ASSUME NEW S, NEW q, NEW w \in Seq(S), NEW p \in S,
         NEW kind, NEW v, NEW V, NEW x, p.kind # kind, Way(q, w, kind, v, V, x)
  PROVE  Way(q, Append(w, p), kind, v, V, x)
<1>1. LastIs(w, kind, {v}) => LastIs(Append(w, p), kind, {v})
  BY AppendOther
<1>2. Has(Append(w, p), kind) <=> Has(w, kind)
  BY AppendOther
<1> QED
  BY <1>1, <1>2 DEF Way

\* A packet of this kind is queued.
LEMMA ThisQueued ==
  ASSUME NEW S, NEW q \in Seq(S), NEW w, NEW p \in S,
         NEW kind, NEW v, NEW V, NEW x, p.kind = kind, p.value \in V
  PROVE  Way(Append(q, p), w, kind, v, V, x)
BY AppendThis DEF Way

\* The last value is sent at once: it is behind what the queue holds, if the
\* queue holds nothing of its kind.
LEMMA ThisSent ==
  ASSUME NEW S, NEW q, NEW w \in Seq(S), NEW p \in S,
         NEW kind, NEW v, NEW V, NEW x, p.kind = kind, p.value = v,
         ~Has(q, kind) \/ Way(q, w, kind, v, V, x)
  PROVE  Way(q, Append(w, p), kind, v, V, x)
<1>1. Has(Append(w, p), kind) /\ LastIs(Append(w, p), kind, {v})
  BY AppendThis
<1> QED
  BY <1>1 DEF Way

\* The head of the queue goes: one of another kind, ...
LEMMA OtherTaken ==
  ASSUME NEW S, NEW q \in Seq(S), q # <<>>, NEW w,
         NEW kind, NEW v, NEW V, NEW x, Head(q).kind # kind, Way(q, w, kind, v, V, x)
  PROVE  Way(Tail(q), w, kind, v, V, x)
BY TailKeeps DEF Way

\* ... or one of this kind, which is sent as the last value if it was the last.
LEMMA ThisTaken ==
  ASSUME NEW S, NEW T, NEW q \in Seq(S), q # <<>>, NEW w \in Seq(T), NEW p \in T,
         NEW kind, NEW v, NEW V, NEW x,
         Head(q).kind = kind, p.kind = kind, Head(q).value \in V => p.value = v,
         Way(q, w, kind, v, V, x)
  PROVE  Way(Tail(q), Append(w, p), kind, v, V, x)
<1>1. Has(q, kind) /\ LastIs(q, kind, V)
  BY TailKeeps DEF Way
<1>2. LastIs(Tail(q), kind, V) /\ (~Has(Tail(q), kind) => Head(q).value \in V)
  BY <1>1, TailKeeps
<1>3. CASE Has(Tail(q), kind)
  BY <1>2, <1>3 DEF Way
<1>4. CASE ~Has(Tail(q), kind)
  <2>1. p.value \in {v}
    BY <1>2, <1>4
  <2>2. Has(Append(w, p), kind) /\ LastIs(Append(w, p), kind, {v})
    BY <2>1, AppendThis
  <2> QED
    BY <1>4, <2>2 DEF Way
<1> QED
  BY <1>3, <1>4

\* The head of the wire arrives.
LEMMA OtherArrives ==
  ASSUME NEW S, NEW q, NEW w \in Seq(S), w # <<>>,
         NEW kind, NEW v, NEW V, NEW x, Head(w).kind # kind, Way(q, w, kind, v, V, x)
  PROVE  Way(q, Tail(w), kind, v, V, x)
<1>1. LastIs(w, kind, {v}) => LastIs(Tail(w), kind, {v})
  BY TailKeeps
<1>2. Has(w, kind) <=> Has(Tail(w), kind)
  BY TailKeeps
<1> QED
  BY <1>1, <1>2 DEF Way

LEMMA ThisArrives ==
  ASSUME NEW S, NEW q, NEW w \in Seq(S), w # <<>>,
         NEW kind, NEW v, NEW V, NEW x, NEW y,
         Head(w).kind = kind, Head(w).value = y, Way(q, w, kind, v, V, x)
  PROVE  Way(q, Tail(w), kind, v, V, y)
<1>1. Has(w, kind)
  BY TailKeeps
<1>2. LastIs(w, kind, {v}) =>
        LastIs(Tail(w), kind, {v}) /\ (~Has(Tail(w), kind) => Head(w).value \in {v})
  BY TailKeeps
<1> QED
  BY <1>1, <1>2 DEF Way

\* The head of the wire is lost: it was not the last of its kind.
LEMMA ThisRefused ==
  ASSUME NEW S, NEW q, NEW w \in Seq(S), w # <<>>,
         NEW kind, NEW v, NEW V, NEW x, Has(Tail(w), kind) \/ Has(q, kind),
         Way(q, w, kind, v, V, x)
  PROVE  Way(q, Tail(w), kind, v, V, x)
<1>1. LastIs(w, kind, {v}) => LastIs(Tail(w), kind, {v})
  BY TailKeeps
<1>2. Has(Tail(w), kind) => Has(w, kind)
  BY TailKeeps
<1> QED
  BY <1>1, <1>2 DEF Way

-----------------------------------------------------------------------------
(* Types, and that AvatarSync implements PuppetModel.                      *)

OwnTypes ==
  /\ me \in [hack : Names, flat : BOOLEAN]
  /\ sent \in BOOLEAN /\ link \in BOOLEAN /\ serving \in BOOLEAN /\ first \in BOOLEAN
  /\ last \in [capture : Names \cup {Unset}, game : BOOLEAN \cup {Unset}]
  /\ pushing \in {"no"} \cup Kinds
  /\ unsaved = Nothing \/ unsaved \in [hack : Names, place : Places]
  /\ queue \in Seq(Queued) /\ Len(queue) <= MaxQueue
  /\ wire \in Seq(Packets) /\ Len(wire) <= MaxWire
  /\ joining \in {"no"} \cup Kinds
  /\ hello \in {"no", "first"} \cup Kinds
  /\ hello # "no" => link
  /\ repeating \in BOOLEAN
  /\ late \subseteq Kinds
  /\ events \in 0 .. MaxEvents

\* What is about to be pushed is known.
PushInv ==
  /\ pushing = "capture" => unsaved # Nothing
  /\ pushing = "game" => unsaved = Nothing /\ last.game # Unset

LEMMA TypesSplit == SyncTypeOK <=> ModelTypeOK /\ OwnTypes
BY DEF SyncTypeOK, OwnTypes

LEMMA AppendType ==
  ASSUME NEW S, NEW s \in Seq(S), NEW p \in S, NEW n \in Nat, Len(s) < n
  PROVE  Append(s, p) \in Seq(S) /\ Len(Append(s, p)) <= n
OBVIOUS

LEMMA TailType ==
  ASSUME NEW S, NEW s \in Seq(S), s # <<>>, NEW n \in Nat, Len(s) <= n
  PROVE  Tail(s) \in Seq(S) /\ Len(Tail(s)) <= n /\ Head(s) \in S
OBVIOUS

LEMMA PacketTypes ==
  /\ \A h \in Names : Packet("capture", h) \in Packets /\ Packet("capture", h) \in Queued
  /\ \A f \in BOOLEAN : Packet("game", f) \in Packets /\ Packet("game", f) \in Queued
  /\ \A kind \in Kinds : Packet(kind, Backup) \in Queued
BY DEF Packet, Packets, Queued, Kinds

LEMMA ContentType ==
  ASSUME OwnTypes, NEW p \in Queued, Content(p).value # Unset
  PROVE  Content(p) \in Packets /\ Content(p).kind = p.kind
<1>1. CASE p.value = Backup
  <2>1. p.kind \in Kinds /\ Content(p) = Packet(p.kind, last[p.kind])
    BY <1>1 DEF Content, Queued, Packets, Kinds
  <2>2. last[p.kind] # Unset
    BY <2>1 DEF Packet
  <2>3. CASE p.kind = "capture"
    BY <2>1, <2>2, <2>3 DEF OwnTypes, Packet, Packets
  <2>4. CASE p.kind = "game"
    BY <2>1, <2>2, <2>4 DEF OwnTypes, Packet, Packets
  <2> QED
    BY <2>1, <2>3, <2>4 DEF Kinds
<1>2. CASE p.value # Backup
  BY <1>2 DEF Content, Queued
<1> QED
  BY <1>1, <1>2

LEMMA LateType == \A kind \in Kinds : queuePacket(kind) /\ OwnTypes
                    => pushing' \in {"no"} \cup Kinds /\ late' \subseteq Kinds
BY DEF queuePacket, OwnTypes

\* What the game thread is about to push.
Pushed == Packet(pushing, IF pushing = "capture" THEN unsaved.hack ELSE last.game)

LEMMA PushedType ==
  OwnTypes /\ PushInv /\ pushing # "no" => /\ Pushed \in Queued /\ Pushed.kind = pushing
                                           /\ pushing = "capture" => Pushed.value = unsaved.hack
                                           /\ pushing = "game" => Pushed.value = last.game
<1> SUFFICES ASSUME OwnTypes, PushInv, pushing # "no"
             PROVE  /\ Pushed \in Queued /\ Pushed.kind = pushing
                    /\ pushing = "capture" => Pushed.value = unsaved.hack
                    /\ pushing = "game" => Pushed.value = last.game
  OBVIOUS
<1>1. CASE pushing = "capture"
  <2>1. unsaved.hack \in Names
    BY <1>1 DEF OwnTypes, PushInv
  <2> QED
    BY <1>1, <2>1, PacketTypes DEF Pushed, Packet
<1>2. CASE pushing = "game"
  <2>1. last.game \in BOOLEAN
    BY <1>2 DEF OwnTypes, PushInv
  <2> QED
    BY <1>2, <2>1, PacketTypes DEF Pushed, Packet
<1> QED
  BY <1>1, <1>2 DEF OwnTypes, Kinds

LEMMA SendType ==
  ASSUME OwnTypes, NEW p \in Packets, sendNow(p)
  PROVE  wire' \in Seq(Packets) /\ Len(wire') <= MaxWire
<1>1. link => Append(wire, p) \in Seq(Packets) /\ Len(Append(wire, p)) <= MaxWire
  BY AppendType, BoundsAssumption DEF sendNow, OwnTypes
<1> QED
  BY <1>1 DEF sendNow, OwnTypes

LEMMA EventType == OwnTypes /\ Event => events' \in 0 .. MaxEvents
BY BoundsAssumption DEF OwnTypes, Event

LEMMA PlayerTypes == OwnTypes /\ Player => OwnTypes'
<1> SUFFICES ASSUME OwnTypes, Player PROVE OwnTypes'
  OBVIOUS
<1>1. CASE Capture \/ Release \/ Turn
  <2>1. PICK new : Shifts(new) /\ new \in [hack : Names, flat : BOOLEAN]
    <3>1. CASE Capture
      BY <3>1 DEF Capture, OwnTypes, Names
    <3>2. CASE Release
      BY <3>2 DEF Release, OwnTypes, Names
    <3>3. CASE Turn
      <4>1. (~me.flat) \in BOOLEAN
        OBVIOUS
      <4>2. [me EXCEPT !.flat = ~@] \in [hack : Names, flat : BOOLEAN]
        BY <4>1, Zenon DEF OwnTypes
      <4> QED
        BY <3>3, <4>2, Zenon DEF Turn
    <3> QED
      BY <1>1, <3>1, <3>2, <3>3
  <2>2. me' = new /\ Event /\ UNCHANGED <<sent, last, pushing, unsaved, queue, wire, connection, joining, greeting, late>>
    BY <2>1 DEF Shifts, Moves
  <2> QED
    BY <2>1, <2>2, EventType DEF OwnTypes, connection, greeting
<1>2. CASE LoadStage
  <2>1. PICK flat \in BOOLEAN : Moves([hack |-> NoHack, flat |-> flat])
    BY <1>2 DEF LoadStage
  <2>2. /\ me' = [hack |-> NoHack, flat |-> flat] /\ Event
        /\ queuePacket("game")
        /\ last' = [last EXCEPT !.game = FALSE]
        /\ UNCHANGED <<sent, unsaved, queue, wire, connection, joining, greeting>>
    BY <1>2, <2>1 DEF LoadStage, Moves
  <2>3. pushing' \in {"no"} \cup Kinds /\ late' \subseteq Kinds
    BY <2>2, LateType DEF Kinds
  <2>4. events' \in 0 .. MaxEvents
    BY <2>2, EventType
  <2>5. me' \in [hack : Names, flat : BOOLEAN]
    BY <2>2 DEF Names
  <2>6. last' \in [capture : Names \cup {Unset}, game : BOOLEAN \cup {Unset}]
    BY <2>2 DEF OwnTypes
  <2> QED
    BY <2>2, <2>3, <2>4, <2>5, <2>6 DEF OwnTypes, connection, greeting
<1>3. CASE EnterAddress
  BY <1>3, EventType DEF EnterAddress, OwnTypes, senderVars, greeting
<1> QED
  BY <1>1, <1>2, <1>3 DEF Player

LEMMA TicksTypes == OwnTypes /\ PushInv /\ Ticks => OwnTypes'
<1> SUFFICES ASSUME OwnTypes, PushInv, Ticks PROVE OwnTypes'
  OBVIOUS
<1>1. CASE CaptureTick
  <2>1. pushing' \in {"no"} \cup Kinds /\ late' \subseteq Kinds
    BY <1>1, LateType DEF CaptureTick, Kinds
  <2>2. unsaved' \in [hack : Names, place : Places] /\ sent' \in BOOLEAN
    BY <1>1 DEF CaptureTick, OwnTypes, Places
  <2> QED
    BY <1>1, <2>1, <2>2 DEF CaptureTick, OwnTypes, connection, greeting
<1>2. CASE Push
  <2>1. queue' \in Seq(Queued) /\ Len(queue') <= MaxQueue
    <3>1. HasRoom => Append(queue, Pushed) \in Seq(Queued) /\ Len(Append(queue, Pushed)) <= MaxQueue
      BY <1>2, PushedType, AppendType, BoundsAssumption DEF Push, HasRoom, OwnTypes
    <3> QED
      BY <1>2, <3>1 DEF Push, Pushed, OwnTypes
  <2>2. late' \subseteq Kinds
    BY <1>2 DEF Push, OwnTypes
  <2>3. unsaved' = Nothing \/ unsaved' \in [hack : Names, place : Places]
    BY <1>2 DEF Push, OwnTypes, Places
  <2> QED
    BY <1>2, <2>1, <2>2, <2>3 DEF Push, OwnTypes, connection, greeting
<1>3. CASE SaveCapture
  <2>1. unsaved.hack \in Names
    BY <1>3 DEF SaveCapture, OwnTypes
  <2>2. last' \in [capture : Names \cup {Unset}, game : BOOLEAN \cup {Unset}]
    BY <1>3, <2>1 DEF SaveCapture, OwnTypes
  <2>3. late' \subseteq Kinds
    BY <1>3 DEF SaveCapture, OwnTypes, Kinds
  <2> QED
    BY <1>3, <2>2, <2>3 DEF SaveCapture, OwnTypes, connection, greeting
<1>4. CASE GameTick
  <2>1. pushing' \in {"no"} \cup Kinds /\ late' \subseteq Kinds
    BY <1>4, LateType DEF GameTick, Kinds
  <2>2. last' \in [capture : Names \cup {Unset}, game : BOOLEAN \cup {Unset}]
    BY <1>4 DEF GameTick, OwnTypes
  <2> QED
    BY <1>4, <2>1, <2>2 DEF GameTick, OwnTypes, connection, greeting
<1> QED
  BY <1>1, <1>2, <1>3, <1>4 DEF Ticks

LEMMA NetworkTypes == OwnTypes /\ Network => OwnTypes'
<1> SUFFICES ASSUME OwnTypes, Network PROVE OwnTypes'
  OBVIOUS
<1>1. CASE Send
  <2>1. Head(queue) \in Queued /\ Tail(queue) \in Seq(Queued) /\ Len(Tail(queue)) <= MaxQueue
    BY <1>1, TailType, BoundsAssumption DEF Send, OwnTypes
  <2>2. wire' \in Seq(Packets) /\ Len(wire') <= MaxWire
    <3>1. CASE Content(Head(queue)).value = Unset
      BY <1>1, <3>1 DEF Send, OwnTypes
    <3>2. CASE Content(Head(queue)).value # Unset
      <4>1. Content(Head(queue)) \in Packets
        BY <2>1, <3>2, ContentType
      <4> QED
        BY <1>1, <3>2, <4>1, AppendType, BoundsAssumption DEF Send, OwnTypes
    <3> QED
      BY <3>1, <3>2
  <2> QED
    BY <1>1, <2>1, <2>2 DEF Send, OwnTypes, senderVars, connection, greeting
<1>2. CASE Break
  <2>1. queue' \in Seq(Queued) /\ Len(queue') <= MaxQueue
    <3>1. queue' = queue \/ (queue # <<>> /\ queue' = Tail(queue))
      BY <1>2 DEF Break
    <3> QED
      <4>1. CASE queue' = queue
        BY <4>1 DEF OwnTypes
      <4>2. CASE queue # <<>> /\ queue' = Tail(queue)
        BY <4>2, TailType, BoundsAssumption DEF OwnTypes
      <4> QED
        BY <3>1, <4>1, <4>2
  <2>2. PICK n \in 0 .. Len(wire) : wire' = SubSeq(wire, 1, n)
    BY <1>2 DEF Break
  <2>3. wire' \in Seq(Packets) /\ Len(wire') <= MaxWire
    BY <2>2, BoundsAssumption DEF OwnTypes
  <2>4. events' \in 0 .. MaxEvents
    BY <1>2, EventType DEF Break
  <2> QED
    BY <1>2, <2>1, <2>3, <2>4 DEF Break, OwnTypes, senderVars, greeting
<1>3. CASE Connect
  BY <1>3 DEF Connect, OwnTypes, senderVars, Kinds
<1>4. CASE GreetFirst
  <2>1. wire' \in Seq(Packets) /\ Len(wire') <= MaxWire
    BY <1>4, SendType, PacketTypes DEF GreetFirst, Names
  <2> QED
    BY <1>4, <2>1 DEF GreetFirst, OwnTypes, senderVars, connection
<1>5. ASSUME NEW kind \in Kinds, Resend(kind) PROVE OwnTypes'
  <2>1. hello' \in {"no", "first"} \cup Kinds /\ repeating' \in BOOLEAN /\ link
    BY <1>5 DEF Resend, After, HasRoom, Repeated, Kinds, OwnTypes
  <2>2. late' \subseteq Kinds
    BY <1>5 DEF Resend, OwnTypes
  <2> QED
    BY <1>5, <2>1, <2>2 DEF Resend, OwnTypes, senderVars, connection
<1>6. ASSUME NEW kind \in Kinds, PushBackup(kind) PROVE OwnTypes'
  <2>1. HasRoom => Append(queue, Packet(kind, Backup)) \in Seq(Queued)
                  /\ Len(Append(queue, Packet(kind, Backup))) <= MaxQueue
    BY AppendType, PacketTypes, BoundsAssumption DEF HasRoom, OwnTypes
  <2>2. queue' \in Seq(Queued) /\ Len(queue') <= MaxQueue
    BY <1>6, <2>1 DEF PushBackup, OwnTypes
  <2>3. late' \subseteq Kinds /\ hello' \in {"no", "first"} \cup Kinds /\ repeating' \in BOOLEAN /\ link
    BY <1>6 DEF PushBackup, OwnTypes, After, Kinds
  <2> QED
    BY <1>6, <2>2, <2>3 DEF PushBackup, OwnTypes, senderVars, connection
<1>7. CASE PlayerCon
  BY <1>7, EventType DEF PlayerCon, OwnTypes, senderVars, connection, greeting, Kinds
<1>8. ASSUME NEW kind \in Kinds, Answer(kind) PROVE OwnTypes'
  <2>1. /\ wire' \in Seq(Packets) /\ Len(wire') <= MaxWire
        /\ late' \subseteq Kinds
    <3>1. CASE last[kind] = Unset
      BY <1>8, <3>1 DEF Answer, OwnTypes
    <3>2. CASE last[kind] # Unset
      <4>1. Packet(kind, last[kind]) \in Packets
        BY <3>2, PacketTypes DEF OwnTypes, Kinds
      <4>2. sendNow(Packet(kind, last[kind]))
        BY <1>8, <3>2 DEF Answer
      <4>3. late' \subseteq Kinds
        BY <1>8, <3>2 DEF Answer, OwnTypes
      <4> QED
        BY <4>1, <4>2, <4>3, SendType
    <3> QED
      BY <3>1, <3>2
  <2> QED
    BY <1>8, <2>1 DEF Answer, OwnTypes, senderVars, connection, greeting, Kinds
<1> QED
  BY <1>1, <1>2, <1>3, <1>4, <1>5, <1>6, <1>7, <1>8 DEF Network

LEMMA ReceiveType ==
  ASSUME OwnTypes, Receive
  PROVE  /\ OwnTypes'
         /\ Head(wire).kind = "capture" => Head(wire).value \in Names /\ CaptureInf(Head(wire).value)
         /\ Head(wire).kind # "capture" => /\ Head(wire).kind = "game"
                                           /\ Head(wire).value \in BOOLEAN
                                           /\ GameInf(Head(wire).value)
<1>1. Head(wire) \in Packets /\ Tail(wire) \in Seq(Packets) /\ Len(Tail(wire)) <= MaxWire
  BY TailType, BoundsAssumption DEF Receive, OwnTypes
<1>2. OwnTypes'
  BY <1>1 DEF Receive, OwnTypes, senderVars, connection, greeting
<1>3. Head(wire).kind = "capture" => Head(wire).value \in Names /\ CaptureInf(Head(wire).value)
  BY <1>1 DEF Receive, Packets
<1>4. Head(wire).kind # "capture" => /\ Head(wire).kind = "game"
                                     /\ Head(wire).value \in BOOLEAN
                                     /\ GameInf(Head(wire).value)
  BY <1>1 DEF Receive, Packets
<1> QED
  BY <1>2, <1>3, <1>4

LEMMA RefuseType == OwnTypes /\ Refuse => OwnTypes'
<1> SUFFICES ASSUME OwnTypes, Refuse PROVE OwnTypes'
  OBVIOUS
<1>1. Head(wire) \in Packets /\ Tail(wire) \in Seq(Packets) /\ Len(Tail(wire)) <= MaxWire
  BY TailType, BoundsAssumption DEF Refuse, OwnTypes
<1>2. Head(wire).kind \in Kinds
  BY <1>1 DEF Packets, Kinds
<1>3. late' \subseteq Kinds
  BY <1>2 DEF Refuse, OwnTypes
<1> QED
  BY <1>1, <1>3 DEF Refuse, OwnTypes, senderVars, connection, greeting

\* A step here is no step of the puppet, a packet that arrives is a step of its
\* read thread.
LEMMA StepRefines == OwnTypes /\ [SyncNext]_syncVars => [Next]_vars
<1> SUFFICES ASSUME OwnTypes, [SyncNext]_syncVars PROVE [Next]_vars
  OBVIOUS
<1>1. CASE Here
  BY <1>1 DEF Here
<1>2. CASE Receive
  BY <1>2, ReceiveType DEF Next
<1>3. CASE There
  BY <1>3 DEF There, Next
<1>4. CASE UNCHANGED syncVars
  BY <1>4 DEF syncVars
<1>5. CASE Refuse
  BY <1>5 DEF Refuse
<1> QED
  BY <1>1, <1>2, <1>3, <1>4, <1>5 DEF SyncNext

LEMMA StepTypes == OwnTypes /\ PushInv /\ [SyncNext]_syncVars => OwnTypes' /\ PushInv'
<1> SUFFICES ASSUME OwnTypes, PushInv, [SyncNext]_syncVars PROVE OwnTypes' /\ PushInv'
  OBVIOUS
<1>1. OwnTypes'
  <2>1. CASE Here
    BY <2>1, PlayerTypes, TicksTypes, NetworkTypes DEF Here
  <2>2. CASE Receive
    BY <2>2, ReceiveType
  <2>3. CASE Refuse
    BY <2>3, RefuseType
  <2>4. CASE There
    BY <2>4 DEF There, OwnTypes, senderVars, netVars, connection, greeting
  <2>5. CASE UNCHANGED syncVars
    BY <2>5 DEF syncVars, OwnTypes, senderVars, netVars, connection, greeting
  <2> QED
    BY <2>1, <2>2, <2>3, <2>4, <2>5 DEF SyncNext
<1>2. CASE CaptureTick
  <2>1. pushing' # "game" /\ unsaved'.hack \in Names /\ unsaved'.hack # Unset
    BY <1>2, UnsetAssumption DEF CaptureTick, queuePacket, OwnTypes
  <2>2. unsaved' # Nothing
    BY <2>1 DEF Nothing
  <2> QED
    BY <1>1, <2>1, <2>2 DEF PushInv
<1>3. CASE GameTick \/ LoadStage
  <2>1. unsaved' = Nothing /\ pushing' # "capture" /\ last'.game \in BOOLEAN
    BY <1>3 DEF GameTick, LoadStage, Moves, Free, queuePacket, OwnTypes
  <2> QED
    BY <1>1, <2>1, UnsetAssumption DEF PushInv
<1>4. CASE Push \/ SaveCapture
  <2>1. pushing' = "no"
    BY <1>4 DEF Push, SaveCapture
  <2> QED
    BY <1>1, <2>1 DEF PushInv
<1>5. CASE UNCHANGED <<pushing, unsaved, last>>
  BY <1>1, <1>5 DEF PushInv
<1>6. Capture \/ Release \/ Turn \/ EnterAddress \/ Network \/ Receive \/ Refuse \/ There \/ UNCHANGED syncVars
        => UNCHANGED <<pushing, unsaved, last>>
  BY DEF Capture, Release, Turn, Shifts, EnterAddress, Network, Send, Break, Connect, GreetFirst,
         Resend, PushBackup, PlayerCon, Answer, Receive, Refuse, There, senderVars, syncVars
<1> QED
  BY <1>2, <1>3, <1>4, <1>5, <1>6 DEF SyncNext, Here, Player, Ticks

LEMMA SyncInitTypes == SyncInit => OwnTypes /\ PushInv
<1> SUFFICES ASSUME SyncInit PROVE OwnTypes /\ PushInv
  OBVIOUS
<1>1. queue \in Seq(Queued) /\ Len(queue) <= MaxQueue /\ wire \in Seq(Packets) /\ Len(wire) <= MaxWire
  BY BoundsAssumption DEF SyncInit
<1>2. me \in [hack : Names, flat : BOOLEAN]
  BY DEF SyncInit, Names
<1>3. events \in 0 .. MaxEvents
  BY BoundsAssumption DEF SyncInit
<1> QED
  BY <1>1, <1>2, <1>3 DEF SyncInit, OwnTypes, PushInv, Kinds

\* Whatever happens on the way, the other client's puppet does what PuppetModel
\* allows: readFunc gives it nothing but packets the handlers expect.
THEOREM ImplementsPuppetModel == SyncSpec => Spec
<1>1. SyncInit => Init
  BY DEF SyncInit
<1> QED
  BY <1>1, SyncInitTypes, StepTypes, StepRefines, PTL DEF SyncSpec, Spec

\* So under every refusal, break and repetition on the way exactly the current
\* model of a living puppet is alive, and a puppet whose slot did not change
\* since the stage was loaded shows the model its player calls for.
THEOREM PuppetIsRight == SyncSpec => [](OneModel /\ FreshShown)
BY ImplementsPuppetModel, OneModelLives, FreshPuppetShown, PTL

\* Queues and wire keep their bounds, and packets, caches and the puppet their
\* shapes, whatever is refused, lost or repeated.
THEOREM SyncTypes == SyncSpec => []SyncTypeOK
<1>1. SyncSpec => [](OwnTypes /\ PushInv)
  BY SyncInitTypes, StepTypes, PTL DEF SyncSpec
<1> QED
  BY <1>1, ImplementsPuppetModel, ModelTypes, TypesSplit, PTL

-----------------------------------------------------------------------------
(* What the other client knows.                                            *)

\* The dimension: while the connection stands and its greeting is over.
GameWay ==
  link /\ hello \notin {"first", "game"} /\ "game" \notin late /\ last.game # Unset
    => Way(queue, wire, "game", last.game, {last.game, Backup}, info.flat)

LEMMA GameWayStep ==
  OwnTypes /\ PushInv /\ ModelTypeOK /\ GameWay /\ (Here \/ Receive \/ Refuse \/ There) => GameWay'
<1> SUFFICES ASSUME OwnTypes, PushInv, ModelTypeOK, GameWay, Here \/ Receive \/ Refuse \/ There,
                    link', hello' \notin {"first", "game"}, "game" \notin late', last'.game # Unset
             PROVE  Way(queue', wire', "game", last'.game, {last'.game, Backup}, info'.flat)
  BY DEF GameWay, Backup
<1> DEFINE v == last.game
<1> DEFINE V == {v, Backup}
<1> DEFINE x == info.flat
<1>a. queue \in Seq(Queued) /\ wire \in Seq(Packets)
  BY DEF OwnTypes
<1>b. /\ \A h \in Names : Packet("capture", h) \in Packets /\ Packet("capture", h) \in Queued
      /\ \A f \in BOOLEAN : Packet("game", f) \in Packets /\ Packet("game", f) \in Queued
      /\ \A kind \in Kinds : Packet(kind, Backup) \in Queued
      /\ \A kind, y : Packet(kind, y).kind = kind /\ Packet(kind, y).value = y
  BY PacketTypes DEF Packet
\* Steps that leave everything alone that counts, but perhaps a capture.
<1> DEFINE Before == link /\ hello \notin {"first", "game"} /\ "game" \notin late /\ v # Unset
<1>c. Before => Way(queue, wire, "game", v, V, x)
  BY DEF GameWay
<1>d. ASSUME NEW p \in Queued, p.kind = "game", p.value \in {v, Backup},
             queue' = Append(queue, p), last' = last
      PROVE  Way(queue', wire', "game", last'.game, {last'.game, Backup}, info'.flat)
  BY <1>d, <1>a, ThisQueued
<1>e. ASSUME NEW p \in Queued, p.kind = "capture", queue' = queue \/ queue' = Append(queue, p),
             Way(queue, wire, "game", v, V, x), wire' = wire, last' = last, info' = info
      PROVE  Way(queue', wire', "game", last'.game, {last'.game, Backup}, info'.flat)
  <2>1. Way(Append(queue, p), wire, "game", v, V, x)
    BY <1>e, <1>a, OtherQueued
  <2> QED
    BY <2>1, <1>e
<1>1. CASE Player /\ UNCHANGED vars
  <2>1. CASE LoadStage
    BY <2>1 DEF LoadStage, queuePacket, connection
  <2>2. CASE ~LoadStage
    <3>1. UNCHANGED <<queue, wire, link, hello, late, last>> /\ info' = info
      BY <1>1, <2>2 DEF Player, Capture, Release, Turn, Shifts, EnterAddress, senderVars, vars,
                        connection, greeting
    <3> QED
      BY <3>1, <1>c
  <2> QED
    BY <2>1, <2>2
<1>2. CASE Ticks /\ UNCHANGED vars
  <2>0. info' = info
    BY <1>2 DEF vars
  <2>1. CASE CaptureTick
    <3>1. UNCHANGED <<queue, wire, link, hello, last>> /\ "game" \notin late
      BY <2>1 DEF CaptureTick, queuePacket, connection, greeting
    <3> QED
      BY <3>1, <2>0, <1>c
  <2>2. CASE Push
    <3>1. /\ pushing # "no" /\ UNCHANGED <<wire, link, hello, last>>
          /\ HasRoom => queue' = Append(queue, Pushed)
          /\ ~HasRoom => queue' = queue
          /\ pushing = "game" => HasRoom
          /\ pushing # "game" => "game" \notin late
      BY <2>2 DEF Push, Pushed, connection, greeting
    <3>2. CASE pushing = "game"
      BY <3>1, <3>2, PushedType, <1>d
    <3>3. CASE pushing = "capture"
      <4>1. Way(queue, wire, "game", v, V, x)
        BY <3>1, <3>3, <1>c
      <4> QED
        BY <3>1, <3>3, <4>1, <2>0, PushedType, <1>e
    <3> QED
      BY <3>1, <3>2, <3>3 DEF OwnTypes, Kinds
  <2>3. CASE SaveCapture
    <3>1. UNCHANGED <<queue, wire, link, hello>> /\ last'.game = last.game /\ "game" \notin late
      BY <2>3 DEF SaveCapture, OwnTypes, connection, greeting
    <3> QED
      BY <3>1, <2>0, <1>c
  <2>4. CASE GameTick
    BY <2>4 DEF GameTick, queuePacket, connection
  <2> QED
    BY <1>2, <2>1, <2>2, <2>3, <2>4 DEF Ticks
\* A packet of the other kind is sent; or nothing is.
<1>f. ASSUME NEW p \in Packets, p.kind = "capture", wire' = wire \/ wire' = Append(wire, p),
             Way(queue, wire, "game", v, V, x), queue' = queue, last'.game = v, info' = info
      PROVE  Way(queue', wire', "game", last'.game, {last'.game, Backup}, info'.flat)
  <2>1. Way(queue, Append(wire, p), "game", v, V, x)
    BY <1>f, <1>a, OtherSent
  <2> QED
    BY <2>1, <1>f
<1>3. CASE Network /\ UNCHANGED vars
  <2>0. info' = info
    BY <1>3 DEF vars
  <2>1. CASE Send
    <3>1. /\ queue # <<>> /\ queue' = Tail(queue) /\ Head(queue) \in Queued
          /\ UNCHANGED <<last, link, hello, late>>
          /\ wire' = IF Content(Head(queue)).value = Unset THEN wire
                     ELSE Append(wire, Content(Head(queue)))
      BY <2>1, <1>a, TailType, BoundsAssumption DEF Send, senderVars, OwnTypes, connection, greeting
    <3>2. Way(queue, wire, "game", v, V, x)
      BY <3>1, <1>c
    <3>3. CASE Head(queue).kind # "game"
      <4>1. Way(Tail(queue), wire, "game", v, V, x)
        BY <3>1, <3>2, <3>3, <1>a, OtherTaken
      <4>2. CASE wire' = wire
        BY <4>1, <4>2, <3>1, <2>0
      <4>3. CASE Content(Head(queue)).value # Unset
        <5> DEFINE p == Content(Head(queue))
        <5>1. p \in Packets /\ p.kind # "game"
          BY <3>1, <3>3, <4>3, ContentType
        <5> HIDE DEF p
        <5>2. Way(Tail(queue), Append(wire, p), "game", v, V, x)
          BY <5>1, <4>1, <1>a, OtherSent
        <5> QED
          BY <5>2, <4>3, <3>1, <2>0 DEF p
      <4> QED
        BY <4>2, <4>3, <3>1
    <3>4. CASE Head(queue).kind = "game"
      <4> DEFINE p == Content(Head(queue))
      <4>1. v # Unset
        BY <3>1
      <4>2. Head(queue).value \in V => p = Packet("game", v)
        <5>1. CASE Head(queue).value = Backup
          BY <5>1, <3>4 DEF Content
        <5>2. CASE Head(queue).value = v
          <6>1. Head(queue) = Packet("game", Head(queue).value)
            BY <3>1, <3>4 DEF Queued, Packets, Packet
          <6> QED
            BY <6>1, <5>2, <4>1 DEF Content, Backup
        <5> QED
          BY <5>1, <5>2
      <4>3. Head(queue).value # Unset => p.value # Unset
        BY DEF Content, Backup
      <4>4. Head(queue).value = Unset => p = Packet("game", v)
        BY <4>2 DEF Backup
      <4>5. p.value # Unset
        BY <4>1, <4>3, <4>4, <1>b
      <4>6. p \in Packets /\ p.kind = "game"
        BY <3>1, <3>4, <4>5, ContentType
      <4>7. Head(queue).value \in V => p.value = v
        BY <4>2, <1>b
      <4> HIDE DEF p
      <4>8. Way(Tail(queue), Append(wire, p), "game", v, V, x)
        BY <3>1, <3>2, <3>4, <4>6, <4>7, <1>a, ThisTaken
      <4> QED
        BY <4>5, <4>8, <3>1, <2>0 DEF p
    <3> QED
      BY <3>3, <3>4
  <2>2. CASE Break \/ Connect \/ GreetFirst
    BY <2>2 DEF Break, Connect, GreetFirst, Kinds
  <2>3. ASSUME NEW kind \in Kinds, Resend(kind)
        PROVE  Way(queue', wire', "game", last'.game, {last'.game, Backup}, info'.flat)
    <3>1. UNCHANGED <<queue, wire, link>> /\ last' = last /\ hello = kind
      BY <2>3 DEF Resend, senderVars, connection
    <3>2. kind # "game" /\ "game" \notin late
      BY <2>3, <3>1 DEF Resend, Repeated, After
    <3> QED
      BY <3>1, <3>2, <2>0, <1>c DEF Kinds
  <2>4. ASSUME NEW kind \in Kinds, PushBackup(kind)
        PROVE  Way(queue', wire', "game", last'.game, {last'.game, Backup}, info'.flat)
    <3> DEFINE p == Packet(kind, Backup)
    <3>1. p \in Queued /\ p.kind = kind /\ p.value = Backup
      BY <1>b
    <3>2. /\ UNCHANGED <<wire, link>> /\ last' = last /\ hello = kind
          /\ queue' = IF HasRoom THEN Append(queue, p) ELSE queue
          /\ kind = "game" => HasRoom
          /\ kind # "game" => "game" \notin late
      BY <2>4 DEF PushBackup, senderVars, connection
    <3> HIDE DEF p
    <3>3. CASE kind = "game"
      BY <3>1, <3>2, <3>3, <1>d
    <3>4. CASE kind = "capture"
      <4>1. Way(queue, wire, "game", v, V, x)
        BY <3>2, <3>4, <1>c
      <4> QED
        BY <3>1, <3>2, <3>4, <4>1, <2>0, <1>e
    <3> QED
      BY <3>3, <3>4 DEF Kinds
  <2>5. CASE PlayerCon
    <3>1. UNCHANGED <<queue, wire, link, hello, late, last>>
      BY <2>5 DEF PlayerCon, senderVars, connection, greeting
    <3> QED
      BY <3>1, <2>0, <1>c
  <2>6. CASE Answer("game")
    <3>1. UNCHANGED <<queue, link, hello, last>>
      BY <2>6 DEF Answer, senderVars, connection, greeting
    <3>2. /\ wire' = Append(wire, Packet("game", v))
          /\ "game" \in late => ~Has(queue, "game")
      BY <2>6, <3>1 DEF Answer, sendNow, Older
    <3>3. ~Has(queue, "game") \/ Way(queue, wire, "game", v, V, x)
      BY <3>1, <3>2, <1>c
    <3> DEFINE p == Packet("game", v)
    <3>4. p \in Packets /\ p.kind = "game" /\ p.value = v
      BY <3>1, <1>b DEF OwnTypes
    <3> HIDE DEF p
    <3>5. Way(queue, Append(wire, p), "game", v, V, x)
      BY <3>3, <3>4, <1>a, ThisSent
    <3> QED
      BY <3>1, <3>2, <3>5, <2>0 DEF p
  <2>7. CASE Answer("capture")
    <3>1. UNCHANGED <<queue, link, hello, last>> /\ "game" \notin late
      BY <2>7 DEF Answer, senderVars, connection, greeting
    <3>3. Way(queue, wire, "game", v, V, x)
      BY <3>1, <1>c
    <3>4. CASE last.capture = Unset
      BY <2>7, <3>1, <3>3, <3>4, <2>0 DEF Answer
    <3>5. CASE last.capture # Unset
      <4>1. Packet("capture", last.capture) \in Packets
        BY <3>5, <1>b DEF OwnTypes
      <4>2. wire' = wire \/ wire' = Append(wire, Packet("capture", last.capture))
        BY <2>7, <3>5 DEF Answer, sendNow
      <4> QED
        BY <4>1, <4>2, <3>1, <3>3, <2>0, <1>b, <1>f
    <3> QED
      BY <3>4, <3>5
  <2> QED
    BY <1>3, <2>1, <2>2, <2>3, <2>4, <2>5, <2>6, <2>7 DEF Network, Kinds
<1>4. CASE Receive
  <2>1. /\ wire # <<>> /\ wire' = Tail(wire) /\ UNCHANGED <<queue, link, hello, late, last>>
    BY <1>4 DEF Receive, senderVars, connection, greeting
  <2>2. Way(queue, wire, "game", v, V, x)
    BY <2>1, <1>c
  <2>3. CASE Head(wire).kind = "capture"
    <3>1. info'.flat = info.flat
      BY <1>4, <2>3, ReceiveType DEF CaptureInf, ModelTypeOK, Infos
    <3>2. Way(queue, Tail(wire), "game", v, V, x)
      BY <2>1, <2>2, <2>3, <1>a, OtherArrives
    <3> QED
      BY <3>1, <3>2, <2>1
  <2>4. CASE Head(wire).kind # "capture"
    <3>1. Head(wire).kind = "game" /\ info'.flat = Head(wire).value
      BY <1>4, <2>4, ReceiveType DEF GameInf, ModelTypeOK, Infos
    <3> DEFINE y == Head(wire).value
    <3>2. Way(queue, Tail(wire), "game", v, V, y)
      BY <2>1, <2>2, <3>1, <1>a, ThisArrives
    <3> QED
      BY <3>1, <3>2, <2>1
  <2> QED
    BY <2>3, <2>4
<1>5. CASE There
  <2>1. UNCHANGED <<queue, wire, link, hello, late, last>>
    BY <1>5 DEF There, senderVars, netVars, connection, greeting
  <2>2. CopyHack => info'.flat = info.flat
    BY DEF CopyHack, ModelTypeOK, Infos
  <2>3. Game => info' = info
    BY DEF Game, NewScene, Wake, Kill, Control, SwitchFlat, SwitchCapture
  <2>4. info'.flat = info.flat
    BY <1>5, <2>2, <2>3 DEF There
  <2> QED
    BY <2>1, <2>4, <1>c
<1>6. CASE Refuse
  <2>1. /\ wire # <<>> /\ wire' = Tail(wire) /\ UNCHANGED <<queue, link, hello, last>>
        /\ info' = info /\ "game" \notin late
    BY <1>6 DEF Refuse, senderVars, vars, connection, greeting
  <2>2. Way(queue, wire, "game", v, V, x)
    BY <2>1, <1>c
  <2>3. CASE Head(wire).kind # "game"
    <3>1. Way(queue, Tail(wire), "game", v, V, x)
      BY <2>1, <2>2, <2>3, <1>a, OtherArrives
    <3> QED
      BY <2>1, <3>1
  <2>4. CASE Head(wire).kind = "game"
    <3>1. Has(Tail(wire), "game") \/ Has(queue, "game")
      BY <1>6, <2>4 DEF Refuse
    <3>2. Way(queue, Tail(wire), "game", v, V, x)
      BY <2>1, <2>2, <3>1, <1>a, ThisRefused
    <3> QED
      BY <2>1, <3>2
  <2> QED
    BY <2>3, <2>4
<1> QED
  BY <1>1, <1>2, <1>3, <1>4, <1>5, <1>6 DEF Here

\* Quiet, the player's dimension told: the other client has it.  The backup is
\* set in the call that queues the packet, so it is never older than the queue,
\* and a repeated one overtakes only packets of its own value.
THEOREM DimensionIsKnown == SyncSpec => []DimensionKnown
<1>1. SyncInit => GameWay
  BY DEF SyncInit, GameWay
<1>2. OwnTypes /\ PushInv /\ ModelTypeOK /\ GameWay /\ [SyncNext]_syncVars => GameWay'
  <2>1. UNCHANGED syncVars /\ GameWay => GameWay'
    BY DEF syncVars, vars, senderVars, netVars, connection, greeting, GameWay
  <2> QED
    BY <2>1, GameWayStep DEF SyncNext
<1>3. OwnTypes /\ GameWay => DimensionKnown
  <2> SUFFICES ASSUME OwnTypes, GameWay, Quiet, "game" \notin late, me.flat = last.game
               PROVE  info.flat = me.flat
    BY DEF DimensionKnown
  <2>1. last.game # Unset
    BY UnsetAssumption DEF OwnTypes
  <2>2. ~Has(queue, "game") /\ ~Has(wire, "game")
    BY DEF Quiet, Has
  <2> QED
    BY <2>1, <2>2 DEF GameWay, Quiet, Way
<1>4. SyncSpec => []ModelTypeOK
  BY ImplementsPuppetModel, ModelTypes, PTL
<1>5. SyncSpec => [](OwnTypes /\ PushInv)
  BY SyncInitTypes, StepTypes, PTL DEF SyncSpec
<1> QED
  BY <1>1, <1>2, <1>3, <1>4, <1>5, PTL DEF SyncSpec

-----------------------------------------------------------------------------
(* The capture.  Its backup is set in a second step, may be lost then, and  *)
(* is read when it is sent.                                                *)

\* What the slot says, a name that is being copied included.
Shown == IF naming # NoHack THEN naming ELSE IF info.captured THEN info.hack ELSE NoHack

Named ==
  /\ naming # NoHack => info.captured
  /\ info.captured /\ naming = NoHack => info.hack \in Hacks

\* What was queued last, and what a packet that tells it may hold.
Latest == IF unsaved # Nothing THEN unsaved.hack
          ELSE IF last.capture = Unset THEN NoHack ELSE last.capture
Values == {Latest} \cup (IF unsaved = Nothing THEN {Backup} ELSE {})

CaptureWay ==
  link /\ hello = "no" /\ "capture" \notin late
    => Way(queue, wire, "capture", Latest, Values, Shown)

\* Nothing was ever queued, and nothing lost.
Virgin ==
  last.capture = Unset /\ unsaved = Nothing /\ "capture" \notin late
    => /\ ~sent /\ ~Has(queue, "capture") /\ ~Has(wire, "capture")
       /\ Shown = NoHack

SentIsQueued ==
  /\ unsaved # Nothing => sent = (unsaved.hack # NoHack)
  /\ unsaved = Nothing /\ last.capture # Unset => sent = (last.capture # NoHack)

LEMMA ShownSteps ==
  ASSUME ModelTypeOK, Named
  PROVE  /\ UNCHANGED vars => Shown' = Shown
         /\ CopyHack \/ Game => Shown' = Shown
         /\ \A h \in Names : CaptureInf(h) => Shown' = h
         /\ \A flat \in BOOLEAN : GameInf(flat) => Shown' = Shown
<1>1. UNCHANGED vars => Shown' = Shown
  BY DEF vars, Shown
<1>2. CopyHack => Shown' = Shown
  BY DEF CopyHack, Shown, Named, ModelTypeOK, Infos
<1>3. Game => UNCHANGED <<info, naming>>
  BY DEF Game, NewScene, Wake, Kill, Control, SwitchFlat, SwitchCapture
<1>4. Game => Shown' = Shown
  BY <1>3 DEF Shown
<1>5. ASSUME NEW h \in Names, CaptureInf(h) PROVE Shown' = h
  BY <1>5 DEF CaptureInf, Shown, ModelTypeOK, Infos
<1>6. ASSUME NEW flat \in BOOLEAN, GameInf(flat) PROVE Shown' = Shown
  BY <1>6 DEF GameInf, Shown, ModelTypeOK, Infos
<1> QED
  BY <1>1, <1>2, <1>4, <1>5, <1>6

LEMMA NamedStep == ModelTypeOK /\ Named /\ [Next]_vars => Named'
<1> SUFFICES ASSUME ModelTypeOK, Named, [Next]_vars PROVE Named'
  OBVIOUS
<1>1. CASE \E h \in Names : CaptureInf(h)
  BY <1>1 DEF CaptureInf, Named, ModelTypeOK, Infos, Names
<1>2. CASE CopyHack
  BY <1>2 DEF CopyHack, Named, ModelTypeOK, Infos, Names
<1>3. CASE \E flat \in BOOLEAN : GameInf(flat)
  BY <1>3 DEF GameInf, Named, ModelTypeOK, Infos
<1>4. CASE Game
  <2>1. UNCHANGED <<info, naming>>
    BY <1>4 DEF Game, NewScene, Wake, Kill, Control, SwitchFlat, SwitchCapture
  <2> QED
    BY <2>1 DEF Named
<1>5. CASE UNCHANGED vars
  BY <1>5 DEF vars, Named
<1> QED
  BY <1>1, <1>2, <1>3, <1>4, <1>5 DEF Next

LEMMA NothingFresh == \A u \in [hack : Names, place : Places] : u # Nothing /\ u.hack # Unset
<1> SUFFICES ASSUME NEW u \in [hack : Names, place : Places] PROVE u # Nothing /\ u.hack # Unset
  OBVIOUS
<1>1. u.hack # Unset
  BY UnsetAssumption
<1> QED
  BY <1>1 DEF Nothing

\* All but the two steps of sendCaptureInfPacket keep what was queued last.
Kept ==
  /\ sent' = sent /\ last'.capture = last.capture
  /\ unsaved' = Nothing <=> unsaved = Nothing
  /\ unsaved'.hack = unsaved.hack

LEMMA KeepsBackup ==
  ASSUME OwnTypes, [SyncNext]_syncVars
  PROVE  CaptureTick \/ SaveCapture \/ Kept
<1>1. CASE sent' = sent /\ unsaved' = unsaved /\ last'.capture = last.capture
  BY <1>1 DEF Kept
<1>2. CASE Player
  <2>1. sent' = sent /\ unsaved' = unsaved /\ last'.capture = last.capture
    BY <1>2 DEF Player, Capture, Release, Turn, Shifts, LoadStage, EnterAddress, senderVars, OwnTypes
  <2> QED
    BY <1>1, <2>1
<1>3. CASE GameTick
  <2>1. sent' = sent /\ unsaved' = unsaved /\ last'.capture = last.capture
    BY <1>3 DEF GameTick, OwnTypes
  <2> QED
    BY <1>1, <2>1
<1>4. CASE Network \/ Receive \/ Refuse \/ There \/ UNCHANGED syncVars
  <2>1. UNCHANGED senderVars
    BY <1>4 DEF Network, Send, Break, Connect, GreetFirst, Resend, PushBackup, PlayerCon, Answer,
                Receive, Refuse, There, syncVars
  <2> QED
    BY <1>1, <2>1 DEF senderVars
<1>5. CASE Push
  <2>1. sent' = sent /\ last' = last
    BY <1>5 DEF Push
  <2>2. CASE unsaved' = unsaved
    BY <1>1, <2>1, <2>2
  <2>3. CASE unsaved' # unsaved
    <3>1. unsaved # Nothing /\ unsaved' = [unsaved EXCEPT !.place = "queue"]
      BY <1>5, <2>3 DEF Push
    <3>2. unsaved \in [hack : Names, place : Places]
      BY <3>1 DEF OwnTypes
    <3>3. unsaved' \in [hack : Names, place : Places] /\ unsaved'.hack = unsaved.hack
      BY <3>1, <3>2 DEF Places
    <3> QED
      BY <2>1, <3>1, <3>3, NothingFresh DEF Kept
  <2> QED
    BY <2>2, <2>3
<1> QED
  BY <1>2, <1>3, <1>4, <1>5 DEF SyncNext, Here, Ticks

\* What a first step is to queue it also remembers, and the last one copies.
LEMMA TickFacts ==
  ASSUME OwnTypes
  PROVE  /\ CaptureTick => /\ unsaved' # Nothing /\ unsaved'.hack = me.hack
                           /\ link' = link /\ (link => "capture" \in late')
         /\ SaveCapture => /\ unsaved' = Nothing
                           /\ unsaved.hack \in Names /\ unsaved.hack # Unset
                           /\ "capture" \notin late' =>
                                last'.capture = unsaved.hack /\ "capture" \notin late
<1>1. ASSUME CaptureTick
      PROVE  /\ unsaved' # Nothing /\ unsaved'.hack = me.hack
             /\ link' = link /\ (link => "capture" \in late')
  <2>1. unsaved' \in [hack : Names, place : Places] /\ unsaved'.hack = me.hack
    BY <1>1 DEF CaptureTick, OwnTypes, Places
  <2>2. link' = link /\ (link => "capture" \in late')
    BY <1>1 DEF CaptureTick, queuePacket, connection
  <2> QED
    BY <2>1, <2>2, NothingFresh
<1>2. ASSUME SaveCapture
      PROVE  /\ unsaved' = Nothing
             /\ unsaved.hack \in Names /\ unsaved.hack # Unset
             /\ "capture" \notin late' => last'.capture = unsaved.hack /\ "capture" \notin late
  <2>1. unsaved.hack \in Names /\ unsaved.hack # Unset
    BY <1>2, UnsetAssumption DEF SaveCapture, OwnTypes
  <2> QED
    BY <1>2, <2>1 DEF SaveCapture, OwnTypes
<1> QED
  BY <1>1, <1>2

LEMMA SentStep == OwnTypes /\ SentIsQueued /\ [SyncNext]_syncVars => SentIsQueued'
<1> SUFFICES ASSUME OwnTypes, SentIsQueued, [SyncNext]_syncVars PROVE SentIsQueued'
  OBVIOUS
<1>1. CASE CaptureTick
  <2>1. sent' = (me.hack # NoHack)
    BY <1>1 DEF CaptureTick, OwnTypes
  <2> QED
    BY <1>1, <2>1, TickFacts DEF SentIsQueued
<1>2. CASE SaveCapture
  <2>1. last'.capture = unsaved.hack \/ last'.capture = Unset
    BY <1>2 DEF SaveCapture, OwnTypes
  <2>2. unsaved # Nothing /\ sent' = sent
    BY <1>2 DEF SaveCapture
  <2> QED
    BY <1>2, <2>1, <2>2, TickFacts DEF SentIsQueued
<1>3. CASE Kept
  BY <1>3 DEF Kept, SentIsQueued
<1> QED
  BY <1>1, <1>2, <1>3, KeepsBackup

\* A step that is about something else: perhaps a packet about the dimension.
Elsewhere ==
  /\ queue' = queue \/ \E p \in Queued : p.kind = "game" /\ queue' = Append(queue, p)
  /\ wire' = wire \/ \E p \in Packets : p.kind = "game" /\ wire' = Append(wire, p)
  /\ Shown' = Shown
  /\ "capture" \in late' <=> "capture" \in late
  /\ link' /\ hello' = "no" => link /\ hello = "no"

LEMMA ElsewhereKeeps ==
  ASSUME OwnTypes, Elsewhere, NEW v, NEW V, NEW x
  PROVE  /\ ~Has(queue, "capture") => ~Has(queue', "capture")
         /\ ~Has(wire, "capture") => ~Has(wire', "capture")
         /\ Way(queue, wire, "capture", v, V, x) => Way(queue', wire', "capture", v, V, x)
<1>1. queue \in Seq(Queued) /\ wire \in Seq(Packets)
  BY DEF OwnTypes
<1>2. ~Has(queue, "capture") => ~Has(queue', "capture")
  BY <1>1, AppendOther DEF Elsewhere
<1>3. ~Has(wire, "capture") => ~Has(wire', "capture")
  BY <1>1, AppendOther DEF Elsewhere
<1>4. ASSUME Way(queue, wire, "capture", v, V, x) PROVE Way(queue', wire, "capture", v, V, x)
  BY <1>1, <1>4, OtherQueued DEF Elsewhere
<1>5. ASSUME Way(queue, wire, "capture", v, V, x) PROVE Way(queue', wire', "capture", v, V, x)
  <2>1. Way(queue', wire, "capture", v, V, x)
    BY <1>4, <1>5
  <2> QED
    BY <1>1, <2>1, OtherSent DEF Elsewhere
<1> QED
  BY <1>2, <1>3, <1>5

LEMMA ElsewhereSteps ==
  ASSUME OwnTypes, PushInv, ModelTypeOK, Named,
         \/ /\ \/ Player \/ GameTick \/ (Push /\ pushing = "game") \/ Connect
               \/ Resend("game") \/ PushBackup("game") \/ PlayerCon \/ Answer("game")
            /\ UNCHANGED vars
         \/ There \/ UNCHANGED syncVars
  PROVE  Elsewhere
<1>1. Shown' = Shown
  <2>1. UNCHANGED syncVars => UNCHANGED vars
    BY DEF syncVars
  <2>2. There => CopyHack \/ Game
    BY DEF There
  <2> QED
    BY <2>1, <2>2, ShownSteps
<1>2. \A f \in BOOLEAN : Packet("game", f) \in Packets /\ Packet("game", f).kind = "game"
  BY PacketTypes DEF Packet
<1>3. ASSUME UNCHANGED <<queue, wire, link, hello>>, "capture" \in late' <=> "capture" \in late
      PROVE  Elsewhere
  BY <1>3, <1>1 DEF Elsewhere
<1>4. CASE Player
  <2>1. CASE LoadStage
    <3>1. UNCHANGED <<queue, wire, link, hello>> /\ ("capture" \in late' <=> "capture" \in late)
      BY <2>1 DEF LoadStage, queuePacket, connection, greeting
    <3> QED
      BY <3>1, <1>3
  <2>2. CASE ~LoadStage
    <3>1. UNCHANGED <<queue, wire, link, hello, late>>
      BY <1>4, <2>2 DEF Player, Capture, Release, Turn, Shifts, EnterAddress, connection, greeting
    <3> QED
      BY <3>1, <1>3
  <2> QED
    BY <2>1, <2>2
<1>5. CASE GameTick
  <2>1. UNCHANGED <<queue, wire, link, hello>> /\ ("capture" \in late' <=> "capture" \in late)
    BY <1>5 DEF GameTick, queuePacket, connection, greeting
  <2> QED
    BY <2>1, <1>3
<1>6. CASE Push /\ pushing = "game"
  <2>1. Pushed \in Queued /\ Pushed.kind = "game"
    BY <1>6, PushedType
  <2>2. queue' = queue \/ queue' = Append(queue, Pushed)
    BY <1>6 DEF Push, Pushed
  <2>3. UNCHANGED <<wire, link, hello>> /\ ("capture" \in late' <=> "capture" \in late)
    BY <1>6 DEF Push, connection, greeting
  <2> QED
    BY <2>1, <2>2, <2>3, <1>1 DEF Elsewhere
<1>7. CASE Resend("game")
  <2>1. /\ UNCHANGED <<queue, wire, link>> /\ hello' # "no"
        /\ "capture" \in late' <=> "capture" \in late
    BY <1>7 DEF Resend, After, connection
  <2> QED
    BY <2>1, <1>1 DEF Elsewhere
<1>8. CASE PushBackup("game")
  <2>1. Packet("game", Backup) \in Queued /\ Packet("game", Backup).kind = "game"
    BY PacketTypes DEF Packet, Kinds
  <2>2. /\ queue' = queue \/ queue' = Append(queue, Packet("game", Backup))
        /\ UNCHANGED <<wire, link>> /\ hello' # "no"
        /\ "capture" \in late' <=> "capture" \in late
    BY <1>8 DEF PushBackup, After, connection
  <2> QED
    BY <2>1, <2>2, <1>1 DEF Elsewhere
<1>9. CASE Answer("game")
  <2>1. UNCHANGED <<queue, link, hello>>
    BY <1>9 DEF Answer, connection, greeting
  <2>2. CASE last.game = Unset
    BY <1>9, <2>1, <2>2, <1>1 DEF Answer, Elsewhere
  <2>3. CASE last.game # Unset
    <3>1. last.game \in BOOLEAN
      BY <2>3 DEF OwnTypes
    <3>2. wire' = wire \/ wire' = Append(wire, Packet("game", last.game))
      BY <1>9, <2>3 DEF Answer, sendNow
    <3>3. "capture" \in late' <=> "capture" \in late
      BY <1>9, <2>3 DEF Answer
    <3> QED
      BY <2>1, <3>1, <3>2, <3>3, <1>1, <1>2 DEF Elsewhere
  <2> QED
    BY <2>2, <2>3
<1>10. CASE Connect
  BY <1>10, <1>1 DEF Connect, Elsewhere
<1>11. CASE PlayerCon \/ There \/ UNCHANGED syncVars
  BY <1>11, <1>3 DEF PlayerCon, There, syncVars, netVars, senderVars, connection, greeting
<1> QED
  BY <1>4, <1>5, <1>6, <1>7, <1>8, <1>9, <1>10, <1>11

\* The steps, sorted by what they have to do with a capture.
LEMMA CaptureSteps ==
  ASSUME OwnTypes, PushInv, ModelTypeOK, Named, [SyncNext]_syncVars
  PROVE  \/ /\ \/ CaptureTick \/ (Push /\ pushing = "capture") \/ SaveCapture
               \/ Send \/ Break \/ GreetFirst
               \/ Resend("capture") \/ PushBackup("capture") \/ Answer("capture")
            /\ UNCHANGED vars
         \/ Receive \/ Refuse \/ Elsewhere
<1>1. Push => pushing = "game" \/ pushing = "capture"
  BY DEF Push, OwnTypes, Kinds
<1>2. Network => \/ Send \/ Break \/ Connect \/ GreetFirst \/ PlayerCon
                 \/ Resend("game") \/ Resend("capture") \/ PushBackup("game")
                 \/ PushBackup("capture") \/ Answer("game") \/ Answer("capture")
  BY DEF Network, Kinds
<1> QED
  BY <1>1, <1>2, ElsewhereSteps DEF SyncNext, Here, Ticks

LEMMA VirginStep ==
  OwnTypes /\ PushInv /\ ModelTypeOK /\ Named /\ Virgin /\ [SyncNext]_syncVars => Virgin'
<1> SUFFICES ASSUME OwnTypes, PushInv, ModelTypeOK, Named, Virgin, [SyncNext]_syncVars,
                    last'.capture = Unset, unsaved' = Nothing, "capture" \notin late'
             PROVE  /\ ~sent' /\ ~Has(queue', "capture") /\ ~Has(wire', "capture")
                    /\ Shown' = NoHack
  BY DEF Virgin
<1>1. sent' = sent /\ unsaved = Nothing /\ last.capture = Unset /\ ~CaptureTick /\ ~SaveCapture
  BY KeepsBackup, TickFacts DEF Kept
<1>a. queue \in Seq(Queued) /\ wire \in Seq(Packets)
  BY DEF OwnTypes
<1> DEFINE Clean == ~sent /\ ~Has(queue, "capture") /\ ~Has(wire, "capture") /\ Shown = NoHack
<1>b. "capture" \notin late => Clean
  BY <1>1 DEF Virgin
<1>2. CASE Elsewhere
  BY <1>2, <1>1, <1>b, ElsewhereKeeps DEF Elsewhere
<1>3. CASE Send /\ UNCHANGED vars
  <2>1. /\ Clean /\ queue # <<>> /\ queue' = Tail(queue) /\ Head(queue) \in Queued
        /\ wire' = IF Content(Head(queue)).value = Unset THEN wire
                   ELSE Append(wire, Content(Head(queue)))
        /\ Shown' = Shown
    BY <1>3, <1>a, <1>b, TailType, ShownSteps, BoundsAssumption DEF Send, OwnTypes
  <2>2. Head(queue).kind # "capture" /\ ~Has(queue', "capture")
    BY <2>1, <1>a, TailKeeps
  <2>3. ~Has(wire', "capture")
    <3>1. CASE Content(Head(queue)).value # Unset
      <4> DEFINE p == Content(Head(queue))
      <4>1. p \in Packets /\ p.kind # "capture"
        BY <2>1, <2>2, <3>1, ContentType
      <4> HIDE DEF p
      <4>2. ~Has(Append(wire, p), "capture")
        BY <4>1, <2>1, <1>a, AppendOther
      <4> QED
        BY <4>2, <3>1, <2>1 DEF p
    <3> QED
      BY <3>1, <2>1
  <2> QED
    BY <2>1, <2>2, <2>3, <1>1
<1>4. CASE Break /\ UNCHANGED vars
  <2>1. Clean /\ Shown' = Shown
    BY <1>4, <1>b, ShownSteps DEF Break
  <2>2. ~Has(queue', "capture")
    <3>1. queue # <<>> => ~Has(Tail(queue), "capture")
      BY <2>1, <1>a, TailKeeps
    <3> QED
      BY <1>4, <2>1, <3>1 DEF Break
  <2>3. ~Has(wire', "capture")
    BY <1>4, <2>1, <1>a, SubSeqHasNot DEF Break
  <2> QED
    BY <2>1, <2>2, <2>3, <1>1
<1>5. CASE GreetFirst \/ PushBackup("capture")
  BY <1>5, <1>1 DEF GreetFirst, PushBackup, Kinds
<1>6. CASE (Resend("capture") \/ Answer("capture")) /\ UNCHANGED vars
  <2>1. UNCHANGED <<queue, wire>> /\ "capture" \notin late /\ Shown' = Shown
    BY <1>6, <1>1, ShownSteps DEF Resend, Answer
  <2> QED
    BY <2>1, <1>b, <1>1
<1>7. CASE Receive
  <2>1. Clean /\ wire # <<>> /\ wire' = Tail(wire) /\ queue' = queue
    BY <1>7, <1>b DEF Receive
  <2>2. Head(wire).kind # "capture" /\ ~Has(wire', "capture")
    BY <2>1, <1>a, TailKeeps
  <2>3. Shown' = Shown
    BY <1>7, <2>2, ReceiveType, ShownSteps
  <2> QED
    BY <2>1, <2>2, <2>3, <1>1
<1>8. CASE Refuse
  <2>1. Clean /\ wire # <<>> /\ wire' = Tail(wire) /\ queue' = queue /\ Shown' = Shown
    BY <1>8, <1>b, ShownSteps DEF Refuse
  <2>2. ~Has(wire', "capture")
    BY <2>1, <1>a, TailKeeps
  <2> QED
    BY <2>1, <2>2, <1>1
<1>9. CASE Push /\ pushing = "capture"
  BY <1>9, <1>1 DEF PushInv
<1> QED
  BY <1>1, <1>2, <1>3, <1>4, <1>5, <1>6, <1>7, <1>8, <1>9, CaptureSteps

\* A value that may be on the way stays one when the values grow.
LEMMA WayGrows ==
  ASSUME NEW q, NEW w, NEW kind, NEW v, NEW V, NEW W, NEW x, V \subseteq W, Way(q, w, kind, v, V, x)
  PROVE  Way(q, w, kind, v, W, x)
BY DEF Way, LastIs

LEMMA CaptureWayStep ==
  OwnTypes /\ PushInv /\ ModelTypeOK /\ Named /\ Virgin /\ CaptureWay /\ [SyncNext]_syncVars
    => CaptureWay'
<1> SUFFICES ASSUME OwnTypes, PushInv, ModelTypeOK, Named, Virgin, CaptureWay, [SyncNext]_syncVars,
                    link', hello' = "no", "capture" \notin late'
             PROVE  Way(queue', wire', "capture", Latest', Values', Shown')
  BY DEF CaptureWay
<1> DEFINE Before == Way(queue, wire, "capture", Latest, Values, Shown)
<1>a. queue \in Seq(Queued) /\ wire \in Seq(Packets)
  BY DEF OwnTypes
<1>b. link /\ hello = "no" /\ "capture" \notin late => Before
  BY DEF CaptureWay
<1>c. Kept => Latest' = Latest /\ Values' = Values
  BY DEF Kept, Latest, Values
<1>d. \A h \in Names : /\ Packet("capture", h) \in Packets /\ Packet("capture", h) \in Queued
                       /\ Packet("capture", h).kind = "capture" /\ Packet("capture", h).value = h
  BY PacketTypes DEF Packet
<1>0. ~CaptureTick /\ ~(Break \/ GreetFirst)
  BY TickFacts DEF Break, GreetFirst, Kinds
<1>1. CASE Push /\ pushing = "capture" /\ UNCHANGED vars
  <2>1. /\ queue' = Append(queue, Pushed) /\ wire' = wire /\ Shown' = Shown
        /\ unsaved # Nothing /\ ~SaveCapture
    BY <1>1, ShownSteps DEF Push, Pushed, PushInv, SaveCapture
  <2>2. Latest' = Latest /\ Values' = Values
    BY <2>1, <1>0, <1>c, KeepsBackup
  <2>3. Pushed \in Queued /\ Pushed.kind = "capture" /\ Pushed.value \in Values
    BY <1>1, <2>1, PushedType DEF Values, Latest, Push
  <2>4. Way(Append(queue, Pushed), wire, "capture", Latest, Values, Shown)
    BY <2>3, <1>a, ThisQueued
  <2> QED
    BY <2>1, <2>2, <2>4
<1>2. CASE SaveCapture /\ UNCHANGED vars
  <2>1. /\ unsaved # Nothing /\ unsaved' = Nothing /\ unsaved.hack # Unset
        /\ last'.capture = unsaved.hack /\ "capture" \notin late
        /\ UNCHANGED <<queue, wire, link, hello>> /\ Shown' = Shown
    BY <1>2, TickFacts, ShownSteps DEF SaveCapture, connection, greeting
  <2>2. Latest' = Latest /\ Values \subseteq Values'
    BY <2>1 DEF Latest, Values
  <2>3. \A W : Values \subseteq W => Way(queue, wire, "capture", Latest, W, Shown)
    BY <2>1, <1>b, WayGrows
  <2> QED
    BY <2>1, <2>2, <2>3
<1>3. CASE Elsewhere /\ Latest' = Latest /\ Values' = Values
  <2>1. Before /\ Shown' = Shown
    BY <1>3, <1>b DEF Elsewhere
  <2> QED
    BY <2>1, <1>3, ElsewhereKeeps
<1>4. CASE Send /\ UNCHANGED vars
  <2>1. /\ Before /\ queue # <<>> /\ queue' = Tail(queue) /\ Head(queue) \in Queued
        /\ wire' = IF Content(Head(queue)).value = Unset THEN wire
                   ELSE Append(wire, Content(Head(queue)))
        /\ Shown' = Shown /\ Latest' = Latest /\ Values' = Values /\ "capture" \notin late
    <3>1. UNCHANGED <<sent, last, unsaved, link, hello, late>>
      BY <1>4 DEF Send, senderVars, connection, greeting
    <3>2. Latest' = Latest /\ Values' = Values
      BY <3>1 DEF Latest, Values
    <3> QED
      BY <1>4, <3>1, <3>2, <1>a, <1>b, TailType, ShownSteps, BoundsAssumption DEF Send, OwnTypes
  <2> DEFINE p == Content(Head(queue))
  <2>2. CASE Head(queue).kind # "capture"
    <3>1. Way(Tail(queue), wire, "capture", Latest, Values, Shown)
      BY <2>1, <2>2, <1>a, OtherTaken
    <3>2. CASE p.value # Unset
      <4>1. p \in Packets /\ p.kind # "capture"
        BY <2>1, <2>2, <3>2, ContentType
      <4> HIDE DEF p
      <4>2. Way(Tail(queue), Append(wire, p), "capture", Latest, Values, Shown)
        BY <3>1, <4>1, <1>a, OtherSent
      <4> QED
        BY <2>1, <3>2, <4>2 DEF p
    <3> QED
      BY <2>1, <3>1, <3>2
  <2>3. CASE Head(queue).kind = "capture" /\ p.value # Unset
    <3>1. p \in Packets /\ p.kind = "capture"
      BY <2>1, <2>3, ContentType
    <3>2. Head(queue).value \in Values => p.value = Latest
      <4>1. CASE Head(queue).value = Backup
        <5>1. p = Packet("capture", last.capture)
          BY <4>1, <2>3 DEF Content
        <5>2. p.value = last.capture /\ last.capture # Unset
          BY <5>1, <2>3 DEF Packet
        <5>3. CASE unsaved = Nothing
          BY <5>2, <5>3 DEF Latest
        <5>4. CASE unsaved # Nothing
          <6>1. Values = {unsaved.hack} /\ unsaved.hack # Unset
            BY <5>4, UnsetAssumption DEF Values, Latest, OwnTypes
          <6> QED
            BY <6>1, <4>1 DEF Backup
        <5> QED
          BY <5>3, <5>4
      <4>2. CASE Head(queue).value # Backup
        BY <4>2 DEF Content, Values
      <4> QED
        BY <4>1, <4>2
    <3> HIDE DEF p
    <3>3. Way(Tail(queue), Append(wire, p), "capture", Latest, Values, Shown)
      BY <2>1, <2>3, <3>1, <3>2, <1>a, ThisTaken
    <3> QED
      BY <2>1, <2>3, <3>3 DEF p
  \* A backup that holds nothing: then a packet with the last change is behind it.
  <2>4. CASE Head(queue).kind = "capture" /\ p.value = Unset
    <3>1. Head(queue).value = Backup /\ last.capture = Unset
      BY <2>4 DEF Content, Backup, Packet
    <3>2. Has(queue, "capture") /\ LastIs(queue, "capture", Values)
      BY <2>1, <2>4, <1>a, TailKeeps DEF Way
    <3>3. unsaved # Nothing
      BY <2>1, <3>1, <3>2 DEF Virgin
    <3>4. Backup \notin Values
      BY <3>3, UnsetAssumption DEF Values, Latest, OwnTypes, Backup
    <3>5. /\ LastIs(Tail(queue), "capture", Values)
          /\ ~Has(Tail(queue), "capture") => Head(queue).value \in Values
      BY <2>1, <2>4, <3>2, <1>a, TailKeeps
    <3>6. Way(Tail(queue), wire, "capture", Latest, Values, Shown)
      BY <3>1, <3>4, <3>5 DEF Way
    <3> QED
      BY <2>1, <2>4, <3>6
  <2> QED
    BY <2>2, <2>3, <2>4
<1>5. CASE Resend("capture") /\ UNCHANGED vars
  <2>1. /\ UNCHANGED <<queue, wire, last, unsaved>> /\ "capture" \notin late
        /\ last.capture = Unset /\ unsaved = Nothing /\ Shown' = Shown
    BY <1>5, ShownSteps DEF Resend, Repeated, Older, senderVars
  <2>2. ~Has(queue, "capture") /\ ~Has(wire, "capture") /\ Shown = NoHack
    BY <2>1 DEF Virgin
  <2>3. Latest' = NoHack
    BY <2>1 DEF Latest
  <2> QED
    BY <2>1, <2>2, <2>3 DEF Way
<1>6. CASE PushBackup("capture") /\ UNCHANGED vars
  <2> DEFINE p == Packet("capture", Backup)
  <2>1. /\ queue' = Append(queue, p) /\ unsaved = Nothing /\ UNCHANGED <<wire, last, unsaved>>
        /\ Shown' = Shown
    BY <1>6, ShownSteps DEF PushBackup, Older, senderVars
  <2>2. Latest' = Latest /\ Values' = Values
    BY <2>1 DEF Latest, Values
  <2>3. p \in Queued /\ p.kind = "capture" /\ p.value \in Values
    BY <2>1, PacketTypes DEF Packet, Values, Kinds
  <2> HIDE DEF p
  <2>4. Way(Append(queue, p), wire, "capture", Latest, Values, Shown)
    BY <2>3, <1>a, ThisQueued
  <2> QED
    BY <2>1, <2>2, <2>4
<1>7. CASE Answer("capture") /\ UNCHANGED vars
  <2>1. UNCHANGED <<queue, link, hello, last, unsaved>> /\ Shown' = Shown
    BY <1>7, ShownSteps DEF Answer, senderVars, connection, greeting
  <2>0. Latest' = Latest /\ Values' = Values
    BY <2>1 DEF Latest, Values
  <2>2. CASE last.capture = Unset
    <3>1. wire' = wire /\ late' = late
      BY <1>7, <2>2 DEF Answer
    <3> QED
      BY <2>0, <2>1, <3>1, <1>b
  <2>3. CASE last.capture # Unset
    <3> DEFINE p == Packet("capture", last.capture)
    <3>1. wire' = Append(wire, p) /\ unsaved = Nothing
      BY <1>7, <2>1, <2>3 DEF Answer, sendNow, Older
    <3>2. ~Has(queue, "capture") \/ "capture" \notin late
      BY <1>7, <2>3 DEF Answer
    <3>3. p \in Packets /\ p.kind = "capture" /\ p.value = Latest
      BY <2>3, <3>1, <1>d DEF Latest, OwnTypes
    <3> HIDE DEF p
    <3>4. ~Has(queue, "capture") \/ Before
      BY <3>2, <2>1, <1>b
    <3>5. Way(queue, Append(wire, p), "capture", Latest, Values, Shown)
      BY <3>3, <3>4, <1>a, ThisSent
    <3> QED
      BY <2>0, <2>1, <3>1, <3>5
  <2> QED
    BY <2>2, <2>3
<1>8. CASE Receive
  <2>1. /\ wire # <<>> /\ wire' = Tail(wire) /\ queue' = queue
        /\ Before /\ Latest' = Latest /\ Values' = Values
    <3>1. UNCHANGED <<last, unsaved, link, hello, late>>
      BY <1>8 DEF Receive, senderVars, connection, greeting
    <3>2. Latest' = Latest /\ Values' = Values
      BY <3>1 DEF Latest, Values
    <3> QED
      BY <1>8, <1>b, <3>1, <3>2 DEF Receive
  <2>2. CASE Head(wire).kind = "capture"
    <3> DEFINE y == Head(wire).value
    <3>1. Shown' = y
      BY <1>8, <2>2, ReceiveType, ShownSteps
    <3>2. Way(queue, Tail(wire), "capture", Latest, Values, y)
      BY <2>1, <2>2, <1>a, ThisArrives
    <3> QED
      BY <2>1, <3>1, <3>2
  <2>3. CASE Head(wire).kind # "capture"
    <3>1. Shown' = Shown
      BY <1>8, <2>3, ReceiveType, ShownSteps
    <3>2. Way(queue, Tail(wire), "capture", Latest, Values, Shown)
      BY <2>1, <2>3, <1>a, OtherArrives
    <3> QED
      BY <2>1, <3>1, <3>2
  <2> QED
    BY <2>2, <2>3
<1>9. CASE Refuse
  <2>1. /\ wire # <<>> /\ wire' = Tail(wire) /\ queue' = queue
        /\ UNCHANGED <<last, unsaved, link, hello>> /\ "capture" \notin late /\ Shown' = Shown
    BY <1>9, ShownSteps DEF Refuse, senderVars, connection, greeting
  <2>2. Latest' = Latest /\ Values' = Values
    BY <2>1 DEF Latest, Values
  <2>3. Before
    BY <2>1, <1>b
  <2>4. CASE Head(wire).kind # "capture"
    <3>1. Way(queue, Tail(wire), "capture", Latest, Values, Shown)
      BY <2>1, <2>3, <2>4, <1>a, OtherArrives
    <3> QED
      BY <2>1, <2>2, <3>1
  <2>5. CASE Head(wire).kind = "capture"
    <3>1. Has(Tail(wire), "capture") \/ Has(queue, "capture")
      BY <1>9, <2>5 DEF Refuse
    <3>2. Way(queue, Tail(wire), "capture", Latest, Values, Shown)
      BY <2>1, <2>3, <3>1, <1>a, ThisRefused
    <3> QED
      BY <2>1, <2>2, <3>2
  <2> QED
    BY <2>4, <2>5
<1>10. CASE Elsewhere
  <2>1. CASE SaveCapture
    <3>1. UNCHANGED vars
      <4>1. unsaved' # unsaved
        BY <2>1, TickFacts DEF SaveCapture
      <4>2. Receive \/ Refuse \/ There \/ UNCHANGED syncVars => unsaved' = unsaved
        BY DEF Receive, Refuse, There, senderVars, syncVars
      <4> QED
        BY <4>1, <4>2 DEF SyncNext, Here
    <3> QED
      BY <2>1, <3>1, <1>2
  <2>2. CASE Kept
    BY <1>10, <2>2, <1>c, <1>3
  <2> QED
    BY <1>0, <2>1, <2>2, KeepsBackup
<1> QED
  BY <1>0, <1>1, <1>2, <1>4, <1>5, <1>6, <1>7, <1>8, <1>9, <1>10, CaptureSteps

\* Quiet, his capture told, with nothing late: the other client knows what the
\* player has captured, however packets were refused, lost, repeated or overtaken.
THEOREM CaptureIsKnown == SyncSpec => []CaptureKnown
<1> DEFINE KnownWay == Virgin /\ CaptureWay /\ SentIsQueued
<1>1. SyncInit => KnownWay
  <2> SUFFICES ASSUME SyncInit PROVE KnownWay
    OBVIOUS
  <2>1. Shown = NoHack /\ Latest = NoHack /\ ~Has(queue, "capture") /\ ~Has(wire, "capture")
    BY DEF SyncInit, Init, Shown, Latest, Has
  <2>2. Virgin
    BY <2>1 DEF SyncInit, Virgin
  <2>3. CaptureWay
    BY <2>1 DEF CaptureWay, Way
  <2>4. SentIsQueued
    BY DEF SyncInit, SentIsQueued
  <2> QED
    BY <2>2, <2>3, <2>4
<1>2. OwnTypes /\ PushInv /\ ModelTypeOK /\ Named /\ KnownWay /\ [SyncNext]_syncVars => KnownWay'
  BY VirginStep, CaptureWayStep, SentStep
<1>3. OwnTypes /\ ModelTypeOK /\ Named /\ KnownWay => CaptureKnown
  <2> SUFFICES ASSUME OwnTypes, ModelTypeOK, Named, KnownWay, Quiet, "capture" \notin late, Told
               PROVE  /\ info.captured = (me.hack # NoHack)
                      /\ info.captured => info.hack = me.hack
    BY DEF CaptureKnown
  <2>1. ~Has(queue, "capture") /\ ~Has(wire, "capture") /\ unsaved = Nothing /\ naming = NoHack
    BY DEF Quiet, Has, Free
  <2>2. Shown = Latest
    BY <2>1 DEF CaptureWay, Quiet, Way
  <2>3. info.captured \in BOOLEAN /\ sent \in BOOLEAN
    BY DEF ModelTypeOK, Infos, OwnTypes
  <2>4. info.captured <=> Shown # NoHack
    BY <2>1, HacksAssumption DEF Shown, Named
  <2>5. CASE last.capture = Unset
    BY <2>1, <2>3, <2>4, <2>5 DEF Virgin, Told
  <2>6. CASE last.capture # Unset
    <3>1. Latest = last.capture /\ sent = (last.capture # NoHack)
      BY <2>1, <2>6 DEF Latest, SentIsQueued
    <3>2. info.captured => info.hack = last.capture
      BY <2>1, <2>2, <3>1 DEF Shown
    <3>3. info.captured <=> sent
      BY <2>2, <2>4, <3>1
    <3> QED
      BY <2>3, <3>2, <3>3 DEF Told
  <2> QED
    BY <2>5, <2>6
<1>4. SyncSpec => []ModelTypeOK
  BY ImplementsPuppetModel, ModelTypes, PTL
<1>5. SyncSpec => [](OwnTypes /\ PushInv)
  BY SyncInitTypes, StepTypes, PTL DEF SyncSpec
<1>6. SyncSpec => []Named
  <2>1. Init => Named
    BY DEF Init, Named
  <2>2. Spec => []Named
    BY <2>1, NamedStep, ModelTypes, PTL DEF Spec
  <2> QED
    BY <2>2, ImplementsPuppetModel, PTL
<1> QED
  BY <1>1, <1>2, <1>3, <1>4, <1>5, <1>6, PTL DEF SyncSpec

=============================================================================
