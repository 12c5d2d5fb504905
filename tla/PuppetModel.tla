---------------------------- MODULE PuppetModel ----------------------------
(***************************************************************************)
(* Which model a puppet shows: the player, the flat player or what he has  *)
(* captured (source/puppets/PuppetActor.cpp, server/HackModelHolder.cpp),  *)
(* by what the player's slot of the table says (Client::updateCaptureInfo, *)
(* Client::updateGameInfo).                                                *)
(*                                                                         *)
(* The read thread writes the slot, the game thread reads it once per      *)
(* frame, without a lock.  isCaptured and curHack are written one after    *)
(* the other.  Movement, animations, the cap and the name tag are left out *)
(***************************************************************************)
CONSTANTS
  Hacks,   \* names of captures
  Listed,  \* those the puppet has an actor for in this stage
  NoHack   \* the empty name

ASSUME HacksAssumption == Listed \subseteq Hacks /\ NoHack \notin Hacks
ASSUME ModelsAssumption == {"Normal", "Normal2D"} \cap (Hacks \cup {NoHack}) = {}

VARIABLES
  info,   \* PuppetInfo: isCaptured, curHack, is2D
  naming, \* the name the read thread is about to copy to curHack, if any
  puppet, \* PuppetActor: is it alive, mIs2DModel, mIsCaptureModel, the holder's
          \* current model and the capture list's current entry
  models, \* the model actors that are alive
  pc,     \* what control does next
  settled \* history: "new" for a puppet of a new stage, "yes" after its first
          \* frame, "no" from the first change of its slot

puppetVars == <<puppet, models, pc>>
vars == <<info, naming, puppetVars, settled>>

Names == Hacks \cup {NoHack}
Infos == [captured : BOOLEAN, hack : Names, flat : BOOLEAN]
Labels == {"Normal", "Normal2D"}
Puppets == [alive : BOOLEAN, flat : BOOLEAN, capture : BOOLEAN,
            label : Labels, current : Listed \cup {NoHack}]

NewPuppet == [alive |-> FALSE, flat |-> FALSE, capture |-> FALSE,
              label |-> "Normal", current |-> NoHack]

Init ==
  /\ info = [captured |-> FALSE, hack |-> NoHack, flat |-> FALSE]
  /\ naming = NoHack
  /\ puppet = NewPuppet
  /\ models = {}
  /\ pc = "flat"
  /\ settled = "new"

-----------------------------------------------------------------------------
(* The read thread.                                                        *)

\* updateCaptureInfo sets isCaptured, ...
CaptureInf(h) ==
  /\ naming = NoHack
  /\ info' = [info EXCEPT !.captured = h # NoHack]
  /\ naming' = h
  /\ settled' = IF info' = info /\ naming' = NoHack THEN settled ELSE "no"
  /\ UNCHANGED puppetVars

\* ... and then copies the name.
CopyHack ==
  /\ naming # NoHack
  /\ info' = [info EXCEPT !.hack = naming]
  /\ naming' = NoHack
  /\ settled' = "no"
  /\ UNCHANGED puppetVars

\* updateGameInfo, for a slot that is found and connected; otherwise it does nothing.
GameInf(flat) ==
  /\ naming = NoHack
  /\ info' = [info EXCEPT !.flat = flat]
  /\ settled' = IF info' = info THEN settled ELSE "no"
  /\ UNCHANGED <<naming, puppetVars>>

-----------------------------------------------------------------------------
(* The game thread.                                                        *)

\* getCurrentModel
Current(p) == IF p.capture /\ p.current # NoHack THEN p.current ELSE p.label

\* The current model dies, the puppet changes, what is current then lives.
Becomes(p) ==
  /\ puppet' = p
  /\ models' = (models \ {Current(puppet)}) \cup {Current(p)}

\* Mistake: mIs2DModel outlives the actor.
NewScene_Remembers ==
  /\ pc = "flat"
  /\ puppet' = [NewPuppet EXCEPT !.flat = puppet.flat]
  /\ models' = {}
  /\ settled' = IF naming = NoHack THEN "new" ELSE "no"
  /\ UNCHANGED <<info, naming, pc>>

\* A stage is loaded: new actors, all dead, for the same slot.
NewScene ==
  /\ pc = "flat"
  /\ puppet' = NewPuppet
  /\ models' = {}
  /\ settled' = IF naming = NoHack THEN "new" ELSE "no"
  /\ UNCHANGED <<info, naming, pc>>

\* makeActorAlive
Wake ==
  /\ pc = "flat" /\ ~puppet.alive
  /\ puppet' = [puppet EXCEPT !.alive = TRUE]
  /\ models' = models \cup {Current(puppet)}
  /\ UNCHANGED <<info, naming, pc, settled>>

\* Mistake: the player's model is killed, not the current one.
Kill_Player ==
  /\ pc = "flat" /\ puppet.alive
  /\ puppet' = [puppet EXCEPT !.alive = FALSE]
  /\ models' = models \ {puppet.label}
  /\ UNCHANGED <<info, naming, pc, settled>>

\* makeActorDead
Kill ==
  /\ pc = "flat" /\ puppet.alive
  /\ puppet' = [puppet EXCEPT !.alive = FALSE]
  /\ models' = models \ {Current(puppet)}
  /\ UNCHANGED <<info, naming, pc, settled>>

\* Mistake: the flat model is never left.
SwitchFlat_Stays ==
  /\ pc = "flat" /\ puppet.alive
  /\ IF info.flat
     THEN Becomes([puppet EXCEPT !.flat = info.flat, !.label = "Normal2D"])
     ELSE UNCHANGED <<puppet, models>>
  /\ pc' = "capture"
  /\ UNCHANGED <<info, naming, settled>>

\* control, model updating: changeModel, also while a capture is shown.
SwitchFlat ==
  /\ pc = "flat" /\ puppet.alive
  /\ IF puppet.flat # info.flat
     THEN Becomes([puppet EXCEPT !.flat = info.flat,
                                 !.label = IF info.flat THEN "Normal2D" ELSE "Normal"])
     ELSE UNCHANGED <<puppet, models>>
  /\ pc' = "capture"
  /\ UNCHANGED <<info, naming, settled>>

\* What curHack reads as; while it is written also as a name of no capture.
HackRead == {info.hack} \cup (IF naming = NoHack THEN {} ELSE {NoHack})

\* HackModelHolder::setCurrent
setCurrent(h) == IF h \in Listed THEN h ELSE NoHack

StartCapture ==
  /\ info.captured /\ ~puppet.capture
  /\ \E h \in HackRead : Becomes([puppet EXCEPT !.capture = TRUE, !.current = setCurrent(h)])

\* The player's own model comes back as "Normal", flat or not.
EndCapture ==
  /\ ~info.captured /\ puppet.capture
  /\ Becomes([puppet EXCEPT !.capture = FALSE, !.label = "Normal"])

\* control, capture updating.
SwitchCapture ==
  /\ pc = "capture"
  /\ \/ StartCapture
     \/ EndCapture
     \/ info.captured = puppet.capture /\ UNCHANGED <<puppet, models>>
  /\ pc' = "flat"
  /\ settled' = IF settled = "new" THEN "yes" ELSE settled
  /\ UNCHANGED <<info, naming>>

Control == SwitchFlat \/ SwitchCapture

-----------------------------------------------------------------------------
Game == NewScene \/ Wake \/ Kill \/ Control

Next ==
  \/ \E h \in Names : CaptureInf(h)
  \/ CopyHack
  \/ \E flat \in BOOLEAN : GameInf(flat)
  \/ Game

Spec == Init /\ [][Next]_vars

-----------------------------------------------------------------------------
\* Every variable keeps its shape; only a puppet that is alive is controlled.
ModelTypeOK ==
  /\ info \in Infos
  /\ naming \in Names
  /\ puppet \in Puppets
  /\ models \subseteq Labels \cup Listed
  /\ pc \in {"flat", "capture"}
  /\ settled \in {"new", "yes", "no"}
  /\ pc = "capture" => puppet.alive

\* A puppet is never seen twice and never invisible: exactly its current model
\* is alive while it is, and none when it is not, although the current model is
\* looked up anew by every call and its inputs change between them
\* (getCurrentModel, changeModel, PuppetActor::control).
OneModel == models = IF puppet.alive THEN {Current(puppet)} ELSE {}

\* The model a slot calls for.
Wanted(x) ==
  IF x.captured /\ x.hack \in Listed THEN x.hack
  ELSE IF x.flat THEN "Normal2D" ELSE "Normal"

\* The puppet of a player who changed nothing since the stage was loaded shows,
\* from its first frame, the model his slot calls for, whatever he was before.
\* (A puppet that lived through a change may not: a capture's name is read
\* once, when it begins, perhaps before it is written, and the end of a capture
\* shows the "Normal" model, whatever the dimension.)
FreshShown == settled = "yes" /\ puppet.alive => models = {Wanted(info)}

=============================================================================
