----------------------------- MODULE ShineSync -----------------------------
(***************************************************************************)
(* How moons (shines) are shared: each client reports the ones its player  *)
(* gets (sendShinePacket in source/main.cpp, Client::sendShineCollectPacket) *)
(* and collects the ones the others report (updateShineInfo, updateShines, *)
(* resetCollectedShines in source/server/Client.cpp).                      *)
(*                                                                         *)
(* On a client the read thread appends to curCollectedShines and the game  *)
(* thread scans and clears it once per frame, with no lock between them.   *)
(* What a racing access of collectedShineCount sees is left open: a value  *)
(* the read thread loaded before or the one there is now, and the two      *)
(* writes of resetCollectedShines in either order.                         *)
(*                                                                         *)
(* The way of a packet through queues and server is one step here: it is   *)
(* put into the inbox of every other client (SocketClient has the rest).   *)
(***************************************************************************)
EXTENDS Naturals, Sequences

CONSTANTS
  Clients,
  Shines,      \* unique ids of shines
  NoShine,     \* the -1 of an empty entry of curCollectedShines
  Cap,         \* curCollectedShines.size()
  Newcomers,   \* clients that start in scenario 0 or 1 of CapWorldHomeStage
  Finds,       \* bound: the shines a client's player comes by himself
  MaxRefusals  \* bound: how often a queue drops a report

ASSUME CapAssumption == Cap \in Nat \ {0}
ASSUME NoShineAssumption == NoShine \notin Shines
ASSUME NewcomersAssumption == Newcomers \subseteq Clients
ASSUME FindsAssumption == Finds \in [Clients -> SUBSET Shines]
ASSUME RefusalsAssumption == MaxRefusals \in Nat

VARIABLES
  got,      \* per client: shines its save file has
  last,     \* lastCollectedShine
  early,    \* is the player still in the stage updateShines skips
  inbox,    \* reports on the way to the client
  list,     \* curCollectedShines
  count,    \* collectedShineCount
  reader,   \* where updateShineInfo is
  held,     \* the shine it appends
  index,    \* the count it loaded
  game,     \* where updateShines is
  pos,      \* entry it looks at
  toClear,  \* what resetCollectedShines has left to do
  refusals  \* reports dropped so far, by sender or receivers

saveVars == <<got, last, early>>
wireVars == <<inbox, refusals>>
readVars == <<reader, held, index>>
gameVars == <<game, pos, toClear>>
vars == <<saveVars, wireVars, list, count, readVars, gameVars>>

Entries == 0..Cap - 1
Empty == [i \in Entries |-> NoShine]

Init ==
  /\ got = [c \in Clients |-> {}]
  /\ last = [c \in Clients |-> NoShine]
  /\ early = [c \in Clients |-> c \in Newcomers]
  /\ inbox = [c \in Clients |-> <<>>]
  /\ list = [c \in Clients |-> Empty]
  /\ count = [c \in Clients |-> 0]
  /\ reader = [c \in Clients |-> "idle"]
  /\ held = [c \in Clients |-> NoShine]
  /\ index = [c \in Clients |-> 0]
  /\ game = [c \in Clients |-> "idle"]
  /\ pos = [c \in Clients |-> 0]
  /\ toClear = [c \in Clients |-> {}]
  /\ refusals = 0

Set(f, c, v) == [f EXCEPT ![c] = v]

-----------------------------------------------------------------------------
(* Reporting, on the game thread.                                          *)

\* sendShineCollectPacket: the id is remembered also when the packet is refused,
\* by queuePacket or by the receive queues of some of the other clients.
Report(c, s) ==
  /\ last' = Set(last, c, s)
  /\ \/ /\ last[c] = s
        /\ UNCHANGED wireVars
     \/ /\ last[c] # s
        /\ inbox' = [d \in Clients |-> IF d = c THEN inbox[d] ELSE Append(inbox[d], s)]
        /\ UNCHANGED refusals
     \/ /\ last[c] # s
        /\ refusals < MaxRefusals
        /\ refusals' = refusals + 1
        /\ \E lost \in (SUBSET (Clients \ {c})) \ {{}} :
             inbox' = [d \in Clients |-> IF d \in lost \cup {c} THEN inbox[d] ELSE Append(inbox[d], s)]

\* The player gets a shine (sendShinePacket).
Collect(c, s) ==
  /\ game[c] = "idle"
  /\ s \notin got[c]
  /\ got' = Set(got, c, got[c] \cup {s})
  /\ Report(c, s)
  /\ UNCHANGED <<early, list, count, readVars, gameVars>>

LeaveCapWorld(c) ==
  /\ game[c] = "idle"
  /\ early[c]
  /\ early' = Set(early, c, FALSE)
  /\ UNCHANGED <<got, last, wireVars, list, count, readVars, gameVars>>

-----------------------------------------------------------------------------
(* updateShineInfo, on the read thread.                                    *)

\* Mistake: the last entry counts as free for ever.
Admit_NoLimit(c) ==
  /\ reader[c] = "idle"
  /\ inbox[c] # <<>>
  /\ inbox' = Set(inbox, c, Tail(inbox[c]))
  /\ held' = Set(held, c, Head(inbox[c]))
  /\ index' = Set(index, c, count[c])
  /\ reader' = Set(reader, c, "write")
  /\ UNCHANGED <<saveVars, refusals, list, count, gameVars>>

\* The next report; a full list drops it.
Admit(c) ==
  /\ reader[c] = "idle"
  /\ inbox[c] # <<>>
  /\ inbox' = Set(inbox, c, Tail(inbox[c]))
  /\ \/ /\ count[c] < Cap - 1
        /\ held' = Set(held, c, Head(inbox[c]))
        /\ index' = Set(index, c, count[c])
        /\ reader' = Set(reader, c, "write")
     \/ /\ count[c] >= Cap - 1
        /\ UNCHANGED readVars
  /\ UNCHANGED <<saveVars, refusals, list, count, gameVars>>

\* curCollectedShines[collectedShineCount] = shineId
Write(c) ==
  /\ reader[c] = "write"
  /\ \E i \in {index[c], count[c]} :
       /\ list' = [list EXCEPT ![c][i] = held[c]]
       /\ index' = Set(index, c, i)
  /\ reader' = Set(reader, c, "count")
  /\ UNCHANGED <<saveVars, wireVars, count, held, gameVars>>

\* collectedShineCount++
Bump(c) ==
  /\ reader[c] = "count"
  /\ \E n \in {index[c], count[c]} : count' = Set(count, c, n + 1)
  /\ reader' = Set(reader, c, "idle")
  /\ held' = Set(held, c, NoShine)
  /\ index' = Set(index, c, 0)
  /\ UNCHANGED <<saveVars, wireVars, list, gameVars>>

-----------------------------------------------------------------------------
(* Client::update and updateShines, on the game thread.                    *)

\* isNeedUpdateShines, and not in the stage that is skipped.
Frame(c) ==
  /\ game[c] = "idle"
  /\ count[c] > 0
  /\ ~early[c]
  /\ game' = Set(game, c, "scan")
  /\ UNCHANGED <<saveVars, wireVars, list, count, readVars, pos, toClear>>

Advance(c) ==
  \/ /\ pos[c] < Cap - 1
     /\ pos' = Set(pos, c, pos[c] + 1)
     /\ UNCHANGED <<game, toClear>>
  \/ /\ pos[c] = Cap - 1
     /\ pos' = Set(pos, c, 0)
     /\ game' = Set(game, c, "reset")
     /\ toClear' = Set(toClear, c, {"count", "list"})

New(c) == list[c][pos[c]] \notin got[c] \cup {NoShine}

\* Mistake: setGotShine is left out for a shine that is in this stage.
Scan_OnlyElsewhere(c) ==
  /\ game[c] = "scan"
  /\ \/ ~New(c) /\ UNCHANGED <<got, last, wireVars>>
     \/ /\ New(c)
        /\ \/ Report(c, list[c][pos[c]]) /\ UNCHANGED got
           \/ /\ got' = Set(got, c, got[c] \cup {list[c][pos[c]]})
              /\ UNCHANGED <<last, wireVars>>
  /\ Advance(c)
  /\ UNCHANGED <<early, list, count, readVars>>

\* One entry of the scan, which covers the whole array.  If the shine's actor
\* is in this stage its getDirect runs, which reports the shine once more.
Scan(c) ==
  /\ game[c] = "scan"
  /\ \/ ~New(c) /\ UNCHANGED <<got, last, wireVars>>
     \/ /\ New(c)
        /\ got' = Set(got, c, got[c] \cup {list[c][pos[c]]})
        /\ Report(c, list[c][pos[c]]) \/ UNCHANGED <<last, wireVars>>
  /\ Advance(c)
  /\ UNCHANGED <<early, list, count, readVars>>

\* resetCollectedShines
Clear(c, part) ==
  /\ part \in toClear[c]
  /\ toClear' = Set(toClear, c, toClear[c] \ {part})
  /\ game' = Set(game, c, IF toClear[c] = {part} THEN "idle" ELSE "reset")
  /\ count' = IF part = "count" THEN Set(count, c, 0) ELSE count
  /\ list' = IF part = "list" THEN Set(list, c, Empty) ELSE list
  /\ UNCHANGED <<saveVars, wireVars, readVars, pos>>

-----------------------------------------------------------------------------
ReadThread(c) == Admit(c) \/ Write(c) \/ Bump(c)
UpdateShines(c) == Frame(c) \/ Scan(c) \/ \E part \in {"count", "list"} : Clear(c, part)
Player(c) == LeaveCapWorld(c) \/ \E s \in Finds[c] : Collect(c, s)

Next == \E c \in Clients : ReadThread(c) \/ UpdateShines(c) \/ Player(c)

Spec == Init /\ [][Next]_vars

\* The read thread runs, and the game calls Client::update in every frame.
FairSpec == Spec /\ \A c \in Clients : WF_vars(ReadThread(c)) /\ WF_vars(UpdateShines(c))

-----------------------------------------------------------------------------
\* Every variable keeps its shape; above all, whatever the race between append
\* and reset does, updateShineInfo neither writes behind the array nor counts
\* further than its last-but-one entry.
TypeOK ==
  /\ got \in [Clients -> SUBSET Shines]
  /\ last \in [Clients -> Shines \cup {NoShine}]
  /\ early \in [Clients -> BOOLEAN]
  /\ inbox \in [Clients -> Seq(Shines)]
  /\ list \in [Clients -> [Entries -> Shines \cup {NoShine}]]
  /\ count \in [Clients -> 0..Cap - 1]
  /\ reader \in [Clients -> {"idle", "write", "count"}]
  /\ held \in [Clients -> Shines \cup {NoShine}]
  /\ index \in [Clients -> Entries]
  /\ game \in [Clients -> {"idle", "scan", "reset"}]
  /\ pos \in [Clients -> Entries]
  /\ toClear \in [Clients -> SUBSET {"count", "list"}]
  /\ refusals \in 0..MaxRefusals

\* README.md:10 "Moon Collection is shared between all players": a shine one
\* player gets, the others get too.
Shared == \A s \in Shines : (\E c \in Clients : s \in got[c]) ~> (\A c \in Clients : s \in got[c])

Overlap == \E c \in Clients : reader[c] # "idle" /\ game[c] # "idle"
Full == \E c \in Clients : reader[c] = "idle" /\ inbox[c] # <<>> /\ count[c] >= Cap - 1

\* As long as no append falls into a frame's updateShines, no report meets a
\* full list and none is refused by a queue of the sender or of a receiver, every shine anyone gets is had by everybody
\* in the end, once they have left the cap kingdom, whatever echoes getDirect
\* sends.
SharedUnlessOverlap ==
  /\ [](~Overlap /\ ~Full /\ refusals = 0)
  /\ \A c \in Clients : <>(~early[c])
  => Shared

=============================================================================
