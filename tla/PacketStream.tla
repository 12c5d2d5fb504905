---------------------------- MODULE PacketStream ----------------------------
(***************************************************************************)
(* What receiving from a connection promises: packets are numbered as the  *)
(* server sends them, some are lost, and those handed over are whole, each *)
(* once and in order - except while the reader is astray, out of step with *)
(* the bounds of packets.                                                  *)
(***************************************************************************)
EXTENDS Naturals, Sequences

CONSTANTS Numbers, Garbage

VARIABLES
  said,     \* the last packet the server has begun to send
  pending,  \* packets on the way
  inbox,    \* packets handed over and not yet taken
  astray

vars == <<said, pending, inbox, astray>>

Init == said = 0 /\ pending = {} /\ inbox = <<>> /\ astray = FALSE

Announce ==
  /\ \E n \in Numbers : n > said /\ said' = n /\ pending' = pending \cup {n}
  /\ UNCHANGED <<inbox, astray>>

\* Some of what is on the way is lost, and the reader may get out of step by
\* it, or, with a new connection, back into step.
Lose ==
  /\ pending' \in SUBSET pending
  /\ astray' \in BOOLEAN
  /\ UNCHANGED <<said, inbox>>

\* The packet that was sent first.
Deliver ==
  /\ ~astray
  /\ \E n \in pending :
       /\ \A m \in pending : n <= m
       /\ inbox' = Append(inbox, n)
       /\ pending' = pending \ {n}
  /\ UNCHANGED <<said, astray>>

\* Whatever is taken for a packet.
Garble ==
  /\ astray
  /\ \E x \in Numbers \cup {Garbage} : inbox' = Append(inbox, x)
  /\ pending' \in SUBSET pending
  /\ astray' \in BOOLEAN
  /\ UNCHANGED said

Take ==
  /\ inbox # <<>>
  /\ inbox' = Tail(inbox)
  /\ UNCHANGED <<said, pending, astray>>

Next == Announce \/ Lose \/ Deliver \/ Garble \/ Take

Spec == Init /\ [][Next]_vars

=============================================================================
