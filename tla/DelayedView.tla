---------------------------- MODULE DelayedView ----------------------------
(***************************************************************************)
(* What the puppet table promises: it shows who is at the server, late but *)
(* in order.  A change of the real set is announced, and the announcements *)
(* are applied to the view one by one, none invented.  If one is lost the   *)
(* promise ends there.                                                     *)
(***************************************************************************)
EXTENDS Sequences

CONSTANT Members

VARIABLES
  real,    \* who is there
  view,    \* who is shown
  pending, \* announcements not yet applied
  lost     \* was one lost

vars == <<real, view, pending, lost>>

Announcements == [who : Members, here : BOOLEAN]

Init == real = {} /\ view = {} /\ pending = <<>> /\ lost = FALSE

With(S, a) == IF a.here THEN S \cup {a.who} ELSE S \ {a.who}

Change ==
  /\ ~lost
  /\ UNCHANGED <<view, lost>>
  /\ \E a \in Announcements :
       /\ a.here <=> a.who \notin real
       /\ real' = With(real, a)
       /\ pending' = Append(pending, a)

Apply ==
  /\ ~lost
  /\ pending # <<>>
  /\ view' = With(view, Head(pending))
  /\ pending' = Tail(pending)
  /\ UNCHANGED <<real, lost>>

Lose ==
  /\ ~lost /\ lost'
  /\ pending # <<>>
  /\ pending' = Tail(pending)
  /\ UNCHANGED <<real, view>>

Adrift == lost /\ lost'

Next == Change \/ Apply \/ Lose \/ Adrift

Safe == Init /\ [][Next]_vars

\* Every announcement is applied in the end, unless one is lost.
Spec == Safe /\ WF_vars(Apply)

=============================================================================
