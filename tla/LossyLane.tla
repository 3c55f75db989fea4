------------------------------ MODULE LossyLane ------------------------------
(***************************************************************************)
(* What the Datagram lane promises its user: of the updates that were sent,*)
(* some arrive whole, in any order, and none arrives twice.  DesktopStream *)
(* relies on no more than this.                                            *)
(***************************************************************************)
EXTENDS Naturals

CONSTANT Updates        \* sequence numbers

VARIABLES sent, arrivals

Init ==
  /\ sent = {}
  /\ arrivals = [s \in Updates |-> 0]

Send(s) ==
  /\ s \notin sent
  /\ sent' = sent \cup {s}
  /\ UNCHANGED arrivals

Arrive(s) ==
  /\ s \in sent
  /\ arrivals[s] = 0
  /\ arrivals' = [arrivals EXCEPT ![s] = 1]
  /\ UNCHANGED sent

Next == \E s \in Updates : Send(s) \/ Arrive(s)

Spec == Init /\ [][Next]_<<sent, arrivals>>
=============================================================================
