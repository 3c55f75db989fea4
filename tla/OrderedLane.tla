----------------------------- MODULE OrderedLane -----------------------------
(***************************************************************************)
(* What the NAL lane promises its user: of the frames that were sent, some *)
(* arrive, each as it was sent and each newer than the one before.         *)
(***************************************************************************)
EXTENDS Naturals, Sequences

CONSTANT Content

VARIABLES
  sent,           \* contents by sequence number, from 1
  arrivals        \* <<sequence, content>>, in the order of their arrival

Init == sent = <<>> /\ arrivals = <<>>

Send(c) ==
  /\ sent' = Append(sent, c)
  /\ UNCHANGED arrivals

Arrive(s) ==
  /\ \A i \in DOMAIN arrivals : arrivals[i][1] < s
  /\ arrivals' = Append(arrivals, <<s, sent[s]>>)
  /\ UNCHANGED sent

Next == (\E c \in Content : Send(c)) \/ (\E s \in DOMAIN sent : Arrive(s))

Spec == Init /\ [][Next]_<<sent, arrivals>>
=============================================================================
