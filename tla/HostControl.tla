----------------------------- MODULE HostControl -----------------------------
(***************************************************************************)
(* The control task of the host (receive_host_input): the viewer's requests*)
(* and acknowledgements against the shared StreamControl.  An input event  *)
(* and a MediaNack that finds its update in the cache leave StreamControl  *)
(* alone and are not messages of this model.                               *)
(***************************************************************************)
EXTENDS HostSender

VARIABLE host_control     \* "receive", "store" (half of request_keyframe) or "done"

HostControlInit   == host_control = "receive"
HostControlTypeOK == host_control \in {"receive", "store", "done"}

\* "EarlyAck" out of Faults: a round trip to the viewer takes longer than the
\* two statements the sender executes after a recovery keyframe was sent.
AckIsEarly == sender \in {"arm", "flush"}

Receive(type) ==
  /\ host_control = "receive"
  /\ connected
  /\ control # <<>>
  /\ Head(control).type = type
  /\ control' = Tail(control)
  /\ UNCHANGED <<packets, packet_rx_open, reliable, datagrams, connected>>

\* request_keyframe: coalesced with a recovery already pending.  Called for a
\* KeyframeRequest and for a MediaNack that misses the retransmit cache.
ReceiveKeyframeRequest ==
  /\ Receive("KeyframeRequest") \/ Receive("MediaNack")
  /\ \/ ~BarrierFree /\ UNCHANGED <<controlVars, host_control>>
     \/ BarrierFree /\ RaiseBarrier /\ host_control' = "store"

\* Mutant: the barrier is raised without a request behind it.
ControlStoresRequest_Forgotten ==
  /\ host_control = "store"
  /\ host_control' = "receive"
  /\ UNCHANGED <<controlVars, laneVars>>

ControlStoresRequest ==
  /\ host_control = "store"
  /\ StoreRequested
  /\ host_control' = "receive"
  /\ UNCHANGED laneVars

ReceiveKeyframeAck ==
  /\ Receive("KeyframeAck")
  /\ AckIsEarly => "EarlyAck" \in Faults
  /\ LowerBarrier
  /\ UNCHANGED host_control

ReceiveRateHint ==
  /\ Receive("RateHint")
  /\ UpdateRate(Head(control).rate)
  /\ UNCHANGED host_control

\* Mutant: Close ends the control task and nothing else.
ReceiveClose_Alone ==
  /\ Receive("Close")
  /\ host_control' = "done"
  /\ UNCHANGED controlVars

ReceiveClose ==
  /\ Receive("Close")
  /\ StoreShutdown
  /\ host_control' = "done"

\* The stream or an injection failed: the task that runs receive_host_input
\* sets shutdown.
ControlFails ==
  /\ host_control = "receive"
  /\ ~connected \/ "InputError" \in Faults
  /\ StoreShutdown
  /\ host_control' = "done"
  /\ UNCHANGED laneVars

\* run_network_host has returned and its runtime drops the task.
ControlCancelled ==
  /\ host_control # "done"
  /\ sender = "done"
  /\ "TaskCancelled" \in Faults
  /\ host_control' = "done"
  /\ UNCHANGED <<controlVars, laneVars>>

HostController ==
  \/ ReceiveKeyframeRequest \/ ControlStoresRequest \/ ReceiveKeyframeAck
  \/ ReceiveRateHint \/ ReceiveClose \/ ControlFails
  \/ ControlCancelled
=============================================================================
