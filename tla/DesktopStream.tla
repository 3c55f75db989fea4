---------------------------- MODULE DesktopStream ----------------------------
(***************************************************************************)
(* One desktop session after authentication: the three tasks of the host,  *)
(* the viewer, the lanes between them and what the network does to them.   *)
(***************************************************************************)
EXTENDS HostControl, Viewer

CONSTANT LossHorizon      \* bound: datagrams numbered from here on arrive

ASSUME StreamAssumption == ViewerHybrid = Hybrid /\ LossHorizon \in Nat

vars == <<controlVars, laneVars, producerVars, senderVars, host_control, viewerVars>>

Init ==
  /\ ControlInit
  /\ ViewerInit
  /\ LanesInit(requested_rate)
  /\ ProducerInit
  /\ SenderInit
  /\ HostControlInit

\* A whole update is lost; some of its datagrams may have arrived.
LoseDatagram ==
  \E m \in datagrams :
    /\ "Loss" \in Faults
    /\ m.sequence < LossHorizon
    /\ datagrams' = datagrams \ {m}
    /\ incomplete' \in {incomplete, TRUE}
    /\ UNCHANGED <<controlVars, packets, packet_rx_open, reliable, control, connected, producerVars,
                   senderVars, host_control, viewer, pictureVars, waiting_for_keyframe, shown_cursor,
                   may_request, stable, requested_rate>>

\* The connection goes with the viewer, or by itself.
ConnectionDrops ==
  /\ connected
  /\ viewer # "open" \/ "ConnectionLoss" \in Faults
  /\ connected' = FALSE
  /\ UNCHANGED <<controlVars, packets, packet_rx_open, reliable, datagrams, control, producerVars,
                 senderVars, host_control, viewerVars>>

HostEnded    == ProducerEnded /\ sender = "done" /\ host_control = "done"
SessionEnded == viewer # "open" \/ ~connected \/ shutdown \/ ProducerEnded

\* Everything has ended.
Terminated == HostEnded /\ viewer # "open" /\ UNCHANGED vars

Next ==
  \/ Producer       /\ UNCHANGED <<senderVars, host_control, viewerVars>>
  \/ Sender         /\ UNCHANGED <<producerVars, host_control, viewerVars>>
  \/ HostController /\ UNCHANGED <<producerVars, senderVars, viewerVars>>
  \/ ViewerLoop     /\ UNCHANGED <<controlVars, producerVars, senderVars, host_control>>
  \/ LoseDatagram
  \/ ConnectionDrops
  \/ Terminated

Spec == Init /\ [][Next]_vars

\* Threads and tasks are scheduled, messages arrive and timers expire.  The
\* desktop need not change, the user need not close the window and nothing need
\* be lost.
Fairness ==
  /\ WF_vars(ProducerRuns /\ UNCHANGED <<senderVars, host_control, viewerVars>>)
  /\ WF_vars(RefreshTimer /\ UNCHANGED <<senderVars, host_control, viewerVars>>)
  /\ WF_vars(Sender /\ UNCHANGED <<producerVars, host_control, viewerVars>>)
  /\ WF_vars(HostController /\ UNCHANGED <<producerVars, senderVars, viewerVars>>)
  /\ WF_vars(ViewerReceives /\ UNCHANGED <<controlVars, producerVars, senderVars, host_control>>)
  /\ WF_vars(RequestTimer /\ UNCHANGED <<controlVars, producerVars, senderVars, host_control>>)
  /\ WF_vars(Watchdog /\ UNCHANGED <<controlVars, producerVars, senderVars, host_control>>)
  /\ WF_vars(ViewerLosesConnection /\ UNCHANGED <<controlVars, producerVars, senderVars, host_control>>)

FairSpec == Spec /\ Fairness

-----------------------------------------------------------------------------
\* Every variable holds a value of its type.
TypeOK ==
  /\ ControlTypeOK /\ LanesTypeOK /\ ProducerTypeOK
  /\ SenderTypeOK /\ HostControlTypeOK /\ ViewerTypeOK

\* The window shows exactly the frame the host captured for the sequence number
\* the viewer has reached: no region update was applied to another base than the
\* one it was computed against, and no inter frame was decoded against a
\* reference the decoder does not hold, whatever was lost, reordered, flushed or
\* dropped on the way (main.rs:2214-2429; "instead of applying a patch to an
\* unknown base", README.md:64).  So it is because everything behind a gap is
\* dropped until a keyframe, in spite of the comment at main.rs:2229-2236: see
\* GapsAreConcealed.
PictureMatchesSequence ==
  last_sequence # NoSequence => picture = FrameAt(last_sequence)

\* "Let the decoder conceal the loss and accept the complete current frame"
\* (main.rs:2231-2232): an isolated gap alone drops no encoded frame.  It does
\* (main.rs:2324-2343), so that no run checks this.
GapsAreConcealed ==
  [][\A m \in datagrams : DropDependent(m) => waiting_for_keyframe]_vars

\* A keyframe on its way can still be presented: the viewer never passes it by
\* showing a later message first, since a keyframe skipped as stale is never
\* acknowledged and the barrier behind it stays up (main.rs:2214-2217, 2430).
AnchorNeverStale ==
  \A i \in 1..Len(reliable) : IsKeyframe(reliable[i]) => ~Stale(reliable[i])

\* No region update reaches a viewer that has no full frame to patch: it would
\* end the session with an error (main.rs:2276-2283, preview.rs:205-211).
RegionsFollowFirstFrame ==
  \A m \in datagrams : IsRegion(m) => last_sequence # NoSequence

\* While the recovery barrier is up, somebody is going to take it down: a request
\* not yet taken, a keyframe the encoder owes, a recovery keyframe on its way or
\* an acknowledgement.  Otherwise capture has stopped for good and every further
\* request is coalesced with a recovery that does not happen (main.rs:150-186,
\* 1021-1029, 1383-1390, 2430).
KeyframeOwed == producer = "encode" /\ force_full_frame
BarrierHasOwner ==
  recovery_pending /\ ~SessionEnded =>
    \/ keyframe_requested
    \/ producer = "store" \/ host_control = "store" \/ sender \in {"reduce", "demand", "arm", "ack"}
    \/ KeyframeOwed
    \/ producer \in {"mark", "enqueue"}
    \/ \E i \in 1..Len(packets) : IsBarrier(packets[i])
    \/ sender = "send" /\ IsBarrier(current)
    \/ \E i \in 1..Len(reliable) : IsKeyframe(reliable[i])
    \/ \E i \in 1..Len(control) : control[i].type = "KeyframeAck"

\* Between a recovery keyframe and its presentation no other desktop state is
\* numbered, except a further keyframe that was requested (main.rs:1017-1029).  So
\* it is at a fixed rate: a second keyframe that a new rate forces is not waited for
\* once the first is acknowledged (MCRateChange).
BarrierInFlight ==
  \/ producer = "enqueue"
  \/ \E i \in 1..Len(packets) : IsBarrier(packets[i])
  \/ sender = "send" /\ IsBarrier(current)
  \/ \E i \in 1..Len(reliable) : IsBarrier(reliable[i])
BarrierHolds ==
  [][history' # history /\ ~force_full_frame /\ ~SessionEnded => ~BarrierInFlight]_vars

-----------------------------------------------------------------------------
\* The bound on sequence numbers, not the code, has stopped the session: nothing
\* more can be captured and everything sent has arrived.
Exhausted ==
  /\ producer = "capture" /\ ~CanNumber
  /\ packets = <<>> /\ reliable = <<>> /\ datagrams = {} /\ control = <<>>

\* A recovery that was started ends: the barrier that stops capture and
\* encoding is taken down (main.rs:1017-1029).
BarrierCleared == recovery_pending ~> (~recovery_pending \/ SessionEnded \/ Exhausted)

\* A viewer that waits for a keyframe gets to show a picture again.
ViewerRecovers == waiting_for_keyframe ~> (~waiting_for_keyframe \/ SessionEnded \/ Exhausted)

\* After the viewer has gone, capture, encoding and sending stop.
HostStops == (viewer # "open") ~> HostEnded
=============================================================================
