----------------------------- MODULE HostSender -----------------------------
(***************************************************************************)
(* The sender task of send_frames_from: it takes messages from the packet  *)
(* channel, sends keyframes and cursors on the reliable stream and the rest*)
(* as Datagrams, and finally joins the producer thread.  A whole frame is  *)
(* one element of `datagrams`: fragments, reassembly and selective         *)
(* retransmission decide only when, and whether, it arrives.               *)
(***************************************************************************)
EXTENDS HostProducer

VARIABLES
  sender,        \* where the task is in its loop
  current        \* the message it took from the channel

senderVars == <<sender, current>>

SenderSteps == { "loop", "recv", "send", "arm", "flush", "lower", "reduce",
                 "demand", "ack", "join", "done" }

SenderInit == sender = "loop" /\ current = NoPicture

SenderTypeOK == sender \in SenderSteps /\ current \in MediaMsg \cup {NoPicture}

\* A finished message is forgotten; the next round looks at shutdown first.
Finish == sender' = "loop" /\ current' = NoPicture

-----------------------------------------------------------------------------
SenderLoop ==
  /\ sender = "loop"
  /\ sender' = IF shutdown THEN "join" ELSE "recv"
  /\ UNCHANGED <<controlVars, laneVars, current>>

SenderReceive ==
  /\ sender = "recv"
  /\ \/ /\ packets # <<>>
        /\ current' = Head(packets)
        /\ packets' = Tail(packets)
        /\ sender' = "send"
     \/ /\ packets = <<>>
        /\ ProducerEnded
        /\ sender' = "join"
        /\ UNCHANGED <<packets, current>>
  /\ UNCHANGED <<controlVars, otherLanes>>

OnReliableStream == current.type = "Cursor" \/ (IsKeyframe(current) /\ Hybrid)

BehindBarrier == ~IsKeyframe(current) /\ Hybrid /\ recovery_pending

\* Cursor updates and keyframes; a recovery keyframe is followed by two more
\* statements.  send() waits for room in the stream.
SenderSendReliable ==
  /\ sender = "send"
  /\ OnReliableStream
  /\ connected
  /\ Len(reliable) < ReliableWindow
  /\ reliable' = Append(reliable, current)
  /\ IF IsBarrier(current) THEN sender' = "arm" /\ current' = NoPicture ELSE Finish
  /\ UNCHANGED <<controlVars, packets, packet_rx_open, datagrams, control, connected>>

\* The barrier is set again, after the keyframe is on the wire.
SenderArmBarrier ==
  /\ sender = "arm"
  /\ RaiseBarrier
  /\ sender' = "flush"
  /\ UNCHANGED <<laneVars, current>>

\* Everything queued behind a recovery keyframe is discarded, one try_recv at
\* a time.
SenderFlush ==
  /\ sender = "flush"
  /\ IF packets = <<>>
     THEN Finish /\ UNCHANGED packets
     ELSE packets' = Tail(packets) /\ UNCHANGED senderVars
  /\ UNCHANGED <<controlVars, otherLanes>>

SenderDropBehindBarrier ==
  /\ sender = "send"
  /\ ~OnReliableStream
  /\ BehindBarrier
  /\ Finish
  /\ UNCHANGED <<controlVars, laneVars>>

SenderDropOversized ==
  /\ sender = "send"
  /\ ~OnReliableStream
  /\ ~BehindBarrier
  /\ ~IsKeyframe(current)
  /\ "OversizedFrame" \in Faults
  /\ sender' = "lower"
  /\ current' = NoPicture
  /\ UNCHANGED <<controlVars, laneVars>>

\* All fragments of the frame are handed to the Datagram lane.  A legacy peer
\* does not acknowledge keyframes: the sender does it.
SenderSendDatagrams ==
  /\ sender = "send"
  /\ ~OnReliableStream
  /\ ~BehindBarrier
  /\ connected
  /\ datagrams' = datagrams \cup {current}
  /\ IF IsKeyframe(current) THEN sender' = "ack" /\ current' = NoPicture ELSE Finish
  /\ UNCHANGED <<controlVars, packets, packet_rx_open, reliable, control, connected>>

SenderAcknowledge ==
  /\ sender = "ack"
  /\ LowerBarrier
  /\ Finish
  /\ UNCHANGED laneVars

-----------------------------------------------------------------------------
\* request_lower_rate_keyframe in its three accesses: the exchange, the new
\* rate (or, at the floor, giving the barrier back), the request.
SenderLowerRate ==
  /\ sender = "lower"
  /\ \/ ~BarrierFree /\ UNCHANGED controlVars /\ Finish
     \/ BarrierFree /\ RaiseBarrier /\ sender' = "reduce" /\ UNCHANGED current
  /\ UNCHANGED laneVars

\* Mutant: at the floor the barrier is not given back.
SenderReduceRate_KeepsBarrier ==
  /\ sender = "reduce"
  /\ IF Reduce(target_rate) = target_rate
     THEN Finish /\ UNCHANGED controlVars
     ELSE UpdateRate(Reduce(target_rate)) /\ sender' = "demand" /\ UNCHANGED current
  /\ UNCHANGED laneVars

SenderReduceRate ==
  /\ sender = "reduce"
  /\ IF Reduce(target_rate) = target_rate
     THEN LowerBarrier /\ Finish
     ELSE UpdateRate(Reduce(target_rate)) /\ sender' = "demand" /\ UNCHANGED current
  /\ UNCHANGED laneVars

\* Mutant: the lower rate is not followed by a keyframe.
SenderDemandKeyframe_Forgotten ==
  /\ sender = "demand"
  /\ Finish
  /\ UNCHANGED <<controlVars, laneVars>>

SenderDemandKeyframe ==
  /\ sender = "demand"
  /\ StoreRequested
  /\ Finish
  /\ UNCHANGED laneVars

-----------------------------------------------------------------------------
\* A failed send ends the task: the channel is dropped with it and the caller
\* closes the connection; the producer thread is not joined.
SenderFails ==
  /\ sender = "send"
  /\ ~connected
  /\ OnReliableStream \/ ~BehindBarrier
  /\ sender' = "done"
  /\ current' = NoPicture
  /\ packet_rx_open' = FALSE
  /\ UNCHANGED <<controlVars, packets, reliable, datagrams, control, connected>>

\* producer.await: packet_rx is still alive while the task waits here.  The host
\* then returns, and its connection ends with it.
SenderJoins ==
  /\ sender = "join"
  /\ ProducerEnded
  /\ sender' = "done"
  /\ packet_rx_open' = FALSE
  /\ connected' = FALSE
  /\ UNCHANGED <<controlVars, packets, reliable, datagrams, control, current>>

Sender ==
  \/ SenderLoop \/ SenderReceive \/ SenderSendReliable \/ SenderArmBarrier \/ SenderFlush
  \/ SenderDropBehindBarrier \/ SenderDropOversized \/ SenderSendDatagrams \/ SenderAcknowledge
  \/ SenderLowerRate \/ SenderReduceRate \/ SenderDemandKeyframe \/ SenderFails \/ SenderJoins
=============================================================================
