------------------------- MODULE DesktopStreamProofs --------------------------
(***************************************************************************)
(* What holds of a desktop session for every value of the constants.  Type *)
(* correctness: TypeOK is not inductive, what a task holds between two of  *)
(* its steps must be known too.  The window shows what was captured under  *)
(* the sequence number it has reached: PictureInv is inductive over typed  *)
(* states, as long as an encoder of dirty regions skips no frame.  And the *)
(* order of what is on its way, with the barriers of the keyframes.        *)
(***************************************************************************)
EXTENDS PictureInvariant, SequenceTheorems, TLAPS

\* What the producer and the sender hold, by the step they are at.
ProducerHolds ==
  /\ producer \in {"mark", "enqueue"} => outgoing \in VideoMsg
  /\ producer \notin {"top", "done", "failed"} => previous \in Frame
  /\ producer = "cursor" => frame_cursor \in Cursor
SenderHolds == sender = "send" => current \in MediaMsg

TypeInv == TypeOK /\ ProducerHolds /\ SenderHolds

-----------------------------------------------------------------------------
\* Initially every variable has its type.
LEMMA InitTyped == Init => TypeInv
<1> SUFFICES ASSUME Init PROVE TypeInv
  OBVIOUS
<1> USE DEF Init
<1>1. ControlTypeOK
  BY DEF ControlInit, ControlTypeOK
<1>2. LanesTypeOK
  <2>1. [type |-> "RateHint", rate |-> requested_rate] \in ControlMsg
    BY DEF ViewerInit, ControlMsg
  <2>2. control \in Seq(ControlMsg)
    BY <2>1 DEF LanesInit
  <2>3. packets = <<>> /\ reliable = <<>> /\ datagrams = {}
    BY DEF LanesInit
  <2>4. Len(packets) <= QueueCapacity
    BY <2>3, LaneAssumption
  <2> QED
    BY <2>2, <2>3, <2>4 DEF LanesTypeOK, LanesInit
<1>3. ProducerTypeOK
  <2>1. history \in Seq(Numbered)
    BY DEF ProducerInit
  <2>2. current_rate \in Rates
    BY DEF ProducerInit, ControlInit
  <2> QED
    BY <2>1, <2>2 DEF ProducerInit, ProducerTypeOK, ProducerSteps
<1>4. SenderTypeOK /\ HostControlTypeOK
  BY DEF SenderInit, HostControlInit, SenderTypeOK, HostControlTypeOK, SenderSteps
<1>5. ViewerTypeOK
  BY DEF ViewerInit, ViewerTypeOK
<1> QED
  BY <1>1, <1>2, <1>3, <1>4, <1>5 DEF TypeInv, TypeOK, ProducerHolds, SenderHolds, ProducerInit, SenderInit

\* A video packet, a region update and a pointer state are media messages.
LEMMA Messages ==
  /\ VideoMsg \subseteq MediaMsg
  /\ \A f \in Frame, n \in Nat, r \in SUBSET Tile :
       [type |-> "DesktopUpdate", sequence |-> n, regions |-> r, frame |-> f] \in MediaMsg
  /\ \A c \in Cursor : [type |-> "Cursor", cursor |-> c] \in MediaMsg
<1>1. VideoMsg \subseteq MediaMsg
  BY DEF MediaMsg
<1>2. \A f \in Frame, n \in Nat, r \in SUBSET Tile :
        [type |-> "DesktopUpdate", sequence |-> n, regions |-> r, frame |-> f] \in MediaMsg
  BY DEF MediaMsg, RegionMsg
<1>3. \A c \in Cursor : [type |-> "Cursor", cursor |-> c] \in MediaMsg
  BY DEF MediaMsg, CursorMsg
<1> QED
  BY <1>1, <1>2, <1>3

\* The encoder's next packet is a video packet, and a message numbered with the
\* sequence of the last video packet can be recorded.
LEMMA Packets ==
  ASSUME ProducerTypeOK
  PROVE  /\ media_sequence \in Nat
         /\ \A key \in BOOLEAN : VideoPacket(key) \in VideoMsg
         /\ LastReference \in Nat \cup {NoReference}
<1>1. media_sequence \in Nat
  BY DEF ProducerTypeOK, media_sequence
<1>2. \A key \in BOOLEAN : VideoPacket(key) \in VideoMsg
  <2> TAKE key \in BOOLEAN
  <2>1. encoder_reference \in Int
    BY DEF ProducerTypeOK, NoReference
  <2>2. (key /\ (media_sequence = 0 \/ force_full_frame)) \in BOOLEAN
    OBVIOUS
  <2> QED
    BY <1>1, <2>1, <2>2 DEF ProducerTypeOK, VideoPacket, VideoMsg
<1>3. LastReference \in Nat \cup {NoReference}
  <2>1. CASE history = <<>>
    BY <2>1 DEF LastReference
  <2>2. CASE history # <<>>
    <3>1. history[Len(history) - 1 + 1] \in Numbered
      BY <2>2 DEF ProducerTypeOK
    <3> QED
      BY <2>2, <3>1 DEF LastReference, ReferenceAt, media_sequence, Numbered
  <2> QED
    BY <2>1, <2>2
<1> QED
  BY <1>1, <1>2, <1>3

-----------------------------------------------------------------------------
\* The producer thread keeps the types of what it writes.
LEMMA ProducerTyped ==
  ASSUME TypeInv, Producer
  PROVE  ControlTypeOK' /\ LanesTypeOK' /\ ProducerTypeOK' /\ ProducerHolds'
<1> USE DEF TypeInv, TypeOK
<1>1. CASE ProducerBeginRound
  BY <1>1 DEF ControlTypeOK, LanesTypeOK, ProducerTypeOK, ProducerHolds, ProducerSteps,
       ProducerBeginRound, controlVars, laneVars, sourceVars, encoderVars, outputVars, AtBarrier, Goto, Changed
<1>2. CASE ProducerStops
  BY <1>2 DEF ControlTypeOK, LanesTypeOK, ProducerTypeOK, ProducerHolds, ProducerSteps,
       ProducerStops, controlVars, laneVars, sourceVars, detectorVars, encoderVars, outputVars, Goto
<1>3. CASE ProducerSendCursor
  <2>1. ControlTypeOK' /\ ProducerTypeOK' /\ ProducerHolds'
    BY <1>3 DEF ControlTypeOK, ProducerTypeOK, ProducerHolds, ProducerSteps, ProducerSendCursor, controlVars, otherLanes, sourceVars, detectorVars, encoderVars, Goto
  <2>2. packets' \in Seq(MediaMsg) /\ Len(packets') <= QueueCapacity
    <3>1. [type |-> "Cursor", cursor |-> frame_cursor] \in MediaMsg
      BY <1>3, Messages DEF ProducerHolds, ProducerSendCursor
    <3> QED
      BY <1>3, <3>1, LaneAssumption DEF LanesTypeOK, ProducerSendCursor
  <2> QED
    BY <1>3, <2>1, <2>2 DEF LanesTypeOK, ProducerSendCursor, controlVars, otherLanes, sourceVars, detectorVars, encoderVars, Goto
<1>4. CASE ProducerLoadSettings
  <2>1. target_rate \in Rates /\ force_full_frame' \in BOOLEAN
    BY <1>4 DEF ControlTypeOK, ProducerLoadSettings
  <2>2. encoder_reference' \in Nat \cup {NoReference}
    BY <1>4 DEF ProducerTypeOK, ProducerLoadSettings
  <2> QED
    BY <1>4, <2>1, <2>2 DEF ControlTypeOK, LanesTypeOK, ProducerTypeOK, ProducerHolds, ProducerSteps,
         ProducerLoadSettings, controlVars, laneVars, sourceVars, detectorVars, outputVars, Goto
<1>5. CASE ProducerTakeRequest
  BY <1>5 DEF ControlTypeOK, LanesTypeOK, ProducerTypeOK, ProducerHolds, ProducerSteps,
       ProducerTakeRequest, laneVars, sourceVars, detectorVars, outputVars, SwapRequested, Goto
<1>6. CASE ProducerSendRegion
  <2> DEFINE m == [type |-> "DesktopUpdate", sequence |-> media_sequence, regions |-> dirty_regions, frame |-> frame]
  <2>1. m \in MediaMsg
    BY Messages, Packets DEF ProducerTypeOK
  <2>2. packets' \in Seq(MediaMsg) /\ Len(packets') <= QueueCapacity
    <3>1. packets' = packets \/ (Len(packets) < QueueCapacity /\ packets' = Append(packets, m))
      BY <1>6 DEF ProducerSendRegion, TrySend
    <3> HIDE DEF m
    <3>2. CASE packets' = packets
      BY <3>2 DEF LanesTypeOK
    <3>3. CASE Len(packets) < QueueCapacity /\ packets' = Append(packets, m)
      BY <2>1, <3>3, LaneAssumption DEF LanesTypeOK
    <3> QED
      BY <3>1, <3>2, <3>3
  <2>3. [frame |-> frame, reference |-> LastReference] \in Numbered
    BY Packets DEF ProducerTypeOK, Numbered
  <2>4. history' \in Seq(Numbered)
    BY <1>6, <2>3 DEF ProducerTypeOK, ProducerSendRegion
  <2>5. producer' \in {"done", "pace", "request"}
    BY <1>6 DEF ProducerSendRegion, TrySend, Goto
  <2> QED
    BY <1>6, <2>2, <2>4, <2>5 DEF ControlTypeOK, LanesTypeOK, ProducerTypeOK, ProducerHolds, ProducerSteps,
         ProducerSendRegion, controlVars, otherLanes, sourceVars, detectorVars, encoderVars, Goto
<1>7. CASE ProducerSkipUnchanged
  BY <1>7 DEF ControlTypeOK, LanesTypeOK, ProducerTypeOK, ProducerHolds, ProducerSteps,
       ProducerSkipUnchanged, controlVars, laneVars, sourceVars, detectorVars, encoderVars, outputVars, Goto
<1>8. CASE ProducerEncode
  <2> PICK key \in KeyframeChoices :
         LET packet == VideoPacket(key) IN
         /\ IF packet.barrier /\ Hybrid
            THEN Goto("mark") /\ outgoing' = packet /\ UNCHANGED packets
            ELSE TrySend(packet) /\ UNCHANGED outgoing
         /\ history' = Append(history, [frame |-> frame, reference |-> media_sequence])
    BY <1>8 DEF ProducerEncode
  <2>1. VideoPacket(key) \in VideoMsg /\ VideoPacket(key) \in MediaMsg
    BY Messages, Packets DEF KeyframeChoices
  <2>2. packets' \in Seq(MediaMsg) /\ Len(packets') <= QueueCapacity
    <3>1. CASE packets' = packets
      BY <3>1 DEF LanesTypeOK
    <3>2. CASE Len(packets) < QueueCapacity /\ packets' = Append(packets, VideoPacket(key))
      BY <2>1, <3>2, LaneAssumption DEF LanesTypeOK
    <3> QED
      BY <3>1, <3>2 DEF TrySend
  <2>3. [frame |-> frame, reference |-> media_sequence] \in Numbered
    BY Packets DEF ProducerTypeOK, Numbered
  <2>4. history' \in Seq(Numbered)
    BY <2>3 DEF ProducerTypeOK
  <2>5. \/ producer' = "mark" /\ outgoing' \in VideoMsg
        \/ producer' \in {"done", "pace", "request"} /\ outgoing' \in VideoMsg \cup {NoPicture}
    BY <2>1 DEF TrySend, Goto, ProducerTypeOK
  <2>6. encoder_reference' \in Nat /\ refresh_due' \in BOOLEAN
    BY <1>8, Packets DEF ProducerEncode
  <2> QED
    BY <1>8, <2>2, <2>4, <2>5, <2>6 DEF ControlTypeOK, LanesTypeOK, ProducerTypeOK, ProducerHolds, ProducerSteps,
         ProducerEncode, controlVars, otherLanes, sourceVars, detectorVars, Goto
<1>9. CASE ProducerEncodeSkipped
  BY <1>9 DEF ControlTypeOK, LanesTypeOK, ProducerTypeOK, ProducerHolds, ProducerSteps,
       ProducerEncodeSkipped, controlVars, laneVars, sourceVars, detectorVars, encoderVars, outputVars, Goto
<1>10. CASE ProducerRequestKeyframe
  <2>1. producer = "request" /\ producer' \in {"pace", "store"} /\ UNCHANGED <<laneVars, sourceVars, detectorVars, encoderVars, outputVars>>
    BY <1>10 DEF ProducerRequestKeyframe, Goto
  <2>2. ControlTypeOK'
    BY <1>10 DEF ControlTypeOK, ProducerRequestKeyframe, RaiseBarrier, controlVars
  <2> QED
    BY <2>1, <2>2 DEF LanesTypeOK, ProducerTypeOK, ProducerHolds, ProducerSteps,
       laneVars, sourceVars, detectorVars, encoderVars, outputVars
<1>11. CASE ProducerStoreRequest
  BY <1>11 DEF ControlTypeOK, LanesTypeOK, ProducerTypeOK, ProducerHolds, ProducerSteps,
       ProducerStoreRequest, laneVars, sourceVars, detectorVars, encoderVars, outputVars, StoreRequested, Goto
<1>12. CASE ProducerMarkBarrier
  BY <1>12 DEF ControlTypeOK, LanesTypeOK, ProducerTypeOK, ProducerHolds, ProducerSteps,
       ProducerMarkBarrier, laneVars, sourceVars, detectorVars, encoderVars, outputVars, RaiseBarrier, Goto
<1>13. CASE ProducerEnqueueBarrier
  <2>1. packets' \in Seq(MediaMsg) /\ Len(packets') <= QueueCapacity
    <3>1. outgoing \in MediaMsg
      BY <1>13, Messages DEF ProducerHolds, ProducerEnqueueBarrier
    <3>2. packets \in Seq(MediaMsg) /\ Len(packets) <= QueueCapacity
      BY DEF LanesTypeOK
    <3>3. CASE ~packet_rx_open
      <4>1. packets' = packets
        BY <1>13, <3>3 DEF ProducerEnqueueBarrier, laneVars
      <4> QED
        BY <4>1, <3>2
    <3>4. CASE packet_rx_open
      <4>1. Len(packets) < QueueCapacity /\ packets' = Append(packets, outgoing)
        BY <1>13, <3>4 DEF ProducerEnqueueBarrier
      <4>2. packets' \in Seq(MediaMsg)
        BY <4>1, <3>1, <3>2, Z3
      <4>3. Len(packets') = Len(packets) + 1
        BY <4>1, <3>2, Z3
      <4>4. Len(packets) \in Nat /\ QueueCapacity \in Nat
        BY <3>2, LaneAssumption
      <4> QED
        BY <4>1, <4>2, <4>3, <4>4
    <3> QED
      BY <3>3, <3>4
  <2>2. ControlTypeOK'
    BY <1>13 DEF ControlTypeOK, ProducerEnqueueBarrier, controlVars, otherLanes, sourceVars, detectorVars, encoderVars, LowerBarrier, Goto
  <2> QED
    BY <1>13, <2>1, <2>2 DEF LanesTypeOK, ProducerTypeOK, ProducerHolds, ProducerSteps,
         ProducerEnqueueBarrier, controlVars, otherLanes, sourceVars, detectorVars, encoderVars, LowerBarrier, Goto
<1>14. CASE ProducerPace
  BY <1>14 DEF ControlTypeOK, LanesTypeOK, ProducerTypeOK, ProducerHolds, ProducerSteps,
       ProducerPace, controlVars, laneVars, sourceVars, detectorVars, encoderVars, outputVars, AtBarrier, Goto
<1>15. CASE ProducerRepeatFrame
  BY <1>15 DEF ControlTypeOK, LanesTypeOK, ProducerTypeOK, ProducerHolds, ProducerSteps,
       ProducerRepeatFrame, controlVars, laneVars, detectorVars, encoderVars, outputVars, Goto
<1>16. CASE ProducerStopsCapturing
  BY <1>16 DEF ControlTypeOK, LanesTypeOK, ProducerTypeOK, ProducerHolds, ProducerSteps,
       ProducerStopsCapturing, controlVars, laneVars, sourceVars, detectorVars, encoderVars, outputVars, Goto
<1>17. CASE ProducerCapture
  BY <1>17 DEF ControlTypeOK, LanesTypeOK, ProducerTypeOK, ProducerHolds, ProducerSteps,
       ProducerCapture, controlVars, laneVars, detectorVars, encoderVars, outputVars, Goto
<1>18. CASE ProducerFails
  BY <1>18 DEF ControlTypeOK, LanesTypeOK, ProducerTypeOK, ProducerHolds, ProducerSteps,
       ProducerFails, controlVars, laneVars, sourceVars, detectorVars, encoderVars, outputVars, Goto
<1>19. CASE RefreshTimer
  BY <1>19 DEF ControlTypeOK, LanesTypeOK, ProducerTypeOK, ProducerHolds, ProducerSteps,
       RefreshTimer, controlVars, laneVars, sourceVars, detectorVars, encoderVars
<1> QED
  BY <1>1, <1>2, <1>3, <1>4, <1>5, <1>6, <1>7, <1>8, <1>9, <1>10, <1>11, <1>12, <1>13, <1>14, <1>15, <1>16, <1>17, <1>18, <1>19 DEF Producer, ProducerRuns

\* What is taken from a queue, and what remains.
LEMMA Queues ==
  ASSUME NEW S, NEW q \in Seq(S), q # <<>>
  PROVE  /\ Head(q) \in S /\ Tail(q) \in Seq(S) /\ Len(Tail(q)) <= Len(q)
  BY HeadTailProperties

\* The sender task keeps the types of what it writes.
LEMMA SenderTyped ==
  ASSUME TypeInv, Sender
  PROVE  ControlTypeOK' /\ LanesTypeOK' /\ SenderTypeOK' /\ SenderHolds'
<1> USE DEF TypeInv, TypeOK
<1>1. CASE SenderLoop
  BY <1>1 DEF ControlTypeOK, LanesTypeOK, SenderTypeOK, SenderHolds, SenderSteps, SenderLoop, controlVars, laneVars
<1>2. CASE SenderReceive
  <2>1. packets # <<>> => /\ Head(packets) \in MediaMsg
                          /\ Tail(packets) \in Seq(MediaMsg) /\ Len(Tail(packets)) <= QueueCapacity
    BY Queues, LaneAssumption DEF LanesTypeOK
  <2> QED
    BY <1>2, <2>1 DEF ControlTypeOK, LanesTypeOK, SenderTypeOK, SenderHolds, SenderSteps,
       SenderReceive, controlVars, otherLanes
<1>3. CASE SenderSendReliable
  BY <1>3 DEF ControlTypeOK, LanesTypeOK, SenderTypeOK, SenderHolds, SenderSteps,
       SenderSendReliable, controlVars, Finish
<1>4. CASE SenderArmBarrier
  BY <1>4 DEF ControlTypeOK, LanesTypeOK, SenderTypeOK, SenderHolds, SenderSteps,
       SenderArmBarrier, RaiseBarrier, laneVars
<1>5. CASE SenderFlush
  <2>1. packets # <<>> => Tail(packets) \in Seq(MediaMsg) /\ Len(Tail(packets)) <= QueueCapacity
    BY Queues, LaneAssumption DEF LanesTypeOK
  <2> QED
    BY <1>5, <2>1 DEF ControlTypeOK, LanesTypeOK, SenderTypeOK, SenderHolds, SenderSteps,
       SenderFlush, senderVars, controlVars, otherLanes, Finish
<1>6. CASE SenderDropBehindBarrier
  BY <1>6 DEF ControlTypeOK, LanesTypeOK, SenderTypeOK, SenderHolds, SenderSteps,
       SenderDropBehindBarrier, controlVars, laneVars, Finish
<1>7. CASE SenderDropOversized
  BY <1>7 DEF ControlTypeOK, LanesTypeOK, SenderTypeOK, SenderHolds, SenderSteps,
       SenderDropOversized, controlVars, laneVars
<1>8. CASE SenderSendDatagrams
  BY <1>8 DEF ControlTypeOK, LanesTypeOK, SenderTypeOK, SenderHolds, SenderSteps,
       SenderSendDatagrams, controlVars, Finish
<1>9. CASE SenderAcknowledge
  BY <1>9 DEF ControlTypeOK, LanesTypeOK, SenderTypeOK, SenderHolds, SenderSteps,
       SenderAcknowledge, LowerBarrier, laneVars, Finish
<1>10. CASE SenderLowerRate
  BY <1>10 DEF ControlTypeOK, LanesTypeOK, SenderTypeOK, SenderHolds, SenderSteps,
       SenderLowerRate, RaiseBarrier, controlVars, laneVars, Finish
<1>11. CASE SenderReduceRate
  <2>1. Reduce(target_rate) \in Rates
    BY RateAssumption DEF ControlTypeOK, Reduce, Rates
  <2> QED
    BY <1>11, <2>1 DEF ControlTypeOK, LanesTypeOK, SenderTypeOK, SenderHolds, SenderSteps,
         SenderReduceRate, LowerBarrier, UpdateRate, laneVars, Finish
<1>12. CASE SenderDemandKeyframe
  BY <1>12 DEF ControlTypeOK, LanesTypeOK, SenderTypeOK, SenderHolds, SenderSteps,
       SenderDemandKeyframe, StoreRequested, laneVars, Finish
<1>13. CASE SenderFails
  BY <1>13 DEF ControlTypeOK, LanesTypeOK, SenderTypeOK, SenderHolds, SenderSteps, SenderFails, controlVars
<1>14. CASE SenderJoins
  BY <1>14 DEF ControlTypeOK, LanesTypeOK, SenderTypeOK, SenderHolds, SenderSteps, SenderJoins, controlVars
<1> QED
  BY <1>1, <1>2, <1>3, <1>4, <1>5, <1>6, <1>7, <1>8, <1>9, <1>10, <1>11, <1>12, <1>13, <1>14 DEF Sender

\* The control task keeps the types of what it writes.
LEMMA ControllerTyped ==
  ASSUME TypeInv, HostController
  PROVE  ControlTypeOK' /\ LanesTypeOK' /\ HostControlTypeOK'
<1> USE DEF TypeInv, TypeOK
<1>1. ASSUME NEW type, Receive(type)
      PROVE  LanesTypeOK'
  BY <1>1 DEF LanesTypeOK, Receive
<1>2. CASE ReceiveKeyframeRequest
  <2>1. LanesTypeOK'
    BY <1>1, <1>2 DEF ReceiveKeyframeRequest
  <2> QED
    BY <1>2, <2>1 DEF ControlTypeOK, HostControlTypeOK, ReceiveKeyframeRequest, RaiseBarrier, controlVars
<1>3. CASE ControlStoresRequest
  BY <1>3 DEF ControlTypeOK, LanesTypeOK, HostControlTypeOK, ControlStoresRequest, StoreRequested, laneVars
<1>4. CASE ReceiveKeyframeAck
  <2>1. LanesTypeOK'
    BY <1>1, <1>4 DEF ReceiveKeyframeAck
  <2> QED
    BY <1>4, <2>1 DEF ControlTypeOK, HostControlTypeOK, ReceiveKeyframeAck, LowerBarrier
<1>5. CASE ReceiveRateHint
  <2>1. LanesTypeOK'
    BY <1>1, <1>5 DEF ReceiveRateHint
  <2>2. Head(control) \in ControlMsg /\ Head(control).type = "RateHint"
    BY <1>5 DEF LanesTypeOK, ReceiveRateHint, Receive
  <2>3. Head(control).rate \in Rates
    BY <2>2 DEF ControlMsg
  <2> QED
    BY <1>5, <2>1, <2>3 DEF ControlTypeOK, HostControlTypeOK, ReceiveRateHint, UpdateRate
<1>6. CASE ReceiveClose
  <2>1. LanesTypeOK'
    BY <1>1, <1>6 DEF ReceiveClose
  <2> QED
    BY <1>6, <2>1 DEF ControlTypeOK, HostControlTypeOK, ReceiveClose, StoreShutdown
<1>7. CASE ControlFails
  BY <1>7 DEF ControlTypeOK, LanesTypeOK, HostControlTypeOK, ControlFails, StoreShutdown, laneVars
<1>8. CASE ControlCancelled
  BY <1>8 DEF ControlTypeOK, LanesTypeOK, HostControlTypeOK, ControlCancelled, controlVars, laneVars
<1> QED
  BY <1>2, <1>3, <1>4, <1>5, <1>6, <1>7, <1>8 DEF HostController

\* Posted control messages extend the control stream.
LEMMA PostTyped ==
  ASSUME TypeInv, NEW messages \in Seq(ControlMsg), Post(messages)
  PROVE  control' \in Seq(ControlMsg)
  BY ConcatProperties DEF TypeInv, TypeOK, LanesTypeOK, Post

\* A message taken from its lane is a media message, and so are those it leaves.
LEMMA ArrivalTyped ==
  ASSUME TypeInv, NEW m \in Arrivals, Arrives(m)
  PROVE  /\ m \in MediaMsg
         /\ packets' = packets /\ packet_rx_open' = packet_rx_open /\ connected' = connected
         /\ reliable' \in Seq(MediaMsg) /\ datagrams' \subseteq MediaMsg
<1>1. m \in MediaMsg
  BY Queues DEF TypeInv, TypeOK, LanesTypeOK, Arrivals
<1>2. reliable # <<>> => Tail(reliable) \in Seq(MediaMsg)
  BY Queues DEF TypeInv, TypeOK, LanesTypeOK
<1> QED
  BY <1>1, <1>2 DEF TypeInv, TypeOK, LanesTypeOK, Arrives

\* The members of a message, by its type.
LEMMA MessageTyped ==
  ASSUME NEW m \in MediaMsg
  PROVE  /\ m.type = "Cursor" => m.cursor \in Cursor
         /\ m.type # "Cursor" => m.sequence \in Nat /\ m.frame \in Frame
         /\ IsRegion(m) => m.regions \in SUBSET Tile
         /\ IsVideo(m) => m.keyframe \in BOOLEAN
  BY DEF MediaMsg, VideoMsg, RegionMsg, CursorMsg, IsRegion, IsVideo

\* The viewer keeps the types of what it writes.
LEMMA ViewerTyped ==
  ASSUME TypeInv, ViewerLoop
  PROVE  LanesTypeOK' /\ ViewerTypeOK'
<1> USE DEF TypeInv, TypeOK
<1>1. CASE ViewerReceives
  <2> PICK m \in Arrivals : Handle(m)
    BY <1>1 DEF ViewerReceives
  <2>1. Arrives(m)
    BY DEF Handle, ShowCursor, SkipStale, RejectRegion, ApplyRegion, DropDependent, Present, DecodeFails, Take
  <2>2. m \in MediaMsg
    BY <2>1, ArrivalTyped
  <2>3. /\ m.type = "Cursor" => m.cursor \in Cursor
        /\ m.type # "Cursor" => m.sequence \in Nat /\ m.frame \in Frame
        /\ IsRegion(m) => m.regions \in SUBSET Tile
        /\ IsVideo(m) => m.keyframe \in BOOLEAN
    BY <2>2, MessageTyped
  <2>4. control' \in Seq(ControlMsg)
    <3>1. /\ <<>> \in Seq(ControlMsg) /\ <<KeyframeRequest>> \in Seq(ControlMsg)
          /\ <<KeyframeAck>> \in Seq(ControlMsg)
      BY DEF ControlMsg, KeyframeRequest, KeyframeAck
    <3>2. ShowCursor(m) \/ SkipStale(m) \/ ApplyRegion(m) => control' = control
      BY DEF ShowCursor, SkipStale, ApplyRegion
    <3>3. RejectRegion(m) \/ DropDependent(m) \/ DecodeFails(m) =>
            \E messages \in Seq(ControlMsg) : Post(messages)
      BY <3>1 DEF RejectRegion, DropDependent, DecodeFails, AskForKeyframe
    <3>4. Present(m) => \E messages \in Seq(ControlMsg) : Post(messages)
      BY <3>1 DEF Present
    <3> QED
      BY <3>2, <3>3, <3>4, PostTyped DEF LanesTypeOK, Handle
  <2>5. LanesTypeOK'
    BY <2>1, <2>4, ArrivalTyped DEF LanesTypeOK
  <2> SUFFICES ViewerTypeOK'
    BY <2>5
  <2>6. CASE ShowCursor(m)
    BY <2>3, <2>6 DEF ViewerTypeOK, ShowCursor, Take, pictureVars
  <2>7. CASE SkipStale(m)
    BY <2>7 DEF ViewerTypeOK, SkipStale, Take, pictureVars
  <2>8. CASE RejectRegion(m)
    BY <2>8 DEF ViewerTypeOK, RejectRegion, AskForKeyframe, Take, pictureVars
  <2>9. CASE ApplyRegion(m)
    <3>1. m.sequence \in Nat /\ m.frame \in Frame
      BY <2>3, <2>9 DEF ApplyRegion, IsRegion
    <3>2. picture # NoPicture => picture' \in Frame
      BY <2>9, <3>1 DEF ViewerTypeOK, ApplyRegion, Frame
    <3> QED
      BY <2>9, <3>1, <3>2 DEF ViewerTypeOK, ApplyRegion
  <2>10. CASE DropDependent(m)
    <3>1. Gap(m) \in BOOLEAN
      BY DEF Gap
    <3> QED
      BY <2>10, <3>1 DEF ViewerTypeOK, DropDependent, AskForKeyframe, Take, pictureVars
  <2>11. CASE Present(m)
    BY <2>3, <2>11 DEF ViewerTypeOK, Present, Take, IsVideo
  <2>12. CASE DecodeFails(m)
    BY <2>12 DEF ViewerTypeOK, DecodeFails, AskForKeyframe, Take
  <2> QED
    BY <2>6, <2>7, <2>8, <2>9, <2>10, <2>11, <2>12 DEF Handle
<1>2. CASE RequestTimer
  BY <1>2 DEF LanesTypeOK, ViewerTypeOK, RequestTimer, laneVars, pictureVars
<1>3. CASE Watchdog
  <2>1. Reduce(requested_rate) \in Rates
    BY RateAssumption DEF ViewerTypeOK, Reduce, Rates
  <2>2. <<RateHint(requested_rate'), KeyframeRequest>> \in Seq(ControlMsg)
    BY <1>3, <2>1 DEF Watchdog, ControlMsg, RateHint, KeyframeRequest
  <2>3. control' \in Seq(ControlMsg)
    BY <1>3, <2>2, PostTyped DEF Watchdog
  <2> QED
    BY <1>3, <2>1, <2>3 DEF LanesTypeOK, ViewerTypeOK, Watchdog, pictureVars
<1>4. CASE SendNack
  <2>1. <<[type |-> "MediaNack"]>> \in Seq(ControlMsg)
    BY DEF ControlMsg
  <2>2. control' \in Seq(ControlMsg)
    BY <1>4, <2>1, PostTyped DEF SendNack
  <2> QED
    BY <1>4, <2>2 DEF LanesTypeOK, ViewerTypeOK, SendNack, viewerVars
<1>5. CASE UpgradeRate
  <2>1. Increase(requested_rate) \in Rates
    BY RateAssumption DEF ViewerTypeOK, Increase, Rates
  <2>2. <<RateHint(requested_rate')>> \in Seq(ControlMsg)
    BY <1>5, <2>1 DEF UpgradeRate, ControlMsg, RateHint
  <2>3. control' \in Seq(ControlMsg)
    BY <1>5, <2>2, PostTyped DEF UpgradeRate
  <2> QED
    BY <1>5, <2>1, <2>3 DEF LanesTypeOK, ViewerTypeOK, UpgradeRate, pictureVars
<1>6. CASE CloseWindow
  <2>1. <<[type |-> "Close"]>> \in Seq(ControlMsg)
    BY DEF ControlMsg
  <2>2. control' \in Seq(ControlMsg)
    BY <1>6, <2>1, PostTyped DEF CloseWindow
  <2> QED
    BY <1>6, <2>2 DEF LanesTypeOK, ViewerTypeOK, CloseWindow, pictureVars
<1>7. CASE ViewerLosesConnection
  BY <1>7 DEF LanesTypeOK, ViewerTypeOK, ViewerLosesConnection, laneVars, pictureVars
<1> QED
  BY <1>1, <1>2, <1>3, <1>4, <1>5, <1>6, <1>7 DEF ViewerLoop

-----------------------------------------------------------------------------
\* Every step keeps every type.
LEMMA NextTyped == TypeInv /\ [Next]_vars => TypeInv'
<1> SUFFICES ASSUME TypeInv, [Next]_vars PROVE TypeInv'
  OBVIOUS
<1> USE DEF TypeInv, TypeOK
<1>1. CASE Producer /\ UNCHANGED <<senderVars, host_control, viewerVars>>
  <2>1. SenderTypeOK' /\ SenderHolds' /\ HostControlTypeOK' /\ ViewerTypeOK'
    BY <1>1 DEF SenderTypeOK, SenderHolds, HostControlTypeOK, ViewerTypeOK, senderVars, viewerVars
  <2> QED
    BY <1>1, <2>1, ProducerTyped
<1>2. CASE Sender /\ UNCHANGED <<producerVars, host_control, viewerVars>>
  <2>1. ProducerTypeOK' /\ ProducerHolds' /\ HostControlTypeOK' /\ ViewerTypeOK'
    BY <1>2 DEF ProducerTypeOK, ProducerHolds, HostControlTypeOK, ViewerTypeOK, producerVars, viewerVars
  <2> QED
    BY <1>2, <2>1, SenderTyped
<1>3. CASE HostController /\ UNCHANGED <<producerVars, senderVars, viewerVars>>
  <2>1. ProducerTypeOK' /\ ProducerHolds' /\ SenderTypeOK' /\ SenderHolds' /\ ViewerTypeOK'
    BY <1>3 DEF ProducerTypeOK, ProducerHolds, SenderTypeOK, SenderHolds, ViewerTypeOK, producerVars, senderVars, viewerVars
  <2> QED
    BY <1>3, <2>1, ControllerTyped
<1>4. CASE ViewerLoop /\ UNCHANGED <<controlVars, producerVars, senderVars, host_control>>
  <2>1. ControlTypeOK' /\ ProducerTypeOK' /\ ProducerHolds' /\ SenderTypeOK' /\ SenderHolds' /\ HostControlTypeOK'
    BY <1>4 DEF ControlTypeOK, ProducerTypeOK, ProducerHolds, SenderTypeOK, SenderHolds, HostControlTypeOK,
         controlVars, producerVars, senderVars
  <2> QED
    BY <1>4, <2>1, ViewerTyped
<1>5. CASE LoseDatagram
  <2>1. ControlTypeOK' /\ ProducerTypeOK' /\ ProducerHolds' /\ SenderTypeOK' /\ SenderHolds' /\ HostControlTypeOK'
    BY <1>5 DEF ControlTypeOK, ProducerTypeOK, ProducerHolds, SenderTypeOK, SenderHolds, HostControlTypeOK,
         LoseDatagram, controlVars, producerVars, senderVars
  <2>2. LanesTypeOK' /\ ViewerTypeOK'
    BY <1>5 DEF LanesTypeOK, ViewerTypeOK, LoseDatagram, pictureVars
  <2> QED
    BY <2>1, <2>2
<1>6. CASE ConnectionDrops \/ Terminated \/ UNCHANGED vars
  <2>1. /\ UNCHANGED <<controlVars, packets, packet_rx_open, reliable, datagrams, control, producerVars>>
        /\ UNCHANGED <<senderVars, host_control, viewerVars>>
        /\ connected' \in BOOLEAN
    BY <1>6 DEF ConnectionDrops, Terminated, vars, laneVars, LanesTypeOK
  <2>2. ControlTypeOK' /\ ProducerTypeOK' /\ ProducerHolds'
    BY <2>1 DEF ControlTypeOK, ProducerTypeOK, ProducerHolds, controlVars, producerVars
  <2>3. SenderTypeOK' /\ SenderHolds' /\ HostControlTypeOK' /\ ViewerTypeOK'
    BY <2>1 DEF SenderTypeOK, SenderHolds, HostControlTypeOK, ViewerTypeOK, senderVars, viewerVars
  <2>4. LanesTypeOK'
    BY <2>1 DEF LanesTypeOK
  <2> QED
    BY <2>2, <2>3, <2>4
<1> QED
  BY <1>1, <1>2, <1>3, <1>4, <1>5, <1>6 DEF Next

\* Every variable holds a value of its type, and what the producer and the sender
\* carry from one step to the next has the type the later step needs.
THEOREM TypeInvariant == Spec => []TypeInv
  BY InitTyped, NextTyped, PTL DEF Spec

\* Type correctness of the session: every variable holds a value of its type.
THEOREM TypeCorrect == Spec => []TypeOK
<1>1. TypeInv => TypeOK
  BY DEF TypeInv
<1> QED
  BY <1>1, TypeInvariant, PTL

-----------------------------------------------------------------------------
\* MCSkippedFrame shows that this assumption cannot be dropped.
NoSkippedBase == FullCanvas \/ "EncoderSkip" \notin Faults

-----------------------------------------------------------------------------
\* What a number stands for does not change when another one is taken.
LEMMA Recorded ==
  ASSUME NEW h \in Seq(Numbered), NEW e \in Numbered
  PROVE  /\ Append(h, e) \in Seq(Numbered) /\ Len(Append(h, e)) = Len(h) + 1
         /\ \A s \in Nat : s < Len(h) => /\ FrameIn(Append(h, e), s) = FrameIn(h, s)
                                         /\ ReferenceIn(Append(h, e), s) = ReferenceIn(h, s)
         /\ FrameIn(Append(h, e), Len(h)) = e.frame
         /\ ReferenceIn(Append(h, e), Len(h)) = e.reference
<1>1. Append(h, e) \in Seq(Numbered) /\ Len(Append(h, e)) = Len(h) + 1
  OBVIOUS
<1>2. Append(h, e)[Len(h) + 1] = e
  OBVIOUS
<1>3. \A s \in Nat : s < Len(h) => Append(h, e)[s + 1] = h[s + 1]
  OBVIOUS
<1> QED
  BY <1>1, <1>2, <1>3 DEF FrameIn, ReferenceIn

\* A message that fits a history fits every longer one.
LEMMA FittingGrows ==
  ASSUME NEW h \in Seq(Numbered), NEW e \in Numbered
  PROVE  Fitting(h) \subseteq Fitting(Append(h, e))
<1> DEFINE g == Append(h, e)
<1> SUFFICES ASSUME NEW m \in Fitting(h) PROVE m \in Fitting(g)
  OBVIOUS
<1>1. m \in MediaMsg
  BY DEF Fitting
<1>2. CASE IsVideo(m)
  <2>1. VideoFits(h, m) /\ ~IsRegion(m)
    BY <1>2 DEF Fitting, IsVideo, IsRegion
  <2>2. m.sequence \in Nat /\ m.sequence < Len(h)
    BY <1>1, <1>2, <2>1, MessageTyped DEF VideoFits, IsVideo
  <2>3. ~m.keyframe => m.sequence - 1 \in Nat /\ m.sequence - 1 < Len(h)
    BY <2>1, <2>2 DEF VideoFits
  <2>4. VideoFits(g, m)
    BY <2>1, <2>2, <2>3, Recorded DEF VideoFits
  <2> QED
    BY <1>1, <2>1, <2>4 DEF Fitting
<1>3. CASE IsRegion(m)
  <2>1. RegionFits(h, m) /\ ~IsVideo(m)
    BY <1>3 DEF Fitting, IsVideo, IsRegion
  <2>2. m.sequence \in Nat /\ m.sequence < Len(h) /\ m.sequence - 1 \in Nat /\ m.sequence - 1 < Len(h)
    BY <1>1, <1>3, <2>1, MessageTyped DEF RegionFits, IsRegion
  <2>3. RegionFits(g, m)
    BY <2>1, <2>2, Recorded DEF RegionFits
  <2> QED
    BY <1>1, <2>1, <2>3 DEF Fitting
<1>4. CASE ~IsVideo(m) /\ ~IsRegion(m)
  BY <1>1, <1>4 DEF Fitting
<1> QED
  BY <1>2, <1>3, <1>4

\* The lanes keep their messages while the history grows.
LEMMA SeqGrows ==
  ASSUME NEW S, NEW T, S \subseteq T
  PROVE  Seq(S) \subseteq Seq(T)
<1> SUFFICES ASSUME NEW q \in Seq(S) PROVE q \in Seq(T)
  OBVIOUS
<1>1. \A i \in 1..Len(q) : q[i] \in T
  OBVIOUS
<1> QED
  BY <1>1, SeqDef

\* A message that fits a lane is appended to it.
LEMMA Appended ==
  ASSUME NEW S, NEW q \in Seq(S), NEW m \in S
  PROVE  Append(q, m) \in Seq(S)
  BY AppendProperties

\* A pointer state carries no number.
LEMMA CursorFits ==
  ASSUME NEW h, NEW c \in Cursor
  PROVE  [type |-> "Cursor", cursor |-> c] \in Fitting(h)
  BY Messages DEF Fitting, IsVideo, IsRegion

-----------------------------------------------------------------------------
\* Initially nothing is numbered, sent or shown.
LEMMA InitPicture == Init => PictureInv
<1> SUFFICES ASSUME Init PROVE PictureInv
  OBVIOUS
<1> USE DEF Init
<1>1. MessagesFit
  BY DEF LanesInit, ProducerInit, SenderInit, MessagesFit
<1>2. EncoderFits /\ BaseFits
  BY DEF ProducerInit, EncoderFits, BaseFits, LastReference, media_sequence
<1>3. ViewerFits
  BY DEF ProducerInit, ViewerInit, ViewerFits, media_sequence, NoSequence
<1> QED
  BY <1>1, <1>2, <1>3 DEF PictureInv

\* Steps that number nothing and leave the producer alone keep its parts.
LEMMA ProducerKept ==
  ASSUME PictureInv, UNCHANGED producerVars
  PROVE  EncoderFits' /\ BaseFits' /\ Fitting(history)' = Fitting(history)
  BY DEF PictureInv, EncoderFits, BaseFits, LastReference, FrameAt, ReferenceAt, media_sequence, Fitting,
         producerVars, MediaMsg

-----------------------------------------------------------------------------
\* Only a region update or an encoded packet takes a number.
LEMMA ProducerRecords ==
  ASSUME Producer, ~ProducerSendRegion, ~ProducerEncode
  PROVE  history' = history
  BY DEF Producer, ProducerRuns, ProducerBeginRound, ProducerStops, ProducerSendCursor, ProducerLoadSettings,
     ProducerTakeRequest, ProducerSkipUnchanged, ProducerEncodeSkipped, ProducerRequestKeyframe,
     ProducerStoreRequest, ProducerMarkBarrier, ProducerEnqueueBarrier, ProducerPace, ProducerRepeatFrame,
     ProducerStopsCapturing, ProducerCapture, ProducerFails, RefreshTimer, outputVars

\* So the history stays or grows by one entry.
LEMMA HistorySteps ==
  ASSUME TypeInv, Producer
  PROVE  history' = history \/ \E e \in Numbered : history' = Append(history, e)
<1>1. CASE ProducerSendRegion
  <2>1. [frame |-> frame, reference |-> LastReference] \in Numbered
    BY Packets DEF TypeInv, TypeOK, ProducerTypeOK, Numbered
  <2> QED
    BY <1>1, <2>1 DEF ProducerSendRegion
<1>2. CASE ProducerEncode
  <2>1. [frame |-> frame, reference |-> media_sequence] \in Numbered
    BY Packets DEF TypeInv, TypeOK, ProducerTypeOK, Numbered
  <2> QED
    BY <1>2, <2>1 DEF ProducerEncode
<1>3. CASE ~ProducerSendRegion /\ ~ProducerEncode
  BY <1>3, ProducerRecords
<1> QED
  BY <1>1, <1>2, <1>3

\* What has been recorded stays, and what fitted it still does.
LEMMA RecordsKept ==
  ASSUME TypeInv, Producer
  PROVE  /\ history' \in Seq(Numbered) /\ Len(history) <= Len(history')
         /\ Fitting(history) \subseteq Fitting(history')
         /\ \A s \in Nat : s < Len(history) => /\ FrameAt(s)' = FrameAt(s)
                                             /\ ReferenceAt(s)' = ReferenceAt(s)
<1>1. history \in Seq(Numbered)
  BY DEF TypeInv, TypeOK, ProducerTypeOK
<1>2. CASE history' = history
  BY <1>1, <1>2 DEF FrameAt, ReferenceAt
<1>3. CASE \E e \in Numbered : history' = Append(history, e)
  <2> PICK e \in Numbered : history' = Append(history, e)
    BY <1>3
  <2>1. history' \in Seq(Numbered) /\ Len(history') = Len(history) + 1
    BY <1>1, Recorded
  <2>2. Fitting(history) \subseteq Fitting(history')
    BY <1>1, FittingGrows
  <2>3. \A s \in Nat : s < Len(history) => /\ FrameIn(history', s) = FrameIn(history, s)
                                          /\ ReferenceIn(history', s) = ReferenceIn(history, s)
    BY <1>1, Recorded
  <2> QED
    BY <1>1, <2>1, <2>2, <2>3 DEF FrameAt, ReferenceAt, FrameIn, ReferenceIn
<1> QED
  BY <1>2, <1>3, HistorySteps

\* A region update fits the history it is recorded in.
LEMMA RegionSent ==
  ASSUME TypeInv, PictureInv, ProducerSendRegion
  PROVE  [type |-> "DesktopUpdate", sequence |-> media_sequence, regions |-> dirty_regions, frame |-> frame]
           \in Fitting(history')
<1> DEFINE m == [type |-> "DesktopUpdate", sequence |-> media_sequence, regions |-> dirty_regions, frame |-> frame]
           e == [frame |-> frame, reference |-> LastReference]
<1> USE DEF TypeInv, TypeOK, ProducerTypeOK
<1>1. m \in MediaMsg /\ media_sequence \in Nat
  BY Messages, Packets
<1>2. e \in Numbered /\ history \in Seq(Numbered) /\ history' = Append(history, e)
  BY Packets DEF ProducerSendRegion, Numbered
<1>3. media_sequence > 0 /\ ~FullCanvas /\ producer = "encode"
  BY DEF PictureInv, EncoderFits, ProducerSendRegion, RegionCandidate
<1>4. /\ media_sequence < Len(history')
      /\ FrameIn(history', media_sequence) = frame
      /\ ReferenceIn(history', media_sequence) = LastReference
      /\ \A s \in Nat : s < media_sequence => /\ FrameIn(history', s) = FrameAt(s)
                                             /\ ReferenceIn(history', s) = ReferenceAt(s)
  BY <1>1, <1>2, Recorded DEF media_sequence, FrameAt, ReferenceAt, FrameIn, ReferenceIn
<1>5. /\ FrameIn(history', media_sequence - 1) = FrameAt(media_sequence - 1)
      /\ ReferenceIn(history', media_sequence - 1) = ReferenceAt(media_sequence - 1)
  BY <1>1, <1>3, <1>4
<1>6. LastReference = ReferenceAt(media_sequence - 1)
  BY <1>2, <1>3 DEF LastReference, media_sequence
<1>7. \A t \in Tile \ dirty_regions : frame[t] = FrameAt(media_sequence - 1)[t]
  BY <1>3 DEF PictureInv, BaseFits
<1>8. RegionFits(history', m)
  BY <1>3, <1>4, <1>5, <1>6, <1>7 DEF RegionFits
<1> QED
  BY <1>1, <1>8 DEF Fitting, IsVideo

\* So does an encoded packet.
LEMMA PacketSent ==
  ASSUME TypeInv, PictureInv, NEW key \in KeyframeChoices,
         history' = Append(history, [frame |-> frame, reference |-> media_sequence])
  PROVE  VideoPacket(key) \in Fitting(history')
<1> DEFINE m == VideoPacket(key)
           e == [frame |-> frame, reference |-> media_sequence]
<1> USE DEF TypeInv, TypeOK, ProducerTypeOK
<1>1. m \in MediaMsg /\ media_sequence \in Nat /\ key \in BOOLEAN
  BY Messages, Packets DEF KeyframeChoices
<1>2. e \in Numbered /\ history \in Seq(Numbered) /\ history' = Append(history, e)
  BY Packets DEF Numbered
<1>3. /\ media_sequence < Len(history')
      /\ FrameIn(history', media_sequence) = frame
      /\ ReferenceIn(history', media_sequence) = media_sequence
      /\ \A s \in Nat : s < media_sequence => ReferenceIn(history', s) = ReferenceAt(s)
  BY <1>1, <1>2, Recorded DEF media_sequence, ReferenceAt, ReferenceIn
<1>4. ~key => media_sequence > 0 /\ encoder_reference = ReferenceIn(history', media_sequence - 1)
  <2> SUFFICES ASSUME ~key
               PROVE  media_sequence > 0 /\ encoder_reference = ReferenceIn(history', media_sequence - 1)
    OBVIOUS
  <2>1. encoder_reference # NoReference
    BY <1>1 DEF KeyframeChoices
  <2>2. encoder_reference = LastReference /\ history # <<>>
    BY <2>1 DEF PictureInv, EncoderFits, LastReference
  <2>3. media_sequence > 0
    BY <1>2, <2>2 DEF media_sequence
  <2> QED
    BY <1>1, <1>3, <2>2, <2>3 DEF LastReference
<1>5. m.type = "Video" /\ m.sequence = media_sequence /\ m.keyframe = key /\ m.reference = encoder_reference /\ m.frame = frame
  BY DEF VideoPacket
<1>6. VideoFits(history', m)
  BY <1>3, <1>4, <1>5 DEF VideoFits
<1> QED
  BY <1>1, <1>5, <1>6 DEF Fitting, IsRegion

-----------------------------------------------------------------------------
\* What the producer leaves in its hands and in the channel fits the history.
LEMMA ProducerMessages ==
  ASSUME TypeInv, PictureInv, Producer
  PROVE  /\ producer' \in {"mark", "enqueue"} => outgoing' \in Fitting(history')
         /\ packets' \in Seq(Fitting(history'))
<1>1. packets \in Seq(Fitting(history'))
  BY RecordsKept, SeqGrows DEF PictureInv, MessagesFit
<1>2. producer \in {"mark", "enqueue"} => outgoing \in Fitting(history')
  BY RecordsKept DEF PictureInv, MessagesFit
<1>3. CASE ProducerSendCursor
  <2>1. [type |-> "Cursor", cursor |-> frame_cursor] \in Fitting(history')
    BY <1>3, CursorFits DEF ProducerSendCursor, TypeInv, ProducerHolds
  <2>2. producer' \notin {"mark", "enqueue"}
    BY <1>3 DEF ProducerSendCursor, Goto
  <2>3. CASE packets' = packets
    BY <1>1, <2>2, <2>3
  <2>4. CASE packets' = Append(packets, [type |-> "Cursor", cursor |-> frame_cursor])
    BY <1>1, <2>1, <2>2, <2>4, Appended
  <2> QED
    BY <1>3, <2>3, <2>4 DEF ProducerSendCursor
<1>4. CASE ProducerSendRegion
  <2> DEFINE m == [type |-> "DesktopUpdate", sequence |-> media_sequence, regions |-> dirty_regions, frame |-> frame]
  <2>1. producer' \notin {"mark", "enqueue"}
    BY <1>4 DEF ProducerSendRegion, TrySend, Goto
  <2>2. packets' \in {packets, Append(packets, m)}
    BY <1>4 DEF ProducerSendRegion, TrySend
  <2>3. Append(packets, m) \in Seq(Fitting(history'))
    BY <1>1, <1>4, RegionSent, Appended
  <2> QED
    BY <1>1, <2>1, <2>2, <2>3
<1>5. CASE ProducerEncode
  <2> PICK key \in KeyframeChoices :
         LET packet == VideoPacket(key) IN
         /\ IF packet.barrier /\ Hybrid
            THEN Goto("mark") /\ outgoing' = packet /\ UNCHANGED packets
            ELSE TrySend(packet) /\ UNCHANGED outgoing
         /\ history' = Append(history, [frame |-> frame, reference |-> media_sequence])
    BY <1>5 DEF ProducerEncode
  <2>1. VideoPacket(key) \in Fitting(history')
    BY PacketSent
  <2>2. Append(packets, VideoPacket(key)) \in Seq(Fitting(history'))
    BY <1>1, <2>1, Appended
  <2>3. packets' \in {packets, Append(packets, VideoPacket(key))}
    BY DEF TrySend
  <2>4. producer' \in {"mark", "enqueue"} => outgoing' = VideoPacket(key)
    BY DEF TrySend, Goto
  <2> QED
    BY <1>1, <2>1, <2>2, <2>3, <2>4
<1>6. CASE ProducerEnqueueBarrier
  BY <1>1, <1>2, <1>6 DEF ProducerEnqueueBarrier, Goto
<1>7. CASE ProducerMarkBarrier
  BY <1>1, <1>2, <1>7 DEF ProducerMarkBarrier, laneVars, outputVars
<1>8. CASE RefreshTimer
  BY <1>1, <1>2, <1>8 DEF RefreshTimer, laneVars
<1>9. CASE ProducerRequestKeyframe
  BY <1>1, <1>9 DEF ProducerRequestKeyframe, Goto, laneVars
<1>10. CASE \/ ProducerBeginRound \/ ProducerStops \/ ProducerLoadSettings \/ ProducerTakeRequest
            \/ ProducerSkipUnchanged \/ ProducerEncodeSkipped \/ ProducerStoreRequest \/ ProducerPace
            \/ ProducerRepeatFrame \/ ProducerStopsCapturing \/ ProducerCapture \/ ProducerFails
  <2>1. producer' \notin {"mark", "enqueue"} /\ packets' = packets
    BY <1>10 DEF ProducerBeginRound, ProducerStops, ProducerLoadSettings, ProducerTakeRequest,
         ProducerSkipUnchanged, ProducerEncodeSkipped, ProducerStoreRequest, ProducerPace,
         ProducerRepeatFrame, ProducerStopsCapturing, ProducerCapture, ProducerFails, Goto, laneVars
  <2> QED
    BY <1>1, <2>1
<1> QED
  BY <1>3, <1>4, <1>5, <1>6, <1>7, <1>8, <1>9, <1>10 DEF Producer, ProducerRuns

\* The encoder predicts from the last video packet, or starts over.
LEMMA ProducerEncodes ==
  ASSUME TypeInv, PictureInv, Producer
  PROVE  EncoderFits'
<1> USE DEF TypeInv, TypeOK, ProducerTypeOK, PictureInv, EncoderFits
<1>1. CASE ProducerSendRegion
  <2>1. [frame |-> frame, reference |-> LastReference] \in Numbered /\ history \in Seq(Numbered)
    BY Packets DEF Numbered
  <2>2. /\ Len(history') = Len(history) + 1 /\ Len(history) \in Nat /\ history' # <<>>
        /\ history'[Len(history) + 1].reference = LastReference
    BY <1>1, <2>1, Recorded DEF ProducerSendRegion, ReferenceIn
  <2>3. LastReference' = LastReference /\ media_sequence' > 0
    BY <2>2 DEF LastReference, ReferenceAt, media_sequence
  <2>4. encoder_reference' = encoder_reference
    BY <1>1 DEF ProducerSendRegion, encoderVars
  <2> QED
    BY <2>3, <2>4
<1>2. CASE ProducerEncode
  <2>1. [frame |-> frame, reference |-> media_sequence] \in Numbered /\ history \in Seq(Numbered)
    BY Packets DEF Numbered
  <2>2. /\ Len(history') = Len(history) + 1 /\ Len(history) \in Nat /\ history' # <<>>
        /\ history'[Len(history) + 1].reference = media_sequence
    BY <1>2, <2>1, Recorded DEF ProducerEncode, ReferenceIn
  <2>3. LastReference' = media_sequence /\ media_sequence' > 0
    BY <2>2 DEF LastReference, ReferenceAt, media_sequence
  <2>4. encoder_reference' = media_sequence
    BY <1>2 DEF ProducerEncode
  <2> QED
    BY <2>3, <2>4
<1>3. CASE ~ProducerSendRegion /\ ~ProducerEncode
  <2>1. /\ history' = history
        /\ encoder_reference' \in {NoReference, encoder_reference}
        /\ (~refresh_due' => ~refresh_due)
    BY <1>3 DEF Producer, ProducerRuns, ProducerBeginRound, ProducerStops, ProducerSendCursor, ProducerLoadSettings,
       ProducerTakeRequest, ProducerSkipUnchanged, ProducerEncodeSkipped, ProducerRequestKeyframe,
       ProducerStoreRequest, ProducerMarkBarrier, ProducerEnqueueBarrier, ProducerPace, ProducerRepeatFrame,
       ProducerStopsCapturing, ProducerCapture, ProducerFails, RefreshTimer, outputVars, encoderVars
  <2>2. LastReference' = LastReference /\ media_sequence' = media_sequence
    BY <2>1 DEF LastReference, ReferenceAt, media_sequence
  <2> QED
    BY <2>1, <2>2
<1> QED
  BY <1>1, <1>2, <1>3

\* The base of the next comparison stays the frame numbered last.
LEMMA ProducerCompares ==
  ASSUME TypeInv, PictureInv, NoSkippedBase, Producer
  PROVE  BaseFits'
<1> SUFFICES ASSUME ~FullCanvas
             PROVE  BaseFits'
  BY DEF BaseFits
<1> DEFINE early == {"cursor", "settings", "take", "encode"}
           late  == {"top", "request", "store", "mark", "enqueue", "pace", "capture"}
<1> USE DEF TypeInv, TypeOK, ProducerTypeOK
<1>1. CASE ProducerSendRegion \/ ProducerEncode
  <2> PICK e \in Numbered : history' = Append(history, e) /\ e.frame = frame
    <3>1. [frame |-> frame, reference |-> LastReference] \in Numbered
      BY Packets DEF Numbered
    <3>2. [frame |-> frame, reference |-> media_sequence] \in Numbered
      BY Packets DEF Numbered
    <3> QED
      BY <1>1, <3>1, <3>2 DEF ProducerSendRegion, ProducerEncode
  <2>1. Len(history') = Len(history) + 1 /\ history'[Len(history) + 1] = e /\ Len(history) \in Nat
    OBVIOUS
  <2>2. FrameAt(media_sequence - 1)' = frame
    BY <2>1 DEF FrameAt, media_sequence
  <2>3. producer' \in {"done", "pace", "request", "mark"} /\ previous' = previous /\ producer = "encode"
    BY <1>1 DEF ProducerSendRegion, ProducerEncode, TrySend, Goto, detectorVars
  <2>4. previous = frame
    BY <2>3 DEF PictureInv, BaseFits
  <2> QED
    BY <2>2, <2>3, <2>4 DEF BaseFits
<1>2. CASE ~ProducerSendRegion /\ ~ProducerEncode
  <2>1. history' = history
    BY <1>2, ProducerRecords
  <2>2. /\ media_sequence' = media_sequence /\ media_sequence \in Nat
        /\ FrameAt(media_sequence - 1)' = FrameAt(media_sequence - 1)
    BY <2>1 DEF media_sequence, FrameAt
  <2>3. CASE ProducerBeginRound
    <3>1. producer = "top" /\ producer' \in early /\ frame' = frame /\ previous' = frame
      BY <2>3 DEF ProducerBeginRound, Goto, sourceVars
    <3>2. dirty_regions' = Changed(previous, frame)
      BY <2>3 DEF ProducerBeginRound
    <3>3. media_sequence > 0 => \A t \in Tile \ dirty_regions' : FrameAt(media_sequence - 1)[t] = frame[t]
      BY <3>1, <3>2 DEF PictureInv, BaseFits, Changed
    <3> QED
      BY <2>2, <3>1, <3>3 DEF BaseFits
  <2>4. CASE ProducerSkipUnchanged
    <3>1. /\ producer = "encode" /\ producer' = "pace" /\ UNCHANGED detectorVars
          /\ dirty_regions = {} /\ ~refresh_due
      BY <2>4 DEF ProducerSkipUnchanged, NothingToSend, Goto
    <3>2. media_sequence > 0 /\ previous = frame /\ \A t \in Tile : FrameAt(media_sequence - 1)[t] = frame[t]
      BY <3>1 DEF PictureInv, EncoderFits, BaseFits
    <3>3. FrameAt(media_sequence - 1) \in Frame
      <4>1. history[media_sequence - 1 + 1] \in Numbered
        BY <2>2, <3>2 DEF media_sequence
      <4> QED
        BY <4>1 DEF FrameAt, Numbered
    <3>4. frame = FrameAt(media_sequence - 1)
      BY <3>2, <3>3 DEF Frame
    <3> QED
      BY <2>2, <3>1, <3>2, <3>4 DEF BaseFits, detectorVars
  <2>5. CASE ProducerRepeatFrame \/ ProducerCapture
    <3>1. producer = "capture" /\ producer' = "top" /\ UNCHANGED detectorVars
      BY <2>5 DEF ProducerRepeatFrame, ProducerCapture, Goto
    <3> QED
      BY <2>2, <3>1 DEF PictureInv, BaseFits, detectorVars
  <2>6. CASE ProducerSendCursor \/ ProducerLoadSettings \/ ProducerTakeRequest
    <3>1. /\ producer \in early /\ producer' \in early \cup {"done"}
          /\ UNCHANGED detectorVars /\ UNCHANGED sourceVars
      BY <2>6 DEF ProducerSendCursor, ProducerLoadSettings, ProducerTakeRequest, Goto
    <3> QED
      BY <2>2, <3>1 DEF PictureInv, BaseFits, detectorVars, sourceVars
  <2>7. CASE \/ ProducerRequestKeyframe \/ ProducerStoreRequest \/ ProducerMarkBarrier
             \/ ProducerEnqueueBarrier \/ ProducerPace
    <3>1. producer \in late /\ producer' \in (late \ {"top"}) \cup {"done"} /\ UNCHANGED detectorVars
      BY <2>7 DEF ProducerRequestKeyframe, ProducerStoreRequest, ProducerMarkBarrier, ProducerEnqueueBarrier,
           ProducerPace, Goto
    <3> QED
      BY <2>2, <3>1 DEF PictureInv, BaseFits, detectorVars
  <2>8. CASE ProducerStops \/ ProducerStopsCapturing \/ ProducerFails
    BY <2>8 DEF ProducerStops, ProducerStopsCapturing, ProducerFails, Goto, BaseFits
  <2>9. CASE RefreshTimer
    <3>1. producer' = producer /\ UNCHANGED detectorVars /\ UNCHANGED sourceVars
      BY <2>9 DEF RefreshTimer
    <3> QED
      BY <2>2, <3>1 DEF PictureInv, BaseFits, detectorVars, sourceVars
  <2>10. ~ProducerEncodeSkipped
    BY DEF NoSkippedBase, ProducerEncodeSkipped
  <2> QED
    BY <1>2, <2>3, <2>4, <2>5, <2>6, <2>7, <2>8, <2>9, <2>10 DEF Producer, ProducerRuns
<1> QED
  BY <1>1, <1>2

\* The producer writes to no lane but the channel.
LEMMA ProducerLanes ==
  ASSUME Producer
  PROVE  reliable' = reliable /\ datagrams' = datagrams
  BY DEF Producer, ProducerRuns, ProducerBeginRound, ProducerStops, ProducerSendCursor, ProducerLoadSettings,
     ProducerTakeRequest, ProducerSendRegion, ProducerSkipUnchanged, ProducerEncode, ProducerEncodeSkipped,
     ProducerRequestKeyframe, ProducerStoreRequest, ProducerMarkBarrier, ProducerEnqueueBarrier, ProducerPace,
     ProducerRepeatFrame, ProducerStopsCapturing, ProducerCapture, ProducerFails, RefreshTimer,
     laneVars, otherLanes

\* A step of the producer thread.
LEMMA ProducerPicture ==
  ASSUME TypeInv, PictureInv, NoSkippedBase, Producer, UNCHANGED <<senderVars, host_control, viewerVars>>
  PROVE  PictureInv'
<1>1. MessagesFit'
  <2>1. reliable' = reliable /\ datagrams' = datagrams /\ sender' = sender /\ current' = current
    BY ProducerLanes DEF senderVars
  <2>2. reliable \in Seq(Fitting(history')) /\ datagrams \subseteq Fitting(history')
    BY RecordsKept, SeqGrows DEF PictureInv, MessagesFit
  <2>3. sender = "send" => current \in Fitting(history')
    BY RecordsKept DEF PictureInv, MessagesFit
  <2> QED
    BY <2>1, <2>2, <2>3, ProducerMessages DEF MessagesFit
<1>2. ViewerFits'
  <2>1. /\ last_sequence' = last_sequence /\ picture' = picture
        /\ decoder_reference' = decoder_reference /\ waiting_for_keyframe' = waiting_for_keyframe
    BY DEF viewerVars
  <2>2. last_sequence < media_sequence'
    BY RecordsKept DEF TypeInv, TypeOK, ViewerTypeOK, NoSequence, ProducerTypeOK, PictureInv, ViewerFits, media_sequence
  <2>3. last_sequence # NoSequence => /\ FrameAt(last_sequence)' = FrameAt(last_sequence)
                                      /\ ReferenceAt(last_sequence)' = ReferenceAt(last_sequence)
    BY <2>1, RecordsKept DEF TypeInv, TypeOK, ViewerTypeOK, PictureInv, ViewerFits, media_sequence
  <2> QED
    BY <2>1, <2>2, <2>3 DEF PictureInv, ViewerFits
<1> QED
  BY <1>1, <1>2, ProducerEncodes, ProducerCompares DEF PictureInv

-----------------------------------------------------------------------------
\* A step of the sender task.
LEMMA SenderPicture ==
  ASSUME TypeInv, PictureInv, Sender, UNCHANGED <<producerVars, host_control, viewerVars>>
  PROVE  PictureInv'
<1> DEFINE F == Fitting(history)
<1>1. EncoderFits' /\ BaseFits' /\ history' = history /\ producer' = producer /\ outgoing' = outgoing
  BY ProducerKept DEF producerVars
<1>2. ViewerFits'
  BY <1>1 DEF PictureInv, ViewerFits, viewerVars, FrameAt, ReferenceAt, media_sequence
<1>3. /\ packets \in Seq(F) /\ reliable \in Seq(F) /\ datagrams \subseteq F
      /\ sender = "send" => current \in F
  BY DEF PictureInv, MessagesFit
<1>4. packets' \in Seq(F) /\ reliable' \in Seq(F) /\ datagrams' \subseteq F /\ (sender' = "send" => current' \in F)
  <2> HIDE DEF F
  <2>1. CASE SenderReceive
    <3>1. packets # <<>> => Head(packets) \in F /\ Tail(packets) \in Seq(F)
      BY <1>3
    <3> QED
      BY <1>3, <2>1, <3>1 DEF SenderReceive, otherLanes
  <2>2. CASE SenderSendReliable
    <3>1. Append(reliable, current) \in Seq(F)
      BY <1>3, <2>2, Appended DEF SenderSendReliable
    <3> QED
      BY <1>3, <2>2, <3>1 DEF SenderSendReliable, Finish
  <2>3. CASE SenderSendDatagrams
    BY <1>3, <2>3 DEF SenderSendDatagrams, Finish
  <2>4. CASE SenderFlush
    <3>1. packets # <<>> => Tail(packets) \in Seq(F)
      BY <1>3
    <3> QED
      BY <1>3, <2>4, <3>1 DEF SenderFlush, otherLanes, Finish, senderVars
  <2>5. CASE \/ SenderLoop \/ SenderArmBarrier \/ SenderDropBehindBarrier \/ SenderDropOversized
             \/ SenderAcknowledge \/ SenderLowerRate \/ SenderReduceRate \/ SenderDemandKeyframe
             \/ SenderFails \/ SenderJoins
    <3>1. UNCHANGED <<packets, reliable, datagrams>> /\ sender' # "send"
      BY <2>5 DEF SenderLoop, SenderArmBarrier, SenderDropBehindBarrier, SenderDropOversized, SenderAcknowledge,
           SenderLowerRate, SenderReduceRate, SenderDemandKeyframe, SenderFails, SenderJoins, laneVars, Finish
    <3> QED
      BY <1>3, <3>1
  <2> QED
    BY <2>1, <2>2, <2>3, <2>4, <2>5 DEF Sender
<1>5. MessagesFit'
  BY <1>1, <1>4 DEF PictureInv, MessagesFit
<1> QED
  BY <1>1, <1>2, <1>5 DEF PictureInv

\* Steps that leave the messages, the producer and the picture alone.
LEMMA PictureKept ==
  ASSUME PictureInv, UNCHANGED <<producerVars, packets, reliable, datagrams, senderVars, pictureVars, waiting_for_keyframe>>
  PROVE  PictureInv'
<1>1. EncoderFits' /\ BaseFits' /\ history' = history
  BY ProducerKept DEF producerVars
<1>2. MessagesFit'
  BY <1>1 DEF PictureInv, MessagesFit, producerVars, senderVars
<1>3. ViewerFits'
  BY <1>1 DEF PictureInv, ViewerFits, pictureVars, FrameAt, ReferenceAt, media_sequence
<1> QED
  BY <1>1, <1>2, <1>3 DEF PictureInv

\* A step of the control task.
LEMMA ControlPicture ==
  ASSUME PictureInv, HostController, UNCHANGED <<producerVars, senderVars, viewerVars>>
  PROVE  PictureInv'
<1>1. UNCHANGED <<packets, reliable, datagrams>>
  BY DEF HostController, ReceiveKeyframeRequest, ControlStoresRequest, ReceiveKeyframeAck, ReceiveRateHint,
       ReceiveClose, ControlFails, ControlCancelled, Receive, laneVars
<1> QED
  BY <1>1, PictureKept DEF viewerVars, pictureVars

-----------------------------------------------------------------------------
\* A message that arrives fits the history, and so do those still on their way.
LEMMA ArrivalFits ==
  ASSUME PictureInv, UNCHANGED <<producerVars, senderVars>>, NEW m, Arrives(m)
  PROVE  m \in Fitting(history) /\ MessagesFit' /\ EncoderFits' /\ BaseFits' /\ history' = history
<1> DEFINE F == Fitting(history)
<1>1. EncoderFits' /\ BaseFits' /\ history' = history /\ producer' = producer /\ outgoing' = outgoing
  BY ProducerKept DEF producerVars
<1>2. packets \in Seq(F) /\ reliable \in Seq(F) /\ datagrams \subseteq F
  BY DEF PictureInv, MessagesFit
<1>3. m \in F /\ packets' \in Seq(F) /\ reliable' \in Seq(F) /\ datagrams' \subseteq F
  <2> HIDE DEF F
  <2>1. reliable # <<>> => Head(reliable) \in F /\ Tail(reliable) \in Seq(F)
    BY <1>2
  <2> QED
    BY <1>2, <2>1 DEF Arrives
<1>4. MessagesFit'
  BY <1>1, <1>3 DEF PictureInv, MessagesFit, senderVars
<1> QED
  BY <1>1, <1>3, <1>4

\* A video packet that is presented leaves its frame in the window and its
\* reference in the decoder.
LEMMA PresentFits ==
  ASSUME TypeInv, ViewerFits, UNCHANGED history, NEW m \in Fitting(history), Present(m)
  PROVE  ViewerFits'
<1>1. VideoFits(history, m) /\ m.sequence \in Nat /\ m.keyframe \in BOOLEAN /\ m.frame \in Frame
  <2>1. m \in MediaMsg /\ IsVideo(m) /\ VideoFits(history, m)
    BY DEF Present, Fitting
  <2> QED
    BY <2>1, MessageTyped DEF IsVideo
<1>2. /\ last_sequence' = m.sequence /\ decoder_reference' = m.sequence
      /\ picture' = IF m.keyframe \/ m.reference = decoder_reference THEN m.frame ELSE NoPicture
      /\ m.sequence > last_sequence
      /\ ~m.keyframe => ~waiting_for_keyframe /\ ~Gap(m)
  BY <1>1 DEF Present, Stale, Dependent, TypeInv, TypeOK, ViewerTypeOK, NoSequence
<1>3. ~m.keyframe => m.reference = decoder_reference
  <2> SUFFICES ASSUME ~m.keyframe PROVE m.reference = decoder_reference
    OBVIOUS
  <2>1. last_sequence # NoSequence /\ decoder_reference = ReferenceAt(last_sequence)
    BY <1>2 DEF ViewerFits
  <2>2. last_sequence = m.sequence - 1
    BY <1>1, <1>2, <2>1 DEF Gap, TypeInv, TypeOK, ViewerTypeOK, NoSequence
  <2> QED
    BY <1>1, <2>1, <2>2 DEF VideoFits, ReferenceIn, ReferenceAt
<1>4. picture' = m.frame
  BY <1>2, <1>3
<1> QED
  BY <1>1, <1>2, <1>4 DEF ViewerFits, VideoFits, FrameIn, ReferenceIn, FrameAt, ReferenceAt, media_sequence, NoSequence

\* A region update turns the frame before it into its own.
LEMMA RegionApplies ==
  ASSUME TypeInv, ViewerFits, UNCHANGED history, NEW m \in Fitting(history), ApplyRegion(m)
  PROVE  ViewerFits'
<1>1. RegionFits(history, m) /\ m.sequence \in Nat /\ m.frame \in Frame
  <2>1. m \in MediaMsg /\ IsRegion(m) /\ RegionFits(history, m)
    BY DEF ApplyRegion, Fitting
  <2> QED
    BY <2>1, MessageTyped DEF IsRegion
<1>2. decoder_reference' = decoder_reference /\ waiting_for_keyframe' = waiting_for_keyframe
  BY DEF ApplyRegion
<1>3. CASE picture = NoPicture
  <2>1. last_sequence' = last_sequence /\ picture' = picture
    BY <1>3 DEF ApplyRegion
  <2> QED
    BY <1>2, <2>1 DEF ViewerFits, FrameAt, ReferenceAt, media_sequence
<1>4. CASE picture # NoPicture
  <2>1. last_sequence # NoSequence /\ picture = FrameAt(last_sequence)
    BY <1>4 DEF ViewerFits
  <2>2. last_sequence = m.sequence - 1
    BY <1>1, <2>1 DEF ApplyRegion, Stale, Gap, TypeInv, TypeOK, ViewerTypeOK, NoSequence
  <2>3. /\ last_sequence' = m.sequence
        /\ picture' = [t \in Tile |-> IF t \in m.regions THEN m.frame[t] ELSE picture[t]]
    BY <1>4 DEF ApplyRegion
  <2>4. \A t \in Tile \ m.regions : m.frame[t] = picture[t]
    BY <1>1, <2>1, <2>2 DEF RegionFits, FrameIn, FrameAt
  <2>5. picture' = m.frame
    BY <1>1, <2>3, <2>4 DEF Frame
  <2>6. ReferenceIn(history, m.sequence) = ReferenceAt(last_sequence)
    BY <1>1, <2>2 DEF RegionFits, ReferenceIn, ReferenceAt
  <2>7. picture' = FrameAt(m.sequence) /\ ReferenceAt(m.sequence) = ReferenceAt(last_sequence)
    BY <1>1, <2>5, <2>6 DEF RegionFits, FrameIn, FrameAt, ReferenceIn, ReferenceAt
  <2>8. m.sequence < media_sequence /\ m.sequence # NoSequence
    BY <1>1 DEF RegionFits, media_sequence, NoSequence
  <2>9. ~waiting_for_keyframe => decoder_reference = ReferenceAt(last_sequence)
    BY DEF ViewerFits
  <2>10. \A s \in Nat : FrameAt(s)' = FrameAt(s) /\ ReferenceAt(s)' = ReferenceAt(s)
    BY DEF FrameAt, ReferenceAt
  <2> QED
    BY <1>1, <1>2, <2>1, <2>3, <2>7, <2>8, <2>9, <2>10 DEF ViewerFits, media_sequence
<1> QED
  BY <1>3, <1>4

\* A step of the viewer.
LEMMA ViewerPicture ==
  ASSUME TypeInv, PictureInv, ViewerLoop, UNCHANGED <<controlVars, producerVars, senderVars, host_control>>
  PROVE  PictureInv'
<1>1. CASE ViewerReceives
  <2> PICK m \in Arrivals : Handle(m)
    BY <1>1 DEF ViewerReceives
  <2>1. Arrives(m)
    BY DEF Handle, ShowCursor, SkipStale, RejectRegion, ApplyRegion, DropDependent, Present, DecodeFails, Take
  <2>2. m \in Fitting(history) /\ MessagesFit' /\ EncoderFits' /\ BaseFits' /\ history' = history
    BY <2>1, ArrivalFits
  <2>3. ViewerFits
    BY DEF PictureInv
  <2>4. ViewerFits'
    <3>1. CASE Present(m)
      BY <2>2, <2>3, <3>1, PresentFits
    <3>2. CASE ApplyRegion(m)
      BY <2>2, <2>3, <3>2, RegionApplies
    <3>3. CASE ShowCursor(m) \/ SkipStale(m)
      BY <2>2, <2>3, <3>3 DEF ShowCursor, SkipStale, pictureVars, ViewerFits, FrameAt, ReferenceAt, media_sequence
    <3>4. CASE RejectRegion(m) \/ DropDependent(m) \/ DecodeFails(m)
      <4>1. last_sequence' = last_sequence /\ picture' = picture /\ waiting_for_keyframe' = TRUE
        BY <3>4 DEF RejectRegion, DropDependent, DecodeFails, pictureVars
      <4> QED
        BY <2>2, <2>3, <4>1 DEF ViewerFits, FrameAt, media_sequence
    <3> QED
      BY <3>1, <3>2, <3>3, <3>4 DEF Handle
  <2> QED
    BY <2>2, <2>4 DEF PictureInv
<1>2. CASE ~ViewerReceives
  <2>1. UNCHANGED <<packets, reliable, datagrams, pictureVars, waiting_for_keyframe>>
    BY <1>2 DEF ViewerLoop, RequestTimer, Watchdog, SendNack, UpgradeRate, CloseWindow, ViewerLosesConnection,
         laneVars, viewerVars, pictureVars
  <2> QED
    BY <2>1, PictureKept
<1> QED
  BY <1>1, <1>2

-----------------------------------------------------------------------------
\* A lost update fits as little as one that arrived.
LEMMA LossPicture ==
  ASSUME PictureInv, LoseDatagram
  PROVE  PictureInv'
<1>1. /\ datagrams' \subseteq datagrams
      /\ UNCHANGED producerVars
      /\ UNCHANGED <<packets, reliable, senderVars, pictureVars, waiting_for_keyframe>>
  BY DEF LoseDatagram
<1>2. EncoderFits' /\ BaseFits' /\ history' = history
  BY <1>1, ProducerKept DEF producerVars
<1>3. MessagesFit'
  BY <1>1, <1>2 DEF PictureInv, MessagesFit, producerVars, senderVars
<1>4. ViewerFits'
  BY <1>1, <1>2 DEF PictureInv, ViewerFits, pictureVars, FrameAt, ReferenceAt, media_sequence
<1> QED
  BY <1>2, <1>3, <1>4 DEF PictureInv

\* Every step keeps the agreement between messages, base and decoder.
LEMMA NextPicture ==
  ASSUME TypeInv, PictureInv, NoSkippedBase, [Next]_vars
  PROVE  PictureInv'
<1>1. CASE Producer /\ UNCHANGED <<senderVars, host_control, viewerVars>>
  BY <1>1, ProducerPicture
<1>2. CASE Sender /\ UNCHANGED <<producerVars, host_control, viewerVars>>
  BY <1>2, SenderPicture
<1>3. CASE HostController /\ UNCHANGED <<producerVars, senderVars, viewerVars>>
  BY <1>3, ControlPicture
<1>4. CASE ViewerLoop /\ UNCHANGED <<controlVars, producerVars, senderVars, host_control>>
  BY <1>4, ViewerPicture
<1>5. CASE LoseDatagram
  BY <1>5, LossPicture
<1>6. CASE ConnectionDrops \/ UNCHANGED vars
  BY <1>6, PictureKept DEF ConnectionDrops, vars, laneVars, viewerVars, pictureVars
<1> QED
  BY <1>1, <1>2, <1>3, <1>4, <1>5, <1>6 DEF Next, Terminated

\* The agreement implies that the window shows the right frame.
LEMMA PictureRight == PictureInv => PictureMatchesSequence
  BY DEF PictureInv, ViewerFits, PictureMatchesSequence

\* If the encoder covers the full canvas or never skips a frame, every message on
\* its way, the producer's base and the viewer's decoder always agree with what was
\* captured under each sequence number (main.rs:1035-1218, 2214-2429).
THEOREM PictureAgrees == NoSkippedBase => (Spec => []PictureInv)
<1> SUFFICES ASSUME NoSkippedBase PROVE Spec => []PictureInv
  OBVIOUS
<1>1. Spec => []TypeInv
  BY TypeInvariant
<1>2. Init => PictureInv
  BY InitPicture
<1>3. TypeInv /\ PictureInv /\ [Next]_vars => PictureInv'
  BY NextPicture
<1> QED
  BY <1>1, <1>2, <1>3, PTL DEF Spec

\* The window shows exactly the frame that was captured under the sequence
\* number the viewer has reached: no patch is applied to another base and no
\* inter frame is decoded from another reference (main.rs:2214-2429).
THEOREM WindowShowsSequence == NoSkippedBase => (Spec => []PictureMatchesSequence)
<1> SUFFICES ASSUME NoSkippedBase PROVE Spec => []PictureMatchesSequence
  OBVIOUS
<1>1. Spec => []PictureInv
  BY PictureAgrees
<1>2. PictureInv => PictureMatchesSequence
  BY PictureRight
<1> QED
  BY <1>1, <1>2, PTL


(***************************************************************************)
(* Why no keyframe on its way is overtaken: sequence numbers rise from what*)
(* the viewer shows, through the lanes, the sender's hand and the channel, *)
(* to the number the producer gives next; why no region update reaches a   *)
(* viewer without a first frame: the barrier of the first keyframe; and    *)
(* what the barrier of a recovery keyframe holds back, and until when.     *)
(***************************************************************************)
IsNumbered(m)  == m.type # "Cursor"
Before(a, b)   == IsNumbered(a) /\ IsNumbered(b) => a.sequence < b.sequence
Rising(q)      == \A i, j \in 1..Len(q) : i < j => Before(q[i], q[j])
AllBefore(q, m) == \A i \in 1..Len(q) : Before(q[i], m)
AllAfter(m, q)  == \A i \in 1..Len(q) : Before(m, q[i])

\* The ends of the line: the picture shown, and the number given next.
Shown   == [type |-> "Video", sequence |-> last_sequence]
Coming  == [type |-> "Video", sequence |-> media_sequence]
Queuing == producer \in {"mark", "enqueue"}
Rear    == IF Queuing THEN outgoing ELSE Coming
InHand  == sender = "send"
Settled == datagrams \cup { reliable[i] : i \in 1..Len(reliable) } \cup {Shown}

ChannelRises ==
  /\ Queuing => outgoing.sequence < media_sequence
  /\ Rising(packets) /\ AllBefore(packets, Rear)
  /\ InHand => AllAfter(current, packets) /\ Before(current, Rear)
LanesPrecede ==
  \A s \in Settled : AllAfter(s, packets) /\ (InHand => Before(s, current)) /\ Before(s, Rear)
StreamRises ==
  /\ Rising(reliable) /\ AllAfter(Shown, reliable)
  /\ \A i \in 1..Len(reliable) : IsNumbered(reliable[i]) =>
       /\ Hybrid /\ IsKeyframe(reliable[i])
       /\ \A d \in datagrams : IsNumbered(d) => d.sequence # reliable[i].sequence
  /\ Hybrid => \A d \in datagrams : ~IsKeyframe(d)
FirstIsKeyframe == last_sequence = NoSequence => waiting_for_keyframe /\ picture = NoPicture

OrderInv == ChannelRises /\ LanesPrecede /\ StreamRises /\ FirstIsKeyframe

-----------------------------------------------------------------------------
LEMMA InitOrder == Init => OrderInv
<1> SUFFICES ASSUME Init PROVE OrderInv
  OBVIOUS
<1> USE DEF Init, LanesInit, ProducerInit, SenderInit, ViewerInit
<1>1. packets = <<>> /\ reliable = <<>> /\ datagrams = {} /\ ~Queuing /\ ~InHand
  BY DEF Queuing, InHand
<1>2. Settled = {Shown} /\ Before(Shown, Rear)
  BY <1>1 DEF Settled, Before, Shown, Rear, Coming, media_sequence, NoSequence
<1> QED
  BY <1>1, <1>2 DEF OrderInv, ChannelRises, LanesPrecede, StreamRises, FirstIsKeyframe, Rising, AllBefore, AllAfter

\* A message that everything in a rising sequence precedes may be appended to it.
LEMMA RisingAppend ==
  ASSUME NEW q \in Seq(MediaMsg), NEW m \in MediaMsg, Rising(q), AllBefore(q, m)
  PROVE  /\ Rising(Append(q, m))
         /\ \A r : AllBefore(q, r) /\ Before(m, r) => AllBefore(Append(q, m), r)
         /\ \A s : AllAfter(s, q) /\ Before(s, m) => AllAfter(s, Append(q, m))
<1> DEFINE p == Append(q, m)
<1>1. /\ Len(p) = Len(q) + 1 /\ p[Len(q) + 1] = m /\ \A i \in 1..Len(q) : p[i] = q[i]
      /\ Len(q) \in Nat
  OBVIOUS
<1> HIDE DEF p
<1> QED
  BY <1>1 DEF Rising, AllBefore, AllAfter, p

\* What is left of a rising sequence rises, and follows what was taken.
LEMMA RisingTail ==
  ASSUME NEW q \in Seq(MediaMsg), q # <<>>, Rising(q)
  PROVE  /\ Rising(Tail(q)) /\ AllAfter(Head(q), Tail(q))
         /\ \A r : AllBefore(q, r) => AllBefore(Tail(q), r) /\ Before(Head(q), r)
         /\ \A s : AllAfter(s, q) => AllAfter(s, Tail(q)) /\ Before(s, Head(q))
         /\ \A i \in 1..Len(Tail(q)) : i + 1 \in 1..Len(q) /\ Tail(q)[i] = q[i + 1]
<1> DEFINE p == Tail(q)
<1>1. /\ Len(p) = Len(q) - 1 /\ \A i \in 1..Len(p) : p[i] = q[i + 1]
      /\ Len(q) \in Nat \ {0} /\ Head(q) = q[1]
  OBVIOUS
<1> HIDE DEF p
<1> QED
  BY <1>1 DEF Rising, AllBefore, AllAfter, p

-----------------------------------------------------------------------------
Carriers == MediaMsg \cup {Shown}

\* A numbered message has a natural number; the picture shown has one or -1.
LEMMA Numbers ==
  ASSUME TypeInv
  PROVE  /\ \A m \in MediaMsg : IsNumbered(m) => m.sequence \in Nat
         /\ \A x \in Carriers : IsNumbered(x) => x.sequence \in Int
         /\ IsNumbered(Shown) /\ Shown.sequence = last_sequence /\ last_sequence \in Int
         /\ IsNumbered(Coming) /\ Coming.sequence = media_sequence /\ media_sequence \in Nat
         /\ Queuing => IsNumbered(outgoing) /\ outgoing \in MediaMsg
<1>1. \A m \in MediaMsg : IsNumbered(m) => m.sequence \in Nat
  BY DEF MediaMsg, VideoMsg, RegionMsg, CursorMsg, IsNumbered
<1>2. IsNumbered(Shown) /\ Shown.sequence = last_sequence /\ last_sequence \in Int
  BY DEF TypeInv, TypeOK, ViewerTypeOK, NoSequence, Shown, IsNumbered
<1>3. IsNumbered(Coming) /\ Coming.sequence = media_sequence /\ media_sequence \in Nat
  BY DEF TypeInv, TypeOK, ProducerTypeOK, media_sequence, Coming, IsNumbered
<1>4. Queuing => IsNumbered(outgoing) /\ outgoing \in MediaMsg
  BY DEF TypeInv, ProducerHolds, Queuing, VideoMsg, IsNumbered, MediaMsg
<1> QED
  BY <1>1, <1>2, <1>3, <1>4 DEF Carriers

\* The producer appends at most one message, between everything before it and the
\* number it gives next.
LEMMA ProducerAppends ==
  ASSUME TypeInv, OrderInv, UNCHANGED <<reliable, datagrams, senderVars, viewerVars>>,
         \A x \in Carriers : Before(x, Rear) => Before(x, Rear'),
         Queuing' => outgoing'.sequence < media_sequence',
         \/ packets' = packets
         \/ \E m \in MediaMsg : /\ packets' = Append(packets, m)
                                /\ Before(m, Rear')
                                /\ \A x \in Carriers : Before(x, Rear) => Before(x, m)
  PROVE  OrderInv'
<1>1. packets \in Seq(MediaMsg) /\ reliable \in Seq(MediaMsg) /\ datagrams \subseteq MediaMsg
  BY DEF TypeInv, TypeOK, LanesTypeOK
<1>2. Settled \subseteq Carriers /\ (InHand => current \in Carriers)
      /\ \A i \in 1..Len(packets) : packets[i] \in Carriers
  BY <1>1 DEF Settled, Carriers, TypeInv, SenderHolds, InHand
<1>3. Settled' = Settled /\ InHand' = InHand /\ current' = current
  BY DEF Settled, Shown, InHand, senderVars, viewerVars
<1>4. StreamRises' /\ FirstIsKeyframe'
  BY DEF OrderInv, StreamRises, FirstIsKeyframe, AllAfter, Rising, Shown, viewerVars
<1>5. /\ Rising(packets) /\ AllBefore(packets, Rear) /\ AllBefore(packets, Rear')
      /\ InHand => AllAfter(current, packets) /\ Before(current, Rear) /\ Before(current, Rear')
      /\ \A s \in Settled : /\ AllAfter(s, packets) /\ Before(s, Rear) /\ Before(s, Rear')
                            /\ InHand => Before(s, current)
  BY <1>2 DEF OrderInv, ChannelRises, LanesPrecede, AllBefore
<1>6. CASE packets' = packets
  <2>1. ChannelRises'
    BY <1>3, <1>5, <1>6 DEF ChannelRises, Rising, AllBefore, AllAfter
  <2>2. LanesPrecede'
    BY <1>3, <1>5, <1>6 DEF LanesPrecede, AllAfter
  <2> QED
    BY <1>4, <2>1, <2>2 DEF OrderInv
<1>7. CASE \E m \in MediaMsg : /\ packets' = Append(packets, m)
                                /\ Before(m, Rear')
                                /\ \A x \in Carriers : Before(x, Rear) => Before(x, m)
  <2> PICK m \in MediaMsg : /\ packets' = Append(packets, m)
                            /\ Before(m, Rear')
                            /\ \A x \in Carriers : Before(x, Rear) => Before(x, m)
    BY <1>7
  <2>1. /\ AllBefore(packets, m)
        /\ InHand => Before(current, m)
        /\ \A s \in Settled : Before(s, m)
    BY <1>2, <1>5 DEF AllBefore
  <2>2. /\ Rising(Append(packets, m))
        /\ AllBefore(Append(packets, m), Rear')
        /\ InHand => AllAfter(current, Append(packets, m))
        /\ \A s \in Settled : AllAfter(s, Append(packets, m))
    BY <1>1, <1>5, <2>1, RisingAppend
  <2>3. ChannelRises'
    BY <1>3, <1>5, <2>2 DEF ChannelRises, Rising, AllBefore, AllAfter
  <2>4. LanesPrecede'
    BY <1>3, <1>5, <2>2 DEF LanesPrecede, AllAfter
  <2> QED
    BY <1>4, <2>3, <2>4 DEF OrderInv
<1> QED
  BY <1>6, <1>7

\* What the producer numbers comes last, what it queues keeps its place.
LEMMA ProducerOrder ==
  ASSUME TypeInv, OrderInv, Producer, UNCHANGED <<senderVars, host_control, viewerVars>>
  PROVE  OrderInv'
<1>1. UNCHANGED <<reliable, datagrams>> /\ Shown' = Shown
  BY ProducerLanes DEF Shown, viewerVars
<1>2. Queuing => outgoing.sequence < media_sequence
  BY DEF OrderInv, ChannelRises
<1> DEFINE Steady(r) == \A x \in Carriers : Before(x, Rear) => Before(x, r)
<1>3. ASSUME NEW e \in Numbered, history' = Append(history, e), ~Queuing
      PROVE  /\ media_sequence' = media_sequence + 1
             /\ \A m \in MediaMsg : IsNumbered(m) /\ m.sequence = media_sequence => Steady(m)
             /\ ~Queuing' => Steady(Rear')
  <2>1. media_sequence' = media_sequence + 1
    BY <1>3 DEF TypeInv, TypeOK, ProducerTypeOK, media_sequence
  <2>2. Rear = Coming /\ (~Queuing' => Rear' = [type |-> "Video", sequence |-> media_sequence + 1])
    BY <1>3, <2>1 DEF Rear, Coming
  <2> QED
    BY <2>1, <2>2, Numbers DEF Before, IsNumbered
<1>4. CASE ProducerSendRegion
  <2> DEFINE m == [type |-> "DesktopUpdate", sequence |-> media_sequence, regions |-> dirty_regions, frame |-> frame]
             e == [frame |-> frame, reference |-> LastReference]
  <2>1. e \in Numbered /\ m \in MediaMsg /\ IsNumbered(m) /\ m.sequence = media_sequence
    BY Packets, Messages DEF TypeInv, TypeOK, ProducerTypeOK, Numbered, IsNumbered
  <2>2. history' = Append(history, e) /\ ~Queuing /\ ~Queuing' /\ packets' \in {packets, Append(packets, m)}
    BY <1>4 DEF ProducerSendRegion, TrySend, Goto, Queuing
  <2>3. media_sequence' = media_sequence + 1 /\ Steady(m) /\ Steady(Rear')
    BY <1>3, <2>1, <2>2
  <2>4. Before(m, Rear')
    BY <2>1, <2>2, <2>3, Numbers DEF Before, Rear, Coming
  <2> HIDE DEF m, e
  <2> QED
    BY <1>1, <2>1, <2>2, <2>3, <2>4, ProducerAppends
<1>5. CASE ProducerEncode
  <2> PICK key \in KeyframeChoices :
         LET packet == VideoPacket(key) IN
         /\ IF packet.barrier /\ Hybrid
            THEN Goto("mark") /\ outgoing' = packet /\ UNCHANGED packets
            ELSE TrySend(packet) /\ UNCHANGED outgoing
         /\ history' = Append(history, [frame |-> frame, reference |-> media_sequence])
    BY <1>5 DEF ProducerEncode
  <2> DEFINE m == VideoPacket(key)
             e == [frame |-> frame, reference |-> media_sequence]
  <2>1. e \in Numbered /\ m \in MediaMsg /\ IsNumbered(m) /\ m.sequence = media_sequence
    <3>1. key \in BOOLEAN
      BY DEF KeyframeChoices
    <3>2. m \in VideoMsg /\ media_sequence \in Nat
      BY <3>1, Packets DEF TypeInv, TypeOK
    <3> QED
      BY <3>2 DEF TypeInv, TypeOK, ProducerTypeOK, Numbered, VideoMsg, MediaMsg, IsNumbered, VideoPacket
  <2>2. history' = Append(history, e) /\ ~Queuing
    BY <1>5 DEF ProducerEncode, Queuing
  <2>3. media_sequence' = media_sequence + 1 /\ Steady(m) /\ (~Queuing' => Steady(Rear'))
    BY <1>3, <2>1, <2>2
  <2>4. CASE m.barrier /\ Hybrid
    <3>1. Queuing' /\ outgoing' = m /\ packets' = packets
      BY <2>4 DEF Goto, Queuing
    <3>2. Rear' = m
      BY <3>1 DEF Rear
    <3> HIDE DEF m, e
    <3>3. outgoing'.sequence < media_sequence'
      BY <2>1, <2>3, <3>1, Numbers
    <3> QED
      BY <1>1, <2>3, <3>1, <3>2, <3>3, ProducerAppends
  <2>5. CASE ~(m.barrier /\ Hybrid)
    <3>1. ~Queuing' /\ packets' \in {packets, Append(packets, m)}
      BY <2>5 DEF Goto, Queuing, TrySend
    <3> HIDE DEF m, e
    <3>2. Before(m, Rear')
      BY <2>1, <2>3, <3>1, Numbers DEF Before, Rear, Coming
    <3> QED
      BY <1>1, <2>1, <2>3, <3>1, <3>2, ProducerAppends
  <2> QED
    BY <2>4, <2>5
<1>6. CASE ProducerSendCursor
  <2>1. [type |-> "Cursor", cursor |-> frame_cursor] \in MediaMsg
    BY <1>6, Messages DEF TypeInv, ProducerHolds, ProducerSendCursor
  <2>2. /\ ~Queuing /\ ~Queuing' /\ history' = history
        /\ packets' \in {packets, Append(packets, [type |-> "Cursor", cursor |-> frame_cursor])}
    BY <1>6 DEF ProducerSendCursor, Queuing, Goto
  <2>3. Rear' = Rear
    BY <2>2 DEF Rear, Coming, media_sequence
  <2>4. \A x, c : Before(x, [type |-> "Cursor", cursor |-> c]) /\ Before([type |-> "Cursor", cursor |-> c], x)
    BY DEF Before, IsNumbered
  <2> QED
    BY <1>1, <2>1, <2>2, <2>3, <2>4, ProducerAppends
<1>7. CASE ProducerEnqueueBarrier
  <2>1. Queuing /\ ~Queuing' /\ history' = history /\ packets' \in {packets, Append(packets, outgoing)}
    BY <1>7 DEF ProducerEnqueueBarrier, Queuing, Goto
  <2>2. Rear = outgoing /\ Rear' = Coming /\ outgoing \in MediaMsg /\ IsNumbered(outgoing)
    BY <2>1, Numbers DEF Rear, Coming, media_sequence
  <2>3. outgoing.sequence \in Nat
    BY <2>2, Numbers
  <2>4. Steady(Rear') /\ Before(outgoing, Rear')
    BY <1>2, <2>1, <2>2, <2>3, Numbers DEF Before
  <2> QED
    BY <1>1, <2>1, <2>2, <2>4, ProducerAppends
<1>8. CASE ~ProducerSendRegion /\ ~ProducerEncode /\ ~ProducerSendCursor /\ ~ProducerEnqueueBarrier
  <2>1. packets' = packets /\ history' = history /\ outgoing' = outgoing /\ Queuing' = Queuing
    BY <1>8 DEF Producer, ProducerRuns, ProducerBeginRound, ProducerStops, ProducerLoadSettings,
         ProducerTakeRequest, ProducerSkipUnchanged, ProducerEncodeSkipped, ProducerRequestKeyframe,
         ProducerStoreRequest, ProducerMarkBarrier, ProducerPace, ProducerRepeatFrame, ProducerStopsCapturing,
         ProducerCapture, ProducerFails, RefreshTimer, laneVars, outputVars, Goto, Queuing
  <2>2. Rear' = Rear /\ media_sequence' = media_sequence
    BY <2>1 DEF Rear, Coming, media_sequence
  <2> QED
    BY <1>1, <1>2, <2>1, <2>2, ProducerAppends
<1> QED
  BY <1>4, <1>5, <1>6, <1>7, <1>8

-----------------------------------------------------------------------------
\* What the sender takes from the channel is the oldest in it; what it sends comes
\* behind everything sent before.
LEMMA SenderOrder ==
  ASSUME TypeInv, OrderInv, Sender, UNCHANGED <<producerVars, host_control, viewerVars>>
  PROVE  OrderInv'
<1>1. packets \in Seq(MediaMsg) /\ reliable \in Seq(MediaMsg) /\ datagrams \subseteq MediaMsg
  BY DEF TypeInv, TypeOK, LanesTypeOK
<1>2. /\ Shown' = Shown /\ Rear' = Rear /\ Queuing' = Queuing /\ media_sequence' = media_sequence
      /\ outgoing' = outgoing /\ FirstIsKeyframe'
  BY DEF OrderInv, FirstIsKeyframe, Shown, Rear, Queuing, Coming, media_sequence, viewerVars, producerVars
<1>3. /\ Queuing => outgoing.sequence < media_sequence
      /\ Rising(packets) /\ AllBefore(packets, Rear)
      /\ InHand => AllAfter(current, packets) /\ Before(current, Rear)
      /\ \A s \in Settled : AllAfter(s, packets) /\ (InHand => Before(s, current)) /\ Before(s, Rear)
  BY DEF OrderInv, ChannelRises, LanesPrecede
<1>4. InHand => current \in MediaMsg
  BY DEF TypeInv, SenderHolds, InHand
\* The channel and the sender's hand, when nothing is sent.
<1>5. ASSUME UNCHANGED <<reliable, datagrams>>,
             \/ packets' = packets /\ ~InHand'
             \/ packets # <<>> /\ packets' = Tail(packets) /\ (InHand' => current' = Head(packets))
      PROVE  OrderInv'
  <2>1. Settled' = Settled /\ StreamRises'
    BY <1>2, <1>5 DEF Settled, OrderInv, StreamRises, Rising, AllAfter
  <2>2. CASE packets' = packets /\ ~InHand'
    <3>1. ChannelRises' /\ LanesPrecede'
      BY <1>2, <1>3, <2>1, <2>2 DEF ChannelRises, LanesPrecede, Rising, AllBefore, AllAfter
    <3> QED
      BY <1>2, <2>1, <3>1 DEF OrderInv
  <2>3. CASE packets # <<>> /\ packets' = Tail(packets) /\ (InHand' => current' = Head(packets))
    <3>1. /\ Rising(Tail(packets)) /\ AllBefore(Tail(packets), Rear)
          /\ AllAfter(Head(packets), Tail(packets)) /\ Before(Head(packets), Rear)
          /\ \A s \in Settled : AllAfter(s, Tail(packets)) /\ Before(s, Head(packets))
      BY <1>1, <1>3, <2>3, RisingTail
    <3>2. ChannelRises'
      BY <1>2, <1>3, <2>3, <3>1 DEF ChannelRises, Rising, AllBefore, AllAfter
    <3>3. LanesPrecede'
      BY <1>2, <1>3, <2>1, <2>3, <3>1 DEF LanesPrecede, AllAfter
    <3> QED
      BY <1>2, <2>1, <3>2, <3>3 DEF OrderInv
  <2> QED
    BY <1>5, <2>2, <2>3
\* A message that is sent was before everything in the channel.
<1>6. ASSUME InHand, ~InHand', packets' = packets, Settled' = Settled \cup {current}
      PROVE  ChannelRises' /\ LanesPrecede'
  <2>1. \A s \in Settled' : AllAfter(s, packets) /\ Before(s, Rear)
    BY <1>3, <1>6
  <2> QED
    BY <1>2, <1>3, <1>6, <2>1 DEF ChannelRises, LanesPrecede, Rising, AllBefore, AllAfter
<1>7. CASE SenderReceive \/ SenderFlush
  BY <1>5, <1>7 DEF SenderReceive, SenderFlush, Finish, otherLanes, senderVars, InHand
<1>8. CASE SenderSendReliable
  <2>1. /\ InHand /\ ~InHand' /\ packets' = packets /\ datagrams' = datagrams
        /\ OnReliableStream /\ reliable' = Append(reliable, current)
    BY <1>8 DEF SenderSendReliable, Finish, InHand
  <2>2. /\ Len(reliable') = Len(reliable) + 1 /\ reliable'[Len(reliable) + 1] = current
        /\ \A i \in 1..Len(reliable) : reliable'[i] = reliable[i]
        /\ Len(reliable) \in Nat
    BY <1>1, <1>4, <2>1
  <2>3. Settled' = Settled \cup {current}
    <3>1. { reliable'[i] : i \in 1..Len(reliable') } = { reliable[i] : i \in 1..Len(reliable) } \cup {current}
      BY <2>2
    <3> QED
      BY <1>2, <2>1, <3>1 DEF Settled
  <2>4. ChannelRises' /\ LanesPrecede'
    BY <1>6, <2>1, <2>3
  <2>5. AllBefore(reliable, current) /\ Before(Shown, current) /\ \A d \in datagrams : Before(d, current)
    BY <1>3, <2>1 DEF AllBefore, Settled
  <2>6. Rising(reliable) /\ AllAfter(Shown, reliable)
    BY DEF OrderInv, StreamRises
  <2>7. Rising(reliable') /\ AllAfter(Shown, reliable')
    BY <1>1, <1>4, <2>1, <2>5, <2>6, RisingAppend
  <2>8. IsNumbered(current) => /\ Hybrid /\ IsKeyframe(current)
                               /\ \A d \in datagrams : IsNumbered(d) => d.sequence # current.sequence
    BY <1>1, <1>4, <2>1, <2>5, Numbers DEF OnReliableStream, IsNumbered, Before
  <2>9. StreamRises'
    BY <1>2, <2>1, <2>2, <2>7, <2>8 DEF OrderInv, StreamRises, Rising, AllAfter
  <2> QED
    BY <1>2, <2>4, <2>9 DEF OrderInv
<1>9. CASE SenderSendDatagrams
  <2>1. /\ InHand /\ ~InHand' /\ packets' = packets /\ reliable' = reliable
        /\ ~OnReliableStream /\ datagrams' = datagrams \cup {current}
    BY <1>9 DEF SenderSendDatagrams, Finish, InHand
  <2>2. Settled' = Settled \cup {current}
    BY <1>2, <2>1 DEF Settled
  <2>3. ChannelRises' /\ LanesPrecede'
    BY <1>6, <2>1, <2>2
  <2>4. \A i \in 1..Len(reliable) : IsNumbered(reliable[i]) => reliable[i].sequence < current.sequence
    <3>1. IsNumbered(current)
      BY <2>1 DEF OnReliableStream, IsNumbered
    <3> QED
      BY <1>3, <2>1, <3>1 DEF Settled, Before
  <2>5. \A i \in 1..Len(reliable) : IsNumbered(reliable[i]) => current.sequence # reliable[i].sequence
    <3>1. \A i \in 1..Len(reliable) : IsNumbered(reliable[i]) => reliable[i].sequence \in Nat
      BY <1>1, Numbers
    <3>2. current.sequence \in Nat
      BY <1>4, <2>1, Numbers DEF OnReliableStream, IsNumbered
    <3> QED
      BY <2>4, <3>1, <3>2
  <2>6. StreamRises'
    BY <1>2, <2>1, <2>5 DEF OrderInv, StreamRises, Rising, AllAfter, OnReliableStream
  <2> QED
    BY <1>2, <2>3, <2>6 DEF OrderInv
<1>10. CASE \/ SenderLoop \/ SenderArmBarrier \/ SenderDropBehindBarrier \/ SenderDropOversized
            \/ SenderAcknowledge \/ SenderLowerRate \/ SenderReduceRate \/ SenderDemandKeyframe
            \/ SenderFails \/ SenderJoins
  <2>1. UNCHANGED <<packets, reliable, datagrams>> /\ ~InHand'
    BY <1>10 DEF SenderLoop, SenderArmBarrier, SenderDropBehindBarrier, SenderDropOversized, SenderAcknowledge,
         SenderLowerRate, SenderReduceRate, SenderDemandKeyframe, SenderFails, SenderJoins, Finish, laneVars, InHand
  <2> QED
    BY <1>5, <2>1
<1> QED
  BY <1>7, <1>8, <1>9, <1>10 DEF Sender

-----------------------------------------------------------------------------
\* Fewer messages in the lanes, behind a picture shown that does not pass the
\* reliable stream, keep the order.
LEMMA LanesShrink ==
  ASSUME TypeInv, OrderInv, UNCHANGED <<producerVars, packets, senderVars>>,
         datagrams' \subseteq datagrams,
         reliable' = reliable \/ (reliable # <<>> /\ reliable' = Tail(reliable)),
         \/ last_sequence' = last_sequence
         \/ \E m \in Settled : /\ IsNumbered(m) /\ last_sequence' = m.sequence
                               /\ AllAfter(m, reliable'),
         FirstIsKeyframe'
  PROVE  OrderInv'
<1>1. reliable \in Seq(MediaMsg)
  BY DEF TypeInv, TypeOK, LanesTypeOK
<1>2. /\ Rear' = Rear /\ InHand' = InHand /\ current' = current /\ packets' = packets
      /\ ChannelRises'
  BY DEF OrderInv, ChannelRises, Rising, AllBefore, AllAfter, Rear, Coming, Queuing, InHand, media_sequence,
     producerVars, senderVars
<1>3. Rising(reliable) /\ AllAfter(Shown, reliable)
  BY DEF OrderInv, StreamRises
<1>4. /\ Rising(reliable') /\ AllAfter(Shown, reliable')
      /\ \A i \in 1..Len(reliable') : \E j \in 1..Len(reliable) : reliable'[i] = reliable[j]
  <2>1. CASE reliable' = reliable
    BY <1>3, <2>1 DEF Rising, AllAfter
  <2>2. CASE reliable # <<>> /\ reliable' = Tail(reliable)
    BY <1>1, <1>3, <2>2, RisingTail
  <2> QED
    BY <2>1, <2>2
<1>5. \A s \in Settled : AllAfter(s, packets) /\ (InHand => Before(s, current)) /\ Before(s, Rear)
  BY DEF OrderInv, LanesPrecede
<1>6. \/ Shown' = Shown
      \/ \E m \in Settled : /\ IsNumbered(m) /\ Shown' = [type |-> "Video", sequence |-> m.sequence]
                            /\ AllAfter(m, reliable')
  BY DEF Shown
<1>7. \A m : IsNumbered(m) =>
        \A b : Before(m, b) => Before([type |-> "Video", sequence |-> m.sequence], b)
  BY DEF Before, IsNumbered
<1>8. AllAfter(Shown', reliable')
  BY <1>4, <1>6, <1>7 DEF AllAfter
<1>9. AllAfter(Shown', packets) /\ (InHand => Before(Shown', current)) /\ Before(Shown', Rear)
  <2>1. Shown \in Settled
    BY DEF Settled
  <2> QED
    BY <1>5, <1>6, <1>7, <2>1 DEF AllAfter
<1>10. LanesPrecede'
  <2>1. \A s \in Settled' : s \in Settled \/ s = Shown'
    BY <1>4 DEF Settled
  <2>2. \A s \in Settled' : AllAfter(s, packets) /\ (InHand => Before(s, current)) /\ Before(s, Rear)
    BY <1>5, <1>9, <2>1
  <2> QED
    BY <1>2, <2>2 DEF LanesPrecede, AllAfter
<1>11. StreamRises'
  BY <1>4, <1>8 DEF OrderInv, StreamRises, Rising, AllAfter
<1> QED
  BY <1>2, <1>10, <1>11 DEF OrderInv

\* The viewer shows the next message of the reliable stream, or the successor of
\* what it shows.
LEMMA ViewerOrder ==
  ASSUME TypeInv, OrderInv, ViewerLoop, UNCHANGED <<controlVars, producerVars, senderVars, host_control>>
  PROVE  OrderInv'
<1>1. packets \in Seq(MediaMsg) /\ reliable \in Seq(MediaMsg) /\ datagrams \subseteq MediaMsg
  BY DEF TypeInv, TypeOK, LanesTypeOK
<1>2. FirstIsKeyframe /\ StreamRises
  BY DEF OrderInv
<1>3. CASE ViewerReceives
  <2> PICK m \in Arrivals : Handle(m)
    BY <1>3 DEF ViewerReceives
  <2>1. /\ Arrives(m) /\ packets' = packets
        /\ datagrams' \subseteq datagrams
        /\ reliable' = reliable \/ (reliable # <<>> /\ reliable' = Tail(reliable))
    BY DEF Handle, ShowCursor, SkipStale, RejectRegion, ApplyRegion, DropDependent, Present, DecodeFails,
       Take, Arrives
  <2>2. m \in MediaMsg /\ m \in Settled
    BY <1>1 DEF Arrivals, Settled
  <2>3. CASE last_sequence' = last_sequence
    <3>1. FirstIsKeyframe'
      <4>1. CASE ShowCursor(m) \/ SkipStale(m) \/ RejectRegion(m) \/ DropDependent(m) \/ DecodeFails(m)
        BY <1>2, <4>1 DEF FirstIsKeyframe, ShowCursor, SkipStale, RejectRegion, DropDependent, DecodeFails,
           pictureVars
      <4>2. CASE ApplyRegion(m)
        BY <1>2, <2>3, <4>2 DEF FirstIsKeyframe, ApplyRegion
      <4>3. ~Present(m)
        <5> SUFFICES ASSUME Present(m) PROVE FALSE
          OBVIOUS
        <5>1. m.sequence \in Nat /\ last_sequence \in Int
          BY <2>2, Numbers DEF Present, IsVideo, IsNumbered
        <5> QED
          BY <2>3, <5>1 DEF Present, Stale
      <4> QED
        BY <4>1, <4>2, <4>3 DEF Handle
    <3> QED
      BY <2>1, <2>3, <3>1, LanesShrink
  <2>4. CASE last_sequence' # last_sequence
    <3>1. /\ IsNumbered(m) /\ last_sequence' = m.sequence /\ ~Stale(m)
          /\ ~IsKeyframe(m) => ~Gap(m) /\ last_sequence # NoSequence
      <4>1. ApplyRegion(m) \/ Present(m)
        BY <2>4 DEF Handle, ShowCursor, SkipStale, RejectRegion, DropDependent, DecodeFails, pictureVars
      <4>2. CASE ApplyRegion(m)
        BY <1>2, <2>4, <4>2 DEF FirstIsKeyframe, ApplyRegion, IsRegion, IsNumbered
      <4>3. CASE Present(m)
        BY <1>2, <4>3 DEF FirstIsKeyframe, Present, IsVideo, IsNumbered, Dependent, IsKeyframe
      <4> QED
        BY <4>1, <4>2, <4>3
    <3>2. m.sequence \in Nat /\ last_sequence \in Int
      BY <2>2, <3>1, Numbers
    <3>3. FirstIsKeyframe'
      BY <3>1, <3>2 DEF FirstIsKeyframe, NoSequence
    <3>4. AllAfter(m, reliable')
      <4>1. CASE reliable # <<>> /\ m = Head(reliable) /\ reliable' = Tail(reliable)
        BY <1>1, <1>2, <4>1, RisingTail DEF StreamRises
      <4>2. CASE m \in datagrams /\ reliable' = reliable
        <5> SUFFICES ASSUME NEW i \in 1..Len(reliable), IsNumbered(reliable[i])
                     PROVE  m.sequence < reliable[i].sequence
          BY <4>2 DEF AllAfter, Before
        <5>1. reliable[i].sequence \in Nat /\ m.sequence # reliable[i].sequence /\ ~IsKeyframe(m)
          BY <1>1, <1>2, <3>1, <4>2, Numbers DEF StreamRises
        <5>2. last_sequence < reliable[i].sequence
          BY <1>2 DEF StreamRises, AllAfter, Before, Shown, IsNumbered
        <5>3. m.sequence <= last_sequence + 1
          BY <3>1, <3>2, <5>1 DEF IsKeyframe, Gap
        <5> QED
          BY <3>2, <5>1, <5>2, <5>3
      <4> QED
        BY <2>1, <4>1, <4>2 DEF Arrives
    <3> QED
      BY <2>1, <2>2, <3>1, <3>3, <3>4, LanesShrink
  <2> QED
    BY <2>3, <2>4
<1>4. CASE RequestTimer \/ Watchdog \/ SendNack \/ UpgradeRate \/ CloseWindow \/ ViewerLosesConnection
  <2>1. UNCHANGED <<packets, reliable, datagrams, pictureVars, waiting_for_keyframe>>
    BY <1>4 DEF RequestTimer, Watchdog, SendNack, UpgradeRate, CloseWindow, ViewerLosesConnection, laneVars,
       viewerVars, pictureVars
  <2> QED
    BY <1>2, <2>1, LanesShrink DEF FirstIsKeyframe, pictureVars
<1> QED
  BY <1>3, <1>4 DEF ViewerLoop

\* Every step of the session keeps the order.
LEMMA NextOrder ==
  ASSUME TypeInv, OrderInv, [Next]_vars
  PROVE  OrderInv'
<1>1. CASE Producer /\ UNCHANGED <<senderVars, host_control, viewerVars>>
  BY <1>1, ProducerOrder
<1>2. CASE Sender /\ UNCHANGED <<producerVars, host_control, viewerVars>>
  BY <1>2, SenderOrder
<1>3. CASE ViewerLoop /\ UNCHANGED <<controlVars, producerVars, senderVars, host_control>>
  BY <1>3, ViewerOrder
<1>4. CASE \/ HostController /\ UNCHANGED <<producerVars, senderVars, viewerVars>>
           \/ LoseDatagram \/ ConnectionDrops \/ UNCHANGED vars
  <2>1. /\ datagrams' \subseteq datagrams
        /\ UNCHANGED <<producerVars, packets, senderVars, reliable, last_sequence, picture, waiting_for_keyframe>>
    BY <1>4 DEF HostController, ReceiveKeyframeRequest, ControlStoresRequest, ReceiveKeyframeAck, ReceiveRateHint,
       ReceiveClose, ControlFails, ControlCancelled, Receive, laneVars, LoseDatagram, ConnectionDrops, vars,
       viewerVars, pictureVars
  <2>2. FirstIsKeyframe'
    BY <2>1 DEF OrderInv, FirstIsKeyframe
  <2> QED
    BY <2>1, <2>2, LanesShrink
<1> QED
  BY <1>1, <1>2, <1>3, <1>4 DEF Next, Terminated

\* The viewer never passes a keyframe on its way by showing a later message first:
\* every recovery keyframe that arrives can be presented and acknowledged
\* (main.rs:2214-2217, 2430).
THEOREM NoKeyframeOvertaken == Spec => []AnchorNeverStale
<1>1. Spec => []TypeInv
  BY TypeInvariant
<1>2. Init => OrderInv
  BY InitOrder
<1>3. TypeInv /\ OrderInv /\ [Next]_vars => OrderInv'
  BY NextOrder
<1>4. TypeInv /\ OrderInv => AnchorNeverStale
  <2> SUFFICES ASSUME TypeInv, OrderInv, NEW i \in 1..Len(reliable), IsKeyframe(reliable[i])
               PROVE  ~Stale(reliable[i])
    BY DEF AnchorNeverStale
  <2>1. IsNumbered(reliable[i])
    BY DEF IsKeyframe, IsNumbered
  <2>2. reliable[i] \in MediaMsg
    BY DEF TypeInv, TypeOK, LanesTypeOK
  <2>3. last_sequence < reliable[i].sequence
    BY <2>1 DEF OrderInv, StreamRises, AllAfter, Before, Shown, IsNumbered
  <2> QED
    BY <2>1, <2>2, <2>3, Numbers DEF Stale
<1> QED
  BY <1>1, <1>2, <1>3, <1>4, PTL DEF Spec

-----------------------------------------------------------------------------
\* A host without hybrid video sends no regions.
NotRegions(q) == \A i \in 1..Len(q) : ~IsRegion(q[i])
RegionsNeedHybrid ==
  ~Hybrid => /\ NotRegions(packets) /\ (InHand => ~IsRegion(current))
             /\ \A d \in datagrams : ~IsRegion(d)

\* Before its first packet, and until the barrier of that packet is up, the host has
\* nothing but cursors on its way.
Cursors(q)  == \A i \in 1..Len(q) : ~IsNumbered(q[i])
BeforeFirst ==
  /\ Cursors(packets) /\ (InHand => ~IsNumbered(current))
  /\ \/ producer = "mark"
     \/ /\ producer \notin {"enqueue", "request", "store"}
        /\ history = <<>> /\ encoder_reference = NoReference /\ refresh_due

\* Until the viewer shows a frame nothing lowers the barrier again, and the barrier
\* keeps everything but keyframes and cursors from being sent.
NoAck(q) == \A i \in 1..Len(q) : q[i].type # "KeyframeAck"
FirstHeld ==
  Hybrid /\ last_sequence = NoSequence =>
    /\ NoAck(control) /\ datagrams = {}
    /\ sender \notin {"lower", "reduce", "demand", "ack"}
    /\ recovery_pending \/ ~packet_rx_open \/ BeforeFirst

FirstInv == (~packet_rx_open => sender = "done") /\ RegionsNeedHybrid /\ FirstHeld

LEMMA InitFirst == Init => FirstInv
<1> SUFFICES ASSUME Init PROVE FirstInv
  OBVIOUS
<1> USE DEF Init, LanesInit, ProducerInit, SenderInit, ViewerInit
<1>1. packets = <<>> /\ datagrams = {} /\ ~InHand
  BY DEF InHand
<1>2. Len(control) = 1 /\ control[1] = [type |-> "RateHint", rate |-> requested_rate]
  OBVIOUS
<1>3. NoAck(control)
  BY <1>2 DEF NoAck
<1> QED
  BY <1>1, <1>3 DEF FirstInv, RegionsNeedHybrid, FirstHeld, NotRegions, BeforeFirst, Cursors

\* The first packet is a keyframe and a barrier; it waits for the barrier to be up.
LEMMA ProducerFirst ==
  ASSUME TypeInv, FirstInv, Producer, UNCHANGED <<senderVars, host_control, viewerVars>>
  PROVE  FirstInv'
<1>1. packets \in Seq(MediaMsg) /\ packet_rx_open' = packet_rx_open /\ datagrams' = datagrams /\ control' = control
  BY DEF TypeInv, TypeOK, LanesTypeOK, Producer, ProducerRuns, ProducerBeginRound, ProducerStops,
     ProducerSendCursor, ProducerLoadSettings, ProducerTakeRequest, ProducerSendRegion, ProducerSkipUnchanged,
     ProducerEncode, ProducerEncodeSkipped, ProducerRequestKeyframe, ProducerStoreRequest, ProducerMarkBarrier,
     ProducerEnqueueBarrier, ProducerPace, ProducerRepeatFrame, ProducerStopsCapturing, ProducerCapture,
     ProducerFails, RefreshTimer, laneVars, otherLanes
<1>2. /\ sender' = sender /\ current' = current /\ InHand' = InHand /\ last_sequence' = last_sequence
  BY DEF senderVars, viewerVars, InHand
<1>3. /\ packets' = packets
         \/ \E m \in MediaMsg : packets' = Append(packets, m) /\ (IsRegion(m) => Optimized)
      /\ packets' = packets \/ producer = "enqueue" \/ producer = "encode"
         \/ (producer = "cursor" /\ \E m \in MediaMsg : packets' = Append(packets, m) /\ ~IsNumbered(m))
  <2>1. CASE ProducerSendRegion
    <3>1. [type |-> "DesktopUpdate", sequence |-> media_sequence, regions |-> dirty_regions, frame |-> frame] \in MediaMsg
      BY Packets, Messages DEF TypeInv, TypeOK, ProducerTypeOK
    <3> QED
      BY <2>1, <3>1 DEF ProducerSendRegion, TrySend, RegionCandidate
  <2>2. CASE ProducerEncode
    <3>1. \A key \in KeyframeChoices : VideoPacket(key) \in MediaMsg /\ ~IsRegion(VideoPacket(key))
      <4> TAKE key \in KeyframeChoices
      <4>1. key \in BOOLEAN
        BY DEF KeyframeChoices
      <4> QED
        BY <4>1, Packets DEF TypeInv, TypeOK, MediaMsg, VideoPacket, IsRegion
    <3> QED
      BY <2>2, <3>1 DEF ProducerEncode, TrySend
  <2>3. CASE ProducerSendCursor
    <3>1. [type |-> "Cursor", cursor |-> frame_cursor] \in MediaMsg
      BY <2>3, Messages DEF TypeInv, ProducerHolds, ProducerSendCursor
    <3> QED
      BY <2>3, <3>1 DEF ProducerSendCursor, IsRegion, IsNumbered
  <2>4. CASE ProducerEnqueueBarrier
    <3>1. outgoing \in MediaMsg /\ ~IsRegion(outgoing)
      BY <2>4 DEF TypeInv, ProducerHolds, ProducerEnqueueBarrier, MediaMsg, VideoMsg, IsRegion
    <3> QED
      BY <2>4, <3>1 DEF ProducerEnqueueBarrier
  <2>5. CASE ~ProducerSendRegion /\ ~ProducerEncode /\ ~ProducerSendCursor /\ ~ProducerEnqueueBarrier
    BY <2>5 DEF Producer, ProducerRuns, ProducerBeginRound, ProducerStops, ProducerLoadSettings,
       ProducerTakeRequest, ProducerSkipUnchanged, ProducerEncodeSkipped, ProducerRequestKeyframe,
       ProducerStoreRequest, ProducerMarkBarrier, ProducerPace, ProducerRepeatFrame, ProducerStopsCapturing,
       ProducerCapture, ProducerFails, RefreshTimer, laneVars
  <2> QED
    BY <2>1, <2>2, <2>3, <2>4, <2>5
<1>4. RegionsNeedHybrid'
  BY <1>1, <1>2, <1>3, FeatureAssumption DEF FirstInv, RegionsNeedHybrid, NotRegions
<1>5. ASSUME recovery_pending, packet_rx_open
      PROVE  recovery_pending'
  BY <1>5 DEF Producer, ProducerRuns, ProducerBeginRound, ProducerStops,
     ProducerSendCursor, ProducerLoadSettings, ProducerTakeRequest, ProducerSendRegion, ProducerSkipUnchanged,
     ProducerEncode, ProducerEncodeSkipped, ProducerRequestKeyframe, ProducerStoreRequest, ProducerMarkBarrier,
     ProducerEnqueueBarrier, ProducerPace, ProducerRepeatFrame, ProducerStopsCapturing, ProducerCapture,
     ProducerFails, RefreshTimer, controlVars, RaiseBarrier, SwapRequested, StoreRequested
<1>6. ASSUME BeforeFirst, Hybrid
      PROVE  recovery_pending' \/ BeforeFirst'
  <2>1. CASE producer = "mark"
    <3>1. ProducerMarkBarrier \/ RefreshTimer
      BY <2>1 DEF Producer, ProducerRuns, ProducerBeginRound, ProducerStops,
     ProducerSendCursor, ProducerLoadSettings, ProducerTakeRequest, ProducerSendRegion, ProducerSkipUnchanged,
     ProducerEncode, ProducerEncodeSkipped, ProducerRequestKeyframe, ProducerStoreRequest,
     ProducerEnqueueBarrier, ProducerPace, ProducerRepeatFrame, ProducerStopsCapturing, ProducerCapture,
     ProducerFails
    <3> QED
      BY <1>2, <1>6, <2>1, <3>1 DEF ProducerMarkBarrier, RaiseBarrier, RefreshTimer, BeforeFirst, laneVars, Cursors
  <2>2. CASE producer # "mark"
    <3>1. /\ producer \notin {"enqueue", "request", "store"}
          /\ history = <<>> /\ encoder_reference = NoReference /\ refresh_due
      BY <1>6, <2>2 DEF BeforeFirst
    <3>2. CASE ProducerEncode
      <4>1. media_sequence = 0 /\ KeyframeChoices = {TRUE} /\ VideoPacket(TRUE).barrier
        BY <3>1 DEF media_sequence, KeyframeChoices, VideoPacket
      <4>2. producer' = "mark" /\ packets' = packets
        BY <1>6, <3>2, <4>1 DEF ProducerEncode, Goto
      <4> QED
        BY <1>2, <1>6, <4>2 DEF BeforeFirst, Cursors
    <3>3. CASE ~ProducerEncode
      <4>1. ~ProducerSendRegion /\ ~RefreshTimer /\ ~ProducerEnqueueBarrier /\ ~ProducerRequestKeyframe
            /\ ~ProducerStoreRequest /\ ~ProducerMarkBarrier
        BY <2>2, <3>1 DEF ProducerSendRegion, RegionCandidate, RefreshTimer, ProducerEnqueueBarrier,
           ProducerRequestKeyframe, ProducerStoreRequest, ProducerMarkBarrier
      <4>2. /\ history' = history /\ refresh_due' = refresh_due
            /\ encoder_reference' = NoReference
            /\ producer' \notin {"enqueue", "request", "store", "mark"}
        BY <3>1, <3>3, <4>1 DEF Producer, ProducerRuns, ProducerBeginRound, ProducerStops,
     ProducerSendCursor, ProducerLoadSettings, ProducerTakeRequest, ProducerSkipUnchanged,
     ProducerEncodeSkipped, ProducerPace, ProducerRepeatFrame, ProducerStopsCapturing, ProducerCapture,
     ProducerFails, encoderVars, outputVars, Goto
      <4>3. Cursors(packets')
        <5>1. packets' = packets \/ \E m \in MediaMsg : packets' = Append(packets, m) /\ ~IsNumbered(m)
          BY <1>3, <3>1, <3>3, <4>1 DEF Producer, ProducerRuns, ProducerBeginRound, ProducerStops,
     ProducerSendCursor, ProducerLoadSettings, ProducerTakeRequest, ProducerSkipUnchanged,
     ProducerEncodeSkipped, ProducerPace, ProducerRepeatFrame, ProducerStopsCapturing, ProducerCapture,
     ProducerFails, laneVars
        <5> QED
          BY <1>1, <1>6, <5>1 DEF BeforeFirst, Cursors
      <4> QED
        BY <1>2, <1>6, <3>1, <4>2, <4>3 DEF BeforeFirst, Cursors
    <3> QED
      BY <3>2, <3>3
  <2> QED
    BY <2>1, <2>2
<1>7. FirstHeld'
  BY <1>1, <1>2, <1>5, <1>6 DEF FirstInv, FirstHeld, NoAck
<1> QED
  BY <1>1, <1>2, <1>4, <1>7 DEF FirstInv

\* Behind the barrier the sender sends nothing but keyframes and cursors.
LEMMA SenderFirst ==
  ASSUME TypeInv, FirstInv, Sender, UNCHANGED <<producerVars, host_control, viewerVars>>
  PROVE  FirstInv'
<1>1. packets \in Seq(MediaMsg)
  BY DEF TypeInv, TypeOK, LanesTypeOK
<1>2. /\ control' = control /\ last_sequence' = last_sequence /\ producer' = producer /\ history' = history
      /\ encoder_reference' = encoder_reference /\ refresh_due' = refresh_due
  BY DEF Sender, SenderLoop, SenderReceive, SenderSendReliable, SenderArmBarrier, SenderFlush,
     SenderDropBehindBarrier, SenderDropOversized, SenderSendDatagrams, SenderAcknowledge, SenderLowerRate,
     SenderReduceRate, SenderDemandKeyframe, SenderFails, SenderJoins, laneVars, otherLanes, producerVars, viewerVars
<1>3. (~packet_rx_open => sender = "done")'
  BY DEF FirstInv, Sender, SenderLoop, SenderReceive, SenderSendReliable, SenderArmBarrier, SenderFlush,
     SenderDropBehindBarrier, SenderDropOversized, SenderSendDatagrams, SenderAcknowledge, SenderLowerRate,
     SenderReduceRate, SenderDemandKeyframe, SenderFails, SenderJoins, laneVars, otherLanes
\* The channel is left alone or loses its head, the hand takes that head.
<1>4. /\ packets' = packets \/ (packets # <<>> /\ packets' = Tail(packets))
      /\ InHand' => packets # <<>> /\ packets' = Tail(packets) /\ current' = Head(packets)
  BY DEF Sender, SenderLoop, SenderReceive, SenderSendReliable, SenderArmBarrier, SenderFlush,
     SenderDropBehindBarrier, SenderDropOversized, SenderSendDatagrams, SenderAcknowledge, SenderLowerRate,
     SenderReduceRate, SenderDemandKeyframe, SenderFails, SenderJoins, laneVars, otherLanes, senderVars, Finish, InHand
<1>5. /\ \A i \in 1..Len(packets') : \E j \in 1..Len(packets) : packets'[i] = packets[j]
      /\ InHand' => \E j \in 1..Len(packets) : current' = packets[j]
  <2>1. CASE packets' = packets
    BY <1>1, <1>4, <2>1
  <2>2. CASE packets # <<>> /\ packets' = Tail(packets)
    <3> DEFINE q == Tail(packets)
    <3>1. /\ Len(q) = Len(packets) - 1 /\ \A i \in 1..Len(q) : q[i] = packets[i + 1]
          /\ Len(packets) \in Nat \ {0} /\ Head(packets) = packets[1]
      BY <1>1, <2>2
    <3>2. packets' = q /\ (InHand' => current' = packets[1])
      BY <1>4, <2>2, <3>1
    <3> HIDE DEF q
    <3> QED
      BY <3>1, <3>2
  <2> QED
    BY <1>4, <2>1, <2>2
<1>6. datagrams' = datagrams
      \/ (InHand /\ ~OnReliableStream /\ ~BehindBarrier /\ datagrams' = datagrams \cup {current})
  BY DEF Sender, SenderLoop, SenderReceive, SenderSendReliable, SenderArmBarrier, SenderFlush,
     SenderDropBehindBarrier, SenderDropOversized, SenderSendDatagrams, SenderAcknowledge, SenderLowerRate,
     SenderReduceRate, SenderDemandKeyframe, SenderFails, SenderJoins, laneVars, otherLanes, InHand
<1>7. RegionsNeedHybrid'
  BY <1>5, <1>6 DEF FirstInv, RegionsNeedHybrid, NotRegions
<1>8. FirstHeld'
  <2> SUFFICES ASSUME Hybrid, last_sequence = NoSequence
               PROVE  /\ NoAck(control') /\ datagrams' = {}
                      /\ sender' \notin {"lower", "reduce", "demand", "ack"}
                      /\ recovery_pending' \/ ~packet_rx_open' \/ BeforeFirst'
    BY <1>2 DEF FirstHeld
  <2>1. /\ NoAck(control) /\ datagrams = {} /\ sender \notin {"lower", "reduce", "demand", "ack"}
        /\ recovery_pending \/ ~packet_rx_open \/ BeforeFirst
    BY DEF FirstInv, FirstHeld
  <2>2. InHand => packet_rx_open
    BY DEF FirstInv, InHand
  <2>3. InHand /\ ~OnReliableStream => BehindBarrier
    BY <2>1, <2>2 DEF OnReliableStream, BehindBarrier, BeforeFirst, IsNumbered
  <2>4. datagrams' = {}
    BY <1>6, <2>1, <2>3
  <2>5. sender' \notin {"lower", "reduce", "demand", "ack"}
    BY <2>1, <2>3 DEF Sender, SenderLoop, SenderReceive, SenderSendReliable, SenderArmBarrier, SenderFlush,
     SenderDropBehindBarrier, SenderDropOversized, SenderSendDatagrams, SenderAcknowledge, SenderLowerRate,
     SenderReduceRate, SenderDemandKeyframe, SenderFails, SenderJoins, senderVars, Finish, InHand
  <2>6. recovery_pending => recovery_pending'
    BY <2>1 DEF Sender, SenderLoop, SenderReceive, SenderSendReliable, SenderArmBarrier, SenderFlush,
     SenderDropBehindBarrier, SenderDropOversized, SenderSendDatagrams, SenderAcknowledge, SenderLowerRate,
     SenderReduceRate, SenderDemandKeyframe, SenderFails, SenderJoins, RaiseBarrier, controlVars
  <2>7. packet_rx_open' => packet_rx_open
    BY DEF Sender, SenderLoop, SenderReceive, SenderSendReliable, SenderArmBarrier, SenderFlush,
     SenderDropBehindBarrier, SenderDropOversized, SenderSendDatagrams, SenderAcknowledge, SenderLowerRate,
     SenderReduceRate, SenderDemandKeyframe, SenderFails, SenderJoins, laneVars, otherLanes
  <2>8. BeforeFirst => BeforeFirst'
    BY <1>2, <1>5 DEF BeforeFirst, Cursors
  <2> QED
    BY <1>2, <2>1, <2>4, <2>5, <2>6, <2>7, <2>8
<1> QED
  BY <1>3, <1>7, <1>8 DEF FirstInv

\* Without a frame shown, nothing the viewer posts is an acknowledgement.
LEMMA ViewerFirst ==
  ASSUME TypeInv, FirstInv, ViewerLoop, UNCHANGED <<controlVars, producerVars, senderVars, host_control>>
  PROVE  FirstInv'
<1>1. control \in Seq(ControlMsg) /\ datagrams \subseteq MediaMsg /\ reliable \in Seq(MediaMsg)
  BY DEF TypeInv, TypeOK, LanesTypeOK
<1>2. packets' = packets /\ packet_rx_open' = packet_rx_open /\ datagrams' \subseteq datagrams
  BY DEF ViewerLoop, ViewerReceives, Handle, ShowCursor, SkipStale, RejectRegion, ApplyRegion, DropDependent,
     Present, DecodeFails, Take, Arrives, RequestTimer, Watchdog, SendNack, UpgradeRate, CloseWindow,
     ViewerLosesConnection, laneVars
<1>3. ASSUME last_sequence' = NoSequence, last_sequence = NoSequence, NoAck(control)
      PROVE  NoAck(control')
  <2>1. \A r \in Seq(ControlMsg) : NoAck(r) => NoAck(control \o r)
    <3> TAKE r \in Seq(ControlMsg)
    <3>1. /\ Len(control \o r) = Len(control) + Len(r) /\ Len(control) \in Nat /\ Len(r) \in Nat
          /\ \A i \in 1..Len(control) : (control \o r)[i] = control[i]
          /\ \A i \in 1..Len(control) + Len(r) : i > Len(control) => (control \o r)[i] = r[i - Len(control)]
      BY <1>1, ConcatProperties
    <3> QED
      BY <1>3, <3>1 DEF NoAck
  <2>2. \A rate \in Rates : RateHint(rate) \in ControlMsg /\ RateHint(rate).type # "KeyframeAck"
    BY DEF RateHint, ControlMsg
  <2>3. \A type \in {"KeyframeRequest", "MediaNack", "Close"} :
          [type |-> type] \in ControlMsg /\ [type |-> type].type # "KeyframeAck"
    BY DEF ControlMsg
  <2>4. \A c \in ControlMsg : c.type # "KeyframeAck" => <<c>> \in Seq(ControlMsg) /\ NoAck(<<c>>)
    BY DEF NoAck
  <2>5. \A c, d \in ControlMsg : c.type # "KeyframeAck" /\ d.type # "KeyframeAck" =>
          <<c, d>> \in Seq(ControlMsg) /\ NoAck(<<c, d>>)
    BY DEF NoAck
  <2>6. <<>> \in Seq(ControlMsg) /\ NoAck(<<>>)
    BY DEF NoAck
  <2>7. \A rate \in Rates : Reduce(rate) \in Rates /\ Increase(rate) \in Rates
    BY RateAssumption DEF Rates, Reduce, Increase
  <2>8. requested_rate \in Rates
    BY DEF TypeInv, TypeOK, ViewerTypeOK
  <2>9. KeyframeRequest \in ControlMsg /\ KeyframeRequest.type # "KeyframeAck"
    BY <2>3 DEF KeyframeRequest
  <2>10. CASE ViewerReceives
    <3> PICK m \in Arrivals : Handle(m)
      BY <2>10 DEF ViewerReceives
    <3>1. ~Present(m)
      <4> SUFFICES ASSUME Present(m) PROVE FALSE
        OBVIOUS
      <4>1. m \in MediaMsg /\ IsNumbered(m)
        BY <1>1 DEF Arrivals, Present, IsVideo, IsNumbered
      <4>2. m.sequence \in Nat
        BY <4>1, Numbers
      <4> QED
        BY <1>3, <4>2 DEF Present, NoSequence
    <3>2. control' = control \/ AskForKeyframe
      BY <3>1 DEF Handle, ShowCursor, SkipStale, RejectRegion, ApplyRegion, DropDependent, DecodeFails
    <3>3. CASE AskForKeyframe
      BY <2>1, <2>4, <2>6, <2>9, <3>3 DEF AskForKeyframe, Post
    <3> QED
      BY <1>3, <3>2, <3>3
  <2>11. CASE RequestTimer \/ ViewerLosesConnection
    BY <1>3, <2>11 DEF RequestTimer, ViewerLosesConnection, laneVars
  <2>12. CASE Watchdog
    BY <2>1, <2>2, <2>5, <2>7, <2>8, <2>9, <2>12 DEF Watchdog, Post
  <2>13. CASE UpgradeRate
    BY <2>1, <2>2, <2>4, <2>7, <2>8, <2>13 DEF UpgradeRate, Post
  <2>14. CASE SendNack \/ CloseWindow
    BY <2>1, <2>3, <2>4, <2>14 DEF SendNack, CloseWindow, Post
  <2> QED
    BY <2>10, <2>11, <2>12, <2>13, <2>14 DEF ViewerLoop
<1>4. last_sequence' = NoSequence => last_sequence = NoSequence
  <2> SUFFICES ASSUME last_sequence' = NoSequence, last_sequence # NoSequence PROVE FALSE
    OBVIOUS
  <2>1. ViewerReceives
    BY DEF ViewerLoop, RequestTimer, Watchdog, SendNack, UpgradeRate, CloseWindow, ViewerLosesConnection, pictureVars,
       viewerVars
  <2> PICK m \in Arrivals : Handle(m)
    BY <2>1 DEF ViewerReceives
  <2>2. IsNumbered(m) /\ last_sequence' = m.sequence
    BY DEF Handle, ShowCursor, SkipStale, RejectRegion, ApplyRegion, DropDependent, Present, DecodeFails,
       pictureVars, IsVideo, IsRegion, IsNumbered
  <2>3. m \in MediaMsg
    BY <1>1 DEF Arrivals
  <2> QED
    BY <2>2, <2>3, Numbers DEF NoSequence
<1>5. RegionsNeedHybrid' /\ (~packet_rx_open => sender = "done")'
  BY <1>2 DEF FirstInv, RegionsNeedHybrid, NotRegions, InHand, senderVars
<1>6. BeforeFirst => BeforeFirst'
  BY <1>2 DEF BeforeFirst, Cursors, InHand, senderVars, producerVars
<1>7. FirstHeld'
  BY <1>2, <1>3, <1>4, <1>6 DEF FirstInv, FirstHeld, senderVars, controlVars
<1> QED
  BY <1>5, <1>7 DEF FirstInv

\* The host lowers the barrier for an acknowledgement only, and there is none.
LEMMA ControlFirst ==
  ASSUME TypeInv, FirstInv, HostController, UNCHANGED <<producerVars, senderVars, viewerVars>>
  PROVE  FirstInv'
<1>1. control \in Seq(ControlMsg)
  BY DEF TypeInv, TypeOK, LanesTypeOK
<1>2. /\ packets' = packets /\ packet_rx_open' = packet_rx_open /\ datagrams' = datagrams
      /\ control' = control \/ (control # <<>> /\ control' = Tail(control))
  BY DEF HostController, ReceiveKeyframeRequest, ControlStoresRequest, ReceiveKeyframeAck, ReceiveRateHint,
     ReceiveClose, ControlFails, ControlCancelled, Receive, laneVars
<1>3. NoAck(control) => NoAck(control')
  BY <1>1, <1>2 DEF NoAck
<1>4. NoAck(control) => ~ReceiveKeyframeAck
  <2> SUFFICES ASSUME NoAck(control), control # <<>>, Head(control).type = "KeyframeAck" PROVE FALSE
    BY DEF ReceiveKeyframeAck, Receive
  <2>1. Head(control) = control[1] /\ 1 \in 1..Len(control)
    BY <1>1
  <2> QED
    BY <2>1 DEF NoAck
<1>5. NoAck(control) /\ recovery_pending => recovery_pending'
  BY <1>4 DEF HostController, ReceiveKeyframeRequest, ControlStoresRequest, ReceiveRateHint, ReceiveClose,
     ControlFails, ControlCancelled, controlVars, RaiseBarrier, StoreRequested, StoreShutdown, UpdateRate
<1>6. RegionsNeedHybrid' /\ (~packet_rx_open => sender = "done")'
  BY <1>2 DEF FirstInv, RegionsNeedHybrid, NotRegions, InHand, senderVars
<1>7. BeforeFirst => BeforeFirst'
  BY <1>2 DEF BeforeFirst, Cursors, InHand, senderVars, producerVars
<1>8. FirstHeld'
  BY <1>2, <1>3, <1>5, <1>7 DEF FirstInv, FirstHeld, senderVars, viewerVars
<1> QED
  BY <1>6, <1>8 DEF FirstInv

LEMMA NextFirst ==
  ASSUME TypeInv, FirstInv, [Next]_vars
  PROVE  FirstInv'
<1>1. CASE Producer /\ UNCHANGED <<senderVars, host_control, viewerVars>>
  BY <1>1, ProducerFirst
<1>2. CASE Sender /\ UNCHANGED <<producerVars, host_control, viewerVars>>
  BY <1>2, SenderFirst
<1>3. CASE ViewerLoop /\ UNCHANGED <<controlVars, producerVars, senderVars, host_control>>
  BY <1>3, ViewerFirst
<1>4. CASE HostController /\ UNCHANGED <<producerVars, senderVars, viewerVars>>
  BY <1>4, ControlFirst
<1>5. CASE LoseDatagram \/ ConnectionDrops \/ UNCHANGED vars
  <2>1. /\ datagrams' \subseteq datagrams
        /\ UNCHANGED <<controlVars, packets, packet_rx_open, control, producerVars, senderVars, last_sequence>>
    BY <1>5 DEF LoseDatagram, ConnectionDrops, vars, laneVars, viewerVars, pictureVars
  <2> QED
    BY <2>1 DEF FirstInv, RegionsNeedHybrid, FirstHeld, BeforeFirst, NotRegions, Cursors, NoAck, InHand,
       controlVars, producerVars, senderVars
<1> QED
  BY <1>1, <1>2, <1>3, <1>4, <1>5 DEF Next, Terminated

\* No region update is sent to a viewer that has no full frame to patch: nothing
\* passes the barrier of the first keyframe, which only its presentation lowers
\* (main.rs:1017-1029, 1383-1390, 2276-2283).
THEOREM RegionsWait == Spec => []RegionsFollowFirstFrame
<1>1. Spec => []TypeInv
  BY TypeInvariant
<1>2. Init => FirstInv
  BY InitFirst
<1>3. TypeInv /\ FirstInv /\ [Next]_vars => FirstInv'
  BY NextFirst
<1>4. FirstInv => RegionsFollowFirstFrame
  BY DEF FirstInv, FirstHeld, RegionsNeedHybrid, RegionsFollowFirstFrame
<1> QED
  BY <1>1, <1>2, <1>3, <1>4, PTL DEF Spec

(***************************************************************************)
(* The barrier: why it is never up with nobody to take it down, and why no *)
(* desktop state is numbered while a recovery keyframe is on its way.      *)
(***************************************************************************)
Keyframes == { m \in MediaMsg : IsKeyframe(m) }
Barriers  == { m \in MediaMsg : IsBarrier(m) }
Acks      == { c \in ControlMsg : c.type = "KeyframeAck" }

\* A queue holds something of a set; it does not hold two such things.
Holds(q, S)  == \E i \in 1..Len(q) : q[i] \in S
Single(q, S) == \A i, j \in 1..Len(q) : q[i] \in S /\ q[j] \in S => i = j

-----------------------------------------------------------------------------
LEMMA HoldsAppend ==
  ASSUME NEW M, NEW q \in Seq(M), NEW m \in M, NEW S
  PROVE  /\ Holds(Append(q, m), S) <=> Holds(q, S) \/ m \in S
         /\ Single(q, S) /\ ~(Holds(q, S) /\ m \in S) => Single(Append(q, m), S)
<1> DEFINE p == Append(q, m)
<1>1. /\ Len(p) = Len(q) + 1 /\ p[Len(q) + 1] = m /\ \A i \in 1..Len(q) : p[i] = q[i]
      /\ Len(q) \in Nat
  OBVIOUS
<1> HIDE DEF p
<1>2. Holds(p, S) <=> Holds(q, S) \/ m \in S
  BY <1>1 DEF Holds
<1>3. Single(q, S) /\ ~(Holds(q, S) /\ m \in S) => Single(p, S)
  BY <1>1 DEF Holds, Single
<1> QED
  BY <1>2, <1>3 DEF p

LEMMA HoldsTail ==
  ASSUME NEW M, NEW q \in Seq(M), q # <<>>, NEW S
  PROVE  /\ Holds(q, S) <=> Head(q) \in S \/ Holds(Tail(q), S)
         /\ Single(q, S) => Single(Tail(q), S) /\ ~(Head(q) \in S /\ Holds(Tail(q), S))
<1> DEFINE p == Tail(q)
<1>1. /\ Len(p) = Len(q) - 1 /\ \A i \in 1..Len(p) : p[i] = q[i + 1]
      /\ Len(q) \in Nat \ {0} /\ Head(q) = q[1]
  OBVIOUS
<1> HIDE DEF p
<1>2. Holds(q, S) <=> Head(q) \in S \/ Holds(p, S)
  <2>1. ASSUME NEW i \in 1..Len(q), q[i] \in S, i # 1
        PROVE  Holds(p, S)
    <3>1. i - 1 \in 1..Len(p) /\ p[i - 1] = q[i]
      BY <1>1, <2>1
    <3> QED
      BY <2>1, <3>1 DEF Holds
  <2>2. Holds(p, S) => Holds(q, S)
    BY <1>1 DEF Holds
  <2>3. q[1] \in S => Holds(q, S)
    BY <1>1 DEF Holds
  <2> QED
    BY <1>1, <2>1, <2>2, <2>3 DEF Holds
<1>3. Single(q, S) => Single(p, S)
  BY <1>1 DEF Single
<1>4. Single(q, S) => ~(Head(q) \in S /\ Holds(p, S))
  BY <1>1 DEF Single, Holds
<1> QED
  BY <1>2, <1>3, <1>4 DEF p

LEMMA HoldsConcat ==
  ASSUME NEW M, NEW q \in Seq(M), NEW r \in Seq(M), NEW S
  PROVE  /\ Holds(q \o r, S) <=> Holds(q, S) \/ Holds(r, S)
         /\ ~Holds(r, S) /\ Single(q, S) => Single(q \o r, S)
         /\ ~Holds(q, S) /\ Single(r, S) => Single(q \o r, S)
<1>1. /\ Len(q \o r) = Len(q) + Len(r) /\ Len(q) \in Nat /\ Len(r) \in Nat
      /\ \A i \in 1..Len(q) : (q \o r)[i] = q[i]
      /\ \A i \in 1..Len(q) + Len(r) : i > Len(q) => (q \o r)[i] = r[i - Len(q)]
  BY ConcatProperties
<1>2. PICK p : p = q \o r
  OBVIOUS
<1>3. \A i \in 1..Len(p) : \/ i \in 1..Len(q) /\ p[i] = q[i]
                           \/ i - Len(q) \in 1..Len(r) /\ p[i] = r[i - Len(q)]
  BY <1>1, <1>2
<1>4. \A i \in 1..Len(r) : i + Len(q) \in 1..Len(p) /\ p[i + Len(q)] = r[i]
  BY <1>1, <1>2
<1>5. \A i \in 1..Len(q) : i \in 1..Len(p) /\ p[i] = q[i]
  BY <1>1, <1>2
<1>6. Holds(p, S) <=> Holds(q, S) \/ Holds(r, S)
  BY <1>3, <1>4, <1>5 DEF Holds
<1>7. ~Holds(r, S) /\ Single(q, S) => Single(p, S)
  BY <1>3 DEF Holds, Single
<1>8. ~Holds(q, S) /\ Single(r, S) => Single(p, S)
  <2> SUFFICES ASSUME ~Holds(q, S), Single(r, S),
                      NEW i \in 1..Len(p), NEW j \in 1..Len(p), p[i] \in S, p[j] \in S
               PROVE  i = j
    BY DEF Single
  <2>1. i - Len(q) \in 1..Len(r) /\ j - Len(q) \in 1..Len(r) /\ p[i] = r[i - Len(q)] /\ p[j] = r[j - Len(q)]
    BY <1>3 DEF Holds
  <2>2. i - Len(q) = j - Len(q)
    BY <2>1 DEF Single
  <2>3. Len(q) \in Nat
    BY <1>1
  <2> QED
    BY <2>2, <2>3
<1> QED
  BY <1>2, <1>6, <1>7, <1>8

LEMMA HoldsFew ==
  ASSUME NEW M, NEW S
  PROVE  /\ <<>> \in Seq(M) /\ ~Holds(<<>>, S) /\ Single(<<>>, S)
         /\ \A c \in M : <<c>> \in Seq(M) /\ Single(<<c>>, S) /\ (Holds(<<c>>, S) <=> c \in S)
         /\ \A c, d \in M : /\ <<c, d>> \in Seq(M)
                            /\ Holds(<<c, d>>, S) <=> c \in S \/ d \in S
  BY DEF Holds, Single

-----------------------------------------------------------------------------
\* What the environment must leave alone for a recovery to come to an end: MCSkippedKeyframe,
\* MCUndecodableKeyframe and an acknowledgement before the sender's next statement
\* show that it does not without.
KeyframesArrive == Hybrid /\ Faults \cap {"EncoderSkip", "KeyDecodeError", "EarlyAck"} = {}

\* A recovery that somebody still has to begin, or to send.
Promised ==
  \/ keyframe_requested
  \/ producer = "store" \/ host_control = "store" \/ sender \in {"reduce", "demand", "arm", "ack"}
  \/ KeyframeOwed
  \/ producer \in {"mark", "enqueue"}
  \/ sender = "send" /\ current \in Barriers
\* One that the viewer has still to answer, or the host to hear of.
Answerable == Holds(reliable, Keyframes) \/ Holds(control, Acks)

Owned     == recovery_pending /\ ~SessionEnded => Promised \/ Holds(packets, Barriers) \/ Answerable
Announced == sender \in {"arm", "flush"} /\ ~SessionEnded => Answerable
Encoded ==
  /\ \A i \in 1..Len(packets) : packets[i] \in Barriers => packets[i] \in Keyframes
  /\ sender = "send" /\ current \in Barriers => current \in Keyframes
  /\ producer \in {"mark", "enqueue"} => outgoing \in Barriers \cap Keyframes
  /\ KeyframeOwed => encoder_reference = NoReference
OwnerInv == Owned /\ Announced /\ Encoded /\ (sender = "done" => ~connected)

\* For typed lanes this is the property.
LEMMA OwnedMeans ==
  ASSUME TypeInv
  PROVE  Owned <=> BarrierHasOwner
<1>1. /\ \A i \in 1..Len(packets) : packets[i] \in MediaMsg
      /\ \A i \in 1..Len(reliable) : reliable[i] \in MediaMsg
      /\ \A i \in 1..Len(control) : control[i] \in ControlMsg
      /\ sender = "send" => current \in MediaMsg
  BY DEF TypeInv, TypeOK, LanesTypeOK, SenderHolds
<1>2. Holds(packets, Barriers) <=> \E i \in 1..Len(packets) : IsBarrier(packets[i])
  BY <1>1 DEF Holds, Barriers
<1>3. Holds(reliable, Keyframes) <=> \E i \in 1..Len(reliable) : IsKeyframe(reliable[i])
  BY <1>1 DEF Holds, Keyframes
<1>4. Holds(control, Acks) <=> \E i \in 1..Len(control) : control[i].type = "KeyframeAck"
  BY <1>1 DEF Holds, Acks
<1>5. sender = "send" => (current \in Barriers <=> IsBarrier(current))
  BY <1>1 DEF Barriers
<1> QED
  BY <1>2, <1>3, <1>4, <1>5 DEF Owned, BarrierHasOwner, Promised, Answerable

LEMMA InitOwner == Init => OwnerInv
<1> SUFFICES ASSUME Init PROVE OwnerInv
  OBVIOUS
<1> QED
  BY DEF Init, ControlInit, LanesInit, ProducerInit, SenderInit, OwnerInv, Owned, Announced, Encoded, KeyframeOwed

\* A session that has ended stays ended.
LEMMA StaysEnded ==
  ASSUME [Next]_vars
  PROVE  SessionEnded => SessionEnded'
<1>1. CASE Producer /\ UNCHANGED <<senderVars, host_control, viewerVars>>
  BY <1>1 DEF Producer, ProducerRuns, ProducerBeginRound, ProducerStops, ProducerSendCursor, ProducerLoadSettings,
     ProducerTakeRequest, ProducerSendRegion, ProducerSkipUnchanged, ProducerEncode, ProducerEncodeSkipped,
     ProducerRequestKeyframe, ProducerStoreRequest, ProducerMarkBarrier, ProducerEnqueueBarrier, ProducerPace,
     ProducerRepeatFrame, ProducerStopsCapturing, ProducerCapture, ProducerFails, RefreshTimer,
     laneVars, otherLanes, controlVars, viewerVars, SessionEnded, ProducerEnded, RaiseBarrier, LowerBarrier,
     StoreRequested, SwapRequested
<1>2. CASE Sender /\ UNCHANGED <<producerVars, host_control, viewerVars>>
  BY <1>2 DEF Sender, SenderLoop, SenderReceive, SenderSendReliable, SenderArmBarrier, SenderFlush,
     SenderDropBehindBarrier, SenderDropOversized, SenderSendDatagrams, SenderAcknowledge, SenderLowerRate,
     SenderReduceRate, SenderDemandKeyframe, SenderFails, SenderJoins, laneVars, otherLanes, controlVars,
     viewerVars, producerVars, SessionEnded, ProducerEnded, RaiseBarrier, LowerBarrier, StoreRequested, UpdateRate
<1>3. CASE HostController /\ UNCHANGED <<producerVars, senderVars, viewerVars>>
  BY <1>3 DEF HostController, ReceiveKeyframeRequest, ControlStoresRequest, ReceiveKeyframeAck, ReceiveRateHint,
     ReceiveClose, ControlFails, ControlCancelled, Receive, laneVars, controlVars, viewerVars, producerVars,
     SessionEnded, ProducerEnded, RaiseBarrier, LowerBarrier, StoreRequested, StoreShutdown, UpdateRate
<1>4. CASE ViewerLoop /\ UNCHANGED <<controlVars, producerVars, senderVars, host_control>>
  BY <1>4 DEF ViewerLoop, ViewerReceives, Handle, ShowCursor, SkipStale, RejectRegion, ApplyRegion, DropDependent,
     Present, DecodeFails, Take, Arrives, RequestTimer, Watchdog, SendNack, UpgradeRate, CloseWindow,
     ViewerLosesConnection, laneVars, controlVars, producerVars, SessionEnded, ProducerEnded
<1>5. CASE LoseDatagram \/ ConnectionDrops \/ UNCHANGED vars
  BY <1>5 DEF LoseDatagram, ConnectionDrops, vars, laneVars, controlVars, producerVars, viewerVars, SessionEnded,
     ProducerEnded
<1> QED
  BY <1>1, <1>2, <1>3, <1>4, <1>5 DEF Next, Terminated

-----------------------------------------------------------------------------
\* A request taken is a keyframe owed, a keyframe owed is made, and the barrier is up
\* before it is queued.
LEMMA ProducerOwner ==
  ASSUME KeyframesArrive, TypeInv, OwnerInv, Producer, UNCHANGED <<senderVars, host_control, viewerVars>>,
         SessionEnded => SessionEnded'
  PROVE  OwnerInv'
<1>1. UNCHANGED <<reliable, control, connected, sender, current, host_control>>
  BY ProducerLanes DEF Producer, ProducerRuns, ProducerBeginRound, ProducerStops, ProducerSendCursor,
     ProducerLoadSettings, ProducerTakeRequest, ProducerSendRegion, ProducerSkipUnchanged, ProducerEncode,
     ProducerEncodeSkipped, ProducerRequestKeyframe, ProducerStoreRequest, ProducerMarkBarrier,
     ProducerEnqueueBarrier, ProducerPace, ProducerRepeatFrame, ProducerStopsCapturing, ProducerCapture,
     ProducerFails, RefreshTimer, laneVars, otherLanes, senderVars
<1>2. Answerable' = Answerable /\ Announced' /\ (sender = "done" => ~connected)'
  BY <1>1 DEF OwnerInv, Announced, Answerable
<1>3. packets \in Seq(MediaMsg)
  BY DEF TypeInv, TypeOK, LanesTypeOK
\* What is queued, and what becomes of the queue.
<1>4. ASSUME NEW m \in MediaMsg, packets' \in {packets, Append(packets, m)}, m \in Barriers => m \in Keyframes
      PROVE  /\ \A i \in 1..Len(packets') : packets'[i] \in Barriers => packets'[i] \in Keyframes
             /\ Holds(packets, Barriers) => Holds(packets', Barriers)
             /\ packets' = Append(packets, m) /\ m \in Barriers => Holds(packets', Barriers)
  <2>1. CASE packets' = packets /\ packets # Append(packets, m)
    BY <2>1 DEF OwnerInv, Encoded
  <2>2. CASE packets' = Append(packets, m)
    <3>1. /\ Len(packets') = Len(packets) + 1 /\ packets'[Len(packets) + 1] = m
          /\ \A i \in 1..Len(packets) : packets'[i] = packets[i]
          /\ Len(packets) \in Nat
      BY <1>3, <2>2
    <3>2. \A i \in 1..Len(packets') : packets'[i] \in Barriers => packets'[i] \in Keyframes
      BY <1>4, <3>1 DEF OwnerInv, Encoded
    <3> QED
      BY <1>3, <1>4, <2>2, <3>2, HoldsAppend
  <2> QED
    BY <1>4, <2>1, <2>2
<1>5. (sender = "send" /\ current \in Barriers => current \in Keyframes)'
  BY <1>1 DEF OwnerInv, Encoded
<1>6. CASE ProducerEncode
  <2> PICK key \in KeyframeChoices :
         LET packet == VideoPacket(key) IN
         IF packet.barrier /\ Hybrid
         THEN Goto("mark") /\ outgoing' = packet /\ UNCHANGED packets
         ELSE TrySend(packet) /\ UNCHANGED outgoing
    BY <1>6 DEF ProducerEncode
  <2>1. key \in BOOLEAN /\ (force_full_frame => key)
    BY <1>6 DEF KeyframeChoices, OwnerInv, Encoded, KeyframeOwed, ProducerEncode
  <2> PICK m : m = VideoPacket(key)
    OBVIOUS
  <2>2. m \in MediaMsg /\ IsVideo(m) /\ m.barrier = (key /\ (media_sequence = 0 \/ force_full_frame)) /\ m.keyframe = key
    BY <2>1, Packets, Messages DEF TypeInv, TypeOK, VideoPacket, IsVideo
  <2>3. (m \in Barriers <=> m.barrier) /\ (m \in Keyframes <=> key) /\ (m.barrier => key) /\ (force_full_frame => m.barrier)
    BY <2>1, <2>2 DEF Barriers, Keyframes, IsBarrier, IsKeyframe, IsVideo
  <2>4. /\ producer = "encode" /\ keyframe_requested' = keyframe_requested /\ recovery_pending' = recovery_pending
        /\ force_full_frame' = force_full_frame
    BY <1>6 DEF ProducerEncode, controlVars
  <2>5. CASE m.barrier
    <3>1. producer' = "mark" /\ outgoing' = m /\ packets' = packets
      BY <2>5 DEF Goto, KeyframesArrive
    <3>2. Encoded'
      BY <1>5, <2>3, <2>5, <3>1 DEF Encoded, OwnerInv, KeyframeOwed
    <3> QED
      BY <1>2, <3>1, <3>2 DEF OwnerInv, Owned, Promised
  <2>6. CASE ~m.barrier
    <3>1. producer' \in {"done", "pace", "request"} /\ packets' \in {packets, Append(packets, m)} /\ outgoing' = outgoing
      BY <2>6 DEF Goto, TrySend
    <3>2. Encoded' /\ (Holds(packets, Barriers) => Holds(packets', Barriers))
      BY <1>4, <1>5, <2>2, <2>3, <2>6, <3>1 DEF Encoded, KeyframeOwed
    <3>3. Promised => Promised'
      BY <1>1, <2>3, <2>4, <2>6 DEF Promised, KeyframeOwed
    <3> QED
      BY <1>2, <2>4, <3>2, <3>3 DEF OwnerInv, Owned
  <2> QED
    BY <2>5, <2>6
<1>7. CASE ProducerSendRegion \/ ProducerSendCursor
  <2>1. PICK m \in MediaMsg : packets' \in {packets, Append(packets, m)} /\ ~IsVideo(m)
    <3>1. CASE ProducerSendRegion
      <4>1. [type |-> "DesktopUpdate", sequence |-> media_sequence, regions |-> dirty_regions, frame |-> frame] \in MediaMsg
        BY Packets, Messages DEF TypeInv, TypeOK, ProducerTypeOK
      <4> QED
        BY <3>1, <4>1 DEF ProducerSendRegion, TrySend, IsVideo
    <3>2. CASE ProducerSendCursor
      <4>1. [type |-> "Cursor", cursor |-> frame_cursor] \in MediaMsg
        BY <3>2, Messages DEF TypeInv, ProducerHolds, ProducerSendCursor
      <4> QED
        BY <3>2, <4>1 DEF ProducerSendCursor, IsVideo
    <3> QED
      BY <1>7, <3>1, <3>2
  <2>2. m \notin Barriers
    BY <2>1 DEF Barriers, IsBarrier, IsVideo
  <2>3. /\ producer \in {"encode", "cursor"} /\ ~KeyframeOwed
        /\ producer' \in {"done", "pace", "request", "settings"}
        /\ keyframe_requested' = keyframe_requested /\ recovery_pending' = recovery_pending
    BY <1>7 DEF ProducerSendRegion, ProducerSendCursor, RegionCandidate, TrySend, Goto, KeyframeOwed, controlVars
  <2>4. Encoded' /\ (Holds(packets, Barriers) => Holds(packets', Barriers))
    BY <1>4, <1>5, <2>1, <2>2, <2>3 DEF Encoded, KeyframeOwed
  <2>5. Promised => Promised'
    BY <1>1, <2>3 DEF Promised
  <2> QED
    BY <1>2, <2>3, <2>4, <2>5 DEF OwnerInv, Owned
<1>8. CASE ProducerEnqueueBarrier
  <2>1. /\ producer = "enqueue" /\ outgoing \in MediaMsg /\ outgoing \in Barriers \cap Keyframes
        /\ producer' \in {"done", "pace"} /\ packets' \in {packets, Append(packets, outgoing)}
        /\ keyframe_requested' = keyframe_requested
        /\ ~recovery_pending' \/ packets' = Append(packets, outgoing)
    BY <1>8 DEF ProducerEnqueueBarrier, Goto, LowerBarrier, OwnerInv, Encoded, controlVars, Barriers
  <2>2. Encoded' /\ (packets' = Append(packets, outgoing) => Holds(packets', Barriers))
    BY <1>4, <1>5, <2>1 DEF Encoded, KeyframeOwed
  <2> QED
    BY <1>2, <2>1, <2>2 DEF OwnerInv, Owned
<1>9. CASE ~ProducerEncode /\ ~ProducerSendRegion /\ ~ProducerSendCursor /\ ~ProducerEnqueueBarrier
  <2>1. packets' = packets /\ outgoing' = outgoing
    BY <1>9 DEF Producer, ProducerRuns, ProducerBeginRound, ProducerStops, ProducerLoadSettings,
         ProducerTakeRequest, ProducerSkipUnchanged, ProducerEncodeSkipped, ProducerRequestKeyframe,
         ProducerStoreRequest, ProducerMarkBarrier, ProducerPace, ProducerRepeatFrame, ProducerStopsCapturing,
         ProducerCapture, ProducerFails, RefreshTimer, laneVars, outputVars
  <2>2. /\ producer' \in {"mark", "enqueue"} => producer \in {"mark", "enqueue"}
        /\ KeyframeOwed' => KeyframeOwed \/ encoder_reference' = NoReference
        /\ KeyframeOwed => encoder_reference' = encoder_reference
    <3>1. CASE ProducerTakeRequest
      BY <3>1 DEF ProducerTakeRequest, Goto, KeyframeOwed
    <3>2. CASE ProducerLoadSettings
      BY <3>2 DEF ProducerLoadSettings, Goto, KeyframeOwed
    <3>3. CASE RefreshTimer
      BY <3>3 DEF RefreshTimer, encoderVars, KeyframeOwed
    <3>4. CASE ~ProducerTakeRequest /\ ~ProducerLoadSettings /\ ~RefreshTimer
      BY <1>9, <3>4 DEF Producer, ProducerRuns, ProducerBeginRound, ProducerStops, ProducerSkipUnchanged,
         ProducerEncodeSkipped, ProducerRequestKeyframe, ProducerStoreRequest, ProducerMarkBarrier, ProducerPace,
         ProducerRepeatFrame, ProducerStopsCapturing, ProducerCapture, ProducerFails, encoderVars, Goto,
         KeyframeOwed
    <3> QED
      BY <3>1, <3>2, <3>3, <3>4
  <2>3. Encoded'
    BY <1>5, <2>1, <2>2 DEF OwnerInv, Encoded
  <2>4. \/ recovery_pending' = recovery_pending /\ (Promised => Promised')
        \/ Promised' \/ ProducerEnded'
    BY <1>1, <1>9 DEF Producer, ProducerRuns, ProducerBeginRound, ProducerStops, ProducerLoadSettings,
         ProducerTakeRequest, ProducerSkipUnchanged, NothingToSend, ProducerEncodeSkipped, ProducerRequestKeyframe,
         ProducerStoreRequest, ProducerMarkBarrier, ProducerPace, ProducerRepeatFrame, ProducerStopsCapturing,
         ProducerCapture, ProducerFails, RefreshTimer, encoderVars, controlVars, Goto, KeyframeOwed,
         Promised, RaiseBarrier, StoreRequested, SwapRequested, KeyframesArrive, ProducerEnded
  <2> QED
    BY <1>2, <2>1, <2>3, <2>4 DEF OwnerInv, Owned, SessionEnded
<1> QED
  BY <1>6, <1>7, <1>8, <1>9

\* A recovery keyframe in the sender's hand goes out on the stream; what the sender flushes
\* or drops is behind one.
LEMMA SenderOwner ==
  ASSUME KeyframesArrive, TypeInv, OwnerInv, Sender, UNCHANGED <<producerVars, host_control, viewerVars>>,
         SessionEnded => SessionEnded'
  PROVE  OwnerInv'
<1>1. UNCHANGED <<control, producer, force_full_frame, encoder_reference, outgoing, host_control>>
  BY DEF Sender, SenderLoop, SenderReceive, SenderSendReliable, SenderArmBarrier, SenderFlush,
     SenderDropBehindBarrier, SenderDropOversized, SenderSendDatagrams, SenderAcknowledge, SenderLowerRate,
     SenderReduceRate, SenderDemandKeyframe, SenderFails, SenderJoins, laneVars, otherLanes, producerVars
<1>2. packets \in Seq(MediaMsg) /\ reliable \in Seq(MediaMsg) /\ (sender = "send" => current \in MediaMsg)
  BY DEF TypeInv, TypeOK, LanesTypeOK, SenderHolds
<1>3. KeyframeOwed' = KeyframeOwed
  BY <1>1 DEF KeyframeOwed
<1>4. /\ \A i \in 1..Len(packets) : packets[i] \in Barriers => packets[i] \in Keyframes
      /\ sender = "send" /\ current \in Barriers => current \in Keyframes
  BY DEF OwnerInv, Encoded
\* The channel is left alone or loses its head.
<1>5. ASSUME packets # <<>>, packets' = Tail(packets)
      PROVE  /\ Holds(packets, Barriers) => Head(packets) \in Barriers \/ Holds(packets', Barriers)
             /\ Head(packets) \in Barriers => Head(packets) \in Keyframes
             /\ \A i \in 1..Len(packets') : packets'[i] \in Barriers => packets'[i] \in Keyframes
  <2> PICK q : q = Tail(packets)
    OBVIOUS
  <2>1. /\ Len(q) = Len(packets) - 1 /\ \A i \in 1..Len(q) : q[i] = packets[i + 1]
        /\ Len(packets) \in Nat \ {0} /\ Head(packets) = packets[1]
    BY <1>2, <1>5
  <2>2. \A i \in 1..Len(q) : q[i] \in Barriers => q[i] \in Keyframes
    BY <1>4, <2>1
  <2>3. Head(packets) \in Barriers => Head(packets) \in Keyframes
    BY <1>4, <2>1
  <2> QED
    BY <1>2, <1>5, <2>2, <2>3, HoldsTail
<1>6. CASE SenderReceive
  <2>1. /\ sender = "recv" /\ UNCHANGED <<reliable, connected, keyframe_requested, recovery_pending>>
        /\ \/ packets # <<>> /\ packets' = Tail(packets) /\ sender' = "send" /\ current' = Head(packets)
           \/ packets' = packets /\ sender' = "join"
    BY <1>6 DEF SenderReceive, otherLanes, controlVars
  <2>2. Encoded'
    BY <1>1, <1>3, <1>4, <1>5, <2>1 DEF OwnerInv, Encoded
  <2>3. Answerable' = Answerable
    BY <1>1, <2>1 DEF Answerable
  <2>4. Promised \/ Holds(packets, Barriers) => Promised' \/ Holds(packets', Barriers)
    BY <1>1, <1>3, <1>5, <2>1 DEF Promised
  <2> QED
    BY <2>1, <2>2, <2>3, <2>4 DEF OwnerInv, Owned, Announced
<1>7. CASE SenderSendReliable
  <2>1. /\ sender = "send" /\ reliable' = Append(reliable, current)
        /\ UNCHANGED <<packets, connected, keyframe_requested, recovery_pending>>
        /\ IF IsBarrier(current) THEN sender' = "arm" ELSE sender' = "loop"
    BY <1>7 DEF SenderSendReliable, Finish, controlVars
  <2>2. current \in Barriers <=> IsBarrier(current)
    BY <1>2, <2>1 DEF Barriers
  <2>3. Holds(reliable', Keyframes) <=> Holds(reliable, Keyframes) \/ current \in Keyframes
    BY <1>2, <2>1, HoldsAppend
  <2>4. (Answerable => Answerable') /\ (current \in Barriers => Answerable')
    BY <1>1, <1>4, <2>1, <2>3 DEF Answerable
  <2>5. Encoded'
    BY <1>1, <1>3, <1>4, <2>1 DEF OwnerInv, Encoded
  <2>6. Promised => Promised' \/ current \in Barriers
    BY <1>1, <1>3, <2>1 DEF Promised
  <2> QED
    BY <2>1, <2>2, <2>4, <2>5, <2>6 DEF OwnerInv, Owned, Announced
<1>8. CASE SenderArmBarrier \/ SenderFlush
  <2>1. /\ sender \in {"arm", "flush"} /\ UNCHANGED <<reliable, connected>> /\ sender' \in {"flush", "loop"}
        /\ packets' = packets \/ (packets # <<>> /\ packets' = Tail(packets))
    BY <1>8 DEF SenderArmBarrier, SenderFlush, Finish, laneVars, otherLanes, senderVars
  <2>2. Encoded'
    BY <1>1, <1>3, <1>4, <1>5, <2>1 DEF OwnerInv, Encoded
  <2>3. Answerable' = Answerable
    BY <1>1, <2>1 DEF Answerable
  <2> QED
    BY <2>1, <2>2, <2>3 DEF OwnerInv, Owned, Announced
<1>9. CASE SenderFails \/ SenderJoins
  <2>1. sender' = "done" /\ packets' = packets /\ ~connected'
    BY <1>9 DEF SenderFails, SenderJoins
  <2>2. Encoded'
    BY <1>1, <1>3, <1>4, <2>1 DEF OwnerInv, Encoded
  <2> QED
    BY <2>1, <2>2 DEF OwnerInv, Owned, Announced, SessionEnded
<1>10. CASE SenderDropBehindBarrier \/ SenderDropOversized \/ SenderSendDatagrams
  <2>1. /\ sender = "send" /\ UNCHANGED <<packets, reliable, connected, keyframe_requested, recovery_pending>>
        /\ sender' \in {"loop", "lower", "ack"} /\ ~OnReliableStream
    BY <1>10 DEF SenderDropBehindBarrier, SenderDropOversized, SenderSendDatagrams, Finish, laneVars, controlVars
  <2>2. current \notin Barriers
    BY <1>4, <2>1 DEF OnReliableStream, KeyframesArrive, Keyframes
  <2>3. Encoded'
    BY <1>1, <1>3, <1>4, <2>1 DEF OwnerInv, Encoded
  <2>4. (Promised => Promised') /\ Answerable' = Answerable
    BY <1>1, <1>3, <2>1, <2>2 DEF Promised, Answerable
  <2> QED
    BY <2>1, <2>3, <2>4 DEF OwnerInv, Owned, Announced
<1>11. CASE SenderLoop \/ SenderAcknowledge \/ SenderLowerRate \/ SenderReduceRate \/ SenderDemandKeyframe
  <2>1. /\ UNCHANGED <<packets, reliable, connected>>
        /\ sender' \in {"loop", "join", "recv", "reduce", "demand"}
    BY <1>11 DEF SenderLoop, SenderAcknowledge, SenderLowerRate, SenderReduceRate, SenderDemandKeyframe, Finish, laneVars
  <2>2. Encoded' /\ Answerable' = Answerable
    BY <1>1, <1>3, <1>4, <2>1 DEF OwnerInv, Encoded, Answerable
  <2>3. \/ recovery_pending' = recovery_pending /\ (Promised => Promised')
        \/ ~recovery_pending' \/ Promised'
    <3>1. CASE SenderLoop \/ SenderLowerRate
      BY <1>1, <1>3, <3>1 DEF SenderLoop, SenderLowerRate, Finish, Promised, RaiseBarrier, controlVars
    <3>2. CASE SenderAcknowledge
      BY <3>2 DEF SenderAcknowledge, LowerBarrier
    <3>3. CASE SenderReduceRate
      BY <3>3 DEF SenderReduceRate, LowerBarrier, Promised
    <3>4. CASE SenderDemandKeyframe
      BY <3>4 DEF SenderDemandKeyframe, StoreRequested, Promised
    <3> QED
      BY <1>11, <3>1, <3>2, <3>3, <3>4
  <2> QED
    BY <2>1, <2>2, <2>3 DEF OwnerInv, Owned, Announced
<1> QED
  BY <1>6, <1>7, <1>8, <1>9, <1>10, <1>11 DEF Sender

\* Only an acknowledgement lowers the barrier here, and none is taken while the sender has
\* still to raise it again.
LEMMA ControlOwner ==
  ASSUME KeyframesArrive, TypeInv, OwnerInv, HostController, UNCHANGED <<producerVars, senderVars, viewerVars>>,
         SessionEnded => SessionEnded'
  PROVE  OwnerInv'
<1>1. UNCHANGED <<packets, reliable, connected, producer, force_full_frame, encoder_reference, outgoing, sender, current>>
  BY DEF HostController, ReceiveKeyframeRequest, ControlStoresRequest, ReceiveKeyframeAck, ReceiveRateHint,
     ReceiveClose, ControlFails, ControlCancelled, Receive, laneVars, producerVars, senderVars
<1>2. KeyframeOwed' = KeyframeOwed /\ Encoded'
  BY <1>1 DEF OwnerInv, Encoded, KeyframeOwed
<1>3. control \in Seq(ControlMsg)
  BY DEF TypeInv, TypeOK, LanesTypeOK
<1>4. ASSUME NEW type, Receive(type), type # "KeyframeAck"
      PROVE  Answerable => Answerable'
  <2>1. control # <<>> /\ control' = Tail(control) /\ Head(control).type # "KeyframeAck"
    BY <1>4 DEF Receive
  <2>2. Holds(control, Acks) <=> Holds(control', Acks)
    BY <1>3, <2>1, HoldsTail DEF Acks
  <2> QED
    BY <1>1, <2>2 DEF Answerable
<1>5. CASE ReceiveKeyframeRequest
  <2>1. Answerable => Answerable'
    BY <1>4, <1>5 DEF ReceiveKeyframeRequest
  <2>2. \/ recovery_pending' = recovery_pending /\ (Promised => Promised')
        \/ Promised'
    BY <1>1, <1>2, <1>5 DEF ReceiveKeyframeRequest, Promised, RaiseBarrier, controlVars
  <2> QED
    BY <1>1, <1>2, <2>1, <2>2 DEF OwnerInv, Owned, Announced
<1>6. CASE ControlStoresRequest
  <2>1. Promised' /\ Answerable' = Answerable
    BY <1>1, <1>6 DEF ControlStoresRequest, StoreRequested, Promised, Answerable, laneVars
  <2> QED
    BY <1>1, <1>2, <2>1 DEF OwnerInv, Owned, Announced
<1>7. CASE ReceiveKeyframeAck
  <2>1. sender \notin {"arm", "flush"} /\ ~recovery_pending'
    BY <1>7 DEF ReceiveKeyframeAck, AckIsEarly, KeyframesArrive, LowerBarrier
  <2> QED
    BY <1>1, <1>2, <2>1 DEF OwnerInv, Owned, Announced
<1>8. CASE ReceiveRateHint
  <2>1. Answerable => Answerable'
    BY <1>4, <1>8 DEF ReceiveRateHint
  <2>2. recovery_pending' = recovery_pending /\ (Promised => Promised')
    BY <1>1, <1>2, <1>8 DEF ReceiveRateHint, Promised, UpdateRate
  <2> QED
    BY <1>1, <1>2, <2>1, <2>2 DEF OwnerInv, Owned, Announced
<1>9. CASE ReceiveClose \/ ControlFails
  <2>1. SessionEnded'
    BY <1>9 DEF ReceiveClose, ControlFails, StoreShutdown, SessionEnded
  <2> QED
    BY <1>1, <1>2, <2>1 DEF OwnerInv, Owned, Announced
<1>10. CASE ControlCancelled
  <2>1. ~connected'
    BY <1>1, <1>10 DEF ControlCancelled, OwnerInv
  <2> QED
    BY <1>1, <1>2, <2>1 DEF OwnerInv, Owned, Announced, SessionEnded
<1> QED
  BY <1>5, <1>6, <1>7, <1>8, <1>9, <1>10 DEF HostController

\* A keyframe the viewer takes is not stale, can be decoded, and is acknowledged.
LEMMA ViewerOwner ==
  ASSUME KeyframesArrive, TypeInv, AnchorNeverStale, OwnerInv, ViewerLoop,
         UNCHANGED <<controlVars, producerVars, senderVars, host_control>>, SessionEnded => SessionEnded'
  PROVE  OwnerInv'
<1>1. UNCHANGED <<packets, connected, keyframe_requested, recovery_pending, host_control, producer,
                  force_full_frame, encoder_reference, outgoing, sender, current>>
  BY DEF ViewerLoop, ViewerReceives, Handle, ShowCursor, SkipStale, RejectRegion, ApplyRegion, DropDependent,
     Present, DecodeFails, Take, Arrives, RequestTimer, Watchdog, SendNack, UpgradeRate, CloseWindow,
     ViewerLosesConnection, laneVars, controlVars, producerVars, senderVars
<1>2. KeyframeOwed' = KeyframeOwed /\ Encoded' /\ Promised' = Promised
  BY <1>1 DEF OwnerInv, Encoded, KeyframeOwed, Promised
<1>3. control \in Seq(ControlMsg) /\ reliable \in Seq(MediaMsg)
  BY DEF TypeInv, TypeOK, LanesTypeOK
<1>4. ASSUME NEW r \in Seq(ControlMsg), control' = control \o r
      PROVE  /\ Holds(control, Acks) => Holds(control', Acks)
             /\ Holds(r, Acks) => Holds(control', Acks)
  BY <1>3, <1>4, HoldsConcat
<1>5. Answerable => Answerable'
  <2>1. CASE ViewerReceives
    <3> PICK m \in Arrivals : Handle(m)
      BY <2>1 DEF ViewerReceives
    <3>1. Holds(control, Acks) => Holds(control', Acks)
      <4>1. KeyframeRequest \in ControlMsg /\ KeyframeAck \in ControlMsg
        BY DEF KeyframeRequest, KeyframeAck, ControlMsg
      <4>2. \/ control' = control
            \/ \E r \in {<<>>, <<KeyframeRequest>>, <<KeyframeAck>>} : control' = control \o r
        BY DEF Handle, ShowCursor, SkipStale, RejectRegion, ApplyRegion, DropDependent, DecodeFails, Present,
           AskForKeyframe, Post
      <4> QED
        BY <1>4, <4>1, <4>2, HoldsFew
    <3>2. Arrives(m)
      BY DEF Handle, ShowCursor, SkipStale, RejectRegion, ApplyRegion, DropDependent, Present, DecodeFails, Take
    <3>3. \/ reliable' = reliable
          \/ reliable # <<>> /\ m = Head(reliable) /\ reliable' = Tail(reliable)
      BY <3>2 DEF Arrives
    <3>4. ASSUME reliable # <<>>, m = Head(reliable), m \in Keyframes
          PROVE  Holds(control', Acks)
      <4>1. ~Stale(m) /\ IsVideo(m) /\ m.keyframe
        <5>1. 1 \in 1..Len(reliable) /\ m = reliable[1]
          BY <1>3, <3>4
        <5> QED
          BY <3>4, <5>1 DEF AnchorNeverStale, Keyframes, IsKeyframe, IsVideo
      <4>2. Present(m)
        BY <4>1 DEF Handle, ShowCursor, SkipStale, RejectRegion, ApplyRegion, DropDependent, DecodeFails, Dependent,
           IsVideo, IsRegion, KeyframesArrive
      <4>3. control' = control \o <<KeyframeAck>>
        BY <4>1, <4>2, StreamAssumption DEF Present, Post, KeyframesArrive
      <4>4. KeyframeAck \in ControlMsg /\ KeyframeAck \in Acks
        BY DEF KeyframeAck, ControlMsg, Acks
      <4> QED
        BY <1>4, <4>3, <4>4, HoldsFew
    <3>5. reliable # <<>> => (Holds(reliable, Keyframes) => Head(reliable) \in Keyframes \/ Holds(Tail(reliable), Keyframes))
      BY <1>3, HoldsTail
    <3> QED
      BY <3>1, <3>3, <3>4, <3>5 DEF Answerable
  <2>2. CASE ~ViewerReceives
    <3>1. reliable' = reliable
      BY <2>2 DEF ViewerLoop, RequestTimer, Watchdog, SendNack, UpgradeRate, CloseWindow, ViewerLosesConnection, laneVars
    <3>2. \A type \in {"KeyframeRequest", "MediaNack", "Close"} : [type |-> type] \in ControlMsg
      BY DEF ControlMsg
    <3>3. KeyframeRequest \in ControlMsg
      BY DEF KeyframeRequest, ControlMsg
    <3>4. /\ \A rate \in Rates : RateHint(rate) \in ControlMsg
          /\ Reduce(requested_rate) \in Rates /\ Increase(requested_rate) \in Rates
      BY RateAssumption DEF RateHint, ControlMsg, Rates, Reduce, Increase, TypeInv, TypeOK, ViewerTypeOK
    <3>5. control' = control \/ \E r \in Seq(ControlMsg) : control' = control \o r
      <4>1. CASE RequestTimer \/ ViewerLosesConnection
        BY <4>1 DEF RequestTimer, ViewerLosesConnection, laneVars
      <4>2. CASE Watchdog
        BY <3>3, <3>4, <4>2, HoldsFew DEF Watchdog, Post
      <4>3. CASE UpgradeRate
        BY <3>4, <4>3, HoldsFew DEF UpgradeRate, Post
      <4>4. CASE SendNack \/ CloseWindow
        BY <3>2, <4>4, HoldsFew DEF SendNack, CloseWindow, Post
      <4> QED
        BY <2>2, <4>1, <4>2, <4>3, <4>4 DEF ViewerLoop
    <3> QED
      BY <1>4, <3>1, <3>5 DEF Answerable
  <2> QED
    BY <2>1, <2>2
<1> QED
  BY <1>1, <1>2, <1>5 DEF OwnerInv, Owned, Announced

LEMMA NextOwner ==
  ASSUME KeyframesArrive, TypeInv, AnchorNeverStale, OwnerInv, [Next]_vars
  PROVE  OwnerInv'
<1>1. SessionEnded => SessionEnded'
  BY StaysEnded
<1>2. CASE Producer /\ UNCHANGED <<senderVars, host_control, viewerVars>>
  BY <1>1, <1>2, ProducerOwner
<1>3. CASE Sender /\ UNCHANGED <<producerVars, host_control, viewerVars>>
  BY <1>1, <1>3, SenderOwner
<1>4. CASE HostController /\ UNCHANGED <<producerVars, senderVars, viewerVars>>
  BY <1>1, <1>4, ControlOwner
<1>5. CASE ViewerLoop /\ UNCHANGED <<controlVars, producerVars, senderVars, host_control>>
  BY <1>1, <1>5, ViewerOwner
<1>6. CASE LoseDatagram \/ ConnectionDrops \/ UNCHANGED vars
  <2>1. /\ UNCHANGED <<packets, reliable, control, keyframe_requested, recovery_pending, host_control, producer,
                       force_full_frame, encoder_reference, outgoing, sender, current>>
        /\ connected' = connected \/ ~connected'
    BY <1>6 DEF LoseDatagram, ConnectionDrops, vars, laneVars, controlVars, producerVars, senderVars
  <2>2. KeyframeOwed' = KeyframeOwed
    BY <2>1 DEF KeyframeOwed
  <2>3. Promised' = Promised /\ Answerable' = Answerable /\ Encoded'
    BY <2>1, <2>2 DEF OwnerInv, Encoded, Promised, Answerable
  <2> QED
    BY <1>1, <2>1, <2>3 DEF OwnerInv, Owned, Announced
<1> QED
  BY <1>2, <1>3, <1>4, <1>5, <1>6 DEF Next, Terminated

\* While the recovery barrier is up somebody is going to take it down, unless the encoder
\* skips a keyframe it owes, the viewer cannot decode one, or its acknowledgement is handled
\* before the sender's next statement (main.rs:150-186, 1021-1029, 1383-1390, 2430).
THEOREM BarrierOwned ==
  ASSUME KeyframesArrive
  PROVE  Spec => []BarrierHasOwner
<1>1. Spec => []TypeInv
  BY TypeInvariant
<1>2. Spec => []AnchorNeverStale
  BY NoKeyframeOvertaken
<1>3. Init => OwnerInv
  BY InitOwner
<1>4. TypeInv /\ AnchorNeverStale /\ OwnerInv /\ [Next]_vars => OwnerInv'
  BY NextOwner
<1>5. TypeInv /\ OwnerInv => BarrierHasOwner
  BY OwnedMeans DEF OwnerInv
<1> QED
  BY <1>1, <1>2, <1>3, <1>4, <1>5, PTL DEF Spec

-----------------------------------------------------------------------------
\* Where a recovery is, from the request to the acknowledgement: half made by a task, in the
\* flag, with the producer, in the channel, in the sender's hand, on the stream, answered.
\* A keyframe the encoder has skipped leaves the producer behind the barrier for good.
Stalled    == producer = "pace" /\ encoder_reference = NoReference /\ history # <<>>
AtProducer == producer \in {"store", "mark", "enqueue"} \/ KeyframeOwed \/ Stalled
AtControl  == host_control = "store"
AtSender   == sender \in {"reduce", "demand"} \/ (sender = "send" /\ current \in Barriers)
Asked      == keyframe_requested = TRUE
Queued     == Holds(packets, Barriers)
OnStream   == Holds(reliable, Barriers)
Answered   == Holds(control, Acks)

\* There is one recovery at a time,
Lone ==
  /\ Single(packets, Barriers) /\ Single(reliable, Barriers) /\ Single(control, Acks)
  /\ AtProducer => ~AtControl /\ ~AtSender /\ ~Asked /\ ~Queued /\ ~OnStream /\ ~Answered
  /\ AtControl => ~AtSender /\ ~Asked /\ ~Queued /\ ~OnStream /\ ~Answered
  /\ AtSender => ~Asked /\ ~Queued /\ ~OnStream /\ ~Answered
  /\ Asked => ~Queued /\ ~OnStream /\ ~Answered
  /\ Queued => ~OnStream /\ ~Answered
  /\ OnStream => ~Answered

\* and the barrier is up for it, but for the moment before that of the first keyframe.
Raised ==
  AtProducer \/ AtControl \/ AtSender \/ Asked \/ Queued \/ OnStream \/ Answered =>
    recovery_pending = TRUE \/ producer = "mark"

\* The producer waits while its keyframe is on the way.
Waits ==
  Queued \/ (sender = "send" /\ current \in Barriers) \/ OnStream \/ Answered =>
    producer \in {"pace", "done", "failed"}

\* Until the barrier of the first keyframe is up nothing but cursors is on its way, and
\* nobody asks for anything.
Pictures  == { m \in MediaMsg : IsNumbered(m) }
Asks      == { c \in ControlMsg : c.type \in {"KeyframeRequest", "MediaNack", "KeyframeAck"} }
Unstarted == history = <<>> \/ (producer = "mark" /\ recovery_pending = FALSE)
Quiet ==
  /\ recovery_pending = FALSE /\ keyframe_requested = FALSE /\ host_control # "store"
  /\ sender \notin {"arm", "flush", "lower", "reduce", "demand", "ack"}
  /\ producer \notin {"enqueue", "request", "store"} /\ ~KeyframeOwed
  /\ datagrams = {} /\ incomplete = FALSE
  /\ ~Holds(packets, Pictures) /\ ~Holds(reliable, Pictures) /\ (sender = "send" => current \notin Pictures)
  /\ ~Holds(control, Asks)

\* Every keyframe is a recovery keyframe, made for a request or as the first packet.
Made ==
  /\ \A i \in 1..Len(packets) : packets[i] \in Keyframes => packets[i] \in Barriers
  /\ \A i \in 1..Len(reliable) : reliable[i] \in Keyframes => reliable[i] \in Barriers
  /\ sender = "send" /\ current \in Keyframes => current \in Barriers
  /\ producer \in {"mark", "enqueue"} => outgoing \in Barriers
  /\ sender # "ack"
Encoder ==
  /\ history = <<>> => encoder_reference = NoReference /\ refresh_due = TRUE /\ producer # "mark"
  /\ encoder_reference = NoReference => history = <<>> \/ Stalled \/ KeyframeOwed \/ ProducerEnded
  /\ producer = "take" => force_full_frame = FALSE

OneRecovery == Lone /\ Raised /\ Waits /\ (Unstarted => Quiet) /\ Made /\ Encoder

\* Without changes of the rate nothing but a request and the first packet makes a keyframe.
FixedRate == Hybrid /\ MinRate = MaxRate /\ "NaturalKeyframe" \notin Faults

LEMMA InitOne == Init => OneRecovery
<1> SUFFICES ASSUME Init PROVE OneRecovery
  OBVIOUS
<1> USE DEF Init, ControlInit, LanesInit, ProducerInit, SenderInit, HostControlInit, ViewerInit
<1>1. packets = <<>> /\ reliable = <<>> /\ Len(control) = 1 /\ control[1] = [type |-> "RateHint", rate |-> requested_rate]
  OBVIOUS
<1>2. /\ \A S : ~Holds(packets, S) /\ ~Holds(reliable, S) /\ Single(packets, S) /\ Single(reliable, S)
      /\ ~Holds(control, Asks) /\ ~Holds(control, Acks) /\ Single(control, Acks)
  BY <1>1 DEF Holds, Single, Asks, Acks
<1>3. ~AtProducer /\ ~AtControl /\ ~AtSender /\ ~Asked
  BY DEF AtProducer, KeyframeOwed, Stalled, AtControl, AtSender, Asked
<1>4. Lone /\ Raised /\ Waits
  BY <1>2, <1>3 DEF Lone, Raised, Waits, Queued, OnStream, Answered
<1>5. Unstarted => Quiet
  BY <1>2 DEF Quiet, KeyframeOwed
<1>6. Made /\ Encoder
  BY <1>1 DEF Made, Encoder
<1> QED
  BY <1>4, <1>5, <1>6 DEF OneRecovery

\* What is known before each step.
LEMMA BeforeStep ==
  ASSUME TypeInv, OneRecovery
  PROVE  /\ packets \in Seq(MediaMsg) /\ reliable \in Seq(MediaMsg) /\ control \in Seq(ControlMsg)
         /\ datagrams \subseteq MediaMsg
         /\ sender = "send" => current \in MediaMsg
         /\ Quiet => ~AtControl /\ ~AtSender /\ ~Asked /\ ~Queued /\ ~OnStream /\ ~Answered
<1>1. Barriers \subseteq Pictures /\ Acks \subseteq Asks
  BY DEF Barriers, Pictures, IsBarrier, IsNumbered, Acks, Asks
<1>2. Quiet => ~AtControl /\ ~AtSender /\ ~Asked
  BY <1>1 DEF Quiet, AtControl, AtSender, Asked
<1>3. Quiet => ~Queued /\ ~OnStream /\ ~Answered
  BY <1>1 DEF Quiet, Queued, OnStream, Answered, Holds
<1> QED
  BY <1>2, <1>3 DEF TypeInv, TypeOK, LanesTypeOK, SenderHolds

-----------------------------------------------------------------------------
\* A step that moves no recovery but the producer's own keeps the rest of the invariant.
LEMMA ProducerOne ==
  ASSUME FixedRate, TypeInv, OneRecovery, Producer, UNCHANGED <<senderVars, host_control, viewerVars>>
  PROVE  OneRecovery'
<1>1. UNCHANGED <<reliable, datagrams, control, sender, current, host_control, incomplete>>
  BY ProducerLanes DEF Producer, ProducerRuns, ProducerBeginRound, ProducerStops, ProducerSendCursor,
     ProducerLoadSettings, ProducerTakeRequest, ProducerSendRegion, ProducerSkipUnchanged, ProducerEncode,
     ProducerEncodeSkipped, ProducerRequestKeyframe, ProducerStoreRequest, ProducerMarkBarrier,
     ProducerEnqueueBarrier, ProducerPace, ProducerRepeatFrame, ProducerStopsCapturing, ProducerCapture,
     ProducerFails, RefreshTimer, laneVars, otherLanes, senderVars, viewerVars
<1>2. /\ AtControl' = AtControl /\ AtSender' = AtSender /\ OnStream' = OnStream /\ Answered' = Answered
      /\ Single(reliable', Barriers) /\ Single(control', Acks)
  BY <1>1 DEF AtControl, AtSender, OnStream, Answered, OneRecovery, Lone
<1>3. /\ packets \in Seq(MediaMsg)
      /\ Quiet => ~AtControl /\ ~AtSender /\ ~Asked /\ ~Queued /\ ~OnStream /\ ~Answered
  BY BeforeStep
<1>4. Lone /\ Raised /\ Waits /\ (Unstarted => Quiet) /\ Made /\ Encoder
  BY DEF OneRecovery
<1>5. recovery_pending \in BOOLEAN /\ keyframe_requested \in BOOLEAN /\ force_full_frame \in BOOLEAN /\ refresh_due \in BOOLEAN
  BY DEF TypeInv, TypeOK, ControlTypeOK, ProducerTypeOK
\* Appending a message that is no keyframe, or nothing.
<1>6. ASSUME NEW m \in MediaMsg, packets' \in {packets, Append(packets, m)}, m \in Keyframes => m \in Barriers
      PROVE  /\ \A i \in 1..Len(packets') : packets'[i] \in Keyframes => packets'[i] \in Barriers
             /\ \A S : Holds(packets', S) => Holds(packets, S) \/ m \in S
             /\ ~(Queued /\ m \in Barriers) => Single(packets', Barriers)
  <2>1. CASE packets' = packets
    BY <1>4, <2>1 DEF Made, Lone
  <2>2. CASE packets' = Append(packets, m)
    <3>1. /\ Len(packets') = Len(packets) + 1 /\ packets'[Len(packets) + 1] = m
          /\ \A i \in 1..Len(packets) : packets'[i] = packets[i]
          /\ Len(packets) \in Nat
      BY <1>3, <2>2
    <3>2. \A i \in 1..Len(packets') : packets'[i] \in Keyframes => packets'[i] \in Barriers
      BY <1>4, <1>6, <3>1 DEF Made
    <3>3. \A S : Holds(packets', S) => Holds(packets, S) \/ m \in S
      BY <1>3, <2>2, HoldsAppend
    <3>4. ~(Queued /\ m \in Barriers) => Single(packets', Barriers)
      BY <1>3, <1>4, <2>2, HoldsAppend DEF Lone, Queued
    <3> QED
      BY <3>2, <3>3, <3>4
  <2> QED
    BY <1>6, <2>1, <2>2
<1>7. \/ sender # "send" \/ current \notin Keyframes \/ current \in Barriers
  BY <1>4 DEF Made
<1>8. CASE ProducerEncode
  <2> PICK key \in KeyframeChoices :
         LET packet == VideoPacket(key) IN
         IF packet.barrier /\ Hybrid
         THEN Goto("mark") /\ outgoing' = packet /\ UNCHANGED packets
         ELSE TrySend(packet) /\ UNCHANGED outgoing
    BY <1>8 DEF ProducerEncode
  <2>1. key \in BOOLEAN /\ (key = TRUE => encoder_reference = NoReference)
    BY DEF KeyframeChoices, FixedRate
  <2> PICK m : m = VideoPacket(key)
    OBVIOUS
  <2>2. m \in MediaMsg /\ IsVideo(m) /\ m.barrier = (key /\ (media_sequence = 0 \/ force_full_frame)) /\ m.keyframe = key
    BY <2>1, Packets, Messages DEF TypeInv, TypeOK, VideoPacket, IsVideo
  <2>3. (m \in Barriers <=> m.barrier) /\ (m \in Keyframes <=> key)
    BY <2>1, <2>2 DEF Barriers, Keyframes, IsBarrier, IsKeyframe, IsVideo
  <2>4. (media_sequence = 0 <=> history = <<>>) /\ media_sequence \in Nat /\ history' # <<>>
    <3>1. history \in Seq(Numbered) /\ history' = Append(history, [frame |-> frame, reference |-> media_sequence])
      BY <1>8 DEF ProducerEncode, TypeInv, TypeOK, ProducerTypeOK
    <3> QED
      BY <3>1 DEF media_sequence
  <2>5. /\ producer = "encode" /\ UNCHANGED <<keyframe_requested, recovery_pending, force_full_frame>>
        /\ encoder_reference' = media_sequence
    BY <1>8 DEF ProducerEncode, controlVars
  <2>6. encoder_reference' # NoReference
    BY <2>4, <2>5 DEF NoReference
  <2>7. key => history = <<>> \/ KeyframeOwed
    BY <1>4, <2>1, <2>5 DEF Encoder, Stalled, ProducerEnded
  <2>8. key => m.barrier
    BY <2>1, <2>2, <2>4, <2>7 DEF KeyframeOwed
  <2>9. ~Queued /\ ~OnStream /\ ~Answered /\ ~(sender = "send" /\ current \in Barriers)
    BY <1>4, <2>5 DEF Waits
  <2>10. CASE m.barrier
    <3>1. producer' = "mark" /\ outgoing' = m /\ packets' = packets
      BY <2>10 DEF Goto, FixedRate
    <3>2. history = <<>> \/ KeyframeOwed
      BY <2>2, <2>4, <2>5, <2>10 DEF KeyframeOwed
    <3>3. ~AtControl /\ ~AtSender /\ ~Asked
      BY <1>3, <1>4, <3>2 DEF Unstarted, Lone, AtProducer
    <3>4. Lone' /\ Raised' /\ Waits'
      BY <1>1, <1>2, <1>4, <2>5, <2>9, <3>1, <3>3 DEF Lone, Raised, Waits, Queued, Asked
    <3>5. Unstarted' => Quiet'
      <4>1. Unstarted' => history = <<>>
        BY <1>4, <2>4, <2>5, <3>1, <3>2 DEF Unstarted, Raised, AtProducer
      <4>2. Quiet => Quiet'
        BY <1>1, <2>5, <3>1 DEF Quiet, KeyframeOwed
      <4> QED
        BY <1>4, <4>1, <4>2 DEF Unstarted
    <3>6. Made' /\ Encoder'
      BY <1>1, <1>4, <2>3, <2>4, <2>6, <2>10, <3>1 DEF Made, Encoder
    <3> QED
      BY <3>4, <3>5, <3>6 DEF OneRecovery
  <2>11. CASE ~m.barrier
    <3>1. producer' \in {"done", "pace", "request"} /\ packets' \in {packets, Append(packets, m)}
      BY <2>11 DEF Goto, TrySend
    <3>2. m \notin Keyframes /\ m \notin Barriers
      BY <2>3, <2>8, <2>11
    <3>3. ~Queued' /\ Single(packets', Barriers)
      BY <1>6, <2>2, <2>9, <3>1, <3>2 DEF Queued
    <3>4. ~AtProducer' /\ Asked' = Asked
      BY <2>5, <2>6, <3>1 DEF AtProducer, Stalled, KeyframeOwed, Asked
    <3>5. Lone' /\ Raised' /\ Waits'
      BY <1>1, <1>2, <1>4, <2>5, <2>9, <3>3, <3>4 DEF Lone, Raised, Waits
    <3>6. ~Unstarted'
      BY <2>4, <3>1 DEF Unstarted
    <3>7. Made' /\ Encoder'
      BY <1>1, <1>4, <1>6, <2>2, <2>4, <2>6, <3>1, <3>2 DEF Made, Encoder
    <3> QED
      BY <3>5, <3>6, <3>7 DEF OneRecovery
  <2> QED
    BY <2>10, <2>11
<1>9. CASE ProducerSendRegion
  <2>1. PICK m \in MediaMsg : packets' \in {packets, Append(packets, m)} /\ ~IsVideo(m)
    <3>1. [type |-> "DesktopUpdate", sequence |-> media_sequence, regions |-> dirty_regions, frame |-> frame] \in MediaMsg
      BY Packets, Messages DEF TypeInv, TypeOK, ProducerTypeOK
    <3> QED
      BY <1>9, <3>1 DEF ProducerSendRegion, TrySend, IsVideo
  <2>2. m \notin Barriers /\ m \notin Keyframes
    BY <2>1 DEF Barriers, IsBarrier, Keyframes, IsKeyframe, IsVideo
  <2>3. /\ producer = "encode" /\ force_full_frame = FALSE /\ refresh_due = FALSE
        /\ producer' \in {"done", "pace", "request"}
        /\ UNCHANGED <<keyframe_requested, recovery_pending, encoder_reference, refresh_due, outgoing>>
    BY <1>5, <1>9 DEF ProducerSendRegion, RegionCandidate, TrySend, Goto, controlVars, encoderVars
  <2>4. history' # <<>>
    BY <1>9 DEF ProducerSendRegion, TypeInv, TypeOK, ProducerTypeOK
  <2>5. encoder_reference # NoReference
    BY <1>4, <2>3 DEF Encoder, Stalled, KeyframeOwed, ProducerEnded
  <2>6. ~Queued /\ ~OnStream /\ ~Answered /\ ~(sender = "send" /\ current \in Barriers)
    BY <1>4, <2>3 DEF Waits
  <2>7. ~Queued' /\ Single(packets', Barriers)
    BY <1>6, <2>1, <2>2, <2>6 DEF Queued
  <2>8. ~AtProducer' /\ Asked' = Asked
    BY <2>3, <2>5 DEF AtProducer, Stalled, KeyframeOwed, Asked
  <2>9. Lone' /\ Raised' /\ Waits'
    BY <1>1, <1>2, <1>4, <2>3, <2>6, <2>7, <2>8 DEF Lone, Raised, Waits
  <2>10. ~Unstarted'
    BY <2>3, <2>4 DEF Unstarted
  <2>11. Made' /\ Encoder'
    BY <1>1, <1>4, <1>6, <2>1, <2>2, <2>3, <2>4, <2>5 DEF Made, Encoder
  <2> QED
    BY <2>9, <2>10, <2>11 DEF OneRecovery
<1>10. CASE ProducerSendCursor
  <2>1. PICK m \in MediaMsg : packets' \in {packets, Append(packets, m)} /\ ~IsNumbered(m)
    <3>1. [type |-> "Cursor", cursor |-> frame_cursor] \in MediaMsg
      BY <1>10, Messages DEF TypeInv, ProducerHolds, ProducerSendCursor
    <3> QED
      BY <1>10, <3>1 DEF ProducerSendCursor, IsNumbered
  <2>2. m \notin Barriers /\ m \notin Keyframes /\ m \notin Pictures
    BY <2>1 DEF Barriers, IsBarrier, Keyframes, IsKeyframe, Pictures, IsNumbered
  <2>3. /\ producer = "cursor" /\ producer' \in {"done", "settings"}
        /\ UNCHANGED <<keyframe_requested, recovery_pending, force_full_frame, encoder_reference, refresh_due, outgoing,
                       history>>
    BY <1>10 DEF ProducerSendCursor, Goto, controlVars, encoderVars
  <2>4. /\ ~Queued /\ ~OnStream /\ ~Answered /\ ~(sender = "send" /\ current \in Barriers)
        /\ ~AtProducer
    BY <1>4, <2>3 DEF Waits, AtProducer, KeyframeOwed, Stalled
  <2>5. ~Queued' /\ Single(packets', Barriers) /\ (Holds(packets', Pictures) => Holds(packets, Pictures))
    BY <1>6, <2>1, <2>2, <2>4 DEF Queued
  <2>6. ~AtProducer' /\ Asked' = Asked
    BY <2>3 DEF AtProducer, Stalled, KeyframeOwed, Asked
  <2>7. Lone' /\ Raised' /\ Waits'
    BY <1>1, <1>2, <1>4, <2>3, <2>4, <2>5, <2>6 DEF Lone, Raised, Waits
  <2>8. Unstarted' => Quiet'
    BY <1>1, <1>4, <2>3, <2>5 DEF Unstarted, Quiet, KeyframeOwed
  <2>9. Made' /\ Encoder'
    BY <1>1, <1>4, <1>6, <2>1, <2>2, <2>3 DEF Made, Encoder, Stalled, KeyframeOwed, ProducerEnded
  <2> QED
    BY <2>7, <2>8, <2>9 DEF OneRecovery
<1>11. CASE ProducerEnqueueBarrier
  <2>1. /\ producer = "enqueue" /\ outgoing \in MediaMsg /\ outgoing \in Barriers
        /\ UNCHANGED <<keyframe_requested, force_full_frame, encoder_reference, refresh_due, history>>
        /\ \/ producer' = "done" /\ packets' = packets /\ recovery_pending' = FALSE
           \/ producer' = "pace" /\ packets' = Append(packets, outgoing) /\ recovery_pending' = recovery_pending
    BY <1>4, <1>11 DEF ProducerEnqueueBarrier, Goto, LowerBarrier, Made, controlVars, Barriers, encoderVars
  <2>2. AtProducer /\ ~Unstarted
    BY <1>4, <2>1 DEF AtProducer, Quiet
  <2>3. recovery_pending = TRUE /\ ~AtControl /\ ~AtSender /\ ~Asked /\ ~Queued /\ ~OnStream /\ ~Answered
    BY <1>4, <2>1, <2>2 DEF Raised, Lone
  <2>4. encoder_reference # NoReference
    BY <1>4, <2>1, <2>2 DEF Encoder, Stalled, KeyframeOwed, ProducerEnded, Unstarted
  <2>5. ~AtProducer' /\ Asked' = Asked
    BY <2>1, <2>4 DEF AtProducer, Stalled, KeyframeOwed, Asked
  <2>6. Single(packets', Barriers) /\ (packets' = packets => ~Queued')
    BY <1>6, <2>1, <2>3 DEF Queued
  <2>7. Lone' /\ Raised' /\ Waits'
    BY <1>1, <1>2, <2>1, <2>3, <2>5, <2>6 DEF Lone, Raised, Waits, AtSender
  <2>8. ~Unstarted'
    BY <2>1, <2>2 DEF Unstarted
  <2>9. Made' /\ Encoder'
    BY <1>1, <1>4, <1>6, <2>1, <2>4 DEF Made, Encoder
  <2> QED
    BY <2>7, <2>8, <2>9 DEF OneRecovery
\* The remaining steps leave the channel and the history alone.
<1>12. ASSUME UNCHANGED <<packets, outgoing, history>>,
              producer' \in {"mark", "enqueue"} => producer \in {"mark", "enqueue"},
              Waits', (Unstarted => Quiet)', Encoder', Raised',
              AtProducer' => AtProducer \/ (Asked /\ ~Asked') \/ (recovery_pending = FALSE /\ producer # "mark"),
              Asked' => Asked \/ (AtProducer /\ ~AtProducer')
       PROVE  OneRecovery'
  <2>1. Queued' = Queued /\ Single(packets', Barriers) /\ Made'
    BY <1>1, <1>4, <1>12 DEF Queued, Lone, Made
  <2>2. recovery_pending = FALSE /\ producer # "mark" => ~AtControl /\ ~AtSender /\ ~Asked /\ ~Queued /\ ~OnStream /\ ~Answered
    BY <1>4 DEF Raised
  <2>3. Lone'
    BY <1>2, <1>4, <1>12, <2>1, <2>2 DEF Lone
  <2> QED
    BY <1>12, <2>1, <2>3 DEF OneRecovery
<1>13. CASE ProducerTakeRequest
  <2>1. /\ producer = "take" /\ producer' = "encode" /\ keyframe_requested' = FALSE /\ force_full_frame = FALSE
        /\ force_full_frame' = keyframe_requested
        /\ encoder_reference' = IF keyframe_requested THEN NoReference ELSE encoder_reference
        /\ UNCHANGED <<packets, outgoing, history, recovery_pending, refresh_due>>
    BY <1>4, <1>5, <1>13 DEF ProducerTakeRequest, SwapRequested, Goto, laneVars, outputVars, Encoder
  <2>2. ~AtProducer /\ (AtProducer' <=> Asked) /\ ~Asked'
    BY <1>5, <2>1 DEF AtProducer, KeyframeOwed, Stalled, Asked
  <2>3. (KeyframeOwed' <=> Asked) /\ ~KeyframeOwed /\ ~Stalled
    BY <1>5, <2>1 DEF KeyframeOwed, Asked, Stalled
  <2>4. Encoder'
    BY <1>4, <1>5, <2>1, <2>3 DEF Encoder, Asked, ProducerEnded
  <2>5. (Unstarted => Quiet)'
    BY <1>1, <1>4, <2>1, <2>3 DEF Unstarted, Quiet, Asked
  <2>6. Queued' = Queued
    BY <2>1 DEF Queued
  <2>7. Waits' /\ Raised'
    BY <1>1, <1>2, <1>4, <2>1, <2>2, <2>6 DEF Waits, Raised
  <2> QED
    BY <1>12, <2>1, <2>2, <2>4, <2>5, <2>7
<1>14. CASE ProducerLoadSettings
  <2>1. target_rate = current_rate
    BY RateAssumption DEF FixedRate, TypeInv, TypeOK, ControlTypeOK, ProducerTypeOK, Rates
  <2>2. /\ producer = "settings" /\ producer' = "take" /\ force_full_frame' = FALSE
        /\ UNCHANGED <<encoder_reference, packets, outgoing, history, recovery_pending, keyframe_requested, refresh_due>>
    BY <1>14, <2>1 DEF ProducerLoadSettings, Goto, laneVars, outputVars, controlVars
  <2>3. ~AtProducer /\ ~AtProducer' /\ Asked' = Asked /\ Queued' = Queued /\ ~KeyframeOwed /\ ~KeyframeOwed' /\ ~Stalled
    BY <2>2 DEF AtProducer, KeyframeOwed, Stalled, Asked, Queued
  <2>4. Encoder' /\ (Unstarted => Quiet)'
    BY <1>1, <1>4, <2>2, <2>3 DEF Encoder, ProducerEnded, Unstarted, Quiet
  <2>5. Waits' /\ Raised'
    BY <1>1, <1>2, <1>4, <2>2, <2>3 DEF Waits, Raised
  <2> QED
    BY <1>12, <2>2, <2>3, <2>4, <2>5
<1>15. CASE ProducerRequestKeyframe
  <2>1. /\ producer = "request" /\ UNCHANGED <<encoder_reference, packets, outgoing, history, keyframe_requested, refresh_due>>
        /\ \/ producer' = "pace" /\ recovery_pending' = recovery_pending
           \/ producer' = "store" /\ recovery_pending = FALSE /\ recovery_pending' = TRUE
    BY <1>5, <1>15 DEF ProducerRequestKeyframe, BarrierFree, RaiseBarrier, Goto, laneVars, outputVars, controlVars, encoderVars
  <2>2. history # <<>> /\ encoder_reference # NoReference
    BY <1>4, <2>1 DEF Unstarted, Quiet, Encoder, Stalled, KeyframeOwed, ProducerEnded
  <2>3. /\ ~AtProducer /\ (AtProducer' => producer' = "store") /\ Asked' = Asked /\ Queued' = Queued
    BY <2>1, <2>2 DEF AtProducer, KeyframeOwed, Stalled, Asked, Queued
  <2>4. Encoder' /\ ~Unstarted'
    BY <2>1, <2>2 DEF Encoder, Unstarted
  <2>5. Waits' /\ Raised'
    BY <1>1, <1>2, <1>4, <2>1, <2>3 DEF Waits, Raised
  <2> QED
    BY <1>12, <2>1, <2>3, <2>4, <2>5
<1>16. CASE ProducerStoreRequest
  <2>1. /\ producer = "store" /\ producer' = "pace" /\ keyframe_requested' = TRUE
        /\ UNCHANGED <<encoder_reference, packets, outgoing, history, recovery_pending, refresh_due>>
    BY <1>16 DEF ProducerStoreRequest, StoreRequested, Goto, laneVars, outputVars, encoderVars
  <2>2. history # <<>> /\ encoder_reference # NoReference
    BY <1>4, <2>1 DEF Unstarted, Quiet, Encoder, Stalled, KeyframeOwed, ProducerEnded
  <2>3. AtProducer /\ ~AtProducer' /\ Queued' = Queued
    BY <2>1, <2>2 DEF AtProducer, KeyframeOwed, Stalled, Queued
  <2>4. Encoder' /\ ~Unstarted'
    BY <2>1, <2>2 DEF Encoder, Unstarted
  <2>5. Waits' /\ Raised'
    BY <1>1, <1>2, <1>4, <2>1, <2>3 DEF Waits, Raised
  <2> QED
    BY <1>12, <2>1, <2>3, <2>4, <2>5
<1>17. CASE ProducerMarkBarrier
  <2>1. /\ producer = "mark" /\ producer' = "enqueue" /\ recovery_pending' = TRUE
        /\ UNCHANGED <<encoder_reference, packets, outgoing, history, keyframe_requested, refresh_due>>
    BY <1>17 DEF ProducerMarkBarrier, RaiseBarrier, Goto, laneVars, outputVars, encoderVars
  <2>2. history # <<>> /\ encoder_reference # NoReference
    BY <1>4, <2>1 DEF Encoder, Stalled, KeyframeOwed, ProducerEnded
  <2>3. AtProducer /\ AtProducer' /\ Queued' = Queued /\ Asked' = Asked
    BY <2>1, <2>2 DEF AtProducer, Queued, Asked
  <2>4. Encoder' /\ ~Unstarted'
    BY <2>1, <2>2 DEF Encoder, Unstarted
  <2>5. Waits' /\ Raised'
    BY <1>1, <1>2, <1>4, <2>1, <2>3 DEF Waits, Raised, Lone, AtSender
  <2> QED
    BY <1>12, <2>1, <2>3, <2>4, <2>5
<1>18. CASE RefreshTimer
  <2>1. /\ refresh_due' = TRUE
        /\ UNCHANGED <<producer, encoder_reference, force_full_frame, packets, outgoing, history, keyframe_requested,
                       recovery_pending>>
    BY <1>18 DEF RefreshTimer, laneVars, controlVars, encoderVars
  <2>2. KeyframeOwed' = KeyframeOwed /\ Stalled' = Stalled /\ Queued' = Queued /\ Asked' = Asked
    BY <2>1 DEF KeyframeOwed, Stalled, Queued, Asked
  <2>3. AtProducer' = AtProducer
    BY <2>1, <2>2 DEF AtProducer
  <2>4. Encoder' /\ (Unstarted => Quiet)'
    BY <1>1, <1>4, <2>1, <2>2 DEF Encoder, ProducerEnded, Unstarted, Quiet
  <2>5. Waits' /\ Raised'
    BY <1>1, <1>2, <1>4, <2>1, <2>2, <2>3 DEF Waits, Raised
  <2> QED
    BY <1>12, <2>1, <2>2, <2>3, <2>4, <2>5
<1>19. CASE \/ ProducerBeginRound \/ ProducerStops \/ ProducerSkipUnchanged \/ ProducerEncodeSkipped \/ ProducerPace
            \/ ProducerRepeatFrame \/ ProducerStopsCapturing \/ ProducerCapture
  <2>1. /\ UNCHANGED <<packets, outgoing, history, keyframe_requested, recovery_pending, encoder_reference,
                       force_full_frame, refresh_due>>
        /\ producer \in {"top", "encode", "pace", "capture"}
        /\ producer' \in {"cursor", "settings", "pace", "capture", "top", "done", "failed"}
        /\ producer = "pace" => producer' = "done" \/ ~AtBarrier
        /\ producer' = "pace" => producer = "encode"
    BY <1>19 DEF ProducerBeginRound, ProducerStops, ProducerSkipUnchanged, ProducerEncodeSkipped, ProducerPace,
       ProducerRepeatFrame, ProducerStopsCapturing, ProducerCapture, laneVars, controlVars,
       encoderVars, outputVars, Goto
  <2>2. Queued' = Queued /\ Asked' = Asked /\ ~KeyframeOwed'
    BY <2>1 DEF Queued, Asked, KeyframeOwed
  <2>3. Stalled' => KeyframeOwed
    BY <1>4, <2>1 DEF Stalled, Encoder, ProducerEnded
  <2>4. AtProducer' => AtProducer
    BY <2>1, <2>2, <2>3 DEF AtProducer
\* Neither a keyframe on its way nor a skipped one lets the producer leave the barrier.
  <2>5. ASSUME producer = "pace", recovery_pending = TRUE, ~Asked
        PROVE  producer' = "done"
    BY <1>5, <2>1, <2>5 DEF AtBarrier, FixedRate, Asked
  <2>6. Waits'
    <3> SUFFICES ASSUME Queued \/ (sender = "send" /\ current \in Barriers) \/ OnStream \/ Answered
                 PROVE  producer' \in {"pace", "done", "failed"}
      BY <1>1, <1>2, <2>2 DEF Waits
    <3>1. Queued \/ AtSender \/ OnStream \/ Answered
      BY DEF AtSender
    <3>2. producer = "pace" /\ recovery_pending = TRUE /\ ~Asked
      BY <1>4, <2>1, <3>1 DEF Waits, Lone, Raised
    <3> QED
      BY <2>5, <3>2
  <2>7. Raised'
    BY <1>2, <1>4, <2>1, <2>2, <2>4 DEF Raised
  <2>8. (Unstarted => Quiet)'
    BY <1>1, <1>4, <2>1, <2>2 DEF Unstarted, Quiet
  <2>9. Encoder'
    <3>1. Stalled => Stalled' \/ ProducerEnded'
      <4> SUFFICES ASSUME Stalled PROVE producer' = "done"
        BY DEF ProducerEnded
      <4>1. producer = "pace" /\ AtProducer
        BY DEF Stalled, AtProducer
      <4>2. recovery_pending = TRUE /\ ~Asked
        BY <1>4, <4>1 DEF Raised, Lone
      <4> QED
        BY <2>5, <4>1, <4>2
    <3>2. KeyframeOwed => producer' = "pace"
      BY <1>19 DEF KeyframeOwed, ProducerBeginRound, ProducerStops, ProducerSkipUnchanged, ProducerEncodeSkipped,
         ProducerPace, ProducerRepeatFrame, ProducerStopsCapturing, ProducerCapture, Goto
    <3>3. encoder_reference = NoReference => history = <<>> \/ Stalled' \/ ProducerEnded'
      BY <1>4, <2>1, <3>1, <3>2 DEF Encoder, Stalled, ProducerEnded
    <3> QED
      BY <1>4, <2>1, <3>3 DEF Encoder
  <2> QED
    BY <1>12, <2>1, <2>2, <2>4, <2>6, <2>7, <2>8, <2>9
<1>20. CASE ProducerFails
  <2>1. /\ producer \in {"settings", "take", "encode", "capture"} /\ producer' = "failed"
        /\ UNCHANGED <<packets, outgoing, history, keyframe_requested, recovery_pending, encoder_reference,
                       force_full_frame, refresh_due>>
    BY <1>20 DEF ProducerFails, laneVars, controlVars, encoderVars, outputVars, Goto
  <2>2. Queued' = Queued /\ Asked' = Asked /\ ~KeyframeOwed' /\ ~AtProducer'
    BY <2>1 DEF Queued, Asked, KeyframeOwed, AtProducer, Stalled
  <2>3. Waits' /\ Raised'
    BY <1>2, <1>4, <2>1, <2>2 DEF Waits, Raised
  <2>4. Encoder' /\ (Unstarted => Quiet)'
    BY <1>1, <1>4, <2>1, <2>2 DEF Encoder, ProducerEnded, Unstarted, Quiet
  <2> QED
    BY <1>12, <2>1, <2>2, <2>3, <2>4
<1> QED
  BY <1>8, <1>9, <1>10, <1>11, <1>13, <1>14, <1>15, <1>16, <1>17, <1>18, <1>19, <1>20 DEF Producer, ProducerRuns

\* The sender takes the keyframe from the channel to the stream, or a request of its own to
\* the flag.
LEMMA SenderOne ==
  ASSUME FixedRate, TypeInv, OneRecovery, Sender, UNCHANGED <<producerVars, host_control, viewerVars>>
  PROVE  OneRecovery'
<1>1. UNCHANGED <<control, host_control, incomplete, producer, force_full_frame, encoder_reference, history,
                  refresh_due, outgoing>>
  BY DEF Sender, SenderLoop, SenderReceive, SenderSendReliable, SenderArmBarrier, SenderFlush,
     SenderDropBehindBarrier, SenderDropOversized, SenderSendDatagrams, SenderAcknowledge, SenderLowerRate,
     SenderReduceRate, SenderDemandKeyframe, SenderFails, SenderJoins, laneVars, otherLanes, producerVars, viewerVars
<1>2. KeyframeOwed' = KeyframeOwed /\ Stalled' = Stalled
  BY <1>1 DEF KeyframeOwed, Stalled
<1>3. /\ AtProducer' = AtProducer /\ AtControl' = AtControl /\ Answered' = Answered /\ Single(control', Acks)
      /\ Encoder'
  BY <1>1, <1>2 DEF AtProducer, AtControl, Answered, OneRecovery, Lone, Encoder, ProducerEnded
<1>4. /\ packets \in Seq(MediaMsg) /\ reliable \in Seq(MediaMsg) /\ (sender = "send" => current \in MediaMsg)
      /\ Quiet => ~AtControl /\ ~AtSender /\ ~Asked /\ ~Queued /\ ~OnStream /\ ~Answered
  BY BeforeStep
<1>5. Lone /\ Raised /\ Waits /\ (Unstarted => Quiet) /\ Made /\ sender # "ack"
  BY DEF OneRecovery, Made
<1>6. recovery_pending \in BOOLEAN /\ keyframe_requested \in BOOLEAN
  BY DEF TypeInv, TypeOK, ControlTypeOK
\* The channel loses its head.
<1>7. ASSUME packets # <<>>, packets' = Tail(packets)
      PROVE  /\ \A i \in 1..Len(packets') : packets'[i] \in Keyframes => packets'[i] \in Barriers
             /\ Head(packets) \in Keyframes => Head(packets) \in Barriers
             /\ \A S : /\ Holds(packets', S) => Holds(packets, S)
                       /\ Head(packets) \in S => Holds(packets, S)
             /\ Single(packets', Barriers) /\ ~(Head(packets) \in Barriers /\ Queued')
  <2> PICK q : q = Tail(packets)
    OBVIOUS
  <2>1. /\ Len(q) = Len(packets) - 1 /\ \A i \in 1..Len(q) : q[i] = packets[i + 1]
        /\ Len(packets) \in Nat \ {0} /\ Head(packets) = packets[1]
    BY <1>4, <1>7
  <2>2. /\ \A i \in 1..Len(q) : q[i] \in Keyframes => q[i] \in Barriers
        /\ Head(packets) \in Keyframes => Head(packets) \in Barriers
    BY <1>5, <2>1 DEF Made
  <2>3. \A S : /\ Holds(q, S) => Holds(packets, S)
               /\ Head(packets) \in S => Holds(packets, S)
    BY <1>4, <1>7, HoldsTail
  <2>4. Single(q, Barriers) /\ ~(Head(packets) \in Barriers /\ Holds(q, Barriers))
    BY <1>4, <1>5, <1>7, HoldsTail DEF Lone
  <2> QED
    BY <1>7, <2>2, <2>3, <2>4 DEF Queued
<1>8. CASE SenderReceive
  <2>1. /\ sender = "recv" /\ UNCHANGED <<reliable, datagrams, keyframe_requested, recovery_pending>>
        /\ \/ packets # <<>> /\ packets' = Tail(packets) /\ sender' = "send" /\ current' = Head(packets)
           \/ packets' = packets /\ sender' = "join"
    BY <1>8 DEF SenderReceive, otherLanes, controlVars
  <2>2. ~AtSender /\ Asked' = Asked /\ OnStream' = OnStream /\ Single(reliable', Barriers)
    BY <1>5, <2>1 DEF AtSender, Asked, OnStream, Lone
  <2>3. /\ Single(packets', Barriers) /\ (Queued' => Queued) /\ ~(AtSender' /\ Queued')
        /\ AtSender' => Queued
        /\ (sender' = "send" /\ current' \in Barriers) => Queued
    BY <1>5, <1>7, <2>1 DEF AtSender, Queued, Lone
  <2>4. Lone' /\ Raised' /\ Waits'
    BY <1>1, <1>3, <1>5, <2>1, <2>2, <2>3 DEF Lone, Raised, Waits
  <2>5. (Unstarted => Quiet)'
    <3>1. Unstarted' = Unstarted
      BY <1>1, <2>1 DEF Unstarted
    <3>2. /\ Holds(packets', Pictures) => Holds(packets, Pictures)
          /\ sender' = "send" /\ current' \in Pictures => Holds(packets, Pictures)
      BY <1>7, <2>1
    <3> QED
      BY <1>1, <1>2, <1>5, <2>1, <3>1, <3>2 DEF Quiet
  <2>6. Made'
    BY <1>1, <1>5, <1>7, <2>1 DEF Made
  <2> QED
    BY <1>3, <2>4, <2>5, <2>6 DEF OneRecovery
<1>9. CASE SenderSendReliable
  <2>1. /\ sender = "send" /\ reliable' = Append(reliable, current) /\ OnReliableStream
        /\ UNCHANGED <<packets, datagrams, keyframe_requested, recovery_pending>>
        /\ IF IsBarrier(current) THEN sender' = "arm" ELSE sender' = "loop"
    BY <1>9 DEF SenderSendReliable, Finish, controlVars
  <2>2. current \in MediaMsg /\ (current \in Barriers <=> IsBarrier(current)) /\ (AtSender <=> current \in Barriers)
    BY <1>4, <2>1 DEF Barriers, AtSender
  <2>3. /\ Holds(reliable', Barriers) <=> Holds(reliable, Barriers) \/ current \in Barriers
        /\ Holds(reliable', Pictures) <=> Holds(reliable, Pictures) \/ current \in Pictures
        /\ ~(OnStream /\ current \in Barriers) => Single(reliable', Barriers)
    BY <1>4, <1>5, <2>1, <2>2, HoldsAppend DEF OnStream, Lone
  <2>4. ~AtSender' /\ Asked' = Asked /\ Queued' = Queued /\ (OnStream' <=> OnStream \/ AtSender)
    BY <2>1, <2>2, <2>3 DEF AtSender, Asked, OnStream, Queued
  <2>5. Lone' /\ Raised' /\ Waits'
    BY <1>1, <1>3, <1>5, <2>1, <2>2, <2>3, <2>4 DEF Lone, Raised, Waits
  <2>6. (Unstarted => Quiet)'
    <3>1. Unstarted' = Unstarted
      BY <1>1, <2>1 DEF Unstarted
    <3>2. current \in Barriers => current \in Pictures
      BY DEF Barriers, Pictures, IsBarrier, IsNumbered
    <3> QED
      BY <1>1, <1>2, <1>5, <2>1, <2>2, <2>3, <3>1, <3>2 DEF Quiet
  <2>7. Made'
    <3>1. /\ Len(reliable') = Len(reliable) + 1 /\ reliable'[Len(reliable) + 1] = current
          /\ \A i \in 1..Len(reliable) : reliable'[i] = reliable[i]
          /\ Len(reliable) \in Nat
      BY <1>4, <2>1
    <3>2. \A i \in 1..Len(reliable') : reliable'[i] \in Keyframes => reliable'[i] \in Barriers
      BY <1>5, <2>1, <3>1 DEF Made
    <3> QED
      BY <1>1, <1>5, <2>1, <3>2 DEF Made
  <2> QED
    BY <1>3, <2>5, <2>6, <2>7 DEF OneRecovery
\* The sender drops what it holds, or holds nothing.
<1>10. ASSUME UNCHANGED <<reliable, keyframe_requested>>, sender' \notin {"send", "ack"},
              packets' = packets \/ (packets # <<>> /\ packets' = Tail(packets)),
              ~AtSender' \/ AtSender,
              recovery_pending' = recovery_pending \/ (recovery_pending' = TRUE /\ ~Unstarted),
              Unstarted => datagrams' = datagrams /\ sender' \notin {"arm", "flush", "lower", "reduce", "demand"}
       PROVE  OneRecovery'
  <2>1. /\ Asked' = Asked /\ OnStream' = OnStream /\ (Queued' => Queued) /\ Single(packets', Barriers)
        /\ Single(reliable', Barriers)
    BY <1>5, <1>7, <1>10 DEF Asked, OnStream, Queued, Lone
  <2>2. Lone' /\ Raised' /\ Waits'
    BY <1>1, <1>3, <1>5, <1>10, <2>1 DEF Lone, Raised, Waits
  <2>3. (Unstarted => Quiet)'
    <3>1. Unstarted' => Unstarted /\ (recovery_pending' = recovery_pending \/ history = <<>>)
      BY <1>1, <1>6, <1>10 DEF Unstarted
    <3>2. CASE recovery_pending' = recovery_pending
      <4>1. Holds(packets', Pictures) => Holds(packets, Pictures)
        BY <1>7, <1>10
      <4> QED
        BY <1>1, <1>2, <1>5, <1>10, <3>1, <3>2, <4>1 DEF Quiet
    <3>3. CASE recovery_pending' # recovery_pending
      <4>1. ~Unstarted
        BY <1>10, <3>3
      <4> QED
        BY <3>1, <4>1
    <3> QED
      BY <3>2, <3>3
  <2>4. Made'
    BY <1>1, <1>5, <1>7, <1>10 DEF Made
  <2> QED
    BY <1>3, <2>2, <2>3, <2>4 DEF OneRecovery
<1>12. Unstarted /\ sender = "send" => OnReliableStream
  <2> SUFFICES ASSUME Unstarted, sender = "send" PROVE OnReliableStream
    OBVIOUS
  <2>1. current \in MediaMsg /\ current \notin Pictures
    BY <1>4, <1>5 DEF Quiet
  <2> QED
    BY <2>1 DEF OnReliableStream, Pictures, IsNumbered, MediaMsg, VideoMsg, RegionMsg
<1>13. CASE \/ SenderLoop \/ SenderFlush \/ SenderDropBehindBarrier \/ SenderDropOversized \/ SenderFails \/ SenderJoins
  <2>1. /\ UNCHANGED <<reliable, datagrams, keyframe_requested, recovery_pending>>
        /\ packets' = packets \/ (packets # <<>> /\ packets' = Tail(packets))
        /\ sender' \in {"join", "recv", "loop", "done"} \/ (sender = "flush" /\ sender' = "flush")
           \/ (sender = "send" /\ ~OnReliableStream /\ sender' = "lower")
    BY <1>13 DEF SenderLoop, SenderFlush, SenderDropBehindBarrier, SenderDropOversized, SenderFails, SenderJoins,
       Finish, laneVars, otherLanes, controlVars, senderVars
  <2>2. Unstarted => sender' \notin {"arm", "flush", "lower", "reduce", "demand"}
    BY <1>5, <1>12, <2>1 DEF Quiet
  <2>3. sender' \notin {"send", "ack"} /\ ~AtSender'
    BY <2>1 DEF AtSender
  <2> QED
    BY <1>10, <2>1, <2>2, <2>3
<1>14. CASE SenderArmBarrier
  <2>1. /\ UNCHANGED <<packets, reliable, datagrams, keyframe_requested>> /\ recovery_pending' = TRUE
        /\ sender = "arm" /\ sender' = "flush"
    BY <1>14 DEF SenderArmBarrier, RaiseBarrier, laneVars
  <2>2. ~Unstarted /\ ~AtSender'
    BY <1>5, <2>1 DEF Quiet, AtSender
  <2> QED
    BY <1>10, <2>1, <2>2
<1>15. CASE SenderSendDatagrams
  <2>1. /\ UNCHANGED <<packets, reliable, keyframe_requested, recovery_pending>> /\ sender = "send" /\ ~OnReliableStream
        /\ ~IsKeyframe(current) => sender' = "loop"
    BY <1>15 DEF SenderSendDatagrams, Finish, controlVars
  <2>2. ~Unstarted /\ ~IsKeyframe(current)
    BY <1>12, <2>1 DEF OnReliableStream, FixedRate
  <2>3. ~AtSender' /\ sender' \notin {"send", "ack"}
    BY <2>1, <2>2 DEF AtSender
  <2> QED
    BY <1>10, <2>1, <2>2, <2>3
<1>16. CASE SenderLowerRate
  <2>1. /\ UNCHANGED <<packets, reliable, datagrams, keyframe_requested, current>> \/ recovery_pending = TRUE
        /\ UNCHANGED <<packets, reliable, datagrams, keyframe_requested>> /\ sender = "lower"
        /\ \/ recovery_pending' = recovery_pending /\ sender' = "loop"
           \/ recovery_pending = FALSE /\ recovery_pending' = TRUE /\ sender' = "reduce"
    BY <1>6, <1>16 DEF SenderLowerRate, BarrierFree, RaiseBarrier, Finish, laneVars, controlVars
  <2>2. ~Unstarted
    BY <1>5, <2>1 DEF Quiet
  <2>3. CASE sender' = "loop"
    <3>1. ~AtSender' /\ recovery_pending' = recovery_pending
      BY <2>1, <2>3 DEF AtSender
    <3> QED
      BY <1>10, <2>1, <2>2, <2>3, <3>1
  <2>4. CASE sender' = "reduce"
    <3>1. recovery_pending = FALSE /\ recovery_pending' = TRUE /\ producer # "mark"
      BY <2>1, <2>2, <2>4 DEF Unstarted
    <3>2. ~AtProducer /\ ~AtControl /\ ~Asked /\ ~Queued /\ ~OnStream /\ ~Answered
      BY <1>5, <3>1 DEF Raised
    <3>3. Asked' = Asked /\ Queued' = Queued /\ OnStream' = OnStream
      BY <2>1 DEF Asked, Queued, OnStream
    <3>4. Lone' /\ Raised' /\ Waits'
      BY <1>1, <1>3, <1>5, <2>1, <2>4, <3>1, <3>2, <3>3 DEF Lone, Raised, Waits
    <3>5. ~Unstarted'
      BY <1>1, <2>2, <3>1 DEF Unstarted
    <3>6. Made'
      BY <1>1, <1>5, <2>1, <2>4 DEF Made
    <3> QED
      BY <1>3, <3>4, <3>5, <3>6 DEF OneRecovery
  <2> QED
    BY <2>1, <2>3, <2>4
\* The request that gives the barrier back was the only one.
<1>17. CASE SenderReduceRate \/ SenderDemandKeyframe
  <2>1. /\ UNCHANGED <<packets, reliable, datagrams>> /\ sender \in {"reduce", "demand"}
        /\ \/ recovery_pending' = FALSE /\ sender' = "loop" /\ keyframe_requested' = keyframe_requested
           \/ recovery_pending' = recovery_pending /\ sender' = "demand" /\ keyframe_requested' = keyframe_requested
           \/ recovery_pending' = recovery_pending /\ sender' = "loop" /\ keyframe_requested' = TRUE
    BY <1>17 DEF SenderReduceRate, SenderDemandKeyframe, LowerBarrier, UpdateRate, StoreRequested, Finish, laneVars
  <2>2. AtSender /\ ~AtProducer /\ ~AtControl /\ ~Asked /\ ~Queued /\ ~OnStream /\ ~Answered /\ ~Unstarted
    BY <1>5, <2>1 DEF AtSender, Lone, Quiet
  <2>3. producer # "mark" /\ recovery_pending = TRUE
    BY <1>5, <2>2 DEF Raised, AtProducer
  <2>4. /\ Queued' = Queued /\ OnStream' = OnStream
        /\ (Asked' <=> keyframe_requested' = TRUE) /\ (AtSender' <=> sender' = "demand")
        /\ keyframe_requested = FALSE
    BY <1>6, <2>1, <2>2 DEF Asked, Queued, OnStream, AtSender
  <2>5. Lone' /\ Raised' /\ Waits'
    BY <1>1, <1>3, <1>5, <2>1, <2>2, <2>3, <2>4 DEF Lone, Raised, Waits
  <2>6. ~Unstarted'
    BY <1>1, <2>2, <2>3 DEF Unstarted
  <2>7. Made'
    BY <1>1, <1>5, <2>1 DEF Made
  <2> QED
    BY <1>3, <2>5, <2>6, <2>7 DEF OneRecovery
<1>18. ~SenderAcknowledge
  BY <1>5 DEF SenderAcknowledge
<1> QED
  BY <1>8, <1>9, <1>13, <1>14, <1>15, <1>16, <1>17, <1>18 DEF Sender

\* A request raises the barrier when it is down, and the acknowledgement of the only
\* keyframe lowers it.
LEMMA ControlOne ==
  ASSUME FixedRate, TypeInv, OneRecovery, HostController, UNCHANGED <<producerVars, senderVars, viewerVars>>
  PROVE  OneRecovery'
<1>1. UNCHANGED <<packets, reliable, datagrams, producer, force_full_frame, encoder_reference, history, refresh_due,
                  outgoing, sender, current, incomplete>>
  BY DEF HostController, ReceiveKeyframeRequest, ControlStoresRequest, ReceiveKeyframeAck, ReceiveRateHint,
     ReceiveClose, ControlFails, ControlCancelled, Receive, laneVars, producerVars, senderVars, viewerVars
<1>2. KeyframeOwed' = KeyframeOwed /\ Stalled' = Stalled
  BY <1>1 DEF KeyframeOwed, Stalled
<1>3. /\ AtProducer' = AtProducer /\ AtSender' = AtSender /\ Queued' = Queued /\ OnStream' = OnStream
      /\ Single(packets', Barriers) /\ Single(reliable', Barriers) /\ Made' /\ Encoder'
  BY <1>1, <1>2 DEF OneRecovery, Lone, Made, Encoder, AtProducer, AtSender, Queued, OnStream, ProducerEnded
<1>4. /\ control \in Seq(ControlMsg) /\ Acks \subseteq Asks
      /\ Quiet => ~AtControl /\ ~AtSender /\ ~Asked /\ ~Queued /\ ~OnStream /\ ~Answered
  BY BeforeStep DEF Acks, Asks
<1>5. Lone /\ Raised /\ Waits /\ (Unstarted => Quiet)
  BY DEF OneRecovery
<1>6. ASSUME control # <<>>, control' = Tail(control)
      PROVE  /\ Answered' => Answered
             /\ Single(control', Acks) /\ ~(Head(control) \in Acks /\ Answered')
             /\ Holds(control', Asks) => Holds(control, Asks)
             /\ Head(control) \in Asks => Holds(control, Asks)
             /\ Head(control) \in Acks => Answered
             /\ Head(control) \in ControlMsg
  <2>1. control \in Seq(ControlMsg) /\ control # <<>>
    BY <1>4, <1>6
  <2>2. Head(control) \in ControlMsg
    BY <2>1
  <2>3. PICK q : q = Tail(control)
    OBVIOUS
  <2>4. \A S : Holds(control, S) <=> Head(control) \in S \/ Holds(q, S)
    BY <2>1, <2>3, HoldsTail
  <2>5. Single(q, Acks) /\ ~(Head(control) \in Acks /\ Holds(q, Acks))
    BY <1>5, <2>1, <2>3, HoldsTail DEF Lone
  <2> QED
    BY <1>6, <2>2, <2>3, <2>4, <2>5 DEF Answered
<1>7. ASSUME control' = control \/ (control # <<>> /\ control' = Tail(control)),
             recovery_pending' = recovery_pending, keyframe_requested' = keyframe_requested,
             host_control' = host_control \/ host_control' # "store"
      PROVE  OneRecovery'
  <2>1. /\ Asked' = Asked /\ (Answered' => Answered) /\ (AtControl' => AtControl) /\ Single(control', Acks)
        /\ Unstarted' = Unstarted /\ (Holds(control', Asks) => Holds(control, Asks))
    BY <1>1, <1>5, <1>6, <1>7 DEF Asked, Answered, AtControl, Unstarted, Lone
  <2>2. Lone' /\ Raised' /\ Waits'
    BY <1>1, <1>3, <1>5, <1>7, <2>1 DEF Lone, Raised, Waits
  <2>3. (Unstarted => Quiet)'
    BY <1>1, <1>2, <1>5, <1>7, <2>1 DEF Quiet
  <2> QED
    BY <1>3, <2>2, <2>3 DEF OneRecovery
<1>8. CASE ReceiveKeyframeRequest
  <2>1. /\ control # <<>> /\ control' = Tail(control) /\ keyframe_requested' = keyframe_requested
        /\ Head(control).type \in {"KeyframeRequest", "MediaNack"}
        /\ \/ recovery_pending' = recovery_pending /\ host_control' = host_control
           \/ recovery_pending = FALSE /\ recovery_pending' = TRUE /\ host_control' = "store"
    BY <1>8 DEF ReceiveKeyframeRequest, Receive, BarrierFree, RaiseBarrier, controlVars, TypeInv, TypeOK, ControlTypeOK
  <2>2. ~Unstarted
    BY <1>5, <1>6, <2>1 DEF Asks, Quiet
  <2>3. CASE recovery_pending = FALSE /\ recovery_pending' = TRUE /\ host_control' = "store"
    <3>1. producer # "mark" /\ ~Unstarted'
      BY <1>1, <2>2, <2>3 DEF Unstarted
    <3>2. ~AtProducer /\ ~AtControl /\ ~AtSender /\ ~Asked /\ ~Queued /\ ~OnStream /\ ~Answered
      BY <1>5, <2>3, <3>1 DEF Raised
    <3>3. Asked' = Asked /\ ~Answered' /\ Single(control', Acks)
      BY <1>6, <2>1, <3>2 DEF Asked
    <3>4. Lone' /\ Raised' /\ Waits'
      BY <1>1, <1>3, <1>5, <2>3, <3>2, <3>3 DEF Lone, Raised, Waits
    <3> QED
      BY <1>3, <3>1, <3>4 DEF OneRecovery
  <2> QED
    BY <1>7, <2>1, <2>3
<1>9. CASE ControlStoresRequest
  <2>1. /\ host_control = "store" /\ host_control' = "receive" /\ keyframe_requested' = TRUE
        /\ UNCHANGED <<control, recovery_pending>>
    BY <1>9 DEF ControlStoresRequest, StoreRequested, laneVars
  <2>2. AtControl /\ ~AtControl' /\ Asked' /\ Answered' = Answered /\ ~Unstarted
    <3>1. AtControl /\ ~AtControl' /\ Asked'
      BY <2>1 DEF AtControl, Asked
    <3>2. Answered' = Answered
      BY <2>1 DEF Answered
    <3> QED
      BY <1>4, <1>5, <3>1, <3>2
  <2>3. ~AtSender /\ ~Asked /\ ~Queued /\ ~OnStream /\ ~Answered /\ ~AtProducer
    BY <1>5, <2>2 DEF Lone
  <2>4. ~Unstarted' /\ Single(control', Acks)
    BY <1>1, <1>5, <2>1, <2>2 DEF Unstarted, Lone
  <2>5. Lone' /\ Raised' /\ Waits'
    BY <1>1, <1>3, <1>5, <2>1, <2>2, <2>3, <2>4 DEF Lone, Raised, Waits
  <2> QED
    BY <1>3, <2>4, <2>5 DEF OneRecovery
<1>10. CASE ReceiveKeyframeAck
  <2>1. /\ control # <<>> /\ control' = Tail(control) /\ Head(control).type = "KeyframeAck"
        /\ recovery_pending' = FALSE /\ UNCHANGED <<keyframe_requested, host_control>>
    BY <1>10 DEF ReceiveKeyframeAck, Receive, LowerBarrier
  <2>2. Head(control) \in Acks /\ Head(control) \in Asks
    BY <1>6, <2>1 DEF Acks, Asks
  <2>3. Answered /\ ~Answered' /\ Single(control', Acks) /\ ~Unstarted
    BY <1>5, <1>6, <2>1, <2>2 DEF Quiet
  <2>4. ~AtProducer /\ ~AtControl /\ ~AtSender /\ ~Asked /\ ~Queued /\ ~OnStream
    BY <1>5, <2>3 DEF Lone
  <2>5. ~Unstarted' /\ AtControl' = AtControl /\ Asked' = Asked
    BY <1>1, <2>1, <2>3, <2>4 DEF Unstarted, AtControl, Asked, AtProducer
  <2>6. Lone' /\ Raised' /\ Waits'
    BY <1>1, <1>3, <1>5, <2>3, <2>4, <2>5 DEF Lone, Raised, Waits
  <2> QED
    BY <1>3, <2>3, <2>5, <2>6 DEF OneRecovery
<1>11. CASE ReceiveRateHint \/ ReceiveClose \/ ControlFails \/ ControlCancelled
  <2>1. /\ control' = control \/ (control # <<>> /\ control' = Tail(control))
        /\ recovery_pending' = recovery_pending /\ keyframe_requested' = keyframe_requested
        /\ host_control' = host_control \/ host_control' # "store"
    BY <1>11 DEF ReceiveRateHint, ReceiveClose, ControlFails, ControlCancelled, Receive, UpdateRate, StoreShutdown,
       laneVars, controlVars
  <2> QED
    BY <1>7, <2>1
<1> QED
  BY <1>8, <1>9, <1>10, <1>11 DEF HostController

\* The viewer takes the keyframe from the stream, and answers no other message with an
\* acknowledgement.
LEMMA ViewerOne ==
  ASSUME FixedRate, TypeInv, OrderInv, OneRecovery, ViewerLoop,
         UNCHANGED <<controlVars, producerVars, senderVars, host_control>>
  PROVE  OneRecovery'
<1>1. UNCHANGED <<packets, keyframe_requested, recovery_pending, host_control, producer, force_full_frame,
                  encoder_reference, history, refresh_due, outgoing, sender, current>>
  BY DEF ViewerLoop, ViewerReceives, Handle, ShowCursor, SkipStale, RejectRegion, ApplyRegion, DropDependent,
     Present, DecodeFails, Take, Arrives, RequestTimer, Watchdog, SendNack, UpgradeRate, CloseWindow,
     ViewerLosesConnection, laneVars, controlVars, producerVars, senderVars
<1>2. KeyframeOwed' = KeyframeOwed /\ Stalled' = Stalled /\ Unstarted' = Unstarted
  BY <1>1 DEF KeyframeOwed, Stalled, Unstarted
<1>3. /\ AtProducer' = AtProducer /\ AtControl' = AtControl /\ AtSender' = AtSender /\ Asked' = Asked
      /\ Queued' = Queued /\ Single(packets', Barriers) /\ Encoder'
  BY <1>1, <1>2 DEF OneRecovery, Lone, Encoder, AtProducer, AtControl, AtSender, Asked, Queued, ProducerEnded
<1>4. control \in Seq(ControlMsg) /\ reliable \in Seq(MediaMsg)
  BY BeforeStep
<1>5. Lone /\ Raised /\ Waits /\ (Unstarted => Quiet) /\ Made
  BY DEF OneRecovery
\* What is posted.
<1>6. ASSUME NEW r \in Seq(ControlMsg), control' = control \o r, Single(r, Acks), ~(Answered /\ Holds(r, Acks))
      PROVE  /\ Answered' <=> Answered \/ Holds(r, Acks)
             /\ Single(control', Acks)
             /\ ~Holds(r, Asks) /\ ~Holds(control, Asks) => ~Holds(control', Asks)
  BY <1>4, <1>5, <1>6, HoldsConcat DEF Answered, Lone
<1>7. CASE ViewerReceives
  <2> PICK m \in Arrivals : Handle(m)
    BY <1>7 DEF ViewerReceives
  <2>1. Arrives(m)
    BY DEF Handle, ShowCursor, SkipStale, RejectRegion, ApplyRegion, DropDependent, Present, DecodeFails, Take
  <2>2. \/ control' = control
        \/ control' = control \o <<>>
        \/ control' = control \o <<KeyframeRequest>>
        \/ control' = control \o <<KeyframeAck>> /\ IsKeyframe(m)
    BY DEF Handle, ShowCursor, SkipStale, RejectRegion, ApplyRegion, DropDependent, DecodeFails, Present,
       AskForKeyframe, Post, IsKeyframe, IsVideo
  <2>3. \/ m \in datagrams /\ datagrams' = datagrams \ {m} /\ reliable' = reliable /\ ~IsKeyframe(m)
        \/ /\ reliable # <<>> /\ m = Head(reliable) /\ reliable' = Tail(reliable) /\ datagrams' = datagrams
    BY <2>1 DEF Arrives, OrderInv, StreamRises, FixedRate
  <2>4. ASSUME reliable # <<>>, m = Head(reliable), reliable' = Tail(reliable)
        PROVE  /\ OnStream' => OnStream
               /\ Single(reliable', Barriers)
               /\ IsKeyframe(m) => OnStream /\ ~OnStream'
               /\ Holds(reliable', Pictures) => Holds(reliable, Pictures)
               /\ m \in Pictures => Holds(reliable, Pictures)
               /\ m \in MediaMsg
               /\ \A i \in 1..Len(reliable') : reliable'[i] \in Keyframes => reliable'[i] \in Barriers
    <3>1. m \in MediaMsg /\ m = reliable[1] /\ 1 \in 1..Len(reliable)
      BY <1>4, <2>4
    <3>2. IsKeyframe(m) => m \in Barriers
      BY <1>5, <3>1 DEF Made, Keyframes
    <3>3. \A i \in 1..Len(reliable') : reliable'[i] \in Keyframes => reliable'[i] \in Barriers
      <4> PICK q : q = Tail(reliable)
        OBVIOUS
      <4>1. /\ Len(q) = Len(reliable) - 1 /\ \A i \in 1..Len(q) : q[i] = reliable[i + 1]
            /\ Len(reliable) \in Nat \ {0}
        BY <1>4, <2>4
      <4> QED
        BY <1>5, <2>4, <4>1 DEF Made
    <3>4. /\ Holds(reliable, Barriers) <=> m \in Barriers \/ Holds(reliable', Barriers)
          /\ Single(reliable', Barriers) /\ ~(m \in Barriers /\ Holds(reliable', Barriers))
          /\ Holds(reliable, Pictures) <=> m \in Pictures \/ Holds(reliable', Pictures)
      BY <1>4, <1>5, <2>4, HoldsTail DEF Lone
    <3> QED
      BY <3>1, <3>2, <3>3, <3>4 DEF OnStream
  <2>5. /\ OnStream' => OnStream
        /\ Single(reliable', Barriers) /\ Made'
        /\ IsKeyframe(m) => OnStream /\ ~OnStream'
    BY <1>1, <1>5, <2>3, <2>4 DEF OnStream, Lone, Made
  <2>6. /\ Answered' => Answered \/ IsKeyframe(m)
        /\ Single(control', Acks)
    <3>1. KeyframeRequest \in ControlMsg /\ KeyframeAck \in ControlMsg /\ KeyframeRequest \notin Acks
      BY DEF KeyframeRequest, KeyframeAck, ControlMsg, Acks
    <3>2. CASE control' = control
      BY <1>5, <3>2 DEF Answered, Lone
    <3>3. CASE control' = control \o <<>> \/ control' = control \o <<KeyframeRequest>>
      BY <1>6, <3>1, <3>3, HoldsFew
    <3>4. CASE control' = control \o <<KeyframeAck>> /\ IsKeyframe(m)
      <4>1. ~Answered
        BY <1>5, <2>5, <3>4 DEF Lone
      <4> QED
        BY <1>6, <3>1, <3>4, <4>1, HoldsFew
    <3> QED
      BY <2>2, <3>2, <3>3, <3>4
  <2>7. Lone'
    <3>1. Answered' /\ ~Answered => OnStream /\ ~OnStream'
      BY <2>5, <2>6
    <3> QED
      BY <1>3, <1>5, <2>5, <2>6, <3>1 DEF Lone
  <2>8. Raised' /\ Waits'
    BY <1>1, <1>3, <1>5, <2>5, <2>6 DEF Raised, Waits
  <2>9. (Unstarted => Quiet)'
    <3> SUFFICES ASSUME Unstarted, Quiet PROVE Quiet'
      BY <1>2, <1>5
    <3>1. reliable # <<>> /\ m = Head(reliable) /\ reliable' = Tail(reliable) /\ datagrams' = datagrams
      BY <2>3 DEF Quiet
    <3>2. m.type = "Cursor" /\ ~Holds(reliable', Pictures)
      BY <2>4, <3>1 DEF Quiet, Pictures, IsNumbered
    <3>3. UNCHANGED <<control, incomplete>>
      BY <3>2 DEF Handle, ShowCursor, SkipStale, RejectRegion, ApplyRegion, DropDependent, DecodeFails, Present,
         IsVideo, IsRegion
    <3> QED
      BY <1>1, <1>2, <3>1, <3>2, <3>3 DEF Quiet
  <2> QED
    BY <1>3, <2>5, <2>7, <2>8, <2>9 DEF OneRecovery
<1>8. CASE ~ViewerReceives
  <2>1. UNCHANGED <<reliable, datagrams>>
    BY <1>8 DEF ViewerLoop, RequestTimer, Watchdog, SendNack, UpgradeRate, CloseWindow, ViewerLosesConnection, laneVars
  <2>2. OnStream' = OnStream /\ Single(reliable', Barriers) /\ Made'
    BY <1>1, <1>5, <2>1 DEF OnStream, Lone, Made
  <2>3. \A type \in {"KeyframeRequest", "MediaNack", "Close"} : [type |-> type] \in ControlMsg /\ [type |-> type] \notin Acks
    BY DEF ControlMsg, Acks
  <2>4. KeyframeRequest \in ControlMsg /\ KeyframeRequest \notin Acks
    BY DEF KeyframeRequest, ControlMsg, Acks
  <2>5. /\ \A rate \in Rates : RateHint(rate) \in ControlMsg /\ RateHint(rate) \notin Acks /\ RateHint(rate) \notin Asks
        /\ Reduce(requested_rate) \in Rates /\ Increase(requested_rate) \in Rates
    BY RateAssumption DEF RateHint, ControlMsg, Rates, Reduce, Increase, TypeInv, TypeOK, ViewerTypeOK, Acks, Asks
  <2>6. [type |-> "Close"] \notin Asks
    BY DEF Asks
  <2>7. \/ control' = control
        \/ \E r \in Seq(ControlMsg) : /\ control' = control \o r
                                      /\ Single(r, Acks) /\ ~Holds(r, Acks)
                                      /\ incomplete = FALSE => ~Holds(r, Asks)
    <3>1. CASE RequestTimer \/ ViewerLosesConnection
      BY <3>1 DEF RequestTimer, ViewerLosesConnection, laneVars
    <3>2. CASE Watchdog
      <4>1. incomplete # FALSE /\ control' = control \o <<RateHint(requested_rate'), KeyframeRequest>>
            /\ requested_rate' \in Rates
        BY <2>5, <3>2 DEF Watchdog, Post
      <4>2. RateHint(requested_rate') \in ControlMsg /\ RateHint(requested_rate') \notin Acks
        BY <2>5, <4>1
      <4>3. /\ <<RateHint(requested_rate'), KeyframeRequest>> \in Seq(ControlMsg)
            /\ ~Holds(<<RateHint(requested_rate'), KeyframeRequest>>, Acks)
        BY <2>4, <4>2, HoldsFew
      <4>4. Single(<<RateHint(requested_rate'), KeyframeRequest>>, Acks)
        BY <4>3 DEF Holds, Single
      <4> QED
        BY <4>1, <4>3, <4>4
    <3>3. CASE UpgradeRate
      BY <2>5, <3>3, HoldsFew DEF UpgradeRate, Post
    <3>4. CASE SendNack
      BY <2>3, <3>4, HoldsFew DEF SendNack, Post
    <3>5. CASE CloseWindow
      BY <2>3, <2>6, <3>5, HoldsFew DEF CloseWindow, Post
    <3> QED
      BY <1>8, <3>1, <3>2, <3>3, <3>4, <3>5 DEF ViewerLoop
  <2>8. /\ (Answered' <=> Answered) /\ Single(control', Acks)
        /\ incomplete = FALSE => (Holds(control', Asks) => Holds(control, Asks))
    <3>1. CASE control' = control
      BY <1>5, <3>1 DEF Answered, Lone
    <3>2. CASE control' # control
      <4>1. PICK r \in Seq(ControlMsg) : /\ control' = control \o r
                                         /\ Single(r, Acks) /\ ~Holds(r, Acks)
                                         /\ incomplete = FALSE => ~Holds(r, Asks)
        BY <2>7, <3>2
      <4>2. (Answered' <=> Answered) /\ Single(control', Acks)
        BY <1>6, <4>1
      <4>3. incomplete = FALSE /\ ~Holds(control, Asks) => ~Holds(control', Asks)
        BY <1>6, <4>1
      <4> QED
        BY <4>2, <4>3
    <3> QED
      BY <3>1, <3>2
  <2>9. incomplete' = incomplete \/ incomplete' = FALSE
    BY <1>8 DEF ViewerLoop, RequestTimer, Watchdog, SendNack, UpgradeRate, CloseWindow, ViewerLosesConnection, viewerVars
  <2>10. Lone' /\ Raised' /\ Waits'
    BY <1>1, <1>3, <1>5, <2>2, <2>8 DEF Lone, Raised, Waits
  <2>11. (Unstarted => Quiet)'
    BY <1>1, <1>2, <1>5, <2>1, <2>8, <2>9 DEF Quiet
  <2> QED
    BY <1>3, <2>2, <2>10, <2>11 DEF OneRecovery
<1> QED
  BY <1>7, <1>8

LEMMA NextOne ==
  ASSUME FixedRate, TypeInv, OrderInv, OneRecovery, [Next]_vars
  PROVE  OneRecovery'
<1>1. CASE Producer /\ UNCHANGED <<senderVars, host_control, viewerVars>>
  BY <1>1, ProducerOne
<1>2. CASE Sender /\ UNCHANGED <<producerVars, host_control, viewerVars>>
  BY <1>2, SenderOne
<1>3. CASE HostController /\ UNCHANGED <<producerVars, senderVars, viewerVars>>
  BY <1>3, ControlOne
<1>4. CASE ViewerLoop /\ UNCHANGED <<controlVars, producerVars, senderVars, host_control>>
  BY <1>4, ViewerOne
<1>5. CASE LoseDatagram \/ ConnectionDrops \/ UNCHANGED vars
  <2>1. /\ UNCHANGED <<packets, reliable, control, keyframe_requested, recovery_pending, host_control, producer,
                       force_full_frame, encoder_reference, history, refresh_due, outgoing, sender, current>>
        /\ UNCHANGED <<datagrams, incomplete>> \/ datagrams # {}
    BY <1>5 DEF LoseDatagram, ConnectionDrops, vars, laneVars, controlVars, producerVars, senderVars, viewerVars
  <2>2. KeyframeOwed' = KeyframeOwed /\ Stalled' = Stalled /\ Unstarted' = Unstarted
    BY <2>1 DEF KeyframeOwed, Stalled, Unstarted
  <2>3. /\ AtProducer' = AtProducer /\ AtControl' = AtControl /\ AtSender' = AtSender /\ Asked' = Asked
        /\ Queued' = Queued /\ OnStream' = OnStream /\ Answered' = Answered
    BY <2>1, <2>2 DEF AtProducer, AtControl, AtSender, Asked, Queued, OnStream, Answered
  <2>4. Lone' /\ Raised' /\ Waits'
    BY <2>1, <2>3 DEF OneRecovery, Lone, Raised, Waits
  <2>5. Made' /\ Encoder'
    BY <2>1, <2>2 DEF OneRecovery, Made, Encoder, ProducerEnded
  <2>6. (Unstarted => Quiet)'
    BY <2>1, <2>2 DEF OneRecovery, Quiet
  <2> QED
    BY <2>4, <2>5, <2>6 DEF OneRecovery
<1> QED
  BY <1>1, <1>2, <1>3, <1>4, <1>5 DEF Next, Terminated

\* Between a recovery keyframe and its presentation no other desktop state is numbered,
\* when the rate is fixed and every keyframe is one that was asked for (main.rs:1017-1029).
\* MCRateChange shows that a keyframe forced by a new rate breaks it.
THEOREM BarrierKept ==
  ASSUME FixedRate
  PROVE  Spec => BarrierHolds
<1> DEFINE Step == history' # history /\ ~force_full_frame /\ ~SessionEnded => ~BarrierInFlight
<1>1. Spec => []TypeInv
  BY TypeInvariant
<1>2. Init => OrderInv /\ OneRecovery
  BY InitOrder, InitOne
<1>3. TypeInv /\ OrderInv /\ OneRecovery /\ [Next]_vars => OrderInv' /\ OneRecovery'
  BY NextOrder, NextOne
<1>4. TypeInv /\ OneRecovery /\ [Next]_vars => [Step]_vars
  <2> SUFFICES ASSUME TypeInv, OneRecovery, Next, history' # history
               PROVE  ~BarrierInFlight
    OBVIOUS
  <2>1. producer = "encode"
    <3>1. Producer
      BY DEF Next, Sender, HostController, ViewerLoop, LoseDatagram, ConnectionDrops, Terminated, vars, producerVars
    <3> QED
      BY <3>1 DEF Producer, ProducerRuns, ProducerBeginRound, ProducerStops, ProducerLoadSettings, ProducerTakeRequest,
         ProducerRequestKeyframe, ProducerStoreRequest, ProducerSkipUnchanged, ProducerEncodeSkipped, ProducerEncode,
         ProducerSendRegion, ProducerSendCursor, ProducerMarkBarrier, ProducerEnqueueBarrier, ProducerPace,
         ProducerRepeatFrame, ProducerStopsCapturing, ProducerCapture, ProducerFails, RefreshTimer, encoderVars,
         outputVars
  <2>2. ~Queued /\ ~OnStream /\ ~(sender = "send" /\ current \in Barriers)
    BY <2>1 DEF OneRecovery, Waits
  <2>3. /\ \A i \in 1..Len(packets) : packets[i] \in MediaMsg
        /\ \A i \in 1..Len(reliable) : reliable[i] \in MediaMsg
        /\ sender = "send" => current \in MediaMsg
    BY BeforeStep
  <2> QED
    BY <2>1, <2>2, <2>3 DEF BarrierInFlight, Queued, OnStream, Holds, Barriers
<1> QED
  BY <1>1, <1>2, <1>3, <1>4, PTL DEF Spec, BarrierHolds
=============================================================================
