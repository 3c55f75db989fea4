---------------------------- MODULE HostProducer ----------------------------
(***************************************************************************)
(* The capture/encode thread of send_frames_from.  One round of its loop:  *)
(*   top -> (cursor) -> settings -> take -> encode -> (request -> store)   *)
(*       or (mark -> enqueue) -> pace -> capture -> top                    *)
(* A step is what the thread does between two accesses to state that the   *)
(* sender task or the control task also touches.                           *)
(***************************************************************************)
EXTENDS MediaLanes

CONSTANTS
  Hybrid,               \* hybrid_video: keyframes travel on the reliable stream
  Optimized,            \* desktop_optimizations: regions and cursors are sent
  FullCanvas,           \* the encoder is AV1 (full_canvas_interframe)
  MaxSequence           \* bound: media messages a behaviour may number

ASSUME FeatureAssumption ==
  /\ Hybrid \in BOOLEAN /\ Optimized \in BOOLEAN /\ FullCanvas \in BOOLEAN
  /\ Optimized => Hybrid
  /\ MaxSequence \in Nat \ {0}

VARIABLES
  producer,      \* where the thread is in its loop
  frame,         \* pending: the captured frame this round handles
  frame_cursor,  \* its pointer metadata
  previous,      \* DirtyRegionDetector.previous, also the data of last_frame
  dirty_regions,
  force_full_frame,
  encoder_reference, \* sequence the encoder predicts from, or NoReference
  current_rate,
  last_cursor,
  refresh_due,   \* last_full_frame_at is FULL_FRAME_REFRESH_INTERVAL ago
  outgoing,      \* the recovery keyframe being queued by a blocking send
  history        \* every message numbered so far: its frame, and the sequence
                 \* of the last video packet up to it (Len = media_sequence)

producerVars == <<producer, frame, frame_cursor, previous, dirty_regions,
                  force_full_frame, encoder_reference, current_rate,
                  last_cursor, refresh_due, outgoing, history>>
sourceVars   == <<frame, frame_cursor>>
detectorVars == <<previous, dirty_regions>>
encoderVars  == <<force_full_frame, encoder_reference, current_rate>>
outputVars   == <<last_cursor, refresh_due, outgoing, history>>
otherLanes   == <<packet_rx_open, reliable, datagrams, control, connected>>

ProducerSteps == { "top", "cursor", "settings", "take", "encode", "request",
                   "store", "mark", "enqueue", "pace", "capture" }
ProducerEnded == producer \in {"done", "failed"}

Numbered       == [frame : Frame, reference : Nat \cup {NoReference}]
media_sequence == Len(history)
FrameAt(s)     == history[s + 1].frame
ReferenceAt(s) == history[s + 1].reference

\* Changed tiles; all of them for the first frame.
Changed(old, new) == { t \in Tile : old = NoPicture \/ old[t] # new[t] }

\* The wait loops before a round and before a capture.
AtBarrier == Hybrid /\ recovery_pending /\ ~keyframe_requested

-----------------------------------------------------------------------------
\* The first capture, before the loop; last_full_frame_at lies one refresh
\* interval in the past.
ProducerInit ==
  /\ producer = "top"
  /\ frame \in Frame
  /\ frame_cursor \in Cursor \cup {NoCursor}
  /\ previous = NoPicture
  /\ dirty_regions = {}
  /\ force_full_frame = FALSE
  /\ encoder_reference = NoReference
  /\ current_rate = target_rate
  /\ last_cursor = NoCursor
  /\ refresh_due = TRUE
  /\ outgoing = NoPicture
  /\ history = <<>>

Goto(step) == producer' = step

\* Wait behind the recovery barrier, then compare the frame with the last one.
ProducerBeginRound ==
  /\ producer = "top"
  /\ ~shutdown
  /\ ~AtBarrier
  /\ dirty_regions' = Changed(previous, frame)
  /\ previous' = frame
  /\ Goto(IF Optimized /\ frame_cursor \notin {NoCursor, last_cursor}
          THEN "cursor" ELSE "settings")
  /\ UNCHANGED <<controlVars, laneVars, sourceVars, encoderVars, outputVars>>

\* shutdown is looked at before a round and while waiting at the barrier.
ProducerStops ==
  /\ shutdown
  /\ producer = "top" \/ (producer = "pace" /\ AtBarrier)
  /\ Goto("done")
  /\ UNCHANGED <<controlVars, laneVars, sourceVars, detectorVars, encoderVars, outputVars>>

\* blocking_send of a changed pointer.
ProducerSendCursor ==
  /\ producer = "cursor"
  /\ \/ /\ ~packet_rx_open
        /\ Goto("done")
        /\ UNCHANGED <<packets, last_cursor>>
     \/ /\ packet_rx_open
        /\ Len(packets) < QueueCapacity
        /\ packets' = Append(packets, [type |-> "Cursor", cursor |-> frame_cursor])
        /\ last_cursor' = frame_cursor
        /\ Goto("settings")
  /\ UNCHANGED <<controlVars, otherLanes, sourceVars, detectorVars, encoderVars, refresh_due, outgoing, history>>

\* A changed target rate replaces the encoder.
ProducerLoadSettings ==
  /\ producer = "settings"
  /\ force_full_frame' = (target_rate # current_rate)
  /\ current_rate' = target_rate
  /\ encoder_reference' = IF force_full_frame' THEN NoReference ELSE encoder_reference
  /\ Goto("take")
  /\ UNCHANGED <<controlVars, laneVars, sourceVars, detectorVars, outputVars>>

\* Mutant: a request found there does not reach the encoder.
ProducerTakeRequest_Ignored ==
  /\ producer = "take"
  /\ SwapRequested
  /\ Goto("encode")
  /\ UNCHANGED <<laneVars, sourceVars, detectorVars, encoderVars, outputVars>>

\* store(false) after a settings change, swap(false) otherwise; a request
\* found there forces an IDR or recreates the encoder.
ProducerTakeRequest ==
  /\ producer = "take"
  /\ SwapRequested
  /\ force_full_frame' = (force_full_frame \/ keyframe_requested)
  /\ encoder_reference' = IF force_full_frame' THEN NoReference ELSE encoder_reference
  /\ Goto("encode")
  /\ UNCHANGED <<laneVars, sourceVars, detectorVars, current_rate, outputVars>>

-----------------------------------------------------------------------------
\* Mutant: a region update needs no full frame before it.
RegionCandidate_NoBase ==
  Optimized /\ ~FullCanvas /\ ~force_full_frame /\ dirty_regions # {}

RegionCandidate ==
  Optimized /\ ~FullCanvas /\ ~force_full_frame /\ dirty_regions # {} /\ ~refresh_due

NothingToSend ==
  dirty_regions = {} /\ ~FullCanvas /\ ~force_full_frame /\ ~refresh_due

\* Mutant: an off-by-one in the capacity of the channel.
TrySend_Overfull(m) ==
  IF ~packet_rx_open THEN Goto("done") /\ UNCHANGED packets
  ELSE IF Len(packets) <= QueueCapacity THEN Goto("pace") /\ packets' = Append(packets, m)
  ELSE Goto("request") /\ UNCHANGED packets

\* try_send: the message is dropped and a keyframe requested when the channel
\* is full, the thread returns when the sender has gone.
TrySend(m) ==
  IF ~packet_rx_open THEN Goto("done") /\ UNCHANGED packets
  ELSE IF Len(packets) < QueueCapacity THEN Goto("pace") /\ packets' = Append(packets, m)
  ELSE Goto("request") /\ UNCHANGED packets

LastReference == IF history = <<>> THEN NoReference ELSE ReferenceAt(media_sequence - 1)

ProducerSendRegion ==
  /\ producer = "encode"
  /\ RegionCandidate
  /\ TrySend([type |-> "DesktopUpdate", sequence |-> media_sequence,
              regions |-> dirty_regions, frame |-> frame])
  /\ history' = Append(history, [frame |-> frame, reference |-> LastReference])
  /\ UNCHANGED <<controlVars, otherLanes, sourceVars, detectorVars, encoderVars, last_cursor, refresh_due, outgoing>>

ProducerSkipUnchanged ==
  /\ producer = "encode"
  /\ NothingToSend
  /\ Goto("pace")
  /\ UNCHANGED <<controlVars, laneVars, sourceVars, detectorVars, encoderVars, outputVars>>

MustEncode ==
  /\ ~NothingToSend
  /\ RegionCandidate => "OversizedRegion" \in Faults

\* The packet takes the next media sequence.  A forced keyframe, and the very
\* first one, is a recovery barrier.
VideoPacket(key) ==
  [type |-> "Video", sequence |-> media_sequence, keyframe |-> key,
   barrier |-> key /\ (media_sequence = 0 \/ force_full_frame),
   reference |-> encoder_reference, frame |-> frame]

KeyframeChoices ==
  IF encoder_reference = NoReference THEN {TRUE}
  ELSE {FALSE} \cup (IF "NaturalKeyframe" \in Faults THEN {TRUE} ELSE {})

ProducerEncode ==
  /\ producer = "encode"
  /\ MustEncode
  /\ \E key \in KeyframeChoices :
       LET packet == VideoPacket(key) IN
       /\ IF packet.barrier /\ Hybrid
          THEN Goto("mark") /\ outgoing' = packet /\ UNCHANGED packets
          ELSE TrySend(packet) /\ UNCHANGED outgoing
       /\ history' = Append(history, [frame |-> frame, reference |-> media_sequence])
  /\ encoder_reference' = media_sequence
  /\ refresh_due' = FALSE
  /\ UNCHANGED <<controlVars, otherLanes, sourceVars, detectorVars, force_full_frame, current_rate, last_cursor>>

\* EncodeOutcome::Skipped: nothing is numbered and nothing is sent.
ProducerEncodeSkipped ==
  /\ producer = "encode"
  /\ MustEncode
  /\ "EncoderSkip" \in Faults
  /\ Goto("pace")
  /\ UNCHANGED <<controlVars, laneVars, sourceVars, detectorVars, encoderVars, outputVars>>

\* request_keyframe after a full channel, its two accesses.
ProducerRequestKeyframe ==
  /\ producer = "request"
  /\ \/ ~BarrierFree /\ Goto("pace") /\ UNCHANGED controlVars
     \/ BarrierFree /\ RaiseBarrier /\ Goto("store")
  /\ UNCHANGED <<laneVars, sourceVars, detectorVars, encoderVars, outputVars>>

ProducerStoreRequest ==
  /\ producer = "store"
  /\ StoreRequested
  /\ Goto("pace")
  /\ UNCHANGED <<laneVars, sourceVars, detectorVars, encoderVars, outputVars>>

\* Mutant: the barrier is left to the sender task.
ProducerMarkBarrier_Late ==
  /\ producer = "mark"
  /\ Goto("enqueue")
  /\ UNCHANGED <<controlVars, laneVars, sourceVars, detectorVars, encoderVars, outputVars>>

\* A recovery keyframe: the barrier is set before the keyframe is queued.
ProducerMarkBarrier ==
  /\ producer = "mark"
  /\ RaiseBarrier
  /\ Goto("enqueue")
  /\ UNCHANGED <<laneVars, sourceVars, detectorVars, encoderVars, outputVars>>

ProducerEnqueueBarrier ==
  /\ producer = "enqueue"
  /\ \/ ~packet_rx_open /\ LowerBarrier /\ Goto("done") /\ UNCHANGED packets
     \/ /\ packet_rx_open
        /\ Len(packets) < QueueCapacity
        /\ packets' = Append(packets, outgoing)
        /\ Goto("pace")
        /\ UNCHANGED controlVars
  /\ outgoing' = NoPicture
  /\ UNCHANGED <<otherLanes, sourceVars, detectorVars, encoderVars, last_cursor, refresh_due, history>>

-----------------------------------------------------------------------------
\* Sleep to the frame interval, then wait behind the barrier again.
ProducerPace ==
  /\ producer = "pace"
  /\ ~AtBarrier
  /\ Goto("capture")
  /\ UNCHANGED <<controlVars, laneVars, sourceVars, detectorVars, encoderVars, outputVars>>

CanNumber == media_sequence < MaxSequence

ProducerCapture ==
  /\ producer = "capture"
  /\ CanNumber
  /\ frame' \in Frame
  /\ frame_cursor' \in Cursor \cup {NoCursor}
  /\ Goto("top")
  /\ UNCHANGED <<controlVars, laneVars, detectorVars, encoderVars, outputVars>>

\* capture() times out on a static desktop: a requested keyframe or a due
\* refresh repeats the last frame, without its pointer metadata.
ProducerRepeatFrame ==
  /\ producer = "capture"
  /\ CanNumber
  /\ ~shutdown
  /\ keyframe_requested \/ (Optimized /\ refresh_due)
  /\ frame' = previous
  /\ frame_cursor' = NoCursor
  /\ Goto("top")
  /\ UNCHANGED <<controlVars, laneVars, detectorVars, encoderVars, outputVars>>

\* The time-out of a capture after shutdown.
ProducerStopsCapturing ==
  /\ producer = "capture"
  /\ shutdown
  /\ Goto("done")
  /\ UNCHANGED <<controlVars, laneVars, sourceVars, detectorVars, encoderVars, outputVars>>

\* An error of the detector, of a new encoder, of the encoding or of the capture ends
\* the thread.
ProducerFails ==
  /\ producer \in {"settings", "take", "encode", "capture"}
  /\ "CaptureError" \in Faults
  /\ Goto("failed")
  /\ UNCHANGED <<controlVars, laneVars, sourceVars, detectorVars, encoderVars, outputVars>>

\* FULL_FRAME_REFRESH_INTERVAL has passed since the last encoded packet.
RefreshTimer ==
  /\ ~refresh_due
  /\ refresh_due' = TRUE
  /\ UNCHANGED <<controlVars, laneVars, producer, sourceVars, detectorVars, encoderVars, last_cursor, outgoing, history>>

\* Steps the thread takes without the desktop changing.
ProducerRuns ==
  \/ ProducerBeginRound \/ ProducerStops \/ ProducerSendCursor \/ ProducerLoadSettings
  \/ ProducerTakeRequest \/ ProducerSendRegion \/ ProducerSkipUnchanged \/ ProducerEncode
  \/ ProducerEncodeSkipped \/ ProducerRequestKeyframe \/ ProducerStoreRequest
  \/ ProducerMarkBarrier \/ ProducerEnqueueBarrier \/ ProducerPace \/ ProducerRepeatFrame
  \/ ProducerStopsCapturing

Producer == ProducerRuns \/ ProducerCapture \/ ProducerFails \/ RefreshTimer

ProducerTypeOK ==
  /\ producer \in ProducerSteps \cup {"done", "failed"}
  /\ frame \in Frame
  /\ frame_cursor \in Cursor \cup {NoCursor}
  /\ previous \in Frame \cup {NoPicture}
  /\ dirty_regions \subseteq Tile
  /\ force_full_frame \in BOOLEAN
  /\ encoder_reference \in Nat \cup {NoReference}
  /\ current_rate \in Rates
  /\ last_cursor \in Cursor \cup {NoCursor}
  /\ refresh_due \in BOOLEAN
  /\ outgoing \in VideoMsg \cup {NoPicture}
  /\ history \in Seq(Numbered)
=============================================================================
