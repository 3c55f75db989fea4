------------------------------- MODULE Viewer -------------------------------
(***************************************************************************)
(* The loop of run_network_viewer.  The reader tasks and their channels are*)
(* part of the lanes: a message is in its lane until the loop handles it.  *)
(* One action handles one message, with every control message it causes.   *)
(***************************************************************************)
EXTENDS MediaLanes

CONSTANT ViewerHybrid     \* host_hybrid_video as the viewer negotiated it

VARIABLES
  viewer,               \* "open", "closed" (window closed) or "failed"
  last_sequence,        \* of the picture shown, or NoSequence
  waiting_for_keyframe,
  decoder_reference,    \* sequence the decoder predicts from
  picture,              \* content of the window
  shown_cursor,
  may_request,          \* last_keyframe_request is none or a second ago
  incomplete,           \* datagrams arrived since the last complete message
  stable,               \* inter frames without a gap since the last rate change
  requested_rate

viewerVars == <<viewer, last_sequence, waiting_for_keyframe, decoder_reference, picture,
                shown_cursor, may_request, incomplete, stable, requested_rate>>
pictureVars == <<last_sequence, decoder_reference, picture>>

NoSequence == -1

ViewerInit ==
  /\ viewer = "open"
  /\ last_sequence = NoSequence
  /\ waiting_for_keyframe = TRUE
  /\ decoder_reference = NoReference
  /\ picture = NoPicture
  /\ shown_cursor = NoCursor
  /\ may_request = TRUE
  /\ incomplete = FALSE
  /\ stable = FALSE
  /\ requested_rate \in Rates

ViewerTypeOK ==
  /\ viewer \in {"open", "closed", "failed"}
  /\ last_sequence \in Nat \cup {NoSequence}
  /\ waiting_for_keyframe \in BOOLEAN
  /\ decoder_reference \in Nat \cup {NoReference}
  /\ picture \in Frame \cup {NoPicture}
  /\ shown_cursor \in Cursor \cup {NoCursor}
  /\ may_request \in BOOLEAN /\ incomplete \in BOOLEAN /\ stable \in BOOLEAN
  /\ requested_rate \in Rates

-----------------------------------------------------------------------------
Post(messages) ==
  /\ Len(control) + Len(messages) <= ControlWindow
  /\ control' = control \o messages

KeyframeRequest == [type |-> "KeyframeRequest"]
KeyframeAck     == [type |-> "KeyframeAck"]
RateHint(rate)  == [type |-> "RateHint", rate |-> rate]

\* At most one KeyframeRequest a second.
AskForKeyframe ==
  /\ Post(IF may_request THEN <<KeyframeRequest>> ELSE <<>>)
  /\ may_request' = FALSE

\* m is the next message of the reliable stream, or any message of the
\* Datagram lane.
Arrivals == datagrams \cup (IF reliable = <<>> THEN {} ELSE {Head(reliable)})

Arrives(m) ==
  /\ viewer = "open"
  /\ connected
  /\ \/ m \in datagrams /\ datagrams' = datagrams \ {m} /\ UNCHANGED reliable
     \/ reliable # <<>> /\ m = Head(reliable) /\ reliable' = Tail(reliable) /\ UNCHANGED datagrams
  /\ UNCHANGED <<packets, packet_rx_open, connected>>

Take(m) == Arrives(m) /\ UNCHANGED viewer

\* Mutants: an off-by-one in the gap; a gap that only regions care about.
Gap_OffByOne(m) == last_sequence # NoSequence /\ m.sequence > last_sequence + 2
Dependent_NoGap(m) == ~m.keyframe /\ waiting_for_keyframe

Stale(m)     == m.sequence <= last_sequence
Gap(m)       == last_sequence # NoSequence /\ m.sequence > last_sequence + 1
IsVideo(m)   == m.type = "Video"
IsRegion(m)  == m.type = "DesktopUpdate"
\* A video packet the viewer drops until a keyframe arrives.
Dependent(m) == ~m.keyframe /\ (waiting_for_keyframe \/ Gap(m))

-----------------------------------------------------------------------------
ShowCursor(m) ==
  /\ m.type = "Cursor"
  /\ Take(m)
  /\ shown_cursor' = m.cursor
  /\ UNCHANGED <<control, pictureVars, waiting_for_keyframe, may_request, incomplete, stable,
                 requested_rate>>

\* Any complete media message is progress, also one that is too old to show.
SkipStale(m) ==
  /\ m.type # "Cursor"
  /\ Stale(m)
  /\ Take(m)
  /\ incomplete' = FALSE
  /\ UNCHANGED <<control, pictureVars, waiting_for_keyframe, shown_cursor, may_request, stable,
                 requested_rate>>

\* A region update on an incomplete base.
RejectRegion(m) ==
  /\ IsRegion(m)
  /\ ~Stale(m) /\ Gap(m)
  /\ Take(m)
  /\ waiting_for_keyframe' = TRUE
  /\ AskForKeyframe
  /\ incomplete' = FALSE
  /\ stable' = FALSE
  /\ UNCHANGED <<pictureVars, shown_cursor, requested_rate>>

\* Patch the window; without a full frame in it the viewer ends with an error.
ApplyRegion(m) ==
  /\ IsRegion(m)
  /\ ~Stale(m) /\ ~Gap(m)
  /\ Arrives(m)
  /\ viewer' = IF picture = NoPicture THEN "failed" ELSE "open"
  /\ picture' = IF picture = NoPicture THEN NoPicture
                ELSE [t \in Tile |-> IF t \in m.regions THEN m.frame[t] ELSE picture[t]]
  /\ last_sequence' = IF picture = NoPicture THEN last_sequence ELSE m.sequence
  /\ incomplete' = FALSE
  /\ stable' = TRUE
  /\ UNCHANGED <<control, decoder_reference, waiting_for_keyframe, shown_cursor, may_request,
                 requested_rate>>

DropDependent(m) ==
  /\ IsVideo(m)
  /\ ~Stale(m) /\ Dependent(m)
  /\ Take(m)
  /\ waiting_for_keyframe' = TRUE
  /\ AskForKeyframe
  /\ incomplete' = FALSE
  /\ stable' = (stable /\ ~Gap(m))
  /\ UNCHANGED <<pictureVars, shown_cursor, requested_rate>>

\* Mutant: only a keyframe the viewer waited for is acknowledged.
Present_AcknowledgesRecovery(m) ==
  /\ IsVideo(m)
  /\ ~Stale(m) /\ ~Dependent(m)
  /\ Take(m)
  /\ waiting_for_keyframe' = FALSE
  /\ decoder_reference' = m.sequence
  /\ picture' = IF m.keyframe \/ m.reference = decoder_reference THEN m.frame ELSE NoPicture
  /\ last_sequence' = m.sequence
  /\ Post(IF m.keyframe /\ ViewerHybrid /\ waiting_for_keyframe THEN <<KeyframeAck>> ELSE <<>>)
  /\ incomplete' = FALSE
  /\ stable' = ~m.keyframe
  /\ UNCHANGED <<shown_cursor, may_request, requested_rate>>

\* A keyframe, or an inter frame of an unbroken chain.  The decoder is replaced
\* first when the chain was broken.  Keyframes are acknowledged once presented.
Present(m) ==
  /\ IsVideo(m)
  /\ ~Stale(m) /\ ~Dependent(m)
  /\ Take(m)
  /\ waiting_for_keyframe' = FALSE
  /\ decoder_reference' = m.sequence
  /\ picture' = IF m.keyframe \/ m.reference = decoder_reference THEN m.frame ELSE NoPicture
  /\ last_sequence' = m.sequence
  /\ Post(IF m.keyframe /\ ViewerHybrid THEN <<KeyframeAck>> ELSE <<>>)
  /\ incomplete' = FALSE
  /\ stable' = ~m.keyframe
  /\ UNCHANGED <<shown_cursor, may_request, requested_rate>>

\* The decoder of a broken chain has been replaced before it fails.
DecodeFails(m) ==
  /\ IsVideo(m)
  /\ ~Stale(m) /\ ~Dependent(m)
  /\ (IF m.keyframe THEN "KeyDecodeError" ELSE "InterDecodeError") \in Faults
  /\ Take(m)
  /\ waiting_for_keyframe' = TRUE
  /\ AskForKeyframe
  /\ incomplete' = FALSE
  /\ decoder_reference' = IF waiting_for_keyframe \/ Gap(m) THEN NoReference ELSE decoder_reference
  /\ UNCHANGED <<last_sequence, picture, shown_cursor, stable, requested_rate>>

Handle(m) ==
  \/ ShowCursor(m) \/ SkipStale(m) \/ RejectRegion(m) \/ ApplyRegion(m)
  \/ DropDependent(m) \/ Present(m) \/ DecodeFails(m)

ViewerReceives == \E m \in Arrivals : Handle(m)

-----------------------------------------------------------------------------
\* A second has passed since the last KeyframeRequest.
RequestTimer ==
  /\ viewer = "open"
  /\ ~may_request
  /\ may_request' = TRUE
  /\ UNCHANGED <<laneVars, viewer, pictureVars, waiting_for_keyframe, shown_cursor, incomplete, stable,
                 requested_rate>>

\* Two seconds without a complete frame although datagrams arrive.
Watchdog ==
  /\ viewer = "open"
  /\ incomplete
  /\ may_request
  /\ requested_rate' = Reduce(requested_rate)
  /\ Post(<<RateHint(requested_rate'), KeyframeRequest>>)
  /\ may_request' = FALSE
  /\ incomplete' = FALSE
  /\ stable' = FALSE
  /\ UNCHANGED <<packets, packet_rx_open, reliable, datagrams, connected, viewer, pictureVars,
                 waiting_for_keyframe, shown_cursor>>

\* take_nacks: the missing fragments of an incomplete update are asked for.
SendNack ==
  /\ "RetransmitMiss" \in Faults
  /\ viewer = "open"
  /\ incomplete
  /\ Post(<<[type |-> "MediaNack"]>>)
  /\ UNCHANGED <<packets, packet_rx_open, reliable, datagrams, connected, viewerVars>>

UpgradeRate ==
  /\ viewer = "open"
  /\ stable
  /\ requested_rate < MaxRate
  /\ requested_rate' = Increase(requested_rate)
  /\ Post(<<RateHint(requested_rate')>>)
  /\ stable' = FALSE
  /\ UNCHANGED <<packets, packet_rx_open, reliable, datagrams, connected, viewer, pictureVars,
                 waiting_for_keyframe, shown_cursor, may_request, incomplete>>

\* The window is closed: Close is sent and the viewer returns.
CloseWindow ==
  /\ "WindowClosed" \in Faults
  /\ viewer = "open"
  /\ viewer' = "closed"
  /\ Post(<<[type |-> "Close"]>>)
  /\ UNCHANGED <<packets, packet_rx_open, reliable, datagrams, connected, pictureVars,
                 waiting_for_keyframe, shown_cursor, may_request, incomplete, stable, requested_rate>>

ViewerLosesConnection ==
  /\ viewer = "open"
  /\ ~connected
  /\ viewer' = "failed"
  /\ UNCHANGED <<laneVars, pictureVars, waiting_for_keyframe, shown_cursor, may_request, incomplete,
                 stable, requested_rate>>

ViewerLoop ==
  \/ ViewerReceives \/ RequestTimer \/ Watchdog \/ SendNack \/ UpgradeRate \/ CloseWindow
  \/ ViewerLosesConnection
=============================================================================
