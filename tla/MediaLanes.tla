----------------------------- MODULE MediaLanes -----------------------------
(***************************************************************************)
(* What the tasks of a desktop stream exchange: the bounded channel between*)
(* the capture/encode thread and the sender task, the reliable media       *)
(* stream, the QUIC Datagram lane and the control stream of the viewer.    *)
(***************************************************************************)
EXTENDS StreamControl

CONSTANTS
  Tile, Pixel,        \* a frame gives every tile of the desktop a content
  Cursor, NoCursor,   \* pointer states, and a frame without pointer metadata
  NoPicture,          \* placeholder window, or a picture decoded from a wrong reference
  QueueCapacity,      \* packet channel of send_frames_from
  ReliableWindow,     \* messages the reliable stream holds before send() waits
  ControlWindow       \* messages the control stream holds before send() waits

Frame == [Tile -> Pixel]

ASSUME LaneAssumption ==
  /\ QueueCapacity \in Nat \ {0}
  /\ ReliableWindow \in Nat \ {0}
  /\ ControlWindow \in Nat \ {0}
  /\ NoPicture \notin Frame
  /\ NoCursor \notin Cursor

VARIABLES
  packets,            \* packet_tx / packet_rx, first in first out
  packet_rx_open,     \* FALSE once the sender's end was dropped
  reliable,           \* dedicated media stream: keyframes and cursors, in order
  datagrams,          \* complete frames in flight on the Datagram lane, unordered
  control,            \* control stream, viewer to host, in order
  connected           \* the QUIC connection is up

laneVars == <<packets, packet_rx_open, reliable, datagrams, control, connected>>

NoReference == -1     \* the encoder has no reference: its next packet is a keyframe

VideoMsg  == [type: {"Video"}, sequence: Nat, keyframe: BOOLEAN,
              barrier: BOOLEAN, reference: Int, frame: Frame]
RegionMsg == [type: {"DesktopUpdate"}, sequence: Nat, regions: SUBSET Tile, frame: Frame]
CursorMsg == [type: {"Cursor"}, cursor: Cursor]
MediaMsg  == VideoMsg \cup RegionMsg \cup CursorMsg

ControlMsg == [type: {"KeyframeRequest", "KeyframeAck", "MediaNack", "Close"}]
                \cup [type: {"RateHint"}, rate: Rates]

IsKeyframe(m) == m.type = "Video" /\ m.keyframe
IsBarrier(m)  == m.type = "Video" /\ m.barrier

LanesInit(hint) ==
  /\ packets = <<>>
  /\ packet_rx_open = TRUE
  /\ reliable = <<>>
  /\ datagrams = {}
  /\ control = <<[type |-> "RateHint", rate |-> hint]>>
  /\ connected = TRUE

LanesTypeOK ==
  /\ packets \in Seq(MediaMsg) /\ Len(packets) <= QueueCapacity
  /\ packet_rx_open \in BOOLEAN
  /\ reliable \in Seq(MediaMsg)
  /\ datagrams \subseteq MediaMsg
  /\ control \in Seq(ControlMsg)
  /\ connected \in BOOLEAN
=============================================================================
