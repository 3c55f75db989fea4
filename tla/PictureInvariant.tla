--------------------------- MODULE PictureInvariant ---------------------------
(***************************************************************************)
(* Why the window shows the right picture: the invariant that relates every*)
(* message on its way, the producer's base and the decoder to the history. *)
(***************************************************************************)
EXTENDS DesktopStream

FrameIn(h, s)     == h[s + 1].frame
ReferenceIn(h, s) == h[s + 1].reference

\* A video packet stands for its number in history h; an inter frame predicts
\* from the packet that its predecessor leaves the decoder with.
VideoFits(h, m) ==
  /\ m.sequence < Len(h)
  /\ m.frame = FrameIn(h, m.sequence)
  /\ ReferenceIn(h, m.sequence) = m.sequence
  /\ ~m.keyframe => m.sequence > 0 /\ m.reference = ReferenceIn(h, m.sequence - 1)

\* A region update has all the tiles in which its frame differs from the one
\* before, and leaves the decoder alone.
RegionFits(h, m) ==
  /\ m.sequence > 0 /\ m.sequence < Len(h)
  /\ m.frame = FrameIn(h, m.sequence)
  /\ ReferenceIn(h, m.sequence) = ReferenceIn(h, m.sequence - 1)
  /\ \A t \in Tile \ m.regions : FrameIn(h, m.sequence)[t] = FrameIn(h, m.sequence - 1)[t]

Fitting(h) ==
  { m \in MediaMsg : (IsVideo(m) => VideoFits(h, m)) /\ (IsRegion(m) => RegionFits(h, m)) }

MessagesFit ==
  /\ producer \in {"mark", "enqueue"} => outgoing \in Fitting(history)
  /\ packets \in Seq(Fitting(history))
  /\ sender = "send" => current \in Fitting(history)
  /\ reliable \in Seq(Fitting(history))
  /\ datagrams \subseteq Fitting(history)

EncoderFits ==
  /\ encoder_reference \in {NoReference, LastReference}
  /\ ~refresh_due => media_sequence > 0

\* The base of the next comparison is the frame numbered last.
BaseFits ==
  ~FullCanvas =>
    /\ producer \in {"cursor", "settings", "take", "encode"} =>
         /\ previous = frame
         /\ media_sequence > 0 =>
              \A t \in Tile \ dirty_regions : FrameAt(media_sequence - 1)[t] = frame[t]
    /\ media_sequence > 0 /\ producer \in {"top", "request", "store", "mark", "enqueue", "pace", "capture"} =>
         previous = FrameAt(media_sequence - 1)

ViewerFits ==
  /\ last_sequence < media_sequence
  /\ last_sequence = NoSequence => picture = NoPicture
  /\ last_sequence # NoSequence => picture = FrameAt(last_sequence)
  /\ ~waiting_for_keyframe => last_sequence # NoSequence /\ decoder_reference = ReferenceAt(last_sequence)

\* Every message on its way, the producer's base and the viewer's decoder agree
\* with what was captured under each sequence number (main.rs:1035-1218, 2214-2429).
PictureInv == MessagesFit /\ EncoderFits /\ BaseFits /\ ViewerFits
=============================================================================
