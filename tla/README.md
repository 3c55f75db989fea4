# Direct-Computing in TLA+

A formal model of the Direct-Computing repository: what its tasks share and
send, in which order they may act, and which promises survive every such order.
TLC checks the modules on small instances; TLAPS proves the theorems for every
value of the constants. Line numbers below are those of the sources at this
commit; `main.rs` is `apps/direct-computing/src/main.rs`.

## 1. The system

A *host* captures its desktop, encodes it and sends it over QUIC; a *viewer*
reassembles, decodes and presents it and sends control messages back.

| component | state | operations | talks to |
|---|---|---|---|
| `StreamControl` (main.rs:95-187) | atomics `keyframe_requested`, `recovery_pending` (the recovery *barrier*), `shutdown`, target bitrate and fps | `request_keyframe`, `request_lower_rate_keyframe`, `acknowledge_keyframe`, `update_rate` | shared by the host's three tasks |
| capture/encode thread (main.rs:911-1338) | frame, dirty-region detector, encoder, last cursor, media sequence | one loop: wait at the barrier, detect, send cursor, load settings, take a request, send a region or encode, queue, pace, capture | bounded channel to the sender, `StreamControl` |
| sender task (main.rs:1340-1530) | message in hand, retransmit cache | keyframes and cursors on a reliable stream, the rest as Datagrams; flush behind a recovery keyframe; lower the rate for an oversized frame | channel, QUIC, `StreamControl` |
| control task (main.rs:562-586, 613-711) | none | KeyframeRequest, KeyframeAck, MediaNack, RateHint, Input, Close | control stream, `StreamControl`, cache |
| viewer (main.rs:1810-2573) | last sequence, `waiting_for_keyframe`, decoder, framebuffer, watchdog and rate timers | skip, drop, patch, decode, present, acknowledge; watchdog; rate upgrade; close | reliable stream, Datagrams, control stream |
| datagram reassembly and selective retransmission (`dc-desktop/src/video_datagram.rs`, main.rs:205-338) | partial frames, completed sequences, NACK rounds, cache of sent updates | `push`, `take_nacks`, `expire`; `insert`, `fragments_for` | Datagram lane, control stream |
| region codec (`dc-desktop/src/region.rs`, `dc-ui/src/preview.rs`:196-250) | the frame seen last, the framebuffer | `detect`, `encode_region_update`, `decode_region_payload`, `apply_bgra_regions` | called by the capture thread and the viewer |
| file transfer (`dc-file-transfer/src/lib.rs`) | source, `.part` file, destination, offsets | `send_file`, `receive_file` | one stream |
| session and authentication (`dc-session`, `dc-auth`, main.rs:498-611, 1810-1910) | step of the handshake, features in use, codec, password, certificate | Hello, challenge, proof, capabilities, opening of the lanes, ends | control stream, QUIC |
| transport and pins (`dc-transport`) | pinned certificates in memory and on disk; bytes of a framed stream | `verify_or_record`, `save`, `load`; `send`, `receive` | file system, QUIC |
| wire codec (`dc-protocol/src/lib.rs`, `dc-desktop/src/lib.rs`:10-134) | none | `encode`, `decode`, `packet_to_message`, `message_to_packet` | every stream and Datagram |
| NAL lane (`dc-media/src/h264_nal.rs`, `video_datagram.rs`:60-255, 500-600) | partial frames, sequence completed last | `split_h264_nal_units`, `packetize_h264_nal_message`, `push`, `expire` | Datagram lane |
| input (`preview.rs`:80-163, 323-510, main.rs:2512-2538, `dc-platform/src/windows.rs`:320-638) | last pointer, wheel remainder, keys and buttons held by the injector | `drain_input_events`, `validate_input`, `inject`, `drop` | control stream, Windows |
| rate controller (`dc-desktop/src/lib.rs`:174) | current rate | called by its own test only | - |
| media pipeline (`dc-media`), codecs, capture backends, preview window, command line | platform state | platform I/O | - |

### What is hard

* **Three tasks on four atomics.** Each access is atomic, the functions made of
  several are not: a request raises the barrier and stores the request in two
  steps, the sender raises the barrier once more after its send has returned.
* **Two lanes.** Keyframes and cursors travel in order on a stream, everything
  else as Datagrams that are lost and reordered, so a frame and its reference
  arrive on different roads.
* **A barrier without a time-out.** Capture stops until a keyframe is
  acknowledged. Whatever prevents that acknowledgement stops the stream.
* **State that runs ahead.** The dirty-region detector, the encoder, `last_cursor`
  and the NACK rounds move on before it is known that what they describe was sent.
* **Limits.** A packet channel, a stream window, a cache, a set of partial frames
  and a memory of completed ones, all of which drop or block when full.
* **Ends.** Close, a lost connection, a failed capture or injection, each at any
  step of the other tasks; the process ends only when its capture thread does.
* **Restarts.** A `.part` file outlives the transfer that wrote it, a pin file and its
  `.tmp` the process that saved them, and a second process may save through the same
  two files at any moment.
* **Two ends, written twice.** Builds of different age derive from each other's flags
  what they may send; `encode` and `decode` each list every field and limit; what the
  viewer takes for the picture's last pixel the host must accept.
* **State held elsewhere.** A key the viewer pressed is down in Windows until somebody
  releases it, whichever task, connection or window has gone meanwhile. The viewer's
  window keeps only what its last update saw, and not every update is followed by a drain.

What makes each component correct: the window shows the captured frame of the
sequence it has reached (session); somebody is always going to lower a raised
barrier and the viewer gets a picture again (`StreamControl`, viewer); all tasks
end after any of them does (host); no update is delivered twice and a damaged
one is repaired or replaced (datagrams); the destination is whole and an
interrupted transfer is completed (files); no picture without the password, no
message the other end does not expect, and neither process left waiting for a message (handshake); no
trust the user did not give (pins); the same message at both ends (codec); the host
holds what the user holds, and nothing once the session is over (input). `PROJECT.json` lists the hazards at
their lines, with the properties that cover them.

## 2. Modules

```
StreamControl <- MediaLanes <- HostProducer <- HostSender <- HostControl --+
                     ^----------------- Viewer --------------------------+ |
                                                                         v v
          MCDesktopStream -> PictureInvariant ----------------------> DesktopStream
DesktopStreamProofs -> PictureInvariant

MCFileTransfer, FileTransferProofs -> FileTransfer
RetransmitProofs -> SelectiveRetransmit --implements--> LossyLane
MCRegionUpdate, RegionProofs -> RegionUpdate
MCNalLane, NalProofs -> NalLane --implements--> OrderedLane
MCSession, SessionProofs -> Session -> PinStore
MCWire, WireProofs -> FramedStream -> Wire -> Keyboard <- Input <- MCInput, InputProofs
```
(an arrow reads "extends", or is drawn from the extended module with `<-`)

* **StreamControl** - the atomics. One operator per access, so that a function of
  several accesses becomes several actions of the task that calls it. Bitrate and
  fps move together; they are one level of a rate profile. `Faults` names what the
  environment may do in an instance (losses, codec errors, ends).
* **MediaLanes** - the channel, the reliable stream, the Datagrams and the control
  stream. A message is a video packet, a region update or a cursor. A frame gives
  each tile a content, a video packet names the sequence it is predicted from:
  that is all of a codec that the stream depends on.
* **HostProducer, HostSender, HostControl** - the three tasks. A variable says at
  which step of its loop a task is; a step ends where the task touches state that
  others touch too. Blocking sends are guards, `try_send` is a branch.
* **Viewer** - the loop of `run_network_viewer`: one action per kind of outcome for
  a message, plus timers and ends. The reader tasks and their channels belong to
  the lanes; an inter frame dropped at a full channel is a lost one.
* **DesktopStream** - the composition, what the network does, fairness, and the
  properties. `history` records what was captured under each sequence number; no
  guard reads it except through its length, which is `media_sequence`.
* **PictureInvariant** - the inductive invariant behind the main safety property.
* **SelectiveRetransmit** - fragments, NACKs, the cache and the reassembler, with
  every deadline free to pass at any moment. Its `IsLossyLane` maps it to
  **LossyLane**: some of the updates sent arrive, in any order, none twice. That is
  what `DesktopStream` assumes of `datagrams`.
* **RegionUpdate** - the data behind a patch, which DesktopStream takes as one
  step: tiles, runs of changed tiles, merged rectangles, PackBits and the copy into the
  framebuffer. Updates arrive in order and a frame sent whole is exact, so what is left to
  go wrong is the arithmetic.
* **FileTransfer** - both ends of a transfer over a stream that may break at any
  step, a torn write, an edited source, and attempts with the same transfer id.
  Size and checksum are the content itself: a checksum identifies a content.

* **PinStore** - the pin file, its `.tmp` file and the map in memory; a save is two steps
  and may fail or be cut off at either, within a line too (`Torn`), after which the next
  process cannot load. There is no lock (dc-transport lib.rs:370-434): another viewer of the
  same user may write the `.tmp` file with an older map, or rename it, between any two
  steps (`NeighbourWrites`, `NeighbourRenames`), and the last writer wins. `confirmed` records
  what the user has agreed to, in whichever process.
* **Session** - two processes at a time, each started anew, from the QUIC connection to the
  exchange of media and to the end of both. Either may be an older build; a media message
  is its kind, codec and envelope, as one end chooses and the other must recognise them.
  A host that streams does not end at once: it closes the connection and then waits for its
  capture thread ("stopping"; main.rs:1526, and the runtime's drop behind 602-611).
  `HostThreadEnds` is the end of that wait; nothing makes it happen, for MCCancelled and
  MCClose show threads that never end.
* **NalLane** - NAL units, fragments and the DCVN reassembler, byte sequences included:
  where a NAL unit ends is what the splitter can get wrong. It implements **OrderedLane**:
  some of the frames arrive, each whole and none behind a newer one.
* **Keyboard** - the tables of key codes: window to protocol to scan code.
* **Wire** - one table of fields for `encode` and one for `decode`, as the code has one
  long `match` for each. `Encode` and `Decode` are built from the puts and reads of single
  fields; a read gets an input and a place in it, and leaves a value and the next place.
  `IsMessage` says what a WireMessage of the program can hold. **FramedStream** puts
  messages behind their length on a stream that may break at any byte.
* **Input** - the user, the viewer's window, a turn of the viewer's loop, the control
  stream, and the Windows injector call by call. A turn sends wheel and keys before its
  pointer, and the keys pressed before the keys released: what is reordered against the
  user's hands is in the model, `ClickHasItsModifiers` says what must survive it.
  The window is also updated by every picture, region and cursor that is shown
  (`Presents`; preview.rs:279-283 from main.rs:2207, 2278, 2425), and each `continue` of the
  loop before line 2512 skips the drain: key transitions and wheel steps seen by such an
  update are lost. The host checks a pointer against the screen Windows tells it
  (`Screen`; windows.rs:358-367), the viewer against the pictures (`Desktop`; main.rs:2299),
  which are of the first output of the adapter (main.rs:722): two constants. When the injector is
  dropped its calls may fail like any others (`Dropped`; windows.rs:466, 479).

`MC...` modules only define small sets for a configuration. Operators named
`<Definition>_<What>` are deliberately wrong variants of a definition ("Mutant:"
in their comment); with one in place of the definition the property listed with it
in `PROJECT.json` must fail, which shows that the property says something.

## 3. Runs

| run | asks | bounds |
|---|---|---|
| MCPicture | does the window always show the frame of the sequence it has reached, gaps included; is the proof's invariant true; does a region reach a viewer without a picture; does the barrier hold | two tiles, two contents, 3 sequences, one rate; losses, reordering, oversized regions, decode errors, early acknowledgements, lost connections; tiles are symmetric |
| MCRecovery | has a raised barrier always an owner; is it lowered; is a keyframe ever overtaken; does the viewer get a picture again | one tile, two contents, 3 sequences, two rate levels (the floor and one above), one pointer shape; lost and undecodable inter frames, natural IDRs, oversized frames, rate hints |
| MCLegacy | do all tasks of the host end after the session has | a peer without hybrid video; closed windows, lost connections, failed capture, encoder or input, skipped frames |
| MCTransfer | is the destination whole, is every byte in place, is nothing sent twice; do both calls return, does a later attempt complete the transfer | files of up to 5 bytes, chunks of 2, three attempts, every interruption |
| MCRegions | is the patched framebuffer the captured frame, does the viewer accept every update, is packing lossless | every pair of two-valued frames of 7x1, 1x5, 3x2 and 2x3 pixels, tiles of 1 and 2, two regions, runs of 5 |
| MCRetransmit | is the Datagram lane with retransmission a lossy lane | 3 updates of 2 fragments; cache, window and partial frames of one entry each |
| MCRepair | is a damaged update repaired or replaced | originals may be lost, room for every NACK, no deadline passes |
| MCNal | does the NAL lane deliver whole frames in order; is a complete frame held back | 3 frames of 1 or 2 NAL units and up to 3 fragments, in each of the three encodings; two partial frames; bytes of 4 values |
| MCSession | is a pin ever unconfirmed, media sent to a stranger or in a form the viewer does not know, a process left waiting for a message | two host and two viewer processes, eight builds (this one, older ones and odd ones) against this one, one address; broken links, wrong passwords, another protocol version, no Datagrams, failed and torn saves, a neighbour that saves pins |
| MCWire | do encode and decode agree, is a stream read as it was written, does a packet survive | every message kind, each field through its limits, lists from empty to one too long, every key, every capability; two messages on a stream cut at any byte |
| MCInput | is input accepted, in order and released at the end, is no drained wheel step lost, does the host come to hold what was reported | a 3x2 desktop on a screen of that size, in two windows (bars above, bars beside), pictures shown at any moment, one button, two modifier keys and one without a code, wheel steps of half units, three acts of the user |

Why small bounds suffice: an update depends on its predecessor only, so three
sequences show a base, a patch and a gap; what follows a second recovery needs five,
and is proved instead (section 4). `BarrierHolds` is asked at a fixed rate and without
natural IDRs, where alone it holds (MCRateChange, MCStaleAck); MCPicture's other
properties are proved with natural IDRs, and the run passes with them when
`BarrierHolds` is left out. Queues
of length one make every "full" case happen. With two tiles one can change without
the other, which is what a patch gets wrong. For retransmission the limits are one
while three updates exist, so that every limit is exceeded; what matters of the real
values (8 cached updates, 64 remembered) is that the cache is no longer than the
memory. `Losses` is empty in MCRetransmit since a fragment that never arrives is as
good as lost and safety does not tell them apart. In MCRegions a run limit of 5
instead of 128 and two regions instead of 256 are exceeded by 7 pixels; a tile of 2
has an inner border and can be cut off. Names that bound a behaviour are
`MaxSequence`, `LossHorizon`, `MaxAttempts`, `MaxUpdate`; liveness is asked up to
the point where `MaxSequence` alone has stopped the session (`Exhausted`).

Two processes of each kind show a restart with what the first one left behind. In
MCWire a byte has 64 values, so that a u64 is five of them and TLC's integers hold it; every
limit is scaled to what a list of that length can exceed. In MCInput three acts suffice for
press, resize or move, and release, with the loops of both ends turning in between.

Runs without deadlock checking stop only where a bound on sequences, processes or acts
stops them, or where both ends have ended.
In FileTransfer and at the end of a session an explicit step stands for
termination.

### Disagreements with the documentation

| run | what happens |
|---|---|
| MCUndecodableKeyframe | a recovery keyframe the viewer cannot decode is never replaced: the viewer's one request is coalesced with the barrier that only its acknowledgement lowers, and with capture stopped no Datagram comes that would make the watchdog ask again (main.rs:154, 1021-1029, 2444-2449) |

More were met on the way. The configurations in the first table are kept and can be run
in the same manner; each violates the property named:

| configuration | property | what happens |
|---|---|---|
| MCSkippedKeyframe | BarrierCleared | `encode` answers Skipped after the request was consumed (main.rs:1083, 1156) |
| MCStaleAck | BarrierHolds | the acknowledgement of a natural IDR lowers the barrier of a later recovery keyframe (main.rs:184) |
| MCRateChange | BarrierHolds | a new rate forces a keyframe without a look at the barrier, while the KeyframeRequest that the watchdog sends with it brings a second one; the acknowledgement of the first lowers the barrier of the second, and capture goes on although "Once it has been emitted, do not process another desktop state until the Viewer has decoded and acknowledged it" (main.rs:1017-1020, 1062-1068, 184). Five sequences are needed, three do not show it |
| MCCancelled | HostStops | the connection is lost under a recovery keyframe; the sender ends with an error and its runtime drops the control task before that stores `shutdown`, while the runtime's drop waits for the capture thread at the barrier (main.rs:602-611, 1021) |
| MCClose | HostStops | on Close with a full channel the sender awaits the producer while the producer waits for room in the channel that the sender still owns (main.rs:1526, 1044, 1195) |
| MCSkippedFrame | PictureMatchesSequence | a frame the encoder skips is already the base of the next region: the patch lands on another framebuffer, without a gap in the sequence (main.rs:1035, 1156) |
| MCTornWrite | InterruptedResumes | a `.part` file that ends inside a chunk makes every later attempt fail (dc-file-transfer lib.rs:261, 284) |
| MCNoFirstFrame | NobodyWaitsForAMessage | a desktop that never yields a first frame keeps the host in a loop that does not look at `shutdown` (main.rs:915-935) |
| MCAvcc | SplitIsLossless | the length prefix of an AVCC unit of 256 to 511 bytes reads as a start code (h264_nal.rs:5-11) |
| MCHeldButton | NothingStaysHeld | SendInput fails on a later button of the event that pressed an earlier one: the press was not recorded, so the drop does not release it (windows.rs:386-410); or a call of the drop itself fails, and its error is ignored (466, 479) |
| MCStuckKey | ReleasesArrive | a release that the window's update sees while a picture, region or cursor is shown is forgotten by the next update, before anything was drained: the key stays down on the host (preview.rs:279-283; main.rs:2207, 2278, 2425). The same happens while the placeholder's window gives way to the picture's (preview.rs:502) |

Six more need no configuration of their own, only another property or other constants:

| configuration to change | property | what happens |
|---|---|---|
| MCRecovery, with EarlyAck among its Faults | BarrierHasOwner | the sender stores the barrier after its send; an acknowledgement handled in between is overwritten (main.rs:1388-1392) |
| MCSession, with this as its only property and SPECIFICATION Spec | PinnedReconnects | README.md:41 suggests pinning the fingerprint of the first connection; each start of the host makes a new certificate, so the pin refuses the next host (docs/WINDOWS_MAC_STREAMING_TESTING.md:37-40 says so) |
| MCSession, with this as its only invariant and SPECIFICATION Spec | PinIsDurable | a pin stays in memory after its save has failed (dc-transport lib.rs:407); another process that saves an older map, or renames the shared `.tmp` file away, takes it off the disk (370-434), so that two viewers at a time lose confirmed pins |
| MCRetransmit, with this as its only invariant, MaxUpdate = 0, NackCapacity = 3 and Losses = {0} | AsksAtMostTwice | a frame begun again after it expired starts its two NACK rounds over (video_datagram.rs:400) |
| MCPicture, with this as its only property | GapsAreConcealed | see below |
| MCInput, with Screen <- MCScaled | OwnInputIsAccepted | the host never declares itself aware of DPI, so on a scaled display Windows may tell it a screen smaller than the pictures it captures, as does a primary display smaller than the output captured: the host refuses the viewer's own pointer and its control task ends (windows.rs:358-367; main.rs:722, 2299) |

On a gap the code and its texts say opposite things. The comment at main.rs:2229-2236
("Let the decoder conceal the loss and accept the complete current frame. Request recovery
only if decode actually fails"), docs/WINDOWS_MAC_STREAMING_TESTING.md:240-242 ("an isolated
gap is passed to decoder concealment") and docs/DIRECT_COMPUTING_DEVELOPMENT_PLAN.md:307
promise that a single gap is shown by concealment. The code drops everything behind a gap
until a keyframe and asks for one at once (main.rs:2254-2274 for regions, 2321-2343 for video).
`GapsAreConcealed` states the promise for video, and fails. `PictureMatchesSequence`
states the exactness that the code has instead: with concealment it could not hold, as a
concealed picture need not be the captured one. README.md:64 of the repository ("instead of
applying a patch to an unknown base") asks for it of regions.

### Fairness

`Fairness` of DesktopStream: the thread and the tasks are scheduled (the runtime is
multi-threaded and none of them spins), a message on its way arrives unless it is
lost, timers expire. Nothing obliges the desktop to change, a user to close the
window or a fault to happen; every loss is a choice, and only datagrams below
`LossHorizon` can be lost, for no recovery survives unbounded loss. MCRecovery
leaves out the faults the configurations above show to be fatal, and with `EarlyAck`
absent assumes that a round trip takes longer than two statements of the sender. FileTransfer: both
calls run, a stream is dropped by an end that returned, the caller tries again; the last attempt is neither disconnected nor torn, and
`TransferCompletes` excepts an edited source and a write torn inside a chunk.
PatientSpec of SelectiveRetransmit: the loops of both sides run while no deadline
passes; nothing obliges the host to send another update. Session: the tasks of both
processes run and a capture comes to an end; nobody is obliged to start a process, confirm
a certificate, save or close, and a host that stops is not obliged to end (`HostThreadEnds`).
Input: both loops turn, and what the viewer shows leaves it the time for a full turn with its
drain again and again (the loop reaches line 2512 whenever a message is no update or none is
there); a held key need not repeat, the user need not do anything.

## 4. Proofs

All are checked by TLAPS to the last leaf, from the assumptions on the
constants only (`RateAssumption`, `LaneAssumption`, `TransferAssumption` and their like;
TLC evaluates them in every run).

* **TypeCorrect** (DesktopStreamProofs): `Spec => []TypeOK`. `TypeOK` is not
  inductive: a keyframe being queued must be a video packet at "mark" and "enqueue",
  the detector must have a frame once a round has begun, the sender a message at
  "send". `TypeInv` adds that (`ProducerHolds`, `SenderHolds`).
* **WindowShowsSequence** (DesktopStreamProofs): if the encoder covers the
  full canvas or never skips a frame, `Spec => []PictureMatchesSequence`. The
  property speaks of the window only; `PictureInv` says why it holds: every message
  in a lane, in the channel or in a task's hands fits the history (`MessagesFit`: a
  region update contains every tile in which its frame differs from the one before, an
  inter frame predicts from what its predecessor leaves in the decoder), the encoder
  predicts from the last video packet (`EncoderFits`), the detector's base is the
  frame numbered last (`BaseFits`), and the decoder holds the reference of the
  sequence shown (`ViewerFits`). Numbering another frame changes none of this
  (`FittingGrows`). The assumption `NoSkippedBase` is the one MCSkippedFrame refutes.
  **PictureAgrees** states that invariant itself, `Spec => []PictureInv`.
* **NoKeyframeOvertaken** (DesktopStreamProofs): `Spec => []AnchorNeverStale`.
  `OrderInv`: sequence numbers rise from the picture shown (`Shown`) through what the
  lanes hold (`Settled`), the sender's hand and the channel to the number given next
  (`Rear`); no Datagram has the number of a keyframe on the stream, and an inter frame
  or region is shown only as the successor of the picture shown, so it cannot pass one.
* **RegionsWait** (DesktopStreamProofs): `Spec => []RegionsFollowFirstFrame`.
  `FirstInv`: until the viewer has shown a frame no acknowledgement is on its way,
  nothing is in the Datagram lane, and either the barrier is up or only cursors have
  been queued. Only an acknowledgement would lower the barrier, and behind it the sender
  sends nothing but keyframes and cursors.
* **BarrierOwned** (DesktopStreamProofs): `Spec => []BarrierHasOwner` if
  `KeyframesArrive`: the peers are hybrid, the encoder skips no frame, the viewer can
  decode every keyframe, and no acknowledgement overtakes the sender's next two
  statements. Each of the three faults excluded refutes the property
  (MCSkippedKeyframe, MCUndecodableKeyframe, EarlyAck above). `OwnerInv` follows the
  duty to lower the barrier from hand to hand (`Owned`): the last step may only drop it
  because a keyframe on the stream is never stale, which is **NoKeyframeOvertaken**, and
  because what the sender flushes behind a keyframe follows one that is on its way or
  answered (`Announced`).
* **BarrierKept** (DesktopStreamProofs): `Spec => BarrierHolds` if `FixedRate`:
  hybrid, one rate, no natural IDRs; every other fault may happen, undecodable and
  skipped keyframes and early acknowledgements included. `OneRecovery`: from request to
  acknowledgement a recovery is at one place only (`Lone`), the barrier is up meanwhile
  (`Raised`), and the producer waits while its keyframe is on the way (`Waits`). The
  first keyframe is the exception, made before the barrier is raised: until then nothing
  but cursors is under way and nobody asks (`Quiet`). A keyframe the encoder has skipped
  leaves the producer behind the barrier for good (`Stalled`), which is why a second
  recovery cannot begin there. MCRateChange and MCStaleAck show what the two hypotheses
  exclude.
* **PinsConfirmed** (SessionProofs): `Spec => []PinsAreConfirmed`. Every step leaves the
  pins alone, loses those in memory, loads, checks or saves them, or is a neighbour's
  (`PinStep`); `PinInv` adds that the `.tmp` file, which may replace the pin file whoever
  wrote it, is missing, torn or holds confirmed pins only.
* **MediaAuthenticated**, **NegotiationHolds** (SessionProofs):
  `Spec => []MediaIsAuthenticated` and `Spec => []NothingUnnegotiated`. `SessionInv`
  says what may be on the control stream for every point the viewer has reached, and
  that a right proof is behind everything the host sends after it; what either end
  holds as negotiated is what the two builds have in common (`InUse`), and every
  message of the media lanes is one that this allows.
* **SessionTypes** (SessionProofs): `Spec => []TypeOK`. `TypeOK` bounds the lanes, and
  nothing in it says why they stay short: how many messages the control stream holds
  follows from how far the two ends have come (`InStep`; each waits for the other's
  answer, but for OpenDesktop behind Authenticated and the first RateHint), and a media
  lane holds at most one (`Sparse`). Everything a step reads from a lane is typed by
  `SessionInv`.
* **DeliveryIsWhole** (FileTransferProofs): `Spec => []DestinationIsWhole`, whatever
  the contents, chunk size, interruptions and edits. The invariant `WholeInv` adds
  that the manifest the receiver compares with was offered, which in turn needs that
  nothing precedes an offer on the stream.
* **OffsetsStayInside**, **StoredInOrder**, **ResumesWhereStored** (FileTransferProofs):
  `Spec => []TypeOK`, `[]BytesInPlace` and `[]ResumesAtTheEnd`. `StepInv`: at most one
  message is on the stream, and it fits what both ends hold: the offer, the chunk at
  the receiver's offset taken from some version of the source, or the acknowledgement
  of what is stored. The theorems need that the absent file is no sequence of bytes.

* **LaneTypes**, **NeverTwice** (RetransmitProofs): `Spec => []TypeOK`, and `Spec =>
  IsLossyLane` if `Sized`: the host caches no more updates than the viewer remembers
  completed ones, and answers at most two rounds (the code has 8, 64 and 2). Both parts
  are needed: with three rounds, or a cache of two over a memory of one, TLC finds an
  update delivered twice. A step of the reassembler delivers an update sent or stutters;
  what could go wrong is that it delivers one it has forgotten. The invariant counts, for
  every update, the copies of a fragment that can still come: the one under way, and one
  for each round the cache will still answer. What was handed over is remembered or lies
  `Window` updates behind the latest (`Remembered`), the cache holds the newest
  ones (`CacheIsNewest`), and an update handed over once has a fragment of which no copy
  can come any more (`Scarce`), so that a forgotten update cannot be made whole again.
* **FramesInBounds**, **NothingIsHeldBack**, **WholeAndInOrder** (NalProofs): `Spec =>
  []TypeOK` without a hypothesis; `[]NothingHeldBack` and `Spec => IsOrderedLane` if
  `Separable`: the splitter finds in every encoded access unit the units it was made of.
  MCNal's access units have that property and those of MCAvcc have not. Every fragment
  under way and every one stored is of the packets of its access unit (`FlightOK`);
  when all of them are here, joining them by their unit and fragment numbers gives the
  units back byte for byte. That needs that cutting a unit and joining the pieces changes
  no byte: were there a first one that differs, the piece it lies in would differ.
* **InputTypes**, **WhatIsDownIsRemembered**, **NothingHeld**, **OwnInput**,
  **DrainedWheelConserved**, **ClickWithModifiers** (InputProofs), for every desktop, window, keyboard and limit:
  * `[]TypeOK`; a pointer scaled and clamped is a pixel of the picture (`Pointed`), the
    injector records no key twice.
  * `WhatIsDownIsRemembered`, without a hypothesis: as long as there is an injector, what is
    down on the host is exactly what it remembers (`HoldsKeys`, `HoldsButtons`), for an
    event that fails half-way ends it. So its drop tries to release everything; it does
    release everything, `[]NothingStaysHeld`, if SendInput does not fail (`NothingHeld`).
    That hypothesis is needed: MCHeldButton.
  * `[]OwnInputIsAccepted`, if the pictures fit into the screen Windows tells the host, and
    the first one can be decoded or the placeholder is no larger than it (`Covered`):
    what is under way is valid, and from the moment the viewer sends anything its window
    shows the picture (`Fine`).
  * `[]DrainedWheelIsConserved` without a hypothesis: the sum of the messages under way gains
    what the remainder loses, and loses at its head what the host turns.
  * `ClickHasItsModifiers`, an action property, without a hypothesis: the
    key events under way lead, one after the other, from the keys the injector remembers to
    those the viewer has reported, and a pointer message carries the set on that path at
    its place (`Path`).

* **RoundTrip**, **OffersAreAgreed** (WireProofs): for every width of a byte from 64 up,
  every limit on sizes and lists and every message `m`, `Decode` returns `m` from `Laid(m)`
  exactly if `Encode` is ready to send it, and fails on every part of `Laid(m)` that was cut
  off, and on `Laid(m)` with a byte behind it; so `Spec => []EndsAgree`. The argument goes
  up the structure of a message, from scalars over records and lists to a message:
  * a value put somewhere in an input is read back from there, and the read ends
    where the value does (`FixedRoundTrip`, `ReadScalarAt`, `ReadRecordAt`, `ReadListAt`,
    `ReadValueAt`, `ReadFieldsAt`). Below that, numbers are their digits
    (`NumberOfBigEndian`), the bits put for the capabilities are the bits read
    (`FlagsAreRead`), and no two keys share a code (`KeysAreRead`);
  * a read that succeeds on an input that was cut off gets the same from the whole
    one, and ends where it ends there (`SameWhenCut`, for every kind of read). The whole one ends
    at its end, hence the cut one cannot have succeeded;
  * what `decode` finds behind a tag is the row that `encode` has for that kind
    (`RowIsFound`): the two tables agree entry by entry (`RowsAreDecoded`, `DecodedAreRows`), and
    no tag starts with another (`TagsAreApart`);
  * the one thing `encode` refuses besides a size, a list that is empty or too long,
    `decode` refuses too (`LegalIsReadable`).
* **MessagesInOrder**, **PacketsArrive**, **StreamTypes** (WireProofs): `Spec =>
  []ReceivedAsSent`, `[]PacketsSurvive` and `[]TypeOK` of FramedStream. `StreamInv`: what was
  received is a prefix of what was written, and the bytes on the stream are what is left of the
  frames of the others, all of them while the connection stands (`Underway`, which
  names the place where each frame ends). `FrontOf` reads the next length and payload off
  that, `RoundTrip` makes a message of them, so the receiver can fail only behind a
  break. A packet is put together again because each number of a codec or format is the one
  that its name has (`NumbersOfKinds`, `PacketOfVideo`).

  Assumed are `KeyTableAssumption` (a key has one code, which fits two bytes; TLC evaluates
  it on the table of the code), `WireAssumption` (a byte has at least 64 values, the largest
  message fits the length prefix, the samples have the types of their fields) and
  `FollowersAssumption` (what an instance sends second are messages).

* **UpdatesAreAcceptedHolds**, **WindowIsExactHolds**, **PackingIsLosslessHolds**,
  **RegionTypesHold**, **Lossless** (RegionProofs), without a hypothesis: for every
  desktop, stride, tile size, region limit and run limit. `RegionInv`: the
  viewer shows the frame the detector saw last, or that frame is on its way whole, or the
  viewer shows the one before and the difference of the two is on its way (`Difference`).
  That a step keeps this is a chain of facts about the operators:
  * every pixel that differs lies in a region, every region lies in the frame, and
    merging keeps both (`ChangedAreCovered`, `AroundAll`, `DetectedCover`);
  * the payload holds the part of each region behind those before it (`RawPayload`,
    `FlattenAt`), each pixel where the patch looks for it (`RegionPart`, `IndexOf`);
  * unpacking returns what was packed (`Lossless`): a run and a literal each fit
    their header (`RunBounds`, `LiteralBounds`, `Header`), and unpacking from where the
    packed rest of the input begins returns that rest, by induction from the end;
  * so patching the one frame gives the other (`PatchedFrame`), where the last region
    over a pixel may be any of those that overlap there.

  These operators recurse over data. What such a function returns is proved from two lemmas:
  that it exists if it looks only where a bounded measure is smaller (`Recursion`), and
  that what holds wherever the measure is smaller holds everywhere (`MeasureInduction`).
  Both follow from the least element of a set of numbers (`LeastNat`), so no theorem
  with an operator for a parameter is needed. WireProofs proves its folds and numbers in
  the same way.

Only model-checked: liveness under fairness and what depends on ENABLED, which the
prover does not handle (BarrierCleared, ViewerRecovers, HostStops, CallsReturn,
TransferCompletes, RepairedOrRefreshed, NobodyWaitsForAMessage, ViewerGetsOn, HostAgrees).

## 5. Left out

Not modelled: codec bindings, capture and window systems, command line, logging;
their effect on the stream is a choice of the environment (a captured frame, a skip,
a decode error). The rate controller and the standalone media pipeline have no caller
outside tests and demos.

Inside the modelled parts: NAL fragments whose headers contradict each other, frames
beyond 16 MiB and AVCC units of length zero, which no encoder here produces; the
digits of a u64 beyond the fifth and of the arrays beyond the third in Wire; Argon2 and TLS, which are the
equality of passwords and of certificates; the normalisation of a pointer to 0..65535
and the rounding of f32 in its scaling, where Input computes with exact fractions; wheel
steps that are not finite; how minifb samples the keyboard. DesktopStream knows input
events only by the failure of an injection. A MediaNack that hits the cache concerns SelectiveRetransmit only, one
that misses it both.

Smaller simplifications, definition by definition: bitrate and fps are two atomics, and
the loads and stores of `update_rate` and `request_lower_rate_keyframe` several accesses
(main.rs:121, 128, 138-146, 170-172), here one rate and one step (`UpdateRate`,
`SenderReduceRate`). `SenderFails` knows a connection that is gone, not an error of
`packetize_*` (main.rs:1421-1423), which takes a Datagram size or a frame no session here
has. `DecodeFails` leaves the viewer alive; the errors that end it, of a decoder that
cannot be created and of a packet that cannot be made from its message (2297, 2354), are not
modelled. `SendOffer` and `SendChunk` of FileTransfer send in one step what they have
read, and an error of that step is a `Disconnect`, `SenderFails` or `ReceiverFails`. `HostFirstFrame` takes
the value of main.rs:547 for `av1_software`: main.rs:590-595 builds `MediaFeatures` without that
field of its definition (340-347), which as it stands does not compile on Windows. Two
viewers at a time meet in PinStore only, as the neighbour.

## 6. Plan

1. (done) desktop session, type and picture theorems; file transfer; retransmission;
   region updates; handshake and pins with their theorems; the order of
   the lanes and the stored bytes of a transfer proved; NAL lane; wire codec; input.
2. (done) the refinements of LossyLane and OrderedLane, the safety of input, the types of
   a session, the two barrier properties, the region codec, the wire codec and the framed
   stream, proved.
3. The NAL lane below DesktopStream, whose frames are now lost whole; the standalone media
   pipeline once the host uses it.
