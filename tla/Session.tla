------------------------------- MODULE Session -------------------------------
(***************************************************************************)
(* How a host and a viewer get from a QUIC connection to a picture: the    *)
(* certificate, the password, the features both builds have, the lanes     *)
(* that are opened, and how the end of one process ends the other.  Either *)
(* of the two may be an older build with fewer features; the other one is  *)
(* the build of this repository, which has them all.                       *)
(***************************************************************************)
EXTENDS PinStore, Sequences, SequencesExt

CONSTANTS
  Address,        \* the endpoint the viewer connects to
  OlderBuilds,    \* feature sets of other builds
  MaxHosts,       \* bound: host processes, each with a certificate of its own
  MaxViewers      \* bound: viewer processes

Feature == {"hybrid_video", "desktop_optimizations", "h264_nal_datagrams",
            "desktop_selective_retransmit", "av1_software"}

ASSUME SessionAssumption ==
  /\ Address \in Endpoint
  /\ \A build \in OlderBuilds : build \subseteq Feature
  /\ {MaxHosts, MaxViewers} \subseteq Nat /\ Fingerprint = 1..MaxHosts

VARIABLES
  host,           \* step of run_network_host, "stopping" behind its last one
  certificate,    \* of the running host process, 0 before the first
  host_build, host_uses,
  encoder,        \* of the host, none before the first frame
  shutdown,       \* set by the host's control task
  viewer,         \* step of run_network_viewer
  viewers,        \* viewer processes started
  viewer_build, viewer_uses,
  password,       \* the user typed
  pinned,         \* fingerprint the viewer was started with, or NoPin
  observed,       \* fingerprint the viewer has shown
  link,           \* none, up or closed
  to_host, to_viewer,     \* the control stream
  reliable,       \* the media stream
  datagrams       \* media Datagrams on their way

hostVars   == <<host, certificate, host_build, host_uses, encoder, shutdown>>
viewerVars == <<viewer, viewers, viewer_build, viewer_uses, password, pinned, observed>>
wires      == <<link, to_host, to_viewer, reliable, datagrams>>
vars       == <<hostVars, viewerVars, wires, pinVars>>

\* Steps between which a process holds the connection.
HostSteps   == {"hello", "proof", "open", "first_frame", "streaming"}
ViewerSteps == {"hello", "challenge", "result", "desktop", "media", "playing"}

Builds == {<<Feature, b>> : b \in OlderBuilds} \cup {<<b, Feature>> : b \in OlderBuilds}

\* What a build makes of the features both ends have: the optimizations and the
\* NAL lane need hybrid video, retransmission needs the optimizations.
InUse(features) ==
  LET hybrid    == "hybrid_video" \in features
      optimized == hybrid /\ "desktop_optimizations" \in features
  IN { f \in features :
         \/ f = "hybrid_video"
         \/ f = "av1_software"
         \/ f \in {"desktop_optimizations", "h264_nal_datagrams"} /\ hybrid
         \/ f = "desktop_selective_retransmit" /\ optimized }

Init ==
  /\ PinInit
  /\ host = "down" /\ certificate = 0 /\ host_build = {} /\ host_uses = {} /\ encoder = "none" /\ shutdown = FALSE
  /\ viewer = "down" /\ viewers = 0 /\ viewer_build = {} /\ viewer_uses = {}
  /\ password = "right" /\ pinned = NoPin /\ observed = NoPin
  /\ link = "none" /\ to_host = <<>> /\ to_viewer = <<>> /\ reliable = <<>> /\ datagrams = {}

-----------------------------------------------------------------------------
\* Ends of processes and of the connection.

\* What is still on its way no longer matters: whoever waits for it ends as well.
Closing ==
  /\ link' = "closed"
  /\ to_host' = <<>> /\ to_viewer' = <<>> /\ reliable' = <<>> /\ datagrams' = {}

\* A process that returns takes its end of the connection with it, and whatever it
\* knew.
HostLeaves(step) ==
  /\ host' = step
  /\ host_build' = {} /\ host_uses' = {} /\ encoder' = "none" /\ shutdown' = FALSE
  /\ Closing
  /\ UNCHANGED <<certificate, viewerVars, pinVars>>

HostEnds == HostLeaves("down")

\* A host whose capture thread runs gives up the connection when it returns, but it
\* lives on until that thread has ended.
HostStops == HostLeaves("stopping")

\* Nothing makes the thread end: it may wait for a frame, for room in the channel or
\* for the acknowledgement of a keyframe (DesktopStream models it).
HostThreadEnds ==
  /\ host = "stopping"
  /\ host' = "down"
  /\ UNCHANGED <<certificate, host_build, host_uses, encoder, shutdown, viewerVars, wires, pinVars>>

ViewerEnds ==
  /\ viewer' = "down"
  /\ viewer_build' = {} /\ viewer_uses' = {} /\ pinned' = NoPin /\ observed' = NoPin
  /\ Closing
  /\ LosePins
  /\ UNCHANGED <<viewers, password, hostVars>>

LinkBreaks ==
  /\ "LinkBreaks" \in Faults
  /\ link = "up"
  /\ Closing
  /\ UNCHANGED <<hostVars, viewerVars, pinVars>>

-----------------------------------------------------------------------------
\* Connection.

\* QuicServer::bind makes a new certificate; a host accepts one connection.
HostStart ==
  /\ host = "down"
  /\ certificate < MaxHosts
  /\ host' = "accepting"
  /\ certificate' = certificate + 1
  /\ UNCHANGED <<host_build, host_uses, encoder, shutdown, viewerVars, wires, pinVars>>

Passwords == IF "WrongPassword" \in Faults THEN {"right", "wrong"} ELSE {"right"}

\* The user passes the fingerprint the store has for the address, if any, or the
\* one the host has printed.
ViewerStart ==
  /\ viewer = "down"
  /\ viewers < MaxViewers
  /\ viewer' = "connecting"
  /\ viewers' = viewers + 1
  /\ LoadPins
  /\ password' \in Passwords
  /\ pinned' \in {pins'[Address]} \cup (IF host = "accepting" THEN {certificate} ELSE {})
  /\ observed' = NoPin
  /\ UNCHANGED <<saving, pin_file, temporary, confirmed, viewer_build, viewer_uses, hostVars, wires>>

\* Mutant: a pinned client accepts what it sees.
CertificateAccepted_Always == TRUE

\* PinningVerifier: a pin must match, without one any certificate will do.
CertificateAccepted == pinned \in {NoPin, certificate}

Connect ==
  /\ viewer = "connecting"
  /\ host = "accepting"
  /\ CertificateAccepted
  /\ host' = "hello"
  /\ viewer' = "hello"
  /\ observed' = certificate
  /\ link' = "up"
  /\ \E builds \in Builds : host_build' = builds[1] /\ viewer_build' = builds[2]
  /\ shutdown' = FALSE
  /\ to_host' = <<>> /\ to_viewer' = <<>> /\ reliable' = <<>> /\ datagrams' = {}
  /\ host_uses' = {} /\ viewer_uses' = {} /\ encoder' = "none"
  /\ UNCHANGED <<certificate, viewers, password, pinned, pinVars>>

\* A refused certificate ends both: accept() returns the error too.
ConnectRefused ==
  /\ viewer = "connecting"
  /\ host = "accepting"
  /\ ~CertificateAccepted
  /\ host' = "down"
  /\ viewer' = "down"
  /\ LosePins
  /\ UNCHANGED <<certificate, host_build, host_uses, encoder, shutdown,
                 viewers, viewer_build, viewer_uses, password, pinned, observed, wires>>

\* Nobody accepts: the connection attempt times out.
ConnectFails ==
  /\ viewer = "connecting"
  /\ host # "accepting"
  /\ viewer' = "down"
  /\ LosePins
  /\ UNCHANGED <<viewers, viewer_build, viewer_uses, password, pinned, observed, hostVars, wires>>

\* The user answers for the certificate the viewer has shown.
ConfirmCertificate ==
  /\ viewer # "down"
  /\ observed # NoPin
  /\ \E confirm \in BOOLEAN : VerifyOrRecord(Address, observed, confirm)
  /\ UNCHANGED <<hostVars, viewerVars, wires>>

SavePins ==
  /\ WritePins \/ WritePinsFails \/ RenamePins \/ RenamePinsFails
  /\ UNCHANGED <<hostVars, viewerVars, wires>>

OthersSavePins ==
  /\ NeighbourWrites \/ NeighbourRenames
  /\ UNCHANGED <<hostVars, viewerVars, wires>>

-----------------------------------------------------------------------------
\* authenticate_server and authenticate_client.  A message that is not the one
\* expected is an error, as is a stream that has ended.

ToHost(m)   == to_host' = Append(to_host, m)
ToViewer(m) == to_viewer' = Append(to_viewer, m)

HostReceives(type)   == to_host # <<>> /\ Head(to_host).type = type /\ to_host' = Tail(to_host)
ViewerReceives(type) == to_viewer # <<>> /\ Head(to_viewer).type = type /\ to_viewer' = Tail(to_viewer)

\* An older build may speak another major version.
Versions(build) == IF build # Feature /\ "OtherVersion" \in Faults THEN {0, 1} ELSE {0}

SendHello ==
  /\ viewer = "hello" /\ link = "up"
  /\ \E version \in Versions(viewer_build) :
       ToHost([type |-> "Hello", version |-> version, capabilities |-> viewer_build])
  /\ viewer' = "challenge"
  /\ UNCHANGED <<viewers, viewer_build, viewer_uses, password, pinned, observed, hostVars, link, to_viewer,
                 reliable, datagrams, pinVars>>

\* The nonce is fresh for every connection; the certificate's number will do.
HostChallenges ==
  /\ host = "hello" /\ link = "up"
  /\ HostReceives("Hello")
  /\ Head(to_host).version = 0
  /\ ToViewer([type |-> "Challenge", nonce |-> certificate])
  /\ host' = "proof"
  /\ host_uses' = InUse(host_build \cap Head(to_host).capabilities)
  /\ UNCHANGED <<certificate, host_build, encoder, shutdown, viewerVars, link, reliable, datagrams, pinVars>>

HostRefusesVersion ==
  /\ host = "hello"
  /\ to_host # <<>> /\ Head(to_host).version # 0
  /\ HostEnds

ViewerProves ==
  /\ viewer = "challenge" /\ link = "up"
  /\ ViewerReceives("Challenge")
  /\ ToHost([type |-> "Authenticate", proof |-> <<password, Head(to_viewer).nonce>>])
  /\ viewer' = "result"
  /\ UNCHANGED <<viewers, viewer_build, viewer_uses, password, pinned, observed, hostVars, link,
                 reliable, datagrams, pinVars>>

\* Mutant: the proof is not looked at.
ProofIsRight_Any == TRUE

ProofIsRight == Head(to_host).proof = <<"right", certificate>>

\* Mutant: one flag is forgotten in the answer.
Advertised_Partly == host_build \ {"desktop_optimizations"}

\* The answer mirrors the features of the host's own build.
Advertised == host_build

HostAuthenticates ==
  /\ host = "proof" /\ link = "up"
  /\ HostReceives("Authenticate")
  /\ ProofIsRight
  /\ ToViewer([type |-> "Authenticated", permissions |-> Advertised])
  /\ host' = "open"
  /\ UNCHANGED <<certificate, host_build, host_uses, encoder, shutdown, viewerVars, link, reliable, datagrams, pinVars>>

\* Rejected is sent and the process returns the error at once, so that the viewer
\* ends too, whether or not it reads the reason.
HostRejects ==
  /\ host = "proof" /\ link = "up"
  /\ to_host # <<>> /\ ~ProofIsRight
  /\ HostEnds

\* Mutant: without an idle time-out a receive waits for ever.
HostFails_NoTimeout ==
  /\ link = "closed"
  /\ \/ host = "open" /\ HostEnds
     \/ host = "streaming" /\ HostStops

\* A receive or a send on a connection that is gone.
HostFails ==
  /\ link = "closed"
  /\ \/ host \in {"hello", "proof", "open"} /\ HostEnds
     \/ host = "streaming" /\ HostStops

ViewerFails ==
  /\ viewer \in ViewerSteps
  /\ link = "closed"
  /\ ViewerEnds

-----------------------------------------------------------------------------
\* Opening of the lanes: run_network_host, send_frames_from, run_network_viewer.

Encoders == {"h264", "av1"}     \* Media Foundation or x264, and libaom

\* OpenDesktop, the control task, and the media stream if there is one.  The
\* stream exists for the viewer once something was written to it.
HostOpens ==
  /\ host = "open" /\ link = "up"
  /\ ToViewer([type |-> "OpenDesktop"])
  /\ host' = "first_frame"
  /\ UNCHANGED <<certificate, host_build, host_uses, encoder, shutdown, viewerVars, link, to_host, reliable, datagrams, pinVars>>

\* max_datagram_size is None on both ends.
HostHasNoDatagrams ==
  /\ "NoDatagrams" \in Faults
  /\ host = "open" /\ link = "up"
  /\ HostEnds

\* The control task: every end of the control stream is a shutdown.
HostControlEnds ==
  /\ host \in {"first_frame", "streaming"}
  /\ link = "closed"
  /\ ~shutdown
  /\ shutdown' = TRUE
  /\ UNCHANGED <<host, certificate, host_build, host_uses, encoder, viewerVars, wires, pinVars>>

\* The viewer's first RateHint.
HostControlReceives ==
  /\ host \in {"first_frame", "streaming"} /\ link = "up"
  /\ HostReceives("RateHint")
  /\ UNCHANGED <<hostVars, viewerVars, link, to_viewer, reliable, datagrams, pinVars>>

\* The capture thread waits for a first frame without a look at shutdown, then
\* makes an encoder for it.  main.rs:590-595 makes MediaFeatures without its field
\* av1_software, which does not compile on Windows; what is meant is the value of
\* line 547, which nothing else uses.
HostFirstFrame ==
  /\ host = "first_frame"
  /\ encoder' \in Encoders
  /\ encoder' = "av1" => "av1_software" \in host_uses
  /\ host' = "streaming"
  /\ UNCHANGED <<certificate, host_build, host_uses, shutdown, viewerVars, wires, pinVars>>

\* Mutant: the connection is not closed behind the error.
HostHasNoEncoder_Silent ==
  /\ host = "first_frame"
  /\ "av1_software" \notin host_uses
  /\ host' = "down"
  /\ UNCHANGED <<certificate, host_build, host_uses, encoder, shutdown, viewerVars, wires, pinVars>>

\* No hardware encoder, and a viewer that cannot decode AV1: the thread returns the
\* error.
HostHasNoEncoder ==
  /\ host = "first_frame"
  /\ "av1_software" \notin host_uses
  /\ HostEnds

HostShutsDown ==
  /\ host = "streaming"
  /\ shutdown
  /\ HostStops

ViewerAuthenticated ==
  /\ viewer = "result" /\ link = "up"
  /\ ViewerReceives("Authenticated")
  /\ viewer' = "desktop"
  /\ viewer_uses' = InUse(viewer_build \cap Head(to_viewer).permissions)
  /\ UNCHANGED <<viewers, viewer_build, password, pinned, observed, hostVars, link, to_host, reliable, datagrams, pinVars>>

\* Another build of the host may not permit viewing.
ViewerIsNotPermitted ==
  /\ "NotPermitted" \in Faults
  /\ viewer = "result" /\ host_build # Feature
  /\ to_viewer # <<>> /\ Head(to_viewer).type = "Authenticated"
  /\ ViewerEnds

StartPlaying ==
  /\ viewer' = "playing"
  /\ ToHost([type |-> "RateHint"])
  /\ UNCHANGED <<viewers, viewer_build, viewer_uses, password, pinned, observed>>

\* Mutant: a hybrid viewer sends a hint before it waits as well.
ViewerOpens_HintsFirst ==
  /\ viewer = "desktop" /\ link = "up"
  /\ to_viewer # <<>>
  /\ to_viewer' = Tail(to_viewer)
  /\ viewer' = IF "hybrid_video" \in viewer_uses THEN "media" ELSE "playing"
  /\ ToHost([type |-> "RateHint"])
  /\ UNCHANGED <<viewers, viewer_build, viewer_uses, password, pinned, observed, hostVars, link, reliable,
                 datagrams, pinVars>>

\* Any message will do for OpenDesktop.  A hybrid viewer then waits for the
\* media stream, without a time-out.
ViewerOpens ==
  /\ viewer = "desktop" /\ link = "up"
  /\ to_viewer # <<>>
  /\ to_viewer' = Tail(to_viewer)
  /\ IF "hybrid_video" \in viewer_uses
     THEN /\ viewer' = "media"
          /\ UNCHANGED <<viewers, viewer_build, viewer_uses, password, pinned, observed, to_host>>
     ELSE StartPlaying
  /\ UNCHANGED <<hostVars, link, reliable, datagrams, pinVars>>

ViewerHasNoDatagrams ==
  /\ "NoDatagrams" \in Faults
  /\ viewer = "desktop" /\ link = "up"
  /\ to_viewer # <<>>
  /\ ViewerEnds

ViewerAcceptsStream ==
  /\ viewer = "media" /\ link = "up"
  /\ reliable # <<>>
  /\ StartPlaying
  /\ UNCHANGED <<hostVars, link, to_viewer, reliable, datagrams, pinVars>>

-----------------------------------------------------------------------------
\* Media.  A message is its kind, its codec and the envelope of its fragments.

Message(kind, codec, envelope) == [kind |-> kind, codec |-> codec, envelope |-> envelope]

Uses(f) == f \in host_uses

\* Keyframes and cursors go over the stream of a hybrid session, region updates
\* are for an encoder that does not need every frame, and H.264 is split into NAL
\* units where both ends can.
OnStream ==
  IF Uses("hybrid_video")
  THEN {Message("keyframe", encoder, "stream")}
       \cup (IF Uses("desktop_optimizations") THEN {Message("cursor", "none", "stream")} ELSE {})
  ELSE {}

AsDatagrams ==
  LET inter == Message("inter", encoder, IF Uses("h264_nal_datagrams") /\ encoder = "h264" THEN "DCVN" ELSE "DCVD")
  IN {inter}
     \cup (IF Uses("hybrid_video") THEN {} ELSE {[inter EXCEPT !.kind = "keyframe"]})
     \cup (IF Uses("desktop_optimizations") /\ encoder # "av1" THEN {Message("region", "none", "DCVD")} ELSE {})

HostSendsOnStream ==
  /\ host = "streaming" /\ link = "up" /\ ~shutdown
  /\ reliable = <<>>
  /\ \E m \in OnStream : reliable' = <<m>>
  /\ UNCHANGED <<hostVars, viewerVars, link, to_host, to_viewer, datagrams, pinVars>>

HostSendsDatagrams ==
  /\ host = "streaming" /\ link = "up" /\ ~shutdown
  /\ datagrams = {}
  /\ \E m \in AsDatagrams : datagrams' = {m}
  /\ UNCHANGED <<hostVars, viewerVars, link, to_host, to_viewer, reliable, pinVars>>

\* What the viewer's tasks take: anything else ends the viewer, or, for an
\* envelope it did not negotiate, is dropped without a word.
Understood(m) ==
  /\ m.envelope = "stream" => m.kind \in {"keyframe", "cursor"} /\ "hybrid_video" \in viewer_uses
  /\ m.envelope = "DCVN" => "h264_nal_datagrams" \in viewer_uses
  /\ m.kind \in {"cursor", "region"} => "desktop_optimizations" \in viewer_uses
  /\ m.codec = "av1" => "av1_software" \in viewer_uses

ViewerTakesKeyframe ==
  /\ viewer = "playing"
  /\ reliable # <<>> /\ Understood(Head(reliable))
  /\ reliable' = Tail(reliable)
  /\ UNCHANGED <<hostVars, viewerVars, link, to_host, to_viewer, datagrams, pinVars>>

ViewerTakesDatagrams ==
  /\ viewer = "playing"
  /\ \E m \in datagrams : Understood(m) /\ datagrams' = datagrams \ {m}
  /\ UNCHANGED <<hostVars, viewerVars, link, to_host, to_viewer, reliable, pinVars>>

\* The window is closed: Close, and the end of the connection behind it.
ViewerCloses ==
  /\ viewer = "playing"
  /\ ViewerEnds

HostHandshake ==
  HostChallenges \/ HostRefusesVersion \/ HostAuthenticates \/ HostRejects \/ HostFails \/ HostOpens
  \/ HostHasNoDatagrams \/ HostShutsDown
HostCapture == HostFirstFrame \/ HostHasNoEncoder
HostControl == HostControlReceives \/ HostControlEnds
ViewerHandshake ==
  Connect \/ ConnectRefused \/ ConnectFails \/ SendHello \/ ViewerProves \/ ViewerAuthenticated
  \/ ViewerIsNotPermitted \/ ViewerOpens \/ ViewerHasNoDatagrams \/ ViewerAcceptsStream \/ ViewerFails
ViewerMedia == ViewerTakesKeyframe \/ ViewerTakesDatagrams

Next ==
  \/ HostStart \/ HostThreadEnds \/ HostHandshake \/ HostCapture \/ HostControl \/ HostSendsOnStream \/ HostSendsDatagrams
  \/ ViewerStart \/ ViewerHandshake \/ ViewerMedia \/ ViewerCloses
  \/ ConfirmCertificate \/ SavePins \/ OthersSavePins
  \/ LinkBreaks

Spec == Init /\ [][Next]_vars

\* Tasks run; a capture that goes on timing out is the fault NoFirstFrame.  Nothing
\* is assumed of HostThreadEnds.
Fairness ==
  /\ WF_vars(HostHandshake) /\ WF_vars(HostControl) /\ WF_vars(HostSendsOnStream)
  /\ WF_vars(ViewerHandshake) /\ WF_vars(ViewerMedia)
  /\ "NoFirstFrame" \notin Faults => WF_vars(HostCapture)

FairSpec == Spec /\ Fairness

-----------------------------------------------------------------------------
TypeOK ==
  /\ PinTypeOK
  /\ host \in HostSteps \cup {"down", "accepting", "stopping"}
  /\ certificate \in 0..MaxHosts
  /\ viewer \in ViewerSteps \cup {"down", "connecting"}
  /\ viewers \in 0..MaxViewers
  /\ password \in Passwords
  /\ UNION {host_build, host_uses, viewer_build, viewer_uses} \subseteq Feature
  /\ encoder \in Encoders \cup {"none"}
  /\ shutdown \in BOOLEAN
  /\ {pinned, observed} \subseteq Fingerprint \cup {NoPin}
  /\ link \in {"none", "up", "closed"}
  /\ Len(to_host) <= 1 /\ Len(to_viewer) <= 2 /\ Len(reliable) <= 1 /\ Cardinality(datagrams) <= 1

\* Whatever the two builds are, the host never sends a message the viewer does
\* not expect: none ends the viewer as unnegotiated, none is dropped silently
\* (main.rs:2049-2056, 2202-2206, 2250-2254, 2350-2354; "no silent black screen").
NothingUnnegotiated ==
  viewer \in {"media", "playing"} => \A m \in ToSet(reliable) \cup datagrams : Understood(m)

\* The picture goes only to a viewer that has proved the password, over a
\* connection whose certificate its user had pinned, or has been shown.
MediaIsAuthenticated ==
  host = "streaming" /\ link = "up" =>
    /\ viewer \in {"result", "desktop", "media", "playing"}
    /\ password = "right"
    /\ pinned \in {NoPin, certificate}
    /\ observed = certificate

\* The end of either process, at whichever step of the handshake or the stream,
\* and the end of the connection, bring the other one out of every wait for a
\* message.  The viewer is down then; a host that has streamed may still be waiting
\* for its own capture thread (main.rs:1526, 602-611), which is HostStops of
\* DesktopStream.
NobodyWaitsForAMessage ==
  link = "closed" ~> host \notin HostSteps /\ viewer \notin ViewerSteps

\* A viewer that connected gets to its picture loop or ends with an error: it
\* does not hang in the handshake, nor in front of the media stream.
ViewerGetsOn ==
  viewer \in ViewerSteps ~> viewer \in {"playing", "down"}

\* A viewer that passes the fingerprint it was shown before is not refused
\* (README.md:41 "Confirm the first connection's printed fingerprint, then pin it
\* on later connections").
PinnedReconnects ==
  [][viewer = "connecting" /\ host = "accepting" /\ pinned # NoPin => ~ConnectRefused]_vars
=============================================================================
