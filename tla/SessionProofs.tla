---------------------------- MODULE SessionProofs ----------------------------
(***************************************************************************)
(* What a user may rely on whatever builds meet, however often processes,  *)
(* connections and saves fail: no trust that was not given, no picture     *)
(* before the password, and no message the viewer does not expect.         *)
(***************************************************************************)
EXTENDS Session, FiniteSetTheorems, SequenceTheorems, TLAPS

(***************************************************************************)
(* Pins                                                                    *)
(***************************************************************************)
IsMap(map) == map = [e \in Endpoint |-> map[e]]
Confirmed(map) == IsMap(map) /\ \A e \in Endpoint : map[e] # NoPin => <<e, map[e]>> \in confirmed

\* Whatever is in memory, in the pin file or in the file that may be renamed to it is
\* a map of confirmed pins, or cut off within a line.
PinInv ==
  /\ Confirmed(pins)
  /\ pin_file = Torn \/ Confirmed(pin_file)
  /\ temporary = Missing \/ temporary = Torn \/ Confirmed(temporary)

\* What a step of the session is to the pins.
PinsUntouched == UNCHANGED pinVars
PinsLost      == LosePins
PinsLoaded    == LoadPins /\ UNCHANGED <<saving, pin_file, temporary, confirmed>>
PinChecked    == /\ observed # NoPin
                 /\ \E confirm \in BOOLEAN : VerifyOrRecord(Address, observed, confirm)
PinsSaved     == WritePins \/ WritePinsFails \/ RenamePins \/ RenamePinsFails
PinsElsewhere == NeighbourWrites \/ NeighbourRenames
PinStep       == PinsUntouched \/ PinsLost \/ PinsLoaded \/ PinChecked \/ PinsSaved \/ PinsElsewhere

\* Only six kinds of steps concern the pins.
LEMMA PinSteps == ASSUME [Next]_vars PROVE PinStep
<1>1. CASE \/ HostStart \/ HostThreadEnds \/ HostHandshake \/ HostCapture \/ HostControl
           \/ HostSendsOnStream \/ HostSendsDatagrams
  BY <1>1 DEF HostStart, HostThreadEnds, HostHandshake, HostCapture, HostControl, HostSendsOnStream, HostSendsDatagrams,
     HostChallenges, HostRefusesVersion, HostAuthenticates, HostRejects, HostFails, HostOpens,
     HostHasNoDatagrams, HostShutsDown, HostFirstFrame, HostHasNoEncoder, HostControlReceives,
     HostControlEnds, HostEnds, HostStops, HostLeaves, viewerVars, PinStep, PinsUntouched
<1>2. CASE ViewerStart
  BY <1>2 DEF ViewerStart, PinStep, PinsLoaded
<1>3. CASE Connect \/ SendHello \/ ViewerProves \/ ViewerAuthenticated \/ ViewerOpens \/ ViewerAcceptsStream
  BY <1>3 DEF Connect, SendHello, ViewerProves, ViewerAuthenticated, ViewerOpens, ViewerAcceptsStream,
     StartPlaying, PinStep, PinsUntouched
<1>4. CASE ConnectRefused \/ ConnectFails
  BY <1>4 DEF ConnectRefused, ConnectFails, PinStep, PinsLost
<1>5. CASE ViewerIsNotPermitted \/ ViewerHasNoDatagrams \/ ViewerFails \/ ViewerCloses
  BY <1>5 DEF ViewerIsNotPermitted, ViewerHasNoDatagrams, ViewerFails, ViewerCloses, ViewerEnds, PinStep, PinsLost
<1>6. CASE ViewerMedia \/ LinkBreaks
  BY <1>6 DEF ViewerMedia, ViewerTakesKeyframe, ViewerTakesDatagrams, LinkBreaks, viewerVars, PinStep, PinsUntouched
<1>7. CASE ConfirmCertificate
  BY <1>7 DEF ConfirmCertificate, viewerVars, PinStep, PinChecked
<1>8. CASE SavePins
  BY <1>8 DEF SavePins, PinStep, PinsSaved
<1>9. CASE OthersSavePins
  BY <1>9 DEF OthersSavePins, PinStep, PinsElsewhere
<1>10. CASE UNCHANGED vars
  BY <1>10 DEF vars, PinStep, PinsUntouched
<1> QED
  BY <1>1, <1>2, <1>3, <1>4, <1>5, <1>6, <1>7, <1>8, <1>9, <1>10 DEF Next, ViewerHandshake

\* What a write that was cut off leaves of a map of confirmed pins.
LEMMA CutOffConfirmed ==
  ASSUME NEW map, Confirmed(map), NEW m \in CutOff(map)
  PROVE  m = Torn \/ Confirmed(m)
BY DEF CutOff, Confirmed, IsMap, Pins

\* Every such step keeps the pins confirmed.
LEMMA PinStepKeeps ==
  ASSUME PinInv, PinStep
  PROVE  PinInv'
<1>1. CASE PinsUntouched
  BY <1>1 DEF PinInv, PinsUntouched, pinVars, Confirmed, IsMap
<1>2. CASE PinsLost
  <2>1. temporary' = temporary \/ temporary' \in CutOff(pins)
    BY <1>2 DEF PinsLost, LosePins
  <2>2. temporary' = Missing \/ temporary' = Torn \/ Confirmed(temporary')
    BY <2>1, CutOffConfirmed DEF PinInv
  <2>3. Confirmed(pins') /\ UNCHANGED <<pin_file, confirmed>>
    BY <1>2 DEF PinsLost, LosePins, NoPins, Confirmed, IsMap
  <2> QED
    BY <2>2, <2>3 DEF PinInv, Confirmed, IsMap
<1>3. CASE PinsLoaded
  BY <1>3 DEF PinInv, PinsLoaded, LoadPins, Confirmed, IsMap
<1>4. CASE PinChecked
  <2>1. PICK confirm \in BOOLEAN : VerifyOrRecord(Address, observed, confirm)
    BY <1>4 DEF PinChecked
  <2>2. pin_file' = pin_file /\ temporary' = temporary
    BY <2>1 DEF VerifyOrRecord
  <2>3. CASE UNCHANGED <<pins, saving, confirmed>>
    BY <2>2, <2>3 DEF PinInv, Confirmed, IsMap
  <2>4. CASE /\ pins' = [pins EXCEPT ![Address] = observed]
             /\ confirmed' = confirmed \cup {<<Address, observed>>}
    <3>1. \A e \in Endpoint : pins'[e] = IF e = Address THEN observed ELSE pins[e]
      BY <2>4 DEF PinInv, Confirmed, IsMap
    <3>2. IsMap(pins')
      BY <2>4 DEF PinInv, Confirmed, IsMap
    <3>3. Confirmed(pins)' /\ \A map : Confirmed(map) => Confirmed(map)'
      BY <2>4, <3>1, <3>2 DEF PinInv, Confirmed, IsMap
    <3> QED
      BY <2>2, <2>4, <3>3 DEF PinInv, Confirmed, IsMap
  <2> QED
    BY <2>1, <2>3, <2>4 DEF VerifyOrRecord
<1>5. CASE PinsSaved
  <2>1. CASE WritePinsFails
    <3>1. temporary' = temporary \/ temporary' \in CutOff(pins)
      BY <2>1 DEF WritePinsFails
    <3>2. temporary' = Missing \/ temporary' = Torn \/ Confirmed(temporary')
      BY <3>1, CutOffConfirmed DEF PinInv
    <3> QED
      BY <2>1, <3>2 DEF WritePinsFails, PinInv, Confirmed, IsMap
  <2>2. CASE WritePins \/ RenamePins \/ RenamePinsFails
    BY <2>2 DEF WritePins, RenamePins, RenamePinsFails, PinInv, Confirmed, IsMap
  <2> QED
    BY <1>5, <2>1, <2>2 DEF PinsSaved
<1>6. CASE PinsElsewhere
  <2>1. \A map \in HeldElsewhere : Confirmed(map)
    BY DEF HeldElsewhere, Confirmed, IsMap, Pins
  <2> QED
    BY <1>6, <2>1 DEF PinsElsewhere, NeighbourWrites, NeighbourRenames, PinInv, Confirmed, IsMap
<1> QED
  BY <1>1, <1>2, <1>3, <1>4, <1>5, <1>6 DEF PinStep

LEMMA InitPins == Init => PinInv
  BY DEF Init, PinInit, PinInv, Confirmed, IsMap, NoPins

LEMMA PinInvariant == Spec => []PinInv
<1>1. PinInv /\ [Next]_vars => PinInv'
  BY PinSteps, PinStepKeeps
<1> QED
  BY <1>1, InitPins, PTL DEF Spec

\* No process trusts, and no file it would load holds, a fingerprint the user did not
\* confirm for that endpoint, whatever crashed, failed or was saved by another process
\* through the same files (dc-transport lib.rs:363-434).
THEOREM PinsConfirmed == Spec => []PinsAreConfirmed
<1>1. PinInv => PinsAreConfirmed
  BY DEF PinInv, Confirmed, PinsAreConfirmed
<1> QED
  BY <1>1, PinInvariant, PTL

(***************************************************************************)
(* The handshake                                                           *)
(***************************************************************************)
\* What may be on the control stream, given how far the viewer has come.
ViewerProved == viewer \in {"result", "desktop", "media", "playing"}
ToHostMsg ==
  [type : {"Hello"}, version : {0, 1}, capabilities : {viewer_build}]
  \cup (IF ViewerProved
        THEN [type : {"Authenticate"}, proof : {password} \X Nat] \cup [type : {"RateHint"}]
        ELSE {})
ToViewerMsg ==
  [type : {"Challenge"}, nonce : Nat] \cup [type : {"Authenticated"}, permissions : {host_build}]
  \cup [type : {"OpenDesktop"}]

\* Both ends hold the connection, over the certificate the viewer was shown.
Connected ==
  /\ viewer \in ViewerSteps /\ host \in HostSteps
  /\ pinned \in {NoPin, certificate} /\ observed = certificate
  /\ to_host \in Seq(ToHostMsg) /\ to_viewer \in Seq(ToViewerMsg)

Proved == host \in {"open", "first_frame", "streaming"} => ViewerProved /\ password = "right"

\* Each end makes the same of the features both builds have.
Agreed ==
  /\ host # "hello" => host_uses = InUse(host_build \cap viewer_build)
  /\ viewer \in {"desktop", "media", "playing"} => viewer_uses = InUse(host_build \cap viewer_build)

\* Nothing but what the host may send is on its way.
MediaFits ==
  IF host = "streaming" /\ link = "up"
  THEN /\ encoder = "av1" => "av1_software" \in host_uses
       /\ reliable \in Seq(OnStream) /\ datagrams \subseteq AsDatagrams
  ELSE reliable = <<>> /\ datagrams = {}

SessionInv ==
  /\ certificate \in Nat
  /\ link = "up" => Connected /\ Proved /\ Agreed
  /\ MediaFits

LEMMA AppendFits == \A S : \A q \in Seq(S) : \A m \in S : Append(q, m) \in Seq(S)
  OBVIOUS

LEMMA TailFits == \A S : \A q \in Seq(S) : q # <<>> => Head(q) \in S /\ Tail(q) \in Seq(S)
  OBVIOUS

LEMMA FitsMore == \A S, T : S \subseteq T => \A q \in Seq(S) : q \in Seq(T)
  BY SeqMonotonic

LEMMA InitSession == Init => SessionInv
  BY DEF Init, SessionInv, MediaFits

\* A connection that closes takes everything on its way with it.
LEMMA ClosedFits ==
  ASSUME SessionInv, Closing, certificate' = certificate
  PROVE  SessionInv'
  BY DEF SessionInv, Closing, MediaFits

\* Steps that leave the connection and what depends on it as they are.
LEMMA NothingChanged ==
  ASSUME SessionInv, UNCHANGED <<host, host_build, host_uses, encoder, certificate, viewer, viewer_build,
                                 viewer_uses, password, pinned, observed, wires>>
  PROVE  SessionInv'
  BY DEF SessionInv, Connected, Proved, Agreed, MediaFits, ToHostMsg, ToViewerMsg, ViewerProved, wires,
     OnStream, AsDatagrams, Uses, Message

\* Before a connection stands, and once it is gone, nothing depends on it.
LEMMA ProcessesStart ==
  ASSUME SessionInv, HostStart \/ HostThreadEnds \/ ViewerStart \/ ConnectRefused \/ ConnectFails
  PROVE  SessionInv'
<1>1. link # "up"
  BY DEF SessionInv, Connected, HostSteps, ViewerSteps, HostStart, HostThreadEnds, ViewerStart, ConnectRefused,
     ConnectFails
<1>2. UNCHANGED <<link, reliable, datagrams>> /\ certificate' \in Nat
  BY DEF SessionInv, HostStart, HostThreadEnds, ViewerStart, ConnectRefused, ConnectFails, wires, hostVars
<1> QED
  BY <1>1, <1>2 DEF SessionInv, MediaFits

\* A connection begins with empty lanes.
LEMMA ConnectAgrees ==
  ASSUME SessionInv, Connect
  PROVE  SessionInv'
<1>1. to_host' \in Seq(ToHostMsg') /\ to_viewer' \in Seq(ToViewerMsg')
  BY DEF Connect
<1>2. viewer' \in ViewerSteps /\ host' \in HostSteps /\ host' = "hello" /\ viewer' = "hello"
  BY DEF Connect, ViewerSteps, HostSteps
<1>3. pinned' \in {NoPin, certificate'} /\ observed' = certificate' /\ certificate' \in Nat
  BY DEF Connect, CertificateAccepted, SessionInv
<1>4. MediaFits'
  BY DEF Connect, MediaFits
<1> QED
  BY <1>1, <1>2, <1>3, <1>4 DEF SessionInv, Connected, Proved, Agreed

\* The ends of either process, and of the connection, close it.
LEMMA EndsClose ==
  ASSUME SessionInv,
         \/ HostRefusesVersion \/ HostRejects \/ HostFails \/ HostHasNoDatagrams \/ HostShutsDown \/ HostHasNoEncoder
         \/ ViewerIsNotPermitted \/ ViewerHasNoDatagrams \/ ViewerFails \/ ViewerCloses \/ LinkBreaks
  PROVE  SessionInv'
<1>1. Closing /\ certificate' = certificate
  BY DEF HostRefusesVersion, HostRejects, HostFails, HostHasNoDatagrams, HostShutsDown, HostHasNoEncoder,
     ViewerIsNotPermitted, ViewerHasNoDatagrams, ViewerFails, ViewerCloses, LinkBreaks, HostEnds, HostStops,
     HostLeaves, ViewerEnds,
     hostVars
<1> QED
  BY <1>1, ClosedFits

LEMMA MediaKept ==
  ASSUME MediaFits, UNCHANGED <<host, link, encoder, host_uses, reliable, datagrams>>
  PROVE  MediaFits'
  BY DEF MediaFits, OnStream, AsDatagrams, Uses, Message

\* The steps of authenticate_client and those that follow it.
LEMMA ViewerAgrees ==
  ASSUME SessionInv, SendHello \/ ViewerProves \/ ViewerAuthenticated \/ ViewerOpens \/ ViewerAcceptsStream
  PROVE  SessionInv'
<1>1. /\ link = "up" /\ link' = "up"
      /\ UNCHANGED <<host, host_build, host_uses, encoder, certificate, viewer_build, password, pinned, observed,
                     reliable, datagrams>>
  BY DEF SendHello, ViewerProves, ViewerAuthenticated, ViewerOpens, ViewerAcceptsStream, StartPlaying, hostVars
<1>2. MediaFits' /\ certificate' \in Nat
  BY <1>1, MediaKept DEF SessionInv
<1>3. Connected /\ Proved /\ Agreed
  BY <1>1 DEF SessionInv
<1>4. ViewerProved => ViewerProved'
  BY DEF SendHello, ViewerProves, ViewerAuthenticated, ViewerOpens, ViewerAcceptsStream, StartPlaying, ViewerProved
<1>5. /\ ToViewerMsg' = ToViewerMsg
      /\ ToHostMsg \subseteq ToHostMsg'
  BY <1>1, <1>4 DEF ToViewerMsg, ToHostMsg
<1>6. viewer' \in ViewerSteps /\ host' \in HostSteps /\ Proved'
  BY <1>1, <1>3, <1>4 DEF SendHello, ViewerProves, ViewerAuthenticated, ViewerOpens, ViewerAcceptsStream,
     StartPlaying, ViewerSteps, Connected, Proved
<1>7. to_host \in Seq(ToHostMsg')
  BY <1>3, <1>5, FitsMore DEF Connected
<1>8. to_host' \in Seq(ToHostMsg')
  <2>1. CASE SendHello
    <3>1. PICK version \in Versions(viewer_build) :
            to_host' = Append(to_host, [type |-> "Hello", version |-> version, capabilities |-> viewer_build])
      BY <2>1 DEF SendHello, ToHost
    <3>2. [type |-> "Hello", version |-> version, capabilities |-> viewer_build] \in ToHostMsg'
      BY <1>1 DEF ToHostMsg, Versions
    <3> QED
      BY <1>7, <3>1, <3>2, AppendFits
  <2>2. CASE ViewerProves
    <3>1. Head(to_viewer).nonce \in Nat
      BY <2>2, <1>3, TailFits DEF ViewerProves, ViewerReceives, Connected, ToViewerMsg
    <3>2. ViewerProved'
      BY <2>2 DEF ViewerProves, ViewerProved
    <3>3. [type |-> "Authenticate", proof |-> <<password, Head(to_viewer).nonce>>] \in ToHostMsg'
      BY <3>1, <3>2, <1>1 DEF ToHostMsg
    <3> QED
      BY <2>2, <1>7, <3>3, AppendFits DEF ViewerProves, ToHost
  <2>3. CASE ViewerAuthenticated
    BY <2>3, <1>7 DEF ViewerAuthenticated
  <2>4. CASE (ViewerOpens \/ ViewerAcceptsStream) /\ StartPlaying
    <3>1. [type |-> "RateHint"] \in ToHostMsg'
      BY <2>4 DEF StartPlaying, ToHostMsg, ViewerProved
    <3> QED
      BY <2>4, <1>7, <3>1, AppendFits DEF StartPlaying, ToHost
  <2>5. CASE ViewerOpens /\ UNCHANGED to_host
    BY <2>5, <1>7
  <2> QED
    BY <2>1, <2>2, <2>3, <2>4, <2>5 DEF ViewerOpens, ViewerAcceptsStream
<1>9. to_viewer' \in Seq(ToViewerMsg')
  BY <1>3, <1>5, TailFits DEF SendHello, ViewerProves, ViewerAuthenticated, ViewerOpens, ViewerAcceptsStream,
     ViewerReceives, Connected
<1>10. Connected'
  BY <1>1, <1>3, <1>6, <1>8, <1>9 DEF Connected
<1>11. Agreed'
  <2>1. CASE ViewerAuthenticated
    <3>1. Head(to_viewer).permissions = host_build
      BY <2>1, <1>3, TailFits DEF ViewerAuthenticated, ViewerReceives, Connected, ToViewerMsg
    <3>2. viewer_uses' = InUse(host_build \cap viewer_build)
      <4>1. viewer_build \cap host_build = host_build \cap viewer_build
        OBVIOUS
      <4> QED
        BY <2>1, <3>1, <4>1 DEF ViewerAuthenticated
    <3> QED
      BY <1>1, <1>3, <3>2 DEF Agreed
  <2>2. CASE SendHello \/ ViewerProves
    BY <2>2, <1>1, <1>3 DEF SendHello, ViewerProves, Agreed
  <2>3. CASE ViewerOpens \/ ViewerAcceptsStream
    BY <2>3, <1>1, <1>3 DEF ViewerOpens, ViewerAcceptsStream, StartPlaying, Agreed
  <2> QED
    BY <2>1, <2>2, <2>3
<1> QED
  BY <1>2, <1>6, <1>10, <1>11 DEF SessionInv

\* The steps of authenticate_server and those that follow it.
LEMMA HostAgreesOn ==
  ASSUME SessionInv, HostChallenges \/ HostAuthenticates \/ HostOpens \/ HostControlReceives
  PROVE  SessionInv'
<1>1. /\ link = "up" /\ link' = "up"
      /\ UNCHANGED <<host_build, encoder, certificate, viewer, viewer_build, viewer_uses, password, pinned, observed,
                     reliable, datagrams>>
  BY DEF HostChallenges, HostAuthenticates, HostOpens, HostControlReceives, hostVars, viewerVars
<1>2. Connected /\ Proved /\ Agreed /\ MediaFits /\ certificate \in Nat
  BY <1>1 DEF SessionInv
<1>3. ToHostMsg' = ToHostMsg /\ ToViewerMsg' = ToViewerMsg
  BY <1>1 DEF ToHostMsg, ToViewerMsg, ViewerProved
<1>4. to_host' \in Seq(ToHostMsg')
  BY <1>2, <1>3, TailFits DEF HostChallenges, HostAuthenticates, HostOpens, HostControlReceives, HostReceives, Connected
<1>5. to_viewer' \in Seq(ToViewerMsg')
  <2>1. CASE HostChallenges
    <3>1. [type |-> "Challenge", nonce |-> certificate] \in ToViewerMsg
      BY <1>2 DEF ToViewerMsg
    <3> QED
      BY <2>1, <1>2, <1>3, <3>1, AppendFits DEF HostChallenges, ToViewer, Connected
  <2>2. CASE HostAuthenticates
    <3>1. [type |-> "Authenticated", permissions |-> Advertised] \in ToViewerMsg
      BY DEF ToViewerMsg, Advertised
    <3> QED
      BY <2>2, <1>2, <1>3, <3>1, AppendFits DEF HostAuthenticates, ToViewer, Connected
  <2>3. CASE HostOpens
    <3>1. [type |-> "OpenDesktop"] \in ToViewerMsg
      BY DEF ToViewerMsg
    <3> QED
      BY <2>3, <1>2, <1>3, <3>1, AppendFits DEF HostOpens, ToViewer, Connected
  <2>4. CASE HostControlReceives
    BY <2>4, <1>2, <1>3 DEF HostControlReceives, Connected
  <2> QED
    BY <2>1, <2>2, <2>3, <2>4
<1>6. host' \in HostSteps
  BY <1>2 DEF HostChallenges, HostAuthenticates, HostOpens, HostControlReceives, hostVars, HostSteps, Connected
<1>7. Connected'
  BY <1>1, <1>2, <1>4, <1>5, <1>6 DEF Connected
<1>8. Proved'
  <2>1. CASE HostAuthenticates
    <3>1. Head(to_host) \in ToHostMsg /\ Head(to_host).type = "Authenticate"
      BY <2>1, <1>2, TailFits DEF HostAuthenticates, HostReceives, Connected
    <3>2. ViewerProved /\ Head(to_host).proof \in {password} \X Nat
      BY <3>1 DEF ToHostMsg
    <3>3. Head(to_host).proof = <<"right", certificate>>
      BY <2>1 DEF HostAuthenticates, ProofIsRight
    <3>4. password = "right"
      BY <3>2, <3>3
    <3> QED
      BY <1>1, <3>2, <3>4 DEF Proved, ViewerProved
  <2>2. CASE HostChallenges \/ HostOpens \/ HostControlReceives
    BY <2>2, <1>1, <1>2 DEF HostChallenges, HostOpens, HostControlReceives, hostVars, Proved, ViewerProved
  <2> QED
    BY <2>1, <2>2
<1>9. Agreed'
  <2>1. CASE HostChallenges
    <3>1. Head(to_host) \in ToHostMsg /\ Head(to_host).type = "Hello"
      BY <2>1, <1>2, TailFits DEF HostChallenges, HostReceives, Connected
    <3>2. Head(to_host).capabilities = viewer_build
      BY <3>1 DEF ToHostMsg
    <3>3. host_uses' = InUse(host_build \cap viewer_build)
      BY <2>1, <3>2 DEF HostChallenges
    <3> QED
      BY <1>1, <1>2, <3>3 DEF Agreed
  <2>2. CASE HostAuthenticates \/ HostOpens \/ HostControlReceives
    BY <2>2, <1>1, <1>2 DEF HostAuthenticates, HostOpens, HostControlReceives, hostVars, Agreed
  <2> QED
    BY <2>1, <2>2
<1>10. MediaFits'
  <2>1. CASE HostControlReceives
    BY <2>1, <1>1, <1>2, MediaKept DEF HostControlReceives, hostVars
  <2>2. CASE HostChallenges \/ HostAuthenticates \/ HostOpens
    BY <2>2, <1>1, <1>2 DEF HostChallenges, HostAuthenticates, HostOpens, MediaFits
  <2> QED
    BY <2>1, <2>2
<1> QED
  BY <1>1, <1>2, <1>7, <1>8, <1>9, <1>10 DEF SessionInv

\* The first frame: an encoder the viewer has a decoder for.
LEMMA FirstFrameFits ==
  ASSUME SessionInv, HostFirstFrame
  PROVE  SessionInv'
<1>1. /\ host = "first_frame" /\ host' = "streaming" /\ host' \in HostSteps
      /\ UNCHANGED <<link, to_host, to_viewer, reliable, datagrams, host_build, host_uses, certificate, viewer,
                     viewer_build, viewer_uses, password, pinned, observed>>
  BY DEF HostFirstFrame, viewerVars, wires, HostSteps
<1>2. MediaFits'
  <2>1. reliable' = <<>> /\ datagrams' = {}
    BY <1>1 DEF SessionInv, MediaFits
  <2>2. encoder' = "av1" => "av1_software" \in host_uses'
    BY <1>1 DEF HostFirstFrame
  <2> QED
    BY <2>1, <2>2 DEF MediaFits
<1>3. ToHostMsg' = ToHostMsg /\ ToViewerMsg' = ToViewerMsg
  BY <1>1 DEF ToHostMsg, ToViewerMsg, ViewerProved
<1> QED
  BY <1>1, <1>2, <1>3 DEF SessionInv, Connected, Proved, Agreed, ViewerProved

\* Media goes out as OnStream and AsDatagrams say, and comes in in order.
LEMMA MediaMoves ==
  ASSUME SessionInv, HostSendsOnStream \/ HostSendsDatagrams \/ ViewerTakesKeyframe \/ ViewerTakesDatagrams
  PROVE  SessionInv'
<1>1. /\ UNCHANGED <<hostVars, viewerVars, link, to_host, to_viewer>>
  BY DEF HostSendsOnStream, HostSendsDatagrams, ViewerTakesKeyframe, ViewerTakesDatagrams
<1>2. OnStream' = OnStream /\ AsDatagrams' = AsDatagrams
  BY <1>1 DEF OnStream, AsDatagrams, Uses, Message, hostVars
<1>3. CASE HostSendsOnStream
  <2>1. PICK m \in OnStream : reliable' = <<m>>
    BY <1>3 DEF HostSendsOnStream
  <2>2. reliable' \in Seq(OnStream)
    BY <2>1
  <2>3. host = "streaming" /\ link = "up" /\ datagrams' = datagrams
    BY <1>3 DEF HostSendsOnStream
  <2>4. MediaFits'
    BY <1>1, <1>2, <2>2, <2>3 DEF SessionInv, MediaFits, hostVars
  <2> QED
    BY <1>1, <2>4 DEF SessionInv, Connected, Proved, Agreed, ToHostMsg, ToViewerMsg, ViewerProved, hostVars, viewerVars
<1>4. CASE HostSendsDatagrams
  <2>1. PICK m \in AsDatagrams : datagrams' = {m}
    BY <1>4 DEF HostSendsDatagrams
  <2>2. host = "streaming" /\ link = "up" /\ reliable' = reliable
    BY <1>4 DEF HostSendsDatagrams
  <2>3. MediaFits'
    BY <1>1, <1>2, <2>1, <2>2 DEF SessionInv, MediaFits, hostVars
  <2> QED
    BY <1>1, <2>3 DEF SessionInv, Connected, Proved, Agreed, ToHostMsg, ToViewerMsg, ViewerProved, hostVars, viewerVars
<1>5. CASE ViewerTakesKeyframe \/ ViewerTakesDatagrams
  <2>1. \/ reliable # <<>> /\ reliable' = Tail(reliable) /\ datagrams' = datagrams
        \/ reliable' = reliable /\ \E m \in datagrams : datagrams' = datagrams \ {m}
    BY <1>5 DEF ViewerTakesKeyframe, ViewerTakesDatagrams
  <2>2. host = "streaming" /\ link = "up"
    BY <2>1 DEF SessionInv, MediaFits
  <2>3. MediaFits'
    BY <1>1, <1>2, <2>1, <2>2, TailFits DEF SessionInv, MediaFits, hostVars
  <2> QED
    BY <1>1, <2>3 DEF SessionInv, Connected, Proved, Agreed, ToHostMsg, ToViewerMsg, ViewerProved, hostVars, viewerVars
<1> QED
  BY <1>3, <1>4, <1>5

\* Every step of the session keeps the invariant.
LEMMA NextSession == SessionInv /\ [Next]_vars => SessionInv'
<1> SUFFICES ASSUME SessionInv, [Next]_vars PROVE SessionInv'
  OBVIOUS
<1>1. CASE HostStart \/ HostThreadEnds \/ ViewerStart \/ ConnectRefused \/ ConnectFails
  BY <1>1, ProcessesStart
<1>2. CASE Connect
  BY <1>2, ConnectAgrees
<1>3. CASE \/ HostRefusesVersion \/ HostRejects \/ HostFails \/ HostHasNoDatagrams \/ HostShutsDown \/ HostHasNoEncoder
           \/ ViewerIsNotPermitted \/ ViewerHasNoDatagrams \/ ViewerFails \/ ViewerCloses \/ LinkBreaks
  BY <1>3, EndsClose
<1>4. CASE SendHello \/ ViewerProves \/ ViewerAuthenticated \/ ViewerOpens \/ ViewerAcceptsStream
  BY <1>4, ViewerAgrees
<1>5. CASE HostChallenges \/ HostAuthenticates \/ HostOpens \/ HostControlReceives
  BY <1>5, HostAgreesOn
<1>6. CASE HostFirstFrame
  BY <1>6, FirstFrameFits
<1>7. CASE HostSendsOnStream \/ HostSendsDatagrams \/ ViewerTakesKeyframe \/ ViewerTakesDatagrams
  BY <1>7, MediaMoves
<1>8. CASE HostControlEnds \/ ConfirmCertificate \/ SavePins \/ OthersSavePins \/ UNCHANGED vars
  BY <1>8, NothingChanged DEF HostControlEnds, ConfirmCertificate, SavePins, OthersSavePins, vars, hostVars, viewerVars
<1> QED
  BY <1>1, <1>2, <1>3, <1>4, <1>5, <1>6, <1>7, <1>8
  DEF Next, HostHandshake, HostCapture, HostControl, ViewerHandshake, ViewerMedia

LEMMA SessionInvariant == Spec => []SessionInv
  BY InitSession, NextSession, PTL DEF Spec

\* The picture goes only to a viewer that has proved the password, over a
\* connection whose certificate it had pinned or has shown (dc-session lib.rs:20-66,
\* dc-transport lib.rs:283-327), whatever builds meet and however often.
THEOREM MediaAuthenticated == Spec => []MediaIsAuthenticated
<1>1. SessionInv => MediaIsAuthenticated
  BY DEF SessionInv, Connected, Proved, ViewerProved, MediaIsAuthenticated
<1> QED
  BY <1>1, SessionInvariant, PTL

\* No message of the host is one the viewer does not expect, for every pair of
\* feature sets (main.rs:540-547, 1864-1871, 2042-2066).
THEOREM NegotiationHolds == Spec => []NothingUnnegotiated
<1>1. SessionInv => NothingUnnegotiated
  <2> SUFFICES ASSUME SessionInv, viewer \in {"media", "playing"}, NEW m \in ToSet(reliable) \cup datagrams
               PROVE  Understood(m)
    BY DEF NothingUnnegotiated
  <2>1. host = "streaming" /\ link = "up"
    BY DEF SessionInv, MediaFits, ToSet
  <2>2. m \in OnStream \cup AsDatagrams
    <3>1. reliable \in Seq(OnStream) /\ datagrams \subseteq AsDatagrams
      BY <2>1 DEF SessionInv, MediaFits
    <3>2. ToSet(reliable) \subseteq OnStream
      BY <3>1 DEF ToSet
    <3> QED
      BY <3>1, <3>2
  <2>3. host_uses = viewer_uses /\ (encoder = "av1" => "av1_software" \in host_uses)
    BY <2>1 DEF SessionInv, Agreed, MediaFits
  <2>4. CASE m \in OnStream
    BY <2>3, <2>4 DEF OnStream, Uses, Message, Understood
  <2>5. CASE m \in AsDatagrams
    BY <2>3, <2>5 DEF AsDatagrams, Uses, Message, Understood
  <2> QED
    BY <2>2, <2>4, <2>5
<1> QED
  BY <1>1, SessionInvariant, PTL

(***************************************************************************)
(* Types                                                                   *)
(***************************************************************************)
\* How many messages the control stream holds in either direction, given how far the
\* two ends have come: each waits for the other's answer, but for OpenDesktop behind
\* Authenticated and the first RateHint.
Lanes(n, m) == Len(to_host) = n /\ Len(to_viewer) = m
Opened == host \in {"first_frame", "streaming"}
InStep ==
  IF link # "up" THEN to_host = <<>> /\ to_viewer = <<>>
  ELSE \/ viewer = "hello" /\ host = "hello" /\ Lanes(0, 0)
       \/ viewer = "challenge" /\ host = "hello" /\ Lanes(1, 0)
       \/ viewer = "challenge" /\ host = "proof" /\ Lanes(0, 1)
       \/ viewer = "result" /\ host = "proof" /\ Lanes(1, 0)
       \/ viewer = "result" /\ host = "open" /\ Lanes(0, 1)
       \/ viewer = "result" /\ Opened /\ Lanes(0, 2)
       \/ viewer = "desktop" /\ host = "open" /\ Lanes(0, 0)
       \/ viewer = "desktop" /\ Opened /\ Lanes(0, 1)
       \/ viewer = "media" /\ Opened /\ Lanes(0, 0)
       \/ viewer = "playing" /\ Opened /\ (Lanes(0, 0) \/ Lanes(1, 0))

\* At most one message is in a media lane.
AtMostOne(S) == S = {} \/ \E m : S = {m}
Sparse == AtMostOne(datagrams) /\ (reliable = <<>> \/ \E m : reliable = <<m>>)

\* The values a variable may have, apart from the lanes and the pins.
Steps ==
  /\ host \in HostSteps \cup {"down", "accepting", "stopping"}
  /\ certificate \in 0..MaxHosts /\ (host # "down" => certificate # 0)
  /\ viewer \in ViewerSteps \cup {"down", "connecting"}
  /\ viewers \in 0..MaxViewers
  /\ password \in Passwords
  /\ host_build \subseteq Feature /\ host_uses \subseteq Feature
  /\ viewer_build \subseteq Feature /\ viewer_uses \subseteq Feature
  /\ encoder \in Encoders \cup {"none"}
  /\ shutdown \in BOOLEAN
  /\ link \in {"none", "up", "closed"}

Trusted == PinTypeOK /\ {pinned, observed} \subseteq Fingerprint \cup {NoPin}

LEMMA Longer ==
  ASSUME NEW S, NEW q \in Seq(S), NEW m
  PROVE  Len(Append(q, m)) = Len(q) + 1
<1>1. q \in Seq(S \cup {m})
  BY SeqMonotonic
<1> QED
  BY <1>1, AppendProperties

LEMMA Shorter ==
  ASSUME NEW S, NEW q \in Seq(S)
  PROVE  /\ Len(q) \in Nat /\ (q = <<>> <=> Len(q) = 0)
         /\ q # <<>> => Len(Tail(q)) = Len(q) - 1
BY HeadTailProperties, EmptySeq, LenProperties

\* A closed connection has empty lanes.
LEMMA ClosedInStep ==
  ASSUME Closing
  PROVE  InStep'
BY DEF Closing, InStep

\* Processes start, and fail to connect, while there is no connection.
LEMMA NoLanesYet ==
  ASSUME SessionInv, InStep, HostStart \/ HostThreadEnds \/ ViewerStart \/ ConnectRefused \/ ConnectFails
  PROVE  InStep'
<1>1. link # "up"
  BY DEF SessionInv, Connected, HostSteps, ViewerSteps, HostStart, HostThreadEnds, ViewerStart, ConnectRefused,
     ConnectFails
<1>2. UNCHANGED <<link, to_host, to_viewer>>
  BY DEF HostStart, HostThreadEnds, ViewerStart, ConnectRefused, ConnectFails, wires
<1> QED
  BY <1>1, <1>2 DEF InStep

LEMMA ConnectInStep ==
  ASSUME Connect
  PROVE  InStep'
<1>1. /\ viewer' = "hello" /\ host' = "hello" /\ link' = "up" /\ to_host' = <<>> /\ to_viewer' = <<>>
  BY DEF Connect
<1>2. Len(to_host') = 0 /\ Len(to_viewer') = 0
  BY <1>1
<1> QED
  BY <1>1, <1>2 DEF InStep, Lanes

\* What the viewer sends and takes.
LEMMA ViewerInStep ==
  ASSUME SessionInv, InStep, SendHello \/ ViewerProves \/ ViewerAuthenticated \/ ViewerOpens \/ ViewerAcceptsStream
  PROVE  InStep'
<1>1. link = "up" /\ link' = "up" /\ UNCHANGED host
  BY DEF SendHello, ViewerProves, ViewerAuthenticated, ViewerOpens, ViewerAcceptsStream, hostVars
<1>2. to_host \in Seq(ToHostMsg) /\ to_viewer \in Seq(ToViewerMsg)
  BY <1>1 DEF SessionInv, Connected
<1>3. PICK n \in Nat, m \in Nat : n = Len(to_host) /\ m = Len(to_viewer)
  BY <1>2, Shorter
<1>4. to_viewer # <<>> => m # 0 /\ Len(Tail(to_viewer)) = m - 1
  BY <1>2, <1>3, Shorter
<1>5. \A x : Len(Append(to_host, x)) = n + 1
  BY <1>2, <1>3, Longer
<1>6. \/ viewer = "hello" /\ host = "hello" /\ n = 0 /\ m = 0
      \/ viewer = "challenge" /\ host = "hello" /\ n = 1 /\ m = 0
      \/ viewer = "challenge" /\ host = "proof" /\ n = 0 /\ m = 1
      \/ viewer = "result" /\ host = "proof" /\ n = 1 /\ m = 0
      \/ viewer = "result" /\ host = "open" /\ n = 0 /\ m = 1
      \/ viewer = "result" /\ Opened /\ n = 0 /\ m = 2
      \/ viewer = "desktop" /\ host = "open" /\ n = 0 /\ m = 0
      \/ viewer = "desktop" /\ Opened /\ n = 0 /\ m = 1
      \/ viewer = "media" /\ Opened /\ n = 0 /\ m = 0
      \/ viewer = "playing" /\ Opened /\ n \in {0, 1} /\ m = 0
  BY <1>1, <1>3 DEF InStep, Lanes
<1>7. CASE SendHello
  <2>1. viewer = "hello" /\ viewer' = "challenge" /\ Len(to_host') = n + 1 /\ UNCHANGED to_viewer
    BY <1>5, <1>7 DEF SendHello, ToHost
  <2> QED
    BY <1>1, <1>3, <1>6, <2>1 DEF InStep, Lanes, Opened
<1>8. CASE ViewerProves
  <2>1. viewer = "challenge" /\ viewer' = "result" /\ Len(to_host') = n + 1
        /\ to_viewer # <<>> /\ to_viewer' = Tail(to_viewer)
    BY <1>5, <1>8 DEF ViewerProves, ToHost, ViewerReceives
  <2>2. m # 0 /\ Len(to_viewer') = m - 1
    BY <1>4, <2>1
  <2> QED
    BY <1>1, <1>3, <1>6, <2>1, <2>2 DEF InStep, Lanes, Opened
<1>9. CASE ViewerAuthenticated
  <2>1. viewer = "result" /\ viewer' = "desktop" /\ UNCHANGED to_host
        /\ to_viewer # <<>> /\ to_viewer' = Tail(to_viewer)
    BY <1>9 DEF ViewerAuthenticated, ViewerReceives
  <2>2. m # 0 /\ Len(to_viewer') = m - 1
    BY <1>4, <2>1
  <2> QED
    BY <1>1, <1>3, <1>6, <2>1, <2>2 DEF InStep, Lanes, Opened
<1>10. CASE ViewerOpens
  <2>1. /\ viewer = "desktop" /\ to_viewer # <<>> /\ to_viewer' = Tail(to_viewer)
        /\ \/ viewer' = "media" /\ UNCHANGED to_host
           \/ viewer' = "playing" /\ Len(to_host') = n + 1
    BY <1>5, <1>10 DEF ViewerOpens, StartPlaying, ToHost
  <2>2. m # 0 /\ Len(to_viewer') = m - 1
    BY <1>4, <2>1
  <2>3. Opened /\ n = 0 /\ m = 1
    BY <1>6, <2>1, <2>2
  <2>4. Opened' /\ Len(to_viewer') = 0
    BY <1>1, <2>2, <2>3 DEF Opened
  <2>5. CASE viewer' = "media" /\ UNCHANGED to_host
    BY <1>1, <1>3, <2>3, <2>4, <2>5 DEF InStep, Lanes
  <2>6. CASE viewer' = "playing" /\ Len(to_host') = n + 1
    BY <1>1, <2>3, <2>4, <2>6 DEF InStep, Lanes
  <2> QED
    BY <2>1, <2>5, <2>6
<1>11. CASE ViewerAcceptsStream
  <2>1. viewer = "media" /\ viewer' = "playing" /\ Len(to_host') = n + 1 /\ UNCHANGED to_viewer
    BY <1>5, <1>11 DEF ViewerAcceptsStream, StartPlaying, ToHost
  <2> QED
    BY <1>1, <1>3, <1>6, <2>1 DEF InStep, Lanes, Opened
<1> QED
  BY <1>7, <1>8, <1>9, <1>10, <1>11

\* What the host sends and takes.
LEMMA HostInStep ==
  ASSUME SessionInv, InStep, HostChallenges \/ HostAuthenticates \/ HostOpens \/ HostControlReceives
  PROVE  InStep'
<1>1. link = "up" /\ link' = "up" /\ UNCHANGED viewer
  BY DEF HostChallenges, HostAuthenticates, HostOpens, HostControlReceives, viewerVars
<1>2. to_host \in Seq(ToHostMsg) /\ to_viewer \in Seq(ToViewerMsg)
  BY <1>1 DEF SessionInv, Connected
<1>3. PICK n \in Nat, m \in Nat : n = Len(to_host) /\ m = Len(to_viewer)
  BY <1>2, Shorter
<1>4. to_host # <<>> => n # 0 /\ Len(Tail(to_host)) = n - 1
  BY <1>2, <1>3, Shorter
<1>5. \A x : Len(Append(to_viewer, x)) = m + 1
  BY <1>2, <1>3, Longer
<1>6. \/ viewer = "hello" /\ host = "hello" /\ n = 0 /\ m = 0
      \/ viewer = "challenge" /\ host = "hello" /\ n = 1 /\ m = 0
      \/ viewer = "challenge" /\ host = "proof" /\ n = 0 /\ m = 1
      \/ viewer = "result" /\ host = "proof" /\ n = 1 /\ m = 0
      \/ viewer = "result" /\ host = "open" /\ n = 0 /\ m = 1
      \/ viewer = "result" /\ Opened /\ n = 0 /\ m = 2
      \/ viewer = "desktop" /\ host = "open" /\ n = 0 /\ m = 0
      \/ viewer = "desktop" /\ Opened /\ n = 0 /\ m = 1
      \/ viewer = "media" /\ Opened /\ n = 0 /\ m = 0
      \/ viewer = "playing" /\ Opened /\ n \in {0, 1} /\ m = 0
  BY <1>1, <1>3 DEF InStep, Lanes
<1>7. CASE HostChallenges
  <2>1. /\ host = "hello" /\ host' = "proof" /\ Len(to_viewer') = m + 1
        /\ to_host # <<>> /\ to_host' = Tail(to_host)
    BY <1>5, <1>7 DEF HostChallenges, HostReceives, ToViewer
  <2>2. n # 0 /\ Len(to_host') = n - 1
    BY <1>4, <2>1
  <2> QED
    BY <1>1, <1>3, <1>6, <2>1, <2>2 DEF InStep, Lanes, Opened
<1>8. CASE HostAuthenticates
  <2>1. /\ host = "proof" /\ host' = "open" /\ Len(to_viewer') = m + 1
        /\ to_host # <<>> /\ to_host' = Tail(to_host)
    BY <1>5, <1>8 DEF HostAuthenticates, HostReceives, ToViewer
  <2>2. n # 0 /\ Len(to_host') = n - 1
    BY <1>4, <2>1
  <2> QED
    BY <1>1, <1>3, <1>6, <2>1, <2>2 DEF InStep, Lanes, Opened
<1>9. CASE HostOpens
  <2>1. host = "open" /\ host' = "first_frame" /\ Len(to_viewer') = m + 1 /\ UNCHANGED to_host
    BY <1>5, <1>9 DEF HostOpens, ToViewer
  <2>2. (viewer = "result" /\ n = 0 /\ m = 1) \/ (viewer = "desktop" /\ n = 0 /\ m = 0)
    BY <1>6, <2>1 DEF Opened
  <2>3. CASE viewer = "result" /\ n = 0 /\ m = 1
    BY <1>1, <1>3, <2>1, <2>3 DEF InStep, Lanes, Opened
  <2>4. CASE viewer = "desktop" /\ n = 0 /\ m = 0
    BY <1>1, <1>3, <2>1, <2>4 DEF InStep, Lanes, Opened
  <2> QED
    BY <2>2, <2>3, <2>4
<1>10. CASE HostControlReceives
  <2>1. /\ Opened /\ UNCHANGED <<host, to_viewer>>
        /\ to_host # <<>> /\ to_host' = Tail(to_host)
    BY <1>10 DEF HostControlReceives, HostReceives, Opened, hostVars
  <2>2. n # 0 /\ Len(to_host') = n - 1
    BY <1>4, <2>1
  <2> QED
    BY <1>1, <1>3, <1>6, <2>1, <2>2 DEF InStep, Lanes, Opened
<1> QED
  BY <1>7, <1>8, <1>9, <1>10

\* Steps that send nothing on the control stream and take nothing from it.
LEMMA ElseInStep ==
  ASSUME SessionInv, InStep,
         \/ HostFirstFrame \/ HostControlEnds \/ HostSendsOnStream \/ HostSendsDatagrams
         \/ ViewerMedia \/ ConfirmCertificate \/ SavePins \/ OthersSavePins \/ UNCHANGED vars
  PROVE  InStep'
<1>1. UNCHANGED <<link, viewer, to_host, to_viewer>>
  BY DEF HostFirstFrame, HostControlEnds, HostSendsOnStream, HostSendsDatagrams, ViewerMedia, ViewerTakesKeyframe,
     ViewerTakesDatagrams, ConfirmCertificate, SavePins, OthersSavePins, vars, viewerVars, wires
<1>2. UNCHANGED host \/ (Opened /\ Opened')
  BY DEF HostFirstFrame, HostControlEnds, HostSendsOnStream, HostSendsDatagrams, ViewerMedia, ViewerTakesKeyframe,
     ViewerTakesDatagrams, ConfirmCertificate, SavePins, OthersSavePins, vars, hostVars, Opened
<1> QED
  BY <1>1, <1>2 DEF InStep, Lanes, Opened

LEMMA NextInStep == SessionInv /\ InStep /\ [Next]_vars => InStep'
<1> SUFFICES ASSUME SessionInv, InStep, [Next]_vars PROVE InStep'
  OBVIOUS
<1>1. CASE HostStart \/ HostThreadEnds \/ ViewerStart \/ ConnectRefused \/ ConnectFails
  BY <1>1, NoLanesYet
<1>2. CASE Connect
  BY <1>2, ConnectInStep
<1>3. CASE \/ HostRefusesVersion \/ HostRejects \/ HostFails \/ HostHasNoDatagrams \/ HostShutsDown \/ HostHasNoEncoder
           \/ ViewerIsNotPermitted \/ ViewerHasNoDatagrams \/ ViewerFails \/ ViewerCloses \/ LinkBreaks
  <2>1. Closing
    BY <1>3 DEF HostRefusesVersion, HostRejects, HostFails, HostHasNoDatagrams, HostShutsDown, HostHasNoEncoder,
       ViewerIsNotPermitted, ViewerHasNoDatagrams, ViewerFails, ViewerCloses, LinkBreaks, HostEnds, HostStops,
       HostLeaves, ViewerEnds
  <2> QED
    BY <2>1, ClosedInStep
<1>4. CASE SendHello \/ ViewerProves \/ ViewerAuthenticated \/ ViewerOpens \/ ViewerAcceptsStream
  BY <1>4, ViewerInStep
<1>5. CASE HostChallenges \/ HostAuthenticates \/ HostOpens \/ HostControlReceives
  BY <1>5, HostInStep
<1>6. CASE \/ HostFirstFrame \/ HostControlEnds \/ HostSendsOnStream \/ HostSendsDatagrams
           \/ ViewerMedia \/ ConfirmCertificate \/ SavePins \/ OthersSavePins \/ UNCHANGED vars
  BY <1>6, ElseInStep
<1> QED
  BY <1>1, <1>2, <1>3, <1>4, <1>5, <1>6 DEF Next, HostHandshake, HostCapture, HostControl, ViewerHandshake

\* A media message is sent only into an empty lane.
LEMMA NextSparse == Sparse /\ [Next]_vars => Sparse'
<1> SUFFICES ASSUME Sparse, [Next]_vars PROVE Sparse'
  OBVIOUS
<1>1. CASE Closing \/ Connect
  BY <1>1 DEF Closing, Connect, Sparse, AtMostOne
<1>2. CASE HostSendsOnStream
  BY <1>2 DEF HostSendsOnStream, Sparse, AtMostOne
<1>3. CASE HostSendsDatagrams
  BY <1>3 DEF HostSendsDatagrams, Sparse, AtMostOne
<1>4. CASE ViewerTakesKeyframe
  <2>1. PICK m : reliable = <<m>>
    BY <1>4 DEF ViewerTakesKeyframe, Sparse
  <2>2. reliable' = <<>> /\ datagrams' = datagrams
    BY <1>4, <2>1 DEF ViewerTakesKeyframe
  <2> QED
    BY <2>2 DEF Sparse, AtMostOne
<1>5. CASE ViewerTakesDatagrams
  BY <1>5 DEF ViewerTakesDatagrams, Sparse, AtMostOne
<1>6. CASE UNCHANGED <<reliable, datagrams>>
  BY <1>6 DEF Sparse, AtMostOne
<1>7. CASE HostHandshake \/ HostCapture \/ HostControl \/ HostStart \/ HostThreadEnds
  BY <1>1, <1>6, <1>7 DEF HostThreadEnds, HostHandshake, HostCapture, HostControl, HostStart, HostChallenges, HostRefusesVersion,
     HostAuthenticates, HostRejects, HostFails, HostOpens, HostHasNoDatagrams, HostShutsDown, HostFirstFrame,
     HostHasNoEncoder, HostControlReceives, HostControlEnds, HostEnds, HostStops, HostLeaves, wires
<1>8. CASE ViewerHandshake \/ ViewerCloses \/ ViewerStart
  BY <1>1, <1>6, <1>8 DEF ViewerHandshake, ViewerCloses, ViewerStart, ConnectRefused, ConnectFails, SendHello,
     ViewerProves, ViewerAuthenticated, ViewerIsNotPermitted, ViewerOpens, ViewerHasNoDatagrams, ViewerAcceptsStream,
     ViewerFails, ViewerEnds, StartPlaying, wires
<1>9. CASE ConfirmCertificate \/ SavePins \/ OthersSavePins \/ LinkBreaks \/ UNCHANGED vars
  BY <1>1, <1>6, <1>9 DEF ConfirmCertificate, SavePins, OthersSavePins, LinkBreaks, wires, vars
<1> QED
  BY <1>2, <1>3, <1>4, <1>5, <1>7, <1>8, <1>9 DEF Next, ViewerMedia

\* What an end makes of the features both have is among its own.
LEMMA UsesOwn == \A a \in SUBSET Feature : \A b : InUse(a \cap b) \subseteq Feature
BY DEF InUse

LEMMA BuildsAreFeatures ==
  ASSUME NEW builds \in Builds
  PROVE  builds[1] \subseteq Feature /\ builds[2] \subseteq Feature
BY SessionAssumption DEF Builds

LEMMA NextSteps == Steps /\ [Next]_vars => Steps'
<1> SUFFICES ASSUME Steps, [Next]_vars PROVE Steps'
  OBVIOUS
<1> USE DEF Steps
<1>1. CASE HostStart
  <2>1. certificate' \in 0..MaxHosts /\ certificate' # 0
    BY <1>1, SessionAssumption DEF HostStart
  <2> QED
    BY <1>1, <2>1 DEF HostStart, viewerVars, wires
<1>2. CASE ViewerStart
  <2>1. viewers' \in 0..MaxViewers
    BY <1>2, SessionAssumption DEF ViewerStart
  <2> QED
    BY <1>2, <2>1 DEF ViewerStart, hostVars, wires
<1>3. CASE Connect
  <2>1. host_build' \subseteq Feature /\ viewer_build' \subseteq Feature
    BY <1>3, BuildsAreFeatures DEF Connect
  <2>2. host' \in HostSteps /\ viewer' \in ViewerSteps /\ certificate # 0
    BY <1>3 DEF Connect, HostSteps, ViewerSteps
  <2> QED
    BY <1>3, <2>1, <2>2 DEF Connect
<1>4. CASE HostHandshake
  <2>1. CASE HostChallenges
    <3>1. host_uses' \subseteq Feature
      BY <2>1, UsesOwn DEF HostChallenges
    <3> QED
      BY <2>1, <3>1 DEF HostChallenges, HostSteps, viewerVars
  <2>2. CASE HostAuthenticates \/ HostOpens
    BY <2>2 DEF HostAuthenticates, HostOpens, HostSteps, viewerVars
  <2>3. CASE HostEnds
    BY <2>3 DEF HostEnds, HostLeaves, Closing, viewerVars
  <2>4. CASE host = "streaming" /\ HostStops
    BY <2>4 DEF HostStops, HostLeaves, Closing, viewerVars
  <2> QED
    BY <1>4, <2>1, <2>2, <2>3, <2>4 DEF HostHandshake, HostRefusesVersion, HostRejects, HostFails, HostHasNoDatagrams,
       HostShutsDown
<1>5. CASE HostCapture
  <2>1. CASE HostFirstFrame
    BY <2>1 DEF HostFirstFrame, HostSteps, viewerVars, wires
  <2>2. CASE HostEnds
    BY <2>2 DEF HostEnds, HostLeaves, Closing, viewerVars
  <2> QED
    BY <1>5, <2>1, <2>2 DEF HostCapture, HostHasNoEncoder
<1>6. CASE HostControl \/ HostSendsOnStream \/ HostSendsDatagrams \/ ViewerMedia
  BY <1>6 DEF HostControl, HostControlReceives, HostControlEnds, HostSendsOnStream, HostSendsDatagrams, ViewerMedia,
     ViewerTakesKeyframe, ViewerTakesDatagrams, hostVars, viewerVars, wires
<1>7. CASE ViewerHandshake
  <2>1. CASE ConnectRefused \/ ConnectFails
    BY <2>1 DEF ConnectRefused, ConnectFails, hostVars, wires
  <2>2. CASE ViewerAuthenticated
    <3>1. viewer_uses' \subseteq Feature
      BY <2>2, UsesOwn DEF ViewerAuthenticated
    <3> QED
      BY <2>2, <3>1 DEF ViewerAuthenticated, ViewerSteps, hostVars
  <2>3. CASE SendHello \/ ViewerProves \/ ViewerOpens \/ ViewerAcceptsStream
    BY <2>3 DEF SendHello, ViewerProves, ViewerOpens, ViewerAcceptsStream, StartPlaying, ViewerSteps, hostVars
  <2>4. CASE ViewerEnds
    BY <2>4 DEF ViewerEnds, Closing, hostVars
  <2> QED
    BY <1>3, <1>7, <2>1, <2>2, <2>3, <2>4 DEF ViewerHandshake, ViewerIsNotPermitted, ViewerHasNoDatagrams, ViewerFails
<1>8. CASE ViewerCloses
  BY <1>8 DEF ViewerCloses, ViewerEnds, Closing, hostVars
<1>9. CASE ConfirmCertificate \/ SavePins \/ OthersSavePins \/ LinkBreaks \/ UNCHANGED vars
  BY <1>9 DEF ConfirmCertificate, SavePins, OthersSavePins, LinkBreaks, Closing, hostVars, viewerVars, wires, vars
<1>10. CASE HostThreadEnds
  BY <1>10 DEF HostThreadEnds, HostSteps, viewerVars, wires
<1> QED
  BY <1>1, <1>2, <1>4, <1>5, <1>6, <1>7, <1>8, <1>9, <1>10 DEF Next

\* What a pin store holds are fingerprints of certificates.
LEMMA NextTrusted == Steps /\ PinInv /\ Trusted /\ [Next]_vars => Trusted'
<1> SUFFICES ASSUME Steps, PinInv, Trusted, [Next]_vars PROVE Trusted'
  OBVIOUS
<1>1. PinTypeOK /\ pinned \in Fingerprint \cup {NoPin} /\ observed \in Fingerprint \cup {NoPin}
  BY DEF Trusted
<1>2. PinTypeOK'
  <2> USE DEF PinTypeOK, Pins
  <2>1. CASE PinsUntouched
    BY <1>1, <2>1 DEF PinsUntouched, pinVars
  <2>2. CASE PinsLost
    BY <1>1, <2>2 DEF PinsLost, LosePins, CutOff, NoPins
  <2>3. CASE PinsLoaded
    BY <1>1, <2>3 DEF PinsLoaded, LoadPins
  <2>4. CASE PinsSaved
    <3>1. CASE WritePins
      BY <1>1, <3>1 DEF WritePins
    <3>2. CASE WritePinsFails
      BY <1>1, <3>2 DEF WritePinsFails, CutOff
    <3>3. CASE RenamePins \/ RenamePinsFails
      BY <1>1, <3>3 DEF RenamePins, RenamePinsFails
    <3> QED
      BY <2>4, <3>1, <3>2, <3>3 DEF PinsSaved
  <2>5. CASE PinChecked
    <3>1. observed \in Fingerprint /\ Address \in Endpoint
      BY <1>1, <2>5, SessionAssumption DEF PinChecked
    <3>2. PICK confirm \in BOOLEAN : VerifyOrRecord(Address, observed, confirm)
      BY <2>5 DEF PinChecked
    <3> QED
      BY <1>1, <3>1, <3>2 DEF VerifyOrRecord
  <2>6. CASE PinsElsewhere
    BY <1>1, <2>6 DEF PinsElsewhere, NeighbourWrites, NeighbourRenames, HeldElsewhere
  <2> QED
    BY <2>1, <2>2, <2>3, <2>4, <2>5, <2>6, PinSteps DEF PinStep
<1>3. pinned' \in Fingerprint \cup {NoPin} /\ observed' \in Fingerprint \cup {NoPin}
  <2>1. CASE ViewerStart
    <3>1. pins'[Address] \in Fingerprint \cup {NoPin}
      BY <1>2, SessionAssumption DEF PinTypeOK, Pins
    <3>2. host = "accepting" => certificate \in Fingerprint
      BY SessionAssumption DEF Steps
    <3> QED
      BY <2>1, <3>1, <3>2 DEF ViewerStart
  <2>2. CASE Connect
    <3>1. certificate \in Fingerprint
      BY <2>2, SessionAssumption DEF Connect, Steps
    <3> QED
      BY <1>1, <2>2, <3>1 DEF Connect
  <2>3. CASE UNCHANGED <<pinned, observed>>
    BY <1>1, <2>3
  <2>4. CASE \/ HostStart \/ HostThreadEnds \/ HostHandshake \/ HostCapture \/ HostControl
             \/ HostSendsOnStream \/ HostSendsDatagrams
    BY <2>3, <2>4 DEF HostStart, HostThreadEnds, HostHandshake, HostCapture, HostControl, HostSendsOnStream, HostSendsDatagrams,
       HostChallenges, HostRefusesVersion, HostAuthenticates, HostRejects, HostFails, HostOpens,
       HostHasNoDatagrams, HostShutsDown, HostFirstFrame, HostHasNoEncoder, HostControlReceives,
       HostControlEnds, HostEnds, HostStops, HostLeaves, viewerVars
  <2>5. CASE ViewerHandshake \/ ViewerMedia \/ ViewerCloses
    BY <2>2, <2>3, <2>5 DEF ViewerHandshake, ViewerMedia, ViewerCloses, ConnectRefused, ConnectFails, SendHello,
       ViewerProves, ViewerAuthenticated, ViewerIsNotPermitted, ViewerOpens, ViewerHasNoDatagrams,
       ViewerAcceptsStream, ViewerFails, ViewerEnds, StartPlaying, ViewerTakesKeyframe, ViewerTakesDatagrams, viewerVars
  <2>6. CASE ConfirmCertificate \/ SavePins \/ OthersSavePins \/ LinkBreaks \/ UNCHANGED vars
    BY <2>3, <2>6 DEF ConfirmCertificate, SavePins, OthersSavePins, LinkBreaks, viewerVars, vars
  <2> QED
    BY <2>1, <2>4, <2>5, <2>6 DEF Next
<1> QED
  BY <1>2, <1>3 DEF Trusted

LEMMA InitTypes == Init => InStep /\ Sparse /\ Steps /\ Trusted
<1> SUFFICES ASSUME Init PROVE InStep /\ Sparse /\ Steps /\ Trusted
  OBVIOUS
<1>1. InStep /\ Sparse
  BY DEF Init, InStep, Sparse, AtMostOne
<1>2. Steps
  <2>1. certificate \in 0..MaxHosts /\ viewers \in 0..MaxViewers
    BY SessionAssumption DEF Init
  <2>2. password \in Passwords
    BY DEF Init, Passwords
  <2>3. host_build \subseteq Feature /\ host_uses \subseteq Feature /\ viewer_build \subseteq Feature /\ viewer_uses \subseteq Feature
    BY DEF Init
  <2> QED
    BY <2>1, <2>2, <2>3 DEF Init, Steps
<1>3. Trusted
  BY DEF Init, Trusted, PinInit, PinTypeOK, Pins, NoPins
<1> QED
  BY <1>1, <1>2, <1>3

LEMMA TypesHold == InStep /\ Sparse /\ Steps /\ Trusted /\ SessionInv => TypeOK
<1> SUFFICES ASSUME InStep, Sparse, Steps, Trusted, SessionInv PROVE TypeOK
  OBVIOUS
<1>1. Len(to_host) <= 1 /\ Len(to_viewer) <= 2
  <2>1. CASE link = "up"
    <3>1. (Len(to_host) = 0 \/ Len(to_host) = 1) /\ (Len(to_viewer) = 0 \/ Len(to_viewer) = 1 \/ Len(to_viewer) = 2)
      BY <2>1 DEF InStep, Lanes
    <3> QED
      BY <3>1
  <2>2. CASE link # "up"
    <3>1. to_host = <<>> /\ to_viewer = <<>>
      BY <2>2 DEF InStep
    <3>2. Len(to_host) = 0 /\ Len(to_viewer) = 0
      BY <3>1
    <3> QED
      BY <3>2
  <2> QED
    BY <2>1, <2>2
<1>2. Len(reliable) <= 1
  <2>1. CASE reliable = <<>>
    <3>1. Len(reliable) = 0
      BY <2>1
    <3> QED
      BY <3>1
  <2>2. CASE reliable # <<>>
    <3>1. PICK m : reliable = <<m>>
      BY <2>2 DEF Sparse
    <3>2. Len(reliable) = 1
      BY <3>1
    <3> QED
      BY <3>2
  <2> QED
    BY <2>1, <2>2
<1>3. Cardinality(datagrams) <= 1
  <2>1. Cardinality(datagrams) = 0 \/ Cardinality(datagrams) = 1
    <3>1. CASE datagrams = {}
      BY <3>1, FS_EmptySet
    <3>2. ASSUME NEW m, datagrams = {m} PROVE Cardinality(datagrams) = 1
      BY <3>2, FS_Singleton
    <3> QED
      BY <3>1, <3>2 DEF Sparse, AtMostOne
  <2> QED
    BY <2>1
<1>4. UNION {host_build, host_uses, viewer_build, viewer_uses} \subseteq Feature
  BY DEF Steps
<1> QED
  BY <1>1, <1>2, <1>3, <1>4 DEF Steps, Trusted, TypeOK

\* No lane of the handshake ever holds more than the other end still has to answer, every
\* feature in use is one of the build, and every pin is the fingerprint of a certificate
\* (main.rs:498-611, 1817-1910, dc-session lib.rs:20-66, dc-transport lib.rs:363-434).
THEOREM SessionTypes == Spec => []TypeOK
<1> DEFINE Types == InStep /\ Sparse /\ Steps /\ Trusted
<1>1. Init => Types
  BY InitTypes
<1>2. Types /\ SessionInv /\ PinInv /\ [Next]_vars => Types'
  BY NextInStep, NextSparse, NextSteps, NextTrusted
<1>3. Types /\ SessionInv => TypeOK
  BY TypesHold
<1> HIDE DEF Types
<1> QED
  BY <1>1, <1>2, <1>3, SessionInvariant, PinInvariant, PTL DEF Spec
=============================================================================
