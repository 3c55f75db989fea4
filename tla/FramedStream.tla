---------------------------- MODULE FramedStream ----------------------------
(***************************************************************************)
(* One direction of a FramedStream of dc-transport: messages of Wire, each *)
(* behind its length, on a QUIC stream that may break at any byte.         *)
(***************************************************************************)
EXTENDS Wire

CONSTANT Followers   \* what an instance sends behind its first message

ASSUME FollowersAssumption == \A m \in Followers : IsMessage(m)

VARIABLES
  bytes,             \* written by the sender and not yet read
  link,              \* the connection stands
  offered,           \* history: the message send() was last called with, if any
  sent, received,    \* history: the messages written, and those received
  receiver           \* open, or failed: its caller gives the stream up

vars == <<bytes, link, offered, sent, received, receiver>>

TypeOK ==
  /\ bytes \in Seq(0..Byte - 1)
  /\ link \in BOOLEAN
  /\ offered = <<>> \/ \E m \in Messages \cup Followers : offered = <<m>>
  /\ sent \in Seq(Messages \cup Followers) /\ Len(sent) <= 2
  /\ received \in Seq(Messages \cup Followers)
  /\ receiver \in {"open", "failed"}

Init ==
  /\ bytes = <<>> /\ link = TRUE
  /\ offered = <<>> /\ sent = <<>> /\ received = <<>>
  /\ receiver = "open"

\* Mutant: the length goes out before the message is looked at.
Framed_Early(m) ==
  BigEndian(Width.u32, Len(Laid(m))) \o (IF Encode(m) = Failed THEN <<>> ELSE Encode(m)[1])

Framed(m) ==
  IF Encode(m) = Failed THEN <<>> ELSE BigEndian(Width.u32, Len(Encode(m)[1])) \o Encode(m)[1]

\* A message that cannot be encoded is refused before a byte of it is written:
\* the stream stays in step.
send(m) ==
  /\ link
  /\ m \in IF offered = <<>> THEN Messages ELSE Followers
  /\ Len(sent) < 2
  /\ offered' = <<m>>
  /\ bytes' = bytes \o Framed(m)
  /\ sent' = IF Encode(m) = Failed THEN sent ELSE Append(sent, m)
  /\ UNCHANGED <<link, received, receiver>>

\* Whatever had not been delivered is gone.
LinkBreaks ==
  /\ link
  /\ link' = FALSE
  /\ \E n \in 0..Len(bytes) : bytes' = SubSeq(bytes, 1, n)
  /\ UNCHANGED <<offered, sent, received, receiver>>

PrefixIsThere == Len(bytes) >= Width.u32
PrefixLength == Number(SubSeq(bytes, 1, Width.u32))
PayloadIsThere == Len(bytes) >= Width.u32 + PrefixLength
Payload == SubSeq(bytes, Width.u32 + 1, Width.u32 + PrefixLength)

receive ==
  /\ receiver = "open"
  /\ PrefixIsThere
  /\ PrefixLength \in 1..MaxMessageSize
  /\ PayloadIsThere
  /\ IF Decode(Payload) = Failed
     THEN receiver' = "failed" /\ UNCHANGED received
     ELSE received' = Append(received, Decode(Payload)[1]) /\ UNCHANGED receiver
  /\ bytes' = SubSeq(bytes, Width.u32 + PrefixLength + 1, Len(bytes))
  /\ UNCHANGED <<link, offered, sent>>

\* read_exact at the end of a broken stream, or a length no message has.
receive_fails ==
  /\ receiver = "open"
  /\ IF ~PrefixIsThere THEN ~link
     ELSE \/ PrefixLength \notin 1..MaxMessageSize
          \/ ~PayloadIsThere /\ ~link
  /\ receiver' = "failed"
  /\ UNCHANGED <<bytes, link, offered, sent, received>>

Next == (\E m \in Messages \cup Followers : send(m)) \/ LinkBreaks \/ receive \/ receive_fails

Spec == Init /\ [][Next]_vars

(***************************************************************************)
(* Properties                                                              *)
(***************************************************************************)
\* An encoding, whole, cut off anywhere, and with a byte behind it.
MutilationsOf(whole) ==
  { SubSeq(whole, 1, n) : n \in 0..Len(whole) } \cup { Append(whole, 0) }

\* Both ends speak the same protocol: decode returns the message whose bytes it is
\* given, takes its bytes exactly if encode is ready to send it, and takes neither an
\* encoding that was cut off nor one with a byte behind it.  The tables of the two
\* functions, the limits they check and the bits of the capabilities are written out
\* twice in dc-protocol.
EndsAgree ==
  \A i \in DOMAIN offered :
    LET m == offered[i]
    IN  \A input \in MutilationsOf(Laid(m)) :
          Decode(input) = IF Encode(m) = Ok(input) THEN Ok(m) ELSE Failed

\* The receiver sees the messages in the order they were written and gives the
\* stream up only when the connection broke, also behind a message that the sender
\* refused and wherever the stream was cut.
ReceivedAsSent ==
  /\ IsPrefix(received, sent)
  /\ receiver = "failed" => ~link

\* An encoded picture arrives as it was sent, its time-stamp cut to milliseconds;
\* codec and pixel format travel as numbers that each end looks up on its own.
PacketsSurvive ==
  \A i \in DOMAIN received :
    LET packet == message_to_packet(received[i])
        p == packet[1]
    IN  packet # Failed =>
          /\ packet_to_message(p) = received[i]
          /\ message_to_packet(packet_to_message([p EXCEPT !.timestamp = @ + Ticks - 1])) = packet
=============================================================================
