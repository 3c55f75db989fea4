------------------------------- MODULE NalLane -------------------------------
(***************************************************************************)
(* The Datagram lane of H.264 frames between peers that both know DCVN: an *)
(* access unit is split into NAL units, each NAL unit into fragments, and  *)
(* H264NalDatagramReassembler puts them together.  Fragments are lost and  *)
(* reordered; time is free, so that a partial frame may expire at any      *)
(* moment.                                                                 *)
(***************************************************************************)
EXTENDS Integers, Sequences, FiniteSets, FiniteSetsExt, SequencesExt

CONSTANTS
  Base,           \* values of a byte
  AccessUnit,     \* what the encoder may produce: [units, format]
  PayloadSize,    \* max_datagram_size - NAL_HEADER_LEN
  InFlightMax,    \* MAX_IN_FLIGHT
  MaxSequence     \* bound: frames sent

ASSUME NalAssumption == {Base, PayloadSize, InFlightMax, MaxSequence} \subseteq Nat \ {0}

VARIABLES
  sent,           \* what was sent, by sequence number
  flight,         \* fragments on their way
  frames,         \* the reassembler's partial frames, by sequence number
  latest,         \* latest_completed, 0 for none
  arrivals,       \* messages handed to the viewer: <<sequence, data>>
  spoilt          \* history: frames with a fragment lost, or displaced, or expired

vars == <<sent, flight, frames, latest, arrivals, spoilt>>

-----------------------------------------------------------------------------
\* The two encodings of a list of NAL units; a start code is three or four bytes
\* long.

StartCode == <<0, 0, 1>>

Digits(n) == <<n \div Base^3, (n \div Base^2) % Base, (n \div Base) % Base, n % Base>>

AnnexB(prefix, units) == FlattenSeq([i \in DOMAIN units |-> prefix \o units[i]])
Avcc(units) == FlattenSeq([i \in DOMAIN units |-> Digits(Len(units[i])) \o units[i]])

Encoded(unit) ==
  CASE unit.format = "short" -> AnnexB(StartCode, unit.units)
    [] unit.format = "long"  -> AnnexB(<<0>> \o StartCode, unit.units)
    [] unit.format = "avcc"  -> Avcc(unit.units)

\* Where the bytes 0 0 1 begin.
Codes(bytes) == { p \in 1..(Len(bytes) - 2) : SubSeq(bytes, p, p + 2) = StartCode }

\* Mutant: the start code is taken to be three bytes long.
Delimiter_Short(bytes, p) == p

\* A zero in front of a start code belongs to it.
Delimiter(bytes, p) == IF p > 1 /\ bytes[p - 1] = 0 THEN p - 1 ELSE p

SplitAvcc(bytes) ==
  LET Value(o) == ((bytes[o] * Base + bytes[o + 1]) * Base + bytes[o + 2]) * Base + bytes[o + 3]
      from[o \in Nat] ==
        IF o > Len(bytes) THEN <<>>
        ELSE <<SubSeq(bytes, o + 4, o + 3 + Value(o))>> \o from[o + 4 + Value(o)]
  IN from[1]

\* split_h264_nal_units: anything with a start code is Annex B.
Split(bytes) ==
  LET starts == SetToSortSeq(Codes(bytes), <)
      End(i) == IF i = Len(starts) THEN Len(bytes) ELSE Delimiter(bytes, starts[i + 1]) - 1
  IN IF starts = <<>> THEN SplitAvcc(bytes)
     ELSE SelectSeq([i \in DOMAIN starts |-> SubSeq(bytes, starts[i] + 3, End(i))],
                    LAMBDA unit : unit # <<>>)

CeilDiv(a, b) == (a + b - 1) \div b

\* packetize_h264_nal_message
Packetized(s, bytes) ==
  LET units == Split(bytes) IN
  UNION { LET count == CeilDiv(Len(units[u]), PayloadSize) IN
          { [sequence |-> s, unit |-> u, units |-> Len(units), index |-> i, count |-> count,
             unit_len |-> Len(units[u]),
             payload |-> SubSeq(units[u], (i - 1) * PayloadSize + 1,
                                IF i = count THEN Len(units[u]) ELSE i * PayloadSize)] : i \in 1..count }
        : u \in DOMAIN units }

-----------------------------------------------------------------------------
Init ==
  /\ sent = <<>>
  /\ flight = {}
  /\ frames = <<>>
  /\ latest = 0
  /\ arrivals = <<>>
  /\ spoilt = {}

Send ==
  /\ Len(sent) < MaxSequence
  /\ \E unit \in AccessUnit :
       /\ sent' = Append(sent, unit)
       /\ flight' = flight \cup Packetized(Len(sent'), Encoded(unit))
  /\ UNCHANGED <<frames, latest, arrivals, spoilt>>

Lose ==
  \E f \in flight :
    /\ flight' = flight \ {f}
    /\ spoilt' = spoilt \cup {f.sequence}
    /\ UNCHANGED <<sent, frames, latest, arrivals>>

Without(s) == [t \in DOMAIN frames \ {s} |-> frames[t]]

\* Mutant: one frame too many.
Displaced_Late(s) ==
  IF s \notin DOMAIN frames /\ Cardinality(DOMAIN frames) > InFlightMax THEN {Min(DOMAIN frames)} ELSE {}

\* A new frame takes the place of the oldest one when there is no room, be it
\* newer than the new one or not.
Displaced(s) ==
  IF s \notin DOMAIN frames /\ Cardinality(DOMAIN frames) >= InFlightMax THEN {Min(DOMAIN frames)} ELSE {}

\* What has been received of a frame, the fragment included.
With(f) == (IF f.sequence \in DOMAIN frames THEN frames[f.sequence] ELSE {}) \cup {f}

Complete(parts) ==
  \E f \in parts : \A u \in 1..f.units :
    \E g \in parts : g.unit = u /\ Cardinality({h \in parts : h.unit = u}) = g.count

Unit(parts, u) ==
  FlattenSeq([i \in 1..Cardinality({f \in parts : f.unit = u}) |->
                (CHOOSE f \in parts : f.unit = u /\ f.index = i).payload])

\* Every unit of a frame behind a four-byte start code.
Data(parts) ==
  AnnexB(<<0>> \o StartCode, [u \in 1..(CHOOSE f \in parts : TRUE).units |-> Unit(parts, u)])

\* Mutant: a frame is stale behind any newer frame, complete or not.
Stale_BehindNewest(s) == \E t \in DOMAIN frames \cup {latest} : s < t \/ s = latest

\* Frames do not overtake each other in this lane.
Stale(s) == s <= latest

Ignore ==
  \E f \in flight :
    /\ Stale(f.sequence)
    /\ flight' = flight \ {f}
    /\ UNCHANGED <<sent, frames, latest, arrivals, spoilt>>

Store ==
  \E f \in flight :
    /\ ~Stale(f.sequence)
    /\ ~Complete(With(f))
    /\ flight' = flight \ {f}
    /\ frames' = [t \in (DOMAIN frames \ Displaced(f.sequence)) \cup {f.sequence} |->
                    IF t = f.sequence THEN With(f) ELSE frames[t]]
    /\ spoilt' = spoilt \cup Displaced(f.sequence)
    /\ UNCHANGED <<sent, latest, arrivals>>

Deliver ==
  \E f \in flight :
    LET s == f.sequence IN
    /\ ~Stale(s)
    /\ Complete(With(f))
    /\ flight' = flight \ {f}
    /\ frames' = [t \in DOMAIN frames \ (Displaced(s) \cup {s}) |-> frames[t]]
    /\ spoilt' = spoilt \cup Displaced(s)
    /\ latest' = s
    /\ arrivals' = Append(arrivals, <<s, Data(With(f))>>)
    /\ UNCHANGED sent

\* REASSEMBLY_TIMEOUT
Expire ==
  \E s \in DOMAIN frames :
    /\ frames' = Without(s)
    /\ spoilt' = spoilt \cup {s}
    /\ UNCHANGED <<sent, flight, latest, arrivals>>

Next == Send \/ Lose \/ Ignore \/ Store \/ Deliver \/ Expire

Spec == Init /\ [][Next]_vars

-----------------------------------------------------------------------------
TypeOK ==
  /\ sent \in Seq(AccessUnit) /\ Len(sent) <= MaxSequence
  /\ DOMAIN frames \subseteq DOMAIN sent
  /\ Cardinality(DOMAIN frames) <= InFlightMax
  /\ \A s \in DOMAIN frames : frames[s] \subseteq Packetized(s, Encoded(sent[s])) /\ ~Complete(frames[s])
  /\ latest \in 0..Len(sent)
  /\ spoilt \subseteq DOMAIN sent

\* What the decoder gets is the access unit the encoder produced, NAL unit by NAL
\* unit, whatever its encoding; frames arrive in order and none twice.
Normal(unit) == AnnexB(<<0>> \o StartCode, unit.units)
Lane == INSTANCE OrderedLane WITH
  Content <- { Normal(unit) : unit \in AccessUnit },
  sent <- [s \in DOMAIN sent |-> Normal(sent[s])]
IsOrderedLane == Lane!Spec

\* A frame of which every fragment came, in whatever order and however mixed with
\* those of other frames, is handed on, unless it was displaced, expired, or a
\* newer frame was complete before it.
NothingHeldBack ==
  \A s \in DOMAIN sent :
    \/ \E f \in flight : f.sequence = s
    \/ s \in spoilt
    \/ s <= latest

\* Splitting an access unit gives back its NAL units (h264_nal.rs:3 "an H.264
\* access unit encoded as Annex-B or four-byte-length AVCC").
SplitIsLossless == \A s \in DOMAIN sent : Split(Encoded(sent[s])) = sent[s].units
=============================================================================
