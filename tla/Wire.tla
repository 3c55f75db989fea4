-------------------------------- MODULE Wire --------------------------------
(***************************************************************************)
(* The binary messages of dc-protocol.  WireMessage::encode and decode are *)
(* two functions written out by hand, one field after the other: each has  *)
(* its own table here, of the tag of a message and of the fields it puts   *)
(* or reads in turn.  A byte has Byte values; sizes and limits are scaled. *)
(***************************************************************************)
EXTENDS Keyboard, Integers, SequencesExt, FiniteSets

CONSTANTS
  Byte,               \* how many values a byte has
  MaxMessageSize, MaxRegions, MaxNackFragments,
  Sample              \* for each type of a field, the values an instance tries, in turn

\* A Result: an Err, or Ok of a value.  An Option is the same: None, or Some of a value.
Failed == <<>>
Ok(v) == <<v>>

(***************************************************************************)
(* Values                                                                  *)
(***************************************************************************)
wire_code == [k \in KeyboardKey |-> (CHOOSE row \in KeyTable : row[1] = k)[2]]
from_wire(code) ==
  IF \E row \in KeyTable : row[2] = code
  THEN Ok((CHOOSE row \in KeyTable : row[2] = code)[1]) ELSE Failed

Bit(c, v) == IF c \in v THEN 1 ELSE 0

put_capabilities(v) ==
  Bit("desktop", v) + 2 * Bit("terminal", v) + 4 * Bit("command_execution", v)
  + 8 * Bit("file_transfer", v) + 16 * Bit("clipboard", v) + 32 * Bit("ssh_compatibility", v)
  + 64 * Bit("control_input", v) + 128 * Bit("hybrid_video", v)
  + 256 * Bit("desktop_optimizations", v) + 512 * Bit("h264_nal_datagrams", v)
  + 1024 * Bit("desktop_selective_retransmit", v) + 2048 * Bit("av1_software", v)

ReadBits ==
  [desktop |-> 1, control_input |-> 64, terminal |-> 2, command_execution |-> 4,
   file_transfer |-> 8, clipboard |-> 16, ssh_compatibility |-> 32, hybrid_video |-> 128,
   desktop_optimizations |-> 256, h264_nal_datagrams |-> 512,
   desktop_selective_retransmit |-> 1024, av1_software |-> 2048]

\* TLC's integers hold five bytes: a u64 and the arrays are cut to that.
Width == [u8 |-> 1, u16 |-> 2, u32 |-> 4, u64 |-> 5, i32 |-> 4, bool |-> 1,
          key |-> 2, capabilities |-> 2, array_16 |-> 2, array_32 |-> 3]

\* How many numbers n bytes can hold.
Capacity[n \in 0..5] == IF n = 0 THEN 1 ELSE Byte * Capacity[n - 1]

BigEndian(width, v) ==
  LET rest[n \in 0..width] == IF n = 0 THEN v ELSE rest[n - 1] \div Byte
  IN  [i \in 1..width |-> rest[width - i] % Byte]

Number(digits) ==
  LET upto[i \in 0..Len(digits)] == IF i = 0 THEN 0 ELSE upto[i - 1] * Byte + digits[i]
  IN  upto[Len(digits)]

PutBytes(s) == BigEndian(Width.u32, Len(s)) \o s

PutScalar(type, v) ==
  CASE type \in {"bytes", "string"} -> PutBytes(v)
    [] type \in {"array_16", "array_32"} -> v
    [] type = "bool" -> <<IF v THEN 1 ELSE 0>>
    [] type = "i32" -> BigEndian(Width.i32, IF v < 0 THEN v + Capacity[Width.i32] ELSE v)
    [] type = "key" -> BigEndian(Width.key, wire_code[v])
    [] type = "capabilities" -> BigEndian(Width.capabilities, put_capabilities(v))
    [] OTHER -> BigEndian(Width[type], v)

\* Reader::take
Take(input, at, n) ==
  IF at + n > Len(input) THEN Failed ELSE Ok(SubSeq(input, at + 1, at + n))

Utf8(s) == \A i \in DOMAIN s : s[i] # Byte - 1

ValueOf(type, taken) ==
  LET number == Number(taken)
  IN  CASE type \in {"array_16", "array_32"} -> Ok(taken)
        [] type = "bool" -> Ok(number # 0)
        [] type = "i32" -> Ok(IF number < Capacity[Width.i32] \div 2 THEN number
                              ELSE number - Capacity[Width.i32])
        [] type = "key" -> from_wire(number)
        [] type = "capabilities" ->
             Ok({ c \in DOMAIN ReadBits : (number \div ReadBits[c]) % 2 = 1 })
        [] OTHER -> Ok(number)

\* What the reader is left with: what it read, and where it stands.
Got(result, at) == IF result = Failed THEN Failed ELSE Ok([value |-> result[1], at |-> at])

ReadBytes(input, at) ==
  LET length == Take(input, at, Width.u32)
      start  == at + Width.u32
      body   == IF length = Failed THEN Failed ELSE Take(input, start, Number(length[1]))
  IN  IF body = Failed THEN Failed ELSE Got(body, start + Len(body[1]))

ReadScalar(type, input, at) ==
  IF type \in {"bytes", "string"}
  THEN LET read == ReadBytes(input, at)
       IN  IF read # Failed /\ type = "string" /\ ~Utf8(read[1].value) THEN Failed ELSE read
  ELSE LET taken == Take(input, at, Width[type])
       IN  IF taken = Failed THEN Failed
           ELSE Got(ValueOf(type, taken[1]), at + Width[type])

(***************************************************************************)
(* Records, lists and options.  A record's fields are its names and types. *)
(***************************************************************************)
RecordOf(fields, values) ==
  [name \in { f[1] : f \in Range(fields) } |->
     values[CHOOSE n \in DOMAIN fields : fields[n][1] = name]]

ValuesIn(fields, r) == [n \in DOMAIN fields |-> r[fields[n][1]]]

PutRecord(fields, r) ==
  FlattenSeq([n \in DOMAIN fields |-> PutScalar(fields[n][2], ValuesIn(fields, r)[n])])

\* One read after the other: read[n][p] is what the n-th gets at p.
ReadAll(read, at) ==
  LET got[n \in 0..Len(read)] ==
        IF n = 0 THEN Ok([value |-> <<>>, at |-> at])
        ELSE LET before == got[n - 1]
             IN  IF before = Failed THEN Failed ELSE read[n][before[1].at]
      last == got[Len(read)]
  IN  Got(IF last = Failed THEN Failed ELSE Ok([n \in DOMAIN read |-> got[n][1].value]),
          last[1].at)

ReadRecord(fields, input, at) ==
  LET got == ReadAll([n \in DOMAIN fields |->
                        [p \in 0..Len(input) |-> ReadScalar(fields[n][2], input, p)]], at)
  IN  IF got = Failed THEN Failed
      ELSE Got(Ok(RecordOf(fields, got[1].value)), got[1].at)

DesktopRect == << <<"x", "u32">>, <<"y", "u32">>, <<"width", "u32">>, <<"height", "u32">> >>
Fragment == << <<"fragment", "u16">> >>
CursorShape ==
  << <<"shape_kind", "u8">>, <<"width", "u32">>, <<"height", "u32">>, <<"hotspot_x", "u32">>,
     <<"hotspot_y", "u32">>, <<"pitch", "u32">>, <<"data", "bytes">> >>

ListOf == [regions |-> DesktopRect, fragments |-> Fragment]

\* Mutant: the receiver's limits are one below the sender's.
MaxOf_Strict == [regions |-> MaxRegions - 1, fragments |-> MaxNackFragments - 1]

\* What decode takes at most.
MaxOf == [regions |-> MaxRegions, fragments |-> MaxNackFragments]

PutValue(type, v) ==
  CASE type \in DOMAIN ListOf ->
         BigEndian(Width.u16, Len(v)) \o
         FlattenSeq([i \in DOMAIN v |-> PutRecord(ListOf[type], v[i])])
    [] type = "shape" -> IF v = <<>> THEN <<0>> ELSE <<1>> \o PutRecord(CursorShape, v[1])
    [] OTHER -> PutScalar(type, v)

ReadList(fields, count, input, at) ==
  ReadAll([i \in 1..count |-> [p \in 0..Len(input) |-> ReadRecord(fields, input, p)]], at)

ReadValue(type, input, at) ==
  CASE type \in DOMAIN ListOf ->
         LET count == ReadScalar("u16", input, at)
         IN  IF count = Failed THEN Failed
             ELSE IF count[1].value \notin 1..MaxOf[type] THEN Failed
             ELSE ReadList(ListOf[type], count[1].value, input, count[1].at)
    [] type = "shape" ->
         LET present == ReadScalar("bool", input, at)
         IN  IF present = Failed THEN Failed
             ELSE ReadList(CursorShape, IF present[1].value THEN 1 ELSE 0, input, present[1].at)
    [] OTHER -> ReadScalar(type, input, at)

(***************************************************************************)
(* encode: the tag and the fields of each message.  An input event has a   *)
(* second tag of its own.                                                  *)
(***************************************************************************)
SessionEncoding ==
  [Hello |-> << <<1>>, << <<"major", "u16">>, <<"minor", "u16">>, <<"capabilities", "capabilities">> >> >>,
   Challenge |-> << <<2>>, << <<"nonce", "array_32">>, <<"salt", "string">> >> >>,
   Authenticate |-> << <<3>>, << <<"proof", "array_32">> >> >>,
   Authenticated |-> << <<4>>, << <<"permissions", "capabilities">> >> >>,
   Rejected |-> << <<5>>, << <<"reason", "string">> >> >>,
   OpenDesktop |-> << <<6>>, <<>> >>,
   Close |-> << <<13>>, <<>> >>]

DesktopEncoding ==
  [Video |-> << <<7>>, << <<"codec", "u8">>, <<"sequence", "u64">>, <<"timestamp_millis", "u64">>,
       <<"keyframe", "bool">>, <<"width", "u32">>, <<"height", "u32">>,
       <<"pixel_format", "u8">>, <<"stride", "u32">>, <<"data", "bytes">> >> >>,
   Pointer |-> << <<8, 1>>, << <<"x", "i32">>, <<"y", "i32">>, <<"buttons", "u8">> >> >>,
   Key |-> << <<8, 2>>, << <<"key", "key">>, <<"pressed", "bool">> >> >>,
   Wheel |-> << <<8, 3>>, << <<"delta_x", "i32">>, <<"delta_y", "i32">> >> >>,
   RateHint |-> << <<9>>, << <<"bitrate", "u32">>, <<"frames_per_second", "u16">> >> >>,
   KeyframeRequest |-> << <<14>>, << <<"last_sequence", "u64">> >> >>,
   KeyframeAck |-> << <<15>>, << <<"sequence", "u64">> >> >>,
   DesktopUpdate |-> << <<16>>, << <<"sequence", "u64">>, <<"timestamp_millis", "u64">>,
       <<"desktop_width", "u32">>, <<"desktop_height", "u32">>, <<"encoding", "u8">>,
       <<"regions", "regions">>, <<"data", "bytes">> >> >>,
   Cursor |-> << <<17>>, << <<"sequence", "u64">>, <<"visible", "bool">>, <<"x", "i32">>,
       <<"y", "i32">>, <<"shape", "shape">> >> >>,
   MediaNack |-> << <<18>>, << <<"sequence", "u64">>, <<"missing_fragments", "fragments">> >> >>]

FileEncoding ==
  [FileOffer |-> << <<10>>, << <<"transfer_id", "array_16">>, <<"name", "string">>, <<"size", "u64">>,
       <<"chunk_size", "u32">>, <<"sha256", "array_32">> >> >>,
   FileChunk |-> << <<11>>, << <<"transfer_id", "array_16">>, <<"offset", "u64">>,
       <<"data", "bytes">>, <<"sha256", "array_32">> >> >>,
   FileAck |-> << <<12>>, << <<"transfer_id", "array_16">>, <<"next_offset", "u64">> >> >>]

Encoding ==
  [kind \in DOMAIN SessionEncoding \cup DOMAIN DesktopEncoding \cup DOMAIN FileEncoding |->
     CASE kind \in DOMAIN SessionEncoding -> SessionEncoding[kind]
       [] kind \in DOMAIN DesktopEncoding -> DesktopEncoding[kind]
       [] kind \in DOMAIN FileEncoding -> FileEncoding[kind]]

MessageOf(kind, fields, values) ==
  LET record == RecordOf(fields, values)
  IN  [name \in DOMAIN record \cup {"kind"} |-> IF name = "kind" THEN kind ELSE record[name]]

\* The bytes of a message, were there no limits.
Laid(m) ==
  LET fields == Encoding[m.kind][2]
  IN  Encoding[m.kind][1] \o
      FlattenSeq([n \in DOMAIN fields |-> PutValue(fields[n][2], ValuesIn(fields, m)[n])])

CountsAreLegal(m) ==
  /\ m.kind = "DesktopUpdate" => Len(m.regions) \in 1..MaxRegions
  /\ m.kind = "MediaNack" => Len(m.missing_fragments) \in 1..MaxNackFragments

Encode(m) ==
  IF CountsAreLegal(m) /\ Len(Laid(m)) <= MaxMessageSize THEN Ok(Laid(m)) ELSE Failed

(***************************************************************************)
(* decode: what a tag stands for, and the fields that are read.            *)
(***************************************************************************)
SessionDecoding ==
  {<< <<1>>, "Hello", << <<"major", "u16">>, <<"minor", "u16">>, <<"capabilities", "capabilities">> >> >>,
   << <<2>>, "Challenge", << <<"nonce", "array_32">>, <<"salt", "string">> >> >>,
   << <<3>>, "Authenticate", << <<"proof", "array_32">> >> >>,
   << <<4>>, "Authenticated", << <<"permissions", "capabilities">> >> >>,
   << <<5>>, "Rejected", << <<"reason", "string">> >> >>,
   << <<6>>, "OpenDesktop", <<>> >>,
   << <<13>>, "Close", <<>> >>}

DesktopDecoding ==
  {<< <<7>>, "Video", << <<"codec", "u8">>, <<"sequence", "u64">>, <<"timestamp_millis", "u64">>,
       <<"keyframe", "bool">>, <<"width", "u32">>, <<"height", "u32">>,
       <<"pixel_format", "u8">>, <<"stride", "u32">>, <<"data", "bytes">> >> >>,
   << <<8, 1>>, "Pointer", << <<"x", "i32">>, <<"y", "i32">>, <<"buttons", "u8">> >> >>,
   << <<8, 2>>, "Key", << <<"key", "key">>, <<"pressed", "bool">> >> >>,
   << <<8, 3>>, "Wheel", << <<"delta_x", "i32">>, <<"delta_y", "i32">> >> >>,
   << <<9>>, "RateHint", << <<"bitrate", "u32">>, <<"frames_per_second", "u16">> >> >>,
   << <<14>>, "KeyframeRequest", << <<"last_sequence", "u64">> >> >>,
   << <<15>>, "KeyframeAck", << <<"sequence", "u64">> >> >>,
   << <<16>>, "DesktopUpdate", << <<"sequence", "u64">>, <<"timestamp_millis", "u64">>,
       <<"desktop_width", "u32">>, <<"desktop_height", "u32">>, <<"encoding", "u8">>,
       <<"regions", "regions">>, <<"data", "bytes">> >> >>,
   << <<17>>, "Cursor", << <<"sequence", "u64">>, <<"visible", "bool">>, <<"x", "i32">>,
       <<"y", "i32">>, <<"shape", "shape">> >> >>,
   << <<18>>, "MediaNack", << <<"sequence", "u64">>, <<"missing_fragments", "fragments">> >> >>}

FileDecoding ==
  {<< <<10>>, "FileOffer", << <<"transfer_id", "array_16">>, <<"name", "string">>, <<"size", "u64">>,
       <<"chunk_size", "u32">>, <<"sha256", "array_32">> >> >>,
   << <<11>>, "FileChunk", << <<"transfer_id", "array_16">>, <<"offset", "u64">>,
       <<"data", "bytes">>, <<"sha256", "array_32">> >> >>,
   << <<12>>, "FileAck", << <<"transfer_id", "array_16">>, <<"next_offset", "u64">> >> >>}

Decoding == SessionDecoding \cup DesktopDecoding \cup FileDecoding

\* Mutant: bytes behind the last field are passed over.
Message_Lax(row, read, input) == Ok(MessageOf(row[2], row[3], read.value))

Message(row, read, input) ==
  IF read.at = Len(input) THEN Ok(MessageOf(row[2], row[3], read.value)) ELSE Failed

Decode(input) ==
  IF Len(input) \notin 1..MaxMessageSize THEN Failed
  ELSE LET rows == { row \in Decoding : IsPrefix(row[1], input) }
       IN  IF rows = {} THEN Failed
           ELSE LET row  == CHOOSE r \in rows : TRUE
                    read == ReadAll([n \in DOMAIN row[3] |->
                                       [p \in 0..Len(input) |->
                                          ReadValue(row[3][n][2], input, p)]], Len(row[1]))
                IN  IF read = Failed THEN Failed ELSE Message(row, read[1], input)

(***************************************************************************)
(* Encoded pictures and the Video messages that carry them (dc-desktop).   *)
(* A packet's time-stamp is finer than a message's by a factor of Ticks.   *)
(***************************************************************************)
Ticks == 2
CodecNumber == [Raw |-> 0, H264 |-> 1, Av1 |-> 2]
FormatNumber == [Rgb24 |-> 0, Bgra32 |-> 1, I420 |-> 2]

\* Mutant: one end numbers the codecs in another order.
CodecOf_Swapped(n) ==
  CASE n = 0 -> Ok("H264") [] n = 1 -> Ok("Raw") [] n = 2 -> Ok("Av1") [] OTHER -> Failed

CodecOf(n) ==
  CASE n = 0 -> Ok("Raw") [] n = 1 -> Ok("H264") [] n = 2 -> Ok("Av1") [] OTHER -> Failed
FormatOf(n) ==
  CASE n = 0 -> Ok("Rgb24") [] n = 1 -> Ok("Bgra32") [] n = 2 -> Ok("I420") [] OTHER -> Failed

PackedBytes == [Rgb24 |-> 3, Bgra32 |-> 4]

\* FrameSize::new, FrameLayout::with_stride and EncodedVideoPacket::new.
IsPacket(p) ==
  /\ p.width > 0 /\ p.height > 0
  /\ p.pixel_format \in DOMAIN PackedBytes
  /\ p.stride >= p.width * PackedBytes[p.pixel_format]
  /\ p.data # <<>>

packet_to_message(p) ==
  [kind |-> "Video", codec |-> CodecNumber[p.codec], sequence |-> p.sequence,
   timestamp_millis |-> p.timestamp \div Ticks, keyframe |-> p.keyframe,
   width |-> p.width, height |-> p.height,
   pixel_format |-> FormatNumber[p.pixel_format], stride |-> p.stride, data |-> p.data]

packet_from_parts(m) ==
  IF CodecOf(m.codec) = Failed \/ FormatOf(m.pixel_format) = Failed THEN Failed
  ELSE LET p == [codec |-> CodecOf(m.codec)[1], sequence |-> m.sequence,
                 timestamp |-> m.timestamp_millis * Ticks, keyframe |-> m.keyframe,
                 width |-> m.width, height |-> m.height,
                 pixel_format |-> FormatOf(m.pixel_format)[1],
                 stride |-> m.stride, data |-> m.data]
       IN  IF IsPacket(p) THEN Ok(p) ELSE Failed

message_to_packet(m) == IF m.kind # "Video" THEN Failed ELSE packet_from_parts(m)

(***************************************************************************)
(* What the fields of a message hold, by type.                             *)
(***************************************************************************)
Digit == 0..Byte - 1

IsScalar(type, v) ==
  CASE type \in {"bytes", "string"} ->
         /\ v \in Seq(Digit) /\ Len(v) < Capacity[Width.u32]
         /\ type = "string" => Utf8(v)
    [] type \in {"array_16", "array_32"} -> v \in [1..Width[type] -> Digit]
    [] type = "bool" -> v \in BOOLEAN
    [] type = "i32" -> LET half == Capacity[Width.i32] \div 2 IN v \in -half..half - 1
    [] type = "key" -> v \in KeyboardKey
    [] type = "capabilities" -> v \subseteq DOMAIN ReadBits
    [] OTHER -> v \in 0..Capacity[Width[type]] - 1

IsRecord(fields, r) ==
  /\ r = RecordOf(fields, ValuesIn(fields, r))
  /\ \A f \in Range(fields) : IsScalar(f[2], r[f[1]])

\* A list may be one its sender refuses.
IsValue(type, v) ==
  CASE type \in DOMAIN ListOf ->
         /\ Len(v) \in 0..Capacity[Width.u16] - 1
         /\ v = [i \in 1..Len(v) |-> v[i]]
         /\ \A i \in DOMAIN v : IsRecord(ListOf[type], v[i])
    [] type = "shape" -> v # Failed => v = Ok(v[1]) /\ IsRecord(CursorShape, v[1])
    [] OTHER -> IsScalar(type, v)

IsMessage(m) ==
  /\ m.kind \in DOMAIN Encoding
  /\ LET fields == Encoding[m.kind][2]
     IN  /\ m = MessageOf(m.kind, fields, ValuesIn(fields, m))
         /\ \A f \in Range(fields) : IsValue(f[2], m[f[1]])

(***************************************************************************)
(* The messages of an instance.                                            *)
(***************************************************************************)
\* One field at a time takes another value than its first.
FirstOf(kind) ==
  LET fields == Encoding[kind][2]
  IN  MessageOf(kind, fields, [n \in DOMAIN fields |-> Sample[fields[n][2]][1]])

Others(kind, f) == { [FirstOf(kind) EXCEPT ![f[1]] = v] : v \in Range(Sample[f[2]]) }

MessagesOf(kind) == {FirstOf(kind)} \cup UNION { Others(kind, f) : f \in Range(Encoding[kind][2]) }

Messages == UNION { MessagesOf(kind) : kind \in DOMAIN Encoding }

\* No key has two codes, and each code fits.
ASSUME KeyTableAssumption ==
  /\ \A row \in KeyTable : row[2] \in 0..4095
  /\ \A row, other \in KeyTable : row[1] = other[1] => row = other

ASSUME WireAssumption ==
  /\ Byte \in Nat /\ Byte >= 64
  /\ MaxMessageSize \in 1..Capacity[Width.u32] - 1
  /\ MaxRegions \in Nat /\ MaxNackFragments \in Nat
  /\ \A kind \in DOMAIN Encoding : \A f \in Range(Encoding[kind][2]) :
       LET samples == Sample[f[2]]
       IN  1 \in DOMAIN samples /\ \A v \in Range(samples) : IsValue(f[2], v)
=============================================================================
