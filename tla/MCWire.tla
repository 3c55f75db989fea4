------------------------------- MODULE MCWire -------------------------------
EXTENDS FramedStream

Rect(n) == [x |-> 0, y |-> n, width |-> 1, height |-> 2]
Shape == [shape_kind |-> 2, width |-> 1, height |-> 1, hotspot_x |-> 0, hotspot_y |-> 3,
          pitch |-> 4, data |-> <<1, 2>>]

KeyNames ==
  LET codes == SelectSeq([code \in 1..140 |-> code], LAMBDA code : from_wire(code) # Failed)
  IN  [i \in DOMAIN codes |-> from_wire(codes[i])[1]]

Flags ==
  <<"desktop", "terminal", "command_execution", "file_transfer", "clipboard",
    "ssh_compatibility", "control_input", "hybrid_video", "desktop_optimizations",
    "h264_nal_datagrams", "desktop_selective_retransmit", "av1_software">>

\* Both ends of the integers, an empty and a longer payload, one that only some
\* messages have room for, and lists from empty to one above their limit.
MCSample ==
  [u8 |-> <<1, 0, 3>>, u16 |-> <<1, 0, 4095>>, u32 |-> <<7, 0, 6, Byte^4 - 1>>,
   u64 |-> <<70, 0, Byte^5 - 1>>,
   i32 |-> <<-1, 5, Byte^4 \div 2 - 1, -(Byte^4 \div 2)>>, bool |-> <<TRUE, FALSE>>,
   bytes |-> << <<0, 63>>, <<>>, [i \in 1..34 |-> 1] >>, string |-> << <<62, 0>>, <<>> >>,
   array_16 |-> << <<5, 6>>, <<0, 63>> >>, array_32 |-> << <<7, 8, 9>>, <<63, 0, 0>> >>,
   key |-> KeyNames,
   capabilities |-> << {} >> \o [i \in DOMAIN Flags |-> {Flags[i]}]
                    \o << DOMAIN ReadBits >>,
   regions |-> <<<<Rect(1)>>>> \o [n \in 1..MaxRegions + 2 |-> [i \in 1..n - 1 |-> Rect(i)]],
   fragments |-> [n \in 1..MaxNackFragments + 2 |-> [i \in 1..n - 1 |-> [fragment |-> 40 * i]]],
   shape |-> << <<>>, <<Shape>> >>]

MCFollowers == {"kind" :> "Close", [kind |-> "KeyframeAck", sequence |-> 70]}
=============================================================================
