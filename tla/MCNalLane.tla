------------------------------ MODULE MCNalLane ------------------------------
EXTENDS NalLane

\* A unit that fits a Datagram, units that need two and three, and one that ends
\* a byte behind a Datagram; payloads without the bytes of a start code.
Short == <<1>>
Pair  == <<1, 2, 3>>
Long  == <<2, 0, 0, 3, 1>>

\* Both start codes, and length prefixes that do not look like one.
MCUnits ==
  { [units |-> <<Short, Pair>>, format |-> "long"],
    [units |-> <<Long>>, format |-> "short"],
    [units |-> <<Pair>>, format |-> "avcc"] }

\* A length prefix 0 0 1 x.
AvccUnits == MCUnits \cup { [units |-> <<Long, Pair>>, format |-> "avcc"] }
=============================================================================
