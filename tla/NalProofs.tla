------------------------------ MODULE NalProofs ------------------------------
(***************************************************************************)
(* Of H.264 access units cut into NAL units and fragments, lost, mixed and *)
(* displaced, the decoder gets whole ones in order, and all of which every *)
(* fragment came.                                                          *)
(***************************************************************************)
EXTENDS NalLane, FiniteSetTheorems, SequenceTheorems, WellFoundedInduction, TLAPS

\* A set of positive numbers that is not empty has a least one.
LEMMA Least ==
  ASSUME NEW S \in SUBSET Nat, S # {}
  PROVE  \E m \in S : \A y \in S : m <= y
<1>1. PICK x \in S : \A y \in S : ~(<<y, x>> \in OpToRel(<, Nat))
  <2>1. S \subseteq Nat
    OBVIOUS
  <2> QED
    BY <2>1, NatLessThanWellFounded, WFMin
<1>2. \A y \in S : x <= y
  <2> SUFFICES ASSUME NEW y \in S, y < x
               PROVE  FALSE
    OBVIOUS
  <2>1. <<y, x>> \in OpToRel(<, Nat)
    BY DEF OpToRel
  <2> QED
    BY <1>1, <2>1
<1> QED
  BY <1>2

\* An interval from 1 says how long it is.
LEMMA SameInterval ==
  ASSUME NEW a \in Nat, NEW b \in Nat, 1..a = 1..b
  PROVE  a = b
<1>1. a > b => a \in 1..a /\ a \notin 1..b
  OBVIOUS
<1>2. b > a => b \in 1..b /\ b \notin 1..a
  OBVIOUS
<1> QED
  BY <1>1, <1>2

\* FlattenSeq puts the sequences one behind the other.
Chained(f, seqs, n) ==
  f = [i \in 1..n |-> IF i = 1 THEN seqs[i] ELSE f[i - 1] \o seqs[i]]

LEMMA ChainExists ==
  ASSUME NEW seqs, NEW n \in Nat \ {0}
  PROVE  \E f : Chained(f, seqs, n)
<1> DEFINE Bad == { k \in Nat \ {0} : ~\E f : Chained(f, seqs, k) }
<1>1. SUFFICES ASSUME Bad # {}
               PROVE  FALSE
  OBVIOUS
<1>2. PICK m \in Bad : \A y \in Bad : m <= y
  <2>1. Bad \in SUBSET Nat
    OBVIOUS
  <2> HIDE DEF Bad
  <2> QED
    BY <1>1, <2>1, Least
<1>3. CASE m = 1
  <2> DEFINE f == [i \in 1..1 |-> seqs[i]]
  <2>1. Chained(f, seqs, 1)
    BY DEF Chained
  <2> HIDE DEF f
  <2> QED
    BY <1>3, <2>1
<1>4. CASE m # 1
  <2>1. m - 1 \in Nat \ {0} /\ m - 1 \notin Bad /\ m \in Nat \ {0}
    BY <1>2, <1>4
  <2>2. PICK g : Chained(g, seqs, m - 1)
    BY <2>1
  <2> DEFINE f == [i \in 1..m |-> IF i = m THEN g[m - 1] \o seqs[m] ELSE g[i]]
  <2>3. \A i \in 1..(m - 1) : g[i] = IF i = 1 THEN seqs[i] ELSE g[i - 1] \o seqs[i]
    BY <2>2 DEF Chained
  <2>4. \A i \in 1..m : f[i] = IF i = 1 THEN seqs[i] ELSE f[i - 1] \o seqs[i]
    <3> SUFFICES ASSUME NEW i \in 1..m
                 PROVE  f[i] = IF i = 1 THEN seqs[i] ELSE f[i - 1] \o seqs[i]
      OBVIOUS
    <3>1. CASE i = m
      <4>1. m \in 1..m /\ m - 1 \in 1..m /\ m - 1 # m
        BY <2>1
      <4>2. f[m] = g[m - 1] \o seqs[m] /\ f[m - 1] = g[m - 1]
        BY <4>1
      <4> QED
        BY <1>4, <3>1, <4>2
    <3>2. CASE i # m
      <4>1. i \in 1..(m - 1) /\ f[i] = g[i] /\ (i # 1 => f[i - 1] = g[i - 1])
        BY <2>1, <3>2
      <4> QED
        BY <2>3, <4>1
    <3> QED
      BY <3>1, <3>2
  <2>5. Chained(f, seqs, m)
    <3>1. f = [i \in 1..m |-> f[i]]
      OBVIOUS
    <3> HIDE DEF f
    <3> QED
      BY <2>4, <3>1 DEF Chained
  <2> HIDE DEF f
  <2> QED
    BY <2>5
<1> QED
  BY <1>3, <1>4

LEMMA Flattened ==
  ASSUME NEW seqs, Len(seqs) \in Nat \ {0}
  PROVE  \E f : Chained(f, seqs, Len(seqs)) /\ FlattenSeq(seqs) = f[Len(seqs)]
<1> DEFINE f == CHOOSE f : Chained(f, seqs, Len(seqs))
<1>1. \E g : Chained(g, seqs, Len(seqs))
  BY ChainExists
<1>2. Chained(f, seqs, Len(seqs))
  BY <1>1
<1>3. FlattenSeq(seqs) = f[Len(seqs)]
  BY DEF FlattenSeq, Chained
<1> QED
  BY <1>2, <1>3

\* How many pieces of p a unit of n bytes is cut into.
LEMMA Pieces ==
  ASSUME NEW n \in Nat \ {0}, NEW p \in Nat \ {0}
  PROVE  /\ CeilDiv(n, p) \in Nat \ {0}
         /\ (CeilDiv(n, p) - 1) * p < n /\ n <= CeilDiv(n, p) * p
BY DEF CeilDiv

\* How the packetizer cuts a unit, and that the pieces joined are the unit again.
Cut(unit) ==
  LET count == CeilDiv(Len(unit), PayloadSize) IN
  [i \in 1..count |-> SubSeq(unit, (i - 1) * PayloadSize + 1,
                             IF i = count THEN Len(unit) ELSE i * PayloadSize)]

LEMMA JoinedIsWhole ==
  ASSUME NEW S, NEW unit \in Seq(S), unit # <<>>
  PROVE  FlattenSeq(Cut(unit)) = unit
<1> DEFINE p == PayloadSize
           n == CeilDiv(Len(unit), p)
           End(i) == IF i = n THEN Len(unit) ELSE i * p
<1>1. p \in Nat \ {0} /\ Len(unit) \in Nat \ {0}
  BY NalAssumption, EmptySeq
<1>2. n \in Nat \ {0} /\ (n - 1) * p < Len(unit)
  BY <1>1, Pieces
<1>3. Len(Cut(unit)) = n /\ \A i \in 1..n : Cut(unit)[i] = SubSeq(unit, (i - 1) * p + 1, End(i))
  <2>1. Cut(unit) = [i \in 1..n |-> SubSeq(unit, (i - 1) * p + 1, End(i))]
    BY DEF Cut
  <2> DEFINE T == { Cut(unit)[i] : i \in 1..n }
  <2> HIDE DEF End, n, p
  <2>2. Cut(unit) \in [1..n -> T]
    BY <2>1
  <2> HIDE DEF T
  <2>3. Cut(unit) \in Seq(T)
    BY <1>2, <2>2, SeqDef
  <2>4. Len(Cut(unit)) \in Nat /\ DOMAIN Cut(unit) = 1..Len(Cut(unit))
    BY <2>3, LenProperties
  <2>5. 1..Len(Cut(unit)) = 1..n
    BY <2>2, <2>4
  <2>6. Len(Cut(unit)) = n
    BY <1>2, <2>4, <2>5, SameInterval
  <2> QED
    BY <2>1, <2>6
<1> HIDE DEF n, p
<1>4. PICK f : Chained(f, Cut(unit), n) /\ FlattenSeq(Cut(unit)) = f[n]
  BY <1>2, <1>3, Flattened
<1>5. \A i \in 1..n : f[i] = IF i = 1 THEN Cut(unit)[i] ELSE f[i - 1] \o Cut(unit)[i]
  BY <1>4 DEF Chained
\* Where each piece ends.
<1>6. ASSUME NEW i \in 1..n
      PROVE  /\ (i - 1) * p \in Nat /\ (i - 1) * p < Len(unit)
             /\ End(i) \in ((i - 1) * p)..Len(unit)
             /\ i # 1 => End(i - 1) = (i - 1) * p /\ i - 1 \in 1..n
  <2>1. i \in Nat \ {0} /\ i <= n
    BY <1>2
  <2>2. (i - 1) * p \in Nat /\ i * p = (i - 1) * p + p
    BY <1>1, <2>1
  <2>3. (i - 1) * p <= (n - 1) * p
    BY <1>1, <1>2, <2>1
  <2>4. i # n => i * p <= (n - 1) * p
    BY <1>1, <1>2, <2>1
  <2>5. (n - 1) * p \in Nat
    BY <1>1, <1>2
  <2> QED
    BY <1>1, <1>2, <2>1, <2>2, <2>3, <2>4, <2>5
<1> DEFINE Bad == { i \in 1..n : f[i] # SubSeq(unit, 1, End(i)) }
<1>7. Bad = {}
  <2> SUFFICES ASSUME Bad # {}
               PROVE  FALSE
    OBVIOUS
  <2>1. PICK m \in Bad : \A y \in Bad : m <= y
    <3>1. Bad \in SUBSET Nat
      BY <1>2
    <3> HIDE DEF Bad
    <3> QED
      BY <3>1, Least
  <2>2. m \in 1..n /\ m \in Nat /\ f[m] # SubSeq(unit, 1, End(m))
    BY <1>2, <2>1
  <2>3. CASE m = 1
    <3>1. (m - 1) * p = 0
      BY <1>1, <2>3
    <3> QED
      BY <1>3, <1>5, <2>2, <2>3, <3>1
  <2>4. CASE m # 1
    <3>1. m - 1 \in 1..n /\ m - 1 \notin Bad /\ End(m - 1) = (m - 1) * p
      BY <1>6, <2>1, <2>2, <2>4
    <3>2. f[m - 1] = SubSeq(unit, 1, (m - 1) * p)
      BY <3>1
    <3>3. f[m] = SubSeq(unit, 1, (m - 1) * p) \o SubSeq(unit, (m - 1) * p + 1, End(m))
      BY <1>3, <1>5, <2>2, <2>4, <3>2
    <3>4. (m - 1) * p \in 0..Len(unit) /\ End(m) \in ((m - 1) * p)..Len(unit)
      BY <1>1, <1>6, <2>2
    <3> HIDE DEF End
    <3>5. SubSeq(unit, 1, (m - 1) * p) \o SubSeq(unit, (m - 1) * p + 1, End(m)) = SubSeq(unit, 1, End(m))
      <4>1. 1 \in 1..(Len(unit) + 1) /\ 1 - 1 = 0
        BY <1>1
      <4> QED
        BY <3>4, <4>1, ConcatAdjacentSubSeq
    <3> QED
      BY <2>2, <3>3, <3>5
  <2> QED
    BY <2>3, <2>4
<1>8. f[n] = SubSeq(unit, 1, Len(unit))
  BY <1>2, <1>7
<1> QED
  BY <1>4, <1>8, SubSeqFull

-----------------------------------------------------------------------------
\* The fragments of a frame, one by one.
Count(unit) == CeilDiv(Len(unit), PayloadSize)

Piece(s, units, u, i) ==
  [sequence |-> s, unit |-> u, units |-> Len(units), index |-> i, count |-> Count(units[u]),
   unit_len |-> Len(units[u]), payload |-> Cut(units[u])[i]]

Row(s, units, u) == { Piece(s, units, u, i) : i \in 1..Count(units[u]) }

\* NAL units as a splitter may return them: at least one, none of them empty.
Units == Seq(Seq(Nat) \ {<<>>}) \ {<<>>}

LEMMA PacketizedIn ==
  ASSUME NEW s, NEW bytes
  PROVE  Packetized(s, bytes) = UNION { Row(s, Split(bytes), u) : u \in DOMAIN Split(bytes) }
<1> DEFINE units == Split(bytes)
<1>1. Packetized(s, bytes) =
        UNION { LET count == Count(units[u]) IN
                { [sequence |-> s, unit |-> u, units |-> Len(units), index |-> i, count |-> count,
                   unit_len |-> Len(units[u]),
                   payload |-> SubSeq(units[u], (i - 1) * PayloadSize + 1,
                                      IF i = count THEN Len(units[u]) ELSE i * PayloadSize)] : i \in 1..count }
              : u \in DOMAIN units }
  BY DEF Packetized, Count
<1> HIDE DEF units
<1>2. ASSUME NEW u
      PROVE  Row(s, units, u) =
        LET count == Count(units[u]) IN
        { [sequence |-> s, unit |-> u, units |-> Len(units), index |-> i, count |-> count,
           unit_len |-> Len(units[u]),
           payload |-> SubSeq(units[u], (i - 1) * PayloadSize + 1,
                              IF i = count THEN Len(units[u]) ELSE i * PayloadSize)] : i \in 1..count }
  <2>1. \A i \in 1..Count(units[u]) : Cut(units[u])[i] =
          SubSeq(units[u], (i - 1) * PayloadSize + 1,
                 IF i = Count(units[u]) THEN Len(units[u]) ELSE i * PayloadSize)
    BY DEF Cut, Count
  <2> QED
    BY <2>1 DEF Row, Piece
<1> QED
  BY <1>1, <1>2 DEF units

\* Fragments by their unit and index.
LEMMA PiecesApart ==
  ASSUME NEW s, NEW bytes, Split(bytes) \in Units
  PROVE  /\ \A u \in DOMAIN Split(bytes) : \A i \in 1..Count(Split(bytes)[u]) :
              Piece(s, Split(bytes), u, i) \in Packetized(s, bytes)
         /\ \A f \in Packetized(s, bytes) :
              /\ f.sequence = s /\ f.units = Len(Split(bytes)) /\ f.unit \in DOMAIN Split(bytes)
              /\ f.count = Count(Split(bytes)[f.unit]) /\ f.index \in 1..f.count
              /\ f = Piece(s, Split(bytes), f.unit, f.index)
         /\ \A u \in DOMAIN Split(bytes) : /\ Count(Split(bytes)[u]) \in Nat \ {0}
                                           /\ Split(bytes)[u] \in Seq(Nat) \ {<<>>}
         /\ DOMAIN Split(bytes) = 1..Len(Split(bytes)) /\ Len(Split(bytes)) \in Nat \ {0}
<1> DEFINE units == Split(bytes)
<1>1. Packetized(s, bytes) = UNION { Row(s, units, u) : u \in DOMAIN units }
  BY PacketizedIn
<1>2. units \in Seq(Seq(Nat) \ {<<>>}) /\ units # <<>>
  BY DEF Units
<1> HIDE DEF units
<1>3. DOMAIN units = 1..Len(units) /\ Len(units) \in Nat \ {0}
      /\ \A u \in DOMAIN units : units[u] \in Seq(Nat) \ {<<>>}
  BY <1>2, LenProperties, EmptySeq, ElementOfSeq
<1>4. ASSUME NEW u \in DOMAIN units
      PROVE  Count(units[u]) \in Nat \ {0}
  <2>1. Len(units[u]) \in Nat \ {0} /\ PayloadSize \in Nat \ {0}
    BY <1>3, EmptySeq, LenProperties, NalAssumption
  <2> QED
    BY <2>1, Pieces DEF Count
<1>5. \A u \in DOMAIN units : \A i \in 1..Count(units[u]) : Piece(s, units, u, i) \in Packetized(s, bytes)
  BY <1>1 DEF Row
<1>6. ASSUME NEW f \in Packetized(s, bytes)
      PROVE  /\ f.sequence = s /\ f.units = Len(units) /\ f.unit \in DOMAIN units
             /\ f.count = Count(units[f.unit]) /\ f.index \in 1..f.count
             /\ f = Piece(s, units, f.unit, f.index)
  <2>1. PICK u \in DOMAIN units : \E i \in 1..Count(units[u]) : f = Piece(s, units, u, i)
    BY <1>1 DEF Row
  <2>2. PICK i \in 1..Count(units[u]) : f = Piece(s, units, u, i)
    BY <2>1
  <2>3. /\ f.sequence = s /\ f.unit = u /\ f.units = Len(units) /\ f.index = i
        /\ f.count = Count(units[u])
    BY <2>2 DEF Piece
  <2> QED
    BY <2>2, <2>3
<1> QED
  BY <1>3, <1>4, <1>5, <1>6 DEF units

\* A row has as many fragments as it has indices.
LEMMA RowSize ==
  ASSUME NEW s, NEW units, NEW u, Count(units[u]) \in Nat
  PROVE  IsFiniteSet(Row(s, units, u)) /\ Cardinality(Row(s, units, u)) = Count(units[u])
<1> DEFINE n == Count(units[u])
           R == Row(s, units, u)
           g == [i \in 1..n |-> Piece(s, units, u, i)]
<1>1. IsFiniteSet(1..n) /\ Cardinality(1..n) = n
  BY FS_Interval
<1>2. g \in [1..n -> R] /\ \A f \in R : \E i \in 1..n : g[i] = f
  BY DEF Row
<1>3. \A i, j \in 1..n : g[i] = g[j] => i = j
  <2>1. \A i \in 1..n : g[i].index = i
    BY DEF Piece
  <2> HIDE DEF g, n
  <2> QED
    BY <2>1
<1> HIDE DEF g, n, R
<1>4. g \in Surjection(1..n, R) /\ g \in Injection(1..n, R)
  BY <1>2, <1>3 DEF Surjection, Injection, IsInjective
<1>5. IsFiniteSet(R) /\ Cardinality(R) = Cardinality(1..n)
  BY <1>1, <1>4, FS_Surjection
<1> QED
  BY <1>1, <1>5 DEF n, R

\* The fragments of one unit are its row.
LEMMA UnitIsRow ==
  ASSUME NEW s, NEW bytes, Split(bytes) \in Units, NEW u \in DOMAIN Split(bytes)
  PROVE  /\ { f \in Packetized(s, bytes) : f.unit = u } = Row(s, Split(bytes), u)
         /\ IsFiniteSet(Row(s, Split(bytes), u))
         /\ Cardinality(Row(s, Split(bytes), u)) = Count(Split(bytes)[u])
<1> DEFINE units == Split(bytes)
<1>1. /\ \A v \in DOMAIN units : \A i \in 1..Count(units[v]) : Piece(s, units, v, i) \in Packetized(s, bytes)
      /\ \A f \in Packetized(s, bytes) :
           /\ f.unit \in DOMAIN units /\ f.count = Count(units[f.unit]) /\ f.index \in 1..f.count
           /\ f = Piece(s, units, f.unit, f.index)
      /\ Count(units[u]) \in Nat
  BY PiecesApart
<1> HIDE DEF units
<1>2. \A i : Piece(s, units, u, i).unit = u
  BY DEF Piece
<1>3. { f \in Packetized(s, bytes) : f.unit = u } = Row(s, units, u)
  BY <1>1, <1>2 DEF units, Row
<1>4. IsFiniteSet(Row(s, units, u)) /\ Cardinality(Row(s, units, u)) = Count(units[u])
  BY <1>1, RowSize
<1> QED
  BY <1>3, <1>4 DEF units

\* Counting the fragments of each unit tells whether all are there.
LEMMA CompleteIsAll ==
  ASSUME NEW s, NEW bytes, Split(bytes) \in Units,
         NEW parts \in SUBSET Packetized(s, bytes), Complete(parts)
  PROVE  parts = Packetized(s, bytes)
<1> DEFINE units == Split(bytes)
<1>1. /\ \A f \in Packetized(s, bytes) :
           /\ f.units = Len(units) /\ f.unit \in DOMAIN units /\ f.count = Count(units[f.unit])
      /\ DOMAIN units = 1..Len(units)
  BY PiecesApart
<1>2. SUFFICES ASSUME NEW f \in Packetized(s, bytes)
               PROVE  f \in parts
  OBVIOUS
<1>3. PICK u \in DOMAIN units : u = f.unit
  BY <1>1
<1>4. PICK g \in parts : g.unit = u /\ Cardinality({ h \in parts : h.unit = u }) = g.count
  <2>1. PICK first \in parts : \A v \in 1..first.units :
          \E g \in parts : g.unit = v /\ Cardinality({ h \in parts : h.unit = v }) = g.count
    BY DEF Complete
  <2>2. u \in 1..first.units
    BY <1>1
  <2> QED
    BY <2>1, <2>2
<1>5. g.count = Count(units[u])
  BY <1>1, <1>4
<1>6. /\ { h \in Packetized(s, bytes) : h.unit = u } = Row(s, units, u)
      /\ IsFiniteSet(Row(s, units, u)) /\ Cardinality(Row(s, units, u)) = Count(units[u])
  BY UnitIsRow
<1> HIDE DEF units
<1>7. { h \in parts : h.unit = u } \in SUBSET Row(s, units, u)
  BY <1>6
<1>8. { h \in parts : h.unit = u } = Row(s, units, u)
  BY <1>4, <1>5, <1>6, <1>7, FS_Subset
<1> QED
  BY <1>3, <1>6, <1>8

LEMMA AllIsComplete ==
  ASSUME NEW s, NEW bytes, Split(bytes) \in Units
  PROVE  Complete(Packetized(s, bytes)) /\ Packetized(s, bytes) # {}
<1> DEFINE units == Split(bytes)
           all == Packetized(s, bytes)
<1>1. /\ \A u \in DOMAIN units : \A i \in 1..Count(units[u]) : Piece(s, units, u, i) \in all
      /\ \A u \in DOMAIN units : Count(units[u]) \in Nat \ {0}
      /\ DOMAIN units = 1..Len(units) /\ Len(units) \in Nat \ {0}
  BY PiecesApart
<1>2. ASSUME NEW u \in DOMAIN units
      PROVE  \E g \in all : g.unit = u /\ Cardinality({ h \in all : h.unit = u }) = g.count
  <2>1. Cardinality({ h \in all : h.unit = u }) = Count(units[u])
    BY UnitIsRow
  <2>2. 1 \in 1..Count(units[u])
    BY <1>1
  <2>3. Piece(s, units, u, 1) \in all
    BY <1>1, <2>2
  <2>4. Piece(s, units, u, 1).unit = u /\ Piece(s, units, u, 1).count = Count(units[u])
    BY DEF Piece
  <2> QED
    BY <2>1, <2>3, <2>4
<1>3. PICK f \in all : f.units = Len(units)
  <2>1. 1 \in DOMAIN units
    BY <1>1
  <2>2. PICK f \in all : f.unit = 1
    BY <1>2, <2>1
  <2>3. f.units = Len(units)
    BY PiecesApart
  <2> QED
    BY <2>3
<1>4. \A u \in 1..f.units :
        \E g \in all : g.unit = u /\ Cardinality({ h \in all : h.unit = u }) = g.count
  BY <1>1, <1>2, <1>3
<1> HIDE DEF all
<1>5. Complete(all)
  BY <1>4 DEF Complete
<1> QED
  BY <1>5 DEF all

\* What the reassembler hands on is what the splitter found.
LEMMA DataIsUnits ==
  ASSUME NEW s, NEW bytes, Split(bytes) \in Units
  PROVE  Data(Packetized(s, bytes)) = AnnexB(<<0>> \o StartCode, Split(bytes))
<1> DEFINE units == Split(bytes)
           all == Packetized(s, bytes)
<1>1. /\ \A u \in DOMAIN units : \A i \in 1..Count(units[u]) : Piece(s, units, u, i) \in all
      /\ \A f \in all : f.units = Len(units) /\ f = Piece(s, units, f.unit, f.index)
      /\ \A u \in DOMAIN units : units[u] \in Seq(Nat) \ {<<>>}
      /\ DOMAIN units = 1..Len(units)
  BY PiecesApart
<1>2. (CHOOSE f \in all : TRUE).units = Len(units)
  <2>1. all # {}
    BY AllIsComplete
  <2>2. (CHOOSE f \in all : TRUE) \in all
    BY <2>1
  <2> QED
    BY <1>1, <2>2
<1>3. ASSUME NEW u \in DOMAIN units
      PROVE  Unit(all, u) = units[u]
  <2>1. Cardinality({ f \in all : f.unit = u }) = Count(units[u])
    BY UnitIsRow
  <2>2. ASSUME NEW i \in 1..Count(units[u])
        PROVE  (CHOOSE f \in all : f.unit = u /\ f.index = i).payload = Cut(units[u])[i]
    <3>1. /\ Piece(s, units, u, i) \in all /\ Piece(s, units, u, i).unit = u /\ Piece(s, units, u, i).index = i
          /\ Piece(s, units, u, i).payload = Cut(units[u])[i]
      BY <1>1 DEF Piece
    <3>2. \A f \in all : f.unit = u /\ f.index = i => f = Piece(s, units, u, i)
      BY <1>1
    <3> HIDE DEF units, all
    <3>3. PICK f : f = CHOOSE g \in all : g.unit = u /\ g.index = i
      OBVIOUS
    <3>4. f \in all /\ f.unit = u /\ f.index = i
      BY <3>1, <3>3
    <3>5. f = Piece(s, units, u, i)
      BY <3>2, <3>4
    <3> QED
      BY <3>1, <3>3, <3>5
  <2>3. [i \in 1..Count(units[u]) |-> (CHOOSE f \in all : f.unit = u /\ f.index = i).payload] = Cut(units[u])
    <3>1. Cut(units[u]) = [i \in 1..Count(units[u]) |-> Cut(units[u])[i]]
      BY DEF Cut, Count
    <3> HIDE DEF units, all
    <3> QED
      BY <2>2, <3>1
  <2>4. Unit(all, u) = FlattenSeq(Cut(units[u]))
    BY <2>1, <2>3 DEF Unit
  <2>5. FlattenSeq(Cut(units[u])) = units[u]
    BY <1>1, JoinedIsWhole
  <2> QED
    BY <2>4, <2>5
<1>4. [u \in 1..Len(units) |-> Unit(all, u)] = units
  <2>1. units \in Seq(Seq(Nat) \ {<<>>})
    BY DEF Units
  <2>2. units = [u \in 1..Len(units) |-> units[u]]
    BY <2>1, LenProperties
  <2> HIDE DEF units, all
  <2> QED
    BY <1>1, <1>3, <2>2
<1>5. Data(all) = AnnexB(<<0>> \o StartCode, [u \in 1..Len(units) |-> Unit(all, u)])
  <2> HIDE DEF units, all
  <2> QED
    BY <1>2 DEF Data
<1> QED
  BY <1>4, <1>5

-----------------------------------------------------------------------------
\* Every fragment of the frame s.
Fragments(s) == Packetized(s, Encoded(sent[s]))

\* A fragment on its way is one of a frame that was sent.
FlightOK == \A f \in flight : f.sequence \in DOMAIN sent /\ f \in Fragments(f.sequence)

\* The frames that there were and the bound on the partial ones.
LEMMA Sent ==
  ASSUME TypeOK
  PROVE  /\ sent \in Seq(AccessUnit) /\ Len(sent) \in Nat /\ DOMAIN sent = 1..Len(sent)
         /\ \A s \in DOMAIN sent : s \in Nat \ {0} /\ sent[s] \in AccessUnit
         /\ InFlightMax \in Nat \ {0} /\ MaxSequence \in Nat \ {0}
         /\ latest \in Nat /\ latest <= Len(sent)
<1>1. sent \in Seq(AccessUnit)
  BY DEF TypeOK
<1>2. Len(sent) \in Nat /\ DOMAIN sent = 1..Len(sent) /\ \A s \in DOMAIN sent : sent[s] \in AccessUnit
  BY <1>1, LenProperties, ElementOfSeq
<1> QED
  BY <1>1, <1>2, NalAssumption DEF TypeOK

LEMMA MinIn ==
  ASSUME NEW S \in SUBSET Nat, S # {}
  PROVE  Min(S) \in S
BY Least DEF Min

\* A frame is made room for.
LEMMA RoomFor ==
  ASSUME TypeOK, NEW s \in DOMAIN sent
  PROVE  /\ Displaced(s) \subseteq DOMAIN frames /\ s \notin Displaced(s)
         /\ Cardinality((DOMAIN frames \ Displaced(s)) \cup {s}) <= InFlightMax
         /\ IsFiniteSet((DOMAIN frames \ Displaced(s)) \cup {s})
<1> DEFINE D == DOMAIN frames
<1>1. IsFiniteSet(D) /\ Cardinality(D) \in Nat /\ D \in SUBSET Nat /\ Cardinality(D) <= InFlightMax
  <2>1. IsFiniteSet(1..Len(sent)) /\ D \in SUBSET (1..Len(sent))
    <3>1. Len(sent) \in Nat /\ D \subseteq 1..Len(sent)
      BY Sent DEF TypeOK
    <3> QED
      BY <3>1, FS_Interval
  <2>2. IsFiniteSet(D)
    BY <2>1, FS_Subset
  <2> QED
    BY <2>1, <2>2, FS_CardinalityType DEF TypeOK
<1>2. InFlightMax \in Nat \ {0}
  BY NalAssumption
<1>3. CASE s \in D
  <2>1. Displaced(s) = {}
    BY <1>3 DEF Displaced
  <2>2. (D \ Displaced(s)) \cup {s} = D
    BY <1>3, <2>1
  <2> QED
    BY <1>1, <2>1, <2>2
<1>4. CASE s \notin D /\ Cardinality(D) < InFlightMax
  <2>1. Displaced(s) = {}
    BY <1>1, <1>2, <1>4 DEF Displaced
  <2>2. (D \ Displaced(s)) \cup {s} = D \cup {s}
    BY <2>1
  <2>3. IsFiniteSet(D \cup {s}) /\ Cardinality(D \cup {s}) = Cardinality(D) + 1
    BY <1>1, <1>4, FS_AddElement
  <2> HIDE DEF D
  <2>4. Cardinality(D \cup {s}) <= InFlightMax
    BY <1>1, <1>2, <1>4, <2>3
  <2> QED
    BY <2>1, <2>2, <2>3, <2>4 DEF D
<1>5. CASE s \notin D /\ Cardinality(D) >= InFlightMax
  <2> DEFINE m == Min(D)
  <2>1. D # {}
    BY <1>1, <1>2, <1>5, FS_EmptySet
  <2>2. m \in D
    BY <1>1, <2>1, MinIn
  <2>3. Displaced(s) = {m}
    BY <1>5 DEF Displaced
  <2> HIDE DEF m, D
  <2>4. IsFiniteSet(D \ {m}) /\ Cardinality(D \ {m}) = Cardinality(D) - 1
    BY <1>1, <2>2, FS_RemoveElement
  <2>5. IsFiniteSet((D \ {m}) \cup {s}) /\ Cardinality((D \ {m}) \cup {s}) = Cardinality(D \ {m}) + 1
    BY <1>5, <2>4, FS_AddElement
  <2>6. Cardinality((D \ {m}) \cup {s}) <= InFlightMax
    BY <1>1, <1>2, <2>4, <2>5
  <2> QED
    BY <1>5, <2>2, <2>3, <2>5, <2>6 DEF D
<1> QED
  BY <1>1, <1>2, <1>3, <1>4, <1>5

\* Fewer partial frames are not more than the limit.
LEMMA FewerFrames ==
  ASSUME TypeOK, NEW D, IsFiniteSet(D), Cardinality(D) <= InFlightMax, NEW T \in SUBSET D
  PROVE  Cardinality(T) <= InFlightMax
<1>1. Cardinality(T) <= Cardinality(D) /\ Cardinality(T) \in Nat /\ Cardinality(D) \in Nat /\ InFlightMax \in Nat
  BY FS_Subset, FS_CardinalityType, NalAssumption
<1> QED
  BY <1>1

\* A new frame is not one of those that were sent.
LEMMA SendChanges ==
  ASSUME TypeOK, Send
  PROVE  /\ sent' \in Seq(AccessUnit) /\ Len(sent') = Len(sent) + 1 /\ Len(sent') <= MaxSequence
         /\ DOMAIN sent' = DOMAIN sent \cup {Len(sent')} /\ Len(sent') \notin DOMAIN sent
         /\ \A s \in DOMAIN sent : sent'[s] = sent[s]
         /\ sent'[Len(sent')] \in AccessUnit
         /\ flight' = flight \cup Packetized(Len(sent'), Encoded(sent'[Len(sent')]))
         /\ UNCHANGED <<frames, latest, arrivals, spoilt>>
<1>1. PICK unit \in AccessUnit :
        sent' = Append(sent, unit) /\ flight' = flight \cup Packetized(Len(sent'), Encoded(unit))
  BY DEF Send
<1>2. sent \in Seq(AccessUnit) /\ Len(sent) \in Nat /\ Len(sent) < MaxSequence /\ MaxSequence \in Nat
      /\ DOMAIN sent = 1..Len(sent)
  BY Sent DEF Send
<1>3. /\ sent' \in Seq(AccessUnit) /\ Len(sent') = Len(sent) + 1
      /\ \A s \in 1..Len(sent) : sent'[s] = sent[s]
      /\ sent'[Len(sent) + 1] = unit
  BY <1>1, <1>2, AppendProperties
<1>4. DOMAIN sent' = 1..Len(sent')
  BY <1>3, LenProperties
<1> QED
  BY <1>1, <1>2, <1>3, <1>4 DEF Send

\* What is received of a frame is some of its fragments.
LEMMA WithIn ==
  ASSUME TypeOK, FlightOK, NEW f \in flight
  PROVE  f.sequence \in DOMAIN sent /\ With(f) \in SUBSET Fragments(f.sequence) /\ f \in With(f)
BY DEF With, FlightOK, TypeOK, Fragments

LEMMA TypesStep ==
  ASSUME TypeOK, FlightOK, [Next]_vars
  PROVE  TypeOK' /\ FlightOK'
<1>1. CASE Send
  <2>1. /\ sent' \in Seq(AccessUnit) /\ Len(sent') = Len(sent) + 1 /\ Len(sent') <= MaxSequence
        /\ DOMAIN sent' = DOMAIN sent \cup {Len(sent')}
        /\ \A s \in DOMAIN sent : sent'[s] = sent[s]
        /\ flight' = flight \cup Packetized(Len(sent'), Encoded(sent'[Len(sent')]))
        /\ UNCHANGED <<frames, latest, arrivals, spoilt>>
    BY <1>1, SendChanges
  <2>2. latest' \in 0..Len(sent')
    <3>1. latest \in Nat /\ latest <= Len(sent) /\ Len(sent) \in Nat
      BY Sent
    <3> QED
      BY <2>1, <3>1
  <2>3. \A s \in DOMAIN frames' : frames'[s] \subseteq Packetized(s, Encoded(sent'[s])) /\ ~Complete(frames'[s])
    BY <2>1 DEF TypeOK
  <2>4. TypeOK'
    BY <2>1, <2>2, <2>3 DEF TypeOK
  <2>5. ASSUME NEW f \in flight'
        PROVE  f.sequence \in DOMAIN sent' /\ f \in Packetized(f.sequence, Encoded(sent'[f.sequence]))
    <3>1. CASE f \in flight
      BY <2>1, <3>1 DEF FlightOK, Fragments
    <3>2. CASE f \in Packetized(Len(sent'), Encoded(sent'[Len(sent')]))
      <4>1. f.sequence = Len(sent')
        BY <3>2, PacketizedIn DEF Row, Piece
      <4> QED
        BY <2>1, <3>2, <4>1
    <3> QED
      BY <2>1, <3>1, <3>2
  <2> QED
    BY <2>4, <2>5 DEF FlightOK, Fragments
<1>2. CASE Lose \/ Ignore
  <2>1. flight' \subseteq flight /\ UNCHANGED <<sent, frames, latest>> /\ spoilt' \subseteq DOMAIN sent
    BY <1>2 DEF Lose, Ignore, TypeOK, FlightOK
  <2> QED
    BY <2>1 DEF TypeOK, FlightOK, Fragments
<1>3. CASE Store
  <2>1. PICK f \in flight :
          /\ ~Complete(With(f))
          /\ flight' = flight \ {f}
          /\ frames' = [t \in (DOMAIN frames \ Displaced(f.sequence)) \cup {f.sequence} |->
                          IF t = f.sequence THEN With(f) ELSE frames[t]]
          /\ spoilt' = spoilt \cup Displaced(f.sequence)
          /\ UNCHANGED <<sent, latest, arrivals>>
    BY <1>3 DEF Store
  <2> DEFINE s == f.sequence
             D == (DOMAIN frames \ Displaced(s)) \cup {s}
  <2>2. s \in DOMAIN sent /\ With(f) \in SUBSET Fragments(s)
    BY WithIn
  <2>3. Displaced(s) \subseteq DOMAIN frames /\ Cardinality(D) <= InFlightMax
    BY <2>2, RoomFor
  <2>4. DOMAIN frames' = D /\ \A t \in D : frames'[t] = IF t = s THEN With(f) ELSE frames[t]
    BY <2>1
  <2>5. \A t \in DOMAIN frames' : frames'[t] \subseteq Packetized(t, Encoded(sent[t])) /\ ~Complete(frames'[t])
    BY <2>1, <2>2, <2>4 DEF TypeOK, Fragments
  <2>6. D \subseteq DOMAIN sent
    BY <2>2 DEF TypeOK
  <2> HIDE DEF D, s
  <2>7. TypeOK'
    BY <2>1, <2>3, <2>4, <2>5, <2>6 DEF TypeOK, s
  <2> QED
    BY <2>1, <2>7 DEF FlightOK, Fragments
<1>4. CASE Deliver
  <2>1. PICK f \in flight :
          /\ flight' = flight \ {f}
          /\ frames' = [t \in DOMAIN frames \ (Displaced(f.sequence) \cup {f.sequence}) |-> frames[t]]
          /\ spoilt' = spoilt \cup Displaced(f.sequence)
          /\ latest' = f.sequence
          /\ UNCHANGED sent
    BY <1>4 DEF Deliver
  <2> DEFINE s == f.sequence
             D == (DOMAIN frames \ Displaced(s)) \cup {s}
  <2>2. s \in DOMAIN sent
    BY WithIn
  <2>3. Displaced(s) \subseteq DOMAIN frames /\ Cardinality(D) <= InFlightMax /\ IsFiniteSet(D)
    BY <2>2, RoomFor
  <2>4. DOMAIN frames' \subseteq D /\ DOMAIN frames' \subseteq DOMAIN frames
        /\ \A t \in DOMAIN frames' : frames'[t] = frames[t]
    BY <2>1
  <2> HIDE DEF D
  <2>5. Cardinality(DOMAIN frames') <= InFlightMax
    BY <2>3, <2>4, FewerFrames
  <2>6. latest' \in 0..Len(sent)
    BY <2>1, <2>2, Sent
  <2> HIDE DEF s
  <2>7. TypeOK'
    BY <2>1, <2>3, <2>4, <2>5, <2>6 DEF TypeOK, s
  <2> QED
    BY <2>1, <2>7 DEF FlightOK, Fragments
<1>5. CASE Expire
  <2>1. PICK s \in DOMAIN frames : frames' = Without(s) /\ spoilt' = spoilt \cup {s}
    BY <1>5 DEF Expire
  <2>2. UNCHANGED <<sent, flight, latest, arrivals>>
    BY <1>5 DEF Expire
  <2>3. DOMAIN frames' \subseteq DOMAIN frames /\ \A t \in DOMAIN frames' : frames'[t] = frames[t]
    BY <2>1 DEF Without
  <2>4. IsFiniteSet(DOMAIN frames)
    <3>1. Len(sent) \in Nat /\ DOMAIN frames \in SUBSET (1..Len(sent))
      BY Sent DEF TypeOK
    <3>2. IsFiniteSet(1..Len(sent))
      BY <3>1, FS_Interval
    <3> QED
      BY <3>1, <3>2, FS_Subset
  <2>5. Cardinality(DOMAIN frames') <= InFlightMax
    BY <2>3, <2>4, FewerFrames DEF TypeOK
  <2> QED
    BY <2>1, <2>2, <2>3, <2>5 DEF TypeOK, FlightOK, Fragments
<1>6. CASE UNCHANGED vars
  BY <1>6 DEF vars, TypeOK, FlightOK, Fragments
<1> QED
  BY <1>1, <1>2, <1>3, <1>4, <1>5, <1>6 DEF Next

\* Whatever the splitter makes of an access unit: the partial frames stay within
\* MAX_IN_FLIGHT, each holds fragments of its own frame only, and none is complete
\* (H264NalDatagramReassembler).
THEOREM FramesInBounds == Spec => []TypeOK
<1> DEFINE I == TypeOK /\ FlightOK
<1>1. Init => I
  <2> SUFFICES ASSUME Init
               PROVE  I
    OBVIOUS
  <2>1. Len(sent) = 0 /\ sent \in Seq(AccessUnit) /\ DOMAIN frames = {} /\ Cardinality({}) = 0
    BY FS_EmptySet DEF Init
  <2>2. MaxSequence \in Nat /\ InFlightMax \in Nat
    BY NalAssumption
  <2>3. Len(sent) <= MaxSequence /\ Cardinality(DOMAIN frames) <= InFlightMax /\ latest \in 0..Len(sent)
    BY <2>1, <2>2 DEF Init
  <2> QED
    BY <2>1, <2>3 DEF Init, TypeOK, FlightOK
<1>2. I /\ [Next]_vars => I'
  BY TypesStep
<1>3. I => TypeOK
  OBVIOUS
<1> QED
  BY <1>1, <1>2, <1>3, PTL DEF Spec

-----------------------------------------------------------------------------
\* What the encoder must produce: access units that the splitter takes apart where
\* they were put together.  A length-prefixed unit whose prefix looks like a start
\* code is none.
Separable ==
  \A unit \in AccessUnit : unit.units \in Units /\ Split(Encoded(unit)) = unit.units

\* A fragment is on its way or in its frame, until the frame is spoilt or passed.
Accounted ==
  \A s \in DOMAIN sent :
    \/ s \in spoilt
    \/ s <= latest
    \/ \A f \in Fragments(s) : f \in flight \/ (s \in DOMAIN frames /\ f \in frames[s])

\* Nothing has arrived behind the frame handed over last.
Contents == { Normal(unit) : unit \in AccessUnit }
InOrder ==
  /\ arrivals \in Seq(Nat \X Contents)
  /\ \A i \in DOMAIN arrivals : arrivals[i][1] <= latest

NalInv == TypeOK /\ FlightOK /\ Accounted /\ InOrder

\* The frames of an encoder whose access units are separable.
LEMMA SeparableFrames ==
  ASSUME TypeOK, Separable, NEW s \in DOMAIN sent
  PROVE  /\ \A parts \in SUBSET Fragments(s) : Complete(parts) => parts = Fragments(s)
         /\ Complete(Fragments(s)) /\ Fragments(s) # {}
         /\ Data(Fragments(s)) = Normal(sent[s])
<1>1. PICK unit \in AccessUnit : unit = sent[s]
  BY Sent
<1>2. PICK bytes : bytes = Encoded(unit)
  OBVIOUS
<1>3. Split(bytes) = unit.units /\ Split(bytes) \in Units
  BY <1>2 DEF Separable
<1>4. Fragments(s) = Packetized(s, bytes)
  BY <1>1, <1>2 DEF Fragments
<1>5. Data(Packetized(s, bytes)) = Normal(unit)
  BY <1>3, DataIsUnits DEF Normal
<1> QED
  BY <1>1, <1>3, <1>4, <1>5, CompleteIsAll, AllIsComplete

LEMMA AccountedStep ==
  ASSUME TypeOK, FlightOK, Accounted, [Next]_vars
  PROVE  Accounted'
<1>1. CASE Send
  <2>1. /\ DOMAIN sent' = DOMAIN sent \cup {Len(sent')}
        /\ \A s \in DOMAIN sent : sent'[s] = sent[s]
        /\ flight' = flight \cup Packetized(Len(sent'), Encoded(sent'[Len(sent')]))
        /\ UNCHANGED <<frames, latest, arrivals, spoilt>>
    BY <1>1, SendChanges
  <2>2. \A s \in DOMAIN sent : Fragments(s)' = Fragments(s)
    BY <2>1 DEF Fragments
  <2>3. ASSUME NEW s, s = Len(sent')
        PROVE  \A f \in Fragments(s)' : f \in flight'
    BY <2>1, <2>3 DEF Fragments
  <2> QED
    BY <2>1, <2>2, <2>3 DEF Accounted
<1>2. CASE ~Send /\ Next
  <2>1. sent' = sent /\ \A s : Fragments(s)' = Fragments(s)
    BY <1>2 DEF Next, Lose, Ignore, Store, Deliver, Expire, Fragments
  <2>2. SUFFICES ASSUME NEW s \in DOMAIN sent, s \notin spoilt', ~(s <= latest')
                 PROVE  \A f \in Fragments(s) : f \in flight' \/ (s \in DOMAIN frames' /\ f \in frames'[s])
    BY <2>1 DEF Accounted
  <2>3. s \notin spoilt /\ \A f \in flight : f \in Fragments(s) => f.sequence = s
    <3>1. s \notin spoilt
      BY <1>2, <2>2 DEF Next, Lose, Ignore, Store, Deliver, Expire
    <3>2. \A f \in Fragments(s) : f.sequence = s
      BY PacketizedIn DEF Fragments, Row, Piece
    <3> QED
      BY <3>1, <3>2
  <2>4. CASE s <= latest
    <3>1. Deliver
      BY <1>2, <2>2, <2>4 DEF Next, Lose, Ignore, Store, Expire
    <3>2. latest' > latest /\ latest' \in Nat
      <4>1. PICK f \in flight : ~Stale(f.sequence) /\ latest' = f.sequence
        BY <3>1 DEF Deliver
      <4>2. f.sequence \in Nat
        BY Sent DEF FlightOK
      <4> QED
        BY <4>1, <4>2, Sent DEF Stale
    <3> QED
      BY <2>2, <2>4, <3>2, Sent
  <2>5. CASE ~(s <= latest)
    <3>1. \A f \in Fragments(s) : f \in flight \/ (s \in DOMAIN frames /\ f \in frames[s])
      BY <2>3, <2>5 DEF Accounted
    <3>2. CASE Lose
      <4>1. PICK f \in flight : flight' = flight \ {f} /\ spoilt' = spoilt \cup {f.sequence} /\ frames' = frames
        BY <3>2 DEF Lose
      <4> QED
        BY <2>2, <2>3, <3>1, <4>1
    <3>3. CASE Ignore
      <4>1. PICK f \in flight : flight' = flight \ {f} /\ Stale(f.sequence) /\ frames' = frames
        BY <3>3 DEF Ignore
      <4> QED
        BY <2>3, <2>5, <3>1, <4>1 DEF Stale
    <3>4. CASE Store
      <4>1. PICK f \in flight :
              /\ flight' = flight \ {f}
              /\ frames' = [t \in (DOMAIN frames \ Displaced(f.sequence)) \cup {f.sequence} |->
                              IF t = f.sequence THEN With(f) ELSE frames[t]]
              /\ spoilt' = spoilt \cup Displaced(f.sequence)
        BY <3>4 DEF Store
      <4>2. CASE s = f.sequence
        <5>1. s \in DOMAIN frames' /\ frames'[s] = With(f)
          BY <4>1, <4>2
        <5> QED
          BY <3>1, <4>1, <4>2, <5>1 DEF With
      <4>3. CASE s # f.sequence
        <5>1. s \in DOMAIN frames => s \in DOMAIN frames' /\ frames'[s] = frames[s]
          BY <2>2, <4>1, <4>3
        <5> QED
          BY <2>3, <3>1, <4>1, <4>3, <5>1
      <4> QED
        BY <4>2, <4>3
    <3>5. CASE Deliver
      <4>1. PICK f \in flight :
              /\ flight' = flight \ {f}
              /\ frames' = [t \in DOMAIN frames \ (Displaced(f.sequence) \cup {f.sequence}) |-> frames[t]]
              /\ spoilt' = spoilt \cup Displaced(f.sequence)
              /\ latest' = f.sequence
        BY <3>5 DEF Deliver
      <4>2. s # f.sequence
        <5>1. f.sequence \in Nat
          BY Sent DEF FlightOK
        <5> QED
          BY <2>2, <4>1, <5>1
      <4>3. s \in DOMAIN frames => s \in DOMAIN frames' /\ frames'[s] = frames[s]
        BY <2>2, <4>1, <4>2
      <4> QED
        BY <2>3, <3>1, <4>1, <4>2, <4>3
    <3>6. CASE Expire
      <4>1. PICK t \in DOMAIN frames : frames' = Without(t) /\ spoilt' = spoilt \cup {t} /\ flight' = flight
        BY <3>6 DEF Expire
      <4> QED
        BY <2>2, <3>1, <4>1 DEF Without
    <3> QED
      BY <1>2, <3>2, <3>3, <3>4, <3>5, <3>6 DEF Next
  <2> QED
    BY <2>4, <2>5
<1>3. CASE UNCHANGED vars
  BY <1>3 DEF vars, Accounted, Fragments
<1> QED
  BY <1>1, <1>2, <1>3

\* A delivered frame is the access unit that was sent under its number.
LEMMA Delivered ==
  ASSUME TypeOK, FlightOK, Separable, Deliver
  PROVE  \E s \in DOMAIN sent :
           /\ latest < s /\ latest' = s
           /\ arrivals' = Append(arrivals, <<s, Normal(sent[s])>>)
           /\ sent' = sent
<1>1. PICK f \in flight :
        /\ ~Stale(f.sequence) /\ Complete(With(f)) /\ latest' = f.sequence
        /\ arrivals' = Append(arrivals, <<f.sequence, Data(With(f))>>)
        /\ sent' = sent
  BY DEF Deliver
<1>2. f.sequence \in DOMAIN sent /\ With(f) \in SUBSET Fragments(f.sequence)
  BY WithIn
<1>3. With(f) = Fragments(f.sequence) /\ Data(Fragments(f.sequence)) = Normal(sent[f.sequence])
  BY <1>1, <1>2, SeparableFrames
<1>4. latest < f.sequence
  <2>1. f.sequence \in Nat /\ latest \in Nat /\ ~(f.sequence <= latest)
    BY <1>1, <1>2, Sent DEF Stale
  <2> QED
    BY <2>1
<1> QED
  BY <1>1, <1>2, <1>3, <1>4

LEMMA InOrderStep ==
  ASSUME TypeOK, FlightOK, InOrder, Separable, [Next]_vars
  PROVE  InOrder'
<1>1. CASE Deliver
  <2>1. PICK s \in DOMAIN sent :
          latest < s /\ latest' = s /\ arrivals' = Append(arrivals, <<s, Normal(sent[s])>>)
    BY <1>1, Delivered
  <2>2. s \in Nat /\ latest \in Nat /\ sent[s] \in AccessUnit
    BY Sent
  <2>3. <<s, Normal(sent[s])>> \in Nat \X Contents
    BY <2>2 DEF Contents
  <2>4. arrivals \in Seq(Nat \X Contents) /\ Len(arrivals) \in Nat /\ DOMAIN arrivals = 1..Len(arrivals)
    BY LenProperties DEF InOrder
  <2>5. /\ arrivals' \in Seq(Nat \X Contents) /\ Len(arrivals') = Len(arrivals) + 1
        /\ \A i \in 1..Len(arrivals) : arrivals'[i] = arrivals[i]
        /\ arrivals'[Len(arrivals) + 1] = <<s, Normal(sent[s])>>
    BY <2>1, <2>3, <2>4, AppendProperties
  <2>6. \A i \in DOMAIN arrivals' : i \in 1..Len(arrivals) \/ i = Len(arrivals) + 1
    <3>1. DOMAIN arrivals' = 1..(Len(arrivals) + 1)
      BY <2>5, LenProperties
    <3> QED
      BY <2>4, <3>1
  <2>7. ASSUME NEW i \in DOMAIN arrivals'
        PROVE  arrivals'[i][1] <= latest'
    <3>1. CASE i \in 1..Len(arrivals)
      <4>1. arrivals'[i] = arrivals[i] /\ arrivals[i][1] <= latest
        BY <2>4, <2>5, <3>1 DEF InOrder
      <4>2. arrivals[i] \in Nat \X Contents
        BY <2>4, <3>1, ElementOfSeq
      <4>3. arrivals[i][1] \in Nat
        BY <4>2
      <4> QED
        BY <2>1, <2>2, <4>1, <4>3
    <3>2. CASE i = Len(arrivals) + 1
      BY <2>1, <2>2, <2>5, <3>2
    <3> QED
      BY <2>6, <3>1, <3>2
  <2> QED
    BY <2>5, <2>7 DEF InOrder
<1>2. CASE Send \/ Lose \/ Ignore \/ Store \/ Expire \/ UNCHANGED vars
  BY <1>2 DEF Send, Lose, Ignore, Store, Expire, vars, InOrder
<1> QED
  BY <1>1, <1>2 DEF Next

LEMMA NalInvariant == ASSUME Separable PROVE Spec => []NalInv
<1>1. Init => NalInv
  <2> SUFFICES ASSUME Init
               PROVE  NalInv
    OBVIOUS
  <2>1. Len(sent) = 0 /\ sent \in Seq(AccessUnit) /\ DOMAIN frames = {} /\ Cardinality({}) = 0
    BY FS_EmptySet DEF Init
  <2>2. MaxSequence \in Nat /\ InFlightMax \in Nat
    BY NalAssumption
  <2>3. Len(sent) <= MaxSequence /\ Cardinality(DOMAIN frames) <= InFlightMax /\ latest \in 0..Len(sent)
    BY <2>1, <2>2 DEF Init
  <2> QED
    BY <2>1, <2>3 DEF Init, NalInv, TypeOK, FlightOK, Accounted, InOrder
<1>2. NalInv /\ [Next]_vars => NalInv'
  BY TypesStep, AccountedStep, InOrderStep DEF NalInv
<1> QED
  BY <1>1, <1>2, PTL DEF Spec

\* A frame of separable units of which every fragment came is handed to the viewer,
\* however its fragments were mixed with those of others: none waits for a fragment
\* that is already there, and the count in the headers is the number of fragments.
THEOREM NothingIsHeldBack == ASSUME Separable PROVE Spec => []NothingHeldBack
<1>1. NalInv => NothingHeldBack
  <2> SUFFICES ASSUME NalInv, NEW s \in DOMAIN sent, s \notin spoilt, ~(s <= latest),
                      ~\E f \in flight : f.sequence = s
               PROVE  FALSE
    BY DEF NothingHeldBack
  <2>1. \A f \in Fragments(s) : f \in flight \/ (s \in DOMAIN frames /\ f \in frames[s])
    BY DEF NalInv, Accounted
  <2>2. \A f \in Fragments(s) : f.sequence = s
    BY PacketizedIn DEF Fragments, Row, Piece
  <2>3. Complete(Fragments(s)) /\ Fragments(s) # {}
    BY SeparableFrames DEF NalInv
  <2>4. s \in DOMAIN frames /\ Fragments(s) \subseteq frames[s]
    BY <2>1, <2>2, <2>3
  <2>5. frames[s] \subseteq Fragments(s) /\ ~Complete(frames[s])
    BY <2>4 DEF NalInv, TypeOK, Fragments
  <2>6. frames[s] = Fragments(s)
    BY <2>4, <2>5
  <2> QED
    BY <2>3, <2>5, <2>6
<1> QED
  BY <1>1, NalInvariant, PTL

\* What a step of the lane is for its user: a frame is sent, a frame arrives whole
\* and behind all earlier arrivals, or nothing happens.
LEMMA NalStepImplements ==
  ASSUME NalInv, Separable, [Next]_vars
  PROVE  [Lane!Next]_<<[s \in DOMAIN sent |-> Normal(sent[s])], arrivals>>
<1> USE DEF NalInv
<1>1. CASE Send
  <2>1. /\ Len(sent') = Len(sent) + 1 /\ sent' \in Seq(AccessUnit)
        /\ \A s \in DOMAIN sent : sent'[s] = sent[s]
        /\ sent'[Len(sent')] \in AccessUnit /\ arrivals' = arrivals
    BY <1>1, SendChanges
  <2>2. Len(sent) \in Nat /\ DOMAIN sent = 1..Len(sent) /\ DOMAIN sent' = 1..(Len(sent) + 1)
        /\ \A s \in DOMAIN sent : sent[s] \in AccessUnit
    BY <2>1, Sent, LenProperties
  <2>3. PICK old : old = [s \in 1..Len(sent) |-> Normal(sent[s])]
    OBVIOUS
  <2>4. PICK new : new = [s \in 1..(Len(sent) + 1) |-> Normal(sent'[s])]
    OBVIOUS
  <2>5. PICK c \in Contents : c = Normal(sent'[Len(sent) + 1])
    BY <2>1 DEF Contents
  <2>6. old \in Seq(Contents) /\ Len(old) = Len(sent)
    <3>1. old \in [1..Len(sent) -> Contents]
      BY <2>2, <2>3 DEF Contents
    <3>2. old \in Seq(Contents)
      BY <2>2, <3>1, SeqDef
    <3>3. Len(old) \in Nat /\ 1..Len(old) = 1..Len(sent)
      BY <3>1, <3>2, LenProperties
    <3> QED
      BY <2>2, <3>2, <3>3, SameInterval
  <2>7. new = Append(old, c)
    <3>1. /\ Append(old, c) \in Seq(Contents) /\ Len(Append(old, c)) = Len(sent) + 1
          /\ \A i \in 1..Len(sent) : Append(old, c)[i] = old[i]
          /\ Append(old, c)[Len(sent) + 1] = c
      BY <2>5, <2>6, AppendProperties
    <3>2. Append(old, c) = [i \in 1..(Len(sent) + 1) |-> Append(old, c)[i]]
      BY <3>1, LenProperties
    <3>3. ASSUME NEW i \in 1..(Len(sent) + 1)
          PROVE  Append(old, c)[i] = Normal(sent'[i])
      <4>1. CASE i = Len(sent) + 1
        BY <2>5, <3>1, <4>1
      <4>2. CASE i \in 1..Len(sent)
        <5>1. sent'[i] = sent[i] /\ old[i] = Normal(sent[i]) /\ Append(old, c)[i] = old[i]
          BY <2>1, <2>2, <2>3, <3>1, <4>2
        <5>2. Normal(sent'[i]) = Normal(sent[i])
          BY <5>1
        <5> QED
          BY <5>1, <5>2
      <4>3. Len(sent) \in Nat
        BY <2>2
      <4>4. i = Len(sent) + 1 \/ i \in 1..Len(sent)
        BY <4>3
      <4> QED
        BY <4>1, <4>2, <4>4
    <3> QED
      BY <2>4, <3>2, <3>3
  <2>8. /\ [s \in DOMAIN sent |-> Normal(sent[s])] = old
        /\ [s \in DOMAIN sent |-> Normal(sent[s])]' = new
    BY <2>2, <2>3, <2>4 DEF Normal
  <2>9. Lane!Send(c)
    BY <2>1, <2>7, <2>8 DEF Lane!Send
  <2> QED
    BY <2>9 DEF Lane!Next, Contents
<1>2. CASE Deliver
  <2>1. PICK s \in DOMAIN sent :
          latest < s /\ arrivals' = Append(arrivals, <<s, Normal(sent[s])>>) /\ sent' = sent
    BY <1>2, Delivered
  <2>2. ASSUME NEW i \in DOMAIN arrivals
        PROVE  arrivals[i][1] < s
    <3>1. arrivals[i] \in Nat \X Contents /\ arrivals[i][1] <= latest
      BY LenProperties, ElementOfSeq DEF InOrder
    <3>2. arrivals[i][1] \in Nat /\ latest \in Nat /\ s \in Nat
      BY <3>1, Sent
    <3> QED
      BY <2>1, <3>1, <3>2
  <2>3. PICK old : old = [t \in DOMAIN sent |-> Normal(sent[t])]
    OBVIOUS
  <2>4. s \in DOMAIN old /\ old[s] = Normal(sent[s]) /\ [t \in DOMAIN sent |-> Normal(sent[t])]' = old
    BY <2>1, <2>3 DEF Normal
  <2>5. Lane!Arrive(s)
    BY <2>1, <2>2, <2>3, <2>4 DEF Lane!Arrive
  <2> QED
    BY <2>3, <2>4, <2>5 DEF Lane!Next
<1>3. CASE Lose \/ Ignore \/ Store \/ Expire \/ UNCHANGED vars
  <2>1. sent' = sent /\ arrivals' = arrivals
    BY <1>3 DEF Lose, Ignore, Store, Expire, vars
  <2> QED
    BY <2>1 DEF Normal
<1> QED
  BY <1>1, <1>2, <1>3 DEF Next

\* Of separable access units the decoder gets some, each NAL unit by NAL unit as it
\* was produced, whatever its encoding, the fragments' size and order, and what is
\* lost; they arrive in order and none twice.
THEOREM WholeAndInOrder == ASSUME Separable PROVE Spec => IsOrderedLane
<1>1. Init => Lane!Init
  BY DEF Init, Lane!Init
<1>2. NalInv /\ [Next]_vars => [Lane!Next]_<<[s \in DOMAIN sent |-> Normal(sent[s])], arrivals>>
  BY NalStepImplements
<1> QED
  BY <1>1, <1>2, NalInvariant, PTL DEF Spec, IsOrderedLane, Lane!Spec
=============================================================================
