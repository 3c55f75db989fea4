----------------------------- MODULE WireProofs -----------------------------
(***************************************************************************)
(* What holds of the wire codec and of the framed stream for every width   *)
(* of a byte, every limit and every message, by four facts.  A value that  *)
(* stands somewhere in an input is read back by the field's own read       *)
(* (ReadScalarAt .. ReadFieldsAt).  What is read from an input whose end   *)
(* was lost is read from the whole one (SameWhenCut).  No tag starts with  *)
(* another (TagsAreApart).  And what is left on the stream is what is left *)
(* of the messages written and not yet received (StreamInv).               *)
(***************************************************************************)
EXTENDS FramedStream, SequenceTheorems, WellFoundedInduction, TLAPS

(***************************************************************************)
(* Induction and recursion                                                 *)
(***************************************************************************)
\* A set of natural numbers has a least element: what every induction below is.
LEMMA LeastNat ==
  ASSUME NEW T \in SUBSET Nat, T # {}
  PROVE  \E n \in T : \A m \in T : n <= m
<1> DEFINE R == {ss \in Nat \X Nat : ss[1] < ss[2]}
<1>1. IsWellFoundedOn(OpToRel(<, Nat), Nat)
  BY NatLessThanWellFounded
<1>2. IsWellFoundedOn(R, Nat)
  BY <1>1 DEF OpToRel
<1>3. \A x, y \in Nat : y < x => <<y, x>> \in R
  OBVIOUS
<1> HIDE DEF R
<1>4. PICK x \in T : \A y \in T : ~ (<<y, x>> \in R)
  BY <1>2, WFMin
<1>5. \A y \in T : x <= y
  <2> TAKE y \in T
  <2>1. x \in Nat /\ y \in Nat
    OBVIOUS
  <2>2. ~(<<y, x>> \in R)
    BY <1>4
  <2>3. ~(y < x)
    BY <2>1, <2>2, <1>3
  <2> QED
    BY <2>1, <2>3
<1> QED
  BY <1>5

\* A set with 0, and with n + 1 for every n, has all numbers.
LEMMA Induction ==
  ASSUME NEW T, 0 \in T, \A n \in Nat : n \in T => n + 1 \in T
  PROVE  \A n \in Nat : n \in T
<1> SUFFICES ASSUME Nat \ T # {} PROVE FALSE
  OBVIOUS
<1>1. PICK n \in Nat \ T : \A m \in Nat \ T : n <= m
  BY LeastNat
<1>2. n - 1 \in Nat /\ n - 1 \notin Nat \ T
  BY <1>1
<1> QED
  BY <1>1, <1>2

\* A recursive definition of a function from D to S: Step takes a point and the
\* function, and looks at it only where the measure m is smaller.
Grounded(D, S, N, m, Step) ==
  /\ N \in Nat /\ m \in [D -> 0..N] /\ S # {}
  /\ Step \in [D \X [D -> S] -> S]
  /\ \A d \in D : \A g, h \in [D -> S] :
       (\A e \in D : m[e] < m[d] => g[e] = h[e]) => Step[<<d, g>>] = Step[<<d, h>>]

Solutions(D, S, Step) == {f \in [D -> S] : \A d \in D : f[d] = Step[<<d, f>>]}

LEMMA Recursion ==
  ASSUME NEW D, NEW S, NEW N, NEW m, NEW Step, Grounded(D, S, N, m, Step)
  PROVE  Solutions(D, S, Step) # {}
<1> USE DEF Grounded
<1> DEFINE Good(n) == {h \in [D -> S] : \A d \in D : m[d] < n => h[d] = Step[<<d, h>>]}
           T == {n \in Nat : Good(n) # {}}
<1>1. 0 \in T
  <2>1. PICK s \in S : TRUE
    OBVIOUS
  <2>2. [d \in D |-> s] \in Good(0)
    OBVIOUS
  <2> QED
    BY <2>2
<1>2. \A n \in Nat : n \in T => n + 1 \in T
  <2> SUFFICES ASSUME NEW n \in Nat, n \in T PROVE n + 1 \in T
    OBVIOUS
  <2>1. PICK h \in [D -> S] : \A d \in D : m[d] < n => h[d] = Step[<<d, h>>]
    OBVIOUS
  <2> DEFINE k == [d \in D |-> IF m[d] < n THEN h[d] ELSE Step[<<d, h>>]]
  <2>2. k \in [D -> S]
    OBVIOUS
  <2>3. ASSUME NEW d \in D, m[d] < n + 1 PROVE k[d] = Step[<<d, k>>]
    <3>1. \A e \in D : m[e] < m[d] => h[e] = k[e]
      BY <2>3
    <3>2. Step[<<d, h>>] = Step[<<d, k>>]
      BY <2>2, <3>1
    <3> QED
      BY <2>1, <3>2
  <2> HIDE DEF k
  <2>4. k \in Good(n + 1)
    BY <2>2, <2>3
  <2> QED
    BY <2>4
<1>3. N + 1 \in T
  <2> HIDE DEF T
  <2> QED BY <1>1, <1>2, Induction
<1>4. PICK f \in [D -> S] : \A d \in D : m[d] < N + 1 => f[d] = Step[<<d, f>>]
  BY <1>3
<1> QED
  BY <1>4 DEF Solutions

\* What holds of a point if it holds wherever the measure is smaller holds everywhere.
LEMMA MeasureInduction ==
  ASSUME NEW D, NEW P, NEW m \in [D -> Nat],
         \A d \in D : (\A e \in D : m[e] < m[d] => e \in P) => d \in P
  PROVE  \A d \in D : d \in P
<1> DEFINE T == {n \in Nat : \A d \in D : m[d] < n => d \in P}
<1>1. 0 \in T
  OBVIOUS
<1>2. \A n \in Nat : n \in T => n + 1 \in T
  OBVIOUS
<1>3. \A n \in Nat : n \in T
  <2> HIDE DEF T
  <2> QED
    BY <1>1, <1>2, Induction
<1> QED
  BY <1>3

\* FlattenSeq
LEMMA FlattenExists ==
  ASSUME NEW S, NEW seqs \in Seq(Seq(S)), seqs # <<>>
  PROVE  \E f \in [1..Len(seqs) -> Seq(S)] :
           /\ FlattenSeq(seqs) = f[Len(seqs)]
           /\ \A i \in 1..Len(seqs) : f[i] = IF i = 1 THEN seqs[i] ELSE f[i - 1] \o seqs[i]
<1> DEFINE N == Len(seqs)
           D == 1..N
           V == Seq(S)
           m == [i \in D |-> i]
           Equation(f) == f = [i \in D |-> IF i = 1 THEN seqs[i] ELSE f[i - 1] \o seqs[i]]
           F == CHOOSE f : Equation(f)
           Step == [a \in D \X [D -> V] |->
                      IF a[1] = 1 THEN seqs[a[1]] ELSE a[2][a[1] - 1] \o seqs[a[1]]]
<1>1. N \in Nat /\ N # 0 /\ (\A i \in D : seqs[i] \in V) /\ <<>> \in V
  BY EmptySeq, LenProperties
<1>2. FlattenSeq(seqs) = F[N]
  BY <1>1, Zenon DEF FlattenSeq
<1>3. m \in [D -> 0..N] /\ m \in [D -> Nat]
  BY <1>1
<1>4. \A d \in D : d # 1 => d - 1 \in D /\ m[d - 1] < m[d]
  BY <1>1
<1>5. \A v, w \in V : v \o w \in V
  BY ConcatProperties
<1> HIDE DEF N, V, D
<1>6. Step \in [D \X [D -> V] -> V]
  BY <1>1, <1>4, <1>5
<1>7. Grounded(D, V, N, m, Step)
  BY <1>1, <1>3, <1>4, <1>6 DEF Grounded
<1>8. PICK f \in [D -> V] : \A d \in D : f[d] = Step[<<d, f>>]
  <2> HIDE DEF Step, m
  <2>1. Solutions(D, V, Step) # {}
    BY <1>7, Recursion
  <2> QED
    BY <2>1 DEF Solutions
<1>9. Equation(f)
  BY <1>8
<1>10. Equation(F)
  <2> HIDE DEF Equation
  <2> QED
    BY <1>9
<1>11. F = [i \in D |-> IF i = 1 THEN seqs[i] ELSE F[i - 1] \o seqs[i]]
  BY <1>10
<1> HIDE DEF F
<1>12. \A i \in D : F[i] \in V
  <2> DEFINE P == {i \in D : F[i] \in V}
  <2>1. ASSUME NEW d \in D, \A e \in D : m[e] < m[d] => e \in P PROVE d \in P
    <3>1. F[d] = IF d = 1 THEN seqs[d] ELSE F[d - 1] \o seqs[d]
      BY <1>11
    <3>2. d # 1 => F[d - 1] \in V
      BY <1>4, <2>1
    <3> QED
      BY <1>1, <1>5, <3>1, <3>2
  <2>2. \A d \in D : d \in P
    <3> HIDE DEF P, m
    <3> QED
      BY <1>3, <2>1, MeasureInduction
  <2> QED
    BY <2>2
<1> QED
  BY <1>2, <1>11, <1>12 DEF N, D, V

LEMMA JoinedLength ==
  ASSUME NEW S, NEW a \in Seq(S), NEW b \in Seq(S)
  PROVE  a \o b \in Seq(S) /\ Len(a \o b) = Len(a) + Len(b)
BY ConcatProperties

LEMMA Joined ==
  ASSUME NEW S, NEW a \in Seq(S), NEW b \in Seq(S)
  PROVE  /\ a \o b \in Seq(S)
         /\ Len(a) \in Nat /\ Len(b) \in Nat /\ Len(a \o b) = Len(a) + Len(b)
         /\ \A x \in 1..Len(a) : x \in 1..Len(a \o b) /\ (a \o b)[x] = a[x]
         /\ \A x \in 1..Len(b) : Len(a) + x \in 1..Len(a \o b) /\ (a \o b)[Len(a) + x] = b[x]
         /\ \A x \in 1..Len(a \o b) : x <= Len(a) \/ (x - Len(a) \in 1..Len(b) /\ (a \o b)[x] = b[x - Len(a)])
BY ConcatProperties, LenProperties

\* What holds of the first part alone, and still holds with the next part behind, holds
\* of the whole.  R relates a number of parts to what they make up.
LEMMA FlattenInduction ==
  ASSUME NEW S, NEW seqs \in Seq(Seq(S)), seqs # <<>>, NEW R,
         <<1, seqs[1]>> \in R,
         \A k \in 2..Len(seqs) : \A s \in Seq(S) :
           <<k - 1, s>> \in R => <<k, s \o seqs[k]>> \in R
  PROVE  FlattenSeq(seqs) \in Seq(S) /\ <<Len(seqs), FlattenSeq(seqs)>> \in R
<1> DEFINE N == Len(seqs)
           D == 1..N
           m == [i \in D |-> i]
<1>1. PICK f \in [D -> Seq(S)] :
        /\ FlattenSeq(seqs) = f[N]
        /\ \A i \in D : f[i] = IF i = 1 THEN seqs[i] ELSE f[i - 1] \o seqs[i]
  BY FlattenExists
<1>2. N \in Nat /\ N # 0 /\ m \in [D -> Nat]
  BY EmptySeq, LenProperties
<1> DEFINE P == {d \in D : <<d, f[d]>> \in R}
<1>3. ASSUME NEW d \in D, \A e \in D : m[e] < m[d] => e \in P PROVE d \in P
  <2>1. CASE d = 1
    BY <1>1, <2>1
  <2>2. CASE d # 1
    <3>1. d - 1 \in D /\ d \in 2..N /\ m[d - 1] < m[d]
      BY <1>2, <2>2
    <3>2. <<d - 1, f[d - 1]>> \in R /\ f[d - 1] \in Seq(S)
      BY <1>3, <3>1
    <3>3. f[d] = f[d - 1] \o seqs[d]
      BY <1>1, <2>2
    <3> QED
      BY <3>1, <3>2, <3>3
  <2> QED
    BY <2>1, <2>2
<1>4. N \in D
  BY <1>2
<1>5. \A d \in D : d \in P
  <2>1. m \in [D -> Nat]
    BY <1>2
  <2> HIDE DEF P, m, D
  <2> QED
    BY <1>3, <2>1, MeasureInduction
<1> QED
  BY <1>1, <1>4, <1>5

\* Where each part ends, and where the elements of a part are found.
EndsOf(seqs) ==
  {off \in [0..Len(seqs) -> Nat] :
     off[0] = 0 /\ \A k \in 1..Len(seqs) : off[k] = off[k - 1] + Len(seqs[k])}

LEMMA FlattenAt ==
  ASSUME NEW S, NEW seqs \in Seq(Seq(S)), NEW off \in EndsOf(seqs)
  PROVE  /\ Len(FlattenSeq(seqs)) = off[Len(seqs)]
         /\ \A k \in 1..Len(seqs) : \A j \in 1..Len(seqs[k]) :
              /\ off[k - 1] + j \in 1..Len(FlattenSeq(seqs))
              /\ FlattenSeq(seqs)[off[k - 1] + j] = seqs[k][j]
<1> USE DEF EndsOf
<1>1. CASE seqs = <<>>
  <2>1. FlattenSeq(seqs) = <<>> /\ Len(<<>>) = 0
    BY <1>1, EmptySeq DEF FlattenSeq
  <2>2. Len(seqs) = 0 /\ Len(FlattenSeq(seqs)) = 0
    BY <1>1, <2>1
  <2> QED
    BY <2>2
<1>2. CASE seqs # <<>>
  <2> DEFINE At(d, s) == \A k \in 1..d : \A j \in 1..Len(seqs[k]) :
                           off[k - 1] + j \in 1..Len(s) /\ s[off[k - 1] + j] = seqs[k][j]
             V == Seq(S)
             R == {p \in (1..Len(seqs)) \X V : Len(p[2]) = off[p[1]] /\ At(p[1], p[2])}
  <2>1. /\ Len(seqs) \in Nat \ {0}
        /\ \A k \in 1..Len(seqs) : seqs[k] \in Seq(S) /\ Len(seqs[k]) \in Nat
    BY <1>2, EmptySeq, LenProperties
  <2> HIDE DEF V, At
  <2>6. \A d, s : <<d, s>> \in R <=> d \in 1..Len(seqs) /\ s \in V /\ Len(s) = off[d] /\ At(d, s)
    OBVIOUS
  <2> USE DEF V, At
  <2> HIDE DEF R
  <2>2. <<1, seqs[1]>> \in R
    <3>1. off[1] = Len(seqs[1]) /\ 1 \in 1..Len(seqs)
      BY <2>1
    <3>2. At(1, seqs[1])
      BY <2>1, <3>1
    <3> QED
      BY <2>1, <2>6, <3>1, <3>2
  <2>3. ASSUME NEW k \in 2..Len(seqs), NEW s \in Seq(S), <<k - 1, s>> \in R
        PROVE  <<k, s \o seqs[k]>> \in R
    <3>7. k \in Nat /\ k \in 1..Len(seqs) /\ seqs[k] \in Seq(S) /\ off[k] = off[k - 1] + Len(seqs[k])
      BY <2>1
    <3>8. At(k - 1, s) /\ Len(s) = off[k - 1]
      <4> HIDE DEF At
      <4> QED
        BY <2>3, <2>6
    <3>1. k \in Nat /\ k \in 1..Len(seqs) /\ seqs[k] \in Seq(S) /\ At(k - 1, s) /\ Len(s) = off[k - 1]
      BY <3>7, <3>8
    <3> DEFINE b == seqs[k]
               c == s \o b
    <3>9. b \in Seq(S)
      BY <3>7
    <3>10. /\ c \in Seq(S) /\ Len(c) = Len(s) + Len(b)
           /\ \A x \in 1..Len(s) : x \in 1..Len(c) /\ c[x] = s[x]
           /\ \A x \in 1..Len(b) : Len(s) + x \in 1..Len(c) /\ c[Len(s) + x] = b[x]
      <4> HIDE DEF b, At
      <4> QED
        BY <3>9, Joined
    <3>2. c \in Seq(S) /\ Len(c) = off[k]
      BY <3>1, <3>7, <3>10
    <3>6. /\ \A x \in 1..Len(s) : x \in 1..Len(c) /\ c[x] = s[x]
          /\ \A x \in 1..Len(seqs[k]) : Len(s) + x \in 1..Len(c) /\ c[Len(s) + x] = seqs[k][x]
      BY <3>10
    <3> HIDE DEF c
    <3>3. ASSUME NEW n \in 1..k, NEW j \in 1..Len(seqs[n])
          PROVE  off[n - 1] + j \in 1..Len(c) /\ c[off[n - 1] + j] = seqs[n][j]
      <4>1. CASE n = k
        BY <3>1, <3>6, <4>1
      <4>2. CASE n \in 1..(k - 1)
        <5>1. off[n - 1] + j \in 1..Len(s) /\ s[off[n - 1] + j] = seqs[n][j]
          BY <3>1, <4>2
        <5> QED
          BY <3>6, <5>1
      <4> QED
        BY <3>1, <4>1, <4>2
    <3>4. At(k, c)
      BY <3>3
    <3>5. <<k, c>> \in R
      BY <2>6, <3>1, <3>2, <3>4
    <3> QED
      BY <3>5 DEF c
  <2>4. <<Len(seqs), FlattenSeq(seqs)>> \in R
    BY <1>2, <2>2, <2>3, FlattenInduction
  <2>5. Len(FlattenSeq(seqs)) = off[Len(seqs)] /\ At(Len(seqs), FlattenSeq(seqs))
    BY <2>4, <2>6
  <2> QED
    BY <2>5
<1> QED
  BY <1>1, <1>2

\* The ends of the parts exist.
LEMMA EndsExist ==
  ASSUME NEW S, NEW seqs \in Seq(Seq(S))
  PROVE  EndsOf(seqs) # {}
<1> DEFINE N == Len(seqs)
           D == 0..N
           m == [i \in D |-> i]
           Step == [a \in D \X [D -> Nat] |->
                      IF a[1] = 0 THEN 0 ELSE a[2][a[1] - 1] + Len(seqs[a[1]])]
<1>1. N \in Nat /\ \A i \in 1..N : Len(seqs[i]) \in Nat
  BY LenProperties
<1>2. m \in [D -> 0..N]
  BY <1>1
<1>3. \A d \in D : d # 0 => d \in 1..N /\ d - 1 \in D /\ m[d - 1] < m[d]
  BY <1>1
<1>4. Step \in [D \X [D -> Nat] -> Nat]
  <2>1. ASSUME NEW a \in D \X [D -> Nat]
        PROVE  (IF a[1] = 0 THEN 0 ELSE a[2][a[1] - 1] + Len(seqs[a[1]])) \in Nat
    <3>1. a[1] \in D /\ a[2] \in [D -> Nat]
      OBVIOUS
    <3> HIDE DEF D, N
    <3>2. CASE a[1] # 0
      <4>1. a[2][a[1] - 1] \in Nat /\ Len(seqs[a[1]]) \in Nat
        BY <1>1, <1>3, <3>1, <3>2
      <4> QED
        BY <3>2, <4>1
    <3> QED
      BY <3>2
  <2> HIDE DEF D, N
  <2> QED
    BY <2>1
<1>5. Grounded(D, Nat, N, m, Step)
  <2> HIDE DEF D, N
  <2> QED
    BY <1>1, <1>2, <1>3, <1>4 DEF Grounded
<1>6. PICK f \in [D -> Nat] : \A d \in D : f[d] = Step[<<d, f>>]
  <2> HIDE DEF D, N, Step, m
  <2>1. Solutions(D, Nat, Step) # {}
    BY <1>5, Recursion
  <2> QED
    BY <2>1 DEF Solutions
<1>7. f \in EndsOf(seqs)
  BY <1>1, <1>6 DEF EndsOf
<1> QED
  BY <1>7

\* What a flattened sequence is, without its parts.
LEMMA FlattenIsSeq ==
  ASSUME NEW S, NEW seqs \in Seq(Seq(S))
  PROVE  FlattenSeq(seqs) \in Seq(S) /\ Len(FlattenSeq(seqs)) \in Nat
<1>1. CASE seqs = <<>>
  <2>1. Len(seqs) = 0 /\ <<>> \in Seq(S)
    BY <1>1, EmptySeq
  <2> QED
    BY <1>1, <2>1, LenProperties DEF FlattenSeq
<1>2. CASE seqs # <<>>
  <2> DEFINE R == (1..Len(seqs)) \X Seq(S)
  <2>1. Len(seqs) \in Nat \ {0} /\ \A k \in 1..Len(seqs) : seqs[k] \in Seq(S)
    BY <1>2, EmptySeq
  <2>2. <<1, seqs[1]>> \in R
    BY <2>1
  <2>3. ASSUME NEW k \in 2..Len(seqs), NEW s \in Seq(S), <<k - 1, s>> \in R
        PROVE  <<k, s \o seqs[k]>> \in R
    <3>1. k \in 1..Len(seqs) /\ seqs[k] \in Seq(S)
      BY <2>1
    <3>2. s \o seqs[k] \in Seq(S)
      BY <3>1, ConcatProperties
    <3> QED
      BY <3>1, <3>2
  <2>4. FlattenSeq(seqs) \in Seq(S)
    <3> HIDE DEF R
    <3> QED
      BY <1>2, <2>2, <2>3, FlattenInduction
  <2> QED
    BY <2>4, LenProperties
<1> QED
  BY <1>1, <1>2

(***************************************************************************)
(* Numbers                                                                 *)
(***************************************************************************)
LEMMA CapacityEquation ==
  /\ \A n \in 0..5 : Capacity[n] \in Nat \ {0}
  /\ Capacity[0] = 1
  /\ \A n \in 1..5 : Capacity[n] = Byte * Capacity[n - 1]
<1> DEFINE D == 0..5
           m == [i \in D |-> i]
           V == Nat \ {0}
           Equation(f) == f = [n \in D |-> IF n = 0 THEN 1 ELSE Byte * f[n - 1]]
           Step == [a \in D \X [D -> V] |-> IF a[1] = 0 THEN 1 ELSE Byte * a[2][a[1] - 1]]
<1>1. Byte \in Nat \ {0}
  BY WireAssumption
<1>2. m \in [D -> 0..5] /\ \A d \in D : d # 0 => d - 1 \in D /\ m[d - 1] < m[d]
  OBVIOUS
<1>3. \A v \in V : Byte * v \in V
  BY <1>1
<1>4. Step \in [D \X [D -> V] -> V]
  <2>1. 1 \in V
    OBVIOUS
  <2>2. ASSUME NEW a \in D \X [D -> V]
        PROVE  (IF a[1] = 0 THEN 1 ELSE Byte * a[2][a[1] - 1]) \in V
    <3>1. a[1] \in D /\ a[2] \in [D -> V]
      OBVIOUS
    <3> HIDE DEF D, V
    <3>2. CASE a[1] # 0
      <4>1. a[2][a[1] - 1] \in V
        BY <1>2, <3>1, <3>2
      <4> QED
        BY <1>3, <3>2, <4>1
    <3> QED
      BY <2>1, <3>2
  <2> HIDE DEF D, V
  <2> QED
    BY <2>2
<1>5. Grounded(D, V, 5, m, Step)
  <2>1. V # {} /\ 5 \in Nat
    OBVIOUS
  <2> HIDE DEF V
  <2> QED
    BY <1>2, <1>4, <2>1 DEF Grounded
<1>6. PICK f \in [D -> V] : \A d \in D : f[d] = Step[<<d, f>>]
  <2> HIDE DEF D, V, m, Step
  <2>1. Solutions(D, V, Step) # {}
    BY <1>5, Recursion
  <2> QED
    BY <2>1 DEF Solutions
<1>7. Equation(f)
  <2> HIDE DEF V
  <2> QED
    BY <1>6
<1>8. Capacity = CHOOSE g : Equation(g)
  BY DEF Capacity
<1>9. Equation(Capacity)
  <2> HIDE DEF Equation
  <2> QED
    BY <1>7, <1>8
<1>10. \A d \in D : Capacity[d] = IF d = 0 THEN 1 ELSE Byte * Capacity[d - 1]
  BY <1>9
<1>11. Capacity[0] = 1 /\ \A n \in 1..5 : Capacity[n] = Byte * Capacity[n - 1]
  BY <1>10
<1>12. Capacity[0] \in V
  BY <1>11
<1>13. Capacity[1] \in V
  BY <1>3, <1>11, <1>12
<1>14. Capacity[2] \in V
  BY <1>3, <1>11, <1>13
<1>15. Capacity[3] \in V
  BY <1>3, <1>11, <1>14
<1>16. Capacity[4] \in V
  BY <1>3, <1>11, <1>15
<1>17. Capacity[5] \in V
  BY <1>3, <1>11, <1>16
<1> QED
  BY <1>11, <1>12, <1>13, <1>14, <1>15, <1>16, <1>17

\* A number that fits in the bytes comes back from them.
LEMMA NumberEquation ==
  ASSUME NEW digits \in Seq(Nat)
  PROVE  \E f \in [0..Len(digits) -> Nat] :
           /\ Number(digits) = f[Len(digits)]
           /\ f[0] = 0
           /\ \A i \in 1..Len(digits) : f[i] = f[i - 1] * Byte + digits[i]
<1> DEFINE N == Len(digits)
           D == 0..N
           m == [i \in D |-> i]
           Equation(f) == f = [i \in D |-> IF i = 0 THEN 0 ELSE f[i - 1] * Byte + digits[i]]
           F == CHOOSE f : Equation(f)
           Step == [a \in D \X [D -> Nat] |->
                      IF a[1] = 0 THEN 0 ELSE a[2][a[1] - 1] * Byte + digits[a[1]]]
<1>1. Byte \in Nat /\ N \in Nat /\ \A i \in 1..N : digits[i] \in Nat
  BY WireAssumption, LenProperties
<1>2. m \in [D -> 0..N] /\ 0 \in D /\ N \in D
  BY <1>1
<1>3. \A d \in D : d # 0 => d \in 1..N /\ d - 1 \in D /\ m[d - 1] < m[d]
  BY <1>1
<1>4. \A v, w \in Nat : v * Byte + w \in Nat
  BY <1>1
<1>5. Step \in [D \X [D -> Nat] -> Nat]
  <2>1. ASSUME NEW a \in D \X [D -> Nat]
        PROVE  (IF a[1] = 0 THEN 0 ELSE a[2][a[1] - 1] * Byte + digits[a[1]]) \in Nat
    <3>1. a[1] \in D /\ a[2] \in [D -> Nat]
      OBVIOUS
    <3> HIDE DEF D, N
    <3>2. CASE a[1] # 0
      <4>1. a[2][a[1] - 1] \in Nat /\ digits[a[1]] \in Nat
        BY <1>1, <1>3, <3>1, <3>2
      <4> QED
        BY <1>4, <3>2, <4>1
    <3> QED
      BY <3>2
  <2> HIDE DEF D, N
  <2> QED
    BY <2>1
<1>6. Grounded(D, Nat, N, m, Step)
  <2> HIDE DEF D, N
  <2> QED
    BY <1>1, <1>2, <1>3, <1>5 DEF Grounded
<1>7. PICK f \in [D -> Nat] : \A d \in D : f[d] = Step[<<d, f>>]
  <2> HIDE DEF D, m, N, Step
  <2>1. Solutions(D, Nat, Step) # {}
    BY <1>6, Recursion
  <2> QED
    BY <2>1 DEF Solutions
<1>8. Equation(f)
  <2> HIDE DEF N
  <2> QED
    BY <1>7
<1>9. Number(digits) = F[N]
  BY Zenon DEF Number
<1>10. Equation(F)
  <2> HIDE DEF Equation
  <2> QED
    BY <1>8
<1>11. F = [i \in D |-> IF i = 0 THEN 0 ELSE F[i - 1] * Byte + digits[i]]
  BY <1>10
<1> HIDE DEF F
<1>12. \A i \in D : F[i] \in Nat
  <2> DEFINE P == {i \in D : F[i] \in Nat}
  <2>1. ASSUME NEW d \in D, \A e \in D : m[e] < m[d] => e \in P PROVE d \in P
    <3>1. F[d] = IF d = 0 THEN 0 ELSE F[d - 1] * Byte + digits[d]
      BY <1>11
    <3>2. CASE d # 0
      <4>1. d - 1 \in P /\ digits[d] \in Nat
        BY <1>1, <1>3, <2>1, <3>2
      <4> HIDE DEF D, N
      <4> QED
        BY <1>4, <3>1, <3>2, <4>1
    <3> QED
      BY <3>1, <3>2
  <2>2. m \in [D -> Nat]
    BY <1>1
  <2>3. \A d \in D : d \in P
    <3> HIDE DEF P, m, D
    <3> QED
      BY <2>1, <2>2, MeasureInduction
  <2> QED
    BY <2>3
<1>14. F \in [D -> Nat]
  BY <1>11, <1>12
<1>13. F[0] = 0 /\ \A i \in 1..N : F[i] = F[i - 1] * Byte + digits[i]
  BY <1>2, <1>3, <1>11, <1>12
<1> QED
  BY <1>9, <1>13, <1>14

\* What is left of a number when its last n digits are gone.
LEMMA BigEndianEquation ==
  ASSUME NEW width \in Nat, NEW v \in Nat
  PROVE  \E f \in [0..width -> Nat] :
           /\ BigEndian(width, v) = [i \in 1..width |-> f[width - i] % Byte]
           /\ f[0] = v
           /\ \A n \in 1..width : f[n] = f[n - 1] \div Byte
<1> DEFINE D == 0..width
           m == [i \in D |-> i]
           Equation(f) == f = [n \in D |-> IF n = 0 THEN v ELSE f[n - 1] \div Byte]
           F == CHOOSE f : Equation(f)
           Step == [a \in D \X [D -> Nat] |-> IF a[1] = 0 THEN v ELSE a[2][a[1] - 1] \div Byte]
<1>1. Byte \in Nat \ {0}
  BY WireAssumption
<1>2. m \in [D -> 0..width] /\ 0 \in D /\ width \in D
  OBVIOUS
<1>3. \A d \in D : d # 0 => d \in 1..width /\ d - 1 \in D /\ m[d - 1] < m[d]
  OBVIOUS
<1>4. \A w \in Nat : w \div Byte \in Nat
  BY <1>1
<1>5. Step \in [D \X [D -> Nat] -> Nat]
  <2>1. ASSUME NEW a \in D \X [D -> Nat]
        PROVE  (IF a[1] = 0 THEN v ELSE a[2][a[1] - 1] \div Byte) \in Nat
    <3>1. a[1] \in D /\ a[2] \in [D -> Nat]
      OBVIOUS
    <3> HIDE DEF D
    <3>2. CASE a[1] # 0
      <4>1. a[2][a[1] - 1] \in Nat
        BY <1>3, <3>1, <3>2
      <4> QED
        BY <1>4, <3>2, <4>1
    <3> QED
      BY <3>2
  <2> HIDE DEF D
  <2> QED
    BY <2>1
<1>6. Grounded(D, Nat, width, m, Step)
  <2> HIDE DEF D
  <2> QED
    BY <1>2, <1>3, <1>5 DEF Grounded
<1>7. PICK f \in [D -> Nat] : \A d \in D : f[d] = Step[<<d, f>>]
  <2> HIDE DEF D, m, Step
  <2>1. Solutions(D, Nat, Step) # {}
    BY <1>6, Recursion
  <2> QED
    BY <2>1 DEF Solutions
<1>8. Equation(f)
  BY <1>7
<1>9. BigEndian(width, v) = [i \in 1..width |-> F[width - i] % Byte]
  BY Zenon DEF BigEndian
<1>10. Equation(F)
  <2> HIDE DEF Equation
  <2> QED
    BY <1>8
<1>11. F = [n \in D |-> IF n = 0 THEN v ELSE F[n - 1] \div Byte]
  BY <1>10
<1> HIDE DEF F
<1>12. \A i \in D : F[i] \in Nat
  <2> DEFINE P == {i \in D : F[i] \in Nat}
  <2>1. ASSUME NEW d \in D, \A e \in D : m[e] < m[d] => e \in P PROVE d \in P
    <3>1. F[d] = IF d = 0 THEN v ELSE F[d - 1] \div Byte
      BY <1>11
    <3>2. CASE d # 0
      <4>1. d - 1 \in P
        BY <1>3, <2>1, <3>2
      <4> HIDE DEF D
      <4> QED
        BY <1>4, <3>1, <3>2, <4>1
    <3> QED
      BY <3>1, <3>2
  <2>2. m \in [D -> Nat]
    OBVIOUS
  <2>3. \A d \in D : d \in P
    <3> HIDE DEF P, m, D
    <3> QED
      BY <2>1, <2>2, MeasureInduction
  <2> QED
    BY <2>3
<1>14. F \in [D -> Nat]
  BY <1>11, <1>12
<1>13. F[0] = v /\ \A n \in 1..width : F[n] = F[n - 1] \div Byte
  BY <1>2, <1>3, <1>11, <1>12
<1> QED
  BY <1>9, <1>13, <1>14

LEMMA DivisionOfNat ==
  ASSUME NEW b \in Nat \ {0}, NEW v \in Nat
  PROVE  /\ v \div b \in Nat /\ v % b \in 0..b - 1
         /\ (v \div b) * b + (v % b) = v
OBVIOUS

\* A digit less.
LEMMA DivisionOfBound ==
  ASSUME NEW b \in Nat \ {0}, NEW c \in Nat \ {0}, NEW v \in Nat, v < b * c
  PROVE  v \div b < c
<1> DEFINE q == v \div b
<1>1. q \in Nat /\ q * b <= v
  BY DivisionOfNat
<1> HIDE DEF q
<1>2. q >= c => q * b >= c * b
  BY <1>1
<1>3. b * c = c * b
  OBVIOUS
<1>4. q * b \in Nat /\ b * c \in Nat
  BY <1>1
<1> QED
  BY <1>1, <1>2, <1>3, <1>4 DEF q

LEMMA BigEndianIsDigits ==
  ASSUME NEW width \in Nat, NEW v \in Nat
  PROVE  /\ BigEndian(width, v) \in Seq(Digit)
         /\ BigEndian(width, v) \in Seq(Nat)
         /\ Len(BigEndian(width, v)) = width
<1>1. PICK f \in [0..width -> Nat] : BigEndian(width, v) = [i \in 1..width |-> f[width - i] % Byte]
  BY BigEndianEquation, ZenonT(30)
<1>2. Byte \in Nat \ {0}
  BY WireAssumption
<1>3. ASSUME NEW i \in 1..width PROVE f[width - i] % Byte \in Digit
  <2>1. f[width - i] \in Nat
    OBVIOUS
  <2> QED
    BY <1>2, <2>1, DivisionOfNat DEF Digit
<1>4. Digit \subseteq Nat
  BY <1>2 DEF Digit
<1>5. BigEndian(width, v) \in [1..width -> Digit] /\ BigEndian(width, v) \in [1..width -> Nat]
  BY <1>1, <1>3, <1>4
<1> QED
  BY <1>5

LEMMA NumberOfBigEndian ==
  ASSUME NEW width \in 0..5, NEW v \in 0..Capacity[width] - 1
  PROVE  Number(BigEndian(width, v)) = v
<1>1. v \in Nat /\ v < Capacity[width] /\ width \in Nat
  BY CapacityEquation
<1>2. PICK f \in [0..width -> Nat] :
        /\ BigEndian(width, v) = [i \in 1..width |-> f[width - i] % Byte]
        /\ f[0] = v
        /\ \A n \in 1..width : f[n] = f[n - 1] \div Byte
  BY <1>1, BigEndianEquation
<1> DEFINE s == BigEndian(width, v)
<1>3. s \in Seq(Nat) /\ Len(s) = width
  BY <1>1, BigEndianIsDigits
<1>4. PICK g \in [0..width -> Nat] :
        /\ Number(s) = g[width]
        /\ g[0] = 0
        /\ \A i \in 1..width : g[i] = g[i - 1] * Byte + s[i]
  BY <1>3, NumberEquation
<1>5. Byte \in Nat \ {0}
  BY WireAssumption
<1>6. \A n \in 0..width : f[n] < Capacity[width - n]
  <2> DEFINE T == {n \in Nat : n <= width => f[n] < Capacity[width - n]}
  <2>1. 0 \in T
    BY <1>1, <1>2
  <2>2. ASSUME NEW n \in Nat, n \in T PROVE n + 1 \in T
    <3> SUFFICES ASSUME n + 1 <= width PROVE f[n + 1] < Capacity[width - (n + 1)]
      OBVIOUS
    <3> DEFINE c == Capacity[width - (n + 1)]
    <3>1. n \in 0..width /\ n + 1 \in 1..width /\ width - n \in 1..5 /\ width - (n + 1) = (width - n) - 1
          /\ width - (n + 1) \in 0..5
      OBVIOUS
    <3>2. f[n] \in Nat /\ f[n] < Byte * c
      <4>1. f[n] < Capacity[width - n] /\ f[n] \in Nat
        BY <2>2, <3>1
      <4>2. Capacity[width - n] = Byte * Capacity[(width - n) - 1]
        BY <3>1, CapacityEquation
      <4> QED
        BY <3>1, <4>1, <4>2
    <3>3. f[n + 1] = f[n] \div Byte
      BY <1>2, <3>1
    <3>4. c \in Nat \ {0}
      BY <3>1, CapacityEquation
    <3> HIDE DEF c
    <3>5. f[n] \div Byte < c
      BY <1>5, <3>2, <3>4, DivisionOfBound
    <3> QED
      BY <3>3, <3>5 DEF c
  <2>3. \A n \in Nat : n \in T
    <3> HIDE DEF T
    <3> QED
      BY <2>1, <2>2, Induction
  <2> QED
    BY <2>3
<1>7. f[width] = 0
  BY <1>1, <1>6, CapacityEquation
<1>8. \A i \in 0..width : g[i] = f[width - i]
  <2> DEFINE T == {i \in Nat : i <= width => g[i] = f[width - i]}
  <2>1. 0 \in T
    BY <1>4, <1>7
  <2>2. ASSUME NEW i \in Nat, i \in T PROVE i + 1 \in T
    <3> SUFFICES ASSUME i + 1 <= width PROVE g[i + 1] = f[width - (i + 1)]
      OBVIOUS
    <3> DEFINE w == f[width - (i + 1)]
    <3>1. i \in 0..width /\ i + 1 \in 1..width /\ width - i \in 1..width
          /\ width - (i + 1) = (width - i) - 1 /\ width - (i + 1) \in 0..width
      OBVIOUS
    <3>2. g[i] = w \div Byte
      BY <1>2, <2>2, <3>1
    <3>3. s[i + 1] = w % Byte
      BY <1>2, <3>1
    <3>4. g[i + 1] = g[i] * Byte + s[i + 1]
      BY <1>4, <3>1
    <3>5. w \in Nat
      BY <3>1
    <3> HIDE DEF w, s
    <3>6. g[i + 1] = w
      BY <1>5, <3>2, <3>3, <3>4, <3>5, DivisionOfNat
    <3> QED
      BY <3>6 DEF w
  <2>3. \A i \in Nat : i \in T
    <3> HIDE DEF T
    <3> QED
      BY <2>1, <2>2, Induction
  <2> QED
    BY <2>3
<1> QED
  BY <1>1, <1>2, <1>4, <1>8

LEMMA ByteIsNat == Byte \in Nat \ {0} /\ Byte >= 64 /\ Digit \subseteq Nat /\ Digit = 0..Byte - 1
BY WireAssumption DEF Digit

LEMMA DigitsAreNats ==
  ASSUME NEW s \in Seq(Digit)
  PROVE  s \in Seq(Nat) /\ Number(s) \in Nat
<1>1. s \in Seq(Nat)
  BY ByteIsNat, SeqMonotonic
<1>2. Len(s) \in Nat
  BY LenProperties
<1>3. PICK f \in [0..Len(s) -> Nat] : Number(s) = f[Len(s)]
  BY <1>1, NumberEquation
<1> QED
  BY <1>1, <1>2, <1>3

\* The number of a single digit is the digit.
LEMMA NumberOfDigit ==
  ASSUME NEW d \in Nat
  PROVE  Number(<<d>>) = d
<1>1. <<d>> \in Seq(Nat) /\ Len(<<d>>) = 1 /\ <<d>>[1] = d
  OBVIOUS
<1>2. PICK f \in [0..1 -> Nat] :
        Number(<<d>>) = f[1] /\ f[0] = 0 /\ \A i \in 1..1 : f[i] = f[i - 1] * Byte + <<d>>[i]
  BY <1>1, NumberEquation
<1>3. f[1] = f[0] * Byte + d
  BY <1>1, <1>2
<1> QED
  BY <1>2, <1>3, ByteIsNat

(***************************************************************************)
(* Values and the bytes they are put in                                    *)
(***************************************************************************)
Fixed == {"u8", "u16", "u32", "u64", "i32", "bool", "key", "capabilities", "array_16", "array_32"}
Scalars == Fixed \cup {"bytes", "string"}

\* The values that both ends treat as a number without a sign.
Unsigned == {"u8", "u16", "u32", "u64"}

LEMMA FlagsAreRead ==
  ASSUME NEW v \in SUBSET DOMAIN ReadBits
  PROVE  /\ put_capabilities(v) \in 0..4095
         /\ { c \in DOMAIN ReadBits : (put_capabilities(v) \div ReadBits[c]) % 2 = 1 } = v
<1> DEFINE n == put_capabilities(v)
           b(c) == Bit(c, v)
<1>1. \A c \in DOMAIN ReadBits : Bit(c, v) \in {0, 1} /\ (Bit(c, v) = 1 <=> c \in v)
  BY DEF Bit
<1>2. DOMAIN ReadBits = {"desktop", "terminal", "command_execution", "file_transfer", "clipboard",
                         "ssh_compatibility", "control_input", "hybrid_video",
                         "desktop_optimizations", "h264_nal_datagrams",
                         "desktop_selective_retransmit", "av1_software"}
  BY DEF ReadBits
<1>3. n = b("desktop") + 2 * b("terminal") + 4 * b("command_execution")
          + 8 * b("file_transfer") + 16 * b("clipboard") + 32 * b("ssh_compatibility")
          + 64 * b("control_input") + 128 * b("hybrid_video")
          + 256 * b("desktop_optimizations") + 512 * b("h264_nal_datagrams")
          + 1024 * b("desktop_selective_retransmit") + 2048 * b("av1_software")
  BY DEF put_capabilities
<1> HIDE DEF n, b
<1>4. \A c \in DOMAIN ReadBits : b(c) \in {0, 1}
  BY <1>1 DEF b
<1>5. /\ n \in 0..4095
      /\ (n \div 1) % 2 = b("desktop")
      /\ (n \div 2) % 2 = b("terminal")
      /\ (n \div 4) % 2 = b("command_execution")
      /\ (n \div 8) % 2 = b("file_transfer")
      /\ (n \div 16) % 2 = b("clipboard")
      /\ (n \div 32) % 2 = b("ssh_compatibility")
      /\ (n \div 64) % 2 = b("control_input")
      /\ (n \div 128) % 2 = b("hybrid_video")
      /\ (n \div 256) % 2 = b("desktop_optimizations")
      /\ (n \div 512) % 2 = b("h264_nal_datagrams")
      /\ (n \div 1024) % 2 = b("desktop_selective_retransmit")
      /\ (n \div 2048) % 2 = b("av1_software")
  <2>1. /\ b("desktop") \in 0..1
        /\ b("terminal") \in 0..1
        /\ b("command_execution") \in 0..1
        /\ b("file_transfer") \in 0..1
        /\ b("clipboard") \in 0..1
        /\ b("ssh_compatibility") \in 0..1
        /\ b("control_input") \in 0..1
        /\ b("hybrid_video") \in 0..1
        /\ b("desktop_optimizations") \in 0..1
        /\ b("h264_nal_datagrams") \in 0..1
        /\ b("desktop_selective_retransmit") \in 0..1
        /\ b("av1_software") \in 0..1
    BY <1>2, <1>4
  <2> DEFINE low == b("desktop") + 2 * b("terminal") + 4 * b("command_execution")
                    + 8 * b("file_transfer") + 16 * b("clipboard") + 32 * b("ssh_compatibility")
             high == b("control_input") + 2 * b("hybrid_video") + 4 * b("desktop_optimizations")
                     + 8 * b("h264_nal_datagrams") + 16 * b("desktop_selective_retransmit")
                     + 32 * b("av1_software")
  <2>2. n \in 0..4095
    <3>1. low \in 0..63
      BY <2>1
    <3>2. high \in 0..63
      BY <2>1
    <3>3. n = low + 64 * high
      BY <1>3, <2>1
    <3> HIDE DEF low, high
    <3> QED
      BY <3>1, <3>2, <3>3
  <2>3. n \div 1 = b("desktop") + 2 * b("terminal") + 4 * b("command_execution")
                + 8 * b("file_transfer") + 16 * b("clipboard") + 32 * b("ssh_compatibility")
                + 64 * b("control_input") + 128 * b("hybrid_video") + 256 * b("desktop_optimizations")
                + 512 * b("h264_nal_datagrams") + 1024 * b("desktop_selective_retransmit") + 2048 * b("av1_software")
    BY <2>1, <1>3, SMTT(20)
  <2>4. n \div 2 = b("terminal") + 2 * b("command_execution") + 4 * b("file_transfer")
                + 8 * b("clipboard") + 16 * b("ssh_compatibility") + 32 * b("control_input")
                + 64 * b("hybrid_video") + 128 * b("desktop_optimizations") + 256 * b("h264_nal_datagrams")
                + 512 * b("desktop_selective_retransmit") + 1024 * b("av1_software")
    BY <2>1, <1>3, SMTT(20)
  <2>5. n \div 4 = b("command_execution") + 2 * b("file_transfer") + 4 * b("clipboard")
                + 8 * b("ssh_compatibility") + 16 * b("control_input") + 32 * b("hybrid_video")
                + 64 * b("desktop_optimizations") + 128 * b("h264_nal_datagrams") + 256 * b("desktop_selective_retransmit")
                + 512 * b("av1_software")
    BY <2>1, <1>3, SMTT(20)
  <2>6. n \div 8 = b("file_transfer") + 2 * b("clipboard") + 4 * b("ssh_compatibility")
                + 8 * b("control_input") + 16 * b("hybrid_video") + 32 * b("desktop_optimizations")
                + 64 * b("h264_nal_datagrams") + 128 * b("desktop_selective_retransmit") + 256 * b("av1_software")
    BY <2>1, <1>3, SMTT(20)
  <2>7. n \div 16 = b("clipboard") + 2 * b("ssh_compatibility") + 4 * b("control_input")
                + 8 * b("hybrid_video") + 16 * b("desktop_optimizations") + 32 * b("h264_nal_datagrams")
                + 64 * b("desktop_selective_retransmit") + 128 * b("av1_software")
    BY <2>1, <1>3, SMTT(20)
  <2>8. n \div 32 = b("ssh_compatibility") + 2 * b("control_input") + 4 * b("hybrid_video")
                + 8 * b("desktop_optimizations") + 16 * b("h264_nal_datagrams") + 32 * b("desktop_selective_retransmit")
                + 64 * b("av1_software")
    BY <2>1, <1>3, SMTT(20)
  <2>9. n \div 64 = b("control_input") + 2 * b("hybrid_video") + 4 * b("desktop_optimizations")
                + 8 * b("h264_nal_datagrams") + 16 * b("desktop_selective_retransmit") + 32 * b("av1_software")
    BY <2>1, <1>3, SMTT(20)
  <2>10. n \div 128 = b("hybrid_video") + 2 * b("desktop_optimizations") + 4 * b("h264_nal_datagrams")
                + 8 * b("desktop_selective_retransmit") + 16 * b("av1_software")
    BY <2>1, <1>3, SMTT(20)
  <2>11. n \div 256 = b("desktop_optimizations") + 2 * b("h264_nal_datagrams") + 4 * b("desktop_selective_retransmit")
                + 8 * b("av1_software")
    BY <2>1, <1>3, SMTT(20)
  <2>12. n \div 512 = b("h264_nal_datagrams") + 2 * b("desktop_selective_retransmit") + 4 * b("av1_software")
    BY <2>1, <1>3, SMTT(20)
  <2>13. n \div 1024 = b("desktop_selective_retransmit") + 2 * b("av1_software")
    BY <2>1, <1>3, SMTT(20)
  <2>14. n \div 2048 = b("av1_software")
    BY <2>1, <1>3, SMTT(20)
  <2>15. (n \div 1) % 2 = b("desktop")
    BY <2>1, <2>3
  <2>16. (n \div 2) % 2 = b("terminal")
    BY <2>1, <2>4
  <2>17. (n \div 4) % 2 = b("command_execution")
    BY <2>1, <2>5
  <2>18. (n \div 8) % 2 = b("file_transfer")
    BY <2>1, <2>6
  <2>19. (n \div 16) % 2 = b("clipboard")
    BY <2>1, <2>7
  <2>20. (n \div 32) % 2 = b("ssh_compatibility")
    BY <2>1, <2>8
  <2>21. (n \div 64) % 2 = b("control_input")
    BY <2>1, <2>9
  <2>22. (n \div 128) % 2 = b("hybrid_video")
    BY <2>1, <2>10
  <2>23. (n \div 256) % 2 = b("desktop_optimizations")
    BY <2>1, <2>11
  <2>24. (n \div 512) % 2 = b("h264_nal_datagrams")
    BY <2>1, <2>12
  <2>25. (n \div 1024) % 2 = b("desktop_selective_retransmit")
    BY <2>1, <2>13
  <2>26. (n \div 2048) % 2 = b("av1_software")
    BY <2>1, <2>14
  <2> QED
    BY <2>2, <2>15, <2>16, <2>17, <2>18, <2>19, <2>20,
       <2>21, <2>22, <2>23, <2>24, <2>25, <2>26
<1>6. \A c \in DOMAIN ReadBits : (n \div ReadBits[c]) % 2 = b(c)
  BY <1>2, <1>5 DEF ReadBits
<1> QED
  BY <1>1, <1>5, <1>6 DEF n, b

LEMMA CapacityFacts ==
  /\ Capacity[1] = Byte /\ Capacity[2] >= 4096 /\ Capacity[2] \in Nat /\ Capacity[4] \in Nat
  /\ Capacity[4] > Capacity[2]
<1> DEFINE c(n) == Capacity[n]
<1>1. c(1) = Byte * c(0) /\ c(2) = Byte * c(1) /\ c(3) = Byte * c(2) /\ c(4) = Byte * c(3) /\ c(0) = 1
  BY CapacityEquation
<1>2. c(1) \in Nat /\ c(2) \in Nat /\ c(3) \in Nat /\ c(4) \in Nat
  BY CapacityEquation
<1> HIDE DEF c
<1>3. Byte \in Nat /\ Byte >= 64
  BY ByteIsNat
<1>4. \A a, b, d \in Nat : a >= b => a * d >= b * d
  OBVIOUS
<1>5. c(1) = Byte
  BY <1>1, <1>3
<1>6. c(2) >= 64 * Byte
  BY <1>1, <1>3, <1>4, <1>5
<1>7. c(3) >= 64 * c(2)
  BY <1>1, <1>2, <1>3, <1>4
<1>8. c(4) >= 64 * c(3)
  BY <1>1, <1>2, <1>3, <1>4
<1> QED
  BY <1>2, <1>3, <1>5, <1>6, <1>7, <1>8 DEF c

LEMMA KeysAreRead ==
  ASSUME NEW v \in KeyboardKey
  PROVE  wire_code[v] \in 0..4095 /\ from_wire(wire_code[v]) = Ok(v)
<1>1. PICK row \in KeyTable : row[1] = v
  BY DEF KeyboardKey
<1>2. wire_code[v] = (CHOOSE r \in KeyTable : r[1] = v)[2]
  BY DEF wire_code
<1>3. (CHOOSE r \in KeyTable : r[1] = v) = row
  BY <1>1, KeyTableAssumption
<1>4. wire_code[v] = row[2]
  BY <1>2, <1>3
<1>5. (CHOOSE r \in KeyTable : r[2] = row[2]) = row
  BY <1>1, KeysAreDistinct
<1>6. from_wire(row[2]) = Ok(row[1])
  BY <1>5 DEF from_wire
<1> QED
  BY <1>1, <1>4, <1>6, KeyTableAssumption

\* What is put in as many bytes as its type has is read back from them.
LEMMA FixedRoundTrip ==
  ASSUME NEW type \in Fixed, NEW v, IsScalar(type, v)
  PROVE  /\ PutScalar(type, v) \in Seq(Digit)
         /\ Len(PutScalar(type, v)) = Width[type]
         /\ ValueOf(type, PutScalar(type, v)) = Ok(v)
<1> DEFINE s == PutScalar(type, v)
<1>1. CASE type \in Unsigned
  <2>1. v \in 0..Capacity[Width[type]] - 1 /\ s = BigEndian(Width[type], v)
        /\ ValueOf(type, s) = Ok(Number(s)) /\ Width[type] \in 0..5
    BY <1>1 DEF Unsigned, IsScalar, PutScalar, ValueOf, Width
  <2> DEFINE w == Width[type]
  <2> HIDE DEF w
  <2>2. v \in Nat /\ w \in 0..5 /\ w \in Nat /\ v \in 0..Capacity[w] - 1 /\ s = BigEndian(w, v)
    BY <2>1, CapacityEquation DEF w
  <2> HIDE DEF s
  <2>3. s \in Seq(Digit) /\ Len(s) = w
    BY <2>2, BigEndianIsDigits
  <2>4. Number(s) = v
    BY <2>2, NumberOfBigEndian
  <2> USE DEF s, w
  <2> QED
    BY <2>1, <2>3, <2>4
<1>2. CASE type = "i32"
  <2> DEFINE c == Capacity[4]
             u == IF v < 0 THEN v + c ELSE v
  <2>1. v \in -(c \div 2)..(c \div 2) - 1 /\ s = BigEndian(4, u) /\ Width[type] = 4
        /\ ValueOf(type, s) = Ok(IF Number(s) < c \div 2 THEN Number(s) ELSE Number(s) - c)
    BY <1>2 DEF IsScalar, PutScalar, ValueOf, Width
  <2>2. c \in Nat
    BY CapacityEquation
  <2> HIDE DEF c
  <2>3. c \div 2 \in Nat /\ 2 * (c \div 2) <= c
    BY <2>2
  <2>4. v \in Int /\ u \in 0..c - 1 /\ (v < 0 => u >= c \div 2) /\ (v >= 0 => u < c \div 2)
    BY <2>1, <2>2, <2>3
  <2>5. Number(s) = u
    BY <2>1, <2>4, NumberOfBigEndian DEF c
  <2>6. (IF Number(s) < c \div 2 THEN Number(s) ELSE Number(s) - c) = v
    BY <2>2, <2>3, <2>4, <2>5
  <2>7. s \in Seq(Digit) /\ Len(s) = 4
    <3>1. u \in Nat
      BY <2>2, <2>4
    <3> HIDE DEF u, s
    <3> QED
      BY <2>1, <3>1, BigEndianIsDigits
  <2> QED
    BY <2>1, <2>6, <2>7
<1>3. CASE type = "bool"
  <2>1. v \in BOOLEAN /\ s = <<IF v THEN 1 ELSE 0>> /\ Width[type] = 1
        /\ ValueOf(type, s) = Ok(Number(s) # 0)
    BY <1>3 DEF IsScalar, PutScalar, ValueOf, Width
  <2>2. Number(s) = IF v THEN 1 ELSE 0
    BY <2>1, NumberOfDigit
  <2>3. s \in Seq(Digit) /\ Len(s) = 1
    BY <2>1, ByteIsNat
  <2>4. (Number(s) # 0) = v
    BY <2>1, <2>2
  <2> QED
    BY <2>1, <2>3, <2>4
<1>4. CASE type = "key"
  <2>1. v \in KeyboardKey /\ s = BigEndian(2, wire_code[v]) /\ Width[type] = 2
        /\ ValueOf(type, s) = from_wire(Number(s))
    BY <1>4 DEF IsScalar, PutScalar, ValueOf, Width
  <2>2. wire_code[v] \in 0..4095 /\ from_wire(wire_code[v]) = Ok(v)
    BY <2>1, KeysAreRead, SMTT(20)
  <2>3. wire_code[v] \in Nat /\ wire_code[v] \in 0..Capacity[2] - 1
    <3> DEFINE n == wire_code[v]
    <3> HIDE DEF n
    <3>1. n \in 0..4095
      BY <2>2 DEF n
    <3>2. n \in Nat /\ n \in 0..Capacity[2] - 1
      BY <3>1, CapacityFacts, SMTT(20)
    <3> QED
      BY <3>2 DEF n
  <2>4. s \in Seq(Digit) /\ Len(s) = 2
    BY <2>1, <2>3, BigEndianIsDigits
  <2>5. Number(s) = wire_code[v]
    BY <2>1, <2>3, NumberOfBigEndian
  <2> QED
    BY <2>1, <2>2, <2>4, <2>5
<1>5. CASE type = "capabilities"
  <2> DEFINE n == put_capabilities(v)
             Flags(x) == { c \in DOMAIN ReadBits : (x \div ReadBits[c]) % 2 = 1 }
  <2>1. v \in SUBSET DOMAIN ReadBits /\ s = BigEndian(2, n) /\ Width[type] = 2
        /\ ValueOf(type, s) = Ok(Flags(Number(s)))
    BY <1>5 DEF IsScalar, PutScalar, ValueOf, Width
  <2>2. n \in 0..4095 /\ Flags(n) = v
    BY <2>1, FlagsAreRead
  <2> HIDE DEF n, Flags
  <2>6. n \in 0..4095
    BY <2>2
  <2>3. n \in Nat /\ n \in 0..Capacity[2] - 1
    BY <2>6, CapacityFacts, SMTT(20)
  <2>4. Number(s) = n
    BY <2>1, <2>3, NumberOfBigEndian
  <2>5. s \in Seq(Digit) /\ Len(s) = 2
    <3> HIDE DEF s
    <3> QED
      BY <2>1, <2>3, BigEndianIsDigits
  <2> QED
    BY <2>1, <2>2, <2>4, <2>5
<1>6. CASE type \in {"array_16", "array_32"}
  <2>1. v \in [1..Width[type] -> Digit] /\ s = v /\ Width[type] \in Nat /\ ValueOf(type, s) = Ok(s)
    BY <1>6 DEF IsScalar, PutScalar, ValueOf, Width
  <2> QED
    BY <2>1
<1> QED
  BY <1>1, <1>2, <1>3, <1>4, <1>5, <1>6 DEF Fixed, Unsigned

(***************************************************************************)
(* Reading what stands somewhere in an input.  Cut is what is left of an   *)
(* input whose end was lost: a read that succeeds there gets the same from *)
(* the whole input, and stands where it would stand.                       *)
(***************************************************************************)
At(input, at, s) ==
  /\ at \in Nat /\ at + Len(s) <= Len(input)
  /\ \A i \in 1..Len(s) : input[at + i] = s[i]

Cut(input, n) == SubSeq(input, 1, n)

\* What a read got from the first n bytes of an input, and where that leaves it.
SameWhenCut(cut, whole, at, n) ==
  cut # Failed => /\ whole = cut
                  /\ cut = Ok([value |-> cut[1].value, at |-> cut[1].at])
                  /\ cut[1].at \in at..n

LEMMA AtParts ==
  ASSUME NEW S, NEW input \in Seq(S), NEW a \in Seq(S), NEW b \in Seq(S), NEW at, At(input, at, a \o b)
  PROVE  At(input, at, a) /\ At(input, at + Len(a), b)
<1> DEFINE c == a \o b
<1>1. /\ Len(a) \in Nat /\ Len(b) \in Nat /\ Len(c) = Len(a) + Len(b) /\ Len(input) \in Nat
      /\ \A x \in 1..Len(a) : x \in 1..Len(c) /\ c[x] = a[x]
      /\ \A x \in 1..Len(b) : Len(a) + x \in 1..Len(c) /\ c[Len(a) + x] = b[x]
  <2> HIDE DEF c
  <2> QED
    BY Joined, LenProperties DEF c
<1>2. /\ at \in Nat /\ at + Len(c) <= Len(input)
      /\ \A i \in 1..Len(c) : input[at + i] = c[i]
  BY DEF At
<1> HIDE DEF c
<1>3. At(input, at, a)
  BY <1>1, <1>2 DEF At
<1>4. At(input, at + Len(a), b)
  <2>1. ASSUME NEW i \in 1..Len(b) PROVE input[(at + Len(a)) + i] = b[i]
    <3>1. input[at + (Len(a) + i)] = c[Len(a) + i] /\ c[Len(a) + i] = b[i]
      BY <1>1, <1>2
    <3>2. (at + Len(a)) + i = at + (Len(a) + i)
      BY <1>1, <1>2
    <3> QED
      BY <3>1, <3>2
  <2> QED
    BY <1>1, <1>2, <2>1 DEF At
<1> QED
  BY <1>3, <1>4

LEMMA TakeAt ==
  ASSUME NEW S, NEW input \in Seq(S), NEW s \in Seq(S), NEW at, At(input, at, s)
  PROVE  Take(input, at, Len(s)) = Ok(s)
<1> DEFINE n == Len(s)
           t == SubSeq(input, at + 1, at + n)
<1>1. n \in Nat /\ at \in Nat /\ Len(input) \in Nat /\ at + n <= Len(input)
  BY LenProperties DEF At
<1>2. \A i \in at + 1..at + n : input[i] \in S
  BY <1>1, ElementOfSeq
<1>3. t \in Seq(S) /\ Len(t) = n /\ \A i \in 1..n : t[i] = input[at + i]
  <2>1. /\ t \in Seq(S)
        /\ Len(t) = IF at + 1 <= at + n THEN at + n - (at + 1) + 1 ELSE 0
        /\ \A i \in 1..at + n - (at + 1) + 1 : t[i] = input[at + 1 + i - 1]
    BY <1>1, <1>2, SubSeqProperties
  <2> QED
    BY <1>1, <2>1
<1>4. t = s
  <2> HIDE DEF t
  <2> QED
    BY <1>1, <1>3, SeqEqual DEF At
<1>5. Take(input, at, n) = Ok(t)
  BY <1>1 DEF Take
<1> QED
  BY <1>4, <1>5

LEMMA TakeWhenCut ==
  ASSUME NEW S, NEW input \in Seq(S), NEW n \in 0..Len(input), NEW at \in Nat, NEW k \in Nat,
         Take(Cut(input, n), at, k) # Failed
  PROVE  /\ Take(input, at, k) = Take(Cut(input, n), at, k)
         /\ at + k <= n
         /\ \E s \in Seq(S) : Take(input, at, k) = Ok(s) /\ Len(s) = k
<1> DEFINE c == Cut(input, n)
           t == SubSeq(c, at + 1, at + k)
           u == SubSeq(input, at + 1, at + k)
<1>1. Len(input) \in Nat /\ \A i \in 1..Len(input) : input[i] \in S
  BY LenProperties, ElementOfSeq
<1>2. c \in Seq(S) /\ Len(c) = n /\ \A i \in 1..n : c[i] = input[i]
  <2>1. \A i \in 1..n : input[i] \in S
    BY <1>1
  <2>2. /\ c \in Seq(S) /\ Len(c) = IF 1 <= n THEN n - 1 + 1 ELSE 0
        /\ \A i \in 1..n - 1 + 1 : c[i] = input[1 + i - 1]
    BY <1>1, <2>1, SubSeqProperties DEF Cut
  <2> QED
    BY <1>1, <2>2
<1>3. at + k <= n
  <2> HIDE DEF c
  <2> QED
    BY <1>1, <1>2 DEF Take, c
<1> HIDE DEF c
<1>4. \A i \in at + 1..at + k : input[i] \in S /\ c[i] \in S /\ c[i] = input[i]
  BY <1>1, <1>2, <1>3
<1>5. u \in Seq(S) /\ Len(u) = k /\ \A i \in 1..k : u[i] = input[at + i]
  <2>1. /\ u \in Seq(S)
        /\ Len(u) = IF at + 1 <= at + k THEN at + k - (at + 1) + 1 ELSE 0
        /\ \A i \in 1..at + k - (at + 1) + 1 : u[i] = input[at + 1 + i - 1]
    BY <1>4, SubSeqProperties
  <2> QED
    BY <2>1
<1>6. t \in Seq(S) /\ Len(t) = k /\ \A i \in 1..k : t[i] = c[at + i]
  <2>1. /\ t \in Seq(S)
        /\ Len(t) = IF at + 1 <= at + k THEN at + k - (at + 1) + 1 ELSE 0
        /\ \A i \in 1..at + k - (at + 1) + 1 : t[i] = c[at + 1 + i - 1]
    BY <1>4, SubSeqProperties
  <2> QED
    BY <2>1
<1>7. t = u
  <2>1. \A i \in 1..k : t[i] = u[i]
    BY <1>4, <1>5, <1>6
  <2> HIDE DEF t, u
  <2> QED
    BY <1>5, <1>6, <2>1, SeqEqual
<1>8. Take(c, at, k) = Ok(t) /\ Take(input, at, k) = Ok(u)
  BY <1>1, <1>2, <1>3 DEF Take
<1> QED
  BY <1>3, <1>5, <1>7, <1>8 DEF c

LEMMA WidthIsNat == \A type \in Fixed : Width[type] \in Nat
BY DEF Fixed, Width

LEMMA PutScalarIsDigits ==
  ASSUME NEW type \in Scalars, NEW v, IsScalar(type, v)
  PROVE  PutScalar(type, v) \in Seq(Digit) /\ Len(PutScalar(type, v)) \in Nat
<1>1. CASE type \in Fixed
  BY <1>1, FixedRoundTrip, WidthIsNat
<1>2. CASE type \in {"bytes", "string"}
  <2>1. v \in Seq(Digit) /\ PutScalar(type, v) = BigEndian(4, Len(v)) \o v
    BY <1>2 DEF IsScalar, PutScalar, PutBytes, Width
  <2>2. Len(v) \in Nat
    BY <2>1, LenProperties
  <2>3. BigEndian(4, Len(v)) \in Seq(Digit)
    BY <2>2, BigEndianIsDigits
  <2> QED
    BY <2>1, <2>3, Joined
<1> QED
  BY <1>1, <1>2 DEF Scalars

LEMMA ResultFacts ==
  /\ \A v : Ok(v) # Failed /\ Ok(v)[1] = v
  /\ \A v, p : Got(Ok(v), p) = Ok([value |-> v, at |-> p])
  /\ \A r, p : r # Failed => Got(r, p) = Ok([value |-> r[1], at |-> p])
  /\ \A r, p : Got(r, p) # Failed => r # Failed
BY DEF Ok, Failed, Got

\* Reading what has its length before it.
LEMMA ReadBytesEquation ==
  ASSUME NEW input, NEW at, NEW s, Take(input, at, 4) = Ok(s)
  PROVE  ReadBytes(input, at) = LET body == Take(input, at + 4, Number(s))
                                IN  IF body = Failed THEN Failed ELSE Got(body, at + 4 + Len(body[1]))
<1>1. Width.u32 = 4
  BY DEF Width
<1>2. Take(input, at, 4) # Failed /\ Take(input, at, 4)[1] = s
  BY ResultFacts
<1> QED
  BY <1>1, <1>2 DEF ReadBytes

LEMMA PutBytesRead ==
  ASSUME NEW v \in Seq(Digit), Len(v) < Capacity[4], NEW input \in Seq(Digit), NEW at,
         At(input, at, PutBytes(v))
  PROVE  /\ Len(PutBytes(v)) = 4 + Len(v)
         /\ ReadBytes(input, at) = Ok([value |-> v, at |-> at + Len(PutBytes(v))])
<1> DEFINE a == BigEndian(4, Len(v))
<1>1. PutBytes(v) = a \o v /\ Width.u32 = 4
  BY DEF PutBytes, Width
<1>2. Len(v) \in Nat /\ Len(v) \in 0..Capacity[4] - 1
  BY LenProperties, CapacityEquation
<1>3. a \in Seq(Digit) /\ Len(a) = 4 /\ Number(a) = Len(v)
  <2> DEFINE n == Len(v)
  <2> HIDE DEF n
  <2>1. n \in Nat /\ n \in 0..Capacity[4] - 1 /\ a = BigEndian(4, n)
    BY <1>2 DEF n
  <2> HIDE DEF a
  <2>2. a \in Seq(Digit) /\ Len(a) = 4
    BY <2>1, BigEndianIsDigits
  <2>3. Number(a) = n
    BY <2>1, NumberOfBigEndian
  <2> QED
    BY <2>2, <2>3 DEF n
<1> HIDE DEF a
<1>4. At(input, at, a) /\ At(input, at + 4, v) /\ Len(a \o v) = 4 + Len(v)
  <2>1. At(input, at, a \o v)
    BY <1>1
  <2>2. At(input, at, a) /\ At(input, at + Len(a), v)
    BY <1>3, <2>1, AtParts
  <2>3. Len(a \o v) = Len(a) + Len(v)
    BY <1>3, Joined
  <2> QED
    BY <1>3, <2>2, <2>3
<1>5. Take(input, at, 4) = Ok(a) /\ Take(input, at + 4, Len(v)) = Ok(v)
  <2>1. Take(input, at, Len(a)) = Ok(a) /\ Take(input, at + 4, Len(v)) = Ok(v)
    BY <1>3, <1>4, TakeAt
  <2> QED
    BY <1>3, <2>1
<1>6. ReadBytes(input, at) = Got(Ok(v), (at + 4) + Len(v))
  <2>1. ReadBytes(input, at) = LET body == Take(input, at + 4, Number(a))
                               IN  IF body = Failed THEN Failed ELSE Got(body, at + 4 + Len(body[1]))
    BY <1>5, ReadBytesEquation
  <2> QED
    BY <1>3, <1>5, <2>1, ResultFacts
<1>7. at \in Nat
  BY DEF At
<1> QED
  BY <1>1, <1>2, <1>4, <1>6, <1>7, ResultFacts

LEMMA ReadScalarAt ==
  ASSUME NEW type \in Scalars, NEW v, IsScalar(type, v),
         NEW input \in Seq(Digit), NEW at, At(input, at, PutScalar(type, v))
  PROVE  ReadScalar(type, input, at) = Ok([value |-> v, at |-> at + Len(PutScalar(type, v))])
<1>1. CASE type \in Fixed
  <2> DEFINE s == PutScalar(type, v)
  <2>1. s \in Seq(Digit) /\ Len(s) = Width[type] /\ ValueOf(type, s) = Ok(v)
    BY <1>1, FixedRoundTrip
  <2>2. Take(input, at, Width[type]) = Ok(s)
    <3> HIDE DEF s
    <3> QED
      BY <2>1, TakeAt DEF s
  <2>3. type \notin {"bytes", "string"}
    BY <1>1 DEF Fixed
  <2>4. ReadScalar(type, input, at) = Got(Ok(v), at + Width[type])
    <3> HIDE DEF s
    <3> QED
      BY <2>1, <2>2, <2>3 DEF ReadScalar, Ok, Failed
  <2> QED
    BY <2>1, <2>4 DEF Got, Ok, Failed
<1>2. CASE type \in {"bytes", "string"}
  <2>1. /\ v \in Seq(Digit) /\ Len(v) < Capacity[4] /\ PutScalar(type, v) = PutBytes(v)
        /\ type = "string" => Utf8(v)
    BY <1>2 DEF IsScalar, PutScalar, Width
  <2>2. ReadBytes(input, at) = Ok([value |-> v, at |-> at + Len(PutBytes(v))])
    BY <2>1, PutBytesRead
  <2> QED
    BY <1>2, <2>1, <2>2 DEF ReadScalar, Ok, Failed
<1> QED
  BY <1>1, <1>2 DEF Scalars

LEMMA ReadBytesWhenCut ==
  ASSUME NEW input \in Seq(Digit), NEW n \in 0..Len(input), NEW at \in Nat
  PROVE  SameWhenCut(ReadBytes(Cut(input, n), at), ReadBytes(input, at), at, n)
<1> DEFINE c == Cut(input, n)
<1> SUFFICES ASSUME ReadBytes(c, at) # Failed
             PROVE  /\ ReadBytes(input, at) = ReadBytes(c, at)
                    /\ \E v, p : ReadBytes(c, at) = Ok([value |-> v, at |-> p]) /\ p \in at..n
  BY DEF SameWhenCut, Ok
<1> HIDE DEF c
<1>1. Width.u32 = 4
  BY DEF Width
<1>2. Take(c, at, 4) # Failed
  BY <1>1 DEF ReadBytes
<1>3. /\ Take(input, at, 4) = Take(c, at, 4) /\ at + 4 <= n
      /\ \E s \in Seq(Digit) : Take(input, at, 4) = Ok(s)
  BY <1>2, TakeWhenCut DEF c
<1>4. PICK s \in Seq(Digit) : Take(input, at, 4) = Ok(s) /\ Take(c, at, 4) = Ok(s)
  BY <1>3
<1> DEFINE k == Number(s)
           p == at + 4
<1>5. k \in Nat /\ p \in Nat
  BY DigitsAreNats
<1>6. /\ ReadBytes(c, at) = IF Take(c, p, k) = Failed THEN Failed
                            ELSE Got(Take(c, p, k), p + Len(Take(c, p, k)[1]))
      /\ ReadBytes(input, at) = IF Take(input, p, k) = Failed THEN Failed
                                ELSE Got(Take(input, p, k), p + Len(Take(input, p, k)[1]))
  BY <1>4, ReadBytesEquation
<1> HIDE DEF k, p
<1>7. Take(c, p, k) # Failed
  BY <1>6
<1>8. /\ Take(input, p, k) = Take(c, p, k) /\ p + k <= n
      /\ \E t \in Seq(Digit) : Take(input, p, k) = Ok(t) /\ Len(t) = k
  BY <1>5, <1>7, TakeWhenCut DEF c
<1>9. PICK t \in Seq(Digit) : Take(input, p, k) = Ok(t) /\ Take(c, p, k) = Ok(t) /\ Len(t) = k
  BY <1>8
<1>10. ReadBytes(c, at) = Got(Ok(t), p + k) /\ ReadBytes(input, at) = Got(Ok(t), p + k)
  BY <1>6, <1>9, ResultFacts
<1>11. Got(Ok(t), p + k) = Ok([value |-> t, at |-> p + k])
  BY ResultFacts
<1>12. p + k \in at..n
  BY <1>5, <1>8 DEF p
<1> QED
  BY <1>10, <1>11, <1>12

LEMMA ReadScalarWhenCut ==
  ASSUME NEW type \in Scalars, NEW input \in Seq(Digit), NEW n \in 0..Len(input), NEW at \in Nat
  PROVE  SameWhenCut(ReadScalar(type, Cut(input, n), at), ReadScalar(type, input, at), at, n)
<1> DEFINE c == Cut(input, n)
<1>1. CASE type \in Fixed
  <2> SUFFICES ASSUME ReadScalar(type, c, at) # Failed
               PROVE  /\ ReadScalar(type, input, at) = ReadScalar(type, c, at)
                      /\ \E v, p : ReadScalar(type, c, at) = Ok([value |-> v, at |-> p]) /\ p \in at..n
    BY DEF SameWhenCut, Ok
  <2> DEFINE k == Width[type]
  <2>1. k \in Nat /\ type \notin {"bytes", "string"}
    BY <1>1, WidthIsNat DEF Fixed
  <2> HIDE DEF c
  <2>2. \A i : ReadScalar(type, i, at) =
                 IF Take(i, at, k) = Failed THEN Failed ELSE Got(ValueOf(type, Take(i, at, k)[1]), at + k)
    BY <2>1 DEF ReadScalar
  <2> HIDE DEF k
  <2>3. Take(c, at, k) # Failed
    BY <2>2
  <2>4. Take(input, at, k) = Take(c, at, k) /\ at + k <= n
    BY <2>1, <2>3, TakeWhenCut DEF c
  <2> DEFINE r == ValueOf(type, Take(c, at, k)[1])
  <2>5. ReadScalar(type, c, at) = Got(r, at + k) /\ ReadScalar(type, input, at) = Got(r, at + k)
    BY <2>2, <2>3, <2>4
  <2> HIDE DEF r
  <2>6. r # Failed
    BY <2>5 DEF Got
  <2>7. Got(r, at + k) = Ok([value |-> r[1], at |-> at + k])
    BY <2>6 DEF Got
  <2>8. at + k \in at..n
    BY <2>1, <2>4
  <2> QED
    BY <2>5, <2>7, <2>8
<1>2. CASE type \in {"bytes", "string"}
  <2>1. SameWhenCut(ReadBytes(c, at), ReadBytes(input, at), at, n)
    BY ReadBytesWhenCut
  <2> HIDE DEF c
  <2>2. \A i : ReadScalar(type, i, at) =
                 IF ReadBytes(i, at) # Failed /\ type = "string" /\ ~Utf8(ReadBytes(i, at)[1].value)
                 THEN Failed ELSE ReadBytes(i, at)
    BY <1>2 DEF ReadScalar
  <2>3. ReadScalar(type, c, at) # Failed => ReadScalar(type, c, at) = ReadBytes(c, at)
    BY <2>2
  <2>4. ReadBytes(input, at) = ReadBytes(c, at) => ReadScalar(type, input, at) = ReadScalar(type, c, at)
    BY <2>2
  <2> DEFINE got == ReadScalar(type, c, at)
             whole == ReadScalar(type, input, at)
             body == ReadBytes(c, at)
             all == ReadBytes(input, at)
  <2>5. SameWhenCut(body, all, at, n) /\ (got # Failed => got = body) /\ (all = body => whole = got)
    BY <2>1, <2>3, <2>4
  <2> HIDE DEF got, whole, body, all
  <2>6. SameWhenCut(got, whole, at, n)
    BY <2>5 DEF SameWhenCut
  <2> QED
    BY <2>6 DEF got, whole, c
<1> QED
  BY <1>1, <1>2 DEF Scalars

(***************************************************************************)
(* One read after the other                                                *)
(***************************************************************************)
\* A sequence of reads of an input of size bytes.
AreReads(read, N, size) ==
  /\ N \in Nat /\ size \in Nat /\ Len(read) = N /\ DOMAIN read = 1..N
  /\ \A n \in 1..N : \A p \in 0..size :
       read[n][p] # Failed => read[n][p] = Ok(read[n][p][1]) /\ read[n][p][1].at \in p..size

\* What each of them got, and before them the place where the first one starts.
AreResults(got, read, N, at) ==
  /\ got[0] = Ok([value |-> <<>>, at |-> at])
  /\ \A n \in 1..N : got[n] = IF got[n - 1] = Failed THEN Failed ELSE read[n][got[n - 1][1].at]
  /\ ReadAll(read, at) = Got(IF got[N] = Failed THEN Failed ELSE Ok([n \in 1..N |-> got[n][1].value]),
                             got[N][1].at)

LEMMA ReadAllEquation ==
  ASSUME NEW read, NEW N, NEW size, AreReads(read, N, size), NEW at \in 0..size
  PROVE  \E got : AreResults(got, read, N, at)
<1> DEFINE D == 0..N
           Places == 0..size
           m == [i \in D |-> i]
           first == Ok([value |-> <<>>, at |-> at])
           V == {Failed, first} \cup { read[p[1]][p[2]] : p \in (1..N) \X Places }
           Next1(n, r) == IF r = Failed THEN Failed ELSE read[n][r[1].at]
           Equation(f) == f = [n \in D |-> IF n = 0 THEN first ELSE Next1(n, f[n - 1])]
           F == CHOOSE f : Equation(f)
           Step == [a \in D \X [D -> V] |-> IF a[1] = 0 THEN first ELSE Next1(a[1], a[2][a[1] - 1])]
<1>1. /\ N \in Nat /\ size \in Nat /\ Len(read) = N /\ DOMAIN read = 1..N
      /\ \A n \in 1..N : \A p \in Places :
           read[n][p] # Failed => read[n][p] = Ok(read[n][p][1]) /\ read[n][p][1].at \in p..size
  BY DEF AreReads
<1>2. m \in [D -> 0..N] /\ 0 \in D /\ N \in D /\ m \in [D -> Nat]
  BY <1>1
<1>3. \A d \in D : d # 0 => d \in 1..N /\ d - 1 \in D /\ m[d - 1] < m[d]
  BY <1>1
<1>4. \A n \in 1..N : \A r \in V : Next1(n, r) \in V
  <2> SUFFICES ASSUME NEW n \in 1..N, NEW r \in V, r # Failed PROVE read[n][r[1].at] \in V
    OBVIOUS
  <2>1. r[1].at \in Places
    <3>1. CASE r = first
      BY <3>1, ResultFacts
    <3>2. CASE r # first
      <4>1. PICK p \in (1..N) \X Places : r = read[p[1]][p[2]]
        BY <3>2
      <4>2. r[1].at \in p[2]..size
        BY <1>1, <4>1
      <4> QED
        BY <1>1, <4>2
    <3> QED
      BY <3>1, <3>2
  <2>2. <<n, r[1].at>> \in (1..N) \X Places
    BY <2>1
  <2> HIDE DEF Places
  <2> QED
    BY <2>2
<1>5. Failed \in V /\ first \in V
  OBVIOUS
<1> HIDE DEF V, Next1, first, Places
<1>6. Step \in [D \X [D -> V] -> V]
  <2>1. ASSUME NEW a \in D \X [D -> V]
        PROVE  (IF a[1] = 0 THEN first ELSE Next1(a[1], a[2][a[1] - 1])) \in V
    <3>1. a[1] \in D /\ a[2] \in [D -> V]
      OBVIOUS
    <3> HIDE DEF D
    <3>2. CASE a[1] # 0
      <4>1. a[2][a[1] - 1] \in V /\ a[1] \in 1..N
        BY <1>3, <3>1, <3>2
      <4> QED
        BY <1>4, <3>2, <4>1
    <3> QED
      BY <1>5, <3>2
  <2> HIDE DEF D
  <2> QED
    BY <2>1
<1>7. Grounded(D, V, N, m, Step)
  <2>1. V # {}
    BY <1>5
  <2> HIDE DEF D
  <2> QED
    BY <1>1, <1>2, <1>3, <1>6, <2>1 DEF Grounded
<1>8. PICK g \in [D -> V] : \A d \in D : g[d] = Step[<<d, g>>]
  <2> HIDE DEF D, m, Step
  <2>1. Solutions(D, V, Step) # {}
    BY <1>7, Recursion
  <2> QED
    BY <2>1 DEF Solutions
<1>9. Equation(g)
  BY <1>8
<1>10. Equation(F)
  <2> HIDE DEF Equation
  <2> QED
    BY <1>9
<1>11. F = [n \in D |-> IF n = 0 THEN first ELSE Next1(n, F[n - 1])]
  BY <1>10
<1>12. ReadAll(read, at) =
         Got(IF F[Len(read)] = Failed THEN Failed ELSE Ok([n \in DOMAIN read |-> F[n][1].value]),
             F[Len(read)][1].at)
  <2> DEFINE G == CHOOSE f : f = [n \in 0..Len(read) |->
                                    IF n = 0 THEN Ok([value |-> <<>>, at |-> at])
                                    ELSE IF f[n - 1] = Failed THEN Failed ELSE read[n][f[n - 1][1].at]]
  <2>1. F = G
    BY <1>1, Zenon DEF Next1, first
  <2>2. ReadAll(read, at) =
          Got(IF G[Len(read)] = Failed THEN Failed ELSE Ok([n \in DOMAIN read |-> G[n][1].value]),
              G[Len(read)][1].at)
    BY Zenon DEF ReadAll
  <2> HIDE DEF F, G
  <2> QED
    BY <2>1, <2>2, Zenon
<1> HIDE DEF F
<1>13. AreResults(F, read, N, at)
  <2>1. F[0] = first
    BY <1>2, <1>11
  <2>2. \A n \in 1..N : F[n] = Next1(n, F[n - 1])
    BY <1>1, <1>11
  <2> QED
    BY <1>1, <1>12, <2>1, <2>2 DEF AreResults, first, Next1
<1> QED
  BY <1>13

\* The n-th read starts at pos[n - 1]; it gets vals[n] and stands at pos[n] behind it
\* if n is good, and otherwise fails.
Placed(read, N, size, at, vals, pos, good) ==
  /\ AreReads(read, N, size) /\ at \in 0..size
  /\ pos \in [0..N -> 0..size] /\ pos[0] = at
  /\ \A n \in 1..N : read[n][pos[n - 1]] =
       IF n \in good THEN Ok([value |-> vals[n], at |-> pos[n]]) ELSE Failed

LEMMA ReadAllGot ==
  ASSUME NEW read, NEW N, NEW size, NEW at, NEW vals, NEW pos, NEW good,
         Placed(read, N, size, at, vals, pos, good)
  PROVE  ReadAll(read, at) = IF 1..N \subseteq good
                             THEN Ok([value |-> [n \in 1..N |-> vals[n]], at |-> pos[N]]) ELSE Failed
<1> AreReads(read, N, size) /\ at \in 0..size /\ pos \in [0..N -> 0..size] /\ pos[0] = at
  BY DEF Placed
<1> \A n \in 1..N : read[n][pos[n - 1]] =
      IF n \in good THEN Ok([value |-> vals[n], at |-> pos[n]]) ELSE Failed
  BY DEF Placed
<1>1. N \in Nat
  BY DEF AreReads
<1>2. PICK got : AreResults(got, read, N, at)
  BY ReadAllEquation
<1>3. /\ got[0] = Ok([value |-> <<>>, at |-> at])
      /\ \A n \in 1..N : got[n] = IF got[n - 1] = Failed THEN Failed ELSE read[n][got[n - 1][1].at]
      /\ ReadAll(read, at) = Got(IF got[N] = Failed THEN Failed ELSE Ok([n \in 1..N |-> got[n][1].value]),
                                 got[N][1].at)
  BY <1>2 DEF AreResults
<1> DEFINE Right(n) == IF 1..n \subseteq good
                       THEN /\ got[n] # Failed /\ got[n][1].at = pos[n]
                            /\ n # 0 => got[n][1].value = vals[n]
                       ELSE got[n] = Failed
           T == {n \in Nat : n <= N => Right(n)}
<1>4. 0 \in T
  <2>1. got[0] # Failed /\ got[0][1].at = pos[0]
    BY <1>3, ResultFacts
  <2> QED
    BY <2>1
<1>5. ASSUME NEW n \in Nat, n \in T PROVE n + 1 \in T
  <2> SUFFICES ASSUME n + 1 <= N PROVE Right(n + 1)
    OBVIOUS
  <2>1. n + 1 \in 1..N /\ (n + 1) - 1 = n /\ 1..n + 1 = (1..n) \cup {n + 1} /\ Right(n)
    BY <1>1, <1>5, SMTT(20)
  <2>2. got[n + 1] = IF got[n] = Failed THEN Failed ELSE read[n + 1][got[n][1].at]
    BY <1>3, <2>1
  <2>3. read[n + 1][pos[n]] =
          IF n + 1 \in good THEN Ok([value |-> vals[n + 1], at |-> pos[n + 1]]) ELSE Failed
    BY <2>1
  <2>4. CASE 1..n \subseteq good /\ n + 1 \in good
    <3>1. got[n + 1] = Ok([value |-> vals[n + 1], at |-> pos[n + 1]])
      BY <2>1, <2>2, <2>3, <2>4
    <3>2. got[n + 1] # Failed /\ got[n + 1][1].at = pos[n + 1] /\ got[n + 1][1].value = vals[n + 1]
      BY <3>1, ResultFacts
    <3> QED
      BY <2>1, <2>4, <3>2
  <2>5. CASE ~(1..n \subseteq good) \/ n + 1 \notin good
    <3>1. got[n + 1] = Failed
      BY <2>1, <2>2, <2>3, <2>5
    <3> QED
      BY <2>1, <2>5, <3>1
  <2> QED
    BY <2>4, <2>5
<1>6. \A n \in Nat : n \in T
  <2> HIDE DEF T
  <2> QED
    BY <1>4, <1>5, Induction
<1>7. \A n \in 0..N : Right(n)
  BY <1>6
<1>8. CASE 1..N \subseteq good
  <2>1. \A n \in 1..N : got[n][1].value = vals[n]
    <3> SUFFICES ASSUME NEW n \in 1..N PROVE got[n][1].value = vals[n]
      OBVIOUS
    <3>1. 1..n \subseteq good /\ n \in 0..N /\ n # 0
      BY <1>1, <1>8
    <3> QED
      BY <1>7, <3>1
  <2>2. [n \in 1..N |-> got[n][1].value] = [n \in 1..N |-> vals[n]]
    BY <2>1
  <2>3. got[N] # Failed /\ got[N][1].at = pos[N]
    BY <1>1, <1>7, <1>8
  <2> QED
    BY <1>3, <1>8, <2>2, <2>3, ResultFacts
<1>9. CASE ~(1..N \subseteq good)
  <2>1. got[N] = Failed
    BY <1>1, <1>7, <1>9
  <2>2. ReadAll(read, at) = Got(Failed, got[N][1].at)
    BY <1>3, <2>1
  <2> QED
    BY <1>9, <2>2 DEF Got
<1> QED
  BY <1>8, <1>9

\* Reads of a cut input and of the whole one.
LEMMA ReadAllWhenCut ==
  ASSUME NEW N, NEW size, NEW n \in 0..size,
         NEW part, AreReads(part, N, n), NEW all, AreReads(all, N, size), NEW at \in 0..n,
         \A k \in 1..N : \A p \in 0..n : SameWhenCut(part[k][p], all[k][p], p, n)
  PROVE  SameWhenCut(ReadAll(part, at), ReadAll(all, at), at, n)
<1> SUFFICES ASSUME ReadAll(part, at) # Failed
             PROVE  /\ ReadAll(all, at) = ReadAll(part, at)
                    /\ \E v, p : ReadAll(part, at) = Ok([value |-> v, at |-> p]) /\ p \in at..n
  BY DEF SameWhenCut, Ok
<1>1. N \in Nat /\ size \in Nat /\ at \in 0..size
  BY DEF AreReads
<1>2. PICK got : AreResults(got, part, N, at)
  BY ReadAllEquation
<1>3. PICK whole : AreResults(whole, all, N, at)
  BY <1>1, ReadAllEquation
<1>4. /\ got[0] = Ok([value |-> <<>>, at |-> at])
      /\ \A k \in 1..N : got[k] = IF got[k - 1] = Failed THEN Failed ELSE part[k][got[k - 1][1].at]
      /\ ReadAll(part, at) = Got(IF got[N] = Failed THEN Failed ELSE Ok([k \in 1..N |-> got[k][1].value]),
                                 got[N][1].at)
  BY <1>2 DEF AreResults
<1>5. /\ whole[0] = Ok([value |-> <<>>, at |-> at])
      /\ \A k \in 1..N : whole[k] = IF whole[k - 1] = Failed THEN Failed ELSE all[k][whole[k - 1][1].at]
      /\ ReadAll(all, at) = Got(IF whole[N] = Failed THEN Failed ELSE Ok([k \in 1..N |-> whole[k][1].value]),
                                whole[N][1].at)
  BY <1>3 DEF AreResults
<1>6. got[N] # Failed
  <2>1. got[N] = Failed => ReadAll(part, at) = Got(Failed, got[N][1].at)
    BY <1>4
  <2> QED
    BY <2>1 DEF Got
<1> DEFINE Same(k) == got[k] # Failed => whole[k] = got[k] /\ got[k][1].at \in at..n
           T == {k \in Nat : k <= N => Same(k)}
<1>7. 0 \in T
  <2>1. got[0][1].at = at
    BY <1>4, ResultFacts
  <2> QED
    BY <1>4, <1>5, <2>1
<1>8. ASSUME NEW k \in Nat, k \in T PROVE k + 1 \in T
  <2> SUFFICES ASSUME k + 1 <= N, got[k + 1] # Failed
               PROVE  whole[k + 1] = got[k + 1] /\ got[k + 1][1].at \in at..n
    OBVIOUS
  <2>1. k + 1 \in 1..N /\ (k + 1) - 1 = k /\ Same(k)
    BY <1>1, <1>8
  <2> DEFINE p == got[k][1].at
  <2>2. got[k] # Failed /\ got[k + 1] = part[k + 1][p]
    BY <1>4, <2>1
  <2>3. whole[k] = got[k] /\ p \in at..n
    BY <2>1, <2>2
  <2> HIDE DEF p
  <2>4. whole[k + 1] = all[k + 1][p]
    BY <1>5, <2>1, <2>2, <2>3 DEF p
  <2>5. SameWhenCut(part[k + 1][p], all[k + 1][p], p, n)
    BY <2>1, <2>3
  <2>6. all[k + 1][p] = part[k + 1][p] /\ part[k + 1][p][1].at \in p..n
    BY <2>2, <2>5 DEF SameWhenCut
  <2> QED
    BY <2>2, <2>3, <2>4, <2>6
<1>9. \A k \in Nat : k \in T
  <2> HIDE DEF T
  <2> QED
    BY <1>7, <1>8, Induction
<1>10. \A k \in 0..N : Same(k)
  BY <1>9
<1>11. \A k \in 0..N : got[k] # Failed
  <2> DEFINE U == {k \in Nat : k <= N => got[N - k] # Failed}
  <2>1. 0 \in U
    BY <1>1, <1>6
  <2>2. ASSUME NEW k \in Nat, k \in U PROVE k + 1 \in U
    <3> SUFFICES ASSUME k + 1 <= N PROVE got[N - (k + 1)] # Failed
      OBVIOUS
    <3>1. N - k \in 1..N /\ (N - k) - 1 = N - (k + 1) /\ got[N - k] # Failed
      BY <1>1, <2>2
    <3>2. got[N - k] = IF got[(N - k) - 1] = Failed THEN Failed ELSE part[N - k][got[(N - k) - 1][1].at]
      BY <1>4, <3>1
    <3> QED
      BY <3>1, <3>2
  <2>3. \A k \in Nat : k \in U
    <3> HIDE DEF U
    <3> QED
      BY <2>1, <2>2, Induction
  <2>4. ASSUME NEW k \in 0..N PROVE got[k] # Failed
    <3>1. N - k \in U /\ N - k <= N /\ N - (N - k) = k
      BY <1>1, <2>3
    <3> QED
      BY <3>1
  <2> QED
    BY <2>4
<1>12. \A k \in 0..N : whole[k] = got[k]
  BY <1>10, <1>11
<1>13. [k \in 1..N |-> whole[k][1].value] = [k \in 1..N |-> got[k][1].value]
  BY <1>1, <1>12
<1>14. whole[N] = got[N] /\ got[N][1].at \in at..n
  BY <1>1, <1>6, <1>10
<1>15. ReadAll(part, at) = Ok([value |-> [k \in 1..N |-> got[k][1].value], at |-> got[N][1].at])
  BY <1>4, <1>6, ResultFacts
<1>16. ReadAll(all, at) = ReadAll(part, at)
  BY <1>4, <1>5, <1>13, <1>14
<1> QED
  BY <1>14, <1>15, <1>16

(***************************************************************************)
(* Records                                                                 *)
(***************************************************************************)
\* The parts of a flattened sequence stand one behind the other.
LEMMA FlattenedAt ==
  ASSUME NEW S, NEW input \in Seq(S), NEW pieces \in Seq(Seq(S)), NEW at,
         At(input, at, FlattenSeq(pieces))
  PROVE  \E pos \in [0..Len(pieces) -> 0..Len(input)] :
           /\ pos[0] = at /\ pos[Len(pieces)] = at + Len(FlattenSeq(pieces))
           /\ \A k \in 1..Len(pieces) :
                pos[k] = pos[k - 1] + Len(pieces[k]) /\ At(input, pos[k - 1], pieces[k])
<1> DEFINE N == Len(pieces)
           flat == FlattenSeq(pieces)
<1>1. /\ N \in Nat /\ Len(input) \in Nat
      /\ \A k \in 1..N : pieces[k] \in Seq(S) /\ Len(pieces[k]) \in Nat
  BY LenProperties
<1>2. PICK off \in EndsOf(pieces) : TRUE
  BY EndsExist
<1>3. /\ off \in [0..N -> Nat] /\ off[0] = 0
      /\ \A k \in 1..N : off[k] = off[k - 1] + Len(pieces[k])
  BY DEF EndsOf
<1>4. /\ Len(flat) = off[N]
      /\ \A k \in 1..N : \A j \in 1..Len(pieces[k]) :
           off[k - 1] + j \in 1..Len(flat) /\ flat[off[k - 1] + j] = pieces[k][j]
  BY FlattenAt
<1>11. \A k \in 0..N : off[k] \in Nat
  BY <1>3
<1> HIDE DEF flat, N
<1>5. at \in Nat /\ at + Len(flat) <= Len(input) /\ \A i \in 1..Len(flat) : input[at + i] = flat[i]
  BY DEF At, flat
<1>6. \A k \in 0..N : off[k] <= off[N]
  <2> DEFINE T == {k \in Nat : k <= N => off[N - k] <= off[N]}
  <2>1. 0 \in T
    BY <1>1, <1>3
  <2>2. ASSUME NEW k \in Nat, k \in T PROVE k + 1 \in T
    <3> SUFFICES ASSUME k + 1 <= N PROVE off[N - (k + 1)] <= off[N]
      OBVIOUS
    <3>1. N - k \in 1..N /\ (N - k) - 1 = N - (k + 1) /\ N - (k + 1) \in 0..N /\ off[N - k] <= off[N]
      BY <1>1, <2>2
    <3>2. off[N - k] = off[N - (k + 1)] + Len(pieces[N - k]) /\ Len(pieces[N - k]) \in Nat
      BY <1>1, <1>3, <3>1
    <3>3. off[N - k] \in Nat /\ off[N - (k + 1)] \in Nat /\ off[N] \in Nat
      <4>1. N - k \in 0..N /\ N - (k + 1) \in 0..N /\ N \in 0..N
        BY <1>1, <3>1
      <4> QED
        BY <1>11, <4>1
    <3> QED
      BY <3>1, <3>2, <3>3
  <2>3. \A k \in Nat : k \in T
    <3> HIDE DEF T
    <3> QED
      BY <2>1, <2>2, Induction
  <2>4. \A j \in Nat : j <= N => off[N - j] <= off[N]
    BY <2>3
  <2>5. ASSUME NEW k \in 0..N PROVE off[k] <= off[N]
    <3>1. N - k \in Nat /\ N - k <= N /\ N - (N - k) = k
      BY <1>1
    <3>2. off[N - (N - k)] <= off[N]
      BY <2>4, <3>1
    <3> QED
      BY <3>1, <3>2
  <2> QED
    BY <2>5
<1> DEFINE pos == [k \in 0..N |-> at + off[k]]
<1>7. pos \in [0..N -> 0..Len(input)]
  <2>1. ASSUME NEW k \in 0..N PROVE at + off[k] \in 0..Len(input)
    <3>1. off[k] \in Nat /\ off[k] <= Len(flat) /\ Len(flat) = off[N] /\ off[N] \in Nat
      <4>1. N \in 0..N
        BY <1>1
      <4> QED
        BY <1>4, <1>6, <1>11, <4>1
    <3> QED
      BY <1>1, <1>5, <3>1
  <2> QED
    BY <2>1
<1>8. pos[0] = at /\ pos[N] = at + Len(flat)
  BY <1>1, <1>3, <1>4, <1>5
<1>9. ASSUME NEW k \in 1..N
      PROVE  pos[k] = pos[k - 1] + Len(pieces[k]) /\ At(input, pos[k - 1], pieces[k])
  <2>1. k \in 0..N /\ k - 1 \in 0..N /\ off[k - 1] \in Nat /\ off[k] \in Nat /\ Len(pieces[k]) \in Nat
        /\ off[k] = off[k - 1] + Len(pieces[k])
    <3>1. k \in 0..N /\ k - 1 \in 0..N
      BY <1>1
    <3> QED
      BY <1>1, <1>3, <1>11, <3>1
  <2>2. pos[k] = at + off[k] /\ pos[k - 1] = at + off[k - 1]
    BY <2>1
  <2>3. ASSUME NEW i \in 1..Len(pieces[k]) PROVE input[(at + off[k - 1]) + i] = pieces[k][i]
    <3>1. off[k - 1] + i \in 1..Len(flat) /\ flat[off[k - 1] + i] = pieces[k][i]
      BY <1>4
    <3>2. input[at + (off[k - 1] + i)] = pieces[k][i]
      BY <1>5, <3>1
    <3>3. at + (off[k - 1] + i) = (at + off[k - 1]) + i
      BY <1>5, <2>1
    <3> QED
      BY <3>2, <3>3
  <2>4. pos[k] <= Len(input)
    <3>1. pos[k] \in 0..Len(input)
      BY <1>7, <2>1
    <3> QED
      BY <1>1, <3>1
  <2> DEFINE q == at + off[k - 1]
  <2>5. q \in Nat /\ q + Len(pieces[k]) <= Len(input)
    BY <1>5, <2>1, <2>2, <2>4, SMTT(20)
  <2> HIDE DEF pos
  <2>6. At(input, q, pieces[k])
    <3> HIDE DEF q
    <3> QED
      BY <2>3, <2>5 DEF At, q
  <2>7. pos[k] = pos[k - 1] + Len(pieces[k])
    BY <1>5, <2>1, <2>2
  <2> QED
    BY <2>2, <2>6, <2>7
<1> HIDE DEF pos
<1> QED
  BY <1>7, <1>8, <1>9 DEF flat, N

\* The tables of fields.
IsTable(fields, types) ==
  /\ Len(fields) \in Nat /\ DOMAIN fields = 1..Len(fields)
  /\ \A n \in 1..Len(fields) : fields[n][2] \in types

LEMMA CutOfWhole ==
  ASSUME NEW S, NEW input \in Seq(S)
  PROVE  Cut(input, Len(input)) = input /\ Len(input) \in Nat
BY SubSeqFull, LenProperties DEF Cut

LEMMA CutIsSeq ==
  ASSUME NEW S, NEW input \in Seq(S), NEW n \in 0..Len(input)
  PROVE  Cut(input, n) \in Seq(S) /\ Len(Cut(input, n)) = n
<1>1. \A i \in 1..n : input[i] \in S
  BY ElementOfSeq, LenProperties
<1>2. Cut(input, n) \in Seq(S) /\ Len(Cut(input, n)) = IF 1 <= n THEN n - 1 + 1 ELSE 0
  BY <1>1, SubSeqProperties, LenProperties DEF Cut
<1> QED
  BY <1>2, LenProperties

LEMMA PutRecordIsDigits ==
  ASSUME NEW fields, IsTable(fields, Scalars), NEW r, IsRecord(fields, r)
  PROVE  /\ [n \in DOMAIN fields |-> PutScalar(fields[n][2], ValuesIn(fields, r)[n])] \in Seq(Seq(Digit))
         /\ PutRecord(fields, r) \in Seq(Digit)
         /\ \A n \in 1..Len(fields) : IsScalar(fields[n][2], ValuesIn(fields, r)[n])
<1> DEFINE N == Len(fields)
           pieces == [n \in DOMAIN fields |-> PutScalar(fields[n][2], ValuesIn(fields, r)[n])]
<1>1. N \in Nat /\ DOMAIN fields = 1..N /\ \A n \in 1..N : fields[n][2] \in Scalars
  BY DEF IsTable
<1>2. ASSUME NEW n \in 1..N PROVE IsScalar(fields[n][2], ValuesIn(fields, r)[n])
  <2>1. fields[n] \in Range(fields) /\ ValuesIn(fields, r)[n] = r[fields[n][1]]
    BY <1>1 DEF Range, ValuesIn
  <2> QED
    BY <2>1 DEF IsRecord
<1>3. \A n \in 1..N : PutScalar(fields[n][2], ValuesIn(fields, r)[n]) \in Seq(Digit)
  BY <1>1, <1>2, PutScalarIsDigits
<1>4. pieces \in Seq(Seq(Digit))
  <2> DEFINE e(n) == PutScalar(fields[n][2], ValuesIn(fields, r)[n])
  <2>1. \A n \in 1..N : e(n) \in Seq(Digit)
    BY <1>3
  <2> HIDE DEF e
  <2>2. [n \in 1..N |-> e(n)] \in Seq(Seq(Digit))
    BY <1>1, <2>1
  <2> QED
    BY <1>1, <2>2 DEF e
<1>5. PutRecord(fields, r) = FlattenSeq(pieces)
  BY DEF PutRecord
<1> HIDE DEF pieces
<1>6. FlattenSeq(pieces) \in Seq(Digit)
  BY <1>4, FlattenIsSeq
<1> QED
  BY <1>2, <1>4, <1>5, <1>6 DEF pieces

\* A read that succeeds on the whole input stands inside it.
LEMMA SameWhenWhole ==
  ASSUME NEW got, NEW at, NEW size, SameWhenCut(got, got, at, size), got # Failed
  PROVE  got = Ok(got[1]) /\ got[1].at \in at..size
BY ResultFacts DEF SameWhenCut

LEMMA RecordFieldReads ==
  ASSUME NEW fields, IsTable(fields, Scalars), NEW input \in Seq(Digit)
  PROVE  AreReads([n \in DOMAIN fields |->
                     [p \in 0..Len(input) |-> ReadScalar(fields[n][2], input, p)]],
                  Len(fields), Len(input))
<1> DEFINE N == Len(fields)
           size == Len(input)
           read == [n \in DOMAIN fields |-> [p \in 0..size |-> ReadScalar(fields[n][2], input, p)]]
<1>1. N \in Nat /\ DOMAIN fields = 1..N /\ \A n \in 1..N : fields[n][2] \in Scalars
  BY DEF IsTable
<1>2. size \in Nat /\ Cut(input, size) = input
  BY CutOfWhole
<1>3. Len(read) = N /\ DOMAIN read = 1..N
  BY <1>1
<1>4. ASSUME NEW n \in 1..N, NEW p \in 0..size, read[n][p] # Failed
      PROVE  read[n][p] = Ok(read[n][p][1]) /\ read[n][p][1].at \in p..size
  <2>1. read[n][p] = ReadScalar(fields[n][2], input, p)
    BY <1>1
  <2>2. p \in Nat /\ size \in 0..Len(input) /\ fields[n][2] \in Scalars
    BY <1>1, <1>2
  <2> HIDE DEF read, size
  <2>3. SameWhenCut(read[n][p], read[n][p], p, size)
    BY <1>2, <2>1, <2>2, ReadScalarWhenCut
  <2> QED
    BY <1>4, <2>3, SameWhenWhole
<1> HIDE DEF read, size, N
<1>5. AreReads(read, N, size)
  BY <1>1, <1>2, <1>3, <1>4 DEF AreReads
<1> QED
  BY <1>5 DEF read, N, size

LEMMA ReadRecordAt ==
  ASSUME NEW fields, IsTable(fields, Scalars), NEW r, IsRecord(fields, r),
         NEW input \in Seq(Digit), NEW at, At(input, at, PutRecord(fields, r))
  PROVE  ReadRecord(fields, input, at) = Ok([value |-> r, at |-> at + Len(PutRecord(fields, r))])
<1> DEFINE N == Len(fields)
           size == Len(input)
           vals == ValuesIn(fields, r)
           pieces == [n \in DOMAIN fields |-> PutScalar(fields[n][2], vals[n])]
           read == [n \in DOMAIN fields |-> [p \in 0..size |-> ReadScalar(fields[n][2], input, p)]]
<1>1. N \in Nat /\ DOMAIN fields = 1..N /\ \A n \in 1..N : fields[n][2] \in Scalars
  BY DEF IsTable
<1>2. PutRecord(fields, r) = FlattenSeq(pieces)
  BY DEF PutRecord
<1>3. /\ pieces \in Seq(Seq(Digit)) /\ Len(pieces) = N
      /\ \A n \in 1..N : pieces[n] = PutScalar(fields[n][2], vals[n])
      /\ \A n \in 1..N : IsScalar(fields[n][2], vals[n])
  <2> HIDE DEF vals
  <2>1. Len(pieces) = N /\ \A n \in 1..N : pieces[n] = PutScalar(fields[n][2], vals[n])
    BY <1>1
  <2> QED
    BY <2>1, PutRecordIsDigits DEF vals
<1> HIDE DEF pieces, vals
<1>4. PICK pos \in [0..N -> 0..size] :
        /\ pos[0] = at /\ pos[N] = at + Len(FlattenSeq(pieces))
        /\ \A n \in 1..N : pos[n] = pos[n - 1] + Len(pieces[n]) /\ At(input, pos[n - 1], pieces[n])
  BY <1>2, <1>3, FlattenedAt
<1>5. AreReads(read, N, size)
  BY RecordFieldReads
<1>6. ASSUME NEW n \in 1..N PROVE read[n][pos[n - 1]] = Ok([value |-> vals[n], at |-> pos[n]])
  <2>1. pos[n - 1] \in 0..size
    <3> HIDE DEF N, size
    <3>1. n - 1 \in 0..N
      BY <1>1
    <3> QED
      BY <3>1
  <2> DEFINE p == pos[n - 1]
             type == fields[n][2]
             v == vals[n]
  <2>2. read[n][p] = ReadScalar(type, input, p)
    BY <1>1, <2>1
  <2>3. /\ type \in Scalars /\ IsScalar(type, v) /\ pieces[n] = PutScalar(type, v)
        /\ At(input, p, pieces[n]) /\ pos[n] = p + Len(pieces[n])
    BY <1>1, <1>3, <1>4
  <2> HIDE DEF p, type, v, read
  <2>4. At(input, p, PutScalar(type, v))
    BY <2>3
  <2>5. ReadScalar(type, input, p) = Ok([value |-> v, at |-> p + Len(PutScalar(type, v))])
    BY <2>3, <2>4, ReadScalarAt
  <2>6. read[n][p] = Ok([value |-> v, at |-> pos[n]])
    BY <2>2, <2>3, <2>5
  <2> QED
    BY <2>6 DEF p, v
<1>7. at \in 0..size
  BY <1>1, <1>4
<1> HIDE DEF read, size
<1>8. ReadAll(read, at) = Ok([value |-> [n \in 1..N |-> vals[n]], at |-> pos[N]])
  <2> DEFINE good == 1..N
  <2>1. /\ 1..N \subseteq good
        /\ \A n \in 1..N : read[n][pos[n - 1]] =
             IF n \in good THEN Ok([value |-> vals[n], at |-> pos[n]]) ELSE Failed
    BY <1>6
  <2>2. pos \in [0..N -> 0..size] /\ pos[0] = at
    BY <1>4
  <2> HIDE DEF good, N
  <2>3. Placed(read, N, size, at, vals, pos, good)
    BY <1>5, <1>7, <2>1, <2>2 DEF Placed
  <2>4. ReadAll(read, at) = IF 1..N \subseteq good
                            THEN Ok([value |-> [n \in 1..N |-> vals[n]], at |-> pos[N]]) ELSE Failed
    BY <2>3, ReadAllGot
  <2> QED
    BY <2>1, <2>4
<1>9. [n \in 1..N |-> vals[n]] = ValuesIn(fields, r)
  BY <1>1 DEF vals, ValuesIn
<1>10. RecordOf(fields, ValuesIn(fields, r)) = r
  BY DEF IsRecord
<1>11. ReadRecord(fields, input, at) =
         IF ReadAll(read, at) = Failed THEN Failed
         ELSE Got(Ok(RecordOf(fields, ReadAll(read, at)[1].value)), ReadAll(read, at)[1].at)
  BY DEF ReadRecord, read, size
<1>12. ReadRecord(fields, input, at) = Got(Ok(r), pos[N])
  <2> DEFINE vs == ValuesIn(fields, r)
             q == pos[N]
  <2>1. ReadAll(read, at) = Ok([value |-> vs, at |-> q])
    BY <1>8, <1>9
  <2>2. RecordOf(fields, vs) = r
    BY <1>10
  <2> HIDE DEF vs, q
  <2>3. ReadAll(read, at) # Failed /\ ReadAll(read, at)[1].value = vs /\ ReadAll(read, at)[1].at = q
    BY <2>1, ResultFacts
  <2>4. ReadRecord(fields, input, at) = Got(Ok(r), q)
    BY <1>11, <2>2, <2>3
  <2> QED
    BY <2>4 DEF q
<1>13. pos[N] = at + Len(PutRecord(fields, r))
  BY <1>2, <1>4
<1> QED
  BY <1>12, <1>13, ResultFacts

LEMMA ReadRecordWhenCut ==
  ASSUME NEW fields, IsTable(fields, Scalars), NEW input \in Seq(Digit), NEW n \in 0..Len(input),
         NEW at \in 0..n
  PROVE  SameWhenCut(ReadRecord(fields, Cut(input, n), at), ReadRecord(fields, input, at), at, n)
<1> DEFINE N == Len(fields)
           size == Len(input)
           c == Cut(input, n)
           part == [k \in DOMAIN fields |-> [p \in 0..Len(c) |-> ReadScalar(fields[k][2], c, p)]]
           all == [k \in DOMAIN fields |-> [p \in 0..size |-> ReadScalar(fields[k][2], input, p)]]
<1>1. N \in Nat /\ DOMAIN fields = 1..N /\ \A k \in 1..N : fields[k][2] \in Scalars
  BY DEF IsTable
<1>2. c \in Seq(Digit) /\ Len(c) = n /\ size \in Nat
  BY CutIsSeq, LenProperties
<1> HIDE DEF c
<1>3. AreReads(part, N, n) /\ AreReads(all, N, size)
  BY <1>2, RecordFieldReads
<1>4. ASSUME NEW k \in 1..N, NEW p \in 0..n PROVE SameWhenCut(part[k][p], all[k][p], p, n)
  <2>1. part[k][p] = ReadScalar(fields[k][2], c, p) /\ all[k][p] = ReadScalar(fields[k][2], input, p)
        /\ p \in Nat
    BY <1>1, <1>2
  <2>2. SameWhenCut(ReadScalar(fields[k][2], c, p), ReadScalar(fields[k][2], input, p), p, n)
    BY <1>1, <2>1, ReadScalarWhenCut DEF c
  <2> QED
    BY <2>1, <2>2
<1> HIDE DEF part, all, N, size
<1>5. SameWhenCut(ReadAll(part, at), ReadAll(all, at), at, n)
  BY <1>3, <1>4, ReadAllWhenCut DEF size
<1> DEFINE Rec(got) == IF got = Failed THEN Failed ELSE Got(Ok(RecordOf(fields, got[1].value)), got[1].at)
<1>6. /\ ReadRecord(fields, c, at) = Rec(ReadAll(part, at))
      /\ ReadRecord(fields, input, at) = Rec(ReadAll(all, at))
  BY DEF ReadRecord, part, all, size
<1>7. ASSUME NEW got, NEW whole, SameWhenCut(got, whole, at, n)
      PROVE  SameWhenCut(Rec(got), Rec(whole), at, n)
  <2> SUFFICES ASSUME Rec(got) # Failed
               PROVE  /\ Rec(whole) = Rec(got)
                      /\ Rec(got) = Ok([value |-> Rec(got)[1].value, at |-> Rec(got)[1].at])
                      /\ Rec(got)[1].at \in at..n
    BY DEF SameWhenCut
  <2>1. got # Failed
    OBVIOUS
  <2>2. whole = got /\ got[1].at \in at..n
    BY <1>7, <2>1 DEF SameWhenCut
  <2> DEFINE v == RecordOf(fields, got[1].value)
  <2>3. Rec(got) = Got(Ok(v), got[1].at)
    BY <2>1
  <2> HIDE DEF v
  <2>4. Rec(got) = Ok([value |-> v, at |-> got[1].at])
    BY <2>3, ResultFacts
  <2> HIDE DEF Rec
  <2>5. Rec(got)[1].value = v /\ Rec(got)[1].at = got[1].at
    BY <2>4, ResultFacts
  <2> QED
    BY <2>2, <2>4, <2>5
<1> HIDE DEF Rec
<1>8. SameWhenCut(Rec(ReadAll(part, at)), Rec(ReadAll(all, at)), at, n)
  BY <1>5, <1>7
<1> QED
  BY <1>6, <1>8 DEF c

LEMMA FlattenEmpty == FlattenSeq(<<>>) = <<>>
BY DEF FlattenSeq

LEMMA FlattenOne ==
  ASSUME NEW S, NEW s \in Seq(S)
  PROVE  FlattenSeq(<<s>>) = s
<1>1. <<s>> \in Seq(Seq(S)) /\ <<s>> # <<>> /\ Len(<<s>>) = 1
  OBVIOUS
<1>2. PICK f \in [1..1 -> Seq(S)] :
        FlattenSeq(<<s>>) = f[1] /\ \A i \in 1..1 : f[i] = IF i = 1 THEN <<s>>[i] ELSE f[i - 1] \o <<s>>[i]
  BY <1>1, FlattenExists
<1> QED
  BY <1>2

(***************************************************************************)
(* Lists and options                                                       *)
(***************************************************************************)
LEMMA RecordReads ==
  ASSUME NEW fields, IsTable(fields, Scalars), NEW count \in Nat, NEW input \in Seq(Digit)
  PROVE  AreReads([i \in 1..count |-> [p \in 0..Len(input) |-> ReadRecord(fields, input, p)]],
                  count, Len(input))
<1> DEFINE size == Len(input)
           read == [i \in 1..count |-> [p \in 0..size |-> ReadRecord(fields, input, p)]]
<1>1. size \in Nat /\ Cut(input, size) = input
  BY CutOfWhole
<1>2. Len(read) = count /\ DOMAIN read = 1..count
  OBVIOUS
<1>3. ASSUME NEW i \in 1..count, NEW p \in 0..size, read[i][p] # Failed
      PROVE  read[i][p] = Ok(read[i][p][1]) /\ read[i][p][1].at \in p..size
  <2>1. read[i][p] = ReadRecord(fields, input, p)
    OBVIOUS
  <2>2. size \in 0..Len(input) /\ p \in 0..size
    BY <1>1
  <2> HIDE DEF read
  <2>3. SameWhenCut(read[i][p], read[i][p], p, size)
    <3>1. SameWhenCut(ReadRecord(fields, Cut(input, size), p), ReadRecord(fields, input, p), p, size)
      <4> HIDE DEF size
      <4> QED
        BY <2>2, ReadRecordWhenCut
    <3> QED
      BY <1>1, <2>1, <3>1
  <2> HIDE DEF size
  <2> QED
    BY <1>3, <2>3, SameWhenWhole
<1> HIDE DEF read, size
<1>4. AreReads(read, count, size)
  BY <1>1, <1>2, <1>3 DEF AreReads
<1> QED
  BY <1>4 DEF read, size

\* A list of records, and its bytes.
AreRecords(fields, count, v) == \A i \in 1..count : IsRecord(fields, v[i])
PutList(fields, count, v) == FlattenSeq([i \in 1..count |-> PutRecord(fields, v[i])])

LEMMA PutListIsDigits ==
  ASSUME NEW fields, IsTable(fields, Scalars), NEW count \in Nat, NEW v, AreRecords(fields, count, v)
  PROVE  /\ [i \in 1..count |-> PutRecord(fields, v[i])] \in Seq(Seq(Digit))
         /\ PutList(fields, count, v) \in Seq(Digit)
<1> DEFINE pieces == [i \in 1..count |-> PutRecord(fields, v[i])]
<1>1. \A i \in 1..count : PutRecord(fields, v[i]) \in Seq(Digit)
  BY PutRecordIsDigits DEF AreRecords
<1>2. pieces \in Seq(Seq(Digit))
  BY <1>1
<1> HIDE DEF pieces
<1>3. FlattenSeq(pieces) \in Seq(Digit)
  BY <1>2, FlattenIsSeq
<1> QED
  BY <1>2, <1>3 DEF pieces, PutList

LEMMA ReadListAt ==
  ASSUME NEW fields, IsTable(fields, Scalars), NEW count \in Nat, NEW v, AreRecords(fields, count, v),
         NEW input \in Seq(Digit), NEW at, At(input, at, PutList(fields, count, v))
  PROVE  ReadList(fields, count, input, at) =
           Ok([value |-> [i \in 1..count |-> v[i]], at |-> at + Len(PutList(fields, count, v))])
<1> DEFINE size == Len(input)
           pieces == [i \in 1..count |-> PutRecord(fields, v[i])]
           read == [i \in 1..count |-> [p \in 0..size |-> ReadRecord(fields, input, p)]]
           good == 1..count
<1>1. size \in Nat
  BY LenProperties
<1>2. /\ pieces \in Seq(Seq(Digit)) /\ Len(pieces) = count
      /\ \A i \in 1..count : pieces[i] = PutRecord(fields, v[i])
  <2>1. Len(pieces) = count /\ \A i \in 1..count : pieces[i] = PutRecord(fields, v[i])
    OBVIOUS
  <2> HIDE DEF pieces
  <2>2. pieces \in Seq(Seq(Digit))
    BY PutListIsDigits DEF pieces
  <2> QED
    BY <2>1, <2>2
<1>12. At(input, at, FlattenSeq(pieces)) /\ PutList(fields, count, v) = FlattenSeq(pieces)
  BY DEF PutList
<1> HIDE DEF pieces
<1>3. PICK pos \in [0..count -> 0..size] :
        /\ pos[0] = at /\ pos[count] = at + Len(FlattenSeq(pieces))
        /\ \A i \in 1..count : pos[i] = pos[i - 1] + Len(pieces[i]) /\ At(input, pos[i - 1], pieces[i])
  <2>1. \E pos \in [0..Len(pieces) -> 0..Len(input)] :
          /\ pos[0] = at /\ pos[Len(pieces)] = at + Len(FlattenSeq(pieces))
          /\ \A i \in 1..Len(pieces) :
               pos[i] = pos[i - 1] + Len(pieces[i]) /\ At(input, pos[i - 1], pieces[i])
    BY <1>2, <1>12, FlattenedAt, ZenonT(40)
  <2> QED
    BY <1>2, <2>1
<1>4. AreReads(read, count, size)
  BY RecordReads
<1>5. ASSUME NEW i \in 1..count PROVE read[i][pos[i - 1]] = Ok([value |-> v[i], at |-> pos[i]])
  <2>1. pos[i - 1] \in 0..size
    <3> HIDE DEF size
    <3>1. i - 1 \in 0..count
      OBVIOUS
    <3> QED
      BY <3>1
  <2> DEFINE p == pos[i - 1]
  <2>2. read[i][p] = ReadRecord(fields, input, p)
    BY <2>1
  <2>3. IsRecord(fields, v[i]) /\ At(input, p, PutRecord(fields, v[i]))
        /\ pos[i] = p + Len(PutRecord(fields, v[i]))
    BY <1>2, <1>3 DEF AreRecords
  <2> HIDE DEF p, read
  <2>4. ReadRecord(fields, input, p) = Ok([value |-> v[i], at |-> p + Len(PutRecord(fields, v[i]))])
    BY <2>3, ReadRecordAt
  <2>5. read[i][p] = Ok([value |-> v[i], at |-> pos[i]])
    BY <2>2, <2>3, <2>4
  <2> QED
    BY <2>5 DEF p
<1> HIDE DEF read
<1>6. at \in 0..size
  <2> HIDE DEF size
  <2>1. 0 \in 0..count
    OBVIOUS
  <2>2. pos[0] \in 0..size
    BY <1>3, <2>1
  <2> QED
    BY <1>3, <2>2
<1>7. /\ 1..count \subseteq good
      /\ \A i \in 1..count : read[i][pos[i - 1]] =
           IF i \in good THEN Ok([value |-> v[i], at |-> pos[i]]) ELSE Failed
  BY <1>5
<1> HIDE DEF good, size
<1>8. pos \in [0..count -> 0..size] /\ pos[0] = at
  BY <1>3
<1>9. Placed(read, count, size, at, v, pos, good)
  BY <1>4, <1>6, <1>7, <1>8 DEF Placed
<1>10. ReadAll(read, at) = Ok([value |-> [i \in 1..count |-> v[i]], at |-> pos[count]])
  BY <1>7, <1>9, ReadAllGot
<1>11. ReadList(fields, count, input, at) = ReadAll(read, at)
  BY DEF ReadList, read, size
<1> QED
  BY <1>3, <1>10, <1>11, <1>12

LEMMA ReadListWhenCut ==
  ASSUME NEW fields, IsTable(fields, Scalars), NEW count \in Nat, NEW input \in Seq(Digit),
         NEW n \in 0..Len(input), NEW at \in 0..n
  PROVE  SameWhenCut(ReadList(fields, count, Cut(input, n), at), ReadList(fields, count, input, at), at, n)
<1> DEFINE size == Len(input)
           c == Cut(input, n)
           part == [i \in 1..count |-> [p \in 0..Len(c) |-> ReadRecord(fields, c, p)]]
           all == [i \in 1..count |-> [p \in 0..size |-> ReadRecord(fields, input, p)]]
<1>1. c \in Seq(Digit) /\ Len(c) = n /\ size \in Nat /\ n \in 0..size
  BY CutIsSeq, LenProperties
<1> HIDE DEF c
<1>2. AreReads(part, count, n) /\ AreReads(all, count, size)
  BY <1>1, RecordReads
<1>3. ASSUME NEW k \in 1..count, NEW p \in 0..n PROVE SameWhenCut(part[k][p], all[k][p], p, n)
  <2>1. part[k][p] = ReadRecord(fields, c, p) /\ all[k][p] = ReadRecord(fields, input, p)
    BY <1>1
  <2>2. SameWhenCut(ReadRecord(fields, c, p), ReadRecord(fields, input, p), p, n)
    BY <1>1, ReadRecordWhenCut DEF c
  <2> QED
    BY <2>1, <2>2
<1>4. ReadList(fields, count, c, at) = ReadAll(part, at) /\ ReadList(fields, count, input, at) = ReadAll(all, at)
  BY DEF ReadList
<1> HIDE DEF part, all, size
<1>5. SameWhenCut(ReadAll(part, at), ReadAll(all, at), at, n)
  BY <1>1, <1>2, <1>3, ReadAllWhenCut
<1> QED
  BY <1>4, <1>5 DEF c

(***************************************************************************)
(* Values                                                                  *)
(***************************************************************************)
Lists == {"regions", "fragments"}
ValueTypes == Scalars \cup Lists \cup {"shape"}

\* decode takes the list.
Readable(type, v) == type \in Lists => Len(v) \in 1..MaxOf[type]

LEMMA TablesOfRecords ==
  /\ DOMAIN ListOf = Lists /\ "u16" \in Scalars /\ "bool" \in Scalars
  /\ \A type \in Lists : IsTable(ListOf[type], Scalars) /\ MaxOf[type] \in Nat
  /\ IsTable(CursorShape, Scalars)
<1>1. DOMAIN ListOf = Lists /\ ListOf["regions"] = DesktopRect /\ ListOf["fragments"] = Fragment
  BY DEF ListOf, Lists
<1>2. IsTable(DesktopRect, Scalars)
  BY DEF IsTable, DesktopRect, Scalars, Fixed
<1>3. IsTable(Fragment, Scalars)
  BY DEF IsTable, Fragment, Scalars, Fixed
<1>4. IsTable(CursorShape, Scalars)
  BY DEF IsTable, CursorShape, Scalars, Fixed
<1>5. MaxOf["regions"] \in Nat /\ MaxOf["fragments"] \in Nat
  BY WireAssumption DEF MaxOf
<1> QED
  BY <1>1, <1>2, <1>3, <1>4, <1>5 DEF Lists, Scalars, Fixed

LEMMA TypesOfValues ==
  /\ \A type \in Scalars : type \notin Lists /\ type # "shape"
  /\ \A type \in Lists : type # "shape" /\ type \notin Scalars
  /\ "shape" \notin Scalars /\ "shape" \notin Lists
BY DEF Scalars, Fixed, Lists

\* What there is of a list: its length, and one record behind the other.
LEMMA ListParts ==
  ASSUME NEW type \in Lists, NEW v, IsValue(type, v)
  PROVE  /\ Len(v) \in Nat /\ IsScalar("u16", Len(v))
         /\ v = [i \in 1..Len(v) |-> v[i]]
         /\ AreRecords(ListOf[type], Len(v), v)
         /\ PutValue(type, v) = PutScalar("u16", Len(v)) \o PutList(ListOf[type], Len(v), v)
<1>1. type \in DOMAIN ListOf /\ type # "shape"
  BY TablesOfRecords, TypesOfValues
<1>2. Width.u16 = 2 /\ Width["u16"] = 2
  BY DEF Width
<1>3. /\ Len(v) \in 0..Capacity[Width.u16] - 1
      /\ v = [i \in 1..Len(v) |-> v[i]]
      /\ \A i \in DOMAIN v : IsRecord(ListOf[type], v[i])
  BY <1>1, Zenon DEF IsValue
<1>4. DOMAIN v = 1..Len(v)
  BY <1>3
<1>5. Len(v) \in Nat /\ Len(v) \in 0..Capacity[2] - 1
  BY <1>2, <1>3, CapacityFacts
<1>6. IsScalar("u16", Len(v)) /\ PutScalar("u16", Len(v)) = BigEndian(Width.u16, Len(v))
  <2> DEFINE n == Len(v)
  <2> HIDE DEF n
  <2>1. IsScalar("u16", n) /\ PutScalar("u16", n) = BigEndian(Width.u16, n)
    BY <1>2, <1>5 DEF IsScalar, PutScalar, n
  <2> QED
    BY <2>1 DEF n
<1>7. PutValue(type, v) = BigEndian(Width.u16, Len(v)) \o
                            FlattenSeq([i \in DOMAIN v |-> PutRecord(ListOf[type], v[i])])
  BY <1>1, Zenon DEF PutValue
<1>8. [i \in DOMAIN v |-> PutRecord(ListOf[type], v[i])] = [i \in 1..Len(v) |-> PutRecord(ListOf[type], v[i])]
  BY <1>4
<1>9. PutValue(type, v) = PutScalar("u16", Len(v)) \o PutList(ListOf[type], Len(v), v)
  BY <1>6, <1>7, <1>8, Zenon DEF PutList
<1>10. AreRecords(ListOf[type], Len(v), v)
  BY <1>3, <1>4 DEF AreRecords
<1> QED
  BY <1>3, <1>5, <1>6, <1>9, <1>10

\* What there is of an option: a flag, and no record or one.
ShapeCount(v) == IF v = <<>> THEN 0 ELSE 1

LEMMA ShapeParts ==
  ASSUME NEW v, IsValue("shape", v)
  PROVE  /\ ShapeCount(v) \in Nat /\ IsScalar("bool", v # <<>>)
         /\ v = [i \in 1..ShapeCount(v) |-> v[i]]
         /\ AreRecords(CursorShape, ShapeCount(v), v)
         /\ PutValue("shape", v) = PutScalar("bool", v # <<>>) \o PutList(CursorShape, ShapeCount(v), v)
<1>1. "shape" \notin DOMAIN ListOf
  BY TypesOfValues, TablesOfRecords
<1>2. /\ PutValue("shape", v) = IF v = <<>> THEN <<0>> ELSE <<1>> \o PutRecord(CursorShape, v[1])
      /\ v # <<>> => v = <<v[1]>> /\ IsRecord(CursorShape, v[1])
  BY <1>1 DEF PutValue, IsValue, Failed, Ok
<1>3. /\ IsScalar("bool", v # <<>>)
      /\ PutScalar("bool", v # <<>>) = <<IF v # <<>> THEN 1 ELSE 0>>
  <2> DEFINE present == v # <<>>
  <2>1. present \in BOOLEAN
    OBVIOUS
  <2> HIDE DEF present
  <2>2. IsScalar("bool", present) /\ PutScalar("bool", present) = <<IF present THEN 1 ELSE 0>>
    BY <2>1 DEF IsScalar, PutScalar
  <2> QED
    BY <2>2 DEF present
<1>4. CASE v = <<>>
  <2>1. [i \in 1..ShapeCount(v) |-> v[i]] = <<>>
    BY <1>4 DEF ShapeCount
  <2>2. [i \in 1..ShapeCount(v) |-> PutRecord(CursorShape, v[i])] = <<>>
    BY <1>4 DEF ShapeCount
  <2>3. PutList(CursorShape, ShapeCount(v), v) = <<>>
    BY <2>2, FlattenEmpty DEF PutList
  <2>4. PutScalar("bool", v # <<>>) = <<0>>
    BY <1>3, <1>4
  <2>5. <<0>> \o <<>> = <<0>>
    OBVIOUS
  <2> QED
    BY <1>2, <1>3, <1>4, <2>1, <2>3, <2>4, <2>5 DEF ShapeCount, AreRecords
<1>5. CASE v # <<>>
  <2> DEFINE one == PutRecord(CursorShape, v[1])
  <2>1. ShapeCount(v) = 1
    BY <1>5 DEF ShapeCount
  <2>2. [i \in 1..1 |-> v[i]] = <<v[1]>> /\ [i \in 1..1 |-> PutRecord(CursorShape, v[i])] = <<one>>
    OBVIOUS
  <2>3. one \in Seq(Digit)
    BY <1>2, <1>5, TablesOfRecords, PutRecordIsDigits
  <2>4. PutScalar("bool", v # <<>>) = <<1>>
    BY <1>3, <1>5
  <2>5. PutValue("shape", v) = <<1>> \o one
    BY <1>2, <1>5
  <2> HIDE DEF one
  <2>6. PutList(CursorShape, ShapeCount(v), v) = one
    BY <2>1, <2>2, <2>3, FlattenOne DEF PutList
  <2>7. AreRecords(CursorShape, ShapeCount(v), v)
    BY <1>2, <1>5, <2>1 DEF AreRecords
  <2>8. [i \in 1..ShapeCount(v) |-> v[i]] = v
    BY <1>2, <1>5, <2>1, <2>2
  <2>9. PutValue("shape", v) = PutScalar("bool", v # <<>>) \o PutList(CursorShape, ShapeCount(v), v)
    BY <2>4, <2>5, <2>6
  <2> QED
    BY <1>3, <2>1, <2>7, <2>8, <2>9
<1> QED
  BY <1>4, <1>5

LEMMA PutValueIsDigits ==
  ASSUME NEW type \in ValueTypes, NEW v, IsValue(type, v)
  PROVE  PutValue(type, v) \in Seq(Digit) /\ Len(PutValue(type, v)) \in Nat
<1>0. "u16" \in Scalars /\ "bool" \in Scalars
  BY TablesOfRecords
<1>1. CASE type \in Scalars
  <2>1. type \notin DOMAIN ListOf /\ type # "shape"
    BY <1>1, TypesOfValues, TablesOfRecords
  <2>2. IsScalar(type, v) /\ PutValue(type, v) = PutScalar(type, v)
    BY <2>1 DEF IsValue, PutValue
  <2> QED
    BY <1>1, <2>2, PutScalarIsDigits
<1>2. CASE type \in Lists
  <2> DEFINE a == PutScalar("u16", Len(v))
             b == PutList(ListOf[type], Len(v), v)
  <2>1. PutValue(type, v) = a \o b
    BY <1>2, ListParts
  <2>2. a \in Seq(Digit)
    BY <1>0, <1>2, ListParts, PutScalarIsDigits
  <2>3. b \in Seq(Digit)
    BY <1>2, ListParts, TablesOfRecords, PutListIsDigits
  <2> HIDE DEF a, b
  <2> QED
    BY <2>1, <2>2, <2>3, Joined
<1>3. CASE type = "shape"
  <2> DEFINE a == PutScalar("bool", v # <<>>)
             b == PutList(CursorShape, ShapeCount(v), v)
  <2>1. PutValue(type, v) = a \o b
    BY <1>3, ShapeParts
  <2>2. a \in Seq(Digit)
    <3> DEFINE present == v # <<>>
    <3>1. IsScalar("bool", present)
      BY <1>3, ShapeParts
    <3> HIDE DEF present
    <3>2. PutScalar("bool", present) \in Seq(Digit)
      BY <1>0, <3>1, PutScalarIsDigits
    <3> QED
      BY <3>2 DEF present
  <2>3. b \in Seq(Digit)
    BY <1>3, ShapeParts, TablesOfRecords, PutListIsDigits
  <2> HIDE DEF a, b
  <2> QED
    BY <2>1, <2>2, <2>3, Joined
<1> QED
  BY <1>1, <1>2, <1>3 DEF ValueTypes

\* What stands first is read first.
LEMMA ReadHead ==
  ASSUME NEW type \in Scalars, NEW x, IsScalar(type, x), NEW rest \in Seq(Digit),
         NEW input \in Seq(Digit), NEW at, At(input, at, PutScalar(type, x) \o rest)
  PROVE  \E p \in Nat : /\ ReadScalar(type, input, at) # Failed
                        /\ ReadScalar(type, input, at)[1].value = x
                        /\ ReadScalar(type, input, at)[1].at = p
                        /\ At(input, p, rest)
                        /\ p + Len(rest) = at + Len(PutScalar(type, x) \o rest)
<1> DEFINE a == PutScalar(type, x)
           p == at + Len(a)
<1>1. a \in Seq(Digit) /\ Len(a) \in Nat /\ Len(rest) \in Nat
  BY PutScalarIsDigits, LenProperties
<1>2. At(input, at, a) => ReadScalar(type, input, at) = Ok([value |-> x, at |-> p])
  BY ReadScalarAt
<1> HIDE DEF a
<1>3. At(input, at, a \o rest) /\ at \in Nat
  BY DEF a, At
<1>4. At(input, at, a) /\ At(input, p, rest) /\ Len(a \o rest) = Len(a) + Len(rest)
  BY <1>1, <1>3, AtParts, Joined
<1>5. p \in Nat /\ p + Len(rest) = at + Len(a \o rest)
  BY <1>1, <1>3, <1>4
<1>6. ReadScalar(type, input, at) = Ok([value |-> x, at |-> p])
  BY <1>2, <1>4
<1>7. ReadScalar(type, input, at) # Failed /\ ReadScalar(type, input, at)[1].value = x
      /\ ReadScalar(type, input, at)[1].at = p
  BY <1>6, ResultFacts
<1> QED
  BY <1>4, <1>5, <1>7 DEF a

LEMMA ReadValueAt ==
  ASSUME NEW type \in ValueTypes, NEW v, IsValue(type, v), NEW input \in Seq(Digit), NEW at,
         At(input, at, PutValue(type, v))
  PROVE  ReadValue(type, input, at) =
           IF Readable(type, v) THEN Ok([value |-> v, at |-> at + Len(PutValue(type, v))]) ELSE Failed
<1>1. CASE type \in Scalars
  <2>1. type \notin DOMAIN ListOf /\ type # "shape" /\ type \notin Lists
    BY <1>1, TypesOfValues, TablesOfRecords
  <2>2. IsScalar(type, v) /\ PutValue(type, v) = PutScalar(type, v)
    BY <2>1 DEF IsValue, PutValue
  <2>3. ReadValue(type, input, at) = ReadScalar(type, input, at) /\ Readable(type, v)
    BY <2>1 DEF ReadValue, Readable
  <2> QED
    BY <1>1, <2>2, <2>3, ReadScalarAt
<1>2. CASE type \in Lists
  <2> DEFINE fields == ListOf[type]
             count == Len(v)
             max == MaxOf[type]
             rest == PutList(fields, count, v)
             read == ReadScalar("u16", input, at)
  <2>1. /\ count \in Nat /\ IsTable(fields, Scalars) /\ AreRecords(fields, count, v)
        /\ v = [i \in 1..count |-> v[i]] /\ PutValue(type, v) = PutScalar("u16", count) \o rest
        /\ IsScalar("u16", count) /\ "u16" \in Scalars
        /\ type \in DOMAIN ListOf /\ type # "shape"
    BY <1>2, ListParts, TablesOfRecords, TypesOfValues
  <2>2. ReadValue(type, input, at) =
          IF read = Failed THEN Failed
          ELSE IF read[1].value \notin 1..max THEN Failed
          ELSE ReadList(fields, read[1].value, input, read[1].at)
    BY <2>1, Zenon DEF ReadValue
  <2>3. Readable(type, v) <=> count \in 1..max
    BY <1>2 DEF Readable
  <2> HIDE DEF fields, count, max, read
  <2>4. rest \in Seq(Digit)
    BY <2>1, PutListIsDigits
  <2>5. PICK p \in Nat : /\ read # Failed /\ read[1].value = count /\ read[1].at = p
                         /\ At(input, p, rest) /\ p + Len(rest) = at + Len(PutValue(type, v))
    <3> HIDE DEF rest
    <3>1. At(input, at, PutScalar("u16", count) \o rest) /\ "u16" \in Scalars /\ IsScalar("u16", count)
      BY <2>1
    <3>2. \E p \in Nat : /\ ReadScalar("u16", input, at) # Failed
                          /\ ReadScalar("u16", input, at)[1].value = count
                          /\ ReadScalar("u16", input, at)[1].at = p
                          /\ At(input, p, rest)
                          /\ p + Len(rest) = at + Len(PutScalar("u16", count) \o rest)
      BY <2>4, <3>1, ReadHead
    <3> QED
      BY <2>1, <3>2 DEF read
  <2>6. ReadList(fields, count, input, p) = Ok([value |-> [i \in 1..count |-> v[i]], at |-> p + Len(rest)])
    BY <2>1, <2>5, ReadListAt
  <2> HIDE DEF rest
  <2>7. ReadList(fields, count, input, p) = Ok([value |-> v, at |-> at + Len(PutValue(type, v))])
    BY <2>1, <2>5, <2>6
  <2>8. ReadValue(type, input, at) = IF count \notin 1..max THEN Failed ELSE ReadList(fields, count, input, p)
    BY <2>2, <2>5
  <2> QED
    BY <2>3, <2>7, <2>8
<1>3. CASE type = "shape"
  <2> DEFINE read == ReadScalar("bool", input, at)
             present == v # <<>>
             count == ShapeCount(v)
             rest == PutList(CursorShape, count, v)
  <2>1. /\ count \in Nat /\ IsTable(CursorShape, Scalars) /\ AreRecords(CursorShape, count, v)
        /\ v = [i \in 1..count |-> v[i]] /\ PutValue(type, v) = PutScalar("bool", present) \o rest
        /\ IsScalar("bool", present) /\ "bool" \in Scalars
        /\ type \notin DOMAIN ListOf /\ type \notin Lists
    BY <1>3, ShapeParts, TablesOfRecords, TypesOfValues
  <2>2. ReadValue(type, input, at) =
          IF read = Failed THEN Failed
          ELSE ReadList(CursorShape, IF read[1].value THEN 1 ELSE 0, input, read[1].at)
    BY <1>3, <2>1 DEF ReadValue
  <2>3. count = IF present THEN 1 ELSE 0
    BY DEF ShapeCount
  <2>4. Readable(type, v)
    BY <2>1 DEF Readable
  <2> HIDE DEF count, present, read
  <2>5. rest \in Seq(Digit)
    BY <2>1, PutListIsDigits
  <2>6. PICK p \in Nat : /\ read # Failed /\ read[1].value = present /\ read[1].at = p
                         /\ At(input, p, rest) /\ p + Len(rest) = at + Len(PutValue(type, v))
    <3> HIDE DEF rest
    <3>1. At(input, at, PutScalar("bool", present) \o rest)
      BY <2>1
    <3>2. \E p \in Nat : /\ ReadScalar("bool", input, at) # Failed
                          /\ ReadScalar("bool", input, at)[1].value = present
                          /\ ReadScalar("bool", input, at)[1].at = p
                          /\ At(input, p, rest)
                          /\ p + Len(rest) = at + Len(PutScalar("bool", present) \o rest)
      BY <2>1, <2>5, <3>1, ReadHead
    <3> QED
      BY <2>1, <3>2 DEF read
  <2>7. ReadList(CursorShape, count, input, p) =
          Ok([value |-> [i \in 1..count |-> v[i]], at |-> p + Len(rest)])
    BY <2>1, <2>6, ReadListAt
  <2> HIDE DEF rest
  <2>8. ReadList(CursorShape, count, input, p) = Ok([value |-> v, at |-> at + Len(PutValue(type, v))])
    BY <2>1, <2>6, <2>7
  <2>9. ReadValue(type, input, at) = ReadList(CursorShape, count, input, p)
    BY <2>2, <2>3, <2>6
  <2> QED
    BY <2>4, <2>8, <2>9
<1> QED
  BY <1>1, <1>2, <1>3 DEF ValueTypes

\* Two reads, the second of which starts where the first one ends.
LEMMA CutThen ==
  ASSUME NEW at \in Nat, NEW n \in Nat, NEW cut, NEW whole, SameWhenCut(cut, whole, at, n),
         NEW x, NEW y, cut # Failed => SameWhenCut(x, y, cut[1].at, n)
  PROVE  SameWhenCut(IF cut = Failed THEN Failed ELSE x, IF whole = Failed THEN Failed ELSE y, at, n)
<1>1. CASE cut = Failed
  BY <1>1 DEF SameWhenCut
<1>2. CASE cut # Failed
  <2>1. whole = cut /\ cut[1].at \in at..n /\ SameWhenCut(x, y, cut[1].at, n)
    BY <1>2 DEF SameWhenCut
  <2>2. SameWhenCut(x, y, at, n)
    BY <2>1 DEF SameWhenCut
  <2> QED
    BY <1>2, <2>1, <2>2
<1> QED
  BY <1>1, <1>2

LEMMA FailedWhenCut == \A at, n : SameWhenCut(Failed, Failed, at, n)
BY DEF SameWhenCut

LEMMA ReadValueWhenCut ==
  ASSUME NEW type \in ValueTypes, NEW input \in Seq(Digit), NEW n \in 0..Len(input), NEW at \in 0..n
  PROVE  SameWhenCut(ReadValue(type, Cut(input, n), at), ReadValue(type, input, at), at, n)
<1> DEFINE c == Cut(input, n)
<1>0. n \in Nat /\ at \in Nat /\ Len(input) \in Nat /\ "u16" \in Scalars /\ "bool" \in Scalars
  BY LenProperties, TablesOfRecords
<1>1. CASE type \in Scalars
  <2>1. type \notin DOMAIN ListOf /\ type # "shape"
    BY <1>1, TypesOfValues, TablesOfRecords
  <2>2. \A i : ReadValue(type, i, at) = ReadScalar(type, i, at)
    BY <2>1 DEF ReadValue
  <2> QED
    BY <1>0, <1>1, <2>2, ReadScalarWhenCut
<1>2. CASE type \in Lists
  <2> DEFINE fields == ListOf[type]
             max == MaxOf[type]
             read(i) == ReadScalar("u16", i, at)
             list(i) == IF read(i)[1].value \notin 1..max THEN Failed
                        ELSE ReadList(fields, read(i)[1].value, i, read(i)[1].at)
  <2>1. IsTable(fields, Scalars) /\ max \in Nat /\ type \in DOMAIN ListOf /\ type # "shape"
    BY <1>2, TablesOfRecords, TypesOfValues
  <2>2. \A i : ReadValue(type, i, at) = IF read(i) = Failed THEN Failed ELSE list(i)
    BY <2>1, Zenon DEF ReadValue
  <2> HIDE DEF fields, max
  <2>3. SameWhenCut(read(c), read(input), at, n)
    BY <1>0, ReadScalarWhenCut
  <2> HIDE DEF c, read
  <2>4. ASSUME read(c) # Failed PROVE SameWhenCut(list(c), list(input), read(c)[1].at, n)
    <3> DEFINE count == read(c)[1].value
               p == read(c)[1].at
    <3>1. read(input) = read(c) /\ p \in 0..n
      BY <1>0, <2>3, <2>4 DEF SameWhenCut
    <3>2. CASE count \notin 1..max
      BY <3>1, <3>2, FailedWhenCut
    <3>3. CASE count \in 1..max
      <4>1. list(c) = ReadList(fields, count, c, p) /\ list(input) = ReadList(fields, count, input, p)
        BY <3>1, <3>3
      <4>2. count \in Nat
        BY <2>1, <3>3
      <4> HIDE DEF list, count, p
      <4>3. SameWhenCut(ReadList(fields, count, c, p), ReadList(fields, count, input, p), p, n)
        BY <2>1, <3>1, <4>2, ReadListWhenCut DEF c
      <4>4. SameWhenCut(list(c), list(input), p, n)
        BY <4>1, <4>3
      <4> QED
        BY <4>4 DEF p
    <3> QED
      BY <3>2, <3>3
  <2> HIDE DEF list
  <2>5. SameWhenCut(IF read(c) = Failed THEN Failed ELSE list(c),
                    IF read(input) = Failed THEN Failed ELSE list(input), at, n)
    BY <1>0, <2>3, <2>4, CutThen
  <2> QED
    BY <2>2, <2>5 DEF c
<1>3. CASE type = "shape"
  <2> DEFINE read(i) == ReadScalar("bool", i, at)
             list(i) == ReadList(CursorShape, IF read(i)[1].value THEN 1 ELSE 0, i, read(i)[1].at)
  <2>1. IsTable(CursorShape, Scalars) /\ type \notin DOMAIN ListOf
    BY <1>3, TablesOfRecords, TypesOfValues
  <2>2. \A i : ReadValue(type, i, at) = IF read(i) = Failed THEN Failed ELSE list(i)
    BY <1>3, <2>1, Zenon DEF ReadValue
  <2>3. SameWhenCut(read(c), read(input), at, n)
    BY <1>0, ReadScalarWhenCut
  <2> HIDE DEF c, read
  <2>4. ASSUME read(c) # Failed PROVE SameWhenCut(list(c), list(input), read(c)[1].at, n)
    <3> DEFINE count == IF read(c)[1].value THEN 1 ELSE 0
               p == read(c)[1].at
    <3>1. read(input) = read(c) /\ p \in 0..n
      BY <1>0, <2>3, <2>4 DEF SameWhenCut
    <3>2. list(c) = ReadList(CursorShape, count, c, p) /\ list(input) = ReadList(CursorShape, count, input, p)
      BY <3>1
    <3>3. count \in Nat
      OBVIOUS
    <3> HIDE DEF list, count, p
    <3>4. SameWhenCut(ReadList(CursorShape, count, c, p), ReadList(CursorShape, count, input, p), p, n)
      BY <2>1, <3>1, <3>3, ReadListWhenCut DEF c
    <3>5. SameWhenCut(list(c), list(input), p, n)
      BY <3>2, <3>4
    <3> QED
      BY <3>5 DEF p
  <2> HIDE DEF list
  <2>5. SameWhenCut(IF read(c) = Failed THEN Failed ELSE list(c),
                    IF read(input) = Failed THEN Failed ELSE list(input), at, n)
    BY <1>0, <2>3, <2>4, CutThen
  <2> QED
    BY <2>2, <2>5 DEF c
<1> QED
  BY <1>1, <1>2, <1>3 DEF ValueTypes

(***************************************************************************)
(* The fields of a message                                                 *)
(***************************************************************************)
FieldReads(fields, input) ==
  [n \in DOMAIN fields |-> [p \in 0..Len(input) |-> ReadValue(fields[n][2], input, p)]]

PutFields(fields, m) ==
  FlattenSeq([n \in DOMAIN fields |-> PutValue(fields[n][2], ValuesIn(fields, m)[n])])

\* What the fields of a message hold, and whether decode takes all of it.
AreValues(fields, m) == \A n \in 1..Len(fields) : IsValue(fields[n][2], ValuesIn(fields, m)[n])
AllReadable(fields, m) == \A n \in 1..Len(fields) : Readable(fields[n][2], ValuesIn(fields, m)[n])

LEMMA FieldsAreReads ==
  ASSUME NEW fields, IsTable(fields, ValueTypes), NEW input \in Seq(Digit)
  PROVE  AreReads(FieldReads(fields, input), Len(fields), Len(input))
<1> DEFINE N == Len(fields)
           size == Len(input)
           read == FieldReads(fields, input)
<1>1. N \in Nat /\ DOMAIN fields = 1..N /\ \A n \in 1..N : fields[n][2] \in ValueTypes
  BY DEF IsTable
<1>2. size \in Nat /\ Cut(input, size) = input
  BY CutOfWhole
<1>3. Len(read) = N /\ DOMAIN read = 1..N
  BY <1>1 DEF FieldReads
<1>4. ASSUME NEW n \in 1..N, NEW p \in 0..size, read[n][p] # Failed
      PROVE  read[n][p] = Ok(read[n][p][1]) /\ read[n][p][1].at \in p..size
  <2> DEFINE type == fields[n][2]
  <2>1. read[n][p] = ReadValue(type, input, p)
    BY <1>1 DEF FieldReads
  <2>2. size \in 0..Len(input) /\ type \in ValueTypes
    BY <1>1, <1>2
  <2> HIDE DEF read, type
  <2>3. SameWhenCut(ReadValue(type, Cut(input, size), p), ReadValue(type, input, p), p, size)
    <3> HIDE DEF size
    <3> QED
      BY <2>2, ReadValueWhenCut
  <2>4. SameWhenCut(read[n][p], read[n][p], p, size)
    BY <1>2, <2>1, <2>3
  <2> HIDE DEF size
  <2> QED
    BY <1>4, <2>4, SameWhenWhole
<1> HIDE DEF read, size, N
<1>5. AreReads(read, N, size)
  BY <1>1, <1>2, <1>3, <1>4 DEF AreReads
<1> QED
  BY <1>5 DEF read, N, size

LEMMA ReadFieldsWhenCut ==
  ASSUME NEW fields, IsTable(fields, ValueTypes), NEW input \in Seq(Digit), NEW n \in 0..Len(input),
         NEW at \in 0..n
  PROVE  SameWhenCut(ReadAll(FieldReads(fields, Cut(input, n)), at),
                     ReadAll(FieldReads(fields, input), at), at, n)
<1> DEFINE N == Len(fields)
           size == Len(input)
           c == Cut(input, n)
           part == FieldReads(fields, c)
           all == FieldReads(fields, input)
<1>1. N \in Nat /\ DOMAIN fields = 1..N /\ \A k \in 1..N : fields[k][2] \in ValueTypes
  BY DEF IsTable
<1>2. c \in Seq(Digit) /\ Len(c) = n /\ size \in Nat /\ n \in 0..size
  BY CutIsSeq, LenProperties
<1> HIDE DEF c
<1>3. AreReads(part, N, n) /\ AreReads(all, N, size)
  BY <1>2, FieldsAreReads
<1>4. ASSUME NEW k \in 1..N, NEW p \in 0..n PROVE SameWhenCut(part[k][p], all[k][p], p, n)
  <2> DEFINE type == fields[k][2]
  <2>1. part[k][p] = ReadValue(type, c, p) /\ all[k][p] = ReadValue(type, input, p)
        /\ type \in ValueTypes
    BY <1>1, <1>2 DEF FieldReads
  <2> HIDE DEF type
  <2>2. SameWhenCut(ReadValue(type, c, p), ReadValue(type, input, p), p, n)
    BY <2>1, ReadValueWhenCut DEF c
  <2> QED
    BY <2>1, <2>2
<1> HIDE DEF part, all, N, size
<1>5. SameWhenCut(ReadAll(part, at), ReadAll(all, at), at, n)
  BY <1>2, <1>3, <1>4, ReadAllWhenCut
<1> QED
  BY <1>5 DEF part, all, c

LEMMA PutFieldsIsDigits ==
  ASSUME NEW fields, IsTable(fields, ValueTypes), NEW m, AreValues(fields, m)
  PROVE  /\ [n \in DOMAIN fields |-> PutValue(fields[n][2], ValuesIn(fields, m)[n])] \in Seq(Seq(Digit))
         /\ PutFields(fields, m) \in Seq(Digit)
<1> DEFINE N == Len(fields)
           vals == ValuesIn(fields, m)
           e(n) == PutValue(fields[n][2], vals[n])
           pieces == [n \in DOMAIN fields |-> e(n)]
<1>1. N \in Nat /\ DOMAIN fields = 1..N /\ \A n \in 1..N : fields[n][2] \in ValueTypes
  BY DEF IsTable
<1>2. \A n \in 1..N : IsValue(fields[n][2], vals[n])
  BY DEF AreValues
<1> HIDE DEF vals
<1>3. \A n \in 1..N : e(n) \in Seq(Digit)
  BY <1>1, <1>2, PutValueIsDigits
<1> HIDE DEF e
<1>4. pieces \in Seq(Seq(Digit))
  <2>1. [n \in 1..N |-> e(n)] \in Seq(Seq(Digit))
    BY <1>1, <1>3
  <2> QED
    BY <1>1, <2>1
<1>5. PutFields(fields, m) = FlattenSeq(pieces)
  BY DEF PutFields, e, vals
<1> HIDE DEF pieces
<1>6. FlattenSeq(pieces) \in Seq(Digit)
  BY <1>4, FlattenIsSeq
<1> QED
  BY <1>4, <1>5, <1>6 DEF pieces, e, vals

LEMMA ReadFieldsAt ==
  ASSUME NEW fields, IsTable(fields, ValueTypes), NEW m, AreValues(fields, m),
         NEW input \in Seq(Digit), NEW at, At(input, at, PutFields(fields, m))
  PROVE  ReadAll(FieldReads(fields, input), at) =
           IF AllReadable(fields, m)
           THEN Ok([value |-> ValuesIn(fields, m), at |-> at + Len(PutFields(fields, m))]) ELSE Failed
<1> DEFINE N == Len(fields)
           size == Len(input)
           vals == ValuesIn(fields, m)
           pieces == [n \in DOMAIN fields |-> PutValue(fields[n][2], vals[n])]
           read == FieldReads(fields, input)
           good == {n \in 1..N : Readable(fields[n][2], vals[n])}
<1>1. N \in Nat /\ DOMAIN fields = 1..N /\ \A n \in 1..N : fields[n][2] \in ValueTypes
  BY DEF IsTable
<1>2. PutFields(fields, m) = FlattenSeq(pieces)
  BY DEF PutFields
<1>3. /\ pieces \in Seq(Seq(Digit)) /\ Len(pieces) = N
      /\ \A n \in 1..N : pieces[n] = PutValue(fields[n][2], vals[n])
      /\ \A n \in 1..N : IsValue(fields[n][2], vals[n])
  <2>1. \A n \in 1..N : IsValue(fields[n][2], vals[n])
    BY DEF AreValues
  <2> HIDE DEF vals
  <2>2. Len(pieces) = N /\ \A n \in 1..N : pieces[n] = PutValue(fields[n][2], vals[n])
    BY <1>1
  <2>3. pieces \in Seq(Seq(Digit))
    BY PutFieldsIsDigits DEF vals
  <2> QED
    BY <2>1, <2>2, <2>3
<1>4. vals = [n \in 1..N |-> vals[n]]
  BY <1>1 DEF ValuesIn
<1>5. AllReadable(fields, m) <=> 1..N \subseteq good
  BY DEF AllReadable
<1> HIDE DEF pieces, vals
<1>6. \E pos \in [0..N -> 0..size] :
        /\ pos[0] = at /\ pos[N] = at + Len(FlattenSeq(pieces))
        /\ \A n \in 1..N : pos[n] = pos[n - 1] + Len(pieces[n]) /\ At(input, pos[n - 1], pieces[n])
  <2>1. \E pos \in [0..Len(pieces) -> 0..Len(input)] :
          /\ pos[0] = at /\ pos[Len(pieces)] = at + Len(FlattenSeq(pieces))
          /\ \A n \in 1..Len(pieces) :
               pos[n] = pos[n - 1] + Len(pieces[n]) /\ At(input, pos[n - 1], pieces[n])
    BY <1>2, <1>3, FlattenedAt
  <2> QED
    BY <1>3, <2>1
<1>7. PICK pos \in [0..N -> 0..size] :
        /\ pos[0] = at /\ pos[N] = at + Len(FlattenSeq(pieces))
        /\ \A n \in 1..N : pos[n] = pos[n - 1] + Len(pieces[n]) /\ At(input, pos[n - 1], pieces[n])
  BY <1>6
<1>8. AreReads(read, N, size)
  BY FieldsAreReads
<1>9. \A n \in 0..N : pos[n] \in 0..size
  OBVIOUS
<1>10. ASSUME NEW n \in 1..N
       PROVE  read[n][pos[n - 1]] = IF n \in good THEN Ok([value |-> vals[n], at |-> pos[n]]) ELSE Failed
  <2> DEFINE p == pos[n - 1]
             type == fields[n][2]
             v == vals[n]
  <2>1. p \in 0..size
    BY <1>1, <1>9
  <2>2. read[n][p] = ReadValue(type, input, p)
    BY <1>1, <2>1 DEF FieldReads
  <2>3. /\ type \in ValueTypes /\ IsValue(type, v) /\ pieces[n] = PutValue(type, v)
        /\ At(input, p, pieces[n]) /\ pos[n] = p + Len(pieces[n]) /\ (n \in good <=> Readable(type, v))
    BY <1>1, <1>3, <1>7
  <2> HIDE DEF p, type, v, read, good
  <2>4. At(input, p, PutValue(type, v))
    BY <2>3
  <2>5. ReadValue(type, input, p) =
          IF Readable(type, v) THEN Ok([value |-> v, at |-> p + Len(PutValue(type, v))]) ELSE Failed
    BY <2>3, <2>4, ReadValueAt
  <2>6. read[n][p] = IF n \in good THEN Ok([value |-> v, at |-> pos[n]]) ELSE Failed
    BY <2>2, <2>3, <2>5
  <2> QED
    BY <2>6 DEF p, v
<1>11. at \in 0..size
  BY <1>1, <1>7, <1>9
<1> HIDE DEF read, good, size, N
<1>12. Placed(read, N, size, at, vals, pos, good)
  BY <1>7, <1>8, <1>10, <1>11 DEF Placed
<1>13. ReadAll(read, at) = IF 1..N \subseteq good
                           THEN Ok([value |-> [n \in 1..N |-> vals[n]], at |-> pos[N]]) ELSE Failed
  BY <1>12, ReadAllGot
<1>14. ReadAll(read, at) = IF AllReadable(fields, m)
                           THEN Ok([value |-> vals, at |-> at + Len(PutFields(fields, m))]) ELSE Failed
  BY <1>2, <1>4, <1>5, <1>7, <1>13
<1> QED
  BY <1>14 DEF read, vals

(***************************************************************************)
(* The tables of encode and of decode                                      *)
(***************************************************************************)
Kinds == DOMAIN Encoding

\* An entry of the encoder's table: a tag and the fields behind it.  Two kinds of
\* messages have a list.
IsEntry(entry, types) ==
  /\ entry[1] \in Seq(0..18) /\ Len(entry[1]) \in {1, 2}
  /\ IsTable(entry[2], types)

Unlisted == Scalars \cup {"shape"}

\* The names of the fields are told apart, from each other and from that of the kind.
AreNamed(fields) ==
  /\ \A i \in 1..Len(fields) : fields[i][1] # "kind"
  /\ \A i, j \in 1..Len(fields) : fields[i][1] = fields[j][1] => i = j

RowOf(kind) == <<Encoding[kind][1], kind, Encoding[kind][2]>>

LEMMA TablesOfKinds ==
  /\ \A kind \in DOMAIN SessionEncoding :
       kind \notin DOMAIN DesktopEncoding /\ kind \notin DOMAIN FileEncoding
  /\ \A kind \in DOMAIN DesktopEncoding : kind \notin DOMAIN FileEncoding
BY DEF SessionEncoding, DesktopEncoding, FileEncoding

LEMMA EncodingEquation ==
  /\ Kinds = DOMAIN SessionEncoding \cup DOMAIN DesktopEncoding \cup DOMAIN FileEncoding
  /\ \A kind \in DOMAIN SessionEncoding : Encoding[kind] = SessionEncoding[kind]
  /\ \A kind \in DOMAIN DesktopEncoding : Encoding[kind] = DesktopEncoding[kind]
  /\ \A kind \in DOMAIN FileEncoding : Encoding[kind] = FileEncoding[kind]
BY TablesOfKinds DEF Encoding, Kinds

LEMMA SessionRows ==
  \A kind \in DOMAIN SessionEncoding :
    <<SessionEncoding[kind][1], kind, SessionEncoding[kind][2]>> \in SessionDecoding
BY DEF SessionEncoding, SessionDecoding

LEMMA DesktopRows ==
  \A kind \in DOMAIN DesktopEncoding :
    <<DesktopEncoding[kind][1], kind, DesktopEncoding[kind][2]>> \in DesktopDecoding
BY DEF DesktopEncoding, DesktopDecoding

LEMMA FileRows ==
  \A kind \in DOMAIN FileEncoding :
    <<FileEncoding[kind][1], kind, FileEncoding[kind][2]>> \in FileDecoding
BY DEF FileEncoding, FileDecoding

LEMMA KindsOfTables ==
  /\ DOMAIN SessionEncoding = {"Hello", "Challenge", "Authenticate", "Authenticated", "Rejected",
                               "OpenDesktop", "Close"}
  /\ DOMAIN DesktopEncoding = {"Video", "Pointer", "Key", "Wheel", "RateHint", "KeyframeRequest",
                               "KeyframeAck", "DesktopUpdate", "Cursor", "MediaNack"}
  /\ DOMAIN FileEncoding = {"FileOffer", "FileChunk", "FileAck"}
BY DEF SessionEncoding, DesktopEncoding, FileEncoding

LEMMA SessionEntries == \A kind \in DOMAIN SessionEncoding : IsEntry(SessionEncoding[kind], Unlisted)
<1>1. IsEntry(SessionEncoding.Hello, Unlisted)
  BY DEF SessionEncoding, IsEntry, IsTable, Unlisted, Scalars, Fixed
<1>2. IsEntry(SessionEncoding.Challenge, Unlisted)
  BY DEF SessionEncoding, IsEntry, IsTable, Unlisted, Scalars, Fixed
<1>3. IsEntry(SessionEncoding.Authenticate, Unlisted)
  BY DEF SessionEncoding, IsEntry, IsTable, Unlisted, Scalars, Fixed
<1>4. IsEntry(SessionEncoding.Authenticated, Unlisted)
  BY DEF SessionEncoding, IsEntry, IsTable, Unlisted, Scalars, Fixed
<1>5. IsEntry(SessionEncoding.Rejected, Unlisted)
  BY DEF SessionEncoding, IsEntry, IsTable, Unlisted, Scalars, Fixed
<1>6. IsEntry(SessionEncoding.OpenDesktop, Unlisted)
  BY DEF SessionEncoding, IsEntry, IsTable, Unlisted, Scalars, Fixed
<1>7. IsEntry(SessionEncoding.Close, Unlisted)
  BY DEF SessionEncoding, IsEntry, IsTable, Unlisted, Scalars, Fixed
<1> QED
  BY <1>1, <1>2, <1>3, <1>4, <1>5, <1>6, <1>7, KindsOfTables

LEMMA DesktopEntries ==
  \A kind \in DOMAIN DesktopEncoding :
    IsEntry(DesktopEncoding[kind], IF kind \in {"DesktopUpdate", "MediaNack"} THEN ValueTypes ELSE Unlisted)
<1>1. IsEntry(DesktopEncoding.Video, Unlisted)
  BY DEF DesktopEncoding, IsEntry, IsTable, Unlisted, Scalars, Fixed
<1>2. IsEntry(DesktopEncoding.Pointer, Unlisted)
  BY DEF DesktopEncoding, IsEntry, IsTable, Unlisted, Scalars, Fixed
<1>3. IsEntry(DesktopEncoding.Key, Unlisted)
  BY DEF DesktopEncoding, IsEntry, IsTable, Unlisted, Scalars, Fixed
<1>4. IsEntry(DesktopEncoding.Wheel, Unlisted)
  BY DEF DesktopEncoding, IsEntry, IsTable, Unlisted, Scalars, Fixed
<1>5. IsEntry(DesktopEncoding.RateHint, Unlisted)
  BY DEF DesktopEncoding, IsEntry, IsTable, Unlisted, Scalars, Fixed
<1>6. IsEntry(DesktopEncoding.KeyframeRequest, Unlisted)
  BY DEF DesktopEncoding, IsEntry, IsTable, Unlisted, Scalars, Fixed
<1>7. IsEntry(DesktopEncoding.KeyframeAck, Unlisted)
  BY DEF DesktopEncoding, IsEntry, IsTable, Unlisted, Scalars, Fixed
<1>8. IsEntry(DesktopEncoding.DesktopUpdate, ValueTypes)
  BY DEF DesktopEncoding, IsEntry, IsTable, ValueTypes, Scalars, Fixed, Lists
<1>9. IsEntry(DesktopEncoding.Cursor, Unlisted)
  BY DEF DesktopEncoding, IsEntry, IsTable, Unlisted, Scalars, Fixed
<1>10. IsEntry(DesktopEncoding.MediaNack, ValueTypes)
  BY DEF DesktopEncoding, IsEntry, IsTable, ValueTypes, Scalars, Fixed, Lists
<1> QED
  BY <1>1, <1>2, <1>3, <1>4, <1>5, <1>6, <1>7, <1>8, <1>9, <1>10, KindsOfTables

LEMMA FileEntries == \A kind \in DOMAIN FileEncoding : IsEntry(FileEncoding[kind], Unlisted)
<1>1. IsEntry(FileEncoding.FileOffer, Unlisted)
  BY DEF FileEncoding, IsEntry, IsTable, Unlisted, Scalars, Fixed
<1>2. IsEntry(FileEncoding.FileChunk, Unlisted)
  BY DEF FileEncoding, IsEntry, IsTable, Unlisted, Scalars, Fixed
<1>3. IsEntry(FileEncoding.FileAck, Unlisted)
  BY DEF FileEncoding, IsEntry, IsTable, Unlisted, Scalars, Fixed
<1> QED
  BY <1>1, <1>2, <1>3, KindsOfTables

LEMMA SessionNames == \A kind \in DOMAIN SessionEncoding : AreNamed(SessionEncoding[kind][2])
<1>1. AreNamed(SessionEncoding.Hello[2])
  BY DEF SessionEncoding, AreNamed
<1>2. AreNamed(SessionEncoding.Challenge[2])
  BY DEF SessionEncoding, AreNamed
<1>3. AreNamed(SessionEncoding.Authenticate[2])
  BY DEF SessionEncoding, AreNamed
<1>4. AreNamed(SessionEncoding.Authenticated[2])
  BY DEF SessionEncoding, AreNamed
<1>5. AreNamed(SessionEncoding.Rejected[2])
  BY DEF SessionEncoding, AreNamed
<1>6. AreNamed(SessionEncoding.OpenDesktop[2])
  BY DEF SessionEncoding, AreNamed
<1>7. AreNamed(SessionEncoding.Close[2])
  BY DEF SessionEncoding, AreNamed
<1> QED
  BY <1>1, <1>2, <1>3, <1>4, <1>5, <1>6, <1>7, KindsOfTables

LEMMA DesktopNames == \A kind \in DOMAIN DesktopEncoding : AreNamed(DesktopEncoding[kind][2])
<1>1. AreNamed(DesktopEncoding.Video[2])
  BY DEF DesktopEncoding, AreNamed
<1>2. AreNamed(DesktopEncoding.Pointer[2])
  BY DEF DesktopEncoding, AreNamed
<1>3. AreNamed(DesktopEncoding.Key[2])
  BY DEF DesktopEncoding, AreNamed
<1>4. AreNamed(DesktopEncoding.Wheel[2])
  BY DEF DesktopEncoding, AreNamed
<1>5. AreNamed(DesktopEncoding.RateHint[2])
  BY DEF DesktopEncoding, AreNamed
<1>6. AreNamed(DesktopEncoding.KeyframeRequest[2])
  BY DEF DesktopEncoding, AreNamed
<1>7. AreNamed(DesktopEncoding.KeyframeAck[2])
  BY DEF DesktopEncoding, AreNamed
<1>8. AreNamed(DesktopEncoding.DesktopUpdate[2])
  BY DEF DesktopEncoding, AreNamed
<1>9. AreNamed(DesktopEncoding.Cursor[2])
  BY DEF DesktopEncoding, AreNamed
<1>10. AreNamed(DesktopEncoding.MediaNack[2])
  BY DEF DesktopEncoding, AreNamed
<1> QED
  BY <1>1, <1>2, <1>3, <1>4, <1>5, <1>6, <1>7, <1>8, <1>9, <1>10, KindsOfTables

LEMMA FileNames == \A kind \in DOMAIN FileEncoding : AreNamed(FileEncoding[kind][2])
<1>1. AreNamed(FileEncoding.FileOffer[2])
  BY DEF FileEncoding, AreNamed
<1>2. AreNamed(FileEncoding.FileChunk[2])
  BY DEF FileEncoding, AreNamed
<1>3. AreNamed(FileEncoding.FileAck[2])
  BY DEF FileEncoding, AreNamed
<1> QED
  BY <1>1, <1>2, <1>3, KindsOfTables

LEMMA EntriesOfKinds ==
  \A kind \in Kinds :
    /\ IsEntry(Encoding[kind], IF kind \in {"DesktopUpdate", "MediaNack"} THEN ValueTypes ELSE Unlisted)
    /\ AreNamed(Encoding[kind][2])
BY EncodingEquation, KindsOfTables, SessionEntries, DesktopEntries, FileEntries,
   SessionNames, DesktopNames, FileNames

LEMMA KindFacts ==
  ASSUME NEW kind \in Kinds
  PROVE  /\ Encoding[kind][1] \in Seq(Digit) /\ Len(Encoding[kind][1]) \in {1, 2}
         /\ IsTable(Encoding[kind][2], ValueTypes) /\ AreNamed(Encoding[kind][2])
         /\ kind \notin {"DesktopUpdate", "MediaNack"} =>
              \A n \in 1..Len(Encoding[kind][2]) : Encoding[kind][2][n][2] \notin Lists
<1> DEFINE entry == Encoding[kind]
           types == IF kind \in {"DesktopUpdate", "MediaNack"} THEN ValueTypes ELSE Unlisted
<1>1. IsEntry(entry, types) /\ AreNamed(entry[2])
  BY EntriesOfKinds
<1>2. types \subseteq ValueTypes /\ (kind \notin {"DesktopUpdate", "MediaNack"} => types = Unlisted)
  BY DEF ValueTypes, Unlisted
<1>3. \A type \in Unlisted : type \notin Lists
  BY DEF Unlisted, Scalars, Fixed, Lists
<1> HIDE DEF entry, types
<1>4. entry[1] \in Seq(0..18) /\ Len(entry[1]) \in {1, 2} /\ IsTable(entry[2], types)
  BY <1>1 DEF IsEntry
<1>5. entry[1] \in Seq(Digit)
  <2>1. \A x \in 0..18 : x \in Digit
    BY ByteIsNat
  <2> QED
    BY <1>4, <2>1, SMTT(20)
<1> QED
  BY <1>1, <1>2, <1>3, <1>4, <1>5 DEF IsTable, entry

LEMMA RowsAreDecoded == \A kind \in Kinds : RowOf(kind) \in Decoding
<1>1. \A kind \in DOMAIN SessionEncoding : RowOf(kind) \in SessionDecoding
  BY EncodingEquation, SessionRows DEF RowOf
<1>2. \A kind \in DOMAIN DesktopEncoding : RowOf(kind) \in DesktopDecoding
  BY EncodingEquation, DesktopRows DEF RowOf
<1>3. \A kind \in DOMAIN FileEncoding : RowOf(kind) \in FileDecoding
  BY EncodingEquation, FileRows DEF RowOf
<1> QED
  BY <1>1, <1>2, <1>3, EncodingEquation DEF Decoding

LEMMA DecodedAreRows == \A row \in Decoding : row[2] \in Kinds /\ row = RowOf(row[2])
<1>1. \A row \in SessionDecoding :
        /\ row[2] \in DOMAIN SessionEncoding
        /\ row = <<SessionEncoding[row[2]][1], row[2], SessionEncoding[row[2]][2]>>
  <2>1. SessionDecoding \subseteq
          { <<SessionEncoding.Hello[1], "Hello", SessionEncoding.Hello[2]>>,
          <<SessionEncoding.Challenge[1], "Challenge", SessionEncoding.Challenge[2]>>,
          <<SessionEncoding.Authenticate[1], "Authenticate", SessionEncoding.Authenticate[2]>>,
          <<SessionEncoding.Authenticated[1], "Authenticated", SessionEncoding.Authenticated[2]>>,
          <<SessionEncoding.Rejected[1], "Rejected", SessionEncoding.Rejected[2]>>,
          <<SessionEncoding.OpenDesktop[1], "OpenDesktop", SessionEncoding.OpenDesktop[2]>>,
          <<SessionEncoding.Close[1], "Close", SessionEncoding.Close[2]>> }
    BY DEF SessionDecoding, SessionEncoding
  <2> QED
    BY <2>1, KindsOfTables
<1>2. \A row \in DesktopDecoding :
        /\ row[2] \in DOMAIN DesktopEncoding
        /\ row = <<DesktopEncoding[row[2]][1], row[2], DesktopEncoding[row[2]][2]>>
  <2>1. DesktopDecoding \subseteq
          { <<DesktopEncoding.Video[1], "Video", DesktopEncoding.Video[2]>>,
          <<DesktopEncoding.Pointer[1], "Pointer", DesktopEncoding.Pointer[2]>>,
          <<DesktopEncoding.Key[1], "Key", DesktopEncoding.Key[2]>>,
          <<DesktopEncoding.Wheel[1], "Wheel", DesktopEncoding.Wheel[2]>>,
          <<DesktopEncoding.RateHint[1], "RateHint", DesktopEncoding.RateHint[2]>>,
          <<DesktopEncoding.KeyframeRequest[1], "KeyframeRequest", DesktopEncoding.KeyframeRequest[2]>>,
          <<DesktopEncoding.KeyframeAck[1], "KeyframeAck", DesktopEncoding.KeyframeAck[2]>>,
          <<DesktopEncoding.DesktopUpdate[1], "DesktopUpdate", DesktopEncoding.DesktopUpdate[2]>>,
          <<DesktopEncoding.Cursor[1], "Cursor", DesktopEncoding.Cursor[2]>>,
          <<DesktopEncoding.MediaNack[1], "MediaNack", DesktopEncoding.MediaNack[2]>> }
    BY DEF DesktopDecoding, DesktopEncoding
  <2> QED
    BY <2>1, KindsOfTables
<1>3. \A row \in FileDecoding :
        /\ row[2] \in DOMAIN FileEncoding
        /\ row = <<FileEncoding[row[2]][1], row[2], FileEncoding[row[2]][2]>>
  <2>1. FileDecoding \subseteq
          { <<FileEncoding.FileOffer[1], "FileOffer", FileEncoding.FileOffer[2]>>,
          <<FileEncoding.FileChunk[1], "FileChunk", FileEncoding.FileChunk[2]>>,
          <<FileEncoding.FileAck[1], "FileAck", FileEncoding.FileAck[2]>> }
    BY DEF FileDecoding, FileEncoding
  <2> QED
    BY <2>1, KindsOfTables
<1>4. \A row \in SessionDecoding : row[2] \in Kinds /\ row = RowOf(row[2])
  BY <1>1, EncodingEquation DEF RowOf
<1>5. \A row \in DesktopDecoding : row[2] \in Kinds /\ row = RowOf(row[2])
  BY <1>2, EncodingEquation DEF RowOf
<1>6. \A row \in FileDecoding : row[2] \in Kinds /\ row = RowOf(row[2])
  BY <1>3, EncodingEquation DEF RowOf
<1> QED
  BY <1>4, <1>5, <1>6 DEF Decoding

\* No tag starts another.
LEMMA TagsAreApart ==
  ASSUME NEW kind \in Kinds, NEW other \in Kinds,
         Encoding[kind][1][1] = Encoding[other][1][1],
         \/ Len(Encoding[kind][1]) = 1 \/ Len(Encoding[other][1]) = 1
         \/ Encoding[kind][1][2] = Encoding[other][1][2]
  PROVE  kind = other
<1> DEFINE Starts(k, n) == Encoding[k][1][1] = n
           Goes(k, n) == Encoding[k][1][1] = 8 /\ Len(Encoding[k][1]) = 2 /\ Encoding[k][1][2] = n
<1>1. \A k \in DOMAIN SessionEncoding :
        \/ k = "Hello" /\ Starts(k, 1)
        \/ k = "Challenge" /\ Starts(k, 2)
        \/ k = "Authenticate" /\ Starts(k, 3)
        \/ k = "Authenticated" /\ Starts(k, 4)
        \/ k = "Rejected" /\ Starts(k, 5)
        \/ k = "OpenDesktop" /\ Starts(k, 6)
        \/ k = "Close" /\ Starts(k, 13)
  <2>1. Starts("Hello", 1)
    BY EncodingEquation DEF SessionEncoding
  <2>2. Starts("Challenge", 2)
    BY EncodingEquation DEF SessionEncoding
  <2>3. Starts("Authenticate", 3)
    BY EncodingEquation DEF SessionEncoding
  <2>4. Starts("Authenticated", 4)
    BY EncodingEquation DEF SessionEncoding
  <2>5. Starts("Rejected", 5)
    BY EncodingEquation DEF SessionEncoding
  <2>6. Starts("OpenDesktop", 6)
    BY EncodingEquation DEF SessionEncoding
  <2>7. Starts("Close", 13)
    BY EncodingEquation DEF SessionEncoding
  <2> HIDE DEF Starts, Goes
  <2> QED
    BY <2>1, <2>2, <2>3, <2>4, <2>5, <2>6, <2>7, KindsOfTables
<1>2. \A k \in DOMAIN DesktopEncoding :
        \/ k = "Video" /\ Starts(k, 7)
        \/ k = "Pointer" /\ Goes(k, 1)
        \/ k = "Key" /\ Goes(k, 2)
        \/ k = "Wheel" /\ Goes(k, 3)
        \/ k = "RateHint" /\ Starts(k, 9)
        \/ k = "KeyframeRequest" /\ Starts(k, 14)
        \/ k = "KeyframeAck" /\ Starts(k, 15)
        \/ k = "DesktopUpdate" /\ Starts(k, 16)
        \/ k = "Cursor" /\ Starts(k, 17)
        \/ k = "MediaNack" /\ Starts(k, 18)
  <2>1. Starts("Video", 7)
    BY EncodingEquation DEF DesktopEncoding
  <2>2. Goes("Pointer", 1)
    BY EncodingEquation DEF DesktopEncoding
  <2>3. Goes("Key", 2)
    BY EncodingEquation DEF DesktopEncoding
  <2>4. Goes("Wheel", 3)
    BY EncodingEquation DEF DesktopEncoding
  <2>5. Starts("RateHint", 9)
    BY EncodingEquation DEF DesktopEncoding
  <2>6. Starts("KeyframeRequest", 14)
    BY EncodingEquation DEF DesktopEncoding
  <2>7. Starts("KeyframeAck", 15)
    BY EncodingEquation DEF DesktopEncoding
  <2>8. Starts("DesktopUpdate", 16)
    BY EncodingEquation DEF DesktopEncoding
  <2>9. Starts("Cursor", 17)
    BY EncodingEquation DEF DesktopEncoding
  <2>10. Starts("MediaNack", 18)
    BY EncodingEquation DEF DesktopEncoding
  <2> HIDE DEF Starts, Goes
  <2> QED
    BY <2>1, <2>2, <2>3, <2>4, <2>5, <2>6, <2>7, <2>8, <2>9, <2>10, KindsOfTables
<1>3. \A k \in DOMAIN FileEncoding :
        \/ k = "FileOffer" /\ Starts(k, 10)
        \/ k = "FileChunk" /\ Starts(k, 11)
        \/ k = "FileAck" /\ Starts(k, 12)
  <2>1. Starts("FileOffer", 10)
    BY EncodingEquation DEF FileEncoding
  <2>2. Starts("FileChunk", 11)
    BY EncodingEquation DEF FileEncoding
  <2>3. Starts("FileAck", 12)
    BY EncodingEquation DEF FileEncoding
  <2> HIDE DEF Starts, Goes
  <2> QED
    BY <2>1, <2>2, <2>3, KindsOfTables
<1>4. kind = other
  BY <1>1, <1>2, <1>3, EncodingEquation, SMTT(20)
<1> QED
  BY <1>4

\* Where decode checks a count.
LEMMA ListsOfKinds ==
  /\ LET fields == Encoding["DesktopUpdate"][2]
     IN  /\ 6 \in 1..Len(fields) /\ fields[6] = <<"regions", "regions">>
         /\ \A n \in 1..Len(fields) : fields[n][2] \in Lists => n = 6
  /\ LET fields == Encoding["MediaNack"][2]
     IN  /\ 2 \in 1..Len(fields) /\ fields[2] = <<"missing_fragments", "fragments">>
         /\ \A n \in 1..Len(fields) : fields[n][2] \in Lists => n = 2
<1>1. /\ Encoding["DesktopUpdate"] = DesktopEncoding.DesktopUpdate
      /\ Encoding["MediaNack"] = DesktopEncoding.MediaNack
  BY EncodingEquation, KindsOfTables
<1>2. LET fields == DesktopEncoding.DesktopUpdate[2]
      IN  /\ 6 \in 1..Len(fields) /\ fields[6] = <<"regions", "regions">>
          /\ \A n \in 1..Len(fields) : fields[n][2] \in Lists => n = 6
  BY DEF DesktopEncoding, Lists
<1>3. LET fields == DesktopEncoding.MediaNack[2]
      IN  /\ 2 \in 1..Len(fields) /\ fields[2] = <<"missing_fragments", "fragments">>
          /\ \A n \in 1..Len(fields) : fields[n][2] \in Lists => n = 2
  BY DEF DesktopEncoding, Lists
<1> QED
  BY <1>1, <1>2, <1>3

LEMMA LegalIsReadable ==
  ASSUME NEW m, m.kind \in Kinds
  PROVE  CountsAreLegal(m) <=> AllReadable(Encoding[m.kind][2], m)
<1> DEFINE fields == Encoding[m.kind][2]
<1>1. DOMAIN fields = 1..Len(fields)
  BY KindFacts DEF IsTable
<1>2. \A n \in 1..Len(fields) : ValuesIn(fields, m)[n] = m[fields[n][1]]
  BY <1>1 DEF ValuesIn
<1>3. MaxOf["regions"] = MaxRegions /\ MaxOf["fragments"] = MaxNackFragments
  BY DEF MaxOf
<1>4. CASE m.kind = "DesktopUpdate"
  <2>1. /\ 6 \in 1..Len(fields) /\ fields[6][1] = "regions" /\ fields[6][2] = "regions"
        /\ \A n \in 1..Len(fields) : fields[n][2] \in Lists => n = 6
    BY <1>4, ListsOfKinds
  <2>2. CountsAreLegal(m) <=> Len(m.regions) \in 1..MaxRegions
    BY <1>4 DEF CountsAreLegal
  <2> HIDE DEF fields
  <2>3. AllReadable(fields, m) <=> Len(m["regions"]) \in 1..MaxOf["regions"]
    BY <1>2, <2>1 DEF AllReadable, Readable, Lists
  <2> QED
    BY <1>3, <2>2, <2>3 DEF fields
<1>5. CASE m.kind = "MediaNack"
  <2>1. /\ 2 \in 1..Len(fields) /\ fields[2][1] = "missing_fragments" /\ fields[2][2] = "fragments"
        /\ \A n \in 1..Len(fields) : fields[n][2] \in Lists => n = 2
    BY <1>5, ListsOfKinds
  <2>2. CountsAreLegal(m) <=> Len(m.missing_fragments) \in 1..MaxNackFragments
    BY <1>5 DEF CountsAreLegal
  <2> HIDE DEF fields
  <2>3. AllReadable(fields, m) <=> Len(m["missing_fragments"]) \in 1..MaxOf["fragments"]
    BY <1>2, <2>1 DEF AllReadable, Readable, Lists
  <2> QED
    BY <1>3, <2>2, <2>3 DEF fields
<1>6. CASE m.kind \notin {"DesktopUpdate", "MediaNack"}
  <2>1. \A n \in 1..Len(fields) : fields[n][2] \notin Lists
    BY <1>6, KindFacts
  <2> HIDE DEF fields
  <2>2. AllReadable(fields, m) /\ CountsAreLegal(m)
    BY <1>6, <2>1 DEF AllReadable, Readable, CountsAreLegal
  <2> QED
    BY <2>2 DEF fields
<1> QED
  BY <1>4, <1>5, <1>6

(***************************************************************************)
(* Messages                                                                *)
(***************************************************************************)
LEMMA PrefixMeans ==
  ASSUME NEW S, NEW s \in Seq(S), NEW t \in Seq(S)
  PROVE  IsPrefix(s, t) <=> Len(s) <= Len(t) /\ \A i \in 1..Len(s) : s[i] = t[i]
<1> DEFINE k == Len(s)
           u == SubSeq(t, 1, k)
<1>1. k \in Nat /\ Len(t) \in Nat /\ SubSeq(s, 1, k) = s
  BY LenProperties, SubSeqFull
<1>2. CASE k <= Len(t)
  <2>1. \A i \in 1..k : t[i] \in S
    BY <1>1, <1>2, ElementOfSeq
  <2>2. u \in Seq(S) /\ Len(u) = k /\ \A i \in 1..k : u[i] = t[i]
    <3>1. /\ u \in Seq(S) /\ Len(u) = IF 1 <= k THEN k - 1 + 1 ELSE 0
          /\ \A i \in 1..k - 1 + 1 : u[i] = t[1 + i - 1]
      BY <1>1, <2>1, SubSeqProperties
    <3> QED
      BY <1>1, <3>1
  <2> HIDE DEF u
  <2>3. s = u <=> \A i \in 1..k : s[i] = t[i]
    BY <1>1, <2>2, SeqEqual
  <2> QED
    BY <1>1, <1>2, <2>3 DEF IsPrefix, u
<1>3. CASE ~(k <= Len(t))
  BY <1>3 DEF IsPrefix
<1> QED
  BY <1>2, <1>3

\* No other message starts with the same bytes.
LEMMA RowIsFound ==
  ASSUME NEW kind \in Kinds, NEW input \in Seq(Digit), IsPrefix(Encoding[kind][1], input)
  PROVE  { row \in Decoding : IsPrefix(row[1], input) } = {RowOf(kind)}
<1>1. RowOf(kind) \in Decoding /\ RowOf(kind)[1] = Encoding[kind][1]
  BY RowsAreDecoded DEF RowOf
<1>2. ASSUME NEW row \in Decoding, IsPrefix(row[1], input) PROVE row = RowOf(kind)
  <2> DEFINE other == row[2]
             a == Encoding[kind][1]
             b == Encoding[other][1]
  <2>1. other \in Kinds /\ row = RowOf(other) /\ row[1] = b
    BY DecodedAreRows DEF RowOf
  <2>2. a \in Seq(Digit) /\ Len(a) \in {1, 2} /\ b \in Seq(Digit) /\ Len(b) \in {1, 2}
    BY <2>1, KindFacts
  <2>3. IsPrefix(a, input) /\ IsPrefix(b, input)
    BY <1>2, <2>1
  <2> HIDE DEF a, b, other
  <2>4. /\ \A i \in 1..Len(a) : a[i] = input[i]
        /\ \A i \in 1..Len(b) : b[i] = input[i]
    BY <2>2, <2>3, PrefixMeans
  <2>5. a[1] = b[1] /\ (Len(a) = 1 \/ Len(b) = 1 \/ a[2] = b[2])
    BY <2>2, <2>4
  <2>6. kind = other
    BY <2>1, <2>5, TagsAreApart DEF a, b
  <2> QED
    BY <2>1, <2>6
<1> QED
  BY <1>1, <1>2

\* What decode makes of an input that starts with the tag of a kind.
Decoded(kind, input) ==
  LET read == ReadAll(FieldReads(Encoding[kind][2], input), Len(Encoding[kind][1]))
  IN  IF read = Failed THEN Failed ELSE Message(RowOf(kind), read[1], input)

LEMMA DecodeEquation ==
  ASSUME NEW kind \in Kinds, NEW input \in Seq(Digit), IsPrefix(Encoding[kind][1], input)
  PROVE  Decode(input) = IF Len(input) \in 1..MaxMessageSize THEN Decoded(kind, input) ELSE Failed
<1> DEFINE rows == { row \in Decoding : IsPrefix(row[1], input) }
           picked == CHOOSE r \in rows : TRUE
           Of(row) == LET read == ReadAll(FieldReads(row[3], input), Len(row[1]))
                      IN  IF read = Failed THEN Failed ELSE Message(row, read[1], input)
<1>1. rows = {RowOf(kind)}
  BY RowIsFound
<1>2. Decode(input) = IF Len(input) \notin 1..MaxMessageSize THEN Failed
                      ELSE IF rows = {} THEN Failed ELSE Of(picked)
  BY Zenon DEF Decode, FieldReads
<1>3. Of(RowOf(kind)) = Decoded(kind, input)
  BY DEF RowOf, Decoded
<1> HIDE DEF rows, Of
<1>4. picked = RowOf(kind) /\ rows # {}
  BY <1>1
<1> QED
  BY <1>2, <1>3, <1>4

LEMMA LaidParts ==
  ASSUME NEW m, IsMessage(m)
  PROVE  /\ m.kind \in Kinds
         /\ AreValues(Encoding[m.kind][2], m)
         /\ Laid(m) = Encoding[m.kind][1] \o PutFields(Encoding[m.kind][2], m)
         /\ PutFields(Encoding[m.kind][2], m) \in Seq(Digit)
         /\ Laid(m) \in Seq(Digit) /\ Len(Laid(m)) \in Nat
         /\ Len(Laid(m)) = Len(Encoding[m.kind][1]) + Len(PutFields(Encoding[m.kind][2], m))
         /\ m = MessageOf(m.kind, Encoding[m.kind][2], ValuesIn(Encoding[m.kind][2], m))
<1> DEFINE fields == Encoding[m.kind][2]
           tag == Encoding[m.kind][1]
           body == PutFields(fields, m)
<1>1. /\ m.kind \in Kinds /\ m = MessageOf(m.kind, fields, ValuesIn(fields, m))
      /\ \A f \in Range(fields) : IsValue(f[2], m[f[1]])
  BY DEF IsMessage, Kinds
<1>2. IsTable(fields, ValueTypes) /\ tag \in Seq(Digit)
  BY <1>1, KindFacts
<1>3. Laid(m) = tag \o body
  BY DEF Laid, PutFields
<1> HIDE DEF fields, tag
<1>4. AreValues(fields, m)
  <2>1. DOMAIN fields = 1..Len(fields)
    BY <1>2 DEF IsTable
  <2>2. ASSUME NEW n \in 1..Len(fields) PROVE IsValue(fields[n][2], ValuesIn(fields, m)[n])
    <3>1. fields[n] \in Range(fields) /\ ValuesIn(fields, m)[n] = m[fields[n][1]]
      BY <2>1 DEF Range, ValuesIn
    <3> QED
      BY <1>1, <3>1
  <2> QED
    BY <2>2 DEF AreValues
<1>5. body \in Seq(Digit)
  BY <1>2, <1>4, PutFieldsIsDigits
<1> HIDE DEF body
<1>6. Laid(m) \in Seq(Digit) /\ Len(Laid(m)) \in Nat /\ Len(Laid(m)) = Len(tag) + Len(body)
  BY <1>2, <1>3, <1>5, Joined
<1> QED
  BY <1>1, <1>3, <1>4, <1>5, <1>6 DEF fields, tag, body

\* What decode reads behind the tag, in the bytes of a message and in bytes that start
\* with them.
LEMMA ReadBehindTag ==
  ASSUME NEW m, IsMessage(m), NEW input \in Seq(Digit), IsPrefix(Laid(m), input)
  PROVE  /\ IsPrefix(Encoding[m.kind][1], input)
         /\ ReadAll(FieldReads(Encoding[m.kind][2], input), Len(Encoding[m.kind][1])) =
              IF CountsAreLegal(m)
              THEN Ok([value |-> ValuesIn(Encoding[m.kind][2], m), at |-> Len(Laid(m))]) ELSE Failed
<1> DEFINE fields == Encoding[m.kind][2]
           tag == Encoding[m.kind][1]
           body == PutFields(fields, m)
           laid == Laid(m)
<1>1. /\ m.kind \in Kinds /\ AreValues(fields, m) /\ laid = tag \o body
      /\ body \in Seq(Digit) /\ laid \in Seq(Digit) /\ Len(laid) = Len(tag) + Len(body)
  BY LaidParts
<1>2. tag \in Seq(Digit) /\ Len(tag) \in Nat /\ IsTable(fields, ValueTypes) /\ Len(input) \in Nat
      /\ Len(body) \in Nat
  BY <1>1, KindFacts, LenProperties
<1>3. CountsAreLegal(m) <=> AllReadable(fields, m)
  BY <1>1, LegalIsReadable
<1>10. IsPrefix(laid, input) /\ laid \in Seq(Digit) /\ input \in Seq(Digit)
  BY <1>1
<1> HIDE DEF fields, tag, body, laid
<1>4. Len(laid) <= Len(input) /\ \A i \in 1..Len(laid) : input[i] = laid[i]
  BY <1>10, PrefixMeans
<1>5. /\ \A i \in 1..Len(tag) : i \in 1..Len(laid) /\ laid[i] = tag[i]
      /\ \A i \in 1..Len(body) : Len(tag) + i \in 1..Len(laid) /\ laid[Len(tag) + i] = body[i]
  BY <1>1, <1>2, Joined
<1>6. Len(tag) <= Len(input) /\ \A i \in 1..Len(tag) : tag[i] = input[i]
  BY <1>1, <1>2, <1>4, <1>5
<1>7. IsPrefix(tag, input)
  BY <1>2, <1>6, PrefixMeans
<1>8. At(input, Len(tag), body)
  BY <1>1, <1>2, <1>4, <1>5 DEF At
<1>9. ReadAll(FieldReads(fields, input), Len(tag)) =
        IF AllReadable(fields, m)
        THEN Ok([value |-> ValuesIn(fields, m), at |-> Len(tag) + Len(body)]) ELSE Failed
  BY <1>1, <1>2, <1>8, ReadFieldsAt DEF body
<1> QED
  BY <1>1, <1>3, <1>7, <1>9 DEF fields, tag, laid

LEMMA MessageEquation ==
  ASSUME NEW m, IsMessage(m), NEW at, NEW input
  PROVE  Message(RowOf(m.kind), [value |-> ValuesIn(Encoding[m.kind][2], m), at |-> at], input) =
           IF at = Len(input) THEN Ok(m) ELSE Failed
<1>1. m = MessageOf(m.kind, Encoding[m.kind][2], ValuesIn(Encoding[m.kind][2], m))
  BY LaidParts
<1>2. RowOf(m.kind)[2] = m.kind /\ RowOf(m.kind)[3] = Encoding[m.kind][2]
  BY DEF RowOf
<1> QED
  BY <1>1, <1>2, Zenon DEF Message

LEMMA EncodeEquation ==
  \A m : Encode(m) = IF CountsAreLegal(m) /\ Len(Laid(m)) <= MaxMessageSize THEN Ok(Laid(m)) ELSE Failed
BY DEF Encode

LEMMA PrefixOfItself ==
  ASSUME NEW S, NEW s \in Seq(S)
  PROVE  IsPrefix(s, s)
BY PrefixMeans, LenProperties

\* The bytes of a message.
LEMMA WholeIsDecoded ==
  ASSUME NEW m, IsMessage(m)
  PROVE  Decode(Laid(m)) = IF Encode(m) = Ok(Laid(m)) THEN Ok(m) ELSE Failed
<1> DEFINE laid == Laid(m)
           kind == m.kind
           read == ReadAll(FieldReads(Encoding[kind][2], laid), Len(Encoding[kind][1]))
           r == [value |-> ValuesIn(Encoding[kind][2], m), at |-> Len(laid)]
<1>1. kind \in Kinds /\ laid \in Seq(Digit) /\ Len(laid) \in Nat /\ Len(laid) >= 1
  <2>1. /\ kind \in Kinds /\ laid \in Seq(Digit) /\ Len(laid) \in Nat
        /\ Len(laid) = Len(Encoding[kind][1]) + Len(PutFields(Encoding[kind][2], m))
        /\ PutFields(Encoding[kind][2], m) \in Seq(Digit)
    BY LaidParts
  <2>2. Len(Encoding[kind][1]) \in {1, 2}
    BY <2>1, KindFacts
  <2> DEFINE a == Len(Encoding[kind][1])
             b == Len(PutFields(Encoding[kind][2], m))
  <2>3. b \in Nat
    BY <2>1, LenProperties
  <2>4. Len(laid) = a + b /\ a \in {1, 2}
    BY <2>1, <2>2
  <2> HIDE DEF laid, kind, a, b
  <2>5. Len(laid) >= 1
    BY <2>3, <2>4
  <2> QED
    BY <2>1, <2>5
<1>2. /\ IsPrefix(Encoding[kind][1], laid)
      /\ read = IF CountsAreLegal(m) THEN Ok(r) ELSE Failed
  <2>1. IsPrefix(laid, laid)
    BY <1>1, PrefixOfItself
  <2> QED
    BY <1>1, <2>1, ReadBehindTag
<1>3. Decode(laid) = IF Len(laid) \in 1..MaxMessageSize THEN Decoded(kind, laid) ELSE Failed
  BY <1>1, <1>2, DecodeEquation
<1>4. Decoded(kind, laid) = IF read = Failed THEN Failed ELSE Message(RowOf(kind), read[1], laid)
  BY DEF Decoded
<1>5. Message(RowOf(kind), r, laid) = Ok(m)
  BY MessageEquation
<1>6. MaxMessageSize \in Int
  <2>1. MaxMessageSize \in 1..Capacity[Width.u32] - 1
    BY WireAssumption
  <2> QED
    BY <2>1
<1> HIDE DEF read, r, kind, laid
<1>7. Decoded(kind, laid) = IF CountsAreLegal(m) THEN Ok(m) ELSE Failed
  BY <1>2, <1>4, <1>5, ResultFacts
<1>8. Len(laid) \in 1..MaxMessageSize <=> Len(laid) <= MaxMessageSize
  BY <1>1, <1>6
<1>9. Encode(m) = IF CountsAreLegal(m) /\ Len(laid) <= MaxMessageSize THEN Ok(laid) ELSE Failed
  BY EncodeEquation DEF laid
<1>10. Decode(laid) = IF Encode(m) = Ok(laid) THEN Ok(m) ELSE Failed
  BY <1>3, <1>7, <1>8, <1>9, ResultFacts
<1> QED
  BY <1>10 DEF laid

\* The bytes of a message whose end was lost.
LEMMA CutIsNotDecoded ==
  ASSUME NEW m, IsMessage(m), NEW n \in 0..Len(Laid(m)), n # Len(Laid(m))
  PROVE  Decode(Cut(Laid(m), n)) = Failed
<1> DEFINE laid == Laid(m)
           kind == m.kind
           tag == Encoding[kind][1]
           fields == Encoding[kind][2]
           c == Cut(laid, n)
<1>1. kind \in Kinds /\ laid \in Seq(Digit) /\ Len(laid) \in Nat /\ n \in 0..Len(laid) /\ n < Len(laid)
  <2>1. kind \in Kinds /\ laid \in Seq(Digit) /\ Len(laid) \in Nat
    BY LaidParts
  <2> QED
    BY <2>1
<1>2. tag \in Seq(Digit) /\ Len(tag) \in {1, 2} /\ IsTable(fields, ValueTypes)
  BY <1>1, KindFacts
<1>3. /\ IsPrefix(tag, laid)
      /\ ReadAll(FieldReads(fields, laid), Len(tag)) =
           IF CountsAreLegal(m) THEN Ok([value |-> ValuesIn(fields, m), at |-> Len(laid)]) ELSE Failed
  <2>1. IsPrefix(laid, laid)
    BY <1>1, PrefixOfItself
  <2> QED
    BY <1>1, <2>1, ReadBehindTag
<1> HIDE DEF fields, tag, kind, laid
<1>4. c \in Seq(Digit) /\ Len(c) = n /\ \A i \in 1..n : c[i] = laid[i]
  <2>1. c \in Seq(Digit) /\ Len(c) = n
    BY <1>1, CutIsSeq
  <2>2. \A i \in 1..n : laid[i] \in Digit
    BY <1>1, ElementOfSeq
  <2>3. \A i \in 1..n - 1 + 1 : c[i] = laid[1 + i - 1]
    BY <1>1, <2>2, SubSeqProperties DEF Cut
  <2> QED
    BY <1>1, <2>1, <2>3
<1>5. CASE \E row \in Decoding : IsPrefix(row[1], c)
  <2>1. PICK row \in Decoding : IsPrefix(row[1], c)
    BY <1>5
  <2>2. row[2] \in Kinds /\ row = RowOf(row[2]) /\ row[1] = Encoding[row[2]][1]
    BY DecodedAreRows DEF RowOf
  <2>3. row[1] \in Seq(Digit) /\ Len(row[1]) \in Nat
    BY <2>2, KindFacts, LenProperties
  <2>4. IsPrefix(row[1], laid)
    <3>1. Len(row[1]) <= n /\ \A i \in 1..Len(row[1]) : row[1][i] = c[i]
      BY <1>4, <2>1, <2>3, PrefixMeans
    <3>2. Len(row[1]) <= Len(laid) /\ \A i \in 1..Len(row[1]) : row[1][i] = laid[i]
      BY <1>1, <1>4, <2>3, <3>1
    <3> QED
      BY <1>1, <2>3, <3>2, PrefixMeans
  <2>5. row = RowOf(kind)
    <3>1. { other \in Decoding : IsPrefix(other[1], laid) } = {RowOf(kind)}
      BY <1>1, <1>3, RowIsFound DEF tag
    <3> QED
      BY <2>4, <3>1
  <2>6. IsPrefix(tag, c)
    BY <2>1, <2>5 DEF RowOf, tag
  <2>7. Len(tag) \in 0..n
    BY <1>1, <1>2, <1>4, <2>6, PrefixMeans
  <2> DEFINE part == ReadAll(FieldReads(fields, c), Len(tag))
             all == ReadAll(FieldReads(fields, laid), Len(tag))
  <2>8. SameWhenCut(part, all, Len(tag), n)
    BY <1>1, <1>2, <2>7, ReadFieldsWhenCut
  <2>9. all # Failed => all[1].at = Len(laid)
    BY <1>3, ResultFacts
  <2> HIDE DEF part, all
  <2>10. part = Failed
    <3> SUFFICES ASSUME part # Failed PROVE FALSE
      OBVIOUS
    <3>1. all = part /\ part[1].at \in Len(tag)..n
      BY <2>8 DEF SameWhenCut
    <3>2. part[1].at = Len(laid)
      BY <2>9, <3>1
    <3> QED
      BY <1>1, <1>2, <3>1, <3>2
  <2>11. Decoded(kind, c) = Failed
    BY <2>10 DEF Decoded, part, fields, tag
  <2>12. Decode(c) = IF Len(c) \in 1..MaxMessageSize THEN Decoded(kind, c) ELSE Failed
    BY <1>1, <1>4, <2>6, DecodeEquation DEF tag
  <2> QED
    BY <2>11, <2>12 DEF laid
<1>6. CASE ~(\E row \in Decoding : IsPrefix(row[1], c))
  <2> DEFINE rows == { row \in Decoding : IsPrefix(row[1], c) }
  <2>1. rows = {}
    BY <1>6
  <2>2. Decode(c) = Failed
    BY <2>1, Zenon DEF Decode
  <2> QED
    BY <2>2 DEF laid
<1> QED
  BY <1>5, <1>6

\* The bytes of a message and another one.
LEMMA LongerIsNotDecoded ==
  ASSUME NEW m, IsMessage(m), NEW d \in Digit
  PROVE  Decode(Append(Laid(m), d)) = Failed
<1> DEFINE laid == Laid(m)
           kind == m.kind
           input == Append(laid, d)
           read == ReadAll(FieldReads(Encoding[kind][2], input), Len(Encoding[kind][1]))
           r == [value |-> ValuesIn(Encoding[kind][2], m), at |-> Len(laid)]
<1>1. kind \in Kinds /\ laid \in Seq(Digit) /\ Len(laid) \in Nat
  BY LaidParts
<1>2. /\ input \in Seq(Digit) /\ Len(input) = Len(laid) + 1
      /\ \A i \in 1..Len(laid) : input[i] = laid[i]
  <2> HIDE DEF laid
  <2> QED
    BY <1>1, AppendProperties
<1> HIDE DEF input
<1>3. IsPrefix(laid, input)
  <2> HIDE DEF laid
  <2> QED
    BY <1>1, <1>2, PrefixMeans
<1>4. /\ IsPrefix(Encoding[kind][1], input)
      /\ read = IF CountsAreLegal(m) THEN Ok(r) ELSE Failed
  BY <1>2, <1>3, ReadBehindTag
<1>5. Decode(input) = IF Len(input) \in 1..MaxMessageSize THEN Decoded(kind, input) ELSE Failed
  BY <1>1, <1>2, <1>4, DecodeEquation
<1>6. Decoded(kind, input) = IF read = Failed THEN Failed ELSE Message(RowOf(kind), read[1], input)
  BY DEF Decoded
<1>7. Len(laid) # Len(input)
  BY <1>1, <1>2
<1>8. Message(RowOf(kind), r, input) = Failed
  BY <1>7, MessageEquation
<1> HIDE DEF read, r, kind, laid
<1>9. Decoded(kind, input) = Failed
  BY <1>4, <1>6, <1>8, ResultFacts
<1> QED
  BY <1>5, <1>9 DEF input, laid

\* Both ends of the protocol agree, whatever the message, the limits and the width of a
\* byte: WireMessage::decode returns the message whose encoding it is given if encode is
\* ready to send it, and takes neither an encoding that was cut off anywhere nor one
\* with a byte behind it.
THEOREM RoundTrip ==
  ASSUME NEW m, IsMessage(m), NEW input \in MutilationsOf(Laid(m))
  PROVE  Decode(input) = IF Encode(m) = Ok(input) THEN Ok(m) ELSE Failed
<1> DEFINE laid == Laid(m)
<1>1. laid \in Seq(Digit) /\ Len(laid) \in Nat
  BY LaidParts
<1>2. Encode(m) = Failed \/ Encode(m) = Ok(laid)
  BY EncodeEquation
<1>3. \A a, b : Ok(a) = Ok(b) => a = b
  BY DEF Ok
<1>4. \A a : Ok(a) # Failed
  BY ResultFacts
<1>5. CASE input = laid
  BY <1>5, WholeIsDecoded
<1>6. ASSUME input # laid, Decode(input) = Failed PROVE Decode(input) = IF Encode(m) = Ok(input) THEN Ok(m) ELSE Failed
  <2> HIDE DEF laid
  <2>1. Encode(m) # Ok(input)
    BY <1>2, <1>3, <1>4, <1>6
  <2> QED
    BY <1>6, <2>1
<1>7. CASE \E n \in 0..Len(laid) : input = SubSeq(laid, 1, n)
  <2>1. PICK n \in 0..Len(laid) : input = Cut(laid, n)
    BY <1>7 DEF Cut
  <2>2. CASE n = Len(laid)
    <3>1. Cut(laid, n) = laid
      BY <1>1, <2>2, CutOfWhole
    <3> QED
      BY <1>5, <2>1, <3>1
  <2>3. CASE n # Len(laid)
    <3>1. Decode(input) = Failed
      BY <2>1, <2>3, CutIsNotDecoded
    <3>2. Len(input) = n
      BY <1>1, <2>1, CutIsSeq
    <3>3. input # laid
      BY <2>3, <3>2
    <3> QED
      BY <1>6, <3>1, <3>3
  <2> QED
    BY <2>2, <2>3
<1>8. CASE input = Append(laid, 0)
  <2>1. 0 \in Digit
    BY ByteIsNat
  <2>2. Decode(input) = Failed
    BY <1>8, <2>1, LongerIsNotDecoded
  <2>3. Len(input) = Len(laid) + 1
    <3> HIDE DEF laid
    <3> QED
      BY <1>1, <1>8, <2>1, AppendProperties
  <2>4. input # laid
    BY <1>1, <2>3
  <2> QED
    BY <1>6, <2>2, <2>4
<1> QED
  BY <1>7, <1>8 DEF MutilationsOf

(***************************************************************************)
(* The messages of an instance                                             *)
(***************************************************************************)
AreLegal(fields, values) == \A n \in 1..Len(fields) : IsValue(fields[n][2], values[n])

\* A message of a kind whose fields have these values.
NamesOf(fields) == { f[1] : f \in Range(fields) } \cup {"kind"}
Holds(m, kind, fields, values) ==
  /\ m = [name \in NamesOf(fields) |-> m[name]]
  /\ m["kind"] = kind
  /\ \A n \in 1..Len(fields) : m[fields[n][1]] = values[n]

LEMMA MessageOfValues ==
  ASSUME NEW kind \in Kinds, NEW values
  PROVE  Holds(MessageOf(kind, Encoding[kind][2], values), kind, Encoding[kind][2], values)
<1> DEFINE fields == Encoding[kind][2]
           names == { f[1] : f \in Range(fields) }
           At1(name) == CHOOSE n \in DOMAIN fields : fields[n][1] = name
           m == MessageOf(kind, fields, values)
<1>1. DOMAIN fields = 1..Len(fields) /\ AreNamed(fields)
  BY KindFacts DEF IsTable
<1> HIDE DEF fields
<1>2. RecordOf(fields, values) = [name \in names |-> values[At1(name)]]
  BY DEF RecordOf
<1>3. m = [name \in names \cup {"kind"} |-> IF name = "kind" THEN kind ELSE values[At1(name)]]
  <2>1. DOMAIN RecordOf(fields, values) = names
    BY <1>2
  <2>2. m = [name \in names \cup {"kind"} |->
               IF name = "kind" THEN kind ELSE RecordOf(fields, values)[name]]
    BY <2>1, Zenon DEF MessageOf
  <2> QED
    BY <1>2, <2>2
<1>4. ASSUME NEW n \in 1..Len(fields)
      PROVE  fields[n][1] \in names /\ fields[n][1] # "kind" /\ At1(fields[n][1]) = n
  <2>1. fields[n] \in Range(fields) /\ n \in DOMAIN fields
    BY <1>1 DEF Range
  <2>2. At1(fields[n][1]) \in DOMAIN fields /\ fields[At1(fields[n][1])][1] = fields[n][1]
    BY <2>1
  <2> HIDE DEF At1
  <2> QED
    BY <1>1, <2>1, <2>2 DEF AreNamed
<1> HIDE DEF names, At1, m
<1>5. m["kind"] = kind /\ \A n \in 1..Len(fields) : m[fields[n][1]] = values[n]
  BY <1>3, <1>4
<1>6. m = [name \in names \cup {"kind"} |-> m[name]]
  BY <1>3
<1> QED
  BY <1>5, <1>6 DEF m, fields, names, Holds, NamesOf

LEMMA LegalIsMessage ==
  ASSUME NEW kind \in Kinds, NEW values, AreLegal(Encoding[kind][2], values)
  PROVE  IsMessage(MessageOf(kind, Encoding[kind][2], values))
<1> DEFINE fields == Encoding[kind][2]
           m == MessageOf(kind, fields, values)
           names == { f[1] : f \in Range(fields) }
           At1(name) == CHOOSE n \in DOMAIN fields : fields[n][1] = name
<1>1. m["kind"] = kind /\ \A n \in 1..Len(fields) : m[fields[n][1]] = values[n]
  <2>1. Holds(m, kind, fields, values)
    BY MessageOfValues
  <2> HIDE DEF fields, m
  <2> QED
    BY <2>1 DEF Holds
<1>2. DOMAIN fields = 1..Len(fields)
  BY KindFacts DEF IsTable
<1>3. \A n \in 1..Len(fields) : IsValue(fields[n][2], values[n])
  BY DEF AreLegal
<1> HIDE DEF fields, m
<1>4. \A n \in DOMAIN fields : ValuesIn(fields, m)[n] = values[n]
  BY <1>1, <1>2 DEF ValuesIn
<1>5. RecordOf(fields, ValuesIn(fields, m)) = RecordOf(fields, values)
  <2>1. ASSUME NEW name \in names PROVE ValuesIn(fields, m)[At1(name)] = values[At1(name)]
    <3>1. PICK n \in DOMAIN fields : fields[n][1] = name
      BY DEF Range
    <3>2. At1(name) \in DOMAIN fields
      BY <3>1
    <3> QED
      BY <1>4, <3>2
  <2> HIDE DEF At1, names
  <2>2. [name \in names |-> ValuesIn(fields, m)[At1(name)]] = [name \in names |-> values[At1(name)]]
    BY <2>1
  <2> QED
    BY <2>2 DEF RecordOf, At1, names
<1>6. m = MessageOf(kind, fields, ValuesIn(fields, m))
  <2>1. m = MessageOf(kind, fields, values)
    BY DEF m
  <2> QED
    BY <1>5, <2>1, Zenon DEF MessageOf
<1>7. ASSUME NEW f \in Range(fields) PROVE IsValue(f[2], m[f[1]])
  <2>1. PICK n \in 1..Len(fields) : f = fields[n]
    BY <1>2 DEF Range
  <2> QED
    BY <1>1, <1>3, <2>1
<1>8. m.kind = kind /\ m.kind \in DOMAIN Encoding
  BY <1>1 DEF Kinds
<1>9. IsMessage(m)
  BY <1>6, <1>7, <1>8 DEF IsMessage, fields
<1> QED
  BY <1>9 DEF m, fields

LEMMA MessagesAreMessages == \A m \in Messages \cup Followers : IsMessage(m)
<1> SUFFICES ASSUME NEW kind \in Kinds, NEW m \in MessagesOf(kind) PROVE IsMessage(m)
  BY FollowersAssumption DEF Messages, Kinds
<1> DEFINE fields == Encoding[kind][2]
           firsts == [n \in DOMAIN fields |-> Sample[fields[n][2]][1]]
           first == FirstOf(kind)
<1>1. DOMAIN fields = 1..Len(fields) /\ AreNamed(fields)
  BY KindFacts DEF IsTable
<1>2. \A f \in Range(fields) : /\ 1 \in DOMAIN Sample[f[2]]
                               /\ \A v \in Range(Sample[f[2]]) : IsValue(f[2], v)
  BY WireAssumption DEF Kinds
<1>3. first = MessageOf(kind, fields, firsts)
  BY DEF FirstOf
<1>4. AreLegal(fields, firsts)
  <2>1. ASSUME NEW n \in 1..Len(fields) PROVE IsValue(fields[n][2], firsts[n])
    <3>1. fields[n] \in Range(fields) /\ firsts[n] = Sample[fields[n][2]][1]
      BY <1>1 DEF Range
    <3>2. Sample[fields[n][2]][1] \in Range(Sample[fields[n][2]])
      BY <1>2, <3>1 DEF Range
    <3> QED
      BY <1>2, <3>1, <3>2
  <2> QED
    BY <2>1 DEF AreLegal
<1>5. CASE m = first
  <2> HIDE DEF firsts
  <2> QED
    BY <1>3, <1>4, <1>5, LegalIsMessage
<1>6. CASE \E f \in Range(fields) : \E v \in Range(Sample[f[2]]) : m = [first EXCEPT ![f[1]] = v]
  <2>1. PICK f \in Range(fields) : \E v \in Range(Sample[f[2]]) : m = [first EXCEPT ![f[1]] = v]
    BY <1>6
  <2>2. PICK v \in Range(Sample[f[2]]) : m = [first EXCEPT ![f[1]] = v]
    BY <2>1
  <2>3. PICK k \in 1..Len(fields) : f = fields[k]
    BY <1>1 DEF Range
  <2> DEFINE values == [firsts EXCEPT ![k] = v]
             other == MessageOf(kind, fields, values)
             names == NamesOf(fields)
  <2>4. DOMAIN firsts = 1..Len(fields)
    BY <1>1
  <2>5. AreLegal(fields, values)
    <3>1. IsValue(fields[k][2], v)
      BY <1>2, <2>2, <2>3
    <3> HIDE DEF firsts
    <3> QED
      BY <1>4, <2>4, <3>1 DEF AreLegal
  <2> HIDE DEF firsts
  <2>6. \A n \in 1..Len(fields) : values[n] = IF n = k THEN v ELSE firsts[n]
    BY <2>4
  <2> HIDE DEF values
  <2>7. /\ first = [name \in names |-> first[name]] /\ first["kind"] = kind
        /\ \A n \in 1..Len(fields) : first[fields[n][1]] = firsts[n]
    BY <1>3, MessageOfValues DEF Holds
  <2>8. /\ other = [name \in names |-> other[name]] /\ other["kind"] = kind
        /\ \A n \in 1..Len(fields) : other[fields[n][1]] = values[n]
    BY MessageOfValues DEF Holds
  <2> HIDE DEF fields, first, other
  <2>9. ASSUME NEW name \in names PROVE m[name] = other[name]
    <3>1. m[name] = IF name = f[1] THEN v ELSE first[name]
      BY <2>2, <2>7
    <3>2. CASE name = "kind"
      <4>1. f[1] # "kind"
        BY <1>1, <2>3 DEF AreNamed
      <4> QED
        BY <2>7, <2>8, <3>1, <3>2, <4>1
    <3>3. CASE name # "kind"
      <4>1. PICK n \in 1..Len(fields) : name = fields[n][1]
        BY <1>1, <3>3 DEF Range, NamesOf
      <4>2. name = f[1] <=> n = k
        BY <1>1, <2>3, <4>1 DEF AreNamed
      <4> QED
        BY <2>6, <2>7, <2>8, <3>1, <4>1, <4>2
    <3> QED
      BY <3>2, <3>3
  <2>10. m = [name \in names |-> m[name]]
    BY <2>2, <2>7
  <2>11. m = other
    <3> HIDE DEF names
    <3>1. [name \in names |-> m[name]] = [name \in names |-> other[name]]
      BY <2>9
    <3> QED
      BY <2>8, <2>10, <3>1
  <2> QED
    BY <2>5, <2>11, LegalIsMessage DEF fields, other
<1>7. MessagesOf(kind) = {first} \cup UNION { Others(kind, f) : f \in Range(fields) }
  BY DEF MessagesOf
<1>8. m = first \/ \E f \in Range(fields) : m \in Others(kind, f)
  <2> HIDE DEF first, fields
  <2> QED
    BY <1>7
<1>9. \A f \in Range(fields) : m \in Others(kind, f) =>
        \E v \in Range(Sample[f[2]]) : m = [first EXCEPT ![f[1]] = v]
  BY DEF Others
<1> HIDE DEF first, fields
<1> QED
  BY <1>5, <1>6, <1>8, <1>9

(***************************************************************************)
(* The stream                                                              *)
(***************************************************************************)
Offers == Messages \cup Followers

LEMMA OffersAreMessages == \A m \in Offers : IsMessage(m)
BY MessagesAreMessages DEF Offers

\* A message on the stream: its length, and its bytes.
LEMMA FrameParts ==
  ASSUME NEW m, IsMessage(m), Encode(m) # Failed
  PROVE  /\ Encode(m) = Ok(Laid(m)) /\ Decode(Laid(m)) = Ok(m)
         /\ Laid(m) \in Seq(Digit) /\ Len(Laid(m)) \in 1..MaxMessageSize
         /\ Framed(m) = BigEndian(4, Len(Laid(m))) \o Laid(m)
         /\ BigEndian(4, Len(Laid(m))) \in Seq(Digit) /\ Len(BigEndian(4, Len(Laid(m)))) = 4
         /\ Number(BigEndian(4, Len(Laid(m)))) = Len(Laid(m))
         /\ Framed(m) \in Seq(Digit) /\ Len(Framed(m)) = 4 + Len(Laid(m))
<1> DEFINE laid == Laid(m)
           n == Len(laid)
           a == BigEndian(4, n)
<1>1. Encode(m) = Ok(laid) /\ n <= MaxMessageSize
  BY EncodeEquation
<1>2. laid \in Seq(Digit) /\ n \in Nat
  BY LaidParts
<1>3. Decode(laid) = Ok(m)
  BY <1>1, WholeIsDecoded
<1>4. Width.u32 = 4 /\ MaxMessageSize \in 1..Capacity[4] - 1 /\ Capacity[4] \in Nat
  BY WireAssumption, CapacityFacts DEF Width
<1>5. n >= 1
  <2>1. Decode(laid) # Failed
    BY <1>3, ResultFacts
  <2> HIDE DEF laid, n
  <2>2. n \in 1..MaxMessageSize
    BY <2>1 DEF Decode, n
  <2> QED
    BY <2>2
<1>6. n \in 1..MaxMessageSize /\ n \in 0..Capacity[4] - 1
  BY <1>1, <1>2, <1>4, <1>5
<1>7. Framed(m) = a \o laid
  BY <1>1, <1>4, ResultFacts DEF Framed
<1> HIDE DEF laid, n
<1>8. a \in Seq(Digit) /\ Len(a) = 4 /\ Number(a) = n
  <2>1. Number(a) = n
    BY <1>6, NumberOfBigEndian
  <2>2. a \in Seq(Digit) /\ Len(a) = 4
    BY <1>2, BigEndianIsDigits
  <2> QED
    BY <2>1, <2>2
<1>10. laid \in Seq(Digit) /\ Len(laid) = n
  BY <1>2 DEF n
<1> HIDE DEF a
<1>9. Framed(m) \in Seq(Digit) /\ Len(Framed(m)) = 4 + n
  <2>1. a \o laid \in Seq(Digit) /\ Len(a \o laid) = Len(a) + Len(laid)
    BY <1>8, <1>10, JoinedLength
  <2> QED
    BY <1>7, <1>8, <1>10, <2>1
<1> QED
  BY <1>1, <1>2, <1>3, <1>6, <1>7, <1>8, <1>9 DEF laid, n, a

\* Of the messages s the first r were received: bs starts with what is left of the
\* others, off[k] being the place where the k-th ends.  All of it is there if whole.
Underway(off, bs, s, r, whole) ==
  /\ off \in [r..Len(s) -> Nat] /\ off[r] = 0
  /\ \A k \in r + 1..Len(s) :
       /\ off[k] = off[k - 1] + Len(Framed(s[k]))
       /\ \A j \in 1..Len(Framed(s[k])) :
            off[k - 1] + j <= Len(bs) => bs[off[k - 1] + j] = Framed(s[k])[j]
  /\ \A i, j \in r..Len(s) : i <= j => off[i] <= off[j]
  /\ Len(bs) <= off[Len(s)]
  /\ whole => Len(bs) = off[Len(s)]

Types ==
  /\ bytes \in Seq(Digit) /\ link \in BOOLEAN /\ receiver \in {"open", "failed"}
  /\ sent \in Seq(Offers) /\ received \in Seq(Offers)
  /\ offered = <<>> \/ \E m \in Offers : offered = <<m>>
  /\ Len(sent) <= 2

StreamInv ==
  /\ Types
  /\ \A k \in 1..Len(sent) : Encode(sent[k]) # Failed
  /\ Len(received) <= Len(sent)
  /\ \A k \in 1..Len(received) : received[k] = sent[k]
  /\ receiver = "failed" => ~link
  /\ \E off : Underway(off, bytes, sent, Len(received), link)

LEMMA InitStream == Init => StreamInv
<1> SUFFICES ASSUME Init PROVE StreamInv
  OBVIOUS
<1>1. bytes = <<>> /\ link = TRUE /\ offered = <<>> /\ sent = <<>> /\ received = <<>> /\ receiver = "open"
  BY DEF Init
<1>2. Types
  BY <1>1 DEF Types
<1> DEFINE off == [k \in 0..0 |-> 0]
<1>3. Underway(off, bytes, sent, Len(received), link)
  BY <1>1 DEF Underway
<1> QED
  BY <1>1, <1>2, <1>3 DEF StreamInv

\* What stands at the front, as far as it has come.
LEMMA FrontOf ==
  ASSUME NEW off, NEW bs \in Seq(Digit), NEW s \in Seq(Offers), NEW r \in Nat, r <= Len(s), NEW whole,
         Underway(off, bs, s, r, whole), \A k \in 1..Len(s) : Encode(s[k]) # Failed,
         Len(bs) >= 4
  PROVE  /\ r + 1 \in 1..Len(s) /\ off[r + 1] = 4 + Len(Laid(s[r + 1]))
         /\ Number(SubSeq(bs, 1, 4)) = Len(Laid(s[r + 1]))
         /\ Len(Laid(s[r + 1])) \in 1..MaxMessageSize
         /\ Len(bs) >= 4 + Len(Laid(s[r + 1])) =>
              SubSeq(bs, 4 + 1, 4 + Len(Laid(s[r + 1]))) = Laid(s[r + 1])
<1> DEFINE m == s[r + 1]
           laid == Laid(m)
           n == Len(laid)
           a == BigEndian(4, n)
           frame == Framed(m)
<1>1. Len(s) \in Nat /\ Len(bs) \in Nat
  BY LenProperties
<1>2. r < Len(s)
  <2> SUFFICES ASSUME r = Len(s) PROVE FALSE
    BY <1>1
  <2>1. Len(bs) <= off[Len(s)] /\ off[r] = 0
    BY DEF Underway
  <2> QED
    BY <1>1, <2>1
<1>3. r + 1 \in 1..Len(s) /\ r + 1 \in r + 1..Len(s) /\ (r + 1) - 1 = r
  BY <1>1, <1>2
<1>4. /\ off[r] = 0
      /\ off[r + 1] = off[r] + Len(frame)
      /\ \A j \in 1..Len(frame) : off[r] + j <= Len(bs) => bs[off[r] + j] = frame[j]
  BY <1>3 DEF Underway
<1>5. m \in Offers /\ Encode(m) # Failed
  BY <1>3, ElementOfSeq
<1>6. /\ laid \in Seq(Digit) /\ n \in 1..MaxMessageSize /\ a \in Seq(Digit) /\ Len(a) = 4
      /\ frame = a \o laid /\ Number(a) = n /\ Len(frame) = 4 + n /\ MaxMessageSize \in Int
  <2>1. IsMessage(m)
    BY <1>5, OffersAreMessages
  <2>2. MaxMessageSize \in 1..Capacity[Width.u32] - 1
    BY WireAssumption
  <2> HIDE DEF m
  <2> QED
    BY <1>5, <2>1, <2>2, FrameParts
<1> HIDE DEF m, laid, n, a, frame
<1>7. n \in Nat /\ n = Len(laid)
  BY <1>6 DEF n
<1>8. \A j \in 1..4 + n : j <= Len(bs) => bs[j] = frame[j]
  BY <1>4, <1>6, <1>7
<1>9. /\ \A j \in 1..4 : frame[j] = a[j]
      /\ \A j \in 1..n : frame[4 + j] = laid[j]
  <2>1. a \in Seq(Digit) /\ laid \in Seq(Digit)
    BY <1>6
  <2>2. /\ \A j \in 1..Len(a) : (a \o laid)[j] = a[j]
        /\ \A j \in 1..Len(laid) : (a \o laid)[Len(a) + j] = laid[j]
    BY <2>1, Joined
  <2> QED
    BY <1>6, <1>7, <2>2
<1>10. SubSeq(bs, 1, 4) = a
  <2> DEFINE u == SubSeq(bs, 1, 4)
  <2>1. \A j \in 1..4 : bs[j] \in Digit
    BY <1>1, ElementOfSeq
  <2>2. u \in Seq(Digit) /\ Len(u) = 4 /\ \A j \in 1..4 : u[j] = bs[j]
    <3>1. /\ u \in Seq(Digit) /\ Len(u) = IF 1 <= 4 THEN 4 - 1 + 1 ELSE 0
          /\ \A j \in 1..4 - 1 + 1 : u[j] = bs[1 + j - 1]
      BY <2>1, SubSeqProperties
    <3> QED
      BY <3>1
  <2>3. \A j \in 1..4 : u[j] = a[j]
    BY <1>1, <1>7, <1>8, <1>9, <2>2
  <2> HIDE DEF u
  <2>4. u = a
    BY <1>6, <2>2, <2>3, SeqEqual
  <2> QED
    BY <2>4 DEF u
<1>11. ASSUME Len(bs) >= 4 + n PROVE SubSeq(bs, 4 + 1, 4 + n) = laid
  <2> DEFINE u == SubSeq(bs, 4 + 1, 4 + n)
  <2>1. \A j \in 4 + 1..4 + n : bs[j] \in Digit
    BY <1>1, <1>7, <1>11, ElementOfSeq
  <2>2. u \in Seq(Digit) /\ Len(u) = n /\ \A j \in 1..n : u[j] = bs[4 + j]
    <3>1. /\ u \in Seq(Digit) /\ Len(u) = IF 4 + 1 <= 4 + n THEN 4 + n - (4 + 1) + 1 ELSE 0
          /\ \A j \in 1..4 + n - (4 + 1) + 1 : u[j] = bs[4 + 1 + j - 1]
      BY <1>7, <2>1, SubSeqProperties
    <3> QED
      BY <1>7, <3>1
  <2>3. \A j \in 1..n : u[j] = laid[j]
    BY <1>1, <1>7, <1>8, <1>9, <1>11, <2>2
  <2> HIDE DEF u
  <2>4. u = laid
    BY <1>6, <1>7, <2>2, <2>3, SeqEqual
  <2> QED
    BY <2>4 DEF u
<1>12. off[r + 1] = 4 + n
  BY <1>4, <1>6, <1>7
<1> QED
  BY <1>3, <1>6, <1>10, <1>11, <1>12 DEF n, laid, m

LEMMA SendStream == \A m \in Offers : StreamInv /\ send(m) => StreamInv'
<1> SUFFICES ASSUME NEW m \in Offers, StreamInv, send(m) PROVE StreamInv'
  OBVIOUS
<1>1. /\ link = TRUE /\ link' = link /\ received' = received /\ receiver' = receiver
      /\ offered' = <<m>> /\ bytes' = bytes \o Framed(m) /\ Len(sent) < 2
      /\ sent' = IF Encode(m) = Failed THEN sent ELSE Append(sent, m)
  BY DEF send, StreamInv, Types
<1>2. /\ bytes \in Seq(Digit) /\ sent \in Seq(Offers) /\ received \in Seq(Offers)
      /\ Len(bytes) \in Nat /\ Len(sent) \in Nat /\ Len(received) \in Nat
      /\ Len(received) <= Len(sent)
  BY LenProperties DEF StreamInv, Types
<1>3. CASE Encode(m) = Failed
  <2>1. Framed(m) = <<>>
    BY <1>3 DEF Framed
  <2>2. bytes' = bytes /\ sent' = sent
    BY <1>1, <1>2, <1>3, <2>1
  <2>3. Types'
    BY <1>1, <2>2 DEF StreamInv, Types
  <2> QED
    BY <1>1, <2>2, <2>3 DEF StreamInv
<1>4. CASE Encode(m) # Failed
  <2> DEFINE N == Len(sent)
             R == Len(received)
             frame == Framed(m)
  <2>1. frame \in Seq(Digit) /\ Len(frame) \in Nat
    BY <1>4, OffersAreMessages, FrameParts, LenProperties
  <2> HIDE DEF frame
  <2>2. /\ sent' = Append(sent, m) /\ sent' \in Seq(Offers) /\ Len(sent') = N + 1
        /\ \A k \in 1..N : sent'[k] = sent[k]
        /\ sent'[N + 1] = m
    <3>1. sent' = Append(sent, m)
      BY <1>1, <1>4
    <3> QED
      BY <1>2, <3>1, AppendProperties
  <2>3. /\ bytes' \in Seq(Digit) /\ Len(bytes') = Len(bytes) + Len(frame)
        /\ \A j \in 1..Len(bytes) : bytes'[j] = bytes[j]
        /\ \A j \in 1..Len(frame) : bytes'[Len(bytes) + j] = frame[j]
    <3>1. bytes' = bytes \o frame
      BY <1>1 DEF frame
    <3> QED
      BY <1>2, <2>1, <3>1, Joined
  <2>4. Types'
    BY <1>1, <1>2, <2>2, <2>3 DEF StreamInv, Types
  <2>5. PICK off : Underway(off, bytes, sent, R, link)
    BY DEF StreamInv
  <2>6. /\ off \in [R..N -> Nat] /\ off[R] = 0
        /\ \A k \in R + 1..N : off[k] = off[k - 1] + Len(Framed(sent[k]))
        /\ \A k \in R + 1..N : \A j \in 1..Len(Framed(sent[k])) :
             off[k - 1] + j <= Len(bytes) => bytes[off[k - 1] + j] = Framed(sent[k])[j]
        /\ \A i, j \in R..N : i <= j => off[i] <= off[j]
        /\ Len(bytes) = off[N]
    BY <1>1, <2>5 DEF Underway
  <2> HIDE DEF N, R
  <2>7. N \in Nat /\ R \in Nat /\ R <= N /\ N \in R..N /\ \A k \in R..N : off[k] \in Nat
    BY <1>2, <2>6 DEF N, R
  <2> DEFINE new == [k \in R..N + 1 |-> IF k = N + 1 THEN off[N] + Len(frame) ELSE off[k]]
  <2>8. /\ new[N + 1] = off[N] + Len(frame)
        /\ \A k \in R..N : new[k] = off[k]
        /\ new \in [R..N + 1 -> Nat]
    BY <2>1, <2>7
  <2> HIDE DEF new
  <2>9. ASSUME NEW k \in R + 1..N + 1
        PROVE  /\ new[k] = new[k - 1] + Len(Framed(sent'[k]))
               /\ \A j \in 1..Len(Framed(sent'[k])) :
                    new[k - 1] + j <= Len(bytes') => bytes'[new[k - 1] + j] = Framed(sent'[k])[j]
    <3>1. CASE k = N + 1
      <4>1. sent'[k] = m /\ new[k] = off[N] + Len(frame) /\ new[k - 1] = off[N] /\ Framed(sent'[k]) = frame
        BY <2>2, <2>7, <2>8, <3>1 DEF frame
      <4> QED
        BY <2>3, <2>6, <4>1
    <3>2. CASE k # N + 1
      <4> DEFINE f == Framed(sent[k])
      <4>1. k \in R + 1..N /\ k \in 1..N /\ k - 1 \in R..N /\ k \in R..N
        BY <2>7, <3>2
      <4>2. new[k] = off[k] /\ new[k - 1] = off[k - 1] /\ Framed(sent'[k]) = f
        BY <2>2, <2>8, <4>1 DEF N
      <4>3. /\ off[k] = off[k - 1] + Len(f)
            /\ \A j \in 1..Len(f) : off[k - 1] + j <= Len(bytes) => bytes[off[k - 1] + j] = f[j]
        BY <2>6, <4>1
      <4>4. Len(f) \in Nat
        <5>1. sent[k] \in Offers /\ Encode(sent[k]) # Failed
          BY <1>2, <4>1, ElementOfSeq DEF StreamInv, N
        <5> QED
          BY <5>1, OffersAreMessages, FrameParts, LenProperties
      <4> HIDE DEF f
      <4>5. off[k] \in Nat /\ off[k - 1] \in Nat /\ off[k] <= Len(bytes)
        BY <2>6, <2>7, <4>1
      <4>6. ASSUME NEW j \in 1..Len(f) PROVE bytes'[off[k - 1] + j] = f[j]
        <5>1. off[k - 1] + j \in 1..Len(bytes)
          BY <1>2, <4>3, <4>4, <4>5
        <5> QED
          BY <1>2, <2>3, <4>3, <5>1
      <4> QED
        BY <4>2, <4>3, <4>6
    <3> QED
      BY <3>1, <3>2
  <2>10. ASSUME NEW i \in R..N + 1, NEW j \in R..N + 1, i <= j PROVE new[i] <= new[j]
    <3>1. CASE j # N + 1
      <4>1. i \in R..N /\ j \in R..N
        BY <2>7, <2>10, <3>1
      <4> QED
        BY <2>6, <2>8, <2>10, <4>1
    <3>2. CASE i = N + 1
      <4>1. j = N + 1
        BY <2>7, <2>10, <3>2
      <4> QED
        BY <2>1, <2>7, <2>8, <3>2, <4>1
    <3>3. CASE i # N + 1 /\ j = N + 1
      <4>1. i \in R..N /\ i <= N
        BY <2>7, <3>3
      <4>2. off[i] <= off[N] /\ off[i] \in Nat /\ off[N] \in Nat
        BY <2>6, <2>7, <4>1
      <4> QED
        BY <2>1, <2>8, <3>3, <4>1, <4>2
    <3> QED
      BY <3>1, <3>2, <3>3
  <2>11. new[R] = 0 /\ Len(bytes') = new[N + 1]
    <3>1. R \in R..N
      BY <2>7
    <3> QED
      BY <2>3, <2>6, <2>8, <3>1
  <2>12. Underway(new, bytes', sent', R, link')
    <3>1. Len(bytes') <= new[N + 1]
      BY <1>2, <2>1, <2>3, <2>11
    <3> DEFINE s == sent'
               bs == bytes'
               whole == link'
    <3>2. Len(s) = N + 1 /\ Len(bs) <= new[N + 1] /\ Len(bs) = new[N + 1] /\ new[R] = 0
      BY <2>2, <2>11, <3>1
    <3>3. \A k \in R + 1..N + 1 :
            /\ new[k] = new[k - 1] + Len(Framed(s[k]))
            /\ \A j \in 1..Len(Framed(s[k])) :
                 new[k - 1] + j <= Len(bs) => bs[new[k - 1] + j] = Framed(s[k])[j]
      BY <2>9
    <3> HIDE DEF s, bs, whole
    <3>4. Underway(new, bs, s, R, whole)
      BY <2>8, <2>10, <3>2, <3>3 DEF Underway
    <3> QED
      BY <3>4 DEF s, bs, whole
  <2>13. \A k \in 1..Len(sent') : Encode(sent'[k]) # Failed
    <3>1. \A k \in 1..N : Encode(sent[k]) # Failed
      BY DEF StreamInv, N
    <3>2. \A k \in 1..N + 1 : k \in 1..N \/ k = N + 1
      BY <2>7
    <3> QED
      BY <1>4, <2>2, <3>1, <3>2 DEF N
  <2>14. Len(received') <= Len(sent') /\ \A k \in 1..Len(received') : received'[k] = sent'[k]
    <3>1. \A k \in 1..R : received[k] = sent[k] /\ k \in 1..N
      BY <2>7 DEF StreamInv, R
    <3> QED
      BY <1>1, <1>2, <2>2, <3>1 DEF R, N
  <2>15. receiver' = "failed" => ~link'
    BY <1>1 DEF StreamInv
  <2> QED
    BY <1>1, <2>4, <2>12, <2>13, <2>14, <2>15 DEF StreamInv, R
<1> QED
  BY <1>3, <1>4

LEMMA BreakStream == StreamInv /\ LinkBreaks => StreamInv'
<1> SUFFICES ASSUME StreamInv, LinkBreaks PROVE StreamInv'
  OBVIOUS
<1>1. /\ link' = FALSE /\ offered' = offered /\ sent' = sent /\ received' = received
      /\ receiver' = receiver
      /\ \E n \in 0..Len(bytes) : bytes' = SubSeq(bytes, 1, n)
  BY DEF LinkBreaks
<1>2. PICK n \in 0..Len(bytes) : bytes' = Cut(bytes, n)
  BY <1>1 DEF Cut
<1>3. bytes \in Seq(Digit) /\ sent \in Seq(Offers) /\ Len(bytes) \in Nat
  BY LenProperties DEF StreamInv, Types
<1>4. bytes' \in Seq(Digit) /\ Len(bytes') = n /\ \A i \in 1..n : bytes'[i] = bytes[i]
  <2>1. \A i \in 1..n : bytes[i] \in Digit
    BY <1>3, ElementOfSeq
  <2>2. \A i \in 1..n - 1 + 1 : SubSeq(bytes, 1, n)[i] = bytes[1 + i - 1]
    BY <1>3, <2>1, SubSeqProperties
  <2>3. Cut(bytes, n) \in Seq(Digit) /\ Len(Cut(bytes, n)) = n
    BY <1>3, CutIsSeq
  <2> QED
    BY <1>2, <1>3, <2>2, <2>3 DEF Cut
<1>5. Types'
  BY <1>1, <1>4 DEF StreamInv, Types
<1> DEFINE R == Len(received)
           N == Len(sent)
<1>6. PICK off : Underway(off, bytes, sent, R, link)
  BY DEF StreamInv
<1>7. N \in Nat /\ R \in Nat /\ R <= N
  BY LenProperties DEF StreamInv, Types
<1>8. /\ off \in [R..N -> Nat] /\ off[R] = 0
      /\ \A k \in R + 1..N :
           /\ off[k] = off[k - 1] + Len(Framed(sent[k]))
           /\ \A j \in 1..Len(Framed(sent[k])) :
                off[k - 1] + j <= Len(bytes) => bytes[off[k - 1] + j] = Framed(sent[k])[j]
      /\ \A i, j \in R..N : i <= j => off[i] <= off[j]
      /\ Len(bytes) <= off[N]
  BY <1>6 DEF Underway
<1> DEFINE bs == bytes'
<1> HIDE DEF bs, R, N
<1>9. \A k \in R + 1..N : \A j \in 1..Len(Framed(sent[k])) :
        off[k - 1] + j <= Len(bs) => bs[off[k - 1] + j] = Framed(sent[k])[j]
  <2> SUFFICES ASSUME NEW k \in R + 1..N, NEW j \in 1..Len(Framed(sent[k])), off[k - 1] + j <= Len(bs)
               PROVE  bs[off[k - 1] + j] = Framed(sent[k])[j]
    OBVIOUS
  <2>1. k - 1 \in R..N /\ off[k - 1] \in Nat
    BY <1>7, <1>8
  <2>2. off[k - 1] + j \in 1..n /\ off[k - 1] + j <= Len(bytes)
    BY <1>3, <1>4, <2>1 DEF bs
  <2>3. bytes[off[k - 1] + j] = Framed(sent[k])[j]
    BY <1>8, <2>2
  <2> QED
    BY <1>4, <2>2, <2>3 DEF bs
<1>10. Len(bs) <= off[N]
  <2>1. N \in R..N /\ off[N] \in Nat
    BY <1>7, <1>8
  <2> QED
    BY <1>3, <1>4, <1>8, <2>1 DEF bs
<1>11. Underway(off, bs, sent, R, FALSE)
  BY <1>8, <1>9, <1>10 DEF Underway, N
<1>12. Underway(off, bytes', sent', Len(received'), link')
  BY <1>1, <1>11 DEF bs, R
<1> QED
  BY <1>1, <1>5, <1>12 DEF StreamInv

LEMMA FailsStream == StreamInv /\ receive_fails => StreamInv'
<1> SUFFICES ASSUME StreamInv, receive_fails PROVE StreamInv'
  OBVIOUS
<1>1. /\ bytes' = bytes /\ link' = link /\ offered' = offered /\ sent' = sent /\ received' = received
      /\ receiver' = "failed"
  BY DEF receive_fails
<1>2. ~link
  <2> SUFFICES ASSUME PrefixIsThere, PrefixLength \notin 1..MaxMessageSize PROVE FALSE
    BY DEF receive_fails
  <2>1. Width.u32 = 4
    BY DEF Width
  <2>2. Len(bytes) >= 4
    BY <2>1 DEF PrefixIsThere
  <2>3. PICK off : Underway(off, bytes, sent, Len(received), link)
    BY DEF StreamInv
  <2>4. /\ bytes \in Seq(Digit) /\ sent \in Seq(Offers) /\ Len(received) \in Nat
        /\ Len(received) <= Len(sent) /\ \A k \in 1..Len(sent) : Encode(sent[k]) # Failed
    BY LenProperties DEF StreamInv, Types
  <2>5. /\ Number(SubSeq(bytes, 1, 4)) = Len(Laid(sent[Len(received) + 1]))
        /\ Len(Laid(sent[Len(received) + 1])) \in 1..MaxMessageSize
    BY <2>2, <2>3, <2>4, FrontOf
  <2> QED
    BY <2>1, <2>5 DEF PrefixLength
<1>3. Types'
  BY <1>1 DEF StreamInv, Types
<1> QED
  BY <1>1, <1>2, <1>3 DEF StreamInv

LEMMA ReceiveStream == StreamInv /\ receive => StreamInv'
<1> SUFFICES ASSUME StreamInv, receive PROVE StreamInv'
  OBVIOUS
<1> DEFINE R == Len(received)
           N == Len(sent)
           m == sent[R + 1]
           L == 4 + Len(Laid(m))
<1>1. /\ PrefixIsThere /\ PayloadIsThere
      /\ IF Decode(Payload) = Failed THEN receiver' = "failed" /\ received' = received
         ELSE received' = Append(received, Decode(Payload)[1]) /\ receiver' = receiver
      /\ bytes' = SubSeq(bytes, Width.u32 + PrefixLength + 1, Len(bytes))
      /\ link' = link /\ offered' = offered /\ sent' = sent /\ receiver = "open"
  BY DEF receive
<1>2. Width.u32 = 4
  BY DEF Width
<1>3. /\ bytes \in Seq(Digit) /\ sent \in Seq(Offers) /\ received \in Seq(Offers)
      /\ Len(bytes) \in Nat /\ R \in Nat /\ N \in Nat /\ R <= N
      /\ \A k \in 1..N : Encode(sent[k]) # Failed
      /\ \A k \in 1..R : received[k] = sent[k]
  BY LenProperties DEF StreamInv, Types
<1>4. PICK off : Underway(off, bytes, sent, R, link)
  BY DEF StreamInv
<1>5. Len(bytes) >= 4
  BY <1>1, <1>2 DEF PrefixIsThere
<1>6. /\ R + 1 \in 1..N /\ off[R + 1] = L
      /\ Number(SubSeq(bytes, 1, 4)) = Len(Laid(m))
      /\ Len(Laid(m)) \in 1..MaxMessageSize
      /\ Len(bytes) >= L => SubSeq(bytes, 4 + 1, L) = Laid(m)
  BY <1>3, <1>4, <1>5, FrontOf
<1>7. PrefixLength = Len(Laid(m)) /\ Len(bytes) >= L /\ Payload = Laid(m)
  BY <1>1, <1>2, <1>6 DEF PrefixLength, PayloadIsThere, Payload
<1>8. Decode(Payload) = Ok(m) /\ m \in Offers
  <2>1. m \in Offers /\ Encode(m) # Failed
    BY <1>3, <1>6, ElementOfSeq
  <2> HIDE DEF m
  <2>2. Decode(Laid(m)) = Ok(m)
    BY <2>1, OffersAreMessages, FrameParts
  <2> QED
    BY <1>7, <2>1, <2>2
<1>9. /\ received' = Append(received, m) /\ receiver' = "open"
      /\ bytes' = SubSeq(bytes, L + 1, Len(bytes))
  BY <1>1, <1>2, <1>7, <1>8, ResultFacts
<1>10. L \in Nat
  <2>1. MaxMessageSize \in 1..Capacity[Width.u32] - 1
    BY WireAssumption
  <2> QED
    BY <1>6, <2>1
<1> DEFINE bs == bytes'
           rs == received'
<1> HIDE DEF m, L, N, R
<1>11. /\ bs \in Seq(Digit) /\ Len(bs) = Len(bytes) - L
       /\ \A i \in 1..Len(bytes) - L : bs[i] = bytes[L + i]
  <2> DEFINE u == SubSeq(bytes, L + 1, Len(bytes))
  <2>1. \A i \in L + 1..Len(bytes) : bytes[i] \in Digit
    BY <1>3, <1>10, ElementOfSeq
  <2>2. /\ u \in Seq(Digit)
        /\ Len(u) = IF L + 1 <= Len(bytes) THEN Len(bytes) - (L + 1) + 1 ELSE 0
        /\ \A i \in 1..Len(bytes) - (L + 1) + 1 : u[i] = bytes[L + 1 + i - 1]
    BY <1>3, <1>10, <2>1, SubSeqProperties
  <2> HIDE DEF u
  <2>3. bs = u
    BY <1>9 DEF u
  <2> HIDE DEF bs
  <2> QED
    BY <1>3, <1>7, <1>10, <2>2, <2>3
<1>12. /\ rs \in Seq(Offers) /\ Len(rs) = R + 1
       /\ \A k \in 1..R : rs[k] = received[k]
       /\ rs[R + 1] = m
  BY <1>3, <1>8, <1>9, AppendProperties DEF R
<1>13. Types'
  BY <1>1, <1>9, <1>11, <1>12 DEF StreamInv, Types
<1>14. /\ off \in [R..N -> Nat] /\ off[R] = 0
       /\ \A k \in R + 1..N :
            /\ off[k] = off[k - 1] + Len(Framed(sent[k]))
            /\ \A j \in 1..Len(Framed(sent[k])) :
                 off[k - 1] + j <= Len(bytes) => bytes[off[k - 1] + j] = Framed(sent[k])[j]
       /\ \A i, j \in R..N : i <= j => off[i] <= off[j]
       /\ Len(bytes) <= off[N]
       /\ link => Len(bytes) = off[N]
  BY <1>4 DEF Underway, N
<1>15. \A k \in R + 1..N : off[k] \in Nat /\ off[k] >= L
  <2> SUFFICES ASSUME NEW k \in R + 1..N PROVE off[k] \in Nat /\ off[k] >= L
    OBVIOUS
  <2>1. R + 1 \in R..N /\ k \in R..N /\ R + 1 <= k
    BY <1>3, <1>6
  <2>2. off[k] \in Nat /\ off[R + 1] <= off[k]
    BY <1>14, <2>1
  <2> QED
    BY <1>6, <1>10, <2>2
<1> DEFINE new == [k \in R + 1..N |-> off[k] - L]
<1>16. new \in [R + 1..N -> Nat] /\ \A k \in R + 1..N : new[k] = off[k] - L
  BY <1>10, <1>15
<1> HIDE DEF new
<1>17. R + 1 \in R + 1..N /\ N \in R + 1..N
  BY <1>3, <1>6
<1> HIDE DEF bs, rs
<1>18. new[R + 1] = 0
  BY <1>6, <1>10, <1>16, <1>17
<1>19. ASSUME NEW k \in (R + 1) + 1..N
       PROVE  /\ new[k] = new[k - 1] + Len(Framed(sent[k]))
              /\ \A j \in 1..Len(Framed(sent[k])) :
                   new[k - 1] + j <= Len(bs) => bs[new[k - 1] + j] = Framed(sent[k])[j]
  <2> DEFINE f == Framed(sent[k])
  <2>1. k \in R + 1..N /\ k - 1 \in R + 1..N
    BY <1>3
  <2>2. /\ off[k] = off[k - 1] + Len(f)
        /\ \A j \in 1..Len(f) : off[k - 1] + j <= Len(bytes) => bytes[off[k - 1] + j] = f[j]
    BY <1>14, <2>1
  <2>3. Len(f) \in Nat
    <3>1. sent[k] \in Offers /\ Encode(sent[k]) # Failed
      <4>1. k \in 1..Len(sent)
        BY <1>3, <2>1 DEF N
      <4> QED
        BY <1>3, <4>1, ElementOfSeq DEF N
    <3> QED
      BY <3>1, OffersAreMessages, FrameParts, LenProperties
  <2> HIDE DEF f
  <2>4. new[k] = off[k] - L /\ new[k - 1] = off[k - 1] - L /\ off[k] \in Nat /\ off[k - 1] \in Nat
        /\ new[k - 1] \in Nat
    BY <1>15, <1>16, <2>1
  <2>5. ASSUME NEW j \in 1..Len(f), new[k - 1] + j <= Len(bs) PROVE bs[new[k - 1] + j] = f[j]
    <3>1. new[k - 1] + j \in 1..Len(bytes) - L
      <4>1. Len(bs) = Len(bytes) - L /\ Len(bytes) \in Nat /\ L \in Nat
        BY <1>3, <1>10, <1>11
      <4>2. j \in Nat /\ j >= 1 /\ new[k - 1] \in Nat
        BY <2>3, <2>4
      <4>3. new[k - 1] + j <= Len(bs)
        BY <2>5
      <4> QED
        BY <4>1, <4>2, <4>3
    <3>2. L + (new[k - 1] + j) = off[k - 1] + j /\ off[k - 1] + j <= Len(bytes)
      BY <1>3, <1>10, <2>3, <2>4, <3>1, SMTT(20)
    <3>3. bs[new[k - 1] + j] = bytes[L + (new[k - 1] + j)]
      BY <1>11, <3>1
    <3> QED
      BY <2>2, <3>2, <3>3
  <2>6. new[k] = new[k - 1] + Len(f)
    BY <1>10, <2>2, <2>3, <2>4
  <2> QED
    BY <2>5, <2>6 DEF f
<1>20. \A i, j \in R + 1..N : i <= j => new[i] <= new[j]
  <2> SUFFICES ASSUME NEW i \in R + 1..N, NEW j \in R + 1..N, i <= j PROVE new[i] <= new[j]
    OBVIOUS
  <2>1. i \in R..N /\ j \in R..N
    BY <1>3
  <2>2. off[i] <= off[j] /\ off[i] \in Nat /\ off[j] \in Nat
    BY <1>14, <1>15, <2>1
  <2> QED
    BY <1>10, <1>16, <2>2
<1>21. Len(bs) <= new[N] /\ (link => Len(bs) = new[N])
  <2>1. off[N] \in Nat /\ new[N] = off[N] - L
    BY <1>15, <1>16, <1>17
  <2> QED
    BY <1>3, <1>10, <1>11, <1>14, <2>1
<1>22. Underway(new, bs, sent, R + 1, link)
  BY <1>16, <1>18, <1>19, <1>20, <1>21 DEF Underway, N
<1>23. Underway(new, bytes', sent', Len(received'), link')
  BY <1>1, <1>12, <1>22 DEF bs, rs
<1>24. Len(received') <= Len(sent') /\ \A k \in 1..Len(received') : received'[k] = sent'[k]
  <2>1. Len(rs) <= N /\ \A k \in 1..Len(rs) : rs[k] = sent[k]
    <3>1. \A k \in 1..R + 1 : k \in 1..R \/ k = R + 1
      BY <1>3
    <3>2. \A k \in 1..R : rs[k] = sent[k]
      BY <1>3, <1>12
    <3>3. rs[R + 1] = sent[R + 1]
      BY <1>12 DEF m
    <3>4. Len(rs) = R + 1 /\ R + 1 <= N
      BY <1>3, <1>6, <1>12
    <3> QED
      BY <3>1, <3>2, <3>3, <3>4
  <2> QED
    BY <1>1, <2>1 DEF rs, N
<1> QED
  BY <1>1, <1>9, <1>13, <1>23, <1>24 DEF StreamInv

LEMMA NextStream == StreamInv /\ [Next]_vars => StreamInv'
<1> SUFFICES ASSUME StreamInv, [Next]_vars PROVE StreamInv'
  OBVIOUS
<1>1. ASSUME NEW m \in Messages \cup Followers, send(m) PROVE StreamInv'
  BY <1>1, SendStream DEF Offers
<1>2. CASE LinkBreaks
  BY <1>2, BreakStream
<1>3. CASE receive
  BY <1>3, ReceiveStream
<1>4. CASE receive_fails
  BY <1>4, FailsStream
<1>5. CASE UNCHANGED vars
  BY <1>5 DEF vars, StreamInv, Types
<1> QED
  BY <1>1, <1>2, <1>3, <1>4, <1>5 DEF Next

LEMMA StreamInvHolds == Spec => []StreamInv
<1> QED
  BY InitStream, NextStream, PTL DEF Spec

(***************************************************************************)
(* Encoded pictures                                                        *)
(***************************************************************************)
VideoNames ==
  {"kind", "codec", "sequence", "timestamp_millis", "keyframe", "width", "height",
   "pixel_format", "stride", "data"}

LEMMA VideoParts ==
  ASSUME NEW m, IsMessage(m), m.kind = "Video"
  PROVE  /\ m = [name \in VideoNames |-> m[name]]
         /\ m.timestamp_millis \in Nat
<1> DEFINE fields == DesktopEncoding.Video[2]
<1>1. "Video" \in Kinds /\ Encoding["Video"][2] = fields
  BY EncodingEquation, KindsOfTables
<1>2. /\ m = MessageOf("Video", fields, ValuesIn(fields, m))
      /\ \A f \in Range(fields) : IsValue(f[2], m[f[1]])
  BY <1>1 DEF IsMessage
<1>3. Holds(MessageOf("Video", fields, ValuesIn(fields, m)), "Video", fields, ValuesIn(fields, m))
  BY <1>1, MessageOfValues
<1> HIDE DEF fields
<1>4. m = [name \in NamesOf(fields) |-> m[name]]
  BY <1>2, <1>3 DEF Holds
<1>5. DOMAIN fields = 1..9
  BY DEF fields, DesktopEncoding
<1>6. NamesOf(fields) = VideoNames
  <2>1. Range(fields) = {fields[1], fields[2], fields[3], fields[4], fields[5], fields[6], fields[7],
                         fields[8], fields[9]}
    BY <1>5 DEF Range
  <2>2. /\ fields[1][1] = "codec" /\ fields[2][1] = "sequence" /\ fields[3][1] = "timestamp_millis"
        /\ fields[4][1] = "keyframe" /\ fields[5][1] = "width" /\ fields[6][1] = "height"
        /\ fields[7][1] = "pixel_format" /\ fields[8][1] = "stride" /\ fields[9][1] = "data"
    BY DEF fields, DesktopEncoding
  <2> QED
    BY <2>1, <2>2 DEF NamesOf, VideoNames
<1>7. m.timestamp_millis \in Nat
  <2>1. fields[3] \in Range(fields)
    BY <1>5 DEF Range
  <2>2. fields[3] = <<"timestamp_millis", "u64">>
    BY DEF fields, DesktopEncoding
  <2>3. IsValue("u64", m["timestamp_millis"])
    BY <1>2, <2>1, <2>2
  <2>4. IsScalar("u64", m["timestamp_millis"])
    <3>1. "u64" \notin DOMAIN ListOf
      BY DEF ListOf
    <3> QED
      BY <2>3, <3>1 DEF IsValue
  <2>5. m["timestamp_millis"] \in 0..Capacity[Width["u64"]] - 1
    BY <2>4 DEF IsScalar
  <2>6. Capacity[Width["u64"]] \in Nat
    BY CapacityEquation DEF Width
  <2> QED
    BY <2>5, <2>6
<1> QED
  BY <1>4, <1>6, <1>7

LEMMA NumbersOfKinds ==
  /\ \A n : CodecOf(n) # Failed => CodecNumber[CodecOf(n)[1]] = n
  /\ \A n : FormatOf(n) # Failed => FormatNumber[FormatOf(n)[1]] = n
<1>1. \A n : CodecOf(n) # Failed => CodecNumber[CodecOf(n)[1]] = n
  <2> SUFFICES ASSUME NEW n, CodecOf(n) # Failed PROVE CodecNumber[CodecOf(n)[1]] = n
    OBVIOUS
  <2> USE DEF CodecOf, CodecNumber, Ok
  <2>1. CASE n = 0
    BY <2>1
  <2>2. CASE n = 1
    BY <2>2
  <2>3. CASE n = 2
    BY <2>3
  <2>4. n \in {0, 1, 2}
    OBVIOUS
  <2> QED
    BY <2>1, <2>2, <2>3, <2>4
<1>2. \A n : FormatOf(n) # Failed => FormatNumber[FormatOf(n)[1]] = n
  <2> SUFFICES ASSUME NEW n, FormatOf(n) # Failed PROVE FormatNumber[FormatOf(n)[1]] = n
    OBVIOUS
  <2> USE DEF FormatOf, FormatNumber, Ok
  <2>1. CASE n = 0
    BY <2>1
  <2>2. CASE n = 1
    BY <2>2
  <2>3. CASE n = 2
    BY <2>3
  <2>4. n \in {0, 1, 2}
    OBVIOUS
  <2> QED
    BY <2>1, <2>2, <2>3, <2>4
<1> QED
  BY <1>1, <1>2

\* A packet whose time-stamp is the first or the last in the millisecond of a message is
\* sent as that message.
LEMMA PacketOfVideo ==
  ASSUME NEW m, IsMessage(m), message_to_packet(m) # Failed
  PROVE  LET p == message_to_packet(m)[1]
         IN  /\ packet_to_message(p) = m
             /\ packet_to_message([p EXCEPT !.timestamp = @ + Ticks - 1]) = m
<1> DEFINE p == message_to_packet(m)[1]
           codec == CodecOf(m.codec)[1]
           format == FormatOf(m.pixel_format)[1]
           made == [codec |-> codec, sequence |-> m.sequence,
                    timestamp |-> m.timestamp_millis * Ticks, keyframe |-> m.keyframe,
                    width |-> m.width, height |-> m.height, pixel_format |-> format,
                    stride |-> m.stride, data |-> m.data]
           later == [p EXCEPT !.timestamp = @ + Ticks - 1]
<1>1. m.kind = "Video" /\ packet_from_parts(m) = message_to_packet(m)
  BY DEF message_to_packet
<1>2. CodecOf(m.codec) # Failed /\ FormatOf(m.pixel_format) # Failed
  BY <1>1 DEF packet_from_parts
<1>3. packet_from_parts(m) = IF IsPacket(made) THEN Ok(made) ELSE Failed
  BY <1>2, Zenon DEF packet_from_parts
<1>4. p = made
  BY <1>1, <1>3, ResultFacts
<1>5. m = [name \in VideoNames |-> m[name]] /\ m.timestamp_millis \in Nat
  BY <1>1, VideoParts
<1>6. CodecNumber[codec] = m.codec /\ FormatNumber[format] = m.pixel_format
  BY <1>2, NumbersOfKinds
<1> HIDE DEF p, codec, format
<1>7. ASSUME NEW q, /\ q.codec = codec /\ q.sequence = m.sequence /\ q.keyframe = m.keyframe
                    /\ q.width = m.width /\ q.height = m.height /\ q.pixel_format = format
                    /\ q.stride = m.stride /\ q.data = m.data
                    /\ q.timestamp \div Ticks = m.timestamp_millis
      PROVE  packet_to_message(q) = m
  <2>1. packet_to_message(q) =
          [kind |-> "Video", codec |-> m.codec, sequence |-> m.sequence,
           timestamp_millis |-> m.timestamp_millis, keyframe |-> m.keyframe,
           width |-> m.width, height |-> m.height,
           pixel_format |-> m.pixel_format, stride |-> m.stride, data |-> m.data]
    BY <1>6, <1>7 DEF packet_to_message
  <2> QED
    BY <1>1, <1>5, <2>1 DEF VideoNames
<1>8. packet_to_message(p) = m
  <2>1. p.timestamp \div Ticks = m.timestamp_millis
    BY <1>4, <1>5 DEF Ticks
  <2> QED
    BY <1>4, <1>7, <2>1
<1>9. packet_to_message(later) = m
  <2>1. later.timestamp = m.timestamp_millis * Ticks + Ticks - 1
    BY <1>4
  <2>2. later.timestamp \div Ticks = m.timestamp_millis
    BY <1>5, <2>1 DEF Ticks
  <2> QED
    BY <1>4, <1>7, <2>2
<1> QED
  BY <1>8, <1>9 DEF later, p

(***************************************************************************)
(* Theorems                                                                *)
(***************************************************************************)
\* What FramedStream::send and receive keep: bytes on the stream, the messages that were
\* offered, written and received, and whether the receiver still reads.
THEOREM StreamTypes == Spec => []TypeOK
<1>1. StreamInv => TypeOK
  BY DEF StreamInv, Types, TypeOK, Offers, Digit
<1> QED
  BY <1>1, StreamInvHolds, PTL

\* FramedStream::receive returns the messages in the order in which send wrote them and
\* fails only once the connection broke, however many are under way and wherever the
\* stream was cut.
THEOREM MessagesInOrder == Spec => []ReceivedAsSent
<1>1. StreamInv => ReceivedAsSent
  <2> SUFFICES ASSUME StreamInv PROVE ReceivedAsSent
    OBVIOUS
  <2>1. /\ received \in Seq(Offers) /\ sent \in Seq(Offers) /\ Len(received) <= Len(sent)
        /\ \A k \in 1..Len(received) : received[k] = sent[k]
        /\ receiver = "failed" => ~link
    BY DEF StreamInv, Types
  <2>2. IsPrefix(received, sent)
    BY <2>1, PrefixMeans
  <2> QED
    BY <2>1, <2>2 DEF ReceivedAsSent
<1> QED
  BY <1>1, StreamInvHolds, PTL

\* Whatever is offered to send, the two ends agree about it.
THEOREM OffersAreAgreed == Spec => []EndsAgree
<1>1. StreamInv => EndsAgree
  <2> SUFFICES ASSUME StreamInv, NEW i \in DOMAIN offered,
                      NEW input \in MutilationsOf(Laid(offered[i]))
               PROVE  Decode(input) = IF Encode(offered[i]) = Ok(input) THEN Ok(offered[i]) ELSE Failed
    BY DEF EndsAgree
  <2>1. PICK m \in Offers : offered = <<m>>
    BY DEF StreamInv, Types
  <2>2. offered[i] = m
    BY <2>1
  <2>3. IsMessage(m)
    BY OffersAreMessages
  <2> QED
    BY <2>2, <2>3, RoundTrip
<1> QED
  BY <1>1, StreamInvHolds, PTL

\* What message_to_packet makes of a message that arrived goes out again as that message,
\* and so does the packet it was made from, whose time-stamp was finer.
THEOREM PacketsArrive == Spec => []PacketsSurvive
<1>1. StreamInv => PacketsSurvive
  <2> SUFFICES ASSUME StreamInv, NEW i \in DOMAIN received, message_to_packet(received[i]) # Failed
               PROVE  LET packet == message_to_packet(received[i])
                          p == packet[1]
                      IN  /\ packet_to_message(p) = received[i]
                          /\ message_to_packet(packet_to_message([p EXCEPT !.timestamp = @ + Ticks - 1]))
                               = packet
    BY DEF PacketsSurvive
  <2> DEFINE m == received[i]
             p == message_to_packet(m)[1]
  <2>1. IsMessage(m)
    <3>1. m \in Offers
      BY ElementOfSeq DEF StreamInv, Types
    <3> QED
      BY <3>1, OffersAreMessages
  <2> HIDE DEF m
  <2>2. message_to_packet(m) # Failed
    BY DEF m
  <2>3. /\ packet_to_message(p) = m
        /\ packet_to_message([p EXCEPT !.timestamp = @ + Ticks - 1]) = m
    BY <2>1, <2>2, PacketOfVideo
  <2> QED
    BY <2>3 DEF m
<1> QED
  BY <1>1, StreamInvHolds, PTL
=============================================================================
