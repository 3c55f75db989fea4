---------------------------- MODULE RegionProofs ----------------------------
EXTENDS RegionUpdate, SequenceTheorems, FiniteSetTheorems, WellFoundedInduction, TLAPS

(***************************************************************************)
(* Induction and recursion                                                 *)
(***************************************************************************)
\* A set of natural numbers has a least element: what every induction below is.
LEMMA LeastNat ==
  ASSUME NEW T \in SUBSET Nat, T # {}
  PROVE  \E n \in T : \A m \in T : n <= m
<1> DEFINE R == {ss \in Nat \X Nat : ss[1] < ss[2]}
<1>1. IsWellFoundedOn(OpToRel(<, Nat), Nat)
  BY NatLessThanWellFounded
<1>2. IsWellFoundedOn(R, Nat)
  BY <1>1 DEF OpToRel
<1>3. \A x, y \in Nat : y < x => <<y, x>> \in R
  OBVIOUS
<1> HIDE DEF R
<1>4. PICK x \in T : \A y \in T : ~ (<<y, x>> \in R)
  BY <1>2, WFMin
<1>5. \A y \in T : x <= y
  <2> TAKE y \in T
  <2>1. x \in Nat /\ y \in Nat
    OBVIOUS
  <2>2. ~(<<y, x>> \in R)
    BY <1>4
  <2>3. ~(y < x)
    BY <2>1, <2>2, <1>3
  <2> QED
    BY <2>1, <2>3
<1> QED
  BY <1>5

\* A set with 0, and with n + 1 for every n, has all numbers.
LEMMA Induction ==
  ASSUME NEW T, 0 \in T, \A n \in Nat : n \in T => n + 1 \in T
  PROVE  \A n \in Nat : n \in T
<1> SUFFICES ASSUME Nat \ T # {} PROVE FALSE
  OBVIOUS
<1>1. PICK n \in Nat \ T : \A m \in Nat \ T : n <= m
  BY LeastNat
<1>2. n - 1 \in Nat /\ n - 1 \notin Nat \ T
  BY <1>1
<1> QED
  BY <1>1, <1>2

\* A recursive definition of a function from D to S: Step takes a point and the
\* function, and looks at it only where the measure m is smaller.
Grounded(D, S, N, m, Step) ==
  /\ N \in Nat /\ m \in [D -> 0..N] /\ S # {}
  /\ Step \in [D \X [D -> S] -> S]
  /\ \A d \in D : \A g, h \in [D -> S] :
       (\A e \in D : m[e] < m[d] => g[e] = h[e]) => Step[<<d, g>>] = Step[<<d, h>>]

Solutions(D, S, Step) == {f \in [D -> S] : \A d \in D : f[d] = Step[<<d, f>>]}

LEMMA Recursion ==
  ASSUME NEW D, NEW S, NEW N, NEW m, NEW Step, Grounded(D, S, N, m, Step)
  PROVE  Solutions(D, S, Step) # {}
<1> USE DEF Grounded
<1> DEFINE Good(n) == {h \in [D -> S] : \A d \in D : m[d] < n => h[d] = Step[<<d, h>>]}
           T == {n \in Nat : Good(n) # {}}
<1>1. 0 \in T
  <2>1. PICK s \in S : TRUE
    OBVIOUS
  <2>2. [d \in D |-> s] \in Good(0)
    OBVIOUS
  <2> QED
    BY <2>2
<1>2. \A n \in Nat : n \in T => n + 1 \in T
  <2> SUFFICES ASSUME NEW n \in Nat, n \in T PROVE n + 1 \in T
    OBVIOUS
  <2>1. PICK h \in [D -> S] : \A d \in D : m[d] < n => h[d] = Step[<<d, h>>]
    OBVIOUS
  <2> DEFINE k == [d \in D |-> IF m[d] < n THEN h[d] ELSE Step[<<d, h>>]]
  <2>2. k \in [D -> S]
    OBVIOUS
  <2>3. ASSUME NEW d \in D, m[d] < n + 1 PROVE k[d] = Step[<<d, k>>]
    <3>1. \A e \in D : m[e] < m[d] => h[e] = k[e]
      BY <2>3
    <3>2. Step[<<d, h>>] = Step[<<d, k>>]
      BY <2>2, <3>1
    <3> QED
      BY <2>1, <3>2
  <2> HIDE DEF k
  <2>4. k \in Good(n + 1)
    BY <2>2, <2>3
  <2> QED
    BY <2>4
<1>3. N + 1 \in T
  <2> HIDE DEF T
  <2> QED BY <1>1, <1>2, Induction
<1>4. PICK f \in [D -> S] : \A d \in D : m[d] < N + 1 => f[d] = Step[<<d, f>>]
  BY <1>3
<1> QED
  BY <1>4 DEF Solutions

\* What holds of a point if it holds wherever the measure is smaller holds everywhere.
LEMMA MeasureInduction ==
  ASSUME NEW D, NEW P, NEW m \in [D -> Nat],
         \A d \in D : (\A e \in D : m[e] < m[d] => e \in P) => d \in P
  PROVE  \A d \in D : d \in P
<1> DEFINE T == {n \in Nat : \A d \in D : m[d] < n => d \in P}
<1>1. 0 \in T
  OBVIOUS
<1>2. \A n \in Nat : n \in T => n + 1 \in T
  OBVIOUS
<1>3. \A n \in Nat : n \in T
  <2> HIDE DEF T
  <2> QED
    BY <1>1, <1>2, Induction
<1> QED
  BY <1>3

\* FlattenSeq
LEMMA FlattenExists ==
  ASSUME NEW S, NEW seqs \in Seq(Seq(S)), seqs # <<>>
  PROVE  \E f \in [1..Len(seqs) -> Seq(S)] :
           /\ FlattenSeq(seqs) = f[Len(seqs)]
           /\ \A i \in 1..Len(seqs) : f[i] = IF i = 1 THEN seqs[i] ELSE f[i - 1] \o seqs[i]
<1> DEFINE N == Len(seqs)
           D == 1..N
           V == Seq(S)
           m == [i \in D |-> i]
           Equation(f) == f = [i \in D |-> IF i = 1 THEN seqs[i] ELSE f[i - 1] \o seqs[i]]
           F == CHOOSE f : Equation(f)
           Step == [a \in D \X [D -> V] |->
                      IF a[1] = 1 THEN seqs[a[1]] ELSE a[2][a[1] - 1] \o seqs[a[1]]]
<1>1. N \in Nat /\ N # 0 /\ (\A i \in D : seqs[i] \in V) /\ <<>> \in V
  BY EmptySeq, LenProperties
<1>2. FlattenSeq(seqs) = F[N]
  BY <1>1, Zenon DEF FlattenSeq
<1>3. m \in [D -> 0..N] /\ m \in [D -> Nat]
  BY <1>1
<1>4. \A d \in D : d # 1 => d - 1 \in D /\ m[d - 1] < m[d]
  BY <1>1
<1>5. \A v, w \in V : v \o w \in V
  BY ConcatProperties
<1> HIDE DEF N, V, D
<1>6. Step \in [D \X [D -> V] -> V]
  BY <1>1, <1>4, <1>5
<1>7. Grounded(D, V, N, m, Step)
  BY <1>1, <1>3, <1>4, <1>6 DEF Grounded
<1>8. PICK f \in [D -> V] : \A d \in D : f[d] = Step[<<d, f>>]
  <2> HIDE DEF Step, m
  <2>1. Solutions(D, V, Step) # {}
    BY <1>7, Recursion
  <2> QED
    BY <2>1 DEF Solutions
<1>9. Equation(f)
  BY <1>8
<1>10. Equation(F)
  <2> HIDE DEF Equation
  <2> QED
    BY <1>9
<1>11. F = [i \in D |-> IF i = 1 THEN seqs[i] ELSE F[i - 1] \o seqs[i]]
  BY <1>10
<1> HIDE DEF F
<1>12. \A i \in D : F[i] \in V
  <2> DEFINE P == {i \in D : F[i] \in V}
  <2>1. ASSUME NEW d \in D, \A e \in D : m[e] < m[d] => e \in P PROVE d \in P
    <3>1. F[d] = IF d = 1 THEN seqs[d] ELSE F[d - 1] \o seqs[d]
      BY <1>11
    <3>2. d # 1 => F[d - 1] \in V
      BY <1>4, <2>1
    <3> QED
      BY <1>1, <1>5, <3>1, <3>2
  <2>2. \A d \in D : d \in P
    <3> HIDE DEF P, m
    <3> QED
      BY <1>3, <2>1, MeasureInduction
  <2> QED
    BY <2>2
<1> QED
  BY <1>2, <1>11, <1>12 DEF N, D, V

LEMMA Joined ==
  ASSUME NEW S, NEW a \in Seq(S), NEW b \in Seq(S)
  PROVE  /\ a \o b \in Seq(S)
         /\ Len(a) \in Nat /\ Len(b) \in Nat /\ Len(a \o b) = Len(a) + Len(b)
         /\ \A x \in 1..Len(a) : x \in 1..Len(a \o b) /\ (a \o b)[x] = a[x]
         /\ \A x \in 1..Len(b) : Len(a) + x \in 1..Len(a \o b) /\ (a \o b)[Len(a) + x] = b[x]
         /\ \A x \in 1..Len(a \o b) : x <= Len(a) \/ (x - Len(a) \in 1..Len(b) /\ (a \o b)[x] = b[x - Len(a)])
BY ConcatProperties, LenProperties

\* What holds of the first part alone, and still holds with the next part behind, holds
\* of the whole.  R relates a number of parts to what they make up.
LEMMA FlattenInduction ==
  ASSUME NEW S, NEW seqs \in Seq(Seq(S)), seqs # <<>>, NEW R,
         <<1, seqs[1]>> \in R,
         \A k \in 2..Len(seqs) : \A s \in Seq(S) :
           <<k - 1, s>> \in R => <<k, s \o seqs[k]>> \in R
  PROVE  FlattenSeq(seqs) \in Seq(S) /\ <<Len(seqs), FlattenSeq(seqs)>> \in R
<1> DEFINE N == Len(seqs)
           D == 1..N
           m == [i \in D |-> i]
<1>1. PICK f \in [D -> Seq(S)] :
        /\ FlattenSeq(seqs) = f[N]
        /\ \A i \in D : f[i] = IF i = 1 THEN seqs[i] ELSE f[i - 1] \o seqs[i]
  BY FlattenExists
<1>2. N \in Nat /\ N # 0 /\ m \in [D -> Nat]
  BY EmptySeq, LenProperties
<1> DEFINE P == {d \in D : <<d, f[d]>> \in R}
<1>3. ASSUME NEW d \in D, \A e \in D : m[e] < m[d] => e \in P PROVE d \in P
  <2>1. CASE d = 1
    BY <1>1, <2>1
  <2>2. CASE d # 1
    <3>1. d - 1 \in D /\ d \in 2..N /\ m[d - 1] < m[d]
      BY <1>2, <2>2
    <3>2. <<d - 1, f[d - 1]>> \in R /\ f[d - 1] \in Seq(S)
      BY <1>3, <3>1
    <3>3. f[d] = f[d - 1] \o seqs[d]
      BY <1>1, <2>2
    <3> QED
      BY <3>1, <3>2, <3>3
  <2> QED
    BY <2>1, <2>2
<1>4. N \in D
  BY <1>2
<1>5. \A d \in D : d \in P
  <2>1. m \in [D -> Nat]
    BY <1>2
  <2> HIDE DEF P, m, D
  <2> QED
    BY <1>3, <2>1, MeasureInduction
<1> QED
  BY <1>1, <1>4, <1>5

\* The elements of a flattened sequence are the elements of its parts.
LEMMA FlattenRange ==
  ASSUME NEW S, NEW seqs \in Seq(Seq(S))
  PROVE  /\ FlattenSeq(seqs) \in Seq(S)
         /\ \A k \in 1..Len(seqs) : \A j \in 1..Len(seqs[k]) :
              \E x \in 1..Len(FlattenSeq(seqs)) : FlattenSeq(seqs)[x] = seqs[k][j]
         /\ \A x \in 1..Len(FlattenSeq(seqs)) : \E k \in 1..Len(seqs) :
              \E j \in 1..Len(seqs[k]) : FlattenSeq(seqs)[x] = seqs[k][j]
<1>1. CASE seqs = <<>>
  <2>1. FlattenSeq(seqs) = <<>> /\ Len(<<>>) = 0 /\ <<>> \in Seq(S)
    BY <1>1, EmptySeq DEF FlattenSeq
  <2>2. Len(seqs) = 0 /\ Len(FlattenSeq(seqs)) = 0 /\ FlattenSeq(seqs) \in Seq(S)
    BY <1>1, <2>1
  <2> QED
    BY <2>2
<1>2. CASE seqs # <<>>
  <2> DEFINE All(d, s)  == \A k \in 1..d : \A j \in 1..Len(seqs[k]) : \E x \in 1..Len(s) : s[x] = seqs[k][j]
             Only(d, s) == \A x \in 1..Len(s) : \E k \in 1..d : \E j \in 1..Len(seqs[k]) : s[x] = seqs[k][j]
             V == Seq(S)
             R == {p \in (1..Len(seqs)) \X V : All(p[1], p[2]) /\ Only(p[1], p[2])}
  <2>1. Len(seqs) \in Nat \ {0} /\ \A k \in 1..Len(seqs) : seqs[k] \in Seq(S)
    BY <1>2, EmptySeq
  <2> HIDE DEF V, All, Only
  <2>6. \A d, s : <<d, s>> \in R <=> d \in 1..Len(seqs) /\ s \in V /\ All(d, s) /\ Only(d, s)
    OBVIOUS
  <2> USE DEF V, All, Only
  <2> HIDE DEF R
  <2>2. <<1, seqs[1]>> \in R
    BY <2>1, <2>6
  <2>3. ASSUME NEW k \in 2..Len(seqs), NEW s \in Seq(S), <<k - 1, s>> \in R
        PROVE  <<k, s \o seqs[k]>> \in R
    <3>7. k \in Nat /\ k \in 1..Len(seqs) /\ seqs[k] \in Seq(S)
      BY <2>1
    <3>8. All(k - 1, s) /\ Only(k - 1, s)
      <4> HIDE DEF All, Only
      <4> QED
        BY <2>3, <2>6
    <3>1. k \in Nat /\ k \in 1..Len(seqs) /\ seqs[k] \in Seq(S) /\ All(k - 1, s) /\ Only(k - 1, s)
      BY <3>7, <3>8
    <3> DEFINE b == seqs[k]
               c == s \o b
    <3>9. /\ c \in Seq(S) /\ Len(s) \in Nat /\ Len(b) \in Nat /\ Len(c) = Len(s) + Len(b)
          /\ \A x \in 1..Len(s) : x \in 1..Len(c) /\ c[x] = s[x]
          /\ \A x \in 1..Len(b) : Len(s) + x \in 1..Len(c) /\ c[Len(s) + x] = b[x]
          /\ \A x \in 1..Len(c) :
                x <= Len(s) \/ (x - Len(s) \in 1..Len(b) /\ c[x] = b[x - Len(s)])
      <4>1. b \in Seq(S)
        BY <3>7
      <4> HIDE DEF b, All, Only
      <4> QED
        BY <4>1, Joined
    <3> HIDE DEF c
    <3>2. c \in Seq(S)
      BY <3>9
    <3>3. ASSUME NEW n \in 1..k, NEW j \in 1..Len(seqs[n])
          PROVE  \E x \in 1..Len(c) : c[x] = seqs[n][j]
      <4>1. CASE n = k
        <5>1. Len(s) + j \in 1..Len(c) /\ c[Len(s) + j] = seqs[k][j]
          BY <3>9, <4>1
        <5> QED
          BY <4>1, <5>1
      <4>2. CASE n \in 1..(k - 1)
        <5>1. PICK x \in 1..Len(s) : s[x] = seqs[n][j]
          BY <3>1, <4>2
        <5>2. x \in 1..Len(c) /\ c[x] = s[x]
          BY <3>9
        <5> QED
          BY <5>1, <5>2
      <4> QED
        BY <3>1, <4>1, <4>2
    <3>4. ASSUME NEW x \in 1..Len(c)
          PROVE  \E n \in 1..k : \E j \in 1..Len(seqs[n]) : c[x] = seqs[n][j]
      <4>1. CASE x \in 1..Len(s)
        <5>1. PICK n \in 1..(k - 1) : \E j \in 1..Len(seqs[n]) : s[x] = seqs[n][j]
          BY <3>1, <4>1
        <5>2. n \in 1..k /\ c[x] = s[x]
          BY <3>1, <3>9, <4>1
        <5> QED
          BY <5>1, <5>2
      <4>2. CASE x - Len(s) \in 1..Len(seqs[k]) /\ c[x] = seqs[k][x - Len(s)]
        <5>1. k \in 1..k
          BY <3>1
        <5> QED
          BY <4>2, <5>1
      <4>3. x <= Len(s) => x \in 1..Len(s)
        BY <3>9
      <4>4. x <= Len(s) \/ (x - Len(s) \in 1..Len(seqs[k]) /\ c[x] = seqs[k][x - Len(s)])
        BY <3>9
      <4> QED
        BY <4>1, <4>2, <4>3, <4>4
    <3>5. All(k, c) /\ Only(k, c)
      BY <3>3, <3>4
    <3>6. <<k, c>> \in R
      BY <2>6, <3>1, <3>2, <3>5
    <3> QED
      BY <3>6 DEF c
  <2>4. FlattenSeq(seqs) \in Seq(S) /\ <<Len(seqs), FlattenSeq(seqs)>> \in R
    BY <1>2, <2>2, <2>3, FlattenInduction
  <2>5. All(Len(seqs), FlattenSeq(seqs)) /\ Only(Len(seqs), FlattenSeq(seqs))
    <3> HIDE DEF All, Only
    <3> QED
      BY <2>4, <2>6
  <2> QED
    BY <2>4, <2>5
<1> QED
  BY <1>1, <1>2

\* Where each part ends, and where the elements of a part are found.
EndsOf(seqs) ==
  {off \in [0..Len(seqs) -> Nat] :
     off[0] = 0 /\ \A k \in 1..Len(seqs) : off[k] = off[k - 1] + Len(seqs[k])}

LEMMA FlattenAt ==
  ASSUME NEW S, NEW seqs \in Seq(Seq(S)), NEW off \in EndsOf(seqs)
  PROVE  /\ Len(FlattenSeq(seqs)) = off[Len(seqs)]
         /\ \A k \in 1..Len(seqs) : \A j \in 1..Len(seqs[k]) :
              /\ off[k - 1] + j \in 1..Len(FlattenSeq(seqs))
              /\ FlattenSeq(seqs)[off[k - 1] + j] = seqs[k][j]
<1> USE DEF EndsOf
<1>1. CASE seqs = <<>>
  <2>1. FlattenSeq(seqs) = <<>> /\ Len(<<>>) = 0
    BY <1>1, EmptySeq DEF FlattenSeq
  <2>2. Len(seqs) = 0 /\ Len(FlattenSeq(seqs)) = 0
    BY <1>1, <2>1
  <2> QED
    BY <2>2
<1>2. CASE seqs # <<>>
  <2> DEFINE At(d, s) == \A k \in 1..d : \A j \in 1..Len(seqs[k]) :
                           off[k - 1] + j \in 1..Len(s) /\ s[off[k - 1] + j] = seqs[k][j]
             V == Seq(S)
             R == {p \in (1..Len(seqs)) \X V : Len(p[2]) = off[p[1]] /\ At(p[1], p[2])}
  <2>1. /\ Len(seqs) \in Nat \ {0}
        /\ \A k \in 1..Len(seqs) : seqs[k] \in Seq(S) /\ Len(seqs[k]) \in Nat
    BY <1>2, EmptySeq, LenProperties
  <2> HIDE DEF V, At
  <2>6. \A d, s : <<d, s>> \in R <=> d \in 1..Len(seqs) /\ s \in V /\ Len(s) = off[d] /\ At(d, s)
    OBVIOUS
  <2> USE DEF V, At
  <2> HIDE DEF R
  <2>2. <<1, seqs[1]>> \in R
    <3>1. off[1] = Len(seqs[1]) /\ 1 \in 1..Len(seqs)
      BY <2>1
    <3>2. At(1, seqs[1])
      BY <2>1, <3>1
    <3> QED
      BY <2>1, <2>6, <3>1, <3>2
  <2>3. ASSUME NEW k \in 2..Len(seqs), NEW s \in Seq(S), <<k - 1, s>> \in R
        PROVE  <<k, s \o seqs[k]>> \in R
    <3>7. k \in Nat /\ k \in 1..Len(seqs) /\ seqs[k] \in Seq(S) /\ off[k] = off[k - 1] + Len(seqs[k])
      BY <2>1
    <3>8. At(k - 1, s) /\ Len(s) = off[k - 1]
      <4> HIDE DEF At
      <4> QED
        BY <2>3, <2>6
    <3>1. k \in Nat /\ k \in 1..Len(seqs) /\ seqs[k] \in Seq(S) /\ At(k - 1, s) /\ Len(s) = off[k - 1]
      BY <3>7, <3>8
    <3> DEFINE b == seqs[k]
               c == s \o b
    <3>9. b \in Seq(S)
      BY <3>7
    <3>10. /\ c \in Seq(S) /\ Len(c) = Len(s) + Len(b)
           /\ \A x \in 1..Len(s) : x \in 1..Len(c) /\ c[x] = s[x]
           /\ \A x \in 1..Len(b) : Len(s) + x \in 1..Len(c) /\ c[Len(s) + x] = b[x]
      <4> HIDE DEF b, At
      <4> QED
        BY <3>9, Joined
    <3>2. c \in Seq(S) /\ Len(c) = off[k]
      BY <3>1, <3>7, <3>10
    <3>6. /\ \A x \in 1..Len(s) : x \in 1..Len(c) /\ c[x] = s[x]
          /\ \A x \in 1..Len(seqs[k]) : Len(s) + x \in 1..Len(c) /\ c[Len(s) + x] = seqs[k][x]
      BY <3>10
    <3> HIDE DEF c
    <3>3. ASSUME NEW n \in 1..k, NEW j \in 1..Len(seqs[n])
          PROVE  off[n - 1] + j \in 1..Len(c) /\ c[off[n - 1] + j] = seqs[n][j]
      <4>1. CASE n = k
        BY <3>1, <3>6, <4>1
      <4>2. CASE n \in 1..(k - 1)
        <5>1. off[n - 1] + j \in 1..Len(s) /\ s[off[n - 1] + j] = seqs[n][j]
          BY <3>1, <4>2
        <5> QED
          BY <3>6, <5>1
      <4> QED
        BY <3>1, <4>1, <4>2
    <3>4. At(k, c)
      BY <3>3
    <3>5. <<k, c>> \in R
      BY <2>6, <3>1, <3>2, <3>4
    <3> QED
      BY <3>5 DEF c
  <2>4. <<Len(seqs), FlattenSeq(seqs)>> \in R
    BY <1>2, <2>2, <2>3, FlattenInduction
  <2>5. Len(FlattenSeq(seqs)) = off[Len(seqs)] /\ At(Len(seqs), FlattenSeq(seqs))
    BY <2>4, <2>6
  <2> QED
    BY <2>5
<1> QED
  BY <1>1, <1>2

(***************************************************************************)
(* Runs and literals                                                       *)
(***************************************************************************)
Bytes == 0..(2 * RunLimit - 1)

\* Min and Max of a nonempty set of numbers that has a bound.
LEMMA MinOf ==
  ASSUME NEW T \in SUBSET Nat, T # {}
  PROVE  Min(T) \in T /\ \A x \in T : Min(T) <= x
<1>1. \E n \in T : \A x \in T : n =< x
  BY LeastNat
<1> QED
  BY <1>1, Zenon DEF Min

LEMMA MaxOf ==
  ASSUME NEW T \in SUBSET Nat, T # {}, NEW N \in Nat, \A x \in T : x <= N
  PROVE  Max(T) \in T /\ \A x \in T : x <= Max(T)
<1> DEFINE U == {N - x : x \in T}
<1>1. U \in SUBSET Nat /\ U # {}
  OBVIOUS
<1>2. PICK u \in U : \A v \in U : u <= v
  <2> HIDE DEF U
  <2> QED
    BY <1>1, LeastNat
<1>3. \E x \in T : \A y \in T : x >= y
  <2>1. PICK x \in T : u = N - x
    OBVIOUS
  <2>2. \A y \in T : N - y \in U
    OBVIOUS
  <2>3. \A y \in T : N - x <= N - y
    BY <1>2, <2>1, <2>2
  <2>4. \A y \in T : x >= y
    BY <2>3
  <2> QED
    BY <2>4
<1>4. Max(T) \in T /\ \A x \in T : Max(T) >= x
  BY <1>3, Zenon DEF Max
<1> QED
  BY <1>4

\* A run is at least one byte, ends with the input, and repeats its first byte.
LEMMA RunBounds ==
  ASSUME NEW S, NEW input \in Seq(S), NEW i \in 1..Len(input)
  PROVE  LET run == RepeatedRun(input, i)
         IN  /\ run \in 1..RunLimit /\ i + run <= Len(input) + 1
             /\ \A k \in i..(i + run - 1) : input[k] = input[i]
<1> DEFINE T == {n \in 1..Least(RunLimit, Len(input) - i + 1) :
                   \A k \in i..(i + n - 1) : input[k] = input[i]}
<1>1. Len(input) \in Nat /\ RunLimit \in Nat /\ RunLimit >= 4
  BY RegionAssumption DEF RepeatMinimum
<1>2. 1 \in T /\ T \in SUBSET Nat /\ \A x \in T : x <= RunLimit
  BY <1>1 DEF Least
<1>3. RepeatedRun(input, i) = Max(T)
  BY DEF RepeatedRun
<1>4. Max(T) \in T
  <2> HIDE DEF T
  <2> QED
    BY <1>1, <1>2, MaxOf
<1>5. ASSUME NEW n \in T
      PROVE  /\ n \in 1..RunLimit /\ i + n <= Len(input) + 1
             /\ \A k \in i..(i + n - 1) : input[k] = input[i]
  BY <1>1 DEF Least
<1> QED
  <2> HIDE DEF T
  <2> QED
    BY <1>3, <1>4, <1>5

\* A literal is at least one byte, ends with the input, and is within the limit.
LEMMA LiteralBounds ==
  ASSUME NEW S, NEW input \in Seq(S), NEW start \in 1..Len(input)
  PROVE  LiteralEnd(input, start) \in
           {n \in Nat : n > start /\ n <= Len(input) + 1 /\ n <= start + RunLimit}
<1> DEFINE N == Len(input)
           D == 1..(N + 1)
           m == [i \in D |-> N + 1 - i]
           Here(i) == \/ i > N
                      \/ i - start >= RunLimit
                      \/ RepeatedRun(input, i) >= RepeatMinimum
           Equation(f) == f = [i \in D |-> IF Here(i) THEN Least(i, start + RunLimit)
                                            ELSE f[i + RepeatedRun(input, i)]]
           F == CHOOSE f : Equation(f)
           Step == [a \in D \X [D -> Nat] |->
                      IF Here(a[1]) THEN Least(a[1], start + RunLimit)
                      ELSE a[2][a[1] + RepeatedRun(input, a[1])]]
           Allowed == {n \in Nat : n > start /\ n <= N + 1 /\ n <= start + RunLimit}
<1>1. N \in Nat /\ start \in 1..N /\ RunLimit \in Nat /\ RunLimit >= 4
  BY RegionAssumption DEF RepeatMinimum
<1>2. LiteralEnd(input, start) = F[start + RepeatedRun(input, start)]
  BY Zenon DEF LiteralEnd
<1>3. \A i \in D : i <= N =>
        /\ i + RepeatedRun(input, i) \in D /\ i + RepeatedRun(input, i) > i
        /\ m[i + RepeatedRun(input, i)] < m[i]
  <2> SUFFICES ASSUME NEW i \in D, i <= N
               PROVE  /\ i + RepeatedRun(input, i) \in D /\ i + RepeatedRun(input, i) > i
                      /\ m[i + RepeatedRun(input, i)] < m[i]
    OBVIOUS
  <2>1. i \in 1..Len(input)
    BY <1>1
  <2>2. RepeatedRun(input, i) \in 1..RunLimit /\ i + RepeatedRun(input, i) <= N + 1
    BY <2>1, RunBounds
  <2> QED
    BY <1>1, <2>1, <2>2
<1>4. m \in [D -> 0..(N + 1)] /\ m \in [D -> Nat]
  BY <1>1
<1>5. \A i \in D : Least(i, start + RunLimit) \in Nat /\ (i > N => Here(i)) /\ i \in Nat
  BY <1>1 DEF Least
<1>6. Step \in [D \X [D -> Nat] -> Nat]
  <2> HIDE DEF Here, D, m
  <2>1. \A i \in D : ~Here(i) => i + RepeatedRun(input, i) \in D
    BY <1>1, <1>3, <1>5
  <2> QED
    BY <1>5, <2>1
<1>7. Grounded(D, Nat, N + 1, m, Step)
  <2> HIDE DEF Here, D, m
  <2>1. \A i \in D : ~Here(i) => i + RepeatedRun(input, i) \in D /\ m[i + RepeatedRun(input, i)] < m[i]
    BY <1>1, <1>3, <1>5
  <2> QED
    BY <1>1, <1>4, <1>6, <2>1 DEF Grounded
<1>8. PICK f \in [D -> Nat] : \A d \in D : f[d] = Step[<<d, f>>]
  <2> HIDE DEF Step, m, D
  <2>1. N + 1 \in Nat
    BY <1>1
  <2>2. Solutions(D, Nat, Step) # {}
    BY <1>7, <2>1, Recursion
  <2> QED
    BY <2>2 DEF Solutions
<1>9. Equation(f)
  <2> HIDE DEF Here, D
  <2> QED
    BY <1>8
<1>10. Equation(F)
  <2> HIDE DEF Equation
  <2> QED
    BY <1>9
<1>11. \A i \in D : F[i] = IF Here(i) THEN Least(i, start + RunLimit)
                           ELSE F[i + RepeatedRun(input, i)]
  <2> HIDE DEF F, Here, D
  <2> QED
    BY <1>10
<1> HIDE DEF F
<1> DEFINE P == {i \in D : i > start => F[i] \in Allowed}
<1>12. ASSUME NEW d \in D, \A e \in D : m[e] < m[d] => e \in P PROVE d \in P
  <2> SUFFICES ASSUME d > start PROVE F[d] \in Allowed
    OBVIOUS
  <2>1. CASE Here(d)
    <3>1. Least(d, start + RunLimit) \in Allowed
      BY <1>1 DEF Least
    <3> QED
      BY <1>11, <2>1, <3>1
  <2>2. CASE ~Here(d)
    <3>1. d <= N /\ d \in Nat
      BY <1>1, <2>2
    <3> DEFINE e == d + RepeatedRun(input, d)
    <3>2. e \in D /\ e > d /\ m[e] < m[d]
      BY <1>3, <3>1
    <3>3. F[d] = F[e]
      BY <1>11, <2>2
    <3> HIDE DEF e, m, D, Allowed
    <3>4. e \in P
      BY <1>12, <3>2
    <3>5. e > start
      <4>1. e \in Nat
        BY <3>2, <1>5
      <4> QED
        BY <1>1, <3>1, <3>2, <4>1
    <3> QED
      BY <3>3, <3>4, <3>5
  <2> QED
    BY <2>1, <2>2
<1>13. \A d \in D : d \in P
  <2> HIDE DEF P, m, D
  <2> QED
    BY <1>4, <1>12, MeasureInduction
<1>14. start \in D /\ start <= N
  BY <1>1
<1>15. start + RepeatedRun(input, start) \in D /\ start + RepeatedRun(input, start) > start
  BY <1>3, <1>14
<1> QED
  BY <1>2, <1>13, <1>15

(***************************************************************************)
(* PackBits                                                                *)
(***************************************************************************)
\* What the packed form of the input from a byte on is made of.
LEMMA PackEquation ==
  ASSUME NEW input \in Seq(Bytes)
  PROVE  \E pack \in [1..(Len(input) + 1) -> Seq(Bytes)] :
           /\ PackBits(input) = pack[1]
           /\ pack[Len(input) + 1] = <<>>
           /\ \A i \in 1..Len(input) :
                /\ RepeatedRun(input, i) >= RepeatMinimum =>
                     pack[i] = <<RunLimit + RepeatedRun(input, i) - 1, input[i]>>
                                 \o pack[i + RepeatedRun(input, i)]
                /\ ~(RepeatedRun(input, i) >= RepeatMinimum) =>
                     pack[i] = <<LiteralEnd(input, i) - i - 1>>
                                 \o SubSeq(input, i, LiteralEnd(input, i) - 1)
                                 \o pack[LiteralEnd(input, i)]
<1> DEFINE N == Len(input)
           D == 1..(N + 1)
           V == Seq(Bytes)
           m == [i \in D |-> N + 1 - i]
           Repeats(i) == RepeatedRun(input, i) >= RepeatMinimum
           Ends(i) == IF Repeats(i) THEN i + RepeatedRun(input, i) ELSE LiteralEnd(input, i)
           First(i) == IF Repeats(i) THEN <<RunLimit + RepeatedRun(input, i) - 1, input[i]>>
                       ELSE <<LiteralEnd(input, i) - i - 1>>
                              \o SubSeq(input, i, LiteralEnd(input, i) - 1)
           Equation(f) == f = [i \in D |->
             IF i > N THEN <<>>
             ELSE LET run == RepeatedRun(input, i)
                      end == LiteralEnd(input, i)
                  IN  IF run >= RepeatMinimum
                      THEN <<RunLimit + run - 1, input[i]>> \o f[i + run]
                      ELSE <<end - i - 1>> \o SubSeq(input, i, end - 1) \o f[end]]
           F == CHOOSE f : Equation(f)
           Step == [a \in D \X [D -> V] |->
                      IF a[1] > N THEN <<>> ELSE First(a[1]) \o a[2][Ends(a[1])]]
<1>1. N \in Nat /\ RunLimit \in Nat /\ RunLimit >= 4 /\ <<>> \in V
  BY RegionAssumption, EmptySeq DEF RepeatMinimum
<1>2. PackBits(input) = F[1]
  BY Zenon DEF PackBits
<1>3. \A i \in D : i > N \/ i \in 1..N
  BY <1>1
<1>4. ASSUME NEW i \in 1..N
      PROVE  Ends(i) \in D /\ m[Ends(i)] < m[i] /\ First(i) \in V
  <2>1. RepeatedRun(input, i) \in 1..RunLimit /\ i + RepeatedRun(input, i) <= N + 1
    BY RunBounds
  <2>2. LiteralEnd(input, i) \in {n \in Nat : n > i /\ n <= N + 1 /\ n <= i + RunLimit}
    BY LiteralBounds
  <2>3. Ends(i) \in D /\ m[Ends(i)] < m[i]
    BY <1>1, <2>1, <2>2
  <2>4. input[i] \in Bytes /\ RunLimit + RepeatedRun(input, i) - 1 \in Bytes
    BY <1>1, <2>1 DEF Bytes
  <2>5. LiteralEnd(input, i) - i - 1 \in Bytes
    BY <1>1, <2>2 DEF Bytes
  <2>6. SubSeq(input, i, LiteralEnd(input, i) - 1) \in Seq(Bytes)
    BY <1>1, <2>2, SubSeqProperties
  <2> QED
    <3> HIDE DEF Bytes
    <3> QED
      BY <2>3, <2>4, <2>5, <2>6, ConcatProperties
<1>5. \A v, w \in V : v \o w \in V
  BY ConcatProperties
<1>6. m \in [D -> 0..(N + 1)]
  BY <1>1
<1>7. Step \in [D \X [D -> V] -> V]
  <2> HIDE DEF V, D, First, Ends, m, N
  <2> QED
    BY <1>1, <1>3, <1>4, <1>5
<1>8. Grounded(D, V, N + 1, m, Step)
  <2> HIDE DEF V, D, First, Ends, m, N
  <2>1. \A d \in D : \A g \in [D -> V] :
          Step[<<d, g>>] = IF d > N THEN <<>> ELSE First(d) \o g[Ends(d)]
    OBVIOUS
  <2> HIDE DEF Step
  <2>2. ASSUME NEW d \in D, NEW g \in [D -> V], NEW h \in [D -> V],
               \A e \in D : m[e] < m[d] => g[e] = h[e]
        PROVE  Step[<<d, g>>] = Step[<<d, h>>]
    BY <1>3, <1>4, <2>1, <2>2
  <2>3. V # {} /\ N + 1 \in Nat
    BY <1>1
  <2> QED
    BY <1>6, <1>7, <2>2, <2>3 DEF Grounded
<1>9. PICK f \in [D -> V] : \A d \in D : f[d] = Step[<<d, f>>]
  <2> HIDE DEF Step, m, D, V
  <2>1. N + 1 \in Nat
    BY <1>1
  <2>2. Solutions(D, V, Step) # {}
    BY <1>8, <2>1, Recursion
  <2> QED
    BY <2>2 DEF Solutions
<1>10. ASSUME NEW d \in D
       PROVE  f[d] = IF d > N THEN <<>>
                ELSE IF RepeatedRun(input, d) >= RepeatMinimum
                     THEN <<RunLimit + RepeatedRun(input, d) - 1, input[d]>>
                            \o f[d + RepeatedRun(input, d)]
                     ELSE <<LiteralEnd(input, d) - d - 1>>
                            \o SubSeq(input, d, LiteralEnd(input, d) - 1)
                            \o f[LiteralEnd(input, d)]
  <2>1. f[d] = IF d > N THEN <<>> ELSE First(d) \o f[Ends(d)]
    <3> HIDE DEF First, Ends, D, V, N
    <3> QED
      BY <1>9
  <2> QED
    BY <2>1
<1>11. Equation(f)
  <2>1. f = [d \in D |-> f[d]]
    BY <1>9
  <2> QED
    BY <1>10, <2>1, Zenon
<1>12. Equation(F)
  <2> HIDE DEF Equation
  <2> QED
    BY <1>11
<1>13. \A d \in D : F[d] = IF d > N THEN <<>> ELSE First(d) \o F[Ends(d)]
  <2> HIDE DEF F
  <2> QED
    BY <1>12
<1> HIDE DEF F
<1> DEFINE P == {d \in D : F[d] \in V}
<1>14. ASSUME NEW d \in D, \A e \in D : m[e] < m[d] => e \in P PROVE d \in P
  <2> HIDE DEF V, D, First, Ends, m, N
  <2> QED
    BY <1>1, <1>3, <1>4, <1>5, <1>13, <1>14
<1>15. \A d \in D : d \in P
  <2>1. m \in [D -> Nat]
    BY <1>1
  <2> HIDE DEF P, m, D
  <2> QED
    BY <1>14, <2>1, MeasureInduction
<1>16. \A d \in D : F[d] =
                IF d > N THEN <<>>
                ELSE IF RepeatedRun(input, d) >= RepeatMinimum
                     THEN <<RunLimit + RepeatedRun(input, d) - 1, input[d]>>
                            \o F[d + RepeatedRun(input, d)]
                     ELSE <<LiteralEnd(input, d) - d - 1>>
                            \o SubSeq(input, d, LiteralEnd(input, d) - 1)
                            \o F[LiteralEnd(input, d)]
  BY <1>13
<1>17. F \in [D -> V]
  <2>1. F = [d \in D |-> F[d]]
    BY <1>12, Zenon
  <2> HIDE DEF V, D
  <2> QED
    BY <1>15, <2>1
<1>18. F[N + 1] = <<>>
  <2>1. N + 1 \in D /\ N + 1 > N
    BY <1>1
  <2> QED
    BY <1>16, <2>1, Zenon
<1>19. ASSUME NEW i \in 1..N
       PROVE  /\ RepeatedRun(input, i) >= RepeatMinimum =>
                   F[i] = <<RunLimit + RepeatedRun(input, i) - 1, input[i]>>
                            \o F[i + RepeatedRun(input, i)]
              /\ ~(RepeatedRun(input, i) >= RepeatMinimum) =>
                   F[i] = <<LiteralEnd(input, i) - i - 1>>
                            \o SubSeq(input, i, LiteralEnd(input, i) - 1)
                            \o F[LiteralEnd(input, i)]
  <2>1. i \in D /\ ~(i > N)
    BY <1>1
  <2> QED
    BY <1>16, <2>1, Zenon
<1> QED
  BY <1>2, <1>17, <1>18, <1>19, Zenon

\* What unpacking makes of the data from a byte on, with so much room left.
LEMMA UnpackEquation ==
  ASSUME NEW data \in Seq(Bytes), NEW expected \in Nat
  PROVE  \E unpack \in [(1..(Len(data) + 1)) \X (0..expected) -> SUBSET Seq(Bytes)] :
           /\ UnpackBits(data, expected) = unpack[<<1, expected>>]
           /\ \A i \in 1..(Len(data) + 1) : \A room \in 0..expected :
                /\ i > Len(data) /\ room = 0 => unpack[<<i, room>>] = {<<>>}
                /\ \A count \in 1..room :
                     /\ /\ i + 1 <= Len(data) /\ data[i] >= RunLimit
                        /\ count = (data[i] % RunLimit) + 1
                        => unpack[<<i, room>>] = {[k \in 1..count |-> data[i + 1]] \o rest :
                                                    rest \in unpack[<<i + 2, room - count>>]}
                     /\ /\ i + count <= Len(data) /\ data[i] < RunLimit
                        /\ count = (data[i] % RunLimit) + 1
                        => unpack[<<i, room>>] = {SubSeq(data, i + 1, i + count) \o rest :
                                                    rest \in unpack[<<i + 1 + count, room - count>>]}
<1> DEFINE N == Len(data)
           D == (1..(N + 1)) \X (0..expected)
           V == Seq(Bytes)
           m == [d \in D |-> N + 1 - d[1]]
           Count(d) == (data[d[1]] % RunLimit) + 1
           Repeats(d) == data[d[1]] >= RunLimit
           After(d) == d[1] + 1 + (IF Repeats(d) THEN 1 ELSE Count(d))
           Part(d) == IF Repeats(d) THEN [k \in 1..Count(d) |-> data[d[1] + 1]]
                      ELSE SubSeq(data, d[1] + 1, d[1] + Count(d))
           Fits(d) == After(d) <= N + 1 /\ Count(d) <= d[2]
           Ends(d) == d[1] > N \/ d[2] = 0
           Done(d) == IF d[1] > N /\ d[2] = 0 THEN {<<>>} ELSE {}
           Behind(p, W) == {p \o rest : rest \in W}
           Equation(f) == f = [at \in (1..(Len(data) + 1)) \X (0..expected) |->
             IF at[1] > Len(data) \/ at[2] = 0
             THEN IF at[1] > Len(data) /\ at[2] = 0 THEN {<<>>} ELSE {}
             ELSE LET i      == at[1]
                      room   == at[2]
                      count  == (data[i] % RunLimit) + 1
                      repeat == data[i] >= RunLimit
                      next   == i + 1 + (IF repeat THEN 1 ELSE count)
                      bytes  == IF repeat THEN [k \in 1..count |-> data[i + 1]]
                                          ELSE SubSeq(data, i + 1, i + count)
                  IN  IF next <= Len(data) + 1 /\ count <= room
                      THEN {bytes \o rest : rest \in f[<<next, room - count>>]}
                      ELSE {}]
           F == CHOOSE f : Equation(f)
           Step == [a \in D \X [D -> SUBSET V] |->
                      IF Ends(a[1]) THEN Done(a[1])
                      ELSE IF Fits(a[1])
                           THEN Behind(Part(a[1]), a[2][<<After(a[1]), a[1][2] - Count(a[1])>>])
                           ELSE {}]
<1>1. N \in Nat /\ RunLimit \in Nat /\ RunLimit >= 4 /\ <<>> \in V
  BY RegionAssumption, EmptySeq DEF RepeatMinimum
<1>2. UnpackBits(data, expected) = F[<<1, expected>>]
  BY Zenon DEF UnpackBits
<1>3. ASSUME NEW d \in D, ~Ends(d)
      PROVE  /\ Count(d) \in 1..RunLimit /\ d[1] \in 1..N /\ d[2] \in 1..expected
             /\ After(d) \in Nat /\ After(d) > d[1] + 1
             /\ Fits(d) => /\ <<After(d), d[2] - Count(d)>> \in D
                           /\ m[<<After(d), d[2] - Count(d)>>] < m[d]
                           /\ Part(d) \in V
  <2>1. d[1] \in 1..N /\ d[2] \in 1..expected /\ data[d[1]] \in Bytes
    BY <1>1, <1>3
  <2>2. data[d[1]] \in Nat
    BY <1>1, <2>1 DEF Bytes
  <2>3. Count(d) \in 1..RunLimit
    BY <1>1, <2>2
  <2>4. After(d) \in Nat /\ After(d) > d[1] + 1
    BY <2>1, <2>3
  <2>5. ASSUME Fits(d)
        PROVE  /\ <<After(d), d[2] - Count(d)>> \in D
               /\ m[<<After(d), d[2] - Count(d)>>] < m[d]
    <3> DEFINE a == After(d)
               c == Count(d)
               e == <<a, d[2] - c>>
    <3>1. a \in Nat /\ a > d[1] + 1 /\ a <= N + 1 /\ c \in Nat /\ c >= 1 /\ c <= d[2]
      BY <1>1, <2>3, <2>4, <2>5
    <3> HIDE DEF a, c
    <3>2. a \in 1..(N + 1) /\ d[2] - c \in 0..expected
      BY <1>1, <2>1, <3>1
    <3>3. e \in D /\ e[1] = a
      BY <3>2
    <3> HIDE DEF e
    <3>4. m[e] = N + 1 - a /\ m[d] = N + 1 - d[1]
      <4> HIDE DEF D
      <4> QED
        BY <3>3
    <3>5. m[e] < m[d]
      <4> HIDE DEF m, D
      <4> QED
        BY <1>1, <2>1, <3>1, <3>4
    <3> QED
      <4> HIDE DEF m, D
      <4> QED
        BY <3>3, <3>5 DEF e, a, c
  <2>6. ASSUME Fits(d) PROVE Part(d) \in V
    <3>1. CASE Repeats(d)
      <4>1. data[d[1] + 1] \in Bytes
        BY <1>1, <2>1, <2>6, <3>1
      <4>2. Count(d) \in Nat
        BY <2>3
      <4> HIDE DEF Count, Bytes
      <4> QED
        BY <3>1, <4>1, <4>2, IsASeq
    <3>2. CASE ~Repeats(d)
      <4>1. d[1] + Count(d) <= N /\ d[1] + 1 \in Int /\ d[1] + Count(d) \in Int
        BY <1>1, <2>1, <2>3, <2>6, <3>2
      <4>2. \A k \in (d[1] + 1)..(d[1] + Count(d)) : data[k] \in Bytes
        BY <1>1, <2>1, <2>3, <4>1
      <4>3. SubSeq(data, d[1] + 1, d[1] + Count(d)) \in V
        BY <4>1, <4>2, SubSeqProperties
      <4> QED
        BY <3>2, <4>3
    <3> QED
      BY <3>1, <3>2
  <2> QED
    BY <2>1, <2>3, <2>4, <2>5, <2>6
<1>4. \A v \in V : \A W \in SUBSET V : Behind(v, W) \in SUBSET V
  BY ConcatProperties
<1>5. m \in [D -> 0..(N + 1)]
  BY <1>1
<1>6. \A d \in D : Done(d) \in SUBSET V
  BY <1>1
<1>7. Step \in [D \X [D -> SUBSET V] -> SUBSET V]
  <2> HIDE DEF V, D, Done, Ends, Fits, Part, After, Count, Behind, m, N
  <2> QED
    BY <1>3, <1>4, <1>6
<1>8. Grounded(D, SUBSET V, N + 1, m, Step)
  <2> HIDE DEF V, D, Done, Ends, Fits, Part, After, Count, Behind, m
  <2>1. \A d \in D : \A g \in [D -> SUBSET V] :
          Step[<<d, g>>] = IF Ends(d) THEN Done(d)
                           ELSE IF Fits(d)
                                THEN Behind(Part(d), g[<<After(d), d[2] - Count(d)>>])
                                ELSE {}
    OBVIOUS
  <2> HIDE DEF Step
  <2>2. ASSUME NEW d \in D, NEW g \in [D -> SUBSET V], NEW h \in [D -> SUBSET V],
               \A e \in D : m[e] < m[d] => g[e] = h[e]
        PROVE  Step[<<d, g>>] = Step[<<d, h>>]
    <3>1. ~Ends(d) /\ Fits(d) => g[<<After(d), d[2] - Count(d)>>] = h[<<After(d), d[2] - Count(d)>>]
      BY <1>3, <2>2
    <3> QED
      BY <2>1, <3>1
  <2>3. SUBSET V # {} /\ N + 1 \in Nat
    BY <1>1
  <2> QED
    BY <1>5, <1>7, <2>2, <2>3 DEF Grounded
<1>9. PICK f \in [D -> SUBSET V] : \A d \in D : f[d] = Step[<<d, f>>]
  <2> HIDE DEF Step, m, D, V
  <2>1. N + 1 \in Nat
    BY <1>1
  <2>2. Solutions(D, SUBSET V, Step) # {}
    BY <1>8, <2>1, Recursion
  <2> QED
    BY <2>2 DEF Solutions
<1>10. ASSUME NEW d \in D
       PROVE  f[d] = IF Ends(d) THEN Done(d)
                     ELSE IF Fits(d)
                          THEN Behind(Part(d), f[<<After(d), d[2] - Count(d)>>])
                          ELSE {}
  <2> HIDE DEF V, D, Done, Ends, Fits, Part, After, Count, Behind
  <2> QED
    BY <1>9
<1>11. Equation(f)
  <2>1. f = [d \in D |-> f[d]]
    BY <1>9
  <2> QED
    BY <1>10, <2>1, Zenon
<1>12. Equation(F)
  <2> HIDE DEF Equation
  <2> QED
    BY <1>11
<1>13. \A d \in D : F[d] = IF Ends(d) THEN Done(d)
                     ELSE IF Fits(d)
                          THEN Behind(Part(d), F[<<After(d), d[2] - Count(d)>>])
                          ELSE {}
  <2> HIDE DEF F
  <2> QED
    BY <1>12, Zenon
<1>14. F = [d \in D |-> F[d]]
  BY <1>12, Zenon
<1> HIDE DEF F
<1> DEFINE P == {d \in D : F[d] \in SUBSET V}
<1>15. ASSUME NEW d \in D, \A e \in D : m[e] < m[d] => e \in P PROVE d \in P
  <2> HIDE DEF V, D, Done, Ends, Fits, Part, After, Count, Behind, m, N
  <2> DEFINE e == <<After(d), d[2] - Count(d)>>
  <2>1. ~Ends(d) /\ Fits(d) => F[e] \in SUBSET V /\ Part(d) \in V
    BY <1>3, <1>15
  <2>2. F[d] = IF Ends(d) THEN Done(d) ELSE IF Fits(d) THEN Behind(Part(d), F[e]) ELSE {}
    BY <1>13
  <2> HIDE DEF e
  <2>3. F[d] \in SUBSET V
    BY <1>4, <1>6, <2>1, <2>2
  <2> QED
    BY <2>3
<1>16. \A d \in D : d \in P
  <2>1. m \in [D -> Nat]
    BY <1>1
  <2> HIDE DEF P, m, D
  <2> QED
    BY <1>15, <2>1, MeasureInduction
<1>17. F \in [D -> SUBSET V]
  <2> HIDE DEF V, D
  <2> QED
    BY <1>14, <1>16
<1>18. ASSUME NEW i \in 1..(N + 1), NEW room \in 0..expected
       PROVE  /\ i > N /\ room = 0 => F[<<i, room>>] = {<<>>}
              /\ \A count \in 1..room :
                   /\ /\ i + 1 <= N /\ data[i] >= RunLimit
                      /\ count = (data[i] % RunLimit) + 1
                      => F[<<i, room>>] = {[k \in 1..count |-> data[i + 1]] \o rest :
                                                    rest \in F[<<i + 2, room - count>>]}
                   /\ /\ i + count <= N /\ data[i] < RunLimit
                      /\ count = (data[i] % RunLimit) + 1
                      => F[<<i, room>>] = {SubSeq(data, i + 1, i + count) \o rest :
                                                    rest \in F[<<i + 1 + count, room - count>>]}
  <2> DEFINE d == <<i, room>>
  <2>1. d \in D /\ d[1] = i /\ d[2] = room
    OBVIOUS
  <2>2. i > N /\ room = 0 => F[d] = {<<>>}
    BY <1>13, <2>1
  <2>3. ASSUME NEW count \in 1..room, i + 1 <= N, data[i] >= RunLimit,
               count = (data[i] % RunLimit) + 1
        PROVE  F[d] = {[k \in 1..count |-> data[i + 1]] \o rest : rest \in F[<<i + 2, room - count>>]}
    <3>1. ~Ends(d) /\ Fits(d) /\ Repeats(d) /\ Count(d) = count /\ After(d) = i + 2
      BY <1>1, <2>1, <2>3
    <3>2. Part(d) = [k \in 1..count |-> data[i + 1]]
      BY <2>1, <3>1, Zenon
    <3>3. F[d] = Behind(Part(d), F[<<After(d), d[2] - Count(d)>>])
      <4> HIDE DEF d, D, Done, Ends, Fits, Part, After, Count, Behind
      <4> QED
        BY <1>13, <2>1, <3>1
    <3>4. F[d] = Behind([k \in 1..count |-> data[i + 1]], F[<<i + 2, room - count>>])
      <4> HIDE DEF d, F, Done, Ends, Fits, Part, After, Count, Behind
      <4> QED
        BY <2>1, <3>1, <3>2, <3>3
    <3> QED
      BY <3>4, Zenon
  <2>4. ASSUME NEW count \in 1..room, i + count <= N, data[i] < RunLimit,
               count = (data[i] % RunLimit) + 1
        PROVE  F[d] = {SubSeq(data, i + 1, i + count) \o rest : rest \in F[<<i + 1 + count, room - count>>]}
    <3>1. data[i] \in Nat
      <4>1. i \in 1..N /\ data[i] \in Bytes
        BY <1>1, <2>4
      <4> QED
        BY <1>1, <4>1 DEF Bytes
    <3>2. ~Ends(d) /\ Fits(d) /\ ~Repeats(d) /\ Count(d) = count /\ After(d) = i + 1 + count
      <4>1. ~Repeats(d)
        BY <1>1, <2>1, <2>4, <3>1
      <4>2. Count(d) = count
        BY <2>1, <2>4
      <4> HIDE DEF Repeats, Count
      <4>3. After(d) = i + 1 + count
        BY <2>1, <4>1, <4>2
      <4>4. ~Ends(d)
        BY <1>1, <2>1, <2>4
      <4> HIDE DEF After, Ends
      <4>5. Fits(d)
        BY <1>1, <2>1, <2>4, <4>2, <4>3
      <4> QED
        BY <4>1, <4>2, <4>3, <4>4, <4>5
    <3>3. Part(d) = SubSeq(data, i + 1, i + count)
      BY <2>1, <3>2, Zenon
    <3>4. F[d] = Behind(Part(d), F[<<After(d), d[2] - Count(d)>>])
      <4> HIDE DEF d, D, Done, Ends, Fits, Part, After, Count, Behind
      <4> QED
        BY <1>13, <2>1, <3>2
    <3>5. F[d] = Behind(SubSeq(data, i + 1, i + count), F[<<i + 1 + count, room - count>>])
      <4> HIDE DEF d, F, Done, Ends, Fits, Part, After, Count, Behind
      <4> QED
        BY <2>1, <3>2, <3>3, <3>4
    <3> QED
      BY <3>5, Zenon
  <2> QED
    BY <2>2, <2>3, <2>4
<1> QED
  <2> HIDE DEF F
  <2> QED
    BY <1>2, <1>17, <1>18, Zenon

\* The lengths in the headers.
LEMMA Header ==
  ASSUME NEW count \in 1..RunLimit
  PROVE  /\ RunLimit + count - 1 \in Bytes /\ RunLimit + count - 1 >= RunLimit
         /\ ((RunLimit + count - 1) % RunLimit) + 1 = count
         /\ count - 1 \in Bytes /\ count - 1 < RunLimit
         /\ ((count - 1) % RunLimit) + 1 = count
BY RegionAssumption DEF Bytes

\* Packing loses nothing, whatever the input.
THEOREM Lossless ==
  ASSUME NEW input \in Seq(Bytes)
  PROVE  PackBits(input) \in Seq(Bytes) /\ UnpackBits(PackBits(input), Len(input)) = {input}
<1> DEFINE N == Len(input)
           data == PackBits(input)
           V == Seq(Bytes)
           D == 1..(N + 1)
           m == [i \in D |-> N + 1 - i]
           Rest(i) == SubSeq(input, i, N)
<1>1. N \in Nat /\ RunLimit \in Nat /\ RunLimit >= 4 /\ RepeatMinimum = 4
  BY RegionAssumption, LenProperties DEF RepeatMinimum
<1>2. PICK pack \in [1..(Len(input) + 1) -> Seq(Bytes)] :
           /\ PackBits(input) = pack[1]
           /\ pack[Len(input) + 1] = <<>>
           /\ \A i \in 1..Len(input) :
                /\ RepeatedRun(input, i) >= RepeatMinimum =>
                     pack[i] = <<RunLimit + RepeatedRun(input, i) - 1, input[i]>>
                                 \o pack[i + RepeatedRun(input, i)]
                /\ ~(RepeatedRun(input, i) >= RepeatMinimum) =>
                     pack[i] = <<LiteralEnd(input, i) - i - 1>>
                                 \o SubSeq(input, i, LiteralEnd(input, i) - 1)
                                 \o pack[LiteralEnd(input, i)]
  BY PackEquation
<1>3. data \in Seq(Bytes) /\ Len(data) \in Nat
  <2>1. 1 \in 1..(N + 1)
    BY <1>1
  <2> QED
    BY <1>2, <2>1, LenProperties
<1>4. PICK unpack \in [(1..(Len(data) + 1)) \X (0..N) -> SUBSET Seq(Bytes)] :
           /\ UnpackBits(data, N) = unpack[<<1, N>>]
           /\ \A i \in 1..(Len(data) + 1) : \A room \in 0..N :
                /\ i > Len(data) /\ room = 0 => unpack[<<i, room>>] = {<<>>}
                /\ \A count \in 1..room :
                     /\ /\ i + 1 <= Len(data) /\ data[i] >= RunLimit
                        /\ count = (data[i] % RunLimit) + 1
                        => unpack[<<i, room>>] = {[k \in 1..count |-> data[i + 1]] \o rest :
                                                    rest \in unpack[<<i + 2, room - count>>]}
                     /\ /\ i + count <= Len(data) /\ data[i] < RunLimit
                        /\ count = (data[i] % RunLimit) + 1
                        => unpack[<<i, room>>] = {SubSeq(data, i + 1, i + count) \o rest :
                                                    rest \in unpack[<<i + 1 + count, room - count>>]}
  <2> HIDE DEF data, N
  <2> QED
    BY <1>1, <1>3, UnpackEquation
<1> HIDE DEF data
\* The packed rest of the input stands at j.
<1> DEFINE At(j, s) == /\ j \in 1..(Len(data) + 1) /\ Len(data) = j - 1 + Len(s)
                       /\ \A x \in 1..Len(s) : data[j - 1 + x] = s[x]
           P == {i \in D : \A j \in 1..(Len(data) + 1) :
                   At(j, pack[i]) => unpack[<<j, N - i + 1>>] = {Rest(i)}}
<1>5. ASSUME NEW a \in V, NEW b \in V, NEW j, At(j, a \o b)
      PROVE  /\ At(j + Len(a), b) /\ j + Len(a) <= Len(data) + 1
             /\ \A x \in 1..Len(a) : data[j - 1 + x] = a[x]
  <2>1. /\ Len(a) \in Nat /\ Len(b) \in Nat /\ Len(a \o b) = Len(a) + Len(b)
        /\ \A x \in 1..Len(a) : x \in 1..Len(a \o b) /\ (a \o b)[x] = a[x]
        /\ \A x \in 1..Len(b) : Len(a) + x \in 1..Len(a \o b) /\ (a \o b)[Len(a) + x] = b[x]
    BY Joined
  <2> DEFINE c == a \o b
  <2> HIDE DEF c, V
  <2>2. Len(c) = Len(a) + Len(b) /\ j \in 1..(Len(data) + 1) /\ Len(data) = j - 1 + Len(c)
    BY <1>5, <2>1 DEF c
  <2>3. \A x \in 1..Len(a) : data[j - 1 + x] = a[x]
    BY <1>5, <2>1 DEF c
  <2>4. ASSUME NEW x \in 1..Len(b) PROVE data[j + Len(a) - 1 + x] = b[x]
    <3>1. Len(a) + x \in 1..Len(c) /\ c[Len(a) + x] = b[x]
      BY <2>1 DEF c
    <3>2. data[j - 1 + (Len(a) + x)] = c[Len(a) + x]
      BY <1>5, <3>1 DEF c
    <3>3. j - 1 + (Len(a) + x) = j + Len(a) - 1 + x
      BY <2>1, <2>2
    <3> QED
      BY <3>1, <3>2, <3>3
  <2> QED
    BY <1>3, <2>1, <2>2, <2>3, <2>4
<1>6. \A i \in D : pack[i] \in V
  BY <1>2
<1>7. \A i \in D : Rest(i) \in V /\ Len(Rest(i)) = N - i + 1
                   /\ \A x \in 1..(N - i + 1) : Rest(i)[x] = input[i + x - 1]
  <2> SUFFICES ASSUME NEW i \in D
               PROVE  /\ Rest(i) \in V /\ Len(Rest(i)) = N - i + 1
                      /\ \A x \in 1..(N - i + 1) : Rest(i)[x] = input[i + x - 1]
    OBVIOUS
  <2>1. i \in Int /\ N \in Int /\ \A k \in i..N : input[k] \in Bytes
    BY <1>1
  <2>2. /\ Rest(i) \in V /\ Len(Rest(i)) = IF i <= N THEN N - i + 1 ELSE 0
        /\ \A x \in 1..(N - i + 1) : Rest(i)[x] = input[i + x - 1]
    <3> HIDE DEF N
    <3> QED
      BY <2>1, SubSeqProperties
  <2> QED
    BY <1>1, <2>2
<1>8. ASSUME NEW d \in D, NEW e \in D, e > d, NEW a \in V, Len(a) = e - d,
             \A x \in 1..(e - d) : a[x] = input[d + x - 1]
      PROVE  {a \o rest : rest \in {Rest(e)}} = {Rest(d)}
  <2>1. /\ a \o Rest(e) \in V /\ Len(a \o Rest(e)) = Len(a) + Len(Rest(e))
        /\ \A x \in 1..Len(a) : (a \o Rest(e))[x] = a[x]
        /\ \A x \in 1..Len(a \o Rest(e)) :
              x <= Len(a) \/ (x - Len(a) \in 1..Len(Rest(e)) /\ (a \o Rest(e))[x] = Rest(e)[x - Len(a)])
    <3> HIDE DEF Rest, D
    <3> QED
      BY <1>7, Joined
  <2> DEFINE c == a \o Rest(e)
             r == Rest(d)
             q == Rest(e)
  <2>2. c \in V /\ r \in V /\ Len(c) = N - d + 1 /\ Len(r) = N - d + 1
    <3> HIDE DEF Rest
    <3> QED
      BY <1>1, <1>7, <1>8, <2>1
  <2>3. ASSUME NEW x \in 1..(N - d + 1) PROVE c[x] = r[x]
    <3>1. r[x] = input[d + x - 1]
      <4> HIDE DEF Rest
      <4> QED
        BY <1>7
    <3>2. CASE x <= e - d
      <4>1. x \in 1..(e - d)
        BY <3>2
      <4>2. c[x] = a[x]
        <5> HIDE DEF Rest
        <5> QED
          BY <1>8, <2>1, <4>1
      <4> QED
        BY <1>8, <3>1, <4>1, <4>2
    <3>3. CASE ~(x <= e - d)
      <4>1. x - (e - d) \in 1..(N - e + 1)
        BY <1>1, <1>8, <3>3
      <4>2. q[x - (e - d)] = input[e + (x - (e - d)) - 1]
        <5> HIDE DEF Rest
        <5> QED
          BY <1>7, <4>1
      <4>3. e + (x - (e - d)) - 1 = d + x - 1
        BY <1>1
      <4>4. c[x] = q[x - (e - d)]
        <5> HIDE DEF Rest
        <5> QED
          BY <1>8, <2>1, <2>2, <3>3
      <4> QED
        BY <3>1, <4>2, <4>3, <4>4
    <3> QED
      BY <3>2, <3>3
  <2>4. c = r
    <3> HIDE DEF c, r
    <3> QED
      BY <2>2, <2>3, SeqEqual
  <2> QED
    BY <2>4
<1>9. ASSUME NEW d \in D, \A e \in D : m[e] < m[d] => e \in P PROVE d \in P
  <2> SUFFICES ASSUME NEW j \in 1..(Len(data) + 1), At(j, pack[d])
               PROVE  unpack[<<j, N - d + 1>>] = {Rest(d)}
    OBVIOUS
  <2> DEFINE room == N - d + 1
             run == RepeatedRun(input, d)
             end == LiteralEnd(input, d)
  <2>1. CASE d > N
    <3>1. pack[d] = <<>> /\ room = 0 /\ d = N + 1
      <4>1. d = N + 1
        BY <1>1, <2>1
      <4> QED
        BY <1>1, <1>2, <4>1
    <3>2. j > Len(data) /\ room \in 0..N
      BY <1>1, <1>3, <3>1
    <3>3. unpack[<<j, room>>] = {<<>>}
      BY <1>4, <3>1, <3>2
    <3>4. Rest(d) = <<>>
      BY <1>7, <3>1, EmptySeq
    <3> QED
      BY <3>3, <3>4
  <2>2. CASE d <= N /\ run >= RepeatMinimum
    <3>1. d \in 1..Len(input) /\ room \in 1..N /\ room \in 0..N
      BY <1>1, <2>2
    <3>2. /\ run \in 1..RunLimit /\ d + run <= N + 1
          /\ \A k \in d..(d + run - 1) : input[k] = input[d]
      BY <3>1, RunBounds
    <3> HIDE DEF run
    <3>3. d + run \in D /\ d + run > d /\ m[d + run] < m[d] /\ run \in 1..room
      BY <1>1, <3>1, <3>2
    <3> DEFINE a == <<RunLimit + run - 1, input[d]>>
               b == pack[d + run]
    <3>4. a \in V /\ b \in V /\ Len(a) = 2 /\ a[1] = RunLimit + run - 1 /\ a[2] = input[d]
      <4>1. input[d] \in Bytes /\ RunLimit + run - 1 \in Bytes
        BY <3>1, <3>2, Header
      <4> HIDE DEF Bytes
      <4> QED
        BY <1>6, <3>3, <4>1
    <3>5. pack[d] = a \o b
      BY <1>2, <2>2, <3>1, Zenon DEF run
    <3> HIDE DEF a, b
    <3>6. At(j, a \o b)
      BY <3>5
    <3>7. At(j + 2, b) /\ j + 2 <= Len(data) + 1 /\ data[j] = RunLimit + run - 1 /\ data[j + 1] = input[d]
      <4>1. /\ At(j + Len(a), b) /\ j + Len(a) <= Len(data) + 1
            /\ \A x \in 1..Len(a) : data[j - 1 + x] = a[x]
        <5> HIDE DEF At, V
        <5> QED
          BY <1>5, <3>4, <3>6
      <4>2. 1 \in 1..Len(a) /\ 2 \in 1..Len(a) /\ j - 1 + 1 = j /\ j - 1 + 2 = j + 1
        BY <3>4
      <4> HIDE DEF At
      <4> QED
        BY <3>4, <4>1, <4>2
    <3>8. data[j] >= RunLimit /\ run = (data[j] % RunLimit) + 1 /\ j + 1 <= Len(data)
      <4>1. j + 2 <= Len(data) + 1 /\ data[j] = RunLimit + run - 1
        <5> HIDE DEF At
        <5> QED
          BY <3>7
      <4>2. run \in 1..RunLimit
        BY <3>2
      <4>3. data[j] >= RunLimit /\ run = (data[j] % RunLimit) + 1
        BY <4>1, <4>2, Header
      <4> QED
        BY <1>3, <4>1, <4>3
    <3>9. unpack[<<j, room>>] = {[k \in 1..run |-> data[j + 1]] \o rest :
                                   rest \in unpack[<<j + 2, room - run>>]}
      <4> HIDE DEF room, At
      <4> QED
        BY <1>4, <3>1, <3>3, <3>8
    <3>10. unpack[<<j + 2, room - run>>] = {Rest(d + run)}
      <4>1. d + run \in P
        BY <1>9, <3>3
      <4>2. j + 2 \in 1..(Len(data) + 1) /\ N - (d + run) + 1 = room - run
        BY <1>1, <1>3, <3>2, <3>7
      <4> HIDE DEF At
      <4>3. unpack[<<j + 2, N - (d + run) + 1>>] = {Rest(d + run)}
        BY <3>7, <4>1, <4>2 DEF b
      <4> QED
        BY <4>2, <4>3
    <3> DEFINE w == [k \in 1..run |-> data[j + 1]]
               e == d + run
    <3>11. w \in V /\ Len(w) = run /\ \A x \in 1..run : w[x] = input[d + x - 1]
      <4>1. data[j + 1] \in Bytes /\ run \in Nat
        BY <1>1, <3>1, <3>2, <3>7
      <4>2. w \in V /\ Len(w) = run
        <5> HIDE DEF Bytes
        <5> QED
          BY <4>1, IsASeq
      <4>3. \A x \in 1..run : d + x - 1 \in d..(d + run - 1) /\ w[x] = data[j + 1]
        BY <3>2
      <4> QED
        BY <3>2, <3>7, <4>2, <4>3
    <3>12. e \in D /\ e > d /\ e - d = run
      BY <1>1, <3>2, <3>3
    <3>13. {w \o rest : rest \in {Rest(e)}} = {Rest(d)}
      <4>1. Len(w) = e - d /\ \A x \in 1..(e - d) : w[x] = input[d + x - 1]
        <5> HIDE DEF w, e
        <5> QED
          BY <3>11, <3>12
      <4> HIDE DEF w, e, Rest, D, V, m, P, At
      <4> QED
        BY <1>8, <3>11, <3>12, <4>1
    <3> QED
      BY <3>9, <3>10, <3>13
  <2>3. CASE d <= N /\ ~(run >= RepeatMinimum)
    <3>1. d \in 1..Len(input) /\ room \in 1..N /\ room \in 0..N
      BY <1>1, <2>3
    <3>2. end \in {n \in Nat : n > d /\ n <= N + 1 /\ n <= d + RunLimit}
      BY <3>1, LiteralBounds
    <3>3. pack[d] = <<end - d - 1>> \o SubSeq(input, d, end - 1) \o pack[end]
      BY <1>2, <2>3, <3>1, Zenon
    <3> HIDE DEF end, run
    <3> DEFINE count == end - d
               b == SubSeq(input, d, end - 1)
               a == <<end - d - 1>> \o b
    <3>4. end \in D /\ m[end] < m[d] /\ count \in 1..room /\ count \in 1..RunLimit
      BY <1>1, <3>1, <3>2
    <3>5. b \in V /\ Len(b) = count /\ \A x \in 1..count : b[x] = input[d + x - 1]
      <4>1. d \in Int /\ end - 1 \in Int /\ d <= end - 1 /\ (end - 1) - d + 1 = count
        BY <1>1, <3>1, <3>2
      <4>2. \A k \in d..(end - 1) : input[k] \in Bytes
        BY <1>1, <3>1, <3>2
      <4> HIDE DEF count
      <4> QED
        BY <4>1, <4>2, SubSeqProperties
    <3>6. a \in V /\ Len(a) = count + 1 /\ a[1] = count - 1 /\ \A x \in 1..count : a[x + 1] = b[x]
      <4>1. count - 1 \in Bytes
        <5> HIDE DEF count
        <5> QED
          BY <3>4, Header
      <4> DEFINE h == <<end - d - 1>>
      <4>2. h \in V /\ Len(h) = 1 /\ h[1] = count - 1
        <5> HIDE DEF Bytes
        <5> QED
          BY <3>1, <3>2, <4>1
      <4> HIDE DEF h, b, count
      <4>3. /\ h \o b \in V /\ Len(h \o b) = Len(h) + Len(b)
            /\ \A x \in 1..Len(h) : (h \o b)[x] = h[x]
            /\ \A x \in 1..Len(b) : (h \o b)[Len(h) + x] = b[x]
        <5> HIDE DEF Bytes
        <5>1. h \in Seq(Bytes) /\ b \in Seq(Bytes)
          BY <3>5, <4>2
        <5> QED
          BY <5>1, Joined
      <4>4. a = h \o b
        BY DEF h
      <4>5. 1 \in 1..Len(h) /\ (h \o b)[1] = count - 1
        BY <4>2, <4>3
      <4>6. \A x \in 1..count : (h \o b)[1 + x] = b[x]
        BY <3>5, <4>2, <4>3
      <4>7. \A x \in 1..count : 1 + x = x + 1
        OBVIOUS
      <4>8. Len(h \o b) = count + 1
        BY <3>4, <3>5, <4>2, <4>3
      <4> HIDE DEF a, V
      <4> QED
        BY <4>3, <4>4, <4>5, <4>6, <4>7, <4>8
    <3>7. pack[end] \in V
      BY <1>6, <3>4
    <3>8. At(j, a \o pack[end])
      BY <3>3
    <3> HIDE DEF a
    <3>9. /\ At(j + (count + 1), pack[end]) /\ j + (count + 1) <= Len(data) + 1
          /\ \A x \in 1..(count + 1) : data[j - 1 + x] = a[x]
      <4> HIDE DEF At, V, count
      <4> QED
        BY <1>5, <3>6, <3>7, <3>8
    <3>10. data[j] = count - 1 /\ \A x \in 1..count : data[j + x] = b[x]
      <4>1. 1 \in 1..(count + 1) /\ j - 1 + 1 = j
        BY <3>4
      <4>2. \A x \in 1..count : x + 1 \in 1..(count + 1) /\ j - 1 + (x + 1) = j + x
        BY <3>4
      <4> HIDE DEF At, b, count
      <4> QED
        BY <3>6, <3>9, <4>1, <4>2
    <3>11. data[j] < RunLimit /\ count = (data[j] % RunLimit) + 1 /\ j + count <= Len(data)
      <4> HIDE DEF count, b, At
      <4>1. data[j] < RunLimit /\ count = (data[j] % RunLimit) + 1
        BY <3>4, <3>10, Header
      <4> QED
        BY <1>3, <3>4, <3>9, <4>1
    <3> DEFINE w == SubSeq(data, j + 1, j + count)
    <3>12. unpack[<<j, room>>] = {w \o rest : rest \in unpack[<<j + 1 + count, room - count>>]}
      <4> HIDE DEF room, At, count, b
      <4> QED
        BY <1>4, <3>1, <3>4, <3>11
    <3>13. unpack[<<j + 1 + count, room - count>>] = {Rest(end)}
      <4>1. end \in P
        BY <1>9, <3>4
      <4>2. /\ j + (count + 1) \in 1..(Len(data) + 1) /\ N - end + 1 = room - count
            /\ j + (count + 1) = j + 1 + count
        BY <1>1, <1>3, <3>1, <3>2, <3>9
      <4>3. unpack[<<j + (count + 1), N - end + 1>>] = {Rest(end)}
        <5> HIDE DEF At, count
        <5> QED
          BY <3>9, <4>1, <4>2
      <4> QED
        BY <4>2, <4>3
    <3>14. w \in V /\ Len(w) = count /\ \A x \in 1..count : w[x] = input[d + x - 1]
      <4>1. j + 1 \in Int /\ j + count \in Int /\ j + 1 <= j + count /\ (j + count) - (j + 1) + 1 = count
        BY <3>4
      <4>2. \A k \in (j + 1)..(j + count) : data[k] \in Bytes
        BY <1>3, <3>4, <3>11
      <4>3. /\ w \in V /\ Len(w) = count
            /\ \A x \in 1..count : w[x] = data[j + 1 + x - 1]
        <5> HIDE DEF count
        <5> QED
          BY <4>1, <4>2, SubSeqProperties
      <4>4. \A x \in 1..count : j + 1 + x - 1 = j + x
        BY <3>4
      <4> HIDE DEF w, b
      <4> QED
        BY <3>5, <3>10, <4>3, <4>4
    <3>15. {w \o rest : rest \in {Rest(end)}} = {Rest(d)}
      <4>1. end > d
        BY <3>2
      <4> HIDE DEF w, Rest, D, V
      <4> QED
        BY <1>8, <3>4, <3>14, <4>1
    <3> QED
      BY <3>12, <3>13, <3>15
  <2>4. d > N \/ d <= N
    BY <1>1
  <2> HIDE DEF run, At, Rest, P, N
  <2> QED
    BY <2>1, <2>2, <2>3, <2>4
<1>10. \A d \in D : d \in P
  <2>1. m \in [D -> Nat]
    BY <1>1
  <2> HIDE DEF P, m, D
  <2> QED
    BY <1>9, <2>1, MeasureInduction
<1>11. unpack[<<1, N>>] = {input}
  <2>1. 1 \in D /\ 1 \in 1..(Len(data) + 1) /\ N - 1 + 1 = N
    BY <1>1, <1>3
  <2>2. At(1, pack[1])
    BY <1>2, <1>3, <2>1 DEF data
  <2>3. unpack[<<1, N - 1 + 1>>] = {Rest(1)}
    <3> HIDE DEF At
    <3> QED
      BY <1>10, <2>1, <2>2
  <2>4. Rest(1) = input
    BY <1>7, <2>1, SeqEqual
  <2> QED
    BY <2>1, <2>3, <2>4
<1> QED
  BY <1>3, <1>4, <1>11 DEF data

(***************************************************************************)
(* Pixels                                                                  *)
(***************************************************************************)
Rects == [x : Nat, y : Nat, width : Nat, height : Nat]
Columns == 0..(layout.width - 1)
Rows    == 0..(layout.height - 1)

LEMMA Sizes ==
  ASSUME layout \in Layouts, tile_size \in TileSizes
  PROVE  /\ layout.width \in Nat \ {0} /\ layout.height \in Nat \ {0}
         /\ layout.stride \in Nat \ {0} /\ layout.stride >= layout.width
         /\ tile_size \in Nat \ {0} /\ RunLimit \in Nat \ {0} /\ RegionLimit \in Nat \ {0}
         /\ Pixel \subseteq Bytes
BY RegionAssumption DEF Bytes, RepeatMinimum

\* Row and column of an index, and back.
LEMMA IndexOf ==
  ASSUME NEW w \in Nat \ {0}, NEW h \in Nat, NEW row \in 0..(h - 1), NEW column \in 0..(w - 1)
  PROVE  /\ row * w + column + 1 \in 1..(w * h)
         /\ (row * w + column + 1 - 1) % w = column
         /\ (row * w + column + 1 - 1) \div w = row
<1>1. row \in Nat /\ row * w \in Nat /\ row < h
  OBVIOUS
<1>2. row * w + column < h * w
  BY <1>1
<1>3. (row * w + column) % w = column
  BY <1>1
<1>4. (row * w + column) \div w = row
  BY <1>1
<1>5. h * w = w * h /\ w * h \in Nat
  OBVIOUS
<1>6. row * w + column + 1 - 1 = row * w + column
  BY <1>1
<1> QED
  BY <1>1, <1>2, <1>3, <1>4, <1>5, <1>6

LEMMA PlaceOf ==
  ASSUME NEW w \in Nat \ {0}, NEW h \in Nat, NEW i \in 1..(w * h)
  PROVE  (i - 1) % w \in 0..(w - 1) /\ (i - 1) \div w \in 0..(h - 1)
<1>1. i - 1 \in Nat /\ i - 1 < w * h /\ w * h \in Nat
  OBVIOUS
<1>2. (i - 1) % w \in 0..(w - 1)
  BY <1>1
<1>3. (i - 1) \div w \in Nat /\ (i - 1) \div w < h
  BY <1>1
<1> QED
  BY <1>2, <1>3

LEMMA PixelIsShown ==
  ASSUME layout \in Layouts, tile_size \in TileSizes, NEW data \in Captured,
         NEW x \in Columns, NEW y \in Rows
  PROVE  PixelAt(data, x, y) \in Pixel
<1> DEFINE W == layout.width
           H == layout.height
           St == layout.stride
<1>1. W \in Nat \ {0} /\ H \in Nat \ {0} /\ St \in Nat \ {0} /\ St >= W
  BY Sizes
<1>2. PICK pixels \in [1..(W * H) -> Pixel] : data = FrameOf(pixels)
  BY DEF Captured
<1> DEFINE i == y * St + x + 1
<1>3. i \in 1..(St * H) /\ (i - 1) % St = x /\ (i - 1) \div St = y
  <2>1. y \in 0..(H - 1) /\ x \in 0..(St - 1)
    BY <1>1 DEF Rows, Columns
  <2> HIDE DEF W, H, St
  <2> QED
    BY <1>1, <2>1, IndexOf
<1>4. y * W + x + 1 \in 1..(W * H) /\ x < W
  <2>1. y \in 0..(H - 1) /\ x \in 0..(W - 1)
    BY <1>1 DEF Rows, Columns
  <2>2. x < W
    BY <1>1, <2>1
  <2> HIDE DEF W, H, St
  <2> QED
    BY <1>1, <2>1, <2>2, IndexOf
<1>5. data = [j \in 1..(St * H) |->
                LET a == (j - 1) % St
                    b == (j - 1) \div St
                IN  IF a < W THEN pixels[b * W + a + 1] ELSE 0]
  BY <1>2 DEF FrameOf
<1>6. data[i] = pixels[y * W + x + 1]
  <2> HIDE DEF W, H, St, i
  <2> QED
    BY <1>3, <1>4, <1>5
<1>7. PixelAt(data, x, y) = data[i]
  BY DEF PixelAt
<1> QED
  <2> HIDE DEF W, H, St, i
  <2> QED
    BY <1>2, <1>4, <1>6, <1>7

LEMMA VisibleIsAFrame ==
  ASSUME layout \in Layouts, tile_size \in TileSizes, NEW data \in Captured
  PROVE  Visible(data) \in [1..(layout.width * layout.height) -> Pixel] /\ Visible(data) # <<>>
<1> DEFINE W == layout.width
           H == layout.height
<1>1. W \in Nat \ {0} /\ H \in Nat \ {0}
  BY Sizes
<1>2. ASSUME NEW i \in 1..(W * H)
      PROVE  (i - 1) % W \in Columns /\ (i - 1) \div W \in Rows
  <2> HIDE DEF W, H
  <2>1. (i - 1) % W \in 0..(W - 1) /\ (i - 1) \div W \in 0..(H - 1)
    BY <1>1, PlaceOf
  <2> QED
    BY <2>1 DEF Columns, Rows, W, H
<1>3. ASSUME NEW i \in 1..(W * H)
      PROVE  PixelAt(data, (i - 1) % W, (i - 1) \div W) \in Pixel
  <2> HIDE DEF W, H
  <2> QED
    BY <1>2, PixelIsShown
<1>4. Visible(data) = [i \in 1..(W * H) |-> PixelAt(data, (i - 1) % W, (i - 1) \div W)]
  BY DEF Visible
<1>5. Visible(data) \in [1..(W * H) -> Pixel]
  <2> HIDE DEF W, H
  <2> QED
    BY <1>3, <1>4
<1>6. 1 \in 1..(W * H)
  <2>1. 0 \in 0..(H - 1) /\ 0 \in 0..(W - 1)
    BY <1>1
  <2> HIDE DEF W, H
  <2>2. 0 * W + 0 + 1 \in 1..(W * H)
    BY <1>1, <2>1, IndexOf
  <2> QED
    BY <1>1, <2>2
<1>7. Visible(data) # <<>>
  <2> HIDE DEF W, H
  <2>1. DOMAIN Visible(data) # {}
    BY <1>5, <1>6
  <2> QED
    BY <2>1
<1> QED
  BY <1>5, <1>7

\* The pixels of a region, and where one of them stands among them.
LEMMA RegionPart ==
  ASSUME layout \in Layouts, tile_size \in TileSizes, NEW data \in Captured,
         NEW r \in Rects, InFrame(r)
  PROVE  /\ RegionPixels(data, r) \in Seq(Pixel)
         /\ Area(r) \in Nat /\ Len(RegionPixels(data, r)) = Area(r)
         /\ \A x \in Columns, y \in Rows : Inside(r, x, y) =>
              /\ (y - r.y) * r.width + (x - r.x) + 1 \in 1..Area(r)
              /\ RegionPixels(data, r)[(y - r.y) * r.width + (x - r.x) + 1] = PixelAt(data, x, y)
<1> DEFINE W == layout.width
           H == layout.height
           w == r.width
           h == r.height
           X == r.x
           Y == r.y
<1>1. /\ W \in Nat \ {0} /\ H \in Nat \ {0} /\ w \in Nat \ {0} /\ h \in Nat \ {0}
      /\ X \in Nat /\ Y \in Nat /\ X + w <= W /\ Y + h <= H
  BY Sizes DEF Rects, InFrame, Right, Bottom
<1>2. Area(r) = w * h /\ Area(r) \in Nat
  BY <1>1 DEF Area
<1>3. RegionPixels(data, r) =
        [i \in 1..(w * h) |-> PixelAt(data, X + ((i - 1) % w), Y + ((i - 1) \div w))]
  BY DEF RegionPixels, Area
<1>4. ASSUME NEW i \in 1..(w * h)
      PROVE  PixelAt(data, X + ((i - 1) % w), Y + ((i - 1) \div w)) \in Pixel
  <2> HIDE DEF w, h, X, Y
  <2>1. (i - 1) % w \in 0..(w - 1) /\ (i - 1) \div w \in 0..(h - 1)
    BY <1>1, PlaceOf
  <2> DEFINE a == (i - 1) % w
             b == (i - 1) \div w
  <2> HIDE DEF a, b
  <2>2. a \in 0..(w - 1) /\ b \in 0..(h - 1)
    BY <2>1 DEF a, b
  <2>3. X + a \in Columns /\ Y + b \in Rows
    BY <1>1, <2>2 DEF Columns, Rows
  <2>4. PixelAt(data, X + a, Y + b) \in Pixel
    BY <2>3, PixelIsShown
  <2> QED
    BY <2>4 DEF a, b
<1>5. RegionPixels(data, r) \in [1..Area(r) -> Pixel]
  <2> HIDE DEF w, h, X, Y
  <2> QED
    BY <1>2, <1>3, <1>4
<1>6. RegionPixels(data, r) \in Seq(Pixel) /\ Len(RegionPixels(data, r)) = Area(r)
  BY <1>2, <1>5, IsASeq
<1>7. ASSUME NEW x \in Columns, NEW y \in Rows, Inside(r, x, y)
      PROVE  /\ (y - Y) * w + (x - X) + 1 \in 1..Area(r)
             /\ RegionPixels(data, r)[(y - Y) * w + (x - X) + 1] = PixelAt(data, x, y)
  <2> DEFINE b == y - Y
             a == x - X
             i == b * w + a + 1
  <2>1. a \in 0..(w - 1) /\ b \in 0..(h - 1) /\ X + a = x /\ Y + b = y
    BY <1>1, <1>7 DEF Inside, Right, Bottom, Columns, Rows
  <2> HIDE DEF a, b, w, h, X, Y
  <2>2. i \in 1..(w * h) /\ (i - 1) % w = a /\ (i - 1) \div w = b
    BY <1>1, <2>1, IndexOf
  <2> HIDE DEF i
  <2>3. RegionPixels(data, r)[i] = PixelAt(data, x, y)
    BY <1>3, <2>1, <2>2
  <2> QED
    BY <1>2, <2>2, <2>3 DEF i, a, b
<1> QED
  BY <1>2, <1>6, <1>7

(***************************************************************************)
(* The payload of an update                                                *)
(***************************************************************************)
InFrameRegions == {regions \in Seq(Rects) : \A k \in 1..Len(regions) : InFrame(regions[k])}

LEMMA OffsetsEquation ==
  ASSUME layout \in Layouts, tile_size \in TileSizes, NEW regions \in InFrameRegions
  PROVE  /\ Offsets(regions) \in [0..Len(regions) -> Nat]
         /\ Offsets(regions)[0] = 0
         /\ \A k \in 1..Len(regions) :
              Offsets(regions)[k] = Offsets(regions)[k - 1] + Area(regions[k])
<1> DEFINE N == Len(regions)
           D == 0..N
           m == [k \in D |-> k]
           Equation(f) == f = [k \in D |-> IF k = 0 THEN 0 ELSE f[k - 1] + Area(regions[k])]
           F == CHOOSE f : Equation(f)
           Step == [a \in D \X [D -> Nat] |->
                      IF a[1] = 0 THEN 0 ELSE a[2][a[1] - 1] + Area(regions[a[1]])]
<1>1. N \in Nat
  BY LenProperties DEF InFrameRegions
<1>2. Offsets(regions) = F
  BY Zenon DEF Offsets
<1>3. \A d \in D : d # 0 => d - 1 \in D /\ m[d - 1] < m[d] /\ Area(regions[d]) \in Nat
  <2> SUFFICES ASSUME NEW d \in D, d # 0
               PROVE  d - 1 \in D /\ m[d - 1] < m[d] /\ Area(regions[d]) \in Nat
    OBVIOUS
  <2>1. d \in 1..N
    BY <1>1
  <2>2. regions[d] \in Rects
    BY <2>1 DEF InFrameRegions
  <2>3. Area(regions[d]) \in Nat
    BY <2>2 DEF Rects, Area
  <2> QED
    BY <1>1, <2>1, <2>3
<1>4. m \in [D -> 0..N] /\ m \in [D -> Nat]
  BY <1>1
<1> HIDE DEF N, D
<1>5. Step \in [D \X [D -> Nat] -> Nat]
  <2>1. \A d \in D : \A g \in [D -> Nat] : d # 0 => g[d - 1] + Area(regions[d]) \in Nat
    <3> HIDE DEF m
    <3> QED
      BY <1>3
  <2>2. \A a \in D \X [D -> Nat] : a[1] \in D /\ a[2] \in [D -> Nat]
    OBVIOUS
  <2> QED
    BY <2>1, <2>2
<1>6. Grounded(D, Nat, N, m, Step)
  <2>1. \A d \in D : \A g \in [D -> Nat] :
          Step[<<d, g>>] = IF d = 0 THEN 0 ELSE g[d - 1] + Area(regions[d])
    OBVIOUS
  <2> HIDE DEF Step
  <2>2. ASSUME NEW d \in D, NEW g \in [D -> Nat], NEW h \in [D -> Nat],
               \A e \in D : m[e] < m[d] => g[e] = h[e]
        PROVE  Step[<<d, g>>] = Step[<<d, h>>]
    <3>1. d # 0 => g[d - 1] = h[d - 1]
      <4> HIDE DEF m
      <4> QED
        BY <1>3, <2>2
    <3> QED
      BY <2>1, <3>1
  <2> QED
    BY <1>1, <1>4, <1>5, <2>2 DEF Grounded
<1>7. PICK f \in [D -> Nat] : \A d \in D : f[d] = Step[<<d, f>>]
  <2> HIDE DEF Step, m
  <2>1. Solutions(D, Nat, Step) # {}
    BY <1>1, <1>6, Recursion
  <2> QED
    BY <2>1 DEF Solutions
<1>8. Equation(f)
  BY <1>7
<1>9. Equation(F)
  <2> HIDE DEF Equation
  <2> QED
    BY <1>8
<1>10. F = [k \in D |-> IF k = 0 THEN 0 ELSE F[k - 1] + Area(regions[k])]
  BY <1>9
<1> HIDE DEF F
<1> DEFINE P == {d \in D : F[d] \in Nat}
<1>11. ASSUME NEW d \in D, \A e \in D : m[e] < m[d] => e \in P PROVE d \in P
  <2>1. F[d] = IF d = 0 THEN 0 ELSE F[d - 1] + Area(regions[d])
    BY <1>10
  <2>2. d # 0 => F[d - 1] \in Nat /\ Area(regions[d]) \in Nat
    BY <1>3, <1>11
  <2> QED
    BY <2>1, <2>2
<1>12. \A d \in D : d \in P
  <2> HIDE DEF P, m
  <2> QED
    BY <1>4, <1>11, MeasureInduction
<1>13. F \in [D -> Nat]
  BY <1>10, <1>12
<1>14. 0 \in D /\ \A k \in 1..N : k \in D /\ k # 0
  BY <1>1 DEF D
<1>15. F[0] = 0 /\ \A k \in 1..N : F[k] = F[k - 1] + Area(regions[k])
  BY <1>10, <1>14
<1> QED
  BY <1>2, <1>13, <1>15 DEF N, D

\* The payload before packing: the part of each region behind the parts of those before.
LEMMA RawPayload ==
  ASSUME layout \in Layouts, tile_size \in TileSizes, NEW data \in Captured,
         NEW regions \in InFrameRegions
  PROVE  /\ Raw(data, regions) \in Seq(Bytes)
         /\ PayloadSize(regions) \in Nat /\ Len(Raw(data, regions)) = PayloadSize(regions)
         /\ \A k \in 1..Len(regions) : \A j \in 1..Area(regions[k]) :
              Raw(data, regions)[Offsets(regions)[k - 1] + j] = RegionPixels(data, regions[k])[j]
<1> DEFINE N == Len(regions)
           off == Offsets(regions)
           seqs == [k \in DOMAIN regions |-> RegionPixels(data, regions[k])]
<1>1. N \in Nat /\ DOMAIN regions = 1..N
  BY LenProperties DEF InFrameRegions
<1>2. ASSUME NEW k \in 1..N
      PROVE  /\ RegionPixels(data, regions[k]) \in Seq(Bytes)
             /\ Len(RegionPixels(data, regions[k])) = Area(regions[k])
  <2>1. regions[k] \in Rects /\ InFrame(regions[k])
    BY DEF InFrameRegions
  <2>2. /\ RegionPixels(data, regions[k]) \in Seq(Pixel)
        /\ Len(RegionPixels(data, regions[k])) = Area(regions[k])
    BY <2>1, RegionPart
  <2>3. Pixel \subseteq Bytes
    BY Sizes
  <2> QED
    <3> HIDE DEF Bytes
    <3> QED
      BY <2>2, <2>3
<1>3. seqs \in Seq(Seq(Bytes)) /\ Len(seqs) = N /\ \A k \in 1..N : seqs[k] = RegionPixels(data, regions[k])
  <2> HIDE DEF N, Bytes
  <2>1. seqs \in [1..N -> Seq(Bytes)]
    BY <1>1, <1>2
  <2> QED
    BY <1>1, <2>1, IsASeq
<1>4. off \in [0..N -> Nat] /\ off[0] = 0 /\ \A k \in 1..N : off[k] = off[k - 1] + Area(regions[k])
  BY OffsetsEquation
<1>5. Raw(data, regions) = FlattenSeq(seqs) /\ PayloadSize(regions) = off[N]
  BY DEF Raw, PayloadSize
<1> HIDE DEF seqs, off, N
<1>6. FlattenSeq(seqs) \in Seq(Bytes)
  BY <1>3, FlattenRange
<1>7. off \in EndsOf(seqs)
  BY <1>2, <1>3, <1>4 DEF EndsOf
<1>8. /\ Len(FlattenSeq(seqs)) = off[Len(seqs)]
      /\ \A k \in 1..Len(seqs) : \A j \in 1..Len(seqs[k]) :
           FlattenSeq(seqs)[off[k - 1] + j] = seqs[k][j]
  <2>1. seqs \in Seq(Seq(Bytes))
    BY <1>3
  <2> QED
    BY <1>7, <2>1, FlattenAt
<1>9. off[N] \in Nat
  BY <1>1, <1>4
<1>10. \A k \in 1..N : \A j \in 1..Area(regions[k]) :
          Raw(data, regions)[off[k - 1] + j] = RegionPixels(data, regions[k])[j]
  BY <1>2, <1>3, <1>5, <1>8
<1>11. Len(Raw(data, regions)) = off[N]
  BY <1>3, <1>5, <1>8
<1> QED
  BY <1>5, <1>6, <1>9, <1>10, <1>11 DEF N, off

\* The viewer decodes exactly what the host put into the update.
LEMMA PayloadOfUpdate ==
  ASSUME layout \in Layouts, tile_size \in TileSizes, NEW data \in Captured,
         NEW regions \in InFrameRegions
  PROVE  /\ Payloads(RegionUpdateOf(data, regions)) = {Raw(data, regions)}
         /\ RegionUpdateOf(data, regions).data \in Seq(Bytes)
<1> DEFINE raw == Raw(data, regions)
           packed == PackBits(raw)
           u == RegionUpdateOf(data, regions)
           size == PayloadSize(regions)
<1>1. raw \in Seq(Bytes) /\ size \in Nat /\ Len(raw) = size
  BY RawPayload
<1>2. packed \in Seq(Bytes) /\ UnpackBits(packed, size) = {raw}
  <2> HIDE DEF raw, size
  <2> QED
    BY <1>1, Lossless
<1>3. u = [type |-> "DesktopUpdate", regions |-> regions,
           encoding |-> IF Len(packed) < Len(raw) THEN "pack_bits" ELSE "raw",
           data     |-> IF Len(packed) < Len(raw) THEN packed ELSE raw]
  BY DEF RegionUpdateOf
<1> HIDE DEF raw, packed, u
<1>4. /\ u.regions = regions
      /\ u.encoding = IF Len(packed) < Len(raw) THEN "pack_bits" ELSE "raw"
      /\ u.data = IF Len(packed) < Len(raw) THEN packed ELSE raw
  BY <1>3
<1>5. ~\E k \in DOMAIN u.regions : ~InFrame(u.regions[k])
  BY <1>4, LenProperties DEF InFrameRegions
<1>6. Payloads(u) = IF u.encoding = "pack_bits" THEN UnpackBits(u.data, size)
                    ELSE IF Len(u.data) = size THEN {u.data} ELSE {}
  BY <1>4, <1>5 DEF Payloads
<1>7. Payloads(u) = {raw} /\ u.data \in Seq(Bytes)
  <2> HIDE DEF size, Bytes
  <2>1. CASE Len(packed) < Len(raw)
    BY <1>1, <1>2, <1>4, <1>6, <2>1
  <2>2. CASE ~(Len(packed) < Len(raw))
    BY <1>1, <1>2, <1>4, <1>6, <2>2
  <2> QED
    BY <2>1, <2>2
<1> QED
  BY <1>7 DEF u, raw

\* Patching regions that cover every changed pixel turns one frame into the other.
LEMMA PatchedFrame ==
  ASSUME layout \in Layouts, tile_size \in TileSizes, NEW base \in Captured,
         NEW current \in Captured, NEW regions \in InFrameRegions,
         \A x \in Columns, y \in Rows :
           PixelAt(base, x, y) # PixelAt(current, x, y) =>
             \E k \in 1..Len(regions) : Inside(regions[k], x, y)
  PROVE  Patched(Visible(base), regions, Raw(current, regions)) = Visible(current)
<1> DEFINE W == layout.width
           H == layout.height
           X(i) == (i - 1) % W
           Y(i) == (i - 1) \div W
           N == Len(regions)
           over(i) == {k \in DOMAIN regions : Inside(regions[k], X(i), Y(i))}
           top(i) == regions[Max(over(i))]
           raw == Raw(current, regions)
           off == Offsets(regions)
           New(i) == IF over(i) = {} THEN Visible(base)[i]
                     ELSE raw[off[Max(over(i)) - 1] + (Y(i) - top(i).y) * top(i).width
                                + (X(i) - top(i).x) + 1]
           D == 1..(W * H)
<1>1. W \in Nat \ {0} /\ H \in Nat \ {0}
  BY Sizes
<1>2. N \in Nat /\ DOMAIN regions = 1..N
  BY LenProperties DEF InFrameRegions
<1>3. DOMAIN Visible(base) = D
  BY VisibleIsAFrame
<1>4. Patched(Visible(base), regions, raw) = [i \in DOMAIN Visible(base) |-> New(i)]
  BY Zenon DEF Patched
<1>5. ASSUME NEW i \in D PROVE X(i) \in Columns /\ Y(i) \in Rows
  <2> HIDE DEF W, H
  <2>1. (i - 1) % W \in 0..(W - 1) /\ (i - 1) \div W \in 0..(H - 1)
    BY <1>1, PlaceOf
  <2> QED
    BY <2>1 DEF Columns, Rows, W, H
<1>6. \A i \in D : /\ Visible(base)[i] = PixelAt(base, X(i), Y(i))
                   /\ Visible(current)[i] = PixelAt(current, X(i), Y(i))
  BY DEF Visible
<1>7. ASSUME NEW i \in D PROVE New(i) = Visible(current)[i]
  <2> HIDE DEF X, Y
  <2>1. CASE over(i) = {}
    <3>1. ~\E k \in 1..N : Inside(regions[k], X(i), Y(i))
      BY <1>2, <2>1
    <3>2. PixelAt(base, X(i), Y(i)) = PixelAt(current, X(i), Y(i))
      BY <1>5, <3>1
    <3> HIDE DEF over
    <3> QED
      BY <1>6, <2>1, <3>2
  <2>2. CASE over(i) # {}
    <3> DEFINE k == Max(over(i))
               r == regions[k]
               j == (Y(i) - r.y) * r.width + (X(i) - r.x) + 1
    <3>1. k \in over(i)
      <4>1. over(i) \in SUBSET Nat /\ \A n \in over(i) : n <= N
        BY <1>2
      <4> HIDE DEF over, N
      <4> QED
        BY <1>2, <2>2, <4>1, MaxOf
    <3>2. k \in 1..N /\ Inside(r, X(i), Y(i))
      BY <1>2, <3>1
    <3>3. r \in Rects /\ InFrame(r)
      <4> HIDE DEF k
      <4> QED
        BY <3>2 DEF InFrameRegions
    <3> HIDE DEF over, k
    <3>4. j \in 1..Area(r) /\ RegionPixels(current, r)[j] = PixelAt(current, X(i), Y(i))
      <4> HIDE DEF r
      <4> QED
        BY <1>5, <3>2, <3>3, RegionPart
    <3>5. raw[off[k - 1] + j] = RegionPixels(current, r)[j]
      <4> HIDE DEF j
      <4> QED
        BY <3>2, <3>4, RawPayload
    <3>6. New(i) = raw[off[k - 1] + (Y(i) - r.y) * r.width + (X(i) - r.x) + 1]
      BY <2>2 DEF k
    <3>7. off[k - 1] + j = off[k - 1] + (Y(i) - r.y) * r.width + (X(i) - r.x) + 1
      <4>1. k - 1 \in 0..N
        BY <1>2, <3>2
      <4>2. off[k - 1] \in Nat
        BY <4>1, OffsetsEquation
      <4>3. Y(i) \in Int /\ X(i) \in Int /\ r.y \in Int /\ r.x \in Int /\ r.width \in Int
        BY <1>5, <3>3 DEF Columns, Rows, Rects
      <4>4. (Y(i) - r.y) * r.width \in Int
        BY <4>3
      <4> DEFINE o == off[k - 1]
                 p == (Y(i) - r.y) * r.width
                 q == X(i) - r.x
      <4>5. o \in Int /\ p \in Int /\ q \in Int
        BY <4>2, <4>3, <4>4
      <4> HIDE DEF o, p, q
      <4>6. o + (p + q + 1) = o + p + q + 1
        BY <4>5
      <4> QED
        BY <4>6 DEF o, p, q
    <3> HIDE DEF j, r, New
    <3> QED
      BY <1>6, <3>4, <3>5, <3>6, <3>7
  <2> QED
    BY <2>1, <2>2
<1>8. Visible(current) = [i \in D |-> Visible(current)[i]]
  BY VisibleIsAFrame
<1> HIDE DEF New, D, raw
<1>9. Patched(Visible(base), regions, raw) = [i \in D |-> Visible(current)[i]]
  BY <1>3, <1>4, <1>7
<1> QED
  BY <1>8, <1>9 DEF raw

(***************************************************************************)
(* The detector                                                            *)
(***************************************************************************)
FrameRects == {r \in Rects : InFrame(r)}

\* Borders of tiles are in order and in the frame, and every pixel is in a tile.
LEMMA Borders ==
  ASSUME NEW size \in Nat \ {0}, NEW total \in Nat \ {0}
  PROVE  /\ (total + size - 1) \div size \in Nat
         /\ \A n \in Nat : Least(n * size, total) \in 0..total
         /\ \A n, k \in Nat : n <= k => Least(n * size, total) <= Least(k * size, total)
         /\ \A p \in 0..(total - 1) :
              /\ p \div size \in 0..(((total + size - 1) \div size) - 1)
              /\ Least((p \div size) * size, total) <= p
              /\ p < Least((p \div size + 1) * size, total)
<1>1. (total + size - 1) \div size \in Nat
  BY total + size - 1 \in Nat
<1>2. ASSUME NEW n \in Nat PROVE n * size \in Nat /\ Least(n * size, total) \in 0..total
  <2>1. n * size \in Nat
    OBVIOUS
  <2> DEFINE a == n * size
  <2> HIDE DEF a
  <2>2. a \in Nat
    BY <2>1 DEF a
  <2>3. Least(a, total) \in 0..total
    BY <2>2 DEF Least
  <2> QED
    BY <2>1, <2>3 DEF a
<1>3. ASSUME NEW n \in Nat, NEW k \in Nat, n <= k
      PROVE  Least(n * size, total) <= Least(k * size, total)
  <2>1. n * size <= k * size
    BY <1>3
  <2> DEFINE a == n * size
             b == k * size
  <2>2. a \in Nat /\ b \in Nat /\ a <= b
    BY <1>2, <2>1
  <2> HIDE DEF a, b
  <2>3. Least(a, total) <= Least(b, total)
    BY <2>2 DEF Least
  <2> QED
    BY <2>3 DEF a, b
<1>4. ASSUME NEW p \in 0..(total - 1)
      PROVE  /\ p \div size \in 0..(((total + size - 1) \div size) - 1)
             /\ Least((p \div size) * size, total) <= p
             /\ p < Least((p \div size + 1) * size, total)
  <2> DEFINE q == p \div size
             last == (total + size - 1) \div size
  <2>1. p \in Nat /\ p < total
    OBVIOUS
  <2>2. q \in Nat /\ q * size <= p /\ p < q * size + size
    BY <2>1
  <2>3. q < last
    BY <2>1
  <2>4. last \in Nat
    BY <1>1
  <2> HIDE DEF q, last
  <2>5. (q + 1) * size = q * size + size
    BY <2>2
  <2> DEFINE a == q * size
             b == (q + 1) * size
  <2>6. a \in Nat /\ b \in Nat /\ a <= p /\ p < b
    BY <1>2, <2>2, <2>5
  <2> HIDE DEF a, b
  <2>7. Least(a, total) <= p /\ p < Least(b, total)
    BY <2>1, <2>6 DEF Least
  <2>8. q \in 0..(last - 1)
    BY <2>2, <2>3, <2>4
  <2> QED
    BY <2>7, <2>8 DEF q, last, a, b
<1> QED
  BY <1>1, <1>2, <1>3, <1>4

LEMMA Tiles ==
  ASSUME layout \in Layouts, tile_size \in TileSizes
  PROVE  /\ TilesX \in Nat /\ TilesY \in Nat
         /\ \A n \in Nat : ColumnAt(n) \in 0..layout.width /\ RowAt(n) \in 0..layout.height
         /\ \A n, k \in Nat : n <= k => ColumnAt(n) <= ColumnAt(k) /\ RowAt(n) <= RowAt(k)
         /\ \A x \in Columns : \E n \in 0..(TilesX - 1) : ColumnAt(n) <= x /\ x < ColumnAt(n + 1)
         /\ \A y \in Rows : \E n \in 0..(TilesY - 1) : RowAt(n) <= y /\ y < RowAt(n + 1)
<1> DEFINE W == layout.width
           H == layout.height
           size == tile_size
<1>1. W \in Nat \ {0} /\ H \in Nat \ {0} /\ size \in Nat \ {0}
  BY Sizes
<1>2. /\ TilesX = (W + size - 1) \div size /\ TilesY = (H + size - 1) \div size
      /\ \A n : ColumnAt(n) = Least(n * size, W) /\ RowAt(n) = Least(n * size, H)
      /\ Columns = 0..(W - 1) /\ Rows = 0..(H - 1)
  BY DEF TilesX, TilesY, ColumnAt, RowAt, Columns, Rows
<1> HIDE DEF W, H, size
<1>3. /\ TilesX \in Nat
      /\ \A n \in Nat : ColumnAt(n) \in 0..W
      /\ \A n, k \in Nat : n <= k => ColumnAt(n) <= ColumnAt(k)
      /\ \A x \in Columns : /\ x \div size \in 0..(TilesX - 1)
                            /\ ColumnAt(x \div size) <= x /\ x < ColumnAt(x \div size + 1)
  BY <1>1, <1>2, Borders
<1>4. /\ TilesY \in Nat
      /\ \A n \in Nat : RowAt(n) \in 0..H
      /\ \A n, k \in Nat : n <= k => RowAt(n) <= RowAt(k)
      /\ \A y \in Rows : /\ y \div size \in 0..(TilesY - 1)
                         /\ RowAt(y \div size) <= y /\ y < RowAt(y \div size + 1)
  BY <1>1, <1>2, Borders
<1> QED
  BY <1>3, <1>4 DEF W, H

\* The run of changed tiles that ends in front of a tile.
LEMMA RunOfTiles ==
  ASSUME layout \in Layouts, tile_size \in TileSizes, NEW base, NEW current,
         NEW e \in 1..TilesX, NEW row \in 0..(TilesY - 1)
  PROVE  /\ RunBefore(base, current, e, row) \in Seq(FrameRects)
         /\ \A t \in 0..(e - 1) :
              /\ \A u \in t..(e - 1) : TileChanged(base, current, u, row)
              /\ e = TilesX \/ ~TileChanged(base, current, e, row)
              => \E r \in FrameRects :
                   /\ RunBefore(base, current, e, row) = <<r>>
                   /\ r.x <= ColumnAt(t) /\ Right(r) = ColumnAt(e)
                   /\ r.y = RowAt(row) /\ Bottom(r) = RowAt(row + 1)
<1> DEFINE changed(t) == t \in 0..(TilesX - 1) /\ TileChanged(base, current, t, row)
           starts == {t \in 0..(e - 1) : \A u \in t..(e - 1) : changed(u)}
           s == Min(starts)
           r == Rect(ColumnAt(s), RowAt(row), ColumnAt(e), RowAt(row + 1))
           run == RunBefore(base, current, e, row)
<1>1. TilesX \in Nat /\ TilesY \in Nat /\ e \in Nat /\ row \in Nat
  BY Tiles
<1>2. run = IF starts = {} \/ changed(e) THEN <<>> ELSE <<r>>
  BY Zenon DEF RunBefore
<1>3. ASSUME starts # {}
      PROVE  /\ s \in 0..(e - 1) /\ \A t \in starts : s <= t
             /\ r \in FrameRects
             /\ r.x = ColumnAt(s) /\ Right(r) = ColumnAt(e)
             /\ r.y = RowAt(row) /\ Bottom(r) = RowAt(row + 1)
  <2>1. s \in starts /\ \A t \in starts : s <= t
    <3>1. starts \in SUBSET Nat
      BY <1>1
    <3> HIDE DEF starts
    <3> QED
      BY <1>3, <3>1, MinOf
  <2>2. s \in 0..(e - 1) /\ TileChanged(base, current, s, row)
    <3>1. s \in 0..(e - 1) /\ \A u \in s..(e - 1) : changed(u)
      BY <2>1
    <3> HIDE DEF s
    <3>2. s \in s..(e - 1)
      BY <1>1, <3>1
    <3> QED
      BY <3>1, <3>2
  <2> HIDE DEF s, starts
  <2>3. PICK x \in ColumnAt(s)..(ColumnAt(s + 1) - 1), y \in RowAt(row)..(RowAt(row + 1) - 1) : TRUE
    BY <2>2 DEF TileChanged
  <2>4. /\ s \in Nat /\ s + 1 \in Nat /\ row + 1 \in Nat
        /\ ColumnAt(s) \in 0..layout.width /\ ColumnAt(s + 1) \in 0..layout.width
        /\ ColumnAt(e) \in 0..layout.width
        /\ RowAt(row) \in 0..layout.height /\ RowAt(row + 1) \in 0..layout.height
    BY <1>1, <2>2, Tiles
  <2>5. ColumnAt(s) < ColumnAt(s + 1) /\ RowAt(row) < RowAt(row + 1)
    <3>1. layout.width \in Nat /\ layout.height \in Nat
      BY Sizes
    <3> QED
      BY <2>3, <2>4, <3>1
  <2>6. ColumnAt(s + 1) <= ColumnAt(e)
    BY <1>1, <2>2, <2>4, Tiles
  <2> DEFINE a == ColumnAt(s)
             b == ColumnAt(e)
             c == RowAt(row)
             d == RowAt(row + 1)
  <2>7. /\ a \in Nat /\ b \in Nat /\ c \in Nat /\ d \in Nat
        /\ a < b /\ c < d /\ b <= layout.width /\ d <= layout.height
    <3>1. layout.width \in Nat /\ layout.height \in Nat
      BY Sizes
    <3> QED
      BY <2>4, <2>5, <2>6, <3>1
  <2>8. r = [x |-> a, y |-> c, width |-> b - a, height |-> d - c]
    BY DEF Rect
  <2> HIDE DEF a, b, c, d, r
  <2>9. r \in Rects /\ r.x = a /\ r.y = c /\ r.width = b - a /\ r.height = d - c
    BY <2>7, <2>8 DEF Rects
  <2>10. Right(r) = b /\ Bottom(r) = d
    BY <2>7, <2>9 DEF Right, Bottom
  <2>11. InFrame(r)
    BY <2>7, <2>9, <2>10 DEF InFrame
  <2> QED
    BY <2>1, <2>2, <2>9, <2>10, <2>11 DEF a, b, c, d, FrameRects
<1>4. run \in Seq(FrameRects)
  <2> HIDE DEF r, starts, changed
  <2>1. CASE starts = {} \/ changed(e)
    BY <1>2, <2>1, EmptySeq
  <2>2. CASE ~(starts = {} \/ changed(e))
    BY <1>2, <1>3, <2>2
  <2> QED
    BY <2>1, <2>2
<1>5. ASSUME NEW t \in 0..(e - 1), \A u \in t..(e - 1) : TileChanged(base, current, u, row),
             e = TilesX \/ ~TileChanged(base, current, e, row)
      PROVE  \E q \in FrameRects :
                   /\ run = <<q>>
                   /\ q.x <= ColumnAt(t) /\ Right(q) = ColumnAt(e)
                   /\ q.y = RowAt(row) /\ Bottom(q) = RowAt(row + 1)
  <2>1. t \in starts
    BY <1>1, <1>5
  <2>2. ~changed(e)
    BY <1>1, <1>5
  <2> HIDE DEF starts, changed, run, s, r
  <2>3. run = <<r>> /\ r \in FrameRects /\ s \in 0..(e - 1) /\ s <= t
    BY <1>2, <1>3, <2>1, <2>2
  <2>4. ColumnAt(s) <= ColumnAt(t)
    BY <1>1, <2>3, Tiles
  <2> QED
    BY <1>3, <2>1, <2>3, <2>4
<1> QED
  BY <1>4, <1>5

\* Every pixel that differs is in a region, and every region is in the frame.
LEMMA ChangedAreCovered ==
  ASSUME layout \in Layouts, tile_size \in TileSizes, NEW base, NEW current
  PROVE  /\ ChangedRegions(base, current) \in Seq(FrameRects)
         /\ \A x \in Columns, y \in Rows :
              PixelAt(base, x, y) # PixelAt(current, x, y) =>
                \E k \in 1..Len(ChangedRegions(base, current)) :
                  Inside(ChangedRegions(base, current)[k], x, y)
<1> DEFINE V == Seq(FrameRects)
           runs(y) == [x \in 1..TilesX |-> RunBefore(base, current, x, y - 1)]
           rows == [y \in 1..TilesY |-> FlattenSeq(runs(y))]
           regions == ChangedRegions(base, current)
<1>1. TilesX \in Nat /\ TilesY \in Nat
  BY Tiles
<1>2. regions = FlattenSeq(rows)
  BY Zenon DEF ChangedRegions
<1>3. ASSUME NEW y \in 1..TilesY
      PROVE  /\ runs(y) \in Seq(V) /\ Len(runs(y)) = TilesX
             /\ \A x \in 1..TilesX : runs(y)[x] = RunBefore(base, current, x, y - 1)
  <2>1. y - 1 \in 0..(TilesY - 1)
    BY <1>1
  <2>2. runs(y) \in [1..TilesX -> V]
    BY <2>1, RunOfTiles
  <2> QED
    BY <1>1, <2>2, IsASeq
<1> HIDE DEF runs, V
<1>4. ASSUME NEW y \in 1..TilesY
      PROVE  /\ FlattenSeq(runs(y)) \in V
             /\ \A k \in 1..Len(runs(y)) : \A j \in 1..Len(runs(y)[k]) :
                  \E n \in 1..Len(FlattenSeq(runs(y))) : FlattenSeq(runs(y))[n] = runs(y)[k][j]
  <2> DEFINE seqs == runs(y)
  <2>1. seqs \in Seq(Seq(FrameRects))
    BY <1>3 DEF V
  <2> HIDE DEF seqs
  <2>2. /\ FlattenSeq(seqs) \in Seq(FrameRects)
        /\ \A k \in 1..Len(seqs) : \A j \in 1..Len(seqs[k]) :
             \E n \in 1..Len(FlattenSeq(seqs)) : FlattenSeq(seqs)[n] = seqs[k][j]
    BY <2>1, FlattenRange
  <2> QED
    BY <2>2 DEF seqs, V
<1>5. rows \in Seq(V) /\ Len(rows) = TilesY /\ \A y \in 1..TilesY : rows[y] = FlattenSeq(runs(y))
  <2>1. rows \in [1..TilesY -> V]
    BY <1>4
  <2> QED
    BY <1>1, <2>1, IsASeq
<1> HIDE DEF rows
<1>6. /\ regions \in V
      /\ \A k \in 1..Len(rows) : \A j \in 1..Len(rows[k]) :
           \E n \in 1..Len(regions) : regions[n] = rows[k][j]
  <2>1. rows \in Seq(Seq(FrameRects))
    BY <1>5 DEF V
  <2>2. /\ FlattenSeq(rows) \in Seq(FrameRects)
        /\ \A k \in 1..Len(rows) : \A j \in 1..Len(rows[k]) :
             \E n \in 1..Len(FlattenSeq(rows)) : FlattenSeq(rows)[n] = rows[k][j]
    BY <2>1, FlattenRange
  <2> QED
    BY <1>2, <2>2 DEF V
<1>7. ASSUME NEW x \in Columns, NEW y \in Rows, PixelAt(base, x, y) # PixelAt(current, x, y)
      PROVE  \E n \in 1..Len(regions) : Inside(regions[n], x, y)
  <2>1. PICK t \in 0..(TilesX - 1) : ColumnAt(t) <= x /\ x < ColumnAt(t + 1)
    BY Tiles
  <2>2. PICK row \in 0..(TilesY - 1) : RowAt(row) <= y /\ y < RowAt(row + 1)
    BY Tiles
  <2>3. /\ x \in Nat /\ y \in Nat /\ t \in Nat /\ row \in Nat
        /\ ColumnAt(t) \in Nat /\ ColumnAt(t + 1) \in Nat
        /\ RowAt(row) \in Nat /\ RowAt(row + 1) \in Nat
    <3>1. layout.width \in Nat /\ layout.height \in Nat
      BY Sizes
    <3>2. t \in Nat /\ t + 1 \in Nat /\ row \in Nat /\ row + 1 \in Nat
      BY <1>1
    <3>3. \A n \in Nat : ColumnAt(n) \in 0..layout.width /\ RowAt(n) \in 0..layout.height
      BY Tiles
    <3> QED
      BY <3>1, <3>2, <3>3 DEF Columns, Rows
  <2>4. TileChanged(base, current, t, row)
    <3>1. x \in ColumnAt(t)..(ColumnAt(t + 1) - 1) /\ y \in RowAt(row)..(RowAt(row + 1) - 1)
      BY <2>1, <2>2, <2>3
    <3> QED
      BY <1>7, <3>1 DEF TileChanged
  <2> DEFINE T == {n \in Nat : n > t /\ (n = TilesX \/ ~TileChanged(base, current, n, row))}
  <2>5. TilesX \in T
    BY <1>1
  <2>6. PICK e \in T : \A n \in T : e <= n
    <3> HIDE DEF T
    <3>1. T \in SUBSET Nat
      BY DEF T
    <3> QED
      BY <2>5, <3>1, LeastNat
  <2>7. e \in 1..TilesX /\ t \in 0..(e - 1)
    BY <1>1, <2>3, <2>5, <2>6
  <2>8. \A u \in t..(e - 1) : TileChanged(base, current, u, row)
    <3> SUFFICES ASSUME NEW u \in t..(e - 1) PROVE TileChanged(base, current, u, row)
      OBVIOUS
    <3>1. u = t \/ (u \in Nat /\ u > t /\ ~(e <= u))
      BY <1>1, <2>3, <2>7
    <3>2. u # t => u \notin T
      BY <2>6, <3>1
    <3> QED
      BY <2>4, <3>1, <3>2
  <2>9. e = TilesX \/ ~TileChanged(base, current, e, row)
    BY <2>6
  <2>10. PICK r \in FrameRects :
           /\ RunBefore(base, current, e, row) = <<r>>
           /\ r.x <= ColumnAt(t) /\ Right(r) = ColumnAt(e)
           /\ r.y = RowAt(row) /\ Bottom(r) = RowAt(row + 1)
    BY <2>7, <2>8, <2>9, RunOfTiles
  <2>11. Inside(r, x, y)
    <3>1. r.x \in Nat /\ r.y \in Nat
      BY DEF FrameRects, Rects
    <3>2. ColumnAt(t + 1) <= ColumnAt(e) /\ ColumnAt(e) \in 0..layout.width
      <4>1. e \in Nat /\ t + 1 \in Nat /\ t + 1 <= e
        BY <1>1, <2>3, <2>7
      <4> QED
        BY <4>1, Tiles
    <3>3. layout.width \in Nat
      BY Sizes
    <3> QED
      BY <2>1, <2>2, <2>3, <2>10, <3>1, <3>2, <3>3 DEF Inside
  <2> DEFINE k == row + 1
  <2>12. k \in 1..TilesY /\ k - 1 = row
    BY <1>1
  <2>13. runs(k)[e] = <<r>> /\ e \in 1..Len(runs(k))
    BY <1>3, <2>7, <2>10, <2>12
  <2> HIDE DEF k
  <2>14. PICK j \in 1..Len(FlattenSeq(runs(k))) : FlattenSeq(runs(k))[j] = r
    <3>1. Len(<<r>>) = 1 /\ <<r>>[1] = r /\ 1 \in 1..1
      OBVIOUS
    <3>2. 1 \in 1..Len(runs(k)[e]) /\ runs(k)[e][1] = r
      BY <2>13, <3>1
    <3> QED
      BY <1>4, <2>12, <2>13, <3>2
  <2>15. k \in 1..Len(rows) /\ rows[k] = FlattenSeq(runs(k))
    BY <1>5, <2>12
  <2>16. PICK n \in 1..Len(regions) : regions[n] = r
    BY <1>6, <2>14, <2>15
  <2> QED
    BY <2>11, <2>16
<1> QED
  BY <1>6, <1>7 DEF V

\* A rectangle around all regions covers each of them.
LEMMA AroundAll ==
  ASSUME layout \in Layouts, tile_size \in TileSizes,
         NEW regions \in Seq(FrameRects), Len(regions) # 0
  PROVE  /\ Surrounding(regions) \in FrameRects
         /\ \A x \in Columns, y \in Rows : \A k \in 1..Len(regions) :
              Inside(regions[k], x, y) => Inside(Surrounding(regions), x, y)
<1> DEFINE D == DOMAIN regions
           Xs == {regions[k].x : k \in D}
           Ys == {regions[k].y : k \in D}
           Rs == {Right(regions[k]) : k \in D}
           Bs == {Bottom(regions[k]) : k \in D}
           r == Surrounding(regions)
<1>1. layout.width \in Nat /\ layout.height \in Nat
  BY Sizes
<1>2. D = 1..Len(regions) /\ 1 \in D
  BY LenProperties
<1>3. ASSUME NEW k \in D
      PROVE  /\ regions[k].x \in Nat /\ regions[k].y \in Nat
             /\ Right(regions[k]) \in Nat /\ Bottom(regions[k]) \in Nat
             /\ regions[k].x < Right(regions[k]) /\ Right(regions[k]) <= layout.width
             /\ regions[k].y < Bottom(regions[k]) /\ Bottom(regions[k]) <= layout.height
  <2> DEFINE q == regions[k]
  <2>1. q \in FrameRects
    BY <1>2
  <2> HIDE DEF q
  <2>2. /\ q.x \in Nat /\ q.y \in Nat /\ q.width \in Nat /\ q.height \in Nat
        /\ q.width > 0 /\ q.height > 0
        /\ q.x + q.width <= layout.width /\ q.y + q.height <= layout.height
    BY <2>1 DEF FrameRects, Rects, InFrame, Right, Bottom
  <2> QED
    BY <1>1, <2>2 DEF q, Right, Bottom
<1> HIDE DEF D
<1>4. Xs \in SUBSET Nat /\ Xs # {} /\ Ys \in SUBSET Nat /\ Ys # {}
  BY <1>2, <1>3
<1>5. /\ Rs \in SUBSET Nat /\ Rs # {} /\ \A n \in Rs : n <= layout.width
      /\ Bs \in SUBSET Nat /\ Bs # {} /\ \A n \in Bs : n <= layout.height
  BY <1>2, <1>3
<1>6. /\ \A k \in D : regions[k].x \in Xs /\ regions[k].y \in Ys
      /\ \A k \in D : Right(regions[k]) \in Rs /\ Bottom(regions[k]) \in Bs
  OBVIOUS
<1>7. r = Rect(Min(Xs), Min(Ys), Max(Rs), Max(Bs))
  BY Zenon DEF Surrounding, D
<1> HIDE DEF Xs, Ys, Rs, Bs
<1> DEFINE a == Min(Xs)
           b == Min(Ys)
           c == Max(Rs)
           d == Max(Bs)
<1>8. /\ a \in Xs /\ b \in Ys /\ (\A n \in Xs : a <= n) /\ (\A n \in Ys : b <= n)
      /\ c \in Rs /\ d \in Bs /\ (\A n \in Rs : n <= c) /\ (\A n \in Bs : n <= d)
  BY <1>1, <1>4, <1>5, MinOf, MaxOf
<1> HIDE DEF a, b, c, d
<1>9. /\ a \in Nat /\ b \in Nat /\ c \in Nat /\ d \in Nat
      /\ c <= layout.width /\ d <= layout.height
      /\ \A k \in D : /\ a <= regions[k].x /\ b <= regions[k].y
                      /\ Right(regions[k]) <= c /\ Bottom(regions[k]) <= d
  BY <1>4, <1>5, <1>6, <1>8
<1>10. a < c /\ b < d
  BY <1>2, <1>3, <1>9
<1>11. r = [x |-> a, y |-> b, width |-> c - a, height |-> d - b]
  BY <1>7 DEF Rect, a, b, c, d
<1> HIDE DEF r
<1>12. r \in Rects /\ r.x = a /\ r.y = b /\ r.width = c - a /\ r.height = d - b
  BY <1>9, <1>10, <1>11 DEF Rects
<1>13. Right(r) = c /\ Bottom(r) = d
  BY <1>9, <1>12 DEF Right, Bottom
<1>14. r \in FrameRects
  BY <1>9, <1>10, <1>12, <1>13 DEF FrameRects, InFrame
<1>15. ASSUME NEW x \in Columns, NEW y \in Rows, NEW k \in D, Inside(regions[k], x, y)
       PROVE  Inside(r, x, y)
  <2>1. x \in Nat /\ y \in Nat
    BY <1>1 DEF Columns, Rows
  <2> QED
    <3>1. /\ x >= regions[k].x /\ x < Right(regions[k])
          /\ y >= regions[k].y /\ y < Bottom(regions[k])
      BY <1>15 DEF Inside
    <3>2. x >= a /\ x < c /\ y >= b /\ y < d
      BY <1>3, <1>9, <2>1, <3>1
    <3> QED
      BY <1>12, <1>13, <3>2 DEF Inside
<1> QED
  BY <1>2, <1>14, <1>15 DEF r

\* What the detector hands over is within the limit, in the frame, and covers the change.
LEMMA DetectedCover ==
  ASSUME layout \in Layouts, tile_size \in TileSizes, NEW base, NEW current, base # <<>>
  PROVE  /\ Detected(base, current) \in Seq(FrameRects)
         /\ Len(Detected(base, current)) <= RegionLimit
         /\ \A x \in Columns, y \in Rows :
              PixelAt(base, x, y) # PixelAt(current, x, y) =>
                \E k \in 1..Len(Detected(base, current)) : Inside(Detected(base, current)[k], x, y)
<1> DEFINE regions == ChangedRegions(base, current)
           out == Detected(base, current)
<1>1. /\ regions \in Seq(FrameRects)
      /\ \A x \in Columns, y \in Rows :
           PixelAt(base, x, y) # PixelAt(current, x, y) =>
             \E k \in 1..Len(regions) : Inside(regions[k], x, y)
  BY ChangedAreCovered
<1>2. out = IF Len(regions) <= RegionLimit THEN regions ELSE <<Surrounding(regions)>>
  BY DEF Detected, Coalesced
<1>3. Len(regions) \in Nat /\ RegionLimit \in Nat \ {0}
  BY <1>1, LenProperties, Sizes
<1> HIDE DEF regions, out
<1>4. CASE Len(regions) <= RegionLimit
  BY <1>1, <1>2, <1>4 DEF out
<1>5. CASE ~(Len(regions) <= RegionLimit)
  <2> DEFINE r == Surrounding(regions)
  <2>1. Len(regions) # 0
    BY <1>3, <1>5
  <2>2. /\ r \in FrameRects
        /\ \A x \in Columns, y \in Rows : \A k \in 1..Len(regions) :
             Inside(regions[k], x, y) => Inside(r, x, y)
    BY <1>1, <2>1, AroundAll
  <2> HIDE DEF r
  <2>3. out = <<r>>
    BY <1>2, <1>5 DEF r
  <2>4. out \in Seq(FrameRects) /\ Len(out) = 1 /\ out[1] = r
    BY <2>2, <2>3
  <2>5. 1 \in 1..Len(out) /\ Len(out) <= RegionLimit
    BY <1>3, <2>4
  <2>6. \A x \in Columns, y \in Rows : PixelAt(base, x, y) # PixelAt(current, x, y) => Inside(out[1], x, y)
    BY <1>1, <2>2, <2>4
  <2> QED
    BY <2>4, <2>5, <2>6 DEF out
<1> QED
  BY <1>4, <1>5

(***************************************************************************)
(* The session                                                             *)
(***************************************************************************)
\* The update from one frame to another.
Difference(base, current) == RegionUpdateOf(current, Detected(base, current))

Idle ==
  /\ updates = <<>>
  /\ previous # <<>> => desktop_pixels = Visible(previous)
WholeFrameOnTheWay ==
  \E current \in Captured : previous = current /\ updates = <<FullUpdate(current)>>
RegionsOnTheWay ==
  \E base, current \in Captured :
    /\ base # <<>> /\ previous = current
    /\ desktop_pixels = Visible(base)
    /\ Detected(base, current) # <<>>
    /\ updates = <<Difference(base, current)>>

\* The viewer shows the frame the detector saw last, or the one before with the
\* difference on its way.
RegionInv ==
  /\ layout \in Layouts /\ tile_size \in TileSizes
  /\ previous # <<>> => previous \in Captured
  /\ desktop_pixels # <<>> => desktop_pixels \in [1..(layout.width * layout.height) -> Pixel]
  /\ viewer_error = FALSE
  /\ Idle \/ WholeFrameOnTheWay \/ RegionsOnTheWay

\* What a step does not change, given that it changes neither sizes nor tiles.
LEMMA SameFrames ==
  ASSUME layout' = layout, tile_size' = tile_size
  PROVE  /\ Captured' = Captured
         /\ \A data : Visible(data)' = Visible(data)
         /\ \A base, current : Detected(base, current)' = Detected(base, current)
         /\ \A base, current : Difference(base, current)' = Difference(base, current)
<1>1. \A data, x, y : PixelAt(data, x, y)' = PixelAt(data, x, y)
  BY DEF PixelAt
<1>2. \A data : Visible(data)' = Visible(data)
  BY <1>1 DEF Visible
<1>3. \A pixels : FrameOf(pixels)' = FrameOf(pixels)
  BY DEF FrameOf
<1>4. Captured' = Captured
  BY <1>3 DEF Captured
<1>5. /\ TilesX' = TilesX /\ TilesY' = TilesY /\ FullFrame' = FullFrame
      /\ \A n : ColumnAt(n)' = ColumnAt(n) /\ RowAt(n)' = RowAt(n)
  BY DEF TilesX, TilesY, ColumnAt, RowAt, FullFrame
<1>6. \A base, current, x, y : TileChanged(base, current, x, y)' <=> TileChanged(base, current, x, y)
  BY <1>1, <1>5 DEF TileChanged
<1>7. \A base, current, x, y : RunBefore(base, current, x, y)' = RunBefore(base, current, x, y)
  <2> TAKE base, current, e, row
  <2> DEFINE changed(t) == t \in 0..(TilesX - 1) /\ TileChanged(base, current, t, row)
             starts == {t \in 0..(e - 1) : \A u \in t..(e - 1) : changed(u)}
             run == IF starts = {} \/ changed(e) THEN <<>>
                    ELSE <<Rect(ColumnAt(Min(starts)), RowAt(row), ColumnAt(e), RowAt(row + 1))>>
  <2>1. RunBefore(base, current, e, row) = run /\ RunBefore(base, current, e, row)' = run'
    BY Zenon DEF RunBefore
  <2>2. \A t : changed(t)' <=> changed(t)
    BY <1>5, <1>6
  <2>3. starts' = starts
    <3> HIDE DEF changed
    <3> QED
      BY <2>2
  <2>4. run' = run
    <3> HIDE DEF changed, starts
    <3> QED
      BY <1>5, <2>2, <2>3 DEF Rect
  <2> QED
    BY <2>1, <2>4
<1>8. \A base, current : ChangedRegions(base, current)' = ChangedRegions(base, current)
  BY <1>5, <1>7 DEF ChangedRegions
<1>9. \A base, current : Detected(base, current)' = Detected(base, current)
  BY <1>5, <1>8 DEF Detected
<1>10. \A data, r : RegionPixels(data, r)' = RegionPixels(data, r)
  BY <1>1 DEF RegionPixels
<1>11. \A data, regions : Raw(data, regions)' = Raw(data, regions)
  BY <1>10 DEF Raw
<1>12. \A data, regions : RegionUpdateOf(data, regions)' = RegionUpdateOf(data, regions)
  BY <1>11 DEF RegionUpdateOf
<1>13. \A base, current : Difference(base, current)' = Difference(base, current)
  BY <1>9, <1>12 DEF Difference
<1> QED
  BY <1>2, <1>4, <1>9, <1>13

\* What the viewer makes of the update on its way.
LEMMA OnTheWayApplies ==
  ASSUME RegionInv, NEW base \in Captured, NEW current \in Captured, base # <<>>,
         NEW m, m = Difference(base, current)
  PROVE  /\ m.type = "DesktopUpdate"
         /\ m.regions = Detected(base, current) /\ m.regions \in InFrameRegions
         /\ Len(m.regions) <= RegionLimit /\ m.data \in Seq(Bytes)
         /\ Payloads(m) = {Raw(current, m.regions)} /\ Raw(current, m.regions) \in Seq(Bytes)
         /\ Patched(Visible(base), m.regions, Raw(current, m.regions)) = Visible(current)
<1> DEFINE regions == Detected(base, current)
<1>1. layout \in Layouts /\ tile_size \in TileSizes
  BY DEF RegionInv
<1>2. /\ regions \in Seq(FrameRects)
      /\ Len(regions) <= RegionLimit
      /\ \A x \in Columns, y \in Rows :
           PixelAt(base, x, y) # PixelAt(current, x, y) =>
             \E k \in 1..Len(regions) : Inside(regions[k], x, y)
  BY <1>1, DetectedCover
<1> HIDE DEF regions
<1>3. m = RegionUpdateOf(current, regions)
  BY DEF Difference, regions
<1>4. m.type = "DesktopUpdate" /\ m.regions = regions
  BY <1>3 DEF RegionUpdateOf
<1>5. regions \in InFrameRegions
  <2>1. \A k \in 1..Len(regions) : regions[k] \in FrameRects
    BY <1>2
  <2>2. regions \in Seq(Rects)
    <3>1. regions \in [1..Len(regions) -> Rects] /\ Len(regions) \in Nat
      BY <1>2, LenProperties DEF FrameRects
    <3>2. [k \in 1..Len(regions) |-> regions[k]] \in Seq(Rects)
      <4>1. \A k \in 1..Len(regions) : regions[k] \in Rects
        BY <3>1
      <4> HIDE DEF Rects
      <4> QED
        BY <3>1, <4>1, IsASeq
    <3>3. regions = [k \in 1..Len(regions) |-> regions[k]]
      BY <3>1
    <3> QED
      BY <3>2, <3>3
  <2> QED
    BY <2>1, <2>2 DEF InFrameRegions, FrameRects
<1>6. Payloads(m) = {Raw(current, regions)} /\ m.data \in Seq(Bytes)
  BY <1>1, <1>3, <1>5, PayloadOfUpdate
<1>7. Raw(current, regions) \in Seq(Bytes)
  BY <1>1, <1>5, RawPayload
<1>8. Patched(Visible(base), regions, Raw(current, regions)) = Visible(current)
  BY <1>1, <1>2, <1>5, PatchedFrame
<1> QED
  BY <1>2, <1>4, <1>5, <1>6, <1>7, <1>8 DEF regions

LEMMA RegionInvInit == Init => RegionInv
BY DEF Init, RegionInv, Idle

LEMMA RegionInvStep == RegionInv /\ [Next]_vars => RegionInv'
<1> SUFFICES ASSUME RegionInv, [Next]_vars PROVE RegionInv'
  OBVIOUS
<1> DEFINE Shown(p) == p # <<>> => p \in [1..(layout.width * layout.height) -> Pixel]
<1>1. /\ layout \in Layouts /\ tile_size \in TileSizes /\ viewer_error = FALSE
      /\ previous # <<>> => previous \in Captured
      /\ Shown(desktop_pixels)
      /\ Idle \/ WholeFrameOnTheWay \/ RegionsOnTheWay
  BY DEF RegionInv
<1>2. layout' = layout /\ tile_size' = tile_size
  BY DEF Next, SendFull, SendRegions, Present, ApplyRegions, vars
<1>3. /\ Captured' = Captured
      /\ \A data : Visible(data)' = Visible(data)
      /\ \A base, current : Detected(base, current)' = Detected(base, current)
      /\ \A base, current : Difference(base, current)' = Difference(base, current)
  BY <1>2, SameFrames
<1>4. SUFFICES /\ previous' # <<>> => previous' \in Captured
               /\ Shown(desktop_pixels')
               /\ viewer_error' = FALSE
               /\ Idle' \/ WholeFrameOnTheWay' \/ RegionsOnTheWay'
  BY <1>1, <1>2, <1>3 DEF RegionInv
<1>5. ASSUME updates' = <<>>, NEW current \in Captured, previous' = current,
             desktop_pixels' = Visible(current)
      PROVE  Idle' /\ Shown(desktop_pixels')
  <2>1. Visible(previous)' = Visible(current)
    BY <1>2, <1>5 DEF Visible, PixelAt
  <2>2. Visible(current) \in [1..(layout.width * layout.height) -> Pixel]
    BY <1>1, VisibleIsAFrame
  <2> QED
    BY <1>5, <2>1, <2>2 DEF Idle
<1>6. CASE SendFull
  <2>1. PICK data \in Captured : previous' = data /\ updates' = <<FullUpdate(data)>>
    BY <1>6 DEF SendFull
  <2>2. WholeFrameOnTheWay'
    BY <1>3, <2>1 DEF WholeFrameOnTheWay, FullUpdate
  <2>3. desktop_pixels' = desktop_pixels /\ viewer_error' = viewer_error
    BY <1>6 DEF SendFull
  <2> QED
    BY <1>1, <2>1, <2>2, <2>3
<1>7. CASE SendRegions
  <2>1. PICK data \in Captured :
          /\ Detected(previous, data) # <<>>
          /\ updates' = <<RegionUpdateOf(data, Detected(previous, data))>>
          /\ previous' = data
    BY <1>7 DEF SendRegions
  <2>2. /\ updates = <<>> /\ previous # <<>>
        /\ desktop_pixels' = desktop_pixels /\ viewer_error' = viewer_error
    BY <1>7 DEF SendRegions
  <2>3. Idle
    BY <1>1, <2>2 DEF WholeFrameOnTheWay, RegionsOnTheWay
  <2>4. PICK base \in Captured : base = previous
    BY <1>1, <2>2
  <2>5. /\ base # <<>> /\ desktop_pixels' = Visible(base)
        /\ Detected(base, data) # <<>> /\ updates' = <<Difference(base, data)>>
    BY <2>1, <2>2, <2>3, <2>4 DEF Idle, Difference
  <2>6. RegionsOnTheWay'
    BY <1>3, <2>1, <2>5 DEF RegionsOnTheWay
  <2> QED
    BY <1>1, <2>1, <2>2, <2>6
<1>8. CASE Present
  <2>1. /\ updates # <<>> /\ Head(updates).type = "Video" /\ updates' = Tail(updates)
        /\ desktop_pixels' = Visible(Head(updates).data)
        /\ previous' = previous /\ viewer_error' = viewer_error
    BY <1>8 DEF Present, Arrives
  <2>2. CASE WholeFrameOnTheWay
    <3>1. PICK current \in Captured : previous = current /\ updates = <<FullUpdate(current)>>
      BY <2>2 DEF WholeFrameOnTheWay
    <3>2. Head(updates) = FullUpdate(current) /\ Tail(updates) = <<>>
      BY <3>1
    <3>3. Head(updates).data = current
      BY <3>2 DEF FullUpdate
    <3>4. updates' = <<>> /\ previous' = current /\ desktop_pixels' = Visible(current)
      BY <2>1, <3>1, <3>2, <3>3
    <3> QED
      BY <1>1, <1>5, <2>1, <3>4
  <2>3. CASE RegionsOnTheWay
    <3>1. PICK base \in Captured, current \in Captured :
            base # <<>> /\ updates = <<Difference(base, current)>>
      BY <2>3 DEF RegionsOnTheWay
    <3>2. Head(updates) = Difference(base, current)
      BY <3>1
    <3>3. Head(updates).type = "DesktopUpdate"
      BY <3>1, <3>2, OnTheWayApplies
    <3> QED
      BY <2>1, <3>3
  <2> QED
    BY <1>1, <2>1, <2>2, <2>3 DEF Idle
<1>9. CASE ApplyRegions
  <2>1. /\ updates # <<>> /\ Head(updates).type = "DesktopUpdate" /\ updates' = Tail(updates)
        /\ previous' = previous
        /\ IF desktop_pixels = <<>> \/ Payloads(Head(updates)) = {}
           THEN viewer_error' = TRUE /\ UNCHANGED desktop_pixels
           ELSE /\ \E payload \in Payloads(Head(updates)) :
                     desktop_pixels' = Patched(desktop_pixels, Head(updates).regions, payload)
                /\ UNCHANGED viewer_error
    BY <1>9 DEF ApplyRegions, Arrives
  <2>2. CASE WholeFrameOnTheWay
    <3>1. PICK current \in Captured : updates = <<FullUpdate(current)>>
      BY <2>2 DEF WholeFrameOnTheWay
    <3>2. Head(updates).type = "Video"
      BY <3>1 DEF FullUpdate
    <3> QED
      BY <2>1, <3>2
  <2>3. CASE RegionsOnTheWay
    <3>1. PICK base \in Captured, current \in Captured :
            /\ base # <<>> /\ previous = current /\ desktop_pixels = Visible(base)
            /\ updates = <<Difference(base, current)>>
      BY <2>3 DEF RegionsOnTheWay
    <3> DEFINE m == Head(updates)
    <3>2. m = Difference(base, current) /\ Tail(updates) = <<>>
      BY <3>1
    <3>3. /\ Payloads(m) = {Raw(current, m.regions)}
          /\ Patched(Visible(base), m.regions, Raw(current, m.regions)) = Visible(current)
      <4> HIDE DEF m
      <4> QED
        BY <3>1, <3>2, OnTheWayApplies
    <3>4. Visible(base) # <<>>
      BY <1>1, VisibleIsAFrame
    <3> HIDE DEF m
    <3>5. desktop_pixels' = Visible(current) /\ viewer_error' = viewer_error
      BY <2>1, <3>1, <3>3, <3>4 DEF m
    <3>6. updates' = <<>> /\ previous' = current
      BY <2>1, <3>1, <3>2
    <3> QED
      BY <1>1, <1>5, <3>5, <3>6
  <2> QED
    BY <1>1, <2>1, <2>2, <2>3 DEF Idle
<1>10. CASE UNCHANGED vars
  <2>1. /\ previous' = previous /\ updates' = updates /\ desktop_pixels' = desktop_pixels
        /\ viewer_error' = viewer_error
    BY <1>10 DEF vars
  <2>2. CASE Idle
    <3>1. Visible(previous)' = Visible(previous)
      BY <1>2, <2>1 DEF Visible, PixelAt
    <3> QED
      BY <1>1, <2>1, <2>2, <3>1 DEF Idle
  <2>3. CASE WholeFrameOnTheWay
    <3>1. WholeFrameOnTheWay'
      BY <1>3, <2>1, <2>3 DEF WholeFrameOnTheWay, FullUpdate
    <3> QED
      BY <1>1, <2>1, <3>1
  <2>4. CASE RegionsOnTheWay
    <3>1. RegionsOnTheWay'
      BY <1>3, <2>1, <2>4 DEF RegionsOnTheWay
    <3> QED
      BY <1>1, <2>1, <3>1
  <2> QED
    BY <1>1, <2>2, <2>3, <2>4
<1> QED
  BY <1>6, <1>7, <1>8, <1>9, <1>10 DEF Next

LEMMA RegionInvHolds == Spec => []RegionInv
BY RegionInvInit, RegionInvStep, PTL DEF Spec

\* The update on its way, if it is one of regions, is the difference of two frames.
LEMMA OnTheWayIs ==
  ASSUME RegionInv, NEW k \in OnTheWay
  PROVE  \E base, current \in Captured :
           /\ base # <<>> /\ Detected(base, current) # <<>>
           /\ updates[k] = Difference(base, current)
<1>1. Idle \/ WholeFrameOnTheWay \/ RegionsOnTheWay
  BY DEF RegionInv
<1>2. k \in DOMAIN updates /\ updates[k].type = "DesktopUpdate"
  BY DEF OnTheWay
<1>3. CASE Idle
  BY <1>2, <1>3 DEF Idle
<1>4. CASE WholeFrameOnTheWay
  <2>1. PICK current \in Captured : updates = <<FullUpdate(current)>>
    BY <1>4 DEF WholeFrameOnTheWay
  <2>2. updates[k] = FullUpdate(current)
    BY <1>2, <2>1
  <2> QED
    BY <1>2, <2>2 DEF FullUpdate
<1>5. CASE RegionsOnTheWay
  <2>1. PICK base \in Captured, current \in Captured :
          /\ base # <<>> /\ Detected(base, current) # <<>>
          /\ updates = <<Difference(base, current)>>
    BY <1>5 DEF RegionsOnTheWay
  <2>2. updates[k] = Difference(base, current)
    BY <1>2, <2>1
  <2> QED
    BY <2>1, <2>2
<1> QED
  BY <1>1, <1>3, <1>4, <1>5

\* Messages stay within the protocol: regions of the frame, never more than the limit
\* however many tiles changed, and bytes.
THEOREM RegionTypesHold == Spec => []TypeOK
<1>1. RegionInv => TypeOK
  <2> SUFFICES ASSUME RegionInv, NEW k \in OnTheWay
               PROVE  /\ Len(updates[k].regions) \in 1..RegionLimit
                      /\ \A n \in DOMAIN updates[k].regions : InFrame(updates[k].regions[n])
                      /\ updates[k].data \in Seq(0..(2 * RunLimit - 1))
    BY DEF RegionInv, TypeOK
  <2>1. PICK base \in Captured, current \in Captured :
           /\ base # <<>> /\ Detected(base, current) # <<>>
           /\ updates[k] = Difference(base, current)
    BY OnTheWayIs
  <2> DEFINE m == updates[k]
  <2> HIDE DEF m
  <2>2. /\ m.regions = Detected(base, current) /\ m.regions \in InFrameRegions
        /\ Len(m.regions) <= RegionLimit /\ m.data \in Seq(Bytes)
    BY <2>1, OnTheWayApplies DEF m
  <2> DEFINE regions == m.regions
  <2> HIDE DEF regions
  <2>3. regions \in InFrameRegions /\ Len(regions) <= RegionLimit /\ regions # <<>>
    BY <2>1, <2>2 DEF regions
  <2>4. regions \in Seq(Rects) /\ \A n \in 1..Len(regions) : InFrame(regions[n])
    BY <2>3 DEF InFrameRegions
  <2>5. Len(regions) \in Nat \ {0} /\ DOMAIN regions = 1..Len(regions) /\ RegionLimit \in Nat
    <3> HIDE DEF Rects
    <3> QED
      BY <2>3, <2>4, EmptySeq, LenProperties, RegionAssumption
  <2> QED
    BY <2>2, <2>3, <2>4, <2>5 DEF m, regions, Bytes
<1> QED
  BY <1>1, RegionInvHolds, PTL

\* The viewer never refuses an update the host encoded (decode_region_payload and its
\* unpack_bits accept what encode_region_payload made, for every frame).
THEOREM UpdatesAreAcceptedHolds == Spec => []UpdatesAreAccepted
<1>1. RegionInv => UpdatesAreAccepted
  BY DEF RegionInv, UpdatesAreAccepted
<1> QED
  BY <1>1, RegionInvHolds, PTL

\* Whatever payload is on its way, packing it and unpacking it returns it.
THEOREM PackingIsLosslessHolds == Spec => []PackingIsLossless
<1>1. RegionInv => PackingIsLossless
  <2> SUFFICES ASSUME RegionInv, NEW k \in OnTheWay, NEW payload \in Payloads(updates[k])
               PROVE  UnpackBits(PackBits(payload), Len(payload)) = {payload}
    BY DEF PackingIsLossless
  <2>1. PICK base \in Captured, current \in Captured :
           base # <<>> /\ updates[k] = Difference(base, current)
    BY OnTheWayIs
  <2> DEFINE m == updates[k]
  <2> HIDE DEF m
  <2>2. Payloads(m) = {Raw(current, m.regions)} /\ Raw(current, m.regions) \in Seq(Bytes)
    BY <2>1, OnTheWayApplies DEF m
  <2>3. payload \in Seq(Bytes)
    BY <2>2 DEF m
  <2> QED
    BY <2>3, Lossless
<1> QED
  BY <1>1, RegionInvHolds, PTL

\* With no update on its way the framebuffer is the captured frame, pixel by pixel.
THEOREM WindowIsExactHolds == Spec => []WindowIsExact
<1>1. RegionInv => WindowIsExact
  BY DEF RegionInv, Idle, WholeFrameOnTheWay, RegionsOnTheWay, WindowIsExact
<1> QED
  BY <1>1, RegionInvHolds, PTL
=============================================================================
