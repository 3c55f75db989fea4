-------------------------- MODULE RetransmitProofs --------------------------
(***************************************************************************)
(* Fragments are sent again, and the memory of what was completed is       *)
(* finite; still no update is handed to the viewer twice.                  *)
(***************************************************************************)
EXTENDS SelectiveRetransmit, FiniteSetTheorems, SequenceTheorems, WellFoundedInduction, TLAPS

\* What the limits must be for that: an update that was forgotten is out of the
\* cache, and a fragment has at most three copies.
Sized == CacheMax <= Window /\ MaxNackRounds <= 2

-----------------------------------------------------------------------------
\* The cache holds the newest updates, without a gap.
CacheIsNewest ==
  \A c \in 1..Len(cache) : cache[c].sequence = update - Len(cache) + c

\* Nothing is about an update that was not sent.
SentOnly ==
  /\ unsent # {} => update \in Updates
  /\ \A f \in flight : f.sequence <= update
  /\ \A s \in DOMAIN partial : s <= update /\ partial[s].received # {}
  /\ \A i \in 1..Len(nacks) : nacks[i].sequence <= update
  /\ \A s \in completed : s <= latest
  /\ latest <= update

\* What was handed over is remembered, or was Window updates ago.
Remembered ==
  /\ \A s \in completed : s \notin DOMAIN partial /\ arrivals[s] # 0
  /\ \A s \in Updates : arrivals[s] # 0 => s <= latest /\ (s \in completed \/ s + Window <= latest)

\* The nacks for the same update that the host handles before this one.
Earlier(i) == { j \in 1..(i - 1) : nacks[j].sequence = nacks[i].sequence }

AtMostOne(S) == \A a, b \in S : a = b

\* A nack that the host will answer, unless the update leaves the cache.
Answerable(i) ==
  \E c \in 1..Len(cache) :
    /\ cache[c].sequence = nacks[i].sequence
    /\ \/ cache[c].rounds + 1 = MaxNackRounds /\ Earlier(i) = {}
       \/ cache[c].rounds + 2 = MaxNackRounds /\ AtMostOne(Earlier(i))

NacksFor(s) == { i \in 1..Len(nacks) : nacks[i].sequence = s }

\* One more nack for this update would be answered.
Spare(s) ==
  \E c \in 1..Len(cache) :
    /\ cache[c].sequence = s
    /\ \/ cache[c].rounds + 1 = MaxNackRounds /\ NacksFor(s) = {}
       \/ cache[c].rounds + 2 = MaxNackRounds /\ AtMostOne(NacksFor(s))

\* None was asked for yet.
Unasked(s) ==
  /\ NacksFor(s) = {}
  /\ \E c \in 1..Len(cache) : cache[c].sequence = s /\ cache[c].rounds = 0

\* Where the copies of a fragment are that may still arrive.
Copies(s, x)  == { f \in flight : f.sequence = s /\ f.index = x }
Asked(s, x)   == { i \in NacksFor(s) : x \in nacks[i].missing /\ Answerable(i) }
ToSend(s, x)  == s = update /\ x \in unsent

Quiet(s, x)  == Copies(s, x) = {} /\ Asked(s, x) = {} /\ ~ToSend(s, x)
Single(s, x) ==
  /\ AtMostOne(Copies(s, x)) /\ AtMostOne(Asked(s, x))
  /\ Copies(s, x) = {} \/ Asked(s, x) = {}
  /\ ToSend(s, x) => Copies(s, x) = {} /\ Asked(s, x) = {}
Held(s, x)   == s \in DOMAIN partial /\ x \in partial[s].received

\* The last copy of a fragment: it is there, or it may still come.
LastCopy(s, x) == Single(s, x) /\ (Held(s, x) => Quiet(s, x))

\* Of an update that was not handed over there is, once nacks were sent, a fragment
\* without a spare copy; of one that was, a fragment without any.
Awaited(s) ==
  /\ Unasked(s)               => \A x \in Fragment : LastCopy(s, x)
  /\ ~Unasked(s) /\ Spare(s)  => \E x \in Fragment : Quiet(s, x)
  /\ ~Unasked(s) /\ ~Spare(s) => \E x \in Fragment : LastCopy(s, x)

Spent(s) == \E x \in Fragment : Quiet(s, x) /\ ~Held(s, x)

Scarce ==
  \A s \in Updates : s <= update =>
    \/ arrivals[s] = 0 /\ Awaited(s)
    \/ arrivals[s] = 1 /\ Spent(s)

LaneInv == TypeOK /\ CacheIsNewest /\ SentOnly /\ Remembered /\ Scarce

-----------------------------------------------------------------------------
\* A set of natural numbers has a least one.
LEMMA MinOf ==
  ASSUME NEW S \in SUBSET Nat, S # {}
  PROVE  Min(S) \in S /\ \A y \in S : Min(S) <= y
<1>1. PICK x \in S : \A y \in S : ~(<<y, x>> \in OpToRel(<, Nat))
  <2>1. S \subseteq Nat
    OBVIOUS
  <2> QED
    BY <2>1, NatLessThanWellFounded, WFMin
<1>2. \A y \in S : x <= y
  <2> SUFFICES ASSUME NEW y \in S, y < x
               PROVE  FALSE
    OBVIOUS
  <2>1. <<y, x>> \in OpToRel(<, Nat)
    BY DEF OpToRel
  <2> QED
    BY <1>1, <2>1
<1> QED
  BY <1>2 DEF Min

\* A set of at least n numbers above m ends at m + n or later.
LEMMA Crowded ==
  ASSUME NEW m \in Nat, NEW last \in Nat, NEW n \in Nat,
         NEW S \in SUBSET ((m + 1)..last), n <= Cardinality(S), n > 0
  PROVE  m + n <= last
<1>1. IsFiniteSet((m + 1)..last)
      /\ Cardinality((m + 1)..last) = IF m + 1 > last THEN 0 ELSE last - (m + 1) + 1
  BY FS_Interval
<1>2. Cardinality(S) <= Cardinality((m + 1)..last) /\ IsFiniteSet(S)
  BY <1>1, FS_Subset
<1>3. Cardinality(S) \in Nat
  BY <1>2, FS_CardinalityType
<1> QED
  BY <1>1, <1>2, <1>3

\* A set of updates is finite.
LEMMA UpdatesFinite ==
  ASSUME NEW S \in SUBSET Updates
  PROVE  IsFiniteSet(S) /\ Cardinality(S) \in Nat /\ S \in SUBSET Nat
<1>1. IsFiniteSet(Updates) /\ Updates \subseteq Nat
  BY FS_Interval, RetransmitAssumption DEF Updates
<1>2. IsFiniteSet(S)
  BY <1>1, FS_Subset
<1> QED
  BY <1>1, <1>2, FS_CardinalityType

-----------------------------------------------------------------------------
\* The two sequences of the sender and the receiver, by their elements.
Entry == [sequence : Updates, rounds : 0..MaxNackRounds]
Nack  == [sequence : Updates, missing : SUBSET Fragment]
Part  == [sequence : Updates, index : Fragment, copy : 0..MaxNackRounds]

\* A queue without its head.
LEMMA Shifted ==
  ASSUME NEW S, NEW q \in Seq(S), q # <<>>
  PROVE  /\ Head(q) = q[1] /\ Head(q) \in S /\ Len(q) \in Nat \ {0}
         /\ Tail(q) \in Seq(S) /\ Len(Tail(q)) = Len(q) - 1
         /\ \A i \in 1..Len(Tail(q)) : Tail(q)[i] = q[i + 1]
BY HeadTailProperties, EmptySeq

\* Only a suffix of the cache is kept, and the newest update is part of it.
LEMMA Trimmed ==
  ASSUME NEW S, NEW q \in Seq(S), q # <<>>
  PROVE  /\ Trim(q) \in Seq(S)
         /\ Len(Trim(q)) \in 1..CacheMax /\ Len(Trim(q)) <= Len(q)
         /\ \A i \in 1..Len(Trim(q)) : Trim(q)[i] = q[Len(q) - Len(Trim(q)) + i]
<1> DEFINE m == IF Len(q) > CacheMax THEN Len(q) - CacheMax + 1 ELSE 1
<1>1. CacheMax \in Nat \ {0} /\ Len(q) \in Nat \ {0}
  BY RetransmitAssumption, EmptySeq
<1>2. m \in 1..Len(q) /\ Len(q) - m + 1 = IF Len(q) > CacheMax THEN CacheMax ELSE Len(q)
  BY <1>1
<1>3. \A i \in m..Len(q) : q[i] \in S
  BY <1>1, <1>2, ElementOfSeq
<1>4. Trim(q) = SubSeq(q, m, Len(q))
  BY DEF Trim
<1> HIDE DEF m
<1>5. /\ SubSeq(q, m, Len(q)) \in Seq(S)
      /\ Len(SubSeq(q, m, Len(q))) = Len(q) - m + 1
      /\ \A i \in 1..(Len(q) - m + 1) : SubSeq(q, m, Len(q))[i] = q[m + i - 1]
  BY <1>1, <1>2, <1>3, SubSeqProperties
<1>6. \A i \in 1..(Len(q) - m + 1) : m + i - 1 = Len(q) - (Len(q) - m + 1) + i
  BY <1>1, <1>2
<1>7. Len(q) - m + 1 \in 1..CacheMax /\ Len(q) - m + 1 <= Len(q)
  BY <1>1, <1>2
<1> QED
  BY <1>4, <1>5, <1>6, <1>7

\* The limits, and what is left of TypeOK in the forms the provers use.
LEMMA Types ==
  ASSUME TypeOK
  PROVE  /\ update \in Int /\ update < MaxUpdate + 1 /\ update >= -1 /\ MaxUpdate \in Nat
         /\ \A x \in unsent : x \in Fragment
         /\ cache \in Seq(Entry) /\ Len(cache) \in Nat
         /\ \A c \in 1..Len(cache) : cache[c] \in Entry
         /\ nacks \in Seq(Nack) /\ Len(nacks) \in Nat
         /\ \A i \in 1..Len(nacks) : nacks[i] \in Nack
         /\ \A f \in flight : f \in Part
         /\ CacheMax \in Nat \ {0} /\ Window \in Nat \ {0} /\ InFlightMax \in Nat \ {0}
         /\ MaxNackRounds \in Nat \ {0} /\ Fragments \in Nat \ {0} /\ NackCapacity \in Nat \ {0}
<1>1. cache \in Seq(Entry) /\ nacks \in Seq(Nack)
  BY DEF TypeOK, Entry, Nack
<1> QED
  BY <1>1, ElementOfSeq, RetransmitAssumption DEF TypeOK, Updates, Part

\* The fields of what the sequences and sets hold.
LEMMA Fields ==
  ASSUME TypeOK
  PROVE  /\ update \in Int /\ latest \in Int /\ Updates \subseteq Nat
         /\ DOMAIN partial \subseteq Updates /\ completed \subseteq Updates
         /\ \A f \in flight : f.sequence \in Updates /\ f.index \in Fragment
         /\ \A i \in 1..Len(nacks) : nacks[i].sequence \in Updates /\ nacks[i].missing \subseteq Fragment
         /\ \A c \in 1..Len(cache) : cache[c].sequence \in Updates /\ cache[c].rounds \in 0..MaxNackRounds
<1>1. update \in Int /\ latest \in Int /\ Updates \subseteq Nat
  BY DEF TypeOK, Updates
<1>2. \A f \in flight : f.sequence \in Updates /\ f.index \in Fragment
  <2>1. \A f \in flight : f \in Part
    BY Types
  <2> QED
    BY <2>1 DEF Part
<1>3. \A i \in 1..Len(nacks) : nacks[i].sequence \in Updates /\ nacks[i].missing \subseteq Fragment
  <2>1. \A i \in 1..Len(nacks) : nacks[i] \in Nack
    BY Types
  <2> QED
    BY <2>1 DEF Nack
<1>4. \A c \in 1..Len(cache) : cache[c].sequence \in Updates /\ cache[c].rounds \in 0..MaxNackRounds
  <2>1. \A c \in 1..Len(cache) : cache[c] \in Entry
    BY Types
  <2> QED
    BY <2>1 DEF Entry
<1> QED
  BY <1>1, <1>2, <1>3, <1>4 DEF TypeOK

\* The least fragment is a fragment.
LEMMA MinUnsent == ASSUME TypeOK, unsent # {} PROVE Min(unsent) \in unsent
<1>1. unsent \in SUBSET Nat
  BY Types DEF Fragment
<1> QED
  BY <1>1, MinOf

\* A cached update that was sent again.
LEMMA OneMoreRound ==
  ASSUME TypeOK, NEW i \in 1..Len(cache), cache[i].rounds < MaxNackRounds,
         NEW q, q = [cache EXCEPT ![i].rounds = @ + 1]
  PROVE  /\ q \in Seq(Entry) /\ Len(q) = Len(cache)
         /\ q[i].sequence = cache[i].sequence /\ q[i].rounds = cache[i].rounds + 1
         /\ \A c \in 1..Len(cache) : c # i => q[c] = cache[c]
<1> DEFINE e == [cache[i] EXCEPT !.rounds = @ + 1]
<1>1. cache[i] \in Entry
  BY Types
<1>2. e = [sequence |-> cache[i].sequence, rounds |-> cache[i].rounds + 1]
  BY <1>1 DEF Entry
<1>3. cache[i].rounds + 1 \in 0..MaxNackRounds /\ cache[i].sequence \in Updates
  <2>1. MaxNackRounds \in Nat
    BY Types
  <2>2. cache[i].rounds \in 0..MaxNackRounds /\ cache[i].sequence \in Updates
    BY <1>1 DEF Entry
  <2> QED
    BY <2>1, <2>2
<1>4. e \in Entry /\ e.sequence = cache[i].sequence /\ e.rounds = cache[i].rounds + 1
  BY <1>2, <1>3 DEF Entry
<1>5. q = [cache EXCEPT ![i] = e]
  OBVIOUS
<1> HIDE DEF e
<1>6. cache \in Seq(Entry)
  BY Types
<1>7. q \in Seq(Entry) /\ Len(q) = Len(cache) /\ \A c \in 1..Len(cache) : q[c] = IF c = i THEN e ELSE cache[c]
  BY <1>4, <1>5, <1>6, ExceptSeq
<1> QED
  BY <1>4, <1>7

\* How the host handles a nack: from the cache, or with a keyframe.
AnswerWith(i) ==
  /\ cache' = [cache EXCEPT ![i].rounds = @ + 1]
  /\ flight' = flight \cup Resent(Head(nacks).sequence, Head(nacks).missing, cache'[i].rounds)
  /\ UNCHANGED refresh

LEMMA NackCases ==
  ASSUME ReceiveNack
  PROVE  /\ nacks # <<>> /\ nacks' = Tail(nacks) /\ UNCHANGED <<update, unsent, viewerVars>>
         /\ \/ \E i \in Cached(Head(nacks).sequence) : AnswerWith(i)
            \/ Cached(Head(nacks).sequence) = {} /\ refresh' = TRUE /\ UNCHANGED <<cache, flight>>
BY DEF ReceiveNack, AnswerWith

-----------------------------------------------------------------------------
\* The host's steps keep the types.
LEMMA HostTypes ==
  ASSUME TypeOK, SentOnly, StartUpdate \/ SendFragment \/ ExpireCache \/ ReceiveNack \/ Lose
  PROVE  TypeOK'
<1>1. CASE StartUpdate
  <2> DEFINE new == [sequence |-> update', rounds |-> 0]
  <2>1. update' = update + 1 /\ update' \in Updates /\ unsent' = Fragment
    BY <1>1, Types DEF StartUpdate, Updates
  <2>2. new \in Entry
    BY <2>1, Types DEF Entry
  <2>3. Append(cache, new) \in Seq(Entry) /\ Append(cache, new) # <<>>
    BY <2>2, Types, AppendProperties
  <2>4. cache' = Trim(Append(cache, new))
    BY <1>1 DEF StartUpdate
  <2> HIDE DEF new
  <2>5. cache' \in Seq(Entry) /\ Len(cache') \in 1..CacheMax
    BY <2>3, <2>4, Trimmed
  <2> QED
    BY <1>1, <2>1, <2>5 DEF StartUpdate, TypeOK, viewerVars, Entry
<1>2. CASE SendFragment
  <2>1. Min(unsent) \in Fragment
    BY <1>2, MinUnsent DEF SendFragment, TypeOK
  <2>2. update \in Updates
    BY <1>2 DEF SendFragment, SentOnly
  <2>3. flight' \subseteq Part
    BY <1>2, <2>1, <2>2, Types DEF SendFragment, TypeOK, Part
  <2> QED
    BY <1>2, <2>3 DEF SendFragment, TypeOK, Part, viewerVars
<1>3. CASE ExpireCache
  <2>1. cache' \in Seq(Entry) /\ Len(cache') <= CacheMax
    <3>1. /\ cache \in Seq(Entry) /\ Len(cache) <= CacheMax /\ CacheMax \in Nat
          /\ cache # <<>> /\ cache' = Tail(cache)
      BY <1>3, Types DEF ExpireCache, TypeOK
    <3>2. cache' \in Seq(Entry) /\ Len(cache) \in Nat /\ Len(cache') = Len(cache) - 1
      BY <3>1, Shifted
    <3> QED
      BY <3>1, <3>2
  <2> QED
    BY <1>3, <2>1 DEF ExpireCache, TypeOK, Entry, viewerVars
<1>4. CASE ReceiveNack
  <2>1. nacks # <<>> /\ nacks' = Tail(nacks)
    BY <1>4 DEF ReceiveNack
  <2>2. Head(nacks) \in Nack /\ nacks' \in Seq(Nack) /\ Len(nacks') <= NackCapacity
    <3>1. nacks \in Seq(Nack) /\ Len(nacks) <= NackCapacity /\ NackCapacity \in Nat
      BY Types DEF TypeOK
    <3>2. /\ Head(nacks) \in Nack /\ nacks' \in Seq(Nack)
          /\ Len(nacks) \in Nat /\ Len(nacks') = Len(nacks) - 1
      BY <2>1, <3>1, Shifted
    <3> QED
      BY <3>1, <3>2
  <2>3. /\ cache' \in Seq(Entry) /\ Len(cache') <= CacheMax
        /\ flight' \subseteq Part /\ refresh' \in BOOLEAN
    <3>1. CASE UNCHANGED <<cache, flight>> /\ refresh' = TRUE
      BY <3>1, Types DEF TypeOK
    <3>2. ASSUME NEW i \in Cached(Head(nacks).sequence), AnswerWith(i)
          PROVE  /\ cache' \in Seq(Entry) /\ Len(cache') <= CacheMax
                 /\ flight' \subseteq Part /\ refresh' \in BOOLEAN
      <4>1. i \in 1..Len(cache) /\ cache[i] \in Entry /\ cache[i].rounds < MaxNackRounds
        BY Types DEF Cached
      <4>2. /\ cache' \in Seq(Entry) /\ Len(cache') = Len(cache)
            /\ cache'[i].rounds = cache[i].rounds + 1
        BY <3>2, <4>1, OneMoreRound DEF AnswerWith
      <4>3. cache'[i].rounds \in 0..MaxNackRounds
        <5>1. MaxNackRounds \in Nat
          BY Types
        <5>2. cache[i].rounds \in 0..MaxNackRounds
          BY <4>1 DEF Entry
        <5> QED
          BY <4>1, <4>2, <5>1, <5>2
      <4>4. Resent(Head(nacks).sequence, Head(nacks).missing, cache'[i].rounds) \subseteq Part
        BY <2>2, <4>3 DEF Resent, Part, Nack
      <4> QED
        BY <3>2, <4>2, <4>4, Types DEF TypeOK, Part, AnswerWith
    <3> QED
      BY <1>4, <3>1, <3>2, NackCases
  <2> QED
    BY <1>4, <2>2, <2>3 DEF ReceiveNack, TypeOK, Entry, Nack, Part, viewerVars
<1>5. CASE Lose
  BY <1>5 DEF Lose, TypeOK, hostVars, viewerVars
<1> QED
  BY <1>1, <1>2, <1>3, <1>4, <1>5

-----------------------------------------------------------------------------
\* Making room drops at most one frame, and only when there is none.
LEMMA Admitted ==
  ASSUME TypeOK, NEW s \in Updates
  PROVE  /\ DOMAIN Admit(s) \subseteq DOMAIN partial
         /\ \A t \in DOMAIN Admit(s) : Admit(s)[t] = partial[t]
         /\ s \in DOMAIN partial => Admit(s) = partial
         /\ s \notin DOMAIN partial => Cardinality(DOMAIN Admit(s)) < InFlightMax
<1>1. IsFiniteSet(DOMAIN partial) /\ Cardinality(DOMAIN partial) \in Nat /\ DOMAIN partial \in SUBSET Nat
  BY UpdatesFinite DEF TypeOK
<1>2. Cardinality(DOMAIN partial) <= InFlightMax /\ InFlightMax \in Nat \ {0}
  BY Types DEF TypeOK
<1>3. CASE s \notin DOMAIN partial /\ Cardinality(DOMAIN partial) >= InFlightMax
  <2> DEFINE m == Min(DOMAIN partial)
  <2>1. DOMAIN partial # {}
    BY <1>1, <1>2, <1>3, FS_EmptySet
  <2>2. m \in DOMAIN partial
    BY <1>1, <2>1, MinOf
  <2> HIDE DEF m
  <2>3. Cardinality(DOMAIN partial \ {m}) = Cardinality(DOMAIN partial) - 1
    BY <1>1, <2>2, FS_RemoveElement
  <2>4. Admit(s) = [t \in DOMAIN partial \ {m} |-> partial[t]]
    BY <1>3 DEF Admit, Without, m
  <2>5. Cardinality(DOMAIN partial \ {m}) < InFlightMax
    BY <1>1, <1>2, <2>3
  <2> QED
    BY <1>3, <2>4, <2>5
<1>4. CASE ~(s \notin DOMAIN partial /\ Cardinality(DOMAIN partial) >= InFlightMax)
  <2>1. Admit(s) = partial
    BY <1>4 DEF Admit
  <2> QED
    BY <1>1, <1>2, <1>4, <2>1
<1> QED
  BY <1>3, <1>4

\* A fragment changes its own frame only, and begins it if need be.
LEMMA PlacedIn ==
  ASSUME TypeOK, NEW f \in flight
  PROVE  /\ f.sequence \in DOMAIN Placed(f) /\ DOMAIN Placed(f) \subseteq Updates
         /\ Cardinality(DOMAIN Placed(f)) <= InFlightMax
         /\ \A t \in DOMAIN Placed(f) : t # f.sequence => t \in DOMAIN partial /\ Placed(f)[t] = partial[t]
         /\ Placed(f)[f.sequence] \in Frames
         /\ Placed(f)[f.sequence].received =
              (IF f.sequence \in DOMAIN partial THEN partial[f.sequence].received ELSE {}) \cup {f.index}
<1> DEFINE s == f.sequence
           frames == Admit(s)
           old == IF s \in DOMAIN frames THEN frames[s] ELSE [received |-> {}, rounds |-> 0]
<1>1. s \in Updates /\ f.index \in Fragment
  <2>1. f \in Part
    BY Types
  <2> QED
    BY <2>1 DEF Part
<1>2. /\ DOMAIN frames \subseteq DOMAIN partial
      /\ \A t \in DOMAIN frames : frames[t] = partial[t]
      /\ s \in DOMAIN partial => frames = partial
      /\ s \notin DOMAIN partial => Cardinality(DOMAIN frames) < InFlightMax
  BY <1>1, Admitted
<1>3. DOMAIN partial \subseteq Updates /\ \A t \in DOMAIN partial : partial[t] \in Frames
  BY DEF TypeOK
<1>4. old \in Frames /\ old.received = IF s \in DOMAIN partial THEN partial[s].received ELSE {}
  <2>1. 0 \in 0..MaxNackRounds
    BY Types
  <2> HIDE DEF frames
  <2> QED
    BY <1>2, <1>3, <2>1 DEF Frames
<1>5. Placed(f) = [t \in DOMAIN frames \cup {s} |->
                     IF t = s THEN [old EXCEPT !.received = @ \cup {f.index}] ELSE frames[t]]
  BY DEF Placed
<1>6. Cardinality(DOMAIN frames \cup {s}) <= InFlightMax
  <2>1. IsFiniteSet(DOMAIN frames) /\ Cardinality(DOMAIN frames) \in Nat
    BY <1>2, <1>3, UpdatesFinite
  <2>2. CASE s \in DOMAIN partial
    <3>1. DOMAIN frames \cup {s} = DOMAIN partial
      BY <1>2, <2>2
    <3> QED
      BY <3>1 DEF TypeOK
  <2>3. CASE s \notin DOMAIN partial
    <3>1. Cardinality(DOMAIN frames \cup {s}) = Cardinality(DOMAIN frames) + 1
      BY <1>2, <2>1, <2>3, FS_AddElement
    <3>2. InFlightMax \in Nat
      BY Types
    <3> QED
      BY <1>2, <2>1, <2>3, <3>1, <3>2
  <2> QED
    BY <2>2, <2>3
<1> HIDE DEF old, frames
<1>7. [old EXCEPT !.received = @ \cup {f.index}] =
        [received |-> old.received \cup {f.index}, rounds |-> old.rounds]
  BY <1>4 DEF Frames
<1>8. /\ [old EXCEPT !.received = @ \cup {f.index}] \in Frames
      /\ [old EXCEPT !.received = @ \cup {f.index}].received = old.received \cup {f.index}
  BY <1>1, <1>4, <1>7 DEF Frames
<1>9. DOMAIN Placed(f) = DOMAIN frames \cup {s} /\ Placed(f)[s] = [old EXCEPT !.received = @ \cup {f.index}]
      /\ \A t \in DOMAIN frames : t # s => Placed(f)[t] = frames[t]
  BY <1>5
<1> QED
  BY <1>1, <1>2, <1>3, <1>4, <1>6, <1>8, <1>9

\* The memory forgets one update when it is full, its oldest.
LEMMA RememberedBound ==
  ASSUME NEW S \in SUBSET Updates, NEW x \in Updates, Cardinality(S) <= Window
  PROVE  /\ Remember(S \cup {x}) \subseteq S \cup {x} /\ Cardinality(Remember(S \cup {x})) <= Window
         /\ \A t \in (S \cup {x}) \ Remember(S \cup {x}) :
              \A last \in Nat : (\A u \in S \cup {x} : u <= last) => t + Window <= last
<1> DEFINE T == S \cup {x}
<1>1. T \in SUBSET Updates
  OBVIOUS
<1>2. IsFiniteSet(S) /\ Cardinality(S) \in Nat /\ IsFiniteSet(T) /\ Cardinality(T) \in Nat /\ T \in SUBSET Nat
  BY <1>1, UpdatesFinite
<1>3. Cardinality(T) <= Cardinality(S) + 1
  BY <1>2, FS_AddElement
<1>4. Window \in Nat \ {0}
  BY RetransmitAssumption
<1>5. CASE Cardinality(T) > Window
  <2> DEFINE m == Min(T)
  <2>1. m \in T /\ \A y \in T : m <= y
    BY <1>2, MinOf
  <2>2. Remember(T) = T \ {m}
    BY <1>5 DEF Remember
  <2> HIDE DEF m, T
  <2>3. Cardinality(T \ {m}) = Cardinality(T) - 1
    BY <1>2, <2>1, FS_RemoveElement
  <2>4. Cardinality(T \ {m}) = Window
    BY <1>2, <1>3, <1>4, <1>5, <2>3
  <2>5. ASSUME NEW last \in Nat, \A u \in T : u <= last
        PROVE  m + Window <= last
    <3>1. T \ {m} \in SUBSET ((m + 1)..last) /\ m \in Nat
      BY <1>2, <2>1, <2>5
    <3> QED
      <4>1. Window <= Cardinality(T \ {m}) /\ Window > 0 /\ Window \in Nat
        BY <1>4, <2>4
      <4> QED
        BY <2>5, <3>1, <4>1, Crowded
  <2> QED
    BY <2>2, <2>4, <1>4, <2>5 DEF T
<1>6. CASE ~(Cardinality(T) > Window)
  <2>1. Remember(T) = T
    BY <1>6 DEF Remember
  <2>2. Cardinality(T) <= Window
    BY <1>2, <1>4, <1>6
  <2>3. T \ Remember(T) = {}
    BY <2>1
  <2> QED
    BY <2>1, <2>2, <2>3
<1> QED
  BY <1>5, <1>6

\* The viewer's steps keep the types.
LEMMA ViewerTypes ==
  ASSUME TypeOK, Push \/ TakeNack \/ ExpireFrame
  PROVE  TypeOK'
<1>1. CASE Push
  <2>1. PICK f \in flight : Ignore(f) \/ Store(f) \/ Complete(f)
    BY <1>1 DEF Push
  <2>2. f.sequence \in Updates
    <3>1. f \in Part
      BY Types
    <3> QED
      BY <3>1 DEF Part
  <2>3. CASE Ignore(f)
    BY <2>3 DEF Ignore, TypeOK, hostVars, viewerVars
  <2>4. CASE Store(f)
    <3>1. /\ DOMAIN partial' \subseteq Updates /\ Cardinality(DOMAIN partial') <= InFlightMax
          /\ \A s \in DOMAIN partial' : partial'[s] \in Frames
      <4>1. partial' = Placed(f)
        BY <2>4 DEF Store
      <4>2. \A s \in DOMAIN partial : partial[s] \in Frames
        BY DEF TypeOK
      <4> QED
        BY <4>1, <4>2, PlacedIn
    <3> QED
      BY <2>4, <3>1 DEF Store, TypeOK, hostVars
  <2>5. CASE Complete(f)
    <3>1. partial' = Without(Placed(f), f.sequence)
      BY <2>5 DEF Complete
    <3>2. /\ DOMAIN partial' = DOMAIN Placed(f) \ {f.sequence}
          /\ \A s \in DOMAIN partial' : partial'[s] = Placed(f)[s]
      BY <3>1 DEF Without
    <3>3. /\ DOMAIN partial' \subseteq Updates
          /\ \A s \in DOMAIN partial' : partial'[s] \in Frames
      <4>1. \A s \in DOMAIN partial : partial[s] \in Frames
        BY DEF TypeOK
      <4> QED
        BY <3>2, <4>1, PlacedIn
    <3>4. Cardinality(DOMAIN partial') <= InFlightMax
      <4>1. DOMAIN Placed(f) \in SUBSET Updates /\ Cardinality(DOMAIN Placed(f)) <= InFlightMax
        BY PlacedIn
      <4>2. IsFiniteSet(DOMAIN Placed(f)) /\ Cardinality(DOMAIN Placed(f)) \in Nat
        BY <4>1, UpdatesFinite
      <4>3. Cardinality(DOMAIN partial') <= Cardinality(DOMAIN Placed(f)) /\ Cardinality(DOMAIN partial') \in Nat
        BY <3>2, <4>2, FS_Subset, FS_CardinalityType
      <4>4. InFlightMax \in Nat
        BY Types
      <4> QED
        BY <4>1, <4>2, <4>3, <4>4
    <3>5. completed' \subseteq Updates /\ Cardinality(completed') <= Window
      BY <2>2, <2>5, RememberedBound DEF Complete, TypeOK
    <3>6. arrivals' \in [Updates -> Nat] /\ latest' \in Updates \cup {-1}
      BY <2>2, <2>5 DEF Complete, TypeOK
    <3> QED
      BY <2>5, <3>3, <3>4, <3>5, <3>6 DEF Complete, TypeOK, hostVars
  <2> QED
    BY <2>1, <2>3, <2>4, <2>5
<1>2. CASE TakeNack
  <2>1. PICK s \in DOMAIN partial :
          /\ partial[s].rounds < MaxNackRounds
          /\ partial' = [partial EXCEPT ![s].rounds = @ + 1]
          /\ nacks' = IF Len(nacks) < NackCapacity
                      THEN Append(nacks, [sequence |-> s, missing |-> Fragment \ partial[s].received])
                      ELSE nacks
          /\ UNCHANGED <<hostVars, flight, completed, latest, arrivals>>
    BY <1>2 DEF TakeNack
  <2>2. partial[s] \in Frames /\ s \in Updates
    BY DEF TypeOK
  <2>3. DOMAIN partial' = DOMAIN partial /\ \A t \in DOMAIN partial' : partial'[t] \in Frames
    <3>1. MaxNackRounds \in Nat
      BY Types
    <3>2. partial[s].rounds + 1 \in 0..MaxNackRounds
      BY <2>1, <2>2, <3>1 DEF Frames
    <3>3. [partial[s] EXCEPT !.rounds = @ + 1] = [received |-> partial[s].received, rounds |-> partial[s].rounds + 1]
      BY <2>2 DEF Frames
    <3>4. [partial[s] EXCEPT !.rounds = @ + 1] \in Frames
      BY <2>2, <3>2, <3>3 DEF Frames
    <3>5. \A t \in DOMAIN partial : partial[t] \in Frames
      BY DEF TypeOK
    <3> QED
      BY <2>1, <3>4, <3>5
  <2>4. nacks' \in Seq(Nack) /\ Len(nacks') <= NackCapacity
    <3>1. nacks \in Seq(Nack) /\ Len(nacks) \in Nat /\ Len(nacks) <= NackCapacity /\ NackCapacity \in Nat
      BY Types DEF TypeOK
    <3>2. [sequence |-> s, missing |-> Fragment \ partial[s].received] \in Nack
      BY <2>2 DEF Nack
    <3> QED
      BY <2>1, <3>1, <3>2, AppendProperties
  <2> QED
    BY <2>1, <2>3, <2>4 DEF TypeOK, Nack, hostVars
<1>3. CASE ExpireFrame
  <2>1. PICK s \in DOMAIN partial : partial' = Without(partial, s)
    BY <1>3 DEF ExpireFrame
  <2>2. /\ DOMAIN partial' \subseteq DOMAIN partial
        /\ \A t \in DOMAIN partial' : partial'[t] = partial[t]
    BY <2>1 DEF Without
  <2>3. IsFiniteSet(DOMAIN partial) /\ DOMAIN partial \subseteq Updates
    BY UpdatesFinite DEF TypeOK
  <2>4. Cardinality(DOMAIN partial') <= InFlightMax
    <3>1. Cardinality(DOMAIN partial') <= Cardinality(DOMAIN partial)
      BY <2>2, <2>3, FS_Subset
    <3>2. Cardinality(DOMAIN partial') \in Nat /\ Cardinality(DOMAIN partial) \in Nat /\ InFlightMax \in Nat
      BY <2>2, <2>3, FS_Subset, FS_CardinalityType, Types
    <3> QED
      BY <3>1, <3>2 DEF TypeOK
  <2> QED
    BY <1>3, <2>2, <2>4 DEF ExpireFrame, TypeOK, hostVars
<1> QED
  BY <1>1, <1>2, <1>3

-----------------------------------------------------------------------------
\* The cache stays the newest updates: only StartUpdate adds to it.
LEMMA CacheStep ==
  ASSUME TypeOK, CacheIsNewest, Next
  PROVE  CacheIsNewest'
<1>1. cache \in Seq(Entry) /\ Len(cache) \in Nat /\ update \in Int
  BY Types
<1>2. CASE StartUpdate
  <2> DEFINE new == [sequence |-> update', rounds |-> 0]
             q == Append(cache, new)
  <2>1. update' = update + 1 /\ update' \in Updates /\ cache' = Trim(q)
    BY <1>2, Types DEF StartUpdate, Updates
  <2>2. new \in Entry /\ new.sequence = update'
    BY <2>1, Types DEF Entry
  <2> HIDE DEF new
  <2>3. /\ q \in Seq(Entry) /\ q # <<>> /\ Len(q) = Len(cache) + 1
        /\ \A c \in 1..Len(cache) : q[c] = cache[c]
        /\ q[Len(cache) + 1] = new
    BY <1>1, <2>2, AppendProperties
  <2> HIDE DEF q
  <2>4. ASSUME NEW c \in 1..Len(q)
        PROVE  q[c].sequence = update' - Len(q) + c
    <3>1. CASE c \in 1..Len(cache)
      <4>1. q[c].sequence = update - Len(cache) + c
        BY <2>3, <3>1 DEF CacheIsNewest
      <4> QED
        BY <1>1, <2>1, <2>3, <4>1
    <3>2. CASE c = Len(cache) + 1
      <4>1. q[c].sequence = update'
        BY <2>2, <2>3, <3>2
      <4> QED
        BY <1>1, <2>1, <2>3, <3>2, <4>1
    <3> QED
      BY <1>1, <2>3, <3>1, <3>2
  <2>5. /\ Len(Trim(q)) \in 1..CacheMax /\ Len(Trim(q)) <= Len(q)
        /\ \A i \in 1..Len(Trim(q)) : Trim(q)[i] = q[Len(q) - Len(Trim(q)) + i]
    BY <2>3, Trimmed
  <2>6. ASSUME NEW i \in 1..Len(cache')
        PROVE  cache'[i].sequence = update' - Len(cache') + i
    <3>1. Len(cache') \in Nat /\ Len(cache') <= Len(q) /\ Len(q) \in Nat /\ update' \in Int
      BY <1>1, <2>1, <2>3, <2>5
    <3>2. Len(q) - Len(cache') + i \in 1..Len(q)
      BY <3>1
    <3>3. cache'[i].sequence = update' - Len(q) + (Len(q) - Len(cache') + i)
      BY <2>1, <2>4, <2>5, <3>2
    <3> QED
      BY <3>1, <3>3
  <2> QED
    BY <2>6 DEF CacheIsNewest
<1>3. CASE ExpireCache
  <2>1. cache # <<>> /\ cache' = Tail(cache) /\ update' = update
    BY <1>3 DEF ExpireCache
  <2>2. Len(cache') = Len(cache) - 1 /\ \A i \in 1..Len(cache') : cache'[i] = cache[i + 1]
    BY <1>1, <2>1, Shifted
  <2> QED
    BY <1>1, <2>1, <2>2 DEF CacheIsNewest
<1>4. CASE ReceiveNack
  <2>1. update' = update
    BY <1>4 DEF ReceiveNack
  <2>2. CASE \E i \in Cached(Head(nacks).sequence) : AnswerWith(i)
    <3>1. PICK i \in Cached(Head(nacks).sequence) : AnswerWith(i)
      BY <2>2
    <3>2. i \in 1..Len(cache) /\ cache[i].rounds < MaxNackRounds
      BY DEF Cached
    <3>3. Len(cache') = Len(cache) /\ \A c \in 1..Len(cache) : cache'[c].sequence = cache[c].sequence
      BY <3>1, <3>2, OneMoreRound DEF AnswerWith
    <3> QED
      BY <2>1, <3>3 DEF CacheIsNewest
  <2> QED
    BY <1>4, <2>1, <2>2, NackCases DEF CacheIsNewest
<1>5. CASE SendFragment \/ Lose \/ Push \/ TakeNack \/ ExpireFrame
  <2>1. update' = update /\ cache' = cache
    BY <1>5 DEF SendFragment, Lose, Push, Ignore, Store, Complete, TakeNack, ExpireFrame, hostVars
  <2> QED
    BY <2>1 DEF CacheIsNewest
<1> QED
  BY <1>2, <1>3, <1>4, <1>5 DEF Next

\* Only what was sent is stored, asked for or handed over.
LEMMA SentStep ==
  ASSUME TypeOK, SentOnly, Next
  PROVE  SentOnly'
<1>1. /\ update \in Int /\ latest \in Int /\ Updates \subseteq Nat
      /\ DOMAIN partial \subseteq Updates /\ completed \subseteq Updates
      /\ \A f \in flight : f.sequence \in Updates
      /\ \A i \in 1..Len(nacks) : nacks[i].sequence \in Updates
  BY Fields
<1>2. CASE StartUpdate
  <2>1. update' = update + 1 /\ update' \in Updates
    BY <1>2, Types DEF StartUpdate, Updates
  <2>2. UNCHANGED <<flight, partial, nacks, completed, latest>>
    BY <1>2 DEF StartUpdate, viewerVars
  <2>3. \A s \in Nat : s <= update => s <= update'
    BY <1>1, <2>1
  <2>4. latest <= update'
    BY <1>1, <2>1 DEF SentOnly
  <2> QED
    BY <1>1, <2>1, <2>2, <2>3, <2>4 DEF SentOnly
<1>3. CASE SendFragment
  <2>1. flight' = flight \cup {[sequence |-> update, index |-> Min(unsent), copy |-> 0]}
    BY <1>3 DEF SendFragment
  <2>2. \A f \in flight' : f.sequence <= update
    BY <1>1, <2>1 DEF SentOnly
  <2> QED
    BY <1>3, <2>2 DEF SendFragment, SentOnly, viewerVars
<1>4. CASE ExpireCache \/ Lose
  BY <1>4 DEF ExpireCache, Lose, SentOnly, hostVars, viewerVars
<1>5. CASE ReceiveNack
  <2>1. nacks \in Seq(Nack)
    BY Types
  <2>2. /\ Head(nacks).sequence <= update /\ Len(nacks') = Len(nacks) - 1 /\ Len(nacks) \in Nat
        /\ \A i \in 1..Len(nacks') : nacks'[i] = nacks[i + 1]
    <3>1. /\ Head(nacks) = nacks[1] /\ Len(nacks) \in Nat \ {0} /\ nacks' = Tail(nacks)
          /\ Len(Tail(nacks)) = Len(nacks) - 1
          /\ \A i \in 1..Len(Tail(nacks)) : Tail(nacks)[i] = nacks[i + 1]
      BY <1>5, <2>1, NackCases, Shifted
    <3>2. 1 \in 1..Len(nacks)
      BY <3>1
    <3> QED
      BY <3>1, <3>2 DEF SentOnly
  <2>3. \A i \in 1..Len(nacks') : nacks'[i].sequence <= update
    BY <2>2 DEF SentOnly
  <2>4. \A f \in flight' : f.sequence <= update
    <3>1. ASSUME NEW i \in Cached(Head(nacks).sequence), AnswerWith(i)
          PROVE  \A f \in flight' : f.sequence <= update
      BY <2>2, <3>1 DEF AnswerWith, Resent, SentOnly
    <3> QED
      BY <1>5, <3>1, NackCases DEF SentOnly
  <2> QED
    BY <1>5, <2>3, <2>4, NackCases DEF SentOnly, viewerVars
<1>6. CASE Push
  <2>1. PICK f \in flight : Ignore(f) \/ Store(f) \/ Complete(f)
    BY <1>6 DEF Push
  <2>2. CASE Ignore(f)
    BY <2>2 DEF Ignore, SentOnly, hostVars, viewerVars
  <2>3. \A t \in DOMAIN Placed(f) : t <= update /\ Placed(f)[t].received # {}
    <3>1. ASSUME NEW t \in DOMAIN Placed(f), t = f.sequence
          PROVE  t <= update /\ Placed(f)[t].received # {}
      BY <3>1, PlacedIn DEF SentOnly
    <3>2. ASSUME NEW t \in DOMAIN Placed(f), t # f.sequence
          PROVE  t <= update /\ Placed(f)[t].received # {}
      BY <3>2, PlacedIn DEF SentOnly
    <3> QED
      BY <3>1, <3>2
  <2>4. CASE Store(f)
    BY <2>3, <2>4 DEF Store, SentOnly, hostVars
  <2>5. CASE Complete(f)
    <3>1. \A t \in DOMAIN partial' : t <= update /\ partial'[t].received # {}
      BY <2>3, <2>5 DEF Complete, Without
    <3>2. latest' <= update /\ latest <= latest' /\ f.sequence <= latest' /\ latest' \in Int
      <4>1. latest' = IF f.sequence > latest THEN f.sequence ELSE latest
        BY <2>5 DEF Complete
      <4>2. f.sequence \in Nat /\ f.sequence <= update /\ latest <= update
        BY <1>1 DEF SentOnly
      <4> QED
        BY <1>1, <4>1, <4>2
    <3>3. \A s \in completed' : s \in completed \/ s = f.sequence
      <4>1. completed' = Remember(completed \cup {f.sequence})
        BY <2>5 DEF Complete
      <4> QED
        BY <4>1 DEF Remember
    <3>4. \A s \in completed : s \in Nat /\ s <= latest
      BY <1>1 DEF SentOnly
    <3>5. ASSUME NEW s \in completed'
          PROVE  s <= latest'
      <4>1. CASE s \in completed
        <5>1. s \in Nat /\ s <= latest
          BY <3>4, <4>1
        <5> QED
          BY <1>1, <3>2, <5>1
      <4>2. CASE s = f.sequence
        BY <3>2, <4>2
      <4> QED
        BY <3>3, <4>1, <4>2
    <3> QED
      BY <2>5, <3>1, <3>2, <3>5 DEF Complete, SentOnly, hostVars
  <2> QED
    BY <2>1, <2>2, <2>4, <2>5
<1>7. CASE TakeNack
  <2>1. PICK s \in DOMAIN partial :
          /\ partial' = [partial EXCEPT ![s].rounds = @ + 1]
          /\ nacks' = IF Len(nacks) < NackCapacity
                      THEN Append(nacks, [sequence |-> s, missing |-> Fragment \ partial[s].received])
                      ELSE nacks
          /\ UNCHANGED <<hostVars, flight, completed, latest, arrivals>>
    BY <1>7 DEF TakeNack
  <2>2. DOMAIN partial' = DOMAIN partial /\ \A t \in DOMAIN partial' : partial'[t].received = partial[t].received
    <3>1. \A t \in DOMAIN partial : partial[t] \in Frames
      BY DEF TypeOK
    <3>2. [partial[s] EXCEPT !.rounds = @ + 1].received = partial[s].received
      BY <3>1 DEF Frames
    <3> QED
      BY <2>1, <3>2
  <2>3. \A i \in 1..Len(nacks') : nacks'[i].sequence <= update
    <3>1. nacks \in Seq(Nack) /\ Len(nacks) \in Nat
      BY Types
    <3>2. [sequence |-> s, missing |-> Fragment \ partial[s].received] \in Nack
      BY <1>1 DEF Nack
    <3>3. s <= update
      BY DEF SentOnly
    <3> QED
      BY <2>1, <3>1, <3>2, <3>3, AppendProperties DEF SentOnly
  <2> QED
    BY <2>1, <2>2, <2>3 DEF SentOnly, hostVars
<1>8. CASE ExpireFrame
  BY <1>8 DEF ExpireFrame, Without, SentOnly, hostVars
<1> QED
  BY <1>2, <1>3, <1>4, <1>5, <1>6, <1>7, <1>8 DEF Next

\* A completed update is remembered until Window newer ones are completed.
LEMMA RememberedStep ==
  ASSUME LaneInv, Next
  PROVE  Remembered'
<1> USE DEF LaneInv
<1>1. latest \in Int /\ Window \in Nat /\ arrivals \in [Updates -> Nat] /\ Updates \subseteq Nat
  BY Fields, RetransmitAssumption DEF TypeOK
<1>2. CASE StartUpdate \/ SendFragment \/ ExpireCache \/ ReceiveNack \/ Lose
  <2>1. UNCHANGED viewerVars
    BY <1>2 DEF StartUpdate, SendFragment, ExpireCache, ReceiveNack, Lose
  <2> QED
    BY <2>1 DEF Remembered, viewerVars
<1>3. CASE Push
  <2>1. PICK f \in flight : Ignore(f) \/ Store(f) \/ Complete(f)
    BY <1>3 DEF Push
  <2>2. f.sequence \in Updates
    <3>1. f \in Part
      BY Types
    <3> QED
      BY <3>1 DEF Part
  <2>3. CASE Ignore(f)
    BY <2>3 DEF Ignore, Remembered, viewerVars
  <2>4. CASE Store(f)
    <3>1. f.sequence \notin completed /\ partial' = Placed(f)
      BY <2>4 DEF Store, Rejected
    <3>2. \A s \in completed : s \notin DOMAIN partial'
      BY <3>1, PlacedIn DEF Remembered
    <3> QED
      BY <2>4, <3>2 DEF Store, Remembered
  <2>5. CASE Complete(f)
    <3> DEFINE s == f.sequence
    <3>1. /\ latest' \in Nat /\ latest <= latest' /\ s <= latest'
          /\ completed' = Remember(completed \cup {s}) /\ s \notin completed
          /\ partial' = Without(Placed(f), s)
          /\ arrivals' = [arrivals EXCEPT ![s] = @ + 1]
      <4>1. latest' = IF s > latest THEN s ELSE latest
        BY <2>5 DEF Complete
      <4>2. s \in Nat
        BY <1>1, <2>2
      <4>3. latest' \in Nat /\ latest <= latest' /\ s <= latest'
        BY <1>1, <4>1, <4>2
      <4> QED
        BY <2>5, <4>3 DEF Complete, Rejected
    <3>2. /\ completed' \subseteq completed \cup {s}
          /\ \A t \in (completed \cup {s}) \ completed' :
               \A last \in Nat : (\A u \in completed \cup {s} : u <= last) => t + Window <= last
      <4>1. completed \in SUBSET Updates /\ Cardinality(completed) <= Window
        BY DEF TypeOK
      <4>2. completed' = Remember(completed \cup {s}) /\ s \in Updates
        BY <2>2, <3>1
      <4> HIDE DEF s
      <4> QED
        BY <4>1, <4>2, RememberedBound
    <3>3. \A u \in completed \cup {s} : u <= latest'
      BY <1>1, <2>2, <3>1 DEF SentOnly, TypeOK
    <3>4. \A t \in (completed \cup {s}) \ completed' : t + Window <= latest'
      BY <3>1, <3>2, <3>3
    <3>5. \A t \in Updates : arrivals'[t] = IF t = s THEN arrivals[t] + 1 ELSE arrivals[t]
      BY <1>1, <3>1
    <3>6. ASSUME NEW t \in completed'
          PROVE  t \notin DOMAIN partial' /\ arrivals'[t] # 0
      <4>1. t \in completed \cup {s} /\ t \in Updates
        BY <2>2, <3>2 DEF TypeOK
      <4>2. t \notin DOMAIN partial'
        BY <3>1, <4>1, PlacedIn DEF Without, Remembered
      <4>3. arrivals'[t] # 0
        BY <1>1, <3>5, <4>1 DEF Remembered
      <4> QED
        BY <4>2, <4>3
    <3>7. ASSUME NEW t \in Updates, arrivals'[t] # 0
          PROVE  t <= latest' /\ (t \in completed' \/ t + Window <= latest')
      <4>1. CASE t \in completed \cup {s}
        BY <3>3, <3>4, <4>1
      <4>2. CASE t \notin completed \cup {s}
        <5>1. t <= latest /\ t + Window <= latest
          BY <3>5, <3>7, <4>2 DEF Remembered
        <5> QED
          BY <1>1, <3>1, <5>1
      <4> QED
        BY <4>1, <4>2
    <3> QED
      BY <3>6, <3>7 DEF Remembered
  <2> QED
    BY <2>1, <2>3, <2>4, <2>5
<1>4. CASE TakeNack \/ ExpireFrame
  <2>1. DOMAIN partial' \subseteq DOMAIN partial /\ UNCHANGED <<completed, latest, arrivals>>
    BY <1>4 DEF TakeNack, ExpireFrame, Without
  <2> QED
    BY <2>1 DEF Remembered
<1> QED
  BY <1>2, <1>3, <1>4 DEF Next

-----------------------------------------------------------------------------
\* What is scarce stays scarce in a step after which no more can arrive than before.
LEMMA Kept ==
  ASSUME NEW s, Spare(s)' => Spare(s), Unasked(s)' => Unasked(s), Unasked(s) /\ Spare(s)' => Unasked(s)',
         \A x \in Fragment : Quiet(s, x) => Quiet(s, x)',
         \A x \in Fragment : Single(s, x) => Single(s, x)',
         \A x \in Fragment : Held(s, x)' => Held(s, x)
  PROVE  (Awaited(s) => Awaited(s)') /\ (Spent(s) => Spent(s)')
<1>1. \A x \in Fragment : LastCopy(s, x) => LastCopy(s, x)'
  BY DEF LastCopy
<1>2. \A x \in Fragment : Quiet(s, x) => LastCopy(s, x)
  BY DEF LastCopy, Single, Quiet, AtMostOne
<1>3. 1 \in Fragment
  BY RetransmitAssumption DEF Fragment
<1>4. Spent(s) => Spent(s)'
  BY DEF Spent
<1>5. ASSUME Awaited(s)
      PROVE  Awaited(s)'
  <2>1. Unasked(s)' => \A x \in Fragment : LastCopy(s, x)'
    BY <1>1, <1>5 DEF Awaited
  <2>2. ~Unasked(s)' /\ Spare(s)' => \E x \in Fragment : Quiet(s, x)'
    BY <1>5 DEF Awaited
  <2>3. ~Unasked(s)' /\ ~Spare(s)' => \E x \in Fragment : LastCopy(s, x)'
    BY <1>1, <1>2, <1>3, <1>5 DEF Awaited
  <2> QED
    BY <2>1, <2>2, <2>3 DEF Awaited
<1> QED
  BY <1>4, <1>5

\* Neither the cache nor the nacks change.
LEMMA SameQueues ==
  ASSUME cache' = cache, nacks' = nacks, NEW s
  PROVE  /\ Spare(s)' <=> Spare(s)
         /\ Unasked(s)' <=> Unasked(s)
         /\ \A x : Asked(s, x)' = Asked(s, x)
<1>1. NacksFor(s)' = NacksFor(s)
  BY DEF NacksFor
<1>2. ASSUME NEW i
      PROVE  Answerable(i)' <=> Answerable(i)
  <2>1. Earlier(i)' = Earlier(i)
    BY DEF Earlier
  <2> QED
    BY <2>1 DEF Answerable, AtMostOne
<1> QED
  BY <1>1, <1>2 DEF Spare, Unasked, Asked, AtMostOne

\* A copy is lost or ignored, or a frame given up.
LEMMA Shrinking ==
  ASSUME cache' = cache, nacks' = nacks, update' = update, unsent' = unsent, arrivals' = arrivals,
         flight' \subseteq flight,
         \A s \in DOMAIN partial' : s \in DOMAIN partial /\ partial'[s].received \subseteq partial[s].received,
         Scarce
  PROVE  Scarce'
<1>1. ASSUME NEW s
      PROVE  (Awaited(s) => Awaited(s)') /\ (Spent(s) => Spent(s)')
  <2>1. \A x : Copies(s, x)' \subseteq Copies(s, x) /\ (ToSend(s, x)' <=> ToSend(s, x))
    BY DEF Copies, ToSend
  <2>2. \A x : Asked(s, x)' = Asked(s, x)
    BY SameQueues
  <2>3. \A x \in Fragment : Quiet(s, x) => Quiet(s, x)'
    BY <2>1, <2>2 DEF Quiet
  <2>4. \A x \in Fragment : Single(s, x) => Single(s, x)'
    BY <2>1, <2>2 DEF Single, AtMostOne
  <2>5. \A x \in Fragment : Held(s, x)' => Held(s, x)
    BY DEF Held
  <2> QED
    BY <2>3, <2>4, <2>5, SameQueues, Kept
<1> QED
  BY <1>1 DEF Scarce

\* The original of a fragment is sent when nothing else of it can arrive.
LEMMA SendScarce ==
  ASSUME TypeOK, Scarce, SendFragment
  PROVE  Scarce'
<1> DEFINE m == Min(unsent)
           new == [sequence |-> update, index |-> m, copy |-> 0]
<1>1. /\ m \in unsent /\ unsent' = unsent \ {m} /\ flight' = flight \cup {new}
      /\ update' = update /\ cache' = cache /\ nacks' = nacks /\ partial' = partial /\ arrivals' = arrivals
  BY MinUnsent DEF SendFragment, viewerVars
<1> HIDE DEF m
<1>2. ASSUME NEW s
      PROVE  (Awaited(s) => Awaited(s)') /\ (Spent(s) => Spent(s)')
  <2>1. ASSUME NEW x, ~(s = update /\ x = m)
        PROVE  Copies(s, x)' = Copies(s, x) /\ (ToSend(s, x)' <=> ToSend(s, x))
    BY <1>1, <2>1 DEF Copies, ToSend
  <2>2. ASSUME NEW x, s = update /\ x = m
        PROVE  Copies(s, x)' \subseteq Copies(s, x) \cup {new} /\ ~ToSend(s, x)' /\ ToSend(s, x)
    BY <1>1, <2>2 DEF Copies, ToSend
  <2>3. \A x : Asked(s, x)' = Asked(s, x)
    BY <1>1, SameQueues
  <2>4. \A x \in Fragment : Quiet(s, x) => Quiet(s, x)'
    BY <2>1, <2>2, <2>3 DEF Quiet
  <2>5. ASSUME NEW x \in Fragment, Single(s, x)
        PROVE  Single(s, x)'
    <3>1. CASE s = update /\ x = m
      <4>1. Copies(s, x) = {} /\ Asked(s, x) = {}
        BY <2>2, <2>5, <3>1 DEF Single
      <4>2. Copies(s, x)' \subseteq {new} /\ Asked(s, x)' = {} /\ ~ToSend(s, x)'
        BY <1>1, <2>2, <2>3, <3>1, <4>1
      <4> QED
        BY <4>2 DEF Single, AtMostOne
    <3>2. CASE ~(s = update /\ x = m)
      BY <2>1, <2>3, <2>5, <3>2 DEF Single, AtMostOne
    <3> QED
      BY <3>1, <3>2
  <2>6. \A x \in Fragment : Held(s, x)' => Held(s, x)
    BY <1>1 DEF Held
  <2> QED
    BY <1>1, <2>4, <2>5, <2>6, SameQueues, Kept
<1> QED
  BY <1>1, <1>2 DEF Scarce

\* A fragment that arrives was the last of its kind, or another one was.
LEMMA ArriveScarce ==
  ASSUME LaneInv, NEW f \in flight, Store(f) \/ Complete(f)
  PROVE  Scarce'
<1> USE DEF LaneInv
<1> DEFINE s == f.sequence
           y == f.index
<1>1. /\ cache' = cache /\ nacks' = nacks /\ update' = update /\ unsent' = unsent /\ flight' = flight \ {f}
      /\ s \in Updates /\ y \in Fragment /\ s <= update
  BY Fields DEF Store, Complete, hostVars, SentOnly
<1>2. \A t, x : Asked(t, x)' = Asked(t, x)
  BY <1>1, SameQueues
<1>3. \A t, x : Copies(t, x)' = Copies(t, x) \ {f} /\ (ToSend(t, x)' <=> ToSend(t, x))
  BY <1>1 DEF Copies, ToSend
<1>4. \A t, x : Quiet(t, x) => Quiet(t, x)'
  BY <1>2, <1>3 DEF Quiet
<1>5. \A t, x : Single(t, x) => Single(t, x)'
  BY <1>2, <1>3 DEF Single, AtMostOne
<1>6. f \in Copies(s, y) /\ ~Quiet(s, y) /\ (Single(s, y) => Quiet(s, y)')
  <2>1. f \in Copies(s, y)
    BY DEF Copies
  <2> QED
    BY <1>2, <1>3, <2>1 DEF Quiet, Single, AtMostOne
<1>7. /\ \A t \in DOMAIN partial' : t # s => t \in DOMAIN partial /\ partial'[t] = partial[t]
      /\ Complete(f) => s \notin DOMAIN partial'
      /\ Store(f) => s \in DOMAIN partial' /\ partial'[s] = Placed(f)[s]
  BY PlacedIn DEF Store, Complete, Without
<1>8. Placed(f)[s].received = (IF s \in DOMAIN partial THEN partial[s].received ELSE {}) \cup {y}
  BY PlacedIn
<1>9. ASSUME NEW t, t # s
      PROVE  (Awaited(t) => Awaited(t)') /\ (Spent(t) => Spent(t)')
  <2>1. \A x \in Fragment : Held(t, x)' => Held(t, x)
    BY <1>7, <1>9 DEF Held
  <2> QED
    BY <1>1, <1>4, <1>5, <2>1, SameQueues, Kept
<1>10. ASSUME NEW x \in Fragment
       PROVE  Held(s, x)' => Held(s, x) \/ x = y
  BY <1>7, <1>8 DEF Held
<1>11. CASE Store(f)
  <2>1. arrivals' = arrivals
    BY <1>11 DEF Store
  <2>2. \A x \in Fragment : LastCopy(s, x) => LastCopy(s, x)'
    BY <1>4, <1>5, <1>6, <1>10 DEF LastCopy
  <2>3. Awaited(s) => Awaited(s)'
    BY <1>1, <1>4, <2>2, SameQueues DEF Awaited
  <2>4. Spent(s) => Spent(s)'
    BY <1>4, <1>6, <1>10 DEF Spent
  <2> QED
    BY <1>1, <1>9, <2>1, <2>3, <2>4 DEF Scarce
<1>12. CASE Complete(f)
  <2>1. /\ Placed(f)[s].received = Fragment
        /\ arrivals' = [arrivals EXCEPT ![s] = @ + 1] /\ arrivals \in [Updates -> Nat]
    BY <1>12 DEF Complete, TypeOK
  <2>2. \A x \in Fragment : Held(s, x) \/ x = y
    BY <1>8, <2>1 DEF Held
  <2>3. ~Spent(s)
    BY <1>6, <2>2 DEF Spent
  <2>4. arrivals[s] = 0 /\ Awaited(s)
    BY <1>1, <2>3 DEF Scarce
  <2>5. \E x \in Fragment : LastCopy(s, x) \/ Quiet(s, x)
    BY <1>1, <2>4 DEF Awaited
  <2>6. \E x \in Fragment : Quiet(s, x)'
    BY <1>4, <1>6, <2>2, <2>5 DEF LastCopy
  <2>7. Spent(s)'
    BY <1>7, <1>12, <2>6 DEF Spent, Held
  <2>8. arrivals'[s] = 1 /\ \A t \in Updates : t # s => arrivals'[t] = arrivals[t]
    BY <1>1, <2>1, <2>4
  <2> QED
    BY <1>1, <1>9, <2>7, <2>8 DEF Scarce
<1> QED
  BY <1>11, <1>12

\* An update is in the cache once.
LEMMA CachedOnce ==
  ASSUME LaneInv, NEW c \in 1..Len(cache), NEW d \in 1..Len(cache), cache[c].sequence = cache[d].sequence
  PROVE  c = d
<1>1. /\ cache[c].sequence = update - Len(cache) + c /\ cache[d].sequence = update - Len(cache) + d
      /\ update - Len(cache) \in Int
  BY Types DEF LaneInv, CacheIsNewest
<1>2. c \in Int /\ d \in Int
  OBVIOUS
<1>3. \A k \in Int : k + c = k + d => c = d
  BY <1>2
<1> QED
  BY <1>1, <1>3

\* Updates leave the cache: fewer nacks are answered.
LEMMA SmallerCache ==
  ASSUME LaneInv, nacks' = nacks, NEW s,
         \A c \in 1..Len(cache') : cache'[c].sequence = s =>
            \E d \in 1..Len(cache) : cache'[c] = cache[d]
  PROVE  /\ Spare(s)' => Spare(s)
         /\ Unasked(s)' => Unasked(s)
         /\ Unasked(s) /\ Spare(s)' => Unasked(s)'
         /\ \A x : Asked(s, x)' \subseteq Asked(s, x)
<1>1. NacksFor(s)' = NacksFor(s)
  BY DEF NacksFor
<1>2. ASSUME NEW i, nacks[i].sequence = s, Answerable(i)'
      PROVE  Answerable(i)
  <2>1. Earlier(i)' = Earlier(i)
    BY DEF Earlier
  <2>2. nacks'[i].sequence = s
    BY <1>2
  <2> QED
    BY <1>2, <2>1, <2>2 DEF Answerable, AtMostOne
<1>3. \A x : Asked(s, x)' \subseteq Asked(s, x)
  BY <1>1, <1>2 DEF Asked, NacksFor
<1>4. (Spare(s)' => Spare(s)) /\ (Unasked(s)' => Unasked(s))
  BY <1>1 DEF Spare, Unasked, AtMostOne
<1>5. Unasked(s) /\ Spare(s)' => Unasked(s)'
  <2> SUFFICES ASSUME Unasked(s), Spare(s)'
               PROVE  Unasked(s)'
    OBVIOUS
  <2>1. PICK c \in 1..Len(cache) : cache[c].sequence = s /\ cache[c].rounds = 0
    BY DEF Unasked
  <2>2. PICK e \in 1..Len(cache') : cache'[e].sequence = s
    BY DEF Spare
  <2>3. PICK d \in 1..Len(cache) : cache'[e] = cache[d]
    BY <2>2
  <2>4. c = d
    BY <2>1, <2>2, <2>3, CachedOnce
  <2> QED
    BY <1>1, <2>1, <2>2, <2>3, <2>4 DEF Unasked
<1> QED
  BY <1>3, <1>4, <1>5

\* Before a new update enters the cache, nothing of it is anywhere.
LEMMA StartScarce ==
  ASSUME LaneInv, StartUpdate
  PROVE  Scarce'
<1> USE DEF LaneInv
<1> DEFINE new == [sequence |-> update', rounds |-> 0]
           q == Append(cache, new)
<1>1. /\ update' = update + 1 /\ update' \in Updates /\ update \in Int /\ unsent = {} /\ unsent' = Fragment
      /\ cache' = Trim(q) /\ nacks' = nacks /\ flight' = flight /\ partial' = partial /\ arrivals' = arrivals
      /\ cache \in Seq(Entry) /\ Len(cache) \in Nat
  BY Types DEF StartUpdate, Updates, viewerVars
<1>2. new \in Entry /\ new.sequence = update' /\ new.rounds = 0
  <2>1. 0 \in 0..MaxNackRounds /\ update' \in Updates
    BY <1>1, RetransmitAssumption
  <2>2. new \in Entry
    BY <2>1 DEF Entry
  <2> QED
    BY <2>2
<1> HIDE DEF new
<1>3. /\ q \in Seq(Entry) /\ q # <<>> /\ Len(q) = Len(cache) + 1
      /\ \A c \in 1..Len(cache) : q[c] = cache[c]
      /\ q[Len(cache) + 1] = new
  BY <1>1, <1>2, AppendProperties
<1> HIDE DEF q
<1>4. /\ Len(cache') \in 1..CacheMax /\ Len(cache') <= Len(q)
      /\ \A i \in 1..Len(cache') : cache'[i] = q[Len(q) - Len(cache') + i]
  BY <1>1, <1>3, Trimmed
<1>5. /\ \A c \in 1..Len(cache') : cache'[c] = new \/ \E d \in 1..Len(cache) : cache'[c] = cache[d]
      /\ Len(cache') \in 1..Len(cache') /\ cache'[Len(cache')] = new
  <2>1. ASSUME NEW c \in 1..Len(cache')
        PROVE  cache'[c] = new \/ \E d \in 1..Len(cache) : cache'[c] = cache[d]
    <3>1. Len(q) - Len(cache') + c \in 1..(Len(cache) + 1)
      BY <1>1, <1>3, <1>4
    <3>2. Len(q) - Len(cache') + c \in 1..Len(cache) \/ Len(q) - Len(cache') + c = Len(cache) + 1
      BY <1>1, <3>1
    <3> QED
      BY <1>3, <1>4, <3>2
  <2>2. CacheMax \in Nat \ {0}
    BY RetransmitAssumption
  <2>3. Len(cache') \in 1..Len(cache') /\ Len(q) - Len(cache') + Len(cache') = Len(cache) + 1
    BY <1>1, <1>3, <1>4, <2>2
  <2> QED
    BY <1>3, <1>4, <2>1, <2>3
<1>6. ASSUME NEW s \in Updates, s <= update
      PROVE  (Awaited(s) => Awaited(s)') /\ (Spent(s) => Spent(s)')
  <2>1. s \in Nat /\ s # update'
    BY <1>1, <1>6, Fields
  <2>2. \A c \in 1..Len(cache') : cache'[c].sequence = s => \E d \in 1..Len(cache) : cache'[c] = cache[d]
    BY <1>2, <1>5, <2>1
  <2>3. \A x : Copies(s, x)' = Copies(s, x) /\ ~ToSend(s, x)'
    BY <1>1, <2>1 DEF Copies, ToSend
  <2>4. /\ Spare(s)' => Spare(s)
        /\ Unasked(s)' => Unasked(s)
        /\ Unasked(s) /\ Spare(s)' => Unasked(s)'
        /\ \A x : Asked(s, x)' \subseteq Asked(s, x)
    BY <1>1, <2>2, SmallerCache
  <2>5. \A x \in Fragment : Quiet(s, x) => Quiet(s, x)'
    BY <2>3, <2>4 DEF Quiet
  <2>6. \A x \in Fragment : Single(s, x) => Single(s, x)'
    BY <2>3, <2>4 DEF Single, AtMostOne
  <2>7. \A x \in Fragment : Held(s, x)' => Held(s, x)
    BY <1>1 DEF Held
  <2> QED
    BY <2>4, <2>5, <2>6, <2>7, Kept
<1>7. ASSUME NEW s, s = update'
      PROVE  arrivals[s] = 0 /\ Awaited(s)'
  <2>1. arrivals[s] = 0
    BY <1>1, <1>7, Fields DEF Remembered, SentOnly
  <2>2. NacksFor(s)' = {}
    <3>1. \A i \in 1..Len(nacks) : nacks[i].sequence # s
      BY <1>1, <1>7, Fields DEF SentOnly
    <3> QED
      BY <1>1, <3>1 DEF NacksFor
  <2>3. Unasked(s)'
    BY <1>2, <1>5, <1>7, <2>2 DEF Unasked
  <2>4. ASSUME NEW x \in Fragment
        PROVE  LastCopy(s, x)'
    <3>1. Asked(s, x)' = {}
      BY <2>2 DEF Asked
    <3>2. Copies(s, x)' = {}
      BY <1>1, <1>7, Fields DEF Copies, SentOnly
    <3>3. ~Held(s, x)'
      BY <1>1, <1>7, Fields DEF Held, SentOnly
    <3> QED
      BY <3>1, <3>2, <3>3 DEF LastCopy, Single, AtMostOne
  <2> QED
    BY <2>1, <2>3, <2>4 DEF Awaited
<1>8. \A s \in Updates : s <= update' => s <= update \/ s = update'
  BY <1>1, Fields
<1> QED
  BY <1>1, <1>6, <1>7, <1>8 DEF Scarce

\* The oldest update leaves the cache.
LEMMA ExpireScarce ==
  ASSUME LaneInv, ExpireCache
  PROVE  Scarce'
<1> USE DEF LaneInv
<1>1. /\ cache # <<>> /\ cache' = Tail(cache) /\ cache \in Seq(Entry)
      /\ UNCHANGED <<update, unsent, flight, viewerVars, nacks>>
  BY Types DEF ExpireCache
<1>2. /\ Len(cache) \in Nat /\ Len(cache') = Len(cache) - 1
      /\ \A i \in 1..Len(cache') : cache'[i] = cache[i + 1]
  BY <1>1, Shifted
<1>3. \A c \in 1..Len(cache') : \E d \in 1..Len(cache) : cache'[c] = cache[d]
  <2>1. \A c \in 1..Len(cache') : c + 1 \in 1..Len(cache)
    BY <1>2
  <2> QED
    BY <1>2, <2>1
<1>4. ASSUME NEW s
      PROVE  (Awaited(s) => Awaited(s)') /\ (Spent(s) => Spent(s)')
  <2>1. \A x : Copies(s, x)' = Copies(s, x) /\ (ToSend(s, x)' <=> ToSend(s, x)) /\ (Held(s, x)' <=> Held(s, x))
    BY <1>1 DEF Copies, ToSend, Held, viewerVars
  <2>2. /\ Spare(s)' => Spare(s)
        /\ Unasked(s)' => Unasked(s)
        /\ Unasked(s) /\ Spare(s)' => Unasked(s)'
        /\ \A x : Asked(s, x)' \subseteq Asked(s, x)
    BY <1>1, <1>3, SmallerCache
  <2>3. \A x \in Fragment : Quiet(s, x) => Quiet(s, x)'
    BY <2>1, <2>2 DEF Quiet
  <2>4. \A x \in Fragment : Single(s, x) => Single(s, x)'
    BY <2>1, <2>2 DEF Single, AtMostOne
  <2> QED
    BY <2>1, <2>2, <2>3, <2>4, Kept
<1> QED
  BY <1>1, <1>4 DEF Scarce, viewerVars

\* A nack more in the queue: the earlier ones are answered as before, the new one
\* is answered if one more can be.
LEMMA OneMoreNack ==
  ASSUME LaneInv, cache' = cache, NEW s \in Updates, NEW missing,
         nacks' = Append(nacks, [sequence |-> s, missing |-> missing])
  PROVE  /\ \A t : t # s => (Spare(t)' <=> Spare(t)) /\ (Unasked(t)' <=> Unasked(t))
         /\ \A t, x : t # s => Asked(t, x)' = Asked(t, x)
         /\ NacksFor(s)' = NacksFor(s) \cup {Len(nacks) + 1}
         /\ \A x : x \notin missing \/ ~Spare(s) => Asked(s, x)' = Asked(s, x)
         /\ \A x : Asked(s, x)' \subseteq Asked(s, x) \cup {Len(nacks) + 1}
<1>0. PICK n : n = Len(nacks) + 1
  OBVIOUS
<1>1. /\ n \in Nat /\ Len(nacks') = n /\ n - 1 = Len(nacks) /\ 1..n = (1..Len(nacks)) \cup {n} /\ n \notin 1..Len(nacks)
      /\ \A i \in 1..Len(nacks) : nacks'[i] = nacks[i]
      /\ nacks'[n] = [sequence |-> s, missing |-> missing]
  <2>1. Len(nacks) \in Nat /\ nacks \in Seq(Nack)
    BY Types DEF LaneInv
  <2>2. /\ Len(nacks') = Len(nacks) + 1
        /\ \A i \in 1..Len(nacks) : nacks'[i] = nacks[i]
        /\ nacks'[Len(nacks) + 1] = [sequence |-> s, missing |-> missing]
    BY <2>1
  <2>3. 1..(Len(nacks) + 1) = (1..Len(nacks)) \cup {Len(nacks) + 1}
    BY <2>1
  <2> QED
    BY <1>0, <2>1, <2>2, <2>3
<1>2. ASSUME NEW t
      PROVE  NacksFor(t)' = NacksFor(t) \cup (IF t = s THEN {n} ELSE {})
  BY <1>1 DEF NacksFor
<1>3. ASSUME NEW i \in 1..Len(nacks)
      PROVE  Answerable(i)' <=> Answerable(i)
  <2>1. \A j \in 1..(i - 1) : j \in 1..Len(nacks)
    BY <1>1
  <2>2. Earlier(i)' = Earlier(i)
    BY <1>1, <2>1 DEF Earlier
  <2>3. nacks'[i].sequence = nacks[i].sequence
    BY <1>1
  <2> QED
    BY <2>2, <2>3 DEF Answerable, AtMostOne
<1>4. ASSUME NEW i, i = n
      PROVE  Answerable(i)' <=> Spare(s)
  <2>1. Earlier(i)' = NacksFor(s)
    BY <1>1, <1>4 DEF Earlier, NacksFor
  <2>2. nacks'[i].sequence = s
    BY <1>1, <1>4
  <2>3. ASSUME NEW S, S = NacksFor(s)
        PROVE  Spare(s) <=> \E c \in 1..Len(cache) :
                 /\ cache[c].sequence = s
                 /\ \/ cache[c].rounds + 1 = MaxNackRounds /\ S = {}
                    \/ cache[c].rounds + 2 = MaxNackRounds /\ AtMostOne(S)
    BY <2>3 DEF Spare
  <2>4. ASSUME NEW S, S = Earlier(i)'
        PROVE  Answerable(i)' <=> \E c \in 1..Len(cache) :
                 /\ cache[c].sequence = s
                 /\ \/ cache[c].rounds + 1 = MaxNackRounds /\ S = {}
                    \/ cache[c].rounds + 2 = MaxNackRounds /\ AtMostOne(S)
    BY <2>2, <2>4 DEF Answerable, AtMostOne
  <2> QED
    BY <2>1, <2>3, <2>4
<1>5. ASSUME NEW t, NEW x
      PROVE  /\ Asked(t, x)' \subseteq Asked(t, x) \cup (IF t = s THEN {n} ELSE {})
             /\ Asked(t, x) \subseteq Asked(t, x)'
             /\ n \in Asked(t, x)' => x \in missing /\ Spare(s)
  <2>1. \A i \in NacksFor(t) : i \in 1..Len(nacks)
    BY DEF NacksFor
  <2>2. \A i \in NacksFor(t) : nacks'[i].missing = nacks[i].missing /\ (Answerable(i)' <=> Answerable(i))
    BY <1>1, <1>3, <2>1
  <2>3. Answerable(n)' <=> Spare(s)
    BY <1>4
  <2>4. n \notin NacksFor(t) /\ nacks'[n].missing = missing
    BY <1>1, <2>1
  <2>5. n \in NacksFor(t)' => t = s
    BY <1>2, <2>4
  <2> QED
    BY <1>2, <2>2, <2>3, <2>4, <2>5 DEF Asked
<1>6. \A t : t # s => (Spare(t)' <=> Spare(t)) /\ (Unasked(t)' <=> Unasked(t))
  <2> SUFFICES ASSUME NEW t, t # s
               PROVE  (Spare(t)' <=> Spare(t)) /\ (Unasked(t)' <=> Unasked(t))
    OBVIOUS
  <2>1. NacksFor(t)' = NacksFor(t)
    BY <1>2
  <2> QED
    BY <2>1 DEF Spare, Unasked, AtMostOne
<1>7. ASSUME NEW t, NEW x, t # s \/ x \notin missing \/ ~Spare(s)
      PROVE  Asked(t, x)' = Asked(t, x)
  <2>1. Asked(t, x) \subseteq Asked(t, x)'
    BY <1>5
  <2>2. \A i \in Asked(t, x)' : i \in Asked(t, x)
    BY <1>5, <1>7
  <2> QED
    BY <2>1, <2>2
<1> QED
  BY <1>0, <1>2, <1>5, <1>6, <1>7

\* A nack asks for what its frame does not hold, so that the fragment without a
\* spare copy is none of them, or was dropped with an earlier frame.
LEMMA AskScarce ==
  ASSUME LaneInv, Sized, TakeNack
  PROVE  Scarce'
<1> USE DEF LaneInv
<1>1. PICK s \in DOMAIN partial :
        /\ partial' = [partial EXCEPT ![s].rounds = @ + 1]
        /\ nacks' = IF Len(nacks) < NackCapacity
                    THEN Append(nacks, [sequence |-> s, missing |-> Fragment \ partial[s].received])
                    ELSE nacks
        /\ UNCHANGED <<hostVars, flight, completed, latest, arrivals>>
  BY DEF TakeNack
<1>2. DOMAIN partial' = DOMAIN partial /\ \A t \in DOMAIN partial' : partial'[t].received = partial[t].received
  <2>1. partial[s] \in Frames
    BY DEF TypeOK
  <2>2. [partial[s] EXCEPT !.rounds = @ + 1].received = partial[s].received
    BY <2>1 DEF Frames
  <2> QED
    BY <1>1, <2>2
<1>3. \A t, x : /\ Copies(t, x)' = Copies(t, x) /\ (ToSend(t, x)' <=> ToSend(t, x))
                /\ (Held(t, x)' <=> Held(t, x))
  BY <1>1, <1>2 DEF Copies, ToSend, Held, hostVars
<1>4. cache' = cache /\ update' = update /\ arrivals' = arrivals /\ s \in Updates /\ s <= update
  BY <1>1 DEF hostVars, TypeOK, SentOnly
<1>5. CASE nacks' = nacks
  BY <1>1, <1>2, <1>4, <1>5, Shrinking DEF hostVars
<1>6. CASE nacks' = Append(nacks, [sequence |-> s, missing |-> Fragment \ partial[s].received])
  <2>0. PICK n : n = Len(nacks) + 1
    OBVIOUS
  <2> DEFINE missing == Fragment \ partial[s].received
  <2>1. /\ \A t : t # s => (Spare(t)' <=> Spare(t)) /\ (Unasked(t)' <=> Unasked(t))
        /\ \A t, x : t # s => Asked(t, x)' = Asked(t, x)
        /\ NacksFor(s)' = NacksFor(s) \cup {n}
        /\ \A x : x \notin missing \/ ~Spare(s) => Asked(s, x)' = Asked(s, x)
        /\ \A x : Asked(s, x)' \subseteq Asked(s, x) \cup {n}
    BY <1>4, <1>6, <2>0, OneMoreNack
  <2>2. ASSUME NEW t, t # s
        PROVE  (Awaited(t) => Awaited(t)') /\ (Spent(t) => Spent(t)')
    <3>1. \A x \in Fragment : Quiet(t, x) => Quiet(t, x)'
      BY <1>3, <2>1, <2>2 DEF Quiet
    <3>2. \A x \in Fragment : Single(t, x) => Single(t, x)'
      BY <1>3, <2>1, <2>2 DEF Single, AtMostOne
    <3> QED
      BY <1>3, <2>1, <2>2, <3>1, <3>2, Kept
  <2>3. n \notin NacksFor(s) /\ n \in NacksFor(s)'
    <3>1. Len(nacks) \in Nat
      BY Types
    <3> QED
      BY <2>0, <2>1, <3>1 DEF NacksFor
  <2> HIDE DEF missing
  <2>4. ~Unasked(s)'
    BY <2>3 DEF Unasked
  <2>5. Spare(s)' => Unasked(s)
    <3> SUFFICES ASSUME Spare(s)'
                 PROVE  Unasked(s)
      OBVIOUS
    <3>1. PICK c \in 1..Len(cache) :
            /\ cache[c].sequence = s
            /\ \/ cache[c].rounds + 1 = MaxNackRounds /\ NacksFor(s)' = {}
               \/ cache[c].rounds + 2 = MaxNackRounds /\ AtMostOne(NacksFor(s)')
      BY <1>4 DEF Spare, AtMostOne
    <3>2. NacksFor(s) = {}
      BY <2>1, <2>3, <3>1 DEF AtMostOne
    <3>3. cache[c].rounds = 0
      <4>1. cache[c].rounds \in Nat /\ cache[c].rounds + 2 = MaxNackRounds
        BY <2>3, <3>1, Fields
      <4> QED
        BY <4>1 DEF Sized
    <3> QED
      BY <3>1, <3>2, <3>3 DEF Unasked
  <2>6. \A x \in Fragment : (x \notin missing \/ ~Spare(s)) =>
          (Quiet(s, x) => Quiet(s, x)') /\ (LastCopy(s, x) => LastCopy(s, x)')
    BY <1>3, <2>1 DEF Quiet, Single, LastCopy, AtMostOne
  <2>7. \A x \in Fragment : Held(s, x) <=> x \notin missing
    BY DEF Held, missing
  <2>8. \A x \in Fragment : Quiet(s, x) => LastCopy(s, x)'
    <3> SUFFICES ASSUME NEW x \in Fragment, Quiet(s, x)
                 PROVE  LastCopy(s, x)'
      OBVIOUS
    <3>1. CASE x \notin missing
      BY <2>6, <3>1 DEF LastCopy, Quiet, Single, AtMostOne
    <3>2. CASE x \in missing
      <4>1. Copies(s, x)' = {} /\ ~ToSend(s, x)' /\ Asked(s, x)' \subseteq {n} /\ ~Held(s, x)'
        BY <1>3, <2>1, <2>7, <3>2 DEF Quiet
      <4> QED
        BY <4>1 DEF LastCopy, Single, AtMostOne
    <3> QED
      BY <3>1, <3>2
  <2>9. Awaited(s) => Awaited(s)'
    <3> SUFFICES ASSUME Awaited(s)
                 PROVE  Awaited(s)'
      OBVIOUS
    <3>1. CASE Unasked(s)
      <4>1. PICK x \in Fragment : x \notin missing
        <5>1. partial[s].received # {} /\ partial[s] \in Frames
          BY DEF SentOnly, TypeOK
        <5> QED
          BY <5>1 DEF Frames, missing
      <4>2. LastCopy(s, x)
        BY <3>1 DEF Awaited
      <4>3. Quiet(s, x)'
        BY <2>6, <2>7, <4>1, <4>2 DEF LastCopy
      <4>4. LastCopy(s, x)'
        BY <2>6, <4>1, <4>2
      <4> QED
        BY <2>4, <4>3, <4>4 DEF Awaited
    <3>2. CASE ~Unasked(s) /\ Spare(s)
      BY <2>4, <2>5, <2>8, <3>2 DEF Awaited
    <3>3. CASE ~Unasked(s) /\ ~Spare(s)
      BY <2>4, <2>5, <2>6, <3>3 DEF Awaited
    <3> QED
      BY <3>1, <3>2, <3>3
  <2>10. arrivals[s] = 1 /\ Spent(s) => Spent(s)'
    <3> SUFFICES ASSUME arrivals[s] = 1, Spent(s)
                 PROVE  Spent(s)'
      OBVIOUS
    <3>1. ~Spare(s)
      <4>1. s + Window <= update
        <5>1. s \notin completed
          BY DEF Remembered
        <5>2. s + Window <= latest /\ latest <= update
          BY <1>4, <5>1 DEF Remembered, SentOnly
        <5>3. s \in Nat /\ Window \in Nat /\ latest \in Int /\ update \in Int
          BY <1>4, Fields, RetransmitAssumption
        <5> QED
          BY <5>2, <5>3
      <4>2. ASSUME NEW c \in 1..Len(cache)
            PROVE  cache[c].sequence # s
        <5>1. cache[c].sequence = update - Len(cache) + c
          BY DEF CacheIsNewest
        <5>2. Len(cache) <= CacheMax /\ CacheMax <= Window
          BY DEF TypeOK, Sized
        <5>3. Len(cache) \in Nat /\ CacheMax \in Nat /\ Window \in Nat /\ update \in Int /\ s \in Nat
          BY <1>4, Types, Fields
        <5> QED
          BY <4>1, <5>1, <5>2, <5>3
      <4> QED
        BY <4>2 DEF Spare
    <3> QED
      BY <1>3, <2>6, <3>1 DEF Spent
  <2> QED
    BY <1>4, <2>2, <2>9, <2>10 DEF Scarce
<1> QED
  BY <1>1, <1>5, <1>6

\* A set of positions after the first was taken away.
LEMMA ShiftedSet ==
  ASSUME NEW S \in SUBSET (Nat \ {0}), NEW T \in SUBSET (Nat \ {0}),
         \A j \in Nat \ {0} : j \in T <=> j + 1 \in S
  PROVE  /\ 1 \notin S => (T = {} <=> S = {}) /\ (AtMostOne(T) <=> AtMostOne(S))
         /\ 1 \in S /\ T = {} => AtMostOne(S)
<1>1. ASSUME NEW a \in S, a # 1
      PROVE  a - 1 \in T /\ a - 1 + 1 = a /\ a - 1 \in Nat
  <2>1. a - 1 \in Nat \ {0} /\ a - 1 + 1 = a
    BY <1>1
  <2> QED
    BY <2>1
<1>2. \A j \in T : j \in Nat /\ j + 1 \in S /\ j + 1 - 1 = j
  OBVIOUS
<1>3. 1 \notin S => (T = {} <=> S = {})
  BY <1>1, <1>2
<1>4. ASSUME 1 \notin S, AtMostOne(T)
      PROVE  AtMostOne(S)
  <2> SUFFICES ASSUME NEW a \in S, NEW b \in S
               PROVE  a = b
    BY DEF AtMostOne
  <2>1. a - 1 \in T /\ b - 1 \in T
    BY <1>1, <1>4
  <2>2. a - 1 = b - 1
    BY <1>4, <2>1 DEF AtMostOne
  <2> QED
    BY <2>2
<1>5. ASSUME AtMostOne(S)
      PROVE  AtMostOne(T)
  <2> SUFFICES ASSUME NEW a \in T, NEW b \in T
               PROVE  a = b
    BY DEF AtMostOne
  <2>1. a + 1 = b + 1
    BY <1>2, <1>5 DEF AtMostOne
  <2> QED
    BY <2>1
<1>6. 1 \in S /\ T = {} => AtMostOne(S)
  BY <1>1 DEF AtMostOne
<1> QED
  BY <1>3, <1>4, <1>5, <1>6

\* The queue of nacks after the host took one.
LEMMA OneNackLess ==
  ASSUME TypeOK, nacks # <<>>, nacks' = Tail(nacks), NEW h, h = Head(nacks).sequence
  PROVE  /\ 1 \in 1..Len(nacks) /\ nacks[1].sequence = h /\ nacks[1] = Head(nacks)
         /\ \A j \in 1..Len(nacks') : /\ j \in Nat \ {0} /\ j + 1 \in 1..Len(nacks) /\ nacks'[j] = nacks[j + 1]
         /\ \A s, j : j \in NacksFor(s)' => j + 1 \in NacksFor(s)
         /\ \A s, S : S = NacksFor(s)' =>
              /\ s # h => (S = {} <=> NacksFor(s) = {}) /\ (AtMostOne(S) <=> AtMostOne(NacksFor(s)))
              /\ s = h => NacksFor(s) # {} /\ (S = {} => AtMostOne(NacksFor(s)))
         /\ \A j \in 1..Len(nacks') : \A S : S = Earlier(j)' =>
              /\ nacks[j + 1].sequence # h =>
                   (S = {} <=> Earlier(j + 1) = {}) /\ (AtMostOne(S) <=> AtMostOne(Earlier(j + 1)))
              /\ nacks[j + 1].sequence = h => (S = {} => AtMostOne(Earlier(j + 1)))
<1>1. /\ Head(nacks) = nacks[1] /\ Len(nacks) \in Nat \ {0} /\ Len(nacks') = Len(nacks) - 1
      /\ \A j \in 1..Len(nacks') : nacks'[j] = nacks[j + 1]
  BY Types, Shifted
<1>2. \A j \in Nat \ {0} : j \in 1..Len(nacks') <=> j + 1 \in 1..Len(nacks)
  BY <1>1
<1>3. \A j \in 1..Len(nacks') : j \in Nat \ {0}
  BY <1>1
<1>4. ASSUME NEW s
      PROVE  /\ NacksFor(s) \in SUBSET (Nat \ {0}) /\ NacksFor(s)' \in SUBSET (Nat \ {0})
             /\ \A j \in Nat \ {0} : j \in NacksFor(s)' <=> j + 1 \in NacksFor(s)
             /\ 1 \in NacksFor(s) <=> s = h
  BY <1>1, <1>2, <1>3 DEF NacksFor
<1>5. ASSUME NEW s, NEW S, S = NacksFor(s)'
      PROVE  /\ s # h => (S = {} <=> NacksFor(s) = {}) /\ (AtMostOne(S) <=> AtMostOne(NacksFor(s)))
             /\ s = h => NacksFor(s) # {} /\ (S = {} => AtMostOne(NacksFor(s)))
  <2>1. S \in SUBSET (Nat \ {0}) /\ \A j \in Nat \ {0} : j \in S <=> j + 1 \in NacksFor(s)
    BY <1>4, <1>5
  <2>2. NacksFor(s) \in SUBSET (Nat \ {0}) /\ (1 \in NacksFor(s) <=> s = h)
    BY <1>4
  <2>3. /\ 1 \notin NacksFor(s) =>
             (S = {} <=> NacksFor(s) = {}) /\ (AtMostOne(S) <=> AtMostOne(NacksFor(s)))
        /\ 1 \in NacksFor(s) /\ S = {} => AtMostOne(NacksFor(s))
    BY <2>1, <2>2, ShiftedSet
  <2> QED
    BY <2>2, <2>3
<1>6. ASSUME NEW j \in 1..Len(nacks'), NEW S, S = Earlier(j)'
      PROVE  /\ nacks[j + 1].sequence # h =>
                  (S = {} <=> Earlier(j + 1) = {}) /\ (AtMostOne(S) <=> AtMostOne(Earlier(j + 1)))
             /\ nacks[j + 1].sequence = h => (S = {} => AtMostOne(Earlier(j + 1)))
  <2>1. j \in Nat \ {0} /\ j <= Len(nacks') /\ nacks'[j] = nacks[j + 1]
    BY <1>1, <1>3
  <2>2. S \in SUBSET (Nat \ {0}) /\ Earlier(j + 1) \in SUBSET (Nat \ {0})
    BY <1>6, <2>1 DEF Earlier
  <2>3. ASSUME NEW i \in Nat \ {0}
        PROVE  i \in S <=> i + 1 \in Earlier(j + 1)
    <3>1. i \in 1..(j - 1) <=> i + 1 \in 1..(j + 1 - 1)
      BY <2>1
    <3>2. i \in 1..(j - 1) => nacks'[i].sequence = nacks[i + 1].sequence
      BY <1>1, <2>1
    <3>3. i \in S <=> i \in 1..(j - 1) /\ nacks'[i].sequence = nacks'[j].sequence
      BY <1>6 DEF Earlier
    <3>4. i + 1 \in Earlier(j + 1) <=>
            i + 1 \in 1..(j + 1 - 1) /\ nacks[i + 1].sequence = nacks[j + 1].sequence
      BY DEF Earlier
    <3> QED
      BY <2>1, <3>1, <3>2, <3>3, <3>4
  <2>4. 1 \in Earlier(j + 1) <=> nacks[j + 1].sequence = h
    <3>1. 1 \in 1..(j + 1 - 1)
      BY <2>1
    <3> QED
      BY <1>1, <3>1 DEF Earlier
  <2> QED
    BY <2>2, <2>3, <2>4, ShiftedSet
<1>7. 1 \in 1..Len(nacks)
  BY <1>1
<1> QED
  BY <1>1, <1>2, <1>3, <1>4, <1>5, <1>6, <1>7

\* The host took a nack for update h: every round of h that it has answered is one
\* that it answers no more.
LEMMA FewerNacks ==
  ASSUME LaneInv, Sized, nacks # <<>>, nacks' = Tail(nacks), NEW h, h = Head(nacks).sequence,
         Len(cache') = Len(cache),
         \A c \in 1..Len(cache) :
           /\ cache[c].sequence # h => cache'[c] = cache[c]
           /\ cache[c].sequence = h =>
                /\ cache'[c].sequence = h
                /\ cache'[c].rounds = cache[c].rounds + 1 \/ cache'[c].rounds = MaxNackRounds
  PROVE  \A s : /\ Spare(s)' => Spare(s)
                /\ Unasked(s)' => Unasked(s)
                /\ Unasked(s) /\ Spare(s)' => Unasked(s)'
                /\ \A x, j : j \in Asked(s, x)' => j \in Nat \ {0} /\ j + 1 \in Asked(s, x)
<1> USE DEF LaneInv
<1>1. /\ \A j \in 1..Len(nacks') : /\ j \in Nat \ {0} /\ j + 1 \in 1..Len(nacks) /\ nacks'[j] = nacks[j + 1]
      /\ \A s, j : j \in NacksFor(s)' => j + 1 \in NacksFor(s)
  BY OneNackLess
<1>2. \A s, S : S = NacksFor(s)' =>
         /\ s # h => (S = {} <=> NacksFor(s) = {}) /\ (AtMostOne(S) <=> AtMostOne(NacksFor(s)))
         /\ s = h => NacksFor(s) # {} /\ (S = {} => AtMostOne(NacksFor(s)))
  BY OneNackLess
<1>3. \A j \in 1..Len(nacks') : \A S : S = Earlier(j)' =>
         /\ nacks[j + 1].sequence # h =>
              (S = {} <=> Earlier(j + 1) = {}) /\ (AtMostOne(S) <=> AtMostOne(Earlier(j + 1)))
         /\ nacks[j + 1].sequence = h => (S = {} => AtMostOne(Earlier(j + 1)))
  BY OneNackLess
\* What a cached update of h has left.
<1>4. ASSUME NEW c \in 1..Len(cache), cache[c].sequence = h
      PROVE  /\ cache'[c].rounds # 0 /\ cache'[c].rounds + 2 # MaxNackRounds
             /\ cache'[c].rounds + 1 = MaxNackRounds => cache[c].rounds + 2 = MaxNackRounds
  <2>1. cache[c].rounds \in Nat /\ MaxNackRounds \in Nat \ {0} /\ MaxNackRounds <= 2
    BY Fields, RetransmitAssumption DEF Sized
  <2>2. cache'[c].rounds = cache[c].rounds + 1 \/ cache'[c].rounds = MaxNackRounds
    BY <1>4
  <2> QED
    BY <2>1, <2>2
<1>5. ASSUME NEW c \in 1..Len(cache), NEW s, cache'[c].sequence = s
      PROVE  /\ cache[c].sequence = s
             /\ s # h => cache'[c].rounds = cache[c].rounds
  BY <1>5
<1>6. ASSUME NEW s, NEW S, S = NacksFor(s)', Spare(s)'
      PROVE  Spare(s)
  <2>1. PICK c \in 1..Len(cache) :
          /\ cache'[c].sequence = s
          /\ \/ cache'[c].rounds + 1 = MaxNackRounds /\ S = {}
             \/ cache'[c].rounds + 2 = MaxNackRounds /\ AtMostOne(S)
    BY <1>6 DEF Spare, AtMostOne
  <2>2. cache[c].sequence = s
    BY <1>5, <2>1
  <2>3. \/ cache[c].rounds + 1 = MaxNackRounds /\ NacksFor(s) = {}
        \/ cache[c].rounds + 2 = MaxNackRounds /\ AtMostOne(NacksFor(s))
    <3>1. CASE s # h
      <4>1. cache'[c].rounds = cache[c].rounds
        BY <1>5, <2>1, <3>1
      <4> QED
        BY <1>2, <1>6, <2>1, <3>1, <4>1
    <3>2. CASE s = h
      BY <1>2, <1>4, <1>6, <2>1, <2>2, <3>2
    <3> QED
      BY <3>1, <3>2
  <2> QED
    BY <2>2, <2>3 DEF Spare
<1>7. ASSUME NEW j \in 1..Len(nacks'), NEW S, S = Earlier(j)', Answerable(j)'
      PROVE  Answerable(j + 1)
  <2>1. PICK c \in 1..Len(cache) :
          /\ cache'[c].sequence = nacks'[j].sequence
          /\ \/ cache'[c].rounds + 1 = MaxNackRounds /\ S = {}
             \/ cache'[c].rounds + 2 = MaxNackRounds /\ AtMostOne(S)
    BY <1>7 DEF Answerable, AtMostOne
  <2>2. nacks'[j].sequence = nacks[j + 1].sequence
    BY <1>1
  <2>3. cache[c].sequence = nacks[j + 1].sequence
    BY <1>5, <2>1, <2>2
  <2>4. \/ cache[c].rounds + 1 = MaxNackRounds /\ Earlier(j + 1) = {}
        \/ cache[c].rounds + 2 = MaxNackRounds /\ AtMostOne(Earlier(j + 1))
    <3>1. CASE nacks[j + 1].sequence # h
      <4>1. cache'[c].rounds = cache[c].rounds
        BY <1>5, <2>1, <2>2, <3>1
      <4> QED
        BY <1>3, <1>7, <2>1, <3>1, <4>1
    <3>2. CASE nacks[j + 1].sequence = h
      BY <1>3, <1>4, <1>7, <2>1, <2>3, <3>2
    <3> QED
      BY <3>1, <3>2
  <2> QED
    BY <2>3, <2>4 DEF Answerable
<1>8. ASSUME NEW s
      PROVE  (Unasked(s)' => Unasked(s)) /\ (s # h /\ Unasked(s) => Unasked(s)')
  <2>1. PICK S : S = NacksFor(s)'
    OBVIOUS
  <2>2. CASE s = h
    <3>1. \A c \in 1..Len(cache) : cache'[c].sequence = s => cache'[c].rounds # 0
      BY <1>4, <1>5, <2>2
    <3> QED
      BY <2>2, <3>1 DEF Unasked
  <2>3. CASE s # h
    <3>1. \A c \in 1..Len(cache) : cache'[c].sequence = s <=> cache[c].sequence = s
      BY <1>5, <2>3
    <3>2. \A c \in 1..Len(cache) : cache'[c].sequence = s => cache'[c].rounds = cache[c].rounds
      BY <1>5, <2>3
    <3>3. S = {} <=> NacksFor(s) = {}
      BY <1>2, <2>1, <2>3
    <3>4. Unasked(s)' <=> S = {} /\ \E c \in 1..Len(cache) : cache'[c].sequence = s /\ cache'[c].rounds = 0
      BY <2>1 DEF Unasked
    <3> QED
      BY <3>1, <3>2, <3>3, <3>4 DEF Unasked
  <2> QED
    BY <2>2, <2>3
<1>9. ~Unasked(h)
  BY <1>2 DEF Unasked
<1>10. ASSUME NEW s, NEW x, NEW j, j \in Asked(s, x)'
       PROVE  j \in Nat \ {0} /\ j + 1 \in Asked(s, x)
  <2>1. j \in NacksFor(s)' /\ x \in nacks'[j].missing /\ Answerable(j)'
    BY <1>10 DEF Asked
  <2>2. j \in 1..Len(nacks')
    BY <2>1 DEF NacksFor
  <2>3. PICK S : S = Earlier(j)'
    OBVIOUS
  <2>4. Answerable(j + 1)
    BY <1>7, <2>1, <2>2, <2>3
  <2>5. x \in nacks[j + 1].missing /\ j + 1 \in NacksFor(s) /\ j \in Nat \ {0}
    BY <1>1, <2>1, <2>2
  <2> QED
    BY <2>4, <2>5 DEF Asked
<1>11. \A s : Spare(s)' => Spare(s)
  BY <1>6
<1> QED
  BY <1>8, <1>9, <1>10, <1>11

\* A nack is answered with one more copy of what it asks for: it was the only one
\* of these copies to come.
LEMMA NackScarce ==
  ASSUME LaneInv, Sized, ReceiveNack
  PROVE  Scarce'
<1> USE DEF LaneInv
<1>1. PICK h : h = Head(nacks).sequence
  OBVIOUS
<1>2. PICK missing : missing = Head(nacks).missing
  OBVIOUS
<1>3. /\ nacks # <<>> /\ nacks' = Tail(nacks) /\ UNCHANGED <<update, unsent, partial, arrivals>>
      /\ (\E i \in Cached(h) : AnswerWith(i)) \/ (Cached(h) = {} /\ UNCHANGED <<cache, flight>>)
  BY <1>1, NackCases DEF viewerVars
<1>4. \A t, x : (ToSend(t, x)' <=> ToSend(t, x)) /\ (Held(t, x)' <=> Held(t, x))
  BY <1>3 DEF ToSend, Held
<1>5. MaxNackRounds \in Nat \ {0} /\ MaxNackRounds <= 2
  BY RetransmitAssumption DEF Sized
\* Either way the update of the nack has one answer less.
<1>6. Len(cache') = Len(cache)
      /\ \A c \in 1..Len(cache) :
           /\ cache[c].sequence # h => cache'[c] = cache[c]
           /\ cache[c].sequence = h =>
                /\ cache'[c].sequence = h
                /\ cache'[c].rounds = cache[c].rounds + 1 \/ cache'[c].rounds = MaxNackRounds
  <2>1. ASSUME NEW i \in Cached(h), AnswerWith(i)
        PROVE  /\ Len(cache') = Len(cache) /\ cache[i].sequence = h /\ cache'[i].sequence = h
               /\ cache'[i].rounds = cache[i].rounds + 1
               /\ \A c \in 1..Len(cache) : c # i => cache'[c] = cache[c] /\ cache[c].sequence # h
    <3>1. i \in 1..Len(cache) /\ cache[i].sequence = h /\ cache[i].rounds < MaxNackRounds
      BY DEF Cached
    <3>2. \A c \in 1..Len(cache) : c # i => cache[c].sequence # h
      BY <3>1, CachedOnce
    <3> QED
      BY <2>1, <3>1, <3>2, OneMoreRound DEF AnswerWith
  <2>2. CASE Cached(h) = {} /\ UNCHANGED <<cache, flight>>
    <3>1. \A c \in 1..Len(cache) : cache[c].sequence = h => cache[c].rounds = MaxNackRounds
      <4>1. ASSUME NEW c \in 1..Len(cache), cache[c].sequence = h
            PROVE  cache[c].rounds = MaxNackRounds
        <5>1. cache[c].rounds \in 0..MaxNackRounds
          BY Fields
        <5>2. ~(cache[c].rounds < MaxNackRounds)
          BY <2>2, <4>1 DEF Cached
        <5> QED
          BY <1>5, <5>1, <5>2
      <4> QED
        BY <4>1
    <3> QED
      BY <2>2, <3>1
  <2>3. CASE \E i \in Cached(h) : AnswerWith(i)
    <3>1. PICK i \in Cached(h) : AnswerWith(i)
      BY <2>3
    <3> QED
      BY <2>1, <3>1
  <2> QED
    BY <1>3, <2>2, <2>3
<1>7. \A s : /\ Spare(s)' => Spare(s)
             /\ Unasked(s)' => Unasked(s)
             /\ Unasked(s) /\ Spare(s)' => Unasked(s)'
             /\ \A x, j : j \in Asked(s, x)' => j \in Nat \ {0} /\ j + 1 \in Asked(s, x)
  BY <1>1, <1>3, <1>6, FewerNacks
\* What is answered was asked for, and a copy that was not is as before.
<1>8. ASSUME NEW s, NEW x
      PROVE  \/ Copies(s, x)' = Copies(s, x)
             \/ 1 \in Asked(s, x) /\ \E new : Copies(s, x)' \subseteq Copies(s, x) \cup {new}
  <2>1. ASSUME NEW i \in Cached(h), AnswerWith(i)
        PROVE  \/ Copies(s, x)' = Copies(s, x)
               \/ 1 \in Asked(s, x) /\ \E new : Copies(s, x)' \subseteq Copies(s, x) \cup {new}
    <3>1. PICK round : round = cache'[i].rounds
      OBVIOUS
    <3>2. flight' = flight \cup { [sequence |-> h, index |-> y, copy |-> round] : y \in missing }
      BY <1>1, <1>2, <2>1, <3>1 DEF AnswerWith, Resent
    <3>3. CASE s = h /\ x \in missing
      <4>1. Copies(s, x)' \subseteq Copies(s, x) \cup {[sequence |-> h, index |-> x, copy |-> round]}
        BY <3>2 DEF Copies
      <4>2. 1 \in 1..Len(nacks) /\ nacks[1].sequence = h /\ nacks[1].missing = missing
        BY <1>1, <1>2, <1>3, OneNackLess
      <4>3. Answerable(1)
        <5>1. Earlier(1) = {}
          BY DEF Earlier
        <5>2. i \in 1..Len(cache) /\ cache[i].sequence = h /\ cache[i].rounds < MaxNackRounds
          BY DEF Cached
        <5>3. cache[i].rounds + 1 = MaxNackRounds \/ cache[i].rounds + 2 = MaxNackRounds
          <6>1. cache[i].rounds \in Nat
            BY <5>2, Fields
          <6> QED
            BY <1>5, <5>2, <6>1
        <5> QED
          BY <4>2, <5>1, <5>2, <5>3 DEF Answerable, AtMostOne
      <4>4. 1 \in Asked(s, x)
        BY <3>3, <4>2, <4>3 DEF Asked, NacksFor
      <4> QED
        BY <4>1, <4>4
    <3>4. CASE ~(s = h /\ x \in missing)
      BY <3>2, <3>4 DEF Copies
    <3> QED
      BY <3>3, <3>4
  <2>2. CASE flight' = flight
    BY <2>2 DEF Copies
  <2> QED
    BY <1>3, <2>1, <2>2
<1>9. \A s, x : Asked(s, x) = {} => Asked(s, x)' = {}
  BY <1>7
<1>10. ASSUME NEW s, NEW x, AtMostOne(Asked(s, x))
       PROVE  AtMostOne(Asked(s, x)') /\ (1 \in Asked(s, x) => Asked(s, x)' = {})
  <2>1. ASSUME NEW j \in Asked(s, x)', NEW k \in Asked(s, x)'
        PROVE  j = k
    <3>1. j \in Nat /\ k \in Nat /\ j + 1 \in Asked(s, x) /\ k + 1 \in Asked(s, x)
      BY <1>7
    <3>2. j + 1 = k + 1
      BY <1>10, <3>1 DEF AtMostOne
    <3> QED
      BY <3>1, <3>2
  <2>2. ASSUME 1 \in Asked(s, x), NEW j \in Asked(s, x)'
        PROVE  FALSE
    <3>1. j \in Nat \ {0} /\ j + 1 \in Asked(s, x)
      BY <1>7
    <3>2. j + 1 = 1
      BY <1>10, <2>2, <3>1 DEF AtMostOne
    <3> QED
      BY <3>1, <3>2
  <2> QED
    BY <2>1, <2>2 DEF AtMostOne
<1>11. \A s, x : Quiet(s, x) => Quiet(s, x)'
  BY <1>4, <1>8, <1>9 DEF Quiet
<1>12. ASSUME NEW s, NEW x, Single(s, x)
       PROVE  Single(s, x)'
  <2>1. AtMostOne(Asked(s, x)') /\ (1 \in Asked(s, x) => Asked(s, x)' = {})
    BY <1>10, <1>12 DEF Single
  <2>2. CASE Copies(s, x)' = Copies(s, x)
    BY <1>4, <1>9, <1>12, <2>1, <2>2 DEF Single, AtMostOne
  <2>3. CASE 1 \in Asked(s, x) /\ \E new : Copies(s, x)' \subseteq Copies(s, x) \cup {new}
    <3>1. Copies(s, x) = {} /\ ~ToSend(s, x) /\ Asked(s, x)' = {}
      BY <1>12, <2>1, <2>3 DEF Single
    <3>2. \A a, b \in Copies(s, x)' : a = b
      BY <2>3, <3>1
    <3> QED
      BY <1>4, <3>1, <3>2 DEF Single, AtMostOne
  <2> QED
    BY <1>8, <2>2, <2>3
<1>13. \A s : (Awaited(s) => Awaited(s)') /\ (Spent(s) => Spent(s)')
  <2> SUFFICES ASSUME NEW s
               PROVE  (Awaited(s) => Awaited(s)') /\ (Spent(s) => Spent(s)')
    OBVIOUS
  <2>1. \A x \in Fragment : Quiet(s, x) => Quiet(s, x)'
    BY <1>11
  <2>2. \A x \in Fragment : Single(s, x) => Single(s, x)'
    BY <1>12
  <2>3. \A x \in Fragment : Held(s, x)' => Held(s, x)
    BY <1>4
  <2>4. (Spare(s)' => Spare(s)) /\ (Unasked(s)' => Unasked(s)) /\ (Unasked(s) /\ Spare(s)' => Unasked(s)')
    BY <1>7
  <2> QED
    BY <2>1, <2>2, <2>3, <2>4, Kept
<1> QED
  BY <1>3, <1>13 DEF Scarce

-----------------------------------------------------------------------------
\* Every step keeps the limits and types, whatever the limits are.
LEMMA TypesStep ==
  ASSUME TypeOK, SentOnly, [Next]_vars
  PROVE  TypeOK'
<1>1. CASE UNCHANGED vars
  BY <1>1 DEF TypeOK, vars, hostVars, viewerVars
<1>2. CASE Next
  BY <1>2, HostTypes, ViewerTypes DEF Next
<1> QED
  BY <1>1, <1>2

\* Every step keeps what is scarce.
LEMMA ScarceStep ==
  ASSUME LaneInv, Sized, Next
  PROVE  Scarce'
<1> USE DEF LaneInv
<1>1. CASE Lose
  BY <1>1, Shrinking DEF Lose, hostVars, viewerVars
<1>2. CASE ExpireFrame
  BY <1>2, Shrinking DEF ExpireFrame, Without, hostVars
<1>3. CASE Push
  <2>1. PICK f \in flight : Ignore(f) \/ Store(f) \/ Complete(f)
    BY <1>3 DEF Push
  <2>2. CASE Ignore(f)
    BY <2>2, Shrinking DEF Ignore, hostVars, viewerVars
  <2> QED
    BY <2>1, <2>2, ArriveScarce
<1> QED
  BY <1>1, <1>2, <1>3, StartScarce, SendScarce, ExpireScarce, NackScarce, AskScarce DEF Next

\* The invariant holds in the initial state.
LEMMA LaneInit == Init => LaneInv
<1> SUFFICES ASSUME Init
             PROVE  LaneInv
  OBVIOUS
<1>1. /\ MaxUpdate \in Nat /\ Fragments \in Nat /\ InFlightMax \in Nat /\ Window \in Nat
      /\ CacheMax \in Nat /\ NackCapacity \in Nat
  BY RetransmitAssumption
<1>2. DOMAIN partial = {} /\ cache = <<>> /\ nacks = <<>> /\ Len(cache) = 0 /\ Len(nacks) = 0
  BY DEF Init
<1>3. arrivals \in [Updates -> Nat]
  BY DEF Init
<1>4. Cardinality({}) = 0
  BY FS_EmptySet
<1>5. cache \in Seq(Entry) /\ nacks \in Seq(Nack)
  BY <1>2
<1>6. TypeOK
  <2>1. Len(cache) <= CacheMax /\ Len(nacks) <= NackCapacity
    BY <1>1, <1>2
  <2>2. Cardinality(DOMAIN partial) <= InFlightMax /\ Cardinality(completed) <= Window
    BY <1>1, <1>2, <1>4 DEF Init
  <2>3. /\ update \in Updates \cup {-1} /\ unsent \subseteq Fragment /\ refresh \in BOOLEAN
        /\ latest \in Updates \cup {-1} /\ completed \subseteq Updates /\ flight = {}
    BY DEF Init
  <2> QED
    BY <1>2, <1>3, <1>5, <2>1, <2>2, <2>3 DEF TypeOK, Entry, Nack
<1>7. CacheIsNewest /\ SentOnly /\ Remembered
  BY <1>2 DEF Init, CacheIsNewest, SentOnly, Remembered
<1>8. Scarce
  BY DEF Init, Scarce, Updates
<1> QED
  BY <1>6, <1>7, <1>8 DEF LaneInv

\* Every step keeps the invariant.
LEMMA LaneStep ==
  ASSUME LaneInv, Sized, [Next]_vars
  PROVE  LaneInv'
<1>1. CASE UNCHANGED vars
  <2>1. UNCHANGED <<update, unsent, cache, refresh, flight, partial, completed, latest, nacks, arrivals>>
    BY <1>1 DEF vars, hostVars, viewerVars
  <2>2. TypeOK' /\ CacheIsNewest' /\ SentOnly' /\ Remembered'
    BY <2>1 DEF LaneInv, TypeOK, CacheIsNewest, SentOnly, Remembered
  <2>3. Scarce'
    BY <2>1, Shrinking DEF LaneInv
  <2> QED
    BY <2>2, <2>3 DEF LaneInv
<1>2. CASE Next
  BY <1>2, TypesStep, CacheStep, SentStep, RememberedStep, ScarceStep DEF LaneInv
<1> QED
  BY <1>1, <1>2

\* Whatever the limits are, every variable keeps its type, and the cache, the
\* frames being reassembled, the memory of completed updates and the channel of
\* nacks never outgrow theirs (MediaRetransmitCache, VideoDatagramReassembler).
THEOREM LaneTypes == Spec => []TypeOK
<1> DEFINE I == TypeOK /\ SentOnly
<1>1. Init => I
  BY LaneInit DEF LaneInv
<1>2. I /\ [Next]_vars => I'
  <2> SUFFICES ASSUME I, [Next]_vars
               PROVE  I'
    OBVIOUS
  <2>1. CASE UNCHANGED vars
    <3>1. SentOnly'
      BY <2>1 DEF SentOnly, vars, hostVars, viewerVars
    <3> QED
      BY <3>1, TypesStep
  <2>2. CASE Next
    BY <2>2, TypesStep, SentStep
  <2> QED
    BY <2>1, <2>2
<1>3. I => TypeOK
  OBVIOUS
<1> QED
  BY <1>1, <1>2, <1>3, PTL DEF Spec

\* The invariant holds in every state.
LEMMA LaneInvariant == ASSUME Sized PROVE Spec => []LaneInv
<1>1. Init => LaneInv
  BY LaneInit
<1>2. LaneInv /\ [Next]_vars => LaneInv'
  BY LaneStep
<1> QED
  BY <1>1, <1>2, PTL DEF Spec

\* What a step of the lane is for its user: an update is sent, an update arrives
\* for the first time, or nothing happens.
LEMMA LaneStepImplements ==
  ASSUME LaneInv, Sized, [Next]_vars
  PROVE  [Lane!Next]_<<0..update, arrivals>>
<1> USE DEF LaneInv
<1>1. CASE UNCHANGED <<update, arrivals>>
  BY <1>1
<1>2. CASE StartUpdate
  <2>1. /\ update' = update + 1 /\ update' \in Updates /\ update \in Int /\ update >= -1
        /\ arrivals' = arrivals
    BY <1>2, Types DEF StartUpdate, Updates, viewerVars
  <2>2. update' \notin 0..update /\ 0..update' = (0..update) \cup {update'}
    BY <2>1
  <2>3. Lane!Send(update')
    BY <2>1, <2>2 DEF Lane!Send
  <2> QED
    BY <2>1, <2>3 DEF Lane!Next
<1>3. ASSUME NEW f \in flight, Complete(f)
      PROVE  Lane!Next
  <2> DEFINE s == f.sequence
  <2>1. s \in Updates /\ s <= update /\ s \in Nat /\ update \in Int
    BY Fields DEF SentOnly
  <2>2. arrivals' = [arrivals EXCEPT ![s] = @ + 1] /\ update' = update
    BY <1>3 DEF Complete, hostVars
  <2>3. arrivals'[s] = arrivals[s] + 1 /\ arrivals[s] \in Nat
    BY <2>1, <2>2 DEF TypeOK
  <2>4. arrivals'[s] \in {0, 1}
    <3>1. Scarce'
      BY <1>3, ArriveScarce
    <3> QED
      BY <2>1, <2>2, <3>1 DEF Scarce
  <2>5. arrivals[s] = 0
    BY <2>3, <2>4
  <2>6. arrivals' = [arrivals EXCEPT ![s] = 1] /\ s \in 0..update /\ 0..update' = 0..update
    BY <2>1, <2>2, <2>5
  <2>7. Lane!Arrive(s)
    BY <2>5, <2>6 DEF Lane!Arrive
  <2> QED
    BY <2>1, <2>7 DEF Lane!Next
<1>4. CASE Next /\ ~StartUpdate /\ ~\E f \in flight : Complete(f)
  <2>1. UNCHANGED <<update, arrivals>>
    BY <1>4 DEF Next, SendFragment, ExpireCache, ReceiveNack, Lose, Push, Ignore, Store,
                TakeNack, ExpireFrame, hostVars, viewerVars
  <2> QED
    BY <2>1
<1>5. CASE UNCHANGED vars
  BY <1>1, <1>5 DEF vars, hostVars, viewerVars
<1> QED
  BY <1>2, <1>3, <1>4, <1>5

\* Fragments are sent again and completed updates are forgotten, and still the
\* viewer is never handed an update twice: neither by a copy that arrives late, nor
\* after its sequence left the completed_sequences.  That needs the two limits to
\* be Sized as the constants of the code are.
THEOREM NeverTwice == ASSUME Sized PROVE Spec => IsLossyLane
<1>1. Init => Lane!Init
  <2>1. 0..(-1) = {}
    OBVIOUS
  <2> QED
    BY <2>1 DEF Init, Lane!Init
<1>2. LaneInv /\ [Next]_vars => [Lane!Next]_<<0..update, arrivals>>
  BY LaneStepImplements
<1> QED
  BY <1>1, <1>2, LaneInvariant, PTL DEF Spec, IsLossyLane, Lane!Spec
=============================================================================
