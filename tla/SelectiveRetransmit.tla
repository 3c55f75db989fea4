------------------------- MODULE SelectiveRetransmit -------------------------
(***************************************************************************)
(* The Datagram lane of a desktop stream for DCVD updates: the sender's    *)
(* fragments, the host's MediaRetransmitCache, the network and the viewer's*)
(* VideoDatagramReassembler with its MediaNacks.  Time is free: every      *)
(* deadline may pass at any moment.                                        *)
(***************************************************************************)
EXTENDS Integers, Sequences, FiniteSets, FiniteSetsExt

CONSTANTS
  MaxUpdate,      \* bound: updates are numbered 0..MaxUpdate
  Fragments,      \* fragments of an update
  CacheMax,       \* RETRANSMIT_CACHE_MAX_UPDATES
  InFlightMax,    \* MAX_IN_FLIGHT
  Window,         \* COMPLETED_SEQUENCE_WINDOW
  MaxNackRounds,  \* MAX_NACK_ROUNDS, also the rounds the cache answers
  NackCapacity,   \* channel of the viewer's MediaNacks
  Losses          \* which copies of a fragment the network may lose

ASSUME RetransmitAssumption ==
  /\ MaxUpdate \in Nat
  /\ {Fragments, CacheMax, InFlightMax, Window, MaxNackRounds, NackCapacity} \subseteq Nat \ {0}
  /\ Losses \subseteq 0..MaxNackRounds

VARIABLES
  update,         \* the sender's current update, or -1
  unsent,         \* its fragments still to be handed to the network
  cache,          \* oldest first: [sequence, rounds]
  refresh,        \* a NACK missed the cache: request_keyframe was called
  flight,         \* fragments on the way; copy 0 is the original
  partial,        \* frames: for a sequence, what was received and asked for
  completed,      \* completed_sequences
  latest,         \* latest_completed, or -1
  nacks,          \* MediaNacks on their way to the host
  arrivals        \* updates handed to the viewer, by sequence

hostVars   == <<update, unsent, cache, refresh>>
viewerVars == <<partial, completed, latest, arrivals>>
vars == <<hostVars, flight, viewerVars, nacks>>

Updates  == 0..MaxUpdate
Fragment == 1..Fragments

Init ==
  /\ update = -1
  /\ unsent = {}
  /\ cache = <<>>
  /\ refresh = FALSE
  /\ flight = {}
  /\ partial = <<>>
  /\ completed = {}
  /\ latest = -1
  /\ nacks = <<>>
  /\ arrivals = [s \in Updates |-> 0]

-----------------------------------------------------------------------------
\* Mutant: the cache keeps what it has.
Trim_Never(updates) == updates

\* insert drops the oldest updates beyond the limit.
Trim(updates) ==
  SubSeq(updates, IF Len(updates) > CacheMax THEN Len(updates) - CacheMax + 1 ELSE 1, Len(updates))

\* An update enters the cache before its first fragment is sent.
StartUpdate ==
  /\ unsent = {}
  /\ update < MaxUpdate
  /\ update' = update + 1
  /\ unsent' = Fragment
  /\ cache' = Trim(Append(cache, [sequence |-> update', rounds |-> 0]))
  /\ UNCHANGED <<refresh, flight, viewerVars, nacks>>

SendFragment ==
  /\ unsent # {}
  /\ flight' = flight \cup {[sequence |-> update, index |-> Min(unsent), copy |-> 0]}
  /\ unsent' = unsent \ {Min(unsent)}
  /\ UNCHANGED <<update, cache, refresh, viewerVars, nacks>>

\* RETRANSMIT_CACHE_LIFETIME, or RETRANSMIT_CACHE_MAX_BYTES, takes the oldest.
ExpireCache ==
  /\ cache # <<>>
  /\ cache' = Tail(cache)
  /\ UNCHANGED <<update, unsent, refresh, flight, viewerVars, nacks>>

\* The cached updates a NACK can be answered from: at most one.
Cached(s) == { i \in 1..Len(cache) : cache[i].sequence = s /\ cache[i].rounds < MaxNackRounds }

Resent(s, missing, round) == { [sequence |-> s, index |-> x, copy |-> round] : x \in missing }

\* Mutant: a miss is left unanswered.
ReceiveNack_Silent ==
  LET s == Head(nacks).sequence IN
  /\ nacks # <<>>
  /\ nacks' = Tail(nacks)
  /\ \/ \E i \in Cached(s) :
          /\ cache' = [cache EXCEPT ![i].rounds = @ + 1]
          /\ flight' = flight \cup Resent(s, Head(nacks).missing, cache'[i].rounds)
     \/ /\ Cached(s) = {}
        /\ UNCHANGED <<cache, flight>>
  /\ UNCHANGED <<update, unsent, refresh, viewerVars>>

\* dispatch_selective_retransmit: the missing fragments, or a keyframe.
ReceiveNack ==
  LET s == Head(nacks).sequence IN
  /\ nacks # <<>>
  /\ nacks' = Tail(nacks)
  /\ \/ \E i \in Cached(s) :
          /\ cache' = [cache EXCEPT ![i].rounds = @ + 1]
          /\ flight' = flight \cup Resent(s, Head(nacks).missing, cache'[i].rounds)
          /\ UNCHANGED refresh
     \/ /\ Cached(s) = {}
        /\ refresh' = TRUE
        /\ UNCHANGED <<cache, flight>>
  /\ UNCHANGED <<update, unsent, viewerVars>>

Lose ==
  \E f \in flight :
    /\ f.copy \in Losses
    /\ flight' = flight \ {f}
    /\ UNCHANGED <<hostVars, viewerVars, nacks>>

-----------------------------------------------------------------------------
Without(frames, s) == [t \in DOMAIN frames \ {s} |-> frames[t]]

\* Delivered already, or too old to be remembered.
Rejected(s) == s \in completed \/ s + Window < latest

\* Mutant: one frame too many.
Admit_OneMore(s) ==
  IF s \notin DOMAIN partial /\ Cardinality(DOMAIN partial) > InFlightMax
  THEN Without(partial, Min(DOMAIN partial))
  ELSE partial

\* A new sequence drops the oldest incomplete frame when there are too many.
Admit(s) ==
  IF s \notin DOMAIN partial /\ Cardinality(DOMAIN partial) >= InFlightMax
  THEN Without(partial, Min(DOMAIN partial))
  ELSE partial

\* The frames after a fragment was put into one of them.
Placed(f) ==
  LET frames == Admit(f.sequence)
      old    == IF f.sequence \in DOMAIN frames THEN frames[f.sequence]
                ELSE [received |-> {}, rounds |-> 0]
  IN [t \in DOMAIN frames \cup {f.sequence} |->
        IF t = f.sequence THEN [old EXCEPT !.received = @ \cup {f.index}] ELSE frames[t]]

Remember(sequences) == IF Cardinality(sequences) > Window THEN sequences \ {Min(sequences)} ELSE sequences

Ignore(f) ==
  /\ f \in flight
  /\ flight' = flight \ {f}
  /\ Rejected(f.sequence)
  /\ UNCHANGED <<hostVars, viewerVars, nacks>>

Store(f) ==
  /\ f \in flight
  /\ flight' = flight \ {f}
  /\ ~Rejected(f.sequence)
  /\ Placed(f)[f.sequence].received # Fragment
  /\ partial' = Placed(f)
  /\ UNCHANGED <<hostVars, completed, latest, arrivals, nacks>>

\* The last fragment hands the update to the viewer.
Complete(f) ==
  /\ f \in flight
  /\ flight' = flight \ {f}
  /\ ~Rejected(f.sequence)
  /\ Placed(f)[f.sequence].received = Fragment
  /\ partial' = Without(Placed(f), f.sequence)
  /\ latest' = IF f.sequence > latest THEN f.sequence ELSE latest
  /\ completed' = Remember(completed \cup {f.sequence})
  /\ arrivals' = [arrivals EXCEPT ![f.sequence] = @ + 1]
  /\ UNCHANGED <<hostVars, nacks>>

Push == \E f \in flight : Ignore(f) \/ Store(f) \/ Complete(f)

\* take_nacks, for one stalled frame.  The round counts also when the channel is
\* full and the NACK is dropped.
TakeNack ==
  \E s \in DOMAIN partial :
    /\ partial[s].rounds < MaxNackRounds
    /\ partial' = [partial EXCEPT ![s].rounds = @ + 1]
    /\ nacks' = IF Len(nacks) < NackCapacity
                THEN Append(nacks, [sequence |-> s, missing |-> Fragment \ partial[s].received])
                ELSE nacks
    /\ UNCHANGED <<hostVars, flight, completed, latest, arrivals>>

\* REASSEMBLY_TIMEOUT without a new fragment.
ExpireFrame ==
  \E s \in DOMAIN partial :
    /\ partial' = Without(partial, s)
    /\ UNCHANGED <<hostVars, flight, completed, latest, arrivals, nacks>>

Next ==
  \/ StartUpdate \/ SendFragment \/ ExpireCache \/ ReceiveNack \/ Lose
  \/ Push \/ TakeNack \/ ExpireFrame

Spec == Init /\ [][Next]_vars

\* Before any frame is given up, the loops of both sides run.
Patient == StartUpdate \/ SendFragment \/ ExpireCache \/ ReceiveNack \/ Lose \/ Push \/ TakeNack
PatientSpec ==
  /\ Init /\ [][Patient]_vars
  /\ WF_vars(SendFragment) /\ WF_vars(ReceiveNack) /\ WF_vars(Push) /\ WF_vars(TakeNack)

-----------------------------------------------------------------------------
Frames == [received : SUBSET Fragment, rounds : 0..MaxNackRounds]

\* Every variable holds a value of its type, and neither the cache, nor the frames
\* being reassembled, nor the memory of completed ones outgrows its limit.
TypeOK ==
  /\ update \in Updates \cup {-1} /\ unsent \subseteq Fragment
  /\ cache \in Seq([sequence : Updates, rounds : 0..MaxNackRounds]) /\ Len(cache) <= CacheMax
  /\ refresh \in BOOLEAN
  /\ flight \subseteq [sequence : Updates, index : Fragment, copy : 0..MaxNackRounds]
  /\ DOMAIN partial \subseteq Updates /\ Cardinality(DOMAIN partial) <= InFlightMax
  /\ \A s \in DOMAIN partial : partial[s] \in Frames
  /\ completed \subseteq Updates /\ Cardinality(completed) <= Window
  /\ latest \in Updates \cup {-1}
  /\ nacks \in Seq([sequence : Updates, missing : SUBSET Fragment]) /\ Len(nacks) <= NackCapacity
  /\ arrivals \in [Updates -> Nat]

\* Reassembly and retransmission together are a lossy lane: although fragments are
\* sent again, and remembered only for a while, no update is handed to the viewer
\* twice.
Lane == INSTANCE LossyLane WITH sent <- 0..update
IsLossyLane == Lane!Spec

\* An update of which something arrived is completed, displaced by newer ones, or
\* replaced by a requested keyframe, without waiting for any deadline: of lost
\* fragments that are sent again, none is forgotten.
RepairedOrRefreshed ==
  \A s \in Updates : s \in DOMAIN partial ~> (s \notin DOMAIN partial \/ refresh)

\* "at most two NACK rounds are sent" (docs/WINDOWS_MAC_STREAMING_TESTING.md:178):
\* no update has more of them on their way at once.
AsksAtMostTwice ==
  \A s \in Updates : Cardinality({ i \in 1..Len(nacks) : nacks[i].sequence = s }) <= 2
=============================================================================
