------------------------- MODULE FileTransferProofs -------------------------
(***************************************************************************)
(* However often a transfer is interrupted, and whatever happens to the    *)
(* source meanwhile, the destination is a whole file that was offered.     *)
(***************************************************************************)
EXTENDS FileTransfer, SequenceTheorems, TLAPS

\* Until the receiver has read the offer nothing else was sent either way.
Opening ==
  /\ sender = "offer" => to_receiver = <<>>
  /\ receiver = "offer" =>
       /\ sender \in {"offer", "resume", "failed"}
       /\ to_sender = <<>>
       /\ to_receiver = <<>> \/ (to_receiver = <<Offer(manifest)>> /\ manifest \in offered)

\* The manifest the receiver compares with was offered.
ExpectedOffered == receiver \in {"chunk", "verify"} => expected \in offered

WholeInv == Opening /\ ExpectedOffered /\ DestinationIsWhole

\* A transfer starts with nothing sent, stored or delivered.
LEMMA InitWhole == Init => WholeInv
  BY DEF Init, WholeInv, Opening, ExpectedOffered, DestinationIsWhole

\* The steps of the sender: only an offer precedes the receiver's first answer.
LEMMA SenderWhole ==
  ASSUME WholeInv, Sender
  PROVE  WholeInv'
<1> USE DEF WholeInv
<1>1. /\ ExpectedOffered' /\ DestinationIsWhole'
  BY DEF Sender, SendOffer, ReceiveResume, SendChunk, ReceiveAck, SenderFails, ExpectedOffered,
         DestinationIsWhole, fileVars, receiverVars, recordVars
<1>2. Opening'
  <2>1. CASE SendOffer
    <3>1. to_receiver' = <<Offer(manifest')>> /\ manifest' \in offered'
      BY <2>1 DEF SendOffer, Opening
    <3> QED
      BY <2>1, <3>1 DEF SendOffer, Opening, receiverVars
  <2>2. CASE ReceiveResume
    <3>1. receiver' = receiver /\ receiver # "offer" /\ sender' # "offer"
      BY <2>2 DEF ReceiveResume, Continue, Opening, receiverVars
    <3> QED
      BY <3>1 DEF Opening
  <2>3. CASE SendChunk \/ ReceiveAck
    <3>1. receiver' = receiver /\ receiver # "offer" /\ sender' # "offer"
      BY <2>3 DEF SendChunk, ReceiveAck, Continue, Opening, receiverVars
    <3> QED
      BY <3>1 DEF Opening
  <2>4. CASE SenderFails
    BY <2>4 DEF SenderFails, Opening, receiverVars, streamVars, recordVars
  <2> QED
    BY <2>1, <2>2, <2>3, <2>4 DEF Sender
<1> QED
  BY <1>1, <1>2

\* The steps of the receiver: it expects what it was offered, and delivers what
\* it expects.
LEMMA ReceiverWhole ==
  ASSUME WholeInv, Receiver \/ TearChunk
  PROVE  WholeInv'
<1> USE DEF WholeInv
<1>1. CASE ReceiveOffer
  <2>1. Head(to_receiver).content = manifest /\ manifest \in offered
    BY <1>1 DEF ReceiveOffer, Opening, Offer
  <2>2. /\ receiver' # "offer" /\ expected' \in offered' /\ to_receiver' = Tail(to_receiver)
        /\ destination' = destination /\ offered' = offered /\ sender' = sender
    BY <1>1, <2>1 DEF ReceiveOffer, Await, recordVars, senderVars
  <2>3. sender # "offer"
    BY <1>1 DEF ReceiveOffer, Opening
  <2> QED
    BY <2>2, <2>3 DEF Opening, ExpectedOffered, DestinationIsWhole
<1>2. CASE StoreChunk \/ TearChunk
  <2>1. /\ receiver = "chunk" /\ receiver' # "offer" /\ expected' = expected
        /\ destination' = destination /\ offered' = offered /\ sender' = sender /\ to_receiver # <<>>
    BY <1>2 DEF StoreChunk, TearChunk, Storing, Await, recordVars, senderVars
  <2> QED
    BY <2>1 DEF Opening, ExpectedOffered, DestinationIsWhole
<1>3. CASE Deliver
  <2>1. /\ receiver = "verify" /\ receiver' \in {"ok", "failed"} /\ offered' = offered
        /\ destination' \in {destination, expected} /\ sender' = sender /\ to_receiver' = to_receiver
    BY <1>3 DEF Deliver, recordVars, senderVars, streamVars
  <2> QED
    BY <2>1 DEF Opening, ExpectedOffered, DestinationIsWhole
<1>4. CASE ReceiverFails
  BY <1>4 DEF ReceiverFails, Opening, ExpectedOffered, DestinationIsWhole, fileVars, senderVars,
       streamVars, recordVars
<1> QED
  BY <1>1, <1>2, <1>3, <1>4 DEF Receiver

\* Every step keeps the invariant.
LEMMA NextWhole == WholeInv /\ [Next]_vars => WholeInv'
<1> SUFFICES ASSUME WholeInv, [Next]_vars PROVE WholeInv'
  OBVIOUS
<1> USE DEF WholeInv
<1>1. CASE Sender
  BY <1>1, SenderWhole
<1>2. CASE Receiver \/ TearChunk
  BY <1>2, ReceiverWhole
<1>3. CASE Disconnect \/ HangUp
  BY <1>3 DEF Disconnect, HangUp, LoseStream, Opening, ExpectedOffered, DestinationIsWhole, fileVars,
       senderVars, receiverVars, recordVars
<1>4. CASE TryAgain
  BY <1>4 DEF TryAgain, Opening, ExpectedOffered, DestinationIsWhole, fileVars
<1>5. CASE EditSource
  BY <1>5 DEF EditSource, Opening, ExpectedOffered, DestinationIsWhole, senderVars, receiverVars, streamVars
<1>6. CASE Ended \/ UNCHANGED vars
  BY <1>6 DEF Ended, vars, Opening, ExpectedOffered, DestinationIsWhole, fileVars, senderVars,
       receiverVars, streamVars, recordVars
<1> QED
  BY <1>1, <1>2, <1>3, <1>4, <1>5, <1>6 DEF Next

\* The destination never holds anything but a whole file that was offered: the
\* rename happens only after the stored bytes matched the manifest (lib.rs:296-302).
THEOREM DeliveryIsWhole == Spec => []DestinationIsWhole
<1>1. WholeInv => DestinationIsWhole
  BY DEF WholeInv
<1> QED
  BY <1>1, InitWhole, NextWhole, PTL DEF Spec

-----------------------------------------------------------------------------
(***************************************************************************)
(* Both ends in step: what is on the stream fits what either end holds.    *)
(***************************************************************************)
\* Data that stands at an offset of some content the source had.
FromSource(data, at) ==
  \A i \in 1..Len(data) : \E c \in versions : at + i <= Len(c) /\ c[at + i] = data[i]

\* The one message on its way to the receiver: the offer, or the chunk it expects.
OfferSent ==
  to_receiver = <<Offer(manifest)>> /\ sender = "resume" /\ receiver = "offer"
ChunkSent ==
  /\ sender = "ack" /\ receiver = "chunk" /\ next_offset = next_chunk
  /\ \E data \in Seq(Byte) : /\ to_receiver = <<Chunk(next_chunk, data)>>
                             /\ Len(data) = ChunkLength(manifest, next_chunk)
                             /\ FromSource(data, next_chunk)

\* The one message on its way back: how much the receiver has stored.
AckSent ==
  /\ to_sender = <<Ack(next_offset)>>
  /\ sender \in {"resume", "ack"} /\ receiver # "offer" /\ manifest = expected
  /\ sender = "ack" => next_offset = next_chunk + ChunkLength(manifest, next_chunk)
  /\ next_offset < Len(manifest) => receiver = "chunk"

OneMessage ==
  /\ to_receiver # <<>> => to_sender = <<>> /\ (OfferSent \/ ChunkSent)
  /\ to_sender # <<>> => to_receiver = <<>> /\ AckSent
  /\ ~connected => to_receiver = <<>> /\ to_sender = <<>>
  /\ sender = "offer" => /\ to_receiver = <<>> /\ receiver \in {"offer", "failed"} /\ next_chunk = 0
                         /\ connected => receiver = "offer"

\* Where either end stands in the file.
SenderStands ==
  /\ sender \in {"resume", "chunk", "ack"} => manifest # NoFile
  /\ sender \in {"chunk", "ack"} => next_chunk < Len(manifest)
  /\ sender = "chunk" => /\ part # NoFile /\ next_chunk = Len(part)
                         /\ receiver \in {"chunk", "failed"}
                         /\ connected => receiver = "chunk"
                         /\ receiver = "chunk" => next_offset = next_chunk
ReceiverStands ==
  /\ receiver = "offer" => next_offset = 0
  /\ receiver \in {"chunk", "verify"} => expected # NoFile /\ part # NoFile /\ next_offset = Len(part)
  /\ receiver = "chunk" => next_offset < Len(expected) /\ manifest = expected

StepInv == TypeOK /\ source \in versions /\ OneMessage /\ SenderStands /\ ReceiverStands /\ BytesInPlace

LEMMA InitStep == Init => StepInv
  BY TransferAssumption DEF Init, StepInv, TypeOK, File, OneMessage, SenderStands, ReceiverStands, BytesInPlace

\* Writing at the end of a file lengthens it and leaves what was there.
LEMMA WrittenAtEnd ==
  ASSUME NEW f \in Seq(Byte), NEW data \in Seq(Byte)
  PROVE  /\ Written(f, Len(f), data) \in Seq(Byte)
         /\ Len(Written(f, Len(f), data)) = Len(f) + Len(data)
         /\ \A i \in 1..Len(f) : Written(f, Len(f), data)[i] = f[i]
         /\ \A i \in 1..Len(data) : Written(f, Len(f), data)[Len(f) + i] = data[i]
<1> DEFINE n == Len(f) + Len(data)
           w == [i \in 1..n |-> IF i > Len(f) /\ i <= Len(f) + Len(data) THEN data[i - Len(f)] ELSE f[i]]
<1>1. Len(f) \in Nat /\ Len(data) \in Nat /\ n \in Nat
  OBVIOUS
<1>2. Written(f, Len(f), data) = w
  <2>1. (IF Len(f) > n THEN Len(f) ELSE n) = n
    BY <1>1
  <2> QED
    BY <2>1 DEF Written
<1>3. \A i \in 1..n : w[i] \in Byte
  BY <1>1
<1>4. w \in Seq(Byte) /\ Len(w) = n
  <2>1. w \in [1..n -> Byte]
    BY <1>3
  <2> HIDE DEF w, n
  <2> QED
    BY <1>1, <2>1
<1>5. /\ \A i \in 1..Len(f) : w[i] = f[i]
      /\ \A i \in 1..Len(data) : w[Len(f) + i] = data[i]
  BY <1>1
<1> QED
  BY <1>2, <1>4, <1>5

\* Bytes of the source written at the end of the file are in their place.
LEMMA StoredInPlace ==
  ASSUME BytesInPlace, part \in Seq(Byte), part # NoFile, NEW data \in Seq(Byte), FromSource(data, Len(part)),
         part' = Written(part, Len(part), data), versions' = versions
  PROVE  BytesInPlace'
<1>1. /\ Len(part') = Len(part) + Len(data) /\ Len(part) \in Nat /\ Len(data) \in Nat
      /\ \A i \in 1..Len(part) : part'[i] = part[i]
      /\ \A i \in 1..Len(data) : part'[Len(part) + i] = data[i]
  <2> DEFINE w == Written(part, Len(part), data)
  <2>1. /\ Len(w) = Len(part) + Len(data)
        /\ \A i \in 1..Len(part) : w[i] = part[i]
        /\ \A i \in 1..Len(data) : w[Len(part) + i] = data[i]
    BY WrittenAtEnd
  <2>2. Len(part) \in Nat /\ Len(data) \in Nat
    OBVIOUS
  <2>3. part' = w
    OBVIOUS
  <2> HIDE DEF w
  <2> QED
    BY <2>1, <2>2, <2>3
<1> SUFFICES ASSUME NEW i \in 1..Len(part')
             PROVE  \E c \in versions : i <= Len(c) /\ c[i] = part'[i]
  BY DEF BytesInPlace
<1>2. CASE i <= Len(part)
  BY <1>1, <1>2 DEF BytesInPlace
<1>3. CASE i > Len(part)
  <2>1. i - Len(part) \in 1..Len(data) /\ Len(part) + (i - Len(part)) = i
    BY <1>1, <1>3
  <2>2. part'[i] = data[i - Len(part)]
    BY <1>1, <2>1
  <2> QED
    BY <2>1, <2>2 DEF FromSource
<1> QED
  BY <1>1, <1>2, <1>3

\* A chunk before the end of a file is not empty and does not pass the end.
LEMMA ChunkFits ==
  ASSUME NEW c \in Seq(Byte), NEW offset \in Nat, offset < Len(c)
  PROVE  ChunkLength(c, offset) \in Nat \ {0} /\ offset + ChunkLength(c, offset) <= Len(c)
  BY TransferAssumption DEF ChunkLength, Least

\* A part of a content is a sequence of its bytes.
LEMMA BytesOf ==
  ASSUME NEW c \in Seq(Byte), NEW from \in Nat, NEW n \in Nat, from + n <= Len(c)
  PROVE  /\ Bytes(c, from, n) \in Seq(Byte) /\ Len(Bytes(c, from, n)) = n
         /\ \A i \in 1..n : Bytes(c, from, n)[i] = c[from + i]
<1>1. /\ from + 1 \in 1..Len(c) + 1 /\ from + n \in 0..Len(c)
      /\ from + n - (from + 1) + 1 = n /\ (from + 1 <= from + n <=> n > 0)
      /\ \A i \in 1..n : from + 1 + i - 1 = from + i
  OBVIOUS
<1> QED
  BY <1>1, SubSeqProperties DEF Bytes

\* A stream of one message is empty behind it.
LEMMA OneSent == \A m : Head(<<m>>) = m /\ Tail(<<m>>) = <<>> /\ <<m>> # <<>>
  OBVIOUS

LEMMA SenderStep ==
  ASSUME StepInv, Sender
  PROVE  StepInv'
<1> USE DEF StepInv
<1>1. /\ UNCHANGED <<fileVars, receiverVars, connected, attempts, versions>>
  BY DEF Sender, SendOffer, ReceiveResume, SendChunk, ReceiveAck, SenderFails, recordVars
<1>2. BytesInPlace' /\ source' \in versions' /\ source \in Seq(Byte) /\ source # NoFile
  BY <1>1, TransferAssumption DEF fileVars, BytesInPlace, TypeOK
<1>3. manifest \in Seq(Byte) \/ manifest = NoFile
  BY DEF TypeOK, File
<1>4. CASE SendOffer
  <2>1. /\ to_receiver' = <<Offer(source)>> /\ manifest' = source /\ sender' = "resume" /\ sender = "offer"
        /\ to_sender' = to_sender /\ to_sender = <<>> /\ connected /\ receiver = "offer"
        /\ next_chunk' = next_chunk /\ next_chunk = 0 /\ offered' = offered \cup {source}
    BY <1>4 DEF SendOffer, OneMessage, AckSent
  <2>2. TypeOK'
    BY <1>1, <1>2, <2>1 DEF TypeOK, File, fileVars, receiverVars
  <2>3. OneMessage'
    BY <1>1, <2>1 DEF OneMessage, OfferSent, receiverVars
  <2>4. SenderStands' /\ ReceiverStands'
    BY <1>1, <1>2, <2>1 DEF SenderStands, ReceiverStands, receiverVars, fileVars
  <2> QED
    BY <1>2, <2>2, <2>3, <2>4
\* An answer of the receiver: the sender goes on where the stored file ends.
<1>5. CASE ReceiveResume \/ ReceiveAck
  <2>1. /\ AckSent /\ to_receiver = <<>> /\ to_receiver' = <<>> /\ connected
        /\ manifest' = manifest /\ offered' = offered
    BY <1>5 DEF ReceiveResume, ReceiveAck, OneMessage, recordVars
  <2>2. to_sender = <<Ack(next_offset)>> /\ to_sender' = <<>>
    <3>1. to_sender' = Tail(to_sender)
      BY <1>5 DEF ReceiveResume, ReceiveAck
    <3> QED
      BY <2>1, <3>1, OneSent DEF AckSent
  <2>3. Head(to_sender).next_offset = next_offset
    BY <2>2, OneSent DEF Ack
  <2>4. manifest # NoFile /\ manifest \in Seq(Byte) /\ manifest = expected /\ next_offset \in Nat /\ next_chunk \in Nat
    BY <1>3, <2>1 DEF AckSent, SenderStands, TypeOK
  <2>5. next_offset <= Len(manifest)
    BY <2>4 DEF TypeOK
  <2>6. \/ sender' = "failed" /\ next_chunk' = next_chunk
        \/ /\ next_chunk' = next_offset
           /\ sender' = IF next_offset < Len(manifest) THEN "chunk" ELSE "ok"
    BY <1>5, <2>3 DEF ReceiveResume, ReceiveAck, Continue
  <2>7. next_offset < Len(manifest) => receiver = "chunk" /\ part # NoFile /\ next_offset = Len(part)
    BY <2>1 DEF AckSent, ReceiverStands
  <2>8. TypeOK'
    BY <1>1, <2>1, <2>4, <2>5, <2>6 DEF TypeOK, fileVars, receiverVars
  <2>9. OneMessage' /\ SenderStands' /\ ReceiverStands'
    BY <1>1, <2>1, <2>2, <2>4, <2>6, <2>7 DEF OneMessage, SenderStands, ReceiverStands, receiverVars, fileVars
  <2> QED
    BY <1>2, <2>8, <2>9
<1>6. CASE SendChunk
  <2> DEFINE n == ChunkLength(manifest, next_chunk)
             data == Bytes(source, next_chunk, n)
  <2>1. /\ sender = "chunk" /\ connected /\ manifest' = manifest /\ next_chunk' = next_chunk
        /\ to_sender' = to_sender /\ offered' = offered
        /\ to_receiver = <<>> /\ to_sender = <<>>
    BY <1>6 DEF SendChunk, OneMessage, OfferSent, ChunkSent, AckSent, recordVars
  <2>2. /\ manifest \in Seq(Byte) /\ next_chunk \in Nat /\ next_chunk < Len(manifest)
        /\ receiver = "chunk" /\ next_offset = next_chunk /\ manifest # NoFile
    BY <1>3, <2>1 DEF SenderStands, TypeOK
  <2>3. n \in Nat
    BY <2>2, ChunkFits
  <2>4. CASE sender' = "failed" /\ to_receiver' = to_receiver
    <3>1. TypeOK'
      BY <1>1, <2>1, <2>2, <2>4 DEF TypeOK, fileVars, receiverVars
    <3> QED
      BY <1>1, <1>2, <2>1, <2>2, <2>4, <3>1 DEF OneMessage, SenderStands, ReceiverStands, receiverVars, fileVars
  <2>5. CASE /\ next_chunk + n <= Len(source) /\ sender' = "ack"
             /\ to_receiver' = Append(to_receiver, Chunk(next_chunk, data))
    <3>1. data \in Seq(Byte) /\ Len(data) = n /\ \A i \in 1..n : data[i] = source[next_chunk + i]
      BY <1>2, <2>2, <2>3, <2>5, BytesOf
    <3>2. FromSource(data, next_chunk)
      BY <1>2, <2>2, <2>3, <2>5, <3>1 DEF FromSource
    <3>3. to_receiver' = <<Chunk(next_chunk, data)>>
      BY <2>1, <2>5
    <3> HIDE DEF n, data
    <3>4. TypeOK'
      BY <1>1, <2>1, <2>2, <2>5 DEF TypeOK, fileVars, receiverVars
    <3>5. ChunkSent'
      BY <1>1, <2>1, <2>2, <2>5, <3>1, <3>2, <3>3 DEF ChunkSent, FromSource, receiverVars, n
    <3>6. OneMessage' /\ SenderStands' /\ ReceiverStands'
      BY <1>1, <2>1, <2>2, <2>5, <3>5 DEF OneMessage, SenderStands, ReceiverStands, receiverVars, fileVars
    <3> QED
      BY <1>2, <3>4, <3>6
  <2>6. (next_chunk + n > Len(source)) \/ next_chunk + n <= Len(source)
    BY <1>2, <2>2, <2>3
  <2> QED
    BY <1>6, <2>4, <2>5, <2>6 DEF SendChunk
<1>7. CASE SenderFails
  <2>1. /\ ~connected /\ sender' = "failed" /\ manifest' = manifest /\ next_chunk' = next_chunk
        /\ UNCHANGED streamVars /\ offered' = offered /\ to_receiver = <<>> /\ to_sender = <<>>
    BY <1>7 DEF SenderFails, OneMessage, recordVars
  <2>2. TypeOK'
    BY <1>1, <2>1 DEF TypeOK, fileVars, receiverVars
  <2> QED
    BY <1>1, <1>2, <2>1, <2>2 DEF OneMessage, SenderStands, ReceiverStands, receiverVars, fileVars, streamVars
<1> QED
  BY <1>4, <1>5, <1>6, <1>7 DEF Sender

\* The receiver answers the offer with what it has stored, and stores a chunk
\* behind it.
LEMMA ReceiverStep ==
  ASSUME StepInv, Receiver \/ TearChunk
  PROVE  StepInv'
<1> USE DEF StepInv
<1>1. /\ UNCHANGED <<source, senderVars, connected, recordVars>> /\ source' \in versions'
  BY DEF Receiver, ReceiveOffer, StoreChunk, Deliver, ReceiverFails, TearChunk, recordVars, fileVars
<1>2. /\ manifest \in Seq(Byte) \/ manifest = NoFile
      /\ part \in Seq(Byte) \/ part = NoFile
      /\ <<>> \in Seq(Byte) /\ <<>> # NoFile
  <2>1. <<>> \in Seq(Byte)
    OBVIOUS
  <2>2. (manifest \in Seq(Byte) \/ manifest = NoFile) /\ (part \in Seq(Byte) \/ part = NoFile)
    BY DEF TypeOK, File
  <2> QED
    BY <2>1, <2>2, TransferAssumption
<1>3. CASE ReceiveOffer
  <2> DEFINE opened == IF part = NoFile THEN <<>> ELSE part
  <2>1. /\ OfferSent /\ to_sender = <<>> /\ connected /\ destination' = destination
        /\ to_receiver' = Tail(to_receiver) /\ expected' = Head(to_receiver).content
    BY <1>3 DEF ReceiveOffer, OneMessage, ChunkSent
  <2>2. to_receiver' = <<>> /\ expected' = manifest /\ manifest # NoFile
    BY <2>1, OneSent DEF OfferSent, Offer, SenderStands
  <2>3. opened \in Seq(Byte) /\ opened # NoFile /\ Len(opened) \in Nat /\ Len(manifest) \in Nat
    BY <1>2, <2>2
  <2>4. /\ part' = opened
        /\ \/ /\ receiver' = "failed" /\ next_offset' = next_offset /\ to_sender' = to_sender
           \/ /\ Len(opened) <= Len(manifest) /\ next_offset' = Len(opened)
              /\ receiver' = IF Len(opened) < Len(manifest) THEN "chunk" ELSE "verify"
              /\ to_sender' = Append(to_sender, Ack(Len(opened)))
    BY <1>3, <2>1, <2>2 DEF ReceiveOffer, Await, Resumable
  <2>5. BytesInPlace'
    BY <1>1, <2>4 DEF BytesInPlace, recordVars
  <2> HIDE DEF opened
  <2>6. sender = "resume" /\ next_offset = 0 /\ (to_sender = <<>>)
    BY <2>1 DEF OfferSent, ReceiverStands
  <2>7. CASE receiver' = "failed" /\ next_offset' = next_offset /\ to_sender' = to_sender
    <3>1. TypeOK'
      BY <1>1, <1>2, <2>1, <2>2, <2>3, <2>4, <2>6, <2>7 DEF TypeOK, File, senderVars, recordVars
    <3> QED
      BY <1>1, <2>1, <2>2, <2>3, <2>4, <2>5, <2>6, <2>7, <3>1 DEF OneMessage, SenderStands, ReceiverStands, senderVars
  <2>8. CASE /\ Len(opened) <= Len(manifest) /\ next_offset' = Len(opened)
             /\ receiver' = IF Len(opened) < Len(manifest) THEN "chunk" ELSE "verify"
             /\ to_sender' = Append(to_sender, Ack(Len(opened)))
    <3>1. TypeOK'
      BY <1>1, <1>2, <2>1, <2>2, <2>3, <2>4, <2>6, <2>8 DEF TypeOK, File, senderVars, recordVars
    <3>2. to_sender' = <<Ack(next_offset')>>
      BY <2>6, <2>8
    <3>3. AckSent'
      BY <1>1, <2>2, <2>3, <2>6, <2>8, <3>2 DEF AckSent, senderVars
    <3>4. OneMessage'
      BY <1>1, <2>1, <2>2, <2>6, <3>3 DEF OneMessage, senderVars
    <3>5. SenderStands' /\ ReceiverStands'
      BY <1>1, <2>2, <2>3, <2>4, <2>6, <2>8 DEF SenderStands, ReceiverStands, senderVars
    <3> QED
      BY <1>1, <2>5, <3>1, <3>4, <3>5
  <2> QED
    BY <2>4, <2>7, <2>8
\* A chunk, or the part of it that was written.
<1>4. CASE StoreChunk \/ TearChunk
  <2>1. /\ ChunkSent /\ to_sender = <<>> /\ connected /\ destination' = destination /\ expected' = expected
        /\ to_receiver' = Tail(to_receiver)
    BY <1>4 DEF StoreChunk, TearChunk, Storing, OneMessage, OfferSent
  <2> PICK data \in Seq(Byte) : /\ to_receiver = <<Chunk(next_chunk, data)>>
                                /\ Len(data) = ChunkLength(manifest, next_chunk)
                                /\ FromSource(data, next_chunk)
    BY <2>1 DEF ChunkSent
  <2>2. to_receiver' = <<>> /\ Head(to_receiver).data = data
    BY <2>1, OneSent DEF Chunk
  <2>3. /\ sender = "ack" /\ receiver = "chunk" /\ next_offset = next_chunk /\ next_offset = Len(part)
        /\ part \in Seq(Byte) /\ part # NoFile /\ manifest \in Seq(Byte) /\ manifest = expected
        /\ next_chunk < Len(manifest) /\ next_chunk \in Nat /\ manifest # NoFile
    BY <1>2, <2>1 DEF ChunkSent, SenderStands, ReceiverStands, TypeOK
  <2>4. /\ Len(data) \in Nat /\ Len(manifest) \in Nat /\ Len(part) + Len(data) <= Len(manifest)
        /\ ChunkLength(manifest, next_chunk) = Len(data)
    BY <2>3, ChunkFits
  <2>5. CASE StoreChunk
    <3>1. CASE receiver' = "failed" /\ UNCHANGED <<part, next_offset, to_sender>>
      <4>1. TypeOK' /\ BytesInPlace'
        BY <1>1, <2>1, <2>3, <3>1 DEF TypeOK, BytesInPlace, senderVars, recordVars
      <4> QED
        BY <1>1, <2>1, <2>2, <2>3, <3>1, <4>1 DEF OneMessage, SenderStands, ReceiverStands, senderVars
    <3>2. CASE /\ part' = Written(part, Len(part), data)
               /\ next_offset' = Len(part) + Len(data)
               /\ receiver' = IF Len(part) + Len(data) < Len(manifest) THEN "chunk" ELSE "verify"
               /\ to_sender' = Append(to_sender, Ack(Len(part) + Len(data)))
      <4>1. part' \in Seq(Byte) /\ Len(part') = Len(part) + Len(data) /\ part' # NoFile
        BY <2>3, <3>2, WrittenAtEnd, TransferAssumption
      <4>2. BytesInPlace'
        BY <1>1, <2>3, <3>2, StoredInPlace DEF recordVars
      <4>3. TypeOK'
        <5>1. next_offset' \in Nat /\ next_offset' <= Len(expected') /\ part' \in File
          <6>1. part' \in File
            BY <4>1 DEF File
          <6>2. expected' = manifest /\ next_offset' = Len(part) + Len(data)
            BY <2>1, <2>3, <3>2
          <6>3. Len(part) \in Nat
            BY <2>3
          <6> QED
            BY <2>4, <6>1, <6>2, <6>3
        <5>2. receiver' \in {"chunk", "verify"}
          BY <3>2
        <5> QED
          BY <1>1, <2>1, <5>1, <5>2 DEF TypeOK, senderVars, recordVars
      <4>4. to_sender' = <<Ack(next_offset')>>
        BY <2>1, <3>2
      <4>5. AckSent'
        BY <1>1, <2>1, <2>3, <2>4, <3>2, <4>4 DEF AckSent, senderVars
      <4>6. OneMessage'
        BY <1>1, <2>1, <2>2, <2>3, <4>5 DEF OneMessage, senderVars
      <4>7. SenderStands' /\ ReceiverStands'
        BY <1>1, <2>1, <2>3, <2>4, <3>2, <4>1 DEF SenderStands, ReceiverStands, senderVars
      <4> QED
        BY <1>1, <4>2, <4>3, <4>6, <4>7
    <3> QED
      BY <2>2, <2>3, <2>5, <3>1, <3>2 DEF StoreChunk, Await
  <2>6. CASE TearChunk
    <3>1. PICK n \in 0..(Len(data) - 1) : part' = Written(part, Len(part), Bytes(data, 0, n))
      BY <2>2, <2>3, <2>6 DEF TearChunk
    <3> DEFINE d == Bytes(data, 0, n)
    <3>2. d \in Seq(Byte) /\ Len(d) = n /\ \A i \in 1..n : d[i] = data[i]
      <4>1. 0 \in Nat /\ n \in Nat /\ 0 + n <= Len(data) /\ \A i \in 1..n : 0 + i = i
        BY <2>4
      <4>2. d \in Seq(Byte) /\ Len(d) = n /\ \A i \in 1..n : d[i] = data[0 + i]
        BY <4>1, BytesOf, Zenon
      <4> HIDE DEF d
      <4> QED
        BY <4>1, <4>2
    <3> HIDE DEF d
    <3>3. FromSource(d, Len(part))
      <4>0. Len(d) = n
        BY <3>2
      <4> SUFFICES ASSUME NEW i \in 1..Len(d)
                   PROVE  \E c \in versions : Len(part) + i <= Len(c) /\ c[Len(part) + i] = d[i]
        BY DEF FromSource
      <4>1. i \in 1..Len(data) /\ next_chunk = Len(part) /\ d[i] = data[i]
        <5>1. i \in 1..n /\ n \in Nat /\ n <= Len(data) /\ Len(data) \in Nat
          BY <2>4, <4>0
        <5>2. i \in 1..Len(data)
          BY <5>1
        <5> QED
          BY <2>3, <3>2, <5>1, <5>2
      <4>2. PICK c \in versions : next_chunk + i <= Len(c) /\ c[next_chunk + i] = data[i]
        BY <4>1 DEF FromSource
      <4> QED
        BY <4>1, <4>2
    <3>4. part' = Written(part, Len(part), d)
      BY <3>1 DEF d
    <3>5. part' \in Seq(Byte) /\ part' # NoFile
      BY <2>3, <3>2, <3>4, WrittenAtEnd, TransferAssumption
    <3>6. BytesInPlace'
      BY <1>1, <2>3, <3>2, <3>3, <3>4, StoredInPlace DEF recordVars
    <3>7. receiver' = "failed" /\ next_offset' = next_offset /\ to_sender' = to_sender
      BY <2>6 DEF TearChunk
    <3>8. TypeOK'
      BY <1>1, <2>1, <2>3, <3>5, <3>7 DEF TypeOK, File, senderVars, recordVars
    <3> QED
      BY <1>1, <2>1, <2>2, <2>3, <3>6, <3>7, <3>8 DEF OneMessage, SenderStands, ReceiverStands, senderVars
  <2> QED
    BY <1>4, <2>5, <2>6
<1>5. CASE Deliver
  <2>1. /\ receiver = "verify" /\ receiver' \in {"ok", "failed"} /\ to_receiver = <<>>
        /\ expected' = expected /\ next_offset' = next_offset /\ to_receiver' = to_receiver /\ to_sender' = to_sender
        /\ part' \in {part, NoFile} /\ destination' \in {destination, part}
    BY <1>5 DEF Deliver, OneMessage, OfferSent, ChunkSent, streamVars
  <2>2. TypeOK' /\ BytesInPlace'
    BY <1>1, <2>1 DEF TypeOK, File, BytesInPlace, senderVars, recordVars
  <2>3. OneMessage'
    BY <1>1, <2>1 DEF OneMessage, AckSent, senderVars
  <2>4. SenderStands' /\ ReceiverStands'
    BY <1>1, <2>1 DEF SenderStands, ReceiverStands, senderVars
  <2> QED
    BY <1>1, <2>2, <2>3, <2>4
<1>6. CASE ReceiverFails
  <2>1. /\ ~connected /\ receiver' = "failed" /\ to_receiver = <<>> /\ to_sender = <<>>
        /\ UNCHANGED <<expected, next_offset, to_receiver, to_sender, part, destination>>
    BY <1>6 DEF ReceiverFails, OneMessage, streamVars, fileVars
  <2>2. TypeOK' /\ BytesInPlace'
    BY <1>1, <2>1 DEF TypeOK, BytesInPlace, senderVars, recordVars
  <2> QED
    BY <1>1, <2>1, <2>2 DEF OneMessage, SenderStands, ReceiverStands, senderVars
<1> QED
  BY <1>3, <1>4, <1>5, <1>6 DEF Receiver

\* Every step keeps both ends in step.
LEMMA NextStep == StepInv /\ [Next]_vars => StepInv'
<1> SUFFICES ASSUME StepInv, [Next]_vars PROVE StepInv'
  OBVIOUS
<1> USE DEF StepInv
<1>1. CASE Sender
  BY <1>1, SenderStep
<1>2. CASE Receiver \/ TearChunk
  BY <1>2, ReceiverStep
<1>3. CASE Disconnect \/ HangUp
  <2>1. /\ UNCHANGED <<fileVars, senderVars, receiverVars, recordVars>>
        /\ connected' = FALSE /\ to_receiver' = <<>> /\ to_sender' = <<>>
    BY <1>3 DEF Disconnect, HangUp, LoseStream
  <2>2. TypeOK' /\ BytesInPlace' /\ source' \in versions'
    BY <2>1 DEF TypeOK, BytesInPlace, fileVars, senderVars, receiverVars, recordVars
  <2> QED
    BY <2>1, <2>2 DEF OneMessage, SenderStands, ReceiverStands, fileVars, senderVars, receiverVars
<1>4. CASE TryAgain
  <2>1. /\ UNCHANGED <<fileVars, versions, offered>> /\ attempts' \in 1..MaxAttempts
        /\ sender' = "offer" /\ receiver' = "offer" /\ manifest' = NoFile /\ expected' = NoFile
        /\ next_chunk' = 0 /\ next_offset' = 0 /\ to_receiver' = <<>> /\ to_sender' = <<>> /\ connected' = TRUE
    BY <1>4, TransferAssumption DEF TryAgain, TypeOK
  <2>2. TypeOK' /\ BytesInPlace' /\ source' \in versions'
    BY <2>1 DEF TypeOK, File, BytesInPlace, fileVars
  <2> QED
    BY <2>1, <2>2 DEF OneMessage, SenderStands, ReceiverStands
<1>5. CASE EditSource
  <2>1. /\ UNCHANGED <<part, destination, senderVars, receiverVars, streamVars, connected, attempts, offered>>
        /\ source' \in Seq(Byte) /\ source' \in versions' /\ versions \subseteq versions' /\ versions' \subseteq Seq(Byte)
    BY <1>5, TransferAssumption DEF EditSource, TypeOK
  <2>2. TypeOK' /\ BytesInPlace'
    BY <2>1 DEF TypeOK, BytesInPlace, senderVars, receiverVars
  <2>3. ChunkSent => ChunkSent'
    BY <2>1 DEF ChunkSent, FromSource, senderVars, receiverVars, streamVars
  <2>4. OneMessage' /\ SenderStands' /\ ReceiverStands'
    BY <2>1, <2>3 DEF OneMessage, OfferSent, AckSent, SenderStands, ReceiverStands, senderVars, receiverVars, streamVars
  <2> QED
    BY <2>1, <2>2, <2>4
<1>6. CASE Ended \/ UNCHANGED vars
  <2>1. UNCHANGED <<fileVars, senderVars, receiverVars, streamVars, connected, recordVars>>
    BY <1>6 DEF Ended, vars
  <2>2. TypeOK' /\ BytesInPlace' /\ source' \in versions'
    BY <2>1 DEF TypeOK, BytesInPlace, fileVars, senderVars, receiverVars, recordVars
  <2>3. ChunkSent => ChunkSent'
    BY <2>1 DEF ChunkSent, FromSource, senderVars, receiverVars, streamVars, recordVars
  <2> QED
    BY <2>1, <2>2, <2>3 DEF OneMessage, OfferSent, AckSent, SenderStands, ReceiverStands, fileVars, senderVars,
       receiverVars, streamVars
<1> QED
  BY <1>1, <1>2, <1>3, <1>4, <1>5, <1>6 DEF Next

LEMMA StepInvariant == Spec => []StepInv
  BY InitStep, NextStep, PTL DEF Spec

\* No offset of either end ever lies behind the end of the file it is an offset
\* into (lib.rs:170-176, 255-295).
THEOREM OffsetsStayInside == Spec => []TypeOK
<1>1. StepInv => TypeOK
  BY DEF StepInv
<1> QED
  BY <1>1, StepInvariant, PTL

\* Every byte of the .part file is where some version of the source has it, after
\* any number of interrupted, torn and resumed attempts (lib.rs:255-295).
THEOREM StoredInOrder == Spec => []BytesInPlace
<1>1. StepInv => BytesInPlace
  BY DEF StepInv
<1> QED
  BY <1>1, StepInvariant, PTL

\* The sender goes on exactly where the stored file ends (lib.rs:213-240, 265-279).
THEOREM ResumesWhereStored == Spec => []ResumesAtTheEnd
<1>1. StepInv => ResumesAtTheEnd
  BY DEF StepInv, SenderStands, ResumesAtTheEnd
<1> QED
  BY <1>1, StepInvariant, PTL
=============================================================================
