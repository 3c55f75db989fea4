---------------------------- MODULE FileTransfer ----------------------------
(***************************************************************************)
(* send_file and receive_file on one stream.  What a crash leaves are the  *)
(* files: the source, the receiver's .part file and the destination.  An   *)
(* attempt that failed may be made again with the same transfer id.        *)
(***************************************************************************)
EXTENDS Integers, Sequences

CONSTANTS
  Byte,
  Contents,       \* what may be in the source file
  NoFile,
  ChunkSize,
  MaxAttempts,    \* bound: calls of send_file and receive_file
  Interruptions   \* which of the environment's choices below may happen

(***************************************************************************)
(*   Disconnect     the connection, or one of the processes, goes away     *)
(*   TornWrite      write_all stops half way: a crash, or a full disk      *)
(*   SourceEdited   the source file changes                                *)
(***************************************************************************)
InterruptionNames == {"Disconnect", "TornWrite", "SourceEdited"}

ASSUME TransferAssumption ==
  /\ Contents \subseteq Seq(Byte)
  /\ NoFile \notin Seq(Byte)
  /\ ChunkSize \in Nat \ {0}
  /\ MaxAttempts \in Nat \ {0}
  /\ Interruptions \subseteq InterruptionNames

VARIABLES
  source,        \* the file at `path`
  part,          \* the temporary file, or NoFile
  destination,   \* the delivered file, or NoFile
  sender,        \* where send_file is
  manifest,      \* its manifest: size and checksum, both given by the content
  next_chunk,    \* offset of the next chunk it sends
  receiver,      \* where receive_file is
  expected,      \* the manifest of the FileOffer it received
  next_offset,
  to_receiver, to_sender,   \* the two directions of the stream
  connected,
  attempts,
  versions,      \* every content the source had
  offered        \* every content a manifest was made of

fileVars     == <<source, part, destination>>
senderVars   == <<sender, manifest, next_chunk>>
receiverVars == <<receiver, expected, next_offset>>
streamVars   == <<to_receiver, to_sender>>
recordVars   == <<attempts, versions, offered>>
vars == <<fileVars, senderVars, receiverVars, streamVars, connected, recordVars>>

Least(a, b)   == IF a < b THEN a ELSE b
Bytes(c, from, length) == SubSeq(c, from + 1, from + length)

Offer(c)        == [type |-> "FileOffer", content |-> c]
Chunk(at, data) == [type |-> "FileChunk", offset |-> at, data |-> data]
Ack(offset)     == [type |-> "FileAck", next_offset |-> offset]

\* Length of the chunk at an offset.
ChunkLength(c, offset) == Least(ChunkSize, Len(c) - offset)

\* Mutant: a last, shorter chunk cannot be resumed behind.
Resumable_Boundary(offset, c) == offset <= Len(c) /\ offset % ChunkSize = 0

\* ResumeState::validate.
Resumable(offset, c) ==
  offset <= Len(c) /\ (offset % ChunkSize = 0 \/ offset = Len(c))

Init ==
  /\ source \in Contents
  /\ part = NoFile
  /\ destination = NoFile
  /\ sender = "offer"
  /\ manifest = NoFile
  /\ next_chunk = 0
  /\ receiver = "offer"
  /\ expected = NoFile
  /\ next_offset = 0
  /\ to_receiver = <<>>
  /\ to_sender = <<>>
  /\ connected = TRUE
  /\ attempts = 1
  /\ versions = {source}
  /\ offered = {}

-----------------------------------------------------------------------------
SenderRunning   == sender \notin {"ok", "failed"}
ReceiverRunning == receiver \notin {"ok", "failed"}

\* The manifest is made of the file, and offered.
SendOffer ==
  /\ sender = "offer"
  /\ connected
  /\ manifest' = source
  /\ to_receiver' = Append(to_receiver, Offer(source))
  /\ offered' = offered \cup {source}
  /\ sender' = "resume"
  /\ UNCHANGED <<fileVars, next_chunk, receiverVars, to_sender, connected, attempts, versions>>

\* Where the sender goes on: to the chunk at this offset, or to the end.
Continue(offset) ==
  /\ next_chunk' = offset
  /\ sender' = IF offset < Len(manifest) THEN "chunk" ELSE "ok"

\* Mutant: a resumed transfer starts over.
ReceiveResume_StartsOver ==
  /\ sender = "resume"
  /\ connected
  /\ to_sender # <<>>
  /\ to_sender' = Tail(to_sender)
  /\ IF Resumable(Head(to_sender).next_offset, manifest)
     THEN Continue(0)
     ELSE sender' = "failed" /\ UNCHANGED next_chunk
  /\ UNCHANGED <<fileVars, manifest, receiverVars, to_receiver, connected, recordVars>>

\* The receiver's first FileAck says what it has: chunks before it are skipped.
ReceiveResume ==
  /\ sender = "resume"
  /\ connected
  /\ to_sender # <<>>
  /\ to_sender' = Tail(to_sender)
  /\ IF Resumable(Head(to_sender).next_offset, manifest)
     THEN Continue(Head(to_sender).next_offset)
     ELSE sender' = "failed" /\ UNCHANGED next_chunk
  /\ UNCHANGED <<fileVars, manifest, receiverVars, to_receiver, connected, recordVars>>

\* read_chunk opens the file again: it may be shorter than the manifest says.
SendChunk ==
  LET length == ChunkLength(manifest, next_chunk) IN
  /\ sender = "chunk"
  /\ connected
  /\ IF next_chunk + length > Len(source)
     THEN sender' = "failed" /\ UNCHANGED to_receiver
     ELSE /\ sender' = "ack"
          /\ to_receiver' = Append(to_receiver, Chunk(next_chunk, Bytes(source, next_chunk, length)))
  /\ UNCHANGED <<fileVars, manifest, next_chunk, receiverVars, to_sender, connected, recordVars>>

ReceiveAck ==
  LET end == next_chunk + ChunkLength(manifest, next_chunk) IN
  /\ sender = "ack"
  /\ connected
  /\ to_sender # <<>>
  /\ to_sender' = Tail(to_sender)
  /\ IF Head(to_sender).next_offset = end
     THEN Continue(end)
     ELSE sender' = "failed" /\ UNCHANGED next_chunk
  /\ UNCHANGED <<fileVars, manifest, receiverVars, to_receiver, connected, recordVars>>

-----------------------------------------------------------------------------
\* More chunks to come, or all of them stored.
Await(offset, c) ==
  /\ next_offset' = offset
  /\ receiver' = IF offset < Len(c) THEN "chunk" ELSE "verify"

\* Mutant: only a resumed transfer is acknowledged at its start.
ReceiveOffer_SilentStart ==
  LET c == Head(to_receiver).content
      opened == IF part = NoFile THEN <<>> ELSE part
  IN
  /\ receiver = "offer"
  /\ connected
  /\ to_receiver # <<>>
  /\ to_receiver' = Tail(to_receiver)
  /\ expected' = c
  /\ part' = opened
  /\ IF Resumable(Len(opened), c)
     THEN Await(Len(opened), c) /\ to_sender' = (IF opened = <<>> THEN to_sender ELSE Append(to_sender, Ack(Len(opened))))
     ELSE receiver' = "failed" /\ UNCHANGED <<next_offset, to_sender>>
  /\ UNCHANGED <<source, destination, senderVars, connected, recordVars>>

\* The .part file of this transfer id is opened, or created; its length is the
\* offset to resume from.
ReceiveOffer ==
  LET c == Head(to_receiver).content
      opened == IF part = NoFile THEN <<>> ELSE part
  IN
  /\ receiver = "offer"
  /\ connected
  /\ to_receiver # <<>>
  /\ to_receiver' = Tail(to_receiver)
  /\ expected' = c
  /\ part' = opened
  /\ IF Resumable(Len(opened), c)
     THEN Await(Len(opened), c) /\ to_sender' = Append(to_sender, Ack(Len(opened)))
     ELSE receiver' = "failed" /\ UNCHANGED <<next_offset, to_sender>>
  /\ UNCHANGED <<source, destination, senderVars, connected, recordVars>>

\* The file with data written at an offset.
Written(file, at, data) ==
  [i \in 1..(IF Len(file) > at + Len(data) THEN Len(file) ELSE at + Len(data)) |->
     IF i > at /\ i <= at + Len(data) THEN data[i - at] ELSE file[i]]

Acceptable(chunk) ==
  /\ chunk.offset = next_offset
  /\ Len(chunk.data) <= ChunkSize
  /\ next_offset + Len(chunk.data) <= Len(expected)

Storing ==
  /\ receiver = "chunk"
  /\ connected
  /\ to_receiver # <<>>
  /\ to_receiver' = Tail(to_receiver)

\* Mutant: without the seek, a resumed transfer writes to the start of the file.
StoreChunk_NoSeek ==
  LET chunk == Head(to_receiver)
      end   == next_offset + Len(chunk.data)
  IN
  /\ Storing
  /\ IF Acceptable(chunk)
     THEN /\ part' = Written(part, 0, chunk.data)
          /\ Await(end, expected)
          /\ to_sender' = Append(to_sender, Ack(end))
     ELSE receiver' = "failed" /\ UNCHANGED <<part, next_offset, to_sender>>
  /\ UNCHANGED <<source, destination, senderVars, expected, connected, recordVars>>

StoreChunk ==
  LET chunk == Head(to_receiver)
      end   == next_offset + Len(chunk.data)
  IN
  /\ Storing
  /\ IF Acceptable(chunk)
     THEN /\ part' = Written(part, next_offset, chunk.data)
          /\ Await(end, expected)
          /\ to_sender' = Append(to_sender, Ack(end))
     ELSE receiver' = "failed" /\ UNCHANGED <<part, next_offset, to_sender>>
  /\ UNCHANGED <<source, destination, senderVars, expected, connected, recordVars>>

\* write_all has written some of the chunk when it fails.  There is another attempt
\* after the last tear, as after the last disconnection.
TearChunk ==
  LET chunk == Head(to_receiver) IN
  /\ "TornWrite" \in Interruptions
  /\ attempts < MaxAttempts
  /\ Storing
  /\ Acceptable(chunk)
  /\ \E n \in 0..(Len(chunk.data) - 1) : part' = Written(part, next_offset, Bytes(chunk.data, 0, n))
  /\ receiver' = "failed"
  /\ UNCHANGED <<source, destination, senderVars, expected, next_offset, to_sender, connected, recordVars>>

\* Mutant: only the size of the stored file is compared.
Deliver_SizeOnly ==
  /\ receiver = "verify"
  /\ IF Len(part) = Len(expected)
     THEN destination' = part /\ part' = NoFile /\ receiver' = "ok"
     ELSE receiver' = "failed" /\ UNCHANGED <<part, destination>>
  /\ UNCHANGED <<source, senderVars, expected, next_offset, streamVars, connected, recordVars>>

\* The stored file is read back; with the size and the checksum of the manifest
\* it is renamed, otherwise it stays where it is.
Deliver ==
  /\ receiver = "verify"
  /\ IF part = expected
     THEN destination' = part /\ part' = NoFile /\ receiver' = "ok"
     ELSE receiver' = "failed" /\ UNCHANGED <<part, destination>>
  /\ UNCHANGED <<source, senderVars, expected, next_offset, streamVars, connected, recordVars>>

-----------------------------------------------------------------------------
\* What was on the way is lost with the connection.
LoseStream ==
  /\ connected
  /\ connected' = FALSE
  /\ to_receiver' = <<>>
  /\ to_sender' = <<>>
  /\ UNCHANGED <<fileVars, senderVars, receiverVars, recordVars>>

\* There is another attempt after the last interruption.
MayInterrupt == "Disconnect" \in Interruptions /\ attempts < MaxAttempts
Disconnect   == MayInterrupt /\ LoseStream

\* An end that has returned drops the stream.
HangUp == ~(SenderRunning /\ ReceiverRunning) /\ LoseStream

\* An end that sends or receives without a connection fails.  A receiver that
\* verifies the file fails only with its process.
SenderFails ==
  /\ ~connected
  /\ SenderRunning
  /\ sender' = "failed"
  /\ UNCHANGED <<fileVars, manifest, next_chunk, receiverVars, streamVars, connected, recordVars>>

ReceiverFails ==
  /\ ~connected
  /\ ReceiverRunning
  /\ receiver = "verify" => MayInterrupt
  /\ receiver' = "failed"
  /\ UNCHANGED <<fileVars, senderVars, expected, next_offset, streamVars, connected, recordVars>>

\* The caller tries again, with the same transfer id.
TryAgain ==
  /\ ~SenderRunning /\ ~ReceiverRunning
  /\ sender = "failed" \/ receiver = "failed"
  /\ attempts < MaxAttempts
  /\ attempts' = attempts + 1
  /\ sender' = "offer"
  /\ receiver' = "offer"
  /\ manifest' = NoFile /\ next_chunk' = 0
  /\ expected' = NoFile /\ next_offset' = 0
  /\ to_receiver' = <<>> /\ to_sender' = <<>>
  /\ connected' = TRUE
  /\ UNCHANGED <<fileVars, versions, offered>>

EditSource ==
  /\ "SourceEdited" \in Interruptions
  /\ source' \in Contents
  /\ versions' = versions \cup {source'}
  /\ UNCHANGED <<part, destination, senderVars, receiverVars, streamVars, connected, attempts, offered>>

Sender   == SendOffer \/ ReceiveResume \/ SendChunk \/ ReceiveAck \/ SenderFails
Receiver == ReceiveOffer \/ StoreChunk \/ Deliver \/ ReceiverFails
Ended    == ~SenderRunning /\ ~ReceiverRunning /\ UNCHANGED vars

Next == Sender \/ Receiver \/ TearChunk \/ Disconnect \/ HangUp \/ TryAgain \/ EditSource \/ Ended

Spec == Init /\ [][Next]_vars

\* Both calls run and drop their stream in the end, and the caller does try again.
FairSpec ==
  /\ Spec
  /\ WF_vars(Sender) /\ WF_vars(Receiver) /\ WF_vars(HangUp) /\ WF_vars(TryAgain)

-----------------------------------------------------------------------------
File == Seq(Byte) \cup {NoFile}

\* Every variable holds a value of its type, and no offset lies behind the end of
\* the file it is an offset into.
TypeOK ==
  /\ source \in Seq(Byte) /\ part \in File /\ destination \in File
  /\ sender \in {"offer", "resume", "chunk", "ack", "ok", "failed"}
  /\ receiver \in {"offer", "chunk", "verify", "ok", "failed"}
  /\ manifest \in File /\ expected \in File
  /\ next_chunk \in Nat /\ (manifest # NoFile => next_chunk <= Len(manifest))
  /\ next_offset \in Nat /\ (expected # NoFile => next_offset <= Len(expected))
  /\ connected \in BOOLEAN
  /\ attempts \in 1..MaxAttempts
  /\ versions \subseteq Seq(Byte) /\ offered \subseteq versions

\* A reader of the destination never finds anything but a whole file that was
\* offered, however the transfer was interrupted, whatever an earlier attempt left
\* in the .part file and also when the source was edited between two chunks
\* (file-transfer/src/lib.rs:242-244, "consumers never observe a partially-written
\* destination file").
DestinationIsWhole == destination # NoFile => destination \in offered

\* Every byte of the .part file is at the offset it has in the source: a resumed
\* transfer goes on exactly where the last one stopped, torn write or not.
BytesInPlace ==
  part # NoFile =>
    \A i \in 1..Len(part) : \E c \in versions : i <= Len(c) /\ c[i] = part[i]

\* What the receiver has stored is not sent again, and nothing is left out: a
\* chunk is sent at the offset where the .part file ends.
ResumesAtTheEnd == sender = "chunk" => part # NoFile /\ next_chunk = Len(part)

\* What an interrupted transfer leaves can be resumed ("allowing an interrupted
\* transfer to resume from its existing .part file", file-transfer/src/lib.rs:213).
InterruptedResumes == part # NoFile => Resumable(Len(part), source)

\* Both calls return: neither waits for ever for the other.
CallsReturn == []<>(~SenderRunning /\ ~ReceiverRunning)

TornInsideChunk ==
  /\ part # NoFile
  /\ Len(part) < Len(source)
  /\ Len(part) % ChunkSize # 0

\* A transfer that was interrupted is completed by a later attempt, unless the
\* source was edited or a write stopped inside a chunk (see InterruptedResumes).
TransferCompletes == <>(destination # NoFile \/ versions # {source} \/ TornInsideChunk)
=============================================================================
