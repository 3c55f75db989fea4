CONSTANTS
  Byte = {0, 1}
  Contents <- EditedContents
  NoFile = NoFile
  ChunkSize = 2
  MaxAttempts = 3
  Interruptions = {"Disconnect", "TornWrite", "SourceEdited"}
SPECIFICATION FairSpec
INVARIANTS
  DestinationIsWhole
  BytesInPlace
  ResumesAtTheEnd
PROPERTIES
  CallsReturn
  TransferCompletes
