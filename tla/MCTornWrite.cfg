CONSTANTS
  Byte = {0, 1}
  Contents <- MCContents
  NoFile = NoFile
  ChunkSize = 2
  MaxAttempts = 2
  Interruptions = {"TornWrite"}
SPECIFICATION Spec
INVARIANTS
  InterruptedResumes
