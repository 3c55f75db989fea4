CONSTANTS
  Endpoint = {address}
  Address = address
  NoPin = NoPin
  Missing = Missing
  Torn = Torn
  Fingerprint <- Fingerprints
  OlderBuilds <- MCBuilds
  MaxHosts = 2
  MaxViewers = 2
  Faults = {"LinkBreaks", "WrongPassword", "OtherVersion", "NoDatagrams", "NotPermitted", "SaveFails", "Neighbour", "NoFirstFrame"}
SPECIFICATION FairSpec
PROPERTIES
  NobodyWaitsForAMessage
CHECK_DEADLOCK FALSE
