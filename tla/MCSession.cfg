CONSTANTS
  Endpoint = {address}
  Address = address
  NoPin = NoPin
  Missing = Missing
  Torn = Torn
  Fingerprint <- Fingerprints
  OlderBuilds <- MCBuilds
  MaxHosts = 2
  MaxViewers = 2
  Faults = {"LinkBreaks", "WrongPassword", "OtherVersion", "NoDatagrams", "NotPermitted", "SaveFails", "Neighbour"}
SPECIFICATION FairSpec
INVARIANTS
  TypeOK
  PinsAreConfirmed
  NothingUnnegotiated
  MediaIsAuthenticated
PROPERTIES
  NobodyWaitsForAMessage
  ViewerGetsOn
CHECK_DEADLOCK FALSE
