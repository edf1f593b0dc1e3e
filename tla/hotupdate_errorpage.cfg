\* The model stops when every pod serves and the bounds are used up.
CHECK_DEADLOCK FALSE
SPECIFICATION Spec
CONSTANTS
  Pods = {"pod1"}
  Handlers = {"h1"}
  Versions = {"v1", "v2"}
  Urls = {"u1", "u2"}
  Rank <- MCRank
  FileOf <- MCSameFile
  LoadPatchType <- MCSignal
  MaxRequests = 1
  MaxFaults = 1
  MaxDelays = 0
INVARIANT
  AckedUpdateIsLoaded
