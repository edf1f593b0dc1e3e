\* The model stops when every pod serves and the bounds are used up.
CHECK_DEADLOCK FALSE
SPECIFICATION FairSpec
CONSTANTS
  Pods = {"pod1"}
  Handlers = {"h1"}
  Versions = {"v1.0.0.0"}
  Urls = {"u1", "u2"}
  Rank <- MCRankOdd
  FileOf <- MCSameFile
  LoadPatchType <- MCSignal
  MaxRequests = 1
  MaxFaults = 1
  MaxDelays = 0
PROPERTY
  EventuallySettled
