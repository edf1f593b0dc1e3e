\* The model stops, but for ticks, when the requests and bounds are used up.
SPECIFICATION FairSpec
CONSTANTS
  Strings <- MCStrings
  Namespaces = {"ns1"}
  Labels = {"app=x", "team=a"}
  NamespaceLabels <- MCNamespaceLabels
  AnnotationKeys = {"note"}
  Yamls = {"y1", "y2"}
  Calls = {"k1", "k2"}
  Configs = {"c1"}
  RetrySteps = 2
  PodShapes <- MCOnePod
  Specs <- MCEditedSpecs
  InitialSpec <- MCEdited
  InitialYamls = {""}
  MaxEvents = 1
  CanDryRun = {FALSE}
  IsLeader = TRUE
INVARIANT
  MatchedBounded
PROPERTIES
  StatusFieldsKept
  CountsConverge
