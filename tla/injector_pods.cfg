\* The model stops when the requests and the bounds are used up.
CHECK_DEADLOCK FALSE
SPECIFICATION Spec
CONSTANTS
  Strings <- MCStrings
  Namespaces = {"ns1", "ns2"}
  Labels = {"app=x", "team=a"}
  NamespaceLabels <- MCNamespaceLabels
  AnnotationKeys = {"note"}
  Yamls = {"y1", "y2"}
  Calls = {"k1", "k2"}
  Configs = {"c1", "c2"}
  RetrySteps = 2
  PodShapes <- MCMixedPods
  Specs <- MCMixedSpecs
  InitialSpec <- MCMixed
  InitialYamls = {"", "y2"}
  MaxEvents = 1
  CanDryRun = {TRUE, FALSE}
  IsLeader = FALSE
INVARIANTS
  TypeOK
  ConfigmapConsistent
  KidecarComplete
  NamesUnique
  AppKept
