\* The collector ticks for ever.
SPECIFICATION FairSpec
CONSTANTS
  Strings <- MCStrings
  Namespaces = {"ns1", "ns2"}
  Labels = {"app=x", "team=a"}
  NamespaceLabels <- MCNamespaceLabels
  AnnotationKeys = {"note"}
  Yamls = {"y1", "y2"}
  Calls = {"k1", "k2"}
  Configs = {"c1"}
  RetrySteps = 2
  PodShapes <- MCWidePods
  Specs <- MCWideSpecs
  InitialSpec <- MCWide
  InitialYamls = {""}
  MaxEvents = 0
  CanDryRun = {FALSE}
  IsLeader = TRUE
PROPERTY
  UpdatedCountsInjected
