\* The venture's ingestion nodes, a wildcard handler and a trace handler.
\* The system stops once the runs of Roots are over.
SPECIFICATION FairSpec
CONSTANTS
  TraceCaptured = "trace.captured"
  Types <- MCTypes
  Nodes <- MCNodes
  Observers = {"wildcard", "layer3"}
  Subs <- MCSubs
  Wild <- MCWild
  Reactions <- MCReactions
  Fallible = {"knowledge-builder", "thesis-tracker", "wildcard", "layer3"}
  Roots <- MCRoots
INVARIANTS
  TracedBeforeDelivered
  DeliveredOnce
  CompleteOnReturn
  FailFast
  NeverSwallowed
  SiblingsWait
PROPERTY PublishEnds
CHECK_DEADLOCK FALSE
