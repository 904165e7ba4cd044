\* Every order of changes to bundles, routes and event declarations.
SPECIFICATION Spec
CONSTANTS
  h1 = h1 h2 = h2 b1 = b1 b2 = b2 b3 = b3 e1 = e1 e2 = e2 anything = anything
  Ids = {h1, h2}
  Bundles = {b1, b2, b3}
  BundlesOf <- OwnBundles
  EventNames = {e1, e2}
  Patterns <- SomePatterns
  FullMatch <- SomeMatches
  Lists <- SomeLists
  MaxVersion = 3
INVARIANTS TableIsCurrent MatchIsExact
CHECK_DEADLOCK FALSE
