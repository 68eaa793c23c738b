\* Three builds in one process, in any order and under any environment, the app's
\* among them or not; a build may fail.  Nothing is left to do after them but to
\* change the environment.
SPECIFICATION Spec
CONSTANTS
  Files = {"offline", "live", "torn", "agent", "typo", "both"}
  FunctionsOf <- Ventures
  Envs <- Worlds
  Reacts <- HearsOf
  Emits <- SaysOf
  MaxBuilds = 3
INVARIANTS
  OneBundle
  AppReadsItsNodes
  ViewTrue
  LiveIsReal
  BadgeTells
