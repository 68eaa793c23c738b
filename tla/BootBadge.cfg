\* Two builds in one process: the badge of a lead-sourcer that is not canned and
\* asked for live.
SPECIFICATION Spec
CONSTANTS
  Files = {"live", "offline", "both"}
  FunctionsOf <- Ventures
  Envs <- Worlds
  Reacts <- HearsOf
  Emits <- SaysOf
  MaxBuilds = 2
INVARIANT
  BadgeHonest
