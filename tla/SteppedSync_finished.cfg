\* One wallet on one chain: what a finished sync leaves behind.
SPECIFICATION Spec
CONSTANTS
  MaxU64 = 3
  Chains = {c1}
  Keys = {k1}
  Windows = {0, 2}
  MaxBlock = 3
  NoEngine = NoEngine
  NoPlan = NoPlan
  Idle = Idle
  NoFrontier = NoFrontier
INVARIANT NoPlanBetweenSyncs
