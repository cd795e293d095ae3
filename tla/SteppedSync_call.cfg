\* One wallet on one chain: how far one call of sync_step goes.
SPECIFICATION SpecCalls
CONSTANTS
  MaxU64 = 3
  Chains = {c1}
  Keys = {k1}
  Windows = {0, 2}
  MaxBlock = 3
  NoEngine = NoEngine
  NoPlan = NoPlan
  Idle = Idle
  NoFrontier = NoFrontier
INVARIANT CallSyncsAtMostBlocks
