\* Two wallets over one chain: what a second init does to a plan.
SPECIFICATION Spec
CONSTANTS
  MaxU64 = 3
  Chains = {c1}
  Keys = {k1, k2}
  Windows = {0, 2}
  MaxBlock = 3
  NoEngine = NoEngine
  NoPlan = NoPlan
  Idle = Idle
  NoFrontier = NoFrontier
INVARIANT StatusTellsWhereTheEngineIs
