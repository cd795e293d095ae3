\* Two wallets over one chain, whose indexer record they share, a caller who may
\* or may not keep calling, and an engine that may never get anywhere.  The last
\* block of the chain is the last of a u64.
SPECIFICATION FairSpec
CONSTANTS
  MaxU64 = 3
  Chains = {c1}
  Keys = {k1, k2}
  Windows = {0, 2}
  MaxBlock = 3
  NoEngine = NoEngine
  NoPlan = NoPlan
  Idle = Idle
  NoFrontier = NoFrontier
INVARIANTS TypeOK NothingSkipped ProgressSurvives WindowAdvances PercentIsHonest
PROPERTIES PinnedPlan WindowIsBounded FewWindows ImplementsOpaqueSync StepReturns CallerFinishes
