\* Two runs; the price doubles, which with the tip is more than the ask is for.
SPECIFICATION FairSpec
CONSTANTS
  MaxU128 = 2000
  GasWrap = 1
  GasApprove = 1
  GasShield = 8
  GasTransact = 11
  MinGasWei = 20
  DefaultShield = 3
  DefaultWrapShield = 4
  Unset = Unset
  Fees = {1, 2}
  StartWei = {0, 90}
  StartErc20 = {0, 3}
  Questions <- AllQuestions
  MaxRuns = 2
  Tip = 1
  ShieldFee = 1
INVARIANTS TypeOK GreenIsLanded RevertsOnlyWhenCrossed
PROPERTIES NoteIsNotStranded ShieldsOnlyIntoAnEmptyTree NothingSignedAfterRed RunEnds
