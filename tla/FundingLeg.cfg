SPECIFICATION Spec
CONSTANTS
  MaxU128 = 400
  GasWrap = 1
  GasApprove = 1
  GasShield = 8
  GasTransact = 11
  MinGasWei = 20
  DefaultShield = 3
  DefaultWrapShield = 4
  Unset = Unset
  Fees = {0, 1, 2, 5}
  Balances = {0, 1, 5, 60, 110}
  Amounts = {0, 4, 7}
INVARIANTS TypeOK FundedRunIsAffordable MinedNoteIsSpent
PROPERTIES AskIsEnough CheaperNeverHurts
