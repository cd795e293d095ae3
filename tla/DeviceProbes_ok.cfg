\* The same instance, for a claim about what `ok` says.
SPECIFICATION Spec
CONSTANTS
  None = None
  Artifacts <- MovingBranch
  Amounts = {0, 1, 2}
INVARIANT ProvingIsOk
