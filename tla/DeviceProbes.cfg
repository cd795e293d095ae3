\* Every target with and without the seam.  Four circuits: one to another
\* public signals and length apart, a short one that says so and a wrong one
\* that does not.
SPECIFICATION FairSpec
CONSTANTS
  None = None
  Artifacts <- MovingBranch
  Amounts = {0, 1, 2}
INVARIANTS TypeOK SilenceIsNamed SurvivorsArePrinted MeasuredCircuitRan LegsSayWhereItStopped VerdictsAreEarned
PROPERTIES EveryProbeAnswers
