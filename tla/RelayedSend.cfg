\* Two sends parked at once; no symmetry, which liveness does not allow.
SPECIFICATION FairSpec
CONSTANTS
  Handles = {h1, h2}
  UserOp = UserOp
  Auth = Auth
  Digest <- Digests
  Asks <- AsksFew
  Garbled = Garbled
  None = None
INVARIANTS TypeOK SubmittedIsApproved SubmittedOnce DoneIsSubmitted StillPollable
PROPERTIES GivenUpIsNeverSent KeepsPromise EveryJobEnds
