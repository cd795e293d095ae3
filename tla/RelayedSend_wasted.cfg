SPECIFICATION Spec
CONSTANTS
  Handles = {h1, h2}
  UserOp = UserOp
  Auth = Auth
  Digest <- Digests
  Asks <- AsksFew
  Garbled = Garbled
  None = None
INVARIANTS ApprovalIsNotWasted
