--------------------------- MODULE MCRelayedSend ---------------------------
(***************************************************************************)
(* Model-checking instances of RelayedSend.                                *)
(***************************************************************************)
EXTENDS RelayedSend

CONSTANTS UserOp, Auth

\* What sign may ask for: nothing, the UserOperation hash, that and the 7702
\* authorization, the two swapped, or one digest more than anybody knows.
AsksFew == {<<>>, <<UserOp>>, <<UserOp, Auth>>, <<Auth, UserOp>>, <<UserOp, Auth, UserOp>>}

Digests == {UserOp, Auth}
=============================================================================
