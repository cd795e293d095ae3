--------------------------- MODULE MCSteppedSync ---------------------------
(***************************************************************************)
(* SteppedSync with a history variable: how many blocks the sync_step      *)
(* being answered has added to the trees of its chain.                     *)
(***************************************************************************)
EXTENDS SteppedSync

VARIABLE walked

InitCalls == Init /\ walked = 0

NextCalls ==
  /\ Next
  /\ walked' = IF stepping' = Idle
                 THEN 0
                 ELSE walked + indexer'[engine'.chain] - indexer[engine'.chain]

SpecCalls == InitCalls /\ [][NextCalls]_<<vars, walked>>

(***************************************************************************)
(* What the comment on sync_step and the specification say: "each call     *)
(* syncs at most `blocks`" (one for a request of none).                    *)
(***************************************************************************)
CallSyncsAtMostBlocks ==
  stepping # Idle => walked <= Greater(stepping, 1)
=============================================================================
