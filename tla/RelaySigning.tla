---------------------------- MODULE RelaySigning ----------------------------
(***************************************************************************)
(* The signing seam of relay.rs: what the two passes of                    *)
(* SignableUserOperation::sign over a prepared operation accept.           *)
(*                                                                         *)
(* A digest is a value of Digest.  What `sign` asks its signer for is a    *)
(* sequence of digests.  A signature is named by the digest it was made    *)
(* over; Garbled stands for an answer that is not 0x and 65 bytes.         *)
(***************************************************************************)
EXTENDS Integers, Sequences

CONSTANTS Digest, Garbled

ASSUME GarbledAssumption == Garbled \notin Digest

\* capture_digests: what the first pass was asked for, unless it is nothing.
Captured(asked) == asked # <<>>

\* describe_digest: the module knows what the first two digests are, and puts
\* no other in front of a human.
Describable(i) == i \in 1 .. 2

\* A bug: a digest this module does not know is described all the same.
RelayIntentWaved(digests) == digests # <<>>

\* relay_intent: every digest is a leg, and every leg must be describable.
RelayIntent(digests) == \A i \in DOMAIN digests : Describable(i)

\* A bug: the digest is not compared with the approved one.
ReplayUnchecked(approved, asked) == Len(asked) <= Len(approved)

\* ReplaySigner: it answers the i-th question with the i-th signature, only if
\* there is one and the question is the digest it was approved for.
Replay(approved, asked) ==
  \A i \in DOMAIN asked : i <= Len(approved) /\ asked[i] = approved[i]

\* A bug: approved signatures may be left over.
ApplySignaturesPartly(digests, signatures, asked) ==
  /\ Len(signatures) = Len(digests)
  /\ \A i \in DOMAIN signatures : signatures[i] # Garbled
  /\ Replay(digests, asked)

\* apply_signatures: one signature for each captured digest, every one of them
\* readable, the second pass asking for those digests and for all of them.
ApplySignatures(digests, signatures, asked) ==
  /\ Len(signatures) = Len(digests)
  /\ \A i \in DOMAIN signatures : signatures[i] # Garbled
  /\ Replay(digests, asked)
  /\ Len(asked) = Len(digests)
=============================================================================
