-------------------------- MODULE RelayedSendProofs --------------------------
(***************************************************************************)
(* Proofs about RelayedSend, for every set of handles, of digests and of   *)
(* operations: what is submitted was approved, an approval is submitted at *)
(* most once, nothing given up is submitted, and RelayedSend implements    *)
(* ApprovedOnce.  Where ApprovalIsNotWasted fails the bundler's call did,  *)
(* and no request ever goes back, which is half of EveryJobEnds.           *)
(***************************************************************************)
EXTENDS RelayedSend, SequenceTheorems, TLAPS

-----------------------------------------------------------------------------
\* The one thing that may be submitted for h: what the human was shown, each
\* digest with the signature over it.
Whole(h) == [op |-> legs[h], signatures |-> legs[h]]

\* The keystore has legs for exactly the requests it was offered.
LegsOfOffers == \A h \in Handles : legs[h] = None <=> offer[h] = "none"

\* A parked job is what the human was shown, and has not been submitted.
ParkedIsShown ==
  \A h \in Handles : jobs[h] # None => jobs[h] = legs[h] /\ sent[h] = <<>>

\* Where the running call stands with the request it drives.
DrivenIsApproved ==
  /\ driven # None =>
       /\ offer[driven] = "approved"
       /\ told[driven] \notin {"declined", "cancelled"}
  /\ at = "fetch" => jobs[driven] # None
  /\ at \in {"submit", "ack"} => jobs[driven] = None /\ driven \in taken
  /\ at = "submit" => signed = Whole(driven) /\ sent[driven] = <<>>
  /\ at = "ack" => sent[driven] # <<>>

\* Whatever was submitted is the whole of an approval, once.
SentIsWhole ==
  \A h \in Handles :
    \/ sent[h] = <<>>
    \/ sent[h] = <<Whole(h)>> /\ offer[h] = "approved"

\* What the caller was told is over has no job.
ClosedIsGone ==
  \A h \in Handles : told[h] \in {"declined", "cancelled"} => jobs[h] = None

IInv ==
  /\ TypeOK
  /\ LegsOfOffers
  /\ ParkedIsShown
  /\ DrivenIsApproved
  /\ SentIsWhole
  /\ ClosedIsGone
  /\ DoneIsSubmitted
  /\ StillPollable

-----------------------------------------------------------------------------
(***************************************************************************)
(* apply_signatures accepts exactly one thing: every signature, in order,  *)
(* over an operation that asks for exactly the approved digests.           *)
(***************************************************************************)
LEMMA ApplySignaturesExact ==
  ASSUME NEW digests \in Seq(Digest), digests # <<>>,
         NEW asked \in Seq(Digest),
         NEW signatures \in Answers(digests),
         ApplySignatures(digests, signatures, asked)
  PROVE  asked = digests /\ signatures = digests
<1>1. asked = digests
  <2>1. Len(asked) = Len(digests)
    BY DEF ApplySignatures
  <2>2. \A i \in 1 .. Len(asked) : asked[i] = digests[i]
    BY DEF ApplySignatures, Replay
  <2> QED
    BY <2>1, <2>2, SeqEqual
<1>2. signatures # SubSeq(digests, 1, Len(digests) - 1)
  BY DEF ApplySignatures
<1>3. signatures # [digests EXCEPT ![1] = Garbled]
  BY DEF ApplySignatures
<1> QED
  BY <1>1, <1>2, <1>3 DEF Answers

LEMMA ShowableIsAList ==
  ASSUME NEW d \in Showable
  PROVE  d \in Asks /\ d \in Seq(Digest) /\ d # <<>> /\ d # None
<1>1. d \in Asks /\ Len(d) # 0
  BY DEF Showable
<1>2. d \in Seq(Digest) /\ d # None
  BY <1>1, RelayedSendAssumption
<1>3. Len(<<>>) = 0
  BY EmptySeq
<1> QED
  BY <1>1, <1>2, <1>3

LEMMA InitEstablishesIInv == Init => IInv
BY DEF Init, IInv, TypeOK, LegsOfOffers, ParkedIsShown, DrivenIsApproved, SentIsWhole,
       ClosedIsGone, DoneIsSubmitted, StillPollable, Undecided, Refusals

LEMMA RelayedSendKeepsIInv ==
  ASSUME IInv, NEW h \in Handles, NEW asked \in Asks, NEW replied \in BOOLEAN,
         RelayedSend(h, asked, replied)
  PROVE  IInv'
<1>1. asked \in Showable /\ asked # None
  <2>1. asked \in Seq(Digest)
    BY RelayedSendAssumption
  <2>2. Len(asked) # 0
    BY <2>1, EmptySeq DEF RelayedSend, Captured
  <2>3. ~ 3 \in DOMAIN asked
    BY DEF RelayedSend, RelayIntent, Describable
  <2>4. Len(asked) \in Nat /\ DOMAIN asked = 1 .. Len(asked)
    BY <2>1
  <2>5. Len(asked) \in 1 .. 2
    BY <2>2, <2>3, <2>4
  <2> QED
    BY <2>1, <2>5, RelayedSendAssumption DEF Showable
<1>2. jobs[h] = None /\ sent[h] = <<>> /\ driven # h
  BY RelayedSendAssumption
  DEF RelayedSend, IInv, TypeOK, LegsOfOffers, ParkedIsShown, SentIsWhole, DrivenIsApproved
<1>3. TypeOK'
  BY <1>1 DEF RelayedSend, call, IInv, TypeOK, Undecided, Refusals
<1>4. LegsOfOffers'
  BY <1>1 DEF RelayedSend, IInv, TypeOK, LegsOfOffers
<1>5. ParkedIsShown'
  BY <1>2 DEF RelayedSend, IInv, TypeOK, ParkedIsShown
<1>6. DrivenIsApproved'
  BY <1>2 DEF RelayedSend, call, IInv, TypeOK, DrivenIsApproved, Whole
<1>7. SentIsWhole'
  BY <1>2 DEF RelayedSend, IInv, TypeOK, SentIsWhole, Whole
<1>8. ClosedIsGone'
  BY <1>2 DEF RelayedSend, IInv, TypeOK, ClosedIsGone
<1>9. DoneIsSubmitted'
  BY DEF RelayedSend, IInv, TypeOK, DoneIsSubmitted
<1>10. StillPollable'
  BY <1>1, <1>2 DEF RelayedSend, IInv, TypeOK, StillPollable
<1> QED
  BY <1>3, <1>4, <1>5, <1>6, <1>7, <1>8, <1>9, <1>10 DEF IInv

LEMMA StatusAnswersKeepsIInv ==
  ASSUME IInv, NEW h \in Handles, StatusAnswers(h)
  PROVE  IInv'
<1>1. driven = None /\ signed = None /\ jobs[h] = legs[h] /\ sent[h] = <<>> /\ h \notin {None}
  BY RelayedSendAssumption DEF StatusAnswers, IInv, TypeOK, ParkedIsShown
<1>2. told[h] \notin {"declined", "cancelled"}
  BY DEF StatusAnswers, IInv, ClosedIsGone
<1>3. TypeOK'
  BY <1>1 DEF StatusAnswers, keystore, IInv, TypeOK, Undecided, Refusals
<1>4. LegsOfOffers'
  BY DEF StatusAnswers, keystore, IInv, LegsOfOffers
<1>5. ParkedIsShown'
  BY DEF StatusAnswers, keystore, IInv, TypeOK, ParkedIsShown
<1>6. DrivenIsApproved'
  BY <1>1, <1>2 DEF StatusAnswers, keystore, IInv, TypeOK, DrivenIsApproved
<1>7. SentIsWhole'
  BY DEF StatusAnswers, keystore, IInv, SentIsWhole, Whole
<1>8. ClosedIsGone'
  BY <1>2 DEF StatusAnswers, IInv, TypeOK, ClosedIsGone
<1>9. DoneIsSubmitted'
  BY DEF StatusAnswers, keystore, IInv, TypeOK, DoneIsSubmitted
<1>10. StillPollable'
  <2>1. UNCHANGED <<legs, taken, lost>>
    BY DEF StatusAnswers, keystore
  <2>2. \A r \in Handles : r # h => told'[r] = told[r] /\ jobs'[r] = jobs[r]
    BY DEF StatusAnswers, IInv, TypeOK
  <2>3. told'[h] = "declined" \/ jobs'[h] = jobs[h]
    BY DEF StatusAnswers, IInv, TypeOK
  <2>4. jobs[h] # None
    BY DEF StatusAnswers
  <2> QED
    BY <1>1, <2>1, <2>2, <2>3, <2>4 DEF IInv, StillPollable
<1> QED
  BY <1>3, <1>4, <1>5, <1>6, <1>7, <1>8, <1>9, <1>10 DEF IInv

LEMMA StatusFailsKeepsIInv ==
  ASSUME IInv, NEW h \in Handles, StatusFails(h)
  PROVE  IInv'
<1>1. driven = None /\ jobs[h] = legs[h]
  BY RelayedSendAssumption DEF StatusFails, IInv, TypeOK, ParkedIsShown
<1>2. TypeOK'
  BY DEF StatusFails, keystore, call, IInv, TypeOK
<1>3. (LegsOfOffers /\ ParkedIsShown /\ SentIsWhole)'
  BY DEF StatusFails, keystore, IInv, LegsOfOffers, ParkedIsShown, SentIsWhole, Whole
<1>4. DrivenIsApproved'
  BY <1>1 DEF StatusFails, keystore, call, IInv, TypeOK, DrivenIsApproved
<1>5. (ClosedIsGone /\ DoneIsSubmitted /\ StillPollable)'
  BY <1>1 DEF StatusFails, keystore, IInv, TypeOK, ClosedIsGone, DoneIsSubmitted, StillPollable
<1> QED
  BY <1>2, <1>3, <1>4, <1>5 DEF IInv

LEMMA FetchAnswersKeepsIInv ==
  ASSUME IInv, NEW asked \in Asks, at = "fetch", NEW signatures \in Answers(legs[driven]),
         FetchAnswers(signatures, asked)
  PROVE  IInv'
<1>1. /\ driven \in Handles
      /\ driven # None
      /\ jobs[driven] = legs[driven]
      /\ jobs[driven] \in Showable
      /\ sent[driven] = <<>>
      /\ told[driven] \notin {"declined", "cancelled"}
      /\ offer[driven] = "approved"
  BY RelayedSendAssumption DEF IInv, TypeOK, DrivenIsApproved, ParkedIsShown
<1>2. ApplySignatures(jobs[driven], signatures, asked) =>
        asked = legs[driven] /\ signatures = legs[driven]
  BY <1>1, ShowableIsAList, ApplySignaturesExact, RelayedSendAssumption
<1>3. /\ [op |-> asked, signatures |-> legs[driven]] \in Submission
      /\ [op |-> asked, signatures |-> legs[driven]] # None
  BY <1>1, RelayedSendAssumption, ShowableIsAList DEF Submission
<1>4. TypeOK'
  BY <1>1, <1>2, <1>3 DEF FetchAnswers, CallEnds, keystore, IInv, TypeOK
<1>5. (LegsOfOffers /\ ParkedIsShown /\ SentIsWhole)'
  BY <1>1 DEF FetchAnswers, keystore, IInv, TypeOK, LegsOfOffers, ParkedIsShown, SentIsWhole, Whole
<1>6. DrivenIsApproved'
  BY <1>1, <1>2 DEF FetchAnswers, CallEnds, keystore, IInv, TypeOK, DrivenIsApproved, Whole
<1>7. (ClosedIsGone /\ DoneIsSubmitted)'
  BY <1>1 DEF FetchAnswers, CallEnds, keystore, IInv, TypeOK, ClosedIsGone, DoneIsSubmitted
<1>8. StillPollable'
  BY <1>1 DEF FetchAnswers, CallEnds, keystore, IInv, TypeOK, StillPollable
<1> QED
  BY <1>4, <1>5, <1>6, <1>7, <1>8 DEF IInv

LEMMA FetchFailsKeepsIInv ==
  ASSUME IInv, FetchFails
  PROVE  IInv'
<1>1. /\ driven \in Handles
      /\ jobs[driven] # None /\ jobs[driven] = legs[driven]
      /\ told[driven] \notin {"declined", "cancelled"}
  BY DEF FetchFails, IInv, TypeOK, DrivenIsApproved, ParkedIsShown
<1>2. TypeOK'
  BY <1>1 DEF FetchFails, CallEnds, keystore, IInv, TypeOK
<1>3. (LegsOfOffers /\ ParkedIsShown /\ SentIsWhole)'
  BY DEF FetchFails, keystore, IInv, LegsOfOffers, ParkedIsShown, SentIsWhole, Whole
<1>4. DrivenIsApproved'
  BY DEF FetchFails, CallEnds, DrivenIsApproved
<1>5. (ClosedIsGone /\ DoneIsSubmitted /\ StillPollable)'
  BY <1>1 DEF FetchFails, keystore, IInv, TypeOK, ClosedIsGone, DoneIsSubmitted, StillPollable
<1> QED
  BY <1>2, <1>3, <1>4, <1>5 DEF IInv

LEMMA SubmitKeepsIInv ==
  ASSUME IInv, NEW accepted \in BOOLEAN, NEW replied \in BOOLEAN, Submit(accepted, replied)
  PROVE  IInv'
<1>1. /\ driven \in Handles
      /\ jobs[driven] = None
      /\ driven \in taken
      /\ signed = Whole(driven)
      /\ sent[driven] = <<>>
      /\ offer[driven] = "approved"
      /\ told[driven] \notin {"declined", "cancelled"}
  BY DEF Submit, IInv, TypeOK, DrivenIsApproved
<1>2. sent' = IF accepted THEN [sent EXCEPT ![driven] = <<Whole(driven)>>] ELSE sent
  <2>1. Append(<<>>, signed) = <<signed>>
    OBVIOUS
  <2>2. CASE accepted
    <3>1. sent' = [sent EXCEPT ![driven] = Append(sent[driven], signed)]
      BY <2>2 DEF Submit
    <3> QED
      BY <1>1, <2>1, <2>2, <3>1
  <2>3. CASE ~accepted
    BY <2>3 DEF Submit
  <2> QED
    BY <2>2, <2>3
<1>3. /\ UNCHANGED <<offer, legs, wiped, jobs, taken, lost>>
      /\ \/ accepted /\ at' = "ack" /\ signed' = None /\ driven' = driven /\ told' = told
         \/ /\ at' = "idle" /\ signed' = None /\ driven' = None
            /\ told' = [told EXCEPT ![driven] = "error"]
  BY DEF Submit, CallEnds, keystore
<1>4. TypeOK'
  <2>1. sent' \in [Handles -> Seq(Submission)]
    <3>1. Whole(driven) \in Submission
      BY <1>1 DEF Submit, IInv, TypeOK
    <3>2. <<Whole(driven)>> \in Seq(Submission)
      BY <3>1
    <3> QED
      BY <1>2, <3>2 DEF IInv, TypeOK
  <2> QED
    BY <1>1, <1>3, <2>1, RelayedSendAssumption DEF IInv, TypeOK
<1>5. (LegsOfOffers /\ ParkedIsShown)'
  BY <1>1, <1>2, <1>3 DEF IInv, LegsOfOffers, ParkedIsShown
<1>6. SentIsWhole'
  BY <1>1, <1>2, <1>3 DEF IInv, SentIsWhole, Whole
<1>7. DrivenIsApproved'
  BY <1>1, <1>2, <1>3 DEF IInv, TypeOK, DrivenIsApproved
<1>8. (ClosedIsGone /\ StillPollable)'
  BY <1>1, <1>3 DEF IInv, TypeOK, ClosedIsGone, StillPollable
<1>9. DoneIsSubmitted'
  BY <1>1, <1>2, <1>3 DEF IInv, TypeOK, DoneIsSubmitted
<1> QED
  BY <1>4, <1>5, <1>6, <1>7, <1>8, <1>9 DEF IInv

LEMMA AckKeepsIInv ==
  ASSUME IInv, NEW heard \in BOOLEAN, Ack(heard)
  PROVE  IInv'
<1>1. /\ driven \in Handles
      /\ jobs[driven] = None
      /\ driven \in taken
      /\ sent[driven] # <<>>
  BY DEF Ack, IInv, TypeOK, DrivenIsApproved
<1>2. TypeOK'
  BY <1>1 DEF Ack, CallEnds, IInv, TypeOK
<1>3. (LegsOfOffers /\ ParkedIsShown /\ SentIsWhole)'
  BY DEF Ack, IInv, LegsOfOffers, ParkedIsShown, SentIsWhole, Whole
<1>4. DrivenIsApproved'
  BY DEF Ack, CallEnds, DrivenIsApproved
<1>5. (ClosedIsGone /\ DoneIsSubmitted /\ StillPollable)'
  BY <1>1 DEF Ack, IInv, TypeOK, ClosedIsGone, DoneIsSubmitted, StillPollable
<1> QED
  BY <1>2, <1>3, <1>4, <1>5 DEF IInv

LEMMA RelayedSendCancelKeepsIInv ==
  ASSUME IInv, NEW h \in Handles, NEW heard \in BOOLEAN, RelayedSendCancel(h, heard)
  PROVE  IInv'
<1>1. driven = None /\ signed = None /\ sent[h] = <<>> /\ jobs[h] = legs[h]
  BY RelayedSendAssumption DEF RelayedSendCancel, IInv, TypeOK, ParkedIsShown
<1>2. TypeOK'
  BY <1>1 DEF RelayedSendCancel, call, IInv, TypeOK, Undecided, Refusals
<1>3. LegsOfOffers'
  BY DEF RelayedSendCancel, IInv, TypeOK, LegsOfOffers, Undecided, Refusals
<1>4. (ParkedIsShown /\ SentIsWhole)'
  BY <1>1 DEF RelayedSendCancel, IInv, TypeOK, ParkedIsShown, SentIsWhole, Whole
<1>5. DrivenIsApproved'
  BY <1>1 DEF RelayedSendCancel, call, IInv, TypeOK, DrivenIsApproved
<1>6. (ClosedIsGone /\ DoneIsSubmitted /\ StillPollable)'
  BY <1>1 DEF RelayedSendCancel, IInv, TypeOK, ClosedIsGone, DoneIsSubmitted, StillPollable
<1> QED
  BY <1>2, <1>3, <1>4, <1>5, <1>6 DEF IInv

LEMMA RestartKeepsIInv ==
  ASSUME IInv, Restart
  PROVE  IInv'
<1>1. TypeOK'
  BY DEF Restart, CallEnds, keystore, IInv, TypeOK
<1>2. (LegsOfOffers /\ ParkedIsShown /\ SentIsWhole)'
  BY DEF Restart, keystore, IInv, LegsOfOffers, ParkedIsShown, SentIsWhole, Whole
<1>3. DrivenIsApproved'
  BY DEF Restart, CallEnds, DrivenIsApproved
<1>4. (ClosedIsGone /\ DoneIsSubmitted /\ StillPollable)'
  BY DEF Restart, keystore, IInv, TypeOK, ClosedIsGone, DoneIsSubmitted, StillPollable
<1> QED
  BY <1>1, <1>2, <1>3, <1>4 DEF IInv

\* What the keystore and the human do: an undecided request moves on.
LEMMA KeystoreKeepsIInv ==
  ASSUME IInv, NEW h \in Handles, offer[h] \in Undecided,
         NEW outcome \in {"rendered", "approved"} \cup Refusals,
         offer' = [offer EXCEPT ![h] = outcome],
         UNCHANGED <<legs, wiped, jobs, call, sent, told, taken, lost>>
  PROVE  IInv'
<1>1. TypeOK'
  BY DEF call, IInv, TypeOK, Undecided, Refusals
<1>2. LegsOfOffers'
  BY DEF IInv, TypeOK, LegsOfOffers, Undecided, Refusals
<1>3. (ParkedIsShown /\ SentIsWhole)'
  BY DEF IInv, TypeOK, ParkedIsShown, SentIsWhole, Whole, Undecided
<1>4. DrivenIsApproved'
  BY DEF call, IInv, TypeOK, DrivenIsApproved, Whole, Undecided
<1>5. (ClosedIsGone /\ DoneIsSubmitted /\ StillPollable)'
  BY DEF IInv, ClosedIsGone, DoneIsSubmitted, StillPollable
<1> QED
  BY <1>1, <1>2, <1>3, <1>4, <1>5 DEF IInv

-----------------------------------------------------------------------------
(***************************************************************************)
(* The inductive invariant: a parked job is what the human was shown and   *)
(* was never submitted, a call past the fetch drives an approved request   *)
(* whose job is gone, and every submission is the whole of an approval.    *)
(***************************************************************************)
THEOREM RelayedSendInvariant == Spec => []IInv
<1>1. IInv /\ [Next]_vars => IInv'
  <2> SUFFICES ASSUME IInv, [Next]_vars PROVE IInv'
    OBVIOUS
  <2>1. CASE Drive
    <3>1. ASSUME NEW asked \in Asks, at = "fetch", NEW signatures \in Answers(legs[driven]),
                 FetchAnswers(signatures, asked)
          PROVE  IInv'
      BY <3>1, FetchAnswersKeepsIInv
    <3>2. CASE FetchFails
      BY <3>2, FetchFailsKeepsIInv
    <3>3. ASSUME NEW accepted \in BOOLEAN, NEW replied \in BOOLEAN, Submit(accepted, replied)
          PROVE  IInv'
      BY <3>3, SubmitKeepsIInv
    <3>4. ASSUME NEW heard \in BOOLEAN, Ack(heard) PROVE IInv'
      BY <3>4, AckKeepsIInv
    <3> QED
      BY <2>1, <3>1, <3>2, <3>3, <3>4 DEF Drive
  <2>2. CASE Calls
    BY <2>2, RelayedSendKeepsIInv, StatusAnswersKeepsIInv, StatusFailsKeepsIInv,
       RelayedSendCancelKeepsIInv
    DEF Calls
  <2>3. CASE Keystore
    <3>1. PICK h \in Handles :
            \/ Render(h)
            \/ \E verdict \in {"approved", "declined"} : Decide(h, verdict)
            \/ Expire(h)
      BY <2>3 DEF Keystore
    <3> QED
      BY <3>1, KeystoreKeepsIInv DEF Render, Decide, Expire, Undecided, Refusals
  <2>4. CASE Restart
    BY <2>4, RestartKeepsIInv
  <2>5. CASE UNCHANGED vars
    BY <2>5
    DEF vars, keystore, call, IInv, TypeOK, LegsOfOffers, ParkedIsShown, DrivenIsApproved,
        SentIsWhole, Whole, ClosedIsGone, DoneIsSubmitted, StillPollable
  <2> QED
    BY <2>1, <2>2, <2>3, <2>4, <2>5 DEF Next
<1> QED
  BY <1>1, InitEstablishesIInv, PTL DEF Spec

(***************************************************************************)
(* The state of every request stays in its type: in particular no human is *)
(* ever shown a request for nothing or for a digest nobody can describe.   *)
(***************************************************************************)
THEOREM RelayTypeCorrect == Spec => []TypeOK
<1>1. IInv => TypeOK
  BY DEF IInv
<1> QED
  BY <1>1, RelayedSendInvariant, PTL

(***************************************************************************)
(* The bytes a human approved are the bytes submitted, or nothing is.      *)
(***************************************************************************)
THEOREM OnlyApprovedIsSubmitted == Spec => []SubmittedIsApproved
<1>1. IInv => SubmittedIsApproved
  <2> SUFFICES ASSUME IInv, NEW h \in Handles, NEW i \in DOMAIN sent[h]
               PROVE  /\ offer[h] = "approved"
                      /\ sent[h][i].op = legs[h]
                      /\ sent[h][i].signatures = legs[h]
    BY DEF SubmittedIsApproved
  <2>1. sent[h] = <<Whole(h)>> /\ offer[h] = "approved"
    BY DEF IInv, SentIsWhole
  <2> QED
    BY <2>1 DEF Whole
<1> QED
  BY <1>1, RelayedSendInvariant, PTL

(***************************************************************************)
(* An approval is submitted at most once.                                  *)
(***************************************************************************)
THEOREM AtMostOneSubmission == Spec => []SubmittedOnce
<1>1. IInv => SubmittedOnce
  <2> SUFFICES ASSUME IInv, NEW h \in Handles PROVE Len(sent[h]) <= 1
    BY DEF SubmittedOnce
  <2>1. CASE sent[h] = <<>>
    BY <2>1
  <2>2. CASE sent[h] = <<Whole(h)>>
    BY <2>2
  <2> QED
    BY <2>1, <2>2 DEF IInv, SentIsWhole
<1> QED
  BY <1>1, RelayedSendInvariant, PTL

(***************************************************************************)
(* Signatures are wiped, and "done" is said, only after the submission.    *)
(***************************************************************************)
THEOREM WipedAfterSubmission == Spec => []DoneIsSubmitted
<1>1. IInv => DoneIsSubmitted
  BY DEF IInv
<1> QED
  BY <1>1, RelayedSendInvariant, PTL

(***************************************************************************)
(* Until its signatures are taken, a pending send stays parked whatever    *)
(* polls fail.                                                             *)
(***************************************************************************)
THEOREM PendingStaysPollable == Spec => []StillPollable
<1>1. IInv => StillPollable
  BY DEF IInv
<1> QED
  BY <1>1, RelayedSendInvariant, PTL

(***************************************************************************)
(* What was declined or given up is never submitted afterwards.            *)
(***************************************************************************)
THEOREM GivenUpStaysUnsent == Spec => GivenUpIsNeverSent
<1> DEFINE Quiet ==
      \A h \in Handles : told[h] \in {"declined", "cancelled"} => sent'[h] = sent[h]
<1>1. IInv /\ [Next]_vars => [Quiet]_vars
  <2> SUFFICES ASSUME IInv, Next, NEW h \in Handles, told[h] \in {"declined", "cancelled"}
               PROVE  sent'[h] = sent[h]
    BY DEF Quiet
  <2>1. ASSUME NEW accepted \in BOOLEAN, NEW replied \in BOOLEAN, Submit(accepted, replied)
        PROVE  sent'[h] = sent[h]
    <3>1. driven \in Handles /\ driven # h
      BY <2>1 DEF Submit, IInv, TypeOK, DrivenIsApproved
    <3> QED
      BY <2>1, <3>1 DEF Submit, IInv, TypeOK
  <2>2. CASE UNCHANGED sent
    BY <2>2
  <2> QED
    BY <2>1, <2>2
    DEF Next, Drive, Calls, Keystore, FetchAnswers, FetchFails, Ack, RelayedSend, StatusAnswers,
        StatusFails, RelayedSendCancel, Restart, Render, Decide, Expire
<1> QED
  BY <1>1, RelayedSendInvariant, PTL DEF Spec, GivenUpIsNeverSent

-----------------------------------------------------------------------------
\* What has been spent of request h, as ApprovedOnce sees it.
Spent(h) == [i \in DOMAIN sent[h] |-> sent[h][i].op]

LEMMA SpentOfNothing ==
  ASSUME NEW h \in Handles, sent[h] = <<>>
  PROVE  Spent(h) = <<>>
BY DEF Spent

LEMMA SpentOfOne ==
  ASSUME NEW h \in Handles, sent[h] = <<Whole(h)>>
  PROVE  Spent(h) = <<legs[h]>>
BY DEF Spent, Whole

\* A step of the relayed send that only moves one consent forward.
LEMMA ConsentIsAnswered ==
  ASSUME IInv, NEW h \in Handles, offer[h] \in Undecided,
         NEW outcome \in {"rendered", "approved"} \cup Refusals,
         offer' = [offer EXCEPT ![h] = outcome],
         UNCHANGED <<legs, sent>>
  PROVE  [Promise!Next]_(Promise!vars)
<1> DEFINE consent == [r \in Handles |-> Consent(r)]
<1>1. legs[h] # None /\ consent[h] = "open"
  BY DEF IInv, LegsOfOffers, Consent, Undecided, Refusals
<1>2. offer' \in [Handles -> {"none", "approved"} \cup Undecided \cup Refusals]
  BY DEF IInv, TypeOK, Undecided, Refusals
<1>3. \A r \in Handles : r # h => offer'[r] = offer[r]
  BY DEF IInv, TypeOK
<1>4. offer'[h] = outcome
  BY DEF IInv, TypeOK
<1>5. consent' = [consent EXCEPT ![h] = Consent(h)']
  <2>1. \A r \in Handles : r # h => Consent(r)' = Consent(r)
    BY <1>3 DEF Consent
  <2>2. consent' = [r \in Handles |-> Consent(r)']
    OBVIOUS
  <2> QED
    BY <2>1, <2>2
<1>6. Consent(h)' \in {"open", "given", "refused"}
  BY <1>2 DEF Consent
<1>7. UNCHANGED [r \in Handles |-> Spent(r)]
  BY DEF Spent
<1>8. CASE Consent(h)' = "open"
  BY <1>1, <1>5, <1>7, <1>8 DEF Promise!vars, Spent
<1>9. CASE Consent(h)' # "open"
  BY <1>1, <1>5, <1>6, <1>7, <1>9 DEF Promise!Next, Promise!Answer, Spent
<1> QED
  BY <1>8, <1>9

\* A step that leaves the offers, the legs and the submissions alone.
LEMMA NothingSeen ==
  ASSUME UNCHANGED <<offer, legs, sent>>
  PROVE  UNCHANGED Promise!vars
BY DEF Promise!vars, Consent

LEMMA RelayedSendShows ==
  ASSUME IInv, NEW h \in Handles, NEW asked \in Asks, NEW replied \in BOOLEAN,
         RelayedSend(h, asked, replied)
  PROVE  Promise!Next
<1> DEFINE consent == [r \in Handles |-> Consent(r)]
<1>1. legs[h] = None /\ asked # None /\ legs' = [legs EXCEPT ![h] = asked]
  BY RelayedSendAssumption DEF RelayedSend, IInv, LegsOfOffers
<1>2. UNCHANGED consent
  <2>1. \A r \in Handles : r # h => Consent(r)' = Consent(r)
    BY DEF RelayedSend, IInv, TypeOK, Consent
  <2>2. Consent(h) = "open"
    BY DEF RelayedSend, Consent, Undecided, Refusals
  <2>3. Consent(h)' = "open"
    BY DEF RelayedSend, IInv, TypeOK, Consent, Undecided, Refusals
  <2> QED
    BY <2>1, <2>2, <2>3
<1>3. UNCHANGED sent
  BY DEF RelayedSend
<1> QED
  BY <1>1, <1>2, <1>3 DEF Promise!Next, Promise!Show

LEMMA SubmitSpends ==
  ASSUME IInv, NEW accepted \in BOOLEAN, NEW replied \in BOOLEAN, Submit(accepted, replied)
  PROVE  [Promise!Next]_(Promise!vars)
<1> DEFINE consent == [r \in Handles |-> Consent(r)]
           spent == [r \in Handles |-> [i \in DOMAIN sent[r] |-> sent[r][i].op]]
<1>1. /\ driven \in Handles
      /\ signed = Whole(driven)
      /\ sent[driven] = <<>>
      /\ offer[driven] = "approved"
      /\ UNCHANGED <<offer, legs>>
  BY DEF Submit, keystore, IInv, TypeOK, DrivenIsApproved
<1>2. CASE ~accepted
  BY <1>1, <1>2, NothingSeen DEF Submit
<1>3. CASE accepted
  <2>1. sent' = [sent EXCEPT ![driven] = <<Whole(driven)>>]
    <3>1. Append(<<>>, signed) = <<signed>>
      OBVIOUS
    <3> QED
      BY <1>1, <1>3, <3>1 DEF Submit
  <2>2. \A r \in Handles : r # driven => sent'[r] = sent[r]
    BY <2>1 DEF IInv, TypeOK
  <2>3. sent'[driven] = <<Whole(driven)>>
    BY <1>1, <2>1 DEF IInv, TypeOK
  <2>4. spent[driven] = <<>>
    BY <1>1, SpentOfNothing DEF Spent
  <2>5. spent'[driven] = <<legs[driven]>>
    BY <1>1, <2>3 DEF Whole
  <2>6. spent' = [spent EXCEPT ![driven] = <<legs[driven]>>]
    BY <1>1, <2>2, <2>5
  <2>7. consent[driven] = "given" /\ UNCHANGED consent
    BY <1>1 DEF Consent, Undecided, Refusals
  <2> QED
    BY <1>1, <2>4, <2>6, <2>7 DEF Promise!Next, Promise!Spend
<1> QED
  BY <1>2, <1>3

(***************************************************************************)
(* RelayedSend implements ApprovedOnce.                                    *)
(***************************************************************************)
THEOREM RelayedSendKeepsPromise == Spec => KeepsPromise
<1>1. Init => Promise!Init
  <2> SUFFICES ASSUME Init PROVE Promise!Init
    OBVIOUS
  <2>1. \A h \in Handles : Consent(h) = "open"
    BY DEF Init, Consent, Undecided, Refusals
  <2>2. \A h \in Handles : [i \in DOMAIN sent[h] |-> sent[h][i].op] = <<>>
    BY SpentOfNothing DEF Init, Spent
  <2> QED
    BY <2>1, <2>2 DEF Init, Promise!Init
<1>2. IInv /\ [Next]_vars => [Promise!Next]_(Promise!vars)
  <2> SUFFICES ASSUME IInv, [Next]_vars PROVE [Promise!Next]_(Promise!vars)
    OBVIOUS
  <2>1. CASE UNCHANGED <<offer, legs, sent>>
    BY <2>1, NothingSeen
  <2>2. ASSUME NEW h \in Handles, NEW asked \in Asks, NEW replied \in BOOLEAN,
               RelayedSend(h, asked, replied)
        PROVE  Promise!Next
    BY <2>2, RelayedSendShows
  <2>3. ASSUME NEW accepted \in BOOLEAN, NEW replied \in BOOLEAN, Submit(accepted, replied)
        PROVE  [Promise!Next]_(Promise!vars)
    BY <2>3, SubmitSpends
  <2>4. ASSUME NEW h \in Handles, NEW heard \in BOOLEAN, RelayedSendCancel(h, heard),
               ~ UNCHANGED <<offer, legs, sent>>
        PROVE  [Promise!Next]_(Promise!vars)
    BY <2>4, ConsentIsAnswered DEF RelayedSendCancel, Refusals
  <2>5. ASSUME NEW h \in Handles,
               \/ Render(h)
               \/ \E verdict \in {"approved", "declined"} : Decide(h, verdict)
               \/ Expire(h)
        PROVE  [Promise!Next]_(Promise!vars)
    BY <2>5, ConsentIsAnswered DEF Render, Decide, Expire, Undecided, Refusals
  <2> QED
    BY <2>1, <2>2, <2>3, <2>4, <2>5
    DEF vars, keystore, Next, Drive, Calls, Keystore, FetchAnswers, FetchFails, Ack,
        StatusAnswers, StatusFails, Restart
<1> QED
  BY <1>1, <1>2, RelayedSendInvariant, PTL DEF Spec, KeepsPromise, Promise!Spec

-----------------------------------------------------------------------------
(***************************************************************************)
(* How far ApprovalIsNotWasted fails.  An approval whose signatures were   *)
(* not fetched is never wasted, and one whose signatures were fetched only *)
(* if the call to the bundler failed or its reply was lost.  A second      *)
(* invariant, over the first: what became of the requests whose signatures *)
(* were fetched.                                                           *)
(***************************************************************************)
TakenIsAnswered ==
  \A h \in taken :
    /\ offer[h] = "approved" /\ jobs[h] = None
    /\ h \in lost \/ driven = h \/ told[h] \in {"mismatch", "error", "done"}

DeclinedIsRefused == \A h \in Handles : told[h] = "declined" => offer[h] \in Refusals

TInv == TakenIsAnswered /\ DeclinedIsRefused

WastedOnlyByTheBundler ==
  \A h \in Handles :
    /\ offer[h] = "approved"
    /\ told[h] \notin {"nothing", "cancelled", "mismatch"}
    /\ h \notin wiped \cup lost
    /\ sent[h] = <<>>
    => jobs[h] # None \/ driven = h \/ (h \in taken /\ told[h] = "error")

\* Nobody's request is touched but one that is not fetched and not driven.
LEMMA UndecidedKeepsTInv ==
  ASSUME IInv, TInv, NEW h \in Handles, offer[h] \in {"none"} \cup Undecided,
         NEW outcome \in Undecided \cup {"approved"} \cup Refusals,
         offer' = [offer EXCEPT ![h] = outcome] \/ offer' = offer,
         UNCHANGED <<driven, taken, lost>>,
         \A r \in Handles : r # h => jobs'[r] = jobs[r] /\ told'[r] = told[r],
         told'[h] # "declined" \/ told'[h] = told[h]
  PROVE  TInv'
<1>1. h \notin taken /\ told[h] # "declined"
  BY DEF TInv, TakenIsAnswered, DeclinedIsRefused, Undecided, Refusals
<1>2. \A r \in Handles : r # h => offer'[r] = offer[r]
  BY DEF IInv, TypeOK
<1>3. taken \subseteq Handles
  BY DEF IInv, TypeOK
<1> QED
  BY <1>1, <1>2, <1>3 DEF TInv, TakenIsAnswered, DeclinedIsRefused

LEMMA NextKeepsTInv ==
  ASSUME IInv, TInv, [Next]_vars
  PROVE  TInv'
<1>1. CASE UNCHANGED vars
  BY <1>1 DEF vars, keystore, call, TInv, TakenIsAnswered, DeclinedIsRefused
<1>2. ASSUME NEW asked \in Asks, at = "fetch", NEW signatures, FetchAnswers(signatures, asked)
      PROVE  TInv'
  <2>1. driven \in Handles /\ offer[driven] = "approved"
    BY <1>2, RelayedSendAssumption DEF IInv, TypeOK, DrivenIsApproved
  <2>2. /\ offer' = offer /\ lost' = lost /\ taken' = taken \cup {driven}
        /\ jobs' = [jobs EXCEPT ![driven] = None]
        /\ \/ driven' = driven /\ told' = told
           \/ told' = [told EXCEPT ![driven] = "mismatch"]
    BY <1>2 DEF FetchAnswers, keystore
  <2>3. jobs'[driven] = None /\ \A r \in Handles : r # driven => jobs'[r] = jobs[r]
    BY <2>1, <2>2 DEF IInv, TypeOK
  <2>4. \/ driven' = driven /\ told' = told
        \/ /\ told'[driven] = "mismatch"
           /\ \A r \in Handles : r # driven => told'[r] = told[r]
    BY <2>1, <2>2 DEF IInv, TypeOK
  <2>5. taken \subseteq Handles
    BY DEF IInv, TypeOK
  <2> QED
    BY <2>1, <2>2, <2>3, <2>4, <2>5 DEF TInv, TakenIsAnswered, DeclinedIsRefused
<1>3. CASE FetchFails
  <2>1. driven \in Handles /\ driven \notin taken
    BY <1>3, RelayedSendAssumption
    DEF FetchFails, IInv, TypeOK, DrivenIsApproved, TInv, TakenIsAnswered
  <2>2. told'[driven] = "error" /\ \A r \in Handles : r # driven => told'[r] = told[r]
    BY <1>3, <2>1 DEF FetchFails, IInv, TypeOK
  <2>3. taken \subseteq Handles
    BY DEF IInv, TypeOK
  <2> QED
    BY <1>3, <2>1, <2>2, <2>3 DEF FetchFails, keystore, TInv, TakenIsAnswered, DeclinedIsRefused
<1>4. ASSUME NEW accepted \in BOOLEAN, NEW replied \in BOOLEAN, Submit(accepted, replied)
      PROVE  TInv'
  <2>1. driven \in Handles
    BY <1>4 DEF Submit, IInv, TypeOK
  <2>2. /\ UNCHANGED <<offer, jobs, taken, lost>>
        /\ \/ driven' = driven /\ told' = told
           \/ told' = [told EXCEPT ![driven] = "error"]
    BY <1>4 DEF Submit, keystore
  <2>3. \/ driven' = driven /\ told' = told
        \/ /\ told'[driven] = "error"
           /\ \A r \in Handles : r # driven => told'[r] = told[r]
    BY <2>1, <2>2 DEF IInv, TypeOK
  <2>4. taken \subseteq Handles
    BY DEF IInv, TypeOK
  <2> QED
    BY <2>1, <2>2, <2>3, <2>4 DEF TInv, TakenIsAnswered, DeclinedIsRefused
<1>5. ASSUME NEW heard \in BOOLEAN, Ack(heard)
      PROVE  TInv'
  <2>1. driven \in Handles
    BY <1>5 DEF Ack, IInv, TypeOK
  <2>2. /\ UNCHANGED <<offer, jobs, taken, lost>>
        /\ told'[driven] = "done"
        /\ \A r \in Handles : r # driven => told'[r] = told[r]
    BY <1>5, <2>1 DEF Ack, IInv, TypeOK
  <2>3. taken \subseteq Handles
    BY DEF IInv, TypeOK
  <2> QED
    BY <2>1, <2>2, <2>3 DEF TInv, TakenIsAnswered, DeclinedIsRefused
<1>6. ASSUME NEW h \in Handles, NEW asked \in Asks, NEW replied \in BOOLEAN,
             RelayedSend(h, asked, replied)
      PROVE  TInv'
  <2>1. /\ offer[h] = "none" /\ offer' = [offer EXCEPT ![h] = "offered"]
        /\ UNCHANGED <<driven, taken, lost>>
        /\ jobs' = [jobs EXCEPT ![h] = asked] \/ jobs' = jobs
        /\ told' = [told EXCEPT ![h] = "pending"] \/ told' = told
    BY <1>6 DEF RelayedSend, call
  <2>2. /\ \A r \in Handles : r # h => jobs'[r] = jobs[r] /\ told'[r] = told[r]
        /\ told'[h] # "declined" \/ told'[h] = told[h]
    BY <2>1 DEF IInv, TypeOK
  <2> QED
    BY <2>1, <2>2, UndecidedKeepsTInv DEF Undecided
\* A call on a parked job: its signatures were not fetched.
<1>7. ASSUME NEW h \in Handles, jobs[h] # None, UNCHANGED <<offer, taken, lost>>, driven = None,
             \A r \in Handles : r # h => jobs'[r] = jobs[r] /\ told'[r] = told[r],
             told'[h] = "declined" => offer[h] \in Refusals \/ told[h] = "declined"
      PROVE  TInv'
  <2>1. h \notin taken /\ taken \subseteq Handles /\ None \notin Handles
    BY <1>7, RelayedSendAssumption DEF TInv, TakenIsAnswered, IInv, TypeOK
  <2> QED
    BY <1>7, <2>1 DEF TInv, TakenIsAnswered, DeclinedIsRefused
<1>8. ASSUME NEW h \in Handles, StatusAnswers(h) \/ StatusFails(h)
      PROVE  TInv'
  <2>1. driven = None /\ jobs[h] # None /\ UNCHANGED <<offer, taken, lost>>
    BY <1>8 DEF StatusAnswers, StatusFails, keystore, IInv, TypeOK
  <2>2. \A r \in Handles : r # h => jobs'[r] = jobs[r] /\ told'[r] = told[r]
    BY <1>8 DEF StatusAnswers, StatusFails, IInv, TypeOK
  <2>3. told'[h] = "declined" => offer[h] \in Refusals \/ told[h] = "declined"
    BY <1>8 DEF StatusAnswers, StatusFails, IInv, TypeOK
  <2> QED
    BY <1>7, <2>1, <2>2, <2>3
<1>9. ASSUME NEW h \in Handles, NEW heard \in BOOLEAN, RelayedSendCancel(h, heard)
      PROVE  TInv'
  <2>1. /\ driven = None /\ jobs[h] # None /\ UNCHANGED <<driven, taken, lost>>
        /\ \A r \in Handles : r # h => jobs'[r] = jobs[r] /\ told'[r] = told[r]
        /\ told'[h] = "cancelled"
    BY <1>9 DEF RelayedSendCancel, call, IInv, TypeOK
  <2>2. CASE offer' = offer
    BY <1>7, <2>1, <2>2
  <2>3. CASE offer[h] \in Undecided /\ offer' = [offer EXCEPT ![h] = "cancelled"]
    BY <2>1, <2>3, UndecidedKeepsTInv DEF Refusals
  <2> QED
    BY <1>9, <2>2, <2>3 DEF RelayedSendCancel
<1>10. CASE Restart
  <2>1. /\ UNCHANGED <<offer, told, taken>>
        /\ \A h \in Handles : jobs'[h] = None
        /\ \A h \in Handles : driven = h \/ h \in lost => h \in lost'
    BY <1>10 DEF Restart, keystore
  <2>2. taken \subseteq Handles
    BY DEF IInv, TypeOK
  <2> QED
    BY <2>1, <2>2 DEF TInv, TakenIsAnswered, DeclinedIsRefused
<1>11. ASSUME NEW h \in Handles,
              \/ Render(h)
              \/ \E verdict \in {"approved", "declined"} : Decide(h, verdict)
              \/ Expire(h)
       PROVE  TInv'
  <2>1. PICK outcome \in {"rendered", "approved", "declined", "expired"} :
          offer[h] \in Undecided /\ offer' = [offer EXCEPT ![h] = outcome]
    BY <1>11 DEF Render, Decide, Expire, Undecided
  <2>2. UNCHANGED <<jobs, told, driven, taken, lost>>
    BY <1>11 DEF Render, Decide, Expire, call
  <2> QED
    BY <2>1, <2>2, UndecidedKeepsTInv DEF Undecided, Refusals
<1> QED
  BY <1>1, <1>2, <1>3, <1>4, <1>5, <1>6, <1>8, <1>9, <1>10, <1>11
  DEF Next, Drive, Calls, Keystore

(***************************************************************************)
(* The finding of approval_wasted has one cause: an approval that is kept, *)
(* not submitted and cannot be polled is one whose call to the bundler     *)
(* failed after its signatures were fetched (drive_relayed_send).          *)
(***************************************************************************)
THEOREM OnlyTheBundlerWastesApprovals == Spec => []WastedOnlyByTheBundler
<1>1. Init => TInv
  BY DEF Init, TInv, TakenIsAnswered, DeclinedIsRefused
<1>2. IInv /\ TInv /\ [Next]_vars => TInv'
  BY NextKeepsTInv
<1>3. IInv /\ TInv => WastedOnlyByTheBundler
  <2> SUFFICES ASSUME IInv, TInv, NEW h \in Handles,
                      offer[h] = "approved", told[h] \notin {"nothing", "cancelled", "mismatch"},
                      h \notin wiped \cup lost, sent[h] = <<>>
               PROVE  jobs[h] # None \/ driven = h \/ (h \in taken /\ told[h] = "error")
    BY DEF WastedOnlyByTheBundler
  <2>1. told[h] \notin {"declined", "done"}
    BY DEF TInv, DeclinedIsRefused, Refusals, IInv, DoneIsSubmitted
  <2>2. CASE h \in taken
    BY <2>1, <2>2 DEF TInv, TakenIsAnswered
  <2>3. CASE h \notin taken
    BY <2>1, <2>3 DEF IInv, StillPollable
  <2> QED
    BY <2>2, <2>3
<1> QED
  BY <1>1, <1>2, <1>3, RelayedSendInvariant, PTL DEF Spec

-----------------------------------------------------------------------------
(***************************************************************************)
(* Why no job is parked for ever: a request has so far to go, no step of   *)
(* anybody's takes it back, a job that left the map is never parked again, *)
(* and each thing the fairness of EveryJobEnds promises takes it further.  *)
(* An approved request is at one from its end until its signatures are     *)
(* fetched, however often that fails.                                      *)
(***************************************************************************)
Far(job, state) ==
  IF job = None THEN 0
  ELSE CASE state = "offered" -> 3
         [] state = "rendered" -> 2
         [] state \in {"approved"} \cup Refusals -> 1

\* The steps that bring h nearer to its end.
Advances(h) ==
  \/ offer[h] \in Undecided /\ offer'[h] # offer[h]
  \/ StatusAnswers(h) /\ offer[h] \in Refusals
  \/ at = "fetch" /\ driven = h /\
       \E asked \in Asks : \E signatures \in Answers(legs[driven]) : FetchAnswers(signatures, asked)

JobsGoForward ==
  [][\A h \in Handles : offer[h] # "none" =>
       /\ Far(jobs[h], offer[h]) \in 0 .. 3
       /\ Far(jobs[h], offer[h])' <= Far(jobs[h], offer[h])
       /\ (jobs[h] # None /\ Advances(h)) => Far(jobs[h], offer[h])' < Far(jobs[h], offer[h])]_vars

LEMMA FarIs ==
  ASSUME NEW job
  PROVE  /\ job = None => \A state : Far(job, state) = 0
         /\ job # None => /\ Far(job, "offered") = 3 /\ Far(job, "rendered") = 2
                          /\ \A state \in {"approved"} \cup Refusals : Far(job, state) = 1
<1>1. job # None => Far(job, "offered") = 3 /\ Far(job, "rendered") = 2
  BY DEF Far, Refusals
<1>2. job # None => \A state \in {"approved"} \cup Refusals : Far(job, state) = 1
  BY DEF Far, Refusals
<1> QED
  BY <1>1, <1>2 DEF Far

\* What one step can do to a request that was offered.
LEMMA RequestsGo ==
  ASSUME IInv, Next, NEW h \in Handles, offer[h] # "none"
  PROVE  /\ jobs'[h] = jobs[h] \/ jobs'[h] = None
         /\ \/ offer'[h] = offer[h]
            \/ offer[h] = "offered" /\ offer'[h] = "rendered"
            \/ offer[h] \in Undecided /\ offer'[h] \in {"approved"} \cup Refusals
<1> DEFINE Goes == /\ jobs'[h] = jobs[h] \/ jobs'[h] = None
                   /\ \/ offer'[h] = offer[h]
                      \/ offer[h] = "offered" /\ offer'[h] = "rendered"
                      \/ offer[h] \in Undecided /\ offer'[h] \in {"approved"} \cup Refusals
<1>1. ASSUME NEW asked \in Asks, NEW signatures, FetchAnswers(signatures, asked)
      PROVE  Goes
  BY <1>1 DEF FetchAnswers, keystore, IInv, TypeOK
<1>2. ASSUME FetchFails
             \/ (\E accepted, replied \in BOOLEAN : Submit(accepted, replied))
             \/ (\E heard \in BOOLEAN : Ack(heard))
      PROVE  Goes
  BY <1>2 DEF FetchFails, Submit, Ack, keystore
<1>3. ASSUME NEW r \in Handles,
             \/ \E asked \in Asks, replied \in BOOLEAN : RelayedSend(r, asked, replied)
             \/ StatusAnswers(r)
             \/ StatusFails(r)
      PROVE  Goes
  BY <1>3 DEF RelayedSend, StatusAnswers, StatusFails, keystore, IInv, TypeOK
<1>4. ASSUME NEW r \in Handles, NEW heard \in BOOLEAN, RelayedSendCancel(r, heard)
      PROVE  Goes
  BY <1>4 DEF RelayedSendCancel, Refusals, IInv, TypeOK
<1>5. ASSUME NEW r \in Handles,
             \/ Render(r)
             \/ \E verdict \in {"approved", "declined"} : Decide(r, verdict)
             \/ Expire(r)
      PROVE  Goes
  BY <1>5 DEF Render, Decide, Expire, Undecided, Refusals, IInv, TypeOK
<1>6. CASE Restart
  BY <1>6 DEF Restart, keystore
<1> QED
  BY <1>1, <1>2, <1>3, <1>4, <1>5, <1>6 DEF Next, Drive, Calls, Keystore

(***************************************************************************)
(* A job never comes back and a request never goes back: with the fairness *)
(* of FairSpec, why EveryJobEnds holds (drive_relayed_send).               *)
(***************************************************************************)
THEOREM JobsOnlyGoForward == Spec => JobsGoForward
<1> DEFINE Nearer(h) == /\ Far(jobs[h], offer[h]) \in 0 .. 3
                        /\ Far(jobs[h], offer[h])' <= Far(jobs[h], offer[h])
                        /\ (jobs[h] # None /\ Advances(h)) =>
                             Far(jobs[h], offer[h])' < Far(jobs[h], offer[h])
<1>1. IInv /\ [Next]_vars => [\A h \in Handles : offer[h] # "none" => Nearer(h)]_vars
  <2> SUFFICES ASSUME IInv, Next, NEW h \in Handles, offer[h] # "none"
               PROVE  Nearer(h)
    OBVIOUS
  <2>1. offer[h] \in {"offered", "rendered", "approved"} \cup Refusals
    BY DEF IInv, TypeOK, Undecided
  <2>2. Far(jobs[h], offer[h])' = Far(jobs'[h], offer'[h])
    OBVIOUS
  <2>3. CASE jobs[h] = None
    <3>1. jobs'[h] = None
      BY <2>3, RequestsGo
    <3> QED
      BY <2>2, <2>3, <3>1, FarIs
  <2>4. CASE jobs[h] # None /\ jobs'[h] = None
    <3>1. Far(jobs[h], offer[h]) \in {1, 2, 3}
      BY <2>1, <2>4, FarIs
    <3>2. Far(jobs'[h], offer'[h]) = 0
      BY <2>4, FarIs
    <3> QED
      BY <2>2, <3>1, <3>2
  <2>5. CASE jobs[h] # None /\ jobs'[h] = jobs[h]
    <3>1. CASE offer'[h] = offer[h]
      <4>1. ~Advances(h)
        <5>1. ~(StatusAnswers(h) /\ offer[h] \in Refusals)
          BY <2>5 DEF StatusAnswers, Refusals, Undecided, IInv, TypeOK
        <5>2. ASSUME driven = h, NEW asked, NEW signatures, FetchAnswers(signatures, asked)
              PROVE  FALSE
          BY <2>5, <5>2 DEF FetchAnswers, IInv, TypeOK
        <5> QED
          BY <3>1, <5>1, <5>2 DEF Advances
      <4>2. Far(jobs[h], offer[h]) \in {1, 2, 3}
        BY <2>1, <2>5, FarIs
      <4>3. Far(jobs[h], offer[h])' = Far(jobs[h], offer[h])
        BY <2>2, <2>5, <3>1
      <4> HIDE DEF Far
      <4> QED
        BY <4>1, <4>2, <4>3
    <3>2. CASE offer[h] = "offered" /\ offer'[h] = "rendered"
      BY <2>2, <2>5, <3>2, FarIs
    <3>3. CASE offer[h] \in Undecided /\ offer'[h] \in {"approved"} \cup Refusals
      <4>1. Far(jobs[h], offer[h]) \in {2, 3}
        BY <2>5, <3>3, FarIs DEF Undecided
      <4>2. Far(jobs'[h], offer'[h]) = 1
        BY <2>5, <3>3, FarIs
      <4> QED
        BY <2>2, <4>1, <4>2
    <3> QED
      BY <3>1, <3>2, <3>3, RequestsGo
  <2> QED
    BY <2>3, <2>4, <2>5, RequestsGo
<1> QED
  BY <1>1, RelayedSendInvariant, PTL DEF Spec, JobsGoForward
=============================================================================
