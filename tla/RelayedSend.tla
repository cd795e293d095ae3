---------------------------- MODULE RelayedSend ----------------------------
(***************************************************************************)
(* The relayed send of railgun_module: relayed_send, relayed_send_status   *)
(* and relayed_send_cancel of glue.rs over the signing seam of relay.rs,   *)
(* with the keystore's approval queue, the human who decides and the       *)
(* bundler as the environment.                                             *)
(*                                                                         *)
(* The module answers one call at a time, but a relayed_send_status makes  *)
(* up to four calls of its own, and the keystore, the human and a crash    *)
(* come between them: the call is one action per reply it waits for.       *)
(*                                                                         *)
(* Simplifications.  A request's receipt travels with its handle and is    *)
(* not modelled apart.  A prepared operation is what `sign` asks for, and  *)
(* what the second pass asks for is any member of Asks, so that the digest *)
(* comparison has something to refuse.  A call refused before it changes   *)
(* anything (bad parameters, no engine, an unknown request) is a           *)
(* stuttering step.                                                        *)
(***************************************************************************)
EXTENDS RelaySigning, FiniteSets

CONSTANTS
  Handles,   \* bound: the request handles the keystore gives out
  Asks,      \* the digest lists a prepared operation may ask signatures for
  None

\* A signed operation: what it asked for, and the signatures it was given.
Submission == [op : Asks, signatures : Seq(Digest \cup {Garbled})]

ASSUME RelayedSendAssumption ==
  /\ Asks \subseteq Seq(Digest)
  /\ None \notin Handles
  /\ None \notin Seq(Digest)
  /\ None \notin Submission

VARIABLES
  offer,     \* keystore: offer[h], the state of the request and its outcome
  legs,      \* keystore: legs[h], the digests the human is shown, or None
  wiped,     \* keystore: the requests whose signatures were acknowledged
  jobs,      \* the parked sends: jobs[h] is the job's digests, or None
  at,        \* the reply the running relayed_send_status waits for
  driven,    \* the request it drives, or None
  signed,    \* the signed operation it is about to submit, or None
  sent,      \* bundler: sent[h], what was accepted for request h, in order
  told,      \* history: told[h], the last thing the caller knows of h
  taken,     \* history: the requests whose signatures were fetched
  lost       \* history: the requests a restart has made unknown

keystore == <<offer, legs, wiped>>
call == <<at, driven, signed>>
vars == <<keystore, jobs, call, sent, told, taken, lost>>

Undecided == {"offered", "rendered"}
Refusals == {"declined", "expired", "cancelled"}

-----------------------------------------------------------------------------
Init ==
  /\ offer = [h \in Handles |-> "none"]
  /\ legs = [h \in Handles |-> None]
  /\ wiped = {}
  /\ jobs = [h \in Handles |-> None]
  /\ at = "idle"
  /\ driven = None
  /\ signed = None
  /\ sent = [h \in Handles |-> <<>>]
  /\ told = [h \in Handles |-> "nothing"]
  /\ taken = {}
  /\ lost = {}

CallEnds ==
  /\ at' = "idle"
  /\ driven' = None
  /\ signed' = None

\* request_relayed_send: the operation is prepared, its digests captured and
\* lodged as the legs of an approval request.  The keystore has the request
\* even if its reply is lost; then no job is kept.
RelayedSend(h, asked, replied) ==
  /\ at = "idle"
  /\ offer[h] = "none"
  /\ Captured(asked)
  /\ RelayIntent(asked)
  /\ offer' = [offer EXCEPT ![h] = "offered"]
  /\ legs' = [legs EXCEPT ![h] = asked]
  /\ jobs' = IF replied THEN [jobs EXCEPT ![h] = asked] ELSE jobs
  /\ told' = IF replied THEN [told EXCEPT ![h] = "pending"] ELSE told
  /\ UNCHANGED <<wiped, call, sent, taken, lost>>

\* A bug: a refusal is reported and its job left where it is.
StatusAnswersKeepingRefused(h) ==
  /\ at = "idle"
  /\ jobs[h] # None
  /\ \/ /\ offer[h] \in Undecided
        /\ told' = [told EXCEPT ![h] = "awaiting"]
        /\ UNCHANGED <<at, driven>>
     \/ /\ offer[h] \in Refusals
        /\ told' = [told EXCEPT ![h] = "declined"]
        /\ UNCHANGED <<at, driven>>
     \/ /\ offer[h] = "approved"
        /\ at' = "fetch"
        /\ driven' = h
        /\ UNCHANGED told
  /\ UNCHANGED <<keystore, jobs, signed, sent, taken, lost>>

\* relayed_send_status, first reply: approval_status.  Undecided is an answer,
\* a refusal ends the job, an approval is gone on with.
StatusAnswers(h) ==
  /\ at = "idle"
  /\ jobs[h] # None
  /\ \/ /\ offer[h] \in Undecided
        /\ told' = [told EXCEPT ![h] = "awaiting"]
        /\ UNCHANGED <<jobs, at, driven>>
     \/ /\ offer[h] \in Refusals
        /\ jobs' = [jobs EXCEPT ![h] = None]
        /\ told' = [told EXCEPT ![h] = "declined"]
        /\ UNCHANGED <<at, driven>>
     \/ /\ offer[h] = "approved"
        /\ at' = "fetch"
        /\ driven' = h
        /\ UNCHANGED <<jobs, told>>
  /\ UNCHANGED <<keystore, signed, sent, taken, lost>>

\* approval_status did not answer: the caller is told so, the job stays.
StatusFails(h) ==
  /\ at = "idle"
  /\ jobs[h] # None
  /\ told' = [told EXCEPT ![h] = "error"]
  /\ UNCHANGED <<keystore, jobs, call, sent, taken, lost>>

\* What fetch_result may answer for legs d: the signatures, one missing, or
\* one that cannot be read.
Answers(d) ==
  {d, SubSeq(d, 1, Len(d) - 1), [d EXCEPT ![1] = Garbled]}

\* A bug: the job is kept until the operation is submitted.
FetchAnswersKeepingJob(signatures, asked) ==
  /\ at = "fetch"
  /\ taken' = taken \cup {driven}
  /\ \/ /\ ApplySignatures(jobs[driven], signatures, asked)
        /\ at' = "submit"
        /\ signed' = [op |-> asked, signatures |-> signatures]
        /\ UNCHANGED <<driven, told>>
     \/ /\ ~ApplySignatures(jobs[driven], signatures, asked)
        /\ told' = [told EXCEPT ![driven] = "mismatch"]
        /\ CallEnds
  /\ UNCHANGED <<keystore, jobs, sent, lost>>

\* Second reply: fetch_result.  The job leaves the map, the second pass of
\* `sign` asks for `asked`, and the signatures are applied or refused.
FetchAnswers(signatures, asked) ==
  /\ at = "fetch"
  /\ jobs' = [jobs EXCEPT ![driven] = None]
  /\ taken' = taken \cup {driven}
  /\ \/ /\ ApplySignatures(jobs[driven], signatures, asked)
        /\ at' = "submit"
        /\ signed' = [op |-> asked, signatures |-> signatures]
        /\ UNCHANGED <<driven, told>>
     \/ /\ ~ApplySignatures(jobs[driven], signatures, asked)
        /\ told' = [told EXCEPT ![driven] = "mismatch"]
        /\ CallEnds
  /\ UNCHANGED <<keystore, sent, lost>>

\* A bug: a poll that gets no signatures gives the job up.
FetchFailsForGood ==
  /\ at = "fetch"
  /\ jobs' = [jobs EXCEPT ![driven] = None]
  /\ told' = [told EXCEPT ![driven] = "error"]
  /\ CallEnds
  /\ UNCHANGED <<keystore, sent, taken, lost>>

\* fetch_result did not answer: the job stays.
FetchFails ==
  /\ at = "fetch"
  /\ told' = [told EXCEPT ![driven] = "error"]
  /\ CallEnds
  /\ UNCHANGED <<keystore, jobs, sent, taken, lost>>

\* A bug: a refusal of the bundler's is taken for its answer.
SubmitUnread(accepted, replied) ==
  /\ at = "submit"
  /\ sent' = IF accepted
               THEN [sent EXCEPT ![driven] = Append(@, signed)]
               ELSE sent
  /\ \/ /\ replied
        /\ at' = "ack"
        /\ signed' = None
        /\ UNCHANGED <<driven, told>>
     \/ /\ ~replied
        /\ told' = [told EXCEPT ![driven] = "error"]
        /\ CallEnds
  /\ UNCHANGED <<keystore, jobs, taken, lost>>

\* Third reply: eth_sendUserOperation.  The bundler may accept the operation
\* and the reply still be lost; a refusal and a lost reply end the call alike.
Submit(accepted, replied) ==
  /\ at = "submit"
  /\ sent' = IF accepted
               THEN [sent EXCEPT ![driven] = Append(@, signed)]
               ELSE sent
  /\ \/ /\ accepted /\ replied
        /\ at' = "ack"
        /\ signed' = None
        /\ UNCHANGED <<driven, told>>
     \/ /\ ~(accepted /\ replied)
        /\ told' = [told EXCEPT ![driven] = "error"]
        /\ CallEnds
  /\ UNCHANGED <<keystore, jobs, taken, lost>>

\* Last call: ack_result, whose outcome nobody looks at.
Ack(heard) ==
  /\ at = "ack"
  /\ wiped' = IF heard THEN wiped \cup {driven} ELSE wiped
  /\ told' = [told EXCEPT ![driven] = "done"]
  /\ CallEnds
  /\ UNCHANGED <<offer, legs, jobs, sent, taken, lost>>

\* A bug: the request is withdrawn and its job forgotten about, not removed.
RelayedSendCancelKeepingJob(h, heard) ==
  /\ at = "idle"
  /\ jobs[h] # None
  /\ offer' = IF heard /\ offer[h] \in Undecided
                THEN [offer EXCEPT ![h] = "cancelled"]
                ELSE offer
  /\ told' = [told EXCEPT ![h] = "cancelled"]
  /\ UNCHANGED <<legs, wiped, jobs, call, sent, taken, lost>>

\* relayed_send_cancel: the job is dropped, and the keystore told if it hears.
RelayedSendCancel(h, heard) ==
  /\ at = "idle"
  /\ jobs[h] # None
  /\ jobs' = [jobs EXCEPT ![h] = None]
  /\ offer' = IF heard /\ offer[h] \in Undecided
                THEN [offer EXCEPT ![h] = "cancelled"]
                ELSE offer
  /\ told' = [told EXCEPT ![h] = "cancelled"]
  /\ UNCHANGED <<legs, wiped, call, sent, taken, lost>>

\* The module's process dies: the jobs are held in memory only.
Restart ==
  /\ lost' = lost \cup {h \in Handles : jobs[h] # None \/ driven = h}
  /\ jobs' = [h \in Handles |-> None]
  /\ CallEnds
  /\ UNCHANGED <<keystore, sent, told, taken>>

-----------------------------------------------------------------------------
\* The keystore puts the request on the human's screen.
Render(h) ==
  /\ offer[h] = "offered"
  /\ offer' = [offer EXCEPT ![h] = "rendered"]
  /\ UNCHANGED <<legs, wiped, jobs, call, sent, told, taken, lost>>

\* The human approves all the legs at once, or declines.
Decide(h, verdict) ==
  /\ offer[h] = "rendered"
  /\ offer' = [offer EXCEPT ![h] = verdict]
  /\ UNCHANGED <<legs, wiped, jobs, call, sent, told, taken, lost>>

\* The keystore sweeps a request nobody has answered.
Expire(h) ==
  /\ offer[h] \in Undecided
  /\ offer' = [offer EXCEPT ![h] = "expired"]
  /\ UNCHANGED <<legs, wiped, jobs, call, sent, told, taken, lost>>

-----------------------------------------------------------------------------
Drive ==
  \/ \E asked \in Asks :
       at = "fetch" /\ \E signatures \in Answers(legs[driven]) : FetchAnswers(signatures, asked)
  \/ FetchFails
  \/ \E accepted, replied \in BOOLEAN : Submit(accepted, replied)
  \/ \E heard \in BOOLEAN : Ack(heard)

Calls ==
  \E h \in Handles :
    \/ \E asked \in Asks, replied \in BOOLEAN : RelayedSend(h, asked, replied)
    \/ StatusAnswers(h)
    \/ StatusFails(h)
    \/ \E heard \in BOOLEAN : RelayedSendCancel(h, heard)

Keystore ==
  \E h \in Handles :
    \/ Render(h)
    \/ \E verdict \in {"approved", "declined"} : Decide(h, verdict)
    \/ Expire(h)

Next == Drive \/ Calls \/ Keystore \/ Restart

Spec == Init /\ [][Next]_vars

(***************************************************************************)
(* What the liveness assumes: a running call is carried on by its thread;  *)
(* the keystore settles what it was offered (it sweeps what nobody         *)
(* answers); the caller polls, and a poll asked again and again is at some *)
(* time answered by the keystore.                                          *)
(***************************************************************************)
Fairness ==
  /\ WF_vars(Drive)
  /\ \A h \in Handles :
       /\ WF_vars(Expire(h))
       /\ SF_vars(StatusAnswers(h))
       /\ SF_vars(driven = h /\ \E asked \in Asks :
                    at = "fetch" /\ FetchAnswers(legs[h], asked))

FairSpec == Spec /\ Fairness

-----------------------------------------------------------------------------
\* The digest lists a human may be shown: not nothing, and no mystery to wave
\* through.
Showable == {d \in Asks : Len(d) \in 1 .. 2}

TypeOK ==
  /\ offer \in [Handles -> {"none", "approved"} \cup Undecided \cup Refusals]
  /\ legs \in [Handles -> Showable \cup {None}]
  /\ wiped \in SUBSET Handles
  /\ jobs \in [Handles -> Showable \cup {None}]
  /\ at \in {"idle", "fetch", "submit", "ack"}
  /\ driven \in Handles \cup {None}
  /\ at = "idle" <=> driven = None
  /\ signed \in Submission \cup {None}
  /\ at = "submit" <=> signed # None
  /\ sent \in [Handles -> Seq(Submission)]
  /\ told \in [Handles -> {"nothing", "pending", "awaiting", "error",
                           "mismatch", "declined", "cancelled", "done"}]
  /\ taken \in SUBSET Handles
  /\ lost \in SUBSET Handles

(***************************************************************************)
(* Either the bytes a human approved are the bytes in the submitted        *)
(* operation, or nothing is submitted: whatever reached the bundler was    *)
(* approved, asks for exactly the digests that were on the human's screen, *)
(* in their order, and carries for each the signature made over it - also  *)
(* when the operation changed between the two passes, when the keystore    *)
(* answered short or unreadably, and when two sends are parked at once     *)
(* (apply_signatures and its ReplaySigner).                                *)
(***************************************************************************)
SubmittedIsApproved ==
  \A h \in Handles : \A i \in DOMAIN sent[h] :
    /\ offer[h] = "approved"
    /\ sent[h][i].op = legs[h]
    /\ sent[h][i].signatures = legs[h]

(***************************************************************************)
(* No approval is submitted twice, however often the caller polls, also    *)
(* when the bundler accepted the operation and its reply was lost: the job *)
(* is out of the map before anything is submitted.                         *)
(***************************************************************************)
SubmittedOnce == \A h \in Handles : Len(sent[h]) <= 1

(***************************************************************************)
(* The keystore's copy of the signatures is wiped, and the caller told     *)
(* "done", only when the bundler has the operation: no error path leads to *)
(* ack_result.                                                             *)
(***************************************************************************)
DoneIsSubmitted ==
  \A h \in Handles : h \in wiped \/ told[h] = "done" => sent[h] # <<>>

(***************************************************************************)
(* A send the caller gave up on, or was told is declined, is never         *)
(* submitted afterwards - also when the keystore did not hear of the       *)
(* cancellation and the human approves it later.                           *)
(***************************************************************************)
GivenUpIsNeverSent ==
  [][\A h \in Handles : told[h] \in {"declined", "cancelled"} => sent'[h] = sent[h]]_vars

(***************************************************************************)
(* A failed poll costs nothing until the signatures are taken: a send the  *)
(* caller was told is pending, and has not seen declined or cancelled, is  *)
(* still parked with the digests the human was shown, unless its           *)
(* signatures were fetched or the process was restarted.                   *)
(***************************************************************************)
StillPollable ==
  \A h \in Handles :
    /\ told[h] \notin {"nothing", "declined", "cancelled"}
    /\ h \notin taken \cup lost
    => jobs[h] # None /\ jobs[h] = legs[h]

(***************************************************************************)
(* No job is parked for ever under a caller who polls it.                  *)
(***************************************************************************)
EveryJobEnds == \A h \in Handles : jobs[h] # None ~> jobs[h] = None

(***************************************************************************)
(* What the documentation says of relayed_send_status: it is safe to call  *)
(* repeatedly, and a dropped reply does not cost the human a second        *)
(* password entry.  So an approval whose signatures the keystore still     *)
(* keeps, and which has not been submitted, given up, refused for not      *)
(* being what was approved, or lost with the process, can still be polled. *)
(***************************************************************************)
ApprovalIsNotWasted ==
  \A h \in Handles :
    /\ offer[h] = "approved"
    /\ told[h] \notin {"nothing", "cancelled", "mismatch"}
    /\ h \notin wiped \cup lost
    /\ sent[h] = <<>>
    => jobs[h] # None \/ driven = h

-----------------------------------------------------------------------------
Consent(h) ==
  CASE offer[h] \in {"none"} \cup Undecided -> "open"
    [] offer[h] \in Refusals -> "refused"
    [] OTHER -> "given"

Promise == INSTANCE ApprovedOnce WITH
  Request <- Handles,
  Contents <- Asks,
  Nothing <- None,
  shown <- legs,
  consent <- [h \in Handles |-> Consent(h)],
  spent <- [h \in Handles |-> [i \in DOMAIN sent[h] |-> sent[h][i].op]]

(***************************************************************************)
(* The relayed send keeps the promise of ApprovedOnce: every step of the   *)
(* code, seen as what was shown, consented to and spent, is one of its     *)
(* steps or none.                                                          *)
(***************************************************************************)
KeepsPromise == Promise!Spec
=============================================================================
