--------------------------- MODULE SyncPlanLemmas ---------------------------
(***************************************************************************)
(* What the plan's arithmetic does for every u64: the lemmas the proofs    *)
(* about one plan and about a whole sync rest on.                          *)
(***************************************************************************)
EXTENDS SyncPlan, TLAPS

(***************************************************************************)
(* Plan::new makes a well-formed plan at the engine's block, whatever the  *)
(* node says the head is.                                                  *)
(***************************************************************************)
LEMMA NewPlanWellFormed ==
  ASSUME NEW synced \in U64, NEW latest \in U64
  PROVE  /\ WellFormed(NewPlan(synced, latest))
         /\ NewPlan(synced, latest).synced = synced
  BY MaxU64Assumption DEF WellFormed, NewPlan, Plan, U64, Greater

(***************************************************************************)
(* with_fast_forward accepts any block subsquid answers and moves nothing  *)
(* but the fast-forward block.                                             *)
(***************************************************************************)
LEMMA FastForwardWellFormed ==
  ASSUME NEW p, WellFormed(p), NEW block \in U64
  PROVE  /\ WellFormed(WithFastForward(p, block))
         /\ WithFastForward(p, block).synced = p.synced
  BY MaxU64Assumption DEF WellFormed, WithFastForward, Plan, U64, Greater, Lesser

(***************************************************************************)
(* record keeps the plan well formed, never moves it back, never past what *)
(* was reached, and leaves its start, target and fast-forward block alone. *)
(***************************************************************************)
LEMMA RecordMovesForward ==
  ASSUME NEW p, WellFormed(p), NEW reached \in U64
  PROVE  /\ WellFormed(Record(p, reached))
         /\ Record(p, reached).start = p.start
         /\ Record(p, reached).target = p.target
         /\ Record(p, reached).fastForwardTo = p.fastForwardTo
         /\ Record(p, reached).synced >= p.synced
         /\ \/ Record(p, reached).synced = p.synced
            \/ Record(p, reached).synced <= reached
  BY MaxU64Assumption DEF WellFormed, Record, Plan, U64, Greater, Lesser

(***************************************************************************)
(* next_window_end of a plan that is not done lies strictly past its       *)
(* position and not past its target, for every size a caller can pass.     *)
(***************************************************************************)
LEMMA NextWindowAdvances ==
  ASSUME NEW p, WellFormed(p), ~Done(p), NEW size \in U64
  PROVE  /\ NextWindowEnd(p, size) \in U64
         /\ NextWindowEnd(p, size) > p.synced
         /\ NextWindowEnd(p, size) <= p.target
  BY MaxU64Assumption
  DEF WellFormed, Done, NextWindowEnd, SaturatingAdd, Plan, U64, Greater, Lesser

-----------------------------------------------------------------------------
(***************************************************************************)
(* What an integer division answers, as the two bounds the percentage's    *)
(* proofs use, and the one fact about products they need.                  *)
(***************************************************************************)
LEMMA QuotientBounds ==
  ASSUME NEW a \in Nat, NEW t \in Nat, t > 0
  PROVE  /\ (a * 100) \div t \in Nat
         /\ t * ((a * 100) \div t) <= a * 100
         /\ a * 100 < t * ((a * 100) \div t) + t
  OBVIOUS

LEMMA ProductOrder ==
  ASSUME NEW t \in Nat, NEW x \in Nat, NEW y \in Nat, x <= y
  PROVE  t * x <= t * y
  OBVIOUS

(***************************************************************************)
(* A larger numerator has no smaller percentage.                           *)
(***************************************************************************)
LEMMA QuotientOrder ==
  ASSUME NEW a \in Nat, NEW b \in Nat, NEW t \in Nat, t > 0, a <= b
  PROVE  (a * 100) \div t <= (b * 100) \div t
<1> DEFINE q == (a * 100) \div t
           r == (b * 100) \div t
<1>1. /\ q \in Nat /\ r \in Nat
      /\ t * q <= a * 100
      /\ b * 100 < t * r + t
  BY QuotientBounds
<1> SUFFICES ASSUME r + 1 <= q PROVE FALSE
  BY <1>1
<1> HIDE DEF q, r
<1>2. t * (r + 1) <= t * q
  BY <1>1, ProductOrder
<1>3. t * (r + 1) = t * r + t
  BY <1>1
<1> QED
  BY <1>1, <1>2, <1>3

(***************************************************************************)
(* The percentage of part of a total: 100 for all of it and less for less. *)
(***************************************************************************)
LEMMA QuotientOfPart ==
  ASSUME NEW a \in Nat, NEW t \in Nat, t > 0, a <= t
  PROVE  /\ (a * 100) \div t \in 0 .. 100
         /\ (a * 100) \div t = 100 <=> a = t
<1> DEFINE q == (a * 100) \div t
<1>1. /\ q \in Nat
      /\ t * q <= a * 100
      /\ a * 100 < t * q + t
  BY QuotientBounds
<1> HIDE DEF q
<1>2. q >= 101 => t * 101 <= t * q
  BY <1>1, ProductOrder
<1>3. q >= 100 => t * 100 <= t * q
  BY <1>1, ProductOrder
<1>4. q <= 99 => t * q <= t * 99
  BY <1>1, ProductOrder
<1>5. q \in 0 .. 100
  BY <1>1, <1>2
<1>6. q = 100 <=> a = t
  BY <1>1, <1>3, <1>4, <1>5
<1> QED
  BY <1>5, <1>6 DEF q

(***************************************************************************)
(* The percentage of a well-formed plan is one, and 100 exactly when the   *)
(* plan is done.                                                           *)
(***************************************************************************)
LEMMA PercentOfPlan ==
  ASSUME NEW p, WellFormed(p)
  PROVE  /\ Percent(p) \in 0 .. 100
         /\ Percent(p) = 100 <=> p.synced = p.target
<1> DEFINE done == p.synced - p.start
           total == p.target - p.start
<1>1. /\ done \in Nat /\ total \in Nat /\ done <= total
      /\ done = total <=> p.synced = p.target
      /\ BlocksDone(p) = done
      /\ BlocksTotal(p) = total
  BY MaxU64Assumption
  DEF WellFormed, Plan, U64, BlocksDone, BlocksTotal, SaturatingSub, Greater
<1> HIDE DEF done, total
<1>2. CASE total = 0
  BY <1>1, <1>2 DEF Percent
<1>3. CASE total > 0
  BY <1>1, <1>3, QuotientOfPart DEF Percent
<1> QED
  BY <1>1, <1>2, <1>3

(***************************************************************************)
(* A plan that has got further between the same two blocks shows no        *)
(* smaller percentage.                                                     *)
(***************************************************************************)
LEMMA PercentOrder ==
  ASSUME NEW p, WellFormed(p), NEW q, WellFormed(q),
         q.start = p.start, q.target = p.target, q.synced >= p.synced
  PROVE  Percent(q) >= Percent(p)
<1> DEFINE total == p.target - p.start
           before == p.synced - p.start
           after == q.synced - p.start
<1>1. /\ total \in Nat /\ before \in Nat /\ after \in Nat /\ before <= after
      /\ BlocksTotal(p) = total /\ BlocksTotal(q) = total
      /\ BlocksDone(p) = before /\ BlocksDone(q) = after
  BY MaxU64Assumption
  DEF WellFormed, Plan, U64, BlocksDone, BlocksTotal, SaturatingSub, Greater
<1> HIDE DEF total, before, after
<1>2. CASE total = 0
  BY <1>1, <1>2 DEF Percent
<1>3. CASE total > 0
  <2>1. (before * 100) \div total <= (after * 100) \div total
    BY <1>1, <1>3, QuotientOrder
  <2>2. (before * 100) \div total \in Nat /\ (after * 100) \div total \in Nat
    BY <1>1, <1>3, QuotientBounds
  <2> QED
    BY <1>1, <1>3, <2>1, <2>2 DEF Percent
<1> QED
  BY <1>1, <1>2, <1>3
=============================================================================
