------------------------------ MODULE SyncPlan ------------------------------
(***************************************************************************)
(* The arithmetic of one stepped sync: the Plan type of                    *)
(* rust-lib/src/sync.rs.  A plan is where a sync started, where it has got *)
(* to and where it is going; the three numbers decide which window the     *)
(* engine is asked for next and what the caller is told.  The struct's     *)
(* milliseconds feed nothing but the ETA and are left out.                 *)
(***************************************************************************)
EXTENDS Integers

CONSTANT MaxU64         \* the largest u64

ASSUME MaxU64Assumption == MaxU64 \in Nat

Lesser(a, b)  == IF a <= b THEN a ELSE b
Greater(a, b) == IF a <= b THEN b ELSE a

SaturatingAdd(a, b) == Lesser(a + b, MaxU64)
SaturatingSub(a, b) == Greater(a - b, 0)

U64 == 0 .. MaxU64

Plan == [start : U64, synced : U64, target : U64, fastForwardTo : U64]

\* What the plan's own operations keep true of it.
WellFormed(plan) ==
  /\ plan \in Plan
  /\ plan.start <= plan.synced
  /\ plan.synced <= plan.target
  /\ plan.start <= plan.fastForwardTo
  /\ plan.fastForwardTo <= plan.target

\* A plan from block `synced` to the chain head `head`; a head behind what is
\* already synced is a plan with nothing to do.
NewPlan(synced, head) ==
  [start |-> synced, synced |-> synced, target |-> Greater(head, synced),
   fastForwardTo |-> synced]

\* A bug: the frontier is taken as subsquid gives it, past the target too.
WithFastForwardUnclamped(plan, block) ==
  [plan EXCEPT !.fastForwardTo = Greater(block, plan.synced)]

\* Everything up to `block`, the subsquid frontier, becomes one window.
WithFastForward(plan, block) ==
  [plan EXCEPT !.fastForwardTo = Lesser(Greater(block, plan.synced), plan.target)]

Done(plan) == plan.synced >= plan.target

\* Bugs: the sum wraps; the target does not stop a window; the subsquid half is
\* cut up like the rest.
NextWindowEndWrapping(plan, blocks) ==
  IF plan.synced < plan.fastForwardTo
    THEN plan.fastForwardTo
    ELSE Lesser((plan.synced + Greater(blocks, 1)) % (MaxU64 + 1), plan.target)

NextWindowEndPastTarget(plan, blocks) ==
  IF plan.synced < plan.fastForwardTo
    THEN plan.fastForwardTo
    ELSE SaturatingAdd(plan.synced, Greater(blocks, 1))

NextWindowEndUniform(plan, blocks) ==
  Lesser(SaturatingAdd(plan.synced, Greater(blocks, 1)), plan.target)

\* The block one more window reaches; read only while the plan is not done.
NextWindowEnd(plan, blocks) ==
  IF plan.synced < plan.fastForwardTo
    THEN plan.fastForwardTo
    ELSE Lesser(SaturatingAdd(plan.synced, Greater(blocks, 1)), plan.target)

\* Bugs: the record may move backwards; it may pass the target.
RecordBackwards(plan, reached) ==
  [plan EXCEPT !.synced = Greater(Lesser(reached, plan.target), plan.start)]

RecordPastTarget(plan, reached) ==
  [plan EXCEPT !.synced = Greater(plan.synced, reached)]

\* A window completed and the engine's own record now says `reached`.
Record(plan, reached) ==
  [plan EXCEPT !.synced = Lesser(Greater(plan.synced, reached), plan.target)]

BlocksTotal(plan)     == SaturatingSub(plan.target, plan.start)
BlocksDone(plan)      == SaturatingSub(plan.synced, plan.start)
BlocksRemaining(plan) == SaturatingSub(plan.target, plan.synced)

\* A bug: the product is taken in 64 bits.
PercentIn64Bits(plan) ==
  IF BlocksTotal(plan) = 0
    THEN 100
    ELSE ((BlocksDone(plan) * 100) % (MaxU64 + 1)) \div BlocksTotal(plan)

\* 0 to 100; a plan with nothing to do is complete, not a division by zero.
Percent(plan) ==
  IF BlocksTotal(plan) = 0
    THEN 100
    ELSE (BlocksDone(plan) * 100) \div BlocksTotal(plan)
=============================================================================
