----------------------------- MODULE SteppedSync -----------------------------
(***************************************************************************)
(* The sync surface of railgun_module: init, sync, sync_step, sync_status  *)
(* and sync_cancel of glue.rs over the engine of engine.rs, the plan of    *)
(* sync.rs and the records the engine keeps on disk.                       *)
(*                                                                         *)
(* The module answers one call at a time on one thread, so the calls never *)
(* interleave with each other.  A sync_step is however a loop of windows,  *)
(* and the chain goes on, the node lags and the process dies between two   *)
(* of them: sync_step is one action to enter it and one per window.        *)
(*                                                                         *)
(* Simplifications.  Time is abstract: after any window the step's budget  *)
(* may be spent.  A call that fails before it changes anything (bad        *)
(* parameters, no persistence directory, an engine that does not build, a  *)
(* chain that does not answer eth_blockNumber) is a stuttering step.       *)
(* sync_status changes nothing: what it shows is the operator Shown.       *)
(***************************************************************************)
EXTENDS SyncPlan

CONSTANTS
  Chains,      \* the chains an engine can be initialised for
  Keys,        \* the wallets: railgun key pairs, one 0zk account each
  Windows,     \* the `blocks` parameters sync_step is called with
  MaxBlock,    \* bound: no chain grows past this block
  NoEngine, NoPlan, Idle,
  NoFrontier   \* subsquid does not answer

ASSUME SteppedSyncAssumption ==
  /\ MaxBlock \in U64
  /\ Windows \subseteq U64
  /\ Idle \notin U64
  /\ NoFrontier \notin U64
  /\ NoPlan \notin Plan
  /\ NoEngine \notin [chain : Chains, key : Keys]

\* An engine is built for one chain and registers one account.
Engine == [chain : Chains, key : Keys]

VARIABLES
  head,        \* head[c]: the newest block of chain c
  indexer,     \* indexer[c]: synced_block of the UTXO indexer's record on disk
  account,     \* account[e]: synced_block of the account's record on disk
  engine,      \* the engine held in memory, or NoEngine
  plan,        \* sync_plan: the plan held in memory, or NoPlan
  stepping,    \* the `blocks` of the sync_step being answered, or Idle
  turn,        \* windows the call has gone round, modulo 2: what tells a
               \* loop that goes on for ever from one that has ended
  owners,      \* history: the engines that have worked on the held plan
  promised     \* history: promised[e] is the furthest block a reply, given
               \* about a plan only e has worked on, said was synced

disk == <<indexer, account>>
vars == <<head, indexer, account, engine, plan, stepping, turn, owners, promised>>

-----------------------------------------------------------------------------
\* A bug: the account's own record is not looked at.
SyncedBlockOfIndexer(e) == indexer[e.chain]

\* How far engine e has synced: the account's record counts as much as the
\* indexer's, because an account registered late has seen less than the trees.
SyncedBlock(e) == Lesser(indexer[e.chain], account[e])

\* What reading the record answers: a record that cannot be read is block 0.
ReadSyncedBlock(e) == {SyncedBlock(e), 0}

\* A bug: the record is what this call reached, also when an earlier one got
\* further.
SyncToOverwriting(e, end, latest, saved) ==
  LET reached == Lesser(end, latest)
  IN  /\ indexer' = IF "indexer" \in saved THEN [indexer EXCEPT ![e.chain] = reached] ELSE indexer
      /\ account' = IF "account" \in saved THEN [account EXCEPT ![e] = reached] ELSE account

\* sync_to(end) as the engine performs it against a node that knows the chain
\* up to `latest`: it clamps to that block and saves both records.  `saved` says
\* which saves reached the disk: all when the call returns Ok, any part of them
\* when it fails or the process dies.
SyncTo(e, end, latest, saved) ==
  LET reached == Lesser(end, latest)
  IN  /\ indexer' = IF "indexer" \in saved
                      THEN [indexer EXCEPT ![e.chain] = Greater(@, reached)]
                      ELSE indexer
      /\ account' = IF "account" \in saved
                      THEN [account EXCEPT ![e] = Greater(@, reached)]
                      ELSE account

AllSaved == {"indexer", "account"}

\* A reply about the plan p goes to the caller.
Promise(p, workers) ==
  promised' = [e \in Engine |-> IF workers = {e}
                                  THEN Greater(promised[e], p.synced)
                                  ELSE promised[e]]

-----------------------------------------------------------------------------
Init ==
  /\ head \in [Chains -> 0 .. MaxBlock]
  /\ indexer = [c \in Chains |-> 0]
  /\ account = [e \in Engine |-> 0]
  /\ engine = NoEngine
  /\ plan = NoPlan
  /\ stepping = Idle
  /\ turn = 0
  /\ owners = {}
  /\ promised = [e \in Engine |-> 0]

\* init / init_from_seed: a new engine replaces the one held.  The plan is not
\* touched, whichever engine made it.
InitEngine(e) ==
  /\ stepping = Idle
  /\ engine' = e
  /\ UNCHANGED <<head, disk, plan, stepping, turn, owners, promised>>

\* sync: one call to the chain's head, which does not look at the plan.  It
\* fails with any part of its work saved.
Sync(latest, saved) ==
  /\ stepping = Idle
  /\ engine # NoEngine
  /\ SyncTo(engine, latest, latest, saved)
  /\ UNCHANGED <<head, engine, plan, stepping, turn, owners, promised>>

\* sync_step with no plan held: plan from the engine's record to the block the
\* node says is the head, with the subsquid half as one window if subsquid
\* answers.
OpenPlan(blocks, latest, frontier) ==
  /\ stepping = Idle
  /\ engine # NoEngine
  /\ plan = NoPlan
  /\ \E synced \in ReadSyncedBlock(engine) :
       plan' = LET fresh == NewPlan(synced, latest)
               IN  IF frontier = NoFrontier THEN fresh ELSE WithFastForward(fresh, frontier)
  /\ owners' = {engine}
  /\ stepping' = blocks
  /\ UNCHANGED <<head, disk, engine, turn, promised>>

\* A bug: the target follows the chain's head.
ResumePlanRetargeted(blocks) ==
  /\ stepping = Idle
  /\ engine # NoEngine
  /\ plan # NoPlan
  /\ plan' = [plan EXCEPT !.target = Greater(@, head[engine.chain])]
  /\ owners' = owners \cup {engine}
  /\ stepping' = blocks
  /\ UNCHANGED <<head, disk, engine, turn, promised>>

\* sync_step with a plan held: it is carried on, by whatever engine is there.
ResumePlan(blocks) ==
  /\ stepping = Idle
  /\ engine # NoEngine
  /\ plan # NoPlan
  /\ owners' = owners \cup {engine}
  /\ stepping' = blocks
  /\ UNCHANGED <<head, disk, engine, plan, turn, promised>>

\* A bug: the step goes round again although nothing moved.
AfterWindowSpinning ==
  /\ stepping' \in {stepping} \cup (IF plan'.synced > plan.synced THEN {Idle} ELSE {})
  /\ turn' = IF stepping' = Idle THEN 0 ELSE 1 - turn
  /\ IF stepping' = Idle THEN Promise(plan', owners) ELSE UNCHANGED promised

\* After a window the step returns if nothing moved (stalled) or its budget is
\* spent, and goes round again otherwise.
AfterWindow ==
  /\ \/ /\ plan'.synced <= plan.synced
        /\ stepping' = Idle
     \/ /\ plan'.synced > plan.synced
        /\ stepping' \in {stepping, Idle}
  /\ turn' = IF stepping' = Idle THEN 0 ELSE 1 - turn
  /\ IF stepping' = Idle THEN Promise(plan', owners) ELSE UNCHANGED promised

\* A bug: the window's end is recorded without asking what was reached.
WindowCompletesUnread(latest) ==
  /\ stepping # Idle
  /\ ~Done(plan)
  /\ UNCHANGED <<head, engine, owners>>
  /\ SyncTo(engine, NextWindowEnd(plan, stepping), latest, AllSaved)
  /\ plan' = Record(plan, NextWindowEnd(plan, stepping))
  /\ AfterWindow

\* One window returned Ok: the plan records what the engine's record, read
\* back, says was reached.
WindowCompletes(latest) ==
  /\ stepping # Idle
  /\ ~Done(plan)
  /\ UNCHANGED <<head, engine, owners>>
  /\ SyncTo(engine, NextWindowEnd(plan, stepping), latest, AllSaved)
  /\ \E reached \in ReadSyncedBlock(engine)' : plan' = Record(plan, reached)
  /\ AfterWindow

\* One window returned an error, whatever it had saved by then: the step says
\* so and the plan stays where it was.
WindowFails(latest, saved) ==
  /\ stepping # Idle
  /\ ~Done(plan)
  /\ stepping' = Idle
  /\ turn' = 0
  /\ UNCHANGED <<head, engine, plan, owners>>
  /\ SyncTo(engine, NextWindowEnd(plan, stepping), latest, saved)
  /\ Promise(plan, owners)

\* No window is left: the step returns.  The finished plan stays in its slot.
PlanIsDone ==
  /\ stepping # Idle
  /\ Done(plan)
  /\ stepping' = Idle
  /\ turn' = 0
  /\ Promise(plan, owners)
  /\ UNCHANGED <<head, disk, engine, plan, owners>>

\* sync_cancel: the plan is dropped and the reply says how far it had got.
SyncCancel ==
  /\ stepping = Idle
  /\ plan # NoPlan
  /\ plan' = NoPlan
  /\ owners' = {}
  /\ Promise(plan, owners)
  /\ UNCHANGED <<head, disk, engine, stepping, turn>>

\* The process dies, possibly inside a window with some of its saves made, and
\* is started again: the disk is all that is left.
Restart(latest, saved) ==
  /\ IF stepping # Idle /\ ~Done(plan)
       THEN SyncTo(engine, NextWindowEnd(plan, stepping), latest, saved)
       ELSE UNCHANGED disk
  /\ engine' = NoEngine
  /\ plan' = NoPlan
  /\ stepping' = Idle
  /\ turn' = 0
  /\ owners' = {}
  /\ UNCHANGED <<head, promised>>

Mine(c) ==
  /\ head[c] < MaxBlock
  /\ head' = [head EXCEPT ![c] = @ + 1]
  /\ UNCHANGED <<disk, engine, plan, stepping, turn, owners, promised>>

\* The blocks a node serving the engine's chain can say are its newest.
NodeHeads == IF engine = NoEngine THEN {0} ELSE 0 .. head[engine.chain]

Step ==
  \/ \E blocks \in Windows :
       \/ ResumePlan(blocks)
       \/ \E latest \in NodeHeads, frontier \in NodeHeads \cup {NoFrontier} :
            OpenPlan(blocks, latest, frontier)
  \/ \E latest \in NodeHeads :
       \/ WindowCompletes(latest)
       \/ \E saved \in SUBSET AllSaved : WindowFails(latest, saved)
  \/ PlanIsDone

Next ==
  \/ \E e \in Engine : InitEngine(e)
  \/ \E latest \in NodeHeads, saved \in SUBSET AllSaved : Sync(latest, saved)
  \/ Step
  \/ SyncCancel
  \/ \E latest \in NodeHeads, saved \in SUBSET AllSaved : Restart(latest, saved)
  \/ \E c \in Chains : Mine(c)

Spec == Init /\ [][Next]_vars

-----------------------------------------------------------------------------
\* A window against a node that knows the whole chain, its result read back.
GoodWindow ==
  /\ WindowCompletes(head[engine.chain])
  /\ plan'.synced = Record(plan, SyncedBlock(engine)').synced

\* The window under way comes to its end, one way or the other, or none is left.
WindowEnds ==
  /\ stepping # Idle
  /\ UNCHANGED <<head, engine>>
  /\ \/ \E latest \in NodeHeads :
          \/ WindowCompletes(latest)
          \/ \E saved \in SUBSET AllSaved : WindowFails(latest, saved)
     \/ PlanIsDone

(***************************************************************************)
(* A call being answered is carried on by its thread: each window comes to *)
(* an end.                                                                 *)
(***************************************************************************)
ModuleFairness == WF_vars(WindowEnds)

(***************************************************************************)
(* The caller calls sync_step until it is done, which is what the method   *)
(* asks for, and the node is not down for ever: a window that is asked for *)
(* again and again is at some time served to its end.                      *)
(***************************************************************************)
CallerFairness ==
  /\ WF_vars(\E blocks \in Windows : ResumePlan(blocks))
  /\ SF_vars(GoodWindow)

FairSpec == Spec /\ ModuleFairness

-----------------------------------------------------------------------------
TypeOK ==
  /\ head \in [Chains -> 0 .. MaxBlock]
  /\ indexer \in [Chains -> U64]
  /\ account \in [Engine -> U64]
  /\ engine \in Engine \cup {NoEngine}
  /\ plan # NoPlan => WellFormed(plan)
  /\ stepping \in Windows \cup {Idle}
  /\ turn \in {0, 1}
  /\ owners \in SUBSET Engine
  /\ promised \in [Engine -> U64]
  /\ stepping # Idle => engine # NoEngine /\ plan # NoPlan

(***************************************************************************)
(* No block is skipped: a plan only one engine has worked on never says it *)
(* is further than BOTH records of that engine, whatever windows failed,   *)
(* fell short or were interrupted after one of the two saves, and whichever*)
(* other wallet shares the chain's indexer record (sync_step, which reads  *)
(* back what the engine reached, and synced_block, which takes the         *)
(* minimum).                                                               *)
(***************************************************************************)
NothingSkipped ==
  \A e \in Engine :
    owners = {e} => /\ plan.synced <= indexer[e.chain]
                    /\ plan.synced <= account[e]

(***************************************************************************)
(* What a caller was told is synced stays synced: the block a step or a    *)
(* cancel reported (keptToBlock) is in both records of that engine ever    *)
(* after, across failed windows, restarts, other wallets' engines and      *)
(* whole syncs, so a later step or launch resumes from there.              *)
(***************************************************************************)
ProgressSurvives ==
  \A e \in Engine :
    /\ promised[e] <= indexer[e.chain]
    /\ promised[e] <= account[e]

(***************************************************************************)
(* The percentage cannot go backwards: while a plan is held, its start,    *)
(* its target and its fast-forward block are those of its first step       *)
(* whatever the chain does, its position only moves forward, and so does   *)
(* the rounded percentage a caller is shown.                               *)
(***************************************************************************)
PinnedPlan ==
  [][plan # NoPlan /\ plan' # NoPlan =>
       /\ plan'.start = plan.start
       /\ plan'.target = plan.target
       /\ plan'.fastForwardTo = plan.fastForwardTo
       /\ plan'.synced >= plan.synced
       /\ Percent(plan') >= Percent(plan)]_vars

(***************************************************************************)
(* A window does not run past the plan's pinned target, nor past its size: *)
(* until the subsquid half is done it stops there, and after that one      *)
(* window saves at most `blocks` blocks (one for a request of none) beyond *)
(* where the plan stood.  It is a bound on one window: a call of sync_step *)
(* goes round the loop and is not bounded by it (CallSyncsAtMostBlocks).   *)
(***************************************************************************)
WindowIsBounded ==
  [][stepping # Idle =>
       \A c \in Chains :
         indexer'[c] > indexer[c] =>
           /\ indexer'[c] <= plan.target
           /\ \/ indexer'[c] <= plan.fastForwardTo
              \/ indexer'[c] <= plan.synced + Greater(stepping, 1)]_vars

(***************************************************************************)
(* A step is never asked for nothing and never asked for too much: while   *)
(* the plan is not done the next window ends past where the plan stands    *)
(* and not past its target, for every `blocks` a caller can pass: 0, and   *)
(* sizes whose sum with the block overflows a u64.                         *)
(***************************************************************************)
WindowAdvances ==
  plan # NoPlan /\ ~Done(plan) =>
    \A size \in U64 : /\ NextWindowEnd(plan, size) > plan.synced
                      /\ NextWindowEnd(plan, size) <= plan.target

(***************************************************************************)
(* The percentage is one: 0 to 100, and 100 exactly when the plan is done, *)
(* the rounding of a long sync and the empty plan included.                *)
(***************************************************************************)
PercentIsHonest ==
  plan # NoPlan =>
    /\ Percent(plan) \in 0 .. 100
    /\ Percent(plan) = 100 <=> plan.synced = plan.target

CeilDiv(a, b) == (a + b - 1) \div b

\* What a plan should still cost, stepped with this size: one window for the
\* rest of the subsquid half, then the tail cut into pieces.
WindowsNeeded(p, blocks) ==
  (IF p.synced < p.fastForwardTo THEN 1 ELSE 0)
    + CeilDiv(p.target - Greater(p.synced, p.fastForwardTo), Greater(blocks, 1))

(***************************************************************************)
(* The subsquid half costs one window however long it is, and the tail no  *)
(* more than its blocks divided by the size: a window that gets to its end *)
(* leaves fewer to do, wherever the plan stood, and so no plan costs more  *)
(* windows that got there than it needed when it was made (what turned a   *)
(* cold sync of 469 windows into a handful).                               *)
(***************************************************************************)
FewWindows ==
  [][stepping # Idle /\ plan' # NoPlan /\ ~Done(plan)
       /\ plan'.synced >= NextWindowEnd(plan, stepping) =>
         WindowsNeeded(plan', stepping) < WindowsNeeded(plan, stepping)]_vars

\* What of this a caller of an opaque sync would see.
Opaque == INSTANCE OpaqueSync
  WITH Accounts <- Engine, seen <- [e \in Engine |-> SyncedBlock(e)], told <- promised

(***************************************************************************)
(* A stepped sync, with its plan, its windows, its two records saved one   *)
(* after the other and its restarts in the middle, is a sync as a caller   *)
(* knows it: what an account has seen of its chain only grows, it is never *)
(* more than the chain has, work on one chain leaves the accounts of       *)
(* others alone, and no reply is about a block the account has not seen    *)
(* ("nothing to roll back and nothing to corrupt", of a cancel between two *)
(* windows, sync.rs).                                                      *)
(***************************************************************************)
ImplementsOpaqueSync == Opaque!Spec

(***************************************************************************)
(* No call spins: a sync_step being answered returns, also against an      *)
(* engine that reports success and never passes the block it is at.        *)
(***************************************************************************)
StepReturns == stepping # Idle ~> stepping = Idle

(***************************************************************************)
(* A caller who keeps calling sync_step, with a node that is not down for  *)
(* ever, gets to the plan's target, unless the plan is cancelled or lost   *)
(* in a restart.                                                           *)
(***************************************************************************)
CallerFinishes ==
  CallerFairness => (plan # NoPlan ~> (plan = NoPlan \/ plan.synced = plan.target))

(***************************************************************************)
(* What the code's comment on sync_plan says: "None between syncs".        *)
(***************************************************************************)
NoPlanBetweenSyncs ==
  stepping = Idle /\ plan # NoPlan => plan.synced < plan.target

\* What sync_status shows: the plan, or a plan that was never started.
Shown ==
  IF plan # NoPlan THEN plan ELSE NewPlan(SyncedBlock(engine), head[engine.chain])

(***************************************************************************)
(* What the code's comment on the plan's synced_block says, "where it has  *)
(* got to now", of the engine sync_status is asked about.                  *)
(***************************************************************************)
StatusTellsWhereTheEngineIs ==
  engine # NoEngine => Shown.synced <= SyncedBlock(engine)
=============================================================================
