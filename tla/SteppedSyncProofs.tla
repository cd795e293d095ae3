-------------------------- MODULE SteppedSyncProofs --------------------------
(***************************************************************************)
(* The theorems about the sync surface, for every set of chains, wallets   *)
(* and window sizes and every chain length.                                *)
(*                                                                         *)
(* NothingSkipped is not inductive by itself: that a plan resumed by its   *)
(* own engine is still that engine's needs the history of who worked on it *)
(* (OwnersOfPlan), and a step's windows run against an engine that is one  *)
(* of them.  IInv adds that.  CInv adds that no record is ahead of its     *)
(* chain, and with it a stepped sync is an OpaqueSync.  Last, what of the  *)
(* liveness properties does not need fairness: windows that get there, and *)
(* a step that has ever less to do.                                        *)
(***************************************************************************)
EXTENDS SteppedSync, SyncPlanLemmas

OwnersOfPlan ==
  /\ plan = NoPlan <=> owners = {}
  /\ stepping # Idle => engine \in owners

IInv == TypeOK /\ OwnersOfPlan /\ NothingSkipped /\ ProgressSurvives

-----------------------------------------------------------------------------
(***************************************************************************)
(* The minimum of two records, or the block 0 that an unreadable record    *)
(* is, is a block neither record is behind.                                *)
(***************************************************************************)
LEMMA ReadIsCovered ==
  ASSUME NEW i \in U64, NEW a \in U64, NEW read \in {Lesser(i, a), 0}
  PROVE  /\ read \in U64
         /\ read <= i
         /\ read <= a
  BY MaxU64Assumption DEF Lesser, U64

(***************************************************************************)
(* sync_to and its saves leave records of the right type and move no       *)
(* record back, whichever of the saves were made.                          *)
(***************************************************************************)
LEMMA SyncToMovesForward ==
  ASSUME NEW e \in Engine, NEW end \in U64, NEW latest \in U64, NEW saved,
         indexer \in [Chains -> U64], account \in [Engine -> U64],
         SyncTo(e, end, latest, saved)
  PROVE  /\ indexer' \in [Chains -> U64]
         /\ account' \in [Engine -> U64]
         /\ \A c \in Chains : indexer'[c] >= indexer[c]
         /\ \A f \in Engine : account'[f] >= account[f]
<1> DEFINE reached == Lesser(end, latest)
<1>1. reached \in U64
  BY MaxU64Assumption DEF Lesser, U64
<1> HIDE DEF reached
<1>2. \A x \in U64 : Greater(x, reached) \in U64 /\ Greater(x, reached) >= x
  BY <1>1, MaxU64Assumption DEF Greater, U64
<1>3. \A x \in U64 : x >= x
  BY DEF U64
<1>4. indexer' = IF "indexer" \in saved
                   THEN [indexer EXCEPT ![e.chain] = Greater(@, reached)]
                   ELSE indexer
  BY DEF SyncTo, reached
<1>5. account' = IF "account" \in saved
                   THEN [account EXCEPT ![e] = Greater(@, reached)]
                   ELSE account
  BY DEF SyncTo, reached
<1>6. indexer' \in [Chains -> U64] /\ \A c \in Chains : indexer'[c] >= indexer[c]
  BY <1>2, <1>3, <1>4
<1>7. account' \in [Engine -> U64] /\ \A f \in Engine : account'[f] >= account[f]
  BY <1>2, <1>3, <1>5
<1> QED
  BY <1>6, <1>7

(***************************************************************************)
(* What a reply promises is covered by the records: telling a caller of a  *)
(* plan only e worked on cannot promise more than e's records hold.        *)
(***************************************************************************)
LEMMA PromiseIsCovered ==
  ASSUME NEW p, p \in Plan, NEW workers,
         promised \in [Engine -> U64],
         indexer' \in [Chains -> U64], account' \in [Engine -> U64],
         \A e \in Engine : promised[e] <= indexer'[e.chain] /\ promised[e] <= account'[e],
         \A e \in Engine : workers = {e} => p.synced <= indexer'[e.chain] /\ p.synced <= account'[e],
         Promise(p, workers)
  PROVE  /\ promised' \in [Engine -> U64]
         /\ ProgressSurvives'
<1>1. \A e \in Engine :
        /\ Greater(promised[e], p.synced) \in U64
        /\ workers = {e} => /\ Greater(promised[e], p.synced) <= indexer'[e.chain]
                            /\ Greater(promised[e], p.synced) <= account'[e]
  BY DEF Greater, Plan, U64
<1>2. \A e \in Engine : promised'[e] = IF workers = {e} THEN Greater(promised[e], p.synced)
                                                         ELSE promised[e]
  BY DEF Promise
<1>3. promised' \in [Engine -> U64]
  BY <1>1 DEF Promise
<1> QED
  BY <1>1, <1>2, <1>3 DEF ProgressSurvives

(***************************************************************************)
(* A window that is asked for, and the block a node serving the engine's   *)
(* chain says is its newest, are blocks.                                   *)
(***************************************************************************)
LEMMA NodeHeadsAreBlocks ==
  ASSUME TypeOK
  PROVE  NodeHeads \subseteq U64
<1>1. 0 .. MaxBlock \subseteq U64
  BY SteppedSyncAssumption, MaxU64Assumption DEF U64
<1>2. CASE engine = NoEngine
  BY <1>2, MaxU64Assumption DEF NodeHeads, U64
<1>3. CASE engine # NoEngine
  <2>1. head[engine.chain] \in 0 .. MaxBlock
    BY <1>3 DEF TypeOK, Engine
  <2> QED
    BY <1>1, <1>3, <2>1, SteppedSyncAssumption, MaxU64Assumption DEF NodeHeads, U64
<1> QED
  BY <1>2, <1>3

LEMMA SizesAreBlocks ==
  ASSUME TypeOK, stepping # Idle
  PROVE  /\ stepping \in U64
         /\ engine \in Engine
         /\ WellFormed(plan)
  BY SteppedSyncAssumption DEF TypeOK

-----------------------------------------------------------------------------
(***************************************************************************)
(* A step that leaves the plan, its owners and what was promised alone and *)
(* moves no record back keeps what the plan and the promises say true.     *)
(***************************************************************************)
LEMMA RecordsOnlyGrow ==
  ASSUME IInv,
         indexer' \in [Chains -> U64], account' \in [Engine -> U64],
         \A c \in Chains : indexer'[c] >= indexer[c],
         \A e \in Engine : account'[e] >= account[e],
         NEW p, p = plan
  PROVE  /\ \A e \in Engine : promised[e] <= indexer'[e.chain] /\ promised[e] <= account'[e]
         /\ \A e \in Engine : owners = {e} => /\ p.synced <= indexer'[e.chain]
                                              /\ p.synced <= account'[e]
<1>1. \A e \in Engine : e.chain \in Chains
  BY DEF Engine
<1>2. \A e \in Engine : /\ indexer[e.chain] \in U64 /\ indexer'[e.chain] \in U64
                        /\ account[e] \in U64 /\ account'[e] \in U64
                        /\ indexer'[e.chain] >= indexer[e.chain]
                        /\ account'[e] >= account[e]
                        /\ promised[e] \in U64
  BY <1>1 DEF IInv, TypeOK
<1>3. \A e \in Engine : owners = {e} => plan.synced \in U64
  BY DEF IInv, OwnersOfPlan, TypeOK, WellFormed, Plan
<1>4. \A e \in Engine : promised[e] <= indexer[e.chain] /\ promised[e] <= account[e]
  BY DEF IInv, ProgressSurvives
<1>5. \A e \in Engine : owners = {e} => /\ plan.synced <= indexer[e.chain]
                                        /\ plan.synced <= account[e]
  BY DEF IInv, NothingSkipped
<1>6. \A e \in Engine : promised[e] <= indexer'[e.chain] /\ promised[e] <= account'[e]
  BY <1>2, <1>4 DEF U64
<1>7. \A e \in Engine : owners = {e} => /\ plan.synced <= indexer'[e.chain]
                                        /\ plan.synced <= account'[e]
  BY <1>2, <1>3, <1>5 DEF U64
<1> QED
  BY <1>6, <1>7

-----------------------------------------------------------------------------
LEMMA InitEstablishesIInv == Init => IInv
<1> SUFFICES ASSUME Init PROVE IInv
  OBVIOUS
<1>1. 0 \in U64
  BY MaxU64Assumption DEF U64
<1>2. TypeOK
  BY <1>1 DEF Init, TypeOK, Engine
<1>3. OwnersOfPlan
  BY DEF Init, OwnersOfPlan
<1>4. NothingSkipped
  BY DEF Init, NothingSkipped
<1>5. ProgressSurvives
  BY <1>1 DEF Init, ProgressSurvives, Engine, U64
<1> QED
  BY <1>2, <1>3, <1>4, <1>5 DEF IInv

(***************************************************************************)
(* init replaces the engine between two calls.                             *)
(***************************************************************************)
LEMMA InitEngineKeepsIInv ==
  ASSUME IInv, NEW e \in Engine, InitEngine(e)
  PROVE  IInv'
<1> USE DEF InitEngine, disk
<1>1. TypeOK'
  BY DEF IInv, TypeOK
<1>2. OwnersOfPlan'
  BY DEF IInv, OwnersOfPlan
<1>3. NothingSkipped' /\ ProgressSurvives'
  BY DEF IInv, NothingSkipped, ProgressSurvives
<1> QED
  BY <1>1, <1>2, <1>3 DEF IInv

(***************************************************************************)
(* A whole sync moves the records and nothing else.                        *)
(***************************************************************************)
LEMMA SyncKeepsIInv ==
  ASSUME IInv, NEW latest \in NodeHeads, NEW saved, Sync(latest, saved)
  PROVE  IInv'
<1>1. latest \in U64 /\ engine \in Engine
  BY NodeHeadsAreBlocks DEF IInv, Sync, TypeOK
<1>2. /\ indexer' \in [Chains -> U64] /\ account' \in [Engine -> U64]
      /\ \A c \in Chains : indexer'[c] >= indexer[c]
      /\ \A e \in Engine : account'[e] >= account[e]
  BY <1>1, SyncToMovesForward DEF Sync, IInv, TypeOK
<1>3. TypeOK' /\ OwnersOfPlan'
  BY <1>2 DEF IInv, Sync, TypeOK, OwnersOfPlan
<1>4. NothingSkipped' /\ ProgressSurvives'
  BY <1>2, RecordsOnlyGrow DEF Sync, NothingSkipped, ProgressSurvives
<1> QED
  BY <1>3, <1>4 DEF IInv

(***************************************************************************)
(* A new plan starts where the engine's record is, or at block 0.          *)
(***************************************************************************)
LEMMA OpenPlanKeepsIInv ==
  ASSUME IInv, NEW blocks \in Windows, NEW latest \in NodeHeads,
         NEW frontier \in NodeHeads \cup {NoFrontier}, OpenPlan(blocks, latest, frontier)
  PROVE  IInv'
<1>1. /\ latest \in U64 /\ engine \in Engine
      /\ indexer[engine.chain] \in U64 /\ account[engine] \in U64
      /\ frontier # NoFrontier => frontier \in U64
  BY NodeHeadsAreBlocks DEF IInv, OpenPlan, TypeOK, Engine
<1>2. PICK synced \in ReadSyncedBlock(engine) :
        plan' = IF frontier = NoFrontier
                  THEN NewPlan(synced, latest)
                  ELSE WithFastForward(NewPlan(synced, latest), frontier)
  BY DEF OpenPlan
<1>3. synced \in U64 /\ synced <= indexer[engine.chain] /\ synced <= account[engine]
  BY <1>1, ReadIsCovered DEF ReadSyncedBlock, SyncedBlock
<1>4. WellFormed(NewPlan(synced, latest)) /\ NewPlan(synced, latest).synced = synced
  BY <1>1, <1>3, NewPlanWellFormed
<1>5. WellFormed(plan') /\ plan'.synced = synced
  BY <1>1, <1>2, <1>4, FastForwardWellFormed
<1>6. plan' # NoPlan
  BY <1>5, SteppedSyncAssumption DEF WellFormed
<1>7. TypeOK'
  BY <1>1, <1>5, <1>6 DEF IInv, OpenPlan, disk, TypeOK
<1>8. OwnersOfPlan'
  BY <1>6 DEF OpenPlan, OwnersOfPlan
<1>9. NothingSkipped'
  <2> SUFFICES ASSUME NEW e \in Engine, owners' = {e}
               PROVE  plan'.synced <= indexer'[e.chain] /\ plan'.synced <= account'[e]
    BY DEF NothingSkipped
  <2>1. e = engine
    BY DEF OpenPlan
  <2> QED
    BY <1>3, <1>5, <2>1 DEF OpenPlan, disk
<1>10. ProgressSurvives'
  BY DEF IInv, OpenPlan, disk, ProgressSurvives
<1> QED
  BY <1>7, <1>8, <1>9, <1>10 DEF IInv

(***************************************************************************)
(* Resuming adds the engine to the plan's workers: the plan is either      *)
(* already this engine's alone or, from now on, no single engine's.        *)
(***************************************************************************)
LEMMA ResumePlanKeepsIInv ==
  ASSUME IInv, NEW blocks \in Windows, ResumePlan(blocks)
  PROVE  IInv'
<1>1. TypeOK'
  BY DEF IInv, ResumePlan, disk, TypeOK
<1>2. OwnersOfPlan'
  BY DEF IInv, ResumePlan, OwnersOfPlan
<1>3. NothingSkipped'
  <2> SUFFICES ASSUME NEW e \in Engine, owners' = {e}
               PROVE  plan'.synced <= indexer'[e.chain] /\ plan'.synced <= account'[e]
    BY DEF NothingSkipped
  <2>1. owners # {}
    BY DEF IInv, OwnersOfPlan, ResumePlan
  <2>2. owners = {e}
    BY <2>1 DEF ResumePlan
  <2> QED
    BY <2>2 DEF IInv, NothingSkipped, ResumePlan, disk
<1>4. ProgressSurvives'
  BY DEF IInv, ResumePlan, disk, ProgressSurvives
<1> QED
  BY <1>1, <1>2, <1>3, <1>4 DEF IInv

(***************************************************************************)
(* A window that completed: the position recorded is one the records of    *)
(* the engine that ran it have reached.                                    *)
(***************************************************************************)
LEMMA WindowCompletesKeepsIInv ==
  ASSUME IInv, NEW latest \in NodeHeads, WindowCompletes(latest)
  PROVE  IInv'
<1>1. /\ latest \in U64 /\ stepping \in U64 /\ engine \in Engine /\ WellFormed(plan)
      /\ engine.chain \in Chains
  BY NodeHeadsAreBlocks, SizesAreBlocks DEF IInv, WindowCompletes, Engine
<1>2. NextWindowEnd(plan, stepping) \in U64
  BY <1>1, NextWindowAdvances DEF WindowCompletes
<1>3. /\ indexer' \in [Chains -> U64] /\ account' \in [Engine -> U64]
      /\ \A c \in Chains : indexer'[c] >= indexer[c]
      /\ \A e \in Engine : account'[e] >= account[e]
  BY <1>1, <1>2, SyncToMovesForward DEF WindowCompletes, IInv, TypeOK
<1>4. PICK reached \in ReadSyncedBlock(engine)' : plan' = Record(plan, reached)
  BY DEF WindowCompletes
<1>5. /\ reached \in U64
      /\ reached <= indexer'[engine.chain]
      /\ reached <= account'[engine]
  <2>1. reached \in {Lesser(indexer'[engine.chain], account'[engine]), 0}
    BY DEF WindowCompletes, ReadSyncedBlock, SyncedBlock
  <2>2. indexer'[engine.chain] \in U64 /\ account'[engine] \in U64
    BY <1>1, <1>3
  <2> QED
    BY <2>1, <2>2, ReadIsCovered
<1>6. /\ WellFormed(plan')
      /\ plan'.synced = plan.synced \/ plan'.synced <= reached
  BY <1>1, <1>4, <1>5, RecordMovesForward
<1>7. plan' # NoPlan /\ plan # NoPlan /\ plan' \in Plan
  BY <1>6, SteppedSyncAssumption DEF WellFormed, IInv, TypeOK, WindowCompletes
<1>8. /\ \A e \in Engine : promised[e] <= indexer'[e.chain] /\ promised[e] <= account'[e]
      /\ \A e \in Engine : owners = {e} => plan.synced <= indexer'[e.chain]
                                           /\ plan.synced <= account'[e]
  BY <1>3, RecordsOnlyGrow
<1>9. \A e \in Engine : owners = {e} => plan'.synced <= indexer'[e.chain]
                                       /\ plan'.synced <= account'[e]
  <2> SUFFICES ASSUME NEW e \in Engine, owners = {e}
               PROVE  plan'.synced <= indexer'[e.chain] /\ plan'.synced <= account'[e]
    OBVIOUS
  <2>1. e = engine
    BY DEF IInv, OwnersOfPlan, WindowCompletes
  <2>2. indexer'[e.chain] \in U64 /\ account'[e] \in U64 /\ plan'.synced \in U64
    BY <1>1, <1>3, <1>7, <2>1 DEF Plan
  <2> QED
    BY <1>5, <1>6, <1>8, <2>1, <2>2 DEF U64
<1>10. promised' \in [Engine -> U64] /\ ProgressSurvives'
  <2>1. CASE stepping' = Idle
    <3>1. Promise(plan', owners)
      BY <2>1 DEF WindowCompletes, AfterWindow
    <3> QED
      BY <1>3, <1>7, <1>8, <1>9, <3>1, PromiseIsCovered DEF IInv, TypeOK
  <2>2. CASE stepping' # Idle
    <3>1. UNCHANGED promised
      BY <2>2 DEF WindowCompletes, AfterWindow
    <3> QED
      BY <1>8, <3>1 DEF IInv, TypeOK, ProgressSurvives
  <2> QED
    BY <2>1, <2>2
<1>11. stepping' \in {stepping, Idle} /\ turn' \in {0, 1}
  BY DEF WindowCompletes, AfterWindow, IInv, TypeOK
<1>12. TypeOK'
  BY <1>1, <1>3, <1>6, <1>7, <1>10, <1>11 DEF IInv, TypeOK, WindowCompletes
<1>13. OwnersOfPlan'
  BY <1>7, <1>11 DEF IInv, OwnersOfPlan, WindowCompletes
<1>14. NothingSkipped'
  BY <1>9 DEF NothingSkipped, WindowCompletes
<1> QED
  BY <1>10, <1>12, <1>13, <1>14 DEF IInv

(***************************************************************************)
(* A window that failed, with any part of its work saved.                  *)
(***************************************************************************)
LEMMA WindowFailsKeepsIInv ==
  ASSUME IInv, NEW latest \in NodeHeads, NEW saved, WindowFails(latest, saved)
  PROVE  IInv'
<1>1. /\ latest \in U64 /\ stepping \in U64 /\ engine \in Engine /\ WellFormed(plan)
  BY NodeHeadsAreBlocks, SizesAreBlocks DEF IInv, WindowFails
<1>2. NextWindowEnd(plan, stepping) \in U64
  BY <1>1, NextWindowAdvances DEF WindowFails
<1>3. /\ indexer' \in [Chains -> U64] /\ account' \in [Engine -> U64]
      /\ \A c \in Chains : indexer'[c] >= indexer[c]
      /\ \A e \in Engine : account'[e] >= account[e]
  BY <1>1, <1>2, SyncToMovesForward DEF WindowFails, IInv, TypeOK
<1>4. /\ \A e \in Engine : promised[e] <= indexer'[e.chain] /\ promised[e] <= account'[e]
      /\ \A e \in Engine : owners = {e} => plan.synced <= indexer'[e.chain]
                                           /\ plan.synced <= account'[e]
  BY <1>3, RecordsOnlyGrow
<1>5. promised' \in [Engine -> U64] /\ ProgressSurvives'
  BY <1>1, <1>3, <1>4, PromiseIsCovered DEF IInv, TypeOK, WindowFails, WellFormed
<1>6. TypeOK'
  BY <1>1, <1>3, <1>5 DEF IInv, TypeOK, WindowFails
<1>7. OwnersOfPlan' /\ NothingSkipped'
  BY <1>4 DEF IInv, OwnersOfPlan, NothingSkipped, WindowFails
<1> QED
  BY <1>5, <1>6, <1>7 DEF IInv

(***************************************************************************)
(* A step that finds its plan done, and a cancel, only tell the caller.    *)
(***************************************************************************)
LEMMA ReplyKeepsIInv ==
  ASSUME IInv, PlanIsDone \/ SyncCancel
  PROVE  IInv'
<1>1. /\ Promise(plan, owners) /\ plan \in Plan
      /\ UNCHANGED <<head, indexer, account, engine>>
  BY DEF PlanIsDone, SyncCancel, disk, IInv, TypeOK, WellFormed
<1>2. promised' \in [Engine -> U64] /\ ProgressSurvives'
  <2>1. /\ indexer' \in [Chains -> U64] /\ account' \in [Engine -> U64]
        /\ promised \in [Engine -> U64]
    BY <1>1 DEF IInv, TypeOK
  <2>2. /\ \A e \in Engine : promised[e] <= indexer'[e.chain] /\ promised[e] <= account'[e]
        /\ \A e \in Engine : owners = {e} => plan.synced <= indexer'[e.chain]
                                             /\ plan.synced <= account'[e]
    BY <1>1 DEF IInv, NothingSkipped, ProgressSurvives
  <2> QED
    BY <1>1, <2>1, <2>2, PromiseIsCovered
<1>3. TypeOK'
  BY <1>1, <1>2 DEF IInv, TypeOK, PlanIsDone, SyncCancel
<1>4. OwnersOfPlan' /\ NothingSkipped'
  <2>1. CASE PlanIsDone
    BY <1>1, <2>1 DEF IInv, OwnersOfPlan, NothingSkipped, PlanIsDone
  <2>2. CASE SyncCancel
    BY <1>1, <2>2 DEF IInv, OwnersOfPlan, NothingSkipped, SyncCancel
  <2> QED
    BY <2>1, <2>2
<1> QED
  BY <1>2, <1>3, <1>4 DEF IInv

(***************************************************************************)
(* A restart, wherever it comes: the records of a window under way may     *)
(* have moved, and no plan is left to be ahead of them.                    *)
(***************************************************************************)
LEMMA RestartKeepsIInv ==
  ASSUME IInv, NEW latest \in NodeHeads, NEW saved, Restart(latest, saved)
  PROVE  IInv'
<1>1. /\ indexer' \in [Chains -> U64] /\ account' \in [Engine -> U64]
      /\ \A c \in Chains : indexer'[c] >= indexer[c]
      /\ \A e \in Engine : account'[e] >= account[e]
  <2>1. CASE stepping # Idle /\ ~Done(plan)
    <3>1. /\ latest \in U64 /\ stepping \in U64 /\ engine \in Engine /\ WellFormed(plan)
      BY <2>1, NodeHeadsAreBlocks, SizesAreBlocks DEF IInv
    <3>2. NextWindowEnd(plan, stepping) \in U64
      BY <2>1, <3>1, NextWindowAdvances
    <3> QED
      BY <2>1, <3>1, <3>2, SyncToMovesForward DEF Restart, IInv, TypeOK
  <2>2. CASE ~(stepping # Idle /\ ~Done(plan))
    BY <2>2 DEF Restart, disk, IInv, TypeOK, U64
  <2> QED
    BY <2>1, <2>2
<1>2. TypeOK'
  BY <1>1 DEF IInv, TypeOK, Restart
<1>3. OwnersOfPlan' /\ NothingSkipped'
  BY DEF OwnersOfPlan, NothingSkipped, Restart
<1>4. ProgressSurvives'
  BY <1>1, RecordsOnlyGrow DEF ProgressSurvives, Restart
<1> QED
  BY <1>2, <1>3, <1>4 DEF IInv

(***************************************************************************)
(* The chain going on disturbs nothing.                                    *)
(***************************************************************************)
LEMMA MineKeepsIInv ==
  ASSUME IInv, NEW c \in Chains, Mine(c)
  PROVE  IInv'
<1>1. head' \in [Chains -> 0 .. MaxBlock]
  BY SteppedSyncAssumption, MaxU64Assumption DEF IInv, TypeOK, Mine, U64
<1>2. TypeOK' /\ OwnersOfPlan' /\ NothingSkipped' /\ ProgressSurvives'
  BY <1>1 DEF IInv, TypeOK, OwnersOfPlan, NothingSkipped, ProgressSurvives, Mine, disk
<1> QED
  BY <1>2 DEF IInv

(***************************************************************************)
(* The inductive invariant holds of every reachable state, for every set   *)
(* of chains and wallets.                                                  *)
(***************************************************************************)
THEOREM SyncInvariant == Spec => []IInv
<1>1. IInv /\ [Next]_vars => IInv'
  <2> SUFFICES ASSUME IInv, [Next]_vars PROVE IInv'
    OBVIOUS
  <2>1. ASSUME NEW e \in Engine, InitEngine(e) PROVE IInv'
    BY <2>1, InitEngineKeepsIInv
  <2>2. ASSUME NEW latest \in NodeHeads, NEW saved \in SUBSET AllSaved, Sync(latest, saved)
        PROVE  IInv'
    BY <2>2, SyncKeepsIInv
  <2>3. CASE Step
    <3>1. ASSUME NEW blocks \in Windows, ResumePlan(blocks) PROVE IInv'
      BY <3>1, ResumePlanKeepsIInv
    <3>2. ASSUME NEW blocks \in Windows, NEW latest \in NodeHeads,
                 NEW frontier \in NodeHeads \cup {NoFrontier},
                 OpenPlan(blocks, latest, frontier)
          PROVE  IInv'
      BY <3>2, OpenPlanKeepsIInv
    <3>3. ASSUME NEW latest \in NodeHeads, WindowCompletes(latest) PROVE IInv'
      BY <3>3, WindowCompletesKeepsIInv
    <3>4. ASSUME NEW latest \in NodeHeads, NEW saved \in SUBSET AllSaved,
                 WindowFails(latest, saved)
          PROVE  IInv'
      BY <3>4, WindowFailsKeepsIInv
    <3>5. CASE PlanIsDone
      BY <3>5, ReplyKeepsIInv
    <3> QED
      BY <2>3, <3>1, <3>2, <3>3, <3>4, <3>5 DEF Step
  <2>4. CASE SyncCancel
    BY <2>4, ReplyKeepsIInv
  <2>5. ASSUME NEW latest \in NodeHeads, NEW saved \in SUBSET AllSaved, Restart(latest, saved)
        PROVE  IInv'
    BY <2>5, RestartKeepsIInv
  <2>6. ASSUME NEW c \in Chains, Mine(c) PROVE IInv'
    BY <2>6, MineKeepsIInv
  <2>7. CASE UNCHANGED vars
    BY <2>7 DEF vars, disk, IInv, TypeOK, OwnersOfPlan, NothingSkipped, ProgressSurvives
  <2> QED
    BY <2>1, <2>2, <2>3, <2>4, <2>5, <2>6, <2>7 DEF Next
<1> QED
  BY <1>1, InitEstablishesIInv, PTL DEF Spec

(***************************************************************************)
(* Every variable of the sync surface stays in its type and every plan     *)
(* held is well formed.                                                    *)
(***************************************************************************)
THEOREM SyncTypeCorrect == Spec => []TypeOK
<1>1. IInv => TypeOK
  BY DEF IInv
<1> QED
  BY <1>1, SyncInvariant, PTL

(***************************************************************************)
(* A plan only one engine worked on is never ahead of that engine's        *)
(* records.                                                                *)
(***************************************************************************)
THEOREM SyncSkipsNothing == Spec => []NothingSkipped
<1>1. IInv => NothingSkipped
  BY DEF IInv
<1> QED
  BY <1>1, SyncInvariant, PTL

(***************************************************************************)
(* What a caller was told is synced is on disk ever after.                 *)
(***************************************************************************)
THEOREM SyncKeepsItsWord == Spec => []ProgressSurvives
<1>1. IInv => ProgressSurvives
  BY DEF IInv
<1> QED
  BY <1>1, SyncInvariant, PTL

(***************************************************************************)
(* Whatever the chain does and whoever steps, a plan that stays held keeps *)
(* its start, target and fast-forward block, and moves forward only.       *)
(***************************************************************************)
LEMMA HeldPlanIsPinned ==
  ASSUME IInv, [Next]_vars, plan # NoPlan, plan' # NoPlan
  PROVE  /\ plan'.start = plan.start
         /\ plan'.target = plan.target
         /\ plan'.fastForwardTo = plan.fastForwardTo
         /\ plan'.synced >= plan.synced
<1> DEFINE Pinned == /\ plan'.start = plan.start
                     /\ plan'.target = plan.target
                     /\ plan'.fastForwardTo = plan.fastForwardTo
                     /\ plan'.synced >= plan.synced
<1>1. WellFormed(plan)
  BY DEF IInv, TypeOK
<1>2. CASE UNCHANGED plan
  BY <1>1, <1>2 DEF WellFormed, Plan, U64
<1>3. ASSUME NEW latest \in NodeHeads, WindowCompletes(latest) PROVE Pinned
  <2>1. PICK reached \in ReadSyncedBlock(engine)' : plan' = Record(plan, reached)
    BY <1>3 DEF WindowCompletes
  <2>2. latest \in U64 /\ stepping \in U64 /\ engine \in Engine
    BY <1>3, NodeHeadsAreBlocks, SizesAreBlocks DEF IInv, WindowCompletes
  <2>3. NextWindowEnd(plan, stepping) \in U64
    BY <1>1, <1>3, <2>2, NextWindowAdvances DEF WindowCompletes
  <2>4. indexer' \in [Chains -> U64] /\ account' \in [Engine -> U64]
    BY <1>3, <2>2, <2>3, SyncToMovesForward DEF WindowCompletes, IInv, TypeOK
  <2>5. reached \in {Lesser(indexer'[engine.chain], account'[engine]), 0}
    BY <1>3, <2>1 DEF WindowCompletes, ReadSyncedBlock, SyncedBlock
  <2>6. indexer'[engine.chain] \in U64 /\ account'[engine] \in U64
    <3>1. engine.chain \in Chains
      BY <2>2 DEF Engine
    <3> QED
      BY <2>2, <2>4, <3>1
  <2>7. reached \in U64
    BY <2>5, <2>6, MaxU64Assumption DEF Lesser, U64
  <2> QED
    BY <1>1, <2>1, <2>7, RecordMovesForward
<1>4. CASE ~ UNCHANGED plan
  BY <1>3, <1>4
  DEF Next, Step, InitEngine, Sync, OpenPlan, ResumePlan, WindowFails, PlanIsDone,
      SyncCancel, Restart, Mine, vars
<1> QED
  BY <1>2, <1>4

(***************************************************************************)
(* PinnedPlan for every chain, wallet and size, the percentage included.   *)
(***************************************************************************)
THEOREM PlanStaysPinned == Spec => PinnedPlan
<1> DEFINE Pinned == plan # NoPlan /\ plan' # NoPlan =>
                       /\ plan'.start = plan.start
                       /\ plan'.target = plan.target
                       /\ plan'.fastForwardTo = plan.fastForwardTo
                       /\ plan'.synced >= plan.synced
                       /\ Percent(plan') >= Percent(plan)
<1>1. IInv /\ IInv' /\ [Next]_vars => [Pinned]_vars
  <2> SUFFICES ASSUME IInv, IInv', [Next]_vars, plan # NoPlan, plan' # NoPlan PROVE Pinned
    BY DEF Pinned
  <2>1. WellFormed(plan) /\ WellFormed(plan')
    BY DEF IInv, TypeOK
  <2> QED
    BY <2>1, HeldPlanIsPinned, PercentOrder
<1> QED
  BY <1>1, SyncInvariant, PTL DEF Spec, PinnedPlan

(***************************************************************************)
(* For every u64 width, every plan held and every size a caller can pass,  *)
(* a plan that is not done has a window that advances it and stops at its  *)
(* target.                                                                 *)
(***************************************************************************)
THEOREM WindowsAdvance == Spec => []WindowAdvances
<1>1. IInv => WindowAdvances
  BY NextWindowAdvances DEF IInv, TypeOK, WindowAdvances
<1> QED
  BY <1>1, SyncInvariant, PTL

(***************************************************************************)
(* For every u64 width the percentage shown is between 0 and 100, and 100  *)
(* exactly when the plan is done.                                          *)
(***************************************************************************)
THEOREM PercentHonest == Spec => []PercentIsHonest
<1>1. IInv => PercentIsHonest
  BY PercentOfPlan DEF IInv, TypeOK, PercentIsHonest
<1> QED
  BY <1>1, SyncInvariant, PTL

-----------------------------------------------------------------------------
\* What a division that rounds up answers, as its two bounds.
LEMMA CeilingBounds ==
  ASSUME NEW a \in Nat, NEW s \in Nat, s >= 1
  PROVE  /\ CeilDiv(a, s) \in Int
         /\ s * CeilDiv(a, s) >= a
         /\ s * CeilDiv(a, s) < a + s
<1> DEFINE q == (a + s - 1) \div s
<1>1. q \in Int /\ s * q <= a + s - 1 /\ a + s - 1 < s * q + s
  OBVIOUS
<1> HIDE DEF q
<1>2. s * q \in Int
  BY <1>1
<1>3. s * q >= a /\ s * q < a + s
  BY <1>1, <1>2
<1> QED
  BY <1>1, <1>3 DEF q, CeilDiv

LEMMA OneMorePiece ==
  ASSUME NEW s \in Nat, NEW q \in Int, NEW r \in Int, r >= q + 1
  PROVE  s * r >= s * q + s
<1>1. s * (q + 1) = s * q + s
  OBVIOUS
<1>2. s * r >= s * (q + 1)
  OBVIOUS
<1> QED
  BY <1>1, <1>2

(***************************************************************************)
(* A shorter tail is cut into no more pieces, and one that a whole piece   *)
(* was taken from into fewer.                                              *)
(***************************************************************************)
LEMMA FewerPieces ==
  ASSUME NEW a \in Nat, NEW b \in Nat, NEW s \in Nat, s >= 1, b <= a
  PROVE  /\ CeilDiv(b, s) \in Int /\ CeilDiv(a, s) \in Int
         /\ CeilDiv(b, s) <= CeilDiv(a, s)
         /\ a > 0 /\ (b = 0 \/ b + s <= a) => CeilDiv(b, s) < CeilDiv(a, s)
<1> DEFINE q == CeilDiv(a, s)
           r == CeilDiv(b, s)
<1>1. /\ q \in Int /\ s * q >= a /\ s * q < a + s
      /\ r \in Int /\ s * r >= b /\ s * r < b + s
  BY CeilingBounds
<1> HIDE DEF q, r
<1>2. s * q \in Int /\ s * r \in Int
  BY <1>1
<1>3. r <= q
  <2> SUFFICES ASSUME r >= q + 1 PROVE FALSE
    BY <1>1
  <2>1. s * r >= s * q + s
    BY <1>1, OneMorePiece
  <2> QED
    BY <1>1, <1>2, <2>1
<1>4. ASSUME a > 0, b + s <= a PROVE r < q
  <2> SUFFICES ASSUME r >= q PROVE FALSE
    BY <1>1
  <2>1. r = q
    BY <1>1, <1>3
  <2> QED
    BY <1>1, <1>2, <1>4, <2>1
<1>5. ASSUME a > 0, b = 0 PROVE r < q
  <2> SUFFICES ASSUME r >= q PROVE FALSE
    BY <1>1
  <2>1. r = q
    BY <1>1, <1>3
  <2>2. s * r < s /\ s * r > 0
    BY <1>1, <1>2, <1>5, <2>1
  <2>3. r >= 1 => s * r >= s * 0 + s
    BY <1>1, OneMorePiece
  <2>4. r <= 0 => s * 1 >= s * r + s
    BY <1>1, OneMorePiece
  <2> QED
    BY <1>1, <1>2, <2>2, <2>3, <2>4
<1> QED
  BY <1>1, <1>3, <1>4, <1>5 DEF q, r

(***************************************************************************)
(* For every u64 width, every frontier and every size: a window that gets  *)
(* to its end leaves fewer windows to take, so the subsquid half costs one *)
(* and the tail no more than its blocks divided by the size.               *)
(***************************************************************************)
THEOREM WindowsAreFew == Spec => FewWindows
<1> DEFINE Fewer == stepping # Idle /\ plan' # NoPlan /\ ~Done(plan)
                      /\ plan'.synced >= NextWindowEnd(plan, stepping) =>
                        WindowsNeeded(plan', stepping) < WindowsNeeded(plan, stepping)
<1>1. IInv /\ IInv' /\ [Next]_vars => [Fewer]_vars
  <2> SUFFICES ASSUME IInv, IInv', [Next]_vars, stepping # Idle, plan' # NoPlan,
                      ~Done(plan), plan'.synced >= NextWindowEnd(plan, stepping)
               PROVE  WindowsNeeded(plan', stepping) < WindowsNeeded(plan, stepping)
    BY DEF Fewer
  <2> DEFINE size == Greater(stepping, 1)
             tail == plan.target - Greater(plan.synced, plan.fastForwardTo)
             left == plan.target - Greater(plan'.synced, plan.fastForwardTo)
  <2>1. plan # NoPlan /\ stepping \in U64
    BY SizesAreBlocks DEF IInv, TypeOK
  <2>2. WellFormed(plan) /\ WellFormed(plan')
    BY <2>1 DEF IInv, TypeOK
  <2>3. plan'.target = plan.target /\ plan'.fastForwardTo = plan.fastForwardTo
    BY <2>1, HeldPlanIsPinned
  <2>4. /\ {plan.synced, plan'.synced, plan.target, plan.fastForwardTo} \subseteq Nat
        /\ plan.fastForwardTo <= plan.target /\ plan.synced < plan.target
        /\ plan'.synced <= plan.target /\ plan.target <= MaxU64 /\ MaxU64 \in Nat
    BY <2>2, <2>3, MaxU64Assumption DEF WellFormed, Plan, U64, Done
  <2>5. size \in Nat /\ size >= 1
    BY <2>1, MaxU64Assumption DEF Greater, U64
  <2>6. /\ WindowsNeeded(plan, stepping)
             = (IF plan.synced < plan.fastForwardTo THEN 1 ELSE 0) + CeilDiv(tail, size)
        /\ WindowsNeeded(plan', stepping)
             = (IF plan'.synced < plan.fastForwardTo THEN 1 ELSE 0) + CeilDiv(left, size)
    BY <2>3 DEF WindowsNeeded
  <2>7. CASE plan.synced < plan.fastForwardTo
    <3>1. plan'.synced >= plan.fastForwardTo
      BY <2>7 DEF NextWindowEnd
    <3>2. tail \in Nat /\ left \in Nat /\ left <= tail
      BY <2>4, <2>7, <3>1 DEF Greater
    <3> QED
      BY <2>4, <2>5, <2>6, <2>7, <3>1, <3>2, FewerPieces
  <2>8. CASE plan.synced >= plan.fastForwardTo
    <3>1. plan'.synced >= Lesser(SaturatingAdd(plan.synced, size), plan.target)
      BY <2>4, <2>8 DEF NextWindowEnd
    <3>2. plan'.synced >= plan.synced + size \/ plan'.synced = plan.target
      BY <2>4, <2>5, <3>1 DEF SaturatingAdd, Lesser
    <3>3. plan'.synced >= plan.fastForwardTo
      BY <2>4, <2>5, <2>8, <3>2
    <3>4. /\ tail \in Nat /\ left \in Nat /\ tail > 0 /\ left <= tail
          /\ left = 0 \/ left + size <= tail
      BY <2>4, <2>5, <2>8, <3>2, <3>3 DEF Greater
    <3>5. /\ CeilDiv(left, size) \in Int /\ CeilDiv(tail, size) \in Int
          /\ CeilDiv(left, size) < CeilDiv(tail, size)
      BY <2>5, <3>4, FewerPieces
    <3> QED
      BY <2>4, <2>6, <2>8, <3>3, <3>5
  <2> QED
    BY <2>4, <2>7, <2>8
<1> QED
  BY <1>1, SyncInvariant, PTL DEF Spec, FewWindows

(***************************************************************************)
(* For every window size, no window saves the trees past the plan's target *)
(* nor, once the subsquid half is done, past the size asked for.           *)
(***************************************************************************)
THEOREM WindowsAreBounded == Spec => WindowIsBounded
<1> DEFINE Bounded ==
      stepping # Idle =>
        \A c \in Chains :
          indexer'[c] > indexer[c] =>
            /\ indexer'[c] <= plan.target
            /\ \/ indexer'[c] <= plan.fastForwardTo
               \/ indexer'[c] <= plan.synced + Greater(stepping, 1)
<1>1. IInv /\ [Next]_vars => [Bounded]_vars
  <2> SUFFICES ASSUME IInv, Next, stepping # Idle,
                      NEW c \in Chains, indexer'[c] > indexer[c]
               PROVE  /\ indexer'[c] <= plan.target
                      /\ \/ indexer'[c] <= plan.fastForwardTo
                         \/ indexer'[c] <= plan.synced + Greater(stepping, 1)
    BY DEF Bounded
  <2>1. stepping \in U64 /\ engine \in Engine /\ WellFormed(plan) /\ indexer[c] \in U64
    BY SizesAreBlocks DEF IInv, TypeOK
  <2> DEFINE end == NextWindowEnd(plan, stepping)
  <2>2. PICK latest \in NodeHeads, saved \in SUBSET AllSaved :
          ~Done(plan) /\ SyncTo(engine, end, latest, saved)
    <3>1. ~ UNCHANGED indexer
      BY <2>1 DEF U64
    <3>2. AllSaved \in SUBSET AllSaved
      OBVIOUS
    <3> QED
      BY <3>1, <3>2
      DEF Next, Step, InitEngine, Sync, OpenPlan, ResumePlan, WindowCompletes, WindowFails,
          PlanIsDone, SyncCancel, Restart, Mine, disk
  <2>3. latest \in U64
    BY NodeHeadsAreBlocks DEF IInv
  <2>4. end \in U64 /\ end <= plan.target
    BY <2>1, <2>2, NextWindowAdvances
  <2>5. end <= plan.fastForwardTo \/ end <= plan.synced + Greater(stepping, 1)
    BY <2>1, MaxU64Assumption
    DEF NextWindowEnd, WellFormed, Plan, SaturatingAdd, Lesser, Greater, U64
  <2> HIDE DEF end
  <2>6. indexer'[c] <= end /\ indexer'[c] \in U64
    <3>1. indexer'[c] = indexer[c] \/ indexer'[c] = Greater(indexer[c], Lesser(end, latest))
      BY <2>2 DEF SyncTo, IInv, TypeOK
    <3> QED
      BY <2>1, <2>3, <2>4, <3>1, MaxU64Assumption DEF Lesser, Greater, U64
  <2> QED
    BY <2>1, <2>4, <2>5, <2>6, MaxU64Assumption DEF WellFormed, Plan, Greater, U64
<1> QED
  BY <1>1, SyncInvariant, PTL DEF Spec, WindowIsBounded

-----------------------------------------------------------------------------
(***************************************************************************)
(* What the chain has to do with it: no record is ahead of its chain, and  *)
(* a plan made for one chain goes no further than that chain.              *)
(***************************************************************************)
RecordsOnChain ==
  /\ \A c \in Chains : indexer[c] <= head[c]
  /\ \A e \in Engine : account[e] <= head[e.chain]

TargetOnChain ==
  plan # NoPlan =>
    \A c \in Chains : (\A e \in owners : e.chain = c) => plan.target <= head[c]

CInv == RecordsOnChain /\ TargetOnChain

(***************************************************************************)
(* Whatever step is made, the records it moves are those one sync_to of    *)
(* the engine held moves, against a node of that engine's chain.           *)
(***************************************************************************)
LEMMA WorkIsOneSync ==
  ASSUME IInv, [Next]_vars
  PROVE  \/ UNCHANGED disk
         \/ /\ engine \in Engine
            /\ UNCHANGED head
            /\ \E end \in U64, latest \in NodeHeads, saved \in SUBSET AllSaved :
                 SyncTo(engine, end, latest, saved)
<1> DEFINE Worked == /\ engine \in Engine
                     /\ UNCHANGED head
                     /\ \E end \in U64, latest \in NodeHeads, saved \in SUBSET AllSaved :
                          SyncTo(engine, end, latest, saved)
<1>1. NodeHeads \subseteq U64
  BY NodeHeadsAreBlocks DEF IInv
<1>2. (stepping # Idle /\ ~Done(plan)) =>
        engine \in Engine /\ NextWindowEnd(plan, stepping) \in U64
  BY SizesAreBlocks, NextWindowAdvances DEF IInv
<1>3. ASSUME NEW latest \in NodeHeads, NEW saved \in SUBSET AllSaved, Sync(latest, saved)
      PROVE  Worked
  BY <1>1, <1>3 DEF Sync, IInv, TypeOK
<1>4. ASSUME NEW latest \in NodeHeads, WindowCompletes(latest) PROVE Worked
  <2>1. AllSaved \in SUBSET AllSaved
    OBVIOUS
  <2> QED
    BY <1>2, <1>4, <2>1 DEF WindowCompletes
<1>5. ASSUME NEW latest \in NodeHeads, NEW saved \in SUBSET AllSaved, WindowFails(latest, saved)
      PROVE  Worked
  BY <1>2, <1>5 DEF WindowFails
<1>6. ASSUME NEW latest \in NodeHeads, NEW saved \in SUBSET AllSaved, Restart(latest, saved)
      PROVE  UNCHANGED disk \/ Worked
  BY <1>2, <1>6 DEF Restart
<1>7. CASE UNCHANGED disk
  BY <1>7
<1>8. CASE ~ UNCHANGED disk
  BY <1>3, <1>4, <1>5, <1>6, <1>8
  DEF Next, Step, InitEngine, OpenPlan, ResumePlan, PlanIsDone, SyncCancel, Mine, vars, disk
<1> QED
  BY <1>7, <1>8

(***************************************************************************)
(* A node of a chain does not know more than the chain has.                *)
(***************************************************************************)
LEMMA NodeHeadsAreOnChain ==
  ASSUME IInv, engine \in Engine, NEW latest \in NodeHeads
  PROVE  /\ engine.chain \in Chains
         /\ latest \in U64 /\ latest <= head[engine.chain] /\ head[engine.chain] \in U64
<1>1. engine.chain \in Chains /\ engine # NoEngine
  BY SteppedSyncAssumption DEF Engine
<1>2. head[engine.chain] \in 0 .. MaxBlock
  BY <1>1 DEF IInv, TypeOK
<1> QED
  BY <1>1, <1>2, SteppedSyncAssumption, MaxU64Assumption DEF NodeHeads, U64

(***************************************************************************)
(* sync_to stays on the chain it is for, and below its head.               *)
(***************************************************************************)
LEMMA SyncToStaysOnChain ==
  ASSUME IInv, RecordsOnChain, engine \in Engine, UNCHANGED head,
         NEW end \in U64, NEW latest \in NodeHeads, NEW saved,
         SyncTo(engine, end, latest, saved)
  PROVE  /\ RecordsOnChain'
         /\ \A e \in Engine : e.chain # engine.chain => SyncedBlock(e)' = SyncedBlock(e)
<1> DEFINE reached == Lesser(end, latest)
<1>1. /\ engine.chain \in Chains /\ latest \in U64
      /\ latest <= head[engine.chain] /\ head[engine.chain] \in U64
  BY NodeHeadsAreOnChain
<1>2. reached \in U64 /\ reached <= head[engine.chain]
  BY <1>1, MaxU64Assumption DEF Lesser, U64
<1> HIDE DEF reached
<1>3. /\ indexer' = IF "indexer" \in saved
                      THEN [indexer EXCEPT ![engine.chain] = Greater(@, reached)]
                      ELSE indexer
      /\ account' = IF "account" \in saved
                      THEN [account EXCEPT ![engine] = Greater(@, reached)]
                      ELSE account
  BY DEF SyncTo, reached
<1>4. indexer \in [Chains -> U64] /\ account \in [Engine -> U64]
  BY DEF IInv, TypeOK
<1>5. \A x \in U64 : x <= head[engine.chain] => Greater(x, reached) <= head[engine.chain]
  BY <1>2 DEF Greater
<1>6. \A c \in Chains : indexer'[c] <= head[c]
  BY <1>1, <1>3, <1>4, <1>5 DEF RecordsOnChain
<1>7. \A e \in Engine : account'[e] <= head[e.chain]
  BY <1>3, <1>4, <1>5 DEF RecordsOnChain
<1>8. \A e \in Engine : e.chain # engine.chain => /\ indexer'[e.chain] = indexer[e.chain]
                                                 /\ account'[e] = account[e]
  BY <1>1, <1>3, <1>4
<1> QED
  BY <1>6, <1>7, <1>8 DEF RecordsOnChain, SyncedBlock

LEMMA RecordsStayOnChain ==
  ASSUME IInv, RecordsOnChain, [Next]_vars
  PROVE  RecordsOnChain'
<1>1. CASE UNCHANGED disk
  <2>1. \A c \in Chains : head[c] \in Int /\ indexer[c] \in Int /\ head'[c] \in Int
                          /\ head[c] <= head'[c]
    <3>1. head \in [Chains -> 0 .. MaxBlock] /\ indexer \in [Chains -> U64]
      BY DEF IInv, TypeOK
    <3>2. UNCHANGED head \/ \E d \in Chains : head' = [head EXCEPT ![d] = @ + 1]
      BY DEF Next, Step, InitEngine, Sync, OpenPlan, ResumePlan, WindowCompletes, WindowFails,
             PlanIsDone, SyncCancel, Restart, Mine, vars
    <3> QED
      BY <3>1, <3>2 DEF U64
  <2>2. \A e \in Engine : e.chain \in Chains /\ account[e] \in Int
    <3>1. \A e \in Engine : e.chain \in Chains
      BY DEF Engine
    <3>2. account \in [Engine -> U64] /\ U64 \subseteq Int
      BY DEF IInv, TypeOK, U64
    <3> QED
      BY <3>1, <3>2
  <2> QED
    BY <1>1, <2>1, <2>2 DEF RecordsOnChain, disk
<1>2. CASE ~ UNCHANGED disk
  BY <1>2, WorkIsOneSync, SyncToStaysOnChain
<1> QED
  BY <1>1, <1>2

(***************************************************************************)
(* A step leaves the plan's target where it is, or there is no such plan.  *)
(* A plan that is opened goes to a block its engine's chain has, and one   *)
(* that is resumed has one more engine it is made by.                      *)
(***************************************************************************)
LEMMA TargetStaysOnChain ==
  ASSUME IInv, CInv, [Next]_vars
  PROVE  TargetOnChain'
<1> SUFFICES ASSUME plan' # NoPlan, NEW c \in Chains, \A e \in owners' : e.chain = c
             PROVE  plan'.target <= head'[c]
  BY DEF TargetOnChain
<1>1. head[c] \in Int /\ head'[c] \in Int /\ head[c] <= head'[c]
  <2>1. head \in [Chains -> 0 .. MaxBlock]
    BY DEF IInv, TypeOK
  <2>2. UNCHANGED head \/ \E d \in Chains : head' = [head EXCEPT ![d] = @ + 1]
    BY DEF Next, Step, InitEngine, Sync, OpenPlan, ResumePlan, WindowCompletes, WindowFails,
           PlanIsDone, SyncCancel, Restart, Mine, vars
  <2> QED
    BY <2>1, <2>2
<1>2. ASSUME NEW blocks \in Windows, NEW latest \in NodeHeads,
             NEW frontier \in NodeHeads \cup {NoFrontier}, OpenPlan(blocks, latest, frontier)
      PROVE  plan'.target <= head'[c]
  <2>1. engine \in Engine /\ owners' = {engine} /\ UNCHANGED head
    BY <1>2 DEF OpenPlan, IInv, TypeOK
  <2>2. engine.chain = c
    BY <2>1
  <2>3. latest \in U64 /\ latest <= head[c]
    BY <2>1, <2>2, NodeHeadsAreOnChain
  <2>4. PICK synced \in ReadSyncedBlock(engine) :
          plan' = IF frontier = NoFrontier
                    THEN NewPlan(synced, latest)
                    ELSE WithFastForward(NewPlan(synced, latest), frontier)
    BY <1>2 DEF OpenPlan
  <2>5. indexer[c] \in U64 /\ account[engine] \in U64 /\ indexer[c] <= head[c]
    BY <2>1 DEF IInv, TypeOK, CInv, RecordsOnChain
  <2>6. synced \in U64 /\ synced <= indexer[c]
    BY <2>2, <2>5, ReadIsCovered DEF ReadSyncedBlock, SyncedBlock
  <2>7. plan'.target = Greater(latest, synced)
    BY <2>4 DEF NewPlan, WithFastForward
  <2>8. synced <= head[c]
    BY <1>1, <2>5, <2>6 DEF U64
  <2> QED
    BY <2>1, <2>3, <2>7, <2>8 DEF Greater
<1>3. CASE plan # NoPlan /\ owners \subseteq owners' /\ plan'.target = plan.target
  <2>1. plan.target <= head[c]
    BY <1>3 DEF CInv, TargetOnChain
  <2>2. plan.target \in Int
    BY <1>3 DEF IInv, TypeOK, WellFormed, Plan, U64
  <2> QED
    BY <1>1, <1>3, <2>1, <2>2
<1>4. ASSUME NEW latest \in NodeHeads, WindowCompletes(latest)
      PROVE  plan # NoPlan /\ owners \subseteq owners' /\ plan'.target = plan.target
  <2>1. PICK reached : plan' = Record(plan, reached)
    BY <1>4 DEF WindowCompletes
  <2>2. WellFormed(plan) /\ plan # NoPlan
    BY <1>4 DEF WindowCompletes, IInv, TypeOK
  <2> QED
    BY <1>4, <2>1, <2>2 DEF Record, WindowCompletes, WellFormed, Plan
<1>5. ASSUME NEW blocks \in Windows, ResumePlan(blocks)
      PROVE  plan # NoPlan /\ owners \subseteq owners' /\ plan'.target = plan.target
  BY <1>5 DEF ResumePlan
<1>6. CASE UNCHANGED <<plan, owners>>
  BY <1>3, <1>6
<1>7. CASE ~ UNCHANGED <<plan, owners>>
  BY <1>2, <1>3, <1>4, <1>5, <1>7
  DEF Next, Step, InitEngine, Sync, WindowFails, PlanIsDone, SyncCancel, Restart, Mine, vars
<1> QED
  BY <1>6, <1>7

(***************************************************************************)
(* No record is ahead of its chain, and no plan of one chain goes further  *)
(* than that chain has got.                                                *)
(***************************************************************************)
THEOREM SyncStaysOnChain == Spec => []CInv
<1>1. Init => CInv
  <2> SUFFICES ASSUME Init PROVE CInv
    OBVIOUS
  <2>1. \A c \in Chains : indexer[c] <= head[c]
    BY DEF Init
  <2>2. \A e \in Engine : e.chain \in Chains /\ account[e] <= head[e.chain]
    BY DEF Init, Engine
  <2> QED
    BY <2>1, <2>2 DEF Init, CInv, RecordsOnChain, TargetOnChain
<1>2. IInv /\ CInv /\ [Next]_vars => CInv'
  BY RecordsStayOnChain, TargetStaysOnChain DEF CInv
<1> QED
  BY <1>1, <1>2, SyncInvariant, PTL DEF Spec

-----------------------------------------------------------------------------
(***************************************************************************)
(* A sync that is done is done: when a plan only one engine has worked on  *)
(* has no window left, the account has seen its chain up to the plan's     *)
(* target, as after one whole sync to that block, and no further than the  *)
(* chain has got.                                                          *)
(***************************************************************************)
DoneIsSeen ==
  \A e \in Engine :
    (plan # NoPlan /\ owners = {e} /\ Done(plan)) =>
      plan.target <= SyncedBlock(e) /\ SyncedBlock(e) <= head[e.chain]

THEOREM DoneSyncsAreWhole == Spec => []DoneIsSeen
<1>1. IInv /\ CInv => DoneIsSeen
  <2> SUFFICES ASSUME IInv, CInv, NEW e \in Engine,
                      plan # NoPlan, owners = {e}, Done(plan)
               PROVE  plan.target <= SyncedBlock(e) /\ SyncedBlock(e) <= head[e.chain]
    BY DEF DoneIsSeen
  <2>1. plan.synced <= indexer[e.chain] /\ plan.synced <= account[e]
    BY DEF IInv, NothingSkipped
  <2>2. plan.target = plan.synced
    BY DEF IInv, TypeOK, WellFormed, Plan, U64, Done
  <2>3. indexer[e.chain] <= head[e.chain] /\ account[e] <= head[e.chain]
    <3>1. e.chain \in Chains
      BY DEF Engine
    <3> QED
      BY <3>1 DEF CInv, RecordsOnChain
  <2> QED
    BY <2>1, <2>2, <2>3 DEF SyncedBlock, Lesser
<1> QED
  BY <1>1, SyncInvariant, SyncStaysOnChain, PTL

(***************************************************************************)
(* The status is right as long as it is about the engine that did the      *)
(* work: with no other engine's hand in the plan, what sync_status shows   *)
(* is not ahead of the records.  Only another init can make it wrong.      *)
(***************************************************************************)
StatusIsTheOwners ==
  (engine # NoEngine /\ owners \subseteq {engine}) => Shown.synced <= SyncedBlock(engine)

THEOREM StatusIsRightWithoutInit == Spec => []StatusIsTheOwners
<1>1. IInv => StatusIsTheOwners
  <2> SUFFICES ASSUME IInv, engine # NoEngine, owners \subseteq {engine}
               PROVE  Shown.synced <= SyncedBlock(engine)
    BY DEF StatusIsTheOwners
  <2>1. /\ engine \in Engine
        /\ indexer[engine.chain] \in U64 /\ account[engine] \in U64
    BY DEF IInv, TypeOK, Engine
  <2>2. CASE plan = NoPlan
    BY <2>1, <2>2 DEF Shown, NewPlan, SyncedBlock, Lesser, U64
  <2>3. CASE plan # NoPlan
    <3>1. owners = {engine}
      BY <2>3 DEF IInv, OwnersOfPlan
    <3>2. plan.synced <= indexer[engine.chain] /\ plan.synced <= account[engine]
      BY <2>1, <3>1 DEF IInv, NothingSkipped
    <3> QED
      BY <2>3, <3>2 DEF Shown, SyncedBlock, Lesser
  <2> QED
    BY <2>2, <2>3
<1> QED
  BY <1>1, SyncInvariant, PTL

-----------------------------------------------------------------------------
(***************************************************************************)
(* What a reply tells is about one engine at most, takes nothing back, and *)
(* is in that engine's records by then.                                    *)
(***************************************************************************)
LEMMA PromiseTellsOne ==
  ASSUME promised \in [Engine -> U64], NEW p \in Plan, NEW workers, Promise(p, workers)
  PROVE  \/ UNCHANGED promised
         \/ \E e \in Engine : \E block \in U64 :
              block >= promised[e] /\ promised' = [promised EXCEPT ![e] = block]
<1>1. CASE \E e \in Engine : workers = {e}
  <2>1. PICK e \in Engine : workers = {e}
    BY <1>1
  <2> DEFINE block == Greater(promised[e], p.synced)
  <2>2. block \in U64 /\ block >= promised[e]
    BY MaxU64Assumption DEF Greater, Plan, U64
  <2>3. promised' = [promised EXCEPT ![e] = block]
    <3>1. \A f \in Engine : workers = {f} <=> f = e
      BY <2>1
    <3>2. promised' = [f \in Engine |-> IF f = e THEN Greater(promised[f], p.synced)
                                                 ELSE promised[f]]
      BY <3>1 DEF Promise
    <3> QED
      BY <3>2
  <2> QED
    BY <2>2, <2>3
<1>2. CASE ~ \E e \in Engine : workers = {e}
  <2>1. promised' = [e \in Engine |-> promised[e]]
    BY <1>2 DEF Promise
  <2> QED
    BY <2>1
<1> QED
  BY <1>1, <1>2

LEMMA RepliesTellOne ==
  ASSUME IInv, IInv', [Next]_vars
  PROVE  Opaque!Tells
<1>1. promised \in [Engine -> U64] /\ promised' \in [Engine -> U64]
  BY DEF IInv, TypeOK
<1>2. \A e \in Engine : promised'[e] \in U64 /\ promised'[e] <= SyncedBlock(e)'
  BY <1>1 DEF IInv, ProgressSurvives, SyncedBlock, Lesser
<1>3. UNCHANGED promised \/ \E p \in Plan : Promise(p, owners)
  <2>1. plan # NoPlan => plan \in Plan
    BY DEF IInv, TypeOK, WellFormed
  <2>2. ASSUME NEW latest \in NodeHeads, WindowCompletes(latest)
        PROVE  UNCHANGED promised \/ \E p \in Plan : Promise(p, owners)
    <3>1. plan' # NoPlan
      <4>1. owners' # {}
        BY <2>2 DEF WindowCompletes, IInv, OwnersOfPlan
      <4> QED
        BY <4>1 DEF IInv, OwnersOfPlan
    <3>2. plan' \in Plan
      BY <3>1 DEF IInv, TypeOK, WellFormed
    <3> QED
      BY <2>2, <3>2 DEF WindowCompletes, AfterWindow
  <2>3. ASSUME NEW latest \in NodeHeads, NEW saved \in SUBSET AllSaved,
               WindowFails(latest, saved)
        PROVE  \E p \in Plan : Promise(p, owners)
    BY <2>1, <2>3 DEF WindowFails, IInv, TypeOK
  <2>4. PlanIsDone => \E p \in Plan : Promise(p, owners)
    BY <2>1 DEF PlanIsDone, IInv, TypeOK
  <2>5. SyncCancel => \E p \in Plan : Promise(p, owners)
    BY <2>1 DEF SyncCancel
  <2> QED
    BY <2>2, <2>3, <2>4, <2>5
    DEF Next, Step, InitEngine, Sync, OpenPlan, ResumePlan, Restart, Mine, vars
<1>4. CASE UNCHANGED promised
  BY <1>4 DEF Opaque!Tells
<1>5. ASSUME NEW e \in Engine, NEW block \in U64,
             block >= promised[e], promised' = [promised EXCEPT ![e] = block]
      PROVE  Opaque!Tells
  <2>1. promised'[e] = block /\ promised[e] \in U64
    BY <1>1, <1>5
  <2>2. block <= SyncedBlock(e)' /\ SyncedBlock(e)' \in Int
    <3>1. e.chain \in Chains
      BY DEF Engine
    <3>2. indexer'[e.chain] \in U64 /\ account'[e] \in U64
      BY <3>1 DEF IInv, TypeOK
    <3> QED
      BY <1>2, <2>1, <3>2 DEF SyncedBlock, Lesser, U64
  <2>3. block \in promised[e] .. [f \in Engine |-> SyncedBlock(f)]'[e]
    BY <1>5, <2>1, <2>2 DEF U64
  <2> QED
    BY <1>5, <2>3 DEF Opaque!Tells
<1> QED
  BY <1>1, <1>3, <1>4, <1>5, PromiseTellsOne

(***************************************************************************)
(* A step is work on the engine's chain, news of a block there, the chain  *)
(* going on, or nothing a caller could see.                                *)
(***************************************************************************)
LEMMA SeesIsSafe ==
  ASSUME IInv, IInv', CInv, CInv', [Next]_vars, UNCHANGED head
  PROVE  \/ UNCHANGED disk
         \/ engine \in Engine /\ Opaque!Sees(engine.chain)
<1>1. CASE UNCHANGED disk
  BY <1>1
<1>2. CASE ~ UNCHANGED disk
  <2>1. PICK end \in U64, latest \in NodeHeads, saved \in SUBSET AllSaved :
          engine \in Engine /\ SyncTo(engine, end, latest, saved)
    BY <1>2, WorkIsOneSync
  <2>2. \A e \in Engine : /\ e.chain \in Chains
                          /\ indexer[e.chain] \in U64 /\ indexer'[e.chain] \in U64
                          /\ account[e] \in U64 /\ account'[e] \in U64
    BY DEF IInv, TypeOK, Engine
  <2>3. \A e \in Engine : SyncedBlock(e) <= SyncedBlock(e)' /\ SyncedBlock(e)' \in Nat
    <3>1. latest \in U64
      BY NodeHeadsAreBlocks DEF IInv
    <3>2. /\ \A c \in Chains : indexer'[c] >= indexer[c]
          /\ \A e \in Engine : account'[e] >= account[e]
      BY <2>1, <3>1, SyncToMovesForward DEF IInv, TypeOK
    <3> QED
      BY <2>2, <3>2 DEF SyncedBlock, Lesser, U64
  <2>4. \A e \in Engine : e.chain # engine.chain => SyncedBlock(e)' = SyncedBlock(e)
    BY <2>1, SyncToStaysOnChain DEF CInv
  <2>5. \A e \in Engine : e.chain = engine.chain => SyncedBlock(e)' <= head[engine.chain]
    BY <2>2 DEF CInv, RecordsOnChain, SyncedBlock, Lesser
  <2> QED
    BY <2>1, <2>3, <2>4, <2>5 DEF Opaque!Sees
<1> QED
  BY <1>1, <1>2

LEMMA StepIsOpaque ==
  IInv /\ IInv' /\ CInv /\ CInv' /\ [Next]_vars => [Opaque!Next]_(Opaque!vars)
<1> SUFFICES ASSUME IInv, IInv', CInv, CInv', [Next]_vars
             PROVE  [Opaque!Next]_(Opaque!vars)
  OBVIOUS
<1>1. ASSUME NEW c \in Chains, Mine(c) PROVE Opaque!Grow(c)
  <2>1. [e \in Engine |-> SyncedBlock(e)]' = [e \in Engine |-> SyncedBlock(e)]
    BY <1>1 DEF Mine, disk, SyncedBlock
  <2> QED
    BY <1>1, <2>1 DEF Mine, Opaque!Grow
<1>2. CASE UNCHANGED head /\ engine \in Engine /\ Opaque!Sees(engine.chain)
  <2>1. engine.chain \in Chains
    BY <1>2 DEF Engine
  <2>2. Opaque!Work(engine.chain)
    BY <1>2, RepliesTellOne DEF Opaque!Work
  <2> QED
    BY <2>1, <2>2 DEF Opaque!Next
<1>3. CASE UNCHANGED head /\ UNCHANGED disk
  <2>1. [e \in Engine |-> SyncedBlock(e)]' = [e \in Engine |-> SyncedBlock(e)]
    BY <1>3 DEF disk, SyncedBlock
  <2>2. CASE UNCHANGED promised
    BY <1>3, <2>1, <2>2 DEF Opaque!vars
  <2>3. CASE ~ UNCHANGED promised
    <3>1. PICK e \in Engine : TRUE
      BY <2>3, RepliesTellOne DEF Opaque!Tells
    <3>2. e.chain \in Chains
      BY DEF Engine
    <3>3. Opaque!Sees(e.chain)
      <4>1. \A f \in Engine : /\ f.chain \in Chains
                              /\ indexer[f.chain] \in U64 /\ account[f] \in U64
        BY DEF IInv, TypeOK, Engine
      <4>2. \A f \in Engine : /\ SyncedBlock(f) \in Nat
                              /\ SyncedBlock(f) <= head[f.chain]
        BY <4>1 DEF CInv, RecordsOnChain, SyncedBlock, Lesser, U64
      <4>3. \A f \in Engine : SyncedBlock(f)' = SyncedBlock(f)
        BY <1>3 DEF disk, SyncedBlock
      <4> QED
        BY <4>2, <4>3 DEF Opaque!Sees
    <3>4. Opaque!Work(e.chain)
      BY <1>3, <3>3, RepliesTellOne DEF Opaque!Work
    <3> QED
      BY <3>2, <3>4 DEF Opaque!Next
  <2> QED
    BY <2>2, <2>3
<1>4. UNCHANGED head \/ \E c \in Chains : Mine(c)
  BY DEF Next, Step, InitEngine, Sync, OpenPlan, ResumePlan, WindowCompletes, WindowFails,
         PlanIsDone, SyncCancel, Restart, vars
<1>5. CASE UNCHANGED head
  BY <1>2, <1>3, <1>5, SeesIsSafe
<1> QED
  BY <1>1, <1>4, <1>5 DEF Opaque!Next

(***************************************************************************)
(* For every set of chains and wallets, a stepped sync is a sync as its    *)
(* caller knows it: windows, half-made saves, restarts and other wallets   *)
(* on the chain never show an account less than it has seen, more than its *)
(* chain has, or a reply about blocks it has not seen.                     *)
(***************************************************************************)
THEOREM SteppedSyncIsASync == Spec => ImplementsOpaqueSync
<1>1. Init => Opaque!Init
  <2> SUFFICES ASSUME Init PROVE Opaque!Init
    OBVIOUS
  <2>1. \A e \in Engine : SyncedBlock(e) = 0
    BY DEF Init, Engine, SyncedBlock, Lesser
  <2> QED
    BY <2>1 DEF Init, Opaque!Init
<1> QED
  BY <1>1, StepIsOpaque, SyncInvariant, SyncStaysOnChain, PTL
  DEF Spec, ImplementsOpaqueSync, Opaque!Spec

-----------------------------------------------------------------------------
(***************************************************************************)
(* Why a caller who keeps calling gets there: a window served to its end   *)
(* takes the plan to that end at least, which is further than it was.  It  *)
(* is so because the target is on the chain, and so for as long as the     *)
(* engines that stepped the plan were all of the chain it was made for.    *)
(***************************************************************************)
GoodWindowsGetThere ==
  [][GoodWindow /\ (\A e \in owners : e.chain = engine.chain) =>
       /\ plan'.synced > plan.synced
       /\ plan'.synced >= NextWindowEnd(plan, stepping)]_vars

THEOREM WindowsOfOneChainAdvance == Spec => GoodWindowsGetThere
<1> DEFINE GetsThere ==
      GoodWindow /\ (\A e \in owners : e.chain = engine.chain) =>
        /\ plan'.synced > plan.synced
        /\ plan'.synced >= NextWindowEnd(plan, stepping)
<1>1. IInv /\ IInv' /\ CInv /\ [Next]_vars => [GetsThere]_vars
  <2> SUFFICES ASSUME IInv, IInv', CInv, GoodWindow,
                      \A e \in owners : e.chain = engine.chain
               PROVE  /\ plan'.synced > plan.synced
                      /\ plan'.synced >= NextWindowEnd(plan, stepping)
    OBVIOUS
  <2> DEFINE end == NextWindowEnd(plan, stepping)
  <2> DEFINE c == engine.chain
  <2>1. /\ WindowCompletes(head[c])
        /\ plan'.synced = Record(plan, SyncedBlock(engine)').synced
    BY DEF GoodWindow
  <2>2. stepping \in U64 /\ engine \in Engine /\ WellFormed(plan) /\ ~Done(plan)
    BY <2>1, SizesAreBlocks DEF WindowCompletes, IInv
  <2>3. c \in Chains
    BY <2>2 DEF Engine
  <2>4. end \in U64 /\ end > plan.synced /\ end <= plan.target
    BY <2>2, NextWindowAdvances
  <2>5. plan.target <= head[c] /\ head[c] \in Int
    <3>1. plan # NoPlan
      BY <2>1 DEF WindowCompletes, IInv, TypeOK
    <3> QED
      BY <2>3, <3>1 DEF CInv, TargetOnChain, IInv, TypeOK
  <2>6. SyncTo(engine, end, head[c], AllSaved)
    BY <2>1 DEF WindowCompletes
  <2> HIDE DEF end, c
  <2>7. Lesser(end, head[c]) = end
    BY <2>2, <2>4, <2>5 DEF Lesser, WellFormed, Plan, U64
  <2>8. indexer'[engine.chain] >= end /\ account'[engine] >= end
    <3>1. /\ indexer' = [indexer EXCEPT ![engine.chain] = Greater(@, end)]
          /\ account' = [account EXCEPT ![engine] = Greater(@, end)]
      BY <2>6, <2>7 DEF SyncTo, AllSaved
    <3>2. /\ indexer \in [Chains -> U64] /\ account \in [Engine -> U64]
          /\ engine.chain \in Chains
      BY <2>2 DEF IInv, TypeOK, Engine
    <3> QED
      BY <2>2, <2>4, <3>1, <3>2 DEF Greater, U64
  <2>9. SyncedBlock(engine)' \in U64 /\ SyncedBlock(engine)' >= end
    <3>1. engine' = engine
      BY <2>1 DEF WindowCompletes
    <3>2. indexer'[engine.chain] \in U64 /\ account'[engine] \in U64
      BY <2>2 DEF IInv, TypeOK, Engine
    <3> QED
      BY <2>8, <3>1, <3>2 DEF SyncedBlock, Lesser
  <2>10. plan'.synced = Lesser(Greater(plan.synced, SyncedBlock(engine)'), plan.target)
    BY <2>1, <2>2 DEF Record, WellFormed, Plan
  <2>11. plan.synced \in U64 /\ plan.target \in U64
    BY <2>2 DEF WellFormed, Plan
  <2>12. plan'.synced >= end
    BY <2>4, <2>9, <2>10, <2>11 DEF Lesser, Greater, U64
  <2>13. plan'.synced \in Int
    BY <2>9, <2>10, <2>11 DEF Lesser, Greater, U64
  <2> QED
    BY <2>4, <2>11, <2>12, <2>13 DEF end, U64
<1> QED
  BY <1>1, SyncInvariant, SyncStaysOnChain, PTL DEF Spec, GoodWindowsGetThere

-----------------------------------------------------------------------------
\* What a sync_step being answered still has to do: the blocks up to the plan's
\* target, and to return.
StillToDo == IF stepping = Idle THEN 0 ELSE 1 + plan.target - plan.synced

(***************************************************************************)
(* Each window either returns to the caller or leaves fewer blocks to do,  *)
(* and nothing between two windows adds to them: the chain's growth does   *)
(* not, because the target is pinned, and an engine that reports success   *)
(* without moving ends the step (the stalled test of sync_step).           *)
(***************************************************************************)
StepsGoForward ==
  [][stepping # Idle =>
       /\ StillToDo \in Nat /\ StillToDo' \in Nat
       /\ StillToDo' <= StillToDo
       /\ WindowEnds => StillToDo' < StillToDo]_vars

\* Only a call being answered has something left to do, and it always has.
SomethingLeft ==
  /\ StillToDo \in Nat
  /\ stepping # Idle => StillToDo > 0
  /\ stepping = Idle => StillToDo = 0

LEMMA SomethingIsLeft ==
  ASSUME TypeOK
  PROVE  SomethingLeft
<1>1. CASE stepping = Idle
  BY <1>1 DEF StillToDo, SomethingLeft
<1>2. CASE stepping # Idle
  <2>1. WellFormed(plan)
    BY <1>2 DEF TypeOK
  <2>2. plan.synced \in Nat /\ plan.target \in Nat /\ plan.synced <= plan.target
    BY <2>1, MaxU64Assumption DEF WellFormed, Plan, U64
  <2> QED
    BY <1>2, <2>2 DEF StillToDo, SomethingLeft
<1> QED
  BY <1>1, <1>2

(***************************************************************************)
(* With the fairness of FairSpec, why StepReturns holds.                   *)
(***************************************************************************)
THEOREM StepsOnlyGoForward == Spec => StepsGoForward
<1> DEFINE Goes == stepping # Idle =>
                     /\ StillToDo \in Nat /\ StillToDo' \in Nat
                     /\ StillToDo' <= StillToDo
                     /\ WindowEnds => StillToDo' < StillToDo
<1>1. IInv => SomethingLeft
  BY SomethingIsLeft DEF IInv
<1>2. IInv /\ IInv' /\ SomethingLeft /\ SomethingLeft' /\ [Next]_vars => [Goes]_vars
  <2> SUFFICES ASSUME IInv, IInv', SomethingLeft, SomethingLeft', Next, stepping # Idle
               PROVE  /\ StillToDo \in Nat /\ StillToDo' \in Nat
                      /\ StillToDo' <= StillToDo
                      /\ WindowEnds => StillToDo' < StillToDo
    OBVIOUS
  <2>1. StillToDo \in Nat /\ StillToDo > 0
    BY DEF SomethingLeft
  <2>2. StillToDo' \in Nat /\ (stepping' = Idle => StillToDo' = 0)
    BY DEF SomethingLeft
  <2>3. CASE stepping' = Idle
    BY <2>1, <2>2, <2>3
  <2>4. ASSUME stepping' # Idle, NEW latest \in NodeHeads, WindowCompletes(latest)
        PROVE  StillToDo' < StillToDo
    <3>1. PICK reached \in ReadSyncedBlock(engine)' : plan' = Record(plan, reached)
      BY <2>4 DEF WindowCompletes
    <3>2. WellFormed(plan) /\ WellFormed(plan')
      BY <2>4 DEF IInv, TypeOK
    <3>3. plan'.target = plan.target
      BY <3>1, <3>2 DEF Record, WellFormed, Plan
    <3>4. plan'.synced > plan.synced
      BY <2>4 DEF WindowCompletes, AfterWindow
    <3>5. /\ plan.synced \in Nat /\ plan.target \in Nat /\ plan'.synced \in Nat
      BY <3>2, MaxU64Assumption DEF WellFormed, Plan, U64
    <3> QED
      BY <2>4, <3>3, <3>4, <3>5 DEF StillToDo
  <2>5. ASSUME NEW c \in Chains, Mine(c)
        PROVE  StillToDo' = StillToDo /\ ~ WindowEnds
    <3>1. head' # head
      <4>1. head \in [Chains -> 0 .. MaxBlock] /\ MaxBlock \in Int
        BY SteppedSyncAssumption DEF IInv, TypeOK, U64
      <4> QED
        BY <2>5, <4>1 DEF Mine
    <3>2. WindowEnds => head' = head
      BY DEF WindowEnds, WindowCompletes, WindowFails, PlanIsDone
    <3> QED
      BY <2>5, <3>1, <3>2 DEF Mine, StillToDo
  <2>6. CASE stepping' # Idle
    <3>1. \/ \E latest \in NodeHeads : WindowCompletes(latest)
          \/ \E c \in Chains : Mine(c)
      BY <2>6 DEF Next, Step, InitEngine, Sync, OpenPlan, ResumePlan, WindowFails,
                  PlanIsDone, SyncCancel, Restart
    <3> QED
      BY <2>1, <2>2, <2>4, <2>5, <2>6, <3>1
  <2> QED
    BY <2>3, <2>6
<1> QED
  BY <1>1, <1>2, SyncInvariant, PTL DEF Spec, StepsGoForward
=============================================================================
