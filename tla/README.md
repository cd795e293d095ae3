# A specification of railgun_module

TLA+ specifications of `rust-lib/src/`, the Rust crate behind `railgun_module`, checked with TLC and
proved with TLAPS. Source references are to files of `rust-lib/src/` unless a path says otherwise.

## The system

`railgun_module` is a Logos module that gives a host RAILGUN private payments: it wraps an external
engine (kohaku's `railgun` crate), keeps the engine's state on disk, reaches the chain through another
module (`eth_rpc_module`) and signatures through a third (`keystore_module`), and carries probes that
ask whether a device can do a private send at all. The host calls it one method at a time; every
method is one synchronous call that may take minutes and makes calls of its own.

| Part | State | Operations | Talks to |
|---|---|---|---|
| module glue (`glue.rs`) | `engine`, `sync_plan`, `jobs`, `persist_dir` | the module's methods | everything below |
| stepped sync (`sync.rs`, `glue.rs`) | the `Plan`: start, synced, target, fast-forward block | `sync`, `sync_step`, `sync_status`, `sync_cancel` | the engine, the node, subsquid |
| engine adapter (`engine.rs`) | the engine, its 0zk account, its database | `init`, `sync_to`, `synced_block`, balances, the `prepare_*` calls | the external engine |
| disk database (`db_adapter.rs`) | one file per record | get, set, delete | the file system |
| rpc adapter (`rpc_backend.rs`) | none | EIP-1193 calls over raw JSON-RPC | `eth_rpc_module` |
| relayed send (`glue.rs`, `relay.rs`) | `jobs`: operations parked on a human's decision | `relayed_send`, `relayed_send_status`, `relayed_send_cancel` | keystore, bundler |
| key derivation (`keys.rs`) | none | keys from a seed | – |
| live-send probe (`live_send.rs`) | a `Run` and its legs; an EOA on a public chain | one method, a dozen legs | node, engine, contract |
| offline send probe (`private_send.rs`) | legs over a synthetic tree | one method | the engine |
| witness and proof probes (`witness_engine.rs`, `witness_circuit.rs`, `proof_circuit.rs`) | the stage each backend reached | one method each | a WASM engine, the host of the circuit's files |
| web dependency probe (`web_dependency.rs`) | legs | one method | a dependency that may be a page |

What makes each part correct, and what is hard about it:

* **Stepped sync.** No block may be skipped, what a caller was told is synced must be there after a
  crash, the percentage may not go backwards, no window may run past its size or the target, and no call may spin. Hard: two
  records on disk that are not saved together, accounts registered late, a node that lags behind what
  it said, a chain that grows between windows, a second `init` in the middle, u64 edges of the window.
* **Relayed send.** What a human approved is what is submitted, or nothing is; an approval is used
  at most once; a failed poll loses nothing; a send given up stays unsent. Hard: the approval, the
  fetch, the submission and the acknowledgement are four calls, and each may fail, or happen and have
  its reply lost, with the human, the keystore's sweep and crashes in between.
* **Live send.** A run that goes ahead can pay to its end; a note is not shielded that cannot be
  moved; a note an earlier run left is spent, not duplicated; green means mined. Hard: the prices are
  read minutes before they are paid, a node reserves more than it charges, and a run that dies leaves
  transactions that are mined during the next one.
* **Disk database.** A record is the old one or the new one, never a part of either; what failed has
  changed nothing, what succeeded is there. Hard: a write is three steps, and the process may die
  between any two and in the middle of one.
* **Device probes** (all but the live send) are straight-line measurements of external libraries. What
  can go wrong is a leg or stage reported otherwise than it went, or not reported: a platform may kill
  the process over what it measures, and then the console is the only instrument left. Hard: three
  files downloaded from a branch that moves between the downloads, a circuit that answers at once
  because it never ran, a page that is delivered on the very thread that waits for it.

## Modules

| Module | Models |
|---|---|
| `SyncPlan` | the arithmetic of `sync::Plan` |
| `SteppedSync` | `init`, `sync`, `sync_step`, `sync_status`, `sync_cancel` over the engine's records, with growth of the chain, failing windows and restarts; implements `OpaqueSync` |
| `OpaqueSync` | abstract: what a caller may think of any sync; nothing seen or told is ever taken back |
| `RelaySigning` | what the two passes of `sign` in `relay.rs` accept |
| `ApprovedOnce` | abstract: a submission costs an approval of exactly what is submitted |
| `RelayedSend` | the three calls of a relayed send over keystore, human and bundler; implements `ApprovedOnce` |
| `FundingPlan` | prices, reservations, the gate before the shield, and `plan` of `live_send.rs` |
| `FundingLeg` | a probe's funding leg run again and again by its operator |
| `LiveSend` | all of `run`: the legs, the EOA's pool of transactions, mining, the gas price, dying runs |
| `RecordStore` | abstract: a store whose operations happen at once, or fail and change nothing |
| `DiskRecords` | `DiskDatabase`: files, temporary files, torn writes; implements `RecordStore` |
| `ProbeProcess` | what the device probes share: the build, the process, its console, the report so far |
| `WitnessEngineProbe` | `witness_engine_probe`: every backend of the image through the engine's stages |
| `WitnessCircuitProbe` | `witness_circuit_probe`, and `measure_witness`, which the next one calls too |
| `ProofCircuitProbe` | `proof_circuit_probe`: the downloads, whose witness, the length check, the proof |
| `PrivateSendProbe` | `private_send_probe`: a private send over a tree of one note |
| `WebDependencyProbe` | `web_dependency_probe`: three crossings and the threads they are made on |
| `DeviceProbes` | the five of them in one process, one call at a time |
| `MC*` | instances for TLC; `MCSteppedSync` also counts the blocks one call has walked |
| `SyncPlanLemmas`, `*Proofs` | lemmas and theorems |

`SteppedSync` extends `SyncPlan` and instantiates `OpaqueSync`; `RelayedSend` extends `RelaySigning` and
instantiates `ApprovedOnce`; `FundingLeg` and `LiveSend` extend `FundingPlan`; `DiskRecords`
instantiates `RecordStore`; every probe extends `ProbeProcess`, `ProofCircuitProbe` extends
`WitnessCircuitProbe`, and `DeviceProbes` extends them all. Operators whose comment
begins "A bug:" are faulty variants of the definition that follows them. They take no part in the
specification; each is what some property is there to exclude.

### State and actions against the code

**SteppedSync.** `engine`, `plan` are the fields of `RailgunModuleImpl`; `indexer[c]` and
`account[e]` are the two `synced_block` records under `chain-<id>/` (keys `utxo_indexer` and
`account:<0zk>`). The module answers one call at a time, so calls do not interleave; a `sync_step`
however is a loop of windows, and the world moves between them. It is `OpenPlan` or `ResumePlan` on
entry, `WindowCompletes` or `WindowFails` per window and `PlanIsDone` when no window is left.
`AfterWindow` holds the loop's three ways out. `Restart` may come inside a window, with any subset of
the two records saved. The budget in milliseconds is a free choice after every window. `SyncTo` is the
external engine as the comments and tests of `sync.rs` describe it: it clamps to the node's latest
block and saves both records. A record that cannot be read is block 0 (`envelope_synced_block`).
`promised` and `owners` are history: what replies said was synced, and which engines worked on the
plan they said it about. As an `OpaqueSync`, what an account has seen is the lesser of its two records
(`SyncedBlock`), and what a caller was told is `promised`: the plan, the windows, the order of the saves
and the restarts are not visible there.

**RelayedSend.** `jobs` is the map of parked sends; `offer`, `legs`, `wiped` are the keystore's;
`sent` is the bundler's. `relayed_send_status` is split at each reply it waits for: `StatusAnswers`
or `StatusFails`, then `FetchAnswers` (which takes the job out of the map and runs the second signing
pass) or `FetchFails`, then `Submit`, then `Ack`. `Submit(accepted, replied)` has all four
combinations. The second pass may ask for any list of digests: what `apply_signatures` refuses is
there to be refused. A restart empties `jobs`, which is in memory only.

**LiveSend.** `at` names the leg a run is at, `leg` what became of each, `run` what the run has
learned; `pool` holds the EOA's accepted transactions in nonce order. A leg that sends is
`Sends` (estimate, signature, `eth_sendRawTransaction`, whose reply may be lost), then
`WaitSucceeds` or `WaitFails` (a reverted receipt, an RPC error or the budget). `Refused` stands for
everything that fails with nothing sent. `Dies` ends a run anywhere; what it left in the pool is
mined later, as nobody's. `Mine` applies a transaction if it still does what it is for and charges
the price of the block. `watch` is history. The reads of the funding leg are one step, and so are
the reads of the gate. The survey's `sync_windows` is one step: its loop is the one of
`SteppedSync`, over a database that is empty at every run.

Every transaction offers `Tip` on top of twice the price, and a block charges it; the prices of the
funding leg and of the gate leave it out, as the code's do. `run.roots` is what a sync learned about
each tree, `run.asked` the verdict on the one root `root-on-chain` asks about: that of the proof's first
operation. A proof with no operation at all asks nothing, skips the leg and spends nothing.

**DiskRecords.** `files[k]` and `temps[k]` are the two files a key may have; `op` and `step` are the
operation under way and how far it is. `set` is `BeginWrite`, `EndWrite`, `Rename`, `Done`; `delete` is
`Remove`, `Done`; `get` is one step. `Fails` is any file operation that is refused, before the step that
changes the record; `Die` comes anywhere, and between `BeginWrite` and `EndWrite` it leaves a torn
temporary file. `New` opens the directory again over whatever is there. As a `RecordStore`, what is
stored is `files`, and an operation has been carried out when its `step` is "done".

**DeviceProbes.** `image` is the build (target, and whether it has the engine seam), `published` the
circuit the artifact base serves at the moment. `call` and `at` are the method being answered and the
stage it is in, `line` and `printed` what the console shows, `asked`, `nth`, `probe` and `probes` the
backends and their reports, `legs` and `noted` a run's legs and other fields. There is one action per
stage, and its outcomes are what the code tells apart. `Publish` moves the branch between any two
downloads, `Killed` is the platform's decision, `Relaunch` a new process with the last line of the
console still readable. Two stages are entered without a line of their own, the download of
`witness_circuit_probe` and the construction of the calculator (`SilentStages`); the second runs under
the line of the signals. The fields the code does not have (`whole`, `read`, `proved`, `named`) record
what truly happened, for the properties to compare the report with.

## What each run checks

| Run | Instance | Shows |
|---|---|---|
| `stepped_sync` | two wallets, one chain, blocks 0–3, windows 0 and 2, block 3 the last of a u64 (118 170 states) | nothing is skipped, replies are kept across crashes, the plan stays pinned and its percentage honest and monotone, a window always advances, is bounded and leaves fewer to take, `OpaqueSync` is implemented, every `sync_step` returns, a caller who polls gets to the target |
| `relayed_send` | two requests, five digest lists (35 371 states) | only the approved is submitted, at most once; polls lose nothing before the fetch; a given-up send stays unsent; `ApprovedOnce` is implemented; no job is parked for ever |
| `funding_leg` | five balances, four prices and none, three amounts (153 075 states) | a funded run is affordable, an ask is enough, a mined note is spent, a cheaper price never hurts |
| `live_send` | two runs, prices 1 and 2 and a tip of 1, three sets of parameters (395 446 states) | a note is stranded only where price and tip outran what was asked for and read, green is mined, reverts come only from crossing transactions, nothing is signed after a red leg, no shield over a note, every run ends |
| `device_probes` | the five probes on every target with and without the seam, four circuits, amounts 0–2 (84 584 states) | a silence is named, what survived is printed, what is timed and proven is the whole circuit and whose witness it was is said, legs and verdicts say what happened, every probe answers unless it is killed or waits for a page on the page's own thread |
| `disk_records` | two keys, two values (2 284 states) | the files implement an atomic store through failures and deaths |
| `call_walks_further`, `finished_plan_stays`, `status_after_init`, `approval_wasted`, `older_tree`, `proving_is_not_ok` | the same instances, the syncs with one wallet where one suffices | the disagreements below |

Every property of a passing run is broken by at least one of the faulty variants: that is how we know that
the instances reach the case the property is about.

### Bounds

* `MaxBlock = 3` is the smallest chain on which a plan has a fast-forward window, a full window of two,
  a last window of one and a block left over for the chain to grow by. Two wallets are what the
  indexer's record can disagree with; the code never compares three.
* `MaxU64 = 3` is the last block of the chain, so that the sum of a block and a size passes the width in
  `NextWindowEnd`, and a percentage computed without widening would wrap. `WindowAdvances` asks about every size of the width,
  not only those the caller uses.
* Two requests suffice for one job's signatures to be confused with another's; the digest lists are
  nothing, one, two, two swapped and one too many, the cases `relay.rs` tells apart.
* The gas figures 1, 1, 8, 11 keep the order of 45 418, 46 000, 731 335 and 1 008 274 and their rough
  proportions; amounts of a few units are enough for every comparison of `plan` to go both ways. Two runs
  are what it takes for one to meet what the other left.
* Prices 1 and 2 with `Tip = 1` are the edge of the allowed doubling: at price 2 a quote of 1 is just
  covered without the tip and not with it. The run whose transact is refused there after its
  shield is in the instance, and so is the one the ask covers. A tip of 1 next to a price of 1 is a large one: what
  the code offers (the node's suggestion, or 1 gwei) is at times the greater part of the price.
* The four circuits of `device_probes` (`MovingBranch`) are the one the probe was written for, a longer
  version of it, one that takes other signals and says so, and one that takes other signals and does
  not: what `check_signals` and `witness_len_check` can and cannot tell apart. Amounts 0, 1 and 2
  include a note of nothing, whose absence no balance shows, and transfers of a part and of all. Two backends are all there are.
* In `disk_records` two values show a record replaced by another one, and two keys that an operation on
  one leaves the other alone; an operation in progress is on one key.

### Fairness, and why the code justifies it

* `ModuleFairness` (sync): a call being answered is carried on by its thread until its next window ends
  one way or the other. It does not say that windows succeed. `StepReturns` needs nothing else.
* `CallerFairness` is a premise of `CallerFinishes`, not of the specification: the caller goes on
  calling (what the method's documentation asks for), and a window asked for again and again is at some time served
  completely. That is strong fairness, since the node may be down in between.
* `Fairness` (relayed send): the running call is carried on; the keystore sweeps what nobody answers
  (the comment on `relayed_send_cancel` says after a minute); the caller polls, and a poll asked again and again is
  answered. None of it says that a human approves or that the bundler accepts.
* `WF_vars(RunStep)` (live send): a run is one async function on one thread; every call it waits for
  returns or times out. Nothing is assumed of the chain: no transaction need ever be mined.
* `WF_vars(ProbeStep)` (device probes): a probe is one function on one thread and has no waits of its
  own but the crossing to a page. That one is modelled where it bites: a crossing made on the loading
  thread of a page makes the process `"hung"`, which is the end of it. The downloads of the circuit have
  no timeout in the code; one that stalls for ever is given up on like a hang and is in the model as
  `Killed`.

## Where comments and code disagree

1. `call_walks_further`: `glue.rs` 85–87 and `docs/specs.md` 113–114 say that each call of `sync_step`
   syncs at most `blocks`. The call goes round windows of up to `blocks` until its budget is spent
   (`glue.rs` 609–636), and takes the subsquid half in one window whatever `blocks` is. `WindowIsBounded` is what
   does hold, of one window.
2. `finished_plan_stays`: `glue.rs` 327–328 says that `sync_plan` is `None` between syncs. A plan that is
   done is never cleared. The next `sync_step` reports done at once, however far the chain has gone on,
   and `sync_status` says that a sync is running, until somebody calls `sync_cancel`.
3. `status_after_init`: `Plan::synced_block` is "where it has got to now" (`sync.rs` 209). After a second
   `init` the plan held is still the first engine's. `sync_status` shows it and `sync_step` carries it on.
4. `approval_wasted`: `drive_relayed_send` is "safe to call repeatedly" because `fetch_result` is
   idempotent (`glue.rs` 1219–1221). The job leaves the map before the submission, so after one failing
   call to the bundler there is nothing left to repeat and the human has to approve again.
5. `older_tree`: `Run::synced_root` says that the rebuilt accumulator is the contract's, leaf for leaf
   (`live_send.rs` 461–463). `RootWatch` keeps the last verdict only; a mismatch in an older tree is
   overwritten. The leg `root-on-chain` catches it later, after the proof, if it is the tree of the proof's first operation.
6. `proving_is_not_ok`, first half: `glue.rs` 783–785 and `docs/specs.md` 321–322 say that `ok` of
   `witness_engine_probe` answers whether this device can prove, and `witness_engine.rs` 139–141 and 261
   that `EngineDefault` is what the engine proves with. On a physical iOS device the patched engine
   proves with wasmi (`ENGINE_BACKEND`), which is there an alternative and not the headline: wasmi runs,
   the JIT is refused, the answer is no. `VerdictsAreEarned` says what holds on the other targets.
7. `proving_is_not_ok`, second half: the test `the_real_circuit_proves_on_this_host`
   (`proof_circuit.rs` 692–720) proves in a cargo build, which has no engine seam, and asserts `ok()`. The leg
   `engine-witness` of such a build is red and `ok()` wants every leg green: it cannot be. One property
   states both halves, as both are the claim that `ok` says whether the device was seen to prove.
   TLC stops at the first, which takes seven steps; with that half left out it finds the second in thirteen.

Two remarks that are not disagreements a run could show, met while reading:

* `witness_circuit.rs` builds the calculator under the line "entering signals" although a failure of it
  is labelled "instantiate"; a process killed there is silent under the wrong name. This is the exception
  in `SilenceIsNamed`.
* A shield still in the pool when its run gives up is not seen by the next run's survey, which may
  shield again. The code promises nothing here, and the model reaches it.

## What is proved

TLAPS proves, for every value of the constants that meets the modules' named assumptions:

* `SteppedSyncProofs`: type correctness, `NothingSkipped`, `ProgressSurvives`, `PinnedPlan`,
  `WindowIsBounded`, `WindowAdvances`, `PercentIsHonest` and `FewWindows`. `WellFormed`, the order
  start ≤ synced ≤ target with the fast-forward block between start and target, is inductive by itself.
  The percentage and the count of windows need facts on integer division and products in
  `SyncPlanLemmas`, which are not linear and are proved there step by step. The inductive invariant adds to these that a plan only one engine has worked on
  stands at a block that engine's records have reached. Without it `ProgressSurvives` is not
  inductive: a reply is about the plan, and the records are what survives. A second invariant, `CInv`,
  says that no record is ahead of its chain and no target of the chain it was pinned from. On the two
  rests the refinement, `SteppedSyncIsASync`: every step of `SteppedSync` is one step of `OpaqueSync`
  or none. A save of one record alone moves the lesser of the two or leaves it, and only
  the end of a window tells anybody of a block. Three theorems go with it: `DoneSyncsAreWhole` (a plan of
  one account that says done left it where one whole sync to the target would have),
  `StatusIsRightWithoutInit` (another `init` is the only way `status_after_init` comes about) and
  `WindowsOfOneChainAdvance` (a window served completely gets to its end and past where it began). The
  last is the step of `CallerFinishes` that is not about fairness, and has a premise its instance meets
  by having one chain: the engines that stepped the plan were of one chain. Without it a
  plan pinned on one chain and carried on by the engine of a shorter one has windows that cannot advance.
  `StepsOnlyGoForward` is the step of `StepReturns` that is not about fairness: a window either returns to
  the caller or leaves fewer blocks to the plan's target, which is pinned, so that neither a growing
  chain nor an engine that reports success without moving keeps a call going.
* `RelayedSendProofs`: type correctness, all safety invariants, `GivenUpIsNeverSent`, and that
  `RelayedSend` implements `ApprovedOnce`. The inductive invariant `IInv` says in addition that a parked
  job holds what the human was shown, that the request being driven is approved and no longer among the
  jobs once its signatures are taken, and that a request whose send was given up or refused has left
  the map. `ApplySignaturesExact` is the lemma the rest hangs on: signatures are accepted only
  if the second pass asks for exactly the captured digests, in order, all of them.
  A second invariant, `TInv`, says what became of every request whose signatures were fetched: it was
  approved, it has left the jobs, and it is being driven, was lost to a restart, or was answered
  done, mismatch or error. It scopes the finding of `approval_wasted`: by
  `OnlyTheBundlerWastesApprovals` an approval that nobody gave up, whose second pass still asked for
  what was signed and that no restart lost is spent in vain only if the bundler's call failed or its
  reply did not come, after the fetch. `JobsOnlyGoForward` numbers how far a request has to go, 3 to 0:
  no step of anybody's raises it, a job that left the map is never parked again, and a decision, the
  poll of a refused request and a fetch that answers lower it.

* `DiskRecordsProofs`: a record is never torn (`RecordsAreWhole`), and `DiskRecords` implements
  `RecordStore`. What carries the refinement is that a temporary file about to be renamed holds the
  value that was asked for.
* `FundingProofs`: all of `FundingLeg`. With a price that does not saturate no inner sum does either,
  and each reservation is at most the last transaction's at twice the price; from this follow
  `AskIsEnough`, `FundedRunIsAffordable` and `CheaperNeverHurts`. `MinedNoteIsSpent` is inductive with
  the type invariant.
* `LiveSendProofs`: `GreenIsLanded`, `RevertsOnlyWhenCrossed`, `ShieldsOnlyIntoAnEmptyTree`,
  `NothingSignedAfterRed` and `NoteIsNotStranded`. `IInv` says that a run waits for at most one
  transaction of its own and it is the last in the pool, that what was estimated stays possible until a
  transaction of an earlier run crosses it, that the funding leg knows the tree as surveyed, and that
  no red leg is behind a run that can still send. `NoteIsNotStranded` has a second invariant, `BInv`:
  at every leg the purse covers what is still ahead at twice the quoted price while the price, the tip
  with it, has not passed that; and, after the gate, at the price the gate read but for the tips of the shield and the transact,
  unless another run's transaction was mined meanwhile. The theorem holds for every tip. Its one premise is
  `PricesFit`: no price of a whole send leaves 128 bits. The instance meets it (156 of 2000).
  Where the property gives way is where the code does: the prices of `price_run` and
  `can_still_transact` have no tip in them, and `Eoa::send` always adds one.

  A third invariant, `HInv`, is about the chain's side and gives the type correctness of all of it,
  `LiveSendTypeCorrect`: a transaction is mined only if its gas and value are there, an allowance
  or a note is taken only where the estimate's condition still holds, and no more transacts are done or
  queued than runs were made, which bounds `spends` by `MaxRuns`. Holdings of tokens and notes are
  numbers and not 128 bits wide: a wallet's are sums, `uint256` on the chain, that no constant
  of the probe bounds. The purse of wei is within 128 bits, because it is only ever raised to what an ask
  said, and an ask is a saturated `u128`.
  `RunsOnlyGoForward` gives a run a number of steps left, 0 to 24: every step the run makes lowers it,
  sent, refused, waited for or failed, and no step of the chain or the operator raises it.
* `DeviceProbesProofs`: type correctness, `SilenceIsNamed`, `SurvivorsArePrinted`, `MeasuredCircuitRan`
  (invariant `IInv`: the console says what the call is doing, and a report what its stage allows), then
  `LegsSayWhereItStopped` and `VerdictsAreEarned` (`SInv` over it: the legs so far are the first ones of
  the way, green, one for each stage passed). `ProbesOnlyGoForward` counts the stages a call still has
  before it, over all backends and replicas: every step of the probe leaves fewer, however the stage
  went, and a branch that moves under it or a process that is killed adds none.

The assumptions on constants are those named `...Assumption` in the modules, which TLC evaluates in every
run: blocks and prices are numbers within their width, the stand-ins for "nothing", "torn" and
"garbled" are none of the things they stand beside, and `FundingAssumption` and `LiveSendAssumption`
give the gas figures and the chain's prices their types and order. The last also says that thirteen times
the largest gas figure is within 128 bits, so that `with_headroom` is exact on the figures themselves:
13 · 1 008 274 is 24 bits long.

Model-checked only: every liveness property (`StepReturns`, `CallerFinishes`, `EveryJobEnds`,
`RunEnds`, `EveryProbeAnswers`), as fairness and `ENABLED` are not within TLAPS here. What of them does
not need fairness is proved, as a number that is never negative, that no step raises and that each step
of the actor in question lowers: `StepsOnlyGoForward` for `StepReturns`, `WindowsOfOneChainAdvance` for
`CallerFinishes`, `JobsOnlyGoForward` for `EveryJobEnds`, `RunsOnlyGoForward` for `RunEnds` and
`ProbesOnlyGoForward` for `EveryProbeAnswers`. That such a step can be taken, and is, is what TLC checks.

## Not modelled

* `keys.rs` and the two signing schemes: pure cryptography.
* `rpc_backend.rs`: a stateless translation. That a call may fail is modelled where it is made.
* The external engine beyond what `SyncTo`, `Resync`, `Transfer` and the offline probe say of it;
  `prepare_shield`, `prepare_transfer`, `prepare_unshield` and the balances only ask it.
* A loss of power: `db_adapter.rs` does not sync the file it renames, and what a file system keeps of it
  is outside the code. `DiskRecords` is about processes that die.
* The parsing of parameters, the layout of replies, logging, times, sizes and the ETA. A call that does
  not parse answers with an error and changes nothing.
* The chain gate and the key derivation in front of the live send's survey, and the node's identity in
  its report.
* The build files and the scripts that patch dependencies.

## Plan

The order is by what the module is for.

1. **Stepped sync**: `SyncPlan`, `SteppedSync` – done, proved.
2. **Relayed send**: `RelaySigning`, `ApprovedOnce`, `RelayedSend` – done, proved, with refinement.
3. **Live send**: `FundingPlan`, `FundingLeg`, `LiveSend` – done, proved.
4. **Disk database**: `RecordStore`, `DiskRecords` – done, proved, with refinement. Left: to put it under
   the saves of `SteppedSync`, which takes `RecordStore`'s word that they are atomic.
5. **Device probes**: `ProbeProcess`, the five probes, `DeviceProbes` – done, proved.
6. **Stepped sync against one opaque sync** (`OpaqueSync`, abstract) – done, proved, with refinement.
7. **The module as a whole** (`RailgunModule`): the glue's fields together, with `init` against parked
   relayed sends and a held plan. Left; what an `init` does to a plan is in `SteppedSync`, and to parked
   sends nothing, as `jobs` is not touched.
