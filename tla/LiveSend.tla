------------------------------ MODULE LiveSend ------------------------------
(***************************************************************************)
(* The live-send probe, run() of live_send.rs: survey, funding, wrap,      *)
(* approve, shield, resync, note, transfer, root check and broadcast, over *)
(* a chain that mines what is in its pool in order and whose gas price     *)
(* moves.  A run is a sequence of legs, each ending green or red; it may   *)
(* die at any of them, and what it left in the pool is mined without it.   *)
(*                                                                         *)
(* Simplifications.  A leg's failures before it has sent anything (an RPC  *)
(* error, a refused estimate, a build that fails) are one action.  The     *)
(* chain gate and the derivation of the keys, which come before the survey *)
(* and read nothing, are left out.  A transaction uses the gas the code's  *)
(* constants name.  Every transaction offers the tip Tip, the one the node *)
(* suggests or the code's own, and the block it lands in charges it.       *)
(***************************************************************************)
EXTENDS FundingPlan

CONSTANTS
  Fees,        \* bound: the gas prices of the chain
  StartWei,    \* bound: what the EOA may hold to begin with
  StartErc20,  \* bound: the ERC-20 it may hold to begin with
  Questions,   \* the parameters a run may be called with
  MaxRuns,     \* bound: the runs made
  Tip,         \* the priority tip of a transaction
  ShieldFee    \* what the contract keeps of a shield

ASSUME LiveSendAssumption ==
  /\ Fees \subseteq U128
  /\ StartWei \subseteq U128 /\ StartErc20 \subseteq U128
  /\ Questions \subseteq [named : BOOLEAN, asked : U128 \cup {Unset},
                          transfer : U128 \cup {Unset}, broadcast : BOOLEAN]
  /\ {MaxRuns, Tip, ShieldFee} \subseteq Nat
  /\ 13 * GasTransact <= MaxU128    \* no gas figure is near the width of an amount

Tree == {"older", "newest"}
\* The trees of a proof's operations: TLC is given one or two.
Operations == {<<t>> : t \in Tree} \cup {<<t, u>> : t, u \in Tree}
Legs == {"survey", "synced-root", "funding", "wrap", "approve", "shield", "resync",
         "note", "transfer", "root-on-chain", "broadcast"}

VARIABLES
  wei, fee,   \* chain: what the EOA holds, and the gas price
  units,      \* chain: units[t], what the EOA holds of token t
  allowance,  \* chain: allowance[t], what the smart wallet may move of it
  notes,      \* chain: notes[t], what the contract's trees hold for the probe
  spends,     \* chain: spends[t], the transacts mined, each using t's notes up
  pool,       \* chain: the transactions accepted and not mined, in order
  runs,       \* the runs begun
  at,         \* the leg the run is at, or "idle"
  waiting,    \* whether that leg waits for its transaction
  receipt,    \* what came of that transaction: "none", "ok" or "reverted"
  run,        \* the run's parameters and what it has learned
  leg,        \* leg[l]: "none", "green", "red", or "broke" (refused for funds)
  needs,      \* the wei the last run asked its operator for, or Unset
  watch       \* history: what the properties compare a run with

chain == <<wei, fee, units, allowance, notes, spends, pool>>
vars == <<chain, runs, at, waiting, receipt, run, leg, needs, watch>>

NoRun == [q |-> Unset, shielded |-> Unset, roots |-> [t \in Tree |-> TRUE],
          token |-> Unset, amount |-> 0, wrap |-> 0, balance |-> 0, reused |-> FALSE,
          asked |-> FALSE, known |-> FALSE, spends |-> Unset, value |-> 0]
NoWatch == [found |-> FALSE, quoted |-> Unset, gate |-> Unset, peak |-> 0, peakGate |-> 0,
            leftover |-> FALSE, crossed |-> FALSE, landed |-> {}]

-----------------------------------------------------------------------------
Init ==
  /\ wei \in StartWei
  /\ fee \in Fees
  /\ units \in [erc20 : StartErc20, wrapped : {0}]
  /\ allowance = [erc20 |-> 0, wrapped |-> 0]
  /\ notes = [erc20 |-> 0, wrapped |-> 0]
  /\ spends = [erc20 |-> 0, wrapped |-> 0]
  /\ pool = <<>>
  /\ runs = 0
  /\ at = "idle"
  /\ waiting = FALSE
  /\ receipt = "none"
  /\ run = NoRun
  /\ leg = [l \in Legs |-> "none"]
  /\ needs = Unset
  /\ watch = NoWatch

\* The run is over: what it still had in the pool is nobody's any more.
Over ==
  /\ at' = "idle"
  /\ waiting' = FALSE
  /\ receipt' = "none"
  /\ run' = NoRun

Abandon(p) == [i \in DOMAIN p |-> [p[i] EXCEPT !.ours = FALSE]]

\* A bug: the next leg waits on the transaction of this one.
GreenKeepingReceipt(l, next) ==
  /\ leg' = [leg EXCEPT ![l] = "green"]
  /\ at' = next
  /\ waiting' = FALSE
  /\ UNCHANGED receipt

\* The leg l ends green and the run goes on with `next`.
Green(l, next) ==
  /\ leg' = [leg EXCEPT ![l] = "green"]
  /\ at' = next
  /\ waiting' = FALSE
  /\ receipt' = "none"

\* The leg l ends red and the run with it.
Red(l, how) ==
  /\ leg' = [leg EXCEPT ![l] = how]
  /\ Over

Start(q) ==
  /\ at = "idle"
  /\ runs < MaxRuns
  /\ runs' = runs + 1
  /\ at' = "survey"
  /\ run' = [NoRun EXCEPT !.q = q]
  /\ leg' = [l \in Legs |-> "none"]
  /\ needs' = Unset
  /\ watch' = NoWatch
  /\ UNCHANGED <<chain, waiting, receipt>>

\* The tokens whose notes a run can spend, in its order of preference.
Candidates == IF run.q.named THEN <<"erc20">> ELSE <<"erc20", "wrapped">>

InTree == [i \in DOMAIN Candidates |-> [token |-> Candidates[i], units |-> notes[Candidates[i]]]]

\* survey: engine, sync, the contract's verdicts on the trees it wrote and the
\* balance.  Only the verdict on the last tree is kept, and looked at.
SurveyCompletes(roots) ==
  /\ at = "survey"
  /\ IF roots["newest"]
       THEN /\ run' = [run EXCEPT !.shielded = InTree, !.roots = roots, !.spends = spends]
            /\ leg' = [leg EXCEPT !["survey"] = "green", !["synced-root"] = "green"]
       ELSE /\ run' = [run EXCEPT !.roots = roots]
            /\ leg' = [leg EXCEPT !["survey"] = "green", !["synced-root"] = "red"]
  /\ at' = "funding"
  /\ watch' = [watch EXCEPT !.found = Spendable(InTree) # {}]
  /\ UNCHANGED <<chain, runs, waiting, receipt, needs>>

\* The engine is not built or the sync fails: the run goes on to its ask.
SurveyFails ==
  /\ at = "survey"
  /\ leg' = [leg EXCEPT !["survey"] = "red"]
  /\ at' = "funding"
  /\ watch' = [watch EXCEPT !.found = Spendable(InTree) # {}]
  /\ UNCHANGED <<chain, runs, waiting, receipt, run, needs>>

PurseNow(quoted) ==
  [wei |-> wei, erc20 |-> units["erc20"],
   wrapped |-> IF run.q.named THEN Unset ELSE units["wrapped"], fee |-> quoted]

\* Where a funded run goes: to the proof with a note that is there, or to put
\* one there.
AfterFunding(answer) ==
  CASE answer.kind = "spend" -> "transfer"
    [] answer.kind = "shield" /\ answer.wrap # 0 -> "wrap"
    [] answer.kind = "shield" /\ answer.wrap = 0 -> "approve"

Chosen(answer) ==
  IF answer.kind = "spend"
    THEN [run EXCEPT !.token = answer.token, !.balance = answer.units, !.reused = TRUE]
    ELSE [run EXCEPT !.token = answer.token, !.amount = answer.units, !.wrap = answer.wrap]

Surveyed == IF run.shielded = Unset THEN <<>> ELSE run.shielded

\* A bug: a run whose survey went red goes on to send.
FundingUnsurveyed(quoted) ==
  /\ at = "funding"
  /\ watch' = [watch EXCEPT !.quoted = quoted, !.peak = fee]
  /\ LET answer == Plan(PurseNow(quoted), run.q.asked, Surveyed)
     IN  \/ /\ answer.kind = "ask"
            /\ needs' = answer.wei
            /\ Red("funding", "red")
         \/ /\ answer.kind # "ask"
            /\ run' = Chosen(answer)
            /\ UNCHANGED needs
            /\ Green("funding", AfterFunding(answer))
  /\ UNCHANGED <<chain, runs>>

\* The purse is not read.
FundingFails ==
  /\ at = "funding"
  /\ Red("funding", "red")
  /\ UNCHANGED <<chain, runs, needs, watch>>

\* The funding leg: the purse and the quoted price are read and plan decides.
\* Without a surveyed engine the answer is for the operator only.
Funding(quoted) ==
  /\ at = "funding"
  /\ watch' = [watch EXCEPT !.quoted = quoted, !.peak = fee]
  /\ LET answer == Plan(PurseNow(quoted), run.q.asked, Surveyed)
     IN  \/ /\ answer.kind = "ask"
            /\ needs' = answer.wei
            /\ Red("funding", "red")
         \/ /\ answer.kind # "ask"
            /\ run.shielded = Unset
            /\ UNCHANGED needs
            /\ leg' = [leg EXCEPT !["funding"] = "green"]
            /\ Over
         \/ /\ answer.kind # "ask"
            /\ run.shielded # Unset
            /\ run' = Chosen(answer)
            /\ UNCHANGED needs
            /\ Green("funding", AfterFunding(answer))
  /\ UNCHANGED <<chain, runs>>

-----------------------------------------------------------------------------
\* The transaction of leg l.
Tx(l) == [leg |-> l, ceiling |-> 2 * fee + Tip, ours |-> TRUE, token |-> run.token,
          amount |-> CASE l = "wrap" -> run.wrap
                       [] l \in {"approve", "shield"} -> run.amount
                       [] l = "broadcast" -> run.value,
          known |-> run.known, spends |-> run.spends]

GasOf(l) == CASE l = "wrap" -> GasWrap
              [] l = "approve" -> GasApprove
              [] l = "shield" -> GasShield
              [] l = "broadcast" -> GasTransact

\* What a node makes the EOA hold to accept it.
Holds(l) ==
  wei >= WithHeadroom(GasOf(l)) * (2 * fee + Tip) + (IF l = "wrap" THEN run.wrap ELSE 0)

\* Whether a transaction, mined now, does what it is for: an estimate says so.
\* A transact of no operation spends nothing, and nothing is against it.
Succeeds(tx) ==
  CASE tx.leg = "shield" -> tx.amount <= allowance[tx.token] /\ tx.amount <= units[tx.token]
    [] tx.leg = "broadcast" ->
         /\ tx.amount <= notes[tx.token]
         /\ tx.spends # Unset => tx.known /\ tx.spends[tx.token] = spends[tx.token]
    [] OTHER -> TRUE

\* A bug: a fixed limit, and no estimate that would tell of a revert.
SendsUnestimated(l, replied) ==
  /\ at = l
  /\ ~waiting
  /\ Holds(l)
  /\ replied
  /\ pool' = Append(pool, Tx(l))
  /\ waiting' = TRUE
  /\ watch' = [watch EXCEPT !.crossed = FALSE]
  /\ UNCHANGED <<wei, fee, units, allowance, notes, spends, runs, at, receipt, run, leg, needs>>

\* Eoa::send in the leg l: estimated, signed and accepted.  If the reply is
\* lost the run is told of a failure, and the transaction is in the pool.
Sends(l, replied) ==
  /\ at = l
  /\ ~waiting
  /\ Succeeds(Tx(l))
  /\ Holds(l)
  /\ IF replied
       THEN /\ pool' = Append(pool, Tx(l))
            /\ waiting' = TRUE
            /\ UNCHANGED <<at, receipt, run, leg>>
       ELSE /\ pool' = Append(Abandon(pool), [Tx(l) EXCEPT !.ours = FALSE])
            /\ Red(l, "red")
  /\ watch' = [watch EXCEPT !.crossed = FALSE]
  /\ UNCHANGED <<wei, fee, units, allowance, notes, spends, runs, needs>>

\* The leg fails with nothing sent: an RPC error, a call that would revert, or
\* an EOA that holds too little.
Refused(l) ==
  /\ at = l
  /\ ~waiting
  /\ Red(l, IF Succeeds(Tx(l)) /\ ~Holds(l) THEN "broke" ELSE "red")
  /\ UNCHANGED <<chain, runs, needs, watch>>

\* A bug: any receipt is a success.
WaitSucceedsUnread(l, next) ==
  /\ at = l
  /\ waiting
  /\ receipt # "none"
  /\ Green(l, next)
  /\ UNCHANGED <<chain, runs, run, needs, watch>>

\* Eoa::wait in the leg l finds a receipt that says 0x1.
WaitSucceeds(l, next) ==
  /\ at = l
  /\ waiting
  /\ receipt = "ok"
  /\ Green(l, next)
  /\ UNCHANGED <<chain, runs, run, needs, watch>>

\* A bug: only a receipt ends the wait.
WaitFailsUnbudgeted(l) ==
  /\ at = l
  /\ waiting
  /\ receipt = "reverted"
  /\ Red(l, "red")
  /\ UNCHANGED <<chain, runs, needs, watch>>

\* Eoa::wait fails: a receipt that says anything else, an RPC error, or a
\* budget that ran out, the last two with the transaction still in the pool.
WaitFails(l) ==
  /\ at = l
  /\ waiting
  /\ Red(l, "red")
  /\ pool' = Abandon(pool)
  /\ UNCHANGED <<wei, fee, units, allowance, notes, spends, runs, needs, watch>>

-----------------------------------------------------------------------------
\* wrap_native: deposit() for what the wrapped balance is short of.
Wrap ==
  \/ \E replied \in BOOLEAN : Sends("wrap", replied)
  \/ Refused("wrap")
  \/ WaitSucceeds("wrap", "approve")
  \/ WaitFails("wrap")

\* An allowance that is already enough is a green leg with no transaction.
AllowanceSuffices ==
  /\ at = "approve"
  /\ ~waiting
  /\ allowance[run.token] >= run.amount
  /\ Green("approve", "gate")
  /\ UNCHANGED <<chain, runs, run, needs, watch>>

Approve ==
  \/ AllowanceSuffices
  \/ /\ at = "approve"
     /\ allowance[run.token] < run.amount
     /\ \E replied \in BOOLEAN : Sends("approve", replied)
  \/ Refused("approve")
  \/ WaitSucceeds("approve", "gate")
  \/ WaitFails("approve")

\* shield_gate: refuse a shield whose note the EOA could not then spend, at the
\* price as it is now.  A node that does not answer is not a refusal.
ShieldGate(answers) ==
  /\ at = "gate"
  /\ watch' = [watch EXCEPT !.gate = IF answers THEN fee ELSE Unset, !.peakGate = fee]
  /\ IF answers /\ ~CanStillTransact(wei, fee)
       THEN Red("shield", "red")
       ELSE at' = "shield" /\ UNCHANGED <<waiting, receipt, run, leg>>
  /\ UNCHANGED <<chain, runs, needs>>

Shield ==
  \/ \E answers \in BOOLEAN : ShieldGate(answers)
  \/ \E replied \in BOOLEAN : Sends("shield", replied)
  \/ Refused("shield")
  \/ WaitSucceeds("shield", "resync")
  \/ WaitFails("shield")

\* sync_windows again: the blocks since the survey, the shield's among them.
\* The contract is asked about the new roots and nobody looks at its verdicts.
Resync(roots) ==
  /\ at = "resync"
  /\ \/ /\ run' = [run EXCEPT !.roots = roots, !.balance = notes[run.token], !.spends = spends]
        /\ Green("resync", "note")
     \/ Red("resync", "red")
  /\ UNCHANGED <<chain, runs, needs, watch>>

\* The note the shield left is in the engine's balance, or the leg is red.
Note ==
  /\ at = "note"
  /\ IF run.balance = 0
       THEN Red("note", "red")
       ELSE Green("note", "transfer") /\ UNCHANGED run
  /\ UNCHANGED <<chain, runs, needs, watch>>

Smaller(a, b) == IF a < b THEN a ELSE b

\* The proof: half of the balance, or what the caller asked for and no more
\* than the balance, in operations over the trees `ops`, in order.  The chain
\* will want the root of each; the one asked about next is the first's.
Transfer(ops) ==
  /\ at = "transfer"
  /\ LET wanted == IF run.q.transfer = Unset THEN run.balance \div 2 ELSE run.q.transfer
     IN  \/ /\ run' = [run EXCEPT !.value = Smaller(wanted, run.balance),
                                  !.asked = run.roots[Head(ops)],
                                  !.known = \A i \in DOMAIN ops : run.roots[ops[i]]]
            /\ Green("transfer", "root-on-chain")
         \/ Red("transfer", "red")
  /\ UNCHANGED <<chain, runs, needs, watch>>

\* The engine builds a transaction with no operation in it: there is no root to
\* ask about, and the leg that asks is passed over.
TransfersNothing ==
  /\ at = "transfer"
  /\ IF run.q.broadcast
       THEN /\ run' = [run EXCEPT !.spends = Unset]
            /\ Green("transfer", "broadcast")
       ELSE /\ leg' = [leg EXCEPT !["transfer"] = "green"]
            /\ Over
  /\ UNCHANGED <<chain, runs, needs, watch>>

\* The contract is asked about the root the proof's first operation was built
\* over.  A run that was not asked to broadcast ends here.
RootOnChain ==
  /\ at = "root-on-chain"
  /\ \/ /\ run.asked /\ run.q.broadcast
        /\ Green("root-on-chain", "broadcast")
        /\ UNCHANGED run
     \/ /\ run.asked /\ ~run.q.broadcast
        /\ leg' = [leg EXCEPT !["root-on-chain"] = "green"]
        /\ Over
     \/ Red("root-on-chain", "red")
  /\ UNCHANGED <<chain, runs, needs, watch>>

\* The chain's own verdict on the proof; then the run is finished.
BroadcastLands ==
  /\ at = "broadcast"
  /\ waiting
  /\ receipt = "ok"
  /\ leg' = [leg EXCEPT !["broadcast"] = "green"]
  /\ Over
  /\ UNCHANGED <<chain, runs, needs, watch>>

Broadcast ==
  \/ \E replied \in BOOLEAN : Sends("broadcast", replied)
  \/ Refused("broadcast")
  \/ BroadcastLands
  \/ WaitFails("broadcast")

\* The process dies in the middle of a run.  Nothing of it is kept.
Dies ==
  /\ at # "idle"
  /\ pool' = Abandon(pool)
  /\ Over
  /\ UNCHANGED <<wei, fee, units, allowance, notes, spends, runs, leg, needs, watch>>

-----------------------------------------------------------------------------
\* The chain mines the head of the pool once its ceiling covers the gas price,
\* and charges the price of the block, not the ceiling.
Mine ==
  /\ pool # <<>>
  /\ LET tx == Head(pool)
         gas == GasOf(tx.leg)
         value == IF tx.leg = "wrap" THEN tx.amount ELSE 0
         price == Smaller(tx.ceiling, fee + Tip)
         t == tx.token
     IN  /\ fee <= tx.ceiling
         /\ wei >= WithHeadroom(gas) * tx.ceiling + value
         /\ pool' = Tail(pool)
         /\ IF Succeeds(tx)
              THEN /\ wei' = wei - gas * price - value
                   /\ units' = [units EXCEPT ![t] = CASE tx.leg = "wrap" -> @ + tx.amount
                                                      [] tx.leg = "shield" -> @ - tx.amount
                                                      [] OTHER -> @]
                   /\ allowance' = [allowance EXCEPT ![t] = CASE tx.leg = "approve" -> tx.amount
                                                              [] tx.leg = "shield" -> @ - tx.amount
                                                              [] OTHER -> @]
                   /\ notes' = [notes EXCEPT ![t] =
                                  CASE tx.leg = "shield" -> @ + SatSub(tx.amount, ShieldFee)
                                    [] tx.leg = "broadcast" -> @ - tx.amount
                                    [] OTHER -> @]
                   /\ spends' = [spends EXCEPT ![t] = IF tx.leg = "broadcast" /\ tx.spends # Unset
                                                       THEN @ + 1 ELSE @]
              ELSE /\ wei' = wei - gas * price
                   /\ UNCHANGED <<units, allowance, notes, spends>>
         /\ receipt' = IF tx.ours THEN IF Succeeds(tx) THEN "ok" ELSE "reverted" ELSE receipt
         /\ watch' = IF tx.ours
                       THEN [watch EXCEPT !.landed = IF Succeeds(tx) THEN @ \cup {tx.leg} ELSE @]
                       ELSE [watch EXCEPT !.leftover = @ \/ at # "idle", !.crossed = waiting]
  /\ UNCHANGED <<fee, runs, at, waiting, run, leg, needs>>

FeeMoves(f) ==
  /\ f # fee
  /\ fee' = f
  /\ watch' = [watch EXCEPT !.peak = Larger(@, f), !.peakGate = Larger(@, f)]
  /\ UNCHANGED <<wei, units, allowance, notes, spends, pool, runs, at, waiting, receipt, run, leg,
                 needs>>

\* The operator sends what the last run asked for.
TopUp ==
  /\ at = "idle"
  /\ needs # Unset
  /\ wei' = Larger(wei, needs)
  /\ needs' = Unset
  /\ UNCHANGED <<fee, units, allowance, notes, spends, pool, runs, at, waiting, receipt, run, leg,
                 watch>>

\* What the run itself does next.
RunStep ==
  \/ \E roots \in [Tree -> BOOLEAN] : SurveyCompletes(roots) \/ Resync(roots)
  \/ SurveyFails
  \/ \E quoted \in {fee, Unset} : Funding(quoted)
  \/ FundingFails
  \/ Wrap
  \/ Approve
  \/ Shield
  \/ Note
  \/ \E ops \in Operations : Transfer(ops)
  \/ TransfersNothing
  \/ RootOnChain
  \/ Broadcast

Next ==
  \/ \E q \in Questions : Start(q)
  \/ RunStep
  \/ Dies
  \/ Mine
  \/ \E f \in Fees : FeeMoves(f)
  \/ TopUp

Spec == Init /\ [][Next]_vars

\* A run takes its steps: every call it waits for answers or times out.
FairSpec == Spec /\ WF_vars(RunStep)

-----------------------------------------------------------------------------
TypeOK ==
  /\ wei \in U128 /\ fee \in Fees
  /\ {units, allowance, notes} \subseteq [Token -> Nat]
  /\ spends \in [Token -> 0 .. MaxRuns]
  /\ \A i \in DOMAIN pool :
       /\ pool[i].leg \in {"wrap", "approve", "shield", "broadcast"}
       /\ pool[i].token \in Token /\ pool[i].amount \in Nat
  /\ runs \in 0 .. MaxRuns
  /\ at \in {"idle", "gate"} \cup (Legs \ {"synced-root"})
  /\ waiting \in BOOLEAN /\ receipt \in {"none", "ok", "reverted"}
  /\ receipt # "none" => waiting
  /\ leg \in [Legs -> {"none", "green", "red", "broke"}]
  /\ needs \in U128 \cup {Unset}

(***************************************************************************)
(* Green is what the chain says: a leg that sends is green only once its   *)
(* own transaction was mined and did what it was for, whatever of earlier  *)
(* runs was mined meanwhile (Eoa::wait, which reads a receipt's status).   *)
(***************************************************************************)
GreenIsLanded ==
  \A l \in {"wrap", "shield", "broadcast"} : leg[l] = "green" => l \in watch.landed

(***************************************************************************)
(* A transaction of the run reverts only if one of another run was mined   *)
(* while it waited: everything else that could make it fail was said by    *)
(* the estimate, for free (Eoa::gas_limit, which propagates the error).    *)
(***************************************************************************)
RevertsOnlyWhenCrossed == receipt = "reverted" => watch.crossed

\* What enters the pool in this step, if anything does.
Signs == Len(pool') > Len(pool)

(***************************************************************************)
(* No run strands its note for want of gas.  The transact is refused for   *)
(* funds only if the price, the tip with it, went past twice what the      *)
(* funding leg quoted, and rose since the gate read it or went unread      *)
(* there; or another run's transaction spent the purse meanwhile           *)
(* (price_run and can_still_transact together).  The gate does not count   *)
(* the tip: at the price it read, what is missing is at most the tips of   *)
(* the shield and of the transact.                                         *)
(***************************************************************************)
QuoteOutrun == watch.quoted = Unset \/ watch.peak + Tip > 2 * watch.quoted
GateOutrun == watch.gate = Unset \/ watch.peakGate > watch.gate
ShortOfTips ==
  wei + Tip * (GasShield + WithHeadroom(GasTransact)) >= WithHeadroom(GasTransact) * (2 * fee + Tip)

NoteIsNotStranded ==
  [][(leg["broadcast"] # "broke" /\ leg'["broadcast"] = "broke") =>
       watch.leftover \/ (QuoteOutrun /\ (GateOutrun \/ ShortOfTips))]_vars

(***************************************************************************)
(* No run shields while the tree it surveyed holds a note worth sending,   *)
(* whatever became of that survey: the leaf would be abandoned             *)
(* (Plan::Spend, the survey every run makes first).                        *)
(***************************************************************************)
ShieldsOnlyIntoAnEmptyTree ==
  [][(Signs /\ pool'[Len(pool')].leg = "shield") => ~watch.found]_vars

(***************************************************************************)
(* Nothing is signed after a leg went red, the survey's included, after    *)
(* which the funding leg still answers the operator (run's early returns). *)
(***************************************************************************)
NothingSignedAfterRed ==
  [][Signs => \A l \in Legs : leg[l] \notin {"red", "broke"}]_vars

(***************************************************************************)
(* Every run ends: a transaction that is never mined does not hold it      *)
(* (the budget of Eoa::wait).                                              *)
(***************************************************************************)
RunEnds == at # "idle" ~> at = "idle"

(***************************************************************************)
(* What Run::synced_root and docs/specs.md say of a survey whose           *)
(* synced-root leg is green: the tree the engine rebuilt is the            *)
(* contract's, so no proof over it has an unknown root.  A proof may be    *)
(* over an older tree, whose verdict the next one overwrote.               *)
(***************************************************************************)
SyncedRootIsWhole ==
  (leg["synced-root"] = "green" /\ run.reused /\ at = "root-on-chain") => run.known
=============================================================================
