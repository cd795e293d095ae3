----------------------------- MODULE FundingLeg -----------------------------
(***************************************************************************)
(* The funding leg of the live-send probe as its operator meets it: a run  *)
(* reads the purse and either goes ahead or asks; the operator sends what  *)
(* was asked for and runs it again, while the gas price moves and another  *)
(* shield of the probe's is mined.                                         *)
(***************************************************************************)
EXTENDS FundingPlan

CONSTANTS
  Fees,      \* bound: the gas prices the node quotes
  Balances,  \* bound: the token balances the EOA starts with
  Amounts    \* bound: the amounts a caller asks to be shielded

ASSUME FundingLegAssumption ==
  Fees \subseteq U128 /\ Balances \subseteq U128 /\ Amounts \subseteq U128

VARIABLES
  purse,     \* what the EOA holds and what the node quotes
  asked,     \* the amount the caller named, or Unset
  shielded,  \* what the tree holds for the probe, in order of preference
  answer     \* what the last run's funding leg decided

vars == <<purse, asked, shielded, answer>>

Decided == answer' = Plan(purse', asked, shielded')

\* A caller who names an asset leaves only that one to look for in the tree.
Candidates(p) == IF p.wrapped = Unset THEN <<"erc20">> ELSE <<"erc20", "wrapped">>

Init ==
  /\ purse \in [wei : Balances, erc20 : Balances,
                wrapped : Balances \cup {Unset}, fee : Fees \cup {Unset}]
  /\ asked \in Amounts \cup {Unset}
  /\ shielded = [i \in DOMAIN Candidates(purse) |->
                   [token |-> Candidates(purse)[i], units |-> 0]]
  /\ answer = Plan(purse, asked, shielded)

\* The operator sends what the ask says, and the probe is run again.
TopUp ==
  /\ answer.kind = "ask"
  /\ purse' = [purse EXCEPT !.wei = Larger(@, answer.wei)]
  /\ UNCHANGED <<asked, shielded>>
  /\ Decided

\* The gas price is another by the next run.
FeeMoves(fee) ==
  /\ purse' = [purse EXCEPT !.fee = fee]
  /\ UNCHANGED <<asked, shielded>>
  /\ Decided

\* A shield of an earlier run turns out to have been mined.
NoteMined(i, units) ==
  /\ shielded[i].units = 0
  /\ shielded' = [shielded EXCEPT ![i].units = units]
  /\ UNCHANGED <<purse, asked>>
  /\ Decided

Next ==
  \/ TopUp
  \/ \E fee \in Fees \cup {Unset} : FeeMoves(fee)
  \/ \E i \in DOMAIN shielded, units \in Balances \ {0} : NoteMined(i, units)

Spec == Init /\ [][Next]_vars

-----------------------------------------------------------------------------
TypeOK ==
  /\ purse \in Purse
  /\ asked \in U128 \cup {Unset}
  /\ shielded \in Seq(Holding)
  /\ \/ answer \in [kind : {"ask"}, wei : U128]
     \/ answer \in [kind : {"spend"}, token : Token, units : MinTransferable .. MaxU128]
     \/ answer \in [kind : {"shield"}, token : Token, units : U128, wrap : U128]

\* The EOA's wei at each send of a run that goes ahead, when every price quoted
\* is f and every transaction lands at the price p.
AcceptedAllTheWay(f, p) ==
  LET beforeApprove == purse.wei - answer.wrap - (IF answer.wrap = 0 THEN 0 ELSE p * GasWrap)
      beforeShield == beforeApprove - p * GasApprove
      beforeTransact == beforeShield - p * GasShield
  IN  /\ answer.wrap # 0 => purse.wei >= Reservation(f, GasWrap) + answer.wrap
      /\ beforeApprove >= Reservation(f, GasApprove)
      /\ beforeShield >= Reservation(f, GasShield)
      /\ beforeTransact >= Reservation(f, GasTransact)

(***************************************************************************)
(* A run that passes the funding leg can carry its send to the end: while  *)
(* the gas price stays within twice what was quoted, the node refuses none *)
(* of its transactions for lack of funds, the transact after the shield    *)
(* least of all (price_run, which reserves for the last leg, not only      *)
(* spends for all; tips are left out, as the code says, and so is a price  *)
(* so high that it saturates).                                             *)
(***************************************************************************)
FundedRunIsAffordable ==
  (answer.kind = "shield" /\ purse.fee # Unset) =>
    (PriceRun(purse.fee, answer.wrap) < MaxU128 =>
       \A f, p \in 0 .. 2 * purse.fee : AcceptedAllTheWay(f, p))

(***************************************************************************)
(* A run that goes ahead with a note already in the tree can pay for the   *)
(* one transaction left, and is asked for no more than that: a purse that  *)
(* affords the rescue is never told to pay for a whole second run, and no  *)
(* run shields while a note is there to be spent.                          *)
(***************************************************************************)
MinedNoteIsSpent ==
  Spendable(shielded) # {} =>
    /\ answer.kind # "shield"
    /\ purse.fee # Unset =>
         (answer.kind = "spend" <=> purse.wei >= Reservation(Sat(2 * purse.fee), GasTransact))

(***************************************************************************)
(* An ask is enough: an operator who sends exactly what it says, at the    *)
(* price it was made at, gets a run; only an ERC-20 the caller named can   *)
(* still be missing (plan's ask closure).                                  *)
(***************************************************************************)
AskIsEnough ==
  [][TopUp => \/ answer'.kind # "ask"
              \/ purse.wrapped = Unset /\ purse.erc20 < WantErc20(asked)]_vars

(***************************************************************************)
(* The funding never turns on an operator: a gas price that does not rise  *)
(* and a tree that gains a note never turn a run that would go ahead into  *)
(* an ask.                                                                 *)
(***************************************************************************)
CheaperNeverHurts ==
  [][(/\ answer.kind # "ask"
      /\ purse.fee # Unset /\ purse'.fee # Unset
      /\ purse'.fee <= purse.fee) => answer'.kind # "ask"]_vars
=============================================================================
