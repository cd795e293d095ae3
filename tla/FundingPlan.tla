---------------------------- MODULE FundingPlan ----------------------------
(***************************************************************************)
(* The funding arithmetic of live_send.rs: what a node makes an account    *)
(* hold for a transaction, what a whole private send and a rescue of an    *)
(* already shielded note are priced at, the question asked right before    *)
(* the shield, and the decision what to send out of which holding.         *)
(*                                                                         *)
(* Amounts are u128 and every sum and product of the code saturates.  The  *)
(* gas figures are constants because TLC's integers are 32 bits wide: the  *)
(* instances scale them down and keep their order.                         *)
(***************************************************************************)
EXTENDS Integers, Sequences

CONSTANTS
  MaxU128,             \* the largest amount
  GasWrap, GasApprove, GasShield, GasTransact,
  MinGasWei,           \* the floor under an ask
  DefaultShield,       \* what is shielded of an ERC-20 already held
  DefaultWrapShield,   \* what is shielded of the wrapped base token
  Unset                \* None: no price quoted, no amount or asset named

U128 == 0 .. MaxU128

ASSUME FundingAssumption ==
  /\ MaxU128 \in Nat \ {0}
  /\ {GasWrap, GasApprove, GasShield, GasTransact} \subseteq Nat \ {0}
  /\ {GasWrap, GasApprove, GasShield} \subseteq 1 .. GasTransact
  /\ {MinGasWei, DefaultShield, DefaultWrapShield} \subseteq U128
  /\ Unset \notin Int

MaxFeeMultiple == 2
FeeDriftMultiple == 2
MinTransferable == 2

Sat(n) == IF n < MaxU128 THEN n ELSE MaxU128
SatSub(a, b) == IF a < b THEN 0 ELSE a - b
Larger(a, b) == IF a < b THEN b ELSE a

-----------------------------------------------------------------------------
\* The 30 % put over an estimate.
WithHeadroom(gas) == Sat(gas * 13) \div 10

\* What a node makes an account hold: the limit at the ceiling of the fee.
Reservation(fee, gas) == Sat(Sat(fee * MaxFeeMultiple) * WithHeadroom(gas))

\* A bug: the ask is what the four transactions pay.
PriceRunSpentOnly(fee, wrap) ==
  LET drifted == Sat(fee * FeeDriftMultiple)
      spent == Sat(drifted * (GasWrap + GasApprove + GasShield + GasTransact))
  IN  Larger(Sat(wrap + spent), Sat(MinGasWei + wrap))

\* The price of one whole send at a fee that may drift: what the wrap moves
\* out, what the legs before the transact pay, what the transact reserves.
PriceRun(fee, wrap) ==
  LET drifted == Sat(fee * FeeDriftMultiple)
      spent == Sat(drifted * (GasWrap + GasApprove + GasShield))
      heldBack == Reservation(drifted, GasTransact)
  IN  Larger(Sat(Sat(wrap + spent) + heldBack), Sat(MinGasWei + wrap))

\* The price of spending a note that is already in the tree.
PriceSpend(fee) == Reservation(Sat(fee * FeeDriftMultiple), GasTransact)

\* A bug: what the shield itself will pay is left out.
CanStillTransactForgetful(wei, fee) ==
  /\ wei >= Reservation(fee, GasShield)
  /\ wei >= Reservation(fee, GasTransact)

\* Whether the purse can pay for the transact after the shield.
CanStillTransact(wei, fee) ==
  /\ wei >= Reservation(fee, GasShield)
  /\ SatSub(wei, Sat(fee * GasShield)) >= Reservation(fee, GasTransact)

-----------------------------------------------------------------------------
\* A purse: the EOA's wei and token units, and the gas price the node quotes.
\* `wrapped` is Unset when the caller named an asset.
Purse == [wei : U128, erc20 : U128, wrapped : U128 \cup {Unset}, fee : U128 \cup {Unset}]

Token == {"erc20", "wrapped"}
Holding == [token : Token, units : U128]

\* A bug: a note of one unit is taken for one that can be split.
SpendableDust(shielded) == {i \in DOMAIN shielded : shielded[i].units >= 1}

\* The notes worth sending: half of one is sent, so one unit is not.
Spendable(shielded) == {i \in DOMAIN shielded : shielded[i].units >= MinTransferable}

\* The first spendable note in the caller's order of preference.
FirstNote(shielded) ==
  shielded[CHOOSE i \in Spendable(shielded) : \A j \in Spendable(shielded) : i <= j]

WantErc20(asked) == IF asked = Unset THEN DefaultShield ELSE asked
WantWrapped(asked) == IF asked = Unset THEN DefaultWrapShield ELSE asked

\* The wei a wrap would mint with: what the wrapped balance is short of.
Shortfall(purse, asked) ==
  IF purse.wrapped = Unset THEN 0 ELSE SatSub(WantWrapped(asked), purse.wrapped)

Priced(purse, wrap) ==
  IF purse.fee = Unset THEN Sat(MinGasWei + wrap) ELSE PriceRun(purse.fee, wrap)

PricedSpend(purse) == IF purse.fee = Unset THEN MinGasWei ELSE PriceSpend(purse.fee)

Ask(wei) == [kind |-> "ask", wei |-> wei]
SpendNote(note) == [kind |-> "spend", token |-> note.token, units |-> note.units]
ShieldUnits(token, units, wrap) ==
  [kind |-> "shield", token |-> token, units |-> units, wrap |-> wrap]

\* A bug: the ERC-20 already held is shielded before the gas is looked at.
PlanShieldGasLast(purse, asked) ==
  LET fullAsk == Priced(purse, Shortfall(purse, asked))
  IN  IF purse.erc20 >= WantErc20(asked)
        THEN ShieldUnits("erc20", WantErc20(asked), 0)
        ELSE IF purse.wrapped # Unset /\ purse.wei >= fullAsk
          THEN ShieldUnits("wrapped", WantWrapped(asked), Shortfall(purse, asked))
          ELSE Ask(fullAsk)

\* A bug: an ask is for the gas alone, whatever has to be wrapped.
PlanShieldAskingGasOnly(purse, asked) ==
  LET fullAsk == Priced(purse, Shortfall(purse, asked))
  IN  IF purse.wei >= Priced(purse, 0) /\ purse.erc20 >= WantErc20(asked)
        THEN ShieldUnits("erc20", WantErc20(asked), 0)
        ELSE IF purse.wrapped # Unset /\ purse.wei >= fullAsk
          THEN ShieldUnits("wrapped", WantWrapped(asked), Shortfall(purse, asked))
          ELSE Ask(Priced(purse, 0))

\* Nothing spendable in the tree: with gas for a whole run, shield the ERC-20
\* already held, or the wrapped token, wrapping what it is short of if the wei
\* cover that too; otherwise ask.
PlanShield(purse, asked) ==
  LET fullAsk == Priced(purse, Shortfall(purse, asked))
      gasCovered == purse.wei >= Priced(purse, 0)
  IN  IF gasCovered /\ purse.erc20 >= WantErc20(asked)
        THEN ShieldUnits("erc20", WantErc20(asked), 0)
        ELSE IF gasCovered /\ purse.wrapped # Unset /\ purse.wei >= fullAsk
          THEN ShieldUnits("wrapped", WantWrapped(asked), Shortfall(purse, asked))
          ELSE Ask(fullAsk)

\* A bug: the tree is not asked before the purse.
PlanIgnoringTree(purse, asked, shielded) == PlanShield(purse, asked)

\* plan: a note already in the tree is spent, for the price of that alone;
\* without one the run has to put a note there.
Plan(purse, asked, shielded) ==
  IF Spendable(shielded) # {}
    THEN IF purse.wei < PricedSpend(purse)
           THEN Ask(PricedSpend(purse))
           ELSE SpendNote(FirstNote(shielded))
    ELSE PlanShield(purse, asked)
=============================================================================
