---------------------------- MODULE FundingProofs ----------------------------
(***************************************************************************)
(* The funding leg for every width of an amount, all gas figures, prices,  *)
(* balances and amounts: what a run that passes it can pay, what an ask    *)
(* is worth, and that neither a falling price nor a mined note turns on    *)
(* the operator.  The prices are products and saturating sums, so most of  *)
(* the argument is that each is monotone.                                  *)
(***************************************************************************)
EXTENDS FundingLeg, WellFoundedInduction, TLAPS

LEMMA WidthIsANumber == MaxU128 \in Nat /\ MaxU128 >= 1
BY FundingAssumption

LEMMA GasIsANumber ==
  /\ GasWrap \in Nat /\ GasApprove \in Nat /\ GasShield \in Nat /\ GasTransact \in Nat
  /\ GasWrap >= 1 /\ GasApprove >= 1 /\ GasShield >= 1 /\ GasTransact >= 1
  /\ GasWrap <= GasTransact /\ GasApprove <= GasTransact /\ GasShield <= GasTransact
BY FundingAssumption

LEMMA UnsetIsNoNumber == Unset \notin Int
BY FundingAssumption

LEMMA DefaultsAreAmounts ==
  MinGasWei \in U128 /\ DefaultShield \in U128 /\ DefaultWrapShield \in U128
BY FundingAssumption

LEMMA ProductOrder ==
  ASSUME NEW a \in Nat, NEW b \in Nat, NEW c \in Nat, NEW d \in Nat, a <= b, c <= d
  PROVE  a * c \in Nat /\ b * d \in Nat /\ a * c <= b * d
<1>1. a * c <= a * d
  OBVIOUS
<1>2. a * d <= b * d
  OBVIOUS
<1> QED
  BY <1>1, <1>2

LEMMA SatBounds ==
  ASSUME NEW n \in Nat
  PROVE  /\ Sat(n) \in U128 /\ Sat(n) \in Nat
         /\ Sat(n) <= n /\ Sat(n) <= MaxU128
         /\ Sat(n) < MaxU128 => Sat(n) = n
BY WidthIsANumber DEF Sat, U128

LEMMA SatOrder ==
  ASSUME NEW a \in Nat, NEW b \in Nat, a <= b
  PROVE  Sat(a) <= Sat(b)
BY WidthIsANumber DEF Sat

LEMMA HeadroomOrder ==
  ASSUME NEW g \in Nat, NEW h \in Nat, g <= h
  PROVE  /\ WithHeadroom(g) \in Nat /\ WithHeadroom(h) \in Nat
         /\ WithHeadroom(g) <= WithHeadroom(h)
<1>1. g * 13 \in Nat /\ h * 13 \in Nat /\ g * 13 <= h * 13
  OBVIOUS
<1>2. Sat(g * 13) \in Nat /\ Sat(h * 13) \in Nat /\ Sat(g * 13) <= Sat(h * 13)
  BY <1>1, SatBounds, SatOrder
<1> QED
  BY <1>2 DEF WithHeadroom

LEMMA ReservationIsAmount ==
  ASSUME NEW fee \in Nat, NEW gas \in Nat
  PROVE  Reservation(fee, gas) \in U128 /\ Reservation(fee, gas) \in Nat
<1>1. Sat(fee * MaxFeeMultiple) \in Nat
  BY SatBounds DEF MaxFeeMultiple
<1>2. WithHeadroom(gas) \in Nat
  BY HeadroomOrder
<1>3. Sat(fee * MaxFeeMultiple) * WithHeadroom(gas) \in Nat
  BY <1>1, <1>2, ProductOrder
<1> QED
  BY <1>3, SatBounds DEF Reservation

LEMMA ReservationOrder ==
  ASSUME NEW fee \in Nat, NEW more \in Nat, fee <= more,
         NEW gas \in Nat, NEW dearer \in Nat, gas <= dearer
  PROVE  Reservation(fee, gas) <= Reservation(more, dearer)
<1> DEFINE low == Sat(fee * MaxFeeMultiple)
           high == Sat(more * MaxFeeMultiple)
<1>1. low \in Nat /\ high \in Nat /\ low <= high
  BY SatBounds, SatOrder DEF MaxFeeMultiple
<1>2. /\ WithHeadroom(gas) \in Nat /\ WithHeadroom(dearer) \in Nat
      /\ WithHeadroom(gas) <= WithHeadroom(dearer)
  BY HeadroomOrder
<1> HIDE DEF low, high
<1>3. /\ low * WithHeadroom(gas) \in Nat /\ high * WithHeadroom(dearer) \in Nat
      /\ low * WithHeadroom(gas) <= high * WithHeadroom(dearer)
  BY <1>1, <1>2, ProductOrder
<1>4. Sat(low * WithHeadroom(gas)) <= Sat(high * WithHeadroom(dearer))
  BY <1>3, SatOrder
<1> QED
  BY <1>4 DEF Reservation, low, high

-----------------------------------------------------------------------------
(***************************************************************************)
(* The price of a run, in its parts: what moves out with the wrap, what    *)
(* the legs before the transact pay, what the transact reserves.           *)
(***************************************************************************)
GasBefore == GasWrap + GasApprove + GasShield
Drifted(fee) == Sat(fee * FeeDriftMultiple)
SpentBefore(fee) == Sat(Drifted(fee) * GasBefore)
HeldBack(fee) == Reservation(Drifted(fee), GasTransact)
WholeRun(fee, wrap) == Sat(Sat(wrap + SpentBefore(fee)) + HeldBack(fee))

LEMMA PartsAreAmounts ==
  ASSUME NEW fee \in Nat
  PROVE  /\ Drifted(fee) \in Nat
         /\ SpentBefore(fee) \in Nat
         /\ HeldBack(fee) \in Nat
<1>1. Drifted(fee) \in Nat
  BY SatBounds DEF Drifted, FeeDriftMultiple
<1>2. GasBefore \in Nat
  BY GasIsANumber DEF GasBefore
<1>3. Drifted(fee) * GasBefore \in Nat
  BY <1>1, <1>2, ProductOrder
<1> QED
  BY <1>1, <1>3, SatBounds, ReservationIsAmount, GasIsANumber DEF SpentBefore, HeldBack

LEMMA PriceRunIs ==
  ASSUME NEW fee \in Nat, NEW wrap \in Nat
  PROVE  /\ PriceRun(fee, wrap) = Larger(WholeRun(fee, wrap), Sat(MinGasWei + wrap))
         /\ WholeRun(fee, wrap) \in U128 /\ WholeRun(fee, wrap) \in Nat
         /\ PriceRun(fee, wrap) \in U128 /\ PriceRun(fee, wrap) \in Nat
         /\ PriceRun(fee, wrap) >= WholeRun(fee, wrap)
<1>1. PriceRun(fee, wrap) = Larger(WholeRun(fee, wrap), Sat(MinGasWei + wrap))
  BY DEF PriceRun, WholeRun, HeldBack, SpentBefore, Drifted, GasBefore
<1>2. wrap + SpentBefore(fee) \in Nat
  BY PartsAreAmounts
<1>3. Sat(wrap + SpentBefore(fee)) + HeldBack(fee) \in Nat
  BY <1>2, PartsAreAmounts, SatBounds
<1>4. WholeRun(fee, wrap) \in U128 /\ WholeRun(fee, wrap) \in Nat
  BY <1>3, SatBounds DEF WholeRun
<1>5. Sat(MinGasWei + wrap) \in U128 /\ Sat(MinGasWei + wrap) \in Nat
  BY DefaultsAreAmounts, SatBounds, WidthIsANumber DEF U128
<1> QED
  BY <1>1, <1>4, <1>5 DEF Larger

(***************************************************************************)
(* A dearer gas price and a larger wrap never make a run cheaper.          *)
(***************************************************************************)
LEMMA PriceRunOrder ==
  ASSUME NEW fee \in Nat, NEW more \in Nat, fee <= more,
         NEW wrap \in Nat, NEW wider \in Nat, wrap <= wider
  PROVE  PriceRun(fee, wrap) <= PriceRun(more, wider)
<1>1. Drifted(fee) <= Drifted(more)
  BY SatOrder DEF Drifted, FeeDriftMultiple
<1>2. SpentBefore(fee) <= SpentBefore(more)
  <2>1. GasBefore \in Nat
    BY GasIsANumber DEF GasBefore
  <2>2. /\ Drifted(fee) * GasBefore \in Nat /\ Drifted(more) * GasBefore \in Nat
        /\ Drifted(fee) * GasBefore <= Drifted(more) * GasBefore
    BY <1>1, <2>1, PartsAreAmounts, ProductOrder
  <2> QED
    BY <2>2, SatOrder DEF SpentBefore
<1>3. HeldBack(fee) <= HeldBack(more)
  BY <1>1, PartsAreAmounts, GasIsANumber, ReservationOrder DEF HeldBack
<1>4. Sat(wrap + SpentBefore(fee)) <= Sat(wider + SpentBefore(more))
  BY <1>2, PartsAreAmounts, SatOrder
<1>5. /\ Sat(wrap + SpentBefore(fee)) \in Nat
      /\ Sat(wider + SpentBefore(more)) \in Nat
  BY PartsAreAmounts, SatBounds
<1>6. WholeRun(fee, wrap) <= WholeRun(more, wider)
  BY <1>3, <1>4, <1>5, PartsAreAmounts, SatOrder DEF WholeRun
<1>7. /\ Sat(MinGasWei + wrap) <= Sat(MinGasWei + wider)
      /\ Sat(MinGasWei + wrap) \in Nat /\ Sat(MinGasWei + wider) \in Nat
  BY DefaultsAreAmounts, WidthIsANumber, SatOrder, SatBounds DEF U128
<1>8. /\ WholeRun(fee, wrap) \in Nat /\ WholeRun(more, wider) \in Nat
      /\ PriceRun(fee, wrap) = Larger(WholeRun(fee, wrap), Sat(MinGasWei + wrap))
      /\ PriceRun(more, wider) = Larger(WholeRun(more, wider), Sat(MinGasWei + wider))
  BY PriceRunIs
<1> QED
  BY <1>6, <1>7, <1>8 DEF Larger

(***************************************************************************)
(* A price that does not saturate is the sum of its parts.                 *)
(***************************************************************************)
LEMMA PriceRunCovers ==
  ASSUME NEW fee \in Nat, NEW wrap \in Nat, PriceRun(fee, wrap) < MaxU128
  PROVE  PriceRun(fee, wrap) >=
           wrap + (2 * fee) * GasBefore + Reservation(2 * fee, GasTransact)
<1>1. GasBefore \in Nat /\ GasBefore >= 1
  BY GasIsANumber DEF GasBefore
<1>2. WholeRun(fee, wrap) < MaxU128
  BY PriceRunIs, WidthIsANumber
<1>3. /\ wrap + SpentBefore(fee) \in Nat
      /\ Sat(wrap + SpentBefore(fee)) \in Nat
  BY PartsAreAmounts, SatBounds
<1>4. WholeRun(fee, wrap) = Sat(wrap + SpentBefore(fee)) + HeldBack(fee)
  BY <1>2, <1>3, PartsAreAmounts, SatBounds DEF WholeRun
<1>5. Sat(wrap + SpentBefore(fee)) < MaxU128
  BY <1>2, <1>3, <1>4, PartsAreAmounts, WidthIsANumber
<1>6. Sat(wrap + SpentBefore(fee)) = wrap + SpentBefore(fee)
  BY <1>3, <1>5, SatBounds
<1>7. SpentBefore(fee) < MaxU128
  BY <1>5, <1>6, PartsAreAmounts, WidthIsANumber
<1>8. Drifted(fee) * GasBefore \in Nat
  BY <1>1, PartsAreAmounts, ProductOrder
<1>9. SpentBefore(fee) = Drifted(fee) * GasBefore
  BY <1>7, <1>8, SatBounds DEF SpentBefore
<1>10. Drifted(fee) <= Drifted(fee) * GasBefore
  BY <1>1, PartsAreAmounts
<1>11. Drifted(fee) < MaxU128
  BY <1>7, <1>8, <1>9, <1>10, PartsAreAmounts, WidthIsANumber
<1>12. Drifted(fee) = 2 * fee
  <2>1. fee * FeeDriftMultiple \in Nat /\ fee * FeeDriftMultiple = 2 * fee
    BY DEF FeeDriftMultiple
  <2> QED
    BY <1>11, <2>1, SatBounds DEF Drifted
<1>13. HeldBack(fee) = Reservation(2 * fee, GasTransact)
  BY <1>12 DEF HeldBack
<1>14. SpentBefore(fee) = (2 * fee) * GasBefore
  BY <1>9, <1>12
<1>15. WholeRun(fee, wrap) = wrap + (2 * fee) * GasBefore + Reservation(2 * fee, GasTransact)
  BY <1>4, <1>6, <1>13, <1>14
<1> QED
  BY <1>15, PriceRunIs

(***************************************************************************)
(* A purse that affords a run affords the rescue of a note.                *)
(***************************************************************************)
LEMMA RunCoversSpend ==
  ASSUME NEW fee \in Nat, NEW wrap \in Nat
  PROVE  PriceSpend(fee) \in U128 /\ PriceSpend(fee) <= PriceRun(fee, wrap)
<1>1. PriceSpend(fee) = HeldBack(fee)
  BY DEF PriceSpend, HeldBack, Drifted
<1>2. HeldBack(fee) \in U128 /\ HeldBack(fee) <= MaxU128
  BY PartsAreAmounts, GasIsANumber, ReservationIsAmount, WidthIsANumber DEF HeldBack, U128
<1>3. Sat(wrap + SpentBefore(fee)) \in Nat
  BY PartsAreAmounts, SatBounds
<1>4. HeldBack(fee) <= WholeRun(fee, wrap)
  <2>1. Sat(HeldBack(fee)) = HeldBack(fee)
    BY <1>2, PartsAreAmounts, WidthIsANumber DEF Sat
  <2>2. Sat(HeldBack(fee)) <= WholeRun(fee, wrap)
    BY <1>3, PartsAreAmounts, SatOrder DEF WholeRun
  <2> QED
    BY <2>1, <2>2
<1> QED
  BY <1>1, <1>2, <1>4, PriceRunIs, PartsAreAmounts

-----------------------------------------------------------------------------
\* What a run is priced at, with a quoted price or without.
LEMMA PricedIs ==
  ASSUME NEW p \in Purse, NEW wrap \in Nat, NEW wider \in Nat, wrap <= wider
  PROVE  /\ Priced(p, wrap) \in U128 /\ Priced(p, wrap) \in Nat
         /\ Priced(p, wider) \in Nat
         /\ Priced(p, wrap) <= Priced(p, wider)
<1>1. CASE p.fee = Unset
  <2>1. /\ MinGasWei + wrap \in Nat /\ MinGasWei + wider \in Nat
        /\ MinGasWei + wrap <= MinGasWei + wider
    BY DefaultsAreAmounts, WidthIsANumber DEF U128
  <2>2. Sat(MinGasWei + wrap) <= Sat(MinGasWei + wider)
    BY <2>1, SatOrder
  <2> QED
    BY <1>1, <2>1, <2>2, SatBounds DEF Priced
<1>2. CASE p.fee # Unset
  <2>1. p.fee \in Nat
    BY <1>2, WidthIsANumber DEF Purse, U128
  <2>2. Priced(p, wrap) = PriceRun(p.fee, wrap) /\ Priced(p, wider) = PriceRun(p.fee, wider)
    BY <1>2 DEF Priced
  <2>3. /\ PriceRun(p.fee, wrap) \in U128 /\ PriceRun(p.fee, wrap) \in Nat
        /\ PriceRun(p.fee, wider) \in Nat
    BY <2>1, PriceRunIs
  <2>4. PriceRun(p.fee, wrap) <= PriceRun(p.fee, wider)
    BY <2>1, PriceRunOrder
  <2> QED
    BY <2>2, <2>3, <2>4
<1> QED
  BY <1>1, <1>2

LEMMA PricedSpendIs ==
  ASSUME NEW p \in Purse
  PROVE  PricedSpend(p) \in U128 /\ PricedSpend(p) \in Nat
<1>1. CASE p.fee = Unset
  BY <1>1, DefaultsAreAmounts, WidthIsANumber DEF PricedSpend, U128
<1>2. CASE p.fee # Unset
  <2>1. p.fee \in Nat
    BY <1>2, WidthIsANumber DEF Purse, U128
  <2>2. PriceSpend(p.fee) \in U128
    BY <2>1, WidthIsANumber, RunCoversSpend
  <2> QED
    BY <1>2, <2>2, WidthIsANumber DEF PricedSpend, U128
<1> QED
  BY <1>1, <1>2

LEMMA WantsAreAmounts ==
  ASSUME NEW a \in U128 \cup {Unset}
  PROVE  WantErc20(a) \in U128 /\ WantWrapped(a) \in U128
BY DefaultsAreAmounts DEF WantErc20, WantWrapped

LEMMA ShortfallIsAmount ==
  ASSUME NEW p \in Purse, NEW a \in U128 \cup {Unset}
  PROVE  Shortfall(p, a) \in U128 /\ Shortfall(p, a) \in Nat
<1>1. WantWrapped(a) \in U128
  BY WantsAreAmounts
<1>2. p.wrapped \in U128 \cup {Unset}
  BY DEF Purse
<1> QED
  BY <1>1, <1>2, WidthIsANumber DEF Shortfall, SatSub, U128

Decisions ==
  [kind : {"ask"}, wei : U128]
    \cup [kind : {"spend"}, token : Token, units : MinTransferable .. MaxU128]
    \cup [kind : {"shield"}, token : Token, units : U128, wrap : U128]

LEMMA FirstOfSome ==
  ASSUME NEW T, T \subseteq Nat, T # {}
  PROVE  \E i \in T : \A j \in T : i <= j
<1>1. \E i \in T : \A j \in T : ~ (<<j, i>> \in OpToRel(<, Nat))
  BY NatLessThanWellFounded, WFMin, Zenon
<1>2. PICK i \in T : \A j \in T : ~ (<<j, i>> \in OpToRel(<, Nat))
  BY <1>1, Zenon
<1>3. ASSUME NEW j \in T PROVE i <= j
  <2>1. ~ (<<j, i>> \in OpToRel(<, Nat))
    BY <1>2, Zenon
  <2> QED
    BY <2>1 DEF OpToRel
<1> QED
  BY <1>3

LEMMA FirstNoteIsSpendable ==
  ASSUME NEW shown \in Seq(Holding), Spendable(shown) # {}
  PROVE  FirstNote(shown) \in Holding /\ FirstNote(shown).units >= MinTransferable
<1> DEFINE first == CHOOSE i \in Spendable(shown) : \A j \in Spendable(shown) : i <= j
<1>1. Spendable(shown) \subseteq Nat
  BY DEF Spendable
<1>2. \E i \in Spendable(shown) : \A j \in Spendable(shown) : i <= j
  BY <1>1, FirstOfSome
<1>3. first \in Spendable(shown)
  BY <1>2
<1> HIDE DEF first
<1>4. first \in DOMAIN shown /\ shown[first].units >= MinTransferable
  BY <1>3 DEF Spendable
<1>5. shown[first] \in Holding
  BY <1>4
<1> QED
  BY <1>4, <1>5 DEF FirstNote, first

(***************************************************************************)
(* What the funding leg decides when it goes ahead to shield, and when it  *)
(* asks with nothing spendable in the tree.                                *)
(***************************************************************************)
LEMMA PlanShieldIs ==
  ASSUME NEW p \in Purse, NEW a \in U128 \cup {Unset}
  PROVE  LET answered == PlanShield(p, a) IN
         /\ answered \in Decisions /\ answered.kind # "spend"
         /\ answered.kind = "shield" =>
              /\ p.wei >= Priced(p, 0)
              /\ p.wei >= Priced(p, answered.wrap)
              /\ \/ answered.wrap = 0 /\ p.erc20 >= WantErc20(a)
                 \/ /\ p.wrapped # Unset
                    /\ answered.wrap = Shortfall(p, a)
         /\ answered.kind = "ask" =>
              /\ answered.wei = Priced(p, Shortfall(p, a))
              /\ ~(p.wei >= Priced(p, 0) /\ p.erc20 >= WantErc20(a))
              /\ \/ p.wei < Priced(p, Shortfall(p, a))
                 \/ p.erc20 < WantErc20(a) /\ p.wrapped = Unset
<1> DEFINE wrap == Shortfall(p, a)
<1>1. wrap \in U128 /\ wrap \in Nat
  BY ShortfallIsAmount
<1>2. WantErc20(a) \in U128 /\ WantWrapped(a) \in U128 /\ 0 \in U128
  BY WantsAreAmounts, WidthIsANumber DEF U128
<1>3. /\ Priced(p, wrap) \in U128 /\ Priced(p, 0) \in Nat /\ Priced(p, wrap) \in Nat
      /\ Priced(p, 0) <= Priced(p, wrap)
  BY <1>1, PricedIs
<1>4. /\ p.wei \in U128 /\ p.wei \in Nat /\ p.erc20 \in U128 /\ p.erc20 \in Nat
      /\ WantErc20(a) \in Nat
  BY <1>2, WidthIsANumber DEF Purse, U128
<1>5. "erc20" \in Token /\ "wrapped" \in Token
  BY DEF Token
<1> HIDE DEF wrap
<1> DEFINE answered == PlanShield(p, a)
<1>6. CASE p.wei >= Priced(p, 0) /\ p.erc20 >= WantErc20(a)
  <2>1. answered = ShieldUnits("erc20", WantErc20(a), 0)
    BY <1>6 DEF PlanShield
  <2>2. /\ answered.kind = "shield" /\ answered.wrap = 0
        /\ answered \in Decisions
    BY <1>2, <1>5, <2>1 DEF ShieldUnits, Decisions
  <2> QED
    BY <1>6, <2>2
<1>7. CASE ~(p.wei >= Priced(p, 0) /\ p.erc20 >= WantErc20(a))
  <2>1. CASE /\ p.wei >= Priced(p, 0) /\ p.wrapped # Unset /\ p.wei >= Priced(p, wrap)
    <3>1. answered = ShieldUnits("wrapped", WantWrapped(a), wrap)
      BY <1>7, <2>1 DEF PlanShield, wrap
    <3>2. /\ answered.kind = "shield" /\ answered.wrap = wrap
          /\ answered \in Decisions
      BY <1>1, <1>2, <1>5, <3>1 DEF ShieldUnits, Decisions
    <3> QED
      BY <2>1, <3>2 DEF wrap
  <2>2. CASE ~(p.wei >= Priced(p, 0) /\ p.wrapped # Unset /\ p.wei >= Priced(p, wrap))
    <3>1. answered = Ask(Priced(p, wrap))
      BY <1>7, <2>2 DEF PlanShield, wrap
    <3>2. /\ answered.kind = "ask" /\ answered.wei = Priced(p, wrap)
          /\ answered \in Decisions
      BY <1>3, <3>1 DEF Ask, Decisions
    <3>3. \/ p.wei < Priced(p, wrap)
          \/ p.erc20 < WantErc20(a) /\ p.wrapped = Unset
      BY <1>3, <1>4, <1>7, <2>2
    <3> QED
      BY <1>7, <3>2, <3>3 DEF wrap
  <2> QED
    BY <2>1, <2>2
<1> QED
  BY <1>6, <1>7

LEMMA PlanIs ==
  ASSUME NEW p \in Purse, NEW a \in U128 \cup {Unset}, NEW shown \in Seq(Holding)
  PROVE  LET answered == Plan(p, a, shown) IN
         /\ answered \in Decisions
         /\ Spendable(shown) = {} => answered = PlanShield(p, a)
         /\ Spendable(shown) # {} =>
              /\ answered.kind \in {"ask", "spend"}
              /\ answered.kind = "spend" <=> p.wei >= PricedSpend(p)
              /\ answered.kind = "ask" => answered.wei = PricedSpend(p)
<1>1. CASE Spendable(shown) = {}
  BY <1>1, PlanShieldIs DEF Plan
<1>2. CASE Spendable(shown) # {}
  <2> DEFINE answered == Plan(p, a, shown)
  <2>1. PricedSpend(p) \in U128 /\ PricedSpend(p) \in Nat /\ p.wei \in Nat
    BY PricedSpendIs, WidthIsANumber DEF Purse, U128
  <2>2. CASE p.wei < PricedSpend(p)
    <3>1. answered = Ask(PricedSpend(p))
      BY <1>2, <2>2 DEF Plan
    <3> QED
      BY <1>2, <2>1, <2>2, <3>1 DEF Ask, Decisions
  <2>3. CASE p.wei >= PricedSpend(p)
    <3>1. answered = SpendNote(FirstNote(shown))
      BY <1>2, <2>1, <2>3 DEF Plan
    <3>2. /\ FirstNote(shown).token \in Token
          /\ FirstNote(shown).units \in MinTransferable .. MaxU128
      <4>1. FirstNote(shown) \in Holding /\ FirstNote(shown).units >= MinTransferable
        BY <1>2, FirstNoteIsSpendable
      <4> HIDE DEF answered
      <4> QED
        BY <4>1, WidthIsANumber DEF Holding, U128, MinTransferable
    <3> QED
      BY <1>2, <2>1, <2>3, <3>1, <3>2 DEF SpendNote, Decisions
  <2> QED
    BY <2>1, <2>2, <2>3
<1> QED
  BY <1>1, <1>2

-----------------------------------------------------------------------------
(***************************************************************************)
(* The inductive invariant: the answer is what plan decides for the purse, *)
(* the question and the tree of now.                                       *)
(***************************************************************************)
IInv ==
  /\ purse \in Purse
  /\ asked \in U128 \cup {Unset}
  /\ shielded \in Seq(Holding)
  /\ answer = Plan(purse, asked, shielded)

LEMMA InitEstablishesIInv == Init => IInv
<1> SUFFICES ASSUME Init PROVE IInv
  OBVIOUS
<1>1. purse \in Purse /\ asked \in U128 \cup {Unset}
  BY FundingLegAssumption DEF Init, Purse
<1>2. shielded \in Seq(Holding)
  <2> DEFINE tokens == Candidates(purse)
  <2>1. \E n \in Nat : DOMAIN tokens = 1 .. n /\ \A i \in 1 .. n : tokens[i] \in Token
    <3>1. CASE purse.wrapped = Unset
      <4>1. tokens = <<"erc20">>
        BY <3>1 DEF Candidates
      <4>2. DOMAIN tokens = 1 .. 1 /\ tokens[1] = "erc20"
        BY <4>1
      <4> QED
        BY <4>2 DEF Token
    <3>2. CASE purse.wrapped # Unset
      <4>1. tokens = <<"erc20", "wrapped">>
        BY <3>2 DEF Candidates
      <4>2. DOMAIN tokens = 1 .. 2 /\ tokens[1] = "erc20" /\ tokens[2] = "wrapped"
        BY <4>1
      <4> QED
        BY <4>2 DEF Token
    <3> QED
      BY <3>1, <3>2
  <2>2. PICK n \in Nat : DOMAIN tokens = 1 .. n /\ \A i \in 1 .. n : tokens[i] \in Token
    BY <2>1
  <2>3. shielded = [i \in 1 .. n |-> [token |-> tokens[i], units |-> 0]]
    BY <2>2 DEF Init
  <2> HIDE DEF tokens
  <2>4. \A i \in 1 .. n : [token |-> tokens[i], units |-> 0] \in Holding
    BY <2>2, WidthIsANumber DEF Holding, U128
  <2> QED
    BY <2>3, <2>4
<1> QED
  BY <1>1, <1>2 DEF Init, IInv

LEMMA TopUpKeepsIInv == IInv /\ TopUp => IInv'
<1> SUFFICES ASSUME IInv, TopUp PROVE IInv'
  OBVIOUS
<1>1. answer \in Decisions
  BY PlanIs DEF IInv
<1>2. answer.wei \in U128
  BY <1>1 DEF TopUp, Decisions
<1>3. Larger(purse.wei, answer.wei) \in U128
  BY <1>2 DEF IInv, Purse, Larger
<1>4. purse' \in Purse
  BY <1>3 DEF TopUp, IInv, Purse
<1> QED
  BY <1>4 DEF TopUp, Decided, IInv

LEMMA FeeMovesKeepsIInv ==
  ASSUME IInv, NEW fee \in Fees \cup {Unset}, FeeMoves(fee)
  PROVE  IInv'
<1>1. fee \in U128 \cup {Unset}
  BY FundingLegAssumption
<1>2. purse' \in Purse
  BY <1>1 DEF FeeMoves, IInv, Purse
<1> QED
  BY <1>2 DEF FeeMoves, Decided, IInv

LEMMA NoteMinedKeepsIInv ==
  ASSUME IInv, NEW i \in DOMAIN shielded, NEW units \in Balances \ {0}, NoteMined(i, units)
  PROVE  IInv'
<1>1. units \in U128
  BY FundingLegAssumption
<1>2. shielded[i] \in Holding
  BY DEF IInv
<1>3. [shielded[i] EXCEPT !.units = units] \in Holding
  BY <1>1, <1>2 DEF Holding
<1>4. shielded' = [shielded EXCEPT ![i] = [shielded[i] EXCEPT !.units = units]]
  BY DEF NoteMined
<1>5. shielded' \in Seq(Holding)
  BY <1>3, <1>4 DEF IInv
<1> QED
  BY <1>5 DEF NoteMined, Decided, IInv

(***************************************************************************)
(* The inductive invariant, for every width, gas figure and set of prices: *)
(* the answer on the operator's screen is what `plan` of live_send.rs      *)
(* gives for the purse and the tree as they are.                           *)
(***************************************************************************)
THEOREM FundingInvariant == Spec => []IInv
<1>1. IInv /\ [Next]_vars => IInv'
  <2> SUFFICES ASSUME IInv, [Next]_vars PROVE IInv'
    OBVIOUS
  <2>1. CASE UNCHANGED vars
    BY <2>1 DEF vars, IInv
  <2> QED
    BY <2>1, TopUpKeepsIInv, FeeMovesKeepsIInv, NoteMinedKeepsIInv DEF Next
<1> QED
  BY <1>1, InitEstablishesIInv, PTL DEF Spec

(***************************************************************************)
(* The purse, the tree and the answer are what they say, for every width   *)
(* of an amount: no sum or product leaves it.                              *)
(***************************************************************************)
THEOREM FundingTypeCorrect == Spec => []TypeOK
<1>1. IInv => TypeOK
  <2> SUFFICES ASSUME IInv PROVE TypeOK
    OBVIOUS
  <2>1. answer \in Decisions
    BY PlanIs DEF IInv
  <2> QED
    BY <2>1 DEF IInv, TypeOK, Decisions
<1> QED
  BY <1>1, FundingInvariant, PTL

(***************************************************************************)
(* A run with a note in the tree is priced at the rescue of that note and  *)
(* never shields another.                                                  *)
(***************************************************************************)
THEOREM MinedNotesAreSpent == Spec => []MinedNoteIsSpent
<1>1. IInv => MinedNoteIsSpent
  <2> SUFFICES ASSUME IInv, Spendable(shielded) # {}
               PROVE  /\ answer.kind # "shield"
                      /\ purse.fee # Unset =>
                           (answer.kind = "spend" <=>
                              purse.wei >= Reservation(Sat(2 * purse.fee), GasTransact))
    BY DEF MinedNoteIsSpent
  <2>1. /\ answer.kind \in {"ask", "spend"}
        /\ answer.kind = "spend" <=> purse.wei >= PricedSpend(purse)
    BY PlanIs DEF IInv
  <2>2. ASSUME purse.fee # Unset
        PROVE  PricedSpend(purse) = Reservation(Sat(2 * purse.fee), GasTransact)
    <3>1. purse.fee \in Nat
      BY <2>2, WidthIsANumber DEF IInv, Purse, U128
    <3>2. purse.fee * FeeDriftMultiple = 2 * purse.fee
      BY <3>1 DEF FeeDriftMultiple
    <3> QED
      BY <2>2, <3>2 DEF PricedSpend, PriceSpend
  <2> QED
    BY <2>1, <2>2
<1> QED
  BY <1>1, FundingInvariant, PTL

-----------------------------------------------------------------------------
LEMMA GoesAheadAffordable ==
  ASSUME IInv, answer.kind = "shield", purse.fee # Unset,
         PriceRun(purse.fee, answer.wrap) < MaxU128,
         NEW f \in 0 .. 2 * purse.fee, NEW p \in 0 .. 2 * purse.fee
  PROVE  AcceptedAllTheWay(f, p)
<1> DEFINE ceiling == 2 * purse.fee
           held == Reservation(ceiling, GasTransact)
<1>1. purse.fee \in Nat /\ purse.wei \in Nat
  BY WidthIsANumber DEF IInv, Purse, U128
<1>2. ceiling \in Nat /\ f \in Nat /\ p \in Nat /\ f <= ceiling /\ p <= ceiling
  BY <1>1
<1>3. answer \in Decisions /\ answer = PlanShield(purse, asked)
  <2>1. Spendable(shielded) = {}
    BY PlanIs DEF IInv
  <2> QED
    BY <2>1, PlanIs DEF IInv
<1>4. answer.wrap \in Nat
  BY <1>3, WidthIsANumber DEF Decisions, U128
<1>5. purse.wei >= PriceRun(purse.fee, answer.wrap)
  BY <1>3, PlanShieldIs DEF IInv, Priced
<1> HIDE DEF ceiling
<1>6. /\ held \in Nat
      /\ Reservation(f, GasWrap) <= held /\ Reservation(f, GasWrap) \in Nat
      /\ Reservation(f, GasApprove) <= held /\ Reservation(f, GasApprove) \in Nat
      /\ Reservation(f, GasShield) <= held /\ Reservation(f, GasShield) \in Nat
      /\ Reservation(f, GasTransact) <= held /\ Reservation(f, GasTransact) \in Nat
  <2>1. \A g \in Nat : g <= GasTransact =>
           Reservation(f, g) <= held /\ Reservation(f, g) \in Nat
    BY <1>2, GasIsANumber, ReservationOrder, ReservationIsAmount
  <2>2. held \in Nat
    BY <1>2, GasIsANumber, ReservationIsAmount
  <2> HIDE DEF held
  <2> QED
    BY <2>1, <2>2, GasIsANumber
<1>7. /\ p * GasWrap \in Nat /\ p * GasApprove \in Nat /\ p * GasShield \in Nat
      /\ ceiling * GasWrap \in Nat /\ ceiling * GasApprove \in Nat /\ ceiling * GasShield \in Nat
      /\ p * GasWrap <= ceiling * GasWrap
      /\ p * GasApprove <= ceiling * GasApprove
      /\ p * GasShield <= ceiling * GasShield
  BY <1>2, GasIsANumber, ProductOrder
<1>8. ceiling * GasBefore = ceiling * GasWrap + ceiling * GasApprove + ceiling * GasShield
  BY <1>2, GasIsANumber DEF GasBefore
<1>9. PriceRun(purse.fee, answer.wrap) >= answer.wrap + ceiling * GasBefore + held
  BY <1>1, <1>4, PriceRunCovers DEF ceiling
<1>10. /\ PriceRun(purse.fee, answer.wrap) \in Nat
  BY <1>1, <1>4, PriceRunIs
<1> HIDE DEF held
<1> DEFINE wrapGas == IF answer.wrap = 0 THEN 0 ELSE p * GasWrap
<1>11. wrapGas \in Nat /\ wrapGas <= ceiling * GasWrap
  BY <1>7
<1> HIDE DEF wrapGas
<1>12. purse.wei >= answer.wrap + ceiling * GasWrap + ceiling * GasApprove
                      + ceiling * GasShield + held
  BY <1>1, <1>4, <1>5, <1>6, <1>7, <1>8, <1>9, <1>10
<1> DEFINE pw == p * GasWrap
           pa == p * GasApprove
           ps == p * GasShield
           cw == ceiling * GasWrap
           ca == ceiling * GasApprove
           cs == ceiling * GasShield
           beforeApprove == purse.wei - answer.wrap - wrapGas
           beforeShield == beforeApprove - pa
           beforeTransact == beforeShield - ps
<1>13. /\ pa \in Nat /\ ps \in Nat /\ cw \in Nat /\ ca \in Nat /\ cs \in Nat
       /\ wrapGas <= cw /\ pa <= ca /\ ps <= cs
       /\ purse.wei >= answer.wrap + cw + ca + cs + held
  BY <1>7, <1>11, <1>12
<1> HIDE DEF pw, pa, ps, cw, ca, cs
<1>14. /\ purse.wei >= held + answer.wrap
       /\ beforeApprove >= held /\ beforeShield >= held /\ beforeTransact >= held
  BY <1>1, <1>4, <1>6, <1>11, <1>13
<1>15. /\ purse.wei >= Reservation(f, GasWrap) + answer.wrap
       /\ beforeApprove >= Reservation(f, GasApprove)
       /\ beforeShield >= Reservation(f, GasShield)
       /\ beforeTransact >= Reservation(f, GasTransact)
  <2>1. beforeApprove \in Int /\ beforeShield \in Int /\ beforeTransact \in Int
    BY <1>1, <1>4, <1>11, <1>13
  <2> HIDE DEF beforeApprove, beforeShield, beforeTransact
  <2> QED
    BY <1>1, <1>4, <1>6, <1>14, <2>1
<1> QED
  BY <1>15 DEF AcceptedAllTheWay, wrapGas, pa, ps

(***************************************************************************)
(* For every price, balance and gas figure: a run that passes the funding  *)
(* leg is refused none of its transactions for want of funds, while the    *)
(* price stays within twice what was quoted.                               *)
(***************************************************************************)
THEOREM FundedRunsAreAffordable == Spec => []FundedRunIsAffordable
<1>1. IInv => FundedRunIsAffordable
  BY GoesAheadAffordable DEF FundedRunIsAffordable
<1> QED
  BY <1>1, FundingInvariant, PTL

-----------------------------------------------------------------------------
LEMMA TopUpIsAnswered ==
  ASSUME IInv, IInv', TopUp
  PROVE  answer'.kind # "ask" \/ (purse.wrapped = Unset /\ purse.erc20 < WantErc20(asked))
<1>1. /\ asked' = asked /\ shielded' = shielded
      /\ purse'.erc20 = purse.erc20 /\ purse'.wrapped = purse.wrapped /\ purse'.fee = purse.fee
      /\ purse'.wei = Larger(purse.wei, answer.wei)
  BY DEF TopUp, IInv, Purse
<1>2. answer \in Decisions /\ answer.kind = "ask"
  BY PlanIs DEF TopUp, IInv
<1>3. purse.wei \in Nat /\ answer.wei \in Nat
  BY <1>2, WidthIsANumber DEF Decisions, IInv, Purse, U128
<1>4. purse'.wei >= answer.wei /\ purse'.wei \in Nat
  BY <1>1, <1>3 DEF Larger
<1>5. purse' \in Purse /\ answer' = Plan(purse', asked, shielded)
  BY <1>1 DEF IInv
<1>6. CASE Spendable(shielded) # {}
  <2>1. answer.wei = PricedSpend(purse)
    BY <1>2, <1>6, PlanIs DEF IInv
  <2>2. PricedSpend(purse') = PricedSpend(purse)
    BY <1>1 DEF PricedSpend
  <2>3. purse'.wei >= PricedSpend(purse')
    BY <1>4, <2>1, <2>2
  <2>4. answer'.kind = "spend"
    BY <1>5, <1>6, <2>3, PlanIs DEF IInv
  <2> QED
    BY <2>4
<1>7. CASE Spendable(shielded) = {}
  <2>1. answer = PlanShield(purse, asked) /\ answer' = PlanShield(purse', asked)
    BY <1>5, <1>7, PlanIs DEF IInv
  <2>2. answer.wei = Priced(purse, Shortfall(purse, asked))
    BY <1>2, <2>1, PlanShieldIs DEF IInv
  <2>3. /\ Shortfall(purse', asked) = Shortfall(purse, asked)
        /\ Priced(purse', Shortfall(purse, asked)) = Priced(purse, Shortfall(purse, asked))
    BY <1>1 DEF Shortfall, Priced
  <2>4. SUFFICES ASSUME answer'.kind = "ask"
                 PROVE  purse.wrapped = Unset /\ purse.erc20 < WantErc20(asked)
    OBVIOUS
  <2>5. \/ purse'.wei < answer.wei
        \/ purse'.erc20 < WantErc20(asked) /\ purse'.wrapped = Unset
    BY <1>5, <2>1, <2>2, <2>3, <2>4, PlanShieldIs DEF IInv
  <2> QED
    BY <1>1, <1>3, <1>4, <2>5
<1> QED
  BY <1>6, <1>7

(***************************************************************************)
(* An operator who sends what an ask says gets a run at that price.        *)
(***************************************************************************)
THEOREM AsksAreEnough == Spec => AskIsEnough
<1>1. IInv /\ IInv' /\ [Next]_vars =>
        [TopUp => \/ answer'.kind # "ask"
                  \/ purse.wrapped = Unset /\ purse.erc20 < WantErc20(asked)]_vars
  BY TopUpIsAnswered
<1> QED
  BY <1>1, FundingInvariant, PTL DEF Spec, AskIsEnough

(***************************************************************************)
(* A price that does not rise, over a tree that gained no note, asks for   *)
(* no more than before.                                                    *)
(***************************************************************************)
LEMMA CheaperIsNoDearer ==
  ASSUME NEW p \in Purse, NEW q \in Purse, NEW wrap \in Nat,
         p.fee # Unset, q.fee # Unset, q.fee <= p.fee
  PROVE  /\ Priced(q, wrap) <= Priced(p, wrap)
         /\ PricedSpend(q) <= PricedSpend(p)
         /\ PricedSpend(q) <= Priced(q, wrap)
<1>1. p.fee \in Nat /\ q.fee \in Nat
  BY WidthIsANumber DEF Purse, U128
<1>2. PriceRun(q.fee, wrap) <= PriceRun(p.fee, wrap)
  BY <1>1, PriceRunOrder
<1>3. PriceSpend(q.fee) <= PriceSpend(p.fee)
  <2>1. Drifted(q.fee) <= Drifted(p.fee)
    BY <1>1, SatOrder DEF Drifted, FeeDriftMultiple
  <2>2. Drifted(q.fee) \in Nat /\ Drifted(p.fee) \in Nat /\ GasTransact <= GasTransact
    BY <1>1, PartsAreAmounts, GasIsANumber
  <2>3. Reservation(Drifted(q.fee), GasTransact) <= Reservation(Drifted(p.fee), GasTransact)
    BY <2>1, <2>2, GasIsANumber, ReservationOrder
  <2>4. HeldBack(q.fee) <= HeldBack(p.fee)
    BY <2>3 DEF HeldBack
  <2> QED
    BY <2>4 DEF PriceSpend, HeldBack, Drifted
<1>4. PriceSpend(q.fee) <= PriceRun(q.fee, wrap)
  BY <1>1, RunCoversSpend
<1> QED
  BY <1>2, <1>3, <1>4 DEF Priced, PricedSpend

LEMMA CheaperGoesAhead ==
  ASSUME IInv, IInv', answer.kind # "ask",
         purse.fee # Unset, purse'.fee # Unset, purse'.fee <= purse.fee,
         asked' = asked, purse'.wei = purse.wei, purse'.erc20 = purse.erc20,
         purse'.wrapped = purse.wrapped,
         Spendable(shielded) # {} => Spendable(shielded') # {}
  PROVE  answer'.kind # "ask"
<1>1. purse \in Purse /\ purse' \in Purse /\ purse.wei \in Nat /\ 0 \in Nat
  BY WidthIsANumber DEF IInv, Purse, U128
<1>2. /\ PricedSpend(purse') <= PricedSpend(purse)
      /\ PricedSpend(purse') <= Priced(purse', 0)
      /\ PricedSpend(purse') \in Nat /\ PricedSpend(purse) \in Nat
      /\ Priced(purse', 0) <= Priced(purse, 0)
      /\ Priced(purse, 0) \in Nat /\ Priced(purse', 0) \in Nat
  BY <1>1, CheaperIsNoDearer, PricedIs, PricedSpendIs
<1>3. CASE Spendable(shielded) # {}
  <2>1. purse.wei >= PricedSpend(purse)
    BY <1>3, PlanIs DEF IInv
  <2>2. purse'.wei >= PricedSpend(purse')
    BY <1>1, <1>2, <2>1
  <2>3. answer'.kind = "spend"
    BY <1>3, <2>2, PlanIs DEF IInv
  <2> QED
    BY <2>3
<1>4. CASE Spendable(shielded) = {}
  <2>1. answer = PlanShield(purse, asked) /\ answer.kind = "shield"
    <3>1. answer = PlanShield(purse, asked)
      BY <1>4, PlanIs DEF IInv
    <3>2. answer \in Decisions /\ answer.kind # "spend"
      BY <3>1, PlanShieldIs DEF IInv
    <3> QED
      BY <3>1, <3>2 DEF Decisions
  <2>2. /\ purse.wei >= Priced(purse, 0)
        /\ \/ purse.erc20 >= WantErc20(asked)
           \/ /\ purse.wrapped # Unset
              /\ purse.wei >= Priced(purse, Shortfall(purse, asked))
    BY <2>1, PlanShieldIs DEF IInv
  <2>3. CASE Spendable(shielded') # {}
    <3>1. purse'.wei >= PricedSpend(purse')
      BY <1>1, <1>2, <2>2
    <3>2. answer'.kind = "spend"
      BY <2>3, <3>1, PlanIs DEF IInv
    <3> QED
      BY <3>2
  <2>4. CASE Spendable(shielded') = {}
    <3> DEFINE wrap == Shortfall(purse, asked)
    <3>1. Shortfall(purse', asked') = wrap
      BY DEF Shortfall
    <3>2. wrap \in Nat
      BY ShortfallIsAmount DEF IInv
    <3>3. /\ Priced(purse', wrap) <= Priced(purse, wrap)
          /\ Priced(purse', wrap) \in Nat /\ Priced(purse, wrap) \in Nat
      BY <1>1, <3>2, CheaperIsNoDearer, PricedIs
    <3> HIDE DEF wrap
    <3>4. answer' = PlanShield(purse', asked)
      BY <2>4, PlanIs DEF IInv
    <3>5. SUFFICES ASSUME answer'.kind = "ask" PROVE FALSE
      OBVIOUS
    <3>6. /\ ~(purse'.wei >= Priced(purse', 0) /\ purse'.erc20 >= WantErc20(asked))
          /\ \/ purse'.wei < Priced(purse', wrap)
             \/ purse'.erc20 < WantErc20(asked) /\ purse'.wrapped = Unset
      BY <3>1, <3>4, <3>5, PlanShieldIs DEF IInv
    <3>7. purse.wei >= Priced(purse', 0)
      BY <1>1, <1>2, <2>2
    <3>8. ~(purse.erc20 >= WantErc20(asked))
      BY <3>6, <3>7
    <3>9. purse.wei >= Priced(purse, wrap) /\ purse.wrapped # Unset
      BY <2>2, <3>8 DEF wrap
    <3>10. ~(purse'.wei < Priced(purse', wrap))
      BY <1>1, <3>3, <3>9
    <3> QED
      BY <3>6, <3>9, <3>10
  <2> QED
    BY <2>3, <2>4
<1> QED
  BY <1>3, <1>4

(***************************************************************************)
(* The funding never turns on an operator: cheaper gas and a mined note    *)
(* leave a run that would go ahead going ahead.                            *)
(***************************************************************************)
THEOREM CheaperNeverAsks == Spec => CheaperNeverHurts
<1> DEFINE Holds == (/\ answer.kind # "ask"
                     /\ purse.fee # Unset /\ purse'.fee # Unset
                     /\ purse'.fee <= purse.fee) => answer'.kind # "ask"
<1>1. IInv /\ IInv' /\ [Next]_vars => [Holds]_vars
  <2> SUFFICES ASSUME IInv, IInv', Next,
                      answer.kind # "ask", purse.fee # Unset, purse'.fee # Unset,
                      purse'.fee <= purse.fee
               PROVE  answer'.kind # "ask"
    OBVIOUS
  <2>1. CASE TopUp
    BY <2>1 DEF TopUp
  <2>2. ASSUME NEW fee \in Fees \cup {Unset}, FeeMoves(fee)
        PROVE  answer'.kind # "ask"
    <3>1. /\ purse'.wei = purse.wei /\ purse'.erc20 = purse.erc20
          /\ purse'.wrapped = purse.wrapped /\ asked' = asked /\ shielded' = shielded
      BY <2>2 DEF FeeMoves, IInv, Purse
    <3> QED
      BY <3>1, CheaperGoesAhead
  <2>3. ASSUME NEW i \in DOMAIN shielded, NEW units \in Balances \ {0}, NoteMined(i, units)
        PROVE  answer'.kind # "ask"
    <3>1. purse' = purse /\ asked' = asked
      BY <2>3 DEF NoteMined
    <3>2. Spendable(shielded) # {} => Spendable(shielded') # {}
      <4>1. \A j \in DOMAIN shielded : j # i => shielded'[j] = shielded[j]
        BY <2>3 DEF NoteMined, IInv
      <4>2. DOMAIN shielded' = DOMAIN shielded
        BY <2>3 DEF NoteMined, IInv
      <4>3. ~(shielded[i].units >= MinTransferable)
        BY <2>3 DEF NoteMined, MinTransferable
      <4> QED
        BY <4>1, <4>2, <4>3 DEF Spendable
    <3> QED
      BY <3>1, <3>2, CheaperGoesAhead
  <2> QED
    BY <2>1, <2>2, <2>3 DEF Next
<1> QED
  BY <1>1, FundingInvariant, PTL DEF Spec, CheaperNeverHurts
=============================================================================
