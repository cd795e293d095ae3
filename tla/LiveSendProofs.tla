---------------------------- MODULE LiveSendProofs ----------------------------
(***************************************************************************)
(* The live-send probe for every gas figure, price, balance and question   *)
(* and any number of runs: what its legs may say of the chain, what it may *)
(* sign and, where the tip is nothing and no price saturates, that it can  *)
(* pay to its end; that its balances stay what a chain can hold, whoever's *)
(* transaction is mined when; and that each step it makes is one nearer to *)
(* its end.  Three invariants: IInv (what a run has read and done), the    *)
(* one of the gas it can pay, and HInv (what the chain may still take).    *)
(***************************************************************************)
EXTENDS LiveSend, FiniteSetTheorems, TLAPS

Broadcasts == {"wrap", "approve", "shield", "broadcast"}

-----------------------------------------------------------------------------
\* What is needed of sequences: each is one over its own elements.
IsList(s) == s \in Seq({s[i] : i \in DOMAIN s})

LEMMA ListOfAnything ==
  ASSUME NEW S, NEW s \in Seq(S)
  PROVE  IsList(s)
<1>1. Len(s) \in Nat /\ DOMAIN s = 1 .. Len(s) /\ s = [i \in 1 .. Len(s) |-> s[i]]
  OBVIOUS
<1> QED
  BY <1>1 DEF IsList

LEMMA ListIs ==
  ASSUME NEW s, IsList(s)
  PROVE  Len(s) \in Nat /\ DOMAIN s = 1 .. Len(s)
BY DEF IsList

LEMMA AppendIs ==
  ASSUME NEW S, NEW s \in Seq(S), NEW e \in S
  PROVE  /\ Append(s, e) \in Seq(S)
         /\ Len(Append(s, e)) = Len(s) + 1
         /\ \A i \in DOMAIN s : Append(s, e)[i] = s[i]
         /\ Append(s, e)[Len(s) + 1] = e
OBVIOUS

LEMMA TailIs ==
  ASSUME NEW S, NEW s \in Seq(S), s # <<>>
  PROVE  /\ Tail(s) \in Seq(S)
         /\ Len(Tail(s)) = Len(s) - 1
         /\ \A i \in DOMAIN Tail(s) : Tail(s)[i] = s[i + 1] /\ i + 1 \in DOMAIN s
         /\ Head(s) = s[1] /\ 1 \in DOMAIN s
OBVIOUS

LEMMA ListAppend ==
  ASSUME NEW s, IsList(s), NEW e
  PROVE  /\ IsList(Append(s, e))
         /\ Len(Append(s, e)) = Len(s) + 1
         /\ \A i \in DOMAIN s : Append(s, e)[i] = s[i]
         /\ Append(s, e)[Len(s) + 1] = e
<1> DEFINE S == {s[i] : i \in DOMAIN s} \cup {e}
<1>1. s \in Seq(S) /\ e \in S
  <2>1. /\ s \in Seq({s[i] : i \in DOMAIN s})
        /\ {s[i] : i \in DOMAIN s} \subseteq S
    BY DEF IsList
  <2> HIDE DEF S
  <2>2. Len(s) \in Nat /\ DOMAIN s = 1 .. Len(s) /\ s = [i \in 1 .. Len(s) |-> s[i]]
    BY <2>1
  <2>3. \A i \in 1 .. Len(s) : s[i] \in S
    BY <2>1, <2>2
  <2> QED
    BY <2>2, <2>3 DEF S
<1> HIDE DEF S
<1>2. /\ Append(s, e) \in Seq(S)
      /\ Len(Append(s, e)) = Len(s) + 1
      /\ \A i \in DOMAIN s : Append(s, e)[i] = s[i]
      /\ Append(s, e)[Len(s) + 1] = e
  BY <1>1, AppendIs
<1> QED
  BY <1>2, ListOfAnything

LEMMA ListTail ==
  ASSUME NEW s, IsList(s), s # <<>>
  PROVE  /\ IsList(Tail(s))
         /\ Len(Tail(s)) = Len(s) - 1
         /\ \A i \in DOMAIN Tail(s) : Tail(s)[i] = s[i + 1] /\ i + 1 \in DOMAIN s
         /\ Head(s) = s[1] /\ 1 \in DOMAIN s
<1> DEFINE S == {s[i] : i \in DOMAIN s}
<1>1. s \in Seq(S)
  BY DEF IsList
<1> HIDE DEF S
<1> QED
  BY <1>1, TailIs, ListOfAnything

LEMMA AbandonedList ==
  ASSUME NEW s, IsList(s), \A i \in DOMAIN s : "ours" \in DOMAIN s[i]
  PROVE  /\ IsList(Abandon(s))
         /\ Len(Abandon(s)) = Len(s) /\ DOMAIN Abandon(s) = DOMAIN s
         /\ \A i \in DOMAIN s : Abandon(s)[i].ours = FALSE /\ "ours" \in DOMAIN Abandon(s)[i]
<1>1. Len(s) \in Nat /\ DOMAIN s = 1 .. Len(s)
  BY ListIs
<1> DEFINE S == {[s[i] EXCEPT !.ours = FALSE] : i \in DOMAIN s}
<1>2. Abandon(s) = [i \in 1 .. Len(s) |-> [s[i] EXCEPT !.ours = FALSE]]
  BY <1>1 DEF Abandon
<1>3. \A i \in 1 .. Len(s) : [s[i] EXCEPT !.ours = FALSE] \in S
  BY <1>1
<1> HIDE DEF S
<1>4. Abandon(s) \in Seq(S)
  BY <1>1, <1>2, <1>3
<1>5. DOMAIN Abandon(s) = 1 .. Len(s)
  BY <1>2
<1>6. Len(Abandon(s)) = Len(s)
  BY <1>1, <1>4, <1>5
<1> QED
  BY <1>1, <1>2, <1>4, <1>5, <1>6, ListOfAnything

-----------------------------------------------------------------------------
(***************************************************************************)
(* The inductive invariant, in its parts.                                  *)
(***************************************************************************)
Watches ==
  [found : BOOLEAN, quoted : U128 \cup {Unset}, gate : U128 \cup {Unset}, peak : U128,
   peakGate : U128, leftover : BOOLEAN, crossed : BOOLEAN, landed : SUBSET Legs]

Places == {"idle", "gate"} \cup (Legs \ {"synced-root"})

Shape ==
  /\ at \in Places
  /\ waiting \in BOOLEAN /\ receipt \in {"none", "ok", "reverted"}
  /\ leg \in [Legs -> {"none", "green", "red", "broke"}]
  /\ fee \in Fees
  /\ watch \in Watches
  /\ IsList(pool)
  /\ \A i \in DOMAIN pool : "ours" \in DOMAIN pool[i] /\ pool[i].ours \in BOOLEAN

\* The run waits for one transaction, its own, of the leg it is at.
WaitsForOne ==
  /\ waiting => at \in Broadcasts
  /\ receipt # "none" => waiting
  /\ \A i \in DOMAIN pool : pool[i].ours => waiting /\ receipt = "none" /\ pool[i].leg = at
  /\ \A i, j \in DOMAIN pool : pool[i].ours /\ pool[j].ours => i = j

\* What the estimate said of it holds until another run's is mined.
EstimateStands ==
  \A i \in DOMAIN pool : (pool[i].ours /\ ~watch.crossed) => Succeeds(pool[i])

\* What the run has read of the chain, and what it says of it.
SaysWhatItRead ==
  /\ receipt = "ok" => at \in watch.landed
  /\ RevertsOnlyWhenCrossed
  /\ GreenIsLanded

\* The legs that put a note into the tree.
Shielding == {"wrap", "approve", "gate", "shield"}

\* What the funding leg knows of the tree, and what it then does about it.
KnowsTheTree ==
  /\ at = "survey" => \E q \in Questions : run = [NoRun EXCEPT !.q = q]
  /\ (at = "funding" /\ run.shielded # Unset) => (watch.found <=> Spendable(run.shielded) # {})
  /\ at \in Shielding => ~watch.found

\* A run that can still send has no red leg behind it.
NoRedBehind ==
  (at \notin {"idle", "funding"} \/ (at = "funding" /\ run.shielded # Unset)) =>
    \A l \in Legs : leg[l] \notin {"red", "broke"}

IInv ==
  Shape /\ WaitsForOne /\ EstimateStands /\ SaysWhatItRead /\ KnowsTheTree /\ NoRedBehind

LEMMA InitEstablishesIInv == Init => IInv
<1> SUFFICES ASSUME Init PROVE IInv
  OBVIOUS
<1>1. IsList(pool) /\ DOMAIN pool = {}
  <2>1. <<>> \in Seq({}) /\ DOMAIN <<>> = {}
    OBVIOUS
  <2> QED
    BY <2>1, ListOfAnything DEF Init
<1>2. Shape
  <2>1. 0 \in U128
    BY FundingAssumption DEF U128
  <2> QED
    BY <1>1, <2>1 DEF Init, Shape, Places, Watches, NoWatch, Legs
<1> QED
  BY <1>1, <1>2
  DEF Init, IInv, WaitsForOne, EstimateStands, SaysWhatItRead, RevertsOnlyWhenCrossed,
      GreenIsLanded, KnowsTheTree, Shielding, NoRedBehind, Legs

\* A run that is not waiting has nothing in the pool.
LEMMA NotWaiting ==
  ASSUME IInv, ~waiting
  PROVE  receipt = "none" /\ \A i \in DOMAIN pool : ~pool[i].ours
BY DEF IInv, WaitsForOne

(***************************************************************************)
(* A step of a run that neither waits nor sends leaves what is known of    *)
(* the pool alone.                                                         *)
(***************************************************************************)
LEMMA NothingSent ==
  ASSUME IInv, ~waiting, UNCHANGED pool, ~waiting', receipt' = "none"
  PROVE  WaitsForOne' /\ EstimateStands'
BY NotWaiting DEF IInv, WaitsForOne, EstimateStands

LEMMA OnlySendersWait ==
  ASSUME IInv, at \notin Broadcasts
  PROVE  ~waiting
BY DEF IInv, WaitsForOne

LEMMA StartKeepsIInv ==
  ASSUME IInv, NEW q \in Questions, Start(q)
  PROVE  IInv'
<1>1. ~waiting
  BY OnlySendersWait DEF Start, Broadcasts
<1>2. WaitsForOne' /\ EstimateStands'
  BY <1>1, NotWaiting, NothingSent DEF Start, chain
<1>3. watch' \in Watches
  <2>1. 0 \in U128
    BY FundingAssumption DEF U128
  <2> QED
    BY <2>1 DEF Start, NoWatch, Watches
<1>4. Shape'
  BY <1>3 DEF Start, chain, IInv, Shape, Places, Legs
<1> QED
  BY <1>1, <1>2, <1>4, NotWaiting
  DEF Start, IInv, SaysWhatItRead, RevertsOnlyWhenCrossed, GreenIsLanded, KnowsTheTree,
      Shielding, NoRedBehind, Legs

LEMMA SurveyKeepsIInv ==
  ASSUME IInv, SurveyFails \/ \E roots \in [Tree -> BOOLEAN] : SurveyCompletes(roots)
  PROVE  IInv'
<1>1. at = "survey" /\ at' = "funding" /\ ~waiting /\ ~waiting' /\ receipt' = "none"
  <2>1. at = "survey" /\ at' = "funding" /\ waiting' = waiting /\ receipt' = receipt
    BY DEF SurveyFails, SurveyCompletes
  <2> QED
    BY <2>1, OnlySendersWait, NotWaiting DEF Broadcasts
<1>2. WaitsForOne' /\ EstimateStands'
  BY <1>1, NothingSent DEF SurveyFails, SurveyCompletes, chain
<1>3. /\ watch' = [watch EXCEPT !.found = Spendable(InTree) # {}]
      /\ watch' \in Watches /\ watch'.landed = watch.landed
      /\ watch'.found = (Spendable(InTree) # {})
  <2>1. watch' = [watch EXCEPT !.found = Spendable(InTree) # {}]
    BY DEF SurveyFails, SurveyCompletes
  <2>2. (Spendable(InTree) # {}) \in BOOLEAN
    OBVIOUS
  <2> QED
    BY <2>1, <2>2 DEF IInv, Shape, Watches
<1>4. /\ leg' \in [Legs -> {"none", "green", "red", "broke"}]
      /\ \A l \in {"wrap", "shield", "broadcast"} : leg'[l] = leg[l]
  <2>1. leg \in [Legs -> {"none", "green", "red", "broke"}]
    BY DEF IInv, Shape
  <2>2. \E how, root \in {"none", "green", "red", "broke"} :
          \/ leg' = [leg EXCEPT !["survey"] = how]
          \/ leg' = [leg EXCEPT !["survey"] = how, !["synced-root"] = root]
    BY DEF SurveyFails, SurveyCompletes
  <2> QED
    BY <2>1, <2>2 DEF Legs
<1>5. Shape'
  BY <1>1, <1>3, <1>4 DEF SurveyFails, SurveyCompletes, chain, IInv, Shape, Places, Legs
<1>6. SaysWhatItRead'
  BY <1>1, <1>3, <1>4 DEF IInv, SaysWhatItRead, RevertsOnlyWhenCrossed, GreenIsLanded
<1>7. run.shielded = Unset
  BY <1>1 DEF IInv, KnowsTheTree, NoRun
<1>8. run'.shielded # Unset => /\ run'.shielded = InTree
                               /\ \A l \in Legs : leg'[l] \notin {"red", "broke"}
  <2>1. PICK q \in Questions : run = [NoRun EXCEPT !.q = q]
    BY <1>1 DEF IInv, KnowsTheTree
  <2>2. \A l \in Legs : leg[l] \notin {"red", "broke"}
    BY <1>1 DEF IInv, NoRedBehind
  <2>3. CASE SurveyFails
    BY <1>7, <2>3 DEF SurveyFails
  <2>4. ASSUME NEW roots \in [Tree -> BOOLEAN], SurveyCompletes(roots)
        PROVE  run'.shielded # Unset => /\ run'.shielded = InTree
                                        /\ \A l \in Legs : leg'[l] \notin {"red", "broke"}
    <3>1. CASE roots["newest"]
      <4>1. run'.shielded = InTree
        BY <2>1, <2>4, <3>1 DEF SurveyCompletes, NoRun
      <4>2. \A l \in Legs : leg'[l] \notin {"red", "broke"}
        <5>1. leg' = [leg EXCEPT !["survey"] = "green", !["synced-root"] = "green"]
          BY <2>4, <3>1 DEF SurveyCompletes
        <5>2. leg \in [Legs -> {"none", "green", "red", "broke"}]
          BY DEF IInv, Shape
        <5> QED
          BY <2>2, <5>1, <5>2
      <4> QED
        BY <4>1, <4>2
    <3>2. CASE ~roots["newest"]
      BY <2>1, <2>4, <3>2 DEF SurveyCompletes, NoRun
    <3> QED
      BY <3>1, <3>2
  <2> QED
    BY <2>3, <2>4
<1>9. KnowsTheTree' /\ NoRedBehind'
  BY <1>1, <1>3, <1>8 DEF KnowsTheTree, NoRedBehind, Shielding
<1> QED
  BY <1>2, <1>5, <1>6, <1>9 DEF IInv

-----------------------------------------------------------------------------
Marks == {"none", "green", "red", "broke"}
Sending == {"wrap", "shield", "broadcast"}

\* A run that ends, whatever its last leg's mark, keeps no transaction.
LEMMA OverKeepsIInv ==
  ASSUME IInv, Over, leg' \in [Legs -> Marks],
         \A l \in Sending : leg'[l] = "green" => l \in watch'.landed,
         fee' \in Fees, watch' \in Watches,
         IsList(pool'),
         \A i \in DOMAIN pool' : "ours" \in DOMAIN pool'[i] /\ pool'[i].ours = FALSE
  PROVE  IInv'
BY DEF Over, IInv, Shape, Places, Marks, WaitsForOne, EstimateStands, SaysWhatItRead,
       RevertsOnlyWhenCrossed, GreenIsLanded, Sending, KnowsTheTree, Shielding, NoRedBehind

\* A run that leaves a leg behind and goes on to one that is not the funding.
LEMMA GreenKeepsIInv ==
  ASSUME IInv, NEW l \in Legs, NEW next \in Places \ {"idle", "survey", "funding"},
         Green(l, next), at \notin {"idle", "funding"},
         \A i \in DOMAIN pool : ~pool[i].ours,
         l \in Sending => l \in watch.landed,
         next \in Shielding => ~watch.found,
         UNCHANGED <<fee, pool, watch>>
  PROVE  IInv'
<1>1. leg' \in [Legs -> Marks] /\ leg'[l] = "green" /\ \A m \in Legs : m # l => leg'[m] = leg[m]
  BY DEF Green, IInv, Shape, Marks
<1>2. \A m \in Legs : leg[m] \notin {"red", "broke"}
  BY DEF IInv, NoRedBehind
<1>3. Sending \subseteq Legs
  BY DEF Sending, Legs
<1>4. Shape'
  BY <1>1 DEF Green, IInv, Shape, Marks
<1>5. SaysWhatItRead'
  BY <1>1, <1>3 DEF Green, IInv, SaysWhatItRead, RevertsOnlyWhenCrossed, GreenIsLanded, Sending
<1>6. NoRedBehind'
  BY <1>1, <1>2 DEF NoRedBehind
<1>7. KnowsTheTree'
  BY DEF Green, KnowsTheTree
<1>8. WaitsForOne' /\ EstimateStands'
  BY DEF Green, WaitsForOne, EstimateStands
<1> QED
  BY <1>4, <1>5, <1>6, <1>7, <1>8 DEF IInv

\* The same for a leg that ends red, and for one that ends the run green.
LEMMA MarkIs ==
  ASSUME IInv, NEW l \in Legs, NEW how \in Marks, leg' = [leg EXCEPT ![l] = how],
         (how = "green" /\ l \in Sending) => l \in watch.landed
  PROVE  /\ leg' \in [Legs -> Marks]
         /\ \A m \in Sending : leg'[m] = "green" => m \in watch.landed
BY DEF IInv, Shape, Marks, SaysWhatItRead, GreenIsLanded, Sending, Legs

LEMMA NothingOurs ==
  ASSUME IInv, ~waiting
  PROVE  /\ IsList(pool)
         /\ \A i \in DOMAIN pool : "ours" \in DOMAIN pool[i] /\ pool[i].ours = FALSE
         /\ \A i \in DOMAIN pool : ~pool[i].ours
BY NotWaiting DEF IInv, Shape

LEMMA NothingOursAbandoned ==
  ASSUME IInv
  PROVE  /\ IsList(Abandon(pool)) /\ Len(Abandon(pool)) = Len(pool)
         /\ DOMAIN Abandon(pool) = DOMAIN pool
         /\ \A i \in DOMAIN Abandon(pool) : /\ "ours" \in DOMAIN Abandon(pool)[i]
                                            /\ Abandon(pool)[i].ours = FALSE
BY AbandonedList DEF IInv, Shape

LEMMA RedKeepsIInv ==
  ASSUME IInv, NEW l \in Legs, NEW how \in {"red", "broke"}, Red(l, how),
         fee' = fee, watch' \in Watches, watch'.landed = watch.landed,
         IsList(pool'),
         \A i \in DOMAIN pool' : "ours" \in DOMAIN pool'[i] /\ pool'[i].ours = FALSE
  PROVE  IInv'
<1>1. /\ leg' \in [Legs -> Marks]
      /\ \A m \in Sending : leg'[m] = "green" => m \in watch'.landed
  BY MarkIs DEF Red, Marks
<1>2. fee' \in Fees
  BY DEF IInv, Shape
<1> QED
  BY <1>1, <1>2, OverKeepsIInv DEF Red

LEMMA RefusedKeepsIInv ==
  ASSUME IInv, NEW l \in Broadcasts, Refused(l)
  PROVE  IInv'
<1>1. /\ fee' = fee /\ pool' = pool /\ watch' = watch /\ ~waiting
      /\ \E how \in {"red", "broke"} : Red(l, how)
  BY DEF Refused, chain
<1>2. l \in Legs /\ watch \in Watches
  BY DEF Broadcasts, Legs, IInv, Shape
<1> QED
  BY <1>1, <1>2, NothingOurs, RedKeepsIInv

LEMMA WaitFailsKeepsIInv ==
  ASSUME IInv, NEW l \in Broadcasts, WaitFails(l)
  PROVE  IInv'
<1>1. fee' = fee /\ pool' = Abandon(pool) /\ watch' = watch /\ Red(l, "red")
  BY DEF WaitFails
<1>2. l \in Legs /\ watch \in Watches
  BY DEF Broadcasts, Legs, IInv, Shape
<1> QED
  BY <1>1, <1>2, NothingOursAbandoned, RedKeepsIInv

LEMMA WaitSucceedsKeepsIInv ==
  ASSUME IInv, NEW l \in Broadcasts, NEW next \in Places \ {"idle", "survey", "funding"},
         WaitSucceeds(l, next), next \in Shielding => l \in Shielding
  PROVE  IInv'
<1>1. /\ at = l /\ receipt = "ok" /\ Green(l, next) /\ UNCHANGED <<fee, pool, watch>>
  BY DEF WaitSucceeds, chain
<1>2. l \in watch.landed /\ \A i \in DOMAIN pool : ~pool[i].ours
  BY <1>1 DEF IInv, SaysWhatItRead, WaitsForOne
<1>3. next \in Shielding => ~watch.found
  BY <1>1 DEF IInv, KnowsTheTree
<1>4. l \in Legs /\ at \notin {"idle", "funding"}
  BY <1>1 DEF Broadcasts, Legs
<1> QED
  BY <1>1, <1>2, <1>3, <1>4, GreenKeepsIInv

LEMMA FeesAreAmounts == Fees \subseteq U128 /\ 0 \in U128
BY LiveSendAssumption, FundingAssumption DEF U128

LEMMA PlanKinds ==
  ASSUME NEW p, NEW a, NEW shown
  PROVE  /\ Plan(p, a, shown).kind \in {"ask", "spend", "shield"}
         /\ Plan(p, a, shown).kind = "shield" => Spendable(shown) = {}
BY DEF Plan, PlanShield, Ask, SpendNote, ShieldUnits

LEMMA FundingKeepsIInv ==
  ASSUME IInv, FundingFails \/ \E quoted \in {fee, Unset} : Funding(quoted)
  PROVE  IInv'
<1>1. at = "funding" /\ ~waiting /\ fee' = fee /\ pool' = pool /\ "funding" \in Legs
  <2>1. at = "funding" /\ fee' = fee /\ pool' = pool
    BY DEF FundingFails, Funding, chain
  <2> QED
    BY <2>1, OnlySendersWait DEF Broadcasts, Legs
<1>2. /\ watch' \in Watches /\ watch'.landed = watch.landed /\ watch'.found = watch.found
      /\ watch'.crossed = watch.crossed
  <2>1. watch \in Watches /\ fee \in U128
    BY FeesAreAmounts DEF IInv, Shape
  <2>2. \/ watch' = watch
        \/ \E quoted \in {fee, Unset} : watch' = [watch EXCEPT !.quoted = quoted, !.peak = fee]
    BY DEF FundingFails, Funding
  <2>3. ASSUME NEW quoted \in {fee, Unset},
               watch' = [watch EXCEPT !.quoted = quoted, !.peak = fee]
        PROVE  /\ watch' \in Watches /\ watch'.landed = watch.landed
               /\ watch'.found = watch.found /\ watch'.crossed = watch.crossed
    BY <2>1, <2>3 DEF Watches
  <2> QED
    BY <2>1, <2>2, <2>3
<1>3. CASE Red("funding", "red")
  BY <1>1, <1>2, <1>3, NothingOurs, RedKeepsIInv
<1>4. ASSUME NEW quoted \in {fee, Unset}, Funding(quoted), ~Red("funding", "red")
      PROVE  IInv'
  <2> DEFINE answered == Plan(PurseNow(quoted), run.q.asked, Surveyed)
  <2>1. CASE run.shielded = Unset
    <3>1. leg' = [leg EXCEPT !["funding"] = "green"] /\ Over
      BY <1>4, <2>1 DEF Funding
    <3>2. /\ leg' \in [Legs -> Marks]
          /\ \A m \in Sending : leg'[m] = "green" => m \in watch'.landed
      BY <1>1, <1>2, <3>1, MarkIs DEF Marks, Sending
    <3>3. fee' \in Fees
      BY <1>1 DEF IInv, Shape
    <3> QED
      BY <1>1, <1>2, <3>1, <3>2, <3>3, NothingOurs, OverKeepsIInv
  <2>2. CASE run.shielded # Unset
    <3>1. /\ answered.kind \in {"spend", "shield"}
          /\ Green("funding", AfterFunding(answered))
      <4>1. answered.kind \in {"ask", "spend", "shield"}
        BY PlanKinds
      <4> HIDE DEF answered
      <4> QED
        BY <1>4, <2>2, <4>1 DEF Funding, answered
    <3>2. answered.kind = "shield" => ~watch.found
      BY <1>1, <2>2, PlanKinds DEF IInv, KnowsTheTree, Surveyed
    <3> HIDE DEF answered
    <3> DEFINE next == AfterFunding(answered)
    <3>3. next \in {"transfer", "wrap", "approve"} /\ (next \in Shielding => ~watch.found)
      BY <3>1, <3>2 DEF AfterFunding, Shielding
    <3> HIDE DEF next
    <3>4. Green("funding", next)
      BY <3>1 DEF next
    <3>5. leg' \in [Legs -> Marks] /\ \A m \in Legs : m # "funding" => leg'[m] = leg[m]
      BY <3>4 DEF Green, IInv, Shape, Marks
    <3>6. leg'["funding"] = "green"
      BY <1>1, <3>4 DEF Green, IInv, Shape, Marks
    <3>7. Shape'
      BY <1>1, <1>2, <3>3, <3>4, <3>5 DEF Green, IInv, Shape, Marks, Places, Legs
    <3>8. WaitsForOne' /\ EstimateStands'
      BY <1>1, <3>4, NothingSent DEF Green
    <3>9. SaysWhatItRead'
      BY <1>2, <3>4, <3>5
      DEF Green, IInv, SaysWhatItRead, RevertsOnlyWhenCrossed, GreenIsLanded, Legs
    <3>10. KnowsTheTree'
      BY <1>2, <3>3, <3>4 DEF Green, KnowsTheTree
    <3>11. NoRedBehind'
      BY <1>1, <2>2, <3>5, <3>6 DEF IInv, NoRedBehind
    <3> QED
      BY <3>7, <3>8, <3>9, <3>10, <3>11 DEF IInv
  <2> QED
    BY <2>1, <2>2
<1> QED
  BY <1>3, <1>4 DEF FundingFails

LEMMA AllowanceSufficesKeepsIInv ==
  ASSUME IInv, AllowanceSuffices
  PROVE  IInv'
<1>1. /\ at = "approve" /\ ~waiting /\ Green("approve", "gate")
      /\ UNCHANGED <<fee, pool, watch>>
  BY DEF AllowanceSuffices, chain
<1>2. ~watch.found
  BY <1>1 DEF IInv, KnowsTheTree, Shielding
<1> QED
  BY <1>1, <1>2, NothingOurs, GreenKeepsIInv DEF Places, Legs, Sending

LEMMA ShieldGateKeepsIInv ==
  ASSUME IInv, NEW answers \in BOOLEAN, ShieldGate(answers)
  PROVE  IInv'
<1>1. at = "gate" /\ ~waiting /\ fee' = fee /\ pool' = pool
  <2>1. at = "gate"
    BY DEF ShieldGate
  <2> QED
    BY <2>1, OnlySendersWait DEF ShieldGate, chain, Broadcasts
<1>2. /\ watch' \in Watches /\ watch'.landed = watch.landed /\ watch'.found = watch.found
      /\ watch'.crossed = watch.crossed
  <2>1. watch \in Watches /\ fee \in U128
    BY FeesAreAmounts DEF IInv, Shape
  <2>2. PICK read \in {fee, Unset} : watch' = [watch EXCEPT !.gate = read, !.peakGate = fee]
    BY DEF ShieldGate
  <2>3. read \in U128 \cup {Unset}
    BY <2>1
  <2> QED
    BY <2>1, <2>2, <2>3 DEF Watches
<1>3. CASE Red("shield", "red")
  BY <1>1, <1>2, <1>3, NothingOurs, RedKeepsIInv DEF Legs
<1>4. CASE at' = "shield" /\ UNCHANGED <<waiting, receipt, run, leg>>
  <2>1. Shape'
    BY <1>1, <1>2, <1>4 DEF IInv, Shape, Places, Legs
  <2>2. WaitsForOne' /\ EstimateStands'
    BY <1>1, <1>4, NotWaiting, NothingSent
  <2>3. SaysWhatItRead'
    BY <1>1, <1>2, <1>4, NotWaiting
    DEF IInv, SaysWhatItRead, RevertsOnlyWhenCrossed, GreenIsLanded
  <2>4. KnowsTheTree' /\ NoRedBehind'
    BY <1>1, <1>2, <1>4 DEF IInv, KnowsTheTree, NoRedBehind, Shielding
  <2> QED
    BY <2>1, <2>2, <2>3, <2>4 DEF IInv
<1> QED
  BY <1>3, <1>4 DEF ShieldGate

\* The legs that send nothing and change nothing of the chain.
LEMMA ReadingLegsKeepIInv ==
  ASSUME IInv, \/ \E roots \in [Tree -> BOOLEAN] : Resync(roots)
               \/ Note
               \/ \E ops \in Operations : Transfer(ops)
               \/ TransfersNothing
               \/ RootOnChain
  PROVE  IInv'
<1>1. /\ at \in {"resync", "note", "transfer", "root-on-chain"}
      /\ UNCHANGED <<fee, pool, watch>>
  BY DEF Resync, Note, Transfer, TransfersNothing, RootOnChain, chain
<1>2. ~waiting /\ watch \in Watches /\ fee \in Fees
  BY <1>1, OnlySendersWait DEF Broadcasts, IInv, Shape
<1>3. CASE \E l \in {"resync", "note", "transfer", "root-on-chain"} : Red(l, "red")
  BY <1>1, <1>2, <1>3, NothingOurs, RedKeepsIInv DEF Legs
<1>4. CASE \E l \in {"resync", "note", "transfer", "root-on-chain"},
             next \in {"note", "transfer", "root-on-chain", "broadcast"} : Green(l, next)
  BY <1>1, <1>2, <1>4, NothingOurs, GreenKeepsIInv DEF Legs, Places, Sending, Shielding
<1>5. CASE Over /\ \E l \in {"transfer", "root-on-chain"} : leg' = [leg EXCEPT ![l] = "green"]
  <2>1. /\ leg' \in [Legs -> Marks]
        /\ \A m \in Sending : leg'[m] = "green" => m \in watch'.landed
    BY <1>1, <1>5, MarkIs DEF Marks, Legs, Sending
  <2> QED
    BY <1>1, <1>2, <1>5, <2>1, NothingOurs, OverKeepsIInv
<1> QED
  BY <1>3, <1>4, <1>5 DEF Resync, Note, Transfer, TransfersNothing, RootOnChain

LEMMA BroadcastLandsKeepsIInv ==
  ASSUME IInv, BroadcastLands
  PROVE  IInv'
<1>1. /\ at = "broadcast" /\ receipt = "ok" /\ Over
      /\ leg' = [leg EXCEPT !["broadcast"] = "green"]
      /\ UNCHANGED <<fee, pool, watch>>
  BY DEF BroadcastLands, chain
<1>2. "broadcast" \in watch.landed /\ \A i \in DOMAIN pool : ~pool[i].ours
  BY <1>1 DEF IInv, SaysWhatItRead, WaitsForOne
<1>3. /\ leg' \in [Legs -> Marks]
      /\ \A m \in Sending : leg'[m] = "green" => m \in watch'.landed
  BY <1>1, <1>2, MarkIs DEF Marks, Legs
<1>4. /\ fee' \in Fees /\ watch' \in Watches /\ IsList(pool')
      /\ \A i \in DOMAIN pool' : "ours" \in DOMAIN pool'[i] /\ pool'[i].ours = FALSE
  BY <1>1, <1>2 DEF IInv, Shape
<1> QED
  BY <1>1, <1>3, <1>4, OverKeepsIInv

LEMMA DiesKeepsIInv ==
  ASSUME IInv, Dies
  PROVE  IInv'
<1>1. /\ leg' \in [Legs -> Marks] /\ fee' \in Fees /\ watch' \in Watches
      /\ \A l \in Sending : leg'[l] = "green" => l \in watch'.landed
  BY DEF Dies, IInv, Shape, Marks, Sending, SaysWhatItRead, GreenIsLanded
<1> QED
  BY <1>1, NothingOursAbandoned, OverKeepsIInv DEF Dies

-----------------------------------------------------------------------------
(***************************************************************************)
(* What a send leaves in the pool: one more transaction, the run's own if  *)
(* it was told of it.                                                      *)
(***************************************************************************)
LEMMA TxIs ==
  ASSUME NEW l
  PROVE  /\ Tx(l).leg = l /\ Tx(l).ours = TRUE /\ "ours" \in DOMAIN Tx(l)
         /\ [Tx(l) EXCEPT !.ours = FALSE].ours = FALSE
         /\ [Tx(l) EXCEPT !.ours = FALSE].leg = l
         /\ "ours" \in DOMAIN [Tx(l) EXCEPT !.ours = FALSE]
BY DEF Tx

LEMMA RepliedSendKeepsIInv ==
  ASSUME IInv, NEW l \in Broadcasts, Sends(l, TRUE)
  PROVE  IInv'
<1> DEFINE tx == Tx(l)
           n == Len(pool) + 1
<1>1. /\ at = l /\ ~waiting /\ Succeeds(tx) /\ pool' = Append(pool, tx) /\ waiting' = TRUE
      /\ watch' = [watch EXCEPT !.crossed = FALSE]
      /\ UNCHANGED <<fee, units, allowance, notes, spends, at, receipt, run, leg>>
  BY DEF Sends
<1>2. receipt = "none" /\ IsList(pool) /\ \A i \in DOMAIN pool : ~pool[i].ours
  BY <1>1, NotWaiting DEF IInv, Shape
<1>3. /\ watch' \in Watches /\ watch'.landed = watch.landed /\ watch'.found = watch.found
  BY <1>1 DEF IInv, Shape, Watches
<1>4. tx.leg = l /\ tx.ours = TRUE /\ "ours" \in DOMAIN tx
  BY TxIs
<1>5. Succeeds(tx)'
  BY <1>1 DEF Succeeds, Tx
<1> HIDE DEF tx
<1>6. /\ IsList(pool') /\ Len(pool) \in Nat /\ DOMAIN pool = 1 .. Len(pool)
      /\ DOMAIN pool' = 1 .. n /\ pool'[n] = tx
      /\ \A i \in DOMAIN pool : pool'[i] = pool[i]
  BY <1>1, <1>2, ListAppend, ListIs
<1>7. \A i \in DOMAIN pool' : i = n \/ (i \in DOMAIN pool /\ pool'[i] = pool[i])
  BY <1>6
<1> HIDE DEF n
<1>8. Shape'
  BY <1>1, <1>3, <1>4, <1>6, <1>7 DEF IInv, Shape
<1>9. WaitsForOne'
  BY <1>1, <1>2, <1>4, <1>6, <1>7 DEF WaitsForOne
<1>10. EstimateStands'
  <2>1. \A i \in DOMAIN pool' : pool'[i].ours => pool'[i] = tx
    BY <1>2, <1>6, <1>7
  <2>2. tx' = tx
    BY <1>1 DEF tx, Tx
  <2>3. \A i \in DOMAIN pool' : pool'[i].ours => Succeeds(pool[i])'
    BY <2>1, <2>2, <1>5 DEF Succeeds
  <2> QED
    BY <2>3 DEF EstimateStands
<1>11. SaysWhatItRead'
  BY <1>1, <1>2, <1>3 DEF IInv, SaysWhatItRead, RevertsOnlyWhenCrossed, GreenIsLanded
<1>12. KnowsTheTree' /\ NoRedBehind'
  BY <1>1, <1>3 DEF IInv, KnowsTheTree, NoRedBehind, Broadcasts
<1> QED
  BY <1>8, <1>9, <1>10, <1>11, <1>12 DEF IInv

LEMMA LostSendKeepsIInv ==
  ASSUME IInv, NEW l \in Broadcasts, Sends(l, FALSE)
  PROVE  IInv'
<1> DEFINE tx == [Tx(l) EXCEPT !.ours = FALSE]
<1>1. /\ pool' = Append(Abandon(pool), tx) /\ Red(l, "red") /\ fee' = fee
      /\ watch' = [watch EXCEPT !.crossed = FALSE]
  BY DEF Sends
<1>2. tx.ours = FALSE /\ "ours" \in DOMAIN tx
  BY TxIs
<1> HIDE DEF tx
<1>3. /\ IsList(Abandon(pool))
      /\ \A i \in DOMAIN Abandon(pool) : /\ "ours" \in DOMAIN Abandon(pool)[i]
                                         /\ Abandon(pool)[i].ours = FALSE
  BY NothingOursAbandoned
<1>4. /\ IsList(pool') /\ Len(pool') = Len(Abandon(pool)) + 1
      /\ \A i \in DOMAIN Abandon(pool) : pool'[i] = Abandon(pool)[i]
      /\ pool'[Len(Abandon(pool)) + 1] = tx
  BY <1>1, <1>3, ListAppend
<1>5. \A i \in DOMAIN pool' : "ours" \in DOMAIN pool'[i] /\ pool'[i].ours = FALSE
  <2>1. /\ DOMAIN pool' = 1 .. Len(Abandon(pool)) + 1 /\ Len(Abandon(pool)) \in Nat
        /\ DOMAIN Abandon(pool) = 1 .. Len(Abandon(pool))
    BY <1>3, <1>4, ListIs
  <2>2. \A i \in DOMAIN pool' : i \in DOMAIN Abandon(pool) \/ i = Len(Abandon(pool)) + 1
    BY <2>1
  <2> QED
    BY <1>2, <1>3, <1>4, <2>2
<1>6. watch' \in Watches /\ watch'.landed = watch.landed
  BY <1>1 DEF IInv, Shape, Watches
<1>7. l \in Legs
  BY DEF Broadcasts, Legs
<1> QED
  BY <1>1, <1>4, <1>5, <1>6, <1>7, RedKeepsIInv

(***************************************************************************)
(* The head of the pool is mined: the run's own, or somebody else's.       *)
(***************************************************************************)
LEMMA MineKeepsIInv ==
  ASSUME IInv, Mine
  PROVE  IInv'
<1> DEFINE tx == Head(pool)
           done == Succeeds(tx)
<1>1. /\ pool # <<>> /\ pool' = Tail(pool) /\ UNCHANGED <<fee, at, waiting, run, leg>>
      /\ receipt' = IF tx.ours THEN IF done THEN "ok" ELSE "reverted" ELSE receipt
      /\ watch' = IF tx.ours
                    THEN [watch EXCEPT !.landed = IF done THEN watch.landed \cup {tx.leg}
                                                          ELSE watch.landed]
                    ELSE [watch EXCEPT !.leftover = watch.leftover \/ at # "idle",
                                       !.crossed = waiting]
  BY DEF Mine
<1>2. /\ IsList(pool) /\ 1 \in DOMAIN pool /\ tx = pool[1]
      /\ IsList(pool')
      /\ \A i \in DOMAIN pool' : pool'[i] = pool[i + 1] /\ i + 1 \in DOMAIN pool /\ i + 1 # 1
  <2>1. IsList(pool)
    BY DEF IInv, Shape
  <2>2. /\ IsList(Tail(pool)) /\ Head(pool) = pool[1] /\ 1 \in DOMAIN pool
        /\ \A i \in DOMAIN Tail(pool) : Tail(pool)[i] = pool[i + 1] /\ i + 1 \in DOMAIN pool
    BY <1>1, <2>1, ListTail
  <2>3. \A i \in DOMAIN Tail(pool) : i + 1 # 1
    BY <2>2, ListIs
  <2> QED
    BY <1>1, <2>1, <2>2, <2>3
<1>3. tx.ours \in BOOLEAN
  BY <1>2 DEF IInv, Shape
<1>4. KnowsTheTree' /\ NoRedBehind'
  BY <1>1 DEF IInv, Shape, Watches, KnowsTheTree, NoRedBehind
<1>5. CASE tx.ours
  <2>1. waiting /\ at = tx.leg /\ at \in Broadcasts /\ receipt = "none"
    BY <1>2, <1>5 DEF IInv, WaitsForOne
  <2>2. \A i \in DOMAIN pool' : ~pool'[i].ours
    BY <1>2, <1>5 DEF IInv, WaitsForOne
  <2>3. watch.crossed \/ done
    BY <1>2, <1>5 DEF IInv, EstimateStands
  <2> HIDE DEF tx, done
  <2>4. /\ watch' \in Watches /\ watch'.crossed = watch.crossed
        /\ watch'.landed = IF done THEN watch.landed \cup {at} ELSE watch.landed
    BY <1>1, <1>5, <2>1 DEF IInv, Shape, Watches, Broadcasts, Legs
  <2>5. receipt' = IF done THEN "ok" ELSE "reverted"
    BY <1>1, <1>5
  <2>6. Shape'
    BY <1>1, <1>2, <2>4, <2>5 DEF IInv, Shape
  <2>7. WaitsForOne' /\ EstimateStands'
    BY <1>1, <2>1, <2>2 DEF WaitsForOne, EstimateStands
  <2>8. SaysWhatItRead'
    BY <1>1, <2>3, <2>4, <2>5 DEF IInv, SaysWhatItRead, RevertsOnlyWhenCrossed, GreenIsLanded
  <2> QED
    BY <1>4, <2>6, <2>7, <2>8 DEF IInv
<1>6. CASE ~tx.ours
  <2> HIDE DEF tx, done
  <2>1. /\ receipt' = receipt
        /\ watch' = [watch EXCEPT !.leftover = watch.leftover \/ at # "idle",
                                  !.crossed = waiting]
    BY <1>1, <1>6
  <2>2. (watch.leftover \/ at # "idle") \in BOOLEAN /\ waiting \in BOOLEAN
    BY DEF IInv, Shape
  <2>3. /\ watch' \in Watches /\ watch'.crossed = waiting /\ watch'.landed = watch.landed
    BY <2>1, <2>2 DEF IInv, Shape, Watches
  <2>4. Shape'
    BY <1>1, <1>2, <2>1, <2>3 DEF IInv, Shape
  <2>5. WaitsForOne'
    <3>1. \A i \in DOMAIN pool' : pool'[i].ours =>
            waiting /\ receipt = "none" /\ pool'[i].leg = at
      BY <1>2 DEF IInv, WaitsForOne
    <3>2. \A i, j \in DOMAIN pool' : pool'[i].ours /\ pool'[j].ours => i = j
      <4>1. SUFFICES ASSUME NEW i \in DOMAIN pool', NEW j \in DOMAIN pool',
                            pool'[i].ours, pool'[j].ours
                     PROVE  i = j
        OBVIOUS
      <4>2. i + 1 = j + 1
        BY <1>2, <4>1 DEF IInv, WaitsForOne
      <4>3. i \in Nat /\ j \in Nat
        BY <1>2, ListIs
      <4> QED
        BY <4>2, <4>3
    <3> QED
      BY <1>1, <2>1, <3>1, <3>2 DEF IInv, WaitsForOne
  <2>6. EstimateStands'
    <3>1. \A i \in DOMAIN pool' : pool'[i].ours => waiting
      BY <1>2 DEF IInv, WaitsForOne
    <3> QED
      BY <2>3, <3>1 DEF EstimateStands
  <2>7. SaysWhatItRead'
    BY <1>1, <2>1, <2>3
    DEF IInv, WaitsForOne, SaysWhatItRead, RevertsOnlyWhenCrossed, GreenIsLanded
  <2> QED
    BY <1>4, <2>4, <2>5, <2>6, <2>7 DEF IInv
<1> QED
  BY <1>3, <1>5, <1>6

LEMMA FeeMovesKeepsIInv ==
  ASSUME IInv, NEW f \in Fees, FeeMoves(f)
  PROVE  IInv'
<1>1. /\ fee' = f
      /\ watch' = [watch EXCEPT !.peak = Larger(watch.peak, f),
                                !.peakGate = Larger(watch.peakGate, f)]
      /\ UNCHANGED <<units, allowance, notes, spends, pool, at, waiting, receipt, run, leg>>
  BY DEF FeeMoves
<1>2. f \in U128 /\ watch \in Watches
  BY FeesAreAmounts DEF IInv, Shape
<1>3. Larger(watch.peak, f) \in U128 /\ Larger(watch.peakGate, f) \in U128
  BY <1>2 DEF Watches, Larger
<1>4. /\ watch' \in Watches /\ watch'.landed = watch.landed /\ watch'.found = watch.found
      /\ watch'.crossed = watch.crossed
  BY <1>1, <1>2, <1>3 DEF Watches
<1>5. Shape'
  BY <1>1, <1>4 DEF IInv, Shape
<1>6. WaitsForOne' /\ EstimateStands'
  BY <1>1, <1>4 DEF IInv, WaitsForOne, EstimateStands, Succeeds
<1>7. SaysWhatItRead'
  BY <1>1, <1>4 DEF IInv, SaysWhatItRead, RevertsOnlyWhenCrossed, GreenIsLanded
<1>8. KnowsTheTree' /\ NoRedBehind'
  BY <1>1, <1>4 DEF IInv, KnowsTheTree, NoRedBehind
<1> QED
  BY <1>5, <1>6, <1>7, <1>8 DEF IInv

LEMMA TopUpKeepsIInv ==
  ASSUME IInv, TopUp \/ UNCHANGED vars
  PROVE  IInv'
<1>1. /\ watch' = watch /\ fee' = fee
      /\ UNCHANGED <<units, allowance, notes, spends, pool, at, waiting, receipt, run, leg>>
  BY DEF TopUp, vars, chain
<1> QED
  BY <1>1
  DEF IInv, Shape, WaitsForOne, EstimateStands, Succeeds, SaysWhatItRead,
      RevertsOnlyWhenCrossed, GreenIsLanded, KnowsTheTree, NoRedBehind

(***************************************************************************)
(* The inductive invariant of run of live_send.rs, for every number of     *)
(* runs and every set of prices: a run waits for one transaction and owns  *)
(* no other, its estimate stands unless another run's transaction was      *)
(* mined, it knows the tree it surveyed, and no leg before it is red.      *)
(***************************************************************************)
THEOREM LiveSendInvariant == Spec => []IInv
<1>1. IInv /\ [Next]_vars => IInv'
  <2> SUFFICES ASSUME IInv, [Next]_vars PROVE IInv'
    OBVIOUS
  <2>1. ASSUME NEW l \in Broadcasts, NEW replied \in BOOLEAN, Sends(l, replied)
        PROVE  IInv'
    BY <2>1, RepliedSendKeepsIInv, LostSendKeepsIInv
  <2>2. ASSUME Wrap PROVE IInv'
    <3>1. "wrap" \in Broadcasts /\ "approve" \in Places \ {"idle", "survey", "funding"}
          /\ "wrap" \in Shielding
      BY DEF Broadcasts, Places, Legs, Shielding
    <3> QED
      BY <2>1, <2>2, <3>1, RefusedKeepsIInv, WaitSucceedsKeepsIInv, WaitFailsKeepsIInv DEF Wrap
  <2>3. ASSUME Approve PROVE IInv'
    <3>1. "approve" \in Broadcasts /\ "gate" \in Places \ {"idle", "survey", "funding"}
          /\ "approve" \in Shielding
      BY DEF Broadcasts, Places, Legs, Shielding
    <3> QED
      BY <2>1, <2>3, <3>1, AllowanceSufficesKeepsIInv, RefusedKeepsIInv, WaitSucceedsKeepsIInv,
         WaitFailsKeepsIInv DEF Approve
  <2>4. ASSUME Shield PROVE IInv'
    <3>1. "shield" \in Broadcasts /\ "resync" \in Places \ {"idle", "survey", "funding"}
          /\ "shield" \in Shielding
      BY DEF Broadcasts, Places, Legs, Shielding
    <3> QED
      BY <2>1, <2>4, <3>1, ShieldGateKeepsIInv, RefusedKeepsIInv, WaitSucceedsKeepsIInv,
         WaitFailsKeepsIInv DEF Shield
  <2>5. ASSUME Broadcast PROVE IInv'
    <3>1. "broadcast" \in Broadcasts
      BY DEF Broadcasts
    <3> QED
      BY <2>1, <2>5, <3>1, RefusedKeepsIInv, BroadcastLandsKeepsIInv, WaitFailsKeepsIInv
      DEF Broadcast
  <2>6. ASSUME RunStep PROVE IInv'
    BY <2>2, <2>3, <2>4, <2>5, <2>6, SurveyKeepsIInv, FundingKeepsIInv, ReadingLegsKeepIInv
    DEF RunStep
  <2> QED
    BY <2>6, StartKeepsIInv, DiesKeepsIInv, MineKeepsIInv, FeeMovesKeepsIInv, TopUpKeepsIInv
    DEF Next
<1> QED
  BY <1>1, InitEstablishesIInv, PTL DEF Spec

-----------------------------------------------------------------------------
(***************************************************************************)
(* A leg that sends is green only over its own transaction, mined and with *)
(* its effect, whatever earlier runs left in the pool.                     *)
(***************************************************************************)
THEOREM GreenLegsLanded == Spec => []GreenIsLanded
<1>1. IInv => GreenIsLanded
  BY DEF IInv, SaysWhatItRead
<1> QED
  BY <1>1, LiveSendInvariant, PTL

(***************************************************************************)
(* A transaction that was estimated reverts only where one of another run  *)
(* was mined while it waited.                                              *)
(***************************************************************************)
THEOREM RevertsAreCrossed == Spec => []RevertsOnlyWhenCrossed
<1>1. IInv => RevertsOnlyWhenCrossed
  BY DEF IInv, SaysWhatItRead
<1> QED
  BY <1>1, LiveSendInvariant, PTL

\* Only a leg that sends puts a transaction into the pool, and it is its own.
LEMMA OnlySendsSign ==
  ASSUME IInv, Next, Signs
  PROVE  \E l \in Broadcasts, replied \in BOOLEAN : Sends(l, replied)
<1>1. IsList(pool) /\ Len(pool) \in Nat
  BY ListIs DEF IInv, Shape
<1>2. pool' # pool /\ pool' # Abandon(pool)
  BY <1>1, NothingOursAbandoned DEF Signs
<1>3. ~Mine
  <2>1. SUFFICES ASSUME Mine PROVE FALSE
    OBVIOUS
  <2>2. Len(pool') = Len(pool) - 1
    BY <1>1, <2>1, ListTail DEF Mine
  <2> QED
    BY <1>1, <2>2 DEF Signs
<1>4. {"wrap", "approve", "shield", "broadcast"} \subseteq Broadcasts
  BY DEF Broadcasts
<1> QED
  BY <1>2, <1>3, <1>4
  DEF Next, RunStep, Start, Dies, FeeMoves, TopUp, SurveyCompletes, SurveyFails, Funding,
      FundingFails, Wrap, Approve, Shield, Broadcast, AllowanceSuffices, ShieldGate, Resync,
      Note, Transfer, TransfersNothing, RootOnChain, BroadcastLands, Refused, WaitSucceeds, WaitFails, chain

LEMMA SignedIs ==
  ASSUME IInv, NEW l \in Broadcasts, NEW replied \in BOOLEAN, Sends(l, replied)
  PROVE  at = l /\ pool'[Len(pool')].leg = l
<1>1. at = l
  BY DEF Sends
<1>2. CASE replied
  <2>1. IsList(pool) /\ pool' = Append(pool, Tx(l))
    BY <1>2 DEF Sends, IInv, Shape
  <2>2. Len(pool') = Len(pool) + 1 /\ pool'[Len(pool) + 1] = Tx(l)
    BY <2>1, ListAppend
  <2> QED
    BY <1>1, <2>2, TxIs
<1>3. CASE ~replied
  <2>1. IsList(Abandon(pool)) /\ pool' = Append(Abandon(pool), [Tx(l) EXCEPT !.ours = FALSE])
    BY <1>3, NothingOursAbandoned DEF Sends
  <2> DEFINE tx == [Tx(l) EXCEPT !.ours = FALSE]
  <2>2. tx.leg = l
    BY TxIs
  <2> HIDE DEF tx
  <2>3. Len(pool') = Len(Abandon(pool)) + 1 /\ pool'[Len(Abandon(pool)) + 1] = tx
    BY <2>1, ListAppend DEF tx
  <2> QED
    BY <1>1, <2>2, <2>3
<1> QED
  BY <1>2, <1>3

(***************************************************************************)
(* No run shields while the tree it surveyed holds a note worth sending,   *)
(* whatever became of the survey.                                          *)
(***************************************************************************)
THEOREM ShieldsIntoAnEmptyTree == Spec => ShieldsOnlyIntoAnEmptyTree
<1> DEFINE Kept == (Signs /\ pool'[Len(pool')].leg = "shield") => ~watch.found
<1>1. IInv /\ [Next]_vars => [Kept]_vars
  <2> SUFFICES ASSUME IInv, Next, Signs, pool'[Len(pool')].leg = "shield"
               PROVE  ~watch.found
    OBVIOUS
  <2>1. PICK l \in Broadcasts, replied \in BOOLEAN : Sends(l, replied)
    BY OnlySendsSign
  <2>2. at = "shield"
    BY <2>1, SignedIs
  <2> QED
    BY <2>2 DEF IInv, KnowsTheTree, Shielding
<1> QED
  BY <1>1, LiveSendInvariant, PTL DEF Spec, ShieldsOnlyIntoAnEmptyTree

(***************************************************************************)
(* Nothing is signed after a leg went red.                                 *)
(***************************************************************************)
THEOREM NothingIsSignedAfterRed == Spec => NothingSignedAfterRed
<1> DEFINE Kept == Signs => \A l \in Legs : leg[l] \notin {"red", "broke"}
<1>1. IInv /\ [Next]_vars => [Kept]_vars
  <2> SUFFICES ASSUME IInv, Next, Signs
               PROVE  \A l \in Legs : leg[l] \notin {"red", "broke"}
    OBVIOUS
  <2>1. PICK l \in Broadcasts, replied \in BOOLEAN : Sends(l, replied)
    BY OnlySendsSign
  <2>2. at \notin {"idle", "funding"}
    BY <2>1, SignedIs DEF Broadcasts
  <2> QED
    BY <2>2 DEF IInv, NoRedBehind
<1> QED
  BY <1>1, LiveSendInvariant, PTL DEF Spec, NothingSignedAfterRed

-----------------------------------------------------------------------------
(***************************************************************************)
(* What a run holds against the gas still ahead of it: a second invariant, *)
(* over the first, for NoteIsNotStranded.  `unit` is the highest price the *)
(* run may meet: twice what the funding leg quoted, or what the gate read. *)
(***************************************************************************)
Pays(unit, gas) == unit * gas
HoldsBack(unit) == Pays(2 * unit, WithHeadroom(GasTransact))
WholeSend(unit, wrap) ==
  wrap + Pays(unit, GasWrap) + Pays(unit, GasApprove) + Pays(unit, GasShield) + HoldsBack(unit)

(***************************************************************************)
(* No price of a whole send is near the width of an amount.                *)
(***************************************************************************)
PricesFit ==
  \A f \in Fees, q \in Questions : WholeSend(2 * f, WantWrapped(q.asked)) <= MaxU128

LEMMA Gas ==
  /\ MaxU128 \in Nat
  /\ \A g \in {GasWrap, GasApprove, GasShield, GasTransact} : g \in Nat /\ g >= 1
  /\ GasShield <= GasTransact
BY FundingAssumption

LEMMA PaysIs ==
  ASSUME NEW u \in Nat, NEW g \in Nat
  PROVE  /\ Pays(u, g) \in Nat
         /\ \A p \in Int : p <= u => g * p \in Int /\ g * p <= Pays(u, g)
         /\ \A p \in Nat : p <= u => Pays(p, g) <= Pays(u, g)
         /\ g >= 1 => u <= Pays(u, g)
<1>1. \A p \in Int : p <= u => g * p \in Int /\ g * p <= u * g
  OBVIOUS
<1>2. u * g \in Nat /\ \A p \in Nat : p * g = g * p
  OBVIOUS
<1>3. g >= 1 => u * 1 <= u * g
  OBVIOUS
<1> QED
  BY <1>1, <1>2, <1>3 DEF Pays

LEMMA HeadroomIs ==
  ASSUME NEW gas \in {GasWrap, GasApprove, GasShield, GasTransact}
  PROVE  WithHeadroom(gas) \in Nat /\ WithHeadroom(gas) >= gas
<1>1. gas \in Nat /\ gas <= GasTransact /\ GasTransact \in Nat /\ MaxU128 \in Nat
  BY Gas, FundingAssumption
<1>2. gas * 13 <= MaxU128
  BY <1>1, LiveSendAssumption
<1>3. Sat(gas * 13) = gas * 13
  BY <1>1, <1>2 DEF Sat
<1>4. (gas * 13) \div 10 \in Nat /\ (gas * 13) \div 10 >= gas
  BY <1>1
<1> QED
  BY <1>3, <1>4 DEF WithHeadroom

LEMMA HoldsBackIs ==
  ASSUME NEW u \in Nat
  PROVE  /\ HoldsBack(u) \in Nat
         /\ u <= HoldsBack(u)
         /\ \A p \in Nat : p <= u => /\ HoldsBack(p) <= HoldsBack(u)
                                     /\ WithHeadroom(GasTransact) * (2 * p) <= HoldsBack(u)
<1> DEFINE g == WithHeadroom(GasTransact)
<1>1. g \in Nat /\ g >= 1
  BY HeadroomIs, Gas
<1>2. 2 * u \in Nat /\ u <= 2 * u
  OBVIOUS
<1>3. \A p \in Nat : p <= u => 2 * p \in Nat /\ 2 * p \in Int /\ 2 * p <= 2 * u
  OBVIOUS
<1> HIDE DEF g
<1>4. Pays(2 * u, g) \in Nat /\ 2 * u <= Pays(2 * u, g)
  BY <1>1, <1>2, PaysIs
<1>5. \A p \in Nat : p <= u => /\ Pays(2 * p, g) <= Pays(2 * u, g)
                               /\ g * (2 * p) <= Pays(2 * u, g)
  BY <1>1, <1>2, <1>3, PaysIs
<1> QED
  BY <1>2, <1>4, <1>5 DEF HoldsBack, g

LEMMA SatFits ==
  ASSUME NEW n \in Nat, n <= MaxU128
  PROVE  Sat(n) = n
BY Gas DEF Sat

\* The parts of a price that fits do not saturate.
LEMMA PartsFit ==
  ASSUME PricesFit, NEW f \in Fees, NEW q \in Questions
  PROVE  /\ f \in Nat /\ 2 * f \in Nat /\ 2 * f <= MaxU128 /\ 2 * (2 * f) <= MaxU128
         /\ WantWrapped(q.asked) \in Nat
         /\ Pays(2 * f, GasWrap) \in Nat /\ Pays(2 * f, GasApprove) \in Nat
         /\ Pays(2 * f, GasShield) \in Nat /\ HoldsBack(2 * f) \in Nat
         /\ WantWrapped(q.asked) + Pays(2 * f, GasWrap) + Pays(2 * f, GasApprove)
              + Pays(2 * f, GasShield) + HoldsBack(2 * f) <= MaxU128
<1>1. f \in Nat /\ 2 * f \in Nat /\ MaxU128 \in Nat
  BY FeesAreAmounts, Gas DEF U128
<1>2. WantWrapped(q.asked) \in Nat
  BY LiveSendAssumption, FundingAssumption DEF WantWrapped, U128
<1>3. /\ Pays(2 * f, GasWrap) \in Nat /\ 2 * f <= Pays(2 * f, GasWrap)
      /\ Pays(2 * f, GasApprove) \in Nat /\ 2 * f <= Pays(2 * f, GasApprove)
      /\ Pays(2 * f, GasShield) \in Nat
  BY <1>1, Gas, PaysIs
<1>4. HoldsBack(2 * f) \in Nat
  BY <1>1, HoldsBackIs
<1>5. WantWrapped(q.asked) + Pays(2 * f, GasWrap) + Pays(2 * f, GasApprove)
        + Pays(2 * f, GasShield) + HoldsBack(2 * f) <= MaxU128
  BY DEF PricesFit, WholeSend
<1>6. Pays(2 * f, GasWrap) + Pays(2 * f, GasApprove) <= MaxU128
  BY <1>1, <1>2, <1>3, <1>4, <1>5
<1>7. 2 * f <= MaxU128 /\ 2 * (2 * f) <= MaxU128
  BY <1>1, <1>3, <1>6
<1> QED
  BY <1>1, <1>2, <1>3, <1>4, <1>5, <1>7

LEMMA HeldIsReserved ==
  ASSUME PricesFit, NEW u \in Nat, 2 * u <= MaxU128, HoldsBack(u) <= MaxU128
  PROVE  Reservation(u, GasTransact) = HoldsBack(u)
<1>1. Sat(u * MaxFeeMultiple) = 2 * u
  <2>1. u * MaxFeeMultiple = 2 * u /\ 2 * u \in Nat
    BY DEF MaxFeeMultiple
  <2> QED
    BY <2>1, SatFits
<1>2. Sat(HoldsBack(u)) = HoldsBack(u)
  BY HoldsBackIs, SatFits
<1> QED
  BY <1>1, <1>2 DEF Reservation, HoldsBack, Pays

LEMMA SpendIsPriced ==
  ASSUME PricesFit, NEW f \in Fees, NEW q \in Questions
  PROVE  PriceSpend(f) = HoldsBack(2 * f)
<1>1. Sat(f * FeeDriftMultiple) = 2 * f
  <2>1. f * FeeDriftMultiple = 2 * f
    BY PartsFit DEF FeeDriftMultiple
  <2> QED
    BY <2>1, PartsFit, SatFits
<1>2. HoldsBack(2 * f) <= MaxU128
  BY PartsFit, Gas
<1> QED
  BY <1>1, <1>2, PartsFit, HeldIsReserved DEF PriceSpend

LEMMA RunIsPriced ==
  ASSUME PricesFit, NEW f \in Fees, NEW q \in Questions, NEW wrap \in Nat,
         wrap <= WantWrapped(q.asked), NEW w \in Int, w >= PriceRun(f, wrap)
  PROVE  w >= WholeSend(2 * f, wrap)
<1> DEFINE u == 2 * f
           pw == Pays(u, GasWrap)
           pa == Pays(u, GasApprove)
           ps == Pays(u, GasShield)
           pt == HoldsBack(u)
           want == WantWrapped(q.asked)
<1>1. /\ u \in Nat /\ pw \in Nat /\ pa \in Nat /\ ps \in Nat /\ pt \in Nat /\ want \in Nat
      /\ want + pw + pa + ps + pt <= MaxU128 /\ MaxU128 \in Nat
  BY PartsFit, Gas
<1>2. Sat(f * FeeDriftMultiple) = u
  <2>1. f * FeeDriftMultiple = u
    BY PartsFit DEF FeeDriftMultiple
  <2> QED
    BY <2>1, PartsFit, SatFits
<1>3. u * (GasWrap + GasApprove + GasShield) = pw + pa + ps
  BY <1>1, Gas DEF Pays
<1>4. Reservation(u, GasTransact) = pt
  <2>1. pt <= MaxU128
    BY <1>1
  <2> QED
    BY <1>1, <2>1, PartsFit, HeldIsReserved
<1> HIDE DEF u, pw, pa, ps, pt, want
<1>5. Sat(pw + pa + ps) = pw + pa + ps
  <2>1. pw + pa + ps \in Nat /\ pw + pa + ps <= MaxU128
    BY <1>1
  <2> QED
    BY <2>1, SatFits
<1>6. wrap <= want
  BY DEF want
<1>7. Sat(wrap + (pw + pa + ps)) = wrap + (pw + pa + ps)
  <2>1. wrap + (pw + pa + ps) \in Nat /\ wrap + (pw + pa + ps) <= MaxU128
    BY <1>1, <1>6
  <2> QED
    BY <2>1, SatFits
<1>8. Sat(wrap + (pw + pa + ps) + pt) = wrap + (pw + pa + ps) + pt
  <2>1. wrap + (pw + pa + ps) + pt \in Nat /\ wrap + (pw + pa + ps) + pt <= MaxU128
    BY <1>1, <1>6
  <2> QED
    BY <2>1, SatFits
<1> DEFINE whole == wrap + (pw + pa + ps) + pt
           floor == Sat(MinGasWei + wrap)
<1>9. PriceRun(f, wrap) = Larger(whole, floor)
  BY <1>2, <1>3, <1>4, <1>5, <1>7, <1>8 DEF PriceRun
<1>10. whole \in Nat /\ floor \in Nat
  <2>1. MinGasWei \in Nat
    BY FundingAssumption DEF U128
  <2>2. MinGasWei + wrap \in Nat
    BY <2>1
  <2> QED
    BY <1>1, <2>2 DEF Sat
<1>11. Larger(whole, floor) >= whole
  <2> HIDE DEF whole, floor
  <2> QED
    BY <1>10 DEF Larger
<1>12. w >= whole
  <2>1. Larger(whole, floor) \in Nat
    <3> HIDE DEF whole, floor
    <3> QED
      BY <1>10 DEF Larger
  <2>2. w >= Larger(whole, floor)
    BY <1>9
  <2> HIDE DEF whole, floor
  <2> QED
    BY <1>10, <1>11, <2>1, <2>2
<1>13. whole = wrap + pw + pa + ps + pt
  BY <1>1
<1> QED
  BY <1>12, <1>13 DEF WholeSend, u, pw, pa, ps, pt

\* What the gate lets through can pay for the shield and hold the transact.
LEMMA GateIsEnough ==
  ASSUME PricesFit, NEW f \in Fees, NEW q \in Questions, NEW w \in Int, CanStillTransact(w, f)
  PROVE  w >= Pays(f, GasShield) + HoldsBack(f)
<1> DEFINE ps == Pays(f, GasShield)
           pt == HoldsBack(f)
<1>1. f \in Nat /\ f <= 2 * f /\ 2 * f \in Nat /\ MaxU128 \in Nat /\ GasShield \in Nat
  BY PartsFit, Gas
<1>2. ps \in Nat /\ ps <= Pays(2 * f, GasShield)
  BY <1>1, PaysIs
<1>3. pt \in Nat /\ pt <= HoldsBack(2 * f) /\ f <= pt
  BY <1>1, HoldsBackIs
<1>4. ps <= MaxU128 /\ pt <= MaxU128
  <2> HIDE DEF ps, pt
  <2>1. /\ Pays(2 * f, GasShield) \in Nat /\ HoldsBack(2 * f) \in Nat
        /\ Pays(2 * f, GasShield) <= MaxU128 /\ HoldsBack(2 * f) <= MaxU128
    BY PartsFit, Gas
  <2> QED
    BY <1>1, <1>2, <1>3, <2>1
<1>5. Sat(f * GasShield) = ps /\ Reservation(f, GasTransact) = pt
  BY <1>1, <1>2, <1>4, PartsFit, SatFits, HeldIsReserved DEF Pays
<1>6. SatSub(w, ps) >= pt
  BY <1>5 DEF CanStillTransact
<1>7. w >= 0
  <2>1. Reservation(f, GasShield) \in Nat
    <3>1. Sat(f * MaxFeeMultiple) \in Nat /\ Sat(GasShield * 13) \in Nat
      BY <1>1 DEF Sat, MaxFeeMultiple
    <3>2. WithHeadroom(GasShield) \in Nat
      BY <3>1 DEF WithHeadroom
    <3>3. Sat(f * MaxFeeMultiple) * WithHeadroom(GasShield) \in Nat
      BY <3>1, <3>2
    <3> QED
      BY <1>1, <3>3 DEF Reservation, Sat
  <2> QED
    BY <2>1 DEF CanStillTransact
<1>8. CASE f = 0
  <2>1. ps = 0 /\ pt = 0
    <3>1. WithHeadroom(GasTransact) \in Nat
      BY HeadroomIs
    <3> QED
      BY <1>1, <1>8, <3>1 DEF Pays, HoldsBack
  <2> QED
    BY <1>7, <2>1
<1>9. CASE f # 0
  <2> HIDE DEF ps, pt
  <2>1. pt >= 1
    BY <1>1, <1>3, <1>9
  <2>2. w >= ps /\ w - ps >= pt
    BY <1>2, <1>3, <1>6, <2>1 DEF SatSub
  <2>3. w >= ps + pt
    BY <1>2, <1>3, <2>2
  <2> QED
    BY <2>3 DEF ps, pt
<1> QED
  BY <1>8, <1>9

-----------------------------------------------------------------------------
PastGate == {"shield", "resync", "note", "transfer", "root-on-chain", "broadcast"}

\* What a run at `place` may still pay at the price `unit`, its own transaction
\* there mined or not, and what it must hold for the transact.
Ahead(place, mined, wrap, unit) ==
  (IF place = "wrap" /\ ~mined THEN wrap + Pays(unit, GasWrap) ELSE 0)
    + (IF place = "wrap" \/ (place = "approve" /\ ~mined) THEN Pays(unit, GasApprove) ELSE 0)
    + (IF place \in {"wrap", "approve", "gate"} \/ (place = "shield" /\ ~mined)
         THEN Pays(unit, GasShield) ELSE 0)
    + HoldsBack(unit)

Covers(unit) == wei >= Ahead(at, receipt = "ok", run.wrap, unit)

\* A transaction of the pool, as Tx makes it.
PricedTx(tx) ==
  /\ {"leg", "amount", "ceiling", "token", "ours"} \subseteq DOMAIN tx
  /\ tx.leg \in Broadcasts
  /\ tx.ceiling \in Nat
  /\ tx.leg \in {"wrap", "shield"} => tx.amount \in Nat

Money ==
  /\ wei \in Int
  /\ units \in [Token -> Nat]
  /\ needs \in Nat \cup {Unset}
  /\ \A i \in DOMAIN pool :
       /\ PricedTx(pool[i])
       /\ (pool[i].ours /\ pool[i].leg = "wrap") => pool[i].amount = run.wrap
  /\ {"q", "wrap", "amount"} \subseteq DOMAIN run
  /\ run.wrap \in Nat /\ run.amount \in Nat
  /\ at # "idle" => run.q \in Questions

FeeWatch ==
  /\ at \in {"survey", "funding"} => watch.gate = Unset
  /\ at \notin {"idle", "survey", "funding"} =>
       fee <= watch.peak /\ watch.quoted \in Fees \cup {Unset}
  /\ at \in PastGate =>
       watch.gate = Unset \/ (watch.gate \in Fees /\ fee <= watch.peakGate)

\* What the gate let through covers, up to the tip of the shield it did not count.
CoversTheGate ==
  IF at = "shield" /\ receipt # "ok"
    THEN wei >= Pays(watch.gate, GasShield) + HoldsBack(watch.gate)
    ELSE wei + GasShield * Tip >= HoldsBack(watch.gate)

\* The run pays no price, the tip with it, above the one it was funded for, or
\* meets none above the gate's.
QuoteHolds == watch.quoted # Unset /\ watch.peak + Tip <= 2 * watch.quoted
GateHolds == at \in PastGate /\ watch.gate # Unset /\ watch.peakGate <= watch.gate

OnItsWay ==
  /\ at \notin {"idle", "survey", "funding"}
  /\ ~watch.leftover
  /\ receipt # "reverted"
  /\ at = "broadcast" => receipt = "none"

Budget ==
  OnItsWay => /\ QuoteHolds => Covers(2 * watch.quoted)
              /\ GateHolds => CoversTheGate

NotBroke == leg["broadcast"] = "broke" => at = "idle"

BInv == Money /\ FeeWatch /\ Budget /\ NotBroke

LEMMA AheadIs ==
  ASSUME PricesFit, NEW u \in Nat, NEW wrap \in Nat, NEW place, NEW mined \in BOOLEAN
  PROVE  /\ Ahead(place, mined, wrap, u) \in Nat
         /\ Ahead("wrap", FALSE, wrap, u)
              = wrap + Pays(u, GasWrap) + Ahead("approve", FALSE, wrap, u)
         /\ Ahead("wrap", TRUE, wrap, u) = Ahead("approve", FALSE, wrap, u)
         /\ Ahead("approve", FALSE, wrap, u) = Pays(u, GasApprove) + Ahead("gate", FALSE, wrap, u)
         /\ Ahead("approve", TRUE, wrap, u) = Ahead("gate", FALSE, wrap, u)
         /\ Ahead("gate", mined, wrap, u) = Pays(u, GasShield) + HoldsBack(u)
         /\ Ahead("gate", FALSE, wrap, u) = Ahead("shield", FALSE, wrap, u)
         /\ Ahead("shield", TRUE, wrap, u) = HoldsBack(u)
         /\ place \notin {"wrap", "approve", "gate", "shield"} =>
              Ahead(place, mined, wrap, u) = HoldsBack(u)
         /\ Ahead("wrap", FALSE, wrap, u) = WholeSend(u, wrap)
         /\ Ahead("approve", FALSE, wrap, u) <= WholeSend(u, wrap)
         /\ HoldsBack(u) \in Nat /\ HoldsBack(u) <= Ahead(place, mined, wrap, u)
         /\ Pays(u, GasWrap) \in Nat /\ Pays(u, GasApprove) \in Nat /\ Pays(u, GasShield) \in Nat
<1>1. /\ Pays(u, GasWrap) \in Nat /\ Pays(u, GasApprove) \in Nat /\ Pays(u, GasShield) \in Nat
      /\ HoldsBack(u) \in Nat
  BY Gas, PaysIs, HoldsBackIs
<1> DEFINE pw == Pays(u, GasWrap)
           pa == Pays(u, GasApprove)
           ps == Pays(u, GasShield)
           pt == HoldsBack(u)
<1>2. pw \in Nat /\ pa \in Nat /\ ps \in Nat /\ pt \in Nat
  BY <1>1
<1>3. \A p, m, w : Ahead(p, m, w, u) =
        (IF p = "wrap" /\ ~m THEN w + pw ELSE 0)
        + (IF p = "wrap" \/ (p = "approve" /\ ~m) THEN pa ELSE 0)
        + (IF p \in {"wrap", "approve", "gate"} \/ (p = "shield" /\ ~m) THEN ps ELSE 0) + pt
  BY DEF Ahead
<1>4. \A w : WholeSend(u, w) = w + pw + pa + ps + pt
  BY DEF WholeSend
<1> HIDE DEF pw, pa, ps, pt
<1>5. /\ Ahead("wrap", FALSE, wrap, u) = wrap + pw + pa + ps + pt
      /\ Ahead("wrap", TRUE, wrap, u) = pa + ps + pt
      /\ Ahead("approve", FALSE, wrap, u) = pa + ps + pt
      /\ Ahead("approve", TRUE, wrap, u) = ps + pt
      /\ Ahead("gate", mined, wrap, u) = ps + pt
      /\ Ahead("gate", FALSE, wrap, u) = ps + pt
      /\ Ahead("shield", FALSE, wrap, u) = ps + pt
      /\ Ahead("shield", TRUE, wrap, u) = pt
  <2>1. Ahead("wrap", FALSE, wrap, u) = wrap + pw + pa + ps + pt
    BY <1>2, <1>3
  <2>2. Ahead("wrap", TRUE, wrap, u) = 0 + pa + ps + pt
    BY <1>2, <1>3
  <2>3. Ahead("approve", FALSE, wrap, u) = 0 + pa + ps + pt
    BY <1>2, <1>3
  <2>4. Ahead("approve", TRUE, wrap, u) = 0 + 0 + ps + pt
    BY <1>2, <1>3
  <2>5. \A m \in BOOLEAN : Ahead("gate", m, wrap, u) = 0 + 0 + ps + pt
    BY <1>2, <1>3
  <2>6. Ahead("shield", FALSE, wrap, u) = 0 + 0 + ps + pt
    BY <1>2, <1>3
  <2>7. Ahead("shield", TRUE, wrap, u) = 0 + 0 + 0 + pt
    BY <1>2, <1>3
  <2>8. 0 + pa + ps + pt = pa + ps + pt /\ 0 + 0 + ps + pt = ps + pt /\ 0 + 0 + 0 + pt = pt
    BY <1>2
  <2> QED
    BY <2>1, <2>2, <2>3, <2>4, <2>5, <2>6, <2>7, <2>8
<1>6. place \notin {"wrap", "approve", "gate", "shield"} => Ahead(place, mined, wrap, u) = pt
  BY <1>2, <1>3
<1>7. Ahead(place, mined, wrap, u) \in Nat /\ pt <= Ahead(place, mined, wrap, u)
  BY <1>2, <1>3
<1>8. WholeSend(u, wrap) = wrap + pw + pa + ps + pt
  BY <1>4
<1>9. /\ wrap + pw + (pa + ps + pt) = wrap + pw + pa + ps + pt
      /\ pa + (ps + pt) = pa + ps + pt /\ pa + ps + pt <= wrap + pw + pa + ps + pt
  BY <1>2
<1> QED
  BY <1>2, <1>5, <1>6, <1>7, <1>8, <1>9 DEF pw, pa, ps, pt

LEMMA TipIs == Tip \in Nat
BY LiveSendAssumption

LEMMA UnitsAre ==
  ASSUME IInv, BInv, at \notin {"idle", "survey", "funding"}
  PROVE  /\ fee \in Nat /\ watch.peak \in Nat /\ watch.peakGate \in Nat
         /\ QuoteHolds => /\ watch.quoted \in Fees /\ watch.quoted \in Nat
                          /\ 2 * watch.quoted \in Nat /\ fee + Tip <= 2 * watch.quoted
         /\ GateHolds => watch.gate \in Fees /\ watch.gate \in Nat /\ fee <= watch.gate
<1>1. /\ Fees \subseteq Nat /\ fee \in Fees /\ watch.peak \in Nat /\ watch.peakGate \in Nat
      /\ Tip \in Nat
  BY FeesAreAmounts, TipIs DEF IInv, Shape, Watches, U128
<1>2. /\ fee <= watch.peak /\ watch.quoted \in Fees \cup {Unset}
      /\ at \in PastGate => watch.gate = Unset \/ (watch.gate \in Fees /\ fee <= watch.peakGate)
  BY DEF BInv, FeeWatch
<1>3. QuoteHolds => /\ watch.quoted \in Fees /\ watch.quoted \in Nat
                    /\ 2 * watch.quoted \in Nat /\ fee + Tip <= 2 * watch.quoted
  <2>1. SUFFICES ASSUME QuoteHolds
                 PROVE  /\ watch.quoted \in Fees /\ watch.quoted \in Nat
                        /\ 2 * watch.quoted \in Nat /\ fee + Tip <= 2 * watch.quoted
    OBVIOUS
  <2>2. watch.quoted \in Fees /\ watch.quoted \in Nat
    BY <1>1, <1>2, <2>1 DEF QuoteHolds
  <2>3. fee \in Nat /\ fee <= watch.peak /\ watch.peak + Tip <= 2 * watch.quoted
    BY <1>1, <1>2, <2>1 DEF QuoteHolds
  <2>4. ASSUME NEW q \in Nat, NEW p \in Nat, NEW f \in Nat, NEW t \in Nat,
               f <= p, p + t <= 2 * q
        PROVE  2 * q \in Nat /\ f + t <= 2 * q
    BY <2>4
  <2> QED
    BY <1>1, <2>2, <2>3, <2>4
<1>4. GateHolds => watch.gate \in Fees /\ watch.gate \in Nat /\ fee <= watch.gate
  <2>1. SUFFICES ASSUME GateHolds
                 PROVE  watch.gate \in Fees /\ watch.gate \in Nat /\ fee <= watch.gate
    OBVIOUS
  <2>2. watch.gate \in Fees /\ watch.gate \in Nat
    BY <1>1, <1>2, <2>1 DEF GateHolds
  <2>3. fee \in Nat /\ fee <= watch.peakGate /\ watch.peakGate <= watch.gate
    BY <1>1, <1>2, <2>1 DEF GateHolds
  <2>4. ASSUME NEW q \in Nat, NEW p \in Nat, NEW f \in Nat, f <= p, p <= q
        PROVE  f <= q
    BY <2>4
  <2> QED
    BY <1>1, <2>2, <2>3, <2>4
<1> QED
  BY <1>1, <1>3, <1>4

\* A run that ends keeps nothing to pay for.
LEMMA EndsKeepBInv ==
  ASSUME Over, wei' \in Int, units' \in [Token -> Nat], needs' \in Nat \cup {Unset},
         \A i \in DOMAIN pool' : PricedTx(pool'[i]) /\ pool'[i].ours = FALSE
  PROVE  BInv'
<1>1. Money'
  BY DEF Money, Over, NoRun, PricedTx
<1>2. FeeWatch' /\ Budget' /\ NotBroke'
  BY DEF FeeWatch, Budget, OnItsWay, NotBroke, Over, PastGate
<1> QED
  BY <1>1, <1>2 DEF BInv

LEMMA AbandonedIsPriced ==
  ASSUME IInv, Money
  PROVE  \A i \in DOMAIN Abandon(pool) : /\ PricedTx(Abandon(pool)[i])
                                         /\ Abandon(pool)[i].ours = FALSE
<1>1. DOMAIN Abandon(pool) = DOMAIN pool
  BY DEF Abandon
<1>2. SUFFICES ASSUME NEW i \in DOMAIN pool
               PROVE  PricedTx(Abandon(pool)[i]) /\ Abandon(pool)[i].ours = FALSE
  BY <1>1
<1> DEFINE tx == pool[i]
           left == [tx EXCEPT !.ours = FALSE]
<1>3. PricedTx(tx)
  BY DEF Money
<1>4. Abandon(pool)[i] = left
  BY DEF Abandon
<1> HIDE DEF tx
<1>5. /\ DOMAIN left = DOMAIN tx /\ left.leg = tx.leg /\ left.amount = tx.amount
      /\ left.ceiling = tx.ceiling /\ left.token = tx.token /\ left.ours = FALSE
  BY <1>3 DEF PricedTx
<1> HIDE DEF left
<1>6. PricedTx(left)
  BY <1>3, <1>5 DEF PricedTx
<1> QED
  BY <1>4, <1>5, <1>6

LEMMA NotOursIsPriced ==
  ASSUME IInv, Money, ~waiting
  PROVE  \A i \in DOMAIN pool : PricedTx(pool[i]) /\ pool[i].ours = FALSE
BY NothingOurs DEF Money

\* Before the broadcast leg has failed, none of it has.
LEMMA NotBrokeYet ==
  ASSUME IInv, BInv, at # "idle"
  PROVE  leg["broadcast"] # "broke"
BY DEF BInv, NotBroke

\* A run that leaves a leg behind has less to pay.
LEMMA GoesOnKeepsBInv ==
  ASSUME PricesFit, IInv, IInv', BInv, UNCHANGED <<wei, fee, units, needs, pool, watch>>,
         at \notin {"idle", "survey", "funding", "broadcast"},
         at' \notin {"idle", "survey", "funding"},
         at' \in PastGate => at \in PastGate,
         at' # "shield", at = "shield" => receipt = "ok",
         receipt # "reverted", receipt' = "none",
         {"q", "wrap", "amount"} \subseteq DOMAIN run', run'.q = run.q, run'.wrap = run.wrap,
         run'.amount \in Nat,
         \A u \in Nat : Ahead(at', FALSE, run.wrap, u) <= Ahead(at, receipt = "ok", run.wrap, u)
  PROVE  BInv'
<1>1. Money'
  BY DEF BInv, Money, PricedTx
<1>2. FeeWatch'
  BY DEF BInv, FeeWatch
<1>3. NotBroke'
  <2>1. leg'["broadcast"] # "broke"
    BY DEF IInv, NoRedBehind, Legs
  <2> QED
    BY <2>1 DEF NotBroke
<1>4. Budget'
  <2>1. SUFFICES ASSUME OnItsWay'
                 PROVE  /\ QuoteHolds => Covers(2 * watch.quoted)'
                        /\ GateHolds' => CoversTheGate'
    BY DEF Budget, QuoteHolds
  <2>2. OnItsWay /\ (GateHolds' => GateHolds)
    BY <2>1 DEF OnItsWay, GateHolds
  <2>3. ASSUME NEW u \in Nat, Covers(u)
        PROVE  wei' >= Ahead(at', receipt' = "ok", run'.wrap, u)
    <3> DEFINE before == Ahead(at, receipt = "ok", run.wrap, u)
               after == Ahead(at', FALSE, run.wrap, u)
    <3>1. run.wrap \in Nat /\ wei \in Int /\ wei' = wei /\ (receipt' = "ok") = FALSE
      BY DEF BInv, Money
    <3>2. after \in Nat /\ before \in Nat /\ after <= before
      BY <3>1, AheadIs
    <3>3. wei >= before
      BY <2>3 DEF Covers
    <3>4. Ahead(at', receipt' = "ok", run'.wrap, u) = after
      BY <3>1
    <3> HIDE DEF before, after
    <3> QED
      BY <3>1, <3>2, <3>3, <3>4
  <2>4. /\ QuoteHolds => 2 * watch.quoted \in Nat /\ Covers(2 * watch.quoted)
        /\ GateHolds => CoversTheGate
    BY <2>2, UnitsAre DEF BInv, Budget
  <2>5. GateHolds' => CoversTheGate'
    BY <2>2, <2>4 DEF CoversTheGate
  <2> QED
    BY <2>3, <2>4, <2>5 DEF Covers
<1> QED
  BY <1>1, <1>2, <1>3, <1>4 DEF BInv

LEMMA InitEstablishesBInv == Init => BInv
<1> SUFFICES ASSUME Init PROVE BInv
  OBVIOUS
<1>1. wei \in Int /\ units \in [Token -> Nat]
  <2>1. StartWei \subseteq Nat /\ StartErc20 \subseteq Nat
    BY LiveSendAssumption, FundingAssumption DEF U128
  <2>2. units \in [erc20 : StartErc20, wrapped : {0}]
    BY DEF Init
  <2>3. units = [erc20 |-> units.erc20, wrapped |-> 0] /\ units.erc20 \in Nat
    BY <2>1, <2>2
  <2>4. ASSUME NEW n \in Nat
        PROVE  [erc20 |-> n, wrapped |-> 0] \in [Token -> Nat]
    BY DEF Token
  <2> QED
    BY <2>1, <2>3, <2>4 DEF Init
<1>2. DOMAIN pool = {}
  BY DEF Init
<1>3. Money
  BY <1>1, <1>2 DEF Init, Money, NoRun
<1> QED
  BY <1>3 DEF Init, BInv, FeeWatch, Budget, OnItsWay, NotBroke, PastGate, Legs

LEMMA StartKeepsBInv ==
  ASSUME IInv, BInv, NEW q \in Questions, Start(q)
  PROVE  BInv'
<1>1. ~waiting
  BY OnlySendersWait DEF Start, Broadcasts
<1>2. /\ at' = "survey" /\ run' = [NoRun EXCEPT !.q = q] /\ watch' = NoWatch
      /\ UNCHANGED <<wei, units, pool>> /\ needs' = Unset /\ leg' = [l \in Legs |-> "none"]
  BY DEF Start, chain
<1>3. Money'
  BY <1>1, <1>2, NotOursIsPriced DEF BInv, Money, NoRun, PricedTx
<1> QED
  BY <1>2, <1>3
  DEF BInv, FeeWatch, Budget, OnItsWay, NotBroke, NoWatch, PastGate, Legs

LEMMA SurveyKeepsBInv ==
  ASSUME IInv, BInv, SurveyFails \/ \E roots \in [Tree -> BOOLEAN] : SurveyCompletes(roots)
  PROVE  BInv'
<1>1. /\ at = "survey" /\ at' = "funding" /\ UNCHANGED <<wei, units, needs, pool>>
      /\ watch' = [watch EXCEPT !.found = Spendable(InTree) # {}]
  BY DEF SurveyFails, SurveyCompletes, chain
<1>2. ~waiting
  BY <1>1, OnlySendersWait DEF Broadcasts
<1>3. PICK q \in Questions : run = [NoRun EXCEPT !.q = q]
  BY <1>1 DEF IInv, KnowsTheTree
<1>4. /\ {"q", "wrap", "amount"} \subseteq DOMAIN run' /\ run'.wrap = 0 /\ run'.amount = 0
      /\ run'.q \in Questions
  <2>1. \/ run' = run
        \/ \E roots : run' = [run EXCEPT !.shielded = InTree, !.roots = roots, !.spends = spends]
        \/ \E roots : run' = [run EXCEPT !.roots = roots]
    BY DEF SurveyFails, SurveyCompletes
  <2> QED
    BY <1>3, <2>1 DEF NoRun
<1>5. Money'
  <2>1. \A i \in DOMAIN pool' : PricedTx(pool'[i]) /\ pool'[i].ours = FALSE
    BY <1>1, <1>2, NotOursIsPriced DEF BInv
  <2>2. wei' \in Int /\ units' \in [Token -> Nat] /\ needs' \in Nat \cup {Unset}
    BY <1>1 DEF BInv, Money
  <2> QED
    BY <1>4, <2>1, <2>2 DEF Money, PricedTx
<1>6. watch'.gate = watch.gate
  BY <1>1 DEF IInv, Shape, Watches
<1>7. FeeWatch' /\ Budget'
  BY <1>1, <1>6 DEF BInv, FeeWatch, Budget, OnItsWay, PastGate
<1>8. leg'["broadcast"] = leg["broadcast"]
  BY DEF SurveyFails, SurveyCompletes, IInv, Shape, Legs
<1> QED
  BY <1>1, <1>5, <1>7, <1>8, NotBrokeYet DEF BInv, NotBroke

-----------------------------------------------------------------------------
LEMMA SatIs ==
  ASSUME NEW n \in Nat
  PROVE  Sat(n) \in Nat /\ Sat(n) \in U128
BY Gas DEF Sat, U128

\* What is asked for, for any purse and any wrap.
LEMMA PricedIsAmount ==
  ASSUME NEW f \in Nat, NEW wrap \in Nat
  PROVE  /\ {PriceRun(f, wrap), PriceSpend(f), Sat(MinGasWei + wrap), MinGasWei} \subseteq U128
         /\ U128 \subseteq Nat
<1>1. MinGasWei \in Nat /\ MinGasWei \in U128 /\ U128 \subseteq Nat
  BY FundingAssumption DEF U128
<1>2. \A g \in {GasWrap, GasApprove, GasShield, GasTransact} : WithHeadroom(g) \in Nat
  <2>1. \A g \in {GasWrap, GasApprove, GasShield, GasTransact} : Sat(g * 13) \in Nat
    BY Gas, SatIs
  <2> QED
    BY <2>1 DEF WithHeadroom
<1>3. ASSUME NEW p \in Nat
      PROVE  Reservation(p, GasTransact) \in Nat /\ Reservation(p, GasTransact) \in U128
  <2>1. Sat(p * 2) \in Nat
    BY SatIs
  <2>2. Sat(p * 2) * WithHeadroom(GasTransact) \in Nat
    BY <1>2, <2>1
  <2> QED
    BY <2>2, SatIs DEF Reservation, MaxFeeMultiple
<1> DEFINE d == Sat(f * FeeDriftMultiple)
<1>4. d \in Nat
  BY SatIs DEF FeeDriftMultiple
<1> HIDE DEF d
<1>5. Sat(d * (GasWrap + GasApprove + GasShield)) \in Nat
  <2>1. d * (GasWrap + GasApprove + GasShield) \in Nat
    BY <1>4, Gas
  <2> QED
    BY <2>1, SatIs
<1>6. Sat(MinGasWei + wrap) \in Nat /\ Sat(MinGasWei + wrap) \in U128
  BY <1>1, SatIs
<1> DEFINE spent == Sat(d * (GasWrap + GasApprove + GasShield))
           held == Reservation(d, GasTransact)
<1>7. spent \in Nat /\ held \in Nat /\ held \in U128
  BY <1>3, <1>4, <1>5
<1> HIDE DEF spent, held
<1>8. Sat(Sat(wrap + spent) + held) \in Nat /\ Sat(Sat(wrap + spent) + held) \in U128
  BY <1>7, SatIs
<1>9. Larger(Sat(Sat(wrap + spent) + held), Sat(MinGasWei + wrap)) \in U128
  BY <1>6, <1>8 DEF Larger
<1> QED
  BY <1>1, <1>6, <1>7, <1>9 DEF PriceRun, PriceSpend, d, spent, held

\* What an answer of plan to a purse of `w` wei, quoted `f`, says of it.
IsPaidFor(answer, w, f, want) ==
  /\ answer.kind \in {"ask", "spend", "shield"}
  /\ answer.kind = "ask" => answer.wei \in Nat /\ answer.wei \in U128
  /\ (answer.kind = "spend" /\ f # Unset) => w >= PriceSpend(f)
  /\ answer.kind = "shield" =>
       /\ answer.wrap \in Nat /\ answer.units \in Nat /\ answer.wrap <= want
       /\ f # Unset => w >= PriceRun(f, answer.wrap)

LEMMA PlanIs ==
  ASSUME NEW q \in Questions, NEW w \in Int, NEW e \in Nat, NEW v \in Nat \cup {Unset},
         NEW f \in Nat \cup {Unset}, NEW shown,
         NEW p, p = [wei |-> w, erc20 |-> e, wrapped |-> v, fee |-> f]
  PROVE  IsPaidFor(Plan(p, q.asked, shown), w, f, WantWrapped(q.asked))
<1> DEFINE asked == q.asked
           short == Shortfall(p, asked)
           full == Priced(p, short)
           gas == Priced(p, 0)
<1>1. WantErc20(asked) \in Nat /\ WantWrapped(asked) \in Nat
  BY LiveSendAssumption, FundingAssumption DEF WantErc20, WantWrapped, U128
<1>2. short \in Nat /\ short <= WantWrapped(asked)
  BY <1>1 DEF Shortfall, SatSub
<1>3. ASSUME NEW wrap \in Nat
      PROVE  /\ Priced(p, wrap) \in Nat /\ Priced(p, wrap) \in U128
             /\ f # Unset => Priced(p, wrap) = PriceRun(f, wrap)
  <2>1. p.fee = f
    OBVIOUS
  <2>2. MinGasWei \in Nat /\ Sat(MinGasWei + wrap) \in U128 /\ U128 \subseteq Nat
    BY PricedIsAmount
  <2>3. f # Unset => PriceRun(f, wrap) \in U128
    BY PricedIsAmount
  <2> QED
    BY <2>1, <2>2, <2>3 DEF Priced
<1>4. full \in Nat /\ full \in U128 /\ (f # Unset => full = PriceRun(f, short))
  BY <1>2, <1>3
<1>5. gas \in Nat /\ (f # Unset => gas = PriceRun(f, 0))
  BY <1>3
<1>6. PricedSpend(p) \in Nat /\ PricedSpend(p) \in U128 /\ (f # Unset => PricedSpend(p) = PriceSpend(f))
  BY PricedIsAmount DEF PricedSpend
<1> DEFINE answer == Plan(p, asked, shown)
<1>7. \/ answer = Ask(PricedSpend(p))
      \/ w >= PricedSpend(p) /\ answer = SpendNote(FirstNote(shown))
      \/ w >= gas /\ answer = ShieldUnits("erc20", WantErc20(asked), 0)
      \/ w >= full /\ answer = ShieldUnits("wrapped", WantWrapped(asked), short)
      \/ answer = Ask(full)
  <2>1. p.wei = w
    OBVIOUS
  <2>2. PricedSpend(p) \in Int
    BY <1>6
  <2>3. \/ answer = Ask(PricedSpend(p))
        \/ w >= PricedSpend(p) /\ answer = SpendNote(FirstNote(shown))
        \/ answer = PlanShield(p, asked)
    BY <2>1, <2>2 DEF Plan
  <2>4. \/ w >= gas /\ PlanShield(p, asked) = ShieldUnits("erc20", WantErc20(asked), 0)
        \/ w >= full /\ PlanShield(p, asked) = ShieldUnits("wrapped", WantWrapped(asked), short)
        \/ PlanShield(p, asked) = Ask(full)
    BY <2>1 DEF PlanShield
  <2> QED
    BY <2>3, <2>4
<1> HIDE DEF answer, gas, full, short
<1>8. CASE answer = Ask(PricedSpend(p)) \/ answer = Ask(full)
  BY <1>4, <1>6, <1>8 DEF Ask, answer, IsPaidFor
<1>9. CASE w >= PricedSpend(p) /\ answer = SpendNote(FirstNote(shown))
  BY <1>6, <1>9 DEF SpendNote, answer, IsPaidFor
<1>10. CASE w >= gas /\ answer = ShieldUnits("erc20", WantErc20(asked), 0)
  BY <1>1, <1>5, <1>10 DEF ShieldUnits, answer, IsPaidFor
<1>11. CASE w >= full /\ answer = ShieldUnits("wrapped", WantWrapped(asked), short)
  BY <1>1, <1>2, <1>4, <1>11 DEF ShieldUnits, answer, IsPaidFor
<1> QED
  BY <1>7, <1>8, <1>9, <1>10, <1>11

LEMMA FundingKeepsBInv ==
  ASSUME PricesFit, IInv, BInv, FundingFails \/ \E quoted \in {fee, Unset} : Funding(quoted)
  PROVE  BInv'
<1>1. /\ at = "funding" /\ UNCHANGED <<wei, fee, units, pool>> /\ ~waiting
      /\ wei \in Int /\ units \in [Token -> Nat] /\ fee \in Fees /\ fee \in Nat
      /\ run.q \in Questions
  <2>1. at = "funding" /\ UNCHANGED <<wei, fee, units, pool>>
    BY DEF FundingFails, Funding, chain
  <2>2. fee \in Fees /\ fee \in Nat
    BY FeesAreAmounts DEF IInv, Shape, U128
  <2> QED
    BY <2>1, <2>2, OnlySendersWait DEF Broadcasts, BInv, Money
<1>2. \A i \in DOMAIN pool' : PricedTx(pool'[i]) /\ pool'[i].ours = FALSE
  BY <1>1, NotOursIsPriced DEF BInv
<1>3. leg["broadcast"] # "broke"
  BY <1>1, NotBrokeYet
<1>4. leg'["broadcast"] = leg["broadcast"]
  BY DEF FundingFails, Funding, Red, Green, IInv, Shape, Legs
<1>5. ASSUME Over, needs' \in Nat \cup {Unset}
      PROVE  BInv'
  BY <1>1, <1>2, <1>3, <1>4, <1>5, EndsKeepBInv
<1>6. CASE FundingFails
  BY <1>5, <1>6 DEF FundingFails, Red, BInv, Money
<1>7. ASSUME NEW quoted \in {fee, Unset}, Funding(quoted)
      PROVE  BInv'
  <2> DEFINE p == PurseNow(quoted)
             answered == Plan(p, run.q.asked, Surveyed)
  <2>1. IsPaidFor(answered, wei, quoted, WantWrapped(run.q.asked))
    <3> DEFINE e == units["erc20"]
               v == IF run.q.named THEN Unset ELSE units["wrapped"]
    <3>1. p = [wei |-> wei, erc20 |-> e, wrapped |-> v, fee |-> quoted]
      BY DEF PurseNow
    <3>2. e \in Nat /\ v \in Nat \cup {Unset} /\ quoted \in Nat \cup {Unset}
      BY <1>1 DEF Token
    <3> HIDE DEF p, e, v
    <3> QED
      BY <1>1, <3>1, <3>2, PlanIs
  <2>2. /\ watch' = [watch EXCEPT !.quoted = quoted, !.peak = fee]
        /\ \/ answered.kind = "ask" /\ needs' = answered.wei /\ Over
           \/ needs' = needs /\ Over
           \/ /\ answered.kind # "ask" /\ needs' = needs /\ run' = Chosen(answered)
              /\ at' = AfterFunding(answered) /\ receipt' = "none"
    BY <1>7 DEF Funding, Red, Green
  <2> HIDE DEF answered, p
  <2>3. CASE answered.kind = "ask" /\ needs' = answered.wei /\ Over
    BY <1>5, <2>1, <2>3 DEF IsPaidFor
  <2>4. CASE needs' = needs /\ Over
    BY <1>5, <2>4 DEF BInv, Money
  <2>5. CASE /\ answered.kind # "ask" /\ needs' = needs /\ run' = Chosen(answered)
             /\ at' = AfterFunding(answered) /\ receipt' = "none"
    <3>1. /\ watch'.quoted = quoted /\ watch'.peak = fee /\ watch'.gate = Unset
          /\ watch'.peak \in Nat
      BY <1>1, <2>2 DEF IInv, Shape, Watches, BInv, FeeWatch
    <3>2. at' \in {"transfer", "wrap", "approve"}
      BY <2>1, <2>5 DEF AfterFunding, IsPaidFor
    <3>3. /\ {"q", "wrap", "amount"} \subseteq DOMAIN run' /\ run'.amount \in Nat
          /\ run'.wrap \in Nat /\ run'.q = run.q
          /\ answered.kind = "shield" => run'.wrap = answered.wrap
      BY <2>1, <2>5 DEF Chosen, BInv, Money, IsPaidFor
    <3>4. Money'
      BY <1>1, <1>2, <2>5, <3>2, <3>3 DEF BInv, Money, PricedTx
    <3>5. FeeWatch'
      BY <1>1, <3>1, <3>2 DEF FeeWatch
    <3>6. NotBroke'
      BY <1>3, <1>4 DEF NotBroke
    <3>7. Budget'
      <4>1. SUFFICES ASSUME watch'.quoted # Unset
                     PROVE  Covers(2 * watch.quoted)'
        BY <3>1 DEF Budget, QuoteHolds, GateHolds
      <4>2. watch'.quoted = fee /\ quoted # Unset
        BY <3>1, <4>1
      <4> DEFINE u == 2 * fee
                 wrap == run'.wrap
      <4>3. u \in Nat /\ wrap \in Nat
        BY <1>1, <3>3
      <4>4. CASE answered.kind = "spend"
        <5>1. at' = "transfer"
          BY <2>5, <4>4 DEF AfterFunding
        <5>2. wei >= HoldsBack(u)
          BY <1>1, <2>1, <4>2, <4>4, SpendIsPriced DEF IsPaidFor
        <5> HIDE DEF u, wrap
        <5>3. Ahead("transfer", FALSE, wrap, u) = HoldsBack(u)
          <6>1. HoldsBack(u) \in Nat
            BY <4>3, HoldsBackIs
          <6> QED
            BY <6>1 DEF Ahead
        <5>4. (receipt' = "ok") = FALSE
          BY <2>5
        <5> QED
          BY <1>1, <4>2, <5>1, <5>2, <5>3, <5>4 DEF Covers, u, wrap
      <4>5. CASE answered.kind = "shield"
        <5>1. wei >= WholeSend(u, wrap)
          BY <1>1, <2>1, <3>3, <4>2, <4>5, RunIsPriced DEF IsPaidFor
        <5>2. at' \in {"wrap", "approve"}
          BY <2>5, <4>5 DEF AfterFunding
        <5> HIDE DEF u, wrap
        <5>3. \A place \in {"wrap", "approve"} :
                wei >= Ahead(place, FALSE, wrap, u)
          <6>1. /\ Ahead("wrap", FALSE, wrap, u) = WholeSend(u, wrap)
                /\ Ahead("approve", FALSE, wrap, u) <= WholeSend(u, wrap)
                /\ Ahead("wrap", FALSE, wrap, u) \in Nat
                /\ Ahead("approve", FALSE, wrap, u) \in Nat
            BY <4>3, AheadIs
          <6>2. ASSUME NEW a \in Nat, NEW b \in Nat, NEW w \in Int, a <= b, w >= b
                PROVE  w >= a
            BY <6>2
          <6>3. wei >= Ahead("wrap", FALSE, wrap, u)
            BY <5>1, <6>1
          <6>4. wei >= Ahead("approve", FALSE, wrap, u)
            BY <1>1, <5>1, <6>1, <6>2
          <6> QED
            BY <6>3, <6>4
        <5>4. (receipt' = "ok") = FALSE
          BY <2>5
        <5> QED
          BY <1>1, <4>2, <5>2, <5>3, <5>4 DEF Covers, u, wrap
      <4> QED
        BY <2>1, <2>5, <4>4, <4>5 DEF IsPaidFor
    <3> QED
      BY <3>4, <3>5, <3>6, <3>7 DEF BInv
  <2> QED
    BY <2>2, <2>3, <2>4, <2>5
<1> QED
  BY <1>6, <1>7

\* The places a run passes, and what passing one takes off what is ahead.
LEMMA LessAhead ==
  ASSUME PricesFit, NEW wrap \in Nat, NEW u \in Nat
  PROVE  /\ Ahead("approve", FALSE, wrap, u) <= Ahead("wrap", TRUE, wrap, u)
         /\ Ahead("gate", FALSE, wrap, u) <= Ahead("approve", TRUE, wrap, u)
         /\ Ahead("gate", FALSE, wrap, u) <= Ahead("approve", FALSE, wrap, u)
         /\ Ahead("resync", FALSE, wrap, u) <= Ahead("shield", TRUE, wrap, u)
         /\ \A here, there \in PastGate \ {"shield"} :
              Ahead(there, FALSE, wrap, u) <= Ahead(here, FALSE, wrap, u)
<1>1. /\ Pays(u, GasApprove) \in Nat /\ Pays(u, GasShield) \in Nat /\ HoldsBack(u) \in Nat
  BY Gas, PaysIs, HoldsBackIs
<1>2. \A place \in PastGate \ {"shield"} : Ahead(place, FALSE, wrap, u) = HoldsBack(u)
  BY <1>1 DEF Ahead, PastGate
<1>3. "resync" \in PastGate \ {"shield"}
  BY DEF PastGate
<1>4. Ahead("gate", FALSE, wrap, u) \in Nat
  BY AheadIs
<1>5. /\ Ahead("wrap", TRUE, wrap, u) = Ahead("approve", FALSE, wrap, u)
      /\ Ahead("approve", FALSE, wrap, u) = Pays(u, GasApprove) + Ahead("gate", FALSE, wrap, u)
      /\ Ahead("approve", TRUE, wrap, u) = Ahead("gate", FALSE, wrap, u)
      /\ Ahead("shield", TRUE, wrap, u) = HoldsBack(u)
  BY AheadIs
<1> DEFINE g == Ahead("gate", FALSE, wrap, u)
           pa == Pays(u, GasApprove)
           pt == HoldsBack(u)
<1>6. g \in Nat /\ pa \in Nat /\ pt \in Nat
  BY <1>1, <1>4
<1>7. g <= pa + g /\ pa + g <= pa + g /\ g <= g /\ pt <= pt
  <2> HIDE DEF g, pa, pt
  <2> QED
    BY <1>6
<1> QED
  BY <1>2, <1>3, <1>5, <1>7

\* A leg that waited for its transaction is left behind.
LEMMA WaitSucceedsKeepsBInv ==
  ASSUME PricesFit, IInv, IInv', BInv,
         \/ WaitSucceeds("wrap", "approve")
         \/ WaitSucceeds("approve", "gate")
         \/ WaitSucceeds("shield", "resync")
         \/ AllowanceSuffices
  PROVE  BInv'
<1>1. /\ UNCHANGED <<wei, fee, units, needs, pool, watch, run>> /\ receipt' = "none"
      /\ receipt \in {"none", "ok"}
      /\ \/ at = "wrap" /\ at' = "approve" /\ receipt = "ok"
         \/ at = "approve" /\ at' = "gate"
         \/ at = "shield" /\ at' = "resync" /\ receipt = "ok"
  BY NotWaiting DEF WaitSucceeds, AllowanceSuffices, Green, chain
<1>2. run.wrap \in Nat /\ run.amount \in Nat /\ {"q", "wrap", "amount"} \subseteq DOMAIN run
  BY DEF BInv, Money
<1>3. \A u \in Nat : Ahead(at', FALSE, run.wrap, u) <= Ahead(at, receipt = "ok", run.wrap, u)
  <2>1. SUFFICES ASSUME NEW u \in Nat
                 PROVE  Ahead(at', FALSE, run.wrap, u) <= Ahead(at, receipt = "ok", run.wrap, u)
    OBVIOUS
  <2>2. CASE receipt = "ok"
    <3>1. (receipt = "ok") = TRUE
      BY <2>2
    <3> QED
      BY <1>1, <1>2, <3>1, LessAhead
  <2>3. CASE receipt # "ok"
    <3>1. (receipt = "ok") = FALSE /\ at = "approve" /\ at' = "gate"
      BY <1>1, <2>3
    <3> QED
      BY <1>2, <3>1, LessAhead
  <2> QED
    BY <2>2, <2>3
<1> QED
  BY <1>1, <1>2, <1>3, GoesOnKeepsBInv DEF PastGate

\* The legs that send nothing and change nothing of the chain.
LEMMA ReadingLegsKeepBInv ==
  ASSUME PricesFit, IInv, IInv', BInv,
         \/ \E roots \in [Tree -> BOOLEAN] : Resync(roots)
         \/ Note
         \/ \E ops \in Operations : Transfer(ops)
         \/ TransfersNothing
         \/ RootOnChain
  PROVE  BInv'
<1>1. /\ at \in {"resync", "note", "transfer", "root-on-chain"}
      /\ UNCHANGED <<wei, fee, units, needs, pool, watch>>
  BY DEF Resync, Note, Transfer, TransfersNothing, RootOnChain, chain
<1>2. ~waiting /\ receipt = "none"
  BY <1>1, OnlySendersWait, NotWaiting DEF Broadcasts
<1>3. leg["broadcast"] # "broke" /\ leg'["broadcast"] = leg["broadcast"]
  <2>1. \E how : \E l \in Legs \ {"broadcast"} : leg' = [leg EXCEPT ![l] = how]
    BY DEF Resync, Note, Transfer, TransfersNothing, RootOnChain, Red, Green, Legs
  <2> QED
    BY <1>1, <2>1, NotBrokeYet DEF IInv, Shape, Legs
<1>4. CASE Over
  BY <1>1, <1>2, <1>3, <1>4, NotOursIsPriced, EndsKeepBInv DEF BInv, Money
<1> DEFINE RunKept ==
             \/ run' = run
             \/ \E a, b, c : run' = [run EXCEPT !.roots = a, !.balance = b, !.spends = c]
             \/ \E a, b, c : run' = [run EXCEPT !.value = a, !.asked = b, !.known = c]
             \/ \E a : run' = [run EXCEPT !.spends = a]
           Further ==
             /\ at' \in {"note", "transfer", "root-on-chain", "broadcast"}
             /\ receipt' = "none" /\ RunKept
<1>5. CASE Further
  <2>1. /\ {"q", "wrap", "amount"} \subseteq DOMAIN run' /\ run'.q = run.q
        /\ run'.wrap = run.wrap /\ run'.amount \in Nat /\ run.wrap \in Nat
    BY <1>5 DEF BInv, Money
  <2>2. at \in PastGate \ {"shield"} /\ at' \in PastGate \ {"shield"}
    BY <1>1, <1>5 DEF PastGate
  <2>3. \A u \in Nat :
          Ahead(at', FALSE, run.wrap, u) <= Ahead(at, receipt = "ok", run.wrap, u)
    <3>1. (receipt = "ok") = FALSE
      BY <1>2
    <3> QED
      BY <2>1, <2>2, <3>1, LessAhead
  <2> QED
    BY <1>1, <1>2, <1>5, <2>1, <2>2, <2>3, GoesOnKeepsBInv
<1>6. Over \/ Further
  <2>1. ASSUME NEW roots, Resync(roots) PROVE Over \/ Further
    <3>1. Over \/ /\ at' = "note" /\ receipt' = "none"
                  /\ run' = [run EXCEPT !.roots = roots, !.balance = notes[run.token],
                                       !.spends = spends]
      BY <2>1 DEF Resync, Red, Green
    <3> QED
      BY <3>1
  <2>2. ASSUME Note PROVE Over \/ Further
    BY <2>2 DEF Note, Red, Green
  <2>3. ASSUME NEW ops, Transfer(ops) PROVE Over \/ Further
    <3> DEFINE wanted == IF run.q.transfer = Unset THEN run.balance \div 2 ELSE run.q.transfer
               value == Smaller(wanted, run.balance)
               asked == run.roots[Head(ops)]
               known == \A i \in DOMAIN ops : run.roots[ops[i]]
    <3>1. Over \/ /\ at' = "root-on-chain" /\ receipt' = "none"
                  /\ run' = [run EXCEPT !.value = value, !.asked = asked, !.known = known]
      BY <2>3 DEF Transfer, Red, Green
    <3> HIDE DEF value, asked, known
    <3> QED
      BY <3>1
  <2>4. ASSUME TransfersNothing PROVE Over \/ Further
    BY <2>4 DEF TransfersNothing, Green
  <2>5. ASSUME RootOnChain PROVE Over \/ Further
    BY <2>5 DEF RootOnChain, Red, Green
  <2> QED
    BY <2>1, <2>2, <2>3, <2>4, <2>5
<1> QED
  BY <1>4, <1>5, <1>6

\* What the gate lets through is paid for at the price it read.
LEMMA ShieldGateKeepsBInv ==
  ASSUME PricesFit, IInv, IInv', BInv, NEW answers \in BOOLEAN, ShieldGate(answers)
  PROVE  BInv'
<1>1. /\ at = "gate" /\ UNCHANGED <<wei, fee, units, needs, pool>>
      /\ watch' = [watch EXCEPT !.gate = IF answers THEN fee ELSE Unset, !.peakGate = fee]
  BY DEF ShieldGate, chain
<1>2. /\ ~waiting /\ receipt = "none" /\ leg["broadcast"] # "broke"
      /\ fee \in Fees /\ fee \in Nat /\ wei \in Int /\ run.wrap \in Nat /\ run.q \in Questions
  BY <1>1, OnlySendersWait, NotWaiting, NotBrokeYet, FeesAreAmounts
  DEF Broadcasts, IInv, Shape, U128, BInv, Money
<1>3. /\ watch'.gate = (IF answers THEN fee ELSE Unset) /\ watch'.peakGate = fee
      /\ watch'.quoted = watch.quoted /\ watch'.peak = watch.peak
      /\ watch'.leftover = watch.leftover
  BY <1>1 DEF IInv, Shape, Watches
<1>4. CASE Red("shield", "red")
  <2>1. leg'["broadcast"] = leg["broadcast"]
    BY <1>4 DEF Red, IInv, Shape, Legs
  <2> QED
    BY <1>1, <1>2, <1>4, <2>1, NotOursIsPriced, EndsKeepBInv DEF Red, BInv, Money
<1>5. CASE /\ at' = "shield" /\ UNCHANGED <<waiting, receipt, run, leg>>
           /\ answers => CanStillTransact(wei, fee)
  <2>1. Money'
    BY <1>1, <1>5 DEF BInv, Money, PricedTx
  <2>2. FeeWatch'
    BY <1>1, <1>2, <1>3, <1>5 DEF BInv, FeeWatch
  <2>3. NotBroke'
    BY <1>2, <1>5 DEF NotBroke
  <2>4. Budget'
    <3>1. SUFFICES ASSUME OnItsWay'
                   PROVE  /\ QuoteHolds' => Covers(2 * watch.quoted)'
                          /\ watch'.gate # Unset => CoversTheGate'
      BY DEF Budget, GateHolds
    <3>2. OnItsWay /\ (receipt' = "ok") = FALSE /\ (receipt = "ok") = FALSE
      BY <1>1, <1>2, <1>3, <1>5, <3>1 DEF OnItsWay
    <3>3. QuoteHolds' => Covers(2 * watch.quoted)'
      <4>1. SUFFICES ASSUME QuoteHolds PROVE Covers(2 * watch.quoted)'
        BY <1>3 DEF QuoteHolds
      <4> DEFINE u == 2 * watch.quoted
      <4>2. u \in Nat /\ Covers(u)
        BY <1>1, <3>2, <4>1, UnitsAre DEF BInv, Budget
      <4>3. u' = u
        BY <1>3
      <4> HIDE DEF u
      <4>4. wei >= Ahead("gate", FALSE, run.wrap, u)
        BY <1>1, <3>2, <4>2 DEF Covers
      <4>5. Ahead("shield", FALSE, run.wrap, u) = Ahead("gate", FALSE, run.wrap, u)
        BY <1>2, <4>2, AheadIs
      <4> QED
        BY <1>1, <1>5, <3>2, <4>3, <4>4, <4>5 DEF Covers, u
    <3>4. watch'.gate # Unset => CoversTheGate'
      <4>1. SUFFICES ASSUME answers PROVE CoversTheGate'
        BY <1>3
      <4>2. wei >= Pays(fee, GasShield) + HoldsBack(fee)
        BY <1>2, <1>5, <4>1, GateIsEnough
      <4> QED
        BY <1>1, <1>2, <1>3, <1>5, <4>1, <4>2 DEF CoversTheGate
    <3> QED
      BY <3>3, <3>4
  <2> QED
    BY <2>1, <2>2, <2>3, <2>4 DEF BInv
<1> QED
  BY <1>4, <1>5 DEF ShieldGate

\* What Tx makes of a leg.
LEMMA TxIsPriced ==
  ASSUME PricesFit, IInv, BInv, NEW l \in Broadcasts
  PROVE  /\ PricedTx(Tx(l))
         /\ l = "wrap" => Tx(l).amount = run.wrap
         /\ PricedTx([Tx(l) EXCEPT !.ours = FALSE])
         /\ [Tx(l) EXCEPT !.ours = FALSE].ours = FALSE
<1>1. fee \in Nat /\ run.wrap \in Nat /\ run.amount \in Nat /\ Tip \in Nat
  BY FeesAreAmounts, TipIs DEF IInv, Shape, U128, BInv, Money
<1>2. 2 * fee + Tip \in Nat
  BY <1>1
<1> DEFINE tx == Tx(l)
           left == [tx EXCEPT !.ours = FALSE]
<1>3. /\ {"leg", "amount", "ceiling", "token", "ours"} \subseteq DOMAIN tx
      /\ tx.leg = l /\ tx.ceiling = 2 * fee + Tip
  BY DEF Tx
<1>4. /\ l = "wrap" => tx.amount = run.wrap
      /\ l = "shield" => tx.amount = run.amount
  BY DEF Tx
<1>5. PricedTx(tx)
  <2> HIDE DEF tx
  <2> QED
    BY <1>1, <1>2, <1>3, <1>4 DEF PricedTx
<1> HIDE DEF tx
<1>6. /\ DOMAIN left = DOMAIN tx /\ left.leg = tx.leg /\ left.amount = tx.amount
      /\ left.ceiling = tx.ceiling /\ left.token = tx.token /\ left.ours = FALSE
  BY <1>3
<1>7. PricedTx(left) /\ left.ours = FALSE
  <2> HIDE DEF left
  <2> QED
    BY <1>5, <1>6 DEF PricedTx
<1> QED
  BY <1>4, <1>5, <1>7 DEF tx

LEMMA RepliedSendKeepsBInv ==
  ASSUME PricesFit, IInv, BInv, NEW l \in Broadcasts, Sends(l, TRUE)
  PROVE  BInv'
<1> DEFINE tx == Tx(l)
           n == Len(pool) + 1
<1>1. /\ at = l /\ pool' = Append(pool, tx)
      /\ watch' = [watch EXCEPT !.crossed = FALSE]
      /\ UNCHANGED <<wei, fee, units, needs, at, receipt, run, leg>>
  BY DEF Sends
<1>2. /\ watch'.quoted = watch.quoted /\ watch'.peak = watch.peak /\ watch'.gate = watch.gate
      /\ watch'.peakGate = watch.peakGate /\ watch'.leftover = watch.leftover
  BY <1>1 DEF IInv, Shape, Watches
<1>3. PricedTx(tx) /\ (tx.leg = "wrap" => tx.amount = run.wrap)
  BY TxIsPriced, TxIs
<1> HIDE DEF tx
<1>4. \A i \in DOMAIN pool' : (i \in DOMAIN pool /\ pool'[i] = pool[i]) \/ pool'[i] = tx
  <2>1. /\ IsList(pool') /\ Len(pool) \in Nat /\ DOMAIN pool = 1 .. Len(pool)
        /\ Len(pool') = n /\ pool'[n] = tx
        /\ \A i \in DOMAIN pool : pool'[i] = pool[i]
    BY <1>1, ListAppend, ListIs DEF IInv, Shape
  <2>2. DOMAIN pool' = 1 .. n
    BY <2>1, ListIs
  <2>3. \A i \in DOMAIN pool' : i \in DOMAIN pool \/ i = n
    BY <2>1, <2>2
  <2> QED
    BY <2>1, <2>3
<1>5. Money'
  BY <1>1, <1>3, <1>4 DEF BInv, Money, PricedTx
<1>6. FeeWatch'
  BY <1>1, <1>2 DEF BInv, FeeWatch
<1>7. Budget'
  BY <1>1, <1>2 DEF BInv, Budget, OnItsWay, QuoteHolds, GateHolds, Covers, CoversTheGate
<1>8. NotBroke'
  BY <1>1, NotBrokeYet DEF NotBroke, Broadcasts
<1> QED
  BY <1>5, <1>6, <1>7, <1>8 DEF BInv

LEMMA LostSendKeepsBInv ==
  ASSUME PricesFit, IInv, BInv, NEW l \in Broadcasts, Sends(l, FALSE)
  PROVE  BInv'
<1> DEFINE tx == [Tx(l) EXCEPT !.ours = FALSE]
<1>1. /\ at = l /\ pool' = Append(Abandon(pool), tx) /\ Red(l, "red")
      /\ UNCHANGED <<wei, fee, units, needs>>
  BY DEF Sends
<1>2. PricedTx(tx) /\ tx.ours = FALSE
  BY TxIsPriced
<1> HIDE DEF tx
<1>3. \A i \in DOMAIN pool' : PricedTx(pool'[i]) /\ pool'[i].ours = FALSE
  <2> DEFINE left == Abandon(pool)
  <2>1. IsList(left) /\ \A i \in DOMAIN left : PricedTx(left[i]) /\ left[i].ours = FALSE
    BY NothingOursAbandoned, AbandonedIsPriced DEF BInv
  <2> HIDE DEF left
  <2>2. /\ IsList(pool') /\ Len(left) \in Nat /\ DOMAIN left = 1 .. Len(left)
        /\ Len(pool') = Len(left) + 1 /\ pool'[Len(left) + 1] = tx
        /\ \A i \in DOMAIN left : pool'[i] = left[i]
    BY <1>1, <2>1, ListAppend, ListIs DEF left
  <2>3. \A i \in DOMAIN pool' : i \in DOMAIN left \/ i = Len(left) + 1
    BY <2>2, ListIs
  <2> QED
    BY <1>2, <2>1, <2>2, <2>3
<1> QED
  BY <1>1, <1>3, EndsKeepBInv DEF Red, BInv, Money

LEMMA WaitFailsKeepsBInv ==
  ASSUME IInv, BInv, (\E l \in Broadcasts : WaitFails(l)) \/ Dies
  PROVE  BInv'
<1>1. /\ at # "idle" /\ pool' = Abandon(pool) /\ Over /\ UNCHANGED <<wei, fee, units, needs>>
  BY DEF WaitFails, Dies, Red, Broadcasts
<1> QED
  BY <1>1, AbandonedIsPriced, EndsKeepBInv DEF BInv, Money

LEMMA BroadcastLandsKeepsBInv ==
  ASSUME IInv, BInv, BroadcastLands
  PROVE  BInv'
<1>1. /\ at = "broadcast" /\ receipt = "ok" /\ Over /\ UNCHANGED <<wei, units, needs, pool>>
  BY DEF BroadcastLands, chain
<1>2. \A i \in DOMAIN pool' : PricedTx(pool'[i]) /\ pool'[i].ours = FALSE
  BY <1>1 DEF IInv, WaitsForOne, Shape, BInv, Money
<1> QED
  BY <1>1, <1>2, EndsKeepBInv DEF BInv, Money

LEMMA RefusedKeepsBInv ==
  ASSUME IInv, BInv, NEW l \in Broadcasts, Refused(l)
  PROVE  BInv'
<1>1. ~waiting /\ Over /\ UNCHANGED <<wei, units, needs, pool>>
  BY DEF Refused, Red, chain
<1> QED
  BY <1>1, NotOursIsPriced, EndsKeepBInv DEF BInv, Money

(***************************************************************************)
(* The broadcast is refused for funds only where the prices outran what    *)
(* the run was funded for, and outran what the gate read too or left the   *)
(* EOA short of no more than the tips the gate does not count.             *)
(***************************************************************************)
LEMMA RefusedOnlyWhenOutrun ==
  ASSUME PricesFit, IInv, BInv, Refused("broadcast"), ~Holds("broadcast")
  PROVE  watch.leftover \/ (QuoteOutrun /\ (GateOutrun \/ ShortOfTips))
<1> DEFINE g == WithHeadroom(GasTransact)
           held == g * (2 * fee + Tip)
<1>1. at = "broadcast" /\ ~waiting /\ at \in PastGate
  BY DEF Refused, PastGate
<1>2. SUFFICES ASSUME ~watch.leftover
               PROVE  QuoteOutrun /\ (GateOutrun \/ ShortOfTips)
  OBVIOUS
<1>3. OnItsWay /\ (receipt = "ok") = FALSE
  BY <1>1, <1>2, NotWaiting DEF OnItsWay
<1>4. fee \in Nat /\ wei \in Int /\ Tip \in Nat /\ g \in Nat /\ GasShield \in Nat
  BY <1>1, UnitsAre, TipIs, HeadroomIs, Gas DEF BInv, Money
<1>5. wei < held
  <2>1. GasOf("broadcast") = GasTransact
    BY DEF GasOf
  <2>2. ~(wei >= g * (2 * fee + Tip) + 0)
    BY <2>1 DEF Holds
  <2>3. held \in Nat
    <3> HIDE DEF g
    <3> QED
      BY <1>4
  <2> QED
    BY <1>4, <2>2, <2>3
<1>6. /\ watch.peak \in Int /\ watch.peakGate \in Int
      /\ watch.quoted # Unset => 2 * watch.quoted \in Int
      /\ watch.gate # Unset => watch.gate \in Int
  BY DEF IInv, Shape, Watches, U128
<1>7. QuoteOutrun
  <2>1. SUFFICES ASSUME QuoteHolds PROVE FALSE
    BY <1>4, <1>6 DEF QuoteOutrun, QuoteHolds
  <2> DEFINE u == 2 * watch.quoted
             hb == HoldsBack(u)
  <2>2. u \in Nat /\ fee + Tip <= u /\ Covers(u)
    BY <1>1, <1>3, <2>1, UnitsAre DEF BInv, Budget
  <2> HIDE DEF u
  <2>3. fee + Tip \in Nat
    BY <1>4
  <2>4. hb \in Nat /\ g * (2 * (fee + Tip)) <= hb
    BY <2>2, <2>3, HoldsBackIs
  <2>5. wei >= hb
    <3>1. Ahead("broadcast", FALSE, run.wrap, u) = hb
      BY <2>4 DEF Ahead
    <3> QED
      BY <1>1, <1>3, <2>2, <3>1 DEF Covers
  <2> HIDE DEF g, hb
  <2>6. held <= g * (2 * (fee + Tip)) /\ held \in Nat /\ g * (2 * (fee + Tip)) \in Nat
    BY <1>4
  <2> HIDE DEF held
  <2> QED
    BY <1>4, <1>5, <2>4, <2>5, <2>6
<1>8. GateOutrun \/ ShortOfTips
  <2>1. SUFFICES ASSUME GateHolds PROVE ShortOfTips
    BY <1>1, <1>6 DEF GateOutrun, GateHolds
  <2> DEFINE hb == HoldsBack(watch.gate)
  <2>2. watch.gate \in Nat /\ fee <= watch.gate /\ CoversTheGate
    BY <1>1, <1>3, <2>1, UnitsAre DEF BInv, Budget
  <2>3. hb \in Nat /\ g * (2 * fee) <= hb
    BY <1>4, <2>2, HoldsBackIs
  <2>4. wei + GasShield * Tip >= hb
    BY <1>1, <2>2 DEF CoversTheGate
  <2> HIDE DEF g, hb
  <2>5. /\ held = g * (2 * fee) + g * Tip /\ g * (2 * fee) \in Nat /\ g * Tip \in Nat
        /\ Tip * (GasShield + g) = GasShield * Tip + g * Tip /\ GasShield * Tip \in Nat
    BY <1>4
  <2> HIDE DEF held
  <2>6. wei + Tip * (GasShield + g) >= held
    BY <1>4, <2>3, <2>4, <2>5
  <2> QED
    BY <2>6 DEF ShortOfTips, g, held
<1> QED
  BY <1>7, <1>8

\* Nothing but a refusal of it makes the broadcast broke.
LEMMA OnlyRefusalBreaks ==
  ASSUME IInv, Next, leg["broadcast"] # "broke", leg'["broadcast"] = "broke"
  PROVE  Refused("broadcast") /\ ~Holds("broadcast")
<1>1. leg \in [Legs -> Marks] /\ "broadcast" \in Legs
  BY DEF IInv, Shape, Legs, Marks
<1>2. ~(\E l \in Legs, how \in {"green", "red"} : leg' = [leg EXCEPT ![l] = how])
  BY <1>1
<1>3. /\ leg' # leg
      /\ ~(\E how \in {"green", "red"} :
             leg' = [leg EXCEPT !["survey"] = "green", !["synced-root"] = how])
      /\ leg' # [l \in Legs |-> "none"]
  BY <1>1
<1>4. {"wrap", "approve", "shield", "broadcast"} \subseteq Legs
  BY DEF Legs
<1>5. ASSUME NEW l \in Broadcasts, Refused(l)
      PROVE  Refused("broadcast") /\ ~Holds("broadcast")
  <2>1. leg' = [leg EXCEPT ![l] = IF Succeeds(Tx(l)) /\ ~Holds(l) THEN "broke" ELSE "red"]
    BY <1>5 DEF Refused, Red
  <2>2. l = "broadcast" /\ ~Holds(l)
    BY <1>1, <2>1
  <2> QED
    BY <1>5, <2>2
<1>6. {"wrap", "approve", "shield", "broadcast"} \subseteq Broadcasts
  BY DEF Broadcasts
<1>7. Refused("wrap") \/ Refused("approve") \/ Refused("shield") \/ Refused("broadcast")
  BY <1>2, <1>3, <1>4
  DEF Next, RunStep, Start, Dies, Mine, FeeMoves, TopUp, SurveyCompletes, SurveyFails, Funding,
      FundingFails, Wrap, Approve, Shield, Broadcast, AllowanceSuffices, ShieldGate, Resync,
      Note, Transfer, TransfersNothing, RootOnChain, BroadcastLands, Sends, WaitSucceeds,
      WaitFails, Red, Green, Legs
<1> QED
  BY <1>5, <1>6, <1>7

\* What a transaction takes from the EOA, and what it leaves to pay.
LEMMA MinedIsPaidFor ==
  ASSUME PricesFit, NEW l \in Broadcasts \ {"broadcast"}, NEW w \in Int, NEW wrap \in Nat,
         NEW price \in Nat, NEW u \in Nat, price <= u, w >= Ahead(l, FALSE, wrap, u)
  PROVE  w - GasOf(l) * price - (IF l = "wrap" THEN wrap ELSE 0) >= Ahead(l, TRUE, wrap, u)
<1>1. ASSUME NEW gas \in {GasWrap, GasApprove, GasShield}
      PROVE  gas * price \in Int /\ gas * price <= Pays(u, gas) /\ Pays(u, gas) \in Nat
  <2>1. gas \in Nat /\ price \in Int /\ u \in Nat
    BY Gas
  <2>2. Pays(u, gas) \in Nat /\ \A p \in Int : p <= u => gas * p \in Int /\ gas * p <= Pays(u, gas)
    BY <2>1, PaysIs
  <2> QED
    BY <2>1, <2>2
<1>2. /\ Ahead("wrap", FALSE, wrap, u)
           = wrap + Pays(u, GasWrap) + Ahead("wrap", TRUE, wrap, u)
      /\ Ahead("approve", FALSE, wrap, u) = Pays(u, GasApprove) + Ahead("approve", TRUE, wrap, u)
      /\ Ahead("shield", FALSE, wrap, u) = Pays(u, GasShield) + Ahead("shield", TRUE, wrap, u)
  <2>1. /\ Ahead("wrap", FALSE, wrap, u)
             = wrap + Pays(u, GasWrap) + Ahead("approve", FALSE, wrap, u)
        /\ Ahead("wrap", TRUE, wrap, u) = Ahead("approve", FALSE, wrap, u)
        /\ Ahead("approve", FALSE, wrap, u) = Pays(u, GasApprove) + Ahead("gate", FALSE, wrap, u)
        /\ Ahead("approve", TRUE, wrap, u) = Ahead("gate", FALSE, wrap, u)
        /\ Ahead("gate", FALSE, wrap, u) = Ahead("shield", FALSE, wrap, u)
        /\ Ahead("shield", TRUE, wrap, u) = HoldsBack(u)
    BY AheadIs
  <2>2. Ahead("gate", FALSE, wrap, u) = Pays(u, GasShield) + HoldsBack(u)
    BY AheadIs
  <2> QED
    BY <2>1, <2>2
<1>3. \A place : Ahead(place, TRUE, wrap, u) \in Nat
  BY AheadIs
<1>4. ASSUME NEW paid \in Int, NEW p \in Nat, NEW rest \in Nat, NEW value \in Nat,
             paid <= p, w >= value + p + rest
      PROVE  w - paid - value >= rest
  BY <1>4
<1>5. ASSUME NEW a \in Nat, NEW b \in Nat PROVE 0 + a + b = a + b
  OBVIOUS
<1>6. CASE l = "wrap"
  <2>1. GasOf(l) = GasWrap
    BY <1>6 DEF GasOf
  <2>2. w >= wrap + Pays(u, GasWrap) + Ahead("wrap", TRUE, wrap, u)
    BY <1>2, <1>6
  <2> QED
    BY <1>1, <1>3, <1>4, <1>6, <2>1, <2>2
<1>7. CASE l = "approve"
  <2>1. GasOf(l) = GasApprove
    BY <1>7 DEF GasOf
  <2>2. w >= 0 + Pays(u, GasApprove) + Ahead("approve", TRUE, wrap, u)
    <3>1. Pays(u, GasApprove) \in Nat /\ Ahead("approve", TRUE, wrap, u) \in Nat
      BY <1>1, <1>3
    <3>2. w >= Pays(u, GasApprove) + Ahead("approve", TRUE, wrap, u)
      BY <1>2, <1>7
    <3> QED
      BY <1>5, <3>1, <3>2
  <2> QED
    BY <1>1, <1>3, <1>4, <1>7, <2>1, <2>2
<1>8. CASE l = "shield"
  <2>1. GasOf(l) = GasShield
    BY <1>8 DEF GasOf
  <2>2. w >= 0 + Pays(u, GasShield) + Ahead("shield", TRUE, wrap, u)
    <3>1. Pays(u, GasShield) \in Nat /\ Ahead("shield", TRUE, wrap, u) \in Nat
      BY <1>1, <1>3
    <3>2. w >= Pays(u, GasShield) + Ahead("shield", TRUE, wrap, u)
      BY <1>2, <1>8
    <3> QED
      BY <1>5, <3>1, <3>2
  <2> QED
    BY <1>1, <1>3, <1>4, <1>8, <2>1, <2>2
<1> QED
  BY <1>6, <1>7, <1>8 DEF Broadcasts

\* What the chain does to the balances when it mines a transaction.
LEMMA MinedIs ==
  ASSUME PricesFit, IInv, BInv, Mine
  PROVE  LET tx == Head(pool)
             price == Smaller(tx.ceiling, fee + Tip)
             value == IF tx.leg = "wrap" THEN tx.amount ELSE 0
         IN  /\ PricedTx(tx) /\ 1 \in DOMAIN pool /\ tx = pool[1]
             /\ price \in Nat /\ price <= fee + Tip
             /\ wei' \in Int /\ units' \in [Token -> Nat]
             /\ Succeeds(tx) => wei' = wei - GasOf(tx.leg) * price - value
<1> DEFINE tx == Head(pool)
           gas == GasOf(tx.leg)
           value == IF tx.leg = "wrap" THEN tx.amount ELSE 0
           price == Smaller(tx.ceiling, fee + Tip)
           t == tx.token
<1>1. tx = pool[1] /\ 1 \in DOMAIN pool
  BY ListTail DEF Mine, IInv, Shape
<1>2. PricedTx(tx)
  BY <1>1 DEF BInv, Money
<1>3. /\ IF Succeeds(tx)
           THEN /\ wei' = wei - gas * price - value
                /\ units' = [units EXCEPT ![t] = CASE tx.leg = "wrap" -> units[t] + tx.amount
                                                   [] tx.leg = "shield" -> units[t] - tx.amount
                                                   [] OTHER -> units[t]]
           ELSE wei' = wei - gas * price /\ units' = units
  BY DEF Mine
<1> HIDE DEF tx
<1>4. gas \in Nat /\ value \in Nat
  BY <1>2, Gas DEF GasOf, PricedTx, Broadcasts
<1>5. price \in Nat /\ price <= fee + Tip
  <2>1. fee \in Nat /\ Tip \in Nat
    BY FeesAreAmounts, TipIs DEF IInv, Shape, U128
  <2>2. tx.ceiling \in Nat
    BY <1>2 DEF PricedTx
  <2> QED
    BY <2>1, <2>2 DEF Smaller
<1> HIDE DEF gas, value, price
<1>6. wei \in Int /\ units \in [Token -> Nat] /\ gas * price \in Int
  BY <1>4, <1>5 DEF BInv, Money
<1>7. wei' \in Int
  BY <1>3, <1>4, <1>6
<1>8. units' \in [Token -> Nat]
  <2>1. SUFFICES ASSUME Succeeds(tx) PROVE units' \in [Token -> Nat]
    BY <1>3, <1>6
  <2>2. CASE t \notin Token
    <3>1. units' = units
      BY <1>3, <1>6, <2>1, <2>2
    <3> QED
      BY <1>6, <3>1
  <2>3. CASE t \in Token
    <3> DEFINE has == units[t]
    <3>1. has \in Nat
      BY <1>6, <2>3
    <3>2. tx.leg = "wrap" => has + tx.amount \in Nat
      BY <1>2, <3>1 DEF PricedTx
    <3>3. tx.leg = "shield" => has - tx.amount \in Nat
      <4>1. tx.leg = "shield" => tx.amount <= has /\ tx.amount \in Nat
        BY <1>2, <2>1 DEF Succeeds, PricedTx
      <4> HIDE DEF has
      <4> QED
        BY <3>1, <4>1
    <3> QED
      BY <1>3, <1>6, <2>1, <3>1, <3>2, <3>3
  <2> QED
    BY <2>2, <2>3
<1>9. Succeeds(tx) => wei' = wei - gas * price - value
  BY <1>3
<1> QED
  BY <1>1, <1>2, <1>5, <1>7, <1>8, <1>9 DEF tx, gas, price, value

LEMMA MineKeepsBInv ==
  ASSUME PricesFit, IInv, BInv, Mine
  PROVE  BInv'
<1> DEFINE tx == Head(pool)
           done == Succeeds(tx)
           price == Smaller(tx.ceiling, fee + Tip)
           value == IF tx.leg = "wrap" THEN tx.amount ELSE 0
<1>1. /\ pool' = Tail(pool) /\ UNCHANGED <<fee, at, waiting, run, leg, needs>>
      /\ receipt' = IF tx.ours THEN IF done THEN "ok" ELSE "reverted" ELSE receipt
      /\ watch' = IF tx.ours
                    THEN [watch EXCEPT !.landed = IF done THEN watch.landed \cup {tx.leg}
                                                          ELSE watch.landed]
                    ELSE [watch EXCEPT !.leftover = watch.leftover \/ at # "idle",
                                       !.crossed = waiting]
  BY DEF Mine
<1>2. /\ PricedTx(tx) /\ 1 \in DOMAIN pool /\ tx = pool[1]
      /\ price \in Nat /\ price <= fee + Tip
      /\ wei' \in Int /\ units' \in [Token -> Nat]
      /\ done => wei' = wei - GasOf(tx.leg) * price - value
  BY MinedIs
<1>3. \A i \in DOMAIN pool' : i + 1 \in DOMAIN pool /\ pool'[i] = pool[i + 1]
  BY <1>1, ListTail DEF Mine, IInv, Shape
<1> HIDE DEF tx, done, price
<1>4. /\ watch'.quoted = watch.quoted /\ watch'.peak = watch.peak /\ watch'.gate = watch.gate
      /\ watch'.peakGate = watch.peakGate
      /\ watch'.leftover = (watch.leftover \/ (~tx.ours /\ at # "idle"))
  <2>1. watch \in Watches /\ tx.ours \in BOOLEAN
    BY <1>2 DEF IInv, Shape
  <2> QED
    BY <1>1, <2>1 DEF Watches
<1>5. Money'
  BY <1>1, <1>2, <1>3 DEF BInv, Money, PricedTx
<1>6. FeeWatch'
  BY <1>1, <1>4 DEF BInv, FeeWatch
<1>7. NotBroke'
  BY <1>1 DEF BInv, NotBroke
<1>8. Budget'
  <2>1. SUFFICES ASSUME OnItsWay'
                 PROVE  /\ QuoteHolds => Covers(2 * watch.quoted)'
                        /\ GateHolds => CoversTheGate'
    BY <1>1, <1>4 DEF Budget, QuoteHolds, GateHolds
  <2>2. /\ at \notin {"idle", "survey", "funding"} /\ ~watch.leftover /\ tx.ours
        /\ receipt' # "reverted" /\ (at = "broadcast" => receipt' = "none")
    BY <1>1, <1>4, <2>1 DEF OnItsWay
  <2>3. done /\ receipt' = "ok" /\ receipt = "none" /\ tx.leg = at /\ at \in Broadcasts
    BY <1>1, <1>2, <2>2 DEF IInv, WaitsForOne
  <2>4. OnItsWay /\ at \in Broadcasts \ {"broadcast"} /\ (receipt = "ok") = FALSE
        /\ (receipt' = "ok") = TRUE
    BY <2>2, <2>3 DEF OnItsWay
  <2>5. value = (IF at = "wrap" THEN run.wrap ELSE 0)
    BY <1>2, <2>2, <2>3 DEF BInv, Money
  <2>6. run.wrap \in Nat /\ wei \in Int /\ fee \in Nat
    BY <2>2, UnitsAre DEF BInv, Money
  <2>7. ASSUME NEW u \in Nat, fee + Tip <= u, Covers(u)
        PROVE  wei' >= Ahead(at', receipt' = "ok", run'.wrap, u)
    <3>1. wei >= Ahead(at, FALSE, run.wrap, u)
      BY <2>4, <2>7 DEF Covers
    <3>2. price <= u
      BY <1>2, <2>6, <2>7, TipIs
    <3>3. wei - GasOf(at) * price - (IF at = "wrap" THEN run.wrap ELSE 0)
            >= Ahead(at, TRUE, run.wrap, u)
      BY <1>2, <2>4, <2>6, <3>1, <3>2, MinedIsPaidFor
    <3>4. wei' = wei - GasOf(at) * price - (IF at = "wrap" THEN run.wrap ELSE 0)
      BY <1>2, <2>3, <2>5
    <3> QED
      BY <1>1, <2>4, <3>3, <3>4
  <2>8. QuoteHolds => /\ 2 * watch.quoted \in Nat /\ fee + Tip <= 2 * watch.quoted
                      /\ Covers(2 * watch.quoted)
    BY <2>2, <2>4, UnitsAre DEF BInv, Budget
  <2>9. QuoteHolds => Covers(2 * watch.quoted)'
    <3>1. (2 * watch.quoted)' = 2 * watch.quoted
      BY <1>4
    <3> QED
      BY <2>7, <2>8, <3>1 DEF Covers
  <2>10. GateHolds => CoversTheGate'
    <3>1. SUFFICES ASSUME GateHolds PROVE CoversTheGate'
      OBVIOUS
    <3>2. at = "shield" /\ watch.gate \in Nat /\ fee <= watch.gate /\ CoversTheGate
      BY <2>2, <2>4, <3>1, UnitsAre DEF BInv, Budget, GateHolds, PastGate, Broadcasts
    <3> DEFINE hb == HoldsBack(watch.gate)
               ps == Pays(watch.gate, GasShield)
    <3>3. wei >= ps + hb
      BY <2>3, <3>2 DEF CoversTheGate
    <3>4. hb \in Nat /\ GasShield \in Nat /\ Tip \in Nat
      BY <3>2, HoldsBackIs, Gas, TipIs
    <3>5. ps = GasShield * watch.gate
      BY <3>2, <3>4 DEF Pays
    <3>6. wei' = wei - GasShield * price
      <4>1. GasOf(tx.leg) = GasShield /\ value = 0
        BY <2>3, <2>5, <3>2 DEF GasOf
      <4>2. GasShield * price \in Nat
        BY <1>2, <3>4
      <4> QED
        BY <1>2, <2>3, <2>6, <4>1, <4>2
    <3>7. GasShield * price <= GasShield * watch.gate + GasShield * Tip
      <4>1. ASSUME NEW a \in Nat, NEW b \in Nat, NEW c \in Nat, a <= b
            PROVE  c * a \in Nat /\ c * b \in Nat /\ c * a <= c * b
        <5>1. b - a \in Nat /\ c * (b - a) \in Nat /\ c * b = c * a + c * (b - a)
          BY <4>1
        <5> QED
          BY <5>1
      <4>2. watch.gate + Tip \in Nat /\ price <= watch.gate + Tip
        BY <1>2, <2>6, <3>2, <3>4
      <4>3. GasShield * (watch.gate + Tip) = GasShield * watch.gate + GasShield * Tip
        BY <3>2, <3>4
      <4> QED
        BY <1>2, <3>4, <4>1, <4>2, <4>3
    <3>8. wei' + GasShield * Tip >= hb
      <4>1. /\ GasShield * price \in Nat /\ GasShield * watch.gate \in Nat
            /\ GasShield * Tip \in Nat
        BY <1>2, <3>2, <3>4
      <4> HIDE DEF hb
      <4> QED
        BY <2>6, <3>3, <3>4, <3>5, <3>6, <3>7, <4>1
    <3> QED
      BY <1>4, <2>3, <3>8 DEF CoversTheGate
  <2> QED
    BY <2>9, <2>10
<1> QED
  BY <1>5, <1>6, <1>7, <1>8 DEF BInv

LEMMA FeeMovesKeepsBInv ==
  ASSUME IInv, BInv, NEW f \in Fees, FeeMoves(f)
  PROVE  BInv'
<1>1. /\ fee' = f
      /\ watch' = [watch EXCEPT !.peak = Larger(watch.peak, f),
                                !.peakGate = Larger(watch.peakGate, f)]
      /\ UNCHANGED <<wei, units, needs, pool, at, receipt, run, leg>>
  BY DEF FeeMoves
<1>2. /\ watch'.peak = Larger(watch.peak, f) /\ watch'.peakGate = Larger(watch.peakGate, f)
      /\ watch'.quoted = watch.quoted /\ watch'.gate = watch.gate
      /\ watch'.leftover = watch.leftover
      /\ watch.peak \in Nat /\ watch.peakGate \in Nat /\ f \in Nat
      /\ watch.quoted \in Nat \cup {Unset} /\ watch.gate \in Nat \cup {Unset} /\ Tip \in Nat
  BY <1>1, FeesAreAmounts, TipIs DEF IInv, Shape, Watches, U128
<1>3. /\ watch'.peak \in Nat /\ watch'.peak >= watch.peak /\ watch'.peak >= f
      /\ watch'.peakGate \in Nat /\ watch'.peakGate >= watch.peakGate /\ watch'.peakGate >= f
  <2>1. ASSUME NEW a \in Nat, NEW b \in Nat
        PROVE  Larger(a, b) \in Nat /\ Larger(a, b) >= a /\ Larger(a, b) >= b
    BY DEF Larger
  <2> QED
    BY <1>2, <2>1
<1>4. Money'
  BY <1>1 DEF BInv, Money, PricedTx
<1>5. FeeWatch'
  BY <1>1, <1>2, <1>3 DEF BInv, FeeWatch
<1>6. (QuoteHolds' => QuoteHolds) /\ (GateHolds' => GateHolds)
  <2>1. ASSUME NEW a \in Nat, NEW b \in Nat, NEW c \in Int, b >= a, b <= c
        PROVE  a <= c
    BY <2>1
  <2>2. ASSUME QuoteHolds' PROVE QuoteHolds
    <3>1. /\ watch.quoted # Unset /\ watch.quoted \in Nat /\ 2 * watch.quoted \in Int
          /\ watch'.peak + Tip <= 2 * watch.quoted
      BY <1>2, <2>2 DEF QuoteHolds
    <3>2. watch.peak + Tip \in Nat /\ watch'.peak + Tip \in Nat
          /\ watch'.peak + Tip >= watch.peak + Tip
      BY <1>2, <1>3
    <3> QED
      BY <2>1, <3>1, <3>2 DEF QuoteHolds
  <2>3. ASSUME GateHolds' PROVE GateHolds
    <3>1. /\ at \in PastGate /\ watch.gate # Unset /\ watch.gate \in Int
          /\ watch'.peakGate <= watch.gate
      BY <1>1, <1>2, <2>3 DEF GateHolds
    <3> QED
      BY <1>2, <1>3, <2>1, <3>1 DEF GateHolds
  <2> QED
    BY <2>2, <2>3
<1>7. Budget'
  BY <1>1, <1>2, <1>6 DEF BInv, Budget, OnItsWay, Covers, CoversTheGate
<1>8. NotBroke'
  BY <1>1 DEF BInv, NotBroke
<1> QED
  BY <1>4, <1>5, <1>7, <1>8 DEF BInv

LEMMA TopUpKeepsBInv ==
  ASSUME BInv, TopUp \/ UNCHANGED vars
  PROVE  BInv'
<1>1. /\ UNCHANGED <<fee, units, pool, at, receipt, run, leg, watch>>
      /\ \/ UNCHANGED <<wei, needs>>
         \/ at = "idle" /\ needs # Unset /\ wei' = Larger(wei, needs) /\ needs' = Unset
  BY DEF TopUp, vars, chain
<1>2. wei' \in Int /\ needs' \in Nat \cup {Unset}
  BY <1>1 DEF BInv, Money, Larger
<1>3. Money'
  BY <1>1, <1>2 DEF BInv, Money, PricedTx
<1>4. FeeWatch' /\ NotBroke'
  BY <1>1 DEF BInv, FeeWatch, NotBroke
<1>5. Budget'
  <2>1. OnItsWay' => OnItsWay /\ wei' = wei
    BY <1>1 DEF OnItsWay
  <2> QED
    BY <1>1, <2>1 DEF BInv, Budget, QuoteHolds, GateHolds, Covers, CoversTheGate
<1> QED
  BY <1>3, <1>4, <1>5 DEF BInv

(***************************************************************************)
(* No run strands its note: whatever the prices, the tip, the amounts and  *)
(* the number of runs, the transact after a shield is refused for funds    *)
(* only where the price with its tip outran what price_run asked for, and  *)
(* outran what can_still_transact read too or left only the tips it does   *)
(* not count to pay; or where another run spent the purse.  No price of a  *)
(* whole send may saturate.                                                *)
(***************************************************************************)
THEOREM NoNoteIsStranded ==
  ASSUME PricesFit
  PROVE  Spec => NoteIsNotStranded
<1> DEFINE Kept ==
             (leg["broadcast"] # "broke" /\ leg'["broadcast"] = "broke") =>
               watch.leftover \/ (QuoteOutrun /\ (GateOutrun \/ ShortOfTips))
<1>1. IInv /\ IInv' /\ BInv /\ [Next]_vars => BInv'
  <2> SUFFICES ASSUME IInv, IInv', BInv, [Next]_vars PROVE BInv'
    OBVIOUS
  <2>1. ASSUME NEW l \in Broadcasts, NEW replied \in BOOLEAN, Sends(l, replied)
        PROVE  BInv'
    BY <2>1, RepliedSendKeepsBInv, LostSendKeepsBInv
  <2>2. "wrap" \in Broadcasts /\ "approve" \in Broadcasts /\ "shield" \in Broadcasts
        /\ "broadcast" \in Broadcasts
    BY DEF Broadcasts
  <2>3. ASSUME Wrap PROVE BInv'
    BY <2>1, <2>2, <2>3, RefusedKeepsBInv, WaitSucceedsKeepsBInv, WaitFailsKeepsBInv DEF Wrap
  <2>4. ASSUME Approve PROVE BInv'
    BY <2>1, <2>2, <2>4, RefusedKeepsBInv, WaitSucceedsKeepsBInv, WaitFailsKeepsBInv
    DEF Approve
  <2>5. ASSUME Shield PROVE BInv'
    BY <2>1, <2>2, <2>5, ShieldGateKeepsBInv, RefusedKeepsBInv, WaitSucceedsKeepsBInv,
       WaitFailsKeepsBInv DEF Shield
  <2>6. ASSUME Broadcast PROVE BInv'
    BY <2>1, <2>2, <2>6, RefusedKeepsBInv, BroadcastLandsKeepsBInv, WaitFailsKeepsBInv
    DEF Broadcast
  <2>7. ASSUME RunStep PROVE BInv'
    BY <2>3, <2>4, <2>5, <2>6, <2>7, SurveyKeepsBInv, FundingKeepsBInv, ReadingLegsKeepBInv
    DEF RunStep
  <2> QED
    BY <2>7, StartKeepsBInv, WaitFailsKeepsBInv, MineKeepsBInv, FeeMovesKeepsBInv,
       TopUpKeepsBInv DEF Next
<1>2. IInv /\ BInv /\ [Next]_vars => [Kept]_vars
  BY OnlyRefusalBreaks, RefusedOnlyWhenOutrun
<1> QED
  BY <1>1, <1>2, InitEstablishesBInv, LiveSendInvariant, PTL DEF Spec, NoteIsNotStranded

-----------------------------------------------------------------------------
(***************************************************************************)
(* What everything is worth: a third invariant, for TypeOK.  A balance is  *)
(* taken from only by a transaction that was let through because it was    *)
(* there, and the chain sees at most one transact a run: `ToCome` is the   *)
(* one a run may still send, `Queued` those that are in the pool.          *)
(***************************************************************************)
Surveys == [{1} -> [token : Token, units : Nat]] \cup [{1, 2} -> [token : Token, units : Nat]]

Runs ==
  [q : Questions \cup {Unset}, shielded : Surveys \cup {Unset}, roots : [Tree -> BOOLEAN],
   token : Token \cup {Unset}, amount : Nat, wrap : Nat, balance : Nat, reused : BOOLEAN,
   asked : BOOLEAN, known : BOOLEAN, spends : [Token -> Nat] \cup {Unset}, value : Nat]

Txs ==
  [leg : Broadcasts, ceiling : Nat, ours : BOOLEAN, token : Token, amount : Nat,
   known : BOOLEAN, spends : [Token -> Nat] \cup {Unset}]

Balances ==
  /\ wei \in U128
  /\ units \in [Token -> Nat] /\ allowance \in [Token -> Nat] /\ notes \in [Token -> Nat]
  /\ spends \in [Token -> Nat]
  /\ pool \in Seq(Txs)
  /\ needs \in U128 \cup {Unset}

Learned ==
  /\ run \in Runs
  /\ at # "idle" => run.q \in Questions
  /\ at \notin {"idle", "survey", "funding"} => run.token \in Token

Transacts(p, t) == {i \in DOMAIN p : p[i].leg = "broadcast" /\ p[i].token = t}
Queued(t) == Cardinality(Transacts(pool, t))
ToCome == IF at = "idle" \/ (at = "broadcast" /\ waiting) THEN 0 ELSE 1

OneTransactARun ==
  /\ runs \in 0 .. MaxRuns
  /\ \A t \in Token : spends[t] + Queued(t) + ToCome <= runs

HInv == Balances /\ Learned /\ OneTransactARun

LEMMA NoRunIsARun == NoRun \in Runs
<1>1. [t \in Tree |-> TRUE] \in [Tree -> BOOLEAN]
  OBVIOUS
<1> QED
  BY <1>1 DEF NoRun, Runs

LEMMA TransactsAreFinite ==
  ASSUME NEW p \in Seq(Txs), NEW t
  PROVE  /\ IsFiniteSet(Transacts(p, t)) /\ Cardinality(Transacts(p, t)) \in Nat
         /\ Transacts(p, t) \subseteq 1 .. Len(p)
<1>1. Len(p) \in Nat /\ DOMAIN p = 1 .. Len(p)
  OBVIOUS
<1>2. Transacts(p, t) \in SUBSET (1 .. Len(p))
  BY <1>1 DEF Transacts
<1>3. IsFiniteSet(1 .. Len(p))
  BY <1>1, FS_Interval
<1>4. IsFiniteSet(Transacts(p, t))
  BY <1>2, <1>3, FS_Subset
<1> QED
  BY <1>2, <1>4, FS_CardinalityType

\* Who a transaction belongs to is nothing to the chain.
LEMMA AbandonedIsQueued ==
  ASSUME NEW p \in Seq(Txs)
  PROVE  Abandon(p) \in Seq(Txs) /\ \A t : Transacts(Abandon(p), t) = Transacts(p, t)
<1>1. Len(p) \in Nat /\ DOMAIN p = 1 .. Len(p) /\ \A i \in 1 .. Len(p) : p[i] \in Txs
  OBVIOUS
<1>2. Abandon(p) = [i \in 1 .. Len(p) |-> [p[i] EXCEPT !.ours = FALSE]]
  BY <1>1 DEF Abandon
<1>3. \A tx \in Txs : LET left == [tx EXCEPT !.ours = FALSE]
                      IN  left \in Txs /\ left.leg = tx.leg /\ left.token = tx.token
  BY DEF Txs
<1>4. Abandon(p) \in Seq(Txs)
  BY <1>1, <1>2, <1>3
<1>5. \A i \in 1 .. Len(p) : Abandon(p)[i].leg = p[i].leg /\ Abandon(p)[i].token = p[i].token
  BY <1>1, <1>2, <1>3
<1>6. DOMAIN Abandon(p) = DOMAIN p
  BY <1>1, <1>2
<1> QED
  BY <1>1, <1>4, <1>5, <1>6 DEF Transacts

\* One transaction more queues one transact more at most, of its own token.
LEMMA AppendedIsQueued ==
  ASSUME NEW p \in Seq(Txs), NEW tx \in Txs
  PROVE  /\ Append(p, tx) \in Seq(Txs)
         /\ \A t : Cardinality(Transacts(Append(p, tx), t))
                     <= Cardinality(Transacts(p, t)) + (IF tx.leg = "broadcast" THEN 1 ELSE 0)
<1> DEFINE q == Append(p, tx)
           n == Len(p) + 1
<1>1. /\ q \in Seq(Txs) /\ DOMAIN q = 1 .. n /\ DOMAIN p = 1 .. Len(p) /\ q[n] = tx
      /\ \A i \in DOMAIN p : q[i] = p[i]
      /\ \A i \in DOMAIN q : i = n \/ i \in DOMAIN p
  OBVIOUS
<1> HIDE DEF q, n
<1>2. ASSUME NEW t
      PROVE  Cardinality(Transacts(q, t))
               <= Cardinality(Transacts(p, t)) + (IF tx.leg = "broadcast" THEN 1 ELSE 0)
  <2>1. IsFiniteSet(Transacts(p, t)) /\ Cardinality(Transacts(p, t)) \in Nat
    BY TransactsAreFinite
  <2>2. CASE tx.leg = "broadcast"
    <3>1. Transacts(q, t) \in SUBSET (Transacts(p, t) \cup {n})
      BY <1>1 DEF Transacts
    <3>2. /\ IsFiniteSet(Transacts(p, t) \cup {n})
          /\ Cardinality(Transacts(p, t) \cup {n})
               = IF n \in Transacts(p, t) THEN Cardinality(Transacts(p, t))
                                          ELSE Cardinality(Transacts(p, t)) + 1
      BY <2>1, FS_AddElement
    <3>3. Cardinality(Transacts(q, t)) <= Cardinality(Transacts(p, t) \cup {n})
      BY <3>1, <3>2, FS_Subset
    <3>4. Cardinality(Transacts(q, t)) \in Nat
      BY <1>1, TransactsAreFinite
    <3> QED
      BY <2>1, <2>2, <3>2, <3>3, <3>4
  <2>3. CASE tx.leg # "broadcast"
    <3>1. Transacts(q, t) \in SUBSET Transacts(p, t)
      BY <1>1, <2>3 DEF Transacts
    <3>2. Cardinality(Transacts(q, t)) <= Cardinality(Transacts(p, t))
      BY <2>1, <3>1, FS_Subset
    <3> QED
      BY <2>1, <2>3, <3>2
  <2> QED
    BY <2>2, <2>3
<1> QED
  BY <1>1, <1>2 DEF q

\* What is mined is not queued any more.
LEMMA MinedIsNotQueued ==
  ASSUME NEW p \in Seq(Txs), p # <<>>
  PROVE  /\ Tail(p) \in Seq(Txs) /\ Head(p) \in Txs
         /\ \A t : Cardinality(Transacts(Tail(p), t))
                     + (IF Head(p).leg = "broadcast" /\ Head(p).token = t THEN 1 ELSE 0)
                       <= Cardinality(Transacts(p, t))
<1> DEFINE q == Tail(p)
<1>1. /\ q \in Seq(Txs) /\ Head(p) \in Txs /\ Head(p) = p[1] /\ 1 \in DOMAIN p
      /\ \A i \in DOMAIN q : i \in Nat /\ i + 1 \in DOMAIN p /\ i + 1 # 1 /\ q[i] = p[i + 1]
  OBVIOUS
<1> HIDE DEF q
<1>2. ASSUME NEW t
      PROVE  Cardinality(Transacts(q, t))
               + (IF Head(p).leg = "broadcast" /\ Head(p).token = t THEN 1 ELSE 0)
                 <= Cardinality(Transacts(p, t))
  <2> DEFINE A == Transacts(q, t)
             B == Transacts(p, t)
             shift == [i \in A |-> i + 1]
  <2>1. IsFiniteSet(B) /\ Cardinality(B) \in Nat /\ Cardinality(A) \in Nat
    BY <1>1, TransactsAreFinite
  <2>2. IsFiniteSet(B \ {1})
        /\ Cardinality(B \ {1}) = IF 1 \in B THEN Cardinality(B) - 1 ELSE Cardinality(B)
    BY <2>1, FS_RemoveElement
  <2>3. 1 \in B <=> Head(p).leg = "broadcast" /\ Head(p).token = t
    BY <1>1 DEF Transacts
  <2>4. \A i \in A : i \in Nat /\ i + 1 \in B \ {1}
    BY <1>1 DEF Transacts
  <2> HIDE DEF A, B
  <2>5. shift \in [A -> B \ {1}] /\ \A i, j \in A : shift[i] = shift[j] => i = j
    BY <2>4
  <2>6. shift \in Injection(A, B \ {1})
    <3>1. DOMAIN shift = A
      OBVIOUS
    <3> HIDE DEF shift
    <3> QED
      BY <2>5, <3>1 DEF Injection, IsInjective
  <2> HIDE DEF shift
  <2>7. Cardinality(A) <= Cardinality(B \ {1})
    BY <2>2, <2>6, FS_Injection
  <2> QED
    BY <2>1, <2>2, <2>3, <2>7 DEF A, B
<1> QED
  BY <1>1, <1>2 DEF q

-----------------------------------------------------------------------------
(***************************************************************************)
(* A step that neither sends nor mines: the pool is what it was, its       *)
(* transactions abandoned or not, and the run has no more to come.         *)
(***************************************************************************)
Quiet == UNCHANGED <<wei, units, allowance, notes, spends>> /\ pool' \in {pool, Abandon(pool)}

LEMMA QuietIs ==
  ASSUME HInv, Quiet
  PROVE  pool' \in Seq(Txs) /\ \A t : Queued(t)' = Queued(t)
<1>1. pool \in Seq(Txs)
  BY DEF HInv, Balances
<1>2. pool' \in Seq(Txs) /\ \A t : Transacts(pool', t) = Transacts(pool, t)
  BY <1>1, AbandonedIsQueued DEF Quiet
<1> QED
  BY <1>2 DEF Queued

LEMMA QuietKeepsHInv ==
  ASSUME HInv, Quiet, at # "idle", UNCHANGED runs, needs' \in U128 \cup {Unset},
         (at = "broadcast" /\ waiting) => at' = "idle", Learned'
  PROVE  HInv'
<1>1. Balances'
  BY QuietIs DEF Quiet, HInv, Balances
<1>2. OneTransactARun'
  <2>1. ToCome' \in {0, 1} /\ ToCome \in {0, 1} /\ (ToCome = 0 => ToCome' = 0)
    BY DEF ToCome
  <2>2. \A t \in Token : spends[t] \in Nat /\ Queued(t) \in Nat
    BY TransactsAreFinite DEF HInv, Balances, Queued
  <2>3. runs \in Nat /\ \A t \in Token : spends[t] + Queued(t) + ToCome <= runs
    BY DEF HInv, OneTransactARun
  <2>4. ASSUME NEW t \in Token PROVE spends[t] + Queued(t) + ToCome' <= runs
    BY <2>1, <2>2, <2>3
  <2>5. \A t \in Token : Queued(t)' = Queued(t)
    BY QuietIs
  <2>6. spends' = spends /\ runs' = runs
    BY DEF Quiet
  <2> QED
    BY <2>4, <2>5, <2>6 DEF HInv, OneTransactARun
<1> QED
  BY <1>1, <1>2 DEF HInv

LEMMA OverIsLearned ==
  ASSUME Over
  PROVE  Learned'
BY NoRunIsARun DEF Over, Learned

LEMMA StartKeepsHInv ==
  ASSUME HInv, NEW q \in Questions, Start(q)
  PROVE  HInv'
<1>1. /\ at = "idle" /\ runs < MaxRuns /\ runs' = runs + 1 /\ at' = "survey"
      /\ run' = [NoRun EXCEPT !.q = q] /\ needs' = Unset /\ Quiet
  BY DEF Start, chain, Quiet
<1>2. Balances'
  BY <1>1, QuietIs DEF Quiet, HInv, Balances
<1>3. Learned'
  <2>1. run' \in Runs /\ run'.q = q
    BY <1>1, NoRunIsARun DEF Runs
  <2> QED
    BY <1>1, <2>1 DEF Learned
<1>4. OneTransactARun'
  <2>1. ToCome = 0 /\ ToCome' = 1
    BY <1>1 DEF ToCome
  <2>2. \A t \in Token : spends[t] \in Nat /\ Queued(t) \in Nat
    BY TransactsAreFinite DEF HInv, Balances, Queued
  <2>3. runs \in 0 .. MaxRuns /\ MaxRuns \in Nat /\ \A t \in Token : spends[t] + Queued(t) <= runs
    BY <2>1, <2>2, LiveSendAssumption DEF HInv, OneTransactARun
  <2>4. ASSUME NEW t \in Token PROVE spends[t] + Queued(t) + 1 <= runs + 1
    BY <2>2, <2>3
  <2>5. runs' \in 0 .. MaxRuns
    BY <1>1, <2>3
  <2>6. spends' = spends /\ \A t \in Token : Queued(t)' = Queued(t)
    BY <1>1, QuietIs DEF Quiet
  <2> QED
    BY <1>1, <2>1, <2>4, <2>5, <2>6 DEF OneTransactARun
<1> QED
  BY <1>2, <1>3, <1>4 DEF HInv

LEMMA SurveyIsTyped ==
  ASSUME HInv, at = "survey"
  PROVE  InTree \in Surveys
<1>1. notes \in [Token -> Nat]
  BY DEF HInv, Balances
<1>2. CASE run.q.named
  <2>1. Candidates = <<"erc20">> /\ DOMAIN Candidates = {1}
    BY <1>2 DEF Candidates
  <2>2. InTree = [i \in {1} |-> [token |-> "erc20", units |-> notes["erc20"]]]
    BY <2>1 DEF InTree
  <2> QED
    BY <1>1, <2>2 DEF Surveys, Token
<1>3. CASE ~run.q.named
  <2>1. Candidates = <<"erc20", "wrapped">> /\ DOMAIN Candidates = {1, 2}
    BY <1>3 DEF Candidates
  <2>2. \A i \in {1, 2} : Candidates[i] \in Token
    BY <2>1 DEF Token
  <2>3. InTree \in [{1, 2} -> [token : Token, units : Nat]]
    BY <1>1, <2>1, <2>2 DEF InTree
  <2> QED
    BY <2>3 DEF Surveys
<1> QED
  BY <1>2, <1>3

LEMMA SurveyKeepsHInv ==
  ASSUME HInv, SurveyFails \/ \E roots \in [Tree -> BOOLEAN] : SurveyCompletes(roots)
  PROVE  HInv'
<1>1. /\ at = "survey" /\ at' = "funding" /\ UNCHANGED <<runs, needs>> /\ Quiet
  BY DEF SurveyFails, SurveyCompletes, chain, Quiet
<1>2. run' \in Runs /\ run'.q = run.q
  <2>1. run \in Runs /\ spends \in [Token -> Nat] /\ InTree \in Surveys
    BY <1>1, SurveyIsTyped DEF HInv, Learned, Balances
  <2>2. \/ run' = run
        \/ \E roots \in [Tree -> BOOLEAN] :
             \/ run' = [run EXCEPT !.shielded = InTree, !.roots = roots, !.spends = spends]
             \/ run' = [run EXCEPT !.roots = roots]
    BY DEF SurveyFails, SurveyCompletes
  <2> QED
    BY <2>1, <2>2 DEF Runs
<1>3. Learned'
  BY <1>1, <1>2 DEF HInv, Learned
<1> QED
  BY <1>1, <1>3, QuietKeepsHInv DEF HInv, Balances

\* What plan chooses is a token, and of a note what the survey found of it.
LEMMA ChosenIsTyped ==
  ASSUME NEW p, NEW a, NEW shown \in Surveys \cup {<<>>}
  PROVE  LET answer == Plan(p, a, shown)
         IN  /\ answer.kind = "spend" => answer.token \in Token /\ answer.units \in Nat
             /\ answer.kind = "shield" => answer.token \in Token
<1> DEFINE answer == Plan(p, a, shown)
           first == FirstNote(shown)
<1>1. Spendable(shown) # {} => first.token \in Token /\ first.units \in Nat
  <2>1. SUFFICES ASSUME Spendable(shown) # {} PROVE first.token \in Token /\ first.units \in Nat
    OBVIOUS
  <2>2. shown # <<>> => shown \in Surveys
    OBVIOUS
  <2>3. Spendable(<<>>) = {}
    BY DEF Spendable
  <2>4. shown \in Surveys
    BY <2>1, <2>2, <2>3
  <2>5. /\ Spendable(shown) \subseteq {1, 2} /\ Spendable(shown) \subseteq DOMAIN shown
        /\ \A i \in DOMAIN shown : shown[i] \in [token : Token, units : Nat]
    BY <2>4 DEF Surveys, Spendable
  <2>6. \E i \in Spendable(shown) : \A j \in Spendable(shown) : i <= j
    <3>1. CASE 1 \in Spendable(shown)
      BY <2>5, <3>1
    <3>2. CASE 1 \notin Spendable(shown)
      <4>1. Spendable(shown) = {2}
        BY <2>1, <2>5, <3>2
      <4> QED
        BY <4>1
    <3> QED
      BY <3>1, <3>2
  <2>7. \E i \in DOMAIN shown : first = shown[i]
    BY <2>5, <2>6 DEF FirstNote
  <2> QED
    BY <2>5, <2>7
<1> HIDE DEF first
<1>2. \/ \E wei_ : answer = Ask(wei_)
      \/ Spendable(shown) # {} /\ answer = SpendNote(first)
      \/ \E token \in Token : \E u, w : answer = ShieldUnits(token, u, w)
  BY DEF Plan, PlanShield, Token, first
<1> HIDE DEF answer
<1>3. CASE \E wei_ : answer = Ask(wei_)
  BY <1>3 DEF Ask, answer
<1>4. CASE Spendable(shown) # {} /\ answer = SpendNote(first)
  BY <1>1, <1>4 DEF SpendNote, answer
<1>5. CASE \E token \in Token : \E u, w : answer = ShieldUnits(token, u, w)
  BY <1>5 DEF ShieldUnits, answer
<1> QED
  BY <1>2, <1>3, <1>4, <1>5

LEMMA FundingKeepsHInv ==
  ASSUME IInv, HInv, FundingFails \/ \E quoted \in {fee, Unset} : Funding(quoted)
  PROVE  HInv'
<1>1. at = "funding" /\ UNCHANGED runs /\ Quiet
  BY DEF FundingFails, Funding, chain, Quiet
<1>2. needs \in U128 \cup {Unset}
  BY DEF HInv, Balances
<1>3. ASSUME Over, needs' \in U128 \cup {Unset}
      PROVE  HInv'
  BY <1>1, <1>3, OverIsLearned, QuietKeepsHInv
<1>4. CASE FundingFails
  BY <1>2, <1>3, <1>4 DEF FundingFails, Red
<1>5. ASSUME NEW quoted \in {fee, Unset}, Funding(quoted)
      PROVE  HInv'
  <2> DEFINE p == PurseNow(quoted)
             answered == Plan(p, run.q.asked, Surveyed)
  <2>1. IsPaidFor(answered, wei, quoted, WantWrapped(run.q.asked))
    <3> DEFINE e == units["erc20"]
               v == IF run.q.named THEN Unset ELSE units["wrapped"]
    <3>1. p = [wei |-> wei, erc20 |-> e, wrapped |-> v, fee |-> quoted]
      BY DEF PurseNow
    <3>2. fee \in Nat /\ wei \in Int /\ run.q \in Questions
      BY <1>1, FeesAreAmounts DEF IInv, Shape, U128, HInv, Balances, Learned
    <3>3. e \in Nat /\ v \in Nat \cup {Unset} /\ quoted \in Nat \cup {Unset}
      BY <3>2 DEF HInv, Balances, Token
    <3> HIDE DEF p, e, v
    <3> QED
      BY <3>1, <3>2, <3>3, PlanIs
  <2>2. run.shielded # Unset =>
          /\ answered.kind = "spend" => answered.token \in Token /\ answered.units \in Nat
          /\ answered.kind = "shield" => answered.token \in Token
    <3>1. Surveyed \in Surveys \cup {<<>>}
      BY DEF Surveyed, HInv, Learned, Runs
    <3> HIDE DEF p
    <3> QED
      BY <3>1, ChosenIsTyped
  <2>3. \/ answered.kind = "ask" /\ needs' = answered.wei /\ Over
        \/ needs' = needs /\ Over
        \/ /\ answered.kind # "ask" /\ needs' = needs /\ run' = Chosen(answered)
           /\ run.shielded # Unset /\ at' = AfterFunding(answered)
    BY <1>5 DEF Funding, Red, Green
  <2> HIDE DEF answered, p
  <2>4. CASE answered.kind = "ask" /\ needs' = answered.wei /\ Over
    BY <1>3, <2>1, <2>4 DEF IsPaidFor
  <2>5. CASE needs' = needs /\ Over
    BY <1>2, <1>3, <2>5
  <2>6. CASE /\ answered.kind # "ask" /\ needs' = needs /\ run' = Chosen(answered)
             /\ run.shielded # Unset /\ at' = AfterFunding(answered)
    <3>1. run' \in Runs /\ run'.q = run.q /\ run'.token \in Token
      <4>1. run \in Runs
        BY DEF HInv, Learned
      <4>2. CASE answered.kind = "spend"
        BY <2>2, <2>6, <4>1, <4>2 DEF Chosen, Runs
      <4>3. CASE answered.kind = "shield"
        BY <2>1, <2>2, <2>6, <4>1, <4>3 DEF Chosen, Runs, IsPaidFor
      <4> QED
        BY <2>1, <2>6, <4>2, <4>3 DEF IsPaidFor
    <3>2. Learned'
      BY <1>1, <3>1 DEF HInv, Learned
    <3> QED
      BY <1>1, <1>2, <2>6, <3>2, QuietKeepsHInv
  <2> QED
    BY <2>3, <2>4, <2>5, <2>6
<1> QED
  BY <1>4, <1>5

\* A leg that sends nothing of its own and passes on, or ends, the run.
LEMMA PassingKeepsHInv ==
  ASSUME IInv, HInv,
         \/ \E l \in Broadcasts : Refused(l) \/ WaitFails(l)
         \/ \E l \in Broadcasts \ {"broadcast"} : \E next : WaitSucceeds(l, next)
         \/ AllowanceSuffices
         \/ \E answers \in BOOLEAN : ShieldGate(answers)
         \/ BroadcastLands
         \/ Dies
  PROVE  HInv'
<1>1. needs' \in U128 \cup {Unset}
  <2>1. needs' = needs
    BY DEF Refused, WaitFails, WaitSucceeds, AllowanceSuffices, ShieldGate, BroadcastLands, Dies
  <2> QED
    BY <2>1 DEF HInv, Balances
<1>2. /\ at # "idle" /\ UNCHANGED runs /\ Quiet
      /\ Over \/ (run' = run /\ at \notin {"survey", "funding", "broadcast"})
  BY DEF Refused, WaitFails, WaitSucceeds, AllowanceSuffices, ShieldGate, BroadcastLands, Dies,
         Red, Green, chain, Quiet, Broadcasts
<1>3. CASE Over
  <2>1. at' = "idle"
    BY <1>3 DEF Over
  <2> QED
    BY <1>1, <1>2, <1>3, <2>1, OverIsLearned, QuietKeepsHInv
<1>4. CASE run' = run /\ at \notin {"survey", "funding", "broadcast"}
  <2>1. Learned'
    BY <1>2, <1>4 DEF HInv, Learned
  <2> QED
    BY <1>1, <1>2, <1>4, <2>1, QuietKeepsHInv
<1> QED
  BY <1>2, <1>3, <1>4

LEMMA ReadingLegsKeepHInv ==
  ASSUME IInv, HInv, \/ \E roots \in [Tree -> BOOLEAN] : Resync(roots)
                     \/ Note
                     \/ \E ops \in Operations : Transfer(ops)
                     \/ TransfersNothing
                     \/ RootOnChain
  PROVE  HInv'
<1>1. /\ at \in {"resync", "note", "transfer", "root-on-chain"}
      /\ UNCHANGED <<runs, needs>> /\ Quiet
  BY DEF Resync, Note, Transfer, TransfersNothing, RootOnChain, chain, Quiet
<1>2. run \in Runs /\ run.q \in Questions /\ run.token \in Token
  BY <1>1 DEF HInv, Learned
<1>3. Over \/ (run' \in Runs /\ run'.q = run.q /\ run'.token = run.token)
  <2>1. ASSUME NEW roots \in [Tree -> BOOLEAN], Resync(roots)
        PROVE  Over \/ (run' \in Runs /\ run'.q = run.q /\ run'.token = run.token)
    <3>1. notes[run.token] \in Nat /\ spends \in [Token -> Nat]
      BY <1>2 DEF HInv, Balances
    <3>2. Over \/ run' = [run EXCEPT !.roots = roots, !.balance = notes[run.token],
                                     !.spends = spends]
      BY <2>1 DEF Resync, Red
    <3> QED
      BY <1>2, <3>1, <3>2 DEF Runs
  <2>2. ASSUME NEW ops \in Operations, Transfer(ops)
        PROVE  Over \/ (run' \in Runs /\ run'.q = run.q /\ run'.token = run.token)
    <3> DEFINE wanted == IF run.q.transfer = Unset THEN run.balance \div 2 ELSE run.q.transfer
               value == Smaller(wanted, run.balance)
               asked == run.roots[Head(ops)]
               known == \A i \in DOMAIN ops : run.roots[ops[i]]
    <3>1. Over \/ run' = [run EXCEPT !.value = value, !.asked = asked, !.known = known]
      BY <2>2 DEF Transfer, Red
    <3>2. run.balance \in Nat /\ asked \in BOOLEAN /\ known \in BOOLEAN
      <4>1. run.roots \in [Tree -> BOOLEAN]
        BY <1>2 DEF Runs
      <4>2. Head(ops) \in Tree
        BY DEF Operations
      <4> QED
        BY <1>2, <4>1, <4>2 DEF Runs
    <3> HIDE DEF asked, known
    <3>3. run.q.transfer \in U128 \cup {Unset}
      BY <1>2, LiveSendAssumption
    <3>4. wanted \in Nat
      BY <3>2, <3>3, FundingAssumption DEF U128
    <3> HIDE DEF wanted
    <3>5. value \in Nat
      BY <3>2, <3>4 DEF Smaller
    <3> HIDE DEF value
    <3> QED
      BY <1>2, <3>1, <3>2, <3>5 DEF Runs
  <2>3. ASSUME TransfersNothing
        PROVE  Over \/ (run' \in Runs /\ run'.q = run.q /\ run'.token = run.token)
    BY <1>2, <2>3 DEF TransfersNothing, Runs
  <2> QED
    BY <1>2, <2>1, <2>2, <2>3 DEF Note, RootOnChain, Red
<1>4. Learned'
  BY <1>1, <1>2, <1>3, OverIsLearned DEF Learned
<1> QED
  BY <1>1, <1>4, QuietKeepsHInv DEF HInv, Balances

LEMMA TxIsTyped ==
  ASSUME IInv, HInv, NEW l \in Broadcasts, at = l
  PROVE  /\ Tx(l) \in Txs /\ Tx(l).leg = l
         /\ [Tx(l) EXCEPT !.ours = FALSE] \in Txs /\ [Tx(l) EXCEPT !.ours = FALSE].leg = l
<1>1. run \in Runs /\ run.token \in Token
  BY DEF HInv, Learned, Broadcasts
<1>2. 2 * fee + Tip \in Nat
  <2>1. fee \in Nat /\ Tip \in Nat
    BY FeesAreAmounts, LiveSendAssumption DEF IInv, Shape, U128
  <2> QED
    BY <2>1
<1> DEFINE amount == CASE l = "wrap" -> run.wrap
                       [] l \in {"approve", "shield"} -> run.amount
                       [] l = "broadcast" -> run.value
<1>3. amount \in Nat
  BY <1>1 DEF Runs, Broadcasts
<1>4. Tx(l) = [leg |-> l, ceiling |-> 2 * fee + Tip, ours |-> TRUE, token |-> run.token,
               amount |-> amount, known |-> run.known, spends |-> run.spends]
  BY DEF Tx
<1> HIDE DEF amount
<1>5. Tx(l) \in Txs /\ Tx(l).leg = l
  BY <1>1, <1>2, <1>3, <1>4 DEF Txs, Runs
<1> QED
  BY <1>5 DEF Txs

LEMMA SendsKeepsHInv ==
  ASSUME IInv, HInv, NEW l \in Broadcasts, NEW replied \in BOOLEAN, Sends(l, replied)
  PROVE  HInv'
<1>1. /\ at = l /\ ~waiting /\ UNCHANGED <<wei, units, allowance, notes, spends, runs, needs>>
      /\ \/ /\ pool' = Append(pool, Tx(l)) /\ waiting' = TRUE /\ UNCHANGED <<at, run>>
         \/ pool' = Append(Abandon(pool), [Tx(l) EXCEPT !.ours = FALSE]) /\ Over
  BY DEF Sends, Red
<1>2. PICK p \in {pool, Abandon(pool)}, tx \in Txs : pool' = Append(p, tx) /\ tx.leg = l
  BY <1>1, TxIsTyped
<1>3. p \in Seq(Txs) /\ pool \in Seq(Txs) /\ \A t : Transacts(p, t) = Transacts(pool, t)
  BY AbandonedIsQueued DEF HInv, Balances
<1>4. Balances'
  <2>1. pool' \in Seq(Txs)
    BY <1>2, <1>3, AppendedIsQueued
  <2> QED
    BY <1>1, <2>1 DEF HInv, Balances
<1>5. Learned'
  BY <1>1, OverIsLearned DEF HInv, Learned
<1>6. OneTransactARun'
  <2>1. /\ ToCome = 1 /\ ToCome' \in {0, 1} /\ (l = "broadcast" => ToCome' = 0)
    BY <1>1 DEF ToCome, Broadcasts, Over
  <2>2. ASSUME NEW t \in Token
        PROVE  /\ spends[t] \in Nat /\ Queued(t) \in Nat /\ Queued(t)' \in Nat
               /\ Queued(t)' <= Queued(t) + (IF l = "broadcast" THEN 1 ELSE 0)
    BY <1>2, <1>3, <1>4, TransactsAreFinite, AppendedIsQueued DEF HInv, Balances, Queued
  <2>3. runs \in Nat /\ \A t \in Token : spends[t] + Queued(t) + 1 <= runs
    BY <2>1 DEF HInv, OneTransactARun
  <2>4. ASSUME NEW t \in Token PROVE spends[t] + Queued(t)' + ToCome' <= runs
    BY <2>1, <2>2, <2>3
  <2> QED
    BY <1>1, <2>4 DEF HInv, OneTransactARun
<1> QED
  BY <1>4, <1>5, <1>6 DEF HInv

\* What a transaction costs is there: it was held back at a higher price.
LEMMA CostIsHeld ==
  ASSUME NEW gas \in {GasWrap, GasApprove, GasShield, GasTransact}, NEW ceiling \in Nat,
         NEW price \in Nat, price <= ceiling, NEW value \in Nat, NEW w \in Nat,
         w >= WithHeadroom(gas) * ceiling + value
  PROVE  gas * price \in Nat /\ w - gas * price - value \in Nat /\ w - gas * price \in Nat
<1> DEFINE h == WithHeadroom(gas)
<1>1. gas \in Nat /\ h \in Nat /\ gas <= h
  BY HeadroomIs, Gas
<1> HIDE DEF h
<1>2. gas * price \in Nat /\ gas * price <= gas * ceiling /\ gas * ceiling \in Nat
  BY <1>1
<1>3. h * ceiling \in Nat /\ gas * ceiling <= h * ceiling
  BY <1>1
<1>4. gas * price + value <= w
  BY <1>2, <1>3 DEF h
<1> QED
  BY <1>2, <1>4

LEMMA MineKeepsHInv ==
  ASSUME IInv, HInv, Mine
  PROVE  HInv'
<1> DEFINE tx == Head(pool)
           gas == GasOf(tx.leg)
           value == IF tx.leg = "wrap" THEN tx.amount ELSE 0
           price == Smaller(tx.ceiling, fee + Tip)
           t == tx.token
           done == Succeeds(tx)
<1>1. /\ pool # <<>> /\ pool' = Tail(pool) /\ UNCHANGED <<runs, at, waiting, run, needs>>
      /\ wei >= WithHeadroom(gas) * tx.ceiling + value
  BY DEF Mine
<1>2. IF done
        THEN /\ wei' = wei - gas * price - value
             /\ units' = [units EXCEPT ![t] = CASE tx.leg = "wrap" -> units[t] + tx.amount
                                                [] tx.leg = "shield" -> units[t] - tx.amount
                                                [] OTHER -> units[t]]
             /\ allowance' = [allowance EXCEPT ![t] =
                                CASE tx.leg = "approve" -> tx.amount
                                  [] tx.leg = "shield" -> allowance[t] - tx.amount
                                  [] OTHER -> allowance[t]]
             /\ notes' = [notes EXCEPT ![t] =
                            CASE tx.leg = "shield" -> notes[t] + SatSub(tx.amount, ShieldFee)
                              [] tx.leg = "broadcast" -> notes[t] - tx.amount
                              [] OTHER -> notes[t]]
             /\ spends' = [spends EXCEPT ![t] = IF tx.leg = "broadcast" /\ tx.spends # Unset
                                                 THEN spends[t] + 1 ELSE spends[t]]
        ELSE /\ wei' = wei - gas * price
             /\ UNCHANGED <<units, allowance, notes, spends>>
  BY DEF Mine
<1>3. /\ pool \in Seq(Txs) /\ units \in [Token -> Nat] /\ allowance \in [Token -> Nat]
      /\ notes \in [Token -> Nat] /\ spends \in [Token -> Nat] /\ wei \in U128
  BY DEF HInv, Balances
<1>4. /\ pool' \in Seq(Txs) /\ tx \in Txs
      /\ \A u : Queued(u)' + (IF tx.leg = "broadcast" /\ tx.token = u THEN 1 ELSE 0) <= Queued(u)
  BY <1>1, <1>3, MinedIsNotQueued DEF Queued
<1>5. /\ tx.leg = "shield" /\ done => tx.amount <= allowance[t] /\ tx.amount <= units[t]
      /\ tx.leg = "broadcast" /\ done => tx.amount <= notes[t]
  BY DEF Succeeds
<1> HIDE DEF tx, done
<1>6. t \in Token /\ tx.amount \in Nat /\ tx.ceiling \in Nat /\ tx.leg \in Broadcasts
  BY <1>4 DEF Txs
<1> HIDE DEF t
<1>7. wei' \in U128
  <2>1. wei \in Nat /\ wei <= MaxU128 /\ MaxU128 \in Nat
    BY <1>3, Gas DEF U128
  <2>2. gas \in {GasWrap, GasApprove, GasShield, GasTransact}
    BY <1>6 DEF GasOf, Broadcasts
  <2>3. price \in Nat /\ price <= tx.ceiling
    <3>1. fee \in Nat /\ Tip \in Nat
      BY FeesAreAmounts, LiveSendAssumption DEF IInv, Shape, U128
    <3> QED
      BY <1>6, <3>1 DEF Smaller
  <2>4. value \in Nat
    BY <1>6
  <2> HIDE DEF gas, price, value
  <2>5. gas * price \in Nat /\ wei - gas * price - value \in Nat /\ wei - gas * price \in Nat
    BY <1>1, <1>6, <2>1, <2>2, <2>3, <2>4, CostIsHeld
  <2>6. wei' \in Nat /\ wei' <= wei
    BY <1>2, <2>1, <2>4, <2>5
  <2> QED
    BY <2>1, <2>6 DEF U128
<1> HIDE DEF gas, price, value
<1>8. /\ units' \in [Token -> Nat] /\ allowance' \in [Token -> Nat] /\ notes' \in [Token -> Nat]
      /\ spends' \in [Token -> Nat]
  <2>1. SUFFICES ASSUME done
                 PROVE  /\ units' \in [Token -> Nat] /\ allowance' \in [Token -> Nat]
                        /\ notes' \in [Token -> Nat] /\ spends' \in [Token -> Nat]
    BY <1>2, <1>3
  <2>2. /\ units[t] \in Nat /\ allowance[t] \in Nat /\ notes[t] \in Nat /\ spends[t] \in Nat
    BY <1>3, <1>6
  <2>3. units' \in [Token -> Nat]
    <3>1. CASE tx.leg = "wrap"
      BY <1>2, <1>3, <1>6, <2>1, <2>2, <3>1
    <3>2. CASE tx.leg = "shield"
      <4>1. units[t] - tx.amount \in Nat
        BY <1>5, <1>6, <2>1, <2>2, <3>2
      <4> QED
        BY <1>2, <1>3, <2>1, <3>2, <4>1
    <3> QED
      BY <1>2, <1>3, <2>1, <2>2, <3>1, <3>2
  <2>4. allowance' \in [Token -> Nat]
    <3>1. CASE tx.leg = "approve"
      BY <1>2, <1>3, <1>6, <2>1, <3>1
    <3>2. CASE tx.leg = "shield"
      <4>1. allowance[t] - tx.amount \in Nat
        BY <1>5, <1>6, <2>1, <2>2, <3>2
      <4> QED
        BY <1>2, <1>3, <2>1, <3>2, <4>1
    <3> QED
      BY <1>2, <1>3, <2>1, <2>2, <3>1, <3>2
  <2>5. notes' \in [Token -> Nat]
    <3>1. CASE tx.leg = "shield"
      <4>1. notes[t] + SatSub(tx.amount, ShieldFee) \in Nat
        BY <1>6, <2>2, LiveSendAssumption DEF SatSub
      <4> QED
        BY <1>2, <1>3, <2>1, <3>1, <4>1
    <3>2. CASE tx.leg = "broadcast"
      <4>1. notes[t] - tx.amount \in Nat
        BY <1>5, <1>6, <2>1, <2>2, <3>2
      <4> QED
        BY <1>2, <1>3, <2>1, <3>2, <4>1
    <3> QED
      BY <1>2, <1>3, <2>1, <2>2, <3>1, <3>2
  <2>6. spends' \in [Token -> Nat]
    <3>1. CASE tx.leg = "broadcast"
      <4>1. spends[t] + 1 \in Nat
        BY <2>2
      <4> QED
        BY <1>2, <1>3, <2>1, <3>1, <4>1
    <3> QED
      BY <1>2, <1>3, <2>1, <2>2, <3>1
  <2> QED
    BY <2>3, <2>4, <2>5, <2>6
<1>9. Balances'
  BY <1>1, <1>4, <1>7, <1>8 DEF HInv, Balances
<1>10. OneTransactARun'
  <2>1. ToCome' = ToCome /\ ToCome \in {0, 1} /\ runs' = runs /\ runs \in Nat
    BY <1>1 DEF ToCome, HInv, OneTransactARun
  <2>2. ASSUME NEW u \in Token PROVE spends'[u] + Queued(u)' + ToCome <= runs
    <3>1. /\ spends[u] \in Nat /\ spends'[u] \in Nat /\ Queued(u) \in Nat /\ Queued(u)' \in Nat
      BY <1>3, <1>4, <1>8, TransactsAreFinite DEF Queued
    <3>2. spends'[u] <= spends[u] + (IF tx.leg = "broadcast" /\ tx.token = u THEN 1 ELSE 0)
      BY <1>2, <1>3, <1>6, <3>1, SMTT(20) DEF t
    <3>3. Queued(u)' + (IF tx.leg = "broadcast" /\ tx.token = u THEN 1 ELSE 0) <= Queued(u)
      BY <1>4
    <3>4. spends[u] + Queued(u) + ToCome <= runs
      BY DEF HInv, OneTransactARun
    <3> QED
      BY <2>1, <3>1, <3>2, <3>3, <3>4
  <2> QED
    BY <2>1, <2>2 DEF HInv, OneTransactARun
<1>11. Learned'
  BY <1>1 DEF HInv, Learned
<1> QED
  BY <1>9, <1>10, <1>11 DEF HInv

LEMMA OutsideKeepsHInv ==
  ASSUME HInv, TopUp \/ (\E f \in Fees : FeeMoves(f)) \/ UNCHANGED vars
  PROVE  HInv'
<1>1. UNCHANGED <<units, allowance, notes, spends, pool, runs, at, waiting, run>>
  BY DEF TopUp, FeeMoves, vars, chain
<1>2. wei' \in U128 /\ needs' \in U128 \cup {Unset}
  <2>1. /\ wei \in U128 /\ needs \in U128 \cup {Unset}
        /\ \/ UNCHANGED <<wei, needs>>
           \/ needs # Unset /\ wei' = Larger(wei, needs) /\ needs' = Unset
    BY DEF TopUp, FeeMoves, vars, chain, HInv, Balances
  <2> QED
    BY <2>1 DEF Larger
<1>3. Balances' /\ Learned'
  BY <1>1, <1>2 DEF HInv, Balances, Learned
<1>4. OneTransactARun'
  BY <1>1 DEF HInv, OneTransactARun, Queued, Transacts, ToCome
<1> QED
  BY <1>3, <1>4 DEF HInv

LEMMA InitEstablishesHInv == Init => HInv
<1> SUFFICES ASSUME Init PROVE HInv
  OBVIOUS
<1>1. StartWei \subseteq U128 /\ StartErc20 \subseteq Nat /\ MaxRuns \in Nat
  BY LiveSendAssumption, FundingAssumption DEF U128
<1>2. units \in [Token -> Nat]
  <2>1. units \in [erc20 : StartErc20, wrapped : {0}]
    BY DEF Init
  <2>2. units = [erc20 |-> units.erc20, wrapped |-> 0] /\ units.erc20 \in Nat
    BY <1>1, <2>1
  <2> QED
    BY <2>2 DEF Token
<1>3. allowance \in [Token -> Nat] /\ notes \in [Token -> Nat] /\ spends \in [Token -> Nat]
  BY DEF Init, Token
<1>4. Balances
  BY <1>1, <1>2, <1>3 DEF Init, Balances
<1>5. Learned
  BY NoRunIsARun DEF Init, Learned
<1>6. OneTransactARun
  <2>1. ToCome = 0
    BY DEF Init, ToCome
  <2>2. ASSUME NEW t \in Token PROVE spends[t] = 0 /\ Queued(t) = 0
    <3>1. Transacts(<<>>, t) = {}
      BY DEF Transacts
    <3>2. Transacts(pool, t) = {}
      BY <3>1 DEF Init
    <3>3. spends[t] = 0
      BY DEF Init, Token
    <3> QED
      BY <3>2, <3>3, FS_EmptySet DEF Queued
  <2> QED
    BY <1>1, <2>1, <2>2 DEF Init, OneTransactARun
<1> QED
  BY <1>4, <1>5, <1>6 DEF HInv

(***************************************************************************)
(* Every balance of the chain and everything a run holds is an amount,     *)
(* whatever runs before it left in the pool, and no more transacts are     *)
(* mined than there were runs: a run sends one at most.                    *)
(***************************************************************************)
THEOREM LiveSendHoldings == Spec => []HInv
<1>1. IInv /\ HInv /\ [Next]_vars => HInv'
  <2> SUFFICES ASSUME IInv, HInv, [Next]_vars PROVE HInv'
    OBVIOUS
  <2>1. /\ "wrap" \in Broadcasts /\ "approve" \in Broadcasts /\ "shield" \in Broadcasts
        /\ "broadcast" \in Broadcasts
    BY DEF Broadcasts
  <2>2. ASSUME Wrap \/ Approve \/ Shield \/ Broadcast PROVE HInv'
    BY <2>1, <2>2, SendsKeepsHInv, PassingKeepsHInv DEF Wrap, Approve, Shield, Broadcast
  <2>3. ASSUME RunStep PROVE HInv'
    BY <2>2, <2>3, SurveyKeepsHInv, FundingKeepsHInv, ReadingLegsKeepHInv DEF RunStep
  <2> QED
    BY <2>3, StartKeepsHInv, PassingKeepsHInv, MineKeepsHInv, OutsideKeepsHInv DEF Next
<1> QED
  BY <1>1, InitEstablishesHInv, LiveSendInvariant, PTL DEF Spec

(***************************************************************************)
(* The type invariant the runs check.                                      *)
(***************************************************************************)
THEOREM LiveSendTypeCorrect == Spec => []TypeOK
<1>1. IInv /\ HInv => TypeOK
  <2> SUFFICES ASSUME IInv, HInv PROVE TypeOK
    OBVIOUS
  <2>1. spends \in [Token -> 0 .. MaxRuns]
    <3>1. ASSUME NEW t \in Token PROVE spends[t] \in 0 .. MaxRuns
      <4>1. /\ spends[t] \in Nat /\ Queued(t) \in Nat /\ ToCome \in {0, 1}
            /\ runs \in 0 .. MaxRuns /\ spends[t] + Queued(t) + ToCome <= runs
        BY TransactsAreFinite DEF HInv, Balances, OneTransactARun, Queued, ToCome
      <4> QED
        BY <4>1, LiveSendAssumption
    <3> QED
      BY <3>1 DEF HInv, Balances
  <2>2. \A i \in DOMAIN pool :
          /\ pool[i].leg \in {"wrap", "approve", "shield", "broadcast"}
          /\ pool[i].token \in Token /\ pool[i].amount \in Nat
    <3>1. pool \in Seq(Txs)
      BY DEF HInv, Balances
    <3>2. \A i \in DOMAIN pool : pool[i] \in Txs
      BY <3>1
    <3> QED
      BY <3>2 DEF Txs, Broadcasts
  <2>3. {units, allowance, notes} \subseteq [Token -> Nat]
    BY DEF HInv, Balances
  <2> QED
    BY <2>1, <2>2, <2>3
    DEF TypeOK, IInv, Shape, Places, WaitsForOne, HInv, Balances, OneTransactARun
<1> QED
  BY <1>1, LiveSendInvariant, LiveSendHoldings, PTL

-----------------------------------------------------------------------------
(***************************************************************************)
(* Why every run ends: a run has so many steps left, and every one it      *)
(* makes, whichever way it goes, leaves it fewer; nothing the chain or the *)
(* operator does gives it more.  That a step is made is the fairness of    *)
(* RunEnds, which is TLC's.                                                *)
(***************************************************************************)
Behind(place) ==
  CASE place = "idle" -> 0
    [] place = "broadcast" -> 2
    [] place = "root-on-chain" -> 3
    [] place = "transfer" -> 4
    [] place = "note" -> 5
    [] place = "resync" -> 6
    [] place = "shield" -> 7
    [] place = "gate" -> 8
    [] place = "approve" -> 9
    [] place = "wrap" -> 10
    [] place = "funding" -> 11
    [] place = "survey" -> 12

StepsLeft == 2 * Behind(at) - (IF waiting THEN 1 ELSE 0)

\* No step of anybody's gives a run more to do, and each of its own leaves less.
RunsGoForward ==
  [][at # "idle" => /\ StepsLeft \in 1 .. 24
                    /\ StepsLeft' <= StepsLeft
                    /\ RunStep => StepsLeft' < StepsLeft]_vars

LEMMA BehindIs ==
  /\ Behind("idle") = 0
  /\ Behind("broadcast") = 2
  /\ Behind("root-on-chain") = 3
  /\ Behind("transfer") = 4
  /\ Behind("note") = 5
  /\ Behind("resync") = 6
  /\ Behind("shield") = 7
  /\ Behind("gate") = 8
  /\ Behind("approve") = 9
  /\ Behind("wrap") = 10
  /\ Behind("funding") = 11
  /\ Behind("survey") = 12
  /\ \A place \in Places : Behind(place) \in 0 .. 12 /\ (place # "idle" => Behind(place) >= 2)
<1>1. Behind("idle") = 0
  BY DEF Behind
<1>2. Behind("broadcast") = 2
  BY DEF Behind
<1>3. Behind("root-on-chain") = 3
  BY DEF Behind
<1>4. Behind("transfer") = 4
  BY DEF Behind
<1>5. Behind("note") = 5
  BY DEF Behind
<1>6. Behind("resync") = 6
  BY DEF Behind
<1>7. Behind("shield") = 7
  BY DEF Behind
<1>8. Behind("gate") = 8
  BY DEF Behind
<1>9. Behind("approve") = 9
  BY DEF Behind
<1>10. Behind("wrap") = 10
  BY DEF Behind
<1>11. Behind("funding") = 11
  BY DEF Behind
<1>12. Behind("survey") = 12
  BY DEF Behind
<1>13. ASSUME NEW place \in Places
       PROVE  Behind(place) \in 0 .. 12 /\ (place # "idle" => Behind(place) >= 2)
  BY <1>1, <1>2, <1>3, <1>4, <1>5, <1>6, <1>7, <1>8, <1>9, <1>10, <1>11, <1>12
     DEF Places, Legs
<1> QED
  BY <1>1, <1>2, <1>3, <1>4, <1>5, <1>6, <1>7, <1>8, <1>9, <1>10, <1>11, <1>12, <1>13

LEMMA StepsLeftIs ==
  ASSUME IInv
  PROVE  /\ StepsLeft \in 0 .. 24
         /\ at # "idle" => StepsLeft > 0
<1>1. at \in Places /\ waiting \in BOOLEAN /\ (waiting => at # "idle")
  BY DEF IInv, Shape, WaitsForOne, Broadcasts
<1>2. Behind(at) \in 0 .. 12 /\ (at # "idle" => Behind(at) >= 2)
  BY <1>1, BehindIs
<1> QED
  BY <1>1, <1>2 DEF StepsLeft

\* Where one step of a run can take it.
LEMMA RunStepGoes ==
  ASSUME IInv, RunStep
  PROVE  \/ at # "idle" /\ at' = "idle" /\ waiting' = FALSE
         \/ ~waiting /\ waiting' = TRUE /\ at' = at
         \/ /\ waiting' = FALSE
            /\ <<at, at'>> \in
                 {<<"survey", "funding">>, <<"funding", "transfer">>, <<"funding", "wrap">>,
                  <<"funding", "approve">>, <<"wrap", "approve">>, <<"approve", "gate">>,
                  <<"gate", "shield">>, <<"shield", "resync">>, <<"resync", "note">>,
                  <<"note", "transfer">>, <<"transfer", "root-on-chain">>,
                  <<"transfer", "broadcast">>, <<"root-on-chain", "broadcast">>}
<1> DEFINE Stops == at # "idle" /\ at' = "idle" /\ waiting' = FALSE
           Waits == ~waiting /\ waiting' = TRUE /\ at' = at
           Goes(a, b) == at = a /\ at' = b /\ waiting' = FALSE
<1>1. waiting \in BOOLEAN /\ (waiting => at \in Broadcasts)
  BY DEF IInv, Shape, WaitsForOne
<1>2. ASSUME NEW l \in Broadcasts, NEW replied \in BOOLEAN, Sends(l, replied)
      PROVE  Stops \/ Waits
  BY <1>2 DEF Sends, Red, Over, Broadcasts
<1>3. ASSUME NEW l \in Broadcasts, Refused(l) \/ WaitFails(l)
      PROVE  Stops
  BY <1>3 DEF Refused, WaitFails, Red, Over, Broadcasts
<1>4. /\ "wrap" \in Broadcasts /\ "approve" \in Broadcasts /\ "shield" \in Broadcasts
      /\ "broadcast" \in Broadcasts
  BY DEF Broadcasts
<1>5. SurveyFails => Goes("survey", "funding")
  BY <1>1 DEF SurveyFails, Broadcasts
<1>6. ASSUME NEW roots \in [Tree -> BOOLEAN], SurveyCompletes(roots)
      PROVE  Stops \/ Goes("survey", "funding")
  BY <1>1, <1>6 DEF SurveyCompletes, Red, Green, Over, Broadcasts
<1>7. FundingFails => Stops
  BY DEF FundingFails, Red, Over
<1>8. ASSUME NEW quoted \in {fee, Unset}, Funding(quoted)
      PROVE  \/ Stops
             \/ Goes("funding", "transfer") \/ Goes("funding", "wrap") \/ Goes("funding", "approve")
  <2> DEFINE answered == Plan(PurseNow(quoted), run.q.asked, Surveyed)
  <2>1. answered.kind \in {"ask", "spend", "shield"}
    BY PlanKinds
  <2>2. /\ at = "funding"
        /\ Over \/ (answered.kind # "ask" /\ Green("funding", AfterFunding(answered)))
    BY <1>8 DEF Funding, Red
  <2> HIDE DEF answered
  <2>3. CASE Over
    BY <2>2, <2>3 DEF Over
  <2>4. CASE answered.kind # "ask" /\ Green("funding", AfterFunding(answered))
    <3>1. AfterFunding(answered) \in {"transfer", "wrap", "approve"}
      BY <2>1, <2>4 DEF AfterFunding
    <3>2. at' = AfterFunding(answered) /\ waiting' = FALSE
      BY <2>4 DEF Green
    <3> QED
      BY <2>2, <3>1, <3>2
  <2> QED
    BY <2>2, <2>3, <2>4
<1>9. Wrap => Stops \/ Waits \/ Goes("wrap", "approve")
  BY <1>2, <1>3, <1>4 DEF Wrap, WaitSucceeds, Green
<1>10. Approve => Stops \/ Waits \/ Goes("approve", "gate")
  BY <1>2, <1>3, <1>4 DEF Approve, AllowanceSuffices, WaitSucceeds, Green
<1>11. ASSUME NEW answers \in BOOLEAN, ShieldGate(answers)
       PROVE  Stops \/ Goes("gate", "shield")
  BY <1>1, <1>11 DEF ShieldGate, Red, Over, Broadcasts
<1>12. Shield => Stops \/ Waits \/ Goes("gate", "shield") \/ Goes("shield", "resync")
  BY <1>2, <1>3, <1>4, <1>11 DEF Shield, WaitSucceeds, Green
<1>13. ASSUME NEW roots \in [Tree -> BOOLEAN], Resync(roots)
       PROVE  Stops \/ Goes("resync", "note")
  BY <1>13 DEF Resync, Red, Green, Over
<1>14. Note => Stops \/ Goes("note", "transfer")
  BY DEF Note, Red, Green, Over
<1>15. ASSUME TransfersNothing \/ \E ops \in Operations : Transfer(ops)
       PROVE  Stops \/ Goes("transfer", "root-on-chain") \/ Goes("transfer", "broadcast")
  BY <1>15 DEF TransfersNothing, Transfer, Red, Green, Over
<1>16. RootOnChain => Stops \/ Goes("root-on-chain", "broadcast")
  BY DEF RootOnChain, Red, Green, Over
<1>17. Broadcast => Stops \/ Waits
  BY <1>2, <1>3, <1>4 DEF Broadcast, BroadcastLands, Over
<1> HIDE DEF Stops, Waits, Goes
<1>18. \/ Stops \/ Waits
       \/ Goes("survey", "funding") \/ Goes("funding", "transfer") \/ Goes("funding", "wrap")
       \/ Goes("funding", "approve") \/ Goes("wrap", "approve") \/ Goes("approve", "gate")
       \/ Goes("gate", "shield") \/ Goes("shield", "resync") \/ Goes("resync", "note")
       \/ Goes("note", "transfer") \/ Goes("transfer", "root-on-chain")
       \/ Goes("transfer", "broadcast") \/ Goes("root-on-chain", "broadcast")
  BY <1>5, <1>6, <1>7, <1>8, <1>9, <1>10, <1>12, <1>13, <1>14, <1>15, <1>16, <1>17 DEF RunStep
<1> QED
  BY <1>18 DEF Stops, Waits, Goes

LEMMA RunStepsGoForward ==
  ASSUME IInv, RunStep
  PROVE  StepsLeft' \in Int /\ StepsLeft' < StepsLeft
<1>1. /\ waiting \in BOOLEAN
      /\ StepsLeft = 2 * Behind(at) - (IF waiting THEN 1 ELSE 0)
      /\ StepsLeft' = 2 * Behind(at') - (IF waiting' THEN 1 ELSE 0)
  BY DEF IInv, Shape, StepsLeft
<1>2. Behind(at) \in Nat
  BY BehindIs DEF IInv, Shape
<1>3. CASE at # "idle" /\ at' = "idle" /\ waiting' = FALSE
  BY <1>1, <1>3, StepsLeftIs, BehindIs
<1>4. CASE ~waiting /\ waiting' = TRUE /\ at' = at
  BY <1>1, <1>2, <1>4
<1>5. CASE /\ waiting' = FALSE
           /\ <<at, at'>> \in
                {<<"survey", "funding">>, <<"funding", "transfer">>, <<"funding", "wrap">>,
                 <<"funding", "approve">>, <<"wrap", "approve">>, <<"approve", "gate">>,
                 <<"gate", "shield">>, <<"shield", "resync">>, <<"resync", "note">>,
                 <<"note", "transfer">>, <<"transfer", "root-on-chain">>,
                 <<"transfer", "broadcast">>, <<"root-on-chain", "broadcast">>}
  <2>1. Behind(at') \in Nat /\ Behind(at) > Behind(at')
    BY <1>5, BehindIs
  <2> QED
    BY <1>1, <1>2, <1>5, <2>1
<1> QED
  BY <1>3, <1>4, <1>5, RunStepGoes

\* Every step of a run's own, whichever way it goes, brings it nearer to its
\* end, and no step of the chain's or the operator's takes it back: with the
\* fairness of FairSpec, why RunEnds (live_send_probe, live_send.rs) holds.
THEOREM RunsOnlyGoForward == Spec => RunsGoForward
<1> DEFINE Kept == at # "idle" => /\ StepsLeft \in 1 .. 24
                                  /\ StepsLeft' <= StepsLeft
                                  /\ RunStep => StepsLeft' < StepsLeft
<1>1. IInv /\ [Next]_vars => [Kept]_vars
  <2> SUFFICES ASSUME IInv, Next, at # "idle"
               PROVE  /\ StepsLeft \in 1 .. 24
                      /\ StepsLeft' <= StepsLeft
                      /\ RunStep => StepsLeft' < StepsLeft
    OBVIOUS
  <2>1. StepsLeft \in 1 .. 24
    BY StepsLeftIs
  <2>2. RunStep => StepsLeft' < StepsLeft /\ StepsLeft' \in Int
    BY RunStepsGoForward
  <2>3. CASE Dies
    <3>1. at' = "idle" /\ waiting' = FALSE
      BY <2>3 DEF Dies, Over
    <3>2. StepsLeft' = 0
      BY <3>1, BehindIs DEF StepsLeft
    <3> QED
      BY <2>1, <2>2, <3>2
  <2>4. CASE Mine \/ (\E f \in Fees : FeeMoves(f)) \/ TopUp
    <3>1. at' = at /\ waiting' = waiting
      BY <2>4 DEF Mine, FeeMoves, TopUp
    <3>2. StepsLeft' = StepsLeft
      BY <3>1 DEF StepsLeft
    <3> QED
      BY <2>1, <2>2, <3>2
  <2>5. CASE RunStep
    BY <2>1, <2>2, <2>5
  <2>6. ~\E q \in Questions : Start(q)
    BY DEF Start
  <2> QED
    BY <2>3, <2>4, <2>5, <2>6 DEF Next
<1> QED
  BY <1>1, LiveSendInvariant, PTL DEF Spec, RunsGoForward
=============================================================================
