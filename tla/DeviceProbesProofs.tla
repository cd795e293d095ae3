-------------------------- MODULE DeviceProbesProofs --------------------------
(***************************************************************************)
(* The device probes for every artifact base and every amount: what the    *)
(* console says of a silence, what a report that is read may claim, and    *)
(* that every step of a probe brings its call nearer to the answer.        *)
(***************************************************************************)
EXTENDS DeviceProbes, TLAPS

EngineStages == {"engine", "compile", "instantiate", "call"}
MeasureStages == {"engine", "compile", "instantiate", "signals", "calculator", "witness"}
ProofStages == {"proving-key", "matrices", "engine-witness", "probe-witness", "prove"}
SendStages ==
  {"keys", "shield", "engine", "sync", "balance", "transfer-cold", "transfer-warm",
   "root-on-chain"}
WebStages == {"caller_identity", "list_accounts"}

\* measure_witness is under way or has just come back.
MeasureIsOn == call \in MeasuringCalls /\ at \in MeasureStages \cup {"measured"}

-----------------------------------------------------------------------------
(***************************************************************************)
(* The inductive invariant, in its parts.  First where a call may be, and  *)
(* whether there is a report under way there.                              *)
(***************************************************************************)
Where ==
  /\ call \in Calls \cup {"none"}
  /\ call = "none" => at = "idle"
  /\ call # "none" => reply = None
  /\ call = EngineProbe => at \in EngineStages /\ probe \in EngineReports
  /\ call = CircuitProbe => at \in {"fetch", "measured"} \cup MeasureStages
  /\ (call = CircuitProbe /\ at = "fetch") => probe = None
  /\ call = ProofProbe => /\ at \in {"measured"} \cup ProofStages \cup MeasureStages
                          /\ probe \in WitnessReports \cup {None}
  /\ (call = ProofProbe /\ at \in {"proving-key", "matrices", "engine-witness"}) =>
       probe = None
  /\ MeasureIsOn => probe \in WitnessReports
  /\ call = SendProbe => at \in SendStages /\ probe = None
  /\ call = WebProbe => at \in WebStages /\ probe = None

\* The last line of the console names the stage a call is in.
LineNames ==
  at \notin SilentStages =>
    /\ line.stage = at
    /\ line.backend = IF probe = None \/ at \in {"probe-witness", "prove"}
                      THEN None ELSE asked[nth]

\* Which backend is being measured, and what became of those before it.
Counting ==
  /\ image \in Image
  /\ asked \in Seq(Backend)
  /\ nth \in 1 .. Len(asked) \/ nth = 1
  /\ (call = EngineProbe \/ MeasureIsOn) =>
       nth \in 1 .. Len(asked) /\ probe.requested = asked[nth]
  /\ call \in {EngineProbe, CircuitProbe} =>
       /\ Len(probes) = nth - 1
       /\ \A i \in 1 .. nth - 1 : probes[i].requested = asked[i] /\ asked[i] \in printed
  /\ call = EngineProbe => asked = PROBE_ORDER /\ probes \in Seq(EngineReports)
  /\ call = CircuitProbe => probes \in Seq(WitnessReports)
  /\ (call = ProofProbe \/ (call = CircuitProbe /\ at = "fetch")) => nth = 1

LegsOf == [name : NamedStages \cup {"engine-wasm", "verify"}, ok : BOOLEAN]

\* The values nothing else says anything of.
Types ==
  /\ process \in {"up", "killed", "hung"}
  /\ at = "idle" => call = "none"
  /\ line \in [backend : Backend \cup {None}, stage : NamedStages \cup {"idle"}]
  /\ printed \subseteq Backend
  /\ legs \in Seq(LegsOf)

\* The circuits and the witness a call has in hand.
Fields ==
  /\ published \in Artifacts
  /\ call = CircuitProbe => noted \in [circuit : Circuits, wasm : Artifacts \cup {None}]
  /\ call = ProofProbe => noted \in ProofRuns
  /\ MeasureIsOn => noted.wasm \in Artifacts
  /\ (call = ProofProbe /\ at \notin {"proving-key", "matrices"}) => noted.matrices \in Artifacts
  /\ (call = ProofProbe /\ at = "prove") => noted.witness \in Witness

\* A green report of a circuit that answered for its signals is of a whole run.
Honest(p) == (GeneratedAWitness(p) /\ p.declared # "unchecked") => p.witness.whole

\* How far measure_witness has got with what it knows of the circuit.
Honesty ==
  /\ (MeasureIsOn /\ at \in {"calculator", "witness"}) =>
       probe.declared = Declared(noted.wasm) /\ probe.declared # "differs"
  /\ (MeasureIsOn /\ at # "measured") => probe.reached # "witness"
  /\ MeasureIsOn => Honest(probe)
  /\ (call = CircuitProbe \/ (reply # None /\ reply.of = CircuitProbe)) =>
       \A i \in 1 .. Len(probes) : Honest(probes[i])

HasLeg(leg) == \E i \in 1 .. Len(legs) : legs[i] = leg

\* The witness in hand is the replica's, or is about to be.
OnReplica == at \in {"probe-witness", "measured"} \cup MeasureStages \/ noted.source = "probe"

\* What a proof run may say.
ProofSays ==
  /\ call = ProofProbe => ~HasLeg(Leg("prove", TRUE))
  /\ (call = ProofProbe /\ OnReplica) => HasLeg(Leg("engine-witness", FALSE))
  /\ (call = ProofProbe /\ at = "prove") => noted.source \in {"engine", "probe"}
  /\ (reply # None /\ reply.of = ProofProbe) =>
       /\ HasLeg(Leg("prove", TRUE)) => noted.witness.len = noted.matrices.vars
       /\ noted.source = "probe" => HasLeg(Leg("engine-witness", FALSE))

IInv == Where /\ LineNames /\ Counting /\ Types /\ Fields /\ Honesty /\ ProofSays

-----------------------------------------------------------------------------
LEMMA OrderIs ==
  ASSUME image \in Image
  PROVE  /\ PROBE_ORDER \in Seq(Backend) /\ Len(PROBE_ORDER) \in {1, 2}
         /\ PROBE_ORDER[1] \in Backend
         /\ PROBE_ORDER[Len(PROBE_ORDER)] = EngineDefault
         /\ \A i \in 1 .. Len(PROBE_ORDER) - 1 : PROBE_ORDER[i] = Wasmi
<1>1. CASE image.target = "android"
  <2>1. PROBE_ORDER = <<EngineDefault>>
    BY <1>1 DEF PROBE_ORDER
  <2> QED
    BY <2>1 DEF Backend
<1>2. CASE image.target # "android"
  <2>1. PROBE_ORDER = <<Wasmi, EngineDefault>>
    BY <1>2 DEF PROBE_ORDER
  <2> QED
    BY <2>1 DEF Backend
<1> QED
  BY <1>1, <1>2

LEMMA AppendIs ==
  ASSUME NEW S, NEW s \in Seq(S), NEW e \in S
  PROVE  /\ Append(s, e) \in Seq(S)
         /\ Len(Append(s, e)) = Len(s) + 1 /\ Len(s) \in Nat
         /\ \A i \in 1 .. Len(s) : Append(s, e)[i] = s[i]
         /\ Append(s, e)[Len(s) + 1] = e
OBVIOUS

LEMMA AppendLength ==
  ASSUME NEW S, NEW s \in Seq(S), NEW e
  PROVE  Len(Append(s, e)) = Len(s) + 1 /\ Len(s) \in Nat
<1>1. s \in Seq(S \cup {e})
  OBVIOUS
<1> QED
  BY <1>1

LEMMA InitEstablishesIInv == Init => IInv
<1> SUFFICES ASSUME Init PROVE IInv
  OBVIOUS
<1>1. Where /\ LineNames /\ Types /\ ProofSays
  BY DEF Init, Where, LineNames, Types, ProofSays, SilentStages, Calls, MeasureIsOn,
         MeasuringCalls, EngineProbe, CircuitProbe, ProofProbe, SendProbe, WebProbe, Entering
<1>2. Counting /\ Fields /\ Honesty
  BY DEF Init, Counting, Fields, Honesty, MeasureIsOn, MeasuringCalls, EngineProbe,
         CircuitProbe, ProofProbe
<1> QED
  BY <1>1, <1>2 DEF IInv

(***************************************************************************)
(* Steps that leave the call and its report alone.                         *)
(***************************************************************************)
LEMMA UntouchedKeepsIInv ==
  ASSUME IInv, published' \in Artifacts, process' \in {"up", "killed", "hung"},
         UNCHANGED <<image, call, at, console, measured, run, reply>>
  PROVE  IInv'
<1> USE DEF console, measured, run
<1>1. Where' /\ LineNames'
  BY DEF IInv, Where, LineNames, MeasureIsOn
<1>2. Counting' /\ Types'
  BY DEF IInv, Counting, Types, MeasureIsOn, PROBE_ORDER
<1>3. Fields'
  BY DEF IInv, Fields, MeasureIsOn
<1>4. Honesty'
  BY DEF IInv, Honesty, MeasureIsOn
<1>5. ProofSays'
  BY DEF IInv, ProofSays, HasLeg, OnReplica
<1> QED
  BY <1>1, <1>2, <1>3, <1>4, <1>5 DEF IInv

LEMMA RelaunchKeepsIInv ==
  ASSUME IInv, Relaunch
  PROVE  IInv'
<1>1. Where' /\ LineNames' /\ Types' /\ ProofSays'
  BY DEF Relaunch, build, IInv, Where, LineNames, Types, ProofSays, SilentStages, Calls, MeasureIsOn,
         MeasuringCalls, EngineProbe, CircuitProbe, ProofProbe, SendProbe, WebProbe
<1>2. Counting' /\ Fields' /\ Honesty'
  BY DEF Relaunch, build, IInv, Counting, Fields, Honesty, MeasureIsOn, MeasuringCalls, EngineProbe,
         CircuitProbe, ProofProbe
<1> QED
  BY <1>1, <1>2 DEF IInv

-----------------------------------------------------------------------------
\* The names of the calls and of the stages are told apart by expanding them.
LEMMA CallEngineProbeKeepsIInv ==
  ASSUME IInv, CallEngineProbe
  PROVE  IInv'
<1>1. /\ call' = EngineProbe /\ at' = "engine" /\ printed' = {} /\ probes' = <<>>
      /\ legs' = <<>> /\ nth' = 1 /\ reply' = None /\ image' = image /\ published' = published
      /\ process' = process
      /\ asked' = PROBE_ORDER
      /\ probe' = EngineReport(PROBE_ORDER[1])
      /\ line' = Entering(PROBE_ORDER[1], "engine")
  BY DEF CallEngineProbe, Begin, build, EnterEngine
<1>2. image \in Image /\ PROBE_ORDER[1] \in Backend /\ PROBE_ORDER' = PROBE_ORDER
  BY <1>1, OrderIs DEF IInv, Counting, PROBE_ORDER
<1>3. probe' \in EngineReports /\ probe' # None /\ probe'.requested = PROBE_ORDER[1]
  BY <1>1, <1>2, NoneAssumption DEF EngineReport, EngineReports, Answer
<1>4. Where'
  BY <1>1, <1>3 DEF Where, Calls, MeasureIsOn, MeasuringCalls, EngineProbe, CircuitProbe, ProofProbe,
                    SendProbe, WebProbe, EngineStages
<1>5. LineNames'
  BY <1>1, <1>3 DEF LineNames, Entering
<1>6. Counting'
  BY <1>1, <1>2, <1>3, OrderIs DEF Counting, MeasureIsOn, MeasuringCalls, EngineProbe, CircuitProbe,
                    ProofProbe
<1>7. Types'
  BY <1>1, <1>2 DEF IInv, Types, Entering, NamedStages
<1>8. Fields' /\ Honesty' /\ ProofSays'
  BY <1>1 DEF IInv, Fields, Honesty, ProofSays, MeasureIsOn, MeasuringCalls, EngineProbe,
              CircuitProbe, ProofProbe
<1> QED
  BY <1>4, <1>5, <1>6, <1>7, <1>8 DEF IInv

LEMMA CallCircuitProbeKeepsIInv ==
  ASSUME IInv, NEW circuit \in Circuits, NEW names \in Requests, CallCircuitProbe(circuit, names)
  PROVE  IInv'
<1>1. /\ call' = CircuitProbe /\ at' = "fetch" /\ printed' = {} /\ probes' = <<>>
      /\ legs' = <<>> /\ nth' = 1 /\ reply' = None /\ image' = image /\ published' = published
      /\ process' = process /\ line' = line
      /\ asked' = IF names = None THEN PROBE_ORDER ELSE names
      /\ probe' = None
      /\ noted' = [circuit |-> circuit, wasm |-> None]
  BY DEF CallCircuitProbe, Begin, build
<1>2. asked' \in Seq(Backend)
  <2>1. PROBE_ORDER \in Seq(Backend)
    BY OrderIs DEF IInv, Counting
  <2>2. \A r \in Requests \ {None} : r \in Seq(Backend)
    <3>1. EngineDefault \in Backend /\ Wasmi \in Backend
      BY DEF Backend
    <3>2. <<>> \in Seq(Backend)
      OBVIOUS
    <3>3. <<EngineDefault>> \in Seq(Backend) /\ <<Wasmi>> \in Seq(Backend)
      BY <3>1
    <3>4. <<EngineDefault, Wasmi>> \in Seq(Backend)
      BY <3>1
    <3>5. <<Wasmi, Wasmi>> \in Seq(Backend)
      BY <3>1
    <3> QED
      BY <3>2, <3>3, <3>4, <3>5 DEF Requests
  <2> QED
    BY <1>1, <2>1, <2>2
<1>3. Where' /\ LineNames'
  BY <1>1 DEF Where, LineNames, SilentStages, Calls, MeasureIsOn, MeasureStages, EngineProbe,
              CircuitProbe, ProofProbe, SendProbe, WebProbe
<1>4. Counting'
  BY <1>1, <1>2 DEF IInv, Counting, MeasureIsOn, MeasureStages, EngineProbe, CircuitProbe
<1>5. Types' /\ Fields' /\ Honesty' /\ ProofSays'
  BY <1>1 DEF IInv, Types, Fields, Honesty, ProofSays, MeasureIsOn, MeasureStages,
              CircuitProbe, ProofProbe
<1> QED
  BY <1>3, <1>4, <1>5 DEF IInv

LEMMA CallProofProbeKeepsIInv ==
  ASSUME IInv, CallProofProbe
  PROVE  IInv'
<1>1. /\ call' = ProofProbe /\ at' = "proving-key" /\ printed' = {} /\ probes' = <<>>
      /\ legs' = <<>> /\ nth' = 1 /\ reply' = None /\ image' = image /\ published' = published
      /\ process' = process
      /\ asked' = <<>> /\ probe' = None
      /\ line' = Entering(None, "proving-key") /\ noted' = NoRun
  BY DEF CallProofProbe, Begin, build
<1>2. Where' /\ LineNames'
  BY <1>1 DEF Where, LineNames, SilentStages, Calls, MeasureIsOn, MeasureStages, ProofStages,
              EngineProbe, CircuitProbe, ProofProbe, SendProbe, WebProbe, Entering
<1>3. Counting'
  BY <1>1 DEF IInv, Counting, MeasureIsOn, MeasureStages, EngineProbe, CircuitProbe, ProofProbe
<1>4. Types' /\ Fields'
  BY <1>1 DEF IInv, Types, Fields, MeasureIsOn, MeasureStages, CircuitProbe, ProofProbe, NoRun,
              ProofRuns, Entering, NamedStages
<1>5. Honesty' /\ ProofSays'
  BY <1>1 DEF Honesty, ProofSays, OnReplica, HasLeg, NoRun, MeasureIsOn, MeasureStages, CircuitProbe,
              ProofProbe
<1> QED
  BY <1>2, <1>3, <1>4, <1>5 DEF IInv

\* The send and the web probe measure nothing.
LEMMA CallOfNoReportKeepsIInv ==
  ASSUME IInv, call' \in {SendProbe, WebProbe}, at' \in {"keys", "caller_identity"},
         call' = SendProbe <=> at' = "keys",
         printed' = {}, probes' = <<>>, legs' = <<>>, nth' = 1, reply' = None,
         UNCHANGED <<build, process>>, asked' = <<>>, probe' = None, line' = Entering(None, at')
  PROVE  IInv'
<1>1. Where' /\ LineNames'
  BY DEF Where, LineNames, SilentStages, Calls, MeasureIsOn, MeasuringCalls, SendStages, WebStages,
         EngineProbe, CircuitProbe, ProofProbe, SendProbe, WebProbe, Entering
<1>2. Counting'
  BY DEF IInv, Counting, MeasureIsOn, MeasuringCalls, EngineProbe, CircuitProbe, ProofProbe, SendProbe,
         WebProbe, build
<1>3. Types'
  BY DEF IInv, Types, Entering, NamedStages
<1>4. Fields' /\ Honesty' /\ ProofSays'
  BY DEF IInv, Fields, Honesty, ProofSays, MeasureIsOn, MeasuringCalls, CircuitProbe, ProofProbe,
         SendProbe, WebProbe, build
<1> QED
  BY <1>1, <1>2, <1>3, <1>4 DEF IInv

LEMMA CallsArriveKeepsIInv ==
  ASSUME IInv, CallsArrive
  PROVE  IInv'
<1>1. ASSUME NEW shield \in Amounts, NEW transfer \in Amounts, NEW repeat \in BOOLEAN,
             CallSendProbe(shield, transfer, repeat)
      PROVE  IInv'
  BY <1>1, CallOfNoReportKeepsIInv DEF CallSendProbe, Begin, SendProbe, WebProbe
<1>2. ASSUME NEW dispatch \in Thread, NEW recorded \in BOOLEAN, CallWebProbe(dispatch, recorded)
      PROVE  IInv'
  <2>1. LEGS[1] = "caller_identity"
    BY DEF LEGS
  <2> QED
    BY <1>2, <2>1, CallOfNoReportKeepsIInv DEF CallWebProbe, Begin, SendProbe, WebProbe
<1> QED
  BY <1>1, <1>2, CallEngineProbeKeepsIInv, CallCircuitProbeKeepsIInv, CallProofProbeKeepsIInv
  DEF CallsArrive

-----------------------------------------------------------------------------
(***************************************************************************)
(* The engine probe.  A report is measured once and printed as it is.      *)
(***************************************************************************)
LEMMA EnginePassesKeepsIInv ==
  ASSUME IInv, NEW from \in {"engine", "compile", "instantiate"},
         NEW to \in {"compile", "instantiate", "call"}, EnginePasses(from, to)
  PROVE  IInv'
<1>1. /\ call = EngineProbe /\ call' = EngineProbe /\ at' = to
      /\ UNCHANGED <<build, process, printed, asked, nth, probes, run, reply>>
      /\ line' = Entering(asked[nth], to)
      /\ probe' = [probe EXCEPT !.reached = from]
  BY DEF EnginePasses, Within
<1>2. /\ probe \in EngineReports /\ probe.requested = asked[nth] /\ nth \in 1 .. Len(asked)
      /\ asked \in Seq(Backend) /\ reply = None
  BY <1>1 DEF IInv, Where, Counting, EngineProbe
<1>3. probe' \in EngineReports /\ probe'.requested = asked[nth]
  BY <1>1, <1>2 DEF EngineReports
<1>4. probe' # None
  BY <1>3, NoneAssumption
<1>5. Where'
  BY <1>1, <1>2, <1>3 DEF IInv, Where, run, Calls, MeasureIsOn, MeasuringCalls, EngineProbe, CircuitProbe,
                    ProofProbe, SendProbe, WebProbe, EngineStages
<1>6. LineNames'
  BY <1>1, <1>4 DEF LineNames, Entering
<1>7. Counting'
  <2>1. PROBE_ORDER' = PROBE_ORDER /\ image' = image
    BY <1>1 DEF PROBE_ORDER, build
  <2> QED
    BY <1>1, <1>2, <1>3, <2>1 DEF IInv, Counting, MeasureIsOn, MeasuringCalls, EngineProbe, CircuitProbe,
                                  ProofProbe
<1>8. Types'
  <2>1. asked[nth] \in Backend
    BY <1>2
  <2>2. line' \in [backend : Backend \cup {None}, stage : NamedStages \cup {"idle"}]
    BY <1>1, <2>1 DEF Entering, NamedStages
  <2> QED
    BY <1>1, <2>2 DEF IInv, Types, run
<1>9. Fields' /\ Honesty' /\ ProofSays'
  BY <1>1, <1>2 DEF IInv, Fields, Honesty, ProofSays, MeasureIsOn, MeasuringCalls, EngineProbe,
              CircuitProbe, ProofProbe, build, run
<1> QED
  BY <1>5, <1>6, <1>7, <1>8, <1>9 DEF IInv

LEMMA EngineMeasuredKeepsIInv ==
  ASSUME IInv, call = EngineProbe, NEW p \in EngineReports, p.requested = probe.requested,
         EngineMeasured(p)
  PROVE  IInv'
<1>1. /\ UNCHANGED <<build, process, asked, run>>
      /\ probes' = Append(probes, p) /\ printed' = printed \cup {p.requested}
  BY DEF EngineMeasured
<1>2. /\ p.requested = asked[nth] /\ nth \in 1 .. Len(asked) /\ asked \in Seq(Backend)
      /\ reply = None /\ probes \in Seq(EngineReports) /\ Len(probes) = nth - 1
      /\ \A i \in 1 .. nth - 1 : probes[i].requested = asked[i] /\ asked[i] \in printed
      /\ asked = PROBE_ORDER /\ PROBE_ORDER' = PROBE_ORDER /\ image' = image /\ image \in Image
      /\ printed \subseteq Backend
  BY <1>1 DEF IInv, Where, Counting, Types, EngineProbe, build, PROBE_ORDER
<1>3. printed' \subseteq Backend /\ asked[nth] \in Backend
  BY <1>1, <1>2
<1>4. CASE nth < Len(asked)
  <2>1. /\ nth' = nth + 1 /\ at' = "engine" /\ call' = EngineProbe /\ reply' = None
        /\ probe' = EngineReport(asked[nth + 1])
        /\ line' = Entering(asked[nth + 1], "engine")
    BY <1>2, <1>4 DEF EngineMeasured, EnterEngine
  <2>2. nth + 1 \in 1 .. Len(asked) /\ asked[nth + 1] \in Backend
    BY <1>2, <1>4
  <2>3. probe' \in EngineReports /\ probe' # None /\ probe'.requested = asked[nth + 1]
    BY <2>1, <2>2, NoneAssumption DEF EngineReport, EngineReports, Answer
  <2>4. Where'
    BY <2>1, <2>3 DEF Where, Calls, MeasureIsOn, MeasuringCalls, EngineProbe, CircuitProbe,
                      ProofProbe, SendProbe, WebProbe, EngineStages
  <2>5. LineNames'
    BY <1>1, <2>1, <2>3 DEF LineNames, Entering
  <2>6. /\ probes' \in Seq(EngineReports) /\ Len(probes') = nth
        /\ \A i \in 1 .. nth : probes'[i].requested = asked[i] /\ asked[i] \in printed'
    <3>1. /\ probes' \in Seq(EngineReports) /\ Len(probes') = nth
          /\ \A i \in 1 .. nth - 1 : probes'[i] = probes[i]
          /\ probes'[nth] = p
      BY <1>1, <1>2, AppendIs
    <3> QED
      BY <1>1, <1>2, <3>1
  <2>7. Counting'
    BY <1>1, <1>2, <2>1, <2>2, <2>3, <2>6 DEF Counting, MeasureIsOn, MeasuringCalls, EngineProbe,
                                         CircuitProbe, ProofProbe
  <2>8. Types'
    <3>1. line' \in [backend : Backend \cup {None}, stage : NamedStages \cup {"idle"}]
      BY <2>1, <2>2 DEF Entering, NamedStages
    <3> QED
      BY <1>1, <1>3, <2>1, <3>1 DEF IInv, Types, run
  <2>9. Fields' /\ Honesty' /\ ProofSays'
    BY <1>1, <2>1 DEF IInv, Fields, Honesty, ProofSays, MeasureIsOn, MeasuringCalls, EngineProbe,
                      CircuitProbe, ProofProbe, build
  <2> QED
    BY <2>4, <2>5, <2>7, <2>8, <2>9 DEF IInv
<1>5. CASE nth = Len(asked)
  <2>1. /\ call' = "none" /\ at' = "idle" /\ reply'.of = EngineProbe
        /\ UNCHANGED <<nth, probe, line>>
    BY <1>2, <1>5 DEF EngineMeasured, Return
  <2>2. Where' /\ LineNames'
    BY <2>1 DEF Where, LineNames, SilentStages, Calls, MeasureIsOn, MeasuringCalls, EngineProbe,
                CircuitProbe, ProofProbe, SendProbe, WebProbe
  <2>3. Counting'
    BY <1>1, <1>2, <2>1 DEF Counting, MeasureIsOn, MeasuringCalls, EngineProbe, CircuitProbe, ProofProbe
  <2>4. Types'
    BY <1>1, <1>3, <2>1 DEF IInv, Types, run
  <2>5. Fields' /\ Honesty' /\ ProofSays'
    BY <1>1, <2>1 DEF IInv, Fields, Honesty, ProofSays, MeasureIsOn, MeasuringCalls, EngineProbe,
                      CircuitProbe, ProofProbe, build
  <2> QED
    BY <2>2, <2>3, <2>4, <2>5 DEF IInv
<1> QED
  BY <1>2, <1>4, <1>5

LEMMA EngineProbeStepKeepsIInv ==
  ASSUME IInv, EngineProbeStep
  PROVE  IInv'
<1>1. CASE BuildStore \/ CompileAdd \/ InstantiateAdd
  BY <1>1, EnginePassesKeepsIInv DEF BuildStore, CompileAdd, InstantiateAdd
<1>2. ASSUME NEW stage \in {"compile", "instantiate", "call"}, call = EngineProbe,
             EngineMeasured([probe EXCEPT !.error = stage])
      PROVE  IInv'
  <2>1. probe \in EngineReports
    BY <1>2 DEF IInv, Where
  <2>2. /\ [probe EXCEPT !.error = stage] \in EngineReports
        /\ [probe EXCEPT !.error = stage].requested = probe.requested
    BY <2>1 DEF EngineReports
  <2> QED
    BY <1>2, <2>2, EngineMeasuredKeepsIInv
<1>3. ASSUME NEW right \in BOOLEAN, call = EngineProbe,
             EngineMeasured([probe EXCEPT
               !.reached = "call",
               !.answer = IF right THEN "right" ELSE "wrong",
               !.error = IF right THEN "none" ELSE "call"])
      PROVE  IInv'
  <2> DEFINE p == [probe EXCEPT
               !.reached = "call",
               !.answer = IF right THEN "right" ELSE "wrong",
               !.error = IF right THEN "none" ELSE "call"]
  <2>1. probe \in EngineReports
    BY <1>3 DEF IInv, Where
  <2>2. p \in EngineReports /\ p.requested = probe.requested
    BY <2>1 DEF EngineReports, Answer
  <2>3. EngineMeasured(p)
    BY <1>3
  <2> HIDE DEF p
  <2> QED
    BY <1>3, <2>2, <2>3, EngineMeasuredKeepsIInv
<1>4. ASSUME call = EngineProbe,
             EngineMeasured([probe EXCEPT !.reached = "instantiate", !.error = "export"])
      PROVE  IInv'
  <2>1. probe \in EngineReports
    BY <1>4 DEF IInv, Where
  <2>2. /\ [probe EXCEPT !.reached = "instantiate", !.error = "export"] \in EngineReports
        /\ [probe EXCEPT !.reached = "instantiate", !.error = "export"].requested = probe.requested
    BY <2>1 DEF EngineReports
  <2> QED
    BY <1>4, <2>2, EngineMeasuredKeepsIInv
<1> QED
  BY <1>1, <1>2, <1>3, <1>4 DEF EngineProbeStep, EngineRefuses, AddIsMissing, AddAnswers, Within

-----------------------------------------------------------------------------
(***************************************************************************)
(* measure_witness, in whichever call: it moves through its stages with    *)
(* one report and leaves the rest of the call alone.                       *)
(***************************************************************************)
LEMMA MeasuringMeans ==
  ASSUME IInv, MeasureIsOn
  PROVE  /\ probe \in WitnessReports /\ probe.requested = asked[nth] /\ nth \in 1 .. Len(asked)
         /\ asked \in Seq(Backend) /\ asked[nth] \in Backend /\ reply = None
         /\ Honest(probe) /\ noted.wasm \in Artifacts
<1>1. call # "none"
  BY DEF MeasureIsOn, MeasuringCalls, CircuitProbe, ProofProbe
<1> QED
  BY <1>1 DEF IInv, Where, Counting, Honesty, Fields

LEMMA MeasureMovesKeepsIInv ==
  ASSUME IInv, call \in MeasuringCalls, at \in MeasureStages, MeasureStays,
         at' \in MeasureStages \cup {"measured"},
         probe' \in WitnessReports, probe'.requested = probe.requested,
         line' \in [backend : Backend \cup {None}, stage : NamedStages \cup {"idle"}],
         at' \notin SilentStages => line' = Entering(asked[nth], at'),
         at' \in {"calculator", "witness"} =>
           probe'.declared = Declared(noted.wasm) /\ probe'.declared # "differs",
         at' # "measured" => probe'.reached # "witness",
         Honest(probe')
  PROVE  IInv'
<1>1. MeasureIsOn /\ MeasureIsOn'
  BY DEF MeasureIsOn, MeasureStays
<1>2. UNCHANGED <<build, process, call, printed, asked, nth, probes, run, reply>>
  BY DEF MeasureStays
<1>3. /\ probe.requested = asked[nth] /\ nth \in 1 .. Len(asked)
      /\ asked \in Seq(Backend) /\ noted.wasm \in Artifacts
  BY <1>1, MeasuringMeans
<1>4. probe' # None
  BY NoneAssumption
<1>5. call \in {CircuitProbe, ProofProbe}
  BY DEF MeasuringCalls
<1>6. Where'
  <2>1. /\ at' \notin {"idle", "fetch", "proving-key", "matrices", "engine-witness"}
        /\ at \notin {"idle", "fetch", "proving-key", "matrices", "engine-witness"}
    BY DEF MeasureStages
  <2>2. call' = call /\ reply' = reply
    BY <1>2
  <2>3. /\ call \in Calls /\ call # "none" /\ call # EngineProbe /\ call # SendProbe /\ call # WebProbe
    BY <1>5 DEF Calls, EngineProbe, CircuitProbe, ProofProbe, SendProbe, WebProbe
  <2>4. reply = None
    BY <1>1, MeasuringMeans
  <2> QED
    BY <2>1, <2>2, <2>3, <2>4 DEF Where
<1>7. LineNames'
  <2>1. at' \notin {"probe-witness", "prove"}
    BY DEF MeasureStages
  <2> QED
    BY <1>2, <1>4, <2>1 DEF LineNames, Entering
<1>8. Counting'
  <2>1. PROBE_ORDER' = PROBE_ORDER /\ image' = image
    BY <1>2 DEF PROBE_ORDER, build
  <2>2. call # EngineProbe
    BY <1>5 DEF EngineProbe, CircuitProbe, ProofProbe
  <2>3. at' # "fetch"
    BY DEF MeasureStages
  <2> QED
    BY <1>2, <1>3, <2>1, <2>2, <2>3 DEF IInv, Counting
<1>9. Types'
  <2>1. at' # "idle"
    BY DEF MeasureStages
  <2> QED
    BY <1>2, <2>1 DEF IInv, Types, run
<1>10. Fields'
  <2>1. /\ at \notin {"proving-key", "matrices", "prove"}
        /\ at' \notin {"proving-key", "matrices", "prove"}
    BY DEF MeasureStages
  <2> QED
    BY <1>2, <1>3, <2>1 DEF IInv, Fields, build, run
<1>11. Honesty'
  <2>1. reply' = None /\ call' = call /\ probes' = probes /\ noted' = noted
    BY <1>1, <1>2, MeasuringMeans DEF run
  <2>2. call = CircuitProbe => \A i \in 1 .. Len(probes) : Honest(probes[i])
    BY DEF IInv, Honesty
  <2>3. Declared(noted.wasm)' = Declared(noted.wasm)
    BY <2>1 DEF Declared
  <2>4. Honest(probe)'
    BY DEF Honest, GeneratedAWitness
  <2>5. call' = CircuitProbe => \A i \in 1 .. Len(probes') : Honest(probes'[i])
    BY <2>1, <2>2
  <2> QED
    BY <2>1, <2>3, <2>4, <2>5 DEF Honesty, Honest, GeneratedAWitness
<1>12. ProofSays'
  <2>1. reply' = None /\ call' = call /\ legs' = legs /\ noted' = noted
    BY <1>1, <1>2, MeasuringMeans DEF run
  <2>2. at' # "prove" /\ at # "prove"
    BY DEF MeasureStages
  <2>3. call = ProofProbe => HasLeg(Leg("engine-witness", FALSE)) /\ ~HasLeg(Leg("prove", TRUE))
    BY DEF IInv, ProofSays, OnReplica
  <2> QED
    BY <2>1, <2>2, <2>3 DEF ProofSays, HasLeg
<1> QED
  BY <1>6, <1>7, <1>8, <1>9, <1>10, <1>11, <1>12 DEF IInv

\* The circuit runs whole where it takes what the probe writes.
LEMMA OnlyTheRightCircuitIsWhole ==
  ASSUME NEW a \in Artifacts, NEW w \in WitnessesOf(a)
  PROVE  /\ w \in Witness
         /\ (Declared(a) = "agrees") => w.whole
         /\ Declared(a) \in {"unchecked", "agrees", "differs"}
<1>1. a.vars \in Nat /\ a.fits \in BOOLEAN
  BY ArtifactsAssumption DEF Artifact
<1>2. CASE a.fits
  <2>1. w = [len |-> a.vars, nonzero |-> TRUE, whole |-> TRUE]
    BY <1>2 DEF WitnessesOf
  <2> QED
    BY <1>1, <2>1 DEF Witness, Declared
<1>3. CASE ~a.fits
  <2>1. w \in [len : {1, a.vars}, nonzero : BOOLEAN, whole : {FALSE}]
    BY <1>3 DEF WitnessesOf
  <2>2. w \in Witness
    <3>1. w = [len |-> w.len, nonzero |-> w.nonzero, whole |-> w.whole]
      BY <2>1
    <3>2. w.len \in {1, a.vars} /\ w.nonzero \in BOOLEAN /\ w.whole \in {FALSE}
      BY <2>1
    <3>3. w.len \in Nat
      BY <1>1, <3>2
    <3>4. w.whole \in BOOLEAN
      BY <3>2, Zenon
    <3> QED
      BY <3>1, <3>2, <3>3, <3>4 DEF Witness
  <2>3. Declared(a) # "agrees" /\ Declared(a) \in {"unchecked", "agrees", "differs"}
    BY <1>3 DEF Declared
  <2> QED
    BY <2>2, <2>3
<1> QED
  BY <1>2, <1>3

\* A stage completes: only the witness stage reaches "witness".
LEMMA MeasurePassesKeepsIInv ==
  ASSUME IInv, NEW from \in MeasureStages,
         NEW to \in {"compile", "instantiate", "signals", "witness"},
         NEW reached \in {"engine", "compile", "instantiate", "signals"},
         to = "witness" => from = "calculator",
         MeasurePasses(from, to, reached)
  PROVE  IInv'
<1>1. /\ call \in MeasuringCalls /\ at = from /\ at' = to /\ MeasureStays
      /\ line' = Entering(asked[nth], to)
      /\ probe' = [probe EXCEPT !.reached = reached]
  BY DEF MeasurePasses, Measuring
<1>2. MeasureIsOn
  BY <1>1 DEF MeasureIsOn
<1>3. probe \in WitnessReports /\ asked[nth] \in Backend
  BY <1>2, MeasuringMeans
<1>4. /\ probe' \in WitnessReports /\ probe'.requested = probe.requested
      /\ probe'.reached # "witness" /\ probe'.declared = probe.declared
  BY <1>1, <1>3 DEF WitnessReports
<1>5. Honest(probe')
  BY <1>4 DEF Honest, GeneratedAWitness
<1>6. line' \in [backend : Backend \cup {None}, stage : NamedStages \cup {"idle"}]
  BY <1>1, <1>3 DEF Entering, NamedStages
<1>7. at' \in {"calculator", "witness"} =>
        probe'.declared = Declared(noted.wasm) /\ probe'.declared # "differs"
  BY <1>1, <1>2, <1>4 DEF IInv, Honesty
<1>8. at' \in MeasureStages \cup {"measured"} /\ at \in MeasureStages
  BY <1>1 DEF MeasureStages
<1> QED
  BY <1>1, <1>4, <1>5, <1>6, <1>7, <1>8, MeasureMovesKeepsIInv

\* A measurement that ends, refused or run.
LEMMA MeasureEndsKeepsIInv ==
  ASSUME IInv, call \in MeasuringCalls, at \in MeasureStages, NEW p \in WitnessReports,
         p.requested = probe.requested, Honest(p), MeasureEnds(p)
  PROVE  IInv'
<1>1. at' = "measured" /\ probe' = p /\ line' = line /\ MeasureStays
  BY DEF MeasureEnds
<1>2. line \in [backend : Backend \cup {None}, stage : NamedStages \cup {"idle"}]
  BY DEF IInv, Types
<1> QED
  BY <1>1, <1>2, MeasureMovesKeepsIInv DEF SilentStages

LEMMA CheckSignalsKeepsIInv ==
  ASSUME IInv, CheckSignals
  PROVE  IInv'
<1> DEFINE asking == [probe EXCEPT !.declared = Declared(noted.wasm)]
<1>1. call \in MeasuringCalls /\ at = "signals" /\ at \in MeasureStages /\ MeasureIsOn
  BY DEF CheckSignals, Measuring, MeasureIsOn, MeasureStages
<1>2. probe \in WitnessReports /\ probe.reached # "witness"
  BY <1>1, MeasuringMeans DEF IInv, Honesty
<1>3. Declared(noted.wasm) \in {"unasked", "unchecked", "agrees", "differs"}
  BY DEF Declared
<1>4. /\ asking \in WitnessReports /\ asking.requested = probe.requested
      /\ asking.reached # "witness" /\ asking.declared = Declared(noted.wasm)
  BY <1>2, <1>3 DEF WitnessReports
<1>5. Honest(asking)
  BY <1>4 DEF Honest, GeneratedAWitness
<1>6. CASE MeasureEnds([asking EXCEPT !.error = "signals"])
  <2>1. /\ [asking EXCEPT !.error = "signals"] \in WitnessReports
        /\ [asking EXCEPT !.error = "signals"].requested = probe.requested
        /\ [asking EXCEPT !.error = "signals"].reached = asking.reached
    <3> HIDE DEF asking
    <3> QED
      BY <1>4 DEF WitnessReports
  <2>2. Honest([asking EXCEPT !.error = "signals"])
    BY <1>4, <2>1 DEF Honest, GeneratedAWitness
  <2> HIDE DEF asking
  <2> QED
    BY <1>1, <1>6, <2>1, <2>2, MeasureEndsKeepsIInv
<1>7. CASE /\ asking.declared # "differs"
           /\ at' = "calculator" /\ probe' = asking /\ line' = line
           /\ MeasureStays
  <2>1. line \in [backend : Backend \cup {None}, stage : NamedStages \cup {"idle"}]
    BY DEF IInv, Types
  <2>2. at' \in MeasureStages \cup {"measured"} /\ at' \in SilentStages /\ at' # "measured"
    BY <1>7 DEF MeasureStages, SilentStages
  <2> HIDE DEF asking
  <2> QED
    BY <1>1, <1>4, <1>5, <1>7, <2>1, <2>2, MeasureMovesKeepsIInv
<1> QED
  BY <1>6, <1>7 DEF CheckSignals

LEMMA MeasureStepKeepsIInv ==
  ASSUME IInv, MeasureStep
  PROVE  IInv'
<1>1. CASE MakeStore \/ CompileCircuit \/ MakeRuntime
  <2>1. /\ "engine" \in MeasureStages /\ "compile" \in MeasureStages
        /\ "instantiate" \in MeasureStages
    BY DEF MeasureStages
  <2> QED
    BY <1>1, <2>1, MeasurePassesKeepsIInv DEF MakeStore, CompileCircuit, MakeRuntime
<1>2. CASE MakeCalculator
  <2>1. "calculator" \in MeasureStages
    BY DEF MeasureStages
  <2>2. CASE probe.declared = "agrees"
    BY <1>2, <2>1, <2>2, MeasurePassesKeepsIInv DEF MakeCalculator
  <2>3. CASE probe.declared # "agrees"
    BY <1>2, <2>1, <2>3, MeasurePassesKeepsIInv DEF MakeCalculator
  <2> QED
    BY <2>2, <2>3
<1>3. ASSUME NEW w \in WitnessesOf(noted.wasm), Measuring("witness"),
             MeasureEnds([probe EXCEPT !.reached = "witness", !.witness = w])
      PROVE  IInv'
  <2> DEFINE p == [probe EXCEPT !.reached = "witness", !.witness = w]
  <2>1. call \in MeasuringCalls /\ at = "witness" /\ at \in MeasureStages /\ MeasureIsOn
    BY <1>3 DEF Measuring, MeasureIsOn, MeasureStages
  <2>2. /\ probe \in WitnessReports /\ noted.wasm \in Artifacts
        /\ probe.declared = Declared(noted.wasm) /\ probe.declared # "differs"
    BY <2>1, MeasuringMeans DEF IInv, Honesty
  <2>3. /\ w \in Witness /\ (Declared(noted.wasm) = "agrees" => w.whole)
        /\ Declared(noted.wasm) \in {"unchecked", "agrees", "differs"}
    BY <2>2, OnlyTheRightCircuitIsWhole
  <2>4. /\ p \in WitnessReports /\ p.requested = probe.requested
        /\ p.declared = probe.declared /\ p.witness = w
    BY <2>2, <2>3 DEF WitnessReports
  <2>5. Honest(p)
    BY <2>2, <2>3, <2>4 DEF Honest
  <2>6. MeasureEnds(p)
    BY <1>3
  <2> HIDE DEF p
  <2> QED
    BY <2>1, <2>4, <2>5, <2>6, MeasureEndsKeepsIInv
<1>4. ASSUME NEW stage \in {"compile", "instantiate", "calculator", "witness"}, Measuring(stage),
             MeasureEnds([probe EXCEPT
               !.error = IF stage = "calculator" THEN "instantiate" ELSE stage])
      PROVE  IInv'
  <2> DEFINE p == [probe EXCEPT
               !.error = IF stage = "calculator" THEN "instantiate" ELSE stage]
  <2>1. call \in MeasuringCalls /\ at \in MeasureStages /\ at # "measured" /\ MeasureIsOn
    BY <1>4 DEF Measuring, MeasureIsOn, MeasureStages
  <2>2. probe \in WitnessReports /\ probe.reached # "witness"
    BY <2>1, MeasuringMeans DEF IInv, Honesty
  <2>3. p \in WitnessReports /\ p.requested = probe.requested /\ p.reached = probe.reached
    BY <2>2 DEF WitnessReports
  <2>4. Honest(p)
    BY <2>2, <2>3 DEF Honest, GeneratedAWitness
  <2>5. MeasureEnds(p)
    BY <1>4
  <2> HIDE DEF p
  <2> QED
    BY <2>1, <2>3, <2>4, <2>5, MeasureEndsKeepsIInv
<1> QED
  BY <1>1, <1>2, <1>3, <1>4, CheckSignalsKeepsIInv
  DEF MeasureStep, CalculateWitness, MeasureRefuses

-----------------------------------------------------------------------------
(***************************************************************************)
(* The circuit probe's own steps, around its measurements.                 *)
(***************************************************************************)
LEMMA EnterMeasureIs ==
  ASSUME NEW backend \in Backend, EnterMeasure(backend)
  PROVE  /\ at' = "engine" /\ probe' \in WitnessReports /\ probe' # None
         /\ probe'.requested = backend /\ probe'.reached = "engine" /\ Honest(probe')
         /\ line' = Entering(backend, "engine")
         /\ line' \in [backend : Backend \cup {None}, stage : NamedStages \cup {"idle"}]
<1>1. probe' = WitnessReport(backend) /\ at' = "engine" /\ line' = Entering(backend, "engine")
  BY DEF EnterMeasure
<1>2. probe' \in WitnessReports /\ probe'.requested = backend /\ probe'.reached = "engine"
  BY <1>1 DEF WitnessReport, WitnessReports
<1>3. Honest(probe')
  BY <1>2 DEF Honest, GeneratedAWitness
<1>4. line' \in [backend : Backend \cup {None}, stage : NamedStages \cup {"idle"}]
  BY <1>1 DEF Entering, NamedStages
<1> QED
  BY <1>1, <1>2, <1>3, <1>4, NoneAssumption

LEMMA NothingMeasuredKeepsIInv ==
  ASSUME IInv, NothingMeasured
  PROVE  IInv'
<1>1. /\ call = CircuitProbe /\ call' = "none" /\ at' = "idle" /\ reply'.of = CircuitProbe
      /\ UNCHANGED <<build, process, console, measured, run>>
  BY DEF NothingMeasured, Within, Return
<1>2. Where' /\ LineNames'
  BY <1>1 DEF Where, LineNames, SilentStages, MeasureIsOn, MeasuringCalls, EngineProbe,
              CircuitProbe, ProofProbe, SendProbe, WebProbe
<1>3. Counting' /\ Types' /\ Fields'
  BY <1>1 DEF IInv, Counting, Types, Fields, MeasureIsOn, MeasuringCalls, EngineProbe,
              CircuitProbe, ProofProbe, build, console, measured, run
<1>4. Honesty' /\ ProofSays'
  <2>1. \A i \in 1 .. Len(probes) : Honest(probes[i])
    BY <1>1 DEF IInv, Honesty
  <2> QED
    BY <1>1, <2>1 DEF Honesty, ProofSays, MeasureIsOn, MeasuringCalls, CircuitProbe, ProofProbe, measured
<1> QED
  BY <1>2, <1>3, <1>4 DEF IInv

LEMMA FetchCircuitKeepsIInv ==
  ASSUME IInv, FetchCircuit
  PROVE  IInv'
<1>1. /\ call = CircuitProbe /\ call' = CircuitProbe /\ at = "fetch" /\ asked # <<>>
      /\ noted' = [noted EXCEPT !.wasm = published] /\ EnterMeasure(asked[1])
      /\ UNCHANGED <<build, process, printed, asked, nth, probes, legs, reply>>
  BY DEF FetchCircuit, Within
<1>2. /\ asked \in Seq(Backend) /\ nth = 1 /\ reply = None /\ Len(probes) = 0
      /\ probes \in Seq(WitnessReports) /\ published \in Artifacts
      /\ noted \in [circuit : Circuits, wasm : Artifacts \cup {None}]
  BY <1>1 DEF IInv, Where, Counting, Fields, EngineProbe, CircuitProbe, ProofProbe, SendProbe, WebProbe
<1>3. nth \in 1 .. Len(asked) /\ asked[nth] \in Backend
  BY <1>1, <1>2
<1>4. /\ at' = "engine" /\ probe' \in WitnessReports /\ probe' # None
      /\ probe'.requested = asked[nth] /\ probe'.reached = "engine" /\ Honest(probe')
      /\ line' = Entering(asked[nth], "engine")
      /\ line' \in [backend : Backend \cup {None}, stage : NamedStages \cup {"idle"}]
  BY <1>1, <1>2, <1>3, EnterMeasureIs
<1>5. /\ noted' \in [circuit : Circuits, wasm : Artifacts \cup {None}]
      /\ noted'.wasm \in Artifacts
  BY <1>1, <1>2
<1>6. Where' /\ LineNames'
  BY <1>1, <1>2, <1>4 DEF Where, LineNames, Entering, Calls, MeasureIsOn, MeasureStages, EngineProbe,
                          CircuitProbe, ProofProbe, SendProbe, WebProbe
<1>7. Counting'
  BY <1>1, <1>2, <1>3, <1>4 DEF IInv, Counting, MeasureIsOn, EngineProbe, CircuitProbe, ProofProbe,
                                build, PROBE_ORDER
<1>8. Types' /\ Fields'
  BY <1>1, <1>4, <1>5 DEF IInv, Types, Fields, CircuitProbe, ProofProbe, build
<1>9. Honesty' /\ ProofSays'
  BY <1>1, <1>2, <1>4 DEF Honesty, Honest, ProofSays, MeasureIsOn, CircuitProbe, ProofProbe
<1> QED
  BY <1>6, <1>7, <1>8, <1>9 DEF IInv

LEMMA ReportWitnessKeepsIInv ==
  ASSUME IInv, ReportWitness
  PROVE  IInv'
<1>1. /\ call = CircuitProbe /\ at = "measured"
      /\ UNCHANGED <<build, process, asked, run>>
      /\ probes' = Append(probes, probe) /\ printed' = printed \cup {probe.requested}
  BY DEF ReportWitness, Within
<1>2. MeasureIsOn
  BY <1>1 DEF MeasureIsOn, MeasuringCalls
<1>3. /\ probe \in WitnessReports /\ probe.requested = asked[nth] /\ nth \in 1 .. Len(asked)
      /\ asked \in Seq(Backend) /\ asked[nth] \in Backend /\ reply = None
      /\ Honest(probe) /\ noted.wasm \in Artifacts
  BY <1>2, MeasuringMeans
<1>4. /\ probes \in Seq(WitnessReports) /\ Len(probes) = nth - 1
      /\ \A i \in 1 .. nth - 1 : probes[i].requested = asked[i] /\ asked[i] \in printed
      /\ \A i \in 1 .. Len(probes) : Honest(probes[i])
      /\ printed \subseteq Backend
  BY <1>1 DEF IInv, Counting, Honesty, Types
<1>5. /\ probes' \in Seq(WitnessReports) /\ Len(probes') = nth
      /\ \A i \in 1 .. nth - 1 : probes'[i] = probes[i]
      /\ probes'[nth] = probe
  BY <1>1, <1>3, <1>4, AppendIs
<1>6. /\ \A i \in 1 .. nth : probes'[i].requested = asked[i] /\ asked[i] \in printed'
      /\ \A i \in 1 .. Len(probes') : Honest(probes'[i])
      /\ printed' \subseteq Backend
  BY <1>1, <1>3, <1>4, <1>5
<1>7. CASE nth < Len(asked)
  <2>1. /\ nth' = nth + 1 /\ EnterMeasure(asked[nth + 1]) /\ call' = CircuitProbe /\ reply' = None
        /\ nth + 1 \in 1 .. Len(asked) /\ asked[nth + 1] \in Backend
    <3>1. nth # Len(asked) /\ nth + 1 \in 1 .. Len(asked)
      BY <1>3, <1>7
    <3>2. asked[nth + 1] \in Backend
      BY <1>3, <3>1
    <3>3. nth' = nth + 1 /\ EnterMeasure(asked[nth + 1]) /\ UNCHANGED <<call, reply>>
      BY <3>1 DEF ReportWitness
    <3> QED
      BY <1>1, <1>3, <3>1, <3>2, <3>3
  <2>2. /\ at' = "engine" /\ probe' \in WitnessReports /\ probe' # None
        /\ probe'.requested = asked[nth + 1] /\ probe'.reached = "engine" /\ Honest(probe')
        /\ line' = Entering(asked[nth + 1], "engine")
        /\ line' \in [backend : Backend \cup {None}, stage : NamedStages \cup {"idle"}]
    BY <2>1, EnterMeasureIs
  <2>3. Where' /\ LineNames'
    BY <1>1, <2>1, <2>2 DEF Where, LineNames, Entering, Calls, MeasureIsOn, MeasureStages, EngineProbe,
                            CircuitProbe, ProofProbe, SendProbe, WebProbe
  <2>4. Counting'
    BY <1>1, <1>3, <1>5, <1>6, <2>1, <2>2
    DEF IInv, Counting, MeasureIsOn, EngineProbe, CircuitProbe, ProofProbe, build
  <2>5. Types' /\ Fields'
    BY <1>1, <1>3, <1>6, <2>1, <2>2 DEF IInv, Types, Fields, CircuitProbe, ProofProbe, build, run
  <2>6. Honesty'
    BY <1>6, <2>1, <2>2 DEF Honesty, Honest, GeneratedAWitness
  <2>7. ProofSays'
    BY <2>1 DEF ProofSays, CircuitProbe, ProofProbe
  <2> QED
    BY <2>3, <2>4, <2>5, <2>6, <2>7 DEF IInv
<1>8. CASE nth = Len(asked)
  <2>1. /\ call' = "none" /\ at' = "idle" /\ reply'.of = CircuitProbe
        /\ UNCHANGED <<nth, probe, line>>
    BY <1>3, <1>8 DEF ReportWitness, Return
  <2>2. Where' /\ LineNames'
    BY <2>1 DEF Where, LineNames, SilentStages, MeasureIsOn, MeasuringCalls, EngineProbe,
                CircuitProbe, ProofProbe, SendProbe, WebProbe
  <2>3. Counting' /\ Types' /\ Fields'
    BY <1>1, <1>6, <2>1 DEF IInv, Counting, Types, Fields, MeasureIsOn, MeasuringCalls, EngineProbe,
                            CircuitProbe, ProofProbe, build, run
  <2>4. Honesty' /\ ProofSays'
    BY <1>6, <2>1 DEF Honesty, Honest, GeneratedAWitness, ProofSays, MeasureIsOn, MeasuringCalls,
                      CircuitProbe, ProofProbe
  <2> QED
    BY <2>2, <2>3, <2>4 DEF IInv
<1> QED
  BY <1>3, <1>7, <1>8

LEMMA CircuitProbeStepKeepsIInv ==
  ASSUME IInv, CircuitProbeStep
  PROVE  IInv'
BY NothingMeasuredKeepsIInv, FetchCircuitKeepsIInv, ReportWitnessKeepsIInv DEF CircuitProbeStep

-----------------------------------------------------------------------------
(***************************************************************************)
(* The probes that measure nothing: their legs are added one at a time     *)
(* under the line of the stage they are in.                                *)
(***************************************************************************)
LEMMA QuietStepKeepsIInv ==
  ASSUME IInv, call \in {SendProbe, WebProbe}, UNCHANGED <<build, printed, measured>>,
         process' \in {"up", "killed", "hung"}, legs' \in Seq(LegsOf),
         \/ /\ call' = call /\ at' \in (IF call = SendProbe THEN SendStages ELSE WebStages)
            /\ line' = Entering(None, at') /\ reply' = reply
         \/ /\ call' = "none" /\ at' = "idle" /\ line' = line /\ reply'.of = call
  PROVE  IInv'
<1>1. /\ call # "none" /\ call # EngineProbe /\ call # CircuitProbe /\ call # ProofProbe
      /\ call \in Calls /\ SendProbe # WebProbe
  BY DEF Calls, EngineProbe, CircuitProbe, ProofProbe, SendProbe, WebProbe
<1>2. probe = None /\ reply = None
  BY <1>1 DEF IInv, Where
<1>3. /\ call' # EngineProbe /\ call' # CircuitProbe /\ call' # ProofProbe /\ call' \in Calls \cup {"none"}
      /\ ~MeasureIsOn'
  BY <1>1 DEF MeasureIsOn, MeasuringCalls, EngineProbe, CircuitProbe, ProofProbe
<1>4. Where'
  <2>1. probe' = None
    BY <1>2 DEF measured
  <2>2. call' = "none" => at' = "idle"
    BY <1>1
  <2>3. call' # "none" => reply' = None
    BY <1>2
  <2>4. call' = SendProbe => at' \in SendStages
    BY <1>1 DEF SendProbe
  <2>5. call' = WebProbe => at' \in WebStages
    BY <1>1 DEF WebProbe
  <2> QED
    BY <1>3, <2>1, <2>2, <2>3, <2>4, <2>5 DEF Where
<1>5. LineNames'
  BY <1>2 DEF LineNames, Entering, SilentStages, measured
<1>6. Counting'
  BY <1>3 DEF IInv, Counting, build, measured
<1>7. Types'
  <2>1. line' \in [backend : Backend \cup {None}, stage : NamedStages \cup {"idle"}]
    BY DEF IInv, Types, Entering, NamedStages, SendStages, WebStages
  <2> QED
    BY <1>1, <2>1 DEF IInv, Types, SendStages, WebStages
<1>8. Fields' /\ Honesty' /\ ProofSays'
  <2>1. reply' = None \/ (reply'.of # CircuitProbe /\ reply'.of # ProofProbe)
    BY <1>1, <1>2
  <2> QED
    BY <1>3, <2>1 DEF IInv, Fields, Honesty, ProofSays, build
<1> QED
  BY <1>4, <1>5, <1>6, <1>7, <1>8 DEF IInv

\* The leg of the stage a call is in is one of the legs a report knows.
LEMMA LegIsKnown ==
  ASSUME NEW name \in NamedStages \cup {"engine-wasm", "verify"}, NEW ok \in BOOLEAN
  PROVE  Leg(name, ok) \in LegsOf
BY DEF Leg, LegsOf

LEMMA SendGoesOnKeepsIInv ==
  ASSUME IInv, call = SendProbe, NEW stage \in SendStages, SendGoesOn(stage)
  PROVE  IInv'
<1>1. at \in SendStages /\ at \in NamedStages /\ legs \in Seq(LegsOf) /\ process \in {"up", "killed", "hung"}
  BY DEF IInv, Where, Types, SendStages, NamedStages
<1>2. legs' \in Seq(LegsOf)
  BY <1>1, LegIsKnown, AppendIs DEF SendGoesOn
<1> QED
  BY <1>1, <1>2, QuietStepKeepsIInv DEF SendGoesOn, SendEnters

LEMMA SendEndsKeepsIInv ==
  ASSUME IInv, call = SendProbe, NEW ok \in BOOLEAN, SendEnds(Append(legs, Leg(at, ok)))
  PROVE  IInv'
<1>1. at \in SendStages /\ at \in NamedStages /\ legs \in Seq(LegsOf) /\ process \in {"up", "killed", "hung"}
  BY DEF IInv, Where, Types, SendStages, NamedStages
<1>2. legs' \in Seq(LegsOf)
  BY <1>1, LegIsKnown, AppendIs DEF SendEnds
<1> QED
  BY <1>1, <1>2, QuietStepKeepsIInv DEF SendEnds, Return, console

LEMMA SendProbeStepKeepsIInv ==
  ASSUME IInv, SendProbeStep
  PROVE  IInv'
<1>1. call = SendProbe
  BY DEF SendProbeStep, DeriveKeys, EncryptShield, BuildSender, SyncSender, CheckBalance, Transfer,
         AskRoot, Within
<1>2. CASE SendFails
  BY <1>1, <1>2, SendEndsKeepsIInv DEF SendFails
<1>3. CASE SendEnds(Append(legs, Leg(at, TRUE)))
  BY <1>1, <1>3, SendEndsKeepsIInv
<1>4. CASE \E stage \in SendStages : SendGoesOn(stage)
  BY <1>1, <1>4, SendGoesOnKeepsIInv
<1>5. \A i \in 1 .. Len(Passes(noted.repeat)) : Passes(noted.repeat)[i] \in SendStages
  <2>1. CASE noted.repeat
    <3>1. Passes(noted.repeat) = <<"transfer-cold", "transfer-warm">>
      BY <2>1 DEF Passes
    <3> QED
      BY <3>1 DEF SendStages
  <2>2. CASE ~noted.repeat
    <3>1. Passes(noted.repeat) = <<"transfer-cold">>
      BY <2>2 DEF Passes
    <3> QED
      BY <3>1 DEF SendStages
  <2> QED
    BY <2>1, <2>2
<1>6. Len(Passes(noted.repeat)) \in Nat /\ 1 \in 1 .. Len(Passes(noted.repeat))
  BY DEF Passes
<1>7. SendFails \/ SendEnds(Append(legs, Leg(at, TRUE))) \/ \E stage \in SendStages : SendGoesOn(stage)
  <2>1. /\ "shield" \in SendStages /\ "engine" \in SendStages /\ "sync" \in SendStages
        /\ "balance" \in SendStages /\ "root-on-chain" \in SendStages
    BY DEF SendStages
  <2>2. CASE DeriveKeys \/ EncryptShield \/ BuildSender \/ SyncSender
    BY <2>1, <2>2 DEF DeriveKeys, EncryptShield, BuildSender, SyncSender
  <2>3. CASE CheckBalance
    BY <1>5, <1>6, <2>3 DEF CheckBalance
  <2>4. CASE Transfer
    <3>1. ASSUME NEW pass \in 1 .. Len(Passes(noted.repeat)), pass < Len(Passes(noted.repeat))
          PROVE  pass + 1 \in 1 .. Len(Passes(noted.repeat))
      BY <1>6, <3>1
    <3> QED
      BY <1>5, <2>1, <2>4, <3>1 DEF Transfer, ProveTransfer
  <2>5. CASE AskRoot
    BY <2>5 DEF AskRoot
  <2> QED
    BY <2>2, <2>3, <2>4, <2>5 DEF SendProbeStep
<1> QED
  BY <1>2, <1>3, <1>4, <1>7

LEMMA WebProbeStepKeepsIInv ==
  ASSUME IInv, WebProbeStep
  PROVE  IInv'
<1>1. call = WebProbe /\ call # SendProbe
  BY DEF WebProbeStep, Answers, FailsToCross, Hangs, CrossWeb, WebProbe, SendProbe
<1>2. /\ at \in WebStages /\ at \in NamedStages /\ at \notin SilentStages /\ legs \in Seq(LegsOf)
      /\ process \in {"up", "killed", "hung"} /\ probe = None /\ reply = None
  BY <1>1 DEF IInv, Where, Types, WebStages, NamedStages, SilentStages, WebProbe
<1>3. CASE Hangs
  <2>1. process' \in {"up", "killed", "hung"} /\ published' \in Artifacts
    BY <1>3 DEF Hangs, build, IInv, Fields
  <2> QED
    BY <1>3, <2>1, UntouchedKeepsIInv DEF Hangs, build
<1>4. ASSUME NEW ok \in BOOLEAN, Crossed(ok)
      PROVE  IInv'
  <2>1. /\ Len(LEGS) = 3 /\ \A i \in 1 .. 3 : LEGS[i] \in WebStages
    BY DEF LEGS, WebStages
  <2> DEFINE ls == Append(legs, Leg(LEGS[Len(legs) + 1], ok))
  <2>2. Len(legs) \in Nat /\ Len(ls) = Len(legs) + 1
    BY <1>2, AppendIs
  <2>3. Len(ls) <= 3
    BY <1>4, <2>1, <2>2 DEF Crossed
  <2>4. LEGS[Len(legs) + 1] \in NamedStages
    BY <2>1, <2>2, <2>3 DEF WebStages, NamedStages
  <2>5. legs' \in Seq(LegsOf) /\ process' = process
    BY <1>2, <1>4, <2>4, LegIsKnown, AppendIs DEF Crossed
  <2>6. CASE Len(ls) < 3
    <3>1. LEGS[Len(ls) + 1] \in WebStages
      BY <2>1, <2>2, <2>6
    <3>2. call' = call /\ at' \in WebStages /\ line' = Entering(None, at') /\ reply' = reply
      BY <1>4, <2>1, <2>6, <3>1 DEF Crossed
    <3> QED
      BY <1>1, <1>2, <1>4, <2>5, <3>2, QuietStepKeepsIInv DEF Crossed
  <2>7. CASE Len(ls) = 3
    <3>1. call' = "none" /\ at' = "idle" /\ line' = line /\ reply'.of = call
      BY <1>1, <1>4, <2>1, <2>7 DEF Crossed, Return
    <3> QED
      BY <1>1, <1>2, <1>4, <2>5, <3>1, QuietStepKeepsIInv DEF Crossed
  <2> QED
    BY <2>2, <2>3, <2>6, <2>7
<1> QED
  BY <1>3, <1>4 DEF WebProbeStep, Answers, FailsToCross

-----------------------------------------------------------------------------
(***************************************************************************)
(* The proof probe: what its legs say, and of which witness.               *)
(***************************************************************************)
Has(ls, leg) == \E i \in 1 .. Len(ls) : ls[i] = leg

LEMMA AppendHas ==
  ASSUME NEW ls \in Seq(LegsOf), NEW e \in LegsOf
  PROVE  /\ Append(ls, e) \in Seq(LegsOf)
         /\ Has(Append(ls, e), e)
         /\ \A leg : Has(Append(ls, e), leg) <=> (Has(ls, leg) \/ leg = e)
         /\ AllGreen(Append(ls, e)) => e.ok
<1>1. /\ Append(ls, e) \in Seq(LegsOf)
      /\ Len(Append(ls, e)) = Len(ls) + 1 /\ Len(ls) \in Nat
      /\ \A i \in 1 .. Len(ls) : Append(ls, e)[i] = ls[i]
      /\ Append(ls, e)[Len(ls) + 1] = e
  BY AppendIs
<1>2. Len(ls) + 1 \in 1 .. Len(Append(ls, e))
  BY <1>1
<1>3. Has(Append(ls, e), e)
  BY <1>1, <1>2 DEF Has
<1>4. ASSUME NEW leg, Has(ls, leg)
      PROVE  Has(Append(ls, e), leg)
  <2>1. PICK i \in 1 .. Len(ls) : ls[i] = leg
    BY <1>4 DEF Has
  <2>2. i \in 1 .. Len(Append(ls, e)) /\ Append(ls, e)[i] = leg
    BY <1>1, <2>1
  <2> QED
    BY <2>2 DEF Has
<1>5. ASSUME NEW leg, Has(Append(ls, e), leg)
      PROVE  Has(ls, leg) \/ leg = e
  <2>1. PICK i \in 1 .. Len(Append(ls, e)) : Append(ls, e)[i] = leg
    BY <1>5 DEF Has
  <2>2. i \in 1 .. Len(ls) \/ i = Len(ls) + 1
    BY <1>1
  <2> QED
    BY <1>1, <2>1, <2>2 DEF Has
<1>6. AllGreen(Append(ls, e)) => e.ok
  BY <1>1, <1>2 DEF AllGreen
<1> QED
  BY <1>1, <1>3, <1>4, <1>5, <1>6

\* The proof probe stays in one of its own stages, with `probe` as it was.
LEMMA ProofGoesOnKeepsIInv ==
  ASSUME IInv, call = ProofProbe, NEW stage \in ProofStages, NEW ls \in Seq(LegsOf),
         ProofGoesOn(ls, stage),
         stage \in {"proving-key", "matrices", "engine-witness"} => probe = None,
         noted' \in ProofRuns,
         stage \notin {"proving-key", "matrices"} => noted'.matrices \in Artifacts,
         stage = "prove" => noted'.witness \in Witness /\ noted'.source \in {"engine", "probe"},
         ~Has(ls, Leg("prove", TRUE)),
         stage = "probe-witness" \/ noted'.source = "probe" => Has(ls, Leg("engine-witness", FALSE))
  PROVE  IInv'
<1>1. /\ at' = stage /\ line' = Entering(None, stage) /\ legs' = ls /\ call' = ProofProbe
      /\ UNCHANGED <<build, process, call, printed, measured, reply>>
  BY DEF ProofGoesOn, ProofEnters
<1>2. /\ call # "none" /\ call # EngineProbe /\ call # CircuitProbe /\ call # SendProbe /\ call # WebProbe
      /\ call \in Calls
  BY DEF Calls, EngineProbe, CircuitProbe, ProofProbe, SendProbe, WebProbe
<1>3. /\ stage \notin MeasureStages /\ stage \notin {"measured", "idle", "fetch"}
      /\ stage \in NamedStages
  BY DEF ProofStages, MeasureStages, NamedStages
<1>4. ~MeasureIsOn'
  BY <1>1, <1>3 DEF MeasureIsOn
<1>5. reply = None /\ probe \in WitnessReports \cup {None} /\ nth = 1
  BY <1>2 DEF IInv, Where, Counting
<1>6. Where'
  BY <1>1, <1>2, <1>3, <1>4, <1>5 DEF Where, measured
<1>7. LineNames'
  <2>1. stage \in {"proving-key", "matrices", "engine-witness"} \/ stage \in {"probe-witness", "prove"}
    BY DEF ProofStages
  <2> QED
    BY <1>1, <2>1 DEF LineNames, Entering, measured
<1>8. Counting'
  BY <1>1, <1>2, <1>4, <1>5 DEF IInv, Counting, build, measured
<1>9. Types'
  <2>1. line' \in [backend : Backend \cup {None}, stage : NamedStages \cup {"idle"}]
    BY <1>1, <1>3 DEF Entering
  <2> QED
    BY <1>1, <1>3, <2>1 DEF IInv, Types
<1>10. Fields'
  BY <1>1, <1>2, <1>4 DEF IInv, Fields, build
<1>11. Honesty'
  BY <1>1, <1>2, <1>4, <1>5 DEF Honesty
<1>12. ProofSays'
  <2>1. OnReplica' => Has(ls, Leg("engine-witness", FALSE))
    BY <1>1, <1>3 DEF OnReplica
  <2> QED
    BY <1>1, <1>5, <2>1 DEF ProofSays, HasLeg, Has
<1> QED
  BY <1>6, <1>7, <1>8, <1>9, <1>10, <1>11, <1>12 DEF IInv

LEMMA ProofEndsKeepsIInv ==
  ASSUME IInv, call = ProofProbe, NEW ls \in Seq(LegsOf), ProofEnds(ls),
         Has(ls, Leg("prove", TRUE)) => noted'.witness.len = noted'.matrices.vars,
         noted'.source = "probe" => Has(ls, Leg("engine-witness", FALSE))
  PROVE  IInv'
<1>1. /\ call' = "none" /\ at' = "idle" /\ reply' = [of |-> ProofProbe, ok |-> ProofOk(ls)]
      /\ legs' = ls /\ UNCHANGED <<build, process, console, measured>>
  BY DEF ProofEnds, Return
<1>2. reply'.of = ProofProbe /\ reply'.ok = ProofOk(ls)
  BY <1>1
<1>3. ~MeasureIsOn'
  BY <1>1 DEF MeasureIsOn, MeasuringCalls, CircuitProbe, ProofProbe
<1>4. Where' /\ LineNames'
  BY <1>1, <1>3 DEF Where, LineNames, SilentStages, EngineProbe, CircuitProbe, ProofProbe, SendProbe, WebProbe
<1>5. Counting' /\ Types' /\ Fields'
  BY <1>1, <1>3 DEF IInv, Counting, Types, Fields, EngineProbe, CircuitProbe, ProofProbe,
                    build, console, measured
<1>6. Honesty'
  BY <1>1, <1>2, <1>3 DEF Honesty, CircuitProbe, ProofProbe
<1>7. ProofSays'
  BY <1>1, <1>2 DEF ProofSays, HasLeg, Has, ProofProbe
<1> QED
  BY <1>4, <1>5, <1>6, <1>7 DEF IInv

\* What the stages of a proof run have between them.
LEMMA ProofRunIs ==
  ASSUME IInv, call = ProofProbe
  PROVE  /\ legs \in Seq(LegsOf) /\ noted \in ProofRuns /\ published \in Artifacts
         /\ nth = 1 /\ reply = None /\ image \in Image
         /\ ~Has(legs, Leg("prove", TRUE))
         /\ OnReplica => Has(legs, Leg("engine-witness", FALSE))
         /\ at \in {"proving-key", "matrices", "engine-witness"} => probe = None
         /\ at \notin {"proving-key", "matrices"} => noted.matrices \in Artifacts
         /\ at = "measured" => probe \in WitnessReports
<1>1. call # "none"
  BY DEF ProofProbe
<1> QED
  BY <1>1 DEF IInv, Where, Counting, Types, Fields, ProofSays, HasLeg, Has, MeasureIsOn, MeasuringCalls

\* A leg and another after it are added as one at a time.
LEMMA TwoLegs ==
  ASSUME NEW ls \in Seq(LegsOf), NEW e \in LegsOf, NEW f \in LegsOf
  PROVE  ls \o <<e, f>> = Append(Append(ls, e), f)
OBVIOUS

LEMMA OneLeg ==
  ASSUME NEW ls \in Seq(LegsOf), NEW e \in LegsOf
  PROVE  ls \o <<e>> = Append(ls, e)
OBVIOUS

\* The legs of a proof run, and which of them are told apart.
LEMMA LegsOfAProof ==
  /\ \A name \in {"proving-key", "matrices", "engine-wasm", "engine-witness", "probe-witness",
                  "prove", "verify"}, ok \in BOOLEAN :
       /\ Leg(name, ok) \in LegsOf /\ Leg(name, ok).ok = ok
       /\ Leg(name, ok) = Leg("prove", TRUE) <=> (name = "prove" /\ ok)
BY DEF Leg, LegsOf, NamedStages

ProofLegs ==
  {"proving-key", "matrices", "engine-wasm", "engine-witness", "probe-witness", "verify"}

\* A leg that is not the proof's adds nothing to be answered for.
LEMMA LegAdded ==
  ASSUME NEW ls \in Seq(LegsOf), ~Has(ls, Leg("prove", TRUE)), NEW name \in ProofLegs \cup {"prove"},
         NEW ok \in BOOLEAN, name # "prove" \/ ~ok
  PROVE  /\ Append(ls, Leg(name, ok)) \in Seq(LegsOf)
         /\ ~Has(Append(ls, Leg(name, ok)), Leg("prove", TRUE))
         /\ Has(Append(ls, Leg(name, ok)), Leg(name, ok))
         /\ \A leg : Has(ls, leg) => Has(Append(ls, Leg(name, ok)), leg)
         /\ AllGreen(Append(ls, Leg(name, ok))) => ok
<1>1. /\ Leg(name, ok) \in LegsOf /\ Leg(name, ok).ok = ok
      /\ Leg(name, ok) = Leg("prove", TRUE) <=> (name = "prove" /\ ok)
  BY LegsOfAProof DEF ProofLegs
<1>2. Leg(name, ok) # Leg("prove", TRUE)
  BY <1>1
<1> DEFINE e == Leg(name, ok)
<1>3. /\ Append(ls, e) \in Seq(LegsOf)
      /\ Has(Append(ls, e), e)
      /\ \A leg : Has(Append(ls, e), leg) <=> (Has(ls, leg) \/ leg = e)
      /\ AllGreen(Append(ls, e)) => e.ok
  BY <1>1, AppendHas
<1> QED
  BY <1>1, <1>2, <1>3

\* A run that stops at a leg of its own is red.
LEMMA ProofStopsKeepsIInv ==
  ASSUME IInv, call = ProofProbe, NEW name \in ProofLegs \cup {"prove"}, noted' = noted,
         ProofEnds(Append(legs, Leg(name, FALSE)))
  PROVE  IInv'
<1>1. /\ legs \in Seq(LegsOf) /\ ~Has(legs, Leg("prove", TRUE))
      /\ noted.source = "probe" => Has(legs, Leg("engine-witness", FALSE))
  BY ProofRunIs DEF OnReplica
<1> DEFINE ls == Append(legs, Leg(name, FALSE))
<1>2. /\ ls \in Seq(LegsOf) /\ ~Has(ls, Leg("prove", TRUE))
      /\ \A leg : Has(legs, leg) => Has(ls, leg)
  BY <1>1, LegAdded
<1>3. ProofEnds(ls)
  OBVIOUS
<1> HIDE DEF ls
<1> QED
  BY <1>1, <1>2, <1>3, ProofEndsKeepsIInv

LEMMA LoadProvingKeyKeepsIInv ==
  ASSUME IInv, LoadProvingKey
  PROVE  IInv'
<1>1. call = ProofProbe /\ at = "proving-key" /\ noted' = noted
  BY DEF LoadProvingKey, Within
<1>2. CASE ProofGoesOn(Append(legs, Leg("proving-key", TRUE)), "matrices")
  <2>1. /\ legs \in Seq(LegsOf) /\ ~Has(legs, Leg("prove", TRUE)) /\ noted \in ProofRuns
        /\ noted.source = "probe" => Has(legs, Leg("engine-witness", FALSE))
        /\ probe = None
    BY <1>1, ProofRunIs DEF OnReplica
  <2> DEFINE ls == Append(legs, Leg("proving-key", TRUE))
  <2>2. /\ ls \in Seq(LegsOf) /\ ~Has(ls, Leg("prove", TRUE))
        /\ \A leg : Has(legs, leg) => Has(ls, leg)
    BY <2>1, LegAdded DEF ProofLegs
  <2>3. ProofGoesOn(ls, "matrices") /\ "matrices" \in ProofStages
    BY <1>2 DEF ProofStages
  <2> HIDE DEF ls
  <2> QED
    BY <1>1, <2>1, <2>2, <2>3, ProofGoesOnKeepsIInv
<1>3. CASE ProofEnds(Append(legs, Leg("proving-key", FALSE)))
  BY <1>1, <1>3, ProofStopsKeepsIInv DEF ProofLegs
<1> QED
  BY <1>2, <1>3 DEF LoadProvingKey

LEMMA LoadMatricesKeepsIInv ==
  ASSUME IInv, LoadMatrices
  PROVE  IInv'
<1>1. call = ProofProbe /\ at = "matrices"
  BY DEF LoadMatrices, Within
<1>2. CASE /\ noted' = [noted EXCEPT !.matrices = published]
           /\ ProofGoesOn(Append(legs, Leg("matrices", TRUE)), "engine-witness")
  <2>1. /\ legs \in Seq(LegsOf) /\ ~Has(legs, Leg("prove", TRUE)) /\ noted \in ProofRuns
        /\ noted.source = "probe" => Has(legs, Leg("engine-witness", FALSE))
        /\ probe = None /\ published \in Artifacts
    BY <1>1, ProofRunIs DEF OnReplica
  <2> DEFINE ls == Append(legs, Leg("matrices", TRUE))
  <2>2. /\ ls \in Seq(LegsOf) /\ ~Has(ls, Leg("prove", TRUE))
        /\ \A leg : Has(legs, leg) => Has(ls, leg)
    BY <2>1, LegAdded DEF ProofLegs
  <2>3. ProofGoesOn(ls, "engine-witness") /\ "engine-witness" \in ProofStages
    BY <1>2 DEF ProofStages
  <2>4. /\ noted' \in ProofRuns /\ noted'.matrices = published /\ noted'.source = noted.source
    BY <1>2, <2>1 DEF ProofRuns
  <2> HIDE DEF ls
  <2> QED
    BY <1>1, <2>1, <2>2, <2>3, <2>4, ProofGoesOnKeepsIInv
<1>3. CASE UNCHANGED noted /\ ProofEnds(Append(legs, Leg("matrices", FALSE)))
  BY <1>1, <1>3, ProofStopsKeepsIInv DEF ProofLegs
<1> QED
  BY <1>2, <1>3 DEF LoadMatrices

LEMMA EngineWitnessKeepsIInv ==
  ASSUME IInv, EngineWitness
  PROVE  IInv'
<1>1. /\ call = ProofProbe /\ at = "engine-witness"
      /\ ProofGoesOn(legs \o <<Leg("engine-wasm", TRUE), Leg("engine-witness", TRUE)>>, "prove")
  BY DEF EngineWitness, Within
<1>2. PICK w \in WitnessesOf(published) :
        noted' = [noted EXCEPT !.source = "engine", !.witness = w]
  BY DEF EngineWitness
<1>3. /\ legs \in Seq(LegsOf) /\ ~Has(legs, Leg("prove", TRUE)) /\ noted \in ProofRuns
      /\ noted.matrices \in Artifacts /\ published \in Artifacts
  BY <1>1, ProofRunIs
<1>4. w \in Witness
  BY <1>3, OnlyTheRightCircuitIsWhole
<1>5. /\ noted' \in ProofRuns /\ noted'.matrices = noted.matrices /\ noted'.source = "engine"
      /\ noted'.witness = w
  BY <1>2, <1>3, <1>4 DEF ProofRuns
<1> DEFINE ls == Append(Append(legs, Leg("engine-wasm", TRUE)), Leg("engine-witness", TRUE))
<1>6. ls \in Seq(LegsOf) /\ ~Has(ls, Leg("prove", TRUE))
  BY <1>3, LegAdded DEF ProofLegs
<1>7. legs \o <<Leg("engine-wasm", TRUE), Leg("engine-witness", TRUE)>> = ls
  BY <1>3, TwoLegs, LegsOfAProof
<1>8. ProofGoesOn(ls, "prove") /\ "prove" \in ProofStages
  BY <1>1, <1>7 DEF ProofStages
<1> HIDE DEF ls
<1> QED
  BY <1>1, <1>3, <1>4, <1>5, <1>6, <1>8, ProofGoesOnKeepsIInv

LEMMA EngineGivesNoneKeepsIInv ==
  ASSUME IInv, EngineGivesNone
  PROVE  IInv'
<1>1. /\ call = ProofProbe /\ at = "engine-witness" /\ noted' = noted
  BY DEF EngineGivesNone, Within
<1>2. /\ legs \in Seq(LegsOf) /\ ~Has(legs, Leg("prove", TRUE)) /\ noted \in ProofRuns
      /\ noted.matrices \in Artifacts
  BY <1>1, ProofRunIs
<1>3. ASSUME NEW ls \in Seq(LegsOf), ~Has(ls, Leg("prove", TRUE)),
             ProofGoesOn(ls \o <<Leg("engine-witness", FALSE)>>, "probe-witness")
      PROVE  IInv'
  <2> DEFINE all == Append(ls, Leg("engine-witness", FALSE))
  <2>1. all \in Seq(LegsOf) /\ ~Has(all, Leg("prove", TRUE)) /\ Has(all, Leg("engine-witness", FALSE))
    BY <1>3, LegAdded DEF ProofLegs
  <2>2. ls \o <<Leg("engine-witness", FALSE)>> = all
    BY <1>3, OneLeg, LegsOfAProof
  <2>3. ProofGoesOn(all, "probe-witness") /\ "probe-witness" \in ProofStages
    BY <1>3, <2>2 DEF ProofStages
  <2> HIDE DEF all
  <2> QED
    BY <1>1, <1>2, <2>1, <2>3, ProofGoesOnKeepsIInv
<1>4. PICK loaded \in BOOLEAN :
        ProofGoesOn(legs \o (IF loaded THEN <<Leg("engine-wasm", TRUE)>> ELSE <<>>)
                         \o <<Leg("engine-witness", FALSE)>>, "probe-witness")
  BY DEF EngineGivesNone
<1>5. CASE loaded
  <2> DEFINE ls == Append(legs, Leg("engine-wasm", TRUE))
  <2>1. ls \in Seq(LegsOf) /\ ~Has(ls, Leg("prove", TRUE))
    BY <1>2, LegAdded DEF ProofLegs
  <2>2. legs \o <<Leg("engine-wasm", TRUE)>> = ls
    BY <1>2, OneLeg, LegsOfAProof
  <2>3. ProofGoesOn(ls \o <<Leg("engine-witness", FALSE)>>, "probe-witness")
    BY <1>4, <1>5, <2>2
  <2> HIDE DEF ls
  <2> QED
    BY <1>3, <2>1, <2>3
<1>6. CASE ~loaded
  <2>1. legs \o <<>> = legs
    BY <1>2
  <2>2. ProofGoesOn(legs \o <<Leg("engine-witness", FALSE)>>, "probe-witness")
    BY <1>4, <1>6, <2>1
  <2> QED
    BY <1>2, <1>3, <2>2
<1> QED
  BY <1>5, <1>6

LEMMA FetchReplicaKeepsIInv ==
  ASSUME IInv, FetchReplica
  PROVE  IInv'
<1>1. call = ProofProbe /\ at = "probe-witness"
  BY DEF FetchReplica, Within
<1>2. CASE /\ ProofEnds(Append(legs, Leg("probe-witness", FALSE)))
           /\ UNCHANGED noted
  BY <1>1, <1>2, ProofStopsKeepsIInv DEF ProofLegs
<1>3. CASE /\ noted' = [noted EXCEPT !.wasm = published]
           /\ asked' = <<ENGINE_BACKEND>>
           /\ EnterMeasure(ENGINE_BACKEND)
           /\ UNCHANGED <<build, process, call, printed, nth, probes, legs, reply>>
  <2>1. ENGINE_BACKEND \in Backend
    BY DEF ENGINE_BACKEND, Backend
  <2>2. /\ at' = "engine" /\ probe' \in WitnessReports /\ probe' # None
        /\ probe'.requested = ENGINE_BACKEND /\ probe'.reached = "engine" /\ Honest(probe')
        /\ line' = Entering(ENGINE_BACKEND, "engine")
        /\ line' \in [backend : Backend \cup {None}, stage : NamedStages \cup {"idle"}]
    BY <1>3, <2>1, EnterMeasureIs
  <2>3. /\ legs \in Seq(LegsOf) /\ noted \in ProofRuns /\ published \in Artifacts
        /\ nth = 1 /\ reply = None
        /\ ~Has(legs, Leg("prove", TRUE)) /\ Has(legs, Leg("engine-witness", FALSE))
        /\ noted.matrices \in Artifacts
    BY <1>1, ProofRunIs DEF OnReplica
  <2>4. /\ noted' \in ProofRuns /\ noted'.wasm = published /\ noted'.matrices = noted.matrices
    BY <1>3, <2>3 DEF ProofRuns
  <2>5. /\ asked' \in Seq(Backend) /\ Len(asked') = 1 /\ asked'[1] = ENGINE_BACKEND
        /\ nth' = 1 /\ asked'[nth'] = ENGINE_BACKEND
    BY <1>3, <2>1, <2>3
  <2>6. Where' /\ LineNames'
    BY <1>1, <1>3, <2>2, <2>3, <2>5
    DEF Where, LineNames, Entering, Calls, MeasureIsOn, MeasureStages, EngineProbe,
        CircuitProbe, ProofProbe, SendProbe, WebProbe
  <2>7. Counting'
    BY <1>1, <1>3, <2>2, <2>5 DEF IInv, Counting, MeasureIsOn, EngineProbe, CircuitProbe, ProofProbe, build
  <2>8. Types' /\ Fields'
    BY <1>1, <1>3, <2>2, <2>3, <2>4 DEF IInv, Types, Fields, CircuitProbe, ProofProbe, build
  <2>9. Honesty'
    BY <1>1, <1>3, <2>2, <2>3 DEF Honesty, Honest, GeneratedAWitness, CircuitProbe, ProofProbe
  <2>10. ProofSays'
    BY <1>1, <1>3, <2>2, <2>3 DEF ProofSays, HasLeg, Has
  <2> QED
    BY <2>6, <2>7, <2>8, <2>9, <2>10 DEF IInv
<1> QED
  BY <1>2, <1>3 DEF FetchReplica

LEMMA TakeReplicaKeepsIInv ==
  ASSUME IInv, TakeReplica
  PROVE  IInv'
<1>1. call = ProofProbe /\ at = "measured"
  BY DEF TakeReplica, Within
<1>2. CASE UNCHANGED noted /\ ProofEnds(Append(legs, Leg("probe-witness", FALSE)))
  BY <1>1, <1>2, ProofStopsKeepsIInv DEF ProofLegs
<1>3. CASE /\ probe.witness # None
           /\ noted' = [noted EXCEPT !.source = "probe", !.witness = probe.witness]
           /\ ProofGoesOn(Append(legs, Leg("probe-witness", TRUE)), "prove")
  <2>1. /\ legs \in Seq(LegsOf) /\ ~Has(legs, Leg("prove", TRUE)) /\ noted \in ProofRuns
        /\ noted.matrices \in Artifacts /\ Has(legs, Leg("engine-witness", FALSE))
        /\ probe \in WitnessReports
    BY <1>1, ProofRunIs DEF OnReplica
  <2>2. probe.witness \in Witness
    BY <1>3, <2>1 DEF WitnessReports
  <2>3. /\ noted' \in ProofRuns /\ noted'.matrices = noted.matrices /\ noted'.source = "probe"
        /\ noted'.witness \in Witness
    BY <1>3, <2>1, <2>2 DEF ProofRuns
  <2> DEFINE ls == Append(legs, Leg("probe-witness", TRUE))
  <2>4. /\ ls \in Seq(LegsOf) /\ ~Has(ls, Leg("prove", TRUE))
        /\ Has(ls, Leg("engine-witness", FALSE))
    BY <2>1, LegAdded DEF ProofLegs
  <2>5. ProofGoesOn(ls, "prove") /\ "prove" \in ProofStages
    BY <1>3 DEF ProofStages
  <2> HIDE DEF ls
  <2> QED
    BY <1>1, <2>1, <2>3, <2>4, <2>5, ProofGoesOnKeepsIInv
<1> QED
  BY <1>2, <1>3 DEF TakeReplica

\* A witness of the length the matrices say has the length of their circuit.
LEMMA ProverLengthIsTheCircuits ==
  ASSUME NEW a \in Artifacts, NEW w \in Witness, WitnessLenCheck(a, w)
  PROVE  w.len = a.vars
<1>1. a.vars \in Nat /\ a.public \in Nat
  BY ArtifactsAssumption DEF Artifact
<1> QED
  BY <1>1 DEF WitnessLenCheck, ExpectedWitnessLen, NumInstance, NumWitness, Witness

LEMMA ProveKeepsIInv ==
  ASSUME IInv, Prove
  PROVE  IInv'
<1>1. call = ProofProbe /\ at = "prove" /\ noted' = noted
  BY DEF Prove, Within
<1>2. CASE ProofEnds(Append(legs, Leg("prove", FALSE)))
  BY <1>1, <1>2, ProofStopsKeepsIInv
<1>3. CASE /\ WitnessLenCheck(noted.matrices, noted.witness)
           /\ ProofEnds(legs \o <<Leg("prove", TRUE), Leg("verify", TRUE)>>)
  <2>1. /\ legs \in Seq(LegsOf) /\ noted.matrices \in Artifacts
        /\ noted.source = "probe" => Has(legs, Leg("engine-witness", FALSE))
    BY <1>1, ProofRunIs DEF OnReplica
  <2>2. noted.witness \in Witness /\ noted.source \in {"engine", "probe"}
    BY <1>1 DEF IInv, Fields, ProofSays
  <2>3. noted.witness.len = noted.matrices.vars
    BY <1>3, <2>1, <2>2, ProverLengthIsTheCircuits
  <2> DEFINE proved == Append(legs, Leg("prove", TRUE))
             ls == Append(proved, Leg("verify", TRUE))
  <2>4. Leg("prove", TRUE) \in LegsOf /\ Leg("verify", TRUE) \in LegsOf
    BY LegsOfAProof
  <2>5. proved \in Seq(LegsOf) /\ \A leg : Has(legs, leg) => Has(proved, leg)
    BY <2>1, <2>4, AppendHas
  <2>6. ls \in Seq(LegsOf) /\ \A leg : Has(legs, leg) => Has(ls, leg)
    <3> HIDE DEF proved
    <3> QED
      BY <2>4, <2>5, AppendHas
  <2>7. ProofEnds(ls)
    BY <1>3, <2>1, <2>4, TwoLegs
  <2> HIDE DEF ls
  <2> QED
    BY <1>1, <2>1, <2>3, <2>6, <2>7, ProofEndsKeepsIInv
<1> QED
  BY <1>2, <1>3 DEF Prove

LEMMA ProofProbeStepKeepsIInv ==
  ASSUME IInv, ProofProbeStep
  PROVE  IInv'
BY LoadProvingKeyKeepsIInv, LoadMatricesKeepsIInv, EngineWitnessKeepsIInv, EngineGivesNoneKeepsIInv,
   FetchReplicaKeepsIInv, TakeReplicaKeepsIInv, ProveKeepsIInv DEF ProofProbeStep

-----------------------------------------------------------------------------
LEMMA NextKeepsIInv ==
  ASSUME IInv, [Next]_vars
  PROVE  IInv'
<1>1. CASE UNCHANGED vars
  <2>1. published' \in Artifacts /\ process' \in {"up", "killed", "hung"}
    BY <1>1 DEF vars, build, IInv, Fields, Types
  <2> QED
    BY <1>1, <2>1, UntouchedKeepsIInv DEF vars, build
<1>2. CASE Publish
  <2>1. published' \in Artifacts /\ process' \in {"up", "killed", "hung"}
    BY <1>2 DEF Publish, IInv, Types
  <2> QED
    BY <1>2, <2>1, UntouchedKeepsIInv DEF Publish
<1>3. CASE Killed
  <2>1. published' \in Artifacts /\ process' \in {"up", "killed", "hung"}
    BY <1>3 DEF Killed, build, IInv, Fields
  <2> QED
    BY <1>3, <2>1, UntouchedKeepsIInv DEF Killed, build
<1>4. CASE ProbeStep
  BY <1>4, EngineProbeStepKeepsIInv, MeasureStepKeepsIInv, CircuitProbeStepKeepsIInv,
     ProofProbeStepKeepsIInv, SendProbeStepKeepsIInv, WebProbeStepKeepsIInv DEF ProbeStep
<1> QED
  BY <1>1, <1>2, <1>3, <1>4, CallsArriveKeepsIInv, RelaunchKeepsIInv DEF Next

(***************************************************************************)
(* The invariant the results below read off: where each probe is, what the *)
(* console says of it, which backend is being measured, and what the       *)
(* report in hand is entitled to say.                                      *)
(***************************************************************************)
THEOREM DeviceProbesInvariant == Spec => []IInv
<1>1. Init => IInv
  BY InitEstablishesIInv
<1>2. IInv /\ [Next]_vars => IInv'
  BY NextKeepsIInv
<1> QED
  BY <1>1, <1>2, PTL DEF Spec

(***************************************************************************)
(* Wherever a probe is cut off, the last line of the console names the     *)
(* stage and the backend (`entering` of every probe).                      *)
(***************************************************************************)
THEOREM SilencesAreNamed == Spec => []SilenceIsNamed
<1>1. IInv => SilenceIsNamed
  BY DEF IInv, LineNames, SilenceIsNamed
<1> QED
  BY <1>1, DeviceProbesInvariant, PTL

(***************************************************************************)
(* A process killed over the engine's own backend has printed what every   *)
(* other backend of its image did (PROBE_ORDER, probe_backend).            *)
(***************************************************************************)
THEOREM SurvivorsAreOnTheConsole == Spec => []SurvivorsArePrinted
<1>1. ASSUME IInv,
             call \in {EngineProbe, CircuitProbe}, asked = PROBE_ORDER,
             at \notin {"fetch", "measured"}, asked[nth] = EngineDefault,
             NEW backend \in Backend \ {EngineDefault}, InImage(backend)
      PROVE  backend \in printed
  <2>1. image \in Image
    BY <1>1 DEF IInv, Counting
  <2>2. backend = Wasmi /\ Wasmi # EngineDefault
    BY DEF Backend, Wasmi, EngineDefault
  <2>3. image.target # "android"
    BY <1>1, <2>2 DEF InImage, PROBE_ORDER
  <2>4. asked = <<Wasmi, EngineDefault>>
    BY <1>1, <2>3 DEF PROBE_ORDER
  <2>5. nth \in 1 .. Len(asked) \/ nth = 1
    BY <1>1 DEF IInv, Counting
  <2>6. nth = 2
    BY <1>1, <2>2, <2>4, <2>5
  <2>7. asked[1] \in printed
    <3>1. \A i \in 1 .. nth - 1 : asked[i] \in printed
      BY <1>1 DEF IInv, Counting
    <3> QED
      BY <2>6, <3>1
  <2> QED
    BY <2>2, <2>4, <2>7
<1>2. IInv => SurvivorsArePrinted
  BY <1>1 DEF SurvivorsArePrinted
<1> QED
  BY <1>2, DeviceProbesInvariant, PTL

(***************************************************************************)
(* A green witness of a circuit that answered for its signals was whole,   *)
(* and a proof is over a witness as long as its matrices need, although    *)
(* the files are read from a branch that moves; a run over the replica's   *)
(* says that the engine gave none (check_signals, witness_len_check, run). *)
(***************************************************************************)
THEOREM MeasuredCircuitsRan == Spec => []MeasuredCircuitRan
<1>1. IInv => MeasuredCircuitRan
  BY DEF IInv, Honesty, Honest, ProofSays, HasLeg, MeasuredCircuitRan
<1> QED
  BY <1>1, DeviceProbesInvariant, PTL

(***************************************************************************)
(* The values the variables of the device probes take.                     *)
(***************************************************************************)
THEOREM DeviceProbesTypeCorrect == Spec => []TypeOK
<1>1. ASSUME IInv PROVE TypeOK
  <2>1. at \in NamedStages \cup SilentStages
    BY <1>1 DEF IInv, Where, NamedStages, SilentStages, Calls, EngineStages, MeasureStages, ProofStages,
                SendStages, WebStages
  <2>2. call = "none" <=> at = "idle"
    BY <1>1 DEF IInv, Where, Types
  <2>3. (call = ProofProbe \/ call = CircuitProbe) => probe \in WitnessReports \cup {None}
    BY <1>1 DEF IInv, Where, MeasureIsOn, MeasuringCalls
  <2>4. /\ image \in Image /\ published \in Artifacts /\ process \in {"up", "killed", "hung"}
        /\ call \in Calls \cup {"none"}
        /\ line \in [backend : Backend \cup {None}, stage : NamedStages \cup {"idle"}]
        /\ printed \subseteq Backend /\ asked \in Seq(Backend)
        /\ nth \in 1 .. Len(asked) \/ nth = 1
    BY <1>1 DEF IInv, Where, Counting, Types, Fields
  <2>5. /\ call = EngineProbe => probe \in EngineReports
        /\ call = EngineProbe => probes \in Seq(EngineReports)
        /\ call = CircuitProbe => probes \in Seq(WitnessReports)
        /\ legs \in Seq([name : NamedStages \cup {"engine-wasm", "verify"}, ok : BOOLEAN])
        /\ call = ProofProbe => noted \in ProofRuns
    BY <1>1 DEF IInv, Where, Counting, Types, Fields, LegsOf
  <2> QED
    BY <2>1, <2>2, <2>3, <2>4, <2>5 DEF TypeOK
<1> QED
  BY <1>1, DeviceProbesInvariant, PTL

-----------------------------------------------------------------------------
(***************************************************************************)
(* What a verdict is about.  A second invariant, over the first: the legs  *)
(* a run has taken so far, and the replies that were given.                *)
(***************************************************************************)
\* The whole way of a private send, the question to the chain included.
Way(repeat) ==
  IF repeat
  THEN <<"keys", "shield", "engine", "sync", "balance", "transfer-cold", "transfer-warm",
         "root-on-chain">>
  ELSE <<"keys", "shield", "engine", "sync", "balance", "transfer-cold", "root-on-chain">>

Sends ==
  [shield : Amounts, transfer : Amounts, repeat : BOOLEAN, read : BOOLEAN,
   balance : Nat \cup {None}, proved : Nat, root : BOOLEAN, on_chain : BOOLEAN \cup {None}]

\* A send has green legs for the stages before the one it is in.
SendNotes ==
  call = SendProbe =>
    /\ noted \in Sends
    /\ Len(legs) < Len(Way(noted.repeat)) /\ at = Way(noted.repeat)[Len(legs) + 1]
    /\ \A i \in 1 .. Len(legs) : legs[i] = Leg(Way(noted.repeat)[i], TRUE)
    /\ at = "root-on-chain" => noted.root /\ noted.proved = Len(Passes(noted.repeat))
    /\ at = "transfer-warm" => noted.proved = 1
    /\ at \notin {"transfer-warm", "root-on-chain"} => noted.proved = 0
    /\ at \in {"transfer-cold", "transfer-warm", "root-on-chain"} =>
         (noted.shield > 0 => noted.read)

\* A proof run goes on over one kind of red leg only.
ProofNotes ==
  call = ProofProbe => \A i \in 1 .. Len(legs) : legs[i].ok \/ legs[i].name = "engine-witness"

Webs ==
  [dispatch : Thread, load : {"load", None}, saw : Identity \cup {None},
   named : Seq(Identity \cup {Unreadable})]

\* A name that was seen is the last one the page gave.
LastNameSeen(n) ==
  n.saw = THIS_MODULE => n.named # <<>> /\ n.named[Len(n.named)] = THIS_MODULE
WebNotes == call = WebProbe => noted \in Webs /\ LastNameSeen(noted)

SInv == SendNotes /\ ProofNotes /\ WebNotes /\ LegsSayWhereItStopped /\ VerdictsAreEarned

LEMMA NothingSaidKeepsSInv ==
  ASSUME call' \notin {SendProbe, ProofProbe, WebProbe},
         reply' = None \/ reply'.of \notin {SendProbe, ProofProbe, WebProbe, EngineProbe}
  PROVE  SInv'
BY DEF SInv, SendNotes, ProofNotes, WebNotes, LegsSayWhereItStopped, VerdictsAreEarned,
       HeadlineIsTheEngines, NamedAsCaller

LEMMA UntouchedKeepsSInv ==
  ASSUME SInv, UNCHANGED <<image, call, at, probes, run, reply>>
  PROVE  SInv'
<1> USE DEF run
<1>1. SendNotes' /\ ProofNotes' /\ WebNotes'
  BY DEF SInv, SendNotes, ProofNotes, WebNotes, LastNameSeen
<1>2. LegsSayWhereItStopped'
  BY DEF SInv, LegsSayWhereItStopped
<1>3. HeadlineIsTheEngines'
  <2>1. PROBE_ORDER' = PROBE_ORDER
    BY DEF PROBE_ORDER
  <2> QED
    BY <2>1 DEF SInv, VerdictsAreEarned, HeadlineIsTheEngines, EngineBackendRan, ENGINE_BACKEND
<1>4. NamedAsCaller'
  BY DEF SInv, VerdictsAreEarned, NamedAsCaller, IsPage
<1> QED
  BY <1>1, <1>2, <1>3, <1>4 DEF SInv, VerdictsAreEarned

LEMMA CallsArriveKeepsSInv ==
  ASSUME CallsArrive
  PROVE  SInv'
<1>1. reply' = None /\ legs' = <<>>
  BY DEF CallsArrive, CallEngineProbe, CallCircuitProbe, CallProofProbe, CallSendProbe, CallWebProbe, Begin
<1>2. LegsSayWhereItStopped' /\ VerdictsAreEarned'
  BY <1>1 DEF LegsSayWhereItStopped, VerdictsAreEarned, HeadlineIsTheEngines, NamedAsCaller
<1>3. ProofNotes'
  BY <1>1 DEF ProofNotes
<1>4. CASE CallEngineProbe \/ CallProofProbe
           \/ \E circuit \in Circuits, names \in Requests : CallCircuitProbe(circuit, names)
  <2>1. SendNotes' /\ WebNotes'
    BY <1>4 DEF CallEngineProbe, CallProofProbe, CallCircuitProbe, Begin, SendNotes, WebNotes,
                EngineProbe, CircuitProbe, ProofProbe, SendProbe, WebProbe
  <2> QED
    BY <1>2, <1>3, <2>1 DEF SInv
<1>5. ASSUME NEW shield \in Amounts, NEW transfer \in Amounts, NEW repeat \in BOOLEAN,
             CallSendProbe(shield, transfer, repeat)
      PROVE  SInv'
  <2>1. call' = SendProbe /\ at' = "keys" /\ noted' = Send(shield, transfer, repeat)
    BY <1>5 DEF CallSendProbe, Begin
  <2>2. noted' \in Sends /\ noted'.proved = 0
    BY <2>1 DEF Send, Sends
  <2>3. \A r : Len(Way(r)) \in {7, 8} /\ Way(r)[1] = "keys"
    BY DEF Way
  <2>4. SendNotes'
    BY <1>1, <2>1, <2>2, <2>3 DEF SendNotes
  <2>5. WebNotes'
    BY <2>1 DEF WebNotes, SendProbe, WebProbe
  <2> QED
    BY <1>2, <1>3, <2>4, <2>5 DEF SInv
<1>6. ASSUME NEW dispatch \in Thread, NEW recorded \in BOOLEAN, CallWebProbe(dispatch, recorded)
      PROVE  SInv'
  <2>1. call' = WebProbe /\ noted' = Web(dispatch, IF recorded THEN "load" ELSE None)
    BY <1>6 DEF CallWebProbe, Begin
  <2>2. noted' \in Webs /\ noted'.saw = None
    BY <2>1 DEF Web, Webs
  <2>3. None # THIS_MODULE
    BY NoneAssumption DEF Identity
  <2>4. WebNotes'
    BY <2>2, <2>3 DEF WebNotes, LastNameSeen
  <2>5. SendNotes'
    BY <2>1 DEF SendNotes, SendProbe, WebProbe
  <2> QED
    BY <1>2, <1>3, <2>4, <2>5 DEF SInv
<1> QED
  BY <1>4, <1>5, <1>6 DEF CallsArrive

\* The headline of the engine probe is its last report, and only that one is
\* of the engine's own backend.
LEMMA EngineMeasuredKeepsSInv ==
  ASSUME IInv, call = EngineProbe, NEW p \in EngineReports, p.requested = probe.requested,
         EngineMeasured(p)
  PROVE  SInv'
<1>1. /\ p.requested = asked[nth] /\ nth \in 1 .. Len(asked) /\ reply = None
      /\ probes \in Seq(EngineReports) /\ Len(probes) = nth - 1
      /\ \A i \in 1 .. nth - 1 : probes[i].requested = asked[i]
      /\ asked = PROBE_ORDER /\ image \in Image /\ asked \in Seq(Backend)
  BY DEF IInv, Where, Counting, EngineProbe
<1>2. probes' = Append(probes, p) /\ PROBE_ORDER' = PROBE_ORDER /\ image' = image
  BY DEF EngineMeasured, build, PROBE_ORDER
<1>3. CASE call' = EngineProbe /\ reply' = None
  BY <1>3, NothingSaidKeepsSInv DEF EngineProbe, SendProbe, ProofProbe, WebProbe
<1>4. CASE nth = Len(asked) /\ Return(EngineProbe, RanTheEmittedCode(Headline(Append(probes, p))))
  <2>1. /\ probes' \in Seq(EngineReports) /\ Len(probes') = nth
        /\ \A i \in 1 .. nth - 1 : probes'[i] = probes[i]
        /\ probes'[nth] = p
    BY <1>1, <1>2, AppendIs
  <2>2. /\ call' = "none" /\ reply' = [of |-> EngineProbe, ok |-> RanTheEmittedCode(p)]
    BY <1>2, <1>4, <2>1 DEF Return, Headline
  <2>3. p.requested = EngineDefault /\ \A i \in 1 .. nth - 1 : probes'[i].requested # EngineDefault
    <3>1. Wasmi # EngineDefault
      BY DEF Wasmi, EngineDefault
    <3> QED
      BY <1>1, <1>4, <2>1, <3>1, OrderIs
  <2>4. image.target # "ios" => (RanTheEmittedCode(p) <=> EngineBackendRan')
    <3>1. \A i \in 1 .. Len(probes') : probes'[i].requested = EngineDefault => i = nth
      BY <1>1, <2>1, <2>3
    <3>2. nth \in 1 .. Len(probes')
      BY <1>1, <2>1
    <3>3. image.target # "ios" => ENGINE_BACKEND' = EngineDefault
      BY <1>2 DEF ENGINE_BACKEND
    <3> QED
      BY <2>1, <2>3, <3>1, <3>2, <3>3 DEF EngineBackendRan, RanTheEmittedCode
  <2>5. HeadlineIsTheEngines'
    BY <1>1, <1>2, <1>4, <2>1, <2>2, <2>4 DEF HeadlineIsTheEngines
  <2> QED
    BY <2>2, <2>5 DEF SInv, SendNotes, ProofNotes, WebNotes, LegsSayWhereItStopped, VerdictsAreEarned,
                      NamedAsCaller, EngineProbe, SendProbe, ProofProbe, WebProbe
<1> QED
  BY <1>1, <1>3, <1>4 DEF EngineMeasured

LEMMA EngineProbeStepKeepsSInv ==
  ASSUME IInv, EngineProbeStep
  PROVE  SInv'
<1>1. call = EngineProbe
  BY DEF EngineProbeStep, BuildStore, CompileAdd, InstantiateAdd, EngineRefuses, AddIsMissing, AddAnswers,
         EnginePasses, Within
<1>2. probe \in EngineReports /\ reply = None
  BY <1>1 DEF IInv, Where, EngineProbe
<1>3. CASE BuildStore \/ CompileAdd \/ InstantiateAdd
  <2>1. call' = call /\ reply' = None
    BY <1>2, <1>3 DEF BuildStore, CompileAdd, InstantiateAdd, EnginePasses
  <2> QED
    BY <1>1, <2>1, NothingSaidKeepsSInv DEF EngineProbe, SendProbe, ProofProbe, WebProbe
<1>4. CASE \E p \in EngineReports : p.requested = probe.requested /\ EngineMeasured(p)
  BY <1>1, <1>4, EngineMeasuredKeepsSInv
<1>5. ASSUME NEW stage \in {"compile", "instantiate", "call"}
      PROVE  /\ [probe EXCEPT !.error = stage] \in EngineReports
             /\ [probe EXCEPT !.error = stage].requested = probe.requested
  BY <1>2 DEF EngineReports
<1>6. ASSUME NEW right \in BOOLEAN
      PROVE  LET p == [probe EXCEPT
                         !.reached = "call",
                         !.answer = IF right THEN "right" ELSE "wrong",
                         !.error = IF right THEN "none" ELSE "call"]
             IN  p \in EngineReports /\ p.requested = probe.requested
  BY <1>2 DEF EngineReports, Answer
<1>7. CASE EngineRefuses
  BY <1>4, <1>5, <1>7 DEF EngineRefuses
<1>8. CASE AddAnswers
  BY <1>4, <1>6, <1>8 DEF AddAnswers
<1>9. CASE AddIsMissing
  <2>1. /\ [probe EXCEPT !.reached = "instantiate", !.error = "export"] \in EngineReports
        /\ [probe EXCEPT !.reached = "instantiate", !.error = "export"].requested = probe.requested
    BY <1>2 DEF EngineReports
  <2> QED
    BY <1>4, <1>9, <2>1 DEF AddIsMissing
<1> QED
  BY <1>3, <1>7, <1>8, <1>9 DEF EngineProbeStep

LEMMA CircuitProbeStepKeepsSInv ==
  ASSUME IInv, CircuitProbeStep
  PROVE  SInv'
<1>1. call = CircuitProbe
  BY DEF CircuitProbeStep, NothingMeasured, FetchCircuit, ReportWitness, Within
<1>2. reply = None
  BY <1>1 DEF IInv, Where, CircuitProbe
<1>3. call' \in {CircuitProbe, "none"} /\ (reply' = None \/ reply'.of = CircuitProbe)
  BY <1>1, <1>2 DEF CircuitProbeStep, NothingMeasured, FetchCircuit, ReportWitness, Return
<1> QED
  BY <1>3, NothingSaidKeepsSInv DEF EngineProbe, CircuitProbe, SendProbe, ProofProbe, WebProbe

LEMMA MeasureStepKeepsSInv ==
  ASSUME IInv, SInv, MeasureStep
  PROVE  SInv'
<1>1. MeasureStays /\ call \in MeasuringCalls
  BY DEF MeasureStep, MakeStore, CompileCircuit, MakeRuntime, CheckSignals, MakeCalculator,
         CalculateWitness, MeasureRefuses, MeasurePasses, MeasureEnds, Measuring
<1>2. /\ call' = call /\ reply' = reply /\ legs' = legs /\ reply = None
      /\ call # SendProbe /\ call # WebProbe /\ call # "none"
  BY <1>1 DEF MeasureStays, run, IInv, Where, MeasuringCalls, CircuitProbe, ProofProbe, SendProbe, WebProbe
<1> QED
  BY <1>2 DEF SInv, SendNotes, ProofNotes, WebNotes, LegsSayWhereItStopped, VerdictsAreEarned,
              HeadlineIsTheEngines, NamedAsCaller

\* The proof run, over the legs it had.
OnlyTheEngineIsRed(ls) == \A i \in 1 .. Len(ls) : ls[i].ok \/ ls[i].name = "engine-witness"

LEMMA LegAddedIsSaid ==
  ASSUME NEW ls \in Seq(LegsOf), OnlyTheEngineIsRed(ls), NEW e \in LegsOf
  PROVE  /\ Append(ls, e) # <<>> /\ Append(ls, e)[Len(Append(ls, e))] = e
         /\ \A i \in 1 .. Len(Append(ls, e)) :
              Append(ls, e)[i].ok \/ i = Len(Append(ls, e)) \/ Append(ls, e)[i].name = "engine-witness"
         /\ (e.ok \/ e.name = "engine-witness") => OnlyTheEngineIsRed(Append(ls, e))
<1>1. /\ Append(ls, e) \in Seq(LegsOf)
      /\ Len(Append(ls, e)) = Len(ls) + 1 /\ Len(ls) \in Nat
      /\ \A i \in 1 .. Len(ls) : Append(ls, e)[i] = ls[i]
      /\ Append(ls, e)[Len(ls) + 1] = e
  BY AppendIs
<1>2. \A i \in 1 .. Len(Append(ls, e)) : i \in 1 .. Len(ls) \/ i = Len(ls) + 1
  BY <1>1
<1>3. Append(ls, e) # <<>> /\ Append(ls, e)[Len(Append(ls, e))] = e
  BY <1>1
<1>4. ASSUME NEW i \in 1 .. Len(ls)
      PROVE  Append(ls, e)[i].ok \/ Append(ls, e)[i].name = "engine-witness"
  <2>1. ls[i].ok \/ ls[i].name = "engine-witness"
    BY DEF OnlyTheEngineIsRed
  <2>2. Append(ls, e)[i] = ls[i]
    BY <1>1
  <2> QED
    BY <2>1, <2>2
<1>5. \A i \in 1 .. Len(Append(ls, e)) :
        Append(ls, e)[i].ok \/ i = Len(Append(ls, e)) \/ Append(ls, e)[i].name = "engine-witness"
  BY <1>1, <1>2, <1>4, Zenon
<1>6. (e.ok \/ e.name = "engine-witness") => OnlyTheEngineIsRed(Append(ls, e))
  BY <1>1, <1>2, <1>4, Zenon DEF OnlyTheEngineIsRed
<1> QED
  BY <1>3, <1>5, <1>6

LEMMA ProofEndsKeepsSInv ==
  ASSUME call = ProofProbe, NEW ls \in Seq(LegsOf), OnlyTheEngineIsRed(ls), NEW e \in LegsOf,
         e.ok => e.name = "verify", ProofEnds(Append(ls, e))
  PROVE  SInv'
<1>1. call' = "none" /\ legs' = Append(ls, e) /\ reply'.of = ProofProbe
  BY DEF ProofEnds, Return
<1>2. LegsSayWhereItStopped'
  BY <1>1, LegAddedIsSaid DEF LegsSayWhereItStopped, ProofProbe, SendProbe
<1> QED
  BY <1>1, <1>2 DEF SInv, SendNotes, ProofNotes, WebNotes, VerdictsAreEarned, HeadlineIsTheEngines,
                    NamedAsCaller, EngineProbe, SendProbe, ProofProbe, WebProbe

LEMMA ProofGoesOnKeepsSInv ==
  ASSUME IInv, call = ProofProbe, call' = ProofProbe, reply' = reply, OnlyTheEngineIsRed(legs')
  PROVE  SInv'
<1>1. reply' = None
  BY DEF IInv, Where, ProofProbe
<1> QED
  BY <1>1 DEF SInv, SendNotes, ProofNotes, WebNotes, LegsSayWhereItStopped, VerdictsAreEarned,
              HeadlineIsTheEngines, NamedAsCaller, SendProbe, ProofProbe, WebProbe, OnlyTheEngineIsRed

LEMMA ProofProbeStepKeepsSInv ==
  ASSUME IInv, SInv, ProofProbeStep
  PROVE  SInv'
<1>1. call = ProofProbe
  BY DEF ProofProbeStep, LoadProvingKey, LoadMatrices, EngineWitness, EngineGivesNone, FetchReplica,
         TakeReplica, Prove, Within
<1>2. legs \in Seq(LegsOf) /\ OnlyTheEngineIsRed(legs)
  BY <1>1 DEF IInv, Types, SInv, ProofNotes, OnlyTheEngineIsRed
<1>3. \A name \in ProofLegs \cup {"prove"}, ok \in BOOLEAN :
        Leg(name, ok) \in LegsOf /\ Leg(name, ok).ok = ok /\ Leg(name, ok).name = name
  BY DEF ProofLegs, Leg, LegsOf, NamedStages
<1>4. ASSUME NEW name \in ProofLegs \cup {"prove"}, ProofEnds(Append(legs, Leg(name, FALSE)))
      PROVE  SInv'
  <2>1. Leg(name, FALSE) \in LegsOf /\ ~Leg(name, FALSE).ok
    BY <1>3
  <2> QED
    BY <1>1, <1>2, <1>4, <2>1, ProofEndsKeepsSInv
<1>5. ASSUME NEW ls \in Seq(LegsOf), OnlyTheEngineIsRed(ls), NEW stage, ProofGoesOn(ls, stage)
      PROVE  SInv'
  BY <1>1, <1>5, ProofGoesOnKeepsSInv DEF ProofGoesOn
<1>6. ASSUME NEW ls \in Seq(LegsOf), OnlyTheEngineIsRed(ls),
             NEW name \in ProofLegs \cup {"prove"}, NEW ok \in BOOLEAN, ok \/ name = "engine-witness"
      PROVE  Append(ls, Leg(name, ok)) \in Seq(LegsOf) /\ OnlyTheEngineIsRed(Append(ls, Leg(name, ok)))
  BY <1>3, <1>6, LegAddedIsSaid, AppendIs
<1>7. CASE LoadProvingKey
  BY <1>2, <1>4, <1>5, <1>6, <1>7 DEF LoadProvingKey, ProofLegs
<1>8. CASE LoadMatrices
  BY <1>2, <1>4, <1>5, <1>6, <1>8 DEF LoadMatrices, ProofLegs
<1>9. CASE EngineWitness
  <2> DEFINE loaded == Append(legs, Leg("engine-wasm", TRUE))
             ls == Append(loaded, Leg("engine-witness", TRUE))
  <2>1. loaded \in Seq(LegsOf) /\ OnlyTheEngineIsRed(loaded)
    BY <1>2, <1>6 DEF ProofLegs
  <2>2. ls \in Seq(LegsOf) /\ OnlyTheEngineIsRed(ls)
    <3> HIDE DEF loaded
    <3> QED
      BY <1>6, <2>1 DEF ProofLegs
  <2>3. legs \o <<Leg("engine-wasm", TRUE), Leg("engine-witness", TRUE)>> = ls
    BY <1>2, TwoLegs, LegsOfAProof
  <2>4. ProofGoesOn(ls, "prove")
    BY <1>9, <2>3 DEF EngineWitness
  <2> HIDE DEF ls
  <2> QED
    BY <1>5, <2>2, <2>4
<1>10. CASE EngineGivesNone
  <2>1. PICK loaded \in BOOLEAN :
          ProofGoesOn(legs \o (IF loaded THEN <<Leg("engine-wasm", TRUE)>> ELSE <<>>)
                           \o <<Leg("engine-witness", FALSE)>>, "probe-witness")
    BY <1>10 DEF EngineGivesNone
  <2>2. ASSUME NEW ls \in Seq(LegsOf), OnlyTheEngineIsRed(ls),
               ProofGoesOn(ls \o <<Leg("engine-witness", FALSE)>>, "probe-witness")
        PROVE  SInv'
    <3>1. ls \o <<Leg("engine-witness", FALSE)>> = Append(ls, Leg("engine-witness", FALSE))
      BY <1>3, <2>2, OneLeg DEF ProofLegs
    <3> QED
      BY <1>5, <1>6, <2>2, <3>1 DEF ProofLegs
  <2>3. CASE loaded
    <3>1. legs \o <<Leg("engine-wasm", TRUE)>> = Append(legs, Leg("engine-wasm", TRUE))
      BY <1>2, <1>3, OneLeg DEF ProofLegs
    <3>2. /\ Append(legs, Leg("engine-wasm", TRUE)) \in Seq(LegsOf)
          /\ OnlyTheEngineIsRed(Append(legs, Leg("engine-wasm", TRUE)))
      BY <1>2, <1>6 DEF ProofLegs
    <3> QED
      BY <2>1, <2>2, <2>3, <3>1, <3>2
  <2>4. CASE ~loaded
    <3>1. legs \o <<>> = legs
      BY <1>2
    <3> QED
      BY <1>2, <2>1, <2>2, <2>4, <3>1
  <2> QED
    BY <2>3, <2>4
<1>11. CASE FetchReplica
  <2>1. CASE ProofEnds(Append(legs, Leg("probe-witness", FALSE)))
    BY <1>4, <2>1 DEF ProofLegs
  <2>2. CASE UNCHANGED <<build, process, call, printed, nth, probes, legs, reply>>
    BY <1>1, <1>2, <2>2, ProofGoesOnKeepsSInv
  <2> QED
    BY <1>11, <2>1, <2>2 DEF FetchReplica
<1>12. CASE TakeReplica
  BY <1>2, <1>4, <1>5, <1>6, <1>12 DEF TakeReplica, ProofLegs
<1>13. CASE Prove
  <2>1. CASE ProofEnds(Append(legs, Leg("prove", FALSE)))
    BY <1>4, <2>1
  <2>2. CASE ProofEnds(legs \o <<Leg("prove", TRUE), Leg("verify", TRUE)>>)
    <3> DEFINE proved == Append(legs, Leg("prove", TRUE))
    <3>1. proved \in Seq(LegsOf) /\ OnlyTheEngineIsRed(proved)
      BY <1>2, <1>6
    <3>2. ProofEnds(Append(proved, Leg("verify", TRUE)))
      <4>1. legs \o <<Leg("prove", TRUE), Leg("verify", TRUE)>> = Append(proved, Leg("verify", TRUE))
        BY <1>2, TwoLegs, LegsOfAProof
      <4> QED
        BY <2>2, <4>1
    <3>3. Leg("verify", TRUE) \in LegsOf /\ Leg("verify", TRUE).name = "verify"
      BY <1>3 DEF ProofLegs
    <3> HIDE DEF proved
    <3> QED
      BY <1>1, <3>1, <3>2, <3>3, ProofEndsKeepsSInv
  <2> QED
    BY <1>13, <2>1, <2>2 DEF Prove
<1> QED
  BY <1>7, <1>8, <1>9, <1>10, <1>11, <1>12, <1>13 DEF ProofProbeStep

-----------------------------------------------------------------------------
LEMMA SeenIs ==
  ASSUME NEW n \in Webs, NEW identity \in Identity \cup {Unreadable}, LastNameSeen(n)
  PROVE  Seen(n, identity) \in Webs /\ LastNameSeen(Seen(n, identity))
         /\ Seen(n, identity).dispatch = n.dispatch /\ Seen(n, identity).load = n.load
<1>1. /\ Append(n.named, identity) \in Seq(Identity \cup {Unreadable})
      /\ Append(n.named, identity) # <<>>
      /\ Append(n.named, identity)[Len(Append(n.named, identity))] = identity
  <2>1. n.named \in Seq(Identity \cup {Unreadable})
    BY DEF Webs
  <2> QED
    BY <2>1
<1>2. /\ Seen(n, identity) \in Webs
      /\ Seen(n, identity).saw = (IF identity \in Identity THEN identity ELSE None)
      /\ Seen(n, identity).named = Append(n.named, identity)
      /\ Seen(n, identity).dispatch = n.dispatch /\ Seen(n, identity).load = n.load
  BY <1>1 DEF Seen, Webs
<1>3. None # THIS_MODULE
  BY NoneAssumption DEF Identity
<1> QED
  BY <1>1, <1>2, <1>3 DEF LastNameSeen

LEMMA CrossedKeepsSInv ==
  ASSUME IInv, call = WebProbe, NEW ok \in BOOLEAN, Crossed(ok), noted' \in Webs, LastNameSeen(noted'),
         ok => ~(IsPage /\ noted'.dispatch = "load")
  PROVE  SInv'
<1>1. legs \in Seq(LegsOf) /\ reply = None /\ image' = image
  BY DEF IInv, Types, Where, WebProbe, Crossed, build
<1>2. CASE call' = call /\ reply' = reply
  BY <1>1, <1>2 DEF SInv, SendNotes, ProofNotes, WebNotes, LegsSayWhereItStopped, VerdictsAreEarned,
                    HeadlineIsTheEngines, NamedAsCaller, SendProbe, ProofProbe, WebProbe
<1>3. CASE /\ Len(legs') = Len(LEGS) /\ Return(WebProbe, WebOk(legs', noted'))
  <2>1. call' = "none" /\ reply'.of = WebProbe /\ reply'.ok = WebOk(legs', noted')
    BY <1>3 DEF Return
  <2>2. legs' = Append(legs, Leg(LEGS[Len(legs) + 1], ok))
    BY DEF Crossed
  <2>3. /\ Len(LEGS) = 3 /\ LEGS[3] = "caller_identity"
    BY DEF LEGS
  <2>4. Len(legs) = 2 /\ legs' = Append(legs, Leg("caller_identity", ok))
    <3>1. Len(legs') = Len(legs) + 1 /\ Len(legs) \in Nat
      BY <1>1, <2>2, AppendLength
    <3>2. Len(legs') = 3
      BY <1>3, <2>3
    <3>3. Len(legs) = 2
      <4>1. \A n \in Nat : n + 1 = 3 => n = 2
        OBVIOUS
      <4>2. Len(legs) + 1 = 3 /\ Len(legs) \in Nat
        BY <3>1, <3>2, Zenon
      <4> QED
        BY <4>1, <4>2, Zenon
    <3>4. LEGS[Len(legs) + 1] = "caller_identity"
      BY <2>3, <3>3
    <3> QED
      BY <2>2, <3>3, <3>4
  <2>5. Leg("caller_identity", ok) \in LegsOf /\ Leg("caller_identity", ok).ok = ok
    BY DEF Leg, LegsOf, NamedStages
  <2>6. AllGreen(legs') => ok
    BY <1>1, <2>4, <2>5, AppendHas
  <2>7. ASSUME reply'.ok
        PROVE  /\ \A i \in 1 .. Len(legs') : legs'[i].ok
               /\ noted'.named # <<>> /\ noted'.named[Len(noted'.named)] = THIS_MODULE
               /\ IsPage' => LeftTheLoadThread(noted') \in {TRUE, None}
    <3>1. AllGreen(legs') /\ noted'.saw = THIS_MODULE
      BY <2>1, <2>7 DEF WebOk, IdentityIsThisModule
    <3>2. IsPage' => noted'.dispatch # "load"
      BY <1>1, <2>6, <3>1 DEF IsPage
    <3>3. noted'.load \in {"load", None}
      BY DEF Webs
    <3>4. IsPage' => LeftTheLoadThread(noted') \in {TRUE, None}
      BY <3>2, <3>3 DEF LeftTheLoadThread
    <3> QED
      BY <3>1, <3>4 DEF LastNameSeen, AllGreen
  <2>8. NamedAsCaller'
    BY <1>3, <2>3, <2>7 DEF NamedAsCaller, LEGS, LeftTheLoadThread
  <2> QED
    BY <2>1, <2>8 DEF SInv, SendNotes, ProofNotes, WebNotes, LegsSayWhereItStopped, VerdictsAreEarned,
                      HeadlineIsTheEngines, EngineProbe, SendProbe, ProofProbe, WebProbe
<1> QED
  BY <1>2, <1>3 DEF Crossed

LEMMA WebProbeStepKeepsSInv ==
  ASSUME IInv, SInv, WebProbeStep
  PROVE  SInv'
<1>1. call = WebProbe
  BY DEF WebProbeStep, Answers, FailsToCross, Hangs, CrossWeb
<1>2. noted \in Webs /\ LastNameSeen(noted)
  BY <1>1 DEF SInv, WebNotes
<1>3. CASE Hangs
  BY <1>3, UntouchedKeepsSInv DEF Hangs, build, measured
<1>4. CASE FailsToCross
  <2>1. noted' = noted /\ Crossed(FALSE)
    BY <1>4 DEF FailsToCross
  <2> QED
    BY <1>1, <1>2, <2>1, CrossedKeepsSInv
<1>5. CASE Answers
  <2>1. Crossed(TRUE) /\ ~CannotEnd
    BY <1>5 DEF Answers
  <2>2. CASE noted' = noted
    BY <1>1, <1>2, <2>1, <2>2, CrossedKeepsSInv DEF CannotEnd
  <2>3. ASSUME NEW identity \in Identity \cup {Unreadable}, noted' = Seen(noted, identity)
        PROVE  SInv'
    <3>1. noted' \in Webs /\ LastNameSeen(noted') /\ noted'.dispatch = noted.dispatch
      BY <1>2, <2>3, SeenIs
    <3> QED
      BY <1>1, <2>1, <3>1, CrossedKeepsSInv DEF CannotEnd
  <2> QED
    BY <1>5, <2>2, <2>3 DEF Answers
<1> QED
  BY <1>3, <1>4, <1>5 DEF WebProbeStep

-----------------------------------------------------------------------------
(***************************************************************************)
(* The way of a private send: each stage is followed by the next.          *)
(***************************************************************************)
Follows(from, to) ==
  \/ from = "keys" /\ to = "shield"
  \/ from = "shield" /\ to = "engine"
  \/ from = "engine" /\ to = "sync"
  \/ from = "sync" /\ to = "balance"
  \/ from = "balance" /\ to = "transfer-cold"

LEMMA StagesOfTheWay ==
  ASSUME NEW repeat \in BOOLEAN
  PROVE  /\ Len(Way(repeat)) = (IF repeat THEN 8 ELSE 7)
         /\ Way(repeat)[1] = "keys" /\ Way(repeat)[2] = "shield" /\ Way(repeat)[3] = "engine"
         /\ Way(repeat)[4] = "sync" /\ Way(repeat)[5] = "balance"
         /\ Way(repeat)[6] = "transfer-cold"
         /\ repeat => Way(repeat)[7] = "transfer-warm" /\ Way(repeat)[8] = "root-on-chain"
         /\ ~repeat => Way(repeat)[7] = "root-on-chain"
<1>1. CASE repeat
  <2>1. Way(repeat) = <<"keys", "shield", "engine", "sync", "balance", "transfer-cold",
                        "transfer-warm", "root-on-chain">>
    BY <1>1 DEF Way
  <2>2. Len(Way(repeat)) = 8
    BY <2>1
  <2>3. /\ Way(repeat)[1] = "keys" /\ Way(repeat)[2] = "shield" /\ Way(repeat)[3] = "engine"
        /\ Way(repeat)[4] = "sync" /\ Way(repeat)[5] = "balance"
    BY <2>1
  <2>4. /\ Way(repeat)[6] = "transfer-cold" /\ Way(repeat)[7] = "transfer-warm"
        /\ Way(repeat)[8] = "root-on-chain"
    BY <2>1
  <2> QED
    BY <1>1, <2>2, <2>3, <2>4
<1>2. CASE ~repeat
  <2>1. Way(repeat) = <<"keys", "shield", "engine", "sync", "balance", "transfer-cold",
                        "root-on-chain">>
    BY <1>2 DEF Way
  <2> QED
    BY <1>2, <2>1
<1> QED
  BY <1>1, <1>2

LEMMA FollowsInTheWay ==
  ASSUME NEW repeat \in BOOLEAN, NEW k \in 1 .. Len(Way(repeat)), NEW to,
         Follows(Way(repeat)[k], to)
  PROVE  k + 1 \in 1 .. Len(Way(repeat)) /\ Way(repeat)[k + 1] = to
<1>1. \A i \in 1 .. 8 : i \in {1, 2, 3, 4, 5, 6, 7, 8}
  OBVIOUS
<1>2. Len(Way(repeat)) = (IF repeat THEN 8 ELSE 7)
  BY StagesOfTheWay
<1>3. k \in 1 .. 8 /\ (k = 8 => repeat)
  BY <1>2
<1>4. k \in {1, 2, 3, 4, 5, 6, 7, 8}
  BY <1>1, <1>3
<1>5. /\ Way(repeat)[1] = "keys" /\ Way(repeat)[2] = "shield" /\ Way(repeat)[3] = "engine"
      /\ Way(repeat)[4] = "sync" /\ Way(repeat)[5] = "balance"
      /\ Way(repeat)[6] = "transfer-cold"
  BY StagesOfTheWay
<1>6. Way(repeat)[7] \in {"transfer-warm", "root-on-chain"}
  BY StagesOfTheWay
<1>7. k = 8 => Way(repeat)[8] = "root-on-chain"
  BY <1>3, StagesOfTheWay
<1>8. k \in {1, 2, 3, 4, 5}
  <2>1. k # 6
    BY <1>5 DEF Follows
  <2>2. k # 7
    BY <1>6 DEF Follows
  <2>3. k # 8
    BY <1>7 DEF Follows
  <2> QED
    BY <1>4, <2>1, <2>2, <2>3
<1>9. k + 1 \in 1 .. Len(Way(repeat))
  BY <1>2, <1>8
<1>10. Way(repeat)[k + 1] = to
  <2>1. CASE k = 1
    BY <1>5, <2>1 DEF Follows
  <2>2. CASE k = 2
    BY <1>5, <2>2 DEF Follows
  <2>3. CASE k = 3
    BY <1>5, <2>3 DEF Follows
  <2>4. CASE k = 4
    BY <1>5, <2>4 DEF Follows
  <2>5. CASE k = 5
    BY <1>5, <2>5 DEF Follows
  <2> QED
    BY <1>8, <2>1, <2>2, <2>3, <2>4, <2>5
<1> QED
  BY <1>9, <1>10

LEMMA PlacesOfTheWay ==
  ASSUME NEW repeat \in BOOLEAN, NEW k \in 1 .. Len(Way(repeat))
  PROVE  /\ Way(repeat)[k] = "transfer-cold" => k = 6
         /\ Way(repeat)[k] = "transfer-warm" => repeat /\ k = 7
         /\ Way(repeat)[k] = "root-on-chain" <=> k = Len(Way(repeat))
<1>1. \A i \in 1 .. 8 : i \in {1, 2, 3, 4, 5, 6, 7, 8}
  OBVIOUS
<1>2. Len(Way(repeat)) = (IF repeat THEN 8 ELSE 7)
  BY StagesOfTheWay
<1>3. k \in 1 .. 8 /\ (k = 8 => repeat)
  BY <1>2
<1>4. k \in {1, 2, 3, 4, 5, 6, 7, 8}
  BY <1>1, <1>3
<1>5. /\ Way(repeat)[1] = "keys" /\ Way(repeat)[2] = "shield" /\ Way(repeat)[3] = "engine"
      /\ Way(repeat)[4] = "sync" /\ Way(repeat)[5] = "balance"
      /\ Way(repeat)[6] = "transfer-cold"
  BY StagesOfTheWay
<1>6. CASE repeat
  <2>1. Way(repeat)[7] = "transfer-warm" /\ Way(repeat)[8] = "root-on-chain"
    BY <1>6, StagesOfTheWay
  <2>2. Len(Way(repeat)) = 8
    BY <1>2, <1>6
  <2> QED
    BY <1>4, <1>5, <1>6, <2>1, <2>2
<1>7. CASE ~repeat
  <2>1. Way(repeat)[7] = "root-on-chain" /\ Len(Way(repeat)) = 7 /\ k # 8
    BY <1>2, <1>3, <1>7, StagesOfTheWay
  <2> QED
    BY <1>4, <1>5, <1>7, <2>1
<1> QED
  BY <1>6, <1>7

\* What is where in a sequence put together of two, and of three.
Parts(d, a, b) ==
  /\ d \in Seq(SendStages) /\ Len(d) = Len(a) + Len(b) /\ Len(a) \in Nat /\ Len(b) \in Nat
  /\ \A i \in 1 .. Len(a) : d[i] = a[i]
  /\ \A i \in 1 .. Len(b) : d[Len(a) + i] = b[i]

LEMMA TwoParts ==
  ASSUME NEW a \in Seq(SendStages), NEW b \in Seq(SendStages)
  PROVE  Parts(a \o b, a, b)
<1>1. /\ a \o b \in Seq(SendStages) /\ Len(a \o b) = Len(a) + Len(b)
      /\ Len(a) \in Nat /\ Len(b) \in Nat
      /\ \A i \in 1 .. Len(a) : (a \o b)[i] = a[i]
      /\ \A i \in 1 .. Len(b) : (a \o b)[Len(a) + i] = b[i]
  OBVIOUS
<1> QED
  BY <1>1 DEF Parts

\* The same of three, the first of them five long.
FiveAnd(d, a, b, c) ==
  /\ Len(d) = 5 + Len(b) + Len(c)
  /\ \A i \in 1 .. 5 : d[i] = a[i]
  /\ \A i \in 1 .. Len(b) : d[5 + i] = b[i]
  /\ \A i \in 1 .. Len(c) : d[5 + Len(b) + i] = c[i]

LEMMA ThreeParts ==
  ASSUME NEW a \in Seq(SendStages), NEW b \in Seq(SendStages), NEW c \in Seq(SendStages), Len(a) = 5
  PROVE  FiveAnd((a \o b) \o c, a, b, c)
<1>1. PICK d : d = a \o b
  OBVIOUS
<1>2. Parts(d, a, b)
  BY <1>1, TwoParts
<1>3. PICK e : e = d \o c
  OBVIOUS
<1>4. Parts(e, d, c)
  <2>1. d \in Seq(SendStages)
    BY <1>2 DEF Parts
  <2> QED
    BY <1>3, <2>1, TwoParts
<1>5. Len(d) = 5 + Len(b) /\ Len(b) \in Nat /\ Len(c) \in Nat
  BY <1>2, <1>4 DEF Parts
<1>6. Len(e) = 5 + Len(b) + Len(c)
  BY <1>4, <1>5 DEF Parts
<1>7. \A i \in 1 .. 5 + Len(b) : e[i] = d[i]
  BY <1>4, <1>5 DEF Parts
<1>8. \A i \in 1 .. 5 : e[i] = a[i]
  <2>1. \A i \in 1 .. 5 : d[i] = a[i]
    BY <1>2 DEF Parts
  <2>2. \A i \in 1 .. 5 : i \in 1 .. 5 + Len(b)
    BY <1>5
  <2> QED
    BY <1>7, <2>1, <2>2
<1>9. \A i \in 1 .. Len(b) : e[5 + i] = b[i]
  <2>1. \A i \in 1 .. Len(b) : d[5 + i] = b[i]
    BY <1>2 DEF Parts
  <2>2. \A i \in 1 .. Len(b) : 5 + i \in 1 .. 5 + Len(b)
    BY <1>5
  <2> QED
    BY <1>7, <2>1, <2>2
<1>10. \A i \in 1 .. Len(c) : e[5 + Len(b) + i] = c[i]
  BY <1>4, <1>5 DEF Parts
<1>11. FiveAnd(e, a, b, c)
  BY <1>6, <1>8, <1>9, <1>10 DEF FiveAnd
<1> QED
  BY <1>1, <1>3, <1>11

\* The plan of a send is the way, without the question where no root is known.
LEMMA PlanIsTheWay ==
  ASSUME NEW n \in Sends
  PROVE  /\ Len(SendPlan(n)) \in Nat
         /\ Len(SendPlan(n)) = Len(Way(n.repeat)) - (IF n.root THEN 0 ELSE 1)
         /\ \A i \in 1 .. Len(SendPlan(n)) : SendPlan(n)[i] = Way(n.repeat)[i]
         /\ Len(Passes(n.repeat)) = (IF n.repeat THEN 2 ELSE 1)
<1> DEFINE start == <<"keys", "shield", "engine", "sync", "balance">>
           passes == Passes(n.repeat)
           root == IF n.root THEN <<"root-on-chain">> ELSE <<>>
<1>1. n.repeat \in BOOLEAN /\ n.root \in BOOLEAN
  BY DEF Sends
<1>2. /\ start \in Seq(SendStages) /\ Len(start) = 5
      /\ start[1] = "keys" /\ start[2] = "shield" /\ start[3] = "engine"
      /\ start[4] = "sync" /\ start[5] = "balance"
  BY DEF SendStages
<1>3. /\ passes \in Seq(SendStages) /\ Len(passes) = (IF n.repeat THEN 2 ELSE 1)
      /\ passes[1] = "transfer-cold" /\ (n.repeat => passes[2] = "transfer-warm")
  <2>1. <<"transfer-cold", "transfer-warm">> \in Seq(SendStages)
    BY DEF SendStages
  <2>2. <<"transfer-cold">> \in Seq(SendStages)
    BY DEF SendStages
  <2> QED
    BY <1>1, <2>1, <2>2 DEF Passes
<1>4. /\ root \in Seq(SendStages) /\ Len(root) = (IF n.root THEN 1 ELSE 0)
      /\ n.root => root[1] = "root-on-chain"
  <2>1. <<"root-on-chain">> \in Seq(SendStages)
    BY DEF SendStages
  <2>2. <<>> \in Seq(SendStages)
    OBVIOUS
  <2> QED
    BY <1>1, <2>1, <2>2
<1>5. SendPlan(n) = (start \o passes) \o root
  BY DEF SendPlan
<1> HIDE DEF start, passes, root
<1>6. /\ Len(SendPlan(n)) = 5 + Len(passes) + Len(root)
      /\ \A i \in 1 .. 5 : SendPlan(n)[i] = start[i]
      /\ \A i \in 1 .. Len(passes) : SendPlan(n)[5 + i] = passes[i]
      /\ \A i \in 1 .. Len(root) : SendPlan(n)[5 + Len(passes) + i] = root[i]
  <2>1. /\ start \in Seq(SendStages) /\ passes \in Seq(SendStages) /\ root \in Seq(SendStages)
        /\ Len(start) = 5
    BY <1>2, <1>3, <1>4
  <2>2. FiveAnd((start \o passes) \o root, start, passes, root)
    BY <2>1, ThreeParts
  <2>3. FiveAnd(SendPlan(n), start, passes, root)
    BY <1>5, <2>2
  <2> QED
    BY <2>3 DEF FiveAnd
<1>7. Len(Way(n.repeat)) = 6 + Len(passes)
  <2>1. CASE n.repeat
    <3>1. Len(Way(n.repeat)) = 8 /\ Len(passes) = 2
      BY <1>1, <1>3, <2>1, StagesOfTheWay
    <3> QED
      BY <3>1
  <2>2. CASE ~n.repeat
    <3>1. Len(Way(n.repeat)) = 7 /\ Len(passes) = 1
      BY <1>1, <1>3, <2>2, StagesOfTheWay
    <3> QED
      BY <3>1
  <2> QED
    BY <2>1, <2>2
<1>8. Len(SendPlan(n)) = Len(Way(n.repeat)) - (IF n.root THEN 0 ELSE 1) /\ Len(SendPlan(n)) \in Nat
  <2>1. CASE n.root
    BY <1>1, <1>3, <1>4, <1>6, <1>7, <2>1
  <2>2. CASE ~n.root
    BY <1>1, <1>3, <1>4, <1>6, <1>7, <2>2
  <2> QED
    BY <2>1, <2>2
<1>9. \A i \in 1 .. 5 : SendPlan(n)[i] = Way(n.repeat)[i]
  <2>1. \A i \in 1 .. 5 : i \in {1, 2, 3, 4, 5}
    OBVIOUS
  <2> QED
    BY <1>1, <1>2, <1>6, <2>1, StagesOfTheWay
<1>10. \A i \in 1 .. Len(passes) : SendPlan(n)[5 + i] = Way(n.repeat)[5 + i]
  <2>1. \A i \in 1 .. Len(passes) : i = 1 \/ (i = 2 /\ n.repeat)
    BY <1>1, <1>3
  <2>2. Way(n.repeat)[5 + 1] = passes[1] /\ (n.repeat => Way(n.repeat)[5 + 2] = passes[2])
    BY <1>1, <1>3, StagesOfTheWay
  <2> QED
    BY <1>6, <2>1, <2>2
<1>11. n.root => SendPlan(n)[6 + Len(passes)] = Way(n.repeat)[6 + Len(passes)]
  <2>1. SUFFICES ASSUME n.root PROVE SendPlan(n)[6 + Len(passes)] = Way(n.repeat)[6 + Len(passes)]
    OBVIOUS
  <2>2. SendPlan(n)[5 + Len(passes) + 1] = "root-on-chain"
    BY <1>4, <1>6, <2>1
  <2>3. 5 + Len(passes) + 1 = 6 + Len(passes)
    BY <1>1, <1>3
  <2>4. Way(n.repeat)[6 + Len(passes)] = "root-on-chain"
    <3>1. CASE n.repeat
      <4>1. Way(n.repeat)[8] = "root-on-chain" /\ Len(passes) = 2
        BY <1>1, <1>3, <3>1, StagesOfTheWay
      <4> QED
        BY <4>1
    <3>2. CASE ~n.repeat
      <4>1. Way(n.repeat)[7] = "root-on-chain" /\ Len(passes) = 1
        BY <1>1, <1>3, <3>2, StagesOfTheWay
      <4> QED
        BY <4>1
    <3> QED
      BY <3>1, <3>2
  <2> QED
    BY <2>2, <2>3, <2>4
<1>12. \A i \in 1 .. Len(SendPlan(n)) :
         \/ i \in 1 .. 5
         \/ \E j \in 1 .. Len(passes) : i = 5 + j
         \/ n.root /\ i = 6 + Len(passes)
  <2>1. ASSUME NEW i \in 1 .. Len(SendPlan(n)), ~(i \in 1 .. 5), ~(n.root /\ i = 6 + Len(passes))
        PROVE  i - 5 \in 1 .. Len(passes) /\ i = 5 + (i - 5)
    BY <1>1, <1>3, <1>7, <1>8, <2>1
  <2> QED
    BY <2>1
<1>13. \A i \in 1 .. Len(SendPlan(n)) : SendPlan(n)[i] = Way(n.repeat)[i]
  BY <1>9, <1>10, <1>11, <1>12, Zenon
<1>14. Len(Passes(n.repeat)) = (IF n.repeat THEN 2 ELSE 1)
  BY <1>3 DEF passes
<1> QED
  BY <1>8, <1>13, <1>14

\* The stage a send is in, and the legs it has, by what SendNotes says.
LEMMA SendIs ==
  ASSUME IInv, SInv, call = SendProbe
  PROVE  /\ noted \in Sends /\ noted.repeat \in BOOLEAN /\ reply = None
         /\ legs \in Seq(LegsOf) /\ Len(legs) \in Nat
         /\ Len(legs) + 1 \in 1 .. Len(Way(noted.repeat))
         /\ at = Way(noted.repeat)[Len(legs) + 1] /\ at \in SendStages
         /\ \A i \in 1 .. Len(legs) : legs[i] = Leg(Way(noted.repeat)[i], TRUE)
<1>1. /\ noted \in Sends /\ Len(legs) < Len(Way(noted.repeat))
      /\ at = Way(noted.repeat)[Len(legs) + 1]
      /\ \A i \in 1 .. Len(legs) : legs[i] = Leg(Way(noted.repeat)[i], TRUE)
  BY DEF SInv, SendNotes
<1>2. reply = None /\ legs \in Seq(LegsOf) /\ at \in SendStages
  BY DEF IInv, Where, Types, SendProbe
<1>3. noted.repeat \in BOOLEAN
  BY <1>1 DEF Sends
<1>4. Len(Way(noted.repeat)) \in Nat /\ Len(legs) \in Nat
  BY <1>2, <1>3, StagesOfTheWay
<1>5. Len(legs) + 1 \in 1 .. Len(Way(noted.repeat))
  BY <1>1, <1>4
<1> QED
  BY <1>1, <1>2, <1>3, <1>4, <1>5

LEMMA SendPlaceIs ==
  ASSUME IInv, SInv, call = SendProbe
  PROVE  \E k \in 1 .. Len(Way(noted.repeat)) : k = Len(legs) + 1 /\ at = Way(noted.repeat)[k]
BY SendIs

\* A green leg more, and on to the stage after it.
LEMMA SendGoesOnKeepsSInv ==
  ASSUME IInv, SInv, call = SendProbe, NEW stage, SendGoesOn(stage), noted' \in Sends,
         noted'.repeat = noted.repeat,
         Len(legs) + 2 \in 1 .. Len(Way(noted.repeat)), stage = Way(noted.repeat)[Len(legs) + 2],
         stage = "root-on-chain" => noted'.root /\ noted'.proved = Len(Passes(noted.repeat)),
         stage = "transfer-warm" => noted'.proved = 1,
         stage \notin {"transfer-warm", "root-on-chain"} => noted'.proved = 0,
         stage \in {"transfer-cold", "transfer-warm", "root-on-chain"} =>
           (noted'.shield > 0 => noted'.read)
  PROVE  SInv'
<1>1. /\ call' = SendProbe /\ reply' = reply /\ at' = stage /\ legs' = Append(legs, Leg(at, TRUE))
  BY DEF SendGoesOn, SendEnters
<1>2. /\ noted.repeat \in BOOLEAN /\ reply = None /\ legs \in Seq(LegsOf) /\ Len(legs) \in Nat
      /\ at = Way(noted.repeat)[Len(legs) + 1] /\ at \in SendStages
      /\ \A i \in 1 .. Len(legs) : legs[i] = Leg(Way(noted.repeat)[i], TRUE)
  BY SendIs
<1>3. Leg(at, TRUE) \in LegsOf
  BY <1>2, LegIsKnown DEF SendStages, NamedStages
<1>4. /\ Len(legs') = Len(legs) + 1
      /\ \A i \in 1 .. Len(legs) : legs'[i] = legs[i]
      /\ legs'[Len(legs) + 1] = Leg(at, TRUE)
  <2> DEFINE leg == Leg(at, TRUE)
  <2>1. leg \in LegsOf /\ legs \in Seq(LegsOf) /\ legs' = Append(legs, leg)
    BY <1>1, <1>2, <1>3
  <2> HIDE DEF leg
  <2>2. /\ Len(Append(legs, leg)) = Len(legs) + 1
        /\ \A i \in 1 .. Len(legs) : Append(legs, leg)[i] = legs[i]
        /\ Append(legs, leg)[Len(legs) + 1] = leg
    BY <2>1, AppendIs
  <2> QED
    BY <2>1, <2>2 DEF leg
<1>5. \A i \in 1 .. Len(legs') : legs'[i] = Leg(Way(noted.repeat)[i], TRUE)
  <2>1. \A i \in 1 .. Len(legs') : i \in 1 .. Len(legs) \/ i = Len(legs) + 1
    BY <1>2, <1>4
  <2> QED
    BY <1>2, <1>4, <2>1
<1>6. Len(legs') < Len(Way(noted.repeat)) /\ at' = Way(noted.repeat)[Len(legs') + 1]
  <2>1. Len(Way(noted.repeat)) \in Nat
    BY <1>2, StagesOfTheWay
  <2>2. Len(legs') + 1 = Len(legs) + 2
    BY <1>2, <1>4
  <2>3. Len(legs) + 1 < Len(Way(noted.repeat))
    BY <1>2, <2>1
  <2> QED
    BY <1>1, <1>4, <2>2, <2>3
<1>7. SendNotes'
  BY <1>1, <1>5, <1>6 DEF SendNotes
<1> QED
  BY <1>1, <1>2, <1>7 DEF SInv, ProofNotes, WebNotes, LegsSayWhereItStopped, VerdictsAreEarned,
              HeadlineIsTheEngines, NamedAsCaller, SendProbe, ProofProbe, WebProbe

\* The last leg of a run, green only where the plan ends.
LEMMA SendEndsKeepsSInv ==
  ASSUME IInv, SInv, call = SendProbe, NEW ok \in BOOLEAN, SendEnds(Append(legs, Leg(at, ok))),
         noted' \in Sends, noted'.repeat = noted.repeat,
         Len(legs) + 1 <= Len(SendPlan(noted')),
         ok => /\ Len(legs) + 1 = Len(SendPlan(noted')) /\ noted'.proved = Len(Passes(noted.repeat))
               /\ noted'.shield > 0 => noted'.read
  PROVE  SInv'
<1>1. /\ call' = "none" /\ legs' = Append(legs, Leg(at, ok))
      /\ reply'.of = SendProbe /\ reply'.ok = AllGreen(legs')
  BY DEF SendEnds, Return
<1>2. /\ legs \in Seq(LegsOf) /\ Len(legs) \in Nat
      /\ at = Way(noted.repeat)[Len(legs) + 1] /\ at \in SendStages
      /\ \A i \in 1 .. Len(legs) : legs[i] = Leg(Way(noted.repeat)[i], TRUE)
  BY SendIs
<1>3. Leg(at, ok) \in LegsOf
  BY <1>2, LegIsKnown DEF SendStages, NamedStages
<1>4. /\ Len(legs') = Len(legs) + 1
      /\ \A i \in 1 .. Len(legs) : legs'[i] = legs[i]
      /\ legs'[Len(legs) + 1] = Leg(at, ok)
  <2> DEFINE leg == Leg(at, ok)
  <2>1. leg \in LegsOf /\ legs \in Seq(LegsOf) /\ legs' = Append(legs, leg)
    BY <1>1, <1>2, <1>3
  <2> HIDE DEF leg
  <2>2. /\ Len(Append(legs, leg)) = Len(legs) + 1
        /\ \A i \in 1 .. Len(legs) : Append(legs, leg)[i] = legs[i]
        /\ Append(legs, leg)[Len(legs) + 1] = leg
    BY <2>1, AppendIs
  <2> QED
    BY <2>1, <2>2 DEF leg
<1>5. \A i \in 1 .. Len(legs') : i \in 1 .. Len(legs) \/ i = Len(legs')
  BY <1>2, <1>4
<1>6. \A name, b : Leg(name, b).name = name /\ Leg(name, b).ok = b
  BY DEF Leg
<1>7. \A i \in 1 .. Len(legs') : legs'[i].name = Way(noted.repeat)[i] /\ (legs'[i].ok \/ i = Len(legs'))
  <2>1. ASSUME NEW i \in 1 .. Len(legs)
        PROVE  legs'[i].name = Way(noted.repeat)[i] /\ legs'[i].ok
    <3>1. legs'[i] = Leg(Way(noted.repeat)[i], TRUE)
      BY <1>2, <1>4, Zenon
    <3>2. \A name : Leg(name, TRUE).name = name /\ Leg(name, TRUE).ok
      BY DEF Leg
    <3> QED
      BY <3>1, <3>2
  <2>2. legs'[Len(legs')].name = Way(noted.repeat)[Len(legs')]
    BY <1>2, <1>4, <1>6
  <2> QED
    BY <1>5, <2>1, <2>2, Zenon
<1>8. legs' # <<>> /\ Len(legs') \in 1 .. Len(legs') /\ legs'[Len(legs')].ok = ok
  BY <1>2, <1>4, <1>6
<1>9. AllGreen(legs') <=> ok
  <2>1. AllGreen(legs') => ok
    BY <1>8 DEF AllGreen
  <2>2. ok => AllGreen(legs')
    BY <1>7, <1>8, Zenon DEF AllGreen
  <2> QED
    BY <2>1, <2>2
<1>10. Len(legs') <= Len(SendPlan(noted'))
  BY <1>4
<1>11. \A i \in 1 .. Len(legs') : SendPlan(noted')[i] = Way(noted.repeat)[i]
  <2>1. Len(SendPlan(noted')) \in Nat /\ Len(legs') \in Nat
    <3>1. noted'.repeat \in BOOLEAN
      BY DEF Sends
    <3> QED
      BY <1>2, <1>4, <3>1, PlanIsTheWay
  <2>2. \A i \in 1 .. Len(legs') : i \in 1 .. Len(SendPlan(noted'))
    BY <1>10, <2>1
  <2> QED
    BY <2>2, PlanIsTheWay
<1>12. /\ reply'.ok <=> (Len(legs') = Len(SendPlan(noted')) /\ legs'[Len(legs')].ok)
       /\ reply'.ok => /\ noted'.proved = Len(Passes(noted'.repeat))
                       /\ noted'.shield > 0 => noted'.read
  BY <1>1, <1>4, <1>8, <1>9
<1>13. LegsSayWhereItStopped'
  <2>1. \A i \in 1 .. Len(legs') : legs'[i].name = SendPlan(noted')[i] /\ (legs'[i].ok \/ i = Len(legs'))
    BY <1>7, <1>11, Zenon
  <2>2. SendProbe # ProofProbe
    BY DEF SendProbe, ProofProbe
  <2> QED
    BY <1>1, <1>8, <1>10, <1>12, <2>1, <2>2, Zenon DEF LegsSayWhereItStopped
<1> QED
  BY <1>1, <1>13 DEF SInv, SendNotes, ProofNotes, WebNotes, VerdictsAreEarned, HeadlineIsTheEngines,
                    NamedAsCaller, EngineProbe, SendProbe, ProofProbe, WebProbe

\* A leg that fails ends the run where it is.
LEMMA SendFailsKeepsSInv ==
  ASSUME IInv, SInv, call = SendProbe, SendFails, noted' \in Sends,
         noted'.repeat = noted.repeat, noted'.root = noted.root
  PROVE  SInv'
<1>1. /\ noted \in Sends /\ noted.repeat \in BOOLEAN /\ Len(legs) \in Nat
      /\ Len(legs) + 1 \in 1 .. Len(Way(noted.repeat)) /\ at = Way(noted.repeat)[Len(legs) + 1]
  BY SendIs
<1>2. at = "root-on-chain" => noted.root
  BY DEF SInv, SendNotes
<1>3. Len(legs) + 1 = Len(Way(noted.repeat)) => noted.root
  <2>1. PICK k \in 1 .. Len(Way(noted.repeat)) : k = Len(legs) + 1 /\ at = Way(noted.repeat)[k]
    BY SendPlaceIs
  <2> QED
    BY <1>1, <1>2, <2>1, PlacesOfTheWay
<1>4. /\ Len(SendPlan(noted')) = Len(Way(noted.repeat)) - (IF noted.root THEN 0 ELSE 1)
      /\ Len(Way(noted.repeat)) \in Nat
  <2>1. Len(SendPlan(noted')) = Len(Way(noted'.repeat)) - (IF noted'.root THEN 0 ELSE 1)
    BY PlanIsTheWay
  <2>2. Len(Way(noted.repeat)) \in Nat
    BY <1>1, StagesOfTheWay
  <2> QED
    BY <2>1, <2>2
<1>5. Len(legs) + 1 <= Len(SendPlan(noted'))
  <2>1. CASE noted.root
    BY <1>1, <1>4, <2>1
  <2>2. CASE ~noted.root
    BY <1>1, <1>3, <1>4, <2>2
  <2> QED
    BY <2>1, <2>2
<1>6. SendEnds(Append(legs, Leg(at, FALSE)))
  BY DEF SendFails
<1> QED
  BY <1>5, <1>6, SendEndsKeepsSInv

\* A stage before the transfers is followed by the next.
LEMMA SendPassesKeepsSInv ==
  ASSUME IInv, SInv, call = SendProbe, NEW stage, Follows(at, stage), SendGoesOn(stage),
         noted' \in Sends, noted'.repeat = noted.repeat, noted'.proved = noted.proved,
         stage = "transfer-cold" => (noted'.shield > 0 => noted'.read)
  PROVE  SInv'
<1>1. /\ noted.repeat \in BOOLEAN /\ Len(legs) \in Nat
      /\ Len(legs) + 1 \in 1 .. Len(Way(noted.repeat)) /\ at = Way(noted.repeat)[Len(legs) + 1]
  BY SendIs
<1>2. PICK k \in 1 .. Len(Way(noted.repeat)) : k = Len(legs) + 1 /\ at = Way(noted.repeat)[k]
  BY SendPlaceIs
<1>3. Len(legs) + 2 \in 1 .. Len(Way(noted.repeat)) /\ Way(noted.repeat)[Len(legs) + 2] = stage
  <2>1. k + 1 \in 1 .. Len(Way(noted.repeat)) /\ Way(noted.repeat)[k + 1] = stage
    BY <1>1, <1>2, FollowsInTheWay
  <2>2. k + 1 = Len(legs) + 2
    BY <1>1, <1>2
  <2> QED
    BY <2>1, <2>2
<1>4. /\ stage \notin {"transfer-warm", "root-on-chain"} /\ noted'.proved = 0
  BY DEF Follows, SInv, SendNotes
<1> QED
  BY <1>3, <1>4, SendGoesOnKeepsSInv

LEMMA BeforeTheTransfersKeepsSInv ==
  ASSUME IInv, SInv, call = SendProbe, DeriveKeys \/ EncryptShield \/ BuildSender \/ SyncSender
  PROVE  SInv'
<1>1. noted \in Sends
  BY SendIs
<1>2. ASSUME NEW stage, Follows(at, stage), stage # "transfer-cold", SendGoesOn(stage), noted' = noted
      PROVE  SInv'
  BY <1>1, <1>2, SendPassesKeepsSInv
<1>3. ASSUME SendFails, noted' = noted
      PROVE  SInv'
  BY <1>1, <1>3, SendFailsKeepsSInv
<1>4. CASE DeriveKeys
  BY <1>2, <1>3, <1>4 DEF DeriveKeys, Within, Follows
<1>5. CASE EncryptShield
  BY <1>2, <1>3, <1>5 DEF EncryptShield, Within, Follows
<1>6. CASE BuildSender
  BY <1>2, <1>3, <1>6 DEF BuildSender, Within, Follows
<1>7. CASE SyncSender
  <2>1. CASE SendFails /\ noted' = noted
    BY <1>3, <2>1
  <2>2. ASSUME NEW read \in BOOLEAN, noted' = [noted EXCEPT !.read = read], SendGoesOn("balance")
        PROVE  SInv'
    <3>1. noted' \in Sends /\ noted'.repeat = noted.repeat /\ noted'.proved = noted.proved
      BY <1>1, <2>2 DEF Sends
    <3>2. Follows(at, "balance")
      BY <1>7 DEF SyncSender, Within, Follows
    <3> QED
      BY <2>2, <3>1, <3>2, SendPassesKeepsSInv
  <2> QED
    BY <1>7, <2>1, <2>2 DEF SyncSender
<1> QED
  BY <1>4, <1>5, <1>6, <1>7

\* The balance is the shield's where the engine read the note.
LEMMA CheckBalanceKeepsSInv ==
  ASSUME IInv, SInv, call = SendProbe, CheckBalance
  PROVE  SInv'
<1>1. noted \in Sends /\ noted.repeat \in BOOLEAN /\ at = "balance"
      /\ noted' = [noted EXCEPT !.balance = Balance]
  BY SendIs DEF CheckBalance, Within
<1>2. noted.shield \in Nat
  BY <1>1, AmountsAssumption DEF Sends
<1>3. /\ noted' \in Sends /\ noted'.repeat = noted.repeat /\ noted'.root = noted.root
      /\ noted'.proved = noted.proved /\ noted'.shield = noted.shield /\ noted'.read = noted.read
  <2>1. Balance \in Nat
    BY <1>2 DEF Balance
  <2> QED
    BY <1>1, <2>1 DEF Sends
<1>4. CASE SendFails
  BY <1>3, <1>4, SendFailsKeepsSInv
<1>5. CASE Balance = noted.shield /\ SendGoesOn(Passes(noted.repeat)[1])
  <2>1. Passes(noted.repeat)[1] = "transfer-cold"
    BY DEF Passes
  <2>2. noted.shield > 0 => noted.read
    BY <1>2, <1>5 DEF Balance
  <2>3. Follows(at, "transfer-cold")
    BY <1>1 DEF Follows
  <2> QED
    BY <1>3, <1>5, <2>1, <2>2, <2>3, SendPassesKeepsSInv
<1> QED
  BY <1>4, <1>5 DEF CheckBalance

LEMMA TransferKeepsSInv ==
  ASSUME IInv, SInv, call = SendProbe, Transfer
  PROVE  SInv'
<1>1. /\ noted \in Sends /\ noted.repeat \in BOOLEAN /\ Len(legs) \in Nat
      /\ Len(legs) + 1 \in 1 .. Len(Way(noted.repeat)) /\ at = Way(noted.repeat)[Len(legs) + 1]
  BY SendIs
<1>2. PICK k \in 1 .. Len(Way(noted.repeat)) : k = Len(legs) + 1 /\ at = Way(noted.repeat)[k]
  BY SendPlaceIs
<1>3. (at = "transfer-cold" => k = 6) /\ (at = "transfer-warm" => k = 7 /\ noted.repeat)
  BY <1>1, <1>2, PlacesOfTheWay
<1>4. at \in {"transfer-cold", "transfer-warm"} /\ (noted.shield > 0 => noted.read)
  BY DEF Transfer, SInv, SendNotes
<1>5. CASE SendFails /\ noted' = noted
  BY <1>1, <1>5, SendFailsKeepsSInv
<1>6. ASSUME NEW pass \in 1 .. Len(Passes(noted.repeat)), NEW root \in BOOLEAN,
             at = Passes(noted.repeat)[pass],
             noted' = [noted EXCEPT !.proved = @ + 1, !.root = root],
             \/ /\ pass < Len(Passes(noted.repeat))
                /\ SendGoesOn(Passes(noted.repeat)[pass + 1])
             \/ /\ pass = Len(Passes(noted.repeat)) /\ root
                /\ SendGoesOn("root-on-chain")
             \/ /\ pass = Len(Passes(noted.repeat)) /\ ~root
                /\ SendEnds(Append(legs, Leg(at, TRUE)))
      PROVE  SInv'
  <2>1. /\ noted' \in Sends /\ noted'.repeat = noted.repeat /\ noted'.root = root
        /\ noted'.proved = noted.proved + 1 /\ noted'.shield = noted.shield /\ noted'.read = noted.read
    <3>1. noted.proved + 1 \in Nat
      BY <1>1 DEF Sends
    <3>2. noted' = [noted EXCEPT !.proved = noted.proved + 1, !.root = root]
      BY <1>6
    <3> QED
      BY <1>1, <3>1, <3>2 DEF Sends
  <2>2. /\ Len(SendPlan(noted')) = Len(Way(noted.repeat)) - (IF root THEN 0 ELSE 1)
        /\ Len(Passes(noted.repeat)) = (IF noted.repeat THEN 2 ELSE 1)
        /\ Len(Way(noted.repeat)) = (IF noted.repeat THEN 8 ELSE 7)
    <3>1. Len(SendPlan(noted')) = Len(Way(noted'.repeat)) - (IF noted'.root THEN 0 ELSE 1)
      BY <2>1, PlanIsTheWay
    <3>2. Len(Passes(noted.repeat)) = (IF noted.repeat THEN 2 ELSE 1)
      BY <1>1, PlanIsTheWay
    <3>3. Len(Way(noted.repeat)) = (IF noted.repeat THEN 8 ELSE 7)
      BY <1>1, StagesOfTheWay
    <3> QED
      BY <2>1, <3>1, <3>2, <3>3
  <2>3. CASE pass < Len(Passes(noted.repeat)) /\ SendGoesOn(Passes(noted.repeat)[pass + 1])
    <3>1. noted.repeat /\ pass = 1
      BY <1>1, <1>6, <2>2, <2>3
    <3>2. Passes(noted.repeat) = <<"transfer-cold", "transfer-warm">>
      BY <3>1 DEF Passes
    <3>3. at = "transfer-cold" /\ SendGoesOn("transfer-warm")
      <4>1. Passes(noted.repeat)[1] = "transfer-cold" /\ Passes(noted.repeat)[2] = "transfer-warm"
        BY <3>2
      <4>2. pass = 1 /\ pass + 1 = 2
        BY <3>1
      <4> QED
        BY <1>6, <2>3, <4>1, <4>2
    <3>4. Len(legs) = 5 /\ Way(noted.repeat)[7] = "transfer-warm" /\ noted.proved = 0
      <4>1. Len(legs) + 1 = 6 /\ Way(noted.repeat)[7] = "transfer-warm"
        BY <1>1, <1>2, <1>3, <3>1, <3>3, StagesOfTheWay
      <4>2. noted.proved = 0
        BY <3>3 DEF SInv, SendNotes
      <4>3. \A n \in Nat : n + 1 = 6 => n = 5
        OBVIOUS
      <4>4. Len(legs) = 5
        BY <1>1, <4>1, <4>3, Zenon
      <4> QED
        BY <4>1, <4>2, <4>4
    <3>5. Len(legs) + 2 \in 1 .. Len(Way(noted.repeat)) /\ Len(legs) + 2 = 7
      BY <2>2, <3>1, <3>4
    <3>6. noted'.proved = 1
      BY <2>1, <3>4
    <3> QED
      BY <1>4, <2>1, <3>3, <3>4, <3>5, <3>6, SendGoesOnKeepsSInv
  <2>4. CASE pass = Len(Passes(noted.repeat))
    <3>1. Len(legs) + 2 = Len(Way(noted.repeat)) /\ noted'.proved = Len(Passes(noted.repeat))
      <4>1. CASE noted.repeat
        <5>1. Passes(noted.repeat) = <<"transfer-cold", "transfer-warm">> /\ pass = 2
          BY <2>2, <2>4, <4>1 DEF Passes
        <5>2. at = "transfer-warm"
          BY <1>6, <5>1
        <5>3. Len(legs) + 1 = 7
          BY <1>2, <1>3, <5>2
        <5>4. noted.proved = 1
          BY <5>2 DEF SInv, SendNotes
        <5> QED
          BY <1>1, <2>1, <2>2, <4>1, <5>3, <5>4
      <4>2. CASE ~noted.repeat
        <5>1. Passes(noted.repeat) = <<"transfer-cold">> /\ pass = 1
          BY <2>2, <2>4, <4>2 DEF Passes
        <5>2. at = "transfer-cold"
          BY <1>6, <5>1
        <5>3. Len(legs) + 1 = 6
          BY <1>2, <1>3, <5>2
        <5>4. noted.proved = 0
          BY <5>2 DEF SInv, SendNotes
        <5> QED
          BY <1>1, <2>1, <2>2, <4>2, <5>3, <5>4
      <4> QED
        BY <1>1, <4>1, <4>2
    <3>2. CASE root /\ SendGoesOn("root-on-chain")
      <4>1. Len(Way(noted.repeat)) \in 1 .. Len(Way(noted.repeat))
        BY <1>1, <2>2
      <4>2. Way(noted.repeat)[Len(legs) + 2] = "root-on-chain"
        <5>1. Way(noted.repeat)[Len(Way(noted.repeat))] = "root-on-chain"
          BY <1>1, <4>1, PlacesOfTheWay
        <5> QED
          BY <3>1, <5>1
      <4> QED
        BY <1>4, <2>1, <3>1, <3>2, <4>1, <4>2, SendGoesOnKeepsSInv
    <3>3. CASE ~root /\ SendEnds(Append(legs, Leg(at, TRUE)))
      <4>1. Len(SendPlan(noted')) = Len(Way(noted.repeat)) - 1 /\ Len(Way(noted.repeat)) \in Nat
        BY <1>1, <2>2, <3>3
      <4>2. Len(legs) + 1 = Len(SendPlan(noted')) /\ Len(legs) + 1 <= Len(SendPlan(noted'))
        BY <1>1, <3>1, <4>1
      <4>3. noted'.shield > 0 => noted'.read
        BY <1>4, <2>1
      <4>4. noted'.proved = Len(Passes(noted'.repeat))
        BY <2>1, <3>1
      <4> QED
        <5>1. noted'.proved = Len(Passes(noted.repeat)) /\ TRUE \in BOOLEAN
          BY <2>1, <4>4
        <5>2. noted' \in Sends /\ noted'.repeat = noted.repeat
          BY <2>1
        <5>3. SendEnds(Append(legs, Leg(at, TRUE)))
          BY <3>3
        <5> HIDE DEF SendEnds, Sends
        <5> QED
          BY <4>2, <4>3, <5>1, <5>2, <5>3, SendEndsKeepsSInv, Zenon
    <3>4. ~(pass < Len(Passes(noted.repeat)))
      BY <2>2, <2>4
    <3> HIDE DEF SendGoesOn, SendEnds
    <3> QED
      BY <1>6, <3>2, <3>3, <3>4, Zenon
  <2> QED
    BY <1>6, <2>3, <2>4
<1>7. CASE ProveTransfer
  <2>1. PICK pass \in 1 .. Len(Passes(noted.repeat)), operation \in BOOLEAN :
          LET root == noted.root \/ operation IN
          /\ at = Passes(noted.repeat)[pass]
          /\ noted' = [noted EXCEPT !.proved = @ + 1, !.root = root]
          /\ \/ /\ pass < Len(Passes(noted.repeat))
                /\ SendGoesOn(Passes(noted.repeat)[pass + 1])
             \/ /\ pass = Len(Passes(noted.repeat)) /\ root
                /\ SendGoesOn("root-on-chain")
             \/ /\ pass = Len(Passes(noted.repeat)) /\ ~root
                /\ SendEnds(Append(legs, Leg(at, TRUE)))
    BY <1>7 DEF ProveTransfer
  <2>2. (noted.root \/ operation) \in BOOLEAN
    OBVIOUS
  <2> QED
    BY <1>6, <2>1, <2>2
<1> QED
  BY <1>5, <1>7 DEF Transfer

LEMMA AskRootKeepsSInv ==
  ASSUME IInv, SInv, call = SendProbe, AskRoot
  PROVE  SInv'
<1>1. /\ noted \in Sends /\ noted.repeat \in BOOLEAN /\ Len(legs) \in Nat
      /\ Len(legs) + 1 \in 1 .. Len(Way(noted.repeat)) /\ at = Way(noted.repeat)[Len(legs) + 1]
  BY SendIs
<1>2. /\ at = "root-on-chain" /\ noted.root /\ noted.proved = Len(Passes(noted.repeat))
      /\ noted.shield > 0 => noted.read
  BY DEF AskRoot, Within, SInv, SendNotes
<1>3. CASE SendFails /\ noted' = noted
  BY <1>1, <1>3, SendFailsKeepsSInv
<1>4. ASSUME NEW seen \in BOOLEAN, noted' = [noted EXCEPT !.on_chain = seen],
             SendEnds(Append(legs, Leg(at, TRUE)))
      PROVE  SInv'
  <2>1. /\ noted' \in Sends /\ noted'.repeat = noted.repeat /\ noted'.root = noted.root
        /\ noted'.proved = noted.proved /\ noted'.shield = noted.shield /\ noted'.read = noted.read
    BY <1>1, <1>4 DEF Sends
  <2>2. Len(SendPlan(noted')) = Len(Way(noted.repeat)) /\ Len(SendPlan(noted')) \in Nat
    <3>1. Len(SendPlan(noted')) = Len(Way(noted.repeat)) - 0
      BY <1>2, <2>1, PlanIsTheWay
    <3>2. Len(Way(noted.repeat)) \in Nat
      BY <1>1, StagesOfTheWay
    <3> QED
      BY <3>1, <3>2
  <2>3. Len(legs) + 1 = Len(SendPlan(noted')) /\ Len(legs) + 1 <= Len(SendPlan(noted'))
    <3>1. Len(legs) + 1 = Len(Way(noted.repeat))
      <4>1. PICK k \in 1 .. Len(Way(noted.repeat)) : k = Len(legs) + 1 /\ at = Way(noted.repeat)[k]
        BY SendPlaceIs
      <4> QED
        BY <1>1, <1>2, <4>1, PlacesOfTheWay
    <3> QED
      BY <1>1, <2>2, <3>1
  <2> QED
    BY <1>2, <1>4, <2>1, <2>3, SendEndsKeepsSInv
<1> QED
  BY <1>3, <1>4 DEF AskRoot

LEMMA SendProbeStepKeepsSInv ==
  ASSUME IInv, SInv, SendProbeStep
  PROVE  SInv'
<1>1. call = SendProbe
  BY DEF SendProbeStep, DeriveKeys, EncryptShield, BuildSender, SyncSender, CheckBalance, Transfer,
         AskRoot, Within
<1> QED
  BY <1>1, BeforeTheTransfersKeepsSInv, CheckBalanceKeepsSInv, TransferKeepsSInv, AskRootKeepsSInv
  DEF SendProbeStep

-----------------------------------------------------------------------------
LEMMA NextKeepsSInv ==
  ASSUME IInv, SInv, [Next]_vars
  PROVE  SInv'
<1>1. CASE UNCHANGED vars
  BY <1>1, UntouchedKeepsSInv DEF vars, build, measured
<1>2. CASE Publish
  BY <1>2, UntouchedKeepsSInv DEF Publish, measured
<1>3. CASE Killed
  BY <1>3, UntouchedKeepsSInv DEF Killed, build, measured
<1>4. CASE Relaunch
  BY <1>4, NothingSaidKeepsSInv DEF Relaunch, SendProbe, ProofProbe, WebProbe
<1>5. CASE ProbeStep
  BY <1>5, EngineProbeStepKeepsSInv, MeasureStepKeepsSInv, CircuitProbeStepKeepsSInv,
     ProofProbeStepKeepsSInv, SendProbeStepKeepsSInv, WebProbeStepKeepsSInv DEF ProbeStep
<1> QED
  BY <1>1, <1>2, <1>3, <1>4, <1>5, CallsArriveKeepsSInv DEF Next

(***************************************************************************)
(* The second invariant, over the first: what the legs of a run under way  *)
(* have been, and what the replies said.                                   *)
(***************************************************************************)
THEOREM VerdictsInvariant == Spec => []SInv
<1>1. Init => SInv
  BY DEF Init, SInv, SendNotes, ProofNotes, WebNotes, LegsSayWhereItStopped, VerdictsAreEarned,
         HeadlineIsTheEngines, NamedAsCaller, SendProbe, ProofProbe, WebProbe
<1>2. IInv /\ SInv /\ [Next]_vars => SInv'
  BY NextKeepsSInv
<1> QED
  BY <1>1, <1>2, DeviceProbesInvariant, PTL DEF Spec

(***************************************************************************)
(* The legs a run answers with are the first ones of the way it goes, only *)
(* the last can be red, and a green send proved all its transfers out of a *)
(* note the engine read (run of private_send.rs and proof_circuit.rs).     *)
(***************************************************************************)
THEOREM LegsSayWhere == Spec => []LegsSayWhereItStopped
<1>1. SInv => LegsSayWhereItStopped
  BY DEF SInv
<1> QED
  BY <1>1, VerdictsInvariant, PTL

(***************************************************************************)
(* A green witness_engine_probe ran the code of the engine's own backend,  *)
(* and a green web_dependency_probe was reached every time, off the thread *)
(* that delivers, by a page whose last word on its caller was right        *)
(* (split_last in glue.rs, Probe::ok of web_dependency.rs).                *)
(***************************************************************************)
THEOREM GreenVerdictsAreEarned == Spec => []VerdictsAreEarned
<1>1. SInv => VerdictsAreEarned
  BY DEF SInv
<1> QED
  BY <1>1, VerdictsInvariant, PTL

-----------------------------------------------------------------------------
(***************************************************************************)
(* Why every probe answers: a call has so many stages before it, and every *)
(* step of its probe leaves it fewer, however the stage went, backends not *)
(* yet measured and the replica that takes over included.  That it is      *)
(* stepped is the fairness of EveryProbeAnswers, which is TLC's.           *)
(***************************************************************************)
EngineLeft(stage) ==
  CASE stage = "call" -> 1
    [] stage = "instantiate" -> 2
    [] stage = "compile" -> 3
    [] stage = "engine" -> 4

MeasureLeft(stage) ==
  CASE stage = "measured" -> 1
    [] stage = "witness" -> 2
    [] stage = "calculator" -> 3
    [] stage = "signals" -> 4
    [] stage = "instantiate" -> 5
    [] stage = "compile" -> 6
    [] stage = "engine" -> 7

ProofLeft(stage) ==
  CASE stage = "prove" -> 1
    [] stage \in MeasureStages \cup {"measured"} -> 1 + MeasureLeft(stage)
    [] stage = "probe-witness" -> 9
    [] stage = "engine-witness" -> 10
    [] stage = "matrices" -> 11
    [] stage = "proving-key" -> 12

SendLeft(stage) ==
  CASE stage = "root-on-chain" -> 1
    [] stage = "transfer-warm" -> 2
    [] stage = "transfer-cold" -> 3
    [] stage = "balance" -> 4
    [] stage = "sync" -> 5
    [] stage = "engine" -> 6
    [] stage = "shield" -> 7
    [] stage = "keys" -> 8

Ahead(probing, stage, backends, n, ls) ==
  CASE probing = EngineProbe -> 4 * (Len(backends) - n) + EngineLeft(stage)
    [] probing = CircuitProbe /\ stage = "fetch" -> 7 * Len(backends) + 1
    [] probing = CircuitProbe /\ stage # "fetch" -> 7 * (Len(backends) - n) + MeasureLeft(stage)
    [] probing = ProofProbe -> ProofLeft(stage)
    [] probing = SendProbe -> SendLeft(stage)
    [] probing = WebProbe -> Len(LEGS) - Len(ls)
    [] probing = "none" -> 0

StagesLeft == Ahead(call, at, asked, nth, legs)

ProbesGoForward ==
  [][(process = "up" /\ call # "none") =>
       /\ StagesLeft \in Nat /\ StagesLeft > 0
       /\ StagesLeft' <= StagesLeft
       /\ (ProbeStep /\ process' = "up") => StagesLeft' < StagesLeft]_vars

LEMMA EngineLeftIs ==
  /\ EngineLeft("call") = 1
  /\ EngineLeft("instantiate") = 2
  /\ EngineLeft("compile") = 3
  /\ EngineLeft("engine") = 4
<1>1. EngineLeft("call") = 1
  BY DEF EngineLeft
<1>2. EngineLeft("instantiate") = 2
  BY DEF EngineLeft
<1>3. EngineLeft("compile") = 3
  BY DEF EngineLeft
<1>4. EngineLeft("engine") = 4
  BY DEF EngineLeft
<1> QED
  BY <1>1, <1>2, <1>3, <1>4

LEMMA MeasureLeftIs ==
  /\ MeasureLeft("measured") = 1
  /\ MeasureLeft("witness") = 2
  /\ MeasureLeft("calculator") = 3
  /\ MeasureLeft("signals") = 4
  /\ MeasureLeft("instantiate") = 5
  /\ MeasureLeft("compile") = 6
  /\ MeasureLeft("engine") = 7
<1>1. MeasureLeft("measured") = 1
  BY DEF MeasureLeft
<1>2. MeasureLeft("witness") = 2
  BY DEF MeasureLeft
<1>3. MeasureLeft("calculator") = 3
  BY DEF MeasureLeft
<1>4. MeasureLeft("signals") = 4
  BY DEF MeasureLeft
<1>5. MeasureLeft("instantiate") = 5
  BY DEF MeasureLeft
<1>6. MeasureLeft("compile") = 6
  BY DEF MeasureLeft
<1>7. MeasureLeft("engine") = 7
  BY DEF MeasureLeft
<1> QED
  BY <1>1, <1>2, <1>3, <1>4, <1>5, <1>6, <1>7

LEMMA ProofLeftIs ==
  /\ ProofLeft("prove") = 1
  /\ ProofLeft("measured") = 2
  /\ ProofLeft("witness") = 3
  /\ ProofLeft("calculator") = 4
  /\ ProofLeft("signals") = 5
  /\ ProofLeft("instantiate") = 6
  /\ ProofLeft("compile") = 7
  /\ ProofLeft("engine") = 8
  /\ ProofLeft("probe-witness") = 9
  /\ ProofLeft("engine-witness") = 10
  /\ ProofLeft("matrices") = 11
  /\ ProofLeft("proving-key") = 12
<1>1. ProofLeft("prove") = 1
  BY MeasureLeftIs DEF ProofLeft, MeasureStages
<1>2. ProofLeft("measured") = 2
  BY MeasureLeftIs DEF ProofLeft, MeasureStages
<1>3. ProofLeft("witness") = 3
  BY MeasureLeftIs DEF ProofLeft, MeasureStages
<1>4. ProofLeft("calculator") = 4
  BY MeasureLeftIs DEF ProofLeft, MeasureStages
<1>5. ProofLeft("signals") = 5
  BY MeasureLeftIs DEF ProofLeft, MeasureStages
<1>6. ProofLeft("instantiate") = 6
  BY MeasureLeftIs DEF ProofLeft, MeasureStages
<1>7. ProofLeft("compile") = 7
  BY MeasureLeftIs DEF ProofLeft, MeasureStages
<1>8. ProofLeft("engine") = 8
  BY MeasureLeftIs DEF ProofLeft, MeasureStages
<1>9. ProofLeft("probe-witness") = 9
  BY MeasureLeftIs DEF ProofLeft, MeasureStages
<1>10. ProofLeft("engine-witness") = 10
  BY MeasureLeftIs DEF ProofLeft, MeasureStages
<1>11. ProofLeft("matrices") = 11
  BY MeasureLeftIs DEF ProofLeft, MeasureStages
<1>12. ProofLeft("proving-key") = 12
  BY MeasureLeftIs DEF ProofLeft, MeasureStages
<1> QED
  BY <1>1, <1>2, <1>3, <1>4, <1>5, <1>6, <1>7, <1>8, <1>9, <1>10, <1>11, <1>12

LEMMA SendLeftIs ==
  /\ SendLeft("root-on-chain") = 1
  /\ SendLeft("transfer-warm") = 2
  /\ SendLeft("transfer-cold") = 3
  /\ SendLeft("balance") = 4
  /\ SendLeft("sync") = 5
  /\ SendLeft("engine") = 6
  /\ SendLeft("shield") = 7
  /\ SendLeft("keys") = 8
<1>1. SendLeft("root-on-chain") = 1
  BY DEF SendLeft
<1>2. SendLeft("transfer-warm") = 2
  BY DEF SendLeft
<1>3. SendLeft("transfer-cold") = 3
  BY DEF SendLeft
<1>4. SendLeft("balance") = 4
  BY DEF SendLeft
<1>5. SendLeft("sync") = 5
  BY DEF SendLeft
<1>6. SendLeft("engine") = 6
  BY DEF SendLeft
<1>7. SendLeft("shield") = 7
  BY DEF SendLeft
<1>8. SendLeft("keys") = 8
  BY DEF SendLeft
<1> QED
  BY <1>1, <1>2, <1>3, <1>4, <1>5, <1>6, <1>7, <1>8

LEMMA AheadIs ==
  ASSUME NEW stage, NEW backends, NEW n, NEW ls
  PROVE  /\ Ahead(EngineProbe, stage, backends, n, ls)
              = 4 * (Len(backends) - n) + EngineLeft(stage)
         /\ stage = "fetch" => Ahead(CircuitProbe, stage, backends, n, ls) = 7 * Len(backends) + 1
         /\ stage # "fetch" => Ahead(CircuitProbe, stage, backends, n, ls)
                                 = 7 * (Len(backends) - n) + MeasureLeft(stage)
         /\ Ahead(ProofProbe, stage, backends, n, ls) = ProofLeft(stage)
         /\ Ahead(SendProbe, stage, backends, n, ls) = SendLeft(stage)
         /\ Ahead(WebProbe, stage, backends, n, ls) = 3 - Len(ls)
         /\ Ahead("none", stage, backends, n, ls) = 0
<1>1. Ahead(EngineProbe, stage, backends, n, ls) = 4 * (Len(backends) - n) + EngineLeft(stage)
  BY DEF Ahead, EngineProbe, CircuitProbe, ProofProbe, SendProbe, WebProbe
<1>2. stage = "fetch" => Ahead(CircuitProbe, stage, backends, n, ls) = 7 * Len(backends) + 1
  BY DEF Ahead, EngineProbe, CircuitProbe, ProofProbe, SendProbe, WebProbe
<1>3. stage # "fetch" => Ahead(CircuitProbe, stage, backends, n, ls)
                           = 7 * (Len(backends) - n) + MeasureLeft(stage)
  BY DEF Ahead, EngineProbe, CircuitProbe, ProofProbe, SendProbe, WebProbe
<1>4. Ahead(ProofProbe, stage, backends, n, ls) = ProofLeft(stage)
  BY DEF Ahead, EngineProbe, CircuitProbe, ProofProbe, SendProbe, WebProbe
<1>5. Ahead(SendProbe, stage, backends, n, ls) = SendLeft(stage)
  BY DEF Ahead, EngineProbe, CircuitProbe, ProofProbe, SendProbe, WebProbe
<1>6. Ahead(WebProbe, stage, backends, n, ls) = 3 - Len(ls)
  <2>1. Len(LEGS) = 3
    BY DEF LEGS
  <2> QED
    BY <2>1 DEF Ahead, EngineProbe, CircuitProbe, ProofProbe, SendProbe, WebProbe
<1>7. Ahead("none", stage, backends, n, ls) = 0
  BY DEF Ahead, EngineProbe, CircuitProbe, ProofProbe, SendProbe, WebProbe
<1> QED
  BY <1>1, <1>2, <1>3, <1>4, <1>5, <1>6, <1>7

\* Where one step of each probe can take its call.
LEMMA EngineStepGoes ==
  ASSUME EngineProbeStep
  PROVE  /\ call = EngineProbe /\ asked' = asked
         /\ \/ call' = "none"
            \/ call' = call /\ at' = "engine" /\ nth' = nth + 1 /\ nth < Len(asked)
            \/ /\ call' = call /\ nth' = nth
               /\ <<at, at'>> \in {<<"engine", "compile">>, <<"compile", "instantiate">>,
                                   <<"instantiate", "call">>}
<1>1. CASE BuildStore \/ CompileAdd \/ InstantiateAdd
  BY <1>1 DEF BuildStore, CompileAdd, InstantiateAdd, EnginePasses, Within
<1>2. ASSUME NEW p, EngineMeasured(p)
      PROVE  /\ asked' = asked
             /\ \/ call' = "none"
                \/ call' = call /\ at' = "engine" /\ nth' = nth + 1 /\ nth < Len(asked)
  BY <1>2 DEF EngineMeasured, Return
<1>3. CASE EngineRefuses \/ AddIsMissing \/ AddAnswers
  BY <1>2, <1>3 DEF EngineRefuses, AddIsMissing, AddAnswers, Within
<1> QED
  BY <1>1, <1>3 DEF EngineProbeStep

LEMMA MeasureStepGoes ==
  ASSUME MeasureStep
  PROVE  /\ call \in MeasuringCalls /\ call' = call /\ UNCHANGED <<asked, nth>>
         /\ \/ at \in {"signals", "compile", "instantiate", "calculator", "witness"}
               /\ at' = "measured"
            \/ <<at, at'>> \in {<<"engine", "compile">>, <<"compile", "instantiate">>,
                                <<"instantiate", "signals">>, <<"signals", "calculator">>,
                                <<"calculator", "witness">>}
<1>1. CASE MakeStore \/ CompileCircuit \/ MakeRuntime \/ MakeCalculator
  BY <1>1 DEF MakeStore, CompileCircuit, MakeRuntime, MakeCalculator, MeasurePasses, Measuring,
              MeasureStays
<1>2. ASSUME NEW p, MeasureEnds(p)
      PROVE  at' = "measured" /\ call' = call /\ UNCHANGED <<asked, nth>>
  BY <1>2 DEF MeasureEnds, MeasureStays
<1>3. CASE CheckSignals
  BY <1>2, <1>3 DEF CheckSignals, Measuring, MeasureStays
<1>4. CASE CalculateWitness \/ MeasureRefuses
  BY <1>2, <1>4 DEF CalculateWitness, MeasureRefuses, Measuring
<1> QED
  BY <1>1, <1>3, <1>4 DEF MeasureStep

LEMMA CircuitStepGoes ==
  ASSUME IInv, CircuitProbeStep
  PROVE  /\ call = CircuitProbe /\ asked' = asked
         /\ at = "fetch" \/ (at = "measured" /\ nth \in 1 .. Len(asked))
         /\ \/ call' = "none"
            \/ at = "fetch" /\ call' = call /\ at' = "engine" /\ nth' = 1 /\ asked # <<>>
            \/ at = "measured" /\ call' = call /\ at' = "engine" /\ nth' = nth + 1 /\ nth < Len(asked)
<1>1. CASE NothingMeasured
  BY <1>1 DEF NothingMeasured, Within, Return, measured
<1>2. CASE FetchCircuit
  <2>1. nth = 1
    BY <1>2 DEF FetchCircuit, Within, IInv, Counting
  <2> QED
    BY <1>2, <2>1 DEF FetchCircuit, Within, EnterMeasure
<1>3. CASE ReportWitness
  <2>1. call = CircuitProbe /\ at = "measured"
    BY <1>3 DEF ReportWitness, Within
  <2>2. nth \in 1 .. Len(asked)
    BY <2>1 DEF IInv, Counting, MeasureIsOn, MeasuringCalls
  <2> QED
    BY <1>3, <2>1, <2>2 DEF ReportWitness, Return, EnterMeasure
<1> QED
  BY <1>1, <1>2, <1>3 DEF CircuitProbeStep

LEMMA ProofStepGoes ==
  ASSUME ProofProbeStep
  PROVE  /\ call = ProofProbe
         /\ at \in {"measured"} \cup ProofStages
         /\ \/ call' = "none"
            \/ /\ call' = call
               /\ <<at, at'>> \in {<<"proving-key", "matrices">>, <<"matrices", "engine-witness">>,
                                   <<"engine-witness", "prove">>,
                                   <<"engine-witness", "probe-witness">>,
                                   <<"probe-witness", "engine">>, <<"measured", "prove">>}
<1>1. ASSUME NEW ls, ProofEnds(ls) PROVE call' = "none"
  BY <1>1 DEF ProofEnds, Return
<1>2. ASSUME NEW ls, NEW stage, ProofGoesOn(ls, stage) PROVE call' = call /\ at' = stage
  BY <1>2 DEF ProofGoesOn, ProofEnters
<1>3. CASE LoadProvingKey
  BY <1>1, <1>2, <1>3 DEF LoadProvingKey, Within, ProofStages
<1>4. CASE LoadMatrices
  BY <1>1, <1>2, <1>4 DEF LoadMatrices, Within, ProofStages
<1>5. CASE EngineWitness
  BY <1>2, <1>5 DEF EngineWitness, Within, ProofStages
<1>6. CASE EngineGivesNone
  BY <1>2, <1>6 DEF EngineGivesNone, Within, ProofStages
<1>7. CASE FetchReplica
  BY <1>1, <1>7 DEF FetchReplica, Within, EnterMeasure, ProofStages
<1>8. CASE TakeReplica
  BY <1>1, <1>2, <1>8 DEF TakeReplica, Within
<1>9. CASE Prove
  BY <1>1, <1>9 DEF Prove, Within, ProofStages
<1> QED
  BY <1>3, <1>4, <1>5, <1>6, <1>7, <1>8, <1>9 DEF ProofProbeStep

LEMMA SendStepGoes ==
  ASSUME SendProbeStep
  PROVE  /\ call = SendProbe
         /\ at \in SendStages
         /\ \/ call' = "none"
            \/ /\ call' = call
               /\ <<at, at'>> \in {<<"keys", "shield">>, <<"shield", "engine">>, <<"engine", "sync">>,
                                   <<"sync", "balance">>, <<"balance", "transfer-cold">>,
                                   <<"transfer-cold", "transfer-warm">>,
                                   <<"transfer-cold", "root-on-chain">>,
                                   <<"transfer-warm", "root-on-chain">>}
<1>1. ASSUME NEW ls, SendEnds(ls) PROVE call' = "none"
  BY <1>1 DEF SendEnds, Return
<1>2. ASSUME SendFails PROVE call' = "none"
  BY <1>1, <1>2 DEF SendFails
<1>3. ASSUME NEW stage, SendGoesOn(stage) PROVE call' = call /\ at' = stage
  BY <1>3 DEF SendGoesOn, SendEnters
<1>4. CASE DeriveKeys
  BY <1>2, <1>3, <1>4 DEF DeriveKeys, Within, SendStages
<1>5. CASE EncryptShield
  BY <1>2, <1>3, <1>5 DEF EncryptShield, Within, SendStages
<1>6. CASE BuildSender
  BY <1>2, <1>3, <1>6 DEF BuildSender, Within, SendStages
<1>7. CASE SyncSender
  BY <1>2, <1>3, <1>7 DEF SyncSender, Within, SendStages
<1>8. CASE CheckBalance
  <2>1. Passes(noted.repeat)[1] = "transfer-cold"
    BY DEF Passes
  <2> QED
    BY <1>2, <1>3, <1>8, <2>1 DEF CheckBalance, Within, SendStages
<1>9. CASE Transfer
  <2>1. call = SendProbe /\ at \in {"transfer-cold", "transfer-warm"}
    BY <1>9 DEF Transfer
  <2>2. CASE SendFails
    BY <1>2, <2>1, <2>2 DEF SendStages
  <2>3. CASE ProveTransfer
    <3>1. PICK pass \in 1 .. Len(Passes(noted.repeat)) :
            /\ at = Passes(noted.repeat)[pass]
            /\ \/ /\ pass < Len(Passes(noted.repeat))
                  /\ SendGoesOn(Passes(noted.repeat)[pass + 1])
               \/ SendGoesOn("root-on-chain")
               \/ SendEnds(Append(legs, Leg(at, TRUE)))
      BY <2>3 DEF ProveTransfer
    <3>2. pass < Len(Passes(noted.repeat)) =>
            at = "transfer-cold" /\ Passes(noted.repeat)[pass + 1] = "transfer-warm"
      BY <3>1 DEF Passes
    <3> QED
      BY <1>1, <1>3, <2>1, <3>1, <3>2 DEF SendStages
  <2> QED
    BY <1>9, <2>2, <2>3 DEF Transfer
<1>10. CASE AskRoot
  BY <1>1, <1>2, <1>10 DEF AskRoot, Within, SendStages
<1> QED
  BY <1>4, <1>5, <1>6, <1>7, <1>8, <1>9, <1>10 DEF SendProbeStep

LEMMA WebStepGoes ==
  ASSUME IInv, WebProbeStep
  PROVE  /\ call = WebProbe
         /\ \/ process' # "up" /\ UNCHANGED <<call, at, asked, nth, legs>>
            \/ Len(legs) + 1 <= 3 /\ call' = "none"
            \/ Len(legs) + 1 < 3 /\ Len(legs') = Len(legs) + 1 /\ call' = call
<1>1. Len(LEGS) = 3
  BY DEF LEGS
<1>2. \A e : Len(Append(legs, e)) = Len(legs) + 1
  BY AppendLength DEF IInv, Types
<1>3. ASSUME NEW ok \in BOOLEAN, Crossed(ok)
      PROVE  \/ Len(legs) + 1 <= 3 /\ call' = "none"
             \/ Len(legs) + 1 < 3 /\ Len(legs') = Len(legs) + 1 /\ call' = call
  <2>1. Len(legs) \in Nat
    BY DEF IInv, Types
  <2> QED
    BY <1>1, <1>2, <1>3, <2>1 DEF Crossed, Return
<1>4. CASE Answers
  BY <1>3, <1>4 DEF Answers, CrossWeb
<1>5. CASE FailsToCross
  BY <1>3, <1>5 DEF FailsToCross, CrossWeb
<1>6. CASE Hangs
  BY <1>6 DEF Hangs, CrossWeb, measured, run
<1> QED
  BY <1>4, <1>5, <1>6 DEF WebProbeStep

\* The crossings of a web probe under way are not all over.
CrossingsLeft == call = WebProbe => Len(legs) < 3

LEMMA StagesAreCounted ==
  ASSUME IInv, CrossingsLeft, call # "none"
  PROVE  StagesLeft \in Nat /\ StagesLeft > 0
<1>1. Len(asked) \in Nat /\ Len(legs) \in Nat /\ call \in Calls
  BY DEF IInv, Where, Counting, Types
<1>2. CASE call = EngineProbe
  <2>1. at \in EngineStages /\ nth \in 1 .. Len(asked)
    BY <1>2 DEF IInv, Where, Counting
  <2>2. EngineLeft(at) \in Nat /\ EngineLeft(at) > 0
    BY <2>1, EngineLeftIs DEF EngineStages
  <2>3. StagesLeft = 4 * (Len(asked) - nth) + EngineLeft(at)
    BY <1>2, AheadIs DEF StagesLeft
  <2> QED
    BY <1>1, <2>1, <2>2, <2>3
<1>3. CASE call = CircuitProbe /\ at = "fetch"
  <2>1. StagesLeft = 7 * Len(asked) + 1
    BY <1>3, AheadIs DEF StagesLeft
  <2> QED
    BY <1>1, <2>1
<1>4. CASE call = CircuitProbe /\ at # "fetch"
  <2>1. at \in {"measured"} \cup MeasureStages
    BY <1>4 DEF IInv, Where
  <2>2. nth \in 1 .. Len(asked)
    BY <1>4, <2>1 DEF IInv, Counting, MeasureIsOn, MeasuringCalls
  <2>3. MeasureLeft(at) \in Nat /\ MeasureLeft(at) > 0
    BY <2>1, MeasureLeftIs DEF MeasureStages
  <2>4. StagesLeft = 7 * (Len(asked) - nth) + MeasureLeft(at)
    BY <1>4, AheadIs DEF StagesLeft
  <2> QED
    BY <1>1, <2>2, <2>3, <2>4
<1>5. CASE call = ProofProbe
  <2>1. at \in {"measured"} \cup ProofStages \cup MeasureStages
    BY <1>5 DEF IInv, Where
  <2>2. ProofLeft(at) \in Nat /\ ProofLeft(at) > 0
    BY <2>1, ProofLeftIs DEF ProofStages, MeasureStages
  <2> QED
    BY <1>5, <2>2, AheadIs DEF StagesLeft
<1>6. CASE call = SendProbe
  <2>1. at \in SendStages
    BY <1>6 DEF IInv, Where
  <2>2. SendLeft(at) \in Nat /\ SendLeft(at) > 0
    BY <2>1, SendLeftIs DEF SendStages
  <2> QED
    BY <1>6, <2>2, AheadIs DEF StagesLeft
<1>7. CASE call = WebProbe
  <2>1. StagesLeft = 3 - Len(legs) /\ Len(legs) < 3
    BY <1>7, AheadIs DEF StagesLeft, CrossingsLeft
  <2> QED
    BY <1>1, <2>1
<1> QED
  BY <1>1, <1>2, <1>3, <1>4, <1>5, <1>6, <1>7 DEF Calls

\* A call that is over has nothing left, and the others have.
LEMMA EndsLower ==
  ASSUME IInv, CrossingsLeft, call # "none", call' = "none"
  PROVE  StagesLeft' \in Nat /\ StagesLeft' < StagesLeft
<1>1. StagesLeft' = 0
  BY AheadIs DEF StagesLeft
<1> QED
  BY <1>1, StagesAreCounted

LEMMA EngineStepLowers ==
  ASSUME IInv, CrossingsLeft, EngineProbeStep
  PROVE  call # "none" /\ StagesLeft' \in Nat /\ StagesLeft' < StagesLeft
<1>1. call = EngineProbe /\ asked' = asked /\ call # "none"
  BY EngineStepGoes DEF EngineProbe
<1>2. nth \in 1 .. Len(asked) /\ Len(asked) \in Nat /\ at \in EngineStages
  BY <1>1 DEF IInv, Counting, Where
<1>3. StagesLeft = 4 * (Len(asked) - nth) + EngineLeft(at)
  BY <1>1, AheadIs DEF StagesLeft
<1>4. EngineLeft(at) \in Nat /\ EngineLeft(at) > 0
  BY <1>2, EngineLeftIs DEF EngineStages
<1>5. call' = call => StagesLeft' = 4 * (Len(asked) - nth') + EngineLeft(at')
  BY <1>1, AheadIs DEF StagesLeft
<1>6. CASE call' = "none"
  BY <1>1, <1>6, EndsLower
<1>7. CASE call' = call /\ at' = "engine" /\ nth' = nth + 1 /\ nth < Len(asked)
  <2>1. StagesLeft' = 4 * (Len(asked) - (nth + 1)) + 4
    BY <1>5, <1>7, EngineLeftIs
  <2> QED
    BY <1>1, <1>2, <1>3, <1>4, <1>7, <2>1
<1>8. CASE /\ call' = call /\ nth' = nth
           /\ <<at, at'>> \in {<<"engine", "compile">>, <<"compile", "instantiate">>,
                               <<"instantiate", "call">>}
  <2>1. EngineLeft(at') \in Nat /\ EngineLeft(at') < EngineLeft(at)
    BY <1>8, EngineLeftIs
  <2>2. StagesLeft' = 4 * (Len(asked) - nth) + EngineLeft(at')
    BY <1>5, <1>8
  <2> QED
    BY <1>1, <1>2, <1>3, <1>4, <2>1, <2>2
<1> QED
  BY <1>6, <1>7, <1>8, EngineStepGoes

LEMMA MeasureStepLowers ==
  ASSUME IInv, CrossingsLeft, MeasureStep
  PROVE  call # "none" /\ StagesLeft' \in Nat /\ StagesLeft' < StagesLeft
<1>1. /\ call \in {CircuitProbe, ProofProbe} /\ call' = call /\ asked' = asked /\ nth' = nth
      /\ at \in MeasureStages /\ at' \in MeasureStages \cup {"measured"}
      /\ at # "fetch" /\ at' # "fetch" /\ call # "none"
  BY MeasureStepGoes DEF MeasuringCalls, MeasureStages, CircuitProbe, ProofProbe
<1>2. MeasureLeft(at) \in Nat /\ MeasureLeft(at') \in Nat /\ MeasureLeft(at') < MeasureLeft(at)
  BY MeasureStepGoes, MeasureLeftIs
<1>3. CASE call = CircuitProbe
  <2>1. nth \in 1 .. Len(asked) /\ Len(asked) \in Nat
    BY <1>1, <1>3 DEF IInv, Counting, MeasureIsOn, MeasuringCalls
  <2>2. /\ StagesLeft = 7 * (Len(asked) - nth) + MeasureLeft(at)
        /\ StagesLeft' = 7 * (Len(asked) - nth) + MeasureLeft(at')
    BY <1>1, <1>3, AheadIs DEF StagesLeft
  <2> QED
    BY <1>1, <1>2, <2>1, <2>2
<1>4. CASE call = ProofProbe
  <2>1. /\ ProofLeft(at) = 1 + MeasureLeft(at) /\ ProofLeft(at') = 1 + MeasureLeft(at')
    BY <1>1, MeasureLeftIs, ProofLeftIs DEF MeasureStages
  <2>2. StagesLeft = ProofLeft(at) /\ StagesLeft' = ProofLeft(at')
    BY <1>1, <1>4, AheadIs DEF StagesLeft
  <2> QED
    BY <1>1, <1>2, <2>1, <2>2
<1> QED
  BY <1>1, <1>3, <1>4

LEMMA CircuitStepLowers ==
  ASSUME IInv, CrossingsLeft, CircuitProbeStep
  PROVE  call # "none" /\ StagesLeft' \in Nat /\ StagesLeft' < StagesLeft
<1>1. call = CircuitProbe /\ asked' = asked /\ call # "none" /\ Len(asked) \in Nat
  BY CircuitStepGoes DEF CircuitProbe, IInv, Counting
<1>2. (call' = call /\ at' = "engine") => StagesLeft' = 7 * (Len(asked) - nth') + 7
  BY <1>1, AheadIs, MeasureLeftIs DEF StagesLeft
<1>3. CASE call' = "none"
  BY <1>1, <1>3, EndsLower
<1>4. CASE at = "fetch" /\ call' = call /\ at' = "engine" /\ nth' = 1 /\ asked # <<>>
  <2>1. Len(asked) >= 1
    BY <1>1, <1>4 DEF IInv, Counting
  <2>2. StagesLeft = 7 * Len(asked) + 1
    BY <1>1, <1>4, AheadIs DEF StagesLeft
  <2>3. StagesLeft' = 7 * Len(asked)
    <3>1. StagesLeft' = 7 * (Len(asked) - 1) + 7
      BY <1>2, <1>4
    <3>2. \A n \in Nat : 7 * (n - 1) + 7 = 7 * n
      OBVIOUS
    <3> QED
      BY <1>1, <3>1, <3>2
  <2>4. Len(asked) \in Nat
    BY <1>1
  <2>5. StagesLeft' \in Nat /\ StagesLeft' < StagesLeft
    BY <2>1, <2>2, <2>3, <2>4
  <2> QED
    BY <1>1, <2>5
<1>5. CASE /\ at = "measured" /\ call' = call /\ at' = "engine"
           /\ nth' = nth + 1 /\ nth < Len(asked) /\ nth \in 1 .. Len(asked)
  <2>1. StagesLeft = 7 * (Len(asked) - nth) + 1
    <3>1. MeasureLeft(at) = 1
      BY <1>5, MeasureLeftIs
    <3>2. StagesLeft = 7 * (Len(asked) - nth) + MeasureLeft(at)
      BY <1>1, <1>5, AheadIs DEF StagesLeft
    <3> QED
      BY <3>1, <3>2
  <2>2. StagesLeft' = 7 * (Len(asked) - (nth + 1)) + 7
    BY <1>2, <1>5
  <2>3. nth \in Nat /\ Len(asked) \in Nat /\ nth < Len(asked)
    BY <1>1, <1>5
  <2>4. StagesLeft' \in Nat /\ StagesLeft' < StagesLeft
    BY <2>1, <2>2, <2>3
  <2> QED
    BY <1>1, <2>4
<1> QED
  BY <1>3, <1>4, <1>5, CircuitStepGoes

LEMMA ProofStepLowers ==
  ASSUME IInv, CrossingsLeft, ProofProbeStep
  PROVE  call # "none" /\ StagesLeft' \in Nat /\ StagesLeft' < StagesLeft
<1>1. call = ProofProbe /\ call # "none"
  BY ProofStepGoes DEF ProofProbe
<1>2. CASE call' = "none"
  BY <1>1, <1>2, EndsLower
<1>3. CASE call' = call
  <2>1. ProofLeft(at') \in Nat /\ ProofLeft(at') < ProofLeft(at)
    BY <1>1, <1>3, ProofStepGoes, ProofLeftIs
  <2>2. StagesLeft = ProofLeft(at) /\ StagesLeft' = ProofLeft(at')
    BY <1>1, <1>3, AheadIs DEF StagesLeft
  <2> QED
    BY <1>1, <2>1, <2>2
<1> QED
  BY <1>2, <1>3, ProofStepGoes

LEMMA SendStepLowers ==
  ASSUME IInv, CrossingsLeft, SendProbeStep
  PROVE  call # "none" /\ StagesLeft' \in Nat /\ StagesLeft' < StagesLeft
<1>1. call = SendProbe /\ call # "none"
  BY SendStepGoes DEF SendProbe
<1>2. CASE call' = "none"
  BY <1>1, <1>2, EndsLower
<1>3. CASE call' = call
  <2>1. SendLeft(at') \in Nat /\ SendLeft(at') < SendLeft(at)
    BY <1>1, <1>3, SendStepGoes, SendLeftIs
  <2>2. StagesLeft = SendLeft(at) /\ StagesLeft' = SendLeft(at')
    BY <1>1, <1>3, AheadIs DEF StagesLeft
  <2> QED
    BY <1>1, <2>1, <2>2
<1> QED
  BY <1>2, <1>3, SendStepGoes

LEMMA WebStepLowers ==
  ASSUME IInv, CrossingsLeft, WebProbeStep
  PROVE  /\ call # "none"
         /\ \/ process' # "up" /\ StagesLeft' = StagesLeft
            \/ StagesLeft' \in Nat /\ StagesLeft' < StagesLeft
<1>1. call = WebProbe /\ call # "none" /\ Len(legs) \in Nat
  BY WebStepGoes DEF WebProbe, IInv, Types
<1>2. CASE process' # "up" /\ UNCHANGED <<call, at, asked, nth, legs>>
  BY <1>1, <1>2 DEF StagesLeft
<1>3. CASE call' = "none"
  BY <1>1, <1>3, EndsLower
<1>4. CASE Len(legs) + 1 < 3 /\ Len(legs') = Len(legs) + 1 /\ call' = call
  <2>1. StagesLeft = 3 - Len(legs) /\ StagesLeft' = 3 - (Len(legs) + 1)
    BY <1>1, <1>4, AheadIs DEF StagesLeft
  <2> QED
    BY <1>1, <1>4, <2>1
<1> QED
  BY <1>1, <1>2, <1>3, <1>4, WebStepGoes

LEMMA ProbeStepLowers ==
  ASSUME IInv, CrossingsLeft, ProbeStep
  PROVE  /\ call # "none"
         /\ \/ process' # "up" /\ StagesLeft' = StagesLeft
            \/ StagesLeft' \in Nat /\ StagesLeft' < StagesLeft
BY EngineStepLowers, MeasureStepLowers, CircuitStepLowers, ProofStepLowers, SendStepLowers,
   WebStepLowers DEF ProbeStep

LEMMA NextKeepsCrossingsLeft ==
  ASSUME IInv, CrossingsLeft, [Next]_vars
  PROVE  CrossingsLeft'
<1>1. CASE UNCHANGED vars \/ Publish \/ Killed
  BY <1>1 DEF vars, run, Publish, Killed, CrossingsLeft
<1>2. CASE Relaunch
  BY <1>2 DEF Relaunch, CrossingsLeft, WebProbe
<1>3. CASE CallsArrive
  <2>1. legs' = <<>>
    BY <1>3 DEF CallsArrive, CallEngineProbe, CallCircuitProbe, CallProofProbe, CallSendProbe,
                CallWebProbe, Begin
  <2> QED
    BY <2>1 DEF CrossingsLeft
<1>4. CASE WebProbeStep
  <2>1. Len(legs) \in Nat
    BY DEF IInv, Types
  <2> QED
    BY <1>4, <2>1, WebStepGoes DEF CrossingsLeft, WebProbe
<1>5. CASE EngineProbeStep \/ MeasureStep \/ CircuitProbeStep \/ ProofProbeStep \/ SendProbeStep
  <2>1. call' # WebProbe
    BY <1>5, EngineStepGoes, MeasureStepGoes, CircuitStepGoes, ProofStepGoes, SendStepGoes
    DEF MeasuringCalls, EngineProbe, CircuitProbe, ProofProbe, SendProbe, WebProbe
  <2> QED
    BY <2>1 DEF CrossingsLeft
<1> QED
  BY <1>1, <1>2, <1>3, <1>4, <1>5 DEF Next, ProbeStep

(***************************************************************************)
(* Every step of a probe brings its call nearer to its answer, unless it   *)
(* is the wait that cannot end; a moving branch and a killed process give  *)
(* it no more to do.  With the fairness of FairSpec, why EveryProbeAnswers *)
(* holds (the five probe methods of glue.rs).                              *)
(***************************************************************************)
THEOREM ProbesOnlyGoForward == Spec => ProbesGoForward
<1>1. Init => CrossingsLeft
  BY DEF Init, CrossingsLeft, WebProbe
<1>2. IInv /\ CrossingsLeft /\ [Next]_vars => CrossingsLeft'
  BY NextKeepsCrossingsLeft
<1>3. IInv /\ CrossingsLeft /\ [Next]_vars =>
        [(process = "up" /\ call # "none") =>
           /\ StagesLeft \in Nat /\ StagesLeft > 0
           /\ StagesLeft' <= StagesLeft
           /\ (ProbeStep /\ process' = "up") => StagesLeft' < StagesLeft]_vars
  <2> SUFFICES ASSUME IInv, CrossingsLeft, Next, process = "up", call # "none"
               PROVE  /\ StagesLeft \in Nat /\ StagesLeft > 0
                      /\ StagesLeft' <= StagesLeft
                      /\ (ProbeStep /\ process' = "up") => StagesLeft' < StagesLeft
    OBVIOUS
  <2>1. StagesLeft \in Nat /\ StagesLeft > 0
    BY StagesAreCounted
  <2>2. CASE ProbeStep
    BY <2>1, <2>2, ProbeStepLowers
  <2>3. CASE (Publish \/ Killed) /\ ~ProbeStep
    <3>1. StagesLeft' = StagesLeft
      BY <2>3 DEF Publish, Killed, StagesLeft, measured, run
    <3> QED
      BY <2>1, <2>3, <3>1
  <2>4. ~Relaunch /\ ~CallsArrive
    BY DEF Relaunch, CallsArrive, CallEngineProbe, CallCircuitProbe, CallProofProbe, CallSendProbe,
           CallWebProbe, Begin, Idle
  <2> QED
    BY <2>2, <2>3, <2>4 DEF Next
<1> QED
  BY <1>1, <1>2, <1>3, DeviceProbesInvariant, PTL DEF Spec, ProbesGoForward
=============================================================================
