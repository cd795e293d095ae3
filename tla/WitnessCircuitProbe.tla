------------------------ MODULE WitnessCircuitProbe ------------------------
(***************************************************************************)
(* witness_circuit_probe: how long does a witness take here?               *)
(* witness_circuit.rs downloads the real circuit once and takes each       *)
(* backend asked for through compiling it, asking it what it takes and     *)
(* running it.  measure_witness is also a leg of proof_circuit_probe, so   *)
(* its stages belong to either call and end in "measured", from which the  *)
(* caller carries on.                                                      *)
(***************************************************************************)
EXTENDS ProbeProcess

CircuitProbe == "witness_circuit_probe"
ProofProbe == "proof_circuit_probe"
MeasuringCalls == {CircuitProbe, ProofProbe}

(***************************************************************************)
(* What calculate_witness hands back.  `whole` is not in the code: whether *)
(* the circuit truly ran.  A circuit fed too few signals never runs, and   *)
(* answers at once with what it has.                                       *)
(***************************************************************************)
Witness == [len : Nat, nonzero : BOOLEAN, whole : BOOLEAN]
WitnessesOf(a) ==
  IF a.fits
  THEN {[len |-> a.vars, nonzero |-> TRUE, whole |-> TRUE]}
  ELSE [len : {1, a.vars}, nonzero : BOOLEAN, whole : {FALSE}]

\* getInputSignalSize against what this probe writes.
Declared(a) ==
  IF ~a.speaks THEN "unchecked" ELSE IF a.fits THEN "agrees" ELSE "differs"

WitnessReport(backend) ==
  [requested |-> backend, reached |-> "engine", declared |-> "unasked",
   witness |-> None, error |-> "none"]
GeneratedAWitness(p) == p.reached = "witness" /\ p.witness.nonzero

\* Measuring `backend` starts, in whichever call.
EnterMeasure(backend) ==
  /\ at' = "engine"
  /\ probe' = WitnessReport(backend)
  /\ line' = Entering(backend, "engine")

-----------------------------------------------------------------------------
\* measure_witness is at `stage`.
Measuring(stage) == call \in MeasuringCalls /\ process = "up" /\ at = stage

MeasureStays == UNCHANGED <<build, process, call, printed, asked, nth, probes, run, reply>>

\* A stage completes and the next one is announced and entered.
MeasurePasses(from, to, reached) ==
  /\ Measuring(from)
  /\ at' = to
  /\ line' = Entering(asked[nth], to)
  /\ probe' = [probe EXCEPT !.reached = reached]
  /\ MeasureStays

\* The stage under way ends the measurement with the report `p`.
MeasureEnds(p) ==
  /\ at' = "measured"
  /\ probe' = p
  /\ UNCHANGED line
  /\ MeasureStays

MakeStore == MeasurePasses("engine", "compile", "engine")
CompileCircuit == MeasurePasses("compile", "instantiate", "compile")
\* Wired, but `reached` waits for the calculator.
MakeRuntime == MeasurePasses("instantiate", "signals", "compile")

\* A bug: a signal that differs is noted, and the run is timed all the same.
NoteSignals ==
  /\ Measuring("signals")
  /\ at' = "calculator"
  /\ probe' = [probe EXCEPT !.declared = Declared(noted.wasm)]
  /\ UNCHANGED line
  /\ MeasureStays

\* A circuit that takes other signals is refused and not timed.  The
\* calculator is entered without an announcement of its own.
CheckSignals ==
  LET asking == [probe EXCEPT !.declared = Declared(noted.wasm)] IN
  /\ Measuring("signals")
  /\ \/ /\ asking.declared = "differs"
        /\ MeasureEnds([asking EXCEPT !.error = "signals"])
     \/ /\ asking.declared # "differs"
        /\ at' = "calculator"
        /\ probe' = asking
        /\ UNCHANGED line
        /\ MeasureStays

\* SIGNALS is reached only by a circuit that answered for each of them.
MakeCalculator ==
  MeasurePasses("calculator", "witness",
                IF probe.declared = "agrees" THEN "signals" ELSE "instantiate")

CalculateWitness ==
  /\ Measuring("witness")
  /\ \E w \in WitnessesOf(noted.wasm) :
       MeasureEnds([probe EXCEPT !.reached = "witness", !.witness = w])

\* A bug: a refusal is labelled with a stage no report knows.
RefusesUnderItsOwnName ==
  \E stage \in {"compile", "instantiate", "calculator", "witness"} :
    /\ Measuring(stage)
    /\ MeasureEnds([probe EXCEPT !.error = stage])

\* The calculator answers to the label of the stage it belongs to.
MeasureRefuses ==
  \E stage \in {"compile", "instantiate", "calculator", "witness"} :
    /\ Measuring(stage)
    /\ MeasureEnds([probe EXCEPT
         !.error = IF stage = "calculator" THEN "instantiate" ELSE stage])

MeasureStep ==
  \/ MakeStore \/ CompileCircuit \/ MakeRuntime \/ CheckSignals
  \/ MakeCalculator \/ CalculateWitness \/ MeasureRefuses

-----------------------------------------------------------------------------
\* The backends a caller may name; None is the default order.  "transact" is
\* a circuit the probe knows the signals of, "poi" one it does not.
Requests ==
  {None, <<>>, <<EngineDefault>>, <<Wasmi>>, <<EngineDefault, Wasmi>>, <<Wasmi, Wasmi>>}
Circuits == {"transact", "poi"}

\* A name that is not in the image refuses the call, before any download.
CallCircuitProbe(circuit, names) ==
  LET backends == IF names = None THEN PROBE_ORDER ELSE names IN
  /\ Begin(CircuitProbe, "fetch")
  /\ \A i \in 1..Len(backends) : InImage(backends[i])
  /\ asked' = backends
  /\ probe' = None
  /\ noted' = [circuit |-> circuit, wasm |-> None]
  /\ UNCHANGED line

\* The download fails, or there is nothing to measure: the name has no known
\* signals, or no backend was named.
NothingMeasured ==
  /\ Within(CircuitProbe, "fetch")
  /\ Return(CircuitProbe, FALSE)
  /\ UNCHANGED <<build, process, console, measured, run>>

\* One download, shared by every backend.
FetchCircuit ==
  /\ Within(CircuitProbe, "fetch")
  /\ noted.circuit = "transact" /\ asked # <<>>
  /\ noted' = [noted EXCEPT !.wasm = published]
  /\ EnterMeasure(asked[1])
  /\ UNCHANGED <<build, process, call, printed, asked, nth, probes, legs, reply>>

\* A backend's outcome is printed; the next one is announced or the call
\* answers.
ReportWitness ==
  LET done == Append(probes, probe) IN
  /\ Within(CircuitProbe, "measured")
  /\ probes' = done
  /\ printed' = printed \cup {probe.requested}
  /\ \/ /\ nth < Len(asked)
        /\ nth' = nth + 1
        /\ EnterMeasure(asked[nth + 1])
        /\ UNCHANGED <<call, reply>>
     \/ /\ nth = Len(asked)
        /\ Return(CircuitProbe, \A i \in 1..Len(done) : GeneratedAWitness(done[i]))
        /\ UNCHANGED <<nth, probe, line>>
  /\ UNCHANGED <<build, process, asked, run>>

CircuitProbeStep == NothingMeasured \/ FetchCircuit \/ ReportWitness
=============================================================================
