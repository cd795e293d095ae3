------------------------- MODULE ProofCircuitProbe -------------------------
(***************************************************************************)
(* proof_circuit_probe: what does the proof cost here?  proof_circuit.rs   *)
(* downloads the proving key and the matrices, asks the engine for a       *)
(* witness where the build can, measures its own where the engine gave     *)
(* none, and proves over whichever came.  The three files it downloads are *)
(* three reads of a branch that may move between them.                     *)
(***************************************************************************)
EXTENDS WitnessCircuitProbe

(***************************************************************************)
(* The fields of a run: where the witness came from, the one proven over,  *)
(* the circuits the matrices and the replica's wasm belong to.             *)
(***************************************************************************)
NoRun == [source |-> "none", witness |-> None, matrices |-> None, wasm |-> None]

\* ark-circom's account of a circuit, in the matrices: both numbers count the
\* constant wire.
NumInstance(a) == a.public + 1
NumWitness(a) == a.vars - a.public

ExpectedWitnessLen(a) == NumInstance(a) + NumWitness(a) - 1

\* A bug: a short witness is let through to the prover.
AnyWitness(a, w) == w.len <= ExpectedWitnessLen(a)

\* The lengths a proof may be created over: the prover itself would take any.
WitnessLenCheck(a, w) == w.len = ExpectedWitnessLen(a)

\* A run is green when every leg it ran completed, verified or not: over
\* placeholders a proof cannot verify.
ProofOk(ls) == AllGreen(ls)

-----------------------------------------------------------------------------
\* A stage announced by proof_circuit itself.
ProofEnters(stage) == at' = stage /\ line' = Entering(None, stage)

\* The run goes on at `stage` with its legs as `ls`.
ProofGoesOn(ls, stage) ==
  /\ legs' = ls
  /\ ProofEnters(stage)
  /\ UNCHANGED <<build, process, call, printed, measured, reply>>

\* The run ends with its legs as `ls`.
ProofEnds(ls) ==
  /\ legs' = ls
  /\ Return(ProofProbe, ProofOk(ls))
  /\ UNCHANGED <<build, process, console, measured>>

\* A name with no known signals is answered at once: no leg, no call.
CallProofProbe ==
  /\ Begin(ProofProbe, "proving-key")
  /\ line' = Entering(None, "proving-key")
  /\ asked' = <<>> /\ probe' = None
  /\ noted' = NoRun

LoadProvingKey ==
  /\ Within(ProofProbe, "proving-key")
  /\ \/ ProofGoesOn(Append(legs, Leg("proving-key", TRUE)), "matrices")
     \/ ProofEnds(Append(legs, Leg("proving-key", FALSE)))
  /\ UNCHANGED noted

LoadMatrices ==
  /\ Within(ProofProbe, "matrices")
  /\ \/ /\ noted' = [noted EXCEPT !.matrices = published]
        /\ ProofGoesOn(Append(legs, Leg("matrices", TRUE)), "engine-witness")
     \/ /\ UNCHANGED noted
        /\ ProofEnds(Append(legs, Leg("matrices", FALSE)))

\* The engine's own load_wasm, then its own calculate_witness, whose sanity
\* check the placeholders may not pass.
EngineWitness ==
  /\ Within(ProofProbe, "engine-witness")
  /\ image.seam
  /\ \E w \in WitnessesOf(published) :
       noted' = [noted EXCEPT !.source = "engine", !.witness = w]
  /\ ProofGoesOn(legs \o <<Leg("engine-wasm", TRUE), Leg("engine-witness", TRUE)>>, "prove")

\* A bug: the leg gives nothing back in a build with no seam.
OnlyTheSeamAnswers ==
  /\ image.seam
  /\ Within(ProofProbe, "engine-witness")
  /\ \E loaded \in BOOLEAN :
       ProofGoesOn(
         legs \o (IF loaded THEN <<Leg("engine-wasm", TRUE)>> ELSE <<>>)
              \o <<Leg("engine-witness", FALSE)>>,
         "probe-witness")
  /\ UNCHANGED noted

\* A bug: the replica takes over without a word.
EngineGivesNoneUnsaid ==
  /\ Within(ProofProbe, "engine-witness")
  /\ ProofGoesOn(legs, "probe-witness")
  /\ UNCHANGED noted

\* Not fatal, and not silent: the replica takes over.  A build with no seam gets here always,
\* a build with one when its download or its calculation fails.
EngineGivesNone ==
  /\ Within(ProofProbe, "engine-witness")
  /\ \E loaded \in BOOLEAN :
       /\ loaded => image.seam
       /\ ProofGoesOn(
            legs \o (IF loaded THEN <<Leg("engine-wasm", TRUE)>> ELSE <<>>)
                 \o <<Leg("engine-witness", FALSE)>>,
            "probe-witness")
  /\ UNCHANGED noted

\* The replica's own download of the circuit, then measure_witness on the
\* backend the engine proves with.
FetchReplica ==
  /\ Within(ProofProbe, "probe-witness")
  /\ \/ /\ noted' = [noted EXCEPT !.wasm = published]
        /\ asked' = <<ENGINE_BACKEND>>
        /\ EnterMeasure(ENGINE_BACKEND)
        /\ UNCHANGED <<build, process, call, printed, nth, probes, legs, reply>>
     \/ /\ ProofEnds(Append(legs, Leg("probe-witness", FALSE)))
        /\ UNCHANGED noted

\* measure_witness came back, with the values or with the reason.
TakeReplica ==
  /\ Within(ProofProbe, "measured")
  /\ \/ /\ probe.witness # None
        /\ noted' = [noted EXCEPT !.source = "probe", !.witness = probe.witness]
        /\ ProofGoesOn(Append(legs, Leg("probe-witness", TRUE)), "prove")
     \/ /\ probe.witness = None
        /\ UNCHANGED noted
        /\ ProofEnds(Append(legs, Leg("probe-witness", FALSE)))

\* The length is checked first; creating and verifying may fail after it.
Prove ==
  /\ Within(ProofProbe, "prove")
  /\ \/ /\ WitnessLenCheck(noted.matrices, noted.witness)
        /\ ProofEnds(legs \o <<Leg("prove", TRUE), Leg("verify", TRUE)>>)
     \/ ProofEnds(Append(legs, Leg("prove", FALSE)))
  /\ UNCHANGED noted

ProofProbeStep ==
  \/ LoadProvingKey \/ LoadMatrices \/ EngineWitness \/ EngineGivesNone
  \/ FetchReplica \/ TakeReplica \/ Prove
=============================================================================
