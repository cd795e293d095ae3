---------------------------- MODULE DeviceProbes ----------------------------
(***************************************************************************)
(* The device probes of railgun_module over one process: five calls that   *)
(* share a console and a fate.  live_send_probe spends money on a chain    *)
(* and is in LiveSend.                                                     *)
(***************************************************************************)
EXTENDS WitnessEngineProbe, ProofCircuitProbe, PrivateSendProbe, WebDependencyProbe

NamedStages ==
  {"engine", "compile", "instantiate", "call", "signals", "witness",
   "proving-key", "matrices", "engine-witness", "probe-witness", "prove",
   "keys", "shield", "sync", "balance", "transfer-cold", "transfer-warm",
   "root-on-chain", "caller_identity", "list_accounts"}
\* Entered without a line of their own: the download of witness_circuit_probe,
\* the calculator, and the return from measure_witness.
SilentStages == {"idle", "fetch", "calculator", "measured"}

Calls == {EngineProbe, CircuitProbe, ProofProbe, SendProbe, WebProbe}

CallsArrive ==
  \/ CallEngineProbe
  \/ \E circuit \in Circuits, names \in Requests : CallCircuitProbe(circuit, names)
  \/ CallProofProbe
  \/ \E shield, transfer \in Amounts, repeat \in BOOLEAN :
       CallSendProbe(shield, transfer, repeat)
  \/ \E dispatch \in Thread, recorded \in BOOLEAN : CallWebProbe(dispatch, recorded)

ProbeStep ==
  \/ EngineProbeStep \/ MeasureStep \/ CircuitProbeStep
  \/ ProofProbeStep \/ SendProbeStep \/ WebProbeStep

Next == CallsArrive \/ ProbeStep \/ Publish \/ Killed \/ Relaunch

Spec == Init /\ [][Next]_vars

\* A probe that can go on does.
FairSpec == Spec /\ WF_vars(ProbeStep)

-----------------------------------------------------------------------------
EngineReports ==
  [requested : Backend, reached : {"engine", "compile", "instantiate", "call"},
   answer : Answer, error : {"none", "compile", "instantiate", "export", "call"}]
WitnessReports ==
  [requested : Backend,
   reached : {"engine", "compile", "instantiate", "signals", "witness"},
   declared : {"unasked", "unchecked", "agrees", "differs"},
   witness : Witness \cup {None},
   error : {"none", "compile", "instantiate", "signals", "witness"}]
ProofRuns ==
  [source : {"none", "engine", "probe"}, witness : Witness \cup {None},
   matrices : Artifacts \cup {None}, wasm : Artifacts \cup {None}]

\* None is none of the values it stands for the absence of.
ASSUME NoneAssumption ==
  None \notin EngineReports \cup WitnessReports \cup Artifacts \cup Identity

(***************************************************************************)
(* The values the variables take.                                          *)
(***************************************************************************)
TypeOK ==
  /\ image \in Image
  /\ published \in Artifacts
  /\ process \in {"up", "killed", "hung"}
  /\ call \in Calls \cup {"none"}
  /\ at \in NamedStages \cup SilentStages
  /\ line \in [backend : Backend \cup {None}, stage : NamedStages \cup {"idle"}]
  /\ printed \subseteq Backend
  /\ asked \in Seq(Backend)
  /\ nth \in 1..Len(asked) \/ nth = 1
  /\ call = EngineProbe => probe \in EngineReports
  /\ (call = ProofProbe \/ call = CircuitProbe) => probe \in WitnessReports \cup {None}
  /\ call = EngineProbe => probes \in Seq(EngineReports)
  /\ call = CircuitProbe => probes \in Seq(WitnessReports)
  /\ legs \in Seq([name : NamedStages \cup {"engine-wasm", "verify"}, ok : BOOLEAN])
  /\ call = ProofProbe => noted \in ProofRuns
  /\ call = "none" <=> at = "idle"

(***************************************************************************)
(* A probe that is killed or never returns leaves one instrument: the last *)
(* line of the console.  It names the stage the silence began in, and the  *)
(* backend where one was at work (`entering` of every probe).  The         *)
(* calculator is the exception that the code has: it is entered under the  *)
(* line of the signals.                                                    *)
(***************************************************************************)
SilenceIsNamed ==
  (process # "up" /\ at \notin SilentStages) =>
     /\ line.stage = at
     /\ line.backend = IF probe = None \/ at \in {"probe-witness", "prove"}
                       THEN None ELSE asked[nth]

(***************************************************************************)
(* The backend under suspicion goes last and an outcome is printed as it   *)
(* happens: a device that kills the process over the engine's own backend  *)
(* has by then printed what every other backend of the image did           *)
(* (PROBE_ORDER and probe_backend of witness_engine.rs, run of             *)
(* witness_circuit.rs where the caller names no order of their own).       *)
(***************************************************************************)
SurvivorsArePrinted ==
  (/\ process = "killed" /\ call \in {EngineProbe, CircuitProbe}
   /\ asked = PROBE_ORDER /\ at \notin {"fetch", "measured"}
   /\ asked[nth] = EngineDefault) =>
     \A backend \in Backend \ {EngineDefault} : InImage(backend) => backend \in printed

(***************************************************************************)
(* What is timed is the whole circuit, and what is proven over is as long  *)
(* as the matrices need: a short witness is the failure that reads as a    *)
(* fast run.  A green witness of a circuit that answered for its signals   *)
(* was whole, a proof is over a witness of the length the prover's slices  *)
(* need although its files were read from a branch that moves, and a       *)
(* replica's witness is not passed off for the engine's: the leg that gave *)
(* none is there and red (check_signals, witness_len_check, "NOT fatal,    *)
(* and not silent" in run of proof_circuit.rs).                            *)
(***************************************************************************)
MeasuredCircuitRan ==
  /\ (reply # None /\ reply.of = CircuitProbe) =>
       \A i \in 1..Len(probes) :
         (GeneratedAWitness(probes[i]) /\ probes[i].declared # "unchecked") =>
            probes[i].witness.whole
  /\ (reply # None /\ reply.of = ProofProbe) =>
       /\ (\E i \in 1..Len(legs) : legs[i] = Leg("prove", TRUE)) =>
            noted.witness.len = noted.matrices.vars
       /\ noted.source = "probe" =>
            \E i \in 1..Len(legs) : legs[i] = Leg("engine-witness", FALSE)

\* The legs of a private send that goes through, in order.
SendPlan(n) ==
  <<"keys", "shield", "engine", "sync", "balance">> \o Passes(n.repeat)
    \o (IF n.root THEN <<"root-on-chain">> ELSE <<>>)

(***************************************************************************)
(* A run of legs says where it stopped: the legs it answers with are the   *)
(* first ones of the way a private send goes, only the last can be red,    *)
(* and a green run went the whole way with every transfer proved out of a  *)
(* note the engine read.  In a proof run one red leg may be followed by    *)
(* others, the engine's own witness (run of private_send.rs and            *)
(* proof_circuit.rs).                                                      *)
(***************************************************************************)
LegsSayWhereItStopped ==
  /\ (reply # None /\ reply.of = SendProbe) =>
       /\ legs # <<>> /\ Len(legs) <= Len(SendPlan(noted))
       /\ \A i \in 1..Len(legs) :
            legs[i].name = SendPlan(noted)[i] /\ (legs[i].ok \/ i = Len(legs))
       /\ reply.ok <=> Len(legs) = Len(SendPlan(noted)) /\ legs[Len(legs)].ok
       /\ reply.ok => /\ noted.proved = Len(Passes(noted.repeat))
                      /\ noted.shield > 0 => noted.read
  /\ (reply # None /\ reply.of = ProofProbe) =>
       /\ legs # <<>>
       /\ \A i \in 1..Len(legs) :
            legs[i].ok \/ i = Len(legs) \/ legs[i].name = "engine-witness"
       /\ legs[Len(legs)].ok => legs[Len(legs)].name = "verify"

\* The backend the engine proves with is among those measured, and ran.
EngineBackendRan ==
  \E i \in 1..Len(probes) :
    probes[i].requested = ENGINE_BACKEND /\ RanTheEmittedCode(probes[i])

\* Every backend of the image is measured, and the headline is the one the
\* engine proves with: on every target but one (ProvingIsOk).
HeadlineIsTheEngines ==
  (reply # None /\ reply.of = EngineProbe) =>
    /\ Len(probes) = Len(PROBE_ORDER)
    /\ image.target # "ios" => (reply.ok <=> EngineBackendRan)

\* A green web dependency was reached by all the crossings, and the last that
\* told gave this module's name; it was not waited for where it is delivered.
NamedAsCaller ==
  (reply # None /\ reply.of = WebProbe) =>
    /\ Len(legs) = Len(LEGS)
    /\ reply.ok => /\ \A i \in 1..Len(legs) : legs[i].ok
                   /\ noted.named # <<>> /\ noted.named[Len(noted.named)] = THIS_MODULE
                   /\ IsPage => LeftTheLoadThread(noted) \in {TRUE, None}

(***************************************************************************)
(* A verdict is about what it says: witness_engine_probe is green, off     *)
(* iOS, for the backend the engine proves with and for no other            *)
(* (split_last in glue.rs), and web_dependency_probe for a dependency that *)
(* was reached every time and whose last word on its caller was right      *)
(* (probe and Probe::ok of web_dependency.rs).                             *)
(***************************************************************************)
VerdictsAreEarned == HeadlineIsTheEngines /\ NamedAsCaller

(***************************************************************************)
(* Where the device was seen to prove, `ok` says so.  Said of              *)
(* witness_engine_probe by glue.rs ("`ok` answers can THIS device prove")  *)
(* and of proof_circuit_probe by a test of proof_circuit.rs, which proves  *)
(* in a build with no seam and asserts ok().  Violated in both: on iOS the *)
(* headline is not what the engine proves with, and with no seam the       *)
(* engine's own leg is red whatever comes after it.                        *)
(***************************************************************************)
ProvingIsOk ==
  /\ (reply # None /\ reply.of = EngineProbe /\ EngineBackendRan) => reply.ok
  /\ (/\ reply # None /\ reply.of = ProofProbe
      /\ \E i \in 1..Len(legs) : legs[i] = Leg("prove", TRUE)) => reply.ok

(***************************************************************************)
(* A probe that is called answers, unless the process is killed under it.  *)
(* The one wait that cannot end is that for a page, begun on the thread    *)
(* the page delivers on: a crossing made on any other thread ends (LEGS    *)
(* and probe of web_dependency.rs), and nothing else hangs.                *)
(***************************************************************************)
EveryProbeAnswers ==
  (process = "up" /\ call # "none" /\ ~(call = WebProbe /\ IsPage /\ noted.dispatch = "load"))
    ~> (process = "killed" \/ call = "none")
=============================================================================
