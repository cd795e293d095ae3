------------------------- MODULE WitnessEngineProbe -------------------------
(***************************************************************************)
(* witness_engine_probe: may the witness generator run on this device?     *)
(* witness_engine.rs takes a backend through the engine's own stages over  *)
(* a tiny wasm module, for each backend of the image in PROBE_ORDER.       *)
(***************************************************************************)
EXTENDS ProbeProcess

EngineProbe == "witness_engine_probe"

\* What a backend's emitted `add` answers, and the report of its stages.
Answer == {"none", "right", "wrong"}
EngineReport(backend) ==
  [requested |-> backend, reached |-> "engine", answer |-> "none", error |-> "none"]
RanTheEmittedCode(p) == p.reached = "call" /\ p.answer = "right"

EnterEngine(backend) ==
  /\ probe' = EngineReport(backend)
  /\ line' = Entering(backend, "engine")

CallEngineProbe ==
  /\ Begin(EngineProbe, "engine")
  /\ asked' = PROBE_ORDER
  /\ EnterEngine(PROBE_ORDER[1])
  /\ noted' = None

\* A bug: the headline is the first one measured.
FirstHeadline(ps) == ps[1]

\* The headline is the last backend measured, the engine's own; those before
\* it are the alternatives.
Headline(ps) == ps[Len(ps)]

(***************************************************************************)
(* A backend is measured: its outcome is printed as it happens, not kept   *)
(* for the reply.  The next is announced, or the call answers.             *)
(***************************************************************************)
EngineMeasured(p) ==
  /\ probes' = Append(probes, p)
  /\ printed' = printed \cup {p.requested}
  /\ \/ /\ nth < Len(asked)
        /\ nth' = nth + 1 /\ at' = "engine"
        /\ EnterEngine(asked[nth + 1])
        /\ UNCHANGED <<call, reply>>
     \/ /\ nth = Len(asked)
        /\ Return(EngineProbe, RanTheEmittedCode(Headline(Append(probes, p))))
        /\ UNCHANGED <<nth, probe, line>>
  /\ UNCHANGED <<build, process, asked, run>>

\* A bug: a stage is announced once it is over.
PassesThenSays(from, to) ==
  /\ Within(EngineProbe, from)
  /\ at' = to
  /\ line' = Entering(asked[nth], from)
  /\ probe' = [probe EXCEPT !.reached = from]
  /\ UNCHANGED <<build, process, call, printed, asked, nth, probes, run, reply>>

\* A stage completes and the next one is announced and entered.
EnginePasses(from, to) ==
  /\ Within(EngineProbe, from)
  /\ at' = to
  /\ line' = Entering(asked[nth], to)
  /\ probe' = [probe EXCEPT !.reached = from]
  /\ UNCHANGED <<build, process, call, printed, asked, nth, probes, run, reply>>

BuildStore == EnginePasses("engine", "compile")
CompileAdd == EnginePasses("compile", "instantiate")
InstantiateAdd == EnginePasses("instantiate", "call")

\* A stage is refused politely.
EngineRefuses ==
  \E stage \in {"compile", "instantiate", "call"} :
    /\ Within(EngineProbe, stage)
    /\ EngineMeasured([probe EXCEPT !.error = stage])

\* The instance exports no `add`: nothing was announced for looking it up.
AddIsMissing ==
  /\ Within(EngineProbe, "instantiate")
  /\ EngineMeasured([probe EXCEPT !.reached = "instantiate", !.error = "export"])

\* The emitted code ran and answered.
AddAnswers ==
  /\ Within(EngineProbe, "call")
  /\ \E right \in BOOLEAN :
       EngineMeasured([probe EXCEPT
         !.reached = "call",
         !.answer = IF right THEN "right" ELSE "wrong",
         !.error = IF right THEN "none" ELSE "call"])

EngineProbeStep ==
  BuildStore \/ CompileAdd \/ InstantiateAdd
  \/ EngineRefuses \/ AddIsMissing \/ AddAnswers
=============================================================================
