---------------------------- MODULE ProbeProcess ----------------------------
(***************************************************************************)
(* What the device probes of railgun_module share: the process they run    *)
(* in, its console, and the parts of the report a probe builds before it   *)
(* answers.  The probes ask what a device allows and what it costs, and a  *)
(* device may answer by killing the process: the reply is then lost with   *)
(* everything in it and the console is all that is left.                   *)
(*                                                                         *)
(* One call at a time, one action per stage of it.  A call that is cut off *)
(* stops between two actions with the console as it was.                   *)
(*                                                                         *)
(* Simplifications.  Times and sizes are left out, and of a field only     *)
(* what decides a verdict is kept.  A call with parameters that do not     *)
(* parse answers with an error and changes nothing: a stuttering step.     *)
(***************************************************************************)
EXTENDS Naturals, Sequences

CONSTANTS
  Artifacts,   \* bound: the circuits the artifact base serves, one at a time
  None

(***************************************************************************)
(* A circuit as the artifact base serves it, one version of it at a time.  *)
(* Its files are three downloads of a branch that moves.  `vars` is the    *)
(* length of its witness, `public` the number of its public signals,       *)
(* `fits` whether it takes the signals the probes write, and `speaks`      *)
(* whether it exports getInputSignalSize.                                  *)
(***************************************************************************)
Artifact == [vars : Nat \ {0}, public : Nat, fits : BOOLEAN, speaks : BOOLEAN]

ASSUME ArtifactsAssumption == Artifacts \subseteq Artifact

EngineDefault == "engine-default"
Wasmi == "wasmi"
Backend == {EngineDefault, Wasmi}

\* What the image was built for and whether it carries the engine seam.
Image == [target : {"ios", "desktop", "android"}, seam : BOOLEAN]

VARIABLES
  image,      \* the build: constant
  published,  \* the circuit the artifact base serves now
  process,    \* "up", "killed", or "hung" on a wait that cannot end
  call,       \* the probe being called, or "none"
  at,         \* the stage its call is in, or "idle"
  line,       \* the last stage announced on the console
  printed,    \* the outcomes of this call already on the console
  asked,      \* the backends to measure, in order
  nth,        \* the one being measured
  probe,      \* its report so far
  probes,     \* the reports of those before it
  legs,       \* the legs of a run so far, in order
  noted,      \* the other fields of a run
  reply       \* the last call's verdict

build == <<image, published>>
console == <<line, printed>>
measured == <<asked, nth, probe, probes>>
run == <<legs, noted>>
vars == <<build, process, call, at, console, measured, run, reply>>

\* A bug: the backend under suspicion goes first.
SuspectFirst ==
  IF image.target = "android" THEN <<EngineDefault>> ELSE <<EngineDefault, Wasmi>>

\* Resolved from what is compiled into the image: the interpreter is missing
\* from an Android image (and from the simulator's).
PROBE_ORDER ==
  IF image.target = "android" THEN <<EngineDefault>> ELSE <<Wasmi, EngineDefault>>

\* The backend the patched engine proves with on this platform.
ENGINE_BACKEND == IF image.target = "ios" THEN Wasmi ELSE EngineDefault

InImage(backend) == \E i \in 1..Len(PROBE_ORDER) : PROBE_ORDER[i] = backend

Entering(backend, stage) == [backend |-> backend, stage |-> stage]
Leg(name, ok) == [name |-> name, ok |-> ok]
AllGreen(ls) == ls # <<>> /\ \A i \in 1..Len(ls) : ls[i].ok

-----------------------------------------------------------------------------
Init ==
  /\ image \in Image
  /\ published \in Artifacts
  /\ process = "up"
  /\ call = "none"
  /\ at = "idle"
  /\ line = Entering(None, "idle")
  /\ printed = {}
  /\ asked = <<>> /\ nth = 1
  /\ probe = None /\ probes = <<>>
  /\ legs = <<>> /\ noted = None
  /\ reply = None

Idle == process = "up" /\ call = "none"
Within(c, stage) == process = "up" /\ call = c /\ at = stage

\* A call of `c` that begins at `stage`, with nothing of an earlier one left.
Begin(c, stage) ==
  /\ Idle
  /\ call' = c /\ at' = stage
  /\ printed' = {} /\ probes' = <<>> /\ legs' = <<>> /\ nth' = 1
  /\ reply' = None
  /\ UNCHANGED <<build, process>>

\* The call `c` returns with verdict `ok`.
Return(c, ok) ==
  /\ call' = "none" /\ at' = "idle"
  /\ reply' = [of |-> c, ok |-> ok]

-----------------------------------------------------------------------------
\* The artifact base serves another version of the circuit.
Publish ==
  /\ published' \in Artifacts \ {published}
  /\ UNCHANGED <<image, process, call, at, console, measured, run, reply>>

\* The platform kills the process over what the call is doing.
Killed ==
  /\ process = "up" /\ call # "none"
  /\ process' = "killed"
  /\ UNCHANGED <<build, call, at, console, measured, run, reply>>

\* A process that is gone, or given up on, is started again.  The console
\* keeps the last line and the module nothing.
Relaunch ==
  /\ process # "up"
  /\ process' = "up"
  /\ call' = "none" /\ at' = "idle"
  /\ printed' = {} /\ asked' = <<>> /\ nth' = 1
  /\ probe' = None /\ probes' = <<>> /\ legs' = <<>> /\ noted' = None
  /\ reply' = None
  /\ UNCHANGED <<build, line>>
=============================================================================
