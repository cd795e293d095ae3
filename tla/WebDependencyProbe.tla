------------------------- MODULE WebDependencyProbe -------------------------
(***************************************************************************)
(* web_dependency_probe: can a native module reach a dependency that is a  *)
(* page on this device, and under which name?  web_dependency.rs crosses   *)
(* to it three times, whatever becomes of each crossing.  A page answers   *)
(* on the host's main thread, which is the thread that loaded this image:  *)
(* a dispatch that waits on that thread waits for ever.                    *)
(***************************************************************************)
EXTENDS ProbeProcess

WebProbe == "web_dependency_probe"

\* Who the page takes its caller for: this module, itself, or a reply that
\* cannot be read.
THIS_MODULE == "railgun_module"
Identity == {THIS_MODULE, "keystore_module"}
Unreadable == "unreadable"

LEGS == <<"caller_identity", "list_accounts", "caller_identity">>

Thread == {"load", "worker"}

(***************************************************************************)
(* The fields of a probe: the thread it was dispatched on, the loading     *)
(* thread where that was recorded, the name it saw; and (not in the code)  *)
(* the names the page took its caller for, one per identity it gave.       *)
(***************************************************************************)
Web(dispatch, load) ==
  [dispatch |-> dispatch, load |-> load, saw |-> None, named |-> <<>>]

IsPage == image.target # "desktop"

IdentityIsThisModule(n) == n.saw = THIS_MODULE

\* A bug: a probe that crossed is a pass, whoever it crossed as.
CrossedOk(ls, n) == Len(ls) = Len(LEGS) /\ AllGreen(ls)

WebOk(ls, n) == Len(ls) = Len(LEGS) /\ AllGreen(ls) /\ IdentityIsThisModule(n)

\* None where the loading thread was not recorded: not the same as FALSE.
LeftTheLoadThread(n) == IF n.load = None THEN None ELSE n.dispatch # n.load

CallWebProbe(dispatch, recorded) ==
  /\ Begin(WebProbe, LEGS[1])
  /\ line' = Entering(None, LEGS[1])
  /\ asked' = <<>> /\ probe' = None
  /\ noted' = Web(dispatch, IF recorded THEN "load" ELSE None)

\* The leg under way is over; the next is announced, or the call answers.
Crossed(ok) ==
  LET ls == Append(legs, Leg(LEGS[Len(legs) + 1], ok)) IN
  /\ legs' = ls
  /\ \/ /\ Len(ls) < Len(LEGS)
        /\ at' = LEGS[Len(ls) + 1]
        /\ line' = Entering(None, LEGS[Len(ls) + 1])
        /\ UNCHANGED <<call, reply>>
     \/ /\ Len(ls) = Len(LEGS)
        /\ Return(WebProbe, WebOk(ls, noted'))
        /\ UNCHANGED line
  /\ UNCHANGED <<build, process, printed, measured>>

\* A bug: the first name seen is kept.
FirstSeen(n, identity) ==
  [n EXCEPT !.saw = IF n.saw = None /\ identity \in Identity THEN identity ELSE n.saw,
            !.named = Append(n.named, identity)]

\* What an identity that was given leaves in the report: what could not be
\* read replaces what could.
Seen(n, identity) ==
  [n EXCEPT !.saw = IF identity \in Identity THEN identity ELSE None,
            !.named = Append(n.named, identity)]

\* A bug: the glue carries every dispatch to the thread that has to deliver.
WaitsWhereverMade == IsPage

\* A crossing on the thread that has to deliver the answer cannot end.
CannotEnd == IsPage /\ noted.dispatch = "load"

CrossWeb == process = "up" /\ call = WebProbe

Answers ==
  /\ CrossWeb /\ ~CannotEnd
  /\ \/ /\ at = "caller_identity"
        /\ \E identity \in Identity \cup {Unreadable} : noted' = Seen(noted, identity)
     \/ at = "list_accounts" /\ UNCHANGED noted
  /\ Crossed(TRUE)

\* The page is not serving yet, or the transport refuses: the probe goes on.
FailsToCross ==
  /\ CrossWeb
  /\ UNCHANGED noted
  /\ Crossed(FALSE)

Hangs ==
  /\ CrossWeb /\ CannotEnd
  /\ process' = "hung"
  /\ UNCHANGED <<build, call, at, console, measured, run, reply>>

WebProbeStep == Answers \/ FailsToCross \/ Hangs
=============================================================================
