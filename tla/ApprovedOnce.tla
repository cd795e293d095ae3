---------------------------- MODULE ApprovedOnce ----------------------------
(***************************************************************************)
(* What a relayed send promises the human who approves it: a signature     *)
(* costs an approval, an approval pays for at most one submission, and     *)
(* what is submitted is what was put in front of the human.                *)
(***************************************************************************)
EXTENDS Sequences

CONSTANTS Request, Contents, Nothing

VARIABLES
  shown,    \* shown[r]: the contents put in front of the human, or Nothing
  consent,  \* consent[r] \in {"open", "given", "refused"}
  spent     \* spent[r]: what has been submitted under that consent, in order

vars == <<shown, consent, spent>>

Init ==
  /\ shown = [r \in Request |-> Nothing]
  /\ consent = [r \in Request |-> "open"]
  /\ spent = [r \in Request |-> <<>>]

Show(r, contents) ==
  /\ shown[r] = Nothing
  /\ contents # Nothing
  /\ shown' = [shown EXCEPT ![r] = contents]
  /\ UNCHANGED <<consent, spent>>

Answer(r, verdict) ==
  /\ shown[r] # Nothing
  /\ consent[r] = "open"
  /\ consent' = [consent EXCEPT ![r] = verdict]
  /\ UNCHANGED <<shown, spent>>

Spend(r) ==
  /\ consent[r] = "given"
  /\ spent[r] = <<>>
  /\ spent' = [spent EXCEPT ![r] = <<shown[r]>>]
  /\ UNCHANGED <<shown, consent>>

Next ==
  \E r \in Request :
    \/ \E contents \in Contents : Show(r, contents)
    \/ \E verdict \in {"given", "refused"} : Answer(r, verdict)
    \/ Spend(r)

Spec == Init /\ [][Next]_vars
=============================================================================
