----------------------------- MODULE RecordStore -----------------------------
(***************************************************************************)
(* What the railgun engine is promised of its Database: records by key,    *)
(* exact get, set and delete and nothing else.  An operation takes effect  *)
(* at one moment or not at all, an operation that answers with an error    *)
(* has not, and a client that is cut off never learns which.               *)
(***************************************************************************)
CONSTANTS Keys, Values, Absent, None

Operation ==
  [kind : {"get", "delete"}, key : Keys] \cup [kind : {"set"}, key : Keys, value : Values]

VARIABLES
  stored,   \* stored[k], the record under k, or Absent
  op,       \* the operation asked for, or None
  taken,    \* whether it has taken effect
  answer    \* what the last operation answered, or None

vars == <<stored, op, taken, answer>>

Init ==
  /\ stored = [k \in Keys |-> Absent]
  /\ op = None /\ taken = FALSE /\ answer = None

Ask ==
  /\ op = None
  /\ op' \in Operation
  /\ answer' = None
  /\ UNCHANGED <<stored, taken>>

Take ==
  /\ op # None /\ ~taken
  /\ \/ /\ op.kind = "set"
        /\ stored' = [stored EXCEPT ![op.key] = op.value]
     \/ /\ op.kind = "delete"
        /\ stored' = [stored EXCEPT ![op.key] = Absent]
  /\ taken' = TRUE
  /\ UNCHANGED <<op, answer>>

\* A get answers with the record there is.
Read ==
  /\ op # None /\ op.kind = "get"
  /\ answer' = [ok |-> TRUE, record |-> stored[op.key]]
  /\ op' = None
  /\ UNCHANGED <<stored, taken>>

Acknowledge ==
  /\ op # None /\ taken
  /\ answer' = [ok |-> TRUE, record |-> Absent]
  /\ op' = None /\ taken' = FALSE
  /\ UNCHANGED stored

Refuse ==
  /\ op # None /\ ~taken
  /\ answer' = [ok |-> FALSE, record |-> Absent]
  /\ op' = None
  /\ UNCHANGED <<stored, taken>>

\* The client is gone, and what it asked for is done or is not.
CutOff ==
  /\ op' = None /\ taken' = FALSE /\ answer' = None
  /\ UNCHANGED stored

Next == Ask \/ Take \/ Read \/ Acknowledge \/ Refuse \/ CutOff

Spec == Init /\ [][Next]_vars
=============================================================================
