----------------------------- MODULE DiskRecords -----------------------------
(***************************************************************************)
(* DiskDatabase of db_adapter.rs: one file per key, written to a temporary *)
(* file next to it and renamed over it.  The engine asks for one operation *)
(* at a time, the file system may refuse any step, and the process may die *)
(* between two steps or in the middle of a write.                          *)
(*                                                                         *)
(* Simplifications.  A file's name is the hash of its key, which stands    *)
(* for the key; a hash with an extension is no hash, so the temporary      *)
(* files are a family of their own.  The files outlive the process.  They  *)
(* are never synced to the device, and what a loss of power may do to a    *)
(* file that was renamed is not in this model.                             *)
(***************************************************************************)
EXTENDS Naturals

CONSTANTS
  Keys,     \* bound: the keys the engine keeps records under
  Values,   \* bound: what it keeps
  Absent,   \* no file
  Torn,     \* a file whose writing was cut short
  None

Operation ==
  [kind : {"get", "delete"}, key : Keys] \cup [kind : {"set"}, key : Keys, value : Values]
Answer == [ok : BOOLEAN, record : Values \cup {Absent}]

ASSUME DiskAssumption ==
  /\ Absent \notin Values /\ Torn \notin Values \cup {Absent}
  /\ None \notin Operation /\ None \notin Answer

VARIABLES
  files,    \* files[k], the file of k
  temps,    \* temps[k], the temporary file of k
  open,     \* whether there is a DiskDatabase
  op,       \* the operation it is in, or None
  step,     \* how far that is: "begun", "writing", "written", "done"
  answer    \* what the last operation answered, or None

vars == <<files, temps, open, op, step, answer>>

Init ==
  /\ files = [k \in Keys |-> Absent]
  /\ temps = [k \in Keys |-> Absent]
  /\ open = FALSE
  /\ op = None /\ step = "begun" /\ answer = None

\* The directory is made where there is none; a failure leaves the module
\* without an engine.
New ==
  /\ ~open
  /\ open' = TRUE
  /\ UNCHANGED <<files, temps, op, step, answer>>

-----------------------------------------------------------------------------
Ask ==
  /\ open /\ op = None
  /\ op' \in Operation
  /\ step' = "begun" /\ answer' = None
  /\ UNCHANGED <<files, temps, open>>

In(kind, s) == op # None /\ op.kind = kind /\ step = s

Replies(ok, record) ==
  /\ answer' = [ok |-> ok, record |-> record]
  /\ op' = None /\ step' = "begun"
  /\ UNCHANGED open

\* No file is no record and not an error.
Get ==
  /\ In("get", "begun")
  /\ Replies(TRUE, files[op.key])
  /\ UNCHANGED <<files, temps>>

\* A bug: the record's own file is written in place.
WriteInPlace ==
  /\ In("set", "begun")
  /\ files' = [files EXCEPT ![op.key] = Torn]
  /\ temps' = [temps EXCEPT ![op.key] = op.value]
  /\ step' = "written"
  /\ UNCHANGED <<open, op, answer>>

\* A temporary file that was left behind is written over.
BeginWrite ==
  /\ In("set", "begun")
  /\ temps' = [temps EXCEPT ![op.key] = Torn]
  /\ step' = "writing"
  /\ UNCHANGED <<files, open, op, answer>>

EndWrite ==
  /\ In("set", "writing")
  /\ temps' = [temps EXCEPT ![op.key] = op.value]
  /\ step' = "written"
  /\ UNCHANGED <<files, open, op, answer>>

Rename ==
  /\ In("set", "written")
  /\ files' = [files EXCEPT ![op.key] = temps[op.key]]
  /\ temps' = [temps EXCEPT ![op.key] = Absent]
  /\ step' = "done"
  /\ UNCHANGED <<open, op, answer>>

\* A file that is not there is deleted.
Remove ==
  /\ In("delete", "begun")
  /\ files' = [files EXCEPT ![op.key] = Absent]
  /\ step' = "done"
  /\ UNCHANGED <<temps, open, op, answer>>

Done ==
  /\ op # None /\ step = "done"
  /\ Replies(TRUE, Absent)
  /\ UNCHANGED <<files, temps>>

\* A bug: a failure after the record is replaced is answered as one.
FailsLate ==
  /\ op # None
  /\ Replies(FALSE, Absent)
  /\ UNCHANGED <<files, temps>>

\* The step under way fails, and the operation with it.
Fails ==
  /\ op # None /\ step # "done"
  /\ Replies(FALSE, Absent)
  /\ UNCHANGED <<files, temps>>

\* The process dies, with the files as they are.
Die ==
  /\ open
  /\ open' = FALSE
  /\ op' = None /\ step' = "begun" /\ answer' = None
  /\ UNCHANGED <<files, temps>>

Next ==
  \/ New \/ Ask \/ Get \/ BeginWrite \/ EndWrite \/ Rename
  \/ Remove \/ Done \/ Fails \/ Die

Spec == Init /\ [][Next]_vars

-----------------------------------------------------------------------------
(***************************************************************************)
(* The values the variables take.  A record is never torn, and what is to  *)
(* be renamed over one is whole.                                           *)
(***************************************************************************)
TypeOK ==
  /\ files \in [Keys -> Values \cup {Absent}]
  /\ temps \in [Keys -> Values \cup {Absent, Torn}]
  /\ open \in BOOLEAN
  /\ op \in Operation \cup {None}
  /\ step \in {"begun", "writing", "written", "done"}
  /\ answer \in Answer \cup {None}
  /\ op = None => step = "begun"
  /\ step = "written" => op.kind = "set" /\ temps[op.key] = op.value
  /\ step = "writing" => op.kind = "set"
  /\ step = "done" => op.kind # "get"

Promised == INSTANCE RecordStore WITH stored <- files, taken <- (step = "done")

(***************************************************************************)
(* A record is what the last acknowledged set made it, whole, across every *)
(* failure of the file system and every death of the process: the files    *)
(* implement the store the engine is promised ("Writes are atomic",        *)
(* db_adapter.rs).                                                         *)
(***************************************************************************)
ImplementsRecordStore == Promised!Spec
=============================================================================
