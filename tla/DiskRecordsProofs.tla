-------------------------- MODULE DiskRecordsProofs --------------------------
(***************************************************************************)
(* DiskRecords for any keys and any values: no record is ever torn, and    *)
(* the files implement the store of RecordStore.                           *)
(***************************************************************************)
EXTENDS DiskRecords, TLAPS

\* A set carries a value and the other operations none.
LEMMA OperationsAre ==
  ASSUME NEW o \in Operation
  PROVE  /\ o.kind \in {"get", "set", "delete"}
         /\ o.key \in Keys
         /\ o.kind = "set" => o.value \in Values
BY DEF Operation

\* A step of an operation that goes on is well typed where the files are.
LEMMA GoesOn ==
  ASSUME TypeOK, op \in Operation,
         files' \in [Keys -> Values \cup {Absent}],
         temps' \in [Keys -> Values \cup {Absent, Torn}],
         \/ step' = "writing" /\ op.kind = "set"
         \/ step' = "written" /\ op.kind = "set" /\ temps'[op.key] = op.value
         \/ step' = "done" /\ op.kind # "get",
         open' = open, op' = op, answer' = answer
  PROVE  TypeOK'
<1>1. op # None
  BY DiskAssumption
<1> QED BY <1>1 DEF TypeOK

LEMMA RepliesAre ==
  ASSUME NEW ok \in BOOLEAN, NEW record \in Values \cup {Absent}, Replies(ok, record)
  PROVE  answer' \in Answer /\ op' = None /\ step' = "begun" /\ open' = open
BY DEF Replies, Answer

(***************************************************************************)
(* A record is never torn and what is renamed over one is whole: TypeOK is *)
(* inductive.                                                              *)
(***************************************************************************)
THEOREM RecordsAreWhole == Spec => []TypeOK
<1>1. Init => TypeOK
  BY DEF Init, TypeOK
<1>2. TypeOK /\ [Next]_vars => TypeOK'
  <2> SUFFICES ASSUME TypeOK, [Next]_vars PROVE TypeOK'
    OBVIOUS
  <2>0. op # None => op \in Operation
    BY DEF TypeOK
  <2>1. CASE New
    BY <2>1 DEF New, TypeOK
  <2>2. CASE Ask
    BY <2>2 DEF Ask, TypeOK
  <2>3. CASE Get
    <3>1. files[op.key] \in Values \cup {Absent}
      BY <2>0, <2>3, OperationsAre DEF Get, In, TypeOK
    <3>2. answer' \in Answer /\ op' = None /\ step' = "begun" /\ open' = open
      BY <2>3, <3>1, RepliesAre DEF Get
    <3> QED BY <2>3, <3>2 DEF Get, TypeOK
  <2>4. CASE BeginWrite
    <3>1. op \in Operation /\ op.kind = "set"
      BY <2>0, <2>4 DEF BeginWrite, In
    <3>2. temps' \in [Keys -> Values \cup {Absent, Torn}]
      BY <2>4, <3>1, OperationsAre DEF BeginWrite, TypeOK
    <3> QED BY <2>4, <3>1, <3>2, GoesOn DEF BeginWrite, TypeOK
  <2>5. CASE EndWrite
    <3>1. op \in Operation /\ op.kind = "set"
      BY <2>0, <2>5 DEF EndWrite, In
    <3>2. op.key \in Keys /\ op.value \in Values
      BY <3>1, OperationsAre
    <3>3. temps' \in [Keys -> Values \cup {Absent, Torn}] /\ temps'[op.key] = op.value
      BY <2>5, <3>2 DEF EndWrite, TypeOK
    <3> QED BY <2>5, <3>1, <3>3, GoesOn DEF EndWrite, TypeOK
  <2>6. CASE Rename
    <3>1. op \in Operation /\ op.kind = "set" /\ temps[op.key] = op.value
      BY <2>0, <2>6 DEF Rename, In, TypeOK
    <3>2. op.key \in Keys /\ op.value \in Values
      BY <3>1, OperationsAre
    <3>3. files' \in [Keys -> Values \cup {Absent}] /\ temps' \in [Keys -> Values \cup {Absent, Torn}]
      BY <2>6, <3>1, <3>2 DEF Rename, TypeOK
    <3> QED BY <2>6, <3>1, <3>3, GoesOn DEF Rename
  <2>7. CASE Remove
    <3>1. op \in Operation /\ op.kind = "delete"
      BY <2>0, <2>7 DEF Remove, In
    <3>2. files' \in [Keys -> Values \cup {Absent}] /\ temps' \in [Keys -> Values \cup {Absent, Torn}]
      BY <2>7, <3>1, OperationsAre DEF Remove, TypeOK
    <3> QED BY <2>7, <3>1, <3>2, GoesOn DEF Remove
  <2>8. CASE Done
    <3>1. answer' \in Answer /\ op' = None /\ step' = "begun" /\ open' = open
      BY <2>8, RepliesAre DEF Done
    <3> QED BY <2>8, <3>1 DEF Done, TypeOK
  <2>9. CASE Fails
    <3>1. answer' \in Answer /\ op' = None /\ step' = "begun" /\ open' = open
      BY <2>9, RepliesAre DEF Fails
    <3> QED BY <2>9, <3>1 DEF Fails, TypeOK
  <2>10. CASE Die
    BY <2>10 DEF Die, TypeOK
  <2>11. CASE UNCHANGED vars
    BY <2>11 DEF vars, TypeOK
  <2> QED
    BY <2>1, <2>2, <2>3, <2>4, <2>5, <2>6, <2>7, <2>8, <2>9, <2>10, <2>11 DEF Next
<1> QED BY <1>1, <1>2, PTL DEF Spec

-----------------------------------------------------------------------------
LEMMA InitIsPromised == Init => Promised!Init
BY DEF Init, Promised!Init

LEMMA StepIsPromised ==
  TypeOK /\ [Next]_vars => [Promised!Next]_(Promised!vars)
<1> SUFFICES ASSUME TypeOK, [Next]_vars PROVE [Promised!Next]_(Promised!vars)
  OBVIOUS
<1> USE DEF Promised!Next, Promised!vars
<1>0. op # None => op \in Operation
  BY DEF TypeOK
<1>1. CASE New
  BY <1>1 DEF New
<1>2. CASE Ask
  <2>1. Promised!Ask
    BY <1>2 DEF Ask, Promised!Ask, Operation, Promised!Operation, TypeOK
  <2> QED BY <2>1
<1>3. CASE Get
  <2>1. Promised!Read
    BY <1>3 DEF Get, In, Replies, Promised!Read
  <2> QED BY <2>1
<1>4. CASE BeginWrite
  BY <1>4 DEF BeginWrite, In
<1>5. CASE EndWrite
  BY <1>5 DEF EndWrite, In
<1>6. CASE Rename
  <2>1. temps[op.key] = op.value
    BY <1>6 DEF Rename, In, TypeOK
  <2>2. Promised!Take
    BY <1>6, <2>1 DEF Rename, In, Promised!Take
  <2> QED BY <2>2
<1>7. CASE Remove
  <2>1. Promised!Take
    BY <1>7 DEF Remove, In, Promised!Take
  <2> QED BY <2>1
<1>8. CASE Done
  <2>1. Promised!Acknowledge
    BY <1>8 DEF Done, Replies, Promised!Acknowledge
  <2> QED BY <2>1
<1>9. CASE Fails
  <2>1. Promised!Refuse
    BY <1>9 DEF Fails, Replies, Promised!Refuse
  <2> QED BY <2>1
<1>10. CASE Die
  <2>1. Promised!CutOff
    BY <1>10 DEF Die, Promised!CutOff
  <2> QED BY <2>1
<1>11. CASE UNCHANGED vars
  BY <1>11 DEF vars
<1> QED
  BY <1>1, <1>2, <1>3, <1>4, <1>5, <1>6, <1>7, <1>8, <1>9, <1>10, <1>11 DEF Next

(***************************************************************************)
(* The files implement the store the engine is promised: a rename is the   *)
(* moment a set takes effect, and no death of the process leaves anything  *)
(* between the old record and the new one.                                 *)
(***************************************************************************)
THEOREM DiskImplementsStore == Spec => ImplementsRecordStore
<1>1. Spec => []TypeOK
  BY RecordsAreWhole
<1> QED
  BY <1>1, InitIsPromised, StepIsPromised, PTL
  DEF Spec, ImplementsRecordStore, Promised!Spec
=============================================================================
