----------------------------- MODULE OpaqueSync -----------------------------
(***************************************************************************)
(* What a caller may think of a sync, stepped or whole: an account has     *)
(* seen its chain up to some block.  Work on a chain moves its accounts    *)
(* forward, never past what the chain has and never on another chain, and  *)
(* a caller is told of a block only once the account has seen it.  There   *)
(* are no plans, no windows, no two records and no crashes here: whatever  *)
(* fails or dies, nothing that was seen or told is taken back.             *)
(***************************************************************************)
EXTENDS Integers

CONSTANTS
  Chains,
  Accounts,   \* records with the field `chain`
  MaxBlock    \* bound: no chain grows past this block

VARIABLES
  head,       \* head[c]: the newest block of chain c
  seen,       \* seen[e]: the block account e has seen its chain up to
  told        \* told[e]: the furthest block a caller was told e has seen

vars == <<head, seen, told>>

Init ==
  /\ head \in [Chains -> 0 .. MaxBlock]
  /\ seen = [e \in Accounts |-> 0]
  /\ told = [e \in Accounts |-> 0]

Grow(c) ==
  /\ head[c] < MaxBlock
  /\ head' = [head EXCEPT ![c] = @ + 1]
  /\ UNCHANGED <<seen, told>>

\* Accounts of one chain share what is fetched of it: work for one of them may
\* move several.
Sees(c) ==
  /\ seen' \in [Accounts -> Nat]
  /\ \A e \in Accounts :
       /\ seen[e] <= seen'[e]
       /\ IF e.chain = c THEN seen'[e] <= head[c] ELSE seen'[e] = seen[e]

\* At most one account is spoken of at a time.
Tells ==
  \/ UNCHANGED told
  \/ \E e \in Accounts :
       \E block \in told[e] .. seen'[e] : told' = [told EXCEPT ![e] = block]

Work(c) == Sees(c) /\ Tells /\ UNCHANGED head

Next == \E c \in Chains : Grow(c) \/ Work(c)

Spec == Init /\ [][Next]_vars
=============================================================================
