----------------------------- MODULE MCLiveSend -----------------------------
(***************************************************************************)
(* LiveSend as TLC checks it.  Gas figures keep the order and roughly the  *)
(* proportions of the code's.                                              *)
(***************************************************************************)
EXTENDS LiveSend

Question(named, transfer, broadcast) ==
  [named |-> named, asked |-> Unset, transfer |-> transfer, broadcast |-> broadcast]

\* An asset named or not, a proof broadcast or not, half of the note or more
\* than there is of it sent.
AllQuestions ==
  {Question(FALSE, Unset, TRUE), Question(TRUE, Unset, TRUE), Question(FALSE, 9, FALSE)}

\* For the root check.
OneQuestion == {Question(FALSE, Unset, TRUE)}
=============================================================================
