--------------------------- MODULE MCDeviceProbes ---------------------------
(***************************************************************************)
(* DeviceProbes as TLC checks it.                                          *)
(***************************************************************************)
EXTENDS DeviceProbes

Circuit(length, inputs, fits, speaks) ==
  [vars |-> length, public |-> inputs, fits |-> fits, speaks |-> speaks]

\* The circuit, a longer version of it, one that takes other signals, and one
\* that takes other signals and does not say which.
MovingBranch ==
  {Circuit(5, 2, TRUE, TRUE), Circuit(6, 2, TRUE, TRUE),
   Circuit(5, 1, FALSE, TRUE), Circuit(5, 2, FALSE, FALSE)}
=============================================================================
