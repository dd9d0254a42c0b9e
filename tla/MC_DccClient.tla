---------------------------- MODULE MC_DccClient ----------------------------
(* Model-checking instance of DccClient: three invoke ids rotating over a  *)
(* two-slot TSM, a one-second APDU timeout and one retry.                  *)
EXTENDS DccClient

MC_InvokeIds == 1 .. 3

=============================================================================
