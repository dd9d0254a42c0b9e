---------------------------- MODULE MC_MstpDevice ----------------------------
(* The bdk-atxx4 MS/TP device for TLC: two switch settings, one invoke    *)
(* id (replies are matched to requests by their order), and the         *)
(* reinitialize function never set, as in this port's bacnet_init.        *)
EXTENDS MstpDevice

MC_Macs == {0, 1}
MC_InvokeIds == {1}
MC_ErrorClasses == {"SECURITY"}
=============================================================================
