---------------------------- MODULE MC_Win32Client ----------------------------
(* The win32 client for TLC: three devices for a cache of two slots, so   *)
(* that a fourth announcement has to evict, and a TSM of two slots.       *)
EXTENDS Win32Client

MC_Devices == {"d1", "d2", "d3"}
MC_InvokeIds == {1, 2}
=============================================================================
