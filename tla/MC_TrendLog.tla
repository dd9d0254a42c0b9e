---------------------------- MODULE MC_TrendLog ----------------------------
(* Model-checking instance of TrendLog: one Trend Log object with a three  *)
(* record buffer; writes of the two months the log is configured with (so  *)
(* a start after the stop can be written); a clock that may read before,   *)
(* inside or after the configured window.                                  *)
EXTENDS TrendLog

MC_Months == {1, 11}
(* Local times (months since Jan 2009): before the start (2), inside the  *)
(* window, and after the stop (12).                                        *)
MC_Clock == {0, 3, 13}

(* A clock that starts after the default start time (month 3). *)
MC_LateClock == {3, 13}

(* LOGGING_TYPE_POLLED, _COV, _TRIGGERED and an undefined enumeration.    *)
MC_EnumInputs == {0, 1, 2, 7}
(* 0, a sub-second interval and 15 seconds, in hundredths.                 *)
MC_UnsignedInputs == {0, 50, 1500}
(* PROP_PRESENT_VALUE and PROP_STATUS_FLAGS. *)
MC_PropertyIds == {85, 111}
=============================================================================
