------------------------------ MODULE TrendLog ------------------------------
(***************************************************************************)
(* The Trend Log object of the demo device (demo/object/trendlog.c): the   *)
(* per-log configuration LogInfo[], the circular record buffer Logs[][],   *)
(* every case of Trend_Log_Write_Property, TL_Insert_Status_Rec,           *)
(* TL_Is_Enabled, TL_BAC_Time_To_Local and, as operators on the state,    *)
(* the read side, Trend_Log_Encode_Property_APDU.                          *)
(*                                                                         *)
(* Data abstraction.  A BACnet date-time is represented by its month       *)
(* (255 is the wildcard octet); local time (time_t) is counted in months   *)
(* since January of the year the logs are configured for.  A record keeps  *)
(* its type and its log-status bits; time stamps and readings are dropped. *)
(* The request's application data is the decoded value(s): a decode       *)
(* failure leaves the local `value' uninitialised, which is a choice of    *)
(* any value, so enumerating every value covers it.                        *)
(***************************************************************************)
EXTENDS Integers, Sequences, FiniteSets, Bitwise

CONSTANTS
    MAX_TREND_LOGS,       \* number of Trend Log objects
    WrittenProperties,    \* the properties the clients write
    TL_MAX_ENTRIES,       \* records per log buffer
    Months,               \* non-wildcard months a client may write
    UnsignedInputs,       \* unsigned values a client may write
    EnumInputs,           \* enumerated values a client may write
    ObjectInstances,      \* analog-input instances a client may log
    PropertyIds,          \* property identifiers a client may log
    Clock,                \* values time(NULL) may return
    MaxTotalRecordCount,  \* bound on ulTotalRecordCount (model bound)
    WildStopTimeT         \* 0xFFFFFFFF stored in time_t, in months since
                          \* Jan 2009: 1165 (Feb 2106) with a 64-bit time_t,
                          \* -469 (one second before 1970) with a 32-bit one

ASSUME /\ MAX_TREND_LOGS \in Nat \ {0}
       /\ TL_MAX_ENTRIES \in Nat \ {0}
       /\ Clock \subseteq Nat /\ Clock # {}

Instances == 0 .. MAX_TREND_LOGS - 1

(* Wildcard octet and the BACnet enumerations the object uses. *)
WILD == 255
LOGGING_TYPE_POLLED    == 0
LOGGING_TYPE_COV       == 1
LOGGING_TYPE_TRIGGERED == 2
PROP_PRESENT_VALUE     == 85
(* Device_Object_Instance_Number() and another device's instance. *)
OUR_DEVICE             == 260001
OTHER_DEVICE           == 123

(* ucTimeFlags bits. *)
TL_T_START_WILD == 1
TL_T_STOP_WILD  == 2

(* BACNET_LOG_STATUS bits of a status record's datum. *)
LOG_STATUS_LOG_DISABLED    == 0
LOG_STATUS_BUFFER_PURGED   == 1
LOG_STATUS_LOG_INTERRUPTED == 2

VARIABLES
    bEnable, bStopWhenFull, ulRecordCount, ulTotalRecordCount, iIndex,
    LoggingType, ulLogInterval, bAlignIntervals, ulIntervalOffset, bTrigger,
    StartTime, StopTime, tStartTime, tStopTime, ucTimeFlags, Source,
    Logs,        \* Logs[log][entry]: the record buffers
    now,         \* the value time(NULL) returns
    wpResult     \* outcome of the last Trend_Log_Write_Property call

logVars == <<bEnable, bStopWhenFull, ulRecordCount, ulTotalRecordCount,
             iIndex, LoggingType, ulLogInterval, bAlignIntervals,
             ulIntervalOffset, bTrigger, StartTime, StopTime, tStartTime,
             tStopTime, ucTimeFlags, Source, Logs>>
vars == <<logVars, now, wpResult>>

-----------------------------------------------------------------------------
(* Records and written values.                                             *)

DataRec == [type |-> "REAL", status |-> 0]
StatusRec(bits) == [type |-> "STATUS", status |-> bits]
Records == {DataRec} \cup {StatusRec(b) : b \in {0, 1, 2, 4}}

BoolValue(b)     == [tag |-> "BOOLEAN", val |-> b]
UnsignedValue(u) == [tag |-> "UNSIGNED_INT", val |-> u]
EnumValue(e)     == [tag |-> "ENUMERATED", val |-> e]
NullValue        == [tag |-> "NULL", val |-> 0]
Values == {BoolValue(b) : b \in BOOLEAN}
          \cup {UnsignedValue(u) : u \in UnsignedInputs}
          \cup {EnumValue(e) : e \in EnumInputs} \cup {NullValue}

(* Application data of a date-time write: a DATE then (maybe) a TIME.      *)
DateValue(m) == [tag |-> "DATE", val |-> m]
DateTimeFirst  == {DateValue(m) : m \in Months \cup {WILD}} \cup {NullValue}
DateTimeSecond == {[tag |-> "TIME", val |-> 0], [tag |-> "NONE", val |-> 0]}

(* Context-tagged items of a BACnetDeviceObjectPropertyReference; BadItem  *)
(* is an item that fails to decode or carries an unexpected tag.           *)
BadItem == [ctag |-> 99, val |-> 0]
ObjItems  == {[ctag |-> 0, val |-> o] : o \in ObjectInstances}
PropItems == {[ctag |-> 1, val |-> p] : p \in PropertyIds}
IdxItem   == [ctag |-> 2, val |-> 1]
DevItems  == {[ctag |-> 3, val |-> d] : d \in {OUR_DEVICE, OTHER_DEVICE}}
(* The decoder stops at the first bad item, so inputs end at one.          *)
SourceInputs ==
    {<<a>> : a \in ObjItems \cup {BadItem}}
    \cup {<<a, b>> : a \in ObjItems, b \in PropItems \cup {BadItem}}
    \cup {<<a, b, c>> : a \in ObjItems, b \in PropItems,
                        c \in DevItems \cup {IdxItem, BadItem}}
    \cup {<<a, b, c, d>> : a \in ObjItems, b \in PropItems, c \in {IdxItem},
                           d \in DevItems \cup {BadItem}}

-----------------------------------------------------------------------------
(* Helpers translated from trendlog.c.                                     *)

(* TL_BAC_Time_To_Local: mktime() of tm_mon = month + 1 (tm_mon counts     *)
(* from 0, so the result is two months later than the date written).       *)
TL_BAC_Time_To_Local(month) == month + 1

(* datetime_wildcard: a date-time is a wildcard when a field is 0xFF.      *)
DatetimeWildcard(month) == month = WILD

(* 8-bit complement, for `ucTimeFlags &= ~bit'.                           *)
UcharNot(x) == 255 - x

(* TL_Is_Enabled, with the log's enable flag given as `en' because the     *)
(* ENABLE handler calls it both before and after updating bEnable.         *)
TL_Is_Enabled(i, en) ==
    LET f == ucTimeFlags[i] IN
    IF ~en THEN FALSE
    ELSE IF f = 0 /\ tStopTime[i] < tStartTime[i] THEN FALSE
    ELSE IF f # (TL_T_START_WILD | TL_T_STOP_WILD) THEN
        IF (f | TL_T_START_WILD) # 0 THEN now <= tStopTime[i]
        ELSE IF (f | TL_T_STOP_WILD) # 0 THEN now >= tStartTime[i]
        ELSE tStartTime[i] <= now /\ now <= tStopTime[i]
    ELSE TRUE

(* Mutant of TL_Insert_Status_Rec: the `if(bState)' tests are dropped, so  *)
(* every status record has its bit set.                                    *)
TL_Insert_Status_Rec_IgnoresState(i, eStatus, bState, cnt, idx) ==
    /\ ulTotalRecordCount[i] < MaxTotalRecordCount
    /\ Logs' = [Logs EXCEPT ![i][idx] = StatusRec(2^eStatus)]
    /\ iIndex' = [iIndex EXCEPT ![i] = (idx + 1) % TL_MAX_ENTRIES]
    /\ ulTotalRecordCount' = [ulTotalRecordCount EXCEPT ![i] = @ + 1]
    /\ ulRecordCount' = [ulRecordCount EXCEPT
                           ![i] = IF cnt < TL_MAX_ENTRIES THEN cnt + 1 ELSE cnt]

(* Mutant of TL_Insert_Status_Rec: the record count saturates one late.    *)
TL_Insert_Status_Rec_CapLate(i, eStatus, bState, cnt, idx) ==
    LET bits == IF eStatus = LOG_STATUS_LOG_INTERRUPTED \/ bState
                THEN 2^eStatus ELSE 0
    IN /\ ulTotalRecordCount[i] < MaxTotalRecordCount
       /\ Logs' = [Logs EXCEPT ![i][idx] = StatusRec(bits)]
       /\ iIndex' = [iIndex EXCEPT ![i] = (idx + 1) % TL_MAX_ENTRIES]
       /\ ulTotalRecordCount' = [ulTotalRecordCount EXCEPT ![i] = @ + 1]
       /\ ulRecordCount' = [ulRecordCount EXCEPT
                              ![i] = IF cnt <= TL_MAX_ENTRIES THEN cnt + 1
                                     ELSE cnt]

(* TL_Insert_Status_Rec, applied to a log whose record count and insertion *)
(* index are `cnt' and `idx' when it is called (a purge zeroes them first).*)
TL_Insert_Status_Rec(i, eStatus, bState, cnt, idx) ==
    LET bits == IF eStatus = LOG_STATUS_LOG_INTERRUPTED \/ bState
                THEN 2^eStatus ELSE 0
    IN /\ ulTotalRecordCount[i] < MaxTotalRecordCount
       /\ Logs' = [Logs EXCEPT ![i][idx] = StatusRec(bits)]
       /\ iIndex' = [iIndex EXCEPT ![i] = (idx + 1) % TL_MAX_ENTRIES]
       /\ ulTotalRecordCount' = [ulTotalRecordCount EXCEPT ![i] = @ + 1]
       /\ ulRecordCount' = [ulRecordCount EXCEPT
                              ![i] = IF cnt < TL_MAX_ENTRIES THEN cnt + 1
                                     ELSE cnt]

(* Mutant of TL_Purge: the insertion index is reset but not the count.    *)
TL_Purge_KeepsCount(i) ==
    TL_Insert_Status_Rec(i, LOG_STATUS_BUFFER_PURGED, TRUE, ulRecordCount[i], 0)

(* Clearing down a log: ulRecordCount and iIndex are zeroed and a          *)
(* BUFFER_PURGED status record is inserted (RECORD_COUNT written 0, or a   *)
(* new LOG_DEVICE_OBJECT_PROPERTY).                                        *)
TL_Purge(i) == TL_Insert_Status_Rec(i, LOG_STATUS_BUFFER_PURGED, TRUE, 0, 0)

(* Mutant of IntervalOnTypeChange: the triggered case is not zeroed.       *)
IntervalOnTypeChange_KeepsTriggered(t, cur) ==
    IF t = LOGGING_TYPE_POLLED /\ cur = 0 THEN 900 ELSE cur

(* The Log_Interval after LoggingType is set to t (12.25.27): a polled log *)
(* gets a default of 900 if it had none, a triggered log gets 0.           *)
IntervalOnTypeChange(t, cur) ==
    IF t = LOGGING_TYPE_POLLED /\ cur = 0 THEN 900
    ELSE IF t = LOGGING_TYPE_TRIGGERED THEN 0
    ELSE cur

(* The write handler returns with an error and changes nothing.            *)
Fail(code) == /\ wpResult' = code
              /\ UNCHANGED <<logVars, now>>

Succeed == wpResult' = "OK"

-----------------------------------------------------------------------------
(* Trend_Log_Init: every log full of REAL readings, enabled, polled.       *)

Init ==
    /\ bEnable            = [i \in Instances |-> TRUE]
    /\ bStopWhenFull      = [i \in Instances |-> FALSE]
    /\ bTrigger           = [i \in Instances |-> FALSE]
    /\ bAlignIntervals    = [i \in Instances |-> TRUE]
    /\ LoggingType        = [i \in Instances |-> LOGGING_TYPE_POLLED]
    /\ ucTimeFlags        = [i \in Instances |-> 0]
    /\ ulIntervalOffset   = [i \in Instances |-> 0]
    /\ iIndex             = [i \in Instances |-> 0]
    /\ ulLogInterval      = [i \in Instances |-> 900]
    /\ ulRecordCount      = [i \in Instances |-> TL_MAX_ENTRIES]
    /\ ulTotalRecordCount = [i \in Instances |-> 10000]
    /\ Source = [i \in Instances |->
                   [obj |-> i, prop |-> PROP_PRESENT_VALUE, idx |-> 0,
                    dev |-> OUR_DEVICE]]
    /\ StartTime  = [i \in Instances |-> 1]
    /\ tStartTime = [i \in Instances |-> TL_BAC_Time_To_Local(1)]
    /\ StopTime   = [i \in Instances |-> 11]
    /\ tStopTime  = [i \in Instances |-> TL_BAC_Time_To_Local(11)]
    /\ Logs = [i \in Instances |-> [e \in 0 .. TL_MAX_ENTRIES - 1 |-> DataRec]]
    /\ now \in Clock
    /\ wpResult = "NONE"

-----------------------------------------------------------------------------
(* Trend_Log_Write_Property, one action per property case.  Each action   *)
(* takes the decoded application data as its input.                       *)

bufVars == <<Logs, iIndex, ulRecordCount, ulTotalRecordCount>>
timeVars == <<StartTime, StopTime, tStartTime, tStopTime, ucTimeFlags>>

(* Section 12.25.5: a full log with stop-when-full set cannot be enabled.  *)
EnableRefused(i, val) ==
    /\ ~bEnable[i] /\ bStopWhenFull[i]
    /\ ulRecordCount[i] = TL_MAX_ENTRIES /\ val = TRUE

(* case PROP_ENABLE                                                        *)
WriteEnable(i, v) ==
    \/ /\ v.tag # "BOOLEAN"
       /\ Fail("INVALID_DATA_TYPE")
    \/ /\ v.tag = "BOOLEAN" /\ EnableRefused(i, v.val)
       /\ Fail("LOG_BUFFER_FULL")
    \/ /\ v.tag = "BOOLEAN" /\ ~EnableRefused(i, v.val)
       /\ bEnable[i] = v.val
       /\ Succeed
       /\ UNCHANGED <<logVars, now>>
    \/ /\ v.tag = "BOOLEAN" /\ ~EnableRefused(i, v.val)
       /\ bEnable[i] # v.val
       /\ bEnable' = [bEnable EXCEPT ![i] = v.val]
       /\ IF v.val = FALSE /\ TL_Is_Enabled(i, bEnable[i])
            THEN TL_Insert_Status_Rec(i, LOG_STATUS_LOG_DISABLED, TRUE,
                                      ulRecordCount[i], iIndex[i])
          ELSE IF v.val = TRUE /\ TL_Is_Enabled(i, TRUE)
            THEN TL_Insert_Status_Rec(i, LOG_STATUS_LOG_DISABLED, FALSE,
                                      ulRecordCount[i], iIndex[i])
          ELSE UNCHANGED bufVars
       /\ Succeed
       /\ UNCHANGED <<bStopWhenFull, LoggingType, ulLogInterval,
                      bAlignIntervals, ulIntervalOffset, bTrigger, timeVars,
                      Source, now>>

(* case PROP_STOP_WHEN_FULL: switching a full, enabled log to stop-when-   *)
(* full disables it and records the fact (135-2008 12.25.12).             *)
WriteStopWhenFull(i, v) ==
    \/ /\ v.tag # "BOOLEAN"
       /\ Fail("INVALID_DATA_TYPE")
    \/ /\ v.tag = "BOOLEAN" /\ bStopWhenFull[i] = v.val
       /\ Succeed
       /\ UNCHANGED <<logVars, now>>
    \/ /\ v.tag = "BOOLEAN" /\ bStopWhenFull[i] # v.val
       /\ bStopWhenFull' = [bStopWhenFull EXCEPT ![i] = v.val]
       /\ IF v.val = TRUE /\ ulRecordCount[i] = TL_MAX_ENTRIES /\ bEnable[i]
            THEN /\ bEnable' = [bEnable EXCEPT ![i] = FALSE]
                 /\ TL_Insert_Status_Rec(i, LOG_STATUS_LOG_DISABLED, TRUE,
                                         ulRecordCount[i], iIndex[i])
            ELSE UNCHANGED <<bEnable, bufVars>>
       /\ Succeed
       /\ UNCHANGED <<LoggingType, ulLogInterval, bAlignIntervals,
                      ulIntervalOffset, bTrigger, timeVars, Source, now>>

(* case PROP_RECORD_COUNT: writing 0 purges the log.                       *)
WriteRecordCount(i, v) ==
    \/ /\ v.tag # "UNSIGNED_INT"
       /\ Fail("INVALID_DATA_TYPE")
    \/ /\ v.tag = "UNSIGNED_INT" /\ v.val # 0
       /\ Succeed
       /\ UNCHANGED <<logVars, now>>
    \/ /\ v.tag = "UNSIGNED_INT" /\ v.val = 0
       /\ TL_Purge(i)
       /\ Succeed
       /\ UNCHANGED <<bEnable, bStopWhenFull, LoggingType, ulLogInterval,
                      bAlignIntervals, ulIntervalOffset, bTrigger, timeVars,
                      Source, now>>

(* case PROP_LOGGING_TYPE: COV is refused; polled picks a default interval *)
(* when it is 0; triggered zeroes the interval (12.25.27).                 *)
WriteLoggingType(i, v) ==
    \/ /\ v.tag # "ENUMERATED"
       /\ Fail("INVALID_DATA_TYPE")
    \/ /\ v.tag = "ENUMERATED" /\ v.val = LOGGING_TYPE_COV
       /\ Fail("OPTIONAL_FUNCTIONALITY_NOT_SUPPORTED")
    \/ /\ v.tag = "ENUMERATED" /\ v.val # LOGGING_TYPE_COV
       /\ LoggingType' = [LoggingType EXCEPT ![i] = v.val]
       /\ ulLogInterval' = [ulLogInterval EXCEPT
                              ![i] = IntervalOnTypeChange(v.val, @)]
       /\ Succeed
       /\ UNCHANGED <<bEnable, bStopWhenFull, bufVars, bAlignIntervals,
                      ulIntervalOffset, bTrigger, timeVars, Source, now>>

(* case PROP_START_TIME: the date is kept aside until the time decodes.   *)
WriteStartTime(i, d, t) ==
    \/ /\ d.tag # "DATE"
       /\ Fail("INVALID_DATA_TYPE")
    \/ /\ d.tag = "DATE" /\ t.tag # "TIME"
       /\ Fail("INVALID_DATA_TYPE")
    \/ /\ d.tag = "DATE" /\ t.tag = "TIME"
       /\ StartTime' = [StartTime EXCEPT ![i] = d.val]
       /\ IF DatetimeWildcard(d.val)
            THEN /\ ucTimeFlags' = [ucTimeFlags EXCEPT ![i] = @ | TL_T_START_WILD]
                 /\ tStartTime' = [tStartTime EXCEPT ![i] = 0]
            ELSE /\ ucTimeFlags' = [ucTimeFlags EXCEPT
                                      ![i] = @ & UcharNot(TL_T_START_WILD)]
                 /\ tStartTime' = [tStartTime EXCEPT
                                     ![i] = TL_BAC_Time_To_Local(d.val)]
       /\ Succeed
       /\ UNCHANGED <<bEnable, bStopWhenFull, bufVars, LoggingType,
                      ulLogInterval, bAlignIntervals, ulIntervalOffset,
                      bTrigger, StopTime, tStopTime, Source, now>>

(* case PROP_STOP_TIME.  For a date-time that is not a wildcard the code   *)
(* recomputes tStartTime from StartTime and leaves tStopTime as it was.    *)
WriteStopTime(i, d, t) ==
    \/ /\ d.tag # "DATE"
       /\ Fail("INVALID_DATA_TYPE")
    \/ /\ d.tag = "DATE" /\ t.tag # "TIME"
       /\ Fail("INVALID_DATA_TYPE")
    \/ /\ d.tag = "DATE" /\ t.tag = "TIME"
       /\ StopTime' = [StopTime EXCEPT ![i] = d.val]
       /\ IF DatetimeWildcard(d.val)
            THEN /\ ucTimeFlags' = [ucTimeFlags EXCEPT ![i] = @ | TL_T_STOP_WILD]
                 /\ tStopTime' = [tStopTime EXCEPT ![i] = WildStopTimeT]
                 /\ UNCHANGED tStartTime
            ELSE /\ ucTimeFlags' = [ucTimeFlags EXCEPT
                                      ![i] = @ & UcharNot(TL_T_STOP_WILD)]
                 /\ tStartTime' = [tStartTime EXCEPT
                                     ![i] = TL_BAC_Time_To_Local(StartTime[i])]
                 /\ UNCHANGED tStopTime
       /\ Succeed
       /\ UNCHANGED <<bEnable, bStopWhenFull, bufVars, LoggingType,
                      ulLogInterval, bAlignIntervals, ulIntervalOffset,
                      bTrigger, StartTime, Source, now>>

(* Decoding of a BACnetDeviceObjectPropertyReference in the                *)
(* PROP_LOG_DEVICE_OBJECT_PROPERTY case: an error code, or the reference   *)
(* with the device set to ours and an omitted index left at 0 (memset).    *)
SourceError(code) == [err |-> code]
SourceOk(d, idx) == [err |-> "NONE",
                     src |-> [obj |-> d[1].val, prop |-> d[2].val,
                              idx |-> idx, dev |-> OUR_DEVICE]]
ParseSource(d) ==
    LET n == Len(d)
        devItem == IF d[3].ctag = 3 THEN d[3] ELSE d[4]
    IN IF d[1].ctag # 0 \/ n = 1 THEN SourceError("OTHER")
       ELSE IF d[2].ctag # 1 THEN SourceError("OTHER")
       ELSE IF n = 2 THEN SourceOk(d, 0)
       ELSE IF d[3].ctag \notin {2, 3} THEN SourceError("OTHER")
       ELSE IF d[3].ctag = 2 /\ n = 3 THEN SourceOk(d, 1)
       ELSE IF d[3].ctag = 2 /\ d[4].ctag # 3 THEN SourceError("OTHER")
       ELSE IF devItem.val # OUR_DEVICE
            THEN SourceError("OPTIONAL_FUNCTIONALITY_NOT_SUPPORTED")
       ELSE SourceOk(d, IF d[3].ctag = 2 THEN 1 ELSE 0)

(* The memcmp() that decides whether to purge covers only the first        *)
(* sizeof(BACNET_OBJECT_ID) bytes of the reference: its objectIdentifier.  *)
SourceCompared(s) == s.obj

(* case PROP_LOG_DEVICE_OBJECT_PROPERTY                                    *)
WriteLogDeviceObjectProperty(i, d) ==
    LET r == ParseSource(d) IN
    \/ /\ r.err # "NONE"
       /\ Fail(r.err)
    \/ /\ r.err = "NONE"
       /\ IF SourceCompared(r.src) # SourceCompared(Source[i])
            THEN TL_Purge(i)
            ELSE UNCHANGED bufVars
       /\ Source' = [Source EXCEPT ![i] = r.src]
       /\ Succeed
       /\ UNCHANGED <<bEnable, bStopWhenFull, LoggingType, ulLogInterval,
                      bAlignIntervals, ulIntervalOffset, bTrigger, timeVars,
                      now>>

(* case PROP_LOG_INTERVAL: read-only for a triggered log; a polled log     *)
(* refuses 0; the value is kept in seconds (divided by 100).               *)
WriteLogInterval(i, v) ==
    \/ /\ LoggingType[i] = LOGGING_TYPE_TRIGGERED
       /\ Fail("WRITE_ACCESS_DENIED")
    \/ /\ LoggingType[i] = LOGGING_TYPE_POLLED
       /\ v.tag = "UNSIGNED_INT" /\ v.val = 0
       /\ Fail("OPTIONAL_FUNCTIONALITY_NOT_SUPPORTED")
    \/ /\ LoggingType[i] # LOGGING_TYPE_TRIGGERED
       /\ v.tag = "UNSIGNED_INT"
       /\ ~(LoggingType[i] = LOGGING_TYPE_POLLED /\ v.val = 0)
       /\ ulLogInterval' = [ulLogInterval EXCEPT ![i] = v.val \div 100]
       /\ Succeed
       /\ UNCHANGED <<bEnable, bStopWhenFull, bufVars, LoggingType,
                      bAlignIntervals, ulIntervalOffset, bTrigger, timeVars,
                      Source, now>>
    \/ /\ LoggingType[i] # LOGGING_TYPE_TRIGGERED
       /\ v.tag # "UNSIGNED_INT"
       /\ Fail("INVALID_DATA_TYPE")

(* cases PROP_ALIGN_INTERVALS, PROP_INTERVAL_OFFSET and PROP_TRIGGER: a    *)
(* type check and a store (the offset divided by 100).                     *)
WriteAlignIntervals(i, v) ==
    \/ /\ v.tag # "BOOLEAN"
       /\ Fail("INVALID_DATA_TYPE")
    \/ /\ v.tag = "BOOLEAN"
       /\ bAlignIntervals' = [bAlignIntervals EXCEPT ![i] = v.val]
       /\ Succeed
       /\ UNCHANGED <<bEnable, bStopWhenFull, bufVars, LoggingType,
                      ulLogInterval, ulIntervalOffset, bTrigger, timeVars,
                      Source, now>>

WriteIntervalOffset(i, v) ==
    \/ /\ v.tag # "UNSIGNED_INT"
       /\ Fail("INVALID_DATA_TYPE")
    \/ /\ v.tag = "UNSIGNED_INT"
       /\ ulIntervalOffset' = [ulIntervalOffset EXCEPT ![i] = v.val \div 100]
       /\ Succeed
       /\ UNCHANGED <<bEnable, bStopWhenFull, bufVars, LoggingType,
                      ulLogInterval, bAlignIntervals, bTrigger, timeVars,
                      Source, now>>

WriteTrigger(i, v) ==
    \/ /\ v.tag # "BOOLEAN"
       /\ Fail("INVALID_DATA_TYPE")
    \/ /\ v.tag = "BOOLEAN"
       /\ bTrigger' = [bTrigger EXCEPT ![i] = v.val]
       /\ Succeed
       /\ UNCHANGED <<bEnable, bStopWhenFull, bufVars, LoggingType,
                      ulLogInterval, bAlignIntervals, ulIntervalOffset,
                      timeVars, Source, now>>

(* case PROP_BUFFER_SIZE and the default case: the property is read-only. *)
WriteReadOnlyProperty(i) == Fail("WRITE_ACCESS_DENIED")

(* The instance check at the top of Trend_Log_Write_Property.             *)
WriteUnknownObject == Fail("UNKNOWN_OBJECT")

(* The wall clock that time(NULL) reads moves forward.                     *)
Tick ==
    /\ \E c \in Clock : c > now /\ now' = c
    /\ UNCHANGED <<logVars, wpResult>>

-----------------------------------------------------------------------------

(* A client writes one of WrittenProperties of a Trend Log, or writes to   *)
(* an instance that does not exist; the clock moves.                       *)
Writes(p) == p \in WrittenProperties

Next ==
    \/ \E i \in Instances :
          \/ Writes("ENABLE") /\ \E v \in Values : WriteEnable(i, v)
          \/ Writes("STOP_WHEN_FULL") /\ \E v \in Values : WriteStopWhenFull(i, v)
          \/ Writes("RECORD_COUNT") /\ \E v \in Values : WriteRecordCount(i, v)
          \/ Writes("LOGGING_TYPE") /\ \E v \in Values : WriteLoggingType(i, v)
          \/ Writes("LOG_INTERVAL") /\ \E v \in Values : WriteLogInterval(i, v)
          \/ Writes("ALIGN_INTERVALS") /\ \E v \in Values : WriteAlignIntervals(i, v)
          \/ Writes("INTERVAL_OFFSET") /\ \E v \in Values : WriteIntervalOffset(i, v)
          \/ Writes("TRIGGER") /\ \E v \in Values : WriteTrigger(i, v)
          \/ Writes("START_TIME") /\ \E d \in DateTimeFirst, t \in DateTimeSecond :
                                        WriteStartTime(i, d, t)
          \/ Writes("STOP_TIME") /\ \E d \in DateTimeFirst, t \in DateTimeSecond :
                                       WriteStopTime(i, d, t)
          \/ Writes("LOG_DEVICE_OBJECT_PROPERTY") /\ \E d \in SourceInputs :
                                                       WriteLogDeviceObjectProperty(i, d)
          \/ Writes("BUFFER_SIZE") /\ WriteReadOnlyProperty(i)
    \/ WriteUnknownObject
    \/ Tick

Spec == Init /\ [][Next]_vars

-----------------------------------------------------------------------------
(* Trend_Log_Encode_Property_APDU: what a ReadProperty of the log returns, *)
(* as the decoded value or an error.  Names are the instance (the text     *)
(* "Trend Log %u" is left out); a date-time is its date, as written.      *)

BACNET_ARRAY_ALL == "ALL"
OBJECT_TRENDLOG  == 20
EVENT_STATE_NORMAL == 0

ReadError(code) == [tag |-> "ERROR", val |-> code]
IsReadError(r)  == r.tag = "ERROR"

(* Trend_Log_Properties_Required and _Optional: the properties the object *)
(* has (and encodes); any other is UNKNOWN_PROPERTY.                      *)
ReadableProperties ==
    {"OBJECT_IDENTIFIER", "OBJECT_NAME", "DESCRIPTION", "OBJECT_TYPE",
     "ENABLE", "STOP_WHEN_FULL", "BUFFER_SIZE", "LOG_BUFFER", "RECORD_COUNT",
     "TOTAL_RECORD_COUNT", "EVENT_STATE", "LOGGING_TYPE", "STATUS_FLAGS",
     "START_TIME", "STOP_TIME", "LOG_DEVICE_OBJECT_PROPERTY", "LOG_INTERVAL",
     "ALIGN_INTERVALS", "INTERVAL_OFFSET", "TRIGGER"}

(* Mutant of ReadInterval: the value is sent in seconds, unscaled.        *)
ReadInterval_Unscaled(sec) == sec

(* "We only log to 1 sec accuracy so must multiply by 100 before passing  *)
(* it on": an interval kept in seconds is sent in hundredths.  The stored  *)
(* value is at most 0xFFFFFFFF / 100, so the product cannot wrap a uint32. *)
ReadInterval(sec) == sec * 100

(* The switch on the property.                                             *)
ReadProperty(i, p) ==
    CASE p = "OBJECT_IDENTIFIER"  -> [tag |-> "OBJECT_ID", val |-> i]
      [] p \in {"OBJECT_NAME", "DESCRIPTION"}
                                  -> [tag |-> "CHARACTER_STRING", val |-> i]
      [] p = "OBJECT_TYPE"        -> EnumValue(OBJECT_TRENDLOG)
      [] p = "ENABLE"             -> BoolValue(bEnable[i])
      [] p = "STOP_WHEN_FULL"     -> BoolValue(bStopWhenFull[i])
      [] p = "BUFFER_SIZE"        -> UnsignedValue(TL_MAX_ENTRIES)
      [] p = "LOG_BUFFER"         -> ReadError("READ_ACCESS_DENIED")
      [] p = "RECORD_COUNT"       -> UnsignedValue(ulRecordCount[i])
      [] p = "TOTAL_RECORD_COUNT" -> UnsignedValue(ulTotalRecordCount[i])
      [] p = "EVENT_STATE"        -> EnumValue(EVENT_STATE_NORMAL)
      [] p = "LOGGING_TYPE"       -> EnumValue(LoggingType[i])
      [] p = "STATUS_FLAGS"       -> [tag |-> "BIT_STRING", val |-> 0]
      [] p = "START_TIME"         -> DateValue(StartTime[i])
      [] p = "STOP_TIME"          -> DateValue(StopTime[i])
      [] p = "LOG_DEVICE_OBJECT_PROPERTY"
                                  -> [tag |-> "DEV_OBJ_PROP_REF", val |-> Source[i]]
      [] p = "LOG_INTERVAL"       -> UnsignedValue(ReadInterval(ulLogInterval[i]))
      [] p = "ALIGN_INTERVALS"    -> BoolValue(bAlignIntervals[i])
      [] p = "INTERVAL_OFFSET"    -> UnsignedValue(ReadInterval(ulIntervalOffset[i]))
      [] p = "TRIGGER"            -> BoolValue(bTrigger[i])
      [] OTHER                    -> ReadError("UNKNOWN_PROPERTY")

(* Trend_Log_Encode_Property_APDU(instance, property, array_index): no     *)
(* property of a Trend Log is an array (EVENT_TIME_STAMPS is not one of    *)
(* them, so its exemption never applies).                                  *)
Trend_Log_Encode_Property_APDU(i, p, ai) ==
    LET r == ReadProperty(i, p) IN
    IF ~IsReadError(r) /\ p # "EVENT_TIME_STAMPS" /\ ai # BACNET_ARRAY_ALL
    THEN ReadError("PROPERTY_IS_NOT_AN_ARRAY")
    ELSE r

-----------------------------------------------------------------------------
(* Invariants and properties.                                              *)

TypeOK ==
    /\ bEnable \in [Instances -> BOOLEAN]
    /\ bStopWhenFull \in [Instances -> BOOLEAN]
    /\ bAlignIntervals \in [Instances -> BOOLEAN]
    /\ bTrigger \in [Instances -> BOOLEAN]
    /\ ulRecordCount \in [Instances -> 0 .. TL_MAX_ENTRIES]
    /\ ulTotalRecordCount \in [Instances -> 0 .. MaxTotalRecordCount]
    /\ iIndex \in [Instances -> 0 .. TL_MAX_ENTRIES - 1]
    /\ LoggingType \in [Instances -> {LOGGING_TYPE_POLLED} \cup EnumInputs]
    /\ ulLogInterval \in [Instances -> Nat]
    /\ ulIntervalOffset \in [Instances -> Nat]
    /\ StartTime \in [Instances -> {1, 11, WILD} \cup Months]
    /\ StopTime \in [Instances -> {1, 11, WILD} \cup Months]
    /\ ucTimeFlags \in [Instances -> 0 .. 3]
    /\ tStartTime \in [Instances -> Int]
    /\ tStopTime \in [Instances -> Int]
    /\ Logs \in [Instances -> [0 .. TL_MAX_ENTRIES - 1 -> Records]]
    /\ now \in Clock

(* The records of log i, oldest first: the ulRecordCount entries that end  *)
(* just before the insertion point iIndex.                                 *)
LogView(i) ==
    [k \in 1 .. ulRecordCount[i] |->
        Logs[i][(iIndex[i] - ulRecordCount[i] + k - 1) % TL_MAX_ENTRIES]]

Buffer(i) == INSTANCE BoundedLog
    WITH Capacity <- TL_MAX_ENTRIES, Records <- Records,
         InitLog <- [k \in 1 .. TL_MAX_ENTRIES |-> DataRec],
         InitTotal <- 10000,
         log <- LogView(i), total <- ulTotalRecordCount[i]

(* Refinement: read oldest-first from iIndex back over ulRecordCount       *)
(* entries, every log buffer behaves as a bounded log that keeps the most  *)
(* recent TL_MAX_ENTRIES records, with ulTotalRecordCount counting every   *)
(* record added.  This is about TL_Insert_Status_Rec's wrap of iIndex and  *)
(* saturation of ulRecordCount, and about the purges that zero both.       *)
BufferIsBoundedLog ==
    /\ \A i \in Instances : Buffer(i)!Init
    /\ [][\A i \in Instances :
           [Buffer(i)!Next]_<<LogView(i), ulTotalRecordCount[i]>>]_vars

(* A status record was added to log i in this step and it is `rec'.        *)
Inserted(i, rec) ==
    /\ ulTotalRecordCount'[i] = ulTotalRecordCount[i] + 1
    /\ Logs'[i][(iIndex'[i] - 1) % TL_MAX_ENTRIES] = rec

(* LOG_DISABLED status records track the Enable property: a write that     *)
(* turns off a log that was really logging (enable flag and start/stop     *)
(* times) adds LOG_DISABLED = TRUE, one that turns on a log that is then   *)
(* really logging adds LOG_DISABLED = FALSE, and no LOG_DISABLED = TRUE    *)
(* record is added unless Enable went from TRUE to FALSE.  This is about   *)
(* the ENABLE and STOP_WHEN_FULL cases of Trend_Log_Write_Property, which  *)
(* must evaluate TL_Is_Enabled before and after changing bEnable.          *)
EnableTransitionsRecorded ==
    [][\A i \in Instances :
         /\ bEnable[i] /\ ~bEnable'[i] /\ TL_Is_Enabled(i, TRUE)
              => Inserted(i, StatusRec(2^LOG_STATUS_LOG_DISABLED))
         /\ ~bEnable[i] /\ bEnable'[i] /\ (TL_Is_Enabled(i, TRUE))'
              => Inserted(i, StatusRec(0))
         /\ Inserted(i, StatusRec(2^LOG_STATUS_LOG_DISABLED))
              => bEnable[i] /\ ~bEnable'[i]
      ]_vars

(* 12.25.27, as the LOGGING_TYPE case says: a triggered log has a zero    *)
(* Log_Interval.  Both the LOGGING_TYPE case (which zeroes it) and the     *)
(* LOG_INTERVAL case (which must refuse writes to a triggered log) keep it.*)
TriggeredLogHasNoInterval ==
    \A i \in Instances :
        LoggingType[i] = LOGGING_TYPE_TRIGGERED => ulLogInterval[i] = 0


(* The reads a successful write of property p may change besides p: the   *)
(* record counts when a status record is inserted, Enable when            *)
(* stop-when-full disables a full log, Log_Interval when the logging type  *)
(* changes.                                                                *)
SideEffects(p) ==
    CASE p \in {"ENABLE", "LOG_DEVICE_OBJECT_PROPERTY"}
                              -> {"RECORD_COUNT", "TOTAL_RECORD_COUNT"}
      [] p = "STOP_WHEN_FULL" -> {"ENABLE", "RECORD_COUNT", "TOTAL_RECORD_COUNT"}
      [] p = "RECORD_COUNT"   -> {"TOTAL_RECORD_COUNT"}
      [] p = "LOGGING_TYPE"   -> {"LOG_INTERVAL"}
      [] OTHER                -> {}

(* After this step a read of property p of log i returns `expect', and     *)
(* every other read is what it was, but for p's side effects.              *)
ReadsBack(i, p, expect) ==
    /\ Trend_Log_Encode_Property_APDU(i, p, BACNET_ARRAY_ALL)' = expect
    /\ \A q \in ReadableProperties \ ({p} \cup SideEffects(p)) :
          ReadProperty(i, q)' = ReadProperty(i, q)

Seconds(v) == UnsignedValue((v.val \div 100) * 100)

(* A write that Trend_Log_Write_Property accepts reads back through        *)
(* Trend_Log_Encode_Property_APDU as written (intervals rounded down to a  *)
(* whole second, a date-time as its date, RECORD_COUNT 0 as the one purge  *)
(* record) and changes no other property a client can read beyond its     *)
(* side effects.  This is about the write and read switches agreeing on    *)
(* which LogInfo field each property lives in and on the scaling by 100.   *)
WrittenValueReadBack ==
    [][\A i \in Instances : wpResult' = "OK" =>
         /\ \A v \in Values :
              /\ WriteEnable(i, v) => ReadsBack(i, "ENABLE", v)
              /\ WriteStopWhenFull(i, v) => ReadsBack(i, "STOP_WHEN_FULL", v)
              /\ WriteRecordCount(i, v) /\ v.val = 0
                   => ReadsBack(i, "RECORD_COUNT", UnsignedValue(1))
              /\ WriteLoggingType(i, v) => ReadsBack(i, "LOGGING_TYPE", v)
              /\ WriteLogInterval(i, v) => ReadsBack(i, "LOG_INTERVAL", Seconds(v))
              /\ WriteAlignIntervals(i, v) => ReadsBack(i, "ALIGN_INTERVALS", v)
              /\ WriteIntervalOffset(i, v)
                   => ReadsBack(i, "INTERVAL_OFFSET", Seconds(v))
              /\ WriteTrigger(i, v) => ReadsBack(i, "TRIGGER", v)
         /\ \A d \in DateTimeFirst, t \in DateTimeSecond :
              /\ WriteStartTime(i, d, t) => ReadsBack(i, "START_TIME", d)
              /\ WriteStopTime(i, d, t) => ReadsBack(i, "STOP_TIME", d)
         /\ \A d \in SourceInputs :
              WriteLogDeviceObjectProperty(i, d)
                => ReadsBack(i, "LOG_DEVICE_OBJECT_PROPERTY",
                             [tag |-> "DEV_OBJ_PROP_REF", val |-> ParseSource(d).src])
      ]_vars

=============================================================================
