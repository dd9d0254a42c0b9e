\* The record buffer and its status records under enable, stop-when-full,
\* record-count (purge) and start/stop time writes, and what reads return.
CONSTANTS
    MAX_TREND_LOGS = 1
    WrittenProperties = {"ENABLE",
                         "STOP_WHEN_FULL",
                         "RECORD_COUNT",
                         "START_TIME",
                         "STOP_TIME"}
    TL_MAX_ENTRIES = 3
    Months <- MC_Months
    UnsignedInputs <- MC_UnsignedInputs
    EnumInputs <- MC_EnumInputs
    ObjectInstances = {0, 1}
    PropertyIds <- MC_PropertyIds
    Clock <- MC_Clock
    MaxTotalRecordCount = 10006
    WildStopTimeT = 1165

SPECIFICATION Spec
INVARIANT TypeOK
PROPERTY BufferIsBoundedLog
PROPERTY EnableTransitionsRecorded
PROPERTY WrittenValueReadBack
