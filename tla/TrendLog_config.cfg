\* Logging type, interval, alignment, offset and trigger writes, with
\* source and buffer-size writes in between, and what reads return.
CONSTANTS
    MAX_TREND_LOGS = 1
    WrittenProperties = {"LOGGING_TYPE",
                         "LOG_INTERVAL",
                         "ALIGN_INTERVALS",
                         "INTERVAL_OFFSET",
                         "TRIGGER",
                         "LOG_DEVICE_OBJECT_PROPERTY",
                         "BUFFER_SIZE"}
    TL_MAX_ENTRIES = 3
    Months <- MC_Months
    UnsignedInputs <- MC_UnsignedInputs
    EnumInputs <- MC_EnumInputs
    ObjectInstances = {0, 1}
    PropertyIds <- MC_PropertyIds
    Clock <- MC_Clock
    MaxTotalRecordCount = 10006
    WildStopTimeT = 1165

SPECIFICATION Spec
INVARIANT TriggeredLogHasNoInterval
PROPERTY WrittenValueReadBack
