\* A device without RPM whose whole Object_List read is aborted, so the
\* client walks the array one index at a time; one send may fail and one
\* PDU may be lost.  No assert() of the loop fails.
CONSTANTS
    InvokeIds <- MC_InvokeIds
    MAX_TSM_TRANSACTIONS = 2
    APDU_TIMEOUT = 2
    APDU_RETRIES = 1
    DEV = "DEV"
    Objects <- MC_Objects1
    DeviceObjectList <- MC_DeviceObjectList1
    KeyOrder <- MC_KeyOrder1
    DeviceProps <- MC_DeviceProps1
    RequiredProps <- MC_RequiredProps1
    DeviceHasRPM = FALSE
    RpmAllReplies = {"ACK"}
    ObjListReplies = {"ABORT_BUFFER_OVERFLOW"}
    RefusalFreesSlot = TRUE
    ThreeState = "PRINT_HEADING"
    MaxSendFailures = 1
    Duplicates = FALSE
    MaxLosses = 1
SPECIFICATION Spec
CHECK_DEADLOCK FALSE
INVARIANT AssertionsHold
