\* Liveness: a one-object RPM device that may abort the whole-object RPM
\* in every way, one PDU that may be lost, three invoke ids so that stale
\* replies stay few.  Under the loop's fairness the program ends.
CONSTANTS
    InvokeIds <- MC_InvokeIds3
    MAX_TSM_TRANSACTIONS = 2
    APDU_TIMEOUT = 2
    APDU_RETRIES = 1
    DEV = "DEV"
    Objects <- MC_Objects1
    DeviceObjectList <- MC_DeviceObjectList1
    KeyOrder <- MC_KeyOrder1
    DeviceProps <- MC_DeviceProps1
    RequiredProps <- MC_RequiredProps1
    DeviceHasRPM = TRUE
    RpmAllReplies = {"ACK", "ABORT_SEGMENTATION_NOT_SUPPORTED", "ABORT_BUFFER_OVERFLOW"}
    ObjListReplies = {"ACK"}
    RefusalFreesSlot = TRUE
    ThreeState = "PRINT_HEADING"
    MaxSendFailures = 0
    Duplicates = FALSE
    MaxLosses = 1
SPECIFICATION Spec
CHECK_DEADLOCK FALSE
PROPERTY ClientTerminates
