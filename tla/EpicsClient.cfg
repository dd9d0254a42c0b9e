\* The EPICS client against a two-object RPM device that may abort a
\* whole-object RPM for want of segmentation, over a network that may lose
\* one PDU; two-second APDU timeout, one retry, eight invoke ids, which
\* this run never wraps.  When the program runs out of objects it has
\* listed every one.  (The
\* loop exits itself, so no deadlock check.)
CONSTANTS
    InvokeIds <- MC_InvokeIds
    MAX_TSM_TRANSACTIONS = 2
    APDU_TIMEOUT = 2
    APDU_RETRIES = 1
    DEV = "DEV"
    Objects <- MC_Objects
    DeviceObjectList <- MC_DeviceObjectList
    KeyOrder <- MC_KeyOrder
    DeviceProps <- MC_DeviceProps
    RequiredProps <- MC_RequiredProps
    DeviceHasRPM = TRUE
    RpmAllReplies = {"ACK", "ABORT_SEGMENTATION_NOT_SUPPORTED"}
    ObjListReplies = {"ACK"}
    RefusalFreesSlot = TRUE
    ThreeState = "PRINT_HEADING"
    MaxSendFailures = 0
    Duplicates = FALSE
    MaxLosses = 1
SPECIFICATION Spec
CHECK_DEADLOCK FALSE
INVARIANT TypeOK
INVARIANT EveryObjectInterrogated
