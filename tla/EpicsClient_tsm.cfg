\* A one-second APDU timeout, where the TSM fails a transaction before the
\* loop times out, so TSM timeouts restart the object (myState = 3); three
\* invoke ids, so the rotation wraps.  Complex-Acks may decode to nothing
\* or fail to decode (which sets Error_Detected and leaves Last_Error as it
\* was).  The loop never leaks a slot.
CONSTANTS
    InvokeIds <- MC_InvokeIds3
    MAX_TSM_TRANSACTIONS = 2
    APDU_TIMEOUT = 1
    APDU_RETRIES = 1
    DEV = "DEV"
    Objects <- MC_Objects1
    DeviceObjectList <- MC_DeviceObjectList1
    KeyOrder <- MC_KeyOrder1
    DeviceProps <- MC_DeviceProps1
    RequiredProps <- MC_RequiredProps1
    DeviceHasRPM = TRUE
    RpmAllReplies = {"ACK_EMPTY", "ACK_UNDECODABLE", "ABORT_SEGMENTATION_NOT_SUPPORTED"}
    ObjListReplies = {"ABORT_BUFFER_OVERFLOW", "ACK_EMPTY", "ACK_UNDECODABLE"}
    RefusalFreesSlot = TRUE
    ThreeState = "PRINT_HEADING"
    MaxSendFailures = 0
    Duplicates = FALSE
    MaxLosses = 0
SPECIFICATION Spec
CHECK_DEADLOCK FALSE
CONSTRAINT MC_RetryBound
INVARIANT NoLeakedSlot
