\* A TSM timeout during a walked Object_List restarts the object by RPM
\* with Using_Walked_List still set: the whole Object_List of the RPM
\* answer then fails the walked-index assert.
CONSTANTS
    InvokeIds <- MC_InvokeIds
    MAX_TSM_TRANSACTIONS = 2
    APDU_TIMEOUT = 1
    APDU_RETRIES = 1
    DEV = "DEV"
    Objects <- MC_Objects1
    DeviceObjectList <- MC_DeviceObjectList1
    KeyOrder <- MC_KeyOrder1
    DeviceProps <- MC_DeviceProps1
    RequiredProps <- MC_RequiredProps1
    DeviceHasRPM = TRUE
    RpmAllReplies = {"ACK", "ABORT_SEGMENTATION_NOT_SUPPORTED"}
    ObjListReplies = {"ABORT_BUFFER_OVERFLOW"}
    RefusalFreesSlot = TRUE
    ThreeState = "PRINT_HEADING"
    MaxSendFailures = 0
    Duplicates = FALSE
    MaxLosses = 1
SPECIFICATION Spec
CHECK_DEADLOCK FALSE
INVARIANT AssertionsHold
