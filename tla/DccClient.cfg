\* The DCC client against a device that acknowledges or refuses, over a
\* lossy network, with one failed send.
CONSTANTS
    InvokeIds <- MC_InvokeIds
    MAX_TSM_TRANSACTIONS = 2
    APDU_TIMEOUT = 1
    APDU_RETRIES = 1
    MaxSendFailures = 1
    DeviceReplies = {"SIMPLE_ACK", "REJECT"}
SPECIFICATION Spec
CHECK_DEADLOCK FALSE
INVARIANT TypeOK
PROPERTY ClientTerminates
