\* The win32 client reads the Device object's properties for as long as it
\* runs: does every bound device keep having every property read?  Nobody
\* in main.c frees a TSM slot or ticks the TSM, so TLC shows the reads stop.
CONSTANTS
    Devices <- MC_Devices
    InvokeIds <- MC_InvokeIds
    NoDevice = NoDevice
    NoRequest = NoRequest
    MAX_ADDRESS_CACHE = 2
    MAX_TSM_TRANSACTIONS = 2
    APDU_TIMEOUT = 1
    APDU_RETRIES = 0
    NumProps = 2
    MaxIAms = 5
    MaxWhoIs = 1
SPECIFICATION Spec
PROPERTY EveryPropertyReread
