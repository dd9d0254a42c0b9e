\* The win32 client: three devices announcing themselves five times into a
\* two-slot cache, one Who-Is from elsewhere, two properties per device and
\* two TSM slots.  The sweep never stops.
CONSTANTS
    Devices <- MC_Devices
    InvokeIds <- MC_InvokeIds
    NoDevice = NoDevice
    NoRequest = NoRequest
    MAX_ADDRESS_CACHE = 2
    MAX_TSM_TRANSACTIONS = 2
    APDU_TIMEOUT = 1
    APDU_RETRIES = 0
    NumProps = 2
    MaxIAms = 5
    MaxWhoIs = 1
SPECIFICATION Spec
INVARIANT TypeOK
PROPERTY SweepVisitsEverySlot
