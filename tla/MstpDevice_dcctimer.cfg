\* After the first second of timer_init, TIMER_DCC is never reset: every
\* turn of the loop calls dcc_timer_seconds(1), and the DCC module is told
\* of more seconds than have passed.
CONSTANTS
    Macs <- MC_Macs
    InvokeIds <- MC_InvokeIds
    ErrorClasses <- MC_ErrorClasses
    UndefinedClass = UndefinedClass
    RdFunctionSet = FALSE
    MaxFrames = 3
    MaxSwitchChanges = 2
    MaxSeconds = 2
SPECIFICATION Spec
INVARIANT DccTimerFollowsClock
