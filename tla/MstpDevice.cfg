\* The bdk-atxx4 device as built: three requests of every shape, two
\* switch changes, two seconds.  Every reply answers its request and every
\* request is answered.
CONSTANTS
    Macs <- MC_Macs
    InvokeIds <- MC_InvokeIds
    ErrorClasses <- MC_ErrorClasses
    UndefinedClass = UndefinedClass
    RdFunctionSet = FALSE
    MaxFrames = 3
    MaxSwitchChanges = 2
    MaxSeconds = 2
SPECIFICATION Spec
INVARIANT TypeOK
 
PROPERTY EveryRequestAnswered
