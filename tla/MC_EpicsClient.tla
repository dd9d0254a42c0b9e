--------------------------- MODULE MC_EpicsClient ---------------------------
(* Model-checking instance of EpicsClient: a device with its Device object *)
(* and one analog input.  The Device has its Object_List; the analog      *)
(* input has a plain property.                                             *)
(* property_list_special also names an optional DESCRIPTION the analog    *)
(* input lacks.  In key order the analog input (type 0) precedes the      *)
(* Device (type 8).                                                        *)
EXTENDS EpicsClient

MC_InvokeIds == 1 .. 8
(* Fewer invoke ids, so that the rotation wraps within a run.              *)
MC_InvokeIds3 == 1 .. 3
MC_Objects == {"DEV", "AI"}
MC_DeviceObjectList == <<"DEV", "AI">>
MC_KeyOrder == <<"AI", "DEV">>
MC_DeviceProps ==
    [o \in MC_Objects |-> IF o = "DEV" THEN <<"OBJLIST">> ELSE <<"PLAIN">>]
MC_RequiredProps ==
    [o \in MC_Objects |-> IF o = "DEV" THEN <<"OBJLIST">>
                          ELSE <<"PLAIN", "DESCRIPTION">>]

(* A device whose only object is the Device itself; property_list_special *)
(* also names an optional DESCRIPTION it lacks.                            *)
MC_Objects1 == {"DEV"}
MC_DeviceObjectList1 == <<"DEV">>
MC_KeyOrder1 == <<"DEV">>
MC_DeviceProps1 == [o \in MC_Objects1 |-> <<"OBJLIST">>]
MC_RequiredProps1 == [o \in MC_Objects1 |-> <<"OBJLIST", "DESCRIPTION">>]

(* Bounds for the one-second-timeout runs, where the client may restart an *)
(* object without end: at most MC_MaxInFlight PDUs in flight, and          *)
(* Object_List_Index (which every reread of the Object_List advances)      *)
(* at most MC_MaxObjectListIndex.                                          *)
MC_MaxInFlight == 2
MC_MaxObjectListIndex == 3
MC_RetryBound == /\ Cardinality(net) <= MC_MaxInFlight
                 /\ Object_List_Index <= MC_MaxObjectListIndex

=============================================================================
