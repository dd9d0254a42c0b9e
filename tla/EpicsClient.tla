----------------------------- MODULE EpicsClient -----------------------------
(***************************************************************************)
(* The EPICS client (demo/epics/main.c) against one target device.        *)
(*                                                                         *)
(* One pass of the do-while loop of main() is two client steps: LoopTop    *)
(* (the clock, the TSM tick and, in the three receiving states, one       *)
(* datalink_receive with its npdu_handler dispatch) and one body action   *)
(* per case of `switch (myState)', each ending with the timeout test that *)
(* follows the switch and the loop condition.  The device and a network   *)
(* that loses, duplicates and reorders PDUs run between the steps.        *)
(*                                                                         *)
(* Data abstraction: an object is a model value; a property is PLAIN,     *)
(* OBJLIST (the Device's Object_List, a long array) or another name; an   *)
(* answer carries its so the client prints (or collects) the     *)
(* properties of the request the answer was for.                          *)
(***************************************************************************)
EXTENDS Integers, Sequences, FiniteSets, Tsm

LOCAL Seqs == INSTANCE SequencesExt

CONSTANTS
    DEV, Objects,         \* the Device object, and all the device's objects
    DeviceObjectList,     \* the value of the Device's Object_List property
    KeyOrder,             \* the objects in Keylist (OS_Keylist) key order
    DeviceProps,          \* per object: the properties the device has
    RequiredProps,        \* per object: property_list_special's list
    DeviceHasRPM,         \* the device executes ReadPropertyMultiple
    RpmAllReplies,        \* its answers to an RPM of ALL properties
    ObjListReplies,       \* its answers to an RP of the whole Object_List
    RefusalFreesSlot,     \* an Error/Reject/Abort leaves the slot free
    ThreeState,           \* the EPICS_STATES value of the literal 3
    MaxSendFailures,      \* how many sends may fail (bound)
    Duplicates,           \* the network may deliver a PDU more than once
    MaxLosses             \* PDUs the network may lose in a behaviour

States == {"INITIAL_BINDING", "GET_HEADING_INFO", "GET_HEADING_RESPONSE",
           "PRINT_HEADING", "GET_ALL_REQUEST", "GET_ALL_RESPONSE",
           "GET_LIST_OF_ALL_REQUEST", "GET_LIST_OF_ALL_RESPONSE",
           "GET_PROPERTY_REQUEST", "GET_PROPERTY_RESPONSE", "NEXT_OBJECT"}
RpmResponseStates == {"GET_HEADING_RESPONSE", "GET_ALL_RESPONSE",
                      "GET_LIST_OF_ALL_RESPONSE"}
ReceiveStates == {"INITIAL_BINDING", "GET_PROPERTY_RESPONSE"} \cup RpmResponseStates

(* The answers a request can get: a Complex-Ack that decodes to data, to  *)
(* nothing, or fails to decode; the rest are refusals.                     *)
Acks == {"ACK", "ACK_EMPTY", "ACK_UNDECODABLE"}
Refusals == {"REJECT_UNRECOGNIZED_SERVICE", "ABORT_SEGMENTATION_NOT_SUPPORTED",
             "ABORT_BUFFER_OVERFLOW", "UNKNOWN_PROPERTY", "INVALID_ARRAY_INDEX"}
(* Last_Error_Class of a refusal: the Abort and Reject handlers use        *)
(* ERROR_CLASS_SERVICES; an unknown property or an array index out of     *)
(* range is an Error of class PROPERTY.                                    *)
ErrorClass(code) ==
    IF code \in {"UNKNOWN_PROPERTY", "INVALID_ARRAY_INDEX"} THEN "PROPERTY"
    ELSE "SERVICES"

(* BACNET_ARRAY_ALL (0xFFFFFFFF), an index no array reaches.               *)
BACNET_ARRAY_ALL == -1

END == "END"   \* myObject.type = MAX_BACNET_OBJECT_TYPE: no object left

ASSUME /\ DEV \in Objects
       /\ KeyOrder \in Seq(Objects) /\ DeviceObjectList \in Seq(Objects)
       /\ ThreeState \in States
       /\ RpmAllReplies \subseteq Acks \cup {"ABORT_SEGMENTATION_NOT_SUPPORTED",
                                       "ABORT_BUFFER_OVERFLOW"}
       /\ ObjListReplies \subseteq Acks \cup {"ABORT_BUFFER_OVERFLOW"}
       /\ RefusalFreesSlot \in BOOLEAN /\ DeviceHasRPM \in BOOLEAN

VARIABLES
    pc,                  \* "top" or "body" of a pass, or "done"
    losses,              \* PDUs lost so far
    myState, myObject,
    Request_Invoke_ID,
    Error_Detected, Last_Error,
    Has_RPM,
    rpmData,             \* Read_Property_Multiple_Data: new_data, invoke id, answer
    Property_List, Property_List_Index, Property_List_Length,
    Walked_List_Index, Walked_List_Length, Using_Walked_List, IsLongArray,
    Object_List, Object_List_Index,
    elapsed_seconds, delta, found, bound,
    tsm, nextInvokeId,
    net, sendFailures,
    exitReason,
    interrogated,        \* the objects a request has been sent about
    assertFailed         \* an assert() of the loop has failed

vars == <<pc, myState, myObject, Request_Invoke_ID, Error_Detected, Last_Error,
          Has_RPM, rpmData, Property_List, Property_List_Index,
          Property_List_Length, Walked_List_Index, Walked_List_Length,
          Using_Walked_List, IsLongArray, Object_List, Object_List_Index,
          elapsed_seconds, delta, found, bound, tsm, nextInvokeId, net, sendFailures, exitReason, interrogated,
          assertFailed, losses>>

(* PDUs.  A request names its service, object, property and array index.  *)
Req(svc, o, p, i) == [svc |-> svc, obj |-> o, prop |-> p, idx |-> i]
Request(id, r) == [kind |-> "REQ", id |-> id, req |-> r]
Reply(id, code, r) == [kind |-> "REPLY", id |-> id, code |-> code, req |-> r]
WhoIs == [kind |-> "WHO_IS"]
IAm == [kind |-> "I_AM"]

(* timeout_seconds = (apdu_timeout() / 1000) * apdu_retries().            *)
timeout_seconds == APDU_TIMEOUT * APDU_RETRIES

(* Read_Property_Multiple_Data with new_data false.  Once the data is      *)
(* consumed only new_data is cleared; the rest is never read before the    *)
(* next ack overwrites it, so the model resets it too.                     *)
NoData == [new |-> FALSE, id |-> 0, req |-> Req("NONE", DEV, "NONE", BACNET_ARRAY_ALL)]

-----------------------------------------------------------------------------
(* main() before the loop: nothing bound, so a Who-Is is sent; myObject is *)
(* the Device.  The statics start as declared.                             *)
Init ==
    /\ pc = "top"
    /\ myState = "INITIAL_BINDING"
    /\ myObject = DEV
    /\ Request_Invoke_ID = 0
    /\ Error_Detected = FALSE
    /\ Last_Error = "NONE"
    /\ Has_RPM = TRUE
    /\ rpmData = NoData
    /\ Property_List = <<>>
    /\ Property_List_Index = 0
    /\ Property_List_Length = 0
    /\ Walked_List_Index = 0
    /\ Walked_List_Length = 0
    /\ Using_Walked_List = FALSE
    /\ IsLongArray = FALSE
    /\ Object_List = {}
    /\ Object_List_Index = 0
    /\ elapsed_seconds = 0
    /\ delta = 0
    /\ found = FALSE
    /\ bound = FALSE
    /\ tsm = TsmInitSlots
    /\ nextInvokeId = 1
    /\ net = {WhoIs}
    /\ losses = 0
    /\ sendFailures = 0
    /\ exitReason = "NONE"
    /\ interrogated = {}
    /\ assertFailed = FALSE

(* How a refusal leaves the TSM slot: failed (spec.md 4.E, 4.F), or free  *)
(* as the loop's `tsm_invoke_id_free ... else if (Error_Detected)' expects.*)
RefusedSlot(s, id) ==
    IF RefusalFreesSlot THEN AckReceived(s, id) ELSE RefusalReceived(s, id)

(* An answer reaches the client's handlers only while the TSM slot of its  *)
(* invoke id awaits it (spec.md 3.3: responses for a released id are      *)
(* dropped) and the id is the one the client waits for.                    *)
Correlated(m, s) ==
    m.id = Request_Invoke_ID /\ s[m.id].state = "AWAIT_CONFIRMATION"

(* npdu_handler on one PDU, with the TSM table s.  I-Am binds            *)
(* (handler_i_am_bind).  An answer moves its TSM slot.  For a correlated  *)
(* ack the handler decodes it: a positive length stores it as new data, a *)
(* negative one sets Error_Detected (Last_Error is left as it was), zero  *)
(* does nothing.  The Error/Abort/Reject handlers set Error_Detected and  *)
(* Last_Error.                                                             *)
Dispatch(m, s) ==
    \/ /\ m.kind = "I_AM"
       /\ bound' = TRUE /\ tsm' = s
       /\ UNCHANGED <<rpmData, Error_Detected, Last_Error>>
    \/ /\ m.kind = "REPLY" /\ m.code \in Acks
       /\ tsm' = AckReceived(s, m.id)
       /\ rpmData' = IF Correlated(m, s) /\ m.code = "ACK"
                       THEN [new |-> TRUE, id |-> m.id, req |-> m.req]
                       ELSE rpmData
       /\ Error_Detected' = (Error_Detected \/
                              (Correlated(m, s) /\ m.code = "ACK_UNDECODABLE"))
       /\ UNCHANGED <<bound, Last_Error>>
    \/ /\ m.kind = "REPLY" /\ m.code \in Refusals
       /\ tsm' = RefusedSlot(s, m.id)
       /\ IF Correlated(m, s)
            THEN Error_Detected' = TRUE /\ Last_Error' = m.code
            ELSE UNCHANGED <<Error_Detected, Last_Error>>
       /\ UNCHANGED <<bound, rpmData>>

(* Whether a delivered PDU stays in flight (a duplicate).                 *)
Keep == IF Duplicates THEN BOOLEAN ELSE {FALSE}

(* The requests the TSM resends from its stored APDUs when a second passes.*)
ResentPdus(d) ==
    IF d = 1 THEN ResentApdus(tsm) ELSE {}

(* Top of the loop: last_seconds = current_seconds; current_seconds =     *)
(* time(NULL); tsm_timer_milliseconds when a second has passed; then, in   *)
(* the receiving states, datalink_receive and npdu_handler.                *)
LoopTop(d) ==
    /\ pc = "top"
    /\ delta' = d
    /\ LET ticked == IF d = 1 THEN TimerMilliseconds(tsm) ELSE tsm
           sent   == net \cup ResentPdus(d)
       IN \/ /\ tsm' = ticked /\ net' = sent
             /\ UNCHANGED <<bound, rpmData, Error_Detected, Last_Error>>
          \/ /\ myState \in ReceiveStates
             /\ \E m \in sent, keep \in Keep :
                   /\ m.kind \in {"I_AM", "REPLY"}
                   /\ net' = IF keep THEN sent ELSE sent \ {m}
                   /\ Dispatch(m, ticked)
    /\ pc' = "body"
    /\ UNCHANGED <<losses, myState, myObject, Request_Invoke_ID, Has_RPM,
                   Property_List,
                   Property_List_Index, Property_List_Length, Walked_List_Index,
                   Walked_List_Length, Using_Walked_List, IsLongArray,
                   Object_List, Object_List_Index, elapsed_seconds, found,
                   nextInvokeId, sendFailures, exitReason, 
                   interrogated, assertFailed>>

-----------------------------------------------------------------------------
(* Operators the body actions share.                                       *)

(* Send_Read_Property_(Multiple_)Request, by the pattern of the senders   *)
(* in src/ (s_lso.c): the next free invoke id, the transaction stored in  *)
(* the TSM, and 0 returned when the table is full or the send fails.      *)
(* rid is the invoke id returned.                                          *)
SendConfirmed(r, rid) ==
    LET id == NextFreeInvokeId(tsm, nextInvokeId) IN
    IF id = 0
    THEN /\ rid = 0
         /\ UNCHANGED <<tsm, nextInvokeId, net, losses, sendFailures,
                        interrogated>>
    ELSE /\ tsm' = SetConfirmedTransaction(tsm, id, Request(id, r))
         /\ nextInvokeId' = NextRotation(id)
         /\ \/ /\ rid = id
               /\ net' = net \cup {Request(id, r)}
               /\ interrogated' = interrogated \cup {r.obj}
               /\ UNCHANGED <<sendFailures, losses>>
            \/ /\ sendFailures < MaxSendFailures /\ rid = 0
               /\ sendFailures' = sendFailures + 1
               /\ UNCHANGED <<net, losses, interrogated>>

(* StartNextObject: clear the error and the property list.                 *)
StartNextObject ==
    /\ Error_Detected' = FALSE
    /\ Property_List_Index' = 0
    /\ Property_List_Length' = 0

(* Mutant of EndOfPass: the loop times out two seconds late.              *)
EndOfPass_ExitLate(st, obj, rid, el, d, fnd) ==
    LET counted == IF ~fnd \/ rid > 0 THEN el + d ELSE el IN
    /\ myState' = st
    /\ myObject' = obj
    /\ Request_Invoke_ID' = rid
    /\ elapsed_seconds' = counted
    /\ IF counted > timeout_seconds + 2
         THEN pc' = "done" /\ exitReason' = "APDU_TIMEOUT"
       ELSE IF obj = END
         THEN pc' = "done" /\ exitReason' = "DONE"
       ELSE pc' = "top" /\ UNCHANGED exitReason

(* The end of a pass: the state, object and invoke id the case leaves,    *)
(* then the timeout test after the switch (seconds count while unbound or *)
(* waiting; d is 0 when the case reset last_seconds), then the loop       *)
(* condition myObject.type < MAX_BACNET_OBJECT_TYPE.                       *)
EndOfPass(st, obj, rid, el, d, fnd) ==
    LET counted == IF ~fnd \/ rid > 0 THEN el + d ELSE el IN
    /\ myState' = st
    /\ myObject' = obj
    /\ Request_Invoke_ID' = rid
    /\ elapsed_seconds' = counted
    /\ IF counted > timeout_seconds
         THEN pc' = "done" /\ exitReason' = "APDU_TIMEOUT"
       ELSE IF obj = END
         THEN pc' = "done" /\ exitReason' = "DONE"
       ELSE pc' = "top" /\ UNCHANGED exitReason

(* The properties an answer carries, each with its array index.           *)
AnswerProps(r) ==
    IF r.svc = "RP" THEN << [prop |-> r.prop, idx |-> r.idx] >>
    ELSE IF r.prop = "HEADING" THEN << [prop |-> "PLAIN", idx |-> BACNET_ARRAY_ALL] >>
    ELSE [i \in 1 .. Len(DeviceProps[r.obj]) |->
            [prop |-> DeviceProps[r.obj][i], idx |-> BACNET_ARRAY_ALL]]

(* The state PrintReadPropertyData changes.                                *)
Walk == [wi |-> Walked_List_Index, wl |-> Walked_List_Length,
         oli |-> Object_List_Index, objs |-> Object_List, bad |-> assertFailed]

ObjectsAt(idx) ==
    IF idx = BACNET_ARRAY_ALL THEN Seqs!ToSet(DeviceObjectList) ELSE {DeviceObjectList[idx]}

(* PrintReadPropertyData on one property.  Out of a walk the walk indexes *)
(* are cleared.  For the Object_List: in a walk, index 0 gives the length *)
(* and index k the k-th object, asserting Walked_List_Index == k; the     *)
(* whole array advances Walked_List_Index and Object_List_Index per value. *)
(* Every object printed is added to the Keylist.                           *)
PrintProperty(w, p) ==
    LET w0 == IF Using_Walked_List THEN w ELSE [w EXCEPT !.wi = 0, !.wl = 0]
        n  == Len(DeviceObjectList)
    IN IF p.prop # "OBJLIST" THEN w0
       ELSE IF Using_Walked_List /\ p.idx = 0 THEN [w0 EXCEPT !.wl = n]
       ELSE IF Using_Walked_List
         THEN [w0 EXCEPT !.bad = @ \/ p.idx # w0.wi,
                         !.objs = @ \cup ObjectsAt(p.idx)]
       ELSE [w0 EXCEPT !.wi = @ + n, !.oli = @ + n,
                       !.objs = @ \cup ObjectsAt(BACNET_ARRAY_ALL)]

PrintAnswer(w, r) == Seqs!FoldLeft(PrintProperty, w, AnswerProps(r))

SetWalk(w) ==
    /\ Walked_List_Index' = w.wi
    /\ Walked_List_Length' = w.wl
    /\ Object_List_Index' = w.oli
    /\ Object_List' = w.objs
    /\ assertFailed' = w.bad

(* ProcessRPMData in GET_LIST_OF_ALL_RESPONSE: the answer's properties    *)
(* from Property_List_Index on, Object_List moved to the end.             *)
CollectedProps(r) ==
    LET ps == [i \in 1 .. Len(AnswerProps(r)) |-> AnswerProps(r)[i].prop]
        plain == SelectSeq(ps, LAMBDA x : x # "OBJLIST")
    IN plain \o (IF \E i \in DOMAIN ps : ps[i] = "OBJLIST"
                 THEN <<"OBJLIST">> ELSE <<>>)

(* The tests of the receiving states, in the order the code makes them.   *)
Answered == rpmData.new /\ Request_Invoke_ID = rpmData.id
Completed == InvokeIdFree(tsm, Request_Invoke_ID)
TsmFailed == InvokeIdFailed(tsm, Request_Invoke_ID)

(* After the data is used: `if (tsm_invoke_id_free(Request_Invoke_ID))    *)
(* ... else assert(false)', the observation freeing the slot.             *)
ReleaseAnswered ==
    tsm' = IF Completed THEN FreeInvokeId(tsm, Request_Invoke_ID) ELSE tsm

walkVars == <<Walked_List_Index, Walked_List_Length, Object_List,
              Object_List_Index>>
listVars == <<Property_List, Property_List_Index, Property_List_Length>>
sendVars == <<tsm, nextInvokeId, net, losses, sendFailures, 
              interrogated>>

-----------------------------------------------------------------------------
(* The cases of `switch (myState)'.                                        *)

(* INITIAL_BINDING: address_bind_request.  Unbound, it may send another   *)
(* Who-Is and the seconds count; past timeout_seconds the switch is left  *)
(* (and the test after it, counting the seconds again, ends the loop),    *)
(* otherwise `continue' skips that test.  Bound, go to GET_HEADING_INFO.  *)
InitialBinding ==
    /\ pc = "body" /\ myState = "INITIAL_BINDING"
    /\ found' = bound
    /\ IF bound
         THEN /\ EndOfPass("GET_HEADING_INFO", myObject, Request_Invoke_ID,
                           elapsed_seconds, delta, TRUE)
              /\ UNCHANGED net
         ELSE /\ \E whoIs \in {{}, {WhoIs}} : net' = net \cup whoIs
              /\ IF elapsed_seconds + delta > timeout_seconds
                   THEN EndOfPass(myState, myObject, Request_Invoke_ID,
                                  elapsed_seconds + delta, delta, FALSE)
                   ELSE /\ elapsed_seconds' = elapsed_seconds + delta
                        /\ pc' = "top"
                        /\ UNCHANGED <<myState, myObject, Request_Invoke_ID,
                                       exitReason>>
    /\ UNCHANGED <<Error_Detected, Last_Error, Has_RPM, rpmData, listVars,
                   walkVars, Using_Walked_List, IsLongArray, delta, bound, tsm,
                   nextInvokeId, sendFailures, interrogated,
                   assertFailed, losses>>

(* GET_HEADING_INFO: RPM of the heading properties of the Device; a       *)
(* failed send goes on to GET_HEADING_RESPONSE all the same.              *)
GetHeadingInfo ==
    /\ pc = "body" /\ myState = "GET_HEADING_INFO"
    /\ StartNextObject
    /\ \E rid \in {0} \cup InvokeIds :
          /\ SendConfirmed(Req("RPM", myObject, "HEADING", BACNET_ARRAY_ALL), rid)
          /\ EndOfPass("GET_HEADING_RESPONSE", myObject, rid,
                       IF rid > 0 THEN 0 ELSE elapsed_seconds, 0, found)
    /\ UNCHANGED <<Last_Error, Has_RPM, rpmData, Property_List, walkVars,
                   Using_Walked_List, IsLongArray, delta, found, bound,
                   assertFailed>>

(* PRINT_HEADING (falling through), GET_ALL_REQUEST and                    *)
(* GET_LIST_OF_ALL_REQUEST: StartNextObject and RPM of ALL properties of  *)
(* myObject; the state moves on only when the send succeeded.             *)
AllRequest ==
    /\ pc = "body"
    /\ myState \in {"PRINT_HEADING", "GET_ALL_REQUEST", "GET_LIST_OF_ALL_REQUEST"}
    /\ StartNextObject
    /\ LET list == myState = "GET_LIST_OF_ALL_REQUEST" IN
       \E rid \in {0} \cup InvokeIds :
          /\ SendConfirmed(Req("RPM", myObject, "ALL", BACNET_ARRAY_ALL), rid)
          /\ EndOfPass(CASE rid = 0 /\ list -> "GET_LIST_OF_ALL_REQUEST"
                         [] rid = 0         -> "GET_ALL_REQUEST"
                         [] list            -> "GET_LIST_OF_ALL_RESPONSE"
                         [] OTHER           -> "GET_ALL_RESPONSE",
                       myObject, rid,
                       IF rid > 0 THEN 0 ELSE elapsed_seconds, 0, found)
    /\ UNCHANGED <<Last_Error, Has_RPM, rpmData, Property_List, walkVars,
                   Using_Walked_List, IsLongArray, delta, found, bound,
                   assertFailed>>

(* A receiving case leaves `st' with the request settled; restart says    *)
(* whether it calls StartNextObject.                                       *)
Settle(st, restart) ==
    /\ EndOfPass(st, myObject, 0, 0, delta, found)
    /\ IF restart THEN StartNextObject
       ELSE UNCHANGED <<Error_Detected, Property_List_Index, Property_List_Length>>

(* RPM response states, new data for the request: ProcessRPMData (the     *)
(* heading is kept, ALL is printed, LIST becomes the property list).      *)
RpmAnswered ==
    /\ pc = "body" /\ myState \in RpmResponseStates /\ Answered
    /\ rpmData' = NoData
    /\ ReleaseAnswered
    /\ LET r == rpmData.req
           w == IF myState = "GET_ALL_RESPONSE" THEN PrintAnswer(Walk, r) ELSE Walk
       IN /\ SetWalk([w EXCEPT !.bad = @ \/ ~Completed])
          /\ IF myState = "GET_LIST_OF_ALL_RESPONSE"
               THEN /\ Property_List' = SubSeq(Property_List, 1, Property_List_Index)
                                         \o CollectedProps(r)
                    /\ Property_List_Length' = Property_List_Length
                                               + Len(CollectedProps(r))
                    /\ Property_List_Index' = 0
               ELSE UNCHANGED listVars
    /\ EndOfPass(CASE myState = "GET_HEADING_RESPONSE" -> "PRINT_HEADING"
                   [] myState = "GET_ALL_RESPONSE"     -> "NEXT_OBJECT"
                   [] OTHER                            -> "GET_PROPERTY_REQUEST",
                 myObject, 0, 0, delta, found)
    /\ UNCHANGED <<Error_Detected, Last_Error, Has_RPM, Using_Walked_List,
                   IsLongArray, delta, found, bound, nextInvokeId, net, losses,
                   sendFailures, interrogated>>

(* `Last_Error_Code == ERROR_CODE_REJECT_UNRECOGNIZED_SERVICE': the       *)
(* device does not execute RPM.                                            *)
RpmUnsupported(err) == err = "REJECT_UNRECOGNIZED_SERVICE"

(* Mutant of RpmCompleted: a segmentation abort tries RPM again instead  *)
(* of falling back to ReadProperty.                                         *)
RpmCompleted_SegRetriesRpm ==
    /\ pc = "body" /\ myState \in RpmResponseStates /\ ~Answered /\ Completed
    /\ tsm' = FreeInvokeId(tsm, Request_Invoke_ID)
    /\ \/ /\ myState = "GET_HEADING_RESPONSE"
          /\ Settle("PRINT_HEADING", FALSE) /\ UNCHANGED Has_RPM
       \/ /\ myState # "GET_HEADING_RESPONSE" /\ Error_Detected
          /\ RpmUnsupported(Last_Error)
          /\ Has_RPM' = FALSE
          /\ Settle("GET_PROPERTY_REQUEST", FALSE)
       \/ /\ myState # "GET_HEADING_RESPONSE" /\ Error_Detected
          /\ ~RpmUnsupported(Last_Error)
          /\ Last_Error = "ABORT_SEGMENTATION_NOT_SUPPORTED"
          /\ Settle("GET_ALL_REQUEST", TRUE) /\ UNCHANGED Has_RPM
       \/ /\ myState # "GET_HEADING_RESPONSE" /\ Error_Detected
          /\ ~RpmUnsupported(Last_Error)
          /\ Last_Error # "ABORT_SEGMENTATION_NOT_SUPPORTED"
          /\ IF myState = "GET_ALL_RESPONSE"
               THEN Settle("GET_LIST_OF_ALL_REQUEST", FALSE)
               ELSE Settle("GET_PROPERTY_REQUEST", TRUE)
          /\ UNCHANGED Has_RPM
       \/ /\ myState # "GET_HEADING_RESPONSE" /\ ~Error_Detected
          /\ Settle(IF Has_RPM THEN "GET_ALL_REQUEST" ELSE "GET_PROPERTY_REQUEST",
                    FALSE)
          /\ UNCHANGED Has_RPM
    /\ UNCHANGED <<Last_Error, rpmData, Property_List, walkVars,
                   Using_Walked_List, IsLongArray, delta, found, bound,
                   nextInvokeId, net, losses, sendFailures, 
                   interrogated, assertFailed>>

(* RPM response states, the transaction completed without data: the       *)
(* heading goes on; an unrecognized service means no RPM; a segmentation  *)
(* abort falls back to ReadProperty; another error on ALL tries the list; *)
(* without an error RPM is tried again.                                    *)
RpmCompleted ==
    /\ pc = "body" /\ myState \in RpmResponseStates /\ ~Answered /\ Completed
    /\ tsm' = FreeInvokeId(tsm, Request_Invoke_ID)
    /\ \/ /\ myState = "GET_HEADING_RESPONSE"
          /\ Settle("PRINT_HEADING", FALSE) /\ UNCHANGED Has_RPM
       \/ /\ myState # "GET_HEADING_RESPONSE" /\ Error_Detected
          /\ RpmUnsupported(Last_Error)
          /\ Has_RPM' = FALSE
          /\ Settle("GET_PROPERTY_REQUEST", FALSE)
       \/ /\ myState # "GET_HEADING_RESPONSE" /\ Error_Detected
          /\ ~RpmUnsupported(Last_Error)
          /\ Last_Error = "ABORT_SEGMENTATION_NOT_SUPPORTED"
          /\ Settle("GET_PROPERTY_REQUEST", TRUE) /\ UNCHANGED Has_RPM
       \/ /\ myState # "GET_HEADING_RESPONSE" /\ Error_Detected
          /\ ~RpmUnsupported(Last_Error)
          /\ Last_Error # "ABORT_SEGMENTATION_NOT_SUPPORTED"
          /\ IF myState = "GET_ALL_RESPONSE"
               THEN Settle("GET_LIST_OF_ALL_REQUEST", FALSE)
               ELSE Settle("GET_PROPERTY_REQUEST", TRUE)
          /\ UNCHANGED Has_RPM
       \/ /\ myState # "GET_HEADING_RESPONSE" /\ ~Error_Detected
          /\ Settle(IF Has_RPM THEN "GET_ALL_REQUEST" ELSE "GET_PROPERTY_REQUEST",
                    FALSE)
          /\ UNCHANGED Has_RPM
    /\ UNCHANGED <<Last_Error, rpmData, Property_List, walkVars,
                   Using_Walked_List, IsLongArray, delta, found, bound,
                   nextInvokeId, net, losses, sendFailures, 
                   interrogated, assertFailed>>

(* RPM response states, TSM timeout: free the id; the heading goes on,    *)
(* anything else tries RPM again.                                         *)
RpmFailed ==
    /\ pc = "body" /\ myState \in RpmResponseStates
    /\ ~Answered /\ ~Completed /\ TsmFailed
    /\ tsm' = FreeInvokeId(tsm, Request_Invoke_ID)
    /\ Settle(IF myState = "GET_HEADING_RESPONSE" THEN "PRINT_HEADING"
              ELSE "GET_ALL_REQUEST", FALSE)
    /\ UNCHANGED <<Last_Error, Has_RPM, rpmData, Property_List, walkVars,
                   Using_Walked_List, IsLongArray, delta, found, bound,
                   nextInvokeId, net, losses, sendFailures, 
                   interrogated, assertFailed>>

(* RPM response states, nothing settled: with Error_Detected give up on   *)
(* the object (the code doubts this is reachable), otherwise keep waiting.*)
RpmPending ==
    /\ pc = "body" /\ myState \in RpmResponseStates
    /\ ~Answered /\ ~Completed /\ ~TsmFailed
    /\ IF Error_Detected
         THEN Settle(IF myState = "GET_HEADING_RESPONSE" THEN "PRINT_HEADING"
                     ELSE "NEXT_OBJECT", FALSE)
         ELSE /\ EndOfPass(myState, myObject, Request_Invoke_ID,
                           elapsed_seconds, delta, found)
              /\ UNCHANGED <<Error_Detected, Property_List_Index,
                             Property_List_Length>>
    /\ UNCHANGED <<Last_Error, Has_RPM, rpmData, Property_List, walkVars,
                   Using_Walked_List, IsLongArray, delta, found, bound,
                   sendVars, assertFailed>>

(* The array index Read_Properties asks for: ALL out of a walk; in a walk *)
(* index 0 (the length) first, then Walked_List_Index.                     *)
RequestIndex ==
    IF ~Using_Walked_List THEN BACNET_ARRAY_ALL
    ELSE IF Walked_List_Length = 0 THEN 0
    ELSE Walked_List_Index

(* GET_PROPERTY_REQUEST: Read_Properties.  The list is rebuilt from        *)
(* property_list_special when RPM is unavailable and the list is at its   *)
(* start, or when it is empty.  Before the -1 terminator, one RP goes     *)
(* out: a walked index in a walk, else the whole property (a long array   *)
(* sets IsLongArray).  Invoke id 0, the end of the list or a failed send, *)
(* moves on to the next object.                                            *)
PropertyRequest ==
    /\ pc = "body" /\ myState = "GET_PROPERTY_REQUEST"
    /\ Error_Detected' = FALSE
    /\ LET rebuild == (~Has_RPM /\ Property_List_Index = 0)
                      \/ Property_List_Length = 0
           list == IF rebuild THEN RequiredProps[myObject] ELSE Property_List
           len  == IF rebuild THEN Len(RequiredProps[myObject])
                   ELSE Property_List_Length
       IN /\ Property_List' = list
          /\ Property_List_Length' = len
          /\ IF Property_List_Index < len
               THEN LET prop == list[Property_List_Index + 1]
                        idx  == RequestIndex
                    IN /\ IsLongArray' = (~Using_Walked_List /\ prop = "OBJLIST")
                       /\ \E rid \in {0} \cup InvokeIds :
                            /\ SendConfirmed(Req("RP", myObject, prop, idx), rid)
                            /\ EndOfPass(IF rid = 0 THEN "NEXT_OBJECT"
                                         ELSE "GET_PROPERTY_RESPONSE",
                                         myObject, rid, 0, 0, found)
               ELSE /\ EndOfPass("NEXT_OBJECT", myObject, 0, 0, 0, found)
                    /\ UNCHANGED <<IsLongArray, sendVars>>
    /\ UNCHANGED <<Last_Error, Has_RPM, rpmData, Property_List_Index, walkVars,
                   Using_Walked_List, delta, found, bound, assertFailed>>

(* Mutant of PropAnswered: the walked index is advanced before the      *)
(* answer is printed.                                                       *)
PropAnswered_IncrementsFirst ==
    /\ pc = "body" /\ myState = "GET_PROPERTY_RESPONSE" /\ Answered
    /\ rpmData' = NoData
    /\ ReleaseAnswered
    /\ LET w0 == IF Using_Walked_List THEN [Walk EXCEPT !.wi = @ + 1] ELSE Walk
           w  == [PrintAnswer(w0, rpmData.req) EXCEPT !.bad = @ \/ ~Completed]
           wi == w.wi
       IN IF Using_Walked_List
            THEN /\ SetWalk([w EXCEPT !.wi = wi])
                 /\ IF wi > w.wl
                      THEN /\ Property_List_Index' = Property_List_Index + 1
                           /\ Using_Walked_List' = FALSE
                      ELSE UNCHANGED <<Property_List_Index, Using_Walked_List>>
            ELSE /\ SetWalk(w)
                 /\ Property_List_Index' = Property_List_Index + 1
                 /\ UNCHANGED Using_Walked_List
    /\ EndOfPass("GET_PROPERTY_REQUEST", myObject, 0, 0, delta, found)
    /\ UNCHANGED <<Error_Detected, Last_Error, Has_RPM, Property_List,
                   Property_List_Length, IsLongArray, delta, found, bound,
                   nextInvokeId, net, losses, sendFailures, 
                   interrogated>>

(* GET_PROPERTY_RESPONSE, new data for the request: print it, then        *)
(* advance the walked index (past its end, the next property) or the      *)
(* property index.                                                         *)
PropAnswered ==
    /\ pc = "body" /\ myState = "GET_PROPERTY_RESPONSE" /\ Answered
    /\ rpmData' = NoData
    /\ ReleaseAnswered
    /\ LET w  == [PrintAnswer(Walk, rpmData.req) EXCEPT !.bad = @ \/ ~Completed]
           wi == w.wi + 1
       IN IF Using_Walked_List
            THEN /\ SetWalk([w EXCEPT !.wi = wi])
                 /\ IF wi > w.wl
                      THEN /\ Property_List_Index' = Property_List_Index + 1
                           /\ Using_Walked_List' = FALSE
                      ELSE UNCHANGED <<Property_List_Index, Using_Walked_List>>
            ELSE /\ SetWalk(w)
                 /\ Property_List_Index' = Property_List_Index + 1
                 /\ UNCHANGED Using_Walked_List
    /\ EndOfPass("GET_PROPERTY_REQUEST", myObject, 0, 0, delta, found)
    /\ UNCHANGED <<Error_Detected, Last_Error, Has_RPM, Property_List,
                   Property_List_Length, IsLongArray, delta, found, bound,
                   nextInvokeId, net, losses, sendFailures, 
                   interrogated>>

(* Skip the current property; past the end, go to the next object.        *)
SkipProperty ==
    /\ Property_List_Index' = Property_List_Index + 1
    /\ EndOfPass(IF Property_List_Index + 1 >= Property_List_Length
                 THEN "NEXT_OBJECT" ELSE "GET_PROPERTY_REQUEST",
                 myObject, 0, 0, delta, found)
    /\ UNCHANGED <<Using_Walked_List, Walked_List_Index, Walked_List_Length>>

(* GET_PROPERTY_RESPONSE, completed without data: with an error, a long  *)
(* array that failed for a reason other than an unknown property is       *)
(* walked one element at a time; any other failed property is skipped.    *)
PropCompleted ==
    /\ pc = "body" /\ myState = "GET_PROPERTY_RESPONSE" /\ ~Answered /\ Completed
    /\ tsm' = FreeInvokeId(tsm, Request_Invoke_ID)
    /\ \/ /\ ~Error_Detected
          /\ EndOfPass("GET_PROPERTY_REQUEST", myObject, 0, 0, delta, found)
          /\ UNCHANGED <<Property_List_Index, Using_Walked_List,
                         Walked_List_Index, Walked_List_Length>>
       \/ /\ Error_Detected
          /\ ErrorClass(Last_Error) # "PROPERTY" /\ Last_Error # "UNKNOWN_PROPERTY"
          /\ IsLongArray
          /\ Using_Walked_List' = TRUE
          /\ Walked_List_Index' = 0 /\ Walked_List_Length' = 0
          /\ EndOfPass("GET_PROPERTY_REQUEST", myObject, 0, 0, delta, found)
          /\ UNCHANGED Property_List_Index
       \/ /\ Error_Detected
          /\ ~(/\ ErrorClass(Last_Error) # "PROPERTY"
               /\ Last_Error # "UNKNOWN_PROPERTY"
               /\ IsLongArray)
          /\ SkipProperty
    /\ UNCHANGED <<Error_Detected, Last_Error, Has_RPM, rpmData, Property_List,
                   Property_List_Length, Object_List, Object_List_Index,
                   IsLongArray, delta, found, bound, nextInvokeId, net, losses,
                   sendFailures, interrogated, assertFailed>>

(* Mutant of PropFailed: the timed-out transaction is not freed.          *)
PropFailed_KeepsSlot ==
    /\ pc = "body" /\ myState = "GET_PROPERTY_RESPONSE"
    /\ ~Answered /\ ~Completed /\ TsmFailed
    /\ tsm' = tsm
    /\ EndOfPass(ThreeState, myObject, 0, 0, delta, found)
    /\ UNCHANGED <<Error_Detected, Last_Error, Has_RPM, rpmData, listVars,
                   walkVars, Using_Walked_List, IsLongArray, delta, found, bound,
                   nextInvokeId, net, losses, sendFailures, 
                   interrogated, assertFailed>>

(* GET_PROPERTY_RESPONSE, TSM timeout: free the id and set myState = 3.   *)
PropFailed ==
    /\ pc = "body" /\ myState = "GET_PROPERTY_RESPONSE"
    /\ ~Answered /\ ~Completed /\ TsmFailed
    /\ tsm' = FreeInvokeId(tsm, Request_Invoke_ID)
    /\ EndOfPass(ThreeState, myObject, 0, 0, delta, found)
    /\ UNCHANGED <<Error_Detected, Last_Error, Has_RPM, rpmData, listVars,
                   walkVars, Using_Walked_List, IsLongArray, delta, found, bound,
                   nextInvokeId, net, losses, sendFailures, 
                   interrogated, assertFailed>>

(* GET_PROPERTY_RESPONSE, nothing settled: with Error_Detected go to the  *)
(* next object, otherwise keep waiting.                                    *)
PropPending ==
    /\ pc = "body" /\ myState = "GET_PROPERTY_RESPONSE"
    /\ ~Answered /\ ~Completed /\ ~TsmFailed
    /\ IF Error_Detected
         THEN EndOfPass("NEXT_OBJECT", myObject, 0, 0, delta, found)
         ELSE EndOfPass(myState, myObject, Request_Invoke_ID, elapsed_seconds,
                        delta, found)
    /\ UNCHANGED <<Error_Detected, Last_Error, Has_RPM, rpmData, listVars,
                   walkVars, Using_Walked_List, IsLongArray, delta, found, bound,
                   sendVars, assertFailed>>

(* The Keylist of objects, in key order.                                   *)
Keys == SelectSeq(KeyOrder, LAMBDA o : o \in Object_List)

(* Mutant of NextObject: starting over after the Device skips index 0.    *)
NextObject_SkipsFirst ==
    /\ pc = "body" /\ myState = "NEXT_OBJECT"
    /\ LET i1  == (IF myObject = DEV THEN 0 ELSE Object_List_Index) + 1
           i   == IF i1 < Len(Keys) /\ Keys[i1 + 1] = DEV THEN i1 + 1 ELSE i1
           obj == IF i < Len(Keys) THEN Keys[i + 1] ELSE END
       IN /\ Object_List_Index' = i
          /\ IF Has_RPM
               THEN /\ EndOfPass("GET_ALL_REQUEST", obj, Request_Invoke_ID,
                                 elapsed_seconds, delta, found)
                    /\ UNCHANGED <<Error_Detected, Property_List_Index,
                                   Property_List_Length>>
               ELSE /\ EndOfPass("GET_PROPERTY_REQUEST", obj, Request_Invoke_ID,
                                 elapsed_seconds, delta, found)
                    /\ StartNextObject
    /\ UNCHANGED <<Last_Error, Has_RPM, rpmData, Property_List,
                   Walked_List_Index, Walked_List_Length, Object_List,
                   Using_Walked_List, IsLongArray, delta, found, bound,
                   sendVars, assertFailed>>

(* NEXT_OBJECT: after the Device start over at index 0; step to the next  *)
(* Keylist entry, stepping over the Device; past the end myObject becomes *)
(* MAX_BACNET_OBJECT_TYPE.  Then RPM ALL, or StartNextObject and RP.      *)
NextObject ==
    /\ pc = "body" /\ myState = "NEXT_OBJECT"
    /\ LET i1  == (IF myObject = DEV THEN -1 ELSE Object_List_Index) + 1
           i   == IF i1 < Len(Keys) /\ Keys[i1 + 1] = DEV THEN i1 + 1 ELSE i1
           obj == IF i < Len(Keys) THEN Keys[i + 1] ELSE END
       IN /\ Object_List_Index' = i
          /\ IF Has_RPM
               THEN /\ EndOfPass("GET_ALL_REQUEST", obj, Request_Invoke_ID,
                                 elapsed_seconds, delta, found)
                    /\ UNCHANGED <<Error_Detected, Property_List_Index,
                                   Property_List_Length>>
               ELSE /\ EndOfPass("GET_PROPERTY_REQUEST", obj, Request_Invoke_ID,
                                 elapsed_seconds, delta, found)
                    /\ StartNextObject
    /\ UNCHANGED <<Last_Error, Has_RPM, rpmData, Property_List,
                   Walked_List_Index, Walked_List_Length, Object_List,
                   Using_Walked_List, IsLongArray, delta, found, bound,
                   sendVars, assertFailed>>

-----------------------------------------------------------------------------
(* The target device and the network.                                      *)

(* What the device answers to a request.                                   *)
Answers(r) ==
    IF r.svc = "RPM"
    THEN IF ~DeviceHasRPM THEN {"REJECT_UNRECOGNIZED_SERVICE"}
         ELSE IF r.prop = "ALL" THEN RpmAllReplies ELSE {"ACK"}
    ELSE IF \A i \in DOMAIN DeviceProps[r.obj] : DeviceProps[r.obj][i] # r.prop
         THEN {"UNKNOWN_PROPERTY"}
    ELSE IF r.prop = "OBJLIST" /\ r.idx = BACNET_ARRAY_ALL THEN ObjListReplies
    ELSE IF r.prop = "OBJLIST" /\ r.idx > Len(DeviceObjectList)
         THEN {"INVALID_ARRAY_INDEX"}
    ELSE {"ACK"}

clientVars == <<pc, myState, myObject, Request_Invoke_ID, Error_Detected,
                Last_Error, Has_RPM, rpmData, listVars, walkVars,
                Using_Walked_List, IsLongArray, elapsed_seconds, delta, found,
                bound, tsm, nextInvokeId, sendFailures, exitReason,
                interrogated, assertFailed>>

(* The device answers a Who-Is for it with an I-Am.                         *)
DeviceIAm ==
    /\ WhoIs \in net
    /\ \E keep \in Keep :
          net' = (IF keep THEN net ELSE net \ {WhoIs}) \cup {IAm}
    /\ UNCHANGED <<clientVars, losses>>

(* The device serves a request (again, for a duplicate or a resend).       *)
DeviceServe(m) ==
    /\ m.kind = "REQ"
    /\ \E code \in Answers(m.req), keep \in Keep :
          net' = (IF keep THEN net ELSE net \ {m}) \cup {Reply(m.id, code, m.req)}
    /\ UNCHANGED <<clientVars, losses>>

(* The datalink loses a PDU (at most MaxLosses times in a behaviour).      *)
Lose(m) ==
    /\ losses < MaxLosses
    /\ net' = net \ {m}
    /\ losses' = losses + 1
    /\ UNCHANGED clientVars

ClientStep ==
    \/ \E d \in {0, 1} : LoopTop(d)
    \/ InitialBinding \/ GetHeadingInfo \/ AllRequest
    \/ RpmAnswered \/ RpmCompleted \/ RpmFailed \/ RpmPending
    \/ PropertyRequest \/ PropAnswered \/ PropCompleted \/ PropFailed
    \/ PropPending \/ NextObject

Next ==
    \/ ClientStep
    \/ DeviceIAm
    \/ \E m \in net : DeviceServe(m)
    \/ \E m \in net : Lose(m)

(* As for the DCC client: the loop runs on (it blocks at most 100 ms in   *)
(* datalink_receive) and seconds keep passing; the device and the network *)
(* get no fairness.                                                        *)
Fairness ==
    /\ WF_vars(ClientStep)
    /\ SF_vars(LoopTop(1))

Spec == Init /\ [][Next]_vars /\ Fairness

-----------------------------------------------------------------------------
(* Properties.                                                             *)

TypeOK ==
    /\ pc \in {"top", "body", "done"}
    /\ myState \in States
    /\ myObject \in Objects \cup {END}
    /\ Request_Invoke_ID \in {0} \cup InvokeIds
    /\ Error_Detected \in BOOLEAN /\ Has_RPM \in BOOLEAN
    /\ Last_Error \in {"NONE"} \cup Refusals
    /\ rpmData.new \in BOOLEAN /\ rpmData.id \in {0} \cup InvokeIds
    /\ Property_List_Index \in Nat /\ Property_List_Length \in Nat
    /\ Walked_List_Index \in Nat /\ Walked_List_Length \in Nat
    /\ Using_Walked_List \in BOOLEAN /\ IsLongArray \in BOOLEAN
    /\ Object_List \subseteq Objects /\ Object_List_Index \in Int
    /\ elapsed_seconds \in 0 .. timeout_seconds + 2
    /\ delta \in {0, 1} /\ found \in BOOLEAN /\ bound \in BOOLEAN
    /\ SlotsOK(tsm) /\ nextInvokeId \in InvokeIds
    /\ sendFailures \in 0 .. MaxSendFailures
    /\ exitReason \in {"NONE", "APDU_TIMEOUT", "DONE"}
    /\ interrogated \subseteq Objects /\ assertFailed \in BOOLEAN

(* The EPICS is complete: when the loop runs out of objects, every object *)
(* of the device (the value of its Object_List) has been asked about at   *)
(* least once.  It takes the Device's Object_List to arrive, whole by RPM *)
(* or RP or walked, and the Keylist walk of NEXT_OBJECT to reach them all. *)
EveryObjectInterrogated ==
    exitReason = "DONE" => Seqs!ToSet(DeviceObjectList) \subseteq interrogated

(* The loop never loses track of a TSM slot: while it runs, the only slot *)
(* in use is the one of Request_Invoke_ID.  Every path that gives up on a *)
(* request (answer, completion, TSM timeout) must also free its slot.      *)
NoLeakedSlot ==
    pc # "done" => InUse(tsm) \subseteq {Request_Invoke_ID}

(* No assert() of the loop fails: `assert(false); /* How can this be? */'  *)
(* after using new data, and PrintReadPropertyData's walked-index check.   *)
AssertionsHold == ~assertFailed

(* The program ends: the objects run out or a timeout breaks the loop.    *)
ClientTerminates == <>(pc = "done")

=============================================================================
