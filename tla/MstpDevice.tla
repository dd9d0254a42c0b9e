----------------------------- MODULE MstpDevice -----------------------------
(***************************************************************************)
(* The MS/TP device of ports/bdk-atxx4-mstp/main.c: bacnet_init, then the  *)
(* for(;;) loop whose bacnet_task step re-reads the address switch (and    *)
(* sends an I-Am when it changed, demo/handler/s_iam.c), drives the DCC    *)
(* one-second timer, and hands at most one received PDU to the handlers.  *)
(* The handler modelled is handler_reinitialize_device                     *)
(* (demo/handler/h_rd.c); it is the only confirmed handler of this device  *)
(* whose code is in the repository.                                        *)
(*                                                                         *)
(* The environment changes the address switch (input_task), lets seconds  *)
(* pass (the timer module) and delivers ReinitializeDevice requests from   *)
(* clients, a retried request arriving as a second frame with the same     *)
(* invoke id.  A request is abstracted to what the handler tells apart:   *)
(* its invoke id, the segmented-message flag, and what                    *)
(* rd_decode_service_request makes of it.                                  *)
(***************************************************************************)
EXTENDS Naturals, Sequences, SequencesExt

CONSTANTS
    Macs,             \* values the address switch (input_address) may read
    InvokeIds,        \* invoke ids the clients' requests carry
    ErrorClasses,     \* the error classes a reinitialize function may set
    UndefinedClass,   \* model value: an error-class byte no class has
    RdFunctionSet,    \* handler_reinitialize_device_function_set was called
    MaxFrames,        \* bound: requests received in a behaviour
    MaxSwitchChanges, \* bound: changes of the address switch
    MaxSeconds        \* bound: seconds after timer_init

ASSUME /\ RdFunctionSet \in BOOLEAN
       /\ UndefinedClass \notin ErrorClasses
       /\ {MaxFrames, MaxSwitchChanges, MaxSeconds} \subseteq Nat

VARIABLES
    pc,            \* "init" before bacnet_init, "loop" in the for(;;) loop
    switch,        \* what input_address() reads now
    MSTP_MAC_Address,
    now,           \* whole seconds since timer_init
    dccSeconds,    \* seconds handed to dcc_timer_seconds so far
    rx,            \* received PDUs not yet taken by datalink_receive
    received,      \* every request received, in order (history)
    tx,            \* every PDU datalink_send_pdu was given, in order
    switchChanges  \* changes of the switch so far

vars == <<pc, switch, MSTP_MAC_Address, now, dccSeconds, rx, received, tx,
          switchChanges>>

(* What rd_decode_service_request makes of the service request: a state  *)
(* below MAX_BACNET_REINITIALIZED_STATE, one at or above it, nothing      *)
(* (an empty request: len = 0 and rd_data.state is left unwritten), or a  *)
(* decoding error (len < 0).                                               *)
Bodies == {"DEFINED", "UNDEFINED", "EMPTY", "MALFORMED"}
Frames == [id : InvokeIds, seg : BOOLEAN, body : Bodies]

(* The PDUs the device sends.                                              *)
IAm(mac) == [kind |-> "I_AM", id |-> 0, reason |-> mac]
Abort(id, reason) == [kind |-> "ABORT", id |-> id, reason |-> reason]
Reject(id) == [kind |-> "REJECT", id |-> id, reason |-> "UNDEFINED_ENUMERATION"]
SimpleAck(id) == [kind |-> "SIMPLE_ACK", id |-> id, reason |-> "NONE"]
Error(id, class) == [kind |-> "ERROR", id |-> id, reason |-> class]

(* timer_init starts TIMER_DCC at 0 and nothing in the program resets it. *)
TimerDccStart == 0

(* Seconds beyond MaxSeconds + 1 are not told apart.                      *)
DccSecondsCap == MaxSeconds + 1

-----------------------------------------------------------------------------
(* handler_reinitialize_device                                             *)

(* The states rd_data.state may hold after decoding: the decoded one, or  *)
(* for an empty request whatever the stack held (either side of           *)
(* MAX_BACNET_REINITIALIZED_STATE).                                        *)
DecodedStates(body) ==
    IF body = "EMPTY" THEN {"DEFINED", "UNDEFINED"} ELSE {body}

(* Reinitialize_Device_Function && Reinitialize_Device_Function(&rd_data): *)
(* with a function, a Simple-Ack, or an Error with the class the function  *)
(* set; without one, an Error with rd_data.error_class, never written.     *)
FunctionReplies(id) ==
    IF RdFunctionSet
      THEN {SimpleAck(id)} \cup {Error(id, c) : c \in ErrorClasses}
      ELSE {Error(id, c) : c \in ErrorClasses \cup {UndefinedClass}}

StateReplies(id, st) ==
    IF st = "UNDEFINED" THEN {Reject(id)} ELSE FunctionReplies(id)

RdReplies_SegmentedUnanswered(f) ==
    IF f.seg THEN {<<>>}
    ELSE IF f.body = "MALFORMED" THEN {<<Abort(f.id, "OTHER")>>}
    ELSE {<<r>> : r \in UNION {StateReplies(f.id, st) : st \in DecodedStates(f.body)}}

(* The PDUs the handler may send for request f: a segmented message is   *)
(* aborted before decoding, a decoding error is aborted, an undefined     *)
(* state rejected; every path ends at RD_ABORT's datalink_send_pdu.       *)
RdReplies(f) ==
    IF f.seg THEN {<<Abort(f.id, "SEGMENTATION_NOT_SUPPORTED")>>}
    ELSE IF f.body = "MALFORMED" THEN {<<Abort(f.id, "OTHER")>>}
    ELSE {<<r>> : r \in UNION {StateReplies(f.id, st) : st \in DecodedStates(f.body)}}

-----------------------------------------------------------------------------
Init ==
    /\ pc = "init"
    /\ switch \in Macs
    /\ MSTP_MAC_Address = switch
    /\ now = 0
    /\ dccSeconds = 0
    /\ rx = <<>>
    /\ received = <<>>
    /\ tx = <<>>
    /\ switchChanges = 0

(* bacnet_init: take the switch's address for the datalink, register the  *)
(* handlers, and broadcast an I-Am.                                        *)
BacnetInit ==
    /\ pc = "init"
    /\ pc' = "loop"
    /\ MSTP_MAC_Address' = switch
    /\ tx' = Append(tx, IAm(switch))
    /\ UNCHANGED <<switch, now, dccSeconds, rx, received, switchChanges>>

(* Mutant: the received PDU taken from the wrong end of the queue.        *)
BacnetTask_TakesNewest ==
    /\ pc = "loop"
    /\ LET iam == IF MSTP_MAC_Address # switch THEN <<IAm(switch)>> ELSE <<>>
       IN IF rx = <<>>
            THEN tx' = tx \o iam /\ UNCHANGED rx
            ELSE /\ \E out \in RdReplies(Last(rx)) : tx' = tx \o iam \o out
                 /\ rx' = Front(rx)
    /\ MSTP_MAC_Address' = switch
    /\ dccSeconds' = IF now - TimerDccStart >= 1
                       THEN Min({dccSeconds + 1, DccSecondsCap})
                       ELSE dccSeconds
    /\ UNCHANGED <<pc, switch, now, received, switchChanges>>

(* bacnet_task: an I-Am when the switch no longer reads MSTP_MAC_Address, *)
(* dcc_timer_seconds(1) whenever timer_elapsed_seconds(TIMER_DCC, 1), and *)
(* at most one received PDU handed (by npdu_handler) to the handler.       *)
BacnetTask ==
    /\ pc = "loop"
    /\ LET iam == IF MSTP_MAC_Address # switch THEN <<IAm(switch)>> ELSE <<>>
       IN IF rx = <<>>
            THEN tx' = tx \o iam /\ UNCHANGED rx
            ELSE /\ \E out \in RdReplies(Head(rx)) : tx' = tx \o iam \o out
                 /\ rx' = Tail(rx)
    /\ MSTP_MAC_Address' = switch
    /\ dccSeconds' = IF now - TimerDccStart >= 1
                       THEN Min({dccSeconds + 1, DccSecondsCap})
                       ELSE dccSeconds
    /\ UNCHANGED <<pc, switch, now, received, switchChanges>>

(* The environment: the switch is turned, a second passes, a request      *)
(* arrives (once dlmstp_init has started the datalink).                    *)
SwitchChange ==
    /\ switchChanges < MaxSwitchChanges
    /\ switch' \in Macs \ {switch}
    /\ switchChanges' = switchChanges + 1
    /\ UNCHANGED <<pc, MSTP_MAC_Address, now, dccSeconds, rx, received, tx>>

Tick ==
    /\ now < MaxSeconds
    /\ now' = now + 1
    /\ UNCHANGED <<pc, switch, MSTP_MAC_Address, dccSeconds, rx, received, tx,
                   switchChanges>>

Receive ==
    /\ pc = "loop"
    /\ Len(received) < MaxFrames
    /\ \E f \in Frames : /\ rx' = Append(rx, f)
                         /\ received' = Append(received, f)
    /\ UNCHANGED <<pc, switch, MSTP_MAC_Address, now, dccSeconds, tx,
                   switchChanges>>

Next == BacnetInit \/ BacnetTask \/ SwitchChange \/ Tick \/ Receive

(* main runs bacnet_task on every turn of its for(;;) loop.                *)
Spec == Init /\ [][Next]_vars /\ WF_vars(BacnetInit) /\ WF_vars(BacnetTask)

-----------------------------------------------------------------------------
TypeOK ==
    /\ pc \in {"init", "loop"}
    /\ {switch, MSTP_MAC_Address} \subseteq Macs
    /\ now \in 0 .. MaxSeconds
    /\ dccSeconds \in 0 .. DccSecondsCap
    /\ rx \in Seq(Frames) /\ received \in Seq(Frames)
    /\ IsSuffix(rx, received)
    /\ switchChanges \in 0 .. MaxSwitchChanges

(* The replies, in the order they were sent (every PDU but the I-Ams).     *)
Replies == SelectSeq(tx, LAMBDA m : m.kind # "I_AM")

(* What BACnet allows as the answer to request f, written independently   *)
(* of the handler: the answer carries f's invoke id; an Abort for want of *)
(* segmentation exactly when f is segmented, an Abort OTHER exactly when  *)
(* an unsegmented f cannot be decoded; a Reject only when no defined      *)
(* state was decoded, an Ack or Error only when the state may be defined. *)
Fits(f, r) ==
    /\ r.id = f.id
    /\ (r = Abort(f.id, "SEGMENTATION_NOT_SUPPORTED")) <=> f.seg
    /\ (r = Abort(f.id, "OTHER")) <=> (~f.seg /\ f.body = "MALFORMED")
    /\ r.kind = "REJECT" => f.body \in {"UNDEFINED", "EMPTY"}
    /\ r.kind \in {"SIMPLE_ACK", "ERROR"} => f.body \in {"DEFINED", "EMPTY"}

EveryRequestAnswered ==
    \A k \in 1 .. MaxFrames : (Len(received) >= k) ~> (Len(Replies) >= k)

(* The DCC timer of bacnet_task: dcc_timer_seconds(1) is called once per  *)
(* second, so the seconds handed to the DCC module (which times the       *)
(* DeviceCommunicationControl time duration) never run ahead of the clock.*)
DccTimerFollowsClock == dccSeconds <= now - TimerDccStart

====
