------------------------------ MODULE DccClient ------------------------------
(***************************************************************************)
(* The DeviceCommunicationControl client (bacnet-stack/demo/dcc/main.c)    *)
(* against one target device over an unreliable datalink.                 *)
(*                                                                         *)
(* The client's main loop is two steps: the top of the loop, which reads   *)
(* the clock and handles at most one received PDU (datalink_receive and    *)
(* npdu_handler), and the rest of the loop body, from the TSM tick to the  *)
(* exit tests.  The device and the network run between the two.           *)
(*                                                                         *)
(* The request is sent by the pattern of the confirmed-request senders    *)
(* (s_lso.c): take a TSM invoke id, store the transaction, return 0 when  *)
(* the first send fails.  The TSM and the address binding follow spec.md  *)
(* 4.F and 4.D.  PDUs may be lost, duplicated and reordered (a set of PDUs *)
(* in flight, delivered with or without removal).                          *)
(***************************************************************************)
EXTENDS Naturals, FiniteSets, Tsm

CONSTANTS
    DeviceReplies,     \* the answers the device may give to a DCC request
    MaxSendFailures    \* how many sends may fail at the datalink (bound)

ASSUME /\ DeviceReplies \subseteq {"SIMPLE_ACK", "ERROR", "ABORT", "REJECT"}
       /\ DeviceReplies # {}
       /\ MaxSendFailures \in Nat

VARIABLES
    pc,              \* "receive" (top of loop), "check" (rest of body), "done"
    invoke_id,       \* the client's invoke_id
    Error_Detected,  \* set by the Error, Abort and Reject handlers
    elapsed_seconds, \* seconds spent waiting for the binding
    delta,           \* current_seconds - last_seconds of this pass (0 or 1)
    bound,           \* the address cache holds the target's binding
    net,             \* PDUs in flight
    tsm, nextInvokeId,
    sendFailures,    \* datalink send failures so far
    exitReason,      \* why the loop ended
    refusedIds       \* invoke ids whose refusal reached the client's handlers

vars == <<pc, invoke_id, Error_Detected, elapsed_seconds, delta, bound, net,
          tsm, nextInvokeId, sendFailures, exitReason, refusedIds>>

(* PDUs: Who-Is and I-Am, the DCC request, and the answers to it.          *)
Msg(t, id) == [type |-> t, id |-> id]
WhoIs == Msg("WHO_IS", 0)
IAm   == Msg("I_AM", 0)
Refusals == {"ERROR", "ABORT", "REJECT"}

(* timeout_seconds = (Device_APDU_Timeout() / 1000) * retries.            *)
timeout_seconds == APDU_TIMEOUT * APDU_RETRIES

-----------------------------------------------------------------------------
(* main: the set-up before the loop sends a Who-Is for the target.        *)
Init ==
    /\ pc = "receive"
    /\ invoke_id = 0
    /\ Error_Detected = FALSE
    /\ elapsed_seconds = 0
    /\ delta = 0
    /\ bound = FALSE
    /\ net = {WhoIs}
    /\ tsm = TsmInitSlots
    /\ nextInvokeId = 1
    /\ sendFailures = 0
    /\ exitReason = "NONE"
    /\ refusedIds = {}

(* npdu_handler on one received PDU: I-Am binds the target                *)
(* (handler_i_am_bind); a Simple-Ack is correlated by the TSM; an Error,  *)
(* Abort or Reject fails its TSM slot and its handler sets Error_Detected *)
(* without looking at the source or the invoke id.                        *)
Dispatch(m) ==
    \/ /\ m.type = "I_AM"
       /\ bound' = TRUE
       /\ UNCHANGED <<tsm, Error_Detected, refusedIds>>
    \/ /\ m.type = "SIMPLE_ACK"
       /\ tsm' = AckReceived(tsm, m.id)
       /\ UNCHANGED <<bound, Error_Detected, refusedIds>>
    \/ /\ m.type \in Refusals
       /\ tsm' = RefusalReceived(tsm, m.id)
       /\ Error_Detected' = TRUE
       /\ refusedIds' = refusedIds \cup {m.id}
       /\ UNCHANGED bound

(* Top of the loop: current_seconds = time(NULL), then datalink_receive    *)
(* returns nothing (timeout) or one PDU addressed to the client, which may *)
(* also stay in flight (a duplicate).                                      *)
LoopTop(d) ==
    /\ pc = "receive"
    /\ delta' = d
    /\ \/ UNCHANGED <<net, bound, tsm, Error_Detected, refusedIds>>
       \/ \E m \in net :
             /\ m.type \in {"I_AM", "SIMPLE_ACK"} \cup Refusals
             /\ \E keep \in BOOLEAN :
                   net' = IF keep THEN net ELSE net \ {m}
             /\ Dispatch(m)
    /\ pc' = "check"
    /\ UNCHANGED <<invoke_id, elapsed_seconds, nextInvokeId, sendFailures,
                   exitReason>>

(* The TSM table after `if (current_seconds != last_seconds)              *)
(* tsm_timer_milliseconds(...)', and the requests it resends.             *)
Ticked == IF delta = 1 THEN TimerMilliseconds(tsm) ELSE tsm
ResentPdus == IF delta = 1 THEN ResentApdus(tsm) ELSE {}

(* The loop ends with a reason; the TSM tick of this pass has happened.   *)
Exit(reason, slots) ==
    /\ pc' = "done"
    /\ exitReason' = reason
    /\ tsm' = slots

(* `if (Error_Detected) break;'                                            *)
CheckError ==
    /\ pc = "check" /\ Error_Detected
    /\ Exit("ERROR", Ticked)
    /\ net' = net \cup ResentPdus
    /\ UNCHANGED <<invoke_id, Error_Detected, elapsed_seconds, delta, bound,
                   nextInvokeId, sendFailures, refusedIds>>

(* Mutant of CheckUnbound: the timeout is taken one second late.          *)
CheckUnbound_ExitLate ==
    /\ pc = "check" /\ ~Error_Detected /\ ~bound
    /\ elapsed_seconds' = elapsed_seconds + delta
    /\ \E whoIs \in {{}, {WhoIs}} : net' = net \cup ResentPdus \cup whoIs
    /\ IF elapsed_seconds + delta > timeout_seconds + 1
         THEN Exit("APDU_TIMEOUT", Ticked)
         ELSE pc' = "receive" /\ tsm' = Ticked /\ UNCHANGED exitReason
    /\ UNCHANGED <<invoke_id, Error_Detected, delta, bound, nextInvokeId,
                   sendFailures, refusedIds>>

(* Not bound yet: address_bind_request may send another Who-Is, and the   *)
(* wait counts against timeout_seconds.                                   *)
CheckUnbound ==
    /\ pc = "check" /\ ~Error_Detected /\ ~bound
    /\ elapsed_seconds' = elapsed_seconds + delta
    /\ \E whoIs \in {{}, {WhoIs}} : net' = net \cup ResentPdus \cup whoIs
    /\ IF elapsed_seconds + delta > timeout_seconds
         THEN Exit("APDU_TIMEOUT", Ticked)
         ELSE pc' = "receive" /\ tsm' = Ticked /\ UNCHANGED exitReason
    /\ UNCHANGED <<invoke_id, Error_Detected, delta, bound, nextInvokeId,
                   sendFailures, refusedIds>>

(* Send_..._Request (the s_lso.c pattern), with the TSM already ticked:   *)
(* take the next free invoke id; store the transaction; the send fails at  *)
(* most MaxSendFailures times, and then 0 is returned though the           *)
(* transaction stays stored.                                               *)
SendConfirmedRequest(slots) ==
    LET id == NextFreeInvokeId(slots, nextInvokeId) IN
    IF id = 0
    THEN /\ invoke_id' = 0
         /\ tsm' = slots
         /\ UNCHANGED <<nextInvokeId, sendFailures>>
         /\ net' = net \cup ResentPdus
    ELSE /\ tsm' = SetConfirmedTransaction(slots, id, Msg("DCC", id))
         /\ nextInvokeId' = NextRotation(id)
         /\ \/ /\ invoke_id' = id
               /\ net' = net \cup ResentPdus \cup {Msg("DCC", id)}
               /\ UNCHANGED sendFailures
            \/ /\ sendFailures < MaxSendFailures
               /\ invoke_id' = 0
               /\ sendFailures' = sendFailures + 1
               /\ net' = net \cup ResentPdus

(* Bound and nothing sent yet: send the DCC request.                       *)
CheckSend ==
    /\ pc = "check" /\ ~Error_Detected /\ bound /\ invoke_id = 0
    /\ SendConfirmedRequest(Ticked)
    /\ pc' = "receive"
    /\ UNCHANGED <<Error_Detected, elapsed_seconds, delta, bound, exitReason,
                   refusedIds>>

(* Mutant of CheckSent: a failed transaction is waited on for ever.       *)
CheckSent_KeepsWaiting ==
    /\ pc = "check" /\ ~Error_Detected /\ bound /\ invoke_id # 0
    /\ net' = net \cup ResentPdus
    /\ IF InvokeIdFree(Ticked, invoke_id)
         THEN Exit("ACKNOWLEDGED", FreeInvokeId(Ticked, invoke_id))
       ELSE pc' = "receive" /\ tsm' = Ticked /\ UNCHANGED exitReason
    /\ UNCHANGED <<invoke_id, Error_Detected, elapsed_seconds, delta, bound,
                   nextInvokeId, sendFailures, refusedIds>>

(* Sent: leave when tsm_invoke_id_free (observing it frees the slot), or   *)
(* when tsm_invoke_id_failed (after tsm_free_invoke_id); else keep going.  *)
CheckSent ==
    /\ pc = "check" /\ ~Error_Detected /\ bound /\ invoke_id # 0
    /\ net' = net \cup ResentPdus
    /\ IF InvokeIdFree(Ticked, invoke_id)
         THEN Exit("ACKNOWLEDGED", FreeInvokeId(Ticked, invoke_id))
       ELSE IF InvokeIdFailed(Ticked, invoke_id)
         THEN Exit("TSM_TIMEOUT", FreeInvokeId(Ticked, invoke_id))
       ELSE pc' = "receive" /\ tsm' = Ticked /\ UNCHANGED exitReason
    /\ UNCHANGED <<invoke_id, Error_Detected, elapsed_seconds, delta, bound,
                   nextInvokeId, sendFailures, refusedIds>>

-----------------------------------------------------------------------------
(* The target device and the network.                                      *)

(* The device answers a Who-Is for it with an I-Am.                         *)
DeviceIAm ==
    /\ WhoIs \in net
    /\ \E keep \in BOOLEAN :
          net' = (IF keep THEN net ELSE net \ {WhoIs}) \cup {IAm}
    /\ UNCHANGED <<pc, invoke_id, Error_Detected, elapsed_seconds, delta,
                   bound, tsm, nextInvokeId, sendFailures, exitReason,
                   refusedIds>>

(* The device's DCC service handler executes every request it receives     *)
(* (a retransmission or a duplicate again) and answers it.                 *)
DeviceServe(id) ==
    /\ Msg("DCC", id) \in net
    /\ \E keep \in BOOLEAN, r \in DeviceReplies :
          net' = (IF keep THEN net ELSE net \ {Msg("DCC", id)}) \cup {Msg(r, id)}
    /\ UNCHANGED <<pc, invoke_id, Error_Detected, elapsed_seconds, delta,
                   bound, tsm, nextInvokeId, sendFailures, exitReason,
                   refusedIds>>

(* The datalink loses a PDU.                                               *)
Lose(m) ==
    /\ net' = net \ {m}
    /\ UNCHANGED <<pc, invoke_id, Error_Detected, elapsed_seconds, delta,
                   bound, tsm, nextInvokeId, sendFailures, exitReason,
                   refusedIds>>

ClientStep == (\E d \in {0, 1} : LoopTop(d))
              \/ CheckError \/ CheckUnbound \/ CheckSend \/ CheckSent

Next ==
    \/ ClientStep
    \/ DeviceIAm
    \/ \E id \in InvokeIds : DeviceServe(id)
    \/ \E m \in net : Lose(m)

(* The client's loop never stops while it runs (it only blocks in         *)
(* datalink_receive, for at most 100 ms), and wall-clock seconds go on    *)
(* passing between its passes.  The device and the network need no       *)
(* fairness: PDUs may be lost for ever.                                    *)
Fairness ==
    /\ WF_vars(ClientStep)
    /\ SF_vars(LoopTop(1))

Spec == Init /\ [][Next]_vars /\ Fairness

-----------------------------------------------------------------------------
(* Properties.                                                             *)

TypeOK ==
    /\ pc \in {"receive", "check", "done"}
    /\ invoke_id \in {0} \cup InvokeIds
    /\ Error_Detected \in BOOLEAN
    /\ elapsed_seconds \in 0 .. timeout_seconds + 1
    /\ delta \in {0, 1}
    /\ bound \in BOOLEAN
    /\ SlotsOK(tsm)
    /\ nextInvokeId \in InvokeIds
    /\ sendFailures \in 0 .. MaxSendFailures
    /\ exitReason \in {"NONE", "ERROR", "APDU_TIMEOUT", "ACKNOWLEDGED",
                       "TSM_TIMEOUT"}
    /\ refusedIds \subseteq InvokeIds

(* The loop reports a BACnet Error, Abort or Reject only when it is the    *)
(* answer to the client's own request: what the FIXMEs in MyErrorHandler,  *)
(* MyAbortHandler and MyRejectHandler ("verify src and invoke id") ask.    *)
ErrorIsOwnRequest ==
    exitReason = "ERROR" => invoke_id # 0 /\ invoke_id \in refusedIds

(* The dcc client always terminates: bound or not, answered or not, the   *)
(* loop breaks (the APDU timeout while binding, the TSM once sent).        *)
ClientTerminates == <>(pc = "done")

=============================================================================
