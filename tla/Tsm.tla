-------------------------------- MODULE Tsm --------------------------------
(***************************************************************************)
(* The confirmed-request Transaction State Machine, as spec.md 3.3 and 4.F *)
(* describe it (tsm.c is not part of src/).  A slot per invoke id; a slot  *)
(* that is not IDLE is in use.  The TSM is logically single-threaded: its  *)
(* operations are called from the caller's main loop, so they are written  *)
(* here as operators on the slot table that the caller's actions apply.    *)
(*                                                                         *)
(* Time is counted in seconds: the callers tick the TSM with               *)
(* tsm_timer_milliseconds(1000) once a second has passed.                  *)
(***************************************************************************)
EXTENDS Naturals, FiniteSets

CONSTANTS
    InvokeIds,             \* the invoke ids the TSM rotates through (1..255)
    MAX_TSM_TRANSACTIONS,  \* slots of the table
    APDU_TIMEOUT,          \* apdu_timeout_ms(), in seconds
    APDU_RETRIES           \* number_of_apdu_retries()

ASSUME /\ InvokeIds = 1 .. Cardinality(InvokeIds)
       /\ MAX_TSM_TRANSACTIONS \in 1 .. Cardinality(InvokeIds)
       /\ APDU_TIMEOUT \in Nat \ {0}
       /\ APDU_RETRIES \in Nat

(* Slot states: free, waiting for the answer, completed (not yet observed  *)
(* by invoke_id_free) and failed (not yet released by free_invoke_id).     *)
SlotStates == {"IDLE", "AWAIT_CONFIRMATION", "COMPLETED", "FAILED"}

(* A slot also keeps the APDU it resends (apdu_buffer); a free slot keeps  *)
(* none (NoApdu).                                                          *)
NoApdu == [kind |-> "NONE"]
Slot(st, r, t, a) == [state |-> st, retry |-> r, timer |-> t, apdu |-> a]
IdleSlot == Slot("IDLE", 0, 0, NoApdu)

TsmInitSlots == [k \in InvokeIds |-> IdleSlot]

InUse(s) == {k \in InvokeIds : s[k].state # "IDLE"}

(* The k-th id after `next' in rotation order (k = 0 is `next' itself).    *)
RotatedId(next, k) == ((next - 1 + k) % Cardinality(InvokeIds)) + 1

(* next_free_invoke_id: the first free id from the rotation point `next',  *)
(* or 0 when the table is full.  IDs rotate to avoid immediate reuse.      *)
NextFreeInvokeId(s, next) ==
    IF Cardinality(InUse(s)) >= MAX_TSM_TRANSACTIONS THEN 0
    ELSE LET k == CHOOSE k \in 0 .. Cardinality(InvokeIds) - 1 :
                     /\ s[RotatedId(next, k)].state = "IDLE"
                     /\ \A j \in 0 .. k - 1 : s[RotatedId(next, j)].state # "IDLE"
         IN RotatedId(next, k)

(* The rotation point after handing out id.                                *)
NextRotation(id) == (id % Cardinality(InvokeIds)) + 1

(* set_confirmed_transaction: store the transaction and arm the timer.     *)
(* The transaction is stored whether or not the first send succeeds.       *)
SetConfirmedTransaction(s, id, apdu) ==
    [s EXCEPT ![id] = Slot("AWAIT_CONFIRMATION", 0, APDU_TIMEOUT, apdu)]

(* One second of timer_milliseconds on one slot: on expiry the request is  *)
(* resent until number_of_apdu_retries() is reached, then the slot fails.  *)
TimerSlot(sl) ==
    IF sl.state # "AWAIT_CONFIRMATION" THEN sl
    ELSE IF sl.timer > 1 THEN [sl EXCEPT !.timer = @ - 1]
    ELSE IF sl.retry < APDU_RETRIES
         THEN [sl EXCEPT !.retry = @ + 1, !.timer = APDU_TIMEOUT]
    ELSE [sl EXCEPT !.state = "FAILED"]

(* timer_milliseconds(1000) on the table, the ids it resends and their     *)
(* stored APDUs.                                                           *)
TimerMilliseconds(s) == [k \in InvokeIds |-> TimerSlot(s[k])]
Resent(s) ==
    {k \in InvokeIds : /\ s[k].state = "AWAIT_CONFIRMATION"
                       /\ s[k].timer <= 1
                       /\ s[k].retry < APDU_RETRIES}
ResentApdus(s) == {s[k].apdu : k \in Resent(s)}

(* A Simple-Ack (or Complex-Ack) correlated by invoke id completes a       *)
(* waiting slot; a response for any other slot is dropped.                 *)
AckReceived(s, id) ==
    IF s[id].state = "AWAIT_CONFIRMATION"
    THEN [s EXCEPT ![id].state = "COMPLETED"] ELSE s

(* Error, Reject and Abort are terminal for a waiting slot.                *)
RefusalReceived(s, id) ==
    IF s[id].state = "AWAIT_CONFIRMATION"
    THEN [s EXCEPT ![id].state = "FAILED"] ELSE s

(* invoke_id_free and invoke_id_failed, and the releases that follow them: *)
(* observing a completed slot frees it; free_invoke_id frees any slot.     *)
(* 0 is never handed out, so no transaction is pending under it.           *)
InvokeIdFree(s, id) == id \in InvokeIds /\ s[id].state = "COMPLETED"
InvokeIdFailed(s, id) == id \in InvokeIds /\ s[id].state = "FAILED"
FreeInvokeId(s, id) == [s EXCEPT ![id] = IdleSlot]

SlotsOK(s) ==
    \A k \in InvokeIds :
        /\ s[k].state \in SlotStates
        /\ s[k].retry \in 0 .. APDU_RETRIES
        /\ s[k].timer \in 0 .. APDU_TIMEOUT
        /\ (s[k].state = "IDLE") = (s[k].apdu = NoApdu)

=============================================================================
