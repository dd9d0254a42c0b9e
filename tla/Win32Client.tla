---------------------------- MODULE Win32Client -----------------------------
(***************************************************************************)
(* The win32 demo client (ports/win32/main.c): a single-threaded loop     *)
(* that takes at most one PDU from BACnet/IP, dispatches it, and then     *)
(* either answers a pending Who-Is with an I-Am, sends a pending Who-Is,  *)
(* or takes one step of Read_Properties, which sweeps the address cache   *)
(* and reads the Device object's properties of every bound device, one   *)
(* ReadProperty request per loop.  Devices bind themselves with I-Am      *)
(* (LocalIAmHandler); requests go through the TSM.                        *)
(*                                                                         *)
(* The remote devices are the environment: they announce themselves with *)
(* I-Am, may broadcast a Who-Is, and answer a ReadProperty request with a *)
(* Complex-Ack, or never (UDP loses it, the device is gone).              *)
(***************************************************************************)
EXTENDS Naturals, Sequences, FiniteSets, Tsm, AddressCache

CONSTANTS
    NumProps,      \* entries of object_props[] before its -1 terminator
    NoRequest,     \* lastRequest of a loop that sent no ReadProperty
    MaxIAms,       \* I-Am announcements the devices make in a behaviour
    MaxWhoIs       \* Who-Is broadcasts other nodes make in a behaviour

ASSUME NumProps \in Nat \ {0}

Props == 0 .. NumProps - 1

VARIABLES
    cache,          \* the address binding table
    index,          \* Read_Properties: static unsigned index
    property,       \* Read_Properties: static unsigned property
    I_Am_Request,   \* set by WhoIsHandler, cleared by the loop
    Who_Is_Request,
    tsm, nextInvokeId,
    net,            \* PDUs in flight, both ways
    iAms, whoIs,    \* announcements made so far (bounded)
    lastRequest     \* <<device, property>> this loop step sent, or NoRequest

vars == <<cache, index, property, I_Am_Request, Who_Is_Request, tsm,
          nextInvokeId, net, iAms, whoIs, lastRequest>>

IAmPdu(d) == [kind |-> "IAM", dev |-> d]
WhoIsPdu == [kind |-> "WHOIS"]
RpPdu(d, p, id) == [kind |-> "RP", dev |-> d, prop |-> p, id |-> id]
AckPdu(id) == [kind |-> "ACK", id |-> id]

Pdus == {IAmPdu(d) : d \in Devices} \cup {WhoIsPdu}
        \cup {RpPdu(d, p, id) : d \in Devices, p \in Props, id \in InvokeIds}
        \cup {AckPdu(id) : id \in InvokeIds}

(* The PDUs the client itself receives (bip_receive).                      *)
Incoming == {m \in net : m.kind \in {"IAM", "WHOIS", "ACK"}}

TypeOK ==
    /\ CacheOK(cache)
    /\ index \in Slots
    /\ property \in 0 .. NumProps
    /\ I_Am_Request \in BOOLEAN /\ Who_Is_Request \in BOOLEAN
    /\ SlotsOK(tsm) /\ nextInvokeId \in InvokeIds
    /\ net \subseteq Pdus
    /\ iAms \in 0 .. MaxIAms /\ whoIs \in 0 .. MaxWhoIs
    /\ lastRequest \in (Devices \X Props) \cup {NoRequest}

(* The globals start as the handler files initialise them (not in src/):  *)
(* either flag may be set at start-up.                                     *)
Init ==
    /\ cache = EmptyCache
    /\ index = 0 /\ property = 0
    /\ I_Am_Request \in BOOLEAN /\ Who_Is_Request \in BOOLEAN
    /\ tsm = TsmInitSlots /\ nextInvokeId = 1
    /\ net = {}
    /\ iAms = 0 /\ whoIs = 0
    /\ lastRequest = NoRequest

(* Send_Read_Property_Request (s_rp.c, not in src/): the device must be   *)
(* bound and a TSM slot free; the request is stored and sent, else        *)
(* nothing happens and 0 is returned.  Nobody in main.c looks at the      *)
(* result, nor ever frees the slot or ticks the TSM.                       *)
SendReadPropertyRequest(c, t, n, d, p) ==
    LET id == NextFreeInvokeId(t, nextInvokeId) IN
    IF d \in BoundDevices(c) /\ id # 0
    THEN /\ tsm' = SetConfirmedTransaction(t, id, RpPdu(d, p, id))
         /\ nextInvokeId' = NextRotation(id)
         /\ net' = n \cup {RpPdu(d, p, id)}
         /\ lastRequest' = <<d, p>>
    ELSE /\ tsm' = t /\ net' = n /\ lastRequest' = NoRequest
         /\ UNCHANGED nextInvokeId

(* Mutant of NextDevice: the wrap test is off by one.                      *)
NextDevice_WrapsLate ==
    /\ index' = IF index + 1 > MAX_ADDRESS_CACHE THEN 0 ELSE index + 1
    /\ property' = 0

(* next_device: on to the next slot, wrapping at MAX_ADDRESS_CACHE, and   *)
(* the first property.                                                     *)
NextDevice ==
    /\ index' = IF index + 1 >= MAX_ADDRESS_CACHE THEN 0 ELSE index + 1
    /\ property' = 0

(* Mutant of ReadProperties: an unbound slot does not move the sweep on.  *)
ReadProperties_StaysOnFreeSlot(c, t, n) ==
    \/ /\ AddressCount(c) = 0 \/ GetByIndex(c, index) = NoDevice
       /\ UNCHANGED <<index, property, nextInvokeId>>
       /\ tsm' = t /\ net' = n /\ lastRequest' = NoRequest
    \/ /\ AddressCount(c) > 0 /\ GetByIndex(c, index) # NoDevice
       /\ property < NumProps
       /\ SendReadPropertyRequest(c, t, n, GetByIndex(c, index), property)
       /\ property' = property + 1 /\ UNCHANGED index
    \/ /\ AddressCount(c) > 0 /\ GetByIndex(c, index) # NoDevice
       /\ property = NumProps
       /\ NextDevice
       /\ tsm' = t /\ net' = n /\ lastRequest' = NoRequest
       /\ UNCHANGED nextInvokeId

(* Read_Properties: with some device bound, read the next property of the *)
(* device in slot index; past the last property, or at a free slot, move  *)
(* on.  property is advanced whether or not the request went out.          *)
ReadProperties(c, t, n) ==
    \/ /\ AddressCount(c) = 0
       /\ UNCHANGED <<index, property, nextInvokeId>>
       /\ tsm' = t /\ net' = n /\ lastRequest' = NoRequest
    \/ /\ AddressCount(c) > 0 /\ GetByIndex(c, index) # NoDevice
       /\ property < NumProps
       /\ SendReadPropertyRequest(c, t, n, GetByIndex(c, index), property)
       /\ property' = property + 1 /\ UNCHANGED index
    \/ /\ AddressCount(c) > 0
       /\ GetByIndex(c, index) = NoDevice \/ property = NumProps
       /\ NextDevice
       /\ tsm' = t /\ net' = n /\ lastRequest' = NoRequest
       /\ UNCHANGED nextInvokeId

(* The tail of one loop iteration, after npdu_handler left the table, the *)
(* flags, the TSM and the network as c, iam, who, t, n: a pending I-Am     *)
(* answer first, then a pending Who-Is (both unconfirmed broadcasts that   *)
(* change no client state), else a Read_Properties step.                   *)
Dispatch(c, iam, who, t, n) ==
    /\ cache' = c
    /\ \/ /\ iam
          /\ I_Am_Request' = FALSE /\ Who_Is_Request' = who
          /\ tsm' = t /\ net' = n /\ lastRequest' = NoRequest
          /\ UNCHANGED <<index, property, nextInvokeId>>
       \/ /\ ~iam /\ who
          /\ I_Am_Request' = FALSE /\ Who_Is_Request' = FALSE
          /\ tsm' = t /\ net' = n /\ lastRequest' = NoRequest
          /\ UNCHANGED <<index, property, nextInvokeId>>
       \/ /\ ~iam /\ ~who
          /\ I_Am_Request' = FALSE /\ Who_Is_Request' = FALSE
          /\ ReadProperties(c, t, n)

(* bip_receive timed out (100 ms): nothing to dispatch.                    *)
LoopTimeout ==
    /\ Dispatch(cache, I_Am_Request, Who_Is_Request, tsm, net)
    /\ UNCHANGED <<iAms, whoIs>>

(* An I-Am: LocalIAmHandler decodes it and calls address_add.             *)
LoopIAm(d) ==
    /\ IAmPdu(d) \in net
    /\ Dispatch(AddressAdd(cache, d), I_Am_Request, Who_Is_Request, tsm,
                net \ {IAmPdu(d)})
    /\ UNCHANGED <<iAms, whoIs>>

(* A Who-Is: WhoIsHandler (h_whois.c, not in src/) sets I_Am_Request when *)
(* this device is in the requested range.                                  *)
LoopWhoIs ==
    /\ WhoIsPdu \in net
    /\ \E inRange \in BOOLEAN :
         Dispatch(cache, I_Am_Request \/ inRange, Who_Is_Request, tsm,
                  net \ {WhoIsPdu})
    /\ UNCHANGED <<iAms, whoIs>>

(* A Complex-Ack: the TSM correlates it by invoke id, then the registered *)
(* ReadPropertyAckHandler prints it.                                       *)
LoopAck(id) ==
    /\ AckPdu(id) \in net
    /\ Dispatch(cache, I_Am_Request, Who_Is_Request, AckReceived(tsm, id),
                net \ {AckPdu(id)})
    /\ UNCHANGED <<iAms, whoIs>>

Loop ==
    \/ LoopTimeout
    \/ \E d \in Devices : LoopIAm(d)
    \/ LoopWhoIs
    \/ \E id \in InvokeIds : LoopAck(id)

(* Environment: a device announces itself.                                 *)
DeviceIAm(d) ==
    /\ iAms < MaxIAms
    /\ net' = net \cup {IAmPdu(d)}
    /\ iAms' = iAms + 1
    /\ UNCHANGED <<cache, index, property, I_Am_Request, Who_Is_Request,
                   tsm, nextInvokeId, whoIs>>
    /\ lastRequest' = NoRequest

(* Environment: another node looks for devices.                            *)
OtherWhoIs ==
    /\ whoIs < MaxWhoIs
    /\ net' = net \cup {WhoIsPdu}
    /\ whoIs' = whoIs + 1
    /\ UNCHANGED <<cache, index, property, I_Am_Request, Who_Is_Request,
                   tsm, nextInvokeId, iAms>>
    /\ lastRequest' = NoRequest

(* Environment: the device answers a ReadProperty with a Complex-Ack.      *)
DeviceAnswers(m) ==
    /\ m \in net /\ m.kind = "RP"
    /\ net' = (net \ {m}) \cup {AckPdu(m.id)}
    /\ UNCHANGED <<cache, index, property, I_Am_Request, Who_Is_Request,
                   tsm, nextInvokeId, iAms, whoIs>>
    /\ lastRequest' = NoRequest

Next ==
    \/ Loop
    \/ \E d \in Devices : DeviceIAm(d)
    \/ OtherWhoIs
    \/ \E m \in net : DeviceAnswers(m)

(* The loop runs for as long as the program does; the devices are not     *)
(* obliged to answer.                                                      *)
Spec == Init /\ [][Next]_vars /\ WF_vars(Loop)

-----------------------------------------------------------------------------
(* Once some device is bound, Read_Properties visits every slot of the    *)
(* cache again and again: neither a free slot, nor failed sends, nor the   *)
(* Who-Is and I-Am traffic that pre-empts it stops the sweep.              *)
SweepVisitsEverySlot ==
    <>(AddressCount(cache) > 0) => \A i \in Slots : []<>(index = i)

(* A device that stays bound has each of its properties read again and     *)
(* again: the loop sweeps the cache for ever, so every request recurs.     *)
EveryPropertyReread ==
    \A d \in Devices, p \in Props :
        <>[](d \in BoundDevices(cache)) => []<>(lastRequest = <<d, p>>)

=============================================================================
