---------------------------- MODULE AddressCache ----------------------------
(***************************************************************************)
(* The address binding table as the stack keeps it (spec.md 3.4 and 4.D; *)
(* address.c is not part of src/): MAX_ADDRESS_CACHE slots, each free or  *)
(* holding one device, and the slots in the order their devices were      *)
(* bound, which add uses to find the oldest entry to evict.  As with the  *)
(* TSM, the operations are operators on the table that the caller's       *)
(* actions apply.  Datalink address and max APDU are left out: no         *)
(* property of the callers tells two addresses of one device apart.       *)
(***************************************************************************)
EXTENDS Naturals, Sequences, FiniteSets

CONSTANTS
    Devices,            \* device instances that may announce themselves
    NoDevice,           \* a free slot
    MAX_ADDRESS_CACHE

ASSUME /\ MAX_ADDRESS_CACHE \in Nat \ {0}
       /\ NoDevice \notin Devices

Slots == 0 .. MAX_ADDRESS_CACHE - 1

EmptyCache == [slot |-> [i \in Slots |-> NoDevice], order |-> <<>>]

FreeSlots(c) == {i \in Slots : c.slot[i] = NoDevice}

BoundDevices(c) == {c.slot[i] : i \in Slots \ FreeSlots(c)}

(* address_count(): the number of valid entries.                           *)
AddressCount(c) == MAX_ADDRESS_CACHE - Cardinality(FreeSlots(c))

(* address_get_by_index(i): the device in slot i, NoDevice if it is free   *)
(* or i is past the table.                                                 *)
GetByIndex(c, i) == IF i \in Slots THEN c.slot[i] ELSE NoDevice

(* address_add(device_id, ...): a bound device keeps its slot; otherwise   *)
(* the first free slot, or, when none is free, the slot of the oldest      *)
(* entry, which becomes the newest.                                        *)
AddressAdd(c, d) ==
    CASE d \in BoundDevices(c) -> c
      [] FreeSlots(c) # {} ->
           LET i == CHOOSE i \in FreeSlots(c) : \A j \in FreeSlots(c) : i <= j
           IN [slot |-> [c.slot EXCEPT ![i] = d], order |-> Append(c.order, i)]
      [] OTHER ->
           LET i == Head(c.order)
           IN [slot |-> [c.slot EXCEPT ![i] = d],
               order |-> Append(Tail(c.order), i)]

CacheOK(c) ==
    /\ c.slot \in [Slots -> Devices \cup {NoDevice}]
    /\ c.order \in Seq(Slots)

=============================================================================
