----------------------------- MODULE BoundedLog -----------------------------
(***************************************************************************)
(* What a Trend Log buffer promises (135-2008 12.25.14-16): it holds the   *)
(* most recent records, oldest first, at most Capacity of them; a purge    *)
(* empties it and starts it again with the purge record; the total record  *)
(* count goes up by one for every record ever added.                       *)
(***************************************************************************)
EXTENDS Naturals, Sequences

CONSTANTS Capacity, Records, InitLog, InitTotal

ASSUME /\ Capacity \in Nat \ {0}
       /\ InitLog \in Seq(Records) /\ Len(InitLog) <= Capacity
       /\ InitTotal \in Nat

VARIABLES log, total

Init == log = InitLog /\ total = InitTotal

(* A record is added at the end; when the buffer is full the oldest one    *)
(* is dropped.                                                             *)
Add(r) ==
    /\ log' = IF Len(log) = Capacity THEN Append(Tail(log), r)
                                     ELSE Append(log, r)
    /\ total' = total + 1

(* The buffer is emptied and restarts with one record.                     *)
Restart(r) ==
    /\ log' = <<r>>
    /\ total' = total + 1

Next == \E r \in Records : Add(r) \/ Restart(r)

Spec == Init /\ [][Next]_<<log, total>>

=============================================================================
