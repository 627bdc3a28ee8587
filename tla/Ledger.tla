-------------------------------- MODULE Ledger --------------------------------
(***************************************************************************)
(* What the analytics table promises, whoever writes it: no row is lost, a *)
(* row that a request has dated is not dated back, and the date of any     *)
(* other row changes only because of a request.                            *)
(***************************************************************************)
CONSTANT Keys
VARIABLE table

Init == table = [k \in Keys |-> "absent"]

Migrated(k, date) ==
    /\ table[k] = "absent"
    /\ table' = [table EXCEPT ![k] = date]

Seen(k) == table' = [table EXCEPT ![k] = "seen"]

Next == \E k \in Keys : Seen(k) \/ \E date \in {"old", "guess"} : Migrated(k, date)

Spec == Init /\ [][Next]_table
=============================================================================
