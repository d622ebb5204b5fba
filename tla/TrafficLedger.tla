--------------------------- MODULE TrafficLedger ---------------------------
(***************************************************************************)
(* What the daemon promises about the traffic it has counted: per          *)
(* interface an amount is pending in memory and an amount is stored, and a *)
(* save moves what is pending to what is stored, of all interfaces in one  *)
(* step.  A save that fails changes nothing, so that no traffic is stored  *)
(* twice however often it is tried again.                                  *)
(***************************************************************************)
EXTENDS Integers

CONSTANTS
    Iface,     \* names of interfaces
    Amount     \* what may be counted at a time

VARIABLES
    known,     \* interfaces that have a row
    stored,    \* traffic in the row
    pending    \* traffic counted since the last save

ledgervars == <<known, stored, pending>>

Init ==
    /\ known = {}
    /\ stored = [i \in Iface |-> 0]
    /\ pending = [i \in Iface |-> 0]

Count(i) ==
    /\ \E amount \in Amount : pending' = [pending EXCEPT ![i] = @ + amount]
    /\ UNCHANGED <<known, stored>>

(* Only traffic of interfaces without a row is not stored. *)
Save ==
    /\ stored' = [i \in Iface |-> IF i \in known THEN stored[i] + pending[i]
                                                 ELSE stored[i]]
    /\ pending' = [i \in Iface |-> 0]
    /\ UNCHANGED known

(* A save that removes an interface without any traffic.  It stores what   *)
(* is pending of some interfaces only, and the rest is lost.               *)
SaveAndRemove(empty) ==
    /\ empty \in known
    /\ stored[empty] = 0 /\ pending[empty] = 0
    /\ known' = known \ {empty}
    /\ \E S \in SUBSET known' :
          stored' = [i \in Iface |-> IF i \in S THEN stored[i] + pending[i]
                                                ELSE stored[i]]
    /\ pending' = [i \in Iface |-> 0]

(* The process ends, its cache is dropped, or an interface is no longer    *)
(* monitored.                                                              *)
Forget(S) ==
    /\ pending' = [i \in Iface |-> IF i \in S THEN 0 ELSE pending[i]]
    /\ UNCHANGED <<known, stored>>

Register(S) ==
    /\ known' = known \cup S
    /\ stored' = [i \in Iface |-> IF i \in S THEN 0 ELSE stored[i]]
    /\ UNCHANGED pending

Unregister(i) ==
    /\ known' = known \ {i}
    /\ stored' = [stored EXCEPT ![i] = 0]
    /\ UNCHANGED pending

Next ==
    \/ \E i \in Iface : Count(i) \/ SaveAndRemove(i) \/ Unregister(i)
    \/ Save
    \/ \E S \in SUBSET Iface : Forget(S) \/ Register(S)

Spec == Init /\ [][Next]_ledgervars
=============================================================================
