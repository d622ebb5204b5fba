----------------------------- MODULE MCCommand -----------------------------
(* Two processes, two interfaces, and a source database of one of them,    *)
(* which has an alias and is older than any row of the destination.  What  *)
(* was not read looks younger, updated later, and as if it had traffic.    *)
EXTENDS Command, TLC

MCTables == {"day", "top"}
MCTimes == {2}

MCRow(n, a, created, updated, total) ==
    [name |-> n, alias |-> a, created |-> created, updated |-> updated,
     counter |-> updated, total |-> total, data |-> [t \in MCTables |-> total]]

MCSymmetry == Permutations(Proc)

MCSource == "eth0" :> MCRow("eth0", "wan", 0, 1, 1)

MCGarbage == {[MCRow("eth0", "none", 3, 4, 2) EXCEPT !.counter = 5]}
=============================================================================
