--------------------------- MODULE InterfaceTable ---------------------------
(***************************************************************************)
(* What the users of a database may rely on while the daemon, --add,       *)
(* --remove, --rename, --setalias and --merge work on it at the same time: *)
(* each change is about one interface and is made in one step, names stay  *)
(* unique, only a removal takes traffic away, and an interface is known    *)
(* into which something was merged in part.                                *)
(***************************************************************************)
EXTENDS Integers

CONSTANTS
    Name,      \* names of interfaces
    Alias,     \* aliases an interface may have
    NoAlias,   \* one of them, that of a new interface
    Tables,    \* tables that hold traffic
    Amount     \* what may be added at a time

VARIABLE table   \* name -> [alias, traffic, flawed], for the interfaces there are

Names == DOMAIN table

Empty == [alias |-> NoAlias, traffic |-> [t \in Tables |-> 0], flawed |-> FALSE]

Init == table = [n \in {} |-> Empty]

Add(n) ==
    /\ n \notin Names
    /\ table' = [m \in Names \cup {n} |-> IF m = n THEN Empty ELSE table[m]]

Remove(n) ==
    /\ n \in Names
    /\ table' = [m \in Names \ {n} |-> table[m]]

Rename(n, new) ==
    /\ n \in Names
    /\ new \notin Names
    /\ table' = [m \in (Names \ {n}) \cup {new} |->
                    IF m = new THEN table[n] ELSE table[m]]

SetAlias(n, a) ==
    /\ n \in Names
    /\ table' = [table EXCEPT ![n].alias = a]

(* A merge may bring an alias along; it is m that gets it, the interface   *)
(* that has the name now, if n was renamed since the merge found it.       *)
Gained(n, m, gained, a, spoilt) ==
    /\ {n, m} \subseteq Names
    /\ table' = [k \in Names |->
          [alias   |-> IF k = m THEN a ELSE table[k].alias,
           traffic |-> [t \in Tables |->
               table[k].traffic[t] + IF k = n THEN gained[t] ELSE 0],
           flawed  |-> table[k].flawed \/ k \in spoilt]]

(* Traffic that was counted or merged goes to every table of an interface. *)
Gain(n, m, amount, a) == Gained(n, m, [t \in Tables |-> amount], a, {})

(* A merge that was not whole.                                             *)
GainInPart(n, m, gained, a) == Gained(n, m, gained, a, {n, m})

(* What changes nothing, as --setalias with the alias there is, is no step. *)
Next ==
    /\ table' # table
    /\ \E n, m \in Name :
          \/ Add(n)
          \/ Remove(n)
          \/ Rename(n, m)
          \/ \E a \in Alias :
                \/ SetAlias(n, a)
                \/ \E amount \in Amount :
                      \/ Gain(n, m, amount, a)
                      \/ \E gained \in [Tables -> 0 .. amount] :
                            GainInPart(n, m, gained, a)

Spec == Init /\ [][Next]_table
=============================================================================
