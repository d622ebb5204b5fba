------------------------------- MODULE MCData -------------------------------
EXTENDS Data

CONSTANT a

(* Everything is kept for two hours, two days or a month, and one day is   *)
(* the largest; a second configuration has no hours and no top days.       *)
Kept == [t \in Table |-> CASE t = "fiveminute" -> 2
                           [] t = "hour"       -> 1
                           [] t = "day"        -> 2
                           [] t = "year"       -> -1
                           [] OTHER            -> 1]
Both == {[limit |-> limit, monthrotate |-> 2, monthrotateyears |-> FALSE,
          trafficless |-> TRUE] :
            limit \in {Kept, [Kept EXCEPT !["hour"] = 0, !["top"] = 0]}}
=============================================================================
