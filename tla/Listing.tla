------------------------------ MODULE Listing ------------------------------
(***************************************************************************)
(* What the vnstat command computes of the rows it reads: the rows of a    *)
(* range, the 95th percentile, and the estimate of what a period will      *)
(* become.                                                                 *)
(*                                                                         *)
(* Dates are numbers that are ordered as the texts in the database are:    *)
(* day d is 100 * d, and a moment of it one of the 98 numbers behind it.   *)
(* The tables fiveminute and hour hold moments, the others days.           *)
(***************************************************************************)
EXTENDS Integers, Sequences, FiniteSets, FiniteSetsExt, SequencesExt

NoDate == -1
Today == -2

IsMoment(date) == date % 100 # 0

(* The conditions of --begin and --end.  "today" is a date for --begin; for *)
(* --end it makes no date of SQLite's, and no row is found.                *)
Since(at, begin, today) ==
    CASE begin = NoDate -> TRUE
      [] begin = Today  -> at >= 100 * today
      [] OTHER          -> at >= begin

Until(at, end) ==
    CASE end = NoDate  -> TRUE
      [] end = Today   -> FALSE
      [] OTHER         -> at <= IF IsMoment(end) THEN end ELSE end + 99

SumOf(amounts, rows) == MapThenSumSet(LAMBDA r : amounts[r], rows)

(* "group by date": the rows of merged interfaces are added up. *)
PerDate(rows) ==
    {LET same == {r \in rows : r.at = date}
     IN  [at |-> date,
          rx |-> SumOf([r \in same |-> r.rx], same),
          tx |-> SumOf([r \in same |-> r.tx], same)] : date \in {r.at : r \in rows}}

Earlier(r, s) == r.at < s.at

(* The order of "top": larger first, and the earlier of equal ones. *)
Larger(r, s) ==
    \/ r.rx + r.tx > s.rx + s.tx
    \/ r.rx + r.tx = s.rx + s.tx /\ Earlier(r, s)

Least(a, b) == IF a < b THEN a ELSE b

FirstOf(seq, limit) == SubSeq(seq, 1, IF limit = 0 THEN Len(seq) ELSE Least(limit, Len(seq)))

LastOf(seq, limit) ==
    SubSeq(seq, IF limit = 0 \/ limit > Len(seq) THEN 1 ELSE Len(seq) - limit + 1, Len(seq))

(* The elements of a set by an order of which no two are equal. *)
InOrder(S, Before(_, _)) ==
    [n \in 1 .. Cardinality(S) |-> CHOOSE r \in S : Cardinality({s \in S : Before(s, r)}) = n - 1]

(* What one of the select statements finds. *)
Found(rows, ifaces, table, begin, end, today) ==
    LET source == IF table = "top" /\ begin # NoDate THEN "day" ELSE table
        of == {r \in rows : r.table = source /\ r.iface \in ifaces}
    IN  PerDate({r \in of : source = "top" \/ (Since(r.at, begin, today) /\ Until(r.at, end))})

(* Mutant of db_getdata_range: the newest are kept with --begin as well. *)
GetsNewest(rows, ifaces, table, limit, begin, end, today) ==
    LET found == Found(rows, ifaces, table, begin, end, today)
    IN  IF table = "top" THEN FirstOf(InOrder(found, Larger), limit)
        ELSE LastOf(InOrder(found, Earlier), limit)

(* The limit keeps the oldest rows if the list has a begin and the newest  *)
(* otherwise; a list with begin and end has no limit, unless it is "top".  *)
db_getdata_range(rows, ifaces, table, limit, begin, end, today) ==
    LET found == Found(rows, ifaces, table, begin, end, today)
        all == InOrder(found, Earlier)
    IN  CASE table = "top" -> FirstOf(InOrder(found, Larger), limit)
          [] table # "top" /\ begin # NoDate /\ end # NoDate -> all
          [] table # "top" /\ begin # NoDate /\ end = NoDate -> FirstOf(all, limit)
          [] OTHER -> LastOf(all, limit)
-----------------------------------------------------------------------------
(***************************************************************************)
(* The 95th percentile.                                                    *)
(***************************************************************************)
(* Mutant of lrint95: always up. *)
Ceil95(n) == (19 * n + 19) \div 20

(* lrint(n * 0.95): to the nearest, and to the even one of two. *)
lrint95(n) ==
    LET whole == (19 * n) \div 20
        rest == (19 * n) % 20
    IN  IF rest > 10 \/ (rest = 10 /\ whole % 2 = 1) THEN whole + 1 ELSE whole

(* The value that comes there when they are sorted. *)
AtPercentile(values) ==
    LET Before(m, n) == values[m] < values[n] \/ (values[m] = values[n] /\ m < n)
    IN  values[InOrder(DOMAIN values, Before)[lrint95(Len(values))]]

NoPercentile == [rx |-> -1, tx |-> -1, total |-> -1]

(* Of the samples of a month; each of the three by itself. *)
Percentile(samples) ==
    LET By(Value(_)) == AtPercentile([n \in DOMAIN samples |-> Value(samples[n])])
    IN  [rx    |-> By(LAMBDA r : r.rx),
         tx    |-> By(LAMBDA r : r.tx),
         total |-> By(LAMBDA r : r.rx + r.tx)]
-----------------------------------------------------------------------------
(***************************************************************************)
(* Estimates.  A period is the kind of time slot the row is of, how much   *)
(* of it has elapsed at the last update, how long it is, and how much of   *)
(* it the interface was not in the database.                               *)
(***************************************************************************)
getestimates(row, period) ==
    LET late == /\ period.kind \in {"day", "month", "year"}
                /\ period.elapsed > period.offset
                /\ period.length > period.offset
        known == IF late THEN period.elapsed - period.offset ELSE period.elapsed
        whole == IF late THEN period.length - period.offset ELSE period.length
    IN  CASE row.rx = 0 \/ row.tx = 0                   -> [rx |-> 0, tx |-> 0]
          [] row.rx > 0 /\ row.tx > 0 /\ known > 0      ->
                 [rx |-> (row.rx \div known) * whole, tx |-> (row.tx \div known) * whole]
          [] period.kind = "hour" /\ row.rx > 0 /\ row.tx > 0 /\ known = 0 ->
                 [rx |-> row.rx, tx |-> row.tx]
          [] OTHER -> [rx |-> 0, tx |-> 0]
=============================================================================
