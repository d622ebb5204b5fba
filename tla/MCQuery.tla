------------------------------ MODULE MCQuery ------------------------------
(* Day 10 is the first of a month; the daemon saves a row between the first *)
(* database and the second, and eth1 is removed for the third.              *)
EXTENDS Query

Row5(i, at, rx, tx) == [iface |-> i, table |-> "fiveminute", at |-> at, rx |-> rx, tx |-> tx]
At(table, i, at, rx, tx) == [iface |-> i, table |-> table, at |-> at, rx |-> rx, tx |-> tx]

Samples == {Row5("eth0", 1000 + 5 * n, 300 * ((7 * n) % 13), 600 * ((5 * n) % 11)) : n \in 1 .. 11}

Eth0 ==
    Samples \cup {Row5("eth0", 990, 90000, 90000),
     At("hour", "eth0", 1101, 5, 4), At("hour", "eth0", 1102, 9, 1), At("hour", "eth0", 1150, 3, 9),
     At("day", "eth0", 900, 7, 7), At("day", "eth0", 1000, 20, 10), At("day", "eth0", 1100, 10, 10),
     At("month", "eth0", 500, 7, 7), At("month", "eth0", 1000, 30, 20),
     At("year", "eth0", 100, 37, 27),
     At("top", "eth0", 900, 7, 7), At("top", "eth0", 1000, 20, 10)}

Eth1 ==
    {Row5("eth1", 1005, 3000, 0), Row5("eth1", 1012, 600, 600),
     At("hour", "eth1", 1102, 2, 2), At("day", "eth1", 900, 20, 20), At("day", "eth1", 1100, 2, 0),
     At("month", "eth1", 1000, 2, 0), At("top", "eth1", 900, 20, 20)}

Period(elapsed, length, offset) ==
    [kind |-> "day", elapsed |-> elapsed, length |-> length, offset |-> offset]

PeriodsAt(elapsed) ==
    [t \in {"hour", "day", "month", "year"} |->
        CASE t = "hour" -> [Period(elapsed - 4, 3, 0) EXCEPT !.kind = t]
          [] t = "day" -> [Period(elapsed, 9, 0) EXCEPT !.kind = t]
          [] t = "month" -> [Period(elapsed + 2, 20, 3) EXCEPT !.kind = t]
          [] t = "year" -> [Period(elapsed + 30, 100, 31) EXCEPT !.kind = t]]

MCDatabases ==
    <<[ifaces |-> {"eth0", "eth1"}, busiest |-> <<"eth0", "eth1">>,
       alias |-> [eth0 |-> "Lan", eth1 |-> "Lan2"], rows |-> Eth0 \cup Eth1,
       nodata |-> {}, today |-> 11, period |-> PeriodsAt(4)],
      [ifaces |-> {"eth0", "eth1"}, busiest |-> <<"eth1", "eth0">>,
       alias |-> [eth0 |-> "Lan", eth1 |-> "Lan2"],
       rows |-> Eth0 \cup Eth1 \cup {Row5("eth0", 1105, 300, 900), At("day", "eth0", 1200, 6, 3)},
       nodata |-> {{"eth1"}}, today |-> 12, period |-> PeriodsAt(5)],
      [ifaces |-> {"eth0"}, busiest |-> <<"eth0">>, alias |-> [eth0 |-> "Lan"],
       rows |-> Eth0, nodata |-> {}, today |-> 12, period |-> PeriodsAt(5)],
      [ifaces |-> {}, busiest |-> <<>>, alias |-> [eth0 |-> ""], rows |-> {},
       nodata |-> {}, today |-> 12, period |-> PeriodsAt(5)]>>

MCMatches == <<{<<"Lan", "Lan">>}, {<<"lan", "Lan">>, <<"Lan", "Lan">>},
               {<<"lan", "Lan">>, <<"lan", "Lan2">>, <<"la", "Lan">>, <<"la", "Lan2">>}>>

Alert(output, exit, type, condition, limit) ==
    [opt |-> "alert", alert |-> [output |-> output, exit |-> exit, type |-> type,
                                 condition |-> condition, limit |-> limit]]

Alerts ==
    {Alert(3, 3, "day", "rx", 10), Alert(1, 3, "day", "total", 19), Alert(0, 5, "hour", "tx", 9),
     Alert(2, 2, "day", "total", 40), Alert(2, 4, "month", "rx", 60), Alert(3, 3, "month", "total_estimate", 90),
     Alert(1, 4, "hour", "total", 11), Alert(1, 4, "percentile", "total", 20), Alert(3, 5, "percentile", "rx", 10),
     Alert(1, 0, "day", "tx", 5), Alert(1, 1, "day", "tx", 5), Alert(0, 4, "year", "total", 70), Alert(0, 0, "day", "tx", 5)}

Iface(names) == [opt |-> "iface", names |-> names]
List(mode, limit) == [opt |-> "list", mode |-> mode, limit |-> limit]
Plain(mode) == [opt |-> "plain", mode |-> mode]
Dump(opt, dump, limit) == [opt |-> opt, dump |-> dump, limit |-> limit]
Bare(opt) == [opt |-> opt]
Begin(date) == [opt |-> "begin", date |-> date]
End(date) == [opt |-> "end", date |-> date]
Limit(n) == [opt |-> "limit", limit |-> n]
Query0(mode) == [opt |-> "query", mode |-> mode]

Ifaces == {Iface(<<>>), Iface(<<"eth1">>), Iface(<<"la">>), Iface(<<"eth0", "eth1">>)}

Shows ==
    {List("day", 2), List("day", NoLimit), List("top", NoLimit), List("fiveminute", 0), List("hour", 1),
     Plain("short"), Plain("oneline"), Plain("hoursgraph"), Plain("95th"), Query0(""), Query0("all"),
     Dump("xml", "s", NoLimit), Dump("xml", "p", NoLimit), Dump("json", "", NoLimit), Dump("json", "day", 1)}

Ranges == {Limit(1), Begin(1000), Begin(Today), End(1101), End(1000), End(Today)}

Others == {Bare("traffic"), Bare("live"), Bare("change"), Bare("setalias"), Bare("merge"),
           Bare("info"), Bare("invalid"), Iface(<<"eth0", "eth0">>), Iface(<<"wlan0">>)}

Ordered == {List("day", 2), List("day", NoLimit), List("top", NoLimit), List("fiveminute", 0),
            List("hour", 1), Dump("json", "day", 1)}

MCCommandLines ==
    {<<>>} \cup {<<a>> : a \in Shows \cup Ranges \cup Alerts \cup Others}
    \cup {<<a, b>> : a \in Ifaces, b \in Shows \cup Alerts \cup Others}
    \cup {<<a, b>> : a \in Others, b \in Ordered \cup Others}
    \cup {<<a, b>> : a \in Shows, b \in {List("day", NoLimit), Plain("95th"), Query0("")}}
    \cup {<<[opt |-> "config", iface |-> <<"eth1">>]>> \o a :
            a \in {<<>>, <<Iface(<<>>)>>, <<Bare("traffic")>>, <<Plain("95th")>>, <<Alert(0, 5, "hour", "tx", 9)>>}}
    \cup {<<Dump("xml", "s", NoLimit), Dump("json", "", NoLimit)>>}
    \cup {<<a, b>> : a \in Ordered, b \in Ranges}
    \cup {<<a, b, c>> : a \in {Begin(1000), Begin(Today)}, b \in Ordered,
                       c \in {End(1101), End(1000), End(Today), Limit(1)}}
    \cup {<<a, b>> \o c : a \in Ifaces, b \in Ordered,
          c \in {<<Begin(1000), End(1101)>>, <<List("day", 1), Limit(2)>>, <<Iface(<<>>)>>}}
    \cup {<<a, b, c>> : a \in Alerts, b \in Ifaces, c \in {Bare("traffic"), Bare("change"), Dump("json", "", 1)}}

MCListLimits == [l \in Lists \cup {"dump"} |->
    CASE l = "fiveminute" -> 4 [] l = "hour" -> 2 [] l = "day" -> 3 [] l = "month" -> 1
      [] l = "year" -> 0 [] l = "top" -> 2 [] l = "dump" -> 0]

MCGarbage == {PeriodsAt(40), [t \in Estimated |-> NoPeriod]}
MCChanges == {<<1, 2>>, <<2, 3>>}
MCNames == {"default", "eth0", "eth1", "la", "wlan0"}
NoIface == <<>>
=============================================================================
