------------------------------- MODULE Query -------------------------------
(***************************************************************************)
(* The vnstat command where it reads: its options, the selection of an     *)
(* interface, the lists and dumps it shows, the 95th percentile and        *)
(* --alert, whose answer is the exit status.                               *)
(*                                                                         *)
(* Every statement is a step of its own, and the daemon or another command *)
(* may change the database in between: the database is one of a few, and   *)
(* db says which.  Where the command changes a database is module Command. *)
(*                                                                         *)
(* An argument is a record: the option, and what was given with it.  The   *)
(* name of an interface may be that of an alias, and a merge eth0+eth1 is  *)
(* a sequence of names.                                                    *)
(***************************************************************************)
EXTENDS Listing

CONSTANTS
    Names,            \* of interfaces, and words given as such
    CommandLines,     \* the sequences of arguments that may be given
    Databases,        \* what the database may hold: a sequence of records
    Changes,          \* pairs of them another process may change it between
    cfgiface,         \* Interface, as a sequence of names
    QueryMode,        \* QueryMode
    ListLimits,       \* ListFiveMins and so on, and ListJsonXml as "dump"
    EstimateVisible,  \* EstimateVisible
    MatchMethod,      \* InterfaceMatchMethod
    Matches,          \* method -> pairs of a name given and an alias it fits
    Available,        \* interfaces of the system
    Garbage,          \* periods as an interfaceinfo that nobody has set gives them
    MaxSamples        \* how many five minutes a month has at most: 8928

NoLimit == -1

Lists == {"fiveminute", "hour", "day", "month", "year", "top"}

Modes == Lists \cup {"all", "summary", "short", "hoursgraph", "oneline", "95th", "xml", "json"}

Dumps == Lists \cup {"a", "s", "p"}

AlertTypes == {"hour", "day", "month", "year", "percentile"}

(* Those that have a row and an estimate.  Times that cannot be read give  *)
(* no period at all.                                                       *)
Estimated == AlertTypes \ {"percentile"}

Periods == [kind : Estimated \cup {"none"}, elapsed : Nat, length : Nat, offset : Nat]

NoPeriod == [kind |-> "none", elapsed |-> 0, length |-> 0, offset |-> 0]

Conditions == {"rx", "tx", "total", "rx_estimate", "tx_estimate", "total_estimate"}

AlertRequests ==
    [output : Nat, exit : Nat, type : AlertTypes, condition : Conditions, limit : Nat]

(* What an argument is when its words are known ones: others are "invalid". *)
Arguments ==
         [opt : {"iface"}, names : Seq(Names)]
    \cup [opt : {"config"}, iface : Seq(Names)]
    \cup [opt : {"query"}, mode : Modes \cup {""}]
    \cup [opt : {"list"}, mode : Lists, limit : Nat \cup {NoLimit}]
    \cup [opt : {"plain"}, mode : Modes \ {"xml", "json"}]
    \cup [opt : {"xml", "json"}, dump : Dumps \cup {""}, limit : Nat \cup {NoLimit}]
    \cup [opt : {"begin", "end"}, date : Nat \cup {Today}]
    \cup [opt : {"limit"}, limit : Nat]
    \cup [opt : {"alert"}, alert : AlertRequests]
    \cup [opt : {"traffic", "live", "change", "setalias", "merge", "info", "invalid"}]

Rows == [iface : Names, table : Lists, at : Nat, rx : Nat, tx : Nat]

ASSUME NamesAssumption == "default" \in Names
ASSUME CommandLinesAssumption == CommandLines \subseteq Seq(Arguments)
ASSUME SettingsAssumption ==
    /\ cfgiface \in Seq(Names) /\ QueryMode \in Modes
    /\ ListLimits \in [Lists \cup {"dump"} -> Nat] /\ MaxSamples \in Nat
    /\ EstimateVisible \in BOOLEAN /\ Available \subseteq Names
ASSUME DatabasesAssumption ==
    /\ Len(Databases) \in Nat /\ DOMAIN Databases = 1 .. Len(Databases)
    /\ \A d \in DOMAIN Databases :
          /\ IsFiniteSet(Databases[d].ifaces) /\ Databases[d].ifaces \subseteq Names
          /\ Databases[d].busiest \in Seq(Databases[d].ifaces)
          /\ IsFiniteSet(Databases[d].rows) /\ Databases[d].rows \subseteq Rows
          /\ Databases[d].today \in Nat
          /\ Databases[d].period \in [Estimated -> Periods]
          /\ \A t \in Estimated : Databases[d].period[t].kind = t
ASSUME GarbageAssumption == Garbage \subseteq [Estimated -> Periods]
ASSUME MatchAssumption == MatchMethod \in 0 .. 3
ASSUME ChangesAssumption == Changes \subseteq (DOMAIN Databases) \X (DOMAIN Databases)

VARIABLES
    argv,     \* the arguments
    currentarg, \* the one that is looked at
    p,        \* PARAMS and the settings the options change
    pc,       \* where the process is
    db,       \* the database, 0 if it could not be opened
    queue,    \* the interfaces of a query of all that are still to be shown
    todo,     \* what is still to be read of the interface
    info,     \* the times of interfaceinfo, as periods, and (history) if it was read
    out,      \* history: what was read
    verdict,  \* history: what --alert found
    status    \* the exit status

vars == <<argv, currentarg, p, pc, db, queue, todo, info, out, verdict, status>>

Running == -1
NoInfo == [read |-> FALSE, period |-> [t \in Estimated |-> NoPeriod]]
NoAlert == [output |-> 0, exit |-> 0, type |-> "", condition |-> "", limit |-> 0]
NoVerdict == [over |-> FALSE, estimate |-> FALSE, printed |-> FALSE, reached |-> FALSE]

Params == [iface : Seq(Names), definterface : Seq(Names), defaultiface : BOOLEAN,
           query : BOOLEAN, qmode : Modes, limit : Nat \cup {NoLimit},
           lists : [Lists \cup {"dump"} -> Nat], dump : [{"xml", "json"} -> Dumps],
           begin : Int, end : Int, alert : AlertRequests \cup {NoAlert}, traffic : BOOLEAN, changes : BOOLEAN,
           merge : BOOLEAN, dbifcount : Nat]

Places == {"args", "main", "count", "select", "handle", "validate",
           "info", "fetch", "alert", "next", "meter", "end"}

TypeOK ==
    /\ currentarg \in 1 .. Len(argv) + 1
    /\ p \in Params
    /\ pc \in Places
    /\ db \in 0 .. Len(Databases)
    /\ queue \subseteq UNION {Databases[d].ifaces : d \in DOMAIN Databases}
    /\ \A n \in DOMAIN todo : todo[n].table \in Lists /\ todo[n].limit \in Nat
    /\ info \in [read : BOOLEAN, period : [Estimated -> Periods]]
    /\ \A n \in DOMAIN out : out[n].from \in DOMAIN Databases /\ out[n].limit \in Nat
    /\ verdict \in [over : BOOLEAN, estimate : BOOLEAN, printed : BOOLEAN, reached : BOOLEAN]
    /\ status \in {Running, 0, 1, 2}
    /\ status # Running <=> pc = "end"

(* The last argument that is one of those, or none. *)
LastArg(Fits(_)) ==
    LET found == {n \in DOMAIN argv : Fits(argv[n])}
    IN  IF found = {} THEN [opt |-> ""] ELSE argv[Max(found)]

(* The settings are read before anything else, of the last --config given. *)
Configured ==
    LET file == LastArg(LAMBDA arg : arg.opt = "config")
    IN  IF file.opt = "" THEN cfgiface ELSE file.iface

initparams ==
    [iface |-> <<"default">>, definterface |-> Configured, defaultiface |-> TRUE,
     query |-> TRUE, qmode |-> QueryMode, limit |-> NoLimit, lists |-> ListLimits,
     dump |-> [d \in {"xml", "json"} |-> "a"], begin |-> NoDate, end |-> NoDate,
     alert |-> NoAlert, traffic |-> FALSE, changes |-> FALSE, merge |-> FALSE,
     dbifcount |-> 0]

Init ==
    /\ argv \in CommandLines
    /\ currentarg = 1
    /\ p = initparams
    /\ pc = "args"
    /\ db \in DOMAIN Databases
    /\ queue = {}
    /\ todo = <<>>
    /\ info = NoInfo
    /\ out = <<>>
    /\ verdict = NoVerdict
    /\ status = Running
-----------------------------------------------------------------------------
(***************************************************************************)
(* The options.                                                            *)
(***************************************************************************)
readvars == <<queue, todo, info, out, verdict>>

Goes(place) ==
    /\ pc' = place
    /\ UNCHANGED <<argv, currentarg, status>>

Exits(code) ==
    /\ pc' = "end"
    /\ status' = code
    /\ UNCHANGED <<argv, currentarg>>

Parses(params) ==
    /\ currentarg' = currentarg + 1
    /\ p' = params
    /\ UNCHANGED <<argv, pc, db, readvars, status>>

(* -i, or a name alone.  An empty one undoes the default. *)
ParsesIface(arg) ==
    /\ arg.opt = "iface"
    /\ Parses(IF arg.names = <<>>
                   THEN [p EXCEPT !.iface = <<>>, !.definterface = <<>>]
                   ELSE [p EXCEPT !.iface = arg.names, !.defaultiface = FALSE])

ParsesQuery(arg) ==
    /\ arg.opt = "query"
    /\ Parses([p EXCEPT !.query = TRUE, !.qmode = IF arg.mode = "" THEN @ ELSE arg.mode])

(* Mutant of WithLimit: a missing limit is used as one. *)
EvenMissing(list, arg) == arg.limit

(* -5, -h, -d, -m, -y and -t: a limit may follow. *)
WithLimit(list, arg) == IF arg.limit = NoLimit THEN list ELSE arg.limit

ParsesList(arg) ==
    /\ arg.opt = "list"
    /\ Parses([p EXCEPT !.qmode = arg.mode, !.lists[arg.mode] = WithLimit(@, arg)])

ParsesPlain(arg) ==
    /\ arg.opt = "plain"
    /\ Parses([p EXCEPT !.qmode = arg.mode])

(* --xml and --json: the mode s sets the limit to 2, a limit may follow.   *)
ParsesDump(arg) ==
    /\ arg.opt \in {"xml", "json"}
    /\ Parses([p EXCEPT !.qmode = arg.opt,
                             !.dump[arg.opt] = IF arg.dump = "" THEN @ ELSE arg.dump,
                             !.lists.dump = WithLimit(IF arg.dump = "s" THEN 2 ELSE @, arg)])

ParsesRange(arg) ==
    \/ arg.opt = "begin" /\ Parses([p EXCEPT !.begin = arg.date])
    \/ arg.opt = "end" /\ Parses([p EXCEPT !.end = arg.date])
    \/ arg.opt = "limit" /\ Parses([p EXCEPT !.limit = arg.limit])

(* --config, which main has handled, and --force, which is module Command's. *)
ParsesConfig(arg) ==
    /\ arg.opt = "config"
    /\ Parses(p)

ParsesMeter(arg) ==
    /\ arg.opt \in {"traffic", "live"}
    /\ Parses([p EXCEPT !.traffic = TRUE, !.query = FALSE])

(* --add, --remove, --rename and --setalias.  Only the last one leaves a query. *)
ParsesChange(arg) ==
    /\ arg.opt \in {"change", "setalias"}
    /\ Parses([p EXCEPT !.changes = TRUE, !.query = @ /\ arg.opt = "setalias"])

ParsesMerge(arg) ==
    /\ arg.opt = "merge"
    /\ Parses([p EXCEPT !.merge = TRUE])

Estimates == {"rx_estimate", "tx_estimate", "total_estimate"}

(* What parsealertargs accepts.  Exit 4 is not refused for a percentile,   *)
(* which has no estimate.                                                  *)
ValidAlert(alert) ==
    /\ alert.output \in 0 .. 3 /\ alert.exit \in 0 .. 5
    /\ ~(alert.output = 0 /\ alert.exit \in {0, 1})
    /\ alert.type = "percentile" => alert.output # 2 /\ alert.exit # 2
    /\ alert.condition \in Estimates =>
           /\ EstimateVisible
           /\ alert.output # 2 /\ alert.exit \notin {2, 4}
           /\ alert.type # "percentile"
    /\ alert.limit > 0

parsealertargs(arg) ==
    /\ arg.opt = "alert"
    /\ ValidAlert(arg.alert)
    /\ Parses([p EXCEPT !.alert = arg.alert])

(* An option that is unknown or lacks its parameter, and those that only   *)
(* show something: help, the version, the settings, lists of interfaces.   *)
ParsingExits(arg) ==
    /\ \/ arg.opt = "invalid" /\ status' = 1
       \/ arg.opt = "info" /\ status' \in {0, 1}
       \/ arg.opt = "alert" /\ ~ValidAlert(arg.alert) /\ status' = 1
    /\ pc' = "end"
    /\ UNCHANGED <<argv, currentarg, p, db, readvars>>

(* --limit is of all lists, whatever came first. *)
ParsingEnds ==
    /\ pc = "args" /\ currentarg > Len(argv)
    /\ p' = IF p.limit = NoLimit THEN p ELSE [p EXCEPT !.lists = [l \in DOMAIN @ |-> p.limit]]
    /\ Goes("main")
    /\ UNCHANGED <<db, readvars>>

parseargs ==
    \/ /\ pc = "args" /\ currentarg <= Len(argv)
       /\ \E arg \in {argv[currentarg]} :
           \/ ParsesIface(arg) \/ ParsesQuery(arg) \/ ParsesList(arg)
           \/ ParsesPlain(arg) \/ ParsesDump(arg) \/ ParsesRange(arg)
           \/ ParsesMeter(arg) \/ ParsesChange(arg) \/ ParsesMerge(arg) \/ ParsesConfig(arg)
           \/ parsealertargs(arg) \/ ParsingExits(arg)
    \/ ParsingEnds
-----------------------------------------------------------------------------
(***************************************************************************)
(* What single statements find.                                            *)
(***************************************************************************)
Now == Databases[db]

(* How many of the names are found.  A merge wants all of them, and no     *)
(* name twice; no name at all counts every row.                            *)
db_getinterfacecountbyname(names) ==
    LET n == Cardinality(Now.ifaces \cap ToSet(names))
    IN  CASE db = 0        -> 0
          [] db # 0 /\ names = <<>> -> Cardinality(Now.ifaces)
          [] OTHER         -> IF Len(names) > 1 /\ n # Len(names) THEN 0 ELSE n

(* The interfaces of the names, when some of them are gone as well. *)
db_getinterfaceidin(names) == Now.ifaces \cap ToSet(names)

(* The interfaces, those with most traffic first. *)
Busiest == Now.busiest

(* The busiest interface with an alias the name fits, by the first method  *)
(* that finds one.                                                         *)
db_setinterfacebyalias(name) ==
    LET Fits(m) == {n \in DOMAIN Busiest : <<name, Now.alias[Busiest[n]]>> \in Matches[m]}
        methods == {m \in 1 .. MatchMethod : db # 0 /\ Fits(m) # {}}
    IN  IF methods = {} THEN <<>> ELSE <<Busiest[Min(Fits(Min(methods)))]>>

(* Any other process that has the database. *)
ChangedByOthers ==
    /\ pc \notin {"args", "end"}
    /\ \E change \in Changes : change[1] = db /\ db' = change[2]
    /\ UNCHANGED <<argv, currentarg, p, pc, readvars, status>>
-----------------------------------------------------------------------------
(***************************************************************************)
(* main.                                                                   *)
(***************************************************************************)
(* handlemerge is module Command's. *)
handlemerge ==
    /\ pc = "main"
    /\ p.merge
    /\ \E code \in {0, 1} : Exits(code)
    /\ UNCHANGED <<p, db, readvars>>

(* The traffic meters do without a database, and a query or an alert that  *)
(* was asked for as well finds nothing.                                    *)
SkipsDatabase ==
    /\ pc = "main" /\ ~p.merge /\ p.traffic
    /\ db' = 0
    /\ Goes("select")
    /\ UNCHANGED <<p, readvars>>

db_open_ro ==
    /\ pc = "main" /\ ~p.merge /\ ~p.traffic
    /\ \/ Goes("count")
       \/ Exits(1)
    /\ UNCHANGED <<p, db, readvars>>

(* With several interfaces the default is the one of the configuration,    *)
(* even if "-i ''" had undone it.                                          *)
db_getinterfacecount ==
    /\ pc = "count"
    /\ LET n == db_getinterfacecountbyname(<<>>)
       IN  p' = [p EXCEPT !.dbifcount = n, !.definterface = IF n > 1 THEN Configured ELSE @]
    /\ Goes("select")
    /\ UNCHANGED <<db, readvars>>

Selects(names) ==
    /\ p' = [p EXCEPT !.iface = names]
    /\ Goes("handle")
    /\ UNCHANGED <<db, readvars>>

(* The interface that was given; else the default; else the busiest of the *)
(* database, for the meters one that is available, if any is.              *)
handleifselection ==
    /\ pc = "select"
    /\ \/ ~p.defaultiface /\ Selects(p.iface)
       \/ p.defaultiface /\ p.definterface # <<>> /\ Selects(p.definterface)
       \/ /\ p.defaultiface /\ p.definterface = <<>> /\ p.traffic
          /\ \/ \E i \in Available : Selects(<<i>>)
             \/ Exits(1) /\ UNCHANGED <<p, db, readvars>>
       \/ /\ p.defaultiface /\ p.definterface = <<>> /\ ~p.traffic /\ p.query
          /\ \/ Busiest # <<>> /\ Selects(<<Head(Busiest)>>)
             \/ Busiest = <<>> /\ Exits(1) /\ UNCHANGED <<p, db, readvars>>
       \/ p.defaultiface /\ p.definterface = <<>> /\ ~p.traffic /\ ~p.query /\ Selects(p.iface)

ShowsAlert == p.alert # NoAlert

(* --alert comes first and exits, the changes come next and exit.          *)
handleshowalert ==
    /\ pc = "handle" /\ ShowsAlert
    /\ IF p.defaultiface THEN Exits(1) ELSE Goes("validate")
    /\ UNCHANGED <<p, db, readvars>>

HandlesChanges ==
    /\ pc = "handle" /\ ~ShowsAlert /\ p.changes
    /\ \/ Exits(1)
       \/ ~p.traffic /\ ~p.defaultiface /\ Exits(0)
    /\ UNCHANGED <<p, db, readvars>>

ShowsAll == p.defaultiface /\ p.qmode \in {"all", "xml", "json"} /\ p.dbifcount > 1

(* A query of several interfaces, or of the one selected; the count of the *)
(* database is the one main has read.                                      *)
handleshowdata ==
    /\ pc = "handle" /\ ~ShowsAlert /\ ~p.changes /\ p.query
    /\ \/ p.defaultiface /\ p.dbifcount = 0
          /\ Goes("meter") /\ p' = [p EXCEPT !.query = FALSE] /\ UNCHANGED queue
       \/ ShowsAll /\ Goes("next") /\ queue' = Now.ifaces /\ UNCHANGED p
       \/ (~p.defaultiface \/ p.dbifcount > 0) /\ ~ShowsAll /\ Goes("validate") /\ UNCHANGED <<p, queue>>
    /\ UNCHANGED <<db, todo, info, out, verdict>>

ShowsNothing ==
    /\ pc = "handle" /\ ~ShowsAlert /\ ~p.changes /\ ~p.query
    /\ Goes("meter")
    /\ UNCHANGED <<p, db, readvars>>
-----------------------------------------------------------------------------
(***************************************************************************)
(* One interface.                                                          *)
(***************************************************************************)
(* A name that is no interface's is tried as an alias. *)
validateinterface ==
    /\ pc = "validate"
    /\ LET found == IF db_getinterfacecountbyname(p.iface) > 0 THEN p.iface
                    ELSE IF Len(p.iface) = 1 THEN db_setinterfacebyalias(p.iface[1]) ELSE <<>>
           unknown == found = <<>> /\ (p.iface # <<>> \/ db_getinterfacecountbyname(<<>>) = 0)
       IN  IF unknown THEN Exits(1) /\ UNCHANGED p
           ELSE Goes("info") /\ p' = [p EXCEPT !.iface = found]
    /\ UNCHANGED <<db, readvars>>

(* The next one of a query of all. *)
TakesNext ==
    /\ pc = "next"
    /\ \E i \in queue : queue' = queue \ {i} /\ p' = [p EXCEPT !.iface = <<i>>]
    /\ Goes("info")
    /\ UNCHANGED <<db, todo, info, out, verdict>>

EndsQuery ==
    /\ pc = "next"
    /\ queue = {}
    /\ Goes("meter")
    /\ UNCHANGED <<p, db, readvars>>

Read(table, limit) == [table |-> table, limit |-> limit, begin |-> NoDate, end |-> NoDate]

InRange(table, limit) == [table |-> table, limit |-> limit, begin |-> p.begin, end |-> p.end]

Month95th == <<Read("month", 1), Read("fiveminute", MaxSamples)>>

Each(tables, Reads(_)) == [n \in DOMAIN tables |-> Reads(tables[n])]

(* showxml and showjson. *)
DumpReads(dump) ==
    CASE dump = "p" -> Month95th
      [] dump = "s" -> Each(<<"fiveminute", "hour", "day", "month", "year">>,
                            LAMBDA t : Read(t, p.lists.dump))
      [] dump = "a" -> Each(<<"fiveminute", "hour", "day", "month", "year", "top">>,
                            LAMBDA t : InRange(t, p.lists.dump))
      [] OTHER      -> <<InRange(dump, p.lists.dump)>>

(* showdb: the summaries, the graph and the line take no range. *)
ListReads(qmode) ==
    CASE qmode \in {"all", "summary", "short"} -> <<Read("month", 2), Read("day", 2)>>
      [] qmode = "hoursgraph" -> <<Read("hour", 24)>>
      [] qmode = "oneline"    -> <<Read("day", 1), Read("month", 1)>>
      [] qmode = "95th"       -> Month95th
      [] OTHER                -> <<InRange(qmode, p.lists[qmode])>>

Reads ==
    CASE ShowsAlert /\ p.alert.type # "percentile" -> <<Read(p.alert.type, 1)>>
      [] ShowsAlert /\ p.alert.type = "percentile" -> Month95th
      [] OTHER -> IF p.qmode \in {"xml", "json"} THEN DumpReads(p.dump[p.qmode])
                  ELSE ListReads(p.qmode)

Is95th ==
    IF ShowsAlert THEN p.alert.type = "percentile"
    ELSE p.qmode = "95th" \/ (p.qmode \in {"xml", "json"} /\ p.dump[p.qmode] = "p")

(* How it ends if something cannot be read.  showalert returns 1 then,     *)
(* which the exit conditions 0 and 1 overrule.                             *)
Fails == Exits(IF ShowsAlert /\ ~Is95th /\ p.alert.exit = 0 THEN 0 ELSE 1)

(* db_getinterfaceinfo, before which all but showalert count again.  It    *)
(* fails if it finds no row or a query cannot be prepared.                 *)
ReadsInfo ==
    /\ pc = "info"
    /\ LET found == IF ShowsAlert THEN db_getinterfaceidin(p.iface) # {}
                    ELSE p.iface # <<>> /\ db_getinterfacecountbyname(p.iface) > 0
           nodata == ~ShowsAlert /\ p.qmode \notin {"xml", "json"} /\ ToSet(p.iface) \in Now.nodata
       IN  \/ Exits(IF ShowsAlert /\ p.alert.exit = 0 THEN 0 ELSE 1) /\ UNCHANGED <<todo, info>>
           \/ found /\ nodata /\ Goes("next") /\ UNCHANGED <<todo, info>>
           \/ /\ found /\ ~nodata /\ Goes("fetch")
              /\ todo' = Reads
              /\ info' = [read |-> TRUE, period |-> Now.period]
    /\ UNCHANGED <<p, db, queue, out, verdict>>

(* The interfaces were found, but the step of the select gives no row: it  *)
(* fails, or they are removed by then.  The call succeeds, and             *)
(* interfaceinfo keeps what was on the stack.  An alert of a row goes on   *)
(* with its times.  All else goes by its name, or, to say that there is no *)
(* data, by two times that are equal by chance: it is the name of nothing, *)
(* or in a query of all of one that was shown, which is shown again.       *)
InfoIsUnset ==
    /\ pc = "info"
    /\ db_getinterfaceidin(p.iface) # {}
    /\ \/ UNCHANGED db
       \/ \E change \in Changes :
             /\ change[1] = db
             /\ ToSet(p.iface) \cap Databases[change[2]].ifaces = {}
             /\ db' = change[2]
    /\ \/ /\ ShowsAlert /\ ~Is95th
          /\ Goes("fetch")
          /\ todo' = Reads
          /\ \E period \in Garbage : info' = [read |-> FALSE, period |-> period]
          /\ UNCHANGED p
       \/ (~ShowsAlert \/ Is95th) /\ Exits(1) /\ UNCHANGED <<p, todo, info>>
       \/ ~ShowsAlert /\ p.qmode \notin {"xml", "json"} /\ Goes("next") /\ UNCHANGED <<p, todo, info>>
       \/ /\ ShowsAll /\ ~ShowsAlert
          /\ \E i \in Databases[db'].ifaces :
                /\ \E n \in DOMAIN out : i \in out[n].ifaces
                /\ p' = [p EXCEPT !.iface = <<i>>]
          /\ todo' = Reads
          /\ info' = [read |-> FALSE, period |-> NoInfo.period]
          /\ Goes("fetch")
    /\ UNCHANGED <<queue, out, verdict>>

(* The select cannot be prepared, or none of the interfaces is left. *)
FetchFails ==
    /\ pc = "fetch"
    /\ Fails
    /\ UNCHANGED <<p, db, readvars>>

(* A step of the statement that fails is taken for its end.  The rows come *)
(* in the reverse order: the first of the list are missing.  Bounds: one   *)
(* of them or all, and one such statement in a run.                        *)
BreakOff(rows) ==
    {rows} \cup (IF \A n \in DOMAIN out : out[n].whole
               THEN {<<>>} \cup {Tail(rows) : n \in DOMAIN rows} ELSE {})

(* The first read of a percentile says where the second one begins.        *)
Begins(reads, rows) ==
    IF Is95th /\ reads # <<>> THEN [reads EXCEPT ![1].begin = rows[1].at] ELSE reads

Fetches ==
    /\ pc = "fetch"
    /\ db_getinterfaceidin(p.iface) # {}
    /\ LET r == Head(todo)
           found == db_getinterfaceidin(p.iface)
           all == db_getdata_range(Now.rows, found, r.table, r.limit, r.begin, r.end, Now.today)
       IN  \E rows \in BreakOff(all) :
              LET ends == rows = <<>> /\ (ShowsAlert \/ Is95th)
                  last == Tail(todo) = <<>>
              IN  /\ out' = Append(out, [ifaces |-> found, table |-> r.table, limit |-> r.limit,
                                         begin |-> r.begin, from |-> db, rows |-> rows,
                                         whole |-> rows = all,
                                         percentile |-> IF Is95th /\ last /\ ~ends
                                                        THEN Percentile(rows) ELSE NoPercentile])
                  /\ todo' = IF ends THEN <<>> ELSE Begins(Tail(todo), rows)
                  /\ \/ ends /\ Fails
                     \/ ~ends /\ ~last /\ Goes("fetch")
                     \/ ~ends /\ last /\ Goes(IF ShowsAlert THEN "alert" ELSE "next")
    /\ UNCHANGED <<p, db, queue, info, verdict>>
-----------------------------------------------------------------------------
(***************************************************************************)
(* The rest of showalert.                                                  *)
(***************************************************************************)
Of(condition, values) ==
    CASE condition \in {"rx", "rx_estimate"} -> values.rx
      [] condition \in {"tx", "tx_estimate"} -> values.tx
      [] OTHER -> values.rx + values.tx

(* Mutant of Exceeds: from the limit on. *)
Reaches(value, limit) == value >= limit

Exceeds(value, limit) == value > limit

Row == Last(Last(out).rows)

Estimate == getestimates(Row, info.period[p.alert.type])

Used ==
    CASE Is95th /\ p.alert.condition = "total" -> Last(out).percentile.total \div 300
      [] Is95th /\ p.alert.condition # "total" -> Of(p.alert.condition, Last(out).percentile) \div 300
      [] OTHER -> Of(p.alert.condition, IF p.alert.condition \in Estimates THEN Estimate ELSE Row)

Expected ==
    IF Is95th \/ p.alert.condition \in Estimates \/ ~EstimateVisible THEN 0
    ELSE Of(p.alert.condition, Estimate)

(* The exit status: 2 and 4 look at the estimate, 3 and 5 at the limit.    *)
AlertStatus(exit, over, estimate) ==
    CASE exit = 1 -> 1
      [] (exit = 2 /\ estimate) \/ (exit = 3 /\ over) -> 1
      [] (exit = 4 /\ estimate) \/ (exit = 5 /\ over) -> 2
      [] OTHER -> 0

showalert ==
    /\ pc = "alert"
    /\ LET over == Exceeds(Used, p.alert.limit)
           estimate == Exceeds(Expected, p.alert.limit)
       IN  /\ verdict' = [over |-> over, estimate |-> estimate, reached |-> TRUE,
                          printed |-> \/ p.alert.output = 1
                                      \/ p.alert.output = 2 /\ (over \/ estimate)
                                      \/ p.alert.output = 3 /\ over]
           /\ Exits(AlertStatus(p.alert.exit, over, estimate))
    /\ UNCHANGED <<p, db, queue, todo, info, out>>
-----------------------------------------------------------------------------
(* The meters want an interface the system has, and a merge is cut to its  *)
(* first one; they may fail.  Without them and without a query there was nothing to do.   *)
handletrafficmeters ==
    /\ pc = "meter"
    /\ \/ ~p.traffic /\ Exits(0)
       \/ p.traffic /\ Exits(1)
       \/ p.traffic /\ p.iface # <<>> /\ p.iface[1] \in Available /\ Exits(0)
    /\ UNCHANGED <<p, db, readvars>>

Next ==
    \/ parseargs \/ handlemerge \/ SkipsDatabase \/ db_open_ro \/ db_getinterfacecount
    \/ handleifselection \/ handleshowalert \/ HandlesChanges \/ handleshowdata
    \/ ShowsNothing \/ validateinterface \/ TakesNext \/ EndsQuery \/ ReadsInfo
    \/ InfoIsUnset \/ FetchFails \/ Fetches \/ showalert \/ handletrafficmeters
    \/ ChangedByOthers

Spec == Init /\ [][Next]_vars
-----------------------------------------------------------------------------
(***************************************************************************)
(* Properties, over the arguments as they were given.                      *)
(***************************************************************************)
Ranged(opt) ==
    LET arg == LastArg(LAMBDA a : a.opt = opt) IN IF arg.opt = "" THEN NoDate ELSE arg.date

(* The limit a reader of the arguments expects: that of the last --limit,  *)
(* else the last one given for this list, else the configured one.         *)
LimitGiven(table) ==
    LET limit == LastArg(LAMBDA a : a.opt = "limit")
        list == LastArg(LAMBDA a : a.opt = "list" /\ a.mode = table /\ a.limit # NoLimit)
        dump == LastArg(LAMBDA a : a.opt \in {"xml", "json"} /\ (a.dump = "s" \/ a.limit # NoLimit))
        isdump == p.qmode \in {"xml", "json"}
    IN  IF limit.opt # "" THEN limit.limit
        ELSE IF ~isdump /\ list.opt # "" THEN list.limit
        ELSE IF isdump /\ dump.opt # "" THEN (IF dump.limit # NoLimit THEN dump.limit ELSE 2)
        ELSE ListLimits[IF isdump THEN "dump" ELSE table]

IsList ==
    /\ ~ShowsAlert
    /\ \/ p.qmode \in Lists
       \/ p.qmode \in {"xml", "json"} /\ p.dump[p.qmode] \notin {"p", "s"}

(* The days --begin and --end name hold all their moments, a "today" for   *)
(* --end none.                                                             *)
Within(date, today) ==
    /\ Ranged("begin") # NoDate => date >= (IF Ranged("begin") = Today THEN 100 * today ELSE Ranged("begin"))
    /\ Ranged("end") = Today => FALSE
    /\ Ranged("end") \notin {NoDate, Today} =>
           IF IsMoment(Ranged("end")) THEN date <= Ranged("end") ELSE date \div 100 <= Ranged("end") \div 100

(* A list shows the dates of the range, each with the traffic of all its   *)
(* interfaces, and if more than the limit fit, the newest, with --begin    *)
(* alone the oldest, with both none is cut off; the top the ones with most *)
(* traffic.  A list that broke off shows nothing else.  (parseargs and     *)
(* db_getdata_range.)                                                      *)
RangeShown ==
    IsList => \A n \in DOMAIN out :
        LET f == out[n]
            d == Databases[f.from]
            ranged == f.table = "top" => Ranged("begin") # NoDate
            source == IF f.table = "top" /\ Ranged("begin") # NoDate THEN "day" ELSE f.table
            fits == {r \in d.rows : /\ r.table = source /\ r.iface \in f.ifaces
                                    /\ ranged => Within(r.at, d.today)}
            traffic == [r \in fits |-> r.rx + r.tx]
            Traffic(date) == SumOf(traffic, {r \in fits : r.at = date})
            dates == {r.at : r \in fits}
            Before(date) ==
                IF f.table = "top"
                THEN {e \in dates : Traffic(e) > Traffic(date) \/ (Traffic(e) = Traffic(date) /\ e < date)}
                ELSE {e \in dates : IF Ranged("begin") # NoDate THEN e < date ELSE e > date}
            limit == LimitGiven(f.table)
            cut == limit # 0 /\ (f.table = "top" \/ Ranged("begin") = NoDate \/ Ranged("end") = NoDate)
            wanted == {e \in dates : cut => Cardinality(Before(e)) < limit}
            shown == {f.rows[m].at : m \in DOMAIN f.rows}
        IN  /\ shown \subseteq wanted
            /\ f.whole => shown = wanted
            /\ \A m \in DOMAIN f.rows : f.rows[m].rx + f.rows[m].tx = Traffic(f.rows[m].at)

(* The exit status of --alert, and what output 3 prints, are those the     *)
(* last --alert asks for: of the newest row that was read, and for an      *)
(* estimate of how that row grows over its period, unless the times of the *)
(* interface were not read (showalert).                                    *)
AlertIsRight ==
    verdict.reached =>
        LET a == LastArg(LAMBDA arg : arg.opt = "alert").alert
            period == info.period[a.type]
            late == /\ a.type # "hour" /\ period.elapsed > period.offset
                    /\ period.length > period.offset
            elapsed == IF late THEN period.elapsed - period.offset ELSE period.elapsed
            length == IF late THEN period.length - period.offset ELSE period.length
            value == Of(a.condition, Row)
            grows == value * length > a.limit * elapsed
            grown == (value - 2 * elapsed) * length > a.limit * elapsed
            used == a.condition \notin Estimates
            estimated == /\ info.read /\ a.type # "percentile"
                         /\ a.exit \in {2, 4} \/ (a.exit \in {3, 5} /\ ~used)
        IN  /\ a.exit \in {0, 1} => status = a.exit
            /\ a.type # "percentile" /\ used /\ a.exit \in {3, 5} =>
                   status = IF value > a.limit THEN (a.exit - 1) \div 2 ELSE 0
            /\ estimated /\ status # 0 => grows \/ elapsed = 0
            /\ estimated /\ EstimateVisible /\ Row.rx > 0 /\ Row.tx > 0 /\ elapsed > 0 /\ grown
                   => status # 0
            /\ a.output = 3 /\ a.exit \in {3, 5} => (verdict.printed <=> status # 0)

(* The 95th percentile is a value that at most 5 % of the samples exceed   *)
(* and at least 5 % reach, to the nearest sample.  The samples are of the  *)
(* newest month, all of them if a month has no more than expected.         *)
(* (getpercentiledata.)                                                    *)
PercentileIs95th ==
    \A n \in DOMAIN out : out[n].percentile # NoPercentile =>
        LET f == out[n]
            size == Len(f.rows)
            Fair(percentile, Value(_)) ==
                /\ 20 * Cardinality({m \in 1 .. size : Value(f.rows[m]) > percentile}) <= size + 10
                /\ 20 * Cardinality({m \in 1 .. size : Value(f.rows[m]) >= percentile}) >= size + 10
            month == Last(out[n - 1].rows).at
            shown == {f.rows[m].at : m \in 1 .. size}
            samples == {r.at : r \in {r \in Databases[f.from].rows :
                          r.table = "fiveminute" /\ r.iface \in f.ifaces /\ r.at >= month}}
        IN  /\ Fair(f.percentile.rx, LAMBDA r : r.rx)
            /\ Fair(f.percentile.tx, LAMBDA r : r.tx)
            /\ Fair(f.percentile.total, LAMBDA r : r.rx + r.tx)
            /\ shown \subseteq samples
            /\ f.whole /\ Cardinality(samples) <= MaxSamples => shown = samples
=============================================================================
