------------------------------ MODULE Command ------------------------------
(***************************************************************************)
(* The vnstat command where it changes a database: --add, --remove,        *)
(* --rename, --setalias and --merge, run by several processes while the    *)
(* daemon saves to the same database.                                      *)
(*                                                                         *)
(* A row is found by its name, and the statement that changes it names the *)
(* id that was found: two steps, with other processes in between.  Only a  *)
(* merge uses a transaction, for the statements of one interface.  Any     *)
(* statement may fail and any process may be killed.                       *)
(*                                                                         *)
(* A time is one of a few numbers, and the counter of a row is the time it *)
(* was read at, 0 for none.  Received and transmitted traffic are one      *)
(* number.  The source of a merge is a database of another machine, which  *)
(* nobody changes meanwhile.  A query of a merge may end early without an  *)
(* error: it then has read nothing of a row, or a part of a table.         *)
(***************************************************************************)
EXTENDS Integers, FiniteSets, FiniteSetsExt

CONSTANTS
    Proc,          \* processes of the vnstat command
    Name,          \* names of interfaces
    Alias,         \* aliases
    NoAlias,       \* the alias of a new interface
    Unset,         \* --add without --setalias
    Tables,        \* the tables a merge copies
    Source,        \* the source database: name -> row
    Garbage,       \* what an interfaceinfo that nobody has set may hold
    Nobody,        \* holder of a lock that is free
    Times,         \* bound: what the clock may show
    MaxCommands,   \* bound: commands that are started
    MaxSaves       \* bound: additions and saves of the daemon

ASSUME AliasAssumption == NoAlias \in Alias /\ Unset \notin Alias
ASSUME NobodyAssumption == Nobody \notin Proc
ASSUME NameAssumption == IsFiniteSet(Name)
ASSUME BoundsAssumption == Times \subseteq Nat /\ MaxCommands \in Nat /\ MaxSaves \in Nat

VARIABLES
    db,         \* the interface table and the traffic tables: id -> row
    lock,       \* who has an open write transaction
    txn,        \* what that transaction sees
    pc,         \* where each process is
    cmd,        \* what it was started for
    todo,       \* pairs of source and destination it has still to merge
    ifaceid,    \* the id it has looked up
    srcifinfo,  \* the rows mergeinterface has read, or failed to read, before
    dstifinfo,  \*   its transaction
    datalist,   \* what it has read of each table of the source
    started,    \* commands started
    saves,      \* additions and saves of the daemon
    flawed,     \* history: rows into which a merge was not whole
    garbled     \* history: rows that got time and counters nobody had read

dbvars == <<db, lock, txn>>
locals == <<ifaceid, srcifinfo, dstifinfo, datalist>>
procvars == <<pc, cmd, todo, locals>>
history == <<flawed, garbled>>
vars == <<dbvars, procvars, started, saves, history>>

Row == [name : Name, alias : Alias, created : Nat, updated : Nat,
        counter : Nat, total : Nat, data : [Tables -> Nat]]

(* A source without interfaces is refused, and the rows of the source are  *)
(* in order.                                                               *)
ASSUME SourceAssumption ==
    /\ DOMAIN Source # {} /\ DOMAIN Source \subseteq Name
    /\ \A n \in DOMAIN Source :
          /\ Source[n] \in Row
          /\ \A t \in Tables : Source[n].total = Source[n].data[t]
          /\ Source[n].counter # 0 => Source[n].counter = Source[n].updated
ASSUME GarbageAssumption == Garbage \subseteq Row

NewRow(n, now) ==
    [name |-> n, alias |-> NoAlias, created |-> now, updated |-> now,
     counter |-> 0, total |-> 0, data |-> [t \in Tables |-> 0]]

NoTable == [i \in {} |-> 0]
NoRow == [none |-> TRUE]
NoData == [t \in Tables |-> 0]

Pairs == {<<n, n>> : n \in DOMAIN Source}

Commands ==
    [op : {"remove"}, name : Name]
    \cup [op : {"rename"}, name : Name, to : Name]
    \cup [op : {"add"}, name : Name, alias : Alias \cup {Unset}]
    \cup [op : {"setalias"}, name : Name, alias : Alias]
    \cup [op : {"merge"}, pairs : {Pairs} \cup
                 {{<<s, d>>} : s \in DOMAIN Source, d \in Name}]

Idle == [op |-> "none"]

Places == {"idle", "check", "open", "lookup", "exec", "dstid", "dstadd",
           "dstinfo", "begin", "merge", "commit", "close"}

TypeOK ==
    /\ Cardinality(DOMAIN db) <= Cardinality(Name)
    /\ \A i \in DOMAIN db : i \in Nat \ {0} /\ db[i] \in Row
    /\ lock \in Proc \cup {Nobody}
    /\ \A i \in DOMAIN txn : txn[i] \in Row
    /\ pc \in [Proc -> Places]
    /\ \A p \in Proc : cmd[p] \in Commands \cup {Idle}
    /\ \A p \in Proc : todo[p] \subseteq (DOMAIN Source) \X Name
    /\ ifaceid \in [Proc -> Nat]
    /\ \A p \in Proc : {srcifinfo[p], dstifinfo[p]} \subseteq Row \cup {NoRow}
    /\ datalist \in [Proc -> [Tables -> Nat]]
    /\ started \in 0 .. MaxCommands
    /\ saves \in 0 .. MaxSaves
    /\ flawed \cup garbled \subseteq DOMAIN db
    /\ \A p \in Proc : lock = p <=> pc[p] \in {"merge", "commit", "close"}

Init ==
    /\ db = NoTable
    /\ lock = Nobody
    /\ txn = NoTable
    /\ pc = [p \in Proc |-> "idle"]
    /\ cmd = [p \in Proc |-> Idle]
    /\ todo = [p \in Proc |-> {}]
    /\ ifaceid = [p \in Proc |-> 0]
    /\ srcifinfo = [p \in Proc |-> NoRow]
    /\ dstifinfo = [p \in Proc |-> NoRow]
    /\ datalist = [p \in Proc |-> NoData]
    /\ started = 0
    /\ saves = 0
    /\ flawed = {}
    /\ garbled = {}
-----------------------------------------------------------------------------
(***************************************************************************)
(* The interface table.                                                    *)
(***************************************************************************)
Ids(d) == DOMAIN d

IdOf(d, n) == {i \in Ids(d) : d[i].name = n}

db_getinterfacecountbyname(n) == Cardinality(IdOf(db, n))

(* What "select id" finds, 0 for nothing.  A query that fails finds none.  *)
db_getinterfaceid(d, n) == IF IdOf(d, n) = {} THEN 0 ELSE CHOOSE i \in IdOf(d, n) : TRUE

(* The engine gives a new row the highest id plus one: the id of a removed *)
(* row is used again.                                                      *)
NewId(d) == Max({0} \cup Ids(d)) + 1

(* The column "name" is unique: the statement fails if it is not.          *)
UniqueIn(d) == \A i, j \in Ids(d) : d[i].name = d[j].name => i = j

db_addinterface(d, n, now) ==
    [i \in Ids(d) \cup {NewId(d)} |-> IF i \in Ids(d) THEN d[i] ELSE NewRow(n, now)]

db_removeinterface(d, i) == [j \in Ids(d) \ {i} |-> d[j]]

(* An update of an id that no row has changes nothing and succeeds. *)
Updated(d, i, row) == IF i \in Ids(d) THEN [d EXCEPT ![i] = row] ELSE d

db_renameinterface(d, i, n) == Updated(d, i, [d[i] EXCEPT !.name = n])

db_setalias(d, i, a) == Updated(d, i, [d[i] EXCEPT !.alias = a])

(* A statement outside a transaction, by whichever process. *)
Autocommits(d) ==
    /\ lock = Nobody
    /\ UniqueIn(d)
    /\ db' = d
    /\ flawed' = flawed \cap Ids(d)
    /\ garbled' = garbled \cap Ids(d)
    /\ UNCHANGED <<lock, txn>>
-----------------------------------------------------------------------------
(***************************************************************************)
(* A process: main opens the database read-only and the handler of the     *)
(* option checks what was asked for, and that --force was given.           *)
(***************************************************************************)
Goes(p, place) ==
    /\ pc' = [pc EXCEPT ![p] = place]
    /\ UNCHANGED <<cmd, todo, started, saves>>

(* The local variables of the handlers and of mergeinterface. *)
Returns(p) ==
    /\ ifaceid' = [ifaceid EXCEPT ![p] = 0]
    /\ srcifinfo' = [srcifinfo EXCEPT ![p] = NoRow]
    /\ dstifinfo' = [dstifinfo EXCEPT ![p] = NoRow]
    /\ datalist' = [datalist EXCEPT ![p] = NoData]

Ends(p) ==
    /\ pc' = [pc EXCEPT ![p] = "idle"]
    /\ cmd' = [cmd EXCEPT ![p] = Idle]
    /\ todo' = [todo EXCEPT ![p] = {}]
    /\ Returns(p)
    /\ UNCHANGED <<started, saves>>

(* Exits from a place where no transaction is open. *)
Exits(p) ==
    /\ Ends(p)
    /\ UNCHANGED <<dbvars, history>>

Invoke(p, c) ==
    /\ pc[p] = "idle"
    /\ started < MaxCommands
    /\ started' = started + 1
    /\ pc' = [pc EXCEPT ![p] = "check"]
    /\ cmd' = [cmd EXCEPT ![p] = c]
    /\ todo' = [todo EXCEPT ![p] = IF c.op = "merge" THEN c.pairs ELSE {}]
    /\ UNCHANGED <<dbvars, locals, saves, history>>

(* What the rows a handler counts decide.  handlemerge does not look at    *)
(* the destination before it opens it.                                     *)
Refuses(c) ==
    \/ /\ c.op \in {"remove", "rename", "setalias"}
       /\ db_getinterfacecountbyname(c.name) = 0
    \/ c.op = "rename" /\ db_getinterfacecountbyname(c.to) > 0
    \/ c.op = "add" /\ db_getinterfacecountbyname(c.name) > 0

(* Also when a count fails, and without --force: --remove and --rename     *)
(* then only warn, --merge only says what it would do, and --add wants the *)
(* interface to be available and some space on the disk.                   *)
Refused(p) ==
    /\ pc[p] = "check"
    /\ Exits(p)

Accepted(p) ==
    /\ pc[p] = "check"
    /\ ~Refuses(cmd[p])
    /\ Goes(p, "open")
    /\ UNCHANGED <<dbvars, locals, history>>

(* A second count that fails is taken for "no such interface".             *)
AcceptedUnread(p) ==
    /\ pc[p] = "check"
    /\ cmd[p].op = "add" \/ cmd[p].op = "rename"
    /\ Goes(p, "open")
    /\ UNCHANGED <<dbvars, locals, history>>

(* db_close and db_open_rw. *)
Opens(p) ==
    /\ pc[p] = "open"
    /\ Goes(p, CASE cmd[p].op = "add"   -> "exec"
                 [] cmd[p].op = "merge" -> "dstid"
                 [] OTHER               -> "lookup")
    /\ UNCHANGED <<dbvars, locals, history>>

LooksUp(p) ==
    /\ pc[p] = "lookup"
    /\ db_getinterfaceid(db, cmd[p].name) # 0
    /\ ifaceid' = [ifaceid EXCEPT ![p] = db_getinterfaceid(db, cmd[p].name)]
    /\ Goes(p, "exec")
    /\ UNCHANGED <<dbvars, srcifinfo, dstifinfo, datalist, history>>

(* What the statement makes of d. *)
Statement(c, d, i, now) ==
    CASE c.op = "remove"   -> db_removeinterface(d, i)
      [] c.op = "rename"   -> db_renameinterface(d, i, c.to)
      [] c.op = "setalias" -> db_setalias(d, i, c.alias)
      [] c.op = "add"      -> db_addinterface(d, c.name, now)

(* --add goes on as --setalias if that was given as well. *)
Executes(p, now) ==
    /\ pc[p] = "exec"
    /\ Autocommits(Statement(cmd[p], db, ifaceid[p], now))
    /\ IF cmd[p].op = "add" /\ cmd[p].alias # Unset
       THEN /\ pc' = [pc EXCEPT ![p] = "check"]
            /\ cmd' = [cmd EXCEPT ![p] =
                   [op |-> "setalias", name |-> @.name, alias |-> @.alias]]
            /\ UNCHANGED <<todo, locals, started, saves>>
       ELSE Ends(p)

(* The database cannot be opened, the row is not found (any more) or not   *)
(* read, the statement fails or waits too long for the lock, the name is   *)
(* taken by now, or the transaction cannot begin.                          *)
Fails(p) ==
    /\ pc[p] \in {"open", "lookup", "exec", "dstid", "dstadd", "dstinfo", "begin"}
    /\ Exits(p)

(* What a transaction of the process has done is undone. *)
Killed(p) ==
    /\ pc[p] # "idle"
    /\ Ends(p)
    /\ lock' = IF lock = p THEN Nobody ELSE lock
    /\ txn' = IF lock = p THEN NoTable ELSE txn
    /\ UNCHANGED <<db, history>>
-----------------------------------------------------------------------------
(***************************************************************************)
(* mergeinterface, for a pair of a source and a destination interface.     *)
(***************************************************************************)
(* Pairs are merged in the order of their names; here in any order, the    *)
(* same at every step.                                                     *)
Pair(p) == CHOOSE pair \in todo[p] : TRUE
Src(p) == Source[Pair(p)[1]]
Dst(p) == Pair(p)[2]

(* db_getinterfaceinfo also succeeds if its query gives no row, because it *)
(* failed or as the row is gone by now, and has then set nothing.          *)
db_getinterfaceinfo(row) == {row} \cup Garbage

(* The row of the source is read, and the id of the destination, which is  *)
(* added if it is not found: outside the transaction.                      *)
FindsDestination(p) ==
    /\ pc[p] = "dstid"
    /\ \E info \in db_getinterfaceinfo(Src(p)) :
          srcifinfo' = [srcifinfo EXCEPT ![p] = info]
    /\ ifaceid' = [ifaceid EXCEPT ![p] = db_getinterfaceid(db, Dst(p))]
    /\ Goes(p, IF ifaceid'[p] = 0 THEN "dstadd" ELSE "dstinfo")
    /\ UNCHANGED <<dbvars, dstifinfo, datalist, history>>

AddsDestination(p, now) ==
    /\ pc[p] = "dstadd"
    /\ Autocommits(db_addinterface(db, Dst(p), now))
    /\ ifaceid' = [ifaceid EXCEPT ![p] = NewId(db)]
    /\ Goes(p, "dstinfo")
    /\ UNCHANGED <<srcifinfo, dstifinfo, datalist>>

ReadsDestination(p) ==
    /\ pc[p] = "dstinfo"
    /\ db_getinterfaceid(db, Dst(p)) # 0
    /\ \E info \in db_getinterfaceinfo(db[db_getinterfaceid(db, Dst(p))]) :
          dstifinfo' = [dstifinfo EXCEPT ![p] = info]
    /\ Goes(p, "begin")
    /\ UNCHANGED <<dbvars, ifaceid, srcifinfo, datalist, history>>

db_begintransaction(p) ==
    /\ pc[p] = "begin"
    /\ lock = Nobody
    /\ lock' = p
    /\ txn' = db
    /\ Goes(p, "merge")
    /\ UNCHANGED <<db, locals, history>>

TakesCounters(src, dst) == src.updated > dst.updated \/ dst.counter = 0

(* Mutant of MergedRow: the counter is taken over in every case. *)
MergedRowCounter(row, src, dst) ==
    [row EXCEPT !.updated = IF TakesCounters(src, dst) THEN src.updated ELSE @,
                !.counter = src.counter,
                !.total = src.total + dst.total]

(* The row after the statements that set creation and alias, time and      *)
(* counters, and the total; src and dst are what was read before the       *)
(* transaction.                                                            *)
MergedRow(row, src, dst) ==
    LET older == src.created < dst.created
        takes == TakesCounters(src, dst)
    IN  [row EXCEPT
            !.created = IF older THEN src.created ELSE @,
            !.alias   = IF older THEN src.alias ELSE @,
            !.updated = IF takes THEN src.updated ELSE @,
            !.counter = IF takes THEN src.counter ELSE @,
            !.total   = src.total + dst.total]

(* db_getdata takes a query that fails for the end of the table: what it   *)
(* has read of each is a part of it, and the merge goes on.                *)
db_getdata(src) == [Tables -> 0 .. src.total]

(* Mutant of mergedata: the rows of "top" are ignored as they exist. *)
mergedatanotop(row, read) ==
    [row EXCEPT !.data = [t \in Tables |->
        IF t = "top" THEN row.data[t] ELSE row.data[t] + read[t]]]

(* The statements for the row find it by name, those for the tables use    *)
(* the id of the beginning; "insert or ignore" and an update that adds.    *)
mergedata(row, read) ==
    [row EXCEPT !.data = [t \in Tables |-> row.data[t] + read[t]]]

(* The database d with a pair merged into it. *)
Merged(d, p, read) ==
    LET i == db_getinterfaceid(d, Dst(p))
        e == [d EXCEPT ![i] = MergedRow(@, srcifinfo[p], dstifinfo[p])]
    IN  [e EXCEPT ![ifaceid[p]] = mergedata(@, read)]

Merges(p) ==
    /\ pc[p] = "merge"
    /\ db_getinterfaceid(txn, Dst(p)) # 0
    /\ ifaceid[p] \in Ids(txn)
    /\ \E read \in db_getdata(Src(p)) :
          /\ datalist' = [datalist EXCEPT ![p] = read]
          /\ txn' = Merged(txn, p, read)
    /\ Goes(p, "commit")
    /\ UNCHANGED <<db, lock, ifaceid, srcifinfo, dstifinfo, history>>

(* Mutant of RollsBack: what was done so far is committed. *)
RollsBackNothing(p) ==
    /\ lock' = Nobody
    /\ txn' = NoTable
    /\ LET i == db_getinterfaceid(txn, Dst(p))
       IN  db' = IF i = 0 THEN db
                 ELSE [txn EXCEPT ![i] = MergedRow(@, srcifinfo[p], dstifinfo[p])]
    /\ UNCHANGED history

RollsBack(p) ==
    /\ lock' = Nobody
    /\ txn' = NoTable
    /\ UNCHANGED <<db, history>>

(* Mutant of MergeFails: without the rollback. *)
MergeFailsOpen(p) ==
    /\ pc[p] = "merge"
    /\ UNCHANGED <<dbvars, history>>
    /\ Ends(p)

(* A statement fails, or the row is not found: the pairs merged so far     *)
(* stay merged.                                                            *)
MergeFails(p) ==
    /\ pc[p] = "merge"
    /\ RollsBack(p)
    /\ Ends(p)

(* The tables of the source cannot be read: the handle that is rolled back *)
(* is the one of the source, and the transaction stays open until both     *)
(* databases are closed.                                                   *)
SourceUnreadable(p) ==
    /\ pc[p] = "merge"
    /\ Goes(p, "close")
    /\ UNCHANGED <<dbvars, locals, history>>

Closes(p) ==
    /\ pc[p] = "close"
    /\ RollsBack(p)
    /\ Ends(p)

(* The merge is whole if it has read the row of the source and all of its  *)
(* tables, and the row of the destination as it still is: its total has    *)
(* not changed since, and it was not renamed and added again.              *)
Whole(p, i) ==
    /\ srcifinfo[p].total = Src(p).total
    /\ datalist[p] = Src(p).data
    /\ dstifinfo[p].total = db[i].total
    /\ ifaceid[p] = i

Garbles(p) ==
    /\ srcifinfo[p] # Src(p)
    /\ TakesCounters(srcifinfo[p], dstifinfo[p])

db_committransaction(p) ==
    /\ pc[p] = "commit"
    /\ db' = txn
    /\ lock' = Nobody
    /\ txn' = NoTable
    /\ flawed' = flawed \cup
          UNION {{i, ifaceid[p]} : i \in {j \in IdOf(db, Dst(p)) : ~Whole(p, j)}}
    /\ garbled' = garbled \cup {i \in IdOf(db, Dst(p)) : Garbles(p)}
    /\ IF todo[p] = {Pair(p)}
       THEN Ends(p)
       ELSE /\ todo' = [todo EXCEPT ![p] = @ \ {Pair(p)}]
            /\ pc' = [pc EXCEPT ![p] = "dstid"]
            /\ Returns(p)
            /\ UNCHANGED <<cmd, started, saves>>

CommitFails(p) ==
    /\ pc[p] = "commit"
    /\ RollsBack(p)
    /\ Ends(p)

mergeinterface(p) ==
    \/ FindsDestination(p)
    \/ \E now \in Times : AddsDestination(p, now)
    \/ ReadsDestination(p)
    \/ db_begintransaction(p)
    \/ Merges(p)
    \/ MergeFails(p)
    \/ SourceUnreadable(p)
    \/ Closes(p)
    \/ db_committransaction(p)
    \/ CommitFails(p)
-----------------------------------------------------------------------------
(***************************************************************************)
(* The daemon adds the interfaces it finds when it starts, and stores what *)
(* it has counted for an interface: the traffic is added to what the row   *)
(* has.                                                                    *)
(***************************************************************************)
DaemonAdds(n, now) ==
    /\ saves < MaxSaves
    /\ Autocommits(db_addinterface(db, n, now))
    /\ saves' = saves + 1
    /\ UNCHANGED <<procvars, started>>

Saved(row, now) ==
    [row EXCEPT !.total = @ + 1, !.updated = now, !.counter = now,
                !.data = [t \in Tables |-> @[t] + 1]]

DaemonSaves(i, now) ==
    /\ saves < MaxSaves
    /\ lock = Nobody
    /\ db' = [db EXCEPT ![i] = Saved(@, now)]
    /\ saves' = saves + 1
    /\ UNCHANGED <<lock, txn, procvars, started, history>>

handlers(p) ==
    \/ \E c \in Commands : Invoke(p, c)
    \/ Refused(p)
    \/ Accepted(p)
    \/ AcceptedUnread(p)
    \/ Opens(p)
    \/ LooksUp(p)
    \/ \E now \in Times : Executes(p, now)
    \/ Fails(p)
    \/ Killed(p)

Next ==
    \/ \E p \in Proc : handlers(p) \/ mergeinterface(p)
    \/ \E now \in Times :
          \/ \E n \in Name : DaemonAdds(n, now)
          \/ \E i \in Ids(db) : DaemonSaves(i, now)

Spec == Init /\ [][Next]_vars
-----------------------------------------------------------------------------
(***************************************************************************)
(* Properties.                                                             *)
(***************************************************************************)
(* A row's total is what each of its tables holds, whichever statement     *)
(* fails or process is killed, unless a merge has not read all of what it  *)
(* merges, or has set the total from a row that changed after it was read. *)
TotalIsSumOfData ==
    \A i \in Ids(db) \ flawed, t \in Tables : db[i].total = db[i].data[t]

(* The counter of a row is the one read at the time "updated" names, but   *)
(* for the rows a merge has given both from a source it had not read: a    *)
(* daemon that finds only one of them replaced would count from another    *)
(* machine's counter.                                                      *)
CounterIsOfUpdate ==
    \A i \in Ids(db) \ garbled : db[i].counter # 0 => db[i].counter = db[i].updated

(* All of it together is a table of named interfaces of which each command *)
(* changes one at a time in one step, although rows are found by a name    *)
(* and changed by an id that may have been given to another row meanwhile; *)
(* tables of an interface differ only if a merge into it was not whole.    *)
Table == INSTANCE InterfaceTable WITH
             Amount <- {1} \cup {Source[n].total : n \in DOMAIN Source},
             table <- [n \in {db[i].name : i \in Ids(db)} |->
                          LET i == db_getinterfaceid(db, n)
                          IN  [alias |-> db[i].alias, traffic |-> db[i].data,
                               flawed |-> i \in flawed]]

TableSpec == Table!Spec
=============================================================================
