------------------------------- MODULE Daemon -------------------------------
(***************************************************************************)
(* vnstatd between the kernel's counters and the database: the data cache  *)
(* is filled from the database, every update adds the traffic of each      *)
(* interface to its log, and a save writes all logs in one transaction,    *)
(* any statement of which may fail.  The daemon may be told to reload or   *)
(* to exit and may be killed between any two steps, and the vnstat command *)
(* adds and removes interfaces meanwhile.                                  *)
(*                                                                         *)
(* One cache entry is kept per interface, which is what the code does as   *)
(* long as AlwaysAddNewInterfaces is off (its default).  The log of an     *)
(* entry is its amount of traffic; which five minutes the amounts belong   *)
(* to, when a save is due and how a counter difference becomes an amount   *)
(* are left open here.                                                     *)
(***************************************************************************)
EXTENDS Sqlite

CONSTANTS
    LostReads,      \* a query step may fail without db_errcode being set
    MaxCounter,     \* bound: counter values 0 .. MaxCounter
    MaxChange,      \* bound: traffic of one update
    MaxCounted      \* bound: traffic counted per interface

ASSUME LostReadsAssumption == LostReads \in BOOLEAN
ASSUME BoundsAssumption ==
    MaxCounter \in Nat /\ MaxChange \in Nat /\ MaxCounted \in Nat

VARIABLES
    pc,            \* where the daemon is
    todo,          \* entries the loop over the cache has not reached
    goal,          \* what follows the flush in progress
    sync,          \* DSTATE: entries added now start with a counter sync
    noremove,      \* DSTATE: --noremove
    bootdetected,  \* DSTATE: counters in the database are from before a boot
    dbretrycount,  \* DSTATE: failed writes since the last one that worked
    cache,         \* interfaces that have a cache entry
    filled,        \* entries initialised from the database
    active,        \* entries being monitored
    syncneeded,    \* entries whose next update only takes the counters over
    curr,          \* currx/curtx
    logged,        \* entries whose log is not empty
    pend,          \* traffic in the log
    ended,         \* how the last daemon process ended
    counted        \* history: all traffic ever added to a log

statevars == <<sync, noremove, bootdetected>>
cachevars == <<cache, filled, active, syncneeded, curr, logged, pend>>
vars == <<sqlitevars, pc, todo, goal, statevars, dbretrycount,
          cachevars, ended, counted>>

Amounts == [Iface -> Nat]
NoAmounts == [i \in Iface |-> 0]

Places == {"down", "loop", "process", "begin", "flush", "flushend",
           "cleanup", "rescan", "reload", "exit"}

TypeOK ==
    /\ SqliteTypeOK
    /\ pc \in Places
    /\ todo \in SUBSET cache
    /\ goal \in {"cleanup", "reload", "exit"}
    /\ sync \in BOOLEAN
    /\ noremove \in BOOLEAN
    /\ bootdetected \in BOOLEAN
    /\ dbretrycount \in 0 .. DBRETRYLIMIT
    /\ cache \in SUBSET Iface
    /\ filled \in SUBSET cache
    /\ active \in SUBSET cache
    /\ syncneeded \in SUBSET cache
    /\ curr \in Amounts
    /\ logged \in SUBSET filled
    /\ pend \in Amounts
    /\ ended \in {"none", "success", "failure", "dberror", "killed"}
    /\ counted \in Amounts

Init ==
    /\ SqliteInit
    /\ pc = "down"
    /\ todo = {}
    /\ goal = "cleanup"
    /\ sync = FALSE
    /\ noremove = FALSE
    /\ bootdetected = FALSE
    /\ dbretrycount = 0
    /\ cache = {}
    /\ filled = {}
    /\ active = {}
    /\ syncneeded = {}
    /\ curr = NoAmounts
    /\ logged = {}
    /\ pend = NoAmounts
    /\ ended = "none"
    /\ counted = NoAmounts
-----------------------------------------------------------------------------
(***************************************************************************)
(* The process starts and ends.                                            *)
(***************************************************************************)
datacache_clear ==
    /\ cache' = {}
    /\ filled' = {}
    /\ active' = {}
    /\ syncneeded' = {}
    /\ curr' = NoAmounts
    /\ logged' = {}
    /\ pend' = NoAmounts

(* The memory of the process is gone, and with it what was not committed. *)
Ends(how) ==
    /\ pc' = "down"
    /\ ended' = how
    /\ todo' = {}
    /\ goal' = "cleanup"
    /\ sync' = FALSE
    /\ noremove' = FALSE
    /\ bootdetected' = FALSE
    /\ dbretrycount' = 0
    /\ datacache_clear
    /\ UNCHANGED counted

(* Without a flush: every caller passes fataldberror.  "dberror" is an     *)
(* exit from handledatabaseerror, "failure" one from elsewhere.            *)
errorexitdaemon(how) == Ends(how) /\ HandleLost

Started ==
    /\ pc = "down"
    /\ pc' = "loop"
    /\ ended' = "none"
    /\ sync' \in BOOLEAN
    /\ noremove' \in BOOLEAN
    /\ bootdetected' \in BOOLEAN
    /\ UNCHANGED <<todo, goal, dbretrycount, cachevars, counted>>

Start == Started /\ UNCHANGED sqlitevars

(* preparedatabase finds no interface: addinterfaces adds the available    *)
(* ones with their counters.                                               *)
addinterfaces(found, counter) ==
    [known |-> found, total |-> NoAmounts, counter |-> counter]

StartAdding ==
    /\ Started
    /\ db.known = {}
    /\ \E found \in SUBSET Iface \ {{}}, counter \in [Iface -> 0 .. MaxCounter] :
          /\ \A i \in Iface \ found : counter[i] = 0
          /\ AutocommitWrites(addinterfaces(found, counter))

Killed ==
    /\ pc # "down"
    /\ Ends("killed")
    /\ HandleLost
-----------------------------------------------------------------------------
(***************************************************************************)
(* The main loop outside updates.  dbifcount is the number of entries.     *)
(***************************************************************************)
filldatabaselist ==
    /\ pc = "loop" /\ cache = {}
    /\ cache' = db.known
    /\ active' = db.known
    /\ syncneeded' = IF sync THEN db.known ELSE {}
    /\ sync' = TRUE
    /\ UNCHANGED <<sqlitevars, pc, todo, goal, noremove,
                   bootdetected, dbretrycount, filled, curr, logged, pend,
                   ended, counted>>

ListUnreadable ==
    /\ pc = "loop" /\ cache = {}
    /\ ReadFaults # {}
    /\ errorexitdaemon("failure")

(* The list of visible interfaces is not the one of the check before.  A   *)
(* check that finds no change does nothing.                                *)
interfacechangecheck(visible) ==
    LET vanished == {i \in filled \cap active : i \notin visible}
        appeared == {i \in filled \ active : i \in visible}
    IN  /\ pc = "loop" /\ cache # {}
        /\ vanished \cup appeared # {}
        /\ active' = (active \ vanished) \cup appeared
        /\ curr' = [i \in Iface |-> IF i \in vanished \cup appeared
                                    THEN 0 ELSE curr[i]]
        /\ UNCHANGED <<sqlitevars, pc, todo, goal, statevars,
                       dbretrycount, cache, filled, syncneeded, logged, pend,
                       ended, counted>>

(* An update is due. *)
BeginUpdate ==
    /\ pc = "loop" /\ cache # {}
    /\ pc' = "process"
    /\ todo' = cache
    /\ UNCHANGED <<sqlitevars, goal, statevars, dbretrycount, cachevars,
                   ended, counted>>

(* SIGHUP, or SIGINT or SIGTERM, is found pending. *)
handleintsignals ==
    /\ pc = "loop"
    /\ goal' \in {"reload", "exit"}
    /\ pc' = "begin"
    /\ UNCHANGED <<sqlitevars, todo, statevars, dbretrycount,
                   cachevars, ended, counted>>
-----------------------------------------------------------------------------
(***************************************************************************)
(* processdatacache: one step per entry.                                   *)
(***************************************************************************)
(* initcachevalues.  When the query's step fails unnoticed, the counters   *)
(* are those of an interfaceinfo that was never written.                   *)
InitialCounters(i) ==
    CASE i \in filled  -> {curr[i]}
      [] bootdetected -> {0}
      [] LostReads    -> 0 .. MaxCounter
      [] OTHER        -> {db.counter[i]}

NotInitialised(i) ==
    /\ pc = "process" /\ i \in todo \ filled
    /\ i \notin db.known \/ ReadFaults # {} \/ LostReads
    /\ todo' = todo \ {i}
    /\ UNCHANGED <<sqlitevars, pc, goal, statevars, dbretrycount,
                   cachevars, ended, counted>>

Reached(i) ==
    /\ pc = "process" /\ i \in todo
    /\ i \in filled \cup db.known
    /\ todo' = todo \ {i}
    /\ filled' = filled \cup {i}
    /\ UNCHANGED <<sqlitevars, pc, goal, statevars, dbretrycount,
                   cache, ended>>

(* The entry is inactive, or no sync is needed and its last update is less *)
(* than a day ahead of the clock.                                          *)
LeftAlone(i) ==
    /\ Reached(i)
    /\ i \notin active \cap syncneeded
    /\ \E x \in InitialCounters(i) : curr' = [curr EXCEPT ![i] = x]
    /\ UNCHANGED <<active, syncneeded, logged, pend, counted>>

(* getifinfo fails. *)
NotAvailable(i) ==
    /\ Reached(i)
    /\ i \in active
    /\ active' = active \ {i}
    /\ \E x \in InitialCounters(i) : curr' = [curr EXCEPT ![i] = x]
    /\ UNCHANGED <<syncneeded, logged, pend, counted>>

(* The counters are taken over without counting what was transferred: a    *)
(* sync is needed, or the last update is not 1 to 360 seconds ago.         *)
TakenOver(i) ==
    /\ Reached(i)
    /\ i \in active
    /\ \E x \in 0 .. MaxCounter : curr' = [curr EXCEPT ![i] = x]
    /\ syncneeded' = syncneeded \ {i}
    /\ UNCHANGED <<active, logged, pend, counted>>

(* The transferred amount goes to the log; without any (or with more than  *)
(* the interface could have transferred) only if TrafficlessEntries is on. *)
Counted(i, amount) ==
    /\ Reached(i)
    /\ i \in active \ syncneeded
    /\ counted[i] + amount <= MaxCounted
    /\ \E x \in 0 .. MaxCounter : curr' = [curr EXCEPT ![i] = x]
    /\ logged' \in {logged \cup {i}} \cup (IF amount = 0 THEN {logged} ELSE {})
    /\ pend' = [pend EXCEPT ![i] = @ + amount]
    /\ counted' = [counted EXCEPT ![i] = @ + amount]
    /\ UNCHANGED <<active, syncneeded>>

(* The last update is more than a day ahead of the clock. *)
ClockOff(i) ==
    /\ pc = "process" /\ i \in todo \cap (active \ syncneeded)
    /\ i \in filled \cup db.known
    /\ errorexitdaemon("failure")

(* A save may be due, or forced, as well (checkdbsaveneed decides that     *)
(* before the entries are processed; nothing looks at it until now).       *)
ProcessDone ==
    /\ pc = "process" /\ todo = {}
    /\ bootdetected' = FALSE
    /\ pc' \in {"begin", "loop"}
    /\ goal' = "cleanup"
    /\ UNCHANGED <<sqlitevars, todo, sync, noremove, dbretrycount,
                   cachevars, ended, counted>>

processdatacache ==
    \/ ProcessDone
    \/ \E i \in todo :
          \/ NotInitialised(i)
          \/ LeftAlone(i)
          \/ NotAvailable(i)
          \/ TakenOver(i)
          \/ \E amount \in 0 .. MaxChange : Counted(i, amount)
          \/ ClockOff(i)
-----------------------------------------------------------------------------
(***************************************************************************)
(* flushcachetodisk: one step per entry, and a step that ends it.          *)
(***************************************************************************)
(* Mutant of GivesUp: failed writes are not limited. *)
GivesUpIfFatal(e) == db_iserrcodefatal(e)

GivesUp(e) ==
    \/ db_iserrcodefatal(e)
    \/ (~db_isdiskfull(e) /\ dbretrycount + 1 > DBRETRYLIMIT)

(* The daemon exits, or goes on at "place" with "effect" on the handle. *)
handledatabaseerror(e, place, effect) ==
    \/ /\ GivesUp(e)
       /\ errorexitdaemon("dberror")
    \/ /\ ~GivesUp(e)
       /\ effect
       /\ pc' = place
       /\ dbretrycount' = IF db_isdiskfull(e) THEN dbretrycount
                                              ELSE dbretrycount + 1
       /\ UNCHANGED <<todo, goal, statevars, cachevars, ended,
                      counted>>

FlushBegins ==
    /\ pc = "begin"
    /\ db_begintransaction
    /\ db_errcode' = "OK"
    /\ todo' = cache
    /\ pc' = "flush"
    /\ UNCHANGED <<goal, statevars, dbretrycount, cachevars,
                   ended, counted>>

(* BEGIN inside a transaction that was left open fails as well. *)
FlushNotBegun ==
    /\ pc = "begin"
    /\ \E e \in IF open THEN {"ERROR"} ELSE Faults :
          handledatabaseerror(e, goal, BeginFails(e))

Visits(i) == pc = "flush" /\ i \in todo

Stays == UNCHANGED <<goal, statevars, dbretrycount, cachevars,
                     ended, counted>>

(* The interface is not in the database any more, or seems not to be. *)
SkipEntry(i) ==
    /\ Visits(i)
    /\ i \notin txn.known \/ LostReads
    /\ todo' = todo \ {i}
    /\ Stays
    /\ UNCHANGED <<sqlitevars, pc>>

CountUnreadable(i) ==
    /\ Visits(i)
    /\ \E e \in ReadFaults : \E gone \in RollsBackItself(e) :
          handledatabaseerror(e, "flushend", StatementFails(txn, e, gone))

(* Mutants of Removable: without the tests of noremove and of the log. *)
RemovableAlways(i) == i \notin active /\ i \notin logged /\ curr[i] = 0

RemovableWithLog(i) == ~noremove /\ i \notin active /\ curr[i] = 0

(* Disabled, never seen any data since, and nothing to be saved. *)
Removable(i) ==
    ~noremove /\ i \notin active /\ i \notin logged /\ curr[i] = 0

(* Mutant of Stored: the counters are forgotten. *)
StoredWithoutCounters(i) ==
    IF i \in logged THEN db_addtraffic(txn, i, pend[i]) ELSE txn

Stored(i) ==
    IF i \in logged
    THEN db_setcounters(db_addtraffic(txn, i, pend[i]), i, curr[i])
    ELSE txn

(* Every statement works.  The two that set updated and active change      *)
(* nothing that is kept here.                                              *)
StoreEntry(i) ==
    /\ Visits(i)
    /\ i \in txn.known
    /\ Removable(i) => (txn.total[i] # 0 \/ LostReads)
    /\ txn' = Stored(i)
    /\ todo' = todo \ {i}
    /\ Stays
    /\ UNCHANGED <<db, open, db_intransaction, db_errcode, pc>>

(* When db_getinterfaceid does not find the row, db_addtraffic_dated adds  *)
(* one, and the name is not unique then.                                   *)
TrafficFaults ==
    Faults \cup IF ReadFaults # {} \/ LostReads THEN {"ERROR"} ELSE {}

TrafficNotAdded(i) ==
    /\ Visits(i)
    /\ i \in txn.known \cap logged
    /\ \E e \in TrafficFaults : \E gone \in RollsBackItself(e) :
          handledatabaseerror(AddTrafficCode(e, gone), "flushend",
                              AddTrafficFails(e, gone))

(* The database between two statements of the entry that follow            *)
(* db_addtraffic.                                                          *)
Written(i) ==
    {Stored(i)} \cup
    IF i \in logged THEN {db_addtraffic(txn, i, pend[i])} ELSE {}

(* db_setcounters, db_removeinterface, db_setupdated or db_setactive fails, *)
(* or does not find the row it is to update: an error without a code.      *)
UpdateFaults == Faults \cup IF LostReads THEN {"OK"} ELSE {}

RowNotUpdated(i) ==
    /\ Visits(i)
    /\ i \in txn.known
    /\ \E e \in UpdateFaults : \E gone \in RollsBackItself(e), done \in Written(i) :
          handledatabaseerror(e, "flushend", StatementFails(done, e, gone))

(* The rest of the entries is not visited. *)
RemoveEntry(i) ==
    /\ Visits(i)
    /\ i \in txn.known
    /\ Removable(i)
    /\ txn.total[i] = 0 \/ LostReads
    /\ \/ txn' = db_removeinterface(txn, i)
       \/ (LostReads /\ txn' = txn)
    /\ pc' = "flushend"
    /\ Stays
    /\ UNCHANGED <<db, open, db_intransaction, db_errcode, todo>>

(* The totals cannot be read.  The removal that follows may work, and then *)
(* the error is not handled.                                               *)
TotalsUnreadable(i) ==
    /\ Visits(i)
    /\ i \in txn.known
    /\ Removable(i)
    /\ \E e \in ReadFaults : \E gone \in RollsBackItself(e) :
          StatementFails(txn, e, gone)
    /\ pc' = "flushend"
    /\ Stays
    /\ UNCHANGED todo

LoopOver == pc = "flushend" \/ (pc = "flush" /\ todo = {})

(* Mutant of FlushCommits: the failures before it are not forgotten. *)
CommitsAndCounts ==
    /\ LoopOver
    /\ db_intransaction /\ db_errcode = "OK"
    /\ db_committransaction
    /\ logged' = {}
    /\ pend' = NoAmounts
    /\ todo' = {}
    /\ pc' = goal
    /\ UNCHANGED <<goal, statevars, dbretrycount, cache, filled, active,
                   syncneeded, curr, ended, counted>>

FlushCommits ==
    /\ LoopOver
    /\ db_intransaction /\ db_errcode = "OK"
    /\ db_committransaction
    /\ logged' = {}
    /\ pend' = NoAmounts
    /\ dbretrycount' = 0
    /\ todo' = {}
    /\ pc' = goal
    /\ UNCHANGED <<goal, statevars, cache, filled, active,
                   syncneeded, curr, ended, counted>>

FlushNotCommitted ==
    /\ LoopOver
    /\ db_intransaction /\ db_errcode = "OK"
    /\ \E e \in Faults : handledatabaseerror(e, goal, CommitFails(e))

FlushRollsBack ==
    /\ LoopOver
    /\ ~(db_intransaction /\ db_errcode = "OK")
    /\ db_rollbacktransaction
    /\ todo' = {}
    /\ pc' = goal
    /\ Stays

flushcachetodisk ==
    \/ FlushBegins
    \/ FlushNotBegun
    \/ \E i \in Iface :
          \/ SkipEntry(i)
          \/ CountUnreadable(i)
          \/ StoreEntry(i)
          \/ TrafficNotAdded(i)
          \/ RowNotUpdated(i)
          \/ RemoveEntry(i)
          \/ TotalsUnreadable(i)
    \/ FlushCommits
    \/ FlushNotCommitted
    \/ FlushRollsBack
-----------------------------------------------------------------------------
(***************************************************************************)
(* What follows a flush.                                                   *)
(***************************************************************************)
(* A count that cannot be read is taken for zero. *)
cleanremovedinterfaces ==
    /\ pc = "cleanup"
    /\ \E missing \in SUBSET cache :
          /\ cache \ db.known \subseteq missing
          /\ missing \cap db.known # {} => (ReadFaults # {} \/ LostReads)
          /\ cache' = cache \ missing
          /\ filled' = filled \ missing
          /\ active' = active \ missing
          /\ syncneeded' = syncneeded \ missing
          /\ logged' = logged \ missing
          /\ curr' = [i \in Iface |-> IF i \in missing THEN 0 ELSE curr[i]]
          /\ pend' = [i \in Iface |-> IF i \in missing THEN 0 ELSE pend[i]]
    /\ pc' = "rescan"
    /\ todo' = {}
    /\ UNCHANGED <<sqlitevars, goal, statevars, dbretrycount,
                   ended, counted>>

(* If RescanDatabaseOnSave is on and the list of interfaces can be read. *)
rescandatabaseforinterfaces ==
    /\ pc = "rescan"
    /\ \E found \in {{}, db.known \ cache} :
          /\ cache' = cache \cup found
          /\ active' = active \cup found
          /\ syncneeded' = syncneeded \cup found
    /\ pc' = "loop"
    /\ UNCHANGED <<sqlitevars, todo, goal, statevars, dbretrycount, filled,
                   curr, logged, pend, ended, counted>>

(* SIGHUP: the cache is dropped and the database reopened. *)
Reload ==
    /\ pc = "reload"
    /\ datacache_clear
    /\ HandleLost
    /\ pc' = "loop"
    /\ todo' = {}
    /\ UNCHANGED <<goal, statevars, dbretrycount, ended, counted>>

ReloadFails ==
    /\ pc = "reload"
    /\ Faults # {}
    /\ errorexitdaemon("failure")

Exit ==
    /\ pc = "exit"
    /\ Ends("success")
    /\ HandleLost
-----------------------------------------------------------------------------
(***************************************************************************)
(* The vnstat command adds or removes an interface.                        *)
(***************************************************************************)
VnstatAdds(i) ==
    /\ i \notin db.known
    /\ AutocommitWrites(db_addinterface(db, i))
    /\ UNCHANGED <<pc, todo, goal, statevars, dbretrycount,
                   cachevars, ended, counted>>

VnstatRemoves(i) ==
    /\ i \in db.known
    /\ AutocommitWrites(db_removeinterface(db, i))
    /\ UNCHANGED <<pc, todo, goal, statevars, dbretrycount,
                   cachevars, ended, counted>>
-----------------------------------------------------------------------------
Next ==
    \/ Start
    \/ StartAdding
    \/ Killed
    \/ filldatabaselist
    \/ ListUnreadable
    \/ \E visible \in SUBSET Iface : interfacechangecheck(visible)
    \/ BeginUpdate
    \/ handleintsignals
    \/ processdatacache
    \/ flushcachetodisk
    \/ cleanremovedinterfaces
    \/ rescandatabaseforinterfaces
    \/ Reload
    \/ ReloadFails
    \/ Exit
    \/ \E i \in Iface : VnstatAdds(i) \/ VnstatRemoves(i)

Spec == Init /\ [][Next]_vars
-----------------------------------------------------------------------------
(***************************************************************************)
(* Properties.                                                             *)
(***************************************************************************)
(* No traffic is stored twice: what a row holds and what the log still     *)
(* holds never exceed what was counted, whichever statements failed and    *)
(* however often a flush was tried again (flushcachetodisk clears the logs *)
(* only after the commit, and rolls back before any other return).         *)
NeverTwice == \A i \in Iface : db.total[i] + pend[i] <= counted[i]

(* No path out of a flush leaves a transaction open: it would hold the     *)
(* write lock until the next save, whose BEGIN would fail.  And            *)
(* db_intransaction is set whenever a transaction is open.                 *)
TransactionClosed ==
    /\ open => db_intransaction
    /\ pc \notin {"flush", "flushend"} => ~db_intransaction

(* A row's totals and its counters change together, by what was pending    *)
(* and to the counters it was pending at: a daemon started from the row    *)
(* goes on counting where the stored traffic ends.                         *)
TotalsWithCounters ==
    [][\A i \in db.known \cap db'.known :
          (db'.total[i] # db.total[i] \/ db'.counter[i] # db.counter[i])
          => /\ db'.total[i] = db.total[i] + pend[i]
             /\ db'.counter[i] = curr[i]]_vars

(* Every log a flush clears is in the database then.  What the comment     *)
(* above the clearing loop says, daemon.c:744.                             *)
ClearedIsStored ==
    \A i \in cache \cap cache' :
        (pend'[i] < pend[i] /\ i \in db.known)
        => db'.total[i] = db.total[i] + pend[i]

ClearedMeansStored == [][ClearedIsStored]_vars

(* It is so in a daemon started with --noremove. *)
ClearedMeansStoredIfNoremove == [][noremove => ClearedIsStored]_vars

(* The daemon keeps the promise of the ledger: a flush stores all that is  *)
(* pending or nothing, and removes a row only if it holds no traffic.      *)
Ledger == INSTANCE TrafficLedger WITH
              Amount <- 0 .. MaxChange,
              known <- db.known, stored <- db.total, pending <- pend

LedgerSpec == Ledger!Spec
=============================================================================
