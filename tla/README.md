# vnStat: a TLA+ verification project

vnStat counts network traffic. A daemon, `vnstatd`, reads the byte counters that the
kernel keeps per interface, turns differences of them into amounts of traffic, caches
these in memory and writes them to an SQLite database every few minutes; the `vnstat`
command shows what is in the database and changes it. This directory holds TLA+ models of
the parts in which something can go wrong that a test would hardly reach, the TLC runs
that check them, and TLAPS proofs for every value of the constants. Source paths below are
relative to `src/` of the repository.

## 1. Inventory

| part (source) | state | operations | what makes it correct |
|---|---|---|---|
| data cache (`daemon.c`, `datacache.c`) | one entry per interface: `filled`, `active`, `syncneeded`, `currx`/`curtx`, `updated`, a log of amounts per five minutes | `filldatabaselist`, `initcachevalues`, `processdatacache`, `interfacechangecheck`, `cleanremovedinterfaces`, `rescandatabaseforinterfaces`, SIGHUP | a log is kept until it is in the database and no longer |
| flush (`flushcachetodisk`, `handledatabaseerror`) | the transaction on the handle, `dbretrycount` | one transaction for all logs, counters, times, removals | all or nothing; nothing twice; the daemon survives what it says it survives |
| database handle (`dbsql.c`) | `db`, `db_errcode`, `db_intransaction` | begin, commit, rollback, exec, row operations | no transaction stays open; the error that is reported is the one that happened |
| counters (`processifinfo`, `countercalc`, `getifinfo`) | previous and current counter, interval, `64bitInterfaceCounters` | difference, rollover, 32-bit workaround, sync | no phantom traffic, no lost traffic |
| availability (`interfacechangecheck`, `detectboot`) | `iflisthash`, `active`, btime | hotplug, reboot | an available interface is monitored; counters of before a boot are not used |
| main loop (`vnstatd.c`) | `prevdbupdate`, `prevdbsave`, `updateinterval`, `saveinterval`, `forcesave`, `dodbsave`, `intsignal` | poll, update, save, signals, `waittimesync` | saves come in time; signals are acted on |
| bandwidth limits (`ibw.c`) | a list of limit, retries, time of detection | `ibwcfgread`, `ibwadd`, `ibwget` | configured limits win; a detected one follows the interface |
| configuration (`cfg.c`) | the settings | `loadcfg`, `validatecfg` | ranges hold, dependent intervals agree, rollovers are noticed |
| resolution tables (`dbsql.c`) | six tables per interface | `db_addtraffic_dated`, `db_removeoldentries`, `db_removedisabledresolutionentries` | a row is complete; retention keeps the newest and the largest |
| start and end (`vnstatd.c`, `daemon.c`, `dbaccess.c`) | the database file, the pid file, options | `db_open`, `preparedatabase`, legacy import, `addinterfaces`, `daemonize`, SIGHUP | one daemon per pid file; legacy data is imported; nothing from before a row is counted |
| changes by the command (`vnstat_func.c`, `dbmerge.c`) | the row looked up, the transaction of a merge, two databases on one global handle | `--add`, `--remove`, `--rename`, `--setalias`, `--merge` | a change is made to what was checked; a merge of an interface is done or not |
| queries by the command (`vnstat_func.c`, `dbshow.c`, `dbxml.c`, `dbjson.c`, `percentile.c`, `misc.c`) | options, the interface selected, what was read | `parseargs`, selection, lists, dumps, `--alert`, 95th percentile, estimates | what is shown is what was asked for; the exit status of an alert is right |
| live traffic (`traffic.c`) | two samples | sampling, output | not modelled |
| layout (`dbshow.c`, `dbxml.c`, `dbjson.c`, `image*.c`, `vnstati.c`) | none | layout | not modelled |
| users, groups, directories (`id.c`, `fs.c`) | none | calls of the system | steps that may fail |

How they interact. The main loop calls `interfacechangecheck`, `processdatacache` (which
calls `getifinfo`, `processifinfo`, `ibwget` and, when a save is due, `flushcachetodisk`,
`cleanremovedinterfaces`, `db_removeoldentries`, `rescandatabaseforinterfaces`) and
`handleintsignals`. The daemon is one thread; what runs concurrently is the signal
handler, which writes `intsignal`, the kernel, which changes counters and interfaces, and
other processes on the same database file: `vnstat`, which adds, removes and renames
interfaces, and any reader that holds a lock. Failure comes from SQLite (full disk, I/O
error, locks), from the process being killed at any point, and from reboots.

The hard behaviours: a statement that fails in the middle of a flush, with SQLite rolling
back by itself or not; a flush that is tried again; a kill or a reboot between two writes
that belong together; a kernel counter that starts from zero unnoticed, or rolls over; an
interface that goes and comes between two looks at it; a row that is removed while its
traffic is in the cache. PROJECT.json lists each at its line under "hazards".

## 2. Modules

| module | models | uses | runs |
|---|---|---|---|
| `Sqlite` | the handle: transactions, result codes, rows of the `interface` table | | in `Daemon` |
| `Daemon` | cache, update, flush, failures, reload, exit, kill, the command's changes | `Sqlite` | `daemon`, `v_removal` |
| `Retries` | the saves that are tried before the daemon exits, counted beside it | `Daemon` | `retries` |
| `TrafficLedger` | abstract: what the daemon promises about counted traffic | | refined by `Daemon` |
| `Monitor` | one interface: kernel counter, cache entry, row, availability | | `monitor`, `v_boot`, `v_tracking` |
| `MainLoop` | the main loop against the clock and signals, `waittimesync` | | `mainloop` |
| `Calendar` | which row of which table a time belongs to | | in `Data` |
| `Data` | the six tables: saves, retention, disabled resolutions, start, reload | `Calendar` | `data` |
| `Settings` | what is made of a configuration file | | in `Bandwidth` |
| `Bandwidth` | the limit in force of each interface | `Settings` | `bandwidth` |
| `Startup` | start, end and pid file of several daemons, legacy import | | `startup` |
| `InterfaceTable` | abstract: interfaces with names that are unique, changed one at a time | | refined by `Command` |
| `Command` | `--add`, `--remove`, `--rename`, `--setalias`, `--merge` by several processes | | `command` |
| `Listing` | ranges, limits, orders, the 95th percentile, estimates | | in `Query` |
| `Query` | options, selection, lists, dumps, `--alert` over a database that changes | `Listing` | `query` |
| `DaemonProofs`, `MonitorProofs`, `MainLoopProofs`, `DataProofs`, `StartupProofs`, `CommandProofs`, `BandwidthProofs`, `QueryProofs` | what section 5 says of the module each is named after | the module | |
| `MC...` | constants and symmetry for TLC | | |

The modules meet in what one takes from another as a parameter or a step: a flush is many
steps in `Daemon`, one step that works or not in `Data` and `MainLoop`, and an addition of
one in `Command`; the row a start leaves behind in `Startup` is what `Monitor` starts from,
and how often a flush is tried before the daemon exits (`Retries`) is the bound `MainLoop`
has on its `Fails`; the intervals `Settings` ends with are the constants of `MainLoop`. They
are not composed to one state space, which TLC could not search.

Of the plan every module is written, and of every safety property that a run expects to
hold there is a proof; section 5 says under which assumptions, and what stays with TLC.

## 3. The models and the code

### Sqlite

`db` is the committed database, `txn` what the open transaction sees, `open` the negation
of `sqlite3_get_autocommit`, `db_intransaction` and `db_errcode` the two globals of
`dbsql.c`. A row keeps one number for `rxtotal`/`txtotal` and one for
`rxcounter`/`txcounter`, since the code treats the directions alike. The engine is
external: it may fail any statement with a code of `Faults`, and after "FULL" or "IOERR"
it may or may not have rolled back by itself, as SQLite documents and as
`db_committransaction` expects when it tests autocommit. A ROLLBACK without an open
transaction fails with SQLITE_ERROR ("ERROR"), which `db_iserrcodefatal` calls fatal.

### Daemon

`pc` says where the daemon is: the main loop, in `processdatacache` or in
`flushcachetodisk`, which are loops over the cache with one step per entry (`todo` are the
entries not reached; their order is that of the linked list, which depends on the history,
so each entry may be next). Each step is the whole body of the loop for one entry: all
that may happen to it, including each point of failure, is a disjunct. The steps are
separate so that the process may be killed between them; no other process can write in
between since `BEGIN IMMEDIATE` holds the lock. `goal` is what follows the flush: the rest
of `processdatacache`, the rest of SIGHUP, or the end of the process.

`LostReads` lets a query's `sqlite3_step` fail without any trace, as the code ignores its
result (`db_getinterfacecountbyname`, `db_getinterfaceid`, `db_getinterfaceinfo`).
`counted` is a history variable: all that was ever added to a log. `Retries` adds one that
does not use `dbretrycount`: `tries`, the saves begun since one was committed. Saves that
wait for a full disk, or that end because totals cannot be read, which is not handled as an
error, count for nothing; when a row seems to be missing, the commit that is tried all the
same is another try.

Left open, each as a free choice: when updates, saves and signals come, how much an update
counts, which interfaces are visible. Not modelled: `AlwaysAddNewInterfaces` (off by
default; with it, two cache entries may have one name), `--rename`, the
dates of log entries, `updated`.

### TrafficLedger

Per interface an amount is stored and an amount is pending. A save moves all that is
pending, in one step; a save that fails changes nothing. `Daemon` implements it with
`known <- db.known`, `stored <- db.total`, `pending <- pend`. One step of it is there
because the code does it: `SaveAndRemove` loses what is pending of some interfaces when an
interface without traffic is removed (see the first finding).

### Monitor

One interface through everything that happens to its counter. `kernel` is the counter, on
32 or 64 bits (`wide`); `currx`, `age` and the flags are the cache entry, `dbcounter` and
`dbage` the row; `seen` is the interface list `iflisthash` was computed from. Time is
`age`, the time since `updated`, up to the 360 seconds after which no difference is taken.
History variables say what is true and the daemon cannot know: `due` is the traffic since
`currx` was the kernel's counter, `fresh` that the counter has not started from zero since.
`processifinfo` is split by its returns: `Synced`, `NotInTime`, `Counted`; the counted
amount is the operator `rxchange`, which has the 64-bit detection, `countercalc` and the
workaround for 32-bit drivers, with the other direction's part in the decisions as
parameters.

`WidthAssumption` is what the real values satisfy: with bytes as the unit, `BWMAX` stands
for the largest rate that `change / interval / 1024 / 1024 * 8 > BWMAX` lets through; a
32-bit counter is smaller than that rate, and a rollover of 32 bits computed with 64 bits
gives at least 2^64 - 2^32, which is more than that rate over 360 seconds.

### MainLoop

The loop is followed from one look at the clock or at `intsignal` to the next: `pc` is
"top" at its head, "due" before the test whether an update is due, "test" before the test
of `intsignal`, "gosleep" after it and before the sleep, "asleep", "signals" before the
second test and "handling" in `handleintsignals`. The loop that waits for the clock at the
start has the same tests and is told apart by `syncing`. A signal may arrive in every
state (`sighandler`), also while the daemon sleeps, which ends the sleep. SIGINT is handled
like SIGTERM.

The clock ticks while the daemon sleeps and up to `MaxWork` times in one pass outside of
it, so no bound on the time a pass takes is built in: the properties name it. The clock
may also be set (`ClockIsSet`); a time that was taken before then means nothing, so the
bounds are stated for a clock that was not set, and what remains true otherwise is that
the types hold and that `Heeded` does. Seconds and minutes are not told apart: all
intervals are in ticks. A timestamp of 0 is "not set" in the code, and an interval is
always less than the time since 1970 (`BootAssumption`).

Of the cache three things are kept: whether there are entries (`monitored`), whether one is
active (`active`, which chooses the save interval) and from when traffic waits to be saved
(`unsaved`). A flush works, fails and is survived, or ends the daemon (`Fails`), all in one
step, as `Daemon` has its steps; a full disk, which may last for any time, is left out, or
no bound on the time of a save would hold. The steps between two looks at the clock or
at `intsignal` are joined to one, and `current` is forgotten once it is used, which only
saves states. `updated` is a history variable, the time of the last update of this cache.
A reload keeps the settings, and `AlwaysAddNewInterfaces` is off.

### Calendar and Data

Time is a number of five-minute slots, and the row of a time in a table is the number of its
hour, day, month or year, as `db_get_date_generator` groups them, `MonthRotate` included;
months have one length. `Data` has per table and interface a function from such dates to
traffic. A save (`Flush`) writes what is logged under the slots it was counted in, in one
transaction, into every enabled table, or fails and changes nothing; what follows it in
`processdatacache` (`Cleanup`) runs in both cases, and removes old rows if the hour has
changed since the last removal. "order by ... limit -1 offset n" is the set of rows with at
least n rows before them. A start prunes and wipes in two steps, between which it may be
killed; SIGHUP flushes under the old settings and wipes under new ones. History variables:
`stored` is the traffic ever written per slot and table since the table was enabled, `late`
the days for which something, if only an entry without traffic, was written after a removal
that ranked them as past: such a day's row, if it was removed, comes back with no more than
that. Left out: UTC against local time, changes of retention other than 0 and on.

### Settings and Bandwidth

A configuration file is readable or not, and a sequence of lines; a keyword's first line
with a usable value counts, one without a value counts as read. `validatecfg` is a
composition of its checks in their order. The number of a line is cut to 32 bits
(`int32`), and the product of `SaveInterval` with 60 is one of an `int`: where it
overflows, the result is undefined, so `OverflowWraps` has it wrap around, or be compared
as if it had not. `IntRange` stands for 2^31, which is more than TLC can count to: the runs
have 2^19, and files with numbers that are as large beside it; the proofs are for every
`IntRange` larger than `BWMAX`. `Bandwidth` has the linked list `ifacebw` as a
sequence, newest first; names in it are compared with `strcmp` by `ibwadd` and with
`strcasecmp` by `ibwget`, hence `Spelling`. The time of a detection is kept as its age in
minutes up to where the next is due. The file may be edited, and removed, at any time, and
is read at the start and at SIGHUP; links change at any time.

### Startup

A daemon process goes from `db_open` through creation, the version entry, legacy import and
addition of interfaces to the background and the pid file; every statement that commits by
itself is a step, and before each the process may fail or be killed, or another daemon or
`vnstat --add` do a step. The options are those `parseargs` lets pass. A row is worth what
its counters are: "zero" when added, "legacy", or "counters" of the kernel; `phantom`
records a first update that counts from a row younger than six minutes without the kernel's
counters. Addition, counters and removal of a row are three commits, in a start (`AddsRow`)
as in a running daemon with `AlwaysAddNewInterfaces` (`AddsWhileRunning`), and the last two
may fail without anybody looking; `bare` are the rows that were left behind without counters
by a failure, a kill or `vnstat --add`. Such a row is taken up by the next first update, and
is then counted from zero. A pid file is a path and the file it names, so that an unlinked
and newly created one is another file, as `lockf` locks files. SIGHUP replaces the options'
`pidfile` and `alwaysadd` with those of the configuration.

### Command and InterfaceTable

Each process is at a place between statements; `ifaceid`, `srcifinfo`, `dstifinfo` and
`datalist` are what it has read and may be stale. They may also be wrong:
`db_getinterfaceinfo` succeeds when its select gives no row and leaves the structure as it
was (`dbsql.c:741`), so a merge takes the true row or any of `Garbage`; and `db_getdata`
takes a step that fails for the end of the rows (`dbsql.c:1430`), so it reads any part of a
table. Both go on to the commit. Ids are given as SQLite does for a primary key without
AUTOINCREMENT, the highest plus one, so that a removed row's id may be another's. Failing
counts, opens, statements and locks are `Fails`; only a merge holds a transaction, and if
reading the source fails, `db_rollbacktransaction` goes to the source's handle and the
transaction is left to the close of the destination (`SourceUnreadable`, `Closes`).
Refinement: `InterfaceTable` has a function from names to alias and the traffic of each
table; a merge's commit is its step `Gain`, which adds the same to all tables, or
`GainInPart`, which adds some to each and marks the interface; everything before it is a
stutter. History variables: `flawed` are the rows of a committed merge that was not whole:
it had not read all of its source, or the destination as it was by then; `garbled` those
whose time and counters came from a source that had not been read.

### Listing and Query

`Listing` has the select statements of `db_getdata_range` over rows as sets of records,
the percentile and the estimate, without state. Dates are numbers ordered like the texts
in the database. `Query` goes through `parseargs` one argument at a time, then through
`main`: selection of the interface, alert, changes, lists, meters. Each statement is a step;
between any two the database may become another (`Changes`). `out` records what was read
and of which database, `verdict` what an alert compared. A select whose step fails ends
early (`BreakOff`), and `db_getinterfaceinfo` without a row, as its step failed or the
interface is gone, leaves what was there before (`InfoIsUnset`): an alert goes on and
estimates over a period that is any of `Garbage`; the other outputs go by the interface's
name, which is then of nothing, or in a query of all of an interface that was shown, which
is shown again. `info.read` tells the two apart. Formatting is left out.

## 4. Runs

| run | checks | bounds |
|---|---|---|
| `daemon` | type, nothing twice, transactions closed, totals and counters together, clearing means stored with `--noremove`, refinement of `TrafficLedger` | 2 interfaces, full disk and lock failures, no retry, 1 unit of traffic per interface |
| `retries` | nothing twice, transactions closed, exit after `DBRETRYLIMIT` + 1 tries and not before | 1 interface, a full disk, I/O errors and locks, lost reads, 2 retries, 2 units |
| `monitor` | type, no phantom traffic, nothing missed | 2-bit "32-bit" and 4-bit "64-bit" counters, interval up to 2, traffic up to 7, all settings, all events |
| `mainloop` | type, updates in time, saves in time, no division by zero, the wait is bounded, requests to stop are heeded | intervals of 2 to 4 ticks, the clock starts anywhere from 4 to 15 and stops at 15, a pass takes up to 1, one failed flush in a row, the clock set once |
| `data` | type, rows are complete, the newest and the largest are kept, disabled tables are empty | 1 interface, 6 slots of one hour, days of 2 hours, months of 2 days, 2 configurations, an update of an interface that is available or not, with traffic or without |
| `command` | type, totals are sums, counters belong to their time, refinement of `InterfaceTable` | 2 processes, 2 names, 2 aliases, a source of 1 interface, 2 commands, 2 steps of the daemon, at a time after the source's; what is not read is one row, later and larger than any |
| `startup` | type, one daemon per pid file, legacy is imported, nothing is taken away, only its time is counted | 2 processes, 3 starts, 3 sets of options, 2 pid files, 2 interfaces, one of them legacy |
| `bandwidth` | type, intervals fit, configured limits are used, limits follow links | 2 interfaces, one a tun, 3 spellings, 3 speeds, 9 files to edit among, and all combinations of 6 x 2 x 5 x 2 x 6 values of the intervals to start with; an int of 20 bits |
| `query` | type, ranges and limits, alerts, percentile | 690 command lines of up to 4 arguments, 4 databases of up to 3 days with 11 samples, one change while it runs |
| `v_removal` | violation of: a cleared log is stored | no failure at all |
| `v_boot` | violation of: counters from before a boot are not used | boots only, no hotplug |
| `v_tracking` | violation of: an available interface is monitored | fairness of checks and updates |

The bounds. In `daemon`, two interfaces are enough for what a flush may do to one entry when
another one fails or is removed, and one unit of traffic for the difference between stored,
pending and lost; with one interface and two units a log is written in part, fails, grows
and is tried again. In `monitor` the counters are as small as `WidthAssumption` allows while
a 32-bit counter gets around and a 64-bit one passes the 32-bit limit; the rates keep their
order. In `mainloop` the poll interval is smaller than the update interval and does not
divide it, so that updates come late by every amount; the offline save interval is larger
than the other one, and the bounds of all properties are reached within the 11 ticks the
clock has (the mutants that are off by one tick violate them). At the last tick the clock
stops, while sleeps still end, so the loop goes on and liveness is about infinite
behaviours. In `data` the six slots cross two midnights and the end of a month, and each
retention is smaller than the number of rows that come to exist; an update has one unit of
traffic or none, as more than one is the sum of several, and none is both an interface that
is away and one that is idle. In `command` two commands are enough for each pair of
operations to interleave in every way; the steps of the daemon, additions and saves, come
before, within or after them, and a row has traffic by them or by a merge before. The source
has one interface of the two, as a merge commits each by itself; the interface is older than
any row of the destination, and what is not read is younger. In `retries` two retries are
three tries, so that there is one that is neither the first nor the last; the daemon has 5,
and the bound is a parameter. In `startup` three starts allow one that is killed or fails,
and two together; the options are those of a daemon that adds, of one that adds nothing and
has a pid file of its own, and of --initdb, while --nodaemon, which only leaves out the pid
file, is in the module and the proofs. In `bandwidth` every way in which two intervals are
at odds is a file, and the ages of a detection pass its interval.

Deadlock is checked except in `command`, `startup` and `query`, where the processes that
are bounded in number really end.

Fairness is assumed in three runs. In `mainloop`: weak fairness of the daemon's steps taken
together (the process is scheduled, and no call blocks forever) and of the clock, so that
sleeps end. The signals are not fair. In `v_tracking`: the check of the interface list, the
initialisation and the update of a running daemon go on, since the main loop executes them
at every poll and sleeps for a bounded time (`vnstatd.c:172-238`). In `bandwidth`: the clock
and the updates of each interface go on, for the same reason; reloads, edits and links are
not fair.

## 5. What is proved

For every set of interfaces, every subset of failures and every bound (`DaemonProofs`):

- `TypeCorrect`: `Spec => []TypeOK`.
- `TransactionsAreClosed`: `Spec => []TransactionClosed`, from the invariant `HandleInv`: a
  transaction is open all through the loop of a flush and never outside a flush,
  `db_intransaction` is set while it is, and without one `txn` is `db`.
- `NothingIsStoredTwice`: `Spec => []NeverTwice`. `NeverTwice` is not inductive: a commit
  replaces `db` by `txn`, so the invariant must say what a transaction holds. `TxnInv`
  does: while it is open, `txn.total[i]` exceeds `db.total[i]` at most by `pend[i]`, and
  not at all for the entries that the flush has not reached.
- If no query loses its result (`~LostReads`): `TotalsMoveWithCounters`
  (`TotalsWithCounters`), `ClearedLogsAreStored` (`ClearedMeansStoredIfNoremove`) and
  `DaemonKeepsLedger` (`LedgerSpec`, the refinement of `TrafficLedger`, with a step or a
  stutter for each action). The invariant says what the transaction has of each entry the
  flush has passed: all that was pending, or the row is gone. The assumption is needed: a
  count whose `sqlite3_step` fails reads as "not in the database", and a flush then leaves
  out or removes an interface that has traffic, which `retries` allows.

For counters of any width, every setting and any traffic (`MonitorProofs`):

- `TypeCorrect`, `TrafficIsReal` (`NoPhantomTraffic`), `TrafficIsCounted`
  (`NothingIsMissed`). The invariant is that a remembered counter value is a base: with 64
  bits the counter is it plus the traffic since, with 32 bits it is that or has rolled
  over, and the traffic is known if it is less than once around. A lemma shows that
  `processifinfo` then takes the right width whatever the setting.

For intervals of any length, any time of a pass and signals at any moment
(`MainLoopProofs`), while the clock is not set:

- `UpdatesComeInTime`, `SavesComeInTime`, `NothingIsDividedByZero`, `TheWaitIsBounded`, and
  `TypeCorrect`. The bounds are not inductive: the invariant `UpdateInv` says for each place
  of the loop how late it may be there, counted from the last time at which an update was
  not due (`LastPass`): a pass begins before that, takes at most `MaxWork`, and the sleep
  after it at most `Poll`, after which the next pass updates. `WaitInv` does the same for
  the wait at the start. `SaveInv` says that the last save was planned no later than the
  oldest unsaved traffic was counted, and that the last update, at which no save was due,
  came less than a save interval after it. `ClockInv` has what keeps zero away: an
  interval of zero is in force only until the next update, which is due at once.

For any calendar, any retention, amounts of any size and any number of interfaces
(`DataProofs`):

- `TypeCorrect`, `RowsAlwaysComplete` (`RowsAreComplete`), `NewestAlwaysKept`
  (`NewestAreKept`), `TopAlwaysKeepsLargest` (`TopKeepsLargest`), `DisabledAlwaysEmpty`
  (`DisabledIsEmpty`). Neither completeness nor retention is inductive: a late flush could
  bring a removed row back in part. `DInv` says why it cannot. `Pending(i)` are the slots
  that can still be written under, those logged and those the next update will be logged
  under; no row is newer than any of them (`Within`), and traffic without a row is older
  than all of them (`OutOfReach`), because a row was removed only while a newer one was
  there. Every step moves `Pending` to later slots (`StillLater`, `LaterIsRight`), a
  removal keeps the invariant since the rows that push one out are themselves kept
  (`EnoughKept`, `NewerAreKept`, `LargerAreKept`), and a flush since a row that it creates
  had nothing stored for it (`WriteKeepsTable`). For top, whose order is that of the
  amounts, what was removed is before the day of the last removal (`TopRemoved`), and the
  days written to since then are excepted (`late`).
- The lemmas on sums (`SumAdds`, `SumWithout`, `SumOfSome`) are about the fold of
  `SumOf` over finite sets of any size. Induction is by a smallest exception: a set of
  exceptions in which each has a smaller one is empty (`NoSmallest`, from the
  well-foundedness of the numbers).

For any number of processes, starts, pid files, options and legacy databases
(`StartupProofs`):

- `TypeCorrect`, `OneDaemonPerPidFile` (`OneDaemonUnlessUnlinked`), `NothingTakenAway`
  (`NothingIsTakenAway`, an action property), `LegacyImported` (`LegacyIsImported`),
  `OnlyItsTimeCounts` (`CountsOnlyItsTime`). The invariants say who holds the lock of
  which file and that its path still names it, which rows a process has added and not yet
  set, that a row with counters of zero is one of these, imported, or among `bare`, and,
  for a start that was alone and did not fail, what is left for it to do.

For any number of processes of the command, interfaces and rows in either database
(`CommandProofs`):

- `TypeCorrect`, `CounterKeptInStep` (`CounterIsOfUpdate`), `TotalsAreSums`
  (`TotalIsSumOfData`) and `CommandKeepsTable` (`TableSpec`, the refinement of
  `InterfaceTable`). `CInv` has that names and ids are unique, that a transaction differs
  from the database in the rows of its merge only, and how what it has written relates to
  what the process has read, which need not be what is there. So a merge that has read all
  of its source and the destination as it still is adds the same to the total and to every
  table, and any other one marks the rows it has set, at the commit.

For configuration files of any length and contents, any links and edits
(`BandwidthProofs`):

- `TypeCorrect`, `IntervalsAlwaysFit` (`IntervalsFit`), `ConfiguredLimitIsUsed`
  (`ConfiguredIsUsed`). The intervals are bounded by the ranges of the checks, for an int of
  any width, with overflows that wrap around or do not; the proof is by the order of the
  checks, each of which leaves alone what the ones before have settled, but for the last.
  What `ibwcfgread` computes for every file is proved line by line, again by a smallest
  exception: after each line the list has a node for exactly the names of the lines so far,
  with the value that came last.

For any arguments, any number and size of rows and any changes by other processes
(`QueryProofs`):

- `TypeCorrect`, `AlertCorrect` (`AlertIsRight`), `PercentileCorrect` (`PercentileIs95th`)
  and `RangeCorrect` (`RangeShown`). That a command without a database reaches no statement
  is part of the first: the counts are zero then, and every place asks for one.
- `AInv` says that the alert in force is the last one of the arguments that are parsed, and
  that `showalert` is reached only with a row and the database whose period its estimate is
  of, or with a period nobody has read, for which nothing is claimed of an estimate. All
  else an alert says is claimed in either case. `EstimateIs` bounds the estimate, which
  divides before it multiplies, by the exact one.
- `PercentileFair`: the value at `lrint(0.95 n)` of the sorted samples is exceeded by at
  most 5 % of them and reached by at least 5 %, to the nearest sample, for any samples.
  `PInv` says that the samples are read from the month on that was read last, with nothing
  read in between, though the database may have changed.
- `RInv` says that while the arguments are looked at, each setting is what the last one
  before gave it (`InForce`), that afterwards nothing changes the settings, and that what
  is still to be read is of their range. `ListIs` says for any rows what a statement finds
  then: the dates before which fewer than the limit come in the order of the list, each
  with its sum. The lemmas under it are about the place of an element in an order
  (`PlaceIsOne`), of which the select's `order by` and `limit` are made.

What proof attempts corrected. `IntervalsFit` said that the update interval ends up below
`PollInterval` only where counters roll over within 60 seconds; with a poll interval of 60
and a limit of 300 Mbit they need 114, and the update interval becomes 20. The property has
300 seconds now, and the run files with 300 Mbit. `TopKeepsLargest` did not except days to
which an entry without traffic was written late; `late` has them now, and TLC shows the
counterexample without it once `TrafficlessEntries` is on, as the run now has it.
`PercentileIs95th` said that all samples of the month are used; a month that ends between
the two reads can have more after its beginning than the `MaxSamples` that are read, and the
property says so now.

What reading the code again corrected. `SaveInterval` was compared in unbounded integers, a
merge read whole tables and rows, an alert had the times of the interface or failed, and a
running daemon added a row with its counters in one step. Each of these properties held for
the wrong reason; they now name what the code excepts.

Assumptions: the ASSUMEs of `Sqlite`, `Daemon`, `Monitor`, `MainLoop`, `Calendar`, `Data`,
`Startup`, `Command`, `Settings`, `Bandwidth` and `Query`, which TLC evaluates in the runs:
constants are sets of the right kind, names and spellings are finite, one name is not two
things, the rows of a merge's source are rows a daemon can have written, all configurations
of a behaviour of `Data` have one rotation and one retention, an int holds more than
`BWMAX`, what is found in a structure that was not set has its type, arguments are records
of known words, and a database of `Query` has finitely many rows, names of interfaces only,
and amounts that are no negative numbers. The inductive invariants of `Data`, `Startup`,
`Command`, `Bandwidth` and of the older proofs were checked with TLC on the instances of the
runs before they were proved.

Only model-checked: `LimitFollowsLink`, `Heeded` and the property of `v_tracking`, since
liveness and ENABLED are out of the prover's reach, and `ExitsAfterTries`.

## 6. Findings

With a run that shows them:

1. `v_removal`: removing an empty disabled interface ends the flush loop (`daemon.c:720`);
   the commit clears the logs of all entries, also of those not visited.
2. `v_boot`: the boot time is stored at the start, the counters at the first save with
   traffic; a kill in between defeats the synchronisation `vnstatd.8` promises.
3. `v_tracking`: an interface that an update finds missing, and that is back at the next
   check, stays disabled since the list has not changed.

Seen while modelling, in the models as the code has it, without a run of their own:

- SQLite's own rollback on a full disk makes the explicit ROLLBACK fail with a code that
  counts as fatal (`dbsql.c:1262`), and the daemon exits; `common.h:352` says that a full
  disk causes no exit.
- `SaveInterval * 60` is computed in an `int` (`cfg.c:304`): a negative value such as
  -40000000, whose product wraps around, stays in force, outside of the range that
  `vnstat.conf.5` gives. `IntervalsFit` names the case.
- The rollover limit sets the update interval below `PollInterval` (`cfg.c:329`), as with
  60 seconds for both and a `MaxBandwidth` of 1000, outside of the range that
  `vnstat.conf.5` gives; the loop then sleeps by `PollInterval`.
- A select of a merge's source that fails in the middle ends the table early
  (`dbsql.c:1430`); the merge commits the full total with a part of the table and reports a
  success, where `vnstat.1` says that it adds (`GainInPart`).
- The workaround for 32-bit drivers is applied without automatic detection
  (`daemon.c:618`), unlike the comment above it.
- A SIGTERM that arrives while another signal is handled, or before `filldatabaselist`
  stores 42 in `intsignal`, is wiped out (`daemon.c:928`).
- After SIGHUP a daemon started with another pid file removes, when it ends, the one of the
  configuration file (`vnstatd.c:248`), be it another daemon's; `OneDaemonUnlessUnlinked`
  says that only this way two daemons come to have one pid file.
- A database whose creation was interrupted before the version entry (`dbsql.c:119`) cannot
  be opened by any later start.
- A merge that cannot read its source rolls back the wrong handle (`dbmerge.c:232`); closing
  the destination undoes it all the same, so `TotalIsSumOfData` holds.
- A first failed detection turns a bandwidth limit into one that looks configured
  (`ibw.c:156`) and no longer follows the link.
- A merge whose `db_getinterfaceinfo` finds no row, of the source or of the destination,
  writes totals, times and counters from a structure that was never set (`dbsql.c:741`,
  `dbmerge.c:199`).
- `--alert` estimates from such a structure as well (`dbshow.c:999`).
- A new interface whose `db_setcounters` fails keeps counters of zero (`daemon.c:222`).
- The total rate in the averages of `xmlpercentile` (`dbxml.c:148`) divides only the
  transmitted part, unlike those beside it; output, thus not in a model.

## 7. Not modelled

- Layout of text, XML, JSON and images, `vnstati`, and the scaling and formatting of values:
  they keep no state and decide nothing about the traffic that is kept or the exit status.
- Live traffic (`traffic.c`): two samples and a difference (`countercalc`, in `Monitor`).
- The contents of a legacy database (`readdb`, `validatedb`): a binary format.
- Users, groups, directories, log files, the vacuum and the WAL checkpoint: calls that
  work or fail, and a failure in them is a step of `Startup`.
- The text of options, of dates and of configuration lines: an argument or a line is a
  record of what it says.
- `AlwaysAddNewInterfaces` beyond the rows that are added: with it, two cache entries may
  have one name, and `Daemon` has one per interface.
- A clock that is set backwards ends the daemon in `Daemon` (`ClockOff`), which `MainLoop`
  has as one reason of `Fails`; the clocks of `Monitor` and `Data` only go forward.
