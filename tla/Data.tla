-------------------------------- MODULE Data --------------------------------
(***************************************************************************)
(* The six tables of rows per interface and date, as the daemon writes and *)
(* prunes them: traffic is logged under the time of the update before, a   *)
(* save writes what is logged to all tables and is followed, once an hour, *)
(* by the removal of old rows, whether or not the save worked.  A start    *)
(* and a reload empty the tables of disabled resolutions.                  *)
(*                                                                         *)
(* A transaction is one step here that works or changes nothing: module    *)
(* Daemon has its statements.  Both directions are one amount.             *)
(***************************************************************************)
EXTENDS Calendar, FiniteSets, FiniteSetsExt, Functions

CONSTANTS
    Iface,      \* names of interfaces
    Settings,   \* configurations the daemon may be started with
    Amount,     \* bound: traffic of one update
    MaxTime     \* bound: slots

(* "limit" holds 5MinuteHours, HourlyDays, DailyDays, MonthlyMonths,       *)
(* YearlyYears and TopDayEntries: 0 disables a table, -1 keeps all rows.   *)
SettingsType == [limit            : [Table -> Int],
                 monthrotate      : Nat \ {0},
                 monthrotateyears : BOOLEAN,
                 trafficless      : BOOLEAN]

(* A behaviour may enable and disable tables, but has one retention for a  *)
(* table and one rotation: rows written under another rotation keep the    *)
(* date they have.                                                         *)
ASSUME SettingsAssumption ==
    /\ Settings \subseteq SettingsType
    /\ \A c, d \in Settings :
          /\ c.monthrotate = d.monthrotate
          /\ c.monthrotateyears = d.monthrotateyears
          /\ \A t \in Table : c.limit[t] = 0 \/ d.limit[t] = 0 \/ c.limit[t] = d.limit[t]
ASSUME DataBoundsAssumption == Amount \subseteq Nat /\ MaxTime \in Nat

VARIABLES
    now,          \* the clock, in slots
    known,        \* database: interfaces
    rows,         \* database: table, interface, date -> traffic
    updated,      \* database: time of the last update that was saved
    pc,           \* where the daemon is
    cfg,          \* its configuration
    cache,        \* interfaces it has in the data cache
    cacheupdated, \* time of the last update of an entry
    log,          \* its xferlog: slot -> traffic
    cleanuphour,  \* hour of the last removal
    stored,       \* history: per table, the traffic stored in every slot
    removedday,   \* history: the last day on which top was pruned
    late          \* history: days that were stored to after that

dbvars == <<known, rows, updated>>
daemonvars == <<pc, cfg, cache, cacheupdated, log, cleanuphour>>
history == <<stored, removedday, late>>
vars == <<now, dbvars, daemonvars, history>>

Slots == 0 .. MaxTime
NoRows == [x \in {} |-> 0]
Nothing == [s \in Slots |-> 0]

TypeOK ==
    /\ now \in Slots
    /\ known \in SUBSET Iface
    /\ \A t \in Table, i \in Iface :
          /\ IsFiniteSet(DOMAIN rows[t][i])
          /\ \A date \in DOMAIN rows[t][i] : date \in Int /\ rows[t][i][date] \in Nat
          /\ rows[t][i] # NoRows => i \in known
    /\ updated \in [Iface -> Slots]
    /\ pc \in {"down", "prune", "wipe", "run", "flush", "cleanup", "rewipe"}
    /\ cfg \in Settings
    /\ cache \in SUBSET Iface
    /\ cacheupdated \in [Iface -> Slots]
    /\ \A i \in Iface : /\ DOMAIN log[i] \subseteq Slots
                        /\ \A s \in DOMAIN log[i] : log[i][s] \in Nat
                        /\ log[i] # NoRows => i \in cache
    /\ cleanuphour \in 0 .. HoursPerDay - 1

Init ==
    /\ now = 0
    /\ known = {}
    /\ rows = [t \in Table |-> [i \in Iface |-> NoRows]]
    /\ updated = [i \in Iface |-> 0]
    /\ pc = "down"
    /\ cfg \in Settings
    /\ cache = {}
    /\ cacheupdated = [i \in Iface |-> 0]
    /\ log = [i \in Iface |-> NoRows]
    /\ cleanuphour = 0
    /\ stored = [t \in Table |-> [i \in Iface |-> Nothing]]
    /\ removedday = 0
    /\ late = {}
-----------------------------------------------------------------------------
(***************************************************************************)
(* Statements.                                                             *)
(***************************************************************************)

(* The entry limit of a table, in rows. *)
entrylimits(c, t) == c.limit[t] * CASE t = "fiveminute" -> FivesPerHour
                                  [] t = "hour"       -> HoursPerDay
                                  [] OTHER            -> 1

(* What a set of slots adds to the rows of a table: a row is inserted with *)
(* nothing if it is not there, and then updated.                           *)
RowOf(t, s) == db_get_date_generator(cfg, t, FALSE, s)

SumOf(amounts, slots) == MapThenSumSet(LAMBDA s : amounts[s], slots)

db_addtraffic_dated(t, table, amounts) ==
    LET dates == {RowOf(t, s) : s \in DOMAIN amounts}
        new(date) == SumOf(amounts, {s \in DOMAIN amounts : RowOf(t, s) = date})
    IN [date \in DOMAIN table \cup dates |->
            (IF date \in DOMAIN table THEN table[date] ELSE 0)
            + (IF date \in dates THEN new(date) ELSE 0)]

(* Mutant: one row less is kept. *)
OlderByOne(table, n) ==
    {date \in DOMAIN table : Cardinality({e \in DOMAIN table : e > date}) >= n - 1}

(* Mutant: "order by date asc". *)
Newer(table, n) ==
    {date \in DOMAIN table : Cardinality({e \in DOMAIN table : e < date}) >= n}

(* "order by date desc limit -1 offset n": all rows but the n newest. *)
Older(table, n) ==
    {date \in DOMAIN table : Cardinality({e \in DOMAIN table : e > date}) >= n}

(* "order by rx+tx desc, date asc". *)
Ahead(table, e, date) ==
    table[e] > table[date] \/ (table[e] = table[date] /\ e < date)

(* Mutant: the day that is not over is ranked like the others. *)
SmallerOfAll(table, n, today) ==
    {date \in DOMAIN table :
        Cardinality({e \in DOMAIN table : Ahead(table, e, date)}) >= n}

(* All past days but the n largest; the current day is left alone. *)
Smaller(table, n, today) ==
    LET past == DOMAIN table \ {today}
    IN {date \in past : Cardinality({e \in past : Ahead(table, e, date)}) >= n}

Pruned(t, table) ==
    IF entrylimits(cfg, t) <= 0
    THEN table
    ELSE Restrict(table, DOMAIN table \ IF t = "top"
                                        THEN Smaller(table, entrylimits(cfg, t), Day(now))
                                        ELSE Older(table, entrylimits(cfg, t)))

db_removeoldentries ==
    /\ rows' = [t \in Table |-> [i \in Iface |->
                   IF i \in known THEN Pruned(t, rows[t][i]) ELSE rows[t][i]]]
    /\ removedday' = Day(now)
    /\ UNCHANGED <<known, updated, stored, late>>

(* Mutant: a disabled top list is not emptied. *)
WipedButTop(c, t) == c.limit[t] = 0 /\ t # "top"

Wiped(c, t) == c.limit[t] = 0

db_removedisabledresolutionentries(c) ==
    /\ rows' = [t \in Table |-> IF Wiped(c, t) THEN [i \in Iface |-> NoRows] ELSE rows[t]]
    /\ stored' = [t \in Table |-> IF Wiped(c, t) THEN [i \in Iface |-> Nothing]
                                  ELSE stored[t]]
    /\ UNCHANGED <<known, updated, removedday, late>>
-----------------------------------------------------------------------------
(***************************************************************************)
(* The daemon starts, and its memory is lost.                              *)
(***************************************************************************)
EmptyCache ==
    /\ cache' = {}
    /\ cacheupdated' = [i \in Iface |-> 0]
    /\ log' = [i \in Iface |-> NoRows]

Down ==
    /\ pc' = "down"
    /\ EmptyCache
    /\ cleanuphour' = 0
    /\ UNCHANGED cfg

Start ==
    /\ pc = "down"
    /\ cfg' \in Settings
    /\ \E t \in Table : cfg'.limit[t] # 0
    /\ cleanuphour' = getcurrenthour(now)
    /\ pc' = IF known = {} THEN "run" ELSE "prune"
    /\ UNCHANGED <<now, dbvars, cache, cacheupdated, log, history>>

PruneAtStart ==
    /\ pc = "prune"
    /\ \/ /\ db_removeoldentries
          /\ pc' = "wipe"
          /\ UNCHANGED <<cfg, cache, cacheupdated, log, cleanuphour>>
       \/ Down /\ UNCHANGED <<dbvars, history>>
    /\ UNCHANGED now

WipeAtStart ==
    /\ pc = "wipe"
    /\ \/ /\ db_removedisabledresolutionentries(cfg)
          /\ pc' = "run"
          /\ UNCHANGED <<cfg, cache, cacheupdated, log, cleanuphour>>
       \/ Down /\ UNCHANGED <<dbvars, history>>
    /\ UNCHANGED now

Killed == pc # "down" /\ Down /\ UNCHANGED <<now, dbvars, history>>
-----------------------------------------------------------------------------
(***************************************************************************)
(* Updates and saves.                                                      *)
(***************************************************************************)

(* filldatabaselist and rescandatabaseforinterfaces: entries are added for *)
(* the interfaces of the database, and get what the database has of them.  *)
FillCache ==
    /\ pc = "run"
    /\ known \ cache # {}
    /\ cache' = cache \cup known
    /\ cacheupdated' = [i \in Iface |-> IF i \in known \ cache THEN updated[i]
                                        ELSE cacheupdated[i]]
    /\ UNCHANGED <<now, dbvars, pc, cfg, log, cleanuphour, history>>

(* An update counts if the one before is at most six minutes ago, which    *)
(* may be two slots.                                                       *)
IsCounted(i) == IF now - cacheupdated[i] <= 2 THEN BOOLEAN ELSE {FALSE}

(* Logged under the slot of the update before. *)
xferlog_add(i, amount) ==
    LET slot == cacheupdated[i]
    IN [s \in DOMAIN log[i] \cup {slot} |->
            (IF s \in DOMAIN log[i] THEN log[i][s] ELSE 0) + IF s = slot THEN amount ELSE 0]

processifinfo(i, amount, counts) ==
    IF counts /\ (amount > 0 \/ cfg.trafficless) THEN xferlog_add(i, amount) ELSE log[i]

(* The interfaces that can be read are updated; a save may be due.  One    *)
(* update per slot stands for all of them: a further one would only add to *)
(* the entry of the next.                                                  *)
processdatacache ==
    /\ pc = "run"
    /\ \E available \in SUBSET cache, amount \in [Iface -> Amount], save \in BOOLEAN :
         \E counts \in [Iface -> BOOLEAN] :
            /\ \A i \in Iface : IF i \in available THEN counts[i] \in IsCounted(i)
                                ELSE amount[i] = 0 /\ ~counts[i]
            /\ \A i \in available : now > cacheupdated[i]
            /\ log' = [i \in Iface |-> IF i \in available
                                       THEN processifinfo(i, amount[i], counts[i])
                                       ELSE log[i]]
            /\ cacheupdated' = [i \in Iface |-> IF i \in available THEN now
                                                ELSE cacheupdated[i]]
            /\ pc' = IF save THEN "flush" ELSE "run"
    /\ UNCHANGED <<now, dbvars, cfg, cache, cleanuphour, history>>

(* Mutant: an entry is written without asking for the interface. *)
WrittenUnknown == cache

(* Entries of interfaces that are no longer in the database are left out.  *)
Written == cache \cap known

Enabled(t) == cfg.limit[t] # 0

StoredIn(t, i, s) == IF i \in Written /\ Enabled(t) /\ s \in DOMAIN log[i]
                     THEN log[i][s] ELSE 0

(* One transaction.  It works, and all logs are cleared, or it changes     *)
(* nothing.                                                                *)
SaveWorks ==
    /\ rows' = [t \in Table |-> [i \in Iface |->
                  IF i \in Written /\ Enabled(t)
                  THEN db_addtraffic_dated(t, rows[t][i], log[i]) ELSE rows[t][i]]]
    /\ stored' = [t \in Table |-> [i \in Iface |-> [s \in Slots |->
                  stored[t][i][s] + StoredIn(t, i, s)]]]
    /\ late' = late \cup {<<x[1], Day(x[2])>> : x \in
                  {x \in Iface \X Slots : /\ x[1] \in Written /\ Enabled("top")
                                          /\ x[2] \in DOMAIN log[x[1]]
                                          /\ Day(x[2]) < removedday}}
    /\ updated' = [i \in Iface |-> IF i \in Written THEN cacheupdated[i]
                                   ELSE updated[i]]
    /\ log' = [i \in Iface |-> NoRows]
    /\ UNCHANGED <<known, removedday>>

flushcachetodisk == SaveWorks \/ UNCHANGED <<dbvars, log, history>>

Flush ==
    /\ pc = "flush"
    /\ pc' = "cleanup"
    /\ flushcachetodisk
    /\ UNCHANGED <<now, cfg, cache, cacheupdated, cleanuphour>>

(* cleanremovedinterfaces, and the removal of old rows if the hour is not  *)
(* the one of the last removal.  That removal may fail, and is not tried   *)
(* again before the next hour.                                             *)
Cleanup ==
    /\ pc = "cleanup"
    /\ pc' = "run"
    /\ cache' = cache \cap known
    /\ log' = [i \in Iface |-> IF i \in known THEN log[i] ELSE NoRows]
    /\ cacheupdated' = [i \in Iface |-> IF i \in known THEN cacheupdated[i] ELSE 0]
    /\ \/ cleanuphour # getcurrenthour(now) /\ db_removeoldentries
       \/ UNCHANGED <<dbvars, history>>
    /\ cleanuphour' = getcurrenthour(now)
    /\ UNCHANGED <<now, cfg>>

(* SIGHUP: a flush under the old settings, then the new ones; the cache is *)
(* emptied whether or not the flush worked.                                *)
Reload ==
    /\ pc = "run"
    /\ pc' = "rewipe"
    /\ flushcachetodisk
    /\ UNCHANGED <<now, cfg, cache, cacheupdated, cleanuphour>>

ReloadSettings ==
    /\ pc = "rewipe"
    /\ EmptyCache
    /\ \/ \E c \in Settings :
             /\ cfg' = c
             /\ db_removedisabledresolutionentries(c)
             /\ pc' = "run"
             /\ UNCHANGED cleanuphour
       \/ /\ pc' = "down"
          /\ cleanuphour' = 0
          /\ UNCHANGED <<dbvars, cfg, history>>
    /\ UNCHANGED now
-----------------------------------------------------------------------------
(***************************************************************************)
(* The vnstat command, beside the daemon.                                  *)
(***************************************************************************)
AddInterface(i) ==
    /\ i \notin known
    /\ known' = known \cup {i}
    /\ updated' = [updated EXCEPT ![i] = now]
    /\ UNCHANGED <<now, rows, daemonvars, history>>

(* ON DELETE CASCADE: the rows of all tables go with the interface. *)
RemoveInterface(i) ==
    /\ i \in known
    /\ known' = known \ {i}
    /\ rows' = [t \in Table |-> [rows[t] EXCEPT ![i] = NoRows]]
    /\ stored' = [t \in Table |-> [stored[t] EXCEPT ![i] = Nothing]]
    /\ late' = {x \in late : x[1] # i}
    /\ updated' = [updated EXCEPT ![i] = 0]
    /\ UNCHANGED <<now, daemonvars, removedday>>

Tick ==
    /\ now < MaxTime
    /\ now' = now + 1
    /\ UNCHANGED <<dbvars, daemonvars, history>>

Next ==
    \/ Start \/ PruneAtStart \/ WipeAtStart \/ Killed
    \/ FillCache \/ processdatacache \/ Flush \/ Cleanup
    \/ Reload \/ ReloadSettings
    \/ \E i \in Iface : AddInterface(i) \/ RemoveInterface(i)
    \/ Tick

Spec == Init /\ [][Next]_vars
-----------------------------------------------------------------------------
(***************************************************************************)
(* Properties.                                                             *)
(***************************************************************************)
Total(t, i, date) == SumOf(stored[t][i], {s \in Slots : RowOf(t, s) = date})

Dates(t, i) == {RowOf(t, s) : s \in {x \in Slots : stored[t][i][x] > 0}}

(* The retention of a table in the settings that enable it. *)
Retention(t) ==
    LET enabled == {c \in Settings : c.limit[t] # 0}
    IN IF enabled = {} THEN 0 ELSE entrylimits(CHOOSE c \in enabled : TRUE, t)

(* A row that is there has all traffic stored for its hour, day, month or  *)
(* year since the table is enabled: no row comes back in part after it was *)
(* removed, although removals do not wait for a flush that works.          *)
RowsAreComplete ==
    \A t \in Dated, i \in Iface : \A date \in DOMAIN rows[t][i] :
        rows[t][i][date] = Total(t, i, date)

(* A row is missing only if the table has as many newer rows as are to be  *)
(* kept: late traffic and reloads do not push newer rows out.              *)
NewestAreKept ==
    \A t \in Dated, i \in Iface : \A date \in Dates(t, i) \ DOMAIN rows[t][i] :
        /\ Retention(t) > 0
        /\ Cardinality({e \in DOMAIN rows[t][i] : e > date}) >= Retention(t)

(* Of all days but those that were written to after a removal that took    *)
(* them for past, if only with an entry without traffic, the largest are   *)
(* in top, with all their traffic.                                         *)
TopKeepsLargest ==
    \A i \in Iface : \A d \in Dates("top", i) :
        <<i, d>> \notin late =>
            LET top == rows["top"][i]
                total == Total("top", i, d)
            IN IF d \in DOMAIN top
               THEN top[d] = total
               ELSE /\ Retention("top") > 0
                    /\ Cardinality({e \in DOMAIN top : top[e] >= total})
                          >= Retention("top")

(* A resolution that the running daemon has disabled has no rows, also     *)
(* after kills and reloads: they would never be removed.                   *)
DisabledIsEmpty ==
    pc = "run" => \A t \in Table, i \in Iface :
                     cfg.limit[t] = 0 => rows[t][i] = NoRows
=============================================================================
