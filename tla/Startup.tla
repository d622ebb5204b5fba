------------------------------ MODULE Startup ------------------------------
(***************************************************************************)
(* How vnstatd starts and ends: the database is created, legacy databases  *)
(* are imported, available interfaces are added, the process goes to the   *)
(* background and locks its pid file.  Several daemons may do so at the    *)
(* same time, each step may fail, each process may be killed, and SIGHUP   *)
(* replaces settings that came from the command line.                      *)
(*                                                                         *)
(* Every interface has transferred something since the system was booted,  *)
(* so a row is worth what its counters are: none yet, those of a legacy    *)
(* database, or those of the kernel.  The traffic of a running daemon is   *)
(* left to Monitor and Daemon.                                             *)
(***************************************************************************)
EXTENDS Integers, FiniteSets

CONSTANTS
    Proc,          \* processes of vnstatd
    Nobody,        \* holder of a lock that is free
    Iface,         \* names of interfaces
    Legacy,        \* interfaces a usable legacy database exists of
    Options,       \* what a daemon may be started with
    Path,          \* pid files that may be named
    PidFile,       \* the one in the configuration file
    AlwaysAddNewInterfaces,
    CommandAdds,   \* the vnstat command may add interfaces
    MaxStarts      \* bound: daemons that are started

ASSUME NobodyAssumption == Nobody \notin Proc
ASSUME LegacyAssumption == Legacy \subseteq Iface
ASSUME PathAssumption == PidFile \in Path
ASSUME SettingAssumption == AlwaysAddNewInterfaces \in BOOLEAN
ASSUME CommandAssumption == CommandAdds \in BOOLEAN
ASSUME StartsAssumption == MaxStarts \in Nat

VARIABLES
    file,         \* what there is of the database file
    row,          \* the row of each interface
    fresh,        \* rows updated or added less than six minutes ago
    linked,       \* the file each path names, 0 for none
    holder,       \* who has locked each file that was a pid file
    pc,           \* where each process is
    opts,         \* its options
    pidfile,      \* cfg.pidfile
    alwaysadd,    \* cfg.alwaysadd
    inode,        \* the file it has opened as pid file
    found,        \* dbifcount is not zero
    sync,         \* DSTATE: counters are taken over first
    todo,         \* what the loop it is in has not reached
    iface,        \* interfaces whose row it has just added
    starts,       \* daemons started
    bare,         \* history: rows left without the counters they were to get
    imported,     \* history: interfaces whose legacy data is in the database
    disturbed,    \* history: a start failed, was not alone, or vnstat --add
    unlinked,     \* history: a pid file was removed that another daemon uses
    phantom       \* history: interfaces with traffic from before their row

dbvars == <<file, row, fresh>>
lockvars == <<linked, holder>>
procvars == <<pc, opts, pidfile, alwaysadd, inode, found, sync, todo, iface>>
history == <<bare, imported, disturbed, unlinked, phantom>>
vars == <<dbvars, lockvars, procvars, starts, history>>

(* "structure" is a database without the entry "dbversion". *)
FileStates == {"missing", "empty", "structure", "complete"}
RowStates == {"none", "zero", "legacy", "counters"}

Places == {"off", "open", "create", "version", "prepare", "import", "data", "add",
           "counters", "ready", "pidfile", "lock", "fill", "update", "running",
           "adding", "unlink"}

(* What parseargs lets pass; rundaemon is TRUE for --daemon and FALSE for  *)
(* --nodaemon.                                                             *)
ValidOptions ==
    {o \in [rundaemon : BOOLEAN, initdb : BOOLEAN, noadd : BOOLEAN,
            startempty : BOOLEAN, alwaysadd : BOOLEAN, pidfile : Path] :
        /\ o.noadd => ~o.alwaysadd
        /\ o.initdb => ~o.rundaemon /\ ~o.startempty
        /\ ~o.rundaemon => o.pidfile = PidFile}

ASSUME OptionsAssumption == Options \subseteq ValidOptions

Inodes == 1 .. MaxStarts

TypeOK ==
    /\ file \in FileStates
    /\ row \in [Iface -> RowStates]
    /\ fresh \subseteq {i \in Iface : row[i] # "none"}
    /\ linked \in [Path -> Inodes \cup {0}]
    /\ holder \in [Inodes -> Proc \cup {Nobody}]
    /\ pc \in [Proc -> Places]
    /\ opts \in [Proc -> ValidOptions]
    /\ pidfile \in [Proc -> Path]
    /\ alwaysadd \in [Proc -> BOOLEAN]
    /\ inode \in [Proc -> Inodes \cup {0}]
    /\ found \in [Proc -> BOOLEAN]
    /\ sync \in [Proc -> BOOLEAN]
    /\ todo \in [Proc -> SUBSET Iface]
    /\ iface \in [Proc -> SUBSET Iface]
    /\ starts \in 0 .. MaxStarts
    /\ bare \subseteq Iface
    /\ imported \subseteq Legacy
    /\ disturbed \in BOOLEAN
    /\ unlinked \in BOOLEAN
    /\ phantom \subseteq Iface
    /\ \A i \in Iface : row[i] # "none" => file = "complete"
    /\ \A p \in Proc : pc[p] \in {"data", "counters", "adding"} <=> iface[p] # {}
    /\ \A f \in Inodes : holder[f] # Nobody => inode[holder[f]] = f

AnyOptions == CHOOSE o \in ValidOptions : TRUE

Init ==
    /\ file \in {"missing", "empty"}
    /\ row = [i \in Iface |-> "none"]
    /\ fresh = {}
    /\ linked = [f \in Path |-> 0]
    /\ holder = [f \in Inodes |-> Nobody]
    /\ pc = [p \in Proc |-> "off"]
    /\ opts = [p \in Proc |-> AnyOptions]
    /\ pidfile = [p \in Proc |-> PidFile]
    /\ alwaysadd = [p \in Proc |-> FALSE]
    /\ inode = [p \in Proc |-> 0]
    /\ found = [p \in Proc |-> FALSE]
    /\ sync = [p \in Proc |-> FALSE]
    /\ todo = [p \in Proc |-> {}]
    /\ iface = [p \in Proc |-> {}]
    /\ starts = 0
    /\ bare = {}
    /\ imported = {}
    /\ disturbed = FALSE
    /\ unlinked = FALSE
    /\ phantom = {}
-----------------------------------------------------------------------------
Known == {i \in Iface : row[i] # "none"}

At(p, place) == pc[p] = place

Goes(p, place) ==
    /\ pc' = [pc EXCEPT ![p] = place]
    /\ UNCHANGED <<opts, pidfile, alwaysadd, starts>>

(* The process is gone, and with it what it held.  A row it has just added *)
(* stays as it is.                                                         *)
Gone(p) ==
    /\ pc' = [pc EXCEPT ![p] = "off"]
    /\ opts' = [opts EXCEPT ![p] = AnyOptions]
    /\ pidfile' = [pidfile EXCEPT ![p] = PidFile]
    /\ alwaysadd' = [alwaysadd EXCEPT ![p] = FALSE]
    /\ inode' = [inode EXCEPT ![p] = 0]
    /\ found' = [found EXCEPT ![p] = FALSE]
    /\ sync' = [sync EXCEPT ![p] = FALSE]
    /\ todo' = [todo EXCEPT ![p] = {}]
    /\ iface' = [iface EXCEPT ![p] = {}]
    /\ bare' = bare \cup iface[p]
    /\ UNCHANGED starts

Unlocks(p) == holder' = [f \in Inodes |-> IF holder[f] = p THEN Nobody ELSE holder[f]]

InStart == {"open", "create", "version", "prepare", "import", "data", "add",
            "counters", "ready"}

Launch(p, o) ==
    /\ At(p, "off")
    /\ starts < MaxStarts
    /\ starts' = starts + 1
    /\ pc' = [pc EXCEPT ![p] = "open"]
    /\ opts' = [opts EXCEPT ![p] = o]
    /\ pidfile' = [pidfile EXCEPT ![p] = o.pidfile]
    /\ alwaysadd' = [alwaysadd EXCEPT ![p] =
           ~o.noadd /\ (o.alwaysadd \/ AlwaysAddNewInterfaces)]
    /\ disturbed' = (disturbed \/ \E q \in Proc : pc[q] \notin {"off", "running", "adding", "unlink"})
    /\ UNCHANGED <<dbvars, lockvars, inode, found, sync, todo, iface, bare,
                   imported, unlinked, phantom>>

(* A directory, user, statement, resource or lock is not to be had.  What  *)
(* a failed creation may leave is an empty file.                           *)
Fails(p) ==
    /\ pc[p] \in InStart \cup {"pidfile", "lock"}
    /\ file' \in {file} \cup IF At(p, "create") /\ file = "missing" THEN {"empty"} ELSE {}
    /\ Gone(p)
    /\ Unlocks(p)
    /\ disturbed' = (disturbed \/ pc[p] \in InStart)
    /\ UNCHANGED <<row, fresh, linked, imported, unlinked, phantom>>

Killed(p) ==
    /\ pc[p] # "off"
    /\ Gone(p)
    /\ Unlocks(p)
    /\ disturbed' = (disturbed \/ pc[p] \in InStart)
    /\ UNCHANGED <<dbvars, linked, imported, unlinked, phantom>>
-----------------------------------------------------------------------------
(***************************************************************************)
(* The database: db_open_rw(1), db_create in one transaction, and the      *)
(* entry "dbversion" in a statement of its own.                            *)
(***************************************************************************)
(* Mutant of db_open: the version is not read. *)
OpensAnyVersion(p) ==
    /\ At(p, "open")
    /\ \/ file \in {"missing", "empty"} /\ Goes(p, "create")
       \/ file \in {"structure", "complete"} /\ Goes(p, "prepare")
    /\ UNCHANGED <<dbvars, lockvars, inode, found, sync, todo, iface, history>>

db_open(p) ==
    /\ At(p, "open")
    /\ \/ file \in {"missing", "empty"} /\ Goes(p, "create")
       \/ file = "complete" /\ Goes(p, "prepare")
    /\ UNCHANGED <<dbvars, lockvars, inode, found, sync, todo, iface, history>>

(* The tables must not exist by now. *)
db_create(p) ==
    /\ At(p, "create")
    /\ file \in {"missing", "empty"}
    /\ file' = "structure"
    /\ Goes(p, "version")
    /\ UNCHANGED <<row, fresh, lockvars, inode, found, sync, todo, iface, history>>

SetsVersion(p) ==
    /\ At(p, "version")
    /\ file' = "complete"
    /\ Goes(p, "prepare")
    /\ UNCHANGED <<row, fresh, lockvars, inode, found, sync, todo, iface, history>>
-----------------------------------------------------------------------------
(***************************************************************************)
(* preparedatabase.                                                        *)
(***************************************************************************)
(* Mutant of Imports: available interfaces are added first. *)
ImportsIfUnavailable(p) == FALSE

Imports(p) == Known = {} /\ ~(opts[p].initdb /\ opts[p].noadd)

Adds(p, some) == IF some THEN alwaysadd[p] ELSE ~opts[p].initdb

(* Where a start goes on that has nothing, or nothing more, to import. *)
AfterImport(p, some) ==
    \/ ~Adds(p, some) /\ Goes(p, "ready") /\ UNCHANGED <<todo, sync>>
    \/ /\ Adds(p, some) /\ ~opts[p].noadd
       /\ Goes(p, "add")
       /\ todo' = [todo EXCEPT ![p] = Iface]
       /\ UNCHANGED sync
    \/ /\ Adds(p, some) /\ opts[p].noadd /\ opts[p].startempty
       /\ Goes(p, "ready")
       /\ sync' = [sync EXCEPT ![p] = TRUE]
       /\ UNCHANGED todo

preparedatabase(p) ==
    /\ At(p, "prepare")
    /\ found' = [found EXCEPT ![p] = Known # {}]
    /\ \/ /\ Imports(p)
          /\ Goes(p, "import")
          /\ todo' = [todo EXCEPT ![p] = Legacy]
          /\ UNCHANGED sync
       \/ ~Imports(p) /\ AfterImport(p, Known # {})
    /\ UNCHANGED <<dbvars, lockvars, inode, iface, history>>

(* importlegacydb adds the row in a statement of its own; an interface     *)
(* that is known by now is skipped, as is one whose row cannot be added.   *)
AddsLegacyRow(p, i) ==
    /\ At(p, "import") /\ i \in todo[p]
    /\ row[i] = "none"
    /\ row' = [row EXCEPT ![i] = "zero"]
    /\ fresh' = fresh \cup {i}
    /\ todo' = [todo EXCEPT ![p] = @ \ {i}]
    /\ iface' = [iface EXCEPT ![p] = {i}]
    /\ Goes(p, "data")
    /\ UNCHANGED <<file, lockvars, inode, found, sync, history>>

SkipsLegacy(p, i) ==
    /\ At(p, "import") /\ i \in todo[p]
    /\ todo' = [todo EXCEPT ![p] = @ \ {i}]
    /\ disturbed' = (disturbed \/ row[i] = "none")
    /\ Goes(p, "import")
    /\ UNCHANGED <<dbvars, lockvars, inode, found, sync, iface, bare, imported, unlinked, phantom>>

(* insertlegacydata: all of it in one transaction, the counters included.  *)
(* The time of the last update is not set: it stays the time of the        *)
(* import.                                                                 *)
insertlegacydata(p, i) ==
    /\ At(p, "data") /\ i \in iface[p]
    /\ row[i] # "none"
    /\ row' = [row EXCEPT ![i] = "legacy"]
    /\ bare' = bare \ {i}
    /\ imported' = imported \cup {i}
    /\ found' = [found EXCEPT ![p] = TRUE]
    /\ iface' = [iface EXCEPT ![p] = {}]
    /\ Goes(p, "import")
    /\ UNCHANGED <<file, fresh, lockvars, inode, sync, todo, disturbed, unlinked, phantom>>

(* The transaction is rolled back, and the row stays: no later start will  *)
(* import the data.                                                        *)
LegacyNotInserted(p) ==
    /\ At(p, "data")
    /\ iface' = [iface EXCEPT ![p] = {}]
    /\ bare' = bare \cup iface[p]
    /\ disturbed' = TRUE
    /\ Goes(p, "import")
    /\ UNCHANGED <<dbvars, lockvars, inode, found, sync, todo, imported, unlinked, phantom>>

Imported(p) ==
    /\ At(p, "import") /\ todo[p] = {}
    /\ \/ opts[p].initdb /\ Goes(p, "ready") /\ UNCHANGED <<todo, sync>>
       \/ ~opts[p].initdb /\ AfterImport(p, found[p])
    /\ UNCHANGED <<dbvars, lockvars, inode, found, iface, history>>

(* addinterfaces: the row, then its counters, or its removal; each commits *)
(* by itself.  A start goes through the list, a running daemon does so     *)
(* when the list of interfaces has changed.                                *)
AddsTo(p, i, place) ==
    /\ row[i] = "none"
    /\ row' = [row EXCEPT ![i] = "zero"]
    /\ fresh' = fresh \cup {i}
    /\ iface' = [iface EXCEPT ![p] = {i}]
    /\ Goes(p, place)
    /\ UNCHANGED <<file, lockvars, inode, found, sync, history>>

AddsRow(p, i) ==
    /\ At(p, "add") /\ i \in todo[p]
    /\ todo' = [todo EXCEPT ![p] = @ \ {i}]
    /\ AddsTo(p, i, "counters")

AddsWhileRunning(p, i) ==
    /\ At(p, "running") /\ alwaysadd[p]
    /\ AddsTo(p, i, "adding")
    /\ UNCHANGED todo

(* Known, not visible, or it cannot be added. *)
SkipsInterface(p, i) ==
    /\ At(p, "add") /\ i \in todo[p]
    /\ todo' = [todo EXCEPT ![p] = @ \ {i}]
    /\ Goes(p, "add")
    /\ UNCHANGED <<dbvars, lockvars, inode, found, sync, iface, history>>

(* The row is done with. *)
Leaves(p) ==
    /\ pc[p] \in {"counters", "adding"}
    /\ iface' = [iface EXCEPT ![p] = {}]
    /\ Goes(p, IF At(p, "counters") THEN "add" ELSE "running")
    /\ UNCHANGED <<file, lockvars, inode, sync, todo, imported, disturbed, unlinked, phantom>>

(* Mutant of SetsCounters: the row keeps its counters of zero. *)
KeepsZeroCounters(p, i) ==
    /\ i \in iface[p]
    /\ Leaves(p)
    /\ found' = [found EXCEPT ![p] = TRUE]
    /\ UNCHANGED <<row, fresh, bare>>

(* A failure of db_setcounters is not looked at. *)
SetsCounters(p, i) ==
    /\ i \in iface[p]
    /\ Leaves(p)
    /\ \/ /\ row[i] # "none"
          /\ row' = [row EXCEPT ![i] = "counters"]
          /\ bare' = bare \ {i}
       \/ bare' = bare \cup {i} /\ UNCHANGED row
    /\ found' = [found EXCEPT ![p] = TRUE]
    /\ UNCHANGED fresh

(* Mutant of RemovesRow: as if only one interface was being added. *)
RemovesRows(p) ==
    /\ Leaves(p)
    /\ row' = [j \in Iface |-> "none"]
    /\ fresh' = {}
    /\ UNCHANGED <<found, bare>>

(* getifinfo fails: the row is removed again, unless that fails as well.   *)
RemovesRow(p) ==
    /\ Leaves(p)
    /\ \/ /\ row' = [j \in Iface |-> IF j \in iface[p] THEN "none" ELSE row[j]]
          /\ fresh' = fresh \ iface[p]
          /\ bare' = bare \ iface[p]
       \/ bare' = bare \cup iface[p] /\ UNCHANGED <<row, fresh>>
    /\ UNCHANGED found

Added(p) ==
    /\ At(p, "add") /\ todo[p] = {}
    /\ found[p] \/ opts[p].startempty
    /\ sync' = [sync EXCEPT ![p] = @ \/ ~found[p]]
    /\ Goes(p, "ready")
    /\ UNCHANGED <<dbvars, lockvars, inode, found, todo, iface, history>>
-----------------------------------------------------------------------------
(***************************************************************************)
(* The process ends here with --initdb; with --daemon it forks, and the    *)
(* child opens and locks the pid file.                                     *)
(***************************************************************************)
InitdbDone(p) ==
    /\ At(p, "ready") /\ opts[p].initdb
    /\ Gone(p)
    /\ UNCHANGED <<dbvars, lockvars, imported, disturbed, unlinked, phantom>>

daemonize(p) ==
    /\ At(p, "ready") /\ ~opts[p].initdb
    /\ Goes(p, IF opts[p].rundaemon THEN "pidfile" ELSE "fill")
    /\ UNCHANGED <<dbvars, lockvars, inode, found, sync, todo, iface, history>>

OpensPidFile(p) ==
    /\ At(p, "pidfile")
    /\ linked' = [linked EXCEPT ![pidfile[p]] =
           IF @ # 0 THEN @
           ELSE CHOOSE f \in Inodes : \A q \in Proc, g \in Path : f \notin {inode[q], linked[g]}]
    /\ inode' = [inode EXCEPT ![p] = linked'[pidfile[p]]]
    /\ Goes(p, "lock")
    /\ UNCHANGED <<dbvars, holder, found, sync, todo, iface, history>>

(* Mutant of LocksPidFile: the answer is not looked at. *)
LocksAnyway(p) ==
    /\ At(p, "lock")
    /\ holder' = [holder EXCEPT ![inode[p]] = p]
    /\ Goes(p, "fill")
    /\ UNCHANGED <<dbvars, linked, inode, found, sync, todo, iface, history>>

LocksPidFile(p) ==
    /\ At(p, "lock")
    /\ holder[inode[p]] = Nobody
    /\ holder' = [holder EXCEPT ![inode[p]] = p]
    /\ Goes(p, "fill")
    /\ UNCHANGED <<dbvars, linked, inode, found, sync, todo, iface, history>>

filldatabaselist(p) ==
    /\ At(p, "fill")
    /\ todo' = [todo EXCEPT ![p] = Known]
    /\ Goes(p, "update")
    /\ UNCHANGED <<dbvars, lockvars, inode, found, sync, iface, history>>

(* The first update counts from the counters of the row to those of the    *)
(* kernel if the row is less than six minutes old and no sync was asked    *)
(* for, and the save that follows stores the kernel's.  What is more than  *)
(* the interface could have transferred is not counted; that is left out.  *)
FirstUpdate(p) ==
    /\ At(p, "update")
    /\ phantom' = phantom \cup
           {i \in todo[p] \cap fresh : ~sync[p] /\ row[i] \in {"zero", "legacy"}}
    /\ row' = [i \in Iface |->
                  IF i \in todo[p] /\ row[i] # "none" THEN "counters" ELSE row[i]]
    /\ fresh' = fresh \cup (todo[p] \cap Known)
    /\ bare' = bare \ todo[p]
    /\ sync' = [sync EXCEPT ![p] = TRUE]
    /\ todo' = [todo EXCEPT ![p] = {}]
    /\ Goes(p, "running")
    /\ UNCHANGED <<file, lockvars, inode, found, iface, imported, disturbed, unlinked>>

(* Later saves write the time of every entry, and the counters of entries  *)
(* that have traffic.  The entries are rows that were there at some time.  *)
Saves(p) ==
    /\ At(p, "running")
    /\ \E entries \in SUBSET Known : \E logged \in SUBSET entries :
          /\ row' = [i \in Iface |-> IF i \in logged THEN "counters" ELSE row[i]]
          /\ fresh' = fresh \cup entries
          /\ bare' = bare \ logged
    /\ UNCHANGED <<file, lockvars, procvars, starts, imported, disturbed, unlinked, phantom>>

(* SIGHUP: all settings are those of the configuration file again, also    *)
(* the ones that options had replaced.                                     *)
Reload(p) ==
    /\ At(p, "running")
    /\ pidfile' = [pidfile EXCEPT ![p] = PidFile]
    /\ alwaysadd' = [alwaysadd EXCEPT ![p] = AlwaysAddNewInterfaces]
    /\ UNCHANGED <<dbvars, lockvars, pc, opts, inode, found, sync, todo, iface,
                   starts, history>>

(* The end: the pid file is closed, which unlocks it, and then removed by  *)
(* its name.                                                               *)
ClosesPidFile(p) ==
    /\ pc[p] \in {"fill", "update", "running"}
    /\ Unlocks(p)
    /\ IF opts[p].rundaemon
       THEN /\ Goes(p, "unlink")
            /\ inode' = [inode EXCEPT ![p] = 0]
            /\ todo' = [todo EXCEPT ![p] = {}]
            /\ UNCHANGED <<found, sync, iface, bare>>
       ELSE Gone(p)
    /\ UNCHANGED <<dbvars, linked, imported, disturbed, unlinked, phantom>>

UnlinksPidFile(p) ==
    /\ At(p, "unlink")
    /\ linked' = [linked EXCEPT ![pidfile[p]] = 0]
    /\ unlinked' = (unlinked \/ \E q \in Proc :
                       inode[q] # 0 /\ inode[q] = linked[pidfile[p]])
    /\ Gone(p)
    /\ UNCHANGED <<dbvars, holder, imported, disturbed, phantom>>
-----------------------------------------------------------------------------
(* vnstat --add; and a moment that is six minutes. *)
VnstatAdds(i) ==
    /\ CommandAdds
    /\ file = "complete" /\ row[i] = "none"
    /\ row' = [row EXCEPT ![i] = "zero"]
    /\ fresh' = fresh \cup {i}
    /\ bare' = bare \cup {i}
    /\ disturbed' = TRUE
    /\ UNCHANGED <<file, lockvars, procvars, starts, imported, unlinked, phantom>>

TimePasses ==
    /\ fresh # {}
    /\ fresh' = {}
    /\ UNCHANGED <<file, row, lockvars, procvars, starts, history>>

Steps(p) ==
    \/ \E o \in Options : Launch(p, o)
    \/ Fails(p)
    \/ Killed(p)
    \/ db_open(p)
    \/ db_create(p)
    \/ SetsVersion(p)
    \/ preparedatabase(p)
    \/ \E i \in Iface :
          \/ AddsLegacyRow(p, i)
          \/ SkipsLegacy(p, i)
          \/ insertlegacydata(p, i)
          \/ AddsRow(p, i)
          \/ SkipsInterface(p, i)
          \/ SetsCounters(p, i)
          \/ AddsWhileRunning(p, i)
    \/ LegacyNotInserted(p)
    \/ Imported(p)
    \/ RemovesRow(p)
    \/ Added(p)
    \/ InitdbDone(p)
    \/ daemonize(p)
    \/ OpensPidFile(p)
    \/ LocksPidFile(p)
    \/ filldatabaselist(p)
    \/ FirstUpdate(p)
    \/ Saves(p)
    \/ Reload(p)
    \/ ClosesPidFile(p)
    \/ UnlinksPidFile(p)

Next ==
    \/ \E p \in Proc : Steps(p)
    \/ \E i \in Iface : VnstatAdds(i)
    \/ TimePasses

Spec == Init /\ [][Next]_vars
-----------------------------------------------------------------------------
(***************************************************************************)
(* Properties.                                                             *)
(***************************************************************************)
Runs(p) == pc[p] \in {"fill", "update", "running", "adding"} /\ opts[p].rundaemon

(* "another instance of the daemon cannot be started if the same file is   *)
(* specified", vnstatd.8:182.                                              *)
OneDaemon ==
    \A p, q \in Proc : (p # q /\ Runs(p) /\ Runs(q)) => opts[p].pidfile # opts[q].pidfile

(* It is so until a daemon that ends removes the pid file of another one,  *)
(* by whichever way: only daemonize's lock stands between them, and files  *)
(* that were left behind by killed daemons do not.                         *)
OneDaemonUnlessUnlinked == unlinked \/ OneDaemon

(* The first start that gets through imports every usable legacy database, *)
(* with any options, if it is alone and no step of it fails: importing     *)
(* depends on there being no interface in the database, and adding comes   *)
(* after it.                                                               *)
LegacyIsImported ==
    (~disturbed /\ \E p \in Proc : pc[p] \in {"fill", "update", "running", "adding"})
    => Legacy \subseteq imported

(* However many daemons start at a time, none takes away the database, nor *)
(* a row but the one it has just added itself and cannot read counters of. *)
(* Another daemon may have filled that row meanwhile: imported data never  *)
(* goes that way.                                                          *)
NothingIsTakenAway ==
    [][/\ file = "complete" => file' = "complete"
       /\ \A i \in Iface : (row[i] # "none" /\ row'[i] = "none") =>
             /\ i \notin imported
             /\ \E p \in Proc : i \in iface[p] \ iface'[p]]_vars

(* The first update counts nothing from before the row was added, but for  *)
(* interfaces of a legacy database, a row that another process is just     *)
(* adding, and rows that were left without counters: those of vnstat       *)
(* --add, and those whose db_setcounters or db_removeinterface failed or   *)
(* was not reached.  For all others the counters come with the row, in a   *)
(* start and in a running daemon, whatever fails, is killed or starts at   *)
(* the same time.                                                          *)
BeingAdded == UNION {iface[p] : p \in Proc}

CountsOnlyItsTime ==
    [][phantom' \subseteq phantom \cup imported \cup bare \cup BeingAdded]_vars
=============================================================================
