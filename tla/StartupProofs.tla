---------------------------- MODULE StartupProofs ----------------------------
(***************************************************************************)
(* What module Startup guarantees for any number of processes, interfaces, *)
(* legacy databases, pid files and starts.                                 *)
(***************************************************************************)
EXTENDS Startup, FiniteSetTheorems, TLAPS

(***************************************************************************)
(* The inductive invariant, in parts.                                      *)
(***************************************************************************)
(* A process is past the creation of the database only once that is        *)
(* complete.                                                               *)
FileInv ==
    \A p \in Proc : pc[p] \notin {"off", "open", "create", "version"} => file = "complete"

(* Only legacy databases are imported. *)
OnlyLegacy(p) ==
    /\ pc[p] = "import" => todo[p] \subseteq Legacy
    /\ pc[p] = "data" => todo[p] \cup iface[p] \subseteq Legacy

TodoInv == \A p \in Proc : OnlyLegacy(p)

(* Files that are or were pid files, and processes that may still need one *)
(* more.                                                                   *)
Used == ({inode[q] : q \in Proc} \cup {linked[g] : g \in Path}) \ {0}

Coming == {q \in Proc : pc[q] \in InStart \cup {"pidfile"}}

CountInv ==
    /\ IsFiniteSet(Coming)
    /\ Cardinality(Used) + Cardinality(Coming) <= starts

(* Where a process neither starts nor waits for the first update. *)
Idle == {"off", "running", "adding", "unlink"}

(* A process has its pid file open from opening it until it closes it, and *)
(* has locked it from "lock" on.                                           *)
OpenInv ==
    /\ \A p \in Proc : inode[p] # 0 =>
          pc[p] \in {"lock", "fill", "update", "running", "adding"}
    /\ \A p \in Proc : pc[p] = "lock" => inode[p] # 0
    /\ \A p \in Proc : pc[p] \notin Idle => pidfile[p] = opts[p].pidfile

LockInv ==
    /\ \A p \in Proc : Runs(p) => inode[p] # 0 /\ holder[inode[p]] = p
    /\ ~unlinked => \A p \in Proc : inode[p] # 0 => linked[opts[p].pidfile] = inode[p]

(* A row that a process has just added is its own until it has gone on:    *)
(* it is not removed by anyone else, and no other process imports into it. *)
OwnInv ==
    /\ \A p \in Proc : \A i, j \in iface[p] : i = j
    /\ \A p, q \in Proc : p # q => iface[p] \cap iface[q] = {}
    /\ \A p \in Proc : \A i \in iface[p] : row[i] # "none"
    /\ \A i \in imported : row[i] # "none"
    /\ \A p \in Proc : pc[p] \in {"counters", "adding"} => iface[p] \cap imported = {}

(* A row without counters is just being added, or it was left so. *)
BareInv == \A i \in Iface : row[i] = "zero" => i \in bare \cup BeingAdded

LegacyRows == \A i \in Iface : row[i] = "legacy" => i \in imported

(* While every start was alone, and none of their steps failed. *)
Alone == \A p, q \in Proc : p # q => pc[p] \in Idle \/ pc[q] \in Idle

NotYet ==
    /\ Known = {}
    /\ \A p \in Proc : \/ pc[p] \in {"off", "open", "create", "version", "prepare"}
                       \/ pc[p] = "ready" /\ opts[p].initdb

Importing(p) ==
    /\ pc[p] \in {"import", "data"}
    /\ Legacy \subseteq imported \cup todo[p] \cup iface[p]
    /\ Known \subseteq imported \cup iface[p]
    /\ \A q \in Proc \ {p} : pc[q] = "off"

LegacyInv == Legacy \subseteq imported \/ NotYet \/ \E p \in Proc : Importing(p)

UndisturbedInv == ~disturbed => Alone /\ LegacyInv
-----------------------------------------------------------------------------
LEMMA ValidAny == AnyOptions \in ValidOptions
<1> DEFINE o == [rundaemon |-> FALSE, initdb |-> FALSE, noadd |-> FALSE,
                 startempty |-> FALSE, alwaysadd |-> FALSE, pidfile |-> PidFile]
<1>1. o \in ValidOptions
    BY PathAssumption DEF ValidOptions
<1>2. QED
    BY <1>1 DEF AnyOptions

LEMMA TypeInit == Init => TypeOK
<1> SUFFICES ASSUME Init PROVE TypeOK
    OBVIOUS
<1>1. /\ opts \in [Proc -> ValidOptions] /\ pidfile \in [Proc -> Path]
      /\ alwaysadd \in [Proc -> BOOLEAN] /\ found \in [Proc -> BOOLEAN]
      /\ sync \in [Proc -> BOOLEAN] /\ disturbed \in BOOLEAN /\ unlinked \in BOOLEAN
    BY ValidAny, PathAssumption DEF Init
<1>2. /\ file \in FileStates /\ row \in [Iface -> RowStates]
      /\ \A i \in Iface : row[i] = "none"
    BY DEF Init, FileStates, RowStates
<1>6. pc \in [Proc -> Places]
    BY DEF Init, Places
<1>3. /\ linked \in [Path -> Inodes \cup {0}] /\ inode \in [Proc -> Inodes \cup {0}]
      /\ holder \in [Inodes -> Proc \cup {Nobody}]
      /\ \A f \in Inodes : holder[f] = Nobody
    BY DEF Init
<1>4. /\ todo \in [Proc -> SUBSET Iface] /\ iface \in [Proc -> SUBSET Iface]
      /\ \A p \in Proc : pc[p] \in {"data", "counters", "adding"} <=> iface[p] # {}
    BY DEF Init
<1>5. /\ fresh = {} /\ starts \in 0 .. MaxStarts /\ imported \subseteq Legacy
      /\ phantom \subseteq Iface /\ bare \subseteq Iface
    BY StartsAssumption DEF Init
<1>7. QED
    BY <1>1, <1>2, <1>3, <1>4, <1>5, <1>6 DEF TypeOK

(* Where a start goes on that has imported what there was. *)
LEMMA Afterwards ==
    ASSUME TypeOK, NEW p \in Proc, NEW some \in BOOLEAN, AfterImport(p, some)
    PROVE  /\ pc' \in [Proc -> Places]
           /\ pc'[p] \in {"add", "ready"}
           /\ pc'[p] = "ready" \/ ~opts[p].initdb \/ some
           /\ \A q \in Proc \ {p} : pc'[q] = pc[q]
           /\ todo' \in [Proc -> SUBSET Iface]
           /\ sync' \in [Proc -> BOOLEAN]
           /\ UNCHANGED <<opts, pidfile, alwaysadd, starts>>
<1>1. pc \in [Proc -> Places] /\ todo \in [Proc -> SUBSET Iface] /\ sync \in [Proc -> BOOLEAN]
    BY DEF TypeOK
<1>2. CASE Goes(p, "ready")
    <2>1. /\ pc' \in [Proc -> Places] /\ pc'[p] = "ready"
          /\ \A q \in Proc \ {p} : pc'[q] = pc[q]
          /\ UNCHANGED <<opts, pidfile, alwaysadd, starts>>
        BY <1>1, <1>2 DEF Goes, Places
    <2>2. todo' = todo \/ todo' = [todo EXCEPT ![p] = Iface]
        BY DEF AfterImport
    <2>3. sync' = sync \/ sync' = [sync EXCEPT ![p] = TRUE]
        BY DEF AfterImport
    <2>4. QED
        BY <1>1, <2>1, <2>2, <2>3
<1>3. CASE /\ ~opts[p].initdb \/ some
           /\ Goes(p, "add") /\ todo' = [todo EXCEPT ![p] = Iface] /\ UNCHANGED sync
    BY <1>1, <1>3 DEF Goes, Places
<1>4. QED
    BY <1>2, <1>3 DEF AfterImport, Adds

(* A process is gone, and its lock with it. *)
LEMMA TypeGone ==
    ASSUME TypeOK, NEW p \in Proc, Gone(p), Unlocks(p),
           file' = file \/ (file = "missing" /\ file' = "empty"),
           UNCHANGED <<row, fresh, linked, imported, unlinked, phantom>>,
           disturbed' \in BOOLEAN
    PROVE  TypeOK'
BY ValidAny, PathAssumption, NobodyAssumption
   DEF TypeOK, Gone, Unlocks, Places, FileStates

(* A step of one process leaves alone what the others have. *)
Quiet(p) ==
    \A q \in Proc \ {p} :
        /\ pc'[q] = pc[q] /\ opts'[q] = opts[q] /\ pidfile'[q] = pidfile[q]
        /\ inode'[q] = inode[q] /\ todo'[q] = todo[q] /\ iface'[q] = iface[q]

LEMMA StepsQuiet == ASSUME TypeOK, NEW p \in Proc, Steps(p) PROVE Quiet(p)
<1>0. /\ DOMAIN pc = Proc /\ DOMAIN opts = Proc /\ DOMAIN pidfile = Proc
      /\ DOMAIN inode = Proc /\ DOMAIN todo = Proc /\ DOMAIN iface = Proc
    BY DEF TypeOK
<1>1. ASSUME Gone(p) PROVE Quiet(p)
    BY <1>0, <1>1 DEF Gone, Quiet
<1>2. ASSUME NEW place, Goes(p, place),
             inode' = inode \/ \E f : inode' = [inode EXCEPT ![p] = f],
             todo' = todo \/ \E S : todo' = [todo EXCEPT ![p] = S],
             iface' = iface \/ \E S : iface' = [iface EXCEPT ![p] = S]
      PROVE  Quiet(p)
    BY <1>0, <1>2 DEF Goes, Quiet
<1>3. CASE Fails(p) \/ Killed(p) \/ InitdbDone(p) \/ UnlinksPidFile(p)
    BY <1>1, <1>3 DEF Fails, Killed, InitdbDone, UnlinksPidFile
<1>4. CASE ClosesPidFile(p)
    BY <1>1, <1>2, <1>4 DEF ClosesPidFile
<1>5. CASE Reload(p) \/ \E o \in Options : Launch(p, o)
    BY <1>0, <1>5 DEF Reload, Launch, Quiet
<1>6. CASE db_open(p) \/ db_create(p) \/ SetsVersion(p) \/ daemonize(p) \/ LocksPidFile(p)
           \/ Added(p)
    BY <1>2, <1>6 DEF db_open, db_create, SetsVersion, daemonize, LocksPidFile, Added
<1>7. CASE preparedatabase(p) \/ Imported(p)
    BY <1>2, <1>7 DEF preparedatabase, Imported, AfterImport
<1>8. CASE LegacyNotInserted(p) \/ RemovesRow(p) \/ filldatabaselist(p) \/ FirstUpdate(p)
    BY <1>2, <1>8 DEF LegacyNotInserted, RemovesRow, Leaves, filldatabaselist, FirstUpdate
<1>9. CASE OpensPidFile(p)
    <2>1. inode' = [inode EXCEPT ![p] = linked'[pidfile[p]]]
        BY <1>9 DEF OpensPidFile
    <2>2. Goes(p, "lock") /\ UNCHANGED <<todo, iface>>
        BY <1>9 DEF OpensPidFile
    <2>3. QED
        BY <1>2, <2>1, <2>2
<1>10. ASSUME NEW i \in Iface,
              \/ AddsLegacyRow(p, i) \/ SkipsLegacy(p, i) \/ insertlegacydata(p, i)
              \/ AddsRow(p, i) \/ SkipsInterface(p, i) \/ SetsCounters(p, i)
              \/ AddsWhileRunning(p, i)
       PROVE  Quiet(p)
    BY <1>2, <1>10 DEF AddsLegacyRow, SkipsLegacy, insertlegacydata, AddsRow, AddsTo,
       SkipsInterface, SetsCounters, Leaves, AddsWhileRunning
<1>11. CASE Saves(p)
    BY <1>11 DEF Saves, procvars, Quiet
<1>12. QED
    BY <1>3, <1>4, <1>5, <1>6, <1>7, <1>8, <1>9, <1>10, <1>11 DEF Steps

(* There is a number for one more pid file: every file that is used was    *)
(* made by a process that has been started, and the one that opens its pid *)
(* file has not made any yet.                                              *)
LEMMA Spare ==
    ASSUME TypeOK, CountInv, NEW p \in Proc, pc[p] = "pidfile"
    PROVE  \E f \in Inodes : \A q \in Proc, g \in Path : f \notin {inode[q], linked[g]}
<1>1. IsFiniteSet(Inodes) /\ Cardinality(Inodes) = MaxStarts
    BY FS_Interval, StartsAssumption DEF Inodes
<1>2. Used \subseteq Inodes
    BY DEF Used, TypeOK
<1>3. p \in Coming /\ IsFiniteSet(Coming)
    BY DEF Coming, CountInv
<1>4. Cardinality(Coming) \in Nat /\ Cardinality(Coming) # 0
    BY <1>3, FS_CardinalityType, FS_EmptySet
<1>5. Cardinality(Used) \in Nat
    BY <1>1, <1>2, FS_Subset, FS_CardinalityType
<1>6. Cardinality(Used) < MaxStarts
    BY <1>4, <1>5, StartsAssumption DEF CountInv, TypeOK
<1>7. PICK f \in Inodes : f \notin Used
    BY <1>1, <1>2, <1>5, <1>6
<1>8. f # 0
    BY DEF Inodes
<1>9. QED
    BY <1>7, <1>8 DEF Used

(* A pid file that is not there is made, as a file that is nowhere in use. *)
LEMMA OpenedFile ==
    ASSUME TypeOK, CountInv, NEW p \in Proc, OpensPidFile(p)
    PROVE  \E f \in Inodes :
              /\ linked' = [linked EXCEPT ![pidfile[p]] = f]
              /\ inode' = [inode EXCEPT ![p] = f]
              /\ \/ f = linked[pidfile[p]]
                 \/ /\ linked[pidfile[p]] = 0
                    /\ \A q \in Proc, g \in Path : f \notin {inode[q], linked[g]}
<1> DEFINE new == CHOOSE f \in Inodes : \A q \in Proc, g \in Path : f \notin {inode[q], linked[g]}
           f == IF linked[pidfile[p]] # 0 THEN linked[pidfile[p]] ELSE new
<1>1. pidfile[p] \in Path /\ linked \in [Path -> Inodes \cup {0}] /\ pc[p] = "pidfile"
    BY DEF TypeOK, OpensPidFile, At
<1>2. new \in Inodes /\ \A q \in Proc, g \in Path : new \notin {inode[q], linked[g]}
    BY <1>1, Spare
<1>3. linked' = [linked EXCEPT ![pidfile[p]] = f] /\ inode' = [inode EXCEPT ![p] = linked'[pidfile[p]]]
    BY DEF OpensPidFile
<1> HIDE DEF new
<1>4. f \in Inodes
    BY <1>1, <1>2
<1>5. \/ f = linked[pidfile[p]]
      \/ linked[pidfile[p]] = 0 /\ \A q \in Proc, g \in Path : f \notin {inode[q], linked[g]}
    BY <1>2
<1> HIDE DEF f
<1>6. inode' = [inode EXCEPT ![p] = f]
    BY <1>1, <1>3
<1>7. QED
    BY <1>3, <1>4, <1>5, <1>6

TInv == TypeOK /\ FileInv /\ TodoInv /\ CountInv /\ OpenInv

LEMMA TypeNext == TInv /\ [Next]_vars => TypeOK'
<1> SUFFICES ASSUME TInv, [Next]_vars PROVE TypeOK'
    OBVIOUS
<1> USE DEF TInv
<1>1. ASSUME NEW p \in Proc, NEW o \in Options, Launch(p, o) PROVE TypeOK'
    BY <1>1, StartsAssumption, OptionsAssumption, SettingAssumption DEF TypeOK, Launch, At, dbvars, lockvars, Places, ValidOptions
<1>2. ASSUME NEW p \in Proc, Fails(p) PROVE TypeOK'
    BY <1>2, TypeGone DEF TypeOK, Fails
<1>3. ASSUME NEW p \in Proc, Killed(p) PROVE TypeOK'
    BY <1>3, TypeGone DEF TypeOK, Killed, dbvars
<1>4. ASSUME NEW p \in Proc, db_open(p) PROVE TypeOK'
    BY <1>4 DEF TypeOK, db_open, Goes, At, dbvars, lockvars, history, Places
<1>5. ASSUME NEW p \in Proc, db_create(p) PROVE TypeOK'
    BY <1>5 DEF TypeOK, db_create, Goes, At, lockvars, history, Places, FileStates
<1>6. ASSUME NEW p \in Proc, SetsVersion(p) PROVE TypeOK'
    BY <1>6 DEF TypeOK, SetsVersion, Goes, At, lockvars, history, Places, FileStates
<1>7. ASSUME NEW p \in Proc, preparedatabase(p) PROVE TypeOK'
    <2>1. CASE AfterImport(p, Known # {})
        BY <1>7, <2>1, Afterwards DEF TypeOK, preparedatabase, At, dbvars, lockvars, history
    <2>2. CASE Imports(p) /\ Goes(p, "import") /\ todo' = [todo EXCEPT ![p] = Legacy]
               /\ UNCHANGED sync
        BY <1>7, <2>2, LegacyAssumption
           DEF TypeOK, preparedatabase, Goes, At, dbvars, lockvars, history, Places
    <2>3. QED
        BY <1>7, <2>1, <2>2 DEF preparedatabase
<1>8. ASSUME NEW p \in Proc, NEW i \in Iface, AddsLegacyRow(p, i) PROVE TypeOK'
    BY <1>8 DEF TypeOK, FileInv, AddsLegacyRow, Goes, At, lockvars, history, Places, RowStates
<1>9. ASSUME NEW p \in Proc, NEW i \in Iface, SkipsLegacy(p, i) PROVE TypeOK'
    BY <1>9 DEF TypeOK, SkipsLegacy, Goes, At, dbvars, lockvars, history, Places
<1>10. ASSUME NEW p \in Proc, NEW i \in Iface, insertlegacydata(p, i) PROVE TypeOK'
    BY <1>10 DEF TypeOK, TodoInv, OnlyLegacy, insertlegacydata, Goes, At, lockvars, Places, RowStates
<1>11. ASSUME NEW p \in Proc, LegacyNotInserted(p) PROVE TypeOK'
    BY <1>11 DEF TypeOK, LegacyNotInserted, Goes, At, dbvars, lockvars, Places
<1>12. ASSUME NEW p \in Proc, Imported(p) PROVE TypeOK'
    <2>1. CASE AfterImport(p, found[p])
        BY <1>12, <2>1, Afterwards DEF TypeOK, Imported, At, dbvars, lockvars, history
    <2>2. CASE Goes(p, "ready") /\ UNCHANGED <<todo, sync>>
        BY <1>12, <2>2 DEF TypeOK, Imported, Goes, At, dbvars, lockvars, history, Places
    <2>3. QED
        BY <1>12, <2>1, <2>2 DEF Imported
<1>13. ASSUME NEW p \in Proc, NEW i \in Iface, AddsRow(p, i) PROVE TypeOK'
    BY <1>13 DEF TypeOK, FileInv, AddsRow, AddsTo, Goes, At, lockvars, history, Places,
       RowStates
<1>14. ASSUME NEW p \in Proc, NEW i \in Iface, SkipsInterface(p, i) PROVE TypeOK'
    BY <1>14 DEF TypeOK, SkipsInterface, Goes, At, dbvars, lockvars, history, Places
<1>15. ASSUME NEW p \in Proc, NEW i \in Iface, SetsCounters(p, i) PROVE TypeOK'
    BY <1>15 DEF TypeOK, SetsCounters, Leaves, Goes, At, lockvars, Places, RowStates
<1>16. ASSUME NEW p \in Proc, RemovesRow(p) PROVE TypeOK'
    BY <1>16 DEF TypeOK, RemovesRow, Leaves, Goes, At, lockvars, history, Places, RowStates
<1>17. ASSUME NEW p \in Proc, Added(p) PROVE TypeOK'
    BY <1>17 DEF TypeOK, Added, Goes, At, dbvars, lockvars, history, Places
<1>18. ASSUME NEW p \in Proc, InitdbDone(p) PROVE TypeOK'
    BY <1>18, ValidAny, PathAssumption DEF TypeOK, OpenInv, InitdbDone, Gone, At, dbvars, lockvars, history, Places
<1>19. ASSUME NEW p \in Proc, daemonize(p) PROVE TypeOK'
    BY <1>19 DEF TypeOK, daemonize, Goes, At, dbvars, lockvars, history, Places
<1>20. ASSUME NEW p \in Proc, OpensPidFile(p) PROVE TypeOK'
    <2>1. PICK f \in Inodes : /\ linked' = [linked EXCEPT ![pidfile[p]] = f]
                              /\ inode' = [inode EXCEPT ![p] = f]
        BY <1>20, OpenedFile
    <2>2. pc[p] = "pidfile" /\ inode[p] = 0 /\ iface[p] = {}
        BY <1>20 DEF TypeOK, OpenInv, OpensPidFile, At
    <2>3. /\ pc' = [pc EXCEPT ![p] = "lock"]
          /\ UNCHANGED <<dbvars, holder, found, sync, todo, iface, history, opts, pidfile,
                         alwaysadd, starts>>
        BY <1>20 DEF OpensPidFile, Goes
    <2>4. linked' \in [Path -> Inodes \cup {0}] /\ inode' \in [Proc -> Inodes \cup {0}]
        BY <2>1 DEF TypeOK
    <2>5. \A f1 \in Inodes : holder'[f1] # Nobody => inode'[holder'[f1]] = f1
        BY <2>1, <2>2, <2>3 DEF TypeOK, Inodes
    <2>6. /\ \A q \in Proc : pc'[q] \in {"data", "counters", "adding"} <=> iface'[q] # {}
          /\ pc' \in [Proc -> Places]
        BY <2>2, <2>3 DEF TypeOK, Places
    <2>7. QED
        BY <2>3, <2>4, <2>5, <2>6 DEF TypeOK, dbvars, history
<1>21. ASSUME NEW p \in Proc, LocksPidFile(p) PROVE TypeOK'
    BY <1>21 DEF TypeOK, OpenInv, LocksPidFile, Goes, At, dbvars, history, Places
<1>22. ASSUME NEW p \in Proc, filldatabaselist(p) PROVE TypeOK'
    BY <1>22 DEF TypeOK, filldatabaselist, Known, Goes, At, dbvars, lockvars, history, Places
<1>23. ASSUME NEW p \in Proc, FirstUpdate(p) PROVE TypeOK'
    BY <1>23 DEF TypeOK, FirstUpdate, Known, Goes, At, lockvars, Places, RowStates
<1>24. ASSUME NEW p \in Proc, NEW i \in Iface, AddsWhileRunning(p, i) PROVE TypeOK'
    BY <1>24 DEF TypeOK, FileInv, AddsWhileRunning, AddsTo, Goes, At, lockvars, history,
       Places, RowStates
<1>25. ASSUME NEW p \in Proc, Reload(p) PROVE TypeOK'
    BY <1>25, PathAssumption, SettingAssumption DEF TypeOK, Reload, At, dbvars, lockvars, history
<1>26. ASSUME NEW p \in Proc, ClosesPidFile(p) PROVE TypeOK'
    <2>1. CASE opts[p].rundaemon
        <3>1. /\ UNCHANGED <<file, row, fresh, linked, imported, disturbed, unlinked, phantom,
                             bare>>
              /\ UNCHANGED <<opts, pidfile, alwaysadd, starts, found, sync, iface>>
              /\ pc' = [pc EXCEPT ![p] = "unlink"] /\ iface[p] = {}
              /\ inode' = [inode EXCEPT ![p] = 0]
              /\ todo' = [todo EXCEPT ![p] = {}]
              /\ holder' = [f \in Inodes |-> IF holder[f] = p THEN Nobody ELSE holder[f]]
            BY <1>26, <2>1 DEF TypeOK, ClosesPidFile, Goes, Unlocks, dbvars, history
        <3>2. /\ \A f \in Inodes : holder'[f] # Nobody => inode'[holder'[f]] = f
              /\ holder' \in [Inodes -> Proc \cup {Nobody}]
            BY <3>1 DEF TypeOK
        <3>3. /\ \A q \in Proc : pc'[q] \in {"data", "counters", "adding"} <=> iface'[q] # {}
              /\ pc' \in [Proc -> Places] /\ todo' \in [Proc -> SUBSET Iface]
              /\ inode' \in [Proc -> Inodes \cup {0}]
            BY <3>1 DEF TypeOK, Places
        <3>4. QED
            BY <3>1, <3>2, <3>3 DEF TypeOK
    <2>2. CASE ~opts[p].rundaemon
        BY <1>26, <2>2, TypeGone DEF TypeOK, ClosesPidFile, dbvars, history
    <2>3. QED
        BY <2>1, <2>2
<1>27. ASSUME NEW p \in Proc, UnlinksPidFile(p) PROVE TypeOK'
    BY <1>27, ValidAny, PathAssumption DEF TypeOK, OpenInv, UnlinksPidFile, Gone, At, dbvars, Places
<1>28. ASSUME NEW i \in Iface, VnstatAdds(i) PROVE TypeOK'
    BY <1>28 DEF TypeOK, VnstatAdds, lockvars, procvars, RowStates
<1>29. CASE TimePasses
    BY <1>29 DEF TypeOK, TimePasses, lockvars, procvars, history
<1>30. CASE UNCHANGED vars
    BY <1>30 DEF TypeOK, vars, dbvars, lockvars, procvars, history
<1>31. ASSUME NEW p \in Proc, Saves(p) PROVE TypeOK'
    <2>1. PICK entries \in SUBSET Known : \E logged \in SUBSET entries :
              /\ row' = [i \in Iface |-> IF i \in logged THEN "counters" ELSE row[i]]
              /\ fresh' = fresh \cup entries
              /\ bare' = bare \ logged
        BY <1>31 DEF Saves
    <2>2. PICK logged \in SUBSET entries :
              /\ row' = [i \in Iface |-> IF i \in logged THEN "counters" ELSE row[i]]
              /\ fresh' = fresh \cup entries
              /\ bare' = bare \ logged
        BY <2>1
    <2>3. /\ row' \in [Iface -> RowStates]
          /\ \A i \in Iface : row'[i] # "none" <=> row[i] # "none"
        BY <2>2 DEF TypeOK, Known, RowStates
    <2>4. /\ fresh' \subseteq {i \in Iface : row'[i] # "none"}
          /\ bare' \subseteq Iface
        BY <2>2, <2>3 DEF TypeOK, Known
    <2>5. UNCHANGED <<file, lockvars, procvars, starts, imported, disturbed, unlinked, phantom>>
        BY <1>31 DEF Saves
    <2>6. QED
        BY <2>3, <2>4, <2>5 DEF TypeOK, lockvars, procvars
<1>32. QED
    BY <1>1, <1>2, <1>3, <1>4, <1>5, <1>6, <1>7, <1>8, <1>9, <1>10, <1>11, <1>12, <1>13, <1>14,
       <1>15, <1>16, <1>17, <1>18, <1>19, <1>20, <1>21, <1>22, <1>23, <1>24, <1>25, <1>26,
       <1>27, <1>28, <1>29, <1>30, <1>31 DEF Next, Steps

LEMMA Arrives ==
    ASSUME TypeOK, NEW p \in Proc
    PROVE  /\ \A place \in Places : Goes(p, place) => pc'[p] = place
           /\ Gone(p) => pc'[p] = "off" /\ inode'[p] = 0 /\ todo'[p] = {} /\ iface'[p] = {}
BY DEF TypeOK, Goes, Gone

(* A process that is done with a row goes on where it came from. *)
LEMMA Leaving ==
    ASSUME NEW p \in Proc, Leaves(p)
    PROVE  /\ \/ pc[p] = "counters" /\ Goes(p, "add")
              \/ pc[p] = "adding" /\ Goes(p, "running")
           /\ iface' = [iface EXCEPT ![p] = {}]
           /\ UNCHANGED <<file, lockvars, inode, sync, todo, imported, disturbed, unlinked,
                          phantom>>
BY DEF Leaves, At

LEMMA FileNext == TInv /\ [Next]_vars => FileInv'
<1> SUFFICES ASSUME TInv, [Next]_vars PROVE FileInv'
    OBVIOUS
<1>0. TypeOK /\ FileInv
    BY DEF TInv
<1>1. file = "complete" => file' = "complete"
    BY DEF Next, Steps, Launch, Fails, Killed, db_open, db_create, SetsVersion,
       preparedatabase, AddsLegacyRow, SkipsLegacy, insertlegacydata, LegacyNotInserted,
       Imported, AddsRow, AddsTo, SkipsInterface, SetsCounters, Leaves, RemovesRow, Added,
       InitdbDone, daemonize, OpensPidFile, LocksPidFile, filldatabaselist, FirstUpdate, Saves,
       AddsWhileRunning, Reload, ClosesPidFile, UnlinksPidFile, VnstatAdds, TimePasses, At,
       vars, dbvars
<1>2. ASSUME NEW p \in Proc, Steps(p),
             pc'[p] \notin {"off", "open", "create", "version"}
      PROVE  file' = "complete"
    <2>1. pc \in [Proc -> Places]
        BY <1>0 DEF TypeOK
    <2>2. ~Gone(p) /\ \A o \in Options : ~Launch(p, o)
        BY <1>2, <2>1 DEF Gone, Launch
    <2>3. CASE pc[p] \notin {"off", "open", "create", "version"}
        BY <1>0, <1>1, <2>3 DEF FileInv
    <2>4. CASE SetsVersion(p)
        BY <2>4 DEF SetsVersion
    <2>5. CASE db_open(p) \/ db_create(p)
        BY <1>1, <1>2, <2>1, <2>5 DEF db_open, db_create, Goes
    <2>6. QED
        BY <1>2, <2>2, <2>3, <2>4, <2>5 DEF Steps, Fails, Killed, preparedatabase,
           AddsLegacyRow, SkipsLegacy, insertlegacydata, LegacyNotInserted, Imported, AddsRow,
           AddsTo, SkipsInterface, SetsCounters, Leaves, RemovesRow, Added, InitdbDone,
           daemonize, OpensPidFile, LocksPidFile, filldatabaselist, FirstUpdate, Saves,
           AddsWhileRunning, Reload, ClosesPidFile, UnlinksPidFile, At
<1>3. CASE \E p \in Proc : Steps(p)
    BY <1>0, <1>1, <1>2, <1>3, StepsQuiet DEF FileInv, Quiet
<1>4. CASE \/ \E i \in Iface : VnstatAdds(i)
           \/ TimePasses \/ UNCHANGED vars
    BY <1>0, <1>1, <1>4 DEF FileInv, VnstatAdds, TimePasses, vars, procvars
<1>5. QED
    BY <1>3, <1>4 DEF Next

LEMMA TodoNext == TInv /\ [Next]_vars => TodoInv'
<1> SUFFICES ASSUME TInv, [Next]_vars PROVE TodoInv'
    OBVIOUS
<1>0. TypeOK /\ TodoInv
    BY DEF TInv
<1>1. ASSUME NEW p \in Proc, Steps(p) PROVE OnlyLegacy(p)'
    <2> USE DEF OnlyLegacy
    <2>1. /\ pc \in [Proc -> Places] /\ todo \in [Proc -> SUBSET Iface]
          /\ iface \in [Proc -> SUBSET Iface]
          /\ pc[p] = "import" => todo[p] \subseteq Legacy
          /\ pc[p] = "data" => todo[p] \cup iface[p] \subseteq Legacy
        BY <1>0 DEF TypeOK, TodoInv
    <2>2. /\ \A place \in Places : Goes(p, place) => pc'[p] = place
          /\ Gone(p) => pc'[p] = "off"
        BY <1>0, Arrives
    <2>3. CASE preparedatabase(p)
        BY <2>1, <2>2, <2>3 DEF preparedatabase, AfterImport, Places
    <2>4. ASSUME NEW i \in Iface, AddsLegacyRow(p, i) PROVE OnlyLegacy(p)'
        BY <2>1, <2>2, <2>4 DEF AddsLegacyRow, At, Places
    <2>5. ASSUME NEW i \in Iface, SkipsLegacy(p, i) PROVE OnlyLegacy(p)'
        <3>1. pc[p] = "import" /\ todo'[p] = todo[p] \ {i} /\ Goes(p, "import")
            BY <2>1, <2>5 DEF SkipsLegacy, At
        <3>2. pc'[p] = "import"
            BY <2>2, <3>1 DEF Places
        <3>3. QED
            BY <2>1, <3>1, <3>2
    <2>6. CASE LegacyNotInserted(p) \/ \E i \in Iface : insertlegacydata(p, i)
        <3>1. Goes(p, "import") /\ todo' = todo /\ pc[p] = "data"
            BY <2>6 DEF LegacyNotInserted, insertlegacydata, At
        <3>3. pc'[p] = "import"
            BY <2>2, <3>1 DEF Places
        <3>4. QED
            BY <2>1, <3>1, <3>3
    <2>7. CASE Reload(p) \/ Saves(p)
        BY <2>1, <2>7 DEF Reload, Saves, procvars
    <2>8. CASE \/ Fails(p) \/ Killed(p) \/ InitdbDone(p) \/ UnlinksPidFile(p)
               \/ ClosesPidFile(p) \/ \E o \in Options : Launch(p, o)
        BY <2>1, <2>2, <2>8 DEF Fails, Killed, InitdbDone, UnlinksPidFile, ClosesPidFile,
           Launch, Places
    <2>9. CASE \/ db_open(p) \/ db_create(p) \/ SetsVersion(p) \/ Imported(p)
               \/ Added(p) \/ daemonize(p) \/ OpensPidFile(p) \/ LocksPidFile(p)
               \/ filldatabaselist(p) \/ FirstUpdate(p)
               \/ \E i \in Iface : \/ AddsRow(p, i) \/ SkipsInterface(p, i)
                                   \/ AddsWhileRunning(p, i)
        <3>1. PICK place \in Places \ {"import", "data"} : Goes(p, place)
            BY <2>9 DEF db_open, db_create, SetsVersion, Imported, AfterImport, Added,
               daemonize, OpensPidFile, LocksPidFile, filldatabaselist, FirstUpdate, AddsRow,
               AddsTo, SkipsInterface, AddsWhileRunning, Places
        <3>2. QED
            BY <2>2, <3>1
    <2>11. CASE RemovesRow(p) \/ \E i \in Iface : SetsCounters(p, i)
        <3>1. Goes(p, "add") \/ Goes(p, "running")
            BY <2>11, Leaving DEF RemovesRow, SetsCounters
        <3>2. QED
            BY <2>2, <3>1 DEF Places
    <2>12. QED
        BY <1>1, <2>3, <2>4, <2>5, <2>6, <2>7, <2>8, <2>9, <2>11 DEF Steps
<1>2. CASE \E p \in Proc : Steps(p)
    BY <1>0, <1>1, <1>2, StepsQuiet DEF TodoInv, OnlyLegacy, Quiet
<1>3. CASE \/ \E i \in Iface : VnstatAdds(i)
           \/ TimePasses \/ UNCHANGED vars
    BY <1>0, <1>3 DEF TodoInv, OnlyLegacy, VnstatAdds, TimePasses, vars, procvars
<1>4. QED
    BY <1>2, <1>3 DEF Next

(* A process becomes one that may still need a pid file by being started,  *)
(* and only one that opens its pid file makes a file.                      *)
MakesNothing(p) ==
    /\ pc[p] \notin InStart \cup {"pidfile"} => pc'[p] \notin InStart \cup {"pidfile"}
    /\ linked' = linked \/ \E g \in Path : linked' = [linked EXCEPT ![g] = 0]
    /\ inode' = inode \/ inode' = [inode EXCEPT ![p] = 0]
    /\ starts' = starts

LEMMA NotComing ==
    ASSUME TInv, NEW p \in Proc, Steps(p), ~OpensPidFile(p), \A o \in Options : ~Launch(p, o)
    PROVE  MakesNothing(p)
<1> USE DEF MakesNothing
<1>0. TypeOK /\ pc \in [Proc -> Places]
    BY DEF TInv, TypeOK
<1>1. /\ \A place \in Places : Goes(p, place) => pc'[p] = place /\ starts' = starts
      /\ Gone(p) => pc'[p] = "off" /\ inode' = [inode EXCEPT ![p] = 0] /\ starts' = starts
    BY <1>0, Arrives DEF Goes, Gone
<1>2. CASE Fails(p) \/ Killed(p) \/ InitdbDone(p)
    BY <1>1, <1>2 DEF Fails, Killed, InitdbDone, InStart, lockvars
<1>3. CASE UnlinksPidFile(p)
    BY <1>0, <1>1, <1>3 DEF UnlinksPidFile, InStart, TypeOK
<1>4. CASE ClosesPidFile(p)
    BY <1>1, <1>4 DEF ClosesPidFile, InStart, Places
<1>5. CASE Reload(p) \/ Saves(p)
    BY <1>5 DEF Reload, Saves, lockvars, procvars
<1>6. ASSUME pc[p] \in InStart, linked' = linked, inode' = inode, starts' = starts
      PROVE  MakesNothing(p)
    BY <1>6
<1>7. CASE \/ db_open(p) \/ db_create(p) \/ SetsVersion(p) \/ preparedatabase(p)
           \/ LegacyNotInserted(p) \/ Imported(p) \/ Added(p) \/ daemonize(p)
           \/ \E i \in Iface : \/ AddsLegacyRow(p, i) \/ SkipsLegacy(p, i)
                               \/ insertlegacydata(p, i) \/ AddsRow(p, i)
                               \/ SkipsInterface(p, i)
    <2>1. pc[p] \in InStart
        BY <1>7 DEF db_open, db_create, SetsVersion, preparedatabase, LegacyNotInserted,
           Imported, Added, daemonize, AddsLegacyRow, SkipsLegacy, insertlegacydata, AddsRow,
           SkipsInterface, At, InStart
    <2>2. linked' = linked /\ inode' = inode /\ starts' = starts
        BY <1>7 DEF db_open, db_create, SetsVersion, preparedatabase, LegacyNotInserted,
           Imported, AfterImport, Added, daemonize, AddsLegacyRow, SkipsLegacy,
           insertlegacydata, AddsRow, AddsTo, SkipsInterface, Goes, lockvars
    <2>3. QED
        BY <2>1, <2>2
<1>8. CASE \/ LocksPidFile(p) \/ filldatabaselist(p) \/ FirstUpdate(p)
           \/ \E i \in Iface : AddsWhileRunning(p, i)
    <2>1. \E place \in {"fill", "update", "running", "adding"} : Goes(p, place)
        BY <1>8 DEF LocksPidFile, filldatabaselist, FirstUpdate, AddsWhileRunning, AddsTo
    <2>2. linked' = linked /\ inode' = inode
        BY <1>8 DEF LocksPidFile, filldatabaselist, FirstUpdate, AddsWhileRunning, AddsTo,
           lockvars
    <2>3. QED
        BY <1>1, <2>1, <2>2 DEF InStart, Places
<1>9. CASE RemovesRow(p) \/ \E i \in Iface : SetsCounters(p, i)
    <2>1. /\ pc[p] = "counters" \/ Goes(p, "running")
          /\ Goes(p, "add") \/ Goes(p, "running")
          /\ linked' = linked /\ inode' = inode
        BY <1>9, Leaving DEF RemovesRow, SetsCounters, lockvars
    <2>2. QED
        BY <1>1, <2>1 DEF InStart, Places
<1>10. QED
    BY <1>2, <1>3, <1>4, <1>5, <1>7, <1>8, <1>9 DEF Steps

LEMMA CountNext == TInv /\ [Next]_vars => CountInv'
<1> SUFFICES ASSUME TInv, [Next]_vars PROVE CountInv'
    OBVIOUS
<1>0. TypeOK /\ CountInv /\ OpenInv
    BY DEF TInv
<1>1. /\ IsFiniteSet(Used) /\ Cardinality(Used) \in Nat
      /\ IsFiniteSet(Coming) /\ Cardinality(Coming) \in Nat
      /\ Cardinality(Used) + Cardinality(Coming) <= starts /\ starts \in Nat
    <2>1. IsFiniteSet(Inodes)
        BY FS_Interval, StartsAssumption DEF Inodes
    <2>2. Used \subseteq Inodes
        BY <1>0 DEF Used, TypeOK
    <2>3. QED
        BY <1>0, <2>1, <2>2, FS_Subset, FS_CardinalityType, StartsAssumption DEF CountInv, TypeOK
<1>2. ASSUME Used' \subseteq Used, Coming' \subseteq Coming, starts' = starts
      PROVE  CountInv'
    <2>1. IsFiniteSet(Coming') /\ Cardinality(Coming') <= Cardinality(Coming)
        BY <1>1, <1>2, FS_Subset
    <2>2. IsFiniteSet(Used') /\ Cardinality(Used') <= Cardinality(Used)
        BY <1>1, <1>2, FS_Subset
    <2>3. Cardinality(Used') \in Nat /\ Cardinality(Coming') \in Nat
        BY <2>1, <2>2, FS_CardinalityType
    <2>4. QED
        BY <1>1, <1>2, <2>1, <2>2, <2>3 DEF CountInv
<1>3. ASSUME NEW p \in Proc, NEW o \in Options, Launch(p, o) PROVE CountInv'
    <2>1. Coming' = Coming \cup {p} /\ p \notin Coming
        BY <1>0, <1>3 DEF Launch, At, Coming, InStart, TypeOK
    <2>2. Used' = Used /\ starts' = starts + 1
        BY <1>3 DEF Launch, Used, lockvars
    <2>3. IsFiniteSet(Coming') /\ Cardinality(Coming') = Cardinality(Coming) + 1
        BY <1>1, <2>1, FS_AddElement
    <2>4. QED
        BY <1>1, <2>2, <2>3 DEF CountInv
<1>4. ASSUME NEW p \in Proc, OpensPidFile(p) PROVE CountInv'
    <2>1. PICK f \in Inodes : /\ linked' = [linked EXCEPT ![pidfile[p]] = f]
                              /\ inode' = [inode EXCEPT ![p] = f]
        BY <1>0, <1>4, OpenedFile
    <2>2. Used' \subseteq Used \cup {f}
        BY <1>0, <2>1 DEF Used, TypeOK
    <2>3. Coming' = Coming \ {p} /\ p \in Coming /\ starts' = starts
        BY <1>0, <1>4 DEF OpensPidFile, Goes, At, Coming, InStart, TypeOK
    <2>4. /\ IsFiniteSet(Used \cup {f})
          /\ Cardinality(Used \cup {f}) = IF f \in Used THEN Cardinality(Used)
                                                        ELSE Cardinality(Used) + 1
        BY <1>1, FS_AddElement
    <2>5. /\ IsFiniteSet(Used')
          /\ Cardinality(Used') <= Cardinality(Used \cup {f})
        BY <2>2, <2>4, FS_Subset
    <2>6. IsFiniteSet(Coming') /\ Cardinality(Coming') = Cardinality(Coming) - 1
        BY <1>1, <2>3, FS_RemoveElement
    <2>7. Cardinality(Used') \in Nat /\ Cardinality(Used \cup {f}) \in Nat
        BY <2>4, <2>5, FS_CardinalityType
    <2>8. QED
        BY <1>1, <2>3, <2>4, <2>5, <2>6, <2>7 DEF CountInv
<1>5. ASSUME NEW p \in Proc, Steps(p), ~OpensPidFile(p), \A o \in Options : ~Launch(p, o)
      PROVE  CountInv'
    <2>1. /\ pc[p] \notin InStart \cup {"pidfile"} => pc'[p] \notin InStart \cup {"pidfile"}
          /\ linked' = linked \/ \E g \in Path : linked' = [linked EXCEPT ![g] = 0]
          /\ inode' = inode \/ inode' = [inode EXCEPT ![p] = 0]
          /\ starts' = starts
        BY <1>5, NotComing DEF MakesNothing
    <2>2. Coming' \subseteq Coming
        BY <1>0, <1>5, <2>1, StepsQuiet DEF Coming, Quiet
    <2>3. \A g \in Path : linked'[g] \in {linked[g], 0}
        BY <1>0, <2>1 DEF TypeOK
    <2>4. \A q \in Proc : inode'[q] \in {inode[q], 0}
        BY <1>0, <2>1 DEF TypeOK
    <2>5. Used' \subseteq Used
        BY <2>3, <2>4 DEF Used
    <2>6. QED
        BY <1>2, <2>1, <2>2, <2>5
<1>6. CASE \/ \E i \in Iface : VnstatAdds(i)
           \/ TimePasses \/ UNCHANGED vars
    <2>1. UNCHANGED <<lockvars, procvars, starts>>
        BY <1>6 DEF VnstatAdds, TimePasses, vars
    <2>2. Used' = Used /\ Coming' = Coming /\ starts' = starts
        BY <2>1 DEF Used, Coming, lockvars, procvars
    <2>3. QED
        BY <1>2, <2>2
<1>7. QED
    BY <1>3, <1>4, <1>5, <1>6 DEF Next

LEMMA OpenNext == TInv /\ [Next]_vars => OpenInv'
<1> SUFFICES ASSUME TInv, [Next]_vars PROVE OpenInv'
    OBVIOUS
<1>0. TypeOK /\ OpenInv
    BY DEF TInv
<1> DEFINE Mine(p) ==
               /\ inode[p] # 0 => pc[p] \in {"lock", "fill", "update", "running", "adding"}
               /\ pc[p] = "lock" => inode[p] # 0
               /\ pc[p] \notin Idle => pidfile[p] = opts[p].pidfile
<1>1. ASSUME NEW p \in Proc, Steps(p) PROVE Mine(p)'
    <2>1. Mine(p) /\ pc \in [Proc -> Places] /\ inode \in [Proc -> Inodes \cup {0}]
        BY <1>0 DEF OpenInv, TypeOK
    <2>2. /\ \A place \in Places : Goes(p, place) => pc'[p] = place
          /\ Gone(p) => pc'[p] = "off" /\ inode'[p] = 0
        BY <1>0, Arrives
    <2>3. ASSUME NEW o \in Options, Launch(p, o) PROVE Mine(p)'
        BY <1>0, <2>1, <2>3 DEF Launch, At, TypeOK, lockvars
    <2>4. CASE Gone(p)
        BY <2>2, <2>4 DEF Idle
    <2>5. CASE OpensPidFile(p)
        <3>1. PICK f \in Inodes : inode' = [inode EXCEPT ![p] = f]
            BY <1>0, <2>5, OpenedFile DEF TInv
        <3>2. /\ pc[p] = "pidfile" /\ Goes(p, "lock")
              /\ UNCHANGED <<opts, pidfile>>
            BY <2>5 DEF OpensPidFile, At, Goes
        <3>3. pc'[p] = "lock"
            BY <2>2, <3>2 DEF Places
        <3>4. inode'[p] # 0
            BY <2>1, <3>1 DEF Inodes
        <3>5. QED
            BY <2>1, <3>2, <3>3, <3>4 DEF Idle
    <2>6. CASE ClosesPidFile(p) /\ ~Gone(p)
        <3>1. Goes(p, "unlink") /\ inode' = [inode EXCEPT ![p] = 0]
            BY <2>6 DEF ClosesPidFile
        <3>2. pc'[p] = "unlink" /\ inode'[p] = 0
            BY <2>1, <2>2, <3>1 DEF Places
        <3>3. QED
            BY <3>2 DEF Idle
    <2>7. CASE Reload(p) \/ Saves(p)
        BY <2>1, <2>7 DEF Reload, Saves, procvars, At, lockvars, Idle
    <2>8. ASSUME pc[p] \in Places, inode' = inode,
                 NEW place \in Places \ {"lock"}, Goes(p, place),
                 pc[p] \in Idle => place \in Idle,
                 inode[p] # 0 => place \in {"fill", "update", "running", "adding"}
          PROVE  Mine(p)'
        <3>1. pc'[p] = place /\ opts' = opts /\ pidfile' = pidfile
            BY <2>2, <2>8 DEF Goes
        <3>2. QED
            BY <2>1, <2>8, <3>1
    <2>9. CASE \/ LocksPidFile(p) \/ filldatabaselist(p) \/ FirstUpdate(p)
               \/ \E i \in Iface : AddsWhileRunning(p, i)
        BY <2>8, <2>9 DEF LocksPidFile, filldatabaselist, FirstUpdate, AddsWhileRunning, AddsTo,
           lockvars, At, Places, Idle
    <2>10. CASE \/ db_open(p) \/ db_create(p) \/ SetsVersion(p) \/ preparedatabase(p)
                \/ LegacyNotInserted(p) \/ Imported(p) \/ Added(p) \/ daemonize(p)
                \/ \E i \in Iface : \/ AddsLegacyRow(p, i) \/ SkipsLegacy(p, i)
                                    \/ insertlegacydata(p, i) \/ AddsRow(p, i)
                                    \/ SkipsInterface(p, i)
        <3>1. pc[p] \in InStart /\ inode' = inode
            BY <2>10 DEF db_open, db_create, SetsVersion, preparedatabase, LegacyNotInserted,
               Imported, Added, daemonize, AddsLegacyRow, SkipsLegacy, insertlegacydata,
               AddsRow, AddsTo, SkipsInterface, At, InStart, lockvars
        <3>2. PICK place \in InStart \cup {"pidfile", "fill"} : Goes(p, place)
            BY <2>10 DEF db_open, db_create, SetsVersion, preparedatabase, LegacyNotInserted,
               Imported, AfterImport, Added, daemonize, AddsLegacyRow, SkipsLegacy,
               insertlegacydata, AddsRow, AddsTo, SkipsInterface, InStart
        <3>3. inode[p] = 0 /\ pc[p] \in Places \ Idle
            BY <2>1, <3>1 DEF InStart, Places, Idle
        <3>4. place \in Places \ {"lock"}
            BY DEF InStart, Places
        <3>5. QED
            BY <2>8, <3>1, <3>2, <3>3, <3>4
    <2>11. CASE RemovesRow(p) \/ \E i \in Iface : SetsCounters(p, i)
        <3>1. /\ \/ pc[p] = "counters" /\ Goes(p, "add")
                 \/ pc[p] = "adding" /\ Goes(p, "running")
              /\ inode' = inode
            BY <2>11, Leaving DEF RemovesRow, SetsCounters
        <3>2. pc[p] = "counters" => inode[p] = 0
            BY <2>1
        <3>3. QED
            BY <2>8, <3>1, <3>2 DEF Places, Idle
    <2>12. QED
        BY <1>1, <2>3, <2>4, <2>5, <2>6, <2>7, <2>9, <2>10, <2>11
           DEF Steps, Fails, Killed, InitdbDone, UnlinksPidFile
<1>2. CASE \E p \in Proc : Steps(p)
    BY <1>0, <1>1, <1>2, StepsQuiet DEF OpenInv, Quiet
<1>3. CASE \/ \E i \in Iface : VnstatAdds(i)
           \/ TimePasses \/ UNCHANGED vars
    BY <1>0, <1>3 DEF OpenInv, VnstatAdds, TimePasses, vars, procvars
<1>4. QED
    BY <1>2, <1>3 DEF Next

LEMMA TInvInit == Init => TInv
<1> SUFFICES ASSUME Init PROVE TInv
    OBVIOUS
<1>1. FileInv /\ TodoInv /\ OpenInv
    BY DEF Init, FileInv, TodoInv, OnlyLegacy, OpenInv, Idle
<1>2. Coming = {} /\ Used = {}
    BY DEF Init, Coming, InStart, Used
<1>3. CountInv
    BY <1>2, FS_EmptySet DEF CountInv, Init
<1>4. QED
    BY <1>1, <1>3, TypeInit DEF TInv

LEMMA TInvNext == TInv /\ [Next]_vars => TInv'
BY TypeNext, FileNext, TodoNext, CountNext, OpenNext DEF TInv

(* Every variable of a start keeps its type: rows are only in a complete   *)
(* database, a process has added a row only where it goes on with it, and  *)
(* who holds a lock has the file open.                                     *)
THEOREM TypeCorrect == Spec => []TypeOK
<1>1. TInv => TypeOK
    BY DEF TInv
<1>2. QED
    BY <1>1, TInvInit, TInvNext, PTL DEF Spec

(***************************************************************************)
(* The lock of the pid file.                                               *)
(***************************************************************************)
LEMMA LockNext == TInv /\ LockInv /\ [Next]_vars => LockInv'
<1> SUFFICES ASSUME TInv, LockInv, [Next]_vars PROVE LockInv'
    OBVIOUS
<1>0. /\ TypeOK /\ OpenInv /\ CountInv
      /\ pc \in [Proc -> Places] /\ inode \in [Proc -> Inodes \cup {0}]
      /\ opts \in [Proc -> ValidOptions] /\ linked \in [Path -> Inodes \cup {0}]
      /\ holder \in [Inodes -> Proc \cup {Nobody}] /\ pidfile \in [Proc -> Path]
    BY DEF TInv, TypeOK
<1> DEFINE Locked(p) == Runs(p) => inode[p] # 0 /\ holder[inode[p]] = p
           Linked(p) == inode[p] # 0 => linked[opts[p].pidfile] = inode[p]
<1>1. ASSUME NEW p \in Proc,
             \/ Gone(p)
             \/ pc'[p] \notin {"fill", "update", "running", "adding"} /\ inode'[p] = 0,
             Unlocks(p), Quiet(p), UNCHANGED <<linked, unlinked>>
      PROVE  LockInv'
    <2>1. pc'[p] \notin {"fill", "update", "running", "adding"} /\ inode'[p] = 0
        BY <1>0, <1>1, Arrives
    <2>2. Locked(p)' /\ Linked(p)'
        BY <2>1 DEF Runs
    <2>3. ASSUME NEW q \in Proc \ {p} PROVE Locked(q)' /\ (~unlinked => Linked(q)')
        <3>1. holder[inode[q]] = q /\ inode[q] # 0 => holder'[inode[q]] = q
            BY <1>0, <1>1 DEF Unlocks
        <3>2. QED
            BY <1>1, <3>1 DEF LockInv, Quiet, Runs
    <2>4. QED
        BY <1>1, <2>2, <2>3 DEF LockInv
<1>2. ASSUME NEW p \in Proc, Quiet(p), UNCHANGED <<lockvars, unlinked>>,
             Runs(p)' => Runs(p) /\ inode'[p] = inode[p],
             inode'[p] = 0 \/ (inode'[p] = inode[p] /\ opts'[p] = opts[p])
      PROVE  LockInv'
    BY <1>2 DEF LockInv, Quiet, Runs, lockvars
<1>3. ASSUME NEW p \in Proc, Steps(p), NEW place, Goes(p, place), inode' = inode,
             UNCHANGED <<lockvars, unlinked>>,
             \/ pc[p] \in {"fill", "update", "running", "adding"}
             \/ place \notin {"fill", "update", "running", "adding"}
             \/ ~opts[p].rundaemon
      PROVE  LockInv'
    <2>1. pc'[p] = place /\ opts' = opts
        BY <1>0, <1>3 DEF Goes
    <2>2. Runs(p)' => Runs(p)
        BY <1>3, <2>1 DEF Runs
    <2>3. QED
        BY <1>0, <1>2, <1>3, <2>1, <2>2, StepsQuiet
<1>4. ASSUME NEW p \in Proc, Fails(p) \/ Killed(p) \/ (ClosesPidFile(p) /\ Gone(p)) PROVE LockInv'
    BY <1>0, <1>1, <1>4, StepsQuiet DEF Steps, Fails, Killed, ClosesPidFile, history
<1>5. ASSUME NEW p \in Proc, ClosesPidFile(p), ~Gone(p) PROVE LockInv'
    <2>1. Goes(p, "unlink") /\ inode' = [inode EXCEPT ![p] = 0] /\ Unlocks(p)
          /\ UNCHANGED <<linked, unlinked>>
        BY <1>5 DEF ClosesPidFile, history
    <2>2. pc'[p] = "unlink" /\ inode'[p] = 0
        BY <1>0, <2>1 DEF Goes
    <2>3. QED
        BY <1>0, <1>1, <1>5, <2>1, <2>2, StepsQuiet DEF Steps
<1>6. ASSUME NEW p \in Proc, NEW o \in Options, Launch(p, o) PROVE LockInv'
    <2>1. inode'[p] = 0 /\ pc'[p] = "open" /\ UNCHANGED <<lockvars, unlinked>>
        BY <1>0, <1>6 DEF Launch, At, OpenInv, Idle
    <2>2. QED
        BY <1>0, <1>2, <1>6, <2>1, StepsQuiet DEF Steps, Runs
<1>7. ASSUME NEW p \in Proc, InitdbDone(p) PROVE LockInv'
    <2>1. inode'[p] = 0 /\ pc'[p] = "off" /\ UNCHANGED <<lockvars, unlinked>>
        BY <1>0, <1>7, Arrives DEF InitdbDone, history
    <2>2. QED
        BY <1>0, <1>2, <1>7, <2>1, StepsQuiet DEF Steps, Runs
<1>8. ASSUME NEW p \in Proc, Reload(p) \/ Saves(p) PROVE LockInv'
    <2>1. Quiet(p) /\ UNCHANGED <<lockvars, unlinked, pc, inode, opts>>
        BY <1>0, <1>8, StepsQuiet DEF Steps, Reload, Saves, procvars, history
    <2>2. QED
        BY <1>2, <2>1 DEF Runs
<1>9. ASSUME NEW p \in Proc, UnlinksPidFile(p) PROVE LockInv'
    <2>1. /\ linked' = [linked EXCEPT ![pidfile[p]] = 0] /\ holder' = holder
          /\ unlinked' = (unlinked \/ \E q \in Proc :
                             inode[q] # 0 /\ inode[q] = linked[pidfile[p]])
          /\ Quiet(p) /\ inode'[p] = 0 /\ pc'[p] = "off"
        BY <1>0, <1>9, StepsQuiet, Arrives DEF Steps, UnlinksPidFile
    <2>2. \A q \in Proc : Locked(q)'
        BY <2>1 DEF LockInv, Quiet, Runs
    <2>3. ASSUME ~unlinked', NEW q \in Proc \ {p}, inode[q] # 0
          PROVE  linked'[opts[q].pidfile] = inode[q]
        <3>1. ~unlinked /\ ~ \E r \in Proc : inode[r] # 0 /\ inode[r] = linked[pidfile[p]]
            BY <2>1, <2>3
        <3>2. linked[opts[q].pidfile] = inode[q]
            BY <2>3, <3>1 DEF LockInv
        <3>3. opts[q].pidfile # pidfile[p]
            BY <2>3, <3>1, <3>2
        <3>4. QED
            BY <1>0, <2>1, <3>2, <3>3
    <2>4. ~unlinked' => \A q \in Proc : Linked(q)'
        BY <2>1, <2>3 DEF Quiet
    <2>5. QED
        BY <2>2, <2>4 DEF LockInv
<1>10. ASSUME NEW p \in Proc, OpensPidFile(p) PROVE LockInv'
    <2>1. PICK f \in Inodes :
              /\ linked' = [linked EXCEPT ![pidfile[p]] = f]
              /\ inode' = [inode EXCEPT ![p] = f]
              /\ \/ f = linked[pidfile[p]]
                 \/ /\ linked[pidfile[p]] = 0
                    /\ \A q \in Proc, g \in Path : f \notin {inode[q], linked[g]}
        BY <1>0, <1>10, OpenedFile
    <2>2. /\ pc[p] = "pidfile" /\ pc'[p] = "lock" /\ opts' = opts
          /\ UNCHANGED <<holder, unlinked>> /\ Quiet(p)
        BY <1>0, <1>10, StepsQuiet DEF Steps, OpensPidFile, Goes, At, history
    <2>3. pidfile[p] = opts[p].pidfile /\ inode'[p] = f /\ linked'[pidfile[p]] = f
        BY <1>0, <2>1, <2>2 DEF OpenInv, Idle
    <2>4. \A q \in Proc : Locked(q)'
        BY <2>2 DEF LockInv, Quiet, Runs
    <2>5. ASSUME ~unlinked, NEW q \in Proc \ {p}, inode[q] # 0
          PROVE  linked'[opts[q].pidfile] = inode[q]
        <3>1. linked[opts[q].pidfile] = inode[q]
            BY <2>5 DEF LockInv
        <3>2. CASE opts[q].pidfile = pidfile[p]
            BY <2>1, <2>3, <2>5, <3>1, <3>2
        <3>3. CASE opts[q].pidfile # pidfile[p]
            BY <1>0, <2>1, <3>1, <3>3
        <3>4. QED
            BY <3>2, <3>3
    <2>6. ~unlinked => \A q \in Proc : Linked(q)'
        BY <2>2, <2>3, <2>5 DEF Quiet
    <2>7. QED
        BY <2>2, <2>4, <2>6 DEF LockInv
<1>11. ASSUME NEW p \in Proc, LocksPidFile(p) PROVE LockInv'
    <2>1. /\ pc[p] = "lock" /\ holder[inode[p]] = Nobody
          /\ holder' = [holder EXCEPT ![inode[p]] = p]
          /\ UNCHANGED <<linked, unlinked, inode, opts>> /\ Quiet(p)
        BY <1>0, <1>11, StepsQuiet DEF Steps, LocksPidFile, Goes, At, history
    <2>2. inode[p] \in Inodes
        BY <1>0, <2>1 DEF OpenInv
    <2>3. Locked(p)'
        BY <1>0, <2>1, <2>2 DEF Inodes
    <2>4. ASSUME NEW q \in Proc \ {p} PROVE Locked(q)'
        <3>1. Runs(q)' => Runs(q)
            BY <2>1 DEF Quiet, Runs
        <3>2. Runs(q) => inode[q] \in Inodes /\ holder[inode[q]] = q
            BY <1>0 DEF LockInv
        <3>3. Runs(q) => holder'[inode[q]] = q
            BY <1>0, <2>1, <2>2, <3>2, NobodyAssumption
        <3>4. QED
            BY <2>1, <3>1, <3>2, <3>3 DEF Inodes
    <2>5. QED
        BY <2>1, <2>3, <2>4 DEF LockInv
<1>12. ASSUME NEW p \in Proc,
              \/ db_open(p) \/ db_create(p) \/ SetsVersion(p) \/ preparedatabase(p)
              \/ LegacyNotInserted(p) \/ Imported(p) \/ Added(p)
              \/ daemonize(p) \/ filldatabaselist(p) \/ FirstUpdate(p)
              \/ \E i \in Iface : \/ AddsLegacyRow(p, i) \/ SkipsLegacy(p, i)
                                  \/ insertlegacydata(p, i) \/ AddsRow(p, i)
                                  \/ SkipsInterface(p, i) \/ AddsWhileRunning(p, i)
       PROVE  LockInv'
    <2>1. /\ inode' = inode /\ UNCHANGED <<lockvars, unlinked>>
          /\ \E place : /\ Goes(p, place)
                        /\ \/ pc[p] \in {"fill", "update", "running", "adding"}
                           \/ place \notin {"fill", "update", "running", "adding"}
                           \/ ~opts[p].rundaemon
        BY <1>12 DEF db_open, db_create, SetsVersion, preparedatabase, LegacyNotInserted,
           Imported, AfterImport, Added, daemonize, filldatabaselist, FirstUpdate,
           AddsLegacyRow, SkipsLegacy, insertlegacydata, AddsRow, AddsTo, SkipsInterface,
           AddsWhileRunning, At, history
    <2>2. QED
        BY <1>3, <1>12, <2>1 DEF Steps
<1>13. CASE \/ \E i \in Iface : VnstatAdds(i)
            \/ TimePasses \/ UNCHANGED vars
    <2>1. UNCHANGED <<lockvars, procvars, unlinked>>
        BY <1>13 DEF VnstatAdds, TimePasses, vars, history
    <2>2. QED
        BY <2>1 DEF LockInv, Runs, lockvars, procvars
<1>14. ASSUME NEW p \in Proc, RemovesRow(p) \/ \E i \in Iface : SetsCounters(p, i)
       PROVE  LockInv'
    <2>1. /\ \/ pc[p] = "counters" /\ Goes(p, "add")
             \/ pc[p] = "adding" /\ Goes(p, "running")
          /\ UNCHANGED <<lockvars, inode, unlinked>>
        BY <1>14, Leaving DEF RemovesRow, SetsCounters
    <2>2. QED
        BY <1>3, <1>14, <2>1 DEF Steps
<1>15. QED
    BY <1>4, <1>5, <1>6, <1>7, <1>8, <1>9, <1>10, <1>11, <1>12, <1>13, <1>14 DEF Next, Steps

(* Of two daemons in the background at least one has another pid file,     *)
(* unless a daemon that ended has removed one that was in use: each has    *)
(* locked the file it opened, and that is the one its path still names.    *)
THEOREM OneDaemonPerPidFile == Spec => []OneDaemonUnlessUnlinked
<1>1. Init => TInv /\ LockInv
    BY TInvInit DEF Init, LockInv, Runs
<1>2. TInv /\ LockInv /\ [Next]_vars => (TInv /\ LockInv)'
    BY TInvNext, LockNext
<1>3. TInv /\ LockInv => OneDaemonUnlessUnlinked
    BY DEF LockInv, Runs, OneDaemonUnlessUnlinked, OneDaemon
<1>4. QED
    BY <1>1, <1>2, <1>3, PTL DEF Spec

(***************************************************************************)
(* Rows that have just been added, and what is taken away.                 *)
(***************************************************************************)
KeepsRows == \A i \in Iface : row[i] # "none" => row'[i] # "none"

LEMMA OwnKept ==
    ASSUME TypeOK, OwnInv, NEW p \in Proc, Quiet(p), KeepsRows, imported' = imported,
           iface'[p] \subseteq iface[p],
           pc'[p] \in {"counters", "adding"} => pc[p] \in {"counters", "adding"}
    PROVE  OwnInv'
<1>1. \A q \in Proc : iface[q] \subseteq Iface
    BY DEF TypeOK
<1>2. imported \subseteq Iface
    BY LegacyAssumption DEF TypeOK
<1>3. \A q \in Proc :
         /\ iface'[q] \subseteq iface[q]
         /\ pc'[q] \in {"counters", "adding"} => pc[q] \in {"counters", "adding"}
    BY DEF Quiet
<1>4. QED
    BY <1>1, <1>2, <1>3 DEF OwnInv, KeepsRows

LEMMA OwnAdded ==
    ASSUME TypeOK, OwnInv, NEW p \in Proc, NEW i \in Iface, Quiet(p), row[i] = "none",
           row' = [row EXCEPT ![i] = "zero"], imported' = imported, iface'[p] = {i}
    PROVE  OwnInv'
<1>1. /\ \A q \in Proc : iface[q] \subseteq Iface
      /\ imported \subseteq Iface /\ row \in [Iface -> RowStates]
    BY LegacyAssumption DEF TypeOK
<1>2. row'[i] # "none" /\ \A j \in Iface \ {i} : row'[j] = row[j]
    BY <1>1
<1>3. i \notin imported /\ \A q \in Proc : i \notin iface[q]
    BY DEF OwnInv
<1>4. \A q \in Proc \ {p} : iface'[q] = iface[q] /\ pc'[q] = pc[q]
    BY DEF Quiet
<1>5. \A q \in Proc : \A j \in iface'[q] : row'[j] # "none"
    BY <1>1, <1>2, <1>4 DEF OwnInv
<1>6. \A q, r \in Proc : q # r => iface'[q] \cap iface'[r] = {}
    BY <1>3, <1>4 DEF OwnInv
<1>7. \A q \in Proc : \A j, k \in iface'[q] : j = k
    BY <1>4 DEF OwnInv
<1>8. \A q \in Proc : pc'[q] \in {"counters", "adding"} => iface'[q] \cap imported' = {}
    BY <1>3, <1>4 DEF OwnInv
<1>9. \A j \in imported' : row'[j] # "none"
    BY <1>1, <1>2 DEF OwnInv
<1>10. QED
    BY <1>5, <1>6, <1>7, <1>8, <1>9 DEF OwnInv

LEMMA OwnNext == TInv /\ OwnInv /\ [Next]_vars => OwnInv'
<1> SUFFICES ASSUME TInv, OwnInv, [Next]_vars PROVE OwnInv'
    OBVIOUS
<1>0. /\ TypeOK /\ pc \in [Proc -> Places] /\ iface \in [Proc -> SUBSET Iface]
      /\ row \in [Iface -> RowStates]
    BY DEF TInv, TypeOK
<1>1. ASSUME NEW p \in Proc, Steps(p), UNCHANGED <<row, imported>>, Gone(p) \/ UNCHANGED <<pc, iface>>
      PROVE  OwnInv'
    BY <1>0, <1>1, OwnKept, StepsQuiet, Arrives DEF KeepsRows
<1>2. ASSUME NEW p \in Proc, Steps(p), imported' = imported, KeepsRows,
             NEW place \in Places \ {"counters", "adding"}, Goes(p, place),
             iface' = iface \/ iface' = [iface EXCEPT ![p] = {}]
      PROVE  OwnInv'
    <2>1. pc'[p] = place /\ iface'[p] \subseteq iface[p]
        BY <1>0, <1>2, Arrives
    <2>2. QED
        BY <1>0, <1>2, <2>1, OwnKept, StepsQuiet
<1>3. ASSUME row' = row PROVE KeepsRows
    BY <1>3 DEF KeepsRows
<1>4. ASSUME NEW p \in Proc,
             \/ Fails(p) \/ Killed(p) \/ InitdbDone(p) \/ UnlinksPidFile(p) \/ Reload(p)
             \/ ClosesPidFile(p) /\ Gone(p)
      PROVE  OwnInv'
    BY <1>1, <1>4 DEF Steps, Fails, Killed, InitdbDone, UnlinksPidFile, Reload, ClosesPidFile,
       dbvars, history
<1>5. ASSUME NEW p \in Proc, NEW o \in Options, Launch(p, o) PROVE OwnInv'
    <2>1. pc'[p] = "open" /\ UNCHANGED <<row, imported, iface>>
        BY <1>0, <1>5 DEF Launch, dbvars
    <2>2. QED
        BY <1>0, <1>3, <1>5, <2>1, OwnKept, StepsQuiet DEF Steps
<1>6. ASSUME NEW p \in Proc,
             \/ db_open(p) \/ db_create(p) \/ SetsVersion(p) \/ preparedatabase(p)
             \/ LegacyNotInserted(p) \/ Imported(p) \/ Added(p) \/ daemonize(p)
             \/ OpensPidFile(p) \/ LocksPidFile(p) \/ filldatabaselist(p)
             \/ ClosesPidFile(p) /\ ~Gone(p)
             \/ \E i \in Iface : SkipsLegacy(p, i) \/ SkipsInterface(p, i)
      PROVE  OwnInv'
    <2>1. /\ UNCHANGED <<row, imported>>
          /\ iface' = iface \/ iface' = [iface EXCEPT ![p] = {}]
        BY <1>6 DEF db_open, db_create, SetsVersion, preparedatabase, LegacyNotInserted,
           Imported, Added, daemonize, OpensPidFile, LocksPidFile, filldatabaselist,
           ClosesPidFile, SkipsLegacy, SkipsInterface, dbvars, history
    <2>2. \E place \in Places \ {"counters", "adding"} : Goes(p, place)
        BY <1>6 DEF db_open, db_create, SetsVersion, preparedatabase, LegacyNotInserted,
           Imported, AfterImport, Added, daemonize, OpensPidFile, LocksPidFile,
           filldatabaselist, ClosesPidFile, SkipsLegacy, SkipsInterface, Places
    <2>3. QED
        BY <1>2, <1>3, <1>6, <2>1, <2>2 DEF Steps
<1>7. ASSUME NEW p \in Proc, FirstUpdate(p) \/ \E i \in Iface : SetsCounters(p, i)
      PROVE  OwnInv'
    <2>1. CASE FirstUpdate(p)
        <3>1. imported' = imported /\ iface' = iface /\ Goes(p, "running")
            BY <2>1 DEF FirstUpdate
        <3>2. KeepsRows
            BY <1>0, <2>1 DEF FirstUpdate, KeepsRows
        <3>3. QED
            BY <1>2, <2>1, <3>1, <3>2 DEF Steps, Places
    <2>2. ASSUME NEW i \in Iface, SetsCounters(p, i) PROVE OwnInv'
        <3>1. /\ imported' = imported /\ iface' = [iface EXCEPT ![p] = {}]
              /\ Goes(p, "add") \/ Goes(p, "running")
            BY <2>2, Leaving DEF SetsCounters
        <3>2. KeepsRows
            BY <1>0, <2>2 DEF SetsCounters, KeepsRows
        <3>3. QED
            BY <1>2, <2>2, <3>1, <3>2 DEF Steps, Places
    <2>3. QED
        BY <1>7, <2>1, <2>2
<1>8. ASSUME NEW p \in Proc, NEW i \in Iface,
             AddsLegacyRow(p, i) \/ AddsRow(p, i) \/ AddsWhileRunning(p, i)
      PROVE  OwnInv'
    <2>1. /\ row[i] = "none" /\ row' = [row EXCEPT ![i] = "zero"] /\ imported' = imported
          /\ iface'[p] = {i}
        BY <1>0, <1>8 DEF AddsLegacyRow, AddsRow, AddsWhileRunning, AddsTo, history
    <2>2. QED
        BY <1>0, <1>8, <2>1, OwnAdded, StepsQuiet DEF Steps
<1>9. ASSUME NEW p \in Proc, NEW i \in Iface, insertlegacydata(p, i) PROVE OwnInv'
    <2>1. /\ i \in iface[p] /\ row[i] # "none" /\ row' = [row EXCEPT ![i] = "legacy"]
          /\ imported' = imported \cup {i} /\ iface'[p] = {} /\ pc'[p] = "import" /\ Quiet(p)
        BY <1>0, <1>9, StepsQuiet DEF insertlegacydata, Goes, Steps
    <2>2. KeepsRows /\ row'[i] # "none"
        BY <1>0, <2>1 DEF KeepsRows
    <2>3. \A q \in Proc \ {p} : i \notin iface[q] /\ iface'[q] = iface[q] /\ pc'[q] = pc[q]
        BY <2>1 DEF OwnInv, Quiet
    <2>4. \A q \in Proc : pc'[q] \in {"counters", "adding"} => iface'[q] \cap imported' = {}
        BY <2>1, <2>3 DEF OwnInv
    <2>5. \A j \in imported' : row'[j] # "none"
        BY <1>0, <2>1, <2>2, LegacyAssumption DEF OwnInv, KeepsRows, TypeOK
    <2>6. \A q \in Proc : \A j \in iface'[q] : row'[j] # "none"
        BY <1>0, <2>1, <2>2, <2>3 DEF OwnInv, KeepsRows
    <2>7. /\ \A q \in Proc : \A j, k \in iface'[q] : j = k
          /\ \A q, r \in Proc : q # r => iface'[q] \cap iface'[r] = {}
        BY <2>1, <2>3 DEF OwnInv
    <2>8. QED
        BY <2>4, <2>5, <2>6, <2>7 DEF OwnInv
<1>10. ASSUME NEW p \in Proc, RemovesRow(p) PROVE OwnInv'
    <2>1. /\ pc[p] \in {"counters", "adding"}
          /\ imported' = imported /\ iface'[p] = {} /\ Quiet(p)
          /\ pc'[p] \notin {"counters", "adding"}
        BY <1>0, <1>10, StepsQuiet, Leaving, Arrives DEF RemovesRow, Steps, Places
    <2>2. \A j \in Iface \ iface[p] : row'[j] = row[j]
        BY <1>10 DEF RemovesRow
    <2>3. \A q \in Proc \ {p} : /\ iface'[q] = iface[q] /\ pc'[q] = pc[q]
                                /\ iface[q] \cap iface[p] = {}
        BY <2>1 DEF OwnInv, Quiet
    <2>4. \A q \in Proc : \A j \in iface'[q] : row'[j] # "none"
        BY <1>0, <2>1, <2>2, <2>3 DEF OwnInv
    <2>5. \A j \in imported' : row'[j] # "none"
        BY <1>0, <2>1, <2>2, LegacyAssumption DEF OwnInv, TypeOK
    <2>6. /\ \A q \in Proc : \A j, k \in iface'[q] : j = k
          /\ \A q, r \in Proc : q # r => iface'[q] \cap iface'[r] = {}
          /\ \A q \in Proc : pc'[q] \in {"counters", "adding"} => iface'[q] \cap imported' = {}
        BY <2>1, <2>3 DEF OwnInv
    <2>7. QED
        BY <2>4, <2>5, <2>6 DEF OwnInv
<1>11. ASSUME NEW i \in Iface, VnstatAdds(i) PROVE OwnInv'
    <2>1. UNCHANGED <<iface, pc, imported>> /\ row' = [row EXCEPT ![i] = "zero"]
        BY <1>11 DEF VnstatAdds, procvars
    <2>2. \A j \in Iface : row[j] # "none" => row'[j] # "none"
        BY <1>0, <2>1
    <2>3. imported \subseteq Iface
        BY <1>0, LegacyAssumption DEF TypeOK
    <2>4. QED
        BY <1>0, <2>1, <2>2, <2>3 DEF OwnInv
<1>12. CASE TimePasses \/ UNCHANGED vars
    BY <1>12 DEF OwnInv, TimePasses, vars, dbvars, procvars, history
<1>13. ASSUME NEW p \in Proc, Saves(p) PROVE OwnInv'
    <2>1. UNCHANGED <<iface, pc, imported>>
        BY <1>13 DEF Saves, procvars
    <2>2. KeepsRows
        BY <1>0, <1>13 DEF Saves, KeepsRows
    <2>3. QED
        BY <1>0, <1>13, <2>1, <2>2, OwnKept, StepsQuiet DEF Steps
<1>14. QED
    BY <1>4, <1>5, <1>6, <1>7, <1>8, <1>9, <1>10, <1>11, <1>12, <1>13 DEF Next, Steps

(* The step NothingIsTakenAway allows. *)
TakesNothing ==
    /\ file = "complete" => file' = "complete"
    /\ \A i \in Iface : (row[i] # "none" /\ row'[i] = "none") =>
          /\ i \notin imported
          /\ \E p \in Proc : i \in iface[p] \ iface'[p]

LEMMA TakesNothingNext == TInv /\ OwnInv /\ [Next]_vars => TakesNothing
<1> SUFFICES ASSUME TInv, OwnInv, [Next]_vars PROVE TakesNothing
    OBVIOUS
<1>0. row \in [Iface -> RowStates] /\ iface \in [Proc -> SUBSET Iface]
    BY DEF TInv, TypeOK
<1>1. file = "complete" => file' = "complete"
    BY DEF Next, Steps, Launch, Fails, Killed, db_open, db_create, SetsVersion,
       preparedatabase, AddsLegacyRow, SkipsLegacy, insertlegacydata, LegacyNotInserted,
       Imported, AddsRow, AddsTo, SkipsInterface, SetsCounters, Leaves, RemovesRow, Added,
       InitdbDone, daemonize, OpensPidFile, LocksPidFile, filldatabaselist, FirstUpdate, Saves,
       AddsWhileRunning, Reload, ClosesPidFile, UnlinksPidFile, VnstatAdds, TimePasses, At,
       vars, dbvars
<1>2. ASSUME NEW p \in Proc, RemovesRow(p), NEW i \in Iface, row[i] # "none", row'[i] = "none"
      PROVE  i \notin imported /\ i \in iface[p] \ iface'[p]
    <2>1. /\ pc[p] \in {"counters", "adding"} /\ iface' = [iface EXCEPT ![p] = {}]
          /\ row' = row \/ row' = [j \in Iface |-> IF j \in iface[p] THEN "none" ELSE row[j]]
        BY <1>2 DEF RemovesRow, Leaves
    <2>2. i \in iface[p] /\ iface'[p] = {}
        BY <1>0, <1>2, <2>1
    <2>3. QED
        BY <2>1, <2>2 DEF OwnInv
<1>3. ASSUME NEW i \in Iface, NEW j \in Iface, NEW state \in RowStates \ {"none"},
             row' = [row EXCEPT ![j] = state]
      PROVE  row[i] # "none" => row'[i] # "none"
    BY <1>0, <1>3
<1>4. ASSUME NEW i \in Iface, NEW p \in Proc, Steps(p), ~RemovesRow(p)
      PROVE  row[i] # "none" => row'[i] # "none"
    <2>1. row' = row \/ FirstUpdate(p) \/ Saves(p)
          \/ \E j \in Iface, state \in RowStates \ {"none"} : row' = [row EXCEPT ![j] = state]
        BY <1>4 DEF Steps, Launch, Fails, Killed, db_open, db_create, SetsVersion,
           preparedatabase, AddsLegacyRow, SkipsLegacy, insertlegacydata, LegacyNotInserted,
           Imported, AddsRow, AddsTo, SkipsInterface, SetsCounters, Leaves, Added, InitdbDone,
           daemonize, OpensPidFile, LocksPidFile, filldatabaselist, AddsWhileRunning, Reload,
           ClosesPidFile, UnlinksPidFile, RowStates, dbvars
    <2>2. QED
        BY <1>0, <1>3, <2>1 DEF FirstUpdate, Saves
<1>5. ASSUME NEW i \in Iface,
             (\E j \in Iface : VnstatAdds(j)) \/ TimePasses \/ UNCHANGED vars
      PROVE  row[i] # "none" => row'[i] # "none"
    BY <1>0, <1>3, <1>5 DEF VnstatAdds, TimePasses, vars, dbvars, RowStates
<1>6. QED
    BY <1>1, <1>2, <1>4, <1>5 DEF TakesNothing, Next

(* However many daemons start at a time, none takes away the database, nor *)
(* a row but the one it has just added itself, and no imported data: a row *)
(* that a process has added is imported into by no other.                  *)
THEOREM NothingTakenAway == Spec => NothingIsTakenAway
<1>1. Init => TInv /\ OwnInv
    BY TInvInit DEF Init, OwnInv
<1>2. TInv /\ OwnInv /\ [Next]_vars => (TInv /\ OwnInv)'
    BY TInvNext, OwnNext
<1>3. TInv /\ OwnInv /\ [Next]_vars => TakesNothing
    BY TakesNothingNext
<1>4. QED
    BY <1>1, <1>2, <1>3, PTL DEF Spec, NothingIsTakenAway, TakesNothing

(***************************************************************************)
(* Starts that are alone and of which no step fails.                       *)
(***************************************************************************)
LEMMA Disturbs == [Next]_vars /\ ~disturbed' => ~disturbed
<1> SUFFICES ASSUME [Next]_vars, disturbed PROVE disturbed'
    OBVIOUS
<1>1. ASSUME NEW p \in Proc,
             \/ Fails(p) \/ Killed(p) \/ LegacyNotInserted(p)
             \/ \E o \in Options : Launch(p, o)
             \/ \E i \in Iface : SkipsLegacy(p, i)
      PROVE  disturbed'
    BY <1>1, Zenon DEF Launch, Fails, Killed, SkipsLegacy, LegacyNotInserted
<1>3. ASSUME NEW p \in Proc, Steps(p), ~(Fails(p) \/ Killed(p) \/ LegacyNotInserted(p)),
             ~ \E o \in Options : Launch(p, o),
             \A i \in Iface : ~SkipsLegacy(p, i)
      PROVE  disturbed' = disturbed
    BY <1>3 DEF Steps, db_open, db_create, SetsVersion, preparedatabase, AddsLegacyRow,
       insertlegacydata, Imported, AddsRow, AddsTo, SkipsInterface, SetsCounters, RemovesRow, Leaves, Added,
       InitdbDone, daemonize, OpensPidFile, LocksPidFile, filldatabaselist, FirstUpdate, Saves,
       AddsWhileRunning, Reload, ClosesPidFile, UnlinksPidFile, history
<1>4. CASE (\E i \in Iface : VnstatAdds(i)) \/ TimePasses \/ UNCHANGED vars
    BY <1>4 DEF VnstatAdds, TimePasses, vars, history
<1>5. QED
    BY <1>1, <1>3, <1>4 DEF Next

LEMMA ImportedGrows == [Next]_vars => imported \subseteq imported'
BY DEF Next, Steps, Launch, Fails, Killed, db_open, db_create, SetsVersion, preparedatabase,
   AddsLegacyRow, SkipsLegacy, insertlegacydata, LegacyNotInserted, Imported, AddsRow, AddsTo,
   SkipsInterface, SetsCounters, Leaves, RemovesRow, Added, InitdbDone, daemonize,
   OpensPidFile, LocksPidFile, filldatabaselist, FirstUpdate, Saves, AddsWhileRunning, Reload,
   ClosesPidFile, UnlinksPidFile, VnstatAdds, TimePasses, vars, history

LEMMA LegacyRowsNext == TypeOK /\ LegacyRows /\ [Next]_vars => LegacyRows'
<1> SUFFICES ASSUME TypeOK, LegacyRows, [Next]_vars PROVE LegacyRows'
    OBVIOUS
<1>0. row \in [Iface -> RowStates] /\ imported \subseteq imported'
    BY ImportedGrows DEF TypeOK
<1>1. ASSUME \A i \in Iface : row'[i] = "legacy" => row[i] = "legacy" PROVE LegacyRows'
    BY <1>0, <1>1 DEF LegacyRows
<1>2. ASSUME NEW j \in Iface, NEW state \in RowStates \ {"legacy"}, row' = [row EXCEPT ![j] = state]
      PROVE  LegacyRows'
    BY <1>0, <1>1, <1>2
<1>3. ASSUME NEW p \in Proc, NEW i \in Iface, insertlegacydata(p, i) PROVE LegacyRows'
    BY <1>0, <1>3 DEF insertlegacydata, LegacyRows
<1>4. ASSUME NEW p \in Proc, RemovesRow(p) \/ FirstUpdate(p) \/ Saves(p) PROVE LegacyRows'
    BY <1>0, <1>1, <1>4 DEF RemovesRow, Leaves, FirstUpdate, Saves
<1>5. CASE row' = row
    BY <1>1, <1>5
<1>6. ASSUME NEW p \in Proc, Steps(p), ~RemovesRow(p), ~FirstUpdate(p), ~Saves(p),
             \A i \in Iface : ~insertlegacydata(p, i)
      PROVE  LegacyRows'
    <2>1. row' = row
          \/ \E j \in Iface, state \in RowStates \ {"legacy"} : row' = [row EXCEPT ![j] = state]
        BY <1>6 DEF Steps, Launch, Fails, Killed, db_open, db_create, SetsVersion,
           preparedatabase, AddsLegacyRow, SkipsLegacy, LegacyNotInserted, Imported, AddsRow,
           AddsTo, SkipsInterface, SetsCounters, Leaves, Added, InitdbDone, daemonize,
           OpensPidFile, LocksPidFile, filldatabaselist, AddsWhileRunning, Reload,
           ClosesPidFile, UnlinksPidFile, RowStates, dbvars
    <2>2. QED
        BY <1>2, <1>5, <2>1
<1>7. CASE (\E j \in Iface : VnstatAdds(j)) \/ TimePasses \/ UNCHANGED vars
    BY <1>2, <1>5, <1>7 DEF VnstatAdds, TimePasses, vars, dbvars, RowStates
<1>8. QED
    BY <1>3, <1>4, <1>6, <1>7 DEF Next

(* A process that is not mid-start does not get there but by being         *)
(* started.                                                                *)
LEMMA StaysIdle ==
    ASSUME TypeOK, NEW p \in Proc, Steps(p), pc[p] \in Idle, \A o \in Options : ~Launch(p, o)
    PROVE  pc'[p] \in Idle
<1>0. /\ \A place \in Places : Goes(p, place) => pc'[p] = place
      /\ Gone(p) => pc'[p] = "off"
    BY Arrives
<1>1. \/ Fails(p) \/ Killed(p) \/ Reload(p) \/ Saves(p) \/ ClosesPidFile(p)
      \/ UnlinksPidFile(p) \/ RemovesRow(p)
      \/ \E i \in Iface : AddsWhileRunning(p, i) \/ SetsCounters(p, i)
    BY DEF Steps, Idle, db_open, db_create, SetsVersion, preparedatabase, AddsLegacyRow,
       SkipsLegacy, insertlegacydata, LegacyNotInserted, Imported, AddsRow, SkipsInterface,
       Added, InitdbDone, daemonize, OpensPidFile, LocksPidFile, filldatabaselist, FirstUpdate,
       At
<1>2. \/ Gone(p) \/ pc' = pc
      \/ \E place \in {"running", "adding", "unlink"} : Goes(p, place)
    BY <1>1, Leaving DEF Fails, Killed, Reload, Saves, procvars, ClosesPidFile, UnlinksPidFile,
       AddsWhileRunning, AddsTo, RemovesRow, SetsCounters, Idle
<1>3. QED
    BY <1>0, <1>2 DEF Idle, Places

LEMMA AloneNext == TypeOK /\ UndisturbedInv /\ [Next]_vars /\ ~disturbed' => Alone'
<1> SUFFICES ASSUME TypeOK, UndisturbedInv, [Next]_vars, ~disturbed' PROVE Alone'
    OBVIOUS
<1>0. ~disturbed /\ Alone
    BY Disturbs DEF UndisturbedInv
<1>1. ASSUME NEW p \in Proc, Steps(p) PROVE Alone'
    <2>1. \A q \in Proc \ {p} : pc'[q] = pc[q]
        BY <1>1, StepsQuiet DEF Quiet
    <2>2. CASE \E o \in Options : Launch(p, o)
        <3>1. \A q \in Proc : pc[q] \in Idle
            BY <2>2 DEF Launch, Idle
        <3>2. QED
            BY <2>1, <3>1 DEF Alone
    <2>3. CASE pc[p] \in Idle /\ \A o \in Options : ~Launch(p, o)
        BY <1>0, <1>1, <2>1, <2>3, StaysIdle DEF Alone
    <2>4. CASE pc[p] \notin Idle
        BY <1>0, <2>1, <2>4 DEF Alone
    <2>5. QED
        BY <2>2, <2>3, <2>4
<1>2. CASE (\E j \in Iface : VnstatAdds(j)) \/ TimePasses \/ UNCHANGED vars
    BY <1>0, <1>2 DEF Alone, VnstatAdds, TimePasses, vars, procvars
<1>3. QED
    BY <1>1, <1>2 DEF Next

UInv == TInv /\ OwnInv /\ UndisturbedInv

(* Either all legacy data is there, or no start has come as far as looking *)
(* for it, or one is just importing it.                                    *)
LEMMA LegacyInvNext == UInv /\ [Next]_vars /\ ~disturbed' => LegacyInv'
<1> SUFFICES ASSUME UInv, [Next]_vars, ~disturbed' PROVE LegacyInv'
    OBVIOUS
<1>0. /\ TypeOK /\ OwnInv /\ ~disturbed /\ Alone /\ LegacyInv
      /\ row \in [Iface -> RowStates] /\ iface \in [Proc -> SUBSET Iface]
      /\ pc \in [Proc -> Places] /\ todo \in [Proc -> SUBSET Iface]
      /\ imported \subseteq imported' /\ imported \subseteq Iface
      /\ \A p \in Proc : pc[p] \in {"data", "counters", "adding"} <=> iface[p] # {}
    BY Disturbs, ImportedGrows, LegacyAssumption DEF UInv, TInv, TypeOK, UndisturbedInv
<1>1. CASE Legacy \subseteq imported
    BY <1>0, <1>1 DEF LegacyInv
<1>2. /\ \A p \in Proc : ~LegacyNotInserted(p)
      /\ \A i \in Iface : ~VnstatAdds(i)
    BY DEF LegacyNotInserted, VnstatAdds
<1>3. ASSUME NEW p \in Proc, Fails(p) \/ Killed(p) PROVE pc[p] \notin InStart
    BY <1>3, Zenon DEF Fails, Killed
<1>4. \A p \in Proc : /\ \A place \in Places : Goes(p, place) => pc'[p] = place /\ opts' = opts
                      /\ Gone(p) => pc'[p] = "off"
    BY <1>0, Arrives DEF Goes
<1>5. CASE NotYet
    <2>1. ASSUME NEW p \in Proc, Quiet(p), row' = row,
                 \/ pc'[p] \in {"off", "open", "create", "version", "prepare"}
                 \/ pc'[p] = "ready" /\ opts'[p].initdb
          PROVE  LegacyInv'
        BY <1>5, <2>1 DEF LegacyInv, NotYet, Known, Quiet
    <2>2. ASSUME NEW p \in Proc, preparedatabase(p) PROVE LegacyInv'
        <3>1. row' = row /\ Quiet(p) /\ pc[p] = "prepare" /\ Known = {} /\ UNCHANGED <<iface, imported>>
            BY <1>0, <1>5, <2>2, StepsQuiet
               DEF Steps, NotYet, preparedatabase, At, dbvars, history
        <3>2. CASE Imports(p) /\ Goes(p, "import") /\ todo' = [todo EXCEPT ![p] = Legacy]
            <4>1. pc'[p] = "import" /\ todo'[p] = Legacy
                BY <1>0, <1>4, <3>2 DEF Places
            <4>2. \A q \in Proc \ {p} : pc'[q] = "off"
                BY <1>0, <1>5, <3>1 DEF Alone, Idle, NotYet, Quiet
            <4>3. Known' = {}
                BY <3>1 DEF Known
            <4>4. Importing(p)'
                BY <4>1, <4>2, <4>3 DEF Importing
            <4>5. QED
                BY <4>4 DEF LegacyInv
        <3>3. CASE ~Imports(p) /\ AfterImport(p, Known # {})
            <4>1. opts[p].initdb /\ (Known # {}) = FALSE
                BY <3>1, <3>3 DEF Imports
            <4>2. Goes(p, "ready")
                BY <3>3, <4>1 DEF AfterImport, Adds
            <4>3. QED
                BY <1>4, <2>1, <3>1, <4>1, <4>2 DEF Places
        <3>4. QED
            BY <2>2, <3>2, <3>3 DEF preparedatabase
    <2>3. ASSUME NEW p \in Proc,
                 \/ db_open(p) \/ db_create(p) \/ SetsVersion(p) \/ InitdbDone(p)
                 \/ \E o \in Options : Launch(p, o)
          PROVE  LegacyInv'
        <3>1. row' = row /\ Quiet(p)
            BY <1>0, <2>3, StepsQuiet
               DEF Steps, db_open, db_create, SetsVersion, InitdbDone, Launch, dbvars
        <3>2. pc'[p] \in {"off", "open", "create", "version", "prepare"}
            BY <1>0, <1>4, <2>3
               DEF db_open, db_create, SetsVersion, InitdbDone, Launch, Places
        <3>3. QED
            BY <2>1, <3>1, <3>2
    <2>4. ASSUME NEW p \in Proc, Fails(p) \/ Killed(p) PROVE LegacyInv'
        BY <1>0, <1>4, <2>1, <2>4, StepsQuiet DEF Steps, Fails, Killed, dbvars
    <2>5. ASSUME NEW p \in Proc, Steps(p) PROVE LegacyInv'
        <3>1. \/ pc[p] \in {"off", "open", "create", "version", "prepare"}
              \/ pc[p] = "ready" /\ opts[p].initdb
            BY <1>5 DEF NotYet
        <3>2. QED
            BY <2>2, <2>3, <2>4, <2>5, <3>1 DEF Steps, AddsLegacyRow, SkipsLegacy,
               insertlegacydata, LegacyNotInserted, Imported, AddsRow, AddsTo, SkipsInterface,
               SetsCounters, Leaves, RemovesRow, Added, daemonize, OpensPidFile, LocksPidFile,
               filldatabaselist, FirstUpdate, Saves, AddsWhileRunning, Reload, ClosesPidFile,
               UnlinksPidFile, At
    <2>6. CASE TimePasses \/ UNCHANGED vars
        BY <1>5, <2>6 DEF LegacyInv, NotYet, Known, TimePasses, vars, dbvars, procvars
    <2>7. QED
        BY <1>2, <2>5, <2>6 DEF Next
<1>6. ASSUME NEW p \in Proc, Importing(p) PROVE LegacyInv'
    <2>1. ASSUME NEW q \in Proc, NEW o \in Options, Launch(q, o) PROVE FALSE
        <3>1. pc[q] = "off" /\ \A r \in Proc : pc[r] \in Idle
            BY <2>1 DEF Launch, At, Idle
        <3>2. QED
            BY <1>6, <3>1 DEF Importing, Idle
    <2>2. ASSUME NEW q \in Proc, Steps(q) PROVE q = p
        <3>1. q # p => pc[q] = "off"
            BY <1>6 DEF Importing
        <3>2. QED
            BY <2>1, <2>2, <3>1 DEF Steps, Fails, Killed, InStart, db_open, db_create,
               SetsVersion, preparedatabase, InitdbDone, AddsLegacyRow, SkipsLegacy,
               insertlegacydata, LegacyNotInserted, Imported, AddsRow, AddsTo, SkipsInterface,
               SetsCounters, Leaves, RemovesRow, Added, daemonize, OpensPidFile, LocksPidFile,
               filldatabaselist, FirstUpdate, Saves, AddsWhileRunning, Reload, ClosesPidFile,
               UnlinksPidFile, At
    <2>3. ASSUME Quiet(p), pc'[p] \in {"import", "data"},
                 Legacy \subseteq imported' \cup todo'[p] \cup iface'[p],
                 Known' \subseteq imported' \cup iface'[p]
          PROVE  LegacyInv'
        BY <1>6, <2>3 DEF Importing, LegacyInv, Quiet
    <2>4. /\ Legacy \subseteq imported \cup todo[p] \cup iface[p]
          /\ Known \subseteq imported \cup iface[p]
          /\ pc[p] \in {"import", "data"}
          /\ pc[p] = "import" => iface[p] = {}
        BY <1>0, <1>6 DEF Importing
    <2>5. ASSUME NEW i \in Iface, AddsLegacyRow(p, i) PROVE LegacyInv'
        <3>1. /\ pc[p] = "import" /\ row' = [row EXCEPT ![i] = "zero"] /\ imported' = imported
              /\ todo' = [todo EXCEPT ![p] = @ \ {i}] /\ iface' = [iface EXCEPT ![p] = {i}]
              /\ Goes(p, "data")
            BY <2>5 DEF AddsLegacyRow, At, history
        <3>2. todo'[p] = todo[p] \ {i} /\ iface'[p] = {i} /\ pc'[p] = "data"
            BY <1>0, <1>4, <3>1 DEF Places
        <3>3. Known' \subseteq Known \cup {i}
            BY <1>0, <3>1 DEF Known
        <3>4. Quiet(p)
            BY <1>0, <2>5, StepsQuiet DEF Steps
        <3>5. QED
            BY <2>3, <2>4, <3>1, <3>2, <3>3, <3>4
    <2>6. ASSUME NEW i \in Iface, SkipsLegacy(p, i) PROVE LegacyInv'
        <3>1. /\ pc[p] = "import" /\ row' = row /\ imported' = imported /\ iface' = iface
              /\ todo' = [todo EXCEPT ![p] = @ \ {i}] /\ Goes(p, "import")
            BY <2>6 DEF SkipsLegacy, At, dbvars
        <3>2. row[i] # "none"
            BY <2>6, Zenon DEF SkipsLegacy
        <3>3. i \in imported
            BY <2>4, <3>1, <3>2 DEF Known
        <3>4. todo'[p] = todo[p] \ {i} /\ pc'[p] = "import" /\ Known' = Known
            BY <1>0, <1>4, <3>1 DEF Places, Known
        <3>5. Quiet(p)
            BY <1>0, <2>6, StepsQuiet DEF Steps
        <3>6. QED
            BY <2>3, <2>4, <3>1, <3>3, <3>4, <3>5
    <2>7. ASSUME NEW i \in Iface, insertlegacydata(p, i) PROVE LegacyInv'
        <3>1. /\ i \in iface[p] /\ row[i] # "none" /\ row' = [row EXCEPT ![i] = "legacy"]
              /\ imported' = imported \cup {i} /\ iface' = [iface EXCEPT ![p] = {}]
              /\ todo' = todo /\ Goes(p, "import")
            BY <2>7 DEF insertlegacydata
        <3>2. iface[p] = {i} /\ iface'[p] = {} /\ pc'[p] = "import"
            BY <1>0, <1>4, <3>1 DEF Places, OwnInv
        <3>3. Known' = Known
            BY <1>0, <3>1 DEF Known
        <3>4. Quiet(p)
            BY <1>0, <2>7, StepsQuiet DEF Steps
        <3>5. QED
            BY <2>3, <2>4, <3>1, <3>2, <3>3, <3>4
    <2>8. CASE Imported(p)
        <3>1. pc[p] = "import" /\ todo[p] = {}
            BY <2>8 DEF Imported, At
        <3>2. QED
            BY <1>1, <2>4, <3>1
    <2>9. CASE Steps(p)
        BY <1>2, <1>3, <2>1, <2>4, <2>5, <2>6, <2>7, <2>8, <2>9
           DEF Steps, Fails, Killed, InStart, db_open, db_create, SetsVersion, preparedatabase,
              InitdbDone, AddsRow, AddsTo, SkipsInterface, SetsCounters, Leaves, RemovesRow,
              Added, daemonize, OpensPidFile, LocksPidFile, filldatabaselist, FirstUpdate,
              Saves, AddsWhileRunning, Reload, ClosesPidFile, UnlinksPidFile, At
    <2>10. CASE TimePasses \/ UNCHANGED vars
        <3>1. UNCHANGED <<row, imported, pc, todo, iface>>
            BY <2>10 DEF TimePasses, vars, dbvars, procvars, history
        <3>2. QED
            BY <1>6, <3>1 DEF LegacyInv, Importing, Known
    <2>11. QED
        BY <1>2, <2>2, <2>9, <2>10 DEF Next
<1>7. QED
    BY <1>0, <1>1, <1>5, <1>6 DEF LegacyInv

LEMMA UInvInit == Init => UInv
<1> SUFFICES ASSUME Init PROVE UInv
    OBVIOUS
<1>1. OwnInv /\ Alone
    BY DEF Init, OwnInv, Alone, Idle
<1>2. NotYet
    BY DEF Init, NotYet, Known
<1>3. QED
    BY <1>1, <1>2, TInvInit DEF UInv, UndisturbedInv, LegacyInv

LEMMA UInvNext == UInv /\ [Next]_vars => UInv'
<1> SUFFICES ASSUME UInv, [Next]_vars PROVE UInv'
    OBVIOUS
<1>1. TInv' /\ OwnInv'
    BY TInvNext, OwnNext DEF UInv
<1>2. ~disturbed' => Alone' /\ LegacyInv'
    BY AloneNext, LegacyInvNext DEF UInv, TInv
<1>3. QED
    BY <1>1, <1>2 DEF UInv, UndisturbedInv

(* The first start that gets through has imported every usable legacy      *)
(* database, with any options, if it was alone and no step of it failed.   *)
THEOREM LegacyImported == Spec => []LegacyIsImported
<1>1. UInv => LegacyIsImported
    <2> SUFFICES ASSUME UInv, ~disturbed, NEW p \in Proc,
                        pc[p] \in {"fill", "update", "running", "adding"}
                 PROVE  Legacy \subseteq imported
        BY DEF LegacyIsImported
    <2>1. ~NotYet
        BY DEF NotYet
    <2>2. ASSUME NEW q \in Proc PROVE ~Importing(q)
        BY DEF Importing
    <2>3. QED
        BY <2>1, <2>2 DEF UInv, UndisturbedInv, LegacyInv
<1>2. QED
    BY <1>1, UInvInit, UInvNext, PTL DEF Spec

(***************************************************************************)
(* Rows without counters.                                                  *)
(***************************************************************************)
(* A row is without counters while the process that has added it is at it, *)
(* and for good only where that process was interrupted or a statement     *)
(* failed, or vnstat --add has added it.                                   *)
LEMMA BareNext == TInv /\ OwnInv /\ BareInv /\ [Next]_vars => BareInv'
<1> SUFFICES ASSUME TInv, OwnInv, BareInv, [Next]_vars PROVE BareInv'
    OBVIOUS
<1>0. /\ TypeOK /\ row \in [Iface -> RowStates] /\ iface \in [Proc -> SUBSET Iface]
      /\ \A p \in Proc : pc[p] \notin {"data", "counters", "adding"} => iface[p] = {}
    BY DEF TInv, TypeOK
<1>1. ASSUME NEW p \in Proc, Steps(p),
             \A i \in Iface : row'[i] = "zero" => row[i] = "zero" \/ i \in iface'[p],
             \A i \in bare \cup iface[p] : row'[i] = "zero" => i \in bare' \cup iface'[p]
      PROVE  BareInv'
    <2> SUFFICES ASSUME NEW i \in Iface, row'[i] = "zero", i \notin bare', i \notin iface'[p]
                 PROVE  \E q \in Proc : i \in iface'[q]
        BY DEF BareInv, BeingAdded
    <2>1. PICK q \in Proc : i \in iface[q]
        BY <1>1 DEF BareInv, BeingAdded
    <2>2. q # p
        BY <1>1, <2>1
    <2>3. iface'[q] = iface[q]
        BY <1>0, <1>1, <2>2, StepsQuiet DEF Quiet
    <2>4. QED
        BY <2>1, <2>3
<1>2. ASSUME NEW p \in Proc,
             \/ Fails(p) \/ Killed(p) \/ InitdbDone(p) \/ UnlinksPidFile(p)
             \/ ClosesPidFile(p) /\ Gone(p)
      PROVE  BareInv'
    <2>1. row' = row /\ bare' = bare \cup iface[p]
        BY <1>2 DEF Fails, Killed, InitdbDone, UnlinksPidFile, ClosesPidFile, Gone, dbvars
    <2>2. QED
        BY <1>1, <1>2, <2>1 DEF Steps
<1>3. ASSUME NEW p \in Proc,
             \/ db_open(p) \/ db_create(p) \/ SetsVersion(p) \/ preparedatabase(p)
             \/ Imported(p) \/ Added(p) \/ daemonize(p) \/ OpensPidFile(p)
             \/ LocksPidFile(p) \/ filldatabaselist(p) \/ Reload(p)
             \/ ClosesPidFile(p) /\ ~Gone(p)
             \/ \E o \in Options : Launch(p, o)
             \/ \E i \in Iface : SkipsLegacy(p, i) \/ SkipsInterface(p, i)
      PROVE  BareInv'
    <2>1. row' = row /\ bare' = bare /\ iface' = iface
        BY <1>3 DEF db_open, db_create, SetsVersion, preparedatabase, Imported, Added,
           daemonize, OpensPidFile, LocksPidFile, filldatabaselist, Reload, ClosesPidFile,
           Launch, SkipsLegacy, SkipsInterface, dbvars, history
    <2>2. QED
        BY <2>1 DEF BareInv, BeingAdded
<1>4. ASSUME NEW p \in Proc, NEW i \in Iface,
             AddsLegacyRow(p, i) \/ AddsRow(p, i) \/ AddsWhileRunning(p, i)
      PROVE  BareInv'
    <2>1. /\ pc[p] \in {"import", "add", "running"}
          /\ row' = [row EXCEPT ![i] = "zero"] /\ iface' = [iface EXCEPT ![p] = {i}]
          /\ bare' = bare
        BY <1>4 DEF AddsLegacyRow, AddsRow, AddsWhileRunning, AddsTo, At, history
    <2>2. iface[p] = {} /\ iface'[p] = {i} /\ \A j \in Iface \ {i} : row'[j] = row[j]
        BY <1>0, <2>1
    <2>3. QED
        BY <1>1, <1>4, <2>1, <2>2 DEF Steps
<1>5. ASSUME NEW p \in Proc, NEW i \in Iface, insertlegacydata(p, i) \/ SetsCounters(p, i)
      PROVE  BareInv'
    <2>1. /\ i \in iface[p]
          /\ \/ /\ \E state \in {"legacy", "counters"} : row' = [row EXCEPT ![i] = state]
                /\ bare' = bare \ {i}
             \/ row' = row /\ bare' = bare \cup {i}
        BY <1>5 DEF insertlegacydata, SetsCounters
    <2>2. \A j \in iface[p] : j = i
        BY <2>1 DEF OwnInv
    <2>3. bare \subseteq Iface
        BY <1>0 DEF TypeOK
    <2>4. QED
        BY <1>0, <1>1, <1>5, <2>1, <2>2, <2>3 DEF Steps
<1>6. ASSUME NEW p \in Proc, RemovesRow(p) \/ LegacyNotInserted(p) PROVE BareInv'
    <2>1. \/ row' = row /\ bare' = bare \cup iface[p]
          \/ /\ row' = [j \in Iface |-> IF j \in iface[p] THEN "none" ELSE row[j]]
             /\ bare' = bare \ iface[p]
        BY <1>6 DEF RemovesRow, LegacyNotInserted, dbvars
    <2>2. bare \subseteq Iface /\ iface[p] \subseteq Iface
        BY <1>0 DEF TypeOK
    <2>3. QED
        BY <1>1, <1>6, <2>1, <2>2 DEF Steps
<1>7. ASSUME NEW p \in Proc, FirstUpdate(p) PROVE BareInv'
    <2>1. /\ row' = [i \in Iface |->
                        IF i \in todo[p] /\ row[i] # "none" THEN "counters" ELSE row[i]]
          /\ bare' = bare \ todo[p] /\ iface[p] = {}
        BY <1>0, <1>7 DEF FirstUpdate, At
    <2>2. bare \subseteq Iface
        BY <1>0 DEF TypeOK
    <2>3. QED
        BY <1>1, <1>7, <2>1, <2>2 DEF Steps
<1>8. ASSUME NEW p \in Proc, Saves(p) PROVE BareInv'
    <2>1. \E logged \in SUBSET Iface :
              /\ row' = [i \in Iface |-> IF i \in logged THEN "counters" ELSE row[i]]
              /\ bare' = bare \ logged
        BY <1>8 DEF Saves, Known
    <2>2. bare \subseteq Iface /\ iface[p] = {}
        BY <1>0, <1>8 DEF TypeOK, Saves, At
    <2>3. QED
        BY <1>1, <1>8, <2>1, <2>2 DEF Steps
<1>9. ASSUME NEW i \in Iface, VnstatAdds(i) PROVE BareInv'
    <2>1. row' = [row EXCEPT ![i] = "zero"] /\ bare' = bare \cup {i} /\ iface' = iface
        BY <1>9 DEF VnstatAdds, procvars
    <2>2. QED
        BY <1>0, <2>1 DEF BareInv, BeingAdded
<1>10. CASE TimePasses \/ UNCHANGED vars
    BY <1>10 DEF BareInv, BeingAdded, TimePasses, vars, dbvars, procvars, history
<1>11. QED
    BY <1>2, <1>3, <1>4, <1>5, <1>6, <1>7, <1>8, <1>9, <1>10 DEF Next, Steps

LEMMA PhantomStep ==
    TypeOK /\ BareInv /\ LegacyRows /\ [Next]_vars =>
        phantom' \subseteq phantom \cup imported \cup bare \cup BeingAdded
<1> SUFFICES ASSUME TypeOK, BareInv, LegacyRows, [Next]_vars
             PROVE  phantom' \subseteq phantom \cup imported \cup bare \cup BeingAdded
    OBVIOUS
<1>1. ASSUME NEW p \in Proc, FirstUpdate(p)
      PROVE  phantom' \subseteq phantom \cup imported \cup bare \cup BeingAdded
    <2>1. phantom' \subseteq phantom \cup {i \in Iface : row[i] \in {"zero", "legacy"}}
        BY <1>1 DEF FirstUpdate, TypeOK
    <2>2. {i \in Iface : row[i] \in {"zero", "legacy"}} \subseteq imported \cup bare \cup BeingAdded
        BY DEF BareInv, LegacyRows
    <2>3. QED
        BY <2>1, <2>2
<1>2. ASSUME NEW p \in Proc, Steps(p), ~FirstUpdate(p) PROVE phantom' = phantom
    BY <1>2 DEF Steps, Launch, Fails, Killed, db_open, db_create, SetsVersion,
       preparedatabase, AddsLegacyRow, SkipsLegacy, insertlegacydata, LegacyNotInserted,
       Imported, AddsRow, AddsTo, SkipsInterface, SetsCounters, Leaves, RemovesRow, Added,
       InitdbDone, daemonize, OpensPidFile, LocksPidFile, filldatabaselist, Saves,
       AddsWhileRunning, Reload, ClosesPidFile, UnlinksPidFile, history
<1>3. CASE (\E i \in Iface : VnstatAdds(i)) \/ TimePasses \/ UNCHANGED vars
    BY <1>3 DEF VnstatAdds, TimePasses, vars, history
<1>4. QED
    BY <1>1, <1>2, <1>3 DEF Next

(* The first update of a daemon counts nothing from before a row was       *)
(* added, but for interfaces of a legacy database, a row another process   *)
(* is just adding, and rows left without counters by vnstat --add, a       *)
(* failing db_setcounters or db_removeinterface, or a process that did not *)
(* get to them: whatever else fails, is killed or starts at the same time. *)
THEOREM OnlyItsTimeCounts == Spec => CountsOnlyItsTime
<1> DEFINE BInv == TInv /\ OwnInv /\ LegacyRows /\ BareInv
<1>1. Init => BInv
    BY TInvInit DEF Init, OwnInv, LegacyRows, BareInv
<1>2. BInv /\ [Next]_vars => BInv'
    BY TInvNext, OwnNext, LegacyRowsNext, BareNext DEF TInv
<1>3. BInv /\ [Next]_vars => phantom' \subseteq phantom \cup imported \cup bare \cup BeingAdded
    BY PhantomStep DEF TInv
<1> HIDE DEF BInv
<1>4. QED
    BY <1>1, <1>2, <1>3, PTL DEF Spec, CountsOnlyItsTime
=============================================================================
