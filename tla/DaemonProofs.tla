---------------------------- MODULE DaemonProofs ----------------------------
(***************************************************************************)
(* What module Daemon guarantees for every set of interfaces, every set of *)
(* faults of the database engine and every bound.                          *)
(***************************************************************************)
EXTENDS Daemon, TLAPS

(* db_addinterface keeps the shape of the database. *)
LEMMA AddInterface ==
    ASSUME NEW d \in Database, NEW i \in Iface
    PROVE  /\ db_addinterface(d, i) \in Database
           /\ db_addinterface(d, i).known = d.known \cup {i}
           /\ db_addinterface(d, i).total = [d.total EXCEPT ![i] = 0]
           /\ db_addinterface(d, i).counter = [d.counter EXCEPT ![i] = 0]
BY DEF Database, db_addinterface

(* db_removeinterface takes one row away. *)
LEMMA RemoveInterface ==
    ASSUME NEW d \in Database, NEW i \in Iface
    PROVE  /\ db_removeinterface(d, i) \in Database
           /\ db_removeinterface(d, i).known = d.known \ {i}
           /\ db_removeinterface(d, i).total = [d.total EXCEPT ![i] = 0]
           /\ db_removeinterface(d, i).counter = [d.counter EXCEPT ![i] = 0]
BY DEF Database, db_removeinterface

(* db_addtraffic_dated changes one total and nothing else. *)
LEMMA AddTraffic ==
    ASSUME NEW d \in Database, NEW i \in Iface, NEW n \in Nat
    PROVE  /\ db_addtraffic(d, i, n) \in Database
           /\ db_addtraffic(d, i, n).known = d.known
           /\ db_addtraffic(d, i, n).total = [d.total EXCEPT ![i] = @ + n]
           /\ db_addtraffic(d, i, n).counter = d.counter
BY DEF Database, db_addtraffic

(* db_setcounters changes one counter and nothing else. *)
LEMMA SetCounters ==
    ASSUME NEW d \in Database, NEW i \in Iface, NEW n \in Nat
    PROVE  /\ db_setcounters(d, i, n) \in Database
           /\ db_setcounters(d, i, n).known = d.known
           /\ db_setcounters(d, i, n).total = d.total
           /\ db_setcounters(d, i, n).counter = [d.counter EXCEPT ![i] = n]
BY DEF Database, db_setcounters

(* What a flush writes of an entry: its pending traffic and its counters,  *)
(* or nothing when its log is empty.                                       *)
LEMMA StoredEntry ==
    ASSUME TypeOK, NEW i \in Iface
    PROVE  /\ Stored(i) \in Database
           /\ Stored(i).known = txn.known
           /\ Stored(i).total = IF i \in logged
                                THEN [txn.total EXCEPT ![i] = @ + pend[i]]
                                ELSE txn.total
           /\ Stored(i).counter = IF i \in logged
                                  THEN [txn.counter EXCEPT ![i] = curr[i]]
                                  ELSE txn.counter
<1>1. txn \in Database /\ pend[i] \in Nat /\ curr[i] \in Nat
    BY DEF TypeOK, SqliteTypeOK, Amounts
<1>2. CASE i \notin logged
    BY <1>1, <1>2 DEF Stored
<1>3. CASE i \in logged
    <2> DEFINE d == db_addtraffic(txn, i, pend[i])
    <2>1. /\ d \in Database
          /\ d.known = txn.known
          /\ d.total = [txn.total EXCEPT ![i] = @ + pend[i]]
          /\ d.counter = txn.counter
        BY <1>1, AddTraffic
    <2>2. Stored(i) = db_setcounters(d, i, curr[i])
        BY <1>3 DEF Stored
    <2> HIDE DEF d
    <2>3. QED
        BY <1>1, <1>3, <2>1, <2>2, SetCounters
<1>4. QED
    BY <1>2, <1>3

(* The constants and the type invariant, as far as every step needs them. *)
LEMMA ReadFaultsAreFaults == ReadFaults \subseteq ErrorCodes /\ Faults \subseteq ErrorCodes
BY FaultsAssumption DEF ReadFaults, ErrorCodes

LEMMA UpdateFaultsAreFaults == UpdateFaults \subseteq ErrorCodes
BY ReadFaultsAreFaults DEF UpdateFaults, ErrorCodes

LEMMA EmptyMemory == NoAmounts \in Amounts /\ EmptyDatabase \in Database
BY DEF NoAmounts, Amounts, EmptyDatabase, Database

LEMMA TypeInit == Init => TypeOK
<1> SUFFICES ASSUME Init PROVE TypeOK
    OBVIOUS
<1>1. SqliteTypeOK
    BY EmptyMemory DEF Init, SqliteInit, SqliteTypeOK, ErrorCodes
<1>2. pc \in Places
    BY DEF Init, Places
<1>3. dbretrycount \in 0 .. DBRETRYLIMIT
    BY RetryAssumption DEF Init
<1>4. curr \in Amounts /\ pend \in Amounts /\ counted \in Amounts
    BY EmptyMemory DEF Init
<1>5. sync \in BOOLEAN /\ noremove \in BOOLEAN /\ bootdetected \in BOOLEAN
    BY DEF Init
<1>6. QED
    BY <1>1, <1>2, <1>3, <1>4, <1>5 DEF Init, TypeOK

(* The process ends: errorexitdaemon, a kill and a clean exit alike. *)
LEMMA TypeEnds ==
    ASSUME TypeOK, NEW how \in {"success", "failure", "dberror", "killed"},
           Ends(how), HandleLost
    PROVE  TypeOK'
<1>1. SqliteTypeOK'
    BY DEF TypeOK, SqliteTypeOK, HandleLost, ErrorCodes
<1>2. pc' \in Places
    BY DEF Ends, Places
<1>4. dbretrycount' \in 0 .. DBRETRYLIMIT
    BY RetryAssumption DEF Ends
<1>5. sync' \in BOOLEAN /\ noremove' \in BOOLEAN /\ bootdetected' \in BOOLEAN
    BY DEF Ends
<1>6. /\ ended' \in {"none", "success", "failure", "dberror", "killed"}
      /\ goal' \in {"cleanup", "reload", "exit"}
    BY DEF Ends
<1>3. /\ cache' = {} /\ todo' = {} /\ filled' = {} /\ active' = {}
      /\ syncneeded' = {} /\ logged' = {}
      /\ curr' \in Amounts /\ pend' \in Amounts /\ counted' \in Amounts
    BY EmptyMemory DEF TypeOK, Ends, datacache_clear
<1>7. QED
    BY <1>1, <1>2, <1>3, <1>4, <1>5, <1>6 DEF TypeOK

(* The two outcomes of handledatabaseerror. *)
LEMMA TypeError ==
    ASSUME TypeOK, NEW e \in ErrorCodes, NEW place \in Places,
           NEW ACTION effect, effect => SqliteTypeOK',
           handledatabaseerror(e, place, effect)
    PROVE  TypeOK'
<1>1. CASE errorexitdaemon("dberror")
    BY <1>1, TypeEnds DEF errorexitdaemon
<1>2. CASE /\ ~GivesUp(e)
           /\ effect
           /\ pc' = place
           /\ dbretrycount' = IF db_isdiskfull(e) THEN dbretrycount
                                                  ELSE dbretrycount + 1
           /\ UNCHANGED <<todo, goal, statevars, cachevars, ended, counted>>
    <2>1. dbretrycount' \in 0 .. DBRETRYLIMIT
        BY <1>2, RetryAssumption
           DEF TypeOK, GivesUp, db_isdiskfull, db_iserrcodefatal, ErrorCodes
    <2>2. QED
        BY <1>2, <2>1 DEF TypeOK, statevars, cachevars
<1>3. QED
    BY <1>1, <1>2 DEF handledatabaseerror

(***************************************************************************)
(* Every step keeps the type invariant: first the main loop.               *)
(***************************************************************************)
LEMMA TypeStart == ASSUME TypeOK, Start PROVE TypeOK'
BY DEF Start, Started, TypeOK, SqliteTypeOK, sqlitevars, statevars, cachevars, Places

(* The interfaces a daemon adds to an empty database. *)
LEMMA AddedInterfaces ==
    ASSUME NEW found \in SUBSET Iface, NEW counter \in [Iface -> 0 .. MaxCounter]
    PROVE  /\ addinterfaces(found, counter) \in Database
           /\ addinterfaces(found, counter).total = NoAmounts
<1>1. counter \in [Iface -> Nat]
    BY BoundsAssumption
<1>2. NoAmounts \in [Iface -> Nat]
    BY DEF NoAmounts
<1>3. QED
    BY <1>1, <1>2 DEF addinterfaces, Database

LEMMA TypeStartAdding == ASSUME TypeOK, StartAdding PROVE TypeOK'
<1>1. PICK found \in SUBSET Iface, counter \in [Iface -> 0 .. MaxCounter] :
          AutocommitWrites(addinterfaces(found, counter))
    BY DEF StartAdding
<1>2. SqliteTypeOK'
    BY <1>1, AddedInterfaces DEF AutocommitWrites, TypeOK, SqliteTypeOK
<1>3. Started
    BY DEF StartAdding
<1>4. QED
    BY <1>2, <1>3 DEF Started, TypeOK, statevars, cachevars, Places

LEMMA TypeFill == ASSUME TypeOK, filldatabaselist PROVE TypeOK'
<1>1. cache' \in SUBSET Iface /\ active' \in SUBSET cache' /\ syncneeded' \in SUBSET cache'
    BY DEF filldatabaselist, TypeOK, SqliteTypeOK, Database
<1>2. filled' \in SUBSET cache' /\ todo' \in SUBSET cache' /\ logged' \in SUBSET filled'
    BY DEF filldatabaselist, TypeOK
<1>3. SqliteTypeOK'
    BY DEF filldatabaselist, TypeOK, SqliteTypeOK, sqlitevars
<1>4. QED
    BY <1>1, <1>2, <1>3 DEF filldatabaselist, TypeOK

LEMMA TypeChangeCheck == ASSUME TypeOK, NEW visible \in SUBSET Iface, interfacechangecheck(visible) PROVE TypeOK'
BY DEF interfacechangecheck, TypeOK, SqliteTypeOK, sqlitevars, statevars, cachevars, Amounts

LEMMA TypeBeginUpdate == ASSUME TypeOK, BeginUpdate PROVE TypeOK'
BY DEF BeginUpdate, TypeOK, SqliteTypeOK, sqlitevars, statevars, cachevars, Places

LEMMA TypeSignals == ASSUME TypeOK, handleintsignals PROVE TypeOK'
BY DEF handleintsignals, TypeOK, SqliteTypeOK, sqlitevars, statevars, cachevars, Places

LEMMA TypeReload == ASSUME TypeOK, Reload PROVE TypeOK'
BY EmptyMemory DEF Reload, TypeOK, SqliteTypeOK, sqlitevars, statevars, cachevars, Places, datacache_clear, HandleLost, ErrorCodes

LEMMA TypeClockOff == ASSUME TypeOK, NEW i \in Iface, ClockOff(i) PROVE TypeOK'
BY TypeEnds DEF ClockOff, errorexitdaemon

LEMMA TypeListUnreadable == ASSUME TypeOK, ListUnreadable PROVE TypeOK'
BY TypeEnds DEF ListUnreadable, errorexitdaemon

LEMMA TypeReloadFails == ASSUME TypeOK, ReloadFails PROVE TypeOK'
BY TypeEnds DEF ReloadFails, errorexitdaemon

LEMMA TypeKilled == ASSUME TypeOK, Killed PROVE TypeOK'
BY TypeEnds DEF Killed

LEMMA TypeExit == ASSUME TypeOK, Exit PROVE TypeOK'
BY TypeEnds DEF Exit

(* Updates. *)
LEMMA TypeProcessDone == ASSUME TypeOK, ProcessDone PROVE TypeOK'
BY DEF ProcessDone, TypeOK, SqliteTypeOK, sqlitevars, statevars, cachevars, Places

LEMMA TypeNotInitialised == ASSUME TypeOK, NEW i \in Iface, NotInitialised(i) PROVE TypeOK'
BY DEF NotInitialised, TypeOK, SqliteTypeOK, sqlitevars, statevars, cachevars

(* initcachevalues sets the counters to values of their type. *)
LEMMA CountersOfType ==
    ASSUME TypeOK, NEW i \in Iface
    PROVE  InitialCounters(i) \in SUBSET Nat
BY BoundsAssumption DEF InitialCounters, TypeOK, SqliteTypeOK, Database, Amounts

LEMMA TypeLeftAlone == ASSUME TypeOK, NEW i \in Iface, LeftAlone(i) PROVE TypeOK'
BY CountersOfType DEF LeftAlone, Reached, TypeOK, SqliteTypeOK, sqlitevars, statevars, cachevars, Amounts

LEMMA TypeNotAvailable == ASSUME TypeOK, NEW i \in Iface, NotAvailable(i) PROVE TypeOK'
BY CountersOfType DEF NotAvailable, Reached, TypeOK, SqliteTypeOK, sqlitevars, statevars, cachevars, Amounts

LEMMA TypeTakenOver == ASSUME TypeOK, NEW i \in Iface, TakenOver(i) PROVE TypeOK'
BY BoundsAssumption DEF TakenOver, Reached, TypeOK, SqliteTypeOK, sqlitevars, statevars, cachevars, Amounts

LEMMA TypeCounted == ASSUME TypeOK, NEW i \in Iface, NEW amount \in 0 .. MaxChange, Counted(i, amount) PROVE TypeOK'
BY BoundsAssumption DEF Counted, Reached, TypeOK, SqliteTypeOK, sqlitevars, statevars, cachevars, Amounts

(* The flush. *)
LEMMA TypeFlushBegins == ASSUME TypeOK, FlushBegins PROVE TypeOK'
BY DEF FlushBegins, db_begintransaction, TypeOK, SqliteTypeOK, sqlitevars, statevars, cachevars, Places, ErrorCodes

LEMMA TypeSkipEntry == ASSUME TypeOK, NEW i \in Iface, SkipEntry(i) PROVE TypeOK'
BY DEF SkipEntry, Visits, Stays, TypeOK, SqliteTypeOK, sqlitevars, statevars, cachevars

(* So does one that stops between two of them. *)
LEMMA WrittenEntry ==
    ASSUME TypeOK, NEW i \in Iface, NEW d \in Written(i)
    PROVE  /\ d \in Database
           /\ d.total \in {txn.total, [txn.total EXCEPT ![i] = @ + pend[i]]}
<1>1. txn \in Database /\ pend[i] \in Nat
    BY DEF TypeOK, SqliteTypeOK, Amounts
<1>2. /\ Stored(i) \in Database
      /\ Stored(i).total \in {txn.total, [txn.total EXCEPT ![i] = @ + pend[i]]}
    BY StoredEntry
<1>3. /\ db_addtraffic(txn, i, pend[i]) \in Database
      /\ db_addtraffic(txn, i, pend[i]).total = [txn.total EXCEPT ![i] = @ + pend[i]]
    BY <1>1, AddTraffic
<1>4. d \in {Stored(i), db_addtraffic(txn, i, pend[i])}
    BY DEF Written
<1>5. QED
    BY <1>2, <1>3, <1>4, Zenon

LEMMA TypeStoreEntry == ASSUME TypeOK, NEW i \in Iface, StoreEntry(i) PROVE TypeOK'
<1>1. txn' \in Database
    BY StoredEntry DEF StoreEntry
<1>2. SqliteTypeOK'
    BY <1>1 DEF StoreEntry, TypeOK, SqliteTypeOK
<1>3. QED
    BY <1>2 DEF StoreEntry, Visits, Stays, TypeOK, statevars, cachevars

LEMMA TypeRemoveEntry == ASSUME TypeOK, NEW i \in Iface, RemoveEntry(i) PROVE TypeOK'
<1>1. txn \in Database
    BY DEF TypeOK, SqliteTypeOK
<1>2. txn' \in Database
    BY <1>1, RemoveInterface DEF RemoveEntry
<1>3. SqliteTypeOK'
    BY <1>2 DEF RemoveEntry, TypeOK, SqliteTypeOK
<1>4. QED
    BY <1>3 DEF RemoveEntry, Stays, TypeOK, statevars, cachevars, Places

LEMMA TypeTotalsUnreadable == ASSUME TypeOK, NEW i \in Iface, TotalsUnreadable(i) PROVE TypeOK'
BY FaultsAssumption DEF TotalsUnreadable, StatementFails, RollsBackItself, ReadFaults, Stays, TypeOK, SqliteTypeOK, sqlitevars, statevars, cachevars, Places, ErrorCodes

LEMMA TypeFlushCommits == ASSUME TypeOK, FlushCommits PROVE TypeOK'
<1>1. SqliteTypeOK'
    BY DEF FlushCommits, db_committransaction, TypeOK, SqliteTypeOK
<1>2. dbretrycount' \in 0 .. DBRETRYLIMIT
    BY RetryAssumption DEF FlushCommits
<1>3. pc' \in Places
    BY DEF FlushCommits, TypeOK, Places
<1>4. pend' \in Amounts
    BY EmptyMemory DEF FlushCommits
<1>5. QED
    BY <1>1, <1>2, <1>3, <1>4 DEF FlushCommits, TypeOK, statevars

LEMMA TypeFlushRollsBack == ASSUME TypeOK, FlushRollsBack PROVE TypeOK'
BY DEF FlushRollsBack, db_rollbacktransaction, AfterRollback, Stays, TypeOK, SqliteTypeOK, sqlitevars, statevars, cachevars, Places, ErrorCodes

LEMMA TypeClean == ASSUME TypeOK, cleanremovedinterfaces PROVE TypeOK'
<1>1. SqliteTypeOK'
    BY DEF cleanremovedinterfaces, TypeOK, SqliteTypeOK, sqlitevars
<1>2. /\ cache' \in SUBSET Iface /\ filled' \in SUBSET cache' /\ active' \in SUBSET cache'
      /\ syncneeded' \in SUBSET cache' /\ logged' \in SUBSET filled'
    BY DEF cleanremovedinterfaces, TypeOK
<1>3. curr' \in Amounts /\ pend' \in Amounts
    BY DEF cleanremovedinterfaces, TypeOK, Amounts
<1>4. QED
    BY <1>1, <1>2, <1>3 DEF cleanremovedinterfaces, TypeOK, statevars, Places

(* The steps after a flush. *)
LEMMA TypeRescan == ASSUME TypeOK, rescandatabaseforinterfaces PROVE TypeOK'
<1>1. PICK found \in {{}, db.known \ cache} :
          /\ cache' = cache \cup found
          /\ active' = active \cup found
          /\ syncneeded' = syncneeded \cup found
    BY DEF rescandatabaseforinterfaces
<1>2. found \in SUBSET Iface
    BY DEF TypeOK, SqliteTypeOK, Database
<1>3. /\ cache' \in SUBSET Iface /\ filled' \in SUBSET cache' /\ active' \in SUBSET cache'
      /\ syncneeded' \in SUBSET cache' /\ todo' \in SUBSET cache' /\ logged' \in SUBSET filled'
    BY <1>1, <1>2 DEF rescandatabaseforinterfaces, TypeOK
<1>4. SqliteTypeOK'
    BY DEF rescandatabaseforinterfaces, TypeOK, SqliteTypeOK, sqlitevars
<1>5. QED
    BY <1>3, <1>4 DEF rescandatabaseforinterfaces, TypeOK, statevars, Places

(* The vnstat command: another process writes the database. *)
LEMMA TypeOtherProcess ==
    ASSUME TypeOK, NEW d \in Database, AutocommitWrites(d),
           UNCHANGED <<pc, todo, goal, statevars, dbretrycount, cachevars, ended, counted>>
    PROVE  TypeOK'
<1>1. SqliteTypeOK'
    BY DEF AutocommitWrites, TypeOK, SqliteTypeOK
<1>2. QED
    BY <1>1 DEF TypeOK, statevars, cachevars

LEMMA TypeVnstatAdds == ASSUME TypeOK, NEW i \in Iface, VnstatAdds(i) PROVE TypeOK'
<1>1. db_addinterface(db, i) \in Database
    BY AddInterface DEF TypeOK, SqliteTypeOK
<1>2. QED
    BY <1>1, TypeOtherProcess DEF VnstatAdds

LEMMA TypeVnstatRemoves == ASSUME TypeOK, NEW i \in Iface, VnstatRemoves(i) PROVE TypeOK'
<1>1. db_removeinterface(db, i) \in Database
    BY RemoveInterface DEF TypeOK, SqliteTypeOK
<1>2. QED
    BY <1>1, TypeOtherProcess DEF VnstatRemoves

(* The steps that end in handledatabaseerror. *)
LEMMA TypeFlushNotBegun == ASSUME TypeOK, FlushNotBegun PROVE TypeOK'
<1>1. PICK e \in ErrorCodes : handledatabaseerror(e, goal, BeginFails(e))
    BY ReadFaultsAreFaults DEF FlushNotBegun, ErrorCodes
<1>2. BeginFails(e) => SqliteTypeOK'
    BY DEF BeginFails, TypeOK, SqliteTypeOK
<1>3. goal \in Places
    BY DEF TypeOK, Places
<1>4. QED
    BY <1>1, <1>2, <1>3, TypeError

(* A statement that fails leaves the handle well-typed. *)
LEMMA TypeStatementFails ==
    ASSUME TypeOK, NEW d \in Database, NEW e \in ErrorCodes, NEW gone \in BOOLEAN,
           StatementFails(d, e, gone)
    PROVE  SqliteTypeOK'
BY DEF StatementFails, TypeOK, SqliteTypeOK

LEMMA RollsBackBoolean == ASSUME NEW e PROVE RollsBackItself(e) \subseteq BOOLEAN
BY DEF RollsBackItself

LEMMA TypeCountUnreadable == ASSUME TypeOK, NEW i \in Iface, CountUnreadable(i) PROVE TypeOK'
<1>1. PICK e \in ErrorCodes, gone \in BOOLEAN :
          handledatabaseerror(e, "flushend", StatementFails(txn, e, gone))
    BY ReadFaultsAreFaults, RollsBackBoolean DEF CountUnreadable
<1>2. StatementFails(txn, e, gone) => SqliteTypeOK'
    BY TypeStatementFails DEF TypeOK, SqliteTypeOK
<1>3. "flushend" \in Places
    BY DEF Places
<1>4. QED
    BY <1>1, <1>2, <1>3, TypeError

LEMMA TypeRowNotUpdated == ASSUME TypeOK, NEW i \in Iface, RowNotUpdated(i) PROVE TypeOK'
<1>1. PICK e \in ErrorCodes, gone \in BOOLEAN, d \in Database :
          handledatabaseerror(e, "flushend", StatementFails(d, e, gone))
    BY UpdateFaultsAreFaults, RollsBackBoolean, WrittenEntry DEF RowNotUpdated
<1>2. StatementFails(d, e, gone) => SqliteTypeOK'
    BY TypeStatementFails
<1>3. "flushend" \in Places
    BY DEF Places
<1>4. QED
    BY <1>1, <1>2, <1>3, TypeError

LEMMA TypeTrafficNotAdded == ASSUME TypeOK, NEW i \in Iface, TrafficNotAdded(i) PROVE TypeOK'
<1>1. TrafficFaults \subseteq ErrorCodes
    BY ReadFaultsAreFaults DEF TrafficFaults, ErrorCodes
<1>2. PICK e \in ErrorCodes, gone \in BOOLEAN :
          handledatabaseerror(AddTrafficCode(e, gone), "flushend", AddTrafficFails(e, gone))
    BY <1>1, RollsBackBoolean DEF TrafficNotAdded
<1>3. AddTrafficCode(e, gone) \in ErrorCodes
    BY DEF AddTrafficCode, AfterRollback, ErrorCodes
<1>4. AddTrafficFails(e, gone) => SqliteTypeOK'
    BY <1>3 DEF AddTrafficFails, TypeOK, SqliteTypeOK
<1>5. "flushend" \in Places
    BY DEF Places
<1>6. QED
    BY <1>2, <1>3, <1>4, <1>5, TypeError

LEMMA TypeFlushNotCommitted == ASSUME TypeOK, FlushNotCommitted PROVE TypeOK'
<1>1. PICK e \in ErrorCodes : handledatabaseerror(e, goal, CommitFails(e))
    BY ReadFaultsAreFaults DEF FlushNotCommitted
<1>2. CommitFails(e) => SqliteTypeOK'
    BY DEF CommitFails, TypeOK, SqliteTypeOK
<1>3. goal \in Places
    BY DEF TypeOK, Places
<1>4. QED
    BY <1>1, <1>2, <1>3, TypeError

LEMMA TypeProcess == ASSUME TypeOK, processdatacache PROVE TypeOK'
<1>1. todo \subseteq Iface
    BY DEF TypeOK
<1>2. QED
    BY <1>1, TypeProcessDone, TypeNotInitialised, TypeLeftAlone, TypeNotAvailable,
       TypeTakenOver, TypeCounted, TypeClockOff DEF processdatacache

LEMMA TypeFlush == ASSUME TypeOK, flushcachetodisk PROVE TypeOK'
BY TypeFlushBegins, TypeFlushNotBegun, TypeSkipEntry, TypeCountUnreadable, TypeStoreEntry,
   TypeTrafficNotAdded, TypeRowNotUpdated, TypeRemoveEntry,
   TypeTotalsUnreadable, TypeFlushCommits, TypeFlushNotCommitted, TypeFlushRollsBack
   DEF flushcachetodisk

LEMMA TypeNext == TypeOK /\ [Next]_vars => TypeOK'
<1> SUFFICES ASSUME TypeOK, [Next]_vars PROVE TypeOK'
    OBVIOUS
<1>1. CASE Next
    BY <1>1, TypeStart, TypeStartAdding, TypeKilled, TypeFill, TypeListUnreadable, TypeChangeCheck,
       TypeBeginUpdate, TypeSignals, TypeProcess, TypeFlush, TypeClean, TypeRescan,
       TypeReload, TypeReloadFails, TypeExit, TypeVnstatAdds, TypeVnstatRemoves DEF Next
<1>2. CASE UNCHANGED vars
    BY <1>2 DEF vars, TypeOK, SqliteTypeOK, sqlitevars, statevars, cachevars
<1>3. QED
    BY <1>1, <1>2

(* Every variable keeps its type, whatever fails. *)
THEOREM TypeCorrect == Spec => []TypeOK
<1>1. Init => TypeOK
    BY TypeInit
<1>2. TypeOK /\ [Next]_vars => TypeOK'
    BY TypeNext
<1>3. QED
    BY <1>1, <1>2, PTL DEF Spec

(***************************************************************************)
(* The inductive invariant behind NeverTwice and TransactionClosed.  While *)
(* a transaction is open a row may already hold what is pending; a row     *)
(* that the loop has still to visit may not.                               *)
(***************************************************************************)
HandleInv ==
    /\ ~open => txn = db
    /\ open => db_intransaction
    /\ pc \notin {"flush", "flushend"} => ~db_intransaction
    /\ pc = "flush" => open

TxnInv ==
    /\ open => \A i \in Iface : txn.total[i] <= db.total[i] + pend[i]
    /\ pc = "flush" => \A i \in todo : txn.total[i] <= db.total[i]

IInv == TypeOK /\ HandleInv /\ NeverTwice /\ TxnInv

LEMMA SafeInit == Init => HandleInv /\ NeverTwice /\ TxnInv
BY DEF Init, SqliteInit, HandleInv, NeverTwice, TxnInv, NoAmounts, EmptyDatabase

(***************************************************************************)
(* The handle: each step on the transaction.                               *)
(***************************************************************************)
LEMMA HandleError ==
    ASSUME TypeOK, HandleInv, NEW e, NEW place, NEW ACTION effect,
           effect /\ pc' = place => HandleInv',
           handledatabaseerror(e, place, effect)
    PROVE  HandleInv'
BY DEF handledatabaseerror, errorexitdaemon, Ends, HandleLost, HandleInv

LEMMA HandleFlush == ASSUME TypeOK, HandleInv, flushcachetodisk PROVE HandleInv'
<1>0. goal \notin {"flush", "flushend"}
    BY DEF TypeOK
<1>1. CASE FlushBegins
    BY <1>1 DEF FlushBegins, db_begintransaction, HandleInv
<1>2. CASE FlushNotBegun
    <2>1. PICK e : handledatabaseerror(e, goal, BeginFails(e))
        BY <1>2 DEF FlushNotBegun
    <2>2. BeginFails(e) /\ pc' = goal => HandleInv'
        BY <1>0, <1>2 DEF FlushNotBegun, BeginFails, HandleInv
    <2>3. QED
        BY <2>1, <2>2, HandleError
<1>3. ASSUME NEW i \in Iface, SkipEntry(i) PROVE HandleInv'
    BY <1>3 DEF SkipEntry, sqlitevars, HandleInv
<1>4. ASSUME NEW d, NEW e, NEW gone \in BOOLEAN, StatementFails(d, e, gone),
             pc' = "flushend", pc = "flush"
      PROVE  HandleInv'
    BY <1>4 DEF StatementFails, HandleInv
<1>5. ASSUME NEW i \in Iface, CountUnreadable(i) \/ RowNotUpdated(i) PROVE HandleInv'
    <2>1. \E d \in Written(i) \cup {txn}, e \in ErrorCodes, gone \in BOOLEAN :
              handledatabaseerror(e, "flushend", StatementFails(d, e, gone))
        <3>1. CASE CountUnreadable(i)
            BY <3>1, ReadFaultsAreFaults, RollsBackBoolean DEF CountUnreadable
        <3>2. CASE RowNotUpdated(i)
            BY <3>2, UpdateFaultsAreFaults, RollsBackBoolean DEF RowNotUpdated
        <3>3. QED
            BY <1>5, <3>1, <3>2
    <2>2. pc = "flush"
        BY <1>5 DEF CountUnreadable, RowNotUpdated, Visits
    <2>3. QED
        BY <1>4, <2>1, <2>2, HandleError
<1>6. ASSUME NEW i \in Iface, StoreEntry(i) PROVE HandleInv'
    BY <1>6 DEF StoreEntry, Visits, HandleInv
<1>7. ASSUME NEW i \in Iface, TrafficNotAdded(i) PROVE HandleInv'
    <2>1. PICK e \in TrafficFaults, gone \in BOOLEAN :
              handledatabaseerror(AddTrafficCode(e, gone), "flushend", AddTrafficFails(e, gone))
        BY <1>7, RollsBackBoolean DEF TrafficNotAdded
    <2>2. AddTrafficFails(e, gone) /\ pc' = "flushend" => HandleInv'
        BY DEF AddTrafficFails, HandleInv
    <2>3. QED
        BY <2>1, <2>2, HandleError
<1>8. ASSUME NEW i \in Iface, RemoveEntry(i) PROVE HandleInv'
    BY <1>8 DEF RemoveEntry, Visits, HandleInv
<1>9. ASSUME NEW i \in Iface, TotalsUnreadable(i) PROVE HandleInv'
    <2>1. PICK e \in ErrorCodes, gone \in BOOLEAN : StatementFails(txn, e, gone)
        BY <1>9, ReadFaultsAreFaults, RollsBackBoolean DEF TotalsUnreadable
    <2>2. pc = "flush" /\ pc' = "flushend"
        BY <1>9 DEF TotalsUnreadable, Visits
    <2>3. QED
        BY <1>4, <2>1, <2>2
<1>10. CASE FlushCommits
    BY <1>0, <1>10 DEF FlushCommits, db_committransaction, HandleInv
<1>11. CASE FlushNotCommitted
    <2>1. PICK e : handledatabaseerror(e, goal, CommitFails(e))
        BY <1>11 DEF FlushNotCommitted
    <2>2. CommitFails(e) /\ pc' = goal => HandleInv'
        BY <1>0 DEF CommitFails, HandleInv
    <2>3. QED
        BY <2>1, <2>2, HandleError
<1>12. CASE FlushRollsBack
    BY <1>0, <1>12 DEF FlushRollsBack, db_rollbacktransaction, HandleInv
<1>13. QED
    BY <1>1, <1>2, <1>3, <1>5, <1>6, <1>7, <1>8, <1>9, <1>10, <1>11, <1>12
       DEF flushcachetodisk

LEMMA HandleNext == TypeOK /\ HandleInv /\ [Next]_vars => HandleInv'
<1> SUFFICES ASSUME TypeOK, HandleInv, [Next]_vars PROVE HandleInv'
    OBVIOUS
<1>1. ASSUME NEW how, Ends(how), HandleLost PROVE HandleInv'
    BY <1>1 DEF Ends, HandleLost, HandleInv
<1>2. CASE Killed \/ ListUnreadable \/ ReloadFails \/ Exit
    BY <1>1, <1>2 DEF Killed, ListUnreadable, ReloadFails, Exit, errorexitdaemon
<1>3. CASE Start \/ StartAdding
    BY <1>3 DEF Start, StartAdding, Started, AutocommitWrites, sqlitevars, HandleInv
<1>4. CASE filldatabaselist \/ BeginUpdate \/ handleintsignals \/ rescandatabaseforinterfaces
    BY <1>4 DEF filldatabaselist, BeginUpdate, handleintsignals, rescandatabaseforinterfaces,
                sqlitevars, HandleInv
<1>5. ASSUME NEW visible, interfacechangecheck(visible) PROVE HandleInv'
    BY <1>5 DEF interfacechangecheck, sqlitevars, HandleInv
<1>6. CASE processdatacache
    <2>1. ASSUME NEW i, ClockOff(i) PROVE HandleInv'
        BY <1>1, <2>1 DEF ClockOff, errorexitdaemon
    <2>2. ASSUME NEW i, NotInitialised(i) PROVE HandleInv'
        BY <2>2 DEF NotInitialised, sqlitevars, HandleInv
    <2>3. ASSUME NEW i, Reached(i) PROVE HandleInv'
        BY <2>3 DEF Reached, sqlitevars, HandleInv
    <2>4. CASE ProcessDone
        BY <2>4 DEF ProcessDone, sqlitevars, HandleInv
    <2>5. QED
        BY <1>6, <2>1, <2>2, <2>3, <2>4
           DEF processdatacache, LeftAlone, NotAvailable, TakenOver, Counted
<1>7. CASE cleanremovedinterfaces
    BY <1>7 DEF cleanremovedinterfaces, sqlitevars, HandleInv
<1>8. CASE Reload
    BY <1>8 DEF Reload, HandleLost, HandleInv
<1>9. ASSUME NEW i, VnstatAdds(i) \/ VnstatRemoves(i) PROVE HandleInv'
    BY <1>9 DEF VnstatAdds, VnstatRemoves, AutocommitWrites, HandleInv
<1>10. CASE UNCHANGED vars
    BY <1>10 DEF vars, sqlitevars, HandleInv
<1>11. QED
    BY <1>2, <1>3, <1>4, <1>5, <1>6, <1>7, <1>8, <1>9, <1>10, HandleFlush DEF Next

(* No path out of a flush leaves a transaction open. *)
THEOREM TransactionsAreClosed == Spec => []TransactionClosed
<1>1. Init => TypeOK /\ HandleInv
    BY TypeInit, SafeInit
<1>2. TypeOK /\ HandleInv /\ [Next]_vars => (TypeOK /\ HandleInv)'
    BY TypeNext, HandleNext
<1>3. HandleInv => TransactionClosed
    BY DEF HandleInv, TransactionClosed
<1>4. QED
    BY <1>1, <1>2, <1>3, PTL DEF Spec

(***************************************************************************)
(* The traffic.                                                            *)
(***************************************************************************)
LEMMA NumbersAreNat ==
    ASSUME TypeOK, NEW i \in Iface
    PROVE  db.total[i] \in Nat /\ txn.total[i] \in Nat /\ pend[i] \in Nat /\ counted[i] \in Nat
BY DEF TypeOK, SqliteTypeOK, Database, Amounts

(* A step that writes nothing: it may forget pending traffic, and end the  *)
(* transaction.                                                            *)
LEMMA NothingWritten ==
    ASSUME IInv,
           db' = db, counted' = counted,
           \A i \in Iface : pend'[i] \in {0, pend[i]},
           open' => open /\ txn' = txn /\ pend' = pend,
           pc' = "flush" => pc = "flush" /\ open' /\ todo' \subseteq todo
    PROVE  NeverTwice' /\ TxnInv'
<1>1. TypeOK /\ NeverTwice /\ TxnInv
    BY DEF IInv
<1>2. ASSUME NEW i \in Iface PROVE db'.total[i] + pend'[i] <= counted'[i]
    <2>1. db.total[i] + pend[i] <= counted[i]
        BY <1>1 DEF NeverTwice
    <2>2. QED
        BY <1>1, <2>1, NumbersAreNat
<1>3. open' => \A i \in Iface : txn'.total[i] <= db'.total[i] + pend'[i]
    BY <1>1 DEF TxnInv
<1>4. pc' = "flush" => \A i \in todo' : txn'.total[i] <= db'.total[i]
    BY <1>1 DEF TxnInv
<1>5. QED
    BY <1>2, <1>3, <1>4 DEF NeverTwice, TxnInv

LEMMA TrafficEnds ==
    ASSUME IInv, NEW how, Ends(how), HandleLost
    PROVE  NeverTwice' /\ TxnInv'
BY NothingWritten DEF Ends, HandleLost, datacache_clear, NoAmounts

LEMMA TrafficError ==
    ASSUME IInv, NEW e, NEW place, place # "flush", NEW ACTION effect,
           effect /\ pc' = place /\ UNCHANGED <<pend, counted>> => NeverTwice' /\ TxnInv',
           handledatabaseerror(e, place, effect)
    PROVE  NeverTwice' /\ TxnInv'
BY TrafficEnds DEF handledatabaseerror, errorexitdaemon, cachevars

(* The steps of a flush that write nothing. *)
LEMMA TrafficNoWrite ==
    ASSUME IInv,
           FlushNotBegun \/ FlushNotCommitted \/ FlushRollsBack
           \/ \E i \in Iface : SkipEntry(i) \/ CountUnreadable(i) \/ TrafficNotAdded(i)
                               \/ TotalsUnreadable(i)
    PROVE  NeverTwice' /\ TxnInv'
<1>0. goal # "flush"
    BY DEF IInv, TypeOK
<1>1. CASE FlushNotBegun
    <2>1. PICK e : handledatabaseerror(e, goal, BeginFails(e))
        BY <1>1 DEF FlushNotBegun
    <2>2. BeginFails(e) /\ pc' = goal /\ UNCHANGED <<pend, counted>> => NeverTwice' /\ TxnInv'
        BY <1>0, NothingWritten DEF BeginFails
    <2>3. QED
        BY <1>0, <2>1, <2>2, TrafficError
<1>2. CASE FlushNotCommitted
    <2>1. PICK e : handledatabaseerror(e, goal, CommitFails(e))
        BY <1>2 DEF FlushNotCommitted
    <2>2. CommitFails(e) /\ pc' = goal /\ UNCHANGED <<pend, counted>> => NeverTwice' /\ TxnInv'
        BY <1>0, NothingWritten DEF CommitFails
    <2>3. QED
        BY <1>0, <2>1, <2>2, TrafficError
<1>3. CASE FlushRollsBack
    BY <1>0, <1>3, NothingWritten DEF FlushRollsBack, db_rollbacktransaction, Stays, cachevars
<1>4. ASSUME NEW i \in Iface, SkipEntry(i) PROVE NeverTwice' /\ TxnInv'
    <2>1. open
        BY <1>4 DEF SkipEntry, Visits, IInv, HandleInv
    <2>2. QED
        BY <1>4, <2>1, NothingWritten DEF SkipEntry, Stays, sqlitevars, cachevars
<1>5. ASSUME NEW e, NEW gone \in BOOLEAN, StatementFails(txn, e, gone), pc' = "flushend",
             UNCHANGED <<pend, counted>>, pc = "flush"
      PROVE  NeverTwice' /\ TxnInv'
    <2>1. open
        BY <1>5 DEF IInv, HandleInv
    <2>2. QED
        BY <1>5, <2>1, NothingWritten DEF StatementFails
<1>6. ASSUME NEW i \in Iface, CountUnreadable(i) PROVE NeverTwice' /\ TxnInv'
    <2>1. PICK e \in ErrorCodes, gone \in BOOLEAN :
              handledatabaseerror(e, "flushend", StatementFails(txn, e, gone))
        BY <1>6, ReadFaultsAreFaults, RollsBackBoolean DEF CountUnreadable
    <2>2. pc = "flush"
        BY <1>6 DEF CountUnreadable, Visits
    <2>3. QED
        BY <1>5, <2>1, <2>2, TrafficError
<1>7. ASSUME NEW i \in Iface, TrafficNotAdded(i) PROVE NeverTwice' /\ TxnInv'
    <2>1. PICK e \in TrafficFaults, gone \in BOOLEAN :
              handledatabaseerror(AddTrafficCode(e, gone), "flushend", AddTrafficFails(e, gone))
        BY <1>7, RollsBackBoolean DEF TrafficNotAdded
    <2>2. /\ AddTrafficFails(e, gone) /\ pc' = "flushend" /\ UNCHANGED <<pend, counted>>
          => NeverTwice' /\ TxnInv'
        BY NothingWritten DEF AddTrafficFails
    <2>3. QED
        BY <2>1, <2>2, TrafficError
<1>8. ASSUME NEW i \in Iface, TotalsUnreadable(i) PROVE NeverTwice' /\ TxnInv'
    <2>1. PICK e \in ErrorCodes, gone \in BOOLEAN : StatementFails(txn, e, gone)
        BY <1>8, ReadFaultsAreFaults, RollsBackBoolean DEF TotalsUnreadable
    <2>2. pc = "flush" /\ pc' = "flushend" /\ UNCHANGED <<pend, counted>>
        BY <1>8 DEF TotalsUnreadable, Visits, Stays, cachevars
    <2>3. QED
        BY <1>5, <2>1, <2>2
<1>9. QED
    BY <1>1, <1>2, <1>3, <1>4, <1>6, <1>7, <1>8

(* The steps of a flush that write.  An entry that the loop still has to   *)
(* visit is not the one that is written.                                   *)
LEMMA TrafficWritten ==
    ASSUME IInv, pc = "flush", NEW i \in todo, NEW d \in Database,
           d.total = txn.total \/ d.total = [txn.total EXCEPT ![i] = @ + pend[i]]
                               \/ d.total = [txn.total EXCEPT ![i] = 0]
    PROVE  /\ \A j \in Iface : d.total[j] <= db.total[j] + pend[j]
           /\ \A j \in todo \ {i} : d.total[j] <= db.total[j]
<1>1. TypeOK /\ TxnInv /\ open /\ todo \subseteq Iface /\ txn \in Database
    BY DEF IInv, HandleInv, TypeOK, SqliteTypeOK
<1>2. ASSUME NEW j \in Iface PROVE d.total[j] <= db.total[j] + pend[j]
    <2>1. txn.total[j] <= db.total[j] + pend[j] /\ (i = j => txn.total[j] <= db.total[j])
        BY <1>1 DEF TxnInv
    <2>2. \/ d.total[j] = txn.total[j]
          \/ (i = j /\ d.total[j] \in {0, txn.total[j] + pend[j]})
        BY <1>1 DEF Database
    <2>3. QED
        BY <1>1, <2>1, <2>2, NumbersAreNat
<1>3. ASSUME NEW j \in todo \ {i} PROVE d.total[j] <= db.total[j]
    <2>1. d.total[j] = txn.total[j]
        BY <1>1 DEF Database
    <2>2. QED
        BY <1>1, <2>1 DEF TxnInv
<1>4. QED
    BY <1>2, <1>3

LEMMA TrafficFlush == ASSUME IInv, flushcachetodisk PROVE NeverTwice' /\ TxnInv'
<1>0. TypeOK /\ HandleInv /\ NeverTwice /\ TxnInv /\ todo \subseteq Iface
    BY DEF IInv, TypeOK
<1>1. CASE FlushBegins
    <2>1. NeverTwice'
        BY <1>0, <1>1 DEF FlushBegins, db_begintransaction, cachevars, NeverTwice
    <2>2. ASSUME NEW i \in Iface
          PROVE  txn'.total[i] <= db'.total[i] + pend'[i] /\ txn'.total[i] <= db'.total[i]
        BY <1>0, <1>1, NumbersAreNat DEF FlushBegins, db_begintransaction, cachevars
    <2>3. todo' \subseteq Iface
        BY <1>0, <1>1 DEF FlushBegins, TypeOK
    <2>4. QED
        BY <2>1, <2>2, <2>3 DEF TxnInv
<1>2. ASSUME NEW i \in Iface, StoreEntry(i) PROVE NeverTwice' /\ TxnInv'
    <2>1. i \in todo /\ pc = "flush" /\ txn' = Stored(i) /\ todo' = todo \ {i}
          /\ UNCHANGED <<db, pend, counted>>
        BY <1>2 DEF StoreEntry, Visits, Stays, cachevars
    <2>2. /\ Stored(i) \in Database
          /\ Stored(i).total \in {txn.total, [txn.total EXCEPT ![i] = @ + pend[i]]}
        BY <1>0, StoredEntry
    <2>3. QED
        BY <1>0, <2>1, <2>2, TrafficWritten DEF NeverTwice, TxnInv
<1>3. ASSUME NEW i \in Iface, RemoveEntry(i) PROVE NeverTwice' /\ TxnInv'
    <2>1. i \in todo /\ pc = "flush" /\ pc' = "flushend" /\ UNCHANGED <<db, pend, counted>>
        BY <1>3 DEF RemoveEntry, Visits, Stays, cachevars
    <2>4. txn \in Database
        BY <1>0 DEF TypeOK, SqliteTypeOK
    <2>2. txn' \in Database /\ txn'.total \in {txn.total, [txn.total EXCEPT ![i] = 0]}
        BY <1>3, <2>4, RemoveInterface DEF RemoveEntry
    <2>3. QED
        BY <1>0, <2>1, <2>2, TrafficWritten DEF NeverTwice, TxnInv
<1>4. CASE FlushCommits
    <2>1. /\ db' = txn /\ ~open' /\ pc' # "flush" /\ counted' = counted
          /\ \A i \in Iface : pend'[i] = 0
        BY <1>0, <1>4 DEF FlushCommits, db_committransaction, NoAmounts, TypeOK
    <2>2. ASSUME NEW i \in Iface PROVE db'.total[i] + pend'[i] <= counted'[i]
        <3>1. txn.total[i] <= db.total[i] + pend[i]
            BY <1>0, NumbersAreNat DEF TxnInv, HandleInv
        <3>2. db.total[i] + pend[i] <= counted[i]
            BY <1>0 DEF NeverTwice
        <3>3. QED
            BY <1>0, <2>1, <3>1, <3>2, NumbersAreNat
    <2>3. QED
        BY <2>1, <2>2 DEF NeverTwice, TxnInv
<1>5. ASSUME NEW i \in Iface, RowNotUpdated(i) PROVE NeverTwice' /\ TxnInv'
    <2>1. i \in todo /\ pc = "flush" /\ open
        BY <1>0, <1>5 DEF RowNotUpdated, Visits, HandleInv
    <2>2. PICK e \in UpdateFaults, gone \in BOOLEAN, d \in Written(i) :
              handledatabaseerror(e, "flushend", StatementFails(d, e, gone))
        BY <1>5, RollsBackBoolean DEF RowNotUpdated
    <2>3. d \in Database /\ d.total \in {txn.total, [txn.total EXCEPT ![i] = @ + pend[i]]}
        BY <1>0, WrittenEntry
    <2>4. /\ StatementFails(d, e, gone) /\ pc' = "flushend" /\ UNCHANGED <<pend, counted>>
          => NeverTwice' /\ TxnInv'
        <3>1. CASE gone
            BY <2>1, <3>1, NothingWritten DEF StatementFails
        <3>2. CASE ~gone
            BY <1>0, <2>1, <2>3, <3>2, TrafficWritten DEF StatementFails, NeverTwice, TxnInv
        <3>3. QED
            BY <3>1, <3>2
    <2>5. QED
        BY <2>2, <2>4, TrafficError
<1>6. QED
    BY <1>1, <1>2, <1>3, <1>4, <1>5, TrafficNoWrite DEF flushcachetodisk

LEMMA TrafficNext == IInv /\ [Next]_vars => NeverTwice' /\ TxnInv'
<1> SUFFICES ASSUME IInv, [Next]_vars PROVE NeverTwice' /\ TxnInv'
    OBVIOUS
<1>0. TypeOK /\ HandleInv /\ NeverTwice /\ TxnInv
    BY DEF IInv
<1>1. CASE Killed \/ ListUnreadable \/ ReloadFails \/ Exit
    BY <1>1, TrafficEnds DEF Killed, ListUnreadable, ReloadFails, Exit, errorexitdaemon
<1>2. CASE Start \/ filldatabaselist \/ BeginUpdate \/ handleintsignals
           \/ rescandatabaseforinterfaces
    BY <1>2, NothingWritten DEF Start, Started, filldatabaselist, BeginUpdate, handleintsignals,
       rescandatabaseforinterfaces, sqlitevars, cachevars
<1>3. ASSUME NEW visible, interfacechangecheck(visible) PROVE NeverTwice' /\ TxnInv'
    BY <1>3, NothingWritten DEF interfacechangecheck, sqlitevars
<1>4. CASE processdatacache
    <2>1. ASSUME NEW i, ClockOff(i) PROVE NeverTwice' /\ TxnInv'
        BY <2>1, TrafficEnds DEF ClockOff, errorexitdaemon
    <2>2. CASE ProcessDone
        BY <2>2, NothingWritten DEF ProcessDone, sqlitevars, cachevars
    <2>3. ASSUME NEW i, NotInitialised(i) PROVE NeverTwice' /\ TxnInv'
        BY <2>3, NothingWritten DEF NotInitialised, sqlitevars, cachevars
    <2>4. ASSUME NEW i, LeftAlone(i) \/ NotAvailable(i) \/ TakenOver(i)
          PROVE  NeverTwice' /\ TxnInv'
        BY <2>4, NothingWritten DEF LeftAlone, NotAvailable, TakenOver, Reached, sqlitevars
    <2>5. ASSUME NEW i \in Iface, NEW amount \in Nat, Counted(i, amount)
          PROVE  NeverTwice' /\ TxnInv'
        <3>1. /\ UNCHANGED <<db, txn, open>> /\ ~open /\ pc' # "flush"
              /\ pend' = [pend EXCEPT ![i] = @ + amount]
              /\ counted' = [counted EXCEPT ![i] = @ + amount]
            BY <1>0, <2>5 DEF Counted, Reached, sqlitevars, HandleInv
        <3>2. ASSUME NEW j \in Iface PROVE db'.total[j] + pend'[j] <= counted'[j]
            <4>1. db.total[j] + pend[j] <= counted[j]
                BY <1>0 DEF NeverTwice
            <4>2. \/ pend'[j] = pend[j] /\ counted'[j] = counted[j]
                  \/ pend'[j] = pend[j] + amount /\ counted'[j] = counted[j] + amount
                BY <1>0, <3>1 DEF TypeOK, Amounts
            <4>3. QED
                BY <1>0, <3>1, <4>1, <4>2, NumbersAreNat
        <3>3. QED
            BY <3>1, <3>2 DEF NeverTwice, TxnInv
    <2>6. todo \subseteq Iface /\ 0 .. MaxChange \subseteq Nat
        BY <1>0, BoundsAssumption DEF TypeOK
    <2>7. QED
        BY <1>4, <2>1, <2>2, <2>3, <2>4, <2>5, <2>6 DEF processdatacache
<1>5. CASE cleanremovedinterfaces
    <2>1. ~open /\ pc' # "flush" /\ UNCHANGED <<db, open, counted>>
        BY <1>0, <1>5 DEF cleanremovedinterfaces, HandleInv, sqlitevars
    <2>2. \A i \in Iface : pend'[i] \in {0, pend[i]}
        BY <1>5 DEF cleanremovedinterfaces
    <2>3. QED
        BY <2>1, <2>2, NothingWritten
<1>6. CASE Reload
    BY <1>6, NothingWritten DEF Reload, HandleLost, datacache_clear, NoAmounts
<1>7. ASSUME NEW d \in Database, \A j \in Iface : d.total[j] \in {0, db.total[j]},
             AutocommitWrites(d), pc' # "flush", UNCHANGED <<cachevars, counted>>
      PROVE  NeverTwice' /\ TxnInv'
    <2>1. db' = d /\ ~open' /\ pend' = pend /\ counted' = counted
        BY <1>7 DEF AutocommitWrites, cachevars
    <2>2. ASSUME NEW j \in Iface PROVE db'.total[j] + pend'[j] <= counted'[j]
        <3>1. db.total[j] + pend[j] <= counted[j]
            BY <1>0 DEF NeverTwice
        <3>2. db'.total[j] \in {0, db.total[j]}
            BY <1>7, <2>1
        <3>3. QED
            BY <1>0, <2>1, <3>1, <3>2, NumbersAreNat
    <2>3. QED
        BY <1>7, <2>1, <2>2 DEF NeverTwice, TxnInv
<1>8. ASSUME NEW i \in Iface, VnstatAdds(i) \/ VnstatRemoves(i)
      PROVE  NeverTwice' /\ TxnInv'
    <2>1. PICK d \in {db_addinterface(db, i), db_removeinterface(db, i)} : AutocommitWrites(d)
        BY <1>8 DEF VnstatAdds, VnstatRemoves
    <2>2. d \in Database /\ d.total = [db.total EXCEPT ![i] = 0]
        <3>1. db \in Database
            BY <1>0 DEF TypeOK, SqliteTypeOK
        <3>2. CASE d = db_addinterface(db, i)
            BY <3>1, <3>2, AddInterface
        <3>3. CASE d = db_removeinterface(db, i)
            BY <3>1, <3>3, RemoveInterface
        <3>4. QED
            BY <2>1, <3>2, <3>3
    <2>3. db.total \in [Iface -> Nat]
        BY <1>0 DEF TypeOK, SqliteTypeOK, Database
    <2>4. \A j \in Iface : d.total[j] \in {0, db.total[j]}
        BY <2>2, <2>3
    <2>5. ~open
        BY <2>1 DEF AutocommitWrites
    <2>6. pc' # "flush" /\ UNCHANGED <<cachevars, counted>>
        BY <1>0, <1>8, <2>5 DEF VnstatAdds, VnstatRemoves, HandleInv
    <2>7. QED
        BY <1>7, <2>1, <2>2, <2>4, <2>6
<1>9. CASE StartAdding
    <2>1. PICK found \in SUBSET Iface, counter \in [Iface -> 0 .. MaxCounter] :
              AutocommitWrites(addinterfaces(found, counter))
        BY <1>9 DEF StartAdding
    <2> DEFINE d == addinterfaces(found, counter)
    <2>2. d \in Database /\ d.total = NoAmounts
        BY AddedInterfaces
    <2>3. \A j \in Iface : d.total[j] \in {0, db.total[j]}
        BY <2>2 DEF NoAmounts
    <2>4. pc' # "flush" /\ UNCHANGED <<cachevars, counted>>
        BY <1>9 DEF StartAdding, Started
    <2> HIDE DEF d
    <2>5. QED
        BY <1>7, <2>1, <2>2, <2>3, <2>4 DEF d
<1>10. CASE UNCHANGED vars
    <2>1. /\ UNCHANGED <<db, txn, open, pend, counted, pc, todo>>
        BY <1>10 DEF vars, sqlitevars, cachevars
    <2>2. QED
        BY <1>0, <2>1 DEF NeverTwice, TxnInv
<1>11. QED
    BY <1>1, <1>2, <1>3, <1>4, <1>5, <1>6, <1>8, <1>9, <1>10, TrafficFlush DEF Next

(* No traffic is stored twice, whatever fails and however often a flush is *)
(* tried again.                                                            *)
THEOREM NothingIsStoredTwice == Spec => []NeverTwice
<1>1. Init => IInv
    BY TypeInit, SafeInit DEF IInv
<1>2. IInv /\ [Next]_vars => IInv'
    BY TypeNext, HandleNext, TrafficNext DEF IInv
<1>3. IInv => NeverTwice
    BY DEF IInv
<1>4. QED
    BY <1>1, <1>2, <1>3, PTL DEF Spec

(***************************************************************************)
(* What a flush has done of each entry, if no query loses its result: the  *)
(* invariant behind the refinement of TrafficLedger and behind the two     *)
(* action properties.  A row that the transaction has changed was changed  *)
(* as a whole; the loop ends early only behind a removal, and otherwise    *)
(* with an error in db_errcode, so that it is rolled back.                 *)
(***************************************************************************)
RowsInv == \A i \in Iface \ db.known : db.total[i] = 0

LogInv == \A i \in Iface \ logged : pend[i] = 0

Kept(i) == txn.total[i] = db.total[i] /\ txn.counter[i] = db.counter[i]

Saved(i) ==
    \/ i \notin logged /\ Kept(i)
    \/ /\ i \in logged
       /\ txn.total[i] = db.total[i] + pend[i]
       /\ txn.counter[i] = curr[i]

Clean == db_intransaction /\ db_errcode = "OK"

Visited ==
    /\ txn.known = db.known
    /\ \A i \in todo \cup (Iface \ db.known) : Kept(i)
    /\ \A i \in cache \ todo : i \in db.known => Saved(i)
    /\ \A i \in db.known \ cache : Kept(i)

Removed(r) ==
    /\ txn.known = db.known \ {r}
    /\ db.total[r] = 0 /\ txn.total[r] = 0 /\ pend[r] = 0
    /\ \A i \in Iface \ db.known : Kept(i)
    /\ \A i \in db.known \ {r} : Kept(i) \/ Saved(i)

FlushInv ==
    /\ RowsInv /\ LogInv
    /\ Clean => open
    /\ pc = "flush" => Clean /\ Visited
    /\ pc = "flushend" /\ Clean => ~noremove /\ \E r \in db.known : Removed(r)

LInv == IInv /\ FlushInv

LEMMA FlushInit == Init => FlushInv
BY DEF Init, SqliteInit, FlushInv, RowsInv, LogInv, NoAmounts, EmptyDatabase, Clean

(* Who writes the database: the commit of a flush, the command and a daemon *)
(* that adds interfaces at its start.  Every other step leaves it as it is, *)
(* and forgets what was pending of some interfaces, which lose their entry, *)
(* or adds to what is pending of one.                                       *)
Pends ==
    \/ UNCHANGED pend
    \/ \E S \in SUBSET Iface : /\ S \cap cache' = {}
                              /\ pend' = [i \in Iface |-> IF i \in S THEN 0 ELSE pend[i]]
    \/ \E i \in Iface, amount \in 0 .. MaxChange : pend' = [pend EXCEPT ![i] = @ + amount]

LEMMA Writers ==
    TypeOK /\ [Next]_vars =>
        \/ FlushCommits
        \/ StartAdding
        \/ \E i \in Iface : VnstatAdds(i) \/ VnstatRemoves(i)
        \/ db' = db /\ Pends
<1> SUFFICES ASSUME TypeOK, [Next]_vars, ~FlushCommits, ~StartAdding,
                    ~ \E i \in Iface : VnstatAdds(i) \/ VnstatRemoves(i)
             PROVE  db' = db /\ Pends
    OBVIOUS
<1>1. ASSUME db' = db, pend' = pend PROVE db' = db /\ Pends
    BY <1>1 DEF Pends
<1>2. ASSUME NEW how, Ends(how), HandleLost PROVE db' = db /\ Pends
    <2>1. /\ Iface \cap cache' = {}
          /\ pend' = [i \in Iface |-> IF i \in Iface THEN 0 ELSE pend[i]]
        BY <1>2 DEF Ends, datacache_clear, NoAmounts
    <2>2. QED
        BY <1>2, <2>1 DEF HandleLost, Pends
<1>3. ASSUME NEW e, NEW place, NEW ACTION effect, handledatabaseerror(e, place, effect),
             effect => db' = db
      PROVE  db' = db /\ Pends
    BY <1>1, <1>2, <1>3 DEF handledatabaseerror, errorexitdaemon, cachevars
<1>4. CASE Killed \/ ListUnreadable \/ ReloadFails \/ Exit
    BY <1>2, <1>4 DEF Killed, ListUnreadable, ReloadFails, Exit, errorexitdaemon
<1>5. CASE Start \/ filldatabaselist \/ BeginUpdate \/ handleintsignals
           \/ rescandatabaseforinterfaces
           \/ \E visible \in SUBSET Iface : interfacechangecheck(visible)
    BY <1>1, <1>5 DEF Start, Started, filldatabaselist, BeginUpdate, handleintsignals,
       rescandatabaseforinterfaces, interfacechangecheck, cachevars, sqlitevars
<1>6. CASE processdatacache
    <2>1. ASSUME NEW i \in todo, NEW amount \in 0 .. MaxChange, Counted(i, amount)
          PROVE  db' = db /\ Pends
        BY <2>1 DEF Counted, Reached, sqlitevars, Pends, TypeOK
    <2>2. ASSUME NEW i, ClockOff(i) PROVE db' = db /\ Pends
        BY <1>2, <2>2 DEF ClockOff, errorexitdaemon
    <2>3. ASSUME NEW i, NotInitialised(i) \/ LeftAlone(i) \/ NotAvailable(i) \/ TakenOver(i)
          PROVE  db' = db /\ Pends
        BY <1>1, <2>3 DEF NotInitialised, LeftAlone, NotAvailable, TakenOver, Reached,
           sqlitevars, cachevars
    <2>4. CASE ProcessDone
        BY <1>1, <2>4 DEF ProcessDone, sqlitevars, cachevars
    <2>5. QED
        BY <1>6, <2>1, <2>2, <2>3, <2>4 DEF processdatacache
<1>7. CASE flushcachetodisk
    <2>2. CASE FlushBegins \/ FlushRollsBack
               \/ \E i \in Iface : SkipEntry(i) \/ StoreEntry(i) \/ RemoveEntry(i)
                                   \/ TotalsUnreadable(i)
        BY <1>1, <2>2 DEF FlushBegins, FlushRollsBack, SkipEntry, StoreEntry, RemoveEntry,
           TotalsUnreadable, Stays, StatementFails, db_begintransaction,
           db_rollbacktransaction, sqlitevars, cachevars
    <2>3. CASE FlushNotBegun
        BY <1>3, <2>3 DEF FlushNotBegun, BeginFails
    <2>4. CASE FlushNotCommitted
        BY <1>3, <2>4 DEF FlushNotCommitted, CommitFails
    <2>5. ASSUME NEW i \in Iface, CountUnreadable(i) PROVE db' = db /\ Pends
        BY <1>3, <2>5 DEF CountUnreadable, StatementFails
    <2>6. ASSUME NEW i \in Iface, TrafficNotAdded(i) PROVE db' = db /\ Pends
        BY <1>3, <2>6 DEF TrafficNotAdded, AddTrafficFails
    <2>7. ASSUME NEW i \in Iface, RowNotUpdated(i) PROVE db' = db /\ Pends
        BY <1>3, <2>7 DEF RowNotUpdated, StatementFails
    <2>8. QED
        BY <1>7, <2>2, <2>3, <2>4, <2>5, <2>6, <2>7 DEF flushcachetodisk
<1>8. CASE cleanremovedinterfaces
    <2>1. PICK missing \in SUBSET Iface :
              /\ cache' = cache \ missing
              /\ pend' = [i \in Iface |-> IF i \in missing THEN 0 ELSE pend[i]]
        BY <1>8 DEF cleanremovedinterfaces, TypeOK
    <2>2. db' = db
        BY <1>8 DEF cleanremovedinterfaces, sqlitevars
    <2>3. missing \cap cache' = {}
        BY <2>1
    <2>4. QED
        BY <2>1, <2>2, <2>3 DEF Pends
<1>9. CASE Reload
    <2>1. /\ Iface \cap cache' = {}
          /\ pend' = [i \in Iface |-> IF i \in Iface THEN 0 ELSE pend[i]]
        BY <1>9 DEF Reload, datacache_clear, NoAmounts
    <2>2. QED
        BY <1>9, <2>1 DEF Reload, HandleLost, Pends
<1>10. CASE UNCHANGED vars
    BY <1>1, <1>10 DEF vars, cachevars, sqlitevars
<1>11. QED
    BY <1>4, <1>5, <1>6, <1>7, <1>8, <1>9, <1>10 DEF Next

(* Traffic is pending only in logs that are not empty. *)
LEMMA LogNext == TypeOK /\ LogInv /\ [Next]_vars => LogInv'
<1> SUFFICES ASSUME TypeOK, LogInv, [Next]_vars PROVE LogInv'
    OBVIOUS
<1>1. ASSUME NEW how, Ends(how) PROVE LogInv'
    BY <1>1 DEF Ends, datacache_clear, LogInv, NoAmounts
<1>2. ASSUME UNCHANGED <<logged, pend>> PROVE LogInv'
    BY <1>2 DEF LogInv
<1>3. ASSUME NEW e, NEW place, NEW ACTION effect, handledatabaseerror(e, place, effect)
      PROVE  LogInv'
    BY <1>1, <1>2, <1>3 DEF handledatabaseerror, errorexitdaemon, cachevars
<1>4. CASE Killed \/ ListUnreadable \/ ReloadFails \/ Exit
    BY <1>1, <1>4 DEF Killed, ListUnreadable, ReloadFails, Exit, errorexitdaemon
<1>5. CASE Start \/ StartAdding \/ filldatabaselist \/ BeginUpdate \/ handleintsignals
           \/ rescandatabaseforinterfaces
           \/ \E visible \in SUBSET Iface : interfacechangecheck(visible)
           \/ \E i \in Iface : VnstatAdds(i) \/ VnstatRemoves(i)
    BY <1>2, <1>5 DEF Start, StartAdding, Started, filldatabaselist, BeginUpdate,
       handleintsignals, rescandatabaseforinterfaces, interfacechangecheck, VnstatAdds,
       VnstatRemoves, cachevars
<1>6. CASE processdatacache
    <2>1. ASSUME NEW i \in todo, NEW amount \in 0 .. MaxChange, Counted(i, amount)
          PROVE  LogInv'
        <3>1. /\ logged' = logged \cup {i} \/ (logged' = logged /\ amount = 0)
              /\ pend' = [pend EXCEPT ![i] = @ + amount]
            BY <2>1 DEF Counted
        <3>2. pend \in [Iface -> Nat] /\ amount \in Nat /\ i \in Iface
            BY BoundsAssumption DEF TypeOK, Amounts
        <3>3. QED
            BY <3>1, <3>2 DEF LogInv
    <2>2. ASSUME NEW i, ClockOff(i) PROVE LogInv'
        BY <1>1, <2>2 DEF ClockOff, errorexitdaemon
    <2>3. ASSUME NEW i, NotInitialised(i) \/ LeftAlone(i) \/ NotAvailable(i) \/ TakenOver(i)
          PROVE  LogInv'
        BY <1>2, <2>3 DEF NotInitialised, LeftAlone, NotAvailable, TakenOver, cachevars
    <2>4. CASE ProcessDone
        BY <1>2, <2>4 DEF ProcessDone, cachevars
    <2>5. QED
        BY <1>6, <2>1, <2>2, <2>3, <2>4 DEF processdatacache
<1>7. CASE flushcachetodisk
    <2>1. CASE FlushCommits
        BY <2>1 DEF FlushCommits, LogInv, NoAmounts
    <2>2. CASE FlushBegins \/ FlushRollsBack
               \/ \E i \in Iface : SkipEntry(i) \/ StoreEntry(i) \/ RemoveEntry(i)
                                   \/ TotalsUnreadable(i)
        BY <1>2, <2>2 DEF FlushBegins, FlushRollsBack, SkipEntry, StoreEntry, RemoveEntry,
           TotalsUnreadable, Stays, cachevars
    <2>3. CASE FlushNotBegun
        BY <1>3, <2>3 DEF FlushNotBegun
    <2>4. CASE FlushNotCommitted
        BY <1>3, <2>4 DEF FlushNotCommitted
    <2>5. ASSUME NEW i \in Iface, CountUnreadable(i) PROVE LogInv'
        BY <1>3, <2>5 DEF CountUnreadable
    <2>6. ASSUME NEW i \in Iface, TrafficNotAdded(i) PROVE LogInv'
        BY <1>3, <2>6 DEF TrafficNotAdded
    <2>7. ASSUME NEW i \in Iface, RowNotUpdated(i) PROVE LogInv'
        BY <1>3, <2>7 DEF RowNotUpdated
    <2>8. QED
        BY <1>7, <2>1, <2>2, <2>3, <2>4, <2>5, <2>6, <2>7 DEF flushcachetodisk
<1>8. CASE cleanremovedinterfaces
    BY <1>8 DEF cleanremovedinterfaces, LogInv
<1>9. CASE Reload
    BY <1>9 DEF Reload, datacache_clear, LogInv, NoAmounts
<1>10. CASE UNCHANGED vars
    BY <1>2, <1>10 DEF vars, cachevars
<1>11. QED
    BY <1>4, <1>5, <1>6, <1>7, <1>8, <1>9, <1>10 DEF Next

(* A row that was removed, or never added, holds no traffic. *)
LEMMA RowsKept ==
    ASSUME TypeOK, RowsInv, NEW i \in Iface,
           NEW d \in {db_addinterface(db, i), db_removeinterface(db, i)},
           db' = d
    PROVE  RowsInv'
<1>1. db \in Database
    BY DEF TypeOK, SqliteTypeOK
<1>2. d.total = [db.total EXCEPT ![i] = 0] /\ d.known \in {db.known \cup {i}, db.known \ {i}}
    <2>1. CASE d = db_addinterface(db, i)
        BY <1>1, <2>1, AddInterface
    <2>2. CASE d = db_removeinterface(db, i)
        BY <1>1, <2>2, RemoveInterface
    <2>3. QED
        BY <2>1, <2>2
<1>3. db.total \in [Iface -> Nat]
    BY <1>1 DEF Database
<1>4. QED
    BY <1>2, <1>3 DEF RowsInv

(* What the transaction holds when it is committed. *)
LEMMA CommittedRows ==
    ASSUME LInv, FlushCommits
    PROVE  /\ open /\ db' = txn
           /\ \/ pc = "flush" /\ todo = {} /\ Visited
              \/ ~noremove /\ \E r \in db.known : Removed(r)
<1>1. Clean /\ (pc = "flushend" \/ (pc = "flush" /\ todo = {}))
    BY DEF FlushCommits, LoopOver, Clean
<1>2. QED
    BY <1>1 DEF FlushCommits, db_committransaction, LInv, FlushInv

LEMMA RowsNext == LInv /\ [Next]_vars => RowsInv'
<1> SUFFICES ASSUME LInv, [Next]_vars PROVE RowsInv'
    OBVIOUS
<1>0. TypeOK /\ RowsInv
    BY DEF LInv, IInv, FlushInv
<1>1. CASE FlushCommits
    <2>1. CASE db' = txn /\ Visited
        BY <1>0, <2>1 DEF Visited, Kept, RowsInv
    <2>2. CASE db' = txn /\ \E r \in db.known : Removed(r)
        BY <1>0, <2>2 DEF Removed, Kept, RowsInv
    <2>3. QED
        BY <1>1, <2>1, <2>2, CommittedRows
<1>2. CASE StartAdding
    BY <1>2 DEF StartAdding, AutocommitWrites, addinterfaces, NoAmounts, RowsInv
<1>3. ASSUME NEW i \in Iface, VnstatAdds(i) \/ VnstatRemoves(i) PROVE RowsInv'
    BY <1>0, <1>3, RowsKept DEF VnstatAdds, VnstatRemoves, AutocommitWrites
<1>4. CASE db' = db
    BY <1>0, <1>4 DEF RowsInv
<1>5. QED
    BY <1>0, <1>1, <1>2, <1>3, <1>4, Writers

(* An error that was recorded keeps the transaction from being committed,  *)
(* and so does the end of the flush.                                       *)
LEMMA NotClean ==
    ASSUME RowsInv', LogInv', HandleInv', pc' # "flush",
           pc' # "flushend" \/ db_errcode' # "OK"
    PROVE  FlushInv'
BY DEF FlushInv, HandleInv, Clean

LEMMA ErrorNotClean ==
    ASSUME RowsInv', LogInv', HandleInv', NEW e \in ErrorCodes, NEW place, place # "flush",
           NEW ACTION effect, effect => db_errcode' = e,
           place # "flushend" \/ e # "OK",
           handledatabaseerror(e, place, effect)
    PROVE  FlushInv'
BY NotClean DEF handledatabaseerror, errorexitdaemon, Ends

LEMMA FaultsNotOK == "OK" \notin Faults /\ "OK" \notin ReadFaults
BY FaultsAssumption DEF ReadFaults

LEMMA FlushInvFlush ==
    ASSUME ~LostReads, LInv, flushcachetodisk, RowsInv', LogInv', HandleInv'
    PROVE  FlushInv'
<1>0. TypeOK /\ HandleInv /\ FlushInv /\ goal \notin {"flush", "flushend"}
    BY DEF LInv, IInv, TypeOK
<1>1. CASE FlushBegins
    <2>1. /\ pc' = "flush" /\ todo' = cache /\ cache' = cache /\ db' = db /\ txn' = db
          /\ open' /\ db_intransaction' /\ db_errcode' = "OK"
        BY <1>1 DEF FlushBegins, db_begintransaction, cachevars
    <2>2. Visited'
        BY <2>1 DEF Visited, Kept
    <2>3. QED
        BY <2>1, <2>2 DEF FlushInv, Clean
<1>2. CASE FlushNotBegun
    <2>1. PICK e \in ErrorCodes : handledatabaseerror(e, goal, BeginFails(e))
        BY <1>2, ReadFaultsAreFaults DEF FlushNotBegun, ErrorCodes
    <2>2. BeginFails(e) => db_errcode' = e
        BY DEF BeginFails
    <2>3. QED
        BY <1>0, <2>1, <2>2, ErrorNotClean
<1>3. CASE FlushNotCommitted
    <2>1. PICK e \in ErrorCodes : handledatabaseerror(e, goal, CommitFails(e))
        BY <1>3, ReadFaultsAreFaults DEF FlushNotCommitted
    <2>2. CommitFails(e) => db_errcode' = e
        BY DEF CommitFails
    <2>3. QED
        BY <1>0, <2>1, <2>2, ErrorNotClean
<1>4. CASE FlushCommits \/ FlushRollsBack
    BY <1>0, <1>4, NotClean DEF FlushCommits, FlushRollsBack
<1>5. ASSUME NEW i \in Iface, SkipEntry(i) PROVE FlushInv'
    <2>1. /\ pc = "flush" /\ i \in todo /\ i \notin txn.known
          /\ pc' = pc /\ todo' = todo \ {i}
          /\ UNCHANGED <<db, txn, open, db_intransaction, db_errcode, cache, logged, curr, pend>>
        BY <1>5 DEF SkipEntry, Visits, Stays, sqlitevars, cachevars
    <2>2. Clean /\ Visited /\ open
        BY <1>0, <2>1 DEF FlushInv
    <2>3. Visited'
        BY <2>1, <2>2 DEF Visited, Kept, Saved
    <2>4. QED
        BY <2>1, <2>2, <2>3 DEF FlushInv, Clean
<1>6. ASSUME NEW i \in Iface, CountUnreadable(i) PROVE FlushInv'
    <2>1. PICK e \in ReadFaults, gone \in BOOLEAN :
              handledatabaseerror(e, "flushend", StatementFails(txn, e, gone))
        BY <1>6, RollsBackBoolean DEF CountUnreadable
    <2>2. StatementFails(txn, e, gone) => db_errcode' = e
        BY DEF StatementFails
    <2>3. QED
        BY <2>1, <2>2, ErrorNotClean, ReadFaultsAreFaults, FaultsNotOK
<1>7. ASSUME NEW i \in Iface, TrafficNotAdded(i) PROVE FlushInv'
    <2>1. PICK e \in TrafficFaults, gone \in BOOLEAN :
              handledatabaseerror(AddTrafficCode(e, gone), "flushend", AddTrafficFails(e, gone))
        BY <1>7, RollsBackBoolean DEF TrafficNotAdded
    <2>2. AddTrafficFails(e, gone) => db_errcode' = AddTrafficCode(e, gone)
        BY DEF AddTrafficFails
    <2>3. AddTrafficCode(e, gone) # "OK" /\ AddTrafficCode(e, gone) \in ErrorCodes
        BY ReadFaultsAreFaults, FaultsNotOK
           DEF AddTrafficCode, AfterRollback, TrafficFaults, ErrorCodes
    <2>4. QED
        BY <2>1, <2>2, <2>3, ErrorNotClean
<1>8. ASSUME NEW i \in Iface, RowNotUpdated(i) PROVE FlushInv'
    <2>1. PICK e \in Faults, gone \in BOOLEAN, d \in Written(i) :
              handledatabaseerror(e, "flushend", StatementFails(d, e, gone))
        BY <1>0, <1>8, RollsBackBoolean DEF RowNotUpdated, UpdateFaults
    <2>2. StatementFails(d, e, gone) => db_errcode' = e
        BY DEF StatementFails
    <2>3. QED
        BY <2>1, <2>2, ErrorNotClean, ReadFaultsAreFaults, FaultsNotOK
<1>9. ASSUME NEW i \in Iface, StoreEntry(i) PROVE FlushInv'
    <2>1. /\ pc = "flush" /\ i \in todo /\ i \in txn.known /\ txn' = Stored(i)
          /\ pc' = pc /\ todo' = todo \ {i}
          /\ UNCHANGED <<db, open, db_intransaction, db_errcode, cache, logged, curr, pend>>
        BY <1>9 DEF StoreEntry, Visits, Stays, cachevars
    <2>2. Clean /\ Visited /\ open
        BY <1>0, <2>1 DEF FlushInv
    <2>3. txn \in Database /\ db \in Database /\ todo \subseteq cache /\ cache \subseteq Iface
        BY <1>0 DEF TypeOK, SqliteTypeOK
    <2>4. /\ txn'.known = txn.known
          /\ \A j \in Iface \ {i} : /\ txn'.total[j] = txn.total[j]
                                    /\ txn'.counter[j] = txn.counter[j]
          /\ Saved(i)'
        <3>1. Kept(i)
            BY <2>1, <2>2 DEF Visited
        <3>2. CASE i \notin logged
            BY <1>0, <2>1, <2>3, <3>1, <3>2, StoredEntry DEF Saved, Kept
        <3>3. CASE i \in logged
            <4>1. /\ txn'.known = txn.known
                  /\ txn'.total = [txn.total EXCEPT ![i] = @ + pend[i]]
                  /\ txn'.counter = [txn.counter EXCEPT ![i] = curr[i]]
                BY <1>0, <2>1, <3>3, StoredEntry
            <4>2. DOMAIN txn.total = Iface /\ DOMAIN txn.counter = Iface
                BY <2>3 DEF Database
            <4>3. txn'.total[i] = db.total[i] + pend[i] /\ txn'.counter[i] = curr[i]
                BY <3>1, <4>1, <4>2 DEF Kept
            <4>4. \A j \in Iface \ {i} : /\ txn'.total[j] = txn.total[j]
                                          /\ txn'.counter[j] = txn.counter[j]
                BY <4>1, <4>2
            <4>5. Saved(i)'
                BY <2>1, <3>3, <4>3 DEF Saved
            <4>6. QED
                BY <4>1, <4>4, <4>5
        <3>4. QED
            BY <3>2, <3>3
    <2>5. Visited'
        BY <2>1, <2>2, <2>3, <2>4 DEF Visited, Kept, Saved, Database
    <2>6. QED
        BY <2>1, <2>2, <2>5 DEF FlushInv, Clean
<1>10. ASSUME NEW i \in Iface, RemoveEntry(i) PROVE FlushInv'
    <2>1. /\ pc = "flush" /\ i \in todo /\ i \in txn.known /\ pc' = "flushend"
          /\ ~noremove /\ i \notin logged /\ txn.total[i] = 0
          /\ txn' = db_removeinterface(txn, i)
          /\ UNCHANGED <<db, open, db_intransaction, db_errcode, noremove, logged, curr, pend>>
        BY <1>10 DEF RemoveEntry, Removable, Visits, Stays, statevars, cachevars
    <2>2. Clean /\ Visited /\ open /\ pend[i] = 0
        BY <1>0, <2>1 DEF FlushInv, LogInv
    <2>3. txn \in Database
        BY <1>0 DEF TypeOK, SqliteTypeOK
    <2>4. /\ txn'.known = txn.known \ {i}
          /\ txn'.total = [txn.total EXCEPT ![i] = 0]
          /\ txn'.counter = [txn.counter EXCEPT ![i] = 0]
        BY <2>1, <2>3, RemoveInterface
    <2>5. db.total[i] = 0 /\ txn.known = db.known
        BY <2>1, <2>2 DEF Visited, Kept
    <2>6. \A j \in Iface \ {i} : txn'.total[j] = txn.total[j] /\ txn'.counter[j] = txn.counter[j]
        BY <2>3, <2>4 DEF Database
    <2>7. txn'.total[i] = 0
        BY <2>3, <2>4 DEF Database
    <2>8. /\ \A j \in Iface \ db.known : Kept(j)
          /\ \A j \in db.known : Kept(j) \/ Saved(j)
        BY <2>2 DEF Visited
    <2>9. db.known \subseteq Iface
        BY <1>0 DEF TypeOK, SqliteTypeOK, Database
    <2>10. Removed(i)'
        BY <2>1, <2>2, <2>4, <2>5, <2>6, <2>7, <2>8, <2>9 DEF Removed, Kept, Saved
    <2>11. QED
        BY <2>1, <2>2, <2>5, <2>10 DEF FlushInv, Clean
<1>11. ASSUME NEW i \in Iface, TotalsUnreadable(i) PROVE FlushInv'
    <2>1. PICK e \in ReadFaults, gone \in BOOLEAN : StatementFails(txn, e, gone)
        BY <1>11, RollsBackBoolean DEF TotalsUnreadable
    <2>2. pc' = "flushend" /\ db_errcode' # "OK"
        BY <1>11, <2>1, FaultsNotOK DEF TotalsUnreadable, StatementFails
    <2>3. QED
        BY <2>2, NotClean
<1>12. QED
    BY <1>1, <1>2, <1>3, <1>4, <1>5, <1>6, <1>7, <1>8, <1>9, <1>10, <1>11
       DEF flushcachetodisk

LEMMA FlushInvNext == ~LostReads /\ LInv /\ [Next]_vars => FlushInv'
<1> SUFFICES ASSUME ~LostReads, LInv, [Next]_vars PROVE FlushInv'
    OBVIOUS
<1>0. TypeOK /\ HandleInv /\ FlushInv /\ goal \notin {"flush", "flushend"}
    BY DEF LInv, IInv, TypeOK
<1>1. RowsInv' /\ LogInv' /\ HandleInv'
    BY <1>0, RowsNext, LogNext, HandleNext DEF FlushInv
<1>2. CASE pc' \notin {"flush", "flushend"}
    BY <1>1, <1>2, NotClean
<1>3. CASE flushcachetodisk
    BY <1>1, <1>3, FlushInvFlush
<1>4. ASSUME NEW i \in Iface, VnstatAdds(i) \/ VnstatRemoves(i) PROVE FlushInv'
    <2>1. ~open /\ ~open' /\ UNCHANGED <<pc, db_intransaction, db_errcode>>
        BY <1>4 DEF VnstatAdds, VnstatRemoves, AutocommitWrites
    <2>2. ~Clean /\ pc # "flush"
        BY <1>0, <2>1 DEF FlushInv
    <2>3. QED
        BY <1>1, <2>1, <2>2, NotClean DEF Clean, FlushInv
<1>5. CASE UNCHANGED vars
    BY <1>0, <1>1, <1>5 DEF vars, sqlitevars, statevars, cachevars, FlushInv, Clean, Visited,
       Removed, Kept, Saved
<1>6. ASSUME Next, pc' \in {"flush", "flushend"}
      PROVE  flushcachetodisk \/ \E i \in Iface : VnstatAdds(i) \/ VnstatRemoves(i)
    <2>1. ASSUME NEW i, LeftAlone(i) \/ NotAvailable(i) \/ TakenOver(i) \/ NotInitialised(i)
                        \/ ClockOff(i) \/ \E amount \in 0 .. MaxChange : Counted(i, amount)
          PROVE  FALSE
        BY <1>6, <2>1 DEF LeftAlone, NotAvailable, TakenOver, Counted, Reached, NotInitialised,
           ClockOff, errorexitdaemon, Ends
    <2>2. ~processdatacache
        BY <1>6, <2>1 DEF processdatacache, ProcessDone
    <2>3. QED
        BY <1>6, <2>2 DEF Next, Start, StartAdding, Started, Killed, filldatabaselist,
           ListUnreadable, interfacechangecheck, BeginUpdate, handleintsignals,
           cleanremovedinterfaces, rescandatabaseforinterfaces, Reload, ReloadFails, Exit,
           errorexitdaemon, Ends
<1>7. QED
    BY <1>2, <1>3, <1>4, <1>5, <1>6

LEMMA LedgerInv ==
    ASSUME ~LostReads PROVE Spec => []LInv
<1>1. Init => LInv
    BY TypeInit, SafeInit, FlushInit DEF LInv, IInv
<1>2. LInv /\ [Next]_vars => LInv'
    BY TypeNext, HandleNext, TrafficNext, FlushInvNext DEF LInv, IInv
<1>3. QED
    BY <1>1, <1>2, PTL DEF Spec

(* A row's totals and its counters change together: the part of            *)
(* TotalsWithCounters that a step has to show.                             *)
RowMoves ==
    \A i \in db.known \cap db'.known :
        (db'.total[i] # db.total[i] \/ db'.counter[i] # db.counter[i])
        => /\ db'.total[i] = db.total[i] + pend[i]
           /\ db'.counter[i] = curr[i]

LEMMA RowMovesNext == LInv /\ [Next]_vars => RowMoves
<1> SUFFICES ASSUME LInv, [Next]_vars PROVE RowMoves
    OBVIOUS
<1>0. TypeOK /\ db \in Database
    BY DEF LInv, IInv, TypeOK, SqliteTypeOK
<1>1. CASE FlushCommits
    <2>1. CASE db' = txn /\ todo = {} /\ Visited
        BY <2>1 DEF Visited, Kept, Saved, RowMoves
    <2>2. CASE db' = txn /\ \E r \in db.known : Removed(r)
        BY <2>2 DEF Removed, Kept, Saved, RowMoves
    <2>3. QED
        BY <1>1, <2>1, <2>2, CommittedRows
<1>2. CASE StartAdding
    BY <1>2 DEF StartAdding, RowMoves
<1>3. ASSUME NEW i \in Iface, VnstatAdds(i) PROVE RowMoves
    <2>1. i \notin db.known /\ db' = db_addinterface(db, i)
        BY <1>3 DEF VnstatAdds, AutocommitWrites
    <2>2. db'.total = [db.total EXCEPT ![i] = 0] /\ db'.counter = [db.counter EXCEPT ![i] = 0]
        BY <1>0, <2>1, AddInterface
    <2>3. \A j \in db.known : db'.total[j] = db.total[j] /\ db'.counter[j] = db.counter[j]
        BY <1>0, <2>1, <2>2 DEF Database
    <2>4. QED
        BY <2>3 DEF RowMoves
<1>4. ASSUME NEW i \in Iface, VnstatRemoves(i) PROVE RowMoves
    <2>1. db' = db_removeinterface(db, i)
        BY <1>4 DEF VnstatRemoves, AutocommitWrites
    <2>2. /\ db'.known = db.known \ {i}
          /\ db'.total = [db.total EXCEPT ![i] = 0]
          /\ db'.counter = [db.counter EXCEPT ![i] = 0]
        BY <1>0, <2>1, RemoveInterface
    <2>3. \A j \in db.known \ {i} : /\ db'.total[j] = db.total[j]
                                    /\ db'.counter[j] = db.counter[j]
        BY <1>0, <2>2 DEF Database
    <2>4. QED
        BY <2>2, <2>3 DEF RowMoves
<1>5. CASE db' = db
    BY <1>5 DEF RowMoves
<1>6. QED
    BY <1>0, <1>1, <1>2, <1>3, <1>4, <1>5, Writers

(* If no query loses its result, a row's totals and its counters change    *)
(* together, by what was pending and to the counters it was pending at.    *)
THEOREM TotalsMoveWithCounters == ASSUME ~LostReads PROVE Spec => TotalsWithCounters
<1>1. LInv /\ [Next]_vars => RowMoves
    BY RowMovesNext
<1>2. Spec => []LInv
    BY LedgerInv
<1>3. QED
    BY <1>1, <1>2, PTL DEF Spec, TotalsWithCounters, RowMoves

LEMMA ClearedNext == LInv /\ [Next]_vars => (noremove => ClearedIsStored)
<1> SUFFICES ASSUME LInv, [Next]_vars, noremove,
                    NEW i \in cache \cap cache', pend'[i] < pend[i], i \in db.known
             PROVE  db'.total[i] = db.total[i] + pend[i]
    BY DEF ClearedIsStored
<1>0. TypeOK /\ LogInv /\ i \in Iface /\ pend \in [Iface -> Nat]
    BY DEF LInv, IInv, FlushInv, TypeOK, Amounts
<1>1. CASE FlushCommits
    <2>1. db' = txn /\ todo = {} /\ Visited
        BY <1>1, CommittedRows
    <2>2. pend' = NoAmounts
        BY <1>1 DEF FlushCommits
    <2>3. i \in logged
        BY <1>0, <2>2 DEF LogInv, NoAmounts
    <2>4. QED
        BY <2>1, <2>3 DEF Visited, Saved
<1>2. pend' = pend => FALSE
    BY <1>0
<1>3. ASSUME NEW S \in SUBSET Iface, S \cap cache' = {},
             pend' = [j \in Iface |-> IF j \in S THEN 0 ELSE pend[j]]
      PROVE  FALSE
    BY <1>0, <1>3
<1>4. ASSUME NEW j \in Iface, NEW amount \in 0 .. MaxChange,
             pend' = [pend EXCEPT ![j] = @ + amount]
      PROVE  FALSE
    BY <1>0, <1>4, BoundsAssumption
<1>5. ~Pends
    BY <1>2, <1>3, <1>4 DEF Pends
<1>6. CASE StartAdding \/ \E j \in Iface : VnstatAdds(j) \/ VnstatRemoves(j)
    BY <1>2, <1>6 DEF StartAdding, Started, VnstatAdds, VnstatRemoves, cachevars
<1>7. QED
    BY <1>0, <1>1, <1>5, <1>6, Writers

(* A daemon started with --noremove clears a log only when the traffic in  *)
(* it is in the database, if no query loses its result.                    *)
THEOREM ClearedLogsAreStored == ASSUME ~LostReads PROVE Spec => ClearedMeansStoredIfNoremove
<1>1. LInv /\ [Next]_vars => (noremove => ClearedIsStored)
    BY ClearedNext
<1>2. Spec => []LInv
    BY LedgerInv
<1>3. QED
    BY <1>1, <1>2, PTL DEF Spec, ClearedMeansStoredIfNoremove

(***************************************************************************)
(* The daemon implements TrafficLedger: every step of the daemon is one of *)
(* the ledger or changes nothing the ledger sees.                          *)
(***************************************************************************)
LEMMA CommitIsSave ==
    ASSUME LInv, FlushCommits
    PROVE  Ledger!Save \/ \E r \in Iface : Ledger!SaveAndRemove(r)
<1>0. /\ db \in Database /\ txn \in Database /\ pend \in [Iface -> Nat]
      /\ RowsInv /\ LogInv /\ logged \subseteq cache
    BY DEF LInv, IInv, FlushInv, TypeOK, SqliteTypeOK, Amounts
<1>1. pend' = [i \in Iface |-> 0]
    BY DEF FlushCommits, NoAmounts
<1>2. /\ db.total \in [Iface -> Nat] /\ txn.total \in [Iface -> Nat]
      /\ db.known \subseteq Iface
    BY <1>0 DEF Database
<1>3. ASSUME NEW i \in Iface, Saved(i) PROVE txn.total[i] = db.total[i] + pend[i]
    BY <1>0, <1>2, <1>3 DEF Saved, Kept, LogInv
<1>4. CASE db' = txn /\ todo = {} /\ Visited
    <2>1. \A i \in Iface : txn.total[i] = IF i \in db.known THEN db.total[i] + pend[i]
                                                            ELSE db.total[i]
        <3>1. ASSUME NEW i \in db.known \ cache PROVE txn.total[i] = db.total[i] + pend[i]
            BY <1>0, <1>2, <1>4, <3>1 DEF Visited, Kept, LogInv
        <3>2. QED
            BY <1>2, <1>3, <1>4, <3>1 DEF Visited, Kept
    <2>2. txn.total = [i \in Iface |-> IF i \in db.known THEN db.total[i] + pend[i]
                                                         ELSE db.total[i]]
        BY <1>2, <2>1
    <2>3. QED
        BY <1>1, <1>4, <2>2 DEF Visited, Ledger!Save
<1>5. ASSUME db' = txn, NEW r \in db.known, Removed(r) PROVE Ledger!SaveAndRemove(r)
    <2> DEFINE S == {i \in db.known \ {r} : Saved(i)}
    <2>1. \A i \in Iface : txn.total[i] = IF i \in S THEN db.total[i] + pend[i]
                                                     ELSE db.total[i]
        BY <1>2, <1>3, <1>5 DEF Removed, Kept
    <2>2. txn.total = [i \in Iface |-> IF i \in S THEN db.total[i] + pend[i]
                                                  ELSE db.total[i]]
        BY <1>2, <2>1
    <2>3. S \in SUBSET (db.known \ {r})
        OBVIOUS
    <2> HIDE DEF S
    <2>4. QED
        BY <1>1, <1>5, <2>2, <2>3 DEF Removed, Ledger!SaveAndRemove
<1>6. QED
    BY <1>2, <1>4, <1>5, CommittedRows

LEMMA LedgerNext == LInv /\ [Next]_vars => [Ledger!Next]_<<db.known, db.total, pend>>
<1> SUFFICES ASSUME LInv, [Next]_vars PROVE [Ledger!Next]_<<db.known, db.total, pend>>
    OBVIOUS
<1>0. /\ TypeOK /\ RowsInv
      /\ db \in Database /\ db.known \subseteq Iface /\ db.total \in [Iface -> Nat]
    BY DEF LInv, IInv, FlushInv, TypeOK, SqliteTypeOK, Database
<1>1. CASE FlushCommits
    BY <1>1, CommitIsSave DEF Ledger!Next
<1>2. CASE StartAdding
    <2>1. PICK found \in SUBSET Iface, counter \in [Iface -> 0 .. MaxCounter] :
              db.known = {} /\ db' = addinterfaces(found, counter) /\ pend' = pend
        BY <1>2 DEF StartAdding, Started, AutocommitWrites, cachevars
    <2>2. db'.known = db.known \cup found /\ db'.total = [i \in Iface |-> 0]
        BY <2>1 DEF addinterfaces, NoAmounts
    <2>3. db'.total = [i \in Iface |-> IF i \in found THEN 0 ELSE db.total[i]]
        BY <1>0, <2>1, <2>2 DEF RowsInv
    <2>4. Ledger!Register(found)
        BY <2>1, <2>2, <2>3 DEF Ledger!Register
    <2>5. QED
        BY <2>4 DEF Ledger!Next
<1>3. ASSUME NEW i \in Iface, VnstatAdds(i) PROVE Ledger!Register({i})
    <2>1. db' = db_addinterface(db, i) /\ pend' = pend
        BY <1>3 DEF VnstatAdds, AutocommitWrites, cachevars
    <2>2. db'.known = db.known \cup {i} /\ db'.total = [db.total EXCEPT ![i] = 0]
        BY <1>0, <2>1, AddInterface
    <2>3. db'.total = [j \in Iface |-> IF j \in {i} THEN 0 ELSE db.total[j]]
        BY <1>0, <2>2
    <2>4. QED
        BY <2>1, <2>2, <2>3 DEF Ledger!Register
<1>4. ASSUME NEW i \in Iface, VnstatRemoves(i) PROVE Ledger!Unregister(i)
    <2>1. db' = db_removeinterface(db, i) /\ pend' = pend
        BY <1>4 DEF VnstatRemoves, AutocommitWrites, cachevars
    <2>2. QED
        BY <1>0, <2>1, RemoveInterface DEF Ledger!Unregister
<1>5. CASE db' = db /\ Pends
    BY <1>5 DEF Pends, Ledger!Next, Ledger!Forget, Ledger!Count
<1>6. QED
    <2>1. ASSUME NEW i \in Iface, VnstatAdds(i) \/ VnstatRemoves(i) PROVE Ledger!Next
        BY <1>3, <1>4, <2>1 DEF Ledger!Next
    <2>2. QED
        BY <1>0, <1>1, <1>2, <1>5, <2>1, Writers

(* The daemon keeps the promise of the ledger, if no query loses its       *)
(* result: a flush stores all that is pending or nothing, and removes a    *)
(* row only if it holds no traffic.                                        *)
THEOREM DaemonKeepsLedger == ASSUME ~LostReads PROVE Spec => LedgerSpec
<1>1. Init => Ledger!Init
    BY DEF Init, SqliteInit, EmptyDatabase, NoAmounts, Ledger!Init
<1>2. LInv /\ [Next]_vars => [Ledger!Next]_<<db.known, db.total, pend>>
    BY LedgerNext
<1>3. Spec => []LInv
    BY LedgerInv
<1>4. QED
    BY <1>1, <1>2, <1>3, PTL DEF Spec, LedgerSpec, Ledger!Spec, Ledger!ledgervars
=============================================================================
