------------------------------- MODULE Sqlite -------------------------------
(***************************************************************************)
(* The daemon's SQLite handle: the committed database, the transaction     *)
(* that may be open on the handle, and the two globals dbsql.c keeps about *)
(* it, db_intransaction and db_errcode.  The engine itself is external:    *)
(* what it may answer is taken from how dbsql.c tests its result codes.    *)
(*                                                                         *)
(* Only the interface table is kept.  A row's rxtotal/txtotal is one       *)
(* number and so is its rxcounter/txcounter: the code treats the two       *)
(* directions alike.                                                       *)
(***************************************************************************)
EXTENDS Integers

CONSTANTS
    Iface,         \* names of interfaces
    Faults,        \* result codes the engine may fail with
    DBRETRYLIMIT   \* failed writes in a row that the daemon survives

ASSUME FaultsAssumption == Faults \subseteq {"FULL", "IOERR", "BUSY", "ERROR"}
ASSUME RetryAssumption == DBRETRYLIMIT \in Nat

VARIABLES
    db,                \* the committed database
    txn,               \* what the open transaction sees; db when none is open
    open,              \* a transaction is open (SQLite is not in autocommit)
    db_intransaction,  \* what dbsql.c believes of it
    db_errcode         \* last error dbsql.c recorded

sqlitevars == <<db, txn, open, db_intransaction, db_errcode>>

(* "BUSY" stands for SQLITE_BUSY and SQLITE_LOCKED, "ERROR" for every code *)
(* that db_iserrcodefatal does not name.                                   *)
ErrorCodes == {"OK", "FULL", "IOERR", "BUSY", "ERROR"}

(* A query allocates no page, so it does not find the disk full. *)
ReadFaults == Faults \ {"FULL"}

Database == [known   : SUBSET Iface,          \* rows of the interface table
             total   : [Iface -> Nat],        \* rxtotal and txtotal
             counter : [Iface -> Nat]]        \* rxcounter and txcounter

EmptyDatabase == [known   |-> {},
                  total   |-> [i \in Iface |-> 0],
                  counter |-> [i \in Iface |-> 0]]

SqliteTypeOK ==
    /\ db \in Database
    /\ txn \in Database
    /\ open \in BOOLEAN
    /\ db_intransaction \in BOOLEAN
    /\ db_errcode \in ErrorCodes

SqliteInit ==
    /\ db = EmptyDatabase
    /\ txn = EmptyDatabase
    /\ open = FALSE
    /\ db_intransaction = FALSE
    /\ db_errcode = "OK"

(***************************************************************************)
(* Contents of the interface table after one statement.                    *)
(***************************************************************************)
db_addinterface(d, i) ==
    [known   |-> d.known \cup {i},
     total   |-> [d.total EXCEPT ![i] = 0],
     counter |-> [d.counter EXCEPT ![i] = 0]]

db_removeinterface(d, i) ==
    [known   |-> d.known \ {i},
     total   |-> [d.total EXCEPT ![i] = 0],
     counter |-> [d.counter EXCEPT ![i] = 0]]

db_addtraffic(d, i, amount) == [d EXCEPT !.total[i] = @ + amount]

db_setcounters(d, i, counter) == [d EXCEPT !.counter[i] = counter]

(***************************************************************************)
(* Result codes.                                                           *)
(***************************************************************************)
db_iserrcodefatal(e) == e \notin {"OK", "FULL", "IOERR", "BUSY"}

db_isdiskfull(e) == e = "FULL"

(* On a full disk or an I/O error the engine may have rolled the whole     *)
(* transaction back by itself before it returns the code.                  *)
RollsBackItself(e) == IF e \in {"FULL", "IOERR"} THEN BOOLEAN ELSE {FALSE}

(* ROLLBACK without an open transaction is an error of its own. *)
AfterRollback(e, wasopen) == IF wasopen THEN e ELSE "ERROR"

(***************************************************************************)
(* Transactions.                                                           *)
(***************************************************************************)
db_begintransaction ==
    /\ ~open
    /\ open' = TRUE
    /\ db_intransaction' = TRUE
    /\ txn' = db
    /\ UNCHANGED db

BeginFails(e) ==
    /\ db_errcode' = e
    /\ UNCHANGED <<db, txn, open, db_intransaction>>

db_committransaction ==
    /\ db' = txn
    /\ open' = FALSE
    /\ db_intransaction' = FALSE
    /\ UNCHANGED <<txn, db_errcode>>

(* Mutant of CommitFails: autocommit is not tested after the COMMIT. *)
CommitFailsAndStaysOpen(e) ==
    /\ db_intransaction' = FALSE
    /\ db_errcode' = e
    /\ UNCHANGED <<db, txn, open>>

(* COMMIT failed with e: rolled back, by the engine or by the call that    *)
(* tests autocommit, and e is what is left in db_errcode.                  *)
CommitFails(e) ==
    /\ open' = FALSE
    /\ db_intransaction' = FALSE
    /\ txn' = db
    /\ db_errcode' = e
    /\ UNCHANGED db

(* Mutant of db_rollbacktransaction: COMMIT where ROLLBACK was meant. *)
RollbackCommits ==
    /\ db' = txn
    /\ open' = FALSE
    /\ db_intransaction' = FALSE
    /\ UNCHANGED <<txn, db_errcode>>

db_rollbacktransaction ==
    /\ open' = FALSE
    /\ db_intransaction' = FALSE
    /\ txn' = db
    /\ db_errcode' = AfterRollback(db_errcode, open)
    /\ UNCHANGED db

(* A statement of the transaction failed with e after the ones before it   *)
(* had made d of the database; "gone" tells whether the engine rolled      *)
(* back.  Ending the transaction is left to the caller.                    *)
StatementFails(d, e, gone) ==
    /\ open' = ~gone
    /\ txn' = IF gone THEN db ELSE d
    /\ db_errcode' = e
    /\ UNCHANGED <<db, db_intransaction>>

(* A statement of db_addtraffic_dated failed: it rolls back at once, which *)
(* is what leaves the result code.                                         *)
AddTrafficCode(e, gone) == AfterRollback(e, ~gone)

AddTrafficFails(e, gone) ==
    /\ open' = FALSE
    /\ db_intransaction' = FALSE
    /\ txn' = db
    /\ db_errcode' = AddTrafficCode(e, gone)
    /\ UNCHANGED db

(* The handle is closed or the process is gone: an open transaction is     *)
(* undone.                                                                 *)
HandleLost ==
    /\ open' = FALSE
    /\ db_intransaction' = FALSE
    /\ txn' = db
    /\ db_errcode' = "OK"
    /\ UNCHANGED db

(* A statement outside a transaction, of this process or of another such   *)
(* as the vnstat command.  It needs the write lock that BEGIN IMMEDIATE    *)
(* takes.                                                                  *)
AutocommitWrites(d) ==
    /\ ~open
    /\ db' = d
    /\ txn' = d
    /\ UNCHANGED <<open, db_intransaction, db_errcode>>
=============================================================================
