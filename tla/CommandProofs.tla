---------------------------- MODULE CommandProofs ----------------------------
(***************************************************************************)
(* What module Command guarantees for any number of processes, commands,   *)
(* interfaces, tables and source databases.                                *)
(***************************************************************************)
EXTENDS Command, FiniteSetTheorems, WellFoundedInduction, TLAPS

(***************************************************************************)
(* The inductive invariant, in parts.                                      *)
(***************************************************************************)
(* A database whose next id can be computed, and whose rows are typed.     *)
Sound(d) ==
    /\ \E b \in Nat : Ids(d) \subseteq 1 .. b
    /\ \A i \in Ids(d) : d[i] \in Row

ProcType ==
    /\ pc \in [Proc -> Places]
    /\ cmd \in [Proc -> Commands \cup {Idle}]
    /\ todo \in [Proc -> SUBSET ((DOMAIN Source) \X Name)]
    /\ ifaceid \in [Proc -> Nat]
    /\ srcifinfo \in [Proc -> Row \cup {NoRow}]
    /\ dstifinfo \in [Proc -> Row \cup {NoRow}]
    /\ datalist \in [Proc -> [Tables -> Nat]]
    /\ started \in 0 .. MaxCommands
    /\ saves \in 0 .. MaxSaves

(* What a process has in hand where it is. *)
Handling == {"check", "open", "lookup", "exec"}
Merging == {"dstid", "dstadd", "dstinfo", "begin", "merge", "commit"}

InHand(p) ==
    /\ pc[p] \in Handling => cmd[p] \in Commands
    /\ pc[p] \in Handling /\ cmd[p].op = "merge" => todo[p] # {}
    /\ pc[p] \in {"lookup", "exec"} => cmd[p].op # "merge"
    /\ pc[p] \in Merging => todo[p] # {}
    /\ pc[p] \in {"dstadd", "dstinfo", "begin", "merge", "commit"} => srcifinfo[p] \in Row
    /\ pc[p] \in {"begin", "merge", "commit"} => dstifinfo[p] \in Row

PlaceInv == \A p \in Proc : InHand(p)

LockInv ==
    /\ lock \in Proc \cup {Nobody}
    /\ \A p \in Proc : lock = p <=> pc[p] \in {"merge", "commit", "close"}

(* Nobody changes the database while a transaction is open, which holds    *)
(* either all of a merge or nothing.                                       *)
TxnInv ==
    /\ lock = Nobody => txn = NoTable
    /\ \A p \in Proc : pc[p] \in {"merge", "close"} => txn = db
    /\ \A p \in Proc : pc[p] = "commit" =>
          /\ db_getinterfaceid(db, Dst(p)) # 0
          /\ ifaceid[p] \in Ids(db)
          /\ datalist[p] \in db_getdata(Src(p))
          /\ txn = Merged(db, p, datalist[p])

DbInv == Sound(db) /\ UniqueIn(db) /\ flawed \cup garbled \subseteq Ids(db)

CInv == ProcType /\ PlaceInv /\ LockInv /\ TxnInv /\ DbInv
-----------------------------------------------------------------------------
(* A set of natural numbers has a least element, and a bounded one has a   *)
(* greatest: induction over the numbers without an operator to instantiate. *)
LEMMA Least ==
    ASSUME NEW T, T \subseteq Nat, T # {}
    PROVE  \E x \in T : \A y \in T : x <= y
<1> DEFINE R == OpToRel(<, Nat)
<1>1. IsWellFoundedOn(R, Nat)
    BY NatLessThanWellFounded
<1>2. \A x, y \in Nat : x < y => <<x, y>> \in R
    BY DEF OpToRel
<1> HIDE DEF R
<1>3. PICK x \in T : \A y \in T : ~ (<<y, x>> \in R)
    BY <1>1, WFMin
<1>4. \A y \in T : x <= y
    <2>1. SUFFICES ASSUME NEW y \in T PROVE x <= y
        OBVIOUS
    <2>2. x \in Nat /\ y \in Nat /\ ~ (y < x)
        BY <1>2, <1>3
    <2>3. QED
        BY <2>2
<1>5. QED
    BY <1>4

LEMMA Greatest ==
    ASSUME NEW S, NEW b \in Nat, S \subseteq 0 .. b, S # {}
    PROVE  Max(S) \in S /\ \A x \in S : Max(S) >= x
<1> DEFINE T == {c \in Nat : \A x \in S : x <= c}
<1>1. PICK c \in T : \A d \in T : c <= d
    <2>1. b \in T
        OBVIOUS
    <2>2. QED
        BY <2>1, Least
<1>2. c \in S
    <2>1. SUFFICES ASSUME c \notin S PROVE FALSE
        OBVIOUS
    <2>2. \A x \in S : x <= c /\ x # c /\ x \in Nat
        BY <2>1
    <2>3. PICK x \in S : TRUE
        OBVIOUS
    <2>5. c \in Nat /\ c - 1 \in Nat
        BY <2>2, <2>3
    <2>6. \A y \in S : y <= c - 1
        BY <2>2, <2>5
    <2>7. c - 1 \in T
        BY <2>5, <2>6
    <2>4. QED
        BY <1>1, <2>5, <2>7
<1>3. \E x \in S : \A y \in S : x >= y
    BY <1>2
<1>4. QED
    BY <1>3 DEF Max

-----------------------------------------------------------------------------
(***************************************************************************)
(* Rows and statements.                                                    *)
(***************************************************************************)
(* A row before its first update. *)
LEMMA NewRowTyped ==
    ASSUME NEW n \in Name, NEW now \in Times
    PROVE  /\ NewRow(n, now) \in Row /\ NewRow(n, now).counter = 0
           /\ NewRow(n, now).name = n /\ NewRow(n, now).alias = NoAlias
           /\ NewRow(n, now).total = 0
           /\ NewRow(n, now).data = [t \in Tables |-> 0]
<1>1. now \in Nat /\ NoAlias \in Alias /\ [t \in Tables |-> 0] \in [Tables -> Nat]
    BY BoundsAssumption, AliasAssumption
<1>2. QED
    BY <1>1 DEF NewRow, Row

(* What the statements of a merge for a row make of it. *)
LEMMA MergedRowTyped ==
    ASSUME NEW row \in Row, NEW src \in Row, NEW dst \in Row
    PROVE  /\ MergedRow(row, src, dst) \in Row
           /\ LET from == IF TakesCounters(src, dst) THEN src ELSE row
              IN  /\ MergedRow(row, src, dst).counter = from.counter
                  /\ MergedRow(row, src, dst).updated = from.updated
           /\ MergedRow(row, src, dst).name = row.name
           /\ MergedRow(row, src, dst).data = row.data
           /\ MergedRow(row, src, dst).total = src.total + dst.total
<1>1. src.total + dst.total \in Nat
    BY DEF Row
<1>2. QED
    BY <1>1 DEF MergedRow, Row

LEMMA mergedataTyped ==
    ASSUME NEW row \in Row, NEW read \in [Tables -> Nat]
    PROVE  /\ mergedata(row, read) \in Row
           /\ mergedata(row, read).name = row.name
           /\ mergedata(row, read).alias = row.alias
           /\ mergedata(row, read).total = row.total
           /\ mergedata(row, read).counter = row.counter
           /\ mergedata(row, read).updated = row.updated
           /\ mergedata(row, read).data = [t \in Tables |-> row.data[t] + read[t]]
<1>1. [t \in Tables |-> row.data[t] + read[t]] \in [Tables -> Nat]
    BY DEF Row
<1>2. QED
    BY <1>1 DEF mergedata, Row

LEMMA CommandFields ==
    ASSUME NEW c \in Commands
    PROVE  /\ c.op \in {"remove", "rename", "add", "setalias", "merge"}
           /\ c.op # "merge" => c.name \in Name
           /\ c.op = "rename" => c.to \in Name
           /\ c.op = "add" => c.alias \in Alias \cup {Unset}
           /\ c.op = "setalias" => c.alias \in Alias
           /\ c.op = "merge" => /\ c.pairs # {}
                                /\ c.pairs \subseteq (DOMAIN Source) \X Name
<1>1. ASSUME NEW ps \in {Pairs} \cup {{<<s, d>>} : s \in DOMAIN Source, d \in Name}
      PROVE  ps # {} /\ ps \subseteq (DOMAIN Source) \X Name
    <2>1. CASE ps = Pairs
        <3>1. PICK n \in DOMAIN Source : TRUE
            BY SourceAssumption
        <3>2. <<n, n>> \in ps
            BY <2>1, <3>1 DEF Pairs
        <3>3. \A x \in ps : x \in (DOMAIN Source) \X Name
            BY <2>1, SourceAssumption DEF Pairs
        <3>4. QED
            BY <3>2, <3>3
    <2>2. CASE \E s \in DOMAIN Source, d \in Name : ps = {<<s, d>>}
        BY <2>2
    <2>3. QED
        BY <1>1, <2>1, <2>2
<1>2. c \in [op : {"merge"}, pairs : {Pairs} \cup
                 {{<<s, d>>} : s \in DOMAIN Source, d \in Name}]
      \/ /\ c.op \in {"remove", "rename", "add", "setalias"} /\ c.name \in Name
         /\ c.op = "rename" => c.to \in Name
         /\ c.op = "add" => c.alias \in Alias \cup {Unset}
         /\ c.op = "setalias" => c.alias \in Alias
    BY DEF Commands
<1>3. QED
    BY <1>1, <1>2

LEMMA Found ==
    ASSUME NEW d, NEW n, db_getinterfaceid(d, n) # 0
    PROVE  db_getinterfaceid(d, n) \in Ids(d) /\ d[db_getinterfaceid(d, n)].name = n
<1>1. IdOf(d, n) # {}
    BY DEF db_getinterfaceid
<1>2. db_getinterfaceid(d, n) \in IdOf(d, n)
    BY <1>1 DEF db_getinterfaceid
<1>3. QED
    BY <1>2 DEF IdOf

(* As names are unique, a row is the one its name finds. *)
LEMMA FoundByName ==
    ASSUME NEW d, UniqueIn(d), NEW i \in Ids(d)
    PROVE  db_getinterfaceid(d, d[i].name) = i
<1>1. IdOf(d, d[i].name) = {i}
    BY DEF IdOf, UniqueIn
<1>2. QED
    BY <1>1 DEF db_getinterfaceid

LEMMA IdsArePositive ==
    ASSUME NEW d, Sound(d)
    PROVE  Ids(d) \subseteq Nat \ {0}
BY DEF Sound

(* The id the engine gives is that of no row. *)
LEMMA NewIdIsNew ==
    ASSUME NEW d, Sound(d)
    PROVE  /\ NewId(d) \in Nat \ {0} /\ NewId(d) \notin Ids(d)
           /\ Ids(d) \cup {NewId(d)} \subseteq 1 .. NewId(d)
<1>1. PICK b \in Nat : Ids(d) \subseteq 1 .. b
    BY DEF Sound
<1> DEFINE S == {0} \cup Ids(d)
<1>2. S \subseteq 0 .. b /\ S # {}
    BY <1>1
<1>3. Max(S) \in S /\ \A x \in S : Max(S) >= x
    BY <1>2, Greatest
<1>4. /\ Max(S) \in Nat /\ NewId(d) = Max(S) + 1
      /\ \A x \in Ids(d) : x \in Nat /\ x >= 1 /\ Max(S) >= x
    BY <1>1, <1>2, <1>3 DEF NewId
<1> HIDE DEF S
<1>5. QED
    BY <1>4

LEMMA AddSound ==
    ASSUME NEW d, Sound(d), NEW n \in Name, NEW now \in Times
    PROVE  /\ Sound(db_addinterface(d, n, now))
           /\ Ids(db_addinterface(d, n, now)) = Ids(d) \cup {NewId(d)}
           /\ \A i \in Ids(d) : db_addinterface(d, n, now)[i] = d[i]
           /\ db_addinterface(d, n, now)[NewId(d)] = NewRow(n, now)
<1> DEFINE e == db_addinterface(d, n, now)
<1>1. Ids(e) = Ids(d) \cup {NewId(d)}
    BY DEF db_addinterface, Ids
<1>2. NewId(d) \in Nat /\ NewId(d) \notin Ids(d) /\ Ids(e) \subseteq 1 .. NewId(d)
    BY <1>1, NewIdIsNew
<1>3. /\ \A i \in Ids(d) : e[i] = d[i]
      /\ e[NewId(d)] = NewRow(n, now)
    BY <1>2 DEF db_addinterface
<1> HIDE DEF e
<1>4. \A i \in Ids(e) : e[i] \in Row
    BY <1>1, <1>3, NewRowTyped DEF Sound
<1>5. Sound(e)
    BY <1>2, <1>4 DEF Sound
<1>6. QED
    BY <1>1, <1>3, <1>5 DEF e

LEMMA UpdatedSound ==
    ASSUME NEW d, Sound(d), NEW i, NEW row, i \in Ids(d) => row \in Row
    PROVE  /\ Sound(Updated(d, i, row)) /\ Ids(Updated(d, i, row)) = Ids(d)
           /\ \A j \in Ids(d) : Updated(d, i, row)[j] = IF j = i THEN row ELSE d[j]
<1> DEFINE e == Updated(d, i, row)
<1>1. Ids(e) = Ids(d) /\ \A j \in Ids(d) : e[j] = IF j = i THEN row ELSE d[j]
    BY DEF Updated, Ids
<1> HIDE DEF e
<1>2. Sound(e)
    BY <1>1 DEF Sound
<1>3. QED
    BY <1>1, <1>2 DEF e

LEMMA RemoveSound ==
    ASSUME NEW d, Sound(d), NEW i
    PROVE  /\ Sound(db_removeinterface(d, i))
           /\ Ids(db_removeinterface(d, i)) = Ids(d) \ {i}
           /\ \A j \in Ids(d) \ {i} : db_removeinterface(d, i)[j] = d[j]
<1> DEFINE e == db_removeinterface(d, i)
<1>1. Ids(e) = Ids(d) \ {i} /\ \A j \in Ids(d) \ {i} : e[j] = d[j]
    BY DEF db_removeinterface, Ids
<1> HIDE DEF e
<1>2. Sound(e)
    BY <1>1 DEF Sound
<1>3. QED
    BY <1>1, <1>2 DEF e

(* A row with another name or alias. *)
LEMMA NamedTyped ==
    ASSUME NEW row \in Row
    PROVE  /\ \A n \in Name : LET r == [row EXCEPT !.name = n]
                              IN  /\ r \in Row /\ r.name = n
                                  /\ r.counter = row.counter /\ r.updated = row.updated
                                  /\ r.alias = row.alias /\ r.data = row.data
                                  /\ r.total = row.total
           /\ \A a \in Alias : LET r == [row EXCEPT !.alias = a]
                               IN  /\ r \in Row /\ r.name = row.name
                                   /\ r.counter = row.counter /\ r.updated = row.updated
                                   /\ r.alias = a /\ r.data = row.data
                                   /\ r.total = row.total
BY DEF Row

(* What a statement of the command leaves is in order. *)
LEMMA StatementSound ==
    ASSUME NEW d, Sound(d), NEW c \in Commands, c.op # "merge", NEW i, NEW now \in Times
    PROVE  Sound(Statement(c, d, i, now))
<1>1. CASE c.op = "remove"
    BY <1>1, RemoveSound DEF Statement
<1>2. CASE c.op = "rename"
    <2>1. i \in Ids(d) => [d[i] EXCEPT !.name = c.to] \in Row
        BY <1>2, CommandFields, NamedTyped DEF Sound
    <2>2. Sound(Updated(d, i, [d[i] EXCEPT !.name = c.to]))
        BY <2>1, UpdatedSound
    <2>3. QED
        BY <1>2, <2>2 DEF Statement, db_renameinterface
<1>3. CASE c.op = "setalias"
    <2>1. i \in Ids(d) => [d[i] EXCEPT !.alias = c.alias] \in Row
        BY <1>3, CommandFields, NamedTyped DEF Sound
    <2>2. Sound(Updated(d, i, [d[i] EXCEPT !.alias = c.alias]))
        BY <2>1, UpdatedSound
    <2>3. QED
        BY <1>3, <2>2 DEF Statement, db_setalias
<1>4. CASE c.op = "add"
    BY <1>4, CommandFields, AddSound DEF Statement
<1>5. QED
    BY <1>1, <1>2, <1>3, <1>4, CommandFields

(* There are no more rows than names. *)
LEMMA RowsBounded ==
    ASSUME NEW d, Sound(d), UniqueIn(d)
    PROVE  Cardinality(Ids(d)) <= Cardinality(Name)
<1> DEFINE f == [i \in Ids(d) |-> d[i].name]
<1>1. f \in Injection(Ids(d), Name)
    <2>1. f \in [Ids(d) -> Name]
        BY DEF Sound, Row
    <2>2. \A i, j \in Ids(d) : f[i] = f[j] => i = j
        BY DEF UniqueIn
    <2>3. QED
        BY <2>1, <2>2 DEF Injection, IsInjective
<1>2. QED
    BY <1>1, NameAssumption, FS_Injection

-----------------------------------------------------------------------------
(***************************************************************************)
(* What the processes have in hand.                                        *)
(***************************************************************************)
(* A step of one process leaves what the others have in hand. *)
Others(p) ==
    \A q \in Proc \ {p} :
        /\ pc'[q] = pc[q] /\ cmd'[q] = cmd[q] /\ todo'[q] = todo[q]
        /\ ifaceid'[q] = ifaceid[q] /\ srcifinfo'[q] = srcifinfo[q]
        /\ dstifinfo'[q] = dstifinfo[q] /\ datalist'[q] = datalist[q]

LEMMA GoesTyped ==
    ASSUME ProcType, NEW p \in Proc, NEW place \in Places, Goes(p, place)
    PROVE  /\ pc' \in [Proc -> Places] /\ pc'[p] = place
           /\ \A q \in Proc \ {p} : pc'[q] = pc[q]
           /\ UNCHANGED <<cmd, todo, started, saves>>
BY DEF Goes, ProcType

LEMMA ReturnsTyped ==
    ASSUME ProcType, NEW p \in Proc, Returns(p)
    PROVE  /\ ifaceid' \in [Proc -> Nat] /\ srcifinfo' \in [Proc -> Row \cup {NoRow}]
           /\ dstifinfo' \in [Proc -> Row \cup {NoRow}]
           /\ datalist' \in [Proc -> [Tables -> Nat]]
           /\ \A q \in Proc \ {p} :
                 /\ ifaceid'[q] = ifaceid[q] /\ srcifinfo'[q] = srcifinfo[q]
                 /\ dstifinfo'[q] = dstifinfo[q] /\ datalist'[q] = datalist[q]
<1>1. NoData \in [Tables -> Nat]
    BY DEF NoData
<1>2. QED
    BY <1>1 DEF Returns, ProcType

LEMMA EndsTyped ==
    ASSUME ProcType, NEW p \in Proc, Ends(p)
    PROVE  ProcType' /\ pc'[p] = "idle" /\ InHand(p)' /\ Others(p)
<1>1. /\ pc' \in [Proc -> Places] /\ pc'[p] = "idle"
      /\ \A q \in Proc \ {p} : pc'[q] = pc[q]
    BY DEF Ends, ProcType, Places
<1>2. /\ cmd' \in [Proc -> Commands \cup {Idle}]
      /\ \A q \in Proc \ {p} : cmd'[q] = cmd[q]
    BY DEF Ends, ProcType
<1>3. /\ todo' \in [Proc -> SUBSET ((DOMAIN Source) \X Name)]
      /\ \A q \in Proc \ {p} : todo'[q] = todo[q]
    BY DEF Ends, ProcType
<1>4. Returns(p) /\ started' \in 0 .. MaxCommands /\ saves' \in 0 .. MaxSaves
    BY DEF Ends, ProcType
<1>5. InHand(p)'
    BY <1>1 DEF InHand, Handling, Merging
<1>6. QED
    BY <1>1, <1>2, <1>3, <1>4, <1>5, ReturnsTyped DEF ProcType, Others

(* A process that only goes on to where it has in hand what it needs. *)
LEMMA GoesOnly ==
    ASSUME ProcType, NEW p \in Proc, NEW place \in Places, Goes(p, place),
           UNCHANGED <<ifaceid, srcifinfo, dstifinfo>>,
           datalist' \in [Proc -> [Tables -> Nat]],
           \A q \in Proc \ {p} : datalist'[q] = datalist[q],
           place \in Handling => /\ cmd[p] \in Commands
                                 /\ cmd[p].op = "merge" => place \in {"check", "open"} /\ todo[p] # {},
           place \in Merging => todo[p] # {},
           place \in {"dstadd", "dstinfo", "begin", "merge", "commit"} => srcifinfo[p] \in Row,
           place \in {"begin", "merge", "commit"} => dstifinfo[p] \in Row
    PROVE  ProcType' /\ pc'[p] = place /\ InHand(p)' /\ Others(p)
<1>1. /\ pc' \in [Proc -> Places] /\ pc'[p] = place
      /\ \A q \in Proc \ {p} : pc'[q] = pc[q]
      /\ UNCHANGED <<cmd, todo, started, saves>>
    BY GoesTyped
<1>2. ProcType' /\ Others(p)
    BY <1>1 DEF ProcType, Others
<1>3. InHand(p)'
    BY <1>1 DEF InHand, Handling
<1>4. QED
    BY <1>1, <1>2, <1>3

LEMMA HandlersKeep ==
    ASSUME CInv, NEW p \in Proc, handlers(p)
    PROVE  ProcType' /\ InHand(p)' /\ Others(p)
<1>0. ProcType /\ InHand(p)
    BY DEF CInv, PlaceInv
<1>1. ASSUME NEW c \in Commands, Invoke(p, c)
      PROVE  ProcType' /\ InHand(p)' /\ Others(p)
    <2>1. /\ pc' \in [Proc -> Places] /\ pc'[p] = "check"
          /\ \A q \in Proc \ {p} : pc'[q] = pc[q]
        BY <1>0, <1>1 DEF Invoke, ProcType, Places
    <2>2. /\ cmd' \in [Proc -> Commands \cup {Idle}] /\ cmd'[p] = c
          /\ \A q \in Proc \ {p} : cmd'[q] = cmd[q]
        BY <1>0, <1>1 DEF Invoke, ProcType
    <2>3. /\ todo' \in [Proc -> SUBSET ((DOMAIN Source) \X Name)]
          /\ c.op = "merge" => todo'[p] # {}
          /\ \A q \in Proc \ {p} : todo'[q] = todo[q]
        <3> DEFINE ps == IF c.op = "merge" THEN c.pairs ELSE {}
        <3>1. ps \in SUBSET ((DOMAIN Source) \X Name) /\ (c.op = "merge" => ps # {})
            BY CommandFields
        <3>2. todo' = [todo EXCEPT ![p] = ps]
            BY <1>1 DEF Invoke
        <3> HIDE DEF ps
        <3>3. QED
            BY <1>0, <3>1, <3>2 DEF ProcType
    <2>4. UNCHANGED <<ifaceid, srcifinfo, dstifinfo, datalist, saves>>
        BY <1>1 DEF Invoke, locals
    <2>5. started' \in 0 .. MaxCommands
        BY <1>0, <1>1, BoundsAssumption DEF Invoke, ProcType
    <2>6. QED
        BY <1>0, <2>1, <2>2, <2>3, <2>4, <2>5 DEF ProcType, InHand, Others, Merging
<1>2. ASSUME Refused(p) \/ Fails(p) \/ Killed(p)
      PROVE  ProcType' /\ InHand(p)' /\ Others(p)
    BY <1>0, <1>2, EndsTyped DEF Refused, Fails, Killed, Exits
<1>3. ASSUME Accepted(p) \/ AcceptedUnread(p)
      PROVE  ProcType' /\ InHand(p)' /\ Others(p)
    <2>1. pc[p] = "check" /\ Goes(p, "open") /\ UNCHANGED locals
        BY <1>3 DEF Accepted, AcceptedUnread
    <2>2. QED
        BY <1>0, <2>1, GoesOnly DEF InHand, Handling, Merging, Places, locals, ProcType
<1>4. ASSUME Opens(p)
      PROVE  ProcType' /\ InHand(p)' /\ Others(p)
    <2> DEFINE place == CASE cmd[p].op = "add"   -> "exec"
                          [] cmd[p].op = "merge" -> "dstid"
                          [] OTHER               -> "lookup"
    <2>1. pc[p] = "open" /\ Goes(p, place) /\ UNCHANGED locals
        BY <1>4 DEF Opens
    <2>2. /\ place \in {"exec", "dstid", "lookup"}
          /\ place = "dstid" <=> cmd[p].op = "merge"
        OBVIOUS
    <2> HIDE DEF place
    <2>3. QED
        BY <1>0, <2>1, <2>2, GoesOnly DEF InHand, Handling, Merging, Places, locals, ProcType
<1>5. ASSUME LooksUp(p)
      PROVE  ProcType' /\ InHand(p)' /\ Others(p)
    <2>1. /\ pc' \in [Proc -> Places] /\ pc'[p] = "exec" /\ pc[p] = "lookup"
          /\ \A q \in Proc \ {p} : pc'[q] = pc[q]
          /\ UNCHANGED <<cmd, todo, started, saves, srcifinfo, dstifinfo, datalist>>
        BY <1>0, <1>5, GoesTyped DEF LooksUp, Places
    <2>2. db_getinterfaceid(db, cmd[p].name) \in Nat
        BY <1>5, Found, IdsArePositive DEF LooksUp, CInv, DbInv
    <2>3. ifaceid' = [ifaceid EXCEPT ![p] = db_getinterfaceid(db, cmd[p].name)]
        BY <1>5 DEF LooksUp
    <2>4. ifaceid' \in [Proc -> Nat] /\ \A q \in Proc \ {p} : ifaceid'[q] = ifaceid[q]
        BY <1>0, <2>2, <2>3 DEF ProcType
    <2>5. QED
        BY <1>0, <2>1, <2>4 DEF ProcType, InHand, Others, Handling, Merging
<1>6. ASSUME NEW now \in Times, Executes(p, now)
      PROVE  ProcType' /\ InHand(p)' /\ Others(p)
    <2>1. CASE Ends(p)
        BY <1>0, <2>1, EndsTyped
    <2>2. CASE cmd[p].op = "add" /\ cmd[p].alias # Unset
        <3> DEFINE c == [op |-> "setalias", name |-> cmd[p].name, alias |-> cmd[p].alias]
        <3>1. cmd[p] \in Commands
            BY <1>0, <1>6 DEF Executes, InHand, Handling
        <3>2. cmd[p].name \in Name /\ cmd[p].alias \in Alias
            BY <2>2, <3>1, CommandFields
        <3>3. c \in Commands /\ c.op = "setalias"
            BY <3>2 DEF Commands
        <3>4. /\ pc' = [pc EXCEPT ![p] = "check"] /\ cmd' = [cmd EXCEPT ![p] = c]
              /\ UNCHANGED <<todo, ifaceid, srcifinfo, dstifinfo, datalist, started, saves>>
            BY <1>6, <2>2 DEF Executes, locals
        <3> HIDE DEF c
        <3>5. /\ pc' \in [Proc -> Places] /\ pc'[p] = "check"
              /\ \A q \in Proc \ {p} : pc'[q] = pc[q]
              /\ cmd' \in [Proc -> Commands \cup {Idle}] /\ cmd'[p] = c
              /\ \A q \in Proc \ {p} : cmd'[q] = cmd[q]
            BY <1>0, <3>3, <3>4 DEF ProcType, Places
        <3>6. QED
            BY <1>0, <3>3, <3>4, <3>5 DEF ProcType, InHand, Others, Merging
    <2>3. QED
        BY <1>6, <2>1, <2>2 DEF Executes
<1>7. QED
    BY <1>1, <1>2, <1>3, <1>4, <1>5, <1>6 DEF handlers

(* The pair that a merge is about, and the row it comes from. *)
LEMMA PairTyped ==
    ASSUME ProcType, NEW p \in Proc, todo[p] # {}
    PROVE  /\ Pair(p) \in todo[p] /\ Dst(p) \in Name /\ Src(p) \in Row
           /\ Src(p).counter # 0 => Src(p).counter = Src(p).updated
           /\ \A t \in Tables : Src(p).total = Src(p).data[t]
           /\ \E n \in DOMAIN Source : Src(p) = Source[n]
<1>1. Pair(p) \in todo[p]
    BY DEF Pair
<1>2. Pair(p) \in (DOMAIN Source) \X Name
    BY <1>1 DEF ProcType
<1>3. QED
    BY <1>1, <1>2, SourceAssumption DEF Src, Dst

(* What a query of one row has set the structure to. *)
LEMMA InfoTyped ==
    ASSUME NEW row \in Row, NEW info \in db_getinterfaceinfo(row)
    PROVE  info \in Row
BY GarbageAssumption DEF db_getinterfaceinfo

LEMMA DataTyped ==
    ASSUME NEW src \in Row, NEW read \in db_getdata(src)
    PROVE  read \in [Tables -> Nat] /\ read \in [Tables -> 0 .. src.total]
<1>1. 0 .. src.total \subseteq Nat
    BY DEF Row
<1>2. QED
    BY <1>1 DEF db_getdata

LEMMA MergeKeeps ==
    ASSUME CInv, NEW p \in Proc, mergeinterface(p)
    PROVE  ProcType' /\ InHand(p)' /\ Others(p)
<1>0. ProcType /\ InHand(p) /\ Sound(db)
    BY DEF CInv, PlaceInv, DbInv
<1>1. ASSUME NEW id \in Nat, NEW place \in {"dstadd", "dstinfo"},
             pc[p] \in {"dstid", "dstadd"}, Goes(p, place), NEW info \in Row,
             ifaceid' = [ifaceid EXCEPT ![p] = id],
             srcifinfo' = [srcifinfo EXCEPT ![p] = info], UNCHANGED <<dstifinfo, datalist>>
      PROVE  ProcType' /\ InHand(p)' /\ Others(p)
    <2>1. /\ pc' \in [Proc -> Places] /\ pc'[p] = place
          /\ \A q \in Proc \ {p} : pc'[q] = pc[q]
          /\ UNCHANGED <<cmd, todo, started, saves, dstifinfo, datalist>>
        BY <1>0, <1>1, GoesTyped DEF Places
    <2>2. ifaceid' \in [Proc -> Nat] /\ \A q \in Proc \ {p} : ifaceid'[q] = ifaceid[q]
        BY <1>0, <1>1 DEF ProcType
    <2>3. /\ srcifinfo' \in [Proc -> Row \cup {NoRow}] /\ srcifinfo'[p] \in Row
          /\ \A q \in Proc \ {p} : srcifinfo'[q] = srcifinfo[q]
        BY <1>0, <1>1 DEF ProcType
    <2>4. QED
        BY <1>0, <1>1, <2>1, <2>2, <2>3 DEF ProcType, InHand, Others, Handling, Merging
<1>2. ASSUME FindsDestination(p)
      PROVE  ProcType' /\ InHand(p)' /\ Others(p)
    <2>1. db_getinterfaceid(db, Dst(p)) \in Nat
        BY <1>0, Found, IdsArePositive
    <2>2. \E place \in {"dstadd", "dstinfo"} : Goes(p, place)
        BY <1>2 DEF FindsDestination
    <2>3. Src(p) \in Row
        BY <1>0, <1>2, PairTyped DEF FindsDestination, InHand, Merging
    <2>4. PICK info \in db_getinterfaceinfo(Src(p)) :
             srcifinfo' = [srcifinfo EXCEPT ![p] = info]
        BY <1>2 DEF FindsDestination
    <2>5. info \in Row
        BY <2>3, InfoTyped
    <2>6. QED
        BY <1>1, <1>2, <2>1, <2>2, <2>4, <2>5 DEF FindsDestination
<1>3. ASSUME NEW now \in Times, AddsDestination(p, now)
      PROVE  ProcType' /\ InHand(p)' /\ Others(p)
    <2>1. /\ pc[p] = "dstadd" /\ Goes(p, "dstinfo") /\ srcifinfo[p] \in Row
          /\ UNCHANGED <<srcifinfo, dstifinfo, datalist>>
          /\ ifaceid' = [ifaceid EXCEPT ![p] = NewId(db)]
        BY <1>0, <1>3 DEF AddsDestination, InHand
    <2>2. srcifinfo' = [srcifinfo EXCEPT ![p] = srcifinfo[p]]
        BY <1>0, <2>1 DEF ProcType
    <2>3. QED
        BY <1>0, <1>1, <2>1, <2>2, NewIdIsNew
<1>4. ASSUME ReadsDestination(p)
      PROVE  ProcType' /\ InHand(p)' /\ Others(p)
    <2>1. /\ pc' \in [Proc -> Places] /\ pc'[p] = "begin" /\ pc[p] = "dstinfo"
          /\ \A q \in Proc \ {p} : pc'[q] = pc[q]
          /\ UNCHANGED <<cmd, todo, started, saves, ifaceid, srcifinfo, datalist>>
        BY <1>0, <1>4, GoesTyped DEF ReadsDestination, Places
    <2>2. db[db_getinterfaceid(db, Dst(p))] \in Row
        BY <1>0, <1>4, Found DEF ReadsDestination, Sound
    <2>3. PICK info \in db_getinterfaceinfo(db[db_getinterfaceid(db, Dst(p))]) :
             dstifinfo' = [dstifinfo EXCEPT ![p] = info]
        BY <1>4 DEF ReadsDestination
    <2>4. info \in Row
        BY <2>2, InfoTyped
    <2>5. /\ dstifinfo' \in [Proc -> Row \cup {NoRow}] /\ dstifinfo'[p] \in Row
          /\ \A q \in Proc \ {p} : dstifinfo'[q] = dstifinfo[q]
        BY <1>0, <2>3, <2>4 DEF ProcType
    <2>6. QED
        BY <1>0, <2>1, <2>5 DEF ProcType, InHand, Others, Handling, Merging
<1>5. ASSUME db_begintransaction(p) \/ SourceUnreadable(p) \/ Merges(p)
      PROVE  ProcType' /\ InHand(p)' /\ Others(p)
    <2>1. /\ \E place \in {"merge", "commit", "close"} : Goes(p, place)
          /\ pc[p] \in {"begin", "merge"}
          /\ UNCHANGED <<ifaceid, srcifinfo, dstifinfo>>
        BY <1>5 DEF db_begintransaction, Merges, SourceUnreadable, locals
    <2>2. \/ UNCHANGED datalist
          \/ \E read \in db_getdata(Src(p)) : datalist' = [datalist EXCEPT ![p] = read]
        BY <1>5 DEF db_begintransaction, Merges, SourceUnreadable, locals
    <2>3. Src(p) \in Row
        BY <1>0, <2>1, PairTyped DEF InHand, Merging
    <2>4. /\ datalist' \in [Proc -> [Tables -> Nat]]
          /\ \A q \in Proc \ {p} : datalist'[q] = datalist[q]
        BY <1>0, <2>2, <2>3, DataTyped DEF ProcType
    <2>5. QED
        BY <1>0, <2>1, <2>4, GoesOnly DEF InHand, Handling, Merging, Places
<1>6. ASSUME MergeFails(p) \/ Closes(p) \/ CommitFails(p)
      PROVE  ProcType' /\ InHand(p)' /\ Others(p)
    BY <1>0, <1>6, EndsTyped DEF MergeFails, Closes, CommitFails
<1>7. ASSUME db_committransaction(p)
      PROVE  ProcType' /\ InHand(p)' /\ Others(p)
    <2>1. CASE todo[p] = {Pair(p)}
        BY <1>0, <1>7, <2>1, EndsTyped DEF db_committransaction
    <2>2. CASE todo[p] # {Pair(p)}
        <3>1. /\ pc[p] = "commit"
              /\ todo' = [todo EXCEPT ![p] = @ \ {Pair(p)}]
              /\ pc' = [pc EXCEPT ![p] = "dstid"]
              /\ Returns(p)
              /\ UNCHANGED <<cmd, started, saves>>
            BY <1>7, <2>2 DEF db_committransaction
        <3>2. /\ pc' \in [Proc -> Places] /\ pc'[p] = "dstid"
              /\ \A q \in Proc \ {p} : pc'[q] = pc[q]
            BY <1>0, <3>1 DEF ProcType, Places
        <3>3. /\ todo' \in [Proc -> SUBSET ((DOMAIN Source) \X Name)]
              /\ todo'[p] = todo[p] \ {Pair(p)}
              /\ \A q \in Proc \ {p} : todo'[q] = todo[q]
            BY <1>0, <3>1 DEF ProcType
        <3>4. todo'[p] # {}
            BY <1>0, <2>2, <3>1, <3>3, PairTyped DEF InHand, Merging
        <3>5. QED
            BY <1>0, <3>1, <3>2, <3>3, <3>4, ReturnsTyped
               DEF ProcType, InHand, Others, Handling, Merging
    <2>3. QED
        BY <2>1, <2>2
<1>8. QED
    BY <1>2, <1>3, <1>4, <1>5, <1>6, <1>7 DEF mergeinterface

Daemon == \E now \in Times : \/ \E n \in Name : DaemonAdds(n, now)
                             \/ \E i \in Ids(db) : DaemonSaves(i, now)

LEMMA DaemonKeeps ==
    ASSUME CInv, Daemon
    PROVE  ProcType' /\ UNCHANGED procvars
<1>1. UNCHANGED <<procvars, started>> /\ saves < MaxSaves /\ saves' = saves + 1
    BY DEF Daemon, DaemonAdds, DaemonSaves
<1>2. saves' \in 0 .. MaxSaves
    BY <1>1, BoundsAssumption DEF CInv, ProcType
<1>3. QED
    BY <1>1, <1>2 DEF CInv, ProcType, procvars, locals

LEMMA StepIs ==
    ASSUME Next
    PROVE  Daemon \/ \E p \in Proc : handlers(p) \/ mergeinterface(p)
BY DEF Next, Daemon

LEMMA PlaceNext == CInv /\ [Next]_vars => ProcType' /\ PlaceInv'
<1> SUFFICES ASSUME CInv, [Next]_vars PROVE ProcType' /\ PlaceInv'
    OBVIOUS
<1>1. ASSUME NEW p \in Proc, handlers(p) \/ mergeinterface(p)
      PROVE  ProcType' /\ PlaceInv'
    <2>1. ProcType' /\ InHand(p)' /\ Others(p)
        BY <1>1, HandlersKeep, MergeKeeps
    <2>2. ASSUME NEW q \in Proc \ {p} PROVE InHand(q)'
        BY <2>1 DEF Others, InHand, CInv, PlaceInv
    <2>3. QED
        BY <2>1, <2>2 DEF PlaceInv
<1>2. CASE Daemon
    BY <1>2, DaemonKeeps DEF CInv, PlaceInv, InHand, procvars, locals
<1>3. CASE UNCHANGED vars
    BY <1>3 DEF vars, procvars, locals, CInv, ProcType, PlaceInv, InHand
<1>4. QED
    BY <1>1, <1>2, <1>3, StepIs

-----------------------------------------------------------------------------
(***************************************************************************)
(* Who writes the database, and when.                                      *)
(***************************************************************************)
Locked == {"merge", "commit", "close"}

(* One row changes: it is added empty, or removed, or keeps its traffic,   *)
(* its counter, and either its name or its alias.                          *)
OneRow(d) ==
    \E k \in Nat :
        /\ \A j \in Ids(db) \ {k} : j \in Ids(d) /\ d[j] = db[j]
        /\ Ids(d) \subseteq Ids(db) \cup {k}
        /\ k \in Ids(d) /\ k \in Ids(db) =>
              /\ d[k].total = db[k].total /\ d[k].data = db[k].data
              /\ d[k].counter = db[k].counter /\ d[k].updated = db[k].updated
              /\ d[k].name = db[k].name \/ d[k].alias = db[k].alias
        /\ k \in Ids(d) /\ k \notin Ids(db) =>
              /\ d[k].alias = NoAlias /\ d[k].total = 0 /\ d[k].counter = 0
              /\ d[k].data = [t \in Tables |-> 0]

LEMMA AddsOneRow ==
    ASSUME Sound(db), NEW n \in Name, NEW now \in Times
    PROVE  OneRow(db_addinterface(db, n, now))
<1> DEFINE d == db_addinterface(db, n, now)
           k == NewId(db)
<1>1. /\ Ids(d) = Ids(db) \cup {k} /\ k \notin Ids(db) /\ k \in Nat
      /\ \A j \in Ids(db) : d[j] = db[j]
      /\ d[k] = NewRow(n, now)
    BY AddSound, NewIdIsNew
<1>2. /\ d[k].alias = NoAlias /\ d[k].total = 0 /\ d[k].counter = 0
      /\ d[k].data = [t \in Tables |-> 0]
    BY <1>1, NewRowTyped
<1> HIDE DEF d, k
<1>3. OneRow(d)
    BY <1>1, <1>2 DEF OneRow
<1>4. QED
    BY <1>3 DEF d

LEMMA UpdatesOneRow ==
    ASSUME Sound(db), NEW i \in Nat, NEW row,
           i \in Ids(db) => /\ row \in Row
                            /\ row.total = db[i].total /\ row.data = db[i].data
                            /\ row.counter = db[i].counter /\ row.updated = db[i].updated
                            /\ row.name = db[i].name \/ row.alias = db[i].alias
    PROVE  OneRow(Updated(db, i, row))
<1> DEFINE d == Updated(db, i, row)
<1>1. Ids(d) = Ids(db) /\ \A j \in Ids(db) : d[j] = IF j = i THEN row ELSE db[j]
    BY UpdatedSound
<1> HIDE DEF d
<1>2. OneRow(d)
    BY <1>1 DEF OneRow
<1>3. QED
    BY <1>2 DEF d

LEMMA StatementOneRow ==
    ASSUME Sound(db), NEW c \in Commands, c.op # "merge", NEW i \in Nat, NEW now \in Times
    PROVE  OneRow(Statement(c, db, i, now))
<1>0. \A j \in Ids(db) : db[j] \in Row
    BY DEF Sound
<1>1. CASE c.op = "remove"
    <2> DEFINE d == db_removeinterface(db, i)
    <2>1. Ids(d) = Ids(db) \ {i} /\ \A j \in Ids(db) \ {i} : d[j] = db[j]
        BY RemoveSound
    <2> HIDE DEF d
    <2>2. OneRow(d)
        BY <2>1 DEF OneRow
    <2>3. QED
        BY <1>1, <2>2 DEF Statement, d
<1>2. CASE c.op = "rename"
    <2> DEFINE row == [db[i] EXCEPT !.name = c.to]
    <2>1. i \in Ids(db) => /\ row \in Row
                           /\ row.counter = db[i].counter /\ row.updated = db[i].updated
                           /\ row.total = db[i].total /\ row.data = db[i].data
                           /\ row.alias = db[i].alias
        BY <1>0, <1>2, CommandFields, NamedTyped
    <2> HIDE DEF row
    <2>2. OneRow(Updated(db, i, row))
        BY <2>1, UpdatesOneRow
    <2>3. QED
        BY <1>2, <2>2 DEF Statement, db_renameinterface, row
<1>3. CASE c.op = "setalias"
    <2> DEFINE row == [db[i] EXCEPT !.alias = c.alias]
    <2>1. i \in Ids(db) => /\ row \in Row
                           /\ row.counter = db[i].counter /\ row.updated = db[i].updated
                           /\ row.total = db[i].total /\ row.data = db[i].data
                           /\ row.name = db[i].name
        BY <1>0, <1>3, CommandFields, NamedTyped
    <2> HIDE DEF row
    <2>2. OneRow(Updated(db, i, row))
        BY <2>1, UpdatesOneRow
    <2>3. QED
        BY <1>3, <2>2 DEF Statement, db_setalias, row
<1>4. CASE c.op = "add"
    BY <1>4, CommandFields, AddsOneRow DEF Statement
<1>5. QED
    BY <1>1, <1>2, <1>3, <1>4, CommandFields

(* A step outside any transaction. *)
Free(p) == pc[p] \notin Locked /\ pc'[p] \notin Locked

Stores == \E d : Sound(d) /\ OneRow(d) /\ Autocommits(d)

LEMMA ExecutesStores ==
    ASSUME CInv, NEW p \in Proc, NEW now \in Times, Executes(p, now)
    PROVE  Stores /\ Free(p)
<1>1. /\ pc[p] = "exec" /\ cmd[p] \in Commands /\ cmd[p].op # "merge"
      /\ pc \in [Proc -> Places]
    BY DEF Executes, CInv, PlaceInv, InHand, Handling, ProcType
<1>2. /\ Sound(Statement(cmd[p], db, ifaceid[p], now))
      /\ OneRow(Statement(cmd[p], db, ifaceid[p], now))
    BY <1>1, StatementSound, StatementOneRow DEF CInv, DbInv, ProcType
<1>3. Stores
    BY <1>2 DEF Executes, Stores
<1>4. pc'[p] \in {"check", "idle"}
    BY <1>1 DEF Executes, Ends
<1>5. QED
    BY <1>1, <1>3, <1>4 DEF Free, Locked

LEMMA AddsStores ==
    ASSUME CInv, NEW now \in Times
    PROVE  /\ \A p \in Proc : AddsDestination(p, now) => Stores /\ Free(p)
           /\ \A n \in Name : DaemonAdds(n, now) => Stores
<1>1. ASSUME NEW n \in Name
      PROVE  Sound(db_addinterface(db, n, now)) /\ OneRow(db_addinterface(db, n, now))
    BY AddSound, AddsOneRow DEF CInv, DbInv
<1>2. ASSUME NEW p \in Proc, AddsDestination(p, now) PROVE Stores /\ Free(p)
    <2>1. pc[p] = "dstadd" /\ pc'[p] = "dstinfo" /\ Dst(p) \in Name
        BY <1>2, PairTyped, GoesTyped
           DEF AddsDestination, CInv, PlaceInv, InHand, Merging, Places
    <2>2. Stores
        BY <1>1, <1>2, <2>1 DEF AddsDestination, Stores
    <2>3. QED
        BY <2>1, <2>2 DEF Free, Locked
<1>3. ASSUME NEW n \in Name, DaemonAdds(n, now) PROVE Stores
    BY <1>1, <1>3 DEF DaemonAdds, Stores
<1>4. QED
    BY <1>2, <1>3

LEMMA Effects ==
    ASSUME CInv, NEW p \in Proc, handlers(p) \/ mergeinterface(p)
    PROVE  \/ Stores /\ Free(p)
           \/ UNCHANGED <<dbvars, history>> /\ Free(p)
           \/ db_begintransaction(p) /\ pc[p] = "begin" /\ pc'[p] = "merge"
           \/ Merges(p) /\ pc[p] = "merge" /\ pc'[p] = "commit"
           \/ SourceUnreadable(p) /\ pc[p] = "merge" /\ pc'[p] = "close"
           \/ RollsBack(p) /\ pc[p] \in Locked /\ pc'[p] = "idle"
           \/ db_committransaction(p) /\ pc[p] = "commit" /\ pc'[p] \notin Locked
<1>0. pc \in [Proc -> Places] /\ ProcType /\ (lock = p <=> pc[p] \in Locked)
    BY DEF CInv, ProcType, LockInv, Locked
<1>1. ASSUME \/ \E c \in Commands : Invoke(p, c)
             \/ Refused(p) \/ Accepted(p) \/ AcceptedUnread(p) \/ Opens(p)
             \/ LooksUp(p) \/ Fails(p) \/ FindsDestination(p) \/ ReadsDestination(p)
      PROVE  UNCHANGED <<dbvars, history>> /\ Free(p)
    <2>1. UNCHANGED <<dbvars, history>>
        BY <1>1 DEF Invoke, Refused, Accepted, AcceptedUnread, Opens, LooksUp, Fails,
                    FindsDestination, ReadsDestination, Exits
    <2>2. pc[p] \notin Locked
        BY <1>1 DEF Invoke, Refused, Accepted, AcceptedUnread, Opens, LooksUp, Fails,
                    FindsDestination, ReadsDestination, Locked
    <2>3. \E place \in Places \ Locked : pc' = [pc EXCEPT ![p] = place]
        BY <1>1 DEF Invoke, Refused, Accepted, AcceptedUnread, Opens, LooksUp, Fails,
                    FindsDestination, ReadsDestination, Exits, Ends, Goes, Locked, Places
    <2>4. QED
        BY <1>0, <2>1, <2>2, <2>3 DEF Free
<1>2. CASE Killed(p)
    <2>1. pc'[p] = "idle"
        BY <1>0, <1>2 DEF Killed, Ends
    <2>2. CASE lock = p
        BY <1>0, <1>2, <2>1, <2>2 DEF Killed, RollsBack
    <2>3. CASE lock # p
        BY <1>0, <1>2, <2>1, <2>3 DEF Killed, Free, Locked, dbvars
    <2>4. QED
        BY <2>2, <2>3
<1>3. CASE MergeFails(p) \/ Closes(p) \/ CommitFails(p)
    BY <1>0, <1>3 DEF MergeFails, Closes, CommitFails, Ends, Locked
<1>4. CASE db_begintransaction(p) \/ Merges(p) \/ SourceUnreadable(p)
    BY <1>0, <1>4 DEF db_begintransaction, Merges, SourceUnreadable, Goes
<1>5. CASE db_committransaction(p)
    BY <1>0, <1>5 DEF db_committransaction, Ends, Locked
<1>6. QED
    BY <1>1, <1>2, <1>3, <1>4, <1>5, ExecutesStores, AddsStores
       DEF handlers, mergeinterface

LEMMA DaemonEffects ==
    ASSUME CInv, Daemon
    PROVE  /\ UNCHANGED procvars
           /\ \/ Stores
              \/ \E i \in Ids(db), now \in Times : DaemonSaves(i, now)
BY DaemonKeeps, AddsStores DEF Daemon

LEMMA LockNext == CInv /\ [Next]_vars => LockInv'
<1> SUFFICES ASSUME CInv, [Next]_vars PROVE LockInv'
    OBVIOUS
<1>0. /\ lock \in Proc \cup {Nobody} /\ Nobody \notin Proc
      /\ \A p \in Proc : lock = p <=> pc[p] \in Locked
    BY NobodyAssumption DEF CInv, LockInv, Locked
<1>1. ASSUME NEW p \in Proc, handlers(p) \/ mergeinterface(p) PROVE LockInv'
    <2>1. \A q \in Proc \ {p} : pc'[q] = pc[q]
        BY <1>1, HandlersKeep, MergeKeeps DEF Others
    <2>2. CASE lock' = lock /\ (pc[p] \in Locked <=> pc'[p] \in Locked)
        BY <1>0, <2>1, <2>2 DEF LockInv, Locked
    <2>3. CASE lock' = Nobody /\ pc[p] \in Locked /\ pc'[p] \notin Locked
        BY <1>0, <2>1, <2>3 DEF LockInv, Locked
    <2>4. CASE db_begintransaction(p) /\ pc[p] = "begin" /\ pc'[p] = "merge"
        BY <1>0, <2>1, <2>4 DEF LockInv, Locked, db_begintransaction
    <2>5. QED
        BY <1>1, <2>2, <2>3, <2>4, Effects
           DEF Stores, Free, Autocommits, dbvars, Merges, SourceUnreadable, RollsBack,
               db_committransaction, Locked
<1>2. CASE Daemon
    <2>1. lock' = lock /\ pc' = pc
        BY <1>2, DaemonEffects DEF Stores, Autocommits, DaemonSaves, procvars
    <2>2. QED
        BY <1>0, <2>1 DEF LockInv, Locked
<1>3. CASE UNCHANGED vars
    BY <1>0, <1>3 DEF vars, dbvars, procvars, LockInv, Locked
<1>4. QED
    BY <1>1, <1>2, <1>3, StepIs

(* A row to which the daemon has saved. *)
LEMMA SavedTyped ==
    ASSUME NEW row \in Row, NEW now \in Times
    PROVE  /\ Saved(row, now) \in Row /\ Saved(row, now).counter = Saved(row, now).updated
           /\ Saved(row, now).name = row.name /\ Saved(row, now).alias = row.alias
           /\ Saved(row, now).total = row.total + 1
           /\ Saved(row, now).data = [t \in Tables |-> row.data[t] + 1]
<1>1. /\ [t \in Tables |-> row.data[t] + 1] \in [Tables -> Nat]
      /\ row.total + 1 \in Nat /\ now \in Nat
    BY BoundsAssumption DEF Row
<1>2. QED
    BY <1>1 DEF Saved, Row

(* What a merge makes of the database, row by row. *)
Result(p) == Merged(db, p, datalist[p])

MergedFrom(p, j) ==
    IF j = db_getinterfaceid(db, Dst(p)) /\ TakesCounters(srcifinfo[p], dstifinfo[p])
    THEN srcifinfo[p] ELSE db[j]

LEMMA MergedRows ==
    ASSUME CInv, NEW p \in Proc, pc[p] = "commit",
           db_getinterfaceid(db, Dst(p)) # 0, ifaceid[p] \in Ids(db)
    PROVE  /\ Sound(Result(p)) /\ Ids(Result(p)) = Ids(db)
           /\ \A j \in Ids(db) :
                 /\ Result(p)[j].name = db[j].name
                 /\ Result(p)[j].total = IF j = db_getinterfaceid(db, Dst(p))
                                         THEN srcifinfo[p].total + dstifinfo[p].total
                                         ELSE db[j].total
                 /\ Result(p)[j].data = IF j = ifaceid[p]
                                        THEN [t \in Tables |-> db[j].data[t] + datalist[p][t]]
                                        ELSE db[j].data
                 /\ Result(p)[j].counter = MergedFrom(p, j).counter
                 /\ Result(p)[j].updated = MergedFrom(p, j).updated
                 /\ j # db_getinterfaceid(db, Dst(p)) => Result(p)[j].alias = db[j].alias
<1> DEFINE i == db_getinterfaceid(db, Dst(p))
           src == srcifinfo[p]
           dst == dstifinfo[p]
           read == datalist[p]
           d == [db EXCEPT ![i] = MergedRow(@, src, dst)]
           m == [d EXCEPT ![ifaceid[p]] = mergedata(@, read)]
           from(j) == MergedFrom(p, j)
<1>1. /\ ProcType /\ Sound(db) /\ src \in Row /\ dst \in Row /\ i \in Ids(db)
      /\ read \in [Tables -> Nat]
    BY Found DEF CInv, DbInv, PlaceInv, InHand, ProcType
<1>2. \A j \in Ids(db) : db[j] \in Row
    BY <1>1 DEF Sound
<1>3. /\ Ids(d) = Ids(db)
      /\ \A j \in Ids(db) : d[j] = IF j = i THEN MergedRow(db[j], src, dst) ELSE db[j]
    BY <1>1 DEF Ids
<1>4. /\ Ids(m) = Ids(d)
      /\ \A j \in Ids(d) : m[j] = IF j = ifaceid[p] THEN mergedata(d[j], read) ELSE d[j]
    BY DEF Ids
<1>5. m = Result(p)
    BY DEF Merged, Result
<1>0. \A j : from(j) = IF j = i /\ TakesCounters(src, dst) THEN src ELSE db[j]
    BY DEF MergedFrom
<1> HIDE DEF i, d, m, src, dst, read, from
<1>6. ASSUME NEW j \in Ids(db)
      PROVE  /\ d[j] \in Row /\ d[j].name = db[j].name /\ d[j].data = db[j].data
             /\ d[j].total = IF j = i THEN src.total + dst.total ELSE db[j].total
             /\ d[j].counter = from(j).counter /\ d[j].updated = from(j).updated
             /\ j # i => d[j].alias = db[j].alias
    <2>1. CASE j = i
        <3>1. d[j] = MergedRow(db[j], src, dst) /\ db[j] \in Row
            BY <1>2, <1>3, <2>1
        <3>2. from(j) = IF TakesCounters(src, dst) THEN src ELSE db[j]
            BY <1>0, <2>1
        <3>3. QED
            BY <1>1, <2>1, <3>1, <3>2, MergedRowTyped
    <2>2. CASE j # i
        BY <1>0, <1>2, <1>3, <2>2
    <2>3. QED
        BY <2>1, <2>2
<1>7. \A j \in Ids(db) :
         /\ m[j] \in Row /\ m[j].name = d[j].name /\ m[j].alias = d[j].alias
         /\ m[j].total = d[j].total
         /\ m[j].counter = d[j].counter /\ m[j].updated = d[j].updated
         /\ m[j].data = IF j = ifaceid[p]
                        THEN [t \in Tables |-> d[j].data[t] + read[t]]
                        ELSE d[j].data
    BY <1>1, <1>3, <1>4, <1>6, mergedataTyped
<1>8. Sound(m)
    BY <1>1, <1>3, <1>4, <1>7 DEF Sound
<1>9. ASSUME NEW j \in Ids(db)
      PROVE  /\ m[j].name = db[j].name
             /\ m[j].total = IF j = i THEN src.total + dst.total ELSE db[j].total
             /\ m[j].data = IF j = ifaceid[p]
                            THEN [t \in Tables |-> db[j].data[t] + read[t]]
                            ELSE db[j].data
             /\ m[j].counter = from(j).counter /\ m[j].updated = from(j).updated
             /\ j # i => m[j].alias = db[j].alias
    <2>1. /\ d[j].name = db[j].name /\ d[j].data = db[j].data
          /\ d[j].total = IF j = i THEN src.total + dst.total ELSE db[j].total
          /\ d[j].counter = from(j).counter /\ d[j].updated = from(j).updated
          /\ j # i => d[j].alias = db[j].alias
        BY <1>6
    <2>2. /\ m[j].name = d[j].name /\ m[j].alias = d[j].alias
          /\ m[j].total = d[j].total
          /\ m[j].counter = d[j].counter /\ m[j].updated = d[j].updated
          /\ m[j].data = IF j = ifaceid[p]
                         THEN [t \in Tables |-> d[j].data[t] + read[t]]
                         ELSE d[j].data
        BY <1>7
    <2>3. QED
        BY <2>1, <2>2
<1>10. QED
    BY <1>3, <1>4, <1>5, <1>8, <1>9 DEF i, src, dst, read, from

(* What the daemon makes of the database with a save, row by row. *)
LEMMA SavedRows ==
    ASSUME CInv, NEW i \in Ids(db), NEW now \in Times, DaemonSaves(i, now)
    PROVE  /\ Sound(db)' /\ Ids(db)' = Ids(db)
           /\ \A j \in Ids(db) :
                 /\ db'[j].name = db[j].name /\ db'[j].alias = db[j].alias
                 /\ db'[j].total = db[j].total + IF j = i THEN 1 ELSE 0
                 /\ j = i => db'[j].data = [t \in Tables |-> db[j].data[t] + 1]
                 /\ j # i => db'[j].data = db[j].data
                 /\ j = i => db'[j].counter = db'[j].updated
                 /\ j # i => db'[j] = db[j]
<1> DEFINE r == Saved(db[i], now)
<1>1. Sound(db) /\ \A j \in Ids(db) : db[j] \in Row /\ db[j].total \in Nat
    BY DEF CInv, DbInv, Sound, Row
<1>2. /\ r \in Row /\ r.counter = r.updated /\ r.name = db[i].name /\ r.alias = db[i].alias
      /\ r.total = db[i].total + 1
      /\ r.data = [t \in Tables |-> db[i].data[t] + 1]
    BY <1>1, SavedTyped
<1>3. db' = [db EXCEPT ![i] = r]
    BY DEF DaemonSaves
<1> HIDE DEF r
<1>4. Ids(db)' = Ids(db) /\ db'[i] = r /\ \A j \in Ids(db) \ {i} : db'[j] = db[j]
    BY <1>3 DEF Ids
<1>5. Sound(db)'
    BY <1>1, <1>2, <1>4 DEF Sound
<1>6. ASSUME NEW j \in Ids(db)
      PROVE  /\ db'[j].name = db[j].name /\ db'[j].alias = db[j].alias
             /\ db'[j].total = db[j].total + IF j = i THEN 1 ELSE 0
             /\ j = i => db'[j].data = [t \in Tables |-> db[j].data[t] + 1]
             /\ j # i => db'[j].data = db[j].data
             /\ j = i => db'[j].counter = db'[j].updated
             /\ j # i => db'[j] = db[j]
    <2>1. CASE j = i
        <3>1. db'[j] = r
            BY <1>4, <2>1
        <3>2. QED
            BY <1>2, <2>1, <3>1
    <2>2. CASE j # i
        <3>1. db'[j] = db[j] /\ db[j].total \in Nat
            BY <1>1, <1>4, <2>2
        <3>2. QED
            BY <2>2, <3>1
    <2>3. QED
        BY <2>1, <2>2
<1>7. QED
    BY <1>4, <1>5, <1>6

(* A pair whose merge is not concerned by what others do. *)
LEMMA SamePair ==
    ASSUME NEW q \in Proc, todo'[q] = todo[q], ifaceid'[q] = ifaceid[q],
           srcifinfo'[q] = srcifinfo[q], dstifinfo'[q] = dstifinfo[q], UNCHANGED db
    PROVE  /\ Dst(q)' = Dst(q) /\ Src(q)' = Src(q)
           /\ \A read : Merged(db, q, read)' = Merged(db, q, read)
<1>1. Pair(q)' = Pair(q)
    BY DEF Pair
<1>2. Dst(q)' = Dst(q) /\ Src(q)' = Src(q)
    BY <1>1 DEF Dst, Src
<1>3. QED
    BY <1>2 DEF Merged, db_getinterfaceid, IdOf, Ids

LEMMA DbNext == CInv /\ [Next]_vars => DbInv'
<1> SUFFICES ASSUME CInv, [Next]_vars PROVE DbInv'
    OBVIOUS
<1>0. Sound(db) /\ UniqueIn(db) /\ flawed \cup garbled \subseteq Ids(db)
    BY DEF CInv, DbInv
<1>1. ASSUME UNCHANGED <<db, history>> PROVE DbInv'
    BY <1>0, <1>1 DEF DbInv, Sound, UniqueIn, Ids, history
<1>2. ASSUME Stores PROVE DbInv'
    <2>1. PICK d : Sound(d) /\ Autocommits(d)
        BY <1>2 DEF Stores
    <2>2. /\ db' = d /\ UniqueIn(d)
          /\ flawed' = flawed \cap Ids(d) /\ garbled' = garbled \cap Ids(d)
        BY <2>1 DEF Autocommits
    <2>3. Sound(db)' /\ UniqueIn(db)' /\ Ids(db)' = Ids(d)
        BY <2>1, <2>2 DEF Sound, UniqueIn, Ids
    <2>4. QED
        BY <2>2, <2>3 DEF DbInv
<1>3. ASSUME NEW i \in Ids(db), NEW now \in Times, DaemonSaves(i, now) PROVE DbInv'
    <2>1. /\ Sound(db)' /\ Ids(db)' = Ids(db)
          /\ \A j \in Ids(db) : db'[j].name = db[j].name
        BY <1>3, SavedRows
    <2>2. UniqueIn(db)'
        BY <1>0, <2>1 DEF UniqueIn
    <2>3. UNCHANGED <<flawed, garbled>>
        BY <1>3 DEF DaemonSaves, history
    <2>4. QED
        BY <1>0, <2>1, <2>2, <2>3 DEF DbInv
<1>4. ASSUME NEW p \in Proc, pc[p] = "commit", db_committransaction(p) PROVE DbInv'
    <2>1. /\ db_getinterfaceid(db, Dst(p)) # 0 /\ ifaceid[p] \in Ids(db) /\ txn = Result(p)
        BY <1>4 DEF CInv, TxnInv, Result
    <2>2. /\ Sound(txn) /\ Ids(txn) = Ids(db)
          /\ \A j \in Ids(db) : txn[j].name = db[j].name
        BY <1>4, <2>1, MergedRows
    <2>3. db' = txn
        BY <1>4 DEF db_committransaction
    <2>4. Sound(db)' /\ Ids(db)' = Ids(db) /\ \A j \in Ids(db) : db'[j].name = db[j].name
        BY <2>2, <2>3 DEF Sound, Ids
    <2>5. UniqueIn(db)'
        BY <1>0, <2>4 DEF UniqueIn
    <2>6. /\ flawed' = flawed \cup
                UNION {{i, ifaceid[p]} : i \in {j \in IdOf(db, Dst(p)) : ~Whole(p, j)}}
          /\ garbled' = garbled \cup {i \in IdOf(db, Dst(p)) : Garbles(p)}
        BY <1>4 DEF db_committransaction
    <2>7. flawed' \cup garbled' \subseteq Ids(db)
        BY <1>0, <2>1, <2>6 DEF IdOf
    <2>8. QED
        BY <2>4, <2>5, <2>7 DEF DbInv
<1>5. ASSUME NEW p \in Proc, handlers(p) \/ mergeinterface(p) PROVE DbInv'
    BY <1>1, <1>2, <1>4, <1>5, Effects
       DEF dbvars, db_begintransaction, Merges, SourceUnreadable, RollsBack, history
<1>6. CASE Daemon
    BY <1>2, <1>3, <1>6, DaemonEffects
<1>7. CASE UNCHANGED vars
    BY <1>1, <1>7 DEF vars, dbvars
<1>8. QED
    BY <1>5, <1>6, <1>7, StepIs

LEMMA TxnNext == CInv /\ [Next]_vars => TxnInv'
<1> SUFFICES ASSUME CInv, [Next]_vars PROVE TxnInv'
    OBVIOUS
<1> DEFINE Own(q) ==
              /\ pc[q] \in {"merge", "close"} => txn = db
              /\ pc[q] = "commit" => /\ db_getinterfaceid(db, Dst(q)) # 0
                                     /\ ifaceid[q] \in Ids(db)
                                     /\ datalist[q] \in db_getdata(Src(q))
                                     /\ txn = Merged(db, q, datalist[q])
<1>0. /\ lock = Nobody => txn = NoTable
      /\ \A q \in Proc : Own(q)
      /\ \A q \in Proc : lock = q <=> pc[q] \in Locked
      /\ Nobody \notin Proc
    BY NobodyAssumption DEF CInv, TxnInv, LockInv, Locked
<1>1. ASSUME UNCHANGED dbvars, NEW q \in Proc, pc'[q] = pc[q], todo'[q] = todo[q],
             ifaceid'[q] = ifaceid[q], srcifinfo'[q] = srcifinfo[q],
             dstifinfo'[q] = dstifinfo[q], datalist'[q] = datalist[q]
      PROVE  Own(q)'
    <2>1. /\ Dst(q)' = Dst(q) /\ Src(q)' = Src(q) /\ db' = db /\ txn' = txn
          /\ Merged(db, q, datalist[q])' = Merged(db, q, datalist[q])
        <3>1. db' = db /\ txn' = txn /\ Pair(q)' = Pair(q)
            BY <1>1 DEF dbvars, Pair
        <3>2. Dst(q)' = Dst(q) /\ Src(q)' = Src(q)
            BY <3>1 DEF Dst, Src
        <3>3. QED
            BY <1>1, <3>1, <3>2 DEF Merged, db_getinterfaceid, IdOf, Ids
    <2>2. db_getinterfaceid(db, Dst(q))' = db_getinterfaceid(db, Dst(q))
        BY <2>1 DEF db_getinterfaceid, IdOf, Ids
    <2>3. Own(q)
        BY <1>0
    <2>4. QED
        BY <1>1, <2>1, <2>2, <2>3 DEF Ids, db_getdata
<1>2. ASSUME NEW q \in Proc, pc'[q] \notin Locked PROVE Own(q)'
    BY <1>2 DEF Locked
<1> HIDE DEF Own
<1>3. ASSUME NEW p \in Proc, handlers(p) \/ mergeinterface(p) PROVE TxnInv'
    <2>1. Others(p)
        BY <1>3, HandlersKeep, MergeKeeps
    <2>2. ASSUME lock \in {p, Nobody}, NEW q \in Proc \ {p} PROVE Own(q)'
        BY <1>0, <1>2, <2>1, <2>2 DEF Others
    <2>3. CASE Stores /\ Free(p)
        <3>1. lock = Nobody /\ UNCHANGED <<lock, txn>>
            BY <2>3 DEF Stores, Autocommits
        <3>2. QED
            BY <1>0, <1>2, <2>2, <2>3, <3>1 DEF TxnInv, Own, Free
    <2>4. CASE UNCHANGED <<dbvars, history>> /\ Free(p)
        <3>1. \A q \in Proc \ {p} : Own(q)'
            BY <1>1, <2>1, <2>4 DEF Others
        <3>2. QED
            BY <1>0, <1>2, <2>4, <3>1 DEF TxnInv, Own, Free, dbvars
    <2>5. CASE db_begintransaction(p) /\ pc[p] = "begin" /\ pc'[p] = "merge"
        <3>1. lock = Nobody /\ lock' = p /\ txn' = db /\ db' = db
            BY <2>5 DEF db_begintransaction
        <3>2. Own(p)'
            BY <2>5, <3>1 DEF Own
        <3>3. QED
            BY <1>0, <2>2, <3>1, <3>2 DEF TxnInv, Own
    <2>6. CASE Merges(p) /\ pc[p] = "merge" /\ pc'[p] = "commit"
        <3>1. /\ txn = db /\ lock = p /\ lock' = p /\ db' = db
              /\ UNCHANGED <<todo, ifaceid, srcifinfo, dstifinfo>>
            BY <1>0, <2>6 DEF Merges, Goes, Own, Locked
        <3>2. /\ db_getinterfaceid(db, Dst(p)) # 0 /\ ifaceid[p] \in Ids(db)
              /\ datalist'[p] \in db_getdata(Src(p))
              /\ txn' = Merged(db, p, datalist'[p])
            <4>1. PICK read \in db_getdata(Src(p)) :
                     /\ datalist' = [datalist EXCEPT ![p] = read]
                     /\ txn' = Merged(txn, p, read)
                BY <2>6 DEF Merges
            <4>2. datalist'[p] = read
                BY <4>1 DEF CInv, ProcType
            <4>3. QED
                BY <2>6, <3>1, <4>1, <4>2 DEF Merges
        <3>3. /\ Dst(p)' = Dst(p) /\ Src(p)' = Src(p)
              /\ Merged(db, p, datalist[p])' = Merged(db, p, datalist'[p])
            <4>1. Pair(p)' = Pair(p)
                BY <3>1 DEF Pair
            <4>2. Dst(p)' = Dst(p) /\ Src(p)' = Src(p)
                BY <4>1 DEF Dst, Src
            <4>3. QED
                BY <3>1, <4>2 DEF Merged, db_getinterfaceid, IdOf, Ids
        <3>4. db_getinterfaceid(db, Dst(p))' = db_getinterfaceid(db, Dst(p))
            BY <3>1, <3>3 DEF db_getinterfaceid, IdOf, Ids
        <3>5. Own(p)'
            BY <2>6, <3>1, <3>2, <3>3, <3>4 DEF Own, Ids, db_getdata
        <3>6. QED
            BY <1>0, <2>2, <3>1, <3>5 DEF TxnInv, Own
    <2>7. CASE SourceUnreadable(p) /\ pc[p] = "merge" /\ pc'[p] = "close"
        <3>1. txn = db /\ lock = p /\ UNCHANGED dbvars
            BY <1>0, <2>7 DEF SourceUnreadable, Own, Locked
        <3>2. Own(p)'
            BY <2>7, <3>1 DEF Own, dbvars
        <3>3. QED
            BY <1>0, <2>2, <3>1, <3>2 DEF TxnInv, Own, dbvars
    <2>8. CASE /\ lock' = Nobody /\ txn' = NoTable
               /\ pc[p] \in Locked /\ pc'[p] \notin Locked
        <3>1. lock = p
            BY <1>0, <2>8
        <3>2. QED
            BY <1>2, <2>2, <2>8, <3>1 DEF TxnInv, Own
    <2>9. QED
        BY <1>3, <2>3, <2>4, <2>5, <2>6, <2>7, <2>8, Effects
           DEF RollsBack, db_committransaction, Locked
<1>4. CASE Daemon
    <2>1. /\ UNCHANGED procvars
          /\ lock = Nobody /\ UNCHANGED <<lock, txn>>
        BY <1>4, DaemonEffects DEF Stores, Autocommits, DaemonSaves
    <2>2. \A q \in Proc : Own(q)'
        BY <1>0, <1>2, <2>1 DEF procvars
    <2>3. QED
        BY <1>0, <2>1, <2>2 DEF TxnInv, Own
<1>5. CASE UNCHANGED vars
    <2>1. \A q \in Proc : Own(q)'
        BY <1>1, <1>5 DEF vars, procvars, locals
    <2>2. QED
        BY <1>0, <1>5, <2>1 DEF TxnInv, Own, vars, dbvars
<1>6. QED
    BY <1>3, <1>4, <1>5, StepIs

-----------------------------------------------------------------------------
LEMMA CInvInit == Init => CInv
<1> SUFFICES ASSUME Init PROVE CInv
    OBVIOUS
<1>1. Ids(db) = {}
    BY DEF Init, Ids, NoTable
<1>2. Sound(db) /\ UniqueIn(db)
    BY <1>1 DEF Sound, UniqueIn
<1>3. DbInv
    BY <1>2 DEF DbInv, Init
<1>4. ProcType
    <2>1. NoData \in [Tables -> Nat]
        BY DEF NoData
    <2>2. QED
        BY <2>1, BoundsAssumption DEF Init, ProcType, Places
<1>5. PlaceInv
    BY DEF Init, PlaceInv, InHand, Handling, Merging
<1>6. LockInv /\ TxnInv
    BY NobodyAssumption DEF Init, LockInv, TxnInv
<1>7. QED
    BY <1>3, <1>4, <1>5, <1>6 DEF CInv

LEMMA CInvNext == CInv /\ [Next]_vars => CInv'
BY PlaceNext, LockNext, TxnNext, DbNext DEF CInv

LEMMA CInvTypes == CInv => TypeOK
<1> SUFFICES ASSUME CInv PROVE TypeOK
    OBVIOUS
<1>1. Sound(db) /\ UniqueIn(db) /\ flawed \cup garbled \subseteq DOMAIN db
    BY DEF CInv, DbInv, Ids
<1>2. Cardinality(DOMAIN db) <= Cardinality(Name)
    BY <1>1, RowsBounded DEF Ids
<1>3. \A i \in DOMAIN db : i \in Nat \ {0} /\ db[i] \in Row
    BY <1>1 DEF Sound, Ids
<1>4. /\ pc \in [Proc -> Places]
      /\ \A p \in Proc : cmd[p] \in Commands \cup {Idle}
      /\ \A p \in Proc : todo[p] \subseteq (DOMAIN Source) \X Name
      /\ ifaceid \in [Proc -> Nat]
      /\ \A p \in Proc : {srcifinfo[p], dstifinfo[p]} \subseteq Row \cup {NoRow}
      /\ datalist \in [Proc -> [Tables -> Nat]]
      /\ started \in 0 .. MaxCommands
      /\ saves \in 0 .. MaxSaves
    BY DEF CInv, ProcType
<1>5. /\ lock \in Proc \cup {Nobody}
      /\ \A p \in Proc : lock = p <=> pc[p] \in {"merge", "commit", "close"}
    BY DEF CInv, LockInv
<1>6. \A i \in DOMAIN txn : txn[i] \in Row
    <2>1. CASE lock = Nobody
        BY <2>1 DEF CInv, TxnInv, NoTable
    <2>2. ASSUME NEW p \in Proc, lock = p PROVE \A i \in DOMAIN txn : txn[i] \in Row
        <3>1. CASE pc[p] = "commit"
            BY <3>1, MergedRows DEF CInv, TxnInv, Sound, Ids, Result
        <3>2. CASE pc[p] \in {"merge", "close"}
            BY <1>3, <3>2 DEF CInv, TxnInv
        <3>3. QED
            BY <1>5, <2>2, <3>1, <3>2
    <2>3. QED
        BY <1>5, <2>1, <2>2
<1>7. QED
    BY <1>1, <1>2, <1>3, <1>4, <1>5, <1>6 DEF TypeOK

LEMMA CInvHolds == Spec => []CInv
BY CInvInit, CInvNext, PTL DEF Spec

(* Every variable keeps its type: rows keep theirs through every statement *)
(* and merge, there is one row for a name, and the lock of the database is *)
(* held by the process that is in a transaction.                           *)
THEOREM TypeCorrect == Spec => []TypeOK
BY CInvHolds, CInvTypes, PTL

-----------------------------------------------------------------------------
(***************************************************************************)
(* Counters and totals.                                                    *)
(***************************************************************************)
LEMMA CountersNext == CInv /\ CounterIsOfUpdate /\ [Next]_vars => CounterIsOfUpdate'
<1> SUFFICES ASSUME CInv, CounterIsOfUpdate, [Next]_vars PROVE CounterIsOfUpdate'
    OBVIOUS
<1>0. /\ garbled \subseteq Ids(db)
      /\ \A j \in Ids(db) \ garbled : db[j].counter # 0 => db[j].counter = db[j].updated
    BY DEF CInv, DbInv, CounterIsOfUpdate
<1>1. ASSUME UNCHANGED <<db, history>> PROVE CounterIsOfUpdate'
    BY <1>0, <1>1 DEF CounterIsOfUpdate, Ids, history
<1>2. ASSUME Stores PROVE CounterIsOfUpdate'
    <2>1. PICK d : OneRow(d) /\ Autocommits(d)
        BY <1>2 DEF Stores
    <2>2. db' = d /\ garbled' = garbled \cap Ids(d)
        BY <2>1 DEF Autocommits
    <2>3. ASSUME NEW j \in Ids(d) \ garbled
          PROVE  d[j].counter # 0 => d[j].counter = d[j].updated
        <3>1. \/ /\ j \in Ids(db)
                 /\ d[j].counter = db[j].counter /\ d[j].updated = db[j].updated
              \/ j \notin Ids(db) /\ d[j].counter = 0
            BY <2>1 DEF OneRow
        <3>2. QED
            BY <1>0, <2>3, <3>1
    <2>4. QED
        BY <2>2, <2>3 DEF CounterIsOfUpdate, Ids
<1>3. ASSUME NEW i \in Ids(db), NEW now \in Times, DaemonSaves(i, now)
      PROVE  CounterIsOfUpdate'
    <2>1. /\ Ids(db)' = Ids(db)
          /\ \A j \in Ids(db) : /\ j = i => db'[j].counter = db'[j].updated
                                /\ j # i => db'[j] = db[j]
        BY <1>3, SavedRows
    <2>2. garbled' = garbled
        BY <1>3 DEF DaemonSaves, history
    <2>3. QED
        BY <1>0, <2>1, <2>2 DEF CounterIsOfUpdate
<1>4. ASSUME NEW p \in Proc, pc[p] = "commit", db_committransaction(p)
      PROVE  CounterIsOfUpdate'
    <2> DEFINE i == db_getinterfaceid(db, Dst(p))
    <2>1. i # 0 /\ ifaceid[p] \in Ids(db) /\ txn = Result(p) /\ db' = txn
        BY <1>4 DEF CInv, TxnInv, db_committransaction, Result
    <2>2. /\ Ids(db)' = Ids(db)
          /\ \A j \in Ids(db) : /\ db'[j].counter = MergedFrom(p, j).counter
                                /\ db'[j].updated = MergedFrom(p, j).updated
        BY <1>4, <2>1, MergedRows DEF Ids
    <2>3. i \in IdOf(db, Dst(p))
        BY <2>1, Found DEF IdOf
    <2>4. garbled' = garbled \cup {j \in IdOf(db, Dst(p)) : Garbles(p)}
        BY <1>4 DEF db_committransaction
    <2>5. Src(p).counter # 0 => Src(p).counter = Src(p).updated
        BY <1>4, PairTyped DEF CInv, PlaceInv, InHand, Merging
    <2>6. ASSUME NEW j \in Ids(db) \ garbled'
          PROVE  db'[j].counter # 0 => db'[j].counter = db'[j].updated
        <3>1. CASE j = i /\ TakesCounters(srcifinfo[p], dstifinfo[p])
            <4>1. srcifinfo[p] = Src(p)
                BY <2>3, <2>4, <2>6, <3>1 DEF Garbles
            <4>2. MergedFrom(p, j) = Src(p)
                BY <3>1, <4>1 DEF MergedFrom
            <4>3. QED
                BY <2>2, <2>5, <2>6, <4>2
        <3>2. CASE ~ (j = i /\ TakesCounters(srcifinfo[p], dstifinfo[p]))
            <4>1. MergedFrom(p, j) = db[j]
                BY <3>2 DEF MergedFrom
            <4>2. j \in Ids(db) \ garbled
                BY <2>4, <2>6
            <4>3. QED
                BY <1>0, <2>2, <4>1, <4>2
        <3>3. QED
            BY <3>1, <3>2
    <2>7. QED
        BY <2>2, <2>6 DEF CounterIsOfUpdate
<1>5. ASSUME NEW p \in Proc, handlers(p) \/ mergeinterface(p) PROVE CounterIsOfUpdate'
    BY <1>1, <1>2, <1>4, <1>5, Effects
       DEF dbvars, db_begintransaction, Merges, SourceUnreadable, RollsBack
<1>6. CASE Daemon
    BY <1>2, <1>3, <1>6, DaemonEffects
<1>7. CASE UNCHANGED vars
    BY <1>1, <1>7 DEF vars, dbvars
<1>8. QED
    BY <1>5, <1>6, <1>7, StepIs

(* The counter of a row is the one read at its time of update, also after  *)
(* a merge, whatever the two databases held, but for the rows that a merge *)
(* has given both from a row of the source that it had not read.           *)
THEOREM CounterKeptInStep == Spec => []CounterIsOfUpdate
<1>1. Init => CounterIsOfUpdate
    BY DEF Init, CounterIsOfUpdate, Ids, NoTable
<1>2. QED
    BY <1>1, CInvHolds, CountersNext, PTL DEF Spec

LEMMA TotalsNext == CInv /\ TotalIsSumOfData /\ [Next]_vars => TotalIsSumOfData'
<1> SUFFICES ASSUME CInv, TotalIsSumOfData, [Next]_vars PROVE TotalIsSumOfData'
    OBVIOUS
<1>0. /\ flawed \subseteq Ids(db)
      /\ \A j \in Ids(db) \ flawed, t \in Tables : db[j].total = db[j].data[t]
    BY DEF CInv, DbInv, TotalIsSumOfData
<1>1. ASSUME UNCHANGED <<db, history>> PROVE TotalIsSumOfData'
    BY <1>0, <1>1 DEF TotalIsSumOfData, Ids, history
<1>2. ASSUME Stores PROVE TotalIsSumOfData'
    <2>1. PICK d : OneRow(d) /\ Autocommits(d)
        BY <1>2 DEF Stores
    <2>2. db' = d /\ flawed' = flawed \cap Ids(d)
        BY <2>1 DEF Autocommits
    <2>3. ASSUME NEW j \in Ids(d) \ flawed, NEW t \in Tables
          PROVE  d[j].total = d[j].data[t]
        <3>1. \/ j \in Ids(db) /\ d[j].total = db[j].total /\ d[j].data = db[j].data
              \/ j \notin Ids(db) /\ d[j].total = 0 /\ d[j].data = [u \in Tables |-> 0]
            BY <2>1 DEF OneRow
        <3>2. QED
            BY <1>0, <2>3, <3>1
    <2>4. QED
        BY <2>2, <2>3 DEF TotalIsSumOfData, Ids
<1>3. ASSUME NEW i \in Ids(db), NEW now \in Times, DaemonSaves(i, now)
      PROVE  TotalIsSumOfData'
    <2>1. /\ Ids(db)' = Ids(db)
          /\ \A j \in Ids(db) :
                /\ db'[j].total = db[j].total + IF j = i THEN 1 ELSE 0
                /\ j = i => db'[j].data = [t \in Tables |-> db[j].data[t] + 1]
                /\ j # i => db'[j].data = db[j].data
        BY <1>3, SavedRows
    <2>2. flawed' = flawed
        BY <1>3 DEF DaemonSaves, history
    <2>3. ASSUME NEW j \in Ids(db) \ flawed, NEW t \in Tables
          PROVE  db'[j].total = db'[j].data[t]
        <3>1. db[j].total \in Nat /\ db[j].total = db[j].data[t]
            BY <1>0 DEF CInv, DbInv, Sound, Row
        <3>2. CASE j = i
            <4>1. db'[j].total = db[j].total + 1
                BY <2>1, <3>2
            <4>2. db'[j].data[t] = db[j].data[t] + 1
                BY <2>1, <3>2
            <4>3. QED
                BY <3>1, <4>1, <4>2
        <3>3. CASE j # i
            <4>1. db'[j].total = db[j].total + 0 /\ db'[j].data = db[j].data
                BY <2>1, <3>3
            <4>2. QED
                BY <3>1, <4>1
        <3>4. QED
            BY <3>2, <3>3
    <2>4. QED
        BY <2>1, <2>2, <2>3 DEF TotalIsSumOfData
<1>4. ASSUME NEW p \in Proc, pc[p] = "commit", db_committransaction(p)
      PROVE  TotalIsSumOfData'
    <2> DEFINE i == db_getinterfaceid(db, Dst(p))
    <2>1. i # 0 /\ ifaceid[p] \in Ids(db) /\ txn = Result(p) /\ db' = txn
        BY <1>4 DEF CInv, TxnInv, db_committransaction, Result
    <2>2. /\ Ids(db)' = Ids(db)
          /\ \A j \in Ids(db) :
                /\ db'[j].total = IF j = i THEN srcifinfo[p].total + dstifinfo[p].total
                                           ELSE db[j].total
                /\ db'[j].data = IF j = ifaceid[p]
                                 THEN [t \in Tables |-> db[j].data[t] + datalist[p][t]]
                                 ELSE db[j].data
        BY <1>4, <2>1, MergedRows DEF Ids
    <2>3. i \in IdOf(db, Dst(p))
        BY <2>1, Found DEF IdOf
    <2>4. flawed' = flawed \cup
              UNION {{k, ifaceid[p]} : k \in {j \in IdOf(db, Dst(p)) : ~Whole(p, j)}}
        BY <1>4 DEF db_committransaction
    <2>5. /\ Src(p) \in Row
          /\ \A t \in Tables : Src(p).total = Src(p).data[t]
        BY <1>4, PairTyped DEF CInv, PlaceInv, InHand, Merging
    <2>6. flawed \subseteq flawed'
        BY <2>4
    <2> HIDE DEF i
    <2>7. Whole(p, i) \/ {i, ifaceid[p]} \subseteq flawed'
        BY <2>3, <2>4
    <2>8. ASSUME NEW j \in Ids(db) \ flawed', NEW t \in Tables
          PROVE  db'[j].total = db'[j].data[t]
        <3>1. /\ db[j].total \in Nat /\ db[j].total = db[j].data[t]
              /\ Src(p).total \in Nat /\ Src(p).total = Src(p).data[t]
            BY <1>0, <2>5, <2>6 DEF CInv, DbInv, Sound, Row
        <3>2. CASE j = i
            <4>1. /\ j = ifaceid[p] /\ db[j].total = dstifinfo[p].total
                  /\ srcifinfo[p].total = Src(p).total /\ datalist[p] = Src(p).data
                BY <2>7, <3>2 DEF Whole
            <4>5. db'[j].data = [u \in Tables |-> db[j].data[u] + datalist[p][u]]
                BY <2>2, <4>1
            <4>2. db'[j].data[t] = db[j].data[t] + Src(p).data[t]
                BY <4>1, <4>5
            <4>3. db'[j].total = Src(p).total + dstifinfo[p].total
                BY <2>2, <3>2, <4>1
            <4>4. QED
                BY <3>1, <4>1, <4>2, <4>3
        <3>3. CASE j # i
            <4>1. j # ifaceid[p]
                BY <2>7, <3>3 DEF Whole
            <4>2. QED
                BY <2>2, <3>1, <3>3, <4>1
        <3>4. QED
            BY <3>2, <3>3
    <2>9. QED
        BY <2>2, <2>8 DEF TotalIsSumOfData
<1>5. ASSUME NEW p \in Proc, handlers(p) \/ mergeinterface(p) PROVE TotalIsSumOfData'
    BY <1>1, <1>2, <1>4, <1>5, Effects
       DEF dbvars, db_begintransaction, Merges, SourceUnreadable, RollsBack
<1>6. CASE Daemon
    BY <1>2, <1>3, <1>6, DaemonEffects
<1>7. CASE UNCHANGED vars
    BY <1>1, <1>7 DEF vars, dbvars
<1>8. QED
    BY <1>5, <1>6, <1>7, StepIs

(* Whichever statement fails or process is killed, a row's total is what   *)
(* each of its tables holds, but for the rows into which a merge was not   *)
(* whole: what it had read of the source was a part of it, or what it had  *)
(* read of the row was not, or not any more, what the row holds.           *)
THEOREM TotalsAreSums == Spec => []TotalIsSumOfData
<1>1. Init => TotalIsSumOfData
    BY DEF Init, TotalIsSumOfData, Ids, NoTable
<1>2. QED
    BY <1>1, CInvHolds, TotalsNext, PTL DEF Spec

-----------------------------------------------------------------------------
(***************************************************************************)
(* Command implements InterfaceTable.                                      *)
(***************************************************************************)
(* A database d is shown with the set f of its flawed rows. *)
At(d, f, i) == [alias |-> d[i].alias, traffic |-> d[i].data, flawed |-> i \in f]

ShownNames(d) == {d[i].name : i \in Ids(d)}

Shown(d, f) ==
    [n \in ShownNames(d) |->
        LET i == db_getinterfaceid(d, n)
        IN  [alias |-> d[i].alias, traffic |-> d[i].data, flawed |-> i \in f]]

(* The interfaces of a database, row by row. *)
LEMMA ShownRows ==
    ASSUME NEW d, UniqueIn(d), NEW f
    PROVE  /\ DOMAIN Shown(d, f) = ShownNames(d)
           /\ \A i \in Ids(d) : /\ d[i].name \in ShownNames(d)
                                /\ Shown(d, f)[d[i].name] = At(d, f, i)
           /\ \A n \in ShownNames(d) : \E i \in Ids(d) : n = d[i].name
<1>1. ASSUME NEW i \in Ids(d)
      PROVE  d[i].name \in ShownNames(d) /\ Shown(d, f)[d[i].name] = At(d, f, i)
    BY FoundByName DEF ShownNames, Shown, At
<1>2. QED
    BY <1>1 DEF ShownNames, Shown

LEMMA ShownIs ==
    ASSUME NEW d, UniqueIn(d), NEW f, NEW N, N = ShownNames(d),
           NEW g, g = [n \in N |-> g[n]],
           \A i \in Ids(d) : g[d[i].name] = At(d, f, i)
    PROVE  Shown(d, f) = g
<1>1. \A n \in N : Shown(d, f)[n] = g[n]
    BY ShownRows
<1>2. Shown(d, f) = [n \in N |-> Shown(d, f)[n]]
    BY ShownRows DEF Shown
<1>3. QED
    BY <1>1, <1>2

(* The actions of the table, of a table T that becomes U. *)
NewShown == [alias |-> NoAlias, traffic |-> [t \in Tables |-> 0], flawed |-> FALSE]

Adds(T, U, n) ==
    /\ n \in Name /\ n \notin DOMAIN T
    /\ U = [m \in DOMAIN T \cup {n} |-> IF m = n THEN NewShown ELSE T[m]]

Removes(T, U, n) ==
    /\ n \in Name /\ n \in DOMAIN T
    /\ U = [m \in DOMAIN T \ {n} |-> T[m]]

Renames(T, U, n, new) ==
    /\ {n, new} \subseteq Name /\ n \in DOMAIN T /\ new \notin DOMAIN T
    /\ U = [m \in (DOMAIN T \ {n}) \cup {new} |-> IF m = new THEN T[n] ELSE T[m]]

SetsAlias(T, U, n, a) ==
    /\ n \in Name /\ n \in DOMAIN T /\ a \in Alias
    /\ U = [T EXCEPT ![n].alias = a]

Gains(T, U, n, m, gained, a, spoilt) ==
    /\ {n, m} \subseteq Name /\ {n, m} \subseteq DOMAIN T /\ a \in Alias
    /\ U = [k \in DOMAIN T |->
          [alias   |-> IF k = m THEN a ELSE T[k].alias,
           traffic |-> [t \in Tables |->
               T[k].traffic[t] + IF k = n THEN gained[t] ELSE 0],
           flawed  |-> T[k].flawed \/ k \in spoilt]]

(* A statement that changes one row is one action of the table. *)
LEMMA StoresShown ==
    ASSUME Sound(db), UniqueIn(db), flawed \subseteq Ids(db),
           NEW d, Sound(d), OneRow(d), UniqueIn(d),
           NEW T, T = Shown(db, flawed), NEW U, U = Shown(d, flawed \cap Ids(d))
    PROVE  \/ U = T
           \/ \E n \in Name : Adds(T, U, n) \/ Removes(T, U, n)
           \/ \E n, new \in Name : Renames(T, U, n, new)
           \/ \E n \in Name, a \in Alias : SetsAlias(T, U, n, a)
<1> DEFINE e == flawed
           f == flawed \cap Ids(d)
<1>f. /\ \A j \in Ids(d) : j \in f <=> j \in e
      /\ \A j : j \notin Ids(db) => j \notin e
    OBVIOUS
<1>u. T = Shown(db, e) /\ U = Shown(d, f)
    OBVIOUS
<1> HIDE DEF e, f
<1>1. PICK k \in Nat :
        /\ \A j \in Ids(db) \ {k} : j \in Ids(d) /\ d[j] = db[j]
        /\ Ids(d) \subseteq Ids(db) \cup {k}
        /\ k \in Ids(d) /\ k \in Ids(db) =>
              /\ d[k].total = db[k].total /\ d[k].data = db[k].data
              /\ d[k].counter = db[k].counter /\ d[k].updated = db[k].updated
              /\ d[k].name = db[k].name \/ d[k].alias = db[k].alias
        /\ k \in Ids(d) /\ k \notin Ids(db) =>
              /\ d[k].alias = NoAlias /\ d[k].total = 0 /\ d[k].counter = 0
              /\ d[k].data = [t \in Tables |-> 0]
    BY DEF OneRow
<1>2. /\ \A j \in Ids(db) : db[j].name \in Name /\ db[j].alias \in Alias
      /\ \A j \in Ids(d) : d[j].name \in Name /\ d[j].alias \in Alias
    BY DEF Sound, Row
<1>3. /\ \A i, j \in Ids(db) : db[i].name = db[j].name => i = j
      /\ \A i, j \in Ids(d) : d[i].name = d[j].name => i = j
    BY DEF UniqueIn
<1>4. /\ \A j \in Ids(db) : /\ db[j].name \in ShownNames(db)
                            /\ T[db[j].name] = At(db, e, j)
      /\ \A n \in ShownNames(db) : \E j \in Ids(db) : n = db[j].name
      /\ \A j \in Ids(d) : d[j].name \in ShownNames(d)
      /\ \A n \in ShownNames(d) : \E j \in Ids(d) : n = d[j].name
      /\ DOMAIN T = ShownNames(db)
    BY <1>u, ShownRows
<1>0. ASSUME NEW i \in Ids(d), i # k
      PROVE  /\ d[i].name \in ShownNames(db) /\ T[d[i].name] = At(d, f, i)
             /\ k \in Ids(d) => d[i].name # d[k].name
             /\ k \in Ids(db) => d[i].name # db[k].name
    <2>1. i \in Ids(db) /\ d[i] = db[i]
        BY <1>0, <1>1
    <2>2. At(d, f, i) = At(db, e, i)
        BY <1>0, <1>f, <2>1 DEF At
    <2>3. QED
        BY <1>0, <1>3, <1>4, <2>1, <2>2
<1>5. CASE k \notin Ids(d) /\ k \notin Ids(db)
    <2>1. ShownNames(db) = ShownNames(d)
        BY <1>1, <1>5 DEF ShownNames
    <2>2. T = [n \in ShownNames(db) |-> T[n]]
        BY <1>u DEF Shown
    <2>3. \A i \in Ids(d) : T[d[i].name] = At(d, f, i)
        BY <1>0, <1>5
    <2>4. U = T
        BY <1>u, <2>1, <2>2, <2>3, ShownIs
    <2>5. QED
        BY <2>4
<1>6. CASE k \in Ids(d) /\ k \notin Ids(db)
    <2> DEFINE n == d[k].name
               N == ShownNames(db) \cup {n}
               g == [m \in N |->
                       IF m = n THEN NewShown ELSE T[m]]
    <2>1. n \in Name /\ n \notin ShownNames(db)
        BY <1>1, <1>2, <1>3, <1>4, <1>6
    <2>2. N = ShownNames(d)
        BY <1>1, <1>4, <1>6
    <2>3. ASSUME NEW i \in Ids(d) PROVE g[d[i].name] = At(d, f, i)
        <3>1. CASE i = k
            <4>1. (k \in f) = FALSE
                BY <1>6, <1>f
            <4>2. At(d, f, k) = NewShown
                BY <1>1, <1>6, <4>1 DEF At, NewShown
            <4>3. QED
                BY <3>1, <4>2
        <3>2. CASE i # k
            BY <1>0, <1>6, <3>2
        <3>3. QED
            BY <3>1, <3>2
    <2>4. g = [m \in N |-> g[m]]
        OBVIOUS
    <2> HIDE DEF g, N
    <2>5. U = g
        BY <1>u, <2>2, <2>3, <2>4, ShownIs
    <2>6. Adds(T, U, n)
        BY <1>4, <2>1, <2>5 DEF Adds, g, N
    <2>7. QED
        BY <2>1, <2>6
<1>7. CASE k \notin Ids(d) /\ k \in Ids(db)
    <2> DEFINE n == db[k].name
               N == ShownNames(db) \ {n}
               g == [m \in N |-> T[m]]
    <2>1. n \in Name /\ n \in ShownNames(db)
        BY <1>2, <1>4, <1>7
    <2>2. N = ShownNames(d)
        BY <1>1, <1>3, <1>4, <1>7
    <2>3. \A i \in Ids(d) : g[d[i].name] = At(d, f, i)
        BY <1>0, <1>7
    <2>4. g = [m \in N |-> g[m]]
        OBVIOUS
    <2> HIDE DEF g, N
    <2>5. U = g
        BY <1>u, <2>2, <2>3, <2>4, ShownIs
    <2>6. Removes(T, U, n)
        BY <1>4, <2>1, <2>5 DEF Removes, g, N
    <2>7. QED
        BY <2>1, <2>6
<1>8. CASE k \in Ids(d) /\ k \in Ids(db) /\ d[k].name = db[k].name
    <2> DEFINE n == d[k].name
               a == d[k].alias
               g == [T EXCEPT ![n].alias = a]
    <2>1. n \in Name /\ n \in ShownNames(db) /\ a \in Alias
        BY <1>2, <1>4, <1>8
    <2>2. ShownNames(db) = ShownNames(d)
        <3>1. \A m \in ShownNames(db) : m \in ShownNames(d)
            BY <1>1, <1>4, <1>8
        <3>2. \A m \in ShownNames(d) : m \in ShownNames(db)
            BY <1>0, <1>4, <1>8
        <3>3. QED
            BY <3>1, <3>2
    <2>3. ASSUME NEW i \in Ids(d) PROVE g[d[i].name] = At(d, f, i)
        <3>1. CASE i = k
            <4>1. T[n] = At(db, e, k) /\ n \in DOMAIN T
                BY <1>4, <1>8
            <4>2. g[n] = [At(db, e, k) EXCEPT !.alias = a]
                BY <4>1
            <4>3. [At(db, e, k) EXCEPT !.alias = a] = At(d, f, k)
                BY <1>1, <1>8, <1>f DEF At
            <4>4. QED
                BY <3>1, <4>2, <4>3
        <3>2. CASE i # k
            BY <1>0, <1>8, <3>2
        <3>3. QED
            BY <3>1, <3>2
    <2>4. g = [m \in ShownNames(db) |-> g[m]]
        BY <1>4
    <2> HIDE DEF g
    <2>5. U = g
        BY <1>u, <2>2, <2>3, <2>4, ShownIs
    <2>6. SetsAlias(T, U, n, a)
        BY <1>4, <2>1, <2>5 DEF SetsAlias, g
    <2>7. QED
        BY <2>1, <2>6
<1>9. CASE k \in Ids(d) /\ k \in Ids(db) /\ d[k].name # db[k].name
    <2> DEFINE n == db[k].name
               new == d[k].name
               N == (ShownNames(db) \ {n}) \cup {new}
               g == [m \in N |-> IF m = new THEN T[n] ELSE T[m]]
    <2>1. n \in Name /\ new \in Name /\ n \in ShownNames(db) /\ new \notin ShownNames(db)
        BY <1>1, <1>2, <1>3, <1>4, <1>9
    <2>2. N = ShownNames(d)
        BY <1>1, <1>3, <1>4, <1>9
    <2>3. ASSUME NEW i \in Ids(d) PROVE g[d[i].name] = At(d, f, i)
        <3>1. CASE i = k
            BY <1>1, <1>4, <1>9, <1>f, <3>1 DEF At
        <3>2. CASE i # k
            BY <1>0, <1>9, <3>2
        <3>3. QED
            BY <3>1, <3>2
    <2>4. g = [m \in N |-> g[m]]
        OBVIOUS
    <2> HIDE DEF g, N
    <2>5. U = g
        BY <1>u, <2>2, <2>3, <2>4, ShownIs
    <2>6. Renames(T, U, n, new)
        BY <1>4, <2>1, <2>5 DEF Renames, g, N
    <2>7. QED
        BY <2>1, <2>6
<1>10. QED
    BY <1>5, <1>6, <1>7, <1>8, <1>9

(* What is added to the row of one name, the alias another may get, and    *)
(* which of them are flawed from now on.                                   *)
LEMMA GainsShown ==
    ASSUME Sound(db), UniqueIn(db), NEW d, UniqueIn(d), Ids(d) = Ids(db),
           NEW i \in Ids(db), NEW k \in Ids(db), NEW gained \in [Tables -> Nat],
           \A j \in Ids(db) :
              /\ d[j].name = db[j].name
              /\ j # k => d[j].alias = db[j].alias
              /\ j = i => d[j].data = [t \in Tables |-> db[j].data[t] + gained[t]]
              /\ j # i => d[j].data = db[j].data,
           d[k].alias \in Alias, NEW e, NEW f, NEW S \in SUBSET {i, k}, f = e \cup S,
           NEW T, T = Shown(db, e), NEW U, U = Shown(d, f)
    PROVE  Gains(T, U, db[i].name, db[k].name, gained, d[k].alias, {db[j].name : j \in S})
<1> DEFINE n == db[i].name
           m == db[k].name
           a == d[k].alias
           spoilt == {db[j].name : j \in S}
           g == [l \in ShownNames(db) |->
                   [alias   |-> IF l = m THEN a ELSE T[l].alias,
                    traffic |-> [t \in Tables |->
                        T[l].traffic[t] + IF l = n THEN gained[t] ELSE 0],
                    flawed  |-> T[l].flawed \/ l \in spoilt]]
<1>1. /\ n \in Name /\ m \in Name /\ n \in ShownNames(db) /\ m \in ShownNames(db)
      /\ DOMAIN T = ShownNames(db)
      /\ \A j \in Ids(db) : db[j].data \in [Tables -> Nat]
    BY ShownRows DEF Sound, Row
<1>2. ShownNames(d) = ShownNames(db)
    <2>1. ASSUME NEW j \in Ids(db) PROVE d[j].name = db[j].name
        OBVIOUS
    <2>2. {d[j].name : j \in Ids(db)} = {db[j].name : j \in Ids(db)}
        BY <2>1
    <2>3. QED
        BY <2>2 DEF ShownNames
<1>3. ASSUME NEW j \in Ids(d) PROVE g[d[j].name] = At(d, f, j)
    <2>1. /\ j \in Ids(db) /\ d[j].name = db[j].name
          /\ db[j].name \in ShownNames(db) /\ T[db[j].name] = At(db, e, j)
        <3>1. j \in Ids(db)
            BY <1>3
        <3>2. db[j].name \in ShownNames(db) /\ Shown(db, e)[db[j].name] = At(db, e, j)
            BY <3>1, ShownRows
        <3>3. QED
            BY <3>1, <3>2
    <2>2. db[j].name = m <=> j = k
        BY <2>1 DEF UniqueIn
    <2>3. db[j].name = n <=> j = i
        BY <2>1 DEF UniqueIn
    <2>8. db[j].name \in spoilt <=> j \in S
        BY <2>1 DEF UniqueIn
    <2> HIDE DEF spoilt
    <2>4. g[d[j].name] =
             [alias   |-> IF j = k THEN a ELSE db[j].alias,
              traffic |-> [t \in Tables |-> db[j].data[t] + IF j = i THEN gained[t] ELSE 0],
              flawed  |-> j \in e \/ j \in S]
        <3>1. T[db[j].name].alias = db[j].alias
            BY <2>1 DEF At
        <3>2. T[db[j].name].traffic = db[j].data
            BY <2>1 DEF At
        <3>3. T[db[j].name].flawed = (j \in e)
            BY <2>1 DEF At
        <3>4. g[db[j].name] =
                 [alias   |-> IF db[j].name = m THEN a ELSE T[db[j].name].alias,
                  traffic |-> [t \in Tables |->
                      T[db[j].name].traffic[t] + IF db[j].name = n THEN gained[t] ELSE 0],
                  flawed  |-> T[db[j].name].flawed \/ db[j].name \in spoilt]
            BY <2>1
        <3>5. (T[db[j].name].flawed \/ db[j].name \in spoilt) = (j \in e \/ j \in S)
            BY <2>8, <3>3
        <3> HIDE DEF g, n, m, a
        <3>6. QED
            BY <2>1, <2>2, <2>3, <3>1, <3>2, <3>4, <3>5
    <2>5. [t \in Tables |-> db[j].data[t] + IF j = i THEN gained[t] ELSE 0] = d[j].data
        <3>1. CASE j = i
            BY <2>1, <3>1
        <3>2. CASE j # i
            <4>1. d[j].data = db[j].data /\ db[j].data \in [Tables -> Nat]
                BY <1>1, <2>1, <3>2
            <4>2. QED
                BY <3>2, <4>1
        <3>3. QED
            BY <3>1, <3>2
    <2>6. d[j].alias = IF j = k THEN a ELSE db[j].alias
        BY <2>1
    <2>7. (j \in e \/ j \in S) = (j \in f)
        OBVIOUS
    <2> HIDE DEF g, a
    <2>9. QED
        BY <2>4, <2>5, <2>6, <2>7 DEF At
<1>4. g = [l \in ShownNames(db) |-> g[l]]
    OBVIOUS
<1>5. a \in Alias
    OBVIOUS
<1> HIDE DEF g, a, spoilt
<1>6. U = g
    <2> DEFINE N == ShownNames(db)
    <2>1. \A j \in Ids(d) : g[d[j].name] = At(d, f, j)
        BY <1>3
    <2>2. N = ShownNames(d) /\ g = [l \in N |-> g[l]]
        BY <1>2, <1>4
    <2> HIDE DEF N
    <2>3. Shown(d, f) = g
        BY ONLY UniqueIn(d), <2>1, <2>2, ShownIs
    <2>4. QED
        BY <2>3
<1>7. Gains(T, U, n, m, gained, a, spoilt)
    BY <1>1, <1>5, <1>6 DEF Gains, g
<1>8. QED
    BY <1>7 DEF a, spoilt

Amounts == {1} \cup {Source[n].total : n \in DOMAIN Source}

(* A step of the processes or of the daemon is one of the table, or none.  *)
TableStep(T, U) ==
    \/ U = T
    \/ \E n \in Name : Adds(T, U, n) \/ Removes(T, U, n)
    \/ \E n, new \in Name : Renames(T, U, n, new)
    \/ \E n \in Name, a \in Alias : SetsAlias(T, U, n, a)
    \/ \E n, m \in Name, amount \in Amounts, a \in Alias :
          \/ Gains(T, U, n, m, [t \in Tables |-> amount], a, {})
          \/ \E gained \in [Tables -> 0 .. amount] : Gains(T, U, n, m, gained, a, {n, m})

Shows == Shown(db, flawed)

LEMMA ShowsNext == Shows' = Shown(db', flawed')
BY DEF Shows, Shown, ShownNames, Ids, db_getinterfaceid, IdOf

LEMMA CommitShown ==
    ASSUME CInv, CInv', NEW p \in Proc, pc[p] = "commit", db_committransaction(p)
    PROVE  TableStep(Shows, Shows')
<1> DEFINE d == db'
           i == ifaceid[p]
           k == db_getinterfaceid(db, Dst(p))
           amount == Src(p).total
           gained == datalist[p]
           a == d[k].alias
<1>0. /\ Sound(db) /\ UniqueIn(db) /\ UniqueIn(db)'
    BY DEF CInv, DbInv
<1>1. /\ k # 0 /\ i \in Ids(db) /\ txn = Result(p) /\ d = txn
      /\ todo[p] # {} /\ ProcType /\ gained \in db_getdata(Src(p))
    BY DEF CInv, TxnInv, db_committransaction, PlaceInv, InHand, Merging, Result
<1>2. k \in Ids(db) /\ k \in IdOf(db, Dst(p)) /\ \A j \in IdOf(db, Dst(p)) : j = k
    <2>1. k \in Ids(db) /\ db[k].name = Dst(p)
        BY <1>1, Found
    <2>2. QED
        BY <1>0, <2>1 DEF IdOf, UniqueIn
<1>3. /\ Src(p) \in Row /\ amount \in Nat /\ amount \in Amounts
      /\ \A t \in Tables : amount = Src(p).data[t]
      /\ Src(p).data = [t \in Tables |-> amount]
    <2>1. /\ Src(p) \in Row /\ \A t \in Tables : Src(p).total = Src(p).data[t]
          /\ \E n \in DOMAIN Source : Src(p) = Source[n]
        BY <1>1, PairTyped
    <2>2. Src(p).data = [t \in Tables |-> Src(p).data[t]]
        BY <2>1 DEF Row
    <2>3. QED
        BY <2>1, <2>2 DEF Row, Amounts
<1>4. gained \in [Tables -> Nat] /\ gained \in [Tables -> 0 .. amount]
    BY <1>1, <1>3, DataTyped
<1>5. /\ Sound(d) /\ Ids(d) = Ids(db)
      /\ \A j \in Ids(db) :
            /\ d[j].name = db[j].name
            /\ j # k => d[j].alias = db[j].alias
            /\ j = i => d[j].data = [t \in Tables |-> db[j].data[t] + gained[t]]
            /\ j # i => d[j].data = db[j].data
    BY <1>1, MergedRows
<1>6. UniqueIn(d)
    BY <1>0 DEF UniqueIn, Ids
<1>7. a \in Alias /\ db[k].name \in Name /\ db[i].name \in Name
    BY <1>0, <1>1, <1>2, <1>5 DEF Sound, Row
<1>8. flawed' = flawed \cup UNION {{j, i} : j \in {l \in IdOf(db, Dst(p)) : ~Whole(p, l)}}
    BY DEF db_committransaction
<1>9. CASE Whole(p, k)
    <2>1. flawed' = flawed \cup {}
        BY <1>2, <1>8, <1>9
    <2>2. gained = [t \in Tables |-> amount]
        BY <1>3, <1>9 DEF Whole
    <2> HIDE DEF d, amount, i, k, gained, a
    <2>3. Gains(Shows, Shown(d, flawed'), db[i].name, db[k].name, gained, d[k].alias,
                {db[j].name : j \in {}})
        BY <1>0, <1>1, <1>2, <1>4, <1>5, <1>6, <1>7, <2>1, GainsShown DEF Shows, a
    <2>4. {db[j].name : j \in {}} = {}
        OBVIOUS
    <2>5. Gains(Shows, Shows', db[i].name, db[k].name, [t \in Tables |-> amount], a, {})
        BY <2>2, <2>3, <2>4, ShowsNext DEF a, d
    <2>6. QED
        BY <1>3, <1>7, <2>5 DEF TableStep
<1>10. CASE ~Whole(p, k)
    <2>1. flawed' = flawed \cup {i, k}
        BY <1>2, <1>8, <1>10
    <2> HIDE DEF d, amount, i, k, gained, a
    <2>3. Gains(Shows, Shown(d, flawed'), db[i].name, db[k].name, gained, d[k].alias,
                {db[j].name : j \in {i, k}})
        BY <1>0, <1>1, <1>2, <1>4, <1>5, <1>6, <1>7, <2>1, GainsShown DEF Shows, a
    <2>4. {db[j].name : j \in {i, k}} = {db[i].name, db[k].name}
        OBVIOUS
    <2>5. Gains(Shows, Shows', db[i].name, db[k].name, gained, a, {db[i].name, db[k].name})
        BY <2>3, <2>4, ShowsNext DEF a, d
    <2>6. QED
        BY <1>3, <1>4, <1>7, <2>5 DEF TableStep
<1>11. QED
    BY <1>9, <1>10

LEMMA TableStepNext == CInv /\ CInv' /\ [Next]_vars => TableStep(Shows, Shows')
<1> SUFFICES ASSUME CInv, CInv', [Next]_vars PROVE TableStep(Shows, Shows')
    OBVIOUS
<1>0. /\ Sound(db) /\ UniqueIn(db) /\ flawed \subseteq Ids(db)
      /\ Sound(db)' /\ UniqueIn(db)'
    BY DEF CInv, DbInv
<1>1. ASSUME UNCHANGED <<db, history>> PROVE TableStep(Shows, Shows')
    <2>1. Shows' = Shows
        BY <1>1, ShowsNext DEF Shows, history
    <2>2. QED
        BY <2>1 DEF TableStep
<1>2. ASSUME Stores PROVE TableStep(Shows, Shows')
    <2>1. PICK d : Sound(d) /\ OneRow(d) /\ Autocommits(d)
        BY <1>2 DEF Stores
    <2>2. db' = d /\ UniqueIn(d) /\ flawed' = flawed \cap Ids(d)
        BY <2>1 DEF Autocommits
    <2> DEFINE T == Shows
               U == Shown(d, flawed \cap Ids(d))
    <2>3. T = Shown(db, flawed) /\ U = Shown(d, flawed \cap Ids(d))
        BY DEF Shows
    <2>4. Shows' = U
        BY <2>2, ShowsNext
    <2> HIDE DEF T, U
    <2>5. \/ U = T
          \/ \E n \in Name : Adds(T, U, n) \/ Removes(T, U, n)
          \/ \E n, new \in Name : Renames(T, U, n, new)
          \/ \E n \in Name, a \in Alias : SetsAlias(T, U, n, a)
        BY <1>0, <2>1, <2>2, <2>3, StoresShown
    <2>6. TableStep(T, U)
        BY <2>5 DEF TableStep
    <2>7. QED
        BY <2>4, <2>6 DEF T
<1>3. ASSUME NEW i \in Ids(db), NEW now \in Times, DaemonSaves(i, now)
      PROVE  TableStep(Shows, Shows')
    <2> DEFINE d == db'
               one == [t \in Tables |-> 1]
    <2>1. /\ Sound(d) /\ UniqueIn(d) /\ Ids(d) = Ids(db)
          /\ \A j \in Ids(db) :
                /\ d[j].name = db[j].name /\ d[j].alias = db[j].alias
                /\ j = i => d[j].data = [t \in Tables |-> db[j].data[t] + 1]
                /\ j # i => d[j].data = db[j].data
        BY <1>0, <1>3, SavedRows DEF Sound, UniqueIn, Ids
    <2>2. d[i].alias \in Alias /\ db[i].name \in Name /\ one \in [Tables -> Nat]
        BY <1>0, <2>1 DEF Sound, Row
    <2>3. flawed' = flawed \cup {}
        BY <1>3 DEF DaemonSaves, history
    <2>7. \A j \in Ids(db) :
             /\ d[j].name = db[j].name
             /\ j # i => d[j].alias = db[j].alias
             /\ j = i => d[j].data = [t \in Tables |-> db[j].data[t] + one[t]]
             /\ j # i => d[j].data = db[j].data
        BY <2>1
    <2>8. Sound(db) /\ UniqueIn(db) /\ UniqueIn(d) /\ Ids(d) = Ids(db)
        BY <1>0, <2>1
    <2> HIDE DEF d, one
    <2>4. Gains(Shows, Shown(d, flawed'), db[i].name, db[i].name, one, d[i].alias,
                {db[j].name : j \in {}})
        BY <2>2, <2>3, <2>7, <2>8, GainsShown DEF Shows
    <2>5. Gains(Shows, Shows', db[i].name, db[i].name, [t \in Tables |-> 1], d[i].alias, {})
        <3>1. {db[j].name : j \in {}} = {}
            OBVIOUS
        <3>2. QED
            BY <2>4, <3>1, ShowsNext DEF d, one
    <2>6. QED
        BY <2>2, <2>5 DEF TableStep, Amounts
<1>5. ASSUME NEW p \in Proc, handlers(p) \/ mergeinterface(p)
      PROVE  TableStep(Shows, Shows')
    BY <1>1, <1>2, CommitShown, <1>5, Effects
       DEF dbvars, db_begintransaction, Merges, SourceUnreadable, RollsBack, history
<1>6. CASE Daemon
    BY <1>2, <1>3, <1>6, DaemonEffects
<1>7. CASE UNCHANGED vars
    BY <1>1, <1>7 DEF vars, dbvars
<1>8. QED
    BY <1>5, <1>6, <1>7, StepIs

(* Although a row is found by its name and changed by an id that may be    *)
(* another row's by then, all the processes and the daemon together only   *)
(* do to the interfaces what one command at a time would do in one step.   *)
THEOREM CommandKeepsTable == Spec => TableSpec
<1>1. Init => Table!Init
    <2> SUFFICES ASSUME Init PROVE Table!Init
        OBVIOUS
    <2>1. Ids(db) = {}
        BY DEF Init, Ids, NoTable
    <2>2. QED
        BY <2>1 DEF Table!Init
<1>2. TableStep(Shows, Shows') =>
         [Table!Next]_([n \in {db[i].name : i \in Ids(db)} |->
                          LET i == db_getinterfaceid(db, n)
                          IN  [alias |-> db[i].alias, traffic |-> db[i].data,
                               flawed |-> i \in flawed]])
    <2>0. /\ Shows = Shown(db, flawed) /\ Shows' = Shown(db, flawed)'
          /\ DOMAIN Shows = ShownNames(db)
        BY DEF Shows, Shown
    <2>1. ASSUME NEW n \in Name, Adds(Shows, Shows', n) PROVE Table!Add(n)
        BY <2>1 DEF Adds, Table!Add, Table!Names, Table!Empty, NewShown, Shows, Shown, ShownNames
    <2>2. ASSUME NEW n \in Name, Removes(Shows, Shows', n) PROVE Table!Remove(n)
        BY <2>2 DEF Removes, Table!Remove, Table!Names, Shows, Shown, ShownNames
    <2>3. ASSUME NEW n \in Name, NEW new \in Name, Renames(Shows, Shows', n, new)
          PROVE  Table!Rename(n, new)
        BY <2>3 DEF Renames, Table!Rename, Table!Names, Shows, Shown, ShownNames
    <2>4. ASSUME NEW n \in Name, NEW a \in Alias, SetsAlias(Shows, Shows', n, a)
          PROVE  Table!SetAlias(n, a)
        BY <2>4 DEF SetsAlias, Table!SetAlias, Table!Names, Shows, Shown, ShownNames
    <2>5. ASSUME NEW n \in Name, NEW m \in Name, NEW gained, NEW a \in Alias, NEW spoilt,
                 Gains(Shows, Shows', n, m, gained, a, spoilt)
          PROVE  Table!Gained(n, m, gained, a, spoilt)
        BY <2>5 DEF Gains, Table!Gained, Table!Names, Shows, Shown, ShownNames
    <2>8. ASSUME NEW n \in Name, NEW m \in Name, NEW amount \in Amounts, NEW a \in Alias,
                 \/ Gains(Shows, Shows', n, m, [t \in Tables |-> amount], a, {})
                 \/ \E gained \in [Tables -> 0 .. amount] :
                       Gains(Shows, Shows', n, m, gained, a, {n, m}),
                 Shows' # Shows
          PROVE  Table!Next
        <3>1. \/ Table!Gain(n, m, amount, a)
              \/ \E gained \in [Tables -> 0 .. amount] : Table!GainInPart(n, m, gained, a)
            BY <2>5, <2>8 DEF Table!Gain, Table!GainInPart
        <3>2. QED
            BY <3>1, <2>8 DEF Table!Next, Amounts, Shows, Shown, ShownNames
    <2>6. TableStep(Shows, Shows') => Shows' = Shows \/ Table!Next
        <3>1. SUFFICES ASSUME TableStep(Shows, Shows'), Shows' # Shows PROVE Table!Next
            OBVIOUS
        <3>2. QED
            BY <2>1, <2>2, <2>3, <2>4, <2>8, <3>1 DEF TableStep, Table!Next, Shows, Shown, ShownNames
    <2>7. QED
        BY <2>6 DEF Shows, Shown, ShownNames
<1>3. QED
    BY <1>1, <1>2, CInvHolds, TableStepNext, PTL DEF Spec, TableSpec, Table!Spec
=============================================================================
