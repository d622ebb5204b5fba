--------------------------- MODULE MonitorProofs ---------------------------
(***************************************************************************)
(* What module Monitor guarantees for counters of any width, whatever the  *)
(* kernel's counter was and whichever value 64bitInterfaceCounters has.    *)
(***************************************************************************)
EXTENDS Monitor, TLAPS

(* The constants, as the proofs use them. *)
LEMMA WidthFacts ==
    /\ MAX32 \in Nat /\ MAX64 \in Nat /\ BWMAX \in Nat /\ MaxInterval \in Nat
    /\ MaxTraffic \in Nat
    /\ MAX32 <= MAX64 /\ MAX32 <= BWMAX /\ MaxTraffic <= MAX64
    /\ \A a \in 0 .. MaxInterval : (BWMAX + 1) * a <= MAX64 - MAX32
<1>1. /\ MAX32 \in Nat /\ MAX64 \in Nat /\ BWMAX \in Nat /\ MaxInterval \in Nat
      /\ MAX32 <= MAX64 /\ MAX32 <= BWMAX
      /\ MAX64 - MAX32 >= (BWMAX + 1) * MaxInterval
    BY WidthAssumption
<1>2. MaxTraffic \in Nat /\ MaxTraffic <= MAX64
    BY <1>1, StartAssumption
<1>3. ASSUME NEW a \in 0 .. MaxInterval PROVE (BWMAX + 1) * a <= MAX64 - MAX32
    <2>1. (BWMAX + 1) * a <= (BWMAX + 1) * MaxInterval
        BY <1>1
    <2>2. (BWMAX + 1) * a \in Nat /\ (BWMAX + 1) * MaxInterval \in Nat
        BY <1>1
    <2>3. QED
        BY <1>1, <2>1, <2>2
<1>4. QED
    BY <1>1, <1>2, <1>3

(***************************************************************************)
(* The inductive invariant.  A counter value c that the kernel's counter   *)
(* had d bytes ago: with 64 bits it is d smaller; with 32 bits it is, or   *)
(* the counter has rolled over since, and d is known as long as the        *)
(* counter has not got around.                                             *)
(***************************************************************************)
BaseOf(w, k, c, d) ==
    IF w
    THEN k = c + d
    ELSE /\ c <= MAX32
         /\ k >= c => /\ d >= k - c
                      /\ d <= MAX32 => d = k - c
         /\ k < c => /\ d >= MAX32 + 1 - c + k
                     /\ d <= MAX32 => d = MAX32 + 1 - c + k

Base(c, d) == BaseOf(wide, kernel, c, d)

BaseInv ==
    /\ Base(0, sincezero)
    /\ fresh => Base(currx, due)
    /\ dbfresh => Base(dbcounter, dbdue)

IInv == TypeOK /\ BaseInv

(* Traffic moves the kernel's counter away from c. *)
LEMMA BaseTransfer ==
    ASSUME NEW w \in BOOLEAN, NEW k \in Nat, w \/ k <= MAX32,
           NEW n \in 1 .. MAX32 + 1, NEW c \in Nat, NEW d \in Nat,
           BaseOf(w, k, c, d)
    PROVE  BaseOf(w, IF w \/ k + n <= MAX32 THEN k + n ELSE k + n - (MAX32 + 1),
                  c, d + n)
<1>1. MAX32 \in Nat /\ n \in Nat /\ n <= MAX32 + 1
    BY WidthFacts
<1>2. CASE w
    BY <1>1, <1>2 DEF BaseOf
<1>3. CASE ~w /\ k + n <= MAX32
    BY <1>1, <1>3 DEF BaseOf
<1>4. CASE ~w /\ k + n > MAX32
    BY <1>1, <1>4 DEF BaseOf
<1>5. QED
    BY <1>1, <1>2, <1>3, <1>4

(***************************************************************************)
(* Each action keeps the invariant.                                        *)
(***************************************************************************)
LEMMA KeepsUnplug == ASSUME IInv, Unplug PROVE IInv'
<1>1. Numbers'
    BY WidthFacts DEF IInv, BaseInv, Unplug, TypeOK, Numbers, Flags, Ages,
        kernelvars, rowvars, entryvars, daemonvars, StartsFromZero
<1>2. Flags'
    BY DEF IInv, Unplug, TypeOK, Flags, Lists,
        kernelvars, rowvars, entryvars, daemonvars, StartsFromZero
<1>3. BaseInv'
    BY WidthFacts DEF IInv, BaseInv, Base, BaseOf, Unplug, TypeOK, Numbers, Flags,
        kernelvars, rowvars, entryvars, daemonvars, StartsFromZero
<1>4. QED
    BY <1>1, <1>2, <1>3 DEF IInv, TypeOK

LEMMA KeepsPlug == ASSUME IInv, Plug PROVE IInv'
<1>1. Numbers'
    BY WidthFacts DEF IInv, BaseInv, Plug, TypeOK, Numbers, Flags, Ages,
        kernelvars, rowvars, entryvars, daemonvars
<1>2. Flags'
    BY DEF IInv, Plug, TypeOK, Flags, Lists,
        kernelvars, rowvars, entryvars, daemonvars
<1>3. BaseInv'
    BY WidthFacts DEF IInv, BaseInv, Base, BaseOf, Plug, TypeOK, Numbers, Flags,
        kernelvars, rowvars, entryvars, daemonvars
<1>4. QED
    BY <1>1, <1>2, <1>3 DEF IInv, TypeOK

LEMMA KeepsOthersChange == ASSUME IInv, OthersChange PROVE IInv'
<1>1. Numbers'
    BY WidthFacts DEF IInv, BaseInv, OthersChange, TypeOK, Numbers, Flags, Ages,
        kernelvars, rowvars, entryvars, daemonvars
<1>2. Flags'
    BY DEF IInv, OthersChange, TypeOK, Flags, Lists,
        kernelvars, rowvars, entryvars, daemonvars
<1>3. BaseInv'
    BY WidthFacts DEF IInv, BaseInv, Base, BaseOf, OthersChange, TypeOK, Numbers, Flags,
        kernelvars, rowvars, entryvars, daemonvars
<1>4. QED
    BY <1>1, <1>2, <1>3 DEF IInv, TypeOK

LEMMA KeepsDriverResets == ASSUME IInv, DriverResets PROVE IInv'
<1>1. Numbers'
    BY WidthFacts DEF IInv, BaseInv, DriverResets, TypeOK, Numbers, Flags, Ages,
        kernelvars, rowvars, entryvars, daemonvars, StartsFromZero
<1>2. Flags'
    BY DEF IInv, DriverResets, TypeOK, Flags, Lists,
        kernelvars, rowvars, entryvars, daemonvars, StartsFromZero
<1>3. BaseInv'
    BY WidthFacts DEF IInv, BaseInv, Base, BaseOf, DriverResets, TypeOK, Numbers, Flags,
        kernelvars, rowvars, entryvars, daemonvars, StartsFromZero
<1>4. QED
    BY <1>1, <1>2, <1>3 DEF IInv, TypeOK

LEMMA KeepsTick == ASSUME IInv, Tick PROVE IInv'
<1>1. Numbers'
    BY WidthFacts DEF IInv, BaseInv, Tick, TypeOK, Numbers, Flags, Ages,
        kernelvars, rowvars, entryvars, daemonvars, Older
<1>2. Flags'
    BY DEF IInv, Tick, TypeOK, Flags, Lists,
        kernelvars, rowvars, entryvars, daemonvars, Older
<1>3. BaseInv'
    BY WidthFacts DEF IInv, BaseInv, Base, BaseOf, Tick, TypeOK, Numbers, Flags,
        kernelvars, rowvars, entryvars, daemonvars, Older
<1>4. QED
    BY <1>1, <1>2, <1>3 DEF IInv, TypeOK

LEMMA KeepsStart == ASSUME IInv, Start PROVE IInv'
<1>1. Numbers'
    BY WidthFacts DEF IInv, BaseInv, Start, TypeOK, Numbers, Flags, Ages,
        kernelvars, rowvars, entryvars, daemonvars, datacache_add
<1>2. Flags'
    BY DEF IInv, Start, TypeOK, Flags, Lists,
        kernelvars, rowvars, entryvars, daemonvars, datacache_add
<1>3. BaseInv'
    BY WidthFacts DEF IInv, BaseInv, Base, BaseOf, Start, TypeOK, Numbers, Flags,
        kernelvars, rowvars, entryvars, daemonvars, datacache_add
<1>4. QED
    BY <1>1, <1>2, <1>3 DEF IInv, TypeOK

LEMMA KeepsSave == ASSUME IInv, Save PROVE IInv'
<1>1. Numbers'
    BY WidthFacts DEF IInv, BaseInv, Save, TypeOK, Numbers, Flags, Ages,
        kernelvars, rowvars, entryvars, daemonvars, StoreRow
<1>2. Flags'
    BY DEF IInv, Save, TypeOK, Flags, Lists,
        kernelvars, rowvars, entryvars, daemonvars, StoreRow
<1>3. BaseInv'
    BY WidthFacts DEF IInv, BaseInv, Base, BaseOf, Save, TypeOK, Numbers, Flags,
        kernelvars, rowvars, entryvars, daemonvars, StoreRow
<1>4. QED
    BY <1>1, <1>2, <1>3 DEF IInv, TypeOK

LEMMA KeepsReload == ASSUME IInv, Reload PROVE IInv'
<1>1. Numbers'
    BY WidthFacts DEF IInv, BaseInv, Reload, TypeOK, Numbers, Flags, Ages,
        kernelvars, rowvars, entryvars, daemonvars, StoreRow, datacache_add
<1>2. Flags'
    BY DEF IInv, Reload, TypeOK, Flags, Lists,
        kernelvars, rowvars, entryvars, daemonvars, StoreRow, datacache_add
<1>3. BaseInv'
    BY WidthFacts DEF IInv, BaseInv, Base, BaseOf, Reload, TypeOK, Numbers, Flags,
        kernelvars, rowvars, entryvars, daemonvars, StoreRow, datacache_add
<1>4. QED
    BY <1>1, <1>2, <1>3 DEF IInv, TypeOK

LEMMA KeepsExit == ASSUME IInv, Exit PROVE IInv'
<1>1. Numbers'
    BY WidthFacts DEF IInv, BaseInv, Exit, TypeOK, Numbers, Flags, Ages,
        kernelvars, rowvars, entryvars, daemonvars, StoreRow, Gone, NoEntry
<1>2. Flags'
    BY DEF IInv, Exit, TypeOK, Flags, Lists,
        kernelvars, rowvars, entryvars, daemonvars, StoreRow, Gone, NoEntry
<1>3. BaseInv'
    BY WidthFacts DEF IInv, BaseInv, Base, BaseOf, Exit, TypeOK, Numbers, Flags,
        kernelvars, rowvars, entryvars, daemonvars, StoreRow, Gone, NoEntry
<1>4. QED
    BY <1>1, <1>2, <1>3 DEF IInv, TypeOK

LEMMA KeepsKilled == ASSUME IInv, Killed PROVE IInv'
<1>1. Numbers'
    BY WidthFacts DEF IInv, BaseInv, Killed, TypeOK, Numbers, Flags, Ages,
        kernelvars, rowvars, entryvars, daemonvars, Gone, NoEntry
<1>2. Flags'
    BY DEF IInv, Killed, TypeOK, Flags, Lists,
        kernelvars, rowvars, entryvars, daemonvars, Gone, NoEntry
<1>3. BaseInv'
    BY WidthFacts DEF IInv, BaseInv, Base, BaseOf, Killed, TypeOK, Numbers, Flags,
        kernelvars, rowvars, entryvars, daemonvars, Gone, NoEntry
<1>4. QED
    BY <1>1, <1>2, <1>3 DEF IInv, TypeOK

LEMMA KeepsBoot == ASSUME IInv, Boot PROVE IInv'
<1>1. Numbers'
    BY WidthFacts DEF IInv, BaseInv, Boot, TypeOK, Numbers, Flags, Ages,
        kernelvars, rowvars, entryvars, daemonvars, Gone, NoEntry
<1>2. Flags'
    BY DEF IInv, Boot, TypeOK, Flags, Lists,
        kernelvars, rowvars, entryvars, daemonvars, Gone, NoEntry
<1>3. BaseInv'
    BY WidthFacts DEF IInv, BaseInv, Base, BaseOf, Boot, TypeOK, Numbers, Flags,
        kernelvars, rowvars, entryvars, daemonvars, Gone, NoEntry
<1>4. QED
    BY <1>1, <1>2, <1>3 DEF IInv, TypeOK

LEMMA KeepsInterfacechangecheck == ASSUME IInv, interfacechangecheck PROVE IInv'
<1>1. Numbers'
    BY WidthFacts DEF IInv, BaseInv, interfacechangecheck, TypeOK, Numbers, Flags, Ages,
        kernelvars, rowvars, entryvars, daemonvars, CounterIsZero
<1>2. Flags'
    BY DEF IInv, interfacechangecheck, TypeOK, Flags, Lists, visible,
        kernelvars, rowvars, entryvars, daemonvars, CounterIsZero
<1>3. BaseInv'
    BY WidthFacts DEF IInv, BaseInv, Base, BaseOf, interfacechangecheck, TypeOK, Numbers, Flags,
        kernelvars, rowvars, entryvars, daemonvars, CounterIsZero
<1>4. QED
    BY <1>1, <1>2, <1>3 DEF IInv, TypeOK

LEMMA KeepsNoList == ASSUME IInv, NoList PROVE IInv'
<1>1. Numbers'
    BY WidthFacts DEF IInv, BaseInv, NoList, TypeOK, Numbers, Flags, Ages,
        kernelvars, rowvars, entryvars, daemonvars
<1>2. Flags'
    BY DEF IInv, NoList, TypeOK, Flags, Lists,
        kernelvars, rowvars, entryvars, daemonvars
<1>3. BaseInv'
    BY WidthFacts DEF IInv, BaseInv, Base, BaseOf, NoList, TypeOK, Numbers, Flags,
        kernelvars, rowvars, entryvars, daemonvars
<1>4. QED
    BY <1>1, <1>2, <1>3 DEF IInv, TypeOK

LEMMA KeepsInitcachevalues == ASSUME IInv, initcachevalues PROVE IInv'
<1>1. Numbers'
    BY WidthFacts DEF IInv, BaseInv, initcachevalues, TypeOK, Numbers, Flags, Ages,
        kernelvars, rowvars, entryvars, daemonvars, CounterIsZero
<1>2. Flags'
    BY DEF IInv, initcachevalues, TypeOK, Flags, Lists,
        kernelvars, rowvars, entryvars, daemonvars, CounterIsZero
<1>3. BaseInv'
    BY WidthFacts DEF IInv, BaseInv, Base, BaseOf, initcachevalues, TypeOK, Numbers, Flags,
        kernelvars, rowvars, entryvars, daemonvars, CounterIsZero
<1>4. QED
    BY <1>1, <1>2, <1>3 DEF IInv, TypeOK

LEMMA KeepsDisabled == ASSUME IInv, Disabled PROVE IInv'
<1>1. Numbers'
    BY WidthFacts DEF IInv, BaseInv, Disabled, TypeOK, Numbers, Flags, Ages,
        kernelvars, rowvars, entryvars, daemonvars, Updates
<1>2. Flags'
    BY DEF IInv, Disabled, TypeOK, Flags, Lists,
        kernelvars, rowvars, entryvars, daemonvars, Updates
<1>3. BaseInv'
    BY WidthFacts DEF IInv, BaseInv, Base, BaseOf, Disabled, TypeOK, Numbers, Flags,
        kernelvars, rowvars, entryvars, daemonvars, Updates
<1>4. QED
    BY <1>1, <1>2, <1>3 DEF IInv, TypeOK

LEMMA KeepsNotAvailable == ASSUME IInv, NotAvailable PROVE IInv'
<1>1. Numbers'
    BY WidthFacts DEF IInv, BaseInv, NotAvailable, TypeOK, Numbers, Flags, Ages,
        kernelvars, rowvars, entryvars, daemonvars, Updates
<1>2. Flags'
    BY DEF IInv, NotAvailable, TypeOK, Flags, Lists,
        kernelvars, rowvars, entryvars, daemonvars, Updates
<1>3. BaseInv'
    BY WidthFacts DEF IInv, BaseInv, Base, BaseOf, NotAvailable, TypeOK, Numbers, Flags,
        kernelvars, rowvars, entryvars, daemonvars, Updates
<1>4. QED
    BY <1>1, <1>2, <1>3 DEF IInv, TypeOK

LEMMA KeepsSynced == ASSUME IInv, Synced PROVE IInv'
<1>1. Numbers'
    BY WidthFacts DEF IInv, BaseInv, Synced, TypeOK, Numbers, Flags, Ages,
        kernelvars, rowvars, entryvars, daemonvars, CounterTaken, Updates
<1>2. Flags'
    BY DEF IInv, Synced, TypeOK, Flags, Lists,
        kernelvars, rowvars, entryvars, daemonvars, CounterTaken, Updates
<1>3. BaseInv'
    BY WidthFacts DEF IInv, BaseInv, Base, BaseOf, Synced, TypeOK, Numbers, Flags,
        kernelvars, rowvars, entryvars, daemonvars, CounterTaken, Updates
<1>4. QED
    BY <1>1, <1>2, <1>3 DEF IInv, TypeOK

LEMMA KeepsNotInTime == ASSUME IInv, NotInTime PROVE IInv'
<1>1. Numbers'
    BY WidthFacts DEF IInv, BaseInv, NotInTime, TypeOK, Numbers, Flags, Ages,
        kernelvars, rowvars, entryvars, daemonvars, CounterTaken, Updates
<1>2. Flags'
    BY DEF IInv, NotInTime, TypeOK, Flags, Lists,
        kernelvars, rowvars, entryvars, daemonvars, CounterTaken, Updates
<1>3. BaseInv'
    BY WidthFacts DEF IInv, BaseInv, Base, BaseOf, NotInTime, TypeOK, Numbers, Flags,
        kernelvars, rowvars, entryvars, daemonvars, CounterTaken, Updates
<1>4. QED
    BY <1>1, <1>2, <1>3 DEF IInv, TypeOK

LEMMA KeepsCounted == ASSUME IInv, Counted PROVE IInv'
<1>1. Numbers'
    BY WidthFacts DEF IInv, BaseInv, Counted, TypeOK, Numbers, Flags, Ages,
        kernelvars, rowvars, entryvars, daemonvars, CounterTaken, Updates
<1>2. Flags'
    BY DEF IInv, Counted, TypeOK, Flags, Lists,
        kernelvars, rowvars, entryvars, daemonvars, CounterTaken, Updates
<1>3. BaseInv'
    BY WidthFacts DEF IInv, BaseInv, Base, BaseOf, Counted, TypeOK, Numbers, Flags,
        kernelvars, rowvars, entryvars, daemonvars, CounterTaken, Updates
<1>4. QED
    BY <1>1, <1>2, <1>3 DEF IInv, TypeOK

(* Traffic moves all three bases alike. *)
LEMMA KeepsTransfer ==
    ASSUME IInv, NEW n \in 1 .. MAX32 + 1, Transfer(n) PROVE IInv'
<1>1. n \in Nat /\ n \in 1 .. MAX32 + 1
    BY WidthFacts
<1>2. /\ currx \in Nat /\ dbcounter \in Nat /\ due \in Nat /\ dbdue \in Nat
      /\ sincezero \in Nat /\ kernel \in Nat
    BY WidthFacts DEF IInv, TypeOK, Numbers
<1>3. Numbers'
    <2>1. kernel' \in 0 .. (IF wide' THEN MAX64 ELSE MAX32)
        <3>1. CASE wide
            <4>1. kernel = sincezero
                BY <1>2, <3>1 DEF IInv, BaseInv, Base, BaseOf
            <4>2. kernel' = sincezero' /\ sincezero' <= MaxTraffic /\ wide'
                BY <1>1, <1>2, <3>1, <4>1 DEF Transfer
            <4>3. QED
                BY <1>1, <1>2, <4>1, <4>2, WidthFacts DEF Transfer
        <3>2. CASE ~wide
            <4>1. kernel <= MAX32 /\ ~wide'
                BY <1>2, <3>2 DEF IInv, TypeOK, Numbers, Transfer
            <4>2. QED
                BY <1>1, <1>2, <3>2, <4>1, WidthFacts DEF Transfer
        <3>3. QED
            BY <3>1, <3>2
    <2>2. /\ sincezero' \in 0 .. MaxTraffic
          /\ due' \in 0 .. sincezero' /\ dbdue' \in 0 .. sincezero'
        BY <1>1, <1>2, WidthFacts DEF IInv, TypeOK, Numbers, Transfer
    <2>3. UNCHANGED <<dbcounter, currx, dbage, age>>
        BY DEF Transfer
    <2>4. QED
        BY <2>1, <2>2, <2>3 DEF IInv, TypeOK, Numbers, Ages
<1>4. Flags'
    BY DEF IInv, Transfer, TypeOK, Flags, Lists, daemonvars
<1> DEFINE next == IF wide \/ kernel + n <= MAX32 THEN kernel + n
                                                  ELSE kernel + n - (MAX32 + 1)
<1>5. /\ wide \in BOOLEAN /\ wide' = wide /\ kernel' = next
      /\ wide \/ kernel <= MAX32
    BY <1>2 DEF IInv, TypeOK, Numbers, Flags, Transfer
<1>6. ASSUME NEW c \in Nat, NEW d \in Nat, BaseOf(wide, kernel, c, d)
      PROVE  BaseOf(wide', kernel', c, d + n)
    BY <1>1, <1>2, <1>5, <1>6, BaseTransfer
<1>7. Base(0, sincezero)'
    <2>1. BaseOf(wide, kernel, 0, sincezero)
        BY DEF IInv, BaseInv, Base
    <2>2. BaseOf(wide', kernel', 0, sincezero + n)
        BY <1>2, <1>6, <2>1
    <2>3. QED
        BY <2>2 DEF Base, Transfer
<1>8. (fresh => Base(currx, due))'
    <2>1. ASSUME fresh PROVE Base(currx, due)'
        <3>1. BaseOf(wide, kernel, currx, due)
            BY <2>1 DEF IInv, BaseInv, Base
        <3>2. BaseOf(wide', kernel', currx, due + n)
            BY <1>2, <1>6, <3>1
        <3>3. QED
            BY <2>1, <3>2 DEF Base, Transfer
    <2>2. fresh' = fresh
        BY DEF Transfer
    <2>3. QED
        BY <2>1, <2>2
<1>9. (dbfresh => Base(dbcounter, dbdue))'
    <2>1. ASSUME dbfresh PROVE Base(dbcounter, dbdue)'
        <3>1. BaseOf(wide, kernel, dbcounter, dbdue)
            BY <2>1 DEF IInv, BaseInv, Base
        <3>2. BaseOf(wide', kernel', dbcounter, dbdue + n)
            BY <1>2, <1>6, <3>1
        <3>3. QED
            BY <2>1, <3>2 DEF Base, Transfer
    <2>2. dbfresh' = dbfresh
        BY DEF Transfer
    <2>3. QED
        BY <2>1, <2>2
<1>10. QED
    BY <1>3, <1>4, <1>7, <1>8, <1>9 DEF IInv, BaseInv, TypeOK

LEMMA KeepsUpdate == ASSUME IInv, update PROVE IInv'
<1>1. CASE Disabled
    BY <1>1, KeepsDisabled
<1>2. CASE NotAvailable
    BY <1>2, KeepsNotAvailable
<1>3. CASE Synced
    BY <1>3, KeepsSynced
<1>4. CASE NotInTime
    BY <1>4, KeepsNotInTime
<1>5. CASE Counted
    BY <1>5, KeepsCounted
<1>6. QED
    BY <1>1, <1>2, <1>3, <1>4, <1>5 DEF update

LEMMA KeepsStuttering == ASSUME IInv, UNCHANGED vars PROVE IInv'
<1>1. Numbers'
    BY DEF IInv, TypeOK, Numbers, vars, kernelvars, rowvars, entryvars, daemonvars
<1>2. Flags'
    BY DEF IInv, TypeOK, Flags, vars, kernelvars, rowvars, entryvars, daemonvars
<1>3. BaseInv'
    BY DEF IInv, BaseInv, Base, vars, kernelvars, rowvars, entryvars, daemonvars
<1>4. QED
    BY <1>1, <1>2, <1>3 DEF IInv, TypeOK

LEMMA InvariantInit == Init => IInv
<1> SUFFICES ASSUME Init PROVE IInv
    OBVIOUS
<1>1. /\ kernel \in Nat /\ kernel <= MaxTraffic
      /\ wide \/ kernel <= MAX32
    BY WidthFacts, StartAssumption DEF Init
<1>2. Numbers
    BY <1>1, WidthFacts DEF Init, Numbers, Ages
<1>3. Flags
    BY DEF Init, Flags, Lists
<1>4. BaseInv
    BY <1>1, WidthFacts DEF Init, BaseInv, Base, BaseOf
<1>5. QED
    BY <1>2, <1>3, <1>4 DEF IInv, TypeOK

LEMMA InvariantNext == IInv /\ [Next]_vars => IInv'
<1> SUFFICES ASSUME IInv, [Next]_vars PROVE IInv'
    OBVIOUS
<1>1. CASE \E n \in 1 .. MAX32 + 1 : Transfer(n)
    BY <1>1, KeepsTransfer
<1>2. CASE Unplug
    BY <1>2, KeepsUnplug
<1>3. CASE Plug
    BY <1>3, KeepsPlug
<1>4. CASE OthersChange
    BY <1>4, KeepsOthersChange
<1>5. CASE DriverResets
    BY <1>5, KeepsDriverResets
<1>6. CASE Tick
    BY <1>6, KeepsTick
<1>7. CASE Start
    BY <1>7, KeepsStart
<1>8. CASE Save
    BY <1>8, KeepsSave
<1>9. CASE Reload
    BY <1>9, KeepsReload
<1>10. CASE Exit
    BY <1>10, KeepsExit
<1>11. CASE Killed
    BY <1>11, KeepsKilled
<1>12. CASE Boot
    BY <1>12, KeepsBoot
<1>13. CASE interfacechangecheck
    BY <1>13, KeepsInterfacechangecheck
<1>14. CASE NoList
    BY <1>14, KeepsNoList
<1>15. CASE initcachevalues
    BY <1>15, KeepsInitcachevalues
<1>16. CASE update
    BY <1>16, KeepsUpdate
<1>17. CASE UNCHANGED vars
    BY <1>17, KeepsStuttering
<1>18. QED
    BY <1>1, <1>2, <1>3, <1>4, <1>5, <1>6, <1>7, <1>8, <1>9, <1>10, <1>11,
       <1>12, <1>13, <1>14, <1>15, <1>16, <1>17 DEF Next

(* Every reachable state satisfies the inductive invariant: each counter   *)
(* value that counts as a base is one.                                     *)
THEOREM Invariance == Spec => []IInv
<1>1. QED
    BY InvariantInit, InvariantNext, PTL DEF Spec
-----------------------------------------------------------------------------
(* Every counter stays in its width, whatever the daemon and the kernel do. *)
THEOREM TypeCorrect == Spec => []TypeOK
<1>1. IInv => TypeOK
    BY DEF IInv
<1>2. QED
    BY <1>1, Invariance, PTL

(***************************************************************************)
(* What processifinfo makes of a counter value that is still a base.       *)
(***************************************************************************)
LEMMA ChangeIsKnown ==
    ASSUME IInv, Counts, fresh, NEW o \in OtherDirection
    PROVE  rxchange(o[1], o[2]) = IF kernel >= currx
                                  THEN kernel - currx ELSE MAX32 - currx + kernel
<1> DEFINE c64 == MAX64 - currx + kernel
           c32 == MAX32 - currx + kernel
           limit == (BWMAX + 1) * age
<1>1. /\ kernel \in Nat /\ currx \in Nat /\ wide \in BOOLEAN
      /\ MAX32 \in Nat /\ MAX64 \in Nat /\ mode \in {-2, -1, 0, 1}
    BY WidthFacts, ModesAssumption DEF IInv, TypeOK, Numbers, Flags
<1>2. age \in 0 .. MaxInterval /\ limit <= MAX64 - MAX32 /\ limit \in Nat
    <2>1. age \in 0 .. MaxInterval /\ age \in Nat
        BY WidthFacts DEF Counts, InTime
    <2>2. QED
        BY <2>1, WidthFacts
<1>3. CASE kernel >= currx
    BY <1>1, <1>3 DEF rxchange, countercalc
<1>4. CASE kernel < currx
    <2>1. Base(currx, due)
        BY DEF IInv, BaseInv
    <2>2. due \in Nat
        BY WidthFacts DEF IInv, TypeOK, Numbers
    <2>3. ~wide /\ currx <= MAX32
        BY <1>1, <1>4, <2>1, <2>2 DEF Base, BaseOf
    <2>4. kernel <= MAX32 /\ o[1] = FALSE
        <3>1. kernel <= MAX32
            BY <1>1, <2>3 DEF IInv, TypeOK, Numbers
        <3>2. o[1] \in {FALSE}
            BY <2>3 DEF OtherDirection
        <3>3. QED
            BY <3>1, <3>2
    <2>5. ~Needs64(o[1])
        BY <1>1, <2>3, <2>4 DEF Needs64
    <2>6. c64 >= limit
        BY <1>1, <1>2, <2>3
    <2>7. countercalc(currx, kernel, 0) = c32
        BY <1>1, <1>4, <2>3 DEF countercalc
    <2>8. countercalc(currx, kernel, is64bit(o[1])) \in {c32, c64}
        BY <1>1, <1>4 DEF countercalc
    <2>9. rxchange(o[1], o[2]) = c32
        BY <2>5, <2>6, <2>7, <2>8 DEF rxchange
    <2>10. QED
        BY <1>1, <1>4, <2>9
<1>5. QED
    BY <1>1, <1>3, <1>4

(* What the bases say of the next difference. *)
LEMMA InvariantImpliesNoPhantomTraffic == IInv => NoPhantomTraffic
<1> SUFFICES ASSUME IInv, Counts, fresh, NEW o \in OtherDirection
             PROVE  rxchange(o[1], o[2]) <= due
    BY DEF NoPhantomTraffic
<1>1. Base(currx, due)
    BY DEF IInv, BaseInv
<1>2. kernel \in Nat /\ currx \in Nat /\ due \in Nat /\ MAX32 \in Nat
    BY WidthFacts DEF IInv, TypeOK, Numbers
<1>3. QED
    BY <1>1, <1>2, ChangeIsKnown DEF Base, BaseOf

LEMMA InvariantImpliesNothingIsMissed == IInv => NothingIsMissed
<1> SUFFICES ASSUME IInv, Counts, fresh, due <= MAX32, NEW o \in OtherDirection
             PROVE  rxchange(o[1], o[2]) \in {due, due - 1}
    BY DEF NothingIsMissed
<1>1. Base(currx, due)
    BY DEF IInv, BaseInv
<1>2. kernel \in Nat /\ currx \in Nat /\ due \in Nat /\ MAX32 \in Nat
    BY WidthFacts DEF IInv, TypeOK, Numbers
<1>3. QED
    BY <1>1, <1>2, ChangeIsKnown DEF Base, BaseOf

(* No update counts traffic that was not transferred, for each setting of  *)
(* 64bitInterfaceCounters and each width of the kernel's counters, if the  *)
(* counter has not started from zero: what countercalc and the workaround  *)
(* in processifinfo decide together about a counter that went down.        *)
THEOREM TrafficIsReal == Spec => []NoPhantomTraffic
<1>1. QED
    BY Invariance, InvariantImpliesNoPhantomTraffic, PTL

(* And it counts all that was transferred since currx was read, but the    *)
(* one byte countercalc loses at a rollover.                               *)
THEOREM TrafficIsCounted == Spec => []NothingIsMissed
<1>1. QED
    BY Invariance, InvariantImpliesNothingIsMissed, PTL
=============================================================================
