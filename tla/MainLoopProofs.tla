--------------------------- MODULE MainLoopProofs ---------------------------
(***************************************************************************)
(* What module MainLoop guarantees for intervals of any length: as long as *)
(* the clock is not set, updates, saves and the end of the first wait come *)
(* in time, and nothing is divided by zero.                                *)
(***************************************************************************)
EXTENDS MainLoop, TLAPS

(* The constants, as the proofs use them. *)
LEMMA ConstantFacts ==
    /\ Poll \in Nat /\ Poll > 0 /\ Update \in Nat /\ Update > 0
    /\ Save \in Nat /\ OffSave \in Nat /\ Save <= OffSave /\ OffSave > 0 /\ Save > 0
    /\ EmptyUpdate \in Nat /\ EmptyUpdate > 0
    /\ SyncPoll \in Nat /\ TimeSyncWait \in Nat /\ SaveOnStatusChange \in BOOLEAN
    /\ DBRETRYLIMIT \in Nat /\ MaxWork \in Nat /\ MaxNow \in Nat /\ MaxJumps \in Nat
    /\ Boot \in Nat /\ Boot > 0 /\ SetTo \subseteq Boot .. MaxNow
BY IntervalAssumption, LoopBoundsAssumption, BootAssumption

(* A remainder is smaller than the divisor. *)
LEMMA Remainder ==
    ASSUME NEW a \in Nat, NEW b \in Nat, b > 0
    PROVE  a % b \in Nat /\ a % b < b /\ a % b <= a
OBVIOUS

(* A time that is aligned is less than an interval before the given one. *)
LEMMA Aligned ==
    ASSUME NEW time \in Nat, NEW interval \in Nat, interval > 0
    PROVE  /\ aligned(time, interval) \in Nat
           /\ aligned(time, interval) <= time
           /\ time <= aligned(time, interval) + interval - 1
BY Remainder DEF aligned

(***************************************************************************)
(* The inductive invariant.  When the next update is due, and when the     *)
(* wait is to end, bound the clock wherever the loop is: a pass begins     *)
(* before that, takes at most MaxWork, and one sleep later the next begins.*)
(***************************************************************************)
Base ==
    /\ now >= Boot
    /\ ~monitored => updated = Never /\ unsaved = Never
    /\ unsaved # Never => updated # Never
    /\ updated # Never => ~syncing /\ updateinterval = Update
    /\ pc \in {"top", "due"} => ~syncing
    /\ pc \in {"start", "wait"} => syncing
    /\ pc = "start" => prevdbupdate = Never

ClockInv ==
    jumps = 0 =>
    /\ prevdbupdate <= now
    /\ pc = "due" => prevdbupdate <= current /\ current <= now /\ now <= current + work
    /\ pc \in {"test", "gosleep"} /\ ~syncing /\ ~monitored => updateinterval # 0

LastPass == prevdbupdate + Update - 1    \* last time an update is not due

UpdateInv ==
    jumps = 0 /\ updated # Never =>
    /\ prevdbupdate <= updated
    /\ pc \in {"test", "gosleep"} => now <= LastPass + work
    /\ pc = "asleep" => now + left <= LastPass + work + Poll
    /\ pc \in {"signals", "handling", "top"} => now <= LastPass + work + Poll
    /\ pc = "due" => current <= LastPass + MaxWork + Poll
    /\ pc = "ended" => now <= LastPass + 2 * MaxWork + Poll

LastLook == prevdbupdate + TimeSyncWait - 1    \* last time the wait goes on

WaitInv ==
    jumps = 0 /\ syncing /\ prevdbupdate # Never =>
    /\ pc \in {"test", "gosleep", "signals", "handling"} => now <= LastLook + work
    /\ pc = "asleep" => now + left <= LastLook + work + SyncPoll
    /\ pc \in {"wait", "ended"} => now <= LastLook + work + SyncPoll

SaveInv ==
    jumps = 0 /\ unsaved # Never =>
    /\ prevdbsave <= unsaved
    /\ prevdbupdate < unsaved + OffSave

IInv == TypeOK /\ Base /\ ClockInv /\ UpdateInv /\ WaitInv /\ SaveInv

USE DEF dstate, clockvars, history, Never

(***************************************************************************)
(* The parts of an update.                                                 *)
(***************************************************************************)
LEMMA UpdateFacts ==
    ASSUME IInv, UpdateBegins
    PROVE  /\ prevdbupdate' \in Nat
           /\ prevdbupdate' <= current
           /\ current <= prevdbupdate' + Update - 1
BY Aligned, ConstantFacts DEF IInv, TypeOK, UpdateBegins

LEMMA SaveFacts ==
    ASSUME IInv, Saves
    PROVE  prevdbsave' \in Nat /\ prevdbsave' <= current /\ forcesave' = FALSE
BY Aligned, ConstantFacts DEF IInv, TypeOK, Saves, saveinterval

LEMMA PendingFacts ==
    ASSUME IInv, NEW p \in Pending
    PROVE  /\ p \in Nat
           /\ p # unsaved => p >= now /\ p >= prevdbsave
BY DEF IInv, TypeOK, Pending, Later

LEMMA FlushFacts ==
    ASSUME IInv, NEW p \in Nat, flushcachetodisk(p)
    PROVE  /\ dbretrycount' \in 0 .. DBRETRYLIMIT
           /\ unsaved' \in {Never, now}
           /\ p = Never => unsaved' = Never
BY ConstantFacts DEF IInv, TypeOK, flushcachetodisk

(***************************************************************************)
(* Every action keeps the invariant, one conjunct at a time.               *)
(***************************************************************************)
LEMMA KeepsTick == ASSUME IInv, Tick PROVE IInv'
<1>1. TypeOK'
    BY ConstantFacts DEF IInv, TypeOK, Tick
<1>2. Base'
    BY ConstantFacts DEF IInv, Base, TypeOK, Tick
<1>3. ClockInv'
    BY DEF IInv, ClockInv, TypeOK, Tick
<1>4. UpdateInv'
    BY ConstantFacts DEF IInv, UpdateInv, LastPass, TypeOK, Tick
<1>5. WaitInv'
    BY ConstantFacts DEF IInv, WaitInv, LastLook, TypeOK, Tick
<1>6. SaveInv'
    BY DEF IInv, SaveInv, Tick
<1>7. QED
    BY <1>1, <1>2, <1>3, <1>4, <1>5, <1>6 DEF IInv

LEMMA KeepsClockIsSet == ASSUME IInv, ClockIsSet PROVE IInv'
<1>1. TypeOK'
    BY ConstantFacts DEF IInv, TypeOK, ClockIsSet
<1>2. Base'
    BY ConstantFacts DEF IInv, Base, ClockIsSet
<1>3. ClockInv'
    BY DEF IInv, ClockInv, TypeOK, ClockIsSet
<1>4. UpdateInv'
    BY DEF UpdateInv, ClockIsSet
<1>5. WaitInv'
    BY DEF IInv, WaitInv, TypeOK, ClockIsSet
<1>6. SaveInv'
    BY DEF SaveInv, ClockIsSet
<1>7. QED
    BY <1>1, <1>2, <1>3, <1>4, <1>5, <1>6 DEF IInv

LEMMA Keepssighandler == ASSUME IInv, NEW sig \in Signals, sighandler(sig) PROVE IInv'
<1>1. TypeOK'
    BY DEF IInv, TypeOK, sighandler
<1>2. Base'
    BY DEF IInv, Base, sighandler
<1>3. ClockInv'
    BY DEF IInv, ClockInv, sighandler
<1>4. UpdateInv'
    BY ConstantFacts DEF IInv, UpdateInv, LastPass, TypeOK, sighandler
<1>5. WaitInv'
    BY ConstantFacts DEF IInv, WaitInv, LastLook, TypeOK, sighandler
<1>6. SaveInv'
    BY DEF IInv, SaveInv, sighandler
<1>7. QED
    BY <1>1, <1>2, <1>3, <1>4, <1>5, <1>6 DEF IInv

LEMMA KeepsStart == ASSUME IInv, Start PROVE IInv'
<1>1. TypeOK'
    BY DEF IInv, TypeOK, Places, Start, filldatabaselist
<1>2. Base'
    BY DEF IInv, Base, Start
<1>3. ClockInv'
    BY DEF IInv, ClockInv, Start
<1>4. UpdateInv'
    BY DEF IInv, UpdateInv, Start
<1>5. WaitInv'
    BY DEF IInv, WaitInv, Base, Start
<1>6. SaveInv'
    BY DEF IInv, SaveInv, Base, Start
<1>7. QED
    BY <1>1, <1>2, <1>3, <1>4, <1>5, <1>6 DEF IInv

LEMMA Keepswaittimesync == ASSUME IInv, waittimesync PROVE IInv'
<1>1. TypeOK'
    <2>1. LatestUpdates \subseteq Nat /\ WaitingSince \in Nat
        BY ConstantFacts DEF IInv, TypeOK, LatestUpdates, WaitingSince
    <2>2. prevdbsave' \in Nat /\ prevdbupdate' \in Nat
        BY <2>1 DEF IInv, TypeOK, waittimesync, NoWait, InTheFuture, InThePast
    <2>3. pc' \in Places /\ syncing' \in BOOLEAN
        BY DEF IInv, TypeOK, Places, waittimesync, NoWait, InTheFuture,
           InThePast, EndOfWait
    <2>4. QED
        BY <2>2, <2>3, ConstantFacts DEF IInv, TypeOK, waittimesync
<1>2. Base'
    BY DEF IInv, Base, waittimesync, NoWait, InTheFuture, InThePast, EndOfWait
<1>3. ClockInv'
    BY DEF IInv, ClockInv, TypeOK, waittimesync, NoWait, InTheFuture,
       InThePast, Waits, WaitingSince, EndOfWait
<1>4. UpdateInv'
    BY DEF IInv, UpdateInv, Base, waittimesync, NoWait, InTheFuture,
       InThePast, Waits
<1>5. WaitInv'
    BY ConstantFacts DEF IInv, WaitInv, Base, LastLook, TypeOK, waittimesync,
       NoWait, InTheFuture, InThePast, Waits, WaitingSince, WaitedEnough,
       EndOfWait
<1>6. SaveInv'
    BY DEF IInv, SaveInv, Base, waittimesync, NoWait, InTheFuture, InThePast,
       Waits
<1>7. QED
    BY <1>1, <1>2, <1>3, <1>4, <1>5, <1>6 DEF IInv

LEMMA KeepsCloseDown == ASSUME IInv, CloseDown PROVE IInv'
<1>1. TypeOK'
    BY DEF IInv, TypeOK, Places, CloseDown
<1>2. Base'
    BY DEF IInv, Base, CloseDown
<1>3. ClockInv'
    BY DEF IInv, ClockInv, CloseDown
<1>4. UpdateInv'
    BY ConstantFacts DEF IInv, UpdateInv, LastPass, TypeOK, CloseDown
<1>5. WaitInv'
    BY DEF IInv, WaitInv, Base, CloseDown
<1>6. SaveInv'
    BY DEF IInv, SaveInv, CloseDown
<1>7. QED
    BY <1>1, <1>2, <1>3, <1>4, <1>5, <1>6 DEF IInv

LEMMA KeepsCheckInterfaces == ASSUME IInv, CheckInterfaces PROVE IInv'
<1>1. TypeOK'
    BY ConstantFacts DEF IInv, TypeOK, Places, CheckInterfaces
<1>2. Base'
    BY DEF IInv, Base, CheckInterfaces
<1>3. ClockInv'
    BY DEF IInv, ClockInv, TypeOK, CheckInterfaces
<1>4. UpdateInv'
    BY ConstantFacts DEF IInv, UpdateInv, LastPass, TypeOK, CheckInterfaces
<1>5. WaitInv'
    BY DEF WaitInv, CheckInterfaces
<1>6. SaveInv'
    BY DEF IInv, SaveInv, CheckInterfaces
<1>7. QED
    BY <1>1, <1>2, <1>3, <1>4, <1>5, <1>6 DEF IInv

LEMMA KeepsNotDue == ASSUME IInv, NotDue PROVE IInv'
<1>1. TypeOK'
    BY DEF IInv, TypeOK, Places, NotDue
<1>2. Base'
    BY DEF IInv, Base, NotDue
<1>3. ClockInv'
    BY DEF IInv, ClockInv, TypeOK, NotDue, UpdateDue
<1>4. UpdateInv'
    BY DEF IInv, UpdateInv, ClockInv, Base, LastPass, TypeOK, NotDue, UpdateDue
<1>5. WaitInv'
    BY DEF IInv, WaitInv, Base, NotDue
<1>6. SaveInv'
    BY DEF IInv, SaveInv, NotDue
<1>7. QED
    BY <1>1, <1>2, <1>3, <1>4, <1>5, <1>6 DEF IInv

LEMMA KeepsFill == ASSUME IInv, Fill PROVE IInv'
<1>1. TypeOK'
    BY DEF IInv, TypeOK, Places, Fill, filldatabaselist
<1>2. Base'
    BY DEF IInv, Base, Fill
<1>3. ClockInv'
    BY ConstantFacts DEF IInv, ClockInv, Fill, filldatabaselist
<1>4. UpdateInv'
    BY DEF IInv, UpdateInv, Base, Fill
<1>5. WaitInv'
    BY DEF IInv, WaitInv, Base, Fill, UpdateDue
<1>6. SaveInv'
    BY DEF IInv, SaveInv, Base, Fill
<1>7. QED
    BY <1>1, <1>2, <1>3, <1>4, <1>5, <1>6 DEF IInv

LEMMA KeepsUpdateOnly == ASSUME IInv, UpdateOnly PROVE IInv'
<1>0. UpdateBegins
    BY DEF UpdateOnly, Updates
<1>1. /\ prevdbupdate' \in Nat
      /\ prevdbupdate' <= current
      /\ current <= prevdbupdate' + Update - 1
    BY <1>0, UpdateFacts
<1>2. unsaved' \in Nat /\ (unsaved' # unsaved => unsaved' >= now /\ unsaved' >= prevdbsave)
    BY PendingFacts DEF UpdateOnly
<1>3. prevdbsave' = prevdbsave /\ current < prevdbsave + OffSave
    BY ConstantFacts DEF IInv, TypeOK, UpdateOnly, SaveNeeded, saveinterval
<1>4. TypeOK'
    BY <1>1, <1>2 DEF IInv, TypeOK, Places, UpdateOnly, UpdateBegins, Updates
<1>5. Base'
    BY ConstantFacts DEF IInv, Base, UpdateOnly, UpdateBegins, UpdateDue,
       Updates
<1>6. ClockInv'
    BY <1>1 DEF IInv, ClockInv, TypeOK, UpdateOnly, UpdateBegins, UpdateDue,
       Updates
<1>7. UpdateInv'
    BY <1>1, ConstantFacts DEF IInv, UpdateInv, ClockInv, LastPass, TypeOK,
       UpdateOnly, UpdateBegins, UpdateDue, Updates
<1>8. WaitInv'
    BY DEF IInv, WaitInv, Base, UpdateOnly, UpdateBegins, UpdateDue, Updates
<1>9. SaveInv'
    BY <1>1, <1>2, <1>3, ConstantFacts DEF IInv, SaveInv, TypeOK, UpdateOnly,
       UpdateBegins, Updates
<1>10. QED
    BY <1>4, <1>5, <1>6, <1>7, <1>8, <1>9 DEF IInv

LEMMA KeepsUpdateAndSave == ASSUME IInv, UpdateAndSave PROVE IInv'
<1>0. UpdateBegins
    BY DEF UpdateAndSave, Updates
<1>1. /\ prevdbupdate' \in Nat
      /\ prevdbupdate' <= current
      /\ current <= prevdbupdate' + Update - 1
    BY <1>0, UpdateFacts
<1>2. prevdbsave' \in Nat /\ prevdbsave' <= current /\ forcesave' = FALSE
    BY SaveFacts DEF UpdateAndSave
<1>3. dbretrycount' \in 0 .. DBRETRYLIMIT /\ unsaved' \in {Never, now}
    BY PendingFacts, FlushFacts DEF UpdateAndSave
<1>4. TypeOK'
    <2>1. /\ pc' \in Places /\ active' \in BOOLEAN /\ forcesave' \in BOOLEAN
          /\ updateinterval' \in {0, Update, EmptyUpdate}
          /\ UNCHANGED <<syncing, running, monitored, intsignal, signal>>
        BY <1>2 DEF Places, UpdateAndSave, Updates, UpdateBegins
    <2>2. /\ {current', prevdbupdate', prevdbsave', now', left', updated', unsaved'} \subseteq Nat
          /\ dbretrycount' \in 0 .. DBRETRYLIMIT /\ work' \in 0 .. MaxWork /\ jumps' \in 0 .. MaxJumps
        BY <1>1, <1>2, <1>3 DEF IInv, TypeOK, UpdateAndSave, Updates,
           UpdateBegins
    <2>3. QED
        BY <2>1, <2>2 DEF IInv, TypeOK
<1>5. Base'
    BY <1>3 DEF IInv, Base, UpdateAndSave, UpdateBegins, UpdateDue, Updates
<1>6. ClockInv'
    BY <1>1 DEF IInv, ClockInv, TypeOK, UpdateAndSave, UpdateBegins,
       UpdateDue, Updates
<1>7. UpdateInv'
    BY <1>1, ConstantFacts DEF IInv, UpdateInv, ClockInv, LastPass, TypeOK,
       UpdateAndSave, UpdateBegins, UpdateDue, Updates
<1>8. WaitInv'
    BY DEF IInv, WaitInv, Base, UpdateAndSave, UpdateBegins, UpdateDue, Updates
<1>9. SaveInv'
    BY <1>1, <1>2, <1>3, ConstantFacts DEF IInv, SaveInv, ClockInv, TypeOK,
       UpdateAndSave, UpdateBegins, UpdateDue, Updates
<1>10. QED
    BY <1>4, <1>5, <1>6, <1>7, <1>8, <1>9 DEF IInv

LEMMA KeepsLastRemoved == ASSUME IInv, LastRemoved PROVE IInv'
<1>0. UpdateBegins
    BY DEF LastRemoved
<1>1. /\ prevdbupdate' \in Nat
      /\ prevdbupdate' <= current
      /\ current <= prevdbupdate' + Update - 1
    BY <1>0, UpdateFacts
<1>2. prevdbsave' \in Nat /\ prevdbsave' <= current /\ forcesave' = FALSE
    BY SaveFacts DEF LastRemoved
<1>3. dbretrycount' \in 0 .. DBRETRYLIMIT /\ unsaved' = Never
    BY FlushFacts DEF LastRemoved, CacheEmptied
<1>4. TypeOK'
    BY <1>1, <1>2, <1>3 DEF IInv, TypeOK, Places, LastRemoved, UpdateBegins,
       CacheEmptied
<1>5. Base'
    BY <1>3 DEF IInv, Base, LastRemoved, UpdateBegins, CacheEmptied
<1>6. ClockInv'
    BY <1>1 DEF IInv, ClockInv, TypeOK, LastRemoved, UpdateBegins, UpdateDue
<1>7. UpdateInv'
    BY DEF UpdateInv, LastRemoved, CacheEmptied
<1>8. WaitInv'
    BY DEF IInv, WaitInv, Base, LastRemoved, UpdateBegins, UpdateDue
<1>9. SaveInv'
    BY <1>3 DEF SaveInv
<1>10. QED
    BY <1>4, <1>5, <1>6, <1>7, <1>8, <1>9 DEF IInv

LEMMA KeepsFails == ASSUME IInv, Fails PROVE IInv'
<1>1. TypeOK'
    BY DEF IInv, TypeOK, Places, Fails
<1>2. Base'
    BY DEF IInv, Base, Fails
<1>3. ClockInv'
    BY DEF IInv, ClockInv, Fails
<1>4. UpdateInv'
    BY ConstantFacts DEF IInv, UpdateInv, ClockInv, LastPass, TypeOK, Fails,
       UpdateDue
<1>5. WaitInv'
    BY ConstantFacts DEF IInv, WaitInv, Base, LastLook, TypeOK, Fails,
       UpdateDue
<1>6. SaveInv'
    BY DEF IInv, SaveInv, Fails
<1>7. QED
    BY <1>1, <1>2, <1>3, <1>4, <1>5, <1>6 DEF IInv

LEMMA KeepsTestSignal == ASSUME IInv, TestSignal PROVE IInv'
<1>1. TypeOK'
    BY DEF IInv, TypeOK, Places, TestSignal
<1>2. Base'
    BY DEF IInv, Base, TestSignal
<1>3. ClockInv'
    BY DEF IInv, ClockInv, TestSignal
<1>4. UpdateInv'
    BY ConstantFacts DEF IInv, UpdateInv, LastPass, TypeOK, TestSignal
<1>5. WaitInv'
    BY DEF IInv, WaitInv, LastLook, TestSignal
<1>6. SaveInv'
    BY DEF IInv, SaveInv, TestSignal
<1>7. QED
    BY <1>1, <1>2, <1>3, <1>4, <1>5, <1>6 DEF IInv

LEMMA KeepsGoToSleep == ASSUME IInv, GoToSleep PROVE IInv'
<1>1. TypeOK'
    BY ConstantFacts DEF IInv, TypeOK, Places, GoToSleep, Interval
<1>2. Base'
    BY DEF IInv, Base, GoToSleep
<1>3. ClockInv'
    BY DEF IInv, ClockInv, GoToSleep
<1>4. UpdateInv'
    BY ConstantFacts DEF IInv, UpdateInv, Base, LastPass, TypeOK, GoToSleep,
       Interval
<1>5. WaitInv'
    BY ConstantFacts DEF IInv, WaitInv, LastLook, TypeOK, GoToSleep
<1>6. SaveInv'
    BY DEF IInv, SaveInv, GoToSleep
<1>7. QED
    BY <1>1, <1>2, <1>3, <1>4, <1>5, <1>6 DEF IInv

LEMMA KeepsDividesByZero == ASSUME IInv, DividesByZero PROVE IInv'
<1>1. TypeOK'
    BY DEF IInv, TypeOK, Places, DividesByZero
<1>2. Base'
    BY DEF IInv, Base, DividesByZero
<1>3. ClockInv'
    BY DEF IInv, ClockInv, DividesByZero
<1>4. UpdateInv'
    BY ConstantFacts DEF IInv, UpdateInv, LastPass, TypeOK, DividesByZero
<1>5. WaitInv'
    BY DEF WaitInv, DividesByZero
<1>6. SaveInv'
    BY DEF IInv, SaveInv, DividesByZero
<1>7. QED
    BY <1>1, <1>2, <1>3, <1>4, <1>5, <1>6 DEF IInv

LEMMA KeepsWakes == ASSUME IInv, Wakes PROVE IInv'
<1>1. TypeOK'
    BY DEF IInv, TypeOK, Places, Wakes
<1>2. Base'
    BY DEF IInv, Base, Wakes
<1>3. ClockInv'
    BY DEF IInv, ClockInv, Wakes
<1>4. UpdateInv'
    BY DEF IInv, UpdateInv, LastPass, TypeOK, Wakes
<1>5. WaitInv'
    BY DEF IInv, WaitInv, LastLook, TypeOK, Wakes
<1>6. SaveInv'
    BY DEF IInv, SaveInv, Wakes
<1>7. QED
    BY <1>1, <1>2, <1>3, <1>4, <1>5, <1>6 DEF IInv

LEMMA KeepsLooksAtSignal == ASSUME IInv, LooksAtSignal PROVE IInv'
<1>1. TypeOK'
    BY DEF IInv, TypeOK, Places, LooksAtSignal, Back
<1>2. Base'
    BY DEF IInv, Base, LooksAtSignal, Back
<1>3. ClockInv'
    BY DEF IInv, ClockInv, LooksAtSignal, Back
<1>4. UpdateInv'
    BY DEF IInv, UpdateInv, LastPass, LooksAtSignal, Back
<1>5. WaitInv'
    BY ConstantFacts DEF IInv, WaitInv, LastLook, TypeOK, LooksAtSignal, Back
<1>6. SaveInv'
    BY DEF IInv, SaveInv, LooksAtSignal
<1>7. QED
    BY <1>1, <1>2, <1>3, <1>4, <1>5, <1>6 DEF IInv

LEMMA KeepsReload == ASSUME IInv, Reload PROVE IInv'
<1>0. dbretrycount' \in 0 .. DBRETRYLIMIT /\ unsaved' = Never
    BY FlushFacts DEF Reload, CacheEmptied
<1>1. TypeOK'
    BY <1>0 DEF IInv, TypeOK, Places, Reload, HandlingDone, CacheEmptied, Back
<1>2. Base'
    BY <1>0 DEF IInv, Base, Reload, HandlingDone, CacheEmptied, Back
<1>3. ClockInv'
    BY DEF IInv, ClockInv, Reload, HandlingDone, Back
<1>4. UpdateInv'
    BY DEF UpdateInv, Reload, CacheEmptied
<1>5. WaitInv'
    BY ConstantFacts DEF IInv, WaitInv, LastLook, TypeOK, Reload,
       HandlingDone, Back
<1>6. SaveInv'
    BY <1>0 DEF SaveInv
<1>7. QED
    BY <1>1, <1>2, <1>3, <1>4, <1>5, <1>6 DEF IInv

LEMMA KeepsStop == ASSUME IInv, Stop PROVE IInv'
<1>1. TypeOK'
    BY DEF IInv, TypeOK, Places, Stop, HandlingDone, Back
<1>2. Base'
    BY DEF IInv, Base, Stop, HandlingDone, Back
<1>3. ClockInv'
    BY DEF IInv, ClockInv, Stop, HandlingDone, Back
<1>4. UpdateInv'
    BY DEF IInv, UpdateInv, LastPass, Stop, HandlingDone, Back
<1>5. WaitInv'
    BY ConstantFacts DEF IInv, WaitInv, LastLook, TypeOK, Stop, HandlingDone,
       Back
<1>6. SaveInv'
    BY DEF IInv, SaveInv, Stop, HandlingDone
<1>7. QED
    BY <1>1, <1>2, <1>3, <1>4, <1>5, <1>6 DEF IInv

LEMMA KeepsIgnore == ASSUME IInv, Ignore PROVE IInv'
<1>1. TypeOK'
    BY DEF IInv, TypeOK, Places, Ignore, HandlingDone, Back
<1>2. Base'
    BY DEF IInv, Base, Ignore, HandlingDone, Back
<1>3. ClockInv'
    BY DEF IInv, ClockInv, Ignore, HandlingDone, Back
<1>4. UpdateInv'
    BY DEF IInv, UpdateInv, LastPass, Ignore, HandlingDone, Back
<1>5. WaitInv'
    BY ConstantFacts DEF IInv, WaitInv, LastLook, TypeOK, Ignore,
       HandlingDone, Back
<1>6. SaveInv'
    BY DEF IInv, SaveInv, Ignore, HandlingDone
<1>7. QED
    BY <1>1, <1>2, <1>3, <1>4, <1>5, <1>6 DEF IInv

LEMMA KeepsNext == IInv /\ [Next]_vars => IInv'
<1>1. ASSUME IInv, UNCHANGED vars PROVE IInv'
    BY <1>1 DEF IInv, vars, TypeOK, Base, ClockInv, UpdateInv, LastPass,
       WaitInv, LastLook, SaveInv
<1>2. ASSUME IInv, Step PROVE IInv'
    BY <1>2, KeepsStart, Keepswaittimesync, KeepsCloseDown,
       KeepsCheckInterfaces,
       KeepsNotDue, KeepsFill, KeepsUpdateOnly, KeepsUpdateAndSave, KeepsLastRemoved,
       KeepsFails, KeepsTestSignal, KeepsGoToSleep, KeepsDividesByZero, KeepsWakes,
       KeepsLooksAtSignal, KeepsReload, KeepsStop, KeepsIgnore DEF Step, handleintsignals
<1>3. QED
    BY <1>1, <1>2, KeepsTick, KeepsClockIsSet, Keepssighandler DEF Next, Ended

LEMMA StartsRight == Init => IInv
<1> SUFFICES ASSUME Init PROVE IInv
    OBVIOUS
<1>1. TypeOK
    <2>1. /\ {current, prevdbupdate, prevdbsave, now, left, updated, unsaved} \subseteq Nat
          /\ dbretrycount \in 0 .. DBRETRYLIMIT /\ work \in 0 .. MaxWork /\ jumps \in 0 .. MaxJumps
        BY ConstantFacts DEF Init
    <2>2. QED
        BY <2>1 DEF Init, TypeOK, Places, Signals, NoSignal, Refilled
<1>2. Base /\ ClockInv /\ UpdateInv /\ WaitInv /\ SaveInv
    BY ConstantFacts DEF Init, Base, ClockInv, UpdateInv, WaitInv, SaveInv
<1>3. QED
    BY <1>1, <1>2 DEF IInv

LEMMA Invariant == Spec => []IInv
BY StartsRight, KeepsNext, PTL DEF Spec

(***************************************************************************)
(* The theorems.                                                           *)
(***************************************************************************)
(* Every variable keeps its type. *)
THEOREM TypeCorrect == Spec => []TypeOK
<1>1. IInv => TypeOK
    BY DEF IInv
<1>2. QED
    BY <1>1, Invariant, PTL

(* Two updates are never further apart than the sum of the intervals,      *)
(* whatever signals arrive in between and whenever the loop sleeps.        *)
THEOREM UpdatesComeInTime == Spec => []UpdatedInTime
<1>1. IInv => UpdatedInTime
    BY ConstantFacts DEF IInv, TypeOK, Places, Base, ClockInv, UpdateInv,
       LastPass, UpdatedInTime
<1>2. QED
    BY <1>1, Invariant, PTL

(* Counted traffic is written, or its writing is attempted, in time.       *)
THEOREM SavesComeInTime == Spec => []SavedInTime
<1>1. IInv => SavedInTime
    <2> SUFFICES ASSUME IInv, monitored, unsaved # Never, jumps = 0
                 PROVE  now - unsaved < OffSave + Update + Poll + 2 * MaxWork
        BY DEF SavedInTime
    <2>1. now <= LastPass + 2 * MaxWork + Poll
        BY ConstantFacts DEF IInv, TypeOK, Places, Base, ClockInv, UpdateInv,
           LastPass
    <2>2. prevdbupdate < unsaved + OffSave
        BY DEF IInv, SaveInv
    <2>3. QED
        BY <2>1, <2>2, ConstantFacts DEF IInv, TypeOK, LastPass
<1>2. QED
    BY <1>1, Invariant, PTL

(* The length of a sleep is never computed with an interval of zero, in    *)
(* whatever order reloads, refills and signals come.                       *)
THEOREM NothingIsDividedByZero == Spec => []IntervalNotZero
<1>1. IInv => IntervalNotZero
    BY ConstantFacts DEF IInv, ClockInv, IntervalNotZero, Interval
<1>2. QED
    BY <1>1, Invariant, PTL

(* The wait for the clock at the start ends in time. *)
THEOREM TheWaitIsBounded == Spec => []WaitIsBounded
<1>1. IInv => WaitIsBounded
    BY ConstantFacts DEF IInv, TypeOK, Places, Base, WaitInv, LastLook,
       WaitIsBounded
<1>2. QED
    BY <1>1, Invariant, PTL
=============================================================================
