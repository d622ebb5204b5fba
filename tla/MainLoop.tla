------------------------------ MODULE MainLoop ------------------------------
(***************************************************************************)
(* The main loop of vnstatd against the clock and against signals: the     *)
(* wait for the clock at the start, polls, updates and saves, and the one  *)
(* variable, intsignal, in which a signal handler leaves what arrived.     *)
(*                                                                         *)
(* Of the cache only this is kept: whether it has entries, whether any is  *)
(* active, and since when it has traffic that is not in the database.  A   *)
(* flush works, fails or ends the daemon as a whole (Daemon has its        *)
(* steps); a full disk, which may last for any time, is left out.          *)
(*                                                                         *)
(* The clock advances by ticks.  MaxWork of them may pass in one pass of   *)
(* the loop outside sleep().                                               *)
(***************************************************************************)
EXTENDS Integers

CONSTANTS
    Poll,                \* PollInterval
    Update,              \* UpdateInterval
    Save,                \* SaveInterval
    OffSave,             \* OfflineSaveInterval
    EmptyUpdate,         \* update interval without interfaces
    TimeSyncWait,        \* TimeSyncWait; 0 disables the wait
    SyncPoll,            \* time between looks at the clock in that wait
    SaveOnStatusChange,  \* setting
    DBRETRYLIMIT,        \* failed flushes in a row that the daemon survives
    MaxWork,             \* bound: time one pass of the loop needs
    Boot,                \* bound: the earliest time
    MaxNow,              \* bound: the clock stops here
    MaxJumps,            \* bound: how often the clock is set
    SetTo                \* bound: what it is set to

ASSUME IntervalAssumption ==
    /\ {Poll, Update, Save, OffSave, EmptyUpdate, SyncPoll} \subseteq Nat \ {0}
    /\ Save <= OffSave
    /\ TimeSyncWait \in Nat
    /\ SaveOnStatusChange \in BOOLEAN

ASSUME LoopBoundsAssumption == 
    /\ {DBRETRYLIMIT, MaxWork, MaxNow, MaxJumps} \subseteq Nat
    /\ SetTo \subseteq Boot .. MaxNow

(* A time is a number of seconds since 1970, so one that is not set is     *)
(* longer ago than any interval.                                           *)
ASSUME BootAssumption ==
    /\ Boot \in Nat \ {0}
    /\ \A interval \in {Poll, Update, Save, OffSave, EmptyUpdate, TimeSyncWait} :
          interval <= Boot

VARIABLES
    pc,              \* where the loop is
    syncing,         \* in the loop that waits for the clock
    running,         \* DSTATE
    monitored,       \* dbifcount is not 0
    active,          \* an entry of the cache is active
    current,         \* DSTATE: the time this pass goes by, until it is used
    prevdbupdate,    \* DSTATE
    prevdbsave,      \* DSTATE
    updateinterval,  \* DSTATE
    forcesave,       \* DSTATE
    dbretrycount,    \* DSTATE
    intsignal,       \* written by the signal handler
    signal,          \* what handleintsignals has found in it
    now,             \* the system's clock
    left,            \* what is left of a sleep
    work,            \* time used in this pass of the loop
    jumps,           \* how often the clock was set
    updated,         \* history: time of the last update of this cache
    unsaved          \* history: from when unsaved traffic waits to be saved

dstate == <<running, monitored, active, current, prevdbupdate, prevdbsave,
            updateinterval, forcesave, dbretrycount>>
clockvars == <<now, left, work, jumps>>
history == <<updated, unsaved>>
vars == <<pc, syncing, dstate, intsignal, signal, clockvars, history>>

Never == 0          \* a time_t that is not set
NoSignal == "0"
Refilled == "42"    \* the value filldatabaselist leaves in intsignal
Signals == {"SIGHUP", "SIGTERM"}    \* SIGINT is handled like SIGTERM

Places == {"start", "wait", "top", "due", "test", "gosleep", "asleep",
           "signals", "handling", "ended"}

TypeOK ==
    /\ pc \in Places
    /\ syncing \in BOOLEAN
    /\ running \in BOOLEAN
    /\ monitored \in BOOLEAN
    /\ active \in BOOLEAN
    /\ current \in Nat
    /\ prevdbupdate \in Nat
    /\ prevdbsave \in Nat
    /\ updateinterval \in {0, Update, EmptyUpdate}
    /\ forcesave \in BOOLEAN
    /\ dbretrycount \in 0 .. DBRETRYLIMIT
    /\ intsignal \in Signals \cup {NoSignal, Refilled}
    /\ signal \in Signals \cup {NoSignal, Refilled}
    /\ now \in Nat
    /\ left \in Nat
    /\ work \in 0 .. MaxWork
    /\ jumps \in 0 .. MaxJumps
    /\ updated \in Nat
    /\ unsaved \in Nat

Init ==
    /\ pc = "start"
    /\ syncing = TRUE
    /\ running = TRUE
    /\ monitored = FALSE
    /\ active = FALSE
    /\ current = Never
    /\ prevdbupdate = Never
    /\ prevdbsave = Never
    /\ updateinterval = Update
    /\ forcesave = FALSE
    /\ dbretrycount = 0
    /\ intsignal = NoSignal
    /\ signal = NoSignal
    /\ now \in Boot .. MaxNow
    /\ left = 0
    /\ work = 0
    /\ jumps = 0
    /\ updated = Never
    /\ unsaved = Never
-----------------------------------------------------------------------------
(***************************************************************************)
(* The environment: the clock and the signals.                             *)
(***************************************************************************)
Tick ==
    /\ pc # "ended"
    /\ \/ pc = "asleep" /\ left > 0 /\ left' = left - 1 /\ work' = work
       \/ pc # "asleep" /\ work < MaxWork /\ work' = work + 1 /\ left' = left
    /\ now' = IF now < MaxNow THEN now + 1 ELSE now
    /\ UNCHANGED <<pc, syncing, dstate, intsignal, signal, jumps, history>>

ClockIsSet ==
    /\ pc # "ended" /\ jumps < MaxJumps
    /\ jumps' = jumps + 1
    /\ now' \in SetTo
    /\ updated' = Never
    /\ unsaved' = Never
    /\ UNCHANGED <<pc, syncing, dstate, intsignal, signal, left, work>>

(* A sleep that is under way ends. *)
sighandler(sig) ==
    /\ pc # "ended"
    /\ intsignal' = sig
    /\ left' = 0
    /\ UNCHANGED <<pc, syncing, dstate, signal, now, work, jumps, history>>
-----------------------------------------------------------------------------
(***************************************************************************)
(* The start.                                                              *)
(***************************************************************************)
(* found tells whether the database has interfaces. *)
filldatabaselist(found) ==
    /\ monitored' = found
    /\ active' = found
    /\ updateinterval' = IF found THEN 0 ELSE EmptyUpdate
    /\ intsignal' = IF found THEN Refilled ELSE intsignal

Start ==
    /\ pc = "start"
    /\ \E found \in BOOLEAN : filldatabaselist(found)
    /\ prevdbsave' = Never
    /\ pc' = "wait"
    /\ UNCHANGED <<syncing, running, current, prevdbupdate, forcesave,
                   dbretrycount, signal, clockvars, history>>

WaitingSince == IF prevdbupdate = Never THEN now ELSE prevdbupdate

(* The latest update in the database, looked up in the first call. *)
LatestUpdates == IF prevdbupdate = Never /\ prevdbsave = Never
                 THEN {Never} \cup Boot .. MaxNow ELSE {prevdbsave}

(* Mutant of WaitedEnough: off by one. *)
WaitedMore == now - WaitingSince > TimeSyncWait

WaitedEnough == now - WaitingSince >= TimeSyncWait

Waits == pc = "wait" /\ running /\ monitored /\ TimeSyncWait # 0

EndOfWait == pc' = "top" /\ syncing' = FALSE

NoWait ==
    /\ pc = "wait"
    /\ ~Waits \/ Never \in LatestUpdates
    /\ EndOfWait
    /\ UNCHANGED <<prevdbupdate, prevdbsave>>

InTheFuture ==
    /\ Waits
    /\ \E latest \in LatestUpdates : now < latest /\ prevdbsave' = latest
    /\ prevdbupdate' = WaitingSince
    /\ IF WaitedEnough
       THEN EndOfWait
       ELSE pc' = "test" /\ UNCHANGED syncing

InThePast ==
    /\ Waits
    /\ \E latest \in LatestUpdates \ {Never} : now >= latest
    /\ prevdbsave' = now
    /\ prevdbupdate' = Never
    /\ EndOfWait

waittimesync ==
    /\ NoWait \/ InTheFuture \/ InThePast
    /\ work' = 0
    /\ UNCHANGED <<running, monitored, active, current, updateinterval,
                   forcesave, dbretrycount, intsignal, signal, now, left,
                   jumps, history>>
-----------------------------------------------------------------------------
(***************************************************************************)
(* One pass of the main loop.                                              *)
(***************************************************************************)
CloseDown ==
    /\ pc = "top" /\ ~running
    /\ pc' = "ended"
    /\ UNCHANGED <<syncing, dstate, intsignal, signal, clockvars, history>>

(* interfacechangecheck may enable or disable entries. *)
CheckInterfaces ==
    /\ pc = "top" /\ running
    /\ pc' = "due"
    /\ current' = now
    /\ work' = 0
    /\ \/ UNCHANGED <<active, forcesave>>
       \/ /\ monitored
          /\ active' \in BOOLEAN
          /\ forcesave' = (forcesave \/ SaveOnStatusChange)
    /\ UNCHANGED <<syncing, running, monitored, prevdbupdate, prevdbsave,
                   updateinterval, dbretrycount, intsignal, signal, now, left,
                   jumps, history>>

(* Mutant of UpdateDue: off by one. *)
UpdateDueLater == pc = "due" /\ current - prevdbupdate > updateinterval

UpdateDue == pc = "due" /\ current - prevdbupdate >= updateinterval

NotDue ==
    /\ pc = "due" /\ ~UpdateDue
    /\ pc' = "test"
    /\ current' = Never
    /\ UNCHANGED <<syncing, running, monitored, active, prevdbupdate,
                   prevdbsave, updateinterval, forcesave, dbretrycount,
                   intsignal, signal, clockvars, history>>

Fill ==
    /\ UpdateDue /\ ~monitored
    /\ \E found \in BOOLEAN :
          /\ filldatabaselist(found)
          /\ prevdbsave' = IF found THEN current ELSE prevdbsave
    /\ pc' = "test"
    /\ current' = Never
    /\ UNCHANGED <<syncing, running, prevdbupdate, forcesave,
                   dbretrycount, signal, clockvars, history>>

aligned(time, interval) == time - (time % interval)

(* adjustsaveinterval *)
saveinterval == IF active THEN Save ELSE OffSave

(* checkdbsaveneed *)
SaveNeeded == current - prevdbsave >= saveinterval \/ forcesave

Later(s, t) == IF s > t THEN s ELSE t

(* From when the oldest traffic waits once this update has added its own,  *)
(* which needs an active interface: from now, or from the update in the    *)
(* database that is later than the clock.                                  *)
Pending == {unsaved} \cup
           IF active /\ unsaved = Never THEN {Later(now, prevdbsave)} ELSE {}

(* Mutant of flushcachetodisk: failures are not limited. *)
flushwithoutlimit(pending) ==
    \/ unsaved' = Never /\ dbretrycount' = 0
    \/ /\ unsaved' = IF pending = Never THEN Never ELSE now
       /\ dbretrycount' = dbretrycount + 1

(* With "pending" before the flush: it works, or another one is awaited.    *)
flushcachetodisk(pending) ==
    \/ unsaved' = Never /\ dbretrycount' = 0
    \/ /\ dbretrycount < DBRETRYLIMIT
       /\ unsaved' = IF pending = Never THEN Never ELSE now
       /\ dbretrycount' = dbretrycount + 1

(* A flush of which the cache keeps nothing. *)
CacheEmptied ==
    /\ flushcachetodisk(Never)
    /\ monitored' = FALSE
    /\ active' = FALSE
    /\ updated' = Never

(* Mutant of UpdateBegins: the interval stays as it was. *)
UpdateBeginsOnly ==
    /\ UpdateDue /\ monitored
    /\ prevdbupdate' = aligned(current, Update)
    /\ current' = Never
    /\ pc' = "test"
    /\ UNCHANGED <<syncing, running, updateinterval, intsignal, signal, clockvars>>

UpdateBegins ==
    /\ UpdateDue /\ monitored
    /\ updateinterval' = Update
    /\ prevdbupdate' = aligned(current, Update)
    /\ current' = Never
    /\ pc' = "test"
    /\ UNCHANGED <<syncing, running, intsignal, signal, clockvars>>

(* processdatacache: getifinfo may fail. *)
Updates ==
    /\ UpdateBegins
    /\ updated' = now
    /\ active' \in (IF active THEN BOOLEAN ELSE {FALSE})

(* Mutant of UpdateOnly: looking whether a save is due counts as one. *)
UpdateOnlyRestarts ==
    /\ Updates
    /\ ~SaveNeeded
    /\ unsaved' \in Pending
    /\ prevdbsave' = current
    /\ UNCHANGED <<monitored, forcesave, dbretrycount>>

UpdateOnly ==
    /\ Updates
    /\ ~SaveNeeded
    /\ unsaved' \in Pending
    /\ UNCHANGED <<monitored, prevdbsave, forcesave, dbretrycount>>

Saves ==
    /\ SaveNeeded
    /\ prevdbsave' = aligned(current, saveinterval)
    /\ forcesave' = FALSE

UpdateAndSave ==
    /\ Updates
    /\ Saves
    /\ \E pending \in Pending : flushcachetodisk(pending)
    /\ UNCHANGED monitored

(* cleanremovedinterfaces finds none of the interfaces in the database. *)
LastRemoved ==
    /\ UpdateBegins
    /\ Saves
    /\ CacheEmptied

(* errorexitdaemon: a list that cannot be read, a clock that is far off, a *)
(* flush that fails for good; and exits after a reload.                    *)
Fails ==
    /\ UpdateDue \/ (pc = "handling" /\ signal = "SIGHUP")
    /\ pc' = "ended"
    /\ UNCHANGED <<syncing, dstate, intsignal, signal, clockvars, history>>
-----------------------------------------------------------------------------
(***************************************************************************)
(* Sleep and signals, of both loops.                                       *)
(***************************************************************************)
(* Mutant of TestSignal: the test takes the signal away. *)
TestSignalClears ==
    /\ pc = "test"
    /\ pc' = IF intsignal = NoSignal THEN "gosleep" ELSE "signals"
    /\ intsignal' = NoSignal
    /\ UNCHANGED <<syncing, dstate, signal, clockvars, history>>

TestSignal ==
    /\ pc = "test"
    /\ pc' = IF intsignal = NoSignal THEN "gosleep" ELSE "signals"
    /\ UNCHANGED <<syncing, dstate, intsignal, signal, clockvars, history>>

Interval == IF monitored THEN Poll ELSE updateinterval

(* Computing the length of the sleep divides by the interval. *)
GoToSleep ==
    /\ pc = "gosleep"
    /\ syncing \/ Interval # 0
    /\ pc' = "asleep"
    /\ left' = IF syncing THEN SyncPoll ELSE Interval - (now % Interval)
    /\ UNCHANGED <<syncing, dstate, intsignal, signal, now, work, jumps,
                   history>>

DividesByZero ==
    /\ pc = "gosleep"
    /\ ~syncing /\ Interval = 0
    /\ pc' = "ended"
    /\ UNCHANGED <<syncing, dstate, intsignal, signal, clockvars, history>>

Wakes ==
    /\ pc = "asleep" /\ left = 0
    /\ pc' = IF syncing THEN "wait" ELSE "signals"
    /\ UNCHANGED <<syncing, dstate, intsignal, signal, clockvars, history>>

Back == IF syncing THEN "wait" ELSE "top"

LooksAtSignal ==
    /\ pc = "signals"
    /\ signal' = intsignal
    /\ pc' = IF intsignal = NoSignal THEN Back ELSE "handling"
    /\ UNCHANGED <<syncing, dstate, intsignal, clockvars, history>>

(* Whatever intsignal holds by now. *)
HandlingDone ==
    /\ pc = "handling"
    /\ intsignal' = NoSignal
    /\ signal' = NoSignal
    /\ pc' = Back
    /\ UNCHANGED <<syncing, current, prevdbupdate, prevdbsave, updateinterval,
                   forcesave, clockvars>>

(* The cache is flushed, then cleared whether that worked or not. *)
Reload ==
    /\ HandlingDone
    /\ signal = "SIGHUP"
    /\ CacheEmptied
    /\ UNCHANGED running

Stop ==
    /\ HandlingDone
    /\ signal = "SIGTERM"
    /\ running' = FALSE
    /\ UNCHANGED <<monitored, active, dbretrycount, updated, unsaved>>

Ignore ==
    /\ HandlingDone
    /\ signal = Refilled
    /\ UNCHANGED <<running, monitored, active, dbretrycount, updated, unsaved>>

handleintsignals == Reload \/ Stop \/ Ignore
-----------------------------------------------------------------------------
Step ==
    \/ Start
    \/ waittimesync
    \/ CloseDown
    \/ CheckInterfaces
    \/ NotDue
    \/ Fill
    \/ UpdateOnly
    \/ UpdateAndSave
    \/ LastRemoved
    \/ Fails
    \/ TestSignal
    \/ GoToSleep
    \/ DividesByZero
    \/ Wakes
    \/ LooksAtSignal
    \/ handleintsignals

(* The process is gone. *)
Ended == pc = "ended" /\ UNCHANGED vars

Next ==
    \/ Step
    \/ Tick
    \/ ClockIsSet
    \/ \E sig \in Signals : sighandler(sig)
    \/ Ended

Spec == Init /\ [][Next]_vars

(* The daemon is scheduled, and sleeps end. *)
FairSpec == Spec /\ WF_vars(Step) /\ WF_vars(Tick)
-----------------------------------------------------------------------------
(* Two updates of a cache are never further apart than an update interval, *)
(* a poll and the time the loop needs, however often signals wake it up:   *)
(* processifinfo counts nothing when they are more than 360 seconds apart, *)
(* which is 300 and 60, the largest intervals the settings can have.       *)
UpdatedInTime ==
    monitored /\ updated # Never /\ jumps = 0
    => now - updated <= Update + Poll - 1 + 2 * MaxWork

(* From the moment it is counted, and again from every attempt to write it *)
(* that fails (handledatabaseerror allows DBRETRYLIMIT of them in a row),  *)
(* traffic waits less than a save interval, an update interval, a poll and *)
(* the time the loop needs for the next attempt.                           *)
SavedInTime ==
    monitored /\ unsaved # Never /\ jumps = 0
    => now - unsaved < OffSave + Update + Poll + 2 * MaxWork

(* The interval that is divided by when there is nothing to monitor is     *)
(* never the zero with which filldatabaselist disables it for one pass,    *)
(* in whatever order a reload, a refill and the test of intsignal come.    *)
IntervalNotZero ==
    pc = "gosleep" /\ ~syncing /\ jumps = 0 => Interval # 0

(* The wait for the clock takes no longer than TimeSyncWait and one sleep. *)
WaitIsBounded ==
    syncing /\ prevdbupdate # Never /\ jumps = 0
    => now - prevdbupdate < TimeSyncWait + SyncPoll + MaxWork

(* A request to stop that is pending while interfaces are monitored, and   *)
(* does not arrive while another signal is handled, is obeyed unless a     *)
(* SIGHUP takes its place.                                                 *)
Heeded ==
    intsignal = "SIGTERM" /\ monitored /\ pc # "handling"
    ~> (pc = "ended" \/ intsignal = "SIGHUP")
=============================================================================
