------------------------------ MODULE Monitor ------------------------------
(***************************************************************************)
(* One monitored interface: the kernel's byte counter, the cache entry     *)
(* vnstatd keeps for it and the row the entry is filled from.  The kernel  *)
(* counts on 32 or 64 bits and starts from zero again when the interface   *)
(* is plugged in, when its driver resets it and when the system boots; the *)
(* daemon compares counter values, decides whether one that is smaller     *)
(* than the one before has rolled over, and may be restarted any time.     *)
(*                                                                         *)
(* One direction is kept; of the other it matters only whether its         *)
(* counters need 64 bits.  The clock only goes forward here, and the list  *)
(* of visible interfaces is this one and whether others have come or gone. *)
(***************************************************************************)
EXTENDS Integers

CONSTANTS
    MAX32, MAX64,    \* the largest values of a 32-bit and of a 64-bit counter
    BWMAX,           \* no interface transfers more per unit of time
    MaxInterval,     \* 360 seconds
    Modes,           \* values of 64bitInterfaceCounters
    StartCounters,   \* counter values when the interface was added
    Events,          \* what may reset the kernel's counter
    MaxTraffic       \* bound: traffic since a counter value was stored

(* A 32-bit counter that went around is never too fast for an interface,   *)
(* and a rollover taken for one of 64 bits always is.                      *)
ASSUME WidthAssumption ==
    /\ MAX32 \in Nat /\ MAX64 \in Nat /\ BWMAX \in Nat /\ MaxInterval \in Nat
    /\ MAX32 <= MAX64
    /\ MAX32 <= BWMAX
    /\ MAX64 - MAX32 >= (BWMAX + 1) * MaxInterval
ASSUME ModesAssumption == Modes \subseteq {-2, -1, 0, 1}
ASSUME StartAssumption == MaxTraffic \in 0 .. MAX64 /\ StartCounters \subseteq 0 .. MaxTraffic
ASSUME EventsAssumption == Events \subseteq {"unplug", "reset", "boot"}

VARIABLES
    mode,          \* 64bitInterfaceCounters
    wide,          \* the kernel counts on 64 bits
    kernel,        \* the kernel's counter
    present,       \* the interface is visible
    others,        \* stands for the other visible interfaces
    booted,        \* the boot time is not the one in the database
    dbcounter,     \* rxcounter of the row
    dbage,         \* time since "updated" of the row
    running,       \* the daemon is
    bootdetected,  \* DSTATE
    seen,          \* DSTATE: iflisthash, as the list that it is the hash of
    filled, active, syncneeded, currx, age,    \* the cache entry
    logged,        \* its log is not empty
    sincezero,     \* history: traffic since the kernel's counter was zero
    due,           \* history: traffic since currx was the kernel's counter
    fresh,         \* history: that was after the last reset
    dbdue, dbfresh \* history: the same of dbcounter

kernelvars == <<mode, wide, kernel, present, others, booted, sincezero>>
rowvars == <<dbcounter, dbage, dbdue, dbfresh>>
entryvars == <<filled, active, syncneeded, currx, age, logged, due, fresh>>
daemonvars == <<running, bootdetected, seen>>
vars == <<kernelvars, rowvars, entryvars, daemonvars>>

Ages == 0 .. MaxInterval + 1    \* the last one stands for any longer time
Lists == BOOLEAN \X BOOLEAN
unknown == <<>>                 \* iflisthash is 0

Numbers ==
    /\ kernel \in 0 .. (IF wide THEN MAX64 ELSE MAX32)
    /\ dbcounter \in 0 .. MAX64 /\ currx \in 0 .. MAX64
    /\ dbage \in Ages /\ age \in Ages
    /\ sincezero \in 0 .. MaxTraffic
    /\ due \in 0 .. sincezero /\ dbdue \in 0 .. sincezero

Flags ==
    /\ mode \in Modes
    /\ wide \in BOOLEAN /\ present \in BOOLEAN /\ others \in BOOLEAN
    /\ booted \in BOOLEAN /\ running \in BOOLEAN /\ bootdetected \in BOOLEAN
    /\ seen \in Lists \cup {unknown}
    /\ filled \in BOOLEAN /\ active \in BOOLEAN /\ syncneeded \in BOOLEAN
    /\ logged \in BOOLEAN /\ fresh \in BOOLEAN /\ dbfresh \in BOOLEAN
    /\ ~running => ~active /\ ~filled /\ ~logged

TypeOK == Numbers /\ Flags

(* The interface has just been added to the database: with its counters,   *)
(* or, by vnstat --add, with counters of zero.                             *)
Init ==
    /\ mode \in Modes
    /\ wide \in BOOLEAN
    /\ kernel \in {c \in StartCounters : wide \/ c <= MAX32}
    /\ present = TRUE /\ others = FALSE /\ booted = FALSE
    /\ dbcounter \in {kernel, 0} /\ dbage = 0
    /\ running = FALSE /\ bootdetected = FALSE /\ seen = unknown
    /\ filled = FALSE /\ active = FALSE /\ syncneeded = FALSE
    /\ currx = 0 /\ age = 0 /\ logged = FALSE
    /\ sincezero = kernel /\ due = 0 /\ fresh = FALSE
    /\ dbdue = kernel - dbcounter /\ dbfresh = TRUE
-----------------------------------------------------------------------------
(***************************************************************************)
(* The kernel.                                                             *)
(***************************************************************************)
(* A 32-bit counter rolls over at most once: n is not larger than it.      *)
Transfer(n) ==
    /\ present
    /\ sincezero + n <= MaxTraffic
    /\ kernel' = IF wide \/ kernel + n <= MAX32 THEN kernel + n
                                                ELSE kernel + n - (MAX32 + 1)
    /\ sincezero' = sincezero + n
    /\ due' = IF fresh THEN due + n ELSE due
    /\ dbdue' = IF dbfresh THEN dbdue + n ELSE dbdue
    /\ UNCHANGED <<mode, wide, present, others, booted, dbcounter, dbage, dbfresh, daemonvars,
                   filled, active, syncneeded, currx, age, logged, fresh>>

(* The counter starts from zero again: what was read before is no base for *)
(* a difference any more.                                                  *)
StartsFromZero ==
    /\ kernel' = 0 /\ sincezero' = 0
    /\ fresh' = FALSE /\ due' = 0
    /\ dbfresh' = FALSE /\ dbdue' = 0

Unplug ==
    /\ "unplug" \in Events
    /\ present
    /\ present' = FALSE
    /\ StartsFromZero
    /\ UNCHANGED <<mode, wide, others, booted, dbcounter, dbage, daemonvars,
                   filled, active, syncneeded, currx, age, logged>>

Plug ==
    /\ ~present
    /\ present' = TRUE
    /\ UNCHANGED <<mode, wide, kernel, others, booted, sincezero, rowvars, entryvars, daemonvars>>

OthersChange ==
    /\ others' = ~others
    /\ UNCHANGED <<mode, wide, kernel, present, booted, sincezero, rowvars, entryvars, daemonvars>>

DriverResets ==
    /\ "reset" \in Events
    /\ present
    /\ StartsFromZero
    /\ UNCHANGED <<mode, wide, present, others, booted, dbcounter, dbage, daemonvars,
                   filled, active, syncneeded, currx, age, logged>>

Older(a) == IF a <= MaxInterval THEN a + 1 ELSE a

Tick ==
    /\ age' = Older(age) /\ dbage' = Older(dbage)
    /\ UNCHANGED <<kernelvars, dbcounter, dbdue, dbfresh, daemonvars,
                   filled, active, syncneeded, currx, logged, due, fresh>>
-----------------------------------------------------------------------------
(***************************************************************************)
(* The daemon starts and ends.                                             *)
(***************************************************************************)
(* An entry has never been the base of a difference before it is filled.   *)
datacache_add(sync) ==
    /\ active' = TRUE /\ filled' = FALSE /\ syncneeded' = sync
    /\ currx' = 0 /\ age' = 0 /\ logged' = FALSE
    /\ fresh' = FALSE /\ due' = 0

(* Mutant of NoEntry: the log is not cleared. *)
NoEntryKeepsLog ==
    /\ active' = FALSE /\ filled' = FALSE /\ syncneeded' = FALSE
    /\ currx' = 0 /\ age' = 0
    /\ fresh' = FALSE /\ due' = 0
    /\ UNCHANGED logged

NoEntry ==
    /\ active' = FALSE /\ filled' = FALSE /\ syncneeded' = FALSE
    /\ currx' = 0 /\ age' = 0 /\ logged' = FALSE
    /\ fresh' = FALSE /\ due' = 0

(* detectboot: the boot time is stored at once, the counters are not. *)
Start ==
    /\ ~running
    /\ running' = TRUE
    /\ bootdetected' = booted /\ booted' = FALSE
    /\ seen' = unknown
    /\ \E sync \in BOOLEAN : datacache_add(sync)
    /\ UNCHANGED <<mode, wide, kernel, present, others, sincezero, rowvars>>

(* flushcachetodisk: the counters go to the row with the log only, the     *)
(* time of the update always.                                              *)
StoreRow ==
    /\ dbage' = age
    /\ IF logged THEN dbcounter' = currx /\ dbdue' = due /\ dbfresh' = fresh
                 ELSE UNCHANGED <<dbcounter, dbdue, dbfresh>>

Save ==
    /\ running
    /\ StoreRow
    /\ logged' = FALSE
    /\ UNCHANGED <<kernelvars, daemonvars, filled, active, syncneeded, currx, age, due, fresh>>

(* SIGHUP: s->sync has been set by the first filldatabaselist. *)
Reload ==
    /\ running
    /\ StoreRow
    /\ datacache_add(TRUE)
    /\ UNCHANGED <<kernelvars, daemonvars>>

Gone ==
    /\ running' = FALSE /\ bootdetected' = FALSE /\ seen' = unknown
    /\ NoEntry

Exit ==
    /\ running
    /\ StoreRow
    /\ Gone
    /\ UNCHANGED kernelvars

Killed ==
    /\ running
    /\ Gone
    /\ UNCHANGED <<kernelvars, rowvars>>

(* The system goes down, with the daemon or after it, and comes up again. *)
Boot ==
    /\ "boot" \in Events
    /\ booted' = TRUE
    /\ kernel' = 0 /\ sincezero' = 0
    /\ dbfresh' = FALSE /\ dbdue' = 0
    /\ Gone
    /\ UNCHANGED <<mode, wide, present, others, dbcounter, dbage>>
-----------------------------------------------------------------------------
(***************************************************************************)
(* interfacechangecheck.                                                   *)
(***************************************************************************)
visible == <<present, others>>

(* A counter of zero is what the kernel had when it last started from it. *)
CounterIsZero ==
    /\ currx' = 0
    /\ fresh' = TRUE
    /\ due' = sincezero

interfacechangecheck ==
    /\ running
    /\ seen # visible
    /\ seen' = visible
    /\ IF filled /\ active # present
       THEN active' = present /\ CounterIsZero
       ELSE UNCHANGED <<active, currx, due, fresh>>
    /\ UNCHANGED <<kernelvars, rowvars, running, bootdetected, filled, syncneeded, age, logged>>

(* The list cannot be read. *)
NoList ==
    /\ running
    /\ seen' = unknown
    /\ UNCHANGED <<kernelvars, rowvars, entryvars, running, bootdetected>>
-----------------------------------------------------------------------------
(***************************************************************************)
(* An update.                                                              *)
(***************************************************************************)
initcachevalues ==
    /\ running /\ ~filled
    /\ filled' = TRUE
    /\ seen' = unknown
    /\ age' = dbage
    /\ IF bootdetected
       THEN CounterIsZero
       ELSE currx' = dbcounter /\ due' = dbdue /\ fresh' = dbfresh
    /\ UNCHANGED <<kernelvars, rowvars, running, bootdetected, active, syncneeded, logged>>

Updates ==
    /\ running /\ filled
    /\ bootdetected' = FALSE
    /\ UNCHANGED <<kernelvars, rowvars, running, seen, filled>>

Disabled ==
    /\ Updates /\ ~active
    /\ UNCHANGED entryvars

(* getifinfo fails.  The list of visible interfaces is not looked at. *)
NotAvailable ==
    /\ Updates /\ active /\ ~present
    /\ active' = FALSE
    /\ UNCHANGED <<filled, syncneeded, currx, age, logged, due, fresh>>

CounterTaken ==
    /\ Updates /\ active /\ present
    /\ currx' = kernel
    /\ due' = 0 /\ fresh' = TRUE
    /\ UNCHANGED active

Synced ==
    /\ CounterTaken
    /\ syncneeded
    /\ syncneeded' = FALSE
    /\ UNCHANGED <<age, logged>>

InTime == age \in 1 .. MaxInterval

NotInTime ==
    /\ CounterTaken
    /\ ~syncneeded /\ ~InTime
    /\ age' = 0
    /\ UNCHANGED <<syncneeded, logged>>

(* The traffic goes to the log; if the bandwidth limit does not allow it,  *)
(* it does not, unless TrafficlessEntries is on.                           *)
Counted ==
    /\ CounterTaken
    /\ ~syncneeded /\ InTime
    /\ age' = 0
    /\ logged' \in {logged, TRUE}
    /\ UNCHANGED syncneeded

(* Mutants of countercalc: every rollover taken for one of 64 bits, or for *)
(* a reset.                                                                *)
countercalc64(a, b, is64bit) == IF b >= a THEN b - a ELSE MAX64 - a + b

countercalcLoses(a, b, is64bit) == IF b >= a THEN b - a ELSE 0

countercalc(a, b, is64bit) ==
    CASE b >= a -> b - a
      [] b < a /\ (a > MAX32 \/ is64bit = 1) -> MAX64 - a + b
      [] OTHER -> MAX32 - a + b

Needs64(otherwide) == currx > MAX32 \/ kernel > MAX32 \/ otherwide

(* ifinfo.is64bit: getifinfo's, on Linux, if no counter needs 64 bits. *)
is64bit(otherwide) ==
    IF Needs64(otherwide) \/ mode = -2 THEN 1 ELSE mode

(* The traffic since the previous update, in processifinfo.  What is too   *)
(* fast is decided by an integer division by the interval, and if the      *)
(* other direction is, both are computed again.                            *)
rxchange(otherwide, otherfast) ==
    LET change == countercalc(currx, kernel, is64bit(otherwide))
    IN  IF /\ mode = -2 \/ ~Needs64(otherwide)
           /\ change >= (BWMAX + 1) * age \/ otherfast
        THEN countercalc(currx, kernel, 0)
        ELSE change

(* What the counters of the other direction may be: <<otherwide, otherfast>>. *)
OtherDirection == (IF wide THEN BOOLEAN ELSE {FALSE}) \X BOOLEAN
-----------------------------------------------------------------------------
update ==
    \/ Disabled
    \/ NotAvailable
    \/ Synced
    \/ NotInTime
    \/ Counted

Next ==
    \/ \E n \in 1 .. MAX32 + 1 : Transfer(n)
    \/ Unplug
    \/ Plug
    \/ OthersChange
    \/ DriverResets
    \/ Tick
    \/ Start
    \/ Save
    \/ Reload
    \/ Exit
    \/ Killed
    \/ Boot
    \/ interfacechangecheck
    \/ NoList
    \/ initcachevalues
    \/ update

Spec == Init /\ [][Next]_vars

(* The main loop never stops checking the list and updating. *)
FairSpec ==
    /\ Spec
    /\ WF_vars(interfacechangecheck)
    /\ WF_vars(initcachevalues)
    /\ WF_vars(update)
-----------------------------------------------------------------------------
(***************************************************************************)
(* Properties.                                                             *)
(***************************************************************************)
(* The next update will count a difference to currx. *)
Counts == running /\ filled /\ active /\ present /\ ~syncneeded /\ InTime

(* No update counts more than was transferred, if the counter has not      *)
(* started from zero since currx was read.                                 *)
NoPhantomTraffic ==
    Counts /\ fresh => \A o \in OtherDirection : rxchange(o[1], o[2]) <= due

(* And all of it, but one byte for a rollover, if the counter did not get  *)
(* around: for each value of 64bitInterfaceCounters, right or wrong.       *)
NothingIsMissed ==
    Counts /\ fresh /\ due <= MAX32
    => \A o \in OtherDirection : rxchange(o[1], o[2]) \in {due, due - 1}

(* "The daemon will automatically synchronize the internal counters after  *)
(* a system reboot", vnstatd.8:203: no difference to a counter from before *)
(* the boot is taken.                                                      *)
SyncedAfterBoot == Events = {"boot"} /\ Counts => fresh

(* The availability of an interface is tracked, vnstatd.8: one that stays  *)
(* is monitored.                                                           *)
AvailabilityIsTracked == <>[](running /\ filled /\ present) => <>[]active
=============================================================================
