------------------------------ MODULE Settings ------------------------------
(***************************************************************************)
(* What the daemon makes of its configuration file: the first usable line  *)
(* of a keyword counts, values out of range are replaced, and the          *)
(* intervals are made to fit each other and the speed of the links.        *)
(*                                                                         *)
(* Of the settings with a range of their own, two stand for all others.    *)
(***************************************************************************)
EXTENDS Integers, Sequences

CONSTANTS
    IntRange,       \* an int32_t holds -IntRange .. IntRange - 1: 2^31
    OverflowWraps   \* what the build makes of an int that overflows

UPDATEINTERVAL == 20
POLLINTERVAL == 5
SAVEINTERVAL == 5
OFFSAVEINTERVAL == 30
DEFMAXBW == 1000
BWMAX == 400000
BWDETECT == 1
BWDETECTINTERVAL == 5

(* TLC counts in 32 bits itself and is given a smaller power of two. *)
ASSUME WidthAssumption == IntRange \in Nat /\ IntRange > BWMAX
ASSUME OverflowAssumption == OverflowWraps \in BOOLEAN

int32(n) ==
    IF n \in -IntRange .. IntRange - 1 THEN n
    ELSE ((n + IntRange) % (2 * IntRange)) - IntRange

Keywords == {"UpdateInterval", "PollInterval", "SaveInterval", "OfflineSaveInterval",
             "MaxBandwidth", "BandwidthDetection", "BandwidthDetectionInterval"}

(* A line is a keyword and a number; two numbers no file holds stand for a *)
(* missing value and for a text.  Lines of MaxBW<interface> are read by    *)
(* Bandwidth.                                                              *)
NoValue == -1000
Text == -1001

defaultcfg ==
    [UpdateInterval             |-> UPDATEINTERVAL,
     PollInterval               |-> POLLINTERVAL,
     SaveInterval               |-> SAVEINTERVAL,
     OfflineSaveInterval        |-> OFFSAVEINTERVAL,
     MaxBandwidth               |-> DEFMAXBW,
     BandwidthDetection         |-> BWDETECT,
     BandwidthDetectionInterval |-> BWDETECTINTERVAL]

validateint(value, default, min, max) ==
    IF value < min \/ (max > min /\ value > max) THEN default ELSE value

(* Each setting by itself. *)
InRange(c) ==
    [c EXCEPT
        !.PollInterval = validateint(c.PollInterval, POLLINTERVAL, 2, 60),
        !.MaxBandwidth = validateint(c.MaxBandwidth, DEFMAXBW, 0, BWMAX),
        !.BandwidthDetection = validateint(c.BandwidthDetection, BWDETECT, 0, 1),
        !.BandwidthDetectionInterval =
            validateint(c.BandwidthDetectionInterval, BWDETECTINTERVAL, 0, 30)]

AtLeast(default, other) == IF other > default THEN other ELSE default

(* The intervals, each one compared with what the one before has become.   *)
(* SaveInterval is in minutes; UpdateInterval is at most 300 seconds by    *)
(* then, so the default of five minutes always fits.  A SaveInterval that  *)
(* is negative enough has a product that overflows.  What it is then is    *)
(* undefined: it has wrapped around, or is compared as if it had not.      *)
UpdateFits(c) ==
    IF c.UpdateInterval < c.PollInterval \/ c.UpdateInterval > 300
    THEN [c EXCEPT !.UpdateInterval = AtLeast(UPDATEINTERVAL, c.PollInterval)]
    ELSE c

InSeconds(minutes) == IF OverflowWraps THEN int32(minutes * 60) ELSE minutes * 60

SaveFits(c) ==
    IF InSeconds(c.SaveInterval) < c.UpdateInterval \/ c.SaveInterval > 60
    THEN [c EXCEPT !.SaveInterval =
             IF c.UpdateInterval > SAVEINTERVAL * 60 THEN c.UpdateInterval ELSE SAVEINTERVAL]
    ELSE c

OfflineSaveFits(c) ==
    IF c.OfflineSaveInterval < c.SaveInterval \/ c.OfflineSaveInterval > 60
    THEN [c EXCEPT !.OfflineSaveInterval = AtLeast(OFFSAVEINTERVAL, c.SaveInterval)]
    ELSE c

(* Seconds in which a link of that many Mbit transfers 2^32 bytes, with 2% *)
(* to be safe: 2^32 / (bw * 2^20 * 1.02 / 8).                              *)
rolloversecs(bw) == 3276800 \div (102 * bw)

(* Mutant of RolloverFits: reset once, whatever the speed is. *)
RolloverFitsDefault(c) ==
    IF c.MaxBandwidth > 0 /\ rolloversecs(c.MaxBandwidth) <= c.UpdateInterval
    THEN [c EXCEPT !.UpdateInterval = UPDATEINTERVAL]
    ELSE c

(* This comes last and looks at no other interval. *)
RolloverFits(c) ==
    IF c.MaxBandwidth > 0 /\ rolloversecs(c.MaxBandwidth) <= c.UpdateInterval
    THEN [c EXCEPT !.UpdateInterval =
             IF rolloversecs(c.MaxBandwidth) <= UPDATEINTERVAL
             THEN UPDATEINTERVAL \div 2 ELSE UPDATEINTERVAL]
    ELSE c

validatecfg(c) == RolloverFits(OfflineSaveFits(SaveFits(UpdateFits(InRange(c)))))

(* The lines that decide what a keyword is: not those with a text.  Of a   *)
(* number, as strtol returns it, 32 bits are kept.                         *)
Usable(lines, keyword) ==
    {n \in DOMAIN lines : lines[n].name = keyword /\ lines[n].value # Text}

setcfgvalue(lines, keyword, old) ==
    IF Usable(lines, keyword) = {} THEN old
    ELSE LET first == CHOOSE n \in Usable(lines, keyword) :
                          \A m \in Usable(lines, keyword) : n <= m
         IN  IF lines[first].value = NoValue THEN old ELSE int32(lines[first].value)

(* A file that cannot be opened leaves everything as it was, unvalidated.  *)
loadcfg(file, c) ==
    IF ~file.readable THEN c
    ELSE validatecfg([k \in Keywords |-> setcfgvalue(file.lines, k, c[k])])
-----------------------------------------------------------------------------
(* What the intervals are after the file was read, SaveInterval aside. *)
RangesRespected(c) ==
    /\ c.PollInterval \in 2 .. 60
    /\ c.UpdateInterval \in 1 .. 300
    /\ c.OfflineSaveInterval \in c.SaveInterval .. 60

SaveRangeRespected(c) ==
    /\ c.SaveInterval \in 1 .. 60
    /\ c.UpdateInterval <= c.SaveInterval * 60

(* In seconds it is less than an int holds. *)
Overflows(c) == c.SaveInterval * 60 < -IntRange

(* The rollover limit resets an update interval to one of two values. *)
LeastUpdate(c) ==
    IF rolloversecs(c.MaxBandwidth) <= UPDATEINTERVAL
    THEN UPDATEINTERVAL \div 2 ELSE UPDATEINTERVAL

(* Less than one rollover between two updates, in fractions of a second.   *)
RolloverNoticed(c) == 102 * c.MaxBandwidth * c.UpdateInterval < 3276800
=============================================================================
