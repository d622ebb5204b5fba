--------------------------- MODULE BandwidthProofs ---------------------------
(***************************************************************************)
(* What modules Settings and Bandwidth guarantee for any number of         *)
(* interfaces and spellings of them, for links of any speed, and whatever  *)
(* the configuration files hold.                                           *)
(***************************************************************************)
EXTENDS Bandwidth, FiniteSetTheorems, WellFoundedInduction, TLAPS

(***************************************************************************)
(* The settings.                                                           *)
(***************************************************************************)
Configuration == [Keywords -> Int]

LEMMA DefaultTyped == defaultcfg \in Configuration
BY DEF defaultcfg, Configuration, Keywords, UPDATEINTERVAL, POLLINTERVAL, SAVEINTERVAL,
       OFFSAVEINTERVAL, DEFMAXBW, BWDETECT, BWDETECTINTERVAL

(* What each step of validatecfg leaves in range, for the steps after it.  *)
LEMMA InRangeFits ==
    ASSUME NEW c \in Configuration
    PROVE  /\ InRange(c) \in Configuration
           /\ InRange(c).PollInterval \in 2 .. 60
           /\ InRange(c).MaxBandwidth \in 0 .. BWMAX
           /\ InRange(c).BandwidthDetectionInterval \in 0 .. 30
<1> DEFINE poll == validateint(c.PollInterval, POLLINTERVAL, 2, 60)
           bw == validateint(c.MaxBandwidth, DEFMAXBW, 0, BWMAX)
           detection == validateint(c.BandwidthDetection, BWDETECT, 0, 1)
           interval == validateint(c.BandwidthDetectionInterval, BWDETECTINTERVAL, 0, 30)
<1>1. /\ c.PollInterval \in Int /\ c.MaxBandwidth \in Int
      /\ c.BandwidthDetection \in Int /\ c.BandwidthDetectionInterval \in Int
    BY DEF Configuration, Keywords
<1>2. poll \in 2 .. 60
    BY <1>1 DEF validateint, POLLINTERVAL
<1>3. bw \in 0 .. BWMAX
    <2>1. BWMAX \in Nat /\ BWMAX > 0 /\ DEFMAXBW \in Nat /\ DEFMAXBW <= BWMAX
        BY SMT DEF BWMAX, DEFMAXBW
    <2>2. QED
        BY <1>1, <2>1 DEF validateint
<1>4. detection \in 0 .. 1
    BY <1>1 DEF validateint, BWDETECT
<1>5. interval \in 0 .. 30
    BY <1>1 DEF validateint, BWDETECTINTERVAL
<1>6. InRange(c) = [c EXCEPT !.PollInterval = poll, !.MaxBandwidth = bw,
                             !.BandwidthDetection = detection,
                             !.BandwidthDetectionInterval = interval]
    BY DEF InRange
<1> DEFINE c1 == [c EXCEPT !.PollInterval = poll]
           c2 == [c1 EXCEPT !.MaxBandwidth = bw]
           c3 == [c2 EXCEPT !.BandwidthDetection = detection]
           c4 == [c3 EXCEPT !.BandwidthDetectionInterval = interval]
<1>7. InRange(c) = c4
    BY <1>6
<1> HIDE DEF poll, bw, detection, interval
<1>8. c1 \in Configuration /\ c1.PollInterval = poll
    BY <1>2 DEF Configuration, Keywords
<1> HIDE DEF c1
<1>9. c2 \in Configuration /\ c2.PollInterval = poll /\ c2.MaxBandwidth = bw
    BY <1>3, <1>8 DEF Configuration, Keywords
<1> HIDE DEF c2
<1>10. c3 \in Configuration /\ c3.PollInterval = poll /\ c3.MaxBandwidth = bw
    BY <1>4, <1>9 DEF Configuration, Keywords
<1> HIDE DEF c3
<1>11. /\ c4 \in Configuration /\ c4.PollInterval = poll /\ c4.MaxBandwidth = bw
       /\ c4.BandwidthDetectionInterval = interval
    BY <1>5, <1>10 DEF Configuration, Keywords
<1> HIDE DEF c4
<1>12. QED
    BY <1>2, <1>3, <1>5, <1>7, <1>11

LEMMA UpdateIntervalFits ==
    ASSUME NEW c \in Configuration, c.PollInterval \in 2 .. 60
    PROVE  /\ UpdateFits(c) \in Configuration
           /\ UpdateFits(c) = [c EXCEPT !.UpdateInterval = UpdateFits(c).UpdateInterval]
           /\ UpdateFits(c).UpdateInterval \in c.PollInterval .. 300
BY DEF UpdateFits, Configuration, Keywords, AtLeast, UPDATEINTERVAL

(* What an int32_t keeps of a number.                                      *)
LEMMA Int32Typed == ASSUME NEW n \in Int PROVE int32(n) \in Int
<1>1. ASSUME NEW a \in Int, NEW b \in Nat \ {0} PROVE a % b \in Int
    BY <1>1, SMT
<1>2. 2 * IntRange \in Nat \ {0} /\ IntRange \in Int
    BY WidthAssumption, SMT DEF BWMAX
<1>3. (n + IntRange) % (2 * IntRange) \in Int
    BY <1>1, <1>2
<1>4. QED
    BY <1>2, <1>3 DEF int32

(* A product that fits is the product, whatever overflow does.             *)
LEMMA Seconds ==
    ASSUME NEW m \in Int, m <= 60
    PROVE  InSeconds(m) = m * 60 \/ (OverflowWraps /\ m * 60 < -IntRange)
<1>1. IntRange \in Nat /\ 3600 < IntRange
    BY WidthAssumption, SMT DEF BWMAX
<1>2. m * 60 \in Int /\ m * 60 <= 3600
    OBVIOUS
<1>3. CASE m * 60 \in -IntRange .. IntRange - 1
    BY <1>3 DEF InSeconds, int32
<1>4. CASE m * 60 < -IntRange
    BY <1>4 DEF InSeconds
<1>5. QED
    BY <1>1, <1>2, <1>3, <1>4

LEMMA SaveIntervalFits ==
    ASSUME NEW c \in Configuration, c.UpdateInterval \in 1 .. 300
    PROVE  /\ SaveFits(c) \in Configuration
           /\ SaveFits(c) = [c EXCEPT !.SaveInterval = SaveFits(c).SaveInterval]
           /\ SaveFits(c).SaveInterval <= 60
           /\ \/ /\ SaveFits(c).SaveInterval \in 1 .. 60
                 /\ c.UpdateInterval <= SaveFits(c).SaveInterval * 60
              \/ OverflowWraps /\ Overflows(SaveFits(c))
<1> DEFINE m == c.SaveInterval
<1>1. m \in Int /\ c.UpdateInterval <= 300 /\ c.UpdateInterval >= 1
    BY DEF Configuration, Keywords
<1>2. CASE InSeconds(m) < c.UpdateInterval \/ m > 60
    <2>1. SaveFits(c) = [c EXCEPT !.SaveInterval = 5]
        BY <1>1, <1>2 DEF SaveFits, SAVEINTERVAL
    <2>2. QED
        BY <1>1, <2>1 DEF Configuration, Keywords
<1>3. CASE ~(InSeconds(m) < c.UpdateInterval \/ m > 60)
    <2>1. SaveFits(c) = c /\ m <= 60
        BY <1>1, <1>3 DEF SaveFits
    <2>2. c = [c EXCEPT !.SaveInterval = m]
        BY DEF Configuration, Keywords
    <2>3. CASE InSeconds(m) = m * 60
        BY <1>1, <1>3, <2>1, <2>2, <2>3
    <2>4. CASE OverflowWraps /\ m * 60 < -IntRange
        BY <2>1, <2>2, <2>4 DEF Overflows
    <2>5. QED
        BY <1>1, <2>1, <2>3, <2>4, Seconds
<1>4. QED
    BY <1>2, <1>3

LEMMA OfflineSaveIntervalFits ==
    ASSUME NEW c \in Configuration, c.SaveInterval <= 60
    PROVE  /\ OfflineSaveFits(c) \in Configuration
           /\ OfflineSaveFits(c) =
                [c EXCEPT !.OfflineSaveInterval = OfflineSaveFits(c).OfflineSaveInterval]
           /\ OfflineSaveFits(c).OfflineSaveInterval \in c.SaveInterval .. 60
BY DEF OfflineSaveFits, Configuration, Keywords, AtLeast, OFFSAVEINTERVAL

LEMMA Quotient ==
    ASSUME NEW bw \in Nat \ {0}
    PROVE  /\ rolloversecs(bw) \in Nat
           /\ 102 * bw * rolloversecs(bw) <= 3276800
           /\ 3276800 < 102 * bw * (rolloversecs(bw) + 1)
BY DEF rolloversecs

LEMMA QuotientTyped ==
    ASSUME NEW bw \in Nat \ {0}
    PROVE  rolloversecs(bw) \in Nat
BY Quotient, SMT

LEMMA TimesGrows ==
    ASSUME NEW p \in Nat \ {0}, NEW a \in Nat, NEW b \in Nat, a < b
    PROVE  p * a < p * b
<1>1. PICK k \in Nat \ {0} : b = a + k
    <2>1. b - a \in Nat \ {0} /\ b = a + (b - a)
        OBVIOUS
    <2>2. QED
        BY <2>1
<1>2. p * b = p * a + p * k
    BY <1>1
<1>3. p * k > 0 /\ p * a \in Nat /\ p * k \in Nat
    BY <1>1, SMT
<1>4. QED
    BY <1>2, <1>3

(* An interval that is shorter than a rollover does not miss one. *)
LEMMA BelowRollover ==
    ASSUME NEW bw \in Nat \ {0}, NEW u \in Nat, u < rolloversecs(bw)
    PROVE  102 * bw * u < 3276800
<1> DEFINE p == 102 * bw
           r == rolloversecs(bw)
<1>1. p \in Nat \ {0}
    BY SMT
<1>2. r \in Nat /\ p * r <= 3276800
    BY Quotient, SMT
<1> HIDE DEF p, r
<1>3. p * u < p * r
    BY <1>1, <1>2, TimesGrows, SMT DEF r
<1>4. p * u \in Nat /\ p * r \in Nat
    BY <1>1, <1>2, SMT
<1>5. p * u < 3276800
    BY <1>2, <1>3, <1>4, SMT
<1>6. QED
    BY <1>5, SMT DEF p

LEMMA RolloverIntervalFits ==
    ASSUME NEW c \in Configuration,
           c.PollInterval \in 2 .. 60,
           c.MaxBandwidth \in Nat,
           c.UpdateInterval \in c.PollInterval .. 300,
           \/ c.SaveInterval \in 1 .. 60 /\ c.UpdateInterval <= c.SaveInterval * 60
           \/ OverflowWraps /\ Overflows(c)
    PROVE  /\ RolloverFits(c) \in Configuration
           /\ RolloverFits(c) = [c EXCEPT !.UpdateInterval = RolloverFits(c).UpdateInterval]
           /\ RolloverFits(c).UpdateInterval \in 1 .. 300
           /\ \/ /\ c.SaveInterval \in 1 .. 60
                 /\ RolloverFits(c).UpdateInterval <= c.SaveInterval * 60
              \/ OverflowWraps /\ Overflows(c)
           /\ RolloverFits(c).UpdateInterval < c.PollInterval =>
                 /\ c.MaxBandwidth > 0 /\ rolloversecs(c.MaxBandwidth) <= 300
                 /\ RolloverFits(c).UpdateInterval = LeastUpdate(c)
           /\ c.MaxBandwidth > 0 /\ c.MaxBandwidth <= 3212 =>
                 102 * c.MaxBandwidth * RolloverFits(c).UpdateInterval < 3276800
<1> DEFINE bw == c.MaxBandwidth
           u == c.UpdateInterval
           r == rolloversecs(bw)
           d == RolloverFits(c)
<1>1. u \in 1 .. 300 /\ bw \in Nat /\ u >= c.PollInterval
    OBVIOUS
<1>2. CASE ~(bw > 0 /\ r <= u)
    <2>1. d = c
        BY <1>2 DEF RolloverFits
    <2>2. c = [c EXCEPT !.UpdateInterval = c.UpdateInterval]
        BY DEF Configuration, Keywords
    <2>3. bw > 0 /\ bw <= 3212 => 102 * bw * u < 3276800
        <3>1. CASE bw \in Nat \ {0}
            <4>1. r \in Nat
                BY <3>1, QuotientTyped, SMT
            <4>2. u < r
                BY <1>1, <1>2, <3>1, <4>1, SMT
            <4>3. QED
                BY <1>1, <3>1, <4>2, BelowRollover, SMT
        <3>2. QED
            BY <3>1, SMT
    <2>4. QED
        BY <1>1, <2>1, <2>2, <2>3, SMT
<1>3. CASE bw > 0 /\ r <= u
    <2> DEFINE new == IF r <= UPDATEINTERVAL THEN UPDATEINTERVAL \div 2 ELSE UPDATEINTERVAL
    <2>1. d = [c EXCEPT !.UpdateInterval = new]
        BY <1>3 DEF RolloverFits
    <2>2. bw \in Nat \ {0} /\ r \in Nat
        BY <1>1, <1>3, QuotientTyped, SMT
    <2>3. new \in {10, 20} /\ (new = 10 => r <= 20) /\ (new = 20 => 20 < r)
        BY <2>2 DEF UPDATEINTERVAL
    <2>8. new = LeastUpdate(c)
        BY DEF LeastUpdate
    <2>9. c.SaveInterval \in 1 .. 60 => c.SaveInterval * 60 >= 60
        OBVIOUS
    <2> HIDE DEF new
    <2>4. d \in Configuration /\ d.UpdateInterval = new
        BY <2>1, <2>3 DEF Configuration, Keywords
    <2>5. bw > 0 /\ bw <= 3212 => 102 * bw * new < 3276800
        <3>1. CASE new = 20
            BY <2>2, <2>3, <3>1, BelowRollover, SMT
        <3>2. CASE new = 10
            <4>1. ASSUME NEW b \in Nat, b <= 3212 PROVE 102 * b * 10 < 3276800
                BY <4>1, SMT
            <4>2. bw <= 3212 => 102 * bw * 10 < 3276800
                BY <2>2, <4>1, SMT
            <4>3. QED
                BY <3>2, <4>2, SMT
        <3>3. QED
            BY <2>3, <3>1, <3>2, SMT
    <2>6. r <= 300
        BY <1>1, <1>3, <2>2
    <2>7. QED
        BY <1>1, <1>3, <2>1, <2>3, <2>4, <2>5, <2>6, <2>8, <2>9, SMT
<1>4. QED
    BY <1>2, <1>3, SMT

(* What reading a file that can be read leaves in range; IntervalsFit says *)
(* this of cfg.                                                            *)
Fits(c) ==
    /\ RangesRespected(c)
    /\ SaveRangeRespected(c) \/ (OverflowWraps /\ Overflows(c))
    /\ c.UpdateInterval < c.PollInterval =>
          /\ c.MaxBandwidth > 0 /\ rolloversecs(c.MaxBandwidth) <= 300
          /\ c.UpdateInterval = LeastUpdate(c)
    /\ c.MaxBandwidth > 0 /\ c.MaxBandwidth <= 3212 => RolloverNoticed(c)

LEMMA IntervalsFitEachOther ==
    ASSUME NEW c \in Configuration
    PROVE  /\ validatecfg(c) \in Configuration
           /\ Fits(validatecfg(c))
           /\ validatecfg(c).MaxBandwidth \in Nat
           /\ validatecfg(c).BandwidthDetectionInterval \in 0 .. 30
<1> DEFINE c1 == InRange(c)
           c2 == UpdateFits(c1)
           c3 == SaveFits(c2)
           c4 == OfflineSaveFits(c3)
           c5 == RolloverFits(c4)
<1>1. validatecfg(c) = c5
    BY DEF validatecfg
<1>2. /\ c1 \in Configuration /\ c1.PollInterval \in 2 .. 60 /\ c1.MaxBandwidth \in Nat
      /\ c1.BandwidthDetectionInterval \in 0 .. 30
    <2>1. BWMAX \in Nat
        BY SMT DEF BWMAX
    <2>2. QED
        BY <2>1, InRangeFits, SMT
<1> HIDE DEF c1
<1>3. /\ c2 \in Configuration /\ c2 = [c1 EXCEPT !.UpdateInterval = c2.UpdateInterval]
      /\ c2.UpdateInterval \in c1.PollInterval .. 300
    BY <1>2, UpdateIntervalFits
<1> HIDE DEF c2
<1>4. /\ c2.PollInterval = c1.PollInterval /\ c2.MaxBandwidth = c1.MaxBandwidth
      /\ c2.BandwidthDetectionInterval = c1.BandwidthDetectionInterval
    BY <1>2, <1>3 DEF Configuration, Keywords
<1>5. c2.UpdateInterval \in 1 .. 300
    BY <1>2, <1>3, SMT
<1>6. /\ c3 \in Configuration /\ c3 = [c2 EXCEPT !.SaveInterval = c3.SaveInterval]
      /\ c3.SaveInterval <= 60
      /\ \/ c3.SaveInterval \in 1 .. 60 /\ c2.UpdateInterval <= c3.SaveInterval * 60
         \/ OverflowWraps /\ Overflows(c3)
    BY <1>3, <1>5, SaveIntervalFits
<1> HIDE DEF c3
<1>7. /\ c3.PollInterval = c1.PollInterval /\ c3.MaxBandwidth = c1.MaxBandwidth
      /\ c3.BandwidthDetectionInterval = c1.BandwidthDetectionInterval
      /\ c3.UpdateInterval = c2.UpdateInterval
    BY <1>3, <1>4, <1>6 DEF Configuration, Keywords
<1>8. /\ c4 \in Configuration
      /\ c4 = [c3 EXCEPT !.OfflineSaveInterval = c4.OfflineSaveInterval]
      /\ c4.OfflineSaveInterval \in c3.SaveInterval .. 60
    BY <1>6, OfflineSaveIntervalFits
<1> HIDE DEF c4
<1>9. /\ c4.PollInterval = c1.PollInterval /\ c4.MaxBandwidth = c1.MaxBandwidth
      /\ c4.BandwidthDetectionInterval = c1.BandwidthDetectionInterval
      /\ c4.UpdateInterval = c2.UpdateInterval
      /\ c4.SaveInterval = c3.SaveInterval
    BY <1>6, <1>7, <1>8 DEF Configuration, Keywords
<1>18. \/ c4.SaveInterval \in 1 .. 60 /\ c4.UpdateInterval <= c4.SaveInterval * 60
       \/ OverflowWraps /\ Overflows(c4)
    BY <1>6, <1>9 DEF Overflows
<1>19. c4.PollInterval \in 2 .. 60 /\ c4.MaxBandwidth \in Nat
       /\ c4.UpdateInterval \in c4.PollInterval .. 300
    BY <1>2, <1>3, <1>9
<1>10. /\ c5 \in Configuration
       /\ c5 = [c4 EXCEPT !.UpdateInterval = c5.UpdateInterval]
       /\ c5.UpdateInterval \in 1 .. 300
       /\ \/ c4.SaveInterval \in 1 .. 60 /\ c5.UpdateInterval <= c4.SaveInterval * 60
          \/ OverflowWraps /\ Overflows(c4)
       /\ c5.UpdateInterval < c4.PollInterval =>
             /\ c4.MaxBandwidth > 0 /\ rolloversecs(c4.MaxBandwidth) <= 300
             /\ c5.UpdateInterval = LeastUpdate(c4)
       /\ c4.MaxBandwidth > 0 /\ c4.MaxBandwidth <= 3212 =>
             102 * c4.MaxBandwidth * c5.UpdateInterval < 3276800
    BY <1>8, <1>18, <1>19, RolloverIntervalFits
<1> HIDE DEF c5
<1>11. /\ c5.PollInterval = c4.PollInterval /\ c5.MaxBandwidth = c4.MaxBandwidth
       /\ c5.BandwidthDetectionInterval = c4.BandwidthDetectionInterval
       /\ c5.SaveInterval = c4.SaveInterval
       /\ c5.OfflineSaveInterval = c4.OfflineSaveInterval
    BY <1>8, <1>10 DEF Configuration, Keywords
<1>12. RangesRespected(c5)
    BY <1>8, <1>9, <1>10, <1>11, <1>19 DEF RangesRespected
<1>20. SaveRangeRespected(c5) \/ (OverflowWraps /\ Overflows(c5))
    BY <1>10, <1>11 DEF SaveRangeRespected, Overflows
<1>13. c5.MaxBandwidth > 0 /\ c5.MaxBandwidth <= 3212 => RolloverNoticed(c5)
    BY <1>10, <1>11, SMT DEF RolloverNoticed
<1>14. c5.UpdateInterval < c5.PollInterval =>
          /\ c5.MaxBandwidth > 0 /\ rolloversecs(c5.MaxBandwidth) <= 300
          /\ c5.UpdateInterval = LeastUpdate(c5)
    BY <1>10, <1>11 DEF LeastUpdate
<1>15. c5.MaxBandwidth \in Nat /\ c5.BandwidthDetectionInterval \in 0 .. 30
    BY <1>2, <1>9, <1>11
<1>16. Fits(c5)
    BY <1>12, <1>13, <1>14, <1>20 DEF Fits
<1>17. QED
    BY <1>1, <1>10, <1>15, <1>16

(***************************************************************************)
(* The file.                                                               *)
(***************************************************************************)
(* A set of numbers has a least one, and one with a bound a greatest.      *)
LEMMA Least ==
    ASSUME NEW T, T \subseteq Nat, T # {}
    PROVE  \E x \in T : \A y \in T : x <= y
<1> DEFINE R == OpToRel(<, Nat)
<1>1. IsWellFoundedOn(R, Nat)
    BY NatLessThanWellFounded
<1>2. \A x, y \in Nat : x < y => <<x, y>> \in R
    BY DEF OpToRel
<1> HIDE DEF R
<1>3. PICK x \in T : \A y \in T : ~ (<<y, x>> \in R)
    BY <1>1, WFMin
<1>4. \A y \in T : x <= y
    <2>1. SUFFICES ASSUME NEW y \in T PROVE x <= y
        OBVIOUS
    <2>2. x \in Nat /\ y \in Nat /\ ~ (y < x)
        BY <1>2, <1>3
    <2>3. QED
        BY <2>2
<1>5. QED
    BY <1>4

LEMMA First ==
    ASSUME NEW S, S \subseteq Nat, S # {}
    PROVE  LET first == CHOOSE n \in S : \A m \in S : n <= m
           IN  first \in S /\ \A m \in S : first <= m
BY Least

LEMMA Last ==
    ASSUME NEW S, NEW b \in Nat, S \subseteq 1 .. b, S # {}
    PROVE  LET last == CHOOSE n \in S : \A m \in S : m <= n
           IN  last \in S /\ \A m \in S : m <= last
<1> DEFINE T == {c \in Nat : \A x \in S : x <= c}
<1>1. PICK c \in T : \A d \in T : c <= d
    <2>1. b \in T
        OBVIOUS
    <2>2. QED
        BY <2>1, Least
<1>2. c \in S
    <2>1. SUFFICES ASSUME c \notin S PROVE FALSE
        OBVIOUS
    <2>2. \A x \in S : x <= c /\ x # c /\ x \in Nat \ {0}
        BY <2>1
    <2>6. PICK x \in S : TRUE
        OBVIOUS
    <2>3. c \in Nat /\ c - 1 \in Nat
        BY <2>2, <2>6
    <2>4. \A y \in S : y <= c - 1
        BY <2>2, <2>3
    <2>5. QED
        BY <1>1, <2>3, <2>4
<1>3. \E n \in S : \A m \in S : m <= n
    BY <1>2
<1>4. QED
    BY <1>3

Line == [name : STRING, value : Int]

LEMMA SettingTyped ==
    ASSUME NEW f \in Files, NEW k \in Keywords, NEW old \in Int
    PROVE  setcfgvalue(f.lines, k, old) \in Int
<1> DEFINE usable == Usable(f.lines, k)
           first == CHOOSE n \in usable : \A m \in usable : n <= m
<1>1. f.lines \in Seq(Line)
    BY FilesAssumption DEF Line
<1>2. usable \in SUBSET Nat /\ \A n \in usable : n \in 1 .. Len(f.lines)
    BY <1>1 DEF Usable
<1>3. CASE usable = {}
    BY <1>3 DEF setcfgvalue
<1>4. CASE usable # {}
    <2>1. first \in usable
        <3> HIDE DEF usable
        <3>1. QED
            BY <1>2, <1>4, First
    <2> HIDE DEF first, usable
    <2>2. f.lines[first] \in Line
        <3>1. first \in 1 .. Len(f.lines)
            BY <1>2, <2>1
        <3>2. \A n \in 1 .. Len(f.lines) : f.lines[n] \in Line
            BY <1>1
        <3>3. QED
            BY <3>1, <3>2
    <2>3. setcfgvalue(f.lines, k, old) \in {old, int32(f.lines[first].value)}
        BY <1>4 DEF setcfgvalue, first, usable
    <2>4. QED
        BY <2>2, <2>3, Int32Typed DEF Line
<1>5. QED
    BY <1>3, <1>4

LEMMA ConfigurationFits ==
    ASSUME NEW f \in Files
    PROVE  /\ loadcfg(f, defaultcfg) \in Configuration
           /\ loadcfg(f, defaultcfg).MaxBandwidth \in Nat
           /\ loadcfg(f, defaultcfg).BandwidthDetectionInterval \in 0 .. 30
           /\ f.readable => Fits(loadcfg(f, defaultcfg))
<1> DEFINE read == [k \in Keywords |-> setcfgvalue(f.lines, k, defaultcfg[k])]
<1>1. CASE ~f.readable
    <2>1. loadcfg(f, defaultcfg) = defaultcfg
        BY <1>1 DEF loadcfg
    <2>2. defaultcfg.MaxBandwidth \in Nat /\ defaultcfg.BandwidthDetectionInterval \in 0 .. 30
        BY SMT DEF defaultcfg, DEFMAXBW, BWDETECTINTERVAL
    <2>3. QED
        BY <1>1, <2>1, <2>2, DefaultTyped
<1>2. CASE f.readable
    <2>1. \A k \in Keywords : defaultcfg[k] \in Int
        BY DefaultTyped DEF Configuration
    <2>2. read \in Configuration
        BY <2>1, SettingTyped DEF Configuration
    <2>3. loadcfg(f, defaultcfg) = validatecfg(read)
        BY <1>2 DEF loadcfg
    <2> HIDE DEF read
    <2>4. QED
        BY <1>2, <2>2, <2>3, IntervalsFitEachOther
<1>3. QED
    BY <1>1, <1>2, FilesAssumption

(***************************************************************************)
(* The list of nodes.                                                      *)
(***************************************************************************)
Lists == Seq(Nodes)
Unique(list) ==
    \A n, m \in DOMAIN list : list[n].interface = list[m].interface => n = m

LEMMA NewNode ==
    ASSUME NEW s \in Spelling, NEW v \in Nat
    PROVE  /\ Node(s, v) \in Nodes
           /\ Node(s, v).interface = s /\ Node(s, v).limit = v
           /\ Node(s, v).age = Never /\ Node(s, v).retries = 0
BY DEF Node, Nodes, MaxRetries, Never, None, MaxAge

(* A node in front of a list. *)
InFront(node, list, new) ==
    /\ new \in Lists
    /\ DOMAIN new = 1 .. Len(list) + 1
    /\ new[1] = node
    /\ \A n \in DOMAIN list : new[n + 1] = list[n]
    /\ \A n \in DOMAIN new : n # 1 => n - 1 \in DOMAIN list /\ new[n] = list[n - 1]

LEMMA Prepended ==
    ASSUME NEW list \in Lists, NEW node \in Nodes
    PROVE  InFront(node, list, <<node>> \o list)
<1> HIDE DEF Nodes
<1> DEFINE new == <<node>> \o list
<1>1. Len(list) \in Nat /\ DOMAIN list = 1 .. Len(list)
    BY DEF Lists
<1>2. new \in Lists /\ Len(new) = Len(list) + 1
    BY DEF Lists
<1>3. DOMAIN new = 1 .. Len(list) + 1
    BY <1>1, <1>2 DEF Lists
<1>4. new[1] = node /\ \A n \in DOMAIN list : new[n + 1] = list[n]
    BY DEF Lists
<1>5. \A n \in DOMAIN new : n # 1 => n - 1 \in DOMAIN list /\ new[n] = list[n - 1]
    BY <1>1, <1>3 DEF Lists
<1>6. QED
    BY <1>2, <1>3, <1>4, <1>5 DEF InFront

(* A list with other values in the same nodes. *)
LEMMA SameNodes ==
    ASSUME NEW list \in Lists, NEW new, new = [n \in DOMAIN list |-> new[n]],
           \A n \in DOMAIN list : new[n] \in Nodes
    PROVE  new \in Lists /\ DOMAIN new = DOMAIN list /\ Len(new) = Len(list)
<1> HIDE DEF Nodes
<1>1. DOMAIN list = 1 .. Len(list) /\ Len(list) \in Nat
    BY DEF Lists
<1>2. new \in [1 .. Len(list) -> Nodes]
    BY <1>1
<1>3. new \in Lists
    BY <1>1, <1>2 DEF Lists
<1>4. QED
    BY <1>1, <1>2, <1>3 DEF Lists

(* What ibwadd makes of a list of nodes that were not asked for yet.       *)
Fresh(list) == list \in Lists /\ Unique(list) /\ \A n \in DOMAIN list : list[n].age = Never

Adds(list, s, v, new) ==
    /\ Fresh(new)
    /\ \E n \in DOMAIN new : new[n].interface = s
    /\ \A n \in DOMAIN list : \E m \in DOMAIN new : new[m].interface = list[n].interface
    /\ \A n \in DOMAIN new :
          \/ new[n].interface = s /\ new[n].limit = v
          \/ new[n].interface # s /\ \E m \in DOMAIN list : list[m] = new[n]

LEMMA Added ==
    ASSUME NEW list, Fresh(list), NEW s \in Spelling, NEW v \in Nat
    PROVE  Adds(list, s, v, ibwadd(list, s, v))
<1> DEFINE new == ibwadd(list, s, v)
<1>0. list \in Lists /\ Unique(list) /\ \A n \in DOMAIN list : list[n].age = Never
    BY DEF Fresh
<1>1. CASE \E n \in DOMAIN list : list[n].interface = s
    <2>1. new = [n \in DOMAIN list |->
                   IF list[n].interface = s THEN [list[n] EXCEPT !.limit = v] ELSE list[n]]
        BY <1>1 DEF ibwadd
    <2>2. \A n \in DOMAIN list : list[n] \in Nodes
        BY <1>0 DEF Lists
    <2>3. ASSUME NEW n \in DOMAIN list
          PROVE  /\ new[n] \in Nodes /\ new[n].interface = list[n].interface
                 /\ new[n].age = list[n].age
                 /\ list[n].interface = s => new[n].limit = v
                 /\ list[n].interface # s => new[n] = list[n]
        <3>1. list[n] \in Nodes
            BY <2>2
        <3>2. new[n] = IF list[n].interface = s THEN [list[n] EXCEPT !.limit = v] ELSE list[n]
            BY <2>1
        <3> HIDE DEF new
        <3>3. QED
            BY <3>1, <3>2 DEF Nodes
    <2>4. new = [n \in DOMAIN list |-> new[n]]
        <3>1. DOMAIN new = DOMAIN list /\ new = [n \in DOMAIN new |-> new[n]]
            BY <2>1
        <3>2. QED
            BY <3>1
    <2> HIDE DEF new
    <2>5. new \in Lists /\ DOMAIN new = DOMAIN list
        BY <1>0, <2>3, <2>4, SameNodes
    <2>6. Unique(new)
        BY <1>0, <2>3, <2>5 DEF Unique
    <2>7. Adds(list, s, v, new)
        BY <1>0, <1>1, <2>3, <2>5, <2>6 DEF Adds, Fresh
    <2>8. QED
        BY <2>7 DEF new
<1>2. CASE ~\E n \in DOMAIN list : list[n].interface = s
    <2>1. new = <<Node(s, v)>> \o list
        BY <1>2 DEF ibwadd
    <2>2. /\ Node(s, v) \in Nodes
          /\ Node(s, v).interface = s /\ Node(s, v).limit = v /\ Node(s, v).age = Never
        BY NewNode
    <2> HIDE DEF new
    <2>3. /\ new \in Lists
          /\ DOMAIN new = 1 .. Len(list) + 1
          /\ new[1] = Node(s, v)
          /\ \A n \in DOMAIN list : new[n + 1] = list[n]
          /\ \A n \in DOMAIN new : n # 1 => n - 1 \in DOMAIN list /\ new[n] = list[n - 1]
        <3>1. InFront(Node(s, v), list, new)
            BY <1>0, <2>1, <2>2, Prepended
        <3>2. QED
            BY <3>1 DEF InFront
    <2>4. DOMAIN list = 1 .. Len(list) /\ Len(list) \in Nat
        BY <1>0 DEF Lists
    <2>5. \A n \in DOMAIN list : n + 1 \in DOMAIN new /\ 1 \in DOMAIN new
        BY <2>3, <2>4
    <2>6. Unique(new)
        <3>1. SUFFICES ASSUME NEW n \in DOMAIN new, NEW m \in DOMAIN new,
                              new[n].interface = new[m].interface
                       PROVE  n = m
            BY DEF Unique
        <3>2. n \in Nat /\ m \in Nat
            BY <2>3, <2>4
        <3>3. n # 1 => n - 1 \in DOMAIN list /\ new[n] = list[n - 1]
            BY <2>3
        <3>4. m # 1 => m - 1 \in DOMAIN list /\ new[m] = list[m - 1]
            BY <2>3
        <3>5. n - 1 \in DOMAIN list => new[1].interface # list[n - 1].interface
            BY <1>0, <1>2, <2>2, <2>3
        <3>6. m - 1 \in DOMAIN list => new[1].interface # list[m - 1].interface
            BY <1>0, <1>2, <2>2, <2>3
        <3>7. CASE n = 1 \/ m = 1
            BY <3>1, <3>3, <3>4, <3>5, <3>6, <3>7
        <3>8. CASE n # 1 /\ m # 1
            <4>1. n - 1 = m - 1
                BY <1>0, <3>1, <3>3, <3>4, <3>8 DEF Unique
            <4>2. QED
                BY <3>2, <4>1
        <3>9. QED
            BY <3>7, <3>8
    <2>7. 1 \in DOMAIN new
        BY <2>3, <2>4
    <2>8. \A n \in DOMAIN new : new[n].age = Never
        BY <1>0, <2>2, <2>3
    <2>9. \A n \in DOMAIN list : \E m \in DOMAIN new : new[m].interface = list[n].interface
        BY <2>3, <2>5
    <2>10. \A n \in DOMAIN new :
              \/ new[n].interface = s /\ new[n].limit = v
              \/ new[n].interface # s /\ \E m \in DOMAIN list : list[m] = new[n]
        BY <1>0, <1>2, <2>2, <2>3
    <2>11. Adds(list, s, v, new)
        BY <2>2, <2>3, <2>6, <2>7, <2>8, <2>9, <2>10 DEF Adds, Fresh
    <2>12. QED
        BY <2>11 DEF new
<1>3. QED
    BY <1>1, <1>2

(* The list after each line of a file. *)
After(lines, k, list) ==
    list = [n \in 0 .. k |->
              IF n = 0 THEN <<>> ELSE AfterLine(list[n - 1], lines[n])]

LEMMA AfterEachLine ==
    ASSUME NEW lines, NEW len \in Nat
    PROVE  \E list : After(lines, len, list)
<1> DEFINE none == {k \in Nat : ~\E list : After(lines, k, list)}
<1>1. SUFFICES ASSUME none # {} PROVE FALSE
    OBVIOUS
<1>2. PICK k \in none : \A l \in none : k <= l
    BY <1>1, Least
<1>3. k # 0
    <2> DEFINE list == [n \in 0 .. 0 |-> <<>>]
    <2>1. After(lines, 0, list)
        BY DEF After
    <2>2. QED
        BY <2>1
<1>4. k - 1 \in Nat /\ k - 1 \notin none
    BY <1>2, <1>3
<1>5. PICK list : After(lines, k - 1, list)
    BY <1>4
<1> DEFINE more == [n \in 0 .. k |->
                      IF n = k THEN AfterLine(list[k - 1], lines[k]) ELSE list[n]]
<1>6. DOMAIN list = 0 .. k - 1
    BY <1>5 DEF After
<1>7. \A n \in 0 .. k - 1 :
         list[n] = IF n = 0 THEN <<>> ELSE AfterLine(list[n - 1], lines[n])
    BY <1>5 DEF After
<1>8. \A n \in 0 .. k - 1 : more[n] = list[n]
    BY <1>4
<1>9. more[k] = AfterLine(more[k - 1], lines[k])
    BY <1>3, <1>4, <1>8
<1>10. ASSUME NEW n \in 0 .. k
       PROVE  more[n] = IF n = 0 THEN <<>> ELSE AfterLine(more[n - 1], lines[n])
    <2> HIDE DEF more
    <2>1. CASE n = k
        BY <1>3, <1>9, <2>1
    <2>2. CASE n # k
        <3>1. n \in 0 .. k - 1 /\ (n # 0 => n - 1 \in 0 .. k - 1)
            BY <1>4, <2>2
        <3>2. QED
            BY <1>7, <1>8, <3>1
    <2>3. QED
        BY <2>1, <2>2
<1>11. more = [n \in 0 .. k |->
                 IF n = 0 THEN <<>> ELSE AfterLine(more[n - 1], lines[n])]
    <2>1. more = [n \in 0 .. k |-> more[n]]
        OBVIOUS
    <2> HIDE DEF more
    <2>2. QED
        BY <1>10, <2>1
<1>12. After(lines, k, more)
    BY <1>11 DEF After
<1>13. QED
    BY <1>2, <1>12

LEMMA CountingLine ==
    ASSUME NEW line, Counts(line)
    PROVE  line.name \in Spelling /\ line.value \in Nat
BY DEF Counts

(* A list has a node for each name in the lines that count, with the value *)
(* that the last of them has.                                              *)
Mirrors(lines, k, list) ==
    /\ Fresh(list)
    /\ \A m \in 1 .. k : Counts(lines[m]) =>
          \E n \in DOMAIN list : list[n].interface = lines[m].name
    /\ \A n \in DOMAIN list : \E m \in 1 .. k :
          /\ Counts(lines[m])
          /\ lines[m].name = list[n].interface /\ lines[m].value = list[n].limit
          /\ \A l \in m + 1 .. k : Counts(lines[l]) => lines[l].name # list[n].interface

LEMMA NothingMirrors == ASSUME NEW lines PROVE Mirrors(lines, 0, <<>>)
<1>1. <<>> \in Lists /\ DOMAIN <<>> = {}
    <2> HIDE DEF Nodes
    <2>1. QED
        BY DEF Lists
<1>2. QED
    BY <1>1 DEF Mirrors, Fresh, Unique

LEMMA LineMirrored ==
    ASSUME NEW lines, NEW k \in Nat \ {0}, NEW list, Mirrors(lines, k - 1, list)
    PROVE  Mirrors(lines, k, AfterLine(list, lines[k]))
<1>1. /\ Fresh(list)
      /\ \A m \in 1 .. k - 1 : Counts(lines[m]) =>
            \E n \in DOMAIN list : list[n].interface = lines[m].name
    BY DEF Mirrors
<1>2. \A n \in DOMAIN list : \E m \in 1 .. k - 1 :
          /\ Counts(lines[m])
          /\ lines[m].name = list[n].interface /\ lines[m].value = list[n].limit
          /\ \A l \in m + 1 .. k - 1 : Counts(lines[l]) => lines[l].name # list[n].interface
    BY DEF Mirrors
<1>3. CASE ~Counts(lines[k])
    <2>1. AfterLine(list, lines[k]) = list
        BY <1>3 DEF AfterLine
    <2>2. \A m \in 1 .. k : Counts(lines[m]) => m \in 1 .. k - 1
        BY <1>3
    <2>3. ASSUME NEW n \in DOMAIN list
          PROVE  \E m \in 1 .. k :
                    /\ Counts(lines[m])
                    /\ lines[m].name = list[n].interface /\ lines[m].value = list[n].limit
                    /\ \A l \in m + 1 .. k : Counts(lines[l]) =>
                          lines[l].name # list[n].interface
        <3>1. PICK m \in 1 .. k - 1 :
                 /\ Counts(lines[m])
                 /\ lines[m].name = list[n].interface /\ lines[m].value = list[n].limit
                 /\ \A l \in m + 1 .. k - 1 : Counts(lines[l]) =>
                       lines[l].name # list[n].interface
            BY <1>2
        <3>2. \A l \in m + 1 .. k : Counts(lines[l]) => l \in m + 1 .. k - 1
            BY <1>3
        <3>3. m \in 1 .. k
            OBVIOUS
        <3>4. QED
            BY <3>1, <3>2, <3>3
    <2>4. QED
        BY <1>1, <2>1, <2>2, <2>3 DEF Mirrors
<1>4. CASE Counts(lines[k])
    <2> DEFINE s == lines[k].name
               v == lines[k].value
               new == ibwadd(list, s, v)
    <2>1. AfterLine(list, lines[k]) = new
        BY <1>4 DEF AfterLine
    <2>2. s \in Spelling /\ v \in Nat
        BY <1>4, CountingLine
    <2>0. s = lines[k].name /\ v = lines[k].value
        OBVIOUS
    <2> HIDE DEF s, v
    <2>9. Adds(list, s, v, new)
        BY <1>1, <2>2, Added
    <2> HIDE DEF new
    <2>3. /\ Fresh(new)
          /\ \E n \in DOMAIN new : new[n].interface = s
          /\ \A n \in DOMAIN list : \E m \in DOMAIN new :
                new[m].interface = list[n].interface
          /\ \A n \in DOMAIN new :
                \/ new[n].interface = s /\ new[n].limit = v
                \/ new[n].interface # s /\ \E m \in DOMAIN list : list[m] = new[n]
        BY <2>9 DEF Adds
    <2>4. ASSUME NEW m \in 1 .. k, Counts(lines[m])
          PROVE  \E n \in DOMAIN new : new[n].interface = lines[m].name
        <3>1. CASE m = k
            BY <2>0, <2>3, <3>1
        <3>2. CASE m # k
            <4>1. m \in 1 .. k - 1
                BY <3>2
            <4>2. PICK n \in DOMAIN list : list[n].interface = lines[m].name
                BY <1>1, <2>4, <4>1
            <4>3. QED
                BY <2>3, <4>2
        <3>3. QED
            BY <3>1, <3>2
    <2>5. ASSUME NEW n \in DOMAIN new
          PROVE  \E m \in 1 .. k :
                    /\ Counts(lines[m])
                    /\ lines[m].name = new[n].interface /\ lines[m].value = new[n].limit
                    /\ \A l \in m + 1 .. k : Counts(lines[l]) =>
                          lines[l].name # new[n].interface
        <3>1. CASE new[n].interface = s /\ new[n].limit = v
            <4>1. k \in 1 .. k /\ k + 1 .. k = {}
                OBVIOUS
            <4>2. QED
                BY <1>4, <2>0, <3>1, <4>1
        <3>2. CASE new[n].interface # s /\ \E j \in DOMAIN list : list[j] = new[n]
            <4>1. PICK j \in DOMAIN list : list[j] = new[n]
                BY <3>2
            <4>2. PICK m \in 1 .. k - 1 :
                     /\ Counts(lines[m])
                     /\ lines[m].name = list[j].interface /\ lines[m].value = list[j].limit
                     /\ \A l \in m + 1 .. k - 1 : Counts(lines[l]) =>
                           lines[l].name # list[j].interface
                BY <1>2
            <4>3. \A l \in m + 1 .. k : l = k \/ l \in m + 1 .. k - 1
                OBVIOUS
            <4>4. m \in 1 .. k
                OBVIOUS
            <4>5. QED
                BY <2>0, <3>2, <4>1, <4>2, <4>3, <4>4
        <3>3. QED
            BY <2>3, <3>1, <3>2
    <2>6. QED
        BY <2>1, <2>3, <2>4, <2>5 DEF Mirrors
<1>5. QED
    BY <1>3, <1>4

LEMMA FileMirrored ==
    ASSUME NEW lines, Len(lines) \in Nat
    PROVE  Mirrors(lines, Len(lines), ibwcfgread(lines))
<1> DEFINE len == Len(lines)
           F == CHOOSE list : After(lines, len, list)
<1>1. ibwcfgread(lines) = F[len]
    BY DEF ibwcfgread, After
<1>2. After(lines, len, F)
    BY AfterEachLine
<1> HIDE DEF F
<1>3. F = [n \in 0 .. len |-> IF n = 0 THEN <<>> ELSE AfterLine(F[n - 1], lines[n])]
    BY <1>2 DEF After
<1> DEFINE not == {k \in 0 .. len : ~Mirrors(lines, k, F[k])}
<1>4. not = {}
    <2>1. SUFFICES ASSUME not # {} PROVE FALSE
        OBVIOUS
    <2>2. PICK k \in not : \A l \in not : k <= l
        <3>1. not \subseteq Nat
            OBVIOUS
        <3> HIDE DEF not
        <3>2. QED
            BY <2>1, <3>1, Least
    <2>3. k # 0
        <3>1. F[0] = <<>>
            BY <1>3
        <3>2. QED
            BY <2>2, <3>1, NothingMirrors
    <2>4. k \in 0 .. len /\ k - 1 \in 0 .. len /\ k \in Nat \ {0}
        BY <2>3
    <2>5. Mirrors(lines, k - 1, F[k - 1])
        BY <2>2, <2>4
    <2>6. F[k] = AfterLine(F[k - 1], lines[k])
        BY <1>3, <2>3, <2>4
    <2>7. Mirrors(lines, k, F[k])
        BY <2>4, <2>5, <2>6, LineMirrored
    <2>8. QED
        BY <2>2, <2>7
<1>5. len \in 0 .. len
    OBVIOUS
<1>6. QED
    BY <1>1, <1>4, <1>5

(***************************************************************************)
(* The inductive invariant.                                                *)
(***************************************************************************)

(* SpeltOnce and LastLimit, of any file. *)
Spelt(f, i) ==
    {s \in Spelling : Meant[s] = i /\ \E n \in DOMAIN f.lines : f.lines[n].name = s}
Given(f, i) == {n \in DOMAIN f.lines : Counts(f.lines[n]) /\ Meant[f.lines[n].name] = i}
Limit(f, i) ==
    IF Given(f, i) = {} THEN None
    ELSE f.lines[CHOOSE n \in Given(f, i) : \A m \in Given(f, i) : m <= n].value
Fixed(f, i) == Cardinality(Spelt(f, i)) <= 1 /\ Limit(f, i) > 0

(* The node of an interface whose limit is fixed has that limit, and was   *)
(* never subject to a detection, which is what keeps it.                   *)
Keeps(f, list) ==
    \A i \in Iface : Fixed(f, i) =>
        /\ Found(list, i) # {}
        /\ \A n \in Found(list, i) : list[n].limit = Limit(f, i) /\ list[n].age = Never

(* No limit that was used is another than the fixed one. *)
Uses(f, l) == \A i \in Iface : l[i] # None /\ Fixed(f, i) => l[i] = Limit(f, i)

BInv ==
    /\ file \in Files
    /\ loaded \in Files
    /\ cfg = loadcfg(loaded, defaultcfg)
    /\ speed \in [Iface \ Tun -> Speed]
    /\ limit \in [Iface -> Nat \cup {None}]
    /\ failed \subseteq Iface
    /\ ifacebw \in Lists
    /\ Unique(ifacebw)
    /\ Keeps(loaded, ifacebw)
    /\ Uses(loaded, limit)

LEMMA AtMostOne ==
    ASSUME NEW S, IsFiniteSet(S), Cardinality(S) <= 1, NEW x \in S, NEW y \in S
    PROVE  x = y
<1>1. Cardinality(S) \in Nat /\ Cardinality(S) # 0
    BY FS_CardinalityType, FS_EmptySet
<1>2. Cardinality(S) = 1
    BY <1>1
<1>3. QED
    BY <1>2, FS_Singleton

LEMMA FileTyped ==
    ASSUME NEW f \in Files
    PROVE  /\ f.readable \in BOOLEAN
           /\ f.lines \in Seq(Line)
           /\ Len(f.lines) \in Nat
           /\ DOMAIN f.lines = 1 .. Len(f.lines)
           /\ ~f.readable => f.lines = <<>>
<1>1. f.lines \in Seq(Line) /\ f.readable \in BOOLEAN /\ (~f.readable => f.lines = <<>>)
    BY FilesAssumption DEF Line
<1>2. QED
    BY <1>1

(* The last of the lines that give a limit gives the node its limit.       *)
LEMMA LimitsMirrored ==
    ASSUME NEW f \in Files, NEW list, Mirrors(f.lines, Len(f.lines), list)
    PROVE  Keeps(f, list)
<1> DEFINE lines == f.lines
           len == Len(f.lines)
<1>1. len \in Nat /\ DOMAIN lines = 1 .. len
    BY FileTyped
<1> SUFFICES ASSUME NEW i \in Iface, Fixed(f, i)
             PROVE  /\ Found(list, i) # {}
                    /\ \A n \in Found(list, i) :
                          list[n].limit = Limit(f, i) /\ list[n].age = Never
    BY DEF Keeps
<1> DEFINE given == Given(f, i)
           last == CHOOSE n \in given : \A m \in given : m <= n
<1>2. given # {}
    BY DEF Fixed, Limit, None
<1>3. given \subseteq 1 .. len
    BY <1>1 DEF Given
<1>4. last \in given /\ \A m \in given : m <= last
    <2> HIDE DEF given
    <2>1. QED
        BY <1>1, <1>2, <1>3, Last
<1>5. Limit(f, i) = lines[last].value
    BY <1>2 DEF Limit
<1> HIDE DEF last
<1>6. /\ last \in 1 .. len
      /\ Counts(lines[last]) /\ Meant[lines[last].name] = i
      /\ lines[last].name \in Spelling
    BY <1>1, <1>4, CountingLine DEF Given
<1>7. \E n \in DOMAIN list : list[n].interface = lines[last].name
    BY <1>6 DEF Mirrors
<1>8. Found(list, i) # {}
    BY <1>6, <1>7 DEF Found
<1>9. ASSUME NEW n \in Found(list, i)
      PROVE  list[n].limit = Limit(f, i) /\ list[n].age = Never
    <2>1. n \in DOMAIN list /\ Meant[list[n].interface] = i
        BY DEF Found
    <2>2. PICK m \in 1 .. len :
             /\ Counts(lines[m])
             /\ lines[m].name = list[n].interface /\ lines[m].value = list[n].limit
             /\ \A l \in m + 1 .. len : Counts(lines[l]) =>
                   lines[l].name # list[n].interface
        BY <2>1 DEF Mirrors
    <2>3. m \in given /\ lines[m].name \in Spelling
        BY <1>1, <2>1, <2>2, CountingLine DEF Given
    <2>4. lines[m].name = lines[last].name
        <3>1. IsFiniteSet(Spelt(f, i))
            <4>1. Spelt(f, i) \subseteq Spelling
                BY DEF Spelt
            <4>2. QED
                BY <4>1, SpellingAssumption, FS_Subset
        <3>2. lines[m].name \in Spelt(f, i) /\ lines[last].name \in Spelt(f, i)
            BY <1>1, <1>6, <2>1, <2>2, <2>3 DEF Spelt
        <3>3. QED
            BY <3>1, <3>2, AtMostOne DEF Fixed
    <2>5. m <= last
        BY <1>4, <2>3
    <2>6. ~(m < last)
        <3>1. SUFFICES ASSUME m < last PROVE FALSE
            OBVIOUS
        <3>2. last \in m + 1 .. len
            BY <1>6, <3>1
        <3>3. QED
            BY <1>6, <2>2, <2>4, <3>2
    <2>7. m = last
        BY <1>6, <2>5, <2>6
    <2>8. list[n].age = Never
        BY <2>1 DEF Mirrors, Fresh
    <2>9. QED
        BY <1>5, <2>2, <2>7, <2>8
<1>10. QED
    BY <1>8, <1>9

(* What loading a file leaves. *)
LEMMA Loaded ==
    ASSUME NEW f \in Files
    PROVE  /\ ibwloadcfg(f) \in Lists
           /\ Unique(ibwloadcfg(f))
           /\ Keeps(f, ibwloadcfg(f))
<1>1. CASE f.readable
    <2>1. ibwloadcfg(f) = ibwcfgread(f.lines)
        BY <1>1 DEF ibwloadcfg
    <2>2. Mirrors(f.lines, Len(f.lines), ibwloadcfg(f))
        BY <2>1, FileTyped, FileMirrored
    <2>3. QED
        BY <2>2, LimitsMirrored DEF Mirrors, Fresh
<1>2. CASE ~f.readable
    <2>1. ibwloadcfg(f) = <<>> /\ f.lines = <<>>
        BY <1>2, FileTyped DEF ibwloadcfg
    <2>2. Mirrors(f.lines, 0, ibwloadcfg(f)) /\ Len(f.lines) = 0
        BY <2>1, NothingMirrors
    <2>3. QED
        BY <2>2, LimitsMirrored DEF Mirrors, Fresh
<1>3. QED
    BY <1>1, <1>2

(* The node that is found is one of them. *)
LEMMA NodeFound ==
    ASSUME NEW list \in Lists, NEW i \in Iface, Found(list, i) # {}
    PROVE  ibwgetnode(list, i) \in Found(list, i)
<1>1. Found(list, i) \subseteq Nat
    BY DEF Found, Lists
<1>2. QED
    BY <1>1, First DEF ibwgetnode

(* Changing nodes does not change whose they are. *)
LEMMA StillFound ==
    ASSUME NEW list, NEW new, DOMAIN new = DOMAIN list,
           \A n \in DOMAIN list : new[n].interface = list[n].interface
    PROVE  /\ Unique(list) => Unique(new)
           /\ \A i \in Iface : Found(new, i) = Found(list, i)
BY DEF Unique, Found

LEMMA OlderNode ==
    ASSUME NEW node \in Nodes, cfg.BandwidthDetectionInterval \in 0 .. 30
    PROVE  /\ Older(node) \in Nodes
           /\ Older(node).interface = node.interface
           /\ Older(node).limit = node.limit
           /\ node.age = Never => Older(node).age = Never
BY DEF Older, Nodes, Never, None, MaxAge

LEMMA SpeedTyped ==
    ASSUME BInv, NEW i \in Iface, Detects(i)
    PROVE  speed[i] \in Nat
<1>1. speed \in [Iface \ Tun -> Speed]
    BY DEF BInv
<1>2. QED
    BY <1>1, SpeedAssumption DEF Detects

LEMMA DetectedNode ==
    ASSUME NEW node \in Nodes, NEW s \in Nat
    PROVE  /\ Detected(node, s) \in Nodes
           /\ Detected(node, s).interface = node.interface
           /\ Detected(node, s).limit = s
<1> DEFINE n1 == [node EXCEPT !.limit = s]
           n2 == [n1 EXCEPT !.retries = 0]
           n3 == [n2 EXCEPT !.age = 0]
<1>1. Detected(node, s) = n3
    BY DEF Detected
<1>2. n1 \in Nodes /\ n1.interface = node.interface /\ n1.limit = s
    BY DEF Nodes
<1> HIDE DEF n1
<1>3. n2 \in Nodes /\ n2.interface = node.interface /\ n2.limit = s
    BY <1>2 DEF Nodes, MaxRetries
<1> HIDE DEF n2
<1>4. n3 \in Nodes /\ n3.interface = node.interface /\ n3.limit = s
    BY <1>3 DEF Nodes, MaxAge
<1>5. QED
    BY <1>1, <1>4

LEMMA NodeAfterGet ==
    ASSUME NEW node \in Nodes, NEW i \in Iface, Detects(i) => speed[i] \in Nat
    PROVE  /\ AfterGet(node, i) \in Nodes
           /\ AfterGet(node, i).interface = node.interface
           /\ AfterGet(node, i).limit \in Nat
           /\ Configured(node) => AfterGet(node, i) = node
<1>1. CASE Configured(node) \/ ~Detects(i) \/ ~Due(node)
    <2>1. AfterGet(node, i) = node
        BY <1>1 DEF AfterGet
    <2>2. QED
        BY <2>1 DEF Nodes
<1>2. CASE ~(Configured(node) \/ ~Detects(i) \/ ~Due(node)) /\ speed[i] > 0
    <2>1. AfterGet(node, i) = Detected(node, speed[i])
        BY <1>2 DEF AfterGet
    <2>2. QED
        BY <1>2, <2>1, DetectedNode
<1>3. CASE ~(Configured(node) \/ ~Detects(i) \/ ~Due(node)) /\ ~(speed[i] > 0)
    <2>1. AfterGet(node, i) = Undetected(node)
        BY <1>3 DEF AfterGet
    <2>2. node.retries < MaxRetries
        BY <1>3 DEF Due
    <2>3. QED
        BY <1>3, <2>1, <2>2 DEF Undetected, Nodes, MaxRetries, MaxAge
<1>4. QED
    BY <1>1, <1>2, <1>3

(* ConfiguredIsUsed in the terms above. *)
LEMMA Fixes ==
    ASSUME NEW i
    PROVE  LastLimit(i) = Limit(loaded, i) /\
           (SpeltOnce(i) /\ LastLimit(i) > 0 <=> Fixed(loaded, i))
BY DEF LastLimit, SpeltOnce, Limit, Fixed, Given, Spelt

LEMMA InvariantImplies == BInv => TypeOK /\ IntervalsFit /\ ConfiguredIsUsed
<1> SUFFICES ASSUME BInv PROVE TypeOK /\ IntervalsFit /\ ConfiguredIsUsed
    OBVIOUS
<1>1. \A n \in DOMAIN ifacebw : ifacebw[n] \in Nodes
    <2> HIDE DEF Nodes
    <2>1. QED
        BY DEF BInv, Lists
<1>2. cfg \in [Keywords -> Int] /\ (loaded.readable => Fits(cfg))
    BY ConfigurationFits DEF BInv, Configuration
<1>3. TypeOK
    <2> HIDE DEF Nodes, None
    <2>1. QED
        BY <1>1, <1>2 DEF BInv, TypeOK, Unique
<1>4. IntervalsFit
    BY <1>2 DEF IntervalsFit, Fits
<1>5. ConfiguredIsUsed
    BY Fixes DEF BInv, Uses, ConfiguredIsUsed
<1>6. QED
    BY <1>3, <1>4, <1>5

LEMMA Started == Init => BInv
<1> SUFFICES ASSUME Init PROVE BInv
    OBVIOUS
<1>1. /\ file \in Files /\ loaded = file
      /\ cfg = loadcfg(file, defaultcfg) /\ ifacebw = ibwloadcfg(file)
      /\ limit = [i \in Iface |-> None]
      /\ speed \in [Iface \ Tun -> Speed] /\ failed = {}
    BY DEF Init
<1>2. ifacebw \in Lists /\ Unique(ifacebw) /\ Keeps(loaded, ifacebw)
    BY <1>1, Loaded
<1>3. Uses(loaded, limit)
    BY <1>1 DEF Uses
<1>4. QED
    BY <1>1, <1>2, <1>3 DEF BInv

(* What the steps of an interface have in common. *)
LEMMA GotLimit ==
    ASSUME BInv, NEW i \in Iface, NEW new \in Nat,
           Fixed(loaded, i) => new = Limit(loaded, i)
    PROVE  /\ [limit EXCEPT ![i] = new] \in [Iface -> Nat \cup {None}]
           /\ Uses(loaded, [limit EXCEPT ![i] = new])
<1>1. limit \in [Iface -> Nat \cup {None}] /\ Uses(loaded, limit)
    BY DEF BInv
<1> DEFINE l == [limit EXCEPT ![i] = new]
<1>2. l \in [Iface -> Nat \cup {None}]
    BY <1>1
<1>3. \A j \in Iface : l[j] = IF j = i THEN new ELSE limit[j]
    BY <1>1
<1> HIDE DEF l
<1>4. Uses(loaded, l)
    BY <1>1, <1>3 DEF Uses
<1>5. QED
    BY <1>2, <1>4 DEF l

LEMMA GetsKeeps ==
    ASSUME BInv, NEW i \in Iface, Gets(i), UNCHANGED <<file, cfg, loaded, speed>>
    PROVE  BInv'
<1> DEFINE n == ibwgetnode(ifacebw, i)
           node == AfterGet(ifacebw[n], i)
<1>1. /\ TypeOK /\ ifacebw \in Lists /\ Unique(ifacebw) /\ Keeps(loaded, ifacebw)
      /\ file \in Files /\ loaded \in Files /\ cfg = loadcfg(loaded, defaultcfg)
      /\ speed \in [Iface \ Tun -> Speed] /\ failed \subseteq Iface
    BY InvariantImplies DEF BInv
<1>2. n \in Found(ifacebw, i)
    BY <1>1, NodeFound DEF Gets
<1>3. n \in DOMAIN ifacebw /\ Meant[ifacebw[n].interface] = i
    BY <1>2 DEF Found
<1>4. ifacebw[n] \in Nodes
    BY <1>1, <1>3 DEF TypeOK
<1>5. /\ node \in Nodes /\ node.interface = ifacebw[n].interface /\ node.limit \in Nat
      /\ Configured(ifacebw[n]) => node = ifacebw[n]
    BY <1>1, <1>4, NodeAfterGet, SpeedTyped
<1>6. ifacebw' = [ifacebw EXCEPT ![n] = node]
    BY <1>3 DEF Gets
<1>7. /\ limit' = [limit EXCEPT ![i] = node.limit]
      /\ failed' \in {failed, failed \cup {i}}
    BY DEF Gets
<1> HIDE DEF n, node
<1>8. \A m \in DOMAIN ifacebw : ifacebw'[m] = IF m = n THEN node ELSE ifacebw[m]
    BY <1>6
<1>9. ifacebw' = [m \in DOMAIN ifacebw |-> ifacebw'[m]]
    BY <1>6
<1>10. ifacebw' \in Lists /\ DOMAIN ifacebw' = DOMAIN ifacebw
    <2>1. \A m \in DOMAIN ifacebw : ifacebw'[m] \in Nodes
        BY <1>1, <1>5, <1>8 DEF TypeOK
    <2>2. QED
        BY <1>1, <1>9, <2>1, SameNodes
<1>11. \A m \in DOMAIN ifacebw : ifacebw'[m].interface = ifacebw[m].interface
    BY <1>5, <1>8
<1>12. /\ Unique(ifacebw')
       /\ \A j \in Iface : Found(ifacebw', j) = Found(ifacebw, j)
    BY <1>1, <1>10, <1>11, StillFound
<1>13. \A j \in Iface : Fixed(loaded, j) =>
          \A m \in Found(ifacebw, j) : ifacebw'[m] = ifacebw[m]
    <2>1. SUFFICES ASSUME NEW j \in Iface, Fixed(loaded, j), NEW m \in Found(ifacebw, j)
                   PROVE  ifacebw'[m] = ifacebw[m]
        OBVIOUS
    <2>2. ifacebw[m].limit = Limit(loaded, j) /\ ifacebw[m].age = Never /\ m \in DOMAIN ifacebw
        BY <1>1, <2>1 DEF Keeps, Found
    <2>3. Configured(ifacebw[m])
        BY <2>1, <2>2 DEF Configured, Fixed
    <2>4. QED
        BY <1>5, <1>8, <2>2, <2>3
<1>14. Keeps(loaded, ifacebw')
    BY <1>1, <1>12, <1>13 DEF Keeps
<1>15. Fixed(loaded, i) => node.limit = Limit(loaded, i)
    <2>1. Fixed(loaded, i) => ifacebw[n].limit = Limit(loaded, i) /\ ifacebw'[n] = ifacebw[n]
        BY <1>1, <1>2, <1>13 DEF Keeps
    <2>2. QED
        BY <1>3, <1>8, <2>1
<1>16. limit' \in [Iface -> Nat \cup {None}] /\ Uses(loaded, limit')
    BY <1>5, <1>7, <1>15, GotLimit
<1>17. failed' \subseteq Iface
    BY <1>1, <1>7
<1>18. /\ file' = file /\ loaded' = loaded /\ cfg' = cfg /\ speed' = speed
    OBVIOUS
<1>19. QED
    BY <1>1, <1>10, <1>12, <1>14, <1>16, <1>17, <1>18 DEF BInv

LEMMA GetsFirstKeeps ==
    ASSUME BInv, NEW i \in Iface, GetsFirst(i), UNCHANGED <<file, cfg, loaded, speed>>
    PROVE  BInv'
<1>1. /\ ifacebw \in Lists /\ Unique(ifacebw) /\ Keeps(loaded, ifacebw)
      /\ failed \subseteq Iface /\ loaded \in Files /\ cfg = loadcfg(loaded, defaultcfg)
    BY DEF BInv
<1>2. Found(ifacebw, i) = {} /\ Detects(i)
    BY DEF GetsFirst
<1>3. cfg.MaxBandwidth \in Nat /\ speed[i] \in Nat
    BY <1>1, <1>2, ConfigurationFits, SpeedTyped
<1>4. i \in Spelling /\ Meant[i] = i
    BY SpellingAssumption
<1>5. PICK node \in Nodes :
         /\ node.interface = i
         /\ ifacebw' = <<node>> \o ifacebw
         /\ limit' \in {[limit EXCEPT ![i] = speed[i]], [limit EXCEPT ![i] = cfg.MaxBandwidth]}
         /\ failed' \in {failed, failed \cup {i}}
    <2> DEFINE new == Node(i, cfg.MaxBandwidth)
    <2>1. new \in Nodes /\ new.interface = i /\ new.retries = 0
        BY <1>3, <1>4, NewNode
    <2>2. CASE speed[i] > 0
        <3>1. /\ ifacebw' = <<Detected(new, speed[i])>> \o ifacebw
              /\ limit' = [limit EXCEPT ![i] = speed[i]] /\ failed' = failed
            BY <2>2 DEF GetsFirst
        <3>2. Detected(new, speed[i]) \in Nodes /\ Detected(new, speed[i]).interface = i
            BY <1>3, <2>1, DetectedNode
        <3>3. QED
            BY <3>1, <3>2
    <2>3. CASE ~(speed[i] > 0)
        <3>1. /\ ifacebw' = <<Undetected(new)>> \o ifacebw
              /\ limit' = [limit EXCEPT ![i] = cfg.MaxBandwidth]
              /\ failed' = failed \cup {i}
            BY <2>3 DEF GetsFirst
        <3>2. Undetected(new) \in Nodes /\ Undetected(new).interface = i
            <4> HIDE DEF new
            <4>1. QED
                BY <2>1 DEF Undetected, Nodes, MaxRetries, MaxAge
        <3>3. QED
            BY <3>1, <3>2
    <2>4. QED
        BY <2>2, <2>3
<1>6. /\ ifacebw' \in Lists
      /\ DOMAIN ifacebw' = 1 .. Len(ifacebw) + 1
      /\ ifacebw'[1] = node
      /\ \A n \in DOMAIN ifacebw : ifacebw'[n + 1] = ifacebw[n]
      /\ \A n \in DOMAIN ifacebw' :
            n # 1 => n - 1 \in DOMAIN ifacebw /\ ifacebw'[n] = ifacebw[n - 1]
    <2>1. InFront(node, ifacebw, ifacebw')
        BY <1>1, <1>5, Prepended
    <2>2. QED
        BY <2>1 DEF InFront
<1>7. Len(ifacebw) \in Nat /\ DOMAIN ifacebw = 1 .. Len(ifacebw)
    BY <1>1 DEF Lists
<1>8. \A n \in DOMAIN ifacebw : ifacebw[n].interface # i
    BY <1>2, <1>4 DEF Found
<1>9. Unique(ifacebw')
    <2>1. SUFFICES ASSUME NEW n \in DOMAIN ifacebw', NEW m \in DOMAIN ifacebw',
                          ifacebw'[n].interface = ifacebw'[m].interface
                   PROVE  n = m
        BY DEF Unique
    <2>2. n \in Nat /\ m \in Nat
        BY <1>6, <1>7
    <2>3. CASE n = 1 \/ m = 1
        BY <1>5, <1>6, <1>8, <2>1, <2>3
    <2>4. CASE n # 1 /\ m # 1
        <3>1. n - 1 = m - 1
            BY <1>1, <1>6, <2>1, <2>4 DEF Unique
        <3>2. QED
            BY <2>2, <3>1
    <2>5. QED
        BY <2>3, <2>4
<1>10. ~Fixed(loaded, i)
    BY <1>1, <1>2 DEF Keeps
<1>11. Keeps(loaded, ifacebw')
    <2>1. SUFFICES ASSUME NEW j \in Iface, Fixed(loaded, j)
                   PROVE  /\ Found(ifacebw', j) # {}
                          /\ \A n \in Found(ifacebw', j) :
                                /\ ifacebw'[n].limit = Limit(loaded, j)
                                /\ ifacebw'[n].age = Never
        BY DEF Keeps
    <2>2. j # i
        BY <1>10, <2>1
    <2>3. PICK n \in DOMAIN ifacebw : Meant[ifacebw[n].interface] = j
        BY <1>1, <2>1 DEF Keeps, Found
    <2>4. n + 1 \in DOMAIN ifacebw'
        BY <1>6, <1>7
    <2>5. Found(ifacebw', j) # {}
        BY <1>6, <2>3, <2>4 DEF Found
    <2>6. ASSUME NEW m \in Found(ifacebw', j)
          PROVE  ifacebw'[m].limit = Limit(loaded, j) /\ ifacebw'[m].age = Never
        <3>1. m \in DOMAIN ifacebw' /\ Meant[ifacebw'[m].interface] = j
            BY DEF Found
        <3>2. m # 1
            BY <1>4, <1>5, <1>6, <2>2, <3>1
        <3>3. m - 1 \in Found(ifacebw, j) /\ ifacebw'[m] = ifacebw[m - 1]
            BY <1>6, <3>1, <3>2 DEF Found
        <3>4. QED
            BY <1>1, <2>1, <3>3 DEF Keeps
    <2>7. QED
        BY <2>5, <2>6
<1>12. limit' \in [Iface -> Nat \cup {None}] /\ Uses(loaded, limit')
    BY <1>3, <1>5, <1>10, GotLimit
<1>13. failed' \subseteq Iface
    BY <1>1, <1>5
<1>14. file' = file /\ loaded' = loaded /\ cfg' = cfg /\ speed' = speed
    OBVIOUS
<1>15. QED
    BY <1>6, <1>9, <1>11, <1>12, <1>13, <1>14 DEF BInv

LEMMA GetsDefaultKeeps ==
    ASSUME BInv, NEW i \in Iface, GetsDefault(i), UNCHANGED <<file, cfg, loaded, speed>>
    PROVE  BInv'
<1>1. /\ Keeps(loaded, ifacebw) /\ loaded \in Files /\ cfg = loadcfg(loaded, defaultcfg)
    BY DEF BInv
<1>2. /\ limit' = [limit EXCEPT ![i] = cfg.MaxBandwidth]
      /\ ifacebw' = ifacebw /\ failed' = failed /\ Found(ifacebw, i) = {}
    BY DEF GetsDefault
<1>3. cfg.MaxBandwidth \in Nat
    BY <1>1, ConfigurationFits
<1>4. ~Fixed(loaded, i)
    BY <1>1, <1>2 DEF Keeps
<1>5. limit' \in [Iface -> Nat \cup {None}] /\ Uses(loaded, limit')
    BY <1>2, <1>3, <1>4, GotLimit
<1>6. file' = file /\ loaded' = loaded /\ cfg' = cfg /\ speed' = speed
    OBVIOUS
<1>7. QED
    BY <1>2, <1>5, <1>6 DEF BInv

LEMMA ReloadKeeps == ASSUME BInv, Reload PROVE BInv'
<1>1. /\ file \in Files /\ speed \in [Iface \ Tun -> Speed]
    BY DEF BInv
<1>2. /\ cfg' = loadcfg(file, defaultcfg) /\ ifacebw' = ibwloadcfg(file)
      /\ loaded' = file /\ limit' = [i \in Iface |-> None] /\ failed' = {}
      /\ file' = file /\ speed' = speed
    BY DEF Reload
<1>3. ifacebw' \in Lists /\ Unique(ifacebw') /\ Keeps(loaded', ifacebw')
    BY <1>1, <1>2, Loaded
<1>4. limit' \in [Iface -> Nat \cup {None}] /\ Uses(loaded', limit')
    BY <1>2 DEF Uses
<1>5. QED
    BY <1>1, <1>2, <1>3, <1>4 DEF BInv

LEMMA MinuteKeeps == ASSUME BInv, Minute PROVE BInv'
<1>1. /\ ifacebw \in Lists /\ Unique(ifacebw) /\ Keeps(loaded, ifacebw)
      /\ loaded \in Files /\ cfg = loadcfg(loaded, defaultcfg)
    BY DEF BInv
<1>2. cfg.BandwidthDetectionInterval \in 0 .. 30
    BY <1>1, ConfigurationFits
<1>3. ifacebw' = [n \in DOMAIN ifacebw |-> Older(ifacebw[n])]
    BY DEF Minute
<1>4. \A n \in DOMAIN ifacebw : ifacebw[n] \in Nodes
    BY InvariantImplies DEF TypeOK
<1>5. \A n \in DOMAIN ifacebw :
         /\ ifacebw'[n] \in Nodes
         /\ ifacebw'[n].interface = ifacebw[n].interface
         /\ ifacebw'[n].limit = ifacebw[n].limit
         /\ ifacebw[n].age = Never => ifacebw'[n].age = Never
    BY <1>2, <1>3, <1>4, OlderNode
<1>6. ifacebw' = [n \in DOMAIN ifacebw |-> ifacebw'[n]]
    BY <1>3
<1>7. ifacebw' \in Lists /\ DOMAIN ifacebw' = DOMAIN ifacebw
    BY <1>1, <1>5, <1>6, SameNodes
<1>8. Unique(ifacebw') /\ \A j \in Iface : Found(ifacebw', j) = Found(ifacebw, j)
    BY <1>1, <1>5, <1>7, StillFound
<1>9. Keeps(loaded, ifacebw')
    <2>1. \A j \in Iface : \A n \in Found(ifacebw, j) : n \in DOMAIN ifacebw
        BY DEF Found
    <2>2. QED
        BY <1>1, <1>5, <1>8, <2>1 DEF Keeps
<1>10. /\ file' = file /\ loaded' = loaded /\ cfg' = cfg /\ speed' = speed
       /\ limit' = limit /\ failed' = failed
    BY DEF Minute
<1>11. QED
    BY <1>7, <1>8, <1>9, <1>10 DEF BInv

LEMMA InvariantKept == BInv /\ [Next]_vars => BInv'
<1> SUFFICES ASSUME BInv, [Next]_vars PROVE BInv'
    OBVIOUS
<1>1. CASE \E i \in Iface : ibwget(i)
    <2>1. PICK i \in Iface : ibwget(i)
        BY <1>1
    <2>2. UNCHANGED <<file, cfg, loaded, speed>>
        BY <2>1 DEF ibwget
    <2>3. CASE Gets(i)
        BY <2>2, <2>3, GetsKeeps
    <2>4. CASE GetsFirst(i)
        BY <2>2, <2>4, GetsFirstKeeps
    <2>5. CASE GetsDefault(i)
        BY <2>2, <2>5, GetsDefaultKeeps
    <2>6. QED
        BY <2>1, <2>3, <2>4, <2>5 DEF ibwget
<1>2. CASE \E i \in Iface \ Tun : LinkChanges(i)
    <2>1. PICK i \in Iface \ Tun, s \in Speed : speed' = [speed EXCEPT ![i] = s]
        BY <1>2 DEF LinkChanges
    <2>2. /\ file' = file /\ loaded' = loaded /\ cfg' = cfg /\ ifacebw' = ifacebw
          /\ limit' = limit /\ failed' = failed
        BY <1>2 DEF LinkChanges
    <2>3. speed' \in [Iface \ Tun -> Speed]
        BY <2>1 DEF BInv
    <2>4. QED
        BY <2>2, <2>3 DEF BInv
<1>3. CASE Reload
    BY <1>3, ReloadKeeps
<1>4. CASE Edit
    BY <1>4, EditsAssumption DEF Edit, BInv
<1>5. CASE Minute
    BY <1>5, MinuteKeeps
<1>6. CASE UNCHANGED vars
    BY <1>6 DEF vars, BInv
<1>7. QED
    BY <1>1, <1>2, <1>3, <1>4, <1>5, <1>6 DEF Next

LEMMA InvariantHolds == Spec => []BInv
BY Started, InvariantKept, PTL DEF Spec

(***************************************************************************)
(* The theorems.                                                           *)
(***************************************************************************)

(* Every variable has its type, no name has two nodes, no retry goes past  *)
(* the last and no age past the one at which detection is due: ibwadd,     *)
(* ibwget of ibw.c, and what loadcfg of cfg.c lets through.                *)
THEOREM TypeCorrect == Spec => []TypeOK
BY InvariantHolds, InvariantImplies, PTL

(* Whatever numbers the configuration file holds, validatecfg of cfg.c     *)
(* leaves the intervals in their ranges and in their order, but for the    *)
(* two cases IntervalsFit names (a number of seconds that overflows, and   *)
(* an update interval the rollover limit has set to 20 or 10), and for     *)
(* every bandwidth up to 3212 Mbit an update interval that is shorter than *)
(* a rollover of the counters.  Rests on Seconds, what is left of a        *)
(* product for either way an overflow may turn out.                        *)
THEOREM IntervalsAlwaysFit == Spec => []IntervalsFit
BY InvariantHolds, InvariantImplies, PTL

(* For any file, any number of interfaces and speeds of their links, no    *)
(* update uses another limit than the one the file gives last for the      *)
(* interface: ibwget of ibw.c never detects what was configured.           *)
THEOREM ConfiguredLimitIsUsed == Spec => []ConfiguredIsUsed
BY InvariantHolds, InvariantImplies, PTL
=============================================================================
