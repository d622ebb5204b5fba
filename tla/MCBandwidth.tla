---------------------------- MODULE MCBandwidth ----------------------------
(* An ethernet and a tun interface, and files in which lines are missing,  *)
(* repeated, empty, no number, out of range or at odds with each other.    *)
EXTENDS Bandwidth

MCSpelling == {"eth0", "ETH0", "tun0"}
MCMeant == [s \in MCSpelling |-> IF s = "tun0" THEN "tun0" ELSE "eth0"]

Line(n, v) == [name |-> n, value |-> v]
File(lines) == [readable |-> TRUE, lines |-> lines]
Missing == [readable |-> FALSE, lines |-> <<>>]

MCEdits ==
    {Missing, File(<<>>),
     File(<<Line("MaxBandwidth", Text), Line("MaxBandwidth", 0), Line("MaxBandwidth", 100)>>),
     File(<<Line("BandwidthDetection", 0), Line("eth0", 10)>>),
     File(<<Line("eth0", 10), Line("tun0", 10), Line("eth0", 100)>>),
     File(<<Line("ETH0", 10), Line("BandwidthDetectionInterval", 1)>>),
     File(<<Line("eth0", 10), Line("ETH0", 100), Line("eth0", 1000)>>),
     File(<<Line("eth0", 0), Line("BandwidthDetectionInterval", 0)>>),
     File(<<Line("BandwidthDetectionInterval", NoValue), Line("BandwidthDetectionInterval", 2)>>)}

(* Every way in which the intervals are at odds, with detection switched   *)
(* off: only what loadcfg makes of them matters.  With the 20 bits of      *)
(* IntRange, -10000 minutes are more seconds than fit and wrap around to   *)
(* 5 days; 1048581 minutes are 5.                                          *)
IntervalFiles ==
    {File(<<Line("UpdateInterval", u), Line("PollInterval", p), Line("SaveInterval", s),
            Line("OfflineSaveInterval", o), Line("MaxBandwidth", b),
            Line("BandwidthDetection", 0), Line("eth0", 100), Line("tun0", 100)>>) :
        u \in {-1, 1, 20, 61, 300, 301}, p \in {1, 60}, s \in {-10000, 0, 1, 61, 1048581},
        o \in {0, 61}, b \in {0, 100, 300, 1000, 3212, 400000}}

MCFiles == MCEdits \cup IntervalFiles
=============================================================================
