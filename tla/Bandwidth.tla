------------------------------ MODULE Bandwidth ------------------------------
(***************************************************************************)
(* The limit that an interface's traffic is compared with: configured for  *)
(* it, detected from the speed the system reports, or MaxBandwidth.  The   *)
(* daemon asks for it at every update; links get another speed or none,    *)
(* and SIGHUP reads a file that may have been edited.                      *)
(*                                                                         *)
(* Time is counted in minutes.  Of the time of a detection only its age is *)
(* kept, up to the age at which the next one is due.                       *)
(***************************************************************************)
EXTENDS Settings, FiniteSets

CONSTANTS
    Iface,     \* names of interfaces
    Tun,       \* those that are tun interfaces
    Spelling,  \* names in the file and lists, upper and lower case
    Meant,     \* the interface each of them means to strcasecmp
    Speed,     \* speeds a link may have in Mbit; 0 is unknown
    Files,     \* what may be in the configuration file at the start
    Edits      \* and what it may be changed to

ASSUME SpellingAssumption ==
    /\ Tun \subseteq Iface
    /\ Iface \subseteq Spelling /\ IsFiniteSet(Spelling)
    /\ Meant \in [Spelling -> Iface]
    /\ \A i \in Iface : Meant[i] = i
ASSUME SpeedAssumption == Speed \subseteq Nat
ASSUME EditsAssumption == Edits \subseteq Files

(* A file that cannot be read gives no lines. *)
ASSUME FilesAssumption ==
    \A f \in Files : /\ f.readable \in BOOLEAN
                     /\ f.lines \in Seq([name : STRING, value : Int])
                     /\ ~f.readable => f.lines = <<>>

VARIABLES
    file,      \* the configuration file
    cfg,       \* the settings in use
    loaded,    \* the file they are from
    ifacebw,   \* the list of nodes, the newest first
    speed,     \* getifspeed of each interface; a tun's is never asked for
    limit,     \* the limit that was last used for it; None before the first
    failed     \* history: a detection has failed since the file was read

vars == <<file, cfg, loaded, ifacebw, speed, limit, failed>>

None == -1
Never == None   \* age of a detection that was not made
MaxRetries == 5
MaxAge == 31

Nodes == [interface : Spelling, limit : Nat, retries : 0 .. MaxRetries, age : {Never} \cup 0 .. MaxAge]

TypeOK ==
    /\ file \in Files
    /\ loaded \in Files
    /\ cfg \in [Keywords -> Int]
    /\ \A n \in DOMAIN ifacebw : ifacebw[n] \in Nodes
    /\ speed \in [Iface \ Tun -> Speed]
    /\ limit \in [Iface -> Nat \cup {None}]
    /\ failed \subseteq Iface
    /\ \A n, m \in DOMAIN ifacebw :
          ifacebw[n].interface = ifacebw[m].interface => n = m
-----------------------------------------------------------------------------
Node(name, value) == [interface |-> name, limit |-> value, retries |-> 0, age |-> Never]

(* Mutant of ibwadd: a name that is there is added again. *)
ibwaddanew(list, name, value) == <<Node(name, value)>> \o list

(* The names are compared with strcmp. *)
ibwadd(list, name, value) ==
    IF \E n \in DOMAIN list : list[n].interface = name
    THEN [n \in DOMAIN list |->
             IF list[n].interface = name THEN [list[n] EXCEPT !.limit = value] ELSE list[n]]
    ELSE <<Node(name, value)>> \o list

(* A line of MaxBW<interface> counts if its number is in range. *)
Counts(line) == line.name \in Spelling /\ line.value \in 0 .. BWMAX

AfterLine(list, line) == IF Counts(line) THEN ibwadd(list, line.name, line.value) ELSE list

(* The list after every line in turn, so that the last one counts. *)
ibwcfgread(lines) ==
    LET list[n \in 0 .. Len(lines)] ==
            IF n = 0 THEN <<>> ELSE AfterLine(list[n - 1], lines[n])
    IN  list[Len(lines)]

ibwloadcfg(f) == IF f.readable THEN ibwcfgread(f.lines) ELSE <<>>

(* The node of an interface is the first that strcasecmp finds. *)
Found(list, i) == {n \in DOMAIN list : Meant[list[n].interface] = i}

ibwgetnode(list, i) == CHOOSE n \in Found(list, i) : \A m \in Found(list, i) : n <= m

Detects(i) == i \notin Tun /\ cfg.BandwidthDetection = 1

(* Mutant of Due: repeated at the time of the interval, once. *)
DueOnTime(node) ==
    /\ node.retries < MaxRetries
    /\ cfg.BandwidthDetectionInterval > 0
    /\ node.age = Never \/ node.age = cfg.BandwidthDetectionInterval

(* Detection is due if it is repeated at all and the last one is too old.  *)
Due(node) ==
    /\ node.retries < MaxRetries
    /\ cfg.BandwidthDetectionInterval > 0
    /\ node.age = Never \/ node.age > cfg.BandwidthDetectionInterval

(* Mutant of Configured: only a limit that was detected is repeated. *)
DetectedBefore(node) == node.age # Never

Configured(node) == node.age = Never /\ node.limit > 0

Detected(node, s) == [node EXCEPT !.limit = s, !.retries = 0, !.age = 0]

Undetected(node) == [node EXCEPT !.retries = @ + 1]

(* The node of an interface after it was asked for, if it has one; getting *)
(* a node that was just added is another matter: it is tried at once and   *)
(* with MaxBandwidth as its limit.                                         *)
AfterGet(node, i) ==
    IF Configured(node) \/ ~Detects(i) \/ ~Due(node) THEN node
    ELSE IF speed[i] > 0 THEN Detected(node, speed[i])
    ELSE Undetected(node)

Fails(node, i) == ~Configured(node) /\ Detects(i) /\ Due(node) /\ speed[i] = 0

Gets(i) ==
    LET n == ibwgetnode(ifacebw, i)
    IN  /\ Found(ifacebw, i) # {}
        /\ ifacebw' = [ifacebw EXCEPT ![n] = AfterGet(@, i)]
        /\ limit' = [limit EXCEPT ![i] = AfterGet(ifacebw[n], i).limit]
        /\ failed' = IF Fails(ifacebw[n], i) THEN failed \cup {i} ELSE failed

GetsFirst(i) ==
    LET node == Node(i, cfg.MaxBandwidth)
    IN  /\ Found(ifacebw, i) = {}
        /\ Detects(i)
        /\ IF speed[i] > 0
           THEN /\ ifacebw' = <<Detected(node, speed[i])>> \o ifacebw
                /\ limit' = [limit EXCEPT ![i] = speed[i]]
                /\ UNCHANGED failed
           ELSE /\ ifacebw' = <<Undetected(node)>> \o ifacebw
                /\ limit' = [limit EXCEPT ![i] = cfg.MaxBandwidth]
                /\ failed' = failed \cup {i}

GetsDefault(i) ==
    /\ Found(ifacebw, i) = {}
    /\ ~Detects(i)
    /\ limit' = [limit EXCEPT ![i] = cfg.MaxBandwidth]
    /\ UNCHANGED <<ifacebw, failed>>

(* processifinfo, at an update of the interface. *)
ibwget(i) ==
    /\ Gets(i) \/ GetsFirst(i) \/ GetsDefault(i)
    /\ UNCHANGED <<file, cfg, loaded, speed>>

(* SIGHUP, or the start.  A file that is gone leaves the defaults. *)
Reload ==
    /\ cfg' = loadcfg(file, defaultcfg)
    /\ ifacebw' = ibwloadcfg(file)
    /\ loaded' = file
    /\ limit' = [i \in Iface |-> None]
    /\ failed' = {}
    /\ UNCHANGED <<file, speed>>
-----------------------------------------------------------------------------
Edit ==
    /\ file' \in Edits \ {file}
    /\ UNCHANGED <<cfg, loaded, ifacebw, speed, limit, failed>>

LinkChanges(i) ==
    /\ \E s \in Speed \ {speed[i]} : speed' = [speed EXCEPT ![i] = s]
    /\ UNCHANGED <<file, cfg, loaded, ifacebw, limit, failed>>

Older(node) ==
    IF node.age = Never \/ node.age > cfg.BandwidthDetectionInterval THEN node
    ELSE [node EXCEPT !.age = @ + 1]

Minute ==
    /\ ifacebw' = [n \in DOMAIN ifacebw |-> Older(ifacebw[n])]
    /\ UNCHANGED <<file, cfg, loaded, speed, limit, failed>>

(* The start fails if a given file cannot be opened. *)
Init ==
    /\ file \in {f \in Files : f.readable}
    /\ cfg = loadcfg(file, defaultcfg)
    /\ loaded = file
    /\ ifacebw = ibwloadcfg(file)
    /\ speed \in [Iface \ Tun -> Speed]
    /\ limit = [i \in Iface |-> None]
    /\ failed = {}

Next ==
    \/ \E i \in Iface : ibwget(i)
    \/ \E i \in Iface \ Tun : LinkChanges(i)
    \/ Reload
    \/ Edit
    \/ Minute

(* Updates go on, and so does the clock. *)
Fairness == WF_vars(Minute) /\ \A i \in Iface : WF_vars(ibwget(i))

Spec == Init /\ [][Next]_vars /\ Fairness
-----------------------------------------------------------------------------
(***************************************************************************)
(* Properties.                                                             *)
(***************************************************************************)

(* Whatever numbers the file holds, the intervals end up in the ranges     *)
(* that vnstat.conf.5 gives, but for two cases.  A SaveInterval whose      *)
(* number of seconds overflows may pass for a valid one.  And an update    *)
(* interval may end up below PollInterval: enforcing the rollover limit,   *)
(* which comes last, sets it to 20 seconds, or 10 for links that are too   *)
(* fast for 20, if the counters can roll over within the longest interval. *)
(* Up to 3212 Mbit no rollover goes unnoticed with the interval that is    *)
(* set (cfg.c:324).                                                        *)
IntervalsFit ==
    loaded.readable =>
        /\ RangesRespected(cfg)
        /\ SaveRangeRespected(cfg) \/ (OverflowWraps /\ Overflows(cfg))
        /\ cfg.UpdateInterval < cfg.PollInterval =>
              /\ cfg.MaxBandwidth > 0 /\ rolloversecs(cfg.MaxBandwidth) <= 300
              /\ cfg.UpdateInterval = LeastUpdate(cfg)
        /\ (cfg.MaxBandwidth > 0 /\ cfg.MaxBandwidth <= 3212) => RolloverNoticed(cfg)

LastLimit(i) ==
    LET of == {n \in DOMAIN loaded.lines :
                  Counts(loaded.lines[n]) /\ Meant[loaded.lines[n].name] = i}
    IN  IF of = {} THEN None
        ELSE loaded.lines[CHOOSE n \in of : \A m \in of : m <= n].value

SpeltOnce(i) ==
    Cardinality({s \in Spelling : Meant[s] = i /\
                    \E n \in DOMAIN loaded.lines : loaded.lines[n].name = s}) <= 1

(* The limit the file gives for an interface last is the one that every    *)
(* update uses, whatever links do and however long the daemon runs, if it  *)
(* is not 0 and the interface is written in one way: "never override       *)
(* manually configured limits", ibw.c:99.                                  *)
ConfiguredIsUsed ==
    \A i \in Iface :
        (limit[i] # None /\ SpeltOnce(i) /\ LastLimit(i) > 0) => limit[i] = LastLimit(i)

(* Is the speed of an interface to be detected? *)
Followed(i) ==
    /\ Detects(i)
    /\ cfg.BandwidthDetectionInterval > 0
    /\ LastLimit(i) = None
    /\ i \notin failed

(* If a link keeps its speed and no detection has failed since the file    *)
(* was read, the limit becomes that speed, and after every reload again:   *)
(* detection is repeated for as long as it works.  Once it has failed it   *)
(* may not be.                                                             *)
LimitFollowsLink ==
    \A i \in Iface \ Tun : \A s \in Speed \ {0} :
        <>[](speed[i] = s /\ Followed(i)) =>
            []<>(limit[i] = s) /\ <>[](limit[i] \in {s, None})
=============================================================================
