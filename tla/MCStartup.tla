----------------------------- MODULE MCStartup -----------------------------
(* Two processes; the options that make a start with a database differ. *)
EXTENDS Startup, TLC

MCSymmetry == Permutations(Proc)

Option(daemon, initdb, noadd, empty, always, path) ==
    [rundaemon |-> daemon, initdb |-> initdb, noadd |-> noadd,
     startempty |-> empty, alwaysadd |-> always, pidfile |-> path]

MCOptions ==
    {Option(TRUE, FALSE, TRUE, TRUE, FALSE, "other.pid"),
     Option(TRUE, FALSE, FALSE, FALSE, TRUE, "vnstat.pid"),
     Option(FALSE, TRUE, FALSE, FALSE, FALSE, "vnstat.pid")}
=============================================================================
