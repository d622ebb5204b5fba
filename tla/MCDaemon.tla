------------------------------ MODULE MCDaemon ------------------------------
EXTENDS Daemon, TLC

Symmetry == Permutations(Iface)
=============================================================================
