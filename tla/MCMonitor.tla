----------------------------- MODULE MCMonitor -----------------------------
EXTENDS Monitor

AllModes == {-2, -1, 0, 1}
Forced == {1}
=============================================================================
