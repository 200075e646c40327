-------------------------- MODULE MCSignalSession --------------------------
EXTENDS SignalSession

MCZScores == -3 .. 3
=============================================================================
