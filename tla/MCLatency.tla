----------------------------- MODULE MCLatency -----------------------------
EXTENDS Latency
=============================================================================
