---------------------------- MODULE MCTimeoutTask ----------------------------
\* TimeoutTask for TLC.
EXTENDS TimeoutTask
=============================================================================
