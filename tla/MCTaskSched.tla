----------------------------- MODULE MCTaskSched -----------------------------
\* TaskSched for TLC.
EXTENDS TaskSched
=============================================================================
