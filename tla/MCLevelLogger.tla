---------------------------- MODULE MCLevelLogger ----------------------------
EXTENDS LevelLogger
=============================================================================
