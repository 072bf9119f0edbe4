-------------------------- MODULE MCHealthWatcher --------------------------
\* Small instance of the health watcher for TLC.
EXTENDS HealthWatcher
=============================================================================
