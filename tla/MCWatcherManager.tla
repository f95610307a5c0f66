-------------------------- MODULE MCWatcherManager --------------------------
\* The watch manager on small instances: two clusters.
EXTENDS WatcherManager
=============================================================================
