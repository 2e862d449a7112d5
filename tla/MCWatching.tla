----------------------------- MODULE MCWatching -----------------------------
\* Two outputs the pointer moves between.
EXTENDS Watching

CONSTANTS o1, o2
=============================================================================
