---------------------------- MODULE MCCheckpoint ----------------------------
\* Checkpoint for TLC: the plugins are interchangeable.
EXTENDS Checkpoint, TLC
CONSTANTS biz, db
Interchangeable == Permutations(Plugins)
=============================================================================
