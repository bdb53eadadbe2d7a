---------------------------- MODULE MCHotReload ----------------------------
\* HotReload with named clients and services for TLC.
EXTENDS HotReload
CONSTANTS alice, bob, store, query
=============================================================================
