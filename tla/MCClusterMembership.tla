------------------------ MODULE MCClusterMembership ------------------------
\* ClusterMembership for TLC; the constants are plain values of the cfg.
EXTENDS ClusterMembership
=============================================================================
