----------------------------- MODULE MCDiscovery -----------------------------
EXTENDS Discovery
CONSTANTS p1, k1, k2
=============================================================================
