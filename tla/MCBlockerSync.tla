---------------------------- MODULE MCBlockerSync ----------------------------
EXTENDS BlockerSync, TLC
CONSTANTS o1, o2, google, graph
=============================================================================
