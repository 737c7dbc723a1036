------------------------------ MODULE MCAppServer ------------------------------
EXTENDS AppServer
CONSTANTS c1, c2, day, week
=============================================================================
