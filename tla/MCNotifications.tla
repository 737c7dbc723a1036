---------------------------- MODULE MCNotifications ----------------------------
EXTENDS Notifications, TLC
CONSTANTS a, b
Copies == Permutations({a, b})
=============================================================================
