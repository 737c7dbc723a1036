---------------------------- MODULE MCRemoveAccount ----------------------------
EXTENDS RemoveAccount, TLC
CONSTANTS ada, bob

\* What a later step can still read.  A pass sets "at" and "ok" when it begins, a
\* Reconcile "healthy", and what changed on a calendar without a valid cursor is
\* never asked for: the next pass lists the calendar.
LiveState ==
  <<events, {e \in dirty : cursor[Home(e)] = "valid"}, cursor, row, cached, phase, batch,
    vanished, later, job, todo, todoE, bounds, removing, IF InPass THEN <<at, ok>> ELSE <<>>,
    IF phase \in {"rebuild", "full", "resync"} THEN healthy ELSE {}>>
=============================================================================
