----------------------------- MODULE MCScheduler -----------------------------
EXTENDS Scheduler
CONSTANTS a, b
\* a has one calendar and b, configured after it, two.
Calendars == <<a, b, b>>
=============================================================================
