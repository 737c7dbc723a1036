----------------------------- MODULE RemoveAccount -----------------------------
(***************************************************************************)
(* calsync accounts remove (engine/engine.go).  The command and the daemon *)
(* exclude each other by the flock of the data directory, so a removal     *)
(* starts where the daemon was stopped or died, and finds what its         *)
(* failures left; an error or a death ends it, and what the user does then *)
(* is to run it again, or the daemon.                                      *)
(*                                                                         *)
(* An account that was removed is out of the daemon's reach until it is    *)
(* authorised again.                                                       *)
(***************************************************************************)
EXTENDS LoopPrevention

VARIABLES
  removal,    \* the command: its account, its loop, the rows left in it
  gone,       \* accounts that were removed since the daemon last ran
  strays      \* history: blockers without a recorded id since some failure

removing == <<removal, gone, strays>>

NoRemoval == [step |-> "none"]
Removal   == [step : {"distributed", "received", "events", "calendars"}, of : Account,
              force : BOOLEAN, left : SUBSET Event]

RemovalTypeOK ==
  /\ TypeOK
  /\ removal \in {NoRemoval} \cup Removal
  /\ gone \subseteq Account /\ strays \subseteq events

RemovalInit == Init /\ removal = NoRemoval /\ gone = {} /\ strays = {}

-----------------------------------------------------------------------------
Distributed(a) == {c \in Event : IsCopy(c) /\ Home(Source(c)) = a /\ row[c] /= "none"}
Received(a)    == {c \in Event : Home(c) = a /\ row[c] /= "none"}

\* Only what a failure leaves without its id is excused; nothing a removal
\* forgets is, unless --force told it to.
Excused(failed) ==
  strays' = {c \in events' : IsCopy(c) /\ row'[c] /= "active" /\ (failed \/ c \in strays)}

BeginRemoval(a, force) ==
  /\ removal = NoRemoval /\ phase = "idle"
  /\ removal' = [step |-> "distributed", of |-> a, force |-> force, left |-> Distributed(a)]
  /\ UNCHANGED <<vars, gone, strays>>

Forgotten(c) ==
  /\ row' = [row EXCEPT ![c] = "none"]
  /\ removal' = [removal EXCEPT !.left = @ \ {c}]

\* A row without the id of its blocker is taken for one that has none.
RemoveRow(c) ==
  /\ removal /= NoRemoval /\ c \in removal.left
  /\ IF row[c] = "active" THEN Deleted(c) ELSE UNCHANGED calendars
  /\ Forgotten(c) /\ Excused(FALSE)
  /\ UNCHANGED <<cursor, cached, phase, pass, job, loops, bounds, gone>>

ListReceived == [removal EXCEPT !.step = "received", !.left = Received(removal.of)]

NextLoop ==
  /\ removal /= NoRemoval /\ removal.left = {}
  /\ \/ removal.step = "distributed" /\ removal' = ListReceived
     \/ removal.step = "received" /\ removal' = [removal EXCEPT !.step = "events"]
  /\ UNCHANGED <<vars, gone, strays>>

ForgetEvents ==
  /\ removal.step = "events"
  /\ cached' = {e \in cached : Home(e) /= removal.of}
  /\ removal' = [removal EXCEPT !.step = "calendars"]
  /\ UNCHANGED <<calendars, cursor, row, phase, pass, job, loops, bounds, gone, strays>>

\* The calendars with their cursors, then the reminders and the token.
ForgetCalendars ==
  /\ removal.step = "calendars"
  /\ cursor' = [cursor EXCEPT ![removal.of] = "none"]
  /\ removal' = NoRemoval /\ gone' = gone \cup {removal.of}
  /\ UNCHANGED <<calendars, row, cached, phase, pass, job, loops, bounds, strays>>

-----------------------------------------------------------------------------
(***************************************************************************)
(* Failures.  A deletion that failed or whose answer was lost ends the     *)
(* command, or with --force is passed over; the process may die anywhere.  *)
(***************************************************************************)
DeletionFails(c) == row[c] = "active" /\ (Deleted(c) \/ UNCHANGED calendars)

\* Mutant: the row is deleted before the blocker.
RowFirst == \E c \in removal.left : DeletionFails(c) /\ row' = [row EXCEPT ![c] = "none"]
HalfRemoved == UNCHANGED row /\ (UNCHANGED calendars \/ \E c \in removal.left : DeletionFails(c))

RemovalEnds ==
  /\ removal /= NoRemoval /\ Fault
  /\ HalfRemoved
  /\ removal' = NoRemoval /\ Excused(FALSE)
  /\ UNCHANGED <<cursor, cached, phase, pass, job, loops, gone>>

RemovalSkips(c) ==
  /\ removal /= NoRemoval /\ removal.force /\ c \in removal.left /\ Fault
  /\ DeletionFails(c)
  /\ Forgotten(c) /\ Excused(TRUE)
  /\ UNCHANGED <<cursor, cached, phase, pass, job, loops, gone>>

-----------------------------------------------------------------------------
\* calsync auth add, after which the account "will sync again".
AuthoriseAgain(a) ==
  /\ removal = NoRemoval /\ a \in gone /\ gone' = gone \ {a}
  /\ UNCHANGED <<vars, removal, strays>>

\* The daemon starts with the flock and the tokens of all accounts; users need neither.
DaemonRuns == removal = NoRemoval /\ gone = {}
Outside ==
  /\ IF DaemonRuns THEN Next ELSE Environment
  /\ Excused(faults' > faults)
  /\ UNCHANGED <<removal, gone>>

RemovalNext ==
  \/ Outside
  \/ \E a \in Account, force \in BOOLEAN : BeginRemoval(a, force)
  \/ \E c \in Event : RemoveRow(c) \/ RemovalSkips(c)
  \/ NextLoop \/ ForgetEvents \/ ForgetCalendars \/ RemovalEnds
  \/ \E a \in Account : AuthoriseAgain(a)

RemovalSpec == RemovalInit /\ [][RemovalNext]_<<vars, removing>>

-----------------------------------------------------------------------------
\* README.md:433: when every account has been removed the blockers are gone from
\* all calendars.  After failures of the daemon, ends half-way, runs of the daemon
\* in between and new attempts, no blocker is left of a removed account or on it,
\* but for those whose id a failure kept from the mappings or --force let go.
RemovalIsComplete ==
  \A c \in events :
    IsCopy(c) /\ (Home(c) \in gone \/ Home(Source(c)) \in gone) => c \in strays

=============================================================================
