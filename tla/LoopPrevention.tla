---------------------------- MODULE LoopPrevention ----------------------------
(***************************************************************************)
(* Several accounts that are each other's targets (internal/engine).  The  *)
(* calendar on which an account receives blockers is the calendar that is  *)
(* monitored, so every blocker comes back as a change of that calendar.    *)
(* calsync must recognise it (rule 2 of processEvent), or it mirrors its   *)
(* own blockers: an echo.                                                  *)
(*                                                                         *)
(* An event is named by where it came from: <<a>> is the real event of     *)
(* account a, Append(e, t) is the blocker of e on account t.  Times,       *)
(* windows and suppression are those of BlockerSync and left out; a pass   *)
(* is cut at each event and each target.                                   *)
(***************************************************************************)
EXTENDS Integers, Sequences, FiniteSets

CONSTANTS
  Account,       \* the configured accounts, one calendar each
  GraphAccount,  \* those on Microsoft Graph, whose delta returns no tag
  MaxLen,        \* bound: length of a chain of copies
  MaxEdits,      \* bound: edits by users
  MaxFaults      \* bound: failed calls, lost responses, crashes, lost state

ASSUME LoopAssumption ==
  /\ GraphAccount \subseteq Account
  /\ MaxLen \in Nat /\ MaxEdits \in Nat /\ MaxFaults \in Nat
  /\ MaxLen > MaxFaults + 2

Event == UNION {[1..n -> Account] : n \in 1..MaxLen}
Home(e)      == e[Len(e)]
IsCopy(e)    == Len(e) > 1
Source(e)    == SubSeq(e, 1, Len(e) - 1)
TargetsOf(e) == Account \ {Home(e)}

VARIABLES
  events,     \* what is on the calendars
  dirty,      \* changed since the stored cursor of their calendar
  cursor,     \* the stored cursor of each calendar, and whether it has expired
  row,        \* mappings table: row[c] is the row of blocker c
  cached,     \* events table
  phase,      \* what the engine is doing
  at,         \* the account being synchronised
  batch,      \* result of Changes not processed yet
  vanished,   \* left of the set difference of FullResync
  later,      \* changed since that Changes call
  ok,         \* no error so far in this pass
  job,        \* the event being distributed or taken down
  todo,       \* accounts left in the current phase
  todoE,      \* events left in the current phase
  healthy,    \* accounts whose FullResync succeeded
  edits, faults,
  calm        \* Reconciles in a row without a failure; -1 right after one

calendars == <<events, dirty>>
pass      == <<at, batch, vanished, later, ok>>
loops     == <<todo, todoE, healthy>>
bounds    == <<edits, faults, calm>>
vars == <<calendars, cursor, row, cached, phase, pass, job, loops, bounds>>

Notice == [e : Event, there : BOOLEAN]
NoJob  == [how |-> "none"]
Job    == [how : {"upsert", "delete", "clear"}, o : Event, left : SUBSET Account,
           failed : BOOLEAN]
Phases == {"idle", "sync", "relist", "rebuild", "full", "resync", "clean", "pending",
           "adopt", "restore"}

TypeOK ==
  /\ events \subseteq Event /\ dirty \subseteq Event
  /\ cursor \in [Account -> {"none", "valid", "expired"}]
  /\ row \in [Event -> {"none", "pending", "active"}]
  /\ cached \subseteq Event
  /\ phase \in Phases
  /\ at \in Account
  /\ batch \subseteq Notice
  /\ vanished \subseteq Event /\ later \subseteq Event
  /\ ok \in BOOLEAN
  /\ job \in {NoJob} \cup Job
  /\ todo \subseteq Account /\ todoE \subseteq Event
  /\ healthy \subseteq Account
  /\ edits \in 0..MaxEdits /\ faults \in 0..MaxFaults
  /\ calm \in -1..2

Init ==
  /\ events \in SUBSET {<<a>> : a \in Account}
  /\ dirty = {} /\ cursor = [a \in Account |-> "none"]
  /\ row = [e \in Event |-> "none"]
  /\ cached = {}
  /\ phase = "idle" /\ at \in Account
  /\ batch = {} /\ vanished = {} /\ later = {} /\ ok = TRUE
  /\ job = NoJob
  /\ todo = {} /\ todoE = {} /\ healthy = {}
  /\ edits = 0 /\ faults = 0 /\ calm = 0

-----------------------------------------------------------------------------
On(a)        == {e \in events : Home(e) = a}
IsBlocker(e) == row[e] = "active"
Tagged(e)    == IsCopy(e) /\ Home(e) \notin GraphAccount
RowsOf(o)    == {t \in TargetsOf(o) : row[Append(o, t)] /= "none"}
InPass       == phase \in {"sync", "relist", "resync"}

Created(c) == events' = events \cup {c} /\ dirty' = dirty \cup {c}
Deleted(c) == events' = events \ {c} /\ dirty' = dirty \cup {c}

-----------------------------------------------------------------------------
(***************************************************************************)
(* Users edit any calendar at any time.  A change reaches the next delta,  *)
(* and the one after it when a pass already has its result.                *)
(***************************************************************************)
Edited(e) ==
  /\ edits < MaxEdits /\ edits' = edits + 1
  /\ later' = IF InPass /\ Home(e) = at THEN later \cup {e} ELSE later
  /\ UNCHANGED <<cursor, row, cached, phase, at, batch, vanished, ok, job, loops, faults,
                 calm>>

UserCreates(a) == <<a>> \notin events /\ Created(<<a>>) /\ Edited(<<a>>)
UserDeletes(e) == Deleted(e) /\ Edited(e)

-----------------------------------------------------------------------------
(***************************************************************************)
(* A pass over one calendar: SyncCalendar or FullResync.                   *)
(***************************************************************************)
SyncCalendar(a) ==
  /\ phase = "idle" /\ cursor[a] /= "expired"
  /\ phase' = "sync" /\ at' = a /\ later' = {} /\ ok' = TRUE
  /\ batch' = IF cursor[a] = "valid"
              THEN {[e |-> e, there |-> e \in events] : e \in {d \in dirty : Home(d) = a}}
              ELSE {[e |-> e, there |-> TRUE] : e \in On(a)}
  /\ UNCHANGED <<calendars, cursor, row, cached, vanished, job, loops, bounds>>

AnyEvent(a) == On(a)                                    \* faulty variant: blockers count as alive

\* What FullResync takes for a living event: no blocker that it recognises.
alive(a) == {e \in On(a) : ~Tagged(e) /\ ~IsBlocker(e)}

\* In a Reconcile, or instead of the changes since a cursor that has expired.
FullResync(a) ==
  /\ \/ phase = "full" /\ a \in todo /\ phase' = "resync" /\ todo' = todo \ {a}
     \/ phase = "idle" /\ cursor[a] = "expired" /\ phase' = "relist" /\ UNCHANGED todo
  /\ at' = a /\ later' = {} /\ ok' = TRUE
  /\ vanished' = {e \in cached : Home(e) = a} \ alive(a)
  /\ batch' = {[e |-> e, there |-> TRUE] : e \in On(a)}
  /\ UNCHANGED <<calendars, cursor, row, cached, job, todoE, healthy, bounds>>

Distribute(o) == [how |-> "upsert", o |-> o, left |-> TargetsOf(o), failed |-> FALSE]
TakeDown(how, o) == [how |-> how, o |-> o, left |-> RowsOf(o), failed |-> FALSE]

DropVanished(e) ==
  /\ InPass /\ job = NoJob /\ e \in vanished
  /\ vanished' = vanished \ {e}
  /\ job' = TakeDown("delete", e)
  /\ UNCHANGED <<calendars, cursor, row, cached, phase, at, batch, later, ok, loops, bounds>>

MappingsOnly(e) == IsBlocker(e)                         \* faulty variant: the tag is not read
TagsOnly(e)     == Tagged(e)                            \* faulty variant: nor the mappings

\* Rule 2: the mappings, or on Google the tag, tell that an event is a blocker.
Recognised(e) == IsBlocker(e) \/ Tagged(e)

\* Rule 1: a deletion notice carries nothing but the id, so only the mappings
\* can tell a blocker from an origin.  What rule 2 does not stop is an event.
processEvent(n) ==
  /\ InPass /\ job = NoJob /\ vanished = {} /\ n \in batch
  /\ batch' = batch \ {n}
  /\ \/ /\ IF n.there THEN Recognised(n.e) ELSE IsBlocker(n.e) \/ RowsOf(n.e) = {}
        /\ UNCHANGED <<cached, job>>
     \/ /\ ~n.there /\ ~IsBlocker(n.e) /\ RowsOf(n.e) /= {}
        /\ job' = TakeDown("delete", n.e) /\ UNCHANGED cached
     \/ /\ n.there /\ ~Recognised(n.e) /\ Len(n.e) < MaxLen
        /\ cached' = cached \cup {n.e}
        /\ job' = Distribute(n.e)
  /\ UNCHANGED <<calendars, cursor, row, phase, at, vanished, later, ok, loops, bounds>>

Step(how, t) == /\ job.how \in how /\ t \in job.left
                /\ job' = [job EXCEPT !.left = @ \ {t}]

\* A blocker is found by its idempotency key or made, and recorded.
Record(c) == Created(c) /\ row' = [row EXCEPT ![c] = "active"]

\* An active row with an equal hash needs no call; with another hash the
\* blocker is patched, or made again when it is gone.
upsertBlockerOnTarget(t) ==
  /\ Step({"upsert"}, t)
  /\ LET c == Append(job.o, t) IN
     \/ row[c] = "active" /\ UNCHANGED <<row, calendars>>
     \/ row[c] = "active" /\ c \in events /\ Created(c) /\ UNCHANGED row
     \/ (row[c] /= "active" \/ c \notin events) /\ Record(c)
  /\ UNCHANGED <<cursor, cached, phase, pass, loops, bounds>>

deleteBlockersForOrigin(t) ==
  /\ Step({"delete", "clear"}, t)
  /\ LET c == Append(job.o, t) IN
     /\ row' = [row EXCEPT ![c] = "none"]
     /\ IF row[c] = "active" THEN Deleted(c) ELSE UNCHANGED calendars
  /\ UNCHANGED <<cursor, cached, phase, pass, loops, bounds>>

FinishEvent ==
  /\ job /= NoJob /\ job.left = {}
  /\ job' = NoJob
  /\ cached' = IF job.how = "delete" /\ ~job.failed THEN cached \ {job.o} ELSE cached
  /\ UNCHANGED <<calendars, cursor, row, phase, pass, loops, bounds>>

EndPass == /\ phase' = IF phase = "resync" THEN "full" ELSE "idle"
           /\ batch' = {} /\ vanished' = {} /\ later' = {} /\ ok' = TRUE
           /\ UNCHANGED at

\* The pass is complete: only now the cursor of its Changes call is stored.
SetCursor ==
  /\ InPass /\ job = NoJob /\ batch = {} /\ vanished = {}
  /\ cursor' = [cursor EXCEPT ![at] = "valid"]
  /\ dirty' = {d \in dirty : Home(d) /= at} \cup later
  /\ healthy' = IF phase = "resync" /\ ok THEN healthy \cup {at} ELSE healthy
  /\ EndPass
  /\ UNCHANGED <<events, row, cached, job, todo, todoE, bounds>>

-----------------------------------------------------------------------------
(***************************************************************************)
(* Reconcile: six phases over all accounts.                                *)
(***************************************************************************)
StaleOrigins == {o \in Event : /\ Len(o) < MaxLen /\ o \notin cached /\ Home(o) \in healthy
                               /\ \E t \in TargetsOf(o) : row[Append(o, t)] = "active"}

PerAccount == {"rebuild", "full", "adopt", "restore"}

Enter(ph) ==
  /\ phase' = ph
  /\ todo' = IF ph \in PerAccount THEN Account ELSE {}
  /\ todoE' = CASE ph = "clean" -> StaleOrigins
                [] ph = "pending" -> {c \in Event : row[c] = "pending"}
                [] OTHER -> {}
  /\ UNCHANGED pass

Reconcile ==
  /\ phase = "idle"
  /\ Enter("rebuild")
  /\ healthy' = {}
  /\ calm' = IF calm = -1 THEN 0 ELSE calm
  /\ UNCHANGED <<calendars, cursor, row, cached, job, edits, faults>>

NoReturn == [rebuild |-> "full", full |-> "clean", clean |-> "pending",
             pending |-> "adopt", adopt |-> "restore",
             restore |-> "done"]                         \* faulty variant: Run never resumes

NextPhase == [rebuild |-> "full", full |-> "clean", clean |-> "pending",
              pending |-> "adopt", adopt |-> "restore", restore |-> "idle"]

PhaseDone ==
  /\ phase \in DOMAIN NextPhase /\ job = NoJob /\ todo = {} /\ todoE = {}
  /\ Enter(NextPhase[phase])
  /\ calm' = IF phase = "restore" /\ calm \in 0..1 THEN calm + 1 ELSE calm
  /\ UNCHANGED <<calendars, cursor, row, cached, job, healthy, edits, faults>>

Blockers(a) == {c \in On(a) : IsCopy(c)}

\* Phase 0 takes every tagged blocker without a row for a blocker before anything
\* is distributed.
rebuildMappingsFromTags(a) ==
  /\ phase = "rebuild" /\ a \in todo
  /\ todo' = todo \ {a}
  /\ row' = [c \in Event |-> IF c \in Blockers(a) /\ row[c] = "none"
                             THEN "active" ELSE row[c]]
  /\ UNCHANGED <<calendars, cursor, cached, phase, pass, job, todoE, healthy, bounds>>

cleanStaleMappings(o) ==
  /\ phase = "clean" /\ job = NoJob /\ o \in todoE
  /\ todoE' = todoE \ {o}
  /\ job' = TakeDown("clear", o)
  /\ UNCHANGED <<calendars, cursor, row, cached, phase, pass, todo, healthy, bounds>>

resolvePending(c) ==
  /\ phase = "pending" /\ c \in todoE
  /\ todoE' = todoE \ {c}
  /\ IF Source(c) \in cached
     THEN Record(c)
     ELSE row' = [row EXCEPT ![c] = "none"] /\ UNCHANGED calendars
  /\ UNCHANGED <<cursor, cached, phase, pass, job, todo, healthy, bounds>>

\* adoptOrphans and restoreMissingBlockers first list an account.
ListAccount(a) ==
  /\ phase \in {"adopt", "restore"} /\ a \in todo /\ todoE = {}
  /\ todo' = todo \ {a}
  /\ todoE' = IF phase = "adopt"
              THEN Blockers(a)
              ELSE {c \in Event \ events : Home(c) = a /\ row[c] = "active"}
  /\ UNCHANGED <<calendars, cursor, row, cached, phase, pass, job, healthy, bounds>>

adoptOrphan(c) ==
  /\ phase = "adopt" /\ c \in todoE
  /\ todoE' = todoE \ {c}
  /\ \/ IsBlocker(c) /\ UNCHANGED <<row, calendars>>
     \/ /\ row[c] = "none" /\ Source(c) \in cached
        /\ row' = [row EXCEPT ![c] = "active"] /\ UNCHANGED calendars
     \/ /\ row[c] = "pending" \/ (row[c] = "none" /\ Source(c) \notin cached)
        /\ Deleted(c) /\ UNCHANGED row
  /\ UNCHANGED <<cursor, cached, phase, pass, job, todo, healthy, bounds>>

restoreMissingBlockers(c) ==
  /\ phase = "restore" /\ c \in todoE
  /\ todoE' = todoE \ {c}
  /\ IF Source(c) \in cached THEN Record(c) ELSE UNCHANGED <<row, calendars>>
  /\ UNCHANGED <<cursor, cached, phase, pass, job, todo, healthy, bounds>>

-----------------------------------------------------------------------------
(***************************************************************************)
(* Failures.                                                               *)
(***************************************************************************)
Fault == faults < MaxFaults /\ faults' = faults + 1 /\ calm' = -1 /\ UNCHANGED edits

\* The blocker a step would make next.
Making(c) ==
  \/ /\ job.how = "upsert" /\ \E t \in job.left : c = Append(job.o, t)
     /\ row[c] /= "active" \/ c \notin events
  \/ phase \in {"pending", "restore"} /\ c \in todoE /\ Source(c) \in cached

\* The intent is stored; the request to make the blocker may have got through.
HalfMade(c) == /\ row' = [row EXCEPT ![c] = "pending"]
               /\ Created(c) \/ UNCHANGED calendars

\* A blocker is deleted, its row is still there.
HalfTaken == /\ job.how \in {"delete", "clear"}
             /\ \E t \in job.left : LET c == Append(job.o, t) IN
                  row[c] = "active" /\ (Deleted(c) \/ UNCHANGED calendars)
             /\ UNCHANGED row

\* A call fails, or succeeds and its response is lost: the pass ends, or the
\* phase goes on with its next row.
CallFails ==
  /\ Fault
  /\ \/ HalfTaken /\ UNCHANGED todoE
     \/ \E c \in Event : /\ Making(c) /\ HalfMade(c)
                         /\ todoE' = todoE \ {c}
  /\ job' = NoJob
  /\ IF InPass THEN EndPass ELSE UNCHANGED <<phase, pass>>
  /\ UNCHANGED <<cursor, cached, todo, healthy>>

\* The authorisation of a target has expired: that target is skipped.
TargetAuthFails(t) ==
  /\ Fault
  /\ job /= NoJob /\ t \in job.left
  /\ LET c == Append(job.o, t) IN
     /\ job.how /= "upsert" => row[c] = "active"
     /\ row' = IF Making(c) THEN [row EXCEPT ![c] = "pending"] ELSE row
  /\ job' = [job EXCEPT !.left = @ \ {t}, !.failed = TRUE]
  /\ ok' = FALSE
  /\ UNCHANGED <<calendars, cursor, cached, phase, at, batch, vanished, later, loops>>

\* Changes or ListBlockers fails for an account.
ListingFails(a) ==
  /\ Fault
  /\ phase \in PerAccount /\ a \in todo /\ todoE = {}
  /\ todo' = todo \ {a}
  /\ UNCHANGED <<calendars, cursor, row, cached, phase, pass, job, todoE, healthy>>

\* The process dies at any point and restarts: what is not in the store is gone.
Crash ==
  /\ Fault
  /\ phase /= "idle"
  /\ \/ HalfTaken
     \/ \E c \in Event : Making(c) /\ HalfMade(c)
     \/ UNCHANGED <<row, calendars>>
  /\ phase' = "idle" /\ batch' = {} /\ vanished' = {} /\ later' = {} /\ ok' = TRUE
  /\ job' = NoJob /\ todo' = {} /\ todoE' = {} /\ healthy' = {}
  /\ UNCHANGED <<cursor, cached, at>>

\* The cursor of a calendar expires; the next pass over it is a FullResync.
CursorExpires(a) ==
  /\ Fault
  /\ cursor[a] = "valid" /\ cursor' = [cursor EXCEPT ![a] = "expired"]
  /\ UNCHANGED <<calendars, row, cached, phase, pass, job, loops>>

\* The SQLite file is lost while calsync is down.
DatabaseLost ==
  /\ Fault
  /\ phase = "idle"
  /\ row' = [e \in Event |-> "none"]
  /\ cached' = {} /\ cursor' = [a \in Account |-> "none"] /\ dirty' = {}
  /\ UNCHANGED <<events, phase, pass, job, loops>>

-----------------------------------------------------------------------------
Environment == \/ \E a \in Account : UserCreates(a)
               \/ \E e \in events : UserDeletes(e)

Failure == \/ CallFails \/ Crash \/ DatabaseLost
           \/ \E a \in Account : TargetAuthFails(a) \/ ListingFails(a) \/ CursorExpires(a)

Continue ==
  \/ FinishEvent \/ SetCursor \/ PhaseDone
  \/ \E n \in batch : processEvent(n)
  \/ \E e \in vanished : DropVanished(e)
  \/ \E a \in Account : \/ FullResync(a) \/ upsertBlockerOnTarget(a)
                         \/ deleteBlockersForOrigin(a) \/ ListAccount(a)
                         \/ rebuildMappingsFromTags(a)
  \/ \E c \in todoE : \/ cleanStaleMappings(c) \/ resolvePending(c) \/ adoptOrphan(c)
                      \/ restoreMissingBlockers(c)

Next == Reconcile \/ Continue \/ Environment \/ Failure
        \/ \E a \in Account : SyncCalendar(a)

Spec == Init /\ [][Next]_vars

-----------------------------------------------------------------------------
\* A blocker can be mirrored once: on a Graph calendar, when its row does not yet,
\* or no longer, hold its id (reconcile.go:45).  README.md:15 promises that this
\* never becomes a loop.
\*
\* Why it does not: what is not recognised is at least one failure younger than what is.  An
\* event that is, was or will be distributed has at most 1 + faults places, so
\* its blockers have at most 2 + faults.  A pass changes no row of the calendar
\* it reads, so what its notices say of a blocker stays true to the end.
Younger(S, n) == \A e \in S : Len(e) <= n + faults

OfThePass ==
  /\ InPass => /\ job /= NoJob => Home(job.o) = at
               /\ \A n \in batch : Home(n.e) = at
               /\ \A e \in vanished \cup later : Home(e) = at
  /\ ~InPass => batch = {} /\ vanished = {} /\ later = {}

Ages ==
  /\ Younger(events \cup dirty \cup later \cup todoE, 2)
  /\ Younger({c \in Event : row[c] /= "none"}, 2)
  /\ Younger({e \in events : ~IsBlocker(e)}, 1)
  /\ Younger(cached \cup vanished, 1)

NoticeAges ==
  \A n \in batch : Len(n.e) <= (IF n.there /\ ~IsBlocker(n.e) THEN 1 ELSE 2) + faults

JobAge ==
  job /= NoJob => /\ Len(job.o) <= (IF job.how = "upsert" THEN 1 ELSE 2) + faults
                  /\ job.left \subseteq TargetsOf(job.o)
                  /\ IF job.how = "clear" THEN phase = "clean" ELSE InPass

\* resolvePending finds only intents in its list.
OnlyIntents == phase = "pending" => \A c \in todoE : ~IsBlocker(c)

Generations == Ages /\ NoticeAges /\ JobAge /\ OnlyIntents /\ OfThePass

\* A blocker that is distributed itself lives on a Graph calendar.
Untagged == \A e \in cached : IsCopy(e) => Home(e) \in GraphAccount
OriginsUntagged ==
  /\ Untagged
  /\ job.how = "upsert" /\ IsCopy(job.o) => Home(job.o) \in GraphAccount

\* There is no loop all the same: every further generation of echoes costs
\* another failure, so copies never multiply on their own (rule 2).
EchoesCostFailures == \A e \in events : Len(e) <= 2 + faults

\* On Google the tag is read with the event, and no blocker there is ever taken
\* for an event, whatever the mappings say.
TaggedIsNoOrigin == \A e \in events : Len(e) > 2 => Home(Source(e)) \in GraphAccount

\* Echoes do not stay: two Reconciles in a row without a failure take down every
\* one of them, and leave no blocker without its row.
ReconcileRemovesEchoes ==
  calm = 2 => \A e \in events : Len(e) <= 2 /\ (IsCopy(e) => IsBlocker(e))

=============================================================================
