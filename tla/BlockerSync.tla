----------------------------- MODULE BlockerSync -----------------------------
(***************************************************************************)
(* One monitored calendar of calsync and the blockers it puts on the       *)
(* calendars of the other accounts (internal/engine).  The engine is one   *)
(* thread that is cut into the steps another actor can observe: between    *)
(* any two of its provider calls and database writes the user may edit a   *)
(* calendar, the window may slide, the call may fail with or without its   *)
(* effect, and the process may die and restart from the SQLite store.      *)
(*                                                                         *)
(* An event is abstracted to the slot of time it occupies.  A slot s is    *)
(* the interval [s-1, s]; the time and detail hashes of the code tell two  *)
(* slots apart and nothing else.                                           *)
(***************************************************************************)
EXTENDS Integers, FiniteSets

CONSTANTS
  Origin,         \* events of the monitored calendar
  Target,         \* accounts that receive blockers (Config.TargetsOf)
  GraphTarget,    \* those on Microsoft Graph; the others are on Google
  OriginOnGraph,  \* is the monitored calendar on Microsoft Graph?
  LastSlot,       \* events occupy the slots 1..LastSlot
  Horizon,        \* length of the sync window, in slots
  Dedupe,         \* dedupe_same_meeting of the configuration
  MaxNow,         \* bound: how far the window slides
  MaxEdits,       \* bound: edits by users, all calendars together
  MaxFaults       \* bound: crashes, failed calls, lost responses, lost state

ASSUME ConstantsAssumption ==
  /\ GraphTarget \subseteq Target
  /\ OriginOnGraph \in BOOLEAN /\ Dedupe \in BOOLEAN
  /\ LastSlot \in Nat \ {0} /\ Horizon \in Nat \ {0}
  /\ MaxNow \in Nat /\ MaxEdits \in Nat /\ MaxFaults \in Nat

Slot == 1..LastSlot
Pair == Origin \X Target

Gone     == 0     \* an origin event that does not exist; a deletion notice
Free     == -1    \* an event that exists but must not block (free, declined)
NoChange == -2    \* nothing (left) to process for this event
NoSlot   == 0     \* no row in the events cache; no twin
Unknown  == -1    \* a saved hash with the sentinel: equal to no real hash
NoId     == -1    \* the NULL blocker_event_id
KeyId    == 0     \* the client-chosen event id of Google (the idempotency key)

-----------------------------------------------------------------------------
VARIABLES
  \* the calendars
  truth,        \* [Origin -> Slot, Gone or Free]: the monitored calendar
  blockers,     \* tagged events on the target calendars
  nextId,       \* the next event id Graph hands out
  now,          \* start of the sync window
  dirty,        \* origins changed since the stored cursor was issued
  \* the SQLite store
  cursor,       \* "none", "valid" or "expired"
  deltaFrom,    \* window start the stored cursor was established with
  cache,        \* events table, this calendar
  row,          \* mappings table, rows with an origin in this calendar
  twin,         \* events tables of the targets: slot of the same meeting there
  \* the memory of the process
  phase,        \* what the engine is doing
  reconciling,  \* is the current FullResync part of a Reconcile?
  healthy,      \* no error so far in the current FullResync
  batch,        \* result of Changes not processed yet
  later,        \* origins changed since that Changes call
  since,        \* window start the call in progress was given
  todoO, todoP, todoB, todoT,  \* what is left of the current loop
  job,          \* the origin being distributed or taken down
  op,           \* the provider call in progress and the write after it
  \* bookkeeping of the model
  edits, faults,
  torn,         \* pairs whose UpdateBlocker took effect without its PutMapping
  calm          \* "settled" after a Reconcile that nothing disturbed

world  == <<truth, nextId, now, edits>>
store  == <<cursor, deltaFrom, dirty>>
result == <<reconciling, healthy, batch, later>>
memory == <<result, since>>
todo   == <<todoO, todoP, todoB, todoT>>
vars   == <<world, blockers, store, cache, row, twin, phase, memory, todo,
            job, op, faults, torn, calm>>

Blocker == [pair : Pair, id : Nat, slot : Slot]
Row     == [st : {"none", "pending", "active", "suppressed"},
            id : Nat \cup {NoId}, hash : Slot \cup {NoSlot, Unknown}]
NoRow   == [st |-> "none", id |-> NoId, hash |-> NoSlot]

Pending(s)    == [st |-> "pending", id |-> NoId, hash |-> s]
Suppressed(s) == [st |-> "suppressed", id |-> NoId, hash |-> s]
Active(i, s)  == [st |-> "active", id |-> i, hash |-> s]

NoJob == [how |-> "none"]
Job   == [how : {"upsert"}, o : Origin, slot : Slot, left : SUBSET Target,
          failed : BOOLEAN]
         \cup [how : {"delete", "clear"}, o : Origin, slot : {NoSlot},
               left : SUBSET Target, failed : BOOLEAN]
NoOp  == [do |-> "none"]
Op    == [do : {"create", "created", "update", "updated"}, p : Pair, slot : Slot,
          id : Nat \cup {NoId}]
         \cup [do : {"delete", "deleted"}, p : Pair, slot : {NoSlot},
               id : Nat \cup {NoId}]

Phases == {"idle", "rebuild", "diff", "events", "clean", "pending", "adopt",
           "restore", "suppressed", "promote"}

TypeOK ==
  /\ truth \in [Origin -> Slot \cup {Gone, Free}]
  /\ blockers \subseteq Blocker
  /\ nextId \in Nat \ {KeyId}
  /\ now \in Nat
  /\ dirty \subseteq Origin
  /\ cursor \in {"none", "valid", "expired"}
  /\ deltaFrom \in Nat
  /\ cache \in [Origin -> Slot \cup {NoSlot}]
  /\ row \in [Pair -> Row]
  /\ twin \in [Pair -> Slot \cup {NoSlot}]
  /\ phase \in Phases
  /\ reconciling \in BOOLEAN /\ healthy \in BOOLEAN
  /\ batch \in [Origin -> Slot \cup {Gone, Free, NoChange}]
  /\ later \subseteq Origin
  /\ since \in Nat
  /\ todoO \subseteq Origin /\ todoP \subseteq Pair
  /\ todoB \subseteq Blocker /\ todoT \subseteq Target
  /\ job \in {NoJob} \cup Job
  /\ op \in {NoOp} \cup Op
  /\ edits \in 0..MaxEdits /\ faults \in 0..MaxFaults
  /\ torn \subseteq Pair
  /\ calm \in {"no", "running", "settled"}

Init ==
  /\ truth \in [Origin -> Slot \cup {Gone}]
  /\ blockers = {} /\ nextId = 1 /\ now = 0
  /\ dirty = {} /\ cursor = "none" /\ deltaFrom = 0
  /\ cache = [o \in Origin |-> NoSlot]
  /\ row = [p \in Pair |-> NoRow]
  /\ twin = [p \in Pair |-> NoSlot]
  /\ phase = "idle" /\ reconciling = FALSE /\ healthy = TRUE
  /\ batch = [o \in Origin |-> NoChange] /\ later = {} /\ since = 0
  /\ todoO = {} /\ todoP = {} /\ todoB = {} /\ todoT = {}
  /\ job = NoJob /\ op = NoOp
  /\ edits = 0 /\ faults = 0 /\ torn = {} /\ calm = "no"

-----------------------------------------------------------------------------
(***************************************************************************)
(* Helpers: the window, the provider calls, the loops of the engine.       *)
(***************************************************************************)
InWindowOf(from, s) == from < s /\ s <= from + Horizon
InWindow(s)         == InWindowOf(now, s)
EndsBeforeWindow(s) == s <= now

Ready     == job = NoJob /\ op = NoOp
RowsOf(o) == {t \in Target : row[<<o, t>>].st /= "none"}
Live(p)   == {b \in blockers : b.pair = p}

isDuplicateOnTarget(p, s) == Dedupe /\ twin[p] = s

\* Changes with an empty cursor lists the window; with a cursor it returns what
\* changed since, and Graph reports what left the window of the delta link as
\* removed.
Listing == [o \in Origin |->
              IF truth[o] = Free \/ (truth[o] \in Slot /\ InWindow(truth[o]))
              THEN truth[o] ELSE NoChange]
Delta == [o \in Origin |->
            CASE o \notin dirty -> NoChange
              [] o \in dirty /\ OriginOnGraph /\ truth[o] \in Slot
                   /\ ~InWindowOf(deltaFrom, truth[o]) -> Gone
              [] OTHER -> truth[o]]

\* A live blocker with the idempotency key is found by the 409, aligned with
\* the contents to create and returned; otherwise it is inserted (Google also
\* resurrects a cancelled event under the same id).
Insert(p, s, i) ==
  /\ blockers' = blockers \cup {[pair |-> p, id |-> i, slot |-> s]}
  /\ IF p[2] \in GraphTarget
     THEN i = nextId /\ nextId' = nextId + 1
     ELSE i = KeyId /\ UNCHANGED nextId

Align(p, s, i) ==
  /\ \E b \in Live(p) : /\ b.id = i
                        /\ blockers' = (blockers \ {b}) \cup {[b EXCEPT !.slot = s]}
  /\ UNCHANGED nextId

CreateNoKey(p, s, i) == Insert(p, s, i)                 \* faulty variant: a fresh key each time

CreateNoAlign(p, s, i) ==                               \* faulty variant: the 409 is not aligned
  \/ Live(p) = {} /\ Insert(p, s, i)
  \/ (\E b \in Live(p) : b.id = i) /\ UNCHANGED <<blockers, nextId>>

CreateEffect(p, s, i) == Align(p, s, i) \/ (Live(p) = {} /\ Insert(p, s, i))

Exists(p, i) == \E b \in Live(p) : b.id = i

DeleteEffect(p, i) ==
  /\ blockers' = {b \in blockers : ~(b.pair = p /\ b.id = i)}
  /\ UNCHANGED nextId

\* What ListBlockers returns for an account: Google bounds the listing by the
\* window on both sides, Graph only from below.
ListBlockers(t) ==
  {b \in blockers : /\ b.pair[2] = t
                    /\ since < b.slot
                    /\ t \notin GraphTarget => InWindowOf(since, b.slot)}

IsBlocker(b) == row[b.pair].id = b.id

PutMapping(p, m) == /\ row' = [row EXCEPT ![p] = m]
                    /\ torn' = torn \ {p}

Call(do, p, s, i) == op' = [do |-> do, p |-> p, slot |-> s, id |-> i]

createFromRow(p, s) ==                                  \* faulty variant: the time the row had
  PutMapping(p, Pending(row[p].hash)) /\ Call("create", p, row[p].hash, NoId)

\* createFromMapping up to its CreateBlocker call: the intent is stored first.
createFromMapping(p, s) == PutMapping(p, Pending(s)) /\ Call("create", p, s, NoId)

Drop(how, o) == [how |-> how, o |-> o, slot |-> NoSlot, left |-> RowsOf(o),
                 failed |-> FALSE]

RowsWith(st) == {p \in Pair : row[p].st = st}

StaleRows == RowsWith("active")                         \* faulty variant: rows, not origins

StaleOrigins == {o \in Origin : /\ cache[o] = NoSlot
                                /\ \E t \in Target : row[<<o, t>>].st = "active"}

ListingPhases == {"rebuild", "adopt", "restore"}

\* The loop each phase of Reconcile starts with.
Enter(ph, ok) ==
  /\ phase' = ph
  /\ todoO' = IF ph = "clean" /\ ok THEN StaleOrigins ELSE {}
  /\ todoP' = IF ph \in {"pending", "suppressed"} THEN RowsWith(ph) ELSE {}
  /\ todoT' = IF ph \in ListingPhases THEN Target ELSE {}
  /\ since' = IF ph \in ListingPhases THEN now ELSE 0
  /\ todoB' = {}

LoopDone == Ready /\ todoO = {} /\ todoP = {} /\ todoB = {} /\ todoT = {}
NoBatch  == [o \in Origin |-> NoChange]

\* SyncCalendar or FullResync returns; inside Reconcile the next phase follows.
EndResync(ok) ==
  /\ IF reconciling THEN Enter("clean", ok) ELSE Enter("idle", ok)
  /\ reconciling' = FALSE /\ healthy' = TRUE
  /\ batch' = NoBatch /\ later' = {}

-----------------------------------------------------------------------------
(***************************************************************************)
(* The users, the clock and the providers.                                 *)
(***************************************************************************)
UserEdits(o) ==
  /\ edits < MaxEdits
  /\ \E v \in (Slot \cup {Gone, Free}) \ {truth[o]} : truth' = [truth EXCEPT ![o] = v]
  /\ dirty' = dirty \cup {o}
  /\ later' = IF phase \in {"diff", "events"} THEN later \cup {o} ELSE later
  /\ edits' = edits + 1 /\ calm' = "no"
  /\ UNCHANGED <<blockers, nextId, now, cursor, deltaFrom, cache, row, twin, phase,
                 reconciling, healthy, batch, since, todo, job, op, faults, torn>>

UserRemovesBlocker(b) ==
  /\ edits < MaxEdits
  /\ blockers' = blockers \ {b}
  /\ edits' = edits + 1 /\ calm' = "no"
  /\ UNCHANGED <<truth, nextId, now, store, cache, row, twin, phase, memory, todo, job,
                 op, faults, torn>>

\* The target's own SyncCalendar caches the same meeting.
TwinAppears(p, s) ==
  /\ phase = "idle" /\ edits < MaxEdits
  /\ twin[p] = NoSlot
  /\ twin' = [twin EXCEPT ![p] = s]
  /\ edits' = edits + 1 /\ calm' = "no"
  /\ UNCHANGED <<truth, blockers, nextId, now, store, cache, row, phase, memory, todo, job,
                 op, faults, torn>>

\* The target's own SyncCalendar sees it deleted and goes on to promoteSuppressed.
TwinVanishes(p) ==
  /\ phase = "idle" /\ edits < MaxEdits
  /\ twin[p] /= NoSlot
  /\ twin' = [twin EXCEPT ![p] = NoSlot]
  /\ phase' = "promote" /\ todoP' = {p}
  /\ edits' = edits + 1 /\ calm' = "no"
  /\ UNCHANGED <<truth, blockers, nextId, now, store, cache, row, memory, todoO, todoB,
                 todoT, job, op, faults, torn>>

WindowSlides ==
  /\ now < MaxNow
  /\ now' = now + 1 /\ calm' = "no"
  /\ UNCHANGED <<truth, nextId, edits, blockers, store, cache, row, twin, phase, memory,
                 todo, job, op, faults, torn>>

CursorExpires ==
  /\ faults < MaxFaults
  /\ cursor = "valid" /\ cursor' = "expired"
  /\ faults' = faults + 1
  /\ UNCHANGED <<world, blockers, deltaFrom, dirty, cache, row, twin, phase, memory, todo,
                 job, op, torn, calm>>

-----------------------------------------------------------------------------
(***************************************************************************)
(* SyncCalendar, FullResync and processEvent.                              *)
(***************************************************************************)
SyncCalendar ==
  /\ phase = "idle" /\ cursor /= "expired"
  /\ phase' = "events"
  /\ batch' = IF cursor = "none" THEN Listing ELSE Delta
  /\ since' = IF cursor = "none" THEN now ELSE deltaFrom
  /\ later' = {}
  /\ UNCHANGED <<world, blockers, store, cache, row, twin, reconciling, healthy, todo,
                 job, op, faults, torn, calm>>

alive == {o \in Origin : truth[o] \in Slot /\ InWindow(truth[o])}

VanishedAnyTime == {o \in Origin \ alive : cache[o] /= NoSlot}   \* faulty variant: no past guard

Vanished == {o \in Origin \ alive : cache[o] /= NoSlot /\ ~EndsBeforeWindow(cache[o])}

\* Entered from SyncCalendar when the provider reports the cursor invalid, and
\* from Reconcile after phase 0.  What is cached but no longer alive is taken
\* down first, unless it ended before the window.
FullResync ==
  /\ \/ phase = "idle" /\ cursor = "expired"
     \/ phase = "rebuild" /\ LoopDone
  /\ reconciling' = (phase = "rebuild")
  /\ phase' = "diff"
  /\ batch' = Listing /\ since' = now /\ later' = {}
  /\ todoO' = Vanished
  /\ UNCHANGED <<world, blockers, store, cache, row, twin, healthy, todoP, todoB, todoT,
                 job, op, faults, torn, calm>>

DropVanished(o) ==
  /\ phase = "diff" /\ Ready /\ o \in todoO
  /\ todoO' = todoO \ {o}
  /\ job' = Drop("delete", o)
  /\ UNCHANGED <<world, blockers, store, cache, row, twin, phase, memory, todoP, todoB,
                 todoT, op, faults, torn, calm>>

DiffDone ==
  /\ phase = "diff" /\ LoopDone
  /\ phase' = "events"
  /\ UNCHANGED <<world, blockers, store, cache, row, twin, memory, todo, job, op, faults,
                 torn, calm>>

processEvent(o) ==
  /\ phase = "events" /\ Ready /\ batch[o] /= NoChange
  /\ batch' = [batch EXCEPT ![o] = NoChange]
  /\ LET v == batch[o] IN
     \/ /\ v = Gone                                        \* rule 1
        /\ job' = IF RowsOf(o) = {} THEN NoJob ELSE Drop("delete", o)
        /\ UNCHANGED cache
     \/ /\ v \in Slot /\ ~InWindow(v)                      \* rule 3
        /\ job' = IF EndsBeforeWindow(v) /\ cache[o] /= NoSlot /\ EndsBeforeWindow(cache[o])
                  THEN NoJob ELSE Drop("clear", o)
        /\ UNCHANGED cache
     \/ /\ v = Free                                        \* rule 4
        /\ job' = Drop("delete", o)
        /\ UNCHANGED cache
     \/ /\ v \in Slot /\ InWindow(v)                       \* rule 5
        /\ cache' = [cache EXCEPT ![o] = v]
        /\ job' = [how |-> "upsert", o |-> o, slot |-> v, left |-> Target, failed |-> FALSE]
  /\ UNCHANGED <<world, blockers, store, row, twin, phase, reconciling, healthy, later,
                 since, todo, op, faults, torn, calm>>

upsertBlockerOnTarget(t) ==
  /\ job.how = "upsert" /\ op = NoOp /\ t \in job.left
  /\ job' = [job EXCEPT !.left = @ \ {t}]
  /\ LET p == <<job.o, t>>
         m == row[p]
         s == job.slot
         new == m.st = "none" \/ (m.st = "pending" /\ m.id = NoId)
     IN \/ /\ new /\ isDuplicateOnTarget(p, s)
           /\ PutMapping(p, Suppressed(s)) /\ UNCHANGED op
        \/ /\ new /\ ~isDuplicateOnTarget(p, s)
           /\ PutMapping(p, Pending(s)) /\ Call("create", p, s, NoId)
        \/ /\ m.st = "suppressed"
           /\ PutMapping(p, [m EXCEPT !.hash = s]) /\ UNCHANGED op
        \/ /\ ~new /\ m.st /= "suppressed" /\ m.hash /= s
           /\ Call("update", p, s, m.id) /\ UNCHANGED <<row, torn>>
        \/ /\ ~new /\ m.st /= "suppressed" /\ m.hash = s
           /\ UNCHANGED <<row, torn, op>>
  /\ UNCHANGED <<world, blockers, store, cache, twin, phase, memory, todo, faults, calm>>

RowOnly(t) ==                                           \* faulty variant: no remote delete
  /\ job.how \in {"delete", "clear"} /\ op = NoOp /\ t \in job.left
  /\ job' = [job EXCEPT !.left = @ \ {t}]
  /\ PutMapping(<<job.o, t>>, NoRow)
  /\ UNCHANGED <<world, blockers, store, cache, twin, phase, memory, todo, op, faults, calm>>

\* One row of deleteBlockersForOrigin: the remote event first, then the row.
deleteBlockersForOrigin(t) ==
  /\ job.how \in {"delete", "clear"} /\ op = NoOp /\ t \in job.left
  /\ job' = [job EXCEPT !.left = @ \ {t}]
  /\ LET p == <<job.o, t>> IN
     IF row[p].id = NoId
     THEN PutMapping(p, NoRow) /\ UNCHANGED op
     ELSE Call("delete", p, NoSlot, row[p].id) /\ UNCHANGED <<row, torn>>
  /\ UNCHANGED <<world, blockers, store, cache, twin, phase, memory, todo, faults, calm>>

\* All targets done: rules 1 and 4 and the set difference forget the event,
\* unless an expired target was skipped.
FinishEvent ==
  /\ job /= NoJob /\ op = NoOp /\ job.left = {}
  /\ job' = NoJob
  /\ cache' = IF job.how = "delete" /\ ~job.failed
              THEN [cache EXCEPT ![job.o] = NoSlot] ELSE cache
  /\ healthy' = IF phase \in {"diff", "events"} THEN healthy /\ ~job.failed ELSE healthy
  /\ UNCHANGED <<world, blockers, store, row, twin, phase, reconciling, batch, later,
                 since, todo, op, faults, torn, calm>>

ForgetLater ==                                          \* faulty variant: changes lost
  /\ phase = "events" /\ LoopDone /\ batch = NoBatch
  /\ cursor' = "valid" /\ dirty' = {} /\ deltaFrom' = since
  /\ EndResync(healthy)
  /\ UNCHANGED <<world, blockers, cache, row, twin, job, op, faults, torn, calm>>

\* The whole batch is processed: only now is the new cursor stored.
SetCursor ==
  /\ phase = "events" /\ LoopDone /\ batch = NoBatch
  /\ cursor' = "valid" /\ dirty' = later /\ deltaFrom' = since
  /\ EndResync(healthy)
  /\ UNCHANGED <<world, blockers, cache, row, twin, job, op, faults, torn, calm>>

-----------------------------------------------------------------------------
(***************************************************************************)
(* The provider calls and the write that follows each of them.             *)
(***************************************************************************)
CreateBlocker ==
  /\ op.do = "create"
  /\ \E i \in 0..nextId : /\ CreateEffect(op.p, op.slot, i)
                          /\ Call("created", op.p, op.slot, i)
  /\ UNCHANGED <<truth, now, edits, store, cache, row, twin, phase, memory, todo, job,
                 faults, torn, calm>>

PutActive ==
  /\ op.do = "created"
  /\ PutMapping(op.p, Active(op.id, op.slot))
  /\ op' = NoOp
  /\ UNCHANGED <<world, blockers, store, cache, twin, phase, memory, todo, job, faults,
                 calm>>

\* A blocker that is gone is created again; a patch of an event that Google
\* still keeps as cancelled may also succeed without bringing it back.
UpdateBlocker ==
  /\ op.do = "update"
  /\ \/ /\ Align(op.p, op.slot, op.id)
        /\ Call("updated", op.p, op.slot, op.id)
        /\ UNCHANGED <<row, torn>>
     \/ /\ ~Exists(op.p, op.id)
        /\ createFromMapping(op.p, op.slot)
        /\ UNCHANGED <<blockers, nextId>>
     \/ /\ ~Exists(op.p, op.id) /\ op.p[2] \notin GraphTarget
        /\ Call("updated", op.p, op.slot, op.id)
        /\ UNCHANGED <<row, torn, blockers, nextId>>
  /\ UNCHANGED <<truth, now, edits, store, cache, twin, phase, memory, todo, job, faults,
                 calm>>

PutTimeHash ==
  /\ op.do = "updated"
  /\ PutMapping(op.p, [row[op.p] EXCEPT !.hash = op.slot])
  /\ op' = NoOp
  /\ UNCHANGED <<world, blockers, store, cache, twin, phase, memory, todo, job, faults,
                 calm>>

DeleteBlocker ==
  /\ op.do = "delete"
  /\ DeleteEffect(op.p, op.id)
  /\ Call("deleted", op.p, NoSlot, op.id)
  /\ UNCHANGED <<truth, now, edits, store, cache, row, twin, phase, memory, todo, job,
                 faults, torn, calm>>

DeleteMapping ==
  /\ op.do = "deleted"
  /\ PutMapping(op.p, NoRow)
  /\ op' = NoOp
  /\ UNCHANGED <<world, blockers, store, cache, twin, phase, memory, todo, job, faults,
                 calm>>

-----------------------------------------------------------------------------
(***************************************************************************)
(* promoteSuppressed and the phases of Reconcile.                          *)
(***************************************************************************)
promoteSuppressed(p) ==
  /\ phase = "promote" /\ Ready /\ p \in todoP
  /\ todoP' = todoP \ {p}
  /\ LET s == cache[p[1]] IN
     IF row[p].st = "suppressed" /\ s /= NoSlot /\ ~EndsBeforeWindow(s)
        /\ ~isDuplicateOnTarget(p, s)
     THEN createFromMapping(p, s) ELSE UNCHANGED <<row, torn, op>>
  /\ UNCHANGED <<world, blockers, store, cache, twin, phase, memory, todoO, todoB, todoT,
                 job, faults, calm>>

Reconcile ==
  /\ phase = "idle"
  /\ Enter("rebuild", TRUE)
  /\ calm' = IF calm = "settled" THEN "settled" ELSE "running"
  /\ UNCHANGED <<world, blockers, store, cache, row, twin, result, job, op, faults, torn>>

NotRestored(t) == {}                                    \* faulty variant: presence not checked

\* Active rows whose blocker is not in the listing of their account.
Missing(t) == {p \in RowsWith("active") :
                 p[2] = t /\ ~\E b \in ListBlockers(t) : b.pair = p /\ b.id = row[p].id}

\* The next account of rebuildMappingsFromTags, adoptOrphans or
\* restoreMissingBlockers is listed.
ListAccount(t) ==
  /\ Ready /\ t \in todoT /\ todoB = {} /\ todoP = {}
  /\ todoT' = todoT \ {t}
  /\ IF phase = "restore"
     THEN todoP' = Missing(t) /\ UNCHANGED todoB
     ELSE todoB' = ListBlockers(t) /\ UNCHANGED todoP
  /\ UNCHANGED <<world, blockers, store, cache, row, twin, phase, memory, todoO, job, op,
                 faults, torn, calm>>

rebuildMappingsFromTags(b) ==
  /\ phase = "rebuild" /\ Ready /\ b \in todoB
  /\ todoB' = todoB \ {b}
  /\ IF IsBlocker(b) \/ row[b.pair].st /= "none"
     THEN UNCHANGED <<row, torn>>
     ELSE PutMapping(b.pair, Active(b.id, Unknown))
  /\ UNCHANGED <<world, blockers, store, cache, twin, phase, memory, todoO, todoP, todoT,
                 job, op, faults, calm>>

cleanStaleMappings(o) ==
  /\ phase = "clean" /\ Ready /\ o \in todoO
  /\ todoO' = todoO \ {o}
  /\ job' = Drop("clear", o)
  /\ UNCHANGED <<world, blockers, store, cache, row, twin, phase, memory, todoP, todoB,
                 todoT, op, faults, torn, calm>>

resolvePending(p) ==
  /\ phase = "pending" /\ Ready /\ p \in todoP
  /\ todoP' = todoP \ {p}
  /\ LET s == cache[p[1]] IN
     IF s = NoSlot \/ EndsBeforeWindow(s)
     THEN PutMapping(p, NoRow) /\ UNCHANGED op
     ELSE createFromMapping(p, s)
  /\ UNCHANGED <<world, blockers, store, cache, twin, phase, memory, todoO, todoB, todoT,
                 job, faults, calm>>

\* A tagged blocker without a row: deleted when its origin is not cached or
\* another row holds the pair, adopted otherwise.
adoptOrphan(b) ==
  /\ phase = "adopt" /\ Ready /\ b \in todoB
  /\ todoB' = todoB \ {b}
  /\ LET p == b.pair IN
     \/ IsBlocker(b) /\ UNCHANGED <<row, torn, blockers>>
     \/ /\ ~IsBlocker(b) /\ (cache[p[1]] = NoSlot \/ row[p].st /= "none")
        /\ blockers' = {c \in blockers : ~(c.pair = p /\ c.id = b.id)}
        /\ UNCHANGED <<row, torn>>
     \/ /\ ~IsBlocker(b) /\ cache[p[1]] /= NoSlot /\ row[p].st = "none"
        /\ PutMapping(p, Active(b.id, Unknown))
        /\ UNCHANGED blockers
  /\ UNCHANGED <<world, store, cache, twin, phase, memory, todoO, todoP, todoT, job, op,
                 faults, calm>>

restoreMissingBlockers(p) ==
  /\ phase = "restore" /\ Ready /\ p \in todoP
  /\ todoP' = todoP \ {p}
  /\ LET s == cache[p[1]] IN
     IF s = NoSlot \/ s <= since
     THEN UNCHANGED <<row, torn, op>>
     ELSE createFromMapping(p, s)
  /\ UNCHANGED <<world, blockers, store, cache, twin, phase, memory, todoO, todoB, todoT,
                 job, faults, calm>>

StaysSuppressed(p) ==                                   \* faulty variant: no safety net
  /\ phase = "suppressed" /\ Ready /\ p \in todoP
  /\ todoP' = todoP \ {p}
  /\ UNCHANGED <<world, blockers, store, cache, row, torn, twin, phase, memory, todoO, todoB,
                 todoT, job, op, faults, calm>>

reevaluateSuppressed(p) ==
  /\ phase = "suppressed" /\ Ready /\ p \in todoP
  /\ todoP' = todoP \ {p}
  /\ LET s == cache[p[1]] IN
     \/ s = NoSlot /\ PutMapping(p, NoRow) /\ UNCHANGED op
     \/ /\ s /= NoSlot /\ (EndsBeforeWindow(s) \/ isDuplicateOnTarget(p, s))
        /\ UNCHANGED <<row, torn, op>>
     \/ /\ s /= NoSlot /\ ~EndsBeforeWindow(s) /\ ~isDuplicateOnTarget(p, s)
        /\ createFromMapping(p, s)
  /\ UNCHANGED <<world, blockers, store, cache, twin, phase, memory, todoO, todoB, todoT,
                 job, faults, calm>>

NextPhase == [clean |-> "pending", pending |-> "adopt", adopt |-> "restore",
              restore |-> "suppressed", suppressed |-> "idle", promote |-> "idle"]

PhaseDone ==
  /\ phase \in DOMAIN NextPhase /\ LoopDone
  /\ Enter(NextPhase[phase], TRUE)
  /\ calm' = IF phase = "suppressed" /\ calm = "running" THEN "settled" ELSE calm
  /\ UNCHANGED <<world, blockers, store, cache, row, twin, result, job, op, faults, torn>>

-----------------------------------------------------------------------------
(***************************************************************************)
(* Failures.                                                               *)
(***************************************************************************)
\* A provider call returns an error.  An expired authorisation of the target
\* (TargetAuthError) skips that target; any other error ends the current
\* SyncCalendar or FullResync, or the current row of a later phase.  The
\* request may have been carried out although its response was lost.
CallFails(auth) ==
  /\ op.do \in {"create", "update", "delete"} /\ faults < MaxFaults
  /\ \/ UNCHANGED <<blockers, nextId, torn>>
     \/ /\ ~auth
        /\ \/ /\ op.do = "create"
              /\ \E i \in 0..nextId : CreateEffect(op.p, op.slot, i)
              /\ UNCHANGED torn
           \/ /\ op.do = "update"
              /\ Align(op.p, op.slot, op.id)
              /\ torn' = torn \cup {op.p}
           \/ /\ op.do = "delete"
              /\ DeleteEffect(op.p, op.id)
              /\ UNCHANGED torn
  /\ op' = NoOp
  /\ \/ /\ phase \in {"diff", "events"} /\ ~auth
        /\ job' = NoJob /\ EndResync(FALSE)
     \/ /\ phase \notin {"diff", "events"} \/ auth
        /\ job' = IF job /= NoJob /\ auth THEN [job EXCEPT !.failed = TRUE] ELSE NoJob
        /\ UNCHANGED <<phase, todo, memory>>
  /\ faults' = faults + 1 /\ calm' = "no"
  /\ UNCHANGED <<truth, now, edits, store, cache, row, twin>>

\* Changes fails at the start of a FullResync inside Reconcile.
ChangesFails ==
  /\ phase = "rebuild" /\ LoopDone /\ faults < MaxFaults
  /\ Enter("clean", FALSE)
  /\ faults' = faults + 1 /\ calm' = "no"
  /\ UNCHANGED <<world, blockers, store, cache, row, twin, result, job, op, torn>>

\* ListBlockers fails for an account, or DeleteBlocker for an orphan.
ListingFails(t) ==
  /\ Ready /\ t \in todoT /\ todoB = {} /\ todoP = {} /\ faults < MaxFaults
  /\ todoT' = todoT \ {t}
  /\ faults' = faults + 1 /\ calm' = "no"
  /\ UNCHANGED <<world, blockers, store, cache, row, twin, phase, memory, todoO, todoP,
                 todoB, job, op, torn>>

OrphanRemains(b) ==
  /\ phase = "adopt" /\ b \in todoB /\ faults < MaxFaults
  /\ ~IsBlocker(b) /\ (cache[b.pair[1]] = NoSlot \/ row[b.pair].st /= "none")
  /\ todoB' = todoB \ {b}
  /\ faults' = faults + 1 /\ calm' = "no"
  /\ UNCHANGED <<world, blockers, store, cache, row, twin, phase, memory, todoO, todoP,
                 todoT, job, op, torn>>

\* The process dies and restarts: what is not in the store is gone.
Crash ==
  /\ phase /= "idle" /\ faults < MaxFaults
  /\ reconciling' = FALSE
  /\ phase' = "idle" /\ healthy' = TRUE
  /\ batch' = NoBatch /\ later' = {} /\ since' = 0
  /\ todoO' = {} /\ todoP' = {} /\ todoB' = {} /\ todoT' = {}
  /\ job' = NoJob /\ op' = NoOp
  /\ torn' = IF op.do = "updated" THEN torn \cup {op.p} ELSE torn
  /\ faults' = faults + 1 /\ calm' = "no"
  /\ UNCHANGED <<world, blockers, store, cache, row, twin>>

\* The SQLite file is lost while calsync is down.
DatabaseLost ==
  /\ phase = "idle" /\ faults < MaxFaults
  /\ cursor' = "none" /\ deltaFrom' = 0 /\ dirty' = {}
  /\ cache' = [o \in Origin |-> NoSlot]
  /\ row' = [p \in Pair |-> NoRow]
  /\ twin' = [p \in Pair |-> NoSlot]
  /\ torn' = {}
  /\ faults' = faults + 1 /\ calm' = "no"
  /\ UNCHANGED <<world, blockers, phase, memory, todo, job, op>>

-----------------------------------------------------------------------------
Environment ==
  \/ \E o \in Origin : UserEdits(o)
  \/ \E b \in blockers : UserRemovesBlocker(b)
  \/ \E p \in Pair : TwinVanishes(p) \/ \E s \in Slot : TwinAppears(p, s)
  \/ WindowSlides

Failure ==
  \/ \E auth \in BOOLEAN : CallFails(auth)
  \/ \E t \in Target : ListingFails(t)
  \/ \E b \in todoB : OrphanRemains(b)
  \/ ChangesFails \/ Crash \/ DatabaseLost \/ CursorExpires

\* The engine goes on with what it is doing.
Continue ==
  \/ FullResync \/ DiffDone \/ FinishEvent \/ SetCursor \/ PhaseDone
  \/ CreateBlocker \/ PutActive \/ UpdateBlocker \/ PutTimeHash
  \/ DeleteBlocker \/ DeleteMapping
  \/ \E o \in Origin : DropVanished(o) \/ processEvent(o) \/ cleanStaleMappings(o)
  \/ \E t \in Target : \/ upsertBlockerOnTarget(t) \/ deleteBlockersForOrigin(t)
                       \/ ListAccount(t)
  \/ \E p \in Pair : \/ promoteSuppressed(p) \/ resolvePending(p)
                     \/ restoreMissingBlockers(p) \/ reevaluateSuppressed(p)
  \/ \E b \in todoB : rebuildMappingsFromTags(b) \/ adoptOrphan(b)

Next == SyncCalendar \/ Reconcile \/ Continue \/ Environment \/ Failure

Spec == Init /\ [][Next]_vars

\* Engine.Run keeps going, and a Reconcile is due every day however many ticks
\* compete with it.  Nothing obliges a user, the clock or a failure to act.
FairSpec == Spec /\ WF_vars(Continue) /\ WF_vars(SyncCalendar) /\ SF_vars(Reconcile)

-----------------------------------------------------------------------------
(***************************************************************************)
(* Properties.                                                             *)
(***************************************************************************)
\* A calendar never shows two blockers for one event: the intent rows and the
\* deterministic key hold through crashes, lost responses and a lost database
\* (idemKeyFor, CreateBlocker's 409).
AtMostOneBlocker ==
  \A b, c \in blockers : b.pair = c.pair => b = c

\* While the row says active with a hash, the blocker it names shows that hash:
\* otherwise no later sync would touch it, because equal hashes mean no call.
\* The only exception is an update that took effect and was not recorded.
RowTellsTruth ==
  \A b \in blockers :
    LET m == row[b.pair] IN
      (/\ m.st = "active" /\ m.id = b.id /\ m.hash /= Unknown
       /\ b.pair \notin torn /\ ~(op.do = "updated" /\ op.p = b.pair))
      => b.slot = m.hash

\* What the stored cursor will not report again has been processed: the cache
\* knows every event in the window that did not change since (engine.go:52, the
\* cursor is stored only after the whole batch).  An event that the window
\* reaches later is left to the next FullResync.
CursorTellsTruth ==
  \A o \in Origin :
    (/\ phase = "idle" /\ cursor = "valid" /\ o \notin dirty
     /\ truth[o] \in Slot /\ InWindow(truth[o]) /\ InWindowOf(deltaFrom, truth[o]))
    => cache[o] = truth[o]

\* Between a provider call and the write after it the store still says what it
\* said when the call was issued: an intent row while a blocker is created, the
\* id of the remote event while it is updated or deleted.
OpShape ==
  /\ op.do \in {"create", "created"} => row[op.p] = Pending(op.slot)
  /\ op.do \in {"update", "updated"} => row[op.p].st = "active" /\ row[op.p].id = op.id
  /\ op.do \in {"delete", "deleted"} => row[op.p].id = op.id
  /\ op.do \in {"created", "updated"} =>
       \A b \in blockers : b.pair = op.p /\ b.id = op.id => b.slot = op.slot
  /\ op.do = "deleted" => \A b \in blockers : b.pair = op.p => b.id /= op.id

\* Only an active row names a remote event.
RowShape == \A p \in Pair : row[p].st /= "active" => row[p].id = NoId

\* The rows left in the loops of resolvePending and reevaluateSuppressed are as
\* they were listed, and only these passes have something in progress.
LoopShape ==
  /\ phase \in {"pending", "suppressed"} =>
       \A p \in todoP : row[p].st = phase /\ (op /= NoOp => op.p /= p)
  /\ job /= NoJob => phase \in {"diff", "events", "clean"}
  /\ op /= NoOp => phase /= "idle"

Bookkeeping == OpShape /\ RowShape /\ LoopShape

\* What a Reconcile that nothing disturbed has to establish for a pair.
Mirrored(p) ==
  LET s == truth[p[1]]
      shown == {b \in Live(p) : ~EndsBeforeWindow(b.slot)}
  IN IF s \in Slot /\ InWindow(s)
     THEN \/ row[p].st = "active" /\ shown = {[pair |-> p, id |-> row[p].id, slot |-> s]}
          \/ row[p].st = "suppressed" /\ isDuplicateOnTarget(p, s) /\ shown = {}
     ELSE shown = {}

\* The origin was moved to a time that is over before its blocker could follow:
\* rule 5 caches the new time first, and every later pass leaves alone what the
\* cache says has ended.
Stranded(p) == /\ cache[p[1]] /= NoSlot /\ EndsBeforeWindow(cache[p[1]])
               /\ row[p].st = "active" /\ row[p].hash /= cache[p[1]]

\* A Reconcile that no user, window slide or failure disturbed leaves the target
\* calendars exactly as the monitored calendar asks, whatever crashes, lost
\* responses and hand deletions came before; and the syncs that follow keep it so.
ReconcileSettles == calm = "settled" => \A p \in Pair : Mirrored(p) \/ p \in torn \/ Stranded(p)

\* engine.go:53 says that re-running a pass that failed half-way is safe.  It is
\* not for an update that took effect and was not recorded: when the origin has
\* moved back by then, the row's hash is the old one and no call is made.
LostUpdateHeals ==
  calm = "settled" => \A p \in Pair : Mirrored(p) \/ Stranded(p)

\* reconcile.go:86 says that an origin moved from inside the window to the past
\* is cleaned up, because the cache still holds the old time.  Rule 5 has
\* already written the new one when the update of the blocker fails.
MoveToPastHeals ==
  calm = "settled" => \A p \in Pair : Mirrored(p) \/ p \in torn

\* A row that names a remote event is dropped only when that event is gone:
\* deleteBlockersForOrigin deletes remotely first.
NoBlockerForgotten ==
  [][\A p \in Pair :
       row[p].id /= NoId /\ row'[p].st = "none" /\ ~DatabaseLost
       => ~\E b \in blockers' : b.pair = p /\ b.id = row[p].id]_vars

\* What the store knows to be over and unchanged keeps its blocker: no pass
\* removes or moves it (the past guards of rule 3, of the set difference and of
\* restoreMissingBlockers).
KeepsThePast ==
  [][\A b \in blockers :
       b \notin blockers' /\ edits' = edits
       => ~(/\ EndsBeforeWindow(b.slot)
            /\ truth[b.pair[1]] = b.slot /\ cache[b.pair[1]] = b.slot
            /\ b.pair[1] \notin dirty
            /\ row[b.pair].st = "active")]_vars

\* The calendars, the batch, the cache and the blockers are a chain of copies: every
\* pass, retry and restart works from what the store says now of an event, never
\* from what a row, a call or an earlier batch remembers of it (createFromMapping,
\* upsertBlockerOnTarget, resolvePending, restoreMissingBlockers).
displayed == [p \in Pair |-> {b.slot : b \in Live(p)}]
Chain == INSTANCE Mirror
           WITH Content <- Slot \cup {Gone, Free}, Time <- Slot, Silence <- NoChange,
                Unseen <- NoSlot, told <- batch, known <- cache, shown <- displayed
MirrorsByCopying == Chain!Spec

\* Once users and failures stop, the mirror becomes right and stays right.
Converges == <>[](\A p \in Pair : Mirrored(p) \/ p \in torn \/ Stranded(p))

=============================================================================
