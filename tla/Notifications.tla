---------------------------- MODULE Notifications ----------------------------
(***************************************************************************)
(* The messages calsync sends to Slack: a digest every morning and a       *)
(* reminder before an event starts (internal/engine/notify.go), in the     *)
(* loop of Engine.Run that decides when (scheduler.go).  Reminders read    *)
(* the events cache, so the module models what synchronisation does to     *)
(* that cache; BlockerSync models what it does to the blockers.            *)
(*                                                                         *)
(* Time is counted in polling intervals.  An event lasts one of them, and  *)
(* the event e is the only one of its calendar.  A calendar reports an     *)
(* event that leaves the window with its new time, as Google does.         *)
(***************************************************************************)
EXTENDS Integers, FiniteSets

CONSTANTS
  Event,         \* events of the monitored calendars
  SameMeeting,   \* those that are copies of one meeting (one iCalUID)
  Dedupe,        \* dedupe_same_meeting of the configuration
  LastStart,     \* events start at 1..LastStart
  DayLength,     \* polling intervals of a day
  DigestAt,      \* time of day of the digest (morning_digest)
  ReconcileAt,   \* time of day of the daily Reconcile (reconcile_at)
  Lead,          \* remind_before
  Horizon,       \* length of the sync window
  Retention,     \* how long after its start a reminder stays recorded
  MaxNow,        \* bound: the clock
  MaxEdits,      \* bound: edits by users
  MaxFaults      \* bound: crashes, failed or slow calls, lost responses

ASSUME ConstantsAssumption ==
  /\ SameMeeting \subseteq Event /\ Dedupe \in BOOLEAN
  /\ LastStart \in Nat /\ DayLength \in Nat \ {0}
  /\ DigestAt \in 0..(DayLength - 1) /\ ReconcileAt \in 0..(DayLength - 1)
  /\ Lead \in Nat \ {0} /\ Horizon \in Nat /\ Retention \in Nat
  /\ MaxNow \in Nat /\ MaxEdits \in Nat /\ MaxFaults \in Nat

Start == 1..LastStart
Gone  == 0    \* an event that does not exist; no row in the events cache
Free  == -1   \* an event that exists but is free or declined

VARIABLES
  now,          \* the clock
  truth,        \* [Event -> Start, Gone or Free]: the calendars
  dirty,        \* events changed since their calendar was read
  known,        \* what the store has of an event: its start in the events
                \* table, and whether the mappings table has rows of it
  sent,         \* reminders_sent table
  pc,           \* where Engine.Run is
  nextDigest,   \* deadlines of Run
  nextReconcile,
  asof,         \* the clock as the running check or digest read it
  todo,         \* calendars or reminders left in the current loop
  cur,          \* the reminder in progress
  edits, faults,
  trouble,      \* something failed since the last Reconcile began
  skipped,      \* events whose deletion was not passed on to a target
  reminders,    \* reminders delivered, by meeting and start
  digests       \* digests delivered, by day

inputs == <<truth, edits>>
tables == <<known, sent>>
memory == <<nextDigest, nextReconcile, asof, todo, cur>>
ghosts == <<faults, trouble, skipped, reminders, digests>>
vars   == <<now, inputs, dirty, tables, pc, memory, ghosts>>

Known    == [start : Start \cup {Gone}, mapped : BOOLEAN]
Nothing  == [start |-> Gone, mapped |-> FALSE]
Reminder == [e : Event, start : Start]
None     == [e |-> "none"]
Day(t)   == t \div DayLength

\* what HasReminderForICalUID takes for one meeting
Meeting(e) == IF Dedupe /\ e \in SameMeeting THEN SameMeeting ELSE {e}
Meetings   == {Meeting(e) : e \in Event}

Phases == {"wait", "digest", "sendDigest", "reconcile", "resync", "tick",
           "remind", "send", "mark", "down"}

TypeOK ==
  /\ now \in 0..MaxNow /\ asof \in 0..MaxNow
  /\ truth \in [Event -> Start \cup {Gone, Free}]
  /\ dirty \subseteq Event
  /\ known \in [Event -> Known]
  /\ sent \subseteq Reminder
  /\ pc \in Phases
  /\ nextDigest \in Nat /\ nextReconcile \in Nat
  /\ todo \subseteq Event \/ todo \subseteq Reminder
  /\ cur \in Reminder \cup {None}
  /\ edits \in 0..MaxEdits /\ faults \in 0..MaxFaults
  /\ trouble \in BOOLEAN /\ skipped \subseteq Event
  /\ reminders \in [Meetings \X Start -> Nat]
  /\ digests \in [0..Day(MaxNow) -> Nat]

\* Mutants: the deadline that has just come is taken again; the first day and
\* every day of a restart is skipped.
NotBefore(t, at) ==
  LET candidate == Day(t) * DayLength + at
  IN  IF candidate >= t THEN candidate ELSE candidate + DayLength
Tomorrow(t, at) == (Day(t) + 1) * DayLength + at

\* The next time of day "at" that is strictly in the future.
NextDaily(t, at) ==
  LET candidate == Day(t) * DayLength + at
  IN  IF candidate > t THEN candidate ELSE candidate + DayLength

\* A process starts with deadlines of its own and a first tick.
Boots ==
  /\ nextDigest' = NextDaily(now, DigestAt)
  /\ nextReconcile' = NextDaily(now, ReconcileAt)
  /\ pc' = "tick" /\ todo' = Event /\ cur' = None

Init ==
  /\ now = 0 /\ asof = 0
  /\ truth \in [Event -> Start \cup {Gone}] /\ dirty = Event
  /\ \A e, f \in SameMeeting : truth[e] = truth[f]
  /\ known = [e \in Event |-> Nothing] /\ sent = {}
  /\ nextDigest = NextDaily(0, DigestAt)
  /\ nextReconcile = NextDaily(0, ReconcileAt)
  /\ pc = "tick" /\ todo = Event /\ cur = None
  /\ edits = 0 /\ faults = 0 /\ trouble = FALSE /\ skipped = {}
  /\ reminders = [k \in Meetings \X Start |-> 0]
  /\ digests = [d \in 0..Day(MaxNow) |-> 0]

-----------------------------------------------------------------------------
(***************************************************************************)
(* The world: users, the clock, failures.                                  *)
(***************************************************************************)
\* A user creates, moves, frees, declines or deletes an event.
UserEdits(e) ==
  /\ edits < MaxEdits
  /\ \E t \in (Start \cup {Gone, Free}) \ {truth[e]} :
       truth' = [truth EXCEPT ![e] = t]
  /\ edits' = edits + 1 /\ dirty' = dirty \cup {e}
  /\ UNCHANGED <<now, tables, pc, memory, ghosts>>

Fault ==
  /\ faults < MaxFaults
  /\ faults' = faults + 1 /\ trouble' = TRUE

\* A polling interval passes during a call, in suspension or while nothing runs.
Slow ==
  /\ now < MaxNow
  /\ Fault /\ now' = now + 1
  /\ UNCHANGED <<inputs, dirty, tables, pc, memory, skipped, reminders, digests>>

\* What is in memory is gone.
Dies ==
  /\ Fault /\ pc' = "down"
  /\ nextDigest' = 0 /\ nextReconcile' = 0 /\ asof' = 0 /\ todo' = {} /\ cur' = None
  /\ UNCHANGED <<now, inputs, dirty, sent, skipped, reminders, digests>>

Crash == pc # "down" /\ Dies /\ UNCHANGED known

Restart ==
  /\ pc = "down" /\ Boots
  /\ UNCHANGED <<now, inputs, dirty, tables, asof, ghosts>>

-----------------------------------------------------------------------------
(***************************************************************************)
(* What a synchronisation of the calendar of e does to the events cache.   *)
(***************************************************************************)
InWindow(s)         == s + 1 > now /\ s < now + Horizon
EndsBeforeWindow(s) == s + 1 <= now

Alive(t)            == t \in Start /\ InWindow(t)

\* Mutant: the guard for past events does not ask where the event was before.
KeepsPastRows(t, k) ==
  CASE t = Gone  -> IF k.mapped THEN Nothing ELSE k
    [] t = Free  -> Nothing
    [] Alive(t)  -> [start |-> t, mapped |-> TRUE]
    [] OTHER     -> IF EndsBeforeWindow(t) THEN k ELSE [k EXCEPT !.mapped = FALSE]

\* Rules 1 to 5 for an event that is t in its calendar and k in the store.
processEvent(t, k) ==
  CASE t = Gone  -> IF k.mapped THEN Nothing ELSE k
    [] t = Free  -> Nothing
    [] Alive(t)  -> [start |-> t, mapped |-> TRUE]
    [] OTHER     ->
         IF EndsBeforeWindow(t) /\ k.start # Gone /\ EndsBeforeWindow(k.start)
         THEN k ELSE [k EXCEPT !.mapped = FALSE]

\* Mutant: a full listing only removes.
OnlyRemoves(t, k) == IF k.start # Gone /\ ~Alive(t) THEN Nothing ELSE k

\* The set-difference of FullResync, then the rules for what it listed.
Vanished(t, k) == k.start # Gone /\ ~Alive(t) /\ ~EndsBeforeWindow(k.start)
fullResync(t, k) ==
  IF Vanished(t, k) THEN Nothing
  ELSE IF Alive(t) THEN processEvent(t, k) ELSE k

\* An incremental pass handles what changed; it turns into a full one when the
\* cursor has expired.
Incremental(e) == IF e \in dirty THEN processEvent(truth[e], known[e]) ELSE known[e]
Full(e)        == fullResync(truth[e], known[e])
Passes(e)      == {Full(e)} \cup IF pc = "tick" THEN {Incremental(e)} ELSE {}

\* What the store may hold where an error or a crash cuts the pass, up to the
\* cursor: the cache row is written before the mappings and deleted after them.
Halfway(e) ==
  {known[e]} \cup Passes(e) \cup
  IF Alive(truth[e])
  THEN {[known[e] EXCEPT !.start = truth[e]], [start |-> truth[e], mapped |-> TRUE]}
  ELSE IF Passes(e) = {known[e]} THEN {} ELSE {[known[e] EXCEPT !.mapped = FALSE]}

InPass(e) == pc \in {"tick", "resync"} /\ e \in todo

\* The pass over a calendar is complete, and its cursor is stored.
Read(e, k) ==
  /\ known' = [known EXCEPT ![e] = k]
  /\ dirty' = dirty \ {e} /\ todo' = todo \ {e}
  /\ UNCHANGED <<now, inputs, sent, pc, nextDigest, nextReconcile, asof, cur, reminders,
                 digests>>

\* Whether the pass looked at e at all: an incremental one need not.
LookedAt(e, k) == pc = "resync" \/ e \in dirty \/ k # known[e]

SyncCalendar(e) ==
  /\ InPass(e)
  /\ \E k \in Passes(e) :
       /\ Read(e, k)
       /\ skipped' = IF LookedAt(e, k) THEN skipped \ {e} ELSE skipped
  /\ UNCHANGED <<faults, trouble>>

\* The authorisation of a target has expired: the pass skips that target and
\* goes on.  Where there is a blocker to delete, its mapping stays and so does
\* the cache row; a creation, or a promotion after the deletion, comes after
\* the cache was written.
SkipsTarget(e) ==
  /\ InPass(e) /\ Fault
  /\ \/ /\ \E k \in Passes(e) :
             /\ k = Nothing \/ (Alive(truth[e]) /\ k.start = truth[e])
             /\ Read(e, k)
        /\ skipped' = skipped \ {e}
     \/ /\ ~Alive(truth[e]) /\ known[e].mapped /\ Passes(e) # {known[e]}
        /\ Read(e, known[e])
        /\ skipped' = skipped \cup {e}

\* The listing fails, or a call to a target: the cursor is not stored.
SyncFails(e) ==
  /\ InPass(e) /\ Fault /\ todo' = todo \ {e}
  /\ \E k \in Halfway(e) : known' = [known EXCEPT ![e] = k]
  /\ UNCHANGED <<now, inputs, dirty, sent, pc, nextDigest, nextReconcile, asof, cur,
                 skipped, reminders, digests>>

CrashInSync(e) ==
  /\ InPass(e) /\ Dies
  /\ \E k \in Halfway(e) : known' = [known EXCEPT ![e] = k]

-----------------------------------------------------------------------------
(***************************************************************************)
(* Engine.Run: the ticker, the digest, Reconcile, the tick, the reminders. *)
(***************************************************************************)
Tick ==
  /\ pc = "wait" /\ pc' = "digest"
  /\ now' \in {now, now + 1} /\ now' <= MaxNow
  /\ asof' = 0
  /\ UNCHANGED <<inputs, dirty, tables, nextDigest, nextReconcile, todo, cur, ghosts>>

NoDigest ==
  /\ pc = "digest" /\ now < nextDigest /\ pc' = "reconcile"
  /\ UNCHANGED <<now, inputs, dirty, tables, memory, ghosts>>

\* runDigest of a deadline whose day is over
AbandonDigest ==
  /\ pc = "digest" /\ now >= nextDigest /\ Day(now) > Day(nextDigest)
  /\ nextDigest' = NextDaily(now, DigestAt) /\ pc' = "reconcile"
  /\ UNCHANGED <<now, inputs, dirty, tables, nextReconcile, asof, todo, cur, ghosts>>

CollectDigest ==
  /\ pc = "digest" /\ now >= nextDigest /\ Day(now) <= Day(nextDigest)
  /\ asof' = now /\ pc' = "sendDigest"
  /\ UNCHANGED <<now, inputs, dirty, tables, nextDigest, nextReconcile, todo, cur, ghosts>>

DigestDelivered == digests' = [digests EXCEPT ![Day(nextDigest)] = @ + 1]
NextDigest      == nextDigest' = NextDaily(asof, DigestAt)

\* The four answers: delivered; delivered but not known to be; a failure that
\* is tried again at the next tick; one that is not.
SendDigest ==
  /\ pc = "sendDigest" /\ pc' = "reconcile"
  /\ \/ DigestDelivered /\ NextDigest /\ UNCHANGED <<faults, trouble>>
     \/ Fault /\ DigestDelivered /\ UNCHANGED nextDigest
     \/ Fault /\ UNCHANGED <<digests, nextDigest>>
     \/ Fault /\ NextDigest /\ UNCHANGED digests
  /\ asof' = 0
  /\ UNCHANGED <<now, inputs, dirty, tables, nextReconcile, todo, cur, skipped,
                 reminders>>

\* Reconcile when its deadline has passed, or the tick straight away
StartPass ==
  /\ pc = "reconcile" /\ todo' = Event
  /\ pc' = IF now < nextReconcile THEN "tick" ELSE "resync"
  /\ trouble' = (now < nextReconcile /\ trouble)
  /\ UNCHANGED <<now, inputs, dirty, tables, nextDigest, nextReconcile, asof, cur,
                 faults, skipped, reminders, digests>>

EndReconcile ==
  /\ pc = "resync" /\ todo = {}
  /\ sent' = {r \in sent : r.start >= now - Retention}
  /\ nextReconcile' = NextDaily(now, ReconcileAt)
  /\ pc' = "tick" /\ todo' = Event
  /\ UNCHANGED <<now, inputs, dirty, known, nextDigest, asof, cur, ghosts>>

\* start_utc > now AND start_utc <= now + lead
Upcoming(t, s) == t < s /\ s <= t + Lead

ListUpcomingEvents ==
  /\ pc = "tick" /\ todo = {} /\ pc' = "remind" /\ asof' = now
  /\ todo' = {r \in Reminder : known[r.e].start = r.start /\ Upcoming(now, r.start)}
  /\ UNCHANGED <<now, inputs, dirty, tables, nextDigest, nextReconcile, cur, ghosts>>

\* Mutants: copies of a meeting are not looked for; the start is left out of
\* the key.
OwnRecord(r)    == r \in sent
WithoutStart(r) == sent' = sent \cup {[e |-> r.e]}

WasReminderSent(r)       == r \in sent
HasReminderForICalUID(r) == \E e \in Meeting(r.e) : [r EXCEPT !.e = e] \in sent
First(r)                 == r \in todo /\ \A q \in todo : r.start <= q.start
MarkReminderSent(r)      == sent' = sent \cup {r}

\* One row of the list, in the order of its start.
CheckReminder(r) ==
  /\ pc = "remind" /\ First(r) /\ todo' = todo \ {r}
  /\ \/ /\ WasReminderSent(r)
        /\ UNCHANGED <<sent, pc, cur>>
     \/ /\ ~WasReminderSent(r) /\ HasReminderForICalUID(r)
        /\ MarkReminderSent(r) /\ UNCHANGED <<pc, cur>>
     \/ /\ ~WasReminderSent(r) /\ ~HasReminderForICalUID(r)
        /\ cur' = r /\ pc' = "send" /\ UNCHANGED sent
  /\ UNCHANGED <<now, inputs, dirty, known, nextDigest, nextReconcile, asof, ghosts>>

ReminderDelivered ==
  reminders' = [reminders EXCEPT ![<<Meeting(cur.e), cur.start>>] = @ + 1]

\* The answers are those of SendDigest; a reminder is recorded when it was
\* delivered and when trying again is useless.
SendReminder ==
  /\ pc = "send"
  /\ \/ ReminderDelivered /\ pc' = "mark" /\ UNCHANGED <<faults, trouble>>
     \/ Fault /\ ReminderDelivered /\ pc' = "remind"
     \/ Fault /\ pc' \in {"remind", "mark"} /\ UNCHANGED reminders
  /\ cur' = IF pc' = "mark" THEN cur ELSE None
  /\ UNCHANGED <<now, inputs, dirty, tables, nextDigest, nextReconcile, asof, todo,
                 skipped, digests>>

RecordReminder ==
  /\ pc = "mark" /\ MarkReminderSent(cur) /\ cur' = None /\ pc' = "remind"
  /\ UNCHANGED <<now, inputs, dirty, known, nextDigest, nextReconcile, asof, todo, ghosts>>

EndReminders ==
  /\ pc = "remind" /\ todo = {} /\ pc' = "wait"
  /\ UNCHANGED <<now, inputs, dirty, tables, memory, ghosts>>

Run ==
  \/ Tick \/ NoDigest \/ AbandonDigest \/ CollectDigest \/ SendDigest
  \/ StartPass \/ EndReconcile
  \/ ListUpcomingEvents \/ SendReminder \/ RecordReminder \/ EndReminders
  \/ \E e \in Event : SyncCalendar(e)
  \/ \E r \in Reminder : CheckReminder(r)

Next ==
  \/ Run \/ Slow \/ Crash \/ Restart
  \/ \E e \in Event : UserEdits(e) \/ SkipsTarget(e) \/ SyncFails(e) \/ CrashInSync(e)

Spec == Init /\ [][Next]_vars

-----------------------------------------------------------------------------
\* While checkReminders runs it sees the clock and the cache as they were when
\* it listed the events, and what it is about to send has no record yet.
Checking   == pc \in {"remind", "send", "mark"}
Clock      == IF Checking THEN asof ELSE now
Current(r) == r \in Reminder /\ known[r.e].start = r.start /\ r.start > asof

Loops ==
  /\ pc \in {"tick", "resync"} => todo \subseteq Event
  /\ Checking => asof <= now /\ \A r \in todo : Current(r)
  /\ pc \in {"send", "mark"} => Current(cur)
  /\ pc = "send" => ~HasReminderForICalUID(cur)

\* A delivery that no failure pays for has its record, or is about to get it, or
\* is of a start that is over, so that Reconcile may drop the record.
Recorded(m, s) == \E e \in m : [e |-> e, start |-> s] \in sent
Accounted ==
  \A m \in Meetings, s \in Start :
    /\ reminders[<<m, s>>] <= 1 + faults
    /\ reminders[<<m, s>>] > faults =>
         \/ Recorded(m, s)
         \/ pc = "mark" /\ m = Meeting(cur.e) /\ s = cur.start
         \/ s <= Clock

\* What is mirrored, unchanged since it was read and not over is cached as it
\* is, but for a deletion that was skipped; the next Reconcile makes up for it.
Skipped(e) == e \in skipped /\ (trouble \/ (pc = "resync" /\ e \in todo))
MappedIsTrue ==
  \A e \in Event \ dirty :
    known[e].mapped => \/ known[e].start \in {truth[e], Gone}
                       \/ known[e].start < Clock
                       \/ Skipped(e)

\* A meeting is announced once for each time it starts at, in however many
\* calendars it stands and however often it is moved away and back: what a
\* reader gets beyond that is answers lost or crashes before the record.
RemindedOnce == \A k \in Meetings \X Start : reminders[k] <= 1 + faults

\* Once a Reconcile and everything after it went well, every pass ends with a
\* reminder recorded for each event that starts within the lead, unless its
\* calendar changed after the pass read it.  The window slides, so this needs
\* Reconcile to bring in the events no change will ever report.
NoReminderMissed ==
  pc = "wait" /\ ~trouble =>
    \A e \in Event \ dirty :
      truth[e] \in Start /\ Upcoming(asof, truth[e]) =>
        [e |-> e, start |-> truth[e]] \in sent

\* A reminder about a start that the event does not have, and no unread change
\* explains, has one of two causes.  Its cache row has no mappings: rule 3, or
\* an interruption of rule 1 or 4, left it so.  Or its deletion was skipped for
\* a target whose authorisation had expired, so that the row was kept with its
\* mapping and the cursor stored (engine.go:84); that lasts until a Reconcile
\* goes well.  Every other path keeps cache and calendar together.
PhantomsHaveCause ==
  pc = "send" => \/ cur.e \in dirty
                 \/ truth[cur.e] = cur.start
                 \/ ~known[cur.e].mapped
                 \/ cur.e \in skipped /\ trouble

\* The same without these exceptions, as store/reminders.go:11 has it: the cache
\* holds only busy events of the window, so no further filter is needed.
NoPhantomReminder ==
  pc = "send" => cur.e \in dirty \/ truth[cur.e] = cur.start

\* One digest a day: what is sent beyond that is answers that were lost.
DigestOnce == \A d \in DOMAIN digests : digests[d] <= 1 + faults

\* A past day without its digest costs a failure of its own: deadlines that
\* are computed anew after a restart, a slow call or a day given up never skip
\* a day by themselves.
DigestKept ==
  Cardinality({d \in DOMAIN digests : d < Day(now) /\ digests[d] = 0}) <= faults
=============================================================================
