-------------------------- MODULE NotificationsProofs --------------------------
(***************************************************************************)
(* Theorems about Notifications for every set of events, every length of   *)
(* the day, the lead and the window, and every number of edits and         *)
(* failures.                                                               *)
(*                                                                         *)
(* None of the properties is inductive.  RemindedOnce needs to know where  *)
(* the record of a delivery is (Accounted), PhantomsHaveCause what the     *)
(* cache says of an event between two of its changes (MappedIsTrue); both  *)
(* lean on the frozen view checkReminders works with (Loops): the clock it *)
(* read and the cache it listed.  DigestOnce needs the deadline to be that *)
(* DigestKept a count of the days the deadline has passed or will pass     *)
(* (Paid), and NoReminderMissed that the cache reaches from one Reconcile  *)
(* to the lead after the next (Deadlines, Remembered).                     *)
(***************************************************************************)
EXTENDS Notifications, FiniteSetTheorems, TLAPS

USE DEF Start, Gone, Free

\* The deadlines of Run are times.
LEMMA DayNat ==
  ASSUME NEW t \in Nat
  PROVE  Day(t) \in Nat
BY ConstantsAssumption DEF Day

\* So is the next one at any time of day.
LEMMA NextDailyNat ==
  ASSUME NEW t \in Nat, NEW at \in 0..(DayLength - 1)
  PROVE  NextDaily(t, at) \in Nat
<1>1. PICK d \in Nat : d = Day(t)
  BY DayNat
<1>2. PICK l \in Nat : l = DayLength
  BY ConstantsAssumption
<1>3. d * l \in Nat
  BY <1>1, <1>2
<1>4. PICK c \in Nat : c = d * l + at
  BY <1>2, <1>3
<1> QED
  BY <1>1, <1>2, <1>4 DEF NextDaily

\* The changes a pass makes to what the store has of an event.
LEMMA KnownFacts ==
  /\ Nothing \in Known /\ Nothing.start = Gone /\ ~Nothing.mapped
  /\ \A t \in Start : LET k == [start |-> t, mapped |-> TRUE]
                      IN  k \in Known /\ k.start = t /\ k.mapped
  /\ \A k \in Known : LET u == [k EXCEPT !.mapped = FALSE]
                      IN  u \in Known /\ ~u.mapped /\ u.start = k.start
  /\ \A k \in Known, t \in Start : LET u == [k EXCEPT !.start = t]
                                  IN  u \in Known /\ u.start = t
  /\ \A k \in Known : k.start \in Start \cup {Gone} /\ k.mapped \in BOOLEAN
BY DEF Known, Nothing

\* What a pass writes is a row of the tables.
LEMMA RulesTyped ==
  ASSUME NEW t \in Start \cup {Gone, Free}, NEW k \in Known
  PROVE  processEvent(t, k) \in Known /\ fullResync(t, k) \in Known
<1>1. processEvent(t, k) \in Known
  <2>1. CASE t = Gone
    BY <2>1, KnownFacts DEF processEvent, Alive
  <2>2. CASE t = Free
    BY <2>2, KnownFacts DEF processEvent, Alive
  <2>3. CASE Alive(t)
    BY <2>3, KnownFacts DEF processEvent, Alive
  <2>4. CASE t \in Start /\ ~Alive(t)
    BY <2>4, KnownFacts DEF processEvent
  <2> QED
    BY <2>1, <2>2, <2>3, <2>4
<1> QED
  BY <1>1, KnownFacts DEF fullResync

\* Neither a complete pass nor a half of one writes anything else.
LEMMA PassesTyped ==
  ASSUME TypeOK, NEW e \in Event
  PROVE  /\ truth[e] \in Start \cup {Gone, Free} /\ known[e] \in Known
         /\ \A k \in Passes(e) \cup Halfway(e) : k \in Known
<1>1. truth[e] \in Start \cup {Gone, Free} /\ known[e] \in Known
  BY DEF TypeOK
<1>2. Full(e) \in Known /\ Incremental(e) \in Known
  BY <1>1, RulesTyped DEF Full, Incremental
<1>3. \A k \in Passes(e) : k \in Known
  BY <1>2 DEF Passes
<1>4. \A k \in Halfway(e) : k \in Known
  BY <1>1, <1>3, KnownFacts DEF Halfway, Alive
<1> QED
  BY <1>1, <1>3, <1>4

\* A meeting and a start are the key of what a reader got.
LEMMA MeetingFacts ==
  ASSUME NEW e \in Event
  PROVE  Meeting(e) \in Meetings /\ e \in Meeting(e)
BY DEF Meetings, Meeting

\* What a synchronisation of e writes is typed and is about e only.
LEMMA PassTyped ==
  ASSUME TypeOK, NEW e \in Event, NEW k \in Known,
         known' = [known EXCEPT ![e] = k]
  PROVE  /\ known' \in [Event -> Known] /\ known'[e] = k
         /\ \A f \in Event : f # e => known'[f] = known[f]
BY DEF TypeOK

\* One more of a count.
LEMMA OneMore ==
  ASSUME NEW S, NEW f \in [S -> Nat], NEW k \in S
  PROVE  LET g == [f EXCEPT ![k] = @ + 1]
         IN  g \in [S -> Nat] /\ g[k] = f[k] + 1 /\ \A x \in S : x # k => g[x] = f[x]
OBVIOUS

\* A delivery counts for the meeting and start being sent, and for no other.
LEMMA Delivery ==
  ASSUME TypeOK, Current(cur), ReminderDelivered
  PROVE  /\ Meeting(cur.e) \in Meetings /\ cur.start \in Start
         /\ reminders' \in [Meetings \X Start -> Nat]
         /\ reminders'[<<Meeting(cur.e), cur.start>>]
              = reminders[<<Meeting(cur.e), cur.start>>] + 1
         /\ \A m \in Meetings, s \in Start :
              ~(m = Meeting(cur.e) /\ s = cur.start)
              => reminders'[<<m, s>>] = reminders[<<m, s>>]
<1>1. cur.e \in Event /\ cur.start \in Start
  BY DEF Current, Reminder
<1>2. Meeting(cur.e) \in Meetings
  BY <1>1, MeetingFacts
<1>3. PICK k : k = <<Meeting(cur.e), cur.start>>
  OBVIOUS
<1>4. k \in Meetings \X Start
  BY <1>1, <1>2, <1>3
<1>5. reminders \in [Meetings \X Start -> Nat] /\ reminders' = [reminders EXCEPT ![k] = @ + 1]
  BY <1>3 DEF TypeOK, ReminderDelivered
<1>6. /\ reminders' \in [Meetings \X Start -> Nat] /\ reminders'[k] = reminders[k] + 1
      /\ \A x \in Meetings \X Start : x # k => reminders'[x] = reminders[x]
  BY <1>4, <1>5, OneMore
<1>7. ASSUME NEW m \in Meetings, NEW s \in Start, ~(m = Meeting(cur.e) /\ s = cur.start)
      PROVE  reminders'[<<m, s>>] = reminders[<<m, s>>]
  <2>1. <<m, s>> \in Meetings \X Start /\ <<m, s>> # k
    BY <1>3, <1>7
  <2> QED
    BY <1>6, <2>1
<1> QED
  BY <1>1, <1>2, <1>3, <1>6, <1>7

-----------------------------------------------------------------------------
\* The types hold at the start.
LEMMA TypeInit == Init => TypeOK
<1> SUFFICES ASSUME Init PROVE TypeOK
  OBVIOUS
<1>1. 0 \in Nat /\ DigestAt \in 0..(DayLength - 1) /\ ReconcileAt \in 0..(DayLength - 1)
  BY ConstantsAssumption
<1>2. nextDigest \in Nat /\ nextReconcile \in Nat
  BY <1>1, NextDailyNat DEF Init
<1>3. known \in [Event -> Known]
  BY KnownFacts DEF Init
<1>4. reminders \in [Meetings \X Start -> Nat] /\ digests \in [0..Day(MaxNow) -> Nat]
  BY DEF Init
<1>5. /\ now \in 0..MaxNow /\ asof \in 0..MaxNow /\ edits \in 0..MaxEdits
      /\ faults \in 0..MaxFaults
  BY ConstantsAssumption DEF Init
<1>6. truth \in [Event -> Start \cup {Gone, Free}]
  BY DEF Init
<1> QED
  BY <1>2, <1>3, <1>4, <1>5, <1>6 DEF Init, TypeOK, Phases

\* Each step keeps the types.  The steps of the world, of the digest and of the
\* reminders change few variables; a pass writes what PassesTyped allows.
LEMMA TypeStep ==
  ASSUME TypeOK, Loops, Next
  PROVE  TypeOK'
<1> USE ConstantsAssumption DEF TypeOK, Phases
<1>0. /\ \A t \in Nat : NextDaily(t, DigestAt) \in Nat /\ NextDaily(t, ReconcileAt) \in Nat
      /\ now \in Nat /\ asof \in Nat
  <2>1. now \in Nat /\ asof \in Nat
    OBVIOUS
  <2>2. DigestAt \in 0..(DayLength - 1) /\ ReconcileAt \in 0..(DayLength - 1)
    OBVIOUS
  <2> QED
    BY <2>1, <2>2, NextDailyNat
<1>f. ASSUME Fault PROVE faults' \in 0..MaxFaults /\ trouble' \in BOOLEAN
  <2>1. faults' \in 0..MaxFaults
    BY <1>f DEF Fault
  <2>2. trouble' \in BOOLEAN
    BY <1>f DEF Fault
  <2> QED
    BY <2>1, <2>2
<1>1. CASE Tick
  BY <1>1 DEF Tick, inputs, tables, ghosts
<1>2. CASE NoDigest
  BY <1>2 DEF NoDigest, inputs, tables, memory, ghosts
<1>3. CASE AbandonDigest
  BY <1>0, <1>3 DEF AbandonDigest, inputs, tables, ghosts
<1>4. CASE CollectDigest
  BY <1>4 DEF CollectDigest, inputs, tables, ghosts
<1>5. CASE SendDigest
  <2>1. digests' \in [0..Day(MaxNow) -> Nat]
    BY <1>5 DEF SendDigest, DigestDelivered
  <2>2. nextDigest' \in Nat
    BY <1>0, <1>5 DEF SendDigest, NextDigest
  <2>3. faults' \in 0..MaxFaults /\ trouble' \in BOOLEAN
    BY <1>5, <1>f DEF SendDigest
  <2> QED
    BY <1>5, <2>1, <2>2, <2>3 DEF SendDigest, inputs, tables
<1>6. CASE StartPass
  BY <1>6 DEF StartPass, inputs, tables
<1>7. CASE EndReconcile
  BY <1>0, <1>7 DEF EndReconcile, inputs, ghosts
<1>8. CASE ListUpcomingEvents
  BY <1>8 DEF ListUpcomingEvents, inputs, tables, ghosts
<1>9. CASE SendReminder
  <2>0. ReminderDelivered => reminders' \in [Meetings \X Start -> Nat]
    BY <1>9, Delivery DEF SendReminder, Loops
  <2>1. reminders' \in [Meetings \X Start -> Nat]
    BY <1>9, <2>0 DEF SendReminder
  <2>2. faults' \in 0..MaxFaults /\ trouble' \in BOOLEAN
    BY <1>9, <1>f DEF SendReminder
  <2>3. pc' \in Phases /\ cur' \in Reminder \cup {None}
    BY <1>9 DEF SendReminder
  <2> QED
    BY <1>9, <2>1, <2>2, <2>3 DEF SendReminder, inputs, tables
<1>10. CASE RecordReminder
  <2>1. cur \in Reminder
    BY <1>10 DEF RecordReminder, Loops, Current
  <2> QED
    BY <1>10, <2>1 DEF RecordReminder, MarkReminderSent, inputs, ghosts
<1>11. CASE EndReminders
  BY <1>11 DEF EndReminders, inputs, tables, memory, ghosts
<1>12. ASSUME NEW e \in Event, SyncCalendar(e)
       PROVE  TypeOK'
  <2>1. known' \in [Event -> Known]
    BY <1>12, PassesTyped DEF SyncCalendar, Read
  <2>2. skipped' \subseteq Event
    BY <1>12 DEF SyncCalendar
  <2>3. /\ dirty' \subseteq Event /\ (todo' \subseteq Event \/ todo' \subseteq Reminder)
        /\ UNCHANGED <<now, truth, edits, sent, pc, nextDigest, nextReconcile, asof, cur,
                        faults, trouble, reminders, digests>>
    BY <1>12 DEF SyncCalendar, Read, inputs
  <2> QED
    BY <2>1, <2>2, <2>3
<1>13. ASSUME NEW r \in Reminder, CheckReminder(r)
       PROVE  TypeOK'
  BY <1>13 DEF CheckReminder, MarkReminderSent, inputs, ghosts
<1>14. CASE Slow
  BY <1>14 DEF Slow, Fault, inputs, tables, memory
<1>15. ASSUME Dies
       PROVE  /\ nextDigest' \in Nat /\ nextReconcile' \in Nat /\ asof' \in 0..MaxNow
              /\ todo' = {} /\ cur' = None /\ pc' = "down" /\ faults' \in 0..MaxFaults
              /\ trouble' \in BOOLEAN
              /\ UNCHANGED <<now, truth, edits, dirty, sent, skipped, reminders, digests>>
  BY <1>15 DEF Dies, Fault, inputs
<1>16. CASE Crash
  BY <1>15, <1>16 DEF Crash
<1>17. CASE Restart
  BY <1>0, <1>17 DEF Restart, Boots, inputs, tables, ghosts
<1>18. ASSUME NEW e \in Event, UserEdits(e)
       PROVE  TypeOK'
  BY <1>18 DEF UserEdits, tables, memory, ghosts
<1>19. ASSUME NEW e \in Event, SyncFails(e)
       PROVE  TypeOK'
  <2>1. known' \in [Event -> Known]
    BY <1>19, PassesTyped DEF SyncFails
  <2> QED
    BY <1>f, <1>19, <2>1 DEF SyncFails, inputs
<1>21. ASSUME NEW e \in Event, SkipsTarget(e)
       PROVE  TypeOK'
  <2>1. PICK k \in Passes(e) \cup Halfway(e) : Read(e, k)
    BY <1>21 DEF SkipsTarget, Halfway
  <2>2. known' \in [Event -> Known]
    BY <2>1, PassesTyped DEF Read
  <2>3. skipped' \subseteq Event /\ Fault
    BY <1>21 DEF SkipsTarget
  <2>4. /\ dirty' \subseteq Event /\ (todo' \subseteq Event \/ todo' \subseteq Reminder)
        /\ UNCHANGED <<now, truth, edits, sent, pc, nextDigest, nextReconcile, asof, cur,
                        reminders, digests>>
    BY <2>1 DEF Read, inputs
  <2> QED
    BY <1>f, <2>2, <2>3, <2>4 DEF Fault
<1>20. ASSUME NEW e \in Event, CrashInSync(e)
       PROVE  TypeOK'
  <2>1. known' \in [Event -> Known]
    BY <1>20, PassesTyped DEF CrashInSync
  <2> QED
    BY <1>15, <1>20, <2>1 DEF CrashInSync
<1> QED
  BY <1>1, <1>2, <1>3, <1>4, <1>5, <1>6, <1>7, <1>8, <1>9, <1>10, <1>11, <1>12, <1>13,
     <1>14, <1>16, <1>17, <1>18, <1>19, <1>20, <1>21 DEF Next, Run

\* A step that changes nothing keeps them too.
LEMMA TypeStepOrStutter == TypeOK /\ Loops /\ [Next]_vars => TypeOK'
<1>1. ASSUME TypeOK, UNCHANGED vars PROVE TypeOK'
  BY <1>1 DEF TypeOK, vars, inputs, tables, memory, ghosts
<1> QED
  BY <1>1, TypeStep

-----------------------------------------------------------------------------
\* A process starts outside checkReminders.
LEMMA LoopsInit == Init => Loops
BY DEF Init, Loops, Checking

\* Outside the loops of a pass and of checkReminders there is nothing to show.
LEMMA OutOfLoops ==
  ASSUME pc' \in {"wait", "digest", "sendDigest", "reconcile", "down"}
  PROVE  Loops'
BY DEF Loops, Checking

\* Nothing that checkReminders works with has changed.
LEMMA SameView ==
  ASSUME Loops, UNCHANGED <<known, asof>>, NEW r, Current(r)
  PROVE  Current(r)'
BY DEF Current

\* Only the steps of checkReminders change what it works with.
LEMMA LoopsStep ==
  ASSUME TypeOK, Loops, Next
  PROVE  Loops'
<1>t. now \in Nat /\ asof \in Nat
  BY ConstantsAssumption DEF TypeOK
<1>1. CASE Tick \/ NoDigest \/ AbandonDigest \/ CollectDigest \/ SendDigest
           \/ EndReminders \/ Crash \/ \E e \in Event : CrashInSync(e)
  BY <1>1, OutOfLoops DEF Tick, NoDigest, AbandonDigest, CollectDigest, SendDigest,
     EndReminders, Crash, CrashInSync, Dies
<1>2. CASE StartPass \/ EndReconcile \/ Restart
  BY <1>2 DEF StartPass, EndReconcile, Restart, Boots, Loops, Checking
<1>3. ASSUME NEW e \in Event, SyncCalendar(e) \/ SkipsTarget(e) \/ SyncFails(e)
      PROVE  Loops'
  <2>1. pc \in {"tick", "resync"} /\ pc' = pc /\ todo' = todo \ {e}
    BY <1>3 DEF SyncCalendar, SkipsTarget, SyncFails, Read, InPass
  <2> QED
    BY <2>1 DEF Loops, Checking
<1>4. CASE ListUpcomingEvents
  BY <1>4, <1>t DEF ListUpcomingEvents, tables, Upcoming, Loops, Checking, Current
<1>5. CASE Slow
  <2>1. UNCHANGED <<known, asof, sent, pc, todo, cur>> /\ asof <= now => asof' <= now'
    BY <1>5, <1>t DEF Slow, tables, memory
  <2>2. Checking => asof' <= now'
    BY <1>5, <1>t DEF Slow, tables, memory, Loops
  <2> QED
    BY <1>5, <2>2 DEF Slow, tables, memory, Loops, Checking, Current, HasReminderForICalUID
<1>6. ASSUME NEW e \in Event, UserEdits(e)
      PROVE  Loops'
  BY <1>6 DEF UserEdits, tables, memory, Loops, Checking, Current, HasReminderForICalUID
<1>7. CASE SendReminder
  BY <1>7 DEF SendReminder, tables, Loops, Checking, Current
<1>8. CASE RecordReminder
  BY <1>8 DEF RecordReminder, Loops, Checking, Current
<1>9. ASSUME NEW r \in Reminder, CheckReminder(r)
      PROVE  Loops'
  <2>1. /\ asof' <= now' /\ Current(r)' /\ \A q \in todo' : Current(q)'
        /\ pc' \in {"remind", "send"}
    BY <1>9 DEF CheckReminder, First, Loops, Checking, Current
  <2>2. pc' = "send" => cur' = r /\ sent' = sent /\ ~HasReminderForICalUID(r)
    BY <1>9 DEF CheckReminder
  <2> QED
    BY <2>1, <2>2 DEF Loops, Checking, HasReminderForICalUID
<1> QED
  BY <1>1, <1>2, <1>3, <1>4, <1>5, <1>6, <1>7, <1>8, <1>9 DEF Next, Run

-----------------------------------------------------------------------------
(***************************************************************************)
(* MappedIsTrue.                                                           *)
(***************************************************************************)
LEMMA MappedInit == Init => MappedIsTrue
BY KnownFacts DEF Init, MappedIsTrue, Nothing

\* The clock a pass or a check goes by never runs back.
LEMMA ClockForward ==
  ASSUME TypeOK, Loops, Next
  PROVE  Clock \in Nat /\ Clock' \in Nat /\ Clock <= Clock'
<1>1. TypeOK' /\ Loops'
  BY TypeStep, LoopsStep
<1>2. /\ now \in Nat /\ asof \in Nat /\ now' \in Nat /\ asof' \in Nat
      /\ Checking => asof <= now
  BY <1>1, ConstantsAssumption DEF TypeOK, Loops
<1>3. now <= now'
  BY <1>2 DEF Next, Run, Tick, NoDigest, AbandonDigest, CollectDigest, SendDigest, StartPass,
     EndReconcile, ListUpcomingEvents, SendReminder, RecordReminder, EndReminders,
     SyncCalendar, SkipsTarget, Read, CheckReminder, Slow, Crash, Dies, Restart, UserEdits, SyncFails, CrashInSync
<1>4. Checking /\ Checking' => asof' = asof
  BY <1>2 DEF Next, Run, Tick, NoDigest, AbandonDigest, CollectDigest, SendDigest, StartPass,
     EndReconcile, ListUpcomingEvents, SendReminder, RecordReminder, EndReminders, Checking,
     SyncCalendar, SkipsTarget, Read, CheckReminder, Slow, Crash, Dies, Restart, UserEdits, SyncFails, CrashInSync,
     InPass, memory
<1>5. ~Checking /\ Checking' => asof' = now
  BY <1>2 DEF Next, Run, Tick, NoDigest, AbandonDigest, CollectDigest, SendDigest, StartPass,
     EndReconcile, ListUpcomingEvents, SendReminder, RecordReminder, EndReminders, Checking,
     SyncCalendar, SkipsTarget, Read, CheckReminder, Slow, Crash, Dies, Restart, UserEdits, SyncFails, CrashInSync,
     InPass, memory, Boots
<1> QED
  BY <1>2, <1>3, <1>4, <1>5 DEF Clock

\* What MappedIsTrue says of one event.
TrueOf(k, t, c) == k.mapped => k.start \in {t, Gone} \/ k.start < c

\* Whatever a complete pass writes is true or unmapped; a row that it does not
\* look at stays as it was.
LEMMA PassIsTrue ==
  ASSUME TypeOK, MappedIsTrue, NEW e \in Event, InPass(e), NEW k \in Passes(e)
  PROVE  TrueOf(k, truth[e], now) \/ (~LookedAt(e, k) /\ Skipped(e))
<1> DEFINE t == truth[e]
           old == known[e]
<1>1. t \in Start \cup {Gone, Free} /\ old \in Known /\ now \in Nat
  BY PassesTyped, ConstantsAssumption DEF TypeOK
<1>2. old.start \in Int /\ old.mapped \in BOOLEAN
  BY <1>1, ConstantsAssumption DEF Known
<1>3. EndsBeforeWindow(old.start) => old.start < now
  BY <1>1, <1>2 DEF EndsBeforeWindow
<1>4. TrueOf(Nothing, t, now) /\ (~old.mapped => TrueOf(old, t, now))
      /\ TrueOf([old EXCEPT !.mapped = FALSE], t, now)
  BY <1>1, KnownFacts DEF TrueOf
<1>5. Alive(t) => TrueOf([start |-> t, mapped |-> TRUE], t, now)
  BY DEF TrueOf
<1>6. TrueOf(processEvent(t, old), t, now)
  <2>1. CASE t = Gone
    BY <1>4, <2>1 DEF processEvent, Alive
  <2>2. CASE t = Free
    BY <1>4, <2>2 DEF processEvent, Alive
  <2>3. CASE Alive(t)
    BY <1>5, <2>3 DEF processEvent, Alive
  <2>4. CASE t \in Start /\ ~Alive(t)
    BY <1>3, <1>4, <2>4 DEF processEvent, TrueOf
  <2> QED
    BY <1>1, <2>1, <2>2, <2>3, <2>4
<1>7. TrueOf(fullResync(t, old), t, now)
  BY <1>3, <1>4, <1>6 DEF fullResync, Vanished, TrueOf
<1>8. ASSUME pc = "tick", k = Incremental(e)
      PROVE  TrueOf(k, t, now) \/ (~LookedAt(e, k) /\ Skipped(e))
  <2>1. CASE e \in dirty
    BY <1>6, <1>8, <2>1 DEF Incremental
  <2>2. CASE e \notin dirty
    <3>1. k = old /\ ~LookedAt(e, k)
      BY <1>8, <2>2 DEF Incremental, LookedAt
    <3>2. TrueOf(old, t, now) \/ Skipped(e)
      BY <1>8, <2>2 DEF MappedIsTrue, TrueOf, Clock, Checking
    <3> QED
      BY <3>1, <3>2
  <2> QED
    BY <2>1, <2>2
<1> QED
  BY <1>7, <1>8 DEF Passes, Full

\* And so is whatever is left where a pass is cut.
LEMMA HalfIsTrue ==
  ASSUME TypeOK, MappedIsTrue, NEW e \in Event, InPass(e), NEW k \in Halfway(e)
  PROVE  k = known[e] \/ TrueOf(k, truth[e], now)
<1>1. known[e] \in Known
  BY DEF TypeOK
<1>2. CASE k \in Passes(e)
  BY <1>2, PassIsTrue DEF LookedAt
<1>3. CASE Alive(truth[e]) /\ k \notin Passes(e)
  <2>1. truth[e] \in Start
    BY <1>3 DEF Alive
  <2>2. \/ k = known[e] \/ k = [known[e] EXCEPT !.start = truth[e]]
        \/ k = [start |-> truth[e], mapped |-> TRUE]
    BY <1>3 DEF Halfway
  <2>3. [known[e] EXCEPT !.start = truth[e]].start = truth[e]
    BY <1>1, <2>1 DEF Known
  <2>4. [start |-> truth[e], mapped |-> TRUE].start = truth[e]
    OBVIOUS
  <2> QED
    BY <2>2, <2>3, <2>4 DEF TrueOf
<1>4. CASE ~Alive(truth[e]) /\ k \notin Passes(e)
  <2>1. k = known[e] \/ k = [known[e] EXCEPT !.mapped = FALSE]
    BY <1>4 DEF Halfway
  <2>2. ~[known[e] EXCEPT !.mapped = FALSE].mapped
    BY <1>1 DEF Known
  <2>3. k = known[e] \/ ~k.mapped
    BY <2>1, <2>2
  <2> QED
    BY <2>3 DEF TrueOf
<1> QED
  BY <1>2, <1>3, <1>4

\* A step changes what the store has of one event at most, and writes the truth
\* unless it skips the deletion; Reconcile starts with everything skipped ahead.
LEMMA MappedStep ==
  ASSUME TypeOK, Loops, MappedIsTrue, Next
  PROVE  MappedIsTrue'
<1> DEFINE Goal == \A f \in Event \ dirty' :
                     TrueOf(known'[f], truth'[f], Clock') \/ Skipped(f)'
<1>c. Clock \in Nat /\ Clock' \in Nat /\ Clock <= Clock'
  BY ClockForward
<1>k. \A f \in Event : known[f] \in Known /\ known[f].start \in Int
  BY ConstantsAssumption DEF TypeOK, Known
<1>m. \A f \in Event \ dirty : TrueOf(known[f], truth[f], Clock) \/ Skipped(f)
  BY DEF MappedIsTrue, TrueOf
<1>n. \A f \in Event \ dirty : TrueOf(known[f], truth[f], Clock') \/ Skipped(f)
  BY <1>c, <1>k, <1>m DEF TrueOf
\* it is enough to look at the events the step is about
<1>s. SUFFICES Goal
  BY DEF MappedIsTrue, TrueOf
<1>f. ASSUME Fault, NEW f \in skipped' PROVE Skipped(f)'
  BY <1>f DEF Fault, Skipped
<1>1. ASSUME UNCHANGED <<known, truth, dirty>>, \A f \in Event : Skipped(f) => Skipped(f)'
      PROVE  Goal
  BY <1>1, <1>n
<1>2. ASSUME NEW e \in Event, UserEdits(e)
      PROVE  Goal
  <2>1. UNCHANGED <<known, pc, todo, trouble, skipped>> /\ dirty' = dirty \cup {e}
    BY <1>2 DEF UserEdits, tables, memory, ghosts
  <2>2. \A f \in Event : f # e => truth'[f] = truth[f]
    BY <1>2 DEF UserEdits, TypeOK
  <2>3. \A f \in Event : Skipped(f)' <=> Skipped(f)
    BY <2>1 DEF Skipped
  <2> QED
    BY <1>n, <2>1, <2>2, <2>3
<1>3. ASSUME NEW e \in Event, SyncCalendar(e)
      PROVE  Goal
  <2>1. PICK k \in Passes(e) :
          /\ Read(e, k)
          /\ skipped' = IF LookedAt(e, k) THEN skipped \ {e} ELSE skipped
    BY <1>3 DEF SyncCalendar
  <2>2. /\ UNCHANGED <<truth, pc, trouble>> /\ dirty' = dirty \ {e} /\ todo' = todo \ {e}
        /\ pc \in {"tick", "resync"}
    BY <1>3, <2>1 DEF SyncCalendar, Read, InPass, inputs
  <2>3. k \in Known /\ (TrueOf(k, truth[e], now) \/ (~LookedAt(e, k) /\ Skipped(e)))
    BY <1>3, PassesTyped, PassIsTrue DEF SyncCalendar
  <2>4. Clock' = now
    BY <1>3, <2>1 DEF Read, SyncCalendar, InPass, Clock, Checking
  <2>5. known'[e] = k /\ \A f \in Event : f # e => known'[f] = known[f]
    BY <2>1, <2>3, PassTyped DEF Read
  <2>6. ASSUME ~LookedAt(e, k), Skipped(e) PROVE Skipped(e)'
    BY <2>1, <2>2, <2>6 DEF Skipped, LookedAt
  <2>7. \A f \in Event : f # e /\ Skipped(f) => Skipped(f)'
    BY <2>1, <2>2 DEF Skipped
  <2> QED
    BY <1>n, <2>2, <2>3, <2>4, <2>5, <2>6, <2>7
<1>4. ASSUME NEW e \in Event, SkipsTarget(e)
      PROVE  Goal
  <2>0. Fault /\ InPass(e)
    BY <1>4 DEF SkipsTarget
  <2>1. PICK k \in Known :
          /\ Read(e, k)
          /\ \/ skipped' = skipped \cup {e}
             \/ /\ skipped' = skipped \ {e}
                /\ k = Nothing \/ k.start = truth[e]
    BY <1>4, PassesTyped DEF SkipsTarget
  <2>2. UNCHANGED truth /\ dirty' = dirty \ {e}
    BY <2>1 DEF Read, inputs
  <2>3. known'[e] = k /\ \A f \in Event : f # e => known'[f] = known[f]
    BY <2>1, PassTyped DEF Read
  <2>4. \A f \in Event : f # e /\ Skipped(f) => Skipped(f)'
    BY <1>f, <2>0, <2>1 DEF Skipped
  <2>5. TrueOf(known'[e], truth'[e], Clock') \/ Skipped(e)'
    <3>1. CASE skipped' = skipped \cup {e}
      BY <1>f, <2>0, <3>1
    <3>2. CASE k = Nothing \/ k.start = truth[e]
      BY <2>2, <2>3, <3>2, KnownFacts DEF TrueOf
    <3> QED
      BY <2>1, <3>1, <3>2
  <2> QED
    BY <1>n, <2>2, <2>3, <2>4, <2>5
<1>5. ASSUME NEW e \in Event, SyncFails(e) \/ CrashInSync(e)
      PROVE  Goal
  <2>1. PICK k \in Halfway(e) : known' = [known EXCEPT ![e] = k]
    BY <1>5 DEF SyncFails, CrashInSync
  <2>2. known'[e] = k /\ \A f \in Event : f # e => known'[f] = known[f]
    BY <2>1, PassesTyped, PassTyped
  <2>3. UNCHANGED <<now, truth, dirty, skipped>> /\ Fault /\ InPass(e)
    BY <1>5 DEF SyncFails, CrashInSync, Dies, inputs
  <2>4. \A f \in Event : Skipped(f) => Skipped(f)'
    BY <1>f, <2>3 DEF Skipped
  <2>5. k = known[e] \/ TrueOf(k, truth[e], now)
    BY <2>3, HalfIsTrue
  <2>6. Clock = now
    BY <2>3 DEF InPass, Clock, Checking
  <2>7. k = known[e] \/ TrueOf(k, truth[e], Clock')
    <3>1. k.start \in Int
      BY PassesTyped, ConstantsAssumption DEF Known
    <3> QED
      BY <1>c, <2>5, <2>6, <3>1 DEF TrueOf
  <2> QED
    BY <1>n, <2>2, <2>3, <2>4, <2>7
<1>6. CASE Slow \/ Crash
  <2>1. UNCHANGED <<known, truth, dirty, skipped>> /\ Fault
    BY <1>6 DEF Slow, Crash, Dies, inputs, tables
  <2>2. \A f \in Event : Skipped(f) => Skipped(f)'
    BY <1>f, <2>1 DEF Skipped
  <2> QED
    BY <1>1, <2>1, <2>2
<1>7. CASE StartPass
  <2>1. UNCHANGED <<known, truth, dirty, skipped>>
    BY <1>7 DEF StartPass, inputs, tables
  <2>2. \A f \in Event : Skipped(f) => Skipped(f)'
    BY <1>7 DEF StartPass, Skipped
  <2> QED
    BY <1>1, <2>1, <2>2
<1>8. CASE \/ Tick \/ NoDigest \/ AbandonDigest \/ CollectDigest \/ SendDigest
           \/ EndReconcile \/ ListUpcomingEvents \/ SendReminder \/ RecordReminder
           \/ EndReminders \/ Restart \/ \E r \in Reminder : CheckReminder(r)
  <2>1. UNCHANGED <<known, truth, dirty, skipped>>
    BY <1>8 DEF Tick, NoDigest, AbandonDigest, CollectDigest, SendDigest, EndReconcile,
       ListUpcomingEvents, SendReminder, RecordReminder, EndReminders, CheckReminder, Restart,
       inputs, tables, ghosts
  <2>2. trouble' \in {trouble, TRUE} /\ (pc = "resync" => todo = {})
    BY <1>8 DEF Tick, NoDigest, AbandonDigest, CollectDigest, SendDigest, EndReconcile,
       ListUpcomingEvents, SendReminder, RecordReminder, EndReminders, CheckReminder, Restart,
       Fault, ghosts
  <2>3. \A f \in Event : Skipped(f) => Skipped(f)'
    BY <2>1, <2>2 DEF Skipped
  <2> QED
    BY <1>1, <2>1, <2>3
<1> QED
  BY <1>2, <1>3, <1>4, <1>5, <1>6, <1>7, <1>8 DEF Next, Run

-----------------------------------------------------------------------------
(***************************************************************************)
(* Accounted.                                                              *)
(***************************************************************************)
LEMMA AccountedInit == Init => Accounted
<1>1. ASSUME Init, NEW m \in Meetings, NEW s \in Start
      PROVE  reminders[<<m, s>>] = 0 /\ faults = 0
  BY <1>1 DEF Init
<1>2. ASSUME Init, NEW m \in Meetings, NEW s \in Start
      PROVE  reminders[<<m, s>>] <= 1 + faults /\ ~(reminders[<<m, s>>] > faults)
  BY <1>1, <1>2
<1> QED
  BY <1>2 DEF Accounted

\* What Accounted says of one meeting and start.
LEMMA AccountedOf ==
  ASSUME TypeOK, Accounted, NEW m \in Meetings, NEW s \in Start
  PROVE  /\ reminders[<<m, s>>] \in Nat /\ faults \in Nat /\ s \in Nat
         /\ reminders[<<m, s>>] <= 1 + faults
         /\ reminders[<<m, s>>] > faults =>
              \/ Recorded(m, s)
              \/ pc = "mark" /\ m = Meeting(cur.e) /\ s = cur.start
              \/ s <= Clock
BY ConstantsAssumption DEF TypeOK, Accounted

\* A failure pays for every delivery so far.
LEMMA FaultPays ==
  ASSUME TypeOK, Accounted, Fault, UNCHANGED reminders
  PROVE  Accounted'
<1> SUFFICES ASSUME NEW m \in Meetings, NEW s \in Start
             PROVE  /\ reminders'[<<m, s>>] <= 1 + faults'
                    /\ ~(reminders'[<<m, s>>] > faults')
  BY DEF Accounted
<1> QED
  BY AccountedOf DEF Fault

\* A step that delivers nothing and loses no record.
LEMMA NothingLost ==
  ASSUME TypeOK, Loops, Accounted, Next, UNCHANGED <<reminders, faults>>,
         sent \subseteq sent', pc = "mark" => pc' = "mark" /\ cur' = cur
  PROVE  Accounted'
<1>1. Clock \in Nat /\ Clock' \in Nat /\ Clock <= Clock'
  BY ClockForward
<1> SUFFICES ASSUME NEW m \in Meetings, NEW s \in Start
             PROVE  /\ reminders[<<m, s>>] <= 1 + faults
                    /\ reminders[<<m, s>>] > faults =>
                         \/ Recorded(m, s)'
                         \/ pc' = "mark" /\ m = Meeting(cur'.e) /\ s = cur'.start
                         \/ s <= Clock'
  BY DEF Accounted
<1>2. Recorded(m, s) => Recorded(m, s)'
  BY DEF Recorded
<1> QED
  BY <1>1, <1>2, AccountedOf

\* A step delivers one reminder at most; one case per group of actions.
LEMMA AccountedStep ==
  ASSUME TypeOK, Loops, Accounted, Next
  PROVE  Accounted'
<1>1. CASE Slow \/ Crash \/ \E e \in Event : SkipsTarget(e) \/ SyncFails(e) \/ CrashInSync(e)
  BY <1>1, FaultPays DEF Slow, Crash, SkipsTarget, Read, SyncFails, CrashInSync, Dies
<1>2. CASE Tick \/ NoDigest \/ AbandonDigest \/ CollectDigest \/ StartPass
           \/ ListUpcomingEvents \/ EndReminders \/ Restart
           \/ \E e \in Event : SyncCalendar(e) \/ UserEdits(e)
  BY <1>2, NothingLost DEF Tick, NoDigest, AbandonDigest, CollectDigest, StartPass,
     ListUpcomingEvents, EndReminders, Restart, Boots, SyncCalendar, Read, InPass, UserEdits,
     tables, memory, ghosts
<1>3. CASE SendDigest
  <2>1. CASE Fault
    BY <1>3, <2>1, FaultPays DEF SendDigest
  <2>2. CASE UNCHANGED faults
    BY <1>3, <2>2, NothingLost DEF SendDigest, tables
  <2> QED
    BY <1>3, <2>1, <2>2 DEF SendDigest
<1>4. ASSUME NEW r \in Reminder, CheckReminder(r)
      PROVE  Accounted'
  BY <1>4, NothingLost DEF CheckReminder, MarkReminderSent, ghosts
\* Reconcile drops records of starts that are over.
<1>5. CASE EndReconcile
  <2>1. Clock' = now /\ Clock = now /\ now \in Nat /\ Retention \in Nat
    BY <1>5, ConstantsAssumption DEF EndReconcile, Clock, Checking, TypeOK
  <2> SUFFICES ASSUME NEW m \in Meetings, NEW s \in Start
               PROVE  /\ reminders[<<m, s>>] <= 1 + faults
                      /\ reminders[<<m, s>>] > faults => Recorded(m, s)' \/ s <= now
    BY <1>5, <2>1 DEF Accounted, EndReconcile, ghosts
  <2>2. Recorded(m, s) => Recorded(m, s)' \/ s <= now
    <3>1. ASSUME NEW e \in m, [e |-> e, start |-> s] \in sent, ~(s <= now)
          PROVE  [e |-> e, start |-> s] \in sent'
      BY <1>5, <2>1, <3>1, AccountedOf DEF EndReconcile
    <3> QED
      BY <3>1 DEF Recorded
  <2> QED
    BY <1>5, <2>1, <2>2, AccountedOf DEF EndReconcile
<1>6. CASE RecordReminder
  <2>1. cur \in Reminder /\ cur \in sent' /\ sent \subseteq sent'
    BY <1>6 DEF RecordReminder, MarkReminderSent, Loops, Current
  <2>2. cur = [e |-> cur.e, start |-> cur.start] /\ cur.e \in Meeting(cur.e)
    BY <2>1, MeetingFacts DEF Reminder
  <2>3. \E e \in Meeting(cur.e) : [e |-> e, start |-> cur.start] \in sent'
    BY <2>1, <2>2
  <2>4. Clock' = Clock /\ UNCHANGED <<reminders, faults>>
    BY <1>6 DEF RecordReminder, Clock, Checking, ghosts
  <2> SUFFICES ASSUME NEW m \in Meetings, NEW s \in Start
               PROVE  /\ reminders[<<m, s>>] <= 1 + faults
                      /\ reminders[<<m, s>>] > faults => Recorded(m, s)' \/ s <= Clock
    BY <2>4 DEF Accounted
  <2>5. Recorded(m, s) \/ (m = Meeting(cur.e) /\ s = cur.start) => Recorded(m, s)'
    BY <2>1, <2>3 DEF Recorded
  <2> QED
    BY <2>5, AccountedOf
\* The key of what is being sent had no delivery that was not paid for.
<1>7. CASE SendReminder
  <2>1. Current(cur) /\ ~HasReminderForICalUID(cur) /\ asof \in Nat /\ Clock = asof
    BY <1>7, ConstantsAssumption DEF SendReminder, Loops, Clock, Checking, TypeOK
  <2>2. /\ cur \in Reminder /\ cur.e \in Event /\ cur.start \in Start /\ cur.start > asof
        /\ Meeting(cur.e) \in Meetings
    BY <2>1, MeetingFacts DEF Current, Reminder
  <2>3. ~Recorded(Meeting(cur.e), cur.start)
    <3>1. \A e : [cur EXCEPT !.e = e] = [e |-> e, start |-> cur.start]
      BY <2>2 DEF Reminder
    <3> QED
      BY <2>1, <3>1 DEF Recorded, HasReminderForICalUID
  <2>4. reminders[<<Meeting(cur.e), cur.start>>] <= faults
    <3> DEFINE n == reminders[<<Meeting(cur.e), cur.start>>]
    <3>1. /\ n \in Nat /\ faults \in Nat
          /\ n > faults => cur.start <= Clock
      BY <1>7, <2>2, <2>3, AccountedOf DEF SendReminder
    <3> QED
      BY <2>1, <2>2, <3>1
  <2>5. CASE Fault /\ UNCHANGED reminders
    BY <2>5, FaultPays
  <2>6. CASE Fault /\ ReminderDelivered
    <3> SUFFICES ASSUME NEW m \in Meetings, NEW s \in Start
                 PROVE  /\ reminders'[<<m, s>>] <= 1 + faults'
                        /\ ~(reminders'[<<m, s>>] > faults')
      BY DEF Accounted
    <3>1. /\ reminders[<<m, s>>] \in Nat /\ faults \in Nat /\ faults' = faults + 1
          /\ reminders[<<m, s>>] <= 1 + faults
      BY <2>6, AccountedOf DEF Fault
    <3>2. CASE m = Meeting(cur.e) /\ s = cur.start
      <4>1. reminders'[<<m, s>>] = reminders[<<m, s>>] + 1 /\ reminders[<<m, s>>] <= faults
        BY <2>1, <2>4, <2>6, <3>2, Delivery
      <4> QED
        BY <3>1, <4>1
    <3>3. CASE ~(m = Meeting(cur.e) /\ s = cur.start)
      <4>1. reminders'[<<m, s>>] = reminders[<<m, s>>]
        BY <2>1, <2>6, <3>3, Delivery
      <4> QED
        BY <3>1, <4>1
    <3> QED
      BY <3>2, <3>3
  <2>7. CASE ReminderDelivered /\ pc' = "mark" /\ UNCHANGED faults
    <3>1. Clock' = Clock /\ UNCHANGED <<sent, cur>> /\ pc # "mark"
      BY <1>7, <2>7 DEF SendReminder, Clock, Checking, tables
    <3> SUFFICES ASSUME NEW m \in Meetings, NEW s \in Start
                 PROVE  /\ reminders'[<<m, s>>] <= 1 + faults
                        /\ reminders'[<<m, s>>] > faults =>
                             \/ Recorded(m, s)
                             \/ m = Meeting(cur.e) /\ s = cur.start
                             \/ s <= Clock
      BY <2>7, <3>1 DEF Accounted, Recorded
    <3>2. CASE m = Meeting(cur.e) /\ s = cur.start
      <4>1. /\ reminders'[<<m, s>>] = reminders[<<m, s>>] + 1 /\ reminders[<<m, s>>] <= faults
            /\ reminders[<<m, s>>] \in Nat /\ faults \in Nat
        BY <2>1, <2>4, <2>7, <3>2, Delivery, AccountedOf
      <4> QED
        BY <3>2, <4>1
    <3>3. CASE ~(m = Meeting(cur.e) /\ s = cur.start)
      <4>1. reminders'[<<m, s>>] = reminders[<<m, s>>]
        BY <2>1, <2>7, <3>3, Delivery
      <4> QED
        BY <3>1, <4>1, AccountedOf
    <3> QED
      BY <3>2, <3>3
  <2> QED
    BY <1>7, <2>5, <2>6, <2>7 DEF SendReminder
<1> QED
  BY <1>1, <1>2, <1>3, <1>4, <1>5, <1>6, <1>7 DEF Next, Run

-----------------------------------------------------------------------------
(***************************************************************************)
(* Days and their deadlines.                                               *)
(***************************************************************************)
\* The deadline of the digest of day d.
At(d) == d * DayLength + DigestAt

\* A day is DayLength polling intervals.
LEMMA DayBounds ==
  ASSUME NEW t \in Nat
  PROVE  /\ Day(t) \in Nat /\ Day(t) * DayLength \in Nat
         /\ Day(t) * DayLength <= t /\ t < Day(t) * DayLength + DayLength
<1>1. ASSUME NEW l \in Nat \ {0}
      PROVE  t \div l \in Nat /\ (t \div l) * l \in Nat
             /\ (t \div l) * l <= t /\ t < (t \div l) * l + l
  OBVIOUS
<1> QED
  BY <1>1, ConstantsAssumption DEF Day

\* A later day is at least one day later.
LEMMA LaterDay ==
  ASSUME NEW d \in Nat, NEW f \in Nat
  PROVE  /\ d * DayLength \in Nat
         /\ (d + 1) * DayLength = d * DayLength + DayLength
         /\ d < f => d * DayLength + DayLength <= f * DayLength
<1>1. ASSUME NEW l \in Nat
      PROVE  /\ d * l \in Nat
             /\ (d + 1) * l = d * l + l
             /\ d < f => d * l + l <= f * l
  <2>1. d * l \in Nat
    OBVIOUS
  <2>2. (d + 1) * l = d * l + l
    OBVIOUS
  <2>3. ASSUME d < f PROVE d * l + l <= f * l
    <3>1. PICK g \in Nat : f = d + 1 + g
      <4>1. f - d - 1 \in Nat /\ f = d + 1 + (f - d - 1)
        BY <2>3
      <4> QED
        BY <4>1
    <3>2. f * l = d * l + l + g * l /\ g * l \in Nat
      BY <3>1
    <3> QED
      BY <2>1, <3>2
  <2> QED
    BY <2>1, <2>2, <2>3
<1> QED
  BY <1>1, ConstantsAssumption

\* The only day whose bounds hold a time is its day.
LEMMA DayOf ==
  ASSUME NEW t \in Nat, NEW d \in Nat,
         d * DayLength <= t, t < d * DayLength + DayLength
  PROVE  Day(t) = d
<1>1. PICK q \in Nat : q = Day(t)
  BY DayBounds
<1>2. q * DayLength \in Nat /\ q * DayLength <= t /\ t < q * DayLength + DayLength
  BY <1>1, DayBounds
<1>3. /\ q < d => q * DayLength + DayLength <= d * DayLength
      /\ d < q => d * DayLength + DayLength <= q * DayLength
      /\ d * DayLength \in Nat /\ DayLength \in Nat
  BY LaterDay, ConstantsAssumption
<1>4. ~(q < d) /\ ~(d < q)
  BY <1>2, <1>3
<1> QED
  BY <1>1, <1>4

\* The deadline of a day falls on it, a day after the one before.
LEMMA AtFacts ==
  ASSUME NEW d \in Nat
  PROVE  /\ At(d) \in Nat /\ Day(At(d)) = d /\ At(d + 1) = At(d) + DayLength
         /\ d * DayLength <= At(d) /\ At(d) < d * DayLength + DayLength
<1>1. /\ d * DayLength \in Nat /\ (d + 1) * DayLength = d * DayLength + DayLength
      /\ DayLength \in Nat /\ DigestAt \in 0..(DayLength - 1)
  BY LaterDay, ConstantsAssumption
<1>2. At(d) \in Nat /\ d * DayLength <= At(d) /\ At(d) < d * DayLength + DayLength
  BY <1>1 DEF At
<1>3. At(d + 1) = At(d) + DayLength
  BY <1>1 DEF At
<1> QED
  BY <1>2, <1>3, DayOf

\* A deadline is over exactly when its day is, or is on and past its time.
LEMMA AtOrder ==
  ASSUME NEW t \in Nat, NEW d \in Nat
  PROVE  /\ d < Day(t) => At(d) < t
         /\ At(d) <= t => d <= Day(t)
         /\ Day(t) < d => t + 1 <= At(d)
<1>1. PICK q \in Nat : q = Day(t)
  BY DayBounds
<1>2. q * DayLength \in Nat /\ q * DayLength <= t /\ t < q * DayLength + DayLength
  BY <1>1, DayBounds
<1>3. /\ q < d => q * DayLength + DayLength <= d * DayLength
      /\ d < q => d * DayLength + DayLength <= q * DayLength
      /\ d * DayLength \in Nat /\ DayLength \in Nat
  BY LaterDay, ConstantsAssumption
<1>4. At(d) \in Nat /\ d * DayLength <= At(d) /\ At(d) < d * DayLength + DayLength
  BY AtFacts
<1> QED
  BY <1>1, <1>2, <1>3, <1>4

\* An interval later it is the same day or the first interval of the next one,
\* which is before the deadline of that day unless it is midnight.
LEMMA NextDay ==
  ASSUME NEW t \in Nat
  PROVE  \/ Day(t + 1) = Day(t)
         \/ Day(t + 1) = Day(t) + 1 /\ (DigestAt # 0 => t + 1 < At(Day(t + 1)))
<1>1. PICK q \in Nat : q = Day(t)
  BY DayBounds
<1>2. q * DayLength \in Nat /\ q * DayLength <= t /\ t < q * DayLength + DayLength
  BY <1>1, DayBounds
<1>3. DayLength \in Nat \ {0} /\ DigestAt \in 0..(DayLength - 1)
  BY ConstantsAssumption
<1>4. CASE t + 1 < q * DayLength + DayLength
  BY <1>1, <1>2, <1>4, DayOf
<1>5. CASE t + 1 = q * DayLength + DayLength
  <2>1. (q + 1) * DayLength = t + 1
    BY <1>5, LaterDay
  <2>2. Day(t + 1) = q + 1
    BY <1>3, <2>1, DayOf
  <2>3. At(q + 1) = t + 1 + DigestAt
    BY <2>1 DEF At
  <2> QED
    BY <1>1, <1>3, <2>2, <2>3
<1> QED
  BY <1>2, <1>3, <1>4, <1>5

\* The next time of day is within a day.
LEMMA NextDailySoon ==
  ASSUME NEW t \in Nat, NEW at \in 0..(DayLength - 1)
  PROVE  t < NextDaily(t, at) /\ NextDaily(t, at) <= t + DayLength
<1>1. PICK c \in Nat : c = Day(t) * DayLength
  BY DayBounds
<1>2. c <= t /\ t < c + DayLength /\ DayLength \in Nat
  BY <1>1, DayBounds, ConstantsAssumption
<1> QED
  BY <1>1, <1>2 DEF NextDaily

\* The next digest is that of today until its deadline, then that of tomorrow.
LEMMA NextDigestIs ==
  ASSUME NEW t \in Nat
  PROVE  LET n == NextDaily(t, DigestAt)
         IN  /\ n \in Nat /\ t < n /\ n = At(Day(n))
             /\ Day(n) = IF t < At(Day(t)) THEN Day(t) ELSE Day(t) + 1
<1> DEFINE n == NextDaily(t, DigestAt)
<1>1. Day(t) \in Nat /\ DigestAt \in 0..(DayLength - 1)
  BY DayBounds, ConstantsAssumption
<1>2. n \in Nat /\ t < n
  BY <1>1, NextDailyNat, NextDailySoon
<1>3. n = IF t < At(Day(t)) THEN At(Day(t)) ELSE At(Day(t)) + DayLength
  <2>1. At(Day(t)) \in Nat
    BY <1>1, AtFacts
  <2>2. n = IF At(Day(t)) > t THEN At(Day(t)) ELSE At(Day(t)) + DayLength
    BY DEF NextDaily, At
  <2> QED
    BY <2>1, <2>2
<1>4. n = At(IF t < At(Day(t)) THEN Day(t) ELSE Day(t) + 1)
  BY <1>1, <1>3, AtFacts
<1> HIDE DEF n
<1>5. Day(n) = IF t < At(Day(t)) THEN Day(t) ELSE Day(t) + 1
  BY <1>1, <1>4, AtFacts
<1>6. n = At(Day(n))
  BY <1>4, <1>5
<1> QED
  BY <1>2, <1>5, <1>6 DEF n

-----------------------------------------------------------------------------
(***************************************************************************)
(* DigestOnce: the deadline is always that of a day, and the days before   *)
(* it are those that may have had their digest.                            *)
(***************************************************************************)
Digesting ==
  /\ pc # "down" => nextDigest = At(Day(nextDigest))
  /\ pc = "sendDigest" => /\ nextDigest <= asof /\ asof <= now
                          /\ Day(asof) <= Day(nextDigest)

\* A digest that no failure pays for has moved the deadline past its day.
Announced ==
  \A d \in DOMAIN digests :
    /\ digests[d] <= 1 + faults
    /\ digests[d] > faults => pc # "down" /\ d < Day(nextDigest)

\* The clock, the deadline and the counts are numbers; days are counted up to
\* the last one the clock reaches.
LEMMA DigestTypes ==
  ASSUME TypeOK
  PROVE  /\ now \in Nat /\ asof \in Nat /\ faults \in Nat /\ nextDigest \in Nat
         /\ Day(now) \in Nat /\ Day(asof) \in Nat /\ Day(nextDigest) \in Nat
         /\ DOMAIN digests = 0..Day(MaxNow) /\ Day(MaxNow) \in Nat
         /\ \A d \in DOMAIN digests : d \in Nat /\ digests[d] \in Nat
         /\ Day(now) <= Day(MaxNow)
<1>1. now \in Nat /\ asof \in Nat /\ faults \in Nat /\ nextDigest \in Nat /\ now <= MaxNow
      /\ MaxNow \in Nat
  BY ConstantsAssumption DEF TypeOK
<1>2. Day(now) \in Nat /\ Day(asof) \in Nat /\ Day(nextDigest) \in Nat /\ Day(MaxNow) \in Nat
  BY <1>1, DayNat
<1>3. /\ DOMAIN digests = 0..Day(MaxNow)
      /\ \A d \in DOMAIN digests : d \in Nat /\ digests[d] \in Nat
  BY DEF TypeOK
<1>4. Day(now) <= Day(MaxNow)
  <2>1. Day(now) * DayLength \in Nat /\ Day(now) * DayLength <= now
    BY <1>1, DayBounds
  <2>2. /\ Day(MaxNow) * DayLength \in Nat /\ MaxNow < Day(MaxNow) * DayLength + DayLength
        /\ Day(MaxNow) < Day(now)
           => Day(MaxNow) * DayLength + DayLength <= Day(now) * DayLength
    BY <1>1, <1>2, DayBounds, LaterDay
  <2>3. DayLength \in Nat
    BY ConstantsAssumption
  <2> QED
    BY <1>1, <1>2, <2>1, <2>2, <2>3
<1> QED
  BY <1>1, <1>2, <1>3, <1>4

\* Every step but those that follow leaves the clock, the deadline and the
\* digests alone, and stays out of the digest, or where it was.
Elsewhere == {"wait", "reconcile", "resync", "tick", "remind", "send", "mark"}
Quiet ==
  /\ UNCHANGED <<now, nextDigest, digests>> /\ faults' \in {faults, faults + 1}
  /\ \/ UNCHANGED <<pc, asof>>
     \/ pc \in Elsewhere /\ pc' \in Elsewhere

\* Reconcile, the tick, the reminders and the users are quiet.
LEMMA QuietSteps ==
  ASSUME TypeOK,
         \/ StartPass \/ EndReconcile \/ ListUpcomingEvents \/ SendReminder
         \/ RecordReminder \/ EndReminders \/ UNCHANGED vars
         \/ \E r \in Reminder : CheckReminder(r)
         \/ \E e \in Event : SyncCalendar(e) \/ UserEdits(e) \/ SkipsTarget(e) \/ SyncFails(e)
  PROVE  Quiet
<1> USE DEF Quiet, Elsewhere, Fault
<1>1. CASE StartPass \/ EndReconcile \/ ListUpcomingEvents \/ EndReminders
  BY <1>1 DEF StartPass, EndReconcile, ListUpcomingEvents, EndReminders, memory, ghosts
<1>2. CASE SendReminder \/ RecordReminder \/ \E r \in Reminder : CheckReminder(r)
  BY <1>2 DEF SendReminder, RecordReminder, CheckReminder, memory, ghosts
<1>3. CASE \E e \in Event : SyncCalendar(e) \/ UserEdits(e) \/ SkipsTarget(e) \/ SyncFails(e)
  BY <1>3 DEF SyncCalendar, UserEdits, SkipsTarget, SyncFails, Read, InPass, memory, ghosts
<1>4. CASE UNCHANGED vars
  BY <1>4 DEF vars, memory, ghosts
<1> QED
  BY <1>1, <1>2, <1>3, <1>4

\* A delivery counts for the day of the deadline and for no other.
LEMMA DigestDelivery ==
  ASSUME TypeOK, Day(nextDigest) \in DOMAIN digests, DigestDelivered
  PROVE  /\ DOMAIN digests' = DOMAIN digests
         /\ \A d \in DOMAIN digests :
              digests'[d] = IF d = Day(nextDigest) THEN digests[d] + 1 ELSE digests[d]
<1>1. PICK k : k = Day(nextDigest)
  OBVIOUS
<1>2. k \in 0..Day(MaxNow) /\ digests \in [0..Day(MaxNow) -> Nat]
  BY <1>1 DEF TypeOK
<1>3. digests' = [digests EXCEPT ![k] = @ + 1]
  BY <1>1 DEF DigestDelivered
<1> QED
  BY <1>1, <1>2, <1>3

\* The first deadline is that of a day, and nothing has been sent.
LEMMA DigestInit == Init => Digesting /\ Announced
<1> SUFFICES ASSUME Init PROVE Digesting /\ Announced
  OBVIOUS
<1>1. nextDigest = At(Day(nextDigest))
  BY NextDigestIs DEF Init
<1>2. \A d \in DOMAIN digests : digests[d] = 0 /\ faults = 0
  BY DEF Init
<1> QED
  BY <1>1, <1>2 DEF Init, Digesting, Announced

\* The digest being sent is that of the day on which it was collected.
LEMMA Sending ==
  ASSUME TypeOK, Digesting, pc = "sendDigest"
  PROVE  /\ Day(asof) = Day(nextDigest) /\ nextDigest = At(Day(nextDigest))
         /\ Day(nextDigest) <= Day(now) /\ Day(nextDigest) \in DOMAIN digests
         /\ LET n == NextDaily(asof, DigestAt)
            IN  n = At(Day(n)) /\ Day(n) = Day(nextDigest) + 1 /\ n \in Nat
<1>1. /\ now \in Nat /\ asof \in Nat /\ nextDigest \in Nat
      /\ Day(now) \in Nat /\ Day(asof) \in Nat /\ Day(nextDigest) \in Nat
      /\ DOMAIN digests = 0..Day(MaxNow) /\ Day(MaxNow) \in Nat /\ Day(now) <= Day(MaxNow)
  BY DigestTypes
<1>2. /\ nextDigest = At(Day(nextDigest)) /\ nextDigest <= asof /\ asof <= now
      /\ Day(asof) <= Day(nextDigest)
  BY DEF Digesting
<1>3. Day(nextDigest) <= Day(asof) /\ Day(nextDigest) <= Day(now)
  BY <1>1, <1>2, AtOrder
<1>4. Day(asof) = Day(nextDigest) /\ At(Day(asof)) <= asof
  BY <1>1, <1>2, <1>3
<1>5. LET n == NextDaily(asof, DigestAt)
      IN  n = At(Day(n)) /\ Day(n) = Day(nextDigest) + 1 /\ n \in Nat
  <2>0. At(Day(asof)) \in Nat
    BY <1>1, AtFacts
  <2>1. ~(asof < At(Day(asof)))
    BY <1>1, <1>4, <2>0
  <2>2. LET n == NextDaily(asof, DigestAt)
        IN  n = At(Day(n)) /\ Day(n) = Day(asof) + 1 /\ n \in Nat
    BY <1>1, <2>1, NextDigestIs
  <2> QED
    BY <1>4, <2>2
<1> QED
  BY <1>1, <1>2, <1>3, <1>4, <1>5

\* The deadline only moves on, a day that was announced is behind it, and a
\* crash, after which the deadline is computed anew, is a failure.
LEMMA DigestStep ==
  ASSUME TypeOK, TypeOK', Digesting, Announced, [Next]_vars
  PROVE  Digesting' /\ Announced'
<1>1. /\ now \in Nat /\ asof \in Nat /\ faults \in Nat /\ nextDigest \in Nat
      /\ Day(now) \in Nat /\ Day(asof) \in Nat /\ Day(nextDigest) \in Nat
      /\ \A d \in DOMAIN digests : d \in Nat /\ digests[d] \in Nat
  BY DigestTypes
\* A step that delivers nothing and keeps the deadline, or moves it on.
<1>2. ASSUME UNCHANGED digests, faults' \in {faults, faults + 1},
             \/ faults' = faults + 1
             \/ pc # "down" /\ pc' # "down" /\ Day(nextDigest) <= Day(nextDigest')
             \/ pc = "down",
             Day(nextDigest') \in Nat
      PROVE  Announced'
  BY <1>1, <1>2 DEF Announced
<1>3. ASSUME Quiet PROVE Digesting' /\ Announced'
  <2>1. (pc = "down" <=> pc' = "down") /\ UNCHANGED nextDigest
    BY <1>3 DEF Quiet, Elsewhere
  <2>2. Announced'
    BY <1>1, <1>2, <1>3, <2>1 DEF Quiet
  <2>3. Digesting'
    BY <1>3, <2>1 DEF Quiet, Elsewhere, Digesting
  <2> QED
    BY <2>2, <2>3
<1>4. CASE Tick \/ NoDigest \/ CollectDigest
  <2>1. /\ UNCHANGED <<nextDigest, digests, faults>> /\ pc # "down" /\ pc' # "down"
    BY <1>4 DEF Tick, NoDigest, CollectDigest, memory, ghosts
  <2>2. Announced'
    BY <1>1, <1>2, <2>1
  <2>3. pc' = "sendDigest" => /\ nextDigest' <= asof' /\ asof' <= now'
                              /\ Day(asof') <= Day(nextDigest')
    BY <1>1, <1>4 DEF Tick, NoDigest, CollectDigest
  <2> QED
    BY <2>1, <2>2, <2>3 DEF Digesting
<1>5. CASE AbandonDigest
  <2>1. /\ nextDigest' = At(Day(nextDigest')) /\ Day(now) <= Day(nextDigest')
        /\ Day(nextDigest') \in Nat
    BY <1>1, <1>5, NextDigestIs DEF AbandonDigest
  <2>2. /\ UNCHANGED <<digests, faults>> /\ pc # "down" /\ pc' = "reconcile"
        /\ Day(nextDigest) < Day(now)
    BY <1>5 DEF AbandonDigest, ghosts
  <2>3. Announced'
    BY <1>1, <1>2, <2>1, <2>2
  <2> QED
    BY <2>1, <2>2, <2>3 DEF Digesting
<1>6. CASE SendDigest
  <2>1. /\ nextDigest = At(Day(nextDigest)) /\ Day(nextDigest) \in DOMAIN digests
        /\ LET n == NextDaily(asof, DigestAt)
           IN  n = At(Day(n)) /\ Day(n) = Day(nextDigest) + 1
    BY <1>6, Sending DEF SendDigest
  <2>2. Digesting'
    BY <1>6, <2>1 DEF SendDigest, NextDigest, Digesting
  <2>3. CASE UNCHANGED digests
    <3>1. /\ UNCHANGED nextDigest \/ Day(nextDigest') = Day(nextDigest) + 1
          /\ pc # "down" /\ pc' # "down" /\ faults' = faults + 1
      BY <1>6, <2>1, <2>3, <1>1, DigestDelivery DEF SendDigest, NextDigest, Fault
    <3>2. Day(nextDigest') \in Nat
      BY <1>1, <3>1
    <3> QED
      BY <1>2, <2>2, <2>3, <3>1, <3>2
  <2>4. CASE DigestDelivered
    <3>1. /\ DOMAIN digests' = DOMAIN digests
          /\ \A d \in DOMAIN digests :
               digests'[d] = IF d = Day(nextDigest) THEN digests[d] + 1 ELSE digests[d]
      BY <2>1, <2>4, DigestDelivery
    <3>2. \/ faults' = faults + 1 /\ UNCHANGED nextDigest
          \/ faults' = faults /\ Day(nextDigest') = Day(nextDigest) + 1
          \/ faults' = faults + 1 /\ UNCHANGED digests
      BY <1>6, <2>1 DEF SendDigest, NextDigest, Fault
    <3>3. digests[Day(nextDigest)] <= faults
      BY <1>1, <2>1 DEF Announced
    <3>4. pc' # "down"
      BY <1>6 DEF SendDigest
    <3>5. ASSUME NEW d \in DOMAIN digests
          PROVE  /\ digests'[d] <= 1 + faults'
                 /\ digests'[d] > faults' => d < Day(nextDigest')
      <4>1. /\ digests[d] \in Nat /\ digests[d] <= 1 + faults /\ d \in Nat
            /\ digests[d] > faults => d < Day(nextDigest)
        BY <1>1, <3>5 DEF Announced
      <4> QED
        BY <1>1, <3>1, <3>2, <3>3, <3>5, <4>1
    <3> QED
      BY <2>2, <3>1, <3>4, <3>5 DEF Announced
  <2> QED
    BY <1>6, <2>3, <2>4 DEF SendDigest
<1>7. CASE Crash \/ \E e \in Event : CrashInSync(e)
  <2>1. pc' = "down" /\ UNCHANGED digests /\ faults' = faults + 1 /\ nextDigest' = 0
    BY <1>7 DEF Crash, CrashInSync, Dies, Fault
  <2>2. Day(nextDigest') \in Nat
    BY <2>1, DayNat
  <2> QED
    BY <1>2, <2>1, <2>2 DEF Digesting
<1>8. CASE Restart
  <2>1. /\ pc = "down" /\ pc' = "tick" /\ UNCHANGED <<digests, faults>>
        /\ nextDigest' = At(Day(nextDigest')) /\ Day(nextDigest') \in Nat
    BY <1>1, <1>8, NextDigestIs, DayNat DEF Restart, Boots, ghosts
  <2> QED
    BY <1>2, <2>1 DEF Digesting
<1>9. CASE Slow
  <2>1. /\ UNCHANGED <<pc, nextDigest, asof, digests>> /\ faults' = faults + 1
        /\ now' = now + 1
    BY <1>9 DEF Slow, Fault, memory
  <2> QED
    BY <1>1, <1>2, <2>1 DEF Digesting
<1> QED
  BY <1>3, <1>4, <1>5, <1>6, <1>7, <1>8, <1>9, QuietSteps DEF Next, Run

-----------------------------------------------------------------------------
(***************************************************************************)
(* DigestKept.  A day without its digest is one the deadline has passed,   *)
(* or will pass without a digest: the day of a crash, of an attempt that   *)
(* failed, or of a deadline that a slow call overran.  Each step that adds *)
(* such a day is a failure, and adds one.                                  *)
(***************************************************************************)
StillDue(d) == pc = "digest" /\ d = Day(now) /\ (d = Day(nextDigest) \/ now < At(d))
Spent(d) ==
  CASE pc = "down"       -> d <= Day(now)
    [] pc = "sendDigest" -> \/ d < Day(now)
                            \/ d = Day(now) /\ nextDigest + DayLength <= now
    [] OTHER             -> \/ d < Day(nextDigest)
                            \/ nextDigest <= now /\ d <= Day(now) /\ ~StillDue(d)
LostDays == {d \in DOMAIN digests : digests[d] = 0 /\ Spent(d)}
Paid     == Cardinality(LostDays) <= faults

\* Spent before, during and outside the digest.
LEMMA SpentIs ==
  ASSUME NEW d
  PROVE  /\ pc = "down" => (Spent(d) <=> d <= Day(now))
         /\ pc = "sendDigest" =>
              (Spent(d) <=> \/ d < Day(now)
                            \/ d = Day(now) /\ nextDigest + DayLength <= now)
         /\ pc = "digest" =>
              (Spent(d) <=>
                 \/ d < Day(nextDigest)
                 \/ /\ nextDigest <= now /\ d <= Day(now)
                    /\ ~(d = Day(now) /\ (d = Day(nextDigest) \/ now < At(d))))
         /\ pc \in Elsewhere =>
              (Spent(d) <=> d < Day(nextDigest) \/ (nextDigest <= now /\ d <= Day(now)))
BY DEF Spent, StillDue, Elsewhere

\* The same after a step.
LEMMA SpentWillBe ==
  ASSUME NEW d
  PROVE  /\ pc' = "down" => (Spent(d)' <=> d <= Day(now'))
         /\ pc' = "sendDigest" =>
              (Spent(d)' <=> \/ d < Day(now')
                             \/ d = Day(now') /\ nextDigest' + DayLength <= now')
         /\ pc' = "digest" =>
              (Spent(d)' <=>
                 \/ d < Day(nextDigest')
                 \/ /\ nextDigest' <= now' /\ d <= Day(now')
                    /\ ~(d = Day(now') /\ (d = Day(nextDigest') \/ now' < At(d))))
         /\ pc' \in Elsewhere =>
              (Spent(d)' <=> d < Day(nextDigest') \/ (nextDigest' <= now' /\ d <= Day(now')))
BY DEF Spent, StillDue, Elsewhere

\* No day is lost when the process starts before the first digest is due.
LEMMA PaidInit == DigestAt # 0 /\ Init => Paid
<1> SUFFICES ASSUME DigestAt # 0, Init PROVE Paid
  OBVIOUS
<1>1. /\ pc \in Elsewhere /\ now = 0 /\ faults = 0 /\ nextDigest = NextDaily(0, DigestAt)
      /\ DOMAIN digests = 0..Day(MaxNow)
  BY DEF Init, Elsewhere
<1>2. Day(0) = 0 /\ At(0) = DigestAt /\ DigestAt \in Nat
  BY DayOf, LaterDay, ConstantsAssumption DEF At
<1>3. Day(nextDigest) = 0 /\ 0 < nextDigest /\ nextDigest \in Nat
  BY <1>1, <1>2, NextDigestIs
<1>4. \A d \in DOMAIN digests : ~Spent(d)
  <2>1. \A d \in DOMAIN digests : d >= 0 /\ d \in Int
    BY <1>1, DayNat, ConstantsAssumption
  <2>2. ASSUME NEW d \in DOMAIN digests, Spent(d) PROVE d < 0
    BY <1>1, <1>3, <2>2, SpentIs
  <2> QED
    BY <2>1, <2>2
<1>5. LostDays = {}
  BY <1>4 DEF LostDays
<1> QED
  BY <1>1, <1>5, FS_EmptySet DEF Paid

\* How the clock, the days and the deadline are related in every state.
LEMMA DigestTimes ==
  ASSUME TypeOK, Digesting
  PROVE  /\ pc # "down" =>
              /\ nextDigest <= now => Day(nextDigest) <= Day(now)
              /\ now < nextDigest => Day(now) <= Day(nextDigest)
              /\ Day(nextDigest) < Day(now) => nextDigest <= now
              /\ Day(now) <= Day(nextDigest) => now < nextDigest + DayLength
         /\ now < At(Day(now)) \/ At(Day(now)) <= now
<1>1. now \in Nat /\ nextDigest \in Nat /\ Day(now) \in Nat /\ Day(nextDigest) \in Nat
      /\ DayLength \in Nat
  BY DigestTypes, ConstantsAssumption
<1>2. At(Day(now)) \in Nat
  BY <1>1, AtFacts
<1>3. CASE pc # "down"
  <2>1. PICK n \in Nat : n = Day(nextDigest)
    BY <1>1
  <2>2. nextDigest = At(n) /\ At(n + 1) = At(n) + DayLength
    BY <1>1, <1>3, <2>1, AtFacts DEF Digesting
  <2>3. /\ n < Day(now) => At(n) < now
        /\ At(n) <= now => n <= Day(now)
        /\ Day(now) < n + 1 => now + 1 <= At(n + 1)
        /\ Day(now) < n => now + 1 <= At(n)
    BY <1>1, <2>1, AtOrder
  <2>4. now < nextDigest => Day(now) <= n
    BY <1>1, <2>2, <2>3
  <2> QED
    BY <1>1, <1>2, <2>1, <2>2, <2>3, <2>4
<1> QED
  BY <1>1, <1>2, <1>3

\* The counts only grow, so a day that was not lost can be lost only when it
\* becomes spent.
Adds(S) == \A d \in DOMAIN digests' :
             digests'[d] = 0 /\ Spent(d)' => d \in S \/ (digests[d] = 0 /\ Spent(d))

\* Where nothing moves, nothing is lost.
LEMMA QuietAdds ==
  ASSUME Quiet PROVE Adds({})
<1>1. CASE UNCHANGED <<pc, asof>>
  BY <1>1 DEF Quiet, Adds, Spent, StillDue
<1>2. CASE pc \in Elsewhere /\ pc' \in Elsewhere
  <2>1. ASSUME NEW d PROVE Spent(d)' <=> Spent(d)
    BY <1>2 DEF Quiet, Elsewhere, Spent, StillDue
  <2> QED
    BY <2>1 DEF Quiet, Adds
<1> QED
  BY <1>1, <1>2 DEF Quiet

\* A step that is not a failure loses no day: the deadline of a day is taken up
\* at the first tick at or after it, which is on that day.
LEMMA RunAdds ==
  ASSUME DigestAt # 0, TypeOK, TypeOK', Digesting, Digesting',
         \/ Tick \/ NoDigest \/ AbandonDigest \/ CollectDigest \/ Restart
  PROVE  Adds({})
<1>1. /\ now \in Nat /\ nextDigest \in Nat /\ Day(now) \in Nat /\ Day(nextDigest) \in Nat
      /\ \A d \in DOMAIN digests : d \in Nat
      /\ DigestAt \in Nat
  BY DigestTypes, ConstantsAssumption
<1>2. UNCHANGED digests
  BY DEF Tick, NoDigest, AbandonDigest, CollectDigest, Restart, ghosts
<1> SUFFICES ASSUME NEW d \in DOMAIN digests, Spent(d)' PROVE Spent(d)
  BY <1>2 DEF Adds
<1>3. d \in Nat
  BY <1>1
<1>4. /\ pc # "down" =>
           /\ nextDigest <= now => Day(nextDigest) <= Day(now)
           /\ now < nextDigest => Day(now) <= Day(nextDigest)
           /\ Day(nextDigest) < Day(now) => nextDigest <= now
  BY DigestTimes
<1>5a. ASSUME NEW t \in Nat, pc # "down", nextDigest <= t PROVE Day(nextDigest) <= Day(t)
  <2>1. At(Day(nextDigest)) <= t
    BY <1>5a DEF Digesting
  <2> QED
    BY <1>1, <2>1, AtOrder
<1>5. CASE Tick
  <2>1. /\ pc \in Elsewhere /\ pc # "down" /\ pc' = "digest" /\ UNCHANGED nextDigest
        /\ now' \in {now, now + 1}
    BY <1>5 DEF Tick, Elsewhere
  <2>2. \/ d < Day(nextDigest)
        \/ /\ nextDigest <= now' /\ d <= Day(now')
           /\ ~(d = Day(now') /\ (d = Day(nextDigest) \/ now' < At(d)))
    BY <2>1, SpentIs, SpentWillBe
  <2>3. Day(now') = Day(now) \/ (Day(now') = Day(now) + 1 /\ now' < At(Day(now')))
    BY <1>1, <2>1, NextDay
  <2>4. nextDigest <= now' => Day(nextDigest) <= Day(now')
    BY <1>1, <2>1, <1>5a
  <2>5. d < Day(nextDigest) \/ (nextDigest <= now /\ d <= Day(now))
    BY <1>1, <1>3, <1>4, <2>1, <2>2, <2>3, <2>4
  <2> QED
    BY <2>1, <2>5, SpentIs, SpentWillBe
<1>6. CASE NoDigest
  <2>1. /\ pc = "digest" /\ pc' \in Elsewhere /\ now < nextDigest
        /\ UNCHANGED <<now, nextDigest>>
    BY <1>6 DEF NoDigest, memory, Elsewhere
  <2> QED
    BY <1>1, <2>1, SpentIs, SpentWillBe
<1>7. CASE AbandonDigest
  <2>1. /\ pc = "digest" /\ pc' \in Elsewhere /\ nextDigest <= now /\ UNCHANGED now
        /\ Day(nextDigest) < Day(now) /\ now < nextDigest' /\ nextDigest' \in Nat
        /\ Day(nextDigest') = IF now < At(Day(now)) THEN Day(now) ELSE Day(now) + 1
    BY <1>1, <1>7, NextDigestIs DEF AbandonDigest, Elsewhere
  <2>2. d < Day(nextDigest')
    BY <1>1, <2>1, SpentIs, SpentWillBe
  <2>3. d <= Day(now) /\ (d = Day(now) => ~(now < At(d)))
    BY <1>1, <1>3, <2>1, <2>2
  <2> QED
    BY <1>1, <1>3, <2>1, <2>3, SpentIs, SpentWillBe
<1>8. CASE CollectDigest
  <2>1. /\ pc = "digest" /\ pc' = "sendDigest" /\ nextDigest <= now
        /\ Day(now) <= Day(nextDigest) /\ UNCHANGED <<now, nextDigest>>
    BY <1>1, <1>8 DEF CollectDigest
  <2>2. d < Day(now) \/ (d = Day(now) /\ nextDigest + DayLength <= now)
    BY <2>1, SpentIs, SpentWillBe
  <2>3. now < nextDigest + DayLength /\ DayLength \in Nat
    BY <2>1, DigestTimes, ConstantsAssumption
  <2>4. d < Day(nextDigest)
    BY <1>1, <1>3, <2>1, <2>2, <2>3
  <2> QED
    BY <2>1, <2>4, SpentIs, SpentWillBe
<1>9. CASE Restart
  <2>1. /\ pc = "down" /\ pc' \in Elsewhere /\ UNCHANGED now
        /\ now < nextDigest' /\ nextDigest' \in Nat
        /\ Day(nextDigest') = IF now < At(Day(now)) THEN Day(now) ELSE Day(now) + 1
    BY <1>1, <1>9, NextDigestIs DEF Restart, Boots, Elsewhere
  <2>2. d < Day(nextDigest')
    BY <1>1, <2>1, SpentIs, SpentWillBe
  <2> QED
    BY <1>1, <1>3, <2>1, <2>2, SpentIs, SpentWillBe
<1> QED
  BY <1>5, <1>6, <1>7, <1>8, <1>9

\* A failure loses one day: the one being announced, or the one whose deadline
\* a slow call runs past.
LEMMA FailureAdds ==
  ASSUME DigestAt # 0, TypeOK, TypeOK', Digesting, Digesting',
         Slow \/ Crash \/ \E e \in Event : CrashInSync(e)
  PROVE  faults' = faults + 1 /\ \E x \in Nat : Adds({x})
<1>1. /\ now \in Nat /\ nextDigest \in Nat /\ Day(now) \in Nat /\ Day(nextDigest) \in Nat
      /\ \A d \in DOMAIN digests : d \in Nat
      /\ DigestAt \in Nat /\ DayLength \in Nat \ {0}
  BY DigestTypes, ConstantsAssumption
<1>2. UNCHANGED digests /\ faults' = faults + 1
  BY DEF Slow, Crash, CrashInSync, Dies, Fault
<1> SUFFICES \E x \in Nat : Adds({x})
  BY <1>2
<1>3. ASSUME NEW x \in Nat,
             \A d \in DOMAIN digests : Spent(d)' => d = x \/ Spent(d)
      PROVE  \E y \in Nat : Adds({y})
  <2>1. Adds({x})
    BY <1>2, <1>3 DEF Adds
  <2> QED
    BY <2>1
<1>4. /\ pc # "down" =>
           /\ nextDigest <= now => Day(nextDigest) <= Day(now)
           /\ now < nextDigest => Day(now) <= Day(nextDigest)
           /\ Day(nextDigest) < Day(now) => nextDigest <= now
           /\ Day(now) <= Day(nextDigest) => now < nextDigest + DayLength
  BY DigestTimes
<1>5. CASE Crash \/ \E e \in Event : CrashInSync(e)
  <2>1. /\ pc # "down" /\ pc' = "down" /\ UNCHANGED now
        /\ pc \in Elsewhere \cup {"digest", "sendDigest"}
    BY <1>5 DEF Crash, CrashInSync, InPass, Dies, Elsewhere, TypeOK, Phases
  <2>2. PICK x \in Nat : x = IF now < nextDigest THEN Day(nextDigest) ELSE Day(now)
    BY <1>1
  <2>3. ASSUME NEW d \in DOMAIN digests, Spent(d)', d # x PROVE Spent(d)
    <3>1. d \in Nat /\ d <= Day(now)
      BY <1>1, <2>1, <2>3, SpentWillBe
    <3>2. d < Day(now) \/ d < Day(nextDigest)
      BY <1>1, <1>4, <2>1, <2>2, <2>3, <3>1
    <3>3. CASE pc = "sendDigest"
      <4>1. d < Day(now)
        BY <1>1, <3>1, <3>2, <3>3, Sending
      <4> QED
        BY <3>3, <4>1, SpentIs
    <3>4. CASE pc = "digest"
      BY <1>1, <1>4, <2>1, <2>2, <2>3, <3>1, <3>4, SpentIs
    <3>5. CASE pc \in Elsewhere
      BY <1>1, <1>4, <2>1, <2>2, <2>3, <3>1, <3>5, SpentIs
    <3> QED
      BY <2>1, <3>3, <3>4, <3>5
  <2> QED
    BY <1>2, <1>3, <2>2, <2>3
<1>6. CASE Slow
  <2>1. /\ UNCHANGED <<pc, nextDigest, asof>> /\ now' = now + 1
        /\ pc \in Elsewhere \cup {"digest", "sendDigest", "down"}
    BY <1>6 DEF Slow, memory, Elsewhere, TypeOK, Phases
  <2>2. \/ Day(now') = Day(now)
        \/ Day(now') = Day(now) + 1 /\ now' < At(Day(now'))
    BY <1>1, <2>1, NextDay
  <2>3. Day(now') \in Nat
    BY <1>1, <2>2
  <2>4. CASE pc = "down"
    <3>1. \A d \in DOMAIN digests : Spent(d)' => d = Day(now') \/ Spent(d)
      BY <1>1, <2>1, <2>2, <2>4, SpentIs, SpentWillBe
    <3> QED
      BY <1>3, <2>3, <3>1
\* Past midnight the digest being sent is late; past the next deadline that
\* one is passed over too.
  <2>5. CASE pc = "sendDigest"
    <3>1. Day(nextDigest) <= Day(now) /\ nextDigest = At(Day(nextDigest))
      BY <2>5, Sending
    <3>2. PICK n \in Nat : n = Day(nextDigest)
      BY <1>1
    <3>3. CASE Day(now') = Day(now)
      <4>1. \A d \in DOMAIN digests : Spent(d)' => d = Day(now) \/ Spent(d)
        BY <1>1, <2>1, <2>5, <3>3, SpentIs, SpentWillBe
      <4> QED
        BY <1>1, <1>3, <4>1
    <3>4. CASE Day(now') = Day(now) + 1 /\ now' < At(Day(now'))
      <4>1. CASE Day(now) = n
        <5>1. now' < nextDigest + DayLength
          BY <3>1, <3>2, <3>4, <4>1, AtFacts
        <5>2. \A d \in DOMAIN digests : Spent(d)' => d = Day(now) \/ Spent(d)
          BY <1>1, <2>1, <2>5, <3>4, <5>1, SpentIs, SpentWillBe
        <5> QED
          BY <1>1, <1>3, <5>2
      <4>2. CASE n < Day(now) /\ nextDigest + DayLength <= now
        <5>1. \A d \in DOMAIN digests : Spent(d)' => d = Day(now') \/ Spent(d)
          BY <1>1, <2>1, <2>5, <3>4, <4>2, SpentIs, SpentWillBe
        <5> QED
          BY <1>3, <2>3, <5>1
      <4>3. CASE n < Day(now) /\ now < nextDigest + DayLength
        <5>1. now < At(n + 1) /\ At(n + 1) = nextDigest + DayLength
          BY <3>1, <3>2, <4>3, AtFacts
        <5>2. Day(now) <= n + 1
          <6>1. n + 1 < Day(now) => At(n + 1) < now
            BY <1>1, AtOrder
          <6>2. At(n + 1) \in Nat
            BY AtFacts
          <6> QED
            BY <1>1, <5>1, <6>1, <6>2
        <5>3. Day(now) = n + 1 /\ At(Day(now)) = nextDigest + DayLength
          BY <1>1, <4>3, <5>1, <5>2
        <5>4. Day(now) < Day(now') /\ At(Day(now)) < now'
          <6>1. Day(now) < Day(now')
            BY <1>1, <3>4
          <6>2. now' \in Nat
            BY <1>1, <2>1
          <6> QED
            BY <1>1, <6>1, <6>2, AtOrder
        <5>5. now < At(Day(now)) /\ now' <= At(Day(now))
          <6>1. now < At(Day(now)) /\ At(Day(now)) \in Nat
            BY <1>1, <5>1, <5>3, AtFacts
          <6> QED
            BY <1>1, <2>1, <6>1
        <5>6. FALSE
          <6>1. now' \in Nat /\ At(Day(now)) \in Nat
            BY <1>1, <2>1, AtFacts
          <6> QED
            BY <5>4, <5>5, <6>1
        <5> QED
          BY <5>6
      <4>4. \/ Day(now) = n
            \/ n < Day(now) /\ nextDigest + DayLength <= now
            \/ n < Day(now) /\ now < nextDigest + DayLength
        BY <1>1, <3>1, <3>2
      <4> QED
        BY <4>1, <4>2, <4>3, <4>4
    <3> QED
      BY <2>2, <3>3, <3>4
  <2>6. CASE pc = "digest"
    <3>1. CASE now < nextDigest
      <4>1. \A d \in DOMAIN digests : Spent(d)' => d = Day(nextDigest) \/ Spent(d)
        BY <1>1, <1>4, <2>1, <2>2, <2>6, <3>1, SpentIs, SpentWillBe
      <4> QED
        BY <1>1, <1>3, <4>1
    <3>2. CASE nextDigest <= now
      <4>1. \A d \in DOMAIN digests : Spent(d)' => d = Day(now) \/ Spent(d)
        BY <1>1, <1>4, <2>1, <2>2, <2>6, <3>2, SpentIs, SpentWillBe
      <4> QED
        BY <1>1, <1>3, <4>1
    <3> QED
      BY <1>1, <3>1, <3>2
  <2>7. CASE pc \in Elsewhere
    <3>1. CASE now < nextDigest
      <4>0. nextDigest <= now' => Day(now') <= Day(nextDigest)
        <5>1. nextDigest <= now' => now' = nextDigest
          BY <1>1, <2>1, <3>1
        <5> QED
          BY <1>1, <5>1
      <4>1. \A d \in DOMAIN digests : Spent(d)' => d = Day(nextDigest) \/ Spent(d)
        BY <1>1, <2>1, <2>3, <2>7, <3>1, <4>0, SpentIs, SpentWillBe
      <4> QED
        BY <1>1, <1>3, <4>1
    <3>2. CASE nextDigest <= now
      <4>1. \A d \in DOMAIN digests : Spent(d)' => d = Day(now') \/ Spent(d)
        BY <1>1, <2>1, <2>2, <2>7, <3>2, SpentIs, SpentWillBe
      <4> QED
        BY <1>3, <2>3, <4>1
    <3> QED
      BY <1>1, <3>1, <3>2
  <2> QED
    BY <2>1, <2>4, <2>5, <2>6, <2>7
<1> QED
  BY <1>2, <1>5, <1>6

\* A digest that fails loses its day, and one that a slow call delayed past the
\* next deadline has lost that day already.
LEMMA SendAdds ==
  ASSUME TypeOK, TypeOK', Digesting, Digesting', SendDigest
  PROVE  \/ faults' = faults /\ Adds({})
         \/ faults' = faults + 1 /\ \E x \in Nat : Adds({x})
<1>1. /\ now \in Nat /\ nextDigest \in Nat /\ Day(now) \in Nat /\ Day(nextDigest) \in Nat
      /\ \A d \in DOMAIN digests : d \in Nat /\ digests[d] \in Nat
      /\ DayLength \in Nat \ {0}
  BY DigestTypes, ConstantsAssumption
<1>2. /\ pc = "sendDigest" /\ pc' \in Elsewhere /\ UNCHANGED now
      /\ Day(nextDigest) <= Day(now) /\ nextDigest = At(Day(nextDigest))
      /\ Day(nextDigest) \in DOMAIN digests
  BY Sending DEF SendDigest, Elsewhere
<1>3. ASSUME NextDigest
      PROVE  nextDigest' = nextDigest + DayLength /\ Day(nextDigest') = Day(nextDigest) + 1
  <2>1. nextDigest' = At(Day(nextDigest) + 1) /\ Day(nextDigest') = Day(nextDigest) + 1
    BY <1>2, <1>3, Sending DEF NextDigest
  <2> QED
    BY <1>1, <1>2, <2>1, AtFacts
<1>4. ASSUME DigestDelivered
      PROVE  /\ DOMAIN digests' = DOMAIN digests
             /\ \A d \in DOMAIN digests :
                  digests'[d] = IF d = Day(nextDigest) THEN digests[d] + 1 ELSE digests[d]
  BY <1>2, <1>4, DigestDelivery
\* A day before today is spent either way; today only if the attempt failed or
\* its deadline has passed.
<1>5. ASSUME NEW d \in DOMAIN digests, Spent(d)'
      PROVE  d <= Day(now) /\ (d < Day(now) => Spent(d))
  <2>1. d < Day(nextDigest') \/ d <= Day(now)
    BY <1>2, <1>5, SpentWillBe
  <2>2. UNCHANGED nextDigest \/ Day(nextDigest') = Day(nextDigest) + 1
    BY <1>3 DEF SendDigest
  <2> QED
    BY <1>1, <1>2, <2>1, <2>2, SpentIs
<1>6. CASE Fault
  <2>1. DOMAIN digests' = DOMAIN digests
        /\ \A d \in DOMAIN digests : digests'[d] = 0 => digests[d] = 0
    BY <1>1, <1>4, <1>6 DEF SendDigest
  <2>2. \A d \in DOMAIN digests : Spent(d)' => d = Day(now) \/ Spent(d)
    BY <1>1, <1>5
  <2>3. Adds({Day(now)})
    BY <2>1, <2>2 DEF Adds
  <2> QED
    BY <1>1, <1>6, <2>3 DEF Fault
<1>7. CASE DigestDelivered /\ NextDigest /\ UNCHANGED faults
  <2>1. ASSUME NEW d \in DOMAIN digests, digests'[d] = 0, Spent(d)'
        PROVE  digests[d] = 0 /\ Spent(d)
    <3>1. d # Day(nextDigest) /\ digests[d] = 0
      BY <1>1, <1>4, <1>7, <2>1
    <3>2. d < Day(nextDigest) + 1 \/ (nextDigest + DayLength <= now /\ d <= Day(now))
      BY <1>2, <1>3, <1>7, <2>1, SpentWillBe
    <3>3. d < Day(now) \/ (d = Day(now) /\ nextDigest + DayLength <= now)
      BY <1>1, <1>2, <3>1, <3>2
    <3> QED
      BY <1>2, <3>1, <3>3, SpentIs
  <2> QED
    BY <1>4, <1>7, <2>1 DEF Adds
<1> QED
  BY <1>6, <1>7 DEF SendDigest

\* So the days without a digest never outnumber the failures.
LEMMA PaidStep ==
  ASSUME DigestAt # 0, TypeOK, TypeOK', Digesting, Digesting', Paid, [Next]_vars
  PROVE  Paid'
<1>1. \/ faults' = faults /\ Adds({})
      \/ faults' = faults + 1 /\ \E x \in Nat : Adds({x})
  <2>1. CASE Quiet
    <3>1. Adds({})
      BY <2>1, QuietAdds
    <3>2. Adds({0})
      BY <3>1 DEF Adds
    <3> QED
      BY <2>1, <3>1, <3>2 DEF Quiet
  <2>2. CASE Tick \/ NoDigest \/ AbandonDigest \/ CollectDigest \/ Restart
    <3>1. Adds({})
      BY <2>2, RunAdds
    <3>2. UNCHANGED faults
      BY <2>2 DEF Tick, NoDigest, AbandonDigest, CollectDigest, Restart, ghosts
    <3> QED
      BY <3>1, <3>2
  <2>3. CASE SendDigest
    BY <2>3, SendAdds
  <2>4. CASE Slow \/ Crash \/ \E e \in Event : CrashInSync(e)
    BY <2>4, FailureAdds
  <2> QED
    BY <2>1, <2>2, <2>3, <2>4, QuietSteps DEF Next, Run
<1>2. /\ faults \in Nat
      /\ DOMAIN digests = 0..Day(MaxNow) /\ DOMAIN digests' = 0..Day(MaxNow)
      /\ Day(MaxNow) \in Nat
  BY DigestTypes DEF TypeOK
<1>3. IsFiniteSet(LostDays) /\ Cardinality(LostDays) \in Nat
  <2>1. IsFiniteSet(0..Day(MaxNow))
    BY <1>2, FS_Interval
  <2>2. LostDays \subseteq 0..Day(MaxNow)
    BY <1>2 DEF LostDays
  <2> QED
    BY <2>1, <2>2, FS_Subset, FS_CardinalityType
<1>4. CASE faults' = faults /\ Adds({})
  <2>1. LostDays' \subseteq LostDays
    BY <1>2, <1>4 DEF LostDays, Adds
  <2>2. Cardinality(LostDays') <= Cardinality(LostDays) /\ Cardinality(LostDays') \in Nat
    BY <1>3, <2>1, FS_Subset, FS_CardinalityType
  <2> QED
    BY <1>2, <1>3, <1>4, <2>2 DEF Paid
<1>5. ASSUME faults' = faults + 1, NEW x \in Nat, Adds({x})
      PROVE  Paid'
  <2>1. LostDays' \subseteq LostDays \cup {x}
    BY <1>2, <1>5 DEF LostDays, Adds
  <2>2. /\ IsFiniteSet(LostDays \cup {x})
        /\ Cardinality(LostDays \cup {x}) <= Cardinality(LostDays) + 1
        /\ Cardinality(LostDays \cup {x}) \in Nat
    <3>1. /\ IsFiniteSet(LostDays \cup {x})
          /\ \/ Cardinality(LostDays \cup {x}) = Cardinality(LostDays)
             \/ Cardinality(LostDays \cup {x}) = Cardinality(LostDays) + 1
      BY <1>3, FS_AddElement
    <3> QED
      BY <1>3, <3>1
  <2>3. /\ Cardinality(LostDays') <= Cardinality(LostDays \cup {x})
        /\ Cardinality(LostDays') \in Nat
    BY <2>1, <2>2, FS_Subset, FS_CardinalityType
  <2> QED
    BY <1>2, <1>3, <1>5, <2>2, <2>3 DEF Paid
<1> QED
  BY <1>1, <1>4, <1>5

\* A past day without a digest is a lost one.
LEMMA PastIsLost ==
  ASSUME TypeOK, Digesting, Paid
  PROVE  DigestKept
<1> DEFINE past == {d \in DOMAIN digests : d < Day(now) /\ digests[d] = 0}
<1>1. /\ now \in Nat /\ nextDigest \in Nat /\ Day(now) \in Nat /\ Day(nextDigest) \in Nat
      /\ faults \in Nat /\ DOMAIN digests = 0..Day(MaxNow) /\ Day(MaxNow) \in Nat
  BY DigestTypes
<1>2. ASSUME NEW d \in past PROVE d \in LostDays
  <2>1. d \in DOMAIN digests /\ d \in Nat /\ d < Day(now) /\ digests[d] = 0
    BY <1>1, <1>2
  <2>2. pc \in Elsewhere \cup {"digest", "sendDigest", "down"}
    BY DEF TypeOK, Phases, Elsewhere
  <2>3. pc # "down" /\ Day(nextDigest) <= d => nextDigest <= now
    <3>1. pc # "down" /\ Day(nextDigest) < Day(now) => nextDigest <= now
      BY DigestTimes
    <3> QED
      BY <1>1, <2>1, <3>1
  <2>4. Spent(d)
    BY <1>1, <2>1, <2>2, <2>3, SpentIs
  <2> QED
    BY <2>1, <2>4 DEF LostDays
<1>3. IsFiniteSet(LostDays) /\ Cardinality(LostDays) \in Nat
  <2>1. IsFiniteSet(0..Day(MaxNow))
    BY <1>1, FS_Interval
  <2>2. LostDays \subseteq 0..Day(MaxNow)
    BY <1>1 DEF LostDays
  <2> QED
    BY <2>1, <2>2, FS_Subset, FS_CardinalityType
<1>4. past \subseteq LostDays
  BY <1>2
<1> HIDE DEF past
<1>5. Cardinality(past) <= Cardinality(LostDays) /\ Cardinality(past) \in Nat
  BY <1>3, <1>4, FS_Subset, FS_CardinalityType
<1> QED
  BY <1>1, <1>3, <1>5 DEF Paid, DigestKept, past

-----------------------------------------------------------------------------
(***************************************************************************)
(* NoReminderMissed.  Until the next Reconcile is due the cache holds      *)
(* every event that starts less than the lead after that: those in the     *)
(* window now, which reaches a day and the lead ahead.  So the last check  *)
(* before that Reconcile still finds what it has to announce.              *)
(***************************************************************************)
\* A reminder is recorded, or waiting for its turn, or having it.
Handled(r) == \/ r \in sent
              \/ Checking /\ r \in todo
              \/ pc \in {"send", "mark"} /\ r = cur

\* The deadline of Reconcile is a day away at most.  While nothing goes wrong a
\* tick starts before it and the clock stands still until the next one.
Deadlines ==
  /\ nextReconcile <= now + DayLength
  /\ pc = "down" => trouble
  /\ ~trouble => /\ pc = "tick" => now < nextReconcile
                 /\ Checking \/ pc = "wait" => asof = now

\* What Reconcile has read is cached as it is, and stays so until the next one;
\* a change is read before the reminders are looked at.
Relisted(e) == Alive(truth[e]) => known[e].start = truth[e]
Cached(e)   == truth[e] \in Start /\ now < truth[e] /\ truth[e] < nextReconcile + Lead
                 => known[e].start = truth[e]
Listed(e)   == truth[e] \in Start /\ Upcoming(asof, truth[e])
                 => Handled([e |-> e, start |-> truth[e]])
Remembered ==
  ~trouble =>
    \A e \in Event \ dirty :
      /\ pc = "resync" => e \in todo \/ Relisted(e)
      /\ pc # "resync" => Cached(e)
      /\ Checking \/ pc = "wait" => Listed(e)

\* The times of the checks and of Reconcile are numbers.
LEMMA RemindTypes ==
  ASSUME TypeOK
  PROVE  /\ now \in Nat /\ asof \in Nat /\ nextReconcile \in Nat
         /\ DayLength \in Nat /\ Lead \in Nat /\ Horizon \in Nat
         /\ \A e \in Event : truth[e] \in Start \cup {Gone, Free}
         /\ \A s \in Start : s \in Nat
         /\ NextDaily(now, ReconcileAt) \in Nat /\ now < NextDaily(now, ReconcileAt)
         /\ NextDaily(now, ReconcileAt) <= now + DayLength
<1>1. now \in Nat /\ ReconcileAt \in 0..(DayLength - 1)
  BY ConstantsAssumption DEF TypeOK
<1>2. /\ NextDaily(now, ReconcileAt) \in Nat /\ now < NextDaily(now, ReconcileAt)
      /\ NextDaily(now, ReconcileAt) <= now + DayLength
  BY <1>1, NextDailyNat, NextDailySoon
<1> QED
  BY <1>1, <1>2, ConstantsAssumption DEF TypeOK

\* A pass that reads an event of the window caches it as it is.  A tick reads
\* what changed, and the rest too when its cursor had expired.
LEMMA PassRelists ==
  ASSUME TypeOK, NEW e \in Event, NEW k \in Passes(e), Alive(truth[e])
  PROVE  k.start = truth[e] \/ (pc = "tick" /\ e \notin dirty /\ k = known[e])
<1>1. truth[e] \in Start /\ truth[e] # Gone /\ truth[e] # Free
  BY DEF Alive
<1>2. processEvent(truth[e], known[e]).start = truth[e]
  BY <1>1 DEF processEvent
<1>3. Full(e).start = truth[e]
  BY <1>2 DEF Full, fullResync, Vanished
<1>4. CASE k = Full(e)
  BY <1>3, <1>4
<1>5. CASE pc = "tick" /\ k = Incremental(e)
  BY <1>2, <1>5 DEF Incremental
<1> QED
  BY <1>4, <1>5 DEF Passes

\* What is at most a day away stays so, and so does what is before that.
LEMMA StillWithin ==
  ASSUME NEW m \in Nat, NEW n \in Nat, NEW d \in Nat, NEW t \in Nat, NEW u \in Nat,
         n <= m, m <= t + d, t <= u
  PROVE  n <= u + d
OBVIOUS

\* At the start no calendar has been read, and Reconcile is within a day.
LEMMA DeadlinesInit == Init => Deadlines /\ Remembered
<1> SUFFICES ASSUME Init PROVE Deadlines /\ Remembered
  OBVIOUS
<1>1. /\ nextReconcile = NextDaily(0, ReconcileAt) /\ now = 0 /\ pc = "tick" /\ dirty = Event
  BY DEF Init
<1>2. 0 < NextDaily(0, ReconcileAt) /\ NextDaily(0, ReconcileAt) <= 0 + DayLength
  BY NextDailySoon, ConstantsAssumption
<1> QED
  BY <1>1, <1>2 DEF Deadlines, Remembered, Checking

\* A deadline of Reconcile is computed from the clock; a failure is remembered
\* until Reconcile begins.
LEMMA DeadlinesStep ==
  ASSUME TypeOK, Deadlines, [Next]_vars
  PROVE  Deadlines'
<1>1. /\ now \in Nat /\ asof \in Nat /\ nextReconcile \in Nat /\ DayLength \in Nat
      /\ NextDaily(now, ReconcileAt) \in Nat /\ now < NextDaily(now, ReconcileAt)
      /\ NextDaily(now, ReconcileAt) <= now + DayLength
  BY RemindTypes
<1>0. nextReconcile <= now + DayLength
  BY DEF Deadlines
\* A failure.
<1>2. ASSUME trouble', nextReconcile' \in {0, nextReconcile}, now' \in {now, now + 1}
      PROVE  Deadlines'
  <2>0. now' \in Nat /\ now <= now' /\ nextReconcile' \in Nat /\ nextReconcile' <= nextReconcile
    BY <1>1, <1>2
  <2>1. nextReconcile' <= now' + DayLength
    BY <1>0, <1>1, <2>0, StillWithin
  <2> QED
    BY <1>2, <2>1, Zenon DEF Deadlines
<1>3. CASE Slow \/ Crash \/ \E e \in Event : SkipsTarget(e) \/ SyncFails(e) \/ CrashInSync(e)
  <2>1. trouble' /\ nextReconcile' \in {0, nextReconcile} /\ now' \in {now, now + 1}
    BY <1>3 DEF Slow, Crash, SkipsTarget, SyncFails, Read, CrashInSync, Dies, Fault, memory
  <2> QED
    BY <1>2, <2>1
<1>4. CASE SendDigest \/ SendReminder
  <2>1. /\ UNCHANGED <<now, nextReconcile>> /\ pc # "down" /\ pc' # "down"
        /\ trouble' \in {trouble, TRUE}
        /\ pc' # "tick" /\ (Checking' \/ pc' = "wait" => Checking /\ UNCHANGED asof)
    BY <1>4 DEF SendDigest, SendReminder, Fault, Checking
  <2>2. nextReconcile' <= now' + DayLength
    BY <1>0, <2>1
  <2>3. trouble \/ (Checking \/ pc = "wait" => asof = now)
    BY Zenon DEF Deadlines
  <2>4. trouble' \/ ~trouble
    BY <2>1
  <2> QED
    BY <2>1, <2>2, <2>3, <2>4, Zenon DEF Deadlines
<1>5. CASE Tick \/ NoDigest \/ AbandonDigest \/ CollectDigest
  <2>1. /\ now' \in {now, now + 1} /\ UNCHANGED <<nextReconcile, trouble>>
        /\ pc' # "down" /\ pc' # "tick" /\ pc' # "wait" /\ ~Checking'
    BY <1>1, <1>5 DEF Tick, NoDigest, AbandonDigest, CollectDigest, memory, ghosts, Checking
  <2>2. /\ now' \in Nat /\ now <= now' /\ UNCHANGED nextReconcile
        /\ nextReconcile <= nextReconcile
    BY <1>1, <2>1
  <2>3. nextReconcile' <= now' + DayLength
    BY <1>0, <1>1, <2>2, StillWithin
  <2> QED
    BY <2>1, <2>3, Zenon DEF Deadlines
<1>6. CASE StartPass \/ EndReconcile \/ Restart
  <2>1. /\ UNCHANGED now /\ pc' # "down" /\ pc' # "wait" /\ ~Checking'
        /\ nextReconcile' \in {nextReconcile, NextDaily(now, ReconcileAt)}
        /\ pc' = "tick" => now < nextReconcile'
    BY <1>1, <1>6 DEF StartPass, EndReconcile, Restart, Boots, Checking
  <2>2. nextReconcile' <= now' + DayLength
    BY <1>0, <1>1, <2>1
  <2>3. pc' = "tick" => now' < nextReconcile'
    BY <2>1
  <2> QED
    BY <2>1, <2>2, <2>3, Zenon DEF Deadlines
<1>7. CASE ListUpcomingEvents \/ RecordReminder \/ EndReminders
           \/ (\E r \in Reminder : CheckReminder(r))
  <2>1. /\ UNCHANGED <<now, nextReconcile, trouble>> /\ pc' \notin {"down", "tick"}
        /\ \/ Checking /\ UNCHANGED asof
           \/ asof' = now
    BY <1>7 DEF ListUpcomingEvents, RecordReminder, EndReminders, CheckReminder, Checking,
       memory, ghosts
  <2> QED
    BY <2>1 DEF Deadlines
<1>8. CASE (\E e \in Event : SyncCalendar(e) \/ UserEdits(e)) \/ UNCHANGED vars
  <2>1. UNCHANGED <<now, nextReconcile, trouble, pc, asof>>
    BY <1>8 DEF SyncCalendar, Read, UserEdits, vars, memory, ghosts
  <2> QED
    BY <2>1 DEF Deadlines, Checking
<1> QED
  BY <1>3, <1>4, <1>5, <1>6, <1>7, <1>8 DEF Next, Run

\* Reconcile has read every calendar, and what it saw of the window reaches
\* past the next one by the lead.
LEMMA ReconcileRelists ==
  ASSUME DayLength + Lead <= Horizon, TypeOK, NEW e \in Event,
         NEW n \in Nat, n <= now + DayLength
  PROVE  truth[e] \in Start /\ now < truth[e] /\ truth[e] < n + Lead => Alive(truth[e])
BY RemindTypes DEF Alive, InWindow

\* Each step of the loop keeps what the reminders need; a failure gives it up
\* until the next Reconcile.
LEMMA RememberedStep ==
  ASSUME DayLength + Lead <= Horizon,
         TypeOK, TypeOK', Loops, Deadlines, Deadlines', Remembered, [Next]_vars
  PROVE  Remembered'
<1>1. /\ now \in Nat /\ asof \in Nat /\ nextReconcile \in Nat /\ DayLength \in Nat
      /\ Lead \in Nat /\ Horizon \in Nat
      /\ \A e \in Event : truth[e] \in Start \cup {Gone, Free}
      /\ \A s \in Start : s \in Nat
      /\ NextDaily(now, ReconcileAt) \in Nat
      /\ NextDaily(now, ReconcileAt) <= now + DayLength
  BY RemindTypes
<1> SUFFICES ASSUME ~trouble', NEW e \in Event \ dirty'
             PROVE  /\ pc' = "resync" => e \in todo' \/ Relisted(e)'
                    /\ pc' # "resync" => Cached(e)'
                    /\ Checking' \/ pc' = "wait" => Listed(e)'
  BY DEF Remembered
\* Neither the event nor its row has changed.
<1>2. ASSUME ~trouble, e \notin dirty, truth'[e] = truth[e], UNCHANGED <<known, nextReconcile>>,
             now' \in {now, now + 1}, pc # "resync"
      PROVE  Cached(e)'
  <2>1. Cached(e)
    BY <1>2 DEF Remembered
  <2> QED
    BY <1>1, <1>2, <2>1 DEF Cached
<1>3. CASE Tick \/ NoDigest \/ AbandonDigest \/ CollectDigest
           \/ (SendDigest /\ UNCHANGED trouble)
  <2>1. /\ now' \in {now, now + 1}
        /\ UNCHANGED <<truth, known, dirty, nextReconcile, trouble>>
        /\ pc # "resync" /\ pc' # "resync" /\ pc' # "wait" /\ ~Checking'
    BY <1>3 DEF Tick, NoDigest, AbandonDigest, CollectDigest, SendDigest, Checking,
       inputs, tables, memory, ghosts
  <2>2. Cached(e)'
    BY <1>2, <2>1
  <2> QED
    BY <2>1, <2>2
<1>4. CASE StartPass
  <2>1. /\ UNCHANGED <<now, truth, known, dirty, nextReconcile>>
        /\ pc # "resync" /\ pc' # "wait" /\ ~Checking' /\ todo' = Event
        /\ pc' = IF now < nextReconcile THEN "tick" ELSE "resync"
        /\ trouble' = (now < nextReconcile /\ trouble)
    BY <1>4 DEF StartPass, Checking, inputs, tables
  <2>2. pc' # "resync" => Cached(e)'
    BY <1>2, <2>1
  <2> QED
    BY <2>1, <2>2
<1>5. CASE EndReconcile
  <2>1. /\ UNCHANGED <<now, truth, known, dirty, trouble>> /\ todo = {} /\ pc = "resync"
        /\ nextReconcile' = NextDaily(now, ReconcileAt) /\ pc' = "tick"
    BY <1>5 DEF EndReconcile, inputs, ghosts
  <2>2. Relisted(e)
    BY <2>1 DEF Remembered
  <2>3. truth[e] \in Start /\ now < truth[e] /\ truth[e] < nextReconcile' + Lead
          => Alive(truth[e])
    BY <1>1, <2>1, ReconcileRelists
  <2>4. Cached(e)'
    BY <2>1, <2>2, <2>3 DEF Cached, Relisted
  <2> QED
    BY <2>1, <2>4 DEF Checking
<1>6. CASE ListUpcomingEvents
  <2>1. /\ UNCHANGED <<now, truth, known, dirty, nextReconcile, trouble>>
        /\ pc = "tick" /\ pc' = "remind" /\ asof' = now
        /\ todo' = {r \in Reminder : known[r.e].start = r.start /\ Upcoming(now, r.start)}
    BY <1>6 DEF ListUpcomingEvents, inputs, tables, ghosts
  <2>2. Cached(e)'
    BY <1>2, <2>1
  <2>3. now < nextReconcile /\ Cached(e)
    BY <2>1 DEF Deadlines, Remembered
  <2>4. ASSUME truth[e] \in Start, Upcoming(now, truth[e])
        PROVE  [e |-> e, start |-> truth[e]] \in todo'
    <3>1. now < truth[e] /\ truth[e] < nextReconcile + Lead
      BY <1>1, <2>3, <2>4 DEF Upcoming
    <3>2. known[e].start = truth[e]
      BY <2>3, <2>4, <3>1 DEF Cached
    <3> QED
      BY <2>1, <2>4, <3>2 DEF Reminder
  <2>5. Listed(e)'
    BY <2>1, <2>4 DEF Listed, Handled, Checking, Upcoming
  <2> QED
    BY <2>1, <2>2, <2>5
<1>7. ASSUME NEW f \in Event, SyncCalendar(f)
      PROVE  /\ pc' = "resync" => e \in todo' \/ Relisted(e)'
             /\ pc' # "resync" => Cached(e)'
             /\ Checking' \/ pc' = "wait" => Listed(e)'
  <2>1. /\ UNCHANGED <<now, truth, nextReconcile, trouble, pc>> /\ pc \in {"tick", "resync"}
        /\ dirty' = dirty \ {f} /\ todo' = todo \ {f}
    BY <1>7 DEF SyncCalendar, Read, InPass, inputs
  <2>2. PICK k \in Passes(f) : known' = [known EXCEPT ![f] = k]
    BY <1>7 DEF SyncCalendar, Read
  <2>3. known'[f] = k /\ \A g \in Event : g # f => known'[g] = known[g]
    BY <2>2 DEF TypeOK
  <2>4. CASE e # f
    <3>1. known'[e] = known[e] /\ e \notin dirty /\ (e \in todo => e \in todo')
      BY <2>1, <2>3, <2>4
    <3>2. /\ pc = "resync" => e \in todo \/ Relisted(e)
          /\ pc # "resync" => Cached(e)
      BY <2>1, <3>1 DEF Remembered
    <3> QED
      BY <2>1, <3>1, <3>2 DEF Relisted, Cached, Alive, InWindow, Checking
  <2>5. CASE e = f
    <3>1. Alive(truth[e]) => k.start = truth[e] \/ (pc = "tick" /\ e \notin dirty /\ k = known[e])
      BY <2>2, <2>5, PassRelists
    <3>2. CASE pc = "resync"
      BY <2>1, <2>3, <2>5, <3>1, <3>2 DEF Relisted, Alive, InWindow, Checking
    <3>3. CASE pc = "tick"
      <4>1. nextReconcile <= now + DayLength
        BY DEF Deadlines
      <4>2. truth[e] \in Start /\ now < truth[e] /\ truth[e] < nextReconcile + Lead
              => Alive(truth[e])
        BY <1>1, <4>1, ReconcileRelists
      <4>3. e \notin dirty => Cached(e)
        BY <2>1, <3>3 DEF Remembered
      <4>4. Cached(e)'
        BY <2>1, <2>3, <2>5, <3>1, <4>2, <4>3 DEF Cached
      <4> QED
        BY <2>1, <3>3, <4>4 DEF Checking
    <3> QED
      BY <2>1, <3>2, <3>3
  <2> QED
    BY <2>4, <2>5
\* A reminder that waits for its turn gets it, and is recorded.
<1>8. ASSUME UNCHANGED <<now, truth, known, dirty, nextReconcile, trouble, asof>>, Checking,
             pc' # "resync", \A r \in Reminder : Handled(r) => Handled(r)'
      PROVE  /\ pc' = "resync" => e \in todo' \/ Relisted(e)'
             /\ pc' # "resync" => Cached(e)'
             /\ Checking' \/ pc' = "wait" => Listed(e)'
  <2>1. Cached(e)'
    BY <1>2, <1>8 DEF Checking
  <2>2. Listed(e)
    BY <1>8 DEF Remembered
  <2>3. truth[e] \in Start => [e |-> e, start |-> truth[e]] \in Reminder
    BY DEF Reminder
  <2>4. Listed(e)'
    BY <1>8, <2>2, <2>3 DEF Listed, Upcoming
  <2> QED
    BY <1>8, <2>1, <2>4
<1>9. CASE (\E r \in Reminder : CheckReminder(r)) \/ RecordReminder \/ EndReminders
           \/ (SendReminder /\ UNCHANGED trouble)
  <2>1. /\ UNCHANGED <<now, truth, known, dirty, nextReconcile, trouble, asof>> /\ Checking
        /\ pc' # "resync"
    BY <1>9 DEF CheckReminder, RecordReminder, EndReminders, SendReminder, Checking, inputs,
       tables, memory, ghosts
  <2>2. ASSUME NEW r \in Reminder, Handled(r)
        PROVE  Handled(r)'
    <3>1. CASE \E q \in Reminder : CheckReminder(q)
      <4>1. PICK q \in Reminder : CheckReminder(q)
        BY <3>1
      <4>2. /\ pc = "remind" /\ pc' \in {"remind", "send"} /\ todo' = todo \ {q}
            /\ sent \subseteq sent' /\ (q \in sent' \/ (pc' = "send" /\ cur' = q))
        BY <4>1 DEF CheckReminder, WasReminderSent, MarkReminderSent
      <4> QED
        BY <2>2, <4>2 DEF Handled, Checking
    <3>2. CASE RecordReminder
      BY <2>2, <3>2 DEF RecordReminder, MarkReminderSent, Handled, Checking
    <3>3. CASE EndReminders
      BY <2>2, <3>3 DEF EndReminders, tables, memory, Handled, Checking
    <3>4. CASE SendReminder /\ UNCHANGED trouble
      <4>1. /\ pc = "send" /\ pc' = "mark" /\ UNCHANGED <<sent, cur, todo>>
        BY <3>4 DEF SendReminder, Fault, tables
      <4> QED
        BY <2>2, <4>1 DEF Handled, Checking
    <3> QED
      BY <1>9, <3>1, <3>2, <3>3, <3>4
  <2> QED
    BY <1>8, <2>1, <2>2
<1>10. ASSUME NEW f \in Event, UserEdits(f)
       PROVE  /\ pc' = "resync" => e \in todo' \/ Relisted(e)'
              /\ pc' # "resync" => Cached(e)'
              /\ Checking' \/ pc' = "wait" => Listed(e)'
  <2>1. /\ UNCHANGED <<now, known, sent, pc, nextReconcile, asof, todo, cur, trouble>>
        /\ dirty' = dirty \cup {f}
    BY <1>10 DEF UserEdits, tables, memory, ghosts
  <2>2. truth'[e] = truth[e] /\ e \notin dirty
    BY <1>10, <2>1 DEF UserEdits, TypeOK
  <2>3. /\ pc = "resync" => e \in todo \/ Relisted(e)
        /\ pc # "resync" => Cached(e)
        /\ Checking \/ pc = "wait" => Listed(e)
    BY <2>1, <2>2 DEF Remembered
  <2> QED
    BY <2>1, <2>2, <2>3 DEF Relisted, Cached, Listed, Handled, Upcoming, Checking, Alive, InWindow
<1>11. CASE UNCHANGED vars
  <2>1. UNCHANGED <<now, truth, dirty, known, sent, pc, nextReconcile, asof, todo, cur, trouble>>
    BY <1>11 DEF vars, inputs, tables, memory, ghosts
  <2>2. /\ pc = "resync" => e \in todo \/ Relisted(e)
        /\ pc # "resync" => Cached(e)
        /\ Checking \/ pc = "wait" => Listed(e)
    BY <2>1 DEF Remembered
  <2> QED
    BY <2>1, <2>2 DEF Relisted, Cached, Listed, Handled, Upcoming, Checking, Alive, InWindow
<1>12. ~Slow /\ ~Crash /\ ~Restart /\ \A f \in Event :
         ~SkipsTarget(f) /\ ~SyncFails(f) /\ ~CrashInSync(f)
  BY DEF Slow, Crash, Restart, SkipsTarget, SyncFails, CrashInSync, Dies, Fault, Deadlines, ghosts
<1>13. (SendDigest \/ SendReminder) => UNCHANGED trouble
  BY DEF SendDigest, SendReminder, Fault
<1> QED
  BY <1>3, <1>4, <1>5, <1>6, <1>7, <1>9, <1>10, <1>11, <1>12, <1>13 DEF Next, Run

\* At the end of the pass nothing waits any more.
LEMMA NothingMissed == Deadlines /\ Remembered => NoReminderMissed
BY DEF Remembered, Listed, Handled, NoReminderMissed, Checking

-----------------------------------------------------------------------------
(***************************************************************************)
(* The theorems.                                                           *)
(***************************************************************************)
Inv == TypeOK /\ Loops /\ MappedIsTrue /\ Accounted

\* A step that changes nothing keeps the invariant.
LEMMA InvStutter == Inv /\ UNCHANGED vars => Inv'
<1> SUFFICES ASSUME Inv, UNCHANGED vars PROVE Inv'
  OBVIOUS
<1>1. UNCHANGED <<now, truth, edits, dirty, known, sent, pc, nextDigest, nextReconcile, asof,
                  todo, cur, faults, trouble, skipped, reminders, digests>>
  BY DEF vars, inputs, tables, memory, ghosts
<1>2. TypeOK'
  BY TypeStepOrStutter DEF Inv
<1>3. Loops'
  BY <1>1 DEF Inv, Loops, Checking, Current, HasReminderForICalUID
<1>4. MappedIsTrue'
  BY <1>1 DEF Inv, MappedIsTrue, Skipped, Clock, Checking
<1>5. Accounted'
  BY <1>1 DEF Inv, Accounted, Recorded, Clock, Checking
<1> QED
  BY <1>2, <1>3, <1>4, <1>5 DEF Inv

\* Every reachable state has the loops of Engine.Run working on what they
\* listed, a cache that is true where it is mirrored, and a record, or a failure,
\* for every reminder that was delivered.
THEOREM NotificationsInvariant == Spec => []Inv
<1>1. Init => Inv
  BY TypeInit, LoopsInit, MappedInit, AccountedInit DEF Inv
<1>2. Inv /\ [Next]_vars => Inv'
  BY TypeStep, LoopsStep, MappedStep, AccountedStep, InvStutter DEF Inv
<1> QED
  BY <1>1, <1>2, PTL DEF Spec

\* The deadlines, the tables and the loops of Engine.Run keep their types, in
\* every schedule of edits, failures, crashes and restarts.
THEOREM NotificationsTypeCorrect == Spec => []TypeOK
<1>1. Inv => TypeOK
  BY DEF Inv
<1> QED
  BY <1>1, NotificationsInvariant, PTL

\* checkReminders announces a meeting once for each start, whatever calendars
\* it stands in, beyond what failures pay for: pruning the records, restarts and
\* moves away and back never send it again.
THEOREM RemindedAtMostOnce == Spec => []RemindedOnce
<1>1. Inv => RemindedOnce
  <2> SUFFICES ASSUME Inv, NEW k \in Meetings \X Start
               PROVE  reminders[k] <= 1 + faults
    BY DEF RemindedOnce
  <2>1. PICK m \in Meetings, s \in Start : k = <<m, s>>
    OBVIOUS
  <2> QED
    BY <2>1 DEF Inv, Accounted
<1> QED
  BY <1>1, NotificationsInvariant, PTL

\* A reminder about a start that the event does not have is about a row of the
\* cache without a mapping, or about one whose deletion was skipped for a target
\* whose authorisation had expired and that no Reconcile has made up for, unless
\* a change of the event is still unread.
THEOREM PhantomsExplained == Spec => []PhantomsHaveCause
<1>1. Inv => PhantomsHaveCause
  <2> SUFFICES ASSUME Inv, pc = "send", cur.e \notin dirty, known[cur.e].mapped
               PROVE  truth[cur.e] = cur.start \/ (cur.e \in skipped /\ trouble)
    BY KnownFacts DEF Inv, TypeOK, PhantomsHaveCause
  <2>1. Current(cur) /\ Clock = asof /\ asof \in Nat
    BY ConstantsAssumption DEF Inv, TypeOK, Loops, Clock, Checking
  <2>2. /\ cur.e \in Event /\ cur.start \in Start /\ cur.start > asof
        /\ known[cur.e].start = cur.start
    BY <2>1 DEF Current, Reminder
  <2>3. \/ cur.start \in {truth[cur.e], Gone} \/ cur.start < asof
        \/ Skipped(cur.e)
    BY <2>1, <2>2 DEF Inv, MappedIsTrue
  <2> QED
    BY <2>1, <2>2, <2>3 DEF Skipped
<1> QED
  BY <1>1, NotificationsInvariant, PTL

\* The deadline of the digest is always that of a day, and behind it are the
\* days that may have been announced.
THEOREM DigestInvariant == Spec => [](Digesting /\ Announced)
<1> DEFINE D == Digesting /\ Announced
<1>1. Init => D
  BY DigestInit
<1>2. Inv /\ Inv' /\ D /\ [Next]_vars => D'
  BY DigestStep DEF Inv
<1> QED
  BY <1>1, <1>2, NotificationsInvariant, PTL DEF Spec

\* A day is announced once, and once more for each answer that was lost: neither
\* a restart nor a deadline that is tried again announces it twice.
THEOREM DigestAtMostOnce == Spec => []DigestOnce
<1>1. Announced => DigestOnce
  BY DEF Announced, DigestOnce
<1> QED
  BY <1>1, DigestInvariant, PTL

\* No day is passed over without a failure of its own, wherever the process
\* crashed, was suspended or gave a day up.  Midnight is left out: a digest that
\* is due at the first interval of a day is missed by the tick that gives up the
\* day before.
THEOREM DigestNeverSkipped ==
  ASSUME DigestAt # 0
  PROVE  Spec => []DigestKept
<1>1. Init => Paid
  BY PaidInit
<1>2. Inv /\ Inv' /\ Digesting /\ Digesting' /\ Paid /\ [Next]_vars => Paid'
  BY PaidStep DEF Inv
<1>3. Inv /\ Digesting /\ Paid => DigestKept
  BY PastIsLost DEF Inv
<1> QED
  BY <1>1, <1>2, <1>3, NotificationsInvariant, DigestInvariant, PTL DEF Spec

\* When the window reaches a day and the lead ahead, every event that comes
\* within the lead has been announced, unless something failed since the last
\* Reconcile: the window slides over events no change ever reports, and the
\* daily Reconcile brings them in early enough.
THEOREM NoReminderIsMissed ==
  ASSUME DayLength + Lead <= Horizon
  PROVE  Spec => []NoReminderMissed
<1>1. Init => Deadlines /\ Remembered
  BY DeadlinesInit
<1>2. Inv /\ Deadlines /\ [Next]_vars => Deadlines'
  BY DeadlinesStep DEF Inv
<1>3. Inv /\ Inv' /\ Deadlines /\ Deadlines' /\ Remembered /\ [Next]_vars => Remembered'
  BY RememberedStep DEF Inv
<1>4. Deadlines /\ Remembered => NoReminderMissed
  BY NothingMissed
<1> QED
  BY <1>1, <1>2, <1>3, <1>4, NotificationsInvariant, PTL DEF Spec
=============================================================================
