------------------------- MODULE LoopPreventionProofs -------------------------
(***************************************************************************)
(* Proofs about LoopPrevention for every set of accounts and every bound,  *)
(* and, at the end, about RemoveAccount, which runs on it.                 *)
(***************************************************************************)
EXTENDS RemoveAccount, TLAPS

\* The chains of copies are opaque in the proofs of the actions: these are the
\* facts about them.
LEMMA EventFacts ==
  \A e \in Event : e \in Seq(Account) /\ Len(e) \in Nat /\ Len(e) >= 1 /\ Len(e) <= MaxLen
                   /\ Home(e) \in Account
<1> SUFFICES ASSUME NEW e \in Event
             PROVE  e \in Seq(Account) /\ Len(e) \in Nat /\ Len(e) >= 1 /\ Len(e) <= MaxLen
                    /\ e[Len(e)] \in Account
  BY DEF Home
<1>1. PICK n \in 1..MaxLen : e \in [1..n -> Account]
  BY DEF Event
<1>2. n \in Nat /\ n >= 1 /\ n <= MaxLen
  BY <1>1, LoopAssumption
<1>3. e \in Seq(Account)
  BY <1>1, <1>2
<1>4. Len(e) = n
  BY <1>1, <1>2, <1>3
<1> QED
  BY <1>1, <1>2, <1>3, <1>4

\* A sequence of accounts of a length within the bound is an event.
LEMMA SeqIsEvent ==
  \A s \in Seq(Account) : Len(s) >= 1 /\ Len(s) <= MaxLen => s \in Event
<1> SUFFICES ASSUME NEW s \in Seq(Account), Len(s) >= 1, Len(s) <= MaxLen
             PROVE  s \in Event
  OBVIOUS
<1>1. Len(s) \in 1..MaxLen /\ s \in [1..Len(s) -> Account]
  BY LoopAssumption
<1> QED
  BY <1>1 DEF Event

\* The blocker of an event.
LEMMA AppendFacts ==
  ASSUME NEW e \in Event, NEW t \in Account, Len(e) < MaxLen
  PROVE  /\ Append(e, t) \in Event
         /\ Len(Append(e, t)) = Len(e) + 1
         /\ Home(Append(e, t)) = t
         /\ Source(Append(e, t)) = e
<1>1. e \in Seq(Account) /\ Len(e) \in Nat /\ Len(e) >= 1
  BY EventFacts
<1>2. Append(e, t) \in Seq(Account) /\ Len(Append(e, t)) = Len(e) + 1
  BY <1>1
<1>3. Append(e, t) \in Event
  <2>1. Len(e) + 1 >= 1 /\ Len(e) + 1 <= MaxLen
    BY <1>1, LoopAssumption
  <2>2. Len(Append(e, t)) >= 1 /\ Len(Append(e, t)) <= MaxLen
    BY <1>2, <2>1, Zenon
  <2> QED
    BY <1>2, <2>2, SeqIsEvent, Zenon
<1>4. Append(e, t)[Len(e) + 1] = t
  BY <1>1
<1>5. SubSeq(Append(e, t), 1, Len(e)) = e
  BY <1>1
<1> QED
  BY <1>1, <1>2, <1>3, <1>4, <1>5 DEF Home, Source

\* A blocker is one place longer than its origin.
LEMMA SourceFacts ==
  ASSUME NEW c \in Event, Source(c) \in Event
  PROVE  Len(c) = Len(Source(c)) + 1
<1>1. c \in Seq(Account) /\ Len(c) \in Nat /\ Len(c) >= 1
  BY EventFacts
<1>2. PICK k \in Nat : k = Len(c) - 1
  BY <1>1
<1>3. Len(SubSeq(c, 1, k)) = k
  BY <1>1, <1>2
<1>4. Len(Source(c)) = k
  BY <1>2, <1>3 DEF Source
<1> QED
  BY <1>1, <1>2, <1>4

\* The real event of an account.
LEMMA RealFacts ==
  ASSUME NEW a \in Account
  PROVE  <<a>> \in Event /\ Len(<<a>>) = 1 /\ Home(<<a>>) = a
<1>1. <<a>> \in Seq(Account) /\ Len(<<a>>) = 1 /\ <<a>>[1] = a
  OBVIOUS
<1>2. Len(<<a>>) >= 1 /\ Len(<<a>>) <= MaxLen
  BY <1>1, LoopAssumption
<1>3. <<a>> \in Event
  BY <1>1, <1>2, SeqIsEvent, Zenon
<1> QED
  BY <1>1, <1>3 DEF Home

-----------------------------------------------------------------------------
\* The job of a pass.
LEMMA JobTyped ==
  ASSUME TypeOK, job /= NoJob
  PROVE  /\ job \in Job /\ job.o \in Event /\ job.left \subseteq Account
         /\ job.failed \in BOOLEAN /\ job.how \in {"upsert", "delete", "clear"}
BY DEF TypeOK, Job, NoJob

\* A job that takes blockers down has one step for each row of its event.
LEMMA TakeDownTyped ==
  ASSUME NEW how \in {"delete", "clear"}, NEW o \in Event
  PROVE  /\ TakeDown(how, o) \in Job /\ TakeDown(how, o) /= NoJob
         /\ TakeDown(how, o).how = how /\ TakeDown(how, o).o = o
         /\ TakeDown(how, o).left = RowsOf(o) /\ RowsOf(o) \subseteq TargetsOf(o)
BY DEF TakeDown, Job, NoJob, RowsOf, TargetsOf

\* A job that distributes has one step for each target of its event.
LEMMA DistributeTyped ==
  ASSUME NEW o \in Event
  PROVE  /\ Distribute(o) \in Job /\ Distribute(o) /= NoJob
         /\ Distribute(o).how = "upsert" /\ Distribute(o).o = o
         /\ Distribute(o).left = TargetsOf(o)
BY DEF Distribute, Job, NoJob, TargetsOf

\* A step of a job touches one blocker, on another account, one place longer
\* than the event of the job.
LEMMA BlockerOfJob ==
  ASSUME TypeOK, JobAge, job /= NoJob, NEW t \in job.left
  PROVE  /\ t \in Account /\ t /= Home(job.o)
         /\ Append(job.o, t) \in Event
         /\ Len(Append(job.o, t)) = Len(job.o) + 1
         /\ Home(Append(job.o, t)) = t
         /\ Source(Append(job.o, t)) = job.o
<1>1. job.o \in Event /\ job.left \subseteq Account
  BY JobTyped
<1>2. Len(job.o) < MaxLen
  <2>1. Len(job.o) <= 2 + faults /\ faults \in Nat /\ faults <= MaxFaults
    BY EventFacts, <1>1, LoopAssumption DEF JobAge, TypeOK
  <2> QED
    BY EventFacts, <1>1, <2>1, LoopAssumption
<1>3. t /= Home(job.o)
  BY DEF JobAge, TargetsOf
<1> QED
  BY <1>1, <1>2, <1>3, AppendFacts

\* After a step the job is the same with one target less.
LEMMA JobStep ==
  ASSUME TypeOK, job /= NoJob, NEW t, NEW f \in BOOLEAN,
         job' = [job EXCEPT !.left = @ \ {t}]
         \/ job' = [job EXCEPT !.left = @ \ {t}, !.failed = f]
  PROVE  /\ job' \in Job /\ job' /= NoJob
         /\ job'.how = job.how /\ job'.o = job.o /\ job'.left = job.left \ {t}
<1>1. job \in Job
  BY JobTyped
<1>2. /\ DOMAIN job' = DOMAIN job /\ job'.left = job.left \ {t}
      /\ job'.how = job.how /\ job'.o = job.o /\ job'.failed \in {job.failed, f}
  BY <1>1 DEF Job, NoJob
<1> QED
  BY <1>1, <1>2 DEF Job, NoJob

\* What a half-made blocker can be.
LEMMA MakingFacts ==
  ASSUME TypeOK, JobAge, Ages, NEW c, Making(c)
  PROVE  /\ c \in Event /\ Len(c) <= 2 + faults
         /\ \/ /\ job.how = "upsert" /\ job /= NoJob /\ Home(c) /= Home(job.o)
               /\ Source(c) = job.o /\ InPass
            \/ /\ phase \in {"pending", "restore"} /\ c \in todoE /\ Source(c) \in cached
<1>1. CASE job.how = "upsert" /\ \E t \in job.left : c = Append(job.o, t)
  <2>1. PICK t \in job.left : c = Append(job.o, t)
    BY <1>1
  <2>2. job /= NoJob
    BY <1>1 DEF NoJob
  <2>3. c \in Event /\ Len(c) = Len(job.o) + 1 /\ Home(c) /= Home(job.o) /\ Source(c) = job.o
    BY <2>1, <2>2, BlockerOfJob, Zenon
  <2>4. Len(job.o) <= 1 + faults /\ InPass
    BY <1>1, <2>2 DEF JobAge
  <2>5. job.o \in Event /\ Len(job.o) \in Nat /\ faults \in Nat
    BY <2>2, JobTyped, EventFacts DEF TypeOK
  <2>6. Len(c) <= 2 + faults
    BY <2>3, <2>4, <2>5
  <2> QED
    BY <1>1, <2>2, <2>3, <2>4, <2>6
<1>2. CASE phase \in {"pending", "restore"} /\ c \in todoE /\ Source(c) \in cached
  BY <1>2 DEF Ages, Younger, TypeOK
<1> QED
  BY <1>1, <1>2 DEF Making

-----------------------------------------------------------------------------
\* Type correctness.  It needs the ages: a chain is an event only while it is
\* within MaxLen.
LEMMA HalfMadeTyped ==
  ASSUME TypeOK, NEW c \in Event, HalfMade(c)
  PROVE  events' \subseteq Event /\ dirty' \subseteq Event
         /\ row' \in [Event -> {"none", "pending", "active"}]
BY DEF TypeOK, HalfMade, Created, calendars

\* A blocker deleted without its row leaves the rows alone and the events typed.
\* A blocker deleted without its row leaves the rows and the types alone.
LEMMA HalfTakenTyped ==
  ASSUME TypeOK, JobAge, HalfTaken
  PROVE  events' \subseteq Event /\ dirty' \subseteq Event /\ row' = row
<1>1. PICK t \in job.left : Deleted(Append(job.o, t)) \/ UNCHANGED calendars
  BY DEF HalfTaken
<1>2. job /= NoJob
  BY DEF HalfTaken, NoJob
<1>3. Append(job.o, t) \in Event
  BY <1>2, BlockerOfJob
<1> QED
  BY <1>1, <1>3 DEF HalfTaken, Deleted, calendars, TypeOK

\* The end of a pass clears what the pass remembered.
LEMMA EndPassTyped ==
  ASSUME TypeOK, EndPass
  PROVE  /\ phase' \in Phases /\ batch' = {} /\ vanished' = {} /\ later' = {}
         /\ ok' = TRUE /\ at' = at /\ phase' \in {"full", "idle"}
BY DEF TypeOK, EndPass, Phases

\* A phase of Reconcile begins with accounts or rows to go through.
LEMMA EnterTyped ==
  ASSUME NEW ph \in {"idle", "rebuild", "full", "clean", "pending", "adopt", "restore"},
         TypeOK, Enter(ph)
  PROVE  phase' \in Phases /\ todo' \subseteq Account /\ todoE' \subseteq Event
         /\ UNCHANGED pass
<1>1. StaleOrigins \subseteq Event /\ {c \in Event : row[c] = "pending"} \subseteq Event
  BY DEF StaleOrigins
<1> QED
  BY <1>1 DEF Enter, Phases

\* What Changes returns, listing or delta, are notices.
LEMMA NoticesTyped ==
  ASSUME TypeOK, NEW a \in Account
  PROVE  /\ {[e |-> e, there |-> TRUE] : e \in On(a)} \subseteq Notice
         /\ {[e |-> e, there |-> e \in events] : e \in {d \in dirty : Home(d) = a}}
              \subseteq Notice
<1>1. \A e \in Event : \A v \in BOOLEAN : [e |-> e, there |-> v] \in Notice
  BY DEF Notice
<1>2. On(a) \subseteq Event /\ {d \in dirty : Home(d) = a} \subseteq Event
  BY DEF On, TypeOK
<1>3. ASSUME NEW n \in {[e |-> e, there |-> TRUE] : e \in On(a)}
      PROVE  n \in Notice
  <2>1. PICK e \in On(a) : n = [e |-> e, there |-> TRUE]
    BY <1>3
  <2> QED
    BY <1>1, <1>2, <2>1
<1>4. ASSUME NEW n \in {[e |-> e, there |-> e \in events] : e \in {d \in dirty : Home(d) = a}}
      PROVE  n \in Notice
  <2>1. PICK e \in {d \in dirty : Home(d) = a} : n = [e |-> e, there |-> e \in events]
    BY <1>4
  <2>2. (e \in events) \in BOOLEAN /\ e \in Event
    BY <1>2
  <2> QED
    BY <1>1, <2>1, <2>2, Zenon
<1> QED
  BY <1>3, <1>4

\* Every step keeps the types.
LEMMA NextTyped == TypeOK /\ JobAge /\ Ages /\ [Next]_vars => TypeOK'
<1> SUFFICES ASSUME TypeOK, JobAge, Ages, [Next]_vars PROVE TypeOK'
  OBVIOUS
<1> USE DEF calendars, pass, loops, bounds
<1>1. CASE UNCHANGED vars
  BY <1>1 DEF vars, TypeOK
<1>2. CASE Reconcile
  <2>1. Enter("rebuild")
    BY <1>2 DEF Reconcile
  <2>2. phase' \in Phases /\ todo' \subseteq Account /\ todoE' \subseteq Event
    BY <2>1, EnterTyped
  <2> QED
    BY <1>2, <2>1, <2>2 DEF Reconcile, Enter, TypeOK
<1>3. ASSUME NEW a \in Account, SyncCalendar(a) PROVE TypeOK'
  <2>1. batch' \subseteq Notice
    BY <1>3, NoticesTyped DEF SyncCalendar
  <2> QED
    BY <1>3, <2>1 DEF SyncCalendar, Phases, TypeOK
<1>4. ASSUME NEW a \in Account, UserCreates(a) PROVE TypeOK'
  BY <1>4, RealFacts, LoopAssumption DEF UserCreates, Created, Edited, TypeOK
<1>5. ASSUME NEW e \in events, UserDeletes(e) PROVE TypeOK'
  BY <1>5, LoopAssumption DEF UserDeletes, Deleted, Edited, TypeOK
<1>6. CASE FinishEvent
  BY <1>6 DEF FinishEvent, TypeOK
<1>7. CASE SetCursor
  <2>1. EndPass
    BY <1>7 DEF SetCursor
  <2> QED
    BY <1>7, <2>1, EndPassTyped DEF SetCursor, TypeOK
<1>8. CASE PhaseDone
  <2>1. /\ NextPhase[phase] \in {"idle", "rebuild", "full", "clean", "pending", "adopt",
                                 "restore"}
        /\ Enter(NextPhase[phase])
    BY <1>8 DEF PhaseDone, NextPhase
  <2>2. phase' \in Phases /\ todo' \subseteq Account /\ todoE' \subseteq Event
        /\ UNCHANGED pass
    BY <2>1, EnterTyped
  <2>3. calm' \in -1..2
    BY <1>8 DEF PhaseDone, TypeOK
  <2> QED
    BY <1>8, <2>2, <2>3 DEF PhaseDone, TypeOK
<1>9. ASSUME NEW n \in batch, processEvent(n) PROVE TypeOK'
  <2>1. n.e \in Event /\ batch' \subseteq Notice
    BY <1>9 DEF processEvent, Notice, TypeOK
  <2>2. job' \in {NoJob} \cup Job
    BY <1>9, <2>1, TakeDownTyped, DistributeTyped DEF processEvent, TypeOK
  <2>3. cached' \subseteq Event
    BY <1>9, <2>1 DEF processEvent, TypeOK
  <2> QED
    BY <1>9, <2>1, <2>2, <2>3 DEF processEvent, TypeOK
<1>10. ASSUME NEW e \in vanished, DropVanished(e) PROVE TypeOK'
  <2>1. job' \in {NoJob} \cup Job
    BY <1>10, TakeDownTyped DEF DropVanished, TypeOK
  <2> QED
    BY <1>10, <2>1 DEF DropVanished, TypeOK
<1>11. ASSUME NEW a \in Account, FullResync(a) PROVE TypeOK'
  <2>1. batch' \subseteq Notice
    BY <1>11, NoticesTyped DEF FullResync
  <2> QED
    BY <1>11, <2>1 DEF FullResync, Phases, TypeOK
<1>12. ASSUME NEW t \in Account, upsertBlockerOnTarget(t) PROVE TypeOK'
  <2>1. job /= NoJob /\ t \in job.left
    BY <1>12 DEF upsertBlockerOnTarget, Step, NoJob
  <2>2. Append(job.o, t) \in Event /\ job' \in Job
    BY <1>12, <2>1, BlockerOfJob, JobStep DEF upsertBlockerOnTarget, Step
  <2>3. events' \subseteq Event /\ dirty' \subseteq Event
        /\ row' \in [Event -> {"none", "pending", "active"}]
    BY <1>12, <2>2 DEF upsertBlockerOnTarget, Record, Created, TypeOK
  <2> QED
    BY <1>12, <2>2, <2>3 DEF upsertBlockerOnTarget, TypeOK
<1>13. ASSUME NEW t \in Account, deleteBlockersForOrigin(t) PROVE TypeOK'
  <2>1. job /= NoJob /\ t \in job.left
    BY <1>13 DEF deleteBlockersForOrigin, Step, NoJob
  <2>2. Append(job.o, t) \in Event /\ job' \in Job
    BY <1>13, <2>1, BlockerOfJob, JobStep DEF deleteBlockersForOrigin, Step
  <2>3. events' \subseteq Event /\ dirty' \subseteq Event
        /\ row' \in [Event -> {"none", "pending", "active"}]
    BY <1>13, <2>2 DEF deleteBlockersForOrigin, Deleted, TypeOK
  <2> QED
    BY <1>13, <2>2, <2>3 DEF deleteBlockersForOrigin, TypeOK
<1>14. ASSUME NEW a \in Account, ListAccount(a) PROVE TypeOK'
  BY <1>14 DEF ListAccount, Blockers, On, TypeOK
<1>15. ASSUME NEW a \in Account, rebuildMappingsFromTags(a) PROVE TypeOK'
  BY <1>15 DEF rebuildMappingsFromTags, TypeOK
<1>16. ASSUME NEW o \in todoE, cleanStaleMappings(o) PROVE TypeOK'
  <2>1. job' \in {NoJob} \cup Job
    BY <1>16, TakeDownTyped DEF cleanStaleMappings, TypeOK
  <2> QED
    BY <1>16, <2>1 DEF cleanStaleMappings, TypeOK
<1>17. ASSUME NEW c \in todoE, resolvePending(c) PROVE TypeOK'
  BY <1>17 DEF resolvePending, Record, Created, TypeOK
<1>18. ASSUME NEW c \in todoE, adoptOrphan(c) PROVE TypeOK'
  BY <1>18 DEF adoptOrphan, Deleted, TypeOK
<1>19. ASSUME NEW c \in todoE, restoreMissingBlockers(c) PROVE TypeOK'
  BY <1>19 DEF restoreMissingBlockers, Record, Created, TypeOK
<1>20. ASSUME Fault PROVE faults' \in 0..MaxFaults /\ calm' \in -1..2 /\ edits' = edits
  BY <1>20, LoopAssumption DEF Fault, TypeOK
<1>21. CASE CallFails
  <2>1. events' \subseteq Event /\ dirty' \subseteq Event /\ todoE' \subseteq Event
        /\ row' \in [Event -> {"none", "pending", "active"}]
    BY <1>21, HalfMadeTyped, HalfTakenTyped DEF CallFails, TypeOK
  <2>2. /\ phase' \in Phases /\ batch' \subseteq Notice /\ vanished' \subseteq Event
        /\ later' \subseteq Event /\ ok' \in BOOLEAN /\ at' \in Account
    <3>1. CASE EndPass
      BY <3>1, EndPassTyped DEF TypeOK
    <3>2. CASE UNCHANGED <<phase, pass>>
      BY <3>2 DEF TypeOK
    <3> QED
      BY <1>21, <3>1, <3>2 DEF CallFails
  <2> QED
    BY <1>20, <1>21, <2>1, <2>2 DEF CallFails, TypeOK
<1>22. CASE Crash
  <2>1. events' \subseteq Event /\ dirty' \subseteq Event
        /\ row' \in [Event -> {"none", "pending", "active"}]
    BY <1>22, HalfMadeTyped, HalfTakenTyped DEF Crash, TypeOK
  <2> QED
    BY <1>20, <1>22, <2>1 DEF Crash, Phases, TypeOK
<1>23. CASE DatabaseLost
  BY <1>20, <1>23 DEF DatabaseLost, TypeOK
<1>24. ASSUME NEW t \in Account, TargetAuthFails(t) PROVE TypeOK'
  <2>1. job' \in Job
    BY <1>24, JobStep DEF TargetAuthFails
  <2>2. row' \in [Event -> {"none", "pending", "active"}]
    BY <1>24 DEF TargetAuthFails, TypeOK
  <2> QED
    BY <1>20, <1>24, <2>1, <2>2 DEF TargetAuthFails, TypeOK
<1>25. ASSUME NEW a \in Account, ListingFails(a) PROVE TypeOK'
  BY <1>20, <1>25 DEF ListingFails, TypeOK
<1>26. ASSUME NEW a \in Account, CursorExpires(a) PROVE TypeOK'
  BY <1>20, <1>26 DEF CursorExpires, TypeOK
<1> QED
  BY <1>1, <1>2, <1>3, <1>4, <1>5, <1>6, <1>7, <1>8, <1>9, <1>10, <1>11, <1>12, <1>13,
     <1>14, <1>15, <1>16, <1>17, <1>18, <1>19, <1>21, <1>22, <1>23, <1>24, <1>25, <1>26
     DEF Next, Continue, Environment, Failure

\* Every step keeps the bound on the length of paths: one case per action.
LEMMA Aged ==
  ASSUME TypeOK, TypeOK', Generations, [Next]_vars
  PROVE  Generations'
<1> USE DEF calendars, pass, loops, bounds
<1>0. /\ faults \in Nat /\ faults' \in Nat
      /\ Ages /\ NoticeAges /\ JobAge /\ OnlyIntents /\ OfThePass
  BY LoopAssumption DEF Generations, TypeOK
<1>a. \A c \in Event : row[c] = "active" => Len(c) <= 2 + faults
  BY <1>0 DEF Ages, Younger
<1>1. CASE UNCHANGED vars
  BY <1>0, <1>1 DEF vars, Generations, Ages, NoticeAges, JobAge, OnlyIntents, OfThePass,
                    Younger, IsBlocker, InPass
<1>2. CASE Reconcile
  <2>1. Ages'
    BY <1>0, <1>2, EventFacts DEF Reconcile, Enter, Ages, Younger, IsBlocker, TypeOK, NoJob
  <2>2. NoticeAges'
    BY <1>0, <1>2, EventFacts DEF Reconcile, Enter, NoticeAges, Ages, Younger, IsBlocker,
       TypeOK, NoJob
  <2>3. JobAge'
    BY <1>0, <1>2, EventFacts DEF Reconcile, Enter, JobAge, Ages, Younger, InPass, NoticeAges,
       IsBlocker, TypeOK, NoJob
  <2>4. OnlyIntents'
    BY <1>0, <1>2, EventFacts DEF Reconcile, Enter, OnlyIntents, JobAge, InPass, IsBlocker,
       TypeOK, NoJob
  <2>5. OfThePass'
    BY <1>0, <1>2, EventFacts DEF Reconcile, Enter, OfThePass, InPass, JobAge, IsBlocker,
       TypeOK, NoJob
  <2> QED
    BY <2>1, <2>2, <2>3, <2>4, <2>5 DEF Generations
<1>3. ASSUME NEW a \in Account, SyncCalendar(a) PROVE Generations'
  <2>1. Ages'
    BY <1>0, <1>3, EventFacts DEF SyncCalendar, On, Ages, Younger, IsBlocker, TypeOK, NoJob
  <2>2. NoticeAges'
    <3>1. UNCHANGED <<row, faults, events>>
      BY <1>3 DEF SyncCalendar
    <3>2. ASSUME NEW n \in batch'
          PROVE  n.e \in events \cup dirty /\ (n.there => n.e \in events)
      <4>1. CASE cursor[a] = "valid"
        <5>1. PICK d \in dirty : n = [e |-> d, there |-> d \in events]
          BY <1>3, <3>2, <4>1 DEF SyncCalendar
        <5> QED
          BY <5>1
      <4>2. CASE cursor[a] /= "valid"
        <5>1. PICK d \in events : n = [e |-> d, there |-> TRUE]
          BY <1>3, <3>2, <4>2 DEF SyncCalendar, On
        <5> QED
          BY <5>1
      <4> QED
        BY <4>1, <4>2
    <3> QED
      BY <1>0, <3>1, <3>2 DEF NoticeAges, Ages, Younger, IsBlocker
  <2>3. JobAge'
    BY <1>0, <1>3, EventFacts DEF SyncCalendar, On, JobAge, Ages, Younger, InPass, NoticeAges,
       IsBlocker, TypeOK, NoJob
  <2>4. OnlyIntents'
    BY <1>0, <1>3, EventFacts DEF SyncCalendar, On, OnlyIntents, JobAge, InPass, IsBlocker,
       TypeOK, NoJob
  <2>5. OfThePass'
    BY <1>0, <1>3, EventFacts DEF SyncCalendar, On, OfThePass, InPass, JobAge, IsBlocker,
       TypeOK, NoJob
  <2> QED
    BY <2>1, <2>2, <2>3, <2>4, <2>5 DEF Generations
<1>4. ASSUME NEW a \in Account, UserCreates(a) PROVE Generations'
  <2>1. Ages'
    <3>1. <<a>> \in Event /\ Len(<<a>>) = 1
      BY RealFacts
    <3>2. PICK r : r = <<a>>
      OBVIOUS
    <3>3. /\ events' = events \cup {r} /\ dirty' = dirty \cup {r}
          /\ later' \subseteq later \cup {r}
          /\ UNCHANGED <<row, cached, vanished, todoE, faults>>
      BY <1>4, <3>2 DEF UserCreates, Created, Edited
    <3>4. r \in Event /\ Len(r) = 1
      BY <3>1, <3>2
    <3>5. Len(r) <= 1 + faults /\ Len(r) <= 2 + faults
      BY <1>0, <3>4
    <3>6. Younger(events \cup dirty \cup later \cup todoE, 2)'
      BY <1>0, <3>3, <3>5 DEF Ages, Younger
    <3>7. Younger({e \in events : ~IsBlocker(e)}, 1)'
      BY <1>0, <3>3, <3>5 DEF Ages, Younger, IsBlocker
    <3> QED
      BY <1>0, <3>3, <3>6, <3>7 DEF Ages, Younger
  <2>2. NoticeAges'
    BY <1>0, <1>4, EventFacts, RealFacts DEF UserCreates, Created, Edited, NoticeAges, Ages,
       Younger, IsBlocker, TypeOK, NoJob
  <2>3. JobAge'
    BY <1>0, <1>4, EventFacts, RealFacts DEF UserCreates, Created, Edited, JobAge, Ages,
       Younger, InPass, NoticeAges, IsBlocker, TypeOK, NoJob
  <2>4. OnlyIntents'
    BY <1>0, <1>4, EventFacts, RealFacts DEF UserCreates, Created, Edited, OnlyIntents, JobAge,
       InPass, IsBlocker, TypeOK, NoJob
  <2>5. OfThePass'
    BY <1>0, <1>4, EventFacts, RealFacts DEF UserCreates, Created, Edited, OfThePass, InPass,
       JobAge, IsBlocker, TypeOK, NoJob
  <2> QED
    BY <2>1, <2>2, <2>3, <2>4, <2>5 DEF Generations
<1>5. ASSUME NEW e \in events, UserDeletes(e) PROVE Generations'
  <2>1. Ages'
    BY <1>0, <1>5, EventFacts DEF UserDeletes, Deleted, Edited, Ages, Younger, IsBlocker,
       TypeOK, NoJob
  <2>2. NoticeAges'
    BY <1>0, <1>5, EventFacts DEF UserDeletes, Deleted, Edited, NoticeAges, Ages, Younger,
       IsBlocker, TypeOK, NoJob
  <2>3. JobAge'
    BY <1>0, <1>5, EventFacts DEF UserDeletes, Deleted, Edited, JobAge, Ages, Younger, InPass,
       NoticeAges, IsBlocker, TypeOK, NoJob
  <2>4. OnlyIntents'
    BY <1>0, <1>5, EventFacts DEF UserDeletes, Deleted, Edited, OnlyIntents, JobAge, InPass,
       IsBlocker, TypeOK, NoJob
  <2>5. OfThePass'
    BY <1>0, <1>5, EventFacts DEF UserDeletes, Deleted, Edited, OfThePass, InPass, JobAge,
       IsBlocker, TypeOK, NoJob
  <2> QED
    BY <2>1, <2>2, <2>3, <2>4, <2>5 DEF Generations
<1>6. CASE FinishEvent
  <2>1. Ages'
    BY <1>0, <1>6, EventFacts DEF FinishEvent, Ages, Younger, IsBlocker, TypeOK, NoJob
  <2>2. NoticeAges'
    BY <1>0, <1>6, EventFacts DEF FinishEvent, NoticeAges, Ages, Younger, IsBlocker, TypeOK, NoJob
  <2>3. JobAge'
    BY <1>0, <1>6, EventFacts DEF FinishEvent, JobAge, Ages, Younger, InPass, NoticeAges,
       IsBlocker, TypeOK, NoJob
  <2>4. OnlyIntents'
    BY <1>0, <1>6, EventFacts DEF FinishEvent, OnlyIntents, JobAge, InPass, IsBlocker, TypeOK, NoJob
  <2>5. OfThePass'
    BY <1>0, <1>6, EventFacts DEF FinishEvent, OfThePass, InPass, JobAge, IsBlocker, TypeOK, NoJob
  <2> QED
    BY <2>1, <2>2, <2>3, <2>4, <2>5 DEF Generations
<1>7. CASE SetCursor
  <2>1. Ages'
    BY <1>0, <1>7, EventFacts DEF SetCursor, EndPass, Ages, Younger, IsBlocker, TypeOK, NoJob
  <2>2. NoticeAges'
    BY <1>0, <1>7, EventFacts DEF SetCursor, EndPass, NoticeAges, Ages, Younger, IsBlocker,
       TypeOK, NoJob
  <2>3. JobAge'
    BY <1>0, <1>7, EventFacts DEF SetCursor, EndPass, JobAge, Ages, Younger, InPass, NoticeAges,
       IsBlocker, TypeOK, NoJob
  <2>4. OnlyIntents'
    BY <1>0, <1>7, EventFacts DEF SetCursor, EndPass, OnlyIntents, JobAge, InPass, IsBlocker,
       TypeOK, NoJob
  <2>5. OfThePass'
    BY <1>0, <1>7, EventFacts DEF SetCursor, EndPass, OfThePass, InPass, JobAge, IsBlocker,
       TypeOK, NoJob
  <2> QED
    BY <2>1, <2>2, <2>3, <2>4, <2>5 DEF Generations
<1>8. CASE PhaseDone
  <2>1. Ages'
    <3>1. UNCHANGED <<calendars, row, cached, vanished, later, faults>>
      BY <1>8 DEF PhaseDone, Enter
    <3>2. \A c \in StaleOrigins : c \in Event /\ Len(c) <= 2 + faults
      <4>1. SUFFICES ASSUME NEW o \in StaleOrigins PROVE o \in Event /\ Len(o) <= 2 + faults
        OBVIOUS
      <4>2. PICK t \in TargetsOf(o) : row[Append(o, t)] = "active"
        BY <4>1 DEF StaleOrigins
      <4>3. o \in Event /\ t \in Account /\ Len(o) < MaxLen
        BY <4>1, <4>2 DEF StaleOrigins, TargetsOf
      <4>4. Append(o, t) \in Event /\ Len(Append(o, t)) = Len(o) + 1
        BY <4>3, AppendFacts
      <4>5. Len(Append(o, t)) <= 2 + faults
        BY <1>0, <4>2, <4>4, Zenon DEF Ages, Younger
      <4>6. Len(o) \in Nat
        BY <4>3, EventFacts
      <4> QED
        BY <1>0, <4>3, <4>4, <4>5, <4>6
    <3>3. \A c \in todoE' : c \in StaleOrigins \/ (c \in Event /\ row[c] = "pending")
      BY <1>8 DEF PhaseDone, Enter
    <3>4. \A c \in todoE' : Len(c) <= 2 + faults
      BY <1>0, <3>2, <3>3 DEF Ages, Younger
    <3> QED
      BY <1>0, <3>1, <3>4 DEF Ages, Younger, IsBlocker
  <2>2. NoticeAges'
    BY <1>0, <1>8, EventFacts DEF PhaseDone, Enter, StaleOrigins, NextPhase, NoticeAges, Ages,
       Younger, IsBlocker, TypeOK, NoJob
  <2>3. JobAge'
    BY <1>0, <1>8, EventFacts DEF PhaseDone, Enter, StaleOrigins, NextPhase, JobAge, Ages,
       Younger, InPass, NoticeAges, IsBlocker, TypeOK, NoJob
  <2>4. OnlyIntents'
    BY <1>0, <1>8, EventFacts DEF PhaseDone, Enter, StaleOrigins, NextPhase, OnlyIntents,
       JobAge, InPass, IsBlocker, TypeOK, NoJob
  <2>5. OfThePass'
    BY <1>0, <1>8, EventFacts DEF PhaseDone, Enter, StaleOrigins, NextPhase, OfThePass, InPass,
       JobAge, IsBlocker, TypeOK, NoJob
  <2> QED
    BY <2>1, <2>2, <2>3, <2>4, <2>5 DEF Generations
<1>9. ASSUME NEW n \in batch, processEvent(n) PROVE Generations'
  <2>a. n \in Notice /\ n.e \in Event /\ Len(n.e) \in Nat /\ n.there \in BOOLEAN
    BY <1>9, EventFacts DEF TypeOK, Notice
  <2>b. InPass /\ job = NoJob /\ Home(n.e) = at
    BY <1>0, <1>9 DEF processEvent, OfThePass
  <2>c. /\ batch' \subseteq batch
        /\ UNCHANGED <<calendars, cursor, row, phase, at, vanished, later, todoE, faults>>
    BY <1>9 DEF processEvent
  <2>d. \/ UNCHANGED <<cached, job>>
        \/ job' = TakeDown("delete", n.e) /\ UNCHANGED cached
        \/ /\ job' = Distribute(n.e) /\ cached' = cached \cup {n.e}
           /\ n.there /\ ~IsBlocker(n.e)
    BY <1>9 DEF processEvent, Recognised
  <2>1. Ages'
    BY <1>0, <1>9, <2>a, <2>c, <2>d DEF Ages, Younger, NoticeAges, IsBlocker
  <2>2. NoticeAges'
    BY <1>0, <1>9, EventFacts, TakeDownTyped, DistributeTyped DEF processEvent, Recognised,
       Tagged, NoticeAges, Ages, Younger, IsBlocker, TypeOK, NoJob
  <2>3. JobAge'
    <3>1. /\ n.there /\ ~IsBlocker(n.e) => Len(n.e) <= 1 + faults
          /\ Len(n.e) <= 2 + faults
      BY <1>0, <1>9, <2>a DEF NoticeAges
    <3>2. InPass' /\ phase' = phase /\ faults' = faults
      BY <2>b, <2>c DEF InPass
    <3>3. CASE UNCHANGED <<cached, job>>
      BY <2>b, <3>3 DEF JobAge
    <3>4. CASE job' = TakeDown("delete", n.e)
      BY <2>a, <3>1, <3>2, <3>4, TakeDownTyped DEF JobAge
    <3>5. CASE job' = Distribute(n.e) /\ n.there /\ ~IsBlocker(n.e)
      BY <2>a, <3>1, <3>2, <3>5, DistributeTyped DEF JobAge
    <3> QED
      BY <2>d, <3>3, <3>4, <3>5
  <2>4. OnlyIntents'
    BY <1>0, <1>9, EventFacts, TakeDownTyped, DistributeTyped DEF processEvent, Recognised,
       Tagged, OnlyIntents, JobAge, InPass, IsBlocker, TypeOK, NoJob
  <2>5. OfThePass'
    <3>1. job' /= NoJob => job'.o = n.e
      BY <2>a, <2>b, <2>d, TakeDownTyped, DistributeTyped
    <3> QED
      BY <1>0, <2>b, <2>c, <3>1 DEF OfThePass, InPass
  <2> QED
    BY <2>1, <2>2, <2>3, <2>4, <2>5 DEF Generations
<1>10. ASSUME NEW e \in vanished, DropVanished(e) PROVE Generations'
  <2>1. Ages'
    BY <1>0, <1>10, EventFacts, TakeDownTyped, DistributeTyped DEF DropVanished, Ages, Younger,
       IsBlocker, TypeOK, NoJob
  <2>2. NoticeAges'
    BY <1>0, <1>10, EventFacts, TakeDownTyped, DistributeTyped DEF DropVanished, NoticeAges,
       Ages, Younger, IsBlocker, TypeOK, NoJob
  <2>3. JobAge'
    BY <1>0, <1>10, EventFacts, TakeDownTyped, DistributeTyped DEF DropVanished, JobAge, Ages,
       Younger, InPass, NoticeAges, IsBlocker, TypeOK, NoJob
  <2>4. OnlyIntents'
    BY <1>0, <1>10, EventFacts, TakeDownTyped, DistributeTyped DEF DropVanished, OnlyIntents,
       JobAge, InPass, IsBlocker, TypeOK, NoJob
  <2>5. OfThePass'
    BY <1>0, <1>10, EventFacts, TakeDownTyped, DistributeTyped DEF DropVanished, OfThePass,
       InPass, JobAge, IsBlocker, TypeOK, NoJob
  <2> QED
    BY <2>1, <2>2, <2>3, <2>4, <2>5 DEF Generations
<1>11. ASSUME NEW a \in Account, FullResync(a) PROVE Generations'
  <2>1. Ages'
    BY <1>0, <1>11, EventFacts DEF FullResync, On, Ages, Younger, IsBlocker, TypeOK, NoJob
  <2>2. NoticeAges'
    BY <1>0, <1>11, EventFacts DEF FullResync, On, NoticeAges, Ages, Younger, IsBlocker, TypeOK,
       NoJob
  <2>3. JobAge'
    BY <1>0, <1>11, EventFacts DEF FullResync, On, JobAge, Ages, Younger, InPass, NoticeAges,
       IsBlocker, TypeOK, NoJob
  <2>4. OnlyIntents'
    BY <1>0, <1>11, EventFacts DEF FullResync, On, OnlyIntents, JobAge, InPass, IsBlocker,
       TypeOK, NoJob
  <2>5. OfThePass'
    BY <1>0, <1>11, EventFacts DEF FullResync, On, OfThePass, InPass, JobAge, IsBlocker, TypeOK,
       NoJob
  <2> QED
    BY <2>1, <2>2, <2>3, <2>4, <2>5 DEF Generations
<1>12. ASSUME NEW t \in Account, upsertBlockerOnTarget(t) PROVE Generations'
  <2> DEFINE c == Append(job.o, t)
  <2>a. job /= NoJob /\ t \in job.left /\ job.how = "upsert" /\ InPass
    BY <1>0, <1>12 DEF upsertBlockerOnTarget, Step, NoJob, JobAge
  <2>b. c \in Event /\ Len(c) = Len(job.o) + 1 /\ Home(c) /= Home(job.o) /\ job.o \in Event
    BY <1>0, <2>a, BlockerOfJob, JobTyped, Zenon
  <2>c. Len(c) <= 2 + faults /\ Home(job.o) = at
    BY <1>0, <2>a, <2>b, EventFacts DEF JobAge, OfThePass
  <2>d. /\ events' \subseteq events \cup {c} /\ dirty' \subseteq dirty \cup {c}
        /\ \A e \in Event : row'[e] = IF e = c THEN "active" ELSE row[e]
        /\ UNCHANGED <<cursor, cached, phase, pass, loops, bounds>>
    BY <1>12, <2>b DEF upsertBlockerOnTarget, Record, Created, TypeOK
  <2> HIDE DEF c
  <2>1. Ages'
    BY <1>0, <2>b, <2>c, <2>d, EventFacts DEF Ages, Younger, IsBlocker, TypeOK
  <2>2. NoticeAges'
    <3>1. \A n \in batch : n.e \in Event /\ n.e /= c
      BY <1>0, <2>a, <2>b, <2>c DEF OfThePass, TypeOK, Notice
    <3> QED
      BY <1>0, <2>d, <3>1 DEF NoticeAges, IsBlocker
  <2>3. JobAge'
    <3>1. job'.how = job.how /\ job'.o = job.o /\ job'.left \subseteq job.left
      BY <1>0, <1>12, <2>a, JobStep DEF upsertBlockerOnTarget, Step
    <3>2. phase' = phase /\ faults' = faults
      BY <2>d DEF bounds
    <3> QED
      BY <1>0, <2>a, <3>1, <3>2 DEF JobAge, InPass
  <2>4. OnlyIntents'
    BY <2>a, <2>d DEF OnlyIntents, InPass
  <2>5. OfThePass'
    BY <1>0, <1>12, EventFacts, BlockerOfJob, JobTyped, JobStep DEF upsertBlockerOnTarget, Step,
       Record, Created, OfThePass, InPass, JobAge, IsBlocker, TypeOK, NoJob
  <2> QED
    BY <2>1, <2>2, <2>3, <2>4, <2>5 DEF Generations
<1>13. ASSUME NEW t \in Account, deleteBlockersForOrigin(t) PROVE Generations'
  <2> DEFINE c == Append(job.o, t)
  <2>a. job /= NoJob /\ t \in job.left /\ (job.how = "clear" \/ InPass)
    BY <1>0, <1>13 DEF deleteBlockersForOrigin, Step, NoJob, JobAge
  <2>b. c \in Event /\ Home(c) /= Home(job.o) /\ job.o \in Event
    BY <1>0, <2>a, BlockerOfJob, JobTyped, Zenon
  <2>c. /\ IF row[c] = "active" THEN events' = events \ {c} /\ dirty' = dirty \cup {c}
                               ELSE UNCHANGED calendars
        /\ \A e \in Event : row'[e] = IF e = c THEN "none" ELSE row[e]
        /\ UNCHANGED <<cursor, cached, phase, pass, loops, bounds>>
    BY <1>13, <2>b DEF deleteBlockersForOrigin, Deleted, TypeOK
  <2> HIDE DEF c
  <2>1. Ages'
    BY <1>0, <2>b, <2>c, EventFacts DEF Ages, Younger, IsBlocker, TypeOK
  <2>2. NoticeAges'
    <3>1. CASE InPass
      <4>1. \A n \in batch : n.e \in Event /\ n.e /= c
        BY <1>0, <2>a, <2>b, <3>1 DEF OfThePass, TypeOK, Notice
      <4> QED
        BY <1>0, <2>c, <4>1 DEF NoticeAges, IsBlocker
    <3>2. CASE ~InPass
      BY <1>0, <2>c, <3>2 DEF NoticeAges, OfThePass
    <3> QED
      BY <3>1, <3>2
  <2>3. JobAge'
    <3>1. job'.how = job.how /\ job'.o = job.o /\ job'.left \subseteq job.left
      BY <1>0, <1>13, <2>a, JobStep DEF deleteBlockersForOrigin, Step
    <3>2. phase' = phase /\ faults' = faults
      BY <2>c DEF bounds
    <3> QED
      BY <1>0, <2>a, <3>1, <3>2 DEF JobAge, InPass
  <2>4. OnlyIntents'
    BY <1>0, <1>13, EventFacts, BlockerOfJob, JobTyped, JobStep DEF deleteBlockersForOrigin,
       Step, Deleted, OnlyIntents, JobAge, InPass, IsBlocker, TypeOK, NoJob
  <2>5. OfThePass'
    BY <1>0, <1>13, EventFacts, BlockerOfJob, JobTyped, JobStep DEF deleteBlockersForOrigin,
       Step, Deleted, OfThePass, InPass, JobAge, IsBlocker, TypeOK, NoJob
  <2> QED
    BY <2>1, <2>2, <2>3, <2>4, <2>5 DEF Generations
<1>14. ASSUME NEW a \in Account, ListAccount(a) PROVE Generations'
  <2>1. Ages'
    BY <1>0, <1>14, EventFacts DEF ListAccount, Blockers, On, Ages, Younger, IsBlocker, TypeOK,
       NoJob
  <2>2. NoticeAges'
    BY <1>0, <1>14, EventFacts DEF ListAccount, Blockers, On, NoticeAges, Ages, Younger,
       IsBlocker, TypeOK, NoJob
  <2>3. JobAge'
    BY <1>0, <1>14, EventFacts DEF ListAccount, Blockers, On, JobAge, Ages, Younger, InPass,
       NoticeAges, IsBlocker, TypeOK, NoJob
  <2>4. OnlyIntents'
    BY <1>0, <1>14, EventFacts DEF ListAccount, Blockers, On, OnlyIntents, JobAge, InPass,
       IsBlocker, TypeOK, NoJob
  <2>5. OfThePass'
    BY <1>0, <1>14, EventFacts DEF ListAccount, Blockers, On, OfThePass, InPass, JobAge,
       IsBlocker, TypeOK, NoJob
  <2> QED
    BY <2>1, <2>2, <2>3, <2>4, <2>5 DEF Generations
<1>15. ASSUME NEW a \in Account, rebuildMappingsFromTags(a) PROVE Generations'
  <2>1. Ages'
    BY <1>0, <1>15, EventFacts DEF rebuildMappingsFromTags, Blockers, On, Ages, Younger,
       IsBlocker, TypeOK, NoJob
  <2>2. NoticeAges'
    BY <1>0, <1>15 DEF rebuildMappingsFromTags, OfThePass, InPass, NoticeAges
  <2>3. JobAge'
    BY <1>0, <1>15, EventFacts DEF rebuildMappingsFromTags, Blockers, On, JobAge, Ages, Younger,
       InPass, NoticeAges, IsBlocker, TypeOK, NoJob
  <2>4. OnlyIntents'
    BY <1>0, <1>15, EventFacts DEF rebuildMappingsFromTags, Blockers, On, OnlyIntents, JobAge,
       InPass, IsBlocker, TypeOK, NoJob
  <2>5. OfThePass'
    BY <1>0, <1>15, EventFacts DEF rebuildMappingsFromTags, Blockers, On, OfThePass, InPass,
       JobAge, IsBlocker, TypeOK, NoJob
  <2> QED
    BY <2>1, <2>2, <2>3, <2>4, <2>5 DEF Generations
<1>16. ASSUME NEW o \in todoE, cleanStaleMappings(o) PROVE Generations'
  <2>1. Ages'
    BY <1>0, <1>16, EventFacts, TakeDownTyped, DistributeTyped DEF cleanStaleMappings, Ages,
       Younger, IsBlocker, TypeOK, NoJob
  <2>2. NoticeAges'
    BY <1>0, <1>16, EventFacts, TakeDownTyped, DistributeTyped DEF cleanStaleMappings,
       NoticeAges, Ages, Younger, IsBlocker, TypeOK, NoJob
  <2>3. JobAge'
    BY <1>0, <1>16, EventFacts, TakeDownTyped, DistributeTyped DEF cleanStaleMappings, JobAge,
       Ages, Younger, InPass, NoticeAges, IsBlocker, TypeOK, NoJob
  <2>4. OnlyIntents'
    BY <1>0, <1>16, EventFacts, TakeDownTyped, DistributeTyped DEF cleanStaleMappings,
       OnlyIntents, JobAge, InPass, IsBlocker, TypeOK, NoJob
  <2>5. OfThePass'
    BY <1>0, <1>16, EventFacts, TakeDownTyped, DistributeTyped DEF cleanStaleMappings,
       OfThePass, InPass, JobAge, IsBlocker, TypeOK, NoJob
  <2> QED
    BY <2>1, <2>2, <2>3, <2>4, <2>5 DEF Generations
<1>17. ASSUME NEW c \in todoE, resolvePending(c) PROVE Generations'
  <2>1. Ages'
    <3>1. c \in Event /\ Len(c) <= 2 + faults /\ ~IsBlocker(c)
      BY <1>0, <1>17 DEF resolvePending, Ages, Younger, OnlyIntents, TypeOK
    <3>2. /\ UNCHANGED <<cached, vanished, later, faults>> /\ todoE' \subseteq todoE
          /\ dirty' \subseteq dirty \cup {c}
          /\ \A e \in Event : e /= c => row'[e] = row[e]
          /\ \/ events' = events \cup {c} /\ row'[c] = "active"
             \/ events' = events /\ row'[c] = "none"
      BY <1>17, <3>1 DEF resolvePending, Record, Created, TypeOK
    <3> QED
      BY <1>0, <3>1, <3>2 DEF Ages, Younger, IsBlocker, TypeOK
  <2>2. NoticeAges'
    BY <1>0, <1>17 DEF resolvePending, OfThePass, InPass, NoticeAges
  <2>3. JobAge'
    BY <1>0, <1>17, EventFacts DEF resolvePending, Record, Created, JobAge, Ages, Younger,
       InPass, NoticeAges, IsBlocker, TypeOK, NoJob
  <2>4. OnlyIntents'
    BY <1>0, <1>17, EventFacts DEF resolvePending, Record, Created, OnlyIntents, JobAge, InPass,
       IsBlocker, TypeOK, NoJob
  <2>5. OfThePass'
    BY <1>0, <1>17, EventFacts DEF resolvePending, Record, Created, OfThePass, InPass, JobAge,
       IsBlocker, TypeOK, NoJob
  <2> QED
    BY <2>1, <2>2, <2>3, <2>4, <2>5 DEF Generations
<1>18. ASSUME NEW c \in todoE, adoptOrphan(c) PROVE Generations'
  <2>1. Ages'
    BY <1>0, <1>18, EventFacts DEF adoptOrphan, Deleted, Ages, Younger, IsBlocker, TypeOK, NoJob
  <2>2. NoticeAges'
    BY <1>0, <1>18 DEF adoptOrphan, OfThePass, InPass, NoticeAges
  <2>3. JobAge'
    BY <1>0, <1>18, EventFacts DEF adoptOrphan, Deleted, JobAge, Ages, Younger, InPass,
       NoticeAges, IsBlocker, TypeOK, NoJob
  <2>4. OnlyIntents'
    BY <1>0, <1>18, EventFacts DEF adoptOrphan, Deleted, OnlyIntents, JobAge, InPass, IsBlocker,
       TypeOK, NoJob
  <2>5. OfThePass'
    BY <1>0, <1>18, EventFacts DEF adoptOrphan, Deleted, OfThePass, InPass, JobAge, IsBlocker,
       TypeOK, NoJob
  <2> QED
    BY <2>1, <2>2, <2>3, <2>4, <2>5 DEF Generations
<1>19. ASSUME NEW c \in todoE, restoreMissingBlockers(c) PROVE Generations'
  <2>1. Ages'
    <3>1. c \in Event /\ Len(c) <= 2 + faults
      BY <1>0, <1>19 DEF restoreMissingBlockers, Ages, Younger, TypeOK
    <3>2. /\ UNCHANGED <<cached, vanished, later, faults>> /\ todoE' \subseteq todoE
          /\ dirty' \subseteq dirty \cup {c}
          /\ \A e \in Event : e /= c => row'[e] = row[e]
          /\ \/ events' = events \cup {c} /\ row'[c] = "active"
             \/ events' = events /\ row' = row
      BY <1>19, <3>1 DEF restoreMissingBlockers, Record, Created, TypeOK
    <3> QED
      BY <1>0, <3>1, <3>2 DEF Ages, Younger, IsBlocker, TypeOK
  <2>2. NoticeAges'
    BY <1>0, <1>19 DEF restoreMissingBlockers, OfThePass, InPass, NoticeAges
  <2>3. JobAge'
    BY <1>0, <1>19, EventFacts DEF restoreMissingBlockers, Record, Created, JobAge, Ages,
       Younger, InPass, NoticeAges, IsBlocker, TypeOK, NoJob
  <2>4. OnlyIntents'
    BY <1>0, <1>19, EventFacts DEF restoreMissingBlockers, Record, Created, OnlyIntents, JobAge,
       InPass, IsBlocker, TypeOK, NoJob
  <2>5. OfThePass'
    BY <1>0, <1>19, EventFacts DEF restoreMissingBlockers, Record, Created, OfThePass, InPass,
       JobAge, IsBlocker, TypeOK, NoJob
  <2> QED
    BY <2>1, <2>2, <2>3, <2>4, <2>5 DEF Generations
<1>20. CASE CallFails
  <2>1. Ages'
    <3>1. /\ faults' = faults + 1 /\ todoE' \subseteq todoE /\ cached' = cached
          /\ vanished' \subseteq vanished /\ later' \subseteq later
      BY <1>20 DEF CallFails, Fault, EndPass
    <3>2. CASE HalfTaken \/ UNCHANGED <<row, calendars>>
      <4>1. /\ row' = row /\ events' \subseteq events
            /\ dirty' \subseteq dirty \cup {c \in Event : Len(c) <= 2 + faults}
        <5>1. CASE HalfTaken
          <6>1. PICK t \in job.left : /\ row[Append(job.o, t)] = "active"
                                      /\ Deleted(Append(job.o, t)) \/ UNCHANGED calendars
            BY <5>1 DEF HalfTaken
          <6>2. job /= NoJob
            BY <5>1 DEF HalfTaken, NoJob
          <6>3. Append(job.o, t) \in Event
            BY <1>0, <6>2, BlockerOfJob
          <6>4. Len(Append(job.o, t)) <= 2 + faults
            BY <6>1, <6>3, <1>a, Zenon
          <6> QED
            BY <5>1, <6>1, <6>3, <6>4 DEF HalfTaken, Deleted
        <5> QED
          BY <3>2, <5>1
      <4> QED
        BY <1>0, <3>1, <4>1, EventFacts DEF Ages, Younger, IsBlocker, TypeOK
    <3>3. ASSUME NEW c \in Event, Making(c), HalfMade(c) PROVE Ages'
      <4>1. Len(c) <= 2 + faults
        BY <1>0, <3>3, MakingFacts
      <4>2. /\ events' \subseteq events \cup {c} /\ dirty' \subseteq dirty \cup {c}
            /\ \A e \in Event : row'[e] = IF e = c THEN "pending" ELSE row[e]
        BY <3>3 DEF HalfMade, Created, TypeOK
      <4>3. /\ \A e \in events \cup dirty \cup later \cup todoE \cup {c} : Len(e) + 1 <= 2 + faults'
            /\ events' \subseteq Event
        BY <1>0, <3>1, <3>3, <4>1, EventFacts DEF Ages, Younger, TypeOK
      <4>4. \A e \in Event : row[e] /= "none" => Len(e) + 1 <= 2 + faults'
        BY <1>0, <3>1, EventFacts DEF Ages, Younger
      <4>5. Younger(events \cup dirty \cup later \cup todoE, 2)'
        BY <1>0, <3>1, <4>2, <4>3, EventFacts DEF Younger, TypeOK
      <4>6. Younger({e \in Event : row[e] /= "none"}, 2)'
        BY <1>0, <3>1, <3>3, <4>2, <4>3, <4>4, EventFacts DEF Younger
      <4>7. Younger({e \in events : ~IsBlocker(e)}, 1)'
        BY <1>0, <3>1, <4>2, <4>3, EventFacts DEF Younger
      <4>8. Younger(cached \cup vanished, 1)'
        BY <1>0, <3>1, EventFacts DEF Ages, Younger, TypeOK
      <4> QED
        BY <4>5, <4>6, <4>7, <4>8 DEF Ages
    <3> QED
      BY <1>20, <3>2, <3>3 DEF CallFails
  <2>2. NoticeAges'
    BY <1>0, <1>20, EventFacts, MakingFacts, BlockerOfJob DEF CallFails, Fault, EndPass,
       HalfTaken, Deleted, HalfMade, Created, NoticeAges, Ages, Younger, IsBlocker, TypeOK,
       NoJob
  <2>3. JobAge'
    BY <1>0, <1>20, EventFacts, MakingFacts, BlockerOfJob DEF CallFails, Fault, EndPass,
       HalfTaken, Deleted, HalfMade, Created, JobAge, Ages, Younger, InPass, NoticeAges,
       IsBlocker, TypeOK, NoJob
  <2>4. OnlyIntents'
    BY <1>0, <1>20, EventFacts, MakingFacts, BlockerOfJob DEF CallFails, Fault, EndPass,
       HalfTaken, Deleted, HalfMade, Created, OnlyIntents, JobAge, InPass, IsBlocker, TypeOK,
       NoJob
  <2>5. OfThePass'
    BY <1>0, <1>20, EventFacts, MakingFacts, BlockerOfJob DEF CallFails, Fault, EndPass,
       HalfTaken, Deleted, HalfMade, Created, OfThePass, InPass, JobAge, IsBlocker, TypeOK,
       NoJob
  <2> QED
    BY <2>1, <2>2, <2>3, <2>4, <2>5 DEF Generations
<1>21. CASE Crash
  <2>1. Ages'
    <3>1. /\ faults' = faults + 1 /\ todoE' \subseteq todoE /\ cached' = cached
          /\ vanished' \subseteq vanished /\ later' \subseteq later
      BY <1>21 DEF Crash, Fault, EndPass
    <3>2. CASE HalfTaken \/ UNCHANGED <<row, calendars>>
      <4>1. /\ row' = row /\ events' \subseteq events
            /\ dirty' \subseteq dirty \cup {c \in Event : Len(c) <= 2 + faults}
        <5>1. CASE HalfTaken
          <6>1. PICK t \in job.left : /\ row[Append(job.o, t)] = "active"
                                      /\ Deleted(Append(job.o, t)) \/ UNCHANGED calendars
            BY <5>1 DEF HalfTaken
          <6>2. job /= NoJob
            BY <5>1 DEF HalfTaken, NoJob
          <6>3. Append(job.o, t) \in Event
            BY <1>0, <6>2, BlockerOfJob
          <6>4. Len(Append(job.o, t)) <= 2 + faults
            BY <6>1, <6>3, <1>a, Zenon
          <6> QED
            BY <5>1, <6>1, <6>3, <6>4 DEF HalfTaken, Deleted
        <5> QED
          BY <3>2, <5>1
      <4> QED
        BY <1>0, <3>1, <4>1, EventFacts DEF Ages, Younger, IsBlocker, TypeOK
    <3>3. ASSUME NEW c \in Event, Making(c), HalfMade(c) PROVE Ages'
      <4>1. Len(c) <= 2 + faults
        BY <1>0, <3>3, MakingFacts
      <4>2. /\ events' \subseteq events \cup {c} /\ dirty' \subseteq dirty \cup {c}
            /\ \A e \in Event : row'[e] = IF e = c THEN "pending" ELSE row[e]
        BY <3>3 DEF HalfMade, Created, TypeOK
      <4>3. /\ \A e \in events \cup dirty \cup later \cup todoE \cup {c} : Len(e) + 1 <= 2 + faults'
            /\ events' \subseteq Event
        BY <1>0, <3>1, <3>3, <4>1, EventFacts DEF Ages, Younger, TypeOK
      <4>4. \A e \in Event : row[e] /= "none" => Len(e) + 1 <= 2 + faults'
        BY <1>0, <3>1, EventFacts DEF Ages, Younger
      <4>5. Younger(events \cup dirty \cup later \cup todoE, 2)'
        BY <1>0, <3>1, <4>2, <4>3, EventFacts DEF Younger, TypeOK
      <4>6. Younger({e \in Event : row[e] /= "none"}, 2)'
        BY <1>0, <3>1, <3>3, <4>2, <4>3, <4>4, EventFacts DEF Younger
      <4>7. Younger({e \in events : ~IsBlocker(e)}, 1)'
        BY <1>0, <3>1, <4>2, <4>3, EventFacts DEF Younger
      <4>8. Younger(cached \cup vanished, 1)'
        BY <1>0, <3>1, EventFacts DEF Ages, Younger, TypeOK
      <4> QED
        BY <4>5, <4>6, <4>7, <4>8 DEF Ages
    <3> QED
      BY <1>21, <3>2, <3>3 DEF Crash
  <2>2. NoticeAges'
    BY <1>0, <1>21, EventFacts, MakingFacts, BlockerOfJob DEF Crash, Fault, HalfTaken, Deleted,
       HalfMade, Created, NoticeAges, Ages, Younger, IsBlocker, TypeOK, NoJob
  <2>3. JobAge'
    BY <1>0, <1>21, EventFacts, MakingFacts, BlockerOfJob DEF Crash, Fault, HalfTaken, Deleted,
       HalfMade, Created, JobAge, Ages, Younger, InPass, NoticeAges, IsBlocker, TypeOK, NoJob
  <2>4. OnlyIntents'
    BY <1>0, <1>21, EventFacts, MakingFacts, BlockerOfJob DEF Crash, Fault, HalfTaken, Deleted,
       HalfMade, Created, OnlyIntents, JobAge, InPass, IsBlocker, TypeOK, NoJob
  <2>5. OfThePass'
    BY <1>0, <1>21, EventFacts, MakingFacts, BlockerOfJob DEF Crash, Fault, HalfTaken, Deleted,
       HalfMade, Created, OfThePass, InPass, JobAge, IsBlocker, TypeOK, NoJob
  <2> QED
    BY <2>1, <2>2, <2>3, <2>4, <2>5 DEF Generations
<1>22. CASE DatabaseLost
  <2>1. Ages'
    BY <1>0, <1>22, EventFacts DEF DatabaseLost, Fault, Ages, Younger, IsBlocker, TypeOK, NoJob
  <2>2. NoticeAges'
    BY <1>0, <1>22, EventFacts DEF DatabaseLost, Fault, NoticeAges, Ages, Younger, IsBlocker,
       TypeOK, NoJob
  <2>3. JobAge'
    BY <1>0, <1>22, EventFacts DEF DatabaseLost, Fault, JobAge, Ages, Younger, InPass,
       NoticeAges, IsBlocker, TypeOK, NoJob
  <2>4. OnlyIntents'
    BY <1>0, <1>22, EventFacts DEF DatabaseLost, Fault, OnlyIntents, JobAge, InPass, IsBlocker,
       TypeOK, NoJob
  <2>5. OfThePass'
    BY <1>0, <1>22, EventFacts DEF DatabaseLost, Fault, OfThePass, InPass, JobAge, IsBlocker,
       TypeOK, NoJob
  <2> QED
    BY <2>1, <2>2, <2>3, <2>4, <2>5 DEF Generations
<1>23. ASSUME NEW t \in Account, TargetAuthFails(t) PROVE Generations'
  <2> DEFINE c == Append(job.o, t)
  <2>a. job /= NoJob /\ t \in job.left
    BY <1>23 DEF TargetAuthFails
  <2>b. c \in Event /\ Home(c) /= Home(job.o) /\ job.o \in Event
    BY <1>0, <2>a, BlockerOfJob, JobTyped, Zenon
  <2>c. /\ faults' = faults + 1
        /\ \A e \in Event : row'[e] = row[e] \/ (e = c /\ Making(c) /\ row'[e] = "pending")
        /\ UNCHANGED <<calendars, cached, phase, at, batch, vanished, later, todoE>>
    BY <1>23, <2>b DEF TargetAuthFails, Fault, TypeOK
  <2>d. Making(c) => Len(c) <= 2 + faults
    BY <1>0, MakingFacts
  <2>e. job'.how = job.how /\ job'.o = job.o /\ job'.left \subseteq job.left /\ job' /= NoJob
    BY <1>23, <2>a, JobStep DEF TargetAuthFails
  <2> HIDE DEF c
  <2>1. Ages'
    BY <1>0, <2>b, <2>c, <2>d, EventFacts DEF Ages, Younger, IsBlocker, TypeOK
  <2>2. NoticeAges'
    <3>1. CASE InPass
      <4>1. \A n \in batch : n.e \in Event /\ n.e /= c /\ Len(n.e) \in Nat
        BY <1>0, <2>a, <2>b, <3>1, EventFacts DEF OfThePass, TypeOK, Notice
      <4>2. \A n \in batch : row'[n.e] = row[n.e]
        BY <2>c, <4>1
      <4> QED
        BY <1>0, <2>c, <4>1, <4>2 DEF NoticeAges, IsBlocker
    <3>2. CASE ~InPass
      BY <1>0, <2>c, <3>2 DEF NoticeAges, OfThePass
    <3> QED
      BY <3>1, <3>2
  <2>3. JobAge'
    <3>1. Len(job.o) \in Nat
      BY <2>b, EventFacts
    <3> QED
      BY <1>0, <2>a, <2>c, <2>e, <3>1 DEF JobAge, InPass
  <2>4. OnlyIntents'
    BY <1>0, <1>23, EventFacts, BlockerOfJob, JobTyped, JobStep, MakingFacts, BlockerOfJob
       DEF TargetAuthFails, Fault, OnlyIntents, JobAge, InPass, IsBlocker, TypeOK, NoJob
  <2>5. OfThePass'
    BY <1>0, <1>23, EventFacts, BlockerOfJob, JobTyped, JobStep, MakingFacts, BlockerOfJob
       DEF TargetAuthFails, Fault, OfThePass, InPass, JobAge, IsBlocker, TypeOK, NoJob
  <2> QED
    BY <2>1, <2>2, <2>3, <2>4, <2>5 DEF Generations
<1>24. ASSUME NEW a \in Account, ListingFails(a) PROVE Generations'
  <2>1. Ages'
    BY <1>0, <1>24, EventFacts DEF ListingFails, Fault, Ages, Younger, IsBlocker, TypeOK, NoJob
  <2>2. NoticeAges'
    BY <1>0, <1>24, EventFacts DEF ListingFails, Fault, NoticeAges, Ages, Younger, IsBlocker,
       TypeOK, NoJob
  <2>3. JobAge'
    BY <1>0, <1>24, EventFacts DEF ListingFails, Fault, JobAge, Ages, Younger, InPass,
       NoticeAges, IsBlocker, TypeOK, NoJob
  <2>4. OnlyIntents'
    BY <1>0, <1>24, EventFacts DEF ListingFails, Fault, OnlyIntents, JobAge, InPass, IsBlocker,
       TypeOK, NoJob
  <2>5. OfThePass'
    BY <1>0, <1>24, EventFacts DEF ListingFails, Fault, OfThePass, InPass, JobAge, IsBlocker,
       TypeOK, NoJob
  <2> QED
    BY <2>1, <2>2, <2>3, <2>4, <2>5 DEF Generations
<1>25. ASSUME NEW a \in Account, CursorExpires(a) PROVE Generations'
  <2>1. Ages'
    BY <1>0, <1>25, EventFacts DEF CursorExpires, Fault, Ages, Younger, IsBlocker, TypeOK, NoJob
  <2>2. NoticeAges'
    BY <1>0, <1>25, EventFacts DEF CursorExpires, Fault, NoticeAges, Ages, Younger, IsBlocker,
       TypeOK, NoJob
  <2>3. JobAge'
    BY <1>0, <1>25, EventFacts DEF CursorExpires, Fault, JobAge, Ages, Younger, InPass,
       NoticeAges, IsBlocker, TypeOK, NoJob
  <2>4. OnlyIntents'
    BY <1>0, <1>25, EventFacts DEF CursorExpires, Fault, OnlyIntents, JobAge, InPass, IsBlocker,
       TypeOK, NoJob
  <2>5. OfThePass'
    BY <1>0, <1>25, EventFacts DEF CursorExpires, Fault, OfThePass, InPass, JobAge, IsBlocker,
       TypeOK, NoJob
  <2> QED
    BY <2>1, <2>2, <2>3, <2>4, <2>5 DEF Generations
<1> QED
  BY <1>1, <1>2, <1>3, <1>4, <1>5, <1>6, <1>7, <1>8, <1>9, <1>10, <1>11, <1>12, <1>13, <1>14,
     <1>15, <1>16, <1>17, <1>18, <1>19, <1>20, <1>21, <1>22, <1>23, <1>24, <1>25 DEF Next,
     Continue, Environment, Failure

-----------------------------------------------------------------------------
\* What is new on the calendars: a real event, or the blocker of an event that
\* is cached or being distributed.
LEMMA NewEvents ==
  ASSUME TypeOK, JobAge, Ages, [Next]_vars, NEW e \in events', e \notin events
  PROVE  \/ Len(e) = 1
         \/ Source(e) \in cached
         \/ job.how = "upsert" /\ job /= NoJob /\ Source(e) = job.o
<1> USE DEF calendars, pass, loops, bounds
<1> DEFINE Goal == \/ Len(e) = 1
                   \/ Source(e) \in cached
                   \/ job.how = "upsert" /\ job /= NoJob /\ Source(e) = job.o
<1>1. CASE events' \subseteq events
  BY <1>1
<1>2. ASSUME NEW a \in Account, UserCreates(a) PROVE Goal
  BY <1>2, RealFacts DEF UserCreates, Created
<1>3. ASSUME NEW t \in Account, upsertBlockerOnTarget(t) PROVE Goal
  <2>1. job.how = "upsert" /\ job /= NoJob /\ t \in job.left
    BY <1>3 DEF upsertBlockerOnTarget, Step, NoJob
  <2>2. Source(Append(job.o, t)) = job.o
    BY <2>1, BlockerOfJob
  <2>3. e = Append(job.o, t)
    BY <1>3 DEF upsertBlockerOnTarget, Record, Created
  <2> QED
    BY <2>1, <2>2, <2>3
<1>4. ASSUME NEW c \in todoE, resolvePending(c) PROVE Goal
  BY <1>4 DEF resolvePending, Record, Created
<1>5. ASSUME NEW c \in todoE, restoreMissingBlockers(c) PROVE Goal
  BY <1>5 DEF restoreMissingBlockers, Record, Created
<1>6. ASSUME NEW c, Making(c), HalfMade(c) PROVE Goal
  <2>1. e = c
    BY <1>6 DEF HalfMade, Created
  <2> QED
    BY <1>6, <2>1, MakingFacts
<1>7. ASSUME HalfTaken PROVE Goal
  BY <1>7 DEF HalfTaken, Deleted
<1>8. CASE CallFails
  BY <1>6, <1>7, <1>8 DEF CallFails
<1>9. CASE Crash
  BY <1>6, <1>7, <1>9 DEF Crash
<1>10. \/ events' \subseteq events
       \/ \E a \in Account : UserCreates(a) \/ upsertBlockerOnTarget(a)
       \/ \E c \in todoE : resolvePending(c) \/ restoreMissingBlockers(c)
       \/ CallFails \/ Crash
  BY DEF Next, Continue, Environment, Failure, vars, Reconcile, SyncCalendar, UserDeletes,
         Deleted, FinishEvent, SetCursor, PhaseDone, processEvent, DropVanished, FullResync,
         deleteBlockersForOrigin, ListAccount, rebuildMappingsFromTags, cleanStaleMappings,
         adoptOrphan, DatabaseLost, TargetAuthFails, ListingFails, CursorExpires
<1> QED
  BY <1>1, <1>2, <1>3, <1>4, <1>5, <1>8, <1>9, <1>10

\* An origin that is a copy got past rule 2, so nothing tagged it.
LEMMA UntaggedStays ==
  ASSUME TypeOK, JobAge, OriginsUntagged, [Next]_vars
  PROVE  OriginsUntagged'
<1> USE DEF calendars, pass, loops, bounds
<1> DEFINE Fresh(e) == IsCopy(e) => Home(e) \in GraphAccount
<1>1. \/ cached' \subseteq cached
      \/ \E e \in Event : cached' = cached \cup {e} /\ job' = Distribute(e) /\ Fresh(e)
  <2>1. ASSUME NEW n \in batch, processEvent(n)
        PROVE  \/ cached' \subseteq cached
               \/ \E e \in Event : cached' = cached \cup {e} /\ job' = Distribute(e) /\ Fresh(e)
    BY <2>1 DEF processEvent, Recognised, Tagged, TypeOK, Notice
  <2> QED
    BY <2>1 DEF Next, Continue, Environment, Failure, vars, Reconcile, SyncCalendar,
         UserCreates, UserDeletes, Edited, FinishEvent, SetCursor, PhaseDone, DropVanished,
         FullResync, upsertBlockerOnTarget, deleteBlockersForOrigin, ListAccount,
         rebuildMappingsFromTags, cleanStaleMappings, resolvePending, adoptOrphan,
         restoreMissingBlockers, CallFails, Crash, DatabaseLost, TargetAuthFails,
         ListingFails, CursorExpires
<1>2. \/ job'.how /= "upsert"
      \/ job'.how = job.how /\ job'.o = job.o
      \/ \E e \in Event : job' = Distribute(e) /\ Fresh(e)
  <2>1. ASSUME NEW n \in batch, processEvent(n)
        PROVE  \/ job'.how /= "upsert"
               \/ job'.how = job.how /\ job'.o = job.o
               \/ \E e \in Event : job' = Distribute(e) /\ Fresh(e)
    BY <2>1 DEF processEvent, Recognised, Tagged, TypeOK, Notice, TakeDown
  <2>2. ASSUME NEW t \in Account, upsertBlockerOnTarget(t) \/ deleteBlockersForOrigin(t)
                                   \/ TargetAuthFails(t)
        PROVE  job'.how = job.how /\ job'.o = job.o
    <3>1. job /= NoJob
      BY <2>2 DEF upsertBlockerOnTarget, deleteBlockersForOrigin, TargetAuthFails, Step, NoJob
    <3> QED
      BY <2>2, <3>1, JobStep
         DEF upsertBlockerOnTarget, deleteBlockersForOrigin, TargetAuthFails, Step
  <2>3. ASSUME NEW e, DropVanished(e) \/ cleanStaleMappings(e) PROVE job'.how /= "upsert"
    BY <2>3 DEF DropVanished, cleanStaleMappings, TakeDown
  <2>4. \/ job' = job \/ job' = NoJob
        \/ \E n \in batch : processEvent(n)
        \/ \E t \in Account : upsertBlockerOnTarget(t) \/ deleteBlockersForOrigin(t)
                               \/ TargetAuthFails(t)
        \/ \E e \in vanished \cup todoE : DropVanished(e) \/ cleanStaleMappings(e)
    BY DEF Next, Continue, Environment, Failure, vars, Reconcile,
         SyncCalendar, UserCreates, UserDeletes, Edited, FinishEvent, SetCursor, PhaseDone,
         FullResync, ListAccount, rebuildMappingsFromTags, resolvePending, adoptOrphan,
         restoreMissingBlockers, CallFails, Crash, DatabaseLost, ListingFails,
         CursorExpires
  <2>5. NoJob.how /= "upsert"
    BY DEF NoJob
  <2> QED
    BY <2>1, <2>2, <2>3, <2>4, <2>5
<1>3. Untagged'
  BY <1>1 DEF OriginsUntagged, Untagged
<1>4. (job.how = "upsert" /\ IsCopy(job.o) => Home(job.o) \in GraphAccount)'
  BY <1>2, DistributeTyped DEF OriginsUntagged
<1> QED
  BY <1>3, <1>4 DEF OriginsUntagged

\* A step that adds a blocker adds it for an origin without a tag.
LEMMA TaggedStays ==
  ASSUME TypeOK, JobAge, Ages, OriginsUntagged, TaggedIsNoOrigin, [Next]_vars, TypeOK'
  PROVE  TaggedIsNoOrigin'
<1> SUFFICES ASSUME NEW e \in events', Len(e) > 2
             PROVE  Home(Source(e)) \in GraphAccount
  BY DEF TaggedIsNoOrigin
<1>1. CASE e \in events
  BY <1>1 DEF TaggedIsNoOrigin
<1>2. CASE e \notin events
  <2>1. Source(e) \in cached
        \/ (job.how = "upsert" /\ job /= NoJob /\ Source(e) = job.o)
    <3>1. e \in Event
      BY DEF TypeOK
    <3>2. Len(e) \in Nat
      BY <3>1, EventFacts
    <3>3. PICK n \in Nat : n = Len(e)
      BY <3>2
    <3>4. n > 2
      BY <3>3
    <3>5. Len(e) /= 1
      BY <3>3, <3>4
    <3> QED
      BY <1>2, <3>5, NewEvents, Zenon
  <2>2. e \in Event /\ Source(e) \in Event
    BY <2>1, JobTyped DEF TypeOK
  <2>3. IsCopy(Source(e))
    BY <2>2, EventFacts, SourceFacts DEF IsCopy
  <2> QED
    BY <2>1, <2>3 DEF OriginsUntagged, Untagged
<1> QED
  BY <1>1, <1>2

-----------------------------------------------------------------------------
\* The inductive invariant.
Inv == TypeOK /\ Generations /\ OriginsUntagged /\ TaggedIsNoOrigin

\* The inductive invariant holds at the start.
LEMMA InvInit == Init => Inv
<1> SUFFICES ASSUME Init PROVE Inv
  OBVIOUS
<1>1. \A e \in events : e \in Event /\ Len(e) = 1
  BY RealFacts DEF Init
<1>2. TypeOK
  BY <1>1, LoopAssumption DEF Init, TypeOK, Phases
<1>3. Ages
  <2>1. /\ faults = 0 /\ dirty = {} /\ later = {} /\ todoE = {} /\ cached = {}
        /\ vanished = {} /\ \A c \in Event : row[c] = "none"
    BY DEF Init
  <2>2. ASSUME NEW e \in events PROVE Len(e) <= 1 + faults /\ Len(e) <= 2 + faults
    <3>1. Len(e) = 1
      BY <1>1
    <3> QED
      BY <2>1, <3>1
  <2> QED
    BY <2>1, <2>2 DEF Ages, Younger
<1>4. NoticeAges /\ JobAge /\ OnlyIntents /\ OfThePass
  BY DEF Init, NoticeAges, JobAge, OnlyIntents, OfThePass, InPass, NoJob
<1>5. OriginsUntagged
  BY DEF Init, OriginsUntagged, Untagged, NoJob
<1>6. TaggedIsNoOrigin
  BY <1>1 DEF TaggedIsNoOrigin
<1> QED
  BY <1>2, <1>3, <1>4, <1>5, <1>6 DEF Inv, Generations

\* Every step keeps the inductive invariant.
LEMMA InvNext == Inv /\ [Next]_vars => Inv'
<1> SUFFICES ASSUME Inv, [Next]_vars PROVE Inv'
  OBVIOUS
<1>1. TypeOK /\ Generations /\ JobAge /\ Ages /\ OriginsUntagged /\ TaggedIsNoOrigin
  BY DEF Inv, Generations
<1>2. TypeOK'
  BY <1>1, NextTyped
<1>3. Generations'
  BY <1>1, <1>2, Aged
<1>4. OriginsUntagged'
  BY <1>1, UntaggedStays
<1>5. TaggedIsNoOrigin'
  BY <1>1, <1>2, TaggedStays
<1> QED
  BY <1>2, <1>3, <1>4, <1>5 DEF Inv

\* So it always holds.
LEMMA Invariance == Spec => []Inv
<1>1. Init => Inv
  BY InvInit
<1>2. Inv /\ [Next]_vars => Inv'
  BY InvNext
<1> QED
  BY <1>1, <1>2, PTL DEF Spec

\* The state of the engine is well-formed in every configuration.
THEOREM LoopTypeCorrect == Spec => []TypeOK
<1>1. Inv => TypeOK
  BY DEF Inv
<1> QED
  BY <1>1, Invariance, PTL

\* No loop of blockers (processEvent, rule 2): whatever the accounts, the edits
\* and the failures, a chain of copies is at most two longer than the number of
\* failures there were.
THEOREM NoLoop == Spec => []EchoesCostFailures
<1>1. Inv => EchoesCostFailures
  BY DEF Inv, Generations, Ages, Younger, EchoesCostFailures
<1> QED
  BY <1>1, Invariance, PTL

\* A blocker on a calendar whose events carry their tag is never mirrored, not
\* even after the mappings are lost.
THEOREM TagsStopEchoes == Spec => []TaggedIsNoOrigin
<1>1. Inv => TaggedIsNoOrigin
  BY DEF Inv
<1> QED
  BY <1>1, Invariance, PTL

-----------------------------------------------------------------------------
(***************************************************************************)
(* accounts remove.                                                        *)
(***************************************************************************)
\* A removal runs alone, and a removed account keeps the daemon away.
Alone == removal /= NoRemoval \/ gone /= {} => phase = "idle"

\* A blocker without its id is one that a failure left so.
Recorded == \A c \in events : IsCopy(c) /\ row[c] /= "active" => c \in strays

\* What the two loops of a removal have still to do, and what is behind them.
GivenUp(c, a)  == IsCopy(c) /\ Home(Source(c)) = a /\ row[c] = "active"
TakenUp(c, a)  == IsCopy(c) /\ Home(c) = a /\ row[c] = "active"
LoopsCover ==
  removal /= NoRemoval =>
    \A c \in Event :
      /\ GivenUp(c, removal.of) => removal.step = "distributed" /\ c \in removal.left
      /\ TakenUp(c, removal.of) =>
           removal.step = "distributed" \/ (removal.step = "received" /\ c \in removal.left)

NoRowsOfGone == \A c \in Event, a \in gone : ~GivenUp(c, a) /\ ~TakenUp(c, a)

RemovalInv ==
  Inv /\ RemovalTypeOK /\ Alone /\ Recorded /\ LoopsCover /\ NoRowsOfGone

\* A row that a step of a removal may delete, and what it may do to the blocker.
Shrinks ==
  /\ events' \subseteq events
  /\ dirty' \subseteq dirty \cup {c \in Event : row[c] /= "none"}
  /\ row' \in [Event -> {"none", "pending", "active"}]
  /\ \A c \in Event : row'[c] = row[c]
                      \/ /\ row'[c] = "none"
                         /\ c \notin events' \/ row[c] /= "active" \/ faults' = faults + 1
  /\ cached' \subseteq cached /\ cursor' \in [Account -> {"none", "valid", "expired"}]
  /\ faults' \in 0..MaxFaults /\ (faults' = faults \/ faults' = faults + 1)
  /\ edits' = edits /\ calm' \in -1..2
  /\ UNCHANGED <<phase, pass, job, loops>>

\* Taking away keeps the invariant of the engine: what loses its row is gone, or
\* is paid for by a failure.
LEMMA ShrinkKeeps ==
  ASSUME Inv, phase = "idle", Shrinks
  PROVE  Inv'
<1> USE DEF Shrinks, pass, loops
<1>1. /\ TypeOK /\ Ages /\ NoticeAges /\ JobAge /\ OnlyIntents /\ OfThePass
      /\ OriginsUntagged /\ TaggedIsNoOrigin
  BY DEF Inv, Generations
<1>2. job = NoJob /\ batch = {} /\ vanished = {} /\ later = {}
  BY <1>1 DEF JobAge, OfThePass, InPass
<1>3. TypeOK'
  BY <1>1 DEF TypeOK
<1>4. faults \in Nat /\ faults' \in Nat /\ faults <= faults' /\ \A c \in Event : Len(c) \in Nat
  BY <1>1, EventFacts DEF TypeOK
<1>5. Ages'
  <2>1. ASSUME NEW c \in events' \cup dirty' \cup later' \cup todoE' PROVE Len(c) <= 2 + faults'
    <3>1. c \in Event /\ Len(c) <= 2 + faults
      BY <1>1, <1>2, <2>1 DEF Ages, Younger, TypeOK
    <3> QED
      BY <1>4, <3>1
  <2>2. ASSUME NEW c \in Event, row'[c] /= "none" PROVE Len(c) <= 2 + faults'
    <3>1. Len(c) <= 2 + faults
      BY <1>1, <2>2 DEF Ages, Younger
    <3> QED
      BY <1>4, <3>1
  <2>3. ASSUME NEW c \in events', row'[c] /= "active" PROVE Len(c) <= 1 + faults'
    <3>1. c \in events /\ c \in Event /\ Len(c) <= 2 + faults
      BY <1>1 DEF Ages, Younger, TypeOK
    <3>2. CASE row[c] /= "active"
      <4>1. Len(c) <= 1 + faults
        BY <1>1, <3>1, <3>2 DEF Ages, Younger, IsBlocker
      <4> QED
        BY <1>4, <3>1, <4>1
    <3>3. CASE row[c] = "active"
      <4>1. faults' = faults + 1
        BY <2>3, <3>1, <3>3
      <4> QED
        BY <1>4, <3>1, <4>1
    <3> QED
      BY <3>2, <3>3
  <2>4. ASSUME NEW c \in cached' \cup vanished' PROVE Len(c) <= 1 + faults'
    <3>1. c \in Event /\ Len(c) <= 1 + faults
      BY <1>1, <1>2, <2>4 DEF Ages, Younger, TypeOK
    <3> QED
      BY <1>4, <3>1
  <2> QED
    BY <2>1, <2>2, <2>3, <2>4 DEF Ages, Younger, IsBlocker
<1>6. NoticeAges' /\ JobAge' /\ OnlyIntents' /\ OfThePass'
  BY <1>1, <1>2 DEF NoticeAges, JobAge, OnlyIntents, OfThePass, InPass
<1>7. OriginsUntagged' /\ TaggedIsNoOrigin'
  BY <1>1, <1>2 DEF OriginsUntagged, Untagged, TaggedIsNoOrigin, NoJob
<1> QED
  BY <1>3, <1>5, <1>6, <1>7 DEF Inv, Generations

\* Without a failure no step of the engine or of a user leaves a blocker without its id.
LEMMA IdsAreKept ==
  ASSUME TypeOK, JobAge, OnlyIntents, [Next]_vars, faults' = faults,
         NEW c \in events', IsCopy(c), row'[c] /= "active"
  PROVE  c \in events /\ row[c] /= "active"
<1> USE DEF calendars, pass, loops, bounds, Created, Deleted, Record
<1>1. /\ events \subseteq Event /\ faults \in Nat
      /\ row \in [Event -> {"none", "pending", "active"}]
  BY LoopAssumption DEF TypeOK
<1>2. CASE UNCHANGED <<events, row>>
  BY <1>2
<1>3. CASE Failure
  <2>1. Fault
    BY <1>3 DEF Failure, CallFails, Crash, DatabaseLost, TargetAuthFails, ListingFails,
       CursorExpires
  <2> QED
    BY <1>1, <2>1 DEF Fault
<1>4. ASSUME NEW a \in Account, UserCreates(a) PROVE c \in events /\ row[c] /= "active"
  <2>1. c /= <<a>>
    <3> SUFFICES ASSUME c = <<a>> PROVE FALSE
      OBVIOUS
    <3>1. Len(c) = 1
      BY RealFacts
    <3>2. Len(c) > 1
      BY DEF IsCopy
    <3> QED
      BY <3>1, <3>2
  <2> QED
    BY <1>4, <2>1 DEF UserCreates, Edited
<1>5. ASSUME NEW e \in events, UserDeletes(e) PROVE c \in events /\ row[c] /= "active"
  BY <1>5 DEF UserDeletes, Edited
<1>6. ASSUME NEW t \in Account, upsertBlockerOnTarget(t)
      PROVE  c \in events /\ row[c] /= "active"
  <2> DEFINE d == Append(job.o, t)
  <2>1. job /= NoJob /\ t \in job.left
    BY <1>6 DEF upsertBlockerOnTarget, Step, NoJob
  <2>2. d \in Event
    BY <2>1, BlockerOfJob
  <2>3. \/ row' = row /\ events' \subseteq events
        \/ row' = [row EXCEPT ![d] = "active"] /\ events' \subseteq events \cup {d}
    BY <1>6 DEF upsertBlockerOnTarget
  <2> HIDE DEF d
  <2> QED
    BY <1>1, <2>2, <2>3
<1>7. ASSUME NEW t \in Account, deleteBlockersForOrigin(t)
      PROVE  c \in events /\ row[c] /= "active"
  <2> DEFINE d == Append(job.o, t)
  <2>1. job /= NoJob /\ t \in job.left
    BY <1>7 DEF deleteBlockersForOrigin, Step, NoJob
  <2>2. d \in Event
    BY <2>1, BlockerOfJob
  <2>3. /\ row' = [row EXCEPT ![d] = "none"]
        /\ IF row[d] = "active" THEN events' = events \ {d} ELSE events' = events
    BY <1>7 DEF deleteBlockersForOrigin
  <2> HIDE DEF d
  <2> QED
    BY <1>1, <2>2, <2>3
<1>8. ASSUME NEW a \in Account, rebuildMappingsFromTags(a)
      PROVE  c \in events /\ row[c] /= "active"
  BY <1>1, <1>8 DEF rebuildMappingsFromTags
<1>9. ASSUME NEW d \in todoE, resolvePending(d) PROVE c \in events /\ row[c] /= "active"
  <2>1. d \in Event /\ row[d] /= "active"
    BY <1>9 DEF resolvePending, OnlyIntents, IsBlocker, TypeOK
  <2> QED
    BY <1>1, <1>9, <2>1 DEF resolvePending
<1>10. ASSUME NEW d \in todoE, adoptOrphan(d) PROVE c \in events /\ row[c] /= "active"
  <2>1. d \in Event
    BY DEF TypeOK
  <2> QED
    BY <1>1, <1>10, <2>1 DEF adoptOrphan
<1>11. ASSUME NEW d \in todoE, restoreMissingBlockers(d)
       PROVE  c \in events /\ row[c] /= "active"
  <2>1. d \in Event
    BY DEF TypeOK
  <2> QED
    BY <1>1, <1>11, <2>1 DEF restoreMissingBlockers
<1>12. ASSUME \/ Reconcile \/ FinishEvent \/ SetCursor \/ PhaseDone
              \/ \E n \in batch : processEvent(n)
              \/ \E e \in vanished : DropVanished(e)
              \/ \E a \in Account : SyncCalendar(a) \/ FullResync(a) \/ ListAccount(a)
              \/ \E e \in todoE : cleanStaleMappings(e)
              \/ UNCHANGED vars
       PROVE  UNCHANGED <<events, row>>
  BY <1>12 DEF Reconcile, FinishEvent, SetCursor, PhaseDone, processEvent, DropVanished,
     SyncCalendar, FullResync, ListAccount, cleanStaleMappings, vars
<1> QED
  BY <1>2, <1>3, <1>4, <1>5, <1>6, <1>7, <1>8, <1>9, <1>10, <1>11, <1>12
  DEF Next, Environment, Continue

\* What the environment leaves alone.
LEMMA EnvironmentEdits ==
  ASSUME Environment
  PROVE  UNCHANGED <<row, phase, faults>>
BY DEF Environment, UserCreates, UserDeletes, Edited

\* Failures are counted one by one.
LEMMA FaultsCount ==
  ASSUME [Next]_vars
  PROVE  faults' = faults \/ (faults' = faults + 1 /\ Failure)
<1> USE DEF bounds
<1>1. CASE Failure
  BY <1>1 DEF Failure, Fault, CallFails, Crash, DatabaseLost, TargetAuthFails, ListingFails,
     CursorExpires
<1>2. CASE Environment
  BY <1>2, EnvironmentEdits
<1>3. CASE Continue
  BY <1>3 DEF Continue, FinishEvent, SetCursor, PhaseDone, processEvent, DropVanished,
     FullResync, upsertBlockerOnTarget, deleteBlockersForOrigin, ListAccount,
     rebuildMappingsFromTags, cleanStaleMappings, resolvePending, adoptOrphan,
     restoreMissingBlockers
<1>4. CASE UNCHANGED vars \/ Reconcile \/ \E a \in Account : SyncCalendar(a)
  BY <1>4 DEF vars, Reconcile, SyncCalendar
<1> QED
  BY <1>1, <1>2, <1>3, <1>4 DEF Next

\* The engine and the users, where the flock lets them.
LEMMA OutsideKeeps ==
  ASSUME RemovalInv, Outside
  PROVE  RemovalInv'
<1>1. [Next]_vars /\ (DaemonRuns \/ Environment) /\ UNCHANGED <<removal, gone>>
  BY DEF Outside, Next
<1>2. Inv /\ RemovalTypeOK /\ Alone /\ Recorded /\ LoopsCover /\ NoRowsOfGone
  BY DEF RemovalInv
<1>3. Inv' /\ TypeOK' /\ TypeOK /\ JobAge /\ OnlyIntents
  BY <1>1, <1>2, InvNext DEF Inv, Generations
<1>4. strays' = {c \in events' : IsCopy(c) /\ row'[c] /= "active"
                                 /\ (faults' > faults \/ c \in strays)}
  BY DEF Outside, Excused
<1>5. RemovalTypeOK'
  BY <1>1, <1>2, <1>3, <1>4 DEF RemovalTypeOK
<1>6. Recorded'
  <2> SUFFICES ASSUME NEW c \in events', IsCopy(c), row'[c] /= "active"
               PROVE  c \in strays'
    BY DEF Recorded
  <2>1. CASE faults' = faults
    <3>1. c \in events /\ row[c] /= "active"
      BY <1>1, <1>3, <2>1, IdsAreKept
    <3> QED
      BY <1>2, <1>4, <3>1 DEF Recorded
  <2>2. CASE faults' = faults + 1
    <3>1. faults' > faults
      BY <1>3, <2>2 DEF TypeOK
    <3> QED
      BY <1>4, <3>1
  <2> QED
    BY <1>1, <2>1, <2>2, FaultsCount
<1>7. CASE DaemonRuns
  BY <1>1, <1>3, <1>5, <1>6, <1>7
  DEF RemovalInv, DaemonRuns, Alone, LoopsCover, NoRowsOfGone
<1>8. CASE Environment
  <2>1. UNCHANGED <<row, phase>>
    BY <1>8, EnvironmentEdits
  <2> QED
    BY <1>1, <1>2, <1>3, <1>5, <1>6, <2>1
    DEF RemovalInv, Alone, LoopsCover, NoRowsOfGone, GivenUp, TakenUp
<1> QED
  BY <1>1, <1>7, <1>8

\* A removal begins, or goes on to its next loop, with the rows of that loop.
LEMMA LoopBegins ==
  ASSUME RemovalInv, NextLoop \/ \E a \in Account, force \in BOOLEAN : BeginRemoval(a, force)
  PROVE  RemovalInv'
<1>1. UNCHANGED <<vars, gone, strays>>
  BY DEF NextLoop, BeginRemoval
<1>2. Inv /\ RemovalTypeOK /\ Alone /\ Recorded /\ LoopsCover /\ NoRowsOfGone
  BY DEF RemovalInv
<1>3. Inv'
  BY <1>1, <1>2, InvNext
<1>4. UNCHANGED <<events, row, phase>>
  BY <1>1 DEF vars, calendars
<1>5. Recorded' /\ NoRowsOfGone'
  BY <1>1, <1>2, <1>4 DEF Recorded, NoRowsOfGone, GivenUp, TakenUp
<1>6. removal' \in Removal /\ LoopsCover' /\ Alone'
  <2>1. CASE NextLoop
    <3>1. removal \in Removal
      BY <1>2, <2>1 DEF NextLoop, RemovalTypeOK
    <3>2. \/ removal.step = "distributed" /\ removal' = ListReceived
          \/ removal.step = "received" /\ removal' = [removal EXCEPT !.step = "events"]
      BY <2>1 DEF NextLoop
    <3>3. removal' \in Removal /\ removal'.of = removal.of /\ removal' /= NoRemoval
      BY <3>1, <3>2 DEF Removal, NoRemoval, ListReceived, Received
    <3>4. Alone'
      BY <1>1, <1>2, <1>4, <2>1 DEF Alone, NextLoop
    <3>5. LoopsCover'
      <4>1. /\ \A c \in Event : ~GivenUp(c, removal.of)
            /\ removal.step = "received" => \A c \in Event : ~TakenUp(c, removal.of)
        BY <1>2, <2>1, <3>2 DEF LoopsCover, NextLoop
      <4>2. removal.step = "distributed" =>
              /\ removal'.step = "received"
              /\ \A c \in Event : TakenUp(c, removal.of) => c \in removal'.left
        BY <3>1, <3>2 DEF ListReceived, Received, Removal, TakenUp
      <4> QED
        BY <1>4, <3>2, <3>3, <4>1, <4>2 DEF LoopsCover, GivenUp, TakenUp
    <3> QED
      BY <3>3, <3>4, <3>5
  <2>2. ASSUME NEW a \in Account, NEW force \in BOOLEAN, BeginRemoval(a, force)
        PROVE  removal' \in Removal /\ LoopsCover' /\ Alone'
    <3>1. removal' = [step |-> "distributed", of |-> a, force |-> force,
                      left |-> Distributed(a)] /\ phase = "idle"
      BY <2>2 DEF BeginRemoval
    <3>2. removal' \in Removal
      BY <3>1 DEF Removal, Distributed
    <3>3. Alone'
      BY <1>4, <3>1 DEF Alone
    <3>4. \A c \in Event : GivenUp(c, a) => c \in Distributed(a)
      BY DEF GivenUp, Distributed
    <3> QED
      BY <1>4, <3>1, <3>2, <3>3, <3>4 DEF LoopsCover, GivenUp, TakenUp
  <2> QED
    BY <2>1, <2>2
<1>7. RemovalTypeOK'
  BY <1>1, <1>2, <1>3, <1>4, <1>6 DEF RemovalTypeOK, Inv
<1> QED
  BY <1>3, <1>5, <1>6, <1>7 DEF RemovalInv

\* A failure that is counted.
LEMMA FaultTyped ==
  ASSUME TypeOK, Fault
  PROVE  /\ faults' \in 0..MaxFaults /\ faults' = faults + 1
         /\ edits' = edits /\ calm' \in -1..2
BY LoopAssumption DEF TypeOK, Fault

\* The steps of a removal that take something away.
TakesAway == \/ \E c \in Event : RemoveRow(c) \/ RemovalSkips(c)
             \/ RemovalEnds \/ ForgetEvents \/ ForgetCalendars
             \/ \E a \in Account : AuthoriseAgain(a)
CalmOrCounted == calm' = -1 \/ (calm' = calm /\ faults' = faults)

\* Each of them shrinks, and those that are failures end the count of Reconciles.
LEMMA TakingAwayShrinks ==
  ASSUME RemovalInv, TakesAway
  PROVE  phase = "idle" /\ Shrinks /\ CalmOrCounted
<1> USE DEF calendars, pass, loops, bounds
<1>1. /\ TypeOK /\ RemovalTypeOK /\ Alone /\ Ages
      /\ row \in [Event -> {"none", "pending", "active"}]
  BY DEF RemovalInv, Inv, Generations, TypeOK
<1>2. /\ phase = "idle"
      /\ UNCHANGED <<phase, pass, job, loops>>
      /\ cached' \subseteq cached /\ cursor' \in [Account -> {"none", "valid", "expired"}]
  <2>1. removal /= NoRemoval \/ gone /= {}
    <3>1. NoRemoval.step = "none"
      BY DEF NoRemoval
    <3>2. ForgetEvents \/ ForgetCalendars => removal /= NoRemoval
      BY <3>1 DEF ForgetEvents, ForgetCalendars
    <3>3. (\E a \in Account : AuthoriseAgain(a)) => gone /= {}
      BY DEF AuthoriseAgain
    <3> QED
      BY <3>2, <3>3 DEF TakesAway, RemoveRow, RemovalSkips, RemovalEnds
  <2>2. /\ UNCHANGED <<phase, pass, job, loops>>
        /\ cached' \subseteq cached /\ cursor' \in [Account -> {"none", "valid", "expired"}]
    <3>1. cursor' = cursor \/ cursor' = [cursor EXCEPT ![removal.of] = "none"]
      BY DEF TakesAway, RemoveRow, RemovalSkips, RemovalEnds, ForgetEvents, ForgetCalendars,
         AuthoriseAgain, vars
    <3>2. UNCHANGED <<phase, pass, job, loops>> /\ cached' \subseteq cached
      BY DEF TakesAway, RemoveRow, RemovalSkips, RemovalEnds, ForgetEvents, ForgetCalendars,
         AuthoriseAgain, vars
    <3> QED
      BY <1>1, <3>1, <3>2 DEF TypeOK
  <2> QED
    BY <1>1, <2>1, <2>2 DEF Alone
<1>3. CalmOrCounted /\ faults' \in 0..MaxFaults /\ (faults' = faults \/ faults' = faults + 1)
      /\ edits' = edits /\ calm' \in -1..2
  <2>1. Fault \/ UNCHANGED bounds
    BY DEF TakesAway, RemoveRow, RemovalSkips, RemovalEnds, ForgetEvents, ForgetCalendars,
       AuthoriseAgain, vars
  <2> QED
    BY <1>1, <2>1, FaultTyped DEF CalmOrCounted, Fault, TypeOK
<1>4. ASSUME NEW c \in Event, RemoveRow(c) \/ RemovalSkips(c) PROVE Shrinks
  <2>1. row' = [row EXCEPT ![c] = "none"]
    BY <1>4 DEF RemoveRow, RemovalSkips, Forgotten
  <2>2. \/ events' = events \ {c} /\ dirty' = dirty \cup {c} /\ row[c] = "active"
        \/ events' = events /\ dirty' = dirty
    BY <1>4 DEF RemoveRow, RemovalSkips, DeletionFails, Deleted
  <2>3. c \notin events' \/ row[c] /= "active" \/ Fault
    BY <1>4, <2>2 DEF RemoveRow, RemovalSkips, Deleted
  <2>4. Fault => faults' = faults + 1
    BY DEF Fault
  <2> QED
    BY <1>1, <1>2, <1>3, <2>1, <2>2, <2>3, <2>4 DEF Shrinks
<1>5. CASE RemovalEnds
  <2>1. removal \in Removal
    BY <1>1, <1>5 DEF RemovalEnds, RemovalTypeOK
  <2>2. row' = row /\ \/ UNCHANGED calendars
                      \/ \E c \in Event : row[c] = "active" /\ Deleted(c)
    BY <1>5, <2>1 DEF RemovalEnds, HalfRemoved, DeletionFails, Removal
  <2> QED
    BY <1>1, <1>2, <1>3, <2>2 DEF Shrinks, Deleted
<1>6. CASE ForgetEvents \/ ForgetCalendars \/ \E a \in Account : AuthoriseAgain(a)
  <2>1. UNCHANGED <<events, dirty, row>>
    BY <1>6 DEF ForgetEvents, ForgetCalendars, AuthoriseAgain, vars
  <2> QED
    BY <1>1, <1>2, <1>3, <2>1 DEF Shrinks
<1> QED
  BY <1>2, <1>3, <1>4, <1>5, <1>6 DEF TakesAway

\* A row goes: with its blocker, or as --force wants it.
LEMMA RowGoes ==
  ASSUME RemovalInv, NEW c \in Event, RemoveRow(c) \/ RemovalSkips(c)
  PROVE  RemovalInv'
<1> USE DEF calendars, pass, loops, bounds
<1>1. /\ Inv /\ TypeOK /\ RemovalTypeOK /\ Alone /\ Recorded /\ LoopsCover /\ NoRowsOfGone
      /\ removal /= NoRemoval
  BY DEF RemovalInv, RemoveRow, RemovalSkips, Inv
<1>2. /\ removal \in Removal /\ c \in removal.left /\ phase = "idle"
      /\ removal' = [removal EXCEPT !.left = @ \ {c}]
      /\ row' = [row EXCEPT ![c] = "none"]
      /\ UNCHANGED <<cursor, cached, phase, pass, job, loops, gone>>
  BY <1>1 DEF RemovalTypeOK, Alone, RemoveRow, RemovalSkips, Forgotten
<1>3. /\ removal' \in Removal /\ removal' /= NoRemoval /\ removal'.left = removal.left \ {c}
      /\ removal'.step = removal.step /\ removal'.of = removal.of
  BY <1>2 DEF Removal, NoRemoval
<1>4. /\ row' \in [Event -> {"none", "pending", "active"}]
      /\ row'[c] = "none" /\ \A d \in Event : d /= c => row'[d] = row[d]
  BY <1>1, <1>2 DEF TypeOK
<1>5. /\ \/ events' = events \ {c} /\ dirty' = dirty \cup {c} /\ row[c] /= "none"
         \/ events' = events /\ dirty' = dirty
      /\ \/ /\ c \notin events' \/ row[c] /= "active"
            /\ UNCHANGED bounds /\ Excused(FALSE)
         \/ Fault /\ Excused(TRUE)
  BY DEF RemoveRow, RemovalSkips, DeletionFails, Deleted
<1>6. Shrinks
  BY TakingAwayShrinks DEF TakesAway
<1>7. Inv'
  BY <1>1, <1>2, <1>6, ShrinkKeeps
<1>8. RemovalTypeOK'
  <2>1. strays' \subseteq events' /\ TypeOK'
    BY <1>5, <1>7 DEF Excused, Inv
  <2> QED
    BY <1>1, <1>2, <1>3, <2>1 DEF RemovalTypeOK
<1>9. Recorded'
  <2> SUFFICES ASSUME NEW d \in events', IsCopy(d), row'[d] /= "active"
               PROVE  d \in strays'
    BY DEF Recorded
  <2>1. d \in events /\ d \in Event
    BY <1>1, <1>5 DEF TypeOK
  <2>2. CASE Fault /\ Excused(TRUE)
    BY <2>2 DEF Excused
  <2>3. CASE (c \notin events' \/ row[c] /= "active") /\ Excused(FALSE)
    <3>1. row[d] /= "active"
      BY <1>4, <2>1, <2>3
    <3>2. d \in strays
      BY <1>1, <2>1, <3>1 DEF Recorded
    <3> QED
      BY <2>3, <3>2 DEF Excused
  <2> QED
    BY <1>5, <2>2, <2>3
<1>10. \A d \in Event, a \in Account : /\ GivenUp(d, a)' => GivenUp(d, a) /\ d /= c
                                       /\ TakenUp(d, a)' => TakenUp(d, a) /\ d /= c
  BY <1>4 DEF GivenUp, TakenUp
<1>11. LoopsCover' /\ NoRowsOfGone' /\ Alone'
  <2>1. removal.of \in Account /\ gone \subseteq Account
    BY <1>1, <1>2 DEF Removal, RemovalTypeOK
  <2>2. LoopsCover'
    BY <1>1, <1>3, <1>10, <2>1 DEF LoopsCover
  <2>3. NoRowsOfGone' /\ Alone'
    BY <1>1, <1>2, <1>10, <2>1 DEF NoRowsOfGone, Alone
  <2> QED
    BY <2>2, <2>3
<1> QED
  BY <1>7, <1>8, <1>9, <1>11 DEF RemovalInv

\* A removal ends half-way: what it had deleted last keeps its row.
LEMMA EndKeeps ==
  ASSUME RemovalInv, RemovalEnds
  PROVE  RemovalInv'
<1> USE DEF calendars, pass, loops, bounds
<1>1. /\ Inv /\ TypeOK /\ RemovalTypeOK /\ Alone /\ Recorded /\ NoRowsOfGone
      /\ phase = "idle"
  BY DEF RemovalInv, Inv, RemovalEnds, Alone
<1>2. /\ removal' = NoRemoval /\ row' = row /\ Excused(FALSE) /\ Fault
      /\ UNCHANGED <<cursor, cached, phase, pass, job, loops, gone>>
  BY DEF RemovalEnds, HalfRemoved
<1>3. \/ UNCHANGED calendars
      \/ \E c \in Event : row[c] = "active" /\ Deleted(c)
  <2>1. removal \in Removal
    BY <1>1 DEF RemovalEnds, RemovalTypeOK
  <2>2. removal.left \subseteq Event
    BY <2>1 DEF Removal
  <2> QED
    BY <2>2 DEF RemovalEnds, HalfRemoved, DeletionFails
<1>4. events' \subseteq events /\ dirty' \subseteq dirty \cup {c \in Event : row[c] /= "none"}
  BY <1>3 DEF Deleted
<1>5. Inv'
  BY <1>1, TakingAwayShrinks, ShrinkKeeps DEF TakesAway
<1>6. RemovalTypeOK' /\ Alone'
  BY <1>1, <1>2, <1>5 DEF RemovalTypeOK, Alone, Excused, Inv
<1>7. Recorded'
  BY <1>1, <1>2, <1>4 DEF Recorded, Excused
<1>8. LoopsCover' /\ NoRowsOfGone'
  BY <1>1, <1>2 DEF LoopsCover, NoRowsOfGone, GivenUp, TakenUp
<1> QED
  BY <1>5, <1>6, <1>7, <1>8 DEF RemovalInv

\* The rest of the local state goes, and an account comes back.
LEMMA LocalKeeps ==
  ASSUME RemovalInv, ForgetEvents \/ ForgetCalendars \/ \E a \in Account : AuthoriseAgain(a)
  PROVE  RemovalInv'
<1> USE DEF calendars, pass, loops, bounds
<1>1. /\ Inv /\ TypeOK /\ RemovalTypeOK /\ Alone /\ Recorded /\ LoopsCover /\ NoRowsOfGone
  BY DEF RemovalInv, Inv
<1>2. /\ UNCHANGED <<calendars, row, phase, pass, job, loops, bounds, strays>>
      /\ cached' \subseteq cached /\ cursor' \in [Account -> {"none", "valid", "expired"}]
  <2>1. cursor' = cursor \/ cursor' = [cursor EXCEPT ![removal.of] = "none"]
    BY DEF ForgetEvents, ForgetCalendars, AuthoriseAgain, vars
  <2>2. /\ UNCHANGED <<calendars, row, phase, pass, job, loops, bounds, strays>>
        /\ cached' \subseteq cached
    BY DEF ForgetEvents, ForgetCalendars, AuthoriseAgain, vars
  <2> QED
    BY <1>1, <2>1, <2>2 DEF TypeOK
<1>3. phase = "idle"
  BY <1>1 DEF Alone, ForgetEvents, ForgetCalendars, AuthoriseAgain, NoRemoval
<1>4. Inv'
  BY <1>1, TakingAwayShrinks, ShrinkKeeps DEF TakesAway
<1>5. Recorded' /\ Alone'
  BY <1>1, <1>2, <1>3 DEF Recorded, Alone
<1>6. RemovalTypeOK' /\ LoopsCover' /\ NoRowsOfGone'
  <2>1. CASE ForgetEvents
    <3>1. /\ removal \in Removal /\ removal /= NoRemoval /\ gone' = gone
          /\ removal.step = "events"
          /\ removal' = [removal EXCEPT !.step = "calendars"]
      BY <1>1, <2>1 DEF ForgetEvents, RemovalTypeOK, NoRemoval
    <3>2. removal' \in Removal /\ removal'.of = removal.of
      BY <3>1 DEF Removal
    <3>3. \A c \in Event : ~GivenUp(c, removal.of) /\ ~TakenUp(c, removal.of)
      BY <1>1, <3>1 DEF LoopsCover
    <3> QED
      BY <1>1, <1>2, <1>4, <3>1, <3>2, <3>3
      DEF RemovalTypeOK, Inv, LoopsCover, NoRowsOfGone, GivenUp, TakenUp
  <2>2. CASE ForgetCalendars
    <3>1. /\ removal \in Removal /\ removal /= NoRemoval /\ removal' = NoRemoval
          /\ gone' = gone \cup {removal.of} /\ removal.step = "calendars"
      BY <1>1, <2>2 DEF ForgetCalendars, RemovalTypeOK, NoRemoval
    <3>2. removal.of \in Account
      BY <3>1 DEF Removal
    <3>3. \A c \in Event : ~GivenUp(c, removal.of) /\ ~TakenUp(c, removal.of)
      BY <1>1, <3>1 DEF LoopsCover
    <3> QED
      BY <1>1, <1>2, <1>4, <3>1, <3>2, <3>3
      DEF RemovalTypeOK, Inv, LoopsCover, NoRowsOfGone, GivenUp, TakenUp
  <2>3. ASSUME NEW a \in Account, AuthoriseAgain(a)
        PROVE  RemovalTypeOK' /\ LoopsCover' /\ NoRowsOfGone'
    <3>1. removal = NoRemoval /\ removal' = removal /\ gone' \subseteq gone
      BY <2>3 DEF AuthoriseAgain
    <3> QED
      BY <1>1, <1>2, <1>4, <3>1
      DEF RemovalTypeOK, Inv, LoopsCover, NoRowsOfGone, GivenUp, TakenUp
  <2> QED
    BY <2>1, <2>2, <2>3
<1> QED
  BY <1>1, <1>4, <1>5, <1>6 DEF RemovalInv

\* So the invariant always holds.
LEMMA RemovalInvariance == RemovalSpec => []RemovalInv
<1>1. RemovalInit => RemovalInv
  <2> SUFFICES ASSUME RemovalInit PROVE RemovalInv
    OBVIOUS
  <2>1. Inv /\ phase = "idle" /\ \A c \in Event : row[c] = "none"
    BY InvInit DEF RemovalInit, Init
  <2>2. ASSUME NEW c \in events PROVE ~IsCopy(c)
    <3>1. PICK a \in Account : c = <<a>>
      BY DEF RemovalInit, Init
    <3>2. Len(c) = 1
      BY <3>1, RealFacts
    <3> QED
      BY <3>2 DEF IsCopy
  <2> QED
    BY <2>1, <2>2 DEF RemovalInit, RemovalInv, RemovalTypeOK, Alone, Recorded, LoopsCover,
       NoRowsOfGone, Inv
<1>2. RemovalInv /\ [RemovalNext]_<<vars, removing>> => RemovalInv'
  <2> SUFFICES ASSUME RemovalInv, [RemovalNext]_<<vars, removing>> PROVE RemovalInv'
    OBVIOUS
  <2>1. CASE UNCHANGED <<vars, removing>>
    <3>1. Inv'
      BY <2>1, InvNext DEF RemovalInv
    <3> QED
      BY <2>1, <3>1 DEF RemovalInv, RemovalTypeOK, Alone, Recorded, LoopsCover, NoRowsOfGone,
         GivenUp, TakenUp, Inv, vars, calendars, removing
  <2>2. CASE RemovalNext
    BY <2>2, OutsideKeeps, LoopBegins, RowGoes, EndKeeps, LocalKeeps DEF RemovalNext
  <2> QED
    BY <2>1, <2>2
<1> QED
  BY <1>1, <1>2, PTL DEF RemovalSpec

\* Whatever is interrupted, the state of engine and command is well-formed.
THEOREM RemovalTypeCorrect == RemovalSpec => []RemovalTypeOK
<1>1. RemovalInv => RemovalTypeOK
  BY DEF RemovalInv
<1> QED
  BY <1>1, RemovalInvariance, PTL

\* accounts remove leaves nothing (README.md:433): once it reports success no
\* blocker of the account, or on it, remains that calsync ever had the id of, even
\* when earlier attempts ended half-way and the daemon ran in between.
THEOREM RemovalCompletes == RemovalSpec => []RemovalIsComplete
<1>1. RemovalInv => RemovalIsComplete
  <2> SUFFICES ASSUME RemovalInv, NEW c \in events, IsCopy(c),
                      Home(c) \in gone \/ Home(Source(c)) \in gone
               PROVE  c \in strays
    BY DEF RemovalIsComplete
  <2>1. c \in Event
    BY DEF RemovalInv, RemovalTypeOK, TypeOK
  <2>2. row[c] /= "active"
    BY <2>1 DEF RemovalInv, NoRowsOfGone, GivenUp, TakenUp
  <2> QED
    BY <2>2 DEF RemovalInv, Recorded
<1> QED
  BY <1>1, RemovalInvariance, PTL

\* Removals add no way into a loop: forgetting a row without taking down its
\* blocker costs a failure, like everything else that does.
THEOREM NoLoopByRemoval == RemovalSpec => [](EchoesCostFailures /\ TaggedIsNoOrigin)
<1>1. RemovalInv => EchoesCostFailures /\ TaggedIsNoOrigin
  BY DEF RemovalInv, Inv, Generations, Ages, Younger, EchoesCostFailures
<1> QED
  BY <1>1, RemovalInvariance, PTL

-----------------------------------------------------------------------------
(***************************************************************************)
(* Two Reconciles without a failure remove every echo.  The first one      *)
(* settles the intents and gives every blocker its row again, so that from *)
(* then on no blocker is taken for an event; the second one forgets the    *)
(* blockers that are still cached as events, and takes down theirs.        *)
(***************************************************************************)
\* A blocker is never on the account of its event.
Abroad(c) == IsCopy(c) => Home(c) /= Home(Source(c))

Elsewhere ==
  /\ \A c \in events : Abroad(c)
  /\ \A c \in Event : row[c] /= "none" => Abroad(c)
  /\ phase /= "clean" => \A c \in todoE : Abroad(c)

\* Since the Reconcile began in which nothing failed so far, nothing failed.
Unfailed == calm >= 0 => (job /= NoJob => ~job.failed) /\ (InPass => ok)

\* What resolvePending has done, and has still to do.
IntentsResolved ==
  \A c \in Event : row[c] = "pending" =>
    /\ calm <= 0
    /\ calm = 0 => phase \notin {"adopt", "restore"} /\ (phase = "pending" => c \in todoE)

\* The same of adoptOrphans.
Adopted ==
  \A c \in events : IsCopy(c) /\ row[c] /= "active" =>
    /\ calm <= 0
    /\ calm = 0 => phase /= "restore" /\ (phase = "adopt" => c \in todoE \/ Home(c) \in todo)

\* With all rows in place no pass takes a blocker for an event.
NoCopyMirrored ==
  calm >= 1 =>
    /\ \A n \in batch : n.there /\ IsCopy(n.e) => IsBlocker(n.e)
    /\ job /= NoJob /\ job.how = "upsert" => ~IsCopy(job.o)

\* The FullResyncs of the second Reconcile forget the copies in the events cache,
\* one account after the other, and all of them succeed.
Forgetting(e) ==
  phase = "resync" /\ (e \in vanished \/ (job /= NoJob /\ job.how = "delete" /\ job.o = e))
Resynced ==
  calm >= 1 /\ phase \in {"full", "resync"} =>
    /\ \A e \in cached : IsCopy(e) => Home(e) \in todo \/ Forgetting(e)
    /\ \A a \in Account : a \in todo \cup healthy \/ (phase = "resync" /\ a = at)

Uncached ==
  calm = 2 \/ (calm = 1 /\ phase \in {"clean", "pending", "adopt", "restore"}) =>
    \A e \in cached : ~IsCopy(e)

\* After that cleanStaleMappings takes down the blockers of copies.
Clearing(c) == Source(c) \in todoE
               \/ (job /= NoJob /\ job.o = Source(c) /\ Home(c) \in job.left)
Cleared ==
  \A c \in Event : Len(c) > 2 /\ row[c] /= "none" =>
    /\ calm < 2
    /\ calm = 1 => /\ phase \notin {"pending", "adopt", "restore"}
                   /\ phase = "clean" => Clearing(c)

Tidying ==
  /\ Elsewhere /\ Unfailed /\ IntentsResolved /\ Adopted
  /\ NoCopyMirrored /\ Resynced /\ Uncached /\ Cleared

-----------------------------------------------------------------------------
\* A failure ends the count of Reconciles.
LEMMA FailureEndsCalm == Failure => Fault /\ calm' = -1
BY DEF Failure, Fault, CallFails, Crash, DatabaseLost, TargetAuthFails, ListingFails,
   CursorExpires

\* How the count goes on.
LEMMA CalmSteps ==
  ASSUME TypeOK, [Next]_vars, calm' >= 0
  PROVE  /\ ~Failure
         /\ \/ calm' = calm
            \/ Reconcile /\ calm = -1 /\ calm' = 0
            \/ PhaseDone /\ phase = "restore" /\ calm \in 0..1 /\ calm' = calm + 1
<1> USE DEF bounds
<1>1. ~Failure
  BY FailureEndsCalm
<1>2. CASE Environment
  BY <1>1, <1>2 DEF Environment, UserCreates, UserDeletes, Edited
<1>3. CASE Continue
  <2>1. CASE PhaseDone
    BY <1>1, <2>1 DEF PhaseDone
  <2> QED
    BY <1>1, <1>3, <2>1 DEF Continue, FinishEvent, SetCursor, processEvent, DropVanished,
     FullResync, upsertBlockerOnTarget, deleteBlockersForOrigin, ListAccount,
     rebuildMappingsFromTags, cleanStaleMappings, resolvePending, adoptOrphan,
     restoreMissingBlockers
<1>4. CASE Reconcile
  BY <1>1, <1>4 DEF Reconcile
<1>5. CASE UNCHANGED vars \/ \E a \in Account : SyncCalendar(a)
  BY <1>1, <1>5 DEF vars, SyncCalendar
<1> QED
  BY <1>1, <1>2, <1>3, <1>4, <1>5 DEF Next

\* A step of a job is about a blocker of its event.
LEMMA JobBlocker ==
  ASSUME TypeOK, JobAge, NEW t \in Account,
         upsertBlockerOnTarget(t) \/ deleteBlockersForOrigin(t)
  PROVE  /\ job /= NoJob /\ t \in job.left /\ Append(job.o, t) \in Event
         /\ Home(Append(job.o, t)) = t /\ Source(Append(job.o, t)) = job.o
         /\ t /= Home(job.o)
         /\ job' /= NoJob /\ job'.how = job.how /\ job'.o = job.o
         /\ job'.left = job.left \ {t} /\ job'.failed = job.failed
<1>1. job /= NoJob /\ t \in job.left /\ job' = [job EXCEPT !.left = @ \ {t}]
  BY DEF upsertBlockerOnTarget, deleteBlockersForOrigin, Step, NoJob
<1>2. job' \in Job /\ job' /= NoJob /\ job'.how = job.how /\ job'.o = job.o
      /\ job'.left = job.left \ {t}
  BY <1>1, JobStep
<1>3. job \in Job
  BY <1>1, JobTyped
<1>4. job'.failed = job.failed
  BY <1>1, <1>3 DEF Job
<1> QED
  BY <1>1, <1>2, <1>4, BlockerOfJob

\* Which rows a step without a failure changes.
Distributes(d) == /\ job /= NoJob /\ job.how = "upsert" /\ Source(d) = job.o
                  /\ Home(d) \in job.left /\ Home(d) /= Home(job.o)
TakesDown(d)   == /\ job /= NoJob /\ job.how \in {"delete", "clear"} /\ Source(d) = job.o
                  /\ Home(d) \in job.left /\ Home(d) /= Home(job.o)
LoopTouches(d) == d \in todoE /\ phase \in {"pending", "adopt", "restore"}

\* A row changes where an event is distributed or taken down, and in the loops of
\* Reconcile.
LEMMA RowSteps ==
  ASSUME TypeOK, JobAge, [Next]_vars, calm' >= 0, NEW d \in Event, row'[d] /= row[d]
  PROVE  \/ Distributes(d) /\ InPass /\ row'[d] = "active"
         \/ TakesDown(d) /\ row'[d] = "none"
         \/ /\ phase = "rebuild" /\ d \in events /\ IsCopy(d) /\ row[d] = "none"
            /\ row'[d] = "active"
         \/ LoopTouches(d) /\ Source(d) \in cached /\ row'[d] = "active"
         \/ LoopTouches(d) /\ phase = "pending" /\ row'[d] = "none"
<1> DEFINE Goal == \/ Distributes(d) /\ InPass /\ row'[d] = "active"
                   \/ TakesDown(d) /\ row'[d] = "none"
                   \/ /\ phase = "rebuild" /\ d \in events /\ IsCopy(d) /\ row[d] = "none"
                      /\ row'[d] = "active"
                   \/ LoopTouches(d) /\ Source(d) \in cached /\ row'[d] = "active"
                   \/ LoopTouches(d) /\ phase = "pending" /\ row'[d] = "none"
<1>0. row \in [Event -> {"none", "pending", "active"}]
  BY DEF TypeOK
<1>1. ASSUME NEW t \in Account, upsertBlockerOnTarget(t) PROVE Goal
  <2>1. d = Append(job.o, t) /\ row'[d] = "active"
    BY <1>0, <1>1, JobBlocker DEF upsertBlockerOnTarget, Record
  <2>2. job.how = "upsert" /\ job /= NoJob
    BY <1>1 DEF upsertBlockerOnTarget, Step, NoJob
  <2>3. InPass
    BY <2>2 DEF JobAge
  <2> QED
    BY <1>1, <2>1, <2>2, <2>3, JobBlocker DEF Distributes
<1>2. ASSUME NEW t \in Account, deleteBlockersForOrigin(t) PROVE Goal
  <2>1. d = Append(job.o, t) /\ row'[d] = "none"
    BY <1>0, <1>2, JobBlocker DEF deleteBlockersForOrigin
  <2>2. job.how \in {"delete", "clear"}
    BY <1>2 DEF deleteBlockersForOrigin, Step
  <2> QED
    BY <1>2, <2>1, <2>2, JobBlocker DEF TakesDown
<1>3. ASSUME NEW a \in Account, rebuildMappingsFromTags(a) PROVE Goal
  BY <1>0, <1>3 DEF rebuildMappingsFromTags, Blockers, On
<1>4. ASSUME NEW c \in todoE, resolvePending(c) PROVE Goal
  <2>1. c \in Event
    BY DEF TypeOK
  <2> QED
    BY <1>0, <1>4, <2>1 DEF resolvePending, Record, LoopTouches
<1>5. ASSUME NEW c \in todoE, adoptOrphan(c) PROVE Goal
  <2>1. c \in Event
    BY DEF TypeOK
  <2> QED
    BY <1>0, <1>5, <2>1 DEF adoptOrphan, LoopTouches
<1>6. ASSUME NEW c \in todoE, restoreMissingBlockers(c) PROVE Goal
  <2>1. c \in Event
    BY DEF TypeOK
  <2> QED
    BY <1>0, <1>6, <2>1 DEF restoreMissingBlockers, Record, LoopTouches
<1>7. ~Failure
  BY CalmSteps
<1>8. ASSUME \/ Environment \/ Reconcile \/ FinishEvent \/ SetCursor \/ PhaseDone
             \/ \E n \in batch : processEvent(n)
             \/ \E e \in vanished : DropVanished(e)
             \/ \E a \in Account : SyncCalendar(a) \/ FullResync(a) \/ ListAccount(a)
             \/ \E e \in todoE : cleanStaleMappings(e)
             \/ UNCHANGED vars
      PROVE  row' = row
  BY <1>8, EnvironmentEdits DEF Reconcile, FinishEvent, SetCursor, PhaseDone, processEvent,
     DropVanished, SyncCalendar, FullResync, ListAccount, cleanStaleMappings, vars
<1> HIDE DEF Goal
<1> QED
  BY <1>1, <1>2, <1>3, <1>4, <1>5, <1>6, <1>7, <1>8 DEF Next, Continue, Goal

\* What is new on the calendars or in the rows.
LEMMA Made ==
  ASSUME TypeOK, JobAge, Ages, [Next]_vars, NEW d \in Event,
         (d \in events' /\ d \notin events) \/ (row'[d] /= "none" /\ row[d] = "none")
  PROVE  \/ Len(d) = 1
         \/ Distributes(d)
         \/ d \in todoE /\ phase \in {"pending", "adopt", "restore"}
         \/ d \in events
<1> USE DEF calendars, pass, loops, bounds
<1> DEFINE Goal == \/ Len(d) = 1
                   \/ Distributes(d)
                   \/ d \in todoE /\ phase \in {"pending", "adopt", "restore"}
                   \/ d \in events
<1>0. row \in [Event -> {"none", "pending", "active"}]
  BY DEF TypeOK
<1>1. ASSUME NEW t \in Account, upsertBlockerOnTarget(t) PROVE Goal
  <2>1. d = Append(job.o, t)
    BY <1>0, <1>1, JobBlocker DEF upsertBlockerOnTarget, Record, Created
  <2>2. job.how = "upsert" /\ job /= NoJob
    BY <1>1 DEF upsertBlockerOnTarget, Step, NoJob
  <2> QED
    BY <1>1, <2>1, <2>2, JobBlocker DEF Distributes
<1>2. ASSUME NEW c \in todoE, resolvePending(c) \/ restoreMissingBlockers(c) \/ adoptOrphan(c)
      PROVE Goal
  <2>1. c \in Event
    BY DEF TypeOK
  <2> QED
    BY <1>0, <1>2, <2>1 DEF resolvePending, restoreMissingBlockers, adoptOrphan, Record, Created,
       Deleted
<1>3. ASSUME NEW a \in Account, rebuildMappingsFromTags(a) PROVE Goal
  BY <1>0, <1>3 DEF rebuildMappingsFromTags, Blockers, On
<1>4. ASSUME NEW a \in Account, UserCreates(a) PROVE Goal
  <2>1. d = <<a>>
    BY <1>0, <1>4 DEF UserCreates, Created, Edited
  <2> QED
    BY <2>1, RealFacts
<1>5. ASSUME NEW c \in Event, Making(c), d = c PROVE Goal
  <2>1. CASE phase \in {"pending", "restore"} /\ c \in todoE
    BY <1>5, <2>1
  <2>2. CASE job.how = "upsert" /\ \E t \in job.left : c = Append(job.o, t)
    <3>1. PICK t \in job.left : c = Append(job.o, t)
      BY <2>2
    <3>2. job /= NoJob
      BY <2>2 DEF NoJob
    <3>3. Home(c) = t /\ Source(c) = job.o /\ t /= Home(job.o)
      BY <3>1, <3>2, BlockerOfJob
    <3> QED
      BY <1>5, <2>2, <3>1, <3>2, <3>3 DEF Distributes
  <2> QED
    BY <1>5, <2>1, <2>2 DEF Making
<1>6. ASSUME NEW c \in Event, Making(c), HalfMade(c) PROVE Goal
  <2>1. d = c
    BY <1>0, <1>6 DEF HalfMade, Created
  <2> QED
    BY <1>5, <1>6, <2>1
<1>7. ASSUME HalfTaken PROVE FALSE
  BY <1>7 DEF HalfTaken, Deleted
<1>8. CASE CallFails \/ Crash
  BY <1>6, <1>7, <1>8 DEF CallFails, Crash
<1>9. ASSUME NEW t \in Account, TargetAuthFails(t) PROVE Goal
  <2>1. job /= NoJob /\ t \in job.left
    BY <1>9 DEF TargetAuthFails
  <2>2. Append(job.o, t) \in Event
    BY <2>1, BlockerOfJob
  <2>3. d = Append(job.o, t) /\ Making(Append(job.o, t))
    BY <1>0, <1>9, <2>2 DEF TargetAuthFails
  <2> QED
    BY <1>5, <2>2, <2>3
<1>10. ASSUME NEW t \in Account, deleteBlockersForOrigin(t) PROVE FALSE
  BY <1>0, <1>10, JobBlocker DEF deleteBlockersForOrigin, Deleted
<1>11. ASSUME NEW e \in events, UserDeletes(e) PROVE FALSE
  BY <1>11 DEF UserDeletes, Deleted, Edited
<1>12. ASSUME \/ Reconcile \/ FinishEvent \/ SetCursor \/ PhaseDone
              \/ \E n \in batch : processEvent(n)
              \/ \E e \in vanished : DropVanished(e)
              \/ \E a \in Account : \/ SyncCalendar(a) \/ FullResync(a) \/ ListAccount(a)
                                     \/ ListingFails(a) \/ CursorExpires(a)
              \/ \E e \in todoE : cleanStaleMappings(e)
              \/ DatabaseLost \/ UNCHANGED vars
       PROVE  FALSE
  BY <1>0, <1>12 DEF Reconcile, FinishEvent, SetCursor, PhaseDone, processEvent,
     DropVanished, SyncCalendar, FullResync, ListAccount, cleanStaleMappings, vars,
     ListingFails, CursorExpires, DatabaseLost
<1> HIDE DEF Goal
<1> QED
  BY <1>1, <1>2, <1>3, <1>4, <1>8, <1>9, <1>10, <1>11, <1>12
  DEF Next, Continue, Environment, Failure, Goal

\* What is left in the loop of a phase, but for cleanStaleMappings.
LEMMA LoopSteps ==
  ASSUME [Next]_vars, phase' /= "clean", NEW c \in todoE'
  PROVE  (phase /= "clean" /\ c \in todoE) \/ (c \in Event /\ row'[c] /= "none") \/ c \in events'
<1> USE DEF calendars, pass, loops, bounds
<1>1. CASE PhaseDone \/ Reconcile
  BY <1>1 DEF PhaseDone, Reconcile, Enter, NextPhase
<1>2. ASSUME NEW a \in Account, ListAccount(a)
      PROVE  (c \in Event /\ row'[c] /= "none") \/ c \in events'
  BY <1>2 DEF ListAccount, Blockers, On
<1>3. CASE Environment
  BY <1>3 DEF Environment, UserCreates, UserDeletes, Edited
<1>4. CASE Failure
  BY <1>4 DEF Failure, CallFails, EndPass, Crash, DatabaseLost, TargetAuthFails, ListingFails,
     CursorExpires, JobAge, InPass
<1>5. CASE FinishEvent \/ SetCursor \/ UNCHANGED vars
           \/ (\E n \in batch : processEvent(n))
           \/ (\E e \in vanished : DropVanished(e))
           \/ (\E a \in Account : \/ SyncCalendar(a) \/ FullResync(a) \/ upsertBlockerOnTarget(a)
                                  \/ deleteBlockersForOrigin(a) \/ rebuildMappingsFromTags(a))
           \/ (\E e \in todoE : \/ cleanStaleMappings(e) \/ resolvePending(e) \/ adoptOrphan(e)
                                \/ restoreMissingBlockers(e))
  BY <1>5 DEF FinishEvent, SetCursor, EndPass, InPass, processEvent, DropVanished,
     FullResync, upsertBlockerOnTarget, deleteBlockersForOrigin, SyncCalendar,
     rebuildMappingsFromTags, cleanStaleMappings, resolvePending, adoptOrphan,
     restoreMissingBlockers, vars
<1> QED
  BY <1>1, <1>2, <1>3, <1>4, <1>5 DEF Next, Continue

\* Nothing puts a blocker next to its event.
LEMMA ElsewhereKept ==
  ASSUME TypeOK, TypeOK', JobAge, Ages, Elsewhere, [Next]_vars
  PROVE  Elsewhere'
<1>1. \A d \in Event : Len(d) = 1 => Abroad(d)
  BY DEF Abroad, IsCopy
<1>2. \A d \in Event : Distributes(d) => Abroad(d)
  BY DEF Distributes, Abroad
<1>3. ASSUME NEW d \in Event, d \in events' \/ row'[d] /= "none"
      PROVE  Abroad(d)
  <2>1. CASE d \in events \/ row[d] /= "none"
    BY <2>1 DEF Elsewhere
  <2>2. CASE d \notin events /\ row[d] = "none"
    BY <1>1, <1>2, <1>3, <2>2, Made DEF Elsewhere
  <2> QED
    BY <2>1, <2>2
<1>4. ASSUME phase' /= "clean", NEW c \in todoE' PROVE Abroad(c)
  <2>1. c \in Event /\ events' \subseteq Event
    BY DEF TypeOK
  <2> QED
    BY <1>3, <1>4, <2>1, LoopSteps DEF Elsewhere
<1>5. events' \subseteq Event
  BY DEF TypeOK
<1> QED
  BY <1>3, <1>4, <1>5 DEF Elsewhere, Abroad

\* What becomes of the job in a step without a failure.
JobBegins ==
  \/ \E n \in batch : processEvent(n)
  \/ \E e \in vanished : DropVanished(e)
  \/ \E o \in todoE : cleanStaleMappings(o)
JobGoesOn == \E t \in Account : upsertBlockerOnTarget(t) \/ deleteBlockersForOrigin(t)

\* A job goes on, ends or begins.
LEMMA JobSteps ==
  ASSUME TypeOK, JobAge, [Next]_vars, calm' >= 0
  PROVE  job' = job \/ (job' = NoJob /\ FinishEvent) \/ JobBegins \/ JobGoesOn
<1>1. ~Failure
  BY CalmSteps
<1>2. CASE Environment
  BY <1>2 DEF Environment, UserCreates, UserDeletes, Edited
<1> QED
  BY <1>1, <1>2 DEF Next, Continue, JobBegins, JobGoesOn, Reconcile, SyncCalendar, FinishEvent,
     SetCursor, PhaseDone, FullResync, ListAccount, rebuildMappingsFromTags, resolvePending,
     adoptOrphan, restoreMissingBlockers, vars

\* A new job has not failed, and one that distributes is not about a blocker.
LEMMA NewJob ==
  ASSUME TypeOK, JobBegins
  PROVE  /\ job = NoJob
         /\ job' /= NoJob => /\ ~job'.failed
                             /\ job'.left \subseteq Account
                             /\ job'.how = "upsert" =>
                                  \E n \in batch : n.there /\ ~IsBlocker(n.e) /\ job'.o = n.e
         /\ UNCHANGED <<row, events, phase, at, todo, healthy, ok, calm>>
<1> USE DEF calendars, pass, loops, bounds
<1>1. ASSUME NEW n \in batch, processEvent(n)
      PROVE  job' /= NoJob =>
               /\ ~job'.failed
               /\ job'.left \subseteq Account
               /\ job'.how = "upsert" => n.there /\ ~IsBlocker(n.e) /\ job'.o = n.e
  BY <1>1 DEF processEvent, TakeDown, Distribute, Recognised, RowsOf, TargetsOf
<1>2. ASSUME NEW e \in vanished, DropVanished(e)
      PROVE  ~job'.failed /\ job'.how /= "upsert" /\ job'.left \subseteq Account
  BY <1>2 DEF DropVanished, TakeDown, RowsOf, TargetsOf
<1>3. ASSUME NEW o \in todoE, cleanStaleMappings(o)
      PROVE  ~job'.failed /\ job'.how /= "upsert" /\ job'.left \subseteq Account
  BY <1>3 DEF cleanStaleMappings, TakeDown, RowsOf, TargetsOf
<1>4. job = NoJob /\ UNCHANGED <<row, events, phase, at, todo, healthy, ok, calm>>
  BY DEF JobBegins, processEvent, DropVanished, cleanStaleMappings
<1> QED
  BY <1>1, <1>2, <1>3, <1>4 DEF JobBegins

\* Only a failure marks a job or a pass as failed.
LEMMA UnfailedKept ==
  ASSUME TypeOK, JobAge, Unfailed, [Next]_vars
  PROVE  Unfailed'
<1> USE DEF pass
<1> SUFFICES ASSUME calm' >= 0
             PROVE  (job' /= NoJob => ~job'.failed) /\ (InPass' => ok')
  BY DEF Unfailed
<1>1. CASE calm' /= calm
  <2>1. job' = NoJob /\ job = NoJob /\ ~InPass'
    <3>1. CASE Reconcile
      BY <3>1 DEF Reconcile, Enter, InPass, JobAge
    <3>2. CASE PhaseDone /\ phase = "restore"
      BY <3>2 DEF PhaseDone, Enter, InPass, NextPhase
    <3> QED
      BY <1>1, <3>1, <3>2, CalmSteps
  <2> QED
    BY <2>1
<1>2. CASE calm' = calm
  <2>1. (job /= NoJob => ~job.failed) /\ (InPass => ok)
    BY <1>2 DEF Unfailed
  <2>2. job' /= NoJob => ~job'.failed
    <3>1. CASE JobBegins
      BY <3>1, NewJob
    <3>2. CASE JobGoesOn
      BY <2>1, <3>2, JobBlocker DEF JobGoesOn
    <3> QED
      BY <2>1, <3>1, <3>2, JobSteps
  <2>3. InPass' => ok'
    <3>1. \/ (phase' = phase /\ ok' = ok) \/ ok' = TRUE
          \/ phase' \notin {"sync", "relist", "resync"}
      <4>1. ~Failure
        BY CalmSteps
      <4>2. CASE Environment
        BY <4>2 DEF Environment, UserCreates, UserDeletes, Edited
      <4>3. CASE PhaseDone \/ Reconcile
        BY <4>3 DEF PhaseDone, Reconcile, Enter, NextPhase
      <4> QED
        BY <4>1, <4>2, <4>3 DEF Next, Continue, SyncCalendar, FinishEvent,
          SetCursor, EndPass, processEvent, DropVanished, FullResync, upsertBlockerOnTarget,
          deleteBlockersForOrigin, ListAccount, rebuildMappingsFromTags, cleanStaleMappings,
          resolvePending, adoptOrphan, restoreMissingBlockers, vars
    <3> QED
      BY <2>1, <3>1 DEF InPass
  <2> QED
    BY <2>2, <2>3
<1> QED
  BY <1>1, <1>2

-----------------------------------------------------------------------------
\* How the loops of Reconcile go on.
LEMMA PhaseSteps ==
  ASSUME [Next]_vars, calm' >= 0, TypeOK
  PROVE  \/ PhaseDone \/ Reconcile
         \/ phase' = phase /\ todo' = todo /\ todoE' = todoE
         \/ /\ phase \in {"idle", "full", "sync", "relist", "resync", "rebuild"}
            /\ phase' \in {"idle", "full", "sync", "relist", "resync", "rebuild"}
         \/ \E a \in Account : ListAccount(a)
         \/ \E c \in todoE : /\ todoE' = todoE \ {c} /\ todo' = todo /\ phase' = phase
                             /\ \/ resolvePending(c) \/ adoptOrphan(c)
                                \/ restoreMissingBlockers(c) \/ cleanStaleMappings(c)
<1> USE DEF pass, loops
<1>1. ~Failure
  BY CalmSteps
<1>2. CASE Environment
  BY <1>2 DEF Environment, UserCreates, UserDeletes, Edited
<1>3. CASE \E c \in todoE : \/ cleanStaleMappings(c) \/ resolvePending(c) \/ adoptOrphan(c)
                      \/ restoreMissingBlockers(c)
  BY <1>3 DEF cleanStaleMappings, resolvePending, adoptOrphan, restoreMissingBlockers
<1>4. CASE \E a \in Account : SyncCalendar(a) \/ FullResync(a) \/ rebuildMappingsFromTags(a)
  BY <1>4 DEF SyncCalendar, FullResync, rebuildMappingsFromTags
<1>5. CASE SetCursor
  BY <1>5 DEF SetCursor, EndPass, InPass
<1>6. CASE FinishEvent \/ UNCHANGED vars
           \/ (\E n \in batch : processEvent(n))
           \/ (\E e \in vanished : DropVanished(e))
           \/ (\E a \in Account : upsertBlockerOnTarget(a) \/ deleteBlockersForOrigin(a))
  BY <1>6 DEF FinishEvent, processEvent, DropVanished, upsertBlockerOnTarget,
     deleteBlockersForOrigin, vars
<1> QED
  BY <1>1, <1>2, <1>3, <1>4, <1>5, <1>6 DEF Next, Continue

\* resolvePending leaves no intent, and only a failure makes a new one.
LEMMA IntentsKept ==
  ASSUME TypeOK, TypeOK', JobAge, IntentsResolved, [Next]_vars
  PROVE  IntentsResolved'
<1> USE DEF loops
<1> SUFFICES ASSUME calm' >= 0, NEW c \in Event, row'[c] = "pending"
             PROVE  /\ calm' <= 0
                    /\ calm' = 0 => /\ phase' \notin {"adopt", "restore"}
                                    /\ phase' = "pending" => c \in todoE'
  <2>1. calm' \in -1..2
    BY DEF TypeOK
  <2> QED
    BY <2>1 DEF IntentsResolved
<1>1. row[c] = "pending"
  BY RowSteps
<1>2. /\ calm \in -1..2 /\ calm <= 0
      /\ calm = 0 => phase \notin {"adopt", "restore"} /\ (phase = "pending" => c \in todoE)
  BY <1>1 DEF IntentsResolved, TypeOK
<1>3. CASE Reconcile
  BY <1>2, <1>3 DEF Reconcile, Enter
<1>4. CASE PhaseDone
  <2>1. calm = 0 /\ phase /= "restore" /\ calm' = calm /\ todoE = {}
    BY <1>2, <1>4, CalmSteps DEF PhaseDone, Reconcile
  <2>2. phase' = NextPhase[phase] /\ phase \in DOMAIN NextPhase
        /\ (phase' = "pending" => todoE' = {x \in Event : row[x] = "pending"})
    BY <1>4 DEF PhaseDone, Enter, NextPhase
  <2> QED
    BY <1>1, <1>2, <2>1, <2>2 DEF NextPhase
<1>5. CASE ~Reconcile /\ ~PhaseDone
  <2>1. calm' = calm /\ calm = 0
    BY <1>2, <1>5, CalmSteps
  <2>2. ASSUME NEW d \in todoE, resolvePending(d) PROVE c /= d
    BY <1>1, <2>2 DEF resolvePending, Record, TypeOK
  <2>3. phase \notin {"adopt", "restore"} /\ (phase = "pending" => c \in todoE)
    BY <1>2, <2>1
  <2>4. CASE \E d \in todoE : /\ todoE' = todoE \ {d} /\ todo' = todo /\ phase' = phase
                             /\ \/ resolvePending(d) \/ adoptOrphan(d)
                                \/ restoreMissingBlockers(d) \/ cleanStaleMappings(d)
    BY <2>1, <2>2, <2>3, <2>4 DEF adoptOrphan, restoreMissingBlockers, cleanStaleMappings
  <2>5. CASE \E a \in Account : ListAccount(a)
    BY <2>3, <2>5 DEF ListAccount
  <2> QED
    BY <1>5, <2>1, <2>3, <2>4, <2>5, PhaseSteps
<1> QED
  BY <1>3, <1>4, <1>5

\* adoptOrphans leaves no blocker without its row, and only a failure makes one.
LEMMA AdoptedKept ==
  ASSUME TypeOK, TypeOK', JobAge, OnlyIntents, Adopted, [Next]_vars
  PROVE  Adopted'
<1> USE DEF loops
<1> SUFFICES ASSUME calm' >= 0, NEW c \in events', IsCopy(c), row'[c] /= "active"
             PROVE  /\ calm' <= 0
                    /\ calm' = 0 => /\ phase' /= "restore"
                                    /\ phase' = "adopt" => c \in todoE' \/ Home(c) \in todo'
  <2>1. calm' \in -1..2
    BY DEF TypeOK
  <2> QED
    BY <2>1 DEF Adopted, IsCopy, Home
<1>1. c \in events /\ row[c] /= "active" /\ c \in Event
  <2>1. faults' = faults
    BY CalmSteps, FaultsCount
  <2> QED
    BY <2>1, IdsAreKept DEF TypeOK
<1>2. /\ calm \in -1..2 /\ calm <= 0
      /\ calm = 0 => /\ phase /= "restore"
                     /\ phase = "adopt" => c \in todoE \/ Home(c) \in todo
  BY <1>1 DEF Adopted, TypeOK
<1>3. CASE Reconcile
  BY <1>2, <1>3 DEF Reconcile, Enter
<1>4. CASE PhaseDone
  <2>1. calm = 0 /\ phase /= "restore" /\ calm' = calm /\ todoE = {} /\ todo = {}
    BY <1>2, <1>4, CalmSteps DEF PhaseDone, Reconcile
  <2>2. phase' = NextPhase[phase] /\ phase \in DOMAIN NextPhase
        /\ (phase' = "adopt" => todo' = Account)
    BY <1>4 DEF PhaseDone, Enter, NextPhase, PerAccount
  <2> QED
    BY <1>1, <1>2, <2>1, <2>2, EventFacts DEF NextPhase
<1>5. CASE ~Reconcile /\ ~PhaseDone
  <2>1. calm' = calm /\ calm = 0
    BY <1>2, <1>5, CalmSteps
  <2>2. ASSUME NEW d \in todoE, adoptOrphan(d) PROVE c /= d
    BY <1>1, <2>2 DEF adoptOrphan, Deleted, IsBlocker, TypeOK
  <2>3. phase /= "restore" /\ (phase = "adopt" => c \in todoE \/ Home(c) \in todo)
    BY <1>2, <2>1
  <2>4. CASE \E d \in todoE : /\ todoE' = todoE \ {d} /\ todo' = todo /\ phase' = phase
                             /\ \/ resolvePending(d) \/ adoptOrphan(d)
                                \/ restoreMissingBlockers(d) \/ cleanStaleMappings(d)
    BY <2>1, <2>2, <2>3, <2>4 DEF resolvePending, restoreMissingBlockers, cleanStaleMappings
  <2>5. ASSUME NEW a \in Account, ListAccount(a)
        PROVE  phase' = phase /\ (phase = "adopt" => c \in todoE' \/ Home(c) \in todo')
    BY <1>1, <2>3, <2>5 DEF ListAccount, Blockers, On
  <2> QED
    BY <1>5, <2>1, <2>3, <2>4, <2>5, PhaseSteps
<1> QED
  BY <1>3, <1>4, <1>5

-----------------------------------------------------------------------------
\* How a pass goes on.
PassBegins == \E a \in Account : SyncCalendar(a) \/ FullResync(a)

\* A pass begins with a new batch or goes on with the rest of its own.
LEMMA PassSteps ==
  ASSUME TypeOK, [Next]_vars, calm' >= 0, InPass'
  PROVE  /\ calm' = calm
         /\ PassBegins \/ (InPass /\ batch' \subseteq batch)
<1> USE DEF pass
<1>1. ~Failure /\ ~Reconcile /\ ~PhaseDone
  BY CalmSteps DEF Reconcile, PhaseDone, Enter, NextPhase, InPass
<1>2. calm' = calm
  BY <1>1, CalmSteps
<1>3. CASE Environment
  BY <1>2, <1>3 DEF Environment, UserCreates, UserDeletes, Edited, InPass
<1> QED
  BY <1>1, <1>2, <1>3 DEF Next, Continue, PassBegins, FinishEvent, SetCursor, EndPass,
     processEvent, DropVanished, upsertBlockerOnTarget, deleteBlockersForOrigin, ListAccount,
     rebuildMappingsFromTags, cleanStaleMappings, resolvePending, adoptOrphan,
     restoreMissingBlockers, InPass, vars

\* A pass that begins finds a row for every blocker, and changes none of its own
\* account.
LEMMA MirroredKept ==
  ASSUME TypeOK, TypeOK', JobAge, JobAge', OfThePass, OfThePass', Adopted, NoCopyMirrored,
         [Next]_vars
  PROVE  NoCopyMirrored'
<1> SUFFICES ASSUME calm' >= 1
             PROVE  /\ \A n \in batch' : n.there /\ IsCopy(n.e) => row'[n.e] = "active"
                    /\ job' /= NoJob /\ job'.how = "upsert" => ~IsCopy(job'.o)
  BY DEF NoCopyMirrored, IsBlocker, IsCopy
<1>0. calm \in -1..2 /\ calm' \in -1..2 /\ calm' >= 0
  BY DEF TypeOK
<1>1. CASE ~InPass'
  BY <1>1 DEF OfThePass, JobAge
<1>2. CASE InPass'
  <2>1. calm' = calm /\ calm >= 1 /\ (PassBegins \/ (InPass /\ batch' \subseteq batch))
    BY <1>0, <1>2, PassSteps
  <2>2. CASE PassBegins
    <3>1. UNCHANGED <<row, job>> /\ job = NoJob
      BY <2>2 DEF PassBegins, SyncCalendar, FullResync, JobAge, InPass
    <3>2. ASSUME NEW n \in batch', n.there PROVE n.e \in events
      <4>1. ASSUME NEW a \in Account, SyncCalendar(a), cursor[a] = "valid" PROVE n.e \in events
        <5>1. PICK d \in dirty : n = [e |-> d, there |-> d \in events]
          BY <3>2, <4>1 DEF SyncCalendar
        <5> QED
          BY <3>2, <5>1
      <4>2. ASSUME NEW a \in Account, batch' = {[e |-> e, there |-> TRUE] : e \in On(a)}
            PROVE  n.e \in events
        <5>1. PICK d \in events : n = [e |-> d, there |-> TRUE]
          BY <4>2 DEF On
        <5> QED
          BY <5>1
      <4> QED
        BY <2>2, <4>1, <4>2 DEF PassBegins, SyncCalendar, FullResync
    <3>3. \A c \in events : IsCopy(c) => row[c] = "active"
      BY <1>0, <2>1 DEF Adopted
    <3> QED
      BY <3>1, <3>2, <3>3 DEF NoJob
  <2>3. CASE InPass /\ batch' \subseteq batch
    <3>1. ASSUME NEW n \in batch', n.there, IsCopy(n.e) PROVE row'[n.e] = "active"
      <4>1. n \in batch /\ n.e \in Event /\ Home(n.e) = at
        BY <2>3, <3>1 DEF TypeOK, Notice, OfThePass
      <4>2. row[n.e] = "active"
        BY <2>1, <3>1, <4>1 DEF NoCopyMirrored, IsBlocker
      <4>3. ~Distributes(n.e) /\ ~TakesDown(n.e)
        BY <2>3, <4>1 DEF Distributes, TakesDown, OfThePass
      <4>4. row'[n.e] = row[n.e]
        BY <1>0, <2>3, <4>1, <4>3, RowSteps DEF LoopTouches, InPass
      <4> QED
        BY <4>2, <4>4
    <3>2. job' /= NoJob /\ job'.how = "upsert" => ~IsCopy(job'.o)
      <4>1. CASE JobBegins
        BY <2>1, <4>1, NewJob DEF NoCopyMirrored
      <4>2. CASE JobGoesOn
        BY <2>1, <4>2, JobBlocker DEF JobGoesOn, NoCopyMirrored
      <4> QED
        BY <1>0, <2>1, <4>1, <4>2, JobSteps DEF NoCopyMirrored
    <3> QED
      BY <3>1, <3>2
  <2> QED
    BY <2>1, <2>2, <2>3
<1> QED
  BY <1>1, <1>2

\* From then on no copy gets into the events cache.
LEMMA CachedSteps ==
  ASSUME TypeOK, [Next]_vars, NoCopyMirrored, calm >= 1, NEW e \in cached', IsCopy(e)
  PROVE  e \in cached
<1>1. ASSUME NEW n \in batch, processEvent(n) PROVE e \in cached
  BY <1>1 DEF processEvent, Recognised, NoCopyMirrored
<1>2. CASE Failure
  BY <1>2 DEF Failure, CallFails, Crash, DatabaseLost, TargetAuthFails, ListingFails,
     CursorExpires
<1>3. CASE Environment
  BY <1>3 DEF Environment, UserCreates, UserDeletes, Edited
<1> QED
  BY <1>1, <1>2, <1>3 DEF Next, Continue, Reconcile, SyncCalendar, FinishEvent, SetCursor,
     PhaseDone, DropVanished, FullResync, upsertBlockerOnTarget, deleteBlockersForOrigin,
     ListAccount, rebuildMappingsFromTags, cleanStaleMappings, resolvePending, adoptOrphan,
     restoreMissingBlockers, vars

\* What a copy is a copy of.
LEMMA CopyFacts ==
  ASSUME NEW c \in Event, IsCopy(c)
  PROVE  /\ Source(c) \in Event /\ Len(c) = Len(Source(c)) + 1 /\ Len(Source(c)) < MaxLen
         /\ Home(c) \in Account /\ Append(Source(c), Home(c)) = c
<1>1. /\ c \in Seq(Account) /\ Home(c) \in Account
      /\ Len(c) \in Nat /\ Len(c) > 1 /\ Len(c) <= MaxLen
  BY EventFacts DEF IsCopy
<1>2. PICK k \in Nat : k = Len(c) - 1
  BY <1>1
<1>3. /\ SubSeq(c, 1, k) \in Seq(Account) /\ Len(SubSeq(c, 1, k)) = k
      /\ Append(SubSeq(c, 1, k), c[Len(c)]) = c
  BY <1>1, <1>2
<1>4. Source(c) \in Seq(Account) /\ Len(Source(c)) = k
  BY <1>2, <1>3 DEF Source
<1>5. Append(Source(c), Home(c)) = c
  BY <1>2, <1>3 DEF Source, Home
<1>6. k >= 1 /\ k <= MaxLen /\ k < MaxLen /\ Len(c) = k + 1
  BY <1>1, <1>2, LoopAssumption
<1>7. Source(c) \in Event
  BY <1>4, <1>6, SeqIsEvent
<1> QED
  BY <1>1, <1>4, <1>5, <1>6, <1>7

\* Which steps touch what the FullResyncs go through.
LEMMA ResyncSteps ==
  ASSUME TypeOK, JobAge, [Next]_vars, calm' >= 0, phase' \in {"full", "resync"}
  PROVE  \/ PhaseDone /\ phase = "rebuild"
         \/ \E a \in Account : FullResync(a)
         \/ phase = "resync" /\ SetCursor
         \/ phase = "resync" /\ (JobBegins \/ FinishEvent)
         \/ /\ UNCHANGED <<phase, todo, healthy, at, vanished>>
            /\ job' = job \/ JobGoesOn
<1> USE DEF pass, loops
<1>1. ~Failure
  BY CalmSteps
<1>2. CASE Environment
  BY <1>2 DEF Environment, UserCreates, UserDeletes, Edited
<1>3. CASE PhaseDone \/ Reconcile
  BY <1>3 DEF PhaseDone, Reconcile, Enter, NextPhase
<1>4. CASE FinishEvent \/ JobBegins
  <2>1. phase' = phase /\ phase /= "full"
    BY <1>4 DEF FinishEvent, JobBegins, processEvent, DropVanished, cleanStaleMappings, JobAge,
       InPass
  <2> QED
    BY <1>4, <2>1
<1>5. CASE \E a \in Account : SyncCalendar(a) \/ ListAccount(a) \/ rebuildMappingsFromTags(a)
  BY <1>5 DEF SyncCalendar, ListAccount, rebuildMappingsFromTags
<1>6. CASE JobGoesOn
  BY <1>6 DEF JobGoesOn, upsertBlockerOnTarget, deleteBlockersForOrigin
<1>7. CASE SetCursor
  BY <1>7 DEF SetCursor, EndPass, InPass
<1>8. ASSUME \/ UNCHANGED vars
             \/ \E c \in todoE : resolvePending(c) \/ adoptOrphan(c) \/ restoreMissingBlockers(c)
      PROVE  UNCHANGED <<phase, todo, healthy, at, vanished, job>>
  BY <1>8 DEF vars, resolvePending, adoptOrphan, restoreMissingBlockers
<1> QED
  BY <1>1, <1>2, <1>3, <1>4, <1>5, <1>6, <1>7, <1>8 DEF Next, Continue, JobBegins, JobGoesOn

\* Every FullResync forgets the copies of its account, and none fails.
LEMMA ResyncedKept ==
  ASSUME TypeOK, TypeOK', JobAge, OfThePass, Unfailed, Adopted, NoCopyMirrored, Resynced,
         [Next]_vars
  PROVE  Resynced'
<1> SUFFICES ASSUME calm' >= 1, phase' \in {"full", "resync"}
             PROVE  /\ \A e \in cached' : IsCopy(e) => Home(e) \in todo' \/ Forgetting(e)'
                    /\ \A a \in Account : \/ a \in todo' \cup healthy'
                                          \/ phase' = "resync" /\ a = at'
  BY DEF Resynced, IsCopy, Home
<1>0. calm \in -1..2 /\ calm' \in -1..2 /\ calm' >= 0
  BY DEF TypeOK
<1>1. calm' = calm /\ calm >= 1
  <2>1. ~Reconcile /\ ~(PhaseDone /\ phase = "restore")
    BY DEF Reconcile, PhaseDone, Enter, NextPhase
  <2> QED
    BY <1>0, <2>1, CalmSteps
<1>2. ASSUME NEW e \in cached', IsCopy(e)
      PROVE  e \in cached /\ e \in Event /\ Home(e) \in Account
  BY <1>1, <1>2, CachedSteps, EventFacts DEF TypeOK
<1>3. CASE PhaseDone /\ phase = "rebuild"
  <2>1. phase' = "full" /\ todo' = Account
    BY <1>3 DEF PhaseDone, Enter, NextPhase, PerAccount
  <2> QED
    BY <1>2, <2>1
<1>4. ASSUME phase \in {"full", "resync"}
      PROVE  /\ \A e \in cached : IsCopy(e) => Home(e) \in todo \/ Forgetting(e)
             /\ \A a \in Account : a \in todo \cup healthy \/ (phase = "resync" /\ a = at)
  BY <1>1, <1>4 DEF Resynced
<1>5. ASSUME NEW a \in Account, FullResync(a)
      PROVE  /\ \A e \in cached' : IsCopy(e) => Home(e) \in todo' \/ Forgetting(e)'
             /\ \A b \in Account : \/ b \in todo' \cup healthy'
                                   \/ phase' = "resync" /\ b = at'
  <2>1. /\ phase = "full" /\ phase' = "resync" /\ todo' = todo \ {a} /\ at' = a
        /\ vanished' = {e \in cached : Home(e) = a} \ alive(a) /\ healthy' = healthy
    BY <1>5 DEF FullResync
  <2>2. ASSUME NEW e \in cached, IsCopy(e) PROVE e \notin alive(a)
    BY <1>1, <1>0, <2>2 DEF alive, On, IsBlocker, Adopted
  <2>3. \A e \in cached : IsCopy(e) => Home(e) \in todo
    BY <1>4, <2>1 DEF Forgetting
  <2> QED
    BY <1>2, <1>4, <2>1, <2>2, <2>3 DEF Forgetting
<1>6. CASE phase = "resync" /\ SetCursor
  <2>1. /\ job = NoJob /\ vanished = {} /\ phase' = "full" /\ todo' = todo /\ ok
        /\ healthy' = healthy \cup {at} /\ InPass
    BY <1>0, <1>1, <1>6 DEF SetCursor, EndPass, Unfailed, InPass
  <2> QED
    BY <1>2, <1>4, <1>6, <2>1 DEF Forgetting
<1>7. CASE phase = "resync" /\ FinishEvent
  <2>1. /\ job /= NoJob /\ job' = NoJob /\ ~job.failed
        /\ UNCHANGED <<phase, todo, healthy, at, vanished>>
        /\ job.how = "delete" => cached' = cached \ {job.o}
    BY <1>0, <1>1, <1>7 DEF FinishEvent, Unfailed, pass, loops
  <2> QED
    BY <1>2, <1>4, <1>7, <2>1 DEF Forgetting
<1>8. CASE phase = "resync" /\ JobBegins
  <2>1. UNCHANGED <<phase, todo, healthy, at>> /\ job = NoJob
    BY <1>8, NewJob
  <2>2. \/ vanished = {}
        \/ \E e \in vanished : vanished' = vanished \ {e} /\ job' = TakeDown("delete", e)
    BY <1>8 DEF JobBegins, processEvent, DropVanished, cleanStaleMappings
  <2>3. ASSUME NEW e \in vanished, vanished' = vanished \ {e}, job' = TakeDown("delete", e)
        PROVE  job' /= NoJob /\ job'.how = "delete" /\ job'.o = e
    BY <2>3, TakeDownTyped DEF TypeOK
  <2> QED
    BY <1>2, <1>4, <1>8, <2>1, <2>2, <2>3 DEF Forgetting
<1>9. CASE UNCHANGED <<phase, todo, healthy, at, vanished>> /\ (job' = job \/ JobGoesOn)
  <2>1. job' = job \/ (job' /= NoJob /\ job /= NoJob /\ job'.how = job.how /\ job'.o = job.o)
    BY <1>9, JobBlocker DEF JobGoesOn
  <2> QED
    BY <1>2, <1>4, <1>9, <2>1 DEF Forgetting
<1> QED
  BY <1>0, <1>3, <1>5, <1>6, <1>7, <1>8, <1>9, ResyncSteps

\* After them there are no copies in the cache.
LEMMA UncachedKept ==
  ASSUME TypeOK, TypeOK', NoCopyMirrored, Resynced, Uncached, [Next]_vars
  PROVE  Uncached'
<1> USE DEF loops
<1> SUFFICES ASSUME \/ calm' = 2
                    \/ calm' = 1 /\ phase' \in {"clean", "pending", "adopt", "restore"},
                    NEW e \in cached', IsCopy(e)
             PROVE  FALSE
  BY DEF Uncached, IsCopy
<1>0. calm \in -1..2 /\ calm' \in -1..2 /\ calm' >= 0
  BY DEF TypeOK
<1>1. ~Reconcile \/ calm = 2
  BY DEF Reconcile, Enter
<1>2. CASE calm = 2
  BY <1>2, CachedSteps DEF Uncached
<1>3. CASE calm /= 2 /\ PhaseDone
  <2>1. /\ phase \in {"full", "clean", "pending", "adopt", "restore"} /\ todo = {}
        /\ calm = 1
    <3>1. /\ phase' = NextPhase[phase] /\ phase \in DOMAIN NextPhase /\ todo = {}
          /\ phase = "restore" => phase' = "idle"
      BY <1>3 DEF PhaseDone, Enter, NextPhase
    <3>2. phase /= "restore" => calm' = calm
      BY <1>3 DEF PhaseDone
    <3>3. CASE phase = "restore"
      <4>1. phase' = "idle" /\ calm' = 2
        BY <3>1, <3>3
      <4> QED
        BY <1>0, <1>3, <3>1, <3>3, <4>1 DEF PhaseDone
    <3> QED
      BY <1>0, <1>3, <3>1, <3>2, <3>3 DEF NextPhase
  <2>2. e \in cached
    BY <2>1, CachedSteps
  <2> QED
    BY <2>1, <2>2 DEF Uncached, Resynced, Forgetting
<1>4. CASE calm /= 2 /\ ~PhaseDone
  <2>1. calm' = calm /\ calm = 1 /\ phase' \in {"clean", "pending", "adopt", "restore"}
    BY <1>0, <1>1, <1>4, CalmSteps
  <2>2. phase' = phase
    BY <1>0, <1>1, <1>4, <2>1, PhaseSteps DEF ListAccount
  <2> QED
    BY <2>1, <2>2, CachedSteps DEF Uncached
<1> QED
  BY <1>2, <1>3, <1>4

\* cleanStaleMappings lists the origins of the echoes, and takes all of them down;
\* no echo gets a row again.
LEMMA ClearedKept ==
  ASSUME TypeOK, TypeOK', JobAge, Elsewhere, IntentsResolved, Adopted, NoCopyMirrored,
         Resynced, Uncached, Cleared, [Next]_vars
  PROVE  Cleared'
<1> USE DEF loops
<1> SUFFICES ASSUME calm' >= 1, NEW c \in Event, Len(c) > 2, row'[c] /= "none"
             PROVE  /\ calm' < 2
                    /\ calm' = 1 => /\ phase' \notin {"pending", "adopt", "restore"}
                                    /\ phase' = "clean" => Clearing(c)'
  <2>1. calm' \in -1..2
    BY DEF TypeOK
  <2> QED
    BY <2>1 DEF Cleared, Clearing, Source, Home
<1>0. calm \in -1..2 /\ calm' \in -1..2 /\ calm' >= 0
  BY DEF TypeOK
<1>1. /\ IsCopy(c) /\ Source(c) \in Event /\ Len(Source(c)) < MaxLen /\ IsCopy(Source(c))
      /\ Home(c) \in Account /\ Append(Source(c), Home(c)) = c
  <2>1. Len(c) \in Nat
    BY EventFacts
  <2>2. IsCopy(c)
    BY <2>1 DEF IsCopy
  <2>3. Source(c) \in Event /\ Len(c) = Len(Source(c)) + 1
    BY <2>2, CopyFacts
  <2>4. Len(Source(c)) \in Nat
    BY <2>3, EventFacts
  <2>5. IsCopy(Source(c))
    BY <2>1, <2>3, <2>4 DEF IsCopy
  <2> QED
    BY <2>2, <2>3, <2>5, CopyFacts
<1>2. CASE calm < 1
  <2>1. calm' = 1 /\ phase' = "idle"
    BY <1>0, <1>2, CalmSteps DEF PhaseDone, Enter, NextPhase
  <2> QED
    BY <2>1
<1>3. CASE calm >= 1
  <2>1. row[c] /= "none"
    <3>1. SUFFICES ASSUME row[c] = "none" PROVE FALSE
      OBVIOUS
    <3>2. CASE Distributes(c)
      BY <1>1, <1>3, <3>2 DEF Distributes, NoCopyMirrored
    <3>3. CASE c \in events
      BY <1>0, <1>1, <1>3, <3>1, <3>3 DEF Adopted
    <3>4. CASE LoopTouches(c) /\ Source(c) \in cached
      BY <1>0, <1>1, <1>3, <3>4 DEF LoopTouches, Uncached
    <3> QED
      BY <1>0, <3>1, <3>2, <3>3, <3>4, RowSteps
  <2>2. /\ calm = 1 /\ phase \notin {"pending", "adopt", "restore"}
        /\ phase = "clean" => Clearing(c)
    BY <1>0, <1>3, <2>1 DEF Cleared
  <2>3. CASE Reconcile
    BY <2>2, <2>3 DEF Reconcile, Enter
  <2>4. CASE PhaseDone
    <3>1. /\ calm' = calm /\ phase \in DOMAIN NextPhase /\ phase' = NextPhase[phase]
          /\ job = NoJob /\ todo = {} /\ todoE = {}
          /\ phase' = "clean" => todoE' = StaleOrigins
      BY <2>2, <2>4 DEF PhaseDone, Enter, NextPhase
    <3>2. CASE phase = "full"
      <4>1. \A a \in Account : a \in healthy
        BY <1>3, <3>1, <3>2 DEF Resynced
      <4>2. Source(c) \notin cached
        BY <1>1, <1>3, <3>1, <3>2 DEF Resynced, Forgetting
      <4>3. Home(c) \in TargetsOf(Source(c))
        BY <1>1, <2>1 DEF Elsewhere, Abroad, TargetsOf
      <4>4. row[c] = "active"
        BY <1>0, <1>3, <2>1 DEF IntentsResolved, TypeOK
      <4>5. Source(c) \in StaleOrigins
        BY <1>1, <4>1, <4>2, <4>3, <4>4, EventFacts DEF StaleOrigins
      <4> QED
        BY <2>2, <3>1, <3>2, <4>5 DEF Clearing, NextPhase
    <3>3. CASE phase = "clean"
      BY <2>2, <3>1, <3>3 DEF Clearing
    <3>4. CASE phase = "rebuild"
      BY <2>2, <3>1, <3>4 DEF NextPhase
    <3> QED
      BY <2>2, <3>1, <3>2, <3>3, <3>4 DEF NextPhase
  <2>5. CASE ~Reconcile /\ ~PhaseDone
    <3>1. calm' = 1 /\ (phase' = phase \/ phase' \notin {"clean", "pending", "adopt", "restore"})
      BY <1>0, <2>2, <2>5, CalmSteps, PhaseSteps DEF ListAccount
    <3>2. ASSUME phase = "clean", phase' = "clean" PROVE Clearing(c)'
      <4>1. Clearing(c)
        BY <2>2, <3>2
      <4>2. CASE Source(c) \in todoE
        <5>1. CASE \E o \in todoE : cleanStaleMappings(o) /\ todoE' = todoE \ {o}
          <6>1. PICK o \in todoE : cleanStaleMappings(o) /\ todoE' = todoE \ {o}
            BY <5>1
          <6>2. CASE o = Source(c)
            <7>1. /\ job' /= NoJob /\ job'.o = Source(c) /\ job'.left = RowsOf(Source(c))
              BY <1>1, <6>1, <6>2, TakeDownTyped DEF cleanStaleMappings
            <7>2. Home(c) \in RowsOf(Source(c))
              BY <1>1, <2>1 DEF Elsewhere, Abroad, TargetsOf, RowsOf
            <7> QED
              BY <7>1, <7>2 DEF Clearing
          <6> QED
            BY <4>2, <6>1, <6>2 DEF Clearing
        <5>2. todoE' = todoE \/ \E o \in todoE : cleanStaleMappings(o) /\ todoE' = todoE \ {o}
          BY <1>0, <2>5, <3>2, PhaseSteps DEF ListAccount, resolvePending, adoptOrphan,
             restoreMissingBlockers
        <5> QED
          BY <4>2, <5>1, <5>2 DEF Clearing
      <4>3. CASE job /= NoJob /\ job.o = Source(c) /\ Home(c) \in job.left
        <5>1. ~JobBegins /\ ~FinishEvent
          BY <4>3, NewJob DEF FinishEvent
        <5>2. ASSUME NEW t \in Account, upsertBlockerOnTarget(t) \/ deleteBlockersForOrigin(t)
              PROVE  Clearing(c)'
          <6>1. job.how = "clear"
            BY <3>2, <4>3 DEF JobAge, InPass
          <6>2. row'[Append(job.o, t)] = "none" /\ job'.o = job.o /\ job' /= NoJob
                /\ job'.left = job.left \ {t}
            BY <5>2, <6>1, JobBlocker DEF upsertBlockerOnTarget, deleteBlockersForOrigin, Step,
               TypeOK
          <6>3. t /= Home(c)
            BY <1>1, <4>3, <6>2
          <6> QED
            BY <4>3, <6>2, <6>3 DEF Clearing
        <5>3. CASE job' = job
          BY <4>3, <5>3 DEF Clearing
        <5> QED
          BY <1>0, <5>1, <5>2, <5>3, JobSteps DEF JobGoesOn
      <4> QED
        BY <4>1, <4>2, <4>3 DEF Clearing
    <3> QED
      BY <2>2, <3>1, <3>2
  <2> QED
    BY <2>3, <2>4, <2>5
<1> QED
  BY <1>0, <1>2, <1>3

-----------------------------------------------------------------------------
\* Nothing is there when the engine starts for the first time.
LEMMA TidyInit == Init => Tidying
<1> SUFFICES ASSUME Init PROVE Tidying
  OBVIOUS
<1>1. /\ phase = "idle" /\ job = NoJob /\ batch = {} /\ cached = {} /\ todoE = {} /\ calm = 0
      /\ \A c \in Event : row[c] = "none"
  BY DEF Init
<1>2. ASSUME NEW e \in events PROVE ~IsCopy(e)
  <2>1. PICK a \in Account : e = <<a>>
    BY DEF Init
  <2>2. Len(e) = 1
    BY <2>1, RealFacts
  <2> QED
    BY <2>2 DEF IsCopy
<1> QED
  BY <1>1, <1>2 DEF Tidying, Elsewhere, Abroad, Unfailed, InPass, IntentsResolved, Adopted,
     NoCopyMirrored, Resynced, Uncached, Cleared

\* Every step of the engine and its users keeps it.
LEMMA TidyNext ==
  ASSUME Inv, Tidying, [Next]_vars
  PROVE  Tidying'
<1>1. /\ TypeOK /\ JobAge /\ Ages /\ OnlyIntents /\ OfThePass
      /\ TypeOK' /\ JobAge' /\ OfThePass'
  BY InvNext DEF Inv, Generations
<1>2. /\ Elsewhere /\ Unfailed /\ IntentsResolved /\ Adopted
      /\ NoCopyMirrored /\ Resynced /\ Uncached /\ Cleared
  BY DEF Tidying
<1>3. Elsewhere' /\ Unfailed' /\ IntentsResolved' /\ Adopted'
  BY <1>1, <1>2, ElsewhereKept, UnfailedKept, IntentsKept, AdoptedKept
<1>4. NoCopyMirrored' /\ Resynced' /\ Uncached' /\ Cleared'
  BY <1>1, <1>2, MirroredKept, ResyncedKept, UncachedKept, ClearedKept
<1> QED
  BY <1>3, <1>4 DEF Tidying

\* So does a removal, which takes blockers away together with their rows.
LEMMA TidyShrinks ==
  ASSUME Inv, Tidying, phase = "idle", Shrinks, CalmOrCounted
  PROVE  Tidying'
<1> USE DEF Shrinks, loops, pass
<1>1. TypeOK /\ job = NoJob /\ batch = {} /\ job' = NoJob /\ batch' = {} /\ phase' = "idle"
  BY DEF Inv, Generations, JobAge, OfThePass, InPass
<1>2. calm \in -1..2 /\ (calm' = -1 \/ (calm' = calm /\ faults' = faults)) /\ faults \in Nat
  BY <1>1 DEF TypeOK, CalmOrCounted
<1>3. \A c \in Event : row'[c] = row[c] \/ row'[c] = "none"
  OBVIOUS
<1>4. Elsewhere'
  BY <1>3 DEF Tidying, Elsewhere, Abroad
<1>5. Unfailed' /\ NoCopyMirrored' /\ Resynced'
  BY <1>1 DEF Unfailed, NoCopyMirrored, Resynced, InPass
<1>6. IntentsResolved'
  BY <1>1, <1>2, <1>3 DEF Tidying, IntentsResolved
<1>7. Adopted'
  <2> SUFFICES ASSUME NEW c \in events', IsCopy(c), row'[c] /= "active", calm' /= -1
               PROVE  calm' <= 0
    BY <1>1, <1>2 DEF Adopted, IsCopy
  <2>1. calm' = calm /\ faults' = faults
    BY <1>2
  <2>2. c \in events /\ c \in Event /\ row[c] /= "active"
    BY <1>1, <1>2, <2>1 DEF TypeOK
  <2> QED
    BY <2>1, <2>2 DEF Tidying, Adopted
<1>8. Uncached'
  BY <1>1, <1>2 DEF Tidying, Uncached, IsCopy
<1>9. Cleared'
  BY <1>1, <1>2, <1>3 DEF Tidying, Cleared
<1> QED
  BY <1>4, <1>5, <1>6, <1>7, <1>8, <1>9 DEF Tidying

\* With that, nothing but events and their blockers is left after two Reconciles.
LEMMA TidyLeavesNone == TypeOK /\ Tidying => ReconcileRemovesEchoes
<1> SUFFICES ASSUME TypeOK, Tidying, calm = 2, NEW e \in events
             PROVE  Len(e) <= 2 /\ (IsCopy(e) => IsBlocker(e))
  BY DEF ReconcileRemovesEchoes
<1>1. e \in Event /\ Len(e) \in Nat
  BY EventFacts DEF TypeOK
<1>2. IsCopy(e) => row[e] = "active"
  BY DEF Tidying, Adopted
<1>3. ~(Len(e) > 2 /\ row[e] /= "none")
  BY <1>1 DEF Tidying, Cleared
<1> QED
  BY <1>1, <1>2, <1>3 DEF IsCopy, IsBlocker

\* Echoes do not stay (Engine.Reconcile): two Reconciles in a row in which no
\* call fails take down every blocker of a blocker, and leave no blocker without its row,
\* whatever was lost before and whatever users change meanwhile.
THEOREM EchoesAreRemoved == Spec => []ReconcileRemovesEchoes
<1>1. Init => Inv /\ Tidying
  BY InvInit, TidyInit
<1>2. Inv /\ Tidying /\ [Next]_vars => (Inv /\ Tidying)'
  BY InvNext, TidyNext
<1>3. Inv /\ Tidying => ReconcileRemovesEchoes
  BY TidyLeavesNone DEF Inv
<1> QED
  BY <1>1, <1>2, <1>3, PTL DEF Spec

\* The same when accounts are removed and authorised again between the Reconciles.
THEOREM RemovalsLeaveNoEchoes == RemovalSpec => []ReconcileRemovesEchoes
<1>1. RemovalInit => Tidying
  BY TidyInit DEF RemovalInit
<1>2. RemovalInv /\ Tidying /\ [RemovalNext]_<<vars, removing>> => Tidying'
  <2> SUFFICES ASSUME RemovalInv, Tidying, [RemovalNext]_<<vars, removing>> PROVE Tidying'
    OBVIOUS
  <2>1. Inv
    BY DEF RemovalInv
  <2>2. CASE [Next]_vars
    BY <2>1, <2>2, TidyNext
  <2>3. CASE TakesAway
    BY <2>1, <2>3, TakingAwayShrinks, TidyShrinks
  <2> QED
    BY <2>2, <2>3 DEF RemovalNext, TakesAway, Outside, Next, NextLoop, BeginRemoval, removing
<1>3. RemovalInv /\ Tidying => ReconcileRemovesEchoes
  BY TidyLeavesNone DEF RemovalInv, Inv
<1> QED
  BY <1>1, <1>2, <1>3, RemovalInvariance, PTL DEF RemovalSpec
=============================================================================
