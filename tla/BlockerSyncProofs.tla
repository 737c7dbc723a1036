-------------------------- MODULE BlockerSyncProofs --------------------------
(***************************************************************************)
(* Theorems about BlockerSync for every set of events and accounts, every   *)
(* horizon and every number of edits and failures.                          *)
(*                                                                         *)
(* TypeCorrect comes first.  UniqueBlocker needs nothing but the types:     *)
(* only the two calls that write can add a blocker, and both look for the   *)
(* live one first.  RowTellsTruth is not inductive: the write that follows  *)
(* a call must find the row and the remote event as the call left them.     *)
(* Bookkeeping says so, and with it every step is one of three kinds: quiet *)
(* steps change neither a row nor a blocker except by a user's hand,        *)
(* call steps are a provider call or the write after it, loop steps take    *)
(* the next element of a pass.                                              *)
(*                                                                         *)
(* CursorTellsTruth speaks of the idle engine; CursorInv says in every      *)
(* phase what the cursor and the batch in progress are worth.  KeepsThePast *)
(* needs a reason for every removal: PastInv and CallsJustified give the    *)
(* reason of the job and of the call in progress, NamesInv says that the    *)
(* ids in the rows and in the listings are those of the calendar.           *)
(* RowsNameBlockers adds where an id that is no longer there came from.     *)
(*                                                                         *)
(* ReconcileSettles speaks of the moment a Reconcile is over.  SettleInv    *)
(* says, for every phase, what has been established by then: one conjunct   *)
(* of PairRight per phase, from the set difference to the safety net for    *)
(* suppressed rows, each with the exceptions that the loop in progress      *)
(* still has to deal with.  A settled engine is Steady, and no later pass   *)
(* of an undisturbed engine finds anything to do.                           *)
(*                                                                         *)
(* ImplementsMirror comes last: the engine under the mapping of Chain is a  *)
(* Mirror.  CallsKnown says that no call outlives the cached time it works  *)
(* from.                                                                   *)
(***************************************************************************)
EXTENDS BlockerSync, TLAPS

USE DEF Slot, Pair, Gone, Free, NoChange, NoSlot, Unknown, NoId, KeyId, Row, Blocker

\* The provider call in progress has a pair, a slot and an id of the right
\* kind.
LEMMA OpTyped ==
  ASSUME TypeOK
  PROVE  /\ op.do \in {"create", "created", "update", "updated"} =>
              op.p \in Pair /\ op.slot \in Slot /\ op.id \in Nat \cup {NoId}
         /\ op.do \in {"delete", "deleted"} => op.p \in Pair /\ op.id \in Nat \cup {NoId}
BY DEF TypeOK, Op, NoOp

\* The event being distributed or taken down is one of the calendar, and what
\* is left of it are targets.
LEMMA JobTyped ==
  ASSUME TypeOK, job /= NoJob
  PROVE  /\ job \in Job /\ job.o \in Origin /\ job.left \subseteq Target
         /\ job.failed \in BOOLEAN
         /\ job.how = "upsert" => job.slot \in Slot
BY DEF TypeOK, Job, NoJob

\* Issuing a provider call leaves a well-formed call in progress.
LEMMA CallTyped ==
  ASSUME NEW p \in Pair, NEW i \in Nat \cup {NoId}, NEW d, NEW s, Call(d, p, s, i),
         \/ d \in {"create", "created", "update", "updated"} /\ s \in Slot
         \/ d \in {"delete", "deleted"} /\ s = NoSlot
  PROVE  op' \in Op
BY DEF Call, Op

\* Taking down an event is a well-formed job (deleteBlockersForOrigin lists its
\* rows).
LEMMA DropTyped ==
  ASSUME NEW h \in {"delete", "clear"}, NEW o \in Origin
  PROVE  Drop(h, o) \in Job
BY DEF Drop, Job, RowsOf

\* Writing a well-formed row keeps the mappings table well-formed.
LEMMA PutMappingTyped ==
  ASSUME TypeOK, NEW p \in Pair, NEW m \in Row, PutMapping(p, m)
  PROVE  row' \in [Pair -> Row] /\ torn' \subseteq Pair
BY DEF TypeOK, PutMapping

\* The rows the engine writes (intent, suppressed, active) are rows of the
\* table.
LEMMA RowsTyped ==
  /\ NoRow \in Row
  /\ \A s \in Slot : Pending(s) \in Row /\ Suppressed(s) \in Row
  /\ \A i \in Nat, s \in Slot \cup {Unknown} : Active(i, s) \in Row
BY DEF NoRow, Pending, Suppressed, Active

\* createFromMapping stores a well-formed intent and issues a well-formed call.
LEMMA CreateFromMappingTyped ==
  ASSUME TypeOK, NEW p \in Pair, NEW s \in Slot, createFromMapping(p, s)
  PROVE  row' \in [Pair -> Row] /\ torn' \subseteq Pair /\ op' \in Op
BY PutMappingTyped, RowsTyped, CallTyped DEF createFromMapping

\* CreateBlocker, UpdateBlocker and DeleteBlocker leave tagged events with a
\* pair, an id and a slot.
LEMMA ProviderTyped ==
  ASSUME TypeOK, NEW p \in Pair, NEW s \in Slot, NEW i \in Nat \cup {NoId}
  PROVE  /\ CreateEffect(p, s, i) \/ Align(p, s, i) \/ DeleteEffect(p, i)
            => blockers' \subseteq Blocker /\ nextId' \in Nat \ {KeyId}
         /\ CreateEffect(p, s, i) => i \in Nat
<1>1. Align(p, s, i) => blockers' \subseteq Blocker /\ nextId' \in Nat \ {KeyId} /\ i \in Nat
  BY DEF TypeOK, Align, Live
<1>2. Insert(p, s, i) => blockers' \subseteq Blocker /\ nextId' \in Nat \ {KeyId} /\ i \in Nat
  BY DEF TypeOK, Insert
<1>3. DeleteEffect(p, i) => blockers' \subseteq Blocker /\ nextId' \in Nat \ {KeyId}
  BY DEF TypeOK, DeleteEffect
<1> QED
  BY <1>1, <1>2, <1>3 DEF CreateEffect

\* The loop a phase starts with runs over origins, pairs and targets.
LEMMA EnterTyped ==
  ASSUME TypeOK, NEW ph \in Phases, NEW ok \in BOOLEAN, Enter(ph, ok)
  PROVE  /\ phase' \in Phases /\ since' \in Nat
         /\ todoO' \subseteq Origin /\ todoP' \subseteq Pair
         /\ todoB' \subseteq Blocker /\ todoT' \subseteq Target
BY DEF TypeOK, Enter, StaleOrigins, RowsWith

\* Returning from SyncCalendar or FullResync leaves the engine idle or in the
\* next phase.
LEMMA EndResyncTyped ==
  ASSUME TypeOK, NEW ok \in BOOLEAN, EndResync(ok)
  PROVE  /\ phase' \in Phases /\ since' \in Nat
         /\ todoO' \subseteq Origin /\ todoP' \subseteq Pair
         /\ todoB' \subseteq Blocker /\ todoT' \subseteq Target
         /\ reconciling' \in BOOLEAN /\ healthy' \in BOOLEAN
         /\ batch' \in [Origin -> Slot \cup {Gone, Free, NoChange}]
         /\ later' \subseteq Origin
<1>1. Enter("clean", ok) \/ Enter("idle", ok)
  BY DEF EndResync
<1> QED
  BY <1>1, EnterTyped DEF EndResync, NoBatch, Phases

\* What Changes returns, as a listing or as a delta, is a batch.
LEMMA ChangesTyped ==
  ASSUME TypeOK
  PROVE  /\ Listing \in [Origin -> Slot \cup {Gone, Free, NoChange}]
         /\ Delta \in [Origin -> Slot \cup {Gone, Free, NoChange}]
BY DEF TypeOK, Listing, Delta

\* Every step keeps the types.
LEMMA NextTyped == TypeOK /\ [Next]_vars => TypeOK'
<1> SUFFICES ASSUME TypeOK, [Next]_vars PROVE TypeOK'
  OBVIOUS
<1> USE DEF TypeOK, world, store, memory, result, todo
<1>1. ASSUME NEW o \in Origin, UserEdits(o) PROVE TypeOK'
  BY <1>1, ConstantsAssumption DEF UserEdits
<1>2. ASSUME NEW b \in blockers, UserRemovesBlocker(b) PROVE TypeOK'
  BY <1>2, ConstantsAssumption DEF UserRemovesBlocker
<1>3. ASSUME NEW p \in Pair, NEW s \in Slot, TwinAppears(p, s) PROVE TypeOK'
  BY <1>3, ConstantsAssumption DEF TwinAppears
<1>4. ASSUME NEW p \in Pair, TwinVanishes(p) PROVE TypeOK'
  BY <1>4, ConstantsAssumption DEF TwinVanishes, Phases
<1>5. CASE WindowSlides
  BY <1>5 DEF WindowSlides
<1>6. ASSUME NEW auth \in BOOLEAN, CallFails(auth) PROVE TypeOK'
  <2>1. /\ op.p \in Pair /\ op.id \in Nat \cup {NoId}
        /\ op.do \in {"create", "update"} => op.slot \in Slot
    BY <1>6, OpTyped DEF CallFails
  <2>2. blockers' \subseteq Blocker /\ nextId' \in Nat \ {KeyId} /\ torn' \subseteq Pair
    <3>1. CASE UNCHANGED <<blockers, nextId, torn>>
      BY <3>1
    <3>2. CASE op.do = "create" /\ (\E i \in 0..nextId : CreateEffect(op.p, op.slot, i))
               /\ UNCHANGED torn
      <4>1. PICK i \in 0..nextId : CreateEffect(op.p, op.slot, i)
        BY <3>2
      <4> QED BY <2>1, <3>2, <4>1, ProviderTyped
    <3>3. CASE op.do = "update" /\ Align(op.p, op.slot, op.id) /\ torn' = torn \cup {op.p}
      BY <2>1, <3>3, ProviderTyped
    <3>4. CASE op.do = "delete" /\ DeleteEffect(op.p, op.id) /\ UNCHANGED torn
      BY <2>1, <3>4 DEF DeleteEffect
    <3> QED BY <1>6, <3>1, <3>2, <3>3, <3>4 DEF CallFails
  <2>3. /\ phase' \in Phases /\ since' \in Nat
        /\ todoO' \subseteq Origin /\ todoP' \subseteq Pair
        /\ todoB' \subseteq Blocker /\ todoT' \subseteq Target
        /\ reconciling' \in BOOLEAN /\ healthy' \in BOOLEAN
        /\ batch' \in [Origin -> Slot \cup {Gone, Free, NoChange}]
        /\ later' \subseteq Origin
    <3>1. CASE EndResync(FALSE)
      BY <3>1, EndResyncTyped
    <3>2. CASE UNCHANGED <<phase, todo, memory>>
      BY <3>2
    <3> QED BY <1>6, <3>1, <3>2 DEF CallFails
  <2>4. job' \in {NoJob} \cup Job
    <3>1. job /= NoJob => [job EXCEPT !.failed = TRUE] \in Job
      <4> HIDE DEF TypeOK
      <4> QED BY JobTyped DEF Job
    <3>2. job' = NoJob \/ (job /= NoJob /\ job' = [job EXCEPT !.failed = TRUE])
      BY <1>6 DEF CallFails
    <3> QED BY <3>1, <3>2
  <2>5. faults' \in 0..MaxFaults /\ op' = NoOp /\ calm' = "no"
    BY <1>6, ConstantsAssumption DEF CallFails
  <2> QED BY <1>6, <2>2, <2>3, <2>4, <2>5 DEF CallFails
<1>7. ASSUME NEW t \in Target, ListingFails(t) PROVE TypeOK'
  BY <1>7, ConstantsAssumption DEF ListingFails
<1>8. ASSUME NEW b \in todoB, OrphanRemains(b) PROVE TypeOK'
  BY <1>8, ConstantsAssumption DEF OrphanRemains
<1>9. CASE ChangesFails
  <2>1. /\ phase' \in Phases /\ since' \in Nat
        /\ todoO' \subseteq Origin /\ todoP' \subseteq Pair
        /\ todoB' \subseteq Blocker /\ todoT' \subseteq Target
    <3> HIDE DEF TypeOK
    <3> QED BY <1>9, EnterTyped DEF ChangesFails, Phases
  <2> QED BY <1>9, <2>1, ConstantsAssumption DEF ChangesFails
<1>10. CASE Crash
  <2>1. torn' \subseteq Pair
    BY <1>10, OpTyped DEF Crash
  <2>2. NoBatch \in [Origin -> Slot \cup {Gone, Free, NoChange}] /\ "idle" \in Phases
    BY DEF NoBatch, Phases
  <2>3. faults' \in 0..MaxFaults
    BY <1>10, ConstantsAssumption DEF Crash
  <2> QED BY <1>10, <2>1, <2>2, <2>3 DEF Crash
<1>11. CASE DatabaseLost
  BY <1>11, ConstantsAssumption, RowsTyped DEF DatabaseLost
<1>12. CASE CursorExpires
  BY <1>12, ConstantsAssumption DEF CursorExpires
<1>13. CASE SyncCalendar
  BY <1>13, ChangesTyped DEF SyncCalendar, Phases
<1>14. CASE Reconcile
  BY <1>14, EnterTyped DEF Reconcile, Phases
<1>15. CASE FullResync
  BY <1>15, ChangesTyped DEF FullResync, Vanished, Phases
<1>16. CASE DiffDone
  BY <1>16 DEF DiffDone, Phases
<1>17. CASE FinishEvent
  BY <1>17, JobTyped DEF FinishEvent
<1>18. CASE SetCursor
  BY <1>18, EndResyncTyped DEF SetCursor
<1>19. CASE PhaseDone
  <2>1. NextPhase[phase] \in Phases
    BY <1>19 DEF PhaseDone, NextPhase, Phases
  <2>2. /\ phase' \in Phases /\ since' \in Nat
        /\ todoO' \subseteq Origin /\ todoP' \subseteq Pair
        /\ todoB' \subseteq Blocker /\ todoT' \subseteq Target
    <3> HIDE DEF TypeOK
    <3> QED BY <1>19, <2>1, EnterTyped DEF PhaseDone
  <2> QED BY <1>19, <2>2 DEF PhaseDone
<1>20. CASE CreateBlocker
  BY <1>20, OpTyped, ProviderTyped, CallTyped DEF CreateBlocker
<1>21. CASE PutActive
  <2>1. op.p \in Pair /\ Active(op.id, op.slot) \in Row
    BY <1>21, OpTyped DEF PutActive, Active
  <2>2. row' \in [Pair -> Row] /\ torn' \subseteq Pair
    <3> HIDE DEF TypeOK
    <3> QED BY <1>21, <2>1, PutMappingTyped DEF PutActive
  <2> QED BY <1>21, <2>2 DEF PutActive
<1>22. CASE UpdateBlocker
  <2>1. op.p \in Pair /\ op.slot \in Slot /\ op.id \in Nat \cup {NoId}
    <3> HIDE DEF TypeOK
    <3> QED BY <1>22, OpTyped DEF UpdateBlocker
  <2>2. blockers' \subseteq Blocker /\ nextId' \in Nat \ {KeyId}
    <3>1. CASE Align(op.p, op.slot, op.id)
      <4> HIDE DEF TypeOK
      <4> QED BY <2>1, <3>1, ProviderTyped
    <3>2. CASE UNCHANGED <<blockers, nextId>>
      BY <3>2
    <3> QED BY <1>22, <3>1, <3>2 DEF UpdateBlocker
  <2>3. row' \in [Pair -> Row] /\ torn' \subseteq Pair /\ op' \in Op
    <3>1. CASE createFromMapping(op.p, op.slot)
      <4> HIDE DEF TypeOK
      <4> QED BY <2>1, <3>1, CreateFromMappingTyped
    <3>2. CASE Call("updated", op.p, op.slot, op.id) /\ UNCHANGED <<row, torn>>
      BY <2>1, <3>2, CallTyped
    <3> QED BY <1>22, <3>1, <3>2 DEF UpdateBlocker
  <2> QED BY <1>22, <2>2, <2>3 DEF UpdateBlocker
<1>23. CASE PutTimeHash
  <2>1. op.p \in Pair /\ [row[op.p] EXCEPT !.hash = op.slot] \in Row
    BY <1>23, OpTyped DEF PutTimeHash
  <2>2. row' \in [Pair -> Row] /\ torn' \subseteq Pair
    <3> HIDE DEF TypeOK
    <3> QED BY <1>23, <2>1, PutMappingTyped DEF PutTimeHash
  <2> QED BY <1>23, <2>2 DEF PutTimeHash
<1>24. CASE DeleteBlocker
  <2>1. op.p \in Pair /\ op.id \in Nat \cup {NoId}
    BY <1>24, OpTyped DEF DeleteBlocker
  <2>2. op' \in Op
    BY <1>24, <2>1, CallTyped DEF DeleteBlocker
  <2>3. blockers' \subseteq Blocker /\ nextId' \in Nat \ {KeyId}
    BY <1>24 DEF DeleteBlocker, DeleteEffect
  <2> QED BY <1>24, <2>2, <2>3 DEF DeleteBlocker
<1>25. CASE DeleteMapping
  BY <1>25, OpTyped, RowsTyped, PutMappingTyped DEF DeleteMapping
<1>26. ASSUME NEW o \in Origin, DropVanished(o) PROVE TypeOK'
  BY <1>26, DropTyped DEF DropVanished
<1>27. ASSUME NEW o \in Origin, processEvent(o) PROVE TypeOK'
  <2>1. batch[o] \in Slot \cup {Gone, Free, NoChange}
    OBVIOUS
  <2>2. Drop("delete", o) \in Job /\ Drop("clear", o) \in Job
    BY DropTyped
  <2>3. job' \in {NoJob} \cup Job
    <3>1. ASSUME NEW v \in Slot
          PROVE  [how |-> "upsert", o |-> o, slot |-> v, left |-> Target, failed |-> FALSE]
                   \in Job
      BY DEF Job
    <3>2. CASE batch[o] = Gone \/ batch[o] = Free
      BY <1>27, <2>2, <3>2 DEF processEvent
    <3>3. CASE batch[o] \in Slot /\ ~InWindow(batch[o])
      BY <1>27, <2>2, <3>3 DEF processEvent
    <3>4. CASE batch[o] \in Slot /\ InWindow(batch[o])
      BY <1>27, <3>1, <3>4 DEF processEvent
    <3> QED BY <1>27, <2>1, <3>2, <3>3, <3>4 DEF processEvent
  <2>4. cache' \in [Origin -> Slot \cup {NoSlot}]
    BY <1>27, <2>1 DEF processEvent
  <2>5. batch' \in [Origin -> Slot \cup {Gone, Free, NoChange}]
    BY <1>27 DEF processEvent
  <2> QED BY <1>27, <2>3, <2>4, <2>5 DEF processEvent
<1>28. ASSUME NEW o \in Origin, cleanStaleMappings(o) PROVE TypeOK'
  BY <1>28, DropTyped DEF cleanStaleMappings
<1>29. ASSUME NEW t \in Target, upsertBlockerOnTarget(t) PROVE TypeOK'
  <2> DEFINE p == <<job.o, t>>
  <2>1. job \in Job /\ job.o \in Origin /\ job.slot \in Slot /\ p \in Pair /\ row[p] \in Row
    BY <1>29, JobTyped DEF upsertBlockerOnTarget, NoJob
  <2>2. job' \in Job
    BY <1>29, <2>1 DEF upsertBlockerOnTarget, Job
  <2>3. /\ row' \in [Pair -> Row] /\ torn' \subseteq Pair
        /\ op' \in {NoOp} \cup Op
    <3>1. CASE PutMapping(p, Suppressed(job.slot)) /\ UNCHANGED op
      BY <2>1, <3>1, RowsTyped, PutMappingTyped
    <3>2. CASE PutMapping(p, Pending(job.slot)) /\ Call("create", p, job.slot, NoId)
      BY <2>1, <3>2, RowsTyped, PutMappingTyped, CallTyped
    <3>3. CASE PutMapping(p, [row[p] EXCEPT !.hash = job.slot]) /\ UNCHANGED op
      <4>1. [row[p] EXCEPT !.hash = job.slot] \in Row
        BY <2>1
      <4> QED BY <2>1, <3>3, <4>1, PutMappingTyped
    <3>4. CASE Call("update", p, job.slot, row[p].id) /\ UNCHANGED <<row, torn>>
      BY <2>1, <3>4, CallTyped
    <3>5. CASE UNCHANGED <<row, torn, op>>
      BY <3>5
    <3> QED BY <1>29, <3>1, <3>2, <3>3, <3>4, <3>5 DEF upsertBlockerOnTarget
  <2> QED BY <1>29, <2>2, <2>3 DEF upsertBlockerOnTarget
<1>30. ASSUME NEW t \in Target, deleteBlockersForOrigin(t) PROVE TypeOK'
  <2> DEFINE p == <<job.o, t>>
  <2>1. job \in Job /\ p \in Pair /\ row[p].id \in Nat \cup {NoId}
    BY <1>30, JobTyped DEF deleteBlockersForOrigin, NoJob
  <2>2. job' \in Job
    BY <1>30, <2>1 DEF deleteBlockersForOrigin, Job
  <2>3. CASE PutMapping(p, NoRow) /\ UNCHANGED op
    BY <1>30, <2>1, <2>2, <2>3, RowsTyped, PutMappingTyped DEF deleteBlockersForOrigin
  <2>4. CASE Call("delete", p, NoSlot, row[p].id) /\ UNCHANGED <<row, torn>>
    BY <1>30, <2>1, <2>2, <2>4, CallTyped DEF deleteBlockersForOrigin
  <2> QED BY <1>30, <2>3, <2>4 DEF deleteBlockersForOrigin
<1>31. ASSUME NEW t \in Target, ListAccount(t) PROVE TypeOK'
  BY <1>31 DEF ListAccount, Missing, ListBlockers, RowsWith
<1>32. ASSUME NEW p \in Pair, promoteSuppressed(p) PROVE TypeOK'
  BY <1>32, CreateFromMappingTyped DEF promoteSuppressed
<1>33. ASSUME NEW p \in Pair, resolvePending(p) PROVE TypeOK'
  BY <1>33, CreateFromMappingTyped, PutMappingTyped, RowsTyped DEF resolvePending
<1>34. ASSUME NEW p \in Pair, restoreMissingBlockers(p) PROVE TypeOK'
  BY <1>34, CreateFromMappingTyped DEF restoreMissingBlockers
<1>35. ASSUME NEW p \in Pair, reevaluateSuppressed(p) PROVE TypeOK'
  BY <1>35, CreateFromMappingTyped, PutMappingTyped, RowsTyped DEF reevaluateSuppressed
<1>36. ASSUME NEW b \in todoB, rebuildMappingsFromTags(b) PROVE TypeOK'
  BY <1>36, PutMappingTyped, RowsTyped DEF rebuildMappingsFromTags
<1>37. ASSUME NEW b \in todoB, adoptOrphan(b) PROVE TypeOK'
  <2>1. b.pair \in Pair /\ Active(b.id, Unknown) \in Row
    BY RowsTyped
  <2>2. row' \in [Pair -> Row] /\ torn' \subseteq Pair
    <3>1. CASE PutMapping(b.pair, Active(b.id, Unknown))
      <4> HIDE DEF TypeOK
      <4> QED BY <2>1, <3>1, PutMappingTyped
    <3> QED BY <1>37, <3>1 DEF adoptOrphan
  <2>3. blockers' \subseteq Blocker /\ todoB' \subseteq Blocker
    BY <1>37 DEF adoptOrphan
  <2> QED BY <1>37, <2>2, <2>3 DEF adoptOrphan
<1>38. CASE UNCHANGED vars
  BY <1>38 DEF vars
<1> QED
  BY <1>1, <1>2, <1>3, <1>4, <1>5, <1>6, <1>7, <1>8, <1>9, <1>10, <1>11, <1>12,
     <1>13, <1>14, <1>15, <1>16, <1>17, <1>18, <1>19, <1>20, <1>21, <1>22, <1>23,
     <1>24, <1>25, <1>26, <1>27, <1>28, <1>29, <1>30, <1>31, <1>32, <1>33, <1>34,
     <1>35, <1>36, <1>37, <1>38
  DEF Next, Environment, Failure, Continue

\* The first start has the types.
LEMMA InitTyped == Init => TypeOK
<1> SUFFICES ASSUME Init PROVE TypeOK
  OBVIOUS
<1>1. row \in [Pair -> Row]
  BY RowsTyped DEF Init
<1>2. edits \in 0..MaxEdits /\ faults \in 0..MaxFaults
  BY ConstantsAssumption DEF Init
<1>3. batch \in [Origin -> Slot \cup {Gone, Free, NoChange}]
  BY DEF Init
<1>4. /\ truth \in [Origin -> Slot \cup {Gone, Free}]
      /\ cache \in [Origin -> Slot \cup {NoSlot}]
      /\ twin \in [Pair -> Slot \cup {NoSlot}]
  BY DEF Init
<1>5. /\ phase \in Phases /\ nextId \in Nat \ {KeyId} /\ now \in Nat /\ since \in Nat
      /\ deltaFrom \in Nat
  BY DEF Init, Phases
<1> QED
  BY <1>1, <1>2, <1>3, <1>4, <1>5 DEF Init, TypeOK

\* Every variable stays in the set its comment names, in every run of every size.
THEOREM TypeCorrect == Spec => []TypeOK
BY InitTyped, NextTyped, PTL DEF Spec

-----------------------------------------------------------------------------
\* The steps that touch no blocker.
LEMMA RemoteElsewhere ==
  ASSUME \/ \E o \in Origin : \/ UserEdits(o) \/ DropVanished(o) \/ processEvent(o)
                              \/ cleanStaleMappings(o)
         \/ \E p \in Pair : \/ TwinVanishes(p) \/ \E s \in Slot : TwinAppears(p, s)
                            \/ promoteSuppressed(p) \/ resolvePending(p)
                            \/ restoreMissingBlockers(p) \/ reevaluateSuppressed(p)
         \/ \E t \in Target : \/ ListingFails(t) \/ upsertBlockerOnTarget(t)
                              \/ deleteBlockersForOrigin(t) \/ ListAccount(t)
         \/ \E b \in todoB : OrphanRemains(b) \/ rebuildMappingsFromTags(b)
         \/ WindowSlides \/ ChangesFails \/ Crash \/ DatabaseLost \/ CursorExpires
         \/ SyncCalendar \/ Reconcile \/ FullResync \/ DiffDone \/ FinishEvent
         \/ SetCursor \/ PhaseDone \/ PutActive \/ PutTimeHash \/ DeleteMapping
         \/ UNCHANGED vars
  PROVE  UNCHANGED blockers
<1>1. ASSUME NEW o \in Origin, UserEdits(o) \/ DropVanished(o) \/ processEvent(o)
                               \/ cleanStaleMappings(o)
      PROVE  UNCHANGED blockers
  BY <1>1 DEF UserEdits, DropVanished, processEvent, cleanStaleMappings
<1>2. ASSUME NEW p \in Pair, \/ TwinVanishes(p) \/ \E s \in Slot : TwinAppears(p, s)
                             \/ promoteSuppressed(p) \/ resolvePending(p)
                             \/ restoreMissingBlockers(p) \/ reevaluateSuppressed(p)
      PROVE  UNCHANGED blockers
  BY <1>2 DEF TwinVanishes, TwinAppears, promoteSuppressed, resolvePending,
              restoreMissingBlockers, reevaluateSuppressed
<1>3. ASSUME NEW t \in Target, \/ ListingFails(t) \/ upsertBlockerOnTarget(t)
                                \/ deleteBlockersForOrigin(t) \/ ListAccount(t)
       PROVE  UNCHANGED blockers
  BY <1>3 DEF ListingFails, upsertBlockerOnTarget, deleteBlockersForOrigin, ListAccount
<1>4. ASSUME NEW b \in todoB, OrphanRemains(b) \/ rebuildMappingsFromTags(b)
       PROVE  UNCHANGED blockers
  BY <1>4 DEF OrphanRemains, rebuildMappingsFromTags
<1>5. ASSUME \/ WindowSlides \/ ChangesFails \/ Crash \/ DatabaseLost \/ CursorExpires
              \/ SyncCalendar \/ Reconcile \/ FullResync \/ DiffDone \/ FinishEvent
              \/ SetCursor \/ PhaseDone \/ PutActive \/ PutTimeHash \/ DeleteMapping
              \/ UNCHANGED vars
       PROVE  UNCHANGED blockers
  BY <1>5 DEF WindowSlides, ChangesFails, Crash, DatabaseLost, CursorExpires, SyncCalendar,
     Reconcile, FullResync, DiffDone, FinishEvent, SetCursor, PhaseDone, PutActive,
     PutTimeHash, DeleteMapping, vars
<1> QED
  BY <1>1, <1>2, <1>3, <1>4, <1>5

\* What a step does to the target calendars: nothing is added except by the two
\* provider calls that write.
LEMMA RemoteStep ==
  ASSUME TypeOK, [Next]_vars
  PROVE  \/ blockers' \subseteq blockers
         \/ \E p \in Pair, s \in Slot, i \in Nat \cup {NoId} :
              CreateEffect(p, s, i) \/ Align(p, s, i)
<1>1. CASE CreateBlocker
  BY <1>1, OpTyped, ProviderTyped DEF CreateBlocker, TypeOK
<1>2. CASE UpdateBlocker
  BY <1>2, OpTyped DEF UpdateBlocker
<1>3. ASSUME NEW auth \in BOOLEAN, CallFails(auth)
      PROVE  \/ blockers' \subseteq blockers
             \/ \E p \in Pair, s \in Slot, i \in Nat \cup {NoId} :
                  CreateEffect(p, s, i) \/ Align(p, s, i)
  <2>1. CASE op.do = "create" /\ \E i \in 0..nextId : CreateEffect(op.p, op.slot, i)
    BY <2>1, OpTyped DEF TypeOK
  <2>2. CASE op.do = "update" /\ Align(op.p, op.slot, op.id)
    BY <2>2, OpTyped
  <2>3. CASE DeleteEffect(op.p, op.id) \/ UNCHANGED blockers
    BY <2>3 DEF DeleteEffect
  <2> QED BY <1>3, <2>1, <2>2, <2>3 DEF CallFails
<1>4. CASE DeleteBlocker
  BY <1>4 DEF DeleteBlocker, DeleteEffect
<1>5. ASSUME NEW b \in todoB, adoptOrphan(b) PROVE blockers' \subseteq blockers
  BY <1>5 DEF adoptOrphan
<1>6. ASSUME NEW b \in blockers, UserRemovesBlocker(b) PROVE blockers' \subseteq blockers
  BY <1>6 DEF UserRemovesBlocker
<1> QED
  BY <1>1, <1>2, <1>3, <1>4, <1>5, <1>6, RemoteElsewhere
  DEF Next, Environment, Failure, Continue

\* No step puts a second blocker of one event on a calendar: insertion requires
\* that none is live, and alignment replaces one.
LEMMA NextUnique ==
  ASSUME TypeOK, AtMostOneBlocker, [Next]_vars
  PROVE  AtMostOneBlocker'
<1>1. CASE blockers' \subseteq blockers
  BY <1>1 DEF AtMostOneBlocker
<1>2. ASSUME NEW p \in Pair, NEW s \in Slot, NEW i \in Nat \cup {NoId}, Align(p, s, i)
      PROVE  AtMostOneBlocker'
  <2>1. PICK b \in blockers : /\ b.pair = p
                              /\ blockers' = (blockers \ {b}) \cup {[b EXCEPT !.slot = s]}
    BY <1>2 DEF Align, Live
  <2> DEFINE moved == [b EXCEPT !.slot = s]
  <2>2. moved.pair = p
    BY <2>1 DEF TypeOK
  <2>3. \A x \in blockers' : (x \in blockers /\ x # b) \/ x = moved
    BY <2>1
  <2> HIDE DEF moved
  <2>4. \A x \in blockers : x.pair = p => x = b
    BY <2>1 DEF AtMostOneBlocker
  <2> QED BY <2>2, <2>3, <2>4 DEF AtMostOneBlocker
<1>3. ASSUME NEW p \in Pair, NEW s \in Slot, NEW i \in Nat \cup {NoId},
             Live(p) = {}, Insert(p, s, i)
      PROVE  AtMostOneBlocker'
  BY <1>3 DEF AtMostOneBlocker, Insert, Live
<1> QED
  BY <1>1, <1>2, <1>3, RemoteStep DEF CreateEffect

\* A calendar never holds two blockers of one event, whatever the interleaving of
\* user edits, crashes, lost responses and lost databases.
THEOREM UniqueBlocker == Spec => []AtMostOneBlocker
<1>1. Init => AtMostOneBlocker
  BY DEF Init, AtMostOneBlocker
<1> QED
  BY <1>1, TypeCorrect, NextUnique, PTL DEF Spec

-----------------------------------------------------------------------------
\* A step that leaves the call, the rows and the blockers alone cannot disturb
\* what is said of the call.
LEMMA OpFrame ==
  ASSUME OpShape, UNCHANGED <<row, op>>, blockers' \subseteq blockers
  PROVE  OpShape'
BY DEF OpShape, Pending

\* A step that leaves the rows, the loop, the job and the call alone cannot
\* disturb what is said of the loops.
LEMMA LoopFrame ==
  ASSUME LoopShape, UNCHANGED <<row, op, phase, job>>, todoP' \subseteq todoP
  PROVE  LoopShape'
BY DEF LoopShape

\* A step that leaves the rows alone cannot disturb their shape.
LEMMA RowFrame ==
  ASSUME RowShape, UNCHANGED row
  PROVE  RowShape'
BY DEF RowShape

\* The next call is issued, or none is.
LEMMA OpStarts ==
  ASSUME op' = NoOp
  PROVE  OpShape'
BY DEF OpShape, NoOp

\* PutMapping of a well-shaped row changes that row and no other.
LEMMA RowWritten ==
  ASSUME TypeOK, RowShape, NEW p \in Pair, NEW m \in Row, PutMapping(p, m),
         m.st /= "active" => m.id = NoId
  PROVE  /\ RowShape' /\ row'[p] = m
         /\ \A q \in Pair : q /= p => row'[q] = row[q]
BY DEF RowShape, PutMapping, TypeOK

\* After createFromMapping the intent row and the call agree.
LEMMA IntentStored ==
  ASSUME TypeOK, RowShape, NEW p \in Pair, NEW s \in Slot, createFromMapping(p, s)
  PROVE  /\ RowShape' /\ OpShape' /\ op'.p = p /\ op' /= NoOp
         /\ \A q \in Pair : q /= p => row'[q] = row[q]
BY RowWritten, RowsTyped DEF createFromMapping, Call, OpShape, Pending, NoOp

\* Steps that touch neither a row nor the call in progress.
QuietSteps ==
  \/ \E o \in Origin : \/ UserEdits(o) \/ DropVanished(o) \/ processEvent(o)
                       \/ cleanStaleMappings(o)
  \/ \E b \in blockers : UserRemovesBlocker(b)
  \/ \E p \in Pair : TwinVanishes(p) \/ \E s \in Slot : TwinAppears(p, s)
  \/ \E t \in Target : ListingFails(t) \/ ListAccount(t)
  \/ \E b \in todoB : OrphanRemains(b)
  \/ WindowSlides \/ ChangesFails \/ CursorExpires \/ SyncCalendar \/ Reconcile
  \/ FullResync \/ DiffDone \/ FinishEvent \/ SetCursor \/ PhaseDone
  \/ UNCHANGED vars

\* A quiet step writes no row and starts no call.
LEMMA QuietFrame ==
  ASSUME QuietSteps
  PROVE  UNCHANGED <<row, op, torn>> /\ blockers' \subseteq blockers
<1> USE DEF world, store, memory, result, todo
<1>1. ASSUME NEW o \in Origin, \/ UserEdits(o) \/ DropVanished(o) \/ processEvent(o)
                               \/ cleanStaleMappings(o)
      PROVE  UNCHANGED <<row, op, torn, blockers>>
  BY <1>1 DEF UserEdits, DropVanished, processEvent, cleanStaleMappings
<1>2. ASSUME NEW b \in blockers, UserRemovesBlocker(b)
      PROVE  UNCHANGED <<row, op, torn>> /\ blockers' \subseteq blockers
  BY <1>2 DEF UserRemovesBlocker
<1>3. ASSUME NEW p \in Pair, TwinVanishes(p) \/ \E s \in Slot : TwinAppears(p, s)
      PROVE  UNCHANGED <<row, op, torn, blockers>>
  BY <1>3 DEF TwinVanishes, TwinAppears
<1>4. ASSUME NEW t \in Target, ListingFails(t) \/ ListAccount(t)
      PROVE  UNCHANGED <<row, op, torn, blockers>>
  BY <1>4 DEF ListingFails, ListAccount
<1>5. ASSUME NEW b \in todoB, OrphanRemains(b)
      PROVE  UNCHANGED <<row, op, torn, blockers>>
  BY <1>5 DEF OrphanRemains
<1>6. ASSUME \/ WindowSlides \/ ChangesFails \/ CursorExpires \/ SyncCalendar
             \/ Reconcile \/ FullResync \/ DiffDone \/ FinishEvent \/ SetCursor
             \/ PhaseDone \/ UNCHANGED vars
      PROVE  UNCHANGED <<row, op, torn, blockers>>
  BY <1>6 DEF WindowSlides, ChangesFails, CursorExpires, SyncCalendar, Reconcile,
     FullResync, DiffDone, FinishEvent, SetCursor, PhaseDone, vars
<1> QED BY <1>1, <1>2, <1>3, <1>4, <1>5, <1>6 DEF QuietSteps

\* A quiet step preserves Bookkeeping.
LEMMA QuietStep ==
  ASSUME TypeOK, Bookkeeping, QuietSteps
  PROVE  Bookkeeping'
<1> USE DEF world, store, memory, result, todo
<1>1. UNCHANGED <<row, op>> /\ blockers' \subseteq blockers
  BY QuietFrame
<1>2. LoopShape'
  <2>1. CASE UNCHANGED <<phase, job>> /\ todoP' \subseteq todoP
    BY <1>1, <2>1, LoopFrame DEF Bookkeeping
  <2>2. ASSUME NEW o \in Origin, DropVanished(o) \/ processEvent(o) \/ cleanStaleMappings(o)
        PROVE  LoopShape'
    BY <1>1, <2>2
       DEF Bookkeeping, LoopShape, DropVanished, processEvent, cleanStaleMappings, Ready
  <2>3. ASSUME NEW p \in Pair, TwinVanishes(p)
        PROVE  LoopShape'
    BY <1>1, <2>3 DEF Bookkeeping, LoopShape, TwinVanishes
  <2>4. ASSUME NEW t \in Target, ListAccount(t)
        PROVE  LoopShape'
    BY <1>1, <2>4 DEF Bookkeeping, LoopShape, ListAccount, Ready, Missing, RowsWith
  <2>5. CASE ChangesFails
    BY <1>1, <2>5 DEF Bookkeeping, LoopShape, ChangesFails, Enter, LoopDone, Ready
  <2>6. CASE SyncCalendar \/ Reconcile
    BY <1>1, <2>6 DEF Bookkeeping, LoopShape, SyncCalendar, Reconcile, Enter
  <2>7. CASE FullResync \/ DiffDone
    BY <1>1, <2>7 DEF Bookkeeping, LoopShape, FullResync, DiffDone, LoopDone, Ready
  <2>8. CASE SetCursor
    BY <1>1, <2>8
       DEF Bookkeeping, LoopShape, SetCursor, EndResync, Enter, LoopDone, Ready
  <2>9. CASE PhaseDone
    BY <1>1, <2>9
       DEF Bookkeeping, LoopShape, PhaseDone, Enter, LoopDone, Ready, RowsWith
  <2>10. CASE FinishEvent
    BY <1>1, <2>10 DEF Bookkeeping, LoopShape, FinishEvent
  <2>11. ASSUME NEW o \in Origin, UserEdits(o)
         PROVE  UNCHANGED <<phase, job, todoP>>
    BY <2>11 DEF UserEdits
  <2>12. ASSUME NEW b \in blockers, UserRemovesBlocker(b)
         PROVE  UNCHANGED <<phase, job, todoP>>
    BY <2>12 DEF UserRemovesBlocker
  <2>13. ASSUME NEW p \in Pair, NEW s \in Slot, TwinAppears(p, s)
         PROVE  UNCHANGED <<phase, job, todoP>>
    BY <2>13 DEF TwinAppears
  <2>14. ASSUME NEW t \in Target, ListingFails(t)
         PROVE  UNCHANGED <<phase, job, todoP>>
    BY <2>14 DEF ListingFails
  <2>15. ASSUME NEW b \in todoB, OrphanRemains(b)
         PROVE  UNCHANGED <<phase, job, todoP>>
    BY <2>15 DEF OrphanRemains
  <2>16. CASE WindowSlides \/ CursorExpires \/ UNCHANGED vars
    BY <2>1, <2>16 DEF WindowSlides, CursorExpires, vars
  <2> QED
    BY <2>1, <2>2, <2>3, <2>4, <2>5, <2>6, <2>7, <2>8, <2>9, <2>10, <2>11, <2>12, <2>13,
       <2>14, <2>15, <2>16 DEF QuietSteps
<1> QED
  BY <1>1, <1>2, OpFrame, RowFrame DEF Bookkeeping

\* A blocker that is aligned is the only one of its pair.
LEMMA Aligned ==
  ASSUME TypeOK, AtMostOneBlocker, NEW p \in Pair, NEW s, NEW i, Align(p, s, i)
  PROVE  \A b \in blockers' : b.pair = p => b.slot = s
<1>1. PICK b \in blockers : /\ b.pair = p
                            /\ blockers' = (blockers \ {b}) \cup {[b EXCEPT !.slot = s]}
  BY DEF Align, Live
<1>2. [b EXCEPT !.slot = s].slot = s
  BY DEF TypeOK
<1>3. \A c \in blockers \ {b} : c.pair /= p
  BY <1>1 DEF AtMostOneBlocker
<1> QED
  BY <1>1, <1>2, <1>3

\* Aligning a blocker touches only the blockers of its pair.
LEMMA AlignTouches ==
  ASSUME TypeOK, NEW p, NEW s, NEW i, Align(p, s, i)
  PROVE  \A b \in blockers' : b.pair /= p => b \in blockers
<1>1. PICK b \in blockers : /\ b.pair = p
                            /\ blockers' = (blockers \ {b}) \cup {[b EXCEPT !.slot = s]}
  BY DEF Align, Live
<1>2. [b EXCEPT !.slot = s].pair = p
  BY <1>1 DEF TypeOK
<1> QED
  BY <1>1, <1>2

\* CreateBlocker touches only the blockers of its pair, and the id it returns
\* shows the slot asked for.
LEMMA CreateTouches ==
  ASSUME TypeOK, NEW p, NEW s, NEW i, CreateEffect(p, s, i)
  PROVE  \A b \in blockers' : b.pair /= p => b \in blockers
BY AlignTouches DEF CreateEffect, Insert

\* The provider calls, the writes that follow them, and their failures.
CallSteps ==
  \/ \E auth \in BOOLEAN : CallFails(auth)
  \/ Crash \/ DatabaseLost \/ CreateBlocker \/ PutActive \/ UpdateBlocker
  \/ PutTimeHash \/ DeleteBlocker \/ DeleteMapping

\* A provider call and the write after it preserve Bookkeeping: the call leaves
\* what the write will find.
LEMMA CallStep ==
  ASSUME TypeOK, Bookkeeping, AtMostOneBlocker, CallSteps
  PROVE  Bookkeeping'
<1> USE DEF world, store, memory, result, todo
<1>1. ASSUME NEW auth \in BOOLEAN, CallFails(auth) PROVE Bookkeeping'
  <2>1. op' = NoOp /\ UNCHANGED row
    BY <1>1 DEF CallFails
  <2>2. LoopShape'
    <3>1. CASE job' = NoJob /\ EndResync(FALSE)
      BY <2>1, <3>1 DEF LoopShape, EndResync, Enter
    <3>2. CASE /\ phase \notin {"diff", "events"} \/ auth
               /\ job' = IF job /= NoJob /\ auth THEN [job EXCEPT !.failed = TRUE] ELSE NoJob
               /\ UNCHANGED <<phase, todo, memory>>
      BY <2>1, <3>2 DEF Bookkeeping, LoopShape
    <3> QED BY <1>1, <3>1, <3>2 DEF CallFails
  <2> QED BY <2>1, <2>2, OpStarts, RowFrame DEF Bookkeeping
<1>2. CASE Crash
  BY <1>2, OpStarts, RowFrame DEF Crash, Bookkeeping, LoopShape
<1>3. CASE DatabaseLost
  <2>1. op = NoOp /\ op' = NoOp
    BY <1>3 DEF DatabaseLost, Bookkeeping, LoopShape
  <2>2. RowShape'
    BY <1>3 DEF DatabaseLost, RowShape, NoRow
  <2>3. LoopShape'
    BY <1>3, <2>1 DEF DatabaseLost, Bookkeeping, LoopShape
  <2> QED BY <2>1, <2>2, <2>3, OpStarts DEF Bookkeeping
<1>4. CASE CreateBlocker
  <2>1. PICK i \in 0..nextId : CreateEffect(op.p, op.slot, i) /\ Call("created", op.p, op.slot, i)
    BY <1>4 DEF CreateBlocker
  <2>2. UNCHANGED <<row, phase, job, todoP>> /\ op.do = "create" /\ op.p \in Pair
    BY <1>4, OpTyped DEF CreateBlocker
  <2>3. \A b \in blockers' : b.pair = op.p /\ b.id = i => b.slot = op.slot
    <3>1. CASE Align(op.p, op.slot, i)
      BY <2>2, <3>1, Aligned
    <3>2. CASE Live(op.p) = {} /\ Insert(op.p, op.slot, i)
      BY <3>2 DEF Insert, Live
    <3> QED BY <2>1, <3>1, <3>2 DEF CreateEffect
  <2>4. OpShape'
    BY <2>1, <2>2, <2>3 DEF Bookkeeping, OpShape, Call, Pending
  <2>5. LoopShape'
    BY <2>1, <2>2 DEF Bookkeeping, LoopShape, Call, NoOp
  <2> QED BY <2>2, <2>4, <2>5, RowFrame DEF Bookkeeping
<1>5. CASE PutActive
  <2>1. /\ op.p \in Pair /\ Active(op.id, op.slot) \in Row
        /\ Active(op.id, op.slot).st = "active"
    BY <1>5, OpTyped DEF PutActive, Active
  <2>2. /\ RowShape' /\ op' = NoOp
        /\ \A q \in Pair : q /= op.p => row'[q] = row[q]
    BY <1>5, <2>1, RowWritten DEF PutActive, Bookkeeping
  <2>3. LoopShape'
    BY <1>5, <2>2 DEF PutActive, Bookkeeping, LoopShape, TypeOK, NoOp
  <2> QED BY <2>2, <2>3, OpStarts DEF Bookkeeping
<1>6. CASE UpdateBlocker
  <2>1. /\ op.p \in Pair /\ op.slot \in Slot /\ op.do = "update" /\ op /= NoOp
        /\ UNCHANGED <<phase, job, todoP>>
    BY <1>6, OpTyped DEF UpdateBlocker, NoOp
  <2>2. CASE createFromMapping(op.p, op.slot)
    <3>1. /\ RowShape' /\ OpShape' /\ op'.p = op.p
          /\ \A q \in Pair : q /= op.p => row'[q] = row[q]
      BY <2>1, <2>2, IntentStored DEF Bookkeeping
    <3>2. LoopShape'
      BY <2>1, <3>1 DEF Bookkeeping, LoopShape, TypeOK
    <3> QED BY <3>1, <3>2 DEF Bookkeeping
  <2>3. CASE Call("updated", op.p, op.slot, op.id) /\ UNCHANGED row
    <3>1. \A b \in blockers' : b.pair = op.p /\ b.id = op.id => b.slot = op.slot
      <4>1. CASE Align(op.p, op.slot, op.id)
        BY <2>1, <4>1, Aligned
      <4>2. CASE ~Exists(op.p, op.id) /\ UNCHANGED blockers
        BY <4>2 DEF Exists, Live
      <4>3. op'.do = "updated"
        BY <2>3 DEF Call
      <4> QED BY <1>6, <4>1, <4>2, <4>3 DEF UpdateBlocker, createFromMapping, Call
    <3>2. OpShape'
      BY <2>1, <2>3, <3>1 DEF Bookkeeping, OpShape, Call
    <3>3. LoopShape'
      BY <2>1, <2>3 DEF Bookkeeping, LoopShape, Call, NoOp
    <3> QED BY <2>3, <3>2, <3>3, RowFrame DEF Bookkeeping
  <2> QED BY <1>6, <2>2, <2>3 DEF UpdateBlocker
<1>7. CASE PutTimeHash
  <2> DEFINE m == [row[op.p] EXCEPT !.hash = op.slot]
  <2>1. op.p \in Pair /\ m \in Row /\ m.st = "active"
    BY <1>7, OpTyped DEF PutTimeHash, TypeOK, Bookkeeping, OpShape
  <2>2. /\ RowShape' /\ op' = NoOp
        /\ \A q \in Pair : q /= op.p => row'[q] = row[q]
    BY <1>7, <2>1, RowWritten DEF PutTimeHash, Bookkeeping
  <2>3. LoopShape'
    BY <1>7, <2>2 DEF PutTimeHash, Bookkeeping, LoopShape, TypeOK, NoOp
  <2> QED BY <2>2, <2>3, OpStarts DEF Bookkeeping
<1>8. CASE DeleteBlocker
  <2>1. /\ op.do = "delete" /\ Call("deleted", op.p, NoSlot, op.id)
        /\ DeleteEffect(op.p, op.id) /\ UNCHANGED <<row, phase, job, todoP>>
    BY <1>8 DEF DeleteBlocker
  <2>2. OpShape'
    BY <2>1 DEF Bookkeeping, OpShape, Call, DeleteEffect
  <2>3. LoopShape'
    BY <2>1 DEF Bookkeeping, LoopShape, Call, NoOp
  <2> QED BY <2>1, <2>2, <2>3, RowFrame DEF Bookkeeping
<1>9. CASE DeleteMapping
  <2>1. op.p \in Pair /\ NoRow \in Row /\ NoRow.id = NoId
    BY <1>9, OpTyped, RowsTyped DEF DeleteMapping, NoRow
  <2>2. /\ RowShape' /\ op' = NoOp
        /\ \A q \in Pair : q /= op.p => row'[q] = row[q]
    BY <1>9, <2>1, RowWritten DEF DeleteMapping, Bookkeeping
  <2>3. LoopShape'
    BY <1>9, <2>2 DEF DeleteMapping, Bookkeeping, LoopShape, TypeOK, NoOp
  <2> QED BY <2>2, <2>3, OpStarts DEF Bookkeeping
<1> QED
  BY <1>1, <1>2, <1>3, <1>4, <1>5, <1>6, <1>7, <1>8, <1>9 DEF CallSteps

\* The steps of the loops that write rows and issue calls.
LoopSteps ==
  \/ \E t \in Target : upsertBlockerOnTarget(t) \/ deleteBlockersForOrigin(t)
  \/ \E p \in Pair : \/ promoteSuppressed(p) \/ resolvePending(p)
                     \/ restoreMissingBlockers(p) \/ reevaluateSuppressed(p)
  \/ \E b \in todoB : rebuildMappingsFromTags(b) \/ adoptOrphan(b)

\* Taking the next element of a pass preserves Bookkeeping: no call was in
\* progress.
LEMMA LoopStep ==
  ASSUME TypeOK, Bookkeeping, LoopSteps
  PROVE  Bookkeeping'
<1> USE DEF world, store, memory, result, todo
<1>1. ASSUME NEW t \in Target, upsertBlockerOnTarget(t)
      PROVE  Bookkeeping'
  <2> DEFINE p == <<job.o, t>>
  <2>1. /\ job \in Job /\ job.o \in Origin /\ job.slot \in Slot /\ p \in Pair
        /\ row[p] \in Row /\ job /= NoJob /\ op = NoOp
        /\ UNCHANGED <<phase, todoP, blockers>>
    BY <1>1, JobTyped DEF upsertBlockerOnTarget, NoJob, TypeOK
  <2>2. phase \in {"diff", "events", "clean"}
    BY <2>1 DEF Bookkeeping, LoopShape
  <2>3. LoopShape'
    BY <2>1, <2>2 DEF LoopShape
  <2>4. CASE PutMapping(p, Suppressed(job.slot)) /\ UNCHANGED op
    BY <2>1, <2>3, <2>4, RowWritten, RowsTyped, OpStarts DEF Bookkeeping, Suppressed
  <2>5. CASE PutMapping(p, Pending(job.slot)) /\ Call("create", p, job.slot, NoId)
    BY <2>1, <2>3, <2>5, IntentStored DEF Bookkeeping, createFromMapping
  <2>6. CASE /\ row[p].st = "suppressed"
             /\ PutMapping(p, [row[p] EXCEPT !.hash = job.slot]) /\ UNCHANGED op
    <3>1. /\ [row[p] EXCEPT !.hash = job.slot] \in Row
          /\ [row[p] EXCEPT !.hash = job.slot].id = NoId
      BY <2>1, <2>6 DEF Bookkeeping, RowShape
    <3> QED BY <2>1, <2>3, <2>6, <3>1, RowWritten, OpStarts DEF Bookkeeping
  <2>7. CASE /\ row[p].st \notin {"none", "suppressed"}
             /\ ~(row[p].st = "pending" /\ row[p].id = NoId)
             /\ Call("update", p, job.slot, row[p].id) /\ UNCHANGED row
    <3>1. row[p].st = "active"
      BY <2>1, <2>7 DEF Bookkeeping, RowShape
    <3>2. OpShape'
      BY <2>7, <3>1 DEF OpShape, Call
    <3> QED BY <2>3, <2>7, <3>2, RowFrame DEF Bookkeeping
  <2>8. CASE UNCHANGED <<row, op>>
    BY <2>1, <2>3, <2>8, OpStarts, RowFrame DEF Bookkeeping
  <2> QED BY <1>1, <2>4, <2>5, <2>6, <2>7, <2>8 DEF upsertBlockerOnTarget
<1>2. ASSUME NEW t \in Target, deleteBlockersForOrigin(t)
      PROVE  Bookkeeping'
  <2> DEFINE p == <<job.o, t>>
  <2>1. /\ job \in Job /\ job.o \in Origin /\ p \in Pair /\ job /= NoJob /\ op = NoOp
        /\ UNCHANGED <<phase, todoP, blockers>>
    BY <1>2, JobTyped DEF deleteBlockersForOrigin, NoJob
  <2>2. phase \in {"diff", "events", "clean"}
    BY <2>1 DEF Bookkeeping, LoopShape
  <2>3. LoopShape'
    BY <2>1, <2>2 DEF LoopShape
  <2>4. CASE PutMapping(p, NoRow) /\ UNCHANGED op
    BY <2>1, <2>3, <2>4, RowWritten, RowsTyped, OpStarts DEF Bookkeeping, NoRow
  <2>5. CASE Call("delete", p, NoSlot, row[p].id) /\ UNCHANGED row
    <3>1. OpShape'
      BY <2>5 DEF OpShape, Call
    <3> QED BY <2>3, <2>5, <3>1, RowFrame DEF Bookkeeping
  <2> QED BY <1>2, <2>4, <2>5 DEF deleteBlockersForOrigin
<1>3. ASSUME NEW p \in Pair,
             \/ promoteSuppressed(p) \/ resolvePending(p)
             \/ restoreMissingBlockers(p) \/ reevaluateSuppressed(p)
      PROVE  Bookkeeping'
  <2>1. /\ phase /= "idle" /\ Ready /\ p \in todoP /\ todoP' = todoP \ {p}
        /\ UNCHANGED <<phase, job, blockers>>
    BY <1>3 DEF promoteSuppressed, resolvePending, restoreMissingBlockers,
                reevaluateSuppressed
  <2>2. \/ UNCHANGED <<row, op>>
        \/ PutMapping(p, NoRow) /\ UNCHANGED op
        \/ cache[p[1]] \in Slot /\ createFromMapping(p, cache[p[1]])
    BY <1>3 DEF TypeOK, promoteSuppressed, resolvePending, restoreMissingBlockers,
                reevaluateSuppressed
  <2>3. CASE UNCHANGED <<row, op>>
    BY <2>1, <2>3, OpFrame, RowFrame, LoopFrame DEF Bookkeeping
  <2>4. CASE PutMapping(p, NoRow) /\ UNCHANGED op
    <3>1. RowShape' /\ \A q \in Pair : q /= p => row'[q] = row[q]
      BY <2>4, RowWritten, RowsTyped DEF Bookkeeping, NoRow
    <3>2. LoopShape'
      BY <2>1, <2>4, <3>1 DEF Bookkeeping, LoopShape, TypeOK, Ready
    <3> QED BY <2>1, <2>4, <3>1, <3>2, OpStarts DEF Bookkeeping, Ready
  <2>5. CASE cache[p[1]] \in Slot /\ createFromMapping(p, cache[p[1]])
    <3>1. /\ RowShape' /\ OpShape' /\ op'.p = p
          /\ \A q \in Pair : q /= p => row'[q] = row[q]
      BY <2>5, IntentStored DEF Bookkeeping
    <3>2. LoopShape'
      BY <2>1, <3>1 DEF Bookkeeping, LoopShape, TypeOK
    <3> QED BY <3>1, <3>2 DEF Bookkeeping
  <2> QED BY <2>2, <2>3, <2>4, <2>5
<1>4. ASSUME NEW b \in todoB, rebuildMappingsFromTags(b) \/ adoptOrphan(b)
      PROVE  Bookkeeping'
  <2>1. /\ b.pair \in Pair /\ phase \in {"rebuild", "adopt"} /\ op = NoOp
        /\ Active(b.id, Unknown) \in Row /\ Active(b.id, Unknown).st = "active"
        /\ UNCHANGED <<phase, job, op, todoP>>
    BY <1>4 DEF TypeOK, rebuildMappingsFromTags, adoptOrphan, Ready, Active
  <2>2. LoopShape' /\ OpShape'
    BY <2>1, OpStarts DEF Bookkeeping, LoopShape
  <2>3. RowShape'
    <3>1. CASE UNCHANGED row
      BY <3>1, RowFrame DEF Bookkeeping
    <3>2. CASE PutMapping(b.pair, Active(b.id, Unknown))
      BY <2>1, <3>2, RowWritten DEF Bookkeeping
    <3> QED BY <1>4, <3>1, <3>2 DEF rebuildMappingsFromTags, adoptOrphan
  <2> QED BY <2>2, <2>3 DEF Bookkeeping
<1> QED
  BY <1>1, <1>2, <1>3, <1>4 DEF LoopSteps

\* Every step is quiet, a call step or a loop step.
LEMMA NextSteps ==
  ASSUME [Next]_vars
  PROVE  QuietSteps \/ CallSteps \/ LoopSteps
BY DEF QuietSteps, CallSteps, LoopSteps, Next, Environment, Failure, Continue

\* Every step preserves Bookkeeping.
LEMMA NextBookkept ==
  ASSUME TypeOK, AtMostOneBlocker, Bookkeeping, [Next]_vars
  PROVE  Bookkeeping'
BY NextSteps, QuietStep, CallStep, LoopStep

\* Between a provider call and the write that follows it, the row and the
\* remote event are what the call left: the facts that RowTellsTruth and
\* NoBlockerForgotten rest on.
THEOREM Bookkept == Spec => []Bookkeeping
<1>1. Init => Bookkeeping
  BY DEF Init, Bookkeeping, OpShape, RowShape, LoopShape, NoRow, NoOp
<1> QED
  BY <1>1, TypeCorrect, UniqueBlocker, NextBookkept, PTL DEF Spec

-----------------------------------------------------------------------------
\* A step that writes at most the row of one pair and changes at most its
\* blocker has to answer for that pair alone.
LEMMA TruthFrame ==
  ASSUME TypeOK, RowTellsTruth, NEW p \in Pair,
         \A q \in Pair \ {p} : row'[q] = row[q],
         torn \ {p} \subseteq torn',
         op.do = "updated" => op.p = p,
         \A b \in blockers' : b.pair /= p => b \in blockers,
         \A b \in blockers' : b.pair = p =>
           \/ row'[p].st /= "active" \/ row'[p].hash = Unknown \/ p \in torn'
           \/ op'.do = "updated" /\ op'.p = p
           \/ row'[p].id = b.id => b.slot = row'[p].hash
  PROVE  RowTellsTruth'
<1> SUFFICES ASSUME NEW b \in blockers', b.pair /= p,
                    row'[b.pair].st = "active", row'[b.pair].id = b.id,
                    row'[b.pair].hash /= Unknown, b.pair \notin torn'
             PROVE  b.slot = row'[b.pair].hash
  BY DEF RowTellsTruth
<1>1. b \in blockers /\ b.pair \in Pair /\ b.pair \notin torn
  BY DEF TypeOK
<1>2. row'[b.pair] = row[b.pair] /\ ~(op.do = "updated" /\ op.p = b.pair)
  BY <1>1
<1> QED
  BY <1>1, <1>2 DEF RowTellsTruth

\* A provider call and the write after it preserve RowTellsTruth.
LEMMA CallTruth ==
  ASSUME TypeOK, Bookkeeping, AtMostOneBlocker, RowTellsTruth, CallSteps
  PROVE  RowTellsTruth'
<1> USE DEF world, store, memory, result, todo
<1>0. /\ op.do \in {"create", "created", "update", "updated"} =>
            op.p \in Pair /\ op.slot \in Slot
      /\ op.do \in {"delete", "deleted"} => op.p \in Pair
  BY OpTyped
<1>1. ASSUME NEW auth \in BOOLEAN, CallFails(auth) PROVE RowTellsTruth'
  <2>1. /\ op' = NoOp /\ op'.do = "none" /\ UNCHANGED row
        /\ op.do \in {"create", "update", "delete"} /\ op.p \in Pair
    BY <1>0, <1>1 DEF CallFails, NoOp
  <2>2. CASE UNCHANGED <<blockers, torn>> \/ (DeleteEffect(op.p, op.id) /\ UNCHANGED torn)
    BY <2>1, <2>2 DEF RowTellsTruth, DeleteEffect
  <2>3. CASE /\ op.do = "create" /\ UNCHANGED torn
             /\ \E i \in 0..nextId : CreateEffect(op.p, op.slot, i)
    <3>1. row'[op.p].st /= "active"
      BY <2>1, <2>3 DEF Bookkeeping, OpShape, Pending
    <3>2. \A b \in blockers' : b.pair /= op.p => b \in blockers
      BY <2>3, CreateTouches
    <3> QED BY <2>1, <2>3, <3>1, <3>2, TruthFrame
  <2>4. CASE Align(op.p, op.slot, op.id) /\ torn' = torn \cup {op.p}
    <3>1. \A b \in blockers' : b.pair /= op.p => b \in blockers
      BY <2>4, AlignTouches
    <3> QED BY <2>1, <2>4, <3>1, TruthFrame
  <2> QED BY <1>1, <2>2, <2>3, <2>4 DEF CallFails
<1>2. CASE Crash
  BY <1>2 DEF Crash, RowTellsTruth, NoOp
<1>3. CASE DatabaseLost
  BY <1>3 DEF DatabaseLost, RowTellsTruth, NoRow, TypeOK
<1>4. CASE CreateBlocker
  <2>1. /\ UNCHANGED <<row, torn>> /\ op.do = "create" /\ op.p \in Pair
        /\ \E i \in 0..nextId : CreateEffect(op.p, op.slot, i)
    BY <1>0, <1>4 DEF CreateBlocker
  <2>2. row'[op.p].st /= "active"
    BY <2>1 DEF Bookkeeping, OpShape, Pending
  <2>3. \A b \in blockers' : b.pair /= op.p => b \in blockers
    BY <2>1, CreateTouches
  <2> QED BY <2>1, <2>2, <2>3, TruthFrame
<1>5. CASE PutActive
  <2>1. /\ op.do = "created" /\ op.p \in Pair /\ UNCHANGED blockers
        /\ PutMapping(op.p, Active(op.id, op.slot))
    BY <1>0, <1>5 DEF PutActive
  <2>2. /\ row'[op.p] = Active(op.id, op.slot) /\ torn' = torn \ {op.p}
        /\ \A q \in Pair \ {op.p} : row'[q] = row[q]
    BY <2>1 DEF PutMapping, TypeOK
  <2>3. \A b \in blockers : b.pair = op.p /\ b.id = op.id => b.slot = op.slot
    BY <2>1 DEF Bookkeeping, OpShape
  <2>4. Active(op.id, op.slot).id = op.id /\ Active(op.id, op.slot).hash = op.slot
    BY DEF Active
  <2> QED BY <2>1, <2>2, <2>3, <2>4, TruthFrame
<1>6. CASE UpdateBlocker
  <2>1. op.do = "update" /\ op.p \in Pair /\ op.slot \in Slot
    BY <1>0, <1>6 DEF UpdateBlocker
  <2>2. CASE createFromMapping(op.p, op.slot) /\ UNCHANGED blockers
    <3>1. /\ row'[op.p] = Pending(op.slot) /\ torn' = torn \ {op.p}
          /\ \A q \in Pair \ {op.p} : row'[q] = row[q]
      BY <2>1, <2>2 DEF createFromMapping, PutMapping, TypeOK
    <3>2. row'[op.p].st /= "active"
      BY <3>1 DEF Pending
    <3> QED BY <2>1, <2>2, <3>1, <3>2, TruthFrame
  <2>3. CASE Call("updated", op.p, op.slot, op.id) /\ UNCHANGED <<row, torn>>
    <3>1. \A b \in blockers' : b.pair /= op.p => b \in blockers
      <4>1. CASE Align(op.p, op.slot, op.id)
        BY <4>1, AlignTouches
      <4>2. CASE UNCHANGED blockers
        BY <4>2
      <4> QED BY <1>6, <4>1, <4>2 DEF UpdateBlocker
    <3>2. op'.do = "updated" /\ op'.p = op.p
      BY <2>3 DEF Call
    <3> QED BY <2>1, <2>3, <3>1, <3>2, TruthFrame
  <2> QED BY <1>6, <2>2, <2>3 DEF UpdateBlocker
<1>7. CASE PutTimeHash
  <2>1. /\ op.do = "updated" /\ op.p \in Pair /\ UNCHANGED blockers
        /\ PutMapping(op.p, [row[op.p] EXCEPT !.hash = op.slot])
    BY <1>0, <1>7 DEF PutTimeHash
  <2>2. /\ row'[op.p].id = op.id /\ row'[op.p].hash = op.slot /\ torn' = torn \ {op.p}
        /\ \A q \in Pair \ {op.p} : row'[q] = row[q]
    BY <2>1 DEF PutMapping, TypeOK, Bookkeeping, OpShape
  <2>3. \A b \in blockers : b.pair = op.p /\ b.id = op.id => b.slot = op.slot
    BY <2>1 DEF Bookkeeping, OpShape
  <2> QED BY <2>1, <2>2, <2>3, TruthFrame
<1>8. CASE DeleteBlocker
  BY <1>8 DEF DeleteBlocker, DeleteEffect, Call, RowTellsTruth
<1>9. CASE DeleteMapping
  <2>1. /\ op.do = "deleted" /\ op.p \in Pair /\ UNCHANGED blockers
        /\ PutMapping(op.p, NoRow)
    BY <1>0, <1>9 DEF DeleteMapping
  <2>2. /\ row'[op.p] = NoRow /\ torn' = torn \ {op.p}
        /\ \A q \in Pair \ {op.p} : row'[q] = row[q]
    BY <2>1 DEF PutMapping, TypeOK
  <2>3. NoRow.st /= "active"
    BY DEF NoRow
  <2> QED BY <2>1, <2>2, <2>3, TruthFrame
<1> QED
  BY <1>1, <1>2, <1>3, <1>4, <1>5, <1>6, <1>7, <1>8, <1>9 DEF CallSteps

\* Taking the next element of a pass preserves RowTellsTruth.
LEMMA LoopTruth ==
  ASSUME TypeOK, Bookkeeping, RowTellsTruth, LoopSteps
  PROVE  RowTellsTruth'
<1> USE DEF world, store, memory, result, todo
<1>1. ASSUME NEW p \in Pair, NEW m, PutMapping(p, m), blockers' \subseteq blockers, op = NoOp,
             m.st /= "active" \/ m.hash = Unknown
      PROVE  RowTellsTruth'
  <2>1. /\ row'[p] = m /\ torn' = torn \ {p}
        /\ \A q \in Pair \ {p} : row'[q] = row[q]
    BY <1>1 DEF PutMapping, TypeOK
  <2>2. op.do /= "updated"
    BY <1>1 DEF NoOp
  <2> QED BY <1>1, <2>1, <2>2, TruthFrame
<1>2. ASSUME UNCHANGED <<row, torn>>, blockers' \subseteq blockers, op = NoOp
      PROVE  RowTellsTruth'
  BY <1>2 DEF RowTellsTruth, NoOp
<1>3. /\ NoRow.st /= "active"
      /\ \A s : Pending(s).st /= "active" /\ Suppressed(s).st /= "active"
      /\ \A i : Active(i, Unknown).hash = Unknown
  BY DEF NoRow, Pending, Suppressed, Active
<1>4. ASSUME NEW t \in Target, upsertBlockerOnTarget(t)
      PROVE  RowTellsTruth'
  <2> DEFINE p == <<job.o, t>>
  <2>1. p \in Pair /\ row[p] \in Row /\ op = NoOp /\ UNCHANGED blockers
    BY <1>4, JobTyped DEF upsertBlockerOnTarget, NoJob, TypeOK
  <2>2. CASE \/ PutMapping(p, Suppressed(job.slot)) \/ PutMapping(p, Pending(job.slot))
             \/ UNCHANGED <<row, torn>>
    BY <1>1, <1>2, <1>3, <2>1, <2>2
  <2>3. CASE row[p].st = "suppressed" /\ PutMapping(p, [row[p] EXCEPT !.hash = job.slot])
    <3>1. [row[p] EXCEPT !.hash = job.slot].st = "suppressed"
      BY <2>1, <2>3
    <3> QED BY <1>1, <2>1, <2>3, <3>1
  <2> QED BY <1>4, <2>2, <2>3 DEF upsertBlockerOnTarget
<1>5. ASSUME NEW t \in Target, deleteBlockersForOrigin(t)
      PROVE  RowTellsTruth'
  <2>1. <<job.o, t>> \in Pair /\ op = NoOp /\ UNCHANGED blockers
    BY <1>5, JobTyped DEF deleteBlockersForOrigin, NoJob
  <2> QED BY <1>1, <1>2, <1>3, <1>5, <2>1 DEF deleteBlockersForOrigin
<1>6. ASSUME NEW p \in Pair,
             \/ promoteSuppressed(p) \/ resolvePending(p)
             \/ restoreMissingBlockers(p) \/ reevaluateSuppressed(p)
      PROVE  RowTellsTruth'
  <2>1. /\ op = NoOp /\ UNCHANGED blockers
        /\ \/ UNCHANGED <<row, torn>> \/ PutMapping(p, NoRow)
           \/ PutMapping(p, Pending(cache[p[1]]))
    BY <1>6 DEF promoteSuppressed, resolvePending, restoreMissingBlockers,
                reevaluateSuppressed, createFromMapping, Ready
  <2> QED BY <1>1, <1>2, <1>3, <2>1
<1>7. ASSUME NEW b \in todoB, rebuildMappingsFromTags(b) \/ adoptOrphan(b)
      PROVE  RowTellsTruth'
  <2>1. /\ op = NoOp /\ b.pair \in Pair /\ blockers' \subseteq blockers
        /\ UNCHANGED <<row, torn>> \/ PutMapping(b.pair, Active(b.id, Unknown))
    BY <1>7 DEF TypeOK, rebuildMappingsFromTags, adoptOrphan, Ready
  <2> QED BY <1>1, <1>2, <1>3, <2>1
<1> QED
  BY <1>4, <1>5, <1>6, <1>7 DEF LoopSteps

\* What the store says an active blocker shows is what it shows, so that equal
\* hashes really mean that there is nothing to do.
THEOREM TruthOfRows == Spec => []RowTellsTruth
<1>1. Init => RowTellsTruth
  BY DEF Init, RowTellsTruth
<1>2. ASSUME TypeOK, AtMostOneBlocker, Bookkeeping, RowTellsTruth, [Next]_vars
      PROVE  RowTellsTruth'
  <2>1. CASE QuietSteps
    BY <1>2, <2>1, QuietFrame DEF RowTellsTruth
  <2> QED BY <1>2, <2>1, NextSteps, CallTruth, LoopTruth
<1> QED
  BY <1>1, <1>2, TypeCorrect, UniqueBlocker, Bookkept, PTL DEF Spec

-----------------------------------------------------------------------------
Forgets(p) == /\ row[p].id /= NoId /\ row'[p].st = "none"
              /\ \E b \in blockers' : b.pair = p /\ b.id = row[p].id

\* No step but the loss of the database drops the row of a blocker that is
\* still on its calendar.
LEMMA NothingForgotten ==
  ASSUME TypeOK, Bookkeeping, [Next]_vars, ~DatabaseLost, NEW p \in Pair
  PROVE  ~Forgets(p)
<1> USE DEF world, store, memory, result, todo
<1>1. ASSUME row'[p].st /= "none" \/ row'[p] = row[p] \/ row[p].st /= "active"
      PROVE  ~Forgets(p)
  BY <1>1 DEF Forgets, Bookkeeping, RowShape
<1>2. ASSUME NEW q, NEW m, PutMapping(q, m), m.st /= "none" \/ row[q].st /= "active"
      PROVE  ~Forgets(p)
  BY <1>1, <1>2 DEF PutMapping, TypeOK
<1>3. /\ \A s : Pending(s).st /= "none" /\ Suppressed(s).st /= "none"
      /\ \A i, s : Active(i, s).st /= "none"
  BY DEF Pending, Suppressed, Active
<1>4. CASE QuietSteps
  BY <1>1, <1>4, QuietFrame
<1>5. CASE CallSteps
  <2>1. ASSUME NEW auth \in BOOLEAN, CallFails(auth) PROVE ~Forgets(p)
    BY <1>1, <2>1 DEF CallFails
  <2>2. CASE Crash \/ CreateBlocker \/ DeleteBlocker
    BY <1>1, <2>2 DEF Crash, CreateBlocker, DeleteBlocker
  <2>3. CASE PutActive
    BY <1>2, <1>3, <2>3 DEF PutActive
  <2>4. CASE UpdateBlocker
    BY <1>1, <1>2, <1>3, <2>4 DEF UpdateBlocker, createFromMapping
  <2>5. CASE PutTimeHash
    <3>1. op.p \in Pair /\ [row[op.p] EXCEPT !.hash = op.slot].st = "active"
      BY <2>5, OpTyped DEF PutTimeHash, TypeOK, Bookkeeping, OpShape
    <3> QED BY <1>2, <2>5, <3>1 DEF PutTimeHash
  <2>6. CASE DeleteMapping
    <3>1. /\ op.p \in Pair /\ op.do = "deleted" /\ UNCHANGED blockers
          /\ PutMapping(op.p, NoRow)
      BY <2>6, OpTyped DEF DeleteMapping
    <3>2. CASE p = op.p
      BY <3>1, <3>2 DEF Forgets, Bookkeeping, OpShape
    <3>3. CASE p /= op.p
      BY <1>1, <3>1, <3>3 DEF PutMapping, TypeOK
    <3> QED BY <3>2, <3>3
  <2> QED BY <1>5, <2>1, <2>2, <2>3, <2>4, <2>5, <2>6 DEF CallSteps
<1>6. CASE LoopSteps
  <2>1. ASSUME NEW t \in Target, upsertBlockerOnTarget(t) PROVE ~Forgets(p)
    <3> DEFINE q == <<job.o, t>>
    <3>1. q \in Pair /\ row[q] \in Row
      BY <2>1, JobTyped DEF upsertBlockerOnTarget, NoJob, TypeOK
    <3>2. CASE row[q].st = "suppressed" /\ PutMapping(q, [row[q] EXCEPT !.hash = job.slot])
      BY <1>2, <3>1, <3>2
    <3> QED BY <1>1, <1>2, <1>3, <2>1, <3>2 DEF upsertBlockerOnTarget
  <2>2. ASSUME NEW t \in Target, deleteBlockersForOrigin(t) PROVE ~Forgets(p)
    <3> DEFINE q == <<job.o, t>>
    <3>1. CASE row[q].id = NoId /\ PutMapping(q, NoRow)
      BY <3>1 DEF Forgets, PutMapping, TypeOK, Bookkeeping, RowShape
    <3>2. CASE UNCHANGED row
      BY <1>1, <3>2
    <3> QED BY <2>2, <3>1, <3>2 DEF deleteBlockersForOrigin
  <2>3. ASSUME NEW q \in Pair, promoteSuppressed(q) \/ restoreMissingBlockers(q)
        PROVE  ~Forgets(p)
    BY <1>1, <1>2, <1>3, <2>3
       DEF promoteSuppressed, restoreMissingBlockers, createFromMapping
  <2>4. ASSUME NEW q \in Pair, resolvePending(q) \/ reevaluateSuppressed(q)
        PROVE  ~Forgets(p)
    <3>1. row[q].st /= "active"
      BY <2>4 DEF resolvePending, reevaluateSuppressed, Bookkeeping, LoopShape
    <3> QED BY <1>1, <1>2, <2>4, <3>1
            DEF resolvePending, reevaluateSuppressed, createFromMapping
  <2>5. ASSUME NEW b \in todoB, rebuildMappingsFromTags(b) \/ adoptOrphan(b)
        PROVE  ~Forgets(p)
    BY <1>1, <1>2, <1>3, <2>5 DEF rebuildMappingsFromTags, adoptOrphan
  <2> QED BY <1>6, <2>1, <2>2, <2>3, <2>4, <2>5 DEF LoopSteps
<1> QED
  BY <1>4, <1>5, <1>6, NextSteps

\* A row that names a remote event leaves the store only after the event left the
\* calendar, or with the whole database.
THEOREM NoneForgotten == Spec => NoBlockerForgotten
<1>1. ASSUME TypeOK, Bookkeeping, [Next]_vars
      PROVE  \A p \in Pair :
               row[p].id /= NoId /\ row'[p].st = "none" /\ ~DatabaseLost
               => ~\E b \in blockers' : b.pair = p /\ b.id = row[p].id
  BY <1>1, NothingForgotten DEF Forgets
<1> QED
  BY <1>1, TypeCorrect, Bookkept, PTL DEF Spec, NoBlockerForgotten

-----------------------------------------------------------------------------
\* A call of Changes is being processed.
Syncing == phase \in {"diff", "events"}

\* A window that began at from reached the origin, and it is not over yet.
Covered(from, o) == truth[o] \in Slot /\ now < truth[o] /\ truth[o] <= from + Horizon

\* The windows of the store and of the call in progress began in the past, and
\* what changed during the call changed since the stored cursor.
Clocks == /\ deltaFrom <= now /\ since <= now
          /\ Syncing => deltaFrom <= since /\ later \subseteq dirty

\* CursorTellsTruth in every phase.
Known ==
  \A o \in Origin :
    cursor = "valid" /\ o \notin dirty /\ Covered(deltaFrom, o) => cache[o] = truth[o]

\* What the call in progress covers is either still to be processed, as it is, or
\* already in the cache.
Reported ==
  Syncing => \A o \in Origin \ later :
               Covered(since, o) => \/ batch[o] = truth[o]
                                    \/ batch[o] = NoChange /\ cache[o] = truth[o]

\* Nothing that the call covers is being forgotten.
Spared ==
  /\ phase = "diff" => \A o \in todoO \ later : ~Covered(since, o)
  /\ job.how = "delete" => Syncing /\ (job.o \in later \/ ~Covered(since, job.o))

\* The inductive invariant of the cursor.
CursorInv == Clocks /\ Known /\ Reported /\ Spared

\* The types of what CursorInv speaks of.
LEMMA CursorTypes ==
  ASSUME TypeOK
  PROVE  /\ now \in Nat /\ since \in Nat /\ deltaFrom \in Nat /\ Horizon \in Nat
         /\ truth \in [Origin -> Slot \cup {Gone, Free}]
         /\ cache \in [Origin -> Slot \cup {NoSlot}]
         /\ batch \in [Origin -> Slot \cup {Gone, Free, NoChange}]
         /\ todoO \subseteq Origin /\ later \subseteq Origin /\ dirty \subseteq Origin
         /\ \A s \in Slot : s \in Nat /\ s > 0
<1>1. (\A s \in Slot : s \in Nat /\ s > 0) /\ Horizon \in Nat
  BY ConstantsAssumption
<1> QED
  BY <1>1 DEF TypeOK

\* A window that began later covers more.
LEMMA CoveredMore ==
  ASSUME TypeOK, NEW f \in Nat, NEW g \in Nat, f <= g, NEW o \in Origin, Covered(f, o)
  PROVE  Covered(g, o)
<1> DEFINE s == truth[o]
<1>1. s \in Nat /\ s <= f + Horizon /\ Horizon \in Nat
  BY CursorTypes DEF Covered
<1>2. s <= g + Horizon
  <2> HIDE DEF s
  <2> QED BY <1>1
<1> QED
  BY <1>2 DEF Covered

\* What is alive is what the window that begins now covers.
LEMMA AliveCovered ==
  ASSUME TypeOK, NEW o \in Origin
  PROVE  /\ truth[o] \in Slot /\ InWindow(truth[o]) <=> Covered(now, o)
         /\ o \in alive <=> Covered(now, o)
BY DEF Covered, InWindow, InWindowOf, alive

\* A step that leaves the calendar, the cache and the call of Changes alone
\* cannot disturb what is said of the cursor.
LEMMA CursorFrame ==
  ASSUME CursorInv, UNCHANGED <<truth, now, cursor, deltaFrom, dirty, cache>>,
         UNCHANGED <<phase, since, later, batch, todoO>>,
         job'.how = job.how, job'.o = job.o
  PROVE  CursorInv'
BY DEF CursorInv, Clocks, Known, Reported, Spared, Syncing, Covered

\* Nor can the end of the call of Changes, as long as no event is being
\* forgotten.
LEMMA CursorRests ==
  ASSUME TypeOK, CursorInv, UNCHANGED <<truth, now, cursor, deltaFrom, dirty, cache>>,
         phase' \notin {"diff", "events"}, since' \in {0, now, since}, job'.how /= "delete"
  PROVE  CursorInv'
<1>1. Clocks'
  BY CursorTypes DEF CursorInv, Clocks, Syncing
<1>2. Known'
  BY DEF CursorInv, Known, Covered
<1> QED
  BY <1>1, <1>2 DEF CursorInv, Reported, Spared, Syncing

\* The loop of a phase that is not a call of Changes begins.
LEMMA EnterRests ==
  ASSUME TypeOK, CursorInv, UNCHANGED <<truth, now, cursor, deltaFrom, dirty, cache>>,
         NEW ph \in Phases \ {"diff", "events"}, NEW ok, Enter(ph, ok), job'.how /= "delete"
  PROVE  CursorInv'
BY CursorRests DEF Enter

\* The steps that neither edit the calendar nor touch the cache or the call of
\* Changes.
LEMMA CursorElsewhere ==
  ASSUME \/ \E b \in blockers : UserRemovesBlocker(b)
         \/ \E p \in Pair, s \in Slot : TwinAppears(p, s)
         \/ \E t \in Target : \/ ListingFails(t) \/ ListAccount(t)
                              \/ upsertBlockerOnTarget(t) \/ deleteBlockersForOrigin(t)
         \/ \E b \in todoB : \/ OrphanRemains(b) \/ rebuildMappingsFromTags(b)
                             \/ adoptOrphan(b)
         \/ \E p \in Pair : \/ promoteSuppressed(p) \/ resolvePending(p)
                            \/ restoreMissingBlockers(p) \/ reevaluateSuppressed(p)
         \/ CreateBlocker \/ PutActive \/ UpdateBlocker \/ PutTimeHash
         \/ DeleteBlocker \/ DeleteMapping \/ UNCHANGED vars
  PROVE  /\ UNCHANGED <<truth, now, cursor, deltaFrom, dirty, cache>>
         /\ UNCHANGED <<phase, since, later, batch, todoO>>
         /\ UNCHANGED job \/ \E t \in Target : job' = [job EXCEPT !.left = @ \ {t}]
<1> USE DEF world, store, memory, result, todo
<1>1. ASSUME NEW b \in blockers, UserRemovesBlocker(b)
      PROVE  /\ UNCHANGED <<truth, now, cursor, deltaFrom, dirty, cache>>
             /\ UNCHANGED <<phase, since, later, batch, todoO, job>>
  BY <1>1 DEF UserRemovesBlocker
<1>2. ASSUME NEW p \in Pair, NEW s \in Slot, TwinAppears(p, s)
      PROVE  /\ UNCHANGED <<truth, now, cursor, deltaFrom, dirty, cache>>
             /\ UNCHANGED <<phase, since, later, batch, todoO, job>>
  BY <1>2 DEF TwinAppears
<1>3. ASSUME NEW t \in Target, \/ ListingFails(t) \/ ListAccount(t)
      PROVE  /\ UNCHANGED <<truth, now, cursor, deltaFrom, dirty, cache>>
             /\ UNCHANGED <<phase, since, later, batch, todoO, job>>
  BY <1>3 DEF ListingFails, ListAccount
<1>4. ASSUME NEW t \in Target, upsertBlockerOnTarget(t) \/ deleteBlockersForOrigin(t)
      PROVE  /\ UNCHANGED <<truth, now, cursor, deltaFrom, dirty, cache>>
             /\ UNCHANGED <<phase, since, later, batch, todoO>>
             /\ job' = [job EXCEPT !.left = @ \ {t}]
  BY <1>4 DEF upsertBlockerOnTarget, deleteBlockersForOrigin
<1>5. ASSUME NEW b \in todoB, \/ OrphanRemains(b) \/ rebuildMappingsFromTags(b)
                              \/ adoptOrphan(b)
      PROVE  /\ UNCHANGED <<truth, now, cursor, deltaFrom, dirty, cache>>
             /\ UNCHANGED <<phase, since, later, batch, todoO, job>>
  BY <1>5 DEF OrphanRemains, rebuildMappingsFromTags, adoptOrphan
<1>6. ASSUME NEW p \in Pair, \/ promoteSuppressed(p) \/ resolvePending(p)
                             \/ restoreMissingBlockers(p) \/ reevaluateSuppressed(p)
      PROVE  /\ UNCHANGED <<truth, now, cursor, deltaFrom, dirty, cache>>
             /\ UNCHANGED <<phase, since, later, batch, todoO, job>>
  BY <1>6 DEF promoteSuppressed, resolvePending, restoreMissingBlockers,
              reevaluateSuppressed
<1>7. ASSUME \/ CreateBlocker \/ PutActive \/ UpdateBlocker \/ PutTimeHash
             \/ DeleteBlocker \/ DeleteMapping \/ UNCHANGED vars
      PROVE  /\ UNCHANGED <<truth, now, cursor, deltaFrom, dirty, cache>>
             /\ UNCHANGED <<phase, since, later, batch, todoO, job>>
  BY <1>7 DEF CreateBlocker, PutActive, UpdateBlocker, PutTimeHash, DeleteBlocker,
              DeleteMapping, vars
<1> QED
  BY <1>1, <1>2, <1>3, <1>4, <1>5, <1>6, <1>7

\* A user's edit and the clock.
LEMMA CursorEnvironment ==
  ASSUME TypeOK, TypeOK', CursorInv,
         (\E o \in Origin : UserEdits(o)) \/ WindowSlides
  PROVE  CursorInv'
<1> USE DEF store, memory, result, todo
<1>1. ASSUME NEW o \in Origin, UserEdits(o) PROVE CursorInv'
  <2>1. /\ UNCHANGED <<now, cursor, deltaFrom, cache, phase, since, batch, todoO, job>>
        /\ dirty' = dirty \cup {o}
        /\ Syncing => later' = later \cup {o}
        /\ \A x \in Origin \ {o} : truth'[x] = truth[x]
    BY <1>1, CursorTypes DEF UserEdits, Syncing
  <2>2. Clocks'
    BY <2>1 DEF CursorInv, Clocks, Syncing
  <2>3. Known'
    BY <2>1 DEF CursorInv, Known, Covered
  <2>4. Reported'
    BY <2>1 DEF CursorInv, Reported, Syncing, Covered
  <2>5. Spared'
    <3>1. phase = "diff" => \A x \in todoO \ later' : ~Covered(since, x)'
      BY <2>1, CursorTypes DEF CursorInv, Spared, Syncing, Covered
    <3>2. ASSUME job.how = "delete"
          PROVE  Syncing /\ (job.o \in later' \/ ~Covered(since, job.o)')
      <4>1. job.o \in Origin
        BY <3>2, JobTyped DEF NoJob
      <4> QED BY <2>1, <3>2, <4>1 DEF CursorInv, Spared, Covered
    <3> QED BY <2>1, <3>1, <3>2 DEF Spared, Syncing, Covered
  <2> QED BY <2>2, <2>3, <2>4, <2>5 DEF CursorInv
<1>2. CASE WindowSlides
  <2>1. /\ UNCHANGED <<truth, cursor, deltaFrom, dirty, cache>>
        /\ UNCHANGED <<phase, since, later, batch, todoO, job>>
        /\ now' = now + 1
    BY <1>2 DEF WindowSlides
  <2>2. \A f, o : truth[o] \in Slot /\ Covered(f, o)' => Covered(f, o)
    BY <2>1, CursorTypes DEF Covered
  <2>3. \A f, o : Covered(f, o)' => Covered(f, o)
    BY <2>1, <2>2 DEF Covered
  <2>4. Clocks'
    BY <2>1, CursorTypes DEF CursorInv, Clocks, Syncing
  <2>5. Known' /\ Reported' /\ Spared'
    BY <2>1, <2>3 DEF CursorInv, Known, Reported, Spared, Syncing
  <2> QED BY <2>4, <2>5 DEF CursorInv
<1> QED
  BY <1>1, <1>2

\* Changes is called: with a cursor, what it does not report is in the cache
\* already; without one, everything in the window is reported.
LEMMA CursorChanges ==
  ASSUME TypeOK, Bookkeeping, CursorInv, SyncCalendar \/ FullResync
  PROVE  CursorInv'
<1> USE DEF world, store, memory, result, todo
<1>1. CASE FullResync \/ (SyncCalendar /\ cursor = "none")
  <2>1. /\ UNCHANGED <<truth, now, cursor, deltaFrom, dirty, cache, job>>
        /\ batch' = Listing /\ since' = now /\ later' = {}
        /\ phase' = "events" \/ todoO' = Vanished
        /\ job = NoJob
    BY <1>1 DEF FullResync, SyncCalendar, LoopDone, Ready, Bookkeeping, LoopShape
  <2>2. Clocks' /\ Known'
    BY <2>1, CursorTypes DEF CursorInv, Clocks, Known, Covered
  <2>3. Reported'
    BY <2>1, AliveCovered DEF Reported, Listing, Covered, InWindow, InWindowOf
  <2>4. Spared'
    BY <2>1, AliveCovered DEF Spared, Vanished, NoJob, Covered
  <2> QED BY <2>2, <2>3, <2>4 DEF CursorInv
<1>2. CASE SyncCalendar /\ cursor /= "none"
  <2>1. /\ UNCHANGED <<truth, now, cursor, deltaFrom, dirty, cache, job>>
        /\ batch' = Delta /\ since' = deltaFrom /\ later' = {} /\ phase' = "events"
        /\ job = NoJob /\ cursor = "valid"
    BY <1>2 DEF SyncCalendar, Bookkeeping, LoopShape, TypeOK
  <2>2. Clocks' /\ Known'
    BY <2>1, CursorTypes DEF CursorInv, Clocks, Known, Covered
  <2>3. ASSUME NEW o \in Origin, Covered(deltaFrom, o)
        PROVE  Delta[o] = truth[o] \/ (Delta[o] = NoChange /\ cache[o] = truth[o])
    <3>1. o \notin dirty => Delta[o] = NoChange /\ cache[o] = truth[o]
      BY <2>1, <2>3 DEF CursorInv, Known, Delta
    <3>2. InWindowOf(deltaFrom, truth[o])
      BY <2>3, CursorTypes DEF Covered, InWindowOf, CursorInv, Clocks
    <3> QED BY <3>1, <3>2 DEF Delta
  <2>4. Reported'
    BY <2>1, <2>3 DEF Reported, Covered
  <2>5. Spared'
    BY <2>1 DEF Spared, NoJob
  <2> QED BY <2>2, <2>4, <2>5 DEF CursorInv
<1> QED
  BY <1>1, <1>2

\* Processing the batch: what the call covers goes into the cache, and only what
\* it does not cover is taken down.
LEMMA CursorProcess ==
  ASSUME TypeOK, CursorInv,
         \/ \E o \in Origin : \/ DropVanished(o) \/ processEvent(o)
                              \/ cleanStaleMappings(o)
         \/ DiffDone \/ FinishEvent
  PROVE  CursorInv'
<1> USE DEF world, store, memory, result, todo
<1>1. ASSUME NEW o \in Origin, DropVanished(o) PROVE CursorInv'
  <2>1. /\ UNCHANGED <<truth, now, cursor, deltaFrom, dirty, cache>>
        /\ UNCHANGED <<phase, since, later, batch>> /\ phase = "diff"
        /\ todoO' = todoO \ {o} /\ o \in todoO /\ job'.o = o
    BY <1>1 DEF DropVanished, Drop
  <2>2. Clocks' /\ Known' /\ Reported'
    BY <2>1 DEF CursorInv, Clocks, Known, Reported, Syncing, Covered
  <2>3. Spared'
    BY <2>1 DEF CursorInv, Spared, Syncing, Covered
  <2> QED BY <2>2, <2>3 DEF CursorInv
<1>2. ASSUME NEW o \in Origin, processEvent(o) PROVE CursorInv'
  <2>1. /\ UNCHANGED <<truth, now, cursor, deltaFrom, dirty>>
        /\ UNCHANGED <<phase, since, later, todoO>> /\ phase = "events"
        /\ batch' = [batch EXCEPT ![o] = NoChange] /\ batch[o] /= NoChange
    BY <1>2 DEF processEvent
  <2>2. CASE o \notin later /\ Covered(since, o)
    <3>1. batch[o] = truth[o] /\ truth[o] \in Slot
      BY <2>1, <2>2 DEF CursorInv, Reported, Syncing, Covered
    <3>2. InWindow(truth[o])
      <4>1. Covered(now, o)
        BY <2>2, CoveredMore, CursorTypes DEF CursorInv, Clocks
      <4> QED BY <4>1, AliveCovered
    <3>3. truth[o] /= Gone /\ truth[o] /= Free
      BY <3>1, CursorTypes
    <3>4. cache' = [cache EXCEPT ![o] = truth[o]] /\ job'.how = "upsert"
      BY <1>2, <3>1, <3>2, <3>3 DEF processEvent
    <3>5. cache'[o] = truth[o] /\ \A x \in Origin \ {o} : cache'[x] = cache[x]
      BY <3>4, CursorTypes
    <3>6. batch'[o] = NoChange /\ \A x \in Origin \ {o} : batch'[x] = batch[x]
      BY <2>1, CursorTypes
    <3>7. Clocks' /\ Known'
      BY <2>1, <3>5 DEF CursorInv, Clocks, Known, Syncing, Covered
    <3>8. Reported'
      BY <2>1, <3>5, <3>6 DEF CursorInv, Reported, Syncing, Covered
    <3>9. Spared'
      BY <2>1, <3>4 DEF Spared
    <3> QED BY <3>7, <3>8, <3>9 DEF CursorInv
  <2>3. CASE o \in later \/ ~Covered(since, o)
    <3>1. /\ \A x \in Origin \ {o} : cache'[x] = cache[x] /\ batch'[x] = batch[x]
          /\ job'.how = "delete" => job'.o = o
      <4>1. \A x \in Origin \ {o} : batch'[x] = batch[x]
        BY <2>1, CursorTypes
      <4>2. UNCHANGED cache \/ cache' = [cache EXCEPT ![o] = batch[o]]
        BY <1>2 DEF processEvent
      <4>3. job'.how = "delete" => job'.o = o
        BY <1>2 DEF processEvent, Drop, NoJob
      <4> QED BY <4>1, <4>2, <4>3, CursorTypes
    <3>2. Clocks'
      BY <2>1 DEF CursorInv, Clocks, Syncing
    <3>3. o \in dirty \/ ~Covered(deltaFrom, o)
      BY <2>1, <2>3, CoveredMore, CursorTypes DEF CursorInv, Clocks, Syncing
    <3>4. Known'
      BY <2>1, <3>1, <3>3 DEF CursorInv, Known, Covered
    <3>5. Reported'
      BY <2>1, <2>3, <3>1 DEF CursorInv, Reported, Syncing, Covered
    <3>6. Spared'
      BY <2>1, <2>3, <3>1 DEF Spared, Syncing, Covered
    <3> QED BY <3>2, <3>4, <3>5, <3>6 DEF CursorInv
  <2> QED BY <2>2, <2>3
<1>3. ASSUME NEW o \in Origin, cleanStaleMappings(o) PROVE CursorInv'
  BY <1>3, CursorRests DEF cleanStaleMappings, Drop
<1>4. CASE DiffDone
  BY <1>4 DEF DiffDone, LoopDone, CursorInv, Clocks, Known, Reported, Spared, Syncing,
              Covered
<1>5. CASE FinishEvent
  <2>1. /\ UNCHANGED <<truth, now, cursor, deltaFrom, dirty>>
        /\ UNCHANGED <<phase, since, later, batch, todoO>>
        /\ job /= NoJob /\ job' = NoJob
        /\ UNCHANGED cache \/ (job.how = "delete" /\ cache' = [cache EXCEPT ![job.o] = NoSlot])
    BY <1>5 DEF FinishEvent
  <2>2. Clocks' /\ Spared'
    BY <2>1 DEF CursorInv, Clocks, Spared, Syncing, NoJob, Covered
  <2>3. CASE UNCHANGED cache
    BY <2>1, <2>2, <2>3 DEF CursorInv, Known, Reported, Syncing, Covered
  <2>4. CASE job.how = "delete" /\ cache' = [cache EXCEPT ![job.o] = NoSlot]
    <3>1. job.o \in Origin /\ Syncing /\ (job.o \in later \/ ~Covered(since, job.o))
      BY <2>1, <2>4, JobTyped DEF CursorInv, Spared
    <3>2. job.o \in dirty \/ ~Covered(deltaFrom, job.o)
      BY <3>1, CoveredMore, CursorTypes DEF CursorInv, Clocks
    <3>3. \A x \in Origin \ {job.o} : cache'[x] = cache[x]
      BY <2>4, CursorTypes
    <3>4. Known'
      BY <2>1, <3>2, <3>3 DEF CursorInv, Known, Covered
    <3>5. Reported'
      BY <2>1, <3>1, <3>3 DEF CursorInv, Reported, Syncing, Covered
    <3> QED BY <2>2, <3>4, <3>5 DEF CursorInv
  <2> QED BY <2>1, <2>3, <2>4
<1> QED
  BY <1>1, <1>2, <1>3, <1>4, <1>5

\* The batch is processed, or abandoned: only in the first case is the cursor
\* stored.
LEMMA CursorStored ==
  ASSUME TypeOK, Bookkeeping, CursorInv,
         \/ SetCursor \/ PhaseDone \/ Reconcile \/ ChangesFails \/ Crash
         \/ DatabaseLost \/ CursorExpires
         \/ \E p \in Pair : TwinVanishes(p)
         \/ \E auth \in BOOLEAN : CallFails(auth)
  PROVE  CursorInv'
<1> USE DEF world, store, memory, result, todo
<1>1. CASE SetCursor
  <2>1. /\ UNCHANGED <<truth, now, cache, job>> /\ Syncing /\ batch = NoBatch
        /\ dirty' = later /\ deltaFrom' = since /\ job = NoJob
        /\ phase' \in {"clean", "idle"} /\ since' = 0
    BY <1>1 DEF SetCursor, EndResync, Enter, LoopDone, Ready, Syncing, ListingPhases
  <2>2. Clocks'
    BY <2>1, CursorTypes DEF CursorInv, Clocks, Syncing
  <2>3. ASSUME NEW o \in Origin \ later, Covered(since, o)
        PROVE  cache[o] = truth[o]
    <3>1. batch[o] = NoChange /\ truth[o] /= NoChange
      BY <2>1, <2>3, CursorTypes DEF Covered, NoBatch
    <3> QED BY <2>1, <2>3, <3>1 DEF CursorInv, Reported
  <2>4. Known'
    BY <2>1, <2>3 DEF Known, Covered
  <2>5. Reported' /\ Spared'
    BY <2>1 DEF Reported, Spared, Syncing, NoJob
  <2> QED BY <2>2, <2>4, <2>5 DEF CursorInv
<1>2. CASE PhaseDone
  <2>1. NextPhase[phase] \in Phases \ {"diff", "events"}
    BY <1>2 DEF PhaseDone, NextPhase, Phases
  <2>2. /\ UNCHANGED <<truth, now, cursor, deltaFrom, dirty, cache>>
        /\ Enter(NextPhase[phase], TRUE) /\ job'.how /= "delete"
    BY <1>2 DEF PhaseDone, LoopDone, Ready, NoJob
  <2> QED BY <2>1, <2>2, EnterRests
<1>3. CASE Reconcile
  <2>1. /\ UNCHANGED <<truth, now, cursor, deltaFrom, dirty, cache>>
        /\ Enter("rebuild", TRUE) /\ job'.how /= "delete"
    <3>1. job = NoJob
      BY <1>3 DEF Reconcile, Bookkeeping, LoopShape
    <3> QED BY <1>3, <3>1 DEF Reconcile, NoJob
  <2> QED BY <2>1, EnterRests DEF Phases
<1>4. CASE ChangesFails
  BY <1>4, EnterRests DEF ChangesFails, Phases, LoopDone, Ready, NoJob
<1>5. CASE Crash
  BY <1>5, CursorRests DEF Crash, NoJob
<1>6. CASE DatabaseLost
  <2>1. /\ phase' = "idle" /\ since' = since /\ now' = now /\ job' = job /\ job = NoJob
        /\ deltaFrom' = 0 /\ cursor' = "none"
    BY <1>6 DEF DatabaseLost, Bookkeeping, LoopShape
  <2> QED BY <2>1, CursorTypes
          DEF CursorInv, Clocks, Known, Reported, Spared, Syncing, NoJob
<1>7. CASE CursorExpires
  BY <1>7 DEF CursorExpires, CursorInv, Clocks, Known, Reported, Spared, Syncing, Covered
<1>8. ASSUME NEW p \in Pair, TwinVanishes(p) PROVE CursorInv'
  BY <1>8, CursorRests DEF TwinVanishes, Bookkeeping, LoopShape, NoJob
<1>9. ASSUME NEW auth \in BOOLEAN, CallFails(auth) PROVE CursorInv'
  <2>1. UNCHANGED <<truth, now, cursor, deltaFrom, dirty, cache>>
    BY <1>9 DEF CallFails
  <2>2. CASE job' = NoJob /\ EndResync(FALSE)
    <3>1. job'.how /= "delete"
      BY <2>2 DEF NoJob
    <3>2. Enter("clean", FALSE) \/ Enter("idle", FALSE)
      BY <2>2 DEF EndResync
    <3> QED BY <2>1, <3>1, <3>2, EnterRests DEF Phases
  <2>3. CASE /\ job' = IF job /= NoJob /\ auth THEN [job EXCEPT !.failed = TRUE] ELSE NoJob
             /\ UNCHANGED <<phase, todo, memory>>
    <3>1. CASE job' = NoJob
      BY <2>1, <2>3, <3>1 DEF CursorInv, Clocks, Known, Reported, Spared, Syncing, Covered,
                              NoJob
    <3>2. CASE job /= NoJob /\ job' = [job EXCEPT !.failed = TRUE]
      <4>1. job'.how = job.how /\ job'.o = job.o
        BY <3>2, JobTyped DEF Job
      <4> QED BY <2>1, <2>3, <4>1, CursorFrame
    <3> QED BY <2>3, <3>1, <3>2
  <2> QED BY <1>9, <2>2, <2>3 DEF CallFails
<1> QED
  BY <1>1, <1>2, <1>3, <1>4, <1>5, <1>6, <1>7, <1>8, <1>9

\* Every step keeps the cursor's word.
LEMMA NextCursor ==
  ASSUME TypeOK, TypeOK', Bookkeeping, CursorInv, [Next]_vars
  PROVE  CursorInv'
<1>1. ASSUME /\ UNCHANGED <<truth, now, cursor, deltaFrom, dirty, cache>>
             /\ UNCHANGED <<phase, since, later, batch, todoO>>
             /\ UNCHANGED job \/ \E t \in Target : job' = [job EXCEPT !.left = @ \ {t}]
      PROVE  CursorInv'
  <2>1. job'.how = job.how /\ job'.o = job.o
    BY <1>1, JobTyped DEF Job, NoJob
  <2> QED BY <1>1, <2>1, CursorFrame
<1> QED
  BY <1>1, CursorElsewhere, CursorEnvironment, CursorChanges, CursorProcess, CursorStored
  DEF Next, Environment, Failure, Continue

\* The inductive invariant of the cursor holds in every run.
LEMMA CursorKept == Spec => []CursorInv
<1>1. Init => CursorInv
  BY ConstantsAssumption
     DEF Init, CursorInv, Clocks, Known, Reported, Spared, Syncing, NoJob
<1> QED
  BY <1>1, TypeCorrect, Bookkept, NextCursor, PTL DEF Spec

\* The stored cursor never claims more than was processed: every event in both
\* windows that did not change since is in the cache as it is.
THEOREM CursorTruthful == Spec => []CursorTellsTruth
<1>1. TypeOK /\ CursorInv => CursorTellsTruth
  BY DEF CursorInv, Known, CursorTellsTruth, Covered, InWindow, InWindowOf
<1> QED
  BY <1>1, TypeCorrect, CursorKept, PTL

-----------------------------------------------------------------------------
\* An active row names the blocker that is on the calendar.
ActiveNames == \A b \in blockers : row[b.pair].st = "active" => b.id = row[b.pair].id

\* So does the call that has just returned an id.
CreatedNames == op.do = "created" => \A b \in blockers : b.pair = op.p => b.id = op.id

\* What a listing returned is still what is on the calendar, or it is gone: no
\* call is in progress while listings are walked through.
ListedNames ==
  /\ \A b \in todoB, c \in blockers : c.pair = b.pair => c.id = b.id
  /\ todoB /= {} => phase \in {"rebuild", "adopt"}
  /\ todoT /= {} => phase \in ListingPhases
  /\ phase \in {"rebuild", "adopt"} => op = NoOp

\* The inductive invariant of the ids.
NamesInv == ActiveNames /\ CreatedNames /\ ListedNames

\* A quiet step preserves the names: only ListAccount adds to what is listed.
LEMMA QuietNames ==
  ASSUME TypeOK, Bookkeeping, AtMostOneBlocker, NamesInv, QuietSteps
  PROVE  NamesInv'
<1> USE DEF world, store, memory, result, todo
<1>1. UNCHANGED <<row, op>> /\ blockers' \subseteq blockers
  BY QuietFrame
<1>2. ActiveNames' /\ CreatedNames'
  BY <1>1 DEF NamesInv, ActiveNames, CreatedNames
<1>3. ASSUME todoB' \subseteq todoB, todoT' \subseteq todoT, phase' = phase
      PROVE  ListedNames'
  BY <1>1, <1>3 DEF NamesInv, ListedNames
<1>4. ASSUME todoB' = {}, todoT' = {} \/ phase' \in ListingPhases, op = NoOp
      PROVE  ListedNames'
  BY <1>1, <1>4 DEF ListedNames
<1>5. ASSUME NEW t \in Target, ListAccount(t)
      PROVE  ListedNames'
  <2>1. CASE phase = "restore"
    BY <1>3, <1>5, <2>1 DEF ListAccount
  <2>2. CASE phase /= "restore"
    <3>1. phase \in {"rebuild", "adopt"}
      BY <1>5, <2>2 DEF ListAccount, NamesInv, ListedNames, ListingPhases
    <3>2. /\ todoB' \subseteq blockers /\ todoT' \subseteq todoT /\ phase' = phase
          /\ op = NoOp
      BY <1>5, <2>2 DEF ListAccount, ListBlockers, Ready
    <3> QED BY <1>1, <3>1, <3>2 DEF NamesInv, ListedNames, ListingPhases, AtMostOneBlocker
  <2> QED BY <2>1, <2>2
<1>6. ASSUME NEW o \in Origin, \/ UserEdits(o) \/ DropVanished(o) \/ processEvent(o)
                               \/ cleanStaleMappings(o)
      PROVE  ListedNames'
  BY <1>3, <1>6 DEF UserEdits, DropVanished, processEvent, cleanStaleMappings
<1>7. ASSUME NEW b \in blockers, UserRemovesBlocker(b)
      PROVE  ListedNames'
  BY <1>3, <1>7 DEF UserRemovesBlocker
<1>8. phase = "idle" => todoB = {} /\ todoT = {} /\ op = NoOp
  BY DEF NamesInv, ListedNames, ListingPhases, Bookkeeping, LoopShape
<1>9. ASSUME NEW t \in Target, ListingFails(t)
      PROVE  ListedNames'
  BY <1>3, <1>9 DEF ListingFails
<1>10. ASSUME NEW b \in todoB, OrphanRemains(b)
       PROVE  ListedNames'
  BY <1>3, <1>10 DEF OrphanRemains
<1>11. CASE WindowSlides \/ CursorExpires \/ FinishEvent \/ UNCHANGED vars
  <2>1. UNCHANGED <<todoB, todoT, phase>>
    BY <1>11 DEF WindowSlides, CursorExpires, FinishEvent, vars
  <2> QED BY <1>2, <1>3, <2>1 DEF NamesInv
<1>12. CASE ChangesFails \/ SetCursor \/ PhaseDone \/ Reconcile
  <2>1. op = NoOp /\ \E ph, ok : Enter(ph, ok)
    BY <1>8, <1>12
       DEF ChangesFails, SetCursor, EndResync, PhaseDone, Reconcile, LoopDone, Ready
  <2>2. todoB' = {} /\ (todoT' = {} \/ phase' \in ListingPhases)
    BY <2>1 DEF Enter
  <2> QED BY <1>2, <1>4, <2>1, <2>2 DEF NamesInv
<1>13. ASSUME todoB = {}, todoT = {}, op = NoOp, UNCHANGED <<todoB, todoT>>
       PROVE  ListedNames'
  BY <1>4, <1>13
<1>14. ASSUME NEW p \in Pair, TwinVanishes(p) \/ \E s \in Slot : TwinAppears(p, s)
       PROVE  ListedNames'
  <2>1. phase = "idle" /\ UNCHANGED <<todoB, todoT>>
    BY <1>14 DEF TwinVanishes, TwinAppears
  <2> QED BY <1>8, <1>13, <2>1
<1>15. CASE SyncCalendar
  <2>1. phase = "idle" /\ UNCHANGED <<todoB, todoT>>
    BY <1>15 DEF SyncCalendar
  <2> QED BY <1>2, <1>8, <1>13, <2>1 DEF NamesInv
<1>16. CASE FullResync \/ DiffDone
  <2>1. UNCHANGED <<todoB, todoT>> /\ (phase = "idle" \/ LoopDone)
    BY <1>16 DEF FullResync, DiffDone
  <2> QED BY <1>2, <1>8, <1>13, <2>1 DEF LoopDone, Ready, NamesInv
<1> QED
  BY <1>2, <1>5, <1>6, <1>7, <1>9, <1>10, <1>11, <1>12, <1>14, <1>15, <1>16
  DEF QuietSteps, NamesInv

\* After CreateBlocker the blocker of the pair is the one it returned.
LEMMA CreateReturns ==
  ASSUME TypeOK, AtMostOneBlocker, NEW p \in Pair, NEW s \in Slot, NEW i,
         CreateEffect(p, s, i)
  PROVE  \A b \in blockers' : b.pair = p => b.id = i
<1>1. CASE Align(p, s, i)
  <2>1. PICK b \in blockers : /\ b.pair = p /\ b.id = i
                              /\ blockers' = (blockers \ {b}) \cup {[b EXCEPT !.slot = s]}
    BY <1>1 DEF Align, Live
  <2>2. [b EXCEPT !.slot = s].id = i
    BY <2>1 DEF TypeOK
  <2>3. \A c \in blockers \ {b} : c.pair /= p
    BY <2>1 DEF AtMostOneBlocker
  <2> QED BY <2>1, <2>2, <2>3
<1>2. CASE Live(p) = {} /\ Insert(p, s, i)
  BY <1>2 DEF Insert, Live
<1> QED
  BY <1>1, <1>2 DEF CreateEffect

\* Aligning a blocker keeps its id.
LEMMA AlignKeepsIds ==
  ASSUME TypeOK, NEW p, NEW s, NEW i, Align(p, s, i)
  PROVE  \A b \in blockers' : \E c \in blockers : c.pair = b.pair /\ c.id = b.id
<1>1. PICK b \in blockers : blockers' = (blockers \ {b}) \cup {[b EXCEPT !.slot = s]}
  BY DEF Align, Live
<1>2. [b EXCEPT !.slot = s].pair = b.pair /\ [b EXCEPT !.slot = s].id = b.id
  BY DEF TypeOK
<1> QED
  BY <1>1, <1>2

\* A step that writes at most the row of one pair, which is then not active or
\* names what is on the calendar, and creates a blocker at most for that pair.
LEMMA NamesFrame ==
  ASSUME TypeOK, ActiveNames, NEW p \in Pair,
         \A q \in Pair \ {p} : row'[q] = row[q],
         \A b \in blockers' : b.pair /= p =>
           \E c \in blockers : c.pair = b.pair /\ c.id = b.id,
         \/ row'[p].st /= "active"
         \/ \A b \in blockers' : b.pair = p => b.id = row'[p].id
  PROVE  ActiveNames'
<1> SUFFICES ASSUME NEW b \in blockers', b.pair /= p, row'[b.pair].st = "active"
             PROVE  b.id = row'[b.pair].id
  BY DEF ActiveNames
<1>1. PICK c \in blockers : c.pair = b.pair /\ c.id = b.id
  OBVIOUS
<1>2. b.pair \in Pair
  BY <1>1 DEF TypeOK
<1> QED
  BY <1>1, <1>2 DEF ActiveNames

\* A provider call and the write after it preserve the names.
LEMMA CallNames ==
  ASSUME TypeOK, Bookkeeping, AtMostOneBlocker, NamesInv, CallSteps
  PROVE  NamesInv'
<1> USE DEF world, store, memory, result, todo
<1>0. /\ op.do \in {"create", "created", "update", "updated"} =>
            op.p \in Pair /\ op.slot \in Slot
      /\ op.do \in {"delete", "deleted"} => op.p \in Pair
      /\ NoOp.do = "none"
  BY OpTyped DEF NoOp
<1>1. ASSUME op /= NoOp, UNCHANGED <<phase, todoB, todoT>>
      PROVE  ListedNames'
  BY <1>1 DEF NamesInv, ListedNames
<1>2. ASSUME NEW auth \in BOOLEAN, CallFails(auth) PROVE NamesInv'
  <2>1. /\ op' = NoOp /\ UNCHANGED row /\ op /= NoOp
        /\ op.do \in {"create", "update", "delete"} /\ op.p \in Pair
    BY <1>0, <1>2 DEF CallFails
  <2>2. ListedNames'
    <3>1. CASE UNCHANGED <<phase, todo>>
      BY <1>1, <2>1, <3>1
    <3>2. CASE EndResync(FALSE)
      BY <2>1, <3>2 DEF EndResync, Enter, ListedNames, ListingPhases
    <3> QED BY <1>2, <3>1, <3>2 DEF CallFails
  <2>3. CreatedNames'
    BY <1>0, <2>1 DEF CreatedNames
  <2>4. ActiveNames'
    <3>1. CASE UNCHANGED blockers \/ DeleteEffect(op.p, op.id)
      BY <2>1, <3>1 DEF NamesInv, ActiveNames, DeleteEffect
    <3>2. CASE op.do = "create" /\ \E i \in 0..nextId : CreateEffect(op.p, op.slot, i)
      <4>1. row'[op.p].st /= "active"
        BY <2>1, <3>2 DEF Bookkeeping, OpShape, Pending
      <4>2. \A b \in blockers' : b.pair /= op.p => b \in blockers
        BY <3>2, CreateTouches
      <4> QED BY <2>1, <4>1, <4>2, NamesFrame DEF NamesInv
    <3>3. CASE Align(op.p, op.slot, op.id)
      BY <2>1, <3>3, AlignKeepsIds DEF NamesInv, ActiveNames
    <3> QED BY <1>2, <3>1, <3>2, <3>3 DEF CallFails
  <2> QED BY <2>2, <2>3, <2>4 DEF NamesInv
<1>3. CASE Crash
  BY <1>0, <1>3 DEF Crash, NamesInv, ActiveNames, CreatedNames, ListedNames
<1>4. CASE DatabaseLost
  <2>1. /\ UNCHANGED <<blockers, phase, todoB, todoT, op>>
        /\ row' = [p \in Pair |-> NoRow] /\ NoRow.st /= "active"
    BY <1>4 DEF DatabaseLost, NoRow
  <2>2. ActiveNames'
    BY <2>1 DEF ActiveNames, TypeOK
  <2>3. CreatedNames' /\ ListedNames'
    BY <2>1 DEF NamesInv, CreatedNames, ListedNames
  <2> QED BY <2>2, <2>3 DEF NamesInv
<1>5. CASE CreateBlocker
  <2>1. PICK i \in 0..nextId : CreateEffect(op.p, op.slot, i) /\ Call("created", op.p, op.slot, i)
    BY <1>5 DEF CreateBlocker
  <2>2. /\ UNCHANGED <<row, phase, todoB, todoT>> /\ op.do = "create" /\ op.p \in Pair
        /\ op.slot \in Slot /\ op /= NoOp
    BY <1>0, <1>5 DEF CreateBlocker
  <2>3. CreatedNames'
    BY <2>1, <2>2, CreateReturns DEF CreatedNames, Call
  <2>4. ActiveNames'
    <3>1. row'[op.p].st /= "active"
      BY <2>2 DEF Bookkeeping, OpShape, Pending
    <3>2. \A b \in blockers' : b.pair /= op.p => b \in blockers
      BY <2>1, CreateTouches
    <3> QED BY <2>2, <3>1, <3>2, NamesFrame DEF NamesInv
  <2> QED BY <1>1, <2>2, <2>3, <2>4 DEF NamesInv
<1>6. CASE PutActive
  <2>1. /\ op.do = "created" /\ op.p \in Pair /\ UNCHANGED <<blockers, phase, todoB, todoT>>
        /\ op /= NoOp /\ op' = NoOp /\ PutMapping(op.p, Active(op.id, op.slot))
    BY <1>0, <1>6 DEF PutActive
  <2>2. /\ row'[op.p].id = op.id
        /\ \A q \in Pair \ {op.p} : row'[q] = row[q]
    BY <2>1 DEF PutMapping, TypeOK, Active
  <2>3. ActiveNames'
    BY <2>1, <2>2, NamesFrame DEF NamesInv, CreatedNames
  <2> QED BY <1>0, <1>1, <2>1, <2>3 DEF NamesInv, CreatedNames
<1>7. CASE UpdateBlocker
  <2>1. op.do = "update" /\ op.p \in Pair /\ op /= NoOp /\ UNCHANGED <<phase, todoB, todoT>>
    BY <1>0, <1>7 DEF UpdateBlocker
  <2>2. op'.do /= "created"
    BY <1>7 DEF UpdateBlocker, createFromMapping, Call
  <2>3. ActiveNames'
    <3>1. CASE createFromMapping(op.p, op.slot) /\ UNCHANGED blockers
      <4>1. /\ row'[op.p] = Pending(op.slot)
            /\ \A q \in Pair \ {op.p} : row'[q] = row[q]
        BY <2>1, <3>1 DEF createFromMapping, PutMapping, TypeOK
      <4>2. row'[op.p].st /= "active"
        BY <4>1 DEF Pending
      <4> QED BY <2>1, <3>1, <4>1, <4>2, NamesFrame DEF NamesInv
    <3>2. CASE Align(op.p, op.slot, op.id) /\ UNCHANGED row
      BY <3>2, AlignKeepsIds DEF NamesInv, ActiveNames
    <3>3. CASE UNCHANGED <<row, blockers>>
      BY <3>3 DEF NamesInv, ActiveNames
    <3> QED BY <1>7, <3>1, <3>2, <3>3 DEF UpdateBlocker
  <2> QED BY <1>1, <2>1, <2>2, <2>3 DEF NamesInv, CreatedNames
<1>8. CASE PutTimeHash
  <2>1. /\ op.do = "updated" /\ op.p \in Pair /\ UNCHANGED <<blockers, phase, todoB, todoT>>
        /\ op /= NoOp /\ op' = NoOp
        /\ PutMapping(op.p, [row[op.p] EXCEPT !.hash = op.slot])
    BY <1>0, <1>8 DEF PutTimeHash
  <2>2. /\ row'[op.p].id = row[op.p].id /\ row'[op.p].st = row[op.p].st
        /\ \A q \in Pair \ {op.p} : row'[q] = row[q]
    BY <2>1 DEF PutMapping, TypeOK
  <2>3. ActiveNames'
    BY <2>1, <2>2, NamesFrame DEF NamesInv, ActiveNames
  <2> QED BY <1>0, <1>1, <2>1, <2>3 DEF NamesInv, CreatedNames
<1>9. CASE DeleteBlocker
  <2>1. /\ op.do = "delete" /\ op /= NoOp /\ UNCHANGED <<row, phase, todoB, todoT>>
        /\ blockers' \subseteq blockers /\ op'.do = "deleted"
    BY <1>0, <1>9 DEF DeleteBlocker, DeleteEffect, Call
  <2> QED BY <1>1, <2>1 DEF NamesInv, ActiveNames, CreatedNames
<1>10. CASE DeleteMapping
  <2>1. /\ op.do = "deleted" /\ op.p \in Pair /\ UNCHANGED <<blockers, phase, todoB, todoT>>
        /\ op /= NoOp /\ op' = NoOp /\ PutMapping(op.p, NoRow)
    BY <1>0, <1>10 DEF DeleteMapping
  <2>2. /\ row'[op.p].st /= "active"
        /\ \A q \in Pair \ {op.p} : row'[q] = row[q]
    BY <2>1 DEF PutMapping, TypeOK, NoRow
  <2>3. ActiveNames'
    BY <2>1, <2>2, NamesFrame DEF NamesInv
  <2> QED BY <1>0, <1>1, <2>1, <2>3 DEF NamesInv, CreatedNames
<1> QED
  BY <1>2, <1>3, <1>4, <1>5, <1>6, <1>7, <1>8, <1>9, <1>10 DEF CallSteps

\* Taking the next element of a pass preserves the names: a row becomes active
\* only with the id of the blocker that was listed.
LEMMA LoopNames ==
  ASSUME TypeOK, Bookkeeping, NamesInv, LoopSteps
  PROVE  NamesInv'
<1> USE DEF world, store, memory, result, todo
<1>1. ASSUME NEW p \in Pair, NEW m, PutMapping(p, m), blockers' \subseteq blockers,
             m.st /= "active" \/ \A b \in blockers : b.pair = p => b.id = m.id
      PROVE  ActiveNames'
  <2>1. row'[p] = m /\ \A q \in Pair \ {p} : row'[q] = row[q]
    BY <1>1 DEF PutMapping, TypeOK
  <2> QED BY <1>1, <2>1, NamesFrame DEF NamesInv
<1>2. ASSUME UNCHANGED row, blockers' \subseteq blockers
      PROVE  ActiveNames'
  BY <1>2 DEF NamesInv, ActiveNames
<1>3. /\ NoRow.st /= "active"
      /\ \A s : Pending(s).st /= "active" /\ Suppressed(s).st /= "active"
  BY DEF NoRow, Pending, Suppressed
<1>4. ASSUME UNCHANGED op \/ op'.do \in {"create", "update", "delete"}, op = NoOp
      PROVE  CreatedNames'
  BY <1>4 DEF CreatedNames, NoOp
<1>5. ASSUME UNCHANGED <<phase, todoB, todoT>>, phase \notin {"rebuild", "adopt"}
      PROVE  ListedNames'
  BY <1>5 DEF NamesInv, ListedNames
<1>6. ASSUME NEW t \in Target, upsertBlockerOnTarget(t)
      PROVE  NamesInv'
  <2> DEFINE p == <<job.o, t>>
  <2>1. /\ p \in Pair /\ row[p] \in Row /\ op = NoOp
        /\ UNCHANGED <<blockers, phase, todoB, todoT>>
        /\ phase \in {"diff", "events", "clean"}
    BY <1>6, JobTyped DEF upsertBlockerOnTarget, NoJob, TypeOK, Bookkeeping, LoopShape
  <2>3. ActiveNames'
    <3>1. CASE row[p].st = "suppressed" /\ PutMapping(p, [row[p] EXCEPT !.hash = job.slot])
      <4>1. [row[p] EXCEPT !.hash = job.slot].st = "suppressed"
        BY <2>1, <3>1
      <4> QED BY <1>1, <2>1, <3>1, <4>1
    <3>2. CASE \/ PutMapping(p, Suppressed(job.slot)) \/ PutMapping(p, Pending(job.slot))
               \/ UNCHANGED row
      BY <1>1, <1>2, <1>3, <2>1, <3>2
    <3> QED BY <1>6, <3>1, <3>2 DEF upsertBlockerOnTarget
  <2>4. CreatedNames'
    BY <1>4, <1>6, <2>1 DEF upsertBlockerOnTarget, Call
  <2> QED BY <1>5, <2>1, <2>3, <2>4 DEF NamesInv
<1>7. ASSUME NEW t \in Target, deleteBlockersForOrigin(t)
      PROVE  NamesInv'
  <2>1. /\ <<job.o, t>> \in Pair /\ op = NoOp
        /\ UNCHANGED <<blockers, phase, todoB, todoT>>
        /\ phase \in {"diff", "events", "clean"}
    BY <1>7, JobTyped DEF deleteBlockersForOrigin, NoJob, Bookkeeping, LoopShape
  <2>2. ActiveNames'
    BY <1>1, <1>2, <1>3, <1>7, <2>1 DEF deleteBlockersForOrigin
  <2>3. CreatedNames'
    BY <1>4, <1>7, <2>1 DEF deleteBlockersForOrigin, Call
  <2> QED BY <1>5, <2>1, <2>2, <2>3 DEF NamesInv
<1>8. ASSUME NEW p \in Pair,
             \/ promoteSuppressed(p) \/ resolvePending(p)
             \/ restoreMissingBlockers(p) \/ reevaluateSuppressed(p)
      PROVE  NamesInv'
  <2>1. /\ op = NoOp /\ UNCHANGED <<blockers, phase, todoB, todoT>>
        /\ phase \notin {"rebuild", "adopt"}
        /\ \/ UNCHANGED row \/ PutMapping(p, NoRow)
           \/ PutMapping(p, Pending(cache[p[1]]))
        /\ UNCHANGED op \/ op'.do = "create"
    BY <1>8 DEF promoteSuppressed, resolvePending, restoreMissingBlockers,
                reevaluateSuppressed, createFromMapping, Ready, Call
  <2>2. ActiveNames'
    BY <1>1, <1>2, <1>3, <2>1
  <2>3. CreatedNames'
    BY <1>4, <2>1
  <2> QED BY <1>5, <2>1, <2>2, <2>3 DEF NamesInv
<1>9. ASSUME NEW b \in todoB, rebuildMappingsFromTags(b) \/ adoptOrphan(b)
      PROVE  NamesInv'
  <2>1. /\ op = NoOp /\ b.pair \in Pair /\ blockers' \subseteq blockers
        /\ UNCHANGED <<op, phase, todoT>> /\ todoB' \subseteq todoB
        /\ UNCHANGED row \/ PutMapping(b.pair, Active(b.id, Unknown))
    BY <1>9 DEF TypeOK, rebuildMappingsFromTags, adoptOrphan, Ready
  <2>2. \A c \in blockers : c.pair = b.pair => c.id = Active(b.id, Unknown).id
    BY DEF NamesInv, ListedNames, Active
  <2>3. ActiveNames'
    BY <1>1, <1>2, <2>1, <2>2
  <2>4. CreatedNames' /\ ListedNames'
    BY <1>4, <2>1 DEF NamesInv, ListedNames
  <2> QED BY <2>3, <2>4 DEF NamesInv
<1> QED
  BY <1>6, <1>7, <1>8, <1>9 DEF LoopSteps

-----------------------------------------------------------------------------
\* Something is known of the origin that justifies touching its blocker: it
\* changed since the cursor, the cache has another time for it, or none.
Outdated(o) == o \in dirty \/ cache[o] /= truth[o] \/ cache[o] = NoSlot

\* The cache holds nothing from beyond the window.
CacheBound == \A o \in Origin : cache[o] <= now + Horizon

\* What is left of the batch is what the calendar says, from a window that began
\* in the past.
BatchFresh ==
  Syncing => \A o \in Origin \ dirty : \/ batch[o] = NoChange
                                       \/ /\ batch[o] = truth[o]
                                          /\ batch[o] \in Slot => batch[o] <= since + Horizon

\* Only outdated origins are taken down, and an origin is distributed as it is
\* cached.
JobsJustified ==
  /\ \A o \in todoO : Outdated(o)
  /\ todoO /= {} => phase \in {"diff", "clean"}
  /\ job.how \in {"delete", "clear"} => Outdated(job.o)
  /\ job.how = "upsert" => cache[job.o] = job.slot

\* The call in progress belongs to the event being distributed or taken down.
CallsJustified ==
  /\ op.do = "delete" => job.how \in {"delete", "clear"} /\ op.p[1] = job.o
  /\ op.do = "update" => job.how = "upsert" /\ op.p[1] = job.o /\ op.slot = job.slot

\* The inductive invariant of the past guards.
PastInv == CacheBound /\ BatchFresh /\ JobsJustified

\* A step that leaves the calendar, the cache and the call of Changes alone
\* cannot disturb what justifies a job.
LEMMA PastFrame ==
  ASSUME PastInv, UNCHANGED <<truth, now, dirty, cache, phase, since, batch, todoO>>,
         job'.how = job.how, job'.o = job.o, job'.slot = job.slot
  PROVE  PastInv'
BY DEF PastInv, CacheBound, BatchFresh, JobsJustified, Outdated, Syncing

\* No job is left and the loop that begins, if any, takes down what is not
\* cached.
LEMMA PastRests ==
  ASSUME CacheBound', phase' \notin {"diff", "events"}, job' = NoJob,
         \A o \in todoO' : cache'[o] = NoSlot, todoO' /= {} => phase' = "clean"
  PROVE  PastInv'
BY DEF PastInv, BatchFresh, JobsJustified, Outdated, Syncing, NoJob

\* The loop of a phase that is not a call of Changes begins.
LEMMA EnterPast ==
  ASSUME PastInv, UNCHANGED <<now, cache>>,
         NEW ph \in Phases \ {"diff", "events"}, NEW ok, Enter(ph, ok), job' = NoJob
  PROVE  PastInv'
<1>1. CacheBound'
  BY DEF PastInv, CacheBound
<1>2. /\ \A o \in todoO' : cache'[o] = NoSlot
      /\ todoO' /= {} => phase' = "clean"
      /\ phase' \notin {"diff", "events"}
  BY DEF Enter, StaleOrigins
<1> QED
  BY <1>1, <1>2, PastRests

\* A user's edit makes the origin outdated; the clock changes no job.
LEMMA PastEnvironment ==
  ASSUME TypeOK, PastInv, (\E o \in Origin : UserEdits(o)) \/ WindowSlides
  PROVE  PastInv'
<1> USE DEF store, memory, result, todo
<1>1. ASSUME NEW o \in Origin, UserEdits(o) PROVE PastInv'
  <2>1. /\ UNCHANGED <<now, cache, phase, since, batch, todoO, job>>
        /\ dirty' = dirty \cup {o}
        /\ \A x : x /= o => truth'[x] = truth[x] \/ x \notin Origin
    BY <1>1, CursorTypes DEF UserEdits
  <2>2. CacheBound'
    BY <2>1 DEF PastInv, CacheBound
  <2>3. BatchFresh'
    BY <2>1 DEF PastInv, BatchFresh, Syncing
  <2>4. \A x \in Origin : Outdated(x) => Outdated(x)'
    BY <2>1 DEF Outdated
  <2>5. JobsJustified'
    <3>1. job.how \in {"delete", "clear"} => job.o \in Origin
      BY JobTyped DEF NoJob
    <3> QED BY <2>1, <2>4, <3>1, CursorTypes DEF PastInv, JobsJustified
  <2> QED BY <2>2, <2>3, <2>5 DEF PastInv
<1>2. CASE WindowSlides
  <2>1. /\ UNCHANGED <<truth, dirty, cache, phase, since, batch, todoO, job>>
        /\ now' = now + 1
    BY <1>2 DEF WindowSlides
  <2>2. CacheBound'
    <3> SUFFICES ASSUME NEW o \in Origin PROVE cache[o] <= now + 1 + Horizon
      BY <2>1 DEF CacheBound
    <3>1. cache[o] \in Int /\ cache[o] <= now + Horizon /\ now \in Nat /\ Horizon \in Nat
      BY CursorTypes DEF PastInv, CacheBound
    <3> QED BY <3>1
  <2>3. BatchFresh' /\ JobsJustified'
    BY <2>1 DEF PastInv, BatchFresh, JobsJustified, Outdated, Syncing
  <2> QED BY <2>2, <2>3 DEF PastInv
<1> QED
  BY <1>1, <1>2

\* Changes is called: what vanished is outdated, because the cache holds nothing
\* from beyond the window.
LEMMA PastChanges ==
  ASSUME TypeOK, Bookkeeping, PastInv, SyncCalendar \/ FullResync
  PROVE  PastInv'
<1> USE DEF world, store, memory, result, todo
<1>1. /\ UNCHANGED <<truth, now, cursor, deltaFrom, dirty, cache, job>>
      /\ job = NoJob
  BY DEF FullResync, SyncCalendar, LoopDone, Ready, Bookkeeping, LoopShape
<1>2. CacheBound'
  BY <1>1 DEF PastInv, CacheBound
<1>3. CASE FullResync
  <2>1. phase' = "diff" /\ batch' = Listing /\ since' = now /\ todoO' = Vanished
    BY <1>3 DEF FullResync
  <2>2. BatchFresh'
    BY <1>1, <2>1 DEF BatchFresh, Listing, InWindow, InWindowOf
  <2>3. ASSUME NEW o \in Vanished PROVE Outdated(o)
    <3>1. /\ o \in Origin /\ o \notin alive /\ cache[o] \in Slot /\ ~EndsBeforeWindow(cache[o])
          /\ cache[o] <= now + Horizon
      BY <2>3, CursorTypes DEF Vanished, PastInv, CacheBound
    <3>2. InWindow(cache[o])
      <4>1. cache[o] \in Nat /\ now \in Nat
        BY <3>1, CursorTypes
      <4> QED BY <3>1, <4>1 DEF EndsBeforeWindow, InWindow, InWindowOf
    <3> QED BY <3>1, <3>2 DEF Outdated, alive
  <2>4. JobsJustified'
    BY <1>1, <2>1, <2>3 DEF JobsJustified, Outdated, NoJob
  <2> QED BY <1>2, <2>2, <2>4 DEF PastInv
<1>4. CASE SyncCalendar
  <2>1. /\ phase = "idle" /\ phase' = "events" /\ todoO' = todoO
        /\ \/ batch' = Listing /\ since' = now
           \/ batch' = Delta
    BY <1>4 DEF SyncCalendar
  <2>2. BatchFresh'
    <3>1. CASE batch' = Listing /\ since' = now
      BY <1>1, <2>1, <3>1 DEF BatchFresh, Listing, InWindow, InWindowOf
    <3>2. CASE batch' = Delta
      BY <1>1, <2>1, <3>2 DEF BatchFresh, Delta
    <3> QED BY <2>1, <3>1, <3>2
  <2>3. JobsJustified'
    BY <1>1, <2>1 DEF PastInv, JobsJustified, Outdated, NoJob
  <2> QED BY <1>2, <2>2, <2>3 DEF PastInv
<1> QED
  BY <1>3, <1>4

\* An event is taken from the batch or from a loop: only an outdated one is taken
\* down.
LEMMA PastProcess ==
  ASSUME TypeOK, CursorInv, PastInv,
         \/ \E o \in Origin : \/ DropVanished(o) \/ processEvent(o)
                              \/ cleanStaleMappings(o)
         \/ DiffDone \/ FinishEvent
  PROVE  PastInv'
<1> USE DEF world, store, memory, result, todo
<1>1. ASSUME NEW o \in Origin, DropVanished(o) \/ cleanStaleMappings(o) PROVE PastInv'
  <2>1. /\ UNCHANGED <<truth, now, dirty, cache, phase, since, batch>>
        /\ todoO' = todoO \ {o} /\ o \in todoO /\ job'.o = o
        /\ job'.how \in {"delete", "clear"}
    BY <1>1 DEF DropVanished, cleanStaleMappings, Drop
  <2> QED BY <2>1 DEF PastInv, CacheBound, BatchFresh, JobsJustified, Outdated, Syncing
<1>2. ASSUME NEW o \in Origin, processEvent(o) PROVE PastInv'
  <2> DEFINE v == batch[o]
  <2>1. /\ UNCHANGED <<truth, now, dirty, phase, since, todoO>> /\ phase = "events"
        /\ batch' = [batch EXCEPT ![o] = NoChange] /\ v /= NoChange
        /\ todoO = {}
    BY <1>2 DEF processEvent, PastInv, JobsJustified
  <2>2. BatchFresh'
    BY <2>1, CursorTypes DEF PastInv, BatchFresh, Syncing
  <2>3. o \in dirty \/ (v = truth[o] /\ (v \in Slot => v <= since + Horizon))
    BY <2>1 DEF PastInv, BatchFresh, Syncing
  <2>4. v \in Slot \cup {Gone, Free} /\ (v \in Slot => v \notin {Gone, Free} /\ v \in Nat)
    BY <2>1, CursorTypes
  <2>5. CASE v \in Slot /\ InWindow(v)
    <3>1. /\ cache' = [cache EXCEPT ![o] = v]
          /\ job'.how = "upsert" /\ job'.o = o /\ job'.slot = v
      BY <1>2, <2>4, <2>5 DEF processEvent
    <3>2. cache'[o] = v /\ \A x \in Origin \ {o} : cache'[x] = cache[x]
      BY <3>1, CursorTypes
    <3>3. CacheBound'
      BY <2>1, <2>5, <3>2 DEF PastInv, CacheBound, InWindow, InWindowOf
    <3>4. JobsJustified'
      BY <2>1, <3>1, <3>2 DEF JobsJustified
    <3> QED BY <2>2, <3>3, <3>4 DEF PastInv
  <2>6. CASE v \in {Gone, Free}
    <3>1. UNCHANGED cache /\ (job' = NoJob \/ (job'.how = "delete" /\ job'.o = o))
      BY <1>2, <2>4, <2>6 DEF processEvent, Drop
    <3>2. Outdated(o)
      BY <2>3, <2>6, CursorTypes DEF Outdated
    <3> QED BY <2>1, <2>2, <3>1, <3>2
            DEF PastInv, CacheBound, JobsJustified, Outdated, NoJob
  <2>7. CASE v \in Slot /\ ~InWindow(v)
    <3>1. /\ UNCHANGED cache
          /\ \/ job' = NoJob
             \/ /\ job'.how = "clear" /\ job'.o = o
                /\ ~EndsBeforeWindow(v) \/ cache[o] = NoSlot \/ ~EndsBeforeWindow(cache[o])
      BY <1>2, <2>4, <2>7 DEF processEvent, Drop
    <3>2. o \in dirty \/ (v = truth[o] /\ EndsBeforeWindow(v))
      <4> SUFFICES ASSUME o \notin dirty PROVE v <= now
        BY <2>3 DEF EndsBeforeWindow
      <4>1. /\ v \in Nat /\ now \in Nat /\ since \in Nat /\ Horizon \in Nat
            /\ v <= since + Horizon /\ since <= now
        BY <2>3, <2>4, <2>7, CursorTypes DEF CursorInv, Clocks
      <4>2. v <= now + Horizon
        <5> HIDE DEF v
        <5> QED BY <4>1
      <4> QED BY <2>7, <4>1, <4>2 DEF InWindow, InWindowOf
    <3>3. job' = NoJob \/ Outdated(o)
      BY <3>1, <3>2 DEF Outdated
    <3> QED BY <2>1, <2>2, <3>1, <3>3
            DEF PastInv, CacheBound, JobsJustified, Outdated, NoJob
  <2> QED BY <2>4, <2>5, <2>6, <2>7
<1>3. CASE DiffDone
  BY <1>3 DEF DiffDone, LoopDone, Ready, PastInv, CacheBound, BatchFresh, JobsJustified,
              Outdated, Syncing, NoJob
<1>4. CASE FinishEvent
  <2>1. /\ UNCHANGED <<truth, now, dirty, phase, since, batch, todoO>>
        /\ job /= NoJob /\ job' = NoJob
        /\ UNCHANGED cache \/ cache' = [cache EXCEPT ![job.o] = NoSlot]
    BY <1>4 DEF FinishEvent
  <2>2. job.o \in Origin
    BY <2>1, JobTyped
  <2>3. \A o \in Origin : cache'[o] = cache[o] \/ cache'[o] = NoSlot
    BY <2>1, <2>2, CursorTypes
  <2>4. CacheBound'
    <3> SUFFICES ASSUME NEW o \in Origin PROVE cache'[o] <= now + Horizon
      BY <2>1 DEF CacheBound
    <3>1. 0 <= now + Horizon
      BY CursorTypes
    <3> QED BY <2>3, <3>1 DEF PastInv, CacheBound
  <2>5. BatchFresh'
    BY <2>1 DEF PastInv, BatchFresh, Syncing
  <2>6. JobsJustified'
    BY <2>1, <2>3, CursorTypes DEF PastInv, JobsJustified, Outdated, NoJob
  <2> QED BY <2>4, <2>5, <2>6 DEF PastInv
<1> QED
  BY <1>1, <1>2, <1>3, <1>4

\* A pass ends, or is abandoned.
LEMMA PastStored ==
  ASSUME TypeOK, Bookkeeping, PastInv,
         \/ SetCursor \/ PhaseDone \/ Reconcile \/ ChangesFails \/ Crash
         \/ DatabaseLost \/ CursorExpires
         \/ \E p \in Pair : TwinVanishes(p)
         \/ \E auth \in BOOLEAN : CallFails(auth)
  PROVE  PastInv'
<1> USE DEF world, store, memory, result, todo
<1>0. phase = "idle" => todoO = {} /\ job = NoJob
  BY DEF PastInv, JobsJustified, Bookkeeping, LoopShape
<1>1. CASE SetCursor
  <2>1. UNCHANGED <<now, cache>> /\ job' = NoJob /\ \E ok : Enter("clean", ok) \/ Enter("idle", ok)
    BY <1>1 DEF SetCursor, EndResync, LoopDone, Ready
  <2> QED BY <2>1, EnterPast DEF Phases
<1>2. CASE PhaseDone
  <2>1. NextPhase[phase] \in Phases \ {"diff", "events"}
    BY <1>2 DEF PhaseDone, NextPhase, Phases
  <2>2. UNCHANGED <<now, cache>> /\ job' = NoJob /\ Enter(NextPhase[phase], TRUE)
    BY <1>2 DEF PhaseDone, LoopDone, Ready
  <2> QED BY <2>1, <2>2, EnterPast
<1>3. CASE Reconcile
  <2>1. UNCHANGED <<now, cache>> /\ job' = NoJob /\ Enter("rebuild", TRUE)
    BY <1>0, <1>3 DEF Reconcile
  <2> QED BY <2>1, EnterPast DEF Phases
<1>4. CASE ChangesFails
  <2>1. UNCHANGED <<now, cache>> /\ job' = NoJob /\ Enter("clean", FALSE)
    BY <1>4 DEF ChangesFails, LoopDone, Ready
  <2> QED BY <2>1, EnterPast DEF Phases
<1>5. CASE Crash
  <2>1. UNCHANGED <<now, cache>> /\ job' = NoJob /\ phase' = "idle" /\ todoO' = {}
    BY <1>5 DEF Crash
  <2> QED BY <2>1, PastRests DEF PastInv, CacheBound
<1>6. CASE DatabaseLost
  <2>1. /\ now' = now /\ job' = NoJob /\ phase' = "idle" /\ todoO' = {}
        /\ cache' = [o \in Origin |-> NoSlot]
    BY <1>0, <1>6 DEF DatabaseLost
  <2>2. CacheBound'
    BY <2>1, CursorTypes DEF CacheBound
  <2> QED BY <2>1, <2>2, PastRests
<1>7. CASE CursorExpires
  BY <1>7, PastFrame DEF CursorExpires
<1>8. ASSUME NEW p \in Pair, TwinVanishes(p) PROVE PastInv'
  <2>1. UNCHANGED <<now, cache>> /\ job' = NoJob /\ phase' = "promote" /\ todoO' = {}
    BY <1>0, <1>8 DEF TwinVanishes
  <2> QED BY <2>1, PastRests DEF PastInv, CacheBound
<1>9. ASSUME NEW auth \in BOOLEAN, CallFails(auth) PROVE PastInv'
  <2>1. UNCHANGED <<truth, now, dirty, cache>>
    BY <1>9 DEF CallFails
  <2>2. CASE job' = NoJob /\ EndResync(FALSE)
    <3>1. Enter("clean", FALSE) \/ Enter("idle", FALSE)
      BY <2>2 DEF EndResync
    <3> QED BY <2>1, <2>2, <3>1, EnterPast DEF Phases
  <2>3. CASE /\ job' = IF job /= NoJob /\ auth THEN [job EXCEPT !.failed = TRUE] ELSE NoJob
             /\ UNCHANGED <<phase, todo, memory>>
    <3>1. CASE job' = NoJob
      BY <2>1, <2>3, <3>1
         DEF PastInv, CacheBound, BatchFresh, JobsJustified, Outdated, Syncing, NoJob
    <3>2. CASE job /= NoJob /\ job' = [job EXCEPT !.failed = TRUE]
      <4>1. job'.how = job.how /\ job'.o = job.o /\ job'.slot = job.slot
        BY <3>2, JobTyped DEF Job
      <4> QED BY <2>1, <2>3, <4>1, PastFrame
    <3> QED BY <2>3, <3>1, <3>2
  <2> QED BY <1>9, <2>2, <2>3 DEF CallFails
<1> QED
  BY <1>1, <1>2, <1>3, <1>4, <1>5, <1>6, <1>7, <1>8, <1>9

\* Every step keeps the jobs justified.
LEMMA NextPast ==
  ASSUME TypeOK, Bookkeeping, CursorInv, PastInv, [Next]_vars
  PROVE  PastInv'
<1>1. ASSUME /\ UNCHANGED <<truth, now, cursor, deltaFrom, dirty, cache>>
             /\ UNCHANGED <<phase, since, later, batch, todoO>>
             /\ UNCHANGED job \/ \E t \in Target : job' = [job EXCEPT !.left = @ \ {t}]
      PROVE  PastInv'
  <2>1. job'.how = job.how /\ job'.o = job.o /\ job'.slot = job.slot
    BY <1>1, JobTyped DEF Job, NoJob
  <2> QED BY <1>1, <2>1, PastFrame
<1> QED
  BY <1>1, CursorElsewhere, PastEnvironment, PastChanges, PastProcess, PastStored
  DEF Next, Environment, Failure, Continue

\* Every step keeps the calls justified: only the distribution of an event
\* updates a blocker, and only taking one down deletes it.
LEMMA NextCalls ==
  ASSUME TypeOK, Bookkeeping, CallsJustified, [Next]_vars
  PROVE  CallsJustified'
<1> USE DEF world, store, memory, result, todo
<1>1. ASSUME op'.do \notin {"update", "delete"} PROVE CallsJustified'
  BY <1>1 DEF CallsJustified
<1>2. ASSUME UNCHANGED <<op, job>> PROVE CallsJustified'
  BY <1>2 DEF CallsJustified
<1>3. NoOp.do = "none"
  BY DEF NoOp
<1>4. CASE QuietSteps
  <2>1. UNCHANGED op
    BY <1>4, QuietFrame
  <2>2. op = NoOp \/ UNCHANGED job
    <3>1. ASSUME NEW o \in Origin, UserEdits(o) PROVE UNCHANGED job
      BY <3>1 DEF UserEdits
    <3>2. ASSUME NEW o \in Origin, DropVanished(o) \/ processEvent(o) \/ cleanStaleMappings(o)
          PROVE  op = NoOp
      BY <3>2 DEF DropVanished, processEvent, cleanStaleMappings, Ready
    <3>3. ASSUME NEW b \in blockers, UserRemovesBlocker(b) PROVE UNCHANGED job
      BY <3>3 DEF UserRemovesBlocker
    <3>4. ASSUME NEW p \in Pair, TwinVanishes(p) \/ \E s \in Slot : TwinAppears(p, s)
          PROVE  UNCHANGED job
      BY <3>4 DEF TwinVanishes, TwinAppears
    <3>5. ASSUME NEW t \in Target, ListingFails(t) \/ ListAccount(t) PROVE UNCHANGED job
      BY <3>5 DEF ListingFails, ListAccount
    <3>6. ASSUME NEW b \in todoB, OrphanRemains(b) PROVE UNCHANGED job
      BY <3>6 DEF OrphanRemains
    <3>7. ASSUME \/ WindowSlides \/ ChangesFails \/ CursorExpires \/ SyncCalendar
                 \/ Reconcile \/ FullResync \/ DiffDone \/ SetCursor \/ PhaseDone
                 \/ UNCHANGED vars
          PROVE  UNCHANGED job
      BY <3>7 DEF WindowSlides, ChangesFails, CursorExpires, SyncCalendar, Reconcile,
                  FullResync, DiffDone, SetCursor, PhaseDone, vars
    <3>8. CASE FinishEvent
      BY <3>8 DEF FinishEvent
    <3> QED BY <1>4, <3>1, <3>2, <3>3, <3>4, <3>5, <3>6, <3>7, <3>8 DEF QuietSteps
  <2> QED BY <1>1, <1>2, <1>3, <2>1, <2>2
<1>5. CASE CallSteps
  <2>1. ASSUME NEW auth \in BOOLEAN, CallFails(auth) PROVE op' = NoOp
    BY <2>1 DEF CallFails
  <2>2. CASE Crash \/ PutActive \/ PutTimeHash \/ DeleteMapping
    BY <1>1, <1>3, <2>2 DEF Crash, PutActive, PutTimeHash, DeleteMapping
  <2>3. CASE DatabaseLost
    BY <1>2, <2>3 DEF DatabaseLost
  <2>4. CASE CreateBlocker \/ UpdateBlocker \/ DeleteBlocker
    <3>1. op'.do \notin {"update", "delete"}
      BY <2>4 DEF CreateBlocker, UpdateBlocker, DeleteBlocker, createFromMapping, Call
    <3> QED BY <1>1, <3>1
  <2> QED BY <1>1, <1>3, <1>5, <2>1, <2>2, <2>3, <2>4 DEF CallSteps
<1>6. CASE LoopSteps
  <2>1. ASSUME NEW t \in Target, upsertBlockerOnTarget(t) PROVE CallsJustified'
    <3>1. /\ job'.how = "upsert" /\ job'.o = job.o /\ job'.slot = job.slot
      <4>1. job /= NoJob /\ job.how = "upsert" /\ job' = [job EXCEPT !.left = @ \ {t}]
        BY <2>1 DEF upsertBlockerOnTarget, NoJob
      <4> QED BY <4>1, JobTyped DEF Job
    <3>2. CASE UNCHANGED op
      BY <1>1, <1>3, <2>1, <3>2 DEF upsertBlockerOnTarget
    <3>3. CASE Call("create", <<job.o, t>>, job.slot, NoId)
      BY <3>3 DEF Call, CallsJustified
    <3>4. CASE Call("update", <<job.o, t>>, job.slot, row[<<job.o, t>>].id)
      BY <3>1, <3>4 DEF Call, CallsJustified
    <3> QED BY <2>1, <3>2, <3>3, <3>4 DEF upsertBlockerOnTarget
  <2>2. ASSUME NEW t \in Target, deleteBlockersForOrigin(t) PROVE CallsJustified'
    <3>1. /\ job'.how \in {"delete", "clear"} /\ job'.o = job.o
      <4>1. /\ job /= NoJob /\ job.how \in {"delete", "clear"}
            /\ job' = [job EXCEPT !.left = @ \ {t}]
        BY <2>2 DEF deleteBlockersForOrigin, NoJob
      <4> QED BY <4>1, JobTyped DEF Job
    <3>2. CASE UNCHANGED op
      BY <1>1, <1>3, <2>2, <3>2 DEF deleteBlockersForOrigin
    <3>3. CASE Call("delete", <<job.o, t>>, NoSlot, row[<<job.o, t>>].id)
      BY <3>1, <3>3 DEF Call, CallsJustified
    <3> QED BY <2>2, <3>2, <3>3 DEF deleteBlockersForOrigin
  <2>3. ASSUME NEW p \in Pair,
               \/ promoteSuppressed(p) \/ resolvePending(p)
               \/ restoreMissingBlockers(p) \/ reevaluateSuppressed(p)
        PROVE  CallsJustified'
    <3>1. op = NoOp /\ (UNCHANGED op \/ op'.do = "create")
      BY <2>3 DEF promoteSuppressed, resolvePending, restoreMissingBlockers,
                  reevaluateSuppressed, createFromMapping, Ready, Call
    <3> QED BY <1>1, <1>3, <3>1
  <2>4. ASSUME NEW b \in todoB, rebuildMappingsFromTags(b) \/ adoptOrphan(b)
        PROVE  CallsJustified'
    BY <1>2, <2>4 DEF rebuildMappingsFromTags, adoptOrphan
  <2> QED BY <1>6, <2>1, <2>2, <2>3, <2>4 DEF LoopSteps
<1> QED
  BY <1>4, <1>5, <1>6, NextSteps

\* Aligning the only blocker of a pair to the slot it has changes nothing.
LEMMA AlignedStays ==
  ASSUME TypeOK, AtMostOneBlocker, NEW b \in blockers, NEW p, NEW i, NEW s, Align(p, s, i),
         b.pair = p => b.slot = s
  PROVE  b \in blockers'
<1>1. PICK c \in blockers : /\ c.pair = p
                            /\ blockers' = (blockers \ {c}) \cup {[c EXCEPT !.slot = s]}
  BY DEF Align, Live
<1>2. CASE b = c
  BY <1>1, <1>2 DEF TypeOK
<1>3. CASE b /= c
  BY <1>1, <1>3
<1> QED
  BY <1>2, <1>3

\* What must keep its blocker.
Past(b) == /\ EndsBeforeWindow(b.slot)
           /\ truth[b.pair[1]] = b.slot /\ cache[b.pair[1]] = b.slot
           /\ b.pair[1] \notin dirty
           /\ row[b.pair].st = "active"

\* No step but a user's takes a blocker of the past away or moves it.
LEMMA PastStays ==
  ASSUME TypeOK, AtMostOneBlocker, Bookkeeping, NamesInv, PastInv, CallsJustified,
         [Next]_vars, NEW b \in blockers, Past(b), edits' = edits
  PROVE  b \in blockers'
<1> USE DEF world, store, memory, result, todo
<1>1. /\ b.pair \in Pair /\ b.slot \in Slot /\ b.slot /= NoSlot /\ b.pair[1] \in Origin
      /\ ~Outdated(b.pair[1])
  <2>1. b.pair \in Pair /\ b.slot \in Slot
    BY DEF TypeOK
  <2> QED BY <2>1, CursorTypes DEF Past, Outdated
<1>2. /\ op.do \in {"create", "created", "update", "updated"} => op.p \in Pair /\ op.slot \in Slot
      /\ op.do \in {"delete", "deleted"} => op.p \in Pair
  BY OpTyped
<1>3. ASSUME op.do = "create", NEW i, CreateEffect(op.p, op.slot, i)
      PROVE  b \in blockers'
  <2>1. b.pair /= op.p
    BY <1>2, <1>3 DEF Past, Bookkeeping, OpShape, Pending
  <2>2. CASE Align(op.p, op.slot, i)
    BY <2>1, <2>2, AlignedStays
  <2>3. CASE Insert(op.p, op.slot, i)
    BY <2>3 DEF Insert
  <2> QED BY <1>3, <2>2, <2>3 DEF CreateEffect
<1>4. ASSUME op.do = "update", Align(op.p, op.slot, op.id)
      PROVE  b \in blockers'
  <2>1. b.pair = op.p => b.slot = op.slot
    BY <1>4 DEF Past, CallsJustified, PastInv, JobsJustified
  <2> QED BY <1>4, <2>1, AlignedStays
<1>5. ASSUME op.do = "delete", DeleteEffect(op.p, op.id)
      PROVE  b \in blockers'
  <2>1. b.pair /= op.p
    BY <1>1, <1>5 DEF CallsJustified, PastInv, JobsJustified
  <2> QED BY <1>5, <2>1 DEF DeleteEffect
<1>6. ASSUME NEW auth \in BOOLEAN, CallFails(auth)
      PROVE  b \in blockers'
  BY <1>3, <1>4, <1>5, <1>6 DEF CallFails
<1>7. CASE CreateBlocker
  BY <1>3, <1>7 DEF CreateBlocker
<1>8. CASE UpdateBlocker
  BY <1>4, <1>8 DEF UpdateBlocker
<1>9. CASE DeleteBlocker
  BY <1>5, <1>9 DEF DeleteBlocker
<1>10. ASSUME NEW c \in todoB, adoptOrphan(c)
       PROVE  b \in blockers'
  <2>1. \/ UNCHANGED blockers
        \/ ~IsBlocker(c) /\ blockers' = {d \in blockers : ~(d.pair = c.pair /\ d.id = c.id)}
    BY <1>10 DEF adoptOrphan
  <2>2. b.pair = c.pair /\ b.id = c.id => IsBlocker(c)
    BY DEF Past, NamesInv, ActiveNames, IsBlocker
  <2> QED BY <2>1, <2>2
<1>11. ASSUME NEW c \in blockers, UserRemovesBlocker(c)
       PROVE  FALSE
  <2>1. edits' = edits + 1 /\ edits \in Nat
    BY <1>11, ConstantsAssumption DEF UserRemovesBlocker, TypeOK
  <2> QED BY <2>1
<1> QED
  BY <1>6, <1>7, <1>8, <1>9, <1>10, <1>11, RemoteElsewhere
  DEF Next, Environment, Failure, Continue

\* The first start has nothing to justify.
LEMMA InitPast ==
  Init => NamesInv /\ PastInv /\ CallsJustified
<1> SUFFICES ASSUME Init PROVE NamesInv /\ PastInv /\ CallsJustified
  OBVIOUS
<1>1. CacheBound
  BY ConstantsAssumption DEF Init, CacheBound
<1> QED
  BY <1>1
  DEF Init, NamesInv, ActiveNames, CreatedNames, ListedNames, PastInv, BatchFresh,
      JobsJustified, CallsJustified, Syncing, NoJob, NoOp

\* The inductive invariant of the ids holds in every run.
LEMMA NamesKept == Spec => []NamesInv
<1>1. ASSUME TypeOK, AtMostOneBlocker, Bookkeeping, NamesInv, [Next]_vars
      PROVE  NamesInv'
  BY <1>1, NextSteps, QuietNames, CallNames, LoopNames
<1> QED
  BY <1>1, InitPast, TypeCorrect, UniqueBlocker, Bookkept, PTL DEF Spec

\* The engine holds the id i for a pair: a listing in its memory, the row, or
\* the provider call in progress (an update or a deletion goes to this id, a
\* creation has just returned it).
Holds(p, i) ==
  \/ \E b \in todoB : b.pair = p /\ b.id = i
  \/ row[p].id = i
  \/ op.do \in {"created", "update", "updated", "delete", "deleted"} /\ op.p = p /\ op.id = i

\* It starts with none, and an id it comes to hold for a pair is the id of a
\* blocker of this pair that is on the calendar at that moment.
IdsFromTheCalendar ==
  /\ \A p \in Pair, i \in Nat : ~Holds(p, i)
  /\ [][\A p \in Pair, i \in Nat : Holds(p, i)' => Holds(p, i) \/ Exists(p, i)']_vars

\* What a quiet step adds to a listing is on the calendar.
LEMMA QuietHolds ==
  ASSUME TypeOK, QuietSteps, NEW p \in Pair, NEW i \in Nat, Holds(p, i)'
  PROVE  Holds(p, i) \/ Exists(p, i)'
<1> USE DEF world, store, memory, result, todo
<1>1. UNCHANGED <<row, op>>
  BY QuietFrame
<1>2. ASSUME todoB' \subseteq todoB \cup blockers'
      PROVE  Holds(p, i) \/ Exists(p, i)'
  BY <1>1, <1>2 DEF Holds, Exists, Live
<1>3. ASSUME NEW o \in Origin, \/ UserEdits(o) \/ DropVanished(o) \/ processEvent(o)
                               \/ cleanStaleMappings(o)
      PROVE  todoB' = todoB
  BY <1>3 DEF UserEdits, DropVanished, processEvent, cleanStaleMappings
<1>4. ASSUME NEW b \in blockers, UserRemovesBlocker(b)
      PROVE  todoB' = todoB
  BY <1>4 DEF UserRemovesBlocker
<1>5. ASSUME NEW q \in Pair, TwinVanishes(q) \/ \E s \in Slot : TwinAppears(q, s)
      PROVE  todoB' = todoB
  BY <1>5 DEF TwinVanishes, TwinAppears
<1>6. ASSUME NEW t \in Target, ListingFails(t) \/ ListAccount(t)
      PROVE  todoB' \subseteq todoB \cup blockers'
  BY <1>6 DEF ListingFails, ListAccount, ListBlockers
<1>7. ASSUME NEW b \in todoB, OrphanRemains(b)
      PROVE  todoB' \subseteq todoB
  BY <1>7 DEF OrphanRemains
<1>8. ASSUME ChangesFails \/ SetCursor \/ PhaseDone \/ Reconcile
      PROVE  todoB' = {}
  BY <1>8 DEF ChangesFails, SetCursor, EndResync, PhaseDone, Reconcile, Enter
<1>9. ASSUME \/ WindowSlides \/ CursorExpires \/ SyncCalendar \/ FullResync \/ DiffDone
             \/ FinishEvent \/ UNCHANGED vars
      PROVE  todoB' = todoB
  BY <1>9 DEF WindowSlides, CursorExpires, SyncCalendar, FullResync, DiffDone, FinishEvent,
     vars
<1> QED
  BY <1>2, <1>3, <1>4, <1>5, <1>6, <1>7, <1>8, <1>9 DEF QuietSteps

\* A call keeps the id it was issued with, a creation returns the id of the
\* blocker it found or made, and the write after a creation stores that id.
LEMMA CallHolds ==
  ASSUME TypeOK, CallSteps, NEW p \in Pair, NEW i \in Nat, Holds(p, i)'
  PROVE  Holds(p, i) \/ Exists(p, i)'
<1> USE DEF world, store, memory, result, todo
<1>0. /\ op.do \in {"create", "created", "update", "updated"} =>
            op.p \in Pair /\ op.slot \in Slot
      /\ op.do \in {"delete", "deleted"} => op.p \in Pair
      /\ NoOp.do = "none" /\ NoRow.id = NoId
  BY OpTyped DEF NoOp, NoRow
<1>1. ASSUME todoB' \subseteq todoB, UNCHANGED row, op'.do = "none"
      PROVE  Holds(p, i)
  BY <1>1 DEF Holds
<1>2. ASSUME NEW q \in Pair, NEW m, PutMapping(q, m), UNCHANGED todoB,
             op' = NoOp \/ op'.do = "create",
             m.id = NoId \/ m.id = row[q].id \/ (op.do = "created" /\ op.p = q /\ op.id = m.id)
      PROVE  Holds(p, i)
  <2>1. row'[q] = m /\ \A r \in Pair \ {q} : row'[r] = row[r]
    BY <1>2 DEF PutMapping, TypeOK
  <2>2. row'[p].id = i \/ \E b \in todoB : b.pair = p /\ b.id = i
    BY <1>0, <1>2 DEF Holds
  <2> QED BY <1>2, <2>1, <2>2 DEF Holds
<1>3. ASSUME NEW auth \in BOOLEAN, CallFails(auth) PROVE Holds(p, i)
  <2>1. op' = NoOp /\ UNCHANGED row
    BY <1>3 DEF CallFails
  <2>2. todoB' \subseteq todoB
    <3>1. CASE EndResync(FALSE)
      BY <3>1 DEF EndResync, Enter
    <3>2. CASE UNCHANGED todo
      BY <3>2
    <3> QED BY <1>3, <3>1, <3>2 DEF CallFails
  <2> QED BY <1>0, <1>1, <2>1, <2>2
<1>4. CASE Crash
  BY <1>0, <1>1, <1>4 DEF Crash
<1>5. CASE DatabaseLost
  <2>1. /\ UNCHANGED <<todoB, op>> /\ row'[p] = NoRow
    BY <1>5 DEF DatabaseLost
  <2> QED BY <1>0, <2>1 DEF Holds
<1>6. CASE CreateBlocker
  <2>1. PICK j \in 0..nextId : CreateEffect(op.p, op.slot, j) /\ Call("created", op.p, op.slot, j)
    BY <1>6 DEF CreateBlocker
  <2>2. UNCHANGED <<row, todoB>> /\ op.do = "create"
    BY <1>6 DEF CreateBlocker
  <2>3. \E b \in blockers' : b.pair = op.p /\ b.id = j
    <3>1. CASE Align(op.p, op.slot, j)
      <4>1. PICK b \in blockers :
               /\ b.pair = op.p /\ b.id = j
               /\ blockers' = (blockers \ {b}) \cup {[b EXCEPT !.slot = op.slot]}
        BY <3>1 DEF Align, Live
      <4>2. [b EXCEPT !.slot = op.slot].pair = op.p /\ [b EXCEPT !.slot = op.slot].id = j
        BY <4>1 DEF TypeOK
      <4> QED BY <4>1, <4>2
    <3>2. CASE Insert(op.p, op.slot, j)
      <4> DEFINE b == [pair |-> op.p, id |-> j, slot |-> op.slot]
      <4>1. b \in blockers' /\ b.pair = op.p /\ b.id = j
        BY <3>2 DEF Insert
      <4> QED BY <4>1
    <3> QED BY <2>1, <3>1, <3>2 DEF CreateEffect
  <2> QED BY <2>1, <2>2, <2>3 DEF Holds, Call, Exists, Live
<1>7. CASE PutActive
  <2>1. /\ op.do = "created" /\ op.p \in Pair /\ UNCHANGED todoB /\ op' = NoOp
        /\ PutMapping(op.p, Active(op.id, op.slot))
    BY <1>0, <1>7 DEF PutActive
  <2>2. Active(op.id, op.slot).id = op.id
    BY DEF Active
  <2> QED BY <1>2, <2>1, <2>2
<1>8. CASE UpdateBlocker
  <2>1. op.do = "update" /\ op.p \in Pair /\ UNCHANGED todoB
    BY <1>0, <1>8 DEF UpdateBlocker
  <2>2. CASE createFromMapping(op.p, op.slot)
    <3>1. Pending(op.slot).id = NoId
      BY DEF Pending
    <3> QED BY <1>2, <2>1, <2>2, <3>1 DEF createFromMapping, Call
  <2>3. CASE Call("updated", op.p, op.slot, op.id) /\ UNCHANGED row
    BY <2>1, <2>3 DEF Holds, Call
  <2> QED BY <1>8, <2>2, <2>3 DEF UpdateBlocker
<1>9. CASE PutTimeHash
  <2>1. /\ op.do = "updated" /\ op.p \in Pair /\ UNCHANGED todoB /\ op' = NoOp
        /\ PutMapping(op.p, [row[op.p] EXCEPT !.hash = op.slot])
    BY <1>0, <1>9 DEF PutTimeHash
  <2>2. [row[op.p] EXCEPT !.hash = op.slot].id = row[op.p].id
    BY <2>1 DEF TypeOK
  <2> QED BY <1>2, <2>1, <2>2
<1>10. CASE DeleteBlocker
  BY <1>10 DEF DeleteBlocker, Call, Holds
<1>11. CASE DeleteMapping
  <2>1. op.p \in Pair /\ UNCHANGED todoB /\ op' = NoOp /\ PutMapping(op.p, NoRow)
    BY <1>0, <1>11 DEF DeleteMapping
  <2> QED BY <1>0, <1>2, <2>1
<1> QED
  BY <1>3, <1>4, <1>5, <1>6, <1>7, <1>8, <1>9, <1>10, <1>11 DEF CallSteps

\* The loops store only ids they listed, and issue calls only to ids in rows.
LEMMA LoopHolds ==
  ASSUME TypeOK, LoopSteps, NEW p \in Pair, NEW i \in Nat, Holds(p, i)'
  PROVE  Holds(p, i)
<1> USE DEF world, store, memory, result, todo
<1>1. ASSUME NEW q \in Pair, NEW m, PutMapping(q, m), todoB' \subseteq todoB,
             op = NoOp, UNCHANGED op \/ op'.do = "create",
             \/ m.id = NoId \/ m.id = row[q].id
             \/ \E b \in todoB : b.pair = q /\ b.id = m.id
      PROVE  Holds(p, i)
  <2>1. row'[q] = m /\ \A r \in Pair \ {q} : row'[r] = row[r]
    BY <1>1 DEF PutMapping, TypeOK
  <2>2. row'[p].id = i \/ \E b \in todoB : b.pair = p /\ b.id = i
    BY <1>1 DEF Holds, NoOp
  <2> QED BY <1>1, <2>1, <2>2 DEF Holds
<1>2. ASSUME NEW q \in Pair, NEW d, NEW s, UNCHANGED row, todoB' \subseteq todoB,
             UNCHANGED op \/ Call(d, q, s, row[q].id)
      PROVE  Holds(p, i)
  BY <1>2 DEF Holds, Call
<1>3. NoRow.id = NoId /\ \A s : Pending(s).id = NoId /\ Suppressed(s).id = NoId
  BY DEF NoRow, Pending, Suppressed
<1>4. ASSUME NEW t \in Target, upsertBlockerOnTarget(t) PROVE Holds(p, i)
  <2> DEFINE q == <<job.o, t>>
  <2>1. q \in Pair /\ row[q] \in Row /\ op = NoOp /\ UNCHANGED todoB
    BY <1>4, JobTyped DEF upsertBlockerOnTarget, NoJob, TypeOK
  <2>2. CASE PutMapping(q, Suppressed(job.slot)) /\ UNCHANGED op
    BY <1>1, <1>3, <2>1, <2>2
  <2>3. CASE PutMapping(q, Pending(job.slot)) /\ Call("create", q, job.slot, NoId)
    BY <1>1, <1>3, <2>1, <2>3 DEF Call
  <2>4. CASE PutMapping(q, [row[q] EXCEPT !.hash = job.slot]) /\ UNCHANGED op
    <3>1. [row[q] EXCEPT !.hash = job.slot].id = row[q].id
      BY <2>1
    <3> QED BY <1>1, <2>1, <2>4, <3>1
  <2>5. CASE UNCHANGED row /\ (UNCHANGED op \/ Call("update", q, job.slot, row[q].id))
    BY <1>2, <2>1, <2>5
  <2> QED BY <1>4, <2>2, <2>3, <2>4, <2>5 DEF upsertBlockerOnTarget
<1>5. ASSUME NEW t \in Target, deleteBlockersForOrigin(t) PROVE Holds(p, i)
  <2> DEFINE q == <<job.o, t>>
  <2>1. q \in Pair /\ op = NoOp /\ UNCHANGED todoB
    BY <1>5, JobTyped DEF deleteBlockersForOrigin, NoJob
  <2>2. CASE PutMapping(q, NoRow) /\ UNCHANGED op
    BY <1>1, <1>3, <2>1, <2>2
  <2>3. CASE UNCHANGED row /\ Call("delete", q, NoSlot, row[q].id)
    BY <1>2, <2>1, <2>3
  <2> QED BY <1>5, <2>2, <2>3 DEF deleteBlockersForOrigin
<1>6. ASSUME NEW q \in Pair,
             \/ promoteSuppressed(q) \/ resolvePending(q)
             \/ restoreMissingBlockers(q) \/ reevaluateSuppressed(q)
      PROVE  Holds(p, i)
  <2>1. /\ op = NoOp /\ UNCHANGED todoB
        /\ \/ UNCHANGED <<row, op>>
           \/ PutMapping(q, NoRow) /\ UNCHANGED op
           \/ PutMapping(q, Pending(cache[q[1]])) /\ op'.do = "create"
    BY <1>6 DEF promoteSuppressed, resolvePending, restoreMissingBlockers,
                reevaluateSuppressed, createFromMapping, Ready, Call
  <2> QED BY <1>1, <1>2, <1>3, <2>1
<1>7. ASSUME NEW b \in todoB, rebuildMappingsFromTags(b) \/ adoptOrphan(b)
      PROVE  Holds(p, i)
  <2>1. /\ op = NoOp /\ b.pair \in Pair /\ UNCHANGED op /\ todoB' \subseteq todoB
        /\ UNCHANGED row \/ PutMapping(b.pair, Active(b.id, Unknown))
    BY <1>7 DEF TypeOK, rebuildMappingsFromTags, adoptOrphan, Ready
  <2>2. Active(b.id, Unknown).id = b.id
    BY DEF Active
  <2> QED BY <1>1, <1>2, <2>1, <2>2
<1> QED
  BY <1>4, <1>5, <1>6, <1>7 DEF LoopSteps

\* A patch or a deletion never goes to an id that never was: every id the engine
\* holds for a pair, in its row or in a call, was once the id of a blocker of
\* this pair on the calendar (upsertBlockerOnTarget and deleteBlockersForOrigin
\* take it from the row, and the row has it from CreateBlocker or ListBlockers).
\* While the blocker is there, an active row has its id, so adoptOrphans never
\* mistakes a mapped blocker for an orphan.
THEOREM RowsNameBlockers == Spec => []ActiveNames /\ IdsFromTheCalendar
<1>1. NamesInv => ActiveNames
  BY DEF NamesInv
<1>2. Init => \A p \in Pair, i \in Nat : ~Holds(p, i)
  BY DEF Init, Holds, NoRow, NoOp
<1>3. ASSUME TypeOK, [Next]_vars
      PROVE  [\A p \in Pair, i \in Nat : Holds(p, i)' => Holds(p, i) \/ Exists(p, i)']_vars
  BY <1>3, NextSteps, QuietHolds, CallHolds, LoopHolds
<1> QED
  BY <1>1, <1>2, <1>3, NamesKept, TypeCorrect, PTL DEF Spec, IdsFromTheCalendar

\* The inductive invariant of the past guards holds in every run.
LEMMA PastJustified == Spec => [](PastInv /\ CallsJustified)
BY InitPast, TypeCorrect, Bookkept, CursorKept, NextPast, NextCalls, PTL DEF Spec

\* What the store knows to be over and unchanged keeps its blocker.
THEOREM PastKept == Spec => KeepsThePast
<1>1. ASSUME TypeOK, AtMostOneBlocker, Bookkeeping, NamesInv, PastInv, CallsJustified,
             [Next]_vars
      PROVE  \A b \in blockers :
               b \notin blockers' /\ edits' = edits
               => ~(/\ EndsBeforeWindow(b.slot)
                    /\ truth[b.pair[1]] = b.slot /\ cache[b.pair[1]] = b.slot
                    /\ b.pair[1] \notin dirty
                    /\ row[b.pair].st = "active")
  BY <1>1, PastStays DEF Past
<1> QED
  BY <1>1, TypeCorrect, UniqueBlocker, Bookkept, NamesKept, PastJustified, PTL
  DEF Spec, KeepsThePast

-----------------------------------------------------------------------------
(***************************************************************************)
(* What a Reconcile that nothing disturbs establishes.                      *)
(***************************************************************************)
\* How far a Reconcile has come.  Once settled, everything it did holds whatever
\* the next pass is doing.
Settled        == calm = "settled"
AfterDiff      == Settled \/ phase \notin {"rebuild", "diff"}
AfterEvents    == AfterDiff /\ (Settled \/ phase /= "events")
AfterClean     == AfterEvents /\ (Settled \/ phase /= "clean")
AfterPending   == AfterClean /\ (Settled \/ phase /= "pending")
AfterAdopt     == AfterPending /\ (Settled \/ phase /= "adopt")
AfterRestore   == AfterAdopt /\ (Settled \/ phase /= "restore")

\* A provider call for the pair is in progress.
Sent(p) == op /= NoOp /\ op.p = p

\* A live blocker of the pair inside the window; the live ones that are not over.
InView(p) == \E b \in blockers : b.pair = p /\ InWindow(b.slot)
Shown(p)  == {b \in blockers : b.pair = p /\ ~EndsBeforeWindow(b.slot)}

\* What the cache says of an event that is not alive has ended.
Over(o) == cache[o] = NoSlot \/ EndsBeforeWindow(cache[o])

\* The row of a pair whose origin is alive, once its event is processed.
Placed(p) == \/ row[p].st = "active" /\ row[p].hash = truth[p[1]]
             \/ row[p].st = "suppressed"

\* Outside a call of Changes nothing has failed.
Rested == ~Syncing => healthy

\* No blocker is beyond the window, and none is about to be put there.
Reach ==
  /\ \A b \in blockers : b.slot <= now + Horizon
  /\ op.do \in {"create", "created", "update", "updated"} => op.slot <= now + Horizon

\* The memory of an engine that nothing disturbs.
Shape ==
  /\ phase /= "promote" /\ (calm = "running" => phase /= "idle")
  /\ healthy /\ (job /= NoJob => ~job.failed)
  /\ Syncing => /\ later = {} /\ (calm = "running" => reconciling)
                /\ \A o \in Origin : batch[o] \in {NoChange, Listing[o]}
  /\ phase \in ListingPhases => since = now
  /\ AfterEvents => dirty = {}
  /\ Settled => /\ op = NoOp /\ todoO = {}
                /\ phase \in {"diff", "clean"} => job = NoJob
                /\ \A b \in todoB : row[b.pair].st = "active" /\ row[b.pair].id = b.id
                /\ phase = "restore" => \A p \in todoP : p[1] \notin alive

\* The job in progress is what the phase asks for.
JobRight ==
  /\ phase = "diff" /\ job /= NoJob => job.how = "delete" /\ job.o \notin alive
  /\ phase = "diff" => todoO \cap alive = {}
  /\ phase = "events" /\ job /= NoJob =>
       /\ batch[job.o] = NoChange
       /\ \/ job.how = "upsert" /\ job.o \in alive /\ job.slot = truth[job.o]
          \/ job.how = "delete" /\ truth[job.o] = Free
  /\ phase = "clean" /\ job /= NoJob => job.how = "clear" /\ cache[job.o] = NoSlot
  /\ phase = "clean" => \A o \in todoO : cache[o] = NoSlot

\* The call in progress brings its pair to where the truth wants it.
OpRight ==
  op /= NoOp =>
    /\ phase \in {"diff", "events", "clean", "restore", "suppressed"}
    /\ phase \in {"diff", "events", "clean"} =>
         job /= NoJob /\ op.p[1] = job.o /\ op.p[2] \notin job.left
    /\ op.do \in {"delete", "deleted"} =>
         op.p[1] \notin alive /\ phase \in {"diff", "events", "clean"}
    /\ op.do \in {"create", "created", "update", "updated"} =>
         op.p[1] \in alive /\ op.slot = truth[op.p[1]]
    /\ op.do \in {"update", "updated"} => phase = "events"
    /\ op.do = "created" => \E b \in blockers : b.pair = op.p /\ b.slot = op.slot

\* The set difference leaves no event in the cache that has vanished and was not
\* over.
Diffed ==
  /\ AfterDiff => \A o \in Origin \ alive : Over(o)
  /\ phase = "diff" => \A o \in Origin \ alive :
       Over(o) \/ o \in todoO \/ (job.how = "delete" /\ job.o = o)
  /\ phase = "diff" /\ ~Settled => batch = Listing

\* The event has been taken from the listing.
Taken(o) == AfterDiff /\ (AfterEvents \/ batch[o] = NoChange)

\* Every event of the listing reaches the cache.
Cached ==
  \A o \in Origin : Taken(o) =>
    /\ o \in alive => cache[o] = truth[o]
    /\ truth[o] = Free => cache[o] = NoSlot \/ (~Settled /\ job.how = "delete" /\ job.o = o)

\* The job in progress still has to visit the pair.
Left(how, p) == ~Settled /\ job.how = how /\ job.o = p[1] /\ p[2] \in job.left

\* Every event of the listing reaches its targets.
Distributed(p) ==
  Taken(p[1]) =>
    /\ p[1] \in alive => Placed(p) \/ Sent(p) \/ Left("upsert", p)
    /\ truth[p[1]] = Free => row[p].st = "none" \/ Sent(p) \/ Left("delete", p)

\* No active row is left without a cached origin.
Cleaned(p) ==
  row[p].st = "active" /\ cache[p[1]] = NoSlot =>
    /\ ~AfterClean
    /\ phase = "clean" => p[1] \in todoO \/ Sent(p) \/ Left("clear", p)

\* No intent is left without a call that completes it.
Resolved(p) ==
  row[p].st = "pending" =>
    /\ AfterPending => Sent(p)
    /\ phase = "pending" => p \in todoP

\* No orphan is left on a calendar.
Adopted(p) ==
  row[p].st /= "active" /\ Shown(p) /= {} =>
    /\ AfterAdopt => Sent(p)
    /\ phase = "adopt" => p[2] \in todoT \/ \E b \in todoB : b.pair = p

\* Every active row of an origin that is alive has its blocker.
Restored(p) ==
  row[p].st = "active" /\ p[1] \in alive /\ ~InView(p) =>
    /\ ~AfterRestore
    /\ phase = "restore" => p[2] \in todoT \/ p \in todoP

\* Every suppressed row still has its twin.
Reevaluated(p) ==
  row[p].st = "suppressed" /\ (Settled \/ phase = "suppressed") =>
    \/ cache[p[1]] /= NoSlot /\ (p[1] \in alive => isDuplicateOnTarget(p, truth[p[1]]))
    \/ ~Settled /\ p \in todoP

\* What the Reconcile has done for a pair so far.
PairRight(p) == /\ Distributed(p) /\ Cleaned(p) /\ Resolved(p)
                /\ Adopted(p) /\ Restored(p) /\ Reevaluated(p)

Undisturbed == /\ Shape /\ JobRight /\ OpRight /\ Diffed /\ Cached
               /\ \A p \in Pair : PairRight(p)

\* The inductive invariant of an undisturbed Reconcile.
SettleInv == Rested /\ Reach /\ (calm /= "no" => Undisturbed)

-----------------------------------------------------------------------------
\* What an undisturbed Reconcile has established is what was asked of it.
LEMMA SettledMirrors ==
  ASSUME TypeOK, AtMostOneBlocker, RowTellsTruth, NamesInv, SettleInv
  PROVE  ReconcileSettles
<1> SUFFICES ASSUME Settled, NEW p \in Pair, p \notin torn, ~Stranded(p)
             PROVE  Mirrored(p)
  BY DEF ReconcileSettles, Settled
<1> DEFINE s == truth[p[1]]
           shown == {b \in Live(p) : ~EndsBeforeWindow(b.slot)}
<1>1. /\ p[1] \in Origin /\ p[2] \in Target /\ p = <<p[1], p[2]>>
      /\ blockers \subseteq Blocker /\ row[p] \in Row
      /\ s \in Slot \cup {Gone, Free} /\ cache[p[1]] \in Slot \cup {NoSlot}
      /\ now \in Nat /\ Slot \subseteq Nat \ {0} /\ Unknown \notin Slot \cup {NoSlot}
  BY ConstantsAssumption DEF TypeOK
<1>2. AfterDiff /\ AfterEvents /\ AfterClean /\ AfterPending /\ AfterAdopt /\ AfterRestore
  BY DEF AfterDiff, AfterEvents, AfterClean, AfterPending, AfterAdopt, AfterRestore
<1>3. Undisturbed /\ PairRight(p) /\ ~Sent(p) /\ op = NoOp /\ \A h : ~Left(h, p)
  BY DEF SettleInv, Undisturbed, Shape, Settled, Sent, Left
<1>4. \A b \in blockers : b.pair = p /\ row[p].st = "active" /\ row[p].hash /= Unknown
        => b.slot = row[p].hash /\ b.id = row[p].id
  BY <1>3 DEF RowTellsTruth, NamesInv, ActiveNames, NoOp
<1>5. p[1] \in alive => cache[p[1]] = s /\ Placed(p)
  BY <1>1, <1>2, <1>3 DEF Undisturbed, Cached, Taken, PairRight, Distributed
<1>6. row[p].st /= "active" => shown = {}
  BY <1>2, <1>3 DEF PairRight, Adopted, Shown, Live
<1>7. CASE p[1] \in alive /\ row[p].st = "active"
  <2>1. PICK b \in blockers : b.pair = p /\ InWindow(b.slot)
    BY <1>2, <1>3, <1>7 DEF PairRight, Restored, InView
  <2>2. s \in Slot /\ InWindow(s)
    BY <1>7 DEF alive
  <2>3. b.slot = s /\ b.id = row[p].id
    BY <1>1, <1>4, <1>5, <1>7, <2>1, <2>2 DEF Placed
  <2>4. b = [pair |-> p, id |-> row[p].id, slot |-> s]
    BY <1>1, <2>1, <2>3
  <2>5. ~EndsBeforeWindow(b.slot)
    BY <1>1, <2>1 DEF InWindow, InWindowOf, EndsBeforeWindow
  <2>6. shown = {b}
    BY <2>1, <2>5 DEF AtMostOneBlocker, Live
  <2> QED BY <1>7, <2>2, <2>4, <2>6 DEF Mirrored
<1>8. CASE p[1] \in alive /\ row[p].st /= "active"
  <2>1. row[p].st = "suppressed" /\ isDuplicateOnTarget(p, s)
    BY <1>3, <1>5, <1>8 DEF PairRight, Reevaluated, Placed
  <2> QED BY <1>6, <2>1 DEF Mirrored
<1>9. CASE p[1] \notin alive
  <2>1. shown = {}
    <3>1. SUFFICES ASSUME row[p].st = "active", NEW b \in blockers, b.pair = p
                   PROVE  EndsBeforeWindow(b.slot)
      BY <1>6 DEF Live
    <3>2. cache[p[1]] /= NoSlot /\ EndsBeforeWindow(cache[p[1]])
      BY <1>1, <1>2, <1>3, <1>9, <3>1 DEF Undisturbed, Diffed, Over, PairRight, Cleaned
    <3>3. row[p].hash = cache[p[1]]
      BY <3>1, <3>2 DEF Stranded
    <3> QED BY <1>1, <1>4, <3>1, <3>2, <3>3
  <2> QED BY <1>1, <1>9, <2>1 DEF Mirrored, alive
<1> QED
  BY <1>7, <1>8, <1>9

\* A failed event is remembered until the call of Changes is over, and no longer.
LEMMA NextRested ==
  ASSUME Rested, [Next]_vars
  PROVE  Rested'
<1> USE DEF memory, result
<1>1. CASE UNCHANGED <<phase, healthy>>
  BY <1>1 DEF Rested, Syncing
<1>2. CASE healthy' = TRUE \/ phase' \in {"diff", "events"}
  BY <1>2 DEF Rested, Syncing
<1>3. ASSUME NEW o \in Origin, \/ UserEdits(o) \/ DropVanished(o) \/ processEvent(o)
                               \/ cleanStaleMappings(o)
      PROVE  UNCHANGED <<phase, healthy>>
  BY <1>3 DEF UserEdits, DropVanished, processEvent, cleanStaleMappings
<1>4. ASSUME NEW p \in Pair, \/ \E s \in Slot : TwinAppears(p, s)
                             \/ promoteSuppressed(p) \/ resolvePending(p)
                             \/ restoreMissingBlockers(p) \/ reevaluateSuppressed(p)
      PROVE  UNCHANGED <<phase, healthy>>
  BY <1>4 DEF TwinAppears, promoteSuppressed, resolvePending, restoreMissingBlockers,
              reevaluateSuppressed
<1>5. ASSUME NEW t \in Target, \/ ListingFails(t) \/ upsertBlockerOnTarget(t)
                               \/ deleteBlockersForOrigin(t) \/ ListAccount(t)
      PROVE  UNCHANGED <<phase, healthy>>
  BY <1>5 DEF ListingFails, upsertBlockerOnTarget, deleteBlockersForOrigin, ListAccount
<1>6. ASSUME NEW b \in todoB, \/ OrphanRemains(b) \/ rebuildMappingsFromTags(b)
                              \/ adoptOrphan(b)
      PROVE  UNCHANGED <<phase, healthy>>
  BY <1>6 DEF OrphanRemains, rebuildMappingsFromTags, adoptOrphan
<1>7. ASSUME NEW b \in blockers, UserRemovesBlocker(b)
      PROVE  UNCHANGED <<phase, healthy>>
  BY <1>7 DEF UserRemovesBlocker
<1>8. CASE \/ WindowSlides \/ CursorExpires \/ DatabaseLost \/ CreateBlocker \/ PutActive
           \/ UpdateBlocker \/ PutTimeHash \/ DeleteBlocker \/ DeleteMapping
           \/ UNCHANGED vars
  BY <1>1, <1>8 DEF WindowSlides, CursorExpires, DatabaseLost, CreateBlocker, PutActive,
     UpdateBlocker, PutTimeHash, DeleteBlocker, DeleteMapping, vars
<1>9. CASE SyncCalendar \/ FullResync \/ DiffDone \/ SetCursor \/ Crash
  BY <1>2, <1>9 DEF SyncCalendar, FullResync, DiffDone, SetCursor, EndResync, Crash
<1>10. ASSUME phase \notin {"diff", "events"}, UNCHANGED healthy
       PROVE  Rested'
  BY <1>10 DEF Rested, Syncing
<1>11. CASE Reconcile \/ ChangesFails \/ PhaseDone
  BY <1>10, <1>11 DEF Reconcile, ChangesFails, PhaseDone, NextPhase
<1>12. ASSUME NEW p \in Pair, TwinVanishes(p)
       PROVE  Rested'
  BY <1>10, <1>12 DEF TwinVanishes
<1>13. CASE FinishEvent
  BY <1>13 DEF FinishEvent, Rested, Syncing
<1>14. ASSUME NEW auth \in BOOLEAN, CallFails(auth)
       PROVE  healthy' = TRUE \/ UNCHANGED <<phase, healthy>>
  BY <1>14 DEF CallFails, EndResync
<1> QED
  BY <1>1, <1>2, <1>3, <1>4, <1>5, <1>6, <1>7, <1>8, <1>9, <1>11, <1>12, <1>13, <1>14
  DEF Next, Environment, Failure, Continue

\* What is aligned or inserted shows the slot asked for; everything else stays.
LEMMA CreatedWithin ==
  ASSUME TypeOK, NEW p \in Pair, NEW s, NEW i, CreateEffect(p, s, i) \/ Align(p, s, i)
  PROVE  \A b \in blockers' : b \in blockers \/ b.slot = s
<1>1. CASE Align(p, s, i)
  <2>1. PICK b \in blockers : blockers' = (blockers \ {b}) \cup {[b EXCEPT !.slot = s]}
    BY <1>1 DEF Align, Live
  <2>2. [b EXCEPT !.slot = s].slot = s
    BY DEF TypeOK
  <2> QED BY <2>1, <2>2
<1>2. CASE Insert(p, s, i)
  BY <1>2 DEF Insert
<1> QED
  BY <1>1, <1>2 DEF CreateEffect

\* The calls that write a slot on a calendar.
Writing == op.do \in {"create", "created", "update", "updated"}

\* What a provider call adds to a calendar shows the slot of the call.
LEMMA BlockersWithin ==
  ASSUME TypeOK, [Next]_vars
  PROVE  \A b \in blockers' : b \in blockers \/ (Writing /\ b.slot = op.slot)
<1>1. op.do \in {"create", "update"} => op.p \in Pair /\ Writing
  BY OpTyped DEF Writing
<1>2. CASE CreateBlocker
  BY <1>1, <1>2, CreatedWithin DEF CreateBlocker
<1>3. CASE UpdateBlocker
  BY <1>1, <1>3, CreatedWithin DEF UpdateBlocker
<1>4. ASSUME NEW auth \in BOOLEAN, CallFails(auth)
      PROVE  \A b \in blockers' : b \in blockers \/ (Writing /\ b.slot = op.slot)
  BY <1>1, <1>4, CreatedWithin DEF CallFails, DeleteEffect
<1>5. CASE DeleteBlocker
  BY <1>5 DEF DeleteBlocker, DeleteEffect
<1>6. ASSUME NEW b \in todoB, adoptOrphan(b) PROVE blockers' \subseteq blockers
  BY <1>6 DEF adoptOrphan
<1>7. ASSUME NEW b \in blockers, UserRemovesBlocker(b) PROVE blockers' \subseteq blockers
  BY <1>7 DEF UserRemovesBlocker
<1> QED
  BY <1>2, <1>3, <1>4, <1>5, <1>6, <1>7, RemoteElsewhere
  DEF Next, Environment, Failure, Continue

\* A call that writes a slot takes it from the job, from the cache or from the call
\* before it.
LEMMA CallsWithin ==
  ASSUME TypeOK, PastInv, [Next]_vars, Writing'
  PROVE  \/ Writing /\ op'.slot = op.slot
         \/ \E o \in Origin : op'.slot = cache[o]
<1> USE DEF world, store, memory, result, todo
<1> DEFINE Goal == \/ Writing /\ op'.slot = op.slot
                   \/ \E o \in Origin : op'.slot = cache[o]
<1>1. CASE UNCHANGED op
  BY <1>1 DEF Writing
<1>2. op' /= NoOp
  BY DEF Writing, NoOp
<1>3. CASE QuietSteps
  BY <1>1, <1>3, QuietFrame
<1>4. ASSUME NEW t \in Target, upsertBlockerOnTarget(t)
      PROVE  Goal
  <2>1. job.how = "upsert" /\ job.o \in Origin /\ cache[job.o] = job.slot
    BY <1>4, JobTyped DEF upsertBlockerOnTarget, PastInv, JobsJustified, NoJob
  <2>2. UNCHANGED op \/ op'.slot = job.slot
    BY <1>4 DEF upsertBlockerOnTarget, Call
  <2> QED BY <1>1, <2>1, <2>2
<1>5. ASSUME NEW t \in Target, deleteBlockersForOrigin(t)
      PROVE  Goal
  BY <1>1, <1>5 DEF deleteBlockersForOrigin, Call, Writing
<1>6. ASSUME NEW p \in Pair, \/ promoteSuppressed(p) \/ resolvePending(p)
                             \/ restoreMissingBlockers(p) \/ reevaluateSuppressed(p)
      PROVE  Goal
  <2>1. UNCHANGED op \/ op'.slot = cache[p[1]]
    BY <1>6 DEF promoteSuppressed, resolvePending, restoreMissingBlockers,
       reevaluateSuppressed, createFromMapping, Call
  <2> QED BY <1>1, <2>1
<1>7. ASSUME NEW b \in todoB, rebuildMappingsFromTags(b) \/ adoptOrphan(b)
      PROVE  UNCHANGED op
  BY <1>7 DEF rebuildMappingsFromTags, adoptOrphan
<1>8. CASE CreateBlocker \/ UpdateBlocker
  BY <1>8 DEF CreateBlocker, UpdateBlocker, createFromMapping, Call, Writing
<1>9. CASE DeleteBlocker
  BY <1>9 DEF DeleteBlocker, Call, Writing
<1>10. CASE PutActive \/ PutTimeHash \/ DeleteMapping \/ Crash
  BY <1>2, <1>10 DEF PutActive, PutTimeHash, DeleteMapping, Crash
<1>11. ASSUME NEW auth \in BOOLEAN, CallFails(auth)
       PROVE  op' = NoOp
  BY <1>11 DEF CallFails
<1>12. CASE DatabaseLost
  BY <1>1, <1>12 DEF DatabaseLost
<1> QED
  BY <1>2, <1>1, <1>3, <1>4, <1>5, <1>6, <1>7, <1>8, <1>9, <1>10, <1>11, <1>12, NextSteps
  DEF CallSteps, LoopSteps

\* The window only slides forward.
LEMMA NowGrows ==
  ASSUME TypeOK, [Next]_vars
  PROVE  now' \in Nat /\ now <= now'
<1> USE DEF world, store, memory, result, todo
<1>1. CASE UNCHANGED now
  BY <1>1 DEF TypeOK
<1>2. CASE WindowSlides
  BY <1>2 DEF WindowSlides, TypeOK
<1>3. ASSUME NEW o \in Origin, \/ UserEdits(o) \/ DropVanished(o) \/ processEvent(o)
                               \/ cleanStaleMappings(o)
      PROVE  UNCHANGED now
  BY <1>3 DEF UserEdits, DropVanished, processEvent, cleanStaleMappings
<1>4. ASSUME NEW p \in Pair, TwinVanishes(p)
      PROVE  UNCHANGED now
  BY <1>4 DEF TwinVanishes
<1>5. CASE \/ ChangesFails \/ Crash \/ DatabaseLost \/ CursorExpires \/ SyncCalendar
           \/ Reconcile \/ FullResync \/ DiffDone \/ FinishEvent \/ SetCursor \/ PhaseDone
  BY <1>1, <1>5 DEF ChangesFails, Crash, DatabaseLost, CursorExpires, SyncCalendar,
     Reconcile, FullResync, DiffDone, FinishEvent, SetCursor, PhaseDone
<1>6. ASSUME NEW auth \in BOOLEAN, CallFails(auth)
      PROVE  UNCHANGED now
  BY <1>6 DEF CallFails
<1> QED
  BY <1>1, <1>2, <1>3, <1>4, <1>5, <1>6, CursorElsewhere
  DEF Next, Environment, Failure, Continue

\* Every step keeps the blockers and the calls within the reach of the window.
LEMMA NextReach ==
  ASSUME TypeOK, PastInv, Reach, [Next]_vars
  PROVE  Reach'
<1>1. now \in Nat /\ now' \in Nat /\ now <= now' /\ Horizon \in Nat
  BY NowGrows, ConstantsAssumption DEF TypeOK
<1>2. ASSUME NEW s \in Nat, s <= now + Horizon
      PROVE  s <= now' + Horizon
  <2>1. \A n, m, h \in Nat : n <= m /\ s <= n + h => s <= m + h
    OBVIOUS
  <2> QED BY <1>1, <1>2, <2>1
<1>3. Writing => op.slot \in Nat /\ op.slot <= now + Horizon
  BY OpTyped, ConstantsAssumption DEF Writing, Reach
<1>4. \A b \in blockers : b.slot \in Nat /\ b.slot <= now + Horizon
  BY ConstantsAssumption DEF TypeOK, Reach
<1>5. \A o \in Origin : cache[o] \in Nat /\ cache[o] <= now + Horizon
  BY ConstantsAssumption DEF TypeOK, PastInv, CacheBound
<1>6. \A b \in blockers' : b.slot <= now' + Horizon
  BY <1>2, <1>3, <1>4, BlockersWithin
<1>7. Writing' => op'.slot <= now' + Horizon
  BY <1>2, <1>3, <1>5, CallsWithin
<1> QED
  BY <1>6, <1>7 DEF Reach, Writing

-----------------------------------------------------------------------------
\* The steps that leave a Reconcile undisturbed.
LEMMA CalmSteps ==
  ASSUME [Next]_vars, calm' /= "no"
  PROVE  SyncCalendar \/ Reconcile \/ Continue \/ CursorExpires \/ UNCHANGED vars
<1>1. ASSUME NEW o \in Origin, UserEdits(o)
      PROVE  FALSE
  BY <1>1 DEF UserEdits
<1>2. ASSUME NEW b \in blockers, UserRemovesBlocker(b)
      PROVE  FALSE
  BY <1>2 DEF UserRemovesBlocker
<1>3. ASSUME NEW p \in Pair, TwinVanishes(p) \/ \E s \in Slot : TwinAppears(p, s)
      PROVE  FALSE
  BY <1>3 DEF TwinVanishes, TwinAppears
<1>4. ASSUME NEW auth \in BOOLEAN, CallFails(auth)
      PROVE  FALSE
  BY <1>4 DEF CallFails
<1>5. ASSUME NEW t \in Target, ListingFails(t)
      PROVE  FALSE
  BY <1>5 DEF ListingFails
<1>6. ASSUME NEW b \in todoB, OrphanRemains(b)
      PROVE  FALSE
  BY <1>6 DEF OrphanRemains
<1>7. ~WindowSlides /\ ~ChangesFails /\ ~Crash /\ ~DatabaseLost
  BY DEF WindowSlides, ChangesFails, Crash, DatabaseLost
<1> QED
  BY <1>1, <1>2, <1>3, <1>4, <1>5, <1>6, <1>7 DEF Next, Environment, Failure

\* The engine changes neither the monitored calendar, nor the clock, nor the twins,
\* and it is calm after a step only if it was before or a Reconcile begins.
LEMMA CalmFrame ==
  ASSUME SyncCalendar \/ Reconcile \/ Continue \/ CursorExpires \/ UNCHANGED vars
  PROVE  /\ UNCHANGED <<truth, now, twin>>
         /\ calm' = calm \/ Reconcile \/ PhaseDone
<1> USE DEF world, store, memory, result, todo
<1>1. ASSUME NEW o \in Origin, DropVanished(o) \/ processEvent(o) \/ cleanStaleMappings(o)
      PROVE  UNCHANGED <<truth, now, twin, calm>>
  BY <1>1 DEF DropVanished, processEvent, cleanStaleMappings
<1>2. ASSUME NEW t \in Target, \/ upsertBlockerOnTarget(t) \/ deleteBlockersForOrigin(t)
                                \/ ListAccount(t)
      PROVE  UNCHANGED <<truth, now, twin, calm>>
  BY <1>2 DEF upsertBlockerOnTarget, deleteBlockersForOrigin, ListAccount
<1>3. ASSUME NEW p \in Pair, \/ promoteSuppressed(p) \/ resolvePending(p)
                             \/ restoreMissingBlockers(p) \/ reevaluateSuppressed(p)
      PROVE  UNCHANGED <<truth, now, twin, calm>>
  BY <1>3 DEF promoteSuppressed, resolvePending, restoreMissingBlockers,
              reevaluateSuppressed
<1>4. ASSUME NEW b \in todoB, rebuildMappingsFromTags(b) \/ adoptOrphan(b)
      PROVE  UNCHANGED <<truth, now, twin, calm>>
  BY <1>4 DEF rebuildMappingsFromTags, adoptOrphan
<1>5. CASE Reconcile \/ PhaseDone
  BY <1>5 DEF Reconcile, PhaseDone
<1>6. CASE SyncCalendar \/ CursorExpires \/ UNCHANGED vars
  BY <1>6 DEF SyncCalendar, CursorExpires, vars
<1>7. CASE FullResync \/ DiffDone \/ FinishEvent \/ SetCursor
  BY <1>7 DEF FullResync, DiffDone, FinishEvent, SetCursor
<1>8. CASE \/ CreateBlocker \/ PutActive \/ UpdateBlocker \/ PutTimeHash
           \/ DeleteBlocker \/ DeleteMapping
  BY <1>8 DEF CreateBlocker, PutActive, UpdateBlocker, PutTimeHash, DeleteBlocker,
              DeleteMapping
<1> QED
  BY <1>1, <1>2, <1>3, <1>4, <1>5, <1>6, <1>7, <1>8 DEF Continue

\* While the calendar and the clock stand still, so does what is alive and listed.
LEMMA AliveFrame ==
  ASSUME UNCHANGED <<truth, now>>
  PROVE  /\ alive' = alive /\ Listing' = Listing
         /\ \A s : InWindow(s)' = InWindow(s) /\ EndsBeforeWindow(s)' = EndsBeforeWindow(s)
BY DEF alive, Listing, InWindow, InWindowOf, EndsBeforeWindow

\* An origin is alive, free, gone or outside the window; what is alive is in the
\* window, and what the cache knows of it, once distributed, has not ended.
LEMMA AliveFacts ==
  ASSUME TypeOK, NEW o \in Origin
  PROVE  /\ truth[o] = Free => o \notin alive
         /\ o \in alive => /\ truth[o] \in Slot /\ truth[o] /= NoSlot /\ InWindow(truth[o])
                           /\ ~EndsBeforeWindow(truth[o]) /\ now < truth[o]
         /\ Listing[o] \in {truth[o], NoChange}
         /\ o \in alive => Listing[o] = truth[o]
         /\ Listing[o] \in Slot => o \in alive
         /\ Listing[o] /= Gone
         /\ truth[o] = Free => Listing[o] = Free
<1>1. Slot \subseteq Nat \ {0} /\ now \in Nat /\ truth[o] \in Slot \cup {Gone, Free}
  BY ConstantsAssumption DEF TypeOK
<1>2. \A s \in Slot : InWindow(s) => ~EndsBeforeWindow(s) /\ now < s
  BY <1>1 DEF InWindow, InWindowOf, EndsBeforeWindow
<1>3. Gone \notin Slot /\ Free \notin Slot /\ NoChange \notin Slot /\ NoChange /= Gone
  BY <1>1
<1> QED
  BY <1>1, <1>2, <1>3 DEF alive, Listing

-----------------------------------------------------------------------------
\* What a Reconcile has established when it is over, whatever the engine does next.
Steady ==
  /\ \A o \in Origin : /\ o \notin alive => Over(o)
                       /\ o \in alive => cache[o] = truth[o]
                       /\ truth[o] = Free => cache[o] = NoSlot
  /\ \A p \in Pair :
       /\ row[p].st /= "pending"
       /\ p[1] \in alive => Placed(p)
       /\ truth[p[1]] = Free => row[p].st = "none"
       /\ row[p].st = "active" => cache[p[1]] /= NoSlot
       /\ row[p].st /= "active" => Shown(p) = {}
       /\ p[1] \in alive /\ row[p].st = "active" => InView(p)
       /\ row[p].st = "suppressed" =>
            cache[p[1]] /= NoSlot /\ (p[1] \in alive => isDuplicateOnTarget(p, truth[p[1]]))

\* A settled engine is steady.
LEMMA SettledSteady ==
  ASSUME Settled, Undisturbed
  PROVE  Steady
<1>1. AfterDiff /\ AfterEvents /\ AfterClean /\ AfterPending /\ AfterAdopt /\ AfterRestore
  BY DEF AfterDiff, AfterEvents, AfterClean, AfterPending, AfterAdopt, AfterRestore
<1>2. (\A p : ~Sent(p)) /\ \A h, p : ~Left(h, p)
  BY DEF Undisturbed, Shape, Sent, Left
<1>4. \A o \in Origin : /\ o \notin alive => Over(o)
                        /\ o \in alive => cache[o] = truth[o]
                        /\ truth[o] = Free => cache[o] = NoSlot
  BY <1>1 DEF Undisturbed, Diffed, Cached, Taken
<1>5. ASSUME NEW p \in Pair
      PROVE  /\ p[1] \in alive => Placed(p)
             /\ truth[p[1]] = Free => row[p].st = "none"
  BY <1>1, <1>2 DEF Undisturbed, PairRight, Distributed, Taken
<1>6. ASSUME NEW p \in Pair
      PROVE  /\ row[p].st /= "pending"
             /\ row[p].st = "active" => cache[p[1]] /= NoSlot
             /\ row[p].st /= "active" => Shown(p) = {}
             /\ p[1] \in alive /\ row[p].st = "active" => InView(p)
             /\ row[p].st = "suppressed" =>
                  /\ cache[p[1]] /= NoSlot
                  /\ p[1] \in alive => isDuplicateOnTarget(p, truth[p[1]])
  BY <1>1, <1>2 DEF Undisturbed, PairRight, Cleaned, Resolved, Adopted, Restored, Reevaluated
<1> QED
  BY <1>4, <1>5, <1>6 DEF Steady

\* And a steady engine whose memory is in shape is settled for good.
LEMMA SteadySettles ==
  TypeOK /\ Settled /\ Steady /\ Shape /\ JobRight => Undisturbed
<1> SUFFICES ASSUME TypeOK, Settled, Steady, Shape, JobRight
             PROVE  Undisturbed
  OBVIOUS
<1>1. Diffed /\ Cached /\ OpRight
  BY DEF Steady, Diffed, Cached, OpRight, Shape
<1>2. ASSUME NEW p \in Pair
      PROVE  PairRight(p)
  BY DEF Steady, PairRight, Distributed, Cleaned, Resolved, Adopted, Restored, Reevaluated
<1> QED
  BY <1>1, <1>2 DEF Undisturbed

\* What stands still stays steady.
LEMMA SteadyFrame ==
  ASSUME Steady, UNCHANGED <<truth, now, twin, blockers, cache>>,
         \A p \in Pair : /\ row'[p].st = row[p].st
                         /\ row[p].st = "active" => row'[p] = row[p]
  PROVE  Steady'
<1>1. /\ alive' = alive /\ \A o : Over(o)' = Over(o)
      /\ \A p : InView(p)' = InView(p) /\ Shown(p)' = Shown(p)
      /\ \A p, s : isDuplicateOnTarget(p, s)' = isDuplicateOnTarget(p, s)
  BY AliveFrame DEF Over, InView, Shown, isDuplicateOnTarget
<1>2. \A p \in Pair : Placed(p) => Placed(p)'
  BY DEF Placed
<1> QED
  BY <1>1, <1>2 DEF Steady

\* Nothing on a calendar or in a row moves.
Still == /\ UNCHANGED <<blockers, cache, op>>
         /\ \A p \in Pair : /\ row'[p].st = row[p].st
                            /\ row[p].st = "active" => row'[p] = row[p]

\* The next pass of a settled engine finds no stale mapping and nothing that has
\* vanished.
LEMMA NothingToDrop ==
  ASSUME TypeOK, Steady
  PROVE  StaleOrigins = {} /\ Vanished = {}
<1>1. \A o \in Origin, t \in Target :
        <<o, t>> \in Pair /\ <<o, t>>[1] = o /\ <<o, t>>[2] = t
  OBVIOUS
<1>2. StaleOrigins = {}
  BY <1>1 DEF StaleOrigins, Steady
<1>3. Vanished = {}
  BY DEF Vanished, Steady, Over
<1> QED
  BY <1>2, <1>3

\* A phase begins: a settled engine stays in shape.
LEMMA SettledEnters ==
  ASSUME TypeOK, Steady, Settled, Settled', NEW ph \in Phases \ {"diff", "events", "promote"},
         NEW ok, Enter(ph, ok), UNCHANGED <<truth, now, row>>, op' = NoOp, job' = NoJob,
         healthy', dirty' = {}
  PROVE  Shape' /\ JobRight'
<1>1. /\ phase' = ph /\ todoB' = {} /\ todoO' = {}
      /\ ph = "restore" => todoP' = {}
      /\ ph \in ListingPhases => since' = now'
  BY NothingToDrop DEF Enter
<1>2. JobRight'
  BY <1>1 DEF JobRight
<1> QED
  BY <1>1, <1>2 DEF Shape, Settled, Syncing, AfterEvents, AfterDiff

\* The steps that begin and end the passes of a settled engine.
LEMMA SettledPasses ==
  ASSUME TypeOK, Bookkeeping, Rested, Settled, Steady, Shape, JobRight,
         UNCHANGED <<truth, now, twin>>,
         SyncCalendar \/ Reconcile \/ FullResync \/ DiffDone \/ SetCursor \/ PhaseDone
  PROVE  Settled' /\ Still /\ Shape' /\ JobRight'
<1> USE DEF world, store, memory, result, todo
<1>1. UNCHANGED <<blockers, cache, row, op>>
  BY DEF SyncCalendar, Reconcile, FullResync, DiffDone, SetCursor, PhaseDone
<1>2. Still
  BY <1>1 DEF Still
<1>3. op = NoOp /\ healthy /\ dirty = {} /\ todoO = {}
  BY DEF Shape, AfterEvents, AfterDiff
<1>4. alive' = alive /\ Listing' = Listing
  BY AliveFrame
<1>5. CASE SyncCalendar
  <2>1. /\ phase = "idle" /\ phase' = "events" /\ later' = {} /\ batch' \in {Listing, Delta}
        /\ UNCHANGED <<healthy, todo, job, calm, dirty>>
    BY <1>5 DEF SyncCalendar
  <2>2. job' = NoJob
    BY <2>1 DEF Bookkeeping, LoopShape
  <2>3. \A o \in Origin : batch'[o] \in {NoChange, Listing'[o]}
    BY <1>3, <1>4, <2>1 DEF Delta
  <2>4. Shape'
    BY <1>1, <1>3, <2>1, <2>2, <2>3
    DEF Shape, Settled, Syncing, AfterEvents, AfterDiff, ListingPhases
  <2>5. JobRight'
    BY <2>1, <2>2 DEF JobRight
  <2> QED BY <1>2, <2>1, <2>4, <2>5 DEF Settled
<1>6. CASE FullResync
  <2>1. /\ phase \in {"idle", "rebuild"} /\ phase' = "diff" /\ later' = {} /\ batch' = Listing
        /\ todoO' = {} /\ UNCHANGED <<healthy, todoB, todoP, job, calm, dirty>>
    BY <1>6, NothingToDrop DEF FullResync
  <2>2. job' = NoJob
    BY <2>1 DEF Bookkeeping, LoopShape
  <2>3. Shape'
    BY <1>1, <1>3, <1>4, <2>1, <2>2
    DEF Shape, Settled, Syncing, AfterEvents, AfterDiff, ListingPhases
  <2>4. JobRight'
    BY <2>1, <2>2 DEF JobRight
  <2> QED BY <1>2, <2>1, <2>3, <2>4 DEF Settled
<1>7. CASE DiffDone
  <2>1. /\ phase = "diff" /\ job = NoJob /\ phase' = "events"
        /\ UNCHANGED <<memory, todo, job, calm, dirty>>
    BY <1>7 DEF DiffDone, LoopDone, Ready
  <2>2. Shape'
    BY <1>1, <1>3, <1>4, <2>1 DEF Shape, Settled, Syncing, AfterEvents, AfterDiff, ListingPhases
  <2>3. JobRight'
    BY <2>1 DEF JobRight
  <2> QED BY <1>2, <2>1, <2>2, <2>3 DEF Settled
<1>8. CASE SetCursor
  <2>1. /\ phase = "events" /\ dirty' = later /\ EndResync(healthy) /\ job = NoJob
        /\ UNCHANGED <<job, op, row, calm>>
    BY <1>8 DEF SetCursor, LoopDone, Ready
  <2>2. dirty' = {} /\ healthy' /\ job' = NoJob /\ op' = NoOp /\ Settled'
    BY <1>3, <2>1 DEF Shape, Syncing, EndResync, Settled
  <2>3. Enter("clean", healthy) \/ Enter("idle", healthy)
    BY <2>1 DEF EndResync
  <2>4. UNCHANGED row
    BY <2>1
  <2> QED BY <1>2, <2>2, <2>3, <2>4, SettledEnters DEF Phases
<1>9. CASE Reconcile \/ PhaseDone
  <2>1. /\ phase \notin {"diff", "events"} /\ job = NoJob /\ Settled'
        /\ UNCHANGED <<job, op, row, result, dirty>>
    BY <1>9 DEF Reconcile, PhaseDone, NextPhase, LoopDone, Ready, Bookkeeping, LoopShape,
                Settled
  <2>2. \E ph \in Phases \ {"diff", "events", "promote"} : Enter(ph, TRUE)
    <3>1. CASE Reconcile
      BY <3>1 DEF Reconcile, Phases
    <3>2. CASE PhaseDone
      <4>1. NextPhase[phase] \in Phases \ {"diff", "events", "promote"}
        BY <3>2 DEF PhaseDone, NextPhase, Phases
      <4> QED BY <3>2, <4>1 DEF PhaseDone
    <3> QED BY <1>9, <3>1, <3>2
  <2>3. UNCHANGED row /\ op' = NoOp /\ job' = NoJob /\ healthy' /\ dirty' = {}
    BY <1>3, <2>1
  <2> QED BY <1>2, <2>1, <2>2, <2>3, SettledEnters
<1> QED
  BY <1>2, <1>5, <1>6, <1>7, <1>8, <1>9

\* The listings of a settled engine name only mapped blockers, and no blocker that
\* the window asks for is missing.
LEMMA SettledListing ==
  ASSUME TypeOK, Reach, NamesInv, Steady, since = now, NEW t \in Target
  PROVE  /\ \A b \in ListBlockers(t) : row[b.pair].st = "active" /\ row[b.pair].id = b.id
         /\ \A p \in Missing(t) : p[1] \notin alive
<1>1. now \in Nat /\ blockers \subseteq Blocker /\ \A s \in Slot : s \in Nat
  BY ConstantsAssumption DEF TypeOK
<1>2. ASSUME NEW b \in ListBlockers(t)
      PROVE  row[b.pair].st = "active" /\ row[b.pair].id = b.id
  <2>1. b \in blockers /\ b.pair \in Pair /\ ~EndsBeforeWindow(b.slot)
    BY <1>1, <1>2 DEF ListBlockers, EndsBeforeWindow
  <2>2. b \in Shown(b.pair)
    BY <2>1 DEF Shown
  <2>3. row[b.pair].st = "active"
    BY <2>1, <2>2 DEF Steady
  <2> QED BY <2>1, <2>3 DEF NamesInv, ActiveNames
<1>3. ASSUME NEW p \in Missing(t), p[1] \in alive
      PROVE  FALSE
  <2>1. /\ p \in Pair /\ p[2] = t /\ row[p].st = "active"
        /\ \A b \in ListBlockers(t) : ~(b.pair = p /\ b.id = row[p].id)
    BY <1>3 DEF Missing, RowsWith
  <2>2. PICK b \in blockers : b.pair = p /\ InWindow(b.slot)
    BY <1>3, <2>1 DEF Steady, InView
  <2>3. b \in ListBlockers(t)
    BY <2>1, <2>2 DEF ListBlockers, InWindow, InWindowOf
  <2> QED BY <2>1, <2>2, <2>3 DEF NamesInv, ActiveNames
<1> QED
  BY <1>2, <1>3

\* A step of a settled pass that begins no phase and touches no job.
LEMMA SettledLoops ==
  ASSUME Settled, Shape, JobRight, UNCHANGED <<truth, now, calm, phase>>,
         UNCHANGED <<healthy, job, later, reconciling, batch, since, dirty, op, todoO, cache>>,
         \A b \in todoB' : row'[b.pair].st = "active" /\ row'[b.pair].id = b.id,
         phase = "restore" => \A p \in todoP' : p[1] \notin alive
  PROVE  Settled' /\ Shape' /\ JobRight'
<1>1. alive' = alive /\ Listing' = Listing
  BY AliveFrame
<1>2. Shape'
  BY <1>1 DEF Shape, Settled, Syncing, AfterEvents, AfterDiff, ListingPhases
<1>3. JobRight'
  BY <1>1 DEF JobRight
<1> QED
  BY <1>2, <1>3 DEF Settled

\* The loops of a settled Reconcile find nothing to do.
LEMMA SettledPhases ==
  ASSUME TypeOK, Bookkeeping, NamesInv, Reach, Settled, Steady, Shape, JobRight,
         UNCHANGED <<truth, now, twin>>,
         \/ \E t \in Target : ListAccount(t)
         \/ \E p \in Pair : \/ promoteSuppressed(p) \/ resolvePending(p)
                            \/ restoreMissingBlockers(p) \/ reevaluateSuppressed(p)
         \/ \E b \in todoB : rebuildMappingsFromTags(b) \/ adoptOrphan(b)
  PROVE  Settled' /\ Still /\ Shape' /\ JobRight'
<1> USE DEF world, store, memory, result, todo
<1>1. ASSUME UNCHANGED <<blockers, row, truth, now, calm, phase, cache, op, job, dirty>>,
             UNCHANGED <<memory, todoO>>,
             \A b \in todoB' : row[b.pair].st = "active" /\ row[b.pair].id = b.id,
             phase = "restore" => \A p \in todoP' : p[1] \notin alive
      PROVE  Settled' /\ Still /\ Shape' /\ JobRight'
  BY <1>1, SettledLoops DEF Still
<1>2. /\ \A b \in todoB : row[b.pair].st = "active" /\ row[b.pair].id = b.id
      /\ phase = "restore" => \A p \in todoP : p[1] \notin alive
  BY DEF Shape
<1>3. ASSUME NEW t \in Target, ListAccount(t)
      PROVE  Settled' /\ Still /\ Shape' /\ JobRight'
  <2>1. /\ UNCHANGED <<blockers, row, truth, now, calm, phase, cache, op, job, dirty>>
        /\ UNCHANGED <<memory, todoO>>
        /\ phase = "restore" => todoP' = Missing(t) /\ todoB' = todoB
        /\ phase /= "restore" => todoB' = ListBlockers(t)
        /\ phase \in ListingPhases
    BY <1>3 DEF ListAccount, NamesInv, ListedNames
  <2>2. since = now
    BY <2>1 DEF Shape
  <2> QED BY <1>1, <1>2, <2>1, <2>2, SettledListing
<1>4. ASSUME NEW p \in Pair, \/ promoteSuppressed(p) \/ resolvePending(p)
                             \/ restoreMissingBlockers(p) \/ reevaluateSuppressed(p)
      PROVE  Settled' /\ Still /\ Shape' /\ JobRight'
  <2>1. ~promoteSuppressed(p)
    BY DEF promoteSuppressed, Shape
  <2>2. ~resolvePending(p)
    BY DEF resolvePending, Bookkeeping, LoopShape, Steady
  <2>3. /\ UNCHANGED <<blockers, truth, now, calm, phase, cache, job, dirty>>
        /\ UNCHANGED <<memory, todoO, todoB>> /\ todoP' = todoP \ {p} /\ p \in todoP
    BY <1>4, <2>1, <2>2 DEF restoreMissingBlockers, reevaluateSuppressed
  <2>4. p[1] \in Origin /\ (p[1] \notin alive => Over(p[1]))
    BY DEF Steady
  <2>5. UNCHANGED <<row, op>>
    <3>1. CASE restoreMissingBlockers(p)
      <4>1. Over(p[1]) /\ since = now
        BY <1>2, <2>3, <2>4, <3>1 DEF restoreMissingBlockers, Shape, ListingPhases
      <4> QED BY <3>1, <4>1 DEF restoreMissingBlockers, Over, EndsBeforeWindow
    <3>2. CASE reevaluateSuppressed(p)
      <4>1. row[p].st = "suppressed"
        BY <3>2 DEF reevaluateSuppressed, Bookkeeping, LoopShape
      <4>2. /\ cache[p[1]] /= NoSlot
            /\ p[1] \in alive => isDuplicateOnTarget(p, truth[p[1]]) /\ cache[p[1]] = truth[p[1]]
        BY <2>4, <4>1 DEF Steady
      <4> QED BY <2>4, <3>2, <4>2 DEF reevaluateSuppressed, Over
    <3> QED BY <1>4, <2>1, <2>2, <3>1, <3>2
  <2> QED BY <1>1, <1>2, <2>3, <2>5
<1>5. ASSUME NEW b \in todoB, rebuildMappingsFromTags(b) \/ adoptOrphan(b)
      PROVE  Settled' /\ Still /\ Shape' /\ JobRight'
  <2>1. IsBlocker(b)
    BY <1>2 DEF IsBlocker
  <2>2. /\ UNCHANGED <<blockers, row, truth, now, calm, phase, cache, op, job, dirty>>
        /\ UNCHANGED <<memory, todoO, todoP>> /\ todoB' \subseteq todoB
    BY <1>5, <2>1 DEF rebuildMappingsFromTags, adoptOrphan
  <2> QED BY <1>1, <1>2, <2>2
<1> QED
  BY <1>3, <1>4, <1>5

\* An event of the listing that is distributed again: the rows of an origin that is
\* alive are as they should be, and one that is free has none.
LEMMA SettledEvents ==
  ASSUME TypeOK, Bookkeeping, Settled, Steady, Shape, JobRight, UNCHANGED <<truth, now, twin>>,
         \E o \in Origin : processEvent(o)
  PROVE  Settled' /\ Still /\ Shape' /\ JobRight'
<1> USE DEF world, store, memory, result, todo
<1>1. PICK o \in Origin : processEvent(o)
  OBVIOUS
<1> DEFINE v == batch[o]
<1>2. /\ phase = "events" /\ job = NoJob /\ op = NoOp /\ v /= NoChange
      /\ batch' = [batch EXCEPT ![o] = NoChange]
      /\ UNCHANGED <<blockers, row, op, phase, calm, healthy, later, reconciling, dirty, todo>>
      /\ \/ v = Gone
         \/ v \in Slot /\ ~InWindow(v)
         \/ v = Free /\ job' = Drop("delete", o) /\ UNCHANGED cache
         \/ /\ v \in Slot /\ InWindow(v) /\ cache' = [cache EXCEPT ![o] = v]
            /\ job' = [how |-> "upsert", o |-> o, slot |-> v, left |-> Target, failed |-> FALSE]
  BY <1>1 DEF processEvent, Ready
<1>3. v = Listing[o] /\ v = truth[o] /\ (v = Free \/ (v \in Slot /\ InWindow(v) /\ o \in alive))
  BY <1>2, AliveFacts DEF Shape, Syncing, TypeOK, alive
<1>4. Gone \notin Slot /\ Free \notin Slot
  BY ConstantsAssumption
<1>5. UNCHANGED cache
  BY <1>2, <1>3 DEF Steady, TypeOK
<1>6. /\ job' /= NoJob => job'.o = o /\ ~job'.failed
      /\ \/ job'.how = "upsert" /\ o \in alive /\ job'.slot = truth[o]
         \/ job'.how = "delete" /\ truth[o] = Free
  BY <1>2, <1>3, <1>4 DEF Drop
<1>7. alive' = alive /\ Listing' = Listing /\ \A x \in Origin : batch'[x] \in {NoChange, batch[x]}
  BY <1>2, AliveFrame DEF TypeOK
<1>8. Shape'
  BY <1>2, <1>6, <1>7 DEF Shape, Settled, Syncing, AfterEvents, AfterDiff, ListingPhases
<1>9. JobRight'
  BY <1>2, <1>6, <1>7 DEF JobRight, TypeOK
<1>10. Still
  BY <1>2, <1>5 DEF Still
<1> QED
  BY <1>2, <1>8, <1>9, <1>10 DEF Settled

\* The targets of a settled engine's job are left as they are.
LEMMA SettledJobs ==
  ASSUME TypeOK, Bookkeeping, Settled, Steady, Shape, JobRight, UNCHANGED <<truth, now, twin>>,
         \/ FinishEvent
         \/ \E t \in Target : upsertBlockerOnTarget(t) \/ deleteBlockersForOrigin(t)
  PROVE  Settled' /\ Still /\ Shape' /\ JobRight'
<1> USE DEF world, store, memory, result, todo
<1>1. job /= NoJob /\ phase = "events"
  <2>1. job /= NoJob
    <3>1. NoJob.how = "none"
      BY DEF NoJob
    <3>2. job /= NoJob \/ job.how \in {"upsert", "delete", "clear"}
      BY DEF FinishEvent, upsertBlockerOnTarget, deleteBlockersForOrigin
    <3> QED BY <3>1, <3>2
  <2> QED BY <2>1 DEF Shape, Bookkeeping, LoopShape
<1>2. /\ job \in Job /\ job.o \in Origin /\ ~job.failed /\ batch[job.o] = NoChange
      /\ \/ job.how = "upsert" /\ job.o \in alive /\ job.slot = truth[job.o]
         \/ job.how = "delete" /\ truth[job.o] = Free
  BY <1>1, JobTyped DEF Shape, JobRight
<1>3. alive' = alive /\ Listing' = Listing
  BY AliveFrame
<1>4. ASSUME UNCHANGED <<truth, now, calm, phase, cache, op, dirty, memory, todo, blockers>>,
             NEW t \in Target, job' = [job EXCEPT !.left = @ \ {t}], Still
      PROVE  Settled' /\ Shape' /\ JobRight'
  <2>1. /\ job'.how = job.how /\ job'.o = job.o /\ job'.slot = job.slot
        /\ job'.failed = job.failed
    BY <1>2, <1>4 DEF Job
  <2>2. \A b \in todoB : row[b.pair].st = "active" => row'[b.pair] = row[b.pair]
    BY <1>4 DEF Still, TypeOK
  <2>3. Shape'
    BY <1>1, <1>2, <1>3, <1>4, <2>1, <2>2
    DEF Shape, Settled, Syncing, AfterEvents, AfterDiff, ListingPhases
  <2>4. JobRight'
    BY <1>1, <1>2, <1>3, <1>4, <2>1 DEF JobRight
  <2> QED BY <1>4, <2>3, <2>4 DEF Settled
<1>5. CASE FinishEvent
  <2>1. /\ UNCHANGED <<truth, now, calm, phase, op, dirty, todo, blockers, row>>
        /\ UNCHANGED <<reconciling, batch, later, since>>
        /\ job' = NoJob /\ healthy' = healthy
        /\ \/ job.how = "delete" /\ cache' = [cache EXCEPT ![job.o] = NoSlot]
           \/ UNCHANGED cache
    BY <1>1, <1>2, <1>5 DEF FinishEvent, Shape
  <2>2. UNCHANGED cache
    <3>1. CASE job.how = "delete"
      <4>1. cache[job.o] = NoSlot
        BY <1>2, <3>1 DEF Steady
      <4> QED BY <2>1, <4>1 DEF TypeOK
    <3> QED BY <2>1, <3>1
  <2>3. Shape'
    BY <1>1, <1>3, <2>1 DEF Shape, Settled, Syncing, AfterEvents, AfterDiff, ListingPhases
  <2>4. JobRight'
    BY <1>1, <2>1 DEF JobRight
  <2> QED BY <2>1, <2>2, <2>3, <2>4 DEF Still, Settled
<1>6. ASSUME NEW t \in Target, upsertBlockerOnTarget(t)
      PROVE  Settled' /\ Still /\ Shape' /\ JobRight'
  <2> DEFINE p == <<job.o, t>>
             m == row[p]
  <2>1. /\ job.how = "upsert" /\ p \in Pair /\ p[1] = job.o /\ m \in Row
        /\ UNCHANGED <<truth, now, calm, phase, cache, dirty, memory, todo, blockers>>
        /\ job' = [job EXCEPT !.left = @ \ {t}]
    BY <1>2, <1>6 DEF upsertBlockerOnTarget, TypeOK
  <2>2. Placed(p)
    BY <1>2, <2>1 DEF Steady
  <2>3. \/ m.st = "active" /\ UNCHANGED <<row, op>>
        \/ /\ m.st = "suppressed" /\ UNCHANGED op
           /\ PutMapping(p, [m EXCEPT !.hash = job.slot])
    BY <1>2, <1>6, <2>1, <2>2 DEF upsertBlockerOnTarget, Placed
  <2>4. Still
    <3>1. [m EXCEPT !.hash = job.slot].st = m.st
      BY <2>1
    <3>2. CASE m.st = "suppressed" /\ PutMapping(p, [m EXCEPT !.hash = job.slot])
      <4>1. row' = [row EXCEPT ![p] = [m EXCEPT !.hash = job.slot]]
        BY <3>2 DEF PutMapping
      <4>2. \A q \in Pair : q /= p => row'[q] = row[q]
        BY <4>1 DEF TypeOK
      <4>3. row'[p] = [m EXCEPT !.hash = job.slot]
        BY <2>1, <4>1 DEF TypeOK
      <4> QED BY <2>1, <2>3, <3>1, <3>2, <4>2, <4>3 DEF Still
    <3> QED BY <2>1, <2>3, <3>2 DEF Still
  <2>5. UNCHANGED op
    BY <2>3
  <2> QED BY <1>4, <2>1, <2>4, <2>5
<1>7. ASSUME NEW t \in Target, deleteBlockersForOrigin(t)
      PROVE  Settled' /\ Still /\ Shape' /\ JobRight'
  <2> DEFINE p == <<job.o, t>>
  <2>1. /\ job.how = "delete" /\ truth[job.o] = Free /\ p \in Pair /\ p[1] = job.o
        /\ UNCHANGED <<truth, now, calm, phase, cache, dirty, memory, todo, blockers>>
        /\ job' = [job EXCEPT !.left = @ \ {t}]
    BY <1>2, <1>7 DEF deleteBlockersForOrigin
  <2>2. row[p].st = "none" /\ row[p].id = NoId
    BY <2>1 DEF Steady, Bookkeeping, RowShape
  <2>3. PutMapping(p, NoRow) /\ UNCHANGED op
    BY <1>7, <2>2 DEF deleteBlockersForOrigin
  <2>4. Still
    BY <2>1, <2>2, <2>3 DEF Still, PutMapping, NoRow, TypeOK
  <2> QED BY <1>4, <2>1, <2>3, <2>4
<1> QED
  BY <1>5, <1>6, <1>7

\* Whatever an undisturbed engine does next, a settled calendar stays settled.
LEMMA SettledStep ==
  ASSUME TypeOK, Bookkeeping, NamesInv, Rested, Reach, Settled, Undisturbed,
         [Next]_vars, calm' /= "no"
  PROVE  Undisturbed' /\ Still /\ op = NoOp
<1> USE DEF world, store, memory, result, todo
<1>1. Steady /\ Shape /\ JobRight /\ UNCHANGED <<truth, now, twin>>
  BY SettledSteady, CalmSteps, CalmFrame DEF Undisturbed
<1>2. op = NoOp /\ op.do = "none"
  BY <1>1 DEF Shape, NoOp
<1>3. \A o \in Origin : ~DropVanished(o) /\ ~cleanStaleMappings(o)
  BY <1>1 DEF Shape, DropVanished, cleanStaleMappings
<1>4. /\ ~CreateBlocker /\ ~PutActive /\ ~UpdateBlocker /\ ~PutTimeHash
      /\ ~DeleteBlocker /\ ~DeleteMapping
  BY <1>2 DEF CreateBlocker, PutActive, UpdateBlocker, PutTimeHash, DeleteBlocker,
              DeleteMapping
<1>5. ASSUME CursorExpires \/ UNCHANGED vars
      PROVE  Settled' /\ Still /\ Shape' /\ JobRight'
  <2>1. UNCHANGED <<truth, now, calm, phase, cache, op, dirty, memory, todo, blockers, row, job>>
    BY <1>5 DEF CursorExpires, vars
  <2>2. Still
    BY <2>1 DEF Still
  <2>3. Settled' /\ Shape' /\ JobRight'
    <3>1. /\ \A b \in todoB : row[b.pair].st = "active" /\ row[b.pair].id = b.id
          /\ phase = "restore" => \A p \in todoP : p[1] \notin alive
      BY <1>1 DEF Shape
    <3> QED BY <1>1, <2>1, <3>1, SettledLoops
  <2> QED BY <2>2, <2>3
<1>6. Settled' /\ Still /\ Shape' /\ JobRight'
  BY <1>1, <1>3, <1>4, <1>5, CalmSteps, SettledPasses, SettledPhases, SettledEvents, SettledJobs
  DEF Continue
<1>7. Steady'
  BY <1>1, <1>6, SteadyFrame DEF Still
<1>8. TypeOK'
  BY NextTyped
<1>9. TypeOK' /\ Settled' /\ Steady' /\ Shape' /\ JobRight' => Undisturbed'
  BY SteadySettles, PTL
<1> QED
  BY <1>2, <1>6, <1>7, <1>8, <1>9

-----------------------------------------------------------------------------
\* A step that keeps the phase keeps the memory in shape.
LEMMA RunningShape ==
  ASSUME calm = "running", Shape,
         UNCHANGED <<truth, now, calm, phase, later, reconciling, since, dirty>>,
         healthy', \A o \in Origin : batch'[o] \in {NoChange, batch[o]},
         job' /= NoJob => ~job'.failed
  PROVE  Shape'
<1>1. Listing' = Listing
  BY AliveFrame
<1> QED
  BY <1>1 DEF Shape, Settled, Syncing, AfterEvents, AfterDiff, ListingPhases

\* A pair that a step does not touch stays right.
LEMMA PairFrame ==
  ASSUME NEW q \in Pair, PairRight(q), UNCHANGED <<truth, now, twin, phase, calm>>,
         row'[q] = row[q],
         cache'[q[1]] = cache[q[1]] \/ (calm = "running" /\ phase \in {"diff", "events"}),
         phase = "events" => batch'[q[1]] = batch[q[1]],
         Shown(q)' = Shown(q), InView(q)' = InView(q),
         Sent(q) => Sent(q)', \A h : Left(h, q) => Left(h, q)',
         q \in todoP => q \in todoP', q[1] \in todoO => q[1] \in todoO',
         q[2] \in todoT => q[2] \in todoT',
         (\E b \in todoB : b.pair = q) => \E b \in todoB' : b.pair = q
  PROVE  PairRight(q)'
<1>1. alive' = alive /\ \A s : isDuplicateOnTarget(q, s)' = isDuplicateOnTarget(q, s)
  BY AliveFrame DEF isDuplicateOnTarget
<1>2. /\ AfterDiff' = AfterDiff /\ AfterEvents' = AfterEvents /\ AfterClean' = AfterClean
      /\ AfterPending' = AfterPending /\ AfterAdopt' = AfterAdopt
      /\ AfterRestore' = AfterRestore /\ Settled' = Settled
  BY DEF AfterDiff, AfterEvents, AfterClean, AfterPending, AfterAdopt, AfterRestore, Settled
<1>3. Taken(q[1])' => Taken(q[1])
  BY <1>2 DEF Taken, AfterEvents, AfterDiff
<1>4. Distributed(q)'
  BY <1>1, <1>3 DEF PairRight, Distributed, Placed
<1>5. Cleaned(q)'
  BY <1>2 DEF PairRight, Cleaned, AfterClean, AfterEvents, AfterDiff, Settled
<1>6. Resolved(q)' /\ Adopted(q)' /\ Restored(q)'
  BY <1>1, <1>2 DEF PairRight, Resolved, Adopted, Restored
<1>7. Reevaluated(q)'
  BY <1>1, <1>2 DEF PairRight, Reevaluated, Settled
<1> QED
  BY <1>4, <1>5, <1>6, <1>7 DEF PairRight

\* A step that leaves the blockers of a pair alone.
LEMMA ViewFrame ==
  ASSUME UNCHANGED now, NEW q,
         \A b \in blockers : b.pair = q => b \in blockers',
         \A b \in blockers' : b.pair = q => b \in blockers
  PROVE  Shown(q)' = Shown(q) /\ InView(q)' = InView(q)
BY DEF Shown, InView, InWindow, InWindowOf, EndsBeforeWindow

\* A step of the engine that works on one pair: everything else stays as it is.
Elsewhere(p) ==
  /\ UNCHANGED <<truth, now, twin, phase, calm, cache, dirty, memory, todoO, todoT>>
  /\ op \in {NoOp} \/ op.p = p
  /\ \A q \in Pair \ {p} : /\ row'[q] = row[q]
                           /\ \A b \in blockers : b.pair = q => b \in blockers'
                           /\ \A b \in blockers' : b.pair = q => b \in blockers
  /\ todoP \ {p} \subseteq todoP'
  /\ \A b \in todoB : b.pair /= p => b \in todoB'
  /\ \/ UNCHANGED job
     \/ job \in Job /\ job /= NoJob /\ p[1] = job.o /\ job' = [job EXCEPT !.left = @ \ {p[2]}]

\* The other pairs stay right.
LEMMA OthersRight ==
  ASSUME NEW p \in Pair, Elsewhere(p), NEW q \in Pair, q /= p, PairRight(q)
  PROVE  PairRight(q)'
<1>1. Shown(q)' = Shown(q) /\ InView(q)' = InView(q)
  BY ViewFrame DEF Elsewhere
<1>2. ~Sent(q)
  BY DEF Sent, Elsewhere
<1>3. ASSUME NEW h, Left(h, q)
      PROVE  Left(h, q)'
  <2>1. CASE UNCHANGED job
    BY <1>3, <2>1 DEF Left, Settled, Elsewhere
  <2>2. CASE job \in Job /\ p[1] = job.o /\ job' = [job EXCEPT !.left = @ \ {p[2]}]
    <3>1. job'.how = job.how /\ job'.o = job.o /\ job'.left = job.left \ {p[2]}
      BY <2>2 DEF Job
    <3>2. q[2] /= p[2]
      BY <1>3, <2>2 DEF Left
    <3> QED BY <1>3, <3>1, <3>2 DEF Left, Settled, Elsewhere
  <2> QED BY <2>1, <2>2 DEF Elsewhere
<1> QED
  BY <1>1, <1>2, <1>3, PairFrame DEF Elsewhere, memory, result

\* So the pair in hand is all there is to look at.
LEMMA PairStep ==
  ASSUME TypeOK, calm = "running", Undisturbed, NEW p \in Pair, Elsewhere(p),
         OpRight', PairRight(p)'
  PROVE  Undisturbed'
<1> USE DEF memory, result
<1>1. /\ UNCHANGED <<truth, now, calm, phase, cache, dirty, memory, todoO>>
      /\ alive' = alive /\ Listing' = Listing /\ Settled' = Settled
      /\ \A o : Over(o)' = Over(o)
  BY AliveFrame DEF Elsewhere, Settled, Over, EndsBeforeWindow
<1>2. /\ job'.how = job.how /\ job'.o = job.o /\ job'.slot = job.slot
      /\ job' /= NoJob => job /= NoJob /\ job'.failed = job.failed
  BY DEF Elsewhere, Job
<1>3. Shape'
  BY <1>1, <1>2, RunningShape DEF Undisturbed, Shape
<1>4. JobRight'
  BY <1>1, <1>2 DEF Undisturbed, JobRight
<1>5. AfterDiff' = AfterDiff /\ \A o : Taken(o)' = Taken(o)
  BY <1>1 DEF AfterDiff, AfterEvents, Taken
<1>6. Diffed'
  BY <1>1, <1>2, <1>5 DEF Undisturbed, Diffed
<1>7. Cached'
  BY <1>1, <1>2, <1>5 DEF Undisturbed, Cached
<1>8. \A q \in Pair : PairRight(q)'
  BY OthersRight DEF Undisturbed
<1> QED
  BY <1>3, <1>4, <1>6, <1>7, <1>8 DEF Undisturbed

\* What a pair needs in the phases of an undisturbed Reconcile while its call is in
\* progress and its row is not active or suppressed.
LEMMA SentRight ==
  ASSUME NEW p \in Pair, calm' = "running", phase' \notin {"pending", "adopt"}, Sent(p)',
         row'[p].st = "pending"
  PROVE  PairRight(p)'
BY DEF PairRight, Distributed, Cleaned, Resolved, Adopted, Restored, Reevaluated

\* While events are distributed only that is asked.
LEMMA EventRight ==
  ASSUME NEW p \in Pair, calm' = "running", phase' = "events", Distributed(p)'
  PROVE  PairRight(p)'
BY DEF PairRight, Cleaned, Resolved, Adopted, Restored, Reevaluated, Settled,
       AfterDiff, AfterEvents, AfterClean, AfterPending, AfterAdopt, AfterRestore

\* A row that is taken down.
LEMMA DownRight ==
  ASSUME NEW p \in Pair, calm' = "running", phase' \in {"diff", "events", "clean"},
         row'[p].st = "none" \/ Sent(p)', p[1] \notin alive'
  PROVE  PairRight(p)'
BY DEF PairRight, Distributed, Cleaned, Resolved, Adopted, Restored, Reevaluated, Settled,
       AfterDiff, AfterEvents, AfterClean, AfterPending, AfterAdopt, AfterRestore

\* Before the set difference is done nothing is asked of the pairs yet.
LEMMA EarlyRight ==
  ASSUME calm' = "running", phase' \in {"rebuild", "diff"}
  PROVE  Cached' /\ \A p \in Pair : PairRight(p)'
BY DEF Cached, Taken, PairRight, Distributed, Cleaned, Resolved, Adopted, Restored,
       Reevaluated, Settled, AfterDiff, AfterEvents, AfterClean, AfterPending, AfterAdopt,
       AfterRestore

-----------------------------------------------------------------------------
\* What an origin that is alive owes its pairs.
LEMMA AlivePairs ==
  ASSUME TypeOK, calm = "running", Undisturbed, NEW p \in Pair, p[1] \in alive
  PROVE  /\ phase \notin {"rebuild", "diff", "events"} => cache[p[1]] = truth[p[1]]
         /\ truth[p[1]] \in Slot /\ truth[p[1]] /= NoSlot /\ now < truth[p[1]]
         /\ ~EndsBeforeWindow(truth[p[1]]) /\ InWindow(truth[p[1]])
         /\ phase \notin {"rebuild", "diff", "events"} /\ job = NoJob /\ op = NoOp => Placed(p)
<1>1. p[1] \in Origin
  OBVIOUS
<1>2. phase \notin {"rebuild", "diff", "events"} => Taken(p[1])
  BY DEF Taken, AfterDiff, AfterEvents
<1>3. NoJob.how = "none"
  BY DEF NoJob
<1> QED
  BY <1>1, <1>2, <1>3, AliveFacts
  DEF Undisturbed, Cached, PairRight, Distributed, Sent, Left

\* A job that takes an event down has one that is not alive.
LEMMA DownNotAlive ==
  ASSUME TypeOK, calm = "running", Undisturbed, Bookkeeping, job.how \in {"delete", "clear"}
  PROVE  /\ phase \in {"diff", "events", "clean"} /\ job \in Job /\ job /= NoJob
         /\ job.o \in Origin /\ job.o \notin alive
<1>1. NoJob.how = "none"
  BY DEF NoJob
<1>2. phase \in {"diff", "events", "clean"} /\ job \in Job /\ job.o \in Origin /\ job /= NoJob
  BY <1>1, JobTyped DEF Bookkeeping, LoopShape
<1>3. CASE phase = "clean"
  <2>1. cache[job.o] = NoSlot /\ Taken(job.o)
    BY <1>2, <1>3 DEF Undisturbed, JobRight, Taken, AfterDiff, AfterEvents
  <2>2. job.o \in alive => cache[job.o] /= NoSlot
    BY <1>2, <2>1, AliveFacts DEF Undisturbed, Cached
  <2> QED BY <1>2, <2>1, <2>2
<1>4. CASE phase \in {"diff", "events"}
  BY <1>2, <1>4, AliveFacts DEF Undisturbed, JobRight
<1> QED
  BY <1>2, <1>3, <1>4

\* Taking down a row: the remote event first, then the row.
LEMMA RunningDown ==
  ASSUME TypeOK, Bookkeeping, calm = "running", Undisturbed, UNCHANGED <<truth, now, twin>>,
         \/ \E t \in Target : deleteBlockersForOrigin(t)
         \/ DeleteBlocker \/ DeleteMapping
  PROVE  Undisturbed'
<1> USE DEF world, store, memory, result, todo
<1>1. NoOp.do = "none"
  BY DEF NoOp
<1>2. alive' = alive
  BY AliveFrame
<1>3. ASSUME NEW t \in Target, deleteBlockersForOrigin(t)
      PROVE  Undisturbed'
  <2>0. /\ phase \in {"diff", "events", "clean"} /\ job \in Job /\ job /= NoJob
        /\ job.o \in Origin /\ job.o \notin alive
    BY <1>3, DownNotAlive DEF deleteBlockersForOrigin
  <2>1. PICK p \in Pair : p = <<job.o, t>> /\ p[1] = job.o /\ p[2] = t
    <3>1. <<job.o, t>> \in Pair /\ <<job.o, t>>[1] = job.o /\ <<job.o, t>>[2] = t
      BY <2>0
    <3> QED BY <3>1
  <2>2. /\ UNCHANGED <<phase, calm, cache, dirty, memory, todo, blockers>>
        /\ op = NoOp /\ job' = [job EXCEPT !.left = @ \ {t}]
        /\ \/ PutMapping(p, NoRow) /\ op' = NoOp
           \/ Call("delete", p, NoSlot, row[p].id) /\ UNCHANGED row
    BY <1>3, <2>1 DEF deleteBlockersForOrigin
  <2>3. \A q \in Pair \ {p} : row'[q] = row[q]
    BY <2>2 DEF PutMapping, TypeOK
  <2>4. Elsewhere(p)
    BY <2>0, <2>1, <2>2, <2>3 DEF Elsewhere
  <2>5. row'[p].st = "none" \/ Sent(p)'
    BY <1>1, <2>1, <2>2 DEF PutMapping, NoRow, Call, Sent, TypeOK
  <2>6. job'.o = job.o /\ job'.left = job.left \ {t} /\ job' /= NoJob
    <3>1. job'.o = job.o /\ job'.left = job.left \ {t} /\ job'.how = job.how
      BY <2>0, <2>2 DEF Job
    <3>2. job.how \in {"delete", "clear"} /\ NoJob.how = "none"
      BY <1>3 DEF deleteBlockersForOrigin, NoJob
    <3> QED BY <3>1, <3>2
  <2>7. OpRight'
    BY <1>1, <1>2, <2>0, <2>1, <2>2, <2>6 DEF OpRight, Call
  <2> QED BY <1>2, <2>0, <2>1, <2>2, <2>4, <2>5, <2>7, DownRight, PairStep
<1>4. CASE DeleteBlocker \/ DeleteMapping
  <2>0. op.do \in {"delete", "deleted"} /\ op /= NoOp /\ op.p \in Pair
    BY <1>1, <1>4, OpTyped DEF DeleteBlocker, DeleteMapping
  <2>1. PICK p \in Pair :
          /\ p = op.p /\ p[1] \notin alive /\ phase \in {"diff", "events", "clean"}
          /\ job /= NoJob /\ p[1] = job.o /\ p[2] \notin job.left
    BY <2>0 DEF Undisturbed, OpRight
  <2>2. /\ UNCHANGED <<phase, calm, cache, dirty, memory, todo, job>>
        /\ \/ DeleteEffect(p, op.id) /\ Call("deleted", p, NoSlot, op.id) /\ UNCHANGED row
           \/ PutMapping(p, NoRow) /\ op' = NoOp /\ UNCHANGED blockers
    BY <1>4, <2>1 DEF DeleteBlocker, DeleteMapping
  <2>3. /\ \A q \in Pair \ {p} : row'[q] = row[q]
        /\ \A b \in blockers : b.pair /= p => b \in blockers'
        /\ \A b \in blockers' : b \in blockers
    BY <2>2 DEF PutMapping, DeleteEffect, TypeOK
  <2>4. Elsewhere(p)
    BY <2>1, <2>2, <2>3 DEF Elsewhere
  <2>5. row'[p].st = "none" \/ Sent(p)'
    BY <1>1, <2>1, <2>2 DEF PutMapping, NoRow, Call, Sent, TypeOK
  <2>6. OpRight'
    BY <1>1, <1>2, <2>1, <2>2 DEF OpRight, Call
  <2> QED BY <1>2, <2>1, <2>2, <2>4, <2>5, <2>6, DownRight, PairStep
<1> QED
  BY <1>3, <1>4

\* An event is done: it is forgotten if it was taken down.
LEMMA RunningFinish ==
  ASSUME TypeOK, Bookkeeping, calm = "running", Undisturbed, UNCHANGED <<truth, now, twin>>,
         FinishEvent
  PROVE  Undisturbed'
<1> USE DEF world, store, memory, result, todo
<1>1. /\ UNCHANGED <<blockers, row, phase, calm, op, dirty, todo>>
      /\ UNCHANGED <<reconciling, batch, later, since>>
      /\ job /= NoJob /\ op = NoOp /\ job.left = {} /\ job' = NoJob
      /\ phase \in {"diff", "events", "clean"} /\ job.o \in Origin
  BY JobTyped DEF FinishEvent, Bookkeeping, LoopShape
<1>2. NoJob.how = "none"
  BY DEF NoJob
<1>3. /\ ~job.failed /\ healthy /\ healthy' = healthy
      /\ job.how = "delete" => cache' = [cache EXCEPT ![job.o] = NoSlot]
      /\ job.how /= "delete" => UNCHANGED cache
  BY <1>1 DEF FinishEvent, Undisturbed, Shape
<1>4. /\ alive' = alive /\ Listing' = Listing /\ Settled' = Settled /\ ~Settled
      /\ AfterDiff' = AfterDiff /\ AfterEvents' = AfterEvents /\ \A o : Taken(o)' = Taken(o)
  BY <1>1, AliveFrame DEF Settled, AfterDiff, AfterEvents, Taken
<1>5. Shape'
  BY <1>1, <1>3, RunningShape DEF Undisturbed
<1>6. phase = "clean" => UNCHANGED cache
  BY <1>1, <1>3 DEF Undisturbed, JobRight
<1>7. JobRight' /\ OpRight'
  BY <1>1, <1>4, <1>6 DEF Undisturbed, JobRight, OpRight
<1>8. \A o \in Origin : \/ cache'[o] = cache[o]
                        \/ o = job.o /\ job.how = "delete" /\ cache'[o] = NoSlot
  BY <1>3 DEF TypeOK
<1>9. Diffed'
  <2>1. \A o \in Origin : Over(o) \/ (job.how = "delete" /\ job.o = o) => Over(o)'
    BY <1>1, <1>3, <1>8 DEF Over, EndsBeforeWindow, TypeOK
  <2> QED BY <1>1, <1>4, <2>1 DEF Undisturbed, Diffed
<1>10. Cached'
  <2>1. job.how = "delete" => job.o \notin alive
    BY DownNotAlive
  <2>2. \A o \in Origin : job.how = "delete" /\ job.o = o => cache'[o] = NoSlot
    BY <1>3 DEF TypeOK
  <2> QED BY <1>1, <1>4, <1>8, <2>1, <2>2 DEF Undisturbed, Cached
<1>11. ASSUME NEW q \in Pair
       PROVE  PairRight(q)'
  <2>1. ~Sent(q) /\ \A h : ~Left(h, q)
    BY <1>1 DEF Sent, Left
  <2>2. Shown(q)' = Shown(q) /\ InView(q)' = InView(q)
    BY <1>1, ViewFrame
  <2>3. cache'[q[1]] = cache[q[1]] \/ phase \in {"diff", "events"}
    BY <1>1, <1>6
  <2>4. PairRight(q)
    BY DEF Undisturbed
  <2> QED BY <1>1, <2>1, <2>2, <2>3, <2>4, PairFrame
<1> QED
  BY <1>5, <1>7, <1>9, <1>10, <1>11 DEF Undisturbed

\* An event of the listing is taken: it is alive and every target is on the list, or
\* it is free and every row is.
LEMMA RunningEvent ==
  ASSUME TypeOK, Bookkeeping, calm = "running", Undisturbed, UNCHANGED <<truth, now, twin>>,
         NEW o \in Origin, processEvent(o)
  PROVE  Undisturbed'
<1> USE DEF world, store, memory, result, todo
<1> DEFINE v == batch[o]
<1>1. /\ phase = "events" /\ job = NoJob /\ op = NoOp /\ v /= NoChange
      /\ batch' = [batch EXCEPT ![o] = NoChange]
      /\ UNCHANGED <<blockers, row, op, phase, calm, healthy, later, reconciling, since, dirty>>
      /\ UNCHANGED todo
      /\ \/ v = Gone
         \/ v \in Slot /\ ~InWindow(v)
         \/ v = Free /\ job' = Drop("delete", o) /\ UNCHANGED cache
         \/ /\ v \in Slot /\ InWindow(v) /\ cache' = [cache EXCEPT ![o] = v]
            /\ job' = [how |-> "upsert", o |-> o, slot |-> v, left |-> Target, failed |-> FALSE]
  BY DEF processEvent, Ready
<1>2. /\ alive' = alive /\ Settled' = Settled /\ ~Settled /\ NoJob.how = "none"
      /\ AfterDiff /\ AfterDiff' /\ ~AfterEvents /\ ~AfterEvents'
  BY <1>1, AliveFrame DEF Settled, AfterDiff, AfterEvents, NoJob
<1>3. v = Listing[o] /\ v = truth[o] /\ (v = Free \/ (v \in Slot /\ InWindow(v) /\ o \in alive))
  BY <1>1, AliveFacts DEF Undisturbed, Shape, Syncing, TypeOK, alive
<1>4. Gone \notin Slot /\ Free \notin Slot
  BY ConstantsAssumption
<1>5. \/ /\ truth[o] = Free /\ o \notin alive /\ UNCHANGED cache
         /\ job'.how = "delete" /\ job'.o = o /\ job'.left = RowsOf(o) /\ ~job'.failed
      \/ /\ o \in alive /\ cache' = [cache EXCEPT ![o] = truth[o]]
         /\ job'.how = "upsert" /\ job'.o = o /\ job'.slot = truth[o] /\ job'.left = Target
         /\ ~job'.failed
  BY <1>1, <1>3, <1>4, AliveFacts DEF Drop
<1>6. /\ batch'[o] = NoChange /\ \A x \in Origin \ {o} : batch'[x] = batch[x]
      /\ \A x \in Origin \ {o} : cache'[x] = cache[x]
      /\ o \in alive => cache'[o] = truth[o]
      /\ o \notin alive => cache'[o] = cache[o]
  BY <1>1, <1>5 DEF TypeOK
<1>7. Shape'
  BY <1>1, <1>5, <1>6, RunningShape DEF Undisturbed, Shape
<1>8. JobRight'
  BY <1>1, <1>2, <1>5, <1>6 DEF JobRight
<1>9. OpRight'
  BY <1>1 DEF OpRight
<1>10. Diffed'
  <2>1. \A x \in Origin \ alive : Over(x) /\ cache'[x] = cache[x]
    BY <1>2, <1>6 DEF Undisturbed, Diffed
  <2> QED BY <1>1, <1>2, <2>1 DEF Diffed, Over, EndsBeforeWindow
<1>11. Cached'
  <2>1. ASSUME NEW x \in Origin \ {o}, Taken(x)'
        PROVE  /\ x \in alive => cache'[x] = truth[x]
               /\ truth[x] = Free => cache'[x] = NoSlot
    BY <1>1, <1>2, <1>6, <2>1 DEF Undisturbed, Cached, Taken
  <2> QED BY <1>2, <1>5, <1>6, <2>1, AliveFacts DEF Cached
<1>12. ASSUME NEW q \in Pair
       PROVE  PairRight(q)'
  <2>1. CASE q[1] /= o
    <3>1. ~Sent(q) /\ \A h : ~Left(h, q) \/ h = "none"
      BY <1>1, <1>2 DEF Sent, Left
    <3>2. Distributed(q)'
      <4>1. Taken(q[1])' => Taken(q[1])
        BY <1>2, <1>6, <2>1 DEF Taken
      <4>2. q[1] \in Origin
        OBVIOUS
      <4> QED BY <1>1, <1>2, <3>1, <4>1, <4>2 DEF Undisturbed, PairRight, Distributed, Placed
    <3> QED BY <1>1, <3>2, EventRight
  <2>2. CASE q[1] = o
    <3>1. q[2] \in Target /\ q = <<o, q[2]>>
      BY <2>2
    <3>2. o \in alive => Left("upsert", q)'
      BY <1>2, <1>5, <2>2, <3>1 DEF Left
    <3>3. truth[o] = Free => row[q].st = "none" \/ Left("delete", q)'
      BY <1>2, <1>5, <2>2, <3>1, AliveFacts DEF Left, RowsOf
    <3>4. Distributed(q)'
      BY <1>1, <1>2, <2>2, <3>2, <3>3 DEF Distributed
    <3> QED BY <1>1, <3>4, EventRight
  <2> QED BY <2>1, <2>2
<1> QED
  BY <1>7, <1>8, <1>9, <1>10, <1>11, <1>12 DEF Undisturbed

\* One target of an event that is alive: its row is right, or a call will make it so.
LEMMA RunningUpsert ==
  ASSUME TypeOK, Bookkeeping, calm = "running", Undisturbed, UNCHANGED <<truth, now, twin>>,
         NEW t \in Target, upsertBlockerOnTarget(t)
  PROVE  Undisturbed'
<1> USE DEF world, store, memory, result, todo
<1>0. NoJob.how = "none" /\ NoOp.do = "none"
  BY DEF NoJob, NoOp
<1>1. /\ job /= NoJob /\ job.how = "upsert" /\ op = NoOp
      /\ job \in Job /\ job.o \in Origin /\ job.slot \in Slot
  BY <1>0, JobTyped DEF upsertBlockerOnTarget
<1>2. phase = "events" /\ job.o \in alive /\ job.slot = truth[job.o]
  BY <1>1 DEF Undisturbed, JobRight, Bookkeeping, LoopShape
<1>3. PICK p \in Pair : p = <<job.o, t>> /\ p[1] = job.o /\ p[2] = t
  <2>1. <<job.o, t>> \in Pair /\ <<job.o, t>>[1] = job.o /\ <<job.o, t>>[2] = t
    BY <1>1
  <2> QED BY <2>1
<1>4. /\ UNCHANGED <<phase, calm, cache, dirty, memory, todo, blockers>>
      /\ job' = [job EXCEPT !.left = @ \ {t}]
  BY DEF upsertBlockerOnTarget
<1>5. row[p].st = "pending" => row[p].id = NoId
  BY DEF Bookkeeping, RowShape
<1>6. \/ PutMapping(p, Suppressed(job.slot)) /\ UNCHANGED op
      \/ PutMapping(p, Pending(job.slot)) /\ Call("create", p, job.slot, NoId)
      \/ /\ row[p].st = "suppressed" /\ UNCHANGED op
         /\ PutMapping(p, [row[p] EXCEPT !.hash = job.slot])
      \/ row[p].st = "active" /\ Call("update", p, job.slot, row[p].id) /\ UNCHANGED row
      \/ row[p].st = "active" /\ row[p].hash = job.slot /\ UNCHANGED <<row, op>>
  BY <1>3, <1>5 DEF upsertBlockerOnTarget, TypeOK
<1>7. \A q \in Pair \ {p} : row'[q] = row[q]
  BY <1>6 DEF PutMapping, TypeOK
<1>8. Elsewhere(p)
  BY <1>1, <1>3, <1>4, <1>7 DEF Elsewhere
<1>9. job'.o = job.o /\ job'.left = job.left \ {t} /\ job' /= NoJob
  <2>1. job'.o = job.o /\ job'.left = job.left \ {t} /\ job'.how = job.how
    BY <1>1, <1>4 DEF Job
  <2> QED BY <1>0, <1>1, <2>1
<1>10. alive' = alive
  BY AliveFrame
<1>11. OpRight'
  BY <1>0, <1>1, <1>2, <1>3, <1>4, <1>6, <1>9, <1>10 DEF OpRight, Call
<1>12. Placed(p)' \/ Sent(p)'
  <2>1. CASE PutMapping(p, Suppressed(job.slot))
    BY <2>1 DEF PutMapping, Suppressed, Placed, TypeOK
  <2>2. CASE Call("create", p, job.slot, NoId) \/ Call("update", p, job.slot, row[p].id)
    BY <1>0, <2>2 DEF Call, Sent
  <2>3. CASE row[p].st = "suppressed" /\ PutMapping(p, [row[p] EXCEPT !.hash = job.slot])
    <3>1. [row[p] EXCEPT !.hash = job.slot].st = "suppressed"
      BY <2>3 DEF TypeOK
    <3>2. row'[p] = [row[p] EXCEPT !.hash = job.slot]
      BY <2>3 DEF PutMapping, TypeOK
    <3> QED BY <3>1, <3>2 DEF Placed
  <2>4. CASE row[p].st = "active" /\ row[p].hash = job.slot /\ UNCHANGED row
    BY <1>2, <1>3, <2>4 DEF Placed
  <2> QED BY <1>6, <2>1, <2>2, <2>3, <2>4
<1>13. Distributed(p)'
  BY <1>2, <1>3, <1>10, <1>12, AliveFacts DEF Distributed
<1> QED
  BY <1>2, <1>4, <1>8, <1>11, <1>13, EventRight, PairStep

\* Where a call that writes a slot stands: its pair is alive, and the slot is the one
\* the calendar asks for.
LEMMA WritingCall ==
  ASSUME TypeOK, Bookkeeping, calm = "running", Undisturbed, Writing
  PROVE  /\ op /= NoOp /\ op.p \in Pair /\ op.p[1] \in alive /\ op.slot = truth[op.p[1]]
         /\ phase \in {"events", "restore", "suppressed"}
         /\ phase = "events" => job /= NoJob /\ op.p[1] = job.o /\ op.p[2] \notin job.left
<1>1. op /= NoOp /\ op.p \in Pair
  BY OpTyped DEF Writing, NoOp
<1>2. /\ op.p[1] \in alive /\ op.slot = truth[op.p[1]]
      /\ phase \in {"diff", "events", "clean", "restore", "suppressed"}
      /\ phase \in {"diff", "events", "clean"} =>
           job /= NoJob /\ op.p[1] = job.o /\ op.p[2] \notin job.left
  BY <1>1 DEF Undisturbed, OpRight, Writing
<1>3. phase \in {"diff", "clean"} => job.how \in {"delete", "clear"}
  BY <1>2 DEF Undisturbed, JobRight
<1>4. phase \notin {"diff", "clean"}
  BY <1>2, <1>3, DownNotAlive
<1> QED
  BY <1>1, <1>2, <1>4

\* CreateBlocker leaves the intent row and shows the blocker at its slot.
LEMMA RunningCreate ==
  ASSUME TypeOK, Bookkeeping, AtMostOneBlocker, calm = "running", Undisturbed,
         UNCHANGED <<truth, now, twin>>, CreateBlocker
  PROVE  Undisturbed'
<1> USE DEF world, store, memory, result, todo
<1>0. NoOp.do = "none"
  BY DEF NoOp
<1>1. PICK p \in Pair : p = op.p
  BY OpTyped DEF CreateBlocker
<1>2. /\ op /= NoOp /\ p[1] \in alive /\ op.slot = truth[p[1]] /\ op.slot \in Slot
      /\ phase \in {"events", "restore", "suppressed"}
      /\ phase = "events" => job /= NoJob /\ p[1] = job.o /\ p[2] \notin job.left
  BY <1>1, WritingCall, OpTyped DEF Writing, CreateBlocker
<1>3. PICK i : CreateEffect(p, op.slot, i) /\ Call("created", p, op.slot, i)
  BY <1>1 DEF CreateBlocker
<1>4. UNCHANGED <<phase, calm, cache, dirty, memory, todo, job, row>>
  BY DEF CreateBlocker
<1>5. \A b \in blockers' : b.pair /= p => b \in blockers
  BY <1>3, CreateTouches
<1>6. \A b \in blockers : b.pair /= p => b \in blockers'
  BY <1>3 DEF CreateEffect, Align, Insert, Live
<1>7. \E b \in blockers' : b.pair = p /\ b.slot = op.slot
  <2>1. CASE Align(p, op.slot, i)
    <3>1. PICK b \in blockers : /\ b.pair = p
                                /\ blockers' = (blockers \ {b}) \cup {[b EXCEPT !.slot = op.slot]}
      BY <2>1 DEF Align, Live
    <3>2. [b EXCEPT !.slot = op.slot].pair = p /\ [b EXCEPT !.slot = op.slot].slot = op.slot
      BY <3>1 DEF TypeOK
    <3> QED BY <3>1, <3>2
  <2>2. CASE Insert(p, op.slot, i)
    <3> DEFINE new == [pair |-> p, id |-> i, slot |-> op.slot]
    <3>1. new \in blockers' /\ new.pair = p /\ new.slot = op.slot
      BY <2>2 DEF Insert
    <3> QED BY <3>1
  <2> QED BY <1>3, <2>1, <2>2 DEF CreateEffect
<1>8. Elsewhere(p)
  BY <1>1, <1>4, <1>5, <1>6 DEF Elsewhere
<1>9. alive' = alive
  BY AliveFrame
<1>10. op'.do = "created" /\ op'.p = p /\ op'.slot = op.slot /\ op' /= NoOp
  BY <1>0, <1>3 DEF Call
<1>11. OpRight'
  BY <1>2, <1>4, <1>7, <1>9, <1>10 DEF OpRight
<1>12. row'[p].st = "pending"
  BY <1>1, <1>4 DEF Bookkeeping, OpShape, Pending, CreateBlocker
<1>13. Sent(p)'
  BY <1>10 DEF Sent
<1>14. PairRight(p)'
  BY <1>2, <1>4, <1>12, <1>13, SentRight
<1> QED
  BY <1>8, <1>11, <1>14, PairStep

\* A row that is written after the call: it names a blocker that is in view, or the
\* events are still being distributed.
LEMMA RunningRecord ==
  ASSUME TypeOK, Bookkeeping, calm = "running", Undisturbed,
         UNCHANGED <<truth, now, twin>>, PutActive \/ PutTimeHash
  PROVE  Undisturbed'
<1> USE DEF world, store, memory, result, todo
<1>1. PICK p \in Pair : p = op.p
  BY OpTyped DEF PutActive, PutTimeHash
<1>2. /\ op /= NoOp /\ p[1] \in alive /\ op.slot = truth[p[1]]
      /\ phase \in {"events", "restore", "suppressed"}
  BY <1>1, WritingCall DEF Writing, PutActive, PutTimeHash
<1>3. UNCHANGED <<phase, calm, cache, dirty, memory, todo, job, blockers>> /\ op' = NoOp
  BY DEF PutActive, PutTimeHash
<1>4. /\ row'[p].st = "active" /\ row'[p].hash = op.slot
      /\ \A q \in Pair \ {p} : row'[q] = row[q]
  <2>1. CASE PutActive
    BY <1>1, <2>1 DEF PutActive, PutMapping, Active, TypeOK
  <2>2. CASE PutTimeHash
    <3>1. row[p] \in Row /\ row[p].st = "active"
      BY <1>1, <2>2 DEF PutTimeHash, Bookkeeping, OpShape, TypeOK
    <3>2. row' = [row EXCEPT ![p] = [row[p] EXCEPT !.hash = op.slot]]
      BY <1>1, <2>2 DEF PutTimeHash, PutMapping
    <3>3. row'[p] = [row[p] EXCEPT !.hash = op.slot]
      BY <3>2 DEF TypeOK
    <3>4. /\ [row[p] EXCEPT !.hash = op.slot].st = "active"
          /\ [row[p] EXCEPT !.hash = op.slot].hash = op.slot
      BY <3>1
    <3> QED BY <3>2, <3>3, <3>4 DEF TypeOK
  <2> QED BY <2>1, <2>2
<1>5. Elsewhere(p)
  BY <1>1, <1>3, <1>4 DEF Elsewhere
<1>6. OpRight'
  BY <1>3 DEF OpRight
<1>7. alive' = alive /\ Placed(p)'
  BY <1>2, <1>4, AliveFrame DEF Placed
<1>8. truth[p[1]] /= Free /\ truth[p[1]] \in Slot /\ InWindow(truth[p[1]]) /\ truth[p[1]] /= NoSlot
  BY <1>2, AliveFacts
<1>9. Distributed(p)'
  BY <1>7, <1>8 DEF Distributed
<1>10. CASE phase = "events"
  BY <1>3, <1>5, <1>6, <1>9, <1>10, EventRight, PairStep
<1>11. CASE phase /= "events"
  <2>1. op.do = "created" /\ \E b \in blockers : b.pair = p /\ b.slot = op.slot
    BY <1>1, <1>2, <1>11 DEF PutActive, PutTimeHash, Undisturbed, OpRight
  <2>2. InView(p)'
    BY <1>2, <1>3, <1>8, <2>1, AliveFrame DEF InView, InWindow, InWindowOf
  <2>3. cache'[p[1]] /= NoSlot
    BY <1>2, <1>3, <1>8, <1>11, AlivePairs
  <2>4. PairRight(p)'
    BY <1>2, <1>4, <1>9, <2>2, <2>3
    DEF PairRight, Cleaned, Resolved, Adopted, Restored, Reevaluated
  <2> QED BY <1>5, <1>6, <2>4, PairStep
<1> QED
  BY <1>10, <1>11

\* UpdateBlocker goes on with the update or falls back to the intent.
LEMMA RunningUpdate ==
  ASSUME TypeOK, Bookkeeping, calm = "running", Undisturbed,
         UNCHANGED <<truth, now, twin>>, UpdateBlocker
  PROVE  Undisturbed'
<1> USE DEF world, store, memory, result, todo
<1>0. NoOp.do = "none"
  BY DEF NoOp
<1>1. PICK p \in Pair : p = op.p
  BY OpTyped DEF UpdateBlocker
<1>2. /\ op /= NoOp /\ p[1] \in alive /\ op.slot = truth[p[1]] /\ op.slot \in Slot
      /\ phase = "events" /\ job /= NoJob /\ p[1] = job.o /\ p[2] \notin job.left
  <2>1. op.do = "update" /\ op /= NoOp
    BY <1>0 DEF UpdateBlocker
  <2>2. phase = "events"
    BY <2>1 DEF Undisturbed, OpRight
  <2> QED BY <1>1, <2>1, <2>2, WritingCall, OpTyped DEF Writing
<1>3. /\ UNCHANGED <<phase, calm, cache, dirty, memory, todo, job>>
      /\ \/ Align(p, op.slot, op.id) /\ Call("updated", p, op.slot, op.id) /\ UNCHANGED row
         \/ createFromMapping(p, op.slot) /\ UNCHANGED blockers
         \/ Call("updated", p, op.slot, op.id) /\ UNCHANGED <<row, blockers>>
  BY <1>1 DEF UpdateBlocker
<1>4. \A q \in Pair \ {p} : row'[q] = row[q]
  BY <1>3 DEF createFromMapping, PutMapping, TypeOK
<1>5. \A b \in blockers' : b.pair /= p => b \in blockers
  BY <1>3, AlignTouches
<1>6. \A b \in blockers : b.pair /= p => b \in blockers'
  BY <1>3 DEF Align, Live
<1>7. Elsewhere(p)
  BY <1>1, <1>3, <1>4, <1>5, <1>6 DEF Elsewhere
<1>8. alive' = alive
  BY AliveFrame
<1>9. op'.do \in {"create", "updated"} /\ op'.p = p /\ op'.slot = op.slot /\ op' /= NoOp
  BY <1>0, <1>3 DEF Call, createFromMapping
<1>10. OpRight'
  BY <1>2, <1>3, <1>8, <1>9 DEF OpRight
<1>11. Sent(p)'
  BY <1>9 DEF Sent
<1>12. Distributed(p)'
  BY <1>11 DEF Distributed
<1> QED
  BY <1>2, <1>3, <1>7, <1>10, <1>12, EventRight, PairStep

-----------------------------------------------------------------------------
\* The loops that take an origin: nothing is disturbed but the job.
LEMMA RunningDrop ==
  ASSUME TypeOK, Bookkeeping, calm = "running", Undisturbed, UNCHANGED <<truth, now, twin>>,
         NEW o \in Origin, DropVanished(o) \/ cleanStaleMappings(o)
  PROVE  Undisturbed'
<1> USE DEF world, store, memory, result, todo
<1>1. /\ phase \in {"diff", "clean"} /\ job = NoJob /\ op = NoOp /\ o \in todoO
      /\ todoO' = todoO \ {o}
      /\ UNCHANGED <<blockers, cache, row, phase, calm, dirty, memory, op, todoP, todoB, todoT>>
      /\ phase = "diff" => job' = Drop("delete", o)
      /\ phase = "clean" => job' = Drop("clear", o)
  BY DEF DropVanished, cleanStaleMappings, Ready
<1>2. /\ job'.o = o /\ ~job'.failed /\ job'.left = RowsOf(o)
      /\ phase = "diff" => job'.how = "delete"
      /\ phase = "clean" => job'.how = "clear"
  BY <1>1 DEF Drop
<1>3. /\ alive' = alive /\ Listing' = Listing /\ Settled' = Settled /\ ~Settled
      /\ AfterDiff' = AfterDiff /\ \A x : Taken(x)' = Taken(x)
      /\ NoJob.how = "none"
  BY <1>1, AliveFrame DEF Settled, AfterDiff, AfterEvents, Taken, NoJob
<1>4. Shape'
  BY <1>1, <1>2, RunningShape DEF Undisturbed, Shape
<1>5. JobRight' /\ OpRight'
  BY <1>1, <1>2, <1>3 DEF Undisturbed, JobRight, OpRight
<1>6. Diffed'
  BY <1>1, <1>2, <1>3 DEF Undisturbed, Diffed, Over, EndsBeforeWindow
<1>7. Cached'
  BY <1>1, <1>3 DEF Undisturbed, Cached
<1>8. ASSUME NEW q \in Pair
      PROVE  PairRight(q)'
  <2>1. ~Sent(q) /\ \A h : ~Left(h, q) \/ h = "none"
    BY <1>1, <1>3 DEF Sent, Left
  <2>2. Shown(q)' = Shown(q) /\ InView(q)' = InView(q)
    BY <1>1, ViewFrame
  <2>3. PairRight(q)
    BY DEF Undisturbed
  <2>4. CASE phase = "diff"
    BY <1>1, <2>4, EarlyRight
  <2>5. CASE phase = "clean"
    <3>1. Distributed(q)'
      BY <1>1, <1>3, <2>1, <2>3 DEF PairRight, Distributed, Placed
    <3>2. Cleaned(q)'
      <4>1. SUFFICES ASSUME row[q].st = "active", cache[q[1]] = NoSlot
                     PROVE  q[1] \in todoO' \/ Left("clear", q)'
        BY <1>1, <1>3, <2>5 DEF Cleaned, AfterClean
      <4>2. q[1] \in todoO
        BY <2>1, <2>3, <2>5, <4>1 DEF PairRight, Cleaned
      <4>3. CASE q[1] = o
        <5>1. q[2] \in RowsOf(o)
          <6>1. q[2] \in Target /\ q = <<o, q[2]>>
            BY <4>3
          <6> QED BY <4>1, <6>1 DEF RowsOf
        <5> QED BY <1>2, <1>3, <2>5, <4>3, <5>1 DEF Left
      <4> QED BY <1>1, <4>2, <4>3
    <3>3. Resolved(q)' /\ Adopted(q)' /\ Restored(q)' /\ Reevaluated(q)'
      BY <1>1, <1>3, <2>5 DEF Resolved, Adopted, Restored, Reevaluated,
         AfterPending, AfterAdopt, AfterRestore, AfterClean
    <3> QED BY <3>1, <3>2, <3>3 DEF PairRight
  <2> QED BY <1>1, <2>4, <2>5
<1> QED
  BY <1>4, <1>5, <1>6, <1>7, <1>8 DEF Undisturbed

\* An intent that nothing alive stands behind is dropped.
LEMMA RunningResolve ==
  ASSUME TypeOK, Bookkeeping, calm = "running", Undisturbed, UNCHANGED <<truth, now, twin>>,
         NEW p \in Pair, resolvePending(p)
  PROVE  Undisturbed'
<1> USE DEF world, store, memory, result, todo
<1>1. /\ phase = "pending" /\ job = NoJob /\ op = NoOp /\ row[p].st = "pending"
      /\ todoP' = todoP \ {p}
      /\ UNCHANGED <<phase, calm, blockers, cache, dirty, memory, todoO, todoB, todoT, job>>
  BY DEF resolvePending, Ready, Bookkeeping, LoopShape
<1>2. p[1] \in Origin /\ p[1] \notin alive
  BY <1>1, AlivePairs DEF Placed
<1>3. Over(p[1])
  BY <1>1, <1>2 DEF Undisturbed, Diffed, AfterDiff
<1>4. PutMapping(p, NoRow) /\ op' = NoOp
  BY <1>1, <1>3 DEF resolvePending, Over
<1>5. row'[p].st = "none" /\ \A q \in Pair \ {p} : row'[q] = row[q]
  BY <1>4 DEF PutMapping, NoRow, TypeOK
<1>6. Elsewhere(p)
  BY <1>1, <1>5 DEF Elsewhere
<1>7. OpRight'
  BY <1>4 DEF OpRight
<1>8. alive' = alive
  BY AliveFrame
<1>9. PairRight(p)'
  BY <1>1, <1>2, <1>5, <1>8
  DEF PairRight, Distributed, Cleaned, Resolved, Adopted, Restored, Reevaluated,
      AfterPending, AfterAdopt, AfterClean, AfterEvents, AfterDiff, Settled
<1> QED
  BY <1>6, <1>7, <1>9, PairStep

\* Whatever the listing shows without a row is deleted, or adopted for an event that
\* is over.
LEMMA RunningAdopt ==
  ASSUME TypeOK, Bookkeeping, NamesInv, calm = "running", Undisturbed,
         UNCHANGED <<truth, now, twin>>, NEW b \in todoB, adoptOrphan(b)
  PROVE  Undisturbed'
<1> USE DEF world, store, memory, result, todo
<1>1. PICK p \in Pair : p = b.pair
  BY DEF TypeOK
<1>2. /\ phase = "adopt" /\ job = NoJob /\ op = NoOp /\ op' = NoOp /\ todoB' = todoB \ {b}
      /\ UNCHANGED <<phase, calm, cache, dirty, memory, todoO, todoP, todoT, job>>
      /\ \/ IsBlocker(b) /\ UNCHANGED <<row, blockers>>
         \/ /\ blockers' = {c \in blockers : ~(c.pair = p /\ c.id = b.id)}
            /\ UNCHANGED row
         \/ /\ cache[p[1]] /= NoSlot /\ row[p].st = "none"
            /\ PutMapping(p, Active(b.id, Unknown)) /\ UNCHANGED blockers
  BY <1>1 DEF adoptOrphan, Ready, Bookkeeping, LoopShape
<1>3. /\ \A q \in Pair \ {p} : row'[q] = row[q]
      /\ \A c \in blockers : c.pair /= p => c \in blockers'
      /\ \A c \in blockers' : c \in blockers
  BY <1>2 DEF PutMapping, TypeOK
<1>4. Elsewhere(p)
  BY <1>1, <1>2, <1>3 DEF Elsewhere
<1>5. OpRight'
  BY <1>2 DEF OpRight
<1>6. /\ alive' = alive /\ Settled' = Settled /\ ~Settled /\ ~AfterAdopt' /\ ~AfterRestore'
      /\ AfterClean' = AfterClean /\ AfterPending' = AfterPending
      /\ Taken(p[1])' /\ Taken(p[1]) /\ p[1] \in Origin
  BY <1>2, AliveFrame DEF Settled, Taken, AfterDiff, AfterEvents, AfterClean, AfterPending,
     AfterAdopt, AfterRestore
<1>7. PairRight(p) /\ ~Sent(p) /\ (\A h : ~Left(h, p) \/ h = "none")
  BY <1>2 DEF Undisturbed, Sent, Left, NoJob
<1>8. Restored(p)' /\ Reevaluated(p)'
  BY <1>2, <1>6 DEF Restored, Reevaluated
<1>9. CASE IsBlocker(b) /\ UNCHANGED <<row, blockers>>
  <2>1. row[p].st = "active"
    <3>1. row[p].id = b.id /\ b.id \in Nat
      BY <1>1, <1>9 DEF IsBlocker, TypeOK
    <3>2. row[p].id /= NoId
      BY <3>1
    <3> QED BY <3>2 DEF Bookkeeping, RowShape
  <2>2. Distributed(p)' /\ Cleaned(p)' /\ Resolved(p)'
    BY <1>2, <1>6, <1>7, <1>9, <2>1 DEF PairRight, Distributed, Placed, Cleaned, Resolved
  <2>3. Adopted(p)'
    BY <1>9, <2>1 DEF Adopted
  <2> QED BY <1>4, <1>5, <1>8, <2>2, <2>3, PairStep DEF PairRight
<1>10. CASE blockers' = {c \in blockers : ~(c.pair = p /\ c.id = b.id)} /\ UNCHANGED row
  <2>1. Distributed(p)' /\ Cleaned(p)' /\ Resolved(p)'
    BY <1>2, <1>6, <1>7, <1>10 DEF PairRight, Distributed, Placed, Cleaned, Resolved
  <2>2. \A c \in blockers' : c.pair /= p
    BY <1>1, <1>10 DEF NamesInv, ListedNames
  <2>3. Adopted(p)'
    BY <2>2 DEF Adopted, Shown
  <2> QED BY <1>4, <1>5, <1>8, <2>1, <2>3, PairStep DEF PairRight
<1>11. CASE /\ cache[p[1]] /= NoSlot /\ row[p].st = "none"
            /\ PutMapping(p, Active(b.id, Unknown)) /\ UNCHANGED blockers
  <2>1. p[1] \notin alive
    BY <1>2, <1>11, AlivePairs DEF Placed
  <2>2. truth[p[1]] /= Free
    BY <1>2, <1>6, <1>11 DEF Undisturbed, Cached, NoJob
  <2>3. row'[p].st = "active"
    BY <1>11 DEF PutMapping, Active, TypeOK
  <2>4. PairRight(p)'
    BY <1>2, <1>6, <1>8, <1>11, <2>1, <2>2, <2>3
    DEF PairRight, Distributed, Cleaned, Resolved, Adopted
  <2> QED BY <1>4, <1>5, <2>4, PairStep
<1> QED
  BY <1>2, <1>9, <1>10, <1>11

-----------------------------------------------------------------------------
\* The row of an origin that is alive whose blocker is missing goes back to an intent;
\* the others have ended.
LEMMA RunningRestore ==
  ASSUME TypeOK, Bookkeeping, calm = "running", Undisturbed, UNCHANGED <<truth, now, twin>>,
         NEW p \in Pair, restoreMissingBlockers(p)
  PROVE  Undisturbed'
<1> USE DEF world, store, memory, result, todo
<1>0. NoOp.do = "none"
  BY DEF NoOp
<1>1. /\ phase = "restore" /\ job = NoJob /\ op = NoOp /\ todoP' = todoP \ {p}
      /\ UNCHANGED <<phase, calm, blockers, cache, dirty, memory, todoO, todoB, todoT, job>>
  BY DEF restoreMissingBlockers, Ready
<1>2. since = now /\ p[1] \in Origin
  BY <1>1 DEF Undisturbed, Shape, ListingPhases
<1>3. alive' = alive
  BY AliveFrame
<1>4. CASE p[1] \in alive
  <2>1. /\ cache[p[1]] = truth[p[1]] /\ truth[p[1]] /= NoSlot
        /\ now < truth[p[1]] /\ truth[p[1]] \in Slot
    BY <1>1, <1>4, AlivePairs
  <2>2. ~(truth[p[1]] <= now)
    BY <2>1, ConstantsAssumption DEF TypeOK
  <2>3. createFromMapping(p, truth[p[1]])
    BY <1>2, <2>1, <2>2 DEF restoreMissingBlockers
  <2>4. /\ row'[p].st = "pending" /\ \A q \in Pair \ {p} : row'[q] = row[q]
        /\ op'.do = "create" /\ op'.p = p /\ op'.slot = truth[p[1]] /\ op' /= NoOp
    BY <1>0, <2>3 DEF createFromMapping, PutMapping, Pending, Call, TypeOK
  <2>5. Elsewhere(p)
    BY <1>1, <2>4 DEF Elsewhere
  <2>6. OpRight'
    BY <1>1, <1>3, <1>4, <2>4 DEF OpRight
  <2>7. PairRight(p)'
    BY <1>1, <2>4, SentRight DEF Sent
  <2> QED BY <2>5, <2>6, <2>7, PairStep
<1>5. CASE p[1] \notin alive
  <2>1. cache[p[1]] = NoSlot \/ cache[p[1]] <= since
    BY <1>1, <1>2, <1>5 DEF Undisturbed, Diffed, AfterDiff, Over, EndsBeforeWindow
  <2>2. UNCHANGED <<row, op>>
    BY <2>1 DEF restoreMissingBlockers
  <2>3. Elsewhere(p)
    BY <1>1, <2>2 DEF Elsewhere
  <2>4. OpRight'
    BY <1>1, <2>2 DEF OpRight
  <2>5. Shown(p)' = Shown(p) /\ Sent(p)' = Sent(p) /\ \A h : Left(h, p)' = Left(h, p)
    BY <1>1, <2>2, ViewFrame DEF Sent, Left, Settled
  <2>6. Distributed(p)'
    BY <1>1, <1>3, <2>2, <2>5
    DEF Undisturbed, PairRight, Distributed, Taken, Placed, AfterDiff, AfterEvents, Settled
  <2>7. Cleaned(p)' /\ Resolved(p)' /\ Adopted(p)'
    BY <1>1, <2>2, <2>5 DEF Undisturbed, PairRight, Cleaned, Resolved, Adopted,
       AfterDiff, AfterEvents, AfterClean, AfterPending, AfterAdopt, Settled
  <2>8. Restored(p)' /\ Reevaluated(p)'
    BY <1>1, <1>3, <1>5 DEF Undisturbed, PairRight, Restored, Reevaluated, Settled
  <2> QED BY <2>3, <2>4, <2>6, <2>7, <2>8, PairStep DEF PairRight
<1> QED
  BY <1>4, <1>5

\* A suppressed row without its twin goes to an intent if its origin is alive, and one
\* without its origin is dropped.
LEMMA RunningReevaluate ==
  ASSUME TypeOK, Bookkeeping, calm = "running", Undisturbed, UNCHANGED <<truth, now, twin>>,
         NEW p \in Pair, reevaluateSuppressed(p)
  PROVE  Undisturbed'
<1> USE DEF world, store, memory, result, todo
<1>0. NoOp.do = "none" /\ NoJob.how = "none"
  BY DEF NoOp, NoJob
<1>1. /\ phase = "suppressed" /\ job = NoJob /\ op = NoOp /\ todoP' = todoP \ {p}
      /\ row[p].st = "suppressed" /\ p[1] \in Origin
      /\ UNCHANGED <<phase, calm, blockers, cache, dirty, memory, todoO, todoB, todoT, job>>
  BY DEF reevaluateSuppressed, Ready, Bookkeeping, LoopShape
<1>2. /\ alive' = alive /\ Shown(p)' = Shown(p)
      /\ \A s : EndsBeforeWindow(s)' = EndsBeforeWindow(s)
                /\ isDuplicateOnTarget(p, s)' = isDuplicateOnTarget(p, s)
  BY <1>1, AliveFrame, ViewFrame DEF isDuplicateOnTarget
<1>3. Shown(p) = {}
  <2>1. ~Sent(p) /\ AfterAdopt
    BY <1>1 DEF Sent, AfterAdopt, AfterPending, AfterClean, AfterEvents, AfterDiff
  <2> QED BY <1>1, <2>1 DEF Undisturbed, PairRight, Adopted
<1>4. /\ p[1] \in alive => /\ cache[p[1]] = truth[p[1]] /\ truth[p[1]] /= NoSlot
                           /\ ~EndsBeforeWindow(truth[p[1]])
      /\ p[1] \notin alive => Over(p[1])
  BY <1>1, AlivePairs DEF Undisturbed, Diffed, AfterDiff
<1>5. CASE cache[p[1]] = NoSlot /\ PutMapping(p, NoRow) /\ UNCHANGED op
  <2>1. row'[p].st = "none" /\ \A q \in Pair \ {p} : row'[q] = row[q]
    BY <1>5 DEF PutMapping, NoRow, TypeOK
  <2>2. Elsewhere(p)
    BY <1>1, <2>1 DEF Elsewhere
  <2>3. OpRight'
    BY <1>1, <1>5 DEF OpRight
  <2>4. PairRight(p)'
    BY <1>2, <1>3, <1>4, <1>5, <2>1
    DEF PairRight, Distributed, Cleaned, Resolved, Adopted, Restored, Reevaluated
  <2> QED BY <2>2, <2>3, <2>4, PairStep
<1>6. CASE /\ cache[p[1]] /= NoSlot /\ UNCHANGED <<row, op>>
           /\ EndsBeforeWindow(cache[p[1]]) \/ isDuplicateOnTarget(p, cache[p[1]])
  <2>1. Elsewhere(p)
    BY <1>1, <1>6 DEF Elsewhere
  <2>2. OpRight'
    BY <1>1, <1>6 DEF OpRight
  <2>3. Distributed(p)'
    BY <1>1, <1>6, AliveFacts, <1>2 DEF Undisturbed, PairRight, Distributed, Taken, Placed,
       AfterDiff, AfterEvents, Settled, Sent, Left
  <2>4. Reevaluated(p)'
    BY <1>1, <1>2, <1>4, <1>6 DEF Reevaluated
  <2>5. Cleaned(p)' /\ Resolved(p)' /\ Adopted(p)' /\ Restored(p)'
    BY <1>1, <1>2, <1>3, <1>6 DEF Cleaned, Resolved, Adopted, Restored
  <2> QED BY <2>1, <2>2, <2>3, <2>4, <2>5, PairStep DEF PairRight
<1>7. CASE /\ cache[p[1]] /= NoSlot /\ ~EndsBeforeWindow(cache[p[1]])
           /\ createFromMapping(p, cache[p[1]])
  <2>1. p[1] \in alive
    BY <1>4, <1>7 DEF Over
  <2>2. /\ row'[p].st = "pending" /\ \A q \in Pair \ {p} : row'[q] = row[q]
        /\ op'.do = "create" /\ op'.p = p /\ op'.slot = truth[p[1]] /\ op' /= NoOp
    BY <1>0, <1>4, <1>7, <2>1 DEF createFromMapping, PutMapping, Pending, Call, TypeOK
  <2>3. Elsewhere(p)
    BY <1>1, <2>2 DEF Elsewhere
  <2>4. OpRight'
    BY <1>1, <1>2, <2>1, <2>2 DEF OpRight
  <2>5. PairRight(p)'
    BY <1>1, <2>2, SentRight DEF Sent
  <2> QED BY <2>3, <2>4, <2>5, PairStep
<1> QED
  BY <1>5, <1>6, <1>7 DEF reevaluateSuppressed

\* A step of the loops in which only the lists of what is left change.
LEMMA RunningLists ==
  ASSUME TypeOK, calm = "running", Undisturbed,
         UNCHANGED <<truth, now, twin, phase, calm, blockers, cache, dirty, memory, todoO,
                     job, op>>,
         op = NoOp, \A p \in Pair : PairRight(p)'
  PROVE  Undisturbed'
<1> USE DEF memory, result
<1>1. alive' = alive /\ Listing' = Listing /\ Settled' = Settled /\ \A o : Over(o)' = Over(o)
  BY AliveFrame DEF Settled, Over, EndsBeforeWindow
<1>2. AfterDiff' = AfterDiff /\ \A o : Taken(o)' = Taken(o)
  BY <1>1 DEF AfterDiff, AfterEvents, Taken
<1>3. Shape'
  BY <1>1, RunningShape DEF Undisturbed, Shape
<1>4. JobRight' /\ OpRight'
  BY <1>1 DEF Undisturbed, JobRight, OpRight
<1>5. Diffed' /\ Cached'
  BY <1>1, <1>2 DEF Undisturbed, Diffed, Cached
<1> QED
  BY <1>3, <1>4, <1>5 DEF Undisturbed

\* The listing of an account shows every blocker that is not over, because none is
\* beyond the window.
LEMMA RunningList ==
  ASSUME TypeOK, Reach, calm = "running", Undisturbed, UNCHANGED <<truth, now, twin>>,
         NEW t \in Target, ListAccount(t)
  PROVE  Undisturbed'
<1> USE DEF world, store, memory, result, todo
<1>1. /\ UNCHANGED <<phase, calm, blockers, cache, row, dirty, memory, todoO, job, op>>
      /\ job = NoJob /\ op = NoOp /\ todoB = {} /\ todoP = {} /\ todoT' = todoT \ {t}
      /\ phase = "restore" => todoP' = Missing(t)
      /\ phase /= "restore" => todoP' = todoP /\ todoB' = ListBlockers(t)
  BY DEF ListAccount, Ready
<1>2. phase \in ListingPhases => since = now
  BY DEF Undisturbed, Shape
<1>3. ASSUME NEW b \in blockers, since = now
      PROVE  /\ ~EndsBeforeWindow(b.slot) /\ b.pair[2] = t => b \in ListBlockers(t)
             /\ b \in ListBlockers(t) => InWindow(b.slot)
  <2>1. b.slot \in Nat /\ now \in Nat /\ b.slot <= now + Horizon
    BY ConstantsAssumption DEF TypeOK, Reach
  <2> QED BY <1>3, <2>1 DEF ListBlockers, InWindow, InWindowOf, EndsBeforeWindow
<1>4. ASSUME NEW q \in Pair
      PROVE  PairRight(q)'
  <2>1. /\ alive' = alive /\ Shown(q)' = Shown(q) /\ InView(q)' = InView(q)
        /\ Sent(q)' = Sent(q) /\ \A h : Left(h, q)' = Left(h, q)
        /\ ~Sent(q) /\ Settled' = Settled /\ ~Settled /\ PairRight(q)
        /\ \A s : isDuplicateOnTarget(q, s)' = isDuplicateOnTarget(q, s)
    BY <1>1, AliveFrame, ViewFrame DEF Sent, Left, Settled, Undisturbed, isDuplicateOnTarget
  <2>2. /\ AfterDiff' = AfterDiff /\ AfterEvents' = AfterEvents /\ AfterClean' = AfterClean
        /\ AfterPending' = AfterPending /\ AfterAdopt' = AfterAdopt
        /\ AfterRestore' = AfterRestore
    BY <1>1 DEF AfterDiff, AfterEvents, AfterClean, AfterPending, AfterAdopt, AfterRestore,
                Settled
  <2>3. Distributed(q)' /\ Cleaned(q)'
    BY <1>1, <2>1, <2>2 DEF PairRight, Distributed, Cleaned, Taken, Placed
  <2>4. Resolved(q)' /\ Reevaluated(q)'
    BY <1>1, <2>1, <2>2 DEF PairRight, Resolved, Reevaluated
  <2>5. Adopted(q)'
    <3>1. SUFFICES ASSUME phase = "adopt", row[q].st /= "active", Shown(q) /= {}, q[2] = t
                   PROVE  \E b \in todoB' : b.pair = q
      BY <1>1, <2>1, <2>2 DEF PairRight, Adopted
    <3>2. PICK b \in blockers : b.pair = q /\ ~EndsBeforeWindow(b.slot)
      BY <3>1 DEF Shown
    <3>3. b \in ListBlockers(t)
      BY <1>2, <1>3, <3>1, <3>2 DEF ListingPhases
    <3> QED BY <1>1, <3>1, <3>2, <3>3
  <2>6. Restored(q)'
    <3>1. SUFFICES ASSUME phase = "restore", row[q].st = "active", q[1] \in alive, ~InView(q),
                          q[2] = t
                   PROVE  q \in Missing(t)
      BY <1>1, <2>1, <2>2 DEF PairRight, Restored
    <3>2. ASSUME NEW b \in ListBlockers(t), b.pair = q
          PROVE  FALSE
      <4>1. b \in blockers
        BY DEF ListBlockers
      <4>2. InWindow(b.slot)
        BY <1>2, <1>3, <3>1, <4>1 DEF ListingPhases
      <4> QED BY <3>1, <3>2, <4>1, <4>2 DEF InView
    <3> QED BY <3>1, <3>2 DEF Missing, RowsWith
  <2> QED BY <2>3, <2>4, <2>5, <2>6 DEF PairRight
<1> QED
  BY <1>1, <1>4, RunningLists

\* Adopting the blockers of a lost database comes before everything else.
LEMMA RunningRebuild ==
  ASSUME TypeOK, calm = "running", Undisturbed, UNCHANGED <<truth, now, twin>>,
         NEW b \in todoB, rebuildMappingsFromTags(b)
  PROVE  Undisturbed'
<1> USE DEF world, store, memory, result, todo
<1>1. /\ phase = "rebuild" /\ op = NoOp
      /\ UNCHANGED <<phase, calm, blockers, cache, dirty, memory, todoO, job, op>>
  BY DEF rebuildMappingsFromTags, Ready
<1>2. \A p \in Pair : PairRight(p)'
  BY <1>1, EarlyRight
<1> QED
  BY <1>1, <1>2, RunningLists

-----------------------------------------------------------------------------
\* A Reconcile that begins asks for nothing yet.
LEMMA RunningBegins ==
  ASSUME TypeOK, Bookkeeping, Rested, calm /= "settled", UNCHANGED <<truth, now, twin>>,
         Reconcile
  PROVE  Undisturbed'
<1> USE DEF world, store, memory, result, todo
<1>1. /\ phase = "idle" /\ phase' = "rebuild" /\ calm' = "running" /\ since' = now
      /\ UNCHANGED <<healthy, job, op, blockers, cache, row>>
  BY DEF Reconcile, Enter, ListingPhases
<1>2. healthy /\ job = NoJob /\ op = NoOp
  BY <1>1 DEF Rested, Syncing, Bookkeeping, LoopShape
<1>3. Shape'
  BY <1>1, <1>2 DEF Shape, Settled, Syncing, AfterEvents, AfterDiff, ListingPhases
<1>4. JobRight' /\ OpRight' /\ Diffed'
  BY <1>1, <1>2 DEF JobRight, OpRight, Diffed, AfterDiff, Settled
<1> QED
  BY <1>1, <1>3, <1>4, EarlyRight DEF Undisturbed

\* The full resync of a Reconcile takes the listing and the set difference.
LEMMA RunningResync ==
  ASSUME TypeOK, Bookkeeping, calm = "running", Undisturbed, UNCHANGED <<truth, now, twin>>,
         FullResync
  PROVE  Undisturbed'
<1> USE DEF world, store, memory, result, todo
<1>1. /\ phase = "rebuild" /\ phase' = "diff" /\ reconciling' = TRUE
      /\ batch' = Listing /\ later' = {} /\ todoO' = Vanished
      /\ job = NoJob /\ op = NoOp /\ healthy
      /\ UNCHANGED <<calm, healthy, job, op, blockers, cache, row, dirty>>
  BY DEF FullResync, LoopDone, Ready, Undisturbed, Shape
<1>2. Vanished \cap alive = {} /\ \A o \in Origin \ alive : Over(o) \/ o \in Vanished
  BY DEF Vanished, Over
<1>3. alive' = alive /\ Listing' = Listing /\ \A o : Over(o)' = Over(o)
  BY <1>1, AliveFrame DEF Over, EndsBeforeWindow
<1>4. Shape'
  BY <1>1, <1>3 DEF Shape, Settled, Syncing, AfterEvents, AfterDiff, ListingPhases
<1>5. JobRight' /\ OpRight' /\ Diffed'
  BY <1>1, <1>2, <1>3 DEF JobRight, OpRight, Diffed, AfterDiff, Settled
<1> QED
  BY <1>1, <1>4, <1>5, EarlyRight DEF Undisturbed

\* The set difference is done: what is cached and not alive is over.
LEMMA RunningDiffed ==
  ASSUME TypeOK, calm = "running", Undisturbed, UNCHANGED <<truth, now, twin>>, DiffDone
  PROVE  Undisturbed'
<1> USE DEF world, store, memory, result, todo
<1>1. /\ phase = "diff" /\ phase' = "events" /\ job = NoJob /\ op = NoOp /\ todoO = {}
      /\ UNCHANGED <<calm, memory, job, op, todo, blockers, cache, row, dirty>>
      /\ NoJob.how = "none"
  BY DEF DiffDone, LoopDone, Ready, NoJob
<1>2. batch = Listing /\ \A o \in Origin \ alive : Over(o)
  BY <1>1 DEF Undisturbed, Diffed, Settled
<1>3. alive' = alive /\ Listing' = Listing /\ \A o : Over(o)' = Over(o)
  BY <1>1, AliveFrame DEF Over, EndsBeforeWindow
<1>4. Shape'
  BY <1>1, <1>3 DEF Undisturbed, Shape, Settled, Syncing, AfterEvents, AfterDiff, ListingPhases
<1>5. JobRight' /\ OpRight' /\ Diffed'
  BY <1>1, <1>2, <1>3 DEF JobRight, OpRight, Diffed, AfterDiff, Settled
<1>6. \A o \in Origin : Taken(o)' => o \notin alive /\ truth[o] /= Free
  <2>1. SUFFICES ASSUME NEW o \in Origin, Listing[o] = NoChange
                 PROVE  o \notin alive /\ truth[o] /= Free
    BY <1>1, <1>2 DEF Taken, AfterEvents, Settled
  <2>2. truth[o] /= NoChange
    BY ConstantsAssumption DEF TypeOK
  <2> QED BY <2>1, <2>2, AliveFacts
<1>7. Cached'
  BY <1>3, <1>6 DEF Cached
<1>8. ASSUME NEW q \in Pair
      PROVE  PairRight(q)'
  <2>1. q[1] \in Origin
    OBVIOUS
  <2>2. Distributed(q)'
    BY <1>3, <1>6, <2>1 DEF Distributed
  <2> QED BY <1>1, <2>2, EventRight
<1> QED
  BY <1>4, <1>5, <1>7, <1>8 DEF Undisturbed

\* The whole listing is distributed: the stale rows are next.
LEMMA RunningDistributed ==
  ASSUME TypeOK, calm = "running", Undisturbed, UNCHANGED <<truth, now, twin>>, SetCursor
  PROVE  Undisturbed'
<1> USE DEF world, store, memory, result, todo
<1>1. /\ phase = "events" /\ job = NoJob /\ op = NoOp /\ NoJob.how = "none"
      /\ healthy /\ reconciling /\ later = {} /\ batch = NoBatch
  BY DEF SetCursor, LoopDone, Ready, NoJob, Undisturbed, Shape, Syncing
<1>2. /\ phase' = "clean" /\ todoO' = StaleOrigins /\ healthy' = TRUE /\ dirty' = {}
      /\ UNCHANGED <<calm, job, op, blockers, cache, row>>
  BY <1>1 DEF SetCursor, EndResync, Enter
<1>3. alive' = alive /\ \A o : Over(o)' = Over(o)
  BY <1>2, AliveFrame DEF Over, EndsBeforeWindow
<1>4. \A o \in Origin : Taken(o)
  BY <1>1 DEF Taken, AfterDiff, NoBatch
<1>5. Shape'
  BY <1>1, <1>2 DEF Shape, Settled, Syncing, AfterEvents, AfterDiff, ListingPhases
<1>6. JobRight' /\ OpRight'
  BY <1>1, <1>2 DEF JobRight, OpRight, StaleOrigins
<1>7. Diffed' /\ Cached'
  BY <1>1, <1>2, <1>3, <1>4 DEF Undisturbed, Diffed, AfterDiff, Settled, Cached
<1>8. ASSUME NEW q \in Pair
      PROVE  PairRight(q)'
  <2>1. q[1] \in Origin /\ q[2] \in Target /\ q = <<q[1], q[2]>>
    OBVIOUS
  <2>2. PairRight(q) /\ ~Sent(q) /\ \A h : ~Left(h, q) \/ h = "none"
    BY <1>1 DEF Undisturbed, Sent, Left
  <2>3. Distributed(q)'
    BY <1>2, <1>3, <1>4, <2>1, <2>2 DEF PairRight, Distributed, Placed
  <2>4. Cleaned(q)'
    BY <1>2, <2>1 DEF Cleaned, StaleOrigins, AfterClean, Settled
  <2>5. Resolved(q)' /\ Adopted(q)' /\ Restored(q)' /\ Reevaluated(q)'
    BY <1>2 DEF Resolved, Adopted, Restored, Reevaluated, Settled, AfterRestore, AfterAdopt,
                AfterPending, AfterClean
  <2> QED BY <2>3, <2>4, <2>5 DEF PairRight
<1> QED
  BY <1>5, <1>6, <1>7, <1>8 DEF Undisturbed

-----------------------------------------------------------------------------
\* What is true of a phase whose loop is done goes over to the next.
LEMMA RunningPhases ==
  ASSUME TypeOK, calm = "running", Undisturbed, UNCHANGED <<truth, now, twin>>, PhaseDone,
         phase /= "suppressed"
  PROVE  Undisturbed'
<1> USE DEF world, store, memory, result, todo
<1>1. /\ job = NoJob /\ op = NoOp /\ NoJob.how = "none" /\ phase /= "promote"
      /\ todoO = {} /\ todoP = {} /\ todoB = {} /\ todoT = {}
      /\ phase \in {"clean", "pending", "adopt", "restore"}
  BY DEF PhaseDone, LoopDone, Ready, NoJob, NextPhase, Undisturbed, Shape
<1>2. /\ \/ phase = "clean" /\ phase' = "pending"
         \/ phase = "pending" /\ phase' = "adopt"
         \/ phase = "adopt" /\ phase' = "restore"
         \/ phase = "restore" /\ phase' = "suppressed"
      /\ UNCHANGED <<calm, result, job, op, blockers, cache, row, dirty>>
      /\ todoP' = IF phase' \in {"pending", "suppressed"} THEN RowsWith(phase') ELSE {}
      /\ todoT' = IF phase' \in ListingPhases THEN Target ELSE {}
      /\ phase' \in ListingPhases => since' = now
  BY <1>1 DEF PhaseDone, NextPhase, Enter
<1>3. alive' = alive /\ (\A o : Over(o)' = Over(o)) /\ \A o : Taken(o) /\ Taken(o)'
  BY <1>1, <1>2, AliveFrame
  DEF Over, EndsBeforeWindow, Taken, AfterDiff, AfterEvents, Settled
<1>4. Shape'
  BY <1>1, <1>2 DEF Undisturbed, Shape, Settled, Syncing, AfterEvents, AfterDiff, ListingPhases
<1>5. JobRight' /\ OpRight'
  BY <1>1, <1>2 DEF JobRight, OpRight
<1>6. Diffed' /\ Cached'
  BY <1>1, <1>2, <1>3 DEF Undisturbed, Diffed, AfterDiff, Settled, Cached
<1>7. ASSUME NEW q \in Pair
      PROVE  PairRight(q)'
  <2>1. /\ q[1] \in Origin /\ q[2] \in Target
        /\ PairRight(q) /\ ~Sent(q) /\ \A h : ~Left(h, q) \/ h = "none"
    BY <1>1 DEF Undisturbed, Sent, Left
  <2>2. /\ Shown(q)' = Shown(q) /\ InView(q)' = InView(q)
        /\ Settled' = Settled /\ ~Settled
    BY <1>2, ViewFrame DEF Settled
  <2>3. Distributed(q)'
    BY <1>2, <1>3, <2>1 DEF PairRight, Distributed, Placed
  <2>4. Cleaned(q)'
    BY <1>1, <1>2, <2>1, <2>2 DEF PairRight, Cleaned, AfterClean, AfterEvents, AfterDiff
  <2>5. Resolved(q)'
    BY <1>1, <1>2, <2>1, <2>2 DEF PairRight, Resolved, RowsWith, AfterPending, AfterClean,
       AfterEvents, AfterDiff
  <2>6. Adopted(q)'
    BY <1>1, <1>2, <2>1, <2>2 DEF PairRight, Adopted, AfterAdopt, AfterPending, AfterClean,
       AfterEvents, AfterDiff, ListingPhases
  <2>7. Restored(q)'
    BY <1>1, <1>2, <1>3, <2>1, <2>2 DEF PairRight, Restored, AfterRestore, AfterAdopt,
       AfterPending, AfterClean, AfterEvents, AfterDiff, ListingPhases
  <2>8. Reevaluated(q)'
    BY <1>1, <1>2, <2>1, <2>2 DEF Reevaluated, RowsWith
  <2> QED BY <2>3, <2>4, <2>5, <2>6, <2>7, <2>8 DEF PairRight
<1> QED
  BY <1>4, <1>5, <1>6, <1>7 DEF Undisturbed

\* A Reconcile that comes to its end undisturbed leaves the calendar settled.
LEMMA RunningSettles ==
  ASSUME TypeOK, [Next]_vars, calm = "running", Undisturbed, UNCHANGED <<truth, now, twin>>,
         PhaseDone, phase = "suppressed"
  PROVE  Undisturbed'
<1> USE DEF world, store, memory, result, todo
<1>1. /\ job = NoJob /\ op = NoOp /\ NoJob.how = "none" /\ todoP = {}
      /\ phase' = "idle" /\ calm' = "settled" /\ todoO' = {} /\ todoB' = {}
      /\ UNCHANGED <<result, job, op, blockers, cache, row, dirty>>
  BY DEF PhaseDone, LoopDone, Ready, NoJob, NextPhase, Enter
<1>2. /\ AfterDiff /\ AfterEvents /\ AfterClean /\ AfterPending /\ AfterAdopt /\ AfterRestore
      /\ (\A p : ~Sent(p)) /\ (\A h, p : ~Left(h, p) \/ h = "none") /\ (\A o : Taken(o))
  BY <1>1 DEF AfterDiff, AfterEvents, AfterClean, AfterPending, AfterAdopt, AfterRestore, Sent,
              Left, Taken
<1>3. \A o \in Origin : /\ o \notin alive => Over(o)
                        /\ o \in alive => cache[o] = truth[o]
                        /\ truth[o] = Free => cache[o] = NoSlot
  BY <1>1, <1>2 DEF Undisturbed, Diffed, Cached
<1>4. ASSUME NEW p \in Pair
      PROVE  /\ row[p].st /= "pending"
             /\ p[1] \in alive => Placed(p)
             /\ truth[p[1]] = Free => row[p].st = "none"
             /\ row[p].st = "active" => cache[p[1]] /= NoSlot
             /\ row[p].st /= "active" => Shown(p) = {}
             /\ p[1] \in alive /\ row[p].st = "active" => InView(p)
             /\ row[p].st = "suppressed" =>
                  /\ cache[p[1]] /= NoSlot
                  /\ p[1] \in alive => isDuplicateOnTarget(p, truth[p[1]])
  BY <1>1, <1>2 DEF Undisturbed, PairRight, Distributed, Cleaned, Resolved, Adopted, Restored,
                    Reevaluated
<1>5. Steady
  BY <1>3, <1>4 DEF Steady
<1>6. Steady'
  BY <1>1, <1>5, SteadyFrame
<1>7. Shape' /\ JobRight' /\ Settled'
  BY <1>1 DEF Undisturbed, Shape, JobRight, Settled, Syncing, AfterEvents, AfterDiff,
              ListingPhases
<1>8. TypeOK'
  BY NextTyped
<1>9. TypeOK' /\ Settled' /\ Steady' /\ Shape' /\ JobRight' => Undisturbed'
  BY SteadySettles, PTL
<1> QED
  BY <1>6, <1>7, <1>8, <1>9

\* Whatever an undisturbed engine does next, its Reconcile stays undisturbed.
LEMMA RunningStep ==
  ASSUME TypeOK, Bookkeeping, AtMostOneBlocker, NamesInv, Reach, calm = "running",
         Undisturbed, [Next]_vars, calm' /= "no"
  PROVE  Undisturbed'
<1> USE DEF world, store, memory, result, todo
<1>1. /\ SyncCalendar \/ Reconcile \/ Continue \/ CursorExpires \/ UNCHANGED vars
      /\ UNCHANGED <<truth, now, twin>>
  BY CalmSteps, CalmFrame
<1>2. ~SyncCalendar /\ ~Reconcile /\ \A p \in Pair : ~promoteSuppressed(p)
  BY DEF Undisturbed, Shape, SyncCalendar, Reconcile, promoteSuppressed
<1>3. CASE CursorExpires \/ UNCHANGED vars
  <2>1. /\ UNCHANGED <<truth, now, twin, calm, phase, cache, op, dirty, memory, todo>>
        /\ UNCHANGED <<blockers, row, job>>
    BY <1>3 DEF CursorExpires, vars
  <2>2. alive' = alive /\ Listing' = Listing /\ \A o : Over(o)' = Over(o)
    BY <2>1, AliveFrame DEF Over, EndsBeforeWindow
  <2>3. Shape' /\ JobRight' /\ OpRight'
    BY <2>1, <2>2 DEF Undisturbed, Shape, JobRight, OpRight, Settled, Syncing, AfterEvents,
       AfterDiff
  <2>4. Diffed' /\ Cached'
    BY <2>1, <2>2 DEF Undisturbed, Diffed, Cached, Taken, Settled, AfterEvents, AfterDiff
  <2>5. ASSUME NEW q \in Pair
        PROVE  PairRight(q)'
    <3>1. PairRight(q) /\ Shown(q)' = Shown(q) /\ InView(q)' = InView(q)
      BY <2>1, ViewFrame DEF Undisturbed
    <3>2. Sent(q)' = Sent(q) /\ \A h : Left(h, q)' = Left(h, q)
      BY <2>1 DEF Sent, Left, Settled
    <3> QED BY <2>1, <3>1, <3>2, PairFrame
  <2> QED BY <2>3, <2>4, <2>5 DEF Undisturbed
<1>4. CASE FullResync \/ DiffDone \/ FinishEvent \/ SetCursor \/ PhaseDone
  BY <1>1, <1>4, RunningResync, RunningDiffed, RunningFinish, RunningDistributed,
     RunningPhases, RunningSettles
<1>5. CASE \/ CreateBlocker \/ PutActive \/ UpdateBlocker \/ PutTimeHash
           \/ DeleteBlocker \/ DeleteMapping
  BY <1>1, <1>5, RunningCreate, RunningRecord, RunningUpdate, RunningDown
<1>6. ASSUME NEW o \in Origin, DropVanished(o) \/ processEvent(o) \/ cleanStaleMappings(o)
      PROVE  Undisturbed'
  BY <1>1, <1>6, RunningDrop, RunningEvent
<1>7. ASSUME NEW t \in Target, \/ upsertBlockerOnTarget(t) \/ deleteBlockersForOrigin(t)
                               \/ ListAccount(t)
      PROVE  Undisturbed'
  BY <1>1, <1>7, RunningUpsert, RunningDown, RunningList
<1>8. ASSUME NEW p \in Pair, \/ resolvePending(p) \/ restoreMissingBlockers(p)
                             \/ reevaluateSuppressed(p)
      PROVE  Undisturbed'
  BY <1>1, <1>8, RunningResolve, RunningRestore, RunningReevaluate
<1>9. ASSUME NEW b \in todoB, rebuildMappingsFromTags(b) \/ adoptOrphan(b)
      PROVE  Undisturbed'
  BY <1>1, <1>9, RunningRebuild, RunningAdopt
<1> QED
  BY <1>1, <1>2, <1>3, <1>4, <1>5, <1>6, <1>7, <1>8, <1>9 DEF Continue

\* The inductive step.
LEMMA NextSettle ==
  ASSUME TypeOK, Bookkeeping, AtMostOneBlocker, NamesInv, PastInv, SettleInv, [Next]_vars
  PROVE  SettleInv'
<1>1. Rested' /\ Reach'
  BY NextRested, NextReach DEF SettleInv
<1>2. ASSUME calm' /= "no"
      PROVE  Undisturbed'
  <2>1. /\ SyncCalendar \/ Reconcile \/ Continue \/ CursorExpires \/ UNCHANGED vars
        /\ UNCHANGED <<truth, now, twin>>
        /\ calm' = calm \/ Reconcile \/ PhaseDone
    BY <1>2, CalmSteps, CalmFrame
  <2>2. CASE calm = "settled"
    BY <1>2, <2>2, SettledStep DEF SettleInv, Settled
  <2>3. CASE calm = "running"
    BY <1>2, <2>3, RunningStep DEF SettleInv
  <2>4. CASE calm = "no"
    <3>1. Reconcile
      BY <1>2, <2>1, <2>4 DEF PhaseDone
    <3>2. calm /= "settled" /\ Rested
      BY <2>4 DEF SettleInv
    <3> QED BY <2>1, <3>1, <3>2, RunningBegins
  <2> QED BY <2>2, <2>3, <2>4 DEF TypeOK
<1> QED
  BY <1>1, <1>2 DEF SettleInv

\* It holds at every moment.
LEMMA SettleKept == Spec => []SettleInv
<1>1. Init => SettleInv
  BY DEF Init, SettleInv, Rested, Reach, NoOp
<1>2. TypeOK /\ Bookkeeping /\ AtMostOneBlocker /\ NamesInv /\ PastInv /\ SettleInv /\ [Next]_vars
      => SettleInv'
  BY NextSettle
<1> QED
  BY <1>1, <1>2, TypeCorrect, Bookkept, UniqueBlocker, NamesKept, PastJustified, PTL DEF Spec

\* A Reconcile that nothing disturbed leaves every target calendar as the monitored
\* calendar asks, and the syncs that follow keep it so (Engine.Reconcile).
THEOREM Settles == Spec => []ReconcileSettles
<1>1. TypeOK /\ AtMostOneBlocker /\ RowTellsTruth /\ NamesInv /\ SettleInv => ReconcileSettles
  BY SettledMirrors
<1> QED
  BY <1>1, TypeCorrect, UniqueBlocker, TruthOfRows, NamesKept, SettleKept, PTL

\* A settled engine that goes on undisturbed issues no call that writes, and leaves
\* the blockers, the cache and the state of every row as they are.
RepeatsNothing ==
  [][calm = "settled" /\ calm' = "settled" => Still /\ op = NoOp]_vars

\* Whatever is run again once a Reconcile has settled changes nothing: what
\* engine.go:53 calls idempotent.
THEOREM SettledIsQuiet == Spec => RepeatsNothing
<1>1. ASSUME TypeOK, Bookkeeping, NamesInv, SettleInv, [Next]_vars,
             calm = "settled", calm' = "settled"
      PROVE  Still /\ op = NoOp
  BY <1>1, SettledStep DEF SettleInv, Settled
<1> QED
  BY <1>1, TypeCorrect, Bookkept, NamesKept, SettleKept, PTL DEF Spec, RepeatsNothing

-----------------------------------------------------------------------------
\* A call that writes a slot writes the one the cache has for its event: no pass
\* works from what a row or an earlier batch remembers.
CallsKnown == Writing => op.slot = cache[op.p[1]]

\* The cache changes only between two calls.
LEMMA CacheRests ==
  ASSUME Bookkeeping, [Next]_vars
  PROVE  UNCHANGED cache \/ op' = NoOp
<1>1. ASSUME NEW o \in Origin, processEvent(o) PROVE op' = NoOp
  BY <1>1 DEF processEvent, Ready
<1>2. CASE FinishEvent
  BY <1>2 DEF FinishEvent
<1>3. CASE DatabaseLost
  BY <1>3 DEF DatabaseLost, Bookkeeping, LoopShape
<1>4. ASSUME NEW auth \in BOOLEAN, CallFails(auth) PROVE UNCHANGED cache
  BY <1>4 DEF CallFails
<1>5. ASSUME NEW o \in Origin, UserEdits(o) \/ DropVanished(o) \/ cleanStaleMappings(o)
      PROVE  UNCHANGED cache
  BY <1>5 DEF UserEdits, DropVanished, cleanStaleMappings
<1>6. ASSUME NEW p \in Pair, TwinVanishes(p) PROVE UNCHANGED cache
  BY <1>6 DEF TwinVanishes
<1>7. ASSUME \/ WindowSlides \/ ChangesFails \/ Crash \/ CursorExpires \/ SyncCalendar
             \/ Reconcile \/ FullResync \/ DiffDone \/ SetCursor \/ PhaseDone
      PROVE  UNCHANGED cache
  BY <1>7 DEF WindowSlides, ChangesFails, Crash, CursorExpires, SyncCalendar, Reconcile,
     FullResync, DiffDone, SetCursor, PhaseDone
<1> QED
  BY <1>1, <1>2, <1>3, <1>4, <1>5, <1>6, <1>7, CursorElsewhere
  DEF Next, Environment, Failure, Continue

\* Every step keeps the calls to what the cache knows.
LEMMA NextKnown ==
  ASSUME TypeOK, Bookkeeping, PastInv, CallsKnown, [Next]_vars
  PROVE  CallsKnown'
<1> USE DEF world, store, memory, result, todo
<1>1. CASE op' = NoOp
  BY <1>1 DEF CallsKnown, Writing, NoOp
<1>2. CASE op' /= NoOp /\ UNCHANGED op
  BY <1>2, CacheRests DEF CallsKnown, Writing
<1>3. ASSUME op' /= NoOp, op' /= op PROVE CallsKnown'
  <2>1. UNCHANGED cache
    BY <1>3, CacheRests
  <2>2. ASSUME NEW p, NEW s, NEW d, NEW i, Call(d, p, s, i), s = cache[p[1]]
        PROVE  CallsKnown'
    BY <2>1, <2>2 DEF Call, CallsKnown
  <2>3. ASSUME NEW p, NEW s, NEW i, NEW d \in {"delete", "deleted"}, Call(d, p, s, i)
        PROVE  CallsKnown'
    BY <2>3 DEF Call, CallsKnown, Writing
  <2>4. ASSUME NEW t \in Target, upsertBlockerOnTarget(t) PROVE CallsKnown'
    <3>1. job.how = "upsert" /\ job.o \in Origin /\ cache[job.o] = job.slot
      BY <2>4, JobTyped DEF upsertBlockerOnTarget, PastInv, JobsJustified, NoJob
    <3>2. \E d, i : Call(d, <<job.o, t>>, job.slot, i)
      BY <1>3, <2>4 DEF upsertBlockerOnTarget
    <3> QED BY <2>2, <3>1, <3>2
  <2>5. ASSUME NEW t \in Target, deleteBlockersForOrigin(t) PROVE CallsKnown'
    BY <1>3, <2>3, <2>5 DEF deleteBlockersForOrigin
  <2>6. ASSUME NEW p \in Pair, \/ promoteSuppressed(p) \/ resolvePending(p)
                               \/ restoreMissingBlockers(p) \/ reevaluateSuppressed(p)
        PROVE  CallsKnown'
    <3>1. createFromMapping(p, cache[p[1]])
      BY <1>3, <2>6 DEF promoteSuppressed, resolvePending, restoreMissingBlockers,
         reevaluateSuppressed
    <3> QED BY <2>2, <3>1 DEF createFromMapping
  <2>7. ASSUME NEW b \in todoB, rebuildMappingsFromTags(b) \/ adoptOrphan(b)
        PROVE  UNCHANGED op
    BY <2>7 DEF rebuildMappingsFromTags, adoptOrphan
  <2>8. CASE CreateBlocker \/ UpdateBlocker
    <3>1. Writing /\ \E d, i : Call(d, op.p, op.slot, i)
      BY <2>8 DEF CreateBlocker, UpdateBlocker, createFromMapping, Writing
    <3> QED BY <2>2, <3>1 DEF CallsKnown
  <2>9. CASE DeleteBlocker
    BY <2>3, <2>9 DEF DeleteBlocker
  <2>10. CASE PutActive \/ PutTimeHash \/ DeleteMapping \/ Crash
    BY <1>3, <2>10 DEF PutActive, PutTimeHash, DeleteMapping, Crash
  <2>11. ASSUME NEW auth \in BOOLEAN, CallFails(auth) PROVE op' = NoOp
    BY <2>11 DEF CallFails
  <2>12. DatabaseLost => UNCHANGED op
    BY DEF DatabaseLost
  <2>13. ~QuietSteps
    BY <1>3, QuietFrame
  <2> QED
    BY <1>3, <2>4, <2>5, <2>6, <2>7, <2>8, <2>9, <2>10, <2>11, <2>12, <2>13, NextSteps
    DEF CallSteps, LoopSteps
<1> QED
  BY <1>1, <1>2, <1>3

-----------------------------------------------------------------------------
\* What a pair shows depends on its blockers alone.
LEMMA DisplayedElsewhere ==
  ASSUME NEW p \in Pair, NEW S,
         \A b \in blockers' \ blockers : b.pair = p,
         \A b \in blockers \ blockers' : b.pair = p,
         {b.slot : b \in {c \in blockers' : c.pair = p}} = S
  PROVE  displayed' = [displayed EXCEPT ![p] = S]
<1>1. ASSUME NEW q \in Pair, q /= p
      PROVE  {c \in blockers' : c.pair = q} = {c \in blockers : c.pair = q}
  BY <1>1
<1> QED
  BY <1>1 DEF displayed, Live

\* A call that writes leaves the pair with the slot it was given, and no other pair
\* changes.
LEMMA DisplayedWrites ==
  ASSUME TypeOK, AtMostOneBlocker, NEW p \in Pair, NEW s, NEW i,
         CreateEffect(p, s, i) \/ Align(p, s, i)
  PROVE  displayed' = [displayed EXCEPT ![p] = {s}]
<1>1. /\ \A b \in blockers' \ blockers : b.pair = p
      /\ \A b \in blockers \ blockers' : b.pair = p
      /\ \E b \in blockers' : b.pair = p
      /\ \A b \in blockers' : b.pair = p => b.slot = s
  <2>1. CASE Align(p, s, i)
    <3>1. PICK b \in blockers : /\ b.pair = p
                                /\ blockers' = (blockers \ {b}) \cup {[b EXCEPT !.slot = s]}
      BY <2>1 DEF Align, Live
    <3>2. [b EXCEPT !.slot = s].pair = p
      BY <3>1 DEF TypeOK
    <3> QED BY <2>1, <3>1, <3>2, Aligned
  <2>2. CASE Live(p) = {} /\ Insert(p, s, i)
    <3> DEFINE new == [pair |-> p, id |-> i, slot |-> s]
    <3>1. new.pair = p /\ new.slot = s
      OBVIOUS
    <3>2. blockers' = blockers \cup {new} /\ \A b \in blockers : b.pair /= p
      BY <2>2 DEF Live, Insert
    <3> HIDE DEF new
    <3> QED BY <3>1, <3>2
  <2> QED BY <2>1, <2>2 DEF CreateEffect
<1>2. {b.slot : b \in {c \in blockers' : c.pair = p}} = {s}
  BY <1>1
<1> QED
  BY <1>1, <1>2, DisplayedElsewhere

\* Where a blocker was removed none is left.
LEMMA DisplayedRemovals ==
  ASSUME AtMostOneBlocker, NEW p \in Pair, blockers' \subseteq blockers,
         \A b \in blockers \ blockers' : b.pair = p
  PROVE  UNCHANGED displayed \/ displayed' = [displayed EXCEPT ![p] = {}]
<1>1. CASE UNCHANGED blockers
  BY <1>1 DEF displayed, Live
<1>2. CASE ~UNCHANGED blockers
  <2>1. PICK c \in blockers : c \notin blockers' /\ c.pair = p
    BY <1>2
  <2>2. \A b \in blockers' : b.pair /= p
    BY <2>1 DEF AtMostOneBlocker
  <2>3. {b.slot : b \in {d \in blockers' : d.pair = p}} = {}
    BY <2>2
  <2> QED BY <2>3, DisplayedElsewhere
<1> QED
  BY <1>1, <1>2

-----------------------------------------------------------------------------
\* What an interrupted call leaves of the batch.
LEMMA CallsInterrupt ==
  ASSUME NEW auth \in BOOLEAN, CallFails(auth)
  PROVE  /\ UNCHANGED <<truth, now, cache>>
         /\ UNCHANGED batch \/ Chain!Interrupted
BY DEF CallFails, EndResync, NoBatch, Chain!Interrupted, memory, result

\* A provider call shows what the cache knows, or hides.
LEMMA CallsMirror ==
  ASSUME TypeOK, AtMostOneBlocker, CallsKnown,
         \/ CreateBlocker \/ UpdateBlocker \/ DeleteBlocker
         \/ \E auth \in BOOLEAN : CallFails(auth)
  PROVE  [Chain!Next]_<<now, truth, batch, cache, displayed>>
<1>1. UNCHANGED <<truth, now, cache>> /\ (UNCHANGED batch \/ Chain!Interrupted)
  BY CallsInterrupt DEF CreateBlocker, UpdateBlocker, DeleteBlocker, memory, result, store
<1>2. ASSUME op.do \in {"create", "update"}, NEW i,
             CreateEffect(op.p, op.slot, i) \/ Align(op.p, op.slot, i)
      PROVE  \E p \in Pair : Chain!Show(p)
  <2>1. op.p \in Pair /\ op.slot \in Slot /\ op.slot = cache[op.p[1]]
    BY <1>2, OpTyped DEF CallsKnown, Writing
  <2>2. displayed' = [displayed EXCEPT ![op.p] = {op.slot}]
    BY <1>2, <2>1, DisplayedWrites
  <2>3. cache[op.p[1]] /= NoSlot
    BY <2>1, ConstantsAssumption
  <2> QED BY <1>1, <2>1, <2>2, <2>3 DEF Chain!Show
<1>3. ASSUME op.do = "delete", DeleteEffect(op.p, op.id)
      PROVE  UNCHANGED displayed \/ \E p \in Pair : Chain!Hide(p)
  <2>1. op.p \in Pair
    BY <1>3, OpTyped
  <2>2. UNCHANGED displayed \/ displayed' = [displayed EXCEPT ![op.p] = {}]
    BY <1>3, <2>1, DisplayedRemovals DEF DeleteEffect
  <2> QED BY <1>1, <2>1, <2>2 DEF Chain!Hide
<1>4. ASSUME UNCHANGED displayed
      PROVE  [Chain!Next]_<<now, truth, batch, cache, displayed>>
  BY <1>1, <1>4 DEF Chain!Next, Chain!GiveUp
<1>5. UNCHANGED blockers => UNCHANGED displayed
  BY DEF displayed, Live
<1>6. \/ UNCHANGED displayed
      \/ \E p \in Pair : Chain!Show(p) \/ Chain!Hide(p)
  <2>1. CASE CreateBlocker
    BY <1>2, <2>1 DEF CreateBlocker
  <2>2. CASE UpdateBlocker
    BY <1>2, <1>5, <2>2 DEF UpdateBlocker
  <2>3. CASE DeleteBlocker
    BY <1>3, <2>3 DEF DeleteBlocker
  <2>4. ASSUME NEW auth \in BOOLEAN, CallFails(auth)
        PROVE  \/ UNCHANGED displayed
               \/ \E p \in Pair : Chain!Show(p) \/ Chain!Hide(p)
    BY <1>2, <1>3, <1>5, <2>4 DEF CallFails
  <2> QED BY <2>1, <2>2, <2>3, <2>4
<1> QED
  BY <1>4, <1>6 DEF Chain!Next, Chain!Pair

\* A blocker that is removed outside of a call is hidden.
LEMMA RemovalsMirror ==
  ASSUME TypeOK, AtMostOneBlocker,
         \/ \E b \in blockers : UserRemovesBlocker(b)
         \/ \E b \in todoB : adoptOrphan(b)
  PROVE  [Chain!Next]_<<now, truth, batch, cache, displayed>>
<1>1. UNCHANGED <<now, truth, batch, cache>>
  BY CursorElsewhere
<1>2. \E p \in Pair : blockers' \subseteq blockers /\ \A b \in blockers \ blockers' : b.pair = p
  <2>1. ASSUME NEW b \in blockers, UserRemovesBlocker(b)
        PROVE  /\ b.pair \in Pair /\ blockers' \subseteq blockers
               /\ \A c \in blockers \ blockers' : c.pair = b.pair
    BY <2>1 DEF UserRemovesBlocker, TypeOK
  <2>2. ASSUME NEW b \in todoB, adoptOrphan(b)
        PROVE  /\ b.pair \in Pair /\ blockers' \subseteq blockers
               /\ \A c \in blockers \ blockers' : c.pair = b.pair
    BY <2>2 DEF adoptOrphan, TypeOK
  <2> QED BY <2>1, <2>2
<1>3. PICK p \in Pair : UNCHANGED displayed \/ displayed' = [displayed EXCEPT ![p] = {}]
  BY <1>2, DisplayedRemovals
<1> QED
  BY <1>1, <1>3 DEF Chain!Next, Chain!Hide, Chain!Pair

\* A notice of the batch is taken.
LEMMA EventsMirror ==
  ASSUME NEW o \in Origin, processEvent(o)
  PROVE  Chain!Take(o)
<1>1. /\ batch[o] /= NoChange /\ batch' = [batch EXCEPT ![o] = NoChange]
      /\ UNCHANGED <<now, truth, blockers>>
  BY DEF processEvent, world
<1>2. UNCHANGED displayed
  BY <1>1 DEF displayed, Live
<1>3. \/ UNCHANGED cache
      \/ Chain!Ahead(batch[o]) /\ cache' = [cache EXCEPT ![o] = batch[o]]
  BY DEF processEvent, Chain!Ahead, InWindow, InWindowOf
<1> QED
  BY <1>1, <1>2, <1>3 DEF Chain!Take

\* What Changes returns is the calendar as it is, except for what it reports gone
\* or does not speak of.
LEMMA AnswersMirror ==
  ASSUME TypeOK, SyncCalendar \/ FullResync
  PROVE  Chain!Ask
<1>1. UNCHANGED <<now, truth, cache, blockers>> /\ (batch' = Listing \/ batch' = Delta)
  BY DEF SyncCalendar, FullResync, world
<1>2. UNCHANGED displayed
  BY <1>1 DEF displayed, Live
<1>3. ASSUME batch' = Listing PROVE Chain!Ask
  <2> DEFINE silent == {o \in Origin : ~(truth[o] = Free \/ (truth[o] \in Slot /\ InWindow(truth[o])))}
  <2>1. batch' = [o \in Origin |-> IF o \in silent THEN NoChange
                                   ELSE IF o \in {} THEN Gone ELSE truth[o]]
    BY <1>3 DEF Listing
  <2> HIDE DEF silent
  <2>2. silent \in SUBSET Origin
    BY DEF silent
  <2> QED BY <1>1, <1>2, <2>1, <2>2 DEF Chain!Ask
<1>4. ASSUME batch' = Delta PROVE Chain!Ask
  <2> DEFINE silent == {o \in Origin : o \notin dirty}
             gone == {o \in Origin : /\ OriginOnGraph /\ truth[o] \in Slot
                                     /\ ~InWindowOf(deltaFrom, truth[o])}
  <2>1. batch' = [o \in Origin |-> IF o \in silent THEN NoChange
                                   ELSE IF o \in gone THEN Gone ELSE truth[o]]
    BY <1>4 DEF Delta
  <2>2. silent \in SUBSET Origin /\ gone \in SUBSET Origin
    OBVIOUS
  <2> HIDE DEF silent, gone
  <2> QED BY <1>1, <1>2, <2>1, <2>2 DEF Chain!Ask
<1> QED
  BY <1>1, <1>3, <1>4

\* Every step of the engine is a step of the chain, or invisible to it.
LEMMA NextMirrors ==
  ASSUME TypeOK, Bookkeeping, AtMostOneBlocker, CallsKnown, [Next]_vars
  PROVE  [Chain!Next]_<<now, truth, batch, cache, displayed>>
<1> USE DEF world, store, memory, result, todo
<1> DEFINE Goal == [Chain!Next]_<<now, truth, batch, cache, displayed>>
<1>1. UNCHANGED blockers => UNCHANGED displayed
  BY DEF displayed, Live
<1>2. ASSUME UNCHANGED <<now, truth, batch, cache, blockers>> PROVE Goal
  BY <1>1, <1>2
<1>3. ASSUME NEW o \in Origin, UserEdits(o) PROVE Goal
  <2>1. /\ \E v \in Slot \cup {Gone, Free} : truth' = [truth EXCEPT ![o] = v]
        /\ UNCHANGED <<now, batch, cache, blockers>>
    BY <1>3 DEF UserEdits
  <2> QED BY <1>1, <2>1 DEF Chain!Next, Chain!Edit
<1>4. ASSUME NEW o \in Origin, processEvent(o) PROVE Goal
  BY <1>4, EventsMirror DEF Chain!Next
<1>5. CASE SyncCalendar \/ FullResync
  BY <1>5, AnswersMirror DEF Chain!Next
<1>6. CASE WindowSlides
  <2>1. now' = now + 1 /\ UNCHANGED <<truth, batch, cache, blockers>>
    BY <1>6 DEF WindowSlides
  <2> QED BY <1>1, <2>1 DEF Chain!Next, Chain!TimePasses
<1>7. CASE Crash \/ SetCursor
  <2>1. batch' = NoBatch /\ UNCHANGED <<now, truth, cache, blockers>>
    BY <1>7 DEF Crash, SetCursor, EndResync
  <2> QED BY <1>1, <2>1 DEF Chain!Next, Chain!GiveUp, Chain!Interrupted, NoBatch
<1>8. CASE FinishEvent
  <2>1. /\ job /= NoJob /\ UNCHANGED <<now, truth, batch, blockers>>
        /\ cache' = [cache EXCEPT ![job.o] = NoSlot] \/ UNCHANGED cache
    BY <1>8 DEF FinishEvent
  <2>2. job.o \in Origin
    BY <2>1, JobTyped
  <2>3. ASSUME cache' = [cache EXCEPT ![job.o] = NoSlot] PROVE Chain!Forget({job.o})
    <3>1. cache' = [o \in Origin |-> IF o \in {job.o} THEN NoSlot ELSE cache[o]]
      BY <2>2, <2>3 DEF TypeOK
    <3> QED BY <1>1, <2>1, <3>1 DEF Chain!Forget
  <2>4. CASE UNCHANGED cache
    BY <1>2, <2>1, <2>4
  <2> QED BY <2>1, <2>2, <2>3, <2>4 DEF Chain!Next
<1>9. CASE DatabaseLost
  <2>1. /\ cache' = [o \in Origin |-> NoSlot]
        /\ UNCHANGED <<now, truth, batch, blockers>>
    BY <1>9 DEF DatabaseLost
  <2>2. Chain!Forget(Origin)
    BY <1>1, <2>1 DEF Chain!Forget
  <2> QED BY <2>2 DEF Chain!Next
<1>10. CASE \/ CreateBlocker \/ UpdateBlocker \/ DeleteBlocker
            \/ \E auth \in BOOLEAN : CallFails(auth)
  BY <1>10, CallsMirror
<1>11. CASE \/ \E b \in blockers : UserRemovesBlocker(b)
            \/ \E b \in todoB : adoptOrphan(b)
  BY <1>11, RemovalsMirror
<1>12. ASSUME NEW o \in Origin, DropVanished(o) \/ cleanStaleMappings(o) PROVE Goal
  BY <1>2, <1>12 DEF DropVanished, cleanStaleMappings
<1>13. ASSUME NEW p \in Pair, TwinVanishes(p) PROVE Goal
  BY <1>2, <1>13 DEF TwinVanishes
<1>14. CASE ChangesFails \/ CursorExpires \/ Reconcile \/ DiffDone \/ PhaseDone
  BY <1>2, <1>14 DEF ChangesFails, CursorExpires, Reconcile, DiffDone, PhaseDone
<1>15. ASSUME \/ \E p \in Pair, s \in Slot : TwinAppears(p, s)
              \/ \E t \in Target : \/ ListingFails(t) \/ ListAccount(t)
                                   \/ upsertBlockerOnTarget(t) \/ deleteBlockersForOrigin(t)
              \/ \E b \in todoB : OrphanRemains(b) \/ rebuildMappingsFromTags(b)
              \/ \E p \in Pair : \/ promoteSuppressed(p) \/ resolvePending(p)
                                 \/ restoreMissingBlockers(p) \/ reevaluateSuppressed(p)
              \/ PutActive \/ PutTimeHash \/ DeleteMapping \/ UNCHANGED vars
       PROVE  Goal
  <2>1. UNCHANGED <<now, truth, batch, cache>>
    BY <1>15, CursorElsewhere
  <2>2. UNCHANGED blockers
    BY <1>15, RemoteElsewhere
  <2> QED BY <1>2, <2>1, <2>2
<1> QED
  BY <1>3, <1>4, <1>5, <1>6, <1>7, <1>8, <1>9, <1>10, <1>11, <1>12, <1>13, <1>14, <1>15
  DEF Next, Environment, Failure, Continue

\* The blockers are the end of a chain of copies: whatever calls fail, whenever the
\* process dies, and if the store itself is lost, a blocker is only ever put at the
\* time the store has for its event at that moment, and the store only ever takes
\* what the last answer of Changes said.
THEOREM ImplementsMirror == Spec => MirrorsByCopying
<1>1. Init => Chain!Init /\ CallsKnown
  <2>1. ASSUME Init PROVE displayed = [p \in Pair |-> {}]
    BY <2>1 DEF Init, displayed, Live
  <2>2. ASSUME Init PROVE truth \in [Origin -> Slot \cup {Gone, Free}]
    BY <2>2, InitTyped DEF TypeOK
  <2>3. ASSUME Init PROVE CallsKnown
    BY <2>3 DEF Init, CallsKnown, Writing, NoOp
  <2>4. ASSUME Init PROVE /\ now = 0 /\ batch = [o \in Origin |-> NoChange]
                          /\ cache = [o \in Origin |-> NoSlot]
    BY <2>4 DEF Init, NoBatch
  <2> QED BY <2>1, <2>2, <2>3, <2>4 DEF Chain!Init, Chain!Pair
<1>2. TypeOK /\ Bookkeeping /\ PastInv /\ CallsKnown /\ [Next]_vars => CallsKnown'
  BY NextKnown
<1>3. /\ TypeOK /\ Bookkeeping /\ AtMostOneBlocker /\ CallsKnown /\ [Next]_vars
      => [Chain!Next]_<<now, truth, batch, cache, displayed>>
  BY NextMirrors
<1> QED
  BY <1>1, <1>2, <1>3, TypeCorrect, Bookkept, UniqueBlocker, PastJustified, PTL
  DEF Spec, MirrorsByCopying, Chain!Spec
=============================================================================
