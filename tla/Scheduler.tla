------------------------------ MODULE Scheduler ------------------------------
(***************************************************************************)
(* The polling loop of the daemon (engine/scheduler.go): which calendars   *)
(* are synchronised, which accounts are paused because their token has     *)
(* expired, when a calendar that keeps failing gets a FullResync, and what *)
(* `calsync status` shows.  It runs on the tokens of module Tokens.  What  *)
(* a synchronisation does to the calendars is in BlockerSync; here it is   *)
(* an error, or none.                                                      *)
(*                                                                         *)
(* Calendars are numbered in the order of the configuration, those of one  *)
(* account in a row.  An error is the set of the errors joined in it.      *)
(***************************************************************************)
EXTENDS Tokens, Sequences

CONSTANTS
  Owner,        \* the account of each calendar
  Threshold,    \* consecutiveFailureResyncThreshold (5)
  MaxEdits,     \* bound: revocations, authorisations, requests to the app,
                \* spoilt cursors
  MaxFaults     \* bound: stops, failed calls

ASSUME SchedulerAssumption ==
  /\ Owner \in Seq(Account)
  /\ Threshold \in Nat \ {0} /\ MaxEdits \in Nat /\ MaxFaults \in Nat

Calendar == 1..Len(Owner)
Of(a)    == {c \in Calendar : Owner[c] = a}
Last     == Len(Owner) + 1

VARIABLES
  pc,         \* "tick", "wait", "reconcile", "down"
  at,         \* the next calendar of the current loop
  paused,     \* the map reauth of Run
  failures,   \* the map failures of Run
  cursor,     \* whether the provider takes the stored cursor
  status,     \* the row of the calendars table, by its last_error
  streak,     \* failures on a poisoned cursor since the maps were made
  edits, faults

vars == <<tokens, pc, at, paused, failures, cursor, status, streak, edits, faults>>

Cursor == {"good", "invalid", "poisoned"}
Status == {"absent", "ok", "reauth", "error"}

TypeOK ==
  /\ TokensTypeOK
  /\ pc \in {"tick", "wait", "reconcile", "down"} /\ at \in 1..Last
  /\ paused \subseteq Account
  /\ failures \in [Calendar -> 0..(Threshold - 1)]
  /\ cursor \in [Calendar -> Cursor]
  /\ status \in [Calendar -> Status]
  /\ streak \in [Calendar -> Nat]
  /\ edits \in 0..MaxEdits /\ faults \in 0..MaxFaults

Zero == [c \in Calendar |-> 0]

\* The tables are those of a first start, or of accounts known already.
Init ==
  /\ TokensInit
  /\ pc = "down" /\ at = 1 /\ paused = {} /\ failures = Zero
  /\ cursor = [c \in Calendar |-> "good"]
  /\ \E new \in SUBSET Account :
       status = [c \in Calendar |-> IF Owner[c] \in new THEN "absent" ELSE "ok"]
  /\ streak = Zero /\ edits = 0 /\ faults = 0

-----------------------------------------------------------------------------
(***************************************************************************)
(* Errors (engine/errors.go, provider/autherr.go).                         *)
(***************************************************************************)
Expired   == [kind |-> "expired"]
Failed    == [kind |-> "failed"]
Target(a) == [kind |-> "target", of |-> a]
Targets   == {Target(a) : a \in Account}

\* Mutant: the error of a target is returned as it is.
Bare(a, e) == e
wrapTargetAuth(a, e) == IF e = Expired THEN Target(a) ELSE e

\* Mutants: a target's expiry is taken for the origin's; it is no success.
AnyExpired(err) == \E e \in err : e = Expired \/ e \in Targets
NeverOnly(err)  == err = {}

collectTargetAuthErrors(err) == {a \in Account : Target(a) \in err}
originAuthExpired(err)       == Expired \in err
onlyTargetAuthErrors(err)    == err # {} /\ err \subseteq Targets

\* What a pass over a calendar of a may be told: that the token of a has
\* expired; that those of some targets it writes to have; that a call failed.
Refused(a) == IF Works("daemon", a) THEN {} ELSE {{Expired}}
TargetErrors(a) ==
  {{wrapTargetAuth(b, Expired) : b \in B} :
   B \in SUBSET {b \in Account \ {a} : ~Works("daemon", b)}}

\* A token that was refreshed is saved, or the call that needed it fails.  One
\* that has expired may go on until its last access token is over.
FullResyncErrors(c) ==
  IF Owner[c] \in unsaved["daemon"] THEN {{Failed}}
  ELSE Refused(Owner[c]) \cup
       {T \cup F : T \in TargetErrors(Owner[c]), F \in {{}, {Failed}}}

\* A poisoned cursor fails the listing, again and again; an invalid one is
\* reported as such and makes the pass a full one.
SyncErrors(c) ==
  IF cursor[c] = "poisoned" THEN Refused(Owner[c]) \cup {{Failed}}
  ELSE FullResyncErrors(c)

\* The new cursor is stored when every event of the listing was handled.
Completes(err) == err = {} \/ onlyTargetAuthErrors(err)
SetCursor(c, err) == [cursor EXCEPT ![c] = IF Completes(err) THEN "good" ELSE @]

\* Failures are faults, but for those of a poisoned cursor.
ResyncCost(err)  == IF Failed \in err THEN 1 ELSE 0
SyncCost(c, err) == IF cursor[c] = "poisoned" THEN 0 ELSE ResyncCost(err)
Pay(n)           == faults + n <= MaxFaults /\ faults' = faults + n

Streak(c, err) ==
  [streak EXCEPT ![c] = IF /\ Works("daemon", Owner[c])
                           /\ cursor[c] = "poisoned" /\ ~Completes(err)
                        THEN @ + 1 ELSE 0]

-----------------------------------------------------------------------------
(***************************************************************************)
(* One polling cycle.                                                      *)
(***************************************************************************)
\* SetCalendarError updates the rows that exist.
Reports(C, s) ==
  [c \in Calendar |-> IF c \in C /\ status[c] # "absent" THEN s ELSE status[c]]

\* Mutant: an expired target is noted in the row of the origin.
BlamesOrigin(err) == [status EXCEPT ![at] = "reauth"]

\* The targets found expired are paused, and all their calendars show it.
NewlyExpired(err) == collectTargetAuthErrors(err) \ paused
Marked(err)       == Reports({c \in Calendar : Owner[c] \in NewlyExpired(err)}, "reauth")

Skip ==
  /\ pc = "tick" /\ at < Last /\ Owner[at] \in paused
  /\ at' = at + 1
  /\ UNCHANGED <<tokens, pc, paused, failures, cursor, status, streak, edits, faults>>

Succeeds(c, err) ==
  /\ Completes(err)
  /\ failures' = [failures EXCEPT ![c] = 0]
  /\ status' = [Marked(err) EXCEPT ![c] = "ok"]
  /\ paused' = paused \cup NewlyExpired(err)
  /\ cursor' = SetCursor(c, err) /\ streak' = Streak(c, err) /\ UNCHANGED faults

OriginExpired(c, err) ==
  /\ ~Completes(err) /\ originAuthExpired(err)
  /\ failures' = [failures EXCEPT ![c] = 0]
  /\ status' = [Marked(err) EXCEPT ![c] = "reauth"]
  /\ paused' = paused \cup NewlyExpired(err) \cup {Owner[c]}
  /\ streak' = Streak(c, err) /\ Pay(SyncCost(c, err)) /\ UNCHANGED cursor

\* Mutants: off by one; no resync is ever forced.
OneMore(c)   == failures[c] + 1 > Threshold
Never(c)     == failures[c] < 0
Exhausted(c) == failures[c] + 1 >= Threshold

Fails(c, err) ==
  /\ ~Completes(err) /\ ~originAuthExpired(err) /\ ~Exhausted(c)
  /\ failures' = [failures EXCEPT ![c] = @ + 1]
  /\ status' = [Marked(err) EXCEPT ![c] = "error"]
  /\ paused' = paused \cup NewlyExpired(err)
  /\ streak' = Streak(c, err) /\ Pay(SyncCost(c, err)) /\ UNCHANGED cursor

\* The targets that only the forced resync finds expired are not paused.
FailsOnceMore(c, err) ==
  /\ ~Completes(err) /\ ~originAuthExpired(err) /\ Exhausted(c)
  /\ failures' = [failures EXCEPT ![c] = 0]
  /\ paused' = paused \cup NewlyExpired(err)
  /\ \E again \in FullResyncErrors(c) :
       /\ status' = [Marked(err) EXCEPT ![c] = IF again = {} THEN "ok" ELSE "error"]
       /\ cursor' = SetCursor(c, again) /\ streak' = Streak(c, again)
       /\ Pay(SyncCost(c, err) + ResyncCost(again))

SyncCalendar ==
  /\ pc = "tick" /\ at < Last /\ Owner[at] \notin paused
  /\ \E err \in SyncErrors(at) :
       \/ Succeeds(at, err) \/ OriginExpired(at, err)
       \/ Fails(at, err) \/ FailsOnceMore(at, err)
  /\ at' = at + 1
  /\ UNCHANGED <<tokens, pc, edits>>

EndTick ==
  /\ pc = "tick" /\ at = Last /\ pc' = "wait"
  /\ UNCHANGED <<tokens, at, paused, failures, cursor, status, streak, edits, faults>>

-----------------------------------------------------------------------------
(***************************************************************************)
(* Engine.Run: the ticker and the daily Reconcile, of which only the       *)
(* resynchronisation of every calendar touches what is modelled here.      *)
(***************************************************************************)
Tick ==
  /\ pc = "wait" /\ at' = 1 /\ pc' \in {"tick", "reconcile"}
  /\ UNCHANGED <<tokens, paused, failures, cursor, status, streak, edits, faults>>

\* UpsertCalendar makes the row of a calendar that has none; errors are logged.
ReconcileCalendar ==
  /\ pc = "reconcile" /\ at < Last
  /\ \E err \in FullResyncErrors(at) :
       /\ cursor' = SetCursor(at, err) /\ streak' = Streak(at, err)
       /\ Pay(ResyncCost(err))
  /\ status' = [status EXCEPT ![at] = IF @ = "absent" THEN "ok" ELSE @]
  /\ at' = at + 1
  /\ UNCHANGED <<tokens, pc, paused, failures, edits>>

\* Run makes its maps anew, and the tick follows.
FreshMaps == paused' = {} /\ failures' = Zero /\ streak' = Zero

EndReconcile ==
  /\ pc = "reconcile" /\ at = Last
  /\ pc' = "tick" /\ at' = 1 /\ FreshMaps
  /\ UNCHANGED <<tokens, cursor, status, edits, faults>>

Stop ==
  /\ pc # "down" /\ pc' = "down" /\ at' = 1 /\ FreshMaps
  /\ Pay(1) /\ Forget("daemon")
  /\ UNCHANGED <<cursor, status, edits>>

Start ==
  /\ pc = "down" /\ pc' = "tick" /\ BuildProvider("daemon", Account)
  /\ UNCHANGED <<at, paused, failures, cursor, status, streak, edits, faults>>

-----------------------------------------------------------------------------
(***************************************************************************)
(* The tokens under the daemon, the app server, the users.                 *)
(***************************************************************************)
engine == <<pc, at, paused, failures, cursor, status, streak>>

DaemonRefresh(a) ==
  /\ pc \in {"tick", "reconcile"} /\ a \notin unsaved["daemon"] /\ Refresh("daemon", a)
  /\ UNCHANGED <<engine, edits, faults>>

DaemonPersist(a) == Persist("daemon", a) /\ UNCHANGED <<engine, edits, faults>>

Edit == edits < MaxEdits /\ edits' = edits + 1 /\ UNCHANGED <<engine, faults>>

\* One request of the app server that probes an account, or lists its calendars.
Idle              == \A a \in Account : held["app"][a] = NoToken
AppRequest(a)     == Idle /\ BuildProvider("app", {a}) /\ Edit
AppRefresh(a)     == a \notin unsaved["app"] /\ Refresh("app", a) /\ UNCHANGED <<engine, edits, faults>>
AppPersist(a)     == Persist("app", a) /\ UNCHANGED <<engine, edits, faults>>
AppAnswers ==
  /\ ~Idle /\ Forget("app")
  /\ Pay(IF unsaved["app"] = {} THEN 0 ELSE 1)
  /\ UNCHANGED <<engine, edits>>

UserRevokes(a)    == Revoke(a) /\ Edit
UserAuthorises(a) == Authorise(a) /\ Edit

\* The provider refuses the cursor of a calendar, properly or with 5xx answers.
Spoil(c) ==
  /\ cursor[c] = "good" /\ edits < MaxEdits /\ edits' = edits + 1
  /\ \E s \in {"invalid", "poisoned"} : cursor' = [cursor EXCEPT ![c] = s]
  /\ UNCHANGED <<tokens, pc, at, paused, failures, status, streak, faults>>

Run == Start \/ Tick \/ Skip \/ SyncCalendar \/ EndTick \/ ReconcileCalendar \/ EndReconcile

Next ==
  \/ Run \/ Stop
  \/ AppAnswers
  \/ \E a \in Account :
       \/ DaemonRefresh(a) \/ DaemonPersist(a)
       \/ AppRequest(a) \/ AppRefresh(a) \/ AppPersist(a)
       \/ UserRevokes(a) \/ UserAuthorises(a)
  \/ \E c \in Calendar : Spoil(c)

Spec == Init /\ [][Next]_vars

\* The loop of the daemon goes on, between refreshes that would hold it up for
\* ever (SF), and launchd or Docker restarts it; a token is saved in the call
\* that refreshed it.
LoopSpec ==
  /\ Spec
  /\ SF_vars(Run)
  /\ \A a \in Account : WF_vars(DaemonPersist(a))

\* Besides, reconcile_at comes every day.
FairSpec == LoopSpec /\ SF_vars(Tick /\ pc' = "reconcile")

-----------------------------------------------------------------------------
\* A daemon that is not running holds nothing.
Down == pc = "down" => /\ \A a \in Account : held["daemon"][a] = NoToken
                       /\ unsaved["daemon"] = {} /\ paused = {}

\* A streak is counted by the map, but for what failed resyncs took from it.
Counted == \A c \in Calendar : streak[c] <= failures[c] + Threshold * faults

\* Whatever mixture of errors a pass returns, an account is paused only when
\* its own token has expired in the daemon's hands: a target's expiry does not
\* stop the origin, and another failure stops nobody.
OnlyExpiredPaused == \A a \in paused : ~Works("daemon", a)

\* A paused account shows reauth_required in `calsync status` for as long as it
\* is paused, although passes over other accounts go on writing the table.  The
\* exception is an account found expired as a target before its first own pass:
\* it has no row yet, SetCalendarError updates none, and status does not list it.
PausedIsReported ==
  pc \in {"tick", "wait"} =>
    \A a \in paused :
      \/ \E c \in Of(a) : status[c] = "reauth"
      \/ \A c \in Of(a) : status[c] = "absent"

\* A calendar of a working account whose cursor the provider answers with
\* nothing but errors fails less than Threshold passes before it is listed anew;
\* only failures of the new listing make it longer.
PoisonIsShort == \A c \in Calendar : streak[c] < Threshold * (1 + faults)

\* As long as the token in the daemon's hands works, its calendars are
\* synchronised again and again, whatever other accounts, tokens or cursors do.
WorkingIsSynced ==
  \A c \in Calendar : []<>(Works("daemon", Owner[c]) => status[c] = "ok")

\* README.md:467: after `calsync auth add` the next cycle and the Reconcile pick
\* the account up (the comment at engine/scheduler.go:75 says the same).
ReauthorisedIsSynced ==
  \A c \in Calendar :
    (status[c] = "reauth" /\ disk[Owner[c]] \in good[Owner[c]])
      ~> (status[c] = "ok" \/ disk[Owner[c]] \notin good[Owner[c]])
=============================================================================
