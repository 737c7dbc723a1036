# A formal model of calsync

calsync mirrors the busy times of several calendars (Google, Microsoft Graph)
onto each other: for every event of a monitored calendar it keeps a *blocker*
on the calendar of every other account. This directory models the engine that
does so, the daemon's loop around it and the server of the desktop application
in TLA+, checks them with TLC on small instances and proves their main safety
properties with TLAPS for instances of every size.

Paths below are those of the repository without `src/`; `engine/`, `store/`, `provider/`,
`appserver/` and `model/` are under `internal/`.

## Contents

| file | what it is |
|---|---|
| `Mirror.tla` | abstract: calendar, answers, cache and blockers as a chain of copies |
| `BlockerSync.tla` | one monitored calendar, its targets, all of `SyncCalendar`, `FullResync`, `Reconcile`; implements `Mirror` |
| `BlockerSyncProofs.tla` | type correctness, the inductive invariants, uniqueness, truth of rows and cursor, what a Reconcile settles, the refinement of `Mirror` |
| `LoopPrevention.tla` | several accounts that are monitored and receive blockers at once |
| `RemoveAccount.tla` | `accounts remove`, on `LoopPrevention`: cut short, repeated, forced, with the daemon in between |
| `LoopPreventionProofs.tla` | the generations of echoes are bounded by the failures; removals are complete |
| `Notifications.tla` | the loop of `Engine.Run`, the morning digest and the reminders |
| `NotificationsProofs.tla` | one reminder per meeting and start; where reminders of moved events come from |
| `Tokens.tla` | OAuth tokens: the file, what two processes hold, what the provider honours |
| `Scheduler.tla` | the polling loop: paused accounts, counted failures, what status shows; runs on `Tokens` |
| `SchedulerProofs.tla` | who is paused, that it is shown, the length of a streak, the token file stays usable |
| `RecentAnswers.tla` | abstract: what a reader of the event view may count on |
| `EventsCache.tla` | the app server's stale-while-revalidate cache; implements `RecentAnswers` |
| `EventsCacheProofs.tla` | that refinement, and that a background refresh never ages an entry |
| `Maintenance.tla` | launchd, the flock, the maintenance window, the daemon's actions, the end of the server |
| `MaintenanceProofs.tla` | the daemon is unloaded within a window or for a listed reason |
| `AuthFlow.tla` | one authorisation at a time: browser, cancel, time-out, token file |
| `ConfigSave.tla` | GET and PUT of the configuration by several clients, through one tmp file |
| `ConfigSaveProofs.tla` | config.yaml is whole, and no save is blind, until two saves use one tmp file |
| `AppServer.tla` | the four parts above composed into one server |
| `AppServerProofs.tla` | `AuthFlow`'s invariant; every step of the server is a step of each part; all that is proved of the parts, for the whole |
| `MC*.tla`, `*.cfg` | the instances for TLC |
| `PROJECT.json` | components, runs, mutants, the map from definitions to lines, hazards, findings, theorems |

To check one run: `tlc -config BlockerSyncGoogle.cfg MCBlockerSync.tla`. To
check the proofs: `tlapm BlockerSyncProofs.tla`.

## Inventory of the system

One process of `calsync run` (the daemon) holds the lock of the data directory
(`store.Open`, a flock) and runs one engine on one goroutine. Its interleavings
are therefore not between threads but between the engine and everybody else:
users who edit calendars, the clock that moves the window, the providers that
answer late or not at all, and the death of the process between any two writes.
The desktop application starts an app server that shares the database read-only
and talks to the daemon through launchd; that part is concurrent in the ordinary
sense.

| component | state | operations | what is hard | what makes it correct |
|---|---|---|---|---|
| sync engine (`engine/engine.go`, `reconcile.go`, `dedupe.go`) | none of its own between passes; all in the store | `SyncCalendar`, `FullResync`, `Reconcile`, `processEvent`, fan-out, promotion | a remote call and the row about it are two writes; the window moves; targets fail singly | blockers unique and exact after a Reconcile; nothing forgotten; the past left alone |
| store (`store/*.go`) | tables `calendars`, `events`, `mappings`, `reminders_sent` | upserts, deletes, lookups by id and iCalUID | loss of the database, NULL ids of intents | what a row says is what the calendar shows |
| providers (`provider/google`, `provider/microsoft`) | the remote calendars, the delta links | `Changes`, `CreateBlocker`, `UpdateBlocker`, `DeleteBlocker`, `ListBlockers` | idempotency by client id or transactionId; fixed delta window; no tag in Graph's delta | an unrecorded creation is found, never repeated |
| scheduler (`engine/scheduler.go`) | deadlines, `reauth`, `failures`, in memory | `Run`, `tick`, `nextDailyAt` | restart loses the memory; streaks of failures; expired accounts | daily work is done daily; a broken calendar does not stop the others |
| notifications (`engine/notify.go`, `store/reminders.go`) | `reminders_sent`, `nextDigest` | `runDigest`, `checkReminders` | answer lost after delivery; copies of one meeting; the cache as the source | each meeting announced once per start, none missed, no digest lost or doubled without a failure |
| tokens (`auth/tokens.go`, `clients/clients.go`) | one file per account, a copy in each process | refresh, persist, authorise | two processes refresh one rotating token; death between rotation and Save | the file holds a token that works |
| accounts remove (`engine/engine.go` `RemoveAccount`) | rows of one account | remote deletion, then rows | partial failure, re-run | nothing of the account is left behind |
| app server: event cache (`appserver/events.go`) | cached windows, generation, in-flight flag | read, refresh, background refresh | late answers overwrite newer ones; several readers | an answer has a known age at most; a refresh ages nothing and always ends |
| app server: daemon control and maintenance (`appserver/daemon.go`, `maintenance.go`, `server.go`) | phase of the maintenance window, launchd's state | bootout, reconcile, bootstrap, shutdown | check-then-act, shutdown in the middle | the daemon is loaded again in the end |
| app server: configuration (`appserver/yamledit.go`, `confighttp.go`) | the YAML file, its modification time, the tmp file | load, save | two editors, one tmp file, death half-way | no silent overwrite, never half a file |
| app server: authorisation (`appserver/authflow.go`, `auth/flow.go`) | one flow, its listener, its cancel function | start, cancel, status | cancel, time-out and token at once | one flow at a time; the phase tells what the file holds |
| configuration, event model, Slack format, doctor, CLI, desktop UI, scripts | files or none | pure functions or I/O | – | – |

`PROJECT.json` lists every component with its status, and under `hazards` each
place where one of these goes wrong in a way a test would hardly reach.

## How the modules correspond to the code

### BlockerSync

One monitored calendar and its targets. The state is the calendars (`truth` of
the monitored one, `blockers` on the targets), the store (`cursor`,
`deltaFrom`, `cache` = table `events`, `row` = table `mappings`, `twin` = the
same meeting in the cache of a target), and the memory of the pass in progress
(`phase`, `batch`, the loop variables `todo*`, `job`, `op`).

*Atomicity.* Every provider call is two steps: the request takes effect
(`CreateBlocker`, `UpdateBlocker`, `DeleteBlocker`) and the write that records it
(`PutActive`, `PutTimeHash`, `DeleteMapping`). Between any two steps a user may
edit (`UserEdits`, `UserRemovesBlocker`), the window may slide, and the process
may die (`Crash`: `phase`, `job`, `op` and the loops are gone, the store
stays). `CallFails` is an error that may or may not have taken effect, with the
distinction the code makes: an expired authorisation of the target skips that
target, any other error ends the pass. `DatabaseLost` empties the store.

| action | code |
|---|---|
| `SyncCalendar`, `FullResync`, `DropVanished`, `SetCursor` | `engine.go:56`, `reconcile.go:24` |
| `processEvent` (rules 1–5), `FinishEvent` | `engine.go:105` |
| `upsertBlockerOnTarget`, `deleteBlockersForOrigin` | `engine.go:214`, `engine.go:298` |
| `Reconcile` and its phases `rebuild`, `clean`, `pending`, `adopt`, `restore`, `suppressed`, chained by `NextPhase` | `reconcile.go:148` |
| `promoteSuppressed` | `dedupe.go:34` |
| `CreateBlocker` with `Align` and `Insert` | `provider/google/blockers.go:91`, `provider/microsoft/blockers.go:102` |

*Data.* An event is the slot it occupies. The time and detail hashes tell two
slots apart and nothing else, so a hash is a slot; `Unknown` is the sentinel
that `rebuildMappingsFromTags` and adoption store. `Free` stands for free and
declined.

*Mirror* is what the engine may do at all, whatever its passes are: the calendar
is edited by its user; an answer of `Changes` says of each event what it is now,
that it is gone, or nothing; a notice is taken and remembered only while the
answer lasts and only if the event is ahead; a blocker is put where the engine
knows the event to be at that moment, or goes. Nothing is copied from further
back, and nothing back. `MirrorsByCopying` is this `Spec` with `told` as `batch`,
`known` as `cache`, and `shown` as the slots of the blockers of each pair.

### LoopPrevention

Here every account is monitored and is a target, so that blockers come back as
changes. An event is named by its path: `<<a>>` is a real event of account `a`,
`Append(e, t)` the blocker of `e` on `t`. A path longer than two is an *echo*, a
blocker of a blocker. Times and windows are left out; the steps are those of
`processEvent`, of the fan-out and of Reconcile's phases. Rule 2 is
`Recognised`: by the id in `mappings` (`IsBlocker`), or by the tag, which only
Google's `Changes` returns (`Tagged`). A cursor that has expired turns the pass into
a FullResync with its set-difference, outside Reconcile too (phase `relist`).

### RemoveAccount

`calsync accounts remove` extends `LoopPrevention`, because it deletes by the rows
that the engine left, in whatever state a failure left them. `removal` is the
command in progress: its account, `--force`, its loop and the rows still in it;
`gone` are the accounts that were removed and not authorised again. The flock
of the data directory keeps the daemon out, so a removal starts when the daemon is
idle or has died, and users go on editing (`Outside`). Without the token of an
account in its configuration the daemon does not start (`buildEngine`), hence
`DaemonRuns`. An error ends the command (`RemovalEnds`), as does its death; it can
be started again for the same account or another one, and the daemon may run
first. `strays` is a history variable: the blockers that a failure of the
daemon, or `--force`, left without an id in the mappings.

| action | code |
|---|---|
| `BeginRemoval` | `engine.go:486`, `cmd/calsync/cmd_accounts.go:26` |
| `RemoveRow`, `RemovalSkips` | `engine.go:466`, for either loop |
| `NextLoop` with `ListReceived` | `engine.go:500` |
| `ForgetEvents`, `ForgetCalendars` | `engine.go:515` |
| `RemovalEnds` with `HalfRemoved` | `engine.go:479`, and the end of the process |
| `AuthoriseAgain` | `cmd/calsync/cmd_auth.go:25` |

### Notifications

The loop of `Engine.Run`: `Tick`, digest, `Reconcile` when due, tick over the
calendars, `checkReminders`. `known[e]` is what the store has of an event: the
cached start and whether it has mappings; `processEvent` and `fullResync` are
the rules and the set-difference as functions of that pair. A pass that meets
an expired target leaves it out and still stores the cursor (`SkipsTarget`): where
there was a blocker to delete, the cache row and its mapping stay and the change is
never reported again, which the history variable `skipped` remembers. Any other
error leaves the cursor, and the store anywhere the pass may have come to
(`SyncFails` with `Halfway`). A send has the four
answers the Slack client distinguishes: delivered, delivered but the answer
lost, retryable, not retryable. A reminder that was delivered and the row in
`reminders_sent` are two steps with a possible crash in between. Time is counted
in polling intervals; `Slow` lets one pass inside any call, or while the machine
is suspended.

### Tokens and Scheduler

`Tokens` has the file of each account (`disk`), what the daemon and the app
server hold (`held`), what each of them refreshed and has not saved yet
(`unsaved`), and what the provider honours (`good`). The daemon reads a file
once, at its start; every refresh of a rotating account makes a new token and
kills the old one, and `Persist` is a step of its own: `persistingTokenSource.Token`
calls `Save` after the provider has answered, and a process may die between.

`Scheduler` is `Engine.Run`: `tick` over the calendars in the order of the
configuration, one calendar per step, `Reconcile`, the maps `reauth` (`paused`)
and `failures`, and the `calendars` table as `calsync status` reads it
(`status`). What a synchronisation does to calendars is `BlockerSync`'s subject;
here a pass is the *set* of the errors it joins (`Expired`, `Failed`,
`Target(a)`), because what the code does with such a mixture is what could go
wrong. `streak` is a history variable: failures on a cursor that the provider
answers with nothing but errors.

### The app server: EventsCache, Maintenance, AuthFlow, ConfigSave, AppServer

*EventsCache.* `entry` is the map of cached windows with expiry and generation,
`refreshing` the flag of each window, `ask[c]` the request of client `c`
between its unlock and its answer, `job[w]` the goroutine of a background
refresh. `history` numbers the states of the calendars and keeps when each one
began, which is when the one before it ended. A step ends where the code unlocks:
the decision (`AskFresh`, `AskStale`, `AskLive`), the start of the goroutine
(`ServeStale`), the collection, the store with its sweep (`eventsCacheSet`), the
comparison of generations (`JobStore`), the deferred reset of the flag (`JobEnd`).

*RecentAnswers* is what all this promises: the calendars change whenever they
like, and an answer shows a state that still held at most `MaxAge` before the
question. `EventsCache` implements it with `MaxAge = TTL + StaleMax + Timeout`
(`AnswersAreRecent`, the abstract `Spec` under a refinement mapping).

*Maintenance.* `loaded` is what launchd knows, `lock` who holds the flock of
the data directory, `window` the stage of the goroutine of a window, `action` a
daemon action between its check of the phase, its detection of the mode and its
command, `server` the stages of `Serve` and its shutdown, `straggler` the
commands a dead server left behind. `reason` is a history variable: why the
daemon is unloaded, if no window is going to load it.

*AuthFlow.* Flows are numbered; `browser` is what the listener of the last one
is doing, `over` the flows whose context is done, `cancelling` the flow whose
cancel function a request has read and not called yet, `saved` the flow whose
token the file holds.

*ConfigSave.* Files are numbered, `disk` says of each its edition and
modification time, `conf` and `tmp` are the two names. A step is one file
operation: Stat, ReadFile, Stat of GET; comparison, open, write, rename, Stat
of PUT. `raced` marks clients during whose PUT another edition arrived, `clash`
that two saves have used one tmp file; both are history variables.

*AppServer* has all four side by side. They meet in the mode that lets a
request in (`Mode`), in the configuration that a collection, a reconcile, the
daemon and an authorisation must be able to read (`Whole`), and in the end of
the process, which takes all of them wherever they are (`AppExits`,
`AppKilled`: `Exit` or `Kill` together with `CacheDies`, `AuthDies`, `ConfigDies`).

| action | code |
|---|---|
| `AskFresh`, `AskStale`, `AskLive`, `ServeStale`, `Collect`, `Store` | `appserver/events.go:86` |
| `JobCollect`, `JobStore`, `JobEnd` | `appserver/events.go:209` |
| `AskWindow`, `OpenWindow`, `Bootout`, `StartReconcile`, `ReconcileFails`, `ReconcileEnds`, `Bootstrap`, `FinishWindow` | `appserver/maintenance.go:50` |
| `AskAction`, `DetectForAction`, `Act`, `ActFails` | `appserver/daemon.go:108` |
| `Quit`, `EndServe`, `EnsureBootstrap`, `Exit` | `appserver/server.go:200` |
| `StartAuth`, `FlowEnds`, `AskCancel`, `Cancel`; `Redirect`, `Exchange` | `appserver/authflow.go:29`; `auth/flow.go:73` |
| `BeginGet`, `ReadFile`, `EndGet`, `EndPut`; `BeginPut`, `OpenTmp`, `WriteTmp`, `RenameTmp` | `appserver/confighttp.go:23`; `appserver/yamledit.go:22` |

### How the modules fit together

`BlockerSync` gives `LoopPrevention` and `Notifications` their atomic steps:
`LoopPrevention` keeps its control and drops times in order to have several
monitored calendars; `Notifications` keeps what a pass does to the events cache
and drops the targets; `Scheduler` keeps of a pass its errors and extends
`Tokens`. They share no variables: one instance with everything would have
far too many states, and each question needs only one of the views. The parts
of the app server do share one process, and `AppServer` composes them: it
extends the four modules and gives each of their actions its place.

## What the runs check

| run | instance | states | result |
|---|---|---|---|
| `blockers_google` | 1 event, 1 Google target, 3 slots, horizon 2, 1 slide, 3 edits, 2 failures | 1 133 317 | holds |
| `blockers_two_events` | 2 events, 1 Graph target, 2 slots, horizon 1, 1 slide, 2 edits, 1 failure | 2 147 581 | holds |
| `blockers_pair` | 1 Graph event, a Google and a Graph target, 2 edits, 1 failure, with fairness | 403 028 | holds |
| `loop_prevention` | 2 accounts that mirror each other and are removed, one on Graph, paths up to 5, 1 edit, 2 failures | 594 950 | holds |
| `notifications` | 2 copies of a meeting, 3 starts, 2 days of 2 intervals, 2 edits, 2 failures | 3 003 758 | holds |
| `scheduler` | 2 accounts, one with rotating tokens, 3 calendars, 3 tokens each, threshold 2, 2 edits, 1 fault, with fairness | 362 456 | holds |
| `app_server` | 2 clients, 1 window, TTL, StaleMax and Timeout of 1, clock to 4, load 4, 1 edit, 1 fault, with fairness | 158 552 | holds |
| `lost_update`, `move_to_past`, `phantom_reminder`, `reauth_needs_restart` | smallest instance that shows the disagreement | | violated, see findings |

*Properties of BlockerSync.* `AtMostOneBlocker`: intents and idempotency keys
survive every crash. `RowTellsTruth`: an active row with a known hash shows what
is on the calendar; equal hashes mean that no call is made, so a lying row is
never repaired. `CursorTellsTruth`: what the cursor will not report again is in
the cache. `ReconcileSettles`: a Reconcile nobody disturbs leaves the mirror
exact, whatever came before, except in the two situations of the findings
(`torn`, `Stranded`). `NoBlockerForgotten`: a row goes after its remote event.
`KeepsThePast`: what is over is left alone. `MirrorsByCopying`: the refinement of
`Mirror`; it fails if a promotion or a retry takes the time from the row, which a
crash after rule 5 leaves behind the cache. `Converges`: once users and failures
stop the mirror becomes right and stays so.

*Properties of LoopPrevention.* `EchoesCostFailures`: a chain of copies has at
most two places more than there were failures. `TaggedIsNoOrigin`: a blocker on
Google is never mirrored. `ReconcileRemovesEchoes`: two undisturbed Reconciles
remove every echo.

*Property of RemoveAccount.* `RemovalIsComplete`: README.md:433 says that when all
accounts have been removed the blockers are gone from every calendar. After any
number of removals that were cut short, of runs of the daemon in between and of new
attempts, no blocker is left of a removed account or on it, except `strays`.

*Properties of Notifications.* `RemindedOnce`: one reminder per meeting and
start, beyond that only lost answers and crashes. `NoReminderMissed`: after a
Reconcile that went well every pass ends with a record for every event that
starts within the lead, including those that only the sliding window brought in.
`PhantomsHaveCause`: a reminder about a start the event no longer has, when no
change is unread, comes from a cache row without mappings, or from one whose
deletion was skipped because a target's authorisation had expired
(`engine.go:84`) and that no good Reconcile has made up for. `DigestOnce`, `DigestKept`: digests are
doubled or lost only by failures, one each.

*Properties of Scheduler.* `OnlyExpiredPaused`: whatever mixture of errors a
pass returns, an account is paused only if its own token is dead in the daemon's
hands. `PausedIsReported`: a paused account shows `reauth_required`, unless it was
found expired as a target before it had a row. `PoisonIsShort`: a calendar whose
cursor is poisoned is listed anew before the threshold. `DiskUsable`: two
processes that refresh the same token leave a working one in the file.
`WorkingIsSynced` (liveness): the calendars of a working account are synchronised
again and again.

*Properties of the app server.* `RefreshNeverAgesEntry`: a slow background
refresh never replaces something newer. `AnswersAreRecent`: the refinement; it
is also all that holds of two synchronous requests of which the older result is
stored last. `UnloadedHasReason`: the daemon is unloaded only within a window
that will load it, or because the user stopped it, launchctl failed, the server
was killed, or it ended before the bootout of a window did. `PhaseTellsFile`: an
authorisation reported as failed has not changed the token file, one reported as
done has. `WholeUnlessClash`: no death and no full disk leaves half a
configuration; only two saves with one tmp file do. `NoBlindOverwrite`: a save
replaces what its client had loaded, unless the other edition arrived while a PUT
of this client was under way. `RefreshEnds`, `AuthEnds`, `DaemonComesBack`
(liveness): the flag of a refresh is cleared, a flow nobody completes ends, and
the daemon runs again after whatever was done to it.

*Why the bounds are enough.* The counters bound the environment, not the
engine: a pass always runs to its end. Two failures let a failure meet the
recovery from another one (a crash during the Reconcile that repairs a lost
response); three edits let an event move, move back and be deleted; three slots
with a horizon of two and one slide give an event before, inside and beyond the
window and one that leaves it on its own. Two targets let one be skipped while
the other proceeds. In `LoopPrevention` `MaxLen > MaxFaults + 2`, which is an
assumption of the module: it is proved that no path ever needs a longer name,
so the bound takes no step away; the run takes states for the same that differ only in
what no later step reads (`LiveState` of `MCRemoveAccount`, a VIEW: the calendar of a
pass that is over, the changes of a calendar that has no valid cursor). In `Notifications` the clock covers two
midnights, and a tick may come without the clock moving, so that nothing stops
at the bound; the run takes the two copies of the meeting as symmetric, which is
sound because it checks safety only and no constant tells them apart. In
`scheduler` the threshold of two stands for five: it is one more than one, so
that a success, an expiry and a Reconcile can each come between two failures.
In `app_server` `MaxLoad` bounds requests and the number of parts they are for
together, so that four requests go to one part, or fewer to several at once;
others interfere with a part only once it is used, the container starts and
stops only while the agent is unloaded, and of the idle clients one asks
(`SomeOf`), because they differ in nothing else. Two clients let a synchronous
store, a background one and a sweep overlap, and two saves share a tmp file;
the clock passes TTL, StaleMax and Timeout with one unit to spare. What is
proved of the parts, below, holds without these bounds. `app_server` alone does without the deadlock check: a
server that nobody asks for anything any more waits.

*Mutants.* Each property of a passing run is paired with a change of the model
that a plausible bug in the code would be (a fresh key per creation, no
alignment after a 409, the row deleted first, a cursor stored too early, rule 2
by tag only, a daily deadline that may be now) and that makes TLC report it.
They are the operators marked as faulty variants or mutants; nothing else uses them.

## Fairness

`FairSpec` of `BlockerSync` is used by `blockers_pair` only. `WF(Continue)` and
`WF(SyncCalendar)`: `Engine.Run` is a loop that always runs the next statement
and always comes to the next tick. `SF(Reconcile)`: Reconcile is due once a day
and `Run` looks at its deadline before every tick (`scheduler.go:70`), but in
the model it is enabled only between passes and competes with the ticks there,
so weak fairness would not be enough. Nothing is assumed of users, the clock or
failures; they are bounded, so they stop by themselves.

`LoopSpec` of `Scheduler`: `SF(Run)`, the loop goes on (refreshes come between its
steps, so weak fairness would not be enough) and a stopped daemon is started
again by launchd or Docker; `WF(DaemonPersist)`, a token is saved in the call that
refreshed it. `FairSpec`, of the violation run, adds that Reconcile is reached again
and again, so that its counterexample is not a daemon that merely never gets there.

`FairSpec` of `AppServer`: weak fairness of what goroutines, handlers and
launchctl go on with (`EventsGoOn`, `Steps`, `AuthGoesOn`, `AppExits`), of the
timer of a flow's context (`AuthTimes`: five minutes pass whatever happens) and of
launchd (`Daemon`: `RunAtLoad` and `KeepAlive`). Nothing is assumed of the
browser (`Redirect` may never come), of requests, users, failures or kills; a
server that died need not be started again.

## What is proved

For every set of events, accounts and targets, every horizon and any number of
edits and failures:

- `TypeCorrect` (BlockerSync) and `LoopTypeCorrect` (LoopPrevention);
- `UniqueBlocker`: `Spec => []AtMostOneBlocker`. Needs only the types: the two
  calls that add a blocker look for a live one first, or use the key as the id;
- `TruthOfRows`: `Spec => []RowTellsTruth`. It is not inductive: the write that
  follows a call makes the row active with the slot of the call, so it must be
  known that the remote event still has that slot. `Bookkeeping` is the
  strengthening: `OpShape` (between a call and its write, row and event are as
  the call left them), `RowShape` (only active rows carry an id) and `LoopShape`
  (the loops of `resolvePending` and `reevaluateSuppressed` hold rows as they
  listed them, and only those passes have a call in progress). `Bookkept` proves
  it, with steps grouped into quiet steps, call steps and loop steps;
- `NoneForgotten`: `Spec => NoBlockerForgotten`, an action property, from the
  same invariant;
- `CursorTruthful`: `Spec => []CursorTellsTruth`, from `CursorInv`. The cursor is
  stored last, so the promise has to be followed through the pass: what the
  store knows of an event (`Known`), what the next delta or the batch in hand
  still reports (`Reported`), what a FullResync may spare (`Spared`), and the
  clocks that order the windows of cursor, pass and present (`Clocks`);
- `RowsNameBlockers`: `Spec => []ActiveNames /\ IdsFromTheCalendar`. The first part:
  an active row has the id of the blocker on the calendar, as long as there is one,
  so that `adoptOrphans` takes no mapped blocker for an orphan; the next theorem
  needs it. The second part says the rest, for a blocker that is gone: the engine
  starts without ids, and every id it comes to hold for a pair (`Holds`: in a
  listing, in the row, in the call in progress) is at that step the id of a blocker
  of this pair on the calendar. So an update or a deletion never goes to an id that
  never was, nor to another pair's. No run checks it;
- `PastKept`: `Spec => KeepsThePast`, an action property. The past guards are
  evaluated when a job is made, the blocker goes some steps later, and the user
  or the clock may be in between; `PastInv` says that every job that takes down a
  blocker still has its reason (`JobsJustified`), every notice of the batch is
  fresh or will be reported again (`BatchFresh`), and no cached time is older than
  the cursor (`CacheBound`);
- `Settles`: `Spec => []ReconcileSettles`, the deepest of these. The property
  speaks of the end of a Reconcile, so `SettleInv` says for every phase what has
  been established by then: `Diffed` (what is cached and not alive is over),
  `Cached` and `Distributed` (each event of the listing that was taken is in the
  cache, and its rows are right, or in the job or the call in progress), `Cleaned`,
  `Resolved`, `Adopted`, `Restored` and `Reevaluated`, one for each loop of
  Reconcile, with what is left of the loop as the exception while it runs. `Shape`,
  `JobRight` and `OpRight` say what an undisturbed engine has in memory, and
  `Reach` that no blocker lies beyond the window, without which a listing of
  Google would not show it. A step that works on one pair leaves the others
  alone (`Elsewhere`, `PairStep`), so that each action is looked at for one pair.
  At the end the calendar is `Steady`. `SettledMirrors` derives the property;
  it needs `UniqueBlocker`, `TruthOfRows` and the invariant of `RowsNameBlockers` too;
- `SettledIsQuiet`: `Spec => RepeatsNothing`, an action property that no run
  checks: a settled engine that goes on undisturbed, with ticks or with
  Reconciles, issues no call that writes and changes neither a blocker nor the
  state of a row (`SettledStep`). It is what `engine.go:53` means by idempotent;
- `ImplementsMirror`: `Spec => MirrorsByCopying`, the refinement of `Mirror`. One
  invariant is new: a call that writes carries the slot its event has in the cache
  (`CallsKnown`), because the cache changes only between two calls
  (`CacheRests`) and every pass reads it when it makes the call, or distributes
  what rule 5 has just put there. With
  `UniqueBlocker`, what a call leaves of a pair is one slot (`DisplayedWrites`) and
  what a removal leaves is none (`DisplayedRemovals`). Each action is then an
  abstract one or a stutter: `SyncCalendar` and `FullResync` are `Ask`,
  `processEvent` is `Take`, `FinishEvent` and `DatabaseLost` are `Forget`,
  `SetCursor` and `Crash` are `GiveUp`, the calls are `Show` or `Hide`, also
  when only their response is lost; the rows are invisible;
- `NoLoop`: `Spec => []EchoesCostFailures`, from the inductive `Generations`:
  what is not recognised is one failure younger than what is (`Ages`), a notice
  of the current batch still says the truth about a blocker (`NoticeAges`,
  because a pass changes no row of the calendar it reads, `OfThePass`), the event in
  progress has its age (`JobAge`), and the loop of `resolvePending` holds only
  intents (`OnlyIntents`). Each step that can make an unrecognised blocker (a
  lost response, a crash, a lost database) raises `faults` by one, and that is
  the whole argument;
- `TagsStopEchoes`: `Spec => []TaggedIsNoOrigin`, from `OriginsUntagged`;
- `RemovalCompletes`: `RemovalSpec => []RemovalIsComplete`, from three facts: a blocker
  that is no stray is in an active row (`Recorded`), the loop of a removal still
  holds every row it has not deleted (`LoopsCover`), and the rows of an account that
  is gone are gone (`NoRowsOfGone`). `NoLoopByRemoval` keeps the bound on echoes
  with removals: a removal deletes an active row only together with its blocker or as a
  failure, so what `Generations` counts can only shrink (`ShrinkKeeps`);
  `RemovalTypeCorrect` is the type invariant;
- `EchoesAreRemoved`: `Spec => []ReconcileRemovesEchoes`, and `RemovalsLeaveNoEchoes` the
  same of `RemovalSpec`. `Tidying` follows two Reconciles without a failure: in the
  first one `resolvePending` leaves no intent (`IntentsResolved`) and `adoptOrphans` no
  blocker without its row (`Adopted`), so that from then on no blocker is taken
  for an event (`NoCopyMirrored`); in the second one each FullResync forgets the
  copies of its account (`Resynced`, `Uncached`), and `cleanStaleMappings` takes
  down their blockers (`Cleared`). That no FullResync was skipped needs `Unfailed`;
- `RemindedAtMostOnce`: `Spec => []RemindedOnce`. The count of deliveries says
  nothing about the next one, so the invariant `Accounted` says where the record of
  a delivery is that no failure pays for: in `reminders_sent`, or about to be
  written, or dropped by Reconcile because its start is over, in which case
  nothing lists it again (`ClockForward`: the clock a check goes by never runs
  back);
- `PhantomsExplained`: `Spec => []PhantomsHaveCause`, from `MappedIsTrue`: a row
  with mappings, of an event without unread changes and not over, is cached as
  it is, or its deletion was skipped (`Skipped`) and no Reconcile has made up for it
  yet. Both theorems lean on `Loops`: what `checkReminders` goes through is what
  it listed, by the clock it read; `NotificationsTypeCorrect` needs it too;
- `DigestAtMostOnce`: `Spec => []DigestOnce`, from `DigestInvariant`: the deadline is
  always that of a day (`Digesting`), and a day announced beyond what failures
  pay for is behind it (`Announced`). That `nextDailyAt` moves a deadline past the day
  of the clock it was given is `NextDigestIs`, from a few lemmas about days;
- `DigestNeverSkipped`: `Spec => []DigestKept`, for a digest that is not due at
  midnight. The days without a digest cannot be counted by the clock alone: a
  day that will be passed over is lost when the failure happens, often before it is
  past. `LostDays` are the days that have no digest and never will, unless a
  retry succeeds; each step that adds to them is a failure and adds one
  (`FailureAdds`, `SendAdds`), every other step adds none (`RunAdds`);
- `NoReminderIsMissed`: `Spec => []NoReminderMissed`, for a window that reaches a
  day and the lead ahead (`DayLength + Lead <= Horizon`). `Remembered`: from one
  Reconcile until the lead after the next, what starts is cached as it is,
  and what comes within the lead of a check is listed, being sent or recorded.

- `NobodyElseIsPaused`, `PauseIsReported`, `PoisonIsCounted`, `FileStaysUsable`,
  `SchedulerTypeCorrect` (Scheduler). `DiskUsable` is the deep one: an unsaved
  token is good and in one place only (`Unshared`), nobody holds a token of the
  future (`Traceable`), and the file of an account that does not rotate is good
  whoever writes it (`PlainFile`);
- `RefreshIsNewer`, `CacheImplementsView` (EventsCache). `CacheInv` follows a
  result through the cache: `Lasts(v, t, d)` says that state `v` still held `d`
  before `t`; the slack grows by `Timeout` when a job stores it, by `TTL` with the
  expiry, by `StaleMax` when it is served stale. The second theorem is the
  refinement of `RecentAnswers`: initial states map to initial states, each
  action to an abstract step or a stutter;
- `DaemonIsAccountedFor` (Maintenance), from one fact more: an open window is
  marked as running, so the shutdown does not overlook it;
- `ConfigIsWhole`, `SavesAreNotBlind` (ConfigSave). Before a clash one save has
  the tmp file (`OneWriter`), and its modification time was never seen under the
  name config.yaml (`TmpUnseen`); therefore a time found again there stands for
  the edition it stood for (`PagesTell`, `CallsTell`), and a save that nobody
  raced still knows what it replaces (`SavesKnow`);
- the whole server (AppServer): `ServerHasParts`, every step of it is for each
  part a step of this part or none, so that the theorems above hold of the
  composition: `ServerAnswersAreRecent`, `ServerRefreshIsNewer`,
  `ServerKeepsDaemon`, `ServerKeepsConfig`, `ServerSavesAreNotBlind`; with the
  inductive invariant of the authorisation flow `PhaseIsTrue`; and `ServerTypes`.

The assumptions are the named `ASSUME`s of the modules: types of the constants,
and `MaxLen > MaxFaults + 2`. Two theorems have a hypothesis of their own, which the
checked instance satisfies and the code does not enforce; what it costs where it does
not hold is under "Disagreements found".

Every safety property of the passing runs is stated by a theorem. Only
model-checked are the liveness properties `Converges`, `WorkingIsSynced`,
`RefreshEnds`, `AuthEnds` and `DaemonComesBack`, which are out of the prover's reach,
as are `ENABLED` and induction over data, and the properties the findings refute,
which are false.

## Disagreements found

- `lost_update` (`engine.go:286`): an update that took effect without its
  `PutMapping`, followed by the origin moving back, is never repaired; the
  comment at `engine.go:53` calls a re-run safe.
- `move_to_past` (`reconcile.go:90`): rule 5 caches the new time before the
  blocker follows; if that call fails and the new time is over by the next pass,
  the past guards keep the blocker at its old, upcoming time. The comment at
  `reconcile.go:86` says it is cleaned up.
- `phantom_reminder` (`engine.go:164`): rule 3 leaves the cache row of an event
  moved beyond the window; a reminder is sent for the old start. The comment at
  `store/reminders.go:11` says that the cache needs no filter.
- `reauth_needs_restart` (`engine/scheduler.go:75`): an account that expired and
  was authorised again by `calsync auth add` stays paused, because the daemon
  holds the token it read at its start; README.md:467 and the comment say that
  the next cycle and the Reconcile pick it up.

Seen while modelling, and exempted by a property rather than refuted by a run:
two overlapping PUTs share `config.yaml.tmp` and may leave a mixture of two
editions (`clash`), although `appserver/yamledit.go:62` calls it an invariant
that no broken configuration is written; the answer of a PUT carries a
modification time Stat'ed after the rename (`appserver/confighttp.go:104`), so an
edit that lands in between can be overwritten by the same client's next save
(`raced`); the bootstrap of the shutdown may be overtaken by a bootout in flight
(`reason = "late"`); `engine.go:467` says that a pending row has no remote event,
but one whose answer was lost may have: `accounts remove` forgets such a row
and leaves the blocker (`strays`), where Reconcile would have found it. That a
lost response of a creation on Graph lets the next pass mirror the blocker once is
no disagreement: `engine/reconcile.go:45` knows of it. What is promised is that
there is no loop, and `EchoesCostFailures` and `ReconcileRemovesEchoes` say how far
an echo goes and when it is gone.

Seen while proving. With `DigestAt = 0` (`morning_digest: "00:00"`) `DigestKept`
does not hold: a day that is given up takes the next one with it. The first tick of
a day gives up the digest of the day before (`engine/notify.go:63`) and computes the
deadline from its own clock, which is past midnight, so the digest of the day that
has just begun is passed over; the comment at `engine/notify.go:54` speaks of
carrying on with the next day. And nothing ties `sync_window` to
`remind_before`: `config.Validate` (`config/config.go:182`) accepts a window of one
day, with which an event that enters it right after the daily Reconcile is not
cached before its reminder is due, unless it changes. The default of three months is
far from that.

## Abstractions and assumptions

- Events are slots or starts; titles, descriptions, time zones and all-day dates
  are not modelled. Paging inside `Changes` and `ListBlockers` is one step.
- Graph answers a repeated `transactionId` with 409 as long as the event lives.
- Errors of SQLite itself are not modelled; each statement is atomic.
- `BlockerSync` has one monitored calendar. What the targets' own passes do to
  it appears as `TwinAppears` and `TwinVanishes` (the second one starts
  `promoteSuppressed`); rule 2 is the subject of `LoopPrevention`.
- `CursorExpires` and every failing call count as failures and are bounded by
  `MaxFaults`. A failing `Changes` of an incremental pass changes nothing and is
  left out.
- In `LoopPrevention` a blocker that is created again keeps its name, and a 409
  is always answered by patching.
- In `Notifications` each calendar has one event, and is read in one step; what
  may happen inside that step is in `Passes`, `SkipsTarget`, `SyncFails` and `CrashInSync`.
  Reconcile's phases after the resync do not touch the events cache and, of the
  mappings, only drop rows of events that are not cached or over; they are left
  out. A calendar reports an event that left the window with its new time, as
  Google does; Graph reports a removal. Loss of the database is left out: it
  also loses the record of what was sent.
- `TokenStore.Save` is one step, although the daemon and the app share the name
  of its tmp file as saves of the configuration do.
- In `EventsCache` a collection reads all calendars at one moment, and what an
  answer contains is the number of the state it shows.
- In `Maintenance` `launchctl print` answers truly, or fails only for an agent
  that is not loaded.
- In `ConfigSave` two writes never get the same modification time, and a file in
  pieces cannot be loaded; comments, validation and the backup do not decide
  what is written.

## Not modelled

Formatting (Slack blocks, descriptions), the parsing and validation of the
configuration, `doctor`, the desktop UI and the scripts are I/O or pure functions
without state of interest. The fake provider is a test double. A daemon that runs
with the accounts that are left after one was removed from the configuration is not
modelled: the set of accounts is a constant. The content of a digest (`CollectWindow`) is a pure function, not modelled.

## Plan

What is modelled and proved above came first; what would add most now:

1. Pure functions: `CollectWindow` and the merging of digest entries against
   reference definitions.
