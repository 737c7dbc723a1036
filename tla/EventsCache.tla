------------------------------ MODULE EventsCache ------------------------------
(***************************************************************************)
(* The cache of GET /api/events (appserver/events.go).  An entry is fresh  *)
(* for TTL, then served as stale for StaleMax while one goroutine for each *)
(* window collects the events anew; refresh=1 and misses collect within    *)
(* the request.  The lock is taken four times, and the generations tell a  *)
(* background refresh whether somebody stored a result meanwhile.          *)
(*                                                                         *)
(* The calendars go through numbered states; a result is the number of the *)
(* state it shows, or Nothing when every account failed.                   *)
(***************************************************************************)
EXTENDS Naturals, Sequences

CONSTANTS
  Client,     \* requests that may be under way at once
  Window,     \* eventsCacheKey
  TTL,        \* eventsCacheTTL (60 s)
  StaleMax,   \* eventsCacheStaleMax (30 min)
  Timeout     \* eventsRefreshTimeout (60 s)

ASSUME CacheAssumption == TTL \in Nat /\ StaleMax \in Nat /\ Timeout \in Nat

Nothing  == 0
NoAnswer == [shows |-> Nothing, asked |-> 0]
NoEntry  == [resp |-> Nothing, expires |-> 0, gen |-> 0]
NoJob    == [step |-> "none", resp |-> Nothing, since |-> 0, gen |-> 0]
NoAsk    == [step |-> "none", key |-> "none", resp |-> Nothing, at |-> 0]

VARIABLES
  clock,
  history,      \* the time each state of the calendars began
  entry,        \* eventsCache
  generation,   \* eventsCacheGen
  refreshing,   \* eventsRefreshing
  job,          \* the goroutine of refreshEventsAsync, by window
  ask,          \* the request of each client
  answer        \* the last answer that shows events

cache == <<clock, history, entry, generation, refreshing, job, ask, answer>>

Now == Len(history)

CacheTypeOK ==
  /\ clock \in Nat /\ history \in Seq(Nat) /\ Now > 0 /\ generation \in Nat
  /\ entry \in [Window -> [resp : 0..Now, expires : Nat, gen : 0..generation]]
  /\ refreshing \subseteq Window
  /\ job \in [Window -> [step : {"none", "collect", "store", "end"},
                         resp : 0..Now, since : 0..clock, gen : 0..generation]]
  /\ ask \in [Client -> [step : {"none", "stale", "collect", "store"},
                         key : Window \cup {"none"}, resp : 0..Now, at : 0..clock]]
  /\ answer \in [shows : 0..Now, asked : 0..clock]

CacheInit ==
  /\ clock = 0 /\ history = <<0>> /\ generation = 0
  /\ entry = [w \in Window |-> NoEntry] /\ refreshing = {}
  /\ job = [w \in Window |-> NoJob] /\ ask = [c \in Client |-> NoAsk]
  /\ answer = NoAnswer

-----------------------------------------------------------------------------
(***************************************************************************)
(* The map, under its lock.  A generation of 0 is that of no entry.        *)
(***************************************************************************)
Fresh(w) == entry[w].gen # 0 /\ clock <= entry[w].expires

\* Mutant: what is stale stays so for ever.
AnyAge(w) == entry[w].gen # 0 /\ entry[w].expires < clock
Stale(w) ==
  /\ entry[w].gen # 0 /\ entry[w].expires < clock
  /\ clock <= entry[w].expires + StaleMax

\* Mutant: a generation may be given twice.
SameAgain == generation' = generation
NextGen   == generation' = generation + 1

\* Every write also sweeps the entries that are not even stale any more.
eventsCacheSet(w, resp, now) ==
  /\ NextGen
  /\ entry' = [x \in Window |->
       IF x = w
       THEN [resp |-> resp, expires |-> now + TTL, gen |-> generation + 1]
       ELSE IF entry[x].expires + StaleMax < now THEN NoEntry ELSE entry[x]]

\* Mutant: the background refresh stores whatever it has.
Anyway(w)       == TRUE
SameGen(w)      == entry[w].gen = job[w].gen

Answers(resp, at) ==
  answer' = IF resp = Nothing THEN answer ELSE [shows |-> resp, asked |-> at]

-----------------------------------------------------------------------------
(***************************************************************************)
(* handleEvents.  Nothing slow happens between the reading of the clock    *)
(* and the lookup.                                                         *)
(***************************************************************************)
Begin(c, step, w) ==
  ask' = [ask EXCEPT ![c] = [step |-> step, key |-> w, resp |-> entry[w].resp, at |-> clock]]

AskFresh(c, w) ==
  /\ ask[c] = NoAsk /\ Fresh(w) /\ Answers(entry[w].resp, clock)
  /\ UNCHANGED <<clock, history, entry, generation, refreshing, job, ask>>

AskStale(c, w) ==
  /\ ask[c] = NoAsk /\ Stale(w) /\ Begin(c, "stale", w)
  /\ UNCHANGED <<clock, history, entry, generation, refreshing, job, answer>>

\* A miss, or refresh=1.
AskLive(c, w) ==
  /\ ask[c] = NoAsk /\ Begin(c, "collect", w)
  /\ UNCHANGED <<clock, history, entry, generation, refreshing, job, answer>>

\* refreshEventsAsync, and the answer.  The entry may be another one by now.
ServeStale(c) ==
  /\ ask[c].step = "stale"
  /\ LET w == ask[c].key IN
       IF w \in refreshing THEN UNCHANGED <<refreshing, job>>
       ELSE /\ refreshing' = refreshing \cup {w}
            /\ job' = [job EXCEPT ![w] = [step |-> "collect", resp |-> Nothing,
                                          since |-> clock, gen |-> entry[w].gen]]
  /\ Answers(ask[c].resp, ask[c].at) /\ ask' = [ask EXCEPT ![c] = NoAsk]
  /\ UNCHANGED <<clock, history, entry, generation>>

Collect(c) ==
  /\ ask[c].step = "collect"
  /\ \/ ask' = [ask EXCEPT ![c] = NoAsk]
     \/ \E resp \in {Now, Nothing} :
          ask' = [ask EXCEPT ![c].step = "store", ![c].resp = resp]
  /\ UNCHANGED <<clock, history, entry, generation, refreshing, job, answer>>

Store(c) ==
  /\ ask[c].step = "store"
  /\ eventsCacheSet(ask[c].key, ask[c].resp, ask[c].at)
  /\ Answers(ask[c].resp, ask[c].at) /\ ask' = [ask EXCEPT ![c] = NoAsk]
  /\ UNCHANGED <<clock, history, refreshing, job>>

-----------------------------------------------------------------------------
(***************************************************************************)
(* The goroutine of refreshEventsAsync.  Errors, panics and results of     *)
(* failures alone end it; it collects for at most Timeout.                 *)
(***************************************************************************)
JobCollect(w) ==
  /\ job[w].step = "collect"
  /\ \/ job' = [job EXCEPT ![w].step = "end"]
     \/ job' = [job EXCEPT ![w].step = "store", ![w].resp = Now]
  /\ UNCHANGED <<clock, history, entry, generation, refreshing, ask, answer>>

JobStore(w) ==
  /\ job[w].step = "store"
  /\ IF SameGen(w) THEN eventsCacheSet(w, job[w].resp, clock)
     ELSE UNCHANGED <<entry, generation>>
  /\ job' = [job EXCEPT ![w].step = "end"]
  /\ UNCHANGED <<clock, history, refreshing, ask, answer>>

\* Mutant: the flag is cleared by those that stored something only.
Unflag(w) == refreshing' = refreshing \ (IF job[w].resp = Nothing THEN {} ELSE {w})
Clear(w)  == refreshing' = refreshing \ {w}

JobEnd(w) ==
  /\ job[w].step = "end"
  /\ Clear(w) /\ job' = [job EXCEPT ![w] = NoJob]
  /\ UNCHANGED <<clock, history, entry, generation, ask, answer>>

-----------------------------------------------------------------------------
InTime(w) == job[w].step \in {"collect", "store"} => clock < job[w].since + Timeout

TimePasses ==
  /\ \A w \in Window : InTime(w)
  /\ clock' = clock + 1
  /\ UNCHANGED <<history, entry, generation, refreshing, job, ask, answer>>

CalendarsChange ==
  /\ history' = Append(history, clock)
  /\ UNCHANGED <<clock, entry, generation, refreshing, job, ask, answer>>

\* The process ends, and everything in memory with it.
CacheDies ==
  /\ entry' = [w \in Window |-> NoEntry] /\ generation' = 0 /\ refreshing' = {}
  /\ job' = [w \in Window |-> NoJob] /\ ask' = [c \in Client |-> NoAsk]
  /\ UNCHANGED <<clock, history, answer>>

CacheNext ==
  \/ TimePasses \/ CalendarsChange \/ CacheDies
  \/ \E c \in Client :
       \/ ServeStale(c) \/ Collect(c) \/ Store(c)
       \/ \E w \in Window : AskFresh(c, w) \/ AskStale(c, w) \/ AskLive(c, w)
  \/ \E w \in Window : JobCollect(w) \/ JobStore(w) \/ JobEnd(w)

CacheSpec == CacheInit /\ [][CacheNext]_cache

-----------------------------------------------------------------------------
\* A background refresh never puts an older state of the calendars, or
\* nothing, in place of what the cache has, however slow it was and whatever
\* was stored, swept or asked for while it collected.
RefreshNeverAgesEntry ==
  [][\A w \in Window :
       job[w].step = "store" /\ job'[w].step = "end"
         => entry'[w].resp >= entry[w].resp]_cache

\* The view's promise: every answer, fresh, stale or live, shows a state of
\* the calendars that held at most TTL + StaleMax + Timeout before the request.
View == INSTANCE RecentAnswers WITH MaxAge <- TTL + StaleMax + Timeout
AnswersAreRecent == View!Spec

\* No window stays marked as being refreshed, which would freeze its entry
\* until it is too old even to be stale.
RefreshEnds == \A w \in Window : w \in refreshing ~> w \notin refreshing
=============================================================================
