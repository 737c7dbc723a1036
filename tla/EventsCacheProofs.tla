--------------------------- MODULE EventsCacheProofs ---------------------------
(***************************************************************************)
(* Proofs about the events cache, for all durations, windows and clients:  *)
(* a background refresh never ages an entry, and the cache implements      *)
(* RecentAnswers.                                                          *)
(*                                                                         *)
(* The invariant follows a result through the cache.  State v of the       *)
(* calendars ended at history[v + 1]; Lasts(v, t, d) says that this was    *)
(* not more than d before t.  A result lasts as long as the request or the *)
(* job that collected it began; Timeout is added when a job stores it, TTL *)
(* with the expiry of the entry, StaleMax when a stale entry is served.    *)
(***************************************************************************)
EXTENDS EventsCache, TLAPS

Lasts(v, t, d) == v = Nothing \/ v = Now \/ t <= history[v + 1] + d

PastHistory == \A i \in 1..Now : history[i] <= clock

EntriesLast ==
  \A w \in Window : /\ entry[w].expires <= clock + TTL
                    /\ Lasts(entry[w].resp, entry[w].expires, TTL + Timeout)

AsksLast ==
  \A c \in Client :
    /\ ask[c].step = "stale" => /\ ask[c].key \in Window
                                /\ Lasts(ask[c].resp, ask[c].at, TTL + StaleMax + Timeout)
    /\ ask[c].step = "collect" => ask[c].key \in Window
    /\ ask[c].step = "store" => ask[c].key \in Window /\ Lasts(ask[c].resp, ask[c].at, 0)

JobsLast ==
  \A w \in Window :
    /\ job[w].step \in {"collect", "store"} => clock <= job[w].since + Timeout
    /\ job[w].step = "store" => Lasts(job[w].resp, job[w].since, 0)

\* A job that still finds its generation has something at least as new.
JobsAreNewer ==
  \A w \in Window :
    job[w].step = "store" /\ entry[w].gen = job[w].gen => entry[w].resp <= job[w].resp

CacheInv ==
  CacheTypeOK /\ PastHistory /\ EntriesLast /\ AsksLast /\ JobsLast /\ JobsAreNewer

-----------------------------------------------------------------------------
\* The end of a state of the calendars comes after everything that saw it.
LEMMA ChangeKeeps ==
  ASSUME history \in Seq(Nat), Now > 0, clock \in Nat, history' = Append(history, clock),
         NEW v \in 0..Now, NEW t \in Nat, NEW d \in Nat, t <= clock + d, Lasts(v, t, d)
  PROVE  Lasts(v, t, d)'
<1>1. Len(history') = Len(history) + 1 /\ history'[Len(history) + 1] = clock
  OBVIOUS
<1>2. CASE v = Now
  BY <1>1, <1>2 DEF Lasts, Now
<1>3. CASE v # Now /\ v # Nothing
  <2>1. v + 1 \in 1..Len(history)
    BY <1>3 DEF Now, Nothing
  <2>2. history'[v + 1] = history[v + 1]
    BY <2>1
  <2> QED
    BY <1>3, <2>2 DEF Lasts, Now
<1>4. CASE v = Nothing
  BY <1>4 DEF Lasts
<1> QED
  BY <1>2, <1>3, <1>4

\* What lasts for less lasts for more.
LEMMA LongerSlack ==
  ASSUME history \in Seq(Nat), NEW v \in 0..Now, NEW t \in Nat, NEW d \in Nat, Lasts(v, t, d),
         NEW u \in Nat, NEW e \in Nat, u + d <= t + e
  PROVE  Lasts(v, u, e)
<1>1. CASE v = Nothing \/ v = Now
  BY <1>1 DEF Lasts
<1>2. CASE ~(v = Nothing \/ v = Now)
  <2>1. history[v + 1] \in Nat
    BY <1>2 DEF Now, Nothing
  <2> QED
    BY <1>2, <2>1 DEF Lasts
<1> QED
  BY <1>1, <1>2

-----------------------------------------------------------------------------
\* The first state of the calendars.
LEMMA OneState == <<0>> \in Seq(Nat) /\ Len(<<0>>) = 1 /\ <<0>>[1] = 0
OBVIOUS

\* The cache starts empty and satisfies the invariant.
LEMMA InitCache == CacheInit => CacheInv
<1> SUFFICES ASSUME CacheInit PROVE CacheInv
  OBVIOUS
<1> USE CacheAssumption DEF NoEntry, NoJob, NoAsk, NoAnswer, Nothing
<1>1. Now = 1 /\ history \in Seq(Nat) /\ history[1] = 0
  BY OneState DEF CacheInit, Now
<1>2. CacheTypeOK
  BY <1>1 DEF CacheInit, CacheTypeOK
<1>3. PastHistory
  BY <1>1 DEF CacheInit, PastHistory
<1>4. EntriesLast
  BY DEF CacheInit, EntriesLast, Lasts
<1>5. AsksLast /\ JobsLast /\ JobsAreNewer
  BY DEF CacheInit, AsksLast, JobsLast, JobsAreNewer
<1> QED
  BY <1>2, <1>3, <1>4, <1>5 DEF CacheInv

\* A write to the cache keeps the invariant of the entries, if the result lasts.
LEMMA SetKeeps ==
  ASSUME CacheInv, NEW w \in Window, NEW resp \in 0..Now, NEW now \in 0..clock,
         Lasts(resp, now, Timeout), eventsCacheSet(w, resp, now), UNCHANGED <<clock, history>>
  PROVE  /\ entry' \in [Window -> [resp : 0..Now, expires : Nat, gen : 0..generation']]
         /\ generation' = generation + 1 /\ entry'[w].gen = generation + 1
         /\ entry'[w].resp = resp
         /\ EntriesLast'
         /\ \A x \in Window : x # w => entry'[x].resp \in {entry[x].resp, 0}
         /\ \A x \in Window : x # w => entry'[x] = entry[x] \/ entry'[x] = NoEntry
<1> USE CacheAssumption DEF CacheInv, CacheTypeOK, NoEntry, Nothing
<1>1. generation' = generation + 1 /\ generation \in Nat /\ clock \in Nat /\ now \in Nat
  BY DEF eventsCacheSet, NextGen
<1>2. entry'[w] = [resp |-> resp, expires |-> now + TTL, gen |-> generation + 1]
  BY <1>1 DEF eventsCacheSet
<1>3. \A x \in Window : x # w => entry'[x] = entry[x] \/ entry'[x] = NoEntry
  BY <1>1 DEF eventsCacheSet
<1>4. entry' \in [Window -> [resp : 0..Now, expires : Nat, gen : 0..generation']]
  <2>1. entry' = [x \in Window |-> entry'[x]]
    BY DEF eventsCacheSet
  <2>2. entry'[w] \in [resp : 0..Now, expires : Nat, gen : 0..generation']
    BY <1>1, <1>2
  <2>3. ASSUME NEW x \in Window, x # w
        PROVE  entry'[x] \in [resp : 0..Now, expires : Nat, gen : 0..generation']
    <3>1. Now \in Nat
      BY DEF Now
    <3>2. entry[x] \in [resp : 0..Now, expires : Nat, gen : 0..generation']
      <4>1. entry[x] \in [resp : 0..Now, expires : Nat, gen : 0..generation]
        OBVIOUS
      <4>2. 0..generation \subseteq 0..generation'
        BY <1>1
      <4> QED
        BY <4>1, <4>2
    <3>3. NoEntry \in [resp : 0..Now, expires : Nat, gen : 0..generation']
      BY <1>1, <3>1
    <3> QED
      BY <1>3, <2>3, <3>2, <3>3
  <2> QED
    BY <2>1, <2>2, <2>3
<1>5. EntriesLast'
  <2> SUFFICES ASSUME NEW x \in Window
               PROVE  /\ entry'[x].expires <= clock + TTL
                      /\ Lasts(entry'[x].resp, entry'[x].expires, TTL + Timeout)
    BY DEF EntriesLast, Lasts, Now
  <2>1. CASE x = w
    <3>1. /\ now + TTL \in Nat /\ TTL + Timeout \in Nat /\ now <= clock
          /\ now + TTL + Timeout <= now + (TTL + Timeout)
      BY <1>1
    <3>2. Lasts(resp, now + TTL, TTL + Timeout)
      <4>1. resp \in 0..Now /\ history \in Seq(Nat) /\ Timeout \in Nat
        OBVIOUS
      <4> HIDE DEF CacheInv, CacheTypeOK, Now
      <4> QED
        BY <1>1, <3>1, <4>1, LongerSlack
    <3>3. entry'[x].resp = resp /\ entry'[x].expires = now + TTL
      <4> HIDE DEF CacheInv, CacheTypeOK, Now
      <4> QED
        BY <1>2, <2>1
    <3> QED
      BY <1>1, <3>1, <3>2, <3>3
  <2>2. CASE x # w /\ entry'[x] = entry[x]
    <3>1. /\ entry[x].expires <= clock + TTL
          /\ Lasts(entry[x].resp, entry[x].expires, TTL + Timeout)
      BY DEF EntriesLast
    <3> HIDE DEF CacheInv, CacheTypeOK, Lasts
    <3> QED
      BY <2>2, <3>1
  <2>3. CASE x # w /\ entry'[x] = NoEntry
    BY <1>1, <2>3 DEF Lasts
  <2>4. x = w \/ (x # w /\ entry'[x] = entry[x]) \/ (x # w /\ entry'[x] = NoEntry)
    BY <1>3
  <2> HIDE DEF CacheInv, CacheTypeOK, Lasts, NoEntry
  <2> QED
    BY <2>1, <2>2, <2>3, <2>4
<1>6. entry'[w].gen = generation + 1 /\ entry'[w].resp = resp
  BY <1>2
<1>7. \A x \in Window : x # w => entry'[x].resp \in {entry[x].resp, 0}
  <2>1. NoEntry.resp = 0
    OBVIOUS
  <2> HIDE DEF NoEntry, CacheInv
  <2> QED
    BY <1>3, <2>1
<1> QED
  BY <1>1, <1>3, <1>4, <1>5, <1>6, <1>7

-----------------------------------------------------------------------------
\* The requests and the jobs that store nothing leave the entries alone.
LEMMA AskKeeps ==
  ASSUME CacheInv, NEW c \in Client, NEW w \in Window,
         AskFresh(c, w) \/ AskStale(c, w) \/ AskLive(c, w)
  PROVE  CacheInv'
<1> USE CacheAssumption DEF CacheInv, CacheTypeOK, Nothing, Lasts, Now
<1>1. CASE AskFresh(c, w)
  <2>1. CacheTypeOK'
    <3>1. entry[w].resp \in 0..Now /\ clock \in 0..clock
      OBVIOUS
    <3>2. answer' \in [shows : 0..Now, asked : 0..clock]
      BY <1>1, <3>1 DEF AskFresh, Answers
    <3>3. UNCHANGED <<clock, history, entry, generation, refreshing, job, ask>>
      BY <1>1 DEF AskFresh
    <3> QED
      BY <3>2, <3>3
  <2>2. PastHistory' /\ EntriesLast' /\ AsksLast' /\ JobsLast' /\ JobsAreNewer'
    BY <1>1 DEF AskFresh, PastHistory, EntriesLast, AsksLast, JobsLast, JobsAreNewer
  <2> QED
    BY <2>1, <2>2
<1>2. CASE AskStale(c, w) \/ AskLive(c, w)
  <2>1. PICK step \in {"stale", "collect"} :
          /\ Begin(c, step, w) /\ (step = "stale" => Stale(w))
          /\ UNCHANGED <<clock, history, entry, generation, refreshing, job, answer>>
    BY <1>2 DEF AskStale, AskLive
  <2>2. /\ ask'[c] = [step |-> step, key |-> w, resp |-> entry[w].resp, at |-> clock]
        /\ \A d \in Client : d # c => ask'[d] = ask[d]
        /\ ask' = [d \in Client |-> ask'[d]]
    BY <2>1 DEF Begin
  <2>3. entry[w].resp \in 0..Now /\ entry[w].expires \in Nat /\ clock \in Nat /\ clock \in 0..clock
    <3>1. entry \in [Window -> [resp : 0..Now, expires : Nat, gen : 0..generation]] /\ clock \in Nat
      OBVIOUS
    <3> HIDE DEF CacheInv, CacheTypeOK, Now
    <3> QED
      BY <3>1
  <2>4. CacheTypeOK'
    <3>1. ask'[c] \in [step : {"none", "stale", "collect", "store"},
                       key : Window \cup {"none"}, resp : 0..Now, at : 0..clock]
      BY <2>2, <2>3
    <3>2. ask' \in [Client -> [step : {"none", "stale", "collect", "store"},
                       key : Window \cup {"none"}, resp : 0..Now, at : 0..clock]]
      BY <2>2, <3>1
    <3> QED
      BY <2>1, <3>2
  <2>5. PastHistory' /\ EntriesLast' /\ JobsLast' /\ JobsAreNewer'
    BY <2>1 DEF PastHistory, EntriesLast, JobsLast, JobsAreNewer
  <2>6. AsksLast'
    <3>1. step = "stale" => Lasts(entry[w].resp, clock, TTL + StaleMax + Timeout)
      <4> SUFFICES ASSUME step = "stale"
                   PROVE  Lasts(entry[w].resp, clock, TTL + StaleMax + Timeout)
        OBVIOUS
      <4>1. clock <= entry[w].expires + StaleMax
        BY <2>1 DEF Stale
      <4>2. Lasts(entry[w].resp, entry[w].expires, TTL + Timeout)
        BY DEF EntriesLast
      <4>4. history \in Seq(Nat) /\ TTL + Timeout \in Nat /\ TTL + StaleMax + Timeout \in Nat
        OBVIOUS
      <4> HIDE DEF CacheInv, CacheTypeOK, Lasts, Now
      <4>3. clock + (TTL + Timeout) <= entry[w].expires + (TTL + StaleMax + Timeout)
        BY <2>3, <4>1
      <4> QED
        BY <2>3, <4>2, <4>3, <4>4, LongerSlack
    <3>2. /\ ask'[c].step = step /\ ask'[c].key = w
          /\ ask'[c].resp = entry[w].resp /\ ask'[c].at = clock
      BY <2>2
    <3> QED
      BY <2>1, <2>2, <3>1, <3>2 DEF AsksLast
  <2> QED
    BY <2>4, <2>5, <2>6
<1> QED
  BY <1>1, <1>2

\* A stale answer, and the job it may start.
LEMMA ServeStaleKeeps ==
  ASSUME CacheInv, NEW c \in Client, ServeStale(c)
  PROVE  CacheInv'
<1> USE CacheAssumption DEF CacheInv, CacheTypeOK, Nothing, Lasts, Now
<1>1. ask[c].step = "stale" /\ ask[c].key \in Window
  BY DEF ServeStale, AsksLast
<1>2. /\ UNCHANGED <<clock, history, entry, generation>>
      /\ ask' = [ask EXCEPT ![c] = NoAsk]
      /\ Answers(ask[c].resp, ask[c].at)
  BY DEF ServeStale
<1>3. /\ NoAsk \in [step : {"none", "stale", "collect", "store"},
                    key : Window \cup {"none"}, resp : 0..Now, at : 0..clock]
      /\ NoAsk.step = "none"
  BY DEF NoAsk
<1> DEFINE w == ask[c].key
           new == [step |-> "collect", resp |-> Nothing, since |-> clock, gen |-> entry[w].gen]
           Jobs == [step : {"none", "collect", "store", "end"},
                    resp : 0..Now, since : 0..clock, gen : 0..generation]
<1>4. /\ job' = job \/ job' = [job EXCEPT ![w] = new]
      /\ refreshing' \subseteq Window
  BY <1>1 DEF ServeStale
<1>5. job' \in [Window -> Jobs]
  <2>1. entry[w].gen \in 0..generation /\ clock \in 0..clock /\ Nothing \in 0..Now
    <3>1. entry \in [Window -> [resp : 0..Now, expires : Nat, gen : 0..generation]]
      OBVIOUS
    <3>2. clock \in Nat /\ Now \in Nat /\ w \in Window
      BY <1>1
    <3> HIDE DEF CacheInv, CacheTypeOK, Now, w
    <3> QED
      BY <3>1, <3>2
  <2>2. job \in [Window -> Jobs]
    OBVIOUS
  <2>3. new \in Jobs
    <3> HIDE DEF CacheInv, CacheTypeOK, Now, w
    <3> QED
      BY <2>1
  <2> HIDE DEF new, Jobs
  <2> QED
    BY <1>4, <2>2, <2>3
<1>6. CacheTypeOK'
  <2>1. answer' \in [shows : 0..Now, asked : 0..clock]
    BY <1>2 DEF Answers
  <2>2. ask' \in [Client -> [step : {"none", "stale", "collect", "store"},
                           key : Window \cup {"none"}, resp : 0..Now, at : 0..clock]]
    BY <1>2, <1>3
  <2> QED
    BY <1>2, <1>4, <1>5, <2>1, <2>2
<1>7. PastHistory' /\ EntriesLast' /\ AsksLast'
  BY <1>2, <1>3 DEF PastHistory, EntriesLast, AsksLast
<1>8. JobsLast' /\ JobsAreNewer'
  <2>1. new.step = "collect" /\ new.since = clock /\ clock <= clock + Timeout
    OBVIOUS
  <2>2. ASSUME NEW x \in Window, job'[x] = job[x]
        PROVE  /\ job'[x].step \in {"collect", "store"} => clock <= job'[x].since + Timeout
               /\ job'[x].step = "store" => Lasts(job'[x].resp, job'[x].since, 0)
               /\ job'[x].step = "store" /\ entry[x].gen = job'[x].gen
                    => entry[x].resp <= job'[x].resp
    BY <2>2 DEF JobsLast, JobsAreNewer
  <2>3. \A x \in Window : job'[x] = job[x] \/ job'[x] = new
    <3> HIDE DEF new, w
    <3> QED
      BY <1>4
  <2> HIDE DEF new, w
  <2> QED
    BY <1>2, <2>1, <2>2, <2>3 DEF JobsLast, JobsAreNewer
<1> QED
  BY <1>6, <1>7, <1>8

\* The type of a request that has its result.
LEMMA ResultStored ==
  ASSUME NEW S, NEW K, NEW R, NEW T, "store" \in S,
         NEW a \in [step : S, key : K, resp : R, at : T], NEW r \in R
  PROVE  [a EXCEPT !.step = "store", !.resp = r] \in [step : S, key : K, resp : R, at : T]
OBVIOUS

\* A request collects: what it gets holds now.
LEMMA CollectKeeps ==
  ASSUME CacheInv, NEW c \in Client, Collect(c)
  PROVE  CacheInv'
<1> USE CacheAssumption DEF CacheInv, CacheTypeOK, Nothing, Lasts, Now
<1>1. /\ UNCHANGED <<clock, history, entry, generation, refreshing, job, answer>>
      /\ ask[c].step = "collect" /\ ask[c].key \in Window
  BY DEF Collect, AsksLast
<1>2. NoAsk \in [step : {"none", "stale", "collect", "store"},
                 key : Window \cup {"none"}, resp : 0..Now, at : 0..clock]
      /\ NoAsk.step = "none"
  BY DEF NoAsk
<1>3. CacheTypeOK'
  <2> DEFINE Asks == [step : {"none", "stale", "collect", "store"},
                      key : Window \cup {"none"}, resp : 0..Now, at : 0..clock]
  <2>1. ASSUME NEW resp \in {Now, Nothing}
        PROVE  [ask[c] EXCEPT !.step = "store", !.resp = resp] \in Asks
    <3>1. ask[c] \in Asks /\ resp \in 0..Now
      OBVIOUS
    <3> QED
      BY <3>1, ResultStored
  <2>2. ask' = [ask EXCEPT ![c] = NoAsk] \/
        \E resp \in {Now, Nothing} :
          ask' = [ask EXCEPT ![c] = [ask[c] EXCEPT !.step = "store", !.resp = resp]]
    BY DEF Collect
  <2>3. ask' \in [Client -> Asks]
    <3>1. ask \in [Client -> Asks]
      OBVIOUS
    <3>2. NoAsk \in Asks
      BY <1>2
    <3> HIDE DEF CacheInv, CacheTypeOK, Asks
    <3> QED
      BY <2>1, <2>2, <3>1, <3>2
  <2> QED
    BY <1>1, <2>3
<1>4. PastHistory' /\ EntriesLast' /\ JobsLast' /\ JobsAreNewer'
  BY <1>1 DEF PastHistory, EntriesLast, JobsLast, JobsAreNewer
<1>5. /\ \A d \in Client : d # c => ask'[d] = ask[d]
      /\ \/ ask'[c] = NoAsk
         \/ /\ ask'[c].step = "store" /\ ask'[c].key = ask[c].key
            /\ ask'[c].resp \in {Now, Nothing}
  BY DEF Collect
<1>6. AsksLast'
  BY <1>1, <1>2, <1>5 DEF AsksLast
<1> QED
  BY <1>3, <1>4, <1>6

\* A request stores what it collected after it began.
LEMMA StoreKeeps ==
  ASSUME CacheInv, NEW c \in Client, Store(c)
  PROVE  CacheInv'
<1> USE CacheAssumption DEF CacheInv, CacheTypeOK, Nothing, Lasts, Now
<1> DEFINE w == ask[c].key  resp == ask[c].resp  at == ask[c].at
<1>1. /\ w \in Window /\ resp \in 0..Now /\ at \in 0..clock /\ Lasts(resp, at, 0)
      /\ eventsCacheSet(w, resp, at) /\ Answers(resp, at)
      /\ ask' = [ask EXCEPT ![c] = NoAsk]
      /\ UNCHANGED <<clock, history, refreshing, job>>
  BY DEF Store, AsksLast
<1>2. Lasts(resp, at, Timeout)
  <2>1. at \in Nat /\ at + 0 <= at + Timeout /\ history \in Seq(Nat)
    BY <1>1
  <2> HIDE DEF resp, at, Lasts, Now, CacheInv
  <2> QED
    BY <1>1, <2>1, LongerSlack
<1>3. /\ entry' \in [Window -> [resp : 0..Now, expires : Nat, gen : 0..generation']]
      /\ generation' = generation + 1 /\ entry'[w].gen = generation + 1
      /\ EntriesLast'
      /\ \A x \in Window : x # w => entry'[x].resp \in {entry[x].resp, 0}
      /\ \A x \in Window : x # w => entry'[x] = entry[x] \/ entry'[x] = NoEntry
  <2> HIDE DEF w, resp, at, Now, Lasts, Nothing, CacheInv
  <2> QED
    BY <1>1, <1>2, SetKeeps
<1>4. NoAsk \in [step : {"none", "stale", "collect", "store"},
                 key : Window \cup {"none"}, resp : 0..Now, at : 0..clock]
      /\ NoAsk.step = "none"
  BY DEF NoAsk
<1>5. CacheTypeOK'
  <2>1. answer' \in [shows : 0..Now, asked : 0..clock]
    BY <1>1 DEF Answers
  <2>2. ask' \in [Client -> [step : {"none", "stale", "collect", "store"},
                           key : Window \cup {"none"}, resp : 0..Now, at : 0..clock]]
    BY <1>1, <1>4
  <2>3. 0..generation \subseteq 0..generation' /\ generation' \in Nat
    BY <1>3
  <2>4. job \in [Window -> [step : {"none", "collect", "store", "end"},
                          resp : 0..Now, since : 0..clock, gen : 0..generation']]
    BY <2>3
  <2> QED
    BY <1>1, <1>3, <2>1, <2>2, <2>3, <2>4
<1>6. PastHistory' /\ AsksLast' /\ JobsLast'
  BY <1>1, <1>4 DEF PastHistory, AsksLast, JobsLast
<1>7. JobsAreNewer'
  <2> SUFFICES ASSUME NEW x \in Window, job[x].step = "store", entry'[x].gen = job[x].gen
               PROVE  entry'[x].resp <= job[x].resp
    BY <1>1 DEF JobsAreNewer
  <2>1. job[x].gen \in 0..generation /\ job[x].resp \in 0..Now
    OBVIOUS
  <2>2. x # w
    <3>1. generation \in Nat
      OBVIOUS
    <3> HIDE DEF CacheInv, CacheTypeOK
    <3> QED
      BY <1>3, <2>1, <3>1
  <2>3. CASE entry'[x] = entry[x]
    BY <2>3 DEF JobsAreNewer
  <2>4. CASE entry'[x] = NoEntry
    BY <2>1, <2>4 DEF NoEntry
  <2> QED
    BY <1>3, <2>2, <2>3, <2>4
<1> QED
  BY <1>3, <1>5, <1>6, <1>7

\* The type of a job that has its result, or has ended.
LEMMA JobMovesOn ==
  ASSUME NEW S, NEW R, NEW T, NEW G, "store" \in S, "end" \in S,
         NEW a \in [step : S, resp : R, since : T, gen : G], NEW r \in R
  PROVE  /\ [a EXCEPT !.step = "store", !.resp = r] \in [step : S, resp : R, since : T, gen : G]
         /\ [a EXCEPT !.step = "end"] \in [step : S, resp : R, since : T, gen : G]
OBVIOUS

\* A job collects: what it gets is as new as anything.
LEMMA JobCollectKeeps ==
  ASSUME CacheInv, NEW w \in Window, JobCollect(w)
  PROVE  CacheInv'
<1> USE CacheAssumption DEF CacheInv, CacheTypeOK, Nothing, Lasts, Now
<1> DEFINE Jobs == [step : {"none", "collect", "store", "end"},
                    resp : 0..Now, since : 0..clock, gen : 0..generation]
<1>1. /\ UNCHANGED <<clock, history, entry, generation, refreshing, ask, answer>>
      /\ job[w].step = "collect" /\ job[w].since \in 0..clock
      /\ \/ job' = [job EXCEPT ![w].step = "end"]
         \/ job' = [job EXCEPT ![w].step = "store", ![w].resp = Now]
  BY DEF JobCollect
<1>2. /\ \A x \in Window : x # w => job'[x] = job[x]
      /\ job'[w].step \in {"end", "store"}
      /\ job'[w].step = "store" =>
           job'[w].resp = Now /\ job'[w].since = job[w].since /\ job'[w].gen = job[w].gen
  BY <1>1
<1>3. CacheTypeOK'
  <2>1. job \in [Window -> Jobs] /\ Now \in 0..Now /\ job[w] \in Jobs
    OBVIOUS
  <2>2. [job[w] EXCEPT !.step = "store", !.resp = Now] \in Jobs /\ [job[w] EXCEPT !.step = "end"] \in Jobs
    BY <2>1, JobMovesOn
  <2>3. \/ job' = [job EXCEPT ![w] = [job[w] EXCEPT !.step = "end"]]
        \/ job' = [job EXCEPT ![w] = [job[w] EXCEPT !.step = "store", !.resp = Now]]
    BY <1>1
  <2>4. job' \in [Window -> Jobs]
    <3> HIDE DEF Jobs
    <3> QED
      BY <2>1, <2>2, <2>3
  <2> QED
    BY <1>1, <2>4
<1>4. PastHistory' /\ EntriesLast' /\ AsksLast'
  BY <1>1 DEF PastHistory, EntriesLast, AsksLast
<1>5. JobsLast' /\ JobsAreNewer'
  <2> SUFFICES ASSUME NEW x \in Window
               PROVE  /\ job'[x].step \in {"collect", "store"} => clock <= job'[x].since + Timeout
                      /\ job'[x].step = "store" => Lasts(job'[x].resp, job'[x].since, 0)
                      /\ job'[x].step = "store" /\ entry[x].gen = job'[x].gen
                           => entry[x].resp <= job'[x].resp
    BY <1>1 DEF JobsLast, JobsAreNewer
  <2>1. CASE x # w
    <3>1. /\ job[x].step \in {"collect", "store"} => clock <= job[x].since + Timeout
          /\ job[x].step = "store" => Lasts(job[x].resp, job[x].since, 0)
          /\ job[x].step = "store" /\ entry[x].gen = job[x].gen
               => entry[x].resp <= job[x].resp
      BY DEF JobsLast, JobsAreNewer
    <3> HIDE DEF CacheInv, CacheTypeOK, Lasts, Now
    <3> QED
      BY <1>2, <2>1, <3>1
  <2>2. CASE x = w
    <3>1. job[w].step = "collect" /\ clock <= job[w].since + Timeout
      BY <1>1 DEF JobsLast
    <3>2. entry[w].resp \in 0..Now /\ Now \in Nat
      <4>1. Now \in Nat
        OBVIOUS
      <4>2. entry \in [Window -> [resp : 0..Now, expires : Nat, gen : 0..generation]]
        OBVIOUS
      <4> HIDE DEF CacheInv, CacheTypeOK, Lasts, Now
      <4> QED
        BY <4>1, <4>2
    <3>3. Lasts(Now, job[w].since, 0)
      BY <3>2
    <3> HIDE DEF CacheInv, CacheTypeOK, Lasts, Now
    <3> QED
      BY <1>2, <2>2, <3>1, <3>2, <3>3
  <2> QED
    BY <2>1, <2>2
<1> QED
  BY <1>3, <1>4, <1>5

\* A job stores its result, not later than Timeout after it began, or drops it.
LEMMA JobStoreKeeps ==
  ASSUME CacheInv, NEW w \in Window, JobStore(w)
  PROVE  /\ CacheInv'
         /\ \A x \in Window : entry'[x].resp >= entry[x].resp \/ x # w
<1> USE CacheAssumption DEF CacheInv, CacheTypeOK, Nothing, Lasts, Now
<1> DEFINE resp == job[w].resp
           Jobs(g) == [step : {"none", "collect", "store", "end"},
                       resp : 0..Now, since : 0..clock, gen : 0..g]
<1>1. /\ job[w].step = "store" /\ job' = [job EXCEPT ![w].step = "end"]
      /\ UNCHANGED <<clock, history, refreshing, ask, answer>>
      /\ resp \in 0..Now /\ job[w].since \in 0..clock /\ clock \in 0..clock
  BY DEF JobStore
<1>2. /\ \A x \in Window : x # w => job'[x] = job[x]
      /\ job'[w].step = "end"
      /\ job' \in [Window -> Jobs(generation)]
  <2>1. job \in [Window -> Jobs(generation)] /\ job[w] \in Jobs(generation) /\ Now \in 0..Now
    OBVIOUS
  <2>2. [job[w] EXCEPT !.step = "end"] \in Jobs(generation)
    BY <2>1, JobMovesOn
  <2>3. job' = [job EXCEPT ![w] = [job[w] EXCEPT !.step = "end"]]
    BY <1>1
  <2>4. job' \in [Window -> Jobs(generation)]
    <3> HIDE DEF Jobs
    <3> QED
      BY <2>1, <2>2, <2>3
  <2>5. job'[w].step = "end" /\ \A x \in Window : x # w => job'[x] = job[x]
    <3> HIDE DEF Jobs, CacheInv, CacheTypeOK
    <3> QED
      BY <1>1, <2>1
  <2> HIDE DEF Jobs, CacheInv, CacheTypeOK
  <2> QED
    BY <2>4, <2>5
<1>3. PastHistory' /\ AsksLast' /\ JobsLast'
  <2>1. PastHistory' /\ AsksLast'
    BY <1>1 DEF PastHistory, AsksLast
  <2>2. JobsLast'
    <3>1. JobsLast
      OBVIOUS
    <3> HIDE DEF CacheInv, CacheTypeOK
    <3> QED
      BY <1>1, <1>2, <3>1 DEF JobsLast
  <2> QED
    BY <2>1, <2>2
<1>4. CASE UNCHANGED <<entry, generation>>
  <2>1. CacheTypeOK'
    BY <1>1, <1>2, <1>4
  <2>2. EntriesLast' /\ JobsAreNewer'
    <3>1. EntriesLast /\ JobsAreNewer
      OBVIOUS
    <3> HIDE DEF CacheInv, CacheTypeOK
    <3> QED
      BY <1>1, <1>2, <1>4, <3>1 DEF EntriesLast, JobsAreNewer
  <2>3. \A x \in Window : entry'[x].resp >= entry[x].resp
    <3>1. \A x \in Window : entry[x].resp \in Nat
      OBVIOUS
    <3> HIDE DEF CacheInv, CacheTypeOK
    <3> QED
      BY <1>4, <3>1
  <2> QED
    BY <1>3, <2>1, <2>2, <2>3
<1>5. CASE SameGen(w) /\ eventsCacheSet(w, resp, clock)
  <2>1. Lasts(resp, clock, Timeout)
    <3>1. clock <= job[w].since + Timeout /\ Lasts(resp, job[w].since, 0)
      BY <1>1 DEF JobsLast
    <3>2. clock + 0 <= job[w].since + Timeout /\ history \in Seq(Nat)
      BY <3>1
    <3> HIDE DEF resp, Lasts, Now, CacheInv
    <3> QED
      BY <1>1, <3>1, <3>2, LongerSlack
  <2>2. /\ entry' \in [Window -> [resp : 0..Now, expires : Nat, gen : 0..generation']]
        /\ generation' = generation + 1 /\ entry'[w].resp = resp
        /\ EntriesLast'
        /\ \A x \in Window : x # w => entry'[x] = entry[x] \/ entry'[x] = NoEntry
    <3> HIDE DEF resp, Now, Lasts, Nothing, CacheInv
    <3> QED
      BY <1>1, <1>5, <2>1, SetKeeps
  <2>3. CacheTypeOK'
    <3>1. generation' \in Nat /\ job' \in [Window -> Jobs(generation')]
      <4>1. generation \in Nat
        OBVIOUS
      <4> HIDE DEF CacheInv, CacheTypeOK
      <4>2. 0..generation \subseteq 0..generation' /\ generation' \in Nat
        BY <2>2, <4>1
      <4> QED
        BY <1>2, <4>2
    <3> QED
      BY <1>1, <2>2, <3>1
  <2>4. JobsAreNewer'
    <3> SUFFICES ASSUME NEW x \in Window, job'[x].step = "store", entry'[x].gen = job'[x].gen
                 PROVE  entry'[x].resp <= job'[x].resp
      BY DEF JobsAreNewer
    <3>1. x # w /\ job'[x] = job[x]
      BY <1>2
    <3>2. CASE entry'[x] = entry[x]
      BY <3>1, <3>2 DEF JobsAreNewer
    <3>3. CASE entry'[x] = NoEntry
      <4>1. job[x].resp \in 0..Now
        OBVIOUS
      <4> QED
        BY <3>1, <3>3, <4>1 DEF NoEntry
    <3> QED
      BY <2>2, <3>1, <3>2, <3>3
  <2>5. entry'[w].resp >= entry[w].resp
    BY <1>1, <1>5, <2>2 DEF SameGen, JobsAreNewer
  <2> QED
    BY <1>3, <2>2, <2>3, <2>4, <2>5
<1> QED
  BY <1>4, <1>5 DEF JobStore

\* The end of a job, the end of the process.
LEMMA EndsKeep ==
  ASSUME CacheInv, CacheDies \/ \E w \in Window : JobEnd(w)
  PROVE  CacheInv'
<1> USE CacheAssumption DEF CacheInv, CacheTypeOK, Nothing, Lasts, Now
<1>1. /\ NoJob \in [step : {"none", "collect", "store", "end"},
                    resp : 0..Now, since : 0..clock, gen : 0..generation]
      /\ NoJob \in [step : {"none", "collect", "store", "end"},
                    resp : 0..Now, since : 0..clock, gen : 0..0]
      /\ NoAsk \in [step : {"none", "stale", "collect", "store"},
                    key : Window \cup {"none"}, resp : 0..Now, at : 0..clock]
      /\ NoEntry \in [resp : 0..Now, expires : Nat, gen : 0..0]
      /\ NoJob.step = "none" /\ NoAsk.step = "none"
      /\ NoEntry.resp = 0 /\ NoEntry.expires = 0
  BY DEF NoJob, NoAsk, NoEntry
<1>2. CASE CacheDies
  <2>1. CacheTypeOK'
    BY <1>1, <1>2 DEF CacheDies
  <2>2. PastHistory' /\ EntriesLast'
    BY <1>1, <1>2 DEF CacheDies, PastHistory, EntriesLast
  <2>3. AsksLast' /\ JobsLast' /\ JobsAreNewer'
    BY <1>1, <1>2 DEF CacheDies, AsksLast, JobsLast, JobsAreNewer
  <2> QED
    BY <2>1, <2>2, <2>3
<1>3. CASE \E w \in Window : JobEnd(w)
  <2>1. PICK w \in Window : JobEnd(w)
    BY <1>3
  <2>2. CacheTypeOK'
    BY <1>1, <2>1 DEF JobEnd, Clear
  <2>3. PastHistory' /\ EntriesLast' /\ AsksLast'
    BY <2>1 DEF JobEnd, PastHistory, EntriesLast, AsksLast
  <2>4. JobsLast' /\ JobsAreNewer'
    BY <1>1, <2>1 DEF JobEnd, JobsLast, JobsAreNewer
  <2> QED
    BY <2>2, <2>3, <2>4
<1> QED
  BY <1>2, <1>3

\* Time passes, but not beyond the end of a job's time.
LEMMA TimeKeeps ==
  ASSUME CacheInv, TimePasses
  PROVE  CacheInv'
<1> USE CacheAssumption DEF CacheInv, CacheTypeOK, Nothing, Lasts, Now
<1>1. /\ clock' = clock + 1 /\ clock \in Nat /\ 0..clock \subseteq 0..clock'
      /\ UNCHANGED <<history, entry, generation, refreshing, job, ask, answer>>
      /\ \A w \in Window : InTime(w)
  BY DEF TimePasses
<1>2. CacheTypeOK'
  <2>1. job \in [Window -> [step : {"none", "collect", "store", "end"},
                          resp : 0..Now, since : 0..clock', gen : 0..generation]]
    BY <1>1
  <2>2. ask \in [Client -> [step : {"none", "stale", "collect", "store"},
                          key : Window \cup {"none"}, resp : 0..Now, at : 0..clock']]
    BY <1>1
  <2>3. answer \in [shows : 0..Now, asked : 0..clock']
    BY <1>1
  <2> QED
    BY <1>1, <2>1, <2>2, <2>3
<1>3. PastHistory'
  <2> SUFFICES ASSUME NEW i \in 1..Len(history) PROVE history[i] <= clock + 1
    BY <1>1 DEF PastHistory
  <2>1. history[i] <= clock /\ history[i] \in Nat
    BY DEF PastHistory
  <2> QED
    BY <1>1, <2>1
<1>4. EntriesLast'
  <2> SUFFICES ASSUME NEW w \in Window PROVE entry[w].expires <= clock + 1 + TTL
    BY <1>1 DEF EntriesLast
  <2>1. entry[w].expires <= clock + TTL /\ entry[w].expires \in Nat
    BY DEF EntriesLast
  <2> QED
    BY <1>1, <2>1
<1>5. AsksLast' /\ JobsAreNewer'
  BY <1>1 DEF AsksLast, JobsAreNewer
<1>6. JobsLast'
  <2> SUFFICES ASSUME NEW w \in Window, job[w].step \in {"collect", "store"}
               PROVE  clock + 1 <= job[w].since + Timeout
    BY <1>1 DEF JobsLast
  <2>1. clock < job[w].since + Timeout /\ job[w].since \in 0..clock
    BY <1>1 DEF InTime
  <2> QED
    BY <1>1, <2>1
<1> QED
  BY <1>2, <1>3, <1>4, <1>5, <1>6

\* The calendars change: what showed their last state has ended now.
LEMMA CalendarsKeep ==
  ASSUME CacheInv, CalendarsChange
  PROVE  CacheInv'
<1> USE CacheAssumption DEF CacheInv, CacheTypeOK, Nothing
<1>1. /\ history' = Append(history, clock) /\ clock \in Nat /\ history \in Seq(Nat)
      /\ UNCHANGED <<clock, entry, generation, refreshing, job, ask, answer>>
  BY DEF CalendarsChange
<1>2. /\ history' \in Seq(Nat) /\ Now' = Now + 1 /\ 0..Now \subseteq 0..Now' /\ Now \in Nat
      /\ \A i \in 1..Now : history'[i] = history[i]
      /\ history'[Now + 1] = clock
  BY <1>1 DEF Now
<1>3. CacheTypeOK'
  <2>1. job \in [Window -> [step : {"none", "collect", "store", "end"},
                          resp : 0..Now', since : 0..clock, gen : 0..generation]]
    BY <1>2
  <2>2. ask \in [Client -> [step : {"none", "stale", "collect", "store"},
                          key : Window \cup {"none"}, resp : 0..Now', at : 0..clock]]
    BY <1>2
  <2>3. answer \in [shows : 0..Now', asked : 0..clock]
    BY <1>2
  <2>4. entry \in [Window -> [resp : 0..Now', expires : Nat, gen : 0..generation]]
    BY <1>2
  <2> QED
    BY <1>1, <1>2, <2>1, <2>2, <2>3, <2>4
<1>4. PastHistory'
  <2> SUFFICES ASSUME NEW i \in 1..Now' PROVE history'[i] <= clock
    BY <1>1 DEF PastHistory
  <2>1. CASE i \in 1..Now
    BY <1>2, <2>1 DEF PastHistory
  <2>2. CASE i = Now + 1
    <3>1. history'[i] = clock /\ clock \in Nat
      BY <1>1, <1>2, <2>2
    <3> QED
      BY <3>1
  <2> QED
    BY <1>2, <2>1, <2>2
<1>5. ASSUME NEW v \in 0..Now, NEW t \in Nat, NEW d \in Nat, t <= clock + d, Lasts(v, t, d)
      PROVE  Lasts(v, t, d)'
  BY <1>1, <1>5, ChangeKeeps
<1>6. EntriesLast'
  <2> SUFFICES ASSUME NEW w \in Window
               PROVE  Lasts(entry[w].resp, entry[w].expires, TTL + Timeout)'
    BY <1>1 DEF EntriesLast
  <2>1. /\ entry[w].expires <= clock + TTL /\ entry[w].expires \in Nat
        /\ entry[w].resp \in 0..Now /\ TTL + Timeout \in Nat
        /\ Lasts(entry[w].resp, entry[w].expires, TTL + Timeout)
    BY DEF EntriesLast
  <2>2. entry[w].expires <= clock + (TTL + Timeout)
    BY <1>1, <2>1
  <2> QED
    BY <1>1, <1>5, <2>1, <2>2
<1>7. AsksLast'
  <2> SUFFICES ASSUME NEW c \in Client
               PROVE  /\ ask[c].step = "stale" =>
                           Lasts(ask[c].resp, ask[c].at, TTL + StaleMax + Timeout)'
                      /\ ask[c].step = "store" => Lasts(ask[c].resp, ask[c].at, 0)'
    BY <1>1 DEF AsksLast
  <2>1. ask[c].at \in 0..clock /\ ask[c].resp \in 0..Now /\ TTL + StaleMax + Timeout \in Nat
    OBVIOUS
  <2>2. ask[c].at \in Nat /\ ask[c].at <= clock + (TTL + StaleMax + Timeout) /\ ask[c].at <= clock + 0
    BY <1>1, <2>1
  <2> QED
    BY <1>1, <1>5, <2>1, <2>2 DEF AsksLast
<1>8. JobsLast'
  <2> SUFFICES ASSUME NEW w \in Window, job[w].step = "store"
               PROVE  Lasts(job[w].resp, job[w].since, 0)'
    BY <1>1 DEF JobsLast
  <2>1. job[w].since \in 0..clock /\ job[w].resp \in 0..Now
    OBVIOUS
  <2>2. job[w].since \in Nat /\ job[w].since <= clock + 0
    BY <1>1, <2>1
  <2> QED
    BY <1>1, <1>5, <2>1, <2>2 DEF JobsLast
<1>9. JobsAreNewer'
  BY <1>1 DEF JobsAreNewer
<1> QED
  BY <1>3, <1>4, <1>6, <1>7, <1>8, <1>9

-----------------------------------------------------------------------------
\* Every step keeps the invariant.
LEMMA NextCache == CacheInv /\ [CacheNext]_cache => CacheInv'
<1> SUFFICES ASSUME CacheInv, [CacheNext]_cache PROVE CacheInv'
  OBVIOUS
<1>1. CASE UNCHANGED cache
  BY <1>1 DEF cache, CacheInv, CacheTypeOK, PastHistory, EntriesLast, AsksLast, JobsLast,
              JobsAreNewer, Lasts, Now
<1>2. CASE TimePasses
  BY <1>2, TimeKeeps
<1>3. CASE CalendarsChange
  BY <1>3, CalendarsKeep
<1>4. CASE CacheDies \/ \E w \in Window : JobEnd(w)
  BY <1>4, EndsKeep
<1>5. ASSUME NEW c \in Client, ServeStale(c) PROVE CacheInv'
  BY <1>5, ServeStaleKeeps
<1>6. ASSUME NEW c \in Client, Collect(c) PROVE CacheInv'
  BY <1>6, CollectKeeps
<1>7. ASSUME NEW c \in Client, Store(c) PROVE CacheInv'
  BY <1>7, StoreKeeps
<1>8. ASSUME NEW c \in Client, NEW w \in Window, AskFresh(c, w) \/ AskStale(c, w) \/ AskLive(c, w)
      PROVE  CacheInv'
  BY <1>8, AskKeeps
<1>9. ASSUME NEW w \in Window, JobCollect(w) PROVE CacheInv'
  BY <1>9, JobCollectKeeps
<1>10. ASSUME NEW w \in Window, JobStore(w) PROVE CacheInv'
  BY <1>10, JobStoreKeeps
<1> QED
  BY <1>1, <1>2, <1>3, <1>4, <1>5, <1>6, <1>7, <1>8, <1>9, <1>10 DEF CacheNext

\* The invariant holds in every state of the cache.
LEMMA CacheCorrect == CacheSpec => []CacheInv
BY InitCache, NextCache, PTL DEF CacheSpec

\* A background refresh never replaces what the cache has by something older,
\* or by nothing, whatever ran between its start and its end.
THEOREM RefreshIsNewer == CacheSpec => RefreshNeverAgesEntry
<1>1. ASSUME CacheInv, [CacheNext]_cache
      PROVE  [\A w \in Window : job[w].step = "store" /\ job'[w].step = "end"
                => entry'[w].resp >= entry[w].resp]_cache
  <2> SUFFICES ASSUME CacheNext, NEW w \in Window, job[w].step = "store", job'[w].step = "end"
               PROVE  entry'[w].resp >= entry[w].resp
    BY <1>1
  <2> USE DEF CacheInv, CacheTypeOK
  <2>1. entry[w].resp \in Nat
    BY <1>1 DEF Now
  <2>2. CASE JobStore(w)
    BY <1>1, <2>2, JobStoreKeeps
  <2>3. CASE ~JobStore(w)
    <3>1. job'[w] = job[w] \/ job'[w] = NoJob \/ job'[w].step = "collect" \/ job[w].step # "store"
      <4>1. CASE \E c \in Client : ServeStale(c)
        BY <1>1, <4>1 DEF ServeStale, AsksLast
      <4>2. CASE \E x \in Window : JobCollect(x) \/ JobStore(x) \/ JobEnd(x)
        BY <1>1, <2>3, <4>2 DEF JobCollect, JobStore, JobEnd
      <4>3. CASE UNCHANGED job \/ CacheDies
        BY <4>3 DEF CacheDies
      <4> QED
        BY <4>1, <4>2, <4>3 DEF CacheNext, TimePasses, CalendarsChange, Collect, Store,
                                AskFresh, AskStale, AskLive
    <3>2. NoJob.step = "none"
      BY DEF NoJob
    <3> QED
      BY <3>1, <3>2
  <2> QED
    BY <2>2, <2>3
<1> QED
  BY <1>1, CacheCorrect, PTL DEF CacheSpec, RefreshNeverAgesEntry

-----------------------------------------------------------------------------
\* Whoever answers, answers with something recent, or changes nothing.
LEMMA AnswerIsRecent ==
  ASSUME CacheInv, NEW v \in 0..Now, NEW t \in 0..clock, Answers(v, t),
         Lasts(v, t, TTL + StaleMax + Timeout), UNCHANGED <<clock, history>>
  PROVE  View!Answer \/ UNCHANGED <<clock, history, answer>>
<1> USE CacheAssumption DEF CacheInv, CacheTypeOK
<1>1. CASE v = Nothing
  BY <1>1 DEF Answers
<1>2. CASE v # Nothing
  <2>1. v \in 1..Len(history) /\ answer' = [shows |-> v, asked |-> t]
    BY <1>2 DEF Answers, Now, Nothing
  <2>2. View!Held(v, t)
    BY <1>2 DEF View!Held, Lasts, Now
  <2> QED
    BY <2>1, <2>2 DEF View!Answer
<1> QED
  BY <1>1, <1>2

\* The cache implements the abstract view: every answer shows a state of the
\* calendars that held at most TTL + StaleMax + Timeout before the question.
THEOREM CacheImplementsView == CacheSpec => AnswersAreRecent
<1> USE CacheAssumption
<1>1. CacheInit => View!Init
  BY DEF CacheInit, View!Init
<1>2. ASSUME CacheInv, [CacheNext]_cache
      PROVE  [View!Next]_<<clock, history, answer>>
  <2> USE <1>2 DEF CacheInv, CacheTypeOK
  <2>1. CASE TimePasses
    BY <2>1 DEF TimePasses, View!Next, View!TimePasses
  <2>2. CASE CalendarsChange
    BY <2>2 DEF CalendarsChange, View!Next, View!CalendarsChange
  <2>3. CASE UNCHANGED <<clock, history, answer>>
    BY <2>3
  <2>4. ASSUME NEW c \in Client, ServeStale(c) PROVE View!Answer \/ UNCHANGED <<clock, history, answer>>
    <3>1. /\ ask[c].resp \in 0..Now /\ ask[c].at \in 0..clock
          /\ Lasts(ask[c].resp, ask[c].at, TTL + StaleMax + Timeout)
      BY <2>4 DEF ServeStale, AsksLast
    <3> QED
      BY <2>4, <3>1, AnswerIsRecent DEF ServeStale
  <2>5. ASSUME NEW c \in Client, Store(c) PROVE View!Answer \/ UNCHANGED <<clock, history, answer>>
    <3>1. /\ ask[c].resp \in 0..Now /\ ask[c].at \in 0..clock /\ history \in Seq(Nat)
          /\ Lasts(ask[c].resp, ask[c].at, 0)
      BY <2>5 DEF Store, AsksLast
    <3>2. /\ TTL + StaleMax + Timeout \in Nat /\ ask[c].at \in Nat
          /\ ask[c].at + 0 <= ask[c].at + (TTL + StaleMax + Timeout)
      BY <3>1
    <3>3. Lasts(ask[c].resp, ask[c].at, TTL + StaleMax + Timeout)
      BY <3>1, <3>2, LongerSlack
    <3> QED
      BY <2>5, <3>1, <3>3, AnswerIsRecent DEF Store
  <2>6. ASSUME NEW c \in Client, NEW w \in Window, AskFresh(c, w)
        PROVE  View!Answer \/ UNCHANGED <<clock, history, answer>>
    <3>1. /\ entry[w].resp \in 0..Now /\ clock \in 0..clock /\ clock \in Nat
          /\ entry[w].expires \in Nat /\ history \in Seq(Nat)
          /\ clock <= entry[w].expires
          /\ Lasts(entry[w].resp, entry[w].expires, TTL + Timeout)
      BY <2>6 DEF AskFresh, Fresh, EntriesLast
    <3>2. /\ TTL + StaleMax + Timeout \in Nat /\ TTL + Timeout \in Nat
          /\ clock + (TTL + Timeout) <= entry[w].expires + (TTL + StaleMax + Timeout)
      <4> HIDE DEF CacheInv, CacheTypeOK
      <4> QED
        BY <3>1
    <3>3. Lasts(entry[w].resp, clock, TTL + StaleMax + Timeout)
      <4> HIDE DEF CacheInv, CacheTypeOK
      <4> QED
        BY <3>1, <3>2, LongerSlack
    <3> QED
      BY <2>6, <3>1, <3>3, AnswerIsRecent DEF AskFresh
  <2> QED
    BY <2>1, <2>2, <2>3, <2>4, <2>5, <2>6
       DEF CacheNext, cache, CacheDies, Collect, AskStale, AskLive, JobCollect, JobStore, JobEnd,
           View!Next
<1> QED
  BY <1>1, <1>2, CacheCorrect, PTL DEF CacheSpec, AnswersAreRecent, View!Spec
=============================================================================
