---------------------------- MODULE AppServerProofs ----------------------------
(***************************************************************************)
(* Proofs about the app server as a whole.  Every step of it is, for each  *)
(* of its four parts, a step of this part or none, so that what is proved  *)
(* of a part in its own module holds of the server, in which the parts     *)
(* share requests, the configuration and the end of the process.           *)
(***************************************************************************)
EXTENDS AppServer, EventsCacheProofs, MaintenanceProofs, ConfigSaveProofs, FiniteSetTheorems

(***************************************************************************)
(* The authorisation flow.                                                 *)
(***************************************************************************)
AuthInv == AuthTypeOK /\ PhaseTellsFile

\* No flow has begun.
LEMMA InitAuth == AuthInit => AuthInv
BY DEF AuthInit, AuthInv, AuthTypeOK, PhaseTellsFile, NoFlow

\* Only the end of a flow changes the token file, and it tells whether it did.
LEMMA NextAuth == AuthInv /\ [AuthNext]_auth => AuthInv'
<1> SUFFICES ASSUME AuthInv, [AuthNext]_auth PROVE AuthInv'
  OBVIOUS
<1> USE DEF AuthInv, AuthTypeOK, PhaseTellsFile, NoFlow, Running
<1>1. CASE UNCHANGED auth
  BY <1>1 DEF auth
<1>2. CASE StartAuth
  <2>1. saved # flow + 1 /\ flow + 1 \in Nat /\ 0..flow \subseteq 0..(flow + 1)
        /\ 1..flow \subseteq 1..(flow + 1)
    OBVIOUS
  <2> QED
    BY <1>2, <2>1 DEF StartAuth
<1>3. CASE Redirect \/ Exchange
  BY <1>3 DEF Redirect, Exchange
<1>4. CASE FlowEnds
  <2>1. flow \in 1..flow
    BY <1>4 DEF FlowEnds
  <2> QED
    BY <1>4, <2>1 DEF FlowEnds, Saves, IsOver
<1>5. CASE TimesOut
  <2>1. flow \in 1..flow
    BY <1>5 DEF TimesOut
  <2> QED
    BY <1>5, <2>1 DEF TimesOut
<1>7. CASE AskCancel
  BY <1>7 DEF AskCancel
<1>8. CASE Cancel
  BY <1>8 DEF Cancel
<1>6. CASE AuthDies
  BY <1>6 DEF AuthDies
<1> QED
  BY <1>1, <1>2, <1>3, <1>4, <1>5, <1>6, <1>7, <1>8 DEF AuthNext

-----------------------------------------------------------------------------
(***************************************************************************)
(* Every step of the server is a step of a part or leaves it as it is.     *)
(***************************************************************************)
\* One of some clients is a client.
LEMMA OneOfThem ==
  ASSUME NEW clients, NEW c \in SomeOf(clients)
  PROVE  c \in clients
BY DEF SomeOf

\* The steps that all parts take together are the two ways the server ends.
LEMMA StepsOfCache == [Next]_vars => [CacheNext]_cache
<1> SUFFICES ASSUME [Next]_vars PROVE [CacheNext]_cache
  OBVIOUS
<1>1. CASE UNCHANGED vars
  BY <1>1 DEF vars, cache
<1>2. CASE Events
  <2>1. PICK c \in Client, w \in Window : AskFresh(c, w) \/ AskStale(c, w) \/ AskLive(c, w)
    BY <1>2, OneOfThem DEF Events
  <2> QED
    BY <2>1 DEF CacheNext
<1>3. CASE EventsGoOn
  BY <1>3 DEF EventsGoOn, CacheNext
<1>4. CASE World
  BY <1>4 DEF World, OnlyMaint, OnlyConfig, CacheNext, cache
<1>5. CASE AppExits \/ AppKilled
  BY <1>5 DEF AppExits, AppKilled, EndsAll, CacheNext
<1>6. CASE UNCHANGED cache
  BY <1>6
<1> QED
  BY <1>1, <1>2, <1>3, <1>4, <1>5, <1>6
     DEF Next, GoesOn, Control, Steps, Daemon, Breaks, Authorise, AuthGoesOn, AuthTimes, Browser,
         Configure, ConfigGoesOn, DiskFull, Leaves, Starts, OnlyMaint, OnlyAuth, OnlyConfig, cache

\* What the commands do depends on the agent being loaded or not.
LEMMA StepsOfMaint == MaintInv /\ [Next]_vars => [MaintNext]_maint
<1> SUFFICES ASSUME MaintInv, [Next]_vars PROVE [MaintNext]_maint
  OBVIOUS
<1> USE DEF MaintNext
<1>1. CASE UNCHANGED vars
  BY <1>1 DEF vars, maint
<1>2. CASE Control
  BY <1>2 DEF Control
<1>3. CASE Steps
  <2>1. loaded \in BOOLEAN
    BY DEF MaintInv, MaintTypeOK
  <2> QED
    BY <1>3, <2>1 DEF Steps, WindowNext
<1>4. CASE Daemon \/ Breaks
  BY <1>4 DEF Daemon, Breaks, WindowNext
<1>5. CASE World
  BY <1>5 DEF World, OnlyCache, OnlyConfig, maint
<1>6. CASE Leaves \/ Starts \/ AppExits \/ AppKilled
  BY <1>6 DEF Leaves, Starts, AppExits, AppKilled
<1>7. CASE UNCHANGED maint
  BY <1>7
<1> QED
  BY <1>1, <1>2, <1>3, <1>4, <1>5, <1>6, <1>7
     DEF Next, GoesOn, Events, EventsGoOn, Authorise, AuthGoesOn, AuthTimes, Browser,
         Configure, ConfigGoesOn, DiskFull, OnlyCache, OnlyAuth, OnlyConfig, maint

LEMMA StepsOfAuth == [Next]_vars => [AuthNext]_auth
<1> SUFFICES ASSUME [Next]_vars PROVE [AuthNext]_auth
  OBVIOUS
<1>1. CASE UNCHANGED vars
  BY <1>1 DEF vars, auth
<1>2. CASE Authorise \/ AuthGoesOn \/ AuthTimes \/ Browser
  BY <1>2 DEF Authorise, AuthGoesOn, AuthTimes, Browser, AuthNext
<1>3. CASE World
  BY <1>3 DEF World, OnlyCache, OnlyMaint, OnlyConfig, auth
<1>4. CASE AppExits \/ AppKilled
  BY <1>4 DEF AppExits, AppKilled, EndsAll, AuthNext
<1>5. CASE UNCHANGED auth
  BY <1>5
<1> QED
  BY <1>1, <1>2, <1>3, <1>4, <1>5
     DEF Next, GoesOn, Events, EventsGoOn, Control, Steps, Daemon, Breaks, Configure,
         ConfigGoesOn, DiskFull, Leaves, Starts, OnlyCache, OnlyMaint, OnlyConfig, auth

LEMMA StepsOfConfig == [Next]_vars => [ConfigNext]_config
<1> SUFFICES ASSUME [Next]_vars PROVE [ConfigNext]_config
  OBVIOUS
<1>1. CASE UNCHANGED vars
  BY <1>1 DEF vars, config
<1>2. CASE Configure \/ ConfigGoesOn \/ DiskFull
  BY <1>2 DEF Configure, ConfigGoesOn, DiskFull, ConfigNext
<1>3. CASE World
  BY <1>3 DEF World, OnlyCache, OnlyMaint, ConfigNext, config
<1>4. CASE AppExits \/ AppKilled
  BY <1>4 DEF AppExits, AppKilled, EndsAll, ConfigNext
<1>5. CASE UNCHANGED config
  BY <1>5
<1> QED
  BY <1>1, <1>2, <1>3, <1>4, <1>5
     DEF Next, GoesOn, Events, EventsGoOn, Control, Steps, Daemon, Breaks, Authorise, AuthGoesOn,
         AuthTimes, Browser, Leaves, Starts, OnlyCache, OnlyMaint, OnlyAuth, config

-----------------------------------------------------------------------------
(***************************************************************************)
(* What holds of the parts holds of the server.                            *)
(***************************************************************************)
LEMMA ServerHasParts == Spec => CacheSpec /\ MaintSpec /\ ConfigSpec /\ AuthSpec
<1>1. AppInit => CacheInit /\ MaintInit /\ ConfigInit /\ AuthInit
  BY DEF AppInit
<1>2. MaintInv /\ [Next]_vars => MaintInv'
  BY StepsOfMaint, NextMaint
<1> QED
  BY <1>1, <1>2, InitMaint, StepsOfCache, StepsOfMaint, StepsOfAuth, StepsOfConfig, PTL
     DEF Spec, CacheSpec, MaintSpec, ConfigSpec, AuthSpec

\* Every answer of the server is as recent as RecentAnswers promises, although
\* requests, background refreshes and the daemon's windows interfere, and the
\* server ends and starts.
THEOREM ServerAnswersAreRecent == Spec => AnswersAreRecent
BY ServerHasParts, CacheImplementsView, PTL

\* A background refresh of the server never ages an entry.
THEOREM ServerRefreshIsNewer == Spec => RefreshNeverAgesEntry
BY ServerHasParts, RefreshIsNewer, PTL

\* The daemon is accounted for, whatever else the server does.
THEOREM ServerKeepsDaemon == Spec => []UnloadedHasReason
BY ServerHasParts, DaemonIsAccountedFor, PTL

\* An authorisation that is reported as failed has left the token file alone,
\* and one that is reported as done has written it.
THEOREM PhaseIsTrue == Spec => []PhaseTellsFile
<1>1. AuthInv => PhaseTellsFile
  BY DEF AuthInv
<1> QED
  BY <1>1, ServerHasParts, InitAuth, NextAuth, PTL DEF AuthSpec

\* No disorder of requests, no failure and no death of the server leaves a
\* torn configuration, but for two saves with one tmp file.
THEOREM ServerKeepsConfig == Spec => []WholeUnlessClash
BY ServerHasParts, ConfigIsWhole, PTL

\* A save of the server overwrites nothing that is older than its request.
THEOREM ServerSavesAreNotBlind == Spec => NoBlindOverwrite
BY ServerHasParts, SavesAreNotBlind, PTL

-----------------------------------------------------------------------------
Counted ==
  /\ IsFiniteSet(used) /\ requests \in 0..MaxLoad /\ edits \in 0..MaxEdits
  /\ faults \in 0..MaxFaults

\* A request that is within the bounds stays within them.
LEMMA RequestCounts ==
  ASSUME Counted, NEW parts, IsFiniteSet(parts), Request(parts)
  PROVE  Counted'
<1>1. IsFiniteSet(used') /\ Cardinality(used') \in Nat
  BY FS_Union, FS_CardinalityType DEF Counted, Request
<1>2. requests' \in Nat
  BY DEF Counted, Request
<1>3. requests' \in 0..MaxLoad
  BY <1>1, <1>2, BoundAssumption DEF Request
<1> QED
  BY <1>1, <1>3 DEF Counted, Request

\* The bounds are kept.
LEMMA NextCounts == Counted /\ [Next]_vars => Counted'
<1> SUFFICES ASSUME Counted, [Next]_vars PROVE Counted'
  OBVIOUS
<1>1. CASE UNCHANGED bounds
  BY <1>1 DEF bounds, Counted
<1>2. CASE Edit \/ Fault
  BY <1>2, BoundAssumption DEF Edit, Fault, Counted
<1>3. ASSUME NEW parts \in {{"events"}, {"daemon"}, {"auth"}, {"config"}, {}}, Request(parts)
      PROVE  Counted'
  BY <1>3, FS_EmptySet, FS_Singleton, RequestCounts
<1> QED
  BY <1>1, <1>2, <1>3
     DEF Next, GoesOn, Events, EventsGoOn, Control, Steps, Daemon, Breaks, Authorise, AuthGoesOn,
         AuthTimes, Browser, Configure, ConfigGoesOn, DiskFull, World, Leaves, Starts, AppExits,
         AppKilled, Free, vars, bounds

\* Every variable of the server has its type.
THEOREM ServerTypes == Spec => []TypeOK
<1>1. AppInit => Counted
  BY BoundAssumption, FS_EmptySet DEF AppInit, Counted
<1>2. CacheInv /\ MaintInv /\ AuthInv /\ ConfigInv /\ Counted => TypeOK
  BY DEF CacheInv, MaintInv, AuthInv, ConfigInv, Counted, TypeOK
<1>3. Spec => []Counted
  BY <1>1, NextCounts, PTL DEF Spec
<1>4. Spec => [](CacheInv /\ MaintInv /\ AuthInv /\ ConfigInv)
  BY ServerHasParts, CacheCorrect, InitMaint, NextMaint, InitAuth, NextAuth, InitConfig, NextConfig,
     PTL DEF MaintSpec, AuthSpec, ConfigSpec
<1> QED
  BY <1>2, <1>3, <1>4, PTL
=============================================================================
