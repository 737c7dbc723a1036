------------------------------- MODULE AppServer -------------------------------
(***************************************************************************)
(* The app server (appserver/server.go) with all that keeps state in it:   *)
(* the events cache, the maintenance window and the daemon's actions, the  *)
(* authorisation flow and the editor of the configuration.  They meet in   *)
(* three places: the mode of operation that lets a request in, the         *)
(* configuration that must be readable, and the end of the server, which   *)
(* takes all of them with it wherever they are.                            *)
(***************************************************************************)
EXTENDS FiniteSets, EventsCache, Maintenance, AuthFlow, ConfigSave

CONSTANTS
  MaxTime,       \* bound: the clock
  MaxLoad,       \* bound: requests to the server, and parts of it they are for
  MaxEdits,      \* bound: changes to calendars, files and containers by others
  MaxFaults      \* bound: failures of commands and disks, deaths of the server and the daemon

ASSUME BoundAssumption == MaxLoad \in Nat /\ MaxEdits \in Nat /\ MaxFaults \in Nat

VARIABLES used, requests, edits, faults

bounds == <<used, requests, edits, faults>>
vars   == <<cache, maint, auth, config, bounds>>

AppInit ==
  /\ CacheInit /\ MaintInit /\ AuthInit /\ ConfigInit
  /\ used = {} /\ requests = 0 /\ edits = 0 /\ faults = 0

TypeOK ==
  /\ CacheTypeOK /\ MaintTypeOK /\ AuthTypeOK /\ ConfigTypeOK
  /\ requests \in 0..MaxLoad /\ edits \in 0..MaxEdits /\ faults \in 0..MaxFaults

Request(parts) ==
  /\ requests' = requests + 1 /\ used' = used \cup parts
  /\ requests' + Cardinality(used') <= MaxLoad
  /\ UNCHANGED <<edits, faults>>
Edit    == edits < MaxEdits /\ edits' = edits + 1 /\ UNCHANGED <<used, requests, faults>>
Fault   == faults < MaxFaults /\ faults' = faults + 1 /\ UNCHANGED <<used, requests, edits>>
Free    == UNCHANGED bounds

\* Clients differ in nothing but their requests: any idle one will do.
SomeOf(clients) == IF clients = {} THEN {} ELSE {CHOOSE c \in clients : TRUE}

OnlyCache  == UNCHANGED <<maint, auth, config>>
OnlyMaint  == UNCHANGED <<cache, auth, config>>
OnlyAuth   == UNCHANGED <<cache, maint, config>>
OnlyConfig == UNCHANGED <<cache, maint, auth>>

-----------------------------------------------------------------------------
\* Requests are taken while the server is up.  Events and windows need launchd,
\* authorisations and saves no container.
Events ==
  /\ server = "up" /\ Mode = "launchd" /\ OnlyCache /\ Request({"events"})
  /\ LET idle == {c \in Client : ask[c] = NoAsk} IN
       \E c \in SomeOf(idle), w \in Window : AskFresh(c, w) \/ AskStale(c, w) \/ AskLive(c, w)

\* A collection that cannot read the configuration fails.
EventsGoOn ==
  /\ Serving /\ OnlyCache /\ Free
  /\ \/ \E c \in Client : \/ ServeStale(c) \/ Store(c)
                          \/ Collect(c) /\ (Whole \/ ask'[c] = NoAsk)
     \/ \E w \in Window : \/ JobStore(w) \/ JobEnd(w)
                          \/ JobCollect(w) /\ (Whole \/ job'[w].step = "end")

Control ==
  /\ OnlyMaint /\ Request({"daemon"})
  /\ AskWindow \/ \E what \in {"start", "stop", "restart"} : AskAction(what)

\* A command that could have succeeded and did not is a fault.
Steps ==
  /\ OnlyMaint /\ Free
  /\ \/ OpenWindow \/ ReconcileFails \/ ReconcileEnds \/ FinishWindow
     \/ StartReconcile /\ Whole
     \/ DetectForAction \/ Act
     \/ Bootout(loaded) \/ Bootstrap(~loaded) \/ EnsureBootstrap(TRUE)
     \/ EndServe \/ StragglerActs

Daemon ==
  /\ OnlyMaint /\ Free
  /\ \/ DaemonStarts /\ Whole
     \/ DaemonEnds /\ ~loaded

\* Bound: others interfere with a part only once it is used.
Breaks ==
  /\ OnlyMaint /\ Fault /\ "daemon" \in used
  /\ \/ Bootout(FALSE) /\ loaded
     \/ Bootstrap(FALSE) /\ ~loaded
     \/ EnsureBootstrap(FALSE) /\ ~loaded
     \/ DaemonEnds /\ loaded
     \/ ActFails

Authorise ==
  /\ server = "up" /\ OnlyAuth /\ Request({"auth"})
  /\ \/ StartAuth /\ Mode # "container" /\ Whole
     \/ AskCancel
AuthGoesOn == Serving /\ OnlyAuth /\ Free /\ (Exchange \/ FlowEnds \/ Cancel)
AuthTimes  == Serving /\ OnlyAuth /\ Free /\ TimesOut
Browser    == Serving /\ OnlyAuth /\ Free /\ Redirect

Configure ==
  /\ server = "up" /\ OnlyConfig /\ Request({"config"})
  /\ \E c \in Editor : \/ BeginGet(c)
                       \/ BeginPut(c) /\ Mode # "container"
ConfigGoesOn ==
  /\ Serving /\ OnlyConfig /\ Free
  /\ \E c \in Editor : ReadFile(c) \/ EndGet(c) \/ OpenTmp(c) \/ WriteTmp(c)
                       \/ RenameTmp(c) \/ EndPut(c)

DiskFull == Serving /\ OnlyConfig /\ Fault /\ \E c \in Editor : WriteFails(c)

\* Bound: time and changes before there is anything to be old are left out.
Watched == (\E w \in Window : entry[w] # NoEntry) \/ \E c \in Client : ask[c] # NoAsk

World ==
  \/ OnlyCache /\ Free /\ clock < MaxTime /\ Watched /\ TimePasses
  \/ OnlyCache /\ Edit /\ Watched /\ CalendarsChange
  \/ OnlyMaint /\ Edit /\ ~loaded /\ UserStartsContainer
  \/ OnlyConfig /\ Edit /\ "config" \in used /\ UserEditsFile

\* The user quits the application, starts it again, or it is killed.
Leaves    == OnlyMaint /\ Request({}) /\ Quit
Starts    == OnlyMaint /\ Free /\ Serve
EndsAll   == CacheDies /\ AuthDies /\ ConfigDies
AppExits  == Exit /\ EndsAll /\ Free
AppKilled == Kill /\ EndsAll /\ Fault /\ "daemon" \in used

GoesOn == EventsGoOn \/ Steps \/ AuthGoesOn \/ ConfigGoesOn \/ AppExits

Next ==
  \/ Events \/ Control \/ Authorise \/ Configure \/ GoesOn \/ AuthTimes \/ Browser
  \/ Daemon \/ Breaks \/ DiskFull \/ World \/ Leaves \/ Starts \/ AppKilled

Spec == AppInit /\ [][Next]_vars

\* Goroutines, requests and commands come to their end, the context of a flow
\* as well; launchd starts the daemon; a daemon that was unloaded ends.  Nothing
\* is assumed of the user, who may never come back from the browser.
FairSpec ==
  /\ Spec
  /\ WF_vars(EventsGoOn) /\ WF_vars(Steps) /\ WF_vars(AuthTimes)
  /\ WF_vars(AuthGoesOn) /\ WF_vars(AppExits) /\ WF_vars(Daemon)

-----------------------------------------------------------------------------
\* The daemon runs again and again, whatever is done to it and whenever the
\* server ends, but for the reasons UnloadedHasReason lists and a configuration
\* that two saves tore.
DaemonComesBack == []<>(lock = "daemon" \/ reason # "none" \/ ~Whole)
=============================================================================
