------------------------------ MODULE Maintenance ------------------------------
(***************************************************************************)
(* The daemon under launchd, and how the app server handles it: the        *)
(* maintenance window (appserver/maintenance.go) that unloads the daemon,  *)
(* runs `calsync reconcile` and loads it again, the actions start, stop    *)
(* and restart (daemon.go), and the end of the app server while a window   *)
(* is open (server.go).  launchctl is a process of its own: it takes       *)
(* effect some time after it was started, or not at all, and outlives the  *)
(* server.  A second process that opens the store fails (store.Open).      *)
(***************************************************************************)
EXTENDS Naturals

VARIABLES
  server,      \* "up"; "closing", "ensure", "exit": ends in order; "down"
  loaded,      \* launchd has the agent
  lock,        \* who holds the flock: "none", "daemon", "reconcile"
  container,   \* a container named calsync runs
  phase,       \* maintSt.phase
  asked,       \* a maintenance request that has seen mode launchd
  window,      \* what the goroutine of the window is about to do or waits for
  failed,      \* its errs is not empty
  action,      \* the request of a daemon action
  straggler,   \* the launchctl commands that dead servers left behind
  reason       \* what the window cannot answer for, since the agent was loaded

maint == <<server, loaded, lock, container, phase, asked, window, failed, action,
           straggler, reason>>

Ends    == {"closing", "ensure", "exit"}
NoStep  == [what |-> "none", step |-> "none"]
Stages  == {"bootout", "reconcile", "reconciling", "bootstrap", "finish"}

MaintTypeOK ==
  /\ server \in {"up", "down"} \cup Ends
  /\ loaded \in BOOLEAN /\ container \in BOOLEAN /\ asked \in BOOLEAN /\ failed \in BOOLEAN
  /\ lock \in {"none", "daemon", "reconcile"}
  /\ phase \in {"idle", "running", "done", "error"}
  /\ window \in Stages \cup {"none"}
  /\ action = NoStep \/
     action \in [what : {"start", "stop", "restart"}, step : {"checked", "detected"}]
  /\ straggler \subseteq {"bootout", "bootstrap"}
  /\ reason \in {"none", "stopped", "failed", "killed", "late"}

MaintInit ==
  /\ server = "up" /\ loaded = TRUE /\ lock = "daemon" /\ container = FALSE
  /\ phase = "idle" /\ asked = FALSE /\ window = "none" /\ failed = FALSE
  /\ action = NoStep /\ straggler = {} /\ reason = "none"

-----------------------------------------------------------------------------
(***************************************************************************)
(* launchd and launchctl.                                                  *)
(***************************************************************************)
\* detectDaemon: the plist is there; a container counts when print fails.
Mode == IF ~loaded /\ container THEN "container" ELSE "launchd"

\* Loading a loaded agent, or unloading or restarting one that is not, fails.
Load(why)   == loaded' = TRUE /\ reason' = IF loaded THEN reason ELSE why
Unload(why) == loaded' = FALSE /\ reason' = IF loaded /\ why # "none" THEN why ELSE reason

\* RunAtLoad and KeepAlive; it fails, and is tried again, while the store is
\* locked or the configuration cannot be read.
DaemonStarts ==
  /\ loaded /\ lock = "none" /\ lock' = "daemon"
  /\ UNCHANGED <<server, loaded, container, phase, asked, window, failed, action,
                 straggler, reason>>

\* The agent was unloaded, which the end of the process may outlast; or it
\* dies by itself.
DaemonEnds ==
  /\ lock = "daemon" /\ lock' = "none"
  /\ UNCHANGED <<server, loaded, container, phase, asked, window, failed, action,
                 straggler, reason>>

UserStartsContainer ==
  /\ container' = ~container
  /\ UNCHANGED <<server, loaded, lock, phase, asked, window, failed, action,
                 straggler, reason>>

-----------------------------------------------------------------------------
(***************************************************************************)
(* handleMaintenanceReconcile and runMaintenanceWindow.                    *)
(***************************************************************************)
Serving == server # "down"

AskWindow ==
  /\ server = "up" /\ ~asked /\ Mode = "launchd" /\ asked' = TRUE
  /\ UNCHANGED <<server, loaded, lock, container, phase, window, failed, action,
                 straggler, reason>>

\* A request may outlast the shutdown's wait for it: nobody ensures its window.
OpenWindow ==
  /\ Serving /\ asked /\ asked' = FALSE
  /\ IF phase = "running" THEN UNCHANGED <<phase, failed, window>>
     ELSE phase' = "running" /\ failed' = FALSE /\ window' = "bootout"
  /\ UNCHANGED <<server, loaded, lock, container, action, straggler, reason>>

\* An error is noted, and the window goes on.
Goes(next, ok) == window' = next /\ failed' = (failed \/ ~ok)

\* Nobody answers for a bootout after the bootstrap of the shutdown.
Bootout(ok) ==
  /\ Serving /\ window = "bootout" /\ Goes("reconcile", ok) /\ (ok => loaded)
  /\ \/ Unload(IF server = "exit" THEN "late" ELSE "none")
     \/ ~ok /\ UNCHANGED <<loaded, reason>>
  /\ UNCHANGED <<server, lock, container, phase, asked, action, straggler>>

\* store.Open fails when somebody has the lock.
StartReconcile ==
  /\ Serving /\ window = "reconcile" /\ lock = "none"
  /\ lock' = "reconcile" /\ Goes("reconciling", TRUE)
  /\ UNCHANGED <<server, loaded, container, phase, asked, action, straggler, reason>>

\* Mutant: the bootstrap belongs to the normal path only.
SkipsBootstrap == Goes("finish", FALSE)
ReconcileError == Goes("bootstrap", FALSE)

ReconcileFails ==
  /\ Serving /\ window = "reconcile" /\ ReconcileError
  /\ UNCHANGED <<server, loaded, lock, container, phase, asked, action, straggler, reason>>

\* It ends, fails, or is killed when the time is over.
ReconcileEnds ==
  /\ lock = "reconcile" /\ lock' = "none"
  /\ IF window = "reconciling" THEN Goes("bootstrap", TRUE) \/ ReconcileError
     ELSE UNCHANGED <<window, failed>>
  /\ UNCHANGED <<server, loaded, container, phase, asked, action, straggler, reason>>

Bootstrap(ok) ==
  /\ Serving /\ window = "bootstrap" /\ Goes("finish", ok) /\ (ok => ~loaded)
  /\ \/ Load("none")
     \/ ~ok /\ loaded' = loaded /\ reason' = IF loaded THEN reason ELSE "failed"
  /\ UNCHANGED <<server, lock, container, phase, asked, action, straggler>>

FinishWindow ==
  /\ Serving /\ window = "finish" /\ window' = "none"
  /\ phase' = IF failed THEN "error" ELSE "done"
  /\ UNCHANGED <<server, loaded, lock, container, asked, failed, action, straggler, reason>>

-----------------------------------------------------------------------------
(***************************************************************************)
(* handleDaemonAction.                                                     *)
(***************************************************************************)
AskAction(what) ==
  /\ server = "up" /\ action = NoStep /\ phase # "running"
  /\ action' = [what |-> what, step |-> "checked"]
  /\ UNCHANGED <<server, loaded, lock, container, phase, asked, window, failed,
                 straggler, reason>>

DetectForAction ==
  /\ Serving /\ action.step = "checked"
  /\ action' = IF Mode = "launchd" THEN [action EXCEPT !.step = "detected"] ELSE NoStep
  /\ UNCHANGED <<server, loaded, lock, container, phase, asked, window, failed,
                 straggler, reason>>

\* kickstart -k kills the process; launchd starts it again.
Act ==
  /\ action.step = "detected" /\ action' = NoStep
  /\ CASE action.what = "start"   -> Load("none") /\ UNCHANGED lock
       [] action.what = "stop"    -> Unload("stopped") /\ UNCHANGED lock
       [] action.what = "restart" -> /\ UNCHANGED <<loaded, reason>>
                                     /\ lock' = IF loaded /\ lock = "daemon" THEN "none" ELSE lock
  /\ UNCHANGED <<server, container, phase, asked, window, failed, straggler>>

ActFails ==
  /\ action.step = "detected" /\ action' = NoStep
  /\ UNCHANGED <<server, loaded, lock, container, phase, asked, window, failed,
                 straggler, reason>>

-----------------------------------------------------------------------------
(***************************************************************************)
(* The end of the server.  Serve waits for the requests, at most 3 s, then *)
(* ensureBootstrapOnShutdown looks at the phase.  The goroutine runs on    *)
(* until the process exits.                                                *)
(***************************************************************************)
Quit ==
  /\ server = "up" /\ server' = "closing"
  /\ UNCHANGED <<loaded, lock, container, phase, asked, window, failed, action,
                 straggler, reason>>

\* Mutant: the goroutine's own bootstrap is relied on.
NoEnsure    == "exit"
EnsureFirst == IF phase = "running" THEN "ensure" ELSE "exit"

EndServe ==
  /\ server = "closing" /\ server' = EnsureFirst
  /\ UNCHANGED <<loaded, lock, container, phase, asked, window, failed, action,
                 straggler, reason>>

EnsureBootstrap(ok) ==
  /\ server = "ensure" /\ server' = "exit"
  /\ loaded' = (loaded \/ ok)
  /\ reason' = IF loaded THEN reason ELSE IF ok THEN "none" ELSE "failed"
  /\ UNCHANGED <<lock, container, phase, asked, window, failed, action, straggler>>

\* A command the server was waiting for goes on without it, if it was started.
MaintDies ==
  /\ server' = "down" /\ phase' = "idle" /\ asked' = FALSE
  /\ window' = "none" /\ failed' = FALSE
  /\ straggler' \in {straggler, straggler \cup ({window} \cap {"bootout", "bootstrap"})}
  /\ action' \in {NoStep, action} /\ action'.step # "checked"
  /\ UNCHANGED <<loaded, lock, container>>

Exit == server = "exit" /\ MaintDies /\ UNCHANGED reason

Kill ==
  /\ Serving /\ MaintDies
  /\ reason' = IF window \in Stages \ {"finish"} THEN "killed" ELSE reason

StragglerActs ==
  /\ \E command \in straggler :
       /\ straggler' = straggler \ {command}
       /\ IF command = "bootout" THEN Unload("late") ELSE Load("none")
  /\ UNCHANGED <<server, lock, container, phase, asked, window, failed, action>>

Serve ==
  /\ server = "down" /\ server' = "up"
  /\ UNCHANGED <<loaded, lock, container, phase, asked, window, failed, action,
                 straggler, reason>>

-----------------------------------------------------------------------------
WindowNext ==
  \/ OpenWindow \/ StartReconcile \/ ReconcileFails \/ ReconcileEnds \/ FinishWindow
  \/ \E ok \in BOOLEAN : Bootout(ok) \/ Bootstrap(ok)

MaintNext ==
  \/ DaemonStarts \/ DaemonEnds \/ UserStartsContainer
  \/ AskWindow \/ WindowNext
  \/ \E what \in {"start", "stop", "restart"} : AskAction(what)
  \/ DetectForAction \/ Act \/ ActFails
  \/ Quit \/ EndServe \/ \E ok \in BOOLEAN : EnsureBootstrap(ok)
  \/ Exit \/ Kill \/ StragglerActs \/ Serve

MaintSpec == MaintInit /\ [][MaintNext]_maint

-----------------------------------------------------------------------------
\* The daemon is unloaded only within a window that is going to load it again,
\* or for a reason: the user stopped it, launchctl failed, the server was killed,
\* or it ended before the bootout of a window did, which its own bootstrap then
\* overtakes.
UnloadedHasReason ==
  ~loaded =>
    \/ reason # "none"
    \/ /\ window \in {"reconcile", "reconciling", "bootstrap"}
       /\ server \in {"up", "closing", "ensure"}
=============================================================================
