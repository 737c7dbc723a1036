--------------------------- MODULE MaintenanceProofs ---------------------------
(***************************************************************************)
(* Proof that the daemon is unloaded within a window or for a reason only, *)
(* whatever order the requests, the commands, the window and the end of    *)
(* the server come in.  The argument needs one fact more: a window that is *)
(* open is marked as running, so that the shutdown does not overlook it.   *)
(***************************************************************************)
EXTENDS Maintenance, TLAPS

WindowIsMarked == window # "none" => phase = "running" /\ server # "down"

MaintInv == MaintTypeOK /\ WindowIsMarked /\ UnloadedHasReason

\* The agent is loaded at first.
LEMMA InitMaint == MaintInit => MaintInv
BY DEF MaintInit, MaintInv, MaintTypeOK, NoStep, WindowIsMarked, UnloadedHasReason

\* The daemon and the users leave the agent and the window alone.
LEMMA OthersKeep ==
  ASSUME MaintInv,
         \/ DaemonStarts \/ DaemonEnds \/ UserStartsContainer \/ AskWindow \/ ActFails
         \/ DetectForAction \/ \E what \in {"start", "stop", "restart"} : AskAction(what)
  PROVE  MaintInv'
<1> USE DEF MaintInv, MaintTypeOK, WindowIsMarked, UnloadedHasReason
<1>1. CASE DaemonStarts \/ DaemonEnds
  BY <1>1 DEF DaemonStarts, DaemonEnds
<1>5. CASE UserStartsContainer
  BY <1>5 DEF UserStartsContainer
<1>6. CASE AskWindow
  BY <1>6 DEF AskWindow
<1>2. CASE ActFails
  BY <1>2 DEF ActFails
<1>3. ASSUME NEW what \in {"start", "stop", "restart"}, AskAction(what) PROVE MaintInv'
  BY <1>3 DEF AskAction
<1>4. CASE DetectForAction
  <2>1. action # NoStep
    BY <1>4 DEF DetectForAction, NoStep
  <2>2. action' = NoStep \/ action' = [what |-> action.what, step |-> "detected"]
    BY <1>4, <2>1 DEF DetectForAction
  <2> QED
    BY <1>4, <2>1, <2>2 DEF DetectForAction
<1> QED
  BY <1>1, <1>2, <1>3, <1>4, <1>5, <1>6

\* The window: what it unloads it is going to load.
LEMMA WindowKeeps ==
  ASSUME MaintInv, WindowNext
  PROVE  MaintInv'
<1> USE DEF MaintInv, MaintTypeOK, WindowIsMarked, UnloadedHasReason, Goes, Ends, Stages
<1>1. CASE OpenWindow
  <2>1. MaintTypeOK'
    <3>1. failed' \in BOOLEAN
      BY <1>1 DEF OpenWindow, Serving
    <3>2. loaded' \in BOOLEAN
      BY <1>1 DEF OpenWindow, Serving
    <3>3. /\ reason' \in {"none", "stopped", "failed", "killed", "late"}
          /\ window' \in Stages \cup {"none"} /\ phase' \in {"idle", "running", "done", "error"}
          /\ lock' \in {"none", "daemon", "reconcile"} /\ straggler' \subseteq {"bootout", "bootstrap"}
      BY <1>1 DEF OpenWindow, Serving
    <3>4. asked' \in BOOLEAN /\ UNCHANGED <<container, action>>
      BY <1>1 DEF OpenWindow, Serving
    <3>5. server' \in {"up", "down"} \cup Ends
      BY <1>1 DEF OpenWindow, Serving
    <3> QED
      BY <3>1, <3>2, <3>3, <3>4, <3>5
  <2>2. WindowIsMarked'
    BY <1>1 DEF OpenWindow, Serving
  <2>3. UnloadedHasReason'
    BY <1>1 DEF OpenWindow, Serving
  <2> QED
    BY <2>1, <2>2, <2>3
<1>2. CASE StartReconcile
  BY <1>2 DEF StartReconcile, Serving
<1>3. CASE ReconcileFails
  BY <1>3 DEF ReconcileFails, ReconcileError, Serving
<1>4. CASE ReconcileEnds
  <2>1. MaintTypeOK'
    <3>1. failed' \in BOOLEAN
      BY <1>4 DEF ReconcileEnds, ReconcileError
    <3>2. loaded' \in BOOLEAN
      BY <1>4 DEF ReconcileEnds, ReconcileError
    <3>3. /\ reason' \in {"none", "stopped", "failed", "killed", "late"}
          /\ window' \in Stages \cup {"none"} /\ phase' \in {"idle", "running", "done", "error"}
          /\ lock' \in {"none", "daemon", "reconcile"} /\ straggler' \subseteq {"bootout", "bootstrap"}
      BY <1>4 DEF ReconcileEnds, ReconcileError
    <3>4. asked' \in BOOLEAN /\ UNCHANGED <<container, action>>
      BY <1>4 DEF ReconcileEnds, ReconcileError
    <3>5. server' \in {"up", "down"} \cup Ends
      BY <1>4 DEF ReconcileEnds, ReconcileError
    <3> QED
      BY <3>1, <3>2, <3>3, <3>4, <3>5
  <2>2. WindowIsMarked'
    BY <1>4 DEF ReconcileEnds, ReconcileError
  <2>3. UnloadedHasReason'
    BY <1>4 DEF ReconcileEnds, ReconcileError
  <2> QED
    BY <2>1, <2>2, <2>3
<1>5. CASE FinishWindow
  BY <1>5 DEF FinishWindow
<1>6. ASSUME NEW ok \in BOOLEAN, Bootout(ok) PROVE MaintInv'
  <2>1. MaintTypeOK'
    <3>1. failed' \in BOOLEAN
      BY <1>6 DEF Bootout, Unload, Serving
    <3>2. loaded' \in BOOLEAN
      BY <1>6 DEF Bootout, Unload, Serving
    <3>3. /\ reason' \in {"none", "stopped", "failed", "killed", "late"}
          /\ window' \in Stages \cup {"none"} /\ phase' \in {"idle", "running", "done", "error"}
          /\ lock' \in {"none", "daemon", "reconcile"} /\ straggler' \subseteq {"bootout", "bootstrap"}
      BY <1>6 DEF Bootout, Unload, Serving
    <3>4. asked' \in BOOLEAN /\ UNCHANGED <<container, action>>
      BY <1>6 DEF Bootout, Unload, Serving
    <3>5. server' \in {"up", "down"} \cup Ends
      BY <1>6 DEF Bootout, Unload, Serving
    <3> QED
      BY <3>1, <3>2, <3>3, <3>4, <3>5
  <2>2. WindowIsMarked'
    BY <1>6 DEF Bootout, Unload, Serving
  <2>3. UnloadedHasReason'
    BY <1>6 DEF Bootout, Unload, Serving
  <2> QED
    BY <2>1, <2>2, <2>3
<1>7. ASSUME NEW ok \in BOOLEAN, Bootstrap(ok) PROVE MaintInv'
  <2>1. MaintTypeOK'
    BY <1>7 DEF Bootstrap, Load, Serving
  <2>2. WindowIsMarked'
    BY <1>7 DEF Bootstrap, Load, Serving
  <2>3. UnloadedHasReason'
    BY <1>7 DEF Bootstrap, Load, Serving
  <2> QED
    BY <2>1, <2>2, <2>3
<1> QED
  BY <1>1, <1>2, <1>3, <1>4, <1>5, <1>6, <1>7 DEF WindowNext

\* The end of the server.
LEMMA EndKeeps ==
  ASSUME MaintInv,
         \/ Quit \/ EndServe \/ Exit \/ Kill \/ Serve
         \/ \E ok \in BOOLEAN : EnsureBootstrap(ok)
  PROVE  MaintInv'
<1> USE DEF MaintInv, MaintTypeOK, WindowIsMarked, UnloadedHasReason, Ends, Stages
<1>1. CASE Quit
  BY <1>1 DEF Quit
<1>5. CASE Serve
  BY <1>5 DEF Serve
<1>4. CASE EndServe
  <2>1. MaintTypeOK'
    BY <1>4 DEF EndServe, EnsureFirst
  <2>2. WindowIsMarked'
    BY <1>4 DEF EndServe, EnsureFirst
  <2>3. UnloadedHasReason'
    BY <1>4 DEF EndServe, EnsureFirst
  <2> QED
    BY <2>1, <2>2, <2>3
<1>2. CASE Exit \/ Kill
  <2>1. MaintDies
    BY <1>2 DEF Exit, Kill
  <2>2. UnloadedHasReason'
    BY <1>2 DEF Exit, Kill, MaintDies
  <2>3. reason' \in {"none", "stopped", "failed", "killed", "late"}
    BY <1>2 DEF Exit, Kill
  <2> QED
    BY <2>1, <2>2, <2>3 DEF MaintDies
<1>3. ASSUME NEW ok \in BOOLEAN, EnsureBootstrap(ok) PROVE MaintInv'
  BY <1>3 DEF EnsureBootstrap
<1> QED
  BY <1>1, <1>2, <1>3, <1>4, <1>5

\* launchctl, run for an action or left behind by a server that died.
LEMMA CommandsKeep ==
  ASSUME MaintInv, Act \/ StragglerActs
  PROVE  MaintInv'
<1> USE DEF MaintInv, MaintTypeOK, WindowIsMarked, UnloadedHasReason, Load, Unload
<1>1. CASE Act
  <2>1. action.what \in {"start", "stop", "restart"}
    BY <1>1 DEF Act, NoStep
  <2>2. /\ loaded' \in BOOLEAN /\ lock' \in {"none", "daemon", "reconcile"}
        /\ reason' \in {"none", "stopped", "failed", "killed", "late"}
        /\ ~loaded' => reason' # "none" \/ (~loaded /\ reason' = reason)
    BY <1>1, <2>1 DEF Act
  <2> QED
    BY <1>1, <2>2 DEF Act
<1>2. CASE StragglerActs
  <2>1. MaintTypeOK'
    <3>1. failed' \in BOOLEAN
      BY <1>2 DEF StragglerActs
    <3>2. loaded' \in BOOLEAN
      BY <1>2 DEF StragglerActs
    <3>3. /\ reason' \in {"none", "stopped", "failed", "killed", "late"}
          /\ window' \in Stages \cup {"none"} /\ phase' \in {"idle", "running", "done", "error"}
          /\ lock' \in {"none", "daemon", "reconcile"} /\ straggler' \subseteq {"bootout", "bootstrap"}
      BY <1>2 DEF StragglerActs
    <3>4. asked' \in BOOLEAN /\ UNCHANGED <<container, action>>
      BY <1>2 DEF StragglerActs
    <3>5. server' \in {"up", "down"} \cup Ends
      BY <1>2 DEF StragglerActs
    <3> QED
      BY <3>1, <3>2, <3>3, <3>4, <3>5
  <2>2. WindowIsMarked'
    BY <1>2 DEF StragglerActs
  <2>3. UnloadedHasReason'
    BY <1>2 DEF StragglerActs
  <2> QED
    BY <2>1, <2>2, <2>3
<1> QED
  BY <1>1, <1>2

\* Every step keeps the invariant.
LEMMA NextMaint == MaintInv /\ [MaintNext]_maint => MaintInv'
<1> SUFFICES ASSUME MaintInv, [MaintNext]_maint PROVE MaintInv'
  OBVIOUS
<1>1. CASE UNCHANGED maint
  BY <1>1 DEF maint, MaintInv, MaintTypeOK, WindowIsMarked, UnloadedHasReason
<1> QED
  BY <1>1, OthersKeep, WindowKeeps, EndKeeps, CommandsKeep DEF MaintNext

\* The daemon is unloaded only within a window that is going to load it again,
\* or for one of the reasons that Maintenance lists.
THEOREM DaemonIsAccountedFor == MaintSpec => []UnloadedHasReason
<1>1. MaintInv => UnloadedHasReason
  BY DEF MaintInv
<1> QED
  BY <1>1, InitMaint, NextMaint, PTL DEF MaintSpec
=============================================================================
