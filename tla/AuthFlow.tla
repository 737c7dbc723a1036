-------------------------------- MODULE AuthFlow --------------------------------
(***************************************************************************)
(* The authorisation of an account from the application: one flow at a     *)
(* time (appserver/authflow.go), each a listener on the loopback interface *)
(* that waits for the browser (auth/flow.go).  Flows are numbered; a flow  *)
(* and its cancel function are known by their number.                      *)
(***************************************************************************)
EXTENDS Naturals

VARIABLES
  authPhase,   \* authSt.phase
  flow,        \* the last flow started
  browser,     \* of its listener: "waiting", "exchanging", "token", "error"
  over,        \* flows whose context is done
  cancelling,  \* the flow a cancel request is about to cancel, or NoFlow
  saved        \* the flow the token file comes from

auth == <<authPhase, flow, browser, over, cancelling, saved>>

NoFlow == 0

AuthTypeOK ==
  /\ authPhase \in {"idle", "running", "done", "error"}
  /\ flow \in Nat /\ over \subseteq 1..flow
  /\ browser \in {"none", "waiting", "exchanging", "token", "error"}
  /\ cancelling \in 0..flow /\ saved \in 0..flow

AuthInit ==
  /\ authPhase = "idle" /\ flow = NoFlow /\ browser = "none" /\ over = {}
  /\ cancelling = NoFlow /\ saved = NoFlow

Running == authPhase = "running"

\* The goroutine, its listener and its context begin under the lock.
StartAuth ==
  /\ ~Running
  /\ authPhase' = "running" /\ flow' = flow + 1 /\ browser' = "waiting"
  /\ UNCHANGED <<over, cancelling, saved>>

\* The redirect with this flow's state; requests with another are refused.
Redirect ==
  /\ Running /\ browser = "waiting" /\ browser' \in {"exchanging", "error"}
  /\ UNCHANGED <<authPhase, flow, over, cancelling, saved>>

\* Only the first result is delivered.  The exchange fails when the context ends.
Exchange ==
  /\ Running /\ browser = "exchanging"
  /\ browser' \in IF flow \in over THEN {"error"} ELSE {"token", "error"}
  /\ UNCHANGED <<authPhase, flow, over, cancelling, saved>>

\* The context ends after five minutes, whatever the user does.
TimesOut ==
  /\ Running /\ flow \notin over /\ over' = over \cup {flow}
  /\ UNCHANGED <<authPhase, flow, browser, cancelling, saved>>

\* Mutant: the flow in the file is the one of the phase in any case.
SavesAlways(ok) == saved' = flow
Saves(ok)       == saved' = IF ok THEN flow ELSE saved

\* Mutant: only the browser ends a flow.
NeverOver == FALSE
IsOver    == flow \in over

\* select takes either branch when both are ready.
FlowEnds ==
  /\ Running
  /\ \/ browser = "token" /\ authPhase' = "done" /\ Saves(TRUE)
     \/ browser \in {"token", "error"} /\ authPhase' = "error" /\ Saves(FALSE)
     \/ IsOver /\ authPhase' = "error" /\ Saves(FALSE)
  /\ browser' = "none" /\ over' = over \cup {flow}
  /\ UNCHANGED <<flow, cancelling>>

\* handleAuthCancel reads the function under the lock and calls it after.
AskCancel ==
  /\ cancelling = NoFlow /\ flow # NoFlow /\ cancelling' = flow
  /\ UNCHANGED <<authPhase, flow, browser, over, saved>>

Cancel ==
  /\ cancelling # NoFlow
  /\ over' = over \cup {cancelling} /\ cancelling' = NoFlow
  /\ UNCHANGED <<authPhase, flow, browser, saved>>

AuthDies ==
  /\ authPhase' = "idle" /\ browser' = "none" /\ cancelling' = NoFlow
  /\ over' = 1..flow
  /\ UNCHANGED <<flow, saved>>

AuthNext ==
  \/ StartAuth \/ Redirect \/ Exchange \/ TimesOut \/ FlowEnds \/ AskCancel \/ Cancel
  \/ AuthDies

AuthSpec == AuthInit /\ [][AuthNext]_auth

-----------------------------------------------------------------------------
\* The phase the application reads tells whether this flow's token is in the
\* file, also when a cancel, the time-out and the browser come together: an
\* authorisation reported as failed has changed nothing.
PhaseTellsFile ==
  /\ authPhase = "done" => saved = flow
  /\ authPhase \in {"error", "running"} => saved # flow

\* A flow that nobody completes does not keep others out for ever.
AuthEnds == Running ~> ~Running
=============================================================================
