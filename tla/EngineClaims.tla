---------------------------- MODULE EngineClaims ----------------------------
(***************************************************************************)
(* Statements that a comment, a requirement or a document of the           *)
(* repository makes about the engine and that the code does not meet.      *)
(* TLC refutes each of them; the README names the instance that does.      *)
(***************************************************************************)
EXTENDS MCWorkflowEngine

(* step_runner.rs: "A cancellation from the workflow's cancel_token is NOT *)
(* a session failure - it's a pause/stop signal."  A cancelled driver is   *)
(* never processed as a failed one (drive_workflow_def).                   *)
CancellationIsNotFailure ==
    [][\A d \in Drivers : At(d, "cancelled") => drv'[d].pc # "fail"]_vars

(* definitions.rs: "Only skip bootstrap entirely (resume path) when the    *)
(* full bootstrap - including mise install and hooks - has already         *)
(* completed."  No agent runs in a worktree that was not bootstrapped.     *)
AgentOnlyAfterBootstrap ==
    \A d \in Drivers :
        At(d, "agent") /\ wf[drv[d].tk].live => wf[drv[d].tk].boot

(* transitions.rs: "Re-spawn drive_workflow_def for each def that was      *)
(* running when paused."  No definition is Running on an active item       *)
(* without a driver or a request about to spawn it, whether or not the     *)
(* client of a start or a resume hangs up in the middle of it.             *)
ResumeRespawnsEveryRunningDef ==
    \A t \in Tickets :
        wf[t].live /\ IsActive(wf[t].st) /\ RunningDefs(t) # {} /\ ~suppress
          => (\E d \in DriversOf(t) : Unfinished(d)) \/ BeingStarted(t)

(* REQUIREMENTS.md US-2.9: "Stopping a workflow kills all running Claude   *)
(* Code sessions for that ticket."  ARCHITECTURE.md: "On stop/pause, the   *)
(* token is cancelled, which signals all child processes to terminate."    *)
(* When an item becomes Stopped, every driver of the ticket has been told. *)
StopReachesEveryDriver ==
    [][\A t \in Tickets :
          /\ wf[t].live /\ wf[t].st.k # "Stopped"
          /\ wf'[t].live /\ wf'[t].st.k = "Stopped"
          => \A d \in DriversOf(t) : drv'[d].cx]_vars

(* REQUIREMENTS.md US-2.10.1: "Pausing suspends execution after the        *)
(* current step completes (does not interrupt a running Claude Code        *)
(* session mid-execution)."  No pause cancels a driver whose agent runs.   *)
PauseLetsTheAgentFinish ==
    [][\A d \in Drivers : At(d, "agent") /\ ~drv[d].cx /\ drv'[d].pc = "agent"
          => ~drv'[d].cx]_vars

(* persistence.rs: "Write per-workspace snapshots and cancel drivers so    *)
(* processes stop"; driver.rs: "cancelled during shutdown; state preserved *)
(* for resume".  A driver whose container the shutdown removed does not    *)
(* change the recorded state of its definition.                            *)
InterruptPreservesRuns ==
    [][\A d \in Drivers :
          /\ At(d, "agent") /\ drv[d].hit
          /\ drv[d].tk \in killed
          => drv'[d] = drv[d] \/ drv'[d].res = "cancelled" \/ drv'[d].cx]_vars

(* lifecycle.rs: "Remove a workflow from the dashboard when it is not      *)
(* running (see WorkflowState::is_active)."  A delete never removes a      *)
(* started item in an active state.                                        *)
DeleteSparesRunningItems ==
    [][\A r \in Reqs :
          /\ req[r].op = "delete" /\ req'[r] = IdleReq
          /\ wf[req[r].tk].live
          => ~(IsActive(wf[req[r].tk].st) /\ wf[req[r].tk].started)]_vars

(* transitions.rs: "Resume a failed or stopped workflow by retrying all    *)
(* Error-state workflow definitions."  After resume_from_error the item is *)
(* being worked on.                                                        *)
ResumeFromErrorRestartsWork == ActiveHasDriver
=============================================================================
