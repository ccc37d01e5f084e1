---------------------------- MODULE ServerTasks -----------------------------
(***************************************************************************)
(* What the server does beside the drivers, together: the batchers of the  *)
(* log, the merge poller with its marks, and the handlers with their locks.*)
(* The three share no variable, so that the server is a behaviour of each, *)
(* in any interleaving.                                                    *)
(***************************************************************************)
EXTENDS LogSink, PullRequests, RequestLocks

ServerSpec == LogSpec /\ PrSpec /\ LkSpec

(* The log, the marks and the locks, as one invariant: lines in order and  *)
(* each once, a mark that is earned and shown, no circle of waits          *)
(* (log_sink.rs, pr_merge_poller.rs, list.rs).                             *)
ServerSafe == LogSafe /\ PrSafe /\ NoWaitCycle

=============================================================================
