----------------------------- MODULE RunLifecycle -----------------------------
(***************************************************************************)
(* One run from its launch to a terminal row of gp-api: the runner, the    *)
(* broker, what the scheduler still does once RunTask has started the task,*)
(* the task reaper (control_plane/task_reaper.py) and gp-api's consumer.   *)
(***************************************************************************)
EXTENDS Runner

VARIABLES
  job,    \* the run's row in agent-job-queue, "LAUNCHING" or settled
  reaper  \* the reaper's event: due once the task has stopped badly

vars == <<runnerVars, brokerVars, queueVars, job, reaper>>

Job == {"marking", "LAUNCHING", "DISPATCHED", "FAILED"}

TypeOK ==
  /\ RunnerTypeOK /\ BrokerTypeOK /\ QueueTypeOK
  /\ job \in Job
  /\ reaper \in {"watching", "sent", "lost"}

Init ==
  /\ RunnerInit /\ BrokerInit /\ QueueInit
  /\ QaFolder \/ body.qa = {}
  /\ job = "marking" /\ reaper = "watching"

-----------------------------------------------------------------------------
(* The scheduler, after RunTask                                            *)

(* mark_dispatched, then the started callback, which may be lost; or the   *)
(* row stays LAUNCHING, whether the update failed or the Lambda died.      *)
Mark ==
  /\ job = "marking"
  /\ \/ job' = "DISPATCHED" /\ (Accept("agentExperiments", "started") \/ Unsent)
     \/ job' = "LAUNCHING" /\ Unsent
  /\ UNCHANGED <<runnerVars, brokerVars, row, reaper>>

(* The sweep, ten minutes later: a row over a live task (or an ECS error)  *)
(* is settled as DISPATCHED; otherwise failed is sent, then the row marked.*)
Sweep ==
  /\ job = "LAUNCHING"
  /\ \/ job' = "DISPATCHED" /\ Unsent
     \/ /\ phase = "over"
        /\ Accept("agentExperiments", "failed")
        /\ job' \in {"LAUNCHING", "FAILED"}
  /\ UNCHANGED <<runnerVars, brokerVars, row, reaper>>

-----------------------------------------------------------------------------
(* Variant: a task that exits by itself is left alone.                     *)
ReapKilledOnly ==
  /\ reaper = "watching" /\ exit = Killed
  /\ \/ Accept("agentExperiments", "task_stopped") /\ reaper' = "sent"
     \/ Unsent /\ reaper' = "lost"
  /\ UNCHANGED <<runnerVars, brokerVars, row, job>>

(* task_reaper.handler on the STOPPED event of a task without exit code 0. *)
(* An error of its send is logged, and the event is done with.             *)
Reap ==
  /\ reaper = "watching" /\ exit \in {"1", Killed}
  /\ \/ Accept("agentExperiments", "task_stopped") /\ reaper' = "sent"
     \/ Unsent /\ reaper' = "lost"
  /\ UNCHANGED <<runnerVars, brokerVars, row, job>>

GpApi(g) ==
  /\ Consume(g)
  /\ UNCHANGED <<runnerVars, brokerVars, job, reaper>>

Broker ==
  /\ BrokerStep
  /\ UNCHANGED <<runnerVars, job, reaper>>

Next ==
  \/ RunnerStep /\ UNCHANGED <<job, reaper>>
  \/ Broker
  \/ Mark \/ Sweep \/ Reap
  \/ \E g \in Group : GpApi(g)

Spec == Init /\ [][Next]_vars

(* The runner process runs: the timeout ends what the agent does not, a    *)
(* client timeout what the broker does not.  A broker request ends, ECS    *)
(* reports a stopped task, and a message that is delivered again and again *)
(* is deleted in the end.                                                  *)
Fairness ==
  /\ WF_vars(Proceed /\ UNCHANGED <<job, reaper>>)
  /\ WF_vars(Broker)
  /\ WF_vars(Reap)
  /\ \A g \in Group : SF_vars(GpApi(g) /\ queue' # queue)

FairSpec == Spec /\ Fairness

-----------------------------------------------------------------------------
(* What is to hold                                                         *)

(* Refinement of RunOutcome: the row is settled once, and COMPLETED only   *)
(* with the run's immutable artifact in S3 (artifact_publish.py, 360-395,  *)
(* and gp-api's terminal guard).                                           *)
Outcome == INSTANCE RunOutcome WITH archived <- "artifact" \in s3
ImplementsOutcome == Outcome!Spec

(* The reaper stays out of a task that exited with 0 because the runner    *)
(* has reported (task_reaper.py, 47-48): then a message that ends the run  *)
(* was accepted by the queue, and not only sent.                           *)
CleanExitReported ==
  exit = "0" => accepted \cap {"success", "contract_violation"} # {}

(* The inductive invariant: the runner listens to one request, that of the *)
(* call it is in; with BrokerInv, a 200 then means that gp-api was told.   *)
RunInv ==
  /\ TypeOK /\ BrokerInv /\ QueuedAccepted /\ CleanExitReported
  /\ phase = "calling" => call \in CallName
  /\ exit = Running <=> phase # "over"
  /\ \A i \in Slot : Waiting(i) => phase = "calling" /\ requests[i].kind = KindOf(call)
  /\ \A i, j \in Slot : Waiting(i) /\ Waiting(j) => i = j

(* A task that cannot have reported is reported by someone: the row becomes*)
(* terminal, unless the reaper's only send is lost.                        *)
EveryRunEnds == <>(row \in TerminalRow \/ reaper = "lost")

(* Not so in the code (see the README, Findings).  A run whose success the *)
(* queue accepted first is not flipped to FAILED (task_reaper.py, 48-52).  *)
SuccessStands == successFirst => row # "FAILED"

(* Not so in the code.  A stop signal that came during setup ends the run  *)
(* before the harness starts (main.py, 262-265).                           *)
EarlySignalStops == early => phase # "harness"
=============================================================================
