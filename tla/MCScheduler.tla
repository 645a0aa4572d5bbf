----------------------------- MODULE MCScheduler -----------------------------
(***************************************************************************)
(* Instances of Scheduler for TLC.                                         *)
(***************************************************************************)
EXTENDS Scheduler

(* A quiet environment for the run about order: only a claim may fail,     *)
(* tickets stay, each message is delivered once.  What remains is what *)
(* order depends on: arrivals of both tiers at different times, the lag of *)
(* the index, and passes that start between any two of these.              *)
QuietNext ==
  \/ /\ BeginTick \/ EndSweep \/ Count \/ Query \/ EndTick
        \/ (\E r \in Run : Claim(r)) \/ Mint \/ RunTask \/ MarkDispatched \/ NotifyStarted
     /\ pc' = "idle" => (pc = "launch" \/ LargestCap = Cardinality(live))
     /\ pc = "idle" => pc' = "sweep"
     /\ pc = "launch" /\ pc' = "launch" => jobs' = jobs
     /\ pc = "mint" => pc' = "run_task"
     /\ pc = "run_task" => pc' = "mark"
     /\ pc = "mark" => pc' = "notify_started"
  \/ (\E r \in Run : IndexCatchUp(r) \/ ClockTick) /\ UNCHANGED <<envVars, localVars>>
  \/ \E r \in Run, p \in Priority : Ingest(r, p) /\ inbox' # inbox
  \/ \E t \in live : TaskStops(t)

QuietSpec == Init /\ [][QuietNext]_vars
=============================================================================
