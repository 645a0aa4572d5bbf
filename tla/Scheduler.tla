------------------------------ MODULE Scheduler ------------------------------
(***************************************************************************)
(* The scheduler Lambda (pmf_engine/control_plane/scheduler_handler.py and *)
(* launch_run of dispatch_handler.py) over the job table, the broker's     *)
(* run tokens, ECS and the results queue.  Reserved concurrency 1 makes    *)
(* the invocation a single process, whose program counter is pc; it can be *)
(* killed between any two of its calls, and every call can fail, or take   *)
(* effect and still be reported as failed.                                 *)
(***************************************************************************)
EXTENDS JobStore

CONSTANTS
  ConfiguredCap,   \* the SSM parameter max-concurrent-agents
  FallbackCap      \* _FALLBACK_MAX_CONCURRENT_AGENTS

ASSUME CapAssumption == ConfiguredCap \in Int /\ FallbackCap \in Int

VARIABLES
  inbox,     \* runs whose dispatch message may still be delivered
  tickets,   \* runs whose scope ticket and run-lock the broker holds
  launches,  \* <<run, attempt>> of every task RunTask has started
  live,      \* those whose desiredStatus is RUNNING
  sent,      \* <<run, status>> of the callbacks put on the results queue
  pc,        \* the invocation: the call it makes next, or idle
  cur, todo, slots, launched  \* its local variables

envVars == <<inbox, tickets, launches, live, sent>>
localVars == <<pc, cur, todo, slots, launched>>
vars == <<storeVars, envVars, localVars>>

SweepLabels == {"sweep", "reconcile", "sweep_notify", "sweep_fail"}
LaunchLabels == {"launch", "mint", "run_task", "mark", "notify_started",
                 "notify_failed", "fail"}
Labels == SweepLabels \cup LaunchLabels \cup {"idle", "count", "query"}

None == -1

TypeOK ==
  /\ StoreTypeOK
  /\ inbox \in SUBSET Run
  /\ tickets \in SUBSET Run
  /\ launches \in SUBSET (Run \X Nat)
  /\ live \in SUBSET launches
  /\ sent \in SUBSET (Run \X {"started", "failed"})
  /\ pc \in Labels
  /\ cur \in Run \cup {None}
  /\ todo \in SUBSET Run
  /\ slots \in Int /\ launched \in Nat

Init ==
  /\ StoreInit
  /\ inbox = Run
  /\ tickets = {} /\ launches = {} /\ live = {} /\ sent = {}
  /\ pc = "idle" /\ cur = None /\ todo = {} /\ slots = 0 /\ launched = 0

HasLiveTask(r) == \E t \in live : t[1] = r

Goto(l) == pc' = l

(* The invocation is over, and with it its local variables.                *)
Return ==
  pc' = "idle" /\ cur' = None /\ todo' = {} /\ slots' = 0 /\ launched' = 0

(* A DynamoDB update reaches its item or is lost; either way it can be     *)
(* reported as failed, and only one that reached it can be reported as     *)
(* done.                                                                   *)
Update(new) == jobs' = new
MaybeUpdate(new) == jobs' \in {jobs, new}

(* The same for a callback.  Its MessageDeduplicationId is <run>-<status>. *)
Send(r, s) == sent' = sent \cup {<<r, s>>}
MaybeSend(r, s) == sent' \in {sent, sent \cup {<<r, s>>}}

-----------------------------------------------------------------------------
(* _sweep_stuck_launching                                                  *)

(* query_stuck_launching fails, or returns the rows to go through.         *)
BeginTick ==
  /\ pc = "idle"
  /\ \/ todo' = StuckLaunching /\ Goto("sweep")
     \/ todo' = {} /\ Goto("count")
  /\ UNCHANGED <<storeVars, envVars, cur, slots, launched>>

EndSweep ==
  /\ pc = "sweep" /\ todo = {}
  /\ Goto("count")
  /\ UNCHANGED <<storeVars, envVars, cur, todo, slots, launched>>

(* Variant for the mutation run: the sweep fails every stuck row.          *)
SweepCheckWithoutECS(r) ==
  /\ pc = "sweep" /\ r \in todo
  /\ cur' = r /\ todo' = todo \ {r}
  /\ Goto("sweep_notify")
  /\ UNCHANGED <<storeVars, envVars, slots, launched>>

(* _has_live_task: an ECS error counts as a live task.                     *)
SweepCheck(r) ==
  /\ pc = "sweep" /\ r \in todo
  /\ cur' = r /\ todo' = todo \ {r}
  /\ \/ HasLiveTask(r) /\ Goto("reconcile")
     \/ ~HasLiveTask(r) /\ Goto("sweep_notify")
     \/ Goto("reconcile")
  /\ UNCHANGED <<storeVars, envVars, slots, launched>>

SweepReconcile ==
  /\ pc = "reconcile"
  /\ MaybeUpdate(SetTerminal(cur, DISPATCHED))
  /\ Goto("sweep")
  /\ UNCHANGED <<index, clock, envVars, cur, todo, slots, launched>>

(* Variant: the result of the send is ignored.                             *)
SweepNotifyUnchecked ==
  /\ pc = "sweep_notify"
  /\ MaybeSend(cur, "failed")
  /\ Goto("sweep_fail")
  /\ UNCHANGED <<storeVars, inbox, tickets, launches, live,
                 cur, todo, slots, launched>>

(* The failed callback goes out before the row is FAILED; if the send is   *)
(* reported as failed the row stays LAUNCHING for the next sweep.          *)
SweepNotify ==
  /\ pc = "sweep_notify"
  /\ \/ Send(cur, "failed") /\ Goto("sweep_fail")
     \/ MaybeSend(cur, "failed") /\ Goto("sweep")
  /\ UNCHANGED <<storeVars, inbox, tickets, launches, live,
                 cur, todo, slots, launched>>

(* An exception of mark_failed ends the whole sweep, not this row only.    *)
SweepFail ==
  /\ pc = "sweep_fail"
  /\ \/ Update(SetTerminal(cur, FAILED)) /\ Goto("sweep") /\ UNCHANGED todo
     \/ MaybeUpdate(SetTerminal(cur, FAILED)) /\ Goto("count") /\ todo' = {}
  /\ UNCHANGED <<index, clock, envVars, cur, slots, launched>>

-----------------------------------------------------------------------------
(* The launch pass of handler                                              *)

(* get_max_concurrent_agents, count_running_tasks and the two early        *)
(* returns; an error of the count returns as well.                         *)
Count ==
  /\ pc = "count"
  /\ \/ \E cap \in {ConfiguredCap, FallbackCap} :
           /\ cap > 0 /\ cap > Cardinality(live)
           /\ slots' = cap - Cardinality(live)
           /\ Goto("query")
           /\ UNCHANGED <<cur, todo, launched>>
     \/ Return
  /\ UNCHANGED <<storeVars, envVars>>

Query ==
  /\ pc = "query"
  /\ \/ /\ todo' \in {b \in SUBSET index : IsQueryResult(b, slots)}
        /\ Goto("launch")
        /\ UNCHANGED <<cur, slots, launched>>
     \/ Return
  /\ UNCHANGED <<storeVars, envVars>>

EndTick ==
  /\ pc = "launch"
  /\ todo = {} \/ launched >= slots
  /\ Return
  /\ UNCHANGED <<storeVars, envVars>>

(* claim of the next job of the batch: done; a JobClaimConflict; or        *)
(* another error, after which the loop goes on with the next job.          *)
Claim(r) ==
  /\ pc = "launch" /\ launched < slots
  /\ r \in todo /\ \A s \in todo \ {r} : SortsBefore(r, s)
  /\ todo' = todo \ {r} /\ cur' = r
  /\ \/ Claimable(r) /\ Update(Claimed(r)) /\ Goto("mint")
     \/ ~Claimable(r) /\ Goto("launch") /\ UNCHANGED jobs
     \/ Claimable(r) /\ MaybeUpdate(Claimed(r)) /\ Goto("launch")
  /\ UNCHANGED <<index, clock, envVars, slots, launched>>

(* launch_run: mint_run_token.  Rejected (400, 401, 409) or an unexpected  *)
(* error: the run failed.  httpx.HTTPError: raised, the row stays          *)
(* LAUNCHING, whether or not the broker had stored the ticket.             *)
Mint ==
  /\ pc = "mint"
  /\ \/ cur \notin tickets /\ tickets' = tickets \cup {cur} /\ Goto("run_task")
     \/ /\ tickets' \in {tickets, tickets \cup {cur}}
        /\ Goto("notify_failed") \/ Goto("launch")
  /\ UNCHANGED <<storeVars, inbox, launches, live, sent,
                 cur, todo, slots, launched>>

(* _cleanup_minted_token is best effort.                                   *)
CleanupMintedToken == tickets' \in {tickets, tickets \ {cur}}

StartTask ==
  LET t == <<cur, jobs[cur].attempts>>
  IN launches' = launches \cup {t} /\ live' = live \cup {t}

(* launch_run: RunTask starts the task; answers with failures; or raises,  *)
(* which leaves the row LAUNCHING and may hide a task that did start.      *)
RunTask ==
  /\ pc = "run_task"
  /\ \/ StartTask /\ Goto("mark") /\ UNCHANGED tickets
     \/ UNCHANGED <<launches, live>> /\ CleanupMintedToken /\ Goto("notify_failed")
     \/ /\ StartTask \/ UNCHANGED <<launches, live>>
        /\ CleanupMintedToken
        /\ Goto("launch")
  /\ UNCHANGED <<storeVars, inbox, sent, cur, todo, slots, launched>>

(* Variant: started is sent whether or not the row was marked.             *)
MarkDispatchedUnchecked ==
  /\ pc = "mark"
  /\ MaybeUpdate(SetTerminal(cur, DISPATCHED))
  /\ Goto("notify_started")
  /\ UNCHANGED <<index, clock, envVars, cur, todo, slots, launched>>

(* An exception of mark_dispatched is caught by the loop: no started       *)
(* callback, and the row may still be LAUNCHING over a live task.          *)
MarkDispatched ==
  /\ pc = "mark"
  /\ \/ Update(SetTerminal(cur, DISPATCHED)) /\ Goto("notify_started")
     \/ MaybeUpdate(SetTerminal(cur, DISPATCHED)) /\ Goto("launch")
  /\ UNCHANGED <<index, clock, envVars, cur, todo, slots, launched>>

NotifyStarted ==
  /\ pc = "notify_started"
  /\ MaybeSend(cur, "started")
  /\ launched' = launched + 1
  /\ Goto("launch")
  /\ UNCHANGED <<storeVars, inbox, tickets, launches, live,
                 cur, todo, slots>>

NotifyFailed ==
  /\ pc = "notify_failed"
  /\ \/ Send(cur, "failed") /\ Goto("fail")
     \/ MaybeSend(cur, "failed") /\ Goto("launch")
  /\ UNCHANGED <<storeVars, inbox, tickets, launches, live,
                 cur, todo, slots, launched>>

MarkFailed ==
  /\ pc = "fail"
  /\ MaybeUpdate(SetTerminal(cur, FAILED))
  /\ Goto("launch")
  /\ UNCHANGED <<index, clock, envVars, cur, todo, slots, launched>>

(* The Lambda times out or its sandbox dies.                               *)
Kill ==
  /\ pc # "idle"
  /\ Return
  /\ UNCHANGED <<storeVars, envVars>>

-----------------------------------------------------------------------------
(* The surroundings                                                        *)

(* A delivery of the dispatch message of a run that ingest accepts; the    *)
(* message may be delivered again, with the priority it carries.           *)
Ingest(r, p) ==
  /\ r \in inbox
  /\ jobs[r].status # ABSENT => jobs[r].priority = p
  /\ PutQueuedJob(r, p)
  /\ inbox' \in {inbox, inbox \ {r}}
  /\ UNCHANGED <<index, clock, tickets, launches, live, sent, localVars>>

(* A task stops: it finished, crashed or was killed.                       *)
TaskStops(t) ==
  /\ t \in live
  /\ live' = live \ {t}
  /\ UNCHANGED <<storeVars, inbox, tickets, launches, sent, localVars>>

(* The broker drops the ticket: the run reported its result, or exp passed *)
TicketEnds(r) ==
  /\ r \in tickets
  /\ tickets' = tickets \ {r}
  /\ UNCHANGED <<storeVars, inbox, launches, live, sent, localVars>>

(* Rows outlive their dispatch message: five receives two minutes apart    *)
(* against a TTL of a day.                                                 *)
RowExpires(r) ==
  /\ r \notin inbox
  /\ pc # "idle" => cur # r /\ r \notin todo
  /\ Expire(r)
  /\ UNCHANGED <<envVars, localVars>>

Table ==
  \/ \E r \in Run : IndexCatchUp(r) \/ BecomeStuck(r)
  \/ ClockTick

Invocation ==
  \/ BeginTick \/ EndSweep \/ (\E r \in Run : SweepCheck(r))
  \/ SweepReconcile \/ SweepNotify \/ SweepFail
  \/ Count \/ Query \/ EndTick \/ (\E r \in Run : Claim(r))
  \/ Mint \/ RunTask \/ MarkDispatched \/ NotifyStarted
  \/ NotifyFailed \/ MarkFailed

Next ==
  \/ Invocation \/ Kill
  \/ Table /\ UNCHANGED <<envVars, localVars>>
  \/ \E r \in Run : RowExpires(r) \/ TicketEnds(r)
  \/ \E r \in Run, p \in Priority : Ingest(r, p)
  \/ \E t \in live : TaskStops(t)

Spec == Init /\ [][Next]_vars

(* The tick comes every minute and an invocation goes on until it returns  *)
(* or is killed; the index catches up, time passes and a task has a        *)
(* timeout: weak fairness.  A call that is attempted again and  *)
(* again succeeds some day, and an invocation is not killed at the same    *)
(* call for ever: strong fairness of the successful outcome of each call.  *)
Fairness ==
  /\ WF_vars(Invocation) /\ SF_vars(BeginTick /\ pc' = "sweep")
  /\ SF_vars(EndSweep) /\ SF_vars(EndTick)
  /\ SF_vars(SweepReconcile /\ jobs'[cur].status = DISPATCHED)
  /\ SF_vars(SweepNotify /\ pc' = "sweep_fail")
  /\ SF_vars(SweepFail /\ pc' = "sweep")
  /\ SF_vars(Count /\ pc' = "query") /\ SF_vars(Query /\ pc' = "launch")
  /\ WF_vars(\E t \in live : TaskStops(t))
  /\ \A r \in Run :
       /\ SF_vars(SweepCheck(r))
       /\ SF_vars(Claim(r) /\ pc' = "mint")
       /\ WF_vars(IndexCatchUp(r) /\ UNCHANGED <<envVars, localVars>>)
       /\ WF_vars(BecomeStuck(r) /\ UNCHANGED <<envVars, localVars>>)

FairSpec == Spec /\ Fairness

-----------------------------------------------------------------------------
(* Properties                                                              *)

(* A row reaches FAILED only after its failed callback is on the results   *)
(* queue: a FAILED row leaves query_stuck_launching, so a callback that    *)
(* was not sent by then would never be (scheduler_handler.py, the sweep    *)
(* and the tail of _launch_one).                                           *)
NotifiedBeforeFailed ==
  \A r \in Run : jobs[r].status = FAILED => <<r, "failed">> \in sent

(* However often its dispatch message is redelivered, however stale the    *)
(* index and wherever an invocation dies, a run gets at most one task.     *)
SingleLaunch == \A t, u \in launches : t[1] = u[1] => t = u

(* The scheduler never reports as failed a run whose task is running, not  *)
(* when the sweep looked for a task, and not at any later time: the row it *)
(* failed is never launched afterwards.                                    *)
FailedNeverLive ==
  \A r \in Run : <<r, "failed">> \in sent => ~HasLiveTask(r)

(* gp-api never gets both started and failed from the scheduler, whatever  *)
(* mark_dispatched, the sweep and a killed invocation do in between.       *)
OneVerdict ==
  \A r \in Run : ~ {<<r, "started">>, <<r, "failed">>} \subseteq sent

(* The running tasks never exceed the cap the code reads: the one in SSM,  *)
(* or the fallback when the read fails.                                    *)
LargestCap ==
  IF ConfiguredCap > FallbackCap
  THEN IF ConfiguredCap > 0 THEN ConfiguredCap ELSE 0
  ELSE IF FallbackCap > 0 THEN FallbackCap ELSE 0
CapRespected == Cardinality(live) <= LargestCap

(* A waiting job is claimed in the end, and a claimed one does not stay    *)
(* LAUNCHING: the sweep or the launch itself settles the row, through      *)
(* failed calls, killed invocations and rows that abort the sweep.         *)
NoLeak ==
  \A r \in Run : /\ jobs[r].status = QUEUED ~> jobs[r].status # QUEUED
                 /\ jobs[r].status = LAUNCHING ~> jobs[r].status # LAUNCHING

(* Not so in the code (see the README, Findings).  A job left LAUNCHING    *)
(* must eventually fail and notify gp-api (scheduler_handler.py, comment   *)
(* of _STUCK_LAUNCHING_MS): a row may only be settled as DISPATCHED if a   *)
(* task was started for it or gp-api was told.                             *)
DispatchedWasLaunched ==
  \A r \in Run : jobs[r].status = DISPATCHED =>
                   (\E t \in launches : t[1] = r) \/ <<r, "failed">> \in sent

(* What the two tiers and the arrival order ask for.                       *)
Ahead(s, r) ==
  \/ jobs[s].priority = "HIGH" /\ jobs[r].priority = "DEFAULT"
  \/ jobs[s].priority = jobs[r].priority /\ jobs[s].created < jobs[r].created

(* HIGH before DEFAULT and oldest first within a tier (control plane       *)
(* README): a batch holds no job while one ahead of it stays outside, and  *)
(* a pass claims no job while one ahead of it waits in its batch.          *)
PriorityOrder ==
  [][/\ pc = "query" /\ pc' = "launch" =>
          \A r \in todo', s \in index \ todo' : ~Ahead(s, r)
     /\ \A r \in todo : jobs[r].status = QUEUED /\ jobs'[r].status = LAUNCHING =>
          \A s \in todo' : ~Ahead(s, r)]_vars

-----------------------------------------------------------------------------
(* The inductive invariant behind the properties above                     *)

Untouched(r) ==
  jobs[r].status = QUEUED \/ (jobs[r].status = ABSENT /\ r \in inbox)

(* A row that waits has no history; a row that has been claimed has been   *)
(* claimed once; what was sent agrees with the row and with ECS.           *)
RowInv(r) ==
  /\ Untouched(r) =>
       /\ jobs[r].attempts = 0
       /\ \A t \in launches : t[1] # r
       /\ <<r, "failed">> \notin sent /\ <<r, "started">> \notin sent
  /\ jobs[r].status = LAUNCHING =>
       jobs[r].attempts = 1 /\ <<r, "started">> \notin sent
  /\ jobs[r].status = FAILED => <<r, "failed">> \in sent
  /\ <<r, "started">> \in sent => jobs[r].status \in {DISPATCHED, ABSENT}
  /\ <<r, "failed">> \in sent =>
       ~HasLiveTask(r) /\ <<r, "started">> \notin sent

(* What the invocation knows of the row it works on, call by call.         *)
CurInv ==
  /\ pc = "idle" => cur = None
  /\ pc \notin {"idle", "sweep", "count", "query", "launch"} => cur \in Run
  /\ pc \in {"mint", "run_task"} =>
       /\ jobs[cur].status = LAUNCHING
       /\ \A t \in launches : t[1] # cur
       /\ <<cur, "failed">> \notin sent
  /\ pc \in {"sweep_notify", "sweep_fail", "notify_failed", "fail"} =>
       jobs[cur].status = LAUNCHING /\ ~HasLiveTask(cur)
  /\ pc \in {"sweep_fail", "fail"} => <<cur, "failed">> \in sent
  /\ pc = "mark" => jobs[cur].status = LAUNCHING /\ <<cur, "failed">> \notin sent
  /\ pc = "reconcile" => jobs[cur].status = LAUNCHING
  /\ pc = "notify_started" =>
       jobs[cur].status = DISPATCHED /\ <<cur, "failed">> \notin sent
  /\ pc \in SweepLabels => \A r \in todo : jobs[r].status = LAUNCHING
  /\ pc \in SweepLabels => cur \notin todo

(* The jobs left in the batch, with the one being launched, still fit.     *)
InFlight == IF pc \in {"mint", "run_task"} THEN 1 ELSE 0
CapInv ==
  /\ IsFiniteSet(live)
  /\ Cardinality(live) <= LargestCap
  /\ pc = "query" => slots + Cardinality(live) <= LargestCap
  /\ pc \in LaunchLabels =>
       Cardinality(live) + Cardinality(todo) + InFlight <= LargestCap

AttemptInv == \A t \in launches : t[2] = 1

IInv == TypeOK /\ (\A r \in Run : RowInv(r)) /\ CurInv /\ AttemptInv /\ CapInv
=============================================================================
