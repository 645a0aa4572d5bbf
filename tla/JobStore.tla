------------------------------ MODULE JobStore ------------------------------
(***************************************************************************)
(* The agent-job-queue table of pmf_engine/control_plane/job_store.py.     *)
(* jobs[r] is the item of run r (status ABSENT when the table holds none)  *)
(* and index the sparse GSI queue-index, which DynamoDB brings up to date  *)
(* some time after the item.  Each operator below is one JobStore method;  *)
(* the modules of the components that call it decide what else changes in  *)
(* the same step, and whether the answer reaches the caller.               *)
(***************************************************************************)
EXTENDS Integers, FiniteSets

CONSTANTS
  Run,       \* run ids; numbers, for the order of the ids as strings
  MaxClock   \* bound on the millisecond clock that stamps created_at

ASSUME RunAssumption == Run \subseteq Nat /\ IsFiniteSet(Run)
ASSUME ClockAssumption == MaxClock \in Nat

VARIABLES
  jobs,      \* the table
  index,     \* runs that have an entry in queue-index
  clock      \* time.time() in ms, as far as it orders jobs

storeVars == <<jobs, index, clock>>

ABSENT == "ABSENT"
QUEUED == "QUEUED"
LAUNCHING == "LAUNCHING"
DISPATCHED == "DISPATCHED"
FAILED == "FAILED"

Priority == {"HIGH", "DEFAULT"}
PriorityRank(p) == IF p = "HIGH" THEN 0 ELSE 1

\* stuck: claimed_at is older than the sweep's cutoff (_STUCK_LAUNCHING_MS).
Job == [status : {ABSENT, QUEUED, LAUNCHING, DISPATCHED, FAILED},
        priority : Priority, created : Nat, attempts : Nat, stuck : BOOLEAN]

NoJob == [status |-> ABSENT, priority |-> "DEFAULT", created |-> 0,
          attempts |-> 0, stuck |-> FALSE]

StoreTypeOK ==
  /\ jobs \in [Run -> Job]
  /\ index \in SUBSET Run
  /\ clock \in Nat

StoreInit ==
  /\ jobs = [r \in Run |-> NoJob]
  /\ index = {}
  /\ clock = 0

-----------------------------------------------------------------------------
(* Variant for the mutation runs: the put has no condition.                *)
PutQueuedJobOverwrites(r, p) ==
  jobs' = [jobs EXCEPT ![r] = [status |-> QUEUED, priority |-> p, created |-> clock,
                               attempts |-> 0, stuck |-> FALSE]]

(* put_queued_job: conditional on attribute_not_exists(run_id); a failed   *)
(* condition is swallowed, so a redelivered message leaves the item alone. *)
PutQueuedJob(r, p) ==
  jobs' = IF jobs[r].status = ABSENT
          THEN [jobs EXCEPT ![r] = [status |-> QUEUED, priority |-> p,
                                    created |-> clock, attempts |-> 0,
                                    stuck |-> FALSE]]
          ELSE jobs

(* Variant: the key starts with created_at.                                *)
SortsBeforeByAge(a, b) ==
  \/ jobs[a].created < jobs[b].created
  \/ jobs[a].created = jobs[b].created /\ a < b

(* _queue_sort: "{rank}#{created_at}#{run_id}", compared as one key.       *)
SortsBefore(a, b) ==
  LET ra == PriorityRank(jobs[a].priority)
      rb == PriorityRank(jobs[b].priority)
  IN \/ ra < rb
     \/ ra = rb /\ jobs[a].created < jobs[b].created
     \/ ra = rb /\ jobs[a].created = jobs[b].created /\ a < b

(* Variant: no Limit.                                                      *)
IsQueryResultUnlimited(batch, limit) == batch = index

(* query_queued(limit): the first entries of the index, in key order.      *)
IsQueryResult(batch, limit) ==
  /\ batch \subseteq index
  /\ Cardinality(batch) <= limit
  /\ batch = index \/ Cardinality(batch) = limit
  /\ \A a \in batch, b \in index \ batch : SortsBefore(a, b)

(* The table after an UpdateItem that leaves the other attributes alone.   *)
ItemWith(r, status, attempts, stuck) ==
  [jobs EXCEPT ![r] = [status |-> status, attempts |-> attempts, stuck |-> stuck,
                       priority |-> jobs[r].priority,
                       created |-> jobs[r].created]]

(* Variant: a claim takes the row whatever its status.                     *)
ClaimableAlways(r) == TRUE

(* claim: conditional on QUEUED; attempts is incremented and claimed_at is *)
(* now.                                                                    *)
Claimable(r) == jobs[r].status = QUEUED
Claimed(r) ==
  ItemWith(r, LAUNCHING, jobs[r].attempts + 1, FALSE)

(* Variant: the item is replaced, not updated.                             *)
SetTerminalPut(r, s) == [jobs EXCEPT ![r] = [status |-> s]]

(* _set_terminal: unconditional.                                           *)
SetTerminal(r, s) == ItemWith(r, s, jobs[r].attempts, jobs[r].stuck)

(* Variant: the comparison with the cutoff is reversed.                    *)
RecentLaunching == {r \in Run : jobs[r].status = LAUNCHING /\ ~jobs[r].stuck}

(* query_stuck_launching: the full paged scan.                             *)
StuckLaunching == {r \in Run : jobs[r].status = LAUNCHING /\ jobs[r].stuck}

-----------------------------------------------------------------------------
(* What DynamoDB and time do on their own.                                 *)

(* The index catches up with one item: gsi_pk is present iff QUEUED.       *)
IndexCatchUp(r) ==
  /\ index' = IF jobs[r].status = QUEUED THEN index \cup {r} ELSE index \ {r}
  /\ index' # index
  /\ UNCHANGED <<jobs, clock>>

ClockTick ==
  /\ clock < MaxClock
  /\ clock' = clock + 1
  /\ UNCHANGED <<jobs, index>>

(* Ten minutes pass after a claim.                                         *)
BecomeStuck(r) ==
  /\ jobs[r].status = LAUNCHING
  /\ ~jobs[r].stuck
  /\ jobs' = ItemWith(r, LAUNCHING, jobs[r].attempts, TRUE)
  /\ UNCHANGED <<index, clock>>

(* The table's TTL removes a DISPATCHED or FAILED item a day after it was  *)
(* marked; the index has long caught up by then.                           *)
Expire(r) ==
  /\ jobs[r].status \in {DISPATCHED, FAILED}
  /\ r \notin index
  /\ jobs' = [jobs EXCEPT ![r] = NoJob]
  /\ UNCHANGED <<index, clock>>
=============================================================================
