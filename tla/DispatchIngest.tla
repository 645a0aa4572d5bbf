--------------------------- MODULE DispatchIngest ---------------------------
(***************************************************************************)
(* The dispatch Lambda (handler of pmf_engine/control_plane/               *)
(* dispatch_handler.py) between the dispatch queue and the job table.  The *)
(* queue is SQS FIFO with the organization as message group, the batch     *)
(* size 1 and partial batch responses: a record that is not reported as    *)
(* failed is deleted, any other is received again once its visibility      *)
(* timeout is over, MaxReceive times before it goes to the dead-letter     *)
(* queue.  The timeout equals the Lambda's own and starts first, so an     *)
(* invocation can overlap the next one of its message.  Run is the runs of *)
(* one organization: groups only meet in the table, under different keys.  *)
(***************************************************************************)
EXTENDS JobStore

CONSTANT
  MaxReceive   \* maxReceiveCount of the redrive policy

ASSUME ReceiveAssumption == MaxReceive \in Nat \ {0}

VARIABLES
  body,      \* what the message of a run says
  message,   \* where the message is
  received,  \* ApproximateReceiveCount
  stage,     \* per invocation: the call it makes next
  told,      \* runs with a failed callback on the results queue
  launched   \* runs that the scheduler has launched

ingestVars == <<message, received, stage, told>>
vars == <<storeVars, body, ingestVars, launched>>

(* anonymous: names no run_id, or is no JSON object.  malformed: another   *)
(* failure of parse_dispatch_message.  bad_params: rejected whatever the   *)
(* manifest says (type, size).  valid: rejected by a strict manifest only  *)
(* (input_schema, scope).                                                  *)
Body == {"anonymous", "malformed", "bad_params", "valid"}

(* What the routing lookup can find when an invocation makes it.           *)
Manifest == {"ok", "strict", "no_schema", "unknown", "malformed", "transient"}

(* Whose fault a failed callback tells of.  After the one for an operator  *)
(* (misconfiguration, an unknown experiment, a manifest that is malformed  *)
(* or has no input_schema) the message is retried all the same; after the  *)
(* one for the client (payload, params, scope) only if it was not sent.    *)
Reason == {"operator", "client"}

Stage == {"none", "start", "route", "put", "delete", "end"} \cup Reason

(* An invocation is named by its message and the receive that caused it.   *)
Invocation == Run \X (1 .. MaxReceive)

TypeOK ==
  /\ StoreTypeOK
  /\ body \in [Run -> Body]
  /\ message \in [Run -> {"visible", "in_flight", "deleted", "dead"}]
  /\ received \in [Run -> 0 .. MaxReceive]
  /\ stage \in [Invocation -> Stage]
  /\ told \in SUBSET Run
  /\ launched \in SUBSET Run

Init ==
  /\ StoreInit
  /\ body \in [Run -> Body]
  /\ message = [r \in Run |-> "visible"]
  /\ received = [r \in Run |-> 0]
  /\ stage = [i \in Invocation |-> "none"]
  /\ told = {} /\ launched = {}

Goto(i, s) == stage' = [stage EXCEPT ![i] = s]

-----------------------------------------------------------------------------
(* The queue                                                               *)

Gone(r) == message[r] \in {"deleted", "dead"}

(* A message waits for the earlier ones.  gp-api's run ids                 *)
(* are in the order of the sends.                                          *)
AtHead(r) == \A s \in Run : s < r => Gone(s)

(* Invocation n + 2 starts two visibility timeouts after n, which has      *)
(* reached its own timeout by then.                                        *)
Receive(r) ==
  /\ message[r] = "visible" /\ AtHead(r)
  /\ received[r] < MaxReceive
  /\ received[r] > 1 => stage[<<r, received[r] - 1>>] = "end"
  /\ message' = [message EXCEPT ![r] = "in_flight"]
  /\ received' = [received EXCEPT ![r] = @ + 1]
  /\ Goto(<<r, received[r] + 1>>, "start")
  /\ UNCHANGED <<storeVars, body, told, launched>>

VisibilityTimeout(r) ==
  /\ message[r] = "in_flight"
  /\ message' = [message EXCEPT ![r] = "visible"]
  /\ UNCHANGED <<storeVars, body, received, stage, told, launched>>

(* Variant for the mutation run: no redrive policy.                        *)
DeadLetterNever(r) == FALSE /\ UNCHANGED vars

DeadLetter(r) ==
  /\ message[r] = "visible" /\ AtHead(r)
  /\ received[r] = MaxReceive
  /\ message' = [message EXCEPT ![r] = "dead"]
  /\ UNCHANGED <<storeVars, body, received, stage, told, launched>>

-----------------------------------------------------------------------------
(* The handler                                                             *)

(* Variant: a body without a run_id is told about like any other.          *)
ParseAnonymous(i) ==
  /\ stage[i] = "start"
  /\ \/ Goto(i, "operator")
     \/ body[i[1]] \in {"anonymous", "malformed"} /\ Goto(i, "client")
     \/ body[i[1]] \in {"bad_params", "valid"} /\ Goto(i, "route")
  /\ UNCHANGED <<storeVars, body, message, received, told, launched>>

(* _missing_critical_config, read when the sandbox started, comes first;   *)
(* then the strict parse.                                                  *)
Parse(i) ==
  /\ stage[i] = "start"
  /\ \/ Goto(i, "operator")
     \/ body[i[1]] = "anonymous" /\ Goto(i, "end")
     \/ body[i[1]] = "malformed" /\ Goto(i, "client")
     \/ body[i[1]] \in {"bad_params", "valid"} /\ Goto(i, "route")
  /\ UNCHANGED <<storeVars, body, message, received, told, launched>>

(* _resolve_routing, then the checks of the params in their order: type    *)
(* and size, the manifest's input_schema, the params against it and scope. *)
Verdict(b, m) ==
  CASE m = "transient" -> "end"
    [] m \in {"unknown", "malformed"} -> "operator"
    [] m \in {"ok", "strict", "no_schema"} /\ b = "bad_params" -> "client"
    [] m = "no_schema" /\ b # "bad_params" -> "operator"
    [] m = "strict" /\ b # "bad_params" -> "client"
    [] OTHER -> "put"

Route(i) ==
  /\ stage[i] = "route"
  /\ \E m \in Manifest : Goto(i, Verdict(body[i[1]], m))
  /\ UNCHANGED <<storeVars, body, message, received, told, launched>>

(* The run the callback names: none, for a body without a run_id.          *)
Tell(i) == told' = told \cup (IF body[i[1]] = "anonymous" THEN {} ELSE {i[1]})
MaybeTell(i) == told' = told \/ Tell(i)

(* Variant: the result of the send is ignored.                             *)
SendErrorCallbackUnchecked(i) ==
  /\ stage[i] \in Reason
  /\ MaybeTell(i)
  /\ Goto(i, IF stage[i] = "client" THEN "delete" ELSE "end")
  /\ UNCHANGED <<storeVars, body, message, received, launched>>

(* send_error_callback, whose send may take effect and be reported as      *)
(* failed.                                                                 *)
SendErrorCallback(i) ==
  /\ stage[i] \in Reason
  /\ \/ Tell(i) /\ stage[i] = "client" /\ Goto(i, "delete")
     \/ MaybeTell(i) /\ Goto(i, "end")
  /\ UNCHANGED <<storeVars, body, message, received, launched>>

(* The priority plays no part here: all messages have the default.         *)
Tier == "DEFAULT"

(* put_queued_job: done, or raised, whether or not it reached the table.   *)
Put(i) ==
  /\ stage[i] = "put"
  /\ \/ PutQueuedJob(i[1], Tier) /\ Goto(i, "delete")
     \/ (UNCHANGED jobs \/ PutQueuedJob(i[1], Tier)) /\ Goto(i, "end")
  /\ UNCHANGED <<index, clock, body, message, received, told, launched>>

(* No item failure is reported.  The event source deletes the message with *)
(* the receipt of this receive, which is no good once the visibility       *)
(* timeout is over; the delete itself may be lost.                         *)
Delete(i) ==
  /\ stage[i] = "delete"
  /\ \/ /\ message[i[1]] = "in_flight" /\ received[i[1]] = i[2]
        /\ message' = [message EXCEPT ![i[1]] = "deleted"]
     \/ UNCHANGED message
  /\ Goto(i, "end")
  /\ UNCHANGED <<storeVars, body, received, told, launched>>

(* The invocation times out, crashes, or raises: the message is retried.   *)
Kill(i) ==
  /\ stage[i] \notin {"none", "end"}
  /\ Goto(i, "end")
  /\ UNCHANGED <<storeVars, body, message, received, told, launched>>

-----------------------------------------------------------------------------
(* The scheduler, which has a module of its own, and the table             *)

Launch(r) ==
  /\ jobs[r].status = QUEUED
  /\ jobs' = SetTerminal(r, DISPATCHED)
  /\ launched' = launched \cup {r}
  /\ UNCHANGED <<index, clock, body, ingestVars>>

(* Rows outlive their dispatch message, as in Scheduler.                   *)
RowExpires(r) ==
  /\ Gone(r) /\ \A n \in 1 .. MaxReceive : stage[<<r, n>>] \in {"none", "end"}
  /\ Expire(r)
  /\ UNCHANGED <<body, ingestVars, launched>>

Tick == ClockTick /\ UNCHANGED <<body, ingestVars, launched>>

Step(i) ==
  \/ Parse(i) \/ Route(i) \/ SendErrorCallback(i) \/ Put(i)
  \/ Delete(i) \/ Kill(i)

Next ==
  \/ \E r \in Run : Receive(r) \/ VisibilityTimeout(r) \/ DeadLetter(r)
  \/ \E i \in Invocation : Step(i)
  \/ \E r \in Run : Launch(r) \/ RowExpires(r)
  \/ Tick

Spec == Init /\ [][Next]_vars

(* The event source keeps polling, visibility timeouts run out, and an     *)
(* invocation ends.  That any call succeeds is not assumed, nor anything   *)
(* of one message or one invocation against the others.                    *)
Fairness ==
  /\ WF_vars(\E r \in Run : Receive(r) \/ VisibilityTimeout(r) \/ DeadLetter(r))
  /\ WF_vars(\E i \in Invocation : Step(i))

FairSpec == Spec /\ Fairness

-----------------------------------------------------------------------------
(* Properties                                                              *)

(* A message leaves the queue for good only when its run has a row, was    *)
(* launched, or the results queue holds a failed callback for it: whatever *)
(* call fails and wherever the invocation dies (send_error_callback: the   *)
(* message must be retried, otherwise the run row is stuck PENDING).  What *)
(* names no run is never deleted and ends in the dead-letter queue.        *)
Settled(r) == jobs[r].status # ABSENT \/ r \in launched \/ r \in told
NothingDropped ==
  \A r \in Run : message[r] = "deleted" => Settled(r) /\ body[r] # "anonymous"

(* What NothingDropped rests on.  An invocation decides to delete only when *)
(* the run is settled, and only when the body named it; and a row only     *)
(* leaves the table after its launch.                                      *)
Deciding == {"route", "put", "client", "delete"}
IngestInv ==
  /\ TypeOK
  /\ NothingDropped
  /\ \A i \in Invocation :
       /\ stage[i] = "delete" => Settled(i[1])
       /\ stage[i] \in Deciding => body[i[1]] # "anonymous"
  /\ \A r \in Run : jobs[r].status \in {ABSENT, QUEUED} \/ r \in launched

(* Runs of one organization that both entered the table keep the order of  *)
(* their dispatches in created_at, which decides who is launched first     *)
(* within a priority.  A late invocation of a message that was deleted     *)
(* since must not stamp its row again (put_queued_job's condition).  A run *)
(* whose message died or that was told failed has lost its turn.           *)
GroupOrder ==
  \A a, b \in Run :
    /\ a < b /\ message[a] # "dead" /\ a \notin told
    /\ jobs[a].status # ABSENT /\ jobs[b].status # ABSENT
    => jobs[a].created <= jobs[b].created

(* What GroupOrder rests on.  A run is received after the earlier ones are *)
(* gone, its row is put after it is received and stamped with the clock,   *)
(* and no invocation is left to put it again once the row expired.         *)
OrderInv ==
  /\ GroupOrder
  /\ \A a, b \in Run : a < b /\ received[b] > 0 => Gone(a)
  /\ \A r \in Run : jobs[r].status # ABSENT => received[r] > 0 /\ jobs[r].created <= clock
  /\ \A i \in Invocation : stage[i] # "none" => received[i[1]] > 0
  /\ \A r \in Run :
       jobs[r].status = ABSENT /\ r \in launched
       => Gone(r) /\ \A n \in 1 .. MaxReceive : stage[<<r, n>>] \in {"none", "end"}

(* A row that the scheduler took is never QUEUED again by a redelivery.    *)
NeverRequeued ==
  [][\A r \in Run : r \in launched => jobs'[r].status # QUEUED]_vars

(* Every dispatch message leaves the queue: a poisoned one cannot hold the *)
(* later runs of its organization for ever.                                *)
EveryDispatchLeaves == \A r \in Run : <>Gone(r)
=============================================================================
