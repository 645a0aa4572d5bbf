----------------------------- MODULE ResultsQueue -----------------------------
(***************************************************************************)
(* gp-api's results queue, an SQS FIFO queue, for the messages of one run, *)
(* and what gp-api makes of them.  The broker (broker/callback_sender.py)  *)
(* uses the run id as message group, the control plane Lambdas the group   *)
(* agentExperiments.  Neither the queue nor gp-api is part of the          *)
(* repository: they are modelled from how its code uses them.              *)
(***************************************************************************)
EXTENDS Naturals, Sequences

VARIABLES
  queue,     \* per message group, the messages not yet deleted, oldest first
  accepted,  \* all messages the queue ever accepted
  successFirst,  \* success was accepted, before any other that ends the run
  row        \* gp-api's ExperimentRun.status

queueVars == <<queue, accepted, successFirst, row>>

Group == {"run", "agentExperiments"}

(* Messages are named by what their MessageDeduplicationId tells apart.    *)
Message == {"started", "success", "failed", "contract_violation",
            "task_stopped", "direct"}

NoCall == "none"
Ends == Message \ {"started"}

TerminalRow == {"COMPLETED", "FAILED"}
Row == {"QUEUED", "RUNNING"} \cup TerminalRow

QueueTypeOK ==
  /\ queue \in [Group -> Seq(Message)]
  /\ accepted \in SUBSET Message
  /\ successFirst \in BOOLEAN
  /\ row \in Row

(* Nothing is delivered that was not sent.                                 *)
QueuedAccepted ==
  \A g \in Group : \A n \in 1 .. Len(queue[g]) : queue[g][n] \in accepted

QueueInit ==
  /\ queue = [g \in Group |-> <<>>]
  /\ accepted = {}
  /\ successFirst = FALSE
  /\ row = "QUEUED"

(* send_message.  A duplicate is accepted and dropped; one that comes      *)
(* after the five minutes of deduplication only repeats a status that      *)
(* gp-api has seen, or will see first, so the window is not modelled.      *)
Accept(g, m) ==
  /\ accepted' = accepted \cup {m}
  /\ queue' = IF m \in accepted THEN queue
              ELSE [queue EXCEPT ![g] = Append(@, m)]
  /\ successFirst' = (successFirst \/ (m = "success" /\ accepted \cap Ends = {}))

Unsent == UNCHANGED <<queue, accepted, successFirst>>

(* Variant for the mutation runs: no guard for rows that are terminal.     *)
RowAfterUnguarded(m) ==
  CASE m = "started" -> IF row = "QUEUED" THEN "RUNNING" ELSE row
    [] m = "success" -> "COMPLETED"
    [] m = "direct" -> row
    [] OTHER -> "FAILED"

(* gp-api's handler (plan of the priority queue, Task 4): a terminal row   *)
(* stays; started moves QUEUED to RUNNING.  The runner's own message is    *)
(* not the envelope gp-api parses: it names no data.runId.                 *)
RowAfter(m) ==
  IF row \in TerminalRow THEN row
  ELSE CASE m = "started" -> "RUNNING"
         [] m = "success" -> "COMPLETED"
         [] m = "direct" -> row
         [] OTHER -> "FAILED"

(* gp-api handles the oldest message of a group; it is deleted, or it will *)
(* be delivered again, and holds the group until then.                     *)
Consume(g) ==
  /\ queue[g] # <<>>
  /\ row' = RowAfter(Head(queue[g]))
  /\ queue' \in {queue, [queue EXCEPT ![g] = Tail(@)]}
  /\ UNCHANGED <<accepted, successFirst>>
=============================================================================
