--------------------------- MODULE EmbeddingBatches ---------------------------
(***************************************************************************)
(* GeminiEmbeddingClient (shared/llm_gemini.py): one create_embeddings of  *)
(* several batches that run beside each other under a semaphore, retry on  *)
(* their own, and share the delay that follows the API's 429 answers.      *)
(***************************************************************************)
EXTENDS Integers, FiniteSets

CONSTANTS
  LastBatch,       \* batches are 0 .. LastBatch
  MaxConcurrentBatches,  \* max_concurrent_batches
  MaxAttempts,     \* max_retries
  RateDelay, DelayCap   \* rate_limit_delay and the cap of 30 s, in fifths of a second

ASSUME BatchAssumption ==
  /\ {LastBatch, RateDelay, DelayCap} \subseteq Nat
  /\ {MaxConcurrentBatches, MaxAttempts} \subseteq Nat \ {0}
  /\ RateDelay <= DelayCap

VARIABLES
  batches,      \* the batches: where they are, and failed attempts
  batchSlots,   \* free permits
  delay,        \* current_delay
  limited,      \* consecutive_429s > 0
  embedded,     \* embeddings the API has created, by batch
  billed,       \* total_embeddings_created, in batches
  answer        \* "none", "array" or "raised"

batchVars == <<batches, batchSlots, delay, limited, embedded, billed, answer>>

Batch == 0 .. LastBatch

BatchTypeOK ==
  /\ batches \in [Batch -> [at : {"wait", "send", "backoff", "done", "failed", "cancelled"},
                            failures : 0 .. MaxAttempts]]
  /\ batchSlots \in 0 .. MaxConcurrentBatches
  /\ delay \in Nat /\ limited \in BOOLEAN
  /\ embedded \in SUBSET Batch /\ billed \in SUBSET Batch
  /\ answer \in {"none", "array", "raised"}

BatchInit ==
  /\ batches = [b \in Batch |-> [at |-> "wait", failures |-> 0]]
  /\ batchSlots = MaxConcurrentBatches
  /\ delay = RateDelay /\ limited = FALSE
  /\ embedded = {} /\ billed = {} /\ answer = "none"

Running == answer = "none"
Put(b, a) == batches' = [batches EXCEPT ![b].at = a]
pace == <<delay, limited>>

(* The permit; the stagger and the delay of the pace follow inside it.     *)
Enter(b) ==
  /\ Running /\ batches[b].at = "wait" /\ batchSlots > 0
  /\ batchSlots' = batchSlots - 1 /\ Put(b, "send")
  /\ UNCHANGED <<pace, embedded, billed, answer>>

RetryBatch(b) ==
  /\ Running /\ batches[b].at = "backoff" /\ Put(b, "send")
  /\ UNCHANGED <<batchSlots, pace, embedded, billed, answer>>

(* Variant for the mutation run: no cap.                                   *)
SlowerUncapped(d) == 2 * d

Faster(d) == IF (4 * d) \div 5 < RateDelay THEN RateDelay ELSE (4 * d) \div 5
Slower(d) == IF 2 * d > DelayCap THEN DelayCap ELSE 2 * d

(* Every text of the batch was embedded.                                   *)
Succeed(b) ==
  /\ Running /\ batches[b].at = "send"
  /\ Put(b, "done") /\ batchSlots' = batchSlots + 1
  /\ embedded' = embedded \cup {b}
  /\ limited' = FALSE
  /\ delay' = IF limited THEN Faster(delay) ELSE delay
  /\ UNCHANGED <<billed, answer>>

(* Variant: the permit is given back after every attempt.                  *)
FailReleases(b) ==
  LET last == batches[b].failures + 1 = MaxAttempts IN
  /\ Running /\ batches[b].at = "send"
  /\ batches' = [batches EXCEPT ![b] = [at |-> IF last THEN "failed" ELSE "backoff",
                                        failures |-> @.failures + 1]]
  /\ batchSlots' = batchSlots + 1
  /\ \/ limited' = TRUE /\ delay' = Slower(delay)
     \/ UNCHANGED pace
  /\ UNCHANGED <<embedded, billed, answer>>

(* A text of the batch failed: with a 429, which slows every batch down,   *)
(* or otherwise.  The batch begins again, or has failed for good.          *)
Fail(b) ==
  LET last == batches[b].failures + 1 = MaxAttempts IN
  /\ Running /\ batches[b].at = "send"
  /\ batches' = [batches EXCEPT ![b] = [at |-> IF last THEN "failed" ELSE "backoff",
                                        failures |-> @.failures + 1]]
  /\ batchSlots' = IF last THEN batchSlots + 1 ELSE batchSlots
  /\ \/ limited' = TRUE /\ delay' = Slower(delay)
     \/ UNCHANGED pace
  /\ UNCHANGED <<embedded, billed, answer>>

(* Variant: what came back is answered although a batch failed.            *)
GatherSome ==
  /\ Running /\ \A b \in Batch : batches[b].at \in {"done", "failed"}
  /\ answer' = "array" /\ billed' = embedded
  /\ UNCHANGED <<batches, batchSlots, pace, embedded>>

(* Variant: the failure of a batch is not passed on.                       *)
GatherDone ==
  /\ Running /\ \A b \in Batch : batches[b].at = "done"
  /\ answer' = "array" /\ billed' = Batch
  /\ UNCHANGED <<batches, batchSlots, pace, embedded>>

(* gather: all of them, in the order of the texts, and only then the cost; *)
(* or the first failure, after which asyncio.run cancels the others.       *)
Gather ==
  /\ Running
  /\ \/ /\ \A b \in Batch : batches[b].at = "done"
        /\ answer' = "array" /\ billed' = Batch
        /\ UNCHANGED <<batches, batchSlots>>
     \/ /\ \E b \in Batch : batches[b].at = "failed"
        /\ answer' = "raised" /\ batchSlots' = MaxConcurrentBatches
        /\ batches' = [b \in Batch |-> IF batches[b].at \in {"done", "failed"} THEN batches[b]
                                       ELSE [batches[b] EXCEPT !.at = "cancelled"]]
        /\ UNCHANGED billed
  /\ UNCHANGED <<pace, embedded>>

BatchNext == Gather \/ \E b \in Batch : Enter(b) \/ RetryBatch(b) \/ Succeed(b) \/ Fail(b)

(* Every batch runs on the event loop, and its requests have a timeout.    *)
BatchFairness == WF_batchVars(BatchNext)

BatchSpec == BatchInit /\ [][BatchNext]_batchVars /\ BatchFairness

-----------------------------------------------------------------------------
(* Properties                                                              *)

(* Batches that slow down and speed up the shared delay in any order keep  *)
(* it between the configured rate and the cap.                             *)
DelayInRange == delay \in RateDelay .. DelayCap

(* No array has a hole: it is answered only when every batch was embedded, *)
(* and what is answered is what is charged.                                *)
ArrayWhole == answer = "array" => embedded = Batch /\ billed = Batch

(* The call ends: a batch in its pauses, which keeps its permit, and a     *)
(* batch that failed for good do not keep the others from running.         *)
EmbeddingEnds ==
  (\E b \in Batch : batches[b].at # "wait") ~> answer # "none"

(* Batches share one pace and one answer.                                  *)
BatchInv == BatchTypeOK /\ DelayInRange /\ ArrayWhole
=============================================================================
