---------------------------- MODULE EndingsProofs ----------------------------
(***************************************************************************)
(* Theorems about the programs that have to end, for every value of the    *)
(* constants: the embedding client, the record matchers, the QA gate, the  *)
(* plan sessions and the campaign plan Lambda, one after the other, and of *)
(* the instance that composes them.  Those of the browser are in           *)
(* BrowserProofs.                                                          *)
(***************************************************************************)
EXTENDS MCEndings, BrowserProofs

-----------------------------------------------------------------------------
(* The embedding client                                                    *)

BatchState == [at : {"wait", "send", "backoff", "done", "failed", "cancelled"},
               failures : 0 .. MaxAttempts]

(* The batches that hold a permit.                                         *)
Holding == {b \in Batch : batches[b].at \in {"send", "backoff"}}

(* Permits are neither lost nor invented; a batch that may still be tried  *)
(* has an attempt left, and what is done was embedded.                     *)
BatchIInv ==
  /\ BatchInv
  /\ Running => batchSlots + Cardinality(Holding) = MaxConcurrentBatches
  /\ \A b \in Batch :
       /\ batches[b].at \in {"wait", "send", "backoff"} => batches[b].failures < MaxAttempts
       /\ batches[b].at = "done" => b \in embedded

LEMMA BatchTypes ==
  BatchTypeOK => /\ batches \in [Batch -> BatchState]
                 /\ batchSlots \in Nat /\ batchSlots <= MaxConcurrentBatches
                 /\ MaxConcurrentBatches \in Nat /\ MaxAttempts \in Nat
BY BatchAssumption DEF BatchTypeOK, BatchState

LEMMA HoldingFinite ==
  /\ IsFiniteSet(Holding) /\ IsFiniteSet(Holding') /\ Cardinality(Holding) \in Nat
  /\ \A b \in Holding : Cardinality(Holding \ {b}) = Cardinality(Holding) - 1
                        /\ Cardinality(Holding) > 0
  /\ \A b \in Batch : b \notin Holding => Cardinality(Holding \cup {b}) = Cardinality(Holding) + 1
<1>1. IsFiniteSet(Batch)
  BY BatchAssumption, FS_Interval DEF Batch
<1>2. IsFiniteSet(Holding) /\ IsFiniteSet(Holding')
  BY <1>1, FS_Subset DEF Holding
<1>3. Cardinality(Holding) \in Nat
  BY <1>2, FS_CardinalityType
<1>4. ASSUME NEW b \in Holding
      PROVE Cardinality(Holding \ {b}) = Cardinality(Holding) - 1 /\ Cardinality(Holding) > 0
  <2>1. Cardinality(Holding \ {b}) = Cardinality(Holding) - 1
    BY <1>2, <1>4, FS_RemoveElement
  <2>2. Cardinality(Holding \ {b}) \in Nat
    BY <1>2, FS_RemoveElement, FS_CardinalityType
  <2>3. QED
    BY <1>3, <2>1, <2>2
<1>5. ASSUME NEW b \in Batch, b \notin Holding
      PROVE Cardinality(Holding \cup {b}) = Cardinality(Holding) + 1
  BY <1>2, <1>5, FS_AddElement
<1>6. QED
  BY <1>2, <1>3, <1>4, <1>5

(* The pace stays in its range when it is slowed down or speeded up.       *)
LEMMA PaceRange ==
  ASSUME NEW d \in RateDelay .. DelayCap
  PROVE  Slower(d) \in RateDelay .. DelayCap /\ Faster(d) \in RateDelay .. DelayCap
<1>1. d \in Nat /\ RateDelay \in Nat /\ DelayCap \in Nat /\ RateDelay <= d /\ d <= DelayCap
      /\ RateDelay <= DelayCap
  BY BatchAssumption
<1>2. Slower(d) \in RateDelay .. DelayCap
  BY <1>1 DEF Slower
<1>3. PICK q \in Int : q = (4 * d) \div 5 /\ q <= d
  BY <1>1
<1>4. Faster(d) \in RateDelay .. DelayCap
  BY <1>1, <1>3 DEF Faster
<1>5. QED
  BY <1>2, <1>4

LEMMA BatchStep == BatchIInv /\ [BatchNext]_batchVars => BatchIInv'
<1> SUFFICES ASSUME BatchIInv, [BatchNext]_batchVars PROVE BatchIInv'
  OBVIOUS
<1> USE DEF pace, Running
<1>0. /\ BatchTypeOK /\ DelayInRange /\ ArrayWhole
      /\ batches \in [Batch -> BatchState] /\ batchSlots \in Nat
      /\ batchSlots <= MaxConcurrentBatches
      /\ MaxConcurrentBatches \in Nat /\ MaxAttempts \in Nat
      /\ Running => batchSlots + Cardinality(Holding) = MaxConcurrentBatches
      /\ \A b \in Batch :
           /\ batches[b].at \in {"wait", "send", "backoff"} => batches[b].failures < MaxAttempts
           /\ batches[b].at = "done" => b \in embedded
      /\ delay \in RateDelay .. DelayCap /\ RateDelay .. DelayCap \subseteq Nat
      /\ embedded \subseteq Batch /\ billed \subseteq Batch /\ limited \in BOOLEAN
      /\ answer \in {"none", "array", "raised"}
      /\ Cardinality(Holding) \in Nat
  BY BatchTypes, BatchAssumption, HoldingFinite
     DEF BatchIInv, BatchInv, BatchTypeOK, DelayInRange
<1> DEFINE T == /\ batches \in [Batch -> BatchState] /\ batchSlots \in 0 .. MaxConcurrentBatches
                /\ delay \in RateDelay .. DelayCap
                /\ embedded \subseteq Batch /\ billed \subseteq Batch /\ limited \in BOOLEAN
                /\ answer \in {"none", "array", "raised"}
                /\ answer = "array" => embedded = Batch /\ billed = Batch
                /\ Running => batchSlots + Cardinality(Holding) = MaxConcurrentBatches
                /\ \A b \in Batch :
                     /\ batches[b].at \in {"wait", "send", "backoff"} => batches[b].failures < MaxAttempts
                     /\ batches[b].at = "done" => b \in embedded
<1>a. T' => BatchIInv'
  BY <1>0 DEF BatchIInv, BatchInv, BatchTypeOK, DelayInRange, ArrayWhole, BatchState
<1>1. ASSUME NEW b \in Batch, Enter(b) PROVE T'
  <2>1. /\ batches' \in [Batch -> BatchState] /\ batches[b].at = "wait"
        /\ batches'[b].at = "send" /\ batches'[b].failures = batches[b].failures
        /\ \A c \in Batch : c # b => batches'[c] = batches[c]
    BY <1>0, <1>1 DEF Enter, Put, BatchState
  <2>2. b \notin Holding /\ Holding' = Holding \cup {b}
    BY <2>1 DEF Holding
  <2>3. Cardinality(Holding') = Cardinality(Holding) + 1
    BY <2>2, HoldingFinite
  <2>4. /\ Running /\ batchSlots > 0 /\ batchSlots' = batchSlots - 1
        /\ UNCHANGED <<delay, limited, embedded, billed, answer>>
    BY <1>1 DEF Enter
  <2>5. batchSlots' \in 0 .. MaxConcurrentBatches
        /\ batchSlots' + Cardinality(Holding') = MaxConcurrentBatches
    BY <1>0, <2>3, <2>4
  <2>6. QED
    BY <1>0, <2>1, <2>4, <2>5
<1>2. ASSUME NEW b \in Batch, RetryBatch(b) PROVE T'
  <2>1. /\ batches' \in [Batch -> BatchState] /\ batches[b].at = "backoff"
        /\ batches'[b].at = "send" /\ batches'[b].failures = batches[b].failures
        /\ \A c \in Batch : c # b => batches'[c] = batches[c]
    BY <1>0, <1>2 DEF RetryBatch, Put, BatchState
  <2>2. Holding' = Holding
    BY <2>1 DEF Holding
  <2>3. Cardinality(Holding') = Cardinality(Holding)
    BY <2>2
  <2>4. UNCHANGED <<batchSlots, delay, limited, embedded, billed, answer>> /\ Running
    BY <1>2 DEF RetryBatch
  <2>5. QED
    BY <1>0, <2>1, <2>3, <2>4
<1>3. ASSUME NEW b \in Batch, Succeed(b) PROVE T'
  <2>1. /\ batches' \in [Batch -> BatchState] /\ batches[b].at = "send"
        /\ batches'[b].at = "done" /\ batches'[b].failures = batches[b].failures
        /\ \A c \in Batch : c # b => batches'[c] = batches[c]
    BY <1>0, <1>3 DEF Succeed, Put, BatchState
  <2>2. b \in Holding /\ Holding' = Holding \ {b}
    BY <2>1 DEF Holding
  <2>3. Cardinality(Holding') = Cardinality(Holding) - 1 /\ Cardinality(Holding) > 0
    BY <2>2, HoldingFinite
  <2>4. /\ Running /\ batchSlots' = batchSlots + 1 /\ embedded' = embedded \cup {b}
        /\ limited' = FALSE /\ delay' \in {Faster(delay), delay}
        /\ UNCHANGED <<billed, answer>>
    BY <1>3 DEF Succeed
  <2>5. batchSlots' \in 0 .. MaxConcurrentBatches
        /\ batchSlots' + Cardinality(Holding') = MaxConcurrentBatches
    BY <1>0, <2>3, <2>4
  <2>6. delay' \in RateDelay .. DelayCap
    BY <1>0, <2>4, PaceRange
  <2>7. QED
    BY <1>0, <2>1, <2>4, <2>5, <2>6
<1>4. ASSUME NEW b \in Batch, Fail(b) PROVE T'
  <2>a. /\ Running /\ batches[b].at = "send" /\ UNCHANGED <<embedded, billed, answer>>
        /\ (limited' = TRUE /\ delay' = Slower(delay)) \/ UNCHANGED <<delay, limited>>
    BY <1>4 DEF Fail
  <2>b. batches[b].failures < MaxAttempts /\ batches[b].failures \in Nat
    BY <1>0, <2>a DEF BatchState
  <2>0. /\ Running /\ batches[b].at = "send" /\ batches[b].failures < MaxAttempts
        /\ batches[b].failures \in Nat
        /\ UNCHANGED <<embedded, billed, answer>>
        /\ delay' \in {Slower(delay), delay} /\ limited' \in BOOLEAN
    BY <1>0, <2>a, <2>b
  <2>1. delay' \in RateDelay .. DelayCap
    BY <1>0, <2>0, PaceRange
  <2>2. CASE batches[b].failures + 1 = MaxAttempts
    <3>1. /\ batches' = [batches EXCEPT ![b] = [at |-> "failed", failures |-> @.failures + 1]]
          /\ batchSlots' = batchSlots + 1
      BY <1>4, <2>2 DEF Fail
    <3>2. /\ batches' \in [Batch -> BatchState]
          /\ batches'[b].at = "failed"
          /\ \A c \in Batch : c # b => batches'[c] = batches[c]
      BY <1>0, <2>0, <3>1 DEF BatchState
    <3>3. b \in Holding /\ Holding' = Holding \ {b}
      BY <2>0, <3>2 DEF Holding
    <3>4. Cardinality(Holding') = Cardinality(Holding) - 1 /\ Cardinality(Holding) > 0
      BY <3>3, HoldingFinite
    <3>5. batchSlots' \in 0 .. MaxConcurrentBatches
          /\ batchSlots' + Cardinality(Holding') = MaxConcurrentBatches
      BY <1>0, <2>0, <3>1, <3>4
    <3>6. QED
      BY <1>0, <2>0, <2>1, <3>2, <3>5
  <2>3. CASE batches[b].failures + 1 # MaxAttempts
    <3>1. /\ batches' = [batches EXCEPT ![b] = [at |-> "backoff", failures |-> @.failures + 1]]
          /\ batchSlots' = batchSlots
      BY <1>4, <2>3 DEF Fail
    <3>2. batches[b].failures + 1 < MaxAttempts /\ batches[b].failures + 1 \in 0 .. MaxAttempts
      BY <1>0, <2>0, <2>3
    <3>3. /\ batches' \in [Batch -> BatchState]
          /\ batches'[b].at = "backoff" /\ batches'[b].failures < MaxAttempts
          /\ \A c \in Batch : c # b => batches'[c] = batches[c]
      BY <1>0, <3>1, <3>2 DEF BatchState
    <3>4. Holding' = Holding
      BY <2>0, <3>3 DEF Holding
    <3>5. Cardinality(Holding') = Cardinality(Holding)
      BY <3>4
    <3>6. QED
      BY <1>0, <2>0, <2>1, <3>1, <3>3, <3>5
  <2>4. QED
    BY <2>2, <2>3
<1>5. CASE Gather
  <2>1. UNCHANGED <<delay, limited, embedded>>
    BY <1>5 DEF Gather
  <2>2. CASE /\ \A b \in Batch : batches[b].at = "done"
             /\ answer' = "array" /\ billed' = Batch /\ UNCHANGED <<batches, batchSlots>>
    <3>1. embedded = Batch
      BY <1>0, <2>2
    <3>2. T'
      BY <1>0, <2>1, <2>2, <3>1
    <3>3. QED
      BY <1>a, <3>2
  <2>3. CASE /\ answer' = "raised" /\ batchSlots' = MaxConcurrentBatches /\ UNCHANGED billed
             /\ batches' = [b \in Batch |-> IF batches[b].at \in {"done", "failed"} THEN batches[b]
                                            ELSE [batches[b] EXCEPT !.at = "cancelled"]]
    <3>1. \A b \in Batch : [batches[b] EXCEPT !.at = "cancelled"] \in BatchState
      BY <1>0 DEF BatchState
    <3>2. batches' \in [Batch -> BatchState]
          /\ \A b \in Batch : batches'[b] = batches[b] \/ batches'[b].at = "cancelled"
      BY <1>0, <2>3, <3>1 DEF BatchState
    <3>3. T'
      BY <1>0, <2>1, <2>3, <3>2
    <3>4. QED
      BY <1>a, <3>3
  <2>4. QED
    BY <1>5, <2>2, <2>3 DEF Gather
<1>6. CASE UNCHANGED batchVars
  <2>1. UNCHANGED <<batches, batchSlots, delay, limited, embedded, billed, answer>>
    BY <1>6 DEF batchVars
  <2>2. Holding' = Holding
    BY <2>1 DEF Holding
  <2>3. Cardinality(Holding') = Cardinality(Holding)
    BY <2>2
  <2>4. T'
    BY <1>0, <2>1, <2>3 DEF ArrayWhole
  <2>5. QED
    BY <1>a, <2>4
<1>7. QED
  BY <1>a, <1>1, <1>2, <1>3, <1>4, <1>5, <1>6 DEF BatchNext

LEMMA BatchStart == BatchInit => BatchIInv
<1> SUFFICES ASSUME BatchInit PROVE BatchIInv
  OBVIOUS
<1>1. Holding = {} /\ Cardinality(Holding) = 0
  BY FS_EmptySet DEF BatchInit, Holding
<1>2. MaxConcurrentBatches \in Nat \ {0} /\ MaxAttempts \in Nat \ {0}
      /\ RateDelay \in Nat /\ DelayCap \in Nat /\ RateDelay <= DelayCap
  BY BatchAssumption
<1>3. \A b \in Batch : batches[b] = [at |-> "wait", failures |-> 0]
  BY DEF BatchInit
<1>4. batches \in [Batch -> BatchState]
  BY <1>2 DEF BatchInit, BatchState
<1>5. DelayInRange /\ ArrayWhole
  BY <1>2 DEF BatchInit, DelayInRange, ArrayWhole
<1>8. /\ batchSlots = MaxConcurrentBatches /\ delay = RateDelay /\ limited = FALSE
      /\ embedded = {} /\ billed = {} /\ answer = "none"
  BY DEF BatchInit
<1>9. BatchTypeOK
  <2>1. batchSlots \in 0 .. MaxConcurrentBatches /\ delay \in Nat
    BY <1>2, <1>8
  <2>2. embedded \in SUBSET Batch /\ billed \in SUBSET Batch
    BY <1>8
  <2>3. limited \in BOOLEAN /\ answer \in {"none", "array", "raised"}
    BY <1>8
  <2>4. QED
    BY <1>4, <2>1, <2>2, <2>3 DEF BatchTypeOK, BatchState
<1>6. batchSlots + Cardinality(Holding) = MaxConcurrentBatches
  BY <1>1, <1>2 DEF BatchInit
<1>7. QED
  BY <1>2, <1>3, <1>5, <1>6, <1>9 DEF BatchIInv, BatchInv

(* The array create_embeddings answers has every batch, what is charged is *)
(* what is answered, and the shared delay stays between the configured rate*)
(* and its cap, for any number of batches, permits and attempts.           *)
THEOREM ArrayIsWhole == BatchSpec => []BatchInv
<1>1. BatchIInv => BatchInv
  BY DEF BatchIInv
<1>2. QED
  BY <1>1, BatchStart, BatchStep, PTL DEF BatchSpec

-----------------------------------------------------------------------------
(* The record matchers                                                     *)

RecordState == [at : {"new", "llm", "done"}, found : 0 .. MaxFound]
RowState == [kind : {"none", "filtered", "match", "no_match", "timeout", "error", "raised"},
             index : 0 .. MaxFound, confidence : 0 .. 100]

In(x, s) == \E i \in 1 .. Len(s) : s[i] = x

(* Where a record is agrees with its call and with its row.  busy, lined   *)
(* and saved say whether a thread has its call, whether the call is in     *)
(* line, and whether the results are saved.                                *)
RecordInv(c, row, busy, lined, saved) ==
  /\ c.at = "new" => row.kind = "none" /\ ~busy /\ ~lined
  /\ c.at = "llm" => row.kind = "none" /\ (busy <=> ~lined) /\ (matcher = "sheets" => c.found >= 1)
  /\ c.at = "done" => row.kind # "none" /\ ~lined /\ (matcher = "ddhq" => row.kind # "raised")
  /\ row.kind = "match" => row.index \in 1 .. c.found
  /\ saved => c.at = "done"

MatcherIInv ==
  /\ MatcherTypeOK /\ Distinct(callLine)
  /\ IsFiniteSet(threads) /\ Cardinality(threads) <= Workers
  /\ \A r \in Record :
       RecordInv(coroutines[r], rows[r], r \in threads, In(r, callLine), output # "none")

LEMMA MatcherFacts ==
  ASSUME MatcherTypeOK
  PROVE  /\ coroutines \in [Record -> RecordState] /\ rows \in [Record -> RowState]
         /\ callLine \in Seq(Record) /\ threads \subseteq Record
         /\ matcher \in {"ddhq", "sheets"} /\ output \in {"none", "parquet", "both"}
         /\ Workers \in Nat \ {0} /\ MaxFound \in Nat
         /\ DOMAIN callLine = 1 .. Len(callLine) /\ Len(callLine) \in Nat
         /\ \A i \in 1 .. Len(callLine) : callLine[i] \in Record
         /\ \A r \in Record : coroutines[r] \in RecordState /\ rows[r] \in RowState
                              /\ InLine(r) = In(r, callLine)
<1>1. callLine \in Seq(Record)
  BY DEF MatcherTypeOK
<1>2. DOMAIN callLine = 1 .. Len(callLine) /\ Len(callLine) \in Nat
      /\ \A i \in 1 .. Len(callLine) : callLine[i] \in Record
  BY <1>1, LenProperties, ElementOfSeq
<1>3. QED
  BY <1>1, <1>2, MatcherAssumption DEF MatcherTypeOK, RecordState, RowState, InLine, In

(* Who is in line after a call has come, gone or been withdrawn.           *)
LEMMA LineAppend ==
  ASSUME NEW S, NEW s \in Seq(S), NEW e \in S, Distinct(s), ~In(e, s)
  PROVE  /\ Append(s, e) \in Seq(S) /\ Distinct(Append(s, e))
         /\ \A x : In(x, Append(s, e)) <=> In(x, s) \/ x = e
<1>1. /\ Append(s, e) \in Seq(S) /\ Len(Append(s, e)) = Len(s) + 1 /\ Len(s) \in Nat
      /\ Append(s, e)[Len(s) + 1] = e /\ \A i \in 1 .. Len(s) : Append(s, e)[i] = s[i]
  BY AppendProperties, LenProperties
<1>2. Distinct(Append(s, e))
  BY AppendDistinct DEF In
<1>3. \A i \in 1 .. Len(Append(s, e)) : i \in 1 .. Len(s) \/ i = Len(s) + 1
  BY <1>1
<1>4. \A i \in 1 .. Len(s) : i \in 1 .. Len(Append(s, e))
  BY <1>1
<1>5. Len(s) + 1 \in 1 .. Len(Append(s, e))
  BY <1>1
<1>6. QED
  BY <1>1, <1>2, <1>3, <1>4, <1>5 DEF In

LEMMA LineTail ==
  ASSUME NEW S, NEW s \in Seq(S), s # <<>>, Distinct(s)
  PROVE  /\ Head(s) \in S /\ In(Head(s), s) /\ Tail(s) \in Seq(S) /\ Distinct(Tail(s))
         /\ \A x : In(x, Tail(s)) <=> In(x, s) /\ x # Head(s)
<1>1. /\ Tail(s) \in Seq(S) /\ Len(Tail(s)) = Len(s) - 1 /\ Len(s) \in Nat \ {0}
      /\ Head(s) = s[1]
      /\ \A i \in 1 .. Len(Tail(s)) : Tail(s)[i] = s[i + 1]
  BY HeadTailProperties, LenProperties, EmptySeq
<1>2. Head(s) \in S /\ 1 \in 1 .. Len(s)
  BY <1>1, ElementOfSeq
<1>3. \A i \in 1 .. Len(Tail(s)) : i + 1 \in 1 .. Len(s) /\ i + 1 # 1
  BY <1>1
<1>4. \A i \in 1 .. Len(s) : i # 1 => i - 1 \in 1 .. Len(Tail(s)) /\ (i - 1) + 1 = i
  BY <1>1
<1>5. Distinct(Tail(s))
  BY TailDistinct
<1>6. ASSUME NEW x, In(x, Tail(s)) PROVE In(x, s) /\ x # Head(s)
  BY <1>1, <1>2, <1>3, <1>6 DEF In, Distinct
<1>7. ASSUME NEW x, In(x, s), x # Head(s) PROVE In(x, Tail(s))
  <2>1. PICK i \in 1 .. Len(s) : s[i] = x
    BY <1>7 DEF In
  <2>2. i # 1
    BY <1>1, <1>7, <2>1
  <2>3. Tail(s)[i - 1] = x
    BY <1>1, <1>4, <2>1, <2>2
  <2>4. QED
    BY <1>4, <2>2, <2>3 DEF In
<1>8. QED
  BY <1>1, <1>2, <1>5, <1>6, <1>7 DEF In

LEMMA LineWithdrawn ==
  ASSUME NEW S, NEW s \in Seq(S), NEW k \in 1 .. Len(s), Distinct(s)
  PROVE  /\ Withdrawn(s, k) \in Seq(S) /\ Distinct(Withdrawn(s, k))
         /\ \A x : In(x, Withdrawn(s, k)) <=> In(x, s) /\ x # s[k]
<1> DEFINE t == Withdrawn(s, k)
           n == Len(s) - 1
<1>1. Withdrawn(s, k) = Without(s, k)
  BY DEF Withdrawn, Without
<1>2. t \in Seq(S) /\ Distinct(t)
  BY <1>1, WithoutDistinct
<1>3. Len(s) \in Nat /\ n \in Nat
  BY LenProperties
<1>4. Len(t) = n /\ \A i \in 1 .. n : t[i] = IF i < k THEN s[i] ELSE s[i + 1]
  <2>1. DOMAIN t = 1 .. n
    BY DEF Withdrawn
  <2>2. DOMAIN t = 1 .. Len(t) /\ Len(t) \in Nat
    BY <1>2, LenProperties
  <2>3. Len(t) = n
    BY <1>3, <2>1, <2>2
  <2>4. QED
    BY <2>3 DEF Withdrawn
<1>5. ASSUME NEW x, In(x, t) PROVE In(x, s) /\ x # s[k]
  <2>1. PICK i \in 1 .. n : t[i] = x
    BY <1>4, <1>5 DEF In
  <2>2. PICK p \in 1 .. Len(s) : p = (IF i < k THEN i ELSE i + 1) /\ p # k
    BY <1>3
  <2>3. x = s[p]
    BY <1>4, <2>1, <2>2
  <2>4. QED
    BY <2>2, <2>3 DEF In, Distinct
<1>6. ASSUME NEW x, In(x, s), x # s[k] PROVE In(x, t)
  <2>1. PICK p \in 1 .. Len(s) : s[p] = x
    BY <1>6 DEF In
  <2>2. p # k
    BY <1>6, <2>1
  <2>3. PICK i \in 1 .. n : p = (IF i < k THEN i ELSE i + 1)
    <3>1. CASE p < k
      BY <1>3, <3>1
    <3>2. CASE p > k
      <4>1. p - 1 \in 1 .. n /\ ~(p - 1 < k) /\ (p - 1) + 1 = p
        BY <1>3, <3>2
      <4>2. QED
        BY <4>1
    <3>3. QED
      BY <1>3, <2>2, <3>1, <3>2
  <2>4. t[i] = x
    BY <1>4, <2>1, <2>3
  <2>5. QED
    BY <1>4, <2>4 DEF In
<1>7. QED
  BY <1>2, <1>5, <1>6

-----------------------------------------------------------------------------
(* The rows an answer makes                                                *)

LEMMA NewRows ==
  ASSUME MaxFound \in Nat
  PROVE  \A k \in {"none", "filtered", "match", "no_match", "timeout", "error", "raised"} :
           RowOf(k) \in RowState /\ RowOf(k).kind = k
BY DEF RowOf, NoRow, RowState

(* An answer for n candidates is no match, an error, or names one of them. *)
LEMMA AnsweredTypes ==
  ASSUME MaxFound \in Nat, NEW n \in 0 .. MaxFound,
         matcher \in {"ddhq", "sheets"}, matcher = "sheets" => n >= 1,
         NEW row \in AnsweredRows(n)
  PROVE  /\ row \in RowState /\ row.kind \in {"error", "no_match", "match"}
         /\ row.kind = "match" => row.index \in 1 .. n
<1> DEFINE Good(w) == /\ w \in RowState /\ w.kind \in {"error", "no_match", "match"}
                      /\ w.kind = "match" => w.index \in 1 .. n
<1>1. Good(RowOf("error")) /\ Good(RowOf("no_match"))
  BY NewRows
<1>2. ASSUME NEW k \in 1 .. n, NEW d \in 0 .. 100
      PROVE  /\ Good([kind |-> "match", index |-> k, confidence |-> d])
             /\ Good([RowOf("no_match") EXCEPT !.confidence = d])
  <2>1. k \in 0 .. MaxFound /\ 0 \in 0 .. MaxFound
    OBVIOUS
  <2>2. Good([kind |-> "match", index |-> k, confidence |-> d])
    BY <2>1 DEF RowState
  <2>3. [RowOf("no_match") EXCEPT !.confidence = d] = [kind |-> "no_match", index |-> 0, confidence |-> d]
    <3>1. RowOf("no_match") = [kind |-> "no_match", index |-> 0, confidence |-> 0]
      BY DEF RowOf, NoRow
    <3>2. QED
      BY <3>1
  <2>4. QED
    BY <2>1, <2>2, <2>3 DEF RowState
<1>3. ASSUME NEW i \in 0 .. n + 1, NEW c \in Confidence, NEW w \in DdhqRows(n, i, c) PROVE Good(w)
  <2>1. Calibrated(c) \subseteq 0 .. 100
    BY <1>3 DEF Calibrated, Confidence
  <2>2. c \in 0 .. 100
    BY DEF Confidence
  <2>3. CASE i \notin 1 .. n
    BY <1>1, <1>3, <2>3 DEF DdhqRows
  <2>4. CASE i \in 1 .. n /\ c = 0
    <3>1. w = [kind |-> "match", index |-> i, confidence |-> c]
      BY <1>3, <2>4 DEF DdhqRows
    <3>2. QED
      BY <1>2, <2>2, <2>4, <3>1
  <2>5. CASE i \in 1 .. n /\ c > 0
    <3>1. PICK d \in Calibrated(c) :
            w = IF d < 70 THEN [RowOf("no_match") EXCEPT !.confidence = d]
                          ELSE [kind |-> "match", index |-> i, confidence |-> d]
      BY <1>3, <2>5 DEF DdhqRows
    <3>2. QED
      BY <1>2, <2>1, <2>5, <3>1
  <2>6. QED
    BY <2>2, <2>3, <2>4, <2>5
<1>4. ASSUME matcher = "sheets", NEW i \in 0 .. n + 1, NEW c \in Confidence, NEW w \in SheetsRows(n, i, c)
      PROVE Good(w)
  <2>1. c \in 0 .. 100 /\ n \in 1 .. n
    BY <1>4 DEF Confidence
  <2>2. CASE c < 60
    <3>1. w = [RowOf("no_match") EXCEPT !.confidence = c]
      BY <1>4, <2>2 DEF SheetsRows
    <3>2. QED
      BY <1>2, <2>1, <3>1
  <2>3. CASE c >= 60
    <3>1. \/ i \in 1 .. n /\ w = [kind |-> "match", index |-> i, confidence |-> c]
          \/ w = [kind |-> "match", index |-> n, confidence |-> c]
          \/ w = RowOf("error")
      BY <1>4, <2>1, <2>3 DEF SheetsRows
    <3>2. QED
      BY <1>1, <1>2, <2>1, <3>1
  <2>4. QED
    BY <2>1, <2>2, <2>3
<1>5. Good(row)
  <2>1. \/ row \in {RowOf("error"), RowOf("no_match")}
        \/ \E i \in 0 .. n + 1, c \in Confidence :
             row \in IF matcher = "ddhq" THEN DdhqRows(n, i, c) ELSE SheetsRows(n, i, c)
    BY DEF AnsweredRows
  <2>2. QED
    BY <1>1, <1>3, <1>4, <2>1
<1>6. QED
  BY <1>5

-----------------------------------------------------------------------------
(* One record at a time                                                    *)

(* A step that gives r a state and a row, and leaves the others' calls     *)
(* where they are.                                                         *)
LEMMA OneRecord ==
  ASSUME MatcherIInv, NEW r \in Record, NEW c \in RecordState, NEW row \in RowState,
         coroutines' = [coroutines EXCEPT ![r] = c], rows' = [rows EXCEPT ![r] = row],
         matcher' = matcher, output' = output,
         callLine' \in Seq(Record), Distinct(callLine'),
         threads' \subseteq Record, IsFiniteSet(threads'), Cardinality(threads') <= Workers,
         \A x \in Record : x # r => /\ x \in threads' <=> x \in threads
                                    /\ In(x, callLine') <=> In(x, callLine),
         RecordInv(c, row, r \in threads', In(r, callLine'), output # "none")
  PROVE  MatcherIInv'
<1>1. /\ coroutines \in [Record -> RecordState] /\ rows \in [Record -> RowState]
      /\ matcher \in {"ddhq", "sheets"} /\ output \in {"none", "parquet", "both"}
  BY MatcherFacts DEF MatcherIInv
<1>2. coroutines' \in [Record -> RecordState] /\ rows' \in [Record -> RowState]
  BY <1>1
<1>3. MatcherTypeOK'
  BY <1>1, <1>2 DEF MatcherTypeOK, RecordState, RowState
<1>4. ASSUME NEW x \in Record
      PROVE  RecordInv(coroutines[x], rows[x], x \in threads, In(x, callLine), output # "none")'
  <2>1. CASE x = r
    <3>1. coroutines'[x] = c /\ rows'[x] = row
      BY <1>1, <2>1
    <3>2. QED
      BY <2>1, <3>1 DEF RecordInv
  <2>2. CASE x # r
    <3>1. coroutines'[x] = coroutines[x] /\ rows'[x] = rows[x]
      BY <1>1, <2>2
    <3>2. RecordInv(coroutines[x], rows[x], x \in threads, In(x, callLine), output # "none")
      BY DEF MatcherIInv
    <3>3. QED
      BY <2>2, <3>1, <3>2 DEF RecordInv
  <2>3. QED
    BY <2>1, <2>2
<1>5. QED
  BY <1>3, <1>4 DEF MatcherIInv

LEMMA RecordStep ==
  ASSUME MatcherIInv, NEW r \in Record, RecordNext(r)
  PROVE  MatcherIInv'
<1>0. /\ coroutines[r] \in RecordState /\ rows[r] \in RowState
      /\ coroutines \in [Record -> RecordState] /\ rows \in [Record -> RowState]
      /\ callLine \in Seq(Record) /\ Distinct(callLine) /\ DOMAIN callLine = 1 .. Len(callLine)
      /\ threads \subseteq Record /\ IsFiniteSet(threads) /\ Cardinality(threads) <= Workers
      /\ matcher \in {"ddhq", "sheets"} /\ output \in {"none", "parquet", "both"}
      /\ MaxFound \in Nat /\ InLine(r) = In(r, callLine)
      /\ RecordInv(coroutines[r], rows[r], r \in threads, In(r, callLine), output # "none")
  BY MatcherFacts DEF MatcherIInv
<1> DEFINE c == [coroutines[r] EXCEPT !.at = "done"]
<1>c. c \in RecordState /\ c.at = "done" /\ c.found = coroutines[r].found
  BY <1>0 DEF RecordState
<1>d. \A row : Done(r, row) => /\ coroutines' = [coroutines EXCEPT ![r] = c]
                             /\ rows' = [rows EXCEPT ![r] = row]
  BY DEF Done
<1>1. CASE Prefilter(r) \/ SearchFails(r)
  <2>1. PICK k \in {"filtered", "error", "raised"} : Done(r, RowOf(k)) /\ (matcher = "ddhq" => k # "raised")
    BY <1>1 DEF Prefilter, SearchFails
  <2>2. /\ coroutines[r].at = "new" /\ UNCHANGED <<matcher, callLine, threads, output>>
    BY <1>1 DEF Prefilter, SearchFails
  <2>3. RowOf(k) \in RowState /\ RowOf(k).kind = k
    BY <1>0, NewRows
  <2>4. RecordInv(c, RowOf(k), r \in threads', In(r, callLine'), output # "none")
    BY <1>0, <1>c, <2>1, <2>2, <2>3 DEF RecordInv
  <2>5. QED
    BY <1>0, <1>c, <1>d, <2>1, <2>2, <2>3, <2>4, OneRecord
<1>2. ASSUME NEW n \in 0 .. MaxFound, Search(r, n) PROVE MatcherIInv'
  <2>1. coroutines[r].at = "new" /\ UNCHANGED <<matcher, threads, output>>
        /\ ~(r \in threads) /\ ~In(r, callLine) /\ output = "none"
    BY <1>0, <1>2 DEF Search, RecordInv
  <2>2. CASE matcher = "sheets" /\ n = 0
    <3>1. Done(r, RowOf("no_match")) /\ UNCHANGED callLine
      BY <1>2, <2>2 DEF Search
    <3>2. RowOf("no_match") \in RowState /\ RowOf("no_match").kind = "no_match"
      BY <1>0, NewRows
    <3>3. RecordInv(c, RowOf("no_match"), r \in threads', In(r, callLine'), output # "none")
      BY <1>0, <1>c, <2>1, <3>1, <3>2 DEF RecordInv
    <3>4. QED
      BY <1>0, <1>c, <1>d, <2>1, <3>1, <3>2, <3>3, OneRecord
  <2>3. CASE ~(matcher = "sheets" /\ n = 0)
    <3> DEFINE d == [at |-> "llm", found |-> n]
    <3>1. /\ coroutines' = [coroutines EXCEPT ![r] = d]
          /\ callLine' = Append(callLine, r) /\ UNCHANGED rows
      BY <1>2, <2>3 DEF Search
    <3>2. rows' = [rows EXCEPT ![r] = rows[r]]
      BY <1>0, <3>1
    <3>3. /\ callLine' \in Seq(Record) /\ Distinct(callLine')
          /\ \A x : In(x, callLine') <=> In(x, callLine) \/ x = r
      BY <1>0, <2>1, <3>1, LineAppend
    <3>4. d \in RecordState /\ d.at = "llm" /\ d.found = n
      BY <1>0 DEF RecordState
    <3>5. RecordInv(d, rows[r], r \in threads', In(r, callLine'), output # "none")
      BY <1>0, <2>1, <2>3, <3>3, <3>4 DEF RecordInv
    <3>6. QED
      BY <1>0, <2>1, <3>1, <3>2, <3>3, <3>4, <3>5, OneRecord
  <2>4. QED
    BY <2>2, <2>3
<1>3. CASE CallEnds(r)
  <2>1. /\ r \in threads /\ threads' = threads \ {r} /\ UNCHANGED <<matcher, callLine, output>>
    BY <1>3 DEF CallEnds
  <2>2. /\ IsFiniteSet(threads') /\ Cardinality(threads') <= Workers /\ threads' \subseteq Record
    <3>1. IsFiniteSet(threads') /\ Cardinality(threads') = Cardinality(threads) - 1
      BY <1>0, <2>1, FS_RemoveElement
    <3>2. Cardinality(threads) \in Nat /\ Workers \in Nat
      BY <1>0, FS_CardinalityType, MatcherAssumption
    <3>3. Cardinality(threads') <= Workers
      BY <1>0, <3>1, <3>2
    <3>4. QED
      BY <1>0, <2>1, <3>1, <3>3
  <2>3. CASE coroutines[r].at = "llm" /\ \E row \in AnsweredRows(coroutines[r].found) : Done(r, row)
    <3>1. PICK row \in AnsweredRows(coroutines[r].found) : Done(r, row)
      BY <2>3
    <3>2. coroutines[r].found \in 0 .. MaxFound /\ (matcher = "sheets" => coroutines[r].found >= 1)
          /\ ~In(r, callLine) /\ output = "none"
      BY <1>0, <2>1, <2>3 DEF RecordState, RecordInv
    <3>3. /\ row \in RowState /\ row.kind \in {"error", "no_match", "match"}
          /\ row.kind = "match" => row.index \in 1 .. coroutines[r].found
      BY <1>0, <3>1, <3>2, AnsweredTypes
    <3>4. RecordInv(c, row, r \in threads', In(r, callLine'), output # "none")
      BY <1>c, <2>1, <3>2, <3>3 DEF RecordInv
    <3>5. QED
      BY <1>0, <1>c, <1>d, <2>1, <2>2, <3>1, <3>3, <3>4, OneRecord
  <2>4. CASE coroutines[r].at = "done" /\ UNCHANGED <<coroutines, rows>>
    <3>1. coroutines' = [coroutines EXCEPT ![r] = coroutines[r]] /\ rows' = [rows EXCEPT ![r] = rows[r]]
      BY <1>0, <2>4
    <3>2. RecordInv(coroutines[r], rows[r], r \in threads', In(r, callLine'), output # "none")
      BY <1>0, <2>1, <2>4 DEF RecordInv
    <3>3. QED
      BY <1>0, <2>1, <2>2, <3>1, <3>2, OneRecord
  <2>5. QED
    BY <1>3, <2>3, <2>4 DEF CallEnds
<1>4. CASE Timeout(r)
  <2>1. /\ coroutines[r].at = "llm" /\ Done(r, RowOf("timeout"))
        /\ UNCHANGED <<matcher, threads, output>>
    BY <1>4 DEF Timeout
  <2>2. /\ callLine' \in Seq(Record) /\ Distinct(callLine') /\ ~In(r, callLine')
        /\ \A x \in Record : x # r => (In(x, callLine') <=> In(x, callLine))
    <3>1. CASE ~InLine(r) /\ UNCHANGED callLine
      BY <1>0, <3>1
    <3>2. CASE \E i \in DOMAIN callLine : callLine[i] = r /\ callLine' = Withdrawn(callLine, i)
      <4>1. PICK i \in 1 .. Len(callLine) : callLine[i] = r /\ callLine' = Withdrawn(callLine, i)
        BY <1>0, <3>2
      <4>2. QED
        BY <1>0, <4>1, LineWithdrawn
    <3>3. QED
      BY <1>4, <3>1, <3>2 DEF Timeout
  <2>3. RowOf("timeout") \in RowState /\ RowOf("timeout").kind = "timeout"
    BY <1>0, NewRows
  <2>4. RecordInv(c, RowOf("timeout"), r \in threads', In(r, callLine'), output # "none")
    BY <1>0, <1>c, <2>1, <2>2, <2>3 DEF RecordInv
  <2>5. QED
    BY <1>0, <1>c, <1>d, <2>1, <2>2, <2>3, <2>4, OneRecord
<1>5. QED
  BY <1>1, <1>2, <1>3, <1>4 DEF RecordNext

LEMMA MatcherStep == MatcherIInv /\ [MatcherNext]_matcherVars => MatcherIInv'
<1> SUFFICES ASSUME MatcherIInv, [MatcherNext]_matcherVars PROVE MatcherIInv'
  OBVIOUS
<1>0. /\ MatcherTypeOK
      /\ \A r \in Record :
           RecordInv(coroutines[r], rows[r], r \in threads, In(r, callLine), output # "none")
      /\ callLine \in Seq(Record) /\ Distinct(callLine)
      /\ threads \subseteq Record /\ IsFiniteSet(threads) /\ Cardinality(threads) <= Workers
  BY MatcherFacts DEF MatcherIInv
<1>1. CASE TakeJob
  <2>1. /\ callLine # <<>> /\ Cardinality(threads) < Workers
        /\ threads' = threads \cup {Head(callLine)} /\ callLine' = Tail(callLine)
        /\ UNCHANGED <<matcher, coroutines, rows, output>>
    BY <1>1 DEF TakeJob
  <2>2. PICK h \in Record : h = Head(callLine) /\ In(h, callLine)
    BY <1>0, <2>1, LineTail
  <2>3. /\ callLine' \in Seq(Record) /\ Distinct(callLine')
        /\ \A x : In(x, callLine') <=> In(x, callLine) /\ x # h
    BY <1>0, <2>1, <2>2, LineTail
  <2>4. coroutines[h].at = "llm" /\ h \notin threads
    BY <1>0, <2>2, MatcherFacts DEF RecordInv, RecordState
  <2>5. /\ IsFiniteSet(threads') /\ Cardinality(threads') = Cardinality(threads) + 1
        /\ Cardinality(threads) \in Nat
    BY <1>0, <2>1, <2>2, <2>4, FS_AddElement, FS_CardinalityType
  <2>a. Workers \in Nat
    BY MatcherAssumption
  <2>b. Cardinality(threads') <= Workers
    BY <2>1, <2>5, <2>a
  <2>6. Cardinality(threads') <= Workers /\ threads' \subseteq Record
    BY <1>0, <2>1, <2>2, <2>b
  <2>7. /\ coroutines' = [coroutines EXCEPT ![h] = coroutines[h]] /\ rows' = [rows EXCEPT ![h] = rows[h]]
        /\ coroutines[h] \in RecordState /\ rows[h] \in RowState
    BY <1>0, <2>1, MatcherFacts
  <2>8. RecordInv(coroutines[h], rows[h], h \in threads', In(h, callLine'), output # "none")
    BY <1>0, <2>1, <2>2, <2>3, <2>4 DEF RecordInv
  <2>9. QED
    BY <2>1, <2>2, <2>3, <2>5, <2>6, <2>7, <2>8, OneRecord
<1>2. CASE SaveResults
  <2>1. /\ \A r \in Record : coroutines[r].at = "done"
        /\ output' \in {"parquet", "both"} /\ UNCHANGED <<matcher, coroutines, callLine, threads, rows>>
    BY <1>2 DEF SaveResults
  <2>2. \A r \in Record :
          RecordInv(coroutines[r], rows[r], r \in threads, In(r, callLine), output # "none")'
    BY <1>0, <2>1 DEF RecordInv
  <2>3. MatcherTypeOK'
    BY <1>0, <2>1 DEF MatcherTypeOK
  <2>4. QED
    BY <1>0, <2>1, <2>2, <2>3 DEF MatcherIInv
<1>3. CASE UNCHANGED matcherVars
  <2>1. UNCHANGED <<matcher, coroutines, callLine, threads, rows, output>>
    BY <1>3 DEF matcherVars
  <2>2. \A r \in Record :
          RecordInv(coroutines[r], rows[r], r \in threads, In(r, callLine), output # "none")'
    BY <1>0, <2>1 DEF RecordInv
  <2>3. MatcherTypeOK'
    BY <1>0, <2>1 DEF MatcherTypeOK
  <2>4. QED
    BY <1>0, <2>1, <2>2, <2>3 DEF MatcherIInv
<1>4. QED
  BY <1>1, <1>2, <1>3, RecordStep DEF MatcherNext

LEMMA MatcherStart == MatcherInit => MatcherIInv
<1> SUFFICES ASSUME MatcherInit PROVE MatcherIInv
  OBVIOUS
<1>0. Workers \in Nat \ {0} /\ MaxFound \in Nat
  BY MatcherAssumption
<1>1. callLine = <<>> /\ Len(callLine) = 0 /\ callLine \in Seq(Record)
  BY EmptySeq DEF MatcherInit
<1>2. IsFiniteSet(threads) /\ Cardinality(threads) = 0 /\ threads = {}
  BY FS_EmptySet DEF MatcherInit
<1>3. NoRow \in RowState /\ [at |-> "new", found |-> 0] \in RecordState /\ NoRow.kind = "none"
  BY <1>0 DEF NoRow, RowState, RecordState
<1>4. coroutines \in [Record -> RecordState] /\ rows \in [Record -> RowState]
  BY <1>3 DEF MatcherInit
<1>5. MatcherTypeOK
  BY <1>1, <1>2, <1>4 DEF MatcherInit, MatcherTypeOK, RowState, RecordState
<1>6. \A r \in Record : ~In(r, callLine)
  BY <1>1 DEF In
<1>7. \A r \in Record :
        RecordInv(coroutines[r], rows[r], r \in threads, In(r, callLine), output # "none")
  BY <1>2, <1>3, <1>6 DEF MatcherInit, RecordInv
<1>8. Distinct(callLine)
  BY <1>1 DEF Distinct
<1>9. QED
  BY <1>0, <1>2, <1>5, <1>7, <1>8 DEF MatcherIInv

LEMMA MatcherImplied == MatcherIInv => MatcherInv
<1> SUFFICES ASSUME MatcherIInv PROVE MatcherInv
  OBVIOUS
<1>0. /\ MatcherTypeOK /\ DOMAIN callLine = 1 .. Len(callLine) /\ Distinct(callLine)
      /\ Cardinality(threads) <= Workers
      /\ \A r \in Record :
           /\ InLine(r) = In(r, callLine)
           /\ coroutines[r] \in RecordState /\ rows[r] \in RowState
           /\ RecordInv(coroutines[r], rows[r], r \in threads, In(r, callLine), output # "none")
  BY MatcherFacts DEF MatcherIInv
<1>1. \A r \in BusyRecords : (r \in threads) # InLine(r)
  <2>1. ASSUME NEW r \in BusyRecords PROVE (r \in threads) <=> ~InLine(r)
    BY <1>0 DEF BusyRecords, RecordInv
  <2>2. \A r \in BusyRecords : InLine(r) \in BOOLEAN /\ (r \in threads) \in BOOLEAN
    BY DEF InLine
  <2>3. QED
    BY <2>1, <2>2
<1>2. \A r \in Record : InLine(r) => coroutines[r].at = "llm"
  BY <1>0 DEF RecordInv, RecordState
<1>3. \A i, j \in DOMAIN callLine : i # j => callLine[i] # callLine[j]
  BY <1>0 DEF Distinct
<1>4. PoolConsistent
  BY <1>0, <1>1, <1>2, <1>3 DEF PoolConsistent
<1>5. RowsComplete
  BY <1>0 DEF RowsComplete, RecordInv
<1>6. QED
  BY <1>0, <1>4, <1>5 DEF MatcherInv

(* A row is final.                                                         *)
LEMMA RowsStep ==
  MatcherIInv /\ [MatcherNext]_matcherVars =>
    \A r \in Record : rows[r].kind # "none" => rows'[r] = rows[r]
<1> SUFFICES ASSUME MatcherIInv, [MatcherNext]_matcherVars, NEW r \in Record, rows[r].kind # "none"
             PROVE  rows'[r] = rows[r]
  OBVIOUS
<1>1. rows \in [Record -> RowState] /\ coroutines[r].at = "done"
  BY MatcherFacts DEF MatcherIInv, RecordInv, RecordState
<1>2. ASSUME NEW q \in Record, RecordNext(q), q # r PROVE rows'[r] = rows[r]
  BY <1>1, <1>2 DEF RecordNext, Prefilter, SearchFails, Search, CallEnds, Timeout, Done
<1>3. CASE RecordNext(r)
  BY <1>1, <1>3 DEF RecordNext, Prefilter, SearchFails, Search, CallEnds, Timeout, Done
<1>4. CASE TakeJob \/ SaveResults \/ UNCHANGED matcherVars
  BY <1>4 DEF TakeJob, SaveResults, matcherVars
<1>5. QED
  BY <1>2, <1>3, <1>4 DEF MatcherNext

(* However calls wait, run on past their record's timeout and end, each    *)
(* record has one call or one row, the pool has no more threads than       *)
(* max_workers, and a match names a candidate the record was given: for any*)
(* number of records, workers and candidates.                              *)
THEOREM EveryRecordOnce == MatcherSpec => []MatcherInv
<1>1. QED
  BY MatcherStart, MatcherStep, MatcherImplied, PTL DEF MatcherSpec

(* A late answer does not touch the row of a record that timed out, and no *)
(* other step rewrites a row.                                              *)
THEOREM RowsAreFinal == MatcherSpec => RowsFinal
<1>1. MatcherIInv /\ [MatcherNext]_matcherVars =>
        [\A r \in Record : rows[r].kind # "none" => rows'[r] = rows[r]]_matcherVars
  BY RowsStep
<1>2. QED
  BY <1>1, MatcherStart, MatcherStep, PTL DEF MatcherSpec, RowsFinal

-----------------------------------------------------------------------------
(* The QA gate                                                             *)

(* The time limit of the stage that counts.                                *)
StageLimit ==
  /\ gate.at = "start" => gate.spent = 0 /\ ~gate.dir /\ ~script.runs
  /\ gate.at = "main" => gate.spent <= DetTimeout
  /\ gate.at = "exit" => gate.spent <= ExitGrace
  /\ gate.at = "eval" => gate.spent <= AgentTimeout
  /\ gate.at = "finalize" => gate.spent <= FinalizeTimeout

(* What the stages before are worth, as long as none was a stage error.    *)
StagesEarned ==
  ~gate.error =>
    /\ gate.at \in {"eval", "finalize", "build"} /\ "main.py" \in entries
       => script.out \in {"array", "none"}
    /\ gate.at = "build" /\ "eval.md" \in entries
       => judge.result = "ok" /\ judge.file = "array"

(* The verdict comes last, and is made of the stages.                      *)
VerdictLast ==
  /\ gate.at # "over" => verdict = NoVerdict
  /\ PassEarned /\ ScriptReaped /\ DirRemoved

GateIInv == QaTypeOK /\ StageLimit /\ StagesEarned /\ VerdictLast

Gates == [at : {"start", "main", "exit", "eval", "finalize", "build", "over", "cut"},
          spent : 0 .. DetTimeout + AgentTimeout + FinalizeTimeout + ExitGrace,
          checks : SUBSET Fragment, error : BOOLEAN, dir : BOOLEAN]

(* A step that ends a stage, field by field.                               *)
LEMMA StageEndsFacts ==
  ASSUME gate \in Gates, NEW next \in {"eval", "build"},
         NEW fs \in SUBSET Fragment, NEW err \in BOOLEAN, StageEnds(next, fs, err)
  PROVE  /\ gate' \in Gates
         /\ gate'.at = next /\ gate'.spent = 0 /\ gate'.dir = gate.dir
         /\ gate'.error = (gate.error \/ err)
<1>1. 0 \in 0 .. DetTimeout + AgentTimeout + FinalizeTimeout + ExitGrace
  BY GateAssumption
<1>2. QED
  BY <1>1 DEF StageEnds, Gates

(* The same of a step that goes on to another stage.                       *)
LEMMA GateAtFacts ==
  ASSUME gate \in Gates,
         NEW a \in {"exit", "finalize", "over", "cut"}, GateAt(a)
  PROVE  /\ gate' \in Gates
         /\ gate'.at = a /\ gate'.spent = 0 /\ gate'.dir = gate.dir
         /\ gate'.error = gate.error
<1>1. 0 \in 0 .. DetTimeout + AgentTimeout + FinalizeTimeout + ExitGrace
  BY GateAssumption
<1>2. QED
  BY <1>1 DEF GateAt, Gates

(* The deterministic stage, once it was read, was an error or had output   *)
(* that parsed, or none.                                                   *)
LEMMA ReadScriptFacts ==
  ASSUME QaTypeOK, NEW code \in Int, ReadScript(code)
  PROVE  /\ gate' \in Gates
         /\ gate'.at = AfterMain /\ gate'.spent = 0 /\ gate'.dir = gate.dir
         /\ ~gate'.error => ~gate.error /\ script.out \in {"array", "none"}
<1>0. /\ gate \in Gates /\ script.out \in {"none", "array", "junk", "flood"}
      /\ AfterMain \in {"eval", "build"}
  BY DEF QaTypeOK, Gates, AfterMain
<1>1. CASE script.out \in {"flood", "junk"}
  <2>1. StageEnds(AfterMain, {}, TRUE)
    BY <1>1 DEF ReadScript
  <2>2. QED
    BY <1>0, <2>1, StageEndsFacts
<1>2. CASE script.out = "array"
  <2>1. PICK fs \in SUBSET Fragment : StageEnds(AfterMain, fs, FALSE)
    BY <1>2 DEF ReadScript, Fragments, Fragment
  <2>2. QED
    BY <1>0, <1>2, <2>1, StageEndsFacts
<1>3. CASE script.out = "none"
  <2>1. StageEnds(AfterMain, {}, TRUE) \/ StageEnds(AfterMain, {"main_py_exit"}, FALSE)
    BY <1>3 DEF ReadScript
  <2>2. QED
    BY <1>0, <1>3, <2>1, StageEndsFacts DEF Fragment
<1>4. QED
  BY <1>0, <1>1, <1>2, <1>3

(* What a query leaves for the verdict.                                    *)
LEMMA ReadFragmentsFacts ==
  ASSUME QaTypeOK, ReadFragments
  PROVE  /\ gate' \in Gates
         /\ gate'.at = "build" /\ gate'.spent = 0 /\ gate'.dir = gate.dir
         /\ ~gate'.error => ~gate.error /\ judge.file = "array"
<1>0. gate \in Gates
  BY DEF QaTypeOK, Gates
<1>1. CASE judge.file = "array"
  <2>1. PICK fs \in SUBSET Fragment : StageEnds("build", fs, FALSE)
    BY <1>1 DEF ReadFragments, Fragments, Fragment
  <2>2. QED
    BY <1>0, <1>1, <2>1, StageEndsFacts
<1>2. CASE judge.file # "array"
  <2>1. StageEnds("build", {}, TRUE)
    BY <1>2 DEF ReadFragments
  <2>2. QED
    BY <1>0, <2>1, StageEndsFacts
<1>3. QED
  BY <1>1, <1>2

LEMMA GateStep == GateIInv /\ [QaNext]_gateVars => GateIInv'
<1> SUFFICES ASSUME GateIInv, [QaNext]_gateVars PROVE GateIInv'
  OBVIOUS
<1> USE GateAssumption
<1>0. /\ QaTypeOK /\ gate \in Gates /\ StageLimit /\ StagesEarned /\ VerdictLast
      /\ PassEarned /\ ScriptReaped /\ DirRemoved
  BY DEF GateIInv, VerdictLast, QaTypeOK, Gates
<1>1. CASE Preflight
  <2>1. gate' \in Gates /\ gate'.at = "over" /\ gate'.dir = gate.dir
    BY <1>0, <1>1, GateAtFacts DEF Preflight
  <2>2. QED
    BY <1>0, <1>1, <2>1 DEF Preflight, GateIInv, QaTypeOK, Gates, StageLimit, StagesEarned,
         VerdictLast, PassEarned, ScriptReaped, DirRemoved, Verdict
<1>2. CASE StartStages
  <2>1. /\ gate.at = "start" /\ gate.spent = 0
        /\ UNCHANGED <<entries, left, judge, verdict>>
    BY <1>0, <1>2 DEF StartStages, StageLimit
  <2>2. \/ gate' = [gate EXCEPT !.at = "main", !.dir = TRUE]
        \/ gate' = [gate EXCEPT !.at = AfterMain, !.dir = TRUE, !.error = TRUE] /\ UNCHANGED script
        \/ /\ gate' = [gate EXCEPT !.at = "eval", !.dir = TRUE] /\ UNCHANGED script
           /\ "main.py" \notin entries
    BY <1>2 DEF StartStages
  <2>3. /\ gate' \in Gates /\ gate'.spent = 0
        /\ gate'.at \in {"main", "eval", "build"}
        /\ gate'.at # "main" => script' = script
        /\ ~gate'.error /\ gate'.at # "main" => gate'.at = "eval" /\ "main.py" \notin entries
    BY <1>0, <2>1, <2>2 DEF Gates, AfterMain
  <2>4. script' \in [runs : BOOLEAN, out : {"none", "array", "junk", "flood"}]
    BY <1>0, <1>2 DEF StartStages, QaTypeOK
  <2>5. QED
    BY <1>0, <2>1, <2>3, <2>4 DEF GateIInv, QaTypeOK, Gates, StageLimit, StagesEarned,
         VerdictLast, PassEarned, ScriptReaped, DirRemoved, NoVerdict
<1>3. CASE PipesClose
  <2>1. gate' \in Gates /\ gate'.at = "exit" /\ gate'.spent = 0
    BY <1>0, <1>3, GateAtFacts DEF PipesClose
  <2>2. QED
    BY <1>0, <1>3, <2>1 DEF PipesClose, GateIInv, QaTypeOK, Gates, StageLimit, StagesEarned,
         VerdictLast, PassEarned, ScriptReaped, DirRemoved, NoVerdict
<1>4. CASE ScriptExits \/ KillAfterGrace
  <2>1. /\ gate.at = "exit" /\ (\E code \in Int : ReadScript(code))
        /\ script' = [script EXCEPT !.runs = FALSE] /\ UNCHANGED <<entries, left, judge, verdict>>
    BY <1>4 DEF ScriptExits, KillAfterGrace
  <2>2. /\ gate' \in Gates /\ gate'.at = AfterMain /\ gate'.spent = 0
        /\ ~gate'.error => script.out \in {"array", "none"}
    BY <1>0, <2>1, ReadScriptFacts
  <2>3. /\ script' \in [runs : BOOLEAN, out : {"none", "array", "junk", "flood"}]
        /\ ~script'.runs /\ script'.out = script.out
    BY <1>0, <2>1 DEF QaTypeOK
  <2>4. QED
    BY <1>0, <2>1, <2>2, <2>3 DEF AfterMain, GateIInv, QaTypeOK, Gates, StageLimit, StagesEarned,
         VerdictLast, PassEarned, ScriptReaped, DirRemoved, NoVerdict
<1>5. CASE ScriptTimesOut
  <2>1. gate' \in Gates /\ gate'.at = AfterMain /\ gate'.spent = 0 /\ gate'.error
    <3>1. AfterMain \in {"eval", "build"}
      BY DEF AfterMain
    <3>2. QED
      BY <1>0, <1>5, <3>1, StageEndsFacts DEF ScriptTimesOut
  <2>2. /\ script' \in [runs : BOOLEAN, out : {"none", "array", "junk", "flood"}]
        /\ ~script'.runs
    BY <1>0, <1>5 DEF ScriptTimesOut, QaTypeOK
  <2>3. gate.at = "main" /\ AfterMain \in {"eval", "build"}
    BY <1>5 DEF ScriptTimesOut, AfterMain
  <2>4. QED
    BY <1>0, <1>5, <2>1, <2>2, <2>3 DEF ScriptTimesOut, GateIInv, QaTypeOK, Gates, StageLimit,
         StagesEarned, VerdictLast, PassEarned, ScriptReaped, DirRemoved, NoVerdict
<1>6. CASE StartQuery \/ ScriptWrites \/ JudgeWrites
  <2>1. /\ UNCHANGED <<gate, entries, left, verdict>>
        /\ gate.at \in {"main", "eval", "finalize"}
        /\ script' = script \/ gate.at = "main"
        /\ script' \in [runs : BOOLEAN, out : {"none", "array", "junk", "flood"}]
        /\ judge' \in [query : {"off", "first", "second"},
                       file : {"none", "array", "junk"},
                       result : {"none", "ok", "error", "max_turns"}]
    BY <1>0, <1>6 DEF StartQuery, ScriptWrites, JudgeWrites, Judging, QaTypeOK
  <2>2. QED
    BY <1>0, <2>1 DEF GateIInv, QaTypeOK, Gates, StageLimit, StagesEarned,
         VerdictLast, PassEarned, ScriptReaped, DirRemoved, NoVerdict
<1>7. CASE QueryEnds
  <2>1. gate.at \in {"eval", "finalize"} /\ UNCHANGED <<entries, left, script, verdict>>
    BY <1>7 DEF QueryEnds, Judging
  <2>2. PICK r \in {"ok", "error", "max_turns", "none"} :
          IF Finalizes(r)
          THEN /\ GateAt("finalize") /\ judge' = [judge EXCEPT !.query = "second", !.result = r]
          ELSE /\ judge' = [judge EXCEPT !.query = "off", !.result = IF r = "none" THEN @ ELSE r]
               /\ IF r = "ok" THEN ReadFragments ELSE StageEnds("build", {}, TRUE)
    BY <1>7 DEF QueryEnds
  <2>3. CASE Finalizes(r)
    <3>1. gate' \in Gates /\ gate'.at = "finalize" /\ gate'.spent = 0 /\ gate'.error = gate.error
      BY <1>0, <2>2, <2>3, GateAtFacts
    <3>2. judge' \in [query : {"off", "first", "second"},
                       file : {"none", "array", "junk"},
                       result : {"none", "ok", "error", "max_turns"}]
      BY <1>0, <2>2, <2>3 DEF QaTypeOK
    <3>3. QED
      BY <1>0, <2>1, <3>1, <3>2 DEF GateIInv, QaTypeOK, Gates, StageLimit,
           StagesEarned, VerdictLast, PassEarned, ScriptReaped, DirRemoved, NoVerdict
  <2>4. CASE ~Finalizes(r) /\ r = "ok"
    <3>1. /\ gate' \in Gates /\ gate'.at = "build" /\ gate'.spent = 0
          /\ ~gate'.error => ~gate.error /\ judge.file = "array"
      BY <1>0, <2>2, <2>4, ReadFragmentsFacts
    <3>2. /\ judge' \in [query : {"off", "first", "second"},
                          file : {"none", "array", "junk"},
                          result : {"none", "ok", "error", "max_turns"}]
          /\ judge'.file = judge.file /\ judge'.result = "ok"
      BY <1>0, <2>2, <2>4 DEF QaTypeOK
    <3>3. QED
      BY <1>0, <2>1, <3>1, <3>2 DEF GateIInv, QaTypeOK, Gates, StageLimit,
           StagesEarned, VerdictLast, PassEarned, ScriptReaped, DirRemoved, NoVerdict
  <2>5. CASE ~Finalizes(r) /\ r # "ok"
    <3>1. gate' \in Gates /\ gate'.at = "build" /\ gate'.spent = 0 /\ gate'.error
      BY <1>0, <2>2, <2>5, StageEndsFacts
    <3>2. judge' \in [query : {"off", "first", "second"},
                       file : {"none", "array", "junk"},
                       result : {"none", "ok", "error", "max_turns"}]
      BY <1>0, <2>2, <2>5 DEF QaTypeOK
    <3>3. QED
      BY <1>0, <2>1, <3>1, <3>2 DEF GateIInv, QaTypeOK, Gates, StageLimit,
           StagesEarned, VerdictLast, PassEarned, ScriptReaped, DirRemoved, NoVerdict
  <2>6. QED
    BY <2>3, <2>4, <2>5
<1>8. CASE QueryTimesOut
  <2>1. gate' \in Gates /\ gate'.at = "build" /\ gate'.spent = 0 /\ gate'.error
    BY <1>0, <1>8, StageEndsFacts DEF QueryTimesOut
  <2>2. QED
    BY <1>0, <1>8, <2>1 DEF QueryTimesOut, GateIInv, QaTypeOK, Gates, StageLimit,
         StagesEarned, VerdictLast, PassEarned, ScriptReaped, DirRemoved, NoVerdict
<1>9. CASE BuildVerdict
  <2>1. /\ gate' \in Gates /\ gate'.at = "over" /\ ~gate'.dir
        /\ gate'.error = gate.error /\ gate'.checks = gate.checks
    BY <1>0, <1>9 DEF BuildVerdict, Gates
  <2>2. /\ verdict' \in Verdict
        /\ verdict'.pass = "yes" =>
             verdict'.status = "evaluated" /\ ~gate.error /\ gate.checks = {"passed"}
    BY <1>0, <1>9 DEF BuildVerdict, Pass, Verdict, QaTypeOK
  <2>3. QED
    BY <1>0, <1>9, <2>1, <2>2 DEF BuildVerdict, GateIInv, QaTypeOK, Gates, StageLimit,
         StagesEarned, VerdictLast, PassEarned, ScriptReaped, DirRemoved
<1>10. CASE InternalError
  <2>1. gate' \in Gates /\ gate'.at = "over" /\ ~gate'.dir
    BY <1>0, <1>10 DEF InternalError, Gates
  <2>2. verdict' \in Verdict /\ verdict'.pass = "none"
    BY <1>10 DEF InternalError, Verdict
  <2>3. QED
    BY <1>0, <1>10, <2>1, <2>2 DEF InternalError, GateIInv, QaTypeOK, Gates, StageLimit,
         StagesEarned, VerdictLast, PassEarned, ScriptReaped, DirRemoved
<1>11. CASE GateTick
  <2>1. /\ gate.spent + 1 \in 0 .. DetTimeout + AgentTimeout + FinalizeTimeout + ExitGrace
        /\ gate.at = "main" => gate.spent + 1 <= DetTimeout
        /\ gate.at = "exit" => gate.spent + 1 <= ExitGrace
        /\ gate.at = "eval" => gate.spent + 1 <= AgentTimeout
        /\ gate.at = "finalize" => gate.spent + 1 <= FinalizeTimeout
    BY <1>0, <1>11 DEF GateTick, Due, Gates, StageLimit
  <2>2. /\ gate' \in Gates /\ gate'.at = gate.at /\ gate'.spent = gate.spent + 1
        /\ gate'.error = gate.error /\ gate'.checks = gate.checks /\ gate'.dir = gate.dir
    BY <1>0, <1>11, <2>1 DEF GateTick, Gates
  <2>3. QED
    BY <1>0, <1>11, <2>1, <2>2 DEF GateTick, GateIInv, QaTypeOK, Gates, StageLimit,
         StagesEarned, VerdictLast, PassEarned, ScriptReaped, DirRemoved
<1>12. CASE CutRun
  <2>1. gate' \in Gates /\ gate'.at = "cut"
    BY <1>0, <1>12, GateAtFacts DEF CutRun
  <2>2. QED
    BY <1>0, <1>12, <2>1 DEF CutRun, GateIInv, QaTypeOK, Gates, StageLimit,
         StagesEarned, VerdictLast, PassEarned, ScriptReaped, DirRemoved, NoVerdict
<1>13. CASE UNCHANGED gateVars
  BY <1>0, <1>13 DEF gateVars, GateIInv, QaTypeOK, Gates, StageLimit,
       StagesEarned, VerdictLast, PassEarned, ScriptReaped, DirRemoved
<1>14. QED
  BY <1>1, <1>2, <1>3, <1>4, <1>5, <1>6, <1>7, <1>8, <1>9, <1>10, <1>11, <1>12, <1>13
     DEF QaNext, GateProceeds

LEMMA GateStart == QaInit => GateIInv
<1> SUFFICES ASSUME QaInit PROVE GateIInv
  OBVIOUS
<1>1. 0 \in 0 .. DetTimeout + AgentTimeout + FinalizeTimeout + ExitGrace
  BY GateAssumption
<1>2. QaTypeOK
  BY <1>1, GateAssumption DEF QaInit, QaTypeOK, NoVerdict, Verdict
<1>3. QED
  BY <1>2 DEF QaInit, GateIInv, StageLimit, StagesEarned, VerdictLast, PassEarned,
       ScriptReaped, DirRemoved, NoVerdict

(* A verdict that passes (QAGate.run) was earned by every stage there was: *)
(* main.py's checks and the evaluator's were read whole and none failed;   *)
(* its script is reaped and its directory removed, for any limits.         *)
THEOREM GateSound == QaSpec => []GateInv
<1>1. GateIInv => GateInv
  BY DEF GateIInv, VerdictLast, GateInv
<1>2. QED
  BY <1>1, GateStart, GateStep, PTL DEF QaSpec

(* The only step to a second query is the end of a first one that used up  *)
(* its turns.                                                              *)
LEMMA SecondQuery ==
  QaTypeOK /\ [QaNext]_gateVars =>
    (judge'.query = "second" /\ judge.query # "second" =>
       judge.query = "first" /\ judge'.result = "max_turns")
<1> SUFFICES ASSUME QaTypeOK, [QaNext]_gateVars, judge'.query = "second", judge.query # "second"
             PROVE  judge.query = "first" /\ judge'.result = "max_turns"
  OBVIOUS
<1>0. judge \in [query : {"off", "first", "second"},
                file : {"none", "array", "junk"},
                result : {"none", "ok", "error", "max_turns"}]
    BY DEF QaTypeOK
<1>1. QueryEnds
    BY <1>0 DEF QaNext, GateProceeds, Preflight, StartStages, PipesClose, ScriptExits, KillAfterGrace,
         ScriptTimesOut, StartQuery, QueryTimesOut, BuildVerdict, ScriptWrites,
         JudgeWrites, InternalError, GateTick, CutRun, gateVars
<1>2. PICK r \in {"ok", "error", "max_turns", "none"} :
          IF Finalizes(r)
          THEN judge' = [judge EXCEPT !.query = "second", !.result = r]
          ELSE judge' = [judge EXCEPT !.query = "off", !.result = IF r = "none" THEN @ ELSE r]
    BY <1>1 DEF QueryEnds
<1>3. Finalizes(r)
    BY <1>0, <1>2
<1>4. QED
    BY <1>0, <1>2, <1>3 DEF Finalizes

(* Finalization (runner/qa_gate.py) is asked for once, and only of an      *)
(* evaluator that ran out of turns, however the queries end.               *)
THEOREM SecondQueryOnce == QaSpec => OneFinalize
<1>1. GateIInv /\ [QaNext]_gateVars =>
        [judge'.query = "second" /\ judge.query # "second" =>
           judge.query = "first" /\ judge'.result = "max_turns"]_gateVars
  BY SecondQuery DEF GateIInv
<1>2. QED
  BY <1>1, GateStart, GateStep, PTL DEF QaSpec, OneFinalize

-----------------------------------------------------------------------------
(* The plan sessions                                                       *)

MemoryState == [progress : 0 .. 100, expires : {Never} \cup Nat,
                status : {"absent", "processing", "completed", "error"}]
GenState == {"none", "community", "timeline", "tasks", "over"}
OneFile == [at : {Never} \cup Nat, whole : BOOLEAN]
Files == [File -> OneFile]
StreamState == [open : BOOLEAN, last : -1 .. 100, end : {"none", "completed", "error", "not_found"}]

(* Where a generation is says what its session's entry is (m), what the    *)
(* disk has (d) and what a stream can have shown (v).                      *)
SessionFits(m, g, d, v, h) ==
  /\ g \in {"community", "timeline", "tasks"} => m.status = "processing" /\ m.expires = Never
  /\ g = "community" => m.progress = 65
  /\ g = "timeline" => m.progress = 85
  /\ g = "tasks" => m.progress = 96 /\ d["pdf"] = Whole(h) /\ d["pdf_meta"] = Whole(h)
  /\ g = "none" => m.status = "absent" /\ (v.open => v.last = Never)
  /\ m.status = "completed" => m.progress = 100 /\ m.expires \in Nat /\ m.expires >= MaxAge
  /\ m.status = "completed" /\ h <= m.expires => \A f \in File : d[f] = Whole(m.expires - MaxAge)
  /\ m.status = "processing" /\ v.open => v.last <= m.progress

SessionsIInv ==
  /\ memory \in [Session -> MemoryState] /\ gen \in [Session -> GenState]
  /\ artifacts \in [Session -> Files] /\ stream \in [Session -> StreamState]
  /\ hour \in Nat
  /\ \A s \in Session : SessionFits(memory[s], gen[s], artifacts[s], stream[s], hour)

Moved(m, p, st) == [m EXCEPT !.progress = p, !.status = st]

LEMMA SessionShapes ==
  /\ NoSession \in MemoryState /\ NoSession.status = "absent" /\ NoSession.expires = Never
  /\ NoArtifact \in OneFile /\ NoArtifact.whole = FALSE /\ Closed \in StreamState /\ Closed.open = FALSE
  /\ \A t \in Nat : /\ Whole(t) \in OneFile /\ Broken(t) \in OneFile
                    /\ Whole(t).at = t /\ Whole(t).whole = TRUE /\ Whole(t) # NoArtifact
  /\ \A m \in MemoryState, p \in 0 .. 100, st \in {"absent", "processing", "completed", "error"} :
       /\ Moved(m, p, st) \in MemoryState /\ Moved(m, p, st).progress = p
       /\ Moved(m, p, st).status = st /\ Moved(m, p, st).expires = m.expires
  /\ \A m \in MemoryState : m = NoSession => m.progress = 0
<1>1. /\ NoSession \in MemoryState /\ NoSession.status = "absent" /\ NoSession.expires = Never
      /\ \A m \in MemoryState : m = NoSession => m.progress = 0
  BY DEF NoSession, MemoryState
<1>2. NoArtifact \in OneFile /\ NoArtifact.whole = FALSE
  BY DEF NoArtifact, OneFile
<1>3. Closed \in StreamState /\ Closed.open = FALSE
  BY DEF Closed, StreamState, Never
<1>4. \A t \in Nat : /\ Whole(t) \in OneFile /\ Broken(t) \in OneFile
                     /\ Whole(t).at = t /\ Whole(t).whole = TRUE /\ Whole(t) # NoArtifact
  BY DEF Whole, Broken, OneFile, NoArtifact
<1>5. ASSUME NEW m \in MemoryState, NEW p \in 0 .. 100,
             NEW st \in {"absent", "processing", "completed", "error"}
      PROVE  /\ Moved(m, p, st) \in MemoryState /\ Moved(m, p, st).progress = p
             /\ Moved(m, p, st).status = st /\ Moved(m, p, st).expires = m.expires
  BY DEF MemoryState, Moved
<1>6. QED
  BY <1>1, <1>2, <1>3, <1>4, <1>5

(* One session changes.                                                    *)
LEMMA OneSession ==
  ASSUME SessionsIInv, NEW s \in Session,
         NEW m \in MemoryState, NEW g \in GenState, NEW d \in Files, NEW v \in StreamState,
         memory' = [memory EXCEPT ![s] = m], gen' = [gen EXCEPT ![s] = g],
         artifacts' = [artifacts EXCEPT ![s] = d], stream' = [stream EXCEPT ![s] = v],
         hour' = hour, SessionFits(m, g, d, v, hour)
  PROVE  SessionsIInv'
<1>1. /\ memory' \in [Session -> MemoryState] /\ gen' \in [Session -> GenState]
      /\ artifacts' \in [Session -> Files] /\ stream' \in [Session -> StreamState] /\ hour' \in Nat
  BY DEF SessionsIInv
<1>2. ASSUME NEW x \in Session
      PROVE  SessionFits(memory'[x], gen'[x], artifacts'[x], stream'[x], hour')
  <2>1. CASE x = s
    BY <2>1 DEF SessionsIInv
  <2>2. CASE x # s
    <3>1. /\ memory'[x] = memory[x] /\ gen'[x] = gen[x]
          /\ artifacts'[x] = artifacts[x] /\ stream'[x] = stream[x]
      BY <2>2 DEF SessionsIInv
    <3>2. QED
      BY <3>1 DEF SessionsIInv
  <2>3. QED
    BY <2>1, <2>2
<1>3. QED
  BY <1>1, <1>2 DEF SessionsIInv, SessionFits

(* A generation that fails, whatever it has put on disk.                   *)
LEMMA FailedSession ==
  ASSUME SessionsIInv, NEW s \in Session, gen[s] \in {"none", "community", "timeline", "tasks"},
         PlanFails(s), NEW d \in Files, artifacts' = [artifacts EXCEPT ![s] = d],
         UNCHANGED <<stream, hour>>
  PROVE  SessionsIInv'
<1>1. memory[s] \in MemoryState /\ stream[s] \in StreamState
      /\ stream' = [stream EXCEPT ![s] = stream[s]]
  BY DEF SessionsIInv
<1>2. PICK m \in MemoryState : memory' = [memory EXCEPT ![s] = m] /\ m.status = "error"
  <2>1. memory' = [memory EXCEPT ![s] = Moved(memory[s], 0, "error")]
    BY DEF PlanFails, Progress, Moved
  <2>2. Moved(memory[s], 0, "error") \in MemoryState /\ Moved(memory[s], 0, "error").status = "error"
    BY <1>1, SessionShapes
  <2>3. QED
    BY <2>1, <2>2
<1>3. gen' = [gen EXCEPT ![s] = "over"]
  BY DEF PlanFails
<1>4. SessionFits(m, "over", d, stream[s], hour)
  BY <1>2 DEF SessionFits
<1>5. QED
  BY <1>1, <1>2, <1>3, <1>4, OneSession DEF GenState

(* It completes over a whole PDF of this hour.                             *)
LEMMA CompletedSession ==
  ASSUME SessionsIInv, NEW s \in Session, NEW d \in Files, Completes(s, d),
         d["pdf"] = Whole(hour), d["pdf_meta"] = Whole(hour), UNCHANGED <<stream, hour>>
  PROVE  SessionsIInv'
<1> DEFINE e == [d EXCEPT !["json"] = Whole(hour), !["json_meta"] = Whole(hour)]
           m == [progress |-> 100, status |-> "completed", expires |-> hour + MaxAge]
<1>0. hour \in Nat /\ MaxAge \in Nat /\ stream[s] \in StreamState
      /\ stream' = [stream EXCEPT ![s] = stream[s]]
  BY SessionsAssumption DEF SessionsIInv
<1>1. d["pdf"] # NoArtifact /\ Whole(hour) \in OneFile
  BY <1>0, SessionShapes
<1>2. /\ memory' = [memory EXCEPT ![s] = m] /\ artifacts' = [artifacts EXCEPT ![s] = e]
      /\ gen' = [gen EXCEPT ![s] = "over"]
  BY <1>1 DEF Completes
<1>3. e \in Files /\ \A f \in File : e[f] = Whole(hour)
  BY <1>1 DEF Files, File
<1>4. m \in MemoryState /\ m.expires = hour + MaxAge /\ m.status = "completed" /\ m.progress = 100
  BY <1>0 DEF MemoryState
<1>5. m.expires - MaxAge = hour /\ m.expires \in Nat /\ m.expires >= MaxAge
  BY <1>0, <1>4
<1>6. SessionFits(m, "over", e, stream[s], hour)
  BY <1>3, <1>4, <1>5 DEF SessionFits
<1>7. PICK g \in GenState : g = "over"
  BY DEF GenState
<1>8. hour' = hour
  OBVIOUS
<1> HIDE DEF m, e
<1>9. m \in MemoryState /\ memory' = [memory EXCEPT ![s] = m]
  BY <1>2, <1>4
<1>10. e \in Files /\ artifacts' = [artifacts EXCEPT ![s] = e]
  BY <1>2, <1>3
<1>11. gen' = [gen EXCEPT ![s] = g] /\ SessionFits(m, g, e, stream[s], hour)
  BY <1>2, <1>6, <1>7
<1>12. QED
  BY ONLY SessionsIInv, s \in Session, <1>0, <1>8, <1>9, <1>10, <1>11, OneSession

LEMMA FilesWritten ==
  ASSUME SessionsIInv, NEW d \in Files, NEW f \in File, NEW k \in File
  PROVE  /\ [d EXCEPT ![f] = Broken(hour)] \in Files
         /\ [d EXCEPT ![f] = Whole(hour), ![k] = Broken(hour)] \in Files
         /\ SavedPdf(d) \in Files /\ SavedPdf(d)["pdf"] = Whole(hour)
         /\ SavedPdf(d)["pdf_meta"] = Whole(hour)
<1>1. hour \in Nat /\ Whole(hour) \in OneFile /\ Broken(hour) \in OneFile
  BY SessionShapes DEF SessionsIInv
<1>2. QED
  BY <1>1 DEF Files, File, SavedPdf

(* A generation goes on: from the progress p it now shows to where it      *)
(* awaits next.                                                            *)
LEMMA AdvancedSession ==
  ASSUME SessionsIInv, NEW s \in Session, NEW p \in 0 .. 100, NEW g \in GenState, NEW d \in Files,
         Progress(s, p, "processing"), gen' = [gen EXCEPT ![s] = g],
         artifacts' = [artifacts EXCEPT ![s] = d], UNCHANGED <<stream, hour>>,
         stream[s].open => stream[s].last <= p, memory[s].expires = Never,
         g \in {"community", "timeline", "tasks"},
         g = "community" => p = 65, g = "timeline" => p = 85,
         g = "tasks" => p = 96 /\ d["pdf"] = Whole(hour) /\ d["pdf_meta"] = Whole(hour)
  PROVE  SessionsIInv'
<1>1. memory[s] \in MemoryState /\ stream[s] \in StreamState
      /\ stream' = [stream EXCEPT ![s] = stream[s]] /\ hour' = hour
  BY DEF SessionsIInv
<1>2. PICK m \in MemoryState : m = [memory[s] EXCEPT !.progress = p, !.status = "processing"]
  BY <1>1 DEF MemoryState
<1>3. m.progress = p /\ m.status = "processing" /\ m.expires = Never
  BY <1>1, <1>2 DEF MemoryState
<1>4. memory' = [memory EXCEPT ![s] = m]
  BY <1>2 DEF Progress
<1>5. SessionFits(m, g, d, stream[s], hour)
  BY <1>3 DEF SessionFits
<1>6. QED
  BY ONLY SessionsIInv, s \in Session, g \in GenState, d \in Files, gen' = [gen EXCEPT ![s] = g],
     artifacts' = [artifacts EXCEPT ![s] = d], <1>1, <1>2, <1>4, <1>5, OneSession

LEMMA GeneratesStep ==
  ASSUME SessionsIInv, NEW s \in Session, Generates(s)
  PROVE  SessionsIInv'
<1>0. /\ memory \in [Session -> MemoryState] /\ gen \in [Session -> GenState]
      /\ artifacts \in [Session -> Files] /\ stream \in [Session -> StreamState] /\ hour \in Nat
      /\ memory[s] \in MemoryState /\ gen[s] \in GenState
      /\ artifacts[s] \in Files /\ stream[s] \in StreamState
      /\ SessionFits(memory[s], gen[s], artifacts[s], stream[s], hour)
  BY DEF SessionsIInv
<1>a. /\ artifacts = [artifacts EXCEPT ![s] = artifacts[s]]
      /\ stream = [stream EXCEPT ![s] = stream[s]]
  BY <1>0
<1>b. UNCHANGED <<stream, hour>>
  BY DEF Generates, StartPlan, CommunityDone, TimelineDone, TasksDone
<1>d. PICK g1 \in GenState, g2 \in GenState, g3 \in GenState :
        g1 = "community" /\ g2 = "timeline" /\ g3 = "tasks"
  BY DEF GenState
<1>e. PICK p1 \in 0 .. 100, p2 \in 0 .. 100, p3 \in 0 .. 100 : p1 = 65 /\ p2 = 85 /\ p3 = 96
  OBVIOUS
<1>1. CASE StartPlan(s)
  <2>1. gen[s] = "none" /\ memory[s] = NoSession /\ artifacts' = artifacts
    BY <1>1 DEF StartPlan
  <2>2. CASE PlanFails(s)
    BY <1>0, <1>a, <1>b, <2>1, <2>2, FailedSession
  <2>3. CASE Progress(s, 65, "processing") /\ gen' = [gen EXCEPT ![s] = "community"]
    <3>1. memory[s].expires = Never
      BY <2>1, SessionShapes
    <3>2. stream[s].open => stream[s].last <= p1
      BY <1>0, <1>e, <2>1 DEF SessionFits, Never
    <3>3. Progress(s, p1, "processing") /\ gen' = [gen EXCEPT ![s] = g1]
      BY <1>d, <1>e, <2>3
    <3>4. artifacts' = [artifacts EXCEPT ![s] = artifacts[s]]
      BY <1>a, <2>1
    <3>5. QED
      BY <1>0, <1>b, <1>d, <1>e, <3>1, <3>2, <3>3, <3>4, AdvancedSession
  <2>4. QED
    BY <1>1, <2>2, <2>3 DEF StartPlan
<1>2. CASE CommunityDone(s)
  <2>1. /\ gen[s] = "community" /\ Progress(s, 85, "processing")
        /\ gen' = [gen EXCEPT ![s] = "timeline"] /\ artifacts' = artifacts
    BY <1>2 DEF CommunityDone
  <2>2. memory[s].expires = Never /\ (stream[s].open => stream[s].last <= p2)
    BY <1>0, <1>e, <2>1 DEF SessionFits, StreamState
  <2>3. Progress(s, p2, "processing") /\ gen' = [gen EXCEPT ![s] = g2]
    BY <1>d, <1>e, <2>1
  <2>4. artifacts' = [artifacts EXCEPT ![s] = artifacts[s]]
    BY <1>a, <2>1
  <2>5. QED
    BY <1>0, <1>b, <1>d, <1>e, <2>2, <2>3, <2>4, AdvancedSession
<1>3. CASE TimelineDone(s)
  <2> DEFINE d == SavedPdf(artifacts[s])
  <2>1. gen[s] = "timeline"
    BY <1>3 DEF TimelineDone
  <2>2. d \in Files /\ d["pdf"] = Whole(hour) /\ d["pdf_meta"] = Whole(hour)
    BY <1>0, FilesWritten DEF File
  <2>3. CASE PlanFails(s) /\ UNCHANGED artifacts
    BY <1>0, <1>a, <1>b, <2>1, <2>3, FailedSession
  <2>4. CASE SaveFails(s, "pdf", "pdf_meta", artifacts[s]) \/ SaveFails(s, "json", "json_meta", d)
    <3>1. PICK e \in Files : artifacts' = [artifacts EXCEPT ![s] = e] /\ PlanFails(s)
      BY <1>0, <2>2, <2>4, FilesWritten DEF SaveFails, File
    <3>2. QED
      BY <1>b, <2>1, <3>1, FailedSession
  <2>5. CASE /\ Progress(s, 96, "processing") /\ gen' = [gen EXCEPT ![s] = "tasks"]
             /\ artifacts' = [artifacts EXCEPT ![s] = SavedPdf(@)]
    <3>1. artifacts' = [artifacts EXCEPT ![s] = d]
      BY <2>5
    <3> HIDE DEF d
    <3>2. memory[s].expires = Never /\ (stream[s].open => stream[s].last <= p3)
      BY <1>0, <1>e, <2>1 DEF SessionFits, StreamState
    <3>3. Progress(s, p3, "processing") /\ gen' = [gen EXCEPT ![s] = g3]
      BY <1>d, <1>e, <2>5
    <3>4. QED
      BY <1>b, <1>d, <1>e, <2>2, <3>1, <3>2, <3>3, AdvancedSession
  <2>6. CASE Completes(s, d)
    BY <1>b, <2>2, <2>6, CompletedSession
  <2>7. QED
    BY <1>3, <2>3, <2>4, <2>5, <2>6 DEF TimelineDone
<1>4. CASE TasksDone(s)
  <2>1. gen[s] = "tasks" /\ artifacts[s]["pdf"] = Whole(hour) /\ artifacts[s]["pdf_meta"] = Whole(hour)
    BY <1>0, <1>4 DEF TasksDone, SessionFits
  <2>2. CASE Completes(s, artifacts[s])
    BY <1>0, <1>b, <2>1, <2>2, CompletedSession
  <2>3. CASE SaveFails(s, "json", "json_meta", artifacts[s])
    <3>1. PICK e \in Files : artifacts' = [artifacts EXCEPT ![s] = e] /\ PlanFails(s)
      BY <1>0, <2>3, FilesWritten DEF SaveFails, File
    <3>2. QED
      BY <1>b, <2>1, <3>1, FailedSession
  <2>4. QED
    BY <1>4, <2>2, <2>3 DEF TasksDone
<1>5. QED
  BY <1>1, <1>2, <1>3, <1>4 DEF Generates

-----------------------------------------------------------------------------
(* The streams                                                             *)

(* What a stream of s shows next, given its entry.                         *)
LEMMA Shown ==
  ASSUME SessionsIInv, NEW s \in Session, StreamLooks(s)
  PROVE  \E v \in StreamState :
           /\ stream' = [stream EXCEPT ![s] = v]
           /\ memory[s].status = "absent" =>
                ~v.open /\ (v.end = "completed" => BothReady(s)) /\ (v.last = 100 \/ v.last = stream[s].last)
           /\ memory[s].status \in {"completed", "error"} =>
                ~v.open /\ v.last = memory[s].progress /\ v.end = memory[s].status
           /\ memory[s].status = "processing" =>
                v.open /\ v.last = memory[s].progress /\ v.end = stream[s].end
<1> DEFINE m == memory[s]
           v == stream[s]
<1>0. m \in MemoryState /\ v \in StreamState /\ stream[s].open
  BY DEF SessionsIInv, StreamLooks
<1>1. CASE m.status = "absent"
  <2>1. CASE BothReady(s)
    <3>1. stream' = [stream EXCEPT ![s] = Closes(s, 100, "completed")]
      BY <1>1, <2>1 DEF StreamLooks
    <3>2. /\ Closes(s, 100, "completed") \in StreamState /\ ~Closes(s, 100, "completed").open
          /\ Closes(s, 100, "completed").last = 100
      BY DEF Closes, StreamState
    <3>3. QED
      BY <1>1, <2>1, <3>1, <3>2
  <2>2. CASE ~BothReady(s)
    <3>1. stream' = [stream EXCEPT ![s] = Closes(s, v.last, "not_found")]
      BY <1>1, <2>2 DEF StreamLooks
    <3>2. /\ Closes(s, v.last, "not_found") \in StreamState /\ ~Closes(s, v.last, "not_found").open
          /\ Closes(s, v.last, "not_found").last = v.last
          /\ Closes(s, v.last, "not_found").end = "not_found"
      BY <1>0 DEF Closes, StreamState
    <3>3. QED
      BY <1>1, <2>2, <3>1, <3>2
  <2>3. QED
    BY <2>1, <2>2
<1>2. CASE m.status \in {"completed", "error"}
  <2>1. stream' = [stream EXCEPT ![s] = Closes(s, m.progress, m.status)]
    BY <1>2 DEF StreamLooks
  <2>2. /\ Closes(s, m.progress, m.status) \in StreamState /\ ~Closes(s, m.progress, m.status).open
        /\ Closes(s, m.progress, m.status).last = m.progress
        /\ Closes(s, m.progress, m.status).end = m.status
    BY <1>0, <1>2 DEF Closes, StreamState, MemoryState
  <2>3. QED
    BY <1>2, <2>1, <2>2
<1>3. CASE m.status = "processing"
  <2>a. m.progress \in -1 .. 100
    BY <1>0 DEF MemoryState
  <2>b. [v EXCEPT !.last = m.progress] \in StreamState
    BY <1>0, <2>a DEF StreamState
  <2>1. PICK w \in StreamState : w = [v EXCEPT !.last = m.progress]
    BY <2>b
  <2>2. stream' = [stream EXCEPT ![s] = w]
    BY <1>3, <2>1 DEF StreamLooks
  <2>3. w.open /\ w.last = m.progress /\ w.end = v.end
    BY <1>0, <2>1 DEF StreamState
  <2>4. QED
    BY <1>3, <2>2, <2>3
<1>4. QED
  BY <1>0, <1>1, <1>2, <1>3 DEF MemoryState

LEMMA StreamStep ==
  ASSUME SessionsIInv, NEW s \in Session, OpenStream(s) \/ StreamLooks(s)
  PROVE  SessionsIInv'
<1>0. /\ memory[s] \in MemoryState /\ gen[s] \in GenState
      /\ artifacts[s] \in Files /\ stream[s] \in StreamState
      /\ SessionFits(memory[s], gen[s], artifacts[s], stream[s], hour)
  BY DEF SessionsIInv
<1>1. /\ memory' = [memory EXCEPT ![s] = memory[s]] /\ gen' = [gen EXCEPT ![s] = gen[s]]
      /\ artifacts' = [artifacts EXCEPT ![s] = artifacts[s]] /\ hour' = hour
  BY DEF SessionsIInv, OpenStream, StreamLooks
<1>2. PICK v \in StreamState :
        /\ stream' = [stream EXCEPT ![s] = v]
        /\ ~v.open \/ v.last = Never \/ (memory[s].status = "processing" /\ v.last = memory[s].progress)
  <2>1. CASE OpenStream(s)
    <3>1. [open |-> TRUE, last |-> Never, end |-> "none"] \in StreamState
      BY DEF StreamState, Never
    <3>2. PICK v \in StreamState : v = [open |-> TRUE, last |-> Never, end |-> "none"]
      BY <3>1
    <3>3. v.last = Never /\ stream' = [stream EXCEPT ![s] = v]
      BY <2>1, <3>2 DEF OpenStream
    <3>4. QED
      BY <3>3
  <2>2. CASE StreamLooks(s)
    BY <1>0, <2>2, Shown DEF MemoryState
  <2>3. QED
    BY <2>1, <2>2
<1>3. memory[s].progress \in 0 .. 100
  BY <1>0 DEF MemoryState
<1>4. v.open /\ memory[s].status = "processing" => v.last <= memory[s].progress
  BY <1>2, <1>3 DEF Never
<1>5. gen[s] = "none" /\ v.open => v.last = Never
  BY <1>0, <1>2 DEF SessionFits
<1>6. SessionFits(memory[s], gen[s], artifacts[s], v, hour)
  BY <1>0, <1>4, <1>5 DEF SessionFits
<1>7. QED
  BY <1>0, <1>1, <1>2, <1>6, OneSession

-----------------------------------------------------------------------------
(* Time, cleanups, restarts                                                *)

(* A cleanup leaves what a session that is not over its day needs.         *)
LEMMA CleanedFiles ==
  ASSUME SessionsIInv, NEW s \in Session, NEW file \in File, NEW meta \in File,
         file \in {"pdf", "json"}, file = "pdf" => meta = "pdf_meta", file = "json" => meta = "json_meta"
  PROVE  /\ Cleaned(artifacts[s], file, meta) \in Files
         /\ SessionFits(memory[s], gen[s], Cleaned(artifacts[s], file, meta), stream[s], hour)
<1> DEFINE d == artifacts[s]
           e == [d EXCEPT ![file] = NoArtifact, ![meta] = NoArtifact]
<1>0. /\ d \in Files /\ memory[s] \in MemoryState /\ hour \in Nat /\ MaxAge \in Nat
      /\ SessionFits(memory[s], gen[s], d, stream[s], hour)
      /\ Cleaned(d, file, meta) \in {d, e}
  BY SessionsAssumption DEF SessionsIInv, Cleaned
<1>1. e \in Files
  BY <1>0, SessionShapes DEF Files
<1>2. Cleaned(d, file, meta) \in Files
  BY <1>0, <1>1
<1>3. \A t \in Nat : t >= hour - MaxAge /\ d[meta] = Whole(t) => Cleaned(d, file, meta) = d
  BY <1>0, SessionShapes DEF Cleaned, OldArtifact
<1>4. memory[s].status = "completed" /\ hour <= memory[s].expires => Cleaned(d, file, meta) = d
  <2>1. SUFFICES ASSUME memory[s].status = "completed", hour <= memory[s].expires
                 PROVE  Cleaned(d, file, meta) = d
    OBVIOUS
  <2>2. memory[s].expires \in Nat /\ memory[s].expires >= MaxAge
        /\ d[meta] = Whole(memory[s].expires - MaxAge)
    BY <1>0, <2>1 DEF SessionFits
  <2>3. PICK t \in Nat : t = memory[s].expires - MaxAge
    BY <1>0, <2>2
  <2>4. t >= hour - MaxAge
    BY <1>0, <2>1, <2>2, <2>3
  <2>5. QED
    BY <1>3, <2>2, <2>3, <2>4
<1>5. gen[s] = "tasks" => /\ Cleaned(d, file, meta)["pdf"] = Whole(hour)
                          /\ Cleaned(d, file, meta)["pdf_meta"] = Whole(hour)
  <2>1. CASE file = "pdf"
    BY <1>0, <1>3, <2>1 DEF SessionFits
  <2>2. CASE file = "json"
    <3>1. e["pdf"] = d["pdf"] /\ e["pdf_meta"] = d["pdf_meta"]
      BY <1>0, <2>2 DEF Files, File
    <3>2. QED
      BY <1>0, <3>1 DEF SessionFits
  <2>3. QED
    BY <2>1, <2>2
<1> HIDE DEF e
<1>6. QED
  BY <1>0, <1>2, <1>4, <1>5 DEF SessionFits

LEMMA SessionsStep == SessionsIInv /\ [SessionsNext]_sessionsVars => SessionsIInv'
<1> SUFFICES ASSUME SessionsIInv, [SessionsNext]_sessionsVars PROVE SessionsIInv'
  OBVIOUS
<1>0. /\ memory \in [Session -> MemoryState] /\ gen \in [Session -> GenState]
      /\ artifacts \in [Session -> Files] /\ stream \in [Session -> StreamState] /\ hour \in Nat
      /\ \A s \in Session : SessionFits(memory[s], gen[s], artifacts[s], stream[s], hour)
      /\ MaxAge \in Nat
  BY SessionsAssumption DEF SessionsIInv
<1>1. CASE HourPasses
  <2>1. /\ \A s \in Session : gen[s] \notin {"community", "timeline", "tasks"}
        /\ hour' = hour + 1 /\ UNCHANGED <<memory, gen, artifacts, stream>>
    BY <1>1 DEF HourPasses
  <2>2. ASSUME NEW s \in Session PROVE SessionFits(memory[s], gen[s], artifacts[s], stream[s], hour + 1)
    <3>1. memory[s].status = "completed" => memory[s].expires \in Nat
      BY <1>0 DEF SessionFits
    <3>2. memory[s].status = "completed" /\ hour + 1 <= memory[s].expires => hour <= memory[s].expires
      BY <1>0, <3>1
    <3>3. QED
      BY <1>0, <2>1, <3>2 DEF SessionFits
  <2>3. QED
    BY <1>0, <2>1, <2>2 DEF SessionsIInv, SessionFits
<1>2. CASE CleanSessions
  <2>1. /\ memory' = [s \in Session |-> IF memory[s].expires # Never /\ hour > memory[s].expires
                                         THEN NoSession ELSE memory[s]]
        /\ UNCHANGED <<gen, artifacts, stream, hour>>
    BY <1>2 DEF CleanSessions
  <2>2. memory' \in [Session -> MemoryState]
    BY <1>0, <2>1, SessionShapes
  <2>3. ASSUME NEW s \in Session
        PROVE  SessionFits(memory'[s], gen'[s], artifacts'[s], stream'[s], hour')
    <3>1. CASE memory'[s] = memory[s]
      BY <1>0, <2>1, <3>1
    <3>2. CASE memory'[s] = NoSession /\ memory[s].expires # Never
      <4>1. NoSession.status = "absent" /\ gen[s] \notin {"community", "timeline", "tasks"}
        BY <1>0, <3>2, SessionShapes DEF SessionFits
      <4>2. QED
        BY <1>0, <2>1, <3>2, <4>1 DEF SessionFits
    <3>3. QED
      BY <2>1, <3>1, <3>2
  <2>4. QED
    BY <1>0, <2>1, <2>2, <2>3 DEF SessionsIInv, SessionFits
<1>3. ASSUME NEW file \in File, NEW meta \in File, CleanFiles(file, meta),
             file \in {"pdf", "json"}, file = "pdf" => meta = "pdf_meta", file = "json" => meta = "json_meta"
      PROVE  SessionsIInv'
  <2>1. /\ artifacts' = [s \in Session |-> Cleaned(artifacts[s], file, meta)]
        /\ UNCHANGED <<memory, gen, stream, hour>>
    BY <1>3 DEF CleanFiles
  <2>2. \A s \in Session : /\ Cleaned(artifacts[s], file, meta) \in Files
                           /\ SessionFits(memory[s], gen[s], Cleaned(artifacts[s], file, meta), stream[s], hour)
    BY <1>3, CleanedFiles
  <2>3. artifacts' \in [Session -> Files]
        /\ \A s \in Session : artifacts'[s] = Cleaned(artifacts[s], file, meta)
    BY <2>1, <2>2
  <2>4. QED
    BY <1>0, <2>1, <2>2, <2>3 DEF SessionsIInv, SessionFits
<1>4. CASE Restart
  <2>1. /\ memory' = [s \in Session |-> NoSession] /\ stream' = [s \in Session |-> Closed]
        /\ gen' = [s \in Session |-> IF gen[s] = "none" THEN "none" ELSE "over"] /\ hour' = hour
    BY <1>4 DEF Restart
  <2>2. memory' \in [Session -> MemoryState] /\ stream' \in [Session -> StreamState]
    BY <2>1, SessionShapes
  <2>3. gen' \in [Session -> GenState]
        /\ \A s \in Session : gen'[s] \notin {"community", "timeline", "tasks"}
    BY <2>1 DEF GenState
  <2>4. artifacts' \in [Session -> Files]
    <3>1. CASE UNCHANGED artifacts
      BY <1>0, <3>1
    <3>2. ASSUME NEW s \in Session, NEW f \in File, NEW k \in File,
                 \/ artifacts' = [artifacts EXCEPT ![s][f] = Broken(hour)]
                 \/ artifacts' = [artifacts EXCEPT ![s][f] = Whole(hour), ![s][k] = Broken(hour)]
          PROVE  artifacts' \in [Session -> Files]
      <4>1. PICK d \in Files : d = [artifacts[s] EXCEPT ![f] = Broken(hour)]
        BY <1>0, FilesWritten
      <4>2. PICK e \in Files : e = [artifacts[s] EXCEPT ![f] = Whole(hour), ![k] = Broken(hour)]
        BY <1>0, FilesWritten
      <4>3. artifacts' = [artifacts EXCEPT ![s] = d] \/ artifacts' = [artifacts EXCEPT ![s] = e]
        BY <1>0, <3>2, <4>1, <4>2
      <4>4. QED
        BY <1>0, <4>3
    <3>3. QED
      BY <1>4, <3>1, <3>2 DEF Restart, File
  <2>5. \A s \in Session : SessionFits(memory'[s], gen'[s], artifacts'[s], stream'[s], hour')
    BY <2>1, <2>3, SessionShapes DEF SessionFits
  <2>6. QED
    BY <1>0, <2>1, <2>2, <2>3, <2>4, <2>5 DEF SessionsIInv, SessionFits
<1>5. CASE UNCHANGED sessionsVars
  BY <1>0, <1>5 DEF sessionsVars, SessionsIInv, SessionFits
<1>6. CASE CleanFiles("pdf", "pdf_meta") \/ CleanFiles("json", "json_meta")
  BY <1>3, <1>6 DEF File
<1>7. QED
  BY <1>1, <1>2, <1>4, <1>5, <1>6, GeneratesStep, StreamStep DEF SessionsNext

LEMMA SessionsStart == SessionsInit => SessionsIInv
<1> SUFFICES ASSUME SessionsInit PROVE SessionsIInv
  OBVIOUS
<1>1. memory \in [Session -> MemoryState] /\ stream \in [Session -> StreamState]
  BY SessionShapes DEF SessionsInit
<1>2. gen \in [Session -> GenState]
  BY DEF SessionsInit, GenState
<1>3. artifacts \in [Session -> Files] /\ hour \in Nat
  BY SessionShapes DEF SessionsInit, Files
<1>4. \A s \in Session : SessionFits(memory[s], gen[s], artifacts[s], stream[s], hour)
  BY SessionShapes DEF SessionsInit, SessionFits
<1>5. QED
  BY <1>1, <1>2, <1>3, <1>4 DEF SessionsIInv

LEMMA SessionsImplied == SessionsIInv => SessionsInv
<1> SUFFICES ASSUME SessionsIInv PROVE SessionsInv
  OBVIOUS
<1>1. SessionsTypeOK
  BY DEF SessionsIInv, SessionsTypeOK, SessionFits, MemoryState, GenState, Files, OneFile, StreamState
<1>2. CompletedServed
  <2>1. ASSUME NEW s \in Session, memory[s].status = "completed", hour <= memory[s].expires, NEW f \in File
        PROVE  artifacts[s][f].whole
    <3>1. PICK t \in Nat : artifacts[s][f] = Whole(t)
      BY <2>1, SessionsAssumption DEF SessionsIInv, SessionFits
    <3>2. QED
      BY <3>1, SessionShapes
  <2>2. QED
    BY <2>1 DEF CompletedServed, File
<1>3. QED
  BY <1>1, <1>2 DEF SessionsInv

-----------------------------------------------------------------------------
(* What the streams show                                                   *)

(* Every step but a look, an opening or a restart leaves the streams alone.*)
LEMMA StreamChanges ==
  ASSUME SessionsIInv, [SessionsNext]_sessionsVars, NEW s \in Session
  PROVE  \/ stream'[s] = stream[s]
         \/ OpenStream(s) /\ stream'[s].end = "none"
         \/ StreamLooks(s)
         \/ crashes' # crashes /\ stream'[s].end = "none"
<1>0. stream \in [Session -> StreamState]
  BY DEF SessionsIInv
<1>1. ASSUME NEW x \in Session, OpenStream(x) \/ StreamLooks(x), x # s PROVE stream'[s] = stream[s]
  BY <1>0, <1>1 DEF OpenStream, StreamLooks
<1>2. OpenStream(s) => stream'[s].end = "none"
  BY <1>0 DEF OpenStream
<1>3. CASE Restart
  <2>1. stream'[s] = Closed /\ crashes' = crashes + 1 /\ crashes < MaxCrashes
    BY <1>3 DEF Restart
  <2>2. Closed.end = "none"
    BY DEF Closed
  <2>3. QED
    BY <2>1, <2>2
<1>4. ASSUME NEW x \in Session, Generates(x) PROVE stream'[s] = stream[s]
  BY <1>4 DEF Generates, StartPlan, CommunityDone, TimelineDone, TasksDone
<1>5. CASE HourPasses \/ CleanSessions \/ CleanFiles("pdf", "pdf_meta") \/ CleanFiles("json", "json_meta")
           \/ UNCHANGED sessionsVars
  BY <1>5 DEF HourPasses, CleanSessions, CleanFiles, sessionsVars
<1>6. QED
  BY <1>1, <1>2, <1>3, <1>4, <1>5 DEF SessionsNext

LEMMA BarForward ==
  SessionsIInv /\ [SessionsNext]_sessionsVars =>
    \A s \in Session :
      stream[s].open /\ crashes' = crashes /\ stream'[s].end # "error" =>
        stream'[s].last >= stream[s].last
<1> SUFFICES ASSUME SessionsIInv, [SessionsNext]_sessionsVars, NEW s \in Session,
                    stream[s].open, crashes' = crashes, stream'[s].end # "error"
             PROVE  stream'[s].last >= stream[s].last
  OBVIOUS
<1>1. /\ stream \in [Session -> StreamState] /\ memory[s] \in MemoryState /\ stream[s].last \in -1 .. 100
      /\ SessionFits(memory[s], gen[s], artifacts[s], stream[s], hour)
  BY DEF SessionsIInv, StreamState
<1>2. CASE stream'[s] = stream[s]
  BY <1>1, <1>2
<1>3. CASE StreamLooks(s)
  <2>1. PICK v \in StreamState :
          /\ stream' = [stream EXCEPT ![s] = v]
          /\ memory[s].status = "absent" => v.last = 100 \/ v.last = stream[s].last
          /\ memory[s].status \in {"completed", "error"} =>
                v.last = memory[s].progress /\ v.end = memory[s].status
          /\ memory[s].status = "processing" => v.last = memory[s].progress
    BY <1>3, Shown
  <2>2. stream'[s] = v
    BY <1>1, <2>1
  <2>3. CASE memory[s].status = "absent"
    BY <1>1, <2>1, <2>2, <2>3
  <2>4. CASE memory[s].status = "completed"
    BY <1>1, <2>1, <2>2, <2>4 DEF SessionFits
  <2>5. CASE memory[s].status = "error"
    BY <2>1, <2>2, <2>5
  <2>6. CASE memory[s].status = "processing"
    BY <1>1, <2>1, <2>2, <2>6 DEF SessionFits
  <2>7. QED
    BY <1>1, <2>3, <2>4, <2>5, <2>6 DEF MemoryState
<1>4. CASE OpenStream(s)
  BY <1>4 DEF OpenStream
<1>5. QED
  BY <1>2, <1>3, <1>4, StreamChanges

LEMMA EndOverBoth ==
  SessionsIInv /\ [SessionsNext]_sessionsVars =>
    \A s \in Session :
      stream'[s].end = "completed" /\ stream[s].end # "completed" /\ hour <= MaxAge =>
        OnDisk(s, "pdf") /\ OnDisk(s, "json")
<1> SUFFICES ASSUME SessionsIInv, [SessionsNext]_sessionsVars, NEW s \in Session,
                    stream'[s].end = "completed", stream[s].end # "completed", hour <= MaxAge
             PROVE  OnDisk(s, "pdf") /\ OnDisk(s, "json")
  OBVIOUS
<1>1. /\ stream \in [Session -> StreamState] /\ memory[s] \in MemoryState
      /\ SessionFits(memory[s], gen[s], artifacts[s], stream[s], hour) /\ hour \in Nat /\ MaxAge \in Nat
  BY SessionsAssumption DEF SessionsIInv
<1>2. StreamLooks(s)
  BY StreamChanges
<1>3. PICK v \in StreamState :
        /\ stream' = [stream EXCEPT ![s] = v]
        /\ memory[s].status = "absent" => (v.end = "completed" => BothReady(s))
        /\ memory[s].status \in {"completed", "error"} => v.end = memory[s].status
        /\ memory[s].status = "processing" => v.end = stream[s].end
  BY <1>2, Shown
<1>4. stream'[s] = v
  BY <1>1, <1>3
<1>5. CASE memory[s].status = "absent"
  BY <1>3, <1>4, <1>5 DEF BothReady
<1>6. CASE memory[s].status = "completed"
  <2>1. memory[s].expires \in Nat /\ memory[s].expires >= MaxAge
    BY <1>1, <1>6 DEF SessionFits
  <2>2. hour <= memory[s].expires
    BY <1>1, <2>1
  <2>3. PICK t \in Nat : \A f \in File : artifacts[s][f] = Whole(t)
    BY <1>1, <1>6, <2>1, <2>2 DEF SessionFits
  <2>4. QED
    BY <2>3, SessionShapes DEF OnDisk, File
<1>7. CASE memory[s].status \in {"error", "processing"}
  BY <1>3, <1>4, <1>7
<1>8. QED
  BY <1>1, <1>5, <1>6, <1>7 DEF MemoryState

(* A session that says completed has its four files whole for its day,     *)
(* whatever the hourly cleanups, failed writes and restarts do in between: *)
(* for any number of sessions and any age limit.                           *)
THEOREM CompletedIsServed == SessionsSpec => []SessionsInv
<1>1. QED
  BY SessionsStart, SessionsStep, SessionsImplied, PTL DEF SessionsSpec

(* The progress a stream shows does not run back, though the generation    *)
(* sets 98 before it awaits at 96.                                         *)
THEOREM BarsOnlyRise == SessionsSpec => ProgressForward
<1>1. SessionsIInv /\ [SessionsNext]_sessionsVars =>
        [\A s \in Session :
           stream[s].open /\ crashes' = crashes /\ stream'[s].end # "error" =>
             stream'[s].last >= stream[s].last]_sessionsVars
  BY BarForward
<1>2. QED
  BY <1>1, SessionsStart, SessionsStep, PTL DEF SessionsSpec, ProgressForward

(* progress_stream says completed over both files only, of this process or *)
(* of one before a restart.                                                *)
THEOREM CompletedOverBoth == SessionsSpec => CompletedHasBoth
<1>1. SessionsIInv /\ [SessionsNext]_sessionsVars =>
        [\A s \in Session :
           stream'[s].end = "completed" /\ stream[s].end # "completed" /\ hour <= MaxAge =>
             OnDisk(s, "pdf") /\ OnDisk(s, "json")]_sessionsVars
  BY EndOverBoth
<1>2. QED
  BY <1>1, SessionsStart, SessionsStep, PTL DEF SessionsSpec, CompletedHasBoth

-----------------------------------------------------------------------------
(* The campaign plan Lambda                                                *)

(* What holds of one message: how far its invocation is says what there    *)
(* is, and a message that is received no more was told of or is lost.      *)
MessageInv(m) ==
  /\ (lambdaWork[m] # "none") = (inputQueue[m].at = "flight")
  /\ inputQueue[m].at = "unsent" => inputQueue[m].count = 0
  /\ inputQueue[m].at = "flight" => inputQueue[m].count > 0
  /\ lambdaWork[m] \in {"written", "sent"} => <<m, inputQueue[m].count>> \in results
  /\ lambdaWork[m] = "sent" => <<m, "completed", inputQueue[m].count>> \in gpapi
  /\ inputQueue[m].at = "visible" /\ inputQueue[m].count = Redrive /\ inputQueue[m].body # "no_campaign"
       /\ m \notin lost =>
       \E s \in {"completed", "error"} : <<m, s, inputQueue[m].count>> \in gpapi

LambdaTypes ==
  /\ inputQueue \in [Message -> QueueEntry]
  /\ lambdaWork \in [Message -> WorkStep]
  /\ results \subseteq Message \X (1 .. Redrive)
  /\ gpapi \subseteq Message \X {"completed", "error"} \X (1 .. Redrive)

LambdaIInv == LambdaTypes /\ ResultThere /\ \A m \in Message : MessageInv(m)

LEMMA LambdaImplied == LambdaIInv => LambdaInv
<1> SUFFICES ASSUME LambdaIInv PROVE LambdaInv
  OBVIOUS
<1>1. LambdaTypeOK
  BY DEF LambdaIInv, LambdaTypes, LambdaTypeOK, MessageInv
<1>2. ASSUME NEW m \in Message, inputQueue[m].at = "visible", inputQueue[m].count = Redrive,
             inputQueue[m].body # "no_campaign", m \notin lost
      PROVE  \E s \in {"completed", "error"}, c \in 1 .. Redrive : <<m, s, c>> \in gpapi
  <2>1. Redrive \in 1 .. Redrive
    BY LambdaAssumption
  <2>2. QED
    BY <1>2, <2>1 DEF LambdaIInv, MessageInv
<1>3. QED
  BY <1>1, <1>2 DEF LambdaInv, LambdaIInv, DeadLettersTold

LEMMA LambdaBase == LambdaInit => LambdaIInv
<1> SUFFICES ASSUME LambdaInit PROVE LambdaIInv
  OBVIOUS
<1>1. PICK b \in [Message -> MessageBody] : inputQueue = [m \in Message |-> [body |-> b[m], at |-> "unsent", count |-> 0]]
  BY DEF LambdaInit
<1>2. 0 \in 0 .. Redrive
  BY LambdaAssumption
<1>3. LambdaTypes
  BY <1>1, <1>2 DEF LambdaInit, LambdaTypes, QueueEntry, WorkStep
<1>4. \A m \in Message : MessageInv(m)
  BY <1>1 DEF LambdaInit, MessageInv
<1>5. QED
  BY <1>3, <1>4 DEF LambdaIInv, LambdaInit, ResultThere

-----------------------------------------------------------------------------
(* Steps of one message                                                    *)

(* A step of another message leaves what is said of this one, as results   *)
(* and answers only grow.                                                  *)
LEMMA OtherMessage ==
  ASSUME NEW m \in Message, MessageInv(m), inputQueue'[m] = inputQueue[m], lambdaWork'[m] = lambdaWork[m],
         results \subseteq results', gpapi \subseteq gpapi', m \in lost => m \in lost'
  PROVE  MessageInv(m)'
BY DEF MessageInv

(* An entry that goes to another place, or is received once more.          *)
LEMMA QueuedFacts ==
  ASSUME LambdaTypes, NEW m \in Message, NEW p \in {"visible", "done", "dlq"}, Queued(m, p)
  PROVE  /\ inputQueue' \in [Message -> QueueEntry]
         /\ inputQueue'[m].at = p /\ inputQueue'[m].count = inputQueue[m].count
         /\ inputQueue'[m].body = inputQueue[m].body
         /\ \A n \in Message : n # m => inputQueue'[n] = inputQueue[n]
<1>1. inputQueue[m] \in QueueEntry
  BY DEF LambdaTypes
<1>2. [inputQueue[m] EXCEPT !.at = p] \in QueueEntry
  BY <1>1 DEF QueueEntry
<1>3. QED
  BY <1>1, <1>2 DEF Queued, LambdaTypes, QueueEntry

LEMMA WorkFacts ==
  ASSUME LambdaTypes, NEW m \in Message, NEW w \in WorkStep, WorkAt(m, w)
  PROVE  /\ lambdaWork' \in [Message -> WorkStep] /\ lambdaWork'[m] = w
         /\ \A n \in Message : n # m => lambdaWork'[n] = lambdaWork[n]
BY DEF LambdaTypes, WorkAt

LEMMA CountInRange ==
  ASSUME LambdaTypes, NEW m \in Message, MessageInv(m), lambdaWork[m] # "none"
  PROVE  inputQueue[m].count \in 1 .. Redrive /\ inputQueue[m].at = "flight"
<1>1. inputQueue[m] \in QueueEntry
  BY DEF LambdaTypes
<1>2. QED
  BY <1>1, LambdaAssumption DEF MessageInv, QueueEntry

(* An attempt that fails tells gp-api on the last receive, or is lost.     *)
LEMMA RaiseStep ==
  ASSUME MaxReceiveCount <= Redrive, LambdaIInv, NEW m \in Message, lambdaWork[m] # "none",
         NEW tells \in BOOLEAN, NEW told, Raise(m, tells, told),
         gpapi \subseteq told, told \subseteq Message \X {"completed", "error"} \X (1 .. Redrive),
         \A t \in told : t[2] = "completed" => <<t[1], t[3]>> \in results,
         UNCHANGED results
  PROVE  LambdaIInv'
<1> DEFINE c == inputQueue[m].count
<1>1. c \in 1 .. Redrive
  BY CountInRange DEF LambdaIInv
<1>2. Queued(m, "visible") /\ WorkAt(m, "none")
  BY DEF Raise
<1>3. lambdaWork' \in [Message -> WorkStep] /\ lambdaWork'[m] = "none"
      /\ \A n \in Message : n # m => lambdaWork'[n] = lambdaWork[n]
  BY <1>2, WorkFacts DEF LambdaIInv, WorkStep
<1>4. /\ inputQueue' \in [Message -> QueueEntry] /\ inputQueue'[m].at = "visible" /\ inputQueue'[m].count = c
      /\ \A n \in Message : n # m => inputQueue'[n] = inputQueue[n]
  BY <1>2, QueuedFacts DEF LambdaIInv
<1>5. told \subseteq gpapi' /\ gpapi' \subseteq told \cup {<<m, "error", c>>}
  BY DEF Raise
<1>6. lost \subseteq lost'
  BY DEF Raise
<1>7. c = Redrive => m \in lost' \/ <<m, "error", c>> \in gpapi'
  BY <1>1, LambdaAssumption DEF Raise, Last
<1>8. LambdaTypes'
  BY <1>1, <1>3, <1>4, <1>5 DEF LambdaTypes, LambdaIInv
<1>9. ResultThere'
  <2> SUFFICES ASSUME NEW t \in gpapi', t[2] = "completed" PROVE <<t[1], t[3]>> \in results
    BY DEF ResultThere
  <2>1. t # <<m, "error", c>>
    OBVIOUS
  <2>2. QED
    BY <1>5, <2>1
<1>10. ASSUME NEW n \in Message PROVE MessageInv(n)'
  <2>1. CASE n = m
    BY <1>1, <1>3, <1>4, <1>7, <2>1, LambdaAssumption DEF MessageInv
  <2>2. CASE n # m
    BY <1>3, <1>4, <1>5, <1>6, <2>2, OtherMessage DEF LambdaIInv
  <2>3. QED
    BY <2>1, <2>2
<1>11. QED
  BY <1>8, <1>9, <1>10 DEF LambdaIInv

(* An attempt that goes on, and writes or tells on its way.                *)
LEMMA WorkStepKeeps ==
  ASSUME LambdaIInv, NEW m \in Message, lambdaWork[m] # "none",
         NEW w \in WorkStep \ {"none"}, WorkAt(m, w), UNCHANGED <<inputQueue, lost>>,
         results \subseteq results', gpapi \subseteq gpapi',
         results' \subseteq results \cup {<<m, inputQueue[m].count>>},
         gpapi' \subseteq gpapi \cup {<<m, "completed", inputQueue[m].count>>},
         gpapi' # gpapi \/ w \in {"written", "sent"} => <<m, inputQueue[m].count>> \in results',
         w = "sent" => <<m, "completed", inputQueue[m].count>> \in gpapi'
  PROVE  LambdaIInv'
<1> DEFINE c == inputQueue[m].count
<1>1. c \in 1 .. Redrive /\ inputQueue[m].at = "flight"
  BY CountInRange DEF LambdaIInv
<1>2. lambdaWork' \in [Message -> WorkStep] /\ lambdaWork'[m] = w
      /\ \A n \in Message : n # m => lambdaWork'[n] = lambdaWork[n]
  BY WorkFacts DEF LambdaIInv
<1>3. LambdaTypes'
  BY <1>1, <1>2 DEF LambdaTypes, LambdaIInv
<1>4. ResultThere'
  BY DEF ResultThere, LambdaIInv
<1>5. ASSUME NEW n \in Message PROVE MessageInv(n)'
  <2>1. CASE n = m
    BY <1>1, <1>2, <2>1 DEF MessageInv, LambdaIInv
  <2>2. CASE n # m
    BY <1>2, <2>2, OtherMessage DEF LambdaIInv
  <2>3. QED
    BY <2>1, <2>2
<1>6. QED
  BY <1>3, <1>4, <1>5 DEF LambdaIInv

(* The message is sent, received, returned or killed.                      *)
LEMMA QueueStep ==
  ASSUME LambdaIInv, NEW m \in Message, GpApiSends(m) \/ Receive(m) \/ ReturnResult(m) \/ KillInvocation(m)
  PROVE  LambdaIInv'
<1>1. inputQueue[m] \in QueueEntry /\ lambdaWork[m] \in WorkStep /\ MessageInv(m)
  BY DEF LambdaIInv, LambdaTypes
<1>2. UNCHANGED <<results, gpapi>>
  BY DEF GpApiSends, Receive, ReturnResult, KillInvocation
<1>3. \A n \in Message : n # m =>
        inputQueue'[n] = inputQueue[n] /\ lambdaWork'[n] = lambdaWork[n] /\ (n \in lost => n \in lost')
  BY DEF GpApiSends, Receive, ReturnResult, KillInvocation, Queued, WorkAt, LambdaIInv, LambdaTypes
<1>4. inputQueue' \in [Message -> QueueEntry] /\ lambdaWork' \in [Message -> WorkStep] /\ MessageInv(m)'
  <2>1. CASE GpApiSends(m)
    <3>1. Queued(m, "visible") /\ lambdaWork' = lambdaWork
      BY <2>1 DEF GpApiSends
    <3>2. QED
      BY <1>1, <1>2, <2>1, <3>1, QueuedFacts, LambdaAssumption DEF GpApiSends, MessageInv, LambdaIInv, LambdaTypes
  <2>2. CASE Receive(m) /\ inputQueue[m].count = Redrive
    <3>1. Queued(m, "dlq") /\ lambdaWork' = lambdaWork
      BY <2>2 DEF Receive
    <3>2. QED
      BY <1>1, <1>2, <2>2, <3>1, QueuedFacts DEF Receive, MessageInv, LambdaIInv, LambdaTypes
  <2>3. CASE Receive(m) /\ inputQueue[m].count # Redrive
    <3> DEFINE received == [inputQueue[m] EXCEPT !.at = "flight", !.count = inputQueue[m].count + 1]
    <3>0. inputQueue[m].count + 1 \in 0 .. Redrive
      BY <1>1, <2>3, LambdaAssumption DEF QueueEntry
    <3>1. received \in QueueEntry /\ received.at = "flight" /\ received.count = inputQueue[m].count + 1
      BY <1>1, <3>0 DEF QueueEntry
    <3>2. inputQueue' \in [Message -> QueueEntry] /\ inputQueue'[m] = received
      BY <2>3, <3>1 DEF Receive, LambdaIInv, LambdaTypes
    <3>3. lambdaWork' \in [Message -> WorkStep] /\ lambdaWork'[m] = "started"
      BY <2>3, WorkFacts DEF Receive, LambdaIInv, WorkStep
    <3>4. QED
      BY <1>1, <3>1, <3>2, <3>3 DEF MessageInv, QueueEntry
  <2>4. CASE ReturnResult(m)
    <3>1. Queued(m, "done") /\ WorkAt(m, "none")
      BY <2>4 DEF ReturnResult
    <3>2. QED
      BY <1>1, <3>1, QueuedFacts, WorkFacts DEF MessageInv, LambdaIInv, WorkStep
  <2>5. CASE KillInvocation(m)
    <3>1. Queued(m, "visible") /\ WorkAt(m, "none")
      BY <2>5 DEF KillInvocation
    <3>2. m \in lost' \/ <<m, "completed", inputQueue[m].count>> \in gpapi
      BY <1>1, <2>5 DEF KillInvocation, MessageInv
    <3>3. QED
      BY <1>1, <1>2, <3>1, <3>2, QueuedFacts, WorkFacts DEF MessageInv, LambdaIInv, WorkStep
  <2>6. QED
    BY <2>1, <2>2, <2>3, <2>4, <2>5
<1>5. ASSUME NEW n \in Message PROVE MessageInv(n)'
  BY <1>2, <1>3, <1>4, OtherMessage DEF LambdaIInv
<1>6. QED
  BY <1>2, <1>4, <1>5 DEF LambdaIInv, LambdaTypes, ResultThere

(* Each call of the handler goes on or raises.                             *)
LEMMA HandleStep ==
  ASSUME MaxReceiveCount <= Redrive, LambdaIInv, NEW m \in Message,
         Parse(m) \/ SearchEvents(m) \/ FilterEvents(m) \/ WriteResult(m) \/ SendCompletion(m)
  PROVE  LambdaIInv'
<1> DEFINE c == inputQueue[m].count
           failed(told) == \E tells \in BOOLEAN : Raise(m, tells, told)
<1>1. \A t \in gpapi : t[2] = "completed" => <<t[1], t[3]>> \in results
  BY DEF LambdaIInv, ResultThere
<1>2. gpapi \subseteq Message \X {"completed", "error"} \X (1 .. Redrive)
  BY DEF LambdaIInv, LambdaTypes
<1>3. lambdaWork[m] # "none" /\ c \in 1 .. Redrive
  BY CountInRange DEF LambdaIInv, Parse, SearchEvents, FilterEvents, WriteResult, SendCompletion
<1>4. ASSUME failed(gpapi), UNCHANGED results PROVE LambdaIInv'
  BY <1>1, <1>2, <1>3, <1>4, RaiseStep
<1>5. ASSUME NEW w \in {"parsed", "searched", "filtered"}, WorkAt(m, w),
             UNCHANGED <<inputQueue, lost, results, gpapi>> PROVE LambdaIInv'
  BY <1>3, <1>5, WorkStepKeeps DEF WorkStep
<1>6. CASE Parse(m)
  <2>1. (inputQueue[m].body = "bad") \in BOOLEAN
    OBVIOUS
  <2>2. failed(gpapi) \/ (WorkAt(m, "parsed") /\ UNCHANGED <<inputQueue, lost, gpapi>>)
    BY <1>6, <2>1 DEF Parse
  <2>3. QED
    BY <1>4, <1>5, <1>6, <2>2 DEF Parse
<1>7. CASE SearchEvents(m)
  BY <1>4, <1>5, <1>7 DEF SearchEvents
<1>8. CASE FilterEvents(m)
  BY <1>4, <1>5, <1>8 DEF FilterEvents
<1>9. CASE WriteResult(m)
  <2>1. CASE WorkAt(m, "written") /\ results' = results \cup {<<m, c>>} /\ UNCHANGED <<inputQueue, gpapi, lost>>
    BY <1>3, <2>1, WorkStepKeeps DEF WorkStep
  <2>2. CASE Raise(m, TRUE, gpapi) /\ UNCHANGED results
    BY <1>4, <2>2
  <2>3. QED
    BY <1>9, <2>1, <2>2 DEF WriteResult
<1>10. CASE SendCompletion(m)
  <2> DEFINE told == gpapi \cup {<<m, "completed", c>>}
  <2>1. <<m, c>> \in results
    BY <1>10 DEF SendCompletion, LambdaIInv, MessageInv
  <2>2. CASE WorkAt(m, "sent") /\ gpapi' = told /\ UNCHANGED <<inputQueue, lost, results>>
    BY <1>3, <2>1, <2>2, WorkStepKeeps DEF WorkStep
  <2>3. CASE Raise(m, TRUE, told) /\ UNCHANGED results
    <3>1. \A t \in told : t[2] = "completed" => <<t[1], t[3]>> \in results
      BY <1>1, <2>1
    <3>2. told \subseteq Message \X {"completed", "error"} \X (1 .. Redrive)
      BY <1>2, <1>3
    <3>3. QED
      BY <1>3, <2>3, <3>1, <3>2, RaiseStep
  <2>4. CASE Raise(m, TRUE, gpapi) /\ UNCHANGED results
    BY <1>4, <2>4
  <2>5. QED
    BY <1>10, <2>2, <2>3, <2>4 DEF SendCompletion
<1>11. QED
  BY <1>6, <1>7, <1>8, <1>9, <1>10

-----------------------------------------------------------------------------
LEMMA LambdaStep ==
  ASSUME MaxReceiveCount <= Redrive, LambdaIInv, [LambdaNext]_lambdaVars
  PROVE  LambdaIInv'
<1>1. CASE UNCHANGED lambdaVars
  BY <1>1 DEF lambdaVars, LambdaIInv, LambdaTypes, ResultThere, MessageInv
<1>2. ASSUME NEW m \in Message, GpApiSends(m) \/ Handles(m) \/ KillInvocation(m) PROVE LambdaIInv'
  BY <1>2, QueueStep, HandleStep DEF Handles
<1>3. QED
  BY <1>1, <1>2 DEF LambdaNext

(* If the handler's last receive is not after the queue's, then whatever   *)
(* fails or is killed, gp-api can fetch what it is told of, and no message *)
(* with a campaign goes to the dead letters without an answer, but for     *)
(* those whose last attempt could not give one.                            *)
THEOREM LambdaSound == ASSUME MaxReceiveCount <= Redrive PROVE LambdaSpec => []LambdaInv
<1>1. LambdaInit => LambdaIInv
  BY LambdaBase
<1>2. LambdaIInv /\ [LambdaNext]_lambdaVars => LambdaIInv'
  BY LambdaStep
<1>3. LambdaIInv => LambdaInv
  BY LambdaImplied
<1>4. QED
  BY <1>1, <1>2, <1>3, PTL DEF LambdaSpec

-----------------------------------------------------------------------------
(* Who was told of an error has nothing coming any more.                   *)
ErrorInv ==
  \A m \in Message : (\E c \in 1 .. Redrive : <<m, "error", c>> \in gpapi) =>
    inputQueue[m].at = "dlq" \/ (inputQueue[m].at = "visible" /\ inputQueue[m].count = Redrive)

(* Where a message is told of: its own invocation only, of an error only   *)
(* on the last receive and with the message put back.                      *)
LEMMA ToldStep ==
  ASSUME MaxReceiveCount = Redrive, LambdaIInv, NEW m \in Message, Handles(m)
  PROVE  /\ \A t \in gpapi' : t \in gpapi \/ t[1] = m
         /\ \A c \in 1 .. Redrive : <<m, "error", c>> \in gpapi' =>
              \/ <<m, "error", c>> \in gpapi
              \/ inputQueue[m].count = Redrive /\ inputQueue' = [inputQueue EXCEPT ![m].at = "visible"]
         /\ \A n \in Message : n # m => inputQueue'[n] = inputQueue[n]
<1>1. inputQueue[m].count \in 0 .. Redrive
  BY DEF LambdaIInv, LambdaTypes, QueueEntry
<1>2. ASSUME NEW tells, NEW told, Raise(m, tells, told), told \in {gpapi, gpapi \cup {<<m, "completed", inputQueue[m].count>>}}
      PROVE  /\ \A t \in gpapi' : t \in gpapi \/ t[1] = m
             /\ \A c \in 1 .. Redrive : <<m, "error", c>> \in gpapi' =>
                  \/ <<m, "error", c>> \in gpapi
                  \/ inputQueue[m].count = Redrive /\ inputQueue' = [inputQueue EXCEPT ![m].at = "visible"]
             /\ \A n \in Message : n # m => inputQueue'[n] = inputQueue[n]
  BY <1>1, <1>2, LambdaAssumption DEF Raise, Queued, Last, LambdaIInv, LambdaTypes
<1>3. \A n \in Message : n # m => inputQueue'[n] = inputQueue[n]
  BY <1>2 DEF Handles, Receive, Parse, SearchEvents, FilterEvents, WriteResult, SendCompletion, ReturnResult,
              Queued, LambdaIInv, LambdaTypes
<1>4. CASE gpapi' \subseteq gpapi \cup {<<m, "completed", inputQueue[m].count>>}
  BY <1>3, <1>4
<1>5. CASE \E tells \in BOOLEAN : \E told \in {gpapi, gpapi \cup {<<m, "completed", inputQueue[m].count>>}} : Raise(m, tells, told)
  BY <1>2, <1>5
<1>6. QED
  BY <1>4, <1>5 DEF Handles, Receive, Parse, SearchEvents, FilterEvents, WriteResult, SendCompletion, ReturnResult

(* A message that gp-api was told an error of is at most moved away.       *)
LEMMA ErrorStep ==
  ASSUME MaxReceiveCount = Redrive, LambdaIInv, ErrorInv, LambdaNext, NEW m \in Message,
         NEW c \in 1 .. Redrive, <<m, "error", c>> \in gpapi
  PROVE  /\ inputQueue'[m].at = "dlq" \/ (inputQueue'[m].at = "visible" /\ inputQueue'[m].count = Redrive)
         /\ {t \in gpapi' : t[1] = m} = {t \in gpapi : t[1] = m}
<1>1. inputQueue[m].at = "dlq" \/ (inputQueue[m].at = "visible" /\ inputQueue[m].count = Redrive)
  BY DEF ErrorInv
<1>2. lambdaWork[m] = "none"
  BY <1>1 DEF LambdaIInv, MessageInv
<1>3. gpapi \subseteq gpapi'
  BY DEF LambdaNext, GpApiSends, KillInvocation, Handles, Receive, Parse, SearchEvents, FilterEvents,
         WriteResult, SendCompletion, ReturnResult, Raise
<1>4. ASSUME NEW n \in Message, n # m, Handles(n)
      PROVE  inputQueue'[m] = inputQueue[m] /\ \A t \in gpapi' : t \in gpapi \/ t[1] # m
  BY <1>4, ToldStep
<1>5. ASSUME Handles(m)
      PROVE  (inputQueue'[m].at = "dlq" /\ gpapi' = gpapi)
  <2>1. Receive(m) /\ inputQueue[m].count = Redrive
    BY <1>1, <1>2, <1>5 DEF Handles, Receive, Parse, SearchEvents, FilterEvents, WriteResult, SendCompletion, ReturnResult
  <2>2. Queued(m, "dlq") /\ gpapi' = gpapi
    BY <2>1 DEF Receive
  <2>3. QED
    BY <2>2, QueuedFacts DEF LambdaIInv
<1>6. ASSUME NEW n \in Message, GpApiSends(n) \/ KillInvocation(n)
      PROVE  gpapi' = gpapi /\ inputQueue'[m] = inputQueue[m]
  <2>1. n # m
    BY <1>1, <1>2, <1>6 DEF GpApiSends, KillInvocation
  <2>2. QED
    BY <1>6, <2>1 DEF GpApiSends, KillInvocation, Queued, LambdaIInv, LambdaTypes
<1>7. QED
  BY <1>1, <1>3, <1>4, <1>5, <1>6 DEF LambdaNext

LEMMA ErrorInvStep ==
  ASSUME MaxReceiveCount = Redrive, LambdaIInv, ErrorInv, [LambdaNext]_lambdaVars
  PROVE  ErrorInv'
<1> SUFFICES ASSUME NEW m \in Message, NEW c \in 1 .. Redrive, <<m, "error", c>> \in gpapi'
             PROVE  inputQueue'[m].at = "dlq" \/ (inputQueue'[m].at = "visible" /\ inputQueue'[m].count = Redrive)
  BY DEF ErrorInv
<1>1. CASE UNCHANGED lambdaVars
  BY <1>1 DEF lambdaVars, ErrorInv
<1>2. CASE LambdaNext /\ <<m, "error", c>> \in gpapi
  BY <1>2, ErrorStep
<1>3. CASE LambdaNext /\ <<m, "error", c>> \notin gpapi
  <2>1. PICK n \in Message : Handles(n)
    BY <1>3 DEF LambdaNext, GpApiSends, KillInvocation
  <2>2. n = m
    BY <1>3, <2>1, ToldStep
  <2>3. inputQueue[m].count = Redrive /\ inputQueue' = [inputQueue EXCEPT ![m].at = "visible"]
    BY <1>3, <2>1, <2>2, ToldStep
  <2>4. Queued(m, "visible")
    BY <2>3 DEF Queued
  <2>5. QED
    BY <2>3, <2>4, QueuedFacts DEF LambdaIInv
<1>4. QED
  BY <1>1, <1>2, <1>3

(* When the two receive counts agree, an error that gp-api is told of is   *)
(* its last word: no attempt and no result follows.                        *)
THEOREM ErrorsAreFinal == ASSUME MaxReceiveCount = Redrive PROVE LambdaSpec => ErrorFinal
<1>1. MaxReceiveCount <= Redrive
  BY LambdaAssumption
<1>2. LambdaInit => LambdaIInv /\ ErrorInv
  BY LambdaBase DEF LambdaInit, ErrorInv
<1>3. LambdaIInv /\ ErrorInv /\ [LambdaNext]_lambdaVars => (LambdaIInv /\ ErrorInv)'
  BY <1>1, LambdaStep, ErrorInvStep
<1>4. LambdaIInv /\ ErrorInv /\ [LambdaNext]_lambdaVars =>
        [\A m \in Message : (\E c \in 1 .. Redrive : <<m, "error", c>> \in gpapi) =>
            /\ inputQueue'[m].at # "flight"
            /\ {t \in gpapi' : t[1] = m} = {t \in gpapi : t[1] = m}]_lambdaVars
  BY ErrorStep
<1>5. QED
  BY <1>2, <1>3, <1>4, PTL DEF LambdaSpec, ErrorFinal

-----------------------------------------------------------------------------
(* The composition                                                         *)

(* What each program starts as, and what a step of the composition is for  *)
(* it.                                                                     *)
LEMMA EachStarts ==
  EndingsInit => BrowserInit /\ BatchInit /\ MatcherInit /\ QaInit /\ SessionsInit /\ LambdaInit
BY DEF EndingsInit

LEMMA EachSteps ==
  [EndingsNext]_endingsVars =>
    /\ [BrowserNext]_browserVars /\ [BatchNext]_batchVars /\ [MatcherNext]_matcherVars
    /\ [QaNext]_gateVars /\ [SessionsNext]_sessionsVars /\ [LambdaNext]_lambdaVars
BY DEF EndingsNext, endingsVars

(* The inductive invariants of the programs hold together.                 *)
EachInv ==
  /\ BrowserIInv /\ BatchIInv /\ MatcherIInv /\ GateIInv /\ SessionsIInv /\ LambdaIInv

LEMMA EachInvStart == EndingsInit => EachInv
BY EachStarts, BrowserBase, BatchStart, MatcherStart, GateStart, SessionsStart, LambdaBase DEF EachInv

LEMMA EachInvStep ==
  ASSUME MaxReceiveCount <= Redrive, EachInv, [EndingsNext]_endingsVars
  PROVE  EachInv'
BY EachSteps, BrowserStep, BatchStep, MatcherStep, GateStep, SessionsStep, LambdaStep DEF EachInv

(* The programs side by side, as the instance composes them, keep the      *)
(* invariants of each: none reads or writes what is another's.             *)
THEOREM ProgramsSound ==
  ASSUME MaxReceiveCount <= Redrive
  PROVE  EndingsSpec =>
           [](BrowserInv /\ BatchInv /\ MatcherInv /\ GateInv /\ SessionsInv /\ LambdaInv)
<1>1. EachInv /\ [EndingsNext]_endingsVars => EachInv'
  BY EachInvStep
<1>2. EachInv => BrowserInv /\ BatchInv /\ MatcherInv /\ GateInv /\ SessionsInv /\ LambdaInv
  BY BrowserImplied, MatcherImplied, SessionsImplied, LambdaImplied
     DEF EachInv, BatchIInv, GateIInv, VerdictLast, GateInv
<1>3. QED
  BY <1>1, <1>2, EachInvStart, PTL DEF EndingsSpec

(* What no step of a program may undo: a row, an error that gp-api was told*)
(* of, the bar of a plan and its end over both files, the one finalization.*)
THEOREM NothingUndone ==
  ASSUME MaxReceiveCount = Redrive PROVE EndingsSpec => EndingsForward
<1>0. MaxReceiveCount <= Redrive
  BY LambdaAssumption
<1>1. EndingsInit => EachInv /\ ErrorInv
  BY EachInvStart, EachStarts DEF LambdaInit, ErrorInv
<1>2. EachInv /\ ErrorInv /\ [EndingsNext]_endingsVars => (EachInv /\ ErrorInv)'
  BY <1>0, EachInvStep, EachSteps, ErrorInvStep DEF EachInv
<1>3. EachInv /\ ErrorInv /\ [EndingsNext]_endingsVars =>
        /\ [\A r \in Record : rows[r].kind # "none" => rows'[r] = rows[r]]_matcherVars
        /\ [judge'.query = "second" /\ judge.query # "second" =>
              judge.query = "first" /\ judge'.result = "max_turns"]_gateVars
  BY EachSteps, RowsStep, SecondQuery DEF EachInv, GateIInv
<1>4. EachInv /\ ErrorInv /\ [EndingsNext]_endingsVars =>
        /\ [\A s \in Session :
              stream[s].open /\ crashes' = crashes /\ stream'[s].end # "error" =>
                stream'[s].last >= stream[s].last]_sessionsVars
        /\ [\A s \in Session :
              stream'[s].end = "completed" /\ stream[s].end # "completed" /\ hour <= MaxAge =>
                OnDisk(s, "pdf") /\ OnDisk(s, "json")]_sessionsVars
  BY EachSteps, BarForward, EndOverBoth DEF EachInv
<1>5. EachInv /\ ErrorInv /\ [EndingsNext]_endingsVars =>
        [\A m \in Message : (\E c \in 1 .. Redrive : <<m, "error", c>> \in gpapi) =>
            /\ inputQueue'[m].at # "flight"
            /\ {t \in gpapi' : t[1] = m} = {t \in gpapi : t[1] = m}]_lambdaVars
  BY EachSteps, ErrorStep DEF EachInv
<1>6. QED
  BY <1>1, <1>2, <1>3, <1>4, <1>5, PTL
     DEF EndingsSpec, EndingsForward, RowsFinal, OneFinalize, ProgressForward, CompletedHasBoth, ErrorFinal
=============================================================================
