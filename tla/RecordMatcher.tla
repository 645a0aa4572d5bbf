---------------------------- MODULE RecordMatcher ----------------------------
(***************************************************************************)
(* One run of a matcher of HubSpot candidates: against DDHQ                *)
(* (hubspot_ddhq_match/parallel_production_matcher.py) or against the      *)
(* Google Sheets races (google_sheets_matcher/).  A coroutine per record,  *)
(* a pool of threads for the LLM calls, a timeout that the threads do not  *)
(* feel, and one row for each record in the end.                           *)
(***************************************************************************)
EXTENDS Integers, Sequences, FiniteSets

CONSTANTS
  Record,       \* the records, numbered
  Workers,      \* max_workers: permits of the semaphore and threads of the pool
  MaxFound      \* bound on the candidates of a search

ASSUME MatcherAssumption ==
  /\ Record \subseteq Nat /\ Workers \in Nat \ {0} /\ MaxFound \in Nat

VARIABLES
  matcher,    \* "ddhq" or "sheets"
  coroutines, \* per record: where its coroutine is, and how many candidates it has
  callLine,   \* LLM calls that wait for a thread, in order
  threads,    \* LLM calls that have one
  rows,       \* per record: its result
  output      \* "none", "parquet" or "both"

matcherVars == <<matcher, coroutines, callLine, threads, rows, output>>

Confidence == {0, 20, 70, 100}
NoRow == [kind |-> "none", index |-> 0, confidence |-> 0]
RowOf(k) == [NoRow EXCEPT !.kind = k]

MatcherTypeOK ==
  /\ matcher \in {"ddhq", "sheets"}
  /\ coroutines \in [Record -> [at : {"new", "llm", "done"}, found : 0 .. MaxFound]]
  /\ callLine \in Seq(Record) /\ threads \in SUBSET Record
  /\ rows \in [Record -> [kind : {"none", "filtered", "match", "no_match", "timeout", "error", "raised"},
                          index : 0 .. MaxFound, confidence : 0 .. 100]]
  /\ output \in {"none", "parquet", "both"}

MatcherInit ==
  /\ matcher \in {"ddhq", "sheets"}
  /\ coroutines = [r \in Record |-> [at |-> "new", found |-> 0]]
  /\ callLine = <<>> /\ threads = {}
  /\ rows = [r \in Record |-> NoRow]
  /\ output = "none"

InLine(r) == \E i \in DOMAIN callLine : callLine[i] = r
BusyRecords == {r \in Record : coroutines[r].at = "llm"}

(* Only the DDHQ matcher has the semaphore.                                *)
MayStart == matcher = "sheets" \/ Cardinality(BusyRecords) < Workers

Done(r, row) ==
  /\ coroutines' = [coroutines EXCEPT ![r].at = "done"]
  /\ rows' = [rows EXCEPT ![r] = row]

-----------------------------------------------------------------------------
(* A record up to its LLM call                                             *)

(* FEDERAL and STATE races are not matched.                                *)
Prefilter(r) ==
  /\ coroutines[r].at = "new" /\ MayStart
  /\ Done(r, RowOf("filtered"))
  /\ UNCHANGED <<matcher, callLine, threads, output>>

(* The search fails: DDHQ makes an error row of it, for Google Sheets the  *)
(* record is among the exceptions of gather.                               *)
SearchFails(r) ==
  /\ coroutines[r].at = "new" /\ MayStart
  /\ Done(r, RowOf(IF matcher = "ddhq" THEN "error" ELSE "raised"))
  /\ UNCHANGED <<matcher, callLine, threads, output>>

(* n candidates.  DDHQ asks the model even when there are none.            *)
Search(r, n) ==
  /\ coroutines[r].at = "new" /\ MayStart
  /\ IF matcher = "sheets" /\ n = 0
     THEN Done(r, RowOf("no_match")) /\ UNCHANGED callLine
     ELSE /\ coroutines' = [coroutines EXCEPT ![r] = [at |-> "llm", found |-> n]]
          /\ callLine' = Append(callLine, r) /\ UNCHANGED rows
  /\ UNCHANGED <<matcher, threads, output>>

-----------------------------------------------------------------------------
(* The pool                                                                *)

TakeJob ==
  /\ callLine # <<>> /\ Cardinality(threads) < Workers
  /\ threads' = threads \cup {Head(callLine)} /\ callLine' = Tail(callLine)
  /\ UNCHANGED <<matcher, coroutines, rows, output>>

(* Variant for the mutation run: nothing keeps it from going below zero.   *)
CalibratedBelow(c) == {c - d : d \in {0, 8, 15, 25, 33, 40}}

(* _calibrate_confidence: 25 off for another gender, 8 or 15 for a name    *)
(* that is found in part or not at all; below 70 the match is rejected.  A *)
(* match of confidence 0 is passed on as it is.                            *)
Calibrated(c) == {IF c > d THEN c - d ELSE 0 : d \in {0, 8, 15, 25, 33, 40}}

(* Variant: an index of 0 is taken for a candidate.   *)
DdhqRowsZero(n, index, c) ==
  IF index \in 0 .. n THEN {[kind |-> "match", index |-> index, confidence |-> c]}
                      ELSE {RowOf("no_match")}

DdhqRows(n, index, c) ==
  CASE index \notin 1 .. n -> {RowOf("no_match")}
    [] index \in 1 .. n /\ c = 0 -> {[kind |-> "match", index |-> index, confidence |-> 0]}
    [] index \in 1 .. n /\ c > 0 ->
         {IF d < 70 THEN [RowOf("no_match") EXCEPT !.confidence = d]
                    ELSE [kind |-> "match", index |-> index, confidence |-> d] : d \in Calibrated(c)}

(* iloc[match_index - 1], which counts a negative position from the end.   *)
SheetsRows(n, index, c) ==
  IF c < 60 THEN {[RowOf("no_match") EXCEPT !.confidence = c]}
  ELSE IF index \in 1 .. n THEN {[kind |-> "match", index |-> index, confidence |-> c]}
  ELSE IF index = 0 THEN {[kind |-> "match", index |-> n, confidence |-> c]}
  ELSE {RowOf("error")}

(* What a record makes of what its call came back with: an index or null,  *)
(* with a confidence, or an error, be it of the call or of its parsing.    *)
AnsweredRows(n) ==
  {RowOf("error"), RowOf("no_match")} \cup
  UNION {IF matcher = "ddhq" THEN DdhqRows(n, i, c) ELSE SheetsRows(n, i, c) :
           i \in 0 .. n + 1, c \in Confidence}

(* Variant: whoever waits, the answer is written.     *)
AnswerLate(r) ==
  /\ r \in threads /\ threads' = threads \ {r}
  /\ \E row \in AnsweredRows(coroutines[r].found) : Done(r, row)
  /\ UNCHANGED <<matcher, callLine, output>>

(* The call of r ends.  Nobody waits for it any more when it timed out.    *)
CallEnds(r) ==
  /\ r \in threads /\ threads' = threads \ {r}
  /\ \/ coroutines[r].at = "llm" /\ \E row \in AnsweredRows(coroutines[r].found) : Done(r, row)
     \/ coroutines[r].at = "done" /\ UNCHANGED <<coroutines, rows>>
  /\ UNCHANGED <<matcher, callLine, output>>

(* Variant: the call that has not begun stays in line.                     *)
TimeoutKeepsCall(r) ==
  /\ matcher = "ddhq" /\ coroutines[r].at = "llm"
  /\ Done(r, RowOf("timeout"))
  /\ UNCHANGED <<matcher, callLine, threads, output>>

(* The line without its i-th call.                                         *)
Withdrawn(s, i) == [j \in 1 .. Len(s) - 1 |-> IF j < i THEN s[j] ELSE s[j + 1]]

(* wait_for gives up after 120 s: the call is withdrawn if it has not      *)
(* begun; a thread that runs it goes on.  The row says it is no match.     *)
Timeout(r) ==
  /\ matcher = "ddhq" /\ coroutines[r].at = "llm"
  /\ Done(r, RowOf("timeout"))
  /\ \/ \E i \in DOMAIN callLine : callLine[i] = r /\ callLine' = Withdrawn(callLine, i)
     \/ ~InLine(r) /\ UNCHANGED callLine
  /\ UNCHANGED <<matcher, threads, output>>

-----------------------------------------------------------------------------
(* Variant: the exceptions of Google Sheets are waited for as well.        *)
UnprocessedRaised == {r \in Record : rows[r].kind \in {"none", "raised"}}

(* The results: DDHQ looks for results that are missing or exceptions      *)
(* about a timeout, to run them again; there are none, as every record has *)
(* made a row of its own.  Google Sheets leaves the exceptions out.        *)
Unprocessed == {r \in Record : rows[r].kind \in {"none", "raised"} /\ matcher = "ddhq"}

SaveResults ==
  /\ \A r \in Record : coroutines[r].at = "done"
  /\ Unprocessed = {}
  /\ \/ output = "none" /\ output' = "parquet"
     \/ output = "parquet" /\ output' = "both"
  /\ UNCHANGED <<matcher, coroutines, callLine, threads, rows>>

RecordNext(r) ==
  \/ Prefilter(r) \/ SearchFails(r) \/ (\E n \in 0 .. MaxFound : Search(r, n))
  \/ CallEnds(r) \/ Timeout(r)

MatcherNext == TakeJob \/ SaveResults \/ \E r \in Record : RecordNext(r)

(* The event loop and the pool go on; an LLM call ends, as its client      *)
(* retries a bounded number of requests that time out.  The run is a       *)
(* finite number of steps.                                                 *)
MatcherSpec == MatcherInit /\ [][MatcherNext]_matcherVars /\ WF_matcherVars(MatcherNext)

-----------------------------------------------------------------------------
(* Properties                                                              *)

(* Threads that outlive their record's timeout hold back calls that have   *)
(* permits, but never others' rows: every thread and every call in line    *)
(* belongs to a record that was searched, none has two, and a record that  *)
(* waits has a call.                                                       *)
PoolConsistent ==
  /\ Cardinality(threads) <= Workers
  /\ \A r \in BusyRecords : (r \in threads) # InLine(r)
  /\ \A r \in Record : InLine(r) => coroutines[r].at = "llm"
  /\ \A i, j \in DOMAIN callLine : i # j => callLine[i] # callLine[j]

(* A row, once there, is final: an answer that comes after the timeout     *)
(* changes nothing.                                                        *)
RowsFinal ==
  [][\A r \in Record : rows[r].kind # "none" => rows'[r] = rows[r]]_matcherVars

(* What is saved has a row of its own for every record of a DDHQ run, and  *)
(* a match names one of the candidates the record was given.               *)
RowsComplete ==
  /\ output # "none" /\ matcher = "ddhq" =>
       \A r \in Record : rows[r].kind \notin {"none", "raised"}
  /\ \A r \in Record : rows[r].kind = "match" => rows[r].index \in 1 .. coroutines[r].found

(* The run ends: timeouts and busy threads hold nobody up for good.        *)
MatchingEnds ==
  (\E r \in Record : coroutines[r].at # "new") ~> output = "both"

(* Threads, calls and rows of a matcher agree, and no record is left out.  *)
MatcherInv == MatcherTypeOK /\ PoolConsistent /\ RowsComplete
=============================================================================
