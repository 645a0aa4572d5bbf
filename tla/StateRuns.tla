----------------------------- MODULE StateRuns -----------------------------
(***************************************************************************)
(* The golden data: BallotReady positions matched with L2 districts, a     *)
(* file per state (stitch_golden_data/).  vector_store_generator.py writes *)
(* the embeddings of a state, production_matcher.py matches the positions  *)
(* of the states side by side and skips those whose file is there,         *)
(* retry_errors.py matches the rows that failed again.  The programs meet  *)
(* in files only; each can be killed between any two steps.                *)
(***************************************************************************)
EXTENDS Integers, FiniteSets

CONSTANTS
  GoldState,    \* the states
  Position,     \* the BallotReady positions
  RegionOf,     \* the state of each
  Permit        \* max_concurrent_states

(* No state has the name of the cache of several.                          *)
ASSUME RegionAssumption ==
  /\ IsFiniteSet(GoldState) /\ IsFiniteSet(Position) /\ "several" \notin GoldState
  /\ RegionOf \in [Position -> GoldState] /\ Permit \in Nat \ {0}

VARIABLES
  stores,     \* per state, its pickle: "none", "partial" or "whole"
  dumping,    \* the states whose pickle the generator is writing
  brCache,    \* the cached positions: per state, and for requests of several states
  allRun,        \* TRUE while run_all_states_individual runs
  stateWork,  \* per state: what that run does with it
  outputs,    \* per state: full_state_matching_<state>.parquet and .tsv
  fixed,      \* the last file of retry_errors, and what it was made of
  quota       \* FALSE while the daily quota of the model is used up

stateVars == <<stores, dumping, brCache, allRun, stateWork, outputs, fixed, quota>>

RowKind == {"judged", "no_store", "llm_error", "error"}
MatchRow == [position : Position, kind : RowKind]
Part == {"none", "partial", "whole"}
Several == "several"
NoCache == [there |-> FALSE, positions |-> {}]
NoOutput == [parquet |-> "none", rows |-> {}, tsv |-> FALSE]
OffWork == [at |-> "off", todo |-> {}, rows |-> {}]

StatesTypeOK ==
  /\ stores \in [GoldState -> Part] /\ dumping \in SUBSET GoldState
  /\ brCache \in [GoldState \cup {Several} -> [there : BOOLEAN, positions : SUBSET Position]]
  /\ allRun \in BOOLEAN
  /\ stateWork \in [GoldState -> [at : {"off", "wait", "match", "tsv", "over"},
                          todo : SUBSET Position, rows : SUBSET MatchRow]]
  /\ outputs \in [GoldState -> [parquet : Part, rows : SUBSET MatchRow, tsv : BOOLEAN]]
  /\ fixed \in [before : SUBSET MatchRow, rows : SUBSET MatchRow]
  /\ quota \in BOOLEAN

StatesInit ==
  /\ stores = [s \in GoldState |-> "none"] /\ dumping = {}
  /\ brCache = [s \in GoldState \cup {Several} |-> NoCache]
  /\ allRun = FALSE /\ stateWork = [s \in GoldState |-> OffWork]
  /\ outputs = [s \in GoldState |-> NoOutput]
  /\ fixed = [before |-> {}, rows |-> {}]
  /\ quota = TRUE

PositionsOf(ss) == {p \in Position : RegionOf[p] \in ss}
BusyStates == {s \in GoldState : stateWork[s].at \in {"match", "tsv"}}
SetWork(s, a) == stateWork' = [stateWork EXCEPT ![s].at = a]

-----------------------------------------------------------------------------
(* vector_store_generator: a store that exists is left alone, be it whole  *)
(* or not; pickle.dump writes into the file itself.                        *)

OpenStore(s) ==
  /\ stores[s] = "none" /\ dumping = {}
  /\ stores' = [stores EXCEPT ![s] = "partial"] /\ dumping' = {s}
  /\ UNCHANGED <<brCache, allRun, stateWork, outputs, fixed, quota>>

CloseStore(s) ==
  /\ s \in dumping
  /\ stores' = [stores EXCEPT ![s] = "whole"] /\ dumping' = {}
  /\ UNCHANGED <<brCache, allRun, stateWork, outputs, fixed, quota>>

KillGenerator ==
  /\ dumping # {} /\ dumping' = {}
  /\ UNCHANGED <<stores, brCache, allRun, stateWork, outputs, fixed, quota>>

-----------------------------------------------------------------------------
(* load_br_data: the cache is named after the state, or after no state     *)
(* when there are several; a limited answer is cached like a whole one.    *)

CacheName(ss) == IF Cardinality(ss) = 1 THEN CHOOSE s \in ss : TRUE ELSE Several

(* What a request comes back with, and the cache after it.  Without a      *)
(* cache, the query; it is not cached when it fails or finds nothing.      *)
Loads(ss, limit) ==
  LET c == brCache[CacheName(ss)]
      Among(ps) == IF Cardinality(ps) <= limit THEN {ps}
                   ELSE {q \in SUBSET ps : Cardinality(q) = limit}
  IN  IF c.there THEN {[got |-> q, kept |-> c] : q \in Among(c.positions)}
      ELSE {[got |-> {}, kept |-> NoCache]} \cup
           {[got |-> q, kept |-> [there |-> q # {}, positions |-> q]] :
              q \in Among(PositionsOf(ss))}

(* run_production_matching for some states, with a limit or without.  Its  *)
(* own result file, which no other program needs, is left out.             *)
MatchSome(ss, limit) ==
  /\ ~allRun /\ \A s \in ss : stores[s] # "none"
  /\ \E l \in Loads(ss, limit) : brCache' = [brCache EXCEPT ![CacheName(ss)] = l.kept]
  /\ UNCHANGED <<stores, dumping, allRun, stateWork, outputs, fixed, quota>>

-----------------------------------------------------------------------------
(* run_all_states_individual                                               *)

StartAll ==
  /\ ~allRun /\ allRun' = TRUE
  /\ stateWork' = [s \in GoldState |-> IF stores[s] # "none" THEN [OffWork EXCEPT !.at = "wait"] ELSE OffWork]
  /\ UNCHANGED <<stores, dumping, brCache, outputs, fixed, quota>>

(* Variant for the mutation run: a file that is there is written again.    *)
SkippedNever(s) == FALSE

(* process_single_state does not look into the file.                       *)
Skipped(s) == outputs[s].parquet # "none"

(* Variant: no semaphore.                                                  *)
StatePermittedAlways(s) == TRUE

StatePermitted(s) == Cardinality(BusyStates) < Permit

StartState(s) ==
  /\ allRun /\ stateWork[s].at = "wait" /\ StatePermitted(s)
  /\ \/ Skipped(s) /\ SetWork(s, "over") /\ UNCHANGED brCache
     \/ /\ ~Skipped(s)
        /\ \E l \in Loads({s}, Cardinality(Position)) :
             /\ brCache' = [brCache EXCEPT ![s] = l.kept]
             /\ stateWork' = [stateWork EXCEPT ![s] = [at |-> IF l.got = {} THEN "over" ELSE "match",
                                             todo |-> l.got, rows |-> {}]]
  /\ UNCHANGED <<stores, dumping, allRun, outputs, fixed, quota>>

(* Variant: the quota is told apart from other errors, as retry_errors     *)
(* expects (QUOTA_ERROR).                                                  *)
OutcomeQuota(p) == IF quota THEN {"judged", "llm_error", "error"} ELSE {"quota_error"}

(* match_single_record: without a store that can be loaded, no match; an   *)
(* embedding that fails is an error row; a model that fails, a row that    *)
(* says LLM_ERROR.  Whatever it was, the exception ends here.              *)
Outcome(p) ==
  IF stores[RegionOf[p]] # "whole" THEN {"no_store"}
  ELSE IF quota THEN {"judged", "llm_error", "error"} ELSE {"llm_error", "error"}

MatchPosition(s, p) ==
  /\ stateWork[s].at = "match" /\ p \in stateWork[s].todo
  /\ \E k \in Outcome(p) :
       stateWork' = [stateWork EXCEPT ![s].todo = @ \ {p},
                            ![s].rows = @ \cup {[position |-> p, kind |-> k]}]
  /\ UNCHANGED <<stores, dumping, brCache, allRun, outputs, fixed, quota>>

(* Variant: it is saved, whatever is left to do.                           *)
StateReadyAny(s) == stateWork[s].at = "match"

StateReady(s) == stateWork[s].todo = {}

(* The parquet file first, then the TSV file; either can raise.            *)
SaveParquet(s) ==
  /\ stateWork[s].at = "match" /\ StateReady(s)
  /\ \/ /\ outputs' = [outputs EXCEPT ![s] = [parquet |-> "whole", rows |-> stateWork[s].rows, tsv |-> @.tsv]]
        /\ SetWork(s, "tsv")
     \/ /\ outputs' = [outputs EXCEPT ![s].parquet = "partial", ![s].rows = {}] /\ SetWork(s, "over")
  /\ UNCHANGED <<stores, dumping, brCache, allRun, fixed, quota>>

SaveTsv(s) ==
  /\ stateWork[s].at = "tsv" /\ SetWork(s, "over")
  /\ \E t \in BOOLEAN : outputs' = [outputs EXCEPT ![s].tsv = t]
  /\ UNCHANGED <<stores, dumping, brCache, allRun, fixed, quota>>

(* wait_for: two hours, then the state is given up.                        *)
GiveUpState(s) ==
  /\ stateWork[s].at = "match" /\ SetWork(s, "over")
  /\ UNCHANGED <<stores, dumping, brCache, allRun, outputs, fixed, quota>>

(* The end of the run, or the end of its process.                          *)
EndAll ==
  /\ allRun /\ allRun' = FALSE /\ stateWork' = [s \in GoldState |-> OffWork]
  /\ UNCHANGED <<stores, dumping, brCache, outputs, fixed, quota>>

-----------------------------------------------------------------------------
(* retry_errors: rows of "Processing error" are matched again; the others, *)
(* LLM_ERROR included, are taken over.  The result goes to output/fixed.   *)

Failed(rows) == {r \in rows : r.kind = "error"}

(* Variant: only what was matched again is written.                        *)
RetriedLost(rows) ==
  {again : again \in SUBSET {[position |-> r.position, kind |-> k] :
                               r \in Failed(rows), k \in {"judged"}}}

Retried(rows) ==
  {(rows \ Failed(rows)) \cup
     {[position |-> r.position, kind |-> f[r]] : r \in Failed(rows)} :
       f \in {g \in [Failed(rows) -> RowKind] : \A r \in Failed(rows) : g[r] \in Outcome(r.position)}}

RetryErrors(s) ==
  /\ ~allRun /\ outputs[s].parquet = "whole" /\ Failed(outputs[s].rows) # {}
  /\ \E rows \in Retried(outputs[s].rows) : fixed' = [before |-> outputs[s].rows, rows |-> rows]
  /\ UNCHANGED <<stores, dumping, brCache, allRun, stateWork, outputs, quota>>

(* The service: the quota of the day runs out.                             *)
UseUpQuota ==
  /\ quota /\ quota' = FALSE
  /\ UNCHANGED <<stores, dumping, brCache, allRun, stateWork, outputs, fixed>>

StatesNext ==
  \/ KillGenerator \/ StartAll \/ EndAll \/ UseUpQuota
  \/ \E ss \in (SUBSET GoldState) \ {{}}, n \in {1, Cardinality(Position)} : MatchSome(ss, n)
  \/ \E s \in GoldState :
       \/ OpenStore(s) \/ CloseStore(s) \/ StartState(s) \/ SaveParquet(s) \/ SaveTsv(s)
       \/ GiveUpState(s) \/ RetryErrors(s) \/ \E p \in Position : MatchPosition(s, p)

StatesSpec == StatesInit /\ [][StatesNext]_stateVars

-----------------------------------------------------------------------------
(* Properties                                                              *)

Covered(rows) == {r.position : r \in rows}

(* A file that could be merged (merge_all_states concatenates them) has    *)
(* one row for each position that was loaded for its state and for no      *)
(* other, whatever runs, failures and kills made it.                       *)
FileConsistent ==
  \A s \in GoldState : outputs[s].parquet = "whole" =>
    /\ Covered(outputs[s].rows) = brCache[s].positions
    /\ Covered(outputs[s].rows) \subseteq PositionsOf({s})
    /\ \A q, r \in outputs[s].rows : q.position = r.position => q = r

(* A file that is whole is never written again by a later run, which costs *)
(* money and could lose a judgement.                                       *)
FileFinal ==
  [][\A s \in GoldState : outputs[s].parquet = "whole" =>
       outputs'[s].rows = outputs[s].rows /\ outputs'[s].parquet = "whole"]_stateVars

(* Never more states at a time than max_concurrent_states.                 *)
StatesBounded == Cardinality(BusyStates) <= Permit

(* A retry keeps every position, and every row that had not failed.        *)
RetryKeeps ==
  /\ Covered(fixed.rows) = Covered(fixed.before)
  /\ fixed.before \ Failed(fixed.before) \subseteq fixed.rows

(* Files of runs that were killed, repeated and retried are sound.         *)
StatesInv == StatesTypeOK /\ FileConsistent /\ StatesBounded /\ RetryKeeps
=============================================================================
