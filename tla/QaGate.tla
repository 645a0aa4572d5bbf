------------------------------- MODULE QaGate -------------------------------
(***************************************************************************)
(* The QA gate of one run: run_qa_gate (pmf_engine/runner/qa_gate.py) in a *)
(* worker thread, its subprocess main.py, and the evaluator agent          *)
(* (harness/claude_sdk.py) that the thread waits for on the event loop,    *)
(* while wait_for counts down the rest of the run's budget.  Times are in  *)
(* units of the timeouts; the clock stands still until a timeout that is   *)
(* due is acted upon.                                                      *)
(***************************************************************************)
EXTENDS Integers, FiniteSets

CONSTANTS
  DetTimeout, AgentTimeout,   \* of the manifest, or the defaults
  FinalizeTimeout,            \* _FINALIZE_TIMEOUT_SECONDS
  ExitGrace,                  \* _PROC_EXIT_GRACE_SECONDS
  Budgets                     \* what wait_for has left when the gate starts

ASSUME GateAssumption ==
  /\ {DetTimeout, AgentTimeout, FinalizeTimeout, ExitGrace} \subseteq Nat \ {0}
  /\ Budgets \subseteq Int

VARIABLES
  gate,      \* the thread: where it is, since when, and what it has so far
  entries,   \* main.py and eval.md, as far as they are in the QA folder
  left,      \* the budget that is left
  script,    \* the subprocess
  judge,     \* the evaluator: its queries, and its result file
  verdict    \* the Verdict, once there is one

gateVars == <<gate, entries, left, script, judge, verdict>>

Fragment == {"passed", "failed", "invalid", "main_py_exit"}
NoVerdict == [status |-> "none", pass |-> "none"]
Verdict == [status : {"none", "evaluated", "error", "skipped"}, pass : {"none", "yes", "no"}]

QaTypeOK ==
  /\ gate \in [at : {"start", "main", "exit", "eval", "finalize", "build", "over", "cut"},
               spent : 0 .. DetTimeout + AgentTimeout + FinalizeTimeout + ExitGrace,
               checks : SUBSET Fragment, error : BOOLEAN, dir : BOOLEAN]
  /\ entries \subseteq {"main.py", "eval.md"}
  /\ left \in Int
  /\ script \in [runs : BOOLEAN, out : {"none", "array", "junk", "flood"}]
  /\ judge \in [query : {"off", "first", "second"},
                file : {"none", "array", "junk"},
                result : {"none", "ok", "error", "max_turns"}]
  /\ verdict \in Verdict

QaInit ==
  /\ gate = [at |-> "start", spent |-> 0, checks |-> {}, error |-> FALSE, dir |-> FALSE]
  /\ entries \in SUBSET {"main.py", "eval.md"} /\ left \in Budgets
  /\ script = [runs |-> FALSE, out |-> "none"]
  /\ judge = [query |-> "off", file |-> "none", result |-> "none"]
  /\ verdict = NoVerdict

Fragments == SUBSET {"passed", "failed", "invalid"}
GateAt(a) == gate' = [gate EXCEPT !.at = a, !.spent = 0]

(* Variant for the mutation run: the last stage decides whether there was  *)
(* a stage error.                                                          *)
StageEndsLast(next, fs, err) ==
  gate' = [gate EXCEPT !.at = next, !.spent = 0, !.checks = @ \cup fs, !.error = err]

(* The stage ends: with fragments, or as a stage error, which has none.    *)
StageEnds(next, fs, err) ==
  gate' = [gate EXCEPT !.at = next, !.spent = 0, !.checks = @ \cup fs, !.error = @ \/ err]

AfterMain == IF "eval.md" \in entries THEN "eval" ELSE "build"

-----------------------------------------------------------------------------
(* run_qa_gate up to its stages                                            *)

Required == (IF "main.py" \in entries THEN DetTimeout ELSE 0) +
            (IF "eval.md" \in entries THEN AgentTimeout ELSE 0)

(* Nothing to run: skipped.  Not enough budget for the stages: an error,   *)
(* and nothing is spawned.                                                 *)
Preflight ==
  /\ gate.at = "start" /\ (entries = {} \/ left < Required)
  /\ verdict' = [status |-> IF entries = {} THEN "skipped" ELSE "error", pass |-> "none"]
  /\ GateAt("over")
  /\ UNCHANGED <<entries, left, script, judge>>

(* The QA files go to a directory of their own; the first stage starts, or *)
(* cannot be spawned.                                                      *)
StartStages ==
  /\ gate.at = "start" /\ entries # {} /\ left >= Required
  /\ IF "main.py" \in entries
     THEN \/ /\ script' = [script EXCEPT !.runs = TRUE]
             /\ gate' = [gate EXCEPT !.at = "main", !.dir = TRUE]
          \/ /\ gate' = [gate EXCEPT !.at = AfterMain, !.dir = TRUE, !.error = TRUE]
             /\ UNCHANGED script
     ELSE gate' = [gate EXCEPT !.at = "eval", !.dir = TRUE] /\ UNCHANGED script
  /\ UNCHANGED <<entries, left, judge, verdict>>

-----------------------------------------------------------------------------
(* _run_deterministic                                                      *)

(* main.py writes: an array, something else, or more than the cap; what is *)
(* over the cap is read and dropped, so that main.py is not held up.       *)
ScriptWrites ==
  /\ gate.at = "main" /\ script.runs /\ script.out = "none"
  /\ \E o \in {"array", "junk", "flood"} : script' = [script EXCEPT !.out = o]
  /\ UNCHANGED <<gate, entries, left, judge, verdict>>

(* Both pipes are closed: by an exit, or by a main.py that goes on without *)
(* them and gets a grace.                                                  *)
PipesClose ==
  /\ gate.at = "main" /\ GateAt("exit")
  /\ \E r \in BOOLEAN : script' = [script EXCEPT !.runs = r]
  /\ UNCHANGED <<entries, left, judge, verdict>>

(* What is made of the output and the exit code.  Without output, exit 0   *)
(* is a stage error; another code is a failing fragment, be there others   *)
(* or not.                                                                 *)
ReadScript(code) ==
  CASE script.out = "flood" -> StageEnds(AfterMain, {}, TRUE)
    [] script.out = "junk" -> StageEnds(AfterMain, {}, TRUE)
    [] script.out = "array" ->
         \E fs \in Fragments :
           StageEnds(AfterMain, fs \cup (IF code = 0 THEN {} ELSE {"main_py_exit"}), FALSE)
    [] script.out = "none" ->
         IF code = 0 THEN StageEnds(AfterMain, {}, TRUE)
                     ELSE StageEnds(AfterMain, {"main_py_exit"}, FALSE)

(* It has exited, ...                                                      *)
ScriptExits ==
  /\ gate.at = "exit"
  /\ \E code \in {0, 1} : ReadScript(code)
  /\ script' = [script EXCEPT !.runs = FALSE]
  /\ UNCHANGED <<entries, left, judge, verdict>>

(* ... or is killed at the end of the grace, and what it wrote is kept.    *)
KillAfterGrace ==
  /\ gate.at = "exit" /\ script.runs /\ gate.spent = ExitGrace
  /\ ReadScript(-9)
  /\ script' = [script EXCEPT !.runs = FALSE]
  /\ UNCHANGED <<entries, left, judge, verdict>>

(* Variant: the stage is given up, main.py is not.                         *)
ScriptTimesOutAlive ==
  /\ gate.at = "main" /\ gate.spent = DetTimeout
  /\ StageEnds(AfterMain, {}, TRUE)
  /\ UNCHANGED <<script, entries, left, judge, verdict>>

(* The timeout of the stage, or an error while reading: killed and reaped. *)
ScriptTimesOut ==
  /\ gate.at = "main" /\ gate.spent = DetTimeout
  /\ StageEnds(AfterMain, {}, TRUE)
  /\ script' = [script EXCEPT !.runs = FALSE]
  /\ UNCHANGED <<entries, left, judge, verdict>>

-----------------------------------------------------------------------------
(* _run_evaluator and run_evaluator_agent                                  *)

StartQuery ==
  /\ gate.at = "eval" /\ judge.query = "off"
  /\ judge' = [judge EXCEPT !.query = "first"]
  /\ UNCHANGED <<gate, entries, left, script, verdict>>

Judging == gate.at \in {"eval", "finalize"} /\ judge.query # "off"

(* The agent writes its fragments, at any time, as often as it likes.      *)
JudgeWrites ==
  /\ Judging
  /\ \E f \in {"array", "junk"} : judge' = [judge EXCEPT !.file = f]
  /\ UNCHANGED <<gate, entries, left, script, verdict>>

(* Variant: a second query after any error, and after it yet another.      *)
FinalizeNext(result) == result \in {"max_turns", "error"}

(* Only after the turns ran out, once, and not for the second query.       *)
Finalizes(result) == result = "max_turns" /\ judge.query = "first"

(* What the gate makes of an evaluator that says it ended well.            *)
ReadFragments ==
  IF judge.file = "array" THEN \E fs \in Fragments : StageEnds("build", fs, FALSE)
                          ELSE StageEnds("build", {}, TRUE)

(* A query ends: a result, or the stream ends or breaks without one.  A    *)
(* second query that breaks leaves the result of the first.                *)
QueryEnds ==
  /\ Judging
  /\ \E r \in {"ok", "error", "max_turns", "none"} :
       IF Finalizes(r)
       THEN /\ GateAt("finalize") /\ judge' = [judge EXCEPT !.query = "second", !.result = r]
       ELSE /\ judge' = [judge EXCEPT !.query = "off", !.result = IF r = "none" THEN @ ELSE r]
            /\ IF r = "ok" THEN ReadFragments ELSE StageEnds("build", {}, TRUE)
  /\ UNCHANGED <<entries, left, script, verdict>>

(* Variant: wait_for around the second query alone.                        *)
QueryTimesOutSecond ==
  /\ gate.at = "finalize" /\ gate.spent = FinalizeTimeout
  /\ judge' = [judge EXCEPT !.query = "off"]
  /\ StageEnds("build", {}, TRUE)
  /\ UNCHANGED <<entries, left, script, verdict>>

(* wait_for: each query has its own, and ends as an error.                 *)
QueryTimesOut ==
  /\ \/ gate.at = "eval" /\ Judging /\ gate.spent = AgentTimeout
     \/ gate.at = "finalize" /\ gate.spent = FinalizeTimeout
  /\ judge' = [judge EXCEPT !.query = "off"]
  /\ StageEnds("build", {}, TRUE)
  /\ UNCHANGED <<entries, left, script, verdict>>

-----------------------------------------------------------------------------
(* The verdict                                                             *)

Pass == IF gate.error \/ gate.checks = {} THEN "none"
        ELSE IF gate.checks = {"passed"} THEN "yes" ELSE "no"

BuildVerdict ==
  /\ gate.at = "build"
  /\ verdict' = [status |-> IF gate.error THEN "error" ELSE "evaluated", pass |-> Pass]
  /\ gate' = [gate EXCEPT !.at = "over", !.dir = FALSE]
  /\ UNCHANGED <<entries, left, script, judge>>

(* Variant: the directory is removed at the end of the try block.          *)
InternalErrorLeaves ==
  /\ gate.at \in {"main", "exit", "eval", "build"}
  /\ verdict' = [status |-> "error", pass |-> "none"]
  /\ gate' = [gate EXCEPT !.at = "over"]
  /\ script' = [script EXCEPT !.runs = FALSE]
  /\ UNCHANGED <<entries, left, judge>>

(* Anything else raises, before a stage or after one: an error verdict;    *)
(* the directory goes in any case.                                         *)
InternalError ==
  /\ gate.at = "build" \/ (gate.at = "eval" /\ judge.query = "off")
  /\ verdict' = [status |-> "error", pass |-> "none"]
  /\ gate' = [gate EXCEPT !.at = "over", !.dir = FALSE]
  /\ UNCHANGED <<entries, left, script, judge>>

-----------------------------------------------------------------------------
(* The clock, and the wait_for around the whole run                        *)

(* Variant: nothing ends the first query.                                  *)
DueLate ==
  \/ gate.at = "main" /\ gate.spent = DetTimeout
  \/ gate.at = "exit" /\ (gate.spent = ExitGrace \/ ~script.runs)
  \/ gate.at = "eval" /\ ~Judging
  \/ gate.at = "finalize" /\ gate.spent = FinalizeTimeout

(* Something is to be done before the clock goes on.                       *)
Due ==
  \/ gate.at = "main" /\ gate.spent = DetTimeout
  \/ gate.at = "exit" /\ (gate.spent = ExitGrace \/ ~script.runs)
  \/ gate.at = "eval" /\ (gate.spent = AgentTimeout \/ ~Judging)
  \/ gate.at = "finalize" /\ gate.spent = FinalizeTimeout

GateTick ==
  /\ gate.at \in {"main", "exit", "eval", "finalize"} /\ ~Due /\ left > 0
  /\ left' = left - 1 /\ gate' = [gate EXCEPT !.spent = @ + 1]
  /\ UNCHANGED <<entries, script, judge, verdict>>

(* The run times out inside the gate: the runner reports it as failed and  *)
(* leaves the process, whatever the thread does.                           *)
CutRun ==
  /\ gate.at \in {"main", "exit", "eval", "finalize"} /\ left <= 0 /\ ~Due
  /\ GateAt("cut")
  /\ UNCHANGED <<entries, left, script, judge, verdict>>

GateProceeds ==
  \/ Preflight \/ StartStages \/ PipesClose \/ ScriptExits \/ KillAfterGrace
  \/ ScriptTimesOut \/ StartQuery \/ QueryEnds \/ QueryTimesOut \/ BuildVerdict

QaNext ==
  \/ GateProceeds \/ ScriptWrites \/ JudgeWrites \/ InternalError \/ GateTick \/ CutRun

(* The clock runs, and a timeout that is due is acted upon; neither        *)
(* main.py nor the evaluator owes anything.                                *)
QaSpec ==
  QaInit /\ [][QaNext]_gateVars
  /\ WF_gateVars(Preflight \/ StartStages \/ StartQuery \/ BuildVerdict)
  /\ WF_gateVars(GateTick \/ CutRun \/ ScriptTimesOut \/ KillAfterGrace \/ QueryTimesOut)
  /\ WF_gateVars(ScriptExits /\ ~script.runs)

-----------------------------------------------------------------------------
(* Properties                                                              *)

(* A pass is earned: every stage of the folder ran to an end of its own,   *)
(* none was cut, failed to parse or was skipped for want of budget, and    *)
(* together they gave fragments that all passed.                           *)
PassEarned ==
  verdict.pass = "yes" =>
    /\ verdict.status = "evaluated" /\ ~gate.error /\ gate.checks = {"passed"}
    /\ "main.py" \in entries => script.out \in {"array", "none"}
    /\ "eval.md" \in entries => judge.result = "ok" /\ judge.file = "array"

(* main.py never outlives its stage: no later stage, no verdict and no     *)
(* publication runs beside it.                                             *)
ScriptReaped == gate.at \in {"eval", "finalize", "build", "over"} => ~script.runs

(* The judge's prompt and its fragments do not stay on disk once there is  *)
(* a verdict, an internal error's included.                                *)
DirRemoved == verdict # NoVerdict => ~gate.dir

(* At most one second query, and only for an evaluator out of turns.       *)
OneFinalize ==
  [][judge'.query = "second" /\ judge.query # "second" =>
       judge.query = "first" /\ judge'.result = "max_turns"]_gateVars

(* Whatever main.py and the evaluator do, the gate ends.                   *)
GateEnds == gate.at # "start" ~> gate.at \in {"over", "cut"}

(* The gate passes only what it judged, and leaves nothing behind.         *)
GateInv == QaTypeOK /\ PassEarned /\ ScriptReaped /\ DirRemoved
=============================================================================
