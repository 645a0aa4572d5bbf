-------------------------------- MODULE Runner --------------------------------
(***************************************************************************)
(* The Fargate task of one run: main and run_experiment of                 *)
(* pmf_engine/runner/main.py, and the retries of pmf_runtime/publish.py.   *)
(* The process has one event loop.  It is only suspended while the harness *)
(* or the QA gate works; the calls to the broker block it, so neither the  *)
(* timeout nor a signal can interrupt them.                                *)
(***************************************************************************)
EXTENDS BrokerReports

CONSTANTS
  MaxAttempts,  \* _MAX_ATTEMPTS
  QaFolder,     \* a QA folder was published for the experiment
  DirectWired   \* RESULTS_QUEUE_URL is set on the task definition

ASSUME AttemptsAssumption == MaxAttempts \in Nat \ {0}
ASSUME RunnerAssumption == QaFolder \in BOOLEAN /\ DirectWired \in BOOLEAN

VARIABLES
  phase,     \* what main is doing
  call,      \* while phase = "calling", which of its calls to the broker
  attempt,   \* the attempt of that call
  marked,    \* _terminal_callback_sent
  early,     \* a stop signal came during setup and is not handled yet
  shutdown,  \* _shutdown_requested
  exit       \* the exit code of the process

runnerVars == <<phase, call, attempt, marked, early, shutdown, exit>>

Phase == {"setup", "harness", "qa", "calling", "over"}

(* publish; or the place of a report_status: config load, missing config,  *)
(* inside run_experiment, for a contract violation, or main's last handler *)
CallName == {"publish", "config", "missing", "in_run", "violation", "last"}
KindOf(c) == CASE c = "publish" -> "publish"
               [] c = "violation" -> "contract_violation"
               [] OTHER -> "failed"

Running == "running"
Killed == "killed"
ExitCode == {Running, "0", "1", Killed}

RunnerTypeOK ==
  /\ phase \in Phase
  /\ call \in CallName \cup {NoCall}
  /\ attempt \in 0 .. MaxAttempts
  /\ marked \in BOOLEAN /\ shutdown \in BOOLEAN
  /\ early \in BOOLEAN
  /\ exit \in ExitCode

RunnerInit ==
  /\ phase = "setup" /\ call = NoCall /\ attempt = 0
  /\ marked = FALSE /\ early = FALSE /\ shutdown = FALSE
  /\ exit = Running

runVars == <<marked, early, shutdown>>

Goto(p) == phase' = p /\ call' = NoCall /\ attempt' = 0 /\ exit' = exit
Report(c) == phase' = "calling" /\ call' = c /\ attempt' = 1 /\ exit' = exit
Exit(code) == phase' = "over" /\ call' = NoCall /\ attempt' = 0 /\ exit' = code

-----------------------------------------------------------------------------
(* main before the experiment task starts.  No await lies before it, so    *)
(* _exit_on_pre_task_shutdown finds _shutdown_requested unset, always.     *)

(* The last resort of a failed callback; a no-op unless it is wired.       *)
SendDirect == (DirectWired /\ Accept("run", "direct")) \/ Unsent

(* main's handler of an exception, m being the marker at that point.       *)
HandleException(m) == IF shutdown \/ ~m THEN Report("last") ELSE Exit("1")

(* The config does not load, or holds no instruction; prefetch or an       *)
(* attachment raises; or the harness starts.                               *)
Setup ==
  /\ phase = "setup"
  /\ \/ Report("config") \/ Report("missing") \/ HandleException(marked)
     \/ Goto("harness")
  /\ UNCHANGED <<runVars, brokerVars, queueVars>>

(* The broker URL is refused, or the broker client does not start.         *)
SetupWithoutBroker ==
  /\ phase = "setup"
  /\ SendDirect
  /\ Exit("1")
  /\ UNCHANGED <<runVars, brokerVars, row>>

-----------------------------------------------------------------------------
(* run_experiment                                                          *)

AfterHarness == IF QaFolder THEN Goto("qa") ELSE Report("publish")

(* harness.run returns an artifact that keeps the contract or not, or it,  *)
(* the validator or the last json.loads raises.                            *)
HarnessReturns ==
  /\ phase = "harness" /\ ~early
  /\ AfterHarness \/ Report("violation") \/ Report("in_run")
  /\ UNCHANGED <<runVars, brokerVars, queueVars>>

(* The gate is fail-open: whatever happens in it, the artifact is          *)
(* published, with the fields body.qa says.                                *)
QaDone ==
  /\ phase = "qa"
  /\ Report("publish")
  /\ UNCHANGED <<runVars, brokerVars, queueVars>>

(* wait_for's timeout cancels the task.                                    *)
TimeOut ==
  /\ phase \in {"harness", "qa"} /\ ~early
  /\ Report("last")
  /\ UNCHANGED <<runVars, brokerVars, queueVars>>

(* SIGTERM during setup: the loop, which add_signal_handler relies on, has *)
(* not run yet.                                                            *)
EarlySignal ==
  /\ phase = "setup" /\ ~early
  /\ early' = TRUE
  /\ UNCHANGED <<phase, call, attempt, marked, shutdown, exit,
                 brokerVars, queueVars>>

(* The loop runs _handle_signal, for a signal of now or of then, and that  *)
(* cancels the task; while the harness works an exception of another kind  *)
(* can come out of it.  A signal that arrives while a call blocks the loop *)
(* is never looked at: no await follows.                                   *)
SignalHandled ==
  /\ phase \in {"harness", "qa"}
  /\ shutdown' = TRUE /\ early' = FALSE
  /\ \/ Report("last")
     \/ phase = "harness" /\ Report("in_run")
  /\ UNCHANGED <<marked, brokerVars, queueVars>>

-----------------------------------------------------------------------------
(* _with_retry around a call                                               *)

Listening == \E i \in Slot : Waiting(i)

(* The connection is made and a broker instance has the request.           *)
Issue(i) ==
  /\ phase = "calling" /\ ~Listening
  /\ Arrive(i, KindOf(call))
  /\ UNCHANGED <<runnerVars, s3, ticket, queried, counted, body, queueVars>>

(* What follows a call that returns ...                                    *)
Returned ==
  /\ marked' = (marked \/ call \in {"publish", "in_run", "violation"})
  /\ \/ call \in {"publish", "violation"} /\ Exit("0")
     \/ call = "in_run" /\ HandleException(TRUE)
     \/ call \in {"config", "missing", "last"} /\ Exit("1")
  /\ UNCHANGED queueVars

(* ... and one that raises.                                                *)
Raised ==
  /\ UNCHANGED marked
  /\ \/ call = "publish" /\ Report("in_run") /\ Unsent
     \/ /\ call \in {"in_run", "violation", "missing"}
        /\ HandleException(marked) /\ Unsent
     \/ call \in {"config", "last"} /\ SendDirect /\ Exit("1")
  /\ UNCHANGED row

(* Variant: one attempt too many.                                          *)
AttemptFailsOneMore ==
  \/ /\ attempt <= MaxAttempts
     /\ attempt' = attempt + 1
     /\ UNCHANGED <<phase, call, marked, exit, queueVars>>
  \/ attempt > MaxAttempts /\ Raised

(* Transport errors and 5xx are retried.                                   *)
AttemptFails ==
  \/ /\ attempt < MaxAttempts
     /\ attempt' = attempt + 1
     /\ UNCHANGED <<phase, call, marked, exit, queueVars>>
  \/ attempt = MaxAttempts /\ Raised

(* No connection.                                                          *)
ConnectFails ==
  /\ phase = "calling" /\ ~Listening
  /\ AttemptFails
  /\ UNCHANGED <<early, shutdown, brokerVars>>

(* The runner has waited long enough, or loses the connection or the       *)
(* answer.                                                                 *)
GiveUp(i) ==
  /\ phase = "calling"
  /\ Abandon(i)
  /\ AttemptFails
  /\ UNCHANGED <<early, shutdown, s3, ticket, queried, counted, body>>

Answer(i) ==
  /\ phase = "calling"
  /\ TakeAnswer(i)
  /\ \/ requests[i].code = 200 /\ Returned
     \/ requests[i].code \in {500, NoCode} /\ AttemptFails
     \/ requests[i].code \in {400, 401, 409} /\ Raised
  /\ UNCHANGED <<early, shutdown, s3, ticket, queried, counted, body>>

(* The process is killed: OOM, SIGKILL, eviction.  Its requests go on.     *)
Kill ==
  /\ phase # "over"
  /\ Exit(Killed)
  /\ requests' = [i \in Slot |-> Unheard(i)]
  /\ UNCHANGED <<runVars, s3, ticket, queried, counted, body, queueVars>>

(* The agent, or the QA gate's script, asks for data.                      *)
QueryData ==
  /\ phase \in {"harness", "qa"}
  /\ QuerySucceeds
  /\ UNCHANGED runnerVars

Proceed ==
  \/ Setup \/ SetupWithoutBroker \/ HarnessReturns \/ QaDone
  \/ TimeOut \/ SignalHandled \/ ConnectFails
  \/ \E i \in Slot : Issue(i) \/ GiveUp(i) \/ Answer(i)

RunnerStep == Proceed \/ EarlySignal \/ QueryData \/ Kill
=============================================================================
