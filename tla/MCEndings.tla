------------------------------ MODULE MCEndings ------------------------------
(***************************************************************************)
(* An instance for TLC of the programs that have to end: the broker's      *)
(* browser, the embedding client, the record matchers, the QA gate, the    *)
(* plan sessions and the campaign plan Lambda.  They share nothing, so     *)
(* each behaviour is one of theirs while the others rest.                  *)
(***************************************************************************)
EXTENDS BrowserPool, EmbeddingBatches, RecordMatcher, QaGate,
        PlanSessions, CampaignLambda

VARIABLE part   \* the program that runs

Part == {"browser", "embeddings", "matcher", "gate", "sessions", "lambda"}

endingsVars == <<part, browserVars, batchVars, matcherVars, gateVars,
                 sessionsVars, lambdaVars>>

EndingsInit ==
  /\ part \in Part
  /\ part # "matcher" => matcher = "ddhq"
  /\ part # "gate" => entries = {} /\ left = 0
  /\ BrowserInit /\ BatchInit /\ MatcherInit /\ QaInit /\ SessionsInit /\ LambdaInit
  /\ part # "lambda" => \A m \in Message : inputQueue[m].body = "good"

EndingsNext ==
  /\ UNCHANGED part
  /\ IF part = "browser" THEN BrowserNext ELSE UNCHANGED browserVars
  /\ IF part = "embeddings" THEN BatchNext ELSE UNCHANGED batchVars
  /\ IF part = "matcher" THEN MatcherNext ELSE UNCHANGED matcherVars
  /\ IF part = "gate" THEN QaNext ELSE UNCHANGED gateVars
  /\ IF part = "sessions" THEN SessionsNext ELSE UNCHANGED sessionsVars
  /\ IF part = "lambda" THEN LambdaNext ELSE UNCHANGED lambdaVars

(* The fairness of each module, asked of the program that runs.            *)
On(p, A) == part = p /\ A

EndingsFairness ==
  /\ WF_browserVars(CloserNext)
  /\ WF_batchVars(On("embeddings", BatchNext))
  /\ WF_matcherVars(On("matcher", MatcherNext))
  /\ WF_gateVars(On("gate", Preflight \/ StartStages \/ StartQuery \/ BuildVerdict))
  /\ WF_gateVars(On("gate", GateTick \/ CutRun \/ ScriptTimesOut
                               \/ KillAfterGrace \/ QueryTimesOut))
  /\ WF_gateVars(On("gate", ScriptExits /\ ~script.runs))
  /\ \A s \in Session : /\ WF_sessionsVars(CommunityDone(s) \/ TimelineDone(s) \/ TasksDone(s))
                        /\ WF_sessionsVars(StreamLooks(s))
  /\ \A m \in Message : WF_lambdaVars(Handles(m))

EndingsSpec == EndingsInit /\ [][EndingsNext]_endingsVars /\ EndingsFairness
-----------------------------------------------------------------------------
(* What no step of a program may undo: rows, errors and the bar of a plan  *)
(* are final; a second query has its one reason, and a stream ends well    *)
(* only over both files.                                                   *)
EndingsForward ==
  RowsFinal /\ OneFinalize /\ ProgressForward /\ CompletedHasBoth /\ ErrorFinal

(* Every program comes to an end: shutdown, embedding, matching, gate,     *)
(* stream and message, whatever fails or is late.                          *)
EveryProgramEnds ==
  ShutdownEnds /\ EmbeddingEnds /\ MatchingEnds /\ GateEnds /\ StreamsEnd /\ MessagesEnd
=============================================================================
