--------------------------- MODULE CampaignLambda ---------------------------
(***************************************************************************)
(* The campaign plan Lambda (campaign_plan_lambda): one message of its     *)
(* FIFO queue per invocation, the events it asks the model for, the result *)
(* in S3 and the message to gp-api; retries, the dead-letter queue and     *)
(* invocations that are killed.  The visibility timeout is longer than the *)
(* Lambda's, so that no two invocations have one message.                  *)
(***************************************************************************)
EXTENDS Naturals, FiniteSets

CONSTANTS
  Message,            \* messages gp-api sends, one campaign each
  MaxReceiveCount,    \* MAX_RECEIVE_COUNT of the handler
  Redrive,            \* maxReceiveCount of the queue
  MaxKills            \* bound: invocations that are killed

ASSUME LambdaAssumption ==
  IsFiniteSet(Message) /\ {MaxReceiveCount, Redrive} \subseteq Nat \ {0} /\ MaxKills \in Nat

VARIABLES
  inputQueue,     \* a message: what it is, where it is, how often it was received
  lambdaWork,      \* its invocation: where it is
  results,        \* results that were written: <<message, attempt>>
  gpapi,     \* what gp-api was sent: <<message, status, attempt>>
  lost,      \* messages whose last attempt could not tell gp-api
  kills

lambdaVars == <<inputQueue, lambdaWork, results, gpapi, lost, kills>>

MessageBody == {"good", "bad", "no_campaign"}

QueueEntry == [body : MessageBody, at : {"unsent", "visible", "flight", "done", "dlq"}, count : 0 .. Redrive]
WorkStep == {"none", "started", "parsed", "searched", "filtered", "written", "sent"}

LambdaTypeOK ==
  /\ inputQueue \in [Message -> QueueEntry]
  /\ lambdaWork \in [Message -> WorkStep]
  /\ results \subseteq Message \X (1 .. Redrive)
  /\ gpapi \subseteq Message \X {"completed", "error"} \X (1 .. Redrive)
  /\ \A m \in Message : (lambdaWork[m] # "none") = (inputQueue[m].at = "flight")

LambdaInit ==
  /\ \E b \in [Message -> MessageBody] : inputQueue = [m \in Message |-> [body |-> b[m], at |-> "unsent", count |-> 0]]
  /\ lambdaWork = [m \in Message |-> "none"]
  /\ results = {} /\ gpapi = {} /\ lost = {} /\ kills = 0

WorkAt(m, w) == lambdaWork' = [lambdaWork EXCEPT ![m] = w]
Queued(m, p) == inputQueue' = [inputQueue EXCEPT ![m].at = p]

GpApiSends(m) ==
  /\ inputQueue[m].at = "unsent" /\ Queued(m, "visible")
  /\ UNCHANGED <<lambdaWork, results, gpapi, lost, kills>>

(* Variant for the mutation run: a queue without a redrive policy.         *)
ReceiveAlways(m) ==
  /\ inputQueue[m].at = "visible" /\ WorkAt(m, "started")
  /\ inputQueue' = [inputQueue EXCEPT ![m].at = "flight", ![m].count = @ + 1]
  /\ lost' = lost \ {m} /\ UNCHANGED <<results, gpapi, kills>>

(* Received, or moved away when it was received too often.                 *)
Receive(m) ==
  /\ inputQueue[m].at = "visible"
  /\ IF inputQueue[m].count = Redrive
     THEN Queued(m, "dlq") /\ UNCHANGED lambdaWork
     ELSE inputQueue' = [inputQueue EXCEPT ![m].at = "flight", ![m].count = @ + 1] /\ WorkAt(m, "started")
  /\ lost' = lost \ {m}
  /\ UNCHANGED <<results, gpapi, kills>>

(* Variant: one attempt early.                                             *)
LastEarly(m) == inputQueue[m].count >= MaxReceiveCount - 1

Last(m) == inputQueue[m].count >= MaxReceiveCount

(* The invocation raises, and told is what gp-api has by then: the message *)
(* is seen again later.  On the last attempt gp-api is told first, if that *)
(* can be done.                                                            *)
Raise(m, tells, told) ==
  /\ Queued(m, "visible") /\ WorkAt(m, "none")
  /\ IF Last(m)
     THEN \/ tells /\ gpapi' = told \cup {<<m, "error", inputQueue[m].count>>} /\ UNCHANGED lost
          \/ lost' = lost \cup {m} /\ gpapi' = told
     ELSE gpapi' = told /\ UNCHANGED lost

(* Variant: only the handler's own exceptions tell gp-api.                 *)
ParseUntold(m) ==
  /\ lambdaWork[m] = "started" /\ UNCHANGED <<results, kills>>
  /\ \/ inputQueue[m].body = "good" /\ WorkAt(m, "parsed") /\ UNCHANGED <<inputQueue, gpapi, lost>>
     \/ inputQueue[m].body # "good" /\ Queued(m, "visible") /\ WorkAt(m, "none") /\ UNCHANGED <<gpapi, lost>>

(* The secrets are loaded, before anything else can tell gp-api of an      *)
(* error, and the body is read: a malformed one raises, and is told if it  *)
(* has a campaignId.                                                       *)
Parse(m) ==
  /\ lambdaWork[m] = "started"
  /\ \/ Raise(m, FALSE, gpapi)
     \/ inputQueue[m].body = "good" /\ WorkAt(m, "parsed") /\ UNCHANGED <<inputQueue, gpapi, lost>>
     \/ inputQueue[m].body # "good" /\ Raise(m, inputQueue[m].body = "bad", gpapi)
  /\ UNCHANGED <<results, kills>>

(* Variant: an error of the model is retried within the invocation.        *)
SearchAgain(m) ==
  /\ lambdaWork[m] = "parsed" /\ (WorkAt(m, "searched") \/ WorkAt(m, "started"))
  /\ UNCHANGED <<inputQueue, results, gpapi, lost, kills>>

SearchEvents(m) ==
  /\ lambdaWork[m] = "parsed"
  /\ \/ WorkAt(m, "searched") /\ UNCHANGED <<inputQueue, gpapi, lost>>
     \/ Raise(m, TRUE, gpapi)
  /\ UNCHANGED <<results, kills>>

(* The model's events, by their dates.  Those that cannot be read, are     *)
(* over or come after the election are dropped; the attempt fails only if  *)
(* there were events and none had a date that can be read.                 *)
UnreadableEvents(events) == events = {"unreadable"}

FilterEvents(m) ==
  /\ lambdaWork[m] = "searched"
  /\ \/ Raise(m, TRUE, gpapi)
     \/ \E events \in SUBSET {"in_range", "out_of_range", "unreadable"} :
          IF UnreadableEvents(events) THEN Raise(m, TRUE, gpapi)
                             ELSE WorkAt(m, "filtered") /\ UNCHANGED <<inputQueue, gpapi, lost>>
  /\ UNCHANGED <<results, kills>>

(* Variant: gp-api is told before there is a result.                       *)
WriteResultLate(m) ==
  /\ lambdaWork[m] = "filtered"
  /\ \/ /\ WorkAt(m, "sent") /\ gpapi' = gpapi \cup {<<m, "completed", inputQueue[m].count>>}
        /\ UNCHANGED <<inputQueue, results, lost>>
     \/ Raise(m, TRUE, gpapi) /\ UNCHANGED results
  /\ UNCHANGED kills

WriteResult(m) ==
  /\ lambdaWork[m] = "filtered"
  /\ \/ WorkAt(m, "written") /\ results' = results \cup {<<m, inputQueue[m].count>>} /\ UNCHANGED <<inputQueue, gpapi, lost>>
     \/ Raise(m, TRUE, gpapi) /\ UNCHANGED results
  /\ UNCHANGED kills

(* gp-api has the message, or has it although the call failed, or has not. *)
SendCompletion(m) ==
  /\ lambdaWork[m] = "written"
  /\ LET told == gpapi \cup {<<m, "completed", inputQueue[m].count>>} IN
     \/ WorkAt(m, "sent") /\ gpapi' = told /\ UNCHANGED <<inputQueue, lost>>
     \/ \E t \in {gpapi, told} : Raise(m, TRUE, t)
  /\ UNCHANGED <<results, kills>>

ReturnResult(m) ==
  /\ lambdaWork[m] = "sent" /\ Queued(m, "done") /\ WorkAt(m, "none")
  /\ UNCHANGED <<results, gpapi, lost, kills>>

(* Out of time or memory: nobody tells gp-api, and after the visibility    *)
(* timeout the message is there again.                                     *)
KillInvocation(m) ==
  /\ lambdaWork[m] # "none" /\ kills < MaxKills /\ kills' = kills + 1
  /\ Queued(m, "visible") /\ WorkAt(m, "none")
  /\ lost' = IF lambdaWork[m] # "sent" THEN lost \cup {m} ELSE lost
  /\ UNCHANGED <<results, gpapi>>

Handles(m) ==
  \/ Receive(m) \/ Parse(m) \/ SearchEvents(m) \/ FilterEvents(m)
  \/ WriteResult(m) \/ SendCompletion(m) \/ ReturnResult(m)

LambdaNext == \E m \in Message : GpApiSends(m) \/ Handles(m) \/ KillInvocation(m)

LambdaSpec == LambdaInit /\ [][LambdaNext]_lambdaVars /\ \A m \in Message : WF_lambdaVars(Handles(m))

-----------------------------------------------------------------------------
(* Properties                                                              *)

(* gp-api can fetch what it is told of: the result of that very attempt is *)
(* in S3.                                                                  *)
ResultThere == \A t \in gpapi : t[2] = "completed" => <<t[1], t[3]>> \in results

(* An error is final: it is told once, and neither a result nor another    *)
(* attempt follows it; the two constants that must agree for that are in   *)
(* two languages.                                                          *)
ErrorFinal ==
  [][\A m \in Message : (\E c \in 1 .. Redrive : <<m, "error", c>> \in gpapi) =>
       /\ inputQueue'[m].at # "flight"
       /\ {t \in gpapi' : t[1] = m} = {t \in gpapi : t[1] = m}]_lambdaVars

(* A message with a campaign reaches the dead-letter queue only with       *)
(* gp-api told, unless the last attempt was killed, had no secrets or      *)
(* could not send.                                                         *)
DeadLettersTold ==
  \A m \in Message :
    inputQueue[m].at = "visible" /\ inputQueue[m].count = Redrive /\ inputQueue[m].body # "no_campaign" /\ m \notin lost =>
      \E s \in {"completed", "error"}, c \in 1 .. Redrive : <<m, s, c>> \in gpapi

(* Every message that is sent is done with, here or in the dead letters.   *)
MessagesEnd == \A m \in Message : inputQueue[m].at = "visible" ~> inputQueue[m].at \in {"done", "dlq"}

(* gp-api's messages, results and dead letters agree.                      *)
LambdaInv == LambdaTypeOK /\ ResultThere /\ DeadLettersTold
=============================================================================
