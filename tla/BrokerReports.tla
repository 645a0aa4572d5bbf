----------------------------- MODULE BrokerReports -----------------------------
(***************************************************************************)
(* The two broker endpoints through which a run ends, /artifact/publish    *)
(* (broker/endpoints/artifact_publish.py) and /internal/run-status         *)
(* (run_status.py), for one run.  Requests run in the broker's threads, on *)
(* several instances: a request the runner gave up on goes on beside the   *)
(* one that repeats it, and an instance can die between any two calls.     *)
(* BrokerSpec puts no limit on what the client sends, and when; the runner *)
(* that really calls is in Runner.                                         *)
(***************************************************************************)
EXTENDS ResultsQueue

CONSTANTS
  NeedsData,  \* the manifest declares scope.allowed_tables
  Slot        \* bound: names for the requests in progress at a time

ASSUME NeedsDataAssumption == NeedsData \in BOOLEAN

VARIABLES
  s3,        \* the objects of the run in the artifact bucket
  ticket,    \* the scope ticket exists
  queried,   \* a data query of the run has succeeded
  counted,   \* the ticket's query_count is positive
  requests,  \* the requests in progress
  body       \* what the publish body holds: the gates' view of it

brokerVars == <<s3, ticket, queried, counted, requests, body>>

(* latest: latest.json holds the artifact of this run.                     *)
Evidence == {"main_output", "eval_transcript"}
Object == {"artifact", "latest", "verdict", "rejected"} \cup Evidence
Body == [clean : BOOLEAN,    \* passes the PII, HTML and fence checks
         exempt : BOOLEAN,   \* carries a value of data_required_unless
         qa : SUBSET ({"verdict"} \cup Evidence)]
                             \* the QA fields present, within their caps

Kind == {"publish", "failed", "contract_violation"}
Call == {"auth", "gate", "artifact", "latest", "verdict", "main_output",
         "eval_transcript", "rejected", "callback", "delete"}
Code == {200, 400, 401, 409, 500}
NoCode == 0   \* the instance died: the connection is closed

(* at: the call the handler makes next.  waiting: the runner still listens.*)
Request == [kind : Kind, at : Call \cup {"free", "answered"}, waiting : BOOLEAN,
            code : Code \cup {NoCode}]

Free == [kind |-> "failed", at |-> "free", waiting |-> FALSE, code |-> NoCode]
NewRequest(k) == [kind |-> k, at |-> "auth", waiting |-> TRUE, code |-> NoCode]

BrokerTypeOK ==
  /\ s3 \in SUBSET Object
  /\ ticket \in BOOLEAN /\ queried \in BOOLEAN /\ counted \in BOOLEAN
  /\ requests \in [Slot -> Request]
  /\ body \in Body

BrokerInit ==
  /\ s3 = {} /\ ticket = TRUE /\ queried = FALSE /\ counted = FALSE
  /\ requests = [i \in Slot |-> Free]
  /\ body \in Body
  /\ NeedsData \/ ~body.exempt

At(i, call) == requests[i].at = call
InProgress(i) == requests[i].at \in Call
Advance(i, call) ==
  requests' = [requests EXCEPT ![i] = [kind |-> @.kind, at |-> call,
                                       waiting |-> @.waiting, code |-> NoCode]]
Respond(i, code) ==
  requests' = [requests EXCEPT
                 ![i] = IF @.waiting
                        THEN [kind |-> @.kind, at |-> "answered",
                              waiting |-> TRUE, code |-> code]
                        ELSE Free]

-----------------------------------------------------------------------------
(* get_ticket; an error of DynamoDB is a 500.                              *)
Authenticate(i) ==
  /\ At(i, "auth")
  /\ \/ /\ ticket
        /\ Advance(i, CASE requests[i].kind = "publish" -> "gate"
                        [] requests[i].kind = "contract_violation" -> "rejected"
                        [] OTHER -> "callback")
     \/ ~ticket /\ Respond(i, 401)
     \/ Respond(i, 500)
  /\ UNCHANGED <<s3, ticket, queried, counted, body, queueVars>>

(* Variant: the anti-fabrication gate is missing.                          *)
GateWithoutData(i) ==
  /\ At(i, "gate")
  /\ \/ body.clean /\ Advance(i, "artifact")
     \/ ~body.clean /\ Respond(i, 400)
     \/ Respond(i, 500)
  /\ UNCHANGED <<s3, ticket, queried, counted, body, queueVars>>

(* The anti-fabrication gate with its carve-out, then the content checks.  *)
Gate(i) ==
  LET backed == NeedsData => counted \/ body.exempt
  IN /\ At(i, "gate")
     /\ \/ backed /\ body.clean /\ Advance(i, "artifact")
        \/ ~(backed /\ body.clean) /\ Respond(i, 400)
        \/ NeedsData /\ Respond(i, 500)
     /\ UNCHANGED <<s3, ticket, queried, counted, body, queueVars>>

(* Variant: latest.json first.                                             *)
PutLatestFirst(i) ==
  /\ At(i, "artifact")
  /\ \/ s3' = s3 \cup {"artifact", "latest"} /\ Advance(i, "latest")
     \/ s3' \in {s3, s3 \cup {"latest"}} /\ Respond(i, 500)
  /\ UNCHANGED <<ticket, queried, counted, body, queueVars>>

(* The write-once archive.  A put that fails may have written the object,  *)
(* and the SDK's own retry of such a put finds it there.                   *)
PutArtifact(i) ==
  /\ At(i, "artifact")
  /\ \/ "artifact" \notin s3 /\ s3' = s3 \cup {"artifact"} /\ Advance(i, "latest")
     \/ s3' = s3 \cup {"artifact"} /\ Respond(i, 409)
     \/ s3' \in {s3, s3 \cup {"artifact"}} /\ Respond(i, 500)
  /\ UNCHANGED <<ticket, queried, counted, body, queueVars>>

(* latest.json is best effort.                                             *)
PutLatest(i) ==
  /\ At(i, "latest")
  /\ s3' \in {s3, s3 \cup {"latest"}}
  /\ Advance(i, "verdict")
  /\ UNCHANGED <<ticket, queried, counted, body, queueVars>>

(* Variant: the evidence is not coupled to the verdict.                    *)
PutVerdictUncoupled(i) ==
  /\ At(i, "verdict")
  /\ s3' \in {s3, s3 \cup ({"verdict"} \cap body.qa)}
  /\ Advance(i, "main_output")
  /\ UNCHANGED <<ticket, queried, counted, body, queueVars>>

(* The verdict, write-once and best effort; the raw output and the         *)
(* transcript follow only if it is known to be there.                      *)
PutVerdict(i) ==
  /\ At(i, "verdict")
  /\ \/ /\ "verdict" \in body.qa
        /\ s3' = s3 \cup {"verdict"}
        /\ Advance(i, "main_output")
     \/ /\ s3' \in {s3, s3 \cup ({"verdict"} \cap body.qa)}
        /\ Advance(i, "callback")
  /\ UNCHANGED <<ticket, queried, counted, body, queueVars>>

(* The raw output and the transcript, once the verdict is there.           *)
PutEvidence(i, o, next) ==
  /\ At(i, o)
  /\ s3' \in {s3, s3 \cup ({o} \cap body.qa)}
  /\ Advance(i, next)
  /\ UNCHANGED <<ticket, queried, counted, body, queueVars>>
PutMainOutput(i) == PutEvidence(i, "main_output", "eval_transcript")
PutTranscript(i) == PutEvidence(i, "eval_transcript", "callback")

(* The quarantine of a rejected artifact, best effort.                     *)
PutRejected(i) ==
  /\ At(i, "rejected")
  /\ s3' \in {s3, s3 \cup {"rejected"}}
  /\ Advance(i, "callback")
  /\ UNCHANGED <<ticket, queried, counted, body, queueVars>>

Status(k) == IF k = "publish" THEN "success" ELSE k

(* Variant: an error of send_message is swallowed.                         *)
CallbackUnchecked(i) ==
  /\ At(i, "callback")
  /\ Accept("run", Status(requests[i].kind)) \/ Unsent
  /\ Advance(i, "delete")
  /\ UNCHANGED <<s3, ticket, queried, counted, body, row>>

(* send_result, in the group of the run.  Its exception is a 500, and the  *)
(* ticket stays.                                                           *)
Callback(i) ==
  /\ At(i, "callback")
  /\ \/ Accept("run", Status(requests[i].kind)) /\ Advance(i, "delete")
     \/ /\ Accept("run", Status(requests[i].kind)) \/ Unsent
        /\ Respond(i, 500)
  /\ UNCHANGED <<s3, ticket, queried, counted, body, row>>

(* delete_ticket_and_run_lock, then tracker.clear, both best effort.  The  *)
(* count is an attribute of the ticket's item.                             *)
DeleteTicket(i) ==
  /\ At(i, "delete")
  /\ \/ ticket' = FALSE /\ counted' = FALSE
     \/ UNCHANGED ticket /\ counted' \in {counted, FALSE}
  /\ Respond(i, 200)
  /\ UNCHANGED <<s3, queried, body, queueVars>>

HandlerStep(i) ==
  \/ Authenticate(i) \/ Gate(i) \/ PutArtifact(i) \/ PutLatest(i)
  \/ PutVerdict(i) \/ PutMainOutput(i) \/ PutTranscript(i)
  \/ PutRejected(i) \/ Callback(i) \/ DeleteTicket(i)

(* An instance dies: its request goes no further.                          *)
InstanceDies(i) ==
  /\ InProgress(i)
  /\ Respond(i, NoCode)
  /\ UNCHANGED <<s3, ticket, queried, counted, body, queueVars>>

(* The ticket's exp passes.                                                *)
TicketExpires ==
  /\ ticket
  /\ ticket' = FALSE
  /\ UNCHANGED <<s3, queried, counted, requests, body, queueVars>>

(* databricks_query: the query succeeds in the warehouse ...               *)
QuerySucceeds ==
  /\ ticket /\ NeedsData /\ ~queried
  /\ queried' = TRUE
  /\ UNCHANGED <<s3, ticket, counted, requests, body, queueVars>>

(* ... and is counted some time after, whether or not the ticket is there. *)
CountQuery ==
  /\ queried /\ ~counted
  /\ counted' = TRUE
  /\ UNCHANGED <<s3, ticket, queried, requests, body, queueVars>>

BrokerStep ==
  \/ \E i \in Slot : HandlerStep(i) \/ InstanceDies(i)
  \/ TicketExpires \/ CountQuery

-----------------------------------------------------------------------------
(* The client's end of a request                                           *)

Waiting(i) == requests[i].waiting

Arrive(i, k) ==
  /\ At(i, "free")
  /\ requests' = [requests EXCEPT ![i] = NewRequest(k)]

(* The client has stopped listening; the handler goes on.                  *)
Unheard(i) ==
  IF InProgress(i)
  THEN [kind |-> requests[i].kind, at |-> requests[i].at, waiting |-> FALSE,
        code |-> NoCode]
  ELSE Free

Abandon(i) ==
  /\ Waiting(i)
  /\ requests' = [requests EXCEPT ![i] = Unheard(i)]

TakeAnswer(i) ==
  /\ At(i, "answered")
  /\ requests' = [requests EXCEPT ![i] = Free]

AnyClient ==
  \E i \in Slot :
    /\ \/ \E k \in Kind : Arrive(i, k)
       \/ Abandon(i) \/ TakeAnswer(i)
    /\ UNCHANGED <<s3, ticket, queried, counted, body, queueVars>>

BrokerNext == BrokerStep \/ QuerySucceeds \/ AnyClient

BrokerSpec ==
  BrokerInit /\ QueueInit /\ [][BrokerNext]_<<brokerVars, queueVars>>

-----------------------------------------------------------------------------
(* What is to hold, whatever the client does                               *)

(* latest.json never holds an artifact without its archive                 *)
(* (artifact_publish.py, 360-363).                                         *)
LatestNeverOutruns == "latest" \in s3 => "artifact" \in s3

(* No raw output or transcript of the QA gate without its verdict, however *)
(* many publishes overlap (artifact_publish.py, 436-442).                  *)
NoOrphanEvidence == Evidence \cap s3 # {} => "verdict" \in s3

(* success is only sent for an artifact that is archived, passed the       *)
(* content checks and, where the manifest declares tables, is backed by a  *)
(* data query that succeeded or by the declared exemption                  *)
(* (artifact_publish.py, 238-285).                                         *)
SuccessJustified ==
  "success" \in accepted =>
    /\ "artifact" \in s3
    /\ body.clean
    /\ NeedsData => queried \/ body.exempt

(* What a handler knows at each of its calls, which makes the three        *)
(* inductive.                                                              *)
RequestInv(i) ==
  LET r == requests[i]
      backed == NeedsData => queried \/ body.exempt
  IN /\ r.at = "artifact" => body.clean /\ backed
     /\ r.at \in {"gate", "artifact", "latest", "verdict"} \cup Evidence
          => r.kind = "publish"
     /\ r.at = "rejected" => r.kind = "contract_violation"
     /\ r.kind = "publish"
          /\ r.at \in {"latest", "verdict", "callback"} \cup Evidence
          => body.clean /\ backed /\ "artifact" \in s3
     /\ r.at \in Evidence => "verdict" \in s3
     /\ r.at = "delete" \/ (r.at = "answered" /\ r.code = 200)
          => Status(r.kind) \in accepted
     /\ r.at = "answered" => r.waiting
     /\ r.at = "free" => ~r.waiting

BrokerInv ==
  /\ BrokerTypeOK /\ QueueTypeOK
  /\ LatestNeverOutruns /\ NoOrphanEvidence /\ SuccessJustified
  /\ counted => queried
  /\ \A i \in Slot : RequestInv(i)
=============================================================================
