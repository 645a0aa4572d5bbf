------------------------- MODULE RunLifecycleProofs -------------------------
(***************************************************************************)
(* The broker's reports and the life of a run, for any number of runs,     *)
(* tasks, executions and messages: what the broker answers is backed by    *)
(* what is there, and the row of a run only moves forward.                 *)
(***************************************************************************)
EXTENDS RunLifecycle, TLAPS

-----------------------------------------------------------------------------
(* The reports of the broker                                               *)

USE DEF NoCode, NoCall, Evidence

(* Objects, messages and a query that has succeeded do not go away, and    *)
(* the body of the publish does not change.                                *)
Grows ==
  /\ s3 \subseteq s3' /\ accepted \subseteq accepted'
  /\ queried => queried'
  /\ body' = body

(* What a handler knows stays true while other handlers work.              *)
LEMMA OtherRequest ==
  ASSUME NEW j \in Slot, RequestInv(j), Grows, requests'[j] = requests[j]
  PROVE  RequestInv(j)'
<1>1. InProgress(j)' = InProgress(j)
  BY DEF InProgress
<1>2. QED
  BY <1>1 DEF RequestInv, Grows

(* The two ways in which a handler changes its request.                    *)
LEMMA AdvanceFacts ==
  ASSUME requests \in [Slot -> Request], NEW i \in Slot, NEW c \in Call,
         Advance(i, c)
  PROVE  /\ requests' \in [Slot -> Request]
         /\ \A j \in Slot : j # i => requests'[j] = requests[j]
         /\ requests'[i].kind = requests[i].kind
         /\ requests'[i].at = c
         /\ requests'[i].waiting = requests[i].waiting
BY DEF Advance, Request

LEMMA RespondFacts ==
  ASSUME requests \in [Slot -> Request], NEW i \in Slot,
         NEW c \in Code \cup {NoCode}, Respond(i, c)
  PROVE  /\ requests' \in [Slot -> Request]
         /\ \A j \in Slot : j # i => requests'[j] = requests[j]
         /\ requests[i].waiting =>
              /\ requests'[i].kind = requests[i].kind
              /\ requests'[i].at = "answered"
              /\ requests'[i].waiting = TRUE
              /\ requests'[i].code = c
         /\ ~requests[i].waiting => requests'[i] = Free
<1>1. Free \in Request
  BY DEF Free, Request, Kind
<1>2. requests[i].kind \in Kind
  BY DEF Request
<1>3. QED
  BY <1>1, <1>2 DEF Respond, Request

(* An answer other than 200 needs no justification.                        *)
LEMMA ErrorAnswer ==
  ASSUME requests \in [Slot -> Request], NEW i \in Slot,
         NEW c \in {400, 401, 409, 500, NoCode}, Respond(i, c)
  PROVE  RequestInv(i)'
<1>1. c \in Code \cup {NoCode} /\ c # 200
  BY DEF Code
<1>2. CASE requests[i].waiting
  BY <1>1, <1>2, RespondFacts DEF RequestInv
<1>3. CASE ~requests[i].waiting
  <2>1. requests'[i] = Free
    BY <1>1, <1>3, RespondFacts
  <2>2. requests'[i].at = "free" /\ requests'[i].waiting = FALSE
    BY <2>1 DEF Free
  <2>3. QED
    BY <2>2 DEF RequestInv
<1>4. QED
  BY <1>2, <1>3

(* A 200 needs the callback to be accepted.                                *)
LEMMA GoodAnswer ==
  ASSUME requests \in [Slot -> Request], NEW i \in Slot, Respond(i, 200),
         Status(requests[i].kind) \in accepted, accepted' = accepted
  PROVE  RequestInv(i)'
<1>1. PICK c \in Code \cup {NoCode} : c = 200 /\ Respond(i, c)
  BY DEF Code
<1> DEFINE r == requests[i]
           s == requests'[i]
<1>0. /\ r.waiting => s.kind = r.kind /\ s.at = "answered" /\ s.waiting = TRUE
      /\ ~r.waiting => s = Free
  <2>1. ASSUME NEW d \in Code \cup {NoCode}, Respond(i, d)
        PROVE  /\ r.waiting => s.kind = r.kind /\ s.at = "answered" /\ s.waiting = TRUE
               /\ ~r.waiting => s = Free
    BY <2>1, RespondFacts
  <2>2. QED
    BY <1>1, <2>1
<1>2. CASE requests[i].waiting
  <2>1. /\ requests'[i].at = "answered" /\ requests'[i].waiting = TRUE
        /\ requests'[i].kind = requests[i].kind
    BY <1>0, <1>2
  <2>2. Status(requests'[i].kind) \in accepted'
    BY <2>1
  <2>3. QED
    BY <2>1, <2>2 DEF RequestInv, Status
<1>3. CASE ~requests[i].waiting
  <2>1. requests'[i] = Free
    BY <1>0, <1>3
  <2>2. requests'[i].at = "free" /\ requests'[i].waiting = FALSE
    BY <2>1 DEF Free
  <2>3. QED
    BY <2>2 DEF RequestInv
<1>4. QED
  BY <1>2, <1>3

(* The queue keeps its type, and what it accepted.                         *)
LEMMA AcceptType ==
  ASSUME QueueTypeOK, NEW g \in Group, NEW m \in Message, Accept(g, m), row' = row
  PROVE  QueueTypeOK'
<1>1. queue' \in [Group -> Seq(Message)]
  BY DEF QueueTypeOK, Accept
<1>2. accepted' \in SUBSET Message
  BY DEF QueueTypeOK, Accept
<1>3. successFirst' \in BOOLEAN
  BY DEF QueueTypeOK, Accept
<1>4. QED
  BY <1>1, <1>2, <1>3 DEF QueueTypeOK

-----------------------------------------------------------------------------
(* A step of request i keeps the invariant if it keeps the types and what  *)
(* can depend on i.                                                        *)
LEMMA Assemble ==
  ASSUME BrokerInv, NEW i \in Slot, Grows,
         BrokerTypeOK', QueueTypeOK',
         LatestNeverOutruns', NoOrphanEvidence', SuccessJustified',
         counted' => queried',
         \A j \in Slot : j # i => requests'[j] = requests[j],
         RequestInv(i)'
  PROVE  BrokerInv'
<1>1. ASSUME NEW j \in Slot
      PROVE  RequestInv(j)'
  <2>1. CASE j = i
    BY <2>1
  <2>2. CASE j # i
    BY <2>2, OtherRequest DEF BrokerInv
  <2>3. QED
    BY <2>1, <2>2
<1>2. QED
  BY <1>1 DEF BrokerInv

(* Most steps change neither the queue nor the query.                      *)
LEMMA AssembleQuiet ==
  ASSUME BrokerInv, NEW i \in Slot,
         UNCHANGED <<queried, body, queueVars>>, s3 \subseteq s3',
         s3' \in SUBSET Object, ticket' \in BOOLEAN,
         counted' \in {counted, FALSE},
         LatestNeverOutruns', NoOrphanEvidence',
         requests' \in [Slot -> Request],
         \A j \in Slot : j # i => requests'[j] = requests[j],
         RequestInv(i)'
  PROVE  BrokerInv'
<1>1. Grows
  BY DEF Grows, queueVars
<1>2. BrokerTypeOK'
  BY DEF BrokerInv, BrokerTypeOK
<1>3. QueueTypeOK'
  BY DEF BrokerInv, QueueTypeOK, queueVars
<1>4. SuccessJustified'
  BY DEF BrokerInv, SuccessJustified, queueVars
<1>5. counted' => queried'
  BY DEF BrokerInv
<1>6. QED
  BY <1>1, <1>2, <1>3, <1>4, <1>5, Assemble

(* A step that answers with an error and touches nothing but S3.           *)
LEMMA FailingStep ==
  ASSUME BrokerInv, NEW i \in Slot, NEW c \in {400, 401, 409, 500, NoCode},
         Respond(i, c),
         UNCHANGED <<ticket, queried, counted, body, queueVars>>,
         s3 \subseteq s3', s3' \in SUBSET Object,
         LatestNeverOutruns', NoOrphanEvidence'
  PROVE  BrokerInv'
<1>1. requests \in [Slot -> Request] /\ ticket \in BOOLEAN
  BY DEF BrokerInv, BrokerTypeOK
<1>2. c \in Code \cup {NoCode}
  BY DEF Code
<1>3. RequestInv(i)'
  BY <1>1, ErrorAnswer
<1>4. requests' \in [Slot -> Request] /\ \A j \in Slot : j # i => requests'[j] = requests[j]
  BY <1>1, <1>2, RespondFacts
<1>5. QED
  BY <1>1, <1>3, <1>4, AssembleQuiet

(* A step that goes on to the next call.                                   *)
LEMMA AdvancingStep ==
  ASSUME BrokerInv, NEW i \in Slot, NEW c \in Call, Advance(i, c),
         UNCHANGED <<ticket, queried, counted, body, queueVars>>,
         s3 \subseteq s3', s3' \in SUBSET Object,
         LatestNeverOutruns', NoOrphanEvidence',
         RequestInv(i)'
  PROVE  BrokerInv'
<1>1. requests \in [Slot -> Request] /\ ticket \in BOOLEAN
  BY DEF BrokerInv, BrokerTypeOK
<1>2. requests' \in [Slot -> Request] /\ \A j \in Slot : j # i => requests'[j] = requests[j]
  BY <1>1, AdvanceFacts
<1>3. QED
  BY <1>1, <1>2, AssembleQuiet

-----------------------------------------------------------------------------
(* The handlers, call by call                                              *)

LEMMA AuthenticateInv ==
  ASSUME BrokerInv, NEW i \in Slot, Authenticate(i)
  PROVE  BrokerInv'
<1> USE DEF Authenticate
<1>1. s3 \subseteq s3' /\ s3' \in SUBSET Object /\ LatestNeverOutruns' /\ NoOrphanEvidence'
  BY DEF BrokerInv, BrokerTypeOK, LatestNeverOutruns, NoOrphanEvidence
<1>2. requests \in [Slot -> Request] /\ requests[i].kind \in Kind
  BY DEF BrokerInv, BrokerTypeOK, Request
<1>3. CASE Respond(i, 401) \/ Respond(i, 500)
  BY <1>1, <1>3, FailingStep
<1>4. ASSUME NEW c \in {"gate", "rejected", "callback"}, Advance(i, c),
             c = "gate" => requests[i].kind = "publish",
             c = "rejected" => requests[i].kind = "contract_violation",
             c = "callback" => requests[i].kind = "failed"
      PROVE  BrokerInv'
  <2>1. c \in Call
    BY DEF Call
  <2>2. /\ requests'[i].at = c
        /\ requests'[i].kind = requests[i].kind
    BY <1>2, <1>4, <2>1, AdvanceFacts
  <2>3. RequestInv(i)'
    BY <1>4, <2>2 DEF RequestInv
  <2>4. QED
    BY <1>1, <1>4, <2>1, <2>3, AdvancingStep
<1>5. QED
  BY <1>2, <1>3, <1>4 DEF Kind

LEMMA GateInv ==
  ASSUME BrokerInv, NEW i \in Slot, Gate(i)
  PROVE  BrokerInv'
<1> USE DEF Gate
<1>1. s3 \subseteq s3' /\ s3' \in SUBSET Object /\ LatestNeverOutruns' /\ NoOrphanEvidence'
  BY DEF BrokerInv, BrokerTypeOK, LatestNeverOutruns, NoOrphanEvidence
<1>2. requests \in [Slot -> Request]
  BY DEF BrokerInv, BrokerTypeOK
<1>3. CASE Respond(i, 400) \/ Respond(i, 500)
  BY <1>1, <1>3, FailingStep
<1>4. CASE (NeedsData => counted \/ body.exempt) /\ body.clean /\ Advance(i, "artifact")
  <2>1. "artifact" \in Call
    BY DEF Call
  <2>2. requests'[i].at = "artifact" /\ requests'[i].kind = "publish"
    BY <1>2, <1>4, <2>1, AdvanceFacts DEF At, BrokerInv, RequestInv
  <2>3. NeedsData => queried' \/ body'.exempt
    BY <1>4 DEF BrokerInv
  <2>4. RequestInv(i)'
    BY <1>4, <2>2, <2>3 DEF RequestInv
  <2>5. QED
    BY <1>1, <1>4, <2>1, <2>4, AdvancingStep
<1>5. QED
  BY <1>3, <1>4

LEMMA PutArtifactInv ==
  ASSUME BrokerInv, NEW i \in Slot, PutArtifact(i)
  PROVE  BrokerInv'
<1> USE DEF PutArtifact, At
<1>1. s3 \subseteq s3' /\ s3' \in SUBSET Object /\ LatestNeverOutruns' /\ NoOrphanEvidence'
  BY DEF BrokerInv, BrokerTypeOK, LatestNeverOutruns, NoOrphanEvidence, Object
<1>2. requests \in [Slot -> Request]
  BY DEF BrokerInv, BrokerTypeOK
<1>3. CASE Respond(i, 409) \/ Respond(i, 500)
  BY <1>1, <1>3, FailingStep
<1>4. CASE "artifact" \in s3' /\ Advance(i, "latest")
  <2>1. "latest" \in Call
    BY DEF Call
  <2>2. requests'[i].at = "latest" /\ requests'[i].kind = requests[i].kind
    BY <1>2, <1>4, <2>1, AdvanceFacts
  <2>3. RequestInv(i)'
    BY <1>4, <2>2 DEF RequestInv, BrokerInv
  <2>4. QED
    BY <1>1, <1>4, <2>1, <2>3, AdvancingStep
<1>5. QED
  BY <1>3, <1>4

LEMMA PutLatestInv ==
  ASSUME BrokerInv, NEW i \in Slot, PutLatest(i)
  PROVE  BrokerInv'
<1> USE DEF PutLatest, At
<1>1. s3 \subseteq s3' /\ s3' \in SUBSET Object /\ NoOrphanEvidence'
  BY DEF BrokerInv, BrokerTypeOK, NoOrphanEvidence, Object
<1>2. requests \in [Slot -> Request] /\ "verdict" \in Call
  BY DEF BrokerInv, BrokerTypeOK, Call
<1>3. RequestInv(i)
  BY DEF BrokerInv
<1>4. requests'[i].at = "verdict" /\ requests'[i].kind = requests[i].kind
  BY <1>2, AdvanceFacts
<1>5. LatestNeverOutruns'
  BY <1>1, <1>3 DEF RequestInv, LatestNeverOutruns
<1>6. RequestInv(i)'
  BY <1>1, <1>3, <1>4 DEF RequestInv
<1>7. QED
  BY <1>1, <1>2, <1>5, <1>6, AdvancingStep

LEMMA PutVerdictInv ==
  ASSUME BrokerInv, NEW i \in Slot, PutVerdict(i)
  PROVE  BrokerInv'
<1> USE DEF PutVerdict, At
<1>1. s3 \subseteq s3' /\ s3' \in SUBSET Object /\ LatestNeverOutruns' /\ NoOrphanEvidence'
  BY DEF BrokerInv, BrokerTypeOK, LatestNeverOutruns, NoOrphanEvidence, Object
<1>2. requests \in [Slot -> Request] /\ RequestInv(i)
  BY DEF BrokerInv, BrokerTypeOK
<1>3. ASSUME NEW c \in {"main_output", "callback"}, Advance(i, c),
             c = "main_output" => "verdict" \in s3'
      PROVE  BrokerInv'
  <2>1. c \in Call
    BY DEF Call
  <2>2. requests'[i].at = c /\ requests'[i].kind = requests[i].kind
    BY <1>2, <1>3, <2>1, AdvanceFacts
  <2>3. RequestInv(i)'
    BY <1>1, <1>2, <1>3, <2>2 DEF RequestInv
  <2>4. QED
    BY <1>1, <1>3, <2>1, <2>3, AdvancingStep
<1>4. QED
  BY <1>3

LEMMA PutEvidenceInv ==
  ASSUME BrokerInv, NEW i \in Slot,
         PutEvidence(i, "main_output", "eval_transcript")
           \/ PutEvidence(i, "eval_transcript", "callback")
  PROVE  BrokerInv'
<1> USE DEF PutEvidence, At
<1>1. requests \in [Slot -> Request] /\ RequestInv(i) /\ "verdict" \in s3
  BY DEF BrokerInv, BrokerTypeOK, RequestInv
<1>2. s3 \subseteq s3' /\ s3' \in SUBSET Object /\ LatestNeverOutruns' /\ NoOrphanEvidence'
  BY <1>1 DEF BrokerInv, BrokerTypeOK, LatestNeverOutruns, NoOrphanEvidence, Object
<1>3. PICK c \in {"eval_transcript", "callback"} : Advance(i, c)
  OBVIOUS
<1>4. c \in Call
  BY DEF Call
<1>5. requests'[i].at = c /\ requests'[i].kind = requests[i].kind
  BY <1>1, <1>3, <1>4, AdvanceFacts
<1>6. RequestInv(i)'
  BY <1>1, <1>2, <1>5 DEF RequestInv
<1>7. QED
  BY <1>2, <1>3, <1>4, <1>6, AdvancingStep

LEMMA PutRejectedInv ==
  ASSUME BrokerInv, NEW i \in Slot, PutRejected(i)
  PROVE  BrokerInv'
<1> USE DEF PutRejected, At
<1>1. s3 \subseteq s3' /\ s3' \in SUBSET Object /\ LatestNeverOutruns' /\ NoOrphanEvidence'
  BY DEF BrokerInv, BrokerTypeOK, LatestNeverOutruns, NoOrphanEvidence, Object
<1>2. requests \in [Slot -> Request] /\ RequestInv(i) /\ "callback" \in Call
  BY DEF BrokerInv, BrokerTypeOK, Call
<1>3. requests'[i].at = "callback" /\ requests'[i].kind = requests[i].kind
  BY <1>2, AdvanceFacts
<1>4. RequestInv(i)'
  BY <1>2, <1>3 DEF RequestInv
<1>5. QED
  BY <1>1, <1>2, <1>4, AdvancingStep

LEMMA CallbackInv ==
  ASSUME BrokerInv, NEW i \in Slot, Callback(i)
  PROVE  BrokerInv'
<1> USE DEF Callback, At
<1>1. requests \in [Slot -> Request] /\ RequestInv(i) /\ "delete" \in Call
  BY DEF BrokerInv, BrokerTypeOK, Call
<1> DEFINE m == Status(requests[i].kind)
<1>2. m \in Message /\ "run" \in Group
  BY <1>1 DEF Request, Kind, Status, Message, Group
<1>3. QueueTypeOK' /\ accepted \subseteq accepted'
  <2>1. CASE Accept("run", m)
    BY <1>2, <2>1, AcceptType DEF BrokerInv, Accept
  <2>2. CASE Unsent
    BY <2>2 DEF Unsent, BrokerInv, QueueTypeOK
  <2>3. QED
    BY <2>1, <2>2
<1>4. Grows
  BY <1>3 DEF Grows
<1>5. accepted' \subseteq accepted \cup {m}
  BY DEF Accept, Unsent
<1>6. SuccessJustified'
  <2>1. m = "success" => requests[i].kind = "publish"
    BY <1>1 DEF Status, Request, Kind
  <2>2. m = "success" => "artifact" \in s3 /\ body.clean /\ (NeedsData => queried \/ body.exempt)
    BY <1>1, <2>1 DEF RequestInv
  <2>3. QED
    BY <1>5, <2>2 DEF SuccessJustified, BrokerInv
<1>7. LatestNeverOutruns' /\ NoOrphanEvidence' /\ (counted' => queried')
  BY DEF BrokerInv, LatestNeverOutruns, NoOrphanEvidence
<1>8. ASSUME requests' \in [Slot -> Request]
      PROVE  BrokerTypeOK'
  BY <1>8 DEF BrokerInv, BrokerTypeOK
<1>9. CASE Accept("run", m) /\ Advance(i, "delete")
  <2>1. /\ requests' \in [Slot -> Request]
        /\ \A j \in Slot : j # i => requests'[j] = requests[j]
        /\ requests'[i].at = "delete" /\ requests'[i].kind = requests[i].kind
    BY <1>1, <1>9, AdvanceFacts
  <2>2. m \in accepted' /\ Status(requests'[i].kind) = m
    BY <1>9, <2>1 DEF Accept
  <2>3. RequestInv(i)'
    BY <2>1, <2>2 DEF RequestInv, Status
  <2>4. QED
    BY <1>3, <1>4, <1>6, <1>7, <1>8, <2>1, <2>3, Assemble
<1>10. CASE Respond(i, 500)
  <2>1. /\ requests' \in [Slot -> Request]
        /\ \A j \in Slot : j # i => requests'[j] = requests[j]
    <3>1. PICK c \in Code \cup {NoCode} : Respond(i, c)
      BY <1>10 DEF Code
    <3>2. QED
      BY <1>1, <3>1, RespondFacts
  <2>2. RequestInv(i)'
    BY <1>1, <1>10, ErrorAnswer
  <2>3. QED
    BY <1>3, <1>4, <1>6, <1>7, <1>8, <2>1, <2>2, Assemble
<1>11. QED
  BY <1>9, <1>10

LEMMA DeleteTicketInv ==
  ASSUME BrokerInv, NEW i \in Slot, DeleteTicket(i)
  PROVE  BrokerInv'
<1> USE DEF DeleteTicket, At
<1>1. requests \in [Slot -> Request] /\ RequestInv(i) /\ 200 \in Code \cup {NoCode}
  BY DEF BrokerInv, BrokerTypeOK, Code
<1>2. /\ s3' = s3 /\ s3' \in SUBSET Object
      /\ ticket' \in BOOLEAN /\ counted' \in {counted, FALSE}
      /\ LatestNeverOutruns' /\ NoOrphanEvidence'
  BY DEF BrokerInv, BrokerTypeOK, LatestNeverOutruns, NoOrphanEvidence
<1>3. /\ requests' \in [Slot -> Request]
      /\ \A j \in Slot : j # i => requests'[j] = requests[j]
  BY <1>1, RespondFacts
<1>4. Status(requests[i].kind) \in accepted /\ accepted' = accepted
  BY <1>1 DEF RequestInv, queueVars
<1>5. RequestInv(i)'
  BY <1>1, <1>4, GoodAnswer
<1>6. QED
  BY <1>2, <1>3, <1>5, AssembleQuiet

LEMMA InstanceDiesInv ==
  ASSUME BrokerInv, NEW i \in Slot, InstanceDies(i)
  PROVE  BrokerInv'
<1>1. /\ s3' = s3 /\ s3' \in SUBSET Object
      /\ LatestNeverOutruns' /\ NoOrphanEvidence'
  BY DEF InstanceDies, BrokerInv, BrokerTypeOK, LatestNeverOutruns, NoOrphanEvidence
<1>2. QED
  BY <1>1, FailingStep DEF InstanceDies

LEMMA HandlerInv ==
  ASSUME BrokerInv, NEW i \in Slot, HandlerStep(i)
  PROVE  BrokerInv'
BY AuthenticateInv, GateInv, PutArtifactInv, PutLatestInv, PutVerdictInv,
   PutEvidenceInv, PutRejectedInv, CallbackInv, DeleteTicketInv
   DEF HandlerStep, PutMainOutput, PutTranscript

-----------------------------------------------------------------------------
(* The client and the rest of the broker's surroundings                    *)

(* A request that arrives, or is no longer heard, or whose answer is taken.*)
LEMMA ClientRequestInv ==
  ASSUME BrokerInv, NEW i \in Slot, Grows,
         \/ \E k \in Kind : requests'[i] = NewRequest(k)
         \/ requests'[i] = Unheard(i)
         \/ requests'[i] = Free
  PROVE  RequestInv(i)' /\ requests'[i] \in Request
<1>1. requests[i] \in Request /\ RequestInv(i)
  BY DEF BrokerInv, BrokerTypeOK
<1>2. ASSUME NEW k \in Kind, requests'[i] = NewRequest(k)
      PROVE  RequestInv(i)' /\ requests'[i] \in Request
  <2>1. requests'[i].at = "auth" /\ requests'[i] \in Request
    BY <1>2 DEF NewRequest, Request, Call
  <2>2. QED
    BY <2>1 DEF RequestInv
<1>3. CASE requests'[i] = Free
  <2>1. requests'[i].at = "free" /\ requests'[i].waiting = FALSE /\ requests'[i] \in Request
    BY <1>3 DEF Free, Request, Kind
  <2>2. QED
    BY <2>1 DEF RequestInv
<1>4. CASE InProgress(i) /\ requests'[i] = Unheard(i)
  <2>1. /\ requests'[i].at = requests[i].at /\ requests'[i].kind = requests[i].kind
        /\ requests'[i].waiting = FALSE
        /\ requests'[i].at \in Call /\ requests'[i] \in Request
    BY <1>1, <1>4 DEF InProgress, Unheard, Request
  <2>2. RequestInv(i)'
    BY <1>1, <2>1 DEF RequestInv, Status, Call, Grows
  <2>3. QED
    BY <2>1, <2>2
<1>5. QED
  BY <1>2, <1>3, <1>4 DEF Unheard

(* Whatever changes some requests in these ways keeps the invariant, if it *)
(* sends no success.                                                       *)
LEMMA ClientInv ==
  ASSUME BrokerInv, QueueTypeOK', accepted \subseteq accepted',
         "success" \in accepted' => "success" \in accepted,
         UNCHANGED <<s3, ticket, queried, counted, body>>,
         requests' = [i \in Slot |-> requests'[i]],
         \A i \in Slot : \/ requests'[i] = requests[i]
                         \/ \E k \in Kind : requests'[i] = NewRequest(k)
                         \/ requests'[i] = Unheard(i)
                         \/ requests'[i] = Free
  PROVE  BrokerInv'
<1>0. Grows
  BY DEF Grows
<1>1. ASSUME NEW i \in Slot
      PROVE  RequestInv(i)' /\ requests'[i] \in Request
  <2>1. CASE requests'[i] = requests[i]
    <3>1. RequestInv(i) /\ requests[i] \in Request
      BY DEF BrokerInv, BrokerTypeOK
    <3>2. QED
      BY <1>0, <2>1, <3>1, OtherRequest
  <2>2. CASE requests'[i] # requests[i]
    BY <1>0, <2>2, ClientRequestInv
  <2>3. QED
    BY <2>1, <2>2
<1>2. requests' \in [Slot -> Request]
  BY <1>1
<1>3. BrokerTypeOK'
  BY <1>2 DEF BrokerInv, BrokerTypeOK
<1>4. LatestNeverOutruns' /\ NoOrphanEvidence' /\ SuccessJustified' /\ (counted' => queried')
  BY DEF BrokerInv, LatestNeverOutruns, NoOrphanEvidence, SuccessJustified
<1>5. QED
  BY <1>1, <1>3, <1>4 DEF BrokerInv

LEMMA ArriveInv ==
  ASSUME BrokerInv, NEW i \in Slot,
         (\E k \in Kind : Arrive(i, k)) \/ Abandon(i) \/ TakeAnswer(i)
  PROVE  /\ requests' = [j \in Slot |-> requests'[j]]
         /\ \A j \in Slot : \/ requests'[j] = requests[j]
                            \/ \E k \in Kind : requests'[j] = NewRequest(k)
                            \/ requests'[j] = Unheard(j)
                            \/ requests'[j] = Free
<1>1. requests \in [Slot -> Request]
  BY DEF BrokerInv, BrokerTypeOK
<1>2. QED
  BY <1>1 DEF Arrive, Abandon, TakeAnswer

(* Time, and the queries.                                                  *)
LEMMA SurroundingsInv ==
  ASSUME BrokerInv, TicketExpires \/ QuerySucceeds \/ CountQuery
  PROVE  BrokerInv'
<1> USE DEF TicketExpires, QuerySucceeds, CountQuery
<1>1. Grows /\ requests' = requests
  BY DEF Grows, queueVars
<1>2. \A j \in Slot : RequestInv(j)'
  BY <1>1, OtherRequest DEF BrokerInv
<1>3. BrokerTypeOK' /\ QueueTypeOK'
  BY DEF BrokerInv, BrokerTypeOK, QueueTypeOK, queueVars
<1>4. LatestNeverOutruns' /\ NoOrphanEvidence' /\ SuccessJustified' /\ (counted' => queried')
  BY DEF BrokerInv, LatestNeverOutruns, NoOrphanEvidence, SuccessJustified, queueVars
<1>5. QED
  BY <1>2, <1>3, <1>4 DEF BrokerInv

LEMMA BrokerStepInv ==
  ASSUME BrokerInv, BrokerStep
  PROVE  BrokerInv'
BY HandlerInv, InstanceDiesInv, SurroundingsInv DEF BrokerStep

LEMMA BrokerInitInv ==
  ASSUME BrokerInit, QueueInit
  PROVE  BrokerInv
<1>1. Free \in Request
  BY DEF Free, Request, Kind
<1>2. BrokerTypeOK
  BY <1>1 DEF BrokerInit, BrokerTypeOK, Object
<1>3. QueueTypeOK
  <2>1. <<>> \in Seq(Message)
    OBVIOUS
  <2>2. queue \in [Group -> Seq(Message)]
    BY <2>1 DEF QueueInit
  <2>3. QED
    BY <2>2 DEF QueueInit, QueueTypeOK, Row
<1>4. ASSUME NEW i \in Slot
      PROVE  RequestInv(i)
  <2>1. requests[i].at = "free" /\ requests[i].waiting = FALSE
    BY DEF BrokerInit, Free
  <2>2. QED
    BY <2>1 DEF RequestInv
<1>5. LatestNeverOutruns /\ NoOrphanEvidence /\ SuccessJustified /\ (counted => queried)
  BY DEF BrokerInit, QueueInit, LatestNeverOutruns, NoOrphanEvidence, SuccessJustified
<1>6. QED
  BY <1>2, <1>3, <1>4, <1>5 DEF BrokerInv

(* What each handler knows at each of its calls is inductive: the gate     *)
(* precedes the archive, the archive latest.json and the callback, the     *)
(* verdict its evidence, for any requests in any overlap.                  *)
THEOREM BrokerInductive == BrokerSpec => []BrokerInv
<1>1. BrokerInit /\ QueueInit => BrokerInv
  BY BrokerInitInv
<1>2. BrokerInv /\ [BrokerNext]_<<brokerVars, queueVars>> => BrokerInv'
  <2> SUFFICES ASSUME BrokerInv, [BrokerNext]_<<brokerVars, queueVars>>
               PROVE  BrokerInv'
    OBVIOUS
  <2>1. CASE BrokerStep
    BY <2>1, BrokerStepInv
  <2>2. CASE QuerySucceeds
    BY <2>2, SurroundingsInv
  <2>3. CASE AnyClient
    <3>1. QueueTypeOK' /\ accepted' = accepted
      BY <2>3 DEF AnyClient, queueVars, BrokerInv, QueueTypeOK
    <3>2. QED
      BY <2>3, <3>1, ArriveInv, ClientInv DEF AnyClient
  <2>4. CASE UNCHANGED <<brokerVars, queueVars>>
    BY <2>4 DEF brokerVars, queueVars, BrokerInv, BrokerTypeOK, QueueTypeOK,
         LatestNeverOutruns, NoOrphanEvidence, SuccessJustified, RequestInv
  <2>5. QED
    BY <2>1, <2>2, <2>3, <2>4 DEF BrokerNext
<1>3. QED
  BY <1>1, <1>2, PTL DEF BrokerSpec

(* The gates hold: no success is sent for an artifact that is not archived,*)
(* not clean, or not backed by data (artifact_publish.py, 238-285).        *)
THEOREM GatesHold == BrokerSpec => []SuccessJustified
<1>1. BrokerInv => SuccessJustified
  BY DEF BrokerInv
<1>2. QED
  BY <1>1, BrokerInductive, PTL

(* latest.json never outruns the archive (artifact_publish.py, 360-363).   *)
THEOREM ArchiveFirst == BrokerSpec => []LatestNeverOutruns
<1>1. BrokerInv => LatestNeverOutruns
  BY DEF BrokerInv
<1>2. QED
  BY <1>1, BrokerInductive, PTL

(* No orphaned QA evidence (artifact_publish.py, 436-442).                 *)
THEOREM VerdictFirst == BrokerSpec => []NoOrphanEvidence
<1>1. BrokerInv => NoOrphanEvidence
  BY DEF BrokerInv
<1>2. QED
  BY <1>1, BrokerInductive, PTL

-----------------------------------------------------------------------------
(* The life of a run                                                       *)

USE DEF Running, Killed

-----------------------------------------------------------------------------
(* The results queue                                                       *)

LEMMA AcceptQueued ==
  ASSUME QueueTypeOK, QueuedAccepted, NEW g \in Group, NEW m \in Message,
         Accept(g, m)
  PROVE  QueuedAccepted'
<1>1. CASE m \in accepted
  BY <1>1 DEF Accept, QueuedAccepted, QueueTypeOK
<1>2. CASE m \notin accepted
  <2>1. \A h \in Group : queue[h] \in Seq(Message)
    BY DEF QueueTypeOK
  <2>2. queue' = [queue EXCEPT ![g] = Append(@, m)] /\ accepted' = accepted \cup {m}
    BY <1>2 DEF Accept
  <2>3. ASSUME NEW h \in Group, NEW n \in 1 .. Len(queue'[h])
        PROVE  queue'[h][n] \in accepted'
    <3>1. CASE h # g
      BY <2>2, <2>3, <3>1 DEF QueuedAccepted, QueueTypeOK
    <3>2. CASE h = g
      <4>1. queue'[h] = Append(queue[h], m)
        BY <2>2, <3>2 DEF QueueTypeOK
      <4>2. Len(queue'[h]) = Len(queue[h]) + 1
        BY <2>1, <4>1
      <4>3. CASE n = Len(queue[h]) + 1
        BY <2>1, <2>2, <4>1, <4>3
      <4>4. CASE n \in 1 .. Len(queue[h])
        BY <2>1, <2>2, <4>1, <4>4 DEF QueuedAccepted
      <4>5. Len(queue[h]) \in Nat
        BY <2>1
      <4>6. QED
        BY <4>2, <4>3, <4>4, <4>5
    <3>3. QED
      BY <3>1, <3>2
  <2>4. QED
    BY <2>3 DEF QueuedAccepted
<1>3. QED
  BY <1>1, <1>2

(* What a message may do to the queue, when the row stays.                 *)
LEMMA SendInv ==
  ASSUME QueueTypeOK, QueuedAccepted, row' = row,
         NEW g \in Group, NEW m \in Message, Accept(g, m) \/ Unsent
  PROVE  /\ QueueTypeOK' /\ QueuedAccepted'
         /\ accepted \subseteq accepted'
         /\ accepted' \subseteq accepted \cup {m}
<1>1. CASE Accept(g, m)
  BY <1>1, AcceptType, AcceptQueued DEF Accept
<1>2. CASE Unsent
  BY <1>2 DEF Unsent, QueueTypeOK, QueuedAccepted
<1>3. QED
  BY <1>1, <1>2

(* A delivery: the head was accepted, so it is what the row is told.       *)
LEMMA ConsumeInv ==
  ASSUME QueueTypeOK, QueuedAccepted, NEW g \in Group, Consume(g)
  PROVE  /\ QueueTypeOK' /\ QueuedAccepted'
         /\ accepted' = accepted
         /\ Head(queue[g]) \in accepted
<1>1. queue[g] \in Seq(Message) /\ queue[g] # <<>>
  BY DEF QueueTypeOK, Consume
<1>2. Head(queue[g]) = queue[g][1] /\ 1 \in 1 .. Len(queue[g])
  BY <1>1
<1>3. Head(queue[g]) \in accepted
  BY <1>2 DEF QueuedAccepted
<1>4. Head(queue[g]) \in Message
  BY <1>3 DEF QueueTypeOK
<1>5. row' \in Row
  BY <1>4 DEF Consume, RowAfter, QueueTypeOK, Row, TerminalRow
<1>6. accepted' = accepted /\ successFirst' = successFirst
  BY DEF Consume
<1>7. CASE queue' = queue
  BY <1>3, <1>5, <1>6, <1>7 DEF QueueTypeOK, QueuedAccepted
<1>8. CASE queue' = [queue EXCEPT ![g] = Tail(@)]
  <2>1. queue'[g] = Tail(queue[g]) /\ Tail(queue[g]) \in Seq(Message)
    BY <1>1, <1>8 DEF QueueTypeOK
  <2>2. queue' \in [Group -> Seq(Message)]
    BY <1>8, <2>1 DEF QueueTypeOK
  <2>3. Len(Tail(queue[g])) = Len(queue[g]) - 1 /\ Len(queue[g]) \in Nat
    BY <1>1
  <2>4. ASSUME NEW n \in 1 .. Len(Tail(queue[g]))
        PROVE  Tail(queue[g])[n] = queue[g][n + 1] /\ n + 1 \in 1 .. Len(queue[g])
    BY <1>1, <2>3, <2>4
  <2>5. ASSUME NEW h \in Group, NEW n \in 1 .. Len(queue'[h])
        PROVE  queue'[h][n] \in accepted'
    <3>1. CASE h = g
      BY <1>6, <2>1, <2>4, <2>5, <3>1 DEF QueuedAccepted
    <3>2. CASE h # g
      BY <1>6, <1>8, <2>5, <3>2 DEF QueuedAccepted, QueueTypeOK
    <3>3. QED
      BY <3>1, <3>2
  <2>6. QueuedAccepted'
    BY <2>5 DEF QueuedAccepted
  <2>7. QED
    BY <1>3, <1>5, <1>6, <2>2, <2>6 DEF QueueTypeOK
<1>9. QED
  BY <1>7, <1>8 DEF Consume

-----------------------------------------------------------------------------
(* The runner                                                              *)

(* The part of the invariant that the broker does not touch.               *)
ControlInv ==
  /\ RunnerTypeOK /\ CleanExitReported
  /\ phase = "calling" => call \in CallName
  /\ exit = Running <=> phase # "over"
  /\ \A i \in Slot : Waiting(i) => phase = "calling" /\ requests[i].kind = KindOf(call)
  /\ \A i, j \in Slot : Waiting(i) /\ Waiting(j) => i = j

OthersTypeOK == job \in Job /\ reaper \in {"watching", "sent", "lost"}

LEMMA RunInvParts ==
  RunInv <=> ControlInv /\ BrokerInv /\ QueuedAccepted /\ OthersTypeOK
BY DEF RunInv, ControlInv, TypeOK, BrokerInv, OthersTypeOK

LEMMA Reassemble ==
  ASSUME ControlInv', BrokerInv', QueuedAccepted', OthersTypeOK'
  PROVE  RunInv'
BY DEF RunInv, ControlInv, TypeOK, BrokerInv, OthersTypeOK

(* Wherever main goes while it listens to no request, other than to a      *)
(* clean exit.                                                             *)
Moves ==
  \/ \E c \in CallName : Report(c)
  \/ \E p \in {"harness", "qa"} : Goto(p)
  \/ \E x \in {"1", Killed} : Exit(x)

LEMMA MoveInv ==
  ASSUME ControlInv, phase # "over", Moves,
         marked' \in BOOLEAN, early' \in BOOLEAN, shutdown' \in BOOLEAN,
         \A i \in Slot : ~Waiting(i)'
  PROVE  ControlInv'
<1>1. exit = Running
  BY DEF ControlInv
<1>2. 1 \in 0 .. MaxAttempts /\ 0 \in 0 .. MaxAttempts
  BY AttemptsAssumption
<1>3. RunnerTypeOK'
  BY <1>1, <1>2 DEF Moves, Report, Goto, Exit, ControlInv, RunnerTypeOK, Phase, ExitCode
<1>4. CleanExitReported'
  BY <1>1 DEF Moves, Report, Goto, Exit, CleanExitReported
<1>5. phase' = "calling" => call' \in CallName
  BY DEF Moves, Report, Goto, Exit
<1>6. exit' = Running <=> phase' # "over"
  BY <1>1 DEF Moves, Report, Goto, Exit
<1>7. QED
  BY <1>3, <1>4, <1>5, <1>6 DEF ControlInv

LEMMA HandleExceptionMoves ==
  ASSUME NEW m, HandleException(m)
  PROVE  Moves
BY DEF HandleException, Moves, CallName

(* Steps of main that send no request and take no answer.                  *)
LEMMA QuietMoveInv ==
  ASSUME RunInv, phase \in {"setup", "harness", "qa"}, Moves,
         marked' = marked, early' \in BOOLEAN, shutdown' \in BOOLEAN,
         SendDirect, UNCHANGED <<brokerVars, row, job, reaper>>
  PROVE  RunInv'
<1>1. ControlInv /\ BrokerInv /\ QueuedAccepted /\ OthersTypeOK
  BY RunInvParts
<1>2. \A i \in Slot : ~Waiting(i)'
  BY <1>1 DEF ControlInv, Waiting, brokerVars
<1>3. ControlInv'
  BY <1>1, <1>2, MoveInv DEF ControlInv, RunnerTypeOK
<1>4. "run" \in Group /\ "direct" \in Message
  BY DEF Group, Message
<1>5. /\ QueueTypeOK' /\ QueuedAccepted' /\ accepted \subseteq accepted'
      /\ accepted' \subseteq accepted \cup {"direct"}
  <2>1. Accept("run", "direct") \/ Unsent
    BY DEF SendDirect
  <2>2. row' = row /\ QueueTypeOK
    BY <1>1 DEF BrokerInv
  <2>3. QED
    BY <1>1, <1>4, <2>1, <2>2, SendInv
<1>6. BrokerInv'
  <2>1. requests' = [i \in Slot |-> requests'[i]] /\ requests' = requests
    BY <1>1 DEF brokerVars, BrokerInv, BrokerTypeOK
  <2>2. QED
    BY <1>1, <1>5, <2>1, ClientInv DEF brokerVars
<1>7. OthersTypeOK'
  BY <1>1 DEF OthersTypeOK
<1>8. QED
  BY <1>3, <1>5, <1>6, <1>7, Reassemble

LEMMA QuietSteps ==
  ASSUME RunInv, UNCHANGED <<job, reaper>>,
         Setup \/ SetupWithoutBroker \/ HarnessReturns \/ QaDone \/ TimeOut
           \/ SignalHandled
  PROVE  RunInv'
<1>1. marked \in BOOLEAN /\ early \in BOOLEAN /\ shutdown \in BOOLEAN
  BY DEF RunInv, TypeOK, RunnerTypeOK
<1> USE DEF runVars, queueVars, SendDirect, Unsent, CallName, Moves
<1>2. CASE Setup
  BY <1>1, <1>2, QuietMoveInv, HandleExceptionMoves DEF Setup
<1>3. CASE SetupWithoutBroker
  BY <1>1, <1>3, QuietMoveInv DEF SetupWithoutBroker
<1>4. CASE HarnessReturns
  BY <1>1, <1>4, QuietMoveInv DEF HarnessReturns, AfterHarness
<1>5. CASE QaDone
  BY <1>1, <1>5, QuietMoveInv DEF QaDone
<1>6. CASE TimeOut
  BY <1>1, <1>6, QuietMoveInv DEF TimeOut
<1>7. CASE SignalHandled
  BY <1>1, <1>7, QuietMoveInv DEF SignalHandled
<1>8. QED
  BY <1>2, <1>3, <1>4, <1>5, <1>6, <1>7

LEMMA EarlySignalInv ==
  ASSUME RunInv, UNCHANGED <<job, reaper>>, EarlySignal
  PROVE  RunInv'
BY DEF EarlySignal, RunInv, TypeOK, RunnerTypeOK, BrokerInv, BrokerTypeOK,
   QueueTypeOK, QueuedAccepted, CleanExitReported, brokerVars, queueVars,
   LatestNeverOutruns, NoOrphanEvidence, SuccessJustified, RequestInv, Waiting

(* A call to the broker, from here on.                                     *)
LEMMA IssueInv ==
  ASSUME RunInv, UNCHANGED <<job, reaper>>, NEW i \in Slot, Issue(i)
  PROVE  RunInv'
<1>1. /\ ControlInv /\ BrokerInv /\ QueuedAccepted /\ OthersTypeOK
      /\ requests \in [Slot -> Request]
      /\ call \in CallName /\ KindOf(call) \in Kind
  BY RunInvParts DEF ControlInv, BrokerInv, BrokerTypeOK, Issue, KindOf, CallName, Kind
<1>2. /\ requests' = [requests EXCEPT ![i] = NewRequest(KindOf(call))]
      /\ phase = "calling" /\ \A j \in Slot : ~Waiting(j)
      /\ UNCHANGED <<phase, call, attempt, marked, early, shutdown, exit>>
      /\ UNCHANGED <<queue, accepted, successFirst, row>>
  BY DEF Issue, Arrive, Listening, runnerVars, queueVars
<1>3. BrokerInv' /\ QueuedAccepted'
  <2>1. QueueTypeOK' /\ accepted' = accepted /\ QueuedAccepted'
    BY <1>1, <1>2 DEF BrokerInv, QueueTypeOK, QueuedAccepted
  <2>2. QED
    BY <1>1, <2>1, ArriveInv, ClientInv DEF Issue, queueVars
<1>4. ASSUME NEW j \in Slot, Waiting(j)'
      PROVE  j = i /\ requests'[j].kind = KindOf(call)
  BY <1>1, <1>2, <1>4 DEF Waiting, NewRequest
<1>5. ControlInv'
  BY <1>1, <1>2, <1>4 DEF ControlInv, RunnerTypeOK, CleanExitReported
<1>6. OthersTypeOK'
  BY <1>1 DEF OthersTypeOK
<1>7. QED
  BY <1>3, <1>5, <1>6, Reassemble

(* What a call that raises leads to.                                       *)
LEMMA RaisedFacts ==
  ASSUME RunInv, Raised
  PROVE  /\ Moves /\ marked' = marked
         /\ QueueTypeOK' /\ QueuedAccepted' /\ accepted \subseteq accepted'
         /\ accepted' \subseteq accepted \cup {"direct"}
<1>1. marked' = marked /\ row' = row /\ QueueTypeOK /\ QueuedAccepted
  BY DEF Raised, RunInv, TypeOK
<1>2. Moves
  BY HandleExceptionMoves DEF Raised, Moves, CallName
<1>3. Accept("run", "direct") \/ Unsent
  BY DEF Raised, SendDirect
<1>4. "run" \in Group /\ "direct" \in Message
  BY DEF Group, Message
<1>5. QED
  BY <1>1, <1>2, <1>3, <1>4, SendInv

(* An attempt that fails, once its request, if any, is no longer heard.    *)
LEMMA AttemptFailsInv ==
  ASSUME RunInv, phase = "calling", AttemptFails,
         UNCHANGED <<early, shutdown, s3, ticket, queried, counted, body, job, reaper>>,
         requests' = [i \in Slot |-> requests'[i]],
         \A i \in Slot : requests'[i] \in {requests[i], Unheard(i), Free},
         \A i \in Slot : ~Waiting(i)'
  PROVE  RunInv'
<1>1. ControlInv /\ BrokerInv /\ QueuedAccepted /\ OthersTypeOK /\ QueueTypeOK
  BY RunInvParts DEF BrokerInv
<1>2. CASE attempt < MaxAttempts /\ attempt' = attempt + 1
           /\ UNCHANGED <<phase, call, marked, exit, queueVars>>
  <2>1. QueueTypeOK' /\ QueuedAccepted' /\ accepted' = accepted
    BY <1>1, <1>2 DEF QueueTypeOK, QueuedAccepted, queueVars
  <2>2. BrokerInv'
    BY <1>1, <2>1, ClientInv
  <2>3. attempt' \in 0 .. MaxAttempts
    BY <1>1, <1>2, AttemptsAssumption DEF ControlInv, RunnerTypeOK
  <2>4. ControlInv'
    BY <1>1, <1>2, <2>1, <2>3 DEF ControlInv, RunnerTypeOK, CleanExitReported
  <2>5. OthersTypeOK'
    BY <1>1 DEF OthersTypeOK
  <2>6. QED
    BY <2>1, <2>2, <2>4, <2>5, Reassemble
<1>3. CASE Raised
  <2>1. /\ Moves /\ marked' = marked
        /\ QueueTypeOK' /\ QueuedAccepted' /\ accepted \subseteq accepted'
        /\ accepted' \subseteq accepted \cup {"direct"}
    BY <1>3, RaisedFacts
  <2>2. BrokerInv'
    BY <1>1, <2>1, ClientInv
  <2>3. ControlInv'
    BY <1>1, <2>1, MoveInv DEF ControlInv, RunnerTypeOK
  <2>4. OthersTypeOK'
    BY <1>1 DEF OthersTypeOK
  <2>5. QED
    BY <2>1, <2>2, <2>3, <2>4, Reassemble
<1>4. QED
  BY <1>2, <1>3 DEF AttemptFails

LEMMA ConnectFailsInv ==
  ASSUME RunInv, UNCHANGED <<job, reaper>>, ConnectFails
  PROVE  RunInv'
<1>1. requests' = requests /\ requests' = [i \in Slot |-> requests'[i]]
  BY DEF ConnectFails, brokerVars, RunInv, TypeOK, BrokerTypeOK
<1>2. \A i \in Slot : ~Waiting(i)'
  BY <1>1 DEF ConnectFails, Listening, Waiting
<1>3. QED
  BY <1>1, <1>2, AttemptFailsInv DEF ConnectFails, brokerVars

(* The request the runner listens to is the only one.                      *)
LEMMA Deaf ==
  ASSUME RunInv, NEW i \in Slot, Waiting(i),
         requests' = [requests EXCEPT ![i] = Unheard(i)]
           \/ requests' = [requests EXCEPT ![i] = Free]
  PROVE  /\ requests' = [j \in Slot |-> requests'[j]]
         /\ \A j \in Slot : requests'[j] \in {requests[j], Unheard(j), Free}
         /\ \A j \in Slot : ~Waiting(j)'
<1>1. requests \in [Slot -> Request]
  BY DEF RunInv, TypeOK, BrokerTypeOK
<1>2. \A j \in Slot : j # i => requests'[j] = requests[j] /\ ~Waiting(j)
  BY <1>1 DEF RunInv
<1>3. requests'[i] \in {Unheard(i), Free} /\ requests'[i].waiting = FALSE
  BY <1>1 DEF Unheard, Free
<1>4. QED
  BY <1>1, <1>2, <1>3 DEF Waiting

LEMMA GiveUpInv ==
  ASSUME RunInv, UNCHANGED <<job, reaper>>, NEW i \in Slot, GiveUp(i)
  PROVE  RunInv'
BY Deaf, AttemptFailsInv DEF GiveUp, Abandon

(* The exit with 0: the 200 that leads to it was for the call that was     *)
(* made, so the queue has accepted its message.                            *)
LEMMA ReturnedInv ==
  ASSUME RunInv, UNCHANGED <<job, reaper>>, NEW i \in Slot, Answer(i),
         requests[i].code = 200, Returned
  PROVE  RunInv'
<1>1. ControlInv /\ BrokerInv /\ QueuedAccepted /\ OthersTypeOK
  BY RunInvParts
<1>2. /\ At(i, "answered") /\ requests' = [requests EXCEPT ![i] = Free]
      /\ phase = "calling"
      /\ UNCHANGED <<early, shutdown, s3, ticket, queried, counted, body>>
      /\ UNCHANGED <<queue, accepted, successFirst, row>>
  BY DEF Answer, TakeAnswer, Returned, queueVars
<1>3. Waiting(i) /\ Status(requests[i].kind) \in accepted
  BY <1>1, <1>2 DEF BrokerInv, RequestInv, At, Waiting
<1>4. requests[i].kind = KindOf(call)
  BY <1>1, <1>3 DEF ControlInv
<1>5. /\ requests' = [j \in Slot |-> requests'[j]]
      /\ \A j \in Slot : requests'[j] \in {requests[j], Unheard(j), Free}
      /\ \A j \in Slot : ~Waiting(j)'
  BY <1>2, <1>3, Deaf
<1>6. QueueTypeOK' /\ QueuedAccepted'
  BY <1>1, <1>2 DEF BrokerInv, QueueTypeOK, QueuedAccepted
<1>7. BrokerInv'
  BY <1>1, <1>2, <1>5, <1>6, ClientInv
<1>8. marked \in BOOLEAN /\ marked' \in BOOLEAN
  BY <1>1 DEF ControlInv, RunnerTypeOK, Returned
<1>9. ControlInv'
  <2>1. CASE call \in {"publish", "violation"} /\ Exit("0")
    <3>1. Status(requests[i].kind) \in {"success", "contract_violation"}
      BY <1>4, <2>1 DEF KindOf, Status
    <3>2. CleanExitReported'
      BY <1>2, <1>3, <3>1 DEF CleanExitReported
    <3>3. RunnerTypeOK'
      BY <1>1, <1>2, <1>8, <2>1, AttemptsAssumption
         DEF ControlInv, RunnerTypeOK, Exit, Phase, ExitCode
    <3>4. QED
      BY <1>5, <2>1, <3>2, <3>3 DEF ControlInv, Exit
  <2>2. CASE Moves
    BY <1>1, <1>2, <1>5, <1>8, <2>2, MoveInv DEF ControlInv, RunnerTypeOK
  <2>3. QED
    BY <2>1, <2>2, HandleExceptionMoves DEF Returned, Moves
<1>10. OthersTypeOK'
  BY <1>1 DEF OthersTypeOK
<1>11. QED
  BY <1>6, <1>7, <1>9, <1>10, Reassemble

LEMMA AnswerInv ==
  ASSUME RunInv, UNCHANGED <<job, reaper>>, NEW i \in Slot, Answer(i)
  PROVE  RunInv'
<1>1. CASE requests[i].code = 200 /\ Returned
  BY <1>1, ReturnedInv
<1>2. CASE AttemptFails \/ Raised
  <2>1. Waiting(i)
    BY DEF Answer, TakeAnswer, At, RunInv, BrokerInv, RequestInv, Waiting
  <2>2. /\ requests' = [j \in Slot |-> requests'[j]]
        /\ \A j \in Slot : requests'[j] \in {requests[j], Unheard(j), Free}
        /\ \A j \in Slot : ~Waiting(j)'
        /\ UNCHANGED <<early, shutdown, s3, ticket, queried, counted, body>>
        /\ phase = "calling"
    BY <2>1, Deaf DEF Answer, TakeAnswer
  <2>3. CASE AttemptFails
    BY <2>2, <2>3, AttemptFailsInv
  <2>4. CASE Raised
    <3>1. /\ Moves /\ marked' = marked
          /\ QueueTypeOK' /\ QueuedAccepted' /\ accepted \subseteq accepted'
          /\ accepted' \subseteq accepted \cup {"direct"}
      BY <2>4, RaisedFacts
    <3>2. ControlInv /\ BrokerInv /\ QueuedAccepted /\ OthersTypeOK
      BY RunInvParts
    <3>3. BrokerInv'
      BY <2>2, <3>1, <3>2, ClientInv
    <3>4. ControlInv'
      BY <2>2, <3>1, <3>2, MoveInv DEF ControlInv, RunnerTypeOK
    <3>5. OthersTypeOK'
      BY <3>2 DEF OthersTypeOK
    <3>6. QED
      BY <3>1, <3>3, <3>4, <3>5, Reassemble
  <2>5. QED
    BY <1>2, <2>3, <2>4
<1>3. QED
  BY <1>1, <1>2 DEF Answer

LEMMA KillInv ==
  ASSUME RunInv, UNCHANGED <<job, reaper>>, Kill
  PROVE  RunInv'
<1>1. ControlInv /\ BrokerInv /\ QueuedAccepted /\ OthersTypeOK
  BY RunInvParts
<1>2. /\ requests' = [i \in Slot |-> requests'[i]]
      /\ \A i \in Slot : requests'[i] = Unheard(i)
  BY DEF Kill
<1>3. \A i \in Slot : ~Waiting(i)'
  BY <1>2 DEF Unheard, Free, Waiting
<1>4. /\ QueueTypeOK' /\ QueuedAccepted' /\ accepted' = accepted
      /\ UNCHANGED <<marked, early, shutdown>>
  BY <1>1 DEF Kill, queueVars, runVars, BrokerInv, QueueTypeOK, QueuedAccepted
<1>5. BrokerInv'
  BY <1>1, <1>2, <1>4, ClientInv DEF Kill
<1>6. ControlInv'
  BY <1>1, <1>3, <1>4, MoveInv DEF Kill, Moves, ControlInv, RunnerTypeOK
<1>7. OthersTypeOK'
  BY <1>1 DEF OthersTypeOK
<1>8. QED
  BY <1>4, <1>5, <1>6, <1>7, Reassemble

-----------------------------------------------------------------------------
(* The broker and the control plane                                        *)

(* A step that leaves the runner alone and opens no request for it.        *)
LEMMA ControlKept ==
  ASSUME ControlInv, UNCHANGED runnerVars, accepted \subseteq accepted',
         \A j \in Slot : Waiting(j)' => /\ Waiting(j)
                                       /\ requests'[j].kind = requests[j].kind
  PROVE  ControlInv'
<1>1. UNCHANGED <<phase, call, attempt, marked, early, shutdown, exit>>
  BY DEF runnerVars
<1>2. RunnerTypeOK' /\ CleanExitReported'
  BY <1>1 DEF ControlInv, RunnerTypeOK, CleanExitReported
<1>3. QED
  BY <1>1, <1>2 DEF ControlInv

(* A handler opens no request, and none is waited for that was not.        *)
NoneOpened ==
  \A j \in Slot : Waiting(j)' => Waiting(j) /\ requests'[j].kind = requests[j].kind

LEMMA AdvanceOpensNone ==
  ASSUME requests \in [Slot -> Request], NEW i \in Slot, NEW c \in Call, Advance(i, c)
  PROVE  NoneOpened
BY AdvanceFacts DEF NoneOpened, Waiting

LEMMA RespondOpensNone ==
  ASSUME requests \in [Slot -> Request], NEW i \in Slot,
         NEW c \in Code \cup {NoCode}, Respond(i, c)
  PROVE  NoneOpened
<1>1. \A j \in Slot : j # i => requests'[j] = requests[j]
  BY RespondFacts
<1>2. CASE requests[i].waiting
  BY <1>1, <1>2, RespondFacts DEF NoneOpened, Waiting
<1>3. CASE ~requests[i].waiting
  <2>1. requests'[i] = Free
    BY <1>3, RespondFacts
  <2>2. requests'[i].waiting = FALSE
    BY <2>1 DEF Free
  <2>3. QED
    BY <1>1, <2>2 DEF NoneOpened, Waiting
<1>4. QED
  BY <1>2, <1>3

LEMMA HandlerOpensNone ==
  ASSUME requests \in [Slot -> Request], NEW i \in Slot,
         HandlerStep(i) \/ InstanceDies(i)
  PROVE  NoneOpened
<1>1. ASSUME \/ \E c \in {"gate", "artifact", "latest", "verdict", "main_output",
                          "eval_transcript", "rejected", "callback", "delete"} :
                  Advance(i, c)
             \/ \E c \in {200, 400, 401, 409, 500, NoCode} : Respond(i, c)
      PROVE  NoneOpened
  <2>1. ASSUME NEW c \in {"gate", "artifact", "latest", "verdict", "main_output",
                          "eval_transcript", "rejected", "callback", "delete"},
               Advance(i, c)
        PROVE  NoneOpened
    <3>1. c \in Call
      BY DEF Call
    <3>2. QED
      BY <2>1, <3>1, AdvanceOpensNone
  <2>2. ASSUME NEW c \in {200, 400, 401, 409, 500, NoCode}, Respond(i, c)
        PROVE  NoneOpened
    <3>1. c \in Code \cup {NoCode}
      BY DEF Code
    <3>2. QED
      BY <2>2, <3>1, RespondOpensNone
  <2>3. QED
    BY <1>1, <2>1, <2>2
<1>2. CASE Authenticate(i)
  <2>1. requests[i].kind \in Kind
    BY DEF Request
  <2>2. \/ \E c \in {"gate", "rejected", "callback"} : Advance(i, c)
        \/ Respond(i, 401) \/ Respond(i, 500)
    BY <1>2, <2>1 DEF Authenticate, Kind
  <2>3. QED
    BY <1>1, <2>2
<1>3. CASE Gate(i)
  BY <1>1, <1>3 DEF Gate
<1>4. CASE PutArtifact(i)
  BY <1>1, <1>4 DEF PutArtifact
<1>5. CASE PutLatest(i) \/ PutVerdict(i)
  BY <1>1, <1>5 DEF PutLatest, PutVerdict
<1>6. CASE PutMainOutput(i) \/ PutTranscript(i) \/ PutRejected(i)
  BY <1>1, <1>6 DEF PutMainOutput, PutTranscript, PutEvidence, PutRejected
<1>7. CASE Callback(i)
  BY <1>1, <1>7 DEF Callback
<1>8. CASE DeleteTicket(i)
  BY <1>1, <1>8 DEF DeleteTicket
<1>9. CASE InstanceDies(i)
  BY <1>1, <1>9 DEF InstanceDies
<1>10. QED
  BY <1>2, <1>3, <1>4, <1>5, <1>6, <1>7, <1>8, <1>9 DEF HandlerStep

LEMMA HandlerQueues ==
  ASSUME BrokerInv, QueuedAccepted, NEW i \in Slot, HandlerStep(i) \/ InstanceDies(i)
  PROVE  QueuedAccepted' /\ accepted \subseteq accepted' /\ row' = row
<1>1. CASE Callback(i)
  <2>1. requests \in [Slot -> Request] /\ QueueTypeOK
    BY DEF BrokerInv, BrokerTypeOK
  <2>2. Status(requests[i].kind) \in Message /\ "run" \in Group
    BY <2>1 DEF Request, Kind, Status, Message, Group
  <2>3. row' = row /\ (Accept("run", Status(requests[i].kind)) \/ Unsent)
    BY <1>1 DEF Callback
  <2>4. QED
    BY <2>1, <2>2, <2>3, SendInv
<1>2. CASE ~Callback(i)
  <2>1. UNCHANGED queueVars
    BY <1>2 DEF HandlerStep, InstanceDies, Authenticate, Gate, PutArtifact, PutLatest,
       PutVerdict, PutMainOutput, PutTranscript, PutEvidence, PutRejected, DeleteTicket
  <2>2. QED
    BY <2>1 DEF queueVars, QueuedAccepted
<1>3. QED
  BY <1>1, <1>2

LEMMA BrokerActionInv ==
  ASSUME RunInv, Broker
  PROVE  RunInv' /\ row' = row
<1>1. ControlInv /\ BrokerInv /\ QueuedAccepted /\ OthersTypeOK
  BY RunInvParts
<1>2. BrokerInv' /\ OthersTypeOK' /\ UNCHANGED runnerVars
  BY <1>1, BrokerStepInv DEF Broker, OthersTypeOK
<1>3. NoneOpened /\ QueuedAccepted' /\ accepted \subseteq accepted' /\ row' = row
  <2>1. CASE \E i \in Slot : HandlerStep(i) \/ InstanceDies(i)
    <3>1. requests \in [Slot -> Request]
      BY <1>1 DEF BrokerInv, BrokerTypeOK
    <3>2. QED
      BY <1>1, <2>1, <3>1, HandlerOpensNone, HandlerQueues
  <2>2. CASE TicketExpires \/ CountQuery
    BY <1>1, <2>2 DEF TicketExpires, CountQuery, queueVars, QueuedAccepted, NoneOpened,
       Waiting
  <2>3. QED
    BY <2>1, <2>2 DEF Broker, BrokerStep
<1>4. ControlInv'
  BY <1>1, <1>2, <1>3, ControlKept DEF NoneOpened
<1>5. QED
  BY <1>2, <1>3, <1>4, Reassemble

LEMMA QueryDataInv ==
  ASSUME RunInv, UNCHANGED <<job, reaper>>, QueryData
  PROVE  RunInv'
<1>1. ControlInv /\ BrokerInv /\ QueuedAccepted /\ OthersTypeOK
  BY RunInvParts
<1>2. BrokerInv' /\ OthersTypeOK' /\ UNCHANGED runnerVars
  BY <1>1, SurroundingsInv DEF QueryData, OthersTypeOK
<1>3. NoneOpened /\ QueuedAccepted' /\ accepted \subseteq accepted'
  BY <1>1 DEF QueryData, QuerySucceeds, queueVars, QueuedAccepted, NoneOpened, Waiting
<1>4. ControlInv'
  BY <1>1, <1>2, <1>3, ControlKept DEF NoneOpened
<1>5. QED
  BY <1>2, <1>3, <1>4, Reassemble

(* The scheduler and the reaper only send, and change what is theirs.      *)
LEMMA ControlPlaneInv ==
  ASSUME RunInv, Mark \/ Sweep \/ Reap
  PROVE  RunInv' /\ row' = row
<1>1. ControlInv /\ BrokerInv /\ QueuedAccepted /\ OthersTypeOK /\ QueueTypeOK
  BY RunInvParts DEF BrokerInv
<1>2. /\ UNCHANGED <<runnerVars, brokerVars, row>> /\ OthersTypeOK'
      /\ \E m \in {"started", "failed", "task_stopped"} :
           Accept("agentExperiments", m) \/ Unsent
  BY <1>1 DEF Mark, Sweep, Reap, OthersTypeOK, Job
<1>3. PICK m \in {"started", "failed", "task_stopped"} :
        Accept("agentExperiments", m) \/ Unsent
  BY <1>2
<1>4. m \in Message /\ m # "success" /\ "agentExperiments" \in Group
  BY DEF Message, Group
<1>5. /\ QueueTypeOK' /\ QueuedAccepted' /\ accepted \subseteq accepted'
      /\ accepted' \subseteq accepted \cup {m}
  BY <1>1, <1>2, <1>3, <1>4, SendInv
<1>6. UNCHANGED <<s3, ticket, queried, counted, requests, body>>
  BY <1>2 DEF brokerVars
<1>7. BrokerInv'
  <2>1. requests' = [i \in Slot |-> requests'[i]]
    BY <1>1, <1>6 DEF BrokerInv, BrokerTypeOK
  <2>2. QED
    BY <1>1, <1>4, <1>5, <1>6, <2>1, ClientInv
<1>8. ControlInv'
  BY <1>1, <1>2, <1>5, <1>6, ControlKept DEF Waiting
<1>9. QED
  BY <1>2, <1>5, <1>7, <1>8, Reassemble

LEMMA GpApiInv ==
  ASSUME RunInv, NEW g \in Group, GpApi(g)
  PROVE  RunInv'
<1>1. ControlInv /\ BrokerInv /\ QueuedAccepted /\ OthersTypeOK /\ QueueTypeOK
  BY RunInvParts DEF BrokerInv
<1>2. UNCHANGED <<s3, ticket, queried, counted, requests, body>>
      /\ UNCHANGED runnerVars /\ OthersTypeOK'
  BY <1>1 DEF GpApi, brokerVars, OthersTypeOK
<1>3. QueueTypeOK' /\ QueuedAccepted' /\ accepted' = accepted
  BY <1>1, ConsumeInv DEF GpApi
<1>4. BrokerInv'
  <2>1. requests' = [i \in Slot |-> requests'[i]]
    BY <1>1, <1>2 DEF BrokerInv, BrokerTypeOK
  <2>2. QED
    BY <1>1, <1>2, <1>3, <2>1, ClientInv
<1>5. ControlInv'
  BY <1>1, <1>2, <1>3, ControlKept DEF Waiting
<1>6. QED
  BY <1>2, <1>3, <1>4, <1>5, Reassemble

LEMMA InitInv ==
  ASSUME Init
  PROVE  RunInv
<1>1. BrokerInv
  BY BrokerInitInv DEF Init
<1>2. \A i \in Slot : ~Waiting(i)
  BY DEF Init, BrokerInit, Free, Waiting
<1>3. RunnerTypeOK
  <2>1. 0 \in 0 .. MaxAttempts
    BY AttemptsAssumption
  <2>2. QED
    BY <2>1 DEF Init, RunnerInit, RunnerTypeOK, Phase, ExitCode
<1>4. QueuedAccepted
  BY DEF Init, QueueInit, QueuedAccepted
<1>5. ControlInv
  BY <1>2, <1>3 DEF ControlInv, Init, RunnerInit, CleanExitReported
<1>6. OthersTypeOK
  BY DEF Init, OthersTypeOK, Job
<1>7. QED
  BY <1>1, <1>4, <1>5, <1>6, RunInvParts

LEMMA RunnerStepInv ==
  ASSUME RunInv, UNCHANGED <<job, reaper>>, RunnerStep
  PROVE  RunInv'
BY QuietSteps, ConnectFailsInv, IssueInv, GiveUpInv, AnswerInv, EarlySignalInv,
   QueryDataInv, KillInv DEF RunnerStep, Proceed

LEMMA NextInv ==
  ASSUME RunInv, [Next]_vars
  PROVE  RunInv'
<1>1. CASE UNCHANGED vars
  BY <1>1 DEF vars, runnerVars, brokerVars, queueVars, RunInv, TypeOK, RunnerTypeOK,
     BrokerInv, BrokerTypeOK, QueueTypeOK, QueuedAccepted, CleanExitReported,
     LatestNeverOutruns, NoOrphanEvidence, SuccessJustified, RequestInv, Waiting
<1>2. CASE Next
  BY <1>2, RunnerStepInv, BrokerActionInv, ControlPlaneInv, GpApiInv DEF Next
<1>3. QED
  BY <1>1, <1>2

-----------------------------------------------------------------------------
(* The invariant of the whole life of a run.                               *)
THEOREM RunInductive == Spec => []RunInv
<1>1. Init => RunInv
  BY InitInv
<1>2. RunInv /\ [Next]_vars => RunInv'
  BY NextInv
<1>3. QED
  BY <1>1, <1>2, PTL DEF Spec

THEOREM TypeCorrect == Spec => []TypeOK
<1>1. RunInv => TypeOK
  BY DEF RunInv
<1>2. QED
  BY <1>1, RunInductive, PTL

(* A runner exits with 0 only when the queue has accepted what ends the    *)
(* run: the reaper is right to stay out of it (task_reaper.py, 47-48).     *)
THEOREM CleanExit == Spec => []CleanExitReported
<1>1. RunInv => CleanExitReported
  BY DEF RunInv
<1>2. QED
  BY <1>1, RunInductive, PTL

-----------------------------------------------------------------------------
(* The refinement                                                          *)

(* Who touches the archive, and who the row.                               *)
LEMMA ArchiveStep ==
  ASSUME NEW i \in Slot, HandlerStep(i) \/ InstanceDies(i)
  PROVE  s3 \subseteq s3'
BY DEF HandlerStep, InstanceDies, Authenticate, Gate, PutArtifact, PutLatest,
   PutVerdict, PutMainOutput, PutTranscript, PutEvidence, PutRejected, Callback,
   DeleteTicket

OutcomeVars == <<row, "artifact" \in s3>>

LEMMA RunnerRow ==
  ASSUME RunnerStep
  PROVE  UNCHANGED <<row, s3>>
BY DEF RunnerStep, Proceed, Setup, SetupWithoutBroker, HarnessReturns, QaDone, TimeOut,
   SignalHandled, ConnectFails, Issue, GiveUp, Answer, EarlySignal, QueryData,
   QuerySucceeds, Kill, AttemptFails, Raised, Returned, brokerVars, queueVars

LEMMA BrokerGrows ==
  ASSUME BrokerStep
  PROVE  s3 \subseteq s3'
BY ArchiveStep DEF BrokerStep, TicketExpires, CountQuery

(* A delivery settles the row as RunOutcome says: COMPLETED comes from a   *)
(* success that was accepted, hence justified.                             *)
LEMMA DeliveryOutcome ==
  ASSUME RunInv, NEW g \in Group, GpApi(g)
  PROVE  [Outcome!Next]_OutcomeVars
<1>1. /\ s3' = s3 /\ row' = RowAfter(Head(queue[g])) /\ row \in Row
      /\ Head(queue[g]) \in accepted /\ Head(queue[g]) \in Message
      /\ "success" \in accepted => "artifact" \in s3
  <2>1. Head(queue[g]) \in accepted
    BY ConsumeInv DEF RunInv, TypeOK, GpApi
  <2>2. QED
    BY <2>1 DEF GpApi, Consume, brokerVars, RunInv, TypeOK, QueueTypeOK, BrokerInv,
       SuccessJustified
<1>2. \/ row' = row
      \/ row = "QUEUED" /\ row' = "RUNNING"
      \/ row \notin TerminalRow /\ row' = "COMPLETED" /\ Head(queue[g]) = "success"
      \/ row \notin TerminalRow /\ row' = "FAILED"
  BY <1>1 DEF RowAfter, Message, Row
<1>3. QED
  BY <1>1, <1>2 DEF Outcome!Next, Outcome!Start, Outcome!Complete, Outcome!Fail,
     Outcome!Terminal, TerminalRow, OutcomeVars

LEMMA StepOutcome ==
  ASSUME RunInv, [Next]_vars
  PROVE  [Outcome!Next]_OutcomeVars
<1>1. ASSUME row' = row, s3 \subseteq s3'
      PROVE  [Outcome!Next]_OutcomeVars
  BY <1>1 DEF Outcome!Next, Outcome!Archive, OutcomeVars
<1>2. CASE UNCHANGED vars
  BY <1>1, <1>2 DEF vars, brokerVars, queueVars
<1>3. CASE RunnerStep
  BY <1>1, <1>3, RunnerRow
<1>4. CASE Broker
  BY <1>1, <1>4, BrokerActionInv, BrokerGrows DEF Broker
<1>5. CASE Mark \/ Sweep \/ Reap
  BY <1>1, <1>5 DEF Mark, Sweep, Reap, brokerVars
<1>6. CASE \E g \in Group : GpApi(g)
  BY <1>6, DeliveryOutcome
<1>7. QED
  BY <1>2, <1>3, <1>4, <1>5, <1>6 DEF Next

(* The whole system implements RunOutcome: the row is settled once, and    *)
(* COMPLETED only over the run's immutable artifact                        *)
(* (artifact_publish.py, 360-395, and gp-api's terminal guard).            *)
THEOREM Implements == Spec => ImplementsOutcome
<1>1. Init => Outcome!Init
  BY DEF Init, BrokerInit, QueueInit, Outcome!Init
<1>2. RunInv /\ [Next]_vars => [Outcome!Next]_(Outcome!vars)
  BY StepOutcome DEF OutcomeVars, Outcome!vars
<1>3. QED
  BY <1>1, <1>2, RunInductive, PTL DEF Spec, ImplementsOutcome, Outcome!Spec
=============================================================================
