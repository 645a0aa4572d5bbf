---------------------------- MODULE MatchService ----------------------------
(***************************************************************************)
(* The matching Lambda of bronze_data (deployment/lambda_function.py): one *)
(* warm container that answers one request after another.  Its cost        *)
(* counters live as long as the process, its cache of state embeddings as  *)
(* long as /tmp; a request that is out of time ends the process, and may   *)
(* leave half a file there.                                                *)
(***************************************************************************)
EXTENDS Integers

CONSTANTS
  ServedState,             \* states with an embeddings object
  AssessAttempts,     \* attempts of assess_candidate_seriousness
  SelectAttempts,     \* attempts of llm_select_best_match
  LambdaTimeout,      \* Timeout of template.yaml, in seconds
  MaxVersion,         \* bound: versions of an object
  MaxRequests         \* bound: requests

ASSUME MatchAssumption ==
  {AssessAttempts, SelectAttempts, LambdaTimeout, MaxVersion, MaxRequests} \subseteq Nat \ {0}

VARIABLES
  objects,    \* the version of each region's object in S3; 0: none
  tmp,        \* each region's file in /tmp: its version and whether it is whole
  service,    \* matching_service: total_cost of its two clients
  request,    \* where the request is, the attempts made, the seconds slept
  requestSpend,      \* what the request's calls cost: assessment, embedding, selection
  reply,      \* the last reply
  requestCount       \* requests so far

matchVars == <<objects, tmp, service, request, requestSpend, reply, requestCount>>

NoVectors == [version |-> 0, whole |-> FALSE]
NoRequest == [at |-> "none", region |-> "", attempt |-> 0, slept |-> 0, vectors |-> 0, before |-> 0]
NoSpend == [assess |-> 0, embed |-> 0, select |-> 0]
Silence == [status |-> 0, matching |-> "none", costs |-> NoSpend, vectors |-> 0]

MatchTypeOK ==
  /\ objects \in [ServedState -> 0 .. MaxVersion]
  /\ tmp \in [ServedState -> [version : 0 .. MaxVersion, whole : BOOLEAN]]
  /\ service \in [llm : Nat, embed : Nat]
  /\ request.at \in {"none", "assess", "load", "cache", "embed", "select"}
  /\ request.region \in ServedState \cup {""} /\ request.vectors \in 0 .. MaxVersion
  /\ request.attempt \in 0 .. (IF request.at = "select" THEN SelectAttempts ELSE AssessAttempts) - 1
  /\ requestSpend \in [assess : Nat, embed : Nat, select : Nat]
  /\ reply.status \in {0, 200, 500}
  /\ requestCount \in 0 .. MaxRequests

MatchInit ==
  /\ objects \in [ServedState -> {0, 1}] /\ tmp = [r \in ServedState |-> NoVectors]
  /\ service = [llm |-> 0, embed |-> 0]
  /\ request = NoRequest /\ requestSpend = NoSpend /\ reply = Silence /\ requestCount = 0

(* deploy_data.sh uploads a state's embeddings again.                      *)
UploadVectors(r) ==
  /\ objects[r] < MaxVersion /\ objects' = [objects EXCEPT ![r] = @ + 1]
  /\ UNCHANGED <<tmp, service, request, requestSpend, reply, requestCount>>

(* A candidate with a state, or with none that can be derived.             *)
Ask(r) ==
  /\ request.at = "none" /\ requestCount < MaxRequests /\ requestCount' = requestCount + 1
  /\ request' = [NoRequest EXCEPT !.at = "assess", !.region = r]
  /\ requestSpend' = NoSpend /\ reply' = Silence
  /\ UNCHANGED <<objects, tmp, service>>

Replies(status, matching, costs) ==
  /\ request' = NoRequest
  /\ reply' = [status |-> status, matching |-> matching, costs |-> costs, vectors |-> request.vectors]
  /\ UNCHANGED <<objects, tmp, requestCount>>

RequestAt(place) ==
  /\ request' = [request EXCEPT !.at = place, !.attempt = 0]
  /\ UNCHANGED <<objects, tmp, reply, requestCount>>

(* Variant for the mutation run: a text that is not JSON is not counted.   *)
GeminiCallParsed(part, answer) ==
  /\ requestSpend' = IF answer = "error" THEN requestSpend ELSE [requestSpend EXCEPT ![part] = @ + 1]
  /\ service' = IF answer \in {"error", "no_json"} THEN service ELSE [service EXCEPT !.llm = @ + 1]

(* One call of generate_structured_content for a part of the request: it   *)
(* is counted as soon as there is a text, whether or not the text is JSON. *)
GeminiCall(part, answer) ==
  /\ requestSpend' = IF answer = "error" THEN requestSpend ELSE [requestSpend EXCEPT ![part] = @ + 1]
  /\ service' = IF answer = "error" THEN service ELSE [service EXCEPT !.llm = @ + 1]

(* Variant: the exponent is one too high.                                  *)
BackoffLonger(attempt) == 2 ^ (attempt + 1)

Backoff(attempt) == 2 ^ attempt

(* Variant: the attempts are not limited.                                  *)
MayRetryOn(attempts) ==
  /\ request.attempt < attempts
  /\ request' = [request EXCEPT !.attempt = @ + 1]
  /\ UNCHANGED <<objects, tmp, reply, requestCount>>

(* After a failed attempt and its sleep, the next.                         *)
MayRetry(attempts) ==
  /\ request.attempt < attempts - 1
  /\ request' = [request EXCEPT !.attempt = @ + 1, !.slept = @ + Backoff(request.attempt)]
  /\ UNCHANGED <<objects, tmp, reply, requestCount>>

(* Its cost is the counter's, which the process has had since it began.    *)
Unmatchable(llm) == Replies(200, "unmatchable", [NoSpend EXCEPT !.assess = llm])

Assess ==
  /\ request.at = "assess"
  /\ \E answer \in {"matchable", "unmatchable", "no_json", "error"} :
       /\ GeminiCall("assess", answer)
       /\ CASE answer = "matchable"   -> /\ request' = [request EXCEPT !.at = "load", !.attempt = 0,
                                                                        !.before = service'.llm]
                                         /\ UNCHANGED <<objects, tmp, reply, requestCount>>
            [] answer = "unmatchable" -> Unmatchable(service'.llm)
            [] OTHER                  -> \/ MayRetry(AssessAttempts)
                                         \/ /\ request.attempt = AssessAttempts - 1
                                            /\ Unmatchable(service'.llm)

Derived == request.region # ""

(* Variant: whatever file there is can be read.                            *)
ReadableAny(file) == file.version > 0

Readable(file) == file.version > 0 /\ file.whole

(* From /tmp if there is a file that can be read, else from S3; then the   *)
(* file is opened, which empties it, and written.                          *)
LoadVectors ==
  /\ request.at = "load" /\ UNCHANGED <<service, requestSpend, requestCount, objects>>
  /\ LET r == request.region IN
     \/ ~Derived /\ Replies(200, "no_state", NoSpend)
     \/ /\ Derived /\ Readable(tmp[r])
        /\ request' = [request EXCEPT !.at = "embed",
                                      !.vectors = IF tmp[r].whole THEN tmp[r].version ELSE 0]
        /\ UNCHANGED <<tmp, reply>>
     \/ /\ Derived /\ ~Readable(tmp[r]) /\ objects[r] = 0 /\ Replies(200, "no_vectors", NoSpend)
     \/ /\ Derived /\ ~Readable(tmp[r]) /\ objects[r] > 0
        /\ request' = [request EXCEPT !.at = "cache", !.vectors = objects[r]]
        /\ tmp' = [tmp EXCEPT ![r] = [version |-> objects[r], whole |-> FALSE]]
        /\ UNCHANGED reply

(* The file is whole, or the disk was full and half of it stays.           *)
WriteCache ==
  /\ request.at = "cache"
  /\ request' = [request EXCEPT !.at = "embed"]
  /\ \E whole \in BOOLEAN : tmp' = [tmp EXCEPT ![request.region].whole = whole]
  /\ UNCHANGED <<objects, service, requestSpend, reply, requestCount>>

(* Two texts, one call each; they are counted together after the second.   *)
Embed ==
  /\ request.at = "embed"
  /\ \/ /\ RequestAt("select") /\ service' = [service EXCEPT !.embed = @ + 2]
        /\ requestSpend' = [requestSpend EXCEPT !.embed = 2]
     \/ \E done \in 0 .. 1 : /\ Replies(500, "none", NoSpend) /\ UNCHANGED service
                             /\ requestSpend' = [requestSpend EXCEPT !.embed = done]

(* The costs of a reply: the totals of the counters for assessment and     *)
(* embedding, the difference for the selection.                            *)
Costs(llm) == [assess |-> request.before, embed |-> service.embed, select |-> llm - request.before]

(* A number is brought into range, and no number means no match; an answer *)
(* without a confidence is an exception after the loop.                    *)
Select ==
  /\ request.at = "select"
  /\ \E answer \in {"number", "incomplete", "no_json", "error"} :
       /\ GeminiCall("select", answer)
       /\ CASE answer = "number"     -> \E m \in {"matched", "not_matched"} :
                                          Replies(200, m, Costs(service'.llm))
            [] answer = "incomplete" -> Replies(500, "none", NoSpend)
            [] OTHER                 -> \/ MayRetry(SelectAttempts)
                                        \/ /\ request.attempt = SelectAttempts - 1
                                           /\ Replies(200, "llm_error", Costs(service'.llm))

(* The Lambda's timeout: the process ends, /tmp stays.                     *)
TimeOut ==
  /\ request.at # "none"
  /\ request' = NoRequest /\ service' = [llm |-> 0, embed |-> 0] /\ reply' = Silence
  /\ UNCHANGED <<objects, tmp, requestSpend, requestCount>>

MatchNext ==
  \/ \E r \in ServedState : UploadVectors(r) \/ Ask(r)
  \/ Ask("")
  \/ Assess \/ LoadVectors \/ WriteCache \/ Embed \/ Select \/ TimeOut

MatchSpec == MatchInit /\ [][MatchNext]_matchVars

-----------------------------------------------------------------------------
(* Properties                                                              *)

(* A reply that came from the vectors came from a whole file, of a version *)
(* that S3 had, however the process that wrote it ended.                   *)
WholeVectors == reply.matching \in {"matched", "not_matched", "llm_error"} => reply.vectors > 0

(* The costs a reply has are never below what its calls cost, retries and  *)
(* answers that could not be parsed included.                              *)
CostsCovered ==
  reply.matching \in {"unmatchable", "matched", "not_matched", "llm_error"} =>
    \A part \in {"assess", "embed", "select"} : reply.costs[part] >= requestSpend[part]

(* The backoffs of all attempts together leave time for the calls.         *)
BackoffsFit == request.slept < LambdaTimeout

(* The service answers from whole vectors, and knows what it costs.        *)
ServiceInv == MatchTypeOK /\ WholeVectors /\ CostsCovered /\ BackoffsFit
=============================================================================
