------------------------------ MODULE LlmClient ------------------------------
(***************************************************************************)
(* The Gemini clients (shared/llm_gemini.py, shared/llm_gemini_3.py) and   *)
(* the tracing they run in (shared/braintrust.py): threads that share one  *)
(* client of each generation, ask the API with retries inside a span that  *)
(* may fail at any of its calls, and fetch their prompts through a cache   *)
(* that every thread of the process shares.                                *)
(***************************************************************************)
EXTENDS Integers, FiniteSets

CONSTANTS
  Caller,       \* threads, numbered
  MaxRetries,   \* max_retries of both clients
  MaxServed     \* bound on the answers of the API

ASSUME LlmAssumption ==
  Caller \subseteq Nat \ {0} /\ MaxRetries \in Nat \ {0} /\ MaxServed \in Nat

VARIABLES
  tracing,       \* braintrust: "new", "on" or "off", once initialised for good
  llmCalls,      \* what each thread is doing
  tallied,       \* per generation: api_call_count
  served,        \* per generation: the responses that came back, all of them billed
  promptCache,   \* the one prompt: "absent", "object", or "none" after a failure
  promptLock,    \* who holds _prompt_cache_lock, or Nobody
  promptLoads    \* how often the prompt was loaded

llmVars == <<tracing, llmCalls, tallied, served, promptCache, promptLock, promptLoads>>

Nobody == 0
Gen == {2, 3}
Method == {"content", "structured", "search", "multimodal"}
ModelAnswer == {"text", "garbled", "empty", "nothing", "blocked", "error"}
Result == {"none", "text", "empty", "nothing", "raised"}
FreeCaller == [at |-> "free", gen |-> 2, method |-> "content", attempt |-> 0, asked |-> 0,
         span |-> "none", last |-> "none", result |-> "none", prompt |-> "absent"]

LlmTypeOK ==
  /\ tracing \in {"new", "on", "off"}
  /\ llmCalls \in [Caller -> [at : {"free", "ask", "trace", "done", "miss", "load"},
                              gen : Gen, method : Method, attempt : 0 .. MaxRetries - 1, asked : Nat,
                              span : {"none", "open"}, last : ModelAnswer \cup {"none"},
                              result : Result, prompt : {"absent", "object", "none"}]]
  /\ tallied \in [Gen -> Nat] /\ served \in [Gen -> Nat]
  /\ promptCache \in {"absent", "object", "none"}
  /\ promptLock \in Caller \cup {Nobody} /\ promptLoads \in Nat

LlmInit ==
  /\ tracing = "new"
  /\ llmCalls = [t \in Caller |-> FreeCaller]
  /\ tallied = [g \in Gen |-> 0]
  /\ served = [g \in Gen |-> 0]
  /\ promptCache = "absent" /\ promptLock = Nobody /\ promptLoads = 0

usage == <<tallied, served>>
prompts == <<promptCache, promptLock, promptLoads>>

-----------------------------------------------------------------------------
(* A call                                                                  *)

(* init: only the first one counts, also when it failed.                   *)
InitTracing ==
  /\ tracing = "new" /\ tracing' \in {"on", "off"}
  /\ UNCHANGED <<llmCalls, usage, prompts>>

(* _traced_call and the start of the span, or none if that fails; the      *)
(* third generation first refuses a model that cannot think that little.   *)
BeginModelCall(t, g, m) ==
  /\ llmCalls[t].at = "free" /\ (m = "multimodal" => g = 2)
  /\ \/ \E s \in IF tracing = "on" THEN {"none", "open"} ELSE {"none"} :
          llmCalls' = [llmCalls EXCEPT ![t] =
            [@ EXCEPT !.at = "ask", !.gen = g, !.method = m, !.span = s]]
     \/ /\ g = 3
        /\ llmCalls' = [llmCalls EXCEPT ![t] =
             [@ EXCEPT !.at = "done", !.gen = g, !.method = m, !.result = "raised"]]
  /\ UNCHANGED <<tracing, usage, prompts>>

(* What a method makes of an answer of the API.  "empty" is a response     *)
(* without text, "nothing" no response, "garbled" text that is no JSON     *)
(* after the one repair the second generation tries; a blocked search has  *)
(* text or not, a blocked answer of another method is like an empty one.   *)
Accepts(g, m, a) ==
  \/ a = "text"
  \/ a = "garbled" /\ m # "structured"
  \/ a \in {"empty", "blocked"} /\ g = 2 /\ m \in {"search", "multimodal"}

Final(g, m, a) == m = "multimodal" \/ (g = 3 /\ m = "search" /\ a = "blocked")

(* Variants for the mutation runs: one attempt too many; only usable       *)
(* answers are counted.                                                    *)
LastAttemptLate(n) == n = MaxRetries
CountsUsable(g, m, a) == Accepts(g, m, a)

LastAttempt(n) == n + 1 = MaxRetries

(* Of the second generation, generate_content forgets to count an answer   *)
(* without text; nothing and an error carry no usage.  The third counts    *)
(* whatever it got.                                                        *)
Counts(g, m, a) ==
  /\ a # "error" /\ (a = "nothing" => g = 3)
  /\ a \in {"empty", "blocked"} /\ g = 2 => m # "content"

GiveBack(g, m, a) ==
  CASE Accepts(g, m, a) -> IF a \in {"empty", "blocked"} THEN "empty" ELSE "text"
    [] ~Accepts(g, m, a) /\ g = 2 /\ m = "content" /\ a # "error" -> "nothing"
    [] OTHER -> "raised"

(* One request of _execute_call, and its verdict.                          *)
AskModel(t) ==
  LET c == llmCalls[t] IN
  /\ c.at = "ask" /\ served[2] + served[3] < MaxServed
  /\ \E a \in ModelAnswer :
       /\ served' = [served EXCEPT ![c.gen] = @ + IF a = "error" THEN 0 ELSE 1]
       /\ tallied' = [tallied EXCEPT ![c.gen] = @ + IF Counts(c.gen, c.method, a) THEN 1 ELSE 0]
       /\ llmCalls' = [llmCalls EXCEPT ![t] =
            IF \/ Accepts(c.gen, c.method, a) \/ Final(c.gen, c.method, a)
               \/ LastAttempt(c.attempt)
            THEN [c EXCEPT !.at = "trace", !.asked = c.asked + 1, !.last = a,
                           !.result = GiveBack(c.gen, c.method, a)]
            ELSE [c EXCEPT !.attempt = c.attempt + 1, !.asked = c.asked + 1, !.last = a]]
  /\ UNCHANGED <<tracing, prompts>>

(* Variant: the handler that covers the creation of the span covers the    *)
(* call as well, and runs it again.                                        *)
EndTraceAgain(t) ==
  /\ llmCalls[t].at = "trace"
  /\ llmCalls' = [llmCalls EXCEPT ![t] =
       IF @.span = "open" /\ @.result = "raised"
       THEN [@ EXCEPT !.at = "ask", !.attempt = 0, !.span = "none"]
       ELSE [@ EXCEPT !.at = "done", !.span = "none"]]
  /\ UNCHANGED <<tracing, usage, prompts>>

(* Variant: the span is left open when the call raised.                    *)
EndTraceSuccess(t) ==
  /\ llmCalls[t].at = "trace"
  /\ llmCalls' = [llmCalls EXCEPT ![t] =
       [@ EXCEPT !.at = "done", !.span = IF llmCalls[t].result = "raised" THEN @ ELSE "none"]]
  /\ UNCHANGED <<tracing, usage, prompts>>

(* The output is logged and the span left, whatever either raises; the     *)
(* result or the error goes to the caller.                                 *)
EndTrace(t) ==
  /\ llmCalls[t].at = "trace"
  /\ llmCalls' = [llmCalls EXCEPT ![t] = [@ EXCEPT !.at = "done", !.span = "none"]]
  /\ UNCHANGED <<tracing, usage, prompts>>

NextCall(t) ==
  /\ llmCalls[t].at = "done"
  /\ llmCalls' = [llmCalls EXCEPT ![t] = [FreeCaller EXCEPT !.prompt = llmCalls[t].prompt]]
  /\ UNCHANGED <<tracing, usage, prompts>>

-----------------------------------------------------------------------------
(* get_cached_prompt_object                                                *)

HasPrompt(t, p) == llmCalls' = [llmCalls EXCEPT ![t].at = "free", ![t].prompt = p]

(* The look without the lock.                                              *)
GetPrompt(t) ==
  /\ llmCalls[t].at = "free" /\ tracing = "on"
  /\ IF promptCache # "absent" THEN HasPrompt(t, promptCache)
     ELSE llmCalls' = [llmCalls EXCEPT ![t].at = "miss"]
  /\ UNCHANGED <<tracing, usage, prompts>>

(* Variant: no second look.                                                *)
LockPromptOnce(t) ==
  /\ llmCalls[t].at = "miss" /\ promptLock = Nobody
  /\ promptLock' = t /\ llmCalls' = [llmCalls EXCEPT ![t].at = "load"]
  /\ UNCHANGED <<tracing, usage, promptCache, promptLoads>>

(* The second look, with it.                                               *)
LockPrompt(t) ==
  /\ llmCalls[t].at = "miss" /\ promptLock = Nobody
  /\ IF promptCache # "absent"
     THEN HasPrompt(t, promptCache) /\ UNCHANGED promptLock
     ELSE promptLock' = t /\ llmCalls' = [llmCalls EXCEPT ![t].at = "load"]
  /\ UNCHANGED <<tracing, usage, promptCache, promptLoads>>

(* load_prompt and the trial build; a failure is remembered as None.       *)
LoadPrompt(t) ==
  /\ llmCalls[t].at = "load"
  /\ promptCache' \in {"object", "none"} /\ HasPrompt(t, promptCache')
  /\ promptLoads' = promptLoads + 1 /\ promptLock' = Nobody
  /\ UNCHANGED <<tracing, usage>>

-----------------------------------------------------------------------------

LlmNext ==
  \/ InitTracing
  \/ \E t \in Caller, g \in Gen, m \in Method : BeginModelCall(t, g, m)
  \/ \E t \in Caller :
       \/ AskModel(t) \/ EndTrace(t) \/ NextCall(t)
       \/ GetPrompt(t) \/ LockPrompt(t) \/ LoadPrompt(t)

LlmSpec == LlmInit /\ [][LlmNext]_llmVars

-----------------------------------------------------------------------------
(* Properties                                                              *)

(* Tracing, whatever of it fails, changes neither what a call returns nor  *)
(* how often it asks: a call that ended asked until an answer it could use,*)
(* one that no retry can mend, or max_retries, and gives its caller what   *)
(* the last answer deserves.  No caller takes a failure for a text, and    *)
(* only generate_content of the second generation answers None.            *)
CallHonest ==
  \A t \in Caller : LET c == llmCalls[t] IN
    /\ c.asked <= MaxRetries
    /\ c.at = "ask" => ~Accepts(c.gen, c.method, c.last) /\ (c.asked > 0 => ~Final(c.gen, c.method, c.last))
    /\ c.at \in {"trace", "done"} /\ c.result = "raised" =>
         c.last = "none" \/ ~Accepts(c.gen, c.method, c.last)
    /\ c.at \in {"trace", "done"} /\ c.result # "raised" =>
         \/ c.result = "text" /\ c.last \in {"text", "garbled"}
         \/ c.result = "empty" /\ c.last \in {"empty", "blocked"} /\ c.gen = 2
         \/ c.result = "nothing" /\ c.gen = 2 /\ c.method = "content" /\ c.asked = MaxRetries

(* The third generation counts every response, those it throws away        *)
(* included; the second never counts one it did not get.                   *)
UsageKept == tallied[3] = served[3] /\ tallied[2] <= served[2]

(* A span is open only inside its call.                                    *)
SpansClosed ==
  \A t \in Caller : llmCalls[t].span = "open" => llmCalls[t].at \in {"ask", "trace"}

(* Threads that miss the cache together load the prompt once, and every    *)
(* one of them gets the same answer, a failure included.                   *)
PromptLoadedOnce ==
  /\ promptLoads <= 1
  /\ \A t \in Caller : llmCalls[t].prompt \in {"absent", promptCache}

(* Retries, traces, usage and prompts of the clients agree.                *)
LlmInv == LlmTypeOK /\ CallHonest /\ UsageKept /\ SpansClosed /\ PromptLoadedOnce
=============================================================================
