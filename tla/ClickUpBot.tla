----------------------------- MODULE ClickUpBot -----------------------------
(***************************************************************************)
(* The ClickUp bot (clickup_bot/lambda/handler.py): one Lambda function    *)
(* that answers ClickUp's webhook at once, does the work in an asynchronous*)
(* invocation of itself, and must start one agent per (task, label) and    *)
(* dedup window, however often ClickUp delivers the event and whatever     *)
(* call fails.  Label is the labels of one task; tasks share nothing.      *)
(***************************************************************************)
EXTENDS Integers, Sequences

CONSTANTS
  Label,         \* the labels of TAG_CONFIG, numbered
  BotSlot,       \* invocations that can run at the same time
  ClaimTTL,      \* DEDUP_TTL_SECONDS, in ticks
  MarkerWindow,  \* DEDUP_COMMENT_WINDOW_SECONDS, in ticks
  MaxNow, MaxDeliveries  \* bounds

(* A claim outlives the invocation that took it: 900 s against 120 s.      *)
ASSUME BotAssumption ==
  /\ Label \subseteq Nat /\ ClaimTTL \in Nat \ {0}
  /\ {MarkerWindow, MaxNow, MaxDeliveries} \subseteq Nat

VARIABLES
  now,         \* ticks are longer than an invocation may run (120 s)
  owed,        \* labels whose tag event ClickUp has to deliver (again)
  deliveries,  \* deliveries made so far
  events,      \* per label: Event invocations of the function that wait
  inv,         \* the invocations
  claim,       \* the dedup table: expires_at per label, or Unclaimed
  latePuts,    \* PutItems that timed out and may still be committed
  markers,     \* <<label, date>> of the "Processing started" comments
  botLaunches, \* per label, the agents: when their launcher took the claim, or
               \* Unclaimed
  excused,     \* labels whose dedup failed open or whose launch was ambiguous
  stranded     \* <<label, expires_at>> of claims that nobody answers for

botVars == <<now, owed, deliveries, events, inv, claim, latePuts, markers,
             botLaunches, excused, stranded>>

Unclaimed == -1
InvocationAt == {"idle", "hook", "enqueue", "comments", "claim", "launch", "ack", "ack_again", "release"}
IdleInvocation == [at |-> "idle", label |-> Unclaimed, worker |-> FALSE, since |-> 0, claimed |-> Unclaimed]

BotTypeOK ==
  /\ now \in Nat /\ deliveries \in Nat
  /\ owed \in SUBSET Label
  /\ events \in [Label -> Nat]
  /\ inv \in [BotSlot -> [at : InvocationAt, label : Label \cup {Unclaimed}, worker : BOOLEAN,
                       since : Nat, claimed : Nat \cup {Unclaimed}]]
  /\ \A s \in BotSlot : inv[s].at # "idle" => inv[s].label \in Label
  /\ claim \in [Label -> Nat \cup {Unclaimed}]
  /\ latePuts \in SUBSET (Label \X Nat)
  /\ markers \in SUBSET (Label \X Nat)
  /\ botLaunches \in [Label -> Seq(Nat \cup {Unclaimed})]
  /\ excused \in SUBSET Label
  /\ stranded \in SUBSET (Label \X Nat)

BotInit ==
  /\ now = 0 /\ owed = {} /\ deliveries = 0
  /\ events = [l \in Label |-> 0]
  /\ inv = [s \in BotSlot |-> IdleInvocation]
  /\ claim = [l \in Label |-> Unclaimed]
  /\ latePuts = {} /\ markers = {}
  /\ botLaunches = [l \in Label |-> <<>>]
  /\ excused = {}
  /\ stranded = {}

Move(s, a) == inv' = [inv EXCEPT ![s].at = a]
Finish(s) == inv' = [inv EXCEPT ![s] = IdleInvocation]

(* The status code of a webhook reaches ClickUp in time, or does not; any  *)
(* other than 200, or none, makes ClickUp deliver again.  Nobody gets the  *)
(* answer of a worker.                                                     *)
AnswerDelivery(s, ok) ==
  \/ ok /\ ~inv[s].worker /\ owed' = owed \ {inv[s].label}
  \/ UNCHANGED owed

ghosts == <<botLaunches, excused, stranded>>
dedup == <<claim, latePuts>>

-----------------------------------------------------------------------------
(* The user, ClickUp and the platform                                      *)

Tag(l) ==
  /\ l \notin owed /\ deliveries < MaxDeliveries
  /\ owed' = owed \cup {l}
  /\ UNCHANGED <<now, deliveries, events, inv, dedup, markers, ghosts>>

(* A first delivery, or a retry: after an answer or beside a slow handler. *)
Deliver(s, l) ==
  /\ inv[s].at = "idle" /\ l \in owed /\ deliveries < MaxDeliveries
  /\ deliveries' = deliveries + 1
  /\ inv' = [inv EXCEPT ![s] = [IdleInvocation EXCEPT !.at = "hook", !.label = l, !.since = now]]
  /\ UNCHANGED <<now, owed, events, dedup, markers, ghosts>>

(* Variant for the mutation run: the Event does not carry the label.       *)
StartWorkerUnlabelled(s, l) ==
  /\ inv[s].at = "idle" /\ events[l] > 0
  /\ events' = [events EXCEPT ![l] = @ - 1]
  /\ inv' = [inv EXCEPT ![s] = [IdleInvocation EXCEPT !.at = "comments", !.worker = TRUE, !.since = now]]
  /\ UNCHANGED <<now, owed, deliveries, dedup, markers, ghosts>>

(* The platform runs a queued Event once (maximum_retry_attempts = 0).     *)
StartWorker(s, l) ==
  /\ inv[s].at = "idle" /\ events[l] > 0
  /\ events' = [events EXCEPT ![l] = @ - 1]
  /\ inv' = [inv EXCEPT ![s] = [IdleInvocation EXCEPT !.at = "comments", !.label = l,
                                                      !.worker = TRUE, !.since = now]]
  /\ UNCHANGED <<now, owed, deliveries, dedup, markers, ghosts>>

(* A hard timeout or a crash.  A claim the invocation held blocks on.      *)
Die(s) ==
  /\ inv[s].at # "idle"
  /\ LET l == inv[s].label IN
     stranded' = IF inv[s].at \in {"launch", "release"} /\ inv[s].claimed # Unclaimed
                 THEN stranded \cup {<<l, inv[s].claimed + ClaimTTL>>} ELSE stranded
  /\ Finish(s)
  /\ UNCHANGED <<now, owed, deliveries, events, dedup, markers, botLaunches, excused>>

BotTick ==
  /\ now < MaxNow
  /\ \A s \in BotSlot : inv[s].at = "idle" \/ inv[s].since = now
  /\ now' = now + 1
  /\ UNCHANGED <<owed, deliveries, events, inv, dedup, markers, ghosts>>

(* DynamoDB deletes an expired item, some time.                            *)
ExpireClaim(l) ==
  /\ claim[l] # Unclaimed /\ claim[l] < now
  /\ claim' = [claim EXCEPT ![l] = Unclaimed]
  /\ UNCHANGED <<now, owed, deliveries, events, inv, latePuts, markers, ghosts>>

-----------------------------------------------------------------------------
(* The webhook half of handler                                             *)

(* What is not for the bot is answered before the secrets are needed; a    *)
(* delivery for it can still fail on them.                                 *)
VerifySignature(s) ==
  /\ inv[s].at = "hook"
  /\ \/ Move(s, "enqueue") /\ UNCHANGED owed
     \/ Finish(s) /\ AnswerDelivery(s, FALSE)
  /\ UNCHANGED <<now, deliveries, events, dedup, markers, ghosts>>

(* enqueue_async_processing: accepted; refused for certain, so go on here; *)
(* or ambiguous: answer 500, whether or not the Event was queued.          *)
Enqueue(s) ==
  /\ inv[s].at = "enqueue"
  /\ \/ /\ events' = [events EXCEPT ![inv[s].label] = @ + 1]
        /\ Finish(s) /\ AnswerDelivery(s, TRUE)
     \/ Move(s, "comments") /\ UNCHANGED <<events, owed>>
     \/ /\ \/ UNCHANGED events
           \/ events' = [events EXCEPT ![inv[s].label] = @ + 1]
        /\ Finish(s) /\ AnswerDelivery(s, FALSE)
  /\ UNCHANGED <<now, deliveries, dedup, markers, ghosts>>

-----------------------------------------------------------------------------
(* dedup_check_then_trigger                                                *)

RecentMarker(l) == \E m \in markers : m[1] = l /\ now - m[2] <= MarkerWindow

(* get_task_comments, which may lag behind, and the test for a recent      *)
(* marker, which ignores what it cannot date.  A failed read ends the      *)
(* webhook with a 500; the worker goes on, as the claim guards.            *)
CheckComments(s) ==
  /\ inv[s].at = "comments"
  /\ \/ RecentMarker(inv[s].label) /\ Finish(s) /\ AnswerDelivery(s, TRUE)
     \/ Move(s, "claim") /\ UNCHANGED owed
     \/ ~inv[s].worker /\ Finish(s) /\ AnswerDelivery(s, FALSE)
  /\ UNCHANGED <<now, deliveries, events, dedup, markers, ghosts>>

(* Variant for the mutation run: a claim is free on the tick it expires.   *)
FreeAtExpiry(l) == claim[l] = Unclaimed \/ claim[l] <= now

(* The condition of the PutItem.                                           *)
ClaimFree(l) == claim[l] = Unclaimed \/ claim[l] < now

Proceed(s, c) == inv' = [inv EXCEPT ![s].at = "launch", ![s].claimed = c]

(* try_acquire_dedup_lock: won, lost, or failed and open.  A PutItem that  *)
(* failed may have been committed, or be committed later.                  *)
Acquire(s) ==
  LET l == inv[s].label
      put == [claim EXCEPT ![l] = now + ClaimTTL]
  IN /\ inv[s].at = "claim"
     /\ \/ /\ ClaimFree(l) /\ claim' = put /\ Proceed(s, now)
           /\ UNCHANGED <<owed, latePuts, excused, stranded>>
        \/ /\ ~ClaimFree(l) /\ Finish(s) /\ AnswerDelivery(s, TRUE)
           /\ UNCHANGED <<claim, latePuts, excused, stranded>>
        \/ /\ \/ UNCHANGED <<claim, latePuts, stranded>>
              \/ latePuts' = latePuts \cup {<<l, now + ClaimTTL>>} /\ UNCHANGED <<claim, stranded>>
              \/ ClaimFree(l) /\ claim' = put /\ stranded' = stranded \cup {<<l, now + ClaimTTL>>}
                 /\ UNCHANGED latePuts
           /\ Proceed(s, Unclaimed) /\ excused' = excused \cup {l}
           /\ UNCHANGED owed
     /\ UNCHANGED <<now, deliveries, events, markers, botLaunches>>

LatePut(p) ==
  /\ latePuts' = latePuts \ {p}
  /\ \/ /\ ClaimFree(p[1])
        /\ claim' = [claim EXCEPT ![p[1]] = p[2]]
        /\ stranded' = stranded \cup {p}
     \/ ~ClaimFree(p[1]) /\ UNCHANGED <<claim, stranded>>
  /\ UNCHANGED <<now, owed, deliveries, events, inv, markers, botLaunches, excused>>

(* trigger_fargate_task: run_task succeeds; or the configuration or ECS    *)
(* refuses; or the call is reported as failed although the task started.   *)
(* After a failure the comment for the user changes nothing.               *)
Launch(s) ==
  LET l == inv[s].label
      started == [botLaunches EXCEPT ![l] = Append(@, inv[s].claimed)]
  IN /\ inv[s].at = "launch"
     /\ \/ botLaunches' = started /\ Move(s, "ack") /\ UNCHANGED excused
        \/ UNCHANGED <<botLaunches, excused>> /\ Move(s, "release")
        \/ botLaunches' = started /\ excused' = excused \cup {l} /\ Move(s, "release")
     /\ UNCHANGED <<now, owed, deliveries, events, dedup, markers, stranded>>

(* The marker is posted, or the post fails, with or without effect.  Only  *)
(* the worker tries again.                                                 *)
Ack(s) ==
  /\ inv[s].at \in {"ack", "ack_again"}
  /\ \/ UNCHANGED markers
     \/ markers' = markers \cup {<<inv[s].label, now>>}
  /\ \/ Finish(s) /\ AnswerDelivery(s, TRUE)
     \/ /\ inv[s].at = "ack" /\ inv[s].worker
        /\ Move(s, "ack_again") /\ UNCHANGED owed
  /\ UNCHANGED <<now, deliveries, events, dedup, ghosts>>

(* Variant: the claim of a failed launch is kept.                          *)
ReleaseNothing(s) ==
  /\ inv[s].at = "release"
  /\ Finish(s) /\ AnswerDelivery(s, FALSE)
  /\ UNCHANGED <<now, deliveries, events, dedup, markers, ghosts>>

(* release_dedup_lock deletes whatever claim the label has, or fails.      *)
Release(s) ==
  LET l == inv[s].label
  IN /\ inv[s].at = "release"
     /\ \/ claim' = [claim EXCEPT ![l] = Unclaimed] /\ UNCHANGED stranded
        \/ /\ UNCHANGED claim
           /\ stranded' = IF inv[s].claimed = Unclaimed THEN stranded
                          ELSE stranded \cup {<<l, inv[s].claimed + ClaimTTL>>}
     /\ Finish(s) /\ AnswerDelivery(s, FALSE)
     /\ UNCHANGED <<now, deliveries, events, latePuts, markers, botLaunches, excused>>

-----------------------------------------------------------------------------

BotStep(s) ==
  \/ VerifySignature(s) \/ Enqueue(s) \/ CheckComments(s) \/ Acquire(s)
  \/ Launch(s) \/ Ack(s) \/ Release(s)

BotNext ==
  \/ \E l \in Label : Tag(l) \/ ExpireClaim(l)
  \/ \E s \in BotSlot, l \in Label : Deliver(s, l) \/ StartWorker(s, l)
  \/ \E s \in BotSlot : BotStep(s) \/ Die(s)
  \/ \E p \in latePuts : LatePut(p)
  \/ BotTick

BotSpec == BotInit /\ [][BotNext]_botVars

-----------------------------------------------------------------------------
(* Properties                                                              *)

(* Retry storms, concurrent workers and double tags start one agent per    *)
(* label and claim: two launches are further apart than a claim lives,     *)
(* unless the table failed open or the outcome of run_task was not known   *)
(* (both accepted in the code).                                            *)
OneLaunchPerClaim ==
  \A l \in Label \ excused : \A i, j \in DOMAIN botLaunches[l] :
    i < j => botLaunches[l][i] + ClaimTTL < botLaunches[l][j]

(* No tag is suppressed for nothing: a claim that still blocks belongs to  *)
(* an agent that was launched, to an invocation that is about to launch    *)
(* one, or to one of the accidents the runbook names, and to those no      *)
(* longer than one claim lives; and a marker to an agent.                  *)
Took(t, l) == t # Unclaimed /\ t + ClaimTTL = claim[l]
ClaimAnswered ==
  \A l \in Label :
    /\ claim[l] >= now =>
         \/ \E i \in DOMAIN botLaunches[l] : Took(botLaunches[l][i], l)
         \/ \E s \in BotSlot : inv[s].label = l /\ Took(inv[s].claimed, l)
         \/ <<l, claim[l]>> \in stranded
    /\ (\E m \in markers : m[1] = l) => botLaunches[l] # <<>>

(* The bot starts one agent for a tag and no fewer.                        *)
BotInv == BotTypeOK /\ OneLaunchPerClaim /\ ClaimAnswered
=============================================================================
