---------------------------- MODULE IngestProofs ----------------------------
(***************************************************************************)
(* Theorems about the dispatch Lambda, for every set of runs and every     *)
(* number of receives.                                                     *)
(***************************************************************************)
EXTENDS DispatchIngest, TLAPS

USE DEF ABSENT, QUEUED, DISPATCHED, FAILED

(* The job table keeps its type under the methods that are used here.      *)
LEMMA StoreType ==
  ASSUME StoreTypeOK, NEW r \in Run
  PROVE  /\ PutQueuedJob(r, Tier) => jobs' \in [Run -> Job]
         /\ SetTerminal(r, DISPATCHED) \in [Run -> Job]
         /\ Expire(r) => jobs' \in [Run -> Job]
<1>1. jobs \in [Run -> Job] /\ clock \in Nat
  BY DEF StoreTypeOK
<1>2. PutQueuedJob(r, Tier) => jobs' \in [Run -> Job]
  BY <1>1 DEF PutQueuedJob, Job, Tier, Priority
<1>3. SetTerminal(r, DISPATCHED) \in [Run -> Job]
  BY <1>1 DEF SetTerminal, ItemWith, Job
<1>4. Expire(r) => jobs' \in [Run -> Job]
  BY <1>1 DEF Expire, NoJob, Job, Priority
<1>5. QED
  BY <1>2, <1>3, <1>4

(* A stage of the code is a stage.                                         *)
LEMMA StageType ==
  ASSUME TypeOK, NEW i \in Invocation, NEW s \in Stage, Goto(i, s)
  PROVE  /\ stage' \in [Invocation -> Stage]
         /\ stage'[i] = s
         /\ \A j \in Invocation : j # i => stage'[j] = stage[j]
BY DEF TypeOK, Goto

(* An invocation acts for a run.                                           *)
LEMMA InvocationRun ==
  ASSUME NEW i \in Invocation
  PROVE  i[1] \in Run /\ i[2] \in 1 .. MaxReceive
BY DEF Invocation

(* What the routing and the checks of the params can decide.               *)
LEMMA VerdictType ==
  ASSUME NEW b \in Body, NEW m \in Manifest
  PROVE  Verdict(b, m) \in {"end", "put", "operator", "client"}
<1>1. CASE b = "bad_params"
  BY <1>1 DEF Verdict, Manifest
<1>2. CASE b # "bad_params"
  BY <1>2 DEF Verdict, Manifest
<1>3. QED
  BY <1>1, <1>2

(* Every step keeps the types.                                             *)
LEMMA TypeStep == TypeOK /\ [Next]_vars => TypeOK'
<1> SUFFICES ASSUME TypeOK, [Next]_vars PROVE TypeOK'
  OBVIOUS
<1> USE DEF vars, ingestVars, storeVars
<1>1. ASSUME NEW r \in Run, Receive(r) PROVE TypeOK'
  <2>0. received[r] \in Nat /\ MaxReceive \in Nat /\ received[r] < MaxReceive
    BY <1>1, ReceiveAssumption DEF TypeOK, Receive
  <2>1. received[r] + 1 \in 1 .. MaxReceive
    BY <2>0
  <2>2. received' \in [Run -> 0 .. MaxReceive]
    BY <1>1, <2>1 DEF Receive, TypeOK
  <2>3. stage' \in [Invocation -> Stage]
    BY <1>1, <2>1 DEF Receive, TypeOK, Goto, Stage
  <2>4. QED
    BY <1>1, <2>2, <2>3 DEF Receive, TypeOK, StoreTypeOK
<1>2. ASSUME NEW r \in Run, VisibilityTimeout(r) \/ DeadLetter(r) PROVE TypeOK'
  BY <1>2 DEF VisibilityTimeout, DeadLetter, TypeOK, StoreTypeOK
<1>3. ASSUME NEW i \in Invocation, Parse(i) PROVE TypeOK'
  BY <1>3 DEF Parse, Goto, Stage, Reason, TypeOK, StoreTypeOK
<1>4. ASSUME NEW i \in Invocation, Route(i) PROVE TypeOK'
  <2>1. PICK m \in Manifest : Goto(i, Verdict(body[i[1]], m))
    BY <1>4 DEF Route
  <2>2. body[i[1]] \in Body
    BY InvocationRun DEF TypeOK
  <2>3. Verdict(body[i[1]], m) \in Stage
    BY <2>2, VerdictType DEF Stage, Reason
  <2>4. stage' \in [Invocation -> Stage]
    BY <2>1, <2>3, StageType
  <2>5. QED
    BY <1>4, <2>4 DEF Route, TypeOK, StoreTypeOK
<1>5. ASSUME NEW i \in Invocation, SendErrorCallback(i) PROVE TypeOK'
  <2>1. told' \in SUBSET Run
    BY <1>5, InvocationRun DEF SendErrorCallback, Tell, MaybeTell, TypeOK
  <2>2. stage' \in [Invocation -> Stage]
    BY <1>5 DEF SendErrorCallback, Goto, Stage, TypeOK
  <2>3. QED
    BY <1>5, <2>1, <2>2 DEF SendErrorCallback, TypeOK, StoreTypeOK
<1>6. ASSUME NEW i \in Invocation, Put(i) PROVE TypeOK'
  <2>1. jobs' \in [Run -> Job]
    BY <1>6, InvocationRun, StoreType DEF Put, TypeOK, StoreTypeOK
  <2>2. stage' \in [Invocation -> Stage]
    BY <1>6 DEF Put, Goto, Stage, TypeOK
  <2>3. QED
    BY <1>6, <2>1, <2>2 DEF Put, TypeOK, StoreTypeOK
<1>7. ASSUME NEW i \in Invocation, Delete(i) PROVE TypeOK'
  BY <1>7 DEF Delete, Goto, Stage, TypeOK, StoreTypeOK
<1>8. ASSUME NEW i \in Invocation, Kill(i) PROVE TypeOK'
  BY <1>8 DEF Kill, Goto, Stage, TypeOK, StoreTypeOK
<1>9. ASSUME NEW r \in Run, Launch(r) \/ RowExpires(r) PROVE TypeOK'
  <2>1. jobs' \in [Run -> Job]
    BY <1>9, StoreType DEF Launch, RowExpires, TypeOK
  <2>2. launched' \in SUBSET Run
    BY <1>9 DEF Launch, RowExpires, TypeOK
  <2>3. QED
    BY <1>9, <2>1, <2>2 DEF Launch, RowExpires, Expire, TypeOK, StoreTypeOK
<1>10. CASE Tick
  BY <1>10 DEF Tick, ClockTick, TypeOK, StoreTypeOK
<1>11. CASE UNCHANGED vars
  BY <1>11 DEF TypeOK, StoreTypeOK
<1>12. QED
  BY <1>1, <1>2, <1>3, <1>4, <1>5, <1>6, <1>7, <1>8, <1>9, <1>10, <1>11
     DEF Next, Step

-----------------------------------------------------------------------------
(* Only the launch, the put and the expiry change a row.                   *)
RowInv == \A r \in Run : jobs[r].status \in {ABSENT, QUEUED} \/ r \in launched

(* A put leaves no run without a row, and takes none away.                 *)
LEMMA PutFacts ==
  ASSUME StoreTypeOK, NEW q \in Run, NEW r \in Run, PutQueuedJob(q, Tier)
  PROVE  /\ jobs'[q].status # ABSENT
         /\ jobs[r].status # ABSENT => jobs'[r].status = jobs[r].status
         /\ jobs'[r].status \in {jobs[r].status, QUEUED}
BY DEF PutQueuedJob, StoreTypeOK

(* A row is launched before it can leave the table.                        *)
LEMMA RowStep == TypeOK /\ RowInv /\ [Next]_vars => RowInv'
<1> SUFFICES ASSUME TypeOK, RowInv, [Next]_vars, NEW r \in Run
             PROVE  jobs'[r].status \in {ABSENT, QUEUED} \/ r \in launched'
  BY DEF RowInv
<1> USE DEF vars, ingestVars, storeVars
<1>0. jobs \in [Run -> Job] /\ StoreTypeOK
  BY DEF TypeOK, StoreTypeOK
<1>1. CASE UNCHANGED <<jobs, launched>>
  BY <1>1 DEF RowInv
<1>2. ASSUME NEW i \in Invocation, Put(i)
      PROVE  jobs'[r].status \in {ABSENT, QUEUED} \/ r \in launched'
  <2>1. launched' = launched /\ (jobs' = jobs \/ PutQueuedJob(i[1], Tier))
    BY <1>2 DEF Put
  <2>2. jobs'[r].status \in {jobs[r].status, QUEUED}
    BY <1>0, <2>1, PutFacts, InvocationRun
  <2>3. QED
    BY <2>1, <2>2 DEF RowInv
<1>3. ASSUME NEW q \in Run, Launch(q)
      PROVE  jobs'[r].status \in {ABSENT, QUEUED} \/ r \in launched'
  <2>1. CASE q = r
    BY <1>3, <2>1 DEF Launch
  <2>2. CASE q # r
    BY <1>0, <1>3, <2>2 DEF Launch, SetTerminal, ItemWith, RowInv
  <2>3. QED
    BY <2>1, <2>2
<1>4. ASSUME NEW q \in Run, RowExpires(q)
      PROVE  jobs'[r].status \in {ABSENT, QUEUED} \/ r \in launched'
  BY <1>0, <1>4 DEF RowExpires, Expire, NoJob, RowInv
<1>5. ASSUME NEW q \in Run, Receive(q) \/ VisibilityTimeout(q) \/ DeadLetter(q)
      PROVE  UNCHANGED <<jobs, launched>>
  BY <1>5 DEF Receive, VisibilityTimeout, DeadLetter
<1>6. ASSUME NEW i \in Invocation,
             Parse(i) \/ Route(i) \/ SendErrorCallback(i) \/ Delete(i) \/ Kill(i)
      PROVE  UNCHANGED <<jobs, launched>>
  BY <1>6 DEF Parse, Route, SendErrorCallback, Delete, Kill
<1>7. Tick \/ UNCHANGED vars => UNCHANGED <<jobs, launched>>
  BY DEF Tick, ClockTick
<1>8. QED
  BY <1>1, <1>2, <1>3, <1>4, <1>5, <1>6, <1>7 DEF Next, Step

(* The bodies stay, callbacks and launches are not taken back.             *)
LEMMA Monotone ==
  TypeOK /\ [Next]_vars => body' = body /\ told \subseteq told' /\ launched \subseteq launched'
<1> SUFFICES ASSUME TypeOK, [Next]_vars
             PROVE  body' = body /\ told \subseteq told' /\ launched \subseteq launched'
  OBVIOUS
<1> USE DEF vars, ingestVars, storeVars
<1>1. ASSUME NEW r \in Run,
             Receive(r) \/ VisibilityTimeout(r) \/ DeadLetter(r) \/ Launch(r) \/ RowExpires(r)
      PROVE  body' = body /\ told \subseteq told' /\ launched \subseteq launched'
  BY <1>1 DEF Receive, VisibilityTimeout, DeadLetter, Launch, RowExpires
<1>2. ASSUME NEW i \in Invocation,
             Parse(i) \/ Route(i) \/ Put(i) \/ Delete(i) \/ Kill(i)
      PROVE  body' = body /\ told \subseteq told' /\ launched \subseteq launched'
  BY <1>2 DEF Parse, Route, Put, Delete, Kill
<1>3. ASSUME NEW i \in Invocation, SendErrorCallback(i)
      PROVE  body' = body /\ told \subseteq told' /\ launched \subseteq launched'
  BY <1>3 DEF SendErrorCallback, Tell, MaybeTell
<1>4. Tick \/ UNCHANGED vars
      => body' = body /\ told \subseteq told' /\ launched \subseteq launched'
  BY DEF Tick
<1>5. QED
  BY <1>1, <1>2, <1>3, <1>4 DEF Next, Step

(* A settled run stays settled.                                            *)
LEMMA SettledStays ==
  ASSUME TypeOK, RowInv, [Next]_vars, NEW r \in Run, Settled(r)
  PROVE  Settled(r)'
<1> USE DEF vars, ingestVars, storeVars
<1>0. StoreTypeOK /\ jobs \in [Run -> Job]
  BY DEF TypeOK, StoreTypeOK
<1>1. CASE r \in launched \cup told
  BY <1>1, Monotone DEF Settled
<1>2. CASE r \notin launched /\ jobs[r].status # ABSENT
  <2>1. jobs[r].status = QUEUED
    BY <1>2 DEF RowInv
  <2>2. CASE jobs' = jobs
    BY <1>2, <2>2 DEF Settled
  <2>3. ASSUME NEW i \in Invocation, Put(i) PROVE Settled(r)'
    <3>1. jobs' = jobs \/ PutQueuedJob(i[1], Tier)
      BY <2>3 DEF Put
    <3>2. jobs'[r].status # ABSENT
      BY <1>0, <1>2, <3>1, PutFacts, InvocationRun
    <3>3. QED
      BY <3>2 DEF Settled
  <2>4. ASSUME NEW q \in Run, Launch(q) PROVE Settled(r)'
    <3>1. jobs'[r].status # ABSENT
      BY <1>0, <1>2, <2>4 DEF Launch, SetTerminal, ItemWith
    <3>2. QED
      BY <3>1 DEF Settled
  <2>5. ASSUME NEW q \in Run, RowExpires(q) PROVE Settled(r)'
    <3>1. jobs'[r].status # ABSENT
      BY <1>0, <2>1, <2>5 DEF RowExpires, Expire
    <3>2. QED
      BY <3>1 DEF Settled
  <2>6. ASSUME NEW q \in Run, Receive(q) \/ VisibilityTimeout(q) \/ DeadLetter(q)
        PROVE  jobs' = jobs
    BY <2>6 DEF Receive, VisibilityTimeout, DeadLetter
  <2>7. ASSUME NEW i \in Invocation,
               Parse(i) \/ Route(i) \/ SendErrorCallback(i) \/ Delete(i) \/ Kill(i)
        PROVE  jobs' = jobs
    BY <2>7 DEF Parse, Route, SendErrorCallback, Delete, Kill
  <2>8. Tick \/ UNCHANGED vars => jobs' = jobs
    BY DEF Tick, ClockTick
  <2>9. QED
    BY <2>2, <2>3, <2>4, <2>5, <2>6, <2>7, <2>8 DEF Next, Step
<1>3. QED
  BY <1>1, <1>2 DEF Settled

-----------------------------------------------------------------------------
(* The decision of one invocation.                                         *)
DecisionInv ==
  \A i \in Invocation :
    /\ stage[i] = "delete" => Settled(i[1])
    /\ stage[i] \in Deciding => body[i[1]] # "anonymous"

LEMMA InvParts == IngestInv <=> TypeOK /\ NothingDropped /\ DecisionInv /\ RowInv
BY DEF IngestInv, DecisionInv, RowInv

(* An invocation that moves to a stage keeps the decisions, if the stage   *)
(* is right for it.                                                        *)
LEMMA MoveDecision ==
  ASSUME TypeOK, RowInv, DecisionInv, [Next]_vars,
         NEW i \in Invocation, NEW s \in Stage, Goto(i, s),
         s = "delete" => Settled(i[1])',
         s \in Deciding => body[i[1]] # "anonymous"
  PROVE  DecisionInv'
<1> SUFFICES ASSUME NEW j \in Invocation
             PROVE  /\ stage'[j] = "delete" => Settled(j[1])'
                    /\ stage'[j] \in Deciding => body'[j[1]] # "anonymous"
  BY DEF DecisionInv
<1>1. body' = body
  BY Monotone
<1>2. CASE j = i
  BY <1>1, <1>2, StageType
<1>3. CASE j # i
  <2>1. stage'[j] = stage[j]
    BY <1>3, StageType
  <2>2. stage'[j] = "delete" => Settled(j[1])'
    BY <2>1, SettledStays, InvocationRun DEF DecisionInv
  <2>3. QED
    BY <1>1, <2>1, <2>2 DEF DecisionInv
<1>4. QED
  BY <1>2, <1>3

(* A step that moves no invocation keeps the decisions.                    *)
LEMMA StillDecision ==
  ASSUME TypeOK, RowInv, DecisionInv, [Next]_vars, stage' = stage
  PROVE  DecisionInv'
<1>1. body' = body
  BY Monotone
<1>2. ASSUME NEW i \in Invocation, stage[i] = "delete" PROVE Settled(i[1])'
  BY <1>2, SettledStays, InvocationRun DEF DecisionInv
<1>3. QED
  BY <1>1, <1>2 DEF DecisionInv

LEMMA DecisionStep ==
  TypeOK /\ RowInv /\ DecisionInv /\ [Next]_vars => DecisionInv'
<1> SUFFICES ASSUME TypeOK, RowInv, DecisionInv, [Next]_vars PROVE DecisionInv'
  OBVIOUS
<1> USE DEF vars, ingestVars, storeVars
<1>1. ASSUME NEW r \in Run, Receive(r) PROVE DecisionInv'
  <2>1. received[r] + 1 \in 1 .. MaxReceive
    BY <1>1, ReceiveAssumption DEF Receive, TypeOK
  <2>2. PICK i \in Invocation : i = <<r, received[r] + 1>>
    BY <2>1 DEF Invocation
  <2>3. Goto(i, "start") /\ "start" \in Stage
    BY <1>1, <2>2 DEF Receive, Stage
  <2>4. QED
    BY <2>3, MoveDecision DEF Deciding
<1>2. ASSUME NEW i \in Invocation, Parse(i) PROVE DecisionInv'
  <2>1. PICK s \in Stage : /\ Goto(i, s) /\ s # "delete"
                           /\ s \in Deciding => body[i[1]] # "anonymous"
    BY <1>2 DEF Parse, Stage, Reason, Deciding
  <2>2. QED
    BY <2>1, MoveDecision
<1>3. ASSUME NEW i \in Invocation, Route(i) PROVE DecisionInv'
  <2>1. PICK m \in Manifest : Goto(i, Verdict(body[i[1]], m))
    BY <1>3 DEF Route
  <2>2. body[i[1]] # "anonymous" /\ body[i[1]] \in Body
    BY <1>3, InvocationRun DEF Route, DecisionInv, Deciding, TypeOK
  <2>3. PICK s \in Stage : s = Verdict(body[i[1]], m) /\ s # "delete"
    BY <2>2, VerdictType DEF Stage, Reason
  <2>4. QED
    BY <2>1, <2>2, <2>3, MoveDecision
<1>4. ASSUME NEW i \in Invocation, SendErrorCallback(i) PROVE DecisionInv'
  <2>1. CASE Goto(i, "end")
    BY <2>1, MoveDecision DEF Stage, Deciding
  <2>2. CASE Tell(i) /\ stage[i] = "client" /\ Goto(i, "delete")
    <3>1. body[i[1]] # "anonymous"
      BY <2>2 DEF DecisionInv, Deciding
    <3>2. i[1] \in told'
      BY <1>4, <2>2, <3>1 DEF SendErrorCallback, Tell
    <3>3. Settled(i[1])'
      BY <3>2 DEF Settled
    <3>4. QED
      BY <2>2, <3>1, <3>3, MoveDecision DEF Stage
  <2>3. QED
    BY <1>4, <2>1, <2>2 DEF SendErrorCallback
<1>5. ASSUME NEW i \in Invocation, Put(i) PROVE DecisionInv'
  <2>1. CASE Goto(i, "end")
    BY <2>1, MoveDecision DEF Stage, Deciding
  <2>2. CASE PutQueuedJob(i[1], Tier) /\ Goto(i, "delete")
    <3>1. body[i[1]] # "anonymous" \/ stage[i] = "put"
      BY <1>5 DEF Put
    <3>2. jobs'[i[1]].status # ABSENT
      BY <2>2, PutFacts, InvocationRun DEF TypeOK
    <3>3. Settled(i[1])'
      BY <3>2 DEF Settled
    <3>4. QED
      BY <1>5, <2>2, <3>3, MoveDecision DEF Stage, Put, DecisionInv, Deciding
  <2>3. QED
    BY <1>5, <2>1, <2>2 DEF Put
<1>6. ASSUME NEW i \in Invocation, Delete(i) \/ Kill(i) PROVE DecisionInv'
  BY <1>6, MoveDecision DEF Delete, Kill, Stage, Deciding
<1>7. ASSUME NEW r \in Run,
             VisibilityTimeout(r) \/ DeadLetter(r) \/ Launch(r) \/ RowExpires(r)
      PROVE  stage' = stage
  BY <1>7 DEF VisibilityTimeout, DeadLetter, Launch, RowExpires
<1>8. Tick \/ UNCHANGED vars => stage' = stage
  BY DEF Tick
<1>9. QED
  BY <1>1, <1>2, <1>3, <1>4, <1>5, <1>6, <1>7, <1>8, StillDecision DEF Next, Step

(* Only Delete deletes.                                                    *)
LEMMA DropStep == IngestInv /\ [Next]_vars => NothingDropped'
<1> SUFFICES ASSUME TypeOK, RowInv, DecisionInv, NothingDropped, [Next]_vars,
                    NEW r \in Run, message'[r] = "deleted"
             PROVE  Settled(r)' /\ body'[r] # "anonymous"
  BY InvParts DEF NothingDropped
<1> USE DEF vars, ingestVars, storeVars
<1>1. body' = body /\ (Settled(r) => Settled(r)')
  BY Monotone, SettledStays
<1>2. CASE message[r] = "deleted"
  BY <1>1, <1>2 DEF NothingDropped
<1>3. ASSUME NEW i \in Invocation, Delete(i), message[r] # "deleted"
      PROVE  Settled(r)' /\ body'[r] # "anonymous"
  <2>1. i[1] = r /\ stage[i] = "delete"
    BY <1>3, InvocationRun DEF Delete, TypeOK
  <2>2. QED
    BY <1>1, <2>1 DEF DecisionInv, Deciding
<1>4. ASSUME NEW q \in Run,
             \/ Receive(q) \/ VisibilityTimeout(q) \/ DeadLetter(q)
             \/ Launch(q) \/ RowExpires(q)
      PROVE  message[r] = "deleted"
  BY <1>4 DEF Receive, VisibilityTimeout, DeadLetter, Launch, RowExpires, TypeOK
<1>5. ASSUME NEW i \in Invocation,
             Parse(i) \/ Route(i) \/ SendErrorCallback(i) \/ Put(i) \/ Kill(i)
      PROVE  message[r] = "deleted"
  BY <1>5 DEF Parse, Route, SendErrorCallback, Put, Kill
<1>6. Tick \/ UNCHANGED vars => message[r] = "deleted"
  BY DEF Tick
<1>7. QED
  BY <1>2, <1>3, <1>4, <1>5, <1>6 DEF Next, Step

(* The invariant holds at the start and is kept by every step.             *)
LEMMA IngestInductive ==
  /\ Init => IngestInv
  /\ IngestInv /\ [Next]_vars => IngestInv'
<1>1. Init => IngestInv
  <2> SUFFICES ASSUME Init PROVE IngestInv
    OBVIOUS
  <2>1. TypeOK
    BY ReceiveAssumption
       DEF Init, StoreInit, TypeOK, StoreTypeOK, NoJob, Job, Priority, Stage
  <2>2. NothingDropped /\ DecisionInv /\ RowInv
    BY InvocationRun
       DEF Init, StoreInit, NoJob, NothingDropped, DecisionInv, RowInv, Deciding
  <2>3. QED
    BY <2>1, <2>2, InvParts
<1>2. ASSUME IngestInv, [Next]_vars PROVE IngestInv'
  <2>1. TypeOK' /\ RowInv' /\ DecisionInv' /\ NothingDropped'
    BY <1>2, InvParts, TypeStep, RowStep, DecisionStep, DropStep
  <2>2. QED
    BY <2>1 DEF IngestInv, DecisionInv, RowInv
<1>3. QED
  BY <1>1, <1>2

(* What a step can do to the messages: receives only add up, and a message *)
(* that is gone stays where it is.                                         *)
LEMMA QueueStep ==
  TypeOK /\ [Next]_vars
  => \A r \in Run : /\ Gone(r) => message'[r] = message[r] /\ received'[r] = received[r]
                    /\ received[r] > 0 => received'[r] > 0
                    /\ received[r] <= 0 /\ received'[r] > 0 => AtHead(r)
<1> SUFFICES ASSUME TypeOK, [Next]_vars, NEW r \in Run
             PROVE  /\ Gone(r) => message'[r] = message[r] /\ received'[r] = received[r]
                    /\ received[r] > 0 => received'[r] > 0
                    /\ received[r] <= 0 /\ received'[r] > 0 => AtHead(r)
  OBVIOUS
<1> USE DEF vars, ingestVars, storeVars, Gone
<1> DEFINE G == /\ Gone(r) => message'[r] = message[r] /\ received'[r] = received[r]
                /\ received[r] > 0 => received'[r] > 0
                /\ received[r] <= 0 /\ received'[r] > 0 => AtHead(r)
<1>0. received \in [Run -> Int]
  BY ReceiveAssumption DEF TypeOK
<1>1. ASSUME NEW q \in Run, Receive(q) PROVE G
  <2>1. message[q] = "visible" /\ received' = [received EXCEPT ![q] = @ + 1]
        /\ AtHead(q) /\ message' = [message EXCEPT ![q] = "in_flight"]
    BY <1>1 DEF Receive
  <2>2. CASE q = r
    BY <1>0, <2>1, <2>2 DEF TypeOK
  <2>3. CASE q # r
    BY <1>0, <2>1, <2>3 DEF TypeOK
  <2>4. QED
    BY <2>2, <2>3
<1>2. ASSUME NEW q \in Run, VisibilityTimeout(q) \/ DeadLetter(q) PROVE G
  BY <1>2 DEF VisibilityTimeout, DeadLetter, TypeOK
<1>3. ASSUME NEW i \in Invocation, Delete(i) PROVE G
  BY <1>3, InvocationRun DEF Delete, TypeOK
<1>4. CASE UNCHANGED <<message, received>>
  BY <1>0, <1>4
<1>5. ASSUME NEW i \in Invocation,
             Parse(i) \/ Route(i) \/ SendErrorCallback(i) \/ Put(i) \/ Kill(i)
      PROVE  UNCHANGED <<message, received>>
  BY <1>5 DEF Parse, Route, SendErrorCallback, Put, Kill
<1>6. ASSUME NEW q \in Run, Launch(q) \/ RowExpires(q)
      PROVE  UNCHANGED <<message, received>>
  BY <1>6 DEF Launch, RowExpires
<1>7. Tick \/ UNCHANGED vars => UNCHANGED <<message, received>>
  BY DEF Tick
<1>8. QED
  BY <1>1, <1>2, <1>3, <1>4, <1>5, <1>6, <1>7 DEF Next, Step

(* What a step can do to the rows: created_at is the clock of the put, and *)
(* stays while the row does; the clock does not go back.                   *)
LEMMA StampStep ==
  ASSUME TypeOK, RowInv, [Next]_vars, NEW r \in Run
  PROVE  /\ clock \in Nat /\ clock' \in Nat /\ clock <= clock'
         /\ jobs[r].status # ABSENT /\ jobs'[r].status # ABSENT
            => jobs'[r].created = jobs[r].created
         /\ jobs[r].status = ABSENT /\ jobs'[r].status # ABSENT
            => /\ jobs'[r].created = clock /\ clock' = clock
               /\ \E n \in 1 .. MaxReceive : stage[<<r, n>>] = "put"
         /\ jobs[r].status # ABSENT /\ jobs'[r].status = ABSENT
            => RowExpires(r)
<1> USE DEF vars, ingestVars, storeVars
<1> DEFINE G == /\ clock \in Nat /\ clock' \in Nat /\ clock <= clock'
                /\ jobs[r].status # ABSENT /\ jobs'[r].status # ABSENT
                   => jobs'[r].created = jobs[r].created
                /\ jobs[r].status = ABSENT /\ jobs'[r].status # ABSENT
                   => /\ jobs'[r].created = clock /\ clock' = clock
                      /\ \E n \in 1 .. MaxReceive : stage[<<r, n>>] = "put"
                /\ jobs[r].status # ABSENT /\ jobs'[r].status = ABSENT
                   => RowExpires(r)
<1>0. jobs \in [Run -> Job] /\ clock \in Nat
  BY DEF TypeOK, StoreTypeOK
<1>1. CASE jobs' = jobs /\ clock' \in Nat /\ clock <= clock'
  BY <1>0, <1>1
<1>2. ASSUME NEW i \in Invocation, Put(i) PROVE G
  <2>1. clock' = clock /\ stage[i] = "put"
    BY <1>2 DEF Put
  <2>2. CASE jobs' = jobs
    BY <1>0, <2>1, <2>2
  <2>3. CASE PutQueuedJob(i[1], Tier) /\ i[1] = r
    <3>1. stage[<<r, i[2]>>] = "put" /\ i[2] \in 1 .. MaxReceive
      BY <2>1, <2>3 DEF Invocation
    <3>2. /\ jobs[r].status # ABSENT => jobs' = jobs
          /\ jobs[r].status = ABSENT => jobs'[r].created = clock
      BY <1>0, <2>3 DEF PutQueuedJob
    <3>3. jobs'[r].status # ABSENT
      BY <1>0, <2>3 DEF PutQueuedJob
    <3>4. QED
      BY <1>0, <2>1, <3>1, <3>2, <3>3
  <2>4. CASE PutQueuedJob(i[1], Tier) /\ i[1] # r
    <3>1. jobs'[r] = jobs[r]
      BY <1>0, <2>4, InvocationRun DEF PutQueuedJob
    <3>2. QED
      BY <1>0, <2>1, <3>1
  <2>5. QED
    BY <1>2, <2>2, <2>3, <2>4 DEF Put
<1>3. ASSUME NEW q \in Run, Launch(q) PROVE G
  <2>1. clock' = clock
    BY <1>3 DEF Launch
  <2>2. /\ jobs[r].status # ABSENT => jobs'[r].status # ABSENT
        /\ jobs[r].status = ABSENT => jobs'[r].status = ABSENT
        /\ jobs'[r].created = jobs[r].created
    <3>1. CASE q = r
      BY <1>0, <1>3, <3>1 DEF Launch, SetTerminal, ItemWith
    <3>2. CASE q # r
      BY <1>0, <1>3, <3>2 DEF Launch, SetTerminal, ItemWith
    <3>3. QED
      BY <3>1, <3>2
  <2>3. QED
    BY <1>0, <2>1, <2>2
<1>4. ASSUME NEW q \in Run, RowExpires(q) PROVE G
  <2>1. clock' = clock
    BY <1>4 DEF RowExpires, Expire
  <2>2. CASE q = r
    <3>1. jobs'[r].status = ABSENT
      BY <1>0, <1>4, <2>2 DEF RowExpires, Expire, NoJob
    <3>2. QED
      BY <1>0, <1>4, <2>1, <2>2, <3>1
  <2>3. CASE q # r
    <3>1. jobs'[r] = jobs[r]
      BY <1>0, <1>4, <2>3 DEF RowExpires, Expire
    <3>2. QED
      BY <1>0, <2>1, <3>1
  <2>4. QED
    BY <2>2, <2>3
<1>5. ASSUME NEW q \in Run, Receive(q) \/ VisibilityTimeout(q) \/ DeadLetter(q)
      PROVE  UNCHANGED <<jobs, clock>>
  BY <1>5 DEF Receive, VisibilityTimeout, DeadLetter
<1>6. ASSUME NEW i \in Invocation,
             Parse(i) \/ Route(i) \/ SendErrorCallback(i) \/ Delete(i) \/ Kill(i)
      PROVE  UNCHANGED <<jobs, clock>>
  BY <1>6 DEF Parse, Route, SendErrorCallback, Delete, Kill
<1>7. CASE Tick
  BY <1>0, <1>1, <1>7 DEF Tick, ClockTick
<1>8. CASE UNCHANGED <<jobs, clock>>
  BY <1>0, <1>1, <1>8
<1>9. UNCHANGED vars => UNCHANGED <<jobs, clock>>
  OBVIOUS
<1>10. QED
  BY <1>2, <1>3, <1>4, <1>5, <1>6, <1>7, <1>8, <1>9 DEF Next, Step

(* What a step can do to the invocations: only a receive starts one.       *)
LEMMA StageStep ==
  ASSUME TypeOK, [Next]_vars, NEW i \in Invocation
  PROVE  /\ stage[i] = "none" /\ stage'[i] # "none" => received'[i[1]] > 0
         /\ stage[i] \in {"none", "end"} /\ Gone(i[1]) => stage'[i] = stage[i]
<1> USE DEF vars, ingestVars, storeVars
<1> DEFINE G == /\ stage[i] = "none" /\ stage'[i] # "none" => received'[i[1]] > 0
                /\ stage[i] \in {"none", "end"} /\ Gone(i[1]) => stage'[i] = stage[i]
<1>1. ASSUME NEW q \in Run, Receive(q) PROVE G
  <2>1. /\ received' = [received EXCEPT ![q] = @ + 1]
        /\ stage' = [stage EXCEPT ![<<q, received[q] + 1>>] = "start"]
        /\ ~Gone(q)
    BY <1>1 DEF Receive, Goto, Gone
  <2>2. CASE i[1] = q
    <3>1. received'[q] = received[q] + 1 /\ received[q] \in Nat
      BY <2>1, ReceiveAssumption DEF TypeOK
    <3>2. QED
      BY <2>1, <2>2, <3>1
  <2>3. CASE i[1] # q
    <3>1. i # <<q, received[q] + 1>>
      BY <2>3
    <3>2. stage'[i] = stage[i]
      BY <2>1, <3>1 DEF TypeOK
    <3>3. QED
      BY <3>2
  <2>4. QED
    BY <2>2, <2>3
<1>2. ASSUME NEW j \in Invocation, Step(j) PROVE G
  <2>1. PICK s : Goto(j, s)
    BY <1>2 DEF Step, Parse, Route, SendErrorCallback, Put, Delete, Kill
  <2>2. stage[j] \notin {"none", "end"}
    BY <1>2 DEF Step, Parse, Route, SendErrorCallback, Put, Delete, Kill,
         Reason
  <2>3. i # j => stage'[i] = stage[i]
    BY <2>1 DEF Goto, TypeOK
  <2>4. QED
    BY <2>2, <2>3
<1>3. ASSUME NEW q \in Run,
             VisibilityTimeout(q) \/ DeadLetter(q) \/ Launch(q) \/ RowExpires(q)
      PROVE  stage' = stage
  BY <1>3 DEF VisibilityTimeout, DeadLetter, Launch, RowExpires
<1>4. Tick \/ UNCHANGED vars => stage' = stage
  BY DEF Tick
<1>5. CASE stage' = stage
  BY <1>5
<1>6. QED
  BY <1>1, <1>2, <1>3, <1>4, <1>5 DEF Next

(* The parts of OrderInv that GroupOrder rests on.                         *)
ReceivedInOrder == \A a, b \in Run : a < b /\ received[b] > 0 => Gone(a)
PutWhenReceived ==
  \A r \in Run : jobs[r].status # ABSENT => received[r] > 0 /\ jobs[r].created <= clock
StartedWhenReceived ==
  \A i \in Invocation : stage[i] # "none" => received[i[1]] > 0
ExpiredIsOver ==
  \A r \in Run :
    jobs[r].status = ABSENT /\ r \in launched
    => Gone(r) /\ \A n \in 1 .. MaxReceive : stage[<<r, n>>] \in {"none", "end"}

LEMMA OrderParts ==
  OrderInv <=> /\ GroupOrder /\ ReceivedInOrder /\ PutWhenReceived
               /\ StartedWhenReceived /\ ExpiredIsOver
BY DEF OrderInv, ReceivedInOrder, PutWhenReceived, StartedWhenReceived, ExpiredIsOver

LEMMA ReceivedStep ==
  TypeOK /\ ReceivedInOrder /\ [Next]_vars => ReceivedInOrder'
<1> SUFFICES ASSUME TypeOK, ReceivedInOrder, [Next]_vars,
                    NEW a \in Run, NEW b \in Run, a < b, received'[b] > 0
             PROVE  Gone(a)'
  BY DEF ReceivedInOrder
<1>1. received[b] \in Int
  BY ReceiveAssumption DEF TypeOK
<1>2. Gone(a)
  <2>1. CASE received[b] > 0
    BY <2>1 DEF ReceivedInOrder
  <2>2. CASE received[b] <= 0
    <3>1. AtHead(b)
      BY <2>2, QueueStep
    <3>2. QED
      BY <3>1 DEF AtHead
  <2>3. QED
    BY <1>1, <2>1, <2>2
<1>3. QED
  BY <1>2, QueueStep DEF Gone

LEMMA StartedStep ==
  TypeOK /\ StartedWhenReceived /\ [Next]_vars => StartedWhenReceived'
<1> SUFFICES ASSUME TypeOK, StartedWhenReceived, [Next]_vars,
                    NEW i \in Invocation, stage'[i] # "none"
             PROVE  received'[i[1]] > 0
  BY DEF StartedWhenReceived
<1>1. CASE stage[i] = "none"
  BY <1>1, StageStep
<1>2. CASE stage[i] # "none"
  BY <1>2, QueueStep, InvocationRun DEF StartedWhenReceived
<1>3. QED
  BY <1>1, <1>2

LEMMA PutStep ==
  TypeOK /\ RowInv /\ PutWhenReceived /\ StartedWhenReceived /\ [Next]_vars
  => PutWhenReceived'
<1> SUFFICES ASSUME TypeOK, RowInv, PutWhenReceived, StartedWhenReceived, [Next]_vars,
                    NEW r \in Run, jobs'[r].status # ABSENT
             PROVE  received'[r] > 0 /\ jobs'[r].created <= clock'
  BY DEF PutWhenReceived
<1>0. jobs[r].created \in Nat
  BY DEF TypeOK, StoreTypeOK, Job
<1>1. CASE jobs[r].status # ABSENT
  <2>1. received'[r] > 0
    BY <1>1, QueueStep DEF PutWhenReceived
  <2>2. jobs[r].created <= clock /\ jobs'[r].created = jobs[r].created
    BY <1>1, StampStep DEF PutWhenReceived
  <2>3. clock \in Nat /\ clock' \in Nat /\ clock <= clock'
    BY StampStep
  <2>4. QED
    BY <1>0, <2>1, <2>2, <2>3
<1>2. CASE jobs[r].status = ABSENT
  <2>1. PICK n \in 1 .. MaxReceive : stage[<<r, n>>] = "put"
    BY <1>2, StampStep
  <2>2. PICK i \in Invocation : i = <<r, n>>
    BY DEF Invocation
  <2>3. received[r] > 0
    BY <2>1, <2>2 DEF StartedWhenReceived
  <2>4. jobs'[r].created = clock /\ clock' = clock /\ clock \in Nat
    BY <1>2, StampStep
  <2>5. QED
    BY <2>3, <2>4, QueueStep
<1>3. QED
  BY <1>1, <1>2

(* Only a launch launches, and it leaves the row.                          *)
LEMMA LaunchStep ==
  ASSUME TypeOK, [Next]_vars, NEW r \in Run, r \in launched', r \notin launched
  PROVE  jobs'[r].status # ABSENT
<1> USE DEF vars, ingestVars, storeVars
<1>1. ASSUME NEW q \in Run, Launch(q) PROVE jobs'[r].status # ABSENT
  <2>1. q = r
    BY <1>1 DEF Launch
  <2>2. QED
    BY <1>1, <2>1 DEF Launch, SetTerminal, ItemWith, TypeOK, StoreTypeOK
<1>2. ASSUME NEW q \in Run,
             Receive(q) \/ VisibilityTimeout(q) \/ DeadLetter(q) \/ RowExpires(q)
      PROVE  launched' = launched
  BY <1>2 DEF Receive, VisibilityTimeout, DeadLetter, RowExpires
<1>3. ASSUME NEW i \in Invocation, Step(i) PROVE launched' = launched
  BY <1>3 DEF Step, Parse, Route, SendErrorCallback, Put, Delete, Kill
<1>4. Tick \/ UNCHANGED vars => launched' = launched
  BY DEF Tick
<1>5. QED
  BY <1>1, <1>2, <1>3, <1>4 DEF Next

LEMMA ExpiredStep ==
  TypeOK /\ RowInv /\ ExpiredIsOver /\ [Next]_vars => ExpiredIsOver'
<1>0. 1 \in 1 .. MaxReceive
  BY ReceiveAssumption
<1> SUFFICES ASSUME TypeOK, RowInv, ExpiredIsOver, [Next]_vars, NEW r \in Run,
                    jobs'[r].status = ABSENT, r \in launched',
                    NEW n \in 1 .. MaxReceive
             PROVE  Gone(r)' /\ stage'[<<r, n>>] \in {"none", "end"}
  BY <1>0 DEF ExpiredIsOver
<1>1. r \in launched
  BY LaunchStep
<1>2. Gone(r) /\ stage[<<r, n>>] \in {"none", "end"}
  <2>1. CASE jobs[r].status = ABSENT
    BY <1>1, <2>1 DEF ExpiredIsOver
  <2>2. CASE jobs[r].status # ABSENT
    BY <2>2, StampStep DEF RowExpires
  <2>3. QED
    BY <2>1, <2>2
<1>3. PICK i \in Invocation : i = <<r, n>>
  BY DEF Invocation
<1>4. stage'[i] = stage[i]
  BY <1>2, <1>3, StageStep
<1>5. QED
  BY <1>2, <1>3, <1>4, QueueStep DEF Gone

LEMMA OrderStep ==
  IngestInv /\ OrderInv /\ [Next]_vars => GroupOrder'
<1> SUFFICES ASSUME IngestInv, OrderInv, [Next]_vars,
                    NEW a \in Run, NEW b \in Run, a < b,
                    message'[a] # "dead", a \notin told',
                    jobs'[a].status # ABSENT, jobs'[b].status # ABSENT
             PROVE  jobs'[a].created <= jobs'[b].created
  BY DEF GroupOrder
<1>1. TypeOK /\ RowInv /\ NothingDropped /\ GroupOrder /\ ReceivedInOrder
      /\ PutWhenReceived /\ ExpiredIsOver
  BY InvParts, OrderParts
<1>2. message[a] # "dead" /\ a \notin told
  BY <1>1, QueueStep, Monotone DEF Gone
<1>3. CASE jobs[a].status # ABSENT /\ jobs[b].status # ABSENT
  <2>1. jobs[a].created <= jobs[b].created
    BY <1>1, <1>2, <1>3 DEF GroupOrder
  <2>2. QED
    BY <1>1, <1>3, <2>1, StampStep
<1>4. CASE jobs[a].status # ABSENT /\ jobs[b].status = ABSENT
  <2>1. jobs[a].created <= clock /\ jobs'[a].created = jobs[a].created
    BY <1>1, <1>4, StampStep DEF PutWhenReceived
  <2>2. jobs'[b].created = clock
    BY <1>1, <1>4, StampStep
  <2>3. QED
    BY <2>1, <2>2
<1>5. CASE jobs[a].status = ABSENT /\ jobs[b].status # ABSENT
  <2>1. Gone(a)
    BY <1>1, <1>5 DEF PutWhenReceived, ReceivedInOrder
  <2>2. Settled(a)
    BY <1>1, <1>2, <2>1 DEF Gone, NothingDropped
  <2>3. a \in launched
    BY <1>2, <1>5, <2>2 DEF Settled
  <2>4. PICK n \in 1 .. MaxReceive : stage[<<a, n>>] = "put"
    BY <1>1, <1>5, StampStep
  <2>5. QED
    BY <1>1, <1>5, <2>3, <2>4 DEF ExpiredIsOver
<1>6. CASE jobs[a].status = ABSENT /\ jobs[b].status = ABSENT
  <2>1. jobs'[a].created = clock /\ jobs'[b].created = clock /\ clock \in Nat
    BY <1>1, <1>6, StampStep
  <2>2. QED
    BY <2>1
<1>7. QED
  BY <1>3, <1>4, <1>5, <1>6

LEMMA OrderInductive ==
  /\ Init => OrderInv
  /\ IngestInv /\ OrderInv /\ [Next]_vars => OrderInv'
<1>1. Init => OrderInv
  BY InvocationRun DEF Init, StoreInit, NoJob, OrderInv, GroupOrder
<1>2. ASSUME IngestInv, OrderInv, [Next]_vars PROVE OrderInv'
  <2>1. TypeOK /\ RowInv /\ GroupOrder /\ ReceivedInOrder /\ PutWhenReceived
        /\ StartedWhenReceived /\ ExpiredIsOver
    BY <1>2, InvParts, OrderParts
  <2>2. /\ GroupOrder' /\ ReceivedInOrder' /\ PutWhenReceived'
        /\ StartedWhenReceived' /\ ExpiredIsOver'
    BY <1>2, <2>1, OrderStep, ReceivedStep, PutStep, StartedStep, ExpiredStep
  <2>3. QED
    BY <2>2 DEF OrderInv, ReceivedInOrder, PutWhenReceived, StartedWhenReceived,
         ExpiredIsOver
<1>3. QED
  BY <1>1, <1>2

(* The types, for every number of runs and receives.                       *)
THEOREM IngestTypeCorrect == Spec => []TypeOK
<1>1. IngestInv => TypeOK
  BY DEF IngestInv
<1>2. QED
  BY IngestInductive, <1>1, PTL DEF Spec

(* No dispatch message is dropped: one that the event source deleted is a  *)
(* run with a row, a run that was launched, or a run whose failure gp-api  *)
(* will be told about (handler of dispatch_handler.py).                    *)
THEOREM NoDispatchDropped == Spec => []NothingDropped
<1>1. IngestInv => NothingDropped
  BY DEF IngestInv
<1>2. QED
  BY IngestInductive, <1>1, PTL DEF Spec

(* The order of an organization's dispatches reaches the queue: whatever   *)
(* is redelivered, killed or late, a row that was put first keeps the      *)
(* earlier stamp (put_queued_job of job_store.py).                         *)
THEOREM OrderKept == Spec => []GroupOrder
<1>1. OrderInv => GroupOrder
  BY DEF OrderInv
<1>2. QED
  BY IngestInductive, OrderInductive, <1>1, PTL DEF Spec

(* A launch is final for the row: it is DISPATCHED until it expires.       *)
LaunchedNotQueued == \A r \in launched : jobs[r].status # QUEUED

(* No step puts a launched row back: as long as the row is there the put   *)
(* has no effect, and once it expired no invocation is left to put it.     *)
LEMMA RequeueStep ==
  ASSUME TypeOK, ExpiredIsOver, LaunchedNotQueued, [Next]_vars,
         NEW r \in launched'
  PROVE  jobs'[r].status # QUEUED
<1> USE DEF vars, ingestVars, storeVars
<1>0. jobs \in [Run -> Job] /\ launched \subseteq Run
  BY DEF TypeOK, StoreTypeOK
<1>1. ASSUME NEW q \in Run, Launch(q) PROVE jobs'[r].status # QUEUED
  <2>1. r \in Run /\ (q = r \/ r \in launched)
    BY <1>0, <1>1 DEF Launch
  <2>2. CASE q = r
    BY <1>0, <1>1, <2>1, <2>2 DEF Launch, SetTerminal, ItemWith
  <2>3. CASE q # r
    BY <1>0, <1>1, <2>1, <2>3 DEF Launch, SetTerminal, ItemWith, LaunchedNotQueued
  <2>4. QED
    BY <2>2, <2>3
<1>2. ASSUME NEW i \in Invocation, Put(i) PROVE jobs'[r].status # QUEUED
  <2>1. /\ r \in launched /\ r \in Run /\ stage[i] = "put"
        /\ i[1] \in Run /\ i[2] \in 1 .. MaxReceive /\ i = <<i[1], i[2]>>
        /\ jobs[r].status # QUEUED
    BY <1>0, <1>2, InvocationRun DEF Put, Invocation, LaunchedNotQueued
  <2>2. CASE jobs' = jobs
    BY <2>1, <2>2
  <2>3. CASE PutQueuedJob(i[1], Tier) /\ i[1] # r
    BY <1>0, <2>1, <2>3 DEF PutQueuedJob
  <2>4. CASE PutQueuedJob(i[1], Tier) /\ i[1] = r
    <3>1. jobs[r].status # ABSENT
      BY <2>1, <2>4 DEF ExpiredIsOver
    <3>2. QED
      BY <2>1, <2>4, <3>1 DEF PutQueuedJob
  <2>5. QED
    BY <1>2, <2>2, <2>3, <2>4 DEF Put
<1>3. ASSUME NEW q \in Run, RowExpires(q) PROVE jobs'[r].status # QUEUED
  BY <1>0, <1>3 DEF RowExpires, Expire, NoJob, LaunchedNotQueued
<1>4. ASSUME NEW q \in Run, Receive(q) \/ VisibilityTimeout(q) \/ DeadLetter(q)
      PROVE  UNCHANGED <<jobs, launched>>
  BY <1>4 DEF Receive, VisibilityTimeout, DeadLetter
<1>5. ASSUME NEW i \in Invocation,
             Parse(i) \/ Route(i) \/ SendErrorCallback(i) \/ Delete(i) \/ Kill(i)
      PROVE  UNCHANGED <<jobs, launched>>
  BY <1>5 DEF Parse, Route, SendErrorCallback, Delete, Kill
<1>6. Tick \/ UNCHANGED vars => UNCHANGED <<jobs, launched>>
  BY DEF Tick, ClockTick
<1>7. UNCHANGED <<jobs, launched>> => jobs'[r].status # QUEUED
  BY DEF LaunchedNotQueued
<1>8. QED
  BY <1>1, <1>2, <1>3, <1>4, <1>5, <1>6, <1>7 DEF Next, Step

(* A redelivery never queues a row that the scheduler took: not beside its *)
(* running task, and not after the row expired (put_queued_job's condition *)
(* holds again by then, but no invocation of the message is left).         *)
THEOREM LaunchIsFinal == Spec => NeverRequeued
<1>1. Init => LaunchedNotQueued
  BY DEF Init, LaunchedNotQueued
<1>2. IngestInv /\ OrderInv /\ LaunchedNotQueued /\ [Next]_vars
      => /\ LaunchedNotQueued'
         /\ [\A r \in Run : r \in launched => jobs'[r].status # QUEUED]_vars
  <2> SUFFICES ASSUME IngestInv, OrderInv, LaunchedNotQueued, [Next]_vars
               PROVE  /\ LaunchedNotQueued'
                      /\ \A r \in launched : jobs'[r].status # QUEUED
    OBVIOUS
  <2>1. TypeOK /\ ExpiredIsOver
    BY InvParts, OrderParts
  <2>2. LaunchedNotQueued'
    BY <2>1, RequeueStep DEF LaunchedNotQueued
  <2>3. launched \subseteq launched'
    BY <2>1, Monotone
  <2>4. QED
    BY <2>2, <2>3 DEF LaunchedNotQueued
<1>3. QED
  BY <1>1, <1>2, IngestInductive, OrderInductive, PTL DEF Spec, NeverRequeued
=============================================================================
