--------------------------- MODULE SchedulerProofs ---------------------------
(***************************************************************************)
(* Theorems about the scheduler, for every set of runs and every cap.      *)
(***************************************************************************)
EXTENDS Scheduler, TLAPS, FiniteSetTheorems

USE DEF ABSENT, QUEUED, LAUNCHING, DISPATCHED, FAILED

(* The job table keeps its type under every method of JobStore.            *)
LEMMA StoreType ==
  ASSUME TypeOK, NEW r \in Run
  PROVE  /\ \A p \in Priority : PutQueuedJob(r, p) => jobs' \in [Run -> Job]
         /\ Claimed(r) \in [Run -> Job]
         /\ ItemWith(r, LAUNCHING, jobs[r].attempts, TRUE) \in [Run -> Job]
         /\ \A s \in {DISPATCHED, FAILED} : SetTerminal(r, s) \in [Run -> Job]
<1>1. jobs \in [Run -> Job] /\ clock \in Nat
  BY DEF TypeOK, StoreTypeOK
<1>2. ASSUME NEW p \in Priority, PutQueuedJob(r, p)
      PROVE  jobs' \in [Run -> Job]
  BY <1>1, <1>2 DEF PutQueuedJob, Job
<1>3. Claimed(r) \in [Run -> Job]
  BY <1>1 DEF Claimed, ItemWith, Job
<1>4. ASSUME NEW s \in {DISPATCHED, FAILED}
      PROVE  SetTerminal(r, s) \in [Run -> Job]
  BY <1>1 DEF SetTerminal, ItemWith, Job
<1>5. ItemWith(r, LAUNCHING, jobs[r].attempts, TRUE) \in [Run -> Job]
  BY <1>1 DEF ItemWith, Job
<1>6. QED
  BY <1>2, <1>3, <1>4, <1>5

(* Every step keeps the types.                                            *)
LEMMA TypeStep == IInv /\ [Next]_vars => TypeOK'
<1> SUFFICES ASSUME TypeOK, CurInv, CapInv, [Next]_vars
             PROVE  TypeOK'
  BY DEF IInv
<1> USE DEF Labels, SweepLabels, LaunchLabels, None
<1>1. CASE BeginTick
  BY <1>1 DEF BeginTick, TypeOK, StoreTypeOK, storeVars, envVars, Goto, StuckLaunching
<1>2. CASE EndSweep
  BY <1>2 DEF EndSweep, TypeOK, StoreTypeOK, storeVars, envVars, Goto
<1>3. ASSUME NEW r \in Run, SweepCheck(r)
      PROVE  TypeOK'
  BY <1>3 DEF SweepCheck, TypeOK, StoreTypeOK, storeVars, envVars, Goto
<1>4. CASE SweepReconcile
  BY <1>4, StoreType DEF SweepReconcile, TypeOK, StoreTypeOK, envVars, Goto,
       MaybeUpdate, CurInv
<1>5. CASE SweepNotify
  BY <1>5 DEF SweepNotify, TypeOK, StoreTypeOK, storeVars, Goto, Send, MaybeSend,
       CurInv
<1>6. CASE SweepFail
  BY <1>6, StoreType DEF SweepFail, TypeOK, StoreTypeOK, envVars, Goto, Update,
       MaybeUpdate, CurInv
<1>7. CASE Count
  <2>1. Cardinality(live) \in Int
    BY FS_CardinalityType DEF CapInv
  <2>2. QED
    BY <1>7, <2>1, CapAssumption DEF Count, TypeOK, StoreTypeOK, storeVars, envVars, Goto, Return
<1>8. CASE Query
  BY <1>8 DEF Query, TypeOK, StoreTypeOK, storeVars, envVars, Goto, Return
<1>9. CASE EndTick
  BY <1>9 DEF EndTick, TypeOK, StoreTypeOK, storeVars, envVars, Return
<1>10. ASSUME NEW r \in Run, Claim(r)
       PROVE  TypeOK'
  BY <1>10, StoreType DEF Claim, TypeOK, StoreTypeOK, envVars, Goto, Update, MaybeUpdate
<1>11. CASE Mint
  BY <1>11 DEF Mint, TypeOK, StoreTypeOK, storeVars, Goto, CurInv
<1>12. CASE RunTask
  BY <1>12 DEF RunTask, TypeOK, StoreTypeOK, storeVars, Goto, CurInv, StartTask,
       CleanupMintedToken, Job
<1>13. CASE MarkDispatched
  BY <1>13, StoreType DEF MarkDispatched, TypeOK, StoreTypeOK, envVars, Goto, Update,
       MaybeUpdate, CurInv
<1>14. CASE NotifyStarted
  BY <1>14 DEF NotifyStarted, TypeOK, StoreTypeOK, storeVars, Goto, MaybeSend, CurInv
<1>15. CASE NotifyFailed
  BY <1>15 DEF NotifyFailed, TypeOK, StoreTypeOK, storeVars, Goto, Send, MaybeSend, CurInv
<1>16. CASE MarkFailed
  BY <1>16, StoreType DEF MarkFailed, TypeOK, StoreTypeOK, envVars, Goto, MaybeUpdate, CurInv
<1>17. CASE Kill
  BY <1>17 DEF Kill, TypeOK, StoreTypeOK, storeVars, envVars, Return
<1>18. CASE Table /\ UNCHANGED <<envVars, localVars>>
  <2>1. ASSUME NEW r \in Run, IndexCatchUp(r)
        PROVE  StoreTypeOK'
    BY <2>1 DEF IndexCatchUp, TypeOK, StoreTypeOK
  <2>2. ASSUME NEW r \in Run, BecomeStuck(r)
        PROVE  StoreTypeOK'
    BY <2>2, StoreType DEF BecomeStuck, TypeOK, StoreTypeOK
  <2>3. ASSUME ClockTick
        PROVE  StoreTypeOK'
    BY <2>3 DEF ClockTick, TypeOK, StoreTypeOK
  <2>4. StoreTypeOK'
    BY <1>18, <2>1, <2>2, <2>3 DEF Table
  <2>5. QED
    BY <1>18, <2>4 DEF TypeOK, envVars, localVars
<1>19. ASSUME NEW r \in Run, RowExpires(r)
       PROVE  TypeOK'
  BY <1>19 DEF RowExpires, Expire, NoJob, Priority, Job, TypeOK, StoreTypeOK, envVars, localVars
<1>20. ASSUME NEW r \in Run, TicketEnds(r)
       PROVE  TypeOK'
  BY <1>20 DEF TicketEnds, TypeOK, StoreTypeOK, storeVars, localVars
<1>21. ASSUME NEW r \in Run, NEW p \in Priority, Ingest(r, p)
       PROVE  TypeOK'
  BY <1>21, StoreType DEF Ingest, TypeOK, StoreTypeOK, localVars
<1>22. ASSUME NEW t \in live, TaskStops(t)
       PROVE  TypeOK'
  BY <1>22 DEF TaskStops, TypeOK, StoreTypeOK, storeVars, localVars
<1>23. CASE UNCHANGED vars
  BY <1>23 DEF vars, TypeOK, StoreTypeOK, storeVars, envVars, localVars
<1>24. QED
  BY <1>1, <1>2, <1>3, <1>4, <1>5, <1>6, <1>7, <1>8, <1>9, <1>10, <1>11, <1>12,
     <1>13, <1>14, <1>15, <1>16, <1>17, <1>18, <1>19, <1>20, <1>21, <1>22, <1>23
     DEF Next, Invocation

-----------------------------------------------------------------------------
(* The rows                                                                *)

(* What one row, ECS and the results queue say of a run stays consistent.  *)
LEMMA RowStep ==
  ASSUME IInv, [Next]_vars, NEW q \in Run
  PROVE  RowInv(q)'
<1> USE DEF RowInv, Untouched, HasLiveTask, None
<1>0. /\ TypeOK /\ CurInv /\ RowInv(q)
      /\ \A r \in Run : RowInv(r)
      /\ jobs \in [Run -> Job]
      /\ launches \subseteq Run \X Nat
      /\ live \subseteq launches
  BY DEF IInv, TypeOK, StoreTypeOK
<1>1. CASE BeginTick
  BY <1>0, <1>1 DEF BeginTick, storeVars, envVars
<1>2. CASE EndSweep
  BY <1>0, <1>2 DEF EndSweep, storeVars, envVars
<1>3. ASSUME NEW r \in Run, SweepCheck(r)
      PROVE  RowInv(q)'
  BY <1>0, <1>3 DEF SweepCheck, storeVars, envVars
<1>4. CASE SweepReconcile
  BY <1>0, <1>4 DEF SweepReconcile, envVars, MaybeUpdate, SetTerminal, ItemWith, CurInv
<1>5. CASE SweepNotify
  BY <1>0, <1>5 DEF SweepNotify, storeVars, Send, MaybeSend, CurInv
<1>6. CASE SweepFail
  BY <1>0, <1>6 DEF SweepFail, envVars, Update, MaybeUpdate, SetTerminal, ItemWith, CurInv
<1>7. CASE Count
  BY <1>0, <1>7 DEF Count, storeVars, envVars
<1>8. CASE Query
  BY <1>0, <1>8 DEF Query, storeVars, envVars
<1>9. CASE EndTick
  BY <1>0, <1>9 DEF EndTick, storeVars, envVars
<1>10. ASSUME NEW r \in Run, Claim(r)
       PROVE  RowInv(q)'
  BY <1>0, <1>10 DEF Claim, envVars, Update, MaybeUpdate, Claimed, ItemWith, Claimable
<1>11. CASE Mint
  BY <1>0, <1>11 DEF Mint, storeVars
<1>12. CASE RunTask
  BY <1>0, <1>12 DEF RunTask, storeVars, StartTask, CurInv
<1>13. CASE MarkDispatched
  BY <1>0, <1>13 DEF MarkDispatched, envVars, Update, MaybeUpdate, SetTerminal, ItemWith, CurInv
<1>14. CASE NotifyStarted
  BY <1>0, <1>14 DEF NotifyStarted, storeVars, MaybeSend, CurInv
<1>15. CASE NotifyFailed
  BY <1>0, <1>15 DEF NotifyFailed, storeVars, Send, MaybeSend, CurInv
<1>16. CASE MarkFailed
  BY <1>0, <1>16 DEF MarkFailed, envVars, MaybeUpdate, SetTerminal, ItemWith, CurInv
<1>17. CASE Kill
  BY <1>0, <1>17 DEF Kill, storeVars, envVars
<1>18. CASE Table /\ UNCHANGED <<envVars, localVars>>
  <2>1. ASSUME NEW r \in Run, IndexCatchUp(r)
        PROVE  RowInv(q)'
    BY <1>0, <1>18, <2>1 DEF IndexCatchUp, envVars
  <2>2. ASSUME NEW r \in Run, BecomeStuck(r)
        PROVE  RowInv(q)'
    BY <1>0, <1>18, <2>2 DEF BecomeStuck, ItemWith, envVars
  <2>3. CASE ClockTick
    BY <1>0, <1>18, <2>3 DEF ClockTick, envVars
  <2>4. QED
    BY <1>18, <2>1, <2>2, <2>3 DEF Table
<1>19. ASSUME NEW r \in Run, RowExpires(r)
       PROVE  RowInv(q)'
  BY <1>0, <1>19 DEF RowExpires, Expire, NoJob, envVars
<1>20. ASSUME NEW r \in Run, TicketEnds(r)
       PROVE  RowInv(q)'
  BY <1>0, <1>20 DEF TicketEnds, storeVars
<1>21. ASSUME NEW r \in Run, NEW p \in Priority, Ingest(r, p)
       PROVE  RowInv(q)'
  BY <1>0, <1>21 DEF Ingest, PutQueuedJob
<1>22. ASSUME NEW t \in live, TaskStops(t)
       PROVE  RowInv(q)'
  BY <1>0, <1>22 DEF TaskStops, storeVars
<1>23. CASE UNCHANGED vars
  BY <1>0, <1>23 DEF vars, storeVars, envVars
<1>24. QED
  BY <1>1, <1>2, <1>3, <1>4, <1>5, <1>6, <1>7, <1>8, <1>9, <1>10, <1>11, <1>12,
     <1>13, <1>14, <1>15, <1>16, <1>17, <1>18, <1>19, <1>20, <1>21, <1>22, <1>23
     DEF Next, Invocation

-----------------------------------------------------------------------------
(* The invocation                                                          *)

(* What the invocation knows of its current row survives every step, its   *)
(* own and those of its surroundings.                                      *)
LEMMA CurStep == IInv /\ [Next]_vars => CurInv'
<1> SUFFICES ASSUME IInv, [Next]_vars
             PROVE  CurInv'
  OBVIOUS
<1> USE RunAssumption DEF CurInv, HasLiveTask, SweepLabels, Goto, None
<1>0. /\ TypeOK /\ CurInv
      /\ \A r \in Run : RowInv(r)
      /\ jobs \in [Run -> Job]
      /\ launches \subseteq Run \X Nat
      /\ live \subseteq launches
      /\ todo \subseteq Run
  BY DEF IInv, TypeOK, StoreTypeOK
<1>1. CASE BeginTick
  BY <1>0, <1>1 DEF BeginTick, StuckLaunching, storeVars, envVars
<1>2. CASE EndSweep
  BY <1>0, <1>2 DEF EndSweep, storeVars, envVars
<1>3. ASSUME NEW r \in Run, SweepCheck(r)
      PROVE  CurInv'
  BY <1>0, <1>3 DEF SweepCheck, storeVars, envVars
<1>4. CASE SweepReconcile
  BY <1>0, <1>4 DEF SweepReconcile, envVars, MaybeUpdate, SetTerminal, ItemWith
<1>5. CASE SweepNotify
  BY <1>0, <1>5 DEF SweepNotify, storeVars, Send, MaybeSend
<1>6. CASE SweepFail
  BY <1>0, <1>6 DEF SweepFail, envVars, Update, MaybeUpdate, SetTerminal, ItemWith
<1>7. CASE Count
  BY <1>0, <1>7 DEF Count, storeVars, envVars, Return
<1>8. CASE Query
  BY <1>0, <1>8 DEF Query, storeVars, envVars, Return
<1>9. CASE EndTick
  BY <1>0, <1>9 DEF EndTick, storeVars, envVars, Return
<1>10. ASSUME NEW r \in Run, Claim(r)
       PROVE  CurInv'
  <2>1. /\ cur' = r /\ pc' \in {"mint", "launch"}
        /\ launches' = launches /\ live' = live /\ sent' = sent
    BY <1>10 DEF Claim, envVars
  <2>2. CASE pc' = "mint"
    <3>1. jobs[r].status = QUEUED /\ jobs' = Claimed(r)
      BY <1>10, <2>2 DEF Claim, Update, Claimable
    <3>2. jobs'[r].status = LAUNCHING
      BY <1>0, <3>1 DEF Claimed, ItemWith
    <3>3. (\A t \in launches : t[1] # r) /\ <<r, "failed">> \notin sent
      BY <1>0, <3>1 DEF RowInv, Untouched
    <3>4. QED
      BY <2>1, <2>2, <3>2, <3>3
  <2>3. QED
    BY <2>1, <2>2
<1>11. CASE Mint
  BY <1>0, <1>11 DEF Mint, storeVars
<1>12. CASE RunTask
  BY <1>0, <1>12 DEF RunTask, storeVars, StartTask
<1>13. CASE MarkDispatched
  BY <1>0, <1>13 DEF MarkDispatched, envVars, Update, MaybeUpdate, SetTerminal, ItemWith
<1>14. CASE NotifyStarted
  BY <1>0, <1>14 DEF NotifyStarted, storeVars, MaybeSend
<1>15. CASE NotifyFailed
  BY <1>0, <1>15 DEF NotifyFailed, storeVars, Send, MaybeSend
<1>16. CASE MarkFailed
  BY <1>0, <1>16 DEF MarkFailed, envVars, MaybeUpdate, SetTerminal, ItemWith
<1>17. CASE Kill
  BY <1>0, <1>17 DEF Kill, storeVars, envVars, Return
<1>18. CASE Table /\ UNCHANGED <<envVars, localVars>>
  <2>1. ASSUME NEW r \in Run, IndexCatchUp(r)
        PROVE  CurInv'
    BY <1>0, <1>18, <2>1 DEF IndexCatchUp, envVars, localVars
  <2>2. ASSUME NEW r \in Run, BecomeStuck(r)
        PROVE  CurInv'
    BY <1>0, <1>18, <2>2 DEF BecomeStuck, ItemWith, envVars, localVars
  <2>3. CASE ClockTick
    BY <1>0, <1>18, <2>3 DEF ClockTick, envVars, localVars
  <2>4. QED
    BY <1>18, <2>1, <2>2, <2>3 DEF Table
<1>19. ASSUME NEW r \in Run, RowExpires(r)
       PROVE  CurInv'
  BY <1>0, <1>19 DEF RowExpires, Expire, NoJob, envVars, localVars
<1>20. ASSUME NEW r \in Run, TicketEnds(r)
       PROVE  CurInv'
  BY <1>0, <1>20 DEF TicketEnds, storeVars, localVars
<1>21. ASSUME NEW r \in Run, NEW p \in Priority, Ingest(r, p)
       PROVE  CurInv'
  BY <1>0, <1>21 DEF Ingest, PutQueuedJob, localVars
<1>22. ASSUME NEW t \in live, TaskStops(t)
       PROVE  CurInv'
  BY <1>0, <1>22 DEF TaskStops, storeVars, localVars
<1>23. CASE UNCHANGED vars
  BY <1>0, <1>23 DEF vars, storeVars, envVars, localVars
<1>24. QED
  BY <1>1, <1>2, <1>3, <1>4, <1>5, <1>6, <1>7, <1>8, <1>9, <1>10, <1>11, <1>12,
     <1>13, <1>14, <1>15, <1>16, <1>17, <1>18, <1>19, <1>20, <1>21, <1>22, <1>23
     DEF Next, Invocation

(* Only RunTask adds a task, and it stamps it with the attempts of a row   *)
(* that has been claimed once.                                             *)
LEMMA AttemptStep == IInv /\ [Next]_vars => AttemptInv'
<1> SUFFICES ASSUME IInv, [Next]_vars
             PROVE  AttemptInv'
  OBVIOUS
<1>1. launches' = launches \/ RunTask
  BY DEF Next, Invocation, BeginTick, EndSweep, SweepCheck, SweepReconcile, SweepNotify,
     SweepFail, Count, Query, EndTick, Claim, Mint, MarkDispatched, NotifyStarted,
     NotifyFailed, MarkFailed, Kill, Table, RowExpires, TicketEnds, Ingest, TaskStops,
     envVars, vars
<1>2. CASE launches' = launches
  BY <1>2 DEF IInv, AttemptInv
<1>3. CASE RunTask
  <2>1. cur \in Run /\ jobs[cur].status = LAUNCHING
    BY <1>3 DEF RunTask, IInv, CurInv
  <2>2. jobs[cur].attempts = 1
    BY <2>1 DEF IInv, RowInv
  <2>3. launches' \in {launches, launches \cup {<<cur, 1>>}}
    BY <1>3, <2>2 DEF RunTask, StartTask
  <2>4. QED
    BY <2>3 DEF IInv, AttemptInv
<1>4. QED
  BY <1>1, <1>2, <1>3

-----------------------------------------------------------------------------
(* The cap                                                                 *)

(* Subsets of Run are finite, and taking an element out of one makes it    *)
(* smaller by one.                                                         *)
LEMMA RunSubset ==
  ASSUME NEW S, S \subseteq Run
  PROVE  /\ IsFiniteSet(S) /\ Cardinality(S) \in Nat
         /\ \A r \in S : Cardinality(S \ {r}) = Cardinality(S) - 1
<1>1. IsFiniteSet(S)
  BY RunAssumption, FS_Subset
<1>2. QED
  BY <1>1, FS_CardinalityType, FS_RemoveElement

(* The tasks fit the cap after a step that starts none.                    *)
LEMMA FewerTasks ==
  ASSUME CapInv, live' \subseteq live
  PROVE  /\ IsFiniteSet(live') /\ IsFiniteSet(live)
         /\ Cardinality(live) \in Nat /\ Cardinality(live') \in Nat
         /\ Cardinality(live') <= Cardinality(live)
         /\ Cardinality(live') <= LargestCap
<1>1. IsFiniteSet(live) /\ Cardinality(live) <= LargestCap
  BY DEF CapInv
<1>2. IsFiniteSet(live') /\ Cardinality(live') <= Cardinality(live)
  BY <1>1, FS_Subset
<1>3. Cardinality(live) \in Nat /\ Cardinality(live') \in Nat
  BY <1>1, <1>2, FS_CardinalityType
<1>4. LargestCap \in Int
  BY CapAssumption DEF LargestCap
<1>5. QED
  BY <1>1, <1>2, <1>3, <1>4

(* The batch a query returns fits the free slots, every job tried leaves   *)
(* it, and a task started was counted while it was being launched.         *)
LEMMA CapStep == IInv /\ [Next]_vars => CapInv'
<1> SUFFICES ASSUME IInv, [Next]_vars
             PROVE  CapInv'
  OBVIOUS
<1> DEFINE LC == LargestCap
<1>0. /\ TypeOK /\ CapInv /\ CurInv
      /\ todo \subseteq Run /\ index \subseteq Run
      /\ slots \in Int /\ LC \in Int
  BY CapAssumption DEF IInv, TypeOK, StoreTypeOK, LargestCap
<1>1. CASE /\ live' \subseteq live
           /\ pc' # "query"
           /\ pc' \notin LaunchLabels
  BY <1>0, <1>1, FewerTasks DEF CapInv
<1>2. CASE /\ live' \subseteq live
           /\ pc \in LaunchLabels /\ pc' \in LaunchLabels
           /\ todo' = todo /\ InFlight' <= InFlight
  BY <1>0, <1>2, FewerTasks, RunSubset DEF CapInv, LaunchLabels, InFlight
<1>3. CASE /\ live' \subseteq live
           /\ pc = "query" /\ pc' = "query" /\ slots' = slots
  BY <1>0, <1>3, FewerTasks DEF CapInv, LaunchLabels
<1>4. CASE Count
  <2>1. live' = live
    BY <1>4 DEF Count, envVars
  <2>2. CASE pc' = "query"
    <3>1. PICK c \in {ConfiguredCap, FallbackCap} :
            c > 0 /\ c > Cardinality(live) /\ slots' = c - Cardinality(live)
      BY <1>4, <2>2 DEF Count, Return
    <3>2. c <= LC /\ c \in Int
      BY <3>1, CapAssumption DEF LargestCap
    <3>3. QED
      BY <1>0, <2>1, <2>2, <3>1, <3>2, FewerTasks DEF CapInv, LaunchLabels
  <2>3. QED
    BY <1>1, <1>4, <2>1, <2>2 DEF Count, Return, Goto, LaunchLabels
<1>5. CASE Query
  <2>1. live' = live
    BY <1>5 DEF Query, envVars
  <2>2. CASE pc' = "launch"
    <3>1. todo' \subseteq Run /\ Cardinality(todo') <= slots
      BY <1>0, <1>5, <2>2 DEF Query, IsQueryResult, Return
    <3>2. slots + Cardinality(live) <= LC
      BY <1>0, <1>5 DEF Query, CapInv
    <3>3. Cardinality(live) + Cardinality(todo') <= LC
      BY <1>0, <2>1, <3>1, <3>2, FewerTasks, RunSubset
    <3>4. QED
      BY <1>0, <2>1, <2>2, <3>1, <3>3, FewerTasks, RunSubset
         DEF CapInv, InFlight
  <2>3. QED
    BY <1>1, <1>5, <2>1, <2>2 DEF Query, Return, Goto, LaunchLabels
<1>6. ASSUME NEW r \in Run, Claim(r)
      PROVE  CapInv'
  <2>1. /\ live' = live /\ pc = "launch" /\ pc' \in {"mint", "launch"}
        /\ r \in todo /\ todo' = todo \ {r}
    BY <1>6 DEF Claim, Goto, envVars
  <2>2. Cardinality(todo') = Cardinality(todo) - 1 /\ Cardinality(todo) \in Nat
    BY <1>0, <2>1, RunSubset
  <2>3. Cardinality(live) + Cardinality(todo) <= LC
    BY <1>0, <2>1, FewerTasks, RunSubset DEF CapInv, LaunchLabels, InFlight
  <2>4. QED
    BY <1>0, <2>1, <2>2, <2>3, FewerTasks DEF CapInv, LaunchLabels, InFlight
<1>7. CASE RunTask
  <2>1. /\ pc = "run_task" /\ pc' \in {"mark", "notify_failed", "launch"}
        /\ todo' = todo
    BY <1>7 DEF RunTask, Goto
  <2>2. CASE live' = live
    BY <1>2, <2>1, <2>2 DEF LaunchLabels, InFlight
  <2>3. CASE live' = live \cup {<<cur, jobs[cur].attempts>>}
    <3>1. /\ IsFiniteSet(live')
          /\ Cardinality(live') <= Cardinality(live) + 1
      <4> DEFINE t == <<cur, jobs[cur].attempts>>
      <4>1. IsFiniteSet(live) /\ Cardinality(live) \in Nat
        BY <1>0, FS_CardinalityType DEF CapInv
      <4>2. /\ IsFiniteSet(live \cup {t})
            /\ \/ Cardinality(live \cup {t}) = Cardinality(live)
               \/ Cardinality(live \cup {t}) = Cardinality(live) + 1
        BY <4>1, FS_AddElement
      <4>3. QED
        BY <2>3, <4>1, <4>2
    <3>2. Cardinality(live) + Cardinality(todo) + 1 <= LC
      BY <1>0, <2>1 DEF CapInv, LaunchLabels, InFlight
    <3>3. /\ Cardinality(live) \in Nat /\ Cardinality(live') \in Nat
          /\ Cardinality(todo) \in Nat
      BY <1>0, <3>1, FS_CardinalityType, RunSubset DEF CapInv
    <3>4. QED
      BY <1>0, <2>1, <3>1, <3>2, <3>3 DEF CapInv, LaunchLabels, InFlight
  <2>4. QED
    BY <1>7, <2>2, <2>3 DEF RunTask, StartTask
<1>8. CASE BeginTick \/ EndSweep \/ (\E r \in Run : SweepCheck(r)) \/ SweepReconcile
           \/ SweepNotify \/ SweepFail \/ EndTick \/ Kill
  BY <1>1, <1>8 DEF BeginTick, EndSweep, SweepCheck, SweepReconcile, SweepNotify,
       SweepFail, EndTick, Kill, Return, Goto, envVars, LaunchLabels
<1>9. CASE Mint \/ MarkDispatched \/ NotifyStarted \/ NotifyFailed \/ MarkFailed
  BY <1>2, <1>9 DEF Mint, MarkDispatched, NotifyStarted, NotifyFailed, MarkFailed,
       Goto, envVars, LaunchLabels, InFlight
<1>10. CASE live' \subseteq live /\ UNCHANGED localVars
  BY <1>1, <1>2, <1>3, <1>10 DEF localVars, InFlight
<1>11. ASSUME NEW t \in live, TaskStops(t)
       PROVE  CapInv'
  BY <1>10, <1>11 DEF TaskStops
<1>12. CASE \/ Table /\ UNCHANGED <<envVars, localVars>>
            \/ \E r \in Run : RowExpires(r) \/ TicketEnds(r)
            \/ \E r \in Run, p \in Priority : Ingest(r, p)
            \/ UNCHANGED vars
  BY <1>10, <1>12 DEF RowExpires, TicketEnds, Ingest, vars, envVars
<1>13. QED
  BY <1>4, <1>5, <1>6, <1>7, <1>8, <1>9, <1>11, <1>12 DEF Next, Invocation

-----------------------------------------------------------------------------
(* The theorems                                                            *)

(* IInv is inductive.                                                      *)
THEOREM Inductive == Spec => []IInv
<1>1. Init => IInv
  <2> SUFFICES ASSUME Init
               PROVE  IInv
    OBVIOUS
  <2>1. TypeOK
    BY DEF Init, StoreInit, TypeOK, StoreTypeOK, Job, NoJob, Priority, Labels
  <2>2. \A r \in Run : RowInv(r)
    BY DEF Init, StoreInit, NoJob, RowInv, Untouched, HasLiveTask
  <2>3. CurInv /\ AttemptInv
    BY DEF Init, CurInv, AttemptInv, SweepLabels
  <2>4. CapInv
    BY CapAssumption, FS_EmptySet DEF Init, CapInv, LaunchLabels, LargestCap
  <2>5. QED
    BY <2>1, <2>2, <2>3, <2>4 DEF IInv
<1>2. IInv /\ [Next]_vars => IInv'
  <2> SUFFICES ASSUME IInv, [Next]_vars
               PROVE  IInv'
    OBVIOUS
  <2>1. \A r \in Run : RowInv(r)'
    BY RowStep
  <2>2. QED
    BY <2>1, TypeStep, CurStep, AttemptStep, CapStep DEF IInv
<1>3. QED
  BY <1>1, <1>2, PTL DEF Spec

(* Every variable keeps its type.                                          *)
THEOREM TypeCorrect == Spec => []TypeOK
<1>1. IInv => TypeOK
  BY DEF IInv
<1>2. QED
  BY <1>1, Inductive, PTL

(* For every number of runs, a run whose dispatch message is redelivered,  *)
(* whose index entry is stale or whose launcher dies gets at most one task *)
THEOREM LaunchedOnce == Spec => []SingleLaunch
<1>1. IInv => SingleLaunch
  <2> SUFFICES ASSUME IInv, NEW t \in launches, NEW u \in launches, t[1] = u[1]
               PROVE  t = u
    BY DEF SingleLaunch
  <2>1. t[2] = 1 /\ u[2] = 1
    BY DEF IInv, AttemptInv
  <2>2. t \in Run \X Nat /\ u \in Run \X Nat
    BY DEF IInv, TypeOK
  <2>3. QED
    BY <2>1, <2>2
<1>2. QED
  BY <1>1, Inductive, PTL

(* No run the scheduler reported as failed has a running task.             *)
THEOREM FailedIsNotRunning == Spec => []FailedNeverLive
<1>1. IInv => FailedNeverLive
  BY DEF IInv, RowInv, FailedNeverLive
<1>2. QED
  BY <1>1, Inductive, PTL

(* A row is FAILED only after gp-api was told.                             *)
THEOREM FailedIsNotified == Spec => []NotifiedBeforeFailed
<1>1. IInv => NotifiedBeforeFailed
  BY DEF IInv, RowInv, NotifiedBeforeFailed
<1>2. QED
  BY <1>1, Inductive, PTL

(* The scheduler never sends both started and failed for a run.            *)
THEOREM NeverBothVerdicts == Spec => []OneVerdict
<1>1. IInv => OneVerdict
  BY DEF IInv, RowInv, OneVerdict
<1>2. QED
  BY <1>1, Inductive, PTL

(* The running tasks never exceed the larger of the two caps, for every    *)
(* cap and every number of waiting jobs.                                   *)
THEOREM CapHolds == Spec => []CapRespected
<1>1. IInv => CapRespected
  BY DEF IInv, CapInv, CapRespected
<1>2. QED
  BY <1>1, Inductive, PTL

(* What the index key orders is what the two tiers ask for.                *)
LEMMA KeyOrder ==
  ASSUME TypeOK, NEW r \in Run, NEW s \in Run, SortsBefore(r, s)
  PROVE  ~Ahead(s, r)
<1>1. /\ jobs[r].priority \in Priority /\ jobs[s].priority \in Priority
      /\ jobs[r].created \in Nat /\ jobs[s].created \in Nat
  BY DEF TypeOK, StoreTypeOK, Job
<1>2. QED
  BY <1>1 DEF SortsBefore, Ahead, PriorityRank, Priority

(* Only claim moves a row from QUEUED to LAUNCHING.                        *)
LEMMA OnlyClaims ==
  ASSUME TypeOK, [Next]_vars, NEW r \in Run,
         jobs[r].status = QUEUED, jobs'[r].status = LAUNCHING
  PROVE  Claim(r)
<1>0. jobs \in [Run -> Job]
  BY DEF TypeOK, StoreTypeOK
<1>1. ASSUME NEW q \in Run, Claim(q) PROVE Claim(r)
  <2>1. q # r => jobs'[r] = jobs[r]
    BY <1>0, <1>1 DEF Claim, Update, MaybeUpdate, Claimed, ItemWith
  <2>2. QED
    BY <1>1, <2>1
<1>2. ASSUME NEW q \in Run, BecomeStuck(q) PROVE FALSE
  BY <1>0, <1>2 DEF BecomeStuck, ItemWith
<1>3. ASSUME NEW q \in Run, Expire(q) PROVE FALSE
  BY <1>0, <1>3 DEF Expire, NoJob
<1>4. ASSUME NEW q \in Run, NEW p \in Priority, PutQueuedJob(q, p) PROVE FALSE
  BY <1>0, <1>4 DEF PutQueuedJob
<1>5. ASSUME NEW s \in {DISPATCHED, FAILED}, jobs' \in {jobs, SetTerminal(cur, s)}
      PROVE  FALSE
  BY <1>0, <1>5 DEF SetTerminal, ItemWith
<1>6. jobs' # jobs
  OBVIOUS
<1>7. ~SweepReconcile /\ ~SweepFail /\ ~MarkDispatched /\ ~MarkFailed
  BY <1>5 DEF SweepReconcile, SweepFail, MarkDispatched, MarkFailed, Update, MaybeUpdate
<1>8. /\ ~BeginTick /\ ~EndSweep /\ (\A q \in Run : ~SweepCheck(q)) /\ ~SweepNotify
      /\ ~Count /\ ~Query /\ ~EndTick /\ ~Mint /\ ~RunTask /\ ~NotifyStarted
      /\ ~NotifyFailed /\ ~Kill
  BY <1>6 DEF BeginTick, EndSweep, SweepCheck, SweepNotify, Count, Query, EndTick,
       Mint, RunTask, NotifyStarted, NotifyFailed, Kill, storeVars
<1>9. ~Table
  BY <1>2, <1>6 DEF Table, IndexCatchUp, ClockTick
<1>10. /\ \A q \in Run : ~RowExpires(q) /\ ~TicketEnds(q)
       /\ \A q \in Run, p \in Priority : ~Ingest(q, p)
       /\ \A t \in live : ~TaskStops(t)
       /\ ~UNCHANGED vars
  BY <1>3, <1>4, <1>6 DEF RowExpires, TicketEnds, Ingest, TaskStops, vars, storeVars
<1>11. QED
  BY <1>1, <1>7, <1>8, <1>9, <1>10 DEF Next, Invocation

(* HIGH before DEFAULT and oldest first within a tier, for every number of *)
(* jobs, stale index and order of the claims: the batch leaves no job      *)
(* behind that is ahead of one it holds, and a claim none in the batch.    *)
THEOREM PriorityKept == Spec => PriorityOrder
<1> DEFINE Ordered ==
      /\ pc = "query" /\ pc' = "launch" =>
           \A r \in todo', s \in index \ todo' : ~Ahead(s, r)
      /\ \A r \in todo : jobs[r].status = QUEUED /\ jobs'[r].status = LAUNCHING =>
           \A s \in todo' : ~Ahead(s, r)
<1>1. TypeOK /\ [Next]_vars => [Ordered]_vars
  <2> SUFFICES ASSUME TypeOK, [Next]_vars PROVE Ordered
    OBVIOUS
  <2>0. index \subseteq Run /\ todo \subseteq Run
    BY DEF TypeOK, StoreTypeOK
  <2>1. ASSUME pc = "query", pc' = "launch",
               NEW r \in todo', NEW s \in index \ todo'
        PROVE  ~Ahead(s, r)
    <3>1. Query
      BY <2>1 DEF Next, Invocation, vars, localVars, BeginTick, EndSweep, SweepCheck,
           SweepReconcile, SweepNotify, SweepFail, Count, EndTick, Claim, Mint,
           RunTask, MarkDispatched, NotifyStarted, NotifyFailed, MarkFailed, Kill,
           Return, Table, RowExpires, TicketEnds, Ingest, TaskStops
    <3>2. todo' \subseteq index /\ IsQueryResult(todo', slots)
      BY <2>1, <3>1 DEF Query, Return
    <3>3. SortsBefore(r, s)
      BY <2>1, <3>2 DEF IsQueryResult
    <3>4. QED
      BY <2>0, <2>1, <3>2, <3>3, KeyOrder
  <2>2. ASSUME NEW r \in todo, jobs[r].status = QUEUED, jobs'[r].status = LAUNCHING,
               NEW s \in todo'
        PROVE  ~Ahead(s, r)
    <3>1. Claim(r)
      BY <2>0, <2>2, OnlyClaims
    <3>2. s \in todo \ {r} /\ SortsBefore(r, s)
      BY <2>2, <3>1 DEF Claim
    <3>3. QED
      BY <2>0, <3>2, KeyOrder
  <2>3. QED
    BY <2>1, <2>2
<1>2. QED
  BY <1>1, TypeCorrect, PTL DEF Spec, PriorityOrder
=============================================================================
