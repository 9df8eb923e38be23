----------------------- MODULE TaskSupervisionProofs -----------------------
(* The promises of the task supervisor for any number of tasks, of slots,   *)
(* of request threads, and of deaths, timeouts, faults, crashes and requests: *)
(* a settled outcome stays, a cancel request lasts until its task has one,  *)
(* a cascade is closed over a dead tree only, and a slot that is being      *)
(* reaped has one owner.                                                    *)
EXTENDS TaskSupervision, FiniteSetTheorems, TLAPS

USE TreeAssumption

\* the tasks that have a result row: everything the supervisor holds is one
Known == {t \in Tasks : result[t] # "none"}

LEMMA KnownAreTasks ==
    Known \subseteq Tasks /\ \A t \in Tasks : t \in Known <=> result[t] # "none"
BY DEF Known

IntentType == [state: {"none", "requested", "claimed"}, req: Nat, gen: Nat,
               scope: {"single", "cascade"}, pid: Nat]
SlotType   == [busy: Known \cup {NoTask}, reaping: BOOLEAN,
               proc: {"idle", "working", "finishing", "dead"},
               job: Known \cup {NoTask}, inq: Seq(Known), inc: Nat]
EventType  == [kind: {"done", "schedule"}, task: Known, slot: Slots \cup {NoSlot}]
JobPcs     == {"idle", "kill", "check", "write", "retry", "respawn"}
JobType    == [pc: JobPcs, task: Known \cup {NoTask}, slot: Slots \cup {NoSlot},
               inc: Nat, retry: BOOLEAN]
Job(j)     == j \in JobType /\ j.task \in Known /\ j.slot \in Slots
Waiting    == {j \in JobType : Job(j) /\ j.pc = "kill"}
ClaimType  == [req: Nat, gen: Nat]
Thens      == {"end", "emit", "publish"}
CustodyType == [pc: CustodyPcs, task: Known \cup {NoTask}, claim: ClaimType, took: BOOLEAN,
                deliver: BOOLEAN, slot: Slots \cup {NoSlot}, inc: Nat, settled: BOOLEAN,
                then: Thens]
CascadePcs == {"idle", "begin", "sweep", "mint", "tasks", "post", "summary", "close"}
CascadeType == [pc: CascadePcs, root: Known \cup {NoTask}, mint: SUBSET Known,
                todo: SUBSET Known, done: SUBSET Tasks, failed: SUBSET Tasks, sweeps: Nat]
UsedType   == [requests: Nat, mints: Nat, deaths: Nat, timeouts: Nat, faults: Nat,
               crashes: Nat, replays: Nat, struck: SUBSET Slots, stranded: SUBSET Tasks,
               unread: SUBSET Tasks, adrift: SUBSET Tasks]

\* a custody with a task, with a slot to give back, or of the crash detector
CustodyShape(c, k) ==
    /\ c.pc \notin {"idle", "respawn"} => c.task \in Known
    /\ c.pc = "idle" => c.task = NoTask
    /\ c.pc \in {"kill", "write", "publish", "respawn"} \/ c.then = "publish" => c.slot \in Slots
    /\ c.pc # "idle" /\ c.task = NoTask => k.pc = "idle"

ResultTypes == result \in [Tasks -> Statuses] /\ child \in [Tasks -> Statuses]
IntentTypes ==
    /\ intent \in [Tasks -> IntentType] /\ used \in UsedType /\ pid \in Nat
    /\ \A t \in Tasks : intent[t].req <= used.mints /\ intent[t].pid <= pid
Lineage ==
    \A t \in Known : Root[t] \in Known /\ (Parent[t] # NoTask => Parent[t] \in Known)
QueueTypes ==
    /\ owed \subseteq Tasks /\ snapshot \subseteq Known /\ pending \subseteq Known
    /\ fences \subseteq Tasks
    /\ running \in [Tasks -> Slots \cup {NoSlot}] /\ attempt \in [Tasks -> {1, 2}]
    /\ \A t \in Tasks : running[t] # NoSlot => t \in Known
SlotTypes ==
    /\ slots \in [Slots -> SlotType]
    /\ \A w \in Slots : slots[w].proc \in {"working", "finishing"} => slots[w].job \in Known
EventTypes == events \in Seq(EventType)
ReapTypes ==
    /\ jobs \in Seq(Waiting)
    /\ reaper \in JobType /\ (reaper.pc # "idle" => Job(reaper))
    /\ reaper.pc = "retry" => Retry[reaper.task] \in Known
ThreadTypes ==
    /\ custody \in [Threads -> CustodyType] /\ cascade \in [Threads -> CascadeType]
    /\ \A th \in Threads : CustodyShape(custody[th], cascade[th])
    /\ \A th \in Threads : cascade[th].pc # "idle" => cascade[th].root \in Known

TaskTypes ==
    /\ ResultTypes /\ IntentTypes /\ QueueTypes /\ SlotTypes /\ EventTypes /\ ReapTypes
    /\ ThreadTypes

---------------------------------------------------------------------------
(* What a step may do to a task's result: only a scheduled child and the new *)
(* id of a retry get their first one.                                       *)
Newcomer(t) ==
    \/ \E w \in Slots : ScheduleChild(w, t) /\ Parent[t] = slots[w].job /\ slots[w].job \in Known
    \/ ReapWrite /\ reaper.pc = "write" /\ reaper.task \in Known /\ t = Retry[reaper.task]
Kept(r) ==
    /\ r \in [Tasks -> Statuses]
    /\ \A t \in Tasks : /\ IsSettled(t) => r[t] = result[t]
                        /\ result[t] # "none" => r[t] # "none"
                        /\ r[t] # result[t] => t \in Known \/ Newcomer(t)

\* The monotonic write keeps what has settled.
LEMMA WrittenKeeps ==
    ASSUME NEW old \in Statuses, NEW new \in Statuses \ {"none"}
    PROVE  /\ Written(old, new) \in Statuses \ {"none"}
           /\ old \in Settled => Written(old, new) = old
           /\ new \in Settled => Written(old, new) \in Settled
BY DEF Written, Statuses, Settled

\* Changing one result by such a write.
LEMMA KeptOne ==
    ASSUME ResultTypes, NEW t \in Tasks, NEW s \in Statuses, t \in Known \/ Newcomer(t),
           IsSettled(t) => s = result[t], result[t] # "none" => s # "none"
    PROVE  Kept([result EXCEPT ![t] = s])
BY DEF Kept, ResultTypes

LEMMA KeptWrite ==
    ASSUME ResultTypes, NEW t \in Known, NEW s \in Statuses \ {"none"}
    PROVE  Kept([result EXCEPT ![t] = Written(@, s)])
<1>1. t \in Tasks /\ result[t] \in Statuses
  BY DEF ResultTypes, Known
<1>2. Written(result[t], s) \in Statuses /\ Written(result[t], s) # "none"
      /\ (IsSettled(t) => Written(result[t], s) = result[t])
  BY <1>1, WrittenKeeps DEF IsSettled
<1>3. Kept([result EXCEPT ![t] = Written(result[t], s)])
  BY <1>1, <1>2, KeptOne
<1> QED
  BY <1>3

LEMMA CopiedKeeps ==
    ASSUME ResultTypes, NEW t \in Tasks
    PROVE  /\ CopiedBack(t) \in Statuses
           /\ IsSettled(t) => CopiedBack(t) = result[t]
           /\ result[t] # "none" => CopiedBack(t) # "none"
           /\ t \in Subagents /\ child[t] \in Settled => CopiedBack(t) \in Settled
<1>1. result[t] \in Statuses /\ child[t] \in Statuses
  BY DEF ResultTypes
<1>2. child[t] \in Settled => child[t] # "none"
  BY DEF Settled
<1> QED
  BY <1>1, <1>2, WrittenKeeps DEF CopiedBack, IsSettled

LEMMA KeptAgain ==
    ASSUME ResultTypes PROVE Kept(result)
BY DEF Kept, ResultTypes

\* The event the loop handles next.
LEMMA HeadEvent ==
    ASSUME EventTypes, events # <<>>
    PROVE  /\ Head(events) \in EventType /\ Head(events).task \in Known
           /\ Head(events).slot \in Slots \cup {NoSlot}
           /\ Tail(events) \in Seq(EventType)
<1>1. Head(events) \in EventType /\ Tail(events) \in Seq(EventType)
  BY DEF EventTypes
<1> QED
  BY <1>1 DEF EventType

---------------------------------------------------------------------------
\* The workers' results.
LEMMA WorkerResults ==
    ASSUME TaskTypes, NEW w \in Slots, WorkerStep(w) \/ \E t \in Tasks : ScheduleChild(w, t)
    PROVE  Kept(result') /\ child' \in [Tasks -> Statuses]
<1> USE DEF TaskTypes, ResultTypes
<1>1. CASE StartTask(w)
  <2> DEFINE t == Head(slots[w].inq)
  <2>1. t \in Known
    BY <1>1 DEF StartTask, SlotTypes, SlotType
  <2>2. "running" \in Statuses \ {"none"}
    BY DEF Statuses
  <2>3. Written(child[t], "running") \in Statuses
    BY <2>1, <2>2, WrittenKeeps, KnownAreTasks
  <2>4. result' = [result EXCEPT ![t] = Written(@, "running")] \/ result' = result
    BY <1>1 DEF StartTask
  <2>5. child' = [child EXCEPT ![t] = Written(child[t], "running")] \/ child' = child
    BY <1>1, <2>1 DEF StartTask
  <2> HIDE DEF t
  <2> QED
    BY <2>1, <2>2, <2>3, <2>4, <2>5, KeptWrite, KeptAgain
<1>2. CASE FinishTask(w)
  <2> DEFINE t == slots[w].job
  <2>1. t \in Known
    BY <1>2 DEF FinishTask, SlotTypes
  <2>2. "completed" \in Statuses \ {"none"}
    BY DEF Statuses, Settled
  <2>3. Written(child[t], "completed") \in Statuses
    BY <2>1, <2>2, WrittenKeeps, KnownAreTasks
  <2>4. result' = [result EXCEPT ![t] = Written(@, "completed")] \/ result' = result
    BY <1>2 DEF FinishTask
  <2>5. child' = [child EXCEPT ![t] = Written(child[t], "completed")] \/ child' = child
    BY <1>2, <2>1 DEF FinishTask
  <2> HIDE DEF t
  <2> QED
    BY <2>1, <2>2, <2>3, <2>4, <2>5, KeptWrite, KeptAgain
<1>3. CASE EmitDone(w)
  BY <1>3, KeptAgain DEF EmitDone, durableVars
<1>4. ASSUME NEW t \in Tasks, ScheduleChild(w, t) PROVE Kept(result') /\ child' = child
  <2>1. "scheduled" \in Statuses /\ result[t] = "none" /\ ~IsSettled(t)
    BY <1>4 DEF ScheduleChild, Statuses, IsSettled, Settled
  <2>2. Newcomer(t)
    BY <1>4 DEF ScheduleChild, Newcomer, SlotTypes
  <2> QED
    BY <1>4, <2>1, <2>2, KeptOne DEF ScheduleChild
<1> QED
  BY <1>1, <1>2, <1>3, <1>4 DEF WorkerStep

\* The supervisor loop's.
LEMMA LoopResults ==
    ASSUME TaskTypes, LoopStep PROVE Kept(result') /\ child' = child
<1> USE DEF TaskTypes, ResultTypes
<1>0. {"failed", "scheduled", "running", "cancelled", "interrupted"} \subseteq Statuses \ {"none"}
  BY DEF Statuses, Settled
<1>1. CASE HandleSchedule
  <2> DEFINE t == Head(events).task
  <2>1. t \in Known
    BY <1>1, HeadEvent DEF HandleSchedule
  <2>2. PICK s \in {"failed", "scheduled"} : result' = [result EXCEPT ![t] = Written(@, s)]
    BY <1>1 DEF HandleSchedule
  <2>3. child' = child
    BY <1>1 DEF HandleSchedule
  <2> HIDE DEF t
  <2> QED
    BY <1>0, <2>1, <2>2, <2>3, KeptWrite
<1>2. CASE HandleDone
  <2> DEFINE t == Head(events).task
             copied == IF running[t] # NoSlot THEN CopiedBack(t) ELSE result[t]
             fault == copied \notin Settled \cup {"interrupted"}
  <2>1. t \in Known
    BY <1>2, HeadEvent DEF HandleDone
  <2>2. result' = result \/ result' = [result EXCEPT ![t] = IF fault THEN "failed" ELSE copied]
    BY <1>2 DEF HandleDone
  <2>3. /\ copied \in Statuses /\ (IsSettled(t) => copied = result[t])
        /\ (result[t] # "none" => copied # "none")
    BY <2>1, CopiedKeeps, KnownAreTasks
  <2>4. (IsSettled(t) => ~fault)
    BY <2>3 DEF IsSettled
  <2>5. child' = child
    BY <1>2 DEF HandleDone
  <2> DEFINE s == IF fault THEN "failed" ELSE copied
  <2>6. s \in Statuses /\ (IsSettled(t) => s = result[t]) /\ (result[t] # "none" => s # "none")
    BY <1>0, <2>3, <2>4
  <2>7. result' = result \/ result' = [result EXCEPT ![t] = s]
    BY <2>2
  <2> HIDE DEF s, t
  <2> QED
    BY <2>1, <2>5, <2>6, <2>7, KeptOne, KeptAgain
<1>3. ASSUME NEW t \in Tasks, DropPending(t) PROVE Kept(result') /\ child' = child
  <2>1. result' = [result EXCEPT ![t] = Written(@, "cancelled")] \/ result' = result
    BY <1>3 DEF DropPending
  <2>2. t \in Known /\ child' = child
    BY <1>3 DEF DropPending, QueueTypes
  <2> QED
    BY <1>0, <2>1, <2>2, KeptWrite, KeptAgain
<1>4. ASSUME NEW t \in Tasks, NEW w \in Slots, Assign(w, t) PROVE Kept(result') /\ child' = child
  <2>1. result' = [result EXCEPT ![t] = Written(@, "running")] \/ result' = result
    BY <1>4 DEF Assign
  <2>2. t \in Known /\ child' = child
    BY <1>4 DEF Assign, QueueTypes
  <2> QED
    BY <1>0, <2>1, <2>2, KeptWrite, KeptAgain
<1>5. ASSUME NEW w \in Slots, DetectCrash(w) PROVE Kept(result') /\ child' = child
  <2> DEFINE t == slots[w].busy
  <2>1. CASE t # NoTask /\ running[t] # NoSlot
    <3>1. t \in Known
      BY <2>1 DEF SlotTypes, SlotType
    <3>2. PICK s \in {"interrupted", "failed"} : result' = [result EXCEPT ![t] = Written(@, s)]
      BY <1>5, <2>1 DEF DetectCrash
    <3>3. child' = child
      BY <1>5 DEF DetectCrash
    <3> HIDE DEF t
    <3> QED
      BY <1>0, <3>1, <3>2, <3>3, KeptWrite
  <2>2. CASE ~(t # NoTask /\ running[t] # NoSlot)
    BY <1>5, <2>2, KeptAgain DEF DetectCrash
  <2> QED
    BY <2>1, <2>2
<1> QED
  BY <1>1, <1>2, <1>3, <1>4, <1>5 DEF LoopStep

\* The reaper's.
LEMMA ReaperResults ==
    ASSUME TaskTypes, ReaperStep \/ ReaperFault
    PROVE  Kept(result') /\ child' = child
<1> USE DEF TaskTypes, ResultTypes
<1> DEFINE t == reaper.task
           r == Retry[t]
<1>0. {"failed", "scheduled", "running", "interrupted"} \subseteq Statuses \ {"none"}
  BY DEF Statuses, Settled
<1>1. reaper.pc # "idle" => t \in Known /\ t \in Tasks /\ r \in Tasks
  BY KnownAreTasks DEF ReapTypes, Job
<1> HIDE DEF t
<1>2. ASSUME reaper.pc # "idle", r \in Known \/ Newcomer(r),
             NEW s \in Statuses \ {"none"}, NEW q \in Statuses \ {"none"},
             NEW f, f \in [Tasks -> Statuses],
             \A x \in Tasks : f[x] = result[x] \/ (x = t /\ f[x] = Written(result[x], s))
                              \/ (x = r /\ f[x] = Written(result[x], q))
      PROVE  Kept(f)
  <2>1. ASSUME NEW x \in Tasks
        PROVE  (IsSettled(x) => f[x] = result[x]) /\ (result[x] # "none" => f[x] # "none")
    <3>1. result[x] \in Statuses
      OBVIOUS
    <3> QED
      BY <1>2, <3>1, WrittenKeeps DEF IsSettled
  <2>2. \A x \in Tasks : f[x] # result[x] => x \in Known \/ Newcomer(x)
    BY <1>1, <1>2
  <2> QED
    BY <1>2, <2>1, <2>2 DEF Kept
<1>3. CASE ReapTake \/ ReapKill \/ ReapRespawn \/ ReapRespawnFails
  BY <1>3, KeptAgain DEF ReapTake, ReapKill, ReapRespawn, ReapRespawnFails, durableVars
<1>4. CASE ReapWedged
  BY <1>0, <1>1, <1>4, KeptWrite DEF ReapWedged, t
<1>5. CASE ReapCheck
  BY <1>1, <1>5, CopiedKeeps, KeptOne DEF ReapCheck, t
<1>6. CASE ReapWrite
  <2> DEFINE s == IF reaper.retry THEN "interrupted" ELSE "failed"
             closed == [result EXCEPT ![t] = Written(@, s)]
  <2>1. s \in Statuses \ {"none"}
    BY <1>0
  <2>2. t \in Tasks /\ r \in Tasks /\ reaper.pc # "idle"
    BY <1>1, <1>6 DEF ReapWrite
  <2>3. result' = closed \/ (r # t /\ result' = [closed EXCEPT ![r] = Written(@, "scheduled")])
    BY <1>6 DEF ReapWrite, t
  <2>4. Written(result[t], s) \in Statuses
    BY <2>1, <2>2, WrittenKeeps
  <2> HIDE DEF s
  <2>5. closed \in [Tasks -> Statuses]
        /\ \A x \in Tasks : closed[x] = result[x] \/ (x = t /\ closed[x] = Written(result[x], s))
    BY <2>2, <2>4
  <2>6. r # t => closed[r] = result[r]
    BY <2>2
  <2>7. Written(result[r], "scheduled") \in Statuses
    BY <1>0, <2>2, WrittenKeeps
  <2> HIDE DEF closed
  <2>8. result' \in [Tasks -> Statuses]
    BY <2>2, <2>3, <2>5, <2>6, <2>7
  <2>9. \A x \in Tasks : result'[x] = result[x] \/ (x = t /\ result'[x] = Written(result[x], s))
                         \/ (x = r /\ result'[x] = Written(result[x], "scheduled"))
    BY <2>2, <2>3, <2>5, <2>6
  <2>10. child' = child
    BY <1>6 DEF ReapWrite
  <2>11. Newcomer(r)
    BY <1>1, <1>6 DEF Newcomer, ReapWrite, t
  <2> QED
    BY <1>0, <1>2, <2>1, <2>2, <2>8, <2>9, <2>10, <2>11
<1>7. CASE ReapRetry
  <2>1. t \in Tasks /\ r \in Tasks /\ reaper.pc # "idle"
    BY <1>1, <1>7 DEF ReapRetry
  <2>2. \/ result' = result
        \/ result' = [result EXCEPT ![t] = Written(@, "failed"), ![r] = Written(@, "failed")]
    BY <1>7 DEF ReapRetry, t
  <2>3. Written(result[t], "failed") \in Statuses /\ Written(result[r], "failed") \in Statuses
        /\ Written(Written(result[t], "failed"), "failed") = Written(result[t], "failed")
    BY <1>0, <2>1, WrittenKeeps DEF Written, Settled
  <2>4. \A x \in Tasks : \/ result'[x] = result[x]
                         \/ x \in {t, r} /\ result'[x] = Written(result[x], "failed")
    BY <2>1, <2>2, <2>3
  <2>5. result' \in [Tasks -> Statuses]
    BY <2>1, <2>2, <2>3
  <2>6. child' = child /\ r \in Known
    BY <1>7 DEF ReapRetry, ReapTypes, t
  <2> QED
    BY <1>0, <1>2, <2>1, <2>4, <2>5, <2>6
<1>8. CASE ReapWriteFails \/ ReapRetryFails
  <2>1. reaper.pc # "idle" /\ child' = child
    BY <1>8 DEF ReapWriteFails, ReapRetryFails
  <2>2. \/ result' = result
        \/ \E s \in {"interrupted", "failed"} : result' = [result EXCEPT ![t] = Written(@, s)]
    BY <1>8 DEF ReapWriteFails, ReapRetryFails, t
  <2>3. t \in Known /\ {"interrupted", "failed"} \subseteq Statuses \ {"none"}
    BY <1>0, <1>1, <2>1
  <2> QED
    BY <2>1, <2>2, <2>3, KeptAgain, KeptWrite
<1> QED
  BY <1>3, <1>4, <1>5, <1>6, <1>7, <1>8 DEF ReaperStep, ReaperFault

\* The custodies'.
LEMMA CustodyResults ==
    ASSUME TaskTypes, NEW th \in Threads, CustodyStep(th) \/ CustodyFault(th)
    PROVE  Kept(result') /\ child' \in [Tasks -> Statuses]
<1> USE DEF TaskTypes, ResultTypes
<1> DEFINE t == custody[th].task
<1>0. {"none", "cancelled"} \subseteq Statuses
  BY DEF Statuses, Settled
<1>1. custody[th].pc \notin {"idle", "respawn"} => t \in Known /\ t \in Tasks
  BY KnownAreTasks DEF ThreadTypes, CustodyShape
<1> HIDE DEF t
<1>2. CASE \/ Claim(th) \/ CapturePending(th) \/ CaptureRunning(th) \/ CaptureNothing(th)
           \/ WriteRefused(th) \/ RegisterOwed(th) \/ Settle(th) \/ Publish(th)
           \/ WritePendingFails(th) \/ WorkerSurvives(th) \/ WriteRunningFails(th)
           \/ MissFails(th) \/ OwedFails(th)
  BY <1>2, KeptAgain
     DEF Claim, CapturePending, CaptureRunning, CaptureNothing, WriteRefused, RegisterOwed, Settle,
         Publish, WritePendingFails, WorkerSurvives, WriteRunningFails, MissFails, OwedFails,
         durableVars
<1>3. CASE WritePending(th) \/ WriteRunning(th)
  <2>1. result' = [result EXCEPT ![t] = Written(@, "cancelled")] /\ t \in Known /\ child' = child
    BY <1>1, <1>3 DEF WritePending, WriteRunning, Active, t
  <2> QED
    BY <1>0, <2>1, KeptWrite
<1>4. CASE KillWorker(th)
  <2>1. /\ result' = result \/ result' = [result EXCEPT ![t] = CopiedBack(t)]
        /\ t \in Known /\ t \in Tasks /\ child' = child
    BY <1>1, <1>4 DEF KillWorker, Active, t
  <2> QED
    BY <2>1, KeptAgain, KeptOne, CopiedKeeps
<1>5. CASE Miss(th)
  <2> DEFINE after == Written(CopiedBack(t), "cancelled")
  <2>1. /\ result' = result \/ result' = [result EXCEPT ![t] = after]
        /\ t \in Known /\ t \in Tasks /\ child' = child
    BY <1>1, <1>5 DEF Miss, Active, t
  <2>2. after \in Statuses \ {"none"} /\ (IsSettled(t) => after = result[t])
    BY <1>0, <2>1, CopiedKeeps, WrittenKeeps DEF IsSettled
  <2> HIDE DEF after
  <2> QED
    BY <2>1, <2>2, KeptAgain, KeptOne
<1>6. CASE Respawn(th) \/ RespawnFails(th)
  <2>1. result' = result /\ (child' = child \/ child' = [child EXCEPT ![t] = "none"])
    BY <1>6 DEF Respawn, RespawnFails, t
  <2>2. child' \in [Tasks -> Statuses]
    BY <1>0, <2>1
  <2>3. Kept(result)
    BY KeptAgain
  <2> QED
    BY <2>1, <2>2, <2>3
<1> QED
  BY <1>2, <1>3, <1>4, <1>5, <1>6 DEF CustodyStep, CustodyFault

\* No other step touches a result.
LEMMA OtherResults ==
    ASSUME TaskTypes,
           \/ \E t \in Tasks : Watchdog(t) \/ DropPendingFails(t)
           \/ \E th \in Threads : CascadeStep(th)
           \/ Environment \/ UNCHANGED taskVars
    PROVE  Kept(result') /\ child' = child
<1> SUFFICES result' = result /\ child' = child
  BY KeptAgain DEF TaskTypes
<1>1. CASE \E t \in Tasks : Watchdog(t) \/ DropPendingFails(t)
  BY <1>1, ZenonT(40) DEF Watchdog, DropPendingFails, durableVars
<1>2. CASE \E th \in Threads : CascadeStep(th)
  BY <1>2 DEF CascadeStep, CascadeBegin, CascadeSweep, CascadeMint, CascadeTake, CascadePost,
              CascadeSummary, CascadeClose, durableVars
<1>3. CASE Environment
  BY <1>3 DEF Environment, WorkerDies, Timeout, RequestByWorker, RequestSingle, RequestCascade,
              Crash, durableVars
<1>4. CASE UNCHANGED taskVars
  BY <1>4 DEF taskVars, durableVars
<1> QED
  BY <1>1, <1>2, <1>3, <1>4

LEMMA ResultMoves ==
    ASSUME TaskTypes, [Tasks_Next]_taskVars
    PROVE  Kept(result') /\ ResultTypes'
<1>1. CASE LoopStep
  BY <1>1, LoopResults DEF Kept, TaskTypes, ResultTypes
<1>2. CASE ReaperStep \/ ReaperFault
  BY <1>2, ReaperResults DEF Kept, TaskTypes, ResultTypes
<1>3. CASE \E w \in Slots : WorkerStep(w) \/ \E t \in Tasks : ScheduleChild(w, t)
  BY <1>3, WorkerResults DEF Kept, ResultTypes
<1>4. CASE \E th \in Threads : CustodyStep(th) \/ CustodyFault(th)
  BY <1>4, CustodyResults DEF Kept, ResultTypes
<1>5. CASE \/ \E t \in Tasks : Watchdog(t) \/ DropPendingFails(t)
           \/ \E th \in Threads : CascadeStep(th)
           \/ Environment \/ UNCHANGED taskVars
  BY <1>5, OtherResults DEF Kept, TaskTypes, ResultTypes
<1> QED
  BY <1>1, <1>2, <1>3, <1>4, <1>5 DEF Tasks_Next, Fault

---------------------------------------------------------------------------
(* What a step may do to the intents. *)
Row(i, m, p) == i \in IntentType /\ i.req <= m /\ i.pid <= p
Live(i)      == i.state # "none"

\* Claiming, releasing and settling a row of the intents file.
LEMMA RowMoves ==
    ASSUME NEW m \in Nat, NEW i, Row(i, m, pid), NEW claim \in ClaimType, pid \in Nat
    PROVE  /\ Row(Claimed(i), m, pid) /\ Live(Claimed(i)) /\ Claimed(i).scope = i.scope
           /\ Row(Released(i, claim), m, pid) /\ (Live(Released(i, claim)) <=> Live(i))
           /\ Row(SettledIntent(i, claim), m, pid)
           /\ Live(SettledIntent(i, claim)) => Live(i)
           /\ i.scope = "cascade" /\ Live(i) => Live(SettledIntent(i, claim))
           /\ [req |-> Claimed(i).req, gen |-> Claimed(i).gen] \in ClaimType
<1>1. /\ Row(Claimed(i), m, pid) /\ Live(Claimed(i)) /\ Claimed(i).scope = i.scope
      /\ [req |-> Claimed(i).req, gen |-> Claimed(i).gen] \in ClaimType
  <2>1. Claimed(i) \in IntentType
    <3> DEFINE a == [i EXCEPT !.state = "claimed"]
               b == [a EXCEPT !.gen = @ + 1]
    <3>1. a \in IntentType
      BY DEF Row, IntentType
    <3> HIDE DEF a
    <3>2. b \in IntentType
      BY <3>1 DEF IntentType
    <3> HIDE DEF b
    <3>3. [b EXCEPT !.pid = pid] \in IntentType
      BY <3>2 DEF IntentType
    <3> QED
      BY <3>3 DEF Claimed, a, b
  <2>2. /\ Claimed(i).state = "claimed" /\ Claimed(i).scope = i.scope
        /\ Claimed(i).req = i.req /\ Claimed(i).gen = i.gen + 1 /\ Claimed(i).pid = pid
    BY DEF Claimed, Row, IntentType
  <2>3. i.gen \in Nat /\ i.req \in Nat /\ i.req <= m
    BY DEF Row, IntentType
  <2> QED
    BY <2>1, <2>2, <2>3 DEF Row, Live, ClaimType
<1>2. Row(Released(i, claim), m, pid) /\ (Live(Released(i, claim)) <=> Live(i))
  <2> DEFINE r == [i EXCEPT !.state = "requested", !.pid = 0]
  <2>1. r \in IntentType
    BY DEF Row, IntentType
  <2>2. r.state = "requested" /\ r.pid = 0 /\ r.req = i.req /\ i.req <= m
    BY DEF Row, IntentType
  <2>3. Row(r, m, pid) /\ Live(r)
    BY <2>1, <2>2 DEF Row, Live
  <2>4. Released(i, claim) = i \/ (i.state = "claimed" /\ Released(i, claim) = r)
    BY DEF Released
  <2> HIDE DEF r
  <2> QED
    BY <2>3, <2>4 DEF Live
<1>3. Row(NoIntent, m, pid) /\ ~Live(NoIntent)
  BY DEF NoIntent, Row, Live, IntentType
<1> QED
  BY <1>1, <1>2, <1>3 DEF SettledIntent

\* Recording a request, or widening the one there is.
LEMMA RowAsked ==
    ASSUME NEW m \in Nat, NEW i, Row(i, m, pid), pid \in Nat, m = used.mints,
           NEW scope \in {"single", "cascade"}, NEW n \in Nat, n = (IF Live(i) THEN m ELSE m + 1)
    PROVE  Row(Requested(i, scope), n, pid) /\ Live(Requested(i, scope))
<1>1. CASE ~Live(i)
  <2> DEFINE r == [state |-> "requested", req |-> used.mints + 1, gen |-> 0, scope |-> scope,
                   pid |-> 0]
  <2>1. Requested(i, scope) = r
    BY <1>1 DEF Requested, NoIntent, Live
  <2>2. r \in IntentType
    BY DEF IntentType
  <2> QED
    BY <1>1, <2>1, <2>2 DEF Row, Live
<1>2. CASE Live(i)
  <2> DEFINE r == [i EXCEPT !.scope = IF scope = "cascade" THEN scope ELSE i.scope]
  <2>1. Requested(i, scope) = r
    BY <1>2 DEF Requested, Live
  <2>2. r \in IntentType /\ r.req = i.req /\ r.pid = i.pid /\ r.state = i.state
    BY DEF IntentType, Row
  <2> QED
    BY <1>2, <2>1, <2>2 DEF Row, Live
<1> QED
  BY <1>1, <1>2

\* Nothing but time passes.
LEMMA RowLater ==
    ASSUME NEW m \in Nat, NEW n \in Nat, m <= n, NEW p \in Nat, NEW q \in Nat, p <= q,
           NEW i, Row(i, m, p)
    PROVE  Row(i, n, q)
BY DEF Row, IntentType

LEMMA IntentRows ==
    ASSUME used \in UsedType, pid \in Nat
    PROVE  IntentTypes <=> /\ intent \in [Tasks -> IntentType]
                           /\ \A t \in Tasks : Row(intent[t], used.mints, pid)
BY DEF IntentTypes, Row

\* the reasons for which an intent may appear, and for which it may go
Gains(x) ==
    \/ result[x] # "none" \/ Owned(x) \/ SubtreeIsLive(x)
    \/ \E th \in Threads : x \in cascade[th].mint
Closes(x) == \E th \in Threads : cascade[th].pc = "close" /\ cascade[th].root = x
Loses(x) ==
    \/ /\ intent[x].scope # "cascade"
       /\ \/ IsSettled(x)'
          \/ \E th \in Threads : custody[th].pc = "settle" /\ custody[th].task = x
    \/ Closes(x)

IntentMove ==
    /\ IntentTypes'
    /\ \A x \in Tasks : /\ HasIntent(x)' => HasIntent(x) \/ Gains(x)
                        /\ HasIntent(x) => HasIntent(x)' \/ Loses(x)

\* A step that changes one row.
LEMMA OneRow ==
    ASSUME IntentTypes, NEW t \in Tasks, NEW i, intent' = [intent EXCEPT ![t] = i],
           used' \in UsedType, pid' = pid, used.mints <= used'.mints, Row(i, used'.mints, pid),
           Live(i) => HasIntent(t) \/ Gains(t), HasIntent(t) => Live(i) \/ Loses(t)
    PROVE  IntentMove
<1>1. used.mints \in Nat /\ used'.mints \in Nat /\ pid \in Nat /\ intent \in [Tasks -> IntentType]
  BY DEF IntentTypes, UsedType
<1>2. \A x \in Tasks : Row(intent[x], used.mints, pid)
  BY DEF IntentTypes, Row
<1>3. \A x \in Tasks : Row(intent[x], used'.mints, pid)
  BY <1>1, <1>2, RowLater
<1>4. intent' \in [Tasks -> IntentType]
  BY <1>1 DEF Row
<1>5. intent'[t] = i /\ \A x \in Tasks \ {t} : intent'[x] = intent[x]
  BY <1>1
<1>6. \A x \in Tasks : Row(intent'[x], used'.mints, pid')
  BY <1>3, <1>5
<1>7. IntentTypes'
  BY <1>1, <1>4, <1>6 DEF IntentTypes, Row
<1> QED
  BY <1>5, <1>7 DEF IntentMove, HasIntent, Live

\* A step that changes no row, and may count something or replace the process.
LEMMA NoRow ==
    ASSUME IntentTypes, intent' = intent, used' \in UsedType, used'.mints = used.mints,
           pid' \in Nat, pid <= pid'
    PROVE  IntentMove
<1>1. used.mints \in Nat /\ pid \in Nat
  BY DEF IntentTypes, UsedType
<1>2. \A x \in Tasks : intent'[x].req <= used'.mints /\ intent'[x].pid <= pid'
  BY <1>1 DEF IntentTypes, IntentType
<1> QED
  BY <1>2 DEF IntentMove, IntentTypes, HasIntent

\* The bounds of the model count in numbers.
LEMMA CountedKeeps ==
    ASSUME used \in UsedType,
           NEW what \in {"requests", "deaths", "timeouts", "faults", "crashes", "replays"},
           Counted(what)
    PROVE  used' \in UsedType /\ used'.mints = used.mints
BY DEF Counted, UsedType

LEMMA CountedWithKeeps ==
    ASSUME used \in UsedType, NEW what \in {"timeouts", "faults"},
           NEW mark \in {"struck", "stranded", "unread", "adrift"}, NEW who,
           IF mark = "struck" THEN who \subseteq Slots ELSE who \subseteq Tasks,
           CountedWith(what, mark, who)
    PROVE  /\ used' \in UsedType /\ used'.mints = used.mints
           /\ used'[what] = used[what] + 1
<1> DEFINE a == [used EXCEPT ![what] = @ + 1]
<1>1. a \in UsedType /\ a.mints = used.mints /\ a[mark] = used[mark] /\ a[what] = used[what] + 1
  BY DEF UsedType
<1>2. used' = [a EXCEPT ![mark] = @ \cup who]
  BY <1>1 DEF CountedWith, UsedType
<1> HIDE DEF a
<1>3. CASE mark = "struck"
  BY <1>1, <1>2, <1>3 DEF UsedType
<1>4. CASE mark = "stranded"
  BY <1>1, <1>2, <1>4 DEF UsedType
<1>5. CASE mark = "unread"
  BY <1>1, <1>2, <1>5 DEF UsedType
<1>6. CASE mark = "adrift"
  BY <1>1, <1>2, <1>6 DEF UsedType
<1> QED
  BY <1>3, <1>4, <1>5, <1>6

\* What went wrong with a slot or a task is remembered with it.
LEMMA MarkedKeeps ==
    ASSUME TaskTypes,
           \/ \E t \in Tasks : Timeout(t)
           \/ \E w \in Slots : DetectCrash(w)
           \/ \E th \in Threads : RespawnFails(th)
           \/ ReapWedged \/ ReapWriteFails \/ ReapRetryFails
    PROVE  used' \in UsedType /\ used'.mints = used.mints
<1>1. used \in UsedType
  BY DEF TaskTypes, IntentTypes
<1>2. reaper.pc # "idle" => reaper.task \in Tasks /\ Retry[reaper.task] \in Tasks
  BY KnownAreTasks DEF TaskTypes, ReapTypes, Job
<1>3. ASSUME NEW t \in Tasks, Timeout(t) PROVE used' \in UsedType /\ used'.mints = used.mints
  <2> DEFINE who == IF slots[running[t]].reaping THEN {running[t]} ELSE {}
  <2>1. CountedWith("timeouts", "struck", who) /\ running[t] # NoSlot
    BY <1>3 DEF Timeout
  <2>2. who \subseteq Slots
    BY <2>1 DEF TaskTypes, QueueTypes
  <2> HIDE DEF who
  <2> QED
    BY <1>1, <2>1, <2>2, CountedWithKeeps
<1>4. ASSUME NEW w \in Slots, DetectCrash(w) PROVE used' \in UsedType /\ used'.mints = used.mints
  <2> DEFINE who == {x \in {slots[w].busy} \cap Subagents : child[x] = "completed"}
  <2>1. used' = [used EXCEPT !.unread = @ \cup who]
    BY <1>4 DEF DetectCrash
  <2>2. who \subseteq Tasks
    OBVIOUS
  <2> HIDE DEF who
  <2> QED
    BY <1>1, <2>1, <2>2 DEF UsedType
<1>5. ASSUME NEW th \in Threads, RespawnFails(th)
      PROVE  used' \in UsedType /\ used'.mints = used.mints
  <2> DEFINE who == IF custody[th].task = NoTask
                    THEN {slots[custody[th].slot].busy} \ {NoTask} ELSE {}
  <2>1. CountedWith("faults", "stranded", who) /\ custody[th].pc = "respawn"
    BY <1>5 DEF RespawnFails, Active
  <2>2. custody[th].slot \in Slots
    BY <2>1 DEF TaskTypes, ThreadTypes, CustodyShape
  <2>3. who \subseteq Tasks
    BY <2>2, KnownAreTasks DEF TaskTypes, SlotTypes, SlotType
  <2> HIDE DEF who
  <2> QED
    BY <1>1, <2>1, <2>3, CountedWithKeeps
<1>6. CASE ReapWedged \/ ReapWriteFails \/ ReapRetryFails
  <2>1. \E who : /\ CountedWith("faults", "adrift", who)
                 /\ who \subseteq {reaper.task, Retry[reaper.task]}
    BY <1>6 DEF ReapWedged, ReapWriteFails, ReapRetryFails
  <2>2. reaper.pc # "idle"
    BY <1>6 DEF ReapWedged, ReapWriteFails, ReapRetryFails
  <2>3. PICK who : /\ CountedWith("faults", "adrift", who)
                   /\ who \subseteq {reaper.task, Retry[reaper.task]}
    BY <2>1
  <2>4. who \subseteq Tasks
    BY <1>2, <2>2, <2>3
  <2> QED
    BY <1>1, <2>3, <2>4, CountedWithKeeps
<1> QED
  BY <1>3, <1>4, <1>5, <1>6

\* A custody that ends, well or not.
LEMMA GivenUpIntents ==
    ASSUME TaskTypes, NEW th \in Threads, GivenUp(th), custody[th].task \in Tasks, pid' = pid,
           used' \in UsedType, used'.mints = used.mints
    PROVE  IntentMove
<1> DEFINE t == custody[th].task
           i == Released(intent[t], custody[th].claim)
<1>1. custody[th].claim \in ClaimType
  BY DEF TaskTypes, ThreadTypes, CustodyType
<1>2. IntentTypes /\ used.mints \in Nat /\ pid \in Nat /\ Row(intent[t], used.mints, pid)
  BY DEF TaskTypes, IntentTypes, UsedType, Row
<1>3. Row(i, used'.mints, pid) /\ (Live(i) <=> HasIntent(t))
  BY <1>1, <1>2, RowMoves DEF Live, HasIntent
<1>4. intent' = [intent EXCEPT ![t] = i]
  BY DEF GivenUp
<1>5. used.mints <= used'.mints
  BY <1>2
<1> HIDE DEF i, t
<1>6. t \in Tasks
  BY DEF t
<1> QED
  BY <1>2, <1>3, <1>4, <1>5, <1>6, OneRow

\* The custodies' intents.
LEMMA CustodyIntents ==
    ASSUME TaskTypes, NEW th \in Threads, CustodyStep(th) \/ CustodyFault(th)
    PROVE  IntentMove
<1> DEFINE t == custody[th].task
           claim == custody[th].claim
<1>1. custody[th].pc \notin {"idle", "respawn"} => t \in Known /\ t \in Tasks
  BY KnownAreTasks DEF TaskTypes, ThreadTypes, CustodyShape
<1>2. claim \in ClaimType /\ IntentTypes /\ used \in UsedType /\ pid \in Nat
      /\ used.mints \in Nat /\ pid <= pid
  BY DEF TaskTypes, ThreadTypes, CustodyType, IntentTypes, UsedType
<1>3. \A x \in Tasks : Row(intent[x], used.mints, pid)
  BY <1>2, IntentRows
<1>4. used' = used => used' \in UsedType /\ used'.mints = used.mints /\ used.mints <= used'.mints
  BY <1>2
<1>5. CASE \/ CapturePending(th) \/ CaptureNothing(th) \/ WritePending(th) \/ KillWorker(th)
           \/ WriteRunning(th) \/ Miss(th) \/ RegisterOwed(th) \/ Publish(th) \/ Respawn(th)
  <2>1. intent' = intent /\ used' = used /\ pid' = pid
    BY <1>5 DEF CapturePending, CaptureNothing, WritePending, KillWorker, WriteRunning, Miss,
                RegisterOwed, Publish, Respawn, durableVars, envVars
  <2> QED
    BY <1>2, <2>1, NoRow
<1>6. CASE RespawnFails(th)
  <2>1. intent' = intent /\ pid' = pid
    BY <1>6 DEF RespawnFails
  <2> QED
    BY <1>2, <1>6, <2>1, NoRow, MarkedKeeps
<1>7. CASE CaptureRunning(th) \/ WriteRefused(th)
  <2>1. /\ used' = used /\ pid' = pid /\ t \in Tasks
        /\ GivenUp(th) \/ intent' = intent
    BY <1>1, <1>7 DEF CaptureRunning, WriteRefused, Active, envVars
  <2> QED
    BY <1>2, <1>4, <2>1, NoRow, GivenUpIntents
<1>8. CASE WritePendingFails(th) \/ WorkerSurvives(th) \/ WriteRunningFails(th) \/ MissFails(th)
  <2>1. GivenUp(th) /\ pid' = pid /\ Counted("faults") /\ t \in Tasks
    BY <1>1, <1>8 DEF WritePendingFails, WorkerSurvives, WriteRunningFails, MissFails, Active
  <2> QED
    BY <1>2, <2>1, CountedKeeps, GivenUpIntents
<1>9. CASE Claim(th)
  <2>1. used' = used /\ pid' = pid /\ t \in Tasks
    BY <1>1, <1>9 DEF Claim, Active, envVars
  <2>2. CASE intent' = intent
    BY <1>2, <2>1, <2>2, NoRow
  <2>3. CASE intent' = [intent EXCEPT ![t] = Claimed(intent[t])] /\ HasIntent(t)
    <3>1. Row(Claimed(intent[t]), used'.mints, pid) /\ Live(Claimed(intent[t]))
      BY <1>2, <1>3, <2>1, RowMoves
    <3> HIDE DEF t
    <3> QED
      BY <1>2, <1>4, <2>1, <2>3, <3>1, OneRow
  <2> QED
    BY <1>9, <2>2, <2>3 DEF Claim
<1>10. CASE OwedFails(th)
  <2>1. /\ t \in Tasks /\ pid' = pid /\ Counted("faults")
        /\ intent' = [intent EXCEPT ![t] = Released(intent[t], claim)]
    BY <1>1, <1>10 DEF OwedFails, Active
  <2>2. used' \in UsedType /\ used'.mints = used.mints /\ used.mints <= used'.mints
    BY <1>2, <2>1, CountedKeeps
  <2>3. Row(Released(intent[t], claim), used'.mints, pid)
        /\ (Live(Released(intent[t], claim)) <=> HasIntent(t))
    BY <1>2, <1>3, <2>1, <2>2, RowMoves DEF HasIntent, Live
  <2> HIDE DEF t, claim
  <2> QED
    BY <1>2, <2>1, <2>2, <2>3, OneRow
<1>11. CASE Settle(th)
  <2>1. /\ t \in Tasks /\ pid' = pid /\ used' = used /\ custody[th].pc = "settle"
        /\ intent' = [intent EXCEPT ![t] = SettledIntent(intent[t], claim)]
    BY <1>1, <1>11 DEF Settle, Active
  <2>2. /\ Row(SettledIntent(intent[t], claim), used'.mints, pid)
        /\ Live(SettledIntent(intent[t], claim)) => HasIntent(t)
        /\ intent[t].scope = "cascade" /\ HasIntent(t) => Live(SettledIntent(intent[t], claim))
    BY <1>2, <1>3, <2>1, RowMoves DEF HasIntent, Live
  <2>3. HasIntent(t) => Live(SettledIntent(intent[t], claim)) \/ Loses(t)
    BY <2>1, <2>2 DEF Loses
  <2> HIDE DEF t, claim
  <2> QED
    BY <1>2, <1>4, <2>1, <2>2, <2>3, OneRow
<1> QED
  BY <1>5, <1>6, <1>7, <1>8, <1>9, <1>10, <1>11 DEF CustodyStep, CustodyFault

\* The cascades'.
LEMMA CascadeIntents ==
    ASSUME TaskTypes, NEW th \in Threads, CascadeStep(th)
    PROVE  IntentMove
<1>2. IntentTypes /\ used \in UsedType /\ pid \in Nat /\ used.mints \in Nat /\ pid <= pid
      /\ intent \in [Tasks -> IntentType]
  BY DEF TaskTypes, IntentTypes, UsedType
<1>3. \A x \in Tasks : Row(intent[x], used.mints, pid)
  BY <1>2, IntentRows
<1>4. used' = used => used' \in UsedType /\ used'.mints = used.mints /\ used.mints <= used'.mints
  BY <1>2
<1>5. CASE CascadeSweep(th) \/ CascadePost(th) \/ \E t \in Tasks : CascadeTake(th, t)
  <2>1. intent' = intent /\ used' = used /\ pid' = pid
    BY <1>5 DEF CascadeSweep, CascadePost, CascadeTake, durableVars, envVars
  <2> QED
    BY <1>2, <2>1, NoRow
<1>6. CASE CascadeSummary(th)
  <2>1. intent' = intent /\ pid' = pid /\ (used' = used \/ Counted("faults"))
    BY <1>6 DEF CascadeSummary
  <2> QED
    BY <1>2, <2>1, NoRow, CountedKeeps
<1> DEFINE r == cascade[th].root
<1>7. cascade[th].pc # "idle" => r \in Tasks
  BY KnownAreTasks DEF TaskTypes, ThreadTypes
<1>8. CASE CascadeBegin(th)
  <2> DEFINE i == [intent[r] EXCEPT !.scope = IF HasIntent(r) THEN "cascade" ELSE @]
  <2>1. r \in Tasks /\ used' = used /\ pid' = pid /\ intent' = [intent EXCEPT ![r] = i]
    BY <1>7, <1>8 DEF CascadeBegin, At, envVars
  <2>2. intent[r] \in IntentType
    BY <1>2, <2>1
  <2>3. Row(i, used.mints, pid) /\ (Live(i) <=> HasIntent(r))
    BY <1>3, <2>1, <2>2 DEF Row, Live, HasIntent, IntentType
  <2> HIDE DEF r, i
  <2> QED
    BY <1>2, <1>4, <2>1, <2>3, OneRow
<1>9. CASE CascadeClose(th)
  <2> DEFINE i == IF intent[r].scope = "cascade" THEN NoIntent ELSE intent[r]
  <2>1. /\ r \in Tasks /\ used' = used /\ pid' = pid /\ intent' = [intent EXCEPT ![r] = i]
        /\ Closes(r)
    BY <1>7, <1>9 DEF CascadeClose, At, envVars, Closes
  <2>2. Row(NoIntent, used.mints, pid) /\ ~Live(NoIntent)
    BY <1>2 DEF NoIntent, Row, Live, IntentType
  <2>3. Row(i, used.mints, pid) /\ (Live(i) => HasIntent(r))
    BY <1>3, <2>1, <2>2 DEF Live, HasIntent
  <2>4. HasIntent(r) => Live(i) \/ Loses(r)
    BY <2>1 DEF Loses
  <2> HIDE DEF r, i
  <2> QED
    BY <1>2, <1>4, <2>1, <2>3, <2>4, OneRow
<1>10. ASSUME NEW t \in Tasks, CascadeMint(th, t) PROVE IntentMove
  <2> DEFINE i == Requested(intent[t], "single")
             n == IF Live(intent[t]) THEN used.mints ELSE used.mints + 1
  <2>1. /\ intent' = [intent EXCEPT ![t] = i] /\ used' = [used EXCEPT !.mints = n] /\ pid' = pid
        /\ Gains(t)
    BY <1>10 DEF CascadeMint, Minted, Gains, HasIntent, Live
  <2>2. n \in Nat /\ used.mints <= n
    BY <1>2
  <2>3. Row(i, n, pid) /\ Live(i)
    BY <1>2, <1>3, <2>2, RowAsked
  <2> HIDE DEF i, n
  <2>4. used' \in UsedType /\ used'.mints = n
    BY <1>2, <2>1, <2>2 DEF UsedType
  <2> QED
    BY <1>2, <2>1, <2>2, <2>3, <2>4, OneRow
<1> QED
  BY <1>5, <1>6, <1>8, <1>9, <1>10 DEF CascadeStep

\* Requests, the watchdog, and what fails around the supervisor.
LEMMA EnvironmentIntents ==
    ASSUME TaskTypes, Environment \/ Fault \/ \E t \in Tasks : Watchdog(t)
    PROVE  IntentMove
<1>2. IntentTypes /\ used \in UsedType /\ pid \in Nat /\ used.mints \in Nat /\ pid <= pid
      /\ pid <= pid + 1 /\ pid + 1 \in Nat /\ used.requests \in Nat
  BY DEF TaskTypes, IntentTypes, UsedType
<1>3. \A x \in Tasks : Row(intent[x], used.mints, pid)
  BY <1>2, IntentRows
<1>4. CASE \/ \E w \in Slots : WorkerDies(w)
           \/ \E t \in Tasks : Watchdog(t)
           \/ ReapRespawnFails
  <2>1. intent' = intent /\ pid' = pid
        /\ (Counted("deaths") \/ Counted("replays") \/ Counted("faults"))
    BY <1>4 DEF WorkerDies, Watchdog, ReapRespawnFails, durableVars
  <2> QED
    BY <1>2, <2>1, NoRow, CountedKeeps
<1>9. CASE (\E t \in Tasks : Timeout(t)) \/ ReapWedged \/ ReapWriteFails \/ ReapRetryFails
  <2>1. intent' = intent /\ pid' = pid
    BY <1>9 DEF Timeout, ReapWedged, ReapWriteFails, ReapRetryFails
  <2> QED
    BY <1>2, <1>9, <2>1, NoRow, MarkedKeeps
<1>10. ASSUME NEW t \in Tasks, DropPendingFails(t) PROVE IntentMove
  <2> DEFINE row == Claimed(intent[t])
             i == Released(row, [req |-> row.req, gen |-> row.gen])
  <2>1. /\ pid' = pid /\ Counted("faults") /\ HasIntent(t)
        /\ intent' = [intent EXCEPT ![t] = i]
    BY <1>10 DEF DropPendingFails
  <2>2. used' \in UsedType /\ used'.mints = used.mints /\ used.mints <= used'.mints
    BY <1>2, <2>1, CountedKeeps
  <2>3. /\ Row(row, used.mints, pid) /\ Live(row)
        /\ [req |-> row.req, gen |-> row.gen] \in ClaimType
    <3>1. NoClaim \in ClaimType
      BY DEF NoClaim, ClaimType
    <3> QED
      BY <1>2, <1>3, <3>1, RowMoves
  <2> HIDE DEF row
  <2>4. Row(i, used'.mints, pid) /\ Live(i)
    BY <1>2, <2>2, <2>3, RowMoves
  <2> HIDE DEF i
  <2> QED
    BY <1>2, <2>1, <2>2, <2>4, OneRow
<1>5. CASE Crash
  <2>1. intent' = intent /\ pid' = pid + 1 /\ Counted("crashes")
    BY <1>5 DEF Crash
  <2> QED
    BY <1>2, <2>1, NoRow, CountedKeeps
<1>6. ASSUME NEW t \in Tasks, NEW scope \in {"single", "cascade"}, Asking(t, scope), pid' = pid,
             Gains(t)
      PROVE  IntentMove
  <2> DEFINE i == Requested(intent[t], scope)
             n == IF Live(intent[t]) THEN used.mints ELSE used.mints + 1
  <2>1. /\ intent' = [intent EXCEPT ![t] = i]
        /\ used' = [used EXCEPT !.requests = @ + 1, !.mints = n]
    BY <1>6 DEF Asking, HasIntent, Live
  <2>2. n \in Nat /\ used.mints <= n
    BY <1>2
  <2>3. Row(i, n, pid) /\ Live(i)
    BY <1>2, <1>3, <2>2, RowAsked
  <2> HIDE DEF i, n
  <2>4. used' \in UsedType /\ used'.mints = n
    <3> DEFINE a == [used EXCEPT !.requests = @ + 1]
    <3>1. a \in UsedType
      BY <1>2 DEF UsedType
    <3>2. used' = [a EXCEPT !.mints = n]
      BY <2>1
    <3> HIDE DEF a
    <3> QED
      BY <2>2, <3>1, <3>2 DEF UsedType
  <2> QED
    BY <1>2, <1>6, <2>1, <2>2, <2>3, <2>4, OneRow
<1>7. ASSUME NEW t \in Tasks,
             RequestByWorker(t) \/ \E c \in Clients : RequestSingle(c, t) \/ RequestCascade(c, t)
      PROVE  IntentMove
  <2>1. \E scope \in {"single", "cascade"} : Asking(t, scope) /\ pid' = pid /\ Gains(t)
    BY <1>7 DEF RequestByWorker, RequestSingle, RequestCascade, Gains
  <2> QED
    BY <1>6, <2>1
<1>8. ASSUME NEW th \in Threads, CustodyFault(th) PROVE IntentMove
  BY <1>8, CustodyIntents
<1> QED
  BY <1>4, <1>5, <1>7, <1>8, <1>9, <1>10 DEF Environment, Fault, ReaperFault

\* The loop drops a queued task by claiming and settling its intent; nobody
\* else touches one.
LEMMA LoopIntents ==
    ASSUME TaskTypes,
           \/ LoopStep \/ ReaperStep \/ UNCHANGED taskVars
           \/ \E w \in Slots : WorkerStep(w) \/ \E t \in Tasks : ScheduleChild(w, t)
    PROVE  IntentMove
<1>2. IntentTypes /\ used \in UsedType /\ pid \in Nat /\ used.mints \in Nat /\ pid <= pid
  BY DEF TaskTypes, IntentTypes, UsedType
<1>3. \A x \in Tasks : Row(intent[x], used.mints, pid)
  BY <1>2, IntentRows
<1>4. CASE \/ HandleSchedule \/ HandleDone
           \/ \E t \in Tasks : \E w \in Slots : Assign(w, t)
           \/ ReaperStep \/ UNCHANGED taskVars
           \/ \E w \in Slots : WorkerStep(w) \/ \E t \in Tasks : ScheduleChild(w, t)
  <2>1. intent' = intent /\ used' = used /\ pid' = pid
    BY <1>4 DEF HandleSchedule, HandleDone, Assign, ReaperStep, ReapTake, ReapKill,
       ReapCheck, ReapWrite, ReapRetry, ReapRespawn, WorkerStep, StartTask, FinishTask, EmitDone,
       ScheduleChild, taskVars, durableVars, envVars
  <2> QED
    BY <1>2, <2>1, NoRow
<1>6. ASSUME NEW w \in Slots, DetectCrash(w) PROVE IntentMove
  <2>1. intent' = intent /\ pid' = pid
    BY <1>6 DEF DetectCrash
  <2> QED
    BY <1>2, <1>6, <2>1, NoRow, MarkedKeeps
<1>5. ASSUME NEW t \in Tasks, DropPending(t) PROVE IntentMove
  <2> DEFINE row == Claimed(intent[t])
             i == SettledIntent(row, [req |-> row.req, gen |-> row.gen])
  <2>1. used' = used /\ pid' = pid
    BY <1>5 DEF DropPending, envVars
  <2>2. CASE intent' = intent
    BY <1>2, <2>1, <2>2, NoRow
  <2>3. CASE intent' = [intent EXCEPT ![t] = i] /\ HasIntent(t)
             /\ result' = [result EXCEPT ![t] = Written(@, "cancelled")]
    <3>1. /\ Row(row, used.mints, pid) /\ row.scope = intent[t].scope /\ Live(row)
          /\ [req |-> row.req, gen |-> row.gen] \in ClaimType
      <4>1. NoClaim \in ClaimType
        BY DEF NoClaim, ClaimType
      <4> QED
        BY <1>2, <1>3, <4>1, RowMoves
    <3> HIDE DEF row
    <3>2. Row(i, used.mints, pid) /\ (row.scope = "cascade" => Live(i))
      BY <1>2, <3>1, RowMoves
    <3>3. IsSettled(t)'
      <4>1. result \in [Tasks -> Statuses] /\ result'[t] = Written(result[t], "cancelled")
        BY <2>3 DEF TaskTypes, ResultTypes
      <4> QED
        BY <4>1 DEF IsSettled, Written, Settled
    <3>4. HasIntent(t) => Live(i) \/ Loses(t)
      BY <3>1, <3>2, <3>3 DEF Loses
    <3>5. used' \in UsedType /\ used.mints <= used'.mints /\ Row(i, used'.mints, pid)
      BY <1>2, <2>1, <3>2
    <3> HIDE DEF i
    <3> QED
      BY <1>2, <2>1, <2>3, <3>4, <3>5, OneRow
  <2> QED
    BY <1>5, <2>2, <2>3 DEF DropPending
<1> QED
  BY <1>4, <1>5, <1>6 DEF LoopStep

LEMMA IntentMoves ==
    ASSUME TaskTypes, [Tasks_Next]_taskVars PROVE IntentMove
<1>1. CASE \/ LoopStep \/ ReaperStep \/ UNCHANGED taskVars
           \/ \E w \in Slots : WorkerStep(w) \/ \E t \in Tasks : ScheduleChild(w, t)
  BY <1>1, LoopIntents
<1>2. CASE Environment \/ Fault \/ \E t \in Tasks : Watchdog(t)
  BY <1>2, EnvironmentIntents
<1>3. CASE \E th \in Threads : CustodyStep(th) \/ CascadeStep(th)
  BY <1>3, CustodyIntents, CascadeIntents
<1> QED
  BY <1>1, <1>2, <1>3 DEF Tasks_Next

---------------------------------------------------------------------------
(* What a step may do to the queues: only the admission of a task that no  *)
(* fence refuses, and a custody that hands a task back, put one on it.      *)
HandedBack(x) == \E th \in Threads : custody[th].pc = "pwrite" /\ custody[th].task = x

QueueMove ==
    /\ owed \subseteq owed' /\ owed' \subseteq Tasks
    /\ snapshot' \subseteq Known /\ pending' \subseteq Known /\ fences' \subseteq Tasks
    /\ running' \in [Tasks -> Slots \cup {NoSlot}] /\ attempt' \in [Tasks -> {1, 2}]
    /\ \A x \in Tasks : running'[x] # NoSlot => x \in Known
    /\ Crash \/ ( /\ fences \subseteq fences'
                  /\ \A x \in Tasks :
                        OnQueue(x)' => OnQueue(x) \/ ~Fenced(x) \/ HandedBack(x) )

\* A step that leaves the queues alone, but for the snapshot and the answers owed.
LEMMA QueuesRest ==
    ASSUME QueueTypes, UNCHANGED queueVars, owed \subseteq owed', owed' \subseteq Tasks,
           snapshot' = snapshot \/ snapshot' = pending
    PROVE  QueueMove
BY DEF QueueMove, QueueTypes, queueVars, OnQueue

\* A step that changes the row of one task.
LEMMA OneRunning ==
    ASSUME QueueTypes, NEW t \in Known, NEW w \in Slots \cup {NoSlot},
           running' = [running EXCEPT ![t] = w], w # NoSlot => OnQueue(t),
           owed' = owed, fences' = fences, attempt' \in [Tasks -> {1, 2}],
           snapshot' \subseteq Known, pending' \subseteq Known,
           \A x \in Tasks : x \in pending' => OnQueue(x) \/ ~Fenced(x)
    PROVE  QueueMove
BY KnownAreTasks DEF QueueMove, QueueTypes, OnQueue

\* A step that puts a task on the queue or takes one from it.
LEMMA OnePending ==
    ASSUME QueueTypes, running' = running, attempt' \in [Tasks -> {1, 2}],
           owed \subseteq owed', owed' \subseteq Tasks, fences' = fences,
           snapshot' = snapshot \/ snapshot' = pending', pending' \subseteq Known,
           \A x \in Tasks : x \in pending' => x \in pending \/ ~Fenced(x) \/ HandedBack(x)
    PROVE  QueueMove
BY DEF QueueMove, QueueTypes, OnQueue

\* The queues under the workers and the environment.
LEMMA WorkerQueues ==
    ASSUME TaskTypes,
           \/ \E w \in Slots : WorkerStep(w) \/ \E t \in Tasks : ScheduleChild(w, t)
           \/ Environment \/ UNCHANGED taskVars \/ \E t \in Tasks : Watchdog(t)
    PROVE  QueueMove
<1>0. QueueTypes
  BY DEF TaskTypes
<1>1. CASE \/ \E w \in Slots : WorkerStep(w) \/ \E t \in Tasks : ScheduleChild(w, t)
           \/ \E w \in Slots : WorkerDies(w)
           \/ \E t \in Tasks : Watchdog(t)
           \/ \E t \in Tasks : RequestByWorker(t)
           \/ \E c \in Clients, t \in Tasks : RequestSingle(c, t) \/ RequestCascade(c, t)
           \/ UNCHANGED taskVars
  <2>1. UNCHANGED <<queueVars, owed, snapshot>>
    BY <1>1 DEF WorkerStep, StartTask, FinishTask, EmitDone, ScheduleChild, WorkerDies, Watchdog,
       RequestByWorker, RequestSingle, RequestCascade, durableVars, taskVars
  <2> QED
    BY <1>0, <2>1, QueuesRest DEF QueueTypes
<1>2. ASSUME NEW t \in Tasks, Timeout(t) PROVE QueueMove
  <2>1. t \in Known
    BY <1>0, <1>2 DEF Timeout, QueueTypes
  <2>2. /\ running' = [running EXCEPT ![t] = NoSlot] /\ snapshot' = pending
        /\ owed' = owed /\ fences' = fences /\ pending' = pending /\ attempt' = attempt
    BY <1>2 DEF Timeout
  <2> QED
    BY <1>0, <2>1, <2>2, OneRunning DEF QueueTypes, OnQueue
<1>3. CASE Crash
  <2>1. /\ pending' \subseteq snapshot /\ (snapshot' = snapshot \/ snapshot' = pending')
        /\ running' = [t \in Tasks |-> NoSlot] /\ fences' = {} /\ owed' = owed
        /\ attempt' = attempt
    BY <1>3 DEF Crash
  <2> QED
    BY <1>0, <1>3, <2>1 DEF QueueMove, QueueTypes
<1> QED
  BY <1>1, <1>2, <1>3 DEF Environment

\* The queues under the supervisor loop.
LEMMA LoopQueues ==
    ASSUME TaskTypes, LoopStep \/ \E t \in Tasks : DropPendingFails(t) PROVE QueueMove
<1>0. QueueTypes
  BY DEF TaskTypes
<1>1. CASE HandleSchedule
  <2> DEFINE t == Head(events).task
  <2>1. t \in Known
    BY <1>1, HeadEvent DEF HandleSchedule, TaskTypes
  <2>2. /\ pending' = pending \cup (IF Fenced(t) THEN {} ELSE {t}) /\ snapshot' = pending'
        /\ owed' = owed /\ running' = running /\ attempt' = attempt /\ fences' = fences
    BY <1>1 DEF HandleSchedule, Enqueued
  <2> HIDE DEF t
  <2>3. pending' \subseteq Known /\ \A x \in Tasks : x \in pending' => x \in pending \/ ~Fenced(x)
    BY <1>0, <2>1, <2>2 DEF QueueTypes
  <2> QED
    BY <1>0, <2>2, <2>3, OnePending DEF QueueTypes
<1>2. CASE HandleDone
  <2> DEFINE t == Head(events).task
  <2>1. t \in Known
    BY <1>2, HeadEvent DEF HandleDone, TaskTypes
  <2>2. /\ pending' = pending /\ owed' = owed /\ attempt' = attempt /\ fences' = fences
        /\ snapshot' = snapshot \/ snapshot' = pending
        /\ running' = running \/ running' = [running EXCEPT ![t] = NoSlot]
    BY <1>2 DEF HandleDone
  <2> HIDE DEF t
  <2>3. CASE running' = running
    BY <1>0, <2>2, <2>3, QueuesRest DEF QueueTypes, queueVars
  <2>4. CASE running' = [running EXCEPT ![t] = NoSlot]
    BY <1>0, <2>1, <2>2, <2>4, OneRunning DEF QueueTypes, OnQueue
  <2> QED
    BY <2>2, <2>3, <2>4
<1>3. ASSUME NEW t \in Tasks, DropPending(t) PROVE QueueMove
  <2>1. /\ pending' = pending \ {t} /\ owed' = owed /\ snapshot' = snapshot
        /\ running' = running /\ attempt' = attempt /\ fences' = fences
    BY <1>3 DEF DropPending
  <2> QED
    BY <1>0, <2>1, OnePending DEF QueueTypes
<1>6. ASSUME NEW t \in Tasks, DropPendingFails(t) PROVE QueueMove
  <2>1. /\ pending' = pending \ {t} /\ owed' = owed /\ snapshot' = snapshot
        /\ running' = running /\ attempt' = attempt /\ fences' = fences
    BY <1>6 DEF DropPendingFails
  <2> QED
    BY <1>0, <2>1, OnePending DEF QueueTypes
<1>4. ASSUME NEW t \in Tasks, NEW w \in Slots, Assign(w, t) PROVE QueueMove
  <2>1. /\ t \in pending /\ pending' = pending \ {t} /\ snapshot' = pending'
        /\ running' = [running EXCEPT ![t] = w]
        /\ owed' = owed /\ attempt' = attempt /\ fences' = fences
    BY <1>4 DEF Assign
  <2>2. t \in Known /\ OnQueue(t) /\ pending' \subseteq Known
    BY <1>0, <2>1 DEF QueueTypes, OnQueue
  <2> QED
    BY <1>0, <2>1, <2>2, OneRunning DEF QueueTypes, OnQueue
<1>5. ASSUME NEW w \in Slots, DetectCrash(w) PROVE QueueMove
  <2> DEFINE t == slots[w].busy
  <2>1. owed' = owed /\ snapshot' = snapshot /\ fences' = fences
    BY <1>5 DEF DetectCrash
  <2>2. CASE ~(t # NoTask /\ running[t] # NoSlot)
    <3>1. UNCHANGED queueVars
      BY <1>5, <2>2 DEF DetectCrash, queueVars
    <3> QED
      BY <1>0, <2>1, <3>1, QueuesRest DEF QueueTypes
  <2>3. CASE t # NoTask /\ running[t] # NoSlot
    <3>1. t \in Known
      BY <2>3 DEF TaskTypes, SlotTypes, SlotType
    <3>2. /\ running' = [running EXCEPT ![t] = NoSlot]
          /\ pending' = pending \/ (pending' = pending \cup {t} /\ ~Fenced(t))
          /\ attempt' = attempt \/ attempt' = [attempt EXCEPT ![t] = 2]
      <4>1. PICK retried \in BOOLEAN :
               /\ running' = [running EXCEPT ![t] = NoSlot]
               /\ pending' = IF retried /\ ~Fenced(t) THEN pending \cup {t} ELSE pending
               /\ attempt' = [attempt EXCEPT ![t] = IF retried THEN 2 ELSE @]
        BY <1>5, <2>3 DEF DetectCrash
      <4>2. attempt = [attempt EXCEPT ![t] = attempt[t]]
        BY <1>0 DEF QueueTypes
      <4> QED
        BY <4>1, <4>2
    <3> HIDE DEF t
    <3>3. attempt' \in [Tasks -> {1, 2}] /\ pending' \subseteq Known
      BY <1>0, <3>1, <3>2 DEF QueueTypes
    <3>4. \A x \in Tasks : x \in pending' => OnQueue(x) \/ ~Fenced(x)
      BY <3>2 DEF OnQueue
    <3>5. snapshot' \subseteq Known
      BY <1>0, <2>1 DEF QueueTypes
    <3> QED
      BY <1>0, <2>1, <3>1, <3>2, <3>3, <3>4, <3>5, OneRunning
  <2> QED
    BY <2>2, <2>3
<1> QED
  BY <1>1, <1>2, <1>3, <1>4, <1>5, <1>6 DEF LoopStep

\* The queues under the reaper.
LEMMA ReaperQueues ==
    ASSUME TaskTypes, ReaperStep \/ ReaperFault PROVE QueueMove
<1>0. QueueTypes
  BY DEF TaskTypes
<1>1. reaper.pc # "idle" => reaper.task \in Known /\ reaper.task \in Tasks
  BY KnownAreTasks DEF TaskTypes, ReapTypes, Job
<1>2. CASE ReapTake \/ ReapKill \/ ReapCheck \/ ReapWrite \/ ReapRespawn \/ ReaperFault
  <2>1. /\ UNCHANGED queueVars /\ (snapshot' = snapshot \/ snapshot' = pending)
        /\ owed' = owed \/ (owed' = owed \cup ({reaper.task} \ Subagents) /\ reaper.pc # "idle")
    BY <1>2 DEF ReapTake, ReapKill, ReapCheck, ReapWrite, ReapRespawn, ReaperFault, ReapWedged,
       ReapWriteFails, ReapRetryFails, ReapRespawnFails, durableVars, Owing
  <2>2. owed \subseteq owed' /\ owed' \subseteq Tasks
    BY <1>0, <1>1, <2>1 DEF QueueTypes
  <2> QED
    BY <1>0, <2>1, <2>2, QueuesRest
<1>3. CASE ReapRetry
  <2> DEFINE t == reaper.task
             r == Retry[t]
  <2>1. t \in Tasks /\ r \in Known
    BY <1>1, <1>3 DEF ReapRetry, TaskTypes, ReapTypes
  <2>2. /\ pending' = pending \cup (IF Fenced(r) THEN {} ELSE {r})
        /\ owed' = owed \/ owed' = owed \cup ({t} \ Subagents)
        /\ snapshot' = snapshot /\ running' = running /\ attempt' = [attempt EXCEPT ![r] = 2]
        /\ fences' = fences
    BY <1>3 DEF ReapRetry, Enqueued, Owing
  <2> HIDE DEF t, r
  <2>3. /\ pending' \subseteq Known /\ owed \subseteq owed' /\ owed' \subseteq Tasks
        /\ attempt' \in [Tasks -> {1, 2}]
        /\ \A x \in Tasks : x \in pending' => x \in pending \/ ~Fenced(x)
    BY <1>0, <2>1, <2>2 DEF QueueTypes
  <2> QED
    BY <1>0, <2>2, <2>3, OnePending
<1> QED
  BY <1>2, <1>3 DEF ReaperStep

\* The queues under the custodies.
LEMMA CustodyQueues ==
    ASSUME TaskTypes, NEW th \in Threads, CustodyStep(th) \/ CustodyFault(th) PROVE QueueMove
<1>0. QueueTypes
  BY DEF TaskTypes
<1> DEFINE t == custody[th].task
<1>1. custody[th].pc \notin {"idle", "respawn"} => t \in Known /\ t \in Tasks
  BY KnownAreTasks DEF TaskTypes, ThreadTypes, CustodyShape
<1>2. CASE \/ Claim(th) \/ WritePending(th) \/ KillWorker(th) \/ WriteRunning(th)
           \/ WriteRefused(th) \/ Miss(th) \/ RegisterOwed(th) \/ Settle(th) \/ Respawn(th)
           \/ WorkerSurvives(th) \/ WriteRunningFails(th) \/ MissFails(th) \/ OwedFails(th)
           \/ RespawnFails(th)
  <2>1. /\ UNCHANGED queueVars /\ (snapshot' = snapshot \/ snapshot' = pending)
        /\ owed' = owed \/ (owed' = owed \cup ({t} \ Subagents) /\ custody[th].pc = "owed")
    <3>1. CASE \/ Claim(th) \/ WritePending(th) \/ KillWorker(th) \/ WriteRunning(th)
               \/ WriteRefused(th) \/ Miss(th) \/ WorkerSurvives(th) \/ WriteRunningFails(th)
               \/ MissFails(th) \/ Respawn(th) \/ RespawnFails(th)
      BY <3>1 DEF Claim, WritePending, KillWorker, WriteRunning, WriteRefused, Miss,
         WorkerSurvives, WriteRunningFails, MissFails, Respawn, RespawnFails
    <3>2. CASE RegisterOwed(th)
      BY <3>2 DEF RegisterOwed, Active
    <3>3. CASE Settle(th) \/ OwedFails(th)
      <4>1. UNCHANGED queueVars /\ owed' = owed
        BY <3>3 DEF Settle, OwedFails
      <4>2. custody[th].then \in {"publish", "emit", "end"}
        BY DEF TaskTypes, ThreadTypes, CustodyType, Thens
      <4>3. CASE custody[th].then = "publish"
        BY <3>3, <4>1, <4>3 DEF Settle, OwedFails
      <4>4. CASE custody[th].then = "emit"
        BY <3>3, <4>1, <4>4 DEF Settle, OwedFails
      <4>5. CASE custody[th].then = "end"
        BY <3>3, <4>1, <4>5 DEF Settle, OwedFails
      <4> QED
        BY <4>2, <4>3, <4>4, <4>5
    <3> QED
      BY <1>2, <3>1, <3>2, <3>3
  <2> HIDE DEF t
  <2>2. owed \subseteq owed' /\ owed' \subseteq Tasks
    BY <1>0, <1>1, <2>1 DEF QueueTypes
  <2> QED
    BY <1>0, <2>1, <2>2, QueuesRest
<1>3. CASE \/ CapturePending(th) \/ CaptureRunning(th) \/ CaptureNothing(th)
           \/ WritePendingFails(th)
  <2>1. /\ owed' = owed /\ snapshot' = snapshot /\ running' = running /\ attempt' = attempt
        /\ fences' = fences
        /\ \/ pending' = pending \ {t}
           \/ pending' = pending \cup {t} /\ custody[th].pc = "pwrite"
    BY <1>3 DEF CapturePending, CaptureRunning, CaptureNothing, WritePendingFails, durableVars,
       Active
  <2>2. /\ pending' \subseteq Known
        /\ \A x \in Tasks : x \in pending' => x \in pending \/ HandedBack(x)
    BY <1>0, <1>1, <2>1 DEF QueueTypes, HandedBack
  <2> QED
    BY <1>0, <2>1, <2>2, OnePending DEF QueueTypes
<1>4. CASE Publish(th)
  <2>1. /\ t \in Known /\ running' = [running EXCEPT ![t] = NoSlot] /\ pending' = pending
        /\ owed' = owed /\ snapshot' = snapshot /\ attempt' = attempt /\ fences' = fences
    BY <1>1, <1>4 DEF Publish, durableVars, Active
  <2> HIDE DEF t
  <2> QED
    BY <1>0, <2>1, OneRunning DEF QueueTypes, OnQueue
<1> QED
  BY <1>2, <1>3, <1>4 DEF CustodyStep, CustodyFault

\* The queues under the cascades.
LEMMA CascadeQueues ==
    ASSUME TaskTypes, NEW th \in Threads, CascadeStep(th) PROVE QueueMove
<1>0. QueueTypes
  BY DEF TaskTypes
<1>1. cascade[th].pc # "idle" => cascade[th].root \in Tasks
  BY KnownAreTasks DEF TaskTypes, ThreadTypes
<1>2. CASE \/ CascadePost(th) \/ CascadeSummary(th) \/ CascadeClose(th)
           \/ \E t \in Tasks : CascadeMint(th, t) \/ CascadeTake(th, t)
  <2>1. /\ UNCHANGED queueVars /\ snapshot' = snapshot
        /\ owed' = owed \/ (owed' = owed \cup {cascade[th].root} /\ cascade[th].pc # "idle")
    BY <1>2 DEF CascadePost, CascadeSummary, CascadeClose, CascadeMint, CascadeTake, durableVars,
       At
  <2> QED
    BY <1>0, <1>1, <2>1, QueuesRest DEF QueueTypes
<1>3. CASE CascadeBegin(th) \/ CascadeSweep(th)
  <2>1. /\ UNCHANGED <<owed, snapshot, pending, running, attempt>>
        /\ fences \subseteq fences' /\ fences' \subseteq fences \cup Tasks
    BY <1>1, <1>3 DEF CascadeBegin, CascadeSweep, durableVars, At, Queued
  <2> QED
    BY <1>0, <2>1 DEF QueueMove, QueueTypes, OnQueue
<1> QED
  BY <1>2, <1>3 DEF CascadeStep

LEMMA QueueMoves ==
    ASSUME TaskTypes, [Tasks_Next]_taskVars PROVE QueueMove
<1>1. CASE LoopStep \/ \E t \in Tasks : DropPendingFails(t)
  BY <1>1, LoopQueues
<1>2. CASE ReaperStep \/ ReaperFault
  BY <1>2, ReaperQueues
<1>3. CASE \/ \E w \in Slots : WorkerStep(w) \/ \E t \in Tasks : ScheduleChild(w, t)
           \/ Environment \/ UNCHANGED taskVars \/ \E t \in Tasks : Watchdog(t)
  BY <1>3, WorkerQueues
<1>4. CASE \E th \in Threads : CustodyStep(th) \/ CustodyFault(th) \/ CascadeStep(th)
  BY <1>4, CustodyQueues, CascadeQueues
<1> QED
  BY <1>1, <1>2, <1>3, <1>4 DEF Tasks_Next, Fault

\* RUNNING gains a task only by its assignment.
LEMMA RunningMoves ==
    ASSUME TaskTypes, [Tasks_Next]_taskVars, ~Crash
    PROVE  Running' \subseteq Running \/ \E w \in Slots, t \in Tasks : Assign(w, t)
<1>0. running \in [Tasks -> Slots \cup {NoSlot}]
  BY DEF TaskTypes, QueueTypes
<1>1. running' = running => Running' \subseteq Running
  BY DEF Running
<1>2. ASSUME NEW t, running' = [running EXCEPT ![t] = NoSlot] PROVE Running' \subseteq Running
  BY <1>0, <1>2 DEF Running
<1>3. CASE LoopStep \/ \E t \in Tasks : DropPendingFails(t)
  BY <1>1, <1>2, <1>3 DEF LoopStep, HandleSchedule, HandleDone, DropPending, DropPendingFails,
     DetectCrash
<1>4. CASE ReaperStep \/ ReaperFault
  BY <1>1, <1>4 DEF ReaperStep, ReapTake, ReapKill, ReapCheck, ReapWrite, ReapRetry, ReapRespawn,
     ReaperFault, ReapWedged, ReapWriteFails, ReapRetryFails, ReapRespawnFails, queueVars
<1>5. CASE \E w \in Slots : WorkerStep(w) \/ \E t \in Tasks : ScheduleChild(w, t)
  BY <1>1, <1>5 DEF WorkerStep, StartTask, FinishTask, EmitDone, ScheduleChild, queueVars
<1>6. CASE Environment \/ UNCHANGED taskVars \/ \E t \in Tasks : Watchdog(t)
  BY <1>1, <1>2, <1>6 DEF Environment, WorkerDies, Timeout, RequestByWorker, RequestSingle,
                          RequestCascade, Watchdog, queueVars, taskVars
<1>7. ASSUME NEW th \in Threads, CustodyStep(th) PROVE Running' \subseteq Running
  BY <1>1, <1>2, <1>7 DEF CustodyStep, Claim, CapturePending, CaptureRunning, CaptureNothing,
     WritePending, KillWorker, WriteRunning, WriteRefused, Miss, RegisterOwed, Settle, Publish,
     Respawn, queueVars
<1>8. ASSUME NEW th \in Threads, CustodyFault(th) PROVE Running' \subseteq Running
  BY <1>1, <1>8 DEF CustodyFault, WritePendingFails, WorkerSurvives, WriteRunningFails, MissFails,
     OwedFails, RespawnFails, queueVars
<1>9. ASSUME NEW th \in Threads, CascadeStep(th) PROVE Running' \subseteq Running
  BY <1>1, <1>9 DEF CascadeStep, CascadeBegin, CascadeSweep, CascadePost, CascadeSummary,
     CascadeClose, CascadeMint, CascadeTake, queueVars
<1> QED
  BY <1>3, <1>4, <1>5, <1>6, <1>7, <1>8, <1>9 DEF Tasks_Next, Fault

---------------------------------------------------------------------------
(* The walk up the ancestry of a task. *)

\* Whatever is closed under the walk contains what the walk reaches.
LEMMA WalkStaysIn ==
    ASSUME NEW t \in Tasks, NEW rows, NEW up \in SUBSET Tasks,
           Parent[t] \in up \cup {NoTask},
           \A x \in up \cap rows : Parent[x] \in up \cup {NoTask}
    PROVE  Ancestors(t, rows) \subseteq up
BY DEF Ancestors

\* The walk goes on from every row it finds.
LEMMA WalkGoesOn ==
    ASSUME NEW t \in Tasks, NEW rows
    PROVE  /\ Ancestors(t, rows) \in SUBSET Tasks
           /\ Parent[t] \in Ancestors(t, rows) \cup {NoTask}
           /\ \A x \in Ancestors(t, rows) \cap rows : Parent[x] \in Ancestors(t, rows) \cup {NoTask}
<1>1. Parent[t] \in Tasks \cup {NoTask} /\ \A x \in Tasks : Parent[x] \in Tasks \cup {NoTask}
  OBVIOUS
<1> QED
  BY <1>1 DEF Ancestors

\* With more rows to look up it reaches no less.
LEMMA FartherWalk ==
    ASSUME NEW t \in Tasks, NEW rows, NEW more, rows \subseteq more
    PROVE  Ancestors(t, rows) \subseteq Ancestors(t, more)
BY WalkGoesOn, WalkStaysIn

\* What one more row brings is reached from that row.
LEMMA OneMoreRow ==
    ASSUME NEW t \in Tasks, NEW rows, NEW p \in Tasks, NEW a,
           a \in Ancestors(t, rows \cup {p}), a \notin Ancestors(t, rows)
    PROVE  a \in Ancestors(p, rows) /\ a # p
<1> DEFINE near == Ancestors(t, rows)
           far  == Ancestors(p, rows)
<1>1. /\ near \in SUBSET Tasks /\ Parent[t] \in near \cup {NoTask}
      /\ \A x \in near \cap rows : Parent[x] \in near \cup {NoTask}
  BY WalkGoesOn
<1>2. /\ far \in SUBSET Tasks /\ Parent[p] \in far \cup {NoTask}
      /\ \A x \in far \cap rows : Parent[x] \in far \cup {NoTask}
  BY WalkGoesOn
<1> HIDE DEF near, far
<1>3. Ancestors(t, rows \cup {p}) \subseteq near \cup far
  <2> DEFINE both == near \cup far
             wide == rows \cup {p}
  <2>1. both \in SUBSET Tasks /\ Parent[t] \in both \cup {NoTask}
    BY <1>1, <1>2
  <2>2. \A x \in both \cap wide : Parent[x] \in both \cup {NoTask}
    BY <1>1, <1>2
  <2> HIDE DEF both, wide
  <2>3. Ancestors(t, wide) \subseteq both
    BY <2>1, <2>2, WalkStaysIn
  <2> QED
    BY <2>3 DEF both, wide
<1>4. p \notin near => Ancestors(t, rows \cup {p}) \subseteq near
  <2>1. p \notin near => \A x \in near \cap (rows \cup {p}) : Parent[x] \in near \cup {NoTask}
    BY <1>1
  <2> QED
    BY <1>1, <2>1, WalkStaysIn
<1> QED
  BY <1>3, <1>4 DEF near, far

\* The ancestors of a task with a row have one.
LEMMA AncestorsKnown ==
    ASSUME Lineage, NEW t \in Known, NEW rows PROVE Ancestors(t, rows) \subseteq Known
BY KnownAreTasks, WalkStaysIn DEF Lineage

---------------------------------------------------------------------------
(* What a step may do to the slots. *)
Works(s)  == s \in SlotType /\ (s.proc \in {"working", "finishing"} => s.job \in Known)
SlotsStay == slots' \in [Slots -> SlotType] /\ \A w \in Slots : Works(slots'[w])

\* Killing, marking, freeing and replacing the process of a slot.
LEMMA SlotFields ==
    ASSUME NEW s, Works(s)
    PROVE  /\ Works([s EXCEPT !.proc = "dead"])
           /\ \A b \in BOOLEAN : Works([s EXCEPT !.reaping = b])
           /\ Works([s EXCEPT !.busy = NoTask])
           /\ Works(FreshSlot) /\ Works([FreshSlot EXCEPT !.inc = s.inc + 1])
<1>1. s.inc \in Nat /\ s.inc + 1 \in Nat
  BY DEF Works, SlotType
<1>2. FreshSlot \in SlotType /\ FreshSlot.proc = "idle"
  BY DEF FreshSlot, SlotType
<1> QED
  BY <1>1, <1>2 DEF Works, SlotType

LEMMA OneSlot ==
    ASSUME SlotTypes, NEW w \in Slots, NEW s, Works(s), slots' = [slots EXCEPT ![w] = s]
    PROVE  SlotsStay
BY DEF SlotTypes, SlotsStay, Works

LEMMA SlotsRest ==
    ASSUME SlotTypes, slots' = slots PROVE SlotsStay
BY DEF SlotTypes, SlotsStay, Works

LEMMA SlotsWork ==
    SlotTypes => \A w \in Slots : Works(slots[w])
BY DEF SlotTypes, Works

\* Killing a process that the slot may no longer hold.
LEMMA KilledSlots ==
    ASSUME SlotTypes, NEW w \in Slots, NEW i,
           slots' = Killed(w, i) \/ slots' = Unreaped(w, i)
           \/ slots' = [slots EXCEPT ![w] = Respawned(w)]
           \/ \E b \in BOOLEAN : slots' = [slots EXCEPT ![w].reaping = b]
    PROVE  SlotsStay
<1>1. slots \in [Slots -> SlotType] /\ Works(slots[w])
  BY SlotsWork DEF SlotTypes
<1>2. \E s : Works(s) /\ slots' = [slots EXCEPT ![w] = s]
  <2>1. CASE slots' = Killed(w, i)
    <3>1. slots' = [slots EXCEPT ![w] = slots[w]]
          \/ slots' = [slots EXCEPT ![w] = [slots[w] EXCEPT !.proc = "dead"]]
      BY <1>1, <2>1 DEF Killed
    <3> QED
      BY <1>1, <3>1, SlotFields
  <2>2. CASE slots' = Unreaped(w, i) \/ \E b \in BOOLEAN : slots' = [slots EXCEPT ![w].reaping = b]
    <3>1. slots' = [slots EXCEPT ![w] = slots[w]]
          \/ \E b \in BOOLEAN : slots' = [slots EXCEPT ![w] = [slots[w] EXCEPT !.reaping = b]]
      BY <1>1, <2>2 DEF Unreaped
    <3> QED
      BY <1>1, <3>1, SlotFields
  <2>3. CASE slots' = [slots EXCEPT ![w] = Respawned(w)]
    BY <1>1, <2>3, SlotFields DEF Respawned
  <2> QED
    BY <2>1, <2>2, <2>3
<1> QED
  BY <1>2, OneSlot

\* The workers' slots.
LEMMA WorkerSlots ==
    ASSUME TaskTypes, NEW w \in Slots, WorkerStep(w) \/ WorkerDies(w) PROVE SlotsStay
<1>1. SlotTypes /\ slots[w] \in SlotType /\ Works(slots[w])
  BY SlotsWork DEF TaskTypes, SlotTypes
<1> DEFINE s == slots[w]
<1>2. CASE StartTask(w)
  <2> DEFINE t == Head(s.inq)
             a == [s EXCEPT !.proc = "working"]
             b == [a EXCEPT !.job = t]
             c == [b EXCEPT !.inq = Tail(s.inq)]
  <2>1. t \in Known /\ Tail(s.inq) \in Seq(Known)
    BY <1>1, <1>2 DEF StartTask, SlotType
  <2>2. slots' = [slots EXCEPT ![w].proc = "working", ![w].job = t, ![w].inq = Tail(@)]
    BY <1>2 DEF StartTask
  <2>3. slots' = [slots EXCEPT ![w] = c]
    BY <1>1, <2>2 DEF SlotTypes, SlotType
  <2>4. a \in SlotType
    BY <1>1 DEF SlotType
  <2> HIDE DEF a, t
  <2>5. b \in SlotType /\ b.job = t
    BY <2>1, <2>4 DEF SlotType
  <2> HIDE DEF b
  <2>6. c \in SlotType /\ c.job = t
    BY <2>1, <2>5 DEF SlotType
  <2> HIDE DEF c
  <2> QED
    BY <1>1, <2>1, <2>3, <2>6, OneSlot DEF Works
<1>3. CASE FinishTask(w)
  <2> DEFINE a == [s EXCEPT !.proc = "finishing"]
  <2>1. slots' = [slots EXCEPT ![w] = a] /\ s.proc = "working"
    BY <1>1, <1>3 DEF FinishTask, SlotTypes
  <2>2. Works(a)
    BY <1>1, <2>1 DEF Works, SlotType
  <2> HIDE DEF a
  <2> QED
    BY <1>1, <2>1, <2>2, OneSlot
<1>4. CASE EmitDone(w)
  <2> DEFINE a == [s EXCEPT !.proc = "idle"]
             b == [a EXCEPT !.job = NoTask]
  <2>1. slots' = [slots EXCEPT ![w] = b]
    BY <1>1, <1>4 DEF EmitDone, SlotTypes
  <2>2. a \in SlotType /\ a.proc = "idle"
    BY <1>1 DEF SlotType
  <2> HIDE DEF a
  <2>3. Works(b)
    BY <2>2 DEF Works, SlotType
  <2> HIDE DEF b
  <2> QED
    BY <1>1, <2>1, <2>3, OneSlot
<1>5. CASE WorkerDies(w)
  <2> DEFINE a == [s EXCEPT !.proc = "dead"]
  <2>1. slots' = [slots EXCEPT ![w] = a]
    BY <1>1, <1>5 DEF WorkerDies, SlotTypes
  <2>2. Works(a)
    BY <1>1, SlotFields
  <2> HIDE DEF a
  <2> QED
    BY <1>1, <2>1, <2>2, OneSlot
<1> QED
  BY <1>2, <1>3, <1>4, <1>5 DEF WorkerStep

\* The slots under the supervisor loop.
LEMMA LoopSlots ==
    ASSUME TaskTypes, LoopStep \/ \E t \in Tasks : Timeout(t) \/ DropPendingFails(t)
    PROVE  SlotsStay
<1>1. SlotTypes /\ slots \in [Slots -> SlotType] /\ \A w \in Slots : Works(slots[w])
  BY SlotsWork DEF TaskTypes, SlotTypes
<1>2. CASE HandleSchedule \/ \E t \in Tasks : DropPending(t) \/ DropPendingFails(t)
  BY <1>1, <1>2, SlotsRest DEF HandleSchedule, DropPending, DropPendingFails
<1>3. CASE HandleDone
  <2> DEFINE freed(w) == [slots[w] EXCEPT !.busy = NoTask]
  <2>1. slots' = slots \/ \E A \in SUBSET Slots :
           slots' = [w \in Slots |-> IF w \in A THEN freed(w) ELSE slots[w]]
    <3> DEFINE e == Head(events)
               A == {w \in Slots : w = e.slot /\ slots[w].busy = e.task /\ ~slots[w].reaping}
    <3>1. slots' = slots \/ slots' = [w \in Slots |-> IF w \in A THEN freed(w) ELSE slots[w]]
      BY <1>3 DEF HandleDone
    <3> QED
      BY <3>1
  <2>2. \A w \in Slots : Works(freed(w))
    BY <1>1, SlotFields
  <2> HIDE DEF freed
  <2>3. slots' = slots \/ ( /\ slots' \in [Slots -> SlotType]
                            /\ \A w \in Slots : slots'[w] = freed(w) \/ slots'[w] = slots[w] )
    <3>1. \A w \in Slots : freed(w) \in SlotType
      BY <2>2 DEF Works
    <3> QED
      BY <1>1, <2>1, <3>1
  <2> QED
    BY <1>1, <2>2, <2>3 DEF SlotsStay
<1>4. ASSUME NEW t \in Tasks, NEW w \in Slots, Assign(w, t) PROVE SlotsStay
  <2> DEFINE a == [slots[w] EXCEPT !.busy = t]
             b == [a EXCEPT !.inq = Append(slots[w].inq, t)]
  <2>1. t \in Known
    BY <1>4 DEF Assign, TaskTypes, QueueTypes
  <2>2. slots' = [slots EXCEPT ![w].busy = t, ![w].inq = Append(@, t)]
    BY <1>4 DEF Assign
  <2>3. slots' = [slots EXCEPT ![w] = b]
    BY <1>1, <2>2, SMTT(40) DEF SlotType
  <2>4. Works(a) /\ a \in SlotType
    BY <1>1, <2>1 DEF Works, SlotType
  <2>5. Append(slots[w].inq, t) \in Seq(Known)
    BY <1>1, <2>1 DEF SlotType
  <2> HIDE DEF a
  <2>6. Works(b)
    BY <2>4, <2>5 DEF Works, SlotType
  <2> HIDE DEF b
  <2> QED
    BY <1>1, <2>3, <2>6, OneSlot
<1>5. ASSUME NEW w \in Slots, DetectCrash(w) PROVE SlotsStay
  BY <1>1, <1>5, KilledSlots DEF DetectCrash
<1>6. ASSUME NEW t \in Tasks, Timeout(t) PROVE SlotsStay
  <2> DEFINE w == running[t]
             a == [slots[w] EXCEPT !.reaping = TRUE]
             b == [a EXCEPT !.busy = IF slots[w].busy = t THEN NoTask ELSE slots[w].busy]
  <2>0. w # NoSlot
    BY <1>6 DEF Timeout
  <2>1. w \in Slots
    BY <2>0 DEF TaskTypes, QueueTypes
  <2>2. slots' = [slots EXCEPT ![w].reaping = TRUE, ![w].busy = IF @ = t THEN NoTask ELSE @]
    BY <1>6 DEF Timeout
  <2> HIDE DEF w
  <2>3. slots' = [slots EXCEPT ![w] = b]
    BY <1>1, <2>1, <2>2 DEF SlotType
  <2>4. Works(a) /\ a.busy = slots[w].busy
    <3>1. Works(slots[w]) /\ TRUE \in BOOLEAN
      BY <1>1, <2>1
    <3>2. Works(a)
      BY <3>1, SlotFields
    <3> QED
      BY <3>1, <3>2 DEF Works, SlotType
  <2>5. b = [a EXCEPT !.busy = NoTask] \/ b = a
    BY <2>4 DEF Works, SlotType
  <2> HIDE DEF a
  <2>6. Works(b)
    BY <2>4, <2>5, SlotFields
  <2> HIDE DEF b
  <2> QED
    BY <1>1, <2>1, <2>3, <2>6, OneSlot
<1> QED
  BY <1>2, <1>3, <1>4, <1>5, <1>6 DEF LoopStep

\* The slots under the reaper and the custodies, and after a crash.
LEMMA OtherSlots ==
    ASSUME TaskTypes,
           \/ ReaperStep \/ ReaperFault \/ Crash
           \/ \E th \in Threads : CustodyStep(th) \/ CustodyFault(th)
    PROVE  SlotsStay
<1>1. SlotTypes /\ slots \in [Slots -> SlotType] /\ \A w \in Slots : Works(slots[w])
  BY SlotsWork DEF TaskTypes, SlotTypes
<1>2. reaper.pc # "idle" => reaper.slot \in Slots
  BY DEF TaskTypes, ReapTypes, Job
<1>3. CASE \/ ReapTake \/ ReapCheck \/ ReapWrite \/ ReapRetry
           \/ ReapWedged \/ ReapWriteFails \/ ReapRetryFails
  BY <1>1, <1>3, SlotsRest DEF ReapTake, ReapCheck, ReapWrite, ReapRetry, ReapWedged,
     ReapWriteFails, ReapRetryFails
<1>4. CASE ReapKill \/ ReapRespawn \/ ReapRespawnFails
  <2>1. /\ reaper.slot \in Slots
        /\ \/ slots' = Killed(reaper.slot, reaper.inc)
           \/ slots' = [slots EXCEPT ![reaper.slot] = Respawned(reaper.slot)]
           \/ slots' = [slots EXCEPT ![reaper.slot].reaping = FALSE]
    BY <1>2, <1>4 DEF ReapKill, ReapRespawn, ReapRespawnFails
  <2> QED
    BY <1>1, <2>1, KilledSlots
<1>5. CASE Crash
  <2>1. slots' = [w \in Slots |-> FreshSlot]
    BY <1>5 DEF Crash
  <2>2. FreshSlot \in SlotType /\ Works(FreshSlot)
    BY DEF FreshSlot, SlotType, Works
  <2> QED
    BY <2>1, <2>2 DEF SlotsStay
<1>6. ASSUME NEW th \in Threads, CustodyStep(th) \/ CustodyFault(th) PROVE SlotsStay
  <2> DEFINE c == custody[th]
  <2>1. c.pc \in {"kill", "write", "respawn"} => c.slot \in Slots
    BY DEF TaskTypes, ThreadTypes, CustodyShape
  <2>2. CASE \/ Claim(th) \/ CapturePending(th) \/ CaptureNothing(th) \/ WritePending(th)
             \/ WriteRunning(th) \/ Miss(th) \/ RegisterOwed(th) \/ Settle(th) \/ Publish(th)
             \/ WritePendingFails(th) \/ MissFails(th) \/ OwedFails(th)
    <3>1. slots' = slots
      BY <2>2 DEF Claim, CapturePending, CaptureNothing, WritePending, WriteRunning, Miss,
         RegisterOwed, Settle, Publish, WritePendingFails, MissFails, OwedFails
    <3> QED
      BY <1>1, <3>1, SlotsRest
  <2>3. CASE CaptureRunning(th)
    <3>1. PICK w \in Slots : slots' = slots \/ slots' = [slots EXCEPT ![w].reaping = TRUE]
      BY <2>3 DEF CaptureRunning, Holders
    <3> QED
      BY <1>1, <3>1, SlotsRest, KilledSlots
  <2>4. CASE \/ KillWorker(th) \/ WorkerSurvives(th) \/ WriteRunningFails(th) \/ WriteRefused(th)
             \/ Respawn(th) \/ RespawnFails(th)
    <3>1. /\ c.slot \in Slots
          /\ \/ slots' = Killed(c.slot, c.inc) \/ slots' = Unreaped(c.slot, c.inc)
             \/ slots' = [slots EXCEPT ![c.slot] = Respawned(c.slot)]
             \/ slots' = [slots EXCEPT ![c.slot].reaping = FALSE]
      BY <2>1, <2>4 DEF KillWorker, WorkerSurvives, WriteRunningFails, WriteRefused, Respawn,
         RespawnFails, Active
    <3> QED
      BY <1>1, <3>1, KilledSlots
  <2> QED
    BY <1>6, <2>2, <2>3, <2>4 DEF CustodyStep, CustodyFault
<1> QED
  BY <1>3, <1>4, <1>5, <1>6 DEF ReaperStep, ReaperFault

LEMMA SlotMoves ==
    ASSUME TaskTypes, [Tasks_Next]_taskVars PROVE SlotsStay
<1>1. CASE \/ LoopStep \/ \E t \in Tasks : Timeout(t) \/ DropPendingFails(t)
  BY <1>1, LoopSlots
<1>2. CASE \E w \in Slots : WorkerStep(w) \/ WorkerDies(w)
  BY <1>2, WorkerSlots
<1>3. CASE \/ ReaperStep \/ ReaperFault \/ Crash
           \/ \E th \in Threads : CustodyStep(th) \/ CustodyFault(th)
  BY <1>3, OtherSlots
<1>4. CASE \/ \E w \in Slots : \E t \in Tasks : ScheduleChild(w, t)
           \/ \E t \in Tasks : RequestByWorker(t) \/ Watchdog(t)
           \/ \E c \in Clients, t \in Tasks : RequestSingle(c, t) \/ RequestCascade(c, t)
           \/ \E th \in Threads : CascadeStep(th)
           \/ UNCHANGED taskVars
  <2>1. slots' = slots
    BY <1>4 DEF ScheduleChild, RequestByWorker, RequestSingle, RequestCascade, Watchdog,
       CascadeStep, CascadeBegin, CascadeSweep, CascadeMint, CascadeTake, CascadePost,
       CascadeSummary, CascadeClose, taskVars
  <2> QED
    BY <2>1, SlotsRest DEF TaskTypes
<1> QED
  BY <1>1, <1>2, <1>3, <1>4 DEF Tasks_Next, Fault, Environment

---------------------------------------------------------------------------
(* A task with a row keeps it, so what was well typed stays so. *)
LEMMA KnownGrow ==
    ASSUME ResultTypes, Kept(result')
    PROVE  /\ Known \subseteq Known'
           /\ \A t \in Known' : t \in Known \/ Newcomer(t)
<1>1. \A t \in Tasks : (result[t] # "none" => result'[t] # "none")
                       /\ (result'[t] # result[t] => t \in Known \/ Newcomer(t))
  BY DEF Kept
<1> QED
  BY <1>1 DEF Known

LEMMA TypesGrow ==
    ASSUME Known \subseteq Known'
    PROVE  /\ Seq(Known) \subseteq Seq(Known')
           /\ SlotType \subseteq SlotType' /\ EventType \subseteq EventType'
           /\ Seq(EventType) \subseteq Seq(EventType')
           /\ JobType \subseteq JobType' /\ CustodyType \subseteq CustodyType'
           /\ CascadeType \subseteq CascadeType'
<1>1. Seq(Known) \subseteq Seq(Known')
  OBVIOUS
<1>2. SlotType \subseteq SlotType'
  BY <1>1 DEF SlotType
<1>3. EventType \subseteq EventType'
  BY DEF EventType
<1>4. Seq(EventType) \subseteq Seq(EventType')
  BY <1>3
<1>5. JobType \subseteq JobType' /\ CustodyType \subseteq CustodyType'
  BY DEF JobType, CustodyType
<1>6. CascadeType \subseteq CascadeType'
  BY DEF CascadeType
<1> QED
  BY <1>1, <1>2, <1>3, <1>4, <1>5, <1>6

---------------------------------------------------------------------------
(* The event queue. *)
LEMMA EventAppended ==
    ASSUME EventTypes, NEW t \in Known, NEW w \in Slots \cup {NoSlot}
    PROVE  /\ Append(events, DoneEvent(t, w)) \in Seq(EventType)
           /\ Emitted(t) \in Seq(EventType)
<1>1. NoSlot \in Slots \cup {NoSlot}
  OBVIOUS
<1>2. DoneEvent(t, w) \in EventType /\ DoneEvent(t, NoSlot) \in EventType
  BY <1>1 DEF DoneEvent, EventType
<1> QED
  BY <1>2 DEF EventTypes, Emitted

\* All events but the announcement of a child are of tasks already known.
LEMMA EventMoves ==
    ASSUME TaskTypes, Known \subseteq Known', [Tasks_Next]_taskVars
    PROVE  EventTypes'
<1>1. EventTypes /\ events \in Seq(EventType) /\ Seq(EventType) \subseteq Seq(EventType')
  BY TypesGrow DEF TaskTypes, EventTypes
<1> SUFFICES events' \in Seq(EventType')
  BY DEF EventTypes
<1>2. ASSUME NEW t \in Known, NEW w \in Slots \cup {NoSlot},
             events' = events \/ events' = Append(events, DoneEvent(t, w))
             \/ events' = Emitted(t)
      PROVE  events' \in Seq(EventType)
  <2>1. /\ Append(events, DoneEvent(t, w)) \in Seq(EventType)
        /\ Emitted(t) \in Seq(EventType)
    BY <1>1, EventAppended
  <2> QED
    BY <1>1, <1>2, <2>1
<1>3. CASE events' = events \/ events' = <<>>
  <2>1. <<>> \in Seq(EventType')
    OBVIOUS
  <2> QED
    BY <1>1, <1>3, <2>1
<1>4. ASSUME NEW w \in Slots, EmitDone(w) PROVE events' \in Seq(EventType')
  <2>1. slots[w].job \in Known /\ events' = Append(events, DoneEvent(slots[w].job, w))
    BY <1>4 DEF EmitDone, TaskTypes, SlotTypes
  <2> QED
    BY <1>1, <1>2, <2>1
<1>5. ASSUME NEW w \in Slots, NEW t \in Tasks, ScheduleChild(w, t)
      PROVE  events' \in Seq(EventType')
  <2>1. result' = [result EXCEPT ![t] = "scheduled"] /\ events' = Append(events, ScheduleEvent(t))
    BY <1>5 DEF ScheduleChild
  <2>2. t \in Known'
    BY <2>1 DEF Known, TaskTypes, ResultTypes
  <2>3. ScheduleEvent(t) \in EventType'
    BY <2>2 DEF ScheduleEvent, EventType
  <2> QED
    BY <1>1, <2>1, <2>3
<1>6. CASE HandleSchedule \/ HandleDone
  <2>1. events' = Tail(events) /\ events # <<>>
    BY <1>6 DEF HandleSchedule, HandleDone
  <2> QED
    BY <1>1, <2>1
<1>7. ASSUME NEW t \in Tasks, DropPending(t) PROVE events' \in Seq(EventType')
  <2>1. t \in Known /\ (events' = events \/ events' = Emitted(t))
    BY <1>7 DEF DropPending, TaskTypes, QueueTypes
  <2> QED
    BY <1>1, <1>2, <2>1
<1>8. ASSUME NEW w \in Slots, DetectCrash(w) PROVE events' \in Seq(EventType')
  <2> DEFINE t == slots[w].busy
  <2>1. t \in Known \cup {NoTask}
    BY DEF TaskTypes, SlotTypes, SlotType
  <2>2. events' = events \/ (events' = Emitted(t) /\ t # NoTask)
    BY <1>8 DEF DetectCrash
  <2> QED
    BY <1>1, <1>2, <2>1, <2>2
<1>9. CASE ReapCheck \/ ReapWrite \/ ReapRetry \/ ReapWriteFails \/ ReapRetryFails
  <2>1. reaper.task \in Known
    BY <1>9 DEF ReapCheck, ReapWrite, ReapRetry, ReapWriteFails, ReapRetryFails, TaskTypes,
       ReapTypes, Job
  <2>2. events' = events \/ events' = Emitted(reaper.task)
    BY <1>9 DEF ReapCheck, ReapWrite, ReapRetry, ReapWriteFails, ReapRetryFails
  <2> QED
    BY <1>1, <1>2, <2>1, <2>2
<1>10. ASSUME NEW th \in Threads, Settle(th) \/ OwedFails(th) \/ Publish(th)
       PROVE  events' \in Seq(EventType')
  <2> DEFINE t == custody[th].task
  <2>1. t \in Known /\ custody[th].then \in {"publish", "emit", "end"}
    BY <1>10 DEF Settle, OwedFails, Publish, Active, TaskTypes, ThreadTypes, CustodyShape,
       CustodyType, Thens
  <2>2. events' = events \/ events' = Emitted(t)
    <3>1. CASE Publish(th)
      BY <3>1 DEF Publish
    <3>2. CASE custody[th].then = "publish" /\ (Settle(th) \/ OwedFails(th))
      BY <3>2 DEF Settle, OwedFails
    <3>3. CASE custody[th].then = "emit" /\ (Settle(th) \/ OwedFails(th))
      BY <3>3 DEF Settle, OwedFails
    <3>4. CASE custody[th].then = "end" /\ (Settle(th) \/ OwedFails(th))
      BY <3>4 DEF Settle, OwedFails
    <3> QED
      BY <1>10, <2>1, <3>1, <3>2, <3>3, <3>4
  <2> QED
    BY <1>1, <1>2, <2>1, <2>2
<1>11. ASSUME NEW th \in Threads, CustodyStep(th) \/ CustodyFault(th)
       PROVE  events' \in Seq(EventType')
  <2>1. CASE \/ Claim(th) \/ CapturePending(th) \/ CaptureRunning(th) \/ CaptureNothing(th)
             \/ WritePending(th) \/ KillWorker(th) \/ WriteRunning(th) \/ WriteRefused(th)
             \/ Miss(th) \/ RegisterOwed(th) \/ Respawn(th)
             \/ WritePendingFails(th) \/ WorkerSurvives(th) \/ WriteRunningFails(th)
             \/ MissFails(th) \/ RespawnFails(th)
    <3>1. events' = events
      BY <2>1 DEF Claim, CapturePending, CaptureRunning, CaptureNothing, WritePending, KillWorker,
         WriteRunning, WriteRefused, Miss, RegisterOwed, Respawn, WritePendingFails,
         WorkerSurvives, WriteRunningFails, MissFails, RespawnFails
    <3> QED
      BY <1>3, <3>1
  <2> QED
    BY <1>10, <1>11, <2>1 DEF CustodyStep, CustodyFault
<1>12. CASE \/ \E w \in Slots : StartTask(w) \/ FinishTask(w) \/ WorkerDies(w)
            \/ \E w \in Slots, t \in Tasks : Assign(w, t)
            \/ \E t \in Tasks : Timeout(t) \/ RequestByWorker(t) \/ Watchdog(t) \/ DropPendingFails(t)
            \/ \E c \in Clients, t \in Tasks : RequestSingle(c, t) \/ RequestCascade(c, t)
            \/ ReapTake \/ ReapKill \/ ReapRespawn \/ ReapWedged \/ ReapRespawnFails \/ Crash
            \/ \E th \in Threads : CascadeStep(th)
            \/ UNCHANGED taskVars
  <2>1. events' = events \/ events' = <<>>
    BY <1>12 DEF StartTask, FinishTask, WorkerDies, Assign, Timeout, RequestByWorker, Watchdog,
       DropPendingFails, RequestSingle, RequestCascade, ReapTake, ReapKill, ReapRespawn, ReapWedged,
       ReapRespawnFails, Crash, CascadeStep, CascadeBegin, CascadeSweep, CascadeMint, CascadeTake,
       CascadePost, CascadeSummary, CascadeClose, taskVars
  <2> QED
    BY <1>3, <2>1
<1>13. CASE LoopStep \/ ReaperStep \/ \E w \in Slots : WorkerStep(w) \/ \E t \in Tasks : ScheduleChild(w, t)
  BY <1>4, <1>5, <1>6, <1>7, <1>8, <1>9, <1>12, <1>13 DEF LoopStep, ReaperStep, WorkerStep
<1> QED
  BY <1>9, <1>11, <1>12, <1>13 DEF Tasks_Next, Environment, Fault, ReaperFault

---------------------------------------------------------------------------
(* The reaper and its queue. *)
LEMMA ReaperNext ==
    ASSUME Known \subseteq Known', jobs' \in Seq(Waiting), reaper' \in JobType,
           reaper'.pc # "idle" => reaper'.task \in Known /\ reaper'.slot \in Slots,
           reaper'.pc = "retry" => Retry[reaper'.task] \in Known'
    PROVE  ReapTypes'
<1>1. JobType \subseteq JobType'
  BY TypesGrow
<1>2. Waiting \subseteq Waiting'
  BY <1>1 DEF Waiting, Job
<1>3. jobs' \in Seq(Waiting')
  BY <1>2
<1> QED
  BY <1>1, <1>3 DEF ReapTypes, Job

\* A job moves on in the reaper's hands.
LEMMA ReaperMovesOn ==
    ASSUME ReapTypes, Known \subseteq Known', NEW pc \in JobPcs, reaper.pc # "idle",
           reaper' = [reaper EXCEPT !.pc = pc], jobs' = jobs,
           pc = "retry" => Retry[reaper.task] \in Known'
    PROVE  ReapTypes'
<1>1. Job(reaper) /\ jobs' \in Seq(Waiting)
  BY DEF ReapTypes
<1>2. reaper' \in JobType /\ reaper'.task = reaper.task /\ reaper'.slot = reaper.slot
      /\ reaper'.pc = pc
  BY <1>1 DEF Job, JobType
<1> QED
  BY <1>1, <1>2, ReaperNext DEF Job

LEMMA ReapMoves ==
    ASSUME TaskTypes, Known \subseteq Known', ResultTypes', [Tasks_Next]_taskVars
    PROVE  ReapTypes'
<1>1. ReapTypes /\ jobs \in Seq(Waiting) /\ reaper \in JobType /\ (reaper.pc # "idle" => Job(reaper))
  BY DEF TaskTypes, ReapTypes
<1>2. NoJob \in JobType /\ NoJob.pc = "idle"
  BY DEF NoJob, JobType, JobPcs
<1>3. CASE UNCHANGED reapVars
  BY <1>1, <1>3, ReaperNext DEF ReapTypes, reapVars, Job
<1>4. ASSUME NEW t \in Tasks, Timeout(t) PROVE ReapTypes'
  <2> DEFINE w == running[t]
  <2>1. w # NoSlot /\ reaper' = reaper
    BY <1>4 DEF Timeout
  <2>2. w \in Slots /\ t \in Known
    BY <2>1 DEF TaskTypes, QueueTypes
  <2>3. PICK b \in BOOLEAN :
           jobs' = Append(jobs, [NoJob EXCEPT !.pc = "kill", !.task = t, !.slot = w,
                                   !.inc = slots[w].inc, !.retry = b])
    <3>1. PICK deadline \in BOOLEAN :
             jobs' = Append(jobs, [NoJob EXCEPT !.pc = "kill", !.task = t, !.slot = w,
                       !.inc = slots[w].inc,
                       !.retry = attempt[t] = 1 /\ ~deadline /\ ~\E x \in Descendants(t) : OnQueue(x)])
      BY <1>4 DEF Timeout
    <3> QED
      BY <3>1
  <2> DEFINE j == [NoJob EXCEPT !.pc = "kill", !.task = t, !.slot = w, !.inc = slots[w].inc, !.retry = b]
             a0 == [NoJob EXCEPT !.pc = "kill"]
             a1 == [a0 EXCEPT !.task = t]
             a2 == [a1 EXCEPT !.slot = w]
             a3 == [a2 EXCEPT !.inc = slots[w].inc]
             a4 == [a3 EXCEPT !.retry = b]
  <2>4. slots[w].inc \in Nat
    BY <2>2 DEF TaskTypes, SlotTypes, SlotType
  <2>5. j = a4
    OBVIOUS
  <2>6. j \in Waiting
    <3>1. a0 \in JobType /\ a0.pc = "kill"
      BY <1>2 DEF JobType, JobPcs
    <3> HIDE DEF a0
    <3>2. a1 \in JobType /\ a1.pc = "kill" /\ a1.task = t
      BY <2>2, <3>1 DEF JobType
    <3> HIDE DEF a1
    <3>3. a2 \in JobType /\ a2.pc = "kill" /\ a2.task = t /\ a2.slot = w
      BY <2>2, <3>2 DEF JobType
    <3> HIDE DEF a2
    <3>4. a3 \in JobType /\ a3.pc = "kill" /\ a3.task = t /\ a3.slot = w
      BY <2>4, <3>3 DEF JobType
    <3> HIDE DEF a3
    <3>5. a4 \in JobType /\ a4.pc = "kill" /\ a4.task = t /\ a4.slot = w
      BY <3>4 DEF JobType
    <3> HIDE DEF a4, j
    <3> QED
      BY <2>2, <2>5, <3>5 DEF Waiting, Job
  <2> HIDE DEF j
  <2>7. jobs' \in Seq(Waiting)
    BY <1>1, <2>3, <2>6 DEF j
  <2> QED
    BY <1>1, <2>1, <2>7, ReaperNext DEF ReapTypes, Job
<1>5. CASE ReapTake
  <2>1. Head(jobs) \in Waiting /\ Tail(jobs) \in Seq(Waiting) /\ jobs' = Tail(jobs)
        /\ reaper' = Head(jobs)
    BY <1>1, <1>5 DEF ReapTake
  <2> QED
    BY <2>1, ReaperNext DEF Waiting, Job
<1>6. CASE ReapKill \/ ReapCheck \/ ReapRetry \/ ReapRetryFails
  <2>1. /\ reaper.pc # "idle" /\ jobs' = jobs
        /\ \E pc \in {"check", "respawn", "write"} : reaper' = [reaper EXCEPT !.pc = pc]
    BY <1>6 DEF ReapKill, ReapCheck, ReapRetry, ReapRetryFails
  <2> QED
    BY <1>1, <2>1, ReaperMovesOn DEF JobPcs
<1>11. CASE ReapWriteFails
  <2> DEFINE a == [reaper EXCEPT !.pc = "respawn"]
  <2>1. /\ reaper.pc # "idle" /\ jobs' = jobs
        /\ reaper' = [a EXCEPT !.retry = FALSE]
    BY <1>11 DEF ReapWriteFails
  <2>2. a \in JobType /\ a.pc = "respawn" /\ a.task = reaper.task /\ a.slot = reaper.slot
    BY <1>1 DEF JobType, JobPcs
  <2> HIDE DEF a
  <2>3. /\ reaper' \in JobType /\ reaper'.pc = "respawn"
        /\ reaper'.task = reaper.task /\ reaper'.slot = reaper.slot
    BY <2>1, <2>2 DEF JobType
  <2> QED
    BY <1>1, <2>1, <2>3, ReaperNext DEF Job
<1>7. CASE ReapWrite
  <2> DEFINE t == reaper.task
             r == Retry[t]
  <2>1. reaper.pc # "idle" /\ jobs' = jobs /\ t \in Known
    BY <1>1, <1>7 DEF ReapWrite, Job
  <2>2. CASE reaper' = [reaper EXCEPT !.pc = "respawn"]
    BY <1>1, <2>1, <2>2, ReaperMovesOn DEF JobPcs
  <2>3. CASE reaper.retry
    <3>1. reaper' = [reaper EXCEPT !.pc = "retry"]
      BY <1>7, <2>3 DEF ReapWrite
    <3>2. t \in Tasks /\ r \in Tasks
      BY <2>1, KnownAreTasks
    <3>3. r # t => result'[r] = Written(result[r], "scheduled")
      BY <1>7, <2>3, <3>2 DEF ReapWrite, TaskTypes, ResultTypes
    <3>4. r = t => r \in Known'
      BY <2>1
    <3>5. r # t => result'[r] # "none"
      <4>1. "scheduled" \in Statuses \ {"none"} /\ result[r] \in Statuses
        BY <3>2 DEF TaskTypes, ResultTypes, Statuses, Settled
      <4> QED
        BY <3>3, <4>1, WrittenKeeps
    <3>6. r \in Known'
      BY <3>2, <3>4, <3>5 DEF Known
    <3> QED
      BY <1>1, <2>1, <3>1, <3>6, ReaperMovesOn DEF JobPcs
  <2> QED
    BY <1>7, <2>2, <2>3 DEF ReapWrite
<1>8. CASE ReapWedged \/ ReapRespawn \/ ReapRespawnFails \/ Crash
  <2>1. reaper' = NoJob /\ (jobs' = jobs \/ jobs' = <<>>)
    BY <1>8 DEF ReapWedged, ReapRespawn, ReapRespawnFails, Crash
  <2>2. <<>> \in Seq(Waiting)
    OBVIOUS
  <2> QED
    BY <1>1, <1>2, <2>1, <2>2, ReaperNext
<1>9. CASE \/ LoopStep \/ \E w \in Slots : WorkerStep(w) \/ WorkerDies(w) \/ \E t \in Tasks : ScheduleChild(w, t)
           \/ \E t \in Tasks : RequestByWorker(t) \/ Watchdog(t) \/ DropPendingFails(t)
           \/ \E c \in Clients, t \in Tasks : RequestSingle(c, t) \/ RequestCascade(c, t)
           \/ UNCHANGED taskVars
  <2>1. UNCHANGED reapVars
    BY <1>9 DEF LoopStep, HandleSchedule, HandleDone, DropPending, DropPendingFails, Assign,
       DetectCrash, WorkerStep, StartTask, FinishTask, EmitDone, WorkerDies, ScheduleChild,
       RequestByWorker, Watchdog, RequestSingle, RequestCascade, taskVars, reapVars
  <2> QED
    BY <1>3, <2>1
<1>10. ASSUME NEW th \in Threads, CustodyStep(th) \/ CustodyFault(th) \/ CascadeStep(th)
       PROVE  ReapTypes'
  <2>1. CASE CustodyStep(th)
    <3>1. UNCHANGED reapVars
      BY <2>1 DEF CustodyStep, Claim, CapturePending, CaptureRunning, CaptureNothing,
         WritePending, KillWorker, WriteRunning, WriteRefused, Miss, RegisterOwed, Settle, Publish,
         Respawn
    <3> QED
      BY <1>3, <3>1
  <2>2. CASE CustodyFault(th)
    <3>1. UNCHANGED reapVars
      BY <2>2 DEF CustodyFault, WritePendingFails, WorkerSurvives, WriteRunningFails, MissFails,
         OwedFails, RespawnFails
    <3> QED
      BY <1>3, <3>1
  <2>3. CASE CascadeStep(th)
    <3>1. UNCHANGED reapVars
      BY <2>3 DEF CascadeStep, CascadeBegin, CascadeSweep, CascadeMint, CascadeTake, CascadePost,
         CascadeSummary, CascadeClose
    <3> QED
      BY <1>3, <3>1
  <2> QED
    BY <1>10, <2>1, <2>2, <2>3
<1> QED
  BY <1>4, <1>5, <1>6, <1>7, <1>8, <1>9, <1>10, <1>11
  DEF Tasks_Next, ReaperStep, Environment, Fault, ReaperFault

---------------------------------------------------------------------------
(* The invariant.  A task is handled once it is settled or is being         *)
(* cancelled; it stays so.  A custody works on a handled task, and from the *)
(* step that writes its outcome on, on a settled one.  A task is sealed once *)
(* all that is queued below it is handled; a cascade has its root fenced, so *)
(* nothing else joins the tree it looked at, by admission or by assignment.  *)
HandledTasks == {x \in Tasks : HasIntent(x) \/ IsSettled(x)}
SettledTasks == {x \in Tasks : IsSettled(x)}
Sealed       == {t \in Tasks : Descendants(t) \cap Queued \subseteq HandledTasks}

CustodySound(c, H, S) ==
    /\ c.task # NoTask => c.task \in H
    /\ \/ c.settled \/ c.pc \in {"owed", "settle", "publish"}
       \/ c.pc = "respawn" /\ c.task # NoTask
       => c.task \in S
CascadeSound(t, k, H, S, F, O, Q) ==
    /\ k.pc # "idle" => k.root \in H
    /\ k.pc \notin {"idle", "begin"} => k.root \in F
    /\ k.todo \ k.mint \subseteq H
    /\ k.pc = "tasks" => k.mint = {}
    /\ k.root \in k.done => k.root \in S
    /\ k.pc \in {"begin", "sweep"} => k.sweeps = 0 /\ k.done = {}
    /\ k.pc \in {"mint", "tasks"} => k.root \in k.todo \cup k.done \cup k.failed \cup {t}
    /\ k.pc = "post" => k.root \in k.done \cup k.failed
    /\ k.pc \in {"summary", "close"} => k.root \in S \cap Q
    /\ k.pc = "close" => k.root \in O

CustodyInv ==
    \A th \in Threads :
        /\ CustodySound(custody[th], HandledTasks, SettledTasks)
        /\ CascadeSound(custody[th].task, cascade[th], HandledTasks, SettledTasks, fences, owed,
                        Sealed)
        /\ custody[th].pc # "idle" => cascade[th].pc \in {"idle", "tasks"}
IntentKnown == \A x \in Tasks : HasIntent(x) => x \in Known

TaskInv == TaskTypes /\ Lineage /\ IntentKnown /\ CustodyInv

\* The row of a child or of a retry is made after that of what it descends from.
LEMMA LineageStays ==
    ASSUME TaskTypes, Lineage, Kept(result') PROVE Lineage'
<1>1. ResultTypes
  BY DEF TaskTypes
<1>2. Known \subseteq Known' /\ \A t \in Known' : t \in Known \/ Newcomer(t)
  BY <1>1, KnownGrow
<1>3. \A t \in Known' : t \in Tasks
  BY DEF Known
<1> SUFFICES ASSUME NEW t \in Tasks, t \in Known', Newcomer(t)
             PROVE  Root[t] \in Known' /\ (Parent[t] # NoTask => Parent[t] \in Known')
  BY <1>2, <1>3 DEF Lineage
<1>4. CASE \E w \in Slots : Parent[t] = slots[w].job /\ slots[w].job \in Known
  <2>1. Parent[t] \in Known /\ Parent[t] \in Tasks /\ Parent[t] # NoTask
    BY <1>4, KnownAreTasks
  <2>2. Root[t] = Parent[t] \/ Root[t] = Root[Parent[t]]
    BY <2>1, LineageAssumption
  <2> QED
    BY <1>2, <2>1, <2>2 DEF Lineage
<1>5. CASE reaper.pc = "write" /\ reaper.task \in Known /\ t = Retry[reaper.task]
  <2> DEFINE o == reaper.task
  <2>1. o \in Known /\ o \in Tasks /\ t = Retry[o]
    BY <1>5, KnownAreTasks
  <2> HIDE DEF o
  <2>2. Parent[t] = Parent[o] /\ (Root[t] = Root[o] \/ Root[t] = t)
    BY <2>1, LineageAssumption
  <2> QED
    BY <1>2, <2>1, <2>2 DEF Lineage
<1> QED
  BY <1>4, <1>5 DEF Newcomer

\* Only a task that has a row is ever asked to be cancelled.
LEMMA GainsKnown ==
    ASSUME TaskTypes, Lineage, IntentKnown, NEW x \in Tasks, Gains(x) PROVE x \in Known
<1>1. \A y \in Tasks : OnQueue(y) => y \in Known
  BY DEF TaskTypes, QueueTypes, OnQueue
<1>2. CASE result[x] # "none"
  BY <1>2 DEF Known
<1>3. CASE Owned(x)
  BY <1>1, <1>3 DEF Owned, OnQueue, TaskTypes, SlotTypes, SlotType
<1>4. CASE SubtreeIsLive(x)
  <2>1. CASE \E y \in Descendants(x) : OnQueue(y)
    <3>1. PICK y \in Descendants(x) : OnQueue(y)
      BY <2>1
    <3>2. y \in Known /\ (Root[y] = x \/ x \in Ancestors(y, Running))
      BY <1>1, <3>1 DEF Descendants, Below
    <3> QED
      BY <3>2, AncestorsKnown DEF Lineage
  <2> QED
    BY <1>1, <1>4, <2>1 DEF SubtreeIsLive, TreeIsLive, OnQueue, IntentKnown
<1>5. CASE \E th \in Threads : x \in cascade[th].mint
  BY <1>5 DEF TaskTypes, ThreadTypes, CascadeType
<1> QED
  BY <1>2, <1>3, <1>4, <1>5 DEF Gains

\* An intent goes only when its task is settled, and a cascade's only at the
\* last step of a cascade.
LEMMA IntentGoes ==
    ASSUME TaskInv, [Tasks_Next]_taskVars
    PROVE  /\ SettledTasks \subseteq SettledTasks'
           /\ IntentKnown'
           /\ \A x \in Tasks : HasIntent(x) /\ ~HasIntent(x)' => x \in SettledTasks' /\ Loses(x)
           /\ HandledTasks \subseteq HandledTasks'
<1>1. TaskTypes
  BY DEF TaskInv
<1>2. Kept(result') /\ ResultTypes /\ IntentMove
  BY <1>1, ResultMoves, IntentMoves DEF TaskTypes
<1>3. \A x \in Tasks : IsSettled(x) => IsSettled(x)'
  BY <1>2 DEF Kept, IsSettled
<1>4. SettledTasks \subseteq SettledTasks'
  BY <1>3 DEF SettledTasks
<1>5. IntentKnown'
  <2>1. Known \subseteq Known'
    BY <1>2, KnownGrow
  <2>2. \A x \in Tasks : HasIntent(x)' => x \in Known
    BY <1>1, <1>2, GainsKnown DEF TaskInv, IntentMove, IntentKnown
  <2> QED
    BY <2>1, <2>2 DEF IntentKnown
<1>6. ASSUME NEW x \in Tasks, HasIntent(x), ~HasIntent(x)'
      PROVE  x \in SettledTasks' /\ Loses(x)
  <2>1. Loses(x)
    BY <1>2, <1>6 DEF IntentMove
  <2>2. CASE IsSettled(x)'
    BY <2>1, <2>2 DEF SettledTasks
  <2>3. CASE \E th \in Threads : custody[th].pc = "settle" /\ custody[th].task = x
    BY <1>4, <2>1, <2>3 DEF TaskInv, CustodyInv, CustodySound
  <2>4. CASE Closes(x)
    BY <1>4, <2>1, <2>4 DEF Closes, TaskInv, CustodyInv, CascadeSound
  <2> QED
    BY <2>1, <2>2, <2>3, <2>4 DEF Loses
<1>7. HandledTasks \subseteq HandledTasks'
  BY <1>3, <1>6 DEF HandledTasks, SettledTasks
<1> QED
  BY <1>4, <1>5, <1>6, <1>7

\* Only a queued task that nobody cancels and that has no outcome is assigned.
LEMMA AssignedIsFree ==
    ASSUME TaskTypes, NEW w \in Slots, NEW t \in Tasks, Assign(w, t)
    PROVE  \E p \in Queued \ HandledTasks : Running' \subseteq Running \cup {p}
<1>1. t \in Queued \ HandledTasks
  BY DEF Assign, Queued, OnQueue, HandledTasks
<1>2. running \in [Tasks -> Slots \cup {NoSlot}] /\ running' = [running EXCEPT ![t] = w]
  BY DEF TaskTypes, QueueTypes, Assign
<1>3. Running' \subseteq Running \cup {t}
  BY <1>2 DEF Running
<1> QED
  BY <1>1, <1>3

\* What every thread may rely on while another one moves.
Carried ==
    /\ HandledTasks \subseteq HandledTasks' /\ SettledTasks \subseteq SettledTasks'
    /\ fences \subseteq fences' /\ owed \subseteq owed'
    /\ fences \cap Sealed \subseteq Sealed'

LEMMA CarriedAlong ==
    ASSUME TaskInv, [Tasks_Next]_taskVars, ~Crash PROVE Carried
<1>1. QueueMove
  BY QueueMoves DEF TaskInv
<1>2. HandledTasks \subseteq HandledTasks' /\ SettledTasks \subseteq SettledTasks'
  BY IntentGoes
<1>3. ASSUME NEW x \in Tasks, x \in Queued', x \notin Queued
      PROVE  x \in HandledTasks' \/ ~Fenced(x)
  <2>1. OnQueue(x)' /\ ~OnQueue(x)
    BY <1>3 DEF Queued
  <2>2. ~Fenced(x) \/ HandedBack(x)
    BY <1>1, <2>1 DEF QueueMove
  <2>3. HandedBack(x) => x \in HandledTasks
    BY DEF HandedBack, TaskInv, CustodyInv, CustodySound
  <2> QED
    BY <1>2, <2>2, <2>3
<1>4. fences \cap Sealed \subseteq Sealed'
  <2>1. Running' \subseteq Running
        \/ \E p \in Queued \ HandledTasks : Running' \subseteq Running \cup {p}
    BY RunningMoves, AssignedIsFree DEF TaskInv
  <2>2. Running' \subseteq Queued
    BY <2>1 DEF Running, Queued, OnQueue
  <2>3. SUFFICES ASSUME NEW a \in Tasks, a \in fences, a \in Sealed,
                        NEW x \in Tasks, x \in Descendants(a)', x \in Queued'
                 PROVE  x \in HandledTasks'
    BY DEF Sealed, Descendants, Below
  <2>4. x # a /\ (Root[x] = a \/ a \in Ancestors(x, Running'))
    BY <2>3 DEF Descendants, Below
  <2>5. CASE x \notin Queued
    <3>1. a \in Ancestors(x, Running') => a \in Ancestors(x, Queued)
      BY <2>2, <2>3, FartherWalk
    <3>2. Fenced(x)
      BY <2>3, <2>4, <3>1 DEF Fenced
    <3> QED
      BY <1>3, <2>3, <2>5, <3>2
  <2>6. CASE x \in Queued /\ (Root[x] = a \/ a \in Ancestors(x, Running))
    <3>1. x \in Descendants(a)
      BY <2>4, <2>6 DEF Descendants, Below
    <3> QED
      BY <1>2, <2>3, <2>6, <3>1 DEF Sealed
  <2>7. CASE Root[x] # a /\ a \notin Ancestors(x, Running)
    <3>1. PICK p \in Queued \ HandledTasks : Running' \subseteq Running \cup {p}
      BY <2>1, <2>3, <2>4, <2>7, FartherWalk
    <3>2. p \in Tasks
      BY <3>1 DEF Queued
    <3>3. a \in Ancestors(x, Running \cup {p})
      BY <2>3, <2>4, <2>7, <3>1, FartherWalk
    <3>4. a \in Ancestors(p, Running) /\ p # a
      BY <2>3, <2>7, <3>2, <3>3, OneMoreRow
    <3>5. p \in Descendants(a)
      BY <3>2, <3>4 DEF Descendants, Below
    <3> QED
      BY <2>3, <3>1, <3>5 DEF Sealed
  <2> QED
    BY <2>4, <2>5, <2>6, <2>7
<1> QED
  BY <1>1, <1>2, <1>4 DEF Carried, QueueMove

---------------------------------------------------------------------------
(* One thread moves, the others keep what they rely on. *)
LEMMA CustodyGrows ==
    ASSUME NEW c, NEW H, NEW S, NEW H2, NEW S2, H \subseteq H2, S \subseteq S2,
           CustodySound(c, H, S)
    PROVE  CustodySound(c, H2, S2)
BY DEF CustodySound

LEMMA CascadeGrows ==
    ASSUME NEW t, NEW k,
           NEW H, NEW S, NEW F, NEW O, NEW Q, NEW H2, NEW S2, NEW F2, NEW O2, NEW Q2,
           CascadeSound(t, k, H, S, F, O, Q),
           H \subseteq H2, S \subseteq S2, F \subseteq F2, O \subseteq O2,
           F \cap Q \subseteq Q2
    PROVE  CascadeSound(t, k, H2, S2, F2, O2, Q2)
BY DEF CascadeSound

Paired(c, k) ==
    /\ c \in CustodyType /\ k \in CascadeType /\ CustodyShape(c, k)
    /\ k.pc # "idle" => k.root \in Known
    /\ c.pc # "idle" => k.pc \in {"idle", "tasks"}
SoundNext(c, k) ==
    /\ CustodySound(c, HandledTasks', SettledTasks')
    /\ CascadeSound(c.task, k, HandledTasks', SettledTasks', fences', owed', Sealed')
Moves(th, c, k) ==
    /\ custody' = [custody EXCEPT ![th] = c] /\ cascade' = [cascade EXCEPT ![th] = k]
    /\ Paired(c, k) /\ SoundNext(c, k)
ThreadsNext == ThreadTypes' /\ CustodyInv'

\* What holds of a thread that has not moved yet.
LEMMA ThreadPair ==
    ASSUME TaskInv, Carried, NEW th \in Threads
    PROVE  /\ custody[th] \in CustodyType /\ cascade[th] \in CascadeType
           /\ Paired(custody[th], cascade[th]) /\ SoundNext(custody[th], cascade[th])
           /\ CustodySound(custody[th], HandledTasks, SettledTasks)
           /\ CascadeSound(custody[th].task, cascade[th], HandledTasks, SettledTasks, fences, owed,
                           Sealed)
<1> DEFINE c == custody[th]
           k == cascade[th]
<1>1. c \in CustodyType /\ k \in CascadeType /\ Paired(c, k)
  BY DEF TaskInv, TaskTypes, ThreadTypes, CustodyInv, Paired
<1>2. /\ CustodySound(c, HandledTasks, SettledTasks)
      /\ CascadeSound(c.task, k, HandledTasks, SettledTasks, fences, owed, Sealed)
  BY DEF TaskInv, CustodyInv
<1>3. fences \cap Sealed \subseteq Sealed'
  BY DEF Carried
<1>4. SoundNext(c, k)
  <2> HIDE DEF c, k
  <2>1. /\ HandledTasks \subseteq HandledTasks' /\ SettledTasks \subseteq SettledTasks'
        /\ fences \subseteq fences' /\ owed \subseteq owed'
    BY DEF Carried
  <2>2. /\ CustodySound(c, HandledTasks', SettledTasks')
        /\ CascadeSound(c.task, k, HandledTasks', SettledTasks', fences', owed', Sealed')
    BY <1>2, <1>3, <2>1, CustodyGrows, CascadeGrows
  <2> QED
    BY <2>2 DEF SoundNext
<1> QED
  BY <1>1, <1>2, <1>4

LEMMA ThreadMoves ==
    ASSUME TaskInv, Carried, Known \subseteq Known', NEW th \in Threads, NEW c, NEW k, Moves(th, c, k)
    PROVE  ThreadsNext
<1>1. custody \in [Threads -> CustodyType] /\ cascade \in [Threads -> CascadeType]
  BY DEF TaskInv, TaskTypes, ThreadTypes
<1>2. CustodyType \subseteq CustodyType' /\ CascadeType \subseteq CascadeType'
  BY TypesGrow
<1>3. \A x \in Threads : Paired(custody'[x], cascade'[x]) /\ SoundNext(custody'[x], cascade'[x])
  <2> TAKE x \in Threads
  <2>1. CASE x = th
    BY <1>1, <2>1 DEF Moves
  <2>2. CASE x # th
    <3>1. custody'[x] = custody[x] /\ cascade'[x] = cascade[x]
      BY <1>1, <2>2 DEF Moves
    <3> QED
      BY <3>1, ThreadPair
  <2> QED
    BY <2>1, <2>2
<1>4. custody' \in [Threads -> CustodyType'] /\ cascade' \in [Threads -> CascadeType']
  BY <1>1, <1>2 DEF Moves, Paired
<1>5. ThreadTypes'
  <2>1. \A x \in Threads : CustodyShape(custody'[x], cascade'[x])
    BY <1>3 DEF Paired
  <2>2. \A x \in Threads : cascade'[x].pc # "idle" => cascade'[x].root \in Known'
    BY <1>3 DEF Paired
  <2>3. \A x \in Threads : CustodyShape(custody[x], cascade[x])'
    BY <2>1 DEF CustodyShape
  <2> QED
    BY <1>4, <2>2, <2>3 DEF ThreadTypes
<1>6. CustodyInv'
  BY <1>3 DEF CustodyInv, Paired, SoundNext
<1> QED
  BY <1>5, <1>6 DEF ThreadsNext

LEMMA ThreadsRest ==
    ASSUME TaskInv, Carried, Known \subseteq Known', UNCHANGED threadVars
    PROVE  ThreadsNext
<1>1. Main \in Threads
  BY DEF Threads
<1>2. custody \in [Threads -> CustodyType] /\ cascade \in [Threads -> CascadeType]
  BY DEF TaskInv, TaskTypes, ThreadTypes
<1>3. /\ custody' = [custody EXCEPT ![Main] = custody[Main]]
      /\ cascade' = [cascade EXCEPT ![Main] = cascade[Main]]
  BY <1>1, <1>2 DEF threadVars
<1>4. Moves(Main, custody[Main], cascade[Main])
  BY <1>1, <1>3, ThreadPair DEF Moves
<1> QED
  BY <1>1, <1>4, ThreadMoves

LEMMA SettledNext ==
    /\ \A x \in Tasks : result'[x] \in Settled <=> x \in SettledTasks'
    /\ \A x \in Tasks : IsSettled(x) <=> x \in SettledTasks
BY DEF SettledTasks, IsSettled

\* A custody goes on with its task.
LEMMA StaysMove ==
    ASSUME TaskInv, Carried, Known \subseteq Known', NEW th \in Threads, NEW c \in CustodyType,
           custody' = [custody EXCEPT ![th] = c], cascade' = cascade,
           custody[th].pc # "idle", c.task = custody[th].task, CustodyShape(c, cascade[th]),
           CustodySound(c, HandledTasks', SettledTasks')
    PROVE  ThreadsNext
<1>1. cascade \in [Threads -> CascadeType]
  BY DEF TaskInv, TaskTypes, ThreadTypes
<1>2. cascade' = [cascade EXCEPT ![th] = cascade[th]]
  BY <1>1
<1>3. Paired(c, cascade[th]) /\ SoundNext(c, cascade[th])
  BY ThreadPair DEF Paired, SoundNext
<1>4. Moves(th, c, cascade[th])
  BY <1>2, <1>3 DEF Moves
<1> QED
  BY <1>4, ThreadMoves

LEMMA GotoMove ==
    ASSUME TaskInv, Carried, Known \subseteq Known', NEW th \in Threads,
           NEW at \in CustodyPcs \ {"idle"}, Goto(th, at), cascade' = cascade,
           custody[th].pc \notin {"idle", "respawn"},
           at \in {"kill", "write", "publish", "respawn"} => custody[th].slot \in Slots,
           at \in {"owed", "settle", "publish", "respawn"} => custody[th].task \in SettledTasks'
    PROVE  ThreadsNext
<1> DEFINE o == custody[th]
           c == [o EXCEPT !.pc = at]
<1>1. custody \in [Threads -> CustodyType] /\ o \in CustodyType /\ CustodyShape(o, cascade[th])
      /\ o.task \in Known
  BY ThreadPair DEF TaskInv, TaskTypes, ThreadTypes, Paired, CustodyShape
<1>2. custody' = [custody EXCEPT ![th] = c]
  BY <1>1 DEF Goto
<1>3. /\ c \in CustodyType /\ c.pc = at /\ c.task = o.task /\ c.slot = o.slot /\ c.then = o.then
      /\ c.settled = o.settled
  BY <1>1 DEF CustodyType
<1>4. CustodyShape(c, cascade[th])
  BY <1>1, <1>3, KnownAreTasks DEF CustodyShape
<1>5. CustodySound(o, HandledTasks', SettledTasks')
  BY ThreadPair DEF SoundNext
<1>6. CustodySound(c, HandledTasks', SettledTasks')
  BY <1>3, <1>5 DEF CustodySound
<1> HIDE DEF c
<1> QED
  BY <1>2, <1>3, <1>4, <1>6, StaysMove

\* A custody that is over, well or not.
LEMMA EndedMove ==
    ASSUME TaskInv, Carried, Known \subseteq Known', NEW th \in Threads, NEW ok \in BOOLEAN,
           Ended(th, ok), custody[th].pc # "idle",
           ok /\ custody[th].task # NoTask => custody[th].task \in SettledTasks'
    PROVE  ThreadsNext
<1> DEFINE o == custody[th]
           t == o.task
           k == cascade[th]
<1>1. /\ custody \in [Threads -> CustodyType] /\ cascade \in [Threads -> CascadeType]
      /\ k \in CascadeType /\ Paired(o, k) /\ SoundNext(o, k) /\ o \in CustodyType
  BY ThreadPair DEF TaskInv, TaskTypes, ThreadTypes
<1>2. NoCustody \in CustodyType /\ NoCustody.pc = "idle" /\ NoCustody.task = NoTask
      /\ NoCustody.then = "end" /\ NoCustody.settled = FALSE
  BY DEF NoCustody, CustodyType, NoClaim, ClaimType, CustodyPcs, Thens
<1>3. custody' = [custody EXCEPT ![th] = NoCustody]
  BY DEF Ended
<1>4. CASE k.pc = "idle"
  <2>1. cascade' = [cascade EXCEPT ![th] = k]
    BY <1>1, <1>4 DEF Ended
  <2>2. Paired(NoCustody, k)
    BY <1>1, <1>2, <1>4 DEF Paired, CustodyShape
  <2>3. SoundNext(NoCustody, k)
    BY <1>1, <1>2, <1>4 DEF SoundNext, CustodySound, CascadeSound
  <2> QED
    BY <1>3, <2>1, <2>2, <2>3, ThreadMoves DEF Moves
<1>5. CASE k.pc # "idle"
  <2>1. t \in Known /\ t \in Tasks /\ k.pc = "tasks" /\ k.root \in Known
    BY <1>1, <1>5, KnownAreTasks DEF Paired, CustodyShape, CustodyType
  <2> DEFINE d == [k EXCEPT !.done = @ \cup {t}]
             f == [k EXCEPT !.failed = @ \cup {t}]
  <2>2. cascade' = [cascade EXCEPT ![th] = IF ok THEN d ELSE f]
    <3>1. cascade' = IF ok THEN [cascade EXCEPT ![th].done = @ \cup {t}]
                     ELSE [cascade EXCEPT ![th].failed = @ \cup {t}]
      BY <1>5 DEF Ended
    <3> QED
      BY <1>1, <3>1
  <2>3. k.done \cup {t} \subseteq Tasks /\ k.failed \cup {t} \subseteq Tasks
    BY <1>1, <2>1 DEF CascadeType
  <2>4. /\ d \in CascadeType /\ d.pc = "tasks" /\ d.root = k.root /\ d.mint = k.mint
        /\ d.todo = k.todo /\ d.done = k.done \cup {t} /\ d.failed = k.failed
    BY <1>1, <2>1, <2>3 DEF CascadeType
  <2>5. /\ f \in CascadeType /\ f.pc = "tasks" /\ f.root = k.root /\ f.mint = k.mint
        /\ f.todo = k.todo /\ f.done = k.done /\ f.failed = k.failed \cup {t}
    BY <1>1, <2>1, <2>3 DEF CascadeType
  <2>6. ok => t \in SettledTasks'
    BY <2>1
  <2>7. CascadeSound(t, k, HandledTasks', SettledTasks', fences', owed', Sealed')
    BY <1>1 DEF SoundNext
  <2> HIDE DEF d, f, t, k
  <2>8. ok => Paired(NoCustody, d) /\ SoundNext(NoCustody, d)
    BY <1>2, <2>1, <2>4, <2>6, <2>7 DEF SoundNext, CustodySound, CascadeSound, Paired, CustodyShape
  <2>9. ~ok => Paired(NoCustody, f) /\ SoundNext(NoCustody, f)
    BY <1>2, <2>1, <2>5, <2>7 DEF SoundNext, CustodySound, CascadeSound, Paired, CustodyShape
  <2> QED
    BY <1>3, <2>2, <2>8, <2>9, ThreadMoves DEF Moves
<1> QED
  BY <1>4, <1>5

\* A free thread takes a task into custody, or opens a cascade.
LEMMA TakeMove ==
    ASSUME TaskInv, Carried, Known \subseteq Known', NEW th \in Threads, NEW t \in Known,
           NEW deliver \in BOOLEAN, Take(th, t, deliver), t \in HandledTasks',
           custody[th].pc = "idle", NEW k \in CascadeType, cascade' = [cascade EXCEPT ![th] = k],
           k.pc \in {"idle", "tasks"}, k.pc # "idle" => k.root \in Known,
           CascadeSound(t, k, HandledTasks', SettledTasks', fences', owed', Sealed')
    PROVE  ThreadsNext
<1> DEFINE a == [NoCustody EXCEPT !.pc = "claim"]
           b == [a EXCEPT !.task = t]
           c == [b EXCEPT !.deliver = deliver]
<1>1. custody' = [custody EXCEPT ![th] = c]
  BY DEF Take
<1>2. a \in CustodyType /\ a.pc = "claim" /\ a.then = "end" /\ a.settled = FALSE
  BY DEF NoCustody, CustodyType, NoClaim, ClaimType, CustodyPcs, Thens
<1> HIDE DEF a
<1>3. b \in CustodyType /\ b.pc = "claim" /\ b.then = "end" /\ b.settled = FALSE /\ b.task = t
  BY <1>2 DEF CustodyType
<1> HIDE DEF b
<1>4. /\ c \in CustodyType /\ c.pc = "claim" /\ c.then = "end" /\ c.settled = FALSE
      /\ c.task = t
  BY <1>3 DEF CustodyType
<1> HIDE DEF c
<1>5. Paired(c, k)
  BY <1>4, KnownAreTasks DEF Paired, CustodyShape
<1>6. SoundNext(c, k)
  BY <1>4 DEF SoundNext, CustodySound
<1> QED
  BY <1>1, <1>5, <1>6, ThreadMoves DEF Moves

LEMMA OpenMove ==
    ASSUME TaskInv, Carried, Known \subseteq Known', NEW th \in Threads, NEW t \in Known,
           Open(th, t), custody' = custody, t \in HandledTasks', ThreadFree(th)
    PROVE  ThreadsNext
<1> DEFINE a == [NoCascade EXCEPT !.pc = "begin"]
           k == [a EXCEPT !.root = t]
           c == custody[th]
<1>1. cascade' = [cascade EXCEPT ![th] = k]
  BY DEF Open
<1>2. custody \in [Threads -> CustodyType] /\ c \in CustodyType /\ Paired(c, cascade[th])
      /\ SoundNext(c, cascade[th]) /\ c.pc = "idle"
  BY ThreadPair DEF TaskInv, TaskTypes, ThreadTypes, ThreadFree
<1>3. custody' = [custody EXCEPT ![th] = c]
  BY <1>2
<1>4. /\ a \in CascadeType /\ a.pc = "begin" /\ a.mint = {} /\ a.todo = {} /\ a.done = {}
      /\ a.failed = {} /\ a.sweeps = 0
  BY DEF NoCascade, CascadeType, CascadePcs
<1> HIDE DEF a
<1>5. /\ k \in CascadeType /\ k.pc = "begin" /\ k.mint = {} /\ k.todo = {} /\ k.done = {}
      /\ k.failed = {} /\ k.sweeps = 0 /\ k.root = t
  BY <1>4 DEF CascadeType
<1> HIDE DEF k, c
<1>6. Paired(c, k)
  BY <1>2, <1>5 DEF Paired, CustodyShape
<1>7. SoundNext(c, k)
  BY <1>2, <1>5 DEF SoundNext, CascadeSound
<1> QED
  BY <1>1, <1>3, <1>6, <1>7, ThreadMoves DEF Moves

\* A custody that gives up.
LEMMA GivesUpMove ==
    ASSUME TaskInv, Carried, Known \subseteq Known', NEW th \in Threads,
           Ended(th, FALSE), custody[th].pc # "idle"
    PROVE  ThreadsNext
BY EndedMove

\* The claim and the capture of a custody.
LEMMA CaptureThreads ==
    ASSUME TaskInv, Carried, Known \subseteq Known', NEW th \in Threads,
           Claim(th) \/ CapturePending(th) \/ CaptureRunning(th) \/ CaptureNothing(th)
    PROVE  ThreadsNext
<1> DEFINE o == custody[th]
           t == o.task
<1>1. /\ o \in CustodyType /\ CustodyShape(o, cascade[th])
      /\ CustodySound(o, HandledTasks', SettledTasks')
      /\ custody \in [Threads -> CustodyType]
  BY ThreadPair DEF Paired, SoundNext, TaskInv, TaskTypes, ThreadTypes
<1>2. o.pc \in {"claim", "capture"} /\ t \in Known /\ t \in Tasks /\ t # NoTask
  BY <1>1, KnownAreTasks DEF Claim, CapturePending, CaptureRunning, CaptureNothing, Active,
     CustodyShape
<1>3. IsSettled(t) => t \in SettledTasks'
  BY <1>2, SettledNext DEF Carried
<1>4. ASSUME NEW at \in {"capture", "pwrite", "miss", "owed", "settle"}, Goto(th, at),
             cascade' = cascade, at \in {"owed", "settle"} => t \in SettledTasks'
      PROVE  ThreadsNext
  <2>1. at \in CustodyPcs \ {"idle"} /\ at \notin {"kill", "write", "publish", "respawn"}
    BY DEF CustodyPcs
  <2> QED
    BY <1>2, <1>4, <2>1, GotoMove
<1>5. CASE Claim(th)
  <2> DEFINE row == Claimed(intent[t])
             q == [req |-> row.req, gen |-> row.gen]
             a == [o EXCEPT !.pc = "capture"]
             b == [a EXCEPT !.claim = q]
             c == [b EXCEPT !.took = Abandoned(intent[t])]
  <2>1. CASE Goto(th, "capture") /\ cascade' = cascade
    BY <1>4, <2>1
  <2>2. CASE Ended(th, FALSE)
    BY <1>2, <2>2, GivesUpMove
  <2>3. CASE custody' = [custody EXCEPT ![th].pc = "capture", ![th].claim = q,
                            ![th].took = Abandoned(intent[t])]
             /\ cascade' = cascade
    <3>1. custody' = [custody EXCEPT ![th] = c]
      BY <1>1, <2>3 DEF CustodyType
    <3>2. q \in ClaimType
      <4>1. Row(intent[t], used.mints, pid) /\ used.mints \in Nat /\ pid \in Nat
        BY <1>2, IntentRows DEF TaskInv, TaskTypes, IntentTypes, UsedType
      <4>2. NoClaim \in ClaimType
        BY DEF NoClaim, ClaimType
      <4> QED
        BY <4>1, <4>2, RowMoves
    <3>3. Abandoned(intent[t]) \in BOOLEAN
      BY DEF Abandoned
    <3> HIDE DEF q
    <3>4. /\ a \in CustodyType /\ a.pc = "capture" /\ a.task = t /\ a.slot = o.slot
          /\ a.then = o.then /\ a.settled = o.settled
      BY <1>1 DEF CustodyType, CustodyPcs
    <3> HIDE DEF a
    <3>5. /\ b \in CustodyType /\ b.pc = "capture" /\ b.task = t /\ b.slot = o.slot
          /\ b.then = o.then /\ b.settled = o.settled
      BY <3>2, <3>4 DEF CustodyType
    <3> HIDE DEF b
    <3>6. /\ c \in CustodyType /\ c.pc = "capture" /\ c.task = t /\ c.slot = o.slot
          /\ c.then = o.then /\ c.settled = o.settled
      BY <3>3, <3>5 DEF CustodyType
    <3> HIDE DEF c
    <3>7. CustodyShape(c, cascade[th]) /\ CustodySound(c, HandledTasks', SettledTasks')
      BY <1>1, <1>2, <3>6 DEF CustodyShape, CustodySound
    <3> QED
      BY <1>2, <2>3, <3>1, <3>6, <3>7, StaysMove
  <2> HIDE DEF q
  <2> QED
    BY <1>5, <2>1, <2>2, <2>3 DEF Claim, q
<1>6. CASE CapturePending(th)
  <2>1. Goto(th, "pwrite") /\ cascade' = cascade
    BY <1>6 DEF CapturePending
  <2> QED
    BY <1>4, <2>1
<1>7. CASE CaptureNothing(th)
  <2>1. /\ \E at \in {"miss", "owed", "settle"} : Goto(th, at) /\ (at # "miss" => IsSettled(t))
        /\ cascade' = cascade
    BY <1>7 DEF CaptureNothing
  <2> QED
    BY <1>3, <1>4, <2>1
<1>8. CASE CaptureRunning(th)
  <2>1. CASE Ended(th, FALSE)
    BY <1>2, <2>1, GivesUpMove
  <2>2. ASSUME NEW w \in Slots, cascade' = cascade,
               custody' = [custody EXCEPT ![th].pc = "kill", ![th].slot = w,
                             ![th].inc = slots[w].inc, ![th].settled = IsSettled(t),
                             ![th].then = "publish"]
        PROVE  ThreadsNext
    <3> DEFINE a == [o EXCEPT !.pc = "kill"]
               b == [a EXCEPT !.slot = w]
               d == [b EXCEPT !.inc = slots[w].inc]
               e == [d EXCEPT !.settled = IsSettled(t)]
               c == [e EXCEPT !.then = "publish"]
    <3>1. custody' = [custody EXCEPT ![th] = c]
      BY <1>1, <2>2 DEF CustodyType
    <3>2. slots[w].inc \in Nat /\ IsSettled(t) \in BOOLEAN
      BY DEF TaskInv, TaskTypes, SlotTypes, SlotType, IsSettled
    <3>3. a \in CustodyType /\ a.pc = "kill" /\ a.task = t
      BY <1>1 DEF CustodyType, CustodyPcs
    <3> HIDE DEF a
    <3>4. b \in CustodyType /\ b.pc = "kill" /\ b.task = t /\ b.slot = w
      BY <3>3 DEF CustodyType
    <3> HIDE DEF b
    <3>5. d \in CustodyType /\ d.pc = "kill" /\ d.task = t /\ d.slot = w
      BY <3>2, <3>4 DEF CustodyType
    <3> HIDE DEF d
    <3>6. e \in CustodyType /\ e.pc = "kill" /\ e.task = t /\ e.slot = w
          /\ e.settled = IsSettled(t)
      BY <3>2, <3>5 DEF CustodyType
    <3> HIDE DEF e
    <3>7. c \in CustodyType /\ c.pc = "kill" /\ c.task = t /\ c.slot = w
          /\ c.settled = IsSettled(t)
      BY <3>6 DEF CustodyType, Thens
    <3> HIDE DEF c
    <3>8. CustodyShape(c, cascade[th])
      BY <1>2, <3>7 DEF CustodyShape
    <3>9. CustodySound(c, HandledTasks', SettledTasks')
      BY <1>1, <1>2, <1>3, <3>7 DEF CustodySound
    <3> QED
      BY <1>2, <2>2, <3>1, <3>7, <3>8, <3>9, StaysMove
  <2>3. \/ Ended(th, FALSE)
        \/ \E w \in Slots :
             /\ custody' = [custody EXCEPT ![th].pc = "kill", ![th].slot = w,
                              ![th].inc = slots[w].inc, ![th].settled = IsSettled(t),
                              ![th].then = "publish"]
             /\ cascade' = cascade
    <3>1. PICK w \in Slots :
             IF slots[w].reaping /\ ~o.took
             THEN IF o.claim.req # 0 THEN GivenUp(th) ELSE Ended(th, FALSE)
             ELSE /\ custody' = [custody EXCEPT ![th].pc = "kill", ![th].slot = w,
                                   ![th].inc = slots[w].inc, ![th].settled = IsSettled(t),
                                   ![th].then = "publish"]
                  /\ cascade' = cascade
      BY <1>8 DEF CaptureRunning, Holders
    <3>2. GivenUp(th) => Ended(th, FALSE)
      BY DEF GivenUp
    <3> QED
      BY <3>1, <3>2
  <2> QED
    BY <2>1, <2>2, <2>3
<1> QED
  BY <1>5, <1>6, <1>7, <1>8

\* The outcome of a custody.
LEMMA OutcomeThreads ==
    ASSUME TaskInv, Carried, Known \subseteq Known', NEW th \in Threads,
           WritePending(th) \/ KillWorker(th) \/ WriteRunning(th) \/ Miss(th) \/ RegisterOwed(th)
    PROVE  ThreadsNext
<1> DEFINE o == custody[th]
           t == o.task
<1>1. /\ o \in CustodyType /\ CustodyShape(o, cascade[th])
      /\ CustodySound(o, HandledTasks', SettledTasks')
      /\ CustodySound(o, HandledTasks, SettledTasks)
      /\ custody \in [Threads -> CustodyType]
  BY ThreadPair DEF Paired, SoundNext, TaskInv, TaskTypes, ThreadTypes
<1>2. o.pc \in {"pwrite", "kill", "write", "miss", "owed"} /\ t \in Known /\ t \in Tasks
      /\ t # NoTask
  BY <1>1, KnownAreTasks DEF WritePending, KillWorker, WriteRunning, Miss, RegisterOwed, Active,
     CustodyShape
<1>3. t \in SettledTasks \/ result'[t] \in Settled => t \in SettledTasks'
  BY <1>2, SettledNext DEF Carried
<1>4. result \in [Tasks -> Statuses] /\ result[t] # "none"
  BY <1>2, KnownAreTasks DEF TaskInv, TaskTypes, ResultTypes
<1>5. Written(result[t], "cancelled") \in Settled
  BY DEF Written, Settled
<1>6. CASE WritePending(th)
  <2> DEFINE then == IF result'[t] = "cancelled" THEN "emit" ELSE "end"
             a == [o EXCEPT !.pc = "settle"]
             c == [a EXCEPT !.then = then]
  <2>1. /\ result'[t] = Written(result[t], "cancelled") /\ cascade' = cascade
        /\ custody' = [custody EXCEPT ![th].pc = "settle", ![th].then = then]
    BY <1>2, <1>4, <1>6 DEF WritePending
  <2>2. then \in {"emit", "end"}
    OBVIOUS
  <2> HIDE DEF then
  <2>3. custody' = [custody EXCEPT ![th] = c]
    BY <1>1, <2>1 DEF CustodyType
  <2>4. a \in CustodyType /\ a.pc = "settle" /\ a.task = t
    BY <1>1 DEF CustodyType, CustodyPcs
  <2> HIDE DEF a
  <2>5. c \in CustodyType /\ c.pc = "settle" /\ c.task = t /\ c.then \in {"emit", "end"}
    BY <2>2, <2>4 DEF CustodyType, Thens
  <2> HIDE DEF c
  <2>6. CustodyShape(c, cascade[th]) /\ CustodySound(c, HandledTasks', SettledTasks')
    BY <1>1, <1>2, <1>3, <1>5, <2>1, <2>5 DEF CustodyShape, CustodySound
  <2> QED
    BY <1>2, <2>1, <2>3, <2>5, <2>6, StaysMove
<1>7. CASE KillWorker(th)
  <2> DEFINE at == IF o.settled \/ (t \in Subagents /\ child[t] \in Settled) THEN "owed" ELSE "write"
  <2>1. /\ Goto(th, at) /\ cascade' = cascade /\ o.pc = "kill"
        /\ result' = IF o.settled THEN result ELSE [result EXCEPT ![t] = CopiedBack(t)]
    BY <1>7 DEF KillWorker, Active
  <2>2. at \in CustodyPcs \ {"idle"} /\ o.slot \in Slots /\ at \in {"owed", "write"}
    BY <1>1, <2>1 DEF CustodyPcs, CustodyShape
  <2>3. at = "owed" => t \in SettledTasks'
    <3>1. CASE o.settled
      BY <1>1, <3>1 DEF CustodySound
    <3>2. CASE ~o.settled /\ t \in Subagents /\ child[t] \in Settled
      <4>1. result'[t] = CopiedBack(t)
        BY <1>2, <1>4, <2>1, <3>2
      <4>2. CopiedBack(t) \in Settled
        BY <1>2, <3>2, CopiedKeeps DEF TaskInv, TaskTypes
      <4> QED
        BY <1>3, <4>1, <4>2
    <3> QED
      BY <3>1, <3>2
  <2> HIDE DEF at
  <2> QED
    BY <1>2, <2>1, <2>2, <2>3, GotoMove
<1>8. CASE WriteRunning(th)
  <2>1. result'[t] = Written(result[t], "cancelled") /\ cascade' = cascade /\ Goto(th, "owed")
    BY <1>2, <1>4, <1>8 DEF WriteRunning
  <2>2. "owed" \in CustodyPcs \ {"idle"}
    BY DEF CustodyPcs
  <2> QED
    BY <1>2, <1>3, <1>5, <2>1, <2>2, GotoMove
<1>9. CASE Miss(th)
  <2> DEFINE newer == o.claim.req # 0 /\ intent[t].req = o.claim.req /\ intent[t].gen # o.claim.gen
             after == Written(CopiedBack(t), "cancelled")
             then == IF CopiedBack(t) \in Settled THEN "end" ELSE "emit"
  <2>1. CASE (o.claim.req = 0 /\ ~HasIntent(t)) \/ newer
    <3>1. Ended(th, ~newer)
      BY <1>9, <2>1 DEF Miss
    <3>2. t \in HandledTasks
      BY <1>1, <1>2 DEF CustodySound
    <3>3. ~newer => t \in SettledTasks'
      BY <1>3, <2>1, <3>2 DEF HandledTasks, SettledTasks
    <3>4. (~newer) \in BOOLEAN
      OBVIOUS
    <3> HIDE DEF newer
    <3> QED
      BY <1>2, <3>1, <3>3, <3>4, EndedMove
  <2>2. CASE ~((o.claim.req = 0 /\ ~HasIntent(t)) \/ newer)
    <3> DEFINE a == [o EXCEPT !.pc = "owed"]
               b == [a EXCEPT !.deliver = TRUE]
               c == [b EXCEPT !.then = then]
    <3>1. /\ result' = [result EXCEPT ![t] = after] /\ cascade' = cascade
          /\ custody' = [custody EXCEPT ![th].pc = "owed", ![th].deliver = TRUE, ![th].then = then]
      BY <1>4, <1>9, <2>2 DEF Miss
    <3>2. after \in Settled /\ then \in {"emit", "end"}
      BY DEF Written, Settled
    <3> HIDE DEF after, then
    <3>3. result'[t] \in Settled
      BY <1>2, <1>4, <3>1, <3>2
    <3>4. custody' = [custody EXCEPT ![th] = c]
      BY <1>1, <3>1 DEF CustodyType
    <3>5. a \in CustodyType /\ a.pc = "owed" /\ a.task = t
      BY <1>1 DEF CustodyType, CustodyPcs
    <3> HIDE DEF a
    <3>6. b \in CustodyType /\ b.pc = "owed" /\ b.task = t
      BY <3>5 DEF CustodyType
    <3> HIDE DEF b
    <3>7. c \in CustodyType /\ c.pc = "owed" /\ c.task = t /\ c.then \in {"emit", "end"}
      BY <3>2, <3>6 DEF CustodyType, Thens
    <3> HIDE DEF c
    <3>8. CustodyShape(c, cascade[th]) /\ CustodySound(c, HandledTasks', SettledTasks')
      BY <1>1, <1>2, <1>3, <3>3, <3>7 DEF CustodyShape, CustodySound
    <3> QED
      BY <1>2, <3>1, <3>4, <3>7, <3>8, StaysMove
  <2> QED
    BY <2>1, <2>2
<1>10. CASE RegisterOwed(th)
  <2>1. Goto(th, "settle") /\ cascade' = cascade /\ t \in SettledTasks'
    BY <1>1, <1>10 DEF RegisterOwed, Active, CustodySound
  <2>2. "settle" \in CustodyPcs \ {"idle"}
    BY DEF CustodyPcs
  <2> QED
    BY <1>2, <2>1, <2>2, GotoMove
<1> QED
  BY <1>6, <1>7, <1>8, <1>9, <1>10

\* The end of a custody.
LEMMA EndThreads ==
    ASSUME TaskInv, Carried, Known \subseteq Known', NEW th \in Threads,
           \/ WriteRefused(th) \/ Settle(th) \/ Publish(th) \/ Respawn(th) \/ CustodyFault(th)
    PROVE  ThreadsNext
<1> DEFINE o == custody[th]
           t == o.task
<1>1. /\ o \in CustodyType /\ CustodyShape(o, cascade[th])
      /\ CustodySound(o, HandledTasks', SettledTasks')
  BY ThreadPair DEF Paired, SoundNext, TaskInv, TaskTypes, ThreadTypes
<1>2. CASE \/ WriteRefused(th) \/ WritePendingFails(th) \/ WorkerSurvives(th)
           \/ WriteRunningFails(th) \/ MissFails(th)
  <2>1. Ended(th, FALSE) /\ o.pc # "idle"
    BY <1>2 DEF WriteRefused, WritePendingFails, WorkerSurvives, WriteRunningFails, MissFails,
       GivenUp, Active
  <2> QED
    BY <2>1, GivesUpMove
<1>3. CASE Respawn(th) \/ RespawnFails(th)
  <2>1. Ended(th, TRUE) /\ o.pc = "respawn"
    BY <1>3 DEF Respawn, RespawnFails, Active
  <2>2. t # NoTask => t \in SettledTasks'
    BY <1>1, <2>1 DEF CustodySound
  <2> QED
    BY <2>1, <2>2, EndedMove
<1>4. CASE Publish(th)
  <2>1. Goto(th, "respawn") /\ cascade' = cascade /\ o.pc = "publish"
    BY <1>4 DEF Publish, Active
  <2>2. t \in SettledTasks' /\ o.slot \in Slots /\ "respawn" \in CustodyPcs \ {"idle"}
    BY <1>1, <2>1 DEF CustodySound, CustodyShape, CustodyPcs
  <2> QED
    BY <2>1, <2>2, GotoMove
<1>5. CASE Settle(th) \/ OwedFails(th)
  <2>1. o.pc \in {"settle", "owed"} /\ o.then \in {"publish", "emit", "end"}
    BY <1>1, <1>5 DEF Settle, OwedFails, Active, CustodyType, Thens
  <2>2. t \in SettledTasks'
    BY <1>1, <2>1 DEF CustodySound
  <2>3. CASE o.then = "publish"
    <3>1. Goto(th, "publish") /\ cascade' = cascade
      BY <1>5, <2>3 DEF Settle, OwedFails
    <3>2. o.slot \in Slots /\ "publish" \in CustodyPcs \ {"idle"}
      BY <1>1, <2>3 DEF CustodyShape, CustodyPcs
    <3> QED
      BY <2>1, <2>2, <3>1, <3>2, GotoMove
  <2>4. CASE o.then = "emit"
    <3>1. Ended(th, TRUE)
      BY <1>5, <2>4 DEF Settle, OwedFails
    <3> QED
      BY <2>1, <2>2, <3>1, EndedMove
  <2>5. CASE o.then = "end"
    <3>1. Ended(th, TRUE)
      BY <1>5, <2>5 DEF Settle, OwedFails
    <3> QED
      BY <2>1, <2>2, <3>1, EndedMove
  <2> QED
    BY <2>1, <2>3, <2>4, <2>5
<1> QED
  BY <1>2, <1>3, <1>4, <1>5 DEF CustodyFault

\* A step of a cascade, between two custodies.
LEMMA CascadeMove ==
    ASSUME TaskInv, Carried, Known \subseteq Known', NEW th \in Threads, custody[th].pc = "idle",
           custody' = custody, NEW k \in CascadeType, cascade' = [cascade EXCEPT ![th] = k],
           k.pc # "idle" => k.root \in Known,
           CascadeSound(NoTask, k, HandledTasks', SettledTasks', fences', owed', Sealed')
    PROVE  ThreadsNext
<1> DEFINE c == custody[th]
<1>1. /\ custody \in [Threads -> CustodyType] /\ c \in CustodyType /\ Paired(c, cascade[th])
      /\ SoundNext(c, cascade[th])
  BY ThreadPair DEF TaskInv, TaskTypes, ThreadTypes
<1>2. custody' = [custody EXCEPT ![th] = c] /\ c.pc = "idle" /\ c.task = NoTask
  BY <1>1 DEF Paired, CustodyShape
<1> HIDE DEF c
<1>3. Paired(c, k)
  BY <1>1, <1>2 DEF Paired, CustodyShape
<1>4. SoundNext(c, k)
  BY <1>1, <1>2 DEF SoundNext
<1> QED
  BY <1>2, <1>3, <1>4, ThreadMoves DEF Moves

LEMMA ClosedMove ==
    ASSUME TaskInv, Carried, Known \subseteq Known', NEW th \in Threads, custody[th].pc = "idle",
           custody' = custody, cascade' = [cascade EXCEPT ![th] = NoCascade]
    PROVE  ThreadsNext
<1>1. /\ NoCascade \in CascadeType /\ NoCascade.pc = "idle" /\ NoCascade.todo = {}
      /\ NoCascade.done = {}
  BY DEF NoCascade, CascadeType, CascadePcs
<1>2. CascadeSound(NoTask, NoCascade, HandledTasks', SettledTasks', fences', owed', Sealed')
  BY <1>1 DEF CascadeSound
<1> QED
  BY <1>1, <1>2, CascadeMove

LEMMA CascadeThreads ==
    ASSUME TaskInv, Carried, Known \subseteq Known', NEW th \in Threads, CascadeStep(th)
    PROVE  ThreadsNext
<1> DEFINE k == cascade[th]
           r == k.root
<1>1. /\ k \in CascadeType /\ cascade \in [Threads -> CascadeType]
      /\ CascadeSound(custody[th].task, k, HandledTasks, SettledTasks, fences, owed, Sealed)
      /\ CascadeSound(custody[th].task, k, HandledTasks', SettledTasks', fences', owed',
                      Sealed')
      /\ k.pc # "idle" => r \in Known
      /\ custody[th].pc = "idle" => custody[th].task = NoTask
  BY ThreadPair DEF Paired, SoundNext, TaskInv, TaskTypes, ThreadTypes, CustodyShape
<1>2. k.pc # "idle" => r \in Tasks /\ r # NoTask
  BY <1>1, KnownAreTasks
<1>3. CASE CascadeBegin(th)
  <2> DEFINE d == [k EXCEPT !.pc = "sweep"]
  <2>1. /\ k.pc = "begin" /\ custody[th].pc = "idle" /\ custody' = custody
        /\ cascade' = [cascade EXCEPT ![th] = d] /\ fences' = fences \cup {r}
    BY <1>1, <1>3 DEF CascadeBegin, At
  <2>2. /\ d \in CascadeType /\ d.pc = "sweep" /\ d.root = r /\ d.mint = k.mint /\ d.todo = k.todo
        /\ d.done = k.done /\ d.failed = k.failed /\ d.sweeps = k.sweeps
    BY <1>1 DEF CascadeType, CascadePcs
  <2> HIDE DEF d
  <2>3. CascadeSound(NoTask, d, HandledTasks', SettledTasks', fences', owed', Sealed')
    BY <1>1, <2>1, <2>2 DEF CascadeSound
  <2> QED
    BY <1>1, <2>1, <2>2, <2>3, CascadeMove
<1>4. CASE CascadeSweep(th)
  <2> DEFINE order == ((Below(r, Queued) \cap Queued) \cup {r}) \ k.done
  <2>1. /\ k.pc = "sweep" \/ (k.pc = "tasks" /\ k.todo = {})
        /\ custody[th].pc = "idle" /\ custody' = custody /\ r \in Known /\ r \in Tasks /\ r # NoTask
    BY <1>1, <1>2, <1>4 DEF CascadeSweep, At
  <2>2. order \subseteq Known
    BY <2>1 DEF Queued, TaskInv, TaskTypes, QueueTypes, OnQueue
  <2>3. r \in order \/ r \in k.done
    OBVIOUS
  <2> DEFINE p == [k EXCEPT !.pc = "post"]
             a1 == [k EXCEPT !.pc = "mint"]
             a2 == [a1 EXCEPT !.mint = order \ {r}]
             a3 == [a2 EXCEPT !.todo = order]
             a4 == [a3 EXCEPT !.failed = {}]
             d == [a4 EXCEPT !.sweeps = k.sweeps + 1]
  <2>4. CASE k.sweeps = MaxSweeps \/ order = {}
    <3>1. cascade' = [cascade EXCEPT ![th] = p]
      BY <1>1, <1>4, <2>4 DEF CascadeSweep
    <3>2. k.pc = "tasks"
      <4>1. k.pc = "sweep" => k.sweeps = 0 /\ k.done = {}
        BY <1>1 DEF CascadeSound
      <4> QED
        BY <2>1, <2>3, <2>4, <4>1 DEF MaxSweeps
    <3>3. /\ p \in CascadeType /\ p.pc = "post" /\ p.root = r /\ p.mint = k.mint /\ p.todo = k.todo
          /\ p.done = k.done /\ p.failed = k.failed
      BY <1>1 DEF CascadeType, CascadePcs
    <3> HIDE DEF p
    <3>4. CascadeSound(NoTask, p, HandledTasks', SettledTasks', fences', owed', Sealed')
      BY <1>1, <2>1, <3>2, <3>3 DEF CascadeSound
    <3> QED
      BY <2>1, <3>1, <3>3, <3>4, CascadeMove
  <2>5. CASE ~(k.sweeps = MaxSweeps \/ order = {})
    <3>1. cascade' = [cascade EXCEPT ![th].pc = "mint", ![th].mint = order \ {r},
                         ![th].todo = order, ![th].failed = {}, ![th].sweeps = @ + 1]
      BY <1>4, <2>5 DEF CascadeSweep
    <3> HIDE DEF order
    <3>2. cascade' = [cascade EXCEPT ![th] = d]
      BY <1>1, <3>1 DEF CascadeType
    <3>3. k.sweeps \in Nat /\ k.sweeps + 1 \in Nat
      BY <1>1 DEF CascadeType
    <3>4. a1 \in CascadeType /\ a1.pc = "mint" /\ a1.root = r /\ a1.done = k.done
      BY <1>1 DEF CascadeType, CascadePcs
    <3> HIDE DEF a1
    <3>5. a2 \in CascadeType /\ a2.pc = "mint" /\ a2.root = r /\ a2.done = k.done
          /\ a2.mint = order \ {r}
      BY <2>2, <3>4 DEF CascadeType
    <3> HIDE DEF a2
    <3>6. a3 \in CascadeType /\ a3.pc = "mint" /\ a3.root = r /\ a3.done = k.done
          /\ a3.mint = order \ {r} /\ a3.todo = order
      BY <2>2, <3>5 DEF CascadeType
    <3> HIDE DEF a3
    <3>7. a4 \in CascadeType /\ a4.pc = "mint" /\ a4.root = r /\ a4.done = k.done
          /\ a4.mint = order \ {r} /\ a4.todo = order
      BY <3>6 DEF CascadeType
    <3> HIDE DEF a4
    <3>8. d \in CascadeType /\ d.pc = "mint" /\ d.root = r /\ d.done = k.done
          /\ d.mint = order \ {r} /\ d.todo = order
      BY <3>3, <3>7 DEF CascadeType
    <3> HIDE DEF d
    <3>9. /\ r \in HandledTasks' /\ r \in fences'
          /\ r \in k.done => r \in SettledTasks'
      BY <1>1, <2>1 DEF CascadeSound
    <3>10. CascadeSound(NoTask, d, HandledTasks', SettledTasks', fences', owed', Sealed')
      <4>1. d.todo \ d.mint \subseteq {r}
        BY <3>8
      <4> QED
        BY <2>3, <3>8, <3>9, <4>1 DEF CascadeSound
    <3> QED
      BY <2>1, <3>2, <3>8, <3>10, CascadeMove
  <2> QED
    BY <2>4, <2>5
<1>5. ASSUME NEW t \in Tasks, CascadeMint(th, t) PROVE ThreadsNext
  <2> DEFINE d == [k EXCEPT !.mint = @ \ {t}]
  <2>1. /\ k.pc = "mint" /\ custody[th].pc = "idle" /\ custody' = custody
        /\ cascade' = [cascade EXCEPT ![th] = d]
        /\ intent' = [intent EXCEPT ![t] = Requested(intent[t], "single")]
    BY <1>1, <1>5 DEF CascadeMint, Minted, At
  <2>2. t \in HandledTasks'
    <3>1. intent \in [Tasks -> IntentType] /\ Row(intent[t], used.mints, pid)
          /\ used.mints \in Nat /\ pid \in Nat /\ used.mints + 1 \in Nat
      BY IntentRows DEF TaskInv, TaskTypes, IntentTypes, UsedType
    <3>2. Live(Requested(intent[t], "single"))
      <4>1. (IF Live(intent[t]) THEN used.mints ELSE used.mints + 1) \in Nat
        BY <3>1
      <4> QED
        BY <3>1, <4>1, RowAsked
    <3>3. HasIntent(t)'
      BY <2>1, <3>1, <3>2 DEF HasIntent, Live
    <3> QED
      BY <3>3 DEF HandledTasks
  <2>3. /\ d \in CascadeType /\ d.pc = "mint" /\ d.root = r /\ d.mint = k.mint \ {t}
        /\ d.todo = k.todo /\ d.done = k.done /\ d.failed = k.failed
    BY <1>1, <2>1 DEF CascadeType
  <2> HIDE DEF d
  <2>4. CascadeSound(NoTask, d, HandledTasks', SettledTasks', fences', owed', Sealed')
    <3>1. custody[th].task = NoTask
      BY <1>1, <2>1
    <3>2. d.todo \ d.mint \subseteq HandledTasks'
      BY <1>1, <2>2, <2>3 DEF CascadeSound
    <3> QED
      BY <1>1, <2>1, <2>3, <3>1, <3>2 DEF CascadeSound
  <2> QED
    BY <1>1, <2>1, <2>3, <2>4, CascadeMove
<1>6. ASSUME NEW t \in Tasks, CascadeTake(th, t) PROVE ThreadsNext
  <2> DEFINE a == [k EXCEPT !.pc = "tasks"]
             d == [a EXCEPT !.todo = k.todo \ {t}]
  <2>1. /\ (k.pc = "mint" /\ k.mint = {}) \/ k.pc = "tasks"
        /\ custody[th].pc = "idle" /\ t \in k.todo /\ Take(th, t, FALSE)
        /\ cascade' = [cascade EXCEPT ![th].pc = "tasks", ![th].todo = @ \ {t}]
    BY <1>6 DEF CascadeTake, At
  <2>2. cascade' = [cascade EXCEPT ![th] = d]
    BY <1>1, <2>1 DEF CascadeType
  <2>3. k.mint = {} /\ t \in HandledTasks' /\ t \in Known
    BY <1>1, <2>1 DEF CascadeSound, CascadeType
  <2>4. /\ a \in CascadeType /\ a.pc = "tasks" /\ a.root = r /\ a.mint = k.mint
        /\ a.done = k.done /\ a.failed = k.failed
    BY <1>1 DEF CascadeType, CascadePcs
  <2> HIDE DEF a
  <2>5. /\ d \in CascadeType /\ d.pc = "tasks" /\ d.root = r /\ d.mint = k.mint
        /\ d.todo = k.todo \ {t} /\ d.done = k.done /\ d.failed = k.failed
    BY <1>1, <2>4 DEF CascadeType
  <2> HIDE DEF d
  <2>6. CascadeSound(t, d, HandledTasks', SettledTasks', fences', owed', Sealed')
    <3>1. r # NoTask /\ custody[th].task = NoTask
      BY <1>1, <1>2, <2>1
    <3>2. r \in k.todo \cup k.done \cup k.failed
      BY <1>1, <2>1, <3>1 DEF CascadeSound
    <3>3. r \in d.todo \cup d.done \cup d.failed \cup {t}
      BY <2>5, <3>2
    <3>4. d.todo \ d.mint \subseteq HandledTasks'
      BY <1>1, <2>5 DEF CascadeSound
    <3>5. r \in HandledTasks' /\ r \in fences' /\ (r \in d.done => r \in SettledTasks')
      BY <1>1, <2>1, <2>5 DEF CascadeSound
    <3> QED
      BY <2>3, <2>5, <3>3, <3>4, <3>5 DEF CascadeSound
  <2> QED
    BY <1>1, <2>1, <2>2, <2>3, <2>5, <2>6, TakeMove, ZenonT(40)
<1>7. CASE CascadePost(th)
  <2> DEFINE d == [k EXCEPT !.pc = "summary"]
             refused == {t \in k.failed : ~IsSettled(t)}
  <2>1. k.pc = "post" /\ custody[th].pc = "idle" /\ custody' = custody
    BY <1>7 DEF CascadePost, At
  <2>2. CASE refused # {} \/ TreeIsLive(r)
    <3>1. cascade' = [cascade EXCEPT ![th] = NoCascade]
      BY <1>7, <2>2 DEF CascadePost
    <3> QED
      BY <2>1, <3>1, ClosedMove
  <2>3. CASE refused = {} /\ ~TreeIsLive(r)
    <3>1. cascade' = [cascade EXCEPT ![th] = d]
      BY <1>1, <1>7, <2>3 DEF CascadePost
    <3>2. r \in SettledTasks
      <4>1. r \in Tasks /\ (r \in k.done \/ r \in k.failed) /\ (r \in k.done => r \in SettledTasks)
        BY <1>1, <1>2, <2>1 DEF CascadeSound
      <4>2. r \in k.failed => IsSettled(r)
        BY <2>3
      <4> QED
        BY <4>1, <4>2 DEF SettledTasks
    <3>3. r \in Sealed
      <4>1. \A x \in Descendants(r) : OnQueue(x) => IsSettled(x)
        BY <2>3 DEF TreeIsLive
      <4> QED
        BY <1>1, <1>2, <2>1, <4>1 DEF Sealed, Queued, HandledTasks
    <3>4. /\ HandledTasks \subseteq HandledTasks' /\ SettledTasks \subseteq SettledTasks'
          /\ UNCHANGED <<durableVars, queueVars>>
      BY <1>7 DEF Carried, CascadePost
    <3>5. r \in Sealed'
      <4>1. r \in fences
        BY <1>1, <2>1 DEF CascadeSound
      <4> QED
        BY <3>3, <4>1 DEF Carried
    <3>6. /\ d \in CascadeType /\ d.pc = "summary" /\ d.root = r /\ d.mint = k.mint
          /\ d.todo = k.todo /\ d.done = k.done
      BY <1>1 DEF CascadeType, CascadePcs
    <3> HIDE DEF d
    <3>7. CascadeSound(NoTask, d, HandledTasks', SettledTasks', fences', owed', Sealed')
      BY <1>1, <2>1, <3>2, <3>3, <3>4, <3>5, <3>6 DEF CascadeSound
    <3> QED
      BY <1>1, <2>1, <3>1, <3>6, <3>7, CascadeMove
  <2> QED
    BY <2>2, <2>3
<1>8. CASE CascadeSummary(th)
  <2> DEFINE d == [k EXCEPT !.pc = "close"]
  <2>1. k.pc = "summary" /\ custody[th].pc = "idle" /\ custody' = custody
    BY <1>8 DEF CascadeSummary, At
  <2>2. CASE cascade' = [cascade EXCEPT ![th] = NoCascade]
    BY <2>1, <2>2, ClosedMove
  <2>3. CASE owed' = owed \cup {r} /\ cascade' = [cascade EXCEPT ![th].pc = "close"]
    <3>1. cascade' = [cascade EXCEPT ![th] = d]
      BY <1>1, <2>3
    <3>2. /\ d \in CascadeType /\ d.pc = "close" /\ d.root = r /\ d.mint = k.mint
          /\ d.todo = k.todo /\ d.done = k.done
      BY <1>1 DEF CascadeType, CascadePcs
    <3> HIDE DEF d
    <3>3. CascadeSound(NoTask, d, HandledTasks', SettledTasks', fences', owed', Sealed')
      BY <1>1, <2>1, <2>3, <3>2 DEF CascadeSound
    <3> QED
      BY <1>1, <2>1, <3>1, <3>2, <3>3, CascadeMove
  <2> QED
    BY <1>8, <2>2, <2>3 DEF CascadeSummary
<1>9. CASE CascadeClose(th)
  BY <1>9, ClosedMove DEF CascadeClose, At
<1> QED
  BY <1>3, <1>4, <1>5, <1>6, <1>7, <1>8, <1>9 DEF CascadeStep

\* Asking for a cancellation leaves an intent.
LEMMA AskedHandled ==
    ASSUME TaskInv, NEW t \in Tasks, NEW scope \in {"single", "cascade"}, Asking(t, scope)
    PROVE  t \in HandledTasks'
<1>1. intent \in [Tasks -> IntentType] /\ Row(intent[t], used.mints, pid)
      /\ used.mints \in Nat /\ pid \in Nat /\ used.mints + 1 \in Nat
  BY IntentRows DEF TaskInv, TaskTypes, IntentTypes, UsedType
<1>2. (IF Live(intent[t]) THEN used.mints ELSE used.mints + 1) \in Nat
  BY <1>1
<1>3. Live(Requested(intent[t], scope))
  BY <1>1, <1>2, RowAsked
<1>4. intent' = [intent EXCEPT ![t] = Requested(intent[t], scope)]
  BY DEF Asking
<1>5. HasIntent(t)'
  BY <1>1, <1>3, <1>4 DEF HasIntent, Live
<1> QED
  BY <1>5 DEF HandledTasks

\* Requests, the watchdog, and the crash detector.
LEMMA StartThreads ==
    ASSUME TaskInv, Carried, Known \subseteq Known',
           \/ \E w \in Slots : DetectCrash(w)
           \/ \E t \in Tasks : Watchdog(t)
           \/ \E c \in Clients, t \in Tasks : RequestSingle(c, t) \/ RequestCascade(c, t)
    PROVE  ThreadsNext
<1>1. Main \in Threads /\ Clients \subseteq Threads
  BY DEF Threads
<1>2. ASSUME NEW w \in Slots, DetectCrash(w) PROVE ThreadsNext
  <2> DEFINE a == [NoCustody EXCEPT !.pc = "respawn"]
             c == [a EXCEPT !.slot = w]
             k == cascade[Main]
  <2>1. /\ custody' = [custody EXCEPT ![Main] = c] /\ cascade' = cascade
        /\ k.pc = "idle"
    BY <1>2 DEF DetectCrash, LoopFree, ThreadFree
  <2>2. /\ cascade \in [Threads -> CascadeType] /\ k \in CascadeType
        /\ SoundNext(custody[Main], k)
    BY <1>1, ThreadPair DEF TaskInv, TaskTypes, ThreadTypes
  <2>3. cascade' = [cascade EXCEPT ![Main] = k]
    BY <2>1, <2>2
  <2>4. /\ a \in CustodyType /\ a.pc = "respawn" /\ a.task = NoTask /\ a.settled = FALSE
    BY DEF NoCustody, CustodyType, NoClaim, ClaimType, CustodyPcs, Thens
  <2> HIDE DEF a
  <2>5. /\ c \in CustodyType /\ c.pc = "respawn" /\ c.task = NoTask /\ c.settled = FALSE
        /\ c.slot = w
    BY <2>4 DEF CustodyType
  <2> HIDE DEF c, k
  <2>6. Paired(c, k) /\ SoundNext(c, k)
    BY <2>1, <2>2, <2>5 DEF Paired, CustodyShape, SoundNext, CustodySound, CascadeSound
  <2> QED
    BY <1>1, <2>1, <2>3, <2>6, ThreadMoves DEF Moves
<1>3. ASSUME NEW th \in Threads, NEW t \in Known, ThreadFree(th), cascade' = cascade,
             t \in HandledTasks', Take(th, t, TRUE)
      PROVE  ThreadsNext
  <2> DEFINE k == cascade[th]
  <2>1. /\ custody[th].pc = "idle" /\ k.pc = "idle" /\ k \in CascadeType
        /\ cascade \in [Threads -> CascadeType] /\ SoundNext(custody[th], k)
    BY <1>3, ThreadPair DEF ThreadFree, TaskInv, TaskTypes, ThreadTypes
  <2>2. cascade' = [cascade EXCEPT ![th] = k]
    BY <1>3, <2>1
  <2> HIDE DEF k
  <2>3. CascadeSound(t, k, HandledTasks', SettledTasks', fences', owed', Sealed')
    BY <2>1 DEF SoundNext, CascadeSound
  <2>4. TRUE \in BOOLEAN
    OBVIOUS
  <2> QED
    BY <1>3, <2>1, <2>2, <2>3, <2>4, TakeMove
<1>4. ASSUME NEW t \in Tasks, Watchdog(t) PROVE ThreadsNext
  <2>1. HasIntent(t)
    BY <1>4 DEF Watchdog, HasIntent, Abandoned
  <2>2. t \in Known /\ t \in HandledTasks'
    BY <2>1 DEF TaskInv, IntentKnown, HandledTasks, Carried
  <2>3. CASE Open(Main, t) /\ custody' = custody
    BY <1>1, <1>4, <2>2, <2>3, OpenMove DEF Watchdog
  <2>4. CASE Take(Main, t, TRUE) /\ cascade' = cascade
    BY <1>1, <1>3, <1>4, <2>2, <2>4 DEF Watchdog
  <2> QED
    BY <1>4, <2>3, <2>4 DEF Watchdog
<1>5. ASSUME NEW c \in Clients, NEW t \in Tasks, RequestSingle(c, t) \/ RequestCascade(c, t)
      PROVE  ThreadsNext
  <2>1. Gains(t)
    BY <1>5 DEF RequestSingle, RequestCascade, Gains
  <2>2. t \in Known
    BY <2>1, GainsKnown DEF TaskInv
  <2>3. c \in Threads
    BY <1>1
  <2>4. CASE RequestSingle(c, t)
    <3>1. ThreadFree(c) /\ cascade' = cascade /\ Take(c, t, TRUE) /\ Asking(t, "single")
      BY <2>4 DEF RequestSingle
    <3>2. t \in HandledTasks'
      BY <3>1, AskedHandled
    <3> QED
      BY <1>3, <2>2, <2>3, <3>1, <3>2
  <2>5. CASE RequestCascade(c, t)
    <3>1. ThreadFree(c) /\ custody' = custody /\ Open(c, t) /\ Asking(t, "cascade")
      BY <2>5 DEF RequestCascade
    <3>2. t \in HandledTasks'
      BY <3>1, AskedHandled
    <3> QED
      BY <2>2, <2>3, <3>1, <3>2, OpenMove
  <2> QED
    BY <1>5, <2>4, <2>5
<1> QED
  BY <1>2, <1>4, <1>5

\* The next supervisor process has threads of its own.
LEMMA CrashThreads ==
    ASSUME TaskInv, Known \subseteq Known', Crash PROVE ThreadsNext
<1>1. /\ custody' = [th \in Threads |-> NoCustody] /\ cascade' = [th \in Threads |-> NoCascade]
  BY DEF Crash
<1>2. /\ NoCustody \in CustodyType /\ NoCustody.pc = "idle" /\ NoCustody.task = NoTask
      /\ NoCustody.then = "end" /\ NoCustody.settled = FALSE
  BY DEF NoCustody, CustodyType, NoClaim, ClaimType, CustodyPcs, Thens
<1>3. /\ NoCascade \in CascadeType /\ NoCascade.pc = "idle" /\ NoCascade.todo = {}
      /\ NoCascade.done = {}
  BY DEF NoCascade, CascadeType, CascadePcs
<1>4. custody' \in [Threads -> CustodyType'] /\ cascade' \in [Threads -> CascadeType']
  <2>1. CustodyType \subseteq CustodyType' /\ CascadeType \subseteq CascadeType'
    BY TypesGrow
  <2> QED
    BY <1>1, <1>2, <1>3, <2>1
<1>5. ThreadTypes'
  BY <1>1, <1>2, <1>3, <1>4 DEF ThreadTypes, CustodyShape
<1>6. CustodySound(NoCustody, HandledTasks', SettledTasks')
  BY <1>2 DEF CustodySound
<1>7. CascadeSound(NoTask, NoCascade, HandledTasks', SettledTasks', fences', owed', Sealed')
  BY <1>3 DEF CascadeSound
<1>8. CustodyInv'
  BY <1>1, <1>2, <1>3, <1>6, <1>7 DEF CustodyInv
<1> QED
  BY <1>5, <1>8 DEF ThreadsNext

\* No other step touches a thread.
LEMMA ThreadSteps ==
    ASSUME TaskInv, Known \subseteq Known', [Tasks_Next]_taskVars PROVE ThreadsNext
<1>1. CASE Crash
  BY <1>1, CrashThreads
<1>2. CASE ~Crash
  <2>1. Carried
    BY <1>2, CarriedAlong
  <2>2. ASSUME NEW th \in Threads, CustodyStep(th) \/ CustodyFault(th) \/ CascadeStep(th)
        PROVE  ThreadsNext
    BY <2>1, <2>2, CaptureThreads, OutcomeThreads, EndThreads, CascadeThreads DEF CustodyStep
  <2>3. CASE \/ \E w \in Slots : DetectCrash(w)
             \/ \E t \in Tasks : Watchdog(t)
             \/ \E c \in Clients, t \in Tasks : RequestSingle(c, t) \/ RequestCascade(c, t)
    BY <2>1, <2>3, StartThreads
  <2>4. CASE \/ HandleSchedule \/ HandleDone \/ ReaperStep \/ ReaperFault
             \/ \E t \in Tasks : DropPending(t) \/ DropPendingFails(t) \/ \E w \in Slots : Assign(w, t)
             \/ \E w \in Slots : WorkerStep(w) \/ WorkerDies(w)
             \/ \E w \in Slots : \E t \in Tasks : ScheduleChild(w, t)
             \/ \E t \in Tasks : Timeout(t) \/ RequestByWorker(t)
             \/ UNCHANGED taskVars
    <3>1. UNCHANGED threadVars
      BY <2>4 DEF HandleSchedule, HandleDone, DropPending, DropPendingFails, Assign, ReaperStep,
         ReapTake, ReapKill, ReapCheck, ReapWrite, ReapRetry, ReapRespawn, ReaperFault, ReapWedged,
         ReapWriteFails, ReapRetryFails, ReapRespawnFails, WorkerStep, StartTask, FinishTask,
         EmitDone, WorkerDies, ScheduleChild, Timeout, RequestByWorker, taskVars
    <3> QED
      BY <2>1, <3>1, ThreadsRest
  <2> QED
    BY <1>2, <2>2, <2>3, <2>4 DEF Tasks_Next, LoopStep, Environment, Fault
<1> QED
  BY <1>1, <1>2

---------------------------------------------------------------------------
LEMMA InvStep ==
    ASSUME TaskInv, [Tasks_Next]_taskVars PROVE TaskInv'
<1>1. TaskTypes /\ ResultTypes
  BY DEF TaskInv, TaskTypes
<1>2. Kept(result') /\ ResultTypes' /\ IntentTypes'
  BY <1>1, ResultMoves, IntentMoves DEF IntentMove
<1>3. Known \subseteq Known'
  BY <1>1, <1>2, KnownGrow
<1>4. QueueTypes'
  BY <1>1, <1>3, QueueMoves DEF QueueMove, QueueTypes
<1>5. SlotTypes'
  <2>1. SlotsStay /\ SlotType \subseteq SlotType'
    BY <1>1, <1>3, SlotMoves, TypesGrow
  <2> QED
    BY <1>3, <2>1 DEF SlotsStay, SlotTypes, Works
<1>6. EventTypes' /\ ReapTypes'
  BY <1>1, <1>2, <1>3, EventMoves, ReapMoves
<1>7. ThreadTypes' /\ CustodyInv'
  BY <1>3, ThreadSteps DEF ThreadsNext
<1>8. Lineage' /\ IntentKnown'
  BY <1>1, <1>2, LineageStays, IntentGoes DEF TaskInv
<1> QED
  BY <1>2, <1>4, <1>5, <1>6, <1>7, <1>8 DEF TaskInv, TaskTypes

LEMMA InvInit == TaskState_Init => TaskInv
<1> SUFFICES ASSUME TaskState_Init PROVE TaskInv
  OBVIOUS
<1> DEFINE roots == {t \in Tasks : Parent[t] = NoTask /\ ~IsRetry(t)}
<1>1. /\ result = [t \in Tasks |-> IF t \in roots THEN "scheduled" ELSE "none"]
      /\ child = [t \in Tasks |-> "none"] /\ intent = [t \in Tasks |-> NoIntent]
      /\ owed = {} /\ pending = roots /\ snapshot = roots
      /\ running = [t \in Tasks |-> NoSlot] /\ attempt = [t \in Tasks |-> 1] /\ fences = {}
      /\ slots = [w \in Slots |-> FreshSlot] /\ events = <<>>
      /\ jobs = <<>> /\ reaper = NoJob
      /\ custody = [th \in Threads |-> NoCustody] /\ cascade = [th \in Threads |-> NoCascade]
      /\ pid = 1
      /\ used = [requests |-> 0, mints |-> 0, deaths |-> 0, timeouts |-> 0, faults |-> 0,
                  crashes |-> 0, replays |-> 0,
                  struck |-> {}, stranded |-> {}, unread |-> {}, adrift |-> {}]
  BY DEF TaskState_Init
<1>2. \A t \in roots : t \in Tasks /\ Root[t] = t /\ Parent[t] = NoTask
  BY LineageAssumption
<1> HIDE DEF roots
<1>3. Known = roots
  BY <1>1, <1>2 DEF Known
<1>4. ResultTypes
  BY <1>1 DEF ResultTypes, Statuses
<1>5. IntentTypes /\ IntentKnown
  BY <1>1 DEF IntentTypes, IntentKnown, NoIntent, IntentType, UsedType, HasIntent
<1>6. QueueTypes /\ Lineage
  BY <1>1, <1>2, <1>3 DEF QueueTypes, Lineage
<1>7. SlotTypes
  BY <1>1 DEF SlotTypes, FreshSlot, SlotType
<1>8. EventTypes
  BY <1>1 DEF EventTypes
<1>9. ReapTypes
  <2>1. NoJob \in JobType /\ NoJob.pc = "idle"
    BY DEF NoJob, JobType, JobPcs
  <2>2. <<>> \in Seq(Waiting)
    OBVIOUS
  <2> QED
    BY <1>1, <2>1, <2>2 DEF ReapTypes
<1>10. /\ NoCustody \in CustodyType /\ NoCustody.pc = "idle" /\ NoCustody.task = NoTask
       /\ NoCustody.then = "end" /\ NoCustody.settled = FALSE
  BY DEF NoCustody, CustodyType, NoClaim, ClaimType, CustodyPcs, Thens
<1>11. /\ NoCascade \in CascadeType /\ NoCascade.pc = "idle" /\ NoCascade.todo = {}
       /\ NoCascade.done = {}
  BY DEF NoCascade, CascadeType, CascadePcs
<1>12. ThreadTypes
  BY <1>1, <1>10, <1>11 DEF ThreadTypes, CustodyShape
<1>13. CustodySound(NoCustody, HandledTasks, SettledTasks)
  BY <1>10 DEF CustodySound
<1>14. CascadeSound(NoTask, NoCascade, HandledTasks, SettledTasks, fences, owed, Sealed)
  BY <1>11 DEF CascadeSound
<1>15. CustodyInv
  BY <1>1, <1>10, <1>11, <1>13, <1>14 DEF CustodyInv
<1> QED
  BY <1>4, <1>5, <1>6, <1>7, <1>8, <1>9, <1>12, <1>15 DEF TaskInv, TaskTypes

(* The supervisor's state is well formed: everything it queues, runs, reaps *)
(* or cancels is a task that has a result row, and a custody that is past   *)
(* its write works on a settled task.                                       *)
THEOREM SupervisionInvariant == Tasks_Spec => []TaskInv
<1>1. TaskState_Init => TaskInv
  BY InvInit
<1>2. TaskInv /\ [Tasks_Next]_taskVars => TaskInv'
  BY InvStep
<1> QED
  BY <1>1, <1>2, PTL DEF Tasks_Spec

(* The types of the supervisor's files, queues, slots and threads. *)
THEOREM TaskTyped == Tasks_Spec => []TaskTypeOK
<1>1. TaskInv => TaskTypeOK
  <2> SUFFICES ASSUME TaskInv PROVE TaskTypeOK
    OBVIOUS
  <2>1. \A w \in Slots :
          /\ slots[w].busy \in Tasks \cup {NoTask} /\ slots[w].job \in Tasks \cup {NoTask}
          /\ slots[w].reaping \in BOOLEAN /\ slots[w].inc \in Nat
          /\ slots[w].proc \in {"idle", "working", "finishing", "dead"}
          /\ slots[w].inq \in Seq(Tasks)
    <3> TAKE w \in Slots
    <3>1. slots[w] \in SlotType
      BY DEF TaskInv, TaskTypes, SlotTypes
    <3>2. Seq(Known) \subseteq Seq(Tasks)
      BY KnownAreTasks
    <3> QED
      BY <3>1, <3>2, KnownAreTasks DEF SlotType
  <2>2. \A t \in Tasks :
          /\ intent[t].state \in {"none", "requested", "claimed"}
          /\ intent[t].scope \in {"single", "cascade"}
          /\ intent[t].req \in 0..used.mints /\ intent[t].gen \in Nat /\ intent[t].pid \in 0..pid
    BY DEF TaskInv, TaskTypes, IntentTypes, IntentType, UsedType
  <2>3. \A th \in Threads :
          /\ custody[th].pc \in CustodyPcs
          /\ cascade[th].pc \in {"idle", "begin", "sweep", "mint", "tasks", "post", "summary", "close"}
    BY DEF TaskInv, TaskTypes, ThreadTypes, CustodyType, CascadeType, CascadePcs
  <2> QED
    BY <2>1, <2>2, <2>3, KnownAreTasks DEF TaskInv, TaskTypes, ResultTypes, QueueTypes, TaskTypeOK
<1> QED
  BY <1>1, SupervisionInvariant, PTL

\* Once a task's result file holds a terminal status, no write changes it:
\* whoever loses the race between completion, timeout and cancel leaves it.
OutcomeSticks == [][\A t \in Tasks : IsSettled(t) => result'[t] = result[t]]_taskVars

(* A settled outcome is never overwritten, by a worker, the loop, the      *)
(* reaper, a custody or a copy of the child's result.                      *)
THEOREM SettledForGood == Tasks_Spec => OutcomeSticks
<1>1. TaskInv /\ [Tasks_Next]_taskVars
         => [\A t \in Tasks : IsSettled(t) => result'[t] = result[t]]_taskVars
  BY ResultMoves DEF TaskInv, Kept
<1> QED
  BY <1>1, SupervisionInvariant, PTL DEF Tasks_Spec, OutcomeSticks

(* A cancel request lasts until its task has an outcome, whichever thread   *)
(* carries it out, and whatever dies, times out, fails or crashes.          *)
THEOREM CancelLasts == Tasks_Spec => IntentOutlivesTask
<1>1. TaskInv /\ [Tasks_Next]_taskVars
         => [\A t \in Tasks : HasIntent(t) /\ ~HasIntent(t)' => IsSettled(t)']_taskVars
  BY IntentGoes DEF SettledTasks
<1> QED
  BY <1>1, SupervisionInvariant, PTL DEF Tasks_Spec, IntentOutlivesTask

(* The intent of a cascade goes only with its summary owed, and over a tree *)
(* in which all that is still queued or running is itself being cancelled.  *)
THEOREM CascadeClosed == Tasks_Spec => CascadeClosesDeadTree
<1>1. ASSUME TaskInv, [Tasks_Next]_taskVars, NEW t \in Tasks,
             HasIntent(t), intent[t].scope = "cascade", ~HasIntent(t)'
      PROVE  /\ t \in owed
             /\ \A x \in Descendants(t) \cup {t} :
                   OnQueue(x) /\ ~IsSettled(x) => x # t /\ HasIntent(x)
  <2>1. Closes(t)
    BY <1>1, IntentGoes DEF Loses
  <2>2. PICK th \in Threads : cascade[th].pc = "close" /\ cascade[th].root = t
    BY <2>1 DEF Closes
  <2>3. CascadeSound(custody[th].task, cascade[th], HandledTasks, SettledTasks, fences, owed,
                     Sealed)
    BY <1>1 DEF TaskInv, CustodyInv
  <2>4. t \in owed /\ t \in SettledTasks /\ Descendants(t) \cap Queued \subseteq HandledTasks
    BY <2>2, <2>3 DEF CascadeSound, Sealed
  <2>5. ASSUME NEW x \in Descendants(t) \cup {t}, OnQueue(x), ~IsSettled(x)
        PROVE  x # t /\ HasIntent(x)
    BY <2>4, <2>5 DEF SettledTasks, HandledTasks, Queued, Descendants, Below
  <2> QED
    BY <2>4, <2>5
<1>2. TaskInv /\ [Tasks_Next]_taskVars
         => [\A t \in Tasks :
               HasIntent(t) /\ intent[t].scope = "cascade" /\ ~HasIntent(t)'
                   => /\ t \in owed
                      /\ \A x \in Descendants(t) \cup {t} :
                            OnQueue(x) /\ ~IsSettled(x) => x # t /\ HasIntent(x)]_taskVars
  BY <1>1
<1> QED
  BY <1>2, SupervisionInvariant, PTL DEF Tasks_Spec, CascadeClosesDeadTree

---------------------------------------------------------------------------
(* Slots and their owners.  A custody, the reaper's job or a waiting job    *)
(* that has taken a slot finds it as it left it: marked, with the same      *)
(* process, dead once it is past its kill; and no two of them have one.     *)
(* A slot that a timeout took although it was marked is given up for good:  *)
(* enforce_task_timeouts has made two owners of it.                         *)
Holding == {"kill", "write", "owed", "settle", "publish", "respawn"}
Rightly(c) == c.pc \in Holding /\ (c.pc = "respawn" \/ c.then = "publish")
Grips(c, s) ==
    /\ Rightly(c)
    /\ s.reaping /\ (c.pc # "respawn" => s.inc = c.inc) /\ (c.pc # "kill" => s.proc = "dead")
Reaps(j, s) == s.reaping /\ s.inc = j.inc /\ (j.pc # "kill" => s.proc = "dead")

ReaperAt(w) == reaper.pc # "idle" /\ reaper.slot = w
JobAt(w)    == \E i \in DOMAIN jobs : jobs[i].slot = w

SlotOK(w) ==
    /\ \A t \in Tasks : running[t] = w => slots[w].busy = t
    /\ \A th \in Threads : custody[th].slot = w =>
          /\ Grips(custody[th], slots[w])
          /\ \A t \in Tasks :
                running[t] = w => t = custody[th].task /\ custody[th].pc # "respawn"
          /\ \A x \in Threads : custody[x].slot = w => x = th
          /\ ~ReaperAt(w) /\ ~JobAt(w)
    /\ ReaperAt(w) => Reaps(reaper, slots[w]) /\ ~JobAt(w)
    /\ \A i \in DOMAIN jobs : jobs[i].slot = w =>
          Reaps(jobs[i], slots[w]) /\ \A k \in DOMAIN jobs : jobs[k].slot = w => k = i
    /\ slots[w].reaping =>
          \/ \E th \in Threads : custody[th].slot = w
          \/ slots[w].busy = NoTask /\ (ReaperAt(w) \/ JobAt(w) \/ used.faults > 0)

\* An intent claimed by an earlier supervisor is that of a task no slot has.
Idle(x) == \A w \in Slots : slots[w].busy # x
OldClaims ==
    /\ \A x \in Tasks : Abandoned(intent[x]) => Idle(x)
    /\ \A th \in Threads :
          custody[th].took /\ custody[th].pc \in {"claim", "capture"} => Idle(custody[th].task)

\* A custody has a slot from its capture to its end, the struck ones too.
HeldRightly == \A th \in Threads : custody[th].slot # NoSlot => Rightly(custody[th])

SlotInv ==
    OldClaims /\ HeldRightly /\ \A w \in Slots : w \notin used.struck => SlotOK(w)
OwnersKept == \A w \in Slots : w \notin used.struck => SlotOK(w)'

\* The same owner at its next step, with nothing done to the slot.
Forward(c, d) ==
    \/ d = c
    \/ /\ d.slot = c.slot /\ d.inc = c.inc /\ d.task = c.task /\ d.then = c.then
       /\ c.pc # "kill" /\ c.pc # "respawn" /\ d.pc \in Holding \ {"kill", "respawn"}
Same(r, s) ==
    s.reaping = r.reaping /\ s.busy = r.busy /\ s.inc = r.inc /\ (r.proc = "dead" => s.proc = "dead")

\* A slot that a step does not touch keeps its owner.
LEMMA SlotKept ==
    ASSUME NEW w \in Slots, SlotOK(w), Same(slots[w], slots'[w]),
           \A t \in Tasks : running'[t] = w => running[t] = w,
           jobs' = jobs, ReaperAt(w)' <=> ReaperAt(w),
           ReaperAt(w) => reaper'.inc = reaper.inc /\ (reaper.pc # "kill" <=> reaper'.pc # "kill"),
           \A th \in Threads : custody'[th].slot = w <=> custody[th].slot = w,
           \A th \in Threads : custody[th].slot = w => Forward(custody[th], custody'[th]),
           used'.faults > 0 \/ ~(used.faults > 0)
    PROVE  SlotOK(w)'
<1>1. JobAt(w)' <=> JobAt(w)
  BY DEF JobAt
<1>2. \A t \in Tasks : running'[t] = w => slots'[w].busy = t
  BY DEF SlotOK, Same
<1>3. ASSUME NEW th \in Threads, custody'[th].slot = w
      PROVE  /\ Grips(custody'[th], slots'[w])
             /\ \A t \in Tasks :
                   running'[t] = w => t = custody'[th].task /\ custody'[th].pc # "respawn"
             /\ \A x \in Threads : custody'[x].slot = w => x = th
             /\ ~ReaperAt(w)' /\ ~JobAt(w)'
  <2>1. custody[th].slot = w /\ Forward(custody[th], custody'[th])
    BY <1>3
  <2>2. /\ Grips(custody[th], slots[w])
        /\ \A t \in Tasks :
              running[t] = w => t = custody[th].task /\ custody[th].pc # "respawn"
        /\ \A x \in Threads : custody[x].slot = w => x = th
        /\ ~ReaperAt(w) /\ ~JobAt(w)
    BY <2>1 DEF SlotOK
  <2>3. Grips(custody'[th], slots'[w])
    BY <2>1, <2>2 DEF Grips, Rightly, Forward, Same
  <2> QED
    BY <1>1, <2>1, <2>2, <2>3 DEF Forward
<1>4. ReaperAt(w)' => Reaps(reaper', slots'[w]) /\ ~JobAt(w)'
  BY <1>1 DEF SlotOK, Reaps, Same
<1>5. \A i \in DOMAIN jobs' : jobs'[i].slot = w =>
         Reaps(jobs'[i], slots'[w]) /\ \A k \in DOMAIN jobs' : jobs'[k].slot = w => k = i
  BY DEF SlotOK, Reaps, Same
<1>6. slots'[w].reaping =>
         \/ \E th \in Threads : custody'[th].slot = w
         \/ slots'[w].busy = NoTask /\ (ReaperAt(w)' \/ JobAt(w)' \/ used'.faults > 0)
  BY <1>1 DEF SlotOK, Same
<1> QED
  BY <1>2, <1>3, <1>4, <1>5, <1>6 DEF SlotOK

\* A custody that has no slot yet, or no longer.
LEMMA NoGrip ==
    ASSUME TaskTypes, SlotInv, NEW th \in Threads,
           \/ custody[th].pc \notin Holding
           \/ custody[th].pc # "respawn" /\ custody[th].then # "publish"
    PROVE  custody[th].slot = NoSlot
<1>1. custody[th].slot \in Slots \cup {NoSlot}
  BY DEF TaskTypes, ThreadTypes, CustodyType
<1> QED
  BY <1>1 DEF SlotInv, HeldRightly, Rightly

\* One thread goes on without its slot being touched.
LEMMA ThreadGoesOn ==
    ASSUME TaskTypes, SlotInv, NEW th \in Threads, NEW d, custody' = [custody EXCEPT ![th] = d],
           UNCHANGED <<running, slots, jobs, reaper>>,
           used'.faults > 0 \/ ~(used.faults > 0),
           (custody[th].slot = NoSlot /\ d.slot = NoSlot) \/ Forward(custody[th], d)
    PROVE  OwnersKept
<1>1. \A x \in Threads : custody'[x] = IF x = th THEN d ELSE custody[x]
  BY DEF TaskTypes, ThreadTypes
<1> SUFFICES ASSUME NEW w \in Slots, w \notin used.struck PROVE SlotOK(w)'
  BY DEF OwnersKept
<1>2. ASSUME NEW x \in Threads
      PROVE  /\ custody'[x].slot = w <=> custody[x].slot = w
             /\ custody[x].slot = w => Forward(custody[x], custody'[x])
  BY <1>1 DEF Forward
<1>3. SlotOK(w) /\ Same(slots[w], slots'[w]) /\ (ReaperAt(w)' <=> ReaperAt(w))
  BY DEF SlotInv, Same, ReaperAt
<1> QED
  BY <1>2, <1>3, SlotKept

\* The bound of the faults only counts up, and what is marked stays marked; only
\* the reaper's faults set a task adrift.
Counting ==
    /\ used'.faults > 0 \/ ~(used.faults > 0)
    /\ used.struck \subseteq used'.struck /\ used.stranded \subseteq used'.stranded
    /\ used.unread \subseteq used'.unread
    /\ used'.adrift = used.adrift \/ ReaperFault

LEMMA UsedGrows ==
    ASSUME TaskTypes, [Tasks_Next]_taskVars PROVE Counting
<1>1. used \in UsedType
  BY DEF TaskTypes, IntentTypes
<1>2. ASSUME used' = used PROVE Counting
  BY <1>2 DEF Counting
<1>3. ASSUME NEW what \in {"requests", "deaths", "timeouts", "faults", "crashes", "replays"},
             Counted(what)
      PROVE  Counting
  BY <1>1, <1>3 DEF Counted, UsedType, Counting
<1>4. ASSUME NEW what \in {"timeouts", "faults"}, NEW mark \in {"struck", "stranded", "adrift"},
             NEW who, CountedWith(what, mark, who), mark = "adrift" => ReaperFault
      PROVE  Counting
  <2> DEFINE a == [used EXCEPT ![what] = @ + 1]
  <2>1. /\ a \in UsedType /\ a.struck = used.struck /\ (a.faults > 0 \/ ~(used.faults > 0))
        /\ a.stranded = used.stranded /\ a.unread = used.unread
        /\ a.adrift = used.adrift
    BY <1>1 DEF UsedType
  <2>2. used' = [a EXCEPT ![mark] = @ \cup who]
    BY <1>1, <1>4 DEF CountedWith, UsedType
  <2> HIDE DEF a
  <2>3. used'.faults = a.faults
    BY <2>1, <2>2 DEF UsedType
  <2>4. a.struck \subseteq used'.struck /\ a.stranded \subseteq used'.stranded
        /\ a.unread \subseteq used'.unread
    BY <2>1, <2>2 DEF UsedType
  <2>5. used'.adrift = a.adrift \/ mark = "adrift"
    BY <2>1, <2>2 DEF UsedType
  <2> QED
    BY <1>4, <2>1, <2>3, <2>4, <2>5 DEF Counting
<1>5. ASSUME NEW t, NEW scope, Minted(t, scope) \/ Asking(t, scope) PROVE Counting
  BY <1>1, <1>5 DEF Minted, Asking, UsedType, Counting
<1>6. CASE LoopStep \/ ReaperStep \/ UNCHANGED taskVars
  <2>1. ASSUME NEW w \in Slots, DetectCrash(w) PROVE Counting
    <3>1. PICK who : used' = [used EXCEPT !.unread = @ \cup who]
      BY <2>1 DEF DetectCrash
    <3> QED
      BY <1>1, <3>1 DEF UsedType, Counting
  <2>2. used' = used \/ \E w \in Slots : DetectCrash(w)
    BY <1>6 DEF LoopStep, HandleSchedule, HandleDone, DropPending, Assign, ReaperStep,
       ReapTake, ReapKill, ReapCheck, ReapWrite, ReapRetry, ReapRespawn, envVars, taskVars
  <2> QED
    BY <1>2, <2>1, <2>2
<1>7. CASE \E w \in Slots : WorkerStep(w) \/ \E t \in Tasks : ScheduleChild(w, t)
  <2>1. used' = used
    BY <1>7 DEF WorkerStep, StartTask, FinishTask, EmitDone, ScheduleChild, envVars
  <2> QED
    BY <1>2, <2>1
<1>8. ASSUME NEW th \in Threads, CustodyStep(th) PROVE Counting
  <2>1. used' = used
    BY <1>8 DEF CustodyStep, Claim, CapturePending, CaptureRunning, CaptureNothing, WritePending,
       KillWorker, WriteRunning, WriteRefused, Miss, RegisterOwed, Settle, Publish, Respawn, envVars
  <2> QED
    BY <1>2, <2>1
<1>9. ASSUME NEW th \in Threads, CustodyFault(th) PROVE Counting
  BY <1>3, <1>4, <1>9 DEF CustodyFault, WritePendingFails, WorkerSurvives, WriteRunningFails,
     MissFails, OwedFails, RespawnFails
<1>10. ASSUME NEW th \in Threads, CascadeStep(th) PROVE Counting
  <2>1. CASE CascadeBegin(th) \/ CascadeSweep(th) \/ CascadePost(th) \/ CascadeClose(th)
             \/ \E t \in Tasks : CascadeTake(th, t)
    <3>1. used' = used
      BY <2>1 DEF CascadeBegin, CascadeSweep, CascadePost, CascadeClose, CascadeTake, envVars
    <3> QED
      BY <1>2, <3>1
  <2>2. CASE CascadeSummary(th)
    BY <1>2, <1>3, <2>2 DEF CascadeSummary, envVars
  <2>3. ASSUME NEW t \in Tasks, CascadeMint(th, t) PROVE Counting
    BY <1>5, <2>3 DEF CascadeMint
  <2> QED
    BY <1>10, <2>1, <2>2, <2>3 DEF CascadeStep
<1>11. CASE \/ \E t \in Tasks : Watchdog(t) \/ Timeout(t) \/ DropPendingFails(t)
            \/ \E w \in Slots : WorkerDies(w)
            \/ Crash \/ ReaperFault
  BY <1>3, <1>4, <1>11 DEF Watchdog, Timeout, DropPendingFails, WorkerDies, Crash, ReaperFault,
     ReapWedged, ReapWriteFails, ReapRetryFails, ReapRespawnFails
<1>12. CASE \/ \E t \in Tasks : RequestByWorker(t)
            \/ \E c \in Clients, t \in Tasks : RequestSingle(c, t) \/ RequestCascade(c, t)
  BY <1>5, <1>12 DEF RequestByWorker, RequestSingle, RequestCascade
<1> QED
  BY <1>6, <1>7, <1>8, <1>9, <1>10, <1>11, <1>12 DEF Tasks_Next, Environment, Fault

LEMMA FreeGoesOn ==
    ASSUME TaskTypes, SlotInv, NEW th \in Threads, custody[th].slot = NoSlot,
           UNCHANGED <<running, slots, jobs, reaper>>, used'.faults > 0 \/ ~(used.faults > 0),
           \/ custody' = [custody EXCEPT ![th] = NoCustody]
           \/ \E at : Goto(th, at)
           \/ \E t, deliver : Take(th, t, deliver)
    PROVE  OwnersKept
<1>1. NoCustody.slot = NoSlot
      /\ \A t, deliver : [NoCustody EXCEPT !.pc = "claim", !.task = t, !.deliver = deliver].slot = NoSlot
  BY DEF NoCustody
<1>2. \A at : [custody[th] EXCEPT !.pc = at].slot = NoSlot
  BY DEF TaskTypes, ThreadTypes, CustodyType
<1>3. \E d : d.slot = NoSlot /\ custody' = [custody EXCEPT ![th] = d]
  <2>1. CASE custody' = [custody EXCEPT ![th] = NoCustody]
    BY <1>1, <2>1
  <2>2. ASSUME NEW at, Goto(th, at) PROVE \E d : d.slot = NoSlot /\ custody' = [custody EXCEPT ![th] = d]
    <3>1. custody' = [custody EXCEPT ![th] = [custody[th] EXCEPT !.pc = at]]
      BY <2>2 DEF Goto, TaskTypes, ThreadTypes
    <3> QED
      BY <1>2, <3>1
  <2>3. ASSUME NEW t, NEW deliver, Take(th, t, deliver)
        PROVE  \E d : d.slot = NoSlot /\ custody' = [custody EXCEPT ![th] = d]
    BY <1>1, <2>3 DEF Take
  <2> QED
    BY <2>1, <2>2, <2>3
<1> QED
  BY <1>3, ThreadGoesOn

LEMMA OwnerGoesOn ==
    ASSUME TaskTypes, SlotInv, NEW th \in Threads, custody[th].pc \notin {"kill", "respawn"},
           UNCHANGED <<running, slots, jobs, reaper>>, used'.faults > 0 \/ ~(used.faults > 0),
           NEW at \in Holding \ {"kill", "respawn"}, Goto(th, at)
    PROVE  OwnersKept
<1> DEFINE c == custody[th]
           d == [c EXCEPT !.pc = at]
<1>1. c \in CustodyType /\ custody' = [custody EXCEPT ![th] = d]
  BY DEF Goto, TaskTypes, ThreadTypes
<1>2. Forward(c, d)
  BY <1>1 DEF Forward, CustodyType
<1> HIDE DEF d
<1> QED
  BY <1>1, <1>2, ThreadGoesOn

\* A step that touches neither slots nor owners.
LEMMA OwnersRest ==
    ASSUME TaskTypes, SlotInv, UNCHANGED <<running, slots, jobs, reaper, custody>>,
           used'.faults > 0 \/ ~(used.faults > 0)
    PROVE  OwnersKept
BY SlotKept DEF OwnersKept, SlotInv, Same, ReaperAt, Forward

\* The calls of a custody that touch no slot.
LEMMA CustodyCalls ==
    ASSUME TaskTypes, SlotInv, NEW th \in Threads, used'.faults > 0 \/ ~(used.faults > 0),
           \/ Claim(th) \/ CapturePending(th) \/ CaptureNothing(th) \/ WritePending(th)
           \/ WritePendingFails(th) \/ WriteRunning(th) \/ Miss(th) \/ MissFails(th)
           \/ RegisterOwed(th) \/ OwedFails(th) \/ Settle(th)
    PROVE  OwnersKept
<1> DEFINE c == custody[th]
<1>1. c \in CustodyType /\ custody \in [Threads -> CustodyType]
  BY DEF TaskTypes, ThreadTypes
<1>2. UNCHANGED <<running, slots, jobs, reaper>>
  BY DEF Claim, CapturePending, CaptureNothing, WritePending, WritePendingFails, WriteRunning, Miss,
     MissFails, RegisterOwed, OwedFails, Settle, queueVars, reapVars
<1>3. CASE Claim(th)
  <2>0. c.pc \notin Holding
    BY <1>3 DEF Claim, Active, Holding
  <2>1. c.slot = NoSlot
    BY <2>0, NoGrip
  <2>2. CASE Goto(th, "capture") \/ Ended(th, FALSE)
    BY <1>2, <2>1, <2>2, FreeGoesOn DEF Ended
  <2>3. ASSUME NEW q, NEW b,
               custody' = [custody EXCEPT ![th].pc = "capture", ![th].claim = q, ![th].took = b]
        PROVE  OwnersKept
    <3> DEFINE d == [c EXCEPT !.pc = "capture", !.claim = q, !.took = b]
    <3>1. custody' = [custody EXCEPT ![th] = d]
      BY <1>1, <2>3
    <3>2. d.slot = c.slot
      BY <1>1 DEF CustodyType
    <3> HIDE DEF d
    <3> QED
      BY <1>2, <2>1, <3>1, <3>2, ThreadGoesOn
  <2> QED
    BY <1>3, <2>2, <2>3 DEF Claim
<1>4. CASE CapturePending(th) \/ CaptureNothing(th)
  <2>0. c.pc \notin Holding
    BY <1>4 DEF CapturePending, CaptureNothing, Active, Holding
  <2>1. c.slot = NoSlot
    BY <2>0, NoGrip
  <2>2. \E at : Goto(th, at)
    BY <1>4 DEF CapturePending, CaptureNothing
  <2> QED
    BY <1>2, <2>1, <2>2, FreeGoesOn
<1>5. CASE WritePending(th)
  <2>0. c.pc \notin Holding
    BY <1>5 DEF WritePending, Active, Holding
  <2>1. c.slot = NoSlot
    BY <2>0, NoGrip
  <2>2. PICK n : custody' = [custody EXCEPT ![th].pc = "settle", ![th].then = n]
    BY <1>5 DEF WritePending
  <2> DEFINE d == [c EXCEPT !.pc = "settle", !.then = n]
  <2>3. custody' = [custody EXCEPT ![th] = d]
    BY <1>1, <2>2
  <2>4. d.slot = c.slot
    BY <1>1 DEF CustodyType
  <2> HIDE DEF d
  <2> QED
    BY <1>2, <2>1, <2>3, <2>4, ThreadGoesOn
<1>6. CASE WritePendingFails(th) \/ MissFails(th)
  <2>0. c.pc \notin Holding
    BY <1>6 DEF WritePendingFails, MissFails, Active, Holding
  <2>1. c.slot = NoSlot
    BY <2>0, NoGrip
  <2>2. custody' = [custody EXCEPT ![th] = NoCustody]
    BY <1>6 DEF WritePendingFails, MissFails, GivenUp, Ended
  <2> QED
    BY <1>2, <2>1, <2>2, FreeGoesOn
<1>7. CASE Miss(th)
  <2>0. c.pc \notin Holding
    BY <1>7 DEF Miss, Active, Holding
  <2>1. c.slot = NoSlot
    BY <2>0, NoGrip
  <2>2. CASE custody' = [custody EXCEPT ![th] = NoCustody] \/ \E at : Goto(th, at)
    BY <1>2, <2>1, <2>2, FreeGoesOn
  <2>3. ASSUME NEW n, custody' = [custody EXCEPT ![th].pc = "owed", ![th].deliver = TRUE, ![th].then = n]
        PROVE  OwnersKept
    <3> DEFINE d == [c EXCEPT !.pc = "owed", !.deliver = TRUE, !.then = n]
    <3>1. custody' = [custody EXCEPT ![th] = d]
      BY <1>1, <2>3
    <3>2. d.slot = c.slot
      BY <1>1 DEF CustodyType
    <3> HIDE DEF d
    <3> QED
      BY <1>2, <2>1, <3>1, <3>2, ThreadGoesOn
  <2> QED
    BY <1>7, <2>2, <2>3 DEF Miss, Ended
<1>8. CASE WriteRunning(th) \/ RegisterOwed(th)
  <2>1. c.pc \notin {"kill", "respawn"} /\ \E at \in {"owed", "settle"} : Goto(th, at)
    BY <1>8 DEF WriteRunning, RegisterOwed, Active
  <2>2. {"owed", "settle"} \subseteq Holding \ {"kill", "respawn"}
    BY DEF Holding
  <2> QED
    BY <1>2, <2>1, <2>2, OwnerGoesOn
<1>9. CASE OwedFails(th) \/ Settle(th)
  <2>1. c.pc \notin {"kill", "respawn"} /\ c.then \in Thens
    BY <1>1, <1>9 DEF OwedFails, Settle, Active, CustodyType
  <2>2. CASE c.then = "publish"
    <3>1. Goto(th, "publish") /\ "publish" \in Holding \ {"kill", "respawn"}
      BY <1>9, <2>2 DEF OwedFails, Settle, Holding
    <3> QED
      BY <1>2, <2>1, <3>1, OwnerGoesOn
  <2>3. CASE c.then # "publish"
    <3>1. c.slot = NoSlot
      BY <2>1, <2>3, NoGrip
    <3>2. CASE c.then = "emit"
      <4>1. custody' = [custody EXCEPT ![th] = NoCustody]
        BY <1>9, <3>2 DEF OwedFails, Settle, Ended
      <4> QED
        BY <1>2, <3>1, <4>1, FreeGoesOn
    <3>3. CASE c.then = "end"
      <4>1. custody' = [custody EXCEPT ![th] = NoCustody]
        BY <1>9, <3>3 DEF OwedFails, Settle, Ended
      <4> QED
        BY <1>2, <3>1, <4>1, FreeGoesOn
    <3> QED
      BY <2>1, <2>3, <3>2, <3>3 DEF Thens
  <2> QED
    BY <2>2, <2>3
<1> QED
  BY <1>3, <1>4, <1>5, <1>6, <1>7, <1>8, <1>9

\* A slot that nobody owns after the step.
LEMMA SlotFree ==
    ASSUME NEW w \in Slots, ~slots'[w].reaping, ~ReaperAt(w)', ~JobAt(w)',
           \A th \in Threads : custody'[th].slot # w,
           \A t \in Tasks : running'[t] = w => slots'[w].busy = t
    PROVE  SlotOK(w)'
BY DEF SlotOK, JobAt

\* A slot that a thread owns after the step.
LEMMA SlotHeld ==
    ASSUME NEW w \in Slots, NEW th \in Threads, custody'[th].slot = w,
           Grips(custody'[th], slots'[w]), ~ReaperAt(w)', ~JobAt(w)',
           \A x \in Threads \ {th} : custody'[x].slot # w,
           \A t \in Tasks : running'[t] = w =>
               slots'[w].busy = t /\ t = custody'[th].task /\ custody'[th].pc # "respawn"
    PROVE  SlotOK(w)'
BY DEF SlotOK, JobAt

\* An unmarked slot has no owner, and a slot has at most the one.
LEMMA Unowned ==
    ASSUME SlotInv, NEW w \in Slots, w \notin used.struck, ~slots[w].reaping
    PROVE  ~ReaperAt(w) /\ ~JobAt(w) /\ \A th \in Threads : custody[th].slot # w
BY DEF SlotInv, SlotOK, Grips, Rightly, Reaps, JobAt

LEMMA OwnedByThread ==
    ASSUME SlotInv, NEW th \in Threads, NEW w \in Slots, w \notin used.struck,
           custody[th].slot = w
    PROVE  /\ ~ReaperAt(w) /\ ~JobAt(w) /\ \A x \in Threads \ {th} : custody[x].slot # w
           /\ Grips(custody[th], slots[w])
           /\ \A t \in Tasks : running[t] = w =>
                 slots[w].busy = t /\ t = custody[th].task /\ custody[th].pc # "respawn"
BY DEF SlotInv, SlotOK

LEMMA OwnedByReaper ==
    ASSUME TaskTypes, SlotInv, NEW w \in Slots, w \notin used.struck, ReaperAt(w) \/ JobAt(w)
    PROVE  /\ \A th \in Threads : custody[th].slot # w
           /\ ReaperAt(w) => Reaps(reaper, slots[w]) /\ ~JobAt(w)
           /\ slots[w].reaping /\ slots[w].busy = NoTask /\ \A t \in Tasks : running[t] # w
<1>1. \A th \in Threads : custody[th].slot # w
  BY DEF SlotInv, SlotOK
<1>2. slots[w].reaping
  BY DEF SlotInv, SlotOK, Reaps, JobAt
<1> QED
  BY <1>1, <1>2 DEF SlotInv, SlotOK

\* The workers, and the events of the loop, as far as slots are concerned.
LEMMA WorkerOwners ==
    ASSUME TaskTypes, SlotInv, NEW v \in Slots, WorkerStep(v) \/ WorkerDies(v)
    PROVE  OwnersKept
<1>1. used'.faults > 0 \/ ~(used.faults > 0)
  <2>1. used' = used \/ Counted("deaths")
    BY DEF WorkerStep, StartTask, FinishTask, EmitDone, WorkerDies, envVars
  <2> QED
    BY <2>1 DEF Counted, TaskTypes, IntentTypes, UsedType
<1>2. UNCHANGED <<running, jobs, reaper, custody>>
  BY DEF WorkerStep, StartTask, FinishTask, EmitDone, WorkerDies, queueVars, reapVars, threadVars
<1>3. slots \in [Slots -> SlotType]
  BY DEF TaskTypes, SlotTypes
<1>4. \A w \in Slots : Same(slots[w], slots'[w])
  <2>1. slots[v] \in SlotType
    BY <1>3
  <2>2. CASE StartTask(v)
    <3>1. slots' = [slots EXCEPT ![v] = [slots[v] EXCEPT !.proc = "working",
                        !.job = Head(slots[v].inq), !.inq = Tail(slots[v].inq)]]
          /\ slots[v].proc = "idle"
      BY <1>3, <2>2 DEF StartTask
    <3> QED
      BY <1>3, <2>1, <3>1 DEF Same, SlotType
  <2>3. CASE FinishTask(v)
    <3>1. slots' = [slots EXCEPT ![v] = [slots[v] EXCEPT !.proc = "finishing"]]
          /\ slots[v].proc = "working"
      BY <1>3, <2>3 DEF FinishTask
    <3> QED
      BY <1>3, <2>1, <3>1 DEF Same, SlotType
  <2>4. CASE EmitDone(v)
    <3>1. slots' = [slots EXCEPT ![v] = [slots[v] EXCEPT !.proc = "idle", !.job = NoTask]]
          /\ slots[v].proc = "finishing"
      BY <1>3, <2>4 DEF EmitDone
    <3> QED
      BY <1>3, <2>1, <3>1 DEF Same, SlotType
  <2>5. CASE WorkerDies(v)
    <3>1. slots' = [slots EXCEPT ![v] = [slots[v] EXCEPT !.proc = "dead"]]
      BY <1>3, <2>5 DEF WorkerDies
    <3> QED
      BY <1>3, <2>1, <3>1 DEF Same, SlotType
  <2> QED
    BY <2>2, <2>3, <2>4, <2>5 DEF WorkerStep
<1> QED
  BY <1>1, <1>2, <1>4, SlotKept DEF OwnersKept, SlotInv, ReaperAt, Forward

LEMMA LoopOwners ==
    ASSUME TaskTypes, SlotInv, used'.faults > 0 \/ ~(used.faults > 0),
           \/ HandleSchedule \/ HandleDone
           \/ \E t \in Tasks : DropPending(t) \/ DropPendingFails(t) \/ \E w \in Slots : Assign(w, t)
    PROVE  OwnersKept
<1>1. CASE HandleSchedule \/ \E t \in Tasks : DropPending(t) \/ DropPendingFails(t)
  <2>1. UNCHANGED <<running, slots, jobs, reaper, custody>>
    BY <1>1 DEF HandleSchedule, DropPending, DropPendingFails, reapVars, threadVars
  <2> QED
    BY <2>1, OwnersRest
<1>2. CASE HandleDone
  <2> DEFINE e == Head(events)
             t == e.task
  <2>1. UNCHANGED <<jobs, reaper, custody>>
    BY <1>2 DEF HandleDone, reapVars, threadVars
  <2>2. CASE UNCHANGED <<running, slots>>
    BY <2>1, <2>2, OwnersRest
  <2>3. CASE /\ running' = [running EXCEPT ![t] = NoSlot]
             /\ slots' = [w \in Slots |->
                            IF w = e.slot /\ slots[w].busy = t /\ ~slots[w].reaping
                            THEN [slots[w] EXCEPT !.busy = NoTask] ELSE slots[w]]
    <3> SUFFICES ASSUME NEW w \in Slots, w \notin used.struck PROVE SlotOK(w)'
      BY DEF OwnersKept
    <3>1. slots[w] \in SlotType /\ running \in [Tasks -> Slots \cup {NoSlot}] /\ SlotOK(w)
      BY DEF TaskTypes, SlotTypes, QueueTypes, SlotInv
    <3>2. \A x \in Tasks : running'[x] = w => running[x] = w /\ x # t
      BY <2>3, <3>1
    <3>3. (ReaperAt(w)' <=> ReaperAt(w)) /\ (JobAt(w)' <=> JobAt(w))
      BY <2>1 DEF ReaperAt, JobAt
    <3>4. CASE slots[w].busy = t /\ ~slots[w].reaping /\ w = e.slot
      <4>1. slots'[w] = [slots[w] EXCEPT !.busy = NoTask]
        BY <2>3, <3>4
      <4>2. ~slots'[w].reaping
        BY <3>1, <3>4, <4>1 DEF SlotType
      <4>3. \A x \in Tasks : running'[x] # w
        BY <3>1, <3>2, <3>4 DEF SlotOK
      <4> QED
        BY <2>1, <3>3, <3>4, <4>2, <4>3, SlotFree, Unowned
    <3>5. CASE ~(slots[w].busy = t /\ ~slots[w].reaping /\ w = e.slot)
      <4>1. slots'[w] = slots[w]
        BY <2>3, <3>5
      <4> QED
        BY <2>1, <3>1, <3>2, <3>3, <4>1, SlotKept DEF Same, Forward
    <3> QED
      BY <3>4, <3>5
  <2> QED
    BY <1>2, <2>2, <2>3 DEF HandleDone
<1>3. ASSUME NEW t \in Tasks, NEW v \in Slots, Assign(v, t) PROVE OwnersKept
  <2>1. /\ UNCHANGED <<jobs, reaper, custody>> /\ slots[v].busy = NoTask /\ ~slots[v].reaping
        /\ running' = [running EXCEPT ![t] = v]
        /\ slots' = [slots EXCEPT ![v].busy = t, ![v].inq = Append(@, t)]
    BY <1>3 DEF Assign, reapVars, threadVars
  <2>2. slots \in [Slots -> SlotType] /\ running \in [Tasks -> Slots \cup {NoSlot}]
    BY DEF TaskTypes, SlotTypes, QueueTypes
  <2> SUFFICES ASSUME NEW w \in Slots, w \notin used.struck PROVE SlotOK(w)'
    BY DEF OwnersKept
  <2>3. (ReaperAt(w)' <=> ReaperAt(w)) /\ (JobAt(w)' <=> JobAt(w)) /\ SlotOK(w)
    BY <2>1 DEF ReaperAt, JobAt, SlotInv
  <2>4. CASE w = v
    <3>1. slots'[w].busy = t /\ ~slots'[w].reaping
      BY <2>1, <2>2, <2>4 DEF SlotType
    <3>2. \A x \in Tasks : running'[x] = w => x = t
      BY <2>1, <2>2, <2>3, <2>4 DEF SlotOK
    <3> QED
      BY <2>1, <2>3, <2>4, <3>1, <3>2, SlotFree, Unowned
  <2>5. CASE w # v
    <3>1. slots'[w] = slots[w] /\ \A x \in Tasks : running'[x] = w => running[x] = w
      BY <2>1, <2>2, <2>5
    <3> QED
      BY <2>1, <2>3, <3>1, SlotKept DEF Same, Forward
  <2> QED
    BY <2>4, <2>5
<1> QED
  BY <1>1, <1>2, <1>3

\* The crash detector takes a slot whose process is dead.
LEMMA DetectOwners ==
    ASSUME TaskTypes, SlotInv, used'.faults > 0 \/ ~(used.faults > 0),
           NEW v \in Slots, DetectCrash(v)
    PROVE  OwnersKept
<1> DEFINE t == slots[v].busy
           d == [NoCustody EXCEPT !.pc = "respawn", !.slot = v]
<1>1. /\ UNCHANGED <<jobs, reaper>> /\ ~slots[v].reaping /\ slots[v].proc = "dead"
      /\ custody[Main].pc = "idle" /\ slots' = [slots EXCEPT ![v].reaping = TRUE]
      /\ custody' = [custody EXCEPT ![Main] = d]
      /\ \/ running' = running /\ (t = NoTask \/ running[t] = NoSlot)
         \/ running' = [running EXCEPT ![t] = NoSlot]
  BY DEF DetectCrash, LoopFree, ThreadFree, Alive, reapVars
<1>2. slots \in [Slots -> SlotType] /\ running \in [Tasks -> Slots \cup {NoSlot}]
      /\ custody \in [Threads -> CustodyType] /\ Main \in Threads
  BY DEF TaskTypes, SlotTypes, QueueTypes, ThreadTypes, Threads
<1>3. d.pc = "respawn" /\ d.slot = v
  BY DEF NoCustody
<1> HIDE DEF d
<1>4. custody[Main].slot = NoSlot
  BY <1>1, <1>2, NoGrip DEF Holding
<1>5. custody'[Main] = d /\ \A x \in Threads \ {Main} : custody'[x] = custody[x]
  BY <1>1, <1>2
<1> SUFFICES ASSUME NEW w \in Slots, w \notin used.struck PROVE SlotOK(w)'
  BY DEF OwnersKept
<1>6. (ReaperAt(w)' <=> ReaperAt(w)) /\ (JobAt(w)' <=> JobAt(w)) /\ SlotOK(w)
  BY <1>1 DEF ReaperAt, JobAt, SlotInv
<1>7. \A x \in Tasks : running'[x] = w => running[x] = w
  BY <1>1, <1>2
<1>8. CASE w = v
  <2>1. slots'[w].reaping /\ slots'[w].proc = "dead"
    BY <1>1, <1>2, <1>8 DEF SlotType
  <2>2. Grips(custody'[Main], slots'[w])
    BY <1>3, <1>5, <2>1 DEF Grips, Rightly, Holding
  <2>3. \A x \in Tasks : running'[x] # w
    <3> SUFFICES ASSUME NEW x \in Tasks, running'[x] = w PROVE FALSE
      OBVIOUS
    <3>1. running[x] = w /\ x = t
      BY <1>6, <1>7, <1>8 DEF SlotOK
    <3> QED
      BY <1>1, <1>2, <3>1
  <2> QED
    <3>1. ~ReaperAt(w) /\ ~JobAt(w) /\ \A x \in Threads : custody[x].slot # w
      BY <1>1, <1>8, Unowned
    <3>2. custody'[Main].slot = w /\ \A x \in Threads \ {Main} : custody'[x].slot # w
      BY <1>3, <1>5, <1>8, <3>1
    <3> QED
      BY <1>2, <1>6, <2>2, <2>3, <3>1, <3>2, SlotHeld
<1>9. CASE w # v
  <2>1. slots'[w] = slots[w]
    BY <1>1, <1>2, <1>9
  <2>2. \A x \in Threads : custody'[x].slot = w <=> custody[x].slot = w
    BY <1>3, <1>4, <1>5, <1>9
  <2>3. \A x \in Threads : custody[x].slot = w => Forward(custody[x], custody'[x])
    BY <1>4, <1>5 DEF Forward
  <2> QED
    BY <1>1, <1>6, <1>7, <2>1, <2>2, <2>3, SlotKept DEF Same
<1> QED
  BY <1>8, <1>9

\* The timeout check takes a slot, and one that was marked is struck.
LEMMA TimeoutOwners ==
    ASSUME TaskTypes, SlotInv, Counting, NEW t \in Tasks, Timeout(t)
    PROVE  \A w \in Slots : w \notin used'.struck => SlotOK(w)'
<1> DEFINE v == running[t]
<1>1. PICK r : LET j == [NoJob EXCEPT !.pc = "kill", !.task = t, !.slot = v, !.inc = slots[v].inc,
                           !.retry = r]
               IN  jobs' = Append(jobs, j)
  BY DEF Timeout
<1> DEFINE j == [NoJob EXCEPT !.pc = "kill", !.task = t, !.slot = v, !.inc = slots[v].inc,
                           !.retry = r]
<1>2. j.pc = "kill" /\ j.slot = v /\ j.inc = slots[v].inc
  BY DEF NoJob
<1>3. jobs' = Append(jobs, j)
  BY <1>1
<1> HIDE DEF j
<1>4. jobs \in Seq(Waiting)
  BY DEF TaskTypes, ReapTypes
<1>5. /\ DOMAIN jobs = 1..Len(jobs) /\ Len(jobs) \in Nat
      /\ DOMAIN jobs' = 1..Len(jobs) + 1 /\ jobs'[Len(jobs) + 1] = j
      /\ \A i \in DOMAIN jobs : jobs'[i] = jobs[i]
  BY <1>3, <1>4
<1>6. /\ UNCHANGED <<reaper, custody>> /\ v # NoSlot
      /\ running' = [running EXCEPT ![t] = NoSlot]
      /\ slots' = [slots EXCEPT ![v].reaping = TRUE, ![v].busy = IF @ = t THEN NoTask ELSE @]
  BY DEF Timeout, threadVars
<1>7. slots \in [Slots -> SlotType] /\ running \in [Tasks -> Slots \cup {NoSlot}]
  BY DEF TaskTypes, SlotTypes, QueueTypes
<1>8. v \in Slots
  BY <1>6, <1>7
<1> SUFFICES ASSUME NEW w \in Slots, w \notin used'.struck PROVE SlotOK(w)'
  OBVIOUS
<1>0. w \notin used.struck /\ (used'.faults > 0 \/ ~(used.faults > 0))
  BY DEF Counting
<1>9. (ReaperAt(w)' <=> ReaperAt(w)) /\ SlotOK(w)
  BY <1>0, <1>6 DEF ReaperAt, SlotInv
<1>10. \A x \in Tasks : running'[x] = w => running[x] = w /\ x # t
  BY <1>6, <1>7
<1>11. CASE w = v
  <2>0. ~slots[w].reaping /\ slots[w].busy = t
    <3>1. ASSUME slots[v].reaping PROVE FALSE
      <4>1. used \in UsedType /\ used' = [used EXCEPT !.timeouts = @ + 1, !.struck = @ \cup {v}]
        BY <3>1 DEF Timeout, CountedWith, TaskTypes, IntentTypes
      <4>2. v \in used'.struck
        BY <4>1 DEF UsedType
      <4> QED
        BY <1>11, <4>2
    <3> QED
      BY <1>9, <1>11, <3>1 DEF SlotOK
  <2>1. ~ReaperAt(w) /\ ~JobAt(w) /\ \A th \in Threads : custody[th].slot # w
    BY <1>0, <2>0, Unowned
  <2>2. slots'[w].reaping /\ slots'[w].busy = NoTask /\ slots'[w].inc = slots[w].inc
    BY <1>6, <1>7, <1>8, <1>11, <2>0 DEF SlotType
  <2>3. \A x \in Tasks : running'[x] # w
    BY <1>9, <1>10, <2>0 DEF SlotOK
  <2>4. \A i \in DOMAIN jobs' : jobs'[i].slot = w => i = Len(jobs) + 1
    BY <1>5, <2>1 DEF JobAt
  <2>5. Reaps(j, slots'[w]) /\ j.slot = w
    BY <1>2, <1>11, <2>2 DEF Reaps
  <2>6. Len(jobs) + 1 \in DOMAIN jobs'
    BY <1>5
  <2>7. JobAt(w)'
    BY <1>5, <2>5, <2>6 DEF JobAt
  <2> QED
    BY <1>5, <1>6, <1>9, <2>1, <2>2, <2>3, <2>4, <2>5, <2>7 DEF SlotOK
<1>12. CASE w # v
  <2>1. slots'[w] = slots[w]
    BY <1>6, <1>7, <1>12
  <2>2. \A i \in DOMAIN jobs' : jobs'[i].slot = w => i \in DOMAIN jobs /\ jobs'[i] = jobs[i]
    BY <1>2, <1>5, <1>12
  <2>3. DOMAIN jobs \subseteq DOMAIN jobs'
    BY <1>5
  <2>4. JobAt(w)' <=> JobAt(w)
    BY <1>5, <2>2, <2>3 DEF JobAt
  <2> QED
    BY <1>0, <1>6, <1>9, <1>10, <2>1, <2>2, <2>4 DEF SlotOK
<1> QED
  BY <1>11, <1>12

\* A waiting job becomes the reaper's.
LEMMA TakeOwners ==
    ASSUME TaskTypes, SlotInv, ReapTake PROVE OwnersKept
<1>1. /\ UNCHANGED <<slots, running, custody, used>> /\ reaper.pc = "idle" /\ jobs # <<>>
      /\ reaper' = Head(jobs) /\ jobs' = Tail(jobs) /\ jobs \in Seq(Waiting)
  BY DEF ReapTake, queueVars, threadVars, envVars, TaskTypes, ReapTypes
<1>2. Head(jobs) = jobs[1] /\ 1 \in DOMAIN jobs /\ jobs[1].pc = "kill"
  BY <1>1 DEF Waiting
<1>3. /\ \A i \in DOMAIN jobs' : i + 1 \in DOMAIN jobs /\ jobs'[i] = jobs[i + 1] /\ i + 1 # 1
                                 /\ i \in Nat
      /\ \A k \in DOMAIN jobs : k # 1 => k - 1 \in DOMAIN jobs' /\ jobs'[k - 1] = jobs[k]
  BY <1>1
<1> SUFFICES ASSUME NEW w \in Slots, w \notin used.struck PROVE SlotOK(w)'
  BY DEF OwnersKept
<1>4. SlotOK(w) /\ ~ReaperAt(w)
  BY <1>1 DEF SlotInv, ReaperAt
<1>5. ReaperAt(w)' <=> jobs[1].slot = w
  BY <1>1, <1>2 DEF ReaperAt
<1>6. ReaperAt(w)' \/ JobAt(w)' <=> JobAt(w)
  BY <1>2, <1>3, <1>5 DEF JobAt
<1>7. ReaperAt(w)' => Reaps(reaper', slots[w]) /\ ~JobAt(w)'
  BY <1>1, <1>2, <1>3, <1>4, <1>5 DEF SlotOK, JobAt
<1>8. \A i \in DOMAIN jobs' : jobs'[i].slot = w =>
         Reaps(jobs'[i], slots[w]) /\ \A k \in DOMAIN jobs' : jobs'[k].slot = w => k = i
  BY <1>3, <1>4 DEF SlotOK
<1> QED
  BY <1>1, <1>4, <1>6, <1>7, <1>8 DEF SlotOK

\* The reaper carries its job through, and gives the slot back.
LEMMA ReaperOwners ==
    ASSUME TaskTypes, SlotInv, used'.faults > 0 \/ ~(used.faults > 0),
           ReaperStep \/ ReaperFault
    PROVE  OwnersKept
<1> DEFINE v == reaper.slot
<1>1. slots \in [Slots -> SlotType] /\ reaper \in JobType
      /\ (reaper.pc # "idle" => v \in Slots /\ ReaperAt(v))
  BY DEF TaskTypes, SlotTypes, ReapTypes, Job, ReaperAt
<1>2. CASE ReapTake
  BY <1>2, TakeOwners
<1>3. CASE ReapKill
  <2>1. /\ UNCHANGED <<running, jobs, custody>> /\ reaper.pc = "kill"
        /\ slots' = Killed(v, reaper.inc) /\ reaper' = [reaper EXCEPT !.pc = "check"]
    BY <1>3 DEF ReapKill, queueVars, threadVars
  <2>2. reaper'.pc = "check" /\ reaper'.slot = v /\ reaper'.inc = reaper.inc
    BY <1>1, <2>1 DEF JobType
  <2>3. v \in Slots /\ ReaperAt(v) /\ slots' \in {slots, [slots EXCEPT ![v].proc = "dead"]}
    BY <1>1, <2>1 DEF Killed
  <2> SUFFICES ASSUME NEW w \in Slots, w \notin used.struck PROVE SlotOK(w)'
    BY DEF OwnersKept
  <2>5. SlotOK(w) /\ (ReaperAt(w)' <=> ReaperAt(w)) /\ (JobAt(w)' <=> JobAt(w))
    BY <2>1, <2>2 DEF SlotInv, ReaperAt, JobAt
  <2>6. CASE w = v
    <3>2. ReaperAt(w)
      BY <2>3, <2>6
    <3>4. /\ \A th \in Threads : custody[th].slot # w
          /\ Reaps(reaper, slots[w]) /\ ~JobAt(w) /\ slots[w].reaping /\ slots[w].busy = NoTask
          /\ \A t \in Tasks : running[t] # w
      BY <3>2, OwnedByReaper
    <3>5. slots' = [slots EXCEPT ![w].proc = "dead"]
      BY <2>1, <2>6, <3>4 DEF Killed, Reaps
    <3>1. Reaps(reaper', slots'[w]) /\ slots'[w].busy = NoTask
      BY <1>1, <2>2, <3>4, <3>5 DEF Reaps, SlotType
    <3>3. \A i \in DOMAIN jobs : jobs[i].slot # w
      BY <3>4 DEF JobAt
    <3> QED
      BY <2>1, <2>5, <3>1, <3>2, <3>3, <3>4 DEF SlotOK
  <2>7. CASE w # v
    <3>1. slots'[w] = slots[w] /\ ~ReaperAt(w)
      BY <1>1, <2>3, <2>7 DEF ReaperAt
    <3> QED
      BY <2>1, <2>5, <3>1, SlotKept DEF Same, Forward
  <2> QED
    BY <2>6, <2>7
<1>4. CASE ReapCheck \/ ReapWrite \/ ReapRetry \/ ReapWriteFails \/ ReapRetryFails
  <2>1. /\ UNCHANGED <<running, slots, jobs, custody>>
        /\ reaper.pc \in {"check", "write", "retry"}
        /\ \/ \E pc \in {"write", "retry", "respawn"} : reaper' = [reaper EXCEPT !.pc = pc]
           \/ reaper' = [reaper EXCEPT !.pc = "respawn", !.retry = FALSE]
    BY <1>4 DEF ReapCheck, ReapWrite, ReapRetry, ReapWriteFails, ReapRetryFails, queueVars,
       threadVars
  <2>2. /\ reaper'.slot = v /\ reaper'.inc = reaper.inc
        /\ reaper'.pc \in {"write", "retry", "respawn"}
    BY <1>1, <2>1 DEF JobType
  <2> SUFFICES ASSUME NEW w \in Slots, w \notin used.struck PROVE SlotOK(w)'
    BY DEF OwnersKept
  <2>3. SlotOK(w) /\ (ReaperAt(w)' <=> ReaperAt(w))
    BY <2>1, <2>2 DEF SlotInv, ReaperAt
  <2> QED
    BY <2>1, <2>2, <2>3, SlotKept DEF Same, Forward
<1>5. CASE ReapWedged
  <2>1. /\ UNCHANGED <<running, slots, jobs, custody>> /\ reaper.pc = "kill"
        /\ reaper' = NoJob
        /\ used' = [used EXCEPT !.faults = @ + 1,
                                !.adrift = @ \cup {x \in {reaper.task} : v \in used.struck}]
    BY <1>5 DEF ReapWedged, CountedWith, queueVars, threadVars
  <2>2. NoJob.pc = "idle" /\ used'.faults > 0
    BY <2>1 DEF NoJob, TaskTypes, IntentTypes, UsedType
  <2> SUFFICES ASSUME NEW w \in Slots, w \notin used.struck PROVE SlotOK(w)'
    BY DEF OwnersKept
  <2>3. SlotOK(w) /\ ~ReaperAt(w)' /\ (JobAt(w)' <=> JobAt(w))
    BY <2>1, <2>2 DEF SlotInv, ReaperAt, JobAt
  <2> QED
    BY <2>1, <2>2, <2>3 DEF SlotOK
<1>6. CASE ReapRespawn \/ ReapRespawnFails
  <2>1. /\ UNCHANGED <<running, jobs, custody>> /\ reaper.pc = "respawn" /\ reaper' = NoJob
        /\ \/ slots' = [slots EXCEPT ![v] = Respawned(v)]
           \/ slots' = [slots EXCEPT ![v].reaping = FALSE]
    BY <1>6 DEF ReapRespawn, ReapRespawnFails, queueVars, threadVars
  <2>2. NoJob.pc = "idle" /\ Respawned(v).reaping = FALSE
    BY DEF NoJob, Respawned, FreshSlot
  <2> SUFFICES ASSUME NEW w \in Slots, w \notin used.struck PROVE SlotOK(w)'
    BY DEF OwnersKept
  <2>4. SlotOK(w) /\ ~ReaperAt(w)' /\ (JobAt(w)' <=> JobAt(w))
    BY <2>1, <2>2 DEF SlotInv, ReaperAt, JobAt
  <2>5. CASE w = v
    <3>1. ~slots'[w].reaping
      BY <1>1, <2>1, <2>2, <2>5 DEF SlotType
    <3>2. /\ \A th \in Threads : custody[th].slot # w
          /\ ~JobAt(w) /\ \A t \in Tasks : running[t] # w
      BY <1>1, <2>1, <2>5, OwnedByReaper
    <3> QED
      BY <2>1, <2>4, <3>1, <3>2, SlotFree
  <2>6. CASE w # v
    <3>1. slots'[w] = slots[w] /\ ~ReaperAt(w)
      BY <1>1, <2>1, <2>6 DEF ReaperAt
    <3> QED
      BY <2>1, <2>4, <3>1, SlotKept DEF Same, Forward
  <2> QED
    BY <2>5, <2>6
<1> QED
  BY <1>2, <1>3, <1>4, <1>5, <1>6 DEF ReaperStep, ReaperFault

\* A custody takes a slot: an unmarked one, or none if its claim was taken over.
LEMMA CaptureOwners ==
    ASSUME TaskTypes, SlotInv, used'.faults > 0 \/ ~(used.faults > 0),
           NEW th \in Threads, CaptureRunning(th)
    PROVE  OwnersKept
<1> DEFINE c == custody[th]
           t == c.task
<1>1. c \in CustodyType /\ custody \in [Threads -> CustodyType] /\ slots \in [Slots -> SlotType]
  BY DEF TaskTypes, ThreadTypes, SlotTypes
<1>2. c.pc = "capture" /\ c.slot = NoSlot
  <2>1. c.pc = "capture" /\ c.pc \notin Holding
    BY DEF CaptureRunning, Active, Holding
  <2> QED
    BY <2>1, NoGrip
<1>3. UNCHANGED <<running, jobs, reaper>>
  BY DEF CaptureRunning, reapVars
<1>4. PICK v \in Holders(t) :
         \/ custody' = [custody EXCEPT ![th] = NoCustody] /\ slots' = slots
         \/ /\ ~slots[v].reaping \/ c.took
            /\ slots' = [slots EXCEPT ![v].reaping = TRUE]
            /\ custody' = [custody EXCEPT ![th].pc = "kill", ![th].slot = v,
                              ![th].inc = slots[v].inc, ![th].settled = IsSettled(t),
                              ![th].then = "publish"]
  BY DEF CaptureRunning, GivenUp, Ended
<1>5. v \in Slots /\ slots[v].busy = t
  BY DEF Holders
<1>6. ~c.took
  BY <1>2, <1>5 DEF SlotInv, OldClaims, Idle
<1>7. CASE custody' = [custody EXCEPT ![th] = NoCustody] /\ slots' = slots
  BY <1>2, <1>3, <1>7, FreeGoesOn
<1>8. CASE /\ ~slots[v].reaping
           /\ slots' = [slots EXCEPT ![v].reaping = TRUE]
           /\ custody' = [custody EXCEPT ![th].pc = "kill", ![th].slot = v,
                             ![th].inc = slots[v].inc, ![th].settled = IsSettled(t),
                             ![th].then = "publish"]
  <2> DEFINE d == [c EXCEPT !.pc = "kill", !.slot = v, !.inc = slots[v].inc,
                            !.settled = IsSettled(t), !.then = "publish"]
  <2>1. custody' = [custody EXCEPT ![th] = d]
    BY <1>1, <1>8
  <2>2. d.pc = "kill" /\ d.slot = v /\ d.inc = slots[v].inc /\ d.then = "publish" /\ d.task = t
    BY <1>1 DEF CustodyType
  <2> HIDE DEF d
  <2>3. custody'[th] = d /\ \A x \in Threads \ {th} : custody'[x] = custody[x]
    BY <1>1, <2>1
  <2> SUFFICES ASSUME NEW w \in Slots, w \notin used.struck PROVE SlotOK(w)'
    BY DEF OwnersKept
  <2>4. SlotOK(w) /\ (ReaperAt(w)' <=> ReaperAt(w)) /\ (JobAt(w)' <=> JobAt(w))
    BY <1>3 DEF SlotInv, ReaperAt, JobAt
  <2>5. CASE w = v
    <3>1. ~ReaperAt(w) /\ ~JobAt(w) /\ \A x \in Threads : custody[x].slot # w
      BY <1>8, <2>5, Unowned
    <3>2. slots'[w].reaping /\ slots'[w].inc = slots[w].inc /\ slots'[w].busy = t
      BY <1>1, <1>5, <1>8, <2>5 DEF SlotType
    <3>3. Grips(custody'[th], slots'[w])
      BY <2>2, <2>3, <2>5, <3>2 DEF Grips, Rightly, Holding
    <3>4. \A x \in Tasks : running'[x] = w => x = t
      BY <1>3, <1>5, <2>4, <2>5 DEF SlotOK
    <3>5. custody'[th].slot = w /\ \A x \in Threads \ {th} : custody'[x].slot # w
      BY <2>2, <2>3, <2>5, <3>1
    <3> QED
      BY <2>2, <2>3, <2>4, <3>1, <3>2, <3>3, <3>4, <3>5, SlotHeld
  <2>6. CASE w # v
    <3>1. slots'[w] = slots[w]
      BY <1>1, <1>8, <2>6
    <3>2. \A x \in Threads : custody'[x].slot = w <=> custody[x].slot = w
      BY <1>2, <2>2, <2>3, <2>6
    <3>3. \A x \in Threads : custody[x].slot = w => Forward(custody[x], custody'[x])
      BY <1>2, <2>3 DEF Forward
    <3> QED
      BY <1>3, <2>4, <3>1, <3>2, <3>3, SlotKept DEF Same
  <2> QED
    BY <2>5, <2>6
<1> QED
  BY <1>4, <1>6, <1>7, <1>8

\* The types of slots, rows and custodies.
LEMMA OwnerTypes ==
    ASSUME TaskTypes
    PROVE  /\ custody \in [Threads -> CustodyType] /\ slots \in [Slots -> SlotType]
           /\ running \in [Tasks -> Slots \cup {NoSlot}]
BY DEF TaskTypes, ThreadTypes, SlotTypes, QueueTypes

\* The owner of a slot moves, and the other slots stay as they are.
LEMMA RestOfSlots ==
    ASSUME TaskTypes, SlotInv, used'.faults > 0 \/ ~(used.faults > 0),
           NEW th \in Threads, NEW v \in Slots, custody[th].slot = v,
           NEW d, custody' = [custody EXCEPT ![th] = d], d.slot \in {v, NoSlot},
           UNCHANGED <<jobs, reaper>>,
           \A t \in Tasks : \A w \in Slots : running'[t] = w => running[t] = w,
           \A w \in Slots \ {v} : slots'[w] = slots[w],
           v \notin used.struck => SlotOK(v)'
    PROVE  OwnersKept
<1>1. custody \in [Threads -> CustodyType]
  BY OwnerTypes
<1>2. custody'[th] = d /\ \A x \in Threads \ {th} : custody'[x] = custody[x]
  BY <1>1
<1> SUFFICES ASSUME NEW w \in Slots, w \notin used.struck PROVE SlotOK(w)'
  BY DEF OwnersKept
<1>3. SlotOK(w) /\ (ReaperAt(w)' <=> ReaperAt(w)) /\ NoSlot # w
  BY DEF SlotInv, ReaperAt
<1>4. CASE w # v
  <2>1. \A x \in Threads : custody'[x].slot = w <=> custody[x].slot = w
    BY <1>2, <1>3, <1>4
  <2>2. \A x \in Threads : custody[x].slot = w => Forward(custody[x], custody'[x])
    BY <1>2, <1>4 DEF Forward
  <2>3. slots'[w] = slots[w]
    BY <1>4
  <2> QED
    BY <1>3, <2>1, <2>2, <2>3, SlotKept DEF Same
<1> QED
  BY <1>4

\* The owner gives its slot back, unmarked.
LEMMA GivenBack ==
    ASSUME TaskTypes, SlotInv, used'.faults > 0 \/ ~(used.faults > 0),
           NEW th \in Threads, NEW v \in Slots, custody[th].slot = v,
           custody' = [custody EXCEPT ![th] = NoCustody],
           UNCHANGED <<running, jobs, reaper>>,
           \A w \in Slots \ {v} : slots'[w] = slots[w],
           v \notin used.struck =>
               /\ ~slots'[v].reaping
               /\ custody[th].pc # "respawn" => slots'[v].busy = slots[v].busy
    PROVE  OwnersKept
<1>1. custody \in [Threads -> CustodyType] /\ NoCustody.slot = NoSlot
  BY DEF TaskTypes, ThreadTypes, NoCustody
<1>2. custody'[th] = NoCustody /\ \A x \in Threads \ {th} : custody'[x] = custody[x]
  BY <1>1
<1>6. ASSUME v \notin used.struck PROVE SlotOK(v)'
  <2>1. /\ ~ReaperAt(v) /\ ~JobAt(v) /\ \A x \in Threads \ {th} : custody[x].slot # v
        /\ \A t \in Tasks : running[t] = v => slots[v].busy = t /\ custody[th].pc # "respawn"
    BY <1>6, OwnedByThread
  <2>2. ~ReaperAt(v)' /\ ~JobAt(v)' /\ \A x \in Threads : custody'[x].slot # v
    BY <1>1, <1>2, <2>1 DEF ReaperAt, JobAt
  <2>3. \A t \in Tasks : running'[t] = v => slots'[v].busy = t
    BY <1>6, <2>1
  <2> QED
    BY <1>6, <2>2, <2>3, SlotFree
<1>7. \A t \in Tasks : \A w \in Slots : running'[t] = w => running[t] = w
  OBVIOUS
<1>8. NoCustody.slot \in {v, NoSlot}
  BY <1>1
<1> QED
  BY <1>6, <1>7, <1>8, RestOfSlots

\* The custody that owns a slot kills its process, or fails to and lets go.
LEMMA KillOwners ==
    ASSUME TaskTypes, SlotInv, used'.faults > 0 \/ ~(used.faults > 0),
           NEW th \in Threads,
           KillWorker(th) \/ WorkerSurvives(th) \/ WriteRunningFails(th) \/ WriteRefused(th)
    PROVE  OwnersKept
<1> DEFINE c == custody[th]
<1>1. c \in CustodyType /\ custody \in [Threads -> CustodyType] /\ slots \in [Slots -> SlotType]
  BY DEF TaskTypes, ThreadTypes, SlotTypes
<1>2. c.pc \in {"kill", "write"} /\ UNCHANGED <<running, jobs, reaper>>
  BY DEF KillWorker, WorkerSurvives, WriteRunningFails, WriteRefused, Active, queueVars, reapVars
<1>3. PICK v \in Slots : v = c.slot
  BY <1>2 DEF TaskTypes, ThreadTypes, CustodyShape
<1>4. ASSUME v \notin used.struck
      PROVE  /\ ~ReaperAt(v) /\ ~JobAt(v) /\ \A x \in Threads \ {th} : custody[x].slot # v
             /\ \A t \in Tasks : running[t] = v => slots[v].busy = t /\ t = c.task
             /\ slots[v].inc = c.inc /\ slots[v].reaping /\ c.then = "publish"
  BY <1>2, <1>3, <1>4, OwnedByThread DEF Grips, Rightly
<1>6. CASE KillWorker(th)
  <2>1. /\ slots' = Killed(v, c.inc) /\ \A w \in Slots \ {v} : slots'[w] = slots[w]
        /\ \E at \in {"owed", "write"} : Goto(th, at)
    BY <1>1, <1>3, <1>6 DEF KillWorker, Killed
  <2>2. PICK at \in {"owed", "write"} : Goto(th, at)
    BY <2>1
  <2> DEFINE d == [c EXCEPT !.pc = at]
  <2>3. custody' = [custody EXCEPT ![th] = d]
    BY <1>1, <2>2 DEF Goto
  <2>4. d.pc = at /\ d.slot = v /\ d.inc = c.inc /\ d.then = c.then /\ d.task = c.task
    BY <1>1, <1>3 DEF CustodyType
  <2> HIDE DEF d
  <2>5. custody'[th] = d /\ \A x \in Threads \ {th} : custody'[x] = custody[x]
    BY <1>1, <2>3
  <2>6. ASSUME v \notin used.struck PROVE SlotOK(v)'
    <3>1. slots' = [slots EXCEPT ![v].proc = "dead"]
      BY <1>4, <2>1, <2>6 DEF Killed
    <3>2. /\ slots'[v].proc = "dead" /\ slots'[v].reaping /\ slots'[v].inc = c.inc
          /\ slots'[v].busy = slots[v].busy
      BY <1>1, <1>3, <1>4, <2>6, <3>1 DEF SlotType
    <3>3. Grips(custody'[th], slots'[v])
      BY <1>4, <2>4, <2>5, <2>6, <3>2 DEF Grips, Rightly, Holding
    <3>4. ~ReaperAt(v)' /\ ~JobAt(v)' /\ \A x \in Threads \ {th} : custody'[x].slot # v
      BY <1>2, <1>4, <2>5, <2>6 DEF ReaperAt, JobAt
    <3>5. \A t \in Tasks : running'[t] = v =>
             slots'[v].busy = t /\ t = custody'[th].task /\ custody'[th].pc # "respawn"
      BY <1>2, <1>4, <2>4, <2>5, <2>6, <3>2
    <3> QED
      BY <1>3, <2>4, <2>5, <3>3, <3>4, <3>5, SlotHeld
  <2>7. \A t \in Tasks : \A w \in Slots : running'[t] = w => running[t] = w
    BY <1>2
  <2>8. d.slot \in {v, NoSlot}
    BY <1>3, <2>4
  <2> QED
    BY <1>2, <1>3, <2>1, <2>3, <2>6, <2>7, <2>8, RestOfSlots
<1>7. CASE WorkerSurvives(th) \/ WriteRunningFails(th) \/ WriteRefused(th)
  <2>1. slots' = Unreaped(v, c.inc)
    BY <1>3, <1>7 DEF WorkerSurvives, WriteRunningFails, WriteRefused
  <2>2. custody' = [custody EXCEPT ![th] = NoCustody]
    BY <1>7 DEF WorkerSurvives, WriteRunningFails, WriteRefused, GivenUp, Ended
  <2>3. \A w \in Slots \ {v} : slots'[w] = slots[w]
    BY <1>1, <1>3, <2>1 DEF Unreaped
  <2>4. ASSUME v \notin used.struck PROVE ~slots'[v].reaping /\ slots'[v].busy = slots[v].busy
    <3>1. slots' = [slots EXCEPT ![v].reaping = FALSE]
      BY <1>4, <2>1, <2>4 DEF Unreaped
    <3> QED
      BY <1>1, <1>3, <3>1 DEF SlotType
  <2> QED
    BY <1>2, <1>3, <2>2, <2>3, <2>4, GivenBack
<1> QED
  BY <1>6, <1>7

\* The row of the task leaves RUNNING, and then the slot is given back.
LEMMA ReleaseOwners ==
    ASSUME TaskTypes, SlotInv, used'.faults > 0 \/ ~(used.faults > 0),
           NEW th \in Threads, Publish(th) \/ Respawn(th) \/ RespawnFails(th)
    PROVE  OwnersKept
<1> DEFINE c == custody[th]
<1>1. c \in CustodyType /\ custody \in [Threads -> CustodyType] /\ slots \in [Slots -> SlotType]
      /\ running \in [Tasks -> Slots \cup {NoSlot}]
  BY DEF TaskTypes, ThreadTypes, SlotTypes, QueueTypes
<1>2. c.pc \in {"publish", "respawn"} /\ UNCHANGED <<jobs, reaper>>
  BY DEF Publish, Respawn, RespawnFails, Active, queueVars, reapVars
<1>3. PICK v \in Slots : v = c.slot
  BY <1>2 DEF TaskTypes, ThreadTypes, CustodyShape
<1>4. ASSUME v \notin used.struck
      PROVE  /\ ~ReaperAt(v) /\ ~JobAt(v) /\ \A x \in Threads \ {th} : custody[x].slot # v
             /\ Grips(c, slots[v])
             /\ \A t \in Tasks : running[t] = v => slots[v].busy = t /\ t = c.task
  BY <1>3, <1>4, OwnedByThread
<1>5. CASE Publish(th)
  <2>1. c.pc = "publish" /\ slots' = slots /\ running' = [running EXCEPT ![c.task] = NoSlot]
        /\ Goto(th, "respawn")
    BY <1>5 DEF Publish, Active
  <2> DEFINE d == [c EXCEPT !.pc = "respawn"]
  <2>2. custody' = [custody EXCEPT ![th] = d]
    BY <1>1, <2>1 DEF Goto
  <2>3. d.pc = "respawn" /\ d.slot = v
    BY <1>1, <1>3 DEF CustodyType
  <2> HIDE DEF d
  <2>4. custody'[th] = d /\ \A x \in Threads \ {th} : custody'[x] = custody[x]
    BY <1>1, <2>2
  <2>6. \A t \in Tasks : \A w \in Slots : running'[t] = w => running[t] = w /\ t # c.task
    BY <1>1, <2>1
  <2>9. ASSUME v \notin used.struck PROVE SlotOK(v)'
    <3>1. Grips(custody'[th], slots'[v])
      BY <1>4, <2>1, <2>3, <2>4, <2>9 DEF Grips, Rightly, Holding
    <3>2. ~ReaperAt(v)' /\ ~JobAt(v)' /\ \A x \in Threads \ {th} : custody'[x].slot # v
      BY <1>2, <1>4, <2>4, <2>9 DEF ReaperAt, JobAt
    <3>3. \A t \in Tasks : running'[t] # v
      BY <1>3, <1>4, <2>6, <2>9
    <3> QED
      BY <1>3, <2>3, <2>4, <3>1, <3>2, <3>3, SlotHeld
  <2>10. d.slot \in {v, NoSlot} /\ \A w \in Slots \ {v} : slots'[w] = slots[w]
    BY <1>3, <2>1, <2>3
  <2>11. \A t \in Tasks : \A w \in Slots : running'[t] = w => running[t] = w
    BY <2>6
  <2> QED
    BY <1>2, <1>3, <2>2, <2>9, <2>10, <2>11, RestOfSlots
<1>6. CASE Respawn(th) \/ RespawnFails(th)
  <2>1. /\ c.pc = "respawn" /\ running' = running
        /\ custody' = [custody EXCEPT ![th] = NoCustody]
        /\ \/ slots' = [slots EXCEPT ![v] = Respawned(v)]
           \/ slots' = [slots EXCEPT ![v].reaping = FALSE]
    BY <1>3, <1>6 DEF Respawn, RespawnFails, Active, Ended, queueVars
  <2>2. Respawned(v).reaping = FALSE
    BY DEF Respawned, FreshSlot
  <2>3. ~slots'[v].reaping /\ \A w \in Slots \ {v} : slots'[w] = slots[w]
    BY <1>1, <1>3, <2>1, <2>2 DEF SlotType
  <2> QED
    BY <1>2, <1>3, <2>1, <2>3, GivenBack
<1> QED
  BY <1>5, <1>6

\* A thread that takes a task on has no slot, and other steps touch neither.
LEMMA StartOwners ==
    ASSUME TaskTypes, SlotInv, used'.faults > 0 \/ ~(used.faults > 0),
           \/ \E t \in Tasks : Watchdog(t) \/ RequestByWorker(t)
           \/ \E c \in Clients, t \in Tasks : RequestSingle(c, t) \/ RequestCascade(c, t)
           \/ \E th \in Threads : CascadeStep(th)
           \/ \E w \in Slots : \E t \in Tasks : ScheduleChild(w, t)
           \/ UNCHANGED taskVars
    PROVE  OwnersKept
<1>1. UNCHANGED <<running, slots, jobs, reaper>>
  <2>1. CASE \/ \E t \in Tasks : Watchdog(t) \/ RequestByWorker(t)
             \/ \E c \in Clients, t \in Tasks : RequestSingle(c, t) \/ RequestCascade(c, t)
    BY <2>1, ZenonT(40) DEF Watchdog, RequestByWorker, RequestSingle, RequestCascade, queueVars, reapVars
  <2>2. CASE \E th \in Threads : CascadeStep(th)
    BY <2>2 DEF CascadeStep, CascadeBegin, CascadeSweep, CascadeMint, CascadeTake, CascadePost,
                CascadeSummary, CascadeClose, queueVars, reapVars
  <2>3. CASE \/ \E w \in Slots : \E t \in Tasks : ScheduleChild(w, t)
             \/ UNCHANGED taskVars
    BY <2>3 DEF ScheduleChild, taskVars, queueVars, reapVars
  <2> QED
    BY <2>1, <2>2, <2>3
<1>2. \/ custody' = custody
      \/ \E th \in Threads : custody[th].pc = "idle" /\ \E t, deliver : Take(th, t, deliver)
  <2>1. Main \in Threads /\ Clients \subseteq Threads
    BY DEF Threads
  <2>2. CASE \E t \in Tasks : Watchdog(t)
    BY <2>1, <2>2 DEF Watchdog, ThreadFree
  <2>3. CASE \E c \in Clients, t \in Tasks : RequestSingle(c, t)
    BY <2>1, <2>3 DEF RequestSingle, ThreadFree
  <2>4. CASE \E th \in Threads : CascadeStep(th)
    BY <2>4, ZenonT(40) DEF CascadeStep, CascadeBegin, CascadeSweep, CascadeMint, CascadeTake,
       CascadePost, CascadeSummary, CascadeClose, At
  <2>5. CASE \/ \E t \in Tasks : RequestByWorker(t)
             \/ \E c \in Clients, t \in Tasks : RequestCascade(c, t)
             \/ \E w \in Slots : \E t \in Tasks : ScheduleChild(w, t)
             \/ UNCHANGED taskVars
    BY <2>5 DEF RequestByWorker, RequestCascade, ScheduleChild, taskVars, threadVars
  <2> QED
    BY <2>2, <2>3, <2>4, <2>5
<1>3. CASE custody' = custody
  BY <1>1, <1>3, OwnersRest
<1>4. ASSUME NEW th \in Threads, custody[th].pc = "idle", NEW t, NEW deliver, Take(th, t, deliver)
      PROVE  OwnersKept
  <2>1. custody[th].pc \notin Holding
    BY <1>4 DEF Holding
  <2>2. custody[th].slot = NoSlot
    BY <2>1, NoGrip
  <2> QED
    BY <1>1, <1>4, <2>2, FreeGoesOn
<1> QED
  BY <1>2, <1>3, <1>4

\* The next supervisor process starts with fresh slots and no owners.
LEMMA CrashOwners ==
    ASSUME Crash PROVE OwnersKept
<1>1. /\ running' = [t \in Tasks |-> NoSlot] /\ slots' = [w \in Slots |-> FreshSlot]
      /\ jobs' = <<>> /\ reaper' = NoJob /\ custody' = [th \in Threads |-> NoCustody]
  BY DEF Crash
<1>2. ~FreshSlot.reaping /\ NoCustody.slot = NoSlot /\ NoJob.pc = "idle"
  BY DEF FreshSlot, NoCustody, NoJob
<1> SUFFICES ASSUME NEW w \in Slots, w \notin used.struck PROVE SlotOK(w)'
  BY DEF OwnersKept
<1>3. ~slots'[w].reaping /\ ~ReaperAt(w)' /\ ~JobAt(w)'
  BY <1>1, <1>2 DEF ReaperAt, JobAt
<1>4. (\A th \in Threads : custody'[th].slot # w) /\ \A t \in Tasks : running'[t] # w
  BY <1>1, <1>2
<1> QED
  BY <1>3, <1>4, SlotFree

LEMMA OwnersNext ==
    ASSUME TaskTypes, SlotInv, [Tasks_Next]_taskVars
    PROVE  \A w \in Slots : w \notin used'.struck => SlotOK(w)'
<1>1. Counting /\ (used'.faults > 0 \/ ~(used.faults > 0)) /\ used.struck \subseteq used'.struck
  BY UsedGrows DEF Counting
<1>2. CASE LoopStep
  BY <1>1, <1>2, LoopOwners, DetectOwners DEF LoopStep, OwnersKept
<1>3. CASE ReaperStep \/ ReaperFault
  BY <1>1, <1>3, ReaperOwners DEF OwnersKept
<1>4. CASE \E w \in Slots : WorkerStep(w) \/ WorkerDies(w)
  BY <1>1, <1>4, WorkerOwners DEF OwnersKept
<1>5. ASSUME NEW th \in Threads, CustodyStep(th) \/ CustodyFault(th)
      PROVE  OwnersKept
  <2>1. CASE \/ Claim(th) \/ CapturePending(th) \/ CaptureNothing(th) \/ WritePending(th)
             \/ WritePendingFails(th) \/ WriteRunning(th) \/ Miss(th) \/ MissFails(th)
             \/ RegisterOwed(th) \/ OwedFails(th) \/ Settle(th)
    BY <1>1, <2>1, CustodyCalls
  <2>2. CASE CaptureRunning(th)
    BY <1>1, <2>2, CaptureOwners
  <2>3. CASE KillWorker(th) \/ WorkerSurvives(th) \/ WriteRunningFails(th) \/ WriteRefused(th)
    BY <1>1, <2>3, KillOwners
  <2>4. CASE Publish(th) \/ Respawn(th) \/ RespawnFails(th)
    BY <1>1, <2>4, ReleaseOwners
  <2> QED
    BY <1>5, <2>1, <2>2, <2>3, <2>4 DEF CustodyStep, CustodyFault
<1>6. CASE \E t \in Tasks : Timeout(t)
  BY <1>1, <1>6, TimeoutOwners
<1>7. CASE Crash
  BY <1>1, <1>7, CrashOwners DEF OwnersKept
<1>8. CASE \/ \E t \in Tasks : Watchdog(t) \/ RequestByWorker(t)
           \/ \E c \in Clients, t \in Tasks : RequestSingle(c, t) \/ RequestCascade(c, t)
           \/ \E th \in Threads : CascadeStep(th)
           \/ \E w \in Slots : \E t \in Tasks : ScheduleChild(w, t)
           \/ UNCHANGED taskVars
  BY <1>1, <1>8, StartOwners DEF OwnersKept
<1>9. CASE \E t \in Tasks : DropPendingFails(t)
  BY <1>1, <1>9, LoopOwners DEF OwnersKept
<1>10. ASSUME NEW th \in Threads, CustodyStep(th) \/ CustodyFault(th)
       PROVE  \A w \in Slots : w \notin used'.struck => SlotOK(w)'
  BY <1>1, <1>5, <1>10 DEF OwnersKept
<1> QED
  BY <1>2, <1>3, <1>4, <1>6, <1>7, <1>8, <1>9, <1>10 DEF Tasks_Next, Environment, Fault

\* A custody takes its slot at its capture, and lets go of it at its end.
LEMMA HeldMove ==
    ASSUME TaskTypes, HeldRightly, NEW th \in Threads, NEW d,
           custody' = [custody EXCEPT ![th] = d], d.slot # NoSlot => Rightly(d)
    PROVE  HeldRightly'
BY DEF HeldRightly, TaskTypes, ThreadTypes

LEMMA HeldNext ==
    ASSUME TaskTypes, HeldRightly, [Tasks_Next]_taskVars PROVE HeldRightly'
<1>1. custody \in [Threads -> CustodyType] /\ \A th \in Threads : custody[th] \in CustodyType
  BY DEF TaskTypes, ThreadTypes
<1>2. CASE custody' = custody
  BY <1>2 DEF HeldRightly
<1>3. ASSUME NEW th \in Threads, Ended(th, TRUE) \/ Ended(th, FALSE) \/ GivenUp(th)
      PROVE  HeldRightly'
  <2>1. custody' = [custody EXCEPT ![th] = NoCustody] /\ NoCustody.slot = NoSlot
    BY <1>3 DEF Ended, GivenUp, NoCustody
  <2> QED
    BY <2>1, HeldMove
<1>4. ASSUME NEW th \in Threads, NEW t, NEW deliver, Take(th, t, deliver) PROVE HeldRightly'
  <2> DEFINE d == [NoCustody EXCEPT !.pc = "claim", !.task = t, !.deliver = deliver]
  <2>1. custody' = [custody EXCEPT ![th] = d] /\ d.slot = NoSlot
    BY <1>4 DEF Take, NoCustody
  <2> HIDE DEF d
  <2> QED
    BY <2>1, HeldMove
<1>5. ASSUME NEW th \in Threads, NEW at, Goto(th, at), custody[th].pc # "respawn",
             at \in Holding \/ custody[th].pc \notin Holding
      PROVE  HeldRightly'
  <2> DEFINE c == custody[th]
             d == [c EXCEPT !.pc = at]
  <2>1. custody' = [custody EXCEPT ![th] = d]
    BY <1>1, <1>5 DEF Goto
  <2>2. d.pc = at /\ d.slot = c.slot /\ d.then = c.then
    BY <1>1 DEF CustodyType
  <2>3. c.slot # NoSlot => Rightly(c)
    BY DEF HeldRightly
  <2>4. d.slot # NoSlot => Rightly(d)
    BY <1>5, <2>2, <2>3 DEF Rightly
  <2> HIDE DEF d
  <2> QED
    BY <2>1, <2>4, HeldMove
<1>6. ASSUME NEW th \in Threads, NEW d, custody' = [custody EXCEPT ![th] = d],
             custody[th].pc \notin Holding, d.slot = custody[th].slot
      PROVE  HeldRightly'
  BY <1>6, HeldMove DEF HeldRightly, Rightly
<1>7. ASSUME NEW th \in Threads, CustodyStep(th) \/ CustodyFault(th) PROVE HeldRightly'
  <2> DEFINE c == custody[th]
  <2>1. CASE Claim(th)
    <3>1. c.pc = "claim" /\ c.pc \notin Holding
      BY <2>1 DEF Claim, Active, Holding
    <3>2. ASSUME NEW q, NEW b,
                 custody' = [custody EXCEPT ![th].pc = "capture", ![th].claim = q, ![th].took = b]
          PROVE  HeldRightly'
      <4> DEFINE d == [c EXCEPT !.pc = "capture", !.claim = q, !.took = b]
      <4>1. custody' = [custody EXCEPT ![th] = d] /\ d.slot = c.slot
        BY <1>1, <3>2 DEF CustodyType
      <4> HIDE DEF d
      <4> QED
        BY <1>6, <3>1, <4>1
    <3> QED
      BY <1>3, <1>5, <2>1, <3>1, <3>2 DEF Claim
  <2>2. CASE CapturePending(th) \/ CaptureNothing(th)
    <3>1. c.pc = "capture" /\ c.pc \notin Holding
      BY <2>2 DEF CapturePending, CaptureNothing, Active, Holding
    <3>2. \E at : Goto(th, at)
      BY <2>2 DEF CapturePending, CaptureNothing
    <3> QED
      BY <1>5, <3>1, <3>2
  <2>3. CASE CaptureRunning(th)
    <3>1. CASE GivenUp(th) \/ Ended(th, FALSE)
      BY <1>3, <3>1
    <3>2. ASSUME NEW v \in Slots,
                 custody' = [custody EXCEPT ![th].pc = "kill", ![th].slot = v,
                                ![th].inc = slots[v].inc, ![th].settled = IsSettled(c.task),
                                ![th].then = "publish"]
          PROVE  HeldRightly'
      <4> DEFINE b == IsSettled(c.task)
                 d == [c EXCEPT !.pc = "kill", !.slot = v, !.inc = slots[v].inc, !.settled = b,
                                !.then = "publish"]
      <4>1. custody' = [custody EXCEPT ![th] = d]
        BY <1>1, <3>2
      <4>2. Rightly(d)
        BY <1>1 DEF Rightly, Holding, CustodyType
      <4> HIDE DEF d
      <4> QED
        BY <4>1, <4>2, HeldMove
    <3> QED
      BY <2>3, <3>1, <3>2 DEF CaptureRunning, Holders
  <2>4. CASE WritePending(th)
    <3>1. c.pc \notin Holding
      BY <2>4 DEF WritePending, Active, Holding
    <3>2. PICK n : custody' = [custody EXCEPT ![th].pc = "settle", ![th].then = n]
      BY <2>4 DEF WritePending
    <3> DEFINE d == [c EXCEPT !.pc = "settle", !.then = n]
    <3>3. custody' = [custody EXCEPT ![th] = d] /\ d.slot = c.slot
      BY <1>1, <3>2 DEF CustodyType
    <3> HIDE DEF d
    <3> QED
      BY <1>6, <3>1, <3>3
  <2>5. CASE KillWorker(th) \/ WriteRunning(th) \/ RegisterOwed(th) \/ Publish(th)
    <3>1. /\ c.pc # "respawn"
          /\ \E at \in {"owed", "write", "settle", "respawn"} : Goto(th, at)
      BY <2>5 DEF KillWorker, WriteRunning, RegisterOwed, Publish, Active
    <3>2. {"owed", "write", "settle", "respawn"} \subseteq Holding
      BY DEF Holding
    <3> QED
      BY <1>5, <3>1, <3>2
  <2>6. CASE Miss(th)
    <3>1. c.pc = "miss" /\ c.pc \notin Holding
      BY <2>6 DEF Miss, Active, Holding
    <3>2. ASSUME NEW n, custody' = [custody EXCEPT ![th].pc = "owed", ![th].deliver = TRUE,
                                       ![th].then = n]
          PROVE  HeldRightly'
      <4> DEFINE d == [c EXCEPT !.pc = "owed", !.deliver = TRUE, !.then = n]
      <4>1. custody' = [custody EXCEPT ![th] = d] /\ d.slot = c.slot
        BY <1>1, <3>2 DEF CustodyType
      <4> HIDE DEF d
      <4> QED
        BY <1>6, <3>1, <4>1
    <3>3. \/ Ended(th, TRUE) \/ Ended(th, FALSE) \/ Goto(th, "settle")
          \/ \E n : custody' = [custody EXCEPT ![th].pc = "owed", ![th].deliver = TRUE, ![th].then = n]
      BY <2>6 DEF Miss, Ended
    <3> QED
      BY <1>3, <1>5, <3>1, <3>2, <3>3
  <2>7. CASE OwedFails(th) \/ Settle(th)
    <3>1. c.then \in Thens /\ c.pc # "respawn"
      BY <1>1, <2>7 DEF CustodyType, OwedFails, Settle, Active
    <3>2. Ended(th, TRUE) \/ Goto(th, "publish")
      BY <2>7, <3>1 DEF OwedFails, Settle, Thens
    <3>3. "publish" \in Holding
      BY DEF Holding
    <3> QED
      BY <1>3, <1>5, <3>1, <3>2, <3>3
  <2>8. CASE \/ WritePendingFails(th) \/ WorkerSurvives(th) \/ WriteRunningFails(th)
             \/ WriteRefused(th) \/ MissFails(th) \/ Respawn(th) \/ RespawnFails(th)
    BY <1>3, <2>8 DEF WritePendingFails, WorkerSurvives, WriteRunningFails, WriteRefused, MissFails,
       Respawn, RespawnFails
  <2> QED
    BY <1>7, <2>1, <2>2, <2>3, <2>4, <2>5, <2>6, <2>7, <2>8 DEF CustodyStep, CustodyFault
<1>8. Main \in Threads /\ Clients \subseteq Threads
  BY DEF Threads
<1>9. CASE \E t \in Tasks : Watchdog(t)
  BY <1>2, <1>4, <1>8, <1>9 DEF Watchdog
<1>10. CASE \E c \in Clients, t \in Tasks : RequestSingle(c, t) \/ RequestCascade(c, t)
  BY <1>2, <1>4, <1>8, <1>10 DEF RequestSingle, RequestCascade
<1>11. ASSUME NEW th \in Threads, CascadeStep(th) PROVE HeldRightly'
  BY <1>2, <1>4, <1>11 DEF CascadeStep, CascadeBegin, CascadeSweep, CascadeMint, CascadeTake,
     CascadePost, CascadeSummary, CascadeClose
<1>12. ASSUME NEW w \in Slots, DetectCrash(w) PROVE HeldRightly'
  <2> DEFINE d == [NoCustody EXCEPT !.pc = "respawn", !.slot = w]
  <2>1. custody' = [custody EXCEPT ![Main] = d]
    BY <1>12 DEF DetectCrash
  <2>2. Rightly(d)
    BY DEF Rightly, Holding, NoCustody
  <2> HIDE DEF d
  <2> QED
    BY <1>8, <2>1, <2>2, HeldMove
<1>13. CASE Crash
  <2>1. custody' = [th \in Threads |-> NoCustody] /\ NoCustody.slot = NoSlot
    BY <1>13 DEF Crash, NoCustody
  <2> QED
    BY <2>1 DEF HeldRightly
<1>14. CASE \/ HandleSchedule \/ HandleDone \/ ReaperStep \/ ReaperFault
            \/ \E t \in Tasks : DropPending(t) \/ DropPendingFails(t) \/ \E w \in Slots : Assign(w, t)
            \/ \E w \in Slots : WorkerStep(w) \/ WorkerDies(w)
            \/ \E w \in Slots : \E t \in Tasks : ScheduleChild(w, t)
            \/ \E t \in Tasks : Timeout(t) \/ RequestByWorker(t)
            \/ UNCHANGED taskVars
  <2>1. custody' = custody
    BY <1>14 DEF HandleSchedule, HandleDone, DropPending, DropPendingFails, Assign, ReaperStep,
       ReapTake, ReapKill, ReapCheck, ReapWrite, ReapRetry, ReapRespawn, ReaperFault, ReapWedged,
       ReapWriteFails, ReapRetryFails, ReapRespawnFails, WorkerStep, StartTask, FinishTask,
       EmitDone, WorkerDies, ScheduleChild, Timeout, RequestByWorker, threadVars, taskVars
  <2> QED
    BY <1>2, <2>1
<1> QED
  BY <1>7, <1>9, <1>10, <1>11, <1>12, <1>13, <1>14 DEF Tasks_Next, LoopStep, Environment, Fault

\* No call leaves a row in the hands of another supervisor that was not.
LEMMA RowAge ==
    ASSUME NEW i \in IntentType
    PROVE  /\ \A scope \in {"single", "cascade"} : Abandoned(Requested(i, scope)) => Abandoned(i)
           /\ ~Abandoned(Claimed(i)) /\ ~Abandoned(NoIntent)
           /\ \A claim : Abandoned(Released(i, claim)) => Abandoned(i)
           /\ \A claim : Abandoned(SettledIntent(i, claim)) => Abandoned(i)
           /\ \A scope : Abandoned([i EXCEPT !.scope = scope]) => Abandoned(i)
<1>1. \A scope : Abandoned([i EXCEPT !.scope = scope]) => Abandoned(i)
  BY DEF Abandoned, IntentType
<1>2. ~Abandoned(NoIntent) /\ \A n, scope : ~Abandoned([NoIntent EXCEPT !.state = "requested",
                                               !.req = n, !.scope = scope])
  BY DEF Abandoned, NoIntent
<1>3. \A scope \in {"single", "cascade"} : Abandoned(Requested(i, scope)) => Abandoned(i)
  BY <1>1, <1>2 DEF Requested
<1>4. ~Abandoned(Claimed(i))
  BY DEF Abandoned, Claimed, IntentType
<1>5. \A claim : Abandoned(Released(i, claim)) => Abandoned(i)
  BY DEF Abandoned, Released, IntentType
<1>6. \A claim : Abandoned(SettledIntent(i, claim)) => Abandoned(i)
  BY <1>2, <1>5 DEF SettledIntent
<1> QED
  BY <1>1, <1>2, <1>3, <1>4, <1>5, <1>6

\* A claim grows old only by the loss of the supervisor.
LEMMA ClaimsAge ==
    ASSUME TaskTypes, [Tasks_Next]_taskVars, ~Crash, NEW x \in Tasks, Abandoned(intent[x])'
    PROVE  Abandoned(intent[x])
<1>1. intent \in [Tasks -> IntentType]
  BY DEF TaskTypes, IntentTypes
<1>2. ASSUME pid' = pid, intent' = intent PROVE Abandoned(intent[x])
  BY <1>2 DEF Abandoned
<1>3. ASSUME pid' = pid, NEW t, NEW i, intent' = [intent EXCEPT ![t] = i],
             t \in Tasks => (Abandoned(i) => Abandoned(intent[t]))
      PROVE  Abandoned(intent[x])
  <2>1. CASE t = x
    <3>1. intent'[x] = i
      BY <1>1, <1>3, <2>1
    <3> QED
      BY <1>3, <2>1, <3>1 DEF Abandoned
  <2>2. CASE t # x
    <3>1. intent'[x] = intent[x]
      BY <1>1, <1>3, <2>2
    <3> QED
      BY <1>3, <3>1 DEF Abandoned
  <2> QED
    BY <2>1, <2>2
<1>4. ASSUME NEW t \in Tasks PROVE intent[t] \in IntentType
  BY <1>1
<1>5. CASE LoopStep
  <2>1. CASE UNCHANGED <<intent, pid>>
    BY <1>2, <2>1
  <2>2. ASSUME NEW t \in Tasks, DropPending(t), intent' # intent PROVE Abandoned(intent[x])
    <3> DEFINE row == Claimed(intent[t])
    <3>1. pid' = pid /\ intent' = [intent EXCEPT
                            ![t] = SettledIntent(row, [req |-> row.req, gen |-> row.gen])]
      BY <2>2 DEF DropPending, envVars
    <3>2. row \in IntentType
      <4> DEFINE j == intent[t]
      <4>1. j \in IntentType /\ pid \in Nat
        BY <1>4 DEF TaskTypes, IntentTypes
      <4> HIDE DEF j
      <4>2. j.gen + 1 \in Nat
        BY <4>1 DEF IntentType
      <4>3. [j EXCEPT !.state = "claimed", !.gen = j.gen + 1, !.pid = pid] \in IntentType
        BY <4>1, <4>2 DEF IntentType
      <4> QED
        BY <4>3 DEF Claimed, j
    <3>3. ~Abandoned(row)
      BY <1>4, RowAge
    <3> HIDE DEF row
    <3>4. ~Abandoned(SettledIntent(row, [req |-> row.req, gen |-> row.gen]))
      BY <3>2, <3>3, RowAge
    <3> QED
      BY <1>3, <3>1, <3>4
  <2>3. UNCHANGED <<intent, pid>> \/ \E t \in Tasks : DropPending(t) /\ pid' = pid
    BY <1>5 DEF LoopStep, HandleSchedule, HandleDone, DropPending, Assign, DetectCrash, envVars
  <2> QED
    BY <2>1, <2>2, <2>3
<1>12. ASSUME NEW t \in Tasks, DropPendingFails(t) PROVE Abandoned(intent[x])
  <2> DEFINE row == Claimed(intent[t])
             i == Released(row, [req |-> row.req, gen |-> row.gen])
  <2>1. pid' = pid /\ intent' = [intent EXCEPT ![t] = i]
    BY <1>12 DEF DropPendingFails
  <2>2. ~Abandoned(i)
    BY <1>4 DEF Abandoned, Claimed, Released, IntentType
  <2> HIDE DEF i
  <2> QED
    BY <1>3, <2>1, <2>2
<1>6. CASE \/ ReaperStep \/ ReaperFault \/ UNCHANGED taskVars
           \/ \E w \in Slots : WorkerStep(w) \/ WorkerDies(w) \/ \E t \in Tasks : ScheduleChild(w, t)
           \/ \E t \in Tasks : Timeout(t) \/ Watchdog(t)
  <2>1. UNCHANGED <<intent, pid>>
    BY <1>6 DEF ReaperStep, ReapTake, ReapKill, ReapCheck, ReapWrite, ReapRetry, ReapRespawn,
       ReaperFault, ReapWedged, ReapWriteFails, ReapRetryFails, ReapRespawnFails, WorkerStep,
       StartTask, FinishTask, EmitDone, WorkerDies, ScheduleChild, Timeout, Watchdog, durableVars,
       envVars, taskVars
  <2> QED
    BY <1>2, <2>1
<1>7. ASSUME NEW t \in Tasks, NEW scope \in {"single", "cascade"},
             Asking(t, scope) \/ Minted(t, scope), pid' = pid
      PROVE  Abandoned(intent[x])
  <2>1. intent' = [intent EXCEPT ![t] = Requested(intent[t], scope)]
    BY <1>1, <1>7 DEF Asking, Minted
  <2>2. Abandoned(Requested(intent[t], scope)) => Abandoned(intent[t])
    BY <1>4, RowAge
  <2> QED
    BY <1>3, <1>7, <2>1, <2>2
<1>8. CASE \/ \E t \in Tasks : RequestByWorker(t)
           \/ \E c \in Clients, t \in Tasks : RequestSingle(c, t) \/ RequestCascade(c, t)
  BY <1>7, <1>8 DEF RequestByWorker, RequestSingle, RequestCascade
<1>9. ASSUME NEW th \in Threads, GivenUp(th), pid' = pid PROVE Abandoned(intent[x])
  <2> DEFINE t == custody[th].task
             i == Released(intent[t], custody[th].claim)
  <2>1. intent' = [intent EXCEPT ![t] = i]
    BY <1>9 DEF GivenUp
  <2>2. t \in Tasks => (Abandoned(i) => Abandoned(intent[t]))
    BY <1>4, RowAge
  <2> HIDE DEF t, i
  <2> QED
    BY <1>3, <1>9, <2>1, <2>2
<1>10. ASSUME NEW th \in Threads, CustodyStep(th) \/ CustodyFault(th) PROVE Abandoned(intent[x])
  <2> DEFINE c == custody[th]
             t == c.task
  <2>1. pid' = pid
    BY <1>10 DEF CustodyStep, Claim, CapturePending, CaptureRunning, CaptureNothing, WritePending,
       KillWorker, WriteRunning, WriteRefused, Miss, RegisterOwed, Settle, Publish, Respawn,
       CustodyFault, WritePendingFails, WorkerSurvives, WriteRunningFails, MissFails, OwedFails,
       RespawnFails, envVars
  <2>2. CASE \/ CapturePending(th) \/ CaptureNothing(th) \/ WritePending(th) \/ KillWorker(th)
             \/ WriteRunning(th) \/ Miss(th) \/ RegisterOwed(th) \/ Publish(th) \/ Respawn(th)
             \/ RespawnFails(th)
    <3>1. intent' = intent
      BY <2>2 DEF CapturePending, CaptureNothing, WritePending, KillWorker, WriteRunning, Miss,
         RegisterOwed, Publish, Respawn, RespawnFails, durableVars
    <3> QED
      BY <1>2, <2>1, <3>1
  <2>3. CASE \/ WritePendingFails(th) \/ WorkerSurvives(th) \/ WriteRunningFails(th)
             \/ WriteRefused(th) \/ MissFails(th) \/ CaptureRunning(th)
    <3>1. GivenUp(th) \/ intent' = intent
      BY <2>3 DEF WritePendingFails, WorkerSurvives, WriteRunningFails, WriteRefused, MissFails,
         CaptureRunning
    <3> QED
      BY <1>2, <1>9, <2>1, <3>1
  <2>4. CASE Claim(th)
    <3>1. intent' = intent \/ intent' = [intent EXCEPT ![t] = Claimed(intent[t])]
      BY <2>4 DEF Claim
    <3>2. t \in Tasks => ~Abandoned(Claimed(intent[t]))
      BY <1>4, RowAge
    <3> HIDE DEF t
    <3> QED
      BY <1>2, <1>3, <2>1, <3>1, <3>2
  <2>5. CASE OwedFails(th)
    <3>1. intent' = [intent EXCEPT ![t] = Released(intent[t], c.claim)]
      BY <2>5 DEF OwedFails
    <3>2. t \in Tasks => (Abandoned(Released(intent[t], c.claim)) => Abandoned(intent[t]))
      BY <1>4, RowAge
    <3> HIDE DEF t, c
    <3> QED
      BY <1>3, <2>1, <3>1, <3>2
  <2>6. CASE Settle(th)
    <3>1. intent' = [intent EXCEPT ![t] = SettledIntent(intent[t], c.claim)]
      BY <2>6 DEF Settle
    <3>2. t \in Tasks => (Abandoned(SettledIntent(intent[t], c.claim)) => Abandoned(intent[t]))
      BY <1>4, RowAge
    <3> HIDE DEF t, c
    <3> QED
      BY <1>3, <2>1, <3>1, <3>2
  <2> QED
    BY <1>10, <2>2, <2>3, <2>4, <2>5, <2>6 DEF CustodyStep, CustodyFault
<1>11. ASSUME NEW th \in Threads, CascadeStep(th) PROVE Abandoned(intent[x])
  <2> DEFINE r == cascade[th].root
  <2>1. pid' = pid
    BY <1>11 DEF CascadeStep, CascadeBegin, CascadeSweep, CascadeMint, CascadeTake, CascadePost,
       CascadeSummary, CascadeClose, envVars
  <2>2. CASE CascadeSweep(th) \/ CascadePost(th) \/ CascadeSummary(th)
             \/ \E t \in Tasks : CascadeTake(th, t)
    <3>1. intent' = intent
      BY <2>2 DEF CascadeSweep, CascadePost, CascadeSummary, CascadeTake, durableVars
    <3> QED
      BY <1>2, <2>1, <3>1
  <2>3. ASSUME NEW t \in Tasks, CascadeMint(th, t) PROVE Abandoned(intent[x])
    BY <1>7, <2>1, <2>3 DEF CascadeMint
  <2>4. CASE CascadeBegin(th)
    <3> DEFINE s == IF HasIntent(r) THEN "cascade" ELSE intent[r].scope
               i == [intent[r] EXCEPT !.scope = s]
    <3>1. intent' = [intent EXCEPT ![r] = i]
      BY <1>1, <2>4 DEF CascadeBegin
    <3> HIDE DEF s
    <3>2. r \in Tasks => (Abandoned(i) => Abandoned(intent[r]))
      BY <1>4, RowAge
    <3> HIDE DEF r, i
    <3> QED
      BY <1>3, <2>1, <3>1, <3>2
  <2>5. CASE CascadeClose(th)
    <3> DEFINE i == IF intent[r].scope = "cascade" THEN NoIntent ELSE intent[r]
    <3>1. intent' = [intent EXCEPT ![r] = i]
      BY <2>5 DEF CascadeClose
    <3>2. r \in Tasks => (Abandoned(i) => Abandoned(intent[r]))
      BY <1>4, RowAge
    <3> HIDE DEF r, i
    <3> QED
      BY <1>3, <2>1, <3>1, <3>2
  <2> QED
    BY <1>11, <2>2, <2>3, <2>4, <2>5 DEF CascadeStep
<1> QED
  BY <1>5, <1>6, <1>8, <1>10, <1>11, <1>12 DEF Tasks_Next, Environment, Fault

\* A slot is given a task only by an assignment, and a process only by the
\* owner that is done with it.
SameWork(r, s) == s.busy \in {r.busy, NoTask} /\ s.inc = r.inc
Keeps(w) == SameWork(slots[w], slots'[w])
Assigned(w) ==
    /\ slots'[w].busy \in Tasks \ HandledTasks /\ slots'[w].inc = slots[w].inc
    /\ Assign(w, slots'[w].busy)
Replaced(w) ==
    /\ slots'[w].busy = NoTask
    /\ \/ reaper.pc = "respawn" /\ reaper.slot = w
       \/ \E th \in Threads : custody[th].pc = "respawn" /\ custody[th].slot = w

LEMMA SlotChange ==
    ASSUME TaskTypes, [Tasks_Next]_taskVars, ~Crash, NEW w \in Slots
    PROVE  Keeps(w) \/ Assigned(w) \/ Replaced(w)
<1>1. slots \in [Slots -> SlotType] /\ slots[w] \in SlotType
  BY DEF TaskTypes, SlotTypes
<1>2. ASSUME slots' = slots PROVE Keeps(w)
  BY <1>2 DEF Keeps, SameWork
<1>3. ASSUME NEW v, NEW s, slots' = [slots EXCEPT ![v] = s],
             v \in Slots => SameWork(slots[v], s)
      PROVE  Keeps(w)
  BY <1>1, <1>3 DEF Keeps, SameWork
<1>4. ASSUME NEW v \in Slots
      PROVE  /\ \A b : SameWork(slots[v], [slots[v] EXCEPT !.reaping = b])
             /\ \A p : SameWork(slots[v], [slots[v] EXCEPT !.proc = p])
             /\ \A p, j, q : SameWork(slots[v], [slots[v] EXCEPT !.proc = p, !.job = j, !.inq = q])
             /\ \A p, j : SameWork(slots[v], [slots[v] EXCEPT !.proc = p, !.job = j])
             /\ \A t \in {slots[v].busy, NoTask} :
                   SameWork(slots[v], [slots[v] EXCEPT !.reaping = TRUE, !.busy = t])
             /\ Respawned(v).busy = NoTask
  <2>1. slots[v] \in SlotType
    BY <1>1
  <2> QED
    BY <2>1 DEF SameWork, SlotType, Respawned, FreshSlot
<1>5. ASSUME NEW v, NEW n, slots' = Killed(v, n) \/ slots' = Unreaped(v, n)
      PROVE  Keeps(w)
  <2>1. CASE slots' = slots
    BY <1>2, <2>1
  <2>2. CASE slots' = [slots EXCEPT ![v] = [slots[v] EXCEPT !.proc = "dead"]]
    BY <1>3, <1>4, <2>2
  <2>3. CASE slots' = [slots EXCEPT ![v] = [slots[v] EXCEPT !.reaping = FALSE]]
    BY <1>3, <1>4, <2>3
  <2> QED
    BY <1>1, <1>5, <2>1, <2>2, <2>3 DEF Killed, Unreaped
<1>6. CASE \E v \in Slots : WorkerStep(v) \/ WorkerDies(v)
  <2>1. PICK v \in Slots : WorkerStep(v) \/ WorkerDies(v)
    BY <1>6
  <2>2. CASE StartTask(v)
    <3>1. slots' = [slots EXCEPT ![v] = [slots[v] EXCEPT !.proc = "working",
                        !.job = Head(slots[v].inq), !.inq = Tail(slots[v].inq)]]
      BY <1>1, <2>2 DEF StartTask
    <3> QED
      BY <1>3, <1>4, <3>1
  <2>3. CASE FinishTask(v)
    <3>1. slots' = [slots EXCEPT ![v] = [slots[v] EXCEPT !.proc = "finishing"]]
      BY <1>1, <2>3 DEF FinishTask
    <3> QED
      BY <1>3, <1>4, <3>1
  <2>4. CASE EmitDone(v)
    <3>1. slots' = [slots EXCEPT ![v] = [slots[v] EXCEPT !.proc = "idle", !.job = NoTask]]
      BY <1>1, <2>4 DEF EmitDone
    <3> QED
      BY <1>3, <1>4, <3>1
  <2>5. CASE WorkerDies(v)
    <3>1. slots' = [slots EXCEPT ![v] = [slots[v] EXCEPT !.proc = "dead"]]
      BY <1>1, <2>5 DEF WorkerDies
    <3> QED
      BY <1>3, <1>4, <3>1
  <2> QED
    BY <2>1, <2>2, <2>3, <2>4, <2>5 DEF WorkerStep
<1>7. CASE HandleSchedule \/ \E t \in Tasks : DropPending(t) \/ DropPendingFails(t)
  BY <1>2, <1>7 DEF HandleSchedule, DropPending, DropPendingFails
<1>8. CASE HandleDone
  <2>1. slots'[w] \in {slots[w], [slots[w] EXCEPT !.busy = NoTask]}
    BY <1>1, <1>8 DEF HandleDone
  <2>2. SameWork(slots[w], [slots[w] EXCEPT !.busy = NoTask])
    BY <1>1 DEF SameWork, SlotType
  <2>3. SameWork(slots[w], slots[w])
    BY DEF SameWork
  <2> QED
    BY <2>1, <2>2, <2>3 DEF Keeps
<1>9. ASSUME NEW v \in Slots, NEW t \in Tasks, Assign(v, t)
      PROVE  Assigned(w) \/ Keeps(w)
  <2>1. /\ slots' = [slots EXCEPT ![v] = [slots[v] EXCEPT !.busy = t, !.inq = Append(@, t)]]
        /\ ~HasIntent(t) /\ ~IsSettled(t)
    BY <1>1, <1>9 DEF Assign
  <2>2. CASE v = w
    <3>1. slots'[w].busy = t /\ slots'[w].inc = slots[w].inc
      BY <1>1, <2>1, <2>2 DEF SlotType
    <3> QED
      BY <1>9, <2>1, <2>2, <3>1 DEF HandledTasks, Assigned
  <2>3. CASE v # w
    BY <1>1, <2>1, <2>3 DEF Keeps, SameWork
  <2> QED
    BY <2>2, <2>3
<1>10. ASSUME NEW v \in Slots, DetectCrash(v) PROVE Keeps(w)
  <2>1. slots' = [slots EXCEPT ![v] = [slots[v] EXCEPT !.reaping = TRUE]]
    BY <1>1, <1>10 DEF DetectCrash
  <2> QED
    BY <1>3, <1>4, <2>1
<1>11. ASSUME NEW t \in Tasks, Timeout(t) PROVE Keeps(w)
  <2> DEFINE v == running[t]
             b == IF slots[v].busy = t THEN NoTask ELSE slots[v].busy
  <2>1. slots' = [slots EXCEPT ![v] = [slots[v] EXCEPT !.reaping = TRUE, !.busy = b]]
    BY <1>1, <1>11 DEF Timeout
  <2>2. b \in {slots[v].busy, NoTask}
    OBVIOUS
  <2> HIDE DEF b
  <2>3. v \in Slots => SameWork(slots[v], [slots[v] EXCEPT !.reaping = TRUE, !.busy = b])
    BY <1>4, <2>2
  <2> HIDE DEF v
  <2> QED
    BY <1>3, <2>1, <2>3
<1>12. CASE ReaperStep \/ ReaperFault
  <2>1. \/ slots' = slots \/ slots' = Killed(reaper.slot, reaper.inc)
        \/ /\ slots' = [slots EXCEPT ![reaper.slot] = Respawned(reaper.slot)]
           /\ reaper.pc = "respawn"
        \/ slots' = [slots EXCEPT ![reaper.slot] = [slots[reaper.slot] EXCEPT !.reaping = FALSE]]
    BY <1>1, <1>12 DEF ReaperStep, ReapTake, ReapKill, ReapCheck, ReapWrite, ReapRetry, ReapRespawn,
       ReaperFault, ReapWedged, ReapWriteFails, ReapRetryFails, ReapRespawnFails
  <2> DEFINE v == reaper.slot
  <2>2. v \in Slots => Respawned(v).busy = NoTask
                       /\ SameWork(slots[v], [slots[v] EXCEPT !.reaping = FALSE])
    BY <1>4
  <2>3. CASE slots' = slots \/ slots' = Killed(v, reaper.inc)
    BY <1>2, <1>5, <2>3
  <2>4. CASE slots' = [slots EXCEPT ![v] = Respawned(v)] /\ reaper.pc = "respawn"
    <3>1. CASE w = v
      BY <1>1, <2>2, <2>4, <3>1 DEF Replaced
    <3>2. CASE w # v
      BY <1>1, <2>4, <3>2 DEF Keeps, SameWork
    <3> QED
      BY <3>1, <3>2
  <2>5. CASE slots' = [slots EXCEPT ![v] = [slots[v] EXCEPT !.reaping = FALSE]]
    <3> HIDE DEF v
    <3> QED
      BY <1>3, <2>2, <2>5
  <2> QED
    BY <2>1, <2>3, <2>4, <2>5
<1>13. ASSUME NEW th \in Threads, CustodyStep(th) \/ CustodyFault(th)
       PROVE  Keeps(w) \/ Replaced(w)
  <2> DEFINE c == custody[th]
             v == c.slot
  <2>1. CASE \/ Claim(th) \/ CapturePending(th) \/ CaptureNothing(th) \/ WritePending(th)
             \/ WritePendingFails(th) \/ WriteRunning(th) \/ Miss(th) \/ MissFails(th)
             \/ RegisterOwed(th) \/ OwedFails(th) \/ Settle(th) \/ Publish(th)
    BY <1>2, <2>1 DEF Claim, CapturePending, CaptureNothing, WritePending, WritePendingFails,
       WriteRunning, Miss, MissFails, RegisterOwed, OwedFails, Settle, Publish
  <2>2. CASE CaptureRunning(th)
    <3>1. \/ slots' = slots
          \/ \E u \in Slots : slots' = [slots EXCEPT ![u] = [slots[u] EXCEPT !.reaping = TRUE]]
      BY <1>1, <2>2 DEF CaptureRunning, Holders
    <3>2. ASSUME NEW u \in Slots, slots' = [slots EXCEPT ![u] = [slots[u] EXCEPT !.reaping = TRUE]]
          PROVE  Keeps(w)
      BY <1>3, <1>4, <3>2
    <3> QED
      BY <1>2, <3>1, <3>2
  <2>3. CASE KillWorker(th) \/ WorkerSurvives(th) \/ WriteRunningFails(th) \/ WriteRefused(th)
    BY <1>5, <2>3 DEF KillWorker, WorkerSurvives, WriteRunningFails, WriteRefused
  <2>4. CASE Respawn(th) \/ RespawnFails(th)
    <3>1. \/ slots' = [slots EXCEPT ![v] = Respawned(v)]
          \/ slots' = [slots EXCEPT ![v] = [slots[v] EXCEPT !.reaping = FALSE]]
      BY <1>1, <2>4 DEF Respawn, RespawnFails
    <3>2. v \in Slots => Respawned(v).busy = NoTask
                         /\ SameWork(slots[v], [slots[v] EXCEPT !.reaping = FALSE])
      BY <1>4
    <3>3. CASE slots' = [slots EXCEPT ![v] = Respawned(v)]
      <4>1. c.pc = "respawn"
        BY <2>4 DEF Respawn, RespawnFails, Active
      <4>2. CASE w = v
        BY <1>1, <3>2, <3>3, <4>1, <4>2 DEF Replaced
      <4>3. CASE w # v
        BY <1>1, <3>3, <4>3 DEF Keeps, SameWork
      <4> QED
        BY <4>2, <4>3
    <3> HIDE DEF v
    <3>4. CASE slots' = [slots EXCEPT ![v] = [slots[v] EXCEPT !.reaping = FALSE]]
      BY <1>3, <3>2, <3>4
    <3> QED
      BY <3>1, <3>3, <3>4
  <2> QED
    BY <1>13, <2>1, <2>2, <2>3, <2>4 DEF CustodyStep, CustodyFault
<1>14. CASE \/ \E v \in Slots : \E t \in Tasks : ScheduleChild(v, t)
            \/ \E t \in Tasks : RequestByWorker(t) \/ Watchdog(t)
            \/ \E c \in Clients, t \in Tasks : RequestSingle(c, t) \/ RequestCascade(c, t)
            \/ \E th \in Threads : CascadeStep(th)
            \/ UNCHANGED taskVars
  BY <1>2, <1>14 DEF ScheduleChild, RequestByWorker, RequestSingle, RequestCascade, Watchdog,
     CascadeStep, CascadeBegin, CascadeSweep, CascadeMint, CascadeTake, CascadePost,
     CascadeSummary, CascadeClose, taskVars
<1> QED
  BY <1>6, <1>7, <1>8, <1>9, <1>10, <1>11, <1>12, <1>13, <1>14 DEF Tasks_Next, LoopStep,
     Environment, Fault

\* A custody that has taken an intent over took it from another supervisor.
Took(c) == c.took /\ c.pc \in {"claim", "capture"}

LEMMA TakesOver ==
    ASSUME TaskTypes, [Tasks_Next]_taskVars, ~Crash, NEW th \in Threads, Took(custody'[th])
    PROVE  /\ custody'[th].task = custody[th].task /\ custody[th].pc \in {"claim", "capture"}
           /\ Took(custody[th]) \/ (Claim(th) /\ Abandoned(intent[custody[th].task]))
<1> DEFINE Goal == /\ custody'[th].task = custody[th].task
                   /\ custody[th].pc \in {"claim", "capture"}
                   /\ Took(custody[th]) \/ (Claim(th) /\ Abandoned(intent[custody[th].task]))
<1>1. custody \in [Threads -> CustodyType] /\ \A y \in Threads : custody[y] \in CustodyType
  BY DEF TaskTypes, ThreadTypes
<1>2. CASE custody' = custody
  BY <1>2 DEF Took
<1>3. ASSUME NEW y \in Threads, NEW d, custody' = [custody EXCEPT ![y] = d], ~Took(d) PROVE Goal
  <2>1. CASE y = th
    BY <1>1, <1>3, <2>1
  <2>2. CASE y # th
    BY <1>1, <1>3, <2>2 DEF Took
  <2> QED
    BY <2>1, <2>2
<1>4. /\ ~Took(NoCustody)
      /\ \A t, deliver : ~Took([NoCustody EXCEPT !.pc = "claim", !.task = t, !.deliver = deliver])
      /\ \A w : ~Took([NoCustody EXCEPT !.pc = "respawn", !.slot = w])
  BY DEF Took, NoCustody
<1>5. ASSUME NEW y \in Threads
      PROVE  /\ \A at : ~(at \in {"claim", "capture"}) => ~Took([custody[y] EXCEPT !.pc = at])
             /\ \A n : ~Took([custody[y] EXCEPT !.pc = "settle", !.then = n])
             /\ \A n, b : ~Took([custody[y] EXCEPT !.pc = "owed", !.deliver = b, !.then = n])
             /\ \A v, n, b : ~Took([custody[y] EXCEPT !.pc = "kill", !.slot = v, !.inc = n,
                                       !.settled = b, !.then = "publish"])
  BY <1>1 DEF Took, CustodyType
<1>6. ASSUME NEW y \in Threads, NEW t, NEW deliver, Take(y, t, deliver) PROVE Goal
  BY <1>3, <1>4, <1>6 DEF Take
<1>7. ASSUME NEW y \in Threads, Ended(y, TRUE) \/ Ended(y, FALSE) \/ GivenUp(y) PROVE Goal
  BY <1>3, <1>4, <1>7 DEF Ended, GivenUp
<1>8. ASSUME NEW y \in Threads, NEW at, at \notin {"claim", "capture"}, Goto(y, at) PROVE Goal
  <2>1. custody' = [custody EXCEPT ![y] = [custody[y] EXCEPT !.pc = at]]
    BY <1>1, <1>8 DEF Goto
  <2> QED
    BY <1>3, <1>5, <1>8, <2>1
<1>9. ASSUME NEW y \in Threads, CustodyStep(y) \/ CustodyFault(y) PROVE Goal
  <2> DEFINE c == custody[y]
  <2>1. CASE Claim(y)
    <3>1. c.pc = "claim"
      BY <2>1 DEF Claim, Active
    <3>2. CASE Ended(y, FALSE)
      BY <1>7, <3>2
    <3>3. CASE Goto(y, "capture")
      <4>1. custody' = [custody EXCEPT ![y] = [c EXCEPT !.pc = "capture"]]
        BY <1>1, <3>3 DEF Goto
      <4>2. [c EXCEPT !.pc = "capture"].task = c.task /\ [c EXCEPT !.pc = "capture"].took = c.took
        BY <1>1 DEF CustodyType
      <4>3. CASE y = th
        BY <1>1, <3>1, <4>1, <4>2, <4>3 DEF Took
      <4>4. CASE y # th
        BY <1>1, <4>1, <4>4 DEF Took
      <4> QED
        BY <4>3, <4>4
    <3>4. ASSUME NEW q, custody' = [custody EXCEPT ![y].pc = "capture", ![y].claim = q,
                                        ![y].took = Abandoned(intent[c.task])]
          PROVE  Goal
      <4> DEFINE d == [c EXCEPT !.pc = "capture", !.claim = q, !.took = Abandoned(intent[c.task])]
      <4>1. custody' = [custody EXCEPT ![y] = d]
        BY <1>1, <3>4
      <4>2. d.task = c.task /\ d.took = Abandoned(intent[c.task])
        BY <1>1 DEF CustodyType
      <4> HIDE DEF d
      <4>3. CASE y = th
        <5>1. custody'[th] = d
          BY <1>1, <4>1, <4>3
        <5> QED
          BY <2>1, <3>1, <4>2, <4>3, <5>1 DEF Took
      <4>4. CASE y # th
        BY <1>1, <4>1, <4>4 DEF Took
      <4> QED
        BY <4>3, <4>4
    <3> QED
      BY <2>1, <3>2, <3>3, <3>4 DEF Claim
  <2>2. CASE \/ CapturePending(y) \/ CaptureNothing(y) \/ KillWorker(y) \/ WriteRunning(y)
             \/ RegisterOwed(y) \/ Publish(y)
    <3>1. \E at \in CustodyPcs \ {"claim", "capture"} : Goto(y, at)
      BY <2>2 DEF CapturePending, CaptureNothing, KillWorker, WriteRunning, RegisterOwed, Publish,
         CustodyPcs
    <3> QED
      BY <1>8, <3>1
  <2>3. CASE \/ WritePendingFails(y) \/ WorkerSurvives(y) \/ WriteRunningFails(y)
             \/ WriteRefused(y) \/ MissFails(y) \/ Respawn(y) \/ RespawnFails(y)
    BY <1>7, <2>3 DEF WritePendingFails, WorkerSurvives, WriteRunningFails, WriteRefused, MissFails,
       Respawn, RespawnFails
  <2>4. CASE CaptureRunning(y)
    <3>1. CASE GivenUp(y) \/ Ended(y, FALSE)
      BY <1>7, <3>1
    <3>2. ASSUME NEW v \in Slots,
                 custody' = [custody EXCEPT ![y].pc = "kill", ![y].slot = v,
                                ![y].inc = slots[v].inc, ![y].settled = IsSettled(c.task),
                                ![y].then = "publish"]
          PROVE  Goal
      <4> DEFINE b == IsSettled(c.task)
                 d == [c EXCEPT !.pc = "kill", !.slot = v, !.inc = slots[v].inc, !.settled = b,
                                !.then = "publish"]
      <4>1. custody' = [custody EXCEPT ![y] = d]
        BY <1>1, <3>2
      <4>2. ~Took(d)
        BY <1>5
      <4> HIDE DEF d
      <4> QED
        BY <1>3, <4>1, <4>2
    <3> QED
      BY <2>4, <3>1, <3>2 DEF CaptureRunning, Holders
  <2>5. CASE WritePending(y)
    <3>1. PICK n : custody' = [custody EXCEPT ![y].pc = "settle", ![y].then = n]
      BY <2>5 DEF WritePending
    <3>2. custody' = [custody EXCEPT ![y] = [custody[y] EXCEPT !.pc = "settle", !.then = n]]
      BY <1>1, <3>1
    <3> QED
      BY <1>3, <1>5, <3>2
  <2>6. CASE Miss(y)
    <3>1. CASE Ended(y, TRUE) \/ Ended(y, FALSE) \/ Goto(y, "settle")
      BY <1>7, <1>8, <3>1
    <3>2. ASSUME NEW n, custody' = [custody EXCEPT ![y].pc = "owed", ![y].deliver = TRUE,
                                       ![y].then = n]
          PROVE  Goal
      <4>1. custody' = [custody EXCEPT ![y] = [custody[y] EXCEPT !.pc = "owed", !.deliver = TRUE,
                                                                 !.then = n]]
        BY <1>1, <3>2
      <4> QED
        BY <1>3, <1>5, <4>1
    <3>3. \/ Ended(y, TRUE) \/ Ended(y, FALSE) \/ Goto(y, "settle")
          \/ \E n : custody' = [custody EXCEPT ![y].pc = "owed", ![y].deliver = TRUE, ![y].then = n]
      BY <2>6 DEF Miss, Ended
    <3> QED
      BY <3>1, <3>2, <3>3
  <2>7. CASE OwedFails(y) \/ Settle(y)
    <3>1. c.then \in Thens
      BY <1>1 DEF CustodyType
    <3>2. Ended(y, TRUE) \/ Goto(y, "publish")
      BY <2>7, <3>1 DEF OwedFails, Settle, Thens
    <3> QED
      BY <1>7, <1>8, <3>2
  <2> QED
    BY <1>9, <2>1, <2>2, <2>3, <2>4, <2>5, <2>6, <2>7 DEF CustodyStep, CustodyFault
<1>10. Main \in Threads /\ Clients \subseteq Threads
  BY DEF Threads
<1>11. CASE \E t \in Tasks : Watchdog(t)
  BY <1>2, <1>6, <1>10, <1>11 DEF Watchdog
<1>12. CASE \E c \in Clients, t \in Tasks : RequestSingle(c, t) \/ RequestCascade(c, t)
  BY <1>2, <1>6, <1>10, <1>12 DEF RequestSingle, RequestCascade
<1>13. ASSUME NEW y \in Threads, CascadeStep(y) PROVE Goal
  BY <1>2, <1>6, <1>13 DEF CascadeStep, CascadeBegin, CascadeSweep, CascadeMint, CascadeTake,
     CascadePost, CascadeSummary, CascadeClose
<1>14. ASSUME NEW w \in Slots, DetectCrash(w) PROVE Goal
  <2> DEFINE d == [NoCustody EXCEPT !.pc = "respawn", !.slot = w]
  <2>1. custody' = [custody EXCEPT ![Main] = d]
    BY <1>14 DEF DetectCrash
  <2>2. ~Took(d)
    BY <1>4
  <2> HIDE DEF d, Goal
  <2> QED
    BY <1>3, <1>10, <2>1, <2>2
<1>15. CASE \/ HandleSchedule \/ HandleDone \/ ReaperStep \/ ReaperFault
            \/ \E t \in Tasks : DropPending(t) \/ DropPendingFails(t) \/ \E w \in Slots : Assign(w, t)
            \/ \E w \in Slots : WorkerStep(w) \/ WorkerDies(w)
            \/ \E w \in Slots : \E t \in Tasks : ScheduleChild(w, t)
            \/ \E t \in Tasks : Timeout(t) \/ RequestByWorker(t)
            \/ UNCHANGED taskVars
  <2>1. custody' = custody
    BY <1>15 DEF HandleSchedule, HandleDone, DropPending, DropPendingFails, Assign, ReaperStep,
       ReapTake, ReapKill, ReapCheck, ReapWrite, ReapRetry, ReapRespawn, ReaperFault, ReapWedged,
       ReapWriteFails, ReapRetryFails, ReapRespawnFails, WorkerStep, StartTask, FinishTask,
       EmitDone, WorkerDies, ScheduleChild, Timeout, RequestByWorker, threadVars, taskVars
  <2> QED
    BY <1>2, <2>1
<1> QED
  BY <1>9, <1>11, <1>12, <1>13, <1>14, <1>15 DEF Tasks_Next, LoopStep, Environment, Fault

LEMMA OldClaimsNext ==
    ASSUME TaskInv, SlotInv, [Tasks_Next]_taskVars PROVE OldClaims'
<1>1. TaskTypes
  BY DEF TaskInv
<1>2. CASE Crash
  <2>1. /\ slots' = [w \in Slots |-> FreshSlot] /\ FreshSlot.busy = NoTask
        /\ custody' = [th \in Threads |-> NoCustody] /\ NoCustody.took = FALSE
    BY <1>2 DEF Crash, FreshSlot, NoCustody
  <2>2. \A x \in Tasks : Idle(x)'
    BY <2>1 DEF Idle
  <2> QED
    BY <2>1, <2>2 DEF OldClaims
<1>3. CASE ~Crash
  <2>1. ASSUME NEW x \in Tasks, Idle(x), x \in HandledTasks PROVE Idle(x)'
    <3> SUFFICES ASSUME NEW w \in Slots, slots'[w].busy = x PROVE FALSE
      BY DEF Idle
    <3>1. Keeps(w) \/ Assigned(w) \/ Replaced(w)
      BY <1>1, <1>3, SlotChange
    <3> QED
      BY <2>1, <3>1 DEF Idle, Keeps, SameWork, Assigned, Replaced
  <2>2. ASSUME NEW x \in Tasks, Abandoned(intent[x]) PROVE Idle(x)'
    <3>1. x \in HandledTasks
      BY <2>2 DEF HandledTasks, HasIntent, Abandoned
    <3>2. Idle(x)
      BY <2>2 DEF SlotInv, OldClaims
    <3> QED
      BY <2>1, <3>1, <3>2
  <2>3. ASSUME NEW x \in Tasks, Abandoned(intent[x])' PROVE Idle(x)'
    BY <1>1, <1>3, <2>2, <2>3, ClaimsAge
  <2>4. ASSUME NEW th \in Threads, Took(custody'[th]) PROVE \A w \in Slots : slots'[w].busy # custody'[th].task
    <3> DEFINE c == custody[th]
    <3>1. /\ custody'[th].task = c.task /\ c.pc \in {"claim", "capture"}
          /\ Took(c) \/ (Claim(th) /\ Abandoned(intent[c.task]))
      BY <1>1, <1>3, <2>4, TakesOver
    <3>2. c.task \in Known
      BY <1>1, <3>1 DEF TaskTypes, ThreadTypes, CustodyShape
    <3>3. c.task \in Tasks /\ c.task # NoTask
      BY <3>2, KnownAreTasks
    <3>4. c.task \in HandledTasks
      BY <3>3 DEF TaskInv, CustodyInv, CustodySound
    <3>5. Idle(c.task)
      BY <3>1, <3>3 DEF SlotInv, OldClaims, Took
    <3>6. PICK x0 \in Tasks : x0 = c.task
      BY <3>3
    <3>7. Idle(x0)'
      BY <2>1, <3>4, <3>5, <3>6
    <3> QED
      BY <3>1, <3>6, <3>7 DEF Idle
  <2> QED
    BY <2>3, <2>4 DEF OldClaims, Took, Idle
<1> QED
  BY <1>2, <1>3

LEMMA SlotStep ==
    ASSUME TaskInv, SlotInv, [Tasks_Next]_taskVars PROVE SlotInv'
<1>1. TaskTypes /\ HeldRightly
  BY DEF TaskInv, SlotInv
<1>2. HeldRightly' /\ OldClaims'
  BY <1>1, HeldNext, OldClaimsNext
<1>3. \A w \in Slots : w \notin used'.struck => SlotOK(w)'
  BY <1>1, OwnersNext
<1> QED
  BY <1>2, <1>3 DEF SlotInv

LEMMA SlotStart == TaskState_Init => SlotInv
<1> SUFFICES ASSUME TaskState_Init PROVE SlotInv
  OBVIOUS
<1>1. /\ running = [t \in Tasks |-> NoSlot] /\ slots = [w \in Slots |-> FreshSlot]
      /\ intent = [t \in Tasks |-> NoIntent]
      /\ jobs = <<>> /\ reaper = NoJob /\ custody = [th \in Threads |-> NoCustody]
  BY DEF TaskState_Init
<1>2. /\ FreshSlot.reaping = FALSE /\ FreshSlot.busy = NoTask /\ NoCustody.slot = NoSlot
      /\ NoCustody.took = FALSE /\ NoJob.pc = "idle" /\ NoIntent.state = "none"
  BY DEF FreshSlot, NoCustody, NoJob, NoIntent
<1>3. OldClaims /\ HeldRightly
  BY <1>1, <1>2 DEF OldClaims, Abandoned, HeldRightly
<1>4. ASSUME NEW w \in Slots PROVE SlotOK(w)
  BY <1>1, <1>2 DEF SlotOK, ReaperAt, JobAt
<1> QED
  BY <1>3, <1>4 DEF SlotInv

\* What the invariant says of the owners of a slot.
LEMMA OneOwner ==
    ASSUME TaskTypes, SlotInv PROVE SlotHasOneOwner
<1> SUFFICES ASSUME NEW w \in Slots, w \notin used.struck
             PROVE  /\ Cardinality(Owners(w)) <= 1
                    /\ Owners(w) # {} => slots[w].reaping
                    /\ slots[w].reaping => Owners(w) # {} \/ used.faults > 0
  BY DEF SlotHasOneOwner
<1>1. SlotOK(w)
  BY DEF SlotInv
<1>2. CASE \E th \in Threads : custody[th].slot = w
  <2>1. PICK th \in Threads : custody[th].slot = w
    BY <1>2
  <2>2. /\ ~ReaperAt(w) /\ ~JobAt(w) /\ \A x \in Threads \ {th} : custody[x].slot # w
        /\ Grips(custody[th], slots[w])
    BY <2>1, OwnedByThread
  <2>3. {x \in Threads : HoldsSlot(x) /\ custody[x].slot = w} = {th}
    BY <2>1, <2>2 DEF HoldsSlot, Grips, Rightly, Holding
  <2>4. {n \in DOMAIN jobs : jobs[n].slot = w} = {}
    BY <2>2 DEF JobAt
  <2>5. Owners(w) = {<<th, "custody">>}
    BY <2>2, <2>3, <2>4 DEF Owners, ReaperAt
  <2>6. Cardinality(Owners(w)) = 1
    BY <2>5, FS_Singleton
  <2> QED
    BY <2>2, <2>5, <2>6 DEF Grips
<1>3. CASE \A th \in Threads : custody[th].slot # w
  <2>1. {x \in Threads : HoldsSlot(x) /\ custody[x].slot = w} = {}
    BY <1>3
  <2>2. CASE ReaperAt(w)
    <3>1. Reaps(reaper, slots[w]) /\ {n \in DOMAIN jobs : jobs[n].slot = w} = {}
      BY <1>1, <2>2 DEF SlotOK, JobAt
    <3>2. Owners(w) = {<<reaper, "reaper">>}
      BY <2>1, <2>2, <3>1 DEF Owners, ReaperAt
    <3>3. Cardinality(Owners(w)) = 1
      BY <3>2, FS_Singleton
    <3> QED
      BY <3>1, <3>2, <3>3 DEF Reaps
  <2>3. CASE ~ReaperAt(w) /\ JobAt(w)
    <3>1. PICK i \in DOMAIN jobs : jobs[i].slot = w
      BY <2>3 DEF JobAt
    <3>2. Reaps(jobs[i], slots[w]) /\ {n \in DOMAIN jobs : jobs[n].slot = w} = {i}
      BY <1>1, <3>1 DEF SlotOK
    <3>3. Owners(w) = {<<jobs[i], "job">>}
      BY <2>1, <2>3, <3>2 DEF Owners, ReaperAt
    <3>4. Cardinality(Owners(w)) = 1
      BY <3>3, FS_Singleton
    <3> QED
      BY <3>2, <3>3, <3>4 DEF Reaps
  <2>4. CASE ~ReaperAt(w) /\ ~JobAt(w)
    <3>1. Owners(w) = {}
      BY <2>1, <2>4 DEF Owners, ReaperAt, JobAt
    <3>2. slots[w].reaping => used.faults > 0
      BY <1>1, <1>3, <2>4 DEF SlotOK
    <3> QED
      BY <3>1, <3>2, FS_EmptySet
  <2> QED
    BY <2>2, <2>3, <2>4
<1> QED
  BY <1>2, <1>3

LEMMA DeadIsReplaced ==
    ASSUME TaskTypes, SlotInv, [Tasks_Next]_taskVars, NEW w \in Slots, w \notin used.struck,
           slots'[w].inc > slots[w].inc
    PROVE  ~Alive(w)
<1>1. slots[w].inc \in Nat
  BY DEF TaskTypes, SlotTypes, SlotType
<1>2. ~Crash
  BY <1>1 DEF Crash, FreshSlot
<1>3. Replaced(w)
  BY <1>1, <1>2, SlotChange DEF Keeps, SameWork, Assigned
<1>4. CASE reaper.pc = "respawn" /\ reaper.slot = w
  <2>1. ReaperAt(w)
    BY <1>4 DEF ReaperAt
  <2>2. Reaps(reaper, slots[w])
    BY <2>1, OwnedByReaper
  <2> QED
    BY <1>4, <2>2 DEF Reaps, Alive
<1>5. ASSUME NEW th \in Threads, custody[th].pc = "respawn", custody[th].slot = w
      PROVE  ~Alive(w)
  <2>1. Grips(custody[th], slots[w])
    BY <1>5, OwnedByThread
  <2> QED
    BY <1>5, <2>1 DEF Grips, Alive
<1> QED
  BY <1>3, <1>4, <1>5 DEF Replaced

(* Whatever dies, times out, is cancelled by the loop or by request         *)
(* threads, fails or crashes, and for any number of workers: a slot being   *)
(* reaped has one owner and an unmarked slot none, until a timeout takes a  *)
(* slot that was marked already.                                            *)
THEOREM SlotsOwned == Tasks_Spec => []SlotHasOneOwner
<1>1. TaskState_Init => SlotInv
  BY SlotStart
<1>2. TaskInv /\ SlotInv /\ [Tasks_Next]_taskVars => SlotInv'
  BY SlotStep
<1>3. TaskInv /\ SlotInv => SlotHasOneOwner
  BY OneOwner DEF TaskInv
<1> QED
  BY <1>1, <1>2, <1>3, SupervisionInvariant, PTL DEF Tasks_Spec

(* A slot is given a new process only when its old one is dead, whichever   *)
(* of the crash detector, the reaper and a custody respawns it, again up to *)
(* a timeout on a marked slot.                                              *)
THEOREM RespawnOfDead == Tasks_Spec => RespawnReplacesDead
<1>1. TaskState_Init => SlotInv
  BY SlotStart
<1>2. TaskInv /\ SlotInv /\ [Tasks_Next]_taskVars => SlotInv'
  BY SlotStep
<1>3. TaskInv /\ SlotInv /\ [Tasks_Next]_taskVars
         => [\A w \in Slots \ used.struck :
                slots'[w].inc > slots[w].inc => ~Alive(w)]_taskVars
  BY DeadIsReplaced DEF TaskInv
<1> QED
  BY <1>1, <1>2, <1>3, SupervisionInvariant, PTL DEF Tasks_Spec, RespawnReplacesDead
=============================================================================
