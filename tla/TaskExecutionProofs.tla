------------------------ MODULE TaskExecutionProofs ------------------------
(* Where a task is: at most in one process, and always somewhere.  For any  *)
(* number of tasks, slots, threads, deaths, timeouts, faults, crashes and   *)
(* requests no task is executed twice at once, neither under its own id nor *)
(* under that of its retry; none is lost; a cancelled task is stopped, and  *)
(* a finished one is not cancelled.  The exceptions are part of what is     *)
(* proved: the sets in used name the slots and tasks they are about.        *)
EXTENDS TaskSupervisionProofs

USE TreeAssumption

---------------------------------------------------------------------------
(* One execution at a time.  A task waits in line while something will put  *)
(* it on a worker without asking anybody again; it is touched by a slot that *)
(* has it as its row, its job or in its queue.                              *)
Announced(t) == \E n \in DOMAIN events : events[n].kind = "schedule" /\ events[n].task = t
Withheld(th, t) == custody[th].pc = "pwrite" /\ custody[th].task = t
InLine(t) ==
    \/ t \in pending \/ t \in snapshot \/ Announced(t)
    \/ \E th \in Threads : Withheld(th, t)

Has(s, x) == s.job = x \/ \E n \in DOMAIN s.inq : s.inq[n] = x
Touching(s, x) == s.busy = x \/ Has(s, x)
Touches(w, t) == Touching(slots[w], t)

\* A slot that holds no more work than before, in the same process or in none.
Fades(r, s) ==
    /\ \A x \in Tasks : Has(s, x) => Has(r, x)
    /\ \A x \in Tasks : Touching(s, x) => /\ Touching(r, x) /\ s.inc = r.inc
                                          /\ (r.proc = "dead" => s.proc = "dead")

LEMMA FadesAlone ==
    ASSUME NEW r, NEW s, s.job \in {r.job, NoTask}, s.inq = r.inq, s.busy \in {r.busy, NoTask},
           s.inc = r.inc, r.proc = "dead" => s.proc = "dead"
    PROVE  Fades(r, s)
<1>1. ASSUME NEW x \in Tasks PROVE x # NoTask
  OBVIOUS
<1>2. \A x \in Tasks : Has(s, x) => Has(r, x)
  BY <1>1 DEF Has
<1>3. \A x \in Tasks : Touching(s, x) => Touching(r, x)
  BY <1>1, <1>2 DEF Touching
<1> QED
  BY <1>2, <1>3 DEF Fades

LEMMA FreshFades ==
    ASSUME NEW r, NEW s, s.job = NoTask, s.busy = NoTask, s.inq = <<>> PROVE Fades(r, s)
<1>1. \A x \in Tasks : x # NoTask
  OBVIOUS
<1>2. \A x \in Tasks : ~Has(s, x) /\ ~Touching(s, x)
  BY <1>1 DEF Has, Touching
<1> QED
  BY <1>2 DEF Fades

\* What a step does to a slot: it gains work only by an assignment.
LEMMA WorkFades ==
    ASSUME TaskTypes, [Tasks_Next]_taskVars, NEW w \in Slots
    PROVE  Fades(slots[w], slots'[w]) \/ \E t \in Tasks : Assign(w, t)
<1>1. slots \in [Slots -> SlotType] /\ slots[w] \in SlotType
  BY DEF TaskTypes, SlotTypes
<1>2. ASSUME slots'[w] = slots[w] PROVE Fades(slots[w], slots'[w])
  BY <1>2, FadesAlone
<1>3. ASSUME NEW v, NEW s, slots' = [slots EXCEPT ![v] = s], v \in Slots => Fades(slots[v], s)
      PROVE  Fades(slots[w], slots'[w])
  BY <1>1, <1>2, <1>3
<1>4. ASSUME NEW v \in Slots
      PROVE  /\ \A b : Fades(slots[v], [slots[v] EXCEPT !.reaping = b])
             /\ Fades(slots[v], [slots[v] EXCEPT !.proc = "dead"])
             /\ \A t \in {slots[v].busy, NoTask} :
                   Fades(slots[v], [slots[v] EXCEPT !.reaping = TRUE, !.busy = t])
             /\ Fades(slots[v], [slots[v] EXCEPT !.busy = NoTask])
             /\ Fades(slots[v], Respawned(v))
  <2>1. slots[v] \in SlotType
    BY <1>1
  <2>2. ASSUME NEW b PROVE Fades(slots[v], [slots[v] EXCEPT !.reaping = b])
    <3> DEFINE s == [slots[v] EXCEPT !.reaping = b]
    <3>1. /\ s.job = slots[v].job /\ s.inq = slots[v].inq /\ s.inc = slots[v].inc
          /\ s.busy \in {slots[v].busy, NoTask} /\ (slots[v].proc = "dead" => s.proc = "dead")
      BY <2>1 DEF SlotType
    <3> HIDE DEF s
    <3>2. Fades(slots[v], s)
      BY <3>1, FadesAlone
    <3> QED
      BY <3>2 DEF s
  <2>3. Fades(slots[v], [slots[v] EXCEPT !.proc = "dead"])
    <3> DEFINE s == [slots[v] EXCEPT !.proc = "dead"]
    <3>1. /\ s.job = slots[v].job /\ s.inq = slots[v].inq /\ s.inc = slots[v].inc
          /\ s.busy \in {slots[v].busy, NoTask} /\ (slots[v].proc = "dead" => s.proc = "dead")
      BY <2>1 DEF SlotType
    <3> HIDE DEF s
    <3>2. Fades(slots[v], s)
      BY <3>1, FadesAlone
    <3> QED
      BY <3>2 DEF s
  <2>4. ASSUME NEW t \in {slots[v].busy, NoTask}
        PROVE  Fades(slots[v], [slots[v] EXCEPT !.reaping = TRUE, !.busy = t])
    <3> DEFINE s == [slots[v] EXCEPT !.reaping = TRUE, !.busy = t]
    <3>1. /\ s.job = slots[v].job /\ s.inq = slots[v].inq /\ s.inc = slots[v].inc
          /\ s.busy \in {slots[v].busy, NoTask} /\ (slots[v].proc = "dead" => s.proc = "dead")
      BY <2>1, <2>4 DEF SlotType
    <3> HIDE DEF s
    <3>2. Fades(slots[v], s)
      BY <3>1, FadesAlone
    <3> QED
      BY <3>2 DEF s
  <2>5. Fades(slots[v], [slots[v] EXCEPT !.busy = NoTask])
    <3> DEFINE s == [slots[v] EXCEPT !.busy = NoTask]
    <3>1. /\ s.job = slots[v].job /\ s.inq = slots[v].inq /\ s.inc = slots[v].inc
          /\ s.busy \in {slots[v].busy, NoTask} /\ (slots[v].proc = "dead" => s.proc = "dead")
      BY <2>1 DEF SlotType
    <3> HIDE DEF s
    <3>2. Fades(slots[v], s)
      BY <3>1, FadesAlone
    <3> QED
      BY <3>2 DEF s
  <2>6. Fades(slots[v], Respawned(v))
    <3>1. /\ Respawned(v).job = NoTask /\ Respawned(v).busy = NoTask /\ Respawned(v).inq = <<>>
      BY DEF Respawned, FreshSlot
    <3> QED
      BY <3>1, FreshFades
  <2> QED
    BY <2>2, <2>3, <2>4, <2>5, <2>6
<1>5. ASSUME NEW v, NEW n, slots' = Killed(v, n) \/ slots' = Unreaped(v, n)
      PROVE  Fades(slots[w], slots'[w])
  <2>1. CASE slots' = slots
    BY <1>2, <2>1
  <2>2. CASE slots' = [slots EXCEPT ![v] = [slots[v] EXCEPT !.proc = "dead"]]
    BY <1>3, <1>4, <2>2
  <2>3. CASE slots' = [slots EXCEPT ![v] = [slots[v] EXCEPT !.reaping = FALSE]]
    BY <1>3, <1>4, <2>3
  <2> QED
    BY <1>1, <1>5, <2>1, <2>2, <2>3 DEF Killed, Unreaped
<1>6. ASSUME NEW v \in Slots, WorkerStep(v) \/ WorkerDies(v) PROVE Fades(slots[w], slots'[w])
  <2>0. slots[v] \in SlotType
    BY <1>1
  <2>1. CASE StartTask(v)
    <3> DEFINE r == slots[v]
               s == [r EXCEPT !.proc = "working", !.job = Head(r.inq), !.inq = Tail(r.inq)]
    <3>1. slots' = [slots EXCEPT ![v] = s] /\ r.proc = "idle" /\ r.inq # <<>>
      BY <1>1, <2>1 DEF StartTask
    <3>2. /\ r.inq \in Seq(Known) /\ s.job = Head(r.inq) /\ s.inq = Tail(r.inq)
          /\ s.busy = r.busy /\ s.inc = r.inc
      BY <2>0 DEF SlotType
    <3> HIDE DEF r, s
    <3>3. r.inq[1] = Head(r.inq) /\ 1 \in DOMAIN r.inq
      BY <3>1, <3>2
    <3>4. \A n \in DOMAIN s.inq : n + 1 \in DOMAIN r.inq /\ s.inq[n] = r.inq[n + 1]
      BY <3>1, <3>2
    <3>5. \A x \in Tasks : Has(s, x) => Has(r, x)
      BY <3>2, <3>3, <3>4 DEF Has
    <3>6. Fades(r, s)
      BY <3>1, <3>2, <3>5 DEF Fades, Touching
    <3> QED
      BY <1>3, <3>1, <3>6 DEF r
  <2>2. CASE FinishTask(v)
    <3> DEFINE s == [slots[v] EXCEPT !.proc = "finishing"]
    <3>1. slots' = [slots EXCEPT ![v] = s] /\ slots[v].proc = "working"
      BY <1>1, <2>2 DEF FinishTask
    <3>2. /\ s.job \in {slots[v].job, NoTask} /\ s.inq = slots[v].inq /\ s.inc = slots[v].inc
          /\ s.busy = slots[v].busy
      BY <2>0 DEF SlotType
    <3> HIDE DEF s
    <3>3. Fades(slots[v], s)
      BY <3>1, <3>2, FadesAlone
    <3> QED
      BY <1>3, <3>1, <3>3
  <2>3. CASE EmitDone(v)
    <3> DEFINE s == [slots[v] EXCEPT !.proc = "idle", !.job = NoTask]
    <3>1. slots' = [slots EXCEPT ![v] = s] /\ slots[v].proc = "finishing"
      BY <1>1, <2>3 DEF EmitDone
    <3>2. /\ s.job \in {slots[v].job, NoTask} /\ s.inq = slots[v].inq /\ s.inc = slots[v].inc
          /\ s.busy = slots[v].busy
      BY <2>0 DEF SlotType
    <3> HIDE DEF s
    <3>3. Fades(slots[v], s)
      BY <3>1, <3>2, FadesAlone
    <3> QED
      BY <1>3, <3>1, <3>3
  <2>4. CASE WorkerDies(v)
    <3>1. slots' = [slots EXCEPT ![v] = [slots[v] EXCEPT !.proc = "dead"]]
      BY <1>1, <2>4 DEF WorkerDies
    <3> QED
      BY <1>3, <1>4, <3>1
  <2> QED
    BY <1>6, <2>1, <2>2, <2>3, <2>4 DEF WorkerStep
<1>7. CASE HandleDone
  <2>1. slots'[w] \in {slots[w], [slots[w] EXCEPT !.busy = NoTask]}
    BY <1>1, <1>7 DEF HandleDone
  <2> QED
    BY <1>2, <1>4, <2>1
<1>8. ASSUME NEW v \in Slots, NEW t \in Tasks, Assign(v, t)
      PROVE  Fades(slots[w], slots'[w]) \/ \E x \in Tasks : Assign(w, x)
  <2>1. CASE v = w
    BY <1>8, <2>1
  <2>2. CASE v # w
    BY <1>1, <1>2, <1>8, <2>2 DEF Assign
  <2> QED
    BY <2>1, <2>2
<1>9. ASSUME NEW v \in Slots, DetectCrash(v) PROVE Fades(slots[w], slots'[w])
  <2>1. slots' = [slots EXCEPT ![v] = [slots[v] EXCEPT !.reaping = TRUE]]
    BY <1>1, <1>9 DEF DetectCrash
  <2> QED
    BY <1>3, <1>4, <2>1
<1>10. ASSUME NEW t \in Tasks, Timeout(t) PROVE Fades(slots[w], slots'[w])
  <2> DEFINE v == running[t]
             b == IF slots[v].busy = t THEN NoTask ELSE slots[v].busy
  <2>1. slots' = [slots EXCEPT ![v] = [slots[v] EXCEPT !.reaping = TRUE, !.busy = b]]
    BY <1>1, <1>10 DEF Timeout
  <2>2. b \in {slots[v].busy, NoTask}
    OBVIOUS
  <2> HIDE DEF b
  <2>3. v \in Slots => Fades(slots[v], [slots[v] EXCEPT !.reaping = TRUE, !.busy = b])
    BY <1>4, <2>2
  <2> HIDE DEF v
  <2> QED
    BY <1>3, <2>1, <2>3
<1>11. CASE ReaperStep \/ ReaperFault
  <2> DEFINE v == reaper.slot
  <2>1. \/ slots' = slots \/ slots' = Killed(v, reaper.inc)
        \/ slots' = [slots EXCEPT ![v] = Respawned(v)]
        \/ slots' = [slots EXCEPT ![v] = [slots[v] EXCEPT !.reaping = FALSE]]
    BY <1>1, <1>11 DEF ReaperStep, ReapTake, ReapKill, ReapCheck, ReapWrite, ReapRetry, ReapRespawn,
       ReaperFault, ReapWedged, ReapWriteFails, ReapRetryFails, ReapRespawnFails
  <2>2. v \in Slots => Fades(slots[v], Respawned(v))
                       /\ Fades(slots[v], [slots[v] EXCEPT !.reaping = FALSE])
    BY <1>4
  <2> HIDE DEF v
  <2> QED
    BY <1>2, <1>3, <1>5, <2>1, <2>2
<1>12. ASSUME NEW th \in Threads, CustodyStep(th) \/ CustodyFault(th)
       PROVE  Fades(slots[w], slots'[w])
  <2> DEFINE c == custody[th]
             v == c.slot
  <2>1. CASE \/ Claim(th) \/ CapturePending(th) \/ CaptureNothing(th) \/ WritePending(th)
             \/ WritePendingFails(th) \/ WriteRunning(th) \/ Miss(th) \/ MissFails(th)
             \/ RegisterOwed(th) \/ OwedFails(th) \/ Settle(th) \/ Publish(th)
    BY <1>2, <2>1 DEF Claim, CapturePending, CaptureNothing, WritePending, WritePendingFails,
       WriteRunning, Miss, MissFails, RegisterOwed, OwedFails, Settle, Publish
  <2>2. CASE CaptureRunning(th)
    <3>1. \/ slots' = slots
          \/ \E u \in Slots : slots' = [slots EXCEPT ![u] = [slots[u] EXCEPT !.reaping = TRUE]]
      BY <1>1, <2>2 DEF CaptureRunning, Holders
    <3>2. ASSUME NEW u \in Slots, slots' = [slots EXCEPT ![u] = [slots[u] EXCEPT !.reaping = TRUE]]
          PROVE  Fades(slots[w], slots'[w])
      BY <1>3, <1>4, <3>2
    <3> QED
      BY <1>2, <3>1, <3>2
  <2>3. CASE KillWorker(th) \/ WorkerSurvives(th) \/ WriteRunningFails(th) \/ WriteRefused(th)
    BY <1>5, <2>3 DEF KillWorker, WorkerSurvives, WriteRunningFails, WriteRefused
  <2>4. CASE Respawn(th) \/ RespawnFails(th)
    <3>1. \/ slots' = [slots EXCEPT ![v] = Respawned(v)]
          \/ slots' = [slots EXCEPT ![v] = [slots[v] EXCEPT !.reaping = FALSE]]
      BY <1>1, <2>4 DEF Respawn, RespawnFails
    <3>2. v \in Slots => Fades(slots[v], Respawned(v))
                         /\ Fades(slots[v], [slots[v] EXCEPT !.reaping = FALSE])
      BY <1>4
    <3> HIDE DEF v
    <3> QED
      BY <1>3, <3>1, <3>2
  <2> QED
    BY <1>12, <2>1, <2>2, <2>3, <2>4 DEF CustodyStep, CustodyFault
<1>13. CASE Crash
  <2>1. /\ slots'[w].job = NoTask /\ slots'[w].busy = NoTask /\ slots'[w].inq = <<>>
    BY <1>13 DEF Crash, FreshSlot
  <2> QED
    BY <2>1, FreshFades
<1>14. CASE \/ HandleSchedule \/ \E t \in Tasks : DropPending(t) \/ DropPendingFails(t)
            \/ \E v \in Slots : \E t \in Tasks : ScheduleChild(v, t)
            \/ \E t \in Tasks : RequestByWorker(t) \/ Watchdog(t)
            \/ \E c \in Clients, t \in Tasks : RequestSingle(c, t) \/ RequestCascade(c, t)
            \/ \E th \in Threads : CascadeStep(th)
            \/ UNCHANGED taskVars
  BY <1>2, <1>14 DEF HandleSchedule, DropPending, DropPendingFails, ScheduleChild, RequestByWorker,
     RequestSingle, RequestCascade, Watchdog, CascadeStep, CascadeBegin, CascadeSweep, CascadeMint,
     CascadeTake, CascadePost, CascadeSummary, CascadeClose, taskVars
<1> QED
  BY <1>6, <1>7, <1>8, <1>9, <1>10, <1>11, <1>12, <1>13, <1>14 DEF Tasks_Next, LoopStep,
     Environment, Fault

---------------------------------------------------------------------------
(* The steps that put a task in line: its admission, the crash detector and *)
(* the reaper's retry.                                                      *)
Scheduled(x) == \E w \in Slots : ScheduleChild(w, x)
Recovered(x) ==
    \E w \in Slots :
        /\ DetectCrash(w) /\ ~Alive(w) /\ slots[w].busy = x
        /\ running[x] # NoSlot /\ attempt[x] = 1 /\ attempt'[x] = 2
Retried(x) ==
    /\ ReapRetry /\ reaper.pc = "retry" /\ x = Retry[reaper.task] /\ attempt'[x] = 2

\* What a step does to a task's row in RUNNING, and to its attempt.
LEMMA RowsMove ==
    ASSUME TaskTypes, [Tasks_Next]_taskVars, NEW x \in Tasks
    PROVE  running'[x] \in {running[x], NoSlot} \/ \E w \in Slots : Assign(w, x)
<1>1. running \in [Tasks -> Slots \cup {NoSlot}]
  BY DEF TaskTypes, QueueTypes
<1>2. ASSUME NEW t, NEW w, running' = running \/ running' = [running EXCEPT ![t] = NoSlot]
      PROVE  running'[x] \in {running[x], NoSlot}
  BY <1>1, <1>2
<1>3. ASSUME UNCHANGED queueVars PROVE running'[x] \in {running[x], NoSlot}
  BY <1>3 DEF queueVars
<1>4. ASSUME NEW w \in Slots, NEW t \in Tasks, Assign(w, t)
      PROVE  running'[x] \in {running[x], NoSlot} \/ Assign(w, x)
  <2>1. running' = [running EXCEPT ![t] = w]
    BY <1>4 DEF Assign
  <2> QED
    BY <1>1, <1>4, <2>1
<1>5. CASE \/ HandleSchedule \/ HandleDone \/ \E t \in Tasks : DropPending(t) \/ DropPendingFails(t)
  BY <1>2, <1>5 DEF HandleSchedule, HandleDone, DropPending, DropPendingFails
<1>6. ASSUME NEW w \in Slots, DetectCrash(w) PROVE running'[x] \in {running[x], NoSlot}
  BY <1>2, <1>6 DEF DetectCrash
<1>7. CASE ReaperStep \/ ReaperFault
  BY <1>2, <1>3, <1>7 DEF ReaperStep, ReapTake, ReapKill, ReapCheck, ReapWrite, ReapRetry,
     ReapRespawn, ReaperFault, ReapWedged, ReapWriteFails, ReapRetryFails, ReapRespawnFails
<1>8. CASE \/ \E w \in Slots : WorkerStep(w) \/ WorkerDies(w) \/ \E t \in Tasks : ScheduleChild(w, t)
           \/ \E t \in Tasks : Watchdog(t) \/ RequestByWorker(t)
           \/ \E c \in Clients, t \in Tasks : RequestSingle(c, t) \/ RequestCascade(c, t)
           \/ UNCHANGED taskVars
  <2>1. UNCHANGED queueVars
    BY <1>8 DEF WorkerStep, StartTask, FinishTask, EmitDone, ScheduleChild, WorkerDies, Watchdog,
       RequestByWorker, RequestSingle, RequestCascade, taskVars
  <2> QED
    BY <1>3, <2>1
<1>9. CASE (\E t \in Tasks : Timeout(t)) \/ Crash
  BY <1>1, <1>2, <1>9 DEF Timeout, Crash
<1>10. ASSUME NEW th \in Threads, CustodyStep(th) \/ CustodyFault(th)
       PROVE  running'[x] \in {running[x], NoSlot}
  <2>1. CASE CustodyStep(th)
    BY <1>2, <1>3, <2>1 DEF CustodyStep, Claim, CapturePending, CaptureRunning, CaptureNothing,
       WritePending, KillWorker, WriteRunning, WriteRefused, Miss, RegisterOwed, Settle, Publish,
       Respawn
  <2>2. CASE CustodyFault(th)
    BY <1>2, <1>3, <2>2 DEF CustodyFault, WritePendingFails, WorkerSurvives, WriteRunningFails,
       MissFails, OwedFails, RespawnFails
  <2> QED
    BY <1>10, <2>1, <2>2
<1>11. ASSUME NEW th \in Threads, CascadeStep(th) PROVE running'[x] \in {running[x], NoSlot}
  BY <1>2, <1>3, <1>11 DEF CascadeStep, CascadeBegin, CascadeSweep, CascadeMint, CascadeTake,
     CascadePost, CascadeSummary, CascadeClose
<1> QED
  BY <1>4, <1>5, <1>6, <1>7, <1>8, <1>9, <1>10, <1>11 DEF Tasks_Next, LoopStep, Environment, Fault

LEMMA AttemptMoves ==
    ASSUME TaskTypes, [Tasks_Next]_taskVars, NEW x \in Tasks
    PROVE  attempt'[x] = attempt[x] \/ Recovered(x) \/ Retried(x)
<1>1. attempt \in [Tasks -> {1, 2}]
  BY DEF TaskTypes, QueueTypes
<1>2. ASSUME attempt' = attempt \/ UNCHANGED queueVars PROVE attempt'[x] = attempt[x]
  BY <1>2 DEF queueVars
<1>3. ASSUME NEW w \in Slots, DetectCrash(w) PROVE attempt'[x] = attempt[x] \/ Recovered(x)
  <2> DEFINE t == slots[w].busy
  <2>1. CASE ~(t # NoTask /\ running[t] # NoSlot)
    BY <1>3, <2>1 DEF DetectCrash
  <2>2. CASE t # NoTask /\ running[t] # NoSlot
    <3>1. PICK retried \in BOOLEAN :
             /\ retried => attempt[t] = 1
             /\ attempt' = [attempt EXCEPT ![t] = IF retried THEN 2 ELSE @]
      <4>1. PICK signal \in BOOLEAN :
               attempt' = [attempt EXCEPT ![t] = IF ~IsSettled(t) /\ ~signal /\ attempt[t] = 1
                                                 THEN 2 ELSE @]
        BY <1>3, <2>2 DEF DetectCrash
      <4> QED
        BY <4>1
    <3>2. ~Alive(w)
      BY <1>3 DEF DetectCrash
    <3> QED
      BY <1>1, <1>3, <2>2, <3>1, <3>2 DEF Recovered
  <2> QED
    BY <2>1, <2>2
<1>4. CASE ReapRetry
  <2>1. attempt' = [attempt EXCEPT ![Retry[reaper.task]] = 2] /\ reaper.pc = "retry"
    BY <1>4 DEF ReapRetry
  <2> QED
    BY <1>1, <1>4, <2>1 DEF Retried
<1>5. CASE \/ HandleSchedule \/ HandleDone \/ \E t \in Tasks : DropPending(t) \/ DropPendingFails(t)
           \/ \E t \in Tasks : \E w \in Slots : Assign(w, t)
  BY <1>2, <1>5 DEF HandleSchedule, HandleDone, DropPending, DropPendingFails, Assign
<1>6. CASE ReapTake \/ ReapKill \/ ReapCheck \/ ReapWrite \/ ReapRespawn \/ ReaperFault
  BY <1>2, <1>6 DEF ReapTake, ReapKill, ReapCheck, ReapWrite, ReapRespawn, ReaperFault, ReapWedged,
     ReapWriteFails, ReapRetryFails, ReapRespawnFails
<1>7. CASE \/ \E w \in Slots : WorkerStep(w) \/ WorkerDies(w) \/ \E t \in Tasks : ScheduleChild(w, t)
           \/ \E t \in Tasks : Watchdog(t) \/ RequestByWorker(t)
           \/ \E c \in Clients, t \in Tasks : RequestSingle(c, t) \/ RequestCascade(c, t)
           \/ UNCHANGED taskVars
  <2>1. UNCHANGED queueVars
    BY <1>7 DEF WorkerStep, StartTask, FinishTask, EmitDone, ScheduleChild, WorkerDies, Watchdog,
       RequestByWorker, RequestSingle, RequestCascade, taskVars
  <2> QED
    BY <1>2, <2>1
<1>8. CASE (\E t \in Tasks : Timeout(t)) \/ Crash
  BY <1>2, <1>8 DEF Timeout, Crash
<1>9. ASSUME NEW th \in Threads, CustodyStep(th) \/ CustodyFault(th)
      PROVE  attempt'[x] = attempt[x]
  <2>1. CASE CustodyStep(th)
    BY <1>2, <2>1 DEF CustodyStep, Claim, CapturePending, CaptureRunning, CaptureNothing,
       WritePending, KillWorker, WriteRunning, WriteRefused, Miss, RegisterOwed, Settle, Publish,
       Respawn
  <2>2. CASE CustodyFault(th)
    BY <1>2, <2>2 DEF CustodyFault, WritePendingFails, WorkerSurvives, WriteRunningFails,
       MissFails, OwedFails, RespawnFails
  <2> QED
    BY <1>9, <2>1, <2>2
<1>10. ASSUME NEW th \in Threads, CascadeStep(th) PROVE attempt'[x] = attempt[x]
  BY <1>2, <1>10 DEF CascadeStep, CascadeBegin, CascadeSweep, CascadeMint, CascadeTake,
     CascadePost, CascadeSummary, CascadeClose
<1> QED
  BY <1>3, <1>4, <1>5, <1>6, <1>7, <1>8, <1>9, <1>10
  DEF Tasks_Next, LoopStep, ReaperStep, Environment, Fault

---------------------------------------------------------------------------
\* How a task comes to be pending.
LEMMA PendingMoves ==
    ASSUME TaskTypes, [Tasks_Next]_taskVars, NEW x \in Tasks, x \in pending'
    PROVE  \/ x \in pending \/ Recovered(x) \/ Retried(x)
           \/ HandleSchedule /\ x = Head(events).task
           \/ \E th \in Threads : WritePendingFails(th) /\ x = custody[th].task
           \/ Crash /\ x \in snapshot
<1>1. attempt \in [Tasks -> {1, 2}]
  BY DEF TaskTypes, QueueTypes
<1>2. ASSUME pending' \subseteq pending \/ UNCHANGED queueVars PROVE x \in pending
  BY <1>2 DEF queueVars
<1>3. ASSUME NEW w \in Slots, DetectCrash(w) PROVE x \in pending \/ Recovered(x)
  <2> DEFINE t == slots[w].busy
  <2>1. CASE ~(t # NoTask /\ running[t] # NoSlot)
    BY <1>3, <2>1 DEF DetectCrash
  <2>2. CASE t # NoTask /\ running[t] # NoSlot
    <3>1. PICK retried \in BOOLEAN :
             /\ retried => attempt[t] = 1
             /\ attempt' = [attempt EXCEPT ![t] = IF retried THEN 2 ELSE @]
             /\ pending' = IF retried /\ ~Fenced(t) THEN pending \cup {t} ELSE pending
      <4>1. PICK signal \in BOOLEAN :
               /\ attempt' = [attempt EXCEPT ![t] = IF ~IsSettled(t) /\ ~signal /\ attempt[t] = 1
                                                    THEN 2 ELSE @]
               /\ pending' = IF (~IsSettled(t) /\ ~signal /\ attempt[t] = 1) /\ ~Fenced(t)
                             THEN pending \cup {t} ELSE pending
        BY <1>3, <2>2 DEF DetectCrash
      <4> QED
        BY <4>1
    <3>2. ~Alive(w)
      BY <1>3 DEF DetectCrash
    <3>3. CASE x \in pending
      BY <3>3
    <3>4. CASE x \notin pending
      <4>1. retried /\ x = t
        BY <3>1, <3>4
      <4>2. attempt'[x] = 2
        BY <1>1, <3>1, <4>1
      <4> QED
        BY <1>3, <2>2, <3>1, <3>2, <4>1, <4>2 DEF Recovered
    <3> QED
      BY <3>3, <3>4
  <2> QED
    BY <2>1, <2>2
<1>4. CASE ReapRetry
  <2>1. /\ attempt' = [attempt EXCEPT ![Retry[reaper.task]] = 2] /\ reaper.pc = "retry"
        /\ pending' \subseteq pending \cup {Retry[reaper.task]}
    BY <1>4 DEF ReapRetry, Enqueued
  <2> QED
    BY <1>1, <1>4, <2>1 DEF Retried
<1>5. CASE HandleSchedule
  BY <1>5 DEF HandleSchedule, Enqueued
<1>6. CASE \/ HandleDone \/ \E t \in Tasks : DropPending(t) \/ DropPendingFails(t)
           \/ \E t \in Tasks : \E w \in Slots : Assign(w, t)
  BY <1>2, <1>6 DEF HandleDone, DropPending, DropPendingFails, Assign
<1>7. CASE ReapTake \/ ReapKill \/ ReapCheck \/ ReapWrite \/ ReapRespawn \/ ReaperFault
  BY <1>2, <1>7 DEF ReapTake, ReapKill, ReapCheck, ReapWrite, ReapRespawn, ReaperFault, ReapWedged,
     ReapWriteFails, ReapRetryFails, ReapRespawnFails
<1>8. CASE \/ \E w \in Slots : WorkerStep(w) \/ WorkerDies(w) \/ \E t \in Tasks : ScheduleChild(w, t)
           \/ \E t \in Tasks : Watchdog(t) \/ RequestByWorker(t)
           \/ \E c \in Clients, t \in Tasks : RequestSingle(c, t) \/ RequestCascade(c, t)
           \/ UNCHANGED taskVars
  <2>1. UNCHANGED queueVars
    BY <1>8 DEF WorkerStep, StartTask, FinishTask, EmitDone, ScheduleChild, WorkerDies, Watchdog,
       RequestByWorker, RequestSingle, RequestCascade, taskVars
  <2> QED
    BY <1>2, <2>1
<1>9. CASE \E t \in Tasks : Timeout(t)
  BY <1>2, <1>9 DEF Timeout
<1>10. CASE Crash
  BY <1>10 DEF Crash
<1>11. ASSUME NEW th \in Threads, CustodyStep(th) \/ CustodyFault(th)
       PROVE  x \in pending \/ (WritePendingFails(th) /\ x = custody[th].task)
  <2>1. CASE CustodyStep(th)
    BY <1>2, <2>1 DEF CustodyStep, Claim, CapturePending, CaptureRunning, CaptureNothing,
       WritePending, KillWorker, WriteRunning, WriteRefused, Miss, RegisterOwed, Settle, Publish,
       Respawn
  <2>2. CASE WritePendingFails(th)
    BY <2>2 DEF WritePendingFails
  <2>3. CASE CustodyFault(th) /\ ~WritePendingFails(th)
    BY <1>2, <2>3 DEF CustodyFault, WorkerSurvives, WriteRunningFails, MissFails, OwedFails,
       RespawnFails
  <2> QED
    BY <1>11, <2>1, <2>2, <2>3
<1>12. ASSUME NEW th \in Threads, CascadeStep(th) PROVE x \in pending
  BY <1>2, <1>12 DEF CascadeStep, CascadeBegin, CascadeSweep, CascadeMint, CascadeTake,
     CascadePost, CascadeSummary, CascadeClose
<1> QED
  BY <1>3, <1>4, <1>5, <1>6, <1>7, <1>8, <1>9, <1>10, <1>11, <1>12
  DEF Tasks_Next, LoopStep, ReaperStep, Environment, Fault

\* The snapshot is one of the queue, before the step or after it.
LEMMA SnapshotMoves ==
    ASSUME TaskTypes, [Tasks_Next]_taskVars
    PROVE  snapshot' \subseteq snapshot \cup pending \cup pending'
<1> DEFINE Goal == snapshot' = snapshot \/ snapshot' = pending \/ snapshot' = pending'
<1>1. CASE LoopStep
  BY <1>1 DEF LoopStep, HandleSchedule, HandleDone, DropPending, DropPendingFails, Assign,
     DetectCrash
<1>2. CASE ReaperStep \/ ReaperFault
  BY <1>2 DEF ReaperStep, ReapTake, ReapKill, ReapCheck, ReapWrite, ReapRetry, ReapRespawn,
     ReaperFault, ReapWedged, ReapWriteFails, ReapRetryFails, ReapRespawnFails, durableVars
<1>3. CASE \/ \E w \in Slots : WorkerStep(w) \/ \E t \in Tasks : ScheduleChild(w, t)
           \/ Environment \/ UNCHANGED taskVars \/ \E t \in Tasks : Watchdog(t)
  <2>1. Goal
    BY <1>3 DEF WorkerStep, StartTask, FinishTask, EmitDone, ScheduleChild, Environment, WorkerDies,
       Timeout, Watchdog, RequestByWorker, RequestSingle, RequestCascade, Crash, durableVars,
       taskVars
  <2> QED
    BY <2>1
<1>4. ASSUME NEW th \in Threads, CustodyStep(th) PROVE Goal
  <2>1. custody[th].then \in {"publish", "emit", "end"} 
    BY DEF TaskTypes, ThreadTypes, CustodyType, Thens
  <2>2. CASE Settle(th)
    <3>1. CASE custody[th].then = "publish"
      BY <2>2, <3>1 DEF Settle
    <3>2. CASE custody[th].then = "emit"
      BY <2>2, <3>2 DEF Settle
    <3>3. CASE custody[th].then = "end"
      BY <2>2, <3>3 DEF Settle
    <3> QED
      BY <2>1, <3>1, <3>2, <3>3
  <2>3. CASE CustodyStep(th) /\ ~Settle(th)
    BY <2>3 DEF CustodyStep, Claim, CapturePending, CaptureRunning, CaptureNothing,
       WritePending, KillWorker, WriteRunning, WriteRefused, Miss, RegisterOwed, Publish,
       Respawn, durableVars
  <2> QED
    BY <1>4, <2>2, <2>3
<1>5. ASSUME NEW th \in Threads, CustodyFault(th) PROVE Goal
  <2>1. custody[th].then \in {"publish", "emit", "end"} 
    BY DEF TaskTypes, ThreadTypes, CustodyType, Thens
  <2>2. CASE OwedFails(th)
    <3>1. CASE custody[th].then = "publish"
      BY <2>2, <3>1 DEF OwedFails
    <3>2. CASE custody[th].then = "emit"
      BY <2>2, <3>2 DEF OwedFails
    <3>3. CASE custody[th].then = "end"
      BY <2>2, <3>3 DEF OwedFails
    <3> QED
      BY <2>1, <3>1, <3>2, <3>3
  <2>3. CASE CustodyFault(th) /\ ~OwedFails(th)
    BY <2>3 DEF CustodyFault, WritePendingFails, WorkerSurvives, WriteRunningFails, MissFails,
       RespawnFails
  <2> QED
    BY <1>5, <2>2, <2>3
<1>6. ASSUME NEW th \in Threads, CascadeStep(th) PROVE Goal
  BY <1>6 DEF CascadeStep, CascadeBegin, CascadeSweep, CascadeMint, CascadeTake,
     CascadePost, CascadeSummary, CascadeClose, durableVars
<1>7. CASE \E t \in Tasks : DropPendingFails(t)
  BY <1>7 DEF DropPendingFails
<1> QED
  BY <1>1, <1>2, <1>3, <1>4, <1>5, <1>6, <1>7 DEF Tasks_Next, Fault

\* What a step does to the event queue.
EventsMove ==
    \/ events' = events \/ events' = <<>>
    \/ events' = Tail(events) /\ events # <<>>
    \/ \E t, w : events' = Append(events, DoneEvent(t, w))
    \/ \E w \in Slots, t \in Tasks : ScheduleChild(w, t) /\ events' = Append(events, ScheduleEvent(t))

LEMMA EventsMoves ==
    ASSUME TaskTypes, [Tasks_Next]_taskVars PROVE EventsMove
<1>1. ASSUME events' = events \/ \E t : events' = Emitted(t) PROVE EventsMove
  BY <1>1 DEF EventsMove, Emitted
<1>2. CASE LoopStep
  BY <1>1, <1>2 DEF LoopStep, HandleSchedule, HandleDone, DropPending, DropPendingFails, Assign,
     DetectCrash, EventsMove
<1>3. CASE ReaperStep \/ ReaperFault
  BY <1>1, <1>3 DEF ReaperStep, ReapTake, ReapKill, ReapCheck, ReapWrite, ReapRetry, ReapRespawn,
     ReaperFault, ReapWedged, ReapWriteFails, ReapRetryFails, ReapRespawnFails
<1>4. ASSUME NEW w \in Slots, WorkerStep(w) PROVE EventsMove
  BY <1>1, <1>4 DEF WorkerStep, StartTask, FinishTask, EmitDone, EventsMove
<1>5. ASSUME NEW w \in Slots, NEW t \in Tasks, ScheduleChild(w, t) PROVE EventsMove
  <2>1. events' = Append(events, ScheduleEvent(t))
    BY <1>5 DEF ScheduleChild
  <2> QED
    BY <1>5, <2>1 DEF EventsMove
<1>6. CASE Environment \/ UNCHANGED taskVars \/ \E t \in Tasks : Watchdog(t)
  <2>1. events' = events \/ events' = <<>>
    BY <1>6 DEF Environment, WorkerDies, Timeout, Watchdog, RequestByWorker, RequestSingle,
       RequestCascade, Crash, taskVars
  <2> QED
    BY <2>1 DEF EventsMove
<1>7. ASSUME NEW th \in Threads, CustodyStep(th) \/ CustodyFault(th) PROVE EventsMove
  <2>1. custody[th].then \in {"publish", "emit", "end"} 
    BY DEF TaskTypes, ThreadTypes, CustodyType, Thens
  <2>2. CASE Settle(th) \/ OwedFails(th)
    <3>1. CASE custody[th].then = "publish"
      BY <1>1, <2>2, <3>1 DEF Settle, OwedFails
    <3>2. CASE custody[th].then = "emit"
      BY <1>1, <2>2, <3>2 DEF Settle, OwedFails
    <3>3. CASE custody[th].then = "end"
      BY <1>1, <2>2, <3>3 DEF Settle, OwedFails
    <3> QED
      BY <2>1, <3>1, <3>2, <3>3
  <2>3. CASE Publish(th)
    BY <1>1, <2>3 DEF Publish
  <2>4. CASE CustodyStep(th) /\ ~Settle(th) /\ ~Publish(th)
    BY <1>1, <2>4 DEF CustodyStep, Claim, CapturePending, CaptureRunning, CaptureNothing,
       WritePending, KillWorker, WriteRunning, WriteRefused, Miss, RegisterOwed, Respawn
  <2>5. CASE CustodyFault(th) /\ ~OwedFails(th)
    BY <1>1, <2>5 DEF CustodyFault, WritePendingFails, WorkerSurvives, WriteRunningFails, MissFails,
       RespawnFails
  <2> QED
    BY <1>7, <2>2, <2>3, <2>4, <2>5
<1>8. ASSUME NEW th \in Threads, CascadeStep(th) PROVE EventsMove
  BY <1>1, <1>8 DEF CascadeStep, CascadeBegin, CascadeSweep, CascadeMint, CascadeTake,
     CascadePost, CascadeSummary, CascadeClose
<1>9. CASE \E t \in Tasks : DropPendingFails(t)
  BY <1>1, <1>9 DEF DropPendingFails
<1> QED
  BY <1>2, <1>3, <1>4, <1>5, <1>6, <1>7, <1>8, <1>9 DEF Tasks_Next, Fault

---------------------------------------------------------------------------
\* A child is announced once.
AnnouncedOnce ==
    \A m, n \in DOMAIN events :
        /\ events[m].kind = "schedule" /\ events[n].kind = "schedule"
        /\ events[m].task = events[n].task
        => m = n

LEMMA AnnouncedMoves ==
    ASSUME TaskTypes, [Tasks_Next]_taskVars, AnnouncedOnce
    PROVE  /\ AnnouncedOnce'
           /\ \A x \in Tasks : Announced(x)' => Announced(x) \/ Scheduled(x)
           /\ HandleSchedule => \A x \in Tasks : Announced(x)' => x # Head(events).task
<1>1. events \in Seq(EventType) /\ EventsMove
  BY EventsMoves DEF TaskTypes, EventTypes
<1>2. ASSUME HandleSchedule
      PROVE  events' = Tail(events) /\ events # <<>> /\ Head(events).kind = "schedule"
  BY <1>2 DEF HandleSchedule
<1>3. CASE events' = events \/ events' = <<>>
  <2>1. AnnouncedOnce' /\ \A x \in Tasks : Announced(x)' => Announced(x)
    BY <1>3 DEF AnnouncedOnce, Announced
  <2>2. ~HandleSchedule \/ events' = <<>>
    <3>1. HandleSchedule => Len(events') = Len(events) - 1
      BY <1>1, <1>2
    <3> QED
      BY <1>1, <1>3, <3>1
  <2> QED
    BY <1>3, <2>1, <2>2 DEF Announced
<1>4. CASE events' = Tail(events) /\ events # <<>>
  <2>1. \A n \in DOMAIN events' : n + 1 \in DOMAIN events /\ events'[n] = events[n + 1]
    BY <1>1, <1>4
  <2>2. AnnouncedOnce'
    BY <1>1, <1>4, <2>1 DEF AnnouncedOnce
  <2>3. \A x \in Tasks : Announced(x)' => Announced(x)
    BY <2>1 DEF Announced
  <2>4. ASSUME HandleSchedule, NEW x \in Tasks, Announced(x)' PROVE x # Head(events).task
    <3>1. 1 \in DOMAIN events /\ events[1] = Head(events) /\ events[1].kind = "schedule"
      BY <1>1, <1>2, <2>4
    <3>2. PICK n \in DOMAIN events' : events'[n].kind = "schedule" /\ events'[n].task = x
      BY <2>4 DEF Announced
    <3>3. n + 1 \in DOMAIN events /\ events'[n] = events[n + 1] /\ n + 1 # 1
      BY <1>1, <1>4, <2>1
    <3> QED
      BY <3>1, <3>2, <3>3 DEF AnnouncedOnce
  <2> QED
    BY <2>2, <2>3, <2>4
<1>5. ASSUME NEW e, events' = Append(events, e), e.kind = "done"
      PROVE  AnnouncedOnce' /\ (\A x \in Tasks : Announced(x)' => Announced(x)) /\ ~HandleSchedule
  <2>1. /\ DOMAIN events' = 1..(Len(events) + 1) /\ events'[Len(events) + 1] = e
        /\ \A n \in DOMAIN events : n \in 1..Len(events) /\ events'[n] = events[n]
        /\ DOMAIN events = 1..Len(events) /\ Len(events) \in Nat
    BY <1>1, <1>5
  <2>2. \A n \in DOMAIN events' : events'[n].kind = "schedule" => n \in DOMAIN events
    BY <1>5, <2>1
  <2>3. AnnouncedOnce'
    BY <2>1, <2>2 DEF AnnouncedOnce
  <2>4. \A x \in Tasks : Announced(x)' => Announced(x)
    BY <2>1, <2>2 DEF Announced
  <2>5. ~HandleSchedule
    <3>1. HandleSchedule => Len(events') = Len(events) - 1
      BY <1>1, <1>2
    <3> QED
      BY <1>1, <1>5, <3>1
  <2> QED
    BY <2>3, <2>4, <2>5
<1>6. ASSUME NEW w \in Slots, NEW t \in Tasks, ScheduleChild(w, t),
             events' = Append(events, ScheduleEvent(t))
      PROVE  /\ AnnouncedOnce' /\ ~HandleSchedule
             /\ \A x \in Tasks : Announced(x)' => Announced(x) \/ Scheduled(x)
  <2> DEFINE e == ScheduleEvent(t)
  <2>1. /\ DOMAIN events' = 1..(Len(events) + 1) /\ events'[Len(events) + 1] = e
        /\ \A n \in DOMAIN events : n \in 1..Len(events) /\ events'[n] = events[n]
        /\ DOMAIN events = 1..Len(events) /\ Len(events) \in Nat
    BY <1>1, <1>6
  <2>2. e.kind = "schedule" /\ e.task = t /\ t \notin Known
    BY <1>6 DEF ScheduleEvent, ScheduleChild, Known
  <2>3. \A n \in DOMAIN events : events[n].task # t
    <3>1. \A n \in DOMAIN events : events[n] \in EventType
      BY <1>1
    <3> QED
      BY <2>2, <3>1 DEF EventType
  <2> HIDE DEF e
  <2>4. AnnouncedOnce'
    BY <2>1, <2>2, <2>3 DEF AnnouncedOnce
  <2>5. \A x \in Tasks : Announced(x)' => Announced(x) \/ Scheduled(x)
    BY <1>6, <2>1, <2>2 DEF Announced, Scheduled
  <2>6. ~HandleSchedule
    <3>1. HandleSchedule => Len(events') = Len(events) - 1
      BY <1>1, <1>2
    <3> QED
      BY <1>1, <1>6, <3>1
  <2> QED
    BY <2>4, <2>5, <2>6
<1>7. \A t, w : DoneEvent(t, w).kind = "done"
  BY DEF DoneEvent
<1> QED
  BY <1>1, <1>3, <1>4, <1>5, <1>6, <1>7 DEF EventsMove

\* A custody comes to hold a queued task back only as it captures it.
LEMMA WithheldMoves ==
    ASSUME TaskTypes, [Tasks_Next]_taskVars, NEW th \in Threads, NEW x \in Tasks,
           Withheld(th, x)'
    PROVE  Withheld(th, x) \/ (CapturePending(th) /\ x = custody[th].task)
<1>1. custody \in [Threads -> CustodyType] /\ custody[th] \in CustodyType
  BY DEF TaskTypes, ThreadTypes
<1>2. custody'[th].pc = "pwrite" /\ custody'[th].task = x
  BY DEF Withheld
<1>3. ASSUME custody' = custody PROVE Withheld(th, x)
  BY <1>3 DEF Withheld
<1>4. ASSUME NEW o, NEW d, custody' = [custody EXCEPT ![o] = d], d.pc # "pwrite"
      PROVE  Withheld(th, x)
  <2>1. o # th
    BY <1>1, <1>2, <1>4
  <2>2. custody'[th] = custody[th]
    BY <1>1, <1>4, <2>1
  <2> QED
    BY <1>2, <2>2 DEF Withheld
<1>5. ASSUME NEW o \in Threads, NEW at, Goto(o, at), at # "pwrite" PROVE Withheld(th, x)
  <2> DEFINE d == [custody[o] EXCEPT !.pc = at]
  <2>1. custody' = [custody EXCEPT ![o] = d] /\ d.pc = at
    BY <1>1, <1>5 DEF Goto, CustodyType
  <2> HIDE DEF d
  <2> QED
    BY <1>4, <1>5, <2>1
<1>6. NoCustody.pc # "pwrite"
  BY DEF NoCustody
<1>7. ASSUME NEW o, NEW b, Ended(o, b) PROVE Withheld(th, x)
  BY <1>4, <1>6, <1>7 DEF Ended
<1>8. ASSUME NEW o, NEW t, NEW b, Take(o, t, b) PROVE Withheld(th, x)
  <2> DEFINE d == [NoCustody EXCEPT !.pc = "claim", !.task = t, !.deliver = b]
  <2>1. custody' = [custody EXCEPT ![o] = d] /\ d.pc = "claim"
    BY <1>8 DEF Take, NoCustody
  <2> HIDE DEF d
  <2> QED
    BY <1>4, <2>1
<1>9. CASE \/ HandleSchedule \/ HandleDone \/ \E t \in Tasks : DropPending(t) \/ DropPendingFails(t)
           \/ \E t \in Tasks : \E w \in Slots : Assign(w, t)
           \/ ReaperStep \/ ReaperFault
           \/ \E w \in Slots : WorkerStep(w) \/ \E t \in Tasks : ScheduleChild(w, t)
           \/ \E w \in Slots : WorkerDies(w)
           \/ \E t \in Tasks : Timeout(t) \/ RequestByWorker(t)
           \/ UNCHANGED taskVars
  <2>1. custody' = custody
    BY <1>9 DEF HandleSchedule, HandleDone, DropPending, DropPendingFails, Assign, ReaperStep,
       ReapTake, ReapKill, ReapCheck, ReapWrite, ReapRetry, ReapRespawn, ReaperFault, ReapWedged,
       ReapWriteFails, ReapRetryFails, ReapRespawnFails, WorkerStep, StartTask, FinishTask,
       EmitDone, ScheduleChild, WorkerDies, Timeout, RequestByWorker, threadVars, taskVars
  <2> QED
    BY <1>3, <2>1
<1>10. ASSUME NEW w \in Slots, DetectCrash(w) PROVE Withheld(th, x)
  <2> DEFINE d == [NoCustody EXCEPT !.pc = "respawn", !.slot = w]
  <2>1. custody' = [custody EXCEPT ![Main] = d] /\ d.pc = "respawn"
    BY <1>10 DEF DetectCrash, NoCustody
  <2> HIDE DEF d
  <2> QED
    BY <1>4, <2>1
<1>11. CASE Crash
  BY <1>2, <1>6, <1>11 DEF Crash
<1>12. CASE \/ \E t \in Tasks : Watchdog(t)
            \/ \E c \in Clients, t \in Tasks : RequestSingle(c, t) \/ RequestCascade(c, t)
  BY <1>3, <1>8, <1>12 DEF Watchdog, RequestSingle, RequestCascade
<1>13. ASSUME NEW o \in Threads, CascadeStep(o) PROVE Withheld(th, x)
  <2>1. CASE \E t \in Tasks : CascadeTake(o, t)
    BY <1>8, <2>1 DEF CascadeTake
  <2>2. CASE ~\E t \in Tasks : CascadeTake(o, t)
    BY <1>3, <1>13, <2>2 DEF CascadeStep, CascadeBegin, CascadeSweep, CascadeMint, CascadePost,
       CascadeSummary, CascadeClose
  <2> QED
    BY <1>13, <2>1, <2>2
<1>14. ASSUME NEW o \in Threads, CustodyStep(o) \/ CustodyFault(o)
       PROVE  Withheld(th, x) \/ (CapturePending(th) /\ x = custody[th].task)
  <2>0. custody[o] \in CustodyType
    BY <1>1
  <2>1. CASE Claim(o)
    <3>1. ASSUME NEW q, NEW b,
                 custody' = [custody EXCEPT ![o].pc = "capture", ![o].claim = q, ![o].took = b]
          PROVE  Withheld(th, x)
      <4> DEFINE d == [custody[o] EXCEPT !.pc = "capture", !.claim = q, !.took = b]
      <4>1. custody' = [custody EXCEPT ![o] = d] /\ d.pc = "capture"
        BY <1>1, <2>0, <3>1 DEF CustodyType
      <4> HIDE DEF d
      <4> QED
        BY <1>4, <4>1
    <3> QED
      BY <1>5, <1>7, <2>1, <3>1 DEF Claim
  <2>2. CASE CapturePending(o)
    <3> DEFINE d == [custody[o] EXCEPT !.pc = "pwrite"]
    <3>1. custody' = [custody EXCEPT ![o] = d] /\ d.task = custody[o].task
      BY <1>1, <2>0, <2>2 DEF CapturePending, Goto, CustodyType
    <3> HIDE DEF d
    <3>2. CASE o = th
      BY <1>1, <1>2, <2>2, <3>1, <3>2
    <3>3. CASE o # th
      <4>1. custody'[th] = custody[th]
        BY <1>1, <3>1, <3>3
      <4> QED
        BY <1>2, <4>1 DEF Withheld
    <3> QED
      BY <3>2, <3>3
  <2>3. CASE CaptureRunning(o)
    <3>1. ASSUME NEW w,
                 custody' = [custody EXCEPT ![o].pc = "kill", ![o].slot = w,
                                 ![o].inc = slots[w].inc, ![o].settled = IsSettled(custody[o].task),
                                 ![o].then = "publish"]
          PROVE  Withheld(th, x)
      <4> DEFINE d == [custody[o] EXCEPT !.pc = "kill", !.slot = w, !.inc = slots[w].inc,
                          !.settled = IsSettled(custody[o].task), !.then = "publish"]
      <4>1. custody' = [custody EXCEPT ![o] = d]
        BY <1>1, <3>1
      <4>2. d.pc = "kill"
        BY <2>0 DEF CustodyType
      <4> HIDE DEF d
      <4> QED
        BY <1>4, <4>1, <4>2
    <3> QED
      BY <1>7, <2>3, <3>1 DEF CaptureRunning, GivenUp
  <2>4. CASE CaptureNothing(o)
    BY <1>5, <2>4 DEF CaptureNothing
  <2>5. CASE WritePending(o)
    <3>1. PICK n : custody' = [custody EXCEPT ![o].pc = "settle", ![o].then = n]
      BY <2>5 DEF WritePending
    <3> DEFINE d == [custody[o] EXCEPT !.pc = "settle", !.then = n]
    <3>2. custody' = [custody EXCEPT ![o] = d] /\ d.pc = "settle"
      BY <1>1, <2>0, <3>1 DEF CustodyType
    <3> HIDE DEF d
    <3> QED
      BY <1>4, <3>2
  <2>6. CASE KillWorker(o) \/ WriteRunning(o) \/ RegisterOwed(o) \/ Publish(o)
    BY <1>5, <2>6 DEF KillWorker, WriteRunning, RegisterOwed, Publish
  <2>7. CASE Miss(o)
    <3>1. ASSUME NEW n, custody' = [custody EXCEPT ![o].pc = "owed", ![o].deliver = TRUE,
                                                   ![o].then = n]
          PROVE  Withheld(th, x)
      <4> DEFINE d == [custody[o] EXCEPT !.pc = "owed", !.deliver = TRUE, !.then = n]
      <4>1. custody' = [custody EXCEPT ![o] = d] /\ d.pc = "owed"
        BY <1>1, <2>0, <3>1 DEF CustodyType
      <4> HIDE DEF d
      <4> QED
        BY <1>4, <4>1
    <3> QED
      BY <1>5, <1>7, <2>7, <3>1 DEF Miss
  <2>8. CASE Settle(o) \/ OwedFails(o)
    <3>1. custody[o].then \in {"publish", "emit", "end"}
      BY <2>0 DEF CustodyType, Thens
    <3>2. CASE custody[o].then = "publish"
      BY <1>5, <2>8, <3>2 DEF Settle, OwedFails
    <3>3. CASE custody[o].then = "emit"
      BY <1>7, <2>8, <3>3 DEF Settle, OwedFails
    <3>4. CASE custody[o].then = "end"
      BY <1>7, <2>8, <3>4 DEF Settle, OwedFails
    <3> QED
      BY <3>1, <3>2, <3>3, <3>4
  <2>9. CASE \/ WriteRefused(o) \/ Respawn(o) \/ WritePendingFails(o) \/ WorkerSurvives(o)
             \/ WriteRunningFails(o) \/ MissFails(o) \/ RespawnFails(o)
    BY <1>7, <2>9 DEF WriteRefused, Respawn, WritePendingFails, WorkerSurvives, WriteRunningFails,
       MissFails, RespawnFails, GivenUp
  <2> QED
    BY <1>14, <2>1, <2>2, <2>3, <2>4, <2>5, <2>6, <2>7, <2>8, <2>9 DEF CustodyStep, CustodyFault
<1> QED
  BY <1>9, <1>10, <1>11, <1>12, <1>13, <1>14 DEF Tasks_Next, LoopStep, Environment, Fault

---------------------------------------------------------------------------
\* How a task comes to be in line.
LEMMA LineMoves ==
    ASSUME TaskTypes, [Tasks_Next]_taskVars, AnnouncedOnce, NEW x \in Tasks, InLine(x)'
    PROVE  InLine(x) \/ Scheduled(x) \/ Recovered(x) \/ Retried(x)
<1>1. CASE x \in pending'
  <2>1. ASSUME HandleSchedule, x = Head(events).task PROVE Announced(x)
    <3>1. events \in Seq(EventType) /\ events # <<>> /\ Head(events).kind = "schedule"
      BY <2>1 DEF HandleSchedule, TaskTypes, EventTypes
    <3>2. 1 \in DOMAIN events /\ events[1] = Head(events)
      BY <3>1
    <3> QED
      BY <2>1, <3>1, <3>2 DEF Announced
  <2>2. ASSUME NEW th \in Threads, WritePendingFails(th), x = custody[th].task
        PROVE  Withheld(th, x)
    BY <2>2 DEF WritePendingFails, Active, Withheld
  <2> QED
    BY <1>1, <2>1, <2>2, PendingMoves DEF InLine
<1>2. CASE x \in snapshot' /\ x \notin pending'
  BY <1>2, SnapshotMoves DEF InLine
<1>3. CASE Announced(x)'
  BY <1>3, AnnouncedMoves DEF InLine
<1>4. ASSUME NEW th \in Threads, Withheld(th, x)' PROVE InLine(x)
  <2>1. CapturePending(th) /\ x = custody[th].task => x \in pending
    BY DEF CapturePending
  <2> QED
    BY <1>4, <2>1, WithheldMoves DEF InLine
<1> QED
  BY <1>1, <1>2, <1>3, <1>4 DEF InLine

\* A task with no result row is nowhere.
Nowhere(x) ==
    /\ ~InLine(x) /\ running[x] = NoSlot /\ \A w \in Slots : ~Touches(w, x)
    /\ \A n \in DOMAIN jobs : jobs[n].task # x

LEMMA NewIsNowhere ==
    ASSUME TaskTypes, NEW x \in Tasks \ Known
    PROVE  Nowhere(x) /\ x # reaper.task /\ ~Recovered(x) /\ ~Retried(x)
<1>1. x # NoTask
  OBVIOUS
<1>2. x \notin pending /\ x \notin snapshot /\ running[x] = NoSlot
  BY DEF TaskTypes, QueueTypes
<1>3. ~Announced(x)
  <2>1. \A n \in DOMAIN events : events[n] \in EventType
    BY DEF TaskTypes, EventTypes
  <2> QED
    BY <2>1 DEF Announced, EventType
<1>4. ASSUME NEW th \in Threads PROVE ~Withheld(th, x)
  BY <1>1 DEF Withheld, TaskTypes, ThreadTypes, CustodyType
<1>5. ASSUME NEW w \in Slots PROVE ~Touches(w, x) /\ slots[w].busy # x
  <2>1. slots[w] \in SlotType
    BY DEF TaskTypes, SlotTypes
  <2>2. /\ slots[w].busy # x /\ slots[w].job # x
        /\ \A n \in DOMAIN slots[w].inq : slots[w].inq[n] # x
    BY <1>1, <2>1 DEF SlotType
  <2> QED
    BY <2>2 DEF Touches, Touching, Has
<1>6. \A n \in DOMAIN jobs : jobs[n].task # x
  <2>1. \A n \in DOMAIN jobs : jobs[n] \in Waiting
    BY DEF TaskTypes, ReapTypes
  <2> QED
    BY <2>1 DEF Waiting, Job
<1>7. x # reaper.task
  BY <1>1 DEF TaskTypes, ReapTypes, JobType
<1>8. ~Recovered(x) /\ ~Retried(x)
  BY <1>5 DEF Recovered, Retried, TaskTypes, ReapTypes
<1> QED
  BY <1>2, <1>3, <1>4, <1>5, <1>6, <1>7, <1>8 DEF Nowhere, InLine

LEMMA ScheduledIsNew ==
    ASSUME NEW x \in Tasks, Scheduled(x) PROVE x \notin Known /\ ~IsRetry(x)
BY DEF Scheduled, ScheduleChild, Known

\* How a task comes to have a result row.
LEMMA NewRows ==
    ASSUME TaskTypes, [Tasks_Next]_taskVars, NEW x \in Tasks,
           result[x] = "none", result'[x] # "none"
    PROVE  \/ Scheduled(x)
           \/ /\ ReapWrite /\ reaper.pc = "write" /\ reaper.task \in Known
              /\ x = Retry[reaper.task] /\ x # reaper.task
<1>1. Newcomer(x) /\ x \notin Known
  BY ResultMoves DEF Kept, Known
<1> QED
  BY <1>1 DEF Newcomer, Scheduled
---------------------------------------------------------------------------
\* What a step does to the reaper's queue.
Appended(t) ==
    /\ Timeout(t) /\ reaper' = reaper
    /\ \E j : /\ jobs' = Append(jobs, j) /\ j.pc = "kill" /\ j.task = t /\ j.slot = running[t]
              /\ j.inc = slots[running[t]].inc /\ (j.retry => attempt[t] = 1)
MovedTo(pc) == reaper' = [reaper EXCEPT !.pc = pc] /\ jobs' = jobs
ReapMove ==
    \/ UNCHANGED reapVars
    \/ reaper'.pc \in {"idle", "respawn"} /\ (jobs' = jobs \/ jobs' = <<>>)
    \/ \E t \in Tasks : Appended(t)
    \/ ReapTake
    \/ ReapKill \/ (ReapCheck /\ MovedTo("write"))
    \/ ReapWrite /\ reaper.retry /\ MovedTo("retry")

LEMMA ReapsMove ==
    ASSUME TaskTypes, [Tasks_Next]_taskVars PROVE ReapMove /\ (ReapRetry => reaper'.pc = "respawn")
<1>0. reaper \in JobType
  BY DEF TaskTypes, ReapTypes
<1>1. NoJob.pc = "idle"
  BY DEF NoJob
<1>2. ASSUME NEW pc \in {"respawn"}, reaper' = [reaper EXCEPT !.pc = pc] PROVE reaper'.pc = "respawn"
  BY <1>0, <1>2 DEF JobType
<1>13. ReapRetry => reaper'.pc = "respawn"
  BY <1>2 DEF ReapRetry
<1> SUFFICES ReapMove
  BY <1>13
<1>3. ASSUME NEW t \in Tasks, Timeout(t) PROVE Appended(t)
  <2>1. PICK deadline \in BOOLEAN :
           jobs' = Append(jobs, [NoJob EXCEPT !.pc = "kill", !.task = t,
                              !.slot = running[t], !.inc = slots[running[t]].inc,
                              !.retry = attempt[t] = 1 /\ ~deadline
                                        /\ ~\E x \in Descendants(t) : OnQueue(x)])
    BY <1>3 DEF Timeout
  <2> DEFINE j == [NoJob EXCEPT !.pc = "kill", !.task = t,
                              !.slot = running[t], !.inc = slots[running[t]].inc,
                              !.retry = attempt[t] = 1 /\ ~deadline
                                        /\ ~\E x \in Descendants(t) : OnQueue(x)]
  <2>2. /\ j.pc = "kill" /\ j.task = t /\ j.slot = running[t]
        /\ j.inc = slots[running[t]].inc
    BY DEF NoJob
  <2>3. j.retry => attempt[t] = 1
    BY Zenon DEF NoJob
  <2>4. reaper' = reaper
    BY <1>3 DEF Timeout
  <2>5. jobs' = Append(jobs, j)
    BY <2>1
  <2> HIDE DEF j
  <2> QED
    BY <1>3, <2>2, <2>3, <2>4, <2>5 DEF Appended
<1>4. CASE \/ LoopStep \/ \E t \in Tasks : DropPendingFails(t)
           \/ \E w \in Slots : WorkerStep(w) \/ \E t \in Tasks : ScheduleChild(w, t)
  BY <1>4 DEF LoopStep, HandleSchedule, HandleDone, DropPending, DropPendingFails, Assign,
     DetectCrash, WorkerStep, StartTask, FinishTask, EmitDone, ScheduleChild, ReapMove, reapVars
<1>5. CASE ReapTake \/ ReapKill
  BY <1>5 DEF ReapMove, ReapTake, ReapKill
<1>6. CASE ReapCheck
  BY <1>2, <1>6 DEF ReapCheck, ReapMove, MovedTo, reapVars
<1>7. CASE ReapWrite
  BY <1>2, <1>7 DEF ReapWrite, ReapMove, MovedTo, reapVars
<1>14. CASE ReapWriteFails
  <2>1. reaper' = [reaper EXCEPT !.pc = "respawn", !.retry = FALSE] /\ jobs' = jobs
    BY <1>14 DEF ReapWriteFails
  <2>2. reaper'.pc = "respawn"
    BY <1>0, <2>1 DEF JobType
  <2> QED
    BY <2>1, <2>2 DEF ReapMove
<1>15. CASE ReapRetryFails
  BY <1>2, <1>15 DEF ReapRetryFails, ReapMove
<1>8. CASE ReapRetry \/ ReapRespawn \/ ReaperFault
  BY <1>1, <1>2, <1>8, <1>14, <1>15 DEF ReapRetry, ReapRespawn, ReaperFault, ReapWedged,
     ReapRespawnFails, ReapMove, reapVars
<1>9. CASE (\E t \in Tasks : Timeout(t)) \/ Crash
  BY <1>1, <1>3, <1>9 DEF Crash, ReapMove
<1>10. CASE \/ \E w \in Slots : WorkerDies(w)
            \/ \E t \in Tasks : RequestByWorker(t) \/ Watchdog(t)
            \/ \E c \in Clients, t \in Tasks : RequestSingle(c, t) \/ RequestCascade(c, t)
            \/ UNCHANGED taskVars
  BY <1>10 DEF WorkerDies, RequestByWorker, RequestSingle, RequestCascade, Watchdog, taskVars,
     ReapMove, reapVars
<1>11. ASSUME NEW th \in Threads, CustodyStep(th) \/ CustodyFault(th) PROVE ReapMove
  <2>1. CASE CustodyStep(th)
    BY <2>1 DEF CustodyStep, Claim, CapturePending, CaptureRunning, CaptureNothing,
       WritePending, KillWorker, WriteRunning, WriteRefused, Miss, RegisterOwed, Settle, Publish,
       Respawn, ReapMove, reapVars
  <2>2. CASE CustodyFault(th)
    BY <2>2 DEF CustodyFault, WritePendingFails, WorkerSurvives, WriteRunningFails,
       MissFails, OwedFails, RespawnFails, ReapMove, reapVars
  <2> QED
    BY <1>11, <2>1, <2>2
<1>12. ASSUME NEW th \in Threads, CascadeStep(th) PROVE ReapMove
  BY <1>12 DEF CascadeStep, CascadeBegin, CascadeSweep, CascadeMint, CascadeTake,
     CascadePost, CascadeSummary, CascadeClose, ReapMove, reapVars
<1> QED
  BY <1>4, <1>5, <1>6, <1>7, <1>8, <1>9, <1>10, <1>11, <1>12
  DEF Tasks_Next, ReaperStep, Environment, Fault
---------------------------------------------------------------------------
\* A slot that comes to touch a task is assigned it.
LEMMA TouchMoves ==
    ASSUME TaskTypes, [Tasks_Next]_taskVars, NEW w \in Slots, NEW x \in Tasks, Touches(w, x)'
    PROVE  \/ Touches(w, x) /\ slots'[w].inc = slots[w].inc /\ (~Alive(w) => ~Alive(w)')
           \/ Assign(w, x)
<1>1. CASE Fades(slots[w], slots'[w])
  BY <1>1 DEF Touches, Fades, Alive
<1>2. ASSUME NEW t \in Tasks, Assign(w, t), t # x
      PROVE  Touches(w, x) /\ slots'[w].inc = slots[w].inc /\ (~Alive(w) => ~Alive(w)')
  <2>1. slots \in [Slots -> SlotType] /\ slots[w] \in SlotType
    BY DEF TaskTypes, SlotTypes
  <2> DEFINE r == slots[w]
             s == [r EXCEPT !.busy = t, !.inq = Append(r.inq, t)]
  <2>2. slots'[w] = s
    BY <1>2, <2>1 DEF Assign
  <2>3. /\ s.job = r.job /\ s.busy = t /\ s.inq = Append(r.inq, t) /\ s.inc = r.inc
        /\ s.proc = r.proc /\ r.inq \in Seq(Known)
    BY <2>1 DEF SlotType
  <2> HIDE DEF r, s
  <2>4. \A n \in DOMAIN s.inq : s.inq[n] = x => n \in DOMAIN r.inq /\ r.inq[n] = x
    BY <1>2, <2>3
  <2>5. Touching(s, x) => Touching(r, x)
    BY <1>2, <2>3, <2>4 DEF Touching, Has
  <2> QED
    BY <2>2, <2>3, <2>5 DEF Touches, Alive, r
<1> QED
  BY <1>1, <1>2, WorkFades

LEMMA ExecutesTouch ==
    ASSUME NEW w \in Slots, NEW x \in Tasks, Executes(w, x)
    PROVE  Touches(w, x) /\ Has(slots[w], x) /\ Alive(w)
BY DEF Executes, Given, Touches, Touching, Has

\* A process that comes to execute a task is assigned it.
LEMMA ExecMoves ==
    ASSUME TaskTypes, [Tasks_Next]_taskVars, NEW w \in Slots, NEW x \in Tasks, Executes(w, x)'
    PROVE  Executes(w, x) \/ Assign(w, x)
<1>1. Touching(slots'[w], x) /\ Has(slots'[w], x) /\ slots'[w].proc # "dead"
  BY DEF Executes, Given, Touching, Has, Alive
<1>2. CASE Fades(slots[w], slots'[w])
  <2>1. Has(slots[w], x) /\ slots[w].proc # "dead"
    BY <1>1, <1>2 DEF Fades
  <2> QED
    BY <2>1 DEF Executes, Given, Has, Alive
<1>3. ASSUME NEW t \in Tasks, Assign(w, t), t # x PROVE Executes(w, x)
  <2>1. slots \in [Slots -> SlotType] /\ slots[w] \in SlotType
    BY DEF TaskTypes, SlotTypes
  <2> DEFINE r == slots[w]
             s == [r EXCEPT !.busy = t, !.inq = Append(r.inq, t)]
  <2>2. slots'[w] = s
    BY <1>3, <2>1 DEF Assign
  <2>3. /\ s.job = r.job /\ s.inq = Append(r.inq, t)
        /\ s.proc = r.proc /\ r.inq \in Seq(Known)
    BY <2>1 DEF SlotType
  <2> HIDE DEF r, s
  <2>4. \A n \in DOMAIN s.inq : s.inq[n] = x => n \in DOMAIN r.inq /\ r.inq[n] = x
    BY <1>3, <2>3
  <2>5. Has(s, x) => Has(r, x)
    BY <2>3, <2>4 DEF Has
  <2> QED
    BY <1>1, <2>2, <2>3, <2>5 DEF Executes, Given, Has, Alive, r
<1> QED
  BY <1>2, <1>3, WorkFades

---------------------------------------------------------------------------
(* The invariant.  A task is in line at most once, and not while it runs;   *)
(* on its first attempt one slot touches it, and none while it is in line.  *)
Single ==
    \A t \in Tasks :
        /\ t \in pending => ~Announced(t) /\ \A th \in Threads : ~Withheld(th, t)
        /\ Announced(t) => \A th \in Threads : ~Withheld(th, t)
        /\ \A th, o \in Threads : Withheld(th, t) /\ Withheld(o, t) => th = o
OneProcess  == \A t \in Tasks : \A v, w \in Slots : Executes(v, t) /\ Executes(w, t) => v = w
LineNotLive == \A t \in Tasks : \A w \in Slots : Executes(w, t) => ~InLine(t)
FirstInLine ==
    \A t \in Tasks : attempt[t] = 1 /\ InLine(t) =>
        running[t] = NoSlot /\ \A w \in Slots : ~Touches(w, t)
FirstAttempt ==
    \A t \in Tasks : attempt[t] = 1 =>
        /\ \A v, w \in Slots : Touches(v, t) /\ Touches(w, t) => v = w
        /\ \A v \in Slots : running[t] # NoSlot /\ Touches(v, t) => running[t] = v

(* A job that will retry has its task to itself: it is in no line, and no   *)
(* process but the one to be killed can touch it.                           *)
Vow(t, s, i, killed) ==
    /\ attempt[t] = 1 /\ ~InLine(t) /\ running[t] = NoSlot
    /\ \A v \in Slots : Touches(v, t) => v = s /\ slots[v].inc = i /\ (killed => ~Alive(v))
Retrying == reaper.retry /\ reaper.pc \in {"kill", "check", "write", "retry"}
RetryOnly == reaper.pc = "retry" => reaper.retry
Pledges ==
    /\ \A n \in DOMAIN jobs : jobs[n].retry => Vow(jobs[n].task, jobs[n].slot, jobs[n].inc, FALSE)
    /\ Retrying => Vow(reaper.task, reaper.slot, reaper.inc, reaper.pc # "kill")
OnePledge ==
    /\ \A m, n \in DOMAIN jobs :
          jobs[m].retry /\ jobs[n].retry /\ jobs[m].task = jobs[n].task => m = n
    /\ \A n \in DOMAIN jobs : Retrying /\ jobs[n].retry => jobs[n].task # reaper.task

(* The id of a retry is nowhere until it is queued; from when it has a row  *)
(* the task it repeats is over.                                             *)
RetryReady ==
    reaper.pc = "retry" /\ Retry[reaper.task] # reaper.task => Nowhere(Retry[reaper.task])
Over(t) ==
    /\ ~InLine(t) /\ running[t] = NoSlot /\ \A w \in Slots : ~Executes(w, t)
    /\ \A n \in DOMAIN jobs : jobs[n].retry => jobs[n].task # t
    /\ Retrying /\ reaper.task = t => reaper.pc = "retry"
GaveWay ==
    \A t \in Tasks : Retry[t] # t /\ Retry[t] \in Known => t \in Known /\ Over(t)

ExecInv ==
    /\ AnnouncedOnce /\ Single /\ OneProcess /\ LineNotLive /\ FirstInLine /\ FirstAttempt
    /\ RetryOnly /\ Pledges /\ OnePledge /\ RetryReady /\ GaveWay

---------------------------------------------------------------------------
LEMMA AssignedLeaves ==
    ASSUME TaskTypes, AnnouncedOnce, Single, NEW w \in Slots, NEW x \in Tasks, Assign(w, x)
    PROVE  /\ InLine(x) /\ x \in Known /\ ~InLine(x)' /\ running'[x] = w /\ attempt' = attempt
           /\ \A v \in Slots : Assign(v, x) => v = w
<1>1. /\ x \in pending /\ pending' = pending \ {x} /\ snapshot' = pending'
      /\ running' = [running EXCEPT ![x] = w] /\ attempt' = attempt
      /\ events' = events /\ custody' = custody
  BY DEF Assign, threadVars
<1>2. ~Announced(x)' /\ \A th \in Threads : ~Withheld(th, x)'
  BY <1>1 DEF Single, Announced, Withheld
<1>3. running \in [Tasks -> Slots \cup {NoSlot}] /\ pending \subseteq Known
  BY DEF TaskTypes, QueueTypes
<1>4. \A v \in Slots : Assign(v, x) => v = w
  <2> SUFFICES ASSUME NEW v \in Slots, Assign(v, x) PROVE v = w
    OBVIOUS
  <2>1. running' = [running EXCEPT ![x] = v]
    BY DEF Assign
  <2> QED
    BY <1>1, <1>3, <2>1
<1> QED
  BY <1>1, <1>2, <1>3, <1>4 DEF InLine

\* The steps that put a task in line find it elsewhere, and not alive.
LEMMA RetriedReady ==
    ASSUME TaskInv, ExecInv, NEW x \in Tasks, Retried(x)
    PROVE  /\ x \in Known /\ ~InLine(x) /\ running[x] = NoSlot
           /\ \A w \in Slots : ~Executes(w, x)
           /\ \A n \in DOMAIN jobs : jobs[n].retry => jobs[n].task # x
           /\ Retry[x] = x
<1>1. reaper.pc = "retry" /\ x = Retry[reaper.task] /\ Retrying
  BY DEF Retried, ExecInv, RetryOnly, Retrying
<1>2. reaper.task \in Tasks /\ x \in Known
  BY <1>1 DEF TaskInv, TaskTypes, ReapTypes, Job, Known
<1>3. Retry[x] = x
  BY <1>1, <1>2, RetryAssumption
<1>4. CASE x = reaper.task
  <2>1. Vow(x, reaper.slot, reaper.inc, TRUE)
    BY <1>1, <1>4 DEF ExecInv, Pledges
  <2> QED
    BY <1>1, <1>2, <1>3, <1>4, <2>1, ExecutesTouch DEF Vow, ExecInv, OnePledge
<1>5. CASE x # reaper.task
  <2>1. Nowhere(x)
    BY <1>1, <1>5 DEF ExecInv, RetryReady
  <2> QED
    BY <1>2, <1>3, <2>1, ExecutesTouch DEF Nowhere
<1> QED
  BY <1>4, <1>5

LEMMA RecoveredDead ==
    ASSUME TaskInv, ExecInv, NEW x \in Tasks, Recovered(x)
    PROVE  /\ x \in Known /\ ~InLine(x) /\ running[x] # NoSlot
           /\ \A w \in Slots : ~Executes(w, x)
<1>1. PICK w \in Slots : ~Alive(w) /\ slots[w].busy = x /\ running[x] # NoSlot /\ attempt[x] = 1
  BY DEF Recovered
<1>2. Touches(w, x)
  BY <1>1 DEF Touches, Touching
<1>3. ~InLine(x)
  BY <1>1, <1>2 DEF ExecInv, FirstInLine
<1>4. \A v \in Slots : Touches(v, x) => v = w
  BY <1>1, <1>2 DEF ExecInv, FirstAttempt
<1>5. \A v \in Slots : ~Executes(v, x)
  BY <1>1, <1>4, ExecutesTouch
<1>6. x \in Known
  BY <1>1 DEF TaskInv, TaskTypes, QueueTypes
<1> QED
  BY <1>1, <1>3, <1>5, <1>6

LEMMA SingleNext ==
    ASSUME TaskInv, ExecInv, [Tasks_Next]_taskVars PROVE Single'
<1>0. TaskTypes /\ Single /\ AnnouncedOnce
  BY DEF TaskInv, ExecInv
<1> SUFFICES ASSUME NEW x \in Tasks
             PROVE  /\ x \in pending' => ~Announced(x)' /\ \A th \in Threads : ~Withheld(th, x)'
                    /\ Announced(x)' => \A th \in Threads : ~Withheld(th, x)'
                    /\ \A th, o \in Threads : Withheld(th, x)' /\ Withheld(o, x)' => th = o
  BY DEF Single
<1>1. x \in Known => ~Scheduled(x)
  BY ScheduledIsNew
<1>2. x \in pending \/ InLine(x) => x \in Known
  BY <1>0, NewIsNowhere DEF Nowhere, InLine
<1>3. Announced(x)' => Announced(x) \/ Scheduled(x)
  BY <1>0, AnnouncedMoves
<1>4. \A th \in Threads : Withheld(th, x)' => Withheld(th, x) \/ CapturePending(th)
  BY <1>0, WithheldMoves
<1>5. \A th \in Threads : CapturePending(th) /\ Withheld(th, x)' => x \in pending /\ x \notin pending'
  <2> SUFFICES ASSUME NEW th \in Threads, CapturePending(th), Withheld(th, x)'
               PROVE  x \in pending /\ x \notin pending'
    OBVIOUS
  <2>1. ~Withheld(th, x)
    BY DEF CapturePending, Active, Withheld
  <2>2. x = custody[th].task
    BY <1>0, <2>1, WithheldMoves
  <2> QED
    BY <2>2 DEF CapturePending
<1>6. ASSUME x \in pending' PROVE ~Announced(x)' /\ \A th \in Threads : ~Withheld(th, x)'
  <2>0. \A th \in Threads : Withheld(th, x)' => Withheld(th, x)
    BY <1>4, <1>5, <1>6
  <2>1. CASE x \in pending
    BY <1>0, <1>1, <1>2, <1>3, <2>0, <2>1 DEF Single
  <2>2. CASE Recovered(x)
    BY <1>1, <1>3, <2>0, <2>2, RecoveredDead DEF InLine
  <2>3. CASE Retried(x)
    BY <1>1, <1>3, <2>0, <2>3, RetriedReady DEF InLine
  <2>4. CASE HandleSchedule /\ x = Head(events).task
    <3>1. ~Announced(x)'
      BY <1>0, <2>4, AnnouncedMoves
    <3>2. events \in Seq(EventType) /\ events # <<>> /\ Head(events).kind = "schedule"
      BY <1>0, <2>4 DEF HandleSchedule, TaskTypes, EventTypes
    <3>3. 1 \in DOMAIN events /\ events[1] = Head(events)
      BY <3>2
    <3>4. Announced(x)
      BY <2>4, <3>2, <3>3 DEF Announced
    <3> QED
      BY <1>0, <2>0, <3>1, <3>4 DEF Single
  <2>5. ASSUME NEW th \in Threads, WritePendingFails(th), x = custody[th].task
        PROVE  ~Announced(x)' /\ \A o \in Threads : ~Withheld(o, x)'
    <3>1. Withheld(th, x) /\ InLine(x)
      BY <2>5 DEF WritePendingFails, Active, Withheld, InLine
    <3>2. ~Announced(x)'
      BY <1>0, <1>1, <1>2, <1>3, <3>1 DEF Single
    <3>3. custody' = [custody EXCEPT ![th] = NoCustody] /\ NoCustody.pc = "idle"
      BY <2>5 DEF WritePendingFails, GivenUp, Ended, NoCustody
    <3>4. ~Withheld(th, x)'
      BY <1>0, <3>3 DEF Withheld, TaskTypes, ThreadTypes
    <3>5. \A o \in Threads : ~Withheld(o, x)'
      BY <1>0, <2>0, <3>1, <3>4 DEF Single
    <3> QED
      BY <3>2, <3>5
  <2>6. CASE Crash
    <3>1. events' = <<>> /\ \A th \in Threads : custody'[th].pc = "idle"
      BY <2>6 DEF Crash, NoCustody
    <3> QED
      BY <3>1 DEF Announced, Withheld
  <2> QED
    BY <1>0, <1>6, <2>1, <2>2, <2>3, <2>4, <2>5, <2>6, PendingMoves
<1>7. ASSUME Announced(x)', NEW th \in Threads, Withheld(th, x)' PROVE FALSE
  <2>1. Withheld(th, x) \/ x \in pending
    BY <1>4, <1>5, <1>7
  <2>2. x \in Known
    BY <1>2, <2>1 DEF InLine
  <2> QED
    BY <1>0, <1>1, <1>3, <1>7, <2>1, <2>2 DEF Single
<1>8. ASSUME NEW th \in Threads, NEW o \in Threads, Withheld(th, x)', Withheld(o, x)', th # o
      PROVE  FALSE
  <2>1. ASSUME NEW p \in Threads, NEW q \in Threads, p # q, CapturePending(p),
               Withheld(p, x)', Withheld(q, x)'
        PROVE  FALSE
    <3>1. custody'[q] = custody[q]
      BY <2>1, <1>0 DEF CapturePending, Goto, TaskTypes, ThreadTypes
    <3>2. Withheld(q, x) /\ x \in pending
      BY <1>5, <2>1, <3>1 DEF Withheld
    <3> QED
      BY <1>0, <3>2 DEF Single
  <2>2. Withheld(th, x) /\ Withheld(o, x)
    BY <1>4, <1>8, <2>1
  <2> QED
    BY <1>0, <1>8, <2>2 DEF Single
<1> QED
  BY <1>6, <1>7, <1>8

LEMMA FirstNext ==
    ASSUME TaskInv, ExecInv, [Tasks_Next]_taskVars PROVE FirstInLine' /\ FirstAttempt'
<1>0. TaskTypes /\ AnnouncedOnce /\ Single /\ FirstInLine /\ FirstAttempt
      /\ attempt \in [Tasks -> {1, 2}]
  BY DEF TaskInv, ExecInv, TaskTypes, QueueTypes
<1> SUFFICES ASSUME NEW x \in Tasks, attempt'[x] = 1
             PROVE  /\ InLine(x)' => running'[x] = NoSlot /\ \A w \in Slots : ~Touches(w, x)'
                    /\ \A v, w \in Slots : Touches(v, x)' /\ Touches(w, x)' => v = w
                    /\ \A v \in Slots : running'[x] # NoSlot /\ Touches(v, x)' => running'[x] = v
  BY DEF FirstInLine, FirstAttempt
<1>1. attempt[x] = 1 /\ ~Recovered(x) /\ ~Retried(x)
  BY <1>0, AttemptMoves DEF Recovered, Retried
<1>2. \A w \in Slots : Touches(w, x)' => Touches(w, x) \/ Assign(w, x)
  BY <1>0, TouchMoves
<1>3. running'[x] \in {running[x], NoSlot} \/ \E w \in Slots : Assign(w, x)
  BY <1>0, RowsMove
<1>4. ASSUME InLine(x)' PROVE running'[x] = NoSlot /\ \A w \in Slots : ~Touches(w, x)'
  <2>1. \A w \in Slots : ~Assign(w, x)
    BY <1>0, <1>4, AssignedLeaves
  <2>2. running[x] = NoSlot /\ \A w \in Slots : ~Touches(w, x)
    <3>1. CASE InLine(x)
      BY <1>0, <1>1, <3>1 DEF FirstInLine
    <3>2. CASE Scheduled(x)
      BY <1>0, <3>2, ScheduledIsNew, NewIsNowhere DEF Nowhere
    <3> QED
      BY <1>0, <1>1, <1>4, <3>1, <3>2, LineMoves
  <2> QED
    BY <1>2, <1>3, <2>1, <2>2
<1>5. ASSUME NEW w \in Slots, Assign(w, x)
      PROVE  running'[x] = w /\ \A v \in Slots : Touches(v, x)' => v = w
  <2>1. InLine(x) /\ running'[x] = w /\ \A v \in Slots : Assign(v, x) => v = w
    BY <1>0, <1>5, AssignedLeaves
  <2>2. \A v \in Slots : ~Touches(v, x)
    BY <1>0, <1>1, <2>1 DEF FirstInLine
  <2> QED
    BY <1>2, <2>1, <2>2
<1>6. ASSUME \A w \in Slots : ~Assign(w, x)
      PROVE  /\ \A v, w \in Slots : Touches(v, x)' /\ Touches(w, x)' => v = w
             /\ \A v \in Slots : running'[x] # NoSlot /\ Touches(v, x)' => running'[x] = v
  BY <1>0, <1>1, <1>2, <1>3, <1>6 DEF FirstAttempt
<1> QED
  BY <1>4, <1>5, <1>6

LEMMA ProcessNext ==
    ASSUME TaskInv, ExecInv, [Tasks_Next]_taskVars PROVE OneProcess' /\ LineNotLive'
<1>0. TaskTypes /\ AnnouncedOnce /\ Single /\ OneProcess /\ LineNotLive
  BY DEF TaskInv, ExecInv
<1>1. ASSUME NEW x \in Tasks, NEW w \in Slots, Executes(w, x)'
      PROVE  ~InLine(x)' /\ (Executes(w, x) \/ Assign(w, x))
  <2>1. Executes(w, x) \/ Assign(w, x)
    BY <1>0, <1>1, ExecMoves
  <2>2. CASE Assign(w, x)
    BY <1>0, <2>2, AssignedLeaves
  <2>3. CASE Executes(w, x)
    <3>1. ~InLine(x) /\ ~Recovered(x) /\ ~Retried(x)
      BY <1>0, <2>3, RecoveredDead, RetriedReady DEF LineNotLive
    <3>2. ~Scheduled(x)
      BY <1>0, <2>3, ScheduledIsNew, NewIsNowhere, ExecutesTouch DEF Nowhere
    <3> QED
      BY <1>0, <2>1, <3>1, <3>2, LineMoves
  <2> QED
    BY <2>1, <2>2, <2>3
<1>2. ASSUME NEW x \in Tasks, NEW v \in Slots, NEW w \in Slots, Executes(v, x)', Executes(w, x)'
      PROVE  v = w
  <2>1. (Executes(v, x) \/ Assign(v, x)) /\ (Executes(w, x) \/ Assign(w, x))
    BY <1>1, <1>2
  <2>2. \A u \in Slots : Assign(u, x) => \A s \in Slots : ~Executes(s, x) /\ (Assign(s, x) => s = u)
    BY <1>0, AssignedLeaves DEF LineNotLive
  <2> QED
    BY <1>0, <2>1, <2>2 DEF OneProcess
<1> QED
  BY <1>1, <1>2 DEF OneProcess, LineNotLive

---------------------------------------------------------------------------
\* A task that is in no line and has no row stays so, but for a step that queues it.
LEMMA StaysOut ==
    ASSUME TaskInv, ExecInv, [Tasks_Next]_taskVars, NEW x \in Tasks,
           ~InLine(x), running[x] = NoSlot, ~Scheduled(x), ~Retried(x)
    PROVE  /\ ~InLine(x)' /\ running'[x] = NoSlot
           /\ \A w \in Slots : Touches(w, x)' =>
                 Touches(w, x) /\ slots'[w].inc = slots[w].inc /\ (~Alive(w) => ~Alive(w)')
           /\ \A w \in Slots : Executes(w, x)' => Executes(w, x)
<1>0. TaskTypes /\ AnnouncedOnce /\ Single
  BY DEF TaskInv, ExecInv
<1>1. ~InLine(x)'
  BY <1>0, LineMoves, RecoveredDead
<1>2. \A w \in Slots : ~Assign(w, x)
  BY <1>0, AssignedLeaves
<1> QED
  BY <1>0, <1>1, <1>2, TouchMoves, ExecMoves, RowsMove

LEMMA VowKept ==
    ASSUME TaskInv, ExecInv, [Tasks_Next]_taskVars, NEW x \in Known, NEW s, NEW i, NEW k,
           Vow(x, s, i, k), ~Retried(x)
    PROVE  Vow(x, s, i, k)'
<1>0. x \in Tasks /\ TaskTypes /\ attempt[x] = 1
  BY DEF Known, TaskInv, Vow
<1>1. ~Scheduled(x) /\ ~Recovered(x)
  BY <1>0, ScheduledIsNew, RecoveredDead DEF Vow
<1>2. attempt'[x] = 1
  BY <1>0, <1>1, AttemptMoves
<1> QED
  BY <1>0, <1>1, <1>2, StaysOut DEF Vow

\* Between two steps of the reaper a job is one the timeout handed over.
LEMMA JobsStep ==
    ASSUME TaskTypes, [Tasks_Next]_taskVars, NEW n \in DOMAIN jobs'
    PROVE  \/ n \in DOMAIN jobs /\ jobs'[n] = jobs[n] /\ ~ReapTake
           \/ ReapTake /\ n + 1 \in DOMAIN jobs /\ jobs'[n] = jobs[n + 1]
           \/ \E t \in Tasks : Appended(t) /\ n = Len(jobs) + 1 /\ jobs'[n].task = t
<1>1. jobs \in Seq(Waiting)
  BY DEF TaskTypes, ReapTypes
<1>2. ReapMove
  BY ReapsMove
<1>3. CASE ReapTake
  BY <1>1, <1>3 DEF ReapTake
<1>4. ASSUME NEW t \in Tasks, Appended(t)
      PROVE  \/ n \in DOMAIN jobs /\ jobs'[n] = jobs[n]
             \/ n = Len(jobs) + 1 /\ jobs'[n].task = t
  <2>1. PICK j : jobs' = Append(jobs, j) /\ j.task = t
    BY <1>4 DEF Appended
  <2> QED
    BY <1>1, <2>1
<1>5. CASE jobs' = jobs \/ jobs' = <<>>
  BY <1>1, <1>3, <1>5
<1> QED
  BY <1>2, <1>3, <1>4, <1>5 DEF ReapMove, reapVars, MovedTo, ReapKill

\* How the reaper comes to hold a job that retries.
LEMMA RetryingStep ==
    ASSUME TaskTypes, RetryOnly, [Tasks_Next]_taskVars, Retrying'
    PROVE  \/ Retrying /\ reaper' = reaper /\ ~ReapRetry
           \/ /\ ReapTake /\ jobs # <<>> /\ reaper' = jobs[1] /\ jobs[1].retry /\ reaper'.pc = "kill"
           \/ /\ Retrying /\ jobs' = jobs /\ reaper'.task = reaper.task
              /\ reaper'.slot = reaper.slot /\ reaper'.inc = reaper.inc
              /\ \/ ReapKill /\ reaper'.pc = "check"
                 \/ ReapCheck /\ reaper'.pc = "write"
                 \/ ReapWrite /\ reaper'.pc = "retry"
<1>0. reaper \in JobType /\ jobs \in Seq(Waiting)
  BY DEF TaskTypes, ReapTypes
<1>1. ReapMove /\ ~ReapRetry
  BY ReapsMove DEF Retrying
<1>2. CASE UNCHANGED reapVars \/ \E t \in Tasks : Appended(t)
  BY <1>1, <1>2 DEF reapVars, Appended, Retrying
<1>3. CASE ReapTake
  <2>1. reaper' = jobs[1] /\ jobs # <<>> /\ jobs[1] \in Waiting
    BY <1>0, <1>3 DEF ReapTake
  <2> QED
    BY <1>3, <2>1 DEF Waiting, Retrying
<1>4. CASE ReapKill
  BY <1>0, <1>4 DEF ReapKill, Retrying, JobType
<1>5. CASE ReapCheck /\ MovedTo("write")
  BY <1>0, <1>5 DEF ReapCheck, MovedTo, Retrying, JobType
<1>6. CASE ReapWrite /\ reaper.retry /\ MovedTo("retry")
  BY <1>0, <1>6 DEF ReapWrite, MovedTo, Retrying, JobType
<1> QED
  BY <1>1, <1>2, <1>3, <1>4, <1>5, <1>6 DEF ReapMove, Retrying

\* A job handed over by the timeout of a task keeps its promise from the start.
LEMMA TimeoutVow ==
    ASSUME TaskInv, ExecInv, [Tasks_Next]_taskVars, NEW t \in Tasks, Timeout(t), attempt[t] = 1,
           NEW s, NEW i, s = running[t], i = slots[s].inc
    PROVE  Vow(t, s, i, FALSE)'
<1>0. TaskTypes /\ running[t] # NoSlot /\ t \in Known /\ running \in [Tasks -> Slots \cup {NoSlot}]
  BY DEF TaskInv, TaskTypes, QueueTypes, Timeout
<1>1. /\ pending' = pending /\ snapshot' = pending /\ events' = events /\ custody' = custody
      /\ running' = [running EXCEPT ![t] = NoSlot] /\ attempt' = attempt
  BY DEF Timeout, threadVars
<1>2. ~InLine(t)
  BY <1>0 DEF ExecInv, FirstInLine
<1>3. ~InLine(t)' /\ running'[t] = NoSlot /\ attempt'[t] = 1
  BY <1>0, <1>1, <1>2 DEF InLine, Announced, Withheld
<1>4. ASSUME NEW v \in Slots, Touches(v, t)' PROVE v = s /\ slots'[v].inc = i
  <2>1. ~Assign(v, t)
    BY <1>2 DEF Assign, InLine
  <2>2. Touches(v, t) /\ slots'[v].inc = slots[v].inc
    BY <1>0, <1>4, <2>1, TouchMoves
  <2>3. v = s
    BY <1>0, <2>2 DEF ExecInv, FirstAttempt
  <2> QED
    BY <2>2, <2>3
<1> QED
  BY <1>3, <1>4 DEF Vow

\* The task of a job has a result row.
LEMMA JobTasks ==
    ASSUME TaskInv
    PROVE  /\ \A n \in DOMAIN jobs : jobs[n].task \in Known /\ jobs[n].pc = "kill"
           /\ reaper.pc # "idle" => reaper.task \in Known
<1>1. \A n \in DOMAIN jobs : jobs[n] \in Waiting
  BY DEF TaskInv, TaskTypes, ReapTypes
<1> QED
  BY <1>1 DEF Waiting, Job, TaskInv, TaskTypes, ReapTypes

LEMMA PledgesNext ==
    ASSUME TaskInv, ExecInv, [Tasks_Next]_taskVars PROVE Pledges'
<1>0. TaskTypes /\ RetryOnly /\ Pledges
  BY DEF TaskInv, ExecInv
<1>1. ASSUME NEW n \in DOMAIN jobs, jobs[n].retry
      PROVE  Vow(jobs[n].task, jobs[n].slot, jobs[n].inc, FALSE)
             /\ \A t, s, i : t = jobs[n].task /\ s = jobs[n].slot /\ i = jobs[n].inc
                             => Vow(t, s, i, FALSE)'
  <2>1. jobs[n].task \in Known /\ jobs[n].task \in Tasks
    BY JobTasks, KnownAreTasks
  <2>2. ~Retried(jobs[n].task)
    BY <1>1, <2>1, RetriedReady
  <2>3. Vow(jobs[n].task, jobs[n].slot, jobs[n].inc, FALSE)
    BY <1>0, <1>1 DEF Pledges
  <2>4. ASSUME NEW t, NEW s, NEW i, t = jobs[n].task, s = jobs[n].slot, i = jobs[n].inc
        PROVE  Vow(t, s, i, FALSE)'
    <3>1. t \in Known /\ Vow(t, s, i, FALSE) /\ ~Retried(t)
      BY <2>1, <2>2, <2>3, <2>4
    <3> QED
      BY <3>1, VowKept
  <2> QED
    BY <2>3, <2>4
<1>2. ASSUME NEW n \in DOMAIN jobs', jobs'[n].retry
      PROVE  Vow(jobs[n].task, jobs[n].slot, jobs[n].inc, FALSE)'
  <2>2. CASE \E m \in DOMAIN jobs : jobs'[n] = jobs[m]
    BY <1>1, <1>2, <2>2
  <2>3. ASSUME NEW t \in Tasks, Appended(t), n = Len(jobs) + 1
        PROVE  Vow(jobs[n].task, jobs[n].slot, jobs[n].inc, FALSE)'
    <3>1. PICK k : /\ jobs' = Append(jobs, k) /\ k.task = t /\ k.slot = running[t]
                   /\ k.inc = slots[running[t]].inc /\ (k.retry => attempt[t] = 1)
      BY <2>3 DEF Appended
    <3>2. jobs'[n] = k
      BY <1>0, <2>3, <3>1 DEF TaskTypes, ReapTypes
    <3>3. Timeout(t) /\ attempt[t] = 1
      BY <1>2, <2>3, <3>1, <3>2 DEF Appended
    <3>4. \A s, i : s = running[t] /\ i = slots[s].inc => Vow(t, s, i, FALSE)'
      BY <3>3, TimeoutVow
    <3> QED
      BY <3>1, <3>2, <3>4
  <2> QED
    BY <1>0, <2>2, <2>3, JobsStep
<1>3. ASSUME Retrying' PROVE Vow(reaper.task, reaper.slot, reaper.inc, reaper.pc # "kill")'
  <2>1. CASE ReapTake /\ jobs # <<>> /\ reaper' = jobs[1] /\ jobs[1].retry /\ reaper'.pc = "kill"
    <3>1. 1 \in DOMAIN jobs
      BY <1>0, <2>1 DEF TaskTypes, ReapTypes
    <3>2. \A t, s, i : t = reaper'.task /\ s = reaper'.slot /\ i = reaper'.inc => Vow(t, s, i, FALSE)'
      BY <1>1, <2>1, <3>1
    <3> QED
      BY <2>1, <3>2
  <2>2. ASSUME Retrying, reaper'.task = reaper.task, reaper'.slot = reaper.slot,
               reaper'.inc = reaper.inc, ~ReapRetry, NEW k \in BOOLEAN, k => reaper.pc # "kill"
        PROVE  \A t, s, i : t = reaper'.task /\ s = reaper'.slot /\ i = reaper'.inc
                            => Vow(t, s, i, k) /\ Vow(t, s, i, k)'
    <3>1. reaper.task \in Known
      BY <2>2, JobTasks DEF Retrying
    <3>2. Vow(reaper.task, reaper.slot, reaper.inc, k)
      BY <1>0, <2>2 DEF Pledges, Vow
    <3>3. ~Retried(reaper.task)
      BY <2>2 DEF Retried
    <3>4. ASSUME NEW t, NEW s, NEW i, t = reaper.task, s = reaper.slot, i = reaper.inc
          PROVE  Vow(t, s, i, k) /\ Vow(t, s, i, k)'
      <4>1. t \in Known /\ Vow(t, s, i, k) /\ ~Retried(t)
        BY <3>1, <3>2, <3>3, <3>4
      <4> QED
        BY <4>1, VowKept
    <3> QED
      BY <2>2, <3>4
  <2>3. CASE Retrying /\ reaper' = reaper /\ ~ReapRetry
    <3>1. PICK k \in BOOLEAN : k = (reaper.pc # "kill")
      OBVIOUS
    <3>2. \A t, s, i : t = reaper'.task /\ s = reaper'.slot /\ i = reaper'.inc => Vow(t, s, i, k)'
      BY <2>2, <2>3, <3>1
    <3>3. k = (reaper'.pc # "kill")
      BY <2>3, <3>1
    <3> QED
      BY <3>2, <3>3
  <2>4. ASSUME Retrying, reaper'.task = reaper.task, reaper'.slot = reaper.slot,
               reaper'.inc = reaper.inc, ReapKill, reaper'.pc = "check"
        PROVE  Vow(reaper.task, reaper.slot, reaper.inc, reaper.pc # "kill")'
    <3>1. ~ReapRetry /\ reaper.pc = "kill"
      BY <2>4 DEF ReapKill, ReapRetry
    <3>2. \A t, s, i : t = reaper'.task /\ s = reaper'.slot /\ i = reaper'.inc
                       => Vow(t, s, i, FALSE) /\ Vow(t, s, i, FALSE)'
      BY <2>2, <2>4, <3>1
    <3>3. Vow(reaper'.task, reaper'.slot, reaper'.inc, FALSE)
      BY <3>2
    <3>4. ASSUME NEW v \in Slots, Touches(v, reaper.task)' PROVE ~Alive(v)'
      <4>0. reaper'.task \in Tasks
        BY <2>4, JobTasks, KnownAreTasks DEF Retrying
      <4>1. ~InLine(reaper'.task)
        BY <3>3 DEF Vow
      <4>2. PICK t \in Tasks : t = reaper'.task
        BY <4>0
      <4>3. Touches(v, t)' /\ ~Assign(v, t)
        BY <3>4, <4>1, <4>2 DEF Assign, InLine
      <4>4. Touches(v, t)
        BY <1>0, <4>3, TouchMoves
      <4>5. v = reaper.slot /\ slots[v].inc = reaper.inc
        BY <2>4, <3>3, <4>2, <4>4 DEF Vow
      <4>6. slots' = [slots EXCEPT ![v].proc = "dead"]
        BY <2>4, <4>5 DEF ReapKill, Killed
      <4> QED
        BY <1>0, <4>6 DEF Alive, TaskTypes, SlotTypes, SlotType
    <3> QED
      BY <3>2, <3>4 DEF Vow
  <2>5. ASSUME Retrying, reaper'.task = reaper.task, reaper'.slot = reaper.slot,
               reaper'.inc = reaper.inc, ReapCheck \/ ReapWrite
        PROVE  Vow(reaper.task, reaper.slot, reaper.inc, reaper.pc # "kill")'
    <3>1. ~ReapRetry /\ reaper.pc # "kill"
      BY <2>5 DEF ReapCheck, ReapWrite, ReapRetry
    <3>2. \A t, s, i : t = reaper'.task /\ s = reaper'.slot /\ i = reaper'.inc => Vow(t, s, i, TRUE)'
      BY <2>2, <2>5, <3>1
    <3> QED
      BY <3>2 DEF Vow
  <2> QED
    BY <1>0, <1>3, <2>1, <2>3, <2>4, <2>5, RetryingStep
<1> QED
  BY <1>2, <1>3 DEF Pledges

LEMMA OnePledgeNext ==
    ASSUME TaskInv, ExecInv, [Tasks_Next]_taskVars PROVE OnePledge'
<1>0. TaskTypes /\ RetryOnly /\ OnePledge /\ jobs \in Seq(Waiting)
  BY DEF TaskInv, ExecInv, TaskTypes, ReapTypes
<1>1. ASSUME NEW t \in Tasks, Appended(t)
      PROVE  /\ \A n \in DOMAIN jobs : jobs[n].retry => jobs[n].task # t
             /\ Retrying => reaper.task # t
  <2>1. running[t] # NoSlot
    BY <1>1 DEF Appended, Timeout
  <2> QED
    BY <2>1 DEF ExecInv, Pledges, Vow
<1>2. ASSUME NEW m \in DOMAIN jobs', NEW n \in DOMAIN jobs', jobs'[m].retry, jobs'[n].retry,
             jobs'[m].task = jobs'[n].task
      PROVE  m = n
  <2>1. CASE ReapTake
    <3>1. /\ m + 1 \in DOMAIN jobs /\ jobs'[m] = jobs[m + 1]
          /\ n + 1 \in DOMAIN jobs /\ jobs'[n] = jobs[n + 1]
      BY <1>0, <2>1 DEF ReapTake
    <3>2. m + 1 = n + 1
      BY <1>0, <1>2, <3>1 DEF OnePledge
    <3>3. m \in Nat /\ n \in Nat
      <4>1. jobs' \in Seq(Waiting)
        BY <1>0, <2>1 DEF ReapTake
      <4> QED
        BY <4>1
    <3> QED
      BY <3>2, <3>3
  <2>2. CASE ~ReapTake
    <3>1. \/ m \in DOMAIN jobs /\ jobs'[m] = jobs[m]
          \/ \E t \in Tasks : Appended(t) /\ m = Len(jobs) + 1 /\ jobs'[m].task = t
      BY <1>0, <2>2, JobsStep
    <3>2. \/ n \in DOMAIN jobs /\ jobs'[n] = jobs[n]
          \/ \E t \in Tasks : Appended(t) /\ n = Len(jobs) + 1 /\ jobs'[n].task = t
      BY <1>0, <2>2, JobsStep
    <3> QED
      BY <1>0, <1>1, <1>2, <3>1, <3>2 DEF OnePledge
  <2> QED
    BY <2>1, <2>2
<1>3. ASSUME Retrying', NEW n \in DOMAIN jobs', jobs'[n].retry PROVE jobs'[n].task # reaper'.task
  <2>1. CASE ReapTake /\ jobs # <<>> /\ reaper' = jobs[1] /\ jobs[1].retry
    <3>1. 1 \in DOMAIN jobs /\ n + 1 \in DOMAIN jobs /\ jobs'[n] = jobs[n + 1] /\ n + 1 # 1
      <4>1. jobs' = Tail(jobs)
        BY <2>1 DEF ReapTake
      <4> QED
        BY <1>0, <2>1, <4>1
    <3> QED
      BY <1>0, <1>3, <2>1, <3>1 DEF OnePledge
  <2>2. CASE Retrying /\ reaper'.task = reaper.task /\ ~ReapTake
    <3>1. \/ n \in DOMAIN jobs /\ jobs'[n] = jobs[n]
          \/ \E t \in Tasks : Appended(t) /\ n = Len(jobs) + 1 /\ jobs'[n].task = t
      BY <1>0, <2>2, JobsStep
    <3> QED
      BY <1>0, <1>1, <1>3, <2>2, <3>1 DEF OnePledge
  <2>3. ReapTake => reaper.pc = "idle"
    BY DEF ReapTake
  <2> QED
    BY <1>0, <1>3, <2>1, <2>2, <2>3, RetryingStep DEF Retrying
<1> QED
  BY <1>2, <1>3 DEF OnePledge

---------------------------------------------------------------------------
LEMMA RetryOnlyNext ==
    ASSUME TaskInv, ExecInv, [Tasks_Next]_taskVars PROVE RetryOnly'
<1>0. reaper \in JobType /\ jobs \in Seq(Waiting) /\ RetryOnly
  BY DEF TaskInv, TaskTypes, ReapTypes, ExecInv
<1>1. TaskTypes
  BY DEF TaskInv
<1>2. ReapMove
  BY <1>1, ReapsMove
<1>3. CASE ReapTake
  <2>1. Head(jobs) \in Waiting /\ reaper' = Head(jobs)
    BY <1>0, <1>3 DEF ReapTake
  <2> QED
    BY <2>1 DEF RetryOnly, Waiting
<1>4. CASE ReapKill \/ (ReapCheck /\ MovedTo("write"))
  BY <1>0, <1>4 DEF RetryOnly, ReapKill, MovedTo, JobType
<1>5. CASE ReapWrite /\ reaper.retry /\ MovedTo("retry")
  BY <1>0, <1>5 DEF RetryOnly, MovedTo, JobType
<1> QED
  BY <1>0, <1>2, <1>3, <1>4, <1>5 DEF ReapMove, reapVars, Appended, RetryOnly

\* Of a task that is nowhere a step leaves no trace, but for one that makes its row.
LEMMA StaysNowhere ==
    ASSUME TaskInv, ExecInv, [Tasks_Next]_taskVars, NEW x \in Tasks, Nowhere(x),
           ~Scheduled(x), ~Retried(x)
    PROVE  Nowhere(x)'
<1>0. TaskTypes
  BY DEF TaskInv
<1>1. ~InLine(x)' /\ running'[x] = NoSlot /\ \A w \in Slots : ~Touches(w, x)'
  BY StaysOut DEF Nowhere
<1>2. ASSUME NEW n \in DOMAIN jobs' PROVE jobs'[n].task # x
  <2>1. \A t \in Tasks : Appended(t) => t # x
    BY DEF Appended, Timeout, Nowhere
  <2> QED
    BY <1>0, <2>1, JobsStep DEF Nowhere
<1> QED
  BY <1>1, <1>2 DEF Nowhere

LEMMA RetryReadyNext ==
    ASSUME TaskInv, ExecInv, [Tasks_Next]_taskVars PROVE RetryReady'
<1>0. TaskTypes /\ RetryOnly /\ RetryOnly'
  BY RetryOnlyNext DEF TaskInv, ExecInv
<1> SUFFICES ASSUME reaper'.pc = "retry", Retry[reaper'.task] # reaper'.task,
                    NEW r, r = Retry[reaper'.task]
             PROVE  Nowhere(r)'
  BY DEF RetryReady
<1>1. Retrying'
  BY <1>0 DEF Retrying, RetryOnly
<1>2. CASE Retrying /\ reaper' = reaper /\ ~ReapRetry
  <2>1. Nowhere(r) /\ r \in Known
    BY <1>2 DEF ExecInv, RetryReady, TaskInv, TaskTypes, ReapTypes
  <2>2. r \in Tasks /\ ~Scheduled(r) /\ ~Retried(r)
    BY <1>2, <2>1, KnownAreTasks, ScheduledIsNew DEF Retried
  <2> QED
    BY <2>1, <2>2, StaysNowhere
<1>3. CASE Retrying /\ reaper'.task = reaper.task /\ ReapWrite
  <2>1. reaper.pc = "write" /\ reaper.task \in Known /\ reaper.task \in Tasks
    BY <1>3, JobTasks, KnownAreTasks DEF ReapWrite
  <2>2. r \in Tasks /\ r = Retry[reaper.task] /\ r # reaper.task
    BY <1>3, <2>1
  <2>3. r \notin Known
    BY <1>3, <2>1, <2>2 DEF ExecInv, GaveWay, Over
  <2>4. IsRetry(r)
    BY <2>1, <2>2 DEF IsRetry
  <2>5. Nowhere(r) /\ ~Scheduled(r) /\ ~Retried(r)
    BY <1>0, <2>2, <2>3, <2>4, NewIsNowhere, ScheduledIsNew
  <2> QED
    BY <2>2, <2>5, StaysNowhere
<1> QED
  BY <1>0, <1>1, <1>2, <1>3, RetryingStep

LEMMA GaveWayNext ==
    ASSUME TaskInv, ExecInv, [Tasks_Next]_taskVars PROVE GaveWay'
<1>0. TaskTypes /\ RetryOnly /\ ResultTypes /\ Known \subseteq Known'
  <2>1. TaskTypes /\ ResultTypes
    BY DEF TaskInv, TaskTypes
  <2> QED
    BY <2>1, ResultMoves, KnownGrow DEF ExecInv
<1> SUFFICES ASSUME NEW t \in Tasks, Retry[t] # t, Retry[t] \in Known'
             PROVE  t \in Known' /\ Over(t)'
  BY DEF GaveWay
<1>1. ~Retried(t)
  BY RetriedReady
<1>2. CASE Retry[t] \in Known
  <2>1. t \in Known /\ Over(t)
    BY <1>2 DEF ExecInv, GaveWay
  <2>2. /\ ~InLine(t)' /\ running'[t] = NoSlot /\ \A w \in Slots : ~Executes(w, t)'
    BY <1>1, <2>1, StaysOut, ScheduledIsNew DEF Over
  <2>3. ASSUME NEW n \in DOMAIN jobs', jobs'[n].retry PROVE jobs'[n].task # t
    <3>1. \A x \in Tasks : Appended(x) => x # t
      BY <2>1 DEF Appended, Timeout, Over
    <3> QED
      BY <1>0, <2>1, <2>3, <3>1, JobsStep DEF Over
  <2>4. ASSUME Retrying', reaper'.task = t PROVE reaper'.pc = "retry"
    <3>1. CASE ReapTake /\ jobs # <<>> /\ reaper' = jobs[1] /\ jobs[1].retry
      <4>1. 1 \in DOMAIN jobs
        BY <1>0, <3>1 DEF TaskTypes, ReapTypes
      <4> QED
        BY <2>1, <2>4, <3>1, <4>1 DEF Over
    <3>2. CASE Retrying /\ reaper'.task = reaper.task /\ (ReapKill \/ ReapCheck \/ ReapWrite)
      BY <2>1, <2>4, <3>2 DEF Over, ReapKill, ReapCheck, ReapWrite
    <3>3. CASE Retrying /\ reaper' = reaper
      BY <2>1, <2>4, <3>3 DEF Over
    <3> QED
      BY <1>0, <2>4, <3>1, <3>2, <3>3, RetryingStep
  <2> QED
    BY <1>0, <2>1, <2>2, <2>3, <2>4 DEF Over
<1>3. CASE Retry[t] \notin Known
  <2> DEFINE r == Retry[t]
  <2>1. r \in Tasks /\ result[r] = "none" /\ result'[r] # "none" /\ IsRetry(r)
    BY <1>3 DEF Known, IsRetry
  <2>2. /\ ReapWrite /\ reaper.pc = "write" /\ reaper.task \in Known
        /\ r = Retry[reaper.task] /\ r # reaper.task
    <3> HIDE DEF r
    <3> QED
      BY <1>0, <2>1, NewRows, ScheduledIsNew
  <2>3. reaper.task = t
    BY <2>2, KnownAreTasks, RetryAssumption
  <2>4. ReapMove /\ ReapTypes
    BY <1>0, ReapsMove DEF TaskTypes
  <2>5. reaper.retry /\ MovedTo("retry")
    <3>1. ASSUME ~reaper.retry PROVE FALSE
      <4>1. result' = [result EXCEPT ![t] = Written(@, "failed")]
        BY <2>2, <2>3, <3>1 DEF ReapWrite
      <4>2. result'[r] = result[r]
        BY <1>0, <2>1, <4>1 DEF ResultTypes
      <4> QED
        BY <2>1, <4>2
    <3>2. reaper' = [reaper EXCEPT !.pc = "retry"] /\ jobs' = jobs
      BY <2>2, <3>1 DEF ReapWrite
    <3> QED
      BY <3>1, <3>2 DEF MovedTo
  <2>6. Retrying /\ jobs' = jobs
    BY <2>2, <2>5 DEF Retrying, MovedTo
  <2>7. Vow(t, reaper.slot, reaper.inc, TRUE) /\ t \in Known
    BY <2>2, <2>3, <2>6 DEF ExecInv, Pledges
  <2>8. ~InLine(t)' /\ running'[t] = NoSlot /\ \A w \in Slots : ~Executes(w, t)'
    BY <1>1, <2>7, StaysOut, ScheduledIsNew, ExecutesTouch DEF Vow
  <2>9. \A n \in DOMAIN jobs' : jobs'[n].retry => jobs'[n].task # t
    BY <2>3, <2>6 DEF ExecInv, OnePledge
  <2>10. reaper'.pc = "retry"
    BY <2>4, <2>5 DEF MovedTo, ReapTypes, JobType
  <2> QED
    BY <1>0, <2>7, <2>8, <2>9, <2>10 DEF Over
<1> QED
  BY <1>2, <1>3

---------------------------------------------------------------------------
LEMMA ExecStep ==
    ASSUME TaskInv, ExecInv, [Tasks_Next]_taskVars PROVE ExecInv'
<1>1. AnnouncedOnce'
  BY AnnouncedMoves DEF TaskInv, ExecInv
<1> QED
  BY <1>1, SingleNext, FirstNext, ProcessNext, RetryOnlyNext, PledgesNext, OnePledgeNext,
     RetryReadyNext, GaveWayNext DEF ExecInv

LEMMA ExecStart == TaskState_Init => ExecInv
<1> SUFFICES ASSUME TaskState_Init PROVE ExecInv
  OBVIOUS
<1>1. /\ running = [t \in Tasks |-> NoSlot] /\ slots = [w \in Slots |-> FreshSlot]
      /\ events = <<>> /\ jobs = <<>> /\ reaper = NoJob
      /\ custody = [th \in Threads |-> NoCustody]
      /\ \A t \in Tasks : IsRetry(t) => t \notin Known
  BY DEF TaskState_Init, Known
<1>2. /\ FreshSlot.busy = NoTask /\ FreshSlot.job = NoTask /\ FreshSlot.inq = <<>>
      /\ NoCustody.pc = "idle" /\ NoJob.pc = "idle"
  BY DEF FreshSlot, NoCustody, NoJob
<1>3. \A x \in Tasks : ~Announced(x) /\ \A th \in Threads : ~Withheld(th, x)
  BY <1>1, <1>2 DEF Announced, Withheld
<1>4. \A x \in Tasks : \A w \in Slots : ~Touches(w, x) /\ ~Executes(w, x)
  <2>1. \A x \in Tasks : x # NoTask
    OBVIOUS
  <2> QED
    BY <1>1, <1>2, <2>1 DEF Touches, Touching, Has, Executes, Given
<1>5. \A t \in Tasks : Retry[t] # t => Retry[t] \notin Known
  <2> SUFFICES ASSUME NEW t \in Tasks, Retry[t] # t PROVE Retry[t] \notin Known
    OBVIOUS
  <2>1. Retry[t] \in Tasks /\ IsRetry(Retry[t])
    BY DEF IsRetry
  <2> QED
    BY <1>1, <2>1
<1>6. AnnouncedOnce /\ Single /\ OneProcess /\ LineNotLive /\ FirstInLine /\ FirstAttempt
  BY <1>1, <1>3, <1>4 DEF AnnouncedOnce, Single, OneProcess, LineNotLive, FirstInLine, FirstAttempt
<1>7. RetryOnly /\ Pledges /\ OnePledge /\ RetryReady
  BY <1>1, <1>2 DEF RetryOnly, Pledges, OnePledge, RetryReady, Retrying
<1> QED
  BY <1>5, <1>6, <1>7 DEF ExecInv, GaveWay

\* What the invariant says of a task and of its retry.
LEMMA OneExecution ==
    ASSUME TaskInv, ExecInv PROVE NoTwoExecutions
<1> SUFFICES ASSUME NEW t \in Tasks
             PROVE  Cardinality({w \in Slots : Executes(w, t) \/ Executes(w, Retry[t])}) <= 1
  BY DEF NoTwoExecutions
<1> DEFINE S == {w \in Slots : Executes(w, t) \/ Executes(w, Retry[t])}
           r == Retry[t]
<1>1. r \in Tasks
  OBVIOUS
<1>2. ASSUME NEW v \in S, NEW w \in S PROVE v = w
  <2>1. CASE r = t
    BY <1>2, <2>1 DEF ExecInv, OneProcess
  <2>2. CASE r # t /\ r \in Known
    <3>1. \A u \in Slots : ~Executes(u, t)
      BY <2>2 DEF ExecInv, GaveWay, Over
    <3> QED
      BY <1>1, <1>2, <3>1 DEF ExecInv, OneProcess
  <2>3. CASE r \notin Known
    <3>1. \A u \in Slots : ~Executes(u, r)
      BY <1>1, <2>3, NewIsNowhere, ExecutesTouch DEF TaskInv, Nowhere
    <3> QED
      BY <1>2, <3>1 DEF ExecInv, OneProcess
  <2> QED
    BY <2>1, <2>2, <2>3
<1>3. CASE S = {}
  BY <1>3, FS_EmptySet
<1>4. CASE S # {}
  <2>1. PICK w \in S : TRUE
    BY <1>4
  <2>2. S = {w}
    BY <1>2, <2>1
  <2>3. Cardinality(S) = 1
    BY <2>2, FS_Singleton
  <2> QED
    BY <2>3
<1> QED
  BY <1>3, <1>4

(* No task is executed by two processes at once, under its own id or under  *)
(* the id of its timeout retry, for any number of tasks, slots, threads,    *)
(* deaths, timeouts, faults and crashes.                                    *)
THEOREM OneExecutionAtATime == Tasks_Spec => []NoTwoExecutions
<1>1. TaskState_Init => ExecInv
  BY ExecStart
<1>2. TaskInv /\ ExecInv /\ [Tasks_Next]_taskVars => ExecInv'
  BY ExecStep
<1>3. TaskInv /\ ExecInv => NoTwoExecutions
  BY OneExecution
<1> QED
  BY <1>1, <1>2, <1>3, SupervisionInvariant, PTL DEF Tasks_Spec

---------------------------------------------------------------------------
(* Nothing is lost.  First, what a step does to the process of a slot and   *)
(* to the work it holds.                                                    *)
Plain(r, s) == s.job = r.job /\ s.inq = r.inq /\ s.proc \in {r.proc, "dead"}
Renewed(w) ==
    /\ slots'[w] = Respawned(w)
    /\ \/ reaper.pc = "respawn" /\ reaper.slot = w
       \/ \E th \in Threads : custody[th].pc = "respawn" /\ custody[th].slot = w
WorkMove(w) ==
    \/ Plain(slots[w], slots'[w]) \/ Renewed(w)
    \/ WorkerStep(w) \/ \E t \in Tasks : Assign(w, t)

LEMMA WorkMoves ==
    ASSUME TaskTypes, [Tasks_Next]_taskVars, ~Crash, NEW w \in Slots PROVE WorkMove(w)
<1>1. slots \in [Slots -> SlotType] /\ slots[w] \in SlotType
  BY DEF TaskTypes, SlotTypes
<1>2. ASSUME slots'[w] = slots[w] PROVE Plain(slots[w], slots'[w])
  BY <1>2 DEF Plain
<1>3. ASSUME NEW v, NEW s, slots' = [slots EXCEPT ![v] = s], v \in Slots => Plain(slots[v], s)
      PROVE  Plain(slots[w], slots'[w])
  BY <1>1, <1>2, <1>3
<1>4. ASSUME NEW v \in Slots
      PROVE  /\ \A b : Plain(slots[v], [slots[v] EXCEPT !.reaping = b])
             /\ Plain(slots[v], [slots[v] EXCEPT !.proc = "dead"])
             /\ \A t : Plain(slots[v], [slots[v] EXCEPT !.reaping = TRUE, !.busy = t])
             /\ Plain(slots[v], [slots[v] EXCEPT !.busy = NoTask])
  <2>1. slots[v] \in SlotType
    BY <1>1
  <2> QED
    BY <2>1 DEF SlotType, Plain
<1>5. ASSUME NEW v, NEW n, slots' = Killed(v, n) \/ slots' = Unreaped(v, n)
      PROVE  Plain(slots[w], slots'[w])
  <2>1. CASE slots' = slots
    BY <1>2, <2>1
  <2>2. CASE slots' = [slots EXCEPT ![v] = [slots[v] EXCEPT !.proc = "dead"]]
    BY <1>3, <1>4, <2>2
  <2>3. CASE slots' = [slots EXCEPT ![v] = [slots[v] EXCEPT !.reaping = FALSE]]
    BY <1>3, <1>4, <2>3
  <2> QED
    BY <1>1, <1>5, <2>1, <2>2, <2>3 DEF Killed, Unreaped
<1>6. ASSUME NEW v \in Slots, WorkerStep(v) \/ \E t \in Tasks : Assign(v, t) PROVE WorkMove(w)
  <2>1. CASE v = w
    BY <1>6, <2>1 DEF WorkMove
  <2>2. CASE v # w
    <3>1. slots'[w] = slots[w]
      BY <1>1, <1>6, <2>2 DEF WorkerStep, StartTask, FinishTask, EmitDone, Assign
    <3> QED
      BY <1>2, <3>1 DEF WorkMove
  <2> QED
    BY <2>1, <2>2
<1>7. CASE HandleDone
  <2>1. slots'[w] \in {slots[w], [slots[w] EXCEPT !.busy = NoTask]}
    BY <1>1, <1>7 DEF HandleDone
  <2> QED
    BY <1>2, <1>4, <2>1 DEF WorkMove
<1>9. ASSUME NEW v \in Slots, DetectCrash(v) \/ WorkerDies(v) PROVE Plain(slots[w], slots'[w])
  <2>1. \/ slots' = [slots EXCEPT ![v] = [slots[v] EXCEPT !.reaping = TRUE]]
        \/ slots' = [slots EXCEPT ![v] = [slots[v] EXCEPT !.proc = "dead"]]
    BY <1>1, <1>9 DEF DetectCrash, WorkerDies
  <2> QED
    BY <1>3, <1>4, <2>1
<1>10. ASSUME NEW t \in Tasks, Timeout(t) PROVE Plain(slots[w], slots'[w])
  <2> DEFINE v == running[t]
             b == IF slots[v].busy = t THEN NoTask ELSE slots[v].busy
  <2>1. slots' = [slots EXCEPT ![v] = [slots[v] EXCEPT !.reaping = TRUE, !.busy = b]]
    BY <1>1, <1>10 DEF Timeout
  <2> HIDE DEF b
  <2>3. v \in Slots => Plain(slots[v], [slots[v] EXCEPT !.reaping = TRUE, !.busy = b])
    BY <1>4
  <2> HIDE DEF v
  <2> QED
    BY <1>3, <2>1, <2>3
<1>8. ASSUME NEW v, slots' = [slots EXCEPT ![v] = Respawned(v)],
             \/ reaper.pc = "respawn" /\ reaper.slot = v
             \/ \E th \in Threads : custody[th].pc = "respawn" /\ custody[th].slot = v
      PROVE  WorkMove(w)
  <2>1. CASE v = w
    BY <1>1, <1>8, <2>1 DEF WorkMove, Renewed
  <2>2. CASE v # w
    BY <1>1, <1>2, <1>8, <2>2 DEF WorkMove
  <2> QED
    BY <2>1, <2>2
<1>11. CASE ReaperStep \/ ReaperFault
  <2> DEFINE v == reaper.slot
  <2>1. \/ slots' = slots \/ slots' = Killed(v, reaper.inc)
        \/ slots' = [slots EXCEPT ![v] = Respawned(v)] /\ reaper.pc = "respawn"
        \/ slots' = [slots EXCEPT ![v] = [slots[v] EXCEPT !.reaping = FALSE]]
    BY <1>1, <1>11 DEF ReaperStep, ReapTake, ReapKill, ReapCheck, ReapWrite, ReapRetry, ReapRespawn,
       ReaperFault, ReapWedged, ReapWriteFails, ReapRetryFails, ReapRespawnFails
  <2>2. v \in Slots => Plain(slots[v], [slots[v] EXCEPT !.reaping = FALSE])
    BY <1>4
  <2>3. CASE slots' = [slots EXCEPT ![v] = Respawned(v)] /\ reaper.pc = "respawn"
    BY <1>8, <2>3
  <2> HIDE DEF v
  <2> QED
    BY <1>2, <1>3, <1>5, <2>1, <2>2, <2>3 DEF WorkMove
<1>12. ASSUME NEW th \in Threads, CustodyStep(th) \/ CustodyFault(th) PROVE WorkMove(w)
  <2> DEFINE v == custody[th].slot
  <2>1. CASE \/ Claim(th) \/ CapturePending(th) \/ CaptureNothing(th) \/ WritePending(th)
             \/ WritePendingFails(th) \/ WriteRunning(th) \/ Miss(th) \/ MissFails(th)
             \/ RegisterOwed(th) \/ OwedFails(th) \/ Settle(th) \/ Publish(th)
    BY <1>2, <2>1 DEF Claim, CapturePending, CaptureNothing, WritePending, WritePendingFails,
       WriteRunning, Miss, MissFails, RegisterOwed, OwedFails, Settle, Publish, WorkMove
  <2>2. CASE CaptureRunning(th)
    <3>1. \/ slots' = slots
          \/ \E u \in Slots : slots' = [slots EXCEPT ![u] = [slots[u] EXCEPT !.reaping = TRUE]]
      BY <1>1, <2>2 DEF CaptureRunning, Holders
    <3>2. ASSUME NEW u \in Slots, slots' = [slots EXCEPT ![u] = [slots[u] EXCEPT !.reaping = TRUE]]
          PROVE  Plain(slots[w], slots'[w])
      BY <1>3, <1>4, <3>2
    <3> QED
      BY <1>2, <3>1, <3>2 DEF WorkMove
  <2>3. CASE KillWorker(th) \/ WorkerSurvives(th) \/ WriteRunningFails(th) \/ WriteRefused(th)
    BY <1>5, <2>3 DEF KillWorker, WorkerSurvives, WriteRunningFails, WriteRefused, WorkMove
  <2>4. CASE Respawn(th)
    BY <1>8, <2>4 DEF Respawn, Active
  <2>5. CASE RespawnFails(th)
    <3>1. slots' = [slots EXCEPT ![v] = [slots[v] EXCEPT !.reaping = FALSE]]
      BY <1>1, <2>5 DEF RespawnFails
    <3>2. v \in Slots => Plain(slots[v], [slots[v] EXCEPT !.reaping = FALSE])
      BY <1>4
    <3> HIDE DEF v
    <3> QED
      BY <1>3, <3>1, <3>2 DEF WorkMove
  <2> QED
    BY <1>12, <2>1, <2>2, <2>3, <2>4, <2>5 DEF CustodyStep, CustodyFault
<1>14. CASE \/ HandleSchedule \/ \E t \in Tasks : DropPending(t) \/ DropPendingFails(t)
            \/ \E v \in Slots : \E t \in Tasks : ScheduleChild(v, t)
            \/ \E t \in Tasks : RequestByWorker(t) \/ Watchdog(t)
            \/ \E c \in Clients, t \in Tasks : RequestSingle(c, t) \/ RequestCascade(c, t)
            \/ \E th \in Threads : CascadeStep(th)
            \/ UNCHANGED taskVars
  <2>1. slots' = slots
    BY <1>14 DEF HandleSchedule, DropPending, DropPendingFails, ScheduleChild, RequestByWorker,
       RequestSingle, RequestCascade, Watchdog, CascadeStep, CascadeBegin, CascadeSweep,
       CascadeMint, CascadeTake, CascadePost, CascadeSummary, CascadeClose, taskVars
  <2> QED
    BY <1>2, <2>1 DEF WorkMove
<1> QED
  BY <1>6, <1>7, <1>9, <1>10, <1>11, <1>12, <1>14 DEF Tasks_Next, LoopStep, Environment, Fault,
     WorkMove

\* An idle worker has no task, and one that is finishing has written its outcome.
IdleIsFree == \A w \in Slots : slots[w].proc = "idle" => slots[w].job = NoTask
FinishingIsOver ==
    \A w \in Slots : slots[w].proc = "finishing" => slots[w].job \in Subagents \cup SettledTasks

LEMMA WorkerOutcome ==
    ASSUME TaskInv, IdleIsFree, FinishingIsOver, [Tasks_Next]_taskVars
    PROVE  IdleIsFree' /\ FinishingIsOver'
<1>0. TaskTypes /\ slots \in [Slots -> SlotType] /\ SettledTasks \subseteq SettledTasks'
  <2>1. TaskTypes /\ ResultTypes
    BY DEF TaskInv, TaskTypes
  <2>2. Kept(result')
    BY <2>1, ResultMoves
  <2>3. SettledTasks \subseteq SettledTasks'
    BY <2>2 DEF Kept, SettledTasks, IsSettled
  <2> QED
    BY <2>1, <2>3 DEF TaskTypes, SlotTypes
<1> SUFFICES ASSUME NEW w \in Slots
             PROVE  /\ slots'[w].proc = "idle" => slots'[w].job = NoTask
                    /\ slots'[w].proc = "finishing"
                          => slots'[w].job \in Subagents \cup SettledTasks'
  BY DEF IdleIsFree, FinishingIsOver
<1>1. slots[w] \in SlotType
  BY <1>0
<1>2. CASE Crash
  BY <1>2 DEF Crash, FreshSlot
<1>3. CASE Plain(slots[w], slots'[w])
  BY <1>0, <1>1, <1>3 DEF Plain, IdleIsFree, FinishingIsOver
<1>4. CASE Renewed(w)
  BY <1>4 DEF Renewed, Respawned, FreshSlot
<1>5. CASE StartTask(w)
  <2>1. slots'[w].proc = "working"
    BY <1>0, <1>1, <1>5 DEF StartTask, SlotType
  <2> QED
    BY <2>1
<1>6. CASE FinishTask(w)
  <2>1. slots'[w].proc = "finishing" /\ slots'[w].job = slots[w].job /\ slots[w].job \in Known
    BY <1>0, <1>1, <1>6 DEF FinishTask, SlotType, TaskTypes, SlotTypes
  <2>2. ASSUME slots[w].job \notin Subagents PROVE slots[w].job \in SettledTasks'
    <3>1. PICK t \in Tasks : t = slots[w].job
      BY <2>1, KnownAreTasks
    <3>2. result' = [result EXCEPT ![t] = Written(@, "completed")]
      BY <1>6, <2>2, <3>1 DEF FinishTask
    <3>3. result'[t] = Written(result[t], "completed")
      BY <1>0, <3>2 DEF TaskTypes, ResultTypes
    <3>4. result'[t] \in Settled
      BY <3>3 DEF Written, Settled
    <3> QED
      BY <3>1, <3>4 DEF SettledTasks, IsSettled
  <2> QED
    BY <2>1, <2>2
<1>7. CASE EmitDone(w)
  <2>1. slots'[w].proc = "idle" /\ slots'[w].job = NoTask
    BY <1>0, <1>1, <1>7 DEF EmitDone, SlotType
  <2> QED
    BY <2>1
<1>8. ASSUME NEW t \in Tasks, Assign(w, t)
      PROVE  slots'[w].proc = slots[w].proc /\ slots'[w].job = slots[w].job
  BY <1>0, <1>1, <1>8 DEF Assign, SlotType
<1>9. ASSUME slots'[w].proc = slots[w].proc /\ slots'[w].job = slots[w].job
      PROVE  /\ slots'[w].proc = "idle" => slots'[w].job = NoTask
             /\ slots'[w].proc = "finishing" => slots'[w].job \in Subagents \cup SettledTasks'
  BY <1>0, <1>9 DEF IdleIsFree, FinishingIsOver
<1> QED
  BY <1>0, <1>2, <1>3, <1>4, <1>5, <1>6, <1>7, <1>8, <1>9, WorkMoves DEF WorkMove, WorkerStep

\* A slot keeps its work until its worker reports it or the slot is respawned.
LEMMA WorkContinues ==
    ASSUME TaskTypes, IdleIsFree, [Tasks_Next]_taskVars, ~Crash, NEW w \in Slots
    PROVE  \/ Renewed(w)
           \/ /\ ~Alive(w) => ~Alive(w)'
              /\ \A x \in Tasks : Given(w, x) => Given(w, x)' \/ (EmitDone(w) /\ slots[w].job = x)
<1>1. slots \in [Slots -> SlotType] /\ slots[w] \in SlotType
  BY DEF TaskTypes, SlotTypes
<1> DEFINE r == slots[w]
           s == slots'[w]
<1>2. CASE Plain(r, s)
  BY <1>2 DEF Plain, Alive, Given
<1>3. CASE StartTask(w)
  <2>1. /\ r.proc = "idle" /\ r.inq # <<>> /\ r.inq \in Seq(Known)
        /\ s.job = Head(r.inq) /\ s.inq = Tail(r.inq)
    BY <1>1, <1>3 DEF StartTask, SlotType
  <2>2. \A x \in Tasks : r.job # x
    BY <2>1 DEF IdleIsFree
  <2> HIDE DEF r, s
  <2>3. ASSUME NEW n \in DOMAIN r.inq
        PROVE  r.inq[n] = s.job \/ \E m \in DOMAIN s.inq : s.inq[m] = r.inq[n]
    <3>1. CASE n = 1
      BY <2>1, <2>3, <3>1
    <3>2. CASE n # 1
      <4>1. n - 1 \in DOMAIN s.inq /\ s.inq[n - 1] = r.inq[n]
        BY <2>1, <2>3, <3>2
      <4> QED
        BY <4>1
    <3> QED
      BY <3>1, <3>2
  <2>4. \A x \in Tasks : Has(r, x) => Has(s, x)
    BY <2>2, <2>3 DEF Has
  <2> QED
    BY <2>1, <2>4 DEF Has, Given, Alive, r, s
<1>4. CASE FinishTask(w)
  BY <1>1, <1>4 DEF FinishTask, SlotType, Given, Alive
<1>5. CASE EmitDone(w)
  BY <1>1, <1>5 DEF EmitDone, SlotType, Given, Alive
<1>6. ASSUME NEW t \in Tasks, Assign(w, t)
      PROVE  /\ ~Alive(w) => ~Alive(w)'
             /\ \A x \in Tasks : Given(w, x) => Given(w, x)'
  <2>1. /\ s.job = r.job /\ s.inq = Append(r.inq, t) /\ s.proc = r.proc /\ r.inq \in Seq(Known)
    BY <1>1, <1>6 DEF Assign, SlotType
  <2> HIDE DEF r, s
  <2>2. \A n \in DOMAIN r.inq : n \in DOMAIN s.inq /\ s.inq[n] = r.inq[n]
    BY <2>1
  <2>3. \A x \in Tasks : Has(r, x) => Has(s, x)
    BY <2>1, <2>2 DEF Has
  <2> QED
    BY <2>1, <2>3 DEF Has, Given, Alive, r, s
<1> QED
  BY <1>2, <1>3, <1>4, <1>5, <1>6, WorkMoves DEF WorkMove, WorkerStep

---------------------------------------------------------------------------
(* What a step does to the status of a task that has none of the settled    *)
(* ones: the crash detector and the reaper interrupt it for another run;    *)
(* from there it is taken on by a process, by the line, by a reaper whose   *)
(* worker would not die, or is the new id of a retry.                       *)
Requeued(x) ==
    /\ \E w \in Slots : DetectCrash(w)
    /\ running[x] # NoSlot /\ running'[x] = NoSlot /\ x \in pending'
Retires(x) ==
    /\ reaper.pc = "write" /\ reaper.task = x /\ reaper.retry
    /\ running' = running /\ jobs' = jobs
    /\ \/ ReapWrite /\ reaper'.pc = "retry"
       \/ ReapWriteFails /\ reaper'.pc = "respawn"
Resumes(x) ==
    \/ InLine(x) \/ \E w \in Slots : Executes(w, x)
    \/ ReapWedged /\ reaper.pc = "kill" /\ reaper.task = x
    \/ ReapWrite /\ reaper.pc = "write" /\ x = Retry[reaper.task] /\ x # reaper.task
StatusMove(x) ==
    \/ result'[x] = result[x] \/ IsSettled(x)' \/ result[x] = "none"
    \/ result'[x] = "interrupted" /\ (Requeued(x) \/ Retires(x))
    \/ result'[x] # "interrupted" /\ Resumes(x)

LEMMA WrittenIs ==
    ASSUME NEW old, NEW new
    PROVE  /\ Written(old, new) = new \/ (old \in Settled /\ Written(old, new) = old)
           /\ new \in Settled => Written(old, new) \in Settled
BY DEF Written

LEMMA CopiedIs ==
    ASSUME NEW t PROVE CopiedBack(t) = result[t] \/ CopiedBack(t) \in Settled
BY DEF CopiedBack, Written

LEMMA StatusMoves ==
    ASSUME TaskTypes, [Tasks_Next]_taskVars, NEW x \in Tasks PROVE StatusMove(x)
<1>0. result \in [Tasks -> Statuses] /\ reaper \in JobType
  BY DEF TaskTypes, ResultTypes, ReapTypes
<1>s. /\ {"failed", "completed", "cancelled"} \subseteq Settled
      /\ "interrupted" # "running" /\ "interrupted" # "scheduled" /\ "interrupted" \notin Settled
  BY DEF Settled
<1>1. ASSUME result' = result PROVE StatusMove(x)
  BY <1>1 DEF StatusMove
<1>2. ASSUME NEW t, NEW s, result' = [result EXCEPT ![t] = s],
             x = t /\ result'[x] = s => StatusMove(x)
      PROVE  StatusMove(x)
  BY <1>0, <1>2 DEF StatusMove
<1>3. ASSUME NEW t, NEW s, result' = [result EXCEPT ![t] = Written(@, s)],
             x = t => s \in Settled \/ (s # "interrupted" /\ Resumes(x))
      PROVE  StatusMove(x)
  <2>1. result' = [result EXCEPT ![t] = Written(result[t], s)]
    BY <1>3
  <2>2. ASSUME x = t, result'[x] = Written(result[t], s) PROVE StatusMove(x)
    BY <1>3, <2>2, WrittenIs DEF StatusMove, IsSettled
  <2> QED
    BY <1>2, <2>1, <2>2
<1>4. CASE HandleSchedule
  <2> DEFINE t == Head(events).task
  <2>1. PICK s \in {"failed", "scheduled"} : result' = [result EXCEPT ![t] = Written(@, s)]
    BY <1>4 DEF HandleSchedule
  <2>2. InLine(t)
    <3>1. events \in Seq(EventType) /\ events # <<>> /\ Head(events).kind = "schedule"
      BY <1>4 DEF HandleSchedule, TaskTypes, EventTypes
    <3>2. 1 \in DOMAIN events /\ events[1] = Head(events)
      BY <3>1
    <3> QED
      BY <3>1, <3>2 DEF Announced, InLine
  <2> HIDE DEF t
  <2> QED
    BY <1>3, <1>s, <2>1, <2>2 DEF Resumes
<1>5. CASE HandleDone
  <2> DEFINE t == Head(events).task
             copied == IF running[t] # NoSlot THEN CopiedBack(t) ELSE result[t]
             fault == copied \notin Settled \cup {"interrupted"}
             s == IF fault THEN "failed" ELSE copied
  <2>1. result' = result \/ result' = [result EXCEPT ![t] = s]
    BY <1>5 DEF HandleDone
  <2>2. copied = result[t] \/ copied \in Settled
    BY CopiedIs
  <2>3. s = result[t] \/ s \in Settled
    BY <1>s, <2>2
  <2> HIDE DEF s, t
  <2>4. x = t /\ result'[x] = s => StatusMove(x)
    BY <2>3 DEF StatusMove, IsSettled
  <2> QED
    BY <1>1, <1>2, <2>1, <2>4
<1>6. ASSUME NEW t \in Tasks, DropPending(t) \/ DropPendingFails(t) PROVE StatusMove(x)
  BY <1>1, <1>3, <1>s, <1>6 DEF DropPending, DropPendingFails
<1>7. ASSUME NEW t \in Tasks, NEW w \in Slots, Assign(w, t) PROVE StatusMove(x)
  <2>1. InLine(t) /\ (result' = [result EXCEPT ![t] = Written(@, "running")] \/ result' = result)
    BY <1>7 DEF Assign, InLine
  <2> QED
    BY <1>1, <1>3, <1>s, <2>1 DEF Resumes
<1>8. ASSUME NEW w \in Slots, DetectCrash(w) PROVE StatusMove(x)
  <2> DEFINE t == slots[w].busy
  <2>1. CASE t # NoTask /\ running[t] # NoSlot
    <3>1. PICK again \in BOOLEAN :
             /\ result' = [result EXCEPT ![t] = Written(@, IF again THEN "interrupted" ELSE "failed")]
             /\ again => t \in pending'
      <4>1. PICK signal \in BOOLEAN :
               LET retried == ~IsSettled(t) /\ ~signal /\ attempt[t] = 1
                   again == retried /\ ~Fenced(t) IN
               /\ result' = [result EXCEPT
                               ![t] = Written(@, IF again THEN "interrupted" ELSE "failed")]
               /\ pending' = IF again THEN pending \cup {t} ELSE pending
        BY <1>8, <2>1 DEF DetectCrash
      <4> QED
        BY <4>1
    <3>2. running' = [running EXCEPT ![t] = NoSlot]
      BY <1>8, <2>1 DEF DetectCrash
    <3>3. running \in [Tasks -> Slots \cup {NoSlot}]
      BY DEF TaskTypes, QueueTypes
    <3> HIDE DEF t
    <3>4. CASE ~again
      BY <1>3, <1>s, <3>1, <3>4
    <3>5. CASE again
      <4>1. result' = [result EXCEPT ![t] = Written(result[t], "interrupted")]
        BY <3>1, <3>5
      <4>2. ASSUME x = t, result'[x] = Written(result[t], "interrupted") PROVE StatusMove(x)
        <5>1. Requeued(x)
          BY <1>8, <2>1, <3>1, <3>2, <3>3, <3>5, <4>2 DEF Requeued
        <5> QED
          BY <4>2, <5>1, WrittenIs DEF StatusMove, IsSettled
      <4> QED
        BY <1>2, <4>1, <4>2
    <3> QED
      BY <3>4, <3>5
  <2>2. CASE ~(t # NoTask /\ running[t] # NoSlot)
    BY <1>1, <1>8, <2>2 DEF DetectCrash
  <2> QED
    BY <2>1, <2>2
<1>9. CASE ReapTake \/ ReapKill \/ ReapRespawn \/ ReapRespawnFails
  BY <1>1, <1>9 DEF ReapTake, ReapKill, ReapRespawn, ReapRespawnFails, durableVars
<1>10. CASE ReapWedged
  <2>1. /\ result' = [result EXCEPT ![reaper.task] = Written(@, "running")] /\ reaper.pc = "kill"
    BY <1>10 DEF ReapWedged
  <2> QED
    BY <1>3, <1>10, <1>s, <2>1 DEF Resumes
<1>11. CASE ReapCheck
  <2>1. result' = [result EXCEPT ![reaper.task] = CopiedBack(reaper.task)]
    BY <1>11 DEF ReapCheck
  <2>2. x = reaper.task /\ result'[x] = CopiedBack(reaper.task) => StatusMove(x)
    BY CopiedIs DEF StatusMove, IsSettled
  <2> QED
    BY <1>2, <2>1, <2>2
<1>12. CASE ReapWrite
  <2> DEFINE t == reaper.task
             r == Retry[t]
             closed == [result EXCEPT ![t] = Written(result[t],
                                              IF reaper.retry THEN "interrupted" ELSE "failed")]
  <2>1. /\ reaper.pc = "write"
        /\ reaper.retry => reaper'.pc = "retry"
        /\ ~reaper.retry => result' = [result EXCEPT ![t] = Written(@, "failed")]
        /\ reaper.retry =>
              result' = IF r = t THEN closed ELSE [closed EXCEPT ![r] = Written(closed[r], "scheduled")]
    BY <1>0, <1>12 DEF ReapWrite, JobType
  <2> DEFINE a == closed[r]
  <2>2. closed \in [Tasks -> {closed[q] : q \in Tasks}]
    BY <1>0
  <2>3. CASE ~reaper.retry
    BY <1>3, <1>s, <2>1, <2>3
  <2>4. CASE reaper.retry
    <3>1. CASE x = t
      <4>1. result'[x] = closed[x]
        BY <1>0, <2>1, <2>2, <2>4, <3>1
      <4>2. closed[x] = Written(result[x], "interrupted")
        BY <1>0, <2>4, <3>1
      <4>3. Retires(x)
        BY <1>12, <2>1, <2>4, <3>1 DEF Retires, ReapWrite, queueVars
      <4> HIDE DEF closed
      <4> QED
        BY <4>1, <4>2, <4>3, WrittenIs DEF StatusMove, IsSettled
    <3>2. CASE x # t /\ x = r
      <4>1. result'[x] = Written(closed[x], "scheduled")
        BY <1>0, <2>1, <2>4, <3>2
      <4>2. closed[x] = result[x]
        BY <1>0, <3>2
      <4>3. Resumes(x)
        BY <1>12, <2>1, <3>2 DEF Resumes
      <4> HIDE DEF closed
      <4> QED
        BY <1>s, <4>1, <4>2, <4>3, WrittenIs DEF StatusMove, IsSettled
    <3>3. CASE x # t /\ x # r
      <4>1. result'[x] = result[x]
        BY <1>0, <2>1, <2>4, <3>3
      <4> QED
        BY <4>1 DEF StatusMove
    <3> QED
      BY <3>1, <3>2, <3>3
  <2> QED
    BY <2>3, <2>4
<1>13. CASE ReapRetry
  <2> DEFINE t == reaper.task
             r == Retry[t]
  <2>1. \/ result' = result
        \/ result' = [result EXCEPT ![t] = Written(@, "failed"), ![r] = Written(@, "failed")]
    BY <1>13 DEF ReapRetry
  <2>2. CASE result' = [result EXCEPT ![t] = Written(@, "failed"), ![r] = Written(@, "failed")]
    <3> HIDE DEF t, r
    <3>1. result'[x] = result[x] \/ \E q : result'[x] = Written(q, "failed")
      BY <1>0, <2>2
    <3> QED
      BY <1>s, <3>1, WrittenIs DEF StatusMove, IsSettled
  <2> QED
    BY <1>1, <2>1, <2>2
<1>18. CASE ReapWriteFails
  <2> DEFINE t == reaper.task
  <2>1. /\ reaper.pc = "write" /\ running' = running /\ jobs' = jobs
        /\ reaper' = [reaper EXCEPT !.pc = "respawn", !.retry = FALSE]
        /\ \/ result' = result
           \/ reaper.retry /\ result' = [result EXCEPT ![t] = Written(result[t], "interrupted")]
    BY <1>18 DEF ReapWriteFails, queueVars
  <2>2. reaper'.pc = "respawn"
    BY <1>0, <2>1 DEF JobType
  <2>3. reaper.retry /\ x = t => Retires(x)
    BY <1>18, <2>1, <2>2 DEF Retires
  <2> HIDE DEF t
  <2>4. ASSUME reaper.retry, x = t, result'[x] = Written(result[t], "interrupted")
        PROVE  StatusMove(x)
    BY <2>3, <2>4, WrittenIs DEF StatusMove, IsSettled
  <2> QED
    BY <1>1, <1>2, <2>1, <2>4
<1>19. CASE ReapRetryFails
  <2> DEFINE t == reaper.task
  <2>1. result' = result \/ result' = [result EXCEPT ![t] = Written(@, "failed")]
    BY <1>19 DEF ReapRetryFails
  <2> HIDE DEF t
  <2> QED
    BY <1>1, <1>3, <1>s, <2>1
<1>14. ASSUME NEW w \in Slots, WorkerStep(w) PROVE StatusMove(x)
  <2>0. slots[w] \in SlotType
    BY DEF TaskTypes, SlotTypes
  <2>1. CASE StartTask(w)
    <3> DEFINE t == Head(slots[w].inq)
    <3>1. /\ slots[w].proc = "idle" /\ slots[w].inq # <<>>
          /\ result' = result \/ result' = [result EXCEPT ![t] = Written(@, "running")]
      BY <2>1 DEF StartTask
    <3>2. Executes(w, t)
      <4>1. slots[w].inq \in Seq(Known)
        BY <2>0 DEF SlotType
      <4>2. 1 \in DOMAIN slots[w].inq /\ slots[w].inq[1] = t
        BY <3>1, <4>1
      <4> QED
        BY <3>1, <4>2 DEF Executes, Given, Alive
    <3> HIDE DEF t
    <3>3. x = t => Resumes(x)
      BY <3>2 DEF Resumes
    <3> QED
      BY <1>1, <1>3, <1>s, <3>1, <3>3
  <2>2. CASE FinishTask(w)
    BY <1>1, <1>3, <1>s, <2>2 DEF FinishTask
  <2>3. CASE EmitDone(w)
    BY <1>1, <2>3 DEF EmitDone, durableVars
  <2> QED
    BY <1>14, <2>1, <2>2, <2>3 DEF WorkerStep
<1>15. ASSUME NEW w \in Slots, NEW t \in Tasks, ScheduleChild(w, t) PROVE StatusMove(x)
  <2>1. result[t] = "none" /\ result' = [result EXCEPT ![t] = "scheduled"]
    BY <1>15 DEF ScheduleChild
  <2> QED
    BY <1>2, <2>1 DEF StatusMove
<1>16. ASSUME NEW th \in Threads, CustodyStep(th) \/ CustodyFault(th) PROVE StatusMove(x)
  <2> DEFINE t == custody[th].task
  <2>1. CASE WritePending(th) \/ WriteRunning(th)
    BY <1>3, <1>s, <2>1 DEF WritePending, WriteRunning
  <2>2. CASE KillWorker(th)
    <3>1. result' = result \/ result' = [result EXCEPT ![t] = CopiedBack(t)]
      BY <2>2 DEF KillWorker
    <3>2. x = t /\ result'[x] = CopiedBack(t) => StatusMove(x)
      BY CopiedIs DEF StatusMove, IsSettled
    <3> QED
      BY <1>1, <1>2, <3>1, <3>2
  <2>3. CASE Miss(th)
    <3> DEFINE after == Written(CopiedBack(t), "cancelled")
    <3>1. result' = result \/ result' = [result EXCEPT ![t] = after]
      BY <2>3 DEF Miss
    <3>2. after \in Settled
      BY <1>s, WrittenIs
    <3> HIDE DEF after
    <3>3. x = t /\ result'[x] = after => StatusMove(x)
      BY <3>2 DEF StatusMove, IsSettled
    <3> QED
      BY <1>1, <1>2, <3>1, <3>3
  <2>4. CASE ~(WritePending(th) \/ WriteRunning(th) \/ KillWorker(th) \/ Miss(th))
    BY <1>1, <1>16, <2>4 DEF CustodyStep, CustodyFault, Claim, CapturePending, CaptureRunning,
       CaptureNothing, WriteRefused, RegisterOwed, Settle, Publish, Respawn, WritePendingFails,
       WorkerSurvives, WriteRunningFails, MissFails, OwedFails, RespawnFails, durableVars
  <2> QED
    BY <2>1, <2>2, <2>3, <2>4
<1>17. CASE \/ \E t \in Tasks : Watchdog(t)
            \/ \E th \in Threads : CascadeStep(th)
            \/ Environment \/ UNCHANGED taskVars
  <2>1. result' = result
    BY <1>17 DEF Watchdog, CascadeStep, CascadeBegin, CascadeSweep, CascadeMint, CascadeTake,
       CascadePost, CascadeSummary, CascadeClose, Environment, WorkerDies, Timeout,
       RequestByWorker, RequestSingle, RequestCascade, Crash, taskVars, durableVars
  <2> QED
    BY <1>1, <2>1
<1> QED
  BY <1>4, <1>5, <1>6, <1>7, <1>8, <1>9, <1>10, <1>11, <1>12, <1>13, <1>14, <1>15, <1>16, <1>17,
     <1>18, <1>19
  DEF Tasks_Next, LoopStep, ReaperStep, Fault, ReaperFault

---------------------------------------------------------------------------
\* What a step tells the loop of a task that is done is true after the step,
\* unless the reaper could not write what it tells.
EventsTell ==
    \/ events' = events
    \/ events' = Tail(events) /\ events # <<>> /\ (HandleSchedule \/ HandleDone)
    \/ \E w \in Slots : EmitDone(w) /\ events' = Append(events, DoneEvent(slots[w].job, w))
    \/ \E t : result'[t] \in Settled /\ events' = Emitted(t)
    \/ (ReapWriteFails \/ ReapRetryFails) /\ events' = Emitted(reaper.task)
    \/ \E w \in Slots, t \in Tasks : ScheduleChild(w, t) /\ events' = Append(events, ScheduleEvent(t))

LEMMA EventsTold ==
    ASSUME TaskInv, [Tasks_Next]_taskVars, ~Crash PROVE EventsTell
<1>0. TaskTypes /\ result \in [Tasks -> Statuses] /\ Kept(result')
  <2>1. TaskTypes /\ ResultTypes
    BY DEF TaskInv, TaskTypes
  <2> QED
    BY <2>1, ResultMoves DEF ResultTypes
<1>s. {"failed", "completed", "cancelled"} \subseteq Settled
  BY DEF Settled
<1>1. ASSUME events' = events PROVE EventsTell
  BY <1>1 DEF EventsTell
<1>2. ASSUME NEW t, result'[t] \in Settled, events' = Emitted(t) PROVE EventsTell
  BY <1>2 DEF EventsTell
<1>3. ASSUME NEW t \in Tasks, NEW s \in Settled, result' = [result EXCEPT ![t] = Written(@, s)]
      PROVE  result'[t] \in Settled
  <2>1. result'[t] = Written(result[t], s)
    BY <1>0, <1>3
  <2> QED
    BY <2>1, WrittenIs
<1>4. CASE HandleSchedule \/ HandleDone
  BY <1>4 DEF HandleSchedule, HandleDone, EventsTell
<1>5. ASSUME NEW t \in Tasks, DropPending(t) \/ DropPendingFails(t) PROVE EventsTell
  <2>1. \/ events' = events
        \/ events' = Emitted(t) /\ result' = [result EXCEPT ![t] = Written(@, "cancelled")]
    BY <1>5 DEF DropPending, DropPendingFails
  <2> QED
    BY <1>1, <1>2, <1>3, <1>s, <2>1
<1>6. ASSUME NEW w \in Slots, DetectCrash(w) PROVE EventsTell
  <2> DEFINE t == slots[w].busy
  <2>1. \/ events' = events
        \/ /\ t # NoTask /\ events' = Emitted(t)
           /\ result' = [result EXCEPT ![t] = Written(@, "failed")]
    <3>1. CASE t # NoTask /\ running[t] # NoSlot
      <4>1. PICK signal \in BOOLEAN :
               LET retried == ~IsSettled(t) /\ ~signal /\ attempt[t] = 1
                   again == retried /\ ~Fenced(t) IN
               /\ result' = [result EXCEPT
                               ![t] = Written(@, IF again THEN "interrupted" ELSE "failed")]
               /\ events' = IF again THEN events ELSE Emitted(t)
        BY <1>6, <3>1 DEF DetectCrash
      <4> QED
        BY <3>1, <4>1
    <3>2. CASE ~(t # NoTask /\ running[t] # NoSlot)
      BY <1>6, <3>2 DEF DetectCrash
    <3> QED
      BY <3>1, <3>2
  <2>2. t # NoTask => t \in Tasks
    BY <1>0, KnownAreTasks DEF TaskTypes, SlotTypes, SlotType
  <2> HIDE DEF t
  <2> QED
    BY <1>1, <1>2, <1>3, <1>s, <2>1, <2>2
<1>7. ASSUME NEW w \in Slots, WorkerStep(w) \/ \E t \in Tasks : ScheduleChild(w, t) PROVE EventsTell
  BY <1>7 DEF WorkerStep, StartTask, FinishTask, EmitDone, ScheduleChild, EventsTell
<1>8. CASE ReaperStep \/ ReaperFault
  <2> DEFINE t == reaper.task
  <2>0. reaper.pc # "idle" => t \in Tasks
    BY JobTasks, KnownAreTasks
  <2>1. CASE ReapCheck
    <3>1. result' = [result EXCEPT ![t] = CopiedBack(t)] /\ t \in Tasks
          /\ (events' = events \/ (events' = Emitted(t) /\ result'[t] \in Settled))
      BY <2>0, <2>1 DEF ReapCheck
    <3> QED
      BY <1>1, <1>2, <3>1
  <2>2. CASE ReapWrite
    <3>1. /\ t \in Tasks
          /\ \/ events' = events
             \/ events' = Emitted(t) /\ result' = [result EXCEPT ![t] = Written(@, "failed")]
      BY <2>0, <2>2 DEF ReapWrite
    <3> HIDE DEF t
    <3> QED
      BY <1>1, <1>2, <1>3, <1>s, <3>1
  <2>3. CASE ReapRetry
    <3> DEFINE r == Retry[t]
    <3>1. /\ t \in Tasks
          /\ \/ events' = events
             \/ /\ events' = Emitted(t)
                /\ result' = [result EXCEPT ![t] = Written(@, "failed"), ![r] = Written(@, "failed")]
      BY <2>0, <2>3 DEF ReapRetry
    <3> HIDE DEF t, r
    <3>2. CASE events' = Emitted(t)
               /\ result' = [result EXCEPT ![t] = Written(@, "failed"), ![r] = Written(@, "failed")]
      <4>1. \E q : result'[t] = Written(q, "failed")
        BY <1>0, <3>1, <3>2
      <4>2. result'[t] \in Settled
        BY <1>s, <4>1, WrittenIs
      <4> QED
        BY <1>2, <3>2, <4>2
    <3> QED
      BY <1>1, <3>1, <3>2
  <2>4. CASE ReapWriteFails \/ ReapRetryFails
    BY <2>4 DEF ReapWriteFails, ReapRetryFails, EventsTell
  <2>5. CASE ~(ReapCheck \/ ReapWrite \/ ReapRetry \/ ReapWriteFails \/ ReapRetryFails)
    BY <1>1, <1>8, <2>5 DEF ReaperStep, ReapTake, ReapKill, ReapRespawn, ReaperFault, ReapWedged,
       ReapRespawnFails
  <2> QED
    BY <2>1, <2>2, <2>3, <2>4, <2>5
<1>9. ASSUME NEW th \in Threads, CustodyStep(th) \/ CustodyFault(th) PROVE EventsTell
  <2> DEFINE t == custody[th].task
  <2>1. custody[th].then \in {"publish", "emit", "end"}
    BY <1>0 DEF TaskTypes, ThreadTypes, CustodyType, Thens
  <2>2. ASSUME custody[th].pc \in {"owed", "settle", "publish"} PROVE result'[t] \in Settled
    <3>1. t \in SettledTasks
      BY <2>2 DEF TaskInv, CustodyInv, CustodySound
    <3> HIDE DEF t
    <3>2. t \in Tasks /\ result[t] \in Settled /\ result'[t] = result[t]
      BY <1>0, <3>1 DEF SettledTasks, IsSettled, Kept
    <3> QED
      BY <3>2
  <2>3. CASE Settle(th) \/ OwedFails(th)
    <3>1. events' = events \/ events' = Emitted(t)
      <4>1. CASE custody[th].then = "publish"
        BY <2>3, <4>1 DEF Settle, OwedFails
      <4>2. CASE custody[th].then = "emit"
        BY <2>3, <4>2 DEF Settle, OwedFails
      <4>3. CASE custody[th].then = "end"
        BY <2>3, <4>3 DEF Settle, OwedFails
      <4> QED
        BY <2>1, <4>1, <4>2, <4>3
    <3>2. custody[th].pc \in {"owed", "settle", "publish"}
      BY <2>3 DEF Settle, OwedFails, Active
    <3>3. result'[t] \in Settled
      BY <2>2, <3>2
    <3> HIDE DEF t
    <3> QED
      BY <1>1, <1>2, <3>1, <3>3
  <2>4. CASE Publish(th)
    <3>1. (events' = events \/ events' = Emitted(t)) /\ custody[th].pc = "publish"
      BY <2>4 DEF Publish, Active
    <3>3. result'[t] \in Settled
      BY <2>2, <3>1
    <3> HIDE DEF t
    <3> QED
      BY <1>1, <1>2, <3>1, <3>3
  <2>5. CASE ~(Settle(th) \/ OwedFails(th) \/ Publish(th))
    BY <1>1, <1>9, <2>5 DEF CustodyStep, CustodyFault, Claim, CapturePending, CaptureRunning,
       CaptureNothing, WritePending, KillWorker, WriteRunning, WriteRefused, Miss, RegisterOwed,
       Respawn, WritePendingFails, WorkerSurvives, WriteRunningFails, MissFails, RespawnFails
  <2> QED
    BY <2>3, <2>4, <2>5
<1>10. CASE \/ \E t \in Tasks : \E w \in Slots : Assign(w, t)
            \/ \E t \in Tasks : Watchdog(t)
            \/ \E th \in Threads : CascadeStep(th)
            \/ (Environment /\ ~Crash) \/ UNCHANGED taskVars
  <2>1. events' = events
    BY <1>10 DEF Assign, Watchdog, CascadeStep, CascadeBegin, CascadeSweep, CascadeMint,
       CascadeTake, CascadePost, CascadeSummary, CascadeClose, Environment, WorkerDies, Timeout,
       RequestByWorker, RequestSingle, RequestCascade, taskVars
  <2> QED
    BY <1>1, <2>1
<1> QED
  BY <1>4, <1>5, <1>6, <1>7, <1>8, <1>9, <1>10 DEF Tasks_Next, LoopStep, Fault

\* What a step leaves of the queue, of a task that nobody cancels.
LEMMA QueueStays ==
    ASSUME TaskInv, [Tasks_Next]_taskVars, ~Crash, NEW x \in pending, x \notin HandledTasks
    PROVE  x \in pending' \/ \E w \in Slots : Assign(w, x)
<1>0. TaskTypes /\ x \in Tasks
  BY DEF TaskInv, TaskTypes, QueueTypes, Known
<1>1. ASSUME pending' = pending PROVE x \in pending'
  BY <1>1
<1>2. CASE HandleSchedule \/ HandleDone \/ ReaperStep \/ ReaperFault
  BY <1>2 DEF HandleSchedule, HandleDone, Enqueued, queueVars, ReaperStep, ReapTake, ReapKill,
     ReapCheck, ReapWrite, ReapRetry, ReapRespawn, ReaperFault, ReapWedged, ReapWriteFails,
     ReapRetryFails, ReapRespawnFails
<1>3. ASSUME NEW t \in Tasks, DropPending(t) \/ DropPendingFails(t) PROVE x \in pending'
  BY <1>0, <1>3 DEF DropPending, DropPendingFails, HandledTasks
<1>4. ASSUME NEW t \in Tasks, NEW w \in Slots, Assign(w, t) PROVE x \in pending' \/ Assign(w, x)
  BY <1>4 DEF Assign
<1>5. ASSUME NEW w \in Slots, DetectCrash(w) PROVE x \in pending'
  BY <1>5 DEF DetectCrash
<1>6. ASSUME NEW th \in Threads, CustodyStep(th) \/ CustodyFault(th) PROVE x \in pending'
  <2>1. custody[th].task # x
    BY <1>0 DEF TaskInv, CustodyInv, CustodySound
  <2>2. CASE CapturePending(th) \/ CaptureRunning(th) \/ CaptureNothing(th) \/ WritePendingFails(th)
    BY <2>1, <2>2 DEF CapturePending, CaptureRunning, CaptureNothing, WritePendingFails
  <2>3. CASE ~(CapturePending(th) \/ CaptureRunning(th) \/ CaptureNothing(th) \/ WritePendingFails(th))
    BY <1>1, <1>6, <2>3 DEF CustodyStep, CustodyFault, Claim, WritePending, KillWorker,
       WriteRunning, WriteRefused, Miss, RegisterOwed, Settle, Publish, Respawn, WorkerSurvives,
       WriteRunningFails, MissFails, OwedFails, RespawnFails, queueVars
  <2> QED
    BY <2>2, <2>3
<1>7. CASE \/ \E w \in Slots : WorkerStep(w) \/ \E t \in Tasks : ScheduleChild(w, t)
           \/ \E t \in Tasks : Watchdog(t)
           \/ \E th \in Threads : CascadeStep(th)
           \/ (Environment /\ ~Crash) \/ UNCHANGED taskVars
  <2>1. pending' = pending
    BY <1>7, ZenonT(40) DEF WorkerStep, StartTask, FinishTask, EmitDone, ScheduleChild, Watchdog,
       CascadeStep, CascadeBegin, CascadeSweep, CascadeMint, CascadeTake, CascadePost,
       CascadeSummary, CascadeClose, Environment, WorkerDies, Timeout, RequestByWorker,
       RequestSingle, RequestCascade, taskVars, queueVars
  <2> QED
    BY <1>1, <2>1
<1> QED
  BY <1>2, <1>3, <1>4, <1>5, <1>6, <1>7 DEF Tasks_Next, LoopStep, Fault

\* A task without an outcome loses its row in RUNNING to the loop: as it is
\* reported done, as its worker is found dead and as it times out.
HandledDone(x) == HandleDone /\ events # <<>> /\ Head(events).task = x
LEMMA RowGoes ==
    ASSUME TaskInv, [Tasks_Next]_taskVars, ~Crash, NEW x \in Tasks, x \notin SettledTasks,
           running[x] # NoSlot, running'[x] = NoSlot
    PROVE  HandledDone(x) \/ Timeout(x) \/ IsSettled(x)' \/ Requeued(x)
<1>0. TaskTypes /\ running \in [Tasks -> Slots \cup {NoSlot}] /\ result \in [Tasks -> Statuses]
  BY DEF TaskInv, TaskTypes, QueueTypes, ResultTypes
<1>1. ASSUME NEW t, running' = [running EXCEPT ![t] = NoSlot] PROVE t = x
  BY <1>0, <1>1
<1>2. running' # running
  OBVIOUS
<1>3. CASE HandleDone
  <2>1. running' = running \/ running' = [running EXCEPT ![Head(events).task] = NoSlot]
    BY <1>3 DEF HandleDone
  <2>2. events # <<>>
    BY <1>3 DEF HandleDone
  <2> QED
    BY <1>1, <1>2, <1>3, <2>1, <2>2 DEF HandledDone
<1>4. ASSUME NEW t \in Tasks, Timeout(t) PROVE t = x
  BY <1>1, <1>4 DEF Timeout
<1>5. ASSUME NEW w \in Slots, DetectCrash(w) PROVE IsSettled(x)' \/ Requeued(x)
  <2> DEFINE t == slots[w].busy
  <2>1. running' = [running EXCEPT ![t] = NoSlot] /\ t # NoTask /\ running[t] # NoSlot
    BY <1>2, <1>5 DEF DetectCrash
  <2>2. t = x
    BY <1>1, <2>1
  <2>3. PICK signal \in BOOLEAN :
           LET retried == ~IsSettled(t) /\ ~signal /\ attempt[t] = 1
               again == retried /\ ~Fenced(t) IN
           /\ result' = [result EXCEPT
                           ![t] = Written(@, IF again THEN "interrupted" ELSE "failed")]
           /\ pending' = IF again THEN pending \cup {t} ELSE pending
    BY <1>5, <2>1 DEF DetectCrash
  <2>4. PICK again \in BOOLEAN :
           /\ result' = [result EXCEPT ![t] = Written(@, IF again THEN "interrupted" ELSE "failed")]
           /\ again => t \in pending'
    BY <2>3
  <2> HIDE DEF t
  <2>5. CASE again
    BY <1>5, <2>1, <2>2, <2>4, <2>5 DEF Requeued
  <2>6. CASE ~again
    <3>1. result'[x] = Written(result[x], "failed")
      BY <1>0, <2>2, <2>4, <2>6
    <3> QED
      BY <3>1, WrittenIs DEF IsSettled, Settled
  <2> QED
    BY <2>5, <2>6
<1>6. ASSUME NEW th \in Threads, CustodyStep(th) \/ CustodyFault(th) PROVE FALSE
  <2>1. CASE Publish(th) /\ custody[th].task = x
    BY <2>1 DEF Publish, Active, TaskInv, CustodyInv, CustodySound
  <2>2. CASE Publish(th) /\ custody[th].task # x
    BY <1>1, <2>2 DEF Publish
  <2>3. CASE ~Publish(th)
    BY <1>2, <1>6, <2>3 DEF CustodyStep, CustodyFault, Claim, CapturePending, CaptureRunning,
       CaptureNothing, WritePending, KillWorker, WriteRunning, WriteRefused, Miss, RegisterOwed,
       Settle, Respawn, WritePendingFails, WorkerSurvives, WriteRunningFails, MissFails, OwedFails,
       RespawnFails, queueVars
  <2> QED
    BY <2>1, <2>2, <2>3
<1>7. ASSUME NEW t \in Tasks, NEW w \in Slots, Assign(w, t) PROVE FALSE
  <2>1. running' = [running EXCEPT ![t] = w]
    BY <1>7 DEF Assign
  <2> QED
    BY <1>0, <2>1
<1>8. CASE \/ HandleSchedule \/ \E t \in Tasks : DropPending(t) \/ DropPendingFails(t)
           \/ ReaperStep \/ ReaperFault
           \/ \E w \in Slots : WorkerStep(w) \/ \E t \in Tasks : ScheduleChild(w, t)
           \/ \E t \in Tasks : Watchdog(t)
           \/ \E th \in Threads : CascadeStep(th)
           \/ (Environment /\ ~Crash /\ ~\E t \in Tasks : Timeout(t)) \/ UNCHANGED taskVars
  <2>1. running' = running
    BY <1>8, ZenonT(40) DEF HandleSchedule, DropPending, DropPendingFails, ReaperStep, ReapTake,
       ReapKill, ReapCheck, ReapWrite, ReapRetry, ReapRespawn, ReaperFault, ReapWedged,
       ReapWriteFails, ReapRetryFails, ReapRespawnFails, WorkerStep, StartTask, FinishTask,
       EmitDone, ScheduleChild, Watchdog, CascadeStep, CascadeBegin, CascadeSweep, CascadeMint,
       CascadeTake, CascadePost, CascadeSummary, CascadeClose, Environment, WorkerDies,
       RequestByWorker, RequestSingle, RequestCascade, taskVars, queueVars
  <2> QED
    BY <1>2, <2>1
<1> QED
  BY <1>3, <1>4, <1>5, <1>6, <1>7, <1>8 DEF Tasks_Next, LoopStep, Environment, Fault

LEMMA RowStays ==
    ASSUME TaskInv, [Tasks_Next]_taskVars, ~Crash, NEW x \in Tasks, x \notin HandledTasks,
           running[x] # NoSlot, running'[x] = NoSlot
    PROVE  HandledDone(x) \/ Timeout(x) \/ IsSettled(x)' \/ Requeued(x)
  BY RowGoes DEF HandledTasks, SettledTasks

\* No step takes back a crash, or a task that was let go.
LEMMA CrashesGrow ==
    ASSUME TaskTypes, [Tasks_Next]_taskVars
    PROVE  /\ used.adrift \subseteq used'.adrift
           /\ used'.crashes = 0 => used.crashes = 0 /\ ~Crash
<1>1. used \in UsedType
  BY DEF TaskTypes, IntentTypes
<1> DEFINE Goal == (used'.crashes = 0 => used.crashes = 0) /\ used.adrift \subseteq used'.adrift
<1>2. ASSUME NEW what \in {"requests", "deaths", "timeouts", "faults", "crashes", "replays"},
             Counted(what)
      PROVE  Goal /\ (what = "crashes" => used'.crashes # 0)
  BY <1>1, <1>2 DEF Counted, UsedType
<1>3. ASSUME NEW t, NEW scope, Minted(t, scope) \/ Asking(t, scope) PROVE Goal
  BY <1>1, <1>3 DEF Minted, Asking, UsedType
<1>u. ASSUME used' = used PROVE Goal
  BY <1>u
<1>c. ASSUME NEW what \in {"timeouts", "faults"}, NEW mark \in {"struck", "stranded", "adrift"},
             NEW who, CountedWith(what, mark, who)
      PROVE  Goal
  <2> DEFINE a == [used EXCEPT ![what] = @ + 1]
  <2>1. a \in UsedType /\ a.adrift = used.adrift /\ a.crashes = used.crashes
    BY <1>1 DEF UsedType
  <2>2. used' = [a EXCEPT ![mark] = @ \cup who]
    BY <1>1, <1>c DEF CountedWith, UsedType
  <2> HIDE DEF a
  <2>3. used'.crashes = a.crashes /\ a.adrift \subseteq used'.adrift
    BY <2>1, <2>2 DEF UsedType
  <2> QED
    BY <2>1, <2>3
<1>0. used'.crashes = 0 => ~Crash
  BY <1>2 DEF Crash
<1> HIDE DEF Goal
<1> SUFFICES Goal
  BY <1>0 DEF Goal
<1>4. CASE LoopStep \/ ReaperStep \/ UNCHANGED taskVars
  <2>1. ASSUME NEW w \in Slots, DetectCrash(w) PROVE Goal
    <3>1. PICK who : used' = [used EXCEPT !.unread = @ \cup who]
      BY <2>1 DEF DetectCrash
    <3> QED
      BY <1>1, <3>1 DEF UsedType, Goal
  <2>2. used' = used \/ \E w \in Slots : DetectCrash(w)
    BY <1>4 DEF LoopStep, HandleSchedule, HandleDone, DropPending, Assign, ReaperStep,
       ReapTake, ReapKill, ReapCheck, ReapWrite, ReapRetry, ReapRespawn, envVars, taskVars
  <2> QED
    BY <1>u, <2>1, <2>2
<1>5. CASE \E w \in Slots : WorkerStep(w) \/ \E t \in Tasks : ScheduleChild(w, t)
  <2>1. used' = used
    BY <1>5 DEF WorkerStep, StartTask, FinishTask, EmitDone, ScheduleChild, envVars
  <2> QED
    BY <1>u, <2>1
<1>6. ASSUME NEW th \in Threads, CustodyStep(th) PROVE Goal
  <2>1. used' = used
    BY <1>6 DEF CustodyStep, Claim, CapturePending, CaptureRunning, CaptureNothing, WritePending,
       KillWorker, WriteRunning, WriteRefused, Miss, RegisterOwed, Settle, Publish, Respawn, envVars
  <2> QED
    BY <1>u, <2>1
<1>7. ASSUME NEW th \in Threads, CustodyFault(th) PROVE Goal
  BY <1>2, <1>c, <1>7 DEF CustodyFault, WritePendingFails, WorkerSurvives, WriteRunningFails,
     MissFails, OwedFails, RespawnFails
<1>8. ASSUME NEW th \in Threads, CascadeStep(th) PROVE Goal
  <2>1. CASE CascadeBegin(th) \/ CascadeSweep(th) \/ CascadePost(th) \/ CascadeClose(th)
             \/ \E t \in Tasks : CascadeTake(th, t)
    <3>1. used' = used
      BY <2>1 DEF CascadeBegin, CascadeSweep, CascadePost, CascadeClose, CascadeTake, envVars
    <3> QED
      BY <1>u, <3>1
  <2>2. CASE CascadeSummary(th)
    BY <1>u, <1>2, <2>2 DEF CascadeSummary, envVars
  <2>3. ASSUME NEW t \in Tasks, CascadeMint(th, t) PROVE Goal
    BY <1>3, <2>3 DEF CascadeMint
  <2> QED
    BY <1>8, <2>1, <2>2, <2>3 DEF CascadeStep
<1>9. CASE \/ \E t \in Tasks : Watchdog(t) \/ Timeout(t) \/ DropPendingFails(t)
           \/ \E w \in Slots : WorkerDies(w)
           \/ Crash \/ ReaperFault
  BY <1>2, <1>c, <1>9 DEF Watchdog, Timeout, DropPendingFails, WorkerDies, Crash, ReaperFault,
     ReapWedged, ReapWriteFails, ReapRetryFails, ReapRespawnFails
<1>10. CASE \/ \E t \in Tasks : RequestByWorker(t)
            \/ \E c \in Clients, t \in Tasks : RequestSingle(c, t) \/ RequestCascade(c, t)
  BY <1>3, <1>10 DEF RequestByWorker, RequestSingle, RequestCascade
<1> QED
  BY <1>4, <1>5, <1>6, <1>7, <1>8, <1>9, <1>10 DEF Tasks_Next, Environment, Fault

---------------------------------------------------------------------------
\* An event stays until the loop handles it, which takes the first one.
LEMMA EventStays ==
    ASSUME TaskInv, [Tasks_Next]_taskVars, ~Crash, NEW n \in DOMAIN events
    PROVE  \/ \E m \in DOMAIN events' : events'[m] = events[n]
           \/ /\ HandleSchedule \/ HandleDone
              /\ events # <<>> /\ Head(events) = events[n]
<1>1. events \in Seq(EventType) /\ EventsTell
  BY EventsTold DEF TaskInv, TaskTypes, EventTypes
<1>2. CASE events' = events
  BY <1>2
<1>3. CASE events' = Tail(events) /\ events # <<>> /\ (HandleSchedule \/ HandleDone)
  <2>1. CASE n = 1
    BY <1>1, <1>3, <2>1
  <2>2. CASE n # 1
    <3>1. n - 1 \in DOMAIN events' /\ events'[n - 1] = events[n]
      BY <1>1, <1>3, <2>2
    <3> QED
      BY <3>1
  <2> QED
    BY <2>1, <2>2
<1>4. ASSUME NEW e, events' = Append(events, e) PROVE \E m \in DOMAIN events' : events'[m] = events[n]
  <2>1. n \in DOMAIN events' /\ events'[n] = events[n]
    BY <1>1, <1>4
  <2> QED
    BY <2>1
<1> QED
  BY <1>1, <1>2, <1>3, <1>4 DEF EventsTell, Emitted

\* A task is reported when an event says that it is done.
Reported(t) == \E n \in DOMAIN events : events[n].kind = "done" /\ events[n].task = t

LEMMA ReportStays ==
    ASSUME TaskInv, [Tasks_Next]_taskVars, ~Crash, NEW x, Reported(x)
    PROVE  Reported(x)' \/ HandledDone(x)
<1>1. PICK n \in DOMAIN events : events[n].kind = "done" /\ events[n].task = x
  BY DEF Reported
<1>2. CASE \E m \in DOMAIN events' : events'[m] = events[n]
  BY <1>1, <1>2 DEF Reported
<1>3. CASE (HandleSchedule \/ HandleDone) /\ events # <<>> /\ Head(events) = events[n]
  BY <1>1, <1>3 DEF HandleSchedule, HandledDone
<1> QED
  BY <1>2, <1>3, EventStays

LEMMA AnnouncementStays ==
    ASSUME TaskInv, [Tasks_Next]_taskVars, ~Crash, NEW x, Announced(x)
    PROVE  Announced(x)' \/ (HandleSchedule /\ Head(events).task = x)
<1>1. PICK n \in DOMAIN events : events[n].kind = "schedule" /\ events[n].task = x
  BY DEF Announced
<1>2. CASE \E m \in DOMAIN events' : events'[m] = events[n]
  BY <1>1, <1>2 DEF Announced
<1>3. CASE (HandleSchedule \/ HandleDone) /\ events # <<>> /\ Head(events) = events[n]
  BY <1>1, <1>3 DEF HandleDone
<1> QED
  BY <1>2, <1>3, EventStays

\* A worker's report is queued with its step.
LEMMA ReportedNow ==
    ASSUME TaskTypes, NEW w \in Slots, EmitDone(w) PROVE \A x : slots[w].job = x => Reported(x)'
<1>1. events \in Seq(EventType) /\ events' = Append(events, DoneEvent(slots[w].job, w))
  BY DEF TaskTypes, EventTypes, EmitDone
<1>2. Len(events) + 1 \in DOMAIN events' /\ events'[Len(events) + 1] = DoneEvent(slots[w].job, w)
  BY <1>1
<1> QED
  BY <1>2 DEF Reported, DoneEvent

---------------------------------------------------------------------------
(* The reaper attends to a task from its timeout until it writes its        *)
(* outcome.  Such a task has no row and waits in no line, no job is for the *)
(* task of another, and a task that has a row waits in no line either.      *)
Attends(t) ==
    \/ \E n \in DOMAIN jobs : jobs[n].task = t
    \/ reaper.task = t /\ reaper.pc \in {"kill", "check", "write"}
Renewing(t) == reaper.pc = "retry" /\ Retry[reaper.task] = t
RunsOffLine   == \A t \in Tasks : running[t] # NoSlot => ~InLine(t)
AttendedRests == \A t \in Tasks : Attends(t) => running[t] = NoSlot /\ ~InLine(t)
OneJob ==
    /\ \A m, n \in DOMAIN jobs : jobs[m].task = jobs[n].task => m = n
    /\ \A n \in DOMAIN jobs :
          reaper.pc \in {"kill", "check", "write", "retry"} => jobs[n].task # reaper.task

LEMMA AttendsMoves ==
    ASSUME TaskTypes, [Tasks_Next]_taskVars, NEW x, Attends(x)' PROVE Attends(x) \/ Appended(x)
<1>0. reaper \in JobType /\ jobs \in Seq(Waiting)
  BY DEF TaskTypes, ReapTypes
<1>1. ReapMove
  BY ReapsMove
<1>2. ASSUME NEW n \in DOMAIN jobs', jobs'[n].task = x PROVE Attends(x) \/ Appended(x)
  BY <1>2, JobsStep DEF Attends
<1>3. ASSUME reaper'.task = x, reaper'.pc \in {"kill", "check", "write"} PROVE Attends(x) \/ Appended(x)
  <2>1. CASE UNCHANGED reapVars \/ \E t \in Tasks : Appended(t)
    BY <1>3, <2>1 DEF reapVars, Appended, Attends
  <2>2. CASE ReapTake
    <3>1. 1 \in DOMAIN jobs /\ reaper' = jobs[1]
      BY <1>0, <2>2 DEF ReapTake
    <3> QED
      BY <1>3, <3>1 DEF Attends
  <2>3. CASE ReapKill \/ (ReapCheck /\ MovedTo("write"))
    BY <1>0, <1>3, <2>3 DEF ReapKill, ReapCheck, MovedTo, Attends, JobType
  <2>4. CASE ReapWrite /\ reaper.retry /\ MovedTo("retry")
    BY <1>0, <1>3, <2>4 DEF MovedTo, JobType
  <2> QED
    BY <1>1, <1>3, <2>1, <2>2, <2>3, <2>4 DEF ReapMove
<1> QED
  BY <1>2, <1>3 DEF Attends

\* The reaper queues no task again that it still attends to.
LEMMA AttendedNotRetried ==
    ASSUME TaskInv, ExecInv, OneJob, NEW x \in Tasks, Attends(x) PROVE ~Retried(x) /\ x \in Known
<1>1. x \in Known
  BY JobTasks DEF Attends
<1>2. ASSUME Retried(x) PROVE FALSE
  <2>1. reaper.pc = "retry" /\ x = Retry[reaper.task]
    BY <1>2 DEF Retried
  <2>2. PICK n \in DOMAIN jobs : jobs[n].task = x
    BY <2>1 DEF Attends
  <2>3. CASE x = reaper.task
    BY <2>1, <2>2, <2>3 DEF OneJob
  <2>4. CASE x # reaper.task
    BY <2>1, <2>2, <2>4 DEF ExecInv, RetryReady, Nowhere
  <2> QED
    BY <2>3, <2>4
<1> QED
  BY <1>1, <1>2

LEMMA RunsOffLineNext ==
    ASSUME TaskInv, ExecInv, RunsOffLine, [Tasks_Next]_taskVars PROVE RunsOffLine'
<1>0. /\ TaskTypes /\ AnnouncedOnce /\ Single
      /\ running \in [Tasks -> Slots \cup {NoSlot}] /\ (\A t \in Tasks : running[t] # NoSlot => t \in Known)
  BY DEF TaskInv, ExecInv, TaskTypes, QueueTypes
<1> SUFFICES ASSUME NEW x \in Tasks, running'[x] # NoSlot PROVE ~InLine(x)'
  BY DEF RunsOffLine
<1>1. CASE \E w \in Slots : Assign(w, x)
  BY <1>0, <1>1, AssignedLeaves
<1>2. CASE ~\E w \in Slots : Assign(w, x)
  <2>1. running'[x] = running[x] /\ running[x] # NoSlot /\ x \in Known
    BY <1>0, <1>2, RowsMove
  <2>2. ~InLine(x) /\ ~Scheduled(x) /\ ~Retried(x)
    BY <2>1, ScheduledIsNew, RetriedReady DEF RunsOffLine
  <2>3. ~Recovered(x)
    <3> SUFFICES ASSUME Recovered(x) PROVE FALSE
      OBVIOUS
    <3>1. PICK w \in Slots : DetectCrash(w) /\ slots[w].busy = x /\ running[x] # NoSlot
      BY DEF Recovered
    <3>2. running' = [running EXCEPT ![x] = NoSlot]
      BY <3>1 DEF DetectCrash
    <3> QED
      BY <1>0, <3>2
  <2> QED
    BY <1>0, <2>2, <2>3, LineMoves
<1> QED
  BY <1>1, <1>2

LEMMA AttendedRestsNext ==
    ASSUME TaskInv, ExecInv, RunsOffLine, AttendedRests, OneJob, [Tasks_Next]_taskVars
    PROVE  AttendedRests'
<1>0. TaskTypes
  BY DEF TaskInv
<1> SUFFICES ASSUME NEW x \in Tasks, Attends(x)' PROVE running'[x] = NoSlot /\ ~InLine(x)'
  BY DEF AttendedRests
<1>1. CASE Attends(x)
  <2>1. ~Retried(x) /\ ~Scheduled(x) /\ running[x] = NoSlot /\ ~InLine(x)
    BY <1>1, AttendedNotRetried, ScheduledIsNew DEF AttendedRests
  <2> QED
    BY <2>1, StaysOut
<1>2. CASE Appended(x)
  <2>1. /\ pending' = pending /\ snapshot' = pending /\ events' = events /\ custody' = custody
        /\ running' = [running EXCEPT ![x] = NoSlot] /\ running[x] # NoSlot
    BY <1>2 DEF Appended, Timeout, threadVars
  <2>2. ~InLine(x)
    BY <2>1 DEF RunsOffLine
  <2>3. running \in [Tasks -> Slots \cup {NoSlot}]
    BY <1>0 DEF TaskTypes, QueueTypes
  <2> QED
    BY <2>1, <2>2, <2>3 DEF InLine, Announced, Withheld
<1> QED
  BY <1>0, <1>1, <1>2, AttendsMoves

LEMMA OneJobNext ==
    ASSUME TaskInv, ExecInv, AttendedRests, OneJob, [Tasks_Next]_taskVars PROVE OneJob'
<1>0. TaskTypes /\ RetryOnly /\ OneJob /\ jobs \in Seq(Waiting) /\ reaper \in JobType
  BY DEF TaskInv, ExecInv, TaskTypes, ReapTypes
<1>1. ASSUME NEW t \in Tasks, Appended(t)
      PROVE  /\ \A n \in DOMAIN jobs : jobs[n].task # t
             /\ reaper.pc \in {"kill", "check", "write", "retry"} => reaper.task # t
  <2>1. running[t] # NoSlot
    BY <1>1 DEF Appended, Timeout
  <2>2. ~Attends(t)
    BY <2>1 DEF AttendedRests
  <2>3. reaper.pc = "retry" => reaper.task # t
    BY <2>1 DEF ExecInv, Pledges, Vow, RetryOnly, Retrying
  <2> QED
    BY <2>2, <2>3 DEF Attends
<1>2. ASSUME NEW m \in DOMAIN jobs', NEW n \in DOMAIN jobs', jobs'[m].task = jobs'[n].task
      PROVE  m = n
  <2>1. CASE ReapTake
    <3>1. /\ m + 1 \in DOMAIN jobs /\ jobs'[m] = jobs[m + 1]
          /\ n + 1 \in DOMAIN jobs /\ jobs'[n] = jobs[n + 1]
      BY <1>0, <2>1 DEF ReapTake
    <3>2. m + 1 = n + 1
      BY <1>0, <1>2, <3>1 DEF OneJob
    <3>3. m \in Nat /\ n \in Nat
      <4>1. jobs' \in Seq(Waiting)
        BY <1>0, <2>1 DEF ReapTake
      <4> QED
        BY <4>1
    <3> QED
      BY <3>2, <3>3
  <2>2. CASE ~ReapTake
    <3>1. \/ m \in DOMAIN jobs /\ jobs'[m] = jobs[m]
          \/ \E t \in Tasks : Appended(t) /\ m = Len(jobs) + 1 /\ jobs'[m].task = t
      BY <1>0, <2>2, JobsStep
    <3>2. \/ n \in DOMAIN jobs /\ jobs'[n] = jobs[n]
          \/ \E t \in Tasks : Appended(t) /\ n = Len(jobs) + 1 /\ jobs'[n].task = t
      BY <1>0, <2>2, JobsStep
    <3> QED
      BY <1>0, <1>1, <1>2, <3>1, <3>2 DEF OneJob
  <2> QED
    BY <2>1, <2>2
<1>3. ASSUME reaper'.pc \in {"kill", "check", "write", "retry"}, NEW n \in DOMAIN jobs'
      PROVE  jobs'[n].task # reaper'.task
  <2>1. CASE ReapTake
    <3>1. /\ 1 \in DOMAIN jobs /\ reaper' = jobs[1]
          /\ n + 1 \in DOMAIN jobs /\ jobs'[n] = jobs[n + 1] /\ n + 1 # 1
      BY <1>0, <2>1 DEF ReapTake
    <3> QED
      BY <1>0, <3>1 DEF OneJob
  <2>2. CASE ~ReapTake
    <3>1. reaper.pc \in {"kill", "check", "write", "retry"} /\ reaper'.task = reaper.task
      <4>1. ReapMove
        BY <1>0, ReapsMove
      <4>2. CASE UNCHANGED reapVars \/ \E t \in Tasks : Appended(t)
        BY <1>3, <4>2 DEF reapVars, Appended
      <4>3. CASE ReapKill \/ (ReapCheck /\ MovedTo("write")) \/ (ReapWrite /\ MovedTo("retry"))
        BY <1>0, <4>3 DEF ReapKill, ReapCheck, ReapWrite, MovedTo, JobType
      <4> QED
        BY <1>3, <2>2, <4>1, <4>2, <4>3 DEF ReapMove
    <3>2. \/ n \in DOMAIN jobs /\ jobs'[n] = jobs[n]
          \/ \E t \in Tasks : Appended(t) /\ n = Len(jobs) + 1 /\ jobs'[n].task = t
      BY <1>0, <2>2, JobsStep
    <3> QED
      BY <1>0, <1>1, <3>1, <3>2 DEF OneJob
  <2> QED
    BY <2>1, <2>2
<1> QED
  BY <1>2, <1>3 DEF OneJob

---------------------------------------------------------------------------
(* A subagent that runs or is attended to is not interrupted: its result is *)
(* set to running as it is assigned.  A task whose retry has a result row   *)
(* is attended to no more.                                                  *)
Uninterrupted == \A t \in Subagents : running[t] # NoSlot \/ Attends(t) => result[t] # "interrupted"
RetriedOver   == \A t \in Tasks : Retry[t] # t /\ Retry[t] \in Known => ~Attends(t)

LEMMA UninterruptedNext ==
    ASSUME TaskInv, ExecInv, RunsOffLine, AttendedRests, OneJob, Uninterrupted,
           [Tasks_Next]_taskVars
    PROVE  Uninterrupted'
<1>0. /\ TaskTypes /\ result \in [Tasks -> Statuses] /\ "interrupted" \notin Settled
      /\ AttendedRests' /\ OneJob'
  BY AttendedRestsNext, OneJobNext DEF TaskInv, TaskTypes, ResultTypes, Settled
<1> SUFFICES ASSUME NEW x \in Subagents, running'[x] # NoSlot \/ Attends(x)',
                    result'[x] = "interrupted"
             PROVE  FALSE
  BY DEF Uninterrupted
<1>1. x \in Tasks
  OBVIOUS
<1>2. ASSUME running[x] = NoSlot, ~Attends(x) PROVE FALSE
  <2>1. CASE running'[x] # NoSlot
    <3>1. PICK w \in Slots : Assign(w, x)
      BY <1>0, <1>1, <1>2, <2>1, RowsMove
    <3>2. result'[x] = Written(result[x], "running")
      BY <1>0, <1>1, <3>1 DEF Assign
    <3> QED
      BY <1>0, <3>2, WrittenIs
  <2>2. CASE Attends(x)'
    <3>1. Appended(x)
      BY <1>0, <1>1, <1>2, <2>2, AttendsMoves
    <3> QED
      BY <1>2, <3>1 DEF Appended, Timeout
  <2> QED
    BY <2>1, <2>2
<1>3. CASE result'[x] = result[x]
  BY <1>2, <1>3 DEF Uninterrupted
<1>4. CASE result[x] = "none"
  <2>1. x \in Tasks \ Known
    BY <1>1, <1>4 DEF Known
  <2>2. Nowhere(x) /\ x # reaper.task
    BY <1>0, <2>1, NewIsNowhere
  <2> QED
    BY <1>2, <2>2 DEF Nowhere, Attends
<1>5. CASE Requeued(x)
  <2>1. running'[x] = NoSlot /\ InLine(x)'
    BY <1>5 DEF Requeued, InLine
  <2> QED
    BY <1>0, <1>1, <2>1 DEF AttendedRests
<1>6. CASE Retires(x)
  <2>1. reaper.task = x /\ reaper.pc = "write" /\ reaper'.pc \in {"retry", "respawn"}
        /\ running' = running /\ jobs' = jobs
    BY <1>6 DEF Retires
  <2>2. running[x] = NoSlot
    BY <1>1, <2>1 DEF AttendedRests, Attends
  <2>3. ~Attends(x)'
    BY <2>1 DEF Attends, OneJob
  <2> QED
    BY <2>1, <2>2, <2>3
<1> QED
  BY <1>0, <1>1, <1>3, <1>4, <1>5, <1>6, StatusMoves DEF StatusMove, IsSettled

LEMMA RetriedOverNext ==
    ASSUME TaskInv, ExecInv, OneJob, RetriedOver, [Tasks_Next]_taskVars PROVE RetriedOver'
<1>0. TaskTypes /\ result \in [Tasks -> Statuses] /\ reaper \in JobType
  BY DEF TaskInv, TaskTypes, ResultTypes, ReapTypes
<1> SUFFICES ASSUME NEW x \in Tasks, Retry[x] # x, Retry[x] \in Known', Attends(x)' PROVE FALSE
  BY DEF RetriedOver
<1>1. CASE Retry[x] \in Known
  <2>1. running[x] = NoSlot /\ ~Attends(x)
    BY <1>1 DEF ExecInv, GaveWay, Over, RetriedOver
  <2>2. Appended(x)
    BY <1>0, <2>1, AttendsMoves
  <2> QED
    BY <2>1, <2>2 DEF Appended, Timeout
<1>2. CASE Retry[x] \notin Known
  <2>1. PICK r \in Tasks : r = Retry[x]
    OBVIOUS
  <2>2. result[r] = "none" /\ result'[r] # "none" /\ IsRetry(r)
    BY <1>2, <2>1 DEF Known, IsRetry
  <2>3. ReapWrite /\ reaper.pc = "write" /\ reaper.task \in Known /\ r = Retry[reaper.task]
        /\ r # reaper.task
    BY <1>0, <2>2, NewRows, ScheduledIsNew
  <2>4. reaper.task = x
    BY <2>1, <2>3, KnownAreTasks, RetryAssumption
  <2>5. jobs' = jobs /\ reaper'.pc \in {"retry", "respawn"}
    BY <1>0, <2>3 DEF ReapWrite, JobType
  <2> QED
    BY <2>3, <2>4, <2>5 DEF Attends, OneJob
<1> QED
  BY <1>1, <1>2

---------------------------------------------------------------------------
\* A task which nobody has any more, as one whose outcome the reaper could not write.
Gone(t) == t \in Known /\ running[t] = NoSlot /\ ~InLine(t) /\ ~Attends(t) /\ ~Renewing(t)
Loose(t) == Gone(t) /\ result[t] # "interrupted"

LEMMA GoneStays ==
    ASSUME TaskInv, ExecInv, RetriedOver, [Tasks_Next]_taskVars, NEW x \in Tasks, Gone(x)
    PROVE  Gone(x)'
<1>0. TaskTypes /\ x \in Known /\ result[x] # "none" /\ x \in Known'
  <2>1. TaskTypes /\ ResultTypes
    BY DEF TaskInv, TaskTypes
  <2> QED
    BY <2>1, ResultMoves, KnownGrow DEF Gone, Known
<1>1. ~InLine(x)' /\ running'[x] = NoSlot
  <2>1. ~Scheduled(x) /\ ~Retried(x)
    BY <1>0, ScheduledIsNew DEF Gone, Retried, Renewing
  <2> QED
    BY <2>1, StaysOut DEF Gone
<1>2. ~Attends(x)'
  BY <1>0, AttendsMoves DEF Gone, Appended, Timeout
<1>3. ~Renewing(x)'
  <2> SUFFICES ASSUME Renewing(x)' PROVE FALSE
    OBVIOUS
  <2>1. reaper \in JobType /\ jobs \in Seq(Waiting) /\ ReapMove
    BY <1>0, ReapsMove DEF TaskTypes, ReapTypes
  <2>2. reaper'.pc = "retry" /\ Retry[reaper'.task] = x
    BY DEF Renewing
  <2>3. CASE UNCHANGED reapVars \/ \E t \in Tasks : Appended(t)
    BY <2>3 DEF reapVars, Appended, Renewing, Gone
  <2>4. CASE ReapTake
    <3>1. 1 \in DOMAIN jobs /\ reaper' = jobs[1]
      BY <2>1, <2>4 DEF ReapTake
    <3> QED
      BY <2>2, <3>1, JobTasks
  <2>5. CASE ReapKill \/ (ReapCheck /\ MovedTo("write"))
    BY <2>1, <2>2, <2>5 DEF ReapKill, MovedTo, JobType
  <2>6. CASE ReapWrite /\ MovedTo("retry")
    <3>1. reaper'.task = reaper.task /\ reaper.pc = "write"
      BY <2>1, <2>6 DEF MovedTo, ReapWrite, JobType
    <3>2. reaper.task \in Tasks /\ Attends(reaper.task)
      BY <3>1, JobTasks, KnownAreTasks DEF Attends
    <3> QED
      BY <1>0, <2>2, <3>1, <3>2 DEF RetriedOver, Gone
  <2> QED
    BY <2>1, <2>2, <2>3, <2>4, <2>5, <2>6 DEF ReapMove
<1> QED
  BY <1>0, <1>1, <1>2, <1>3 DEF Gone

LEMMA LooseStays ==
    ASSUME TaskInv, ExecInv, RetriedOver, [Tasks_Next]_taskVars, NEW x \in Tasks, Loose(x)
    PROVE  Loose(x)' \/ x \in SettledTasks'
<1>1. Gone(x)' /\ TaskTypes
  BY GoneStays DEF Loose, TaskInv
<1>2. CASE result'[x] = "interrupted"
  <2>1. ~Requeued(x) /\ ~Retires(x)
    BY DEF Requeued, Retires, Attends, Loose, Gone
  <2>2. result[x] # "none"
    BY DEF Loose, Gone, Known
  <2>3. IsSettled(x)'
    BY <1>1, <1>2, <2>1, <2>2, StatusMoves DEF StatusMove, Loose
  <2> QED
    BY <2>3 DEF SettledTasks
<1> QED
  BY <1>1, <1>2 DEF Loose

\* A task that is reported done is over, but for a subagent whose own result
\* is yet to be copied back and for what the reaper could not write.
OverTasks == Subagents \cup SettledTasks \cup used.adrift \cup {t \in Tasks : Loose(t)}
DoneIsOver == \A n \in DOMAIN events : events[n].kind = "done" => events[n].task \in OverTasks

LEMMA OverStays ==
    ASSUME TaskInv, ExecInv, RetriedOver, [Tasks_Next]_taskVars, NEW x \in OverTasks
    PROVE  x \in OverTasks'
<1>1. used.adrift \subseteq used'.adrift /\ SettledTasks \subseteq SettledTasks'
  BY IntentGoes, CrashesGrow DEF TaskInv
<1>2. CASE x \in Subagents \cup SettledTasks \cup used.adrift
  BY <1>1, <1>2 DEF OverTasks
<1>3. CASE x \in Tasks /\ Loose(x)
  BY <1>3, LooseStays DEF OverTasks
<1> QED
  BY <1>2, <1>3 DEF OverTasks

\* What the reaper reports without having written it.
LEMMA UnwrittenIsOver ==
    ASSUME TaskInv, ExecInv, AttendedRests, OneJob, [Tasks_Next]_taskVars,
           ReapWriteFails \/ ReapRetryFails
    PROVE  reaper.task \in OverTasks'
<1>0. /\ used \in UsedType /\ reaper \in JobType /\ result \in [Tasks -> Statuses]
      /\ TaskTypes /\ ResultTypes
  BY DEF TaskInv, TaskTypes, IntentTypes, ReapTypes, ResultTypes
<1>1. reaper.task \in Known /\ reaper.task \in Tasks
  BY JobTasks, KnownAreTasks DEF ReapWriteFails, ReapRetryFails
<1> SUFFICES ASSUME NEW t \in Tasks, t = reaper.task, t \in Known
             PROVE  t \in OverTasks'
  BY <1>1
<1>2. ASSUME NEW who, CountedWith("faults", "adrift", who), t \in who PROVE t \in OverTasks'
  <2>1. t \in used'.adrift
    BY <1>0, <1>2 DEF CountedWith, UsedType
  <2> QED
    BY <2>1 DEF OverTasks
<1>3. CASE ReapRetryFails
  BY <1>2, <1>3 DEF ReapRetryFails
<1>4. CASE ReapWriteFails /\ result'[t] = "interrupted"
  BY <1>1, <1>2, <1>4 DEF ReapWriteFails
<1>5. CASE ReapWriteFails /\ result'[t] # "interrupted"
  <2>1. reaper.pc = "write" /\ jobs' = jobs
        /\ reaper' = [reaper EXCEPT !.pc = "respawn", !.retry = FALSE]
    BY <1>5 DEF ReapWriteFails
  <2>2. Attends(t) /\ reaper'.pc = "respawn"
    BY <1>0, <2>1 DEF Attends, JobType
  <2>3. ~InLine(t)' /\ running'[t] = NoSlot
    <3>1. ~Scheduled(t) /\ ~Retried(t) /\ running[t] = NoSlot /\ ~InLine(t)
      BY <2>2, AttendedNotRetried, ScheduledIsNew DEF AttendedRests
    <3> QED
      BY <3>1, StaysOut
  <2>4. ~Attends(t)' /\ ~Renewing(t)'
    BY <2>1, <2>2 DEF Attends, Renewing, OneJob
  <2>5. t \in Known'
    <3>1. Known \subseteq Known'
      BY <1>0, ResultMoves, KnownGrow
    <3> QED
      BY <3>1
  <2>6. Loose(t)'
    BY <1>5, <2>3, <2>4, <2>5 DEF Loose, Gone
  <2> QED
    BY <2>6 DEF OverTasks
<1> QED
  BY <1>3, <1>4, <1>5

LEMMA DoneIsOverNext ==
    ASSUME TaskInv, ExecInv, FinishingIsOver, AttendedRests, OneJob, RetriedOver, DoneIsOver,
           [Tasks_Next]_taskVars
    PROVE  DoneIsOver'
<1>1. events \in Seq(EventType) /\ \A x \in OverTasks : x \in OverTasks'
  BY OverStays DEF TaskInv, TaskTypes, EventTypes
<1>2. CASE Crash
  BY <1>2 DEF Crash, DoneIsOver
<1>3. CASE events' = events
  BY <1>1, <1>3 DEF DoneIsOver
<1>4. CASE events' = Tail(events) /\ events # <<>>
  <2>1. \A n \in DOMAIN events' : n + 1 \in DOMAIN events /\ events'[n] = events[n + 1]
    BY <1>1, <1>4
  <2> QED
    BY <1>1, <2>1 DEF DoneIsOver
<1>5. ASSUME NEW e, events' = Append(events, e), e.kind = "done" => e.task \in OverTasks'
      PROVE  DoneIsOver'
  <2>1. \A n \in DOMAIN events' : (n \in DOMAIN events /\ events'[n] = events[n]) \/ events'[n] = e
    BY <1>1, <1>5
  <2> QED
    BY <1>1, <1>5, <2>1 DEF DoneIsOver
<1>6. ASSUME NEW w \in Slots, EmitDone(w), events' = Append(events, DoneEvent(slots[w].job, w))
      PROVE  DoneIsOver'
  <2>1. slots[w].job \in OverTasks
    BY <1>6 DEF EmitDone, FinishingIsOver, OverTasks
  <2>2. PICK e : e = DoneEvent(slots[w].job, w)
    OBVIOUS
  <2>3. e.task \in OverTasks'
    BY <1>1, <2>1, <2>2 DEF DoneEvent
  <2> QED
    BY <1>5, <1>6, <2>2, <2>3
<1>7. ASSUME NEW t, t \in OverTasks', events' = Emitted(t) PROVE DoneIsOver'
  <2>1. DoneEvent(t, NoSlot).task = t
    BY DEF DoneEvent
  <2> QED
    BY <1>5, <1>7, <2>1 DEF Emitted
<1>8. ASSUME NEW t, result'[t] \in Settled, events' = Emitted(t) PROVE DoneIsOver'
  <2>1. t \in Tasks
    <3>1. events' \in Seq(EventType')
      BY InvStep DEF TaskInv, TaskTypes, EventTypes
    <3>2. Len(events) + 1 \in DOMAIN events' /\ events'[Len(events) + 1] = DoneEvent(t, NoSlot)
      BY <1>1, <1>8 DEF Emitted
    <3>3. DoneEvent(t, NoSlot) \in EventType'
      BY <3>1, <3>2
    <3> QED
      BY <3>3 DEF EventType, DoneEvent, Known
  <2>2. t \in SettledTasks'
    BY <1>8, <2>1, SettledNext
  <2> QED
    BY <1>7, <1>8, <2>2 DEF OverTasks
<1>9. ASSUME NEW t, events' = Append(events, ScheduleEvent(t)) PROVE DoneIsOver'
  <2>1. ScheduleEvent(t).kind # "done"
    BY DEF ScheduleEvent
  <2> QED
    BY <1>5, <1>9, <2>1
<1>10. CASE (ReapWriteFails \/ ReapRetryFails) /\ events' = Emitted(reaper.task)
  <2>1. PICK t : t = reaper.task
    OBVIOUS
  <2> QED
    BY <1>7, <1>10, <2>1, UnwrittenIsOver
<1> QED
  BY <1>2, <1>3, <1>4, <1>6, <1>8, <1>9, <1>10, EventsTold DEF EventsTell

\* What the loop makes of a report of a task that was not interrupted: either
\* it is being cancelled, or it has its outcome, or it was let go.
LEMMA DoneOutcome ==
    ASSUME TaskInv, DoneIsOver, NEW x \in Tasks, HandledDone(x),
           x \in Subagents => result[x] # "interrupted"
    PROVE  x \in HandledTasks \/ x \in SettledTasks' \/ x \in used.adrift
<1>1. result \in [Tasks -> Statuses] /\ events \in Seq(EventType)
  BY DEF TaskInv, TaskTypes, ResultTypes, EventTypes
<1>2. x \in OverTasks
  <2>1. 1 \in DOMAIN events /\ events[1] = Head(events) /\ Head(events).kind = "done"
        /\ Head(events).task = x
    BY <1>1 DEF HandledDone, HandleDone
  <2> QED
    BY <2>1 DEF DoneIsOver
<1>3. x \in SettledTasks \/ x \in used.adrift \/ result[x] # "interrupted"
  BY <1>2 DEF OverTasks, Loose
<1>4. CASE result[x] # "interrupted" /\ ~HasIntent(x)
  <2> DEFINE copied == IF running[x] # NoSlot THEN CopiedBack(x) ELSE result[x]
             fault == copied \notin Settled \cup {"interrupted"}
             s == IF fault THEN "failed" ELSE copied
  <2>1. result' = [result EXCEPT ![x] = s]
    BY <1>4 DEF HandledDone, HandleDone
  <2>2. copied # "interrupted"
    <3>1. "interrupted" \notin Settled
      BY DEF Settled
    <3> QED
      BY <1>4, <3>1, CopiedIs
  <2>3. s \in Settled
    BY <2>2 DEF Settled
  <2>4. result'[x] \in Settled
    BY <1>1, <2>1, <2>3
  <2> QED
    BY <2>4, SettledNext
<1> QED
  BY <1>3, <1>4 DEF HandledTasks, SettledTasks

---------------------------------------------------------------------------
(* The slot of a running task has its work, or is dead, until the task is   *)
(* reported done; so has the slot whose process the reaper is to kill.  But *)
(* a struck slot may be respawned over the work of another.                 *)
Working(w, t) ==
    \/ ~Alive(w) \/ Given(w, t) \/ Reported(t)
    \/ t \in HandledTasks \/ t \in used.adrift \/ w \in used.struck
AtWork ==
    /\ \A t \in Tasks : running[t] # NoSlot => Working(running[t], t)
    /\ \A n \in DOMAIN jobs : Working(jobs[n].slot, jobs[n].task)
    /\ reaper.pc = "kill" => Working(reaper.slot, reaper.task)

\* Nobody respawns a slot that a row, a waiting job or a reaper before its
\* respawn has.
LEMMA NotRenewed ==
    ASSUME TaskTypes, SlotInv, NEW w \in Slots, w \notin used.struck,
           \/ \E t \in Tasks : running[t] = w
           \/ JobAt(w)
           \/ reaper.pc = "kill" /\ reaper.slot = w
    PROVE  ~Renewed(w)
<1>1. ASSUME reaper.pc = "respawn", reaper.slot = w PROVE FALSE
  <2>1. ReaperAt(w)
    BY <1>1 DEF ReaperAt
  <2> QED
    BY <1>1, <2>1, OwnedByReaper
<1>2. ASSUME NEW th \in Threads, custody[th].pc = "respawn", custody[th].slot = w PROVE FALSE
  <2>1. reaper.pc = "kill" /\ reaper.slot = w => ReaperAt(w)
    BY DEF ReaperAt
  <2> QED
    BY <1>2, <2>1, OwnedByThread
<1> QED
  BY <1>1, <1>2 DEF Renewed

LEMMA WorkingStays ==
    ASSUME TaskInv, IdleIsFree, DoneIsOver, [Tasks_Next]_taskVars, ~Crash,
           NEW w \in Slots, NEW x \in Tasks, w \in used.struck \/ ~Renewed(w), Working(w, x),
           x \in Subagents => result[x] # "interrupted"
    PROVE  Working(w, x)'
<1>0. /\ TaskTypes /\ HandledTasks \subseteq HandledTasks'
      /\ used.adrift \subseteq used'.adrift /\ used.struck \subseteq used'.struck
  BY IntentGoes, CrashesGrow, UsedGrows DEF TaskInv, Counting
<1>1. CASE ~Renewed(w) /\ (~Alive(w) \/ Given(w, x))
  BY <1>0, <1>1, WorkContinues, ReportedNow DEF Working
<1>2. CASE x \in HandledTasks \/ x \in used.adrift \/ w \in used.struck
  BY <1>0, <1>2 DEF Working
<1>3. CASE Reported(x)
  <2>1. Reported(x)' \/ HandledDone(x)
    BY <1>3, ReportStays
  <2>2. SettledTasks' \subseteq HandledTasks'
    BY DEF SettledTasks, HandledTasks
  <2>3. HandledDone(x) => x \in HandledTasks' \/ x \in used'.adrift
    BY <1>0, <2>2, DoneOutcome
  <2> QED
    BY <2>1, <2>3 DEF Working
<1> QED
  BY <1>1, <1>2, <1>3 DEF Working

LEMMA AtWorkNext ==
    ASSUME TaskInv, SlotInv, IdleIsFree, DoneIsOver, Uninterrupted, AtWork, [Tasks_Next]_taskVars
    PROVE  AtWork'
<1>0. /\ TaskTypes /\ running \in [Tasks -> Slots \cup {NoSlot}] /\ jobs \in Seq(Waiting)
      /\ slots \in [Slots -> SlotType] /\ reaper \in JobType
  BY DEF TaskInv, TaskTypes, QueueTypes, ReapTypes, SlotTypes
<1>1. CASE Crash
  <2>1. running' = [t \in Tasks |-> NoSlot] /\ jobs' = <<>> /\ reaper'.pc = "idle"
    BY <1>1 DEF Crash, NoJob
  <2> QED
    BY <2>1 DEF AtWork
<1> SUFFICES ASSUME ~Crash PROVE AtWork'
  BY <1>1
<1>2. ASSUME NEW x \in Tasks, NEW w \in Slots, running[x] = w PROVE Working(w, x)'
  <2>1. running[x] # NoSlot
    BY <1>2
  <2>2. /\ w \in used.struck \/ ~Renewed(w)
        /\ Working(w, x) /\ (x \in Subagents => result[x] # "interrupted")
    BY <1>0, <1>2, <2>1, NotRenewed DEF AtWork, Uninterrupted
  <2> QED
    BY <2>2, WorkingStays
<1>3. ASSUME NEW n \in DOMAIN jobs, NEW w, NEW x, w = jobs[n].slot, x = jobs[n].task
      PROVE  Working(w, x)'
  <2>1. jobs[n] \in Waiting
    BY <1>0
  <2>2. w \in Slots /\ x \in Tasks
    BY <1>3, <2>1, KnownAreTasks DEF Waiting, Job
  <2>3. JobAt(w) /\ Attends(x)
    BY <1>3 DEF JobAt, Attends
  <2>4. /\ w \in used.struck \/ ~Renewed(w)
        /\ Working(w, x) /\ (x \in Subagents => result[x] # "interrupted")
    BY <1>0, <1>3, <2>2, <2>3, NotRenewed DEF AtWork, Uninterrupted
  <2> QED
    BY <2>2, <2>4, WorkingStays
<1>4. ASSUME reaper.pc = "kill", NEW w, NEW x, w = reaper.slot, x = reaper.task
      PROVE  Working(w, x)'
  <2>1. w \in Slots /\ x \in Tasks
    BY <1>0, <1>4, KnownAreTasks DEF TaskTypes, ReapTypes, Job
  <2>2. Attends(x)
    BY <1>4 DEF Attends
  <2>3. /\ w \in used.struck \/ ~Renewed(w)
        /\ Working(w, x) /\ (x \in Subagents => result[x] # "interrupted")
    BY <1>0, <1>4, <2>1, <2>2, NotRenewed DEF AtWork, Uninterrupted
  <2> QED
    BY <2>1, <2>3, WorkingStays
<1>5. ASSUME NEW x \in Tasks, NEW w, w = running'[x], w # NoSlot PROVE Working(w, x)'
  <2>1. CASE running'[x] = running[x]
    BY <1>0, <1>2, <1>5, <2>1
  <2>2. CASE \E v \in Slots : Assign(v, x)
    <3>1. PICK v \in Slots : Assign(v, x)
      BY <2>2
    <3>2. w = v /\ slots[v].inq \in Seq(Known)
      BY <1>0, <1>5, <3>1 DEF Assign, SlotType
    <3>3. slots'[v].inq = Append(slots[v].inq, x)
      BY <1>0, <3>1 DEF Assign, SlotType
    <3>4. Len(slots[v].inq) + 1 \in DOMAIN slots'[v].inq
          /\ slots'[v].inq[Len(slots[v].inq) + 1] = x
      BY <3>2, <3>3
    <3> QED
      BY <3>2, <3>4 DEF Working, Given
  <2> QED
    BY <1>0, <1>5, <2>1, <2>2, RowsMove
<1>6. ASSUME NEW n \in DOMAIN jobs', NEW w, NEW x, w = jobs'[n].slot, x = jobs'[n].task
      PROVE  Working(w, x)'
  <2>1. CASE \E k \in DOMAIN jobs : jobs'[n] = jobs[k]
    BY <1>3, <1>6, <2>1
  <2>2. ASSUME NEW t \in Tasks, Appended(t), n = Len(jobs) + 1 PROVE Working(w, x)'
    <3>1. PICK j : jobs' = Append(jobs, j) /\ j.task = t /\ j.slot = running[t]
      BY <2>2 DEF Appended
    <3>2. jobs'[n] = j
      BY <1>0, <2>2, <3>1
    <3>3. x = t /\ w = running[t] /\ w \in Slots
      BY <1>0, <1>6, <2>2, <3>1, <3>2 DEF Appended, Timeout
    <3> QED
      BY <1>2, <3>3
  <2> QED
    BY <1>0, <2>1, <2>2, JobsStep
<1>7. ASSUME reaper'.pc = "kill", NEW w, NEW x, w = reaper'.slot, x = reaper'.task
      PROVE  Working(w, x)'
  <2>1. CASE UNCHANGED reapVars \/ \E t \in Tasks : Appended(t)
    BY <1>4, <1>7, <2>1 DEF reapVars, Appended
  <2>2. CASE ReapTake
    <3>1. 1 \in DOMAIN jobs /\ reaper' = jobs[1]
      BY <1>0, <2>2 DEF ReapTake
    <3> QED
      BY <1>3, <1>7, <3>1
  <2>3. CASE ReapKill \/ (ReapCheck /\ MovedTo("write")) \/ (ReapWrite /\ MovedTo("retry"))
    BY <1>0, <1>7, <2>3 DEF ReapKill, MovedTo, JobType
  <2> QED
    BY <1>0, <1>7, <2>1, <2>2, <2>3, ReapsMove DEF ReapMove
<1> QED
  BY <1>5, <1>6, <1>7 DEF AtWork

---------------------------------------------------------------------------
\* A custody comes to have a slot as it captures the slot's task, or as the
\* crash detector finds it unmarked.
LEMMA SlotTaken ==
    ASSUME TaskInv, [Tasks_Next]_taskVars, NEW th \in Threads, NEW w \in Slots,
           custody'[th].slot = w, custody[th].slot # w
    PROVE  ~slots[w].reaping \/ slots[w].busy \in Tasks
<1> DEFINE Goal == ~slots[w].reaping \/ slots[w].busy \in Tasks
<1>1. /\ custody \in [Threads -> CustodyType] /\ custody[th] \in CustodyType
      /\ NoCustody.slot # w
  BY DEF TaskInv, TaskTypes, ThreadTypes, NoCustody
<1>3. ASSUME custody' = custody PROVE Goal
  BY <1>3
<1>4. ASSUME NEW o, NEW d, custody' = [custody EXCEPT ![o] = d],
             o \in Threads => d.slot # w \/ d.slot = custody[o].slot
      PROVE  Goal
  BY <1>1, <1>4
<1>5. ASSUME NEW o \in Threads, NEW at, Goto(o, at) PROVE Goal
  <2> DEFINE d == [custody[o] EXCEPT !.pc = at]
  <2>1. custody[o] \in CustodyType
    BY <1>1
  <2>2. custody' = [custody EXCEPT ![o] = d] /\ d.slot = custody[o].slot
    BY <1>1, <1>5, <2>1 DEF Goto, CustodyType
  <2> HIDE DEF d
  <2> QED
    BY <1>4, <2>2
<1>7. ASSUME NEW o, NEW b, Ended(o, b) PROVE Goal
  BY <1>1, <1>4, <1>7 DEF Ended
<1>8. ASSUME NEW o, NEW t, NEW b, Take(o, t, b) PROVE Goal
  <2> DEFINE d == [NoCustody EXCEPT !.pc = "claim", !.task = t, !.deliver = b]
  <2>1. custody' = [custody EXCEPT ![o] = d] /\ d.slot # w
    BY <1>1, <1>8 DEF Take, NoCustody
  <2> HIDE DEF d
  <2> QED
    BY <1>4, <2>1
<1>9. CASE \/ HandleSchedule \/ HandleDone \/ \E t \in Tasks : DropPending(t) \/ DropPendingFails(t)
           \/ \E t \in Tasks : \E v \in Slots : Assign(v, t)
           \/ ReaperStep \/ ReaperFault
           \/ \E v \in Slots : WorkerStep(v) \/ \E t \in Tasks : ScheduleChild(v, t)
           \/ \E v \in Slots : WorkerDies(v)
           \/ \E t \in Tasks : Timeout(t) \/ RequestByWorker(t)
           \/ UNCHANGED taskVars
  <2>1. custody' = custody
    BY <1>9 DEF HandleSchedule, HandleDone, DropPending, DropPendingFails, Assign, ReaperStep,
       ReapTake, ReapKill, ReapCheck, ReapWrite, ReapRetry, ReapRespawn, ReaperFault, ReapWedged,
       ReapWriteFails, ReapRetryFails, ReapRespawnFails, WorkerStep, StartTask, FinishTask,
       EmitDone, ScheduleChild, WorkerDies, Timeout, RequestByWorker, threadVars, taskVars
  <2> QED
    BY <1>3, <2>1
<1>10. ASSUME NEW v \in Slots, DetectCrash(v) PROVE Goal
  <2>1. CASE v = w
    BY <1>10, <2>1 DEF DetectCrash
  <2>2. CASE v # w
    <3> DEFINE d == [NoCustody EXCEPT !.pc = "respawn", !.slot = v]
    <3>1. custody' = [custody EXCEPT ![Main] = d] /\ d.slot = v
      BY <1>10 DEF DetectCrash, NoCustody
    <3> HIDE DEF d
    <3> QED
      BY <1>4, <2>2, <3>1
  <2> QED
    BY <2>1, <2>2
<1>11. CASE Crash
  BY <1>1, <1>11 DEF Crash
<1>12. CASE \/ \E t \in Tasks : Watchdog(t)
            \/ \E c \in Clients, t \in Tasks : RequestSingle(c, t) \/ RequestCascade(c, t)
  BY <1>3, <1>8, <1>12 DEF Watchdog, RequestSingle, RequestCascade
<1>13. ASSUME NEW o \in Threads, CascadeStep(o) PROVE Goal
  <2>1. CASE \E t \in Tasks : CascadeTake(o, t)
    BY <1>8, <2>1 DEF CascadeTake
  <2>2. CASE ~\E t \in Tasks : CascadeTake(o, t)
    BY <1>3, <1>13, <2>2 DEF CascadeStep, CascadeBegin, CascadeSweep, CascadeMint, CascadePost,
       CascadeSummary, CascadeClose
  <2> QED
    BY <1>13, <2>1, <2>2
<1>14. ASSUME NEW o \in Threads, CustodyStep(o) \/ CustodyFault(o) PROVE Goal
  <2>0. custody[o] \in CustodyType
    BY <1>1
  <2>1. CASE Claim(o)
    <3>1. ASSUME NEW q, NEW b,
                 custody' = [custody EXCEPT ![o].pc = "capture", ![o].claim = q, ![o].took = b]
          PROVE  Goal
      <4> DEFINE d == [custody[o] EXCEPT !.pc = "capture", !.claim = q, !.took = b]
      <4>1. custody' = [custody EXCEPT ![o] = d] /\ d.slot = custody[o].slot
        BY <1>1, <2>0, <3>1 DEF CustodyType
      <4> HIDE DEF d
      <4> QED
        BY <1>4, <4>1
    <3> QED
      BY <1>5, <1>7, <2>1, <3>1 DEF Claim
  <2>2. CASE CapturePending(o) \/ CaptureNothing(o)
    BY <1>5, <2>2 DEF CapturePending, CaptureNothing
  <2>3. CASE CaptureRunning(o)
    <3>1. ASSUME NEW v \in Holders(custody[o].task),
                 custody' = [custody EXCEPT ![o].pc = "kill", ![o].slot = v,
                                 ![o].inc = slots[v].inc, ![o].settled = IsSettled(custody[o].task),
                                 ![o].then = "publish"]
          PROVE  Goal
      <4> DEFINE d == [custody[o] EXCEPT !.pc = "kill", !.slot = v, !.inc = slots[v].inc,
                          !.settled = IsSettled(custody[o].task), !.then = "publish"]
      <4>1. custody' = [custody EXCEPT ![o] = d]
        BY <1>1, <3>1
      <4>2. d.slot = v
        BY <2>0 DEF CustodyType
      <4>3. slots[v].busy = custody[o].task /\ custody[o].task \in Tasks
        <5>1. custody[o].pc = "capture"
          BY <2>3 DEF CaptureRunning, Active
        <5>2. custody[o].task \in Known
          BY <5>1 DEF TaskInv, TaskTypes, ThreadTypes, CustodyShape
        <5> QED
          BY <3>1, <5>2, KnownAreTasks DEF Holders
      <4> HIDE DEF d
      <4>4. CASE v = w
        BY <4>3, <4>4
      <4>5. CASE v # w
        BY <1>4, <4>1, <4>2, <4>5
      <4> QED
        BY <4>4, <4>5
    <3>2. \/ \E b : Ended(o, b)
          \/ \E v \in Holders(custody[o].task) :
                custody' = [custody EXCEPT ![o].pc = "kill", ![o].slot = v,
                                ![o].inc = slots[v].inc, ![o].settled = IsSettled(custody[o].task),
                                ![o].then = "publish"]
      BY <2>3 DEF CaptureRunning, GivenUp
    <3> QED
      BY <1>7, <3>1, <3>2
  <2>5. CASE WritePending(o)
    <3>1. PICK n : custody' = [custody EXCEPT ![o].pc = "settle", ![o].then = n]
      BY <2>5 DEF WritePending
    <3> DEFINE d == [custody[o] EXCEPT !.pc = "settle", !.then = n]
    <3>2. custody' = [custody EXCEPT ![o] = d] /\ d.slot = custody[o].slot
      BY <1>1, <2>0, <3>1 DEF CustodyType
    <3> HIDE DEF d
    <3> QED
      BY <1>4, <3>2
  <2>6. CASE KillWorker(o) \/ WriteRunning(o) \/ RegisterOwed(o) \/ Publish(o)
    BY <1>5, <2>6 DEF KillWorker, WriteRunning, RegisterOwed, Publish
  <2>7. CASE Miss(o)
    <3>1. ASSUME NEW n, custody' = [custody EXCEPT ![o].pc = "owed", ![o].deliver = TRUE,
                                                   ![o].then = n]
          PROVE  Goal
      <4> DEFINE d == [custody[o] EXCEPT !.pc = "owed", !.deliver = TRUE, !.then = n]
      <4>1. custody' = [custody EXCEPT ![o] = d] /\ d.slot = custody[o].slot
        BY <1>1, <2>0, <3>1 DEF CustodyType
      <4> HIDE DEF d
      <4> QED
        BY <1>4, <4>1
    <3> QED
      BY <1>5, <1>7, <2>7, <3>1 DEF Miss
  <2>8. CASE Settle(o) \/ OwedFails(o)
    <3>1. custody[o].then \in {"publish", "emit", "end"}
      BY <2>0 DEF CustodyType, Thens
    <3>2. CASE custody[o].then = "publish"
      BY <1>5, <2>8, <3>2 DEF Settle, OwedFails
    <3>3. CASE custody[o].then = "emit"
      BY <1>7, <2>8, <3>3 DEF Settle, OwedFails
    <3>4. CASE custody[o].then = "end"
      BY <1>7, <2>8, <3>4 DEF Settle, OwedFails
    <3> QED
      BY <3>1, <3>2, <3>3, <3>4
  <2>9. CASE \/ WriteRefused(o) \/ Respawn(o) \/ WritePendingFails(o) \/ WorkerSurvives(o)
             \/ WriteRunningFails(o) \/ MissFails(o) \/ RespawnFails(o)
    BY <1>7, <2>9 DEF WriteRefused, Respawn, WritePendingFails, WorkerSurvives, WriteRunningFails,
       MissFails, RespawnFails, GivenUp
  <2> QED
    BY <1>14, <2>1, <2>2, <2>3, <2>5, <2>6, <2>7, <2>8, <2>9 DEF CustodyStep, CustodyFault
<1> QED
  BY <1>9, <1>10, <1>11, <1>12, <1>13, <1>14 DEF Tasks_Next, LoopStep, Environment, Fault

---------------------------------------------------------------------------
\* A mark stays on a slot that no custody has and no reaper is about to respawn.
LEMMA MarkStays ==
    ASSUME TaskTypes, [Tasks_Next]_taskVars, ~Crash, NEW w \in Slots, slots[w].reaping,
           ~(reaper.pc = "respawn" /\ reaper.slot = w), \A th \in Threads : custody[th].slot # w
    PROVE  slots'[w].reaping
<1> DEFINE Goal == slots'[w].reaping
<1>1. slots \in [Slots -> SlotType] /\ \A v \in Slots : slots[v] \in SlotType
  BY DEF TaskTypes, SlotTypes
<1>2. ASSUME slots' = slots PROVE Goal
  BY <1>2
<1>3. ASSUME NEW v, NEW s, slots' = [slots EXCEPT ![v] = s], v = w => s.reaping PROVE Goal
  BY <1>1, <1>3
<1>4. \A v \in Slots : \A p : [slots[v] EXCEPT !.proc = p].reaping = slots[v].reaping
  BY <1>1 DEF SlotType
<1>5. ASSUME NEW v, NEW n, slots' = Killed(v, n) PROVE Goal
  BY <1>1, <1>2, <1>3, <1>4, <1>5 DEF Killed
<1>6. ASSUME NEW v \in Slots, WorkerStep(v) \/ (\E t \in Tasks : Assign(v, t)) \/ WorkerDies(v)
      PROVE  Goal
  <2>1. CASE v # w
    BY <1>1, <1>6, <2>1 DEF WorkerStep, StartTask, FinishTask, EmitDone, Assign, WorkerDies
  <2>2. CASE v = w
    <3>1. CASE StartTask(v)
      <4>1. slots'[w] = [slots[w] EXCEPT !.proc = "working", !.job = Head(slots[w].inq),
                                         !.inq = Tail(slots[w].inq)]
        BY <1>1, <2>2, <3>1 DEF StartTask
      <4> QED
        BY <1>1, <4>1 DEF SlotType
    <3>2. CASE FinishTask(v)
      <4>1. slots'[w] = [slots[w] EXCEPT !.proc = "finishing"]
        BY <1>1, <2>2, <3>2 DEF FinishTask
      <4> QED
        BY <1>1, <4>1 DEF SlotType
    <3>5. CASE WorkerDies(v)
      <4>1. slots'[w] = [slots[w] EXCEPT !.proc = "dead"]
        BY <1>1, <2>2, <3>5 DEF WorkerDies
      <4> QED
        BY <1>1, <4>1 DEF SlotType
    <3>3. CASE EmitDone(v)
      BY <1>1, <2>2, <3>3 DEF EmitDone, SlotType
    <3>4. CASE \E t \in Tasks : Assign(v, t)
      BY <2>2, <3>4 DEF Assign
    <3> QED
      BY <1>6, <3>1, <3>2, <3>3, <3>4, <3>5 DEF WorkerStep
  <2> QED
    BY <2>1, <2>2
<1>7. CASE HandleDone
  <2>1. slots'[w] \in {slots[w], [slots[w] EXCEPT !.busy = NoTask]}
    BY <1>1, <1>7 DEF HandleDone
  <2> QED
    BY <1>1, <2>1 DEF SlotType
<1>8. ASSUME NEW v \in Slots, DetectCrash(v) PROVE Goal
  BY <1>1, <1>8 DEF DetectCrash, SlotType
<1>9. ASSUME NEW t \in Tasks, Timeout(t) PROVE Goal
  <2> DEFINE v == running[t]
             b == IF slots[v].busy = t THEN NoTask ELSE slots[v].busy
             s == [slots[v] EXCEPT !.reaping = TRUE, !.busy = b]
  <2>1. slots' = [slots EXCEPT ![v] = s]
    BY <1>1, <1>9 DEF Timeout
  <2>2. v = w => s.reaping
    BY <1>1 DEF SlotType
  <2> HIDE DEF s, v
  <2> QED
    BY <1>3, <2>1, <2>2
<1>10. CASE ReaperStep \/ ReaperFault
  <2> DEFINE v == reaper.slot
  <2>1. \/ slots' = slots \/ slots' = Killed(v, reaper.inc)
        \/ slots' = [slots EXCEPT ![v] = Respawned(v)] /\ reaper.pc = "respawn"
        \/ slots' = [slots EXCEPT ![v] = [slots[v] EXCEPT !.reaping = FALSE]] /\ reaper.pc = "respawn"
    BY <1>1, <1>10 DEF ReaperStep, ReapTake, ReapKill, ReapCheck, ReapWrite, ReapRetry, ReapRespawn,
       ReaperFault, ReapWedged, ReapWriteFails, ReapRetryFails, ReapRespawnFails
  <2>2. reaper.pc = "respawn" => v # w
    OBVIOUS
  <2> HIDE DEF v
  <2>3. ASSUME NEW x, slots' = [slots EXCEPT ![v] = x], reaper.pc = "respawn" PROVE Goal
    BY <1>3, <2>2, <2>3
  <2>4. ASSUME slots' = slots \/ slots' = Killed(v, reaper.inc) PROVE Goal
    BY <1>2, <1>5, <2>4
  <2> HIDE DEF Goal
  <2>5. Goal
    BY <2>1, <2>3, <2>4, Zenon
  <2> QED
    BY <2>5 DEF Goal
<1>11. ASSUME NEW th \in Threads, CustodyStep(th) \/ CustodyFault(th) PROVE Goal
  <2> DEFINE v == custody[th].slot
  <2>0. v # w
    OBVIOUS
  <2>1. CASE \/ Claim(th) \/ CapturePending(th) \/ CaptureNothing(th) \/ WritePending(th)
             \/ WritePendingFails(th) \/ WriteRunning(th) \/ Miss(th) \/ MissFails(th)
             \/ RegisterOwed(th) \/ OwedFails(th) \/ Settle(th) \/ Publish(th)
    BY <1>2, <2>1 DEF Claim, CapturePending, CaptureNothing, WritePending, WritePendingFails,
       WriteRunning, Miss, MissFails, RegisterOwed, OwedFails, Settle, Publish
  <2>2. CASE CaptureRunning(th)
    <3>1. \/ slots' = slots
          \/ \E u \in Slots : slots' = [slots EXCEPT ![u] = [slots[u] EXCEPT !.reaping = TRUE]]
      BY <1>1, <2>2 DEF CaptureRunning, Holders
    <3>2. ASSUME NEW u \in Slots, slots' = [slots EXCEPT ![u] = [slots[u] EXCEPT !.reaping = TRUE]]
          PROVE  Goal
      <4> DEFINE s == [slots[u] EXCEPT !.reaping = TRUE]
      <4>1. slots' = [slots EXCEPT ![u] = s] /\ s.reaping
        BY <1>1, <3>2 DEF SlotType
      <4> HIDE DEF s, Goal
      <4> QED
        BY <1>3, <4>1
    <3> HIDE DEF Goal
    <3> QED
      BY <1>2, <3>1, <3>2
  <2>3. CASE KillWorker(th)
    BY <1>5, <2>3 DEF KillWorker
  <2>4. CASE \/ WorkerSurvives(th) \/ WriteRunningFails(th) \/ WriteRefused(th)
             \/ Respawn(th) \/ RespawnFails(th)
    <3>1. slots' = slots \/ \E s : slots' = [slots EXCEPT ![v] = s]
      BY <1>1, <2>4 DEF WorkerSurvives, WriteRunningFails, WriteRefused, Respawn, RespawnFails,
         Unreaped
    <3> HIDE DEF v
    <3> QED
      BY <1>2, <1>3, <2>0, <3>1
  <2> QED
    BY <1>11, <2>1, <2>2, <2>3, <2>4 DEF CustodyStep, CustodyFault
<1>12. CASE \/ HandleSchedule \/ \E t \in Tasks : DropPending(t) \/ DropPendingFails(t)
            \/ \E v \in Slots : \E t \in Tasks : ScheduleChild(v, t)
            \/ \E t \in Tasks : RequestByWorker(t) \/ Watchdog(t)
            \/ \E c \in Clients, t \in Tasks : RequestSingle(c, t) \/ RequestCascade(c, t)
            \/ \E th \in Threads : CascadeStep(th)
            \/ UNCHANGED taskVars
  <2>1. slots' = slots
    BY <1>12 DEF HandleSchedule, DropPending, DropPendingFails, ScheduleChild, RequestByWorker,
       RequestSingle, RequestCascade, Watchdog, CascadeStep, CascadeBegin, CascadeSweep,
       CascadeMint, CascadeTake, CascadePost, CascadeSummary, CascadeClose, taskVars
  <2> QED
    BY <1>2, <2>1
<1> QED
  BY <1>6, <1>7, <1>8, <1>9, <1>10, <1>11, <1>12 DEF Tasks_Next, LoopStep, Environment, Fault

\* Only the reaper moves its job, and only it and a timeout change its queue.
LEMMA ReaperActs ==
    ASSUME [Tasks_Next]_taskVars, ~Crash
    PROVE  /\ reaper' = reaper \/ ReaperStep \/ ReaperFault
           /\ jobs' = jobs \/ ReapTake \/ \E t \in Tasks : Timeout(t)
<1>1. CASE ReaperStep \/ ReaperFault
  BY <1>1 DEF ReaperStep, ReapKill, ReapCheck, ReapWrite, ReapRetry, ReapRespawn, ReaperFault,
     ReapWedged, ReapWriteFails, ReapRetryFails, ReapRespawnFails
<1>2. CASE \E t \in Tasks : Timeout(t)
  BY <1>2 DEF Timeout
<1>3. CASE LoopStep \/ UNCHANGED taskVars
           \/ \E w \in Slots : WorkerStep(w) \/ \E t \in Tasks : ScheduleChild(w, t)
  BY <1>3 DEF LoopStep, HandleSchedule, HandleDone, DropPending, Assign, DetectCrash, WorkerStep,
     StartTask, FinishTask, EmitDone, ScheduleChild, reapVars, taskVars
<1>4. ASSUME NEW th \in Threads, CustodyStep(th) \/ CustodyFault(th) PROVE UNCHANGED reapVars
  <2>1. CASE CustodyStep(th)
    BY <2>1 DEF CustodyStep, Claim, CapturePending, CaptureRunning, CaptureNothing, WritePending,
       KillWorker, WriteRunning, WriteRefused, Miss, RegisterOwed, Settle, Publish, Respawn
  <2>2. CASE CustodyFault(th)
    BY <2>2 DEF CustodyFault, WritePendingFails, WorkerSurvives, WriteRunningFails, MissFails,
       OwedFails, RespawnFails
  <2> QED
    BY <1>4, <2>1, <2>2
<1>5. CASE \/ \E t \in Tasks : Watchdog(t) \/ RequestByWorker(t) \/ DropPendingFails(t)
           \/ \E w \in Slots : WorkerDies(w)
           \/ \E c \in Clients, t \in Tasks : RequestSingle(c, t) \/ RequestCascade(c, t)
           \/ \E th \in Threads : CascadeStep(th)
  BY <1>5 DEF Watchdog, RequestByWorker, DropPendingFails, WorkerDies, RequestSingle,
     RequestCascade, CascadeStep, CascadeBegin, CascadeSweep, CascadeMint, CascadeTake,
     CascadePost, CascadeSummary, CascadeClose, reapVars
<1> QED
  BY <1>1, <1>2, <1>3, <1>4, <1>5 DEF Tasks_Next, Environment, Fault, reapVars

(* A wedged worker: its slot stays marked and nobody owns it any more.      *)
Wedge(w, t) ==
    /\ slots[w].reaping /\ Given(w, t)
    /\ slots[w].busy = NoTask /\ \A x \in Tasks : running[x] # w
    /\ ~ReaperAt(w) /\ ~JobAt(w) /\ \A th \in Threads : custody[th].slot # w

LEMMA WedgeStays ==
    ASSUME TaskInv, IdleIsFree, [Tasks_Next]_taskVars, ~Crash,
           NEW w \in Slots, NEW x \in Tasks, Wedge(w, x)
    PROVE  Wedge(w, x)' \/ Reported(x)'
<1>0. /\ TaskTypes /\ jobs \in Seq(Waiting) /\ reaper \in JobType /\ w # NoSlot
      /\ running \in [Tasks -> Slots \cup {NoSlot}]
  BY DEF TaskInv, TaskTypes, ReapTypes, QueueTypes
<1>1. slots[w].busy = NoTask /\ \A t \in Tasks : running[t] # w
  BY DEF Wedge
<1>7. ASSUME NEW t \in Tasks PROVE running'[t] # w
  <2>1. ~Assign(w, t)
    BY DEF Assign, Wedge
  <2>2. ASSUME NEW v \in Slots, Assign(v, t) PROVE running'[t] = v
    BY <1>0, <2>2 DEF Assign
  <2> QED
    BY <1>0, <1>1, <2>1, <2>2, RowsMove
<1>8. slots'[w].busy = NoTask
  <2>1. \A t : ~Assign(w, t)
    BY DEF Assign, Wedge
  <2> QED
    BY <1>0, <1>1, <2>1, SlotChange DEF Keeps, SameWork, Assigned, Replaced
<1>2. slots'[w].reaping
  BY <1>0, MarkStays DEF Wedge, ReaperAt
<1>3. Given(w, x)' \/ Reported(x)'
  BY <1>0, WorkContinues, ReportedNow DEF Wedge, Renewed, ReaperAt
<1>4. \A th \in Threads : custody'[th].slot # w
  BY <1>1, SlotTaken DEF Wedge
<1>5. ~JobAt(w)'
  <2>1. CASE jobs' = jobs
    BY <2>1 DEF JobAt, Wedge
  <2>2. CASE ReapTake
    <3>1. \A n \in DOMAIN jobs' : n + 1 \in DOMAIN jobs /\ jobs'[n] = jobs[n + 1]
      BY <1>0, <2>2 DEF ReapTake
    <3> QED
      BY <3>1 DEF JobAt, Wedge
  <2>3. ASSUME NEW t \in Tasks, Timeout(t) PROVE ~JobAt(w)'
    <3>1. PICK j : jobs' = Append(jobs, j) /\ j.slot # w
      <4> DEFINE new(b) == [NoJob EXCEPT !.pc = "kill", !.task = t, !.slot = running[t],
                               !.inc = slots[running[t]].inc, !.retry = b]
      <4>1. \A b : new(b).slot = running[t]
        BY DEF NoJob
      <4>2. \E b : jobs' = Append(jobs, new(b))
        BY <2>3 DEF Timeout
      <4>3. running[t] # w
        BY <1>1, <2>3 DEF Timeout
      <4> HIDE DEF new
      <4> QED
        BY <4>1, <4>2, <4>3
    <3>2. \A n \in DOMAIN jobs' : (n \in DOMAIN jobs /\ jobs'[n] = jobs[n]) \/ jobs'[n] = j
      BY <1>0, <3>1
    <3> QED
      BY <3>1, <3>2 DEF JobAt, Wedge
  <2> QED
    BY <2>1, <2>2, <2>3, ReaperActs
<1>6. ~ReaperAt(w)'
  <2>1. CASE reaper' = reaper
    BY <2>1 DEF ReaperAt, Wedge
  <2>2. CASE ReapTake
    <3>1. 1 \in DOMAIN jobs /\ reaper' = jobs[1]
      BY <1>0, <2>2 DEF ReapTake
    <3> QED
      BY <3>1 DEF JobAt, ReaperAt, Wedge
  <2>3. CASE reaper' = NoJob
    BY <2>3 DEF NoJob, ReaperAt
  <2>4. ASSUME NEW pc, reaper.pc # "idle",
               \/ reaper' = [reaper EXCEPT !.pc = pc]
               \/ reaper' = [reaper EXCEPT !.pc = pc, !.retry = FALSE]
        PROVE  ~ReaperAt(w)'
    <3>1. reaper'.slot = reaper.slot
      BY <1>0, <2>4 DEF JobType
    <3> QED
      BY <2>4, <3>1 DEF ReaperAt, Wedge
  <2> QED
    BY <2>1, <2>2, <2>3, <2>4, ReaperActs
    DEF ReaperStep, ReapKill, ReapCheck, ReapWrite, ReapRetry, ReapRespawn, ReaperFault,
       ReapWedged, ReapWriteFails, ReapRetryFails, ReapRespawnFails
<1> QED
  BY <1>2, <1>3, <1>4, <1>5, <1>6, <1>7, <1>8 DEF Wedge

---------------------------------------------------------------------------
(* What holds on to a task that is neither settled nor being cancelled.     *)
(* Between two tasks the reaper owes the id of a retry its place in the     *)
(* queue; a report settles its task unless it was interrupted meanwhile.    *)
GaveUp(t)   == result[t] = "interrupted" /\ Retry[t] # t /\ Retry[t] \in Known
Answered(t) == result[t] # "interrupted" /\ (Reported(t) \/ \E w \in Slots : Wedge(w, t))
Held(t) ==
    \/ t \in HandledTasks \/ OnQueue(t) \/ Announced(t)
    \/ Attends(t) \/ Renewing(t) \/ GaveUp(t) \/ Answered(t) \/ t \in used.adrift
NoneLost == used.crashes = 0 => \A t \in Known : Held(t)

LostInv ==
    /\ IdleIsFree /\ FinishingIsOver /\ DoneIsOver
    /\ RunsOffLine /\ AttendedRests /\ OneJob
    /\ Uninterrupted /\ RetriedOver /\ AtWork

LEMMA LostInvStep ==
    ASSUME TaskInv, SlotInv, ExecInv, LostInv, [Tasks_Next]_taskVars PROVE LostInv'
BY WorkerOutcome, DoneIsOverNext, RunsOffLineNext, AttendedRestsNext, OneJobNext,
   UninterruptedNext, RetriedOverNext, AtWorkNext DEF LostInv

---------------------------------------------------------------------------
\* A queued task leaves the queue for a worker, one that runs for the reaper, for
\* the queue or with an outcome.
LEMMA QueuedHeld ==
    ASSUME TaskInv, LostInv, [Tasks_Next]_taskVars, ~Crash, NEW x \in Tasks, OnQueue(x)
    PROVE  x \in HandledTasks' \/ OnQueue(x)' \/ Attends(x)' \/ x \in used'.adrift
<1>0. /\ TaskTypes /\ running \in [Tasks -> Slots \cup {NoSlot}] /\ jobs \in Seq(Waiting)
      /\ HandledTasks \subseteq HandledTasks' /\ SettledTasks' \subseteq HandledTasks'
      /\ used.adrift \subseteq used'.adrift
  <2>1. SettledTasks' \subseteq HandledTasks'
    BY DEF SettledTasks, HandledTasks
  <2> QED
    BY <2>1, IntentGoes, CrashesGrow DEF TaskInv, TaskTypes, QueueTypes, ReapTypes
<1> SUFFICES ASSUME x \notin HandledTasks
             PROVE  x \in HandledTasks' \/ OnQueue(x)' \/ Attends(x)' \/ x \in used'.adrift
  BY <1>0
<1>1. CASE x \in pending
  <2>1. ASSUME NEW w \in Slots, Assign(w, x) PROVE running'[x] # NoSlot
    BY <1>0, <2>1 DEF Assign
  <2> QED
    BY <1>1, <2>1, QueueStays DEF OnQueue
<1>2. CASE running[x] # NoSlot
  <2>1. CASE HandledDone(x)
    <3>1. x \in Subagents => result[x] # "interrupted"
      BY <1>2 DEF LostInv, Uninterrupted
    <3> QED
      BY <1>0, <2>1, <3>1, DoneOutcome DEF LostInv
  <2>2. CASE Timeout(x)
    <3>1. PICK j : jobs' = Append(jobs, j) /\ j.task = x
      <4>1. \A b : [NoJob EXCEPT !.pc = "kill", !.task = x, !.slot = running[x],
                       !.inc = slots[running[x]].inc, !.retry = b].task = x
        BY DEF NoJob
      <4> QED
        BY <2>2, <4>1 DEF Timeout
    <3>2. Len(jobs) + 1 \in DOMAIN jobs' /\ jobs'[Len(jobs) + 1] = j
      BY <1>0, <3>1
    <3> QED
      BY <3>1, <3>2 DEF Attends
  <2>3. CASE IsSettled(x)'
    BY <1>0, <2>3, SettledNext DEF IsSettled
  <2>4. CASE Requeued(x)
    BY <2>4 DEF Requeued, OnQueue
  <2> QED
    BY <1>2, <2>1, <2>2, <2>3, <2>4, RowStays DEF OnQueue
<1> QED
  BY <1>1, <1>2 DEF OnQueue

\* An announced task is queued or, below a fence, failed.
LEMMA AnnouncedHeld ==
    ASSUME TaskInv, [Tasks_Next]_taskVars, ~Crash, NEW x \in Tasks, Announced(x)
    PROVE  x \in HandledTasks' \/ OnQueue(x)' \/ Announced(x)'
<1>1. CASE Announced(x)'
  BY <1>1
<1>2. CASE HandleSchedule /\ Head(events).task = x
  <2>1. CASE Fenced(x)
    <3>1. result \in [Tasks -> Statuses]
      BY DEF TaskInv, TaskTypes, ResultTypes
    <3>2. result'[x] = Written(result[x], "failed")
      BY <1>2, <2>1, <3>1 DEF HandleSchedule
    <3>3. result'[x] \in Settled
      BY <3>2, WrittenIs DEF Settled
    <3> QED
      BY <3>3, SettledNext DEF SettledTasks, HandledTasks
  <2>2. CASE ~Fenced(x)
    BY <1>2, <2>2 DEF HandleSchedule, Enqueued, OnQueue
  <2> QED
    BY <2>1, <2>2
<1> QED
  BY <1>1, <1>2, AnnouncementStays

\* A task the reaper attends to is handed on, dead, to its check, and then has an
\* outcome, another run under its own or a new id, a worker that would not die, or
\* a report of what could not be written, or it is let go.
LEMMA AttendedHeld ==
    ASSUME TaskInv, SlotInv, LostInv, [Tasks_Next]_taskVars, ~Crash, NEW x \in Tasks, Attends(x)
    PROVE  \/ x \in HandledTasks' \/ Attends(x)' \/ Renewing(x)' \/ GaveUp(x)' \/ Answered(x)'
           \/ x \in used'.adrift
<1>0. /\ TaskTypes /\ jobs \in Seq(Waiting) /\ reaper \in JobType /\ result \in [Tasks -> Statuses]
      /\ HandledTasks \subseteq HandledTasks' /\ SettledTasks' \subseteq HandledTasks'
      /\ used \in UsedType /\ used.adrift \subseteq used'.adrift
  <2>1. SettledTasks' \subseteq HandledTasks'
    BY DEF SettledTasks, HandledTasks
  <2> QED
    BY <2>1, IntentGoes, CrashesGrow DEF TaskInv, TaskTypes, ReapTypes, ResultTypes, IntentTypes
<1> DEFINE Goal == \/ x \in HandledTasks' \/ Attends(x)' \/ Renewing(x)' \/ GaveUp(x)'
                   \/ Answered(x)' \/ x \in used'.adrift
<1> SUFFICES ASSUME x \notin HandledTasks PROVE Goal
  BY <1>0
<1>s. ASSUME result'[x] \in Settled PROVE Goal
  BY <1>0, <1>s, SettledNext
<1>f. ASSUME result'[x] = Written(result[x], "failed") PROVE Goal
  <2>1. result'[x] \in Settled
    BY <1>f, WrittenIs DEF Settled
  <2> QED
    BY <1>s, <2>1
<1>a. ASSUME NEW who, CountedWith("faults", "adrift", who), x \in who PROVE Goal
  <2>1. x \in used'.adrift
    BY <1>0, <1>a DEF CountedWith, UsedType
  <2> QED
    BY <2>1
<1>1. ASSUME NEW n \in DOMAIN jobs, jobs[n].task = x PROVE Goal
  <2>1. CASE jobs' = jobs
    BY <1>1, <2>1 DEF Attends
  <2>2. CASE ReapTake /\ n = 1
    <3>1. reaper' = jobs[1] /\ jobs[1].pc = "kill"
      BY <1>0, <2>2, JobTasks DEF ReapTake
    <3> QED
      BY <1>1, <2>2, <3>1 DEF Attends
  <2>3. CASE ReapTake /\ n # 1
    <3>1. n - 1 \in DOMAIN jobs' /\ jobs'[n - 1] = jobs[n]
      BY <1>0, <2>3 DEF ReapTake
    <3> QED
      BY <1>1, <3>1 DEF Attends
  <2>4. ASSUME NEW t \in Tasks, Timeout(t) PROVE Goal
    <3>1. PICK j : jobs' = Append(jobs, j)
      BY <2>4 DEF Timeout
    <3>2. n \in DOMAIN jobs' /\ jobs'[n] = jobs[n]
      BY <1>0, <3>1
    <3> QED
      BY <1>1, <3>2 DEF Attends
  <2> QED
    BY <2>1, <2>2, <2>3, <2>4, ReaperActs
<1>2. CASE reaper.task = x /\ reaper.pc \in {"kill", "check", "write"}
  <2>1. CASE reaper' = reaper
    BY <1>2, <2>1 DEF Attends
  <2>2. CASE ReapKill
    BY <1>0, <1>2, <2>2 DEF ReapKill, Attends, JobType
  <2>3. CASE ReapCheck
    <3>1. CASE result'[x] \in Settled
      BY <1>s, <3>1
    <3>2. CASE result'[x] \notin Settled
      <4>1. reaper' = [reaper EXCEPT !.pc = "write"]
        BY <1>2, <2>3, <3>2 DEF ReapCheck
      <4> QED
        BY <1>0, <1>2, <4>1 DEF Attends, JobType
    <3> QED
      BY <3>1, <3>2
  <2>4. CASE ReapWrite /\ ~reaper.retry
    <3>1. result' = [result EXCEPT ![x] = Written(@, "failed")]
      BY <1>2, <2>4 DEF ReapWrite
    <3>2. result'[x] = Written(result[x], "failed")
      BY <1>0, <3>1
    <3> QED
      BY <1>f, <3>2
  <2>5. CASE ReapWrite /\ reaper.retry
    <3>1. reaper'.task = x /\ reaper'.pc = "retry"
      BY <1>0, <1>2, <2>5 DEF ReapWrite, JobType
    <3>2. CASE Retry[x] = x
      BY <3>1, <3>2 DEF Renewing
    <3>3. CASE Retry[x] # x
      <4>1. PICK r \in Tasks : r = Retry[x]
        OBVIOUS
      <4>2. PICK closed : closed = [result EXCEPT ![x] = Written(result[x], "interrupted")]
        OBVIOUS
      <4>3. result' = [closed EXCEPT ![r] = Written(closed[r], "scheduled")]
        BY <1>2, <2>5, <3>3, <4>1, <4>2 DEF ReapWrite
      <4>4. result'[r] = Written(result[r], "scheduled")
        BY <1>0, <3>3, <4>1, <4>2, <4>3
      <4>5. result'[x] = Written(result[x], "interrupted")
        BY <1>0, <3>3, <4>1, <4>2, <4>3
      <4>6. result'[x] = "interrupted"
        BY <4>5 DEF Written, HandledTasks, IsSettled
      <4>7. result'[r] # "none"
        BY <4>4 DEF Written, Settled
      <4>8. r \in Known'
        BY <4>7 DEF Known
      <4> QED
        BY <3>3, <4>1, <4>6, <4>8 DEF GaveUp
    <3> QED
      BY <3>2, <3>3
  <2>6. CASE ReapWedged
    <3>1. /\ reaper.pc = "kill" /\ Alive(reaper.slot) /\ slots' = slots /\ reaper' = NoJob
          /\ events' = events /\ jobs' = jobs /\ custody' = custody /\ running' = running
          /\ result' = [result EXCEPT ![x] = Written(@, "running")]
      BY <1>2, <2>6 DEF ReapWedged, threadVars, queueVars
    <3>2. result'[x] = Written(result[x], "running")
      BY <1>0, <3>1
    <3>3. result'[x] # "interrupted"
      BY <3>2 DEF Written, HandledTasks, IsSettled
    <3>4. PICK w \in Slots : w = reaper.slot
      BY <1>0, <3>1 DEF TaskTypes, ReapTypes, Job
    <3>5. Working(w, x)
      BY <1>2, <3>1, <3>4 DEF LostInv, AtWork
    <3>8. CASE w \in used.struck
      BY <1>2, <1>a, <2>6, <3>4, <3>8 DEF ReapWedged
    <3>6. CASE Reported(x)
      <4>1. Reported(x)'
        BY <3>1, <3>6 DEF Reported
      <4> QED
        BY <3>3, <4>1 DEF Answered
    <3>7. CASE Given(w, x) /\ w \notin used.struck
      <4>1. ReaperAt(w)
        BY <3>1, <3>4 DEF ReaperAt
      <4>2. /\ slots[w].reaping /\ ~JobAt(w) /\ \A th \in Threads : custody[th].slot # w
            /\ slots[w].busy = NoTask /\ \A t \in Tasks : running[t] # w
        BY <1>0, <3>7, <4>1, OwnedByReaper
      <4>3. ~ReaperAt(w)'
        BY <3>1 DEF ReaperAt, NoJob
      <4>4. Wedge(w, x)'
        BY <3>1, <3>7, <4>2, <4>3 DEF Wedge, JobAt, Given
      <4> QED
        BY <3>3, <4>4 DEF Answered
    <3> QED
      BY <1>0, <3>1, <3>4, <3>5, <3>6, <3>7, <3>8 DEF Working
  <2>7. CASE ReapWriteFails
    <3>1. CASE result'[x] = "interrupted"
      BY <1>2, <1>a, <2>7, <3>1 DEF ReapWriteFails
    <3>2. CASE result'[x] # "interrupted"
      <4>1. events' = Append(events, DoneEvent(x, NoSlot)) /\ events \in Seq(EventType)
        BY <1>0, <1>2, <2>7 DEF ReapWriteFails, Emitted, TaskTypes, EventTypes
      <4>2. /\ Len(events) + 1 \in DOMAIN events'
            /\ events'[Len(events) + 1] = DoneEvent(x, NoSlot)
        BY <4>1
      <4>3. Reported(x)'
        BY <4>2 DEF Reported, DoneEvent
      <4> QED
        BY <3>2, <4>3 DEF Answered
    <3> QED
      BY <3>1, <3>2
  <2> QED
    BY <1>2, <2>1, <2>2, <2>3, <2>4, <2>5, <2>6, <2>7, ReaperActs
    DEF ReaperStep, ReapTake, ReapRetry, ReapRespawn, ReaperFault, ReapRetryFails, ReapRespawnFails
<1> QED
  BY <1>1, <1>2 DEF Attends

---------------------------------------------------------------------------
\* The retry the reaper owes is queued or, below a fence, failed, or it is let go.
LEMMA RenewingHeld ==
    ASSUME TaskInv, [Tasks_Next]_taskVars, ~Crash, NEW x \in Tasks, Renewing(x)
    PROVE  x \in HandledTasks' \/ OnQueue(x)' \/ Renewing(x)' \/ x \in used'.adrift
<1>0. result \in [Tasks -> Statuses] /\ used \in UsedType
  BY DEF TaskInv, TaskTypes, ResultTypes, IntentTypes
<1>1. CASE reaper' = reaper
  BY <1>1 DEF Renewing
<1>2. CASE ReapRetry /\ Fenced(x)
  <2> DEFINE t == reaper.task
  <2>1. result' = [result EXCEPT ![t] = Written(@, "failed"), ![x] = Written(@, "failed")]
    BY <1>2 DEF ReapRetry, Renewing
  <2> HIDE DEF t
  <2>2. \E q : result'[x] = Written(q, "failed")
    BY <1>0, <2>1
  <2>3. result'[x] \in Settled
    BY <2>2, WrittenIs DEF Settled
  <2> QED
    BY <2>3, SettledNext DEF SettledTasks, HandledTasks
<1>3. CASE ReapRetry /\ ~Fenced(x)
  BY <1>3 DEF ReapRetry, Renewing, Enqueued, OnQueue
<1>4. CASE ReapRetryFails
  <2>1. PICK who : CountedWith("faults", "adrift", who) /\ x \in who
    BY <1>4 DEF ReapRetryFails, Renewing
  <2> QED
    BY <1>0, <2>1 DEF CountedWith, UsedType
<1> QED
  BY <1>1, <1>2, <1>3, <1>4, ReaperActs
  DEF Renewing, ReaperStep, ReapTake, ReapKill, ReapCheck, ReapWrite, ReapRespawn, ReaperFault,
      ReapWedged, ReapWriteFails, ReapRespawnFails

\* An interrupted task stays so: nothing takes it on again under its old id.
LEMMA GaveUpHeld ==
    ASSUME TaskInv, ExecInv, LostInv, [Tasks_Next]_taskVars, NEW x \in Tasks, GaveUp(x)
    PROVE  x \in HandledTasks' \/ GaveUp(x)'
<1>0. TaskTypes /\ Known \subseteq Known'
  <2>1. TaskTypes /\ ResultTypes
    BY DEF TaskInv, TaskTypes
  <2> QED
    BY <2>1, ResultMoves, KnownGrow
<1>1. result[x] = "interrupted" /\ Retry[x] # x /\ Retry[x] \in Known
  BY DEF GaveUp
<1>2. result'[x] = "interrupted" => GaveUp(x)'
  BY <1>0, <1>1 DEF GaveUp
<1>3. ~Resumes(x)
  <2>1. ~InLine(x) /\ \A w \in Slots : ~Executes(w, x)
    BY <1>1 DEF ExecInv, GaveWay, Over
  <2>2. ~(reaper.pc = "kill" /\ reaper.task = x)
    BY <1>1 DEF LostInv, RetriedOver, Attends
  <2>3. ASSUME ReapWrite, reaper.pc = "write", x = Retry[reaper.task] PROVE FALSE
    <3>1. reaper.task \in Tasks
      BY <2>3, JobTasks, KnownAreTasks
    <3>2. Retry[x] = x
      BY <2>3, <3>1, RetryAssumption
    <3> QED
      BY <1>1, <3>2
  <2> QED
    BY <2>1, <2>2, <2>3 DEF Resumes
<1>4. IsSettled(x)' => x \in HandledTasks'
  BY DEF HandledTasks
<1> QED
  BY <1>0, <1>1, <1>2, <1>3, <1>4, StatusMoves DEF StatusMove

\* A report stays until the loop settles its task, and so does a wedged worker,
\* unless the task is interrupted for another run.
LEMMA AnsweredHeld ==
    ASSUME TaskInv, SlotInv, ExecInv, LostInv, [Tasks_Next]_taskVars, ~Crash,
           NEW x \in Tasks, x \in Known, Answered(x), ~Attends(x)
    PROVE  x \in HandledTasks' \/ OnQueue(x)' \/ Answered(x)' \/ x \in used'.adrift
<1>0. /\ TaskTypes /\ HandledTasks \subseteq HandledTasks' /\ SettledTasks' \subseteq HandledTasks'
      /\ used.adrift \subseteq used'.adrift
  <2>1. SettledTasks' \subseteq HandledTasks'
    BY DEF SettledTasks, HandledTasks
  <2> QED
    BY <2>1, IntentGoes, CrashesGrow DEF TaskInv
<1>1. result[x] # "interrupted" /\ result[x] # "none"
  BY DEF Answered, Known
<1>2. CASE result'[x] = "interrupted"
  <2>1. ~Retires(x)
    BY DEF Retires, Attends
  <2>2. Requeued(x) \/ IsSettled(x)'
    BY <1>0, <1>1, <1>2, <2>1, StatusMoves DEF StatusMove
  <2>3. IsSettled(x)' => x \in HandledTasks'
    BY DEF HandledTasks
  <2> QED
    BY <2>2, <2>3 DEF Requeued, OnQueue
<1>3. CASE result'[x] # "interrupted"
  <2>1. CASE Reported(x)
    <3>1. Reported(x)' \/ HandledDone(x)
      BY <2>1, ReportStays
    <3>2. HandledDone(x) => x \in HandledTasks' \/ x \in used'.adrift
      BY <1>0, <1>1, DoneOutcome DEF LostInv
    <3> QED
      BY <1>3, <3>1, <3>2 DEF Answered
  <2>2. CASE \E w \in Slots : Wedge(w, x)
    <3>1. PICK w \in Slots : Wedge(w, x)
      BY <2>2
    <3>2. Wedge(w, x)' \/ Reported(x)'
      BY <3>1, WedgeStays DEF LostInv
    <3> QED
      BY <1>3, <3>2 DEF Answered
  <2> QED
    BY <2>1, <2>2 DEF Answered
<1> QED
  BY <1>2, <1>3

\* A new task is announced, or the retry the reaper is about to queue.
LEMMA NewHeld ==
    ASSUME TaskTypes, [Tasks_Next]_taskVars, NEW x \in Tasks, x \notin Known, x \in Known'
    PROVE  Announced(x)' \/ Renewing(x)'
<1>0. /\ events \in Seq(EventType) /\ reaper \in JobType /\ result \in [Tasks -> Statuses]
      /\ result[x] = "none" /\ result'[x] # "none"
  BY DEF TaskTypes, EventTypes, ReapTypes, ResultTypes, Known
<1>1. CASE Scheduled(x)
  <2>1. events' = Append(events, ScheduleEvent(x))
    BY <1>1 DEF Scheduled, ScheduleChild
  <2>2. Len(events) + 1 \in DOMAIN events' /\ events'[Len(events) + 1] = ScheduleEvent(x)
    BY <1>0, <2>1
  <2> QED
    BY <2>2 DEF Announced, ScheduleEvent
<1>2. CASE ReapWrite /\ reaper.pc = "write" /\ x = Retry[reaper.task] /\ x # reaper.task
  <2>1. reaper.retry
    <3>1. ASSUME ~reaper.retry PROVE FALSE
      <4>1. result' = [result EXCEPT ![reaper.task] = Written(@, "failed")]
        BY <1>2, <3>1 DEF ReapWrite
      <4> QED
        BY <1>0, <1>2, <4>1
    <3> QED
      BY <3>1
  <2>2. reaper'.task = reaper.task /\ reaper'.pc = "retry"
    BY <1>0, <1>2, <2>1 DEF ReapWrite, JobType
  <2> QED
    BY <1>2, <2>2 DEF Renewing
<1> QED
  BY <1>0, <1>1, <1>2, NewRows

LEMMA NoneLostNext ==
    ASSUME TaskInv, SlotInv, ExecInv, LostInv, NoneLost, [Tasks_Next]_taskVars PROVE NoneLost'
<1>0. TaskTypes
  BY DEF TaskInv
<1> SUFFICES ASSUME used'.crashes = 0, NEW x \in Known' PROVE Held(x)'
  BY DEF NoneLost
<1>1. used.crashes = 0 /\ ~Crash /\ x \in Tasks
  BY <1>0, CrashesGrow DEF Known
<1>2. CASE x \notin Known
  BY <1>0, <1>1, <1>2, NewHeld DEF Held
<1>3. CASE x \in Known
  <2>1. Held(x)
    BY <1>1, <1>3 DEF NoneLost
  <2>2. CASE x \in HandledTasks
    BY <2>2, IntentGoes DEF Held
  <2>3. CASE OnQueue(x)
    BY <1>1, <2>3, QueuedHeld DEF Held
  <2>4. CASE Announced(x)
    BY <1>1, <2>4, AnnouncedHeld DEF Held
  <2>5. CASE Attends(x)
    BY <1>1, <2>5, AttendedHeld DEF Held
  <2>6. CASE Renewing(x)
    BY <1>1, <2>6, RenewingHeld DEF Held
  <2>7. CASE GaveUp(x)
    BY <1>1, <2>7, GaveUpHeld DEF Held
  <2>8. CASE Answered(x) /\ ~Attends(x)
    BY <1>1, <1>3, <2>8, AnsweredHeld DEF Held
  <2>9. CASE x \in used.adrift
    BY <1>0, <2>9, CrashesGrow DEF Held
  <2> QED
    BY <2>1, <2>2, <2>3, <2>4, <2>5, <2>6, <2>7, <2>8, <2>9 DEF Held
<1> QED
  BY <1>2, <1>3

---------------------------------------------------------------------------
LEMMA LostStart == TaskState_Init => LostInv /\ NoneLost
<1> SUFFICES ASSUME TaskState_Init PROVE LostInv /\ NoneLost
  OBVIOUS
<1>1. /\ running = [t \in Tasks |-> NoSlot] /\ slots = [w \in Slots |-> FreshSlot]
      /\ events = <<>> /\ jobs = <<>> /\ reaper = NoJob
      /\ \A t \in Known : t \in pending
      /\ \A t \in Tasks : IsRetry(t) => t \notin Known
  BY DEF TaskState_Init, Known
<1>2. FreshSlot.job = NoTask /\ FreshSlot.proc = "idle" /\ NoJob.pc = "idle"
  BY DEF FreshSlot, NoJob
<1>3. \A x \in Tasks : ~Attends(x)
  BY <1>1, <1>2 DEF Attends
<1>4. IdleIsFree /\ FinishingIsOver /\ DoneIsOver
  BY <1>1, <1>2 DEF IdleIsFree, FinishingIsOver, DoneIsOver
<1>5. RunsOffLine /\ AttendedRests /\ OneJob /\ Uninterrupted /\ RetriedOver
  BY <1>1, <1>2, <1>3 DEF RunsOffLine, AttendedRests, OneJob, Uninterrupted, RetriedOver
<1>6. AtWork
  BY <1>1, <1>2 DEF AtWork
<1>7. NoneLost
  BY <1>1 DEF NoneLost, Held, OnQueue
<1> QED
  BY <1>4, <1>5, <1>6, <1>7 DEF LostInv

\* What the invariant says of a task without an outcome.
LEMMA HeldSomewhere ==
    ASSUME TaskInv, NoneLost PROVE NoTaskLost
<1> SUFFICES ASSUME NEW t \in Tasks, result[t] \notin Settled \cup {"none"}, ~(used.crashes > 0)
             PROVE  \/ OnQueue(t) \/ HasIntent(t) \/ HeldByReaper(t)
                    \/ \E n \in DOMAIN events : events[n].task = t
                    \/ result[t] = "interrupted" /\ Retry[t] # t /\ result[Retry[t]] # "none"
                    \/ \E w \in Slots : slots[w].reaping /\ Given(w, t)
                    \/ t \in used.adrift
  BY DEF NoTaskLost
<1>1. used.crashes = 0
  BY DEF TaskInv, TaskTypes, IntentTypes, UsedType
<1>2. Held(t) /\ ~IsSettled(t)
  BY <1>1 DEF NoneLost, Known, IsSettled
<1>3. Renewing(t) => HeldByReaper(t)
  <2>1. reaper.pc = "retry" => reaper.task \in Tasks
    BY JobTasks, KnownAreTasks
  <2> QED
    BY <2>1 DEF Renewing, HeldByReaper
<1>4. Attends(t) => HeldByReaper(t)
  BY DEF Attends, HeldByReaper
<1>5. Announced(t) \/ Reported(t) => \E n \in DOMAIN events : events[n].task = t
  BY DEF Announced, Reported
<1> QED
  BY <1>2, <1>3, <1>4, <1>5 DEF Held, HandledTasks, GaveUp, Answered, Wedge, Known

(* As far as the supervisor does not crash, an accepted task without an     *)
(* outcome is in somebody's hands: queued, running, being cancelled,        *)
(* attended to by the reaper, announced or reported to the loop, going on   *)
(* under the id of its retry, or in a worker that would not die; or it is   *)
(* one the code is known to let go, as its failed write or enqueueing left  *)
(* it or in a slot that a timeout took although it was marked.              *)
THEOREM NothingLost == Tasks_Spec => []NoTaskLost
<1>1. TaskState_Init => SlotInv /\ ExecInv /\ LostInv /\ NoneLost
  BY SlotStart, ExecStart, LostStart
<1>2. TaskInv /\ SlotInv /\ [Tasks_Next]_taskVars => SlotInv'
  BY SlotStep
<1>3. TaskInv /\ SlotInv /\ ExecInv /\ LostInv /\ NoneLost /\ [Tasks_Next]_taskVars
         => ExecInv' /\ LostInv' /\ NoneLost'
  BY ExecStep, LostInvStep, NoneLostNext
<1>4. TaskInv /\ NoneLost => NoTaskLost
  BY HeldSomewhere
<1> QED
  BY <1>1, <1>2, <1>3, <1>4, SupervisionInvariant, PTL DEF Tasks_Spec

---------------------------------------------------------------------------
(* What a cancellation may promise.  It can go wrong for a task that the    *)
(* slot of a dead worker goes on naming after its respawn failed; what is   *)
(* said here is of the others.                                              *)
Firm == Tasks \ used.stranded

LEMMA FirmStays ==
    ASSUME TaskTypes, [Tasks_Next]_taskVars
    PROVE  Firm' \subseteq Firm /\ used.struck \subseteq used'.struck
           /\ used.unread \subseteq used'.unread
  BY UsedGrows DEF Counting, Firm

\* A slot becomes busy with a task only by an assignment.
LEMMA BusyMoves ==
    ASSUME TaskTypes, [Tasks_Next]_taskVars, NEW w \in Slots, NEW x \in Tasks, slots'[w].busy = x
    PROVE  (slots[w].busy = x /\ ~Crash) \/ Assign(w, x)
<1>1. x # NoTask
  OBVIOUS
<1>2. CASE Crash
  BY <1>1, <1>2 DEF Crash, FreshSlot
<1>3. CASE ~Crash
  BY <1>1, <1>3, SlotChange DEF Keeps, SameWork, Assigned, Replaced
<1> QED
  BY <1>2, <1>3

\* What moves the custody of a thread.
Begins(th) == custody[th].pc = "idle" /\ custody'[th].pc \in {"claim", "respawn"}
LEMMA ThreadActs ==
    ASSUME TaskTypes, [Tasks_Next]_taskVars, ~Crash, NEW th \in Threads
    PROVE  custody'[th] = custody[th] \/ CustodyStep(th) \/ CustodyFault(th) \/ Begins(th)
<1> DEFINE Goal == custody'[th] = custody[th] \/ CustodyStep(th) \/ CustodyFault(th) \/ Begins(th)
<1>0. custody \in [Threads -> CustodyType]
  BY DEF TaskTypes, ThreadTypes
<1>1. ASSUME NEW y \in Threads, NEW d, custody' = [custody EXCEPT ![y] = d],
             custody[y].pc = "idle", d.pc \in {"claim", "respawn"}
      PROVE  Goal
  BY <1>0, <1>1 DEF Begins
<1>2. ASSUME NEW y \in Threads, NEW t, NEW deliver, Take(y, t, deliver), custody[y].pc = "idle"
      PROVE  Goal
  <2> DEFINE d == [NoCustody EXCEPT !.pc = "claim", !.task = t, !.deliver = deliver]
  <2>1. custody' = [custody EXCEPT ![y] = d] /\ d.pc = "claim"
    BY <1>2 DEF Take, NoCustody
  <2> HIDE DEF d, Goal
  <2> QED
    BY <1>1, <1>2, <2>1
<1>3. ASSUME NEW y \in Threads, CustodyStep(y) \/ CustodyFault(y) PROVE Goal
  <2>1. custody[y].then \in Thens
    BY <1>0 DEF CustodyType
  <2>2. CASE y # th
    <3>1. CASE \/ Claim(y) \/ CapturePending(y) \/ CaptureRunning(y) \/ CaptureNothing(y)
               \/ WritePending(y) \/ KillWorker(y) \/ WriteRunning(y) \/ WriteRefused(y)
      BY <1>0, <2>2, <3>1 DEF Claim, CapturePending, CaptureRunning, CaptureNothing, WritePending,
         KillWorker, WriteRunning, WriteRefused, GivenUp, Ended, Goto, Holders
    <3>2. CASE \/ Miss(y) \/ RegisterOwed(y) \/ Settle(y) \/ Publish(y) \/ Respawn(y)
               \/ CustodyFault(y)
      BY <1>0, <2>1, <2>2, <3>2 DEF Miss, RegisterOwed, Settle, Publish, Respawn, CustodyFault,
         WritePendingFails, WorkerSurvives, WriteRunningFails, MissFails, OwedFails, RespawnFails,
         GivenUp, Ended, Goto, Thens
    <3> QED
      BY <1>3, <3>1, <3>2 DEF CustodyStep
  <2> QED
    BY <1>3, <2>2
<1>4. Main \in Threads /\ Clients \subseteq Threads
  BY DEF Threads
<1>5. CASE custody' = custody
  BY <1>5
<1>6. CASE \E t \in Tasks : Watchdog(t)
  BY <1>2, <1>4, <1>5, <1>6 DEF Watchdog, ThreadFree
<1>7. CASE \E c \in Clients, t \in Tasks : RequestSingle(c, t) \/ RequestCascade(c, t)
  BY <1>2, <1>4, <1>5, <1>7 DEF RequestSingle, RequestCascade, ThreadFree
<1>8. ASSUME NEW y \in Threads, CascadeStep(y) PROVE Goal
  BY <1>2, <1>5, <1>8 DEF CascadeStep, CascadeBegin, CascadeSweep, CascadeMint, CascadeTake,
     CascadePost, CascadeSummary, CascadeClose, At
<1>9. ASSUME NEW w \in Slots, DetectCrash(w) PROVE Goal
  <2> DEFINE d == [NoCustody EXCEPT !.pc = "respawn", !.slot = w]
  <2>1. custody' = [custody EXCEPT ![Main] = d] /\ d.pc = "respawn" /\ custody[Main].pc = "idle"
    BY <1>9 DEF DetectCrash, NoCustody, LoopFree, ThreadFree
  <2> HIDE DEF d, Goal
  <2> QED
    BY <1>1, <1>4, <2>1
<1>10. CASE \/ HandleSchedule \/ HandleDone \/ ReaperStep \/ ReaperFault
            \/ \E t \in Tasks : DropPending(t) \/ DropPendingFails(t) \/ \E w \in Slots : Assign(w, t)
            \/ \E w \in Slots : WorkerStep(w) \/ WorkerDies(w)
            \/ \E w \in Slots : \E t \in Tasks : ScheduleChild(w, t)
            \/ \E t \in Tasks : Timeout(t) \/ RequestByWorker(t)
            \/ UNCHANGED taskVars
  <2>1. custody' = custody
    BY <1>10 DEF HandleSchedule, HandleDone, DropPending, DropPendingFails, Assign, ReaperStep,
       ReapTake, ReapKill, ReapCheck, ReapWrite, ReapRetry, ReapRespawn, ReaperFault, ReapWedged,
       ReapWriteFails, ReapRetryFails, ReapRespawnFails, WorkerStep, StartTask, FinishTask,
       EmitDone, WorkerDies, ScheduleChild, Timeout, RequestByWorker, threadVars, taskVars
  <2> QED
    BY <1>5, <2>1
<1> QED
  BY <1>3, <1>6, <1>7, <1>8, <1>9, <1>10 DEF Tasks_Next, LoopStep, Environment, Fault

\* Only a capture and a kill bring a custody to the kill or the write, and only
\* a capture that found nothing to the miss.
LEMMA CallGoesOn ==
    ASSUME TaskTypes, NEW th \in Threads, CustodyStep(th) \/ CustodyFault(th),
           ~CaptureRunning(th), ~KillWorker(th)
    PROVE  custody'[th].pc \notin {"kill", "write"} /\ (custody'[th].pc = "miss" => CaptureNothing(th))
<1> DEFINE Goal == /\ custody'[th].pc \notin {"kill", "write"}
                   /\ custody'[th].pc = "miss" => CaptureNothing(th)
<1>0. custody \in [Threads -> CustodyType] /\ custody[th] \in CustodyType /\ custody[th].then \in Thens
  BY DEF TaskTypes, ThreadTypes, CustodyType
<1>1. ASSUME Ended(th, FALSE) \/ Ended(th, TRUE) \/ GivenUp(th) PROVE Goal
  BY <1>0, <1>1 DEF Ended, GivenUp, NoCustody
<1>2. ASSUME NEW at, Goto(th, at), at \notin {"kill", "write"},
             at = "miss" => CaptureNothing(th)
      PROVE  Goal
  BY <1>0, <1>2 DEF Goto, CustodyType
<1>3. CASE Claim(th)
  <2>1. ASSUME NEW q, NEW b, custody' = [custody EXCEPT ![th].pc = "capture", ![th].claim = q,
                                            ![th].took = b]
        PROVE  Goal
    BY <1>0, <2>1 DEF CustodyType
  <2>2. \/ Goto(th, "capture") \/ Ended(th, FALSE)
        \/ \E q, b : custody' = [custody EXCEPT ![th].pc = "capture", ![th].claim = q, ![th].took = b]
    BY <1>3 DEF Claim
  <2> QED
    BY <1>1, <1>2, <2>1, <2>2
<1>4. CASE WritePending(th)
  BY <1>0, <1>4 DEF WritePending, CustodyType
<1>5. CASE Miss(th)
  <2>1. ASSUME NEW n, custody' = [custody EXCEPT ![th].pc = "owed", ![th].deliver = TRUE,
                                     ![th].then = n]
        PROVE  Goal
    BY <1>0, <2>1 DEF CustodyType
  <2>2. \/ Ended(th, TRUE) \/ Ended(th, FALSE) \/ Goto(th, "settle")
        \/ \E n : custody' = [custody EXCEPT ![th].pc = "owed", ![th].deliver = TRUE, ![th].then = n]
    BY <1>5 DEF Miss, Ended
  <2> QED
    BY <1>1, <1>2, <2>1, <2>2
<1>6. CASE \/ CapturePending(th) \/ CaptureNothing(th) \/ WriteRunning(th) \/ WriteRefused(th)
           \/ RegisterOwed(th) \/ Settle(th) \/ Publish(th) \/ Respawn(th) \/ CustodyFault(th)
  BY <1>0, <1>1, <1>2, <1>6 DEF CapturePending, CaptureNothing, WriteRunning, WriteRefused,
     RegisterOwed, Settle, Publish, Respawn, CustodyFault, WritePendingFails, WorkerSurvives,
     WriteRunningFails, MissFails, OwedFails, RespawnFails, Thens
<1> QED
  BY <1>3, <1>4, <1>5, <1>6 DEF CustodyStep

\* A capture of a worker marks its slot, or gives up.
LEMMA CaptureActs ==
    ASSUME TaskTypes, NEW th \in Threads, CaptureRunning(th)
    PROVE  \/ custody'[th].pc = "idle"
           \/ \E w \in Slots :
                /\ slots[w].busy = custody[th].task /\ (slots[w].reaping => custody[th].took)
                /\ custody'[th].pc = "kill" /\ custody'[th].slot = w
                /\ custody'[th].task = custody[th].task /\ custody'[th].inc = slots[w].inc
<1>0. custody \in [Threads -> CustodyType] /\ custody[th] \in CustodyType
  BY DEF TaskTypes, ThreadTypes
<1>1. CASE GivenUp(th) \/ Ended(th, FALSE)
  BY <1>0, <1>1 DEF Ended, GivenUp, NoCustody
<1>2. ASSUME NEW w \in Slots, NEW b, ~(slots[w].reaping /\ ~custody[th].took),
             slots[w].busy = custody[th].task,
             custody' = [custody EXCEPT ![th].pc = "kill", ![th].slot = w,
                            ![th].inc = slots[w].inc, ![th].settled = b, ![th].then = "publish"]
      PROVE  /\ slots[w].busy = custody[th].task /\ (slots[w].reaping => custody[th].took)
             /\ custody'[th].pc = "kill" /\ custody'[th].slot = w
             /\ custody'[th].task = custody[th].task /\ custody'[th].inc = slots[w].inc
  BY <1>0, <1>2 DEF CustodyType
<1> QED
  BY <1>1, <1>2, ZenonT(40) DEF CaptureRunning, Holders

\* A custody gets to the kill by a capture and to the write by the kill.
Captures(th, w) ==
    LET c == custody[th] IN
    /\ CaptureRunning(th) /\ c.pc = "capture" /\ slots[w].busy = c.task
    /\ slots[w].reaping => c.took
    /\ custody'[th].task = c.task /\ custody'[th].slot = w /\ custody'[th].inc = slots[w].inc
LEMMA KillActs ==
    ASSUME TaskTypes, [Tasks_Next]_taskVars, NEW th \in Threads, custody'[th].pc = "kill"
    PROVE  custody'[th] = custody[th] \/ \E w \in Slots : Captures(th, w)
<1>0. custody \in [Threads -> CustodyType] /\ custody[th] \in CustodyType
  BY DEF TaskTypes, ThreadTypes
<1>1. ~Crash /\ ~Begins(th)
  BY DEF Crash, NoCustody, Begins
<1>2. CASE CaptureRunning(th)
  BY <1>2, CaptureActs DEF Captures, CaptureRunning, Active
<1>3. CASE KillWorker(th)
  BY <1>0, <1>3 DEF KillWorker, Goto, CustodyType
<1> QED
  BY <1>1, <1>2, <1>3, ThreadActs, CallGoesOn

Kills(th) ==
    LET c == custody[th] IN
    /\ KillWorker(th) /\ c.pc = "kill" /\ slots' = Killed(c.slot, c.inc) /\ child' = child
    /\ c.task \in Subagents => child[c.task] \notin Settled
    /\ custody'[th].task = c.task /\ custody'[th].slot = c.slot
LEMMA WriteActs ==
    ASSUME TaskTypes, [Tasks_Next]_taskVars, NEW th \in Threads, custody'[th].pc = "write"
    PROVE  custody'[th] = custody[th] \/ Kills(th)
<1>0. custody \in [Threads -> CustodyType] /\ custody[th] \in CustodyType
  BY DEF TaskTypes, ThreadTypes
<1>1. ~Crash /\ ~Begins(th)
  BY DEF Crash, NoCustody, Begins
<1>2. ~CaptureRunning(th)
  BY CaptureActs
<1>3. CASE KillWorker(th)
  <2>1. \A at : Goto(th, at) => at = "write"
    BY <1>0 DEF Goto, CustodyType
  <2>2. Goto(th, "write")
    BY <1>3, <2>1 DEF KillWorker
  <2>3. custody'[th].task = custody[th].task /\ custody'[th].slot = custody[th].slot
    BY <1>0, <2>2 DEF Goto, CustodyType
  <2> QED
    BY <1>3, <2>1, <2>3 DEF KillWorker, Active, Kills
<1> QED
  BY <1>1, <1>2, <1>3, ThreadActs, CallGoesOn

LEMMA MissActs ==
    ASSUME TaskTypes, [Tasks_Next]_taskVars, NEW th \in Threads, custody'[th].pc = "miss"
    PROVE  \/ custody'[th] = custody[th]
           \/ /\ CaptureNothing(th) /\ custody'[th].task = custody[th].task
              /\ \A w \in Slots : slots[w].busy # custody[th].task
<1>0. custody \in [Threads -> CustodyType] /\ custody[th] \in CustodyType
  BY DEF TaskTypes, ThreadTypes
<1>1. ~Crash /\ ~Begins(th)
  BY DEF Crash, NoCustody, Begins
<1>2. ~CaptureRunning(th)
  BY CaptureActs
<1>3. ~KillWorker(th)
  BY <1>0 DEF KillWorker, Goto, CustodyType
<1>4. CASE CaptureNothing(th)
  <2>1. \A at : Goto(th, at) => custody'[th].pc = at /\ custody'[th].task = custody[th].task
    BY <1>0 DEF Goto, CustodyType
  <2>2. ~IsSettled(custody[th].task) /\ Holders(custody[th].task) = {}
    BY <1>4, <2>1 DEF CaptureNothing
  <2>3. \E at : Goto(th, at)
    BY <1>4 DEF CaptureNothing
  <2> QED
    BY <1>4, <2>1, <2>2, <2>3 DEF Holders
<1> QED
  BY <1>1, <1>2, <1>3, <1>4, ThreadActs, CallGoesOn

\* A task the reaper is going to queue again, under its own id or a new one.
Retries(t) ==
    \/ \E n \in DOMAIN jobs : jobs[n].retry /\ jobs[n].task = t
    \/ Retrying /\ reaper.task = t
    \/ Renewing(t)
LEMMA RetriesMoves ==
    ASSUME TaskInv, ExecInv, [Tasks_Next]_taskVars, NEW x \in Tasks, Retries(x)'
    PROVE  Retries(x) \/ Appended(x) \/ (ReapWrite /\ x \notin Known)
<1>0. TaskTypes /\ RetryOnly
  BY DEF TaskInv, ExecInv
<1>1. ASSUME NEW n \in DOMAIN jobs', jobs'[n].retry, jobs'[n].task = x
      PROVE  Retries(x) \/ Appended(x)
  BY <1>0, <1>1, JobsStep DEF Retries
<1>2. CASE Retrying' /\ reaper'.task = x
  <2>1. jobs # <<>> => 1 \in DOMAIN jobs
    BY <1>0 DEF TaskTypes, ReapTypes
  <2> QED
    BY <1>0, <1>2, <2>1, RetryingStep DEF Retries
<1>3. CASE Renewing(x)'
  <2>1. Retrying'
    BY <1>3, RetryOnlyNext DEF RetryOnly, Renewing, Retrying
  <2>2. \/ Renewing(x)
        \/ ReapWrite /\ Retrying /\ reaper'.task = reaper.task /\ Retry[reaper.task] = x
    BY <1>0, <1>3, <2>1, RetryingStep DEF Renewing
  <2>3. CASE ReapWrite /\ Retrying /\ Retry[reaper.task] = x
    <3>1. reaper.pc = "write" /\ reaper.task \in Tasks
      BY <2>3, JobTasks DEF ReapWrite, Known
    <3> QED
      BY <2>3, <3>1 DEF Retries, ExecInv, GaveWay, Over
  <2> QED
    BY <2>2, <2>3 DEF Retries
<1> QED
  BY <1>1, <1>2, <1>3 DEF Retries

LEMMA RetriesOut ==
    ASSUME TaskInv, ExecInv, NEW x \in Tasks, Retries(x)
    PROVE  ~InLine(x) /\ x \in Known
<1>1. CASE Retrying /\ reaper.task = x
  BY <1>1, JobTasks DEF Retrying, ExecInv, Pledges, Vow
<1>2. CASE \E n \in DOMAIN jobs : jobs[n].retry /\ jobs[n].task = x
  BY <1>2, JobTasks DEF ExecInv, Pledges, Vow
<1>3. CASE Renewing(x)
  <2>1. x \in Known /\ (reaper.task # x => Nowhere(x))
    BY <1>3 DEF Renewing, TaskInv, TaskTypes, ReapTypes, ExecInv, RetryReady
  <2>2. reaper.task = x => Retrying
    BY <1>3 DEF Renewing, ExecInv, RetryOnly, Retrying
  <2> QED
    BY <1>1, <2>1, <2>2 DEF Nowhere
<1> QED
  BY <1>1, <1>2, <1>3 DEF Retries

\* A slot that names a task is the only one that has to do with it; the task
\* is in line again only while the slot of its dead worker is being recovered.
Recovering(w) == custody[Main].pc = "respawn" /\ custody[Main].task = NoTask /\ custody[Main].slot = w
BusyAlone ==
    \A t \in Firm : \A w \in Slots : slots[w].busy = t =>
        /\ \A v \in Slots : slots[v].busy = t \/ Executes(v, t) => v = w
        /\ InLine(t) => Recovering(w)
        /\ running[t] \in {w, NoSlot}
RowAlone ==
    \A t \in Tasks : running[t] # NoSlot => \A w \in Slots : Executes(w, t) => w = running[t]
RetriesIdle == \A t \in Firm : Retries(t) => Idle(t)
\* A custody that kills the worker of a task has the task to itself, and one
\* that found no worker is about a task that no slot names.
Alone ==
    \A th \in Threads : \A t \in Firm : custody[th].task = t =>
        /\ custody[th].pc = "miss" => Idle(t)
        /\ custody[th].pc \in {"kill", "write"} =>
              \A w \in Slots :
                  /\ slots[w].busy = t => w = custody[th].slot
                  /\ Executes(w, t) => /\ w = custody[th].slot /\ slots[w].inc = custody[th].inc
                                       /\ custody[th].pc = "kill"
CancelInv == BusyAlone /\ RowAlone /\ RetriesIdle /\ Alone

LEMMA RecoveryStays ==
    ASSUME TaskTypes, [Tasks_Next]_taskVars,
           NEW w \in Slots, Recovering(w), slots'[w].busy \in Firm'
    PROVE  Recovering(w)'
<1>0. Main \in Threads /\ slots \in [Slots -> SlotType]
  BY DEF Threads, TaskTypes, SlotTypes
<1>1. ~Crash /\ slots'[w].busy # NoTask
  BY DEF Crash, FreshSlot, Firm
<1>2. ~CustodyStep(Main)
  <2>1. CASE Respawn(Main)
    BY <1>0, <1>1, <2>1 DEF Respawn, Respawned, FreshSlot, Recovering
  <2> QED
    BY <2>1 DEF CustodyStep, Claim, CapturePending, CaptureRunning, CaptureNothing, WritePending,
       KillWorker, WriteRunning, WriteRefused, Miss, RegisterOwed, Settle, Publish, Active,
       Recovering
<1>3. ~CustodyFault(Main)
  <2>1. CASE RespawnFails(Main)
    <3> DEFINE t == slots[w].busy
    <3>1. slots'[w].busy = t /\ CountedWith("faults", "stranded", {t} \ {NoTask})
      BY <1>0, <2>1 DEF RespawnFails, Recovering, SlotType
    <3> HIDE DEF t
    <3>2. t \in used'.stranded
      BY <1>1, <3>1 DEF CountedWith, UsedType, TaskTypes, IntentTypes
    <3> QED
      BY <3>1, <3>2 DEF Firm
  <2> QED
    BY <2>1 DEF CustodyFault, WritePendingFails, WorkerSurvives, WriteRunningFails, MissFails,
       OwedFails, Active, Recovering
<1>4. ~Begins(Main)
  BY DEF Begins, Recovering
<1> QED
  BY <1>0, <1>1, <1>2, <1>3, <1>4, ThreadActs DEF Recovering

\* A slot that is being recovered keeps the loop from assigning anything.
LEMMA RecoveryBlocks ==
    ASSUME NEW w \in Slots, Recovering(w) PROVE \A v \in Slots, t \in Tasks : ~Assign(v, t)
  BY DEF Recovering, Assign, LoopFree, ThreadFree

LEMMA BusyAloneNext ==
    ASSUME TaskInv, ExecInv, CancelInv, [Tasks_Next]_taskVars
    PROVE  BusyAlone'
<1>0. TaskTypes /\ AnnouncedOnce /\ Single /\ LineNotLive /\ BusyAlone
  BY DEF TaskInv, ExecInv, CancelInv
<1> SUFFICES ASSUME NEW x \in Firm', NEW w \in Slots, slots'[w].busy = x
             PROVE  /\ \A v \in Slots : slots'[v].busy = x \/ Executes(v, x)' => v = w
                    /\ InLine(x)' => Recovering(w)'
                    /\ running'[x] \in {w, NoSlot}
  BY DEF BusyAlone
<1>x. x \in Firm /\ x \in Tasks
  BY <1>0, FirmStays DEF Firm
<1>1. ASSUME NEW v \in Slots, slots'[v].busy = x \/ Executes(v, x)'
      PROVE  slots[v].busy = x \/ Executes(v, x) \/ Assign(v, x)
  BY <1>0, <1>x, <1>1, BusyMoves, ExecMoves
<1>2. CASE Assign(w, x)
  <2>1. /\ InLine(x) /\ ~InLine(x)' /\ running'[x] = w
        /\ \A v \in Slots : Assign(v, x) => v = w
    BY <1>x, <1>0, <1>2, AssignedLeaves
  <2>2. \A v \in Slots : slots[v].busy # x
    BY <1>x, <1>0, <1>2, <2>1, RecoveryBlocks DEF BusyAlone
  <2> QED
    BY <1>x, <1>0, <1>1, <2>1, <2>2 DEF LineNotLive
<1>3. CASE slots[w].busy = x
  <2>1. InLine(x) => Recovering(w)
    BY <1>x, <1>0, <1>3 DEF BusyAlone
  <2>2. \A v \in Slots : ~Assign(v, x)
    BY <1>x, <1>0, <2>1, AssignedLeaves, RecoveryBlocks
  <2>3. \A v \in Slots : slots'[v].busy = x \/ Executes(v, x)' => v = w
    BY <1>x, <1>0, <1>1, <1>3, <2>2 DEF BusyAlone
  <2>4. ASSUME InLine(x)' PROVE Recovering(w)'
    <3>1. CASE InLine(x)
      BY <1>x, <1>0, <2>1, <3>1, RecoveryStays
    <3>2. CASE Recovered(x)
      <4>1. PICK v \in Slots : DetectCrash(v) /\ slots[v].busy = x
        BY <3>2 DEF Recovered
      <4>2. v = w
        BY <1>x, <1>0, <1>3, <4>1 DEF BusyAlone
      <4>3. custody' = [custody EXCEPT ![Main] = [NoCustody EXCEPT !.pc = "respawn", !.slot = w]]
        BY <4>1, <4>2 DEF DetectCrash
      <4> QED
        BY <1>0, <4>3 DEF Recovering, NoCustody, Threads, TaskTypes, ThreadTypes
    <3>3. ~Scheduled(x)
      BY <1>x, <1>0, <1>3, ScheduledIsNew, NewIsNowhere DEF Nowhere, Touches, Touching
    <3>4. ~Retried(x)
      <4> SUFFICES ASSUME Retried(x) PROVE FALSE
        OBVIOUS
      <4>1. Retries(x)
        BY DEF Retried, Retries, Renewing
      <4> QED
        BY <1>x, <1>3, <4>1 DEF CancelInv, RetriesIdle, Idle
    <3> QED
      BY <1>x, <1>0, <2>4, <3>1, <3>2, <3>3, <3>4, LineMoves
  <2>5. running'[x] \in {w, NoSlot}
    BY <1>x, <1>0, <1>3, <2>2, RowsMove DEF BusyAlone
  <2> QED
    BY <2>3, <2>4, <2>5
<1> QED
  BY <1>x, <1>0, <1>2, <1>3, BusyMoves

LEMMA RowAloneNext ==
    ASSUME TaskInv, ExecInv, RunsOffLine, CancelInv, [Tasks_Next]_taskVars PROVE RowAlone'
<1>0. TaskTypes /\ AnnouncedOnce /\ Single /\ LineNotLive /\ RowAlone
  BY DEF TaskInv, ExecInv, CancelInv
<1> SUFFICES ASSUME NEW x \in Tasks, running'[x] # NoSlot, NEW w \in Slots, Executes(w, x)'
             PROVE  w = running'[x]
  BY DEF RowAlone
<1>1. CASE \E v \in Slots : Assign(v, x)
  BY <1>0, <1>1, AssignedLeaves, ExecMoves DEF LineNotLive
<1>2. CASE ~\E v \in Slots : Assign(v, x)
  BY <1>0, <1>2, RowsMove, ExecMoves DEF RowAlone
<1> QED
  BY <1>1, <1>2

LEMMA RetriesIdleNext ==
    ASSUME TaskInv, ExecInv, CancelInv, [Tasks_Next]_taskVars PROVE RetriesIdle'
<1>0. TaskTypes /\ AnnouncedOnce /\ Single
  BY DEF TaskInv, ExecInv
<1> SUFFICES ASSUME NEW x \in Firm', Retries(x)', NEW w \in Slots, slots'[w].busy = x PROVE FALSE
  BY DEF RetriesIdle, Idle
<1>x. x \in Firm /\ x \in Tasks
  BY <1>0, FirmStays DEF Firm
<1>1. CASE Retries(x)
  BY <1>x, <1>0, <1>1, RetriesOut, AssignedLeaves, BusyMoves DEF CancelInv, RetriesIdle, Idle
<1>2. CASE Appended(x)
  <2>1. Timeout(x) /\ running[x] \in Slots
    BY <1>x, <1>0, <1>2 DEF Appended, Timeout, TaskTypes, QueueTypes
  <2>2. \A v \in Slots : ~Assign(v, x)
    BY <1>x, <2>1 DEF Timeout, Assign, QueueTypes
  <2>3. slots[w].busy = x
    BY <1>x, <1>0, <2>2, BusyMoves
  <2>4. w = running[x]
    BY <1>x, <2>1, <2>3 DEF CancelInv, BusyAlone
  <2>5. slots'[w].busy = NoTask
    BY <1>0, <2>1, <2>3, <2>4 DEF Timeout, TaskTypes, SlotTypes, SlotType
  <2> QED
    BY <1>x, <2>5
<1>3. CASE ReapWrite /\ x \notin Known
  <2>1. slots[w].busy = x
    BY <1>3 DEF ReapWrite
  <2> QED
    BY <1>x, <1>0, <1>3, <2>1, NewIsNowhere DEF Nowhere, Touches, Touching
<1> QED
  BY <1>x, <1>1, <1>2, <1>3, RetriesMoves

LEMMA AloneNext ==
    ASSUME TaskInv, ExecInv, CancelInv, [Tasks_Next]_taskVars PROVE Alone'
<1>0. TaskTypes /\ AnnouncedOnce /\ Single /\ Alone /\ BusyAlone /\ Main \in Threads
  BY DEF TaskInv, ExecInv, CancelInv, Threads
<1> SUFFICES ASSUME NEW th \in Threads, NEW x \in Firm', custody'[th].task = x,
                    custody'[th].pc \in {"miss", "kill", "write"}
             PROVE  /\ custody'[th].pc = "miss" => \A w \in Slots : slots'[w].busy # x
                    /\ custody'[th].pc \in {"kill", "write"} =>
                          \A w \in Slots :
                             /\ slots'[w].busy = x => w = custody'[th].slot
                             /\ Executes(w, x)' =>
                                   /\ w = custody'[th].slot /\ slots'[w].inc = custody'[th].inc
                                   /\ custody'[th].pc = "kill"
  BY DEF Alone, Idle
<1>x. x \in Firm /\ x \in Tasks
  BY <1>0, FirmStays DEF Firm
\* The task is being cancelled, or has its outcome: nobody assigns it.
<1>1. custody[th].task = x
  BY <1>0, <1>x, MissActs, KillActs, WriteActs DEF Captures, Kills
<1>2. \A v \in Slots : ~Assign(v, x)
  BY <1>x, <1>1 DEF TaskInv, CustodyInv, CustodySound, HandledTasks, Assign
<1>3. ASSUME NEW w \in Slots, slots'[w].busy = x PROVE slots[w].busy = x
  BY <1>0, <1>x, <1>2, <1>3, BusyMoves
<1>4. ASSUME NEW w \in Slots, Executes(w, x)'
      PROVE  Executes(w, x) /\ slots'[w].inc = slots[w].inc /\ (~Alive(w) => ~Alive(w)')
  <2>1. Executes(w, x)
    BY <1>0, <1>x, <1>2, <1>4, ExecMoves
  <2>2. Touches(w, x)'
    BY <1>4 DEF Executes, Given, Touches, Touching, Has
  <2> QED
    BY <1>0, <1>x, <1>2, <2>1, <2>2, TouchMoves
<1>5. CASE custody'[th].pc = "miss"
  BY <1>0, <1>x, <1>1, <1>3, <1>5, MissActs DEF Alone, Idle
<1>6. CASE custody'[th].pc = "kill"
  <2>1. CASE custody'[th] = custody[th]
    BY <1>0, <1>x, <1>3, <1>4, <1>6, <2>1 DEF Alone
  <2>2. ASSUME NEW v \in Slots, Captures(th, v)
        PROVE  \A w \in Slots : /\ slots'[w].busy = x => w = v
                                /\ Executes(w, x)' => w = v /\ slots'[w].inc = slots[v].inc
    BY <1>0, <1>x, <1>1, <1>3, <1>4, <2>2 DEF BusyAlone, Captures
  <2> QED
    BY <1>0, <1>6, <2>1, <2>2, KillActs DEF Captures
<1>7. CASE custody'[th].pc = "write"
  <2>1. CASE custody'[th] = custody[th]
    BY <1>0, <1>x, <1>3, <1>4, <1>7, <2>1 DEF Alone
  <2>2. CASE Kills(th)
    <3>1. /\ custody[th].pc = "kill" /\ slots' = Killed(custody[th].slot, custody[th].inc)
          /\ custody'[th].slot = custody[th].slot
      BY <2>2 DEF Kills
    <3>2. ASSUME NEW w \in Slots, Executes(w, x)' PROVE FALSE
      <4>1. w = custody[th].slot /\ slots[w].inc = custody[th].inc
        BY <1>0, <1>x, <1>1, <1>4, <3>1, <3>2 DEF Alone
      <4>2. slots' = [slots EXCEPT ![w].proc = "dead"]
        BY <3>1, <4>1 DEF Killed
      <4> QED
        BY <1>0, <3>2, <4>2 DEF TaskTypes, SlotTypes, SlotType, Executes, Alive
    <3> QED
      BY <1>0, <1>x, <1>1, <1>3, <1>7, <3>1, <3>2 DEF Alone
  <2> QED
    BY <1>0, <1>7, <2>1, <2>2, WriteActs
<1> QED
  BY <1>5, <1>6, <1>7

LEMMA CancelInvNext ==
    ASSUME TaskInv, ExecInv, RunsOffLine, CancelInv, [Tasks_Next]_taskVars PROVE CancelInv'
  BY BusyAloneNext, RowAloneNext, RetriesIdleNext, AloneNext DEF CancelInv

---------------------------------------------------------------------------
(* A task that is set adrift has no row and waits in no line, so the report *)
(* of a task that has a row gives it its outcome.                           *)
AdriftGone == \A t \in used.adrift : Gone(t)

LEMMA AdriftGoneNext ==
    ASSUME TaskInv, ExecInv, RetriedOver, AttendedRests, OneJob, AdriftGone,
           [Tasks_Next]_taskVars
    PROVE  AdriftGone'
<1>0. /\ TaskTypes /\ used \in UsedType /\ reaper \in JobType /\ RetryOnly /\ Known \subseteq Tasks
  BY DEF TaskInv, ExecInv, TaskTypes, IntentTypes, ReapTypes, Known
<1>1. ASSUME NEW x \in used.adrift PROVE Gone(x)'
  <2>1. Gone(x) /\ x \in Tasks
    BY <1>0, <1>1 DEF AdriftGone, Gone
  <2> QED
    BY <2>1, GoneStays
<1> SUFFICES ASSUME ReaperFault, NEW x \in used'.adrift, x \notin used.adrift PROVE Gone(x)'
  BY <1>0, <1>1, UsedGrows DEF Counting, AdriftGone
<1>2. ~ReapRespawnFails
  BY <1>0 DEF ReapRespawnFails, Counted, UsedType
<1>3. /\ reaper.pc \in {"kill", "write", "retry"} /\ reaper.task \in Known
      /\ used'.faults = used.faults + 1 /\ jobs' = jobs /\ running' = running
      /\ x \in {reaper.task} \cup (IF reaper.pc = "retry" THEN {Retry[reaper.task]} ELSE {})
  <2>1. reaper.pc \in {"kill", "write", "retry"}
    BY <1>2 DEF ReaperFault, ReapWedged, ReapWriteFails, ReapRetryFails
  <2>2. \E who : /\ CountedWith("faults", "adrift", who)
                 /\ who \subseteq {reaper.task}
                                  \cup (IF reaper.pc = "retry" THEN {Retry[reaper.task]} ELSE {})
    BY <1>2 DEF ReaperFault, ReapWedged, ReapWriteFails, ReapRetryFails
  <2>3. PICK who : /\ CountedWith("faults", "adrift", who)
                   /\ who \subseteq {reaper.task}
                                    \cup (IF reaper.pc = "retry" THEN {Retry[reaper.task]} ELSE {})
    BY <2>2
  <2>4. used'.faults = used.faults + 1 /\ used'.adrift = used.adrift \cup who
    BY <1>0, <2>3 DEF CountedWith, UsedType
  <2>5. jobs' = jobs /\ running' = running
    BY <1>2 DEF ReaperFault, ReapWedged, ReapWriteFails, ReapRetryFails, queueVars
  <2> QED
    BY <2>1, <2>3, <2>4, <2>5, JobTasks
<1>4. reaper'.pc \in {"idle", "respawn"}
  <2>1. \/ reaper' = NoJob \/ reaper' = [reaper EXCEPT !.pc = "respawn"]
        \/ reaper' = [reaper EXCEPT !.pc = "respawn", !.retry = FALSE]
    BY <1>2 DEF ReaperFault, ReapWedged, ReapWriteFails, ReapRetryFails
  <2>2. NoJob.pc = "idle"
    BY DEF NoJob
  <2> QED
    BY <1>0, <2>1, <2>2 DEF JobType
<1>5. x \in Known /\ x \in Tasks
  BY <1>0, <1>3 DEF TaskTypes, ReapTypes
<1>6. ~InLine(x) /\ running[x] = NoSlot /\ \A n \in DOMAIN jobs : jobs[n].task # x
  <2>1. CASE reaper.pc \in {"kill", "write"}
    <3>1. x = reaper.task
      BY <1>3, <2>1
    <3> QED
      BY <2>1, <3>1, <1>5 DEF Attends, AttendedRests, OneJob
  <2>2. CASE reaper.pc = "retry" /\ x = reaper.task
    BY <1>0, <2>2 DEF RetryOnly, Retrying, ExecInv, Pledges, Vow, OneJob
  <2>3. CASE reaper.pc = "retry" /\ x = Retry[reaper.task] /\ x # reaper.task
    BY <2>3 DEF ExecInv, RetryReady, Nowhere
  <2> QED
    BY <1>3, <2>1, <2>2, <2>3
<1>7. ~Scheduled(x) /\ ~Retried(x)
  <2>1. ~ReapRetry
    BY <1>0, <1>3 DEF ReapRetry, envVars, UsedType
  <2> QED
    BY <1>5, <2>1, ScheduledIsNew DEF Retried
<1>8. ~InLine(x)' /\ running'[x] = NoSlot
  BY <1>5, <1>6, <1>7, StaysOut
<1>9. x \in Known'
  BY <1>0, <1>5, ResultMoves, KnownGrow DEF TaskTypes
<1> QED
  BY <1>3, <1>4, <1>6, <1>8, <1>9 DEF Gone, Attends, Renewing

LEMMA DoneSettles ==
    ASSUME TaskInv, DoneIsOver, Uninterrupted, AdriftGone, NEW x \in Tasks, HandledDone(x),
           running[x] # NoSlot, running'[x] = NoSlot
    PROVE  x \in SettledTasks'
<1>1. result \in [Tasks -> Statuses] /\ events \in Seq(EventType)
  BY DEF TaskInv, TaskTypes, ResultTypes, EventTypes
<1>2. x \in OverTasks
  <2>1. 1 \in DOMAIN events /\ events[1] = Head(events) /\ Head(events).kind = "done"
        /\ Head(events).task = x
    BY <1>1 DEF HandledDone, HandleDone
  <2> QED
    BY <2>1 DEF DoneIsOver
<1>3. x \in SettledTasks \/ result[x] # "interrupted"
  BY <1>2 DEF OverTasks, Loose, Gone, AdriftGone, Uninterrupted
<1>4. CopiedBack(x) # "interrupted"
  <2>1. "interrupted" \notin Settled
    BY DEF Settled
  <2>2. IsSettled(x) => CopiedBack(x) \in Settled
    BY DEF CopiedBack, Written, IsSettled
  <2> QED
    BY <1>3, <2>1, <2>2, CopiedIs DEF SettledTasks
<1>5. result' = [result EXCEPT ![x] = IF CopiedBack(x) \notin Settled \cup {"interrupted"}
                                     THEN "failed" ELSE CopiedBack(x)]
  BY DEF HandledDone, HandleDone
<1>6. result'[x] \in Settled
  BY <1>1, <1>4, <1>5 DEF Settled
<1> QED
  BY <1>6, SettledNext

(* The slot of a process that the reaper is to kill, or could not: marked,  *)
(* naming no task, and in no custody.  It stays so while the process lives. *)
Doomed(w) ==
    slots[w].reaping /\ slots[w].busy = NoTask /\ \A th \in Threads : custody[th].slot # w

LEMMA DoomedStays ==
    ASSUME TaskInv, SlotInv, [Tasks_Next]_taskVars, ~Crash, NEW w \in Slots \ used.struck,
           Alive(w), Doomed(w)
    PROVE  Doomed(w)'
<1>0. TaskTypes /\ NoTask \notin Tasks
  BY DEF TaskInv
<1>1. ~(reaper.pc = "respawn" /\ reaper.slot = w)
  <2> SUFFICES ASSUME reaper.pc = "respawn", reaper.slot = w PROVE FALSE
    OBVIOUS
  <2>1. ReaperAt(w)
    BY DEF ReaperAt
  <2> QED
    BY <1>0, <2>1, OwnedByReaper DEF Reaps, Alive
<1>2. slots'[w].reaping
  BY <1>0, <1>1, MarkStays DEF Doomed
<1>3. slots'[w].busy = NoTask
  <2>1. \A t : ~Assign(w, t)
    BY DEF Assign, Doomed
  <2> QED
    BY <1>0, <2>1, SlotChange DEF Keeps, SameWork, Assigned, Replaced, Doomed
<1>4. \A th \in Threads : custody'[th].slot # w
  BY <1>0, SlotTaken DEF Doomed
<1> QED
  BY <1>2, <1>3, <1>4 DEF Doomed

\* A process that executes a task without a row or an outcome awaits the reaper,
\* and so does one that executes a cancelled task.
Underway ==
    \A t \in Firm, w \in Slots \ used.struck :
        Executes(w, t) /\ running[t] = NoSlot /\ ~IsSettled(t) => Doomed(w)
Stopped ==
    \A t \in Firm, w \in Slots \ used.struck :
        Executes(w, t) /\ result[t] = "cancelled" => Doomed(w)

\* A crash leaves no process.
LEMMA NoneAfterCrash ==
    ASSUME TaskTypes, Crash, NEW w \in Slots, NEW x \in Tasks PROVE ~Executes(w, x)'
<1>1. slots'[w] = FreshSlot
  BY DEF Crash
<1>2. slots'[w].job = NoTask /\ slots'[w].inq = <<>>
  BY <1>1 DEF FreshSlot
<1> QED
  BY <1>2 DEF Executes, Given

LEMMA UnderwayNext ==
    ASSUME TaskInv, SlotInv, ExecInv, DoneIsOver, Uninterrupted, AdriftGone, RowAlone, Underway,
           [Tasks_Next]_taskVars
    PROVE  Underway'
<1>0. TaskTypes /\ AnnouncedOnce /\ Single /\ LineNotLive'
  BY ExecStep DEF TaskInv, ExecInv
<1> SUFFICES ASSUME NEW x \in Firm', NEW w \in Slots \ used'.struck, Executes(w, x)',
                    running'[x] = NoSlot, ~IsSettled(x)'
             PROVE  Doomed(w)'
  BY DEF Underway
<1>x. x \in Firm /\ x \in Tasks /\ w \in Slots \ used.struck /\ ~Crash
  BY <1>0, FirmStays, NoneAfterCrash DEF Firm
<1>1. Executes(w, x)
  <2>1. ~Assign(w, x)
    BY <1>0, <1>x, AssignedLeaves
  <2> QED
    BY <1>0, <1>x, <2>1, ExecMoves
<1>2. ~IsSettled(x)
  BY <1>x, IntentGoes DEF SettledTasks
<1>3. CASE running[x] = NoSlot
  BY <1>x, <1>1, <1>2, <1>3, DoomedStays DEF Underway, Executes
<1>4. CASE running[x] # NoSlot
  <2>1. running[x] = w
    BY <1>x, <1>1, <1>4 DEF RowAlone
  <2>2. ~HandledDone(x)
    BY <1>x, <1>4, DoneSettles DEF SettledTasks
  <2>3. ~Requeued(x)
    BY <1>0, <1>x DEF Requeued, LineNotLive, InLine
  <2>4. Timeout(x)
    BY <1>x, <1>2, <1>4, <2>2, <2>3, RowGoes DEF SettledTasks
  <2>5. ~slots[w].reaping
    <3> SUFFICES ASSUME slots[w].reaping PROVE FALSE
      OBVIOUS
    <3>1. CountedWith("timeouts", "struck", {w})
      BY <2>1, <2>4 DEF Timeout
    <3>2. w \in used'.struck
      BY <1>0, <3>1 DEF CountedWith, TaskTypes, IntentTypes, UsedType
    <3> QED
      BY <3>2
  <2>6. slots[w].busy = x /\ \A th \in Threads : custody[th].slot # w
    BY <1>x, <2>1, <2>5, Unowned DEF SlotInv, SlotOK
  <2>7. slots'[w].reaping /\ slots'[w].busy = NoTask /\ custody' = custody
    BY <1>0, <1>x, <2>1, <2>4, <2>6 DEF Timeout, threadVars, TaskTypes, SlotTypes, SlotType
  <2> QED
    BY <2>6, <2>7 DEF Doomed
<1> QED
  BY <1>3, <1>4

---------------------------------------------------------------------------
\* Nobody writes "cancelled" on the drive of a subagent, so whoever writes it on
\* the supervisor's drops a queued task or carries out a custody.
OwnResults == \A t \in Tasks : child[t] # "cancelled"
Finishes(x) == \E w \in Slots : FinishTask(w) /\ slots[w].job = x

LEMMA ChildMoves ==
    ASSUME TaskTypes, [Tasks_Next]_taskVars, NEW x \in Tasks
    PROVE  child'[x] \in {child[x], "running", "none"} \/ (child'[x] = "completed" /\ Finishes(x))
<1> DEFINE Goal == child'[x] \in {child[x], "running", "none"}
                   \/ (child'[x] = "completed" /\ Finishes(x))
<1>0. child \in [Tasks -> Statuses]
  BY DEF TaskTypes, ResultTypes
<1>1. CASE child' = child
  BY <1>1
<1>2. ASSUME NEW w \in Slots, WorkerStep(w) PROVE Goal
  <2>1. CASE StartTask(w)
    <3>1. child' = child \/ \E t : child' = [child EXCEPT ![t] = Written(@, "running")]
      BY <2>1 DEF StartTask
    <3>2. child'[x] \in {child[x], Written(child[x], "running")}
      BY <1>0, <3>1
    <3>3. Written(child[x], "running") \in {child[x], "running"}
      BY DEF Written
    <3> QED
      BY <3>2, <3>3
  <2>2. CASE FinishTask(w)
    <3>1. \/ child' = child
          \/ child' = [child EXCEPT ![slots[w].job] = Written(@, "completed")]
      BY <2>2 DEF FinishTask
    <3>2. child'[x] = child[x] \/ (slots[w].job = x /\ child'[x] = Written(child[x], "completed"))
      BY <1>0, <3>1
    <3>3. Written(child[x], "completed") \in {child[x], "completed"}
      BY DEF Written
    <3>4. slots[w].job = x => Finishes(x)
      BY <2>2 DEF Finishes
    <3>5. child'[x] = child[x] \/ (Finishes(x) /\ child'[x] = "completed")
      BY <3>2, <3>3, <3>4
    <3> QED
      BY <3>5
  <2>3. CASE EmitDone(w)
    BY <1>1, <2>3 DEF EmitDone, durableVars
  <2> QED
    BY <1>2, <2>1, <2>2, <2>3 DEF WorkerStep
<1>3. ASSUME NEW th \in Threads, CustodyStep(th) \/ CustodyFault(th) PROVE Goal
  <2>1. CASE Respawn(th) \/ RespawnFails(th)
    BY <1>0, <2>1 DEF Respawn, RespawnFails
  <2>2. CASE ~(Respawn(th) \/ RespawnFails(th))
    BY <1>1, <1>3, <2>2 DEF CustodyStep, CustodyFault, Claim, CapturePending, CaptureRunning,
       CaptureNothing, WritePending, KillWorker, WriteRunning, WriteRefused, Miss, RegisterOwed,
       Settle, Publish, WritePendingFails, WorkerSurvives, WriteRunningFails, MissFails, OwedFails,
       durableVars
  <2> QED
    BY <2>1, <2>2
<1>4. CASE \/ LoopStep \/ ReaperStep \/ ReaperFault
           \/ \E t \in Tasks : Watchdog(t) \/ DropPendingFails(t)
           \/ \E th \in Threads : CascadeStep(th)
           \/ Environment \/ UNCHANGED taskVars
  <2>1. child' = child
    BY <1>4, LoopResults, ReaperResults, OtherResults
  <2> QED
    BY <1>1, <2>1
<1>5. CASE \E w \in Slots : \E t \in Tasks : ScheduleChild(w, t)
  BY <1>1, <1>5 DEF ScheduleChild
<1> QED
  BY <1>2, <1>3, <1>4, <1>5 DEF Tasks_Next, Fault

LEMMA OwnResultsNext ==
    ASSUME TaskTypes, OwnResults, [Tasks_Next]_taskVars PROVE OwnResults'
  BY ChildMoves DEF OwnResults

Cancels(x) ==
    \/ DropPending(x)
    \/ \E th \in Threads :
          /\ custody[th].task = x
          /\ WritePending(th) \/ WriteRunning(th) \/ (Miss(th) /\ CopiedBack(x) \notin Settled)

LEMMA OutcomeCancelled ==
    ASSUME TaskTypes, OwnResults, [Tasks_Next]_taskVars, NEW x \in Tasks,
           result[x] # "cancelled", result'[x] = "cancelled"
    PROVE  Cancels(x)
<1>0. result \in [Tasks -> Statuses] /\ reaper \in JobType
  BY DEF TaskTypes, ResultTypes, ReapTypes
<1>1. ~(result' = result)
  OBVIOUS
<1>2. ASSUME NEW t, NEW s, result' = [result EXCEPT ![t] = s] PROVE x = t /\ s = "cancelled"
  BY <1>0, <1>2
<1>3. ASSUME NEW t, NEW s, result' = [result EXCEPT ![t] = Written(@, s)]
      PROVE  x = t /\ s = "cancelled"
  BY <1>0, <1>3 DEF Written
<1>4. CopiedBack(x) # "cancelled"
  BY DEF CopiedBack, Written, OwnResults
<1>5. CASE HandleSchedule
  <2>1. \E s \in {"failed", "scheduled"} : result' = [result EXCEPT ![Head(events).task] = Written(@, s)]
    BY <1>5 DEF HandleSchedule
  <2> QED
    BY <1>3, <2>1
<1>6. CASE HandleDone
  <2> DEFINE t == Head(events).task
             copied == IF running[t] # NoSlot THEN CopiedBack(t) ELSE result[t]
             fault == copied \notin Settled \cup {"interrupted"}
             s == IF fault THEN "failed" ELSE copied
  <2>1. result' = result \/ result' = [result EXCEPT ![t] = s]
    BY <1>6 DEF HandleDone
  <2>2. s \in {result[t], CopiedBack(t), "failed"}
    OBVIOUS
  <2> HIDE DEF s, t
  <2> QED
    BY <1>1, <1>2, <1>4, <2>1, <2>2
<1>7. ASSUME NEW t \in Tasks, DropPending(t) PROVE Cancels(x)
  <2>1. x = t
    BY <1>1, <1>3, <1>7 DEF DropPending
  <2> QED
    BY <1>7, <2>1 DEF Cancels
<1>8. ASSUME NEW t \in Tasks, NEW w \in Slots, Assign(w, t) PROVE FALSE
  <2>1. result' = result \/ \E s \in {"running"} : result' = [result EXCEPT ![t] = Written(@, s)]
    BY <1>8 DEF Assign
  <2> QED
    BY <1>1, <1>3, <2>1
<1>9. ASSUME NEW w \in Slots, DetectCrash(w) PROVE FALSE
  <2>1. \/ result' = result
        \/ \E s \in {"interrupted", "failed"} :
              result' = [result EXCEPT ![slots[w].busy] = Written(@, s)]
    BY <1>9 DEF DetectCrash
  <2> QED
    BY <1>1, <1>3, <2>1
<1>10. ~(ReapTake \/ ReapKill \/ ReapRespawn \/ ReapRespawnFails)
  BY <1>1 DEF ReapTake, ReapKill, ReapRespawn, ReapRespawnFails, durableVars
<1>18. ~ReapWriteFails
  <2>1. ReapWriteFails => \/ result' = result
                          \/ \E s \in {"interrupted"} :
                                result' = [result EXCEPT ![reaper.task] = Written(@, s)]
    BY DEF ReapWriteFails
  <2> QED
    BY <1>1, <1>3, <2>1
<1>19. ~ReapRetryFails
  <2>1. ReapRetryFails => \/ result' = result
                          \/ \E s \in {"failed"} :
                                result' = [result EXCEPT ![reaper.task] = Written(@, s)]
    BY DEF ReapRetryFails
  <2> QED
    BY <1>1, <1>3, <2>1
<1>20. ~\E t \in Tasks : DropPendingFails(t)
  BY <1>1 DEF DropPendingFails
<1>11. ~ReapWedged
  <2>1. ReapWedged => \E s \in {"running"} : result' = [result EXCEPT ![reaper.task] = Written(@, s)]
    BY DEF ReapWedged
  <2> QED
    BY <1>3, <2>1
<1>12. ~ReapCheck
  <2> SUFFICES ASSUME ReapCheck PROVE FALSE
    OBVIOUS
  <2>1. result' = [result EXCEPT ![reaper.task] = CopiedBack(reaper.task)]
    BY DEF ReapCheck
  <2>2. x = reaper.task /\ CopiedBack(reaper.task) = "cancelled"
    BY <1>2, <2>1
  <2> QED
    BY <1>4, <2>2
<1>13. ~ReapWrite
  <2> SUFFICES ASSUME ReapWrite PROVE FALSE
    OBVIOUS
  <2> DEFINE t == reaper.task
             r == Retry[t]
             s == IF reaper.retry THEN "interrupted" ELSE "failed"
             closed == [result EXCEPT ![t] = Written(result[t], s)]
  <2>1. \/ result' = closed
        \/ result' = [closed EXCEPT ![r] = Written(closed[r], "scheduled")]
    BY <1>0 DEF ReapWrite
  <2>2. s # "cancelled"
    OBVIOUS
  <2> HIDE DEF s
  <2>3. closed \in [Tasks -> {closed[q] : q \in Tasks}] /\ closed[x] # "cancelled"
    BY <1>0, <2>2 DEF Written
  <2> HIDE DEF closed, r
  <2> QED
    BY <2>1, <2>3 DEF Written
<1>14. ~ReapRetry
  <2> DEFINE t == reaper.task
             r == Retry[t]
  <2>1. ReapRetry => \/ result' = result
                     \/ result' = [result EXCEPT ![t] = Written(@, "failed"), ![r] = Written(@, "failed")]
    BY DEF ReapRetry
  <2> HIDE DEF t, r
  <2> QED
    BY <1>0, <1>1, <2>1 DEF Written
<1>15. ASSUME NEW w \in Slots, WorkerStep(w) \/ \E t \in Tasks : ScheduleChild(w, t) PROVE FALSE
  <2>1. \/ result' = result
        \/ \E t : \E s \in {"running", "completed"} : result' = [result EXCEPT ![t] = Written(@, s)]
        \/ \E t : result' = [result EXCEPT ![t] = "scheduled"]
    BY <1>15 DEF WorkerStep, StartTask, FinishTask, EmitDone, ScheduleChild, durableVars
  <2> QED
    BY <1>1, <1>2, <1>3, <2>1
<1>16. ASSUME NEW th \in Threads, CustodyStep(th) \/ CustodyFault(th) PROVE Cancels(x)
  <2> DEFINE t == custody[th].task
  <2>1. CASE WritePending(th) \/ WriteRunning(th)
    <3>1. \E s \in {"cancelled"} : result' = [result EXCEPT ![t] = Written(@, s)]
      BY <2>1 DEF WritePending, WriteRunning
    <3>2. x = t
      BY <1>3, <3>1
    <3> QED
      BY <2>1, <3>2 DEF Cancels
  <2>2. ~KillWorker(th)
    <3>1. KillWorker(th) => result' = result \/ result' = [result EXCEPT ![t] = CopiedBack(t)]
      BY DEF KillWorker
    <3> HIDE DEF t
    <3> QED
      BY <1>1, <1>2, <1>4, <3>1
  <2>3. CASE Miss(th)
    <3> DEFINE after == Written(CopiedBack(t), "cancelled")
    <3>1. result' = result \/ result' = [result EXCEPT ![t] = after]
      BY <2>3 DEF Miss
    <3>2. x = t /\ after = "cancelled"
      <4> HIDE DEF after, t
      <4> QED
        BY <1>1, <1>2, <3>1
    <3>3. CopiedBack(x) \notin Settled
      BY <1>4, <3>2 DEF Written
    <3> QED
      BY <2>3, <3>2, <3>3 DEF Cancels
  <2>4. CASE ~(WritePending(th) \/ WriteRunning(th) \/ KillWorker(th) \/ Miss(th))
    BY <1>1, <1>16, <2>4 DEF CustodyStep, CustodyFault, Claim, CapturePending, CaptureRunning,
       CaptureNothing, WriteRefused, RegisterOwed, Settle, Publish, Respawn, WritePendingFails,
       WorkerSurvives, WriteRunningFails, MissFails, OwedFails, RespawnFails, durableVars
  <2> QED
    BY <2>1, <2>2, <2>3, <2>4
<1>17. ~( \/ \E t \in Tasks : Watchdog(t)
          \/ \E th \in Threads : CascadeStep(th)
          \/ Environment \/ UNCHANGED taskVars )
  BY <1>1, ZenonT(40) DEF Watchdog, CascadeStep, CascadeBegin, CascadeSweep, CascadeMint,
     CascadeTake, CascadePost, CascadeSummary, CascadeClose, Environment, WorkerDies, Timeout,
     RequestByWorker, RequestSingle, RequestCascade, Crash, taskVars, durableVars
<1> QED
  BY <1>5, <1>6, <1>7, <1>8, <1>9, <1>10, <1>11, <1>12, <1>13, <1>14, <1>15, <1>16, <1>17,
     <1>18, <1>19, <1>20
  DEF Tasks_Next, LoopStep, ReaperStep, ReaperFault, Fault

LEMMA StoppedNext ==
    ASSUME TaskInv, SlotInv, ExecInv, CancelInv, OwnResults, Underway, Stopped,
           [Tasks_Next]_taskVars
    PROVE  Stopped'
<1>0. TaskTypes /\ AnnouncedOnce /\ Single /\ LineNotLive /\ Alone /\ RowAlone
  BY DEF TaskInv, ExecInv, CancelInv
<1> SUFFICES ASSUME NEW x \in Firm', NEW w \in Slots \ used'.struck, Executes(w, x)',
                    result'[x] = "cancelled"
             PROVE  Doomed(w)'
  BY DEF Stopped
<1>x. x \in Firm /\ x \in Tasks /\ w \in Slots \ used.struck /\ ~Crash
  BY <1>0, FirmStays, NoneAfterCrash DEF Firm
<1>1. ~Assign(w, x)
  <2>1. Assign(w, x) => /\ result[x] \notin Settled
                        /\ result' = result \/ result' = [result EXCEPT ![x] = Written(@, "running")]
    BY DEF Assign, IsSettled
  <2>2. result[x] \notin Settled => result[x] # "cancelled" /\ Written(result[x], "running") = "running"
    BY DEF Settled, Written
  <2> QED
    BY <1>0, <1>x, <2>1, <2>2 DEF TaskTypes, ResultTypes
<1>2. Executes(w, x) /\ Alive(w)
  BY <1>0, <1>x, <1>1, ExecMoves DEF Executes
<1> SUFFICES Doomed(w)
  BY <1>x, <1>2, DoomedStays
<1>3. CASE result[x] = "cancelled"
  BY <1>x, <1>2, <1>3 DEF Stopped
<1>4. CASE result[x] # "cancelled"
  <2>1. Cancels(x)
    BY <1>0, <1>x, <1>4, OutcomeCancelled
  <2>2. ~InLine(x)
    BY <1>0, <1>x, <1>2 DEF LineNotLive
  <2>3. ~DropPending(x)
    BY <2>2 DEF DropPending, InLine
  <2>4. ASSUME NEW th \in Threads, custody[th].task = x
        PROVE  ~WritePending(th) /\ ~WriteRunning(th)
    <3>1. ~WritePending(th)
      BY <2>2, <2>4 DEF WritePending, Active, InLine, Withheld
    <3>2. ~WriteRunning(th)
      BY <1>0, <1>x, <1>2, <2>4 DEF WriteRunning, Active, Alone
    <3> QED
      BY <3>1, <3>2
  <2>5. PICK th \in Threads : custody[th].task = x /\ Miss(th) /\ CopiedBack(x) \notin Settled
    BY <2>1, <2>3, <2>4 DEF Cancels
  <2>6. Idle(x) /\ ~IsSettled(x)
    <3>1. custody[th].pc = "miss"
      BY <2>5 DEF Miss, Active
    <3>2. IsSettled(x) => CopiedBack(x) \in Settled
      BY DEF CopiedBack, Written, IsSettled
    <3> QED
      BY <1>0, <1>x, <2>5, <3>1, <3>2 DEF Alone
  <2>7. running[x] = NoSlot
    <3> SUFFICES ASSUME running[x] # NoSlot PROVE FALSE
      OBVIOUS
    <3>1. running[x] = w
      BY <1>0, <1>x, <1>2 DEF RowAlone
    <3> QED
      BY <1>x, <2>6, <3>1 DEF SlotInv, SlotOK, Idle
  <2> QED
    BY <1>x, <1>2, <2>6, <2>7 DEF Underway
<1> QED
  BY <1>3, <1>4

\* Such a slot is one of those the promise excepts.
LEMMA StoppedMeans ==
    ASSUME Stopped PROVE CancelledIsStopped
<1>1. \A w \in Slots : Doomed(w) => Condemned(w)
  BY DEF Doomed, Condemned
<1> QED
  BY <1>1 DEF Stopped, CancelledIsStopped, Firm

\* A subagent that has finished on its own drive is in no line and not about to
\* be, and no custody is about to write over it; unless the crash detector has
\* queued it again without reading its result, or its slot goes on naming it.
Readable == Subagents \ (used.unread \cup used.stranded)
Finished ==
    \A t \in Readable : child[t] = "completed" =>
        /\ t \in Known /\ ~InLine(t) /\ ~Renewing(t)
        /\ ~(reaper.pc \in {"write", "retry"} /\ reaper.retry /\ reaper.task = t)
        /\ \A th \in Threads : ~(custody[th].pc = "write" /\ custody[th].task = t)

LEMMA FinishedNext ==
    ASSUME TaskInv, ExecInv, CancelInv, Finished, [Tasks_Next]_taskVars
    PROVE  Finished'
<1>0. TaskTypes /\ AnnouncedOnce /\ RetryOnly /\ RetryOnly'
  BY ExecStep DEF TaskInv, ExecInv
<1> SUFFICES ASSUME NEW x \in Readable', child'[x] = "completed"
             PROVE  /\ x \in Known' /\ ~InLine(x)' /\ ~Renewing(x)'
                    /\ ~(reaper'.pc \in {"write", "retry"} /\ reaper'.retry /\ reaper'.task = x)
                    /\ \A th \in Threads : ~(custody'[th].pc = "write" /\ custody'[th].task = x)
  BY DEF Finished
<1>1. x \in Readable /\ x \in Firm /\ x \in Tasks /\ x \in Subagents
  BY <1>0, FirmStays DEF Readable, Firm
<1>2. x \in Known => x \in Known'
  BY <1>0, <1>1, ResultMoves DEF Kept, Known
\* It had finished before this step.
<1>3. CASE child[x] = "completed"
  <2>0. /\ x \in Known /\ ~InLine(x) /\ ~Renewing(x)
        /\ ~(reaper.pc \in {"write", "retry"} /\ reaper.retry /\ reaper.task = x)
        /\ \A th \in Threads : ~(custody[th].pc = "write" /\ custody[th].task = x)
    BY <1>1, <1>3 DEF Finished
  <2>1. ~InLine(x)'
    <3>1. ~Scheduled(x) /\ ~Retried(x)
      BY <1>1, <2>0, ScheduledIsNew DEF Retried, Renewing
    <3>2. ~Recovered(x)
      <4> SUFFICES ASSUME Recovered(x) PROVE FALSE
        OBVIOUS
      <4>1. PICK w \in Slots : DetectCrash(w) /\ slots[w].busy = x
        BY DEF Recovered
      <4>2. used' = [used EXCEPT !.unread = @ \cup {y \in {x} \cap Subagents : child[y] = "completed"}]
        BY <4>1 DEF DetectCrash
      <4>3. x \in used'.unread
        BY <1>0, <1>1, <1>3, <4>2 DEF TaskTypes, IntentTypes, UsedType
      <4> QED
        BY <4>3 DEF Readable
    <3> QED
      BY <1>0, <1>1, <2>0, <3>1, <3>2, LineMoves
  <2>2. ASSUME Retrying', reaper'.task = x PROVE reaper'.pc \notin {"write", "retry"}
    <3>1. ~(ReapCheck /\ reaper'.pc = "write" /\ reaper'.task = reaper.task)
      <4> SUFFICES ASSUME ReapCheck, reaper'.pc = "write", reaper.task = x PROVE FALSE
        BY <2>2
      <4>1. CopiedBack(x) \in Settled
        BY <1>1, <1>3 DEF CopiedBack, Written, Settled
      <4>2. result'[x] = CopiedBack(x)
        BY <1>0, <1>1 DEF ReapCheck, TaskTypes, ResultTypes
      <4>3. reaper' = [reaper EXCEPT !.pc = "respawn"]
        BY <4>1, <4>2 DEF ReapCheck
      <4> QED
        BY <1>0, <4>3 DEF TaskTypes, ReapTypes, JobType
    <3>2. ~(ReapWrite /\ Retrying /\ reaper'.task = reaper.task)
      BY <2>0, <2>2 DEF ReapWrite, Retrying
    <3> QED
      BY <1>0, <2>0, <2>2, <3>1, <3>2, RetryingStep DEF Retrying
  <2>3. ~Renewing(x)'
    <3> SUFFICES ASSUME Renewing(x)' PROVE FALSE
      OBVIOUS
    <3>1. Retrying' /\ reaper'.pc = "retry" /\ reaper'.task # x
      BY <1>0, <2>2 DEF Renewing, RetryOnly, Retrying
    <3>2. /\ ReapWrite /\ reaper.pc = "write" /\ Retrying /\ reaper'.task = reaper.task
          /\ Retry[reaper.task] = x /\ reaper.task # x
      BY <1>0, <2>0, <3>1, RetryingStep DEF Renewing, ReapWrite
    <3>3. reaper.task \in Tasks
      BY <3>2, JobTasks, KnownAreTasks
    <3>4. Over(reaper.task)
      BY <2>0, <3>2, <3>3 DEF ExecInv, GaveWay
    <3> QED
      BY <3>2, <3>4 DEF Over
  <2>4. \A th \in Threads : ~(custody'[th].pc = "write" /\ custody'[th].task = x)
    BY <1>0, <1>1, <1>3, <2>0, WriteActs DEF Kills, Settled
  <2> QED
    BY <1>2, <2>0, <2>1, <2>2, <2>3, <2>4 DEF Retrying
\* It finishes in this step.
<1>4. CASE Finishes(x)
  <2>1. PICK w \in Slots : FinishTask(w) /\ slots[w].job = x
    BY <1>4 DEF Finishes
  <2>2. slots[w].proc = "working" /\ x \in Known
    BY <1>0, <2>1 DEF FinishTask, TaskTypes, SlotTypes
  <2>3. Executes(w, x) /\ Touches(w, x) /\ Alive(w)
    BY <2>1, <2>2 DEF Executes, Given, Touches, Touching, Has, Alive
  <2>4. /\ snapshot' = snapshot /\ pending' = pending /\ events' = events /\ custody' = custody
        /\ reaper' = reaper
    BY <2>1 DEF FinishTask, queueVars, reapVars, threadVars
  <2>5. ~InLine(x)'
    BY <1>1, <2>3, <2>4 DEF ExecInv, LineNotLive, InLine, Announced, Withheld
  <2>6. ~(Retrying /\ reaper.task = x /\ reaper.pc # "kill")
    BY <2>3 DEF ExecInv, Pledges, Vow
  <2>7. ~Renewing(x)
    <3>1. reaper.task = x => reaper.pc # "retry"
      BY <1>0, <2>6 DEF RetryOnly, Retrying
    <3>2. Retry[reaper.task] = x /\ reaper.task # x => reaper.pc # "retry"
      BY <2>3 DEF ExecInv, RetryReady, Nowhere
    <3> QED
      BY <3>1, <3>2 DEF Renewing
  <2>8. \A th \in Threads : ~(custody[th].pc = "write" /\ custody[th].task = x)
    BY <1>1, <2>3 DEF CancelInv, Alone
  <2> QED
    BY <1>2, <2>2, <2>4, <2>5, <2>6, <2>7, <2>8 DEF Renewing, Retrying
<1> QED
  BY <1>0, <1>1, <1>3, <1>4, ChildMoves

\* Who writes "cancelled" writes it over no result, and over no finished subagent.
LEMMA FinishedWins ==
    ASSUME TaskTypes, Finished, OwnResults, [Tasks_Next]_taskVars,
           NEW t \in Tasks \ (used.unread \cup used.stranded),
           result'[t] = "cancelled", result[t] # "cancelled"
    PROVE  result[t] \notin Settled /\ (t \in Subagents => child[t] # "completed")
<1>1. result[t] \notin Settled
  BY ResultMoves DEF Kept, IsSettled
<1>2. ASSUME t \in Subagents, child[t] = "completed" PROVE FALSE
  <2>1. ~InLine(t) /\ \A th \in Threads : ~(custody[th].pc = "write" /\ custody[th].task = t)
    BY <1>2 DEF Finished, Readable
  <2>2. CopiedBack(t) \in Settled
    BY <1>2 DEF CopiedBack, Written, Settled
  <2>3. ~DropPending(t)
    BY <2>1 DEF DropPending, InLine
  <2>4. \A th \in Threads : custody[th].task = t => ~WritePending(th) /\ ~WriteRunning(th)
    BY <2>1 DEF WritePending, WriteRunning, Active, InLine, Withheld
  <2> QED
    BY <2>2, <2>3, <2>4, OutcomeCancelled DEF Cancels
<1> QED
  BY <1>1, <1>2

LEMMA CancelStart ==
    TaskState_Init =>
        CancelInv /\ AdriftGone /\ Underway /\ Stopped /\ OwnResults /\ Finished
<1> SUFFICES ASSUME TaskState_Init
             PROVE  CancelInv /\ AdriftGone /\ Underway /\ Stopped /\ OwnResults /\ Finished
  OBVIOUS
<1>1. /\ slots = [w \in Slots |-> FreshSlot] /\ jobs = <<>> /\ reaper = NoJob
      /\ custody = [th \in Threads |-> NoCustody] /\ child = [t \in Tasks |-> "none"]
      /\ used.adrift = {}
  BY DEF TaskState_Init
<1>2. /\ FreshSlot.busy = NoTask /\ FreshSlot.job = NoTask /\ FreshSlot.inq = <<>>
      /\ NoCustody.pc = "idle" /\ NoJob.pc = "idle"
  BY DEF FreshSlot, NoCustody, NoJob
<1>3. \A w \in Slots, t \in Tasks : ~Executes(w, t)
  BY <1>1, <1>2 DEF Executes, Given
<1>4. BusyAlone /\ RowAlone /\ RetriesIdle /\ Alone
  BY <1>1, <1>2, <1>3 DEF BusyAlone, RowAlone, RetriesIdle, Idle, Alone, Firm
<1>5. AdriftGone /\ Underway /\ Stopped /\ OwnResults /\ Finished
  BY <1>1, <1>3 DEF AdriftGone, Underway, Stopped, Firm, OwnResults, Finished, Readable
<1> QED
  BY <1>4, <1>5 DEF CancelInv

LEMMA CancelStep ==
    ASSUME TaskInv, SlotInv, ExecInv, LostInv, CancelInv, AdriftGone, Underway, Stopped,
           OwnResults, Finished, [Tasks_Next]_taskVars
    PROVE  CancelInv' /\ AdriftGone' /\ Underway' /\ Stopped' /\ OwnResults' /\ Finished'
<1>1. TaskTypes /\ RowAlone
  BY DEF TaskInv, CancelInv
<1> QED
  BY <1>1, CancelInvNext, AdriftGoneNext, UnderwayNext, StoppedNext, OwnResultsNext, FinishedNext
  DEF LostInv

(* A publicly cancelled task has no live process, or one whose slot the     *)
(* reaper has; for any number of tasks, slots, threads, deaths, timeouts,   *)
(* faults, crashes and cancellations.  It is not said of a slot a timeout   *)
(* took although it was marked, nor of a task the slot of a dead worker     *)
(* went on naming after its respawn failed: those are the code's own gaps.  *)
THEOREM CancelledStopped == Tasks_Spec => []CancelledIsStopped
<1>1. TaskState_Init => /\ SlotInv /\ ExecInv /\ LostInv
                        /\ CancelInv /\ AdriftGone /\ Underway /\ Stopped /\ OwnResults /\ Finished
  BY SlotStart, ExecStart, LostStart, CancelStart
<1>2. TaskInv /\ SlotInv /\ ExecInv /\ LostInv /\ CancelInv /\ AdriftGone /\ Underway /\ Stopped
      /\ OwnResults /\ Finished /\ [Tasks_Next]_taskVars
         => /\ SlotInv' /\ ExecInv' /\ LostInv'
            /\ CancelInv' /\ AdriftGone' /\ Underway' /\ Stopped' /\ OwnResults' /\ Finished'
  BY SlotStep, ExecStep, LostInvStep, CancelStep
<1>3. Stopped => CancelledIsStopped
  BY StoppedMeans
<1> QED
  BY <1>1, <1>2, <1>3, SupervisionInvariant, PTL DEF Tasks_Spec

(* Completion wins, for the same system: "cancelled" is never written over  *)
(* a task that had finished, unless the crash detector queued it again      *)
(* without reading its result or its slot went on naming it.                *)
THEOREM CompletionStands == Tasks_Spec => CompletionWins
<1>1. TaskState_Init => /\ SlotInv /\ ExecInv /\ LostInv
                        /\ CancelInv /\ AdriftGone /\ Underway /\ Stopped /\ OwnResults /\ Finished
  BY SlotStart, ExecStart, LostStart, CancelStart
<1>2. TaskInv /\ SlotInv /\ ExecInv /\ LostInv /\ CancelInv /\ AdriftGone /\ Underway /\ Stopped
      /\ OwnResults /\ Finished /\ [Tasks_Next]_taskVars
         => /\ SlotInv' /\ ExecInv' /\ LostInv'
            /\ CancelInv' /\ AdriftGone' /\ Underway' /\ Stopped' /\ OwnResults' /\ Finished'
  BY SlotStep, ExecStep, LostInvStep, CancelStep
<1>3. TaskInv /\ Finished /\ OwnResults /\ [Tasks_Next]_taskVars
         => [\A t \in Tasks \ (used.unread \cup used.stranded) :
                result'[t] = "cancelled" /\ result[t] # "cancelled"
                   => result[t] \notin Settled /\ (t \in Subagents => child[t] # "completed")]_taskVars
  BY FinishedWins DEF TaskInv
<1> QED
  BY <1>1, <1>2, <1>3, SupervisionInvariant, PTL DEF Tasks_Spec, CompletionWins
=============================================================================
