---------------------------- MODULE TaskWorkers ----------------------------
(* Workers, and what the supervisor does about them: assignment, the events *)
(* a worker sends, the crash detector, the timeout of a task and the reaper *)
(* thread that carries it out, and the loss of the supervisor process.      *)
(* The supervisor loop is one thread: while it carries out a cancellation   *)
(* custody or respawns a worker, it does nothing else.                      *)
EXTENDS TaskState

LoopFree == ThreadFree(Main)

(* the postcondition of enqueue_task: a fenced task is refused *)
Enqueued(t) == pending \cup (IF Fenced(t) THEN {} ELSE {t})

(*************************** in the worker process ************************)
StartTask(w) ==
    LET t == Head(slots[w].inq) IN
    /\ slots[w].proc = "idle" /\ slots[w].inq # <<>>
    /\ slots' = [slots EXCEPT ![w].proc = "working", ![w].job = t, ![w].inq = Tail(@)]
    /\ IF t \in Subagents
       THEN child' = [child EXCEPT ![t] = Written(@, "running")] /\ UNCHANGED result
       ELSE result' = [result EXCEPT ![t] = Written(@, "running")] /\ UNCHANGED child
    /\ UNCHANGED <<intent, owed, snapshot, queueVars, events, reapVars, threadVars, envVars>>

(* the result is settled before the worker is done with the task *)
FinishTask(w) ==
    LET t == slots[w].job IN
    /\ slots[w].proc = "working"
    /\ slots' = [slots EXCEPT ![w].proc = "finishing"]
    /\ IF t \in Subagents
       THEN child' = [child EXCEPT ![t] = Written(@, "completed")] /\ UNCHANGED result
       ELSE result' = [result EXCEPT ![t] = Written(@, "completed")] /\ UNCHANGED child
    /\ UNCHANGED <<intent, owed, snapshot, queueVars, events, reapVars, threadVars, envVars>>

EmitDone(w) ==
    /\ slots[w].proc = "finishing"
    /\ slots' = [slots EXCEPT ![w].proc = "idle", ![w].job = NoTask]
    /\ events' = Append(events, DoneEvent(slots[w].job, w))
    /\ UNCHANGED <<durableVars, queueVars, reapVars, threadVars, envVars>>

(* schedule_subagent: the row of the child, under a new id, then the event *)
ScheduleChild(w, t) ==
    /\ slots[w].proc = "working" /\ Parent[t] = slots[w].job
    /\ result[t] = "none" /\ ~IsRetry(t)
    /\ result' = [result EXCEPT ![t] = "scheduled"]
    /\ events' = Append(events, ScheduleEvent(t))
    /\ UNCHANGED <<child, intent, owed, snapshot, queueVars, slots, reapVars, threadVars, envVars>>

WorkerDies(w) ==
    /\ used.deaths < MaxDeaths /\ ~InTrouble /\ Alive(w)
    /\ slots' = [slots EXCEPT ![w].proc = "dead"]
    /\ Counted("deaths")
    /\ UNCHANGED <<durableVars, queueVars, events, reapVars, threadVars, pid>>

(*************************** the supervisor loop **************************)
(* admission of a scheduled child: the fence is consulted under the lock *)
HandleSchedule ==
    LET t == Head(events).task IN
    /\ LoopFree /\ events # <<>> /\ Head(events).kind = "schedule"
    /\ events' = Tail(events)
    /\ pending' = Enqueued(t) /\ snapshot' = pending'
    /\ result' = [result EXCEPT ![t] = Written(@, IF Fenced(t) THEN "failed" ELSE "scheduled")]
    /\ UNCHANGED <<child, intent, owed, running, attempt, fences, slots, reapVars, threadVars, envVars>>

(* a done event whose durable result is not settled is a lifecycle fault:  *)
(* left to the cancellation when one is pending, else failed on the spot   *)
HandleDone ==
    LET e == Head(events)
        t == e.task
        copied == IF running[t] # NoSlot THEN CopiedBack(t) ELSE result[t]
        fault == copied \notin Settled \cup {"interrupted"} IN
    /\ LoopFree /\ events # <<>> /\ e.kind = "done"
    /\ events' = Tail(events)
    /\ IF fault /\ HasIntent(t)
       THEN UNCHANGED <<result, running, slots, snapshot>>
       ELSE /\ result' = [result EXCEPT ![t] = IF fault THEN "failed" ELSE copied]
            /\ running' = [running EXCEPT ![t] = NoSlot]
            /\ slots' = [w \in Slots |->
                            IF w = e.slot /\ slots[w].busy = t /\ ~slots[w].reaping
                            THEN [slots[w] EXCEPT !.busy = NoTask] ELSE slots[w]]
            /\ snapshot' = pending
    /\ UNCHANGED <<child, intent, owed, pending, attempt, fences, reapVars, threadVars, envVars>>

(* assign_tasks, first half: a queued task that was cancelled or settled   *)
(* leaves the queue; the drop claims the intent before it settles it       *)
DropPending(t) ==
    LET row == Claimed(intent[t])
        refused == intent[t].state = "claimed" /\ ~Abandoned(intent[t])
        cancels == HasIntent(t) /\ ~refused IN
    /\ LoopFree /\ t \in pending /\ (HasIntent(t) \/ IsSettled(t))
    /\ pending' = pending \ {t}
    /\ IF cancels
       THEN /\ result' = [result EXCEPT ![t] = Written(@, "cancelled")]
            /\ intent' = [intent EXCEPT
                            ![t] = SettledIntent(row, [req |-> row.req, gen |-> row.gen])]
            /\ events' = Emitted(t)
       ELSE UNCHANGED <<result, intent, events>>
    /\ UNCHANGED <<child, owed, snapshot, running, attempt, fences, slots,
                   reapVars, threadVars, envVars>>

(* the outcome could not be written: the claim is given back, and nothing is *)
(* published that is not on disk                                             *)
DropPendingFails(t) ==
    LET row == Claimed(intent[t]) IN
    /\ LoopFree /\ t \in pending /\ MayFault
    /\ HasIntent(t) /\ (intent[t].state = "claimed" => Abandoned(intent[t]))
    /\ pending' = pending \ {t}
    /\ intent' = [intent EXCEPT ![t] = Released(row, [req |-> row.req, gen |-> row.gen])]
    /\ Counted("faults")
    /\ UNCHANGED <<result, child, owed, snapshot, running, attempt, fences, slots, events,
                   reapVars, threadVars, pid>>

(* assign_tasks, second half *)
Assign(w, t) ==
    /\ LoopFree /\ slots[w].busy = NoTask /\ ~slots[w].reaping
    /\ t \in pending /\ ~HasIntent(t) /\ ~IsSettled(t)
    /\ pending' = pending \ {t} /\ snapshot' = pending'
    /\ running' = [running EXCEPT ![t] = w]
    /\ slots' = [slots EXCEPT ![w].busy = t, ![w].inq = Append(@, t)]
    /\ result' = IF t \in Subagents THEN [result EXCEPT ![t] = Written(@, "running")] ELSE result
    /\ UNCHANGED <<child, intent, owed, attempt, fences, events, reapVars, threadVars, envVars>>

(* Mutant: a dead process is recovered although its reaper is at work. *)
DetectCrash_IgnoresMark(w) ==
    /\ LoopFree /\ ~Alive(w)
    /\ slots' = [slots EXCEPT ![w].reaping = TRUE]
    /\ custody' = [custody EXCEPT ![Main] = [NoCustody EXCEPT !.pc = "respawn", !.slot = w]]
    /\ UNCHANGED <<durableVars, queueVars, events, reapVars, cascade, envVars>>

(* Mutant: a dead worker's task is not queued again. *)
DetectCrash_Forgets(w) ==
    LET t == slots[w].busy IN
    /\ LoopFree /\ ~Alive(w) /\ ~slots[w].reaping
    /\ slots' = [slots EXCEPT ![w].reaping = TRUE]
    /\ custody' = [custody EXCEPT ![Main] = [NoCustody EXCEPT !.pc = "respawn", !.slot = w]]
    /\ running' = [x \in Tasks |-> IF x = t THEN NoSlot ELSE running[x]]
    /\ UNCHANGED <<durableVars, pending, attempt, fences, events, reapVars, cascade, envVars>>

(* ensure_workers_healthy: a dead process nobody owns.  A death by signal or *)
(* a second one is final; otherwise the task is queued again under its id.   *)
DetectCrash(w) ==
    LET t == slots[w].busy
        lost == t # NoTask /\ running[t] # NoSlot IN
    /\ LoopFree /\ ~Alive(w) /\ ~slots[w].reaping
    /\ slots' = [slots EXCEPT ![w].reaping = TRUE]
    /\ custody' = [custody EXCEPT ![Main] = [NoCustody EXCEPT !.pc = "respawn", !.slot = w]]
    /\ used' = [used EXCEPT !.unread = @ \cup {x \in {t} \cap Subagents : child[x] = "completed"}]
    /\ IF ~lost
       THEN UNCHANGED <<result, pending, running, attempt, events>>
       ELSE /\ running' = [running EXCEPT ![t] = NoSlot]
            /\ \E signal \in BOOLEAN :
                  LET retried == ~IsSettled(t) /\ ~signal /\ attempt[t] = 1
                      again == retried /\ ~Fenced(t) IN
                  /\ result' = [result EXCEPT
                                  ![t] = Written(@, IF again THEN "interrupted" ELSE "failed")]
                  /\ pending' = IF again THEN pending \cup {t} ELSE pending
                  /\ attempt' = [attempt EXCEPT ![t] = IF retried THEN 2 ELSE @]
                  /\ events' = IF again THEN events ELSE Emitted(t)
    /\ UNCHANGED <<child, intent, owed, snapshot, fences, reapVars, cascade, pid>>

(* Mutant: the retry is queued before the worker is dead. *)
Timeout_RetriesNow(t) ==
    LET w == running[t] IN
    /\ LoopFree /\ w # NoSlot /\ used.timeouts < MaxTimeouts /\ ~InTrouble
    /\ running' = [running EXCEPT ![t] = NoSlot]
    /\ slots' = [slots EXCEPT ![w].reaping = TRUE,
                              ![w].busy = IF @ = t THEN NoTask ELSE @]
    /\ jobs' = Append(jobs, [NoJob EXCEPT !.pc = "kill", !.task = t, !.slot = w,
                                !.inc = slots[w].inc])
    /\ pending' = Enqueued(Retry[t]) /\ snapshot' = pending'
    /\ Counted("timeouts")
    /\ UNCHANGED <<result, child, intent, owed, attempt, fences, events, reaper, threadVars, pid>>

(* enforce_task_timeouts: the row leaves RUNNING, the slot is marked and the *)
(* rest is the reaper's.  No retry under a deadline or with live descendants. *)
Timeout(t) ==
    LET w == running[t] IN
    /\ LoopFree /\ w # NoSlot /\ used.timeouts < MaxTimeouts /\ ~InTrouble
    /\ running' = [running EXCEPT ![t] = NoSlot]
    /\ slots' = [slots EXCEPT ![w].reaping = TRUE,
                              ![w].busy = IF @ = t THEN NoTask ELSE @]
    /\ \E deadline \in BOOLEAN :
          LET orchestrator == \E x \in Descendants(t) : OnQueue(x) IN
          jobs' = Append(jobs, [NoJob EXCEPT !.pc = "kill", !.task = t, !.slot = w,
                                  !.inc = slots[w].inc,
                                  !.retry = attempt[t] = 1 /\ ~deadline /\ ~orchestrator])
    /\ snapshot' = pending
    /\ CountedWith("timeouts", "struck", IF slots[w].reaping THEN {w} ELSE {})
    /\ UNCHANGED <<result, child, intent, owed, pending, attempt, fences, events, reaper, threadVars, pid>>

(****************************** the reaper ********************************)
(* Mutant: the last job is left in the queue. *)
ReapTake_LeavesLast ==
    /\ reaper.pc = "idle" /\ Len(jobs) > 1
    /\ reaper' = Head(jobs) /\ jobs' = Tail(jobs)
    /\ UNCHANGED <<durableVars, queueVars, slots, events, threadVars, envVars>>

ReapTake ==
    /\ reaper.pc = "idle" /\ jobs # <<>>
    /\ reaper' = Head(jobs) /\ jobs' = Tail(jobs)
    /\ UNCHANGED <<durableVars, queueVars, slots, events, threadVars, envVars>>

ReapKill ==
    /\ reaper.pc = "kill"
    /\ slots' = Killed(reaper.slot, reaper.inc)
    /\ reaper' = [reaper EXCEPT !.pc = "check"]
    /\ UNCHANGED <<durableVars, queueVars, events, jobs, threadVars, envVars>>

(* Mutant: a worker that survived its kill is respawned over. *)
ReapWedged_Respawns ==
    /\ reaper.pc = "kill" /\ MayFault
    /\ slots[reaper.slot].inc = reaper.inc /\ Alive(reaper.slot)
    /\ result' = [result EXCEPT ![reaper.task] = Written(@, "failed")]
    /\ reaper' = [reaper EXCEPT !.pc = "respawn"]
    /\ Counted("faults")
    /\ UNCHANGED <<child, intent, owed, snapshot, queueVars, slots, events, jobs, threadVars, pid>>

(* _hold_wedged_worker: the slot stays marked, nothing else is touched *)
ReapWedged ==
    /\ reaper.pc = "kill" /\ MayFault
    /\ slots[reaper.slot].inc = reaper.inc /\ Alive(reaper.slot)
    /\ result' = [result EXCEPT ![reaper.task] = Written(@, "running")]
    /\ reaper' = NoJob
    /\ CountedWith("faults", "adrift", {x \in {reaper.task} : reaper.slot \in used.struck})
    /\ UNCHANGED <<child, intent, owed, snapshot, queueVars, slots, events, jobs, threadVars, pid>>

Owing(t) == owed' = owed \cup ({t} \ Subagents)

(* the task may have finished by itself before it was killed *)
ReapCheck ==
    LET t == reaper.task IN
    /\ reaper.pc = "check"
    /\ result' = [result EXCEPT ![t] = CopiedBack(t)]
    /\ IF result'[t] \in Settled
       THEN Owing(t) /\ events' = Emitted(t) /\ reaper' = [reaper EXCEPT !.pc = "respawn"]
       ELSE reaper' = [reaper EXCEPT !.pc = "write"] /\ UNCHANGED <<owed, events>>
    /\ UNCHANGED <<child, intent, snapshot, queueVars, slots, jobs, threadVars, envVars>>

ReapWrite ==
    LET t == reaper.task
        r == Retry[t]
        closed == [result EXCEPT ![t] = Written(@, IF reaper.retry THEN "interrupted" ELSE "failed")] IN
    /\ reaper.pc = "write"
    /\ IF reaper.retry
       THEN /\ result' = IF r = t THEN closed ELSE [closed EXCEPT ![r] = Written(@, "scheduled")]
            /\ reaper' = [reaper EXCEPT !.pc = "retry"]
            /\ UNCHANGED <<owed, events>>
       ELSE /\ result' = closed
            /\ Owing(t) /\ events' = Emitted(t)
            /\ reaper' = [reaper EXCEPT !.pc = "respawn"]
    /\ UNCHANGED <<child, intent, snapshot, queueVars, slots, jobs, threadVars, envVars>>

(* The result could not be written, or the row of the retry after it: the   *)
(* retry is off, and the report goes out as it does for a failed task.       *)
ReapWriteFails ==
    LET t == reaper.task IN
    /\ reaper.pc = "write" /\ MayFault
    /\ \/ result' = result
       \/ /\ reaper.retry /\ Retry[t] # t
          /\ result' = [result EXCEPT ![t] = Written(@, "interrupted")]
    /\ Owing(t) /\ events' = Emitted(t)
    /\ reaper' = [reaper EXCEPT !.pc = "respawn", !.retry = FALSE]
    /\ CountedWith("faults", "adrift", {x \in {t} : result'[x] = "interrupted"})
    /\ UNCHANGED <<child, intent, snapshot, queueVars, slots, jobs, threadVars, pid>>

(* Mutant: the retry is announced but never queued. *)
ReapRetry_Unqueued ==
    LET t == reaper.task
        r == Retry[t] IN
    /\ reaper.pc = "retry"
    /\ reaper' = [reaper EXCEPT !.pc = "respawn"]
    /\ attempt' = [attempt EXCEPT ![r] = 2]
    /\ UNCHANGED <<result, child, intent, owed, snapshot, pending, running, fences, slots, events,
                   jobs, threadVars, envVars>>

(* _enqueue_retry: a retry the fence refuses ends both ids as failed *)
ReapRetry ==
    LET t == reaper.task
        r == Retry[t] IN
    /\ reaper.pc = "retry"
    /\ reaper' = [reaper EXCEPT !.pc = "respawn"]
    /\ pending' = Enqueued(r)
    /\ attempt' = [attempt EXCEPT ![r] = 2]
    /\ IF Fenced(r)
       THEN /\ result' = [result EXCEPT ![t] = Written(@, "failed"), ![r] = Written(@, "failed")]
            /\ Owing(t) /\ events' = Emitted(t)
       ELSE UNCHANGED <<result, owed, events>>
    /\ UNCHANGED <<child, intent, snapshot, running, fences, slots, jobs, threadVars, envVars>>

(* the enqueueing raised, or the outcome of a refusal could not be written *)
ReapRetryFails ==
    LET t == reaper.task
        r == Retry[t] IN
    /\ reaper.pc = "retry" /\ MayFault
    /\ \E half \in {FALSE, Fenced(r) /\ r # t} :
          result' = IF half THEN [result EXCEPT ![t] = Written(@, "failed")] ELSE result
    /\ Owing(t) /\ events' = Emitted(t)
    /\ reaper' = [reaper EXCEPT !.pc = "respawn"]
    /\ CountedWith("faults", "adrift", {t, r})
    /\ UNCHANGED <<child, intent, snapshot, queueVars, slots, jobs, threadVars, pid>>

ReapRespawn ==
    /\ reaper.pc = "respawn"
    /\ slots' = [slots EXCEPT ![reaper.slot] = Respawned(reaper.slot)]
    /\ snapshot' = pending
    /\ reaper' = NoJob
    /\ UNCHANGED <<result, child, intent, owed, queueVars, events, jobs, threadVars, envVars>>

(* the fork failed: the crash detector recovers the slot on a later tick *)
ReapRespawnFails ==
    /\ reaper.pc = "respawn" /\ MayFault
    /\ slots' = [slots EXCEPT ![reaper.slot].reaping = FALSE]
    /\ snapshot' = pending
    /\ reaper' = NoJob
    /\ Counted("faults")
    /\ UNCHANGED <<result, child, intent, owed, queueVars, events, jobs, threadVars, pid>>

(************************* loss of the supervisor *************************)
(* Workers follow their parent.  The next process restores the snapshot,    *)
(* except what has settled or is being cancelled.                           *)
Crash ==
    LET restored == {t \in snapshot : ~IsSettled(t) /\ ~HasIntent(t)} IN
    /\ used.crashes < MaxCrashes /\ ~InTrouble
    /\ pid' = pid + 1
    /\ pending' = restored
    /\ snapshot' = IF restored = {} THEN snapshot ELSE restored
    /\ running' = [t \in Tasks |-> NoSlot] /\ fences' = {}
    /\ slots' = [w \in Slots |-> FreshSlot]
    /\ events' = <<>> /\ jobs' = <<>> /\ reaper' = NoJob
    /\ custody' = [th \in Threads |-> NoCustody] /\ cascade' = [th \in Threads |-> NoCascade]
    /\ Counted("crashes")
    /\ UNCHANGED <<result, child, intent, owed, attempt>>

WorkerStep(w) == StartTask(w) \/ FinishTask(w) \/ EmitDone(w)
LoopStep ==
    \/ HandleSchedule \/ HandleDone
    \/ \E t \in Tasks : DropPending(t) \/ \E w \in Slots : Assign(w, t)
    \/ \E w \in Slots : DetectCrash(w)
ReaperStep == ReapTake \/ ReapKill \/ ReapCheck \/ ReapWrite \/ ReapRetry \/ ReapRespawn
ReaperFault == ReapWedged \/ ReapWriteFails \/ ReapRetryFails \/ ReapRespawnFails
============================================================================
