-------------------------- MODULE TaskSupervision --------------------------
(* The supervisor's tasks: workers, crash detector, timeouts and reaper     *)
(* composed with cancellation, from the admission of the root tasks on.     *)
EXTENDS TaskWorkers, TaskCancel

Environment ==
    \/ \E w \in Slots : WorkerDies(w)
    \/ \E t \in Tasks : Timeout(t) \/ RequestByWorker(t)
    \/ \E c \in Clients, t \in Tasks : RequestSingle(c, t) \/ RequestCascade(c, t)
    \/ Crash

Fault ==
    \/ ReaperFault
    \/ \E t \in Tasks : DropPendingFails(t)
    \/ \E th \in Threads : CustodyFault(th)

Tasks_Next ==
    \/ LoopStep \/ ReaperStep
    \/ \E w \in Slots : WorkerStep(w) \/ \E t \in Tasks : ScheduleChild(w, t)
    \/ \E t \in Tasks : Watchdog(t)
    \/ \E th \in Threads : CustodyStep(th) \/ CascadeStep(th)
    \/ Environment \/ Fault

Tasks_Spec == TaskState_Init /\ [][Tasks_Next]_taskVars

(* The loop, the reaper thread, the request threads and the workers keep    *)
(* running; the watchdog looks at every open intent on every tick.          *)
Tasks_FairSpec ==
    /\ Tasks_Spec
    /\ WF_taskVars(HandleSchedule \/ HandleDone)
    /\ \A w \in Slots : WF_taskVars(DetectCrash(w)) /\ WF_taskVars(WorkerStep(w))
    /\ \A t \in Tasks : SF_taskVars(Watchdog(t)) /\ SF_taskVars(DropPending(t))
    /\ \A t \in Tasks : SF_taskVars(\E w \in Slots : Assign(w, t))
    /\ WF_taskVars(ReaperStep)
    /\ \A th \in Threads : WF_taskVars(CustodyStep(th)) /\ WF_taskVars(CascadeStep(th))

---------------------------------------------------------------------------
CustodyPcs == {"idle", "claim", "capture", "pwrite", "kill", "write", "miss", "owed",
               "settle", "publish", "respawn"}
HoldsSlot(th) == custody[th].pc \in {"kill", "write", "owed", "settle", "publish", "respawn"}
                 /\ custody[th].slot # NoSlot

(* Types of the supervisor's files, queues, slots and threads. *)
TaskTypeOK ==
    /\ result \in [Tasks -> Statuses] /\ child \in [Tasks -> Statuses]
    /\ \A t \in Tasks :
          /\ intent[t].state \in {"none", "requested", "claimed"}
          /\ intent[t].scope \in {"single", "cascade"}
          /\ intent[t].req \in 0..used.mints /\ intent[t].gen \in Nat /\ intent[t].pid \in 0..pid
    /\ owed \subseteq Tasks /\ snapshot \subseteq Tasks /\ pending \subseteq Tasks
    /\ running \in [Tasks -> Slots \cup {NoSlot}] /\ attempt \in [Tasks -> {1, 2}]
    /\ fences \subseteq Tasks
    /\ \A w \in Slots :
          /\ slots[w].busy \in Tasks \cup {NoTask} /\ slots[w].job \in Tasks \cup {NoTask}
          /\ slots[w].reaping \in BOOLEAN /\ slots[w].inc \in Nat
          /\ slots[w].proc \in {"idle", "working", "finishing", "dead"}
          /\ slots[w].inq \in Seq(Tasks)
    /\ \A th \in Threads :
          /\ custody[th].pc \in CustodyPcs
          /\ cascade[th].pc \in {"idle", "begin", "sweep", "mint", "tasks", "post", "summary", "close"}

(* No task runs twice at once, neither under its own id nor under the id of *)
(* its retry: a retry is queued only after the original is provably dead.   *)
NoTwoExecutions ==
    \A t \in Tasks : Cardinality({w \in Slots : Executes(w, t) \/ Executes(w, Retry[t])}) <= 1

Owners(w) ==
    {<<th, "custody">> : th \in {x \in Threads : HoldsSlot(x) /\ custody[x].slot = w}}
    \cup (IF reaper.pc # "idle" /\ reaper.slot = w THEN {<<reaper, "reaper">>} ELSE {})
    \cup {<<jobs[i], "job">> : i \in {n \in DOMAIN jobs : jobs[n].slot = w}}

(* A slot whose process the reaper is about to kill, or could not kill *)
Condemned(w) ==
    slots[w].reaping /\ ~\E th \in Threads : HoldsSlot(th) /\ custody[th].slot = w

(* A task that is publicly cancelled has no live process any more, unless   *)
(* the reaper has its slot: to kill the process, or because it could not.   *)
(* It is not said of a task that the slot of a dead worker went on naming   *)
(* after its respawn failed, nor of a slot that a timeout has taken         *)
(* although it was marked: that slot has two owners and neither can tell.   *)
CancelledIsStopped ==
    \A t \in Tasks \ used.stranded :
        result[t] = "cancelled" => \A w \in Slots \ used.struck : Executes(w, t) => Condemned(w)

(* A slot marked reaping has one owner, which will respawn or release it;   *)
(* an unmarked slot has none.  (A worker that would not die is held.)  The  *)
(* exception is a slot that a timeout has taken although it was marked.     *)
SlotHasOneOwner ==
    \A w \in Slots \ used.struck :
        /\ Cardinality(Owners(w)) <= 1
        /\ Owners(w) # {} => slots[w].reaping
        /\ slots[w].reaping => Owners(w) # {} \/ used.faults > 0

(* A slot is only ever given a new process when its old one is dead, unless *)
(* a timeout has taken it although it was marked.                           *)
RespawnReplacesDead ==
    [][\A w \in Slots \ used.struck : slots'[w].inc > slots[w].inc => ~Alive(w)]_taskVars

HeldByReaper(t) ==
    \/ reaper.task = t \/ \E n \in DOMAIN jobs : jobs[n].task = t
    \/ \E x \in Tasks : reaper.task = x /\ Retry[x] = t

(* An accepted task that has no outcome yet is in somebody's hands: queued, *)
(* running, being cancelled, held by the reaper, announced or reported done *)
(* in the event queue, continued under the id of its retry, or in a worker  *)
(* that would not die.  A custody works on a task that is being cancelled.  *)
(* The code lets go of one only where a write or an enqueueing of the       *)
(* reaper failed and left an unsettled result behind (task_status.py        *)
(* 340-357 calls such a result an orphan), or where a worker that would not *)
(* die sits in a slot with two owners.                                      *)
NoTaskLost ==
    \A t \in Tasks :
        result[t] \notin Settled \cup {"none"} =>
            \/ OnQueue(t) \/ HasIntent(t) \/ HeldByReaper(t)
            \/ \E n \in DOMAIN events : events[n].task = t
            \/ result[t] = "interrupted" /\ Retry[t] # t /\ result[Retry[t]] # "none"
            \/ \E w \in Slots : slots[w].reaping /\ Given(w, t) \* a wedged worker, held
            \/ t \in used.adrift
            \/ used.crashes > 0

(* A cancel request is never dropped before its task has an outcome. *)
IntentOutlivesTask ==
    [][\A t \in Tasks : HasIntent(t) /\ ~HasIntent(t)' => IsSettled(t)']_taskVars

(* A cascade's intent goes only when its summary is owed and all that is    *)
(* left of the tree, queued or running unsettled, has a cancel intent of    *)
(* its own: a custody may hand back a child it could not write.             *)
CascadeClosesDeadTree ==
    [][\A t \in Tasks :
          HasIntent(t) /\ intent[t].scope = "cascade" /\ ~HasIntent(t)'
              => /\ t \in owed
                 /\ \A x \in Descendants(t) \cup {t} :
                       OnQueue(x) /\ ~IsSettled(x) => x # t /\ HasIntent(x)]_taskVars

(* Completion wins: "cancelled" is never written over a task that had       *)
(* finished, on its own drive or on the supervisor's.  The exceptions are a *)
(* subagent that the crash detector queued again without looking at its     *)
(* result, and a task named by the slot of a dead worker after its respawn  *)
(* failed.                                                                  *)
CompletionWins ==
    [][\A t \in Tasks \ (used.unread \cup used.stranded) :
          result'[t] = "cancelled" /\ result[t] # "cancelled"
              => result[t] \notin Settled /\ (t \in Subagents => child[t] # "completed")]_taskVars

(* Every cancel request is settled, whatever was lost on the way. *)
IntentSettles == \A t \in Tasks : HasIntent(t) ~> ~HasIntent(t)

(* _hold_wedged_worker: a process that survived its kill keeps its slot *)
Wedged(w) == Owners(w) = {} /\ used.faults > 0

(* Every slot that is being reaped comes back to the pool, unless a worker  *)
(* that cannot be killed sits in it.                                        *)
SlotComesBack == \A w \in Slots : slots[w].reaping ~> ~slots[w].reaping \/ Wedged(w)
============================================================================
