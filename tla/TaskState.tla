----------------------------- MODULE TaskState -----------------------------
(* The state the supervisor keeps of its tasks, and the two pieces of        *)
(* arithmetic everything else leans on: the monotonic merge of a task's      *)
(* durable result, and the fenced claim of a durable cancel intent.          *)
(*                                                                           *)
(* A task runs in the worker process of a slot.  Subagents write their       *)
(* result on a drive of their own (child) and the supervisor copies it back. *)
EXTENDS Naturals, Sequences, FiniteSets

CONSTANTS
    Tasks, NoTask,
    Slots, NoSlot,       \* worker slots
    Main, Clients,       \* the supervisor loop, the threads of HTTP requests
    Subagents,           \* tasks that run on a drive of their own
    Parent, Root,        \* task -> its parent (or NoTask), task -> its root
    Retry,               \* task -> the id its timeout retry runs under
    MaxRequests, MaxDeaths, MaxTimeouts, MaxFaults, MaxCrashes,
    MaxTroubles,         \* deaths, timeouts, faults and crashes together
    MaxReplays           \* how often the watchdog finds an intent left open

Threads == {Main} \cup Clients

ASSUME TreeAssumption ==
    /\ NoTask \notin Tasks /\ NoSlot \notin Slots /\ Main \notin Clients
    /\ Subagents \subseteq Tasks
    /\ Parent \in [Tasks -> Tasks \cup {NoTask}]
    /\ Root \in [Tasks -> Tasks] /\ Retry \in [Tasks -> Tasks]
    /\ \A t \in Subagents : Retry[t] = t

(* An id that was minted for the timeout retry of another task *)
IsRetry(t) == \E x \in Tasks \ {t} : Retry[x] = t

(* Such an id is new, so no two tasks share one; a second attempt is final.  *)
ASSUME RetryAssumption ==
    \A t, x \in Tasks :
        /\ Retry[Retry[t]] = Retry[t]
        /\ Retry[x] = Retry[t] /\ Retry[x] # x /\ Retry[t] # t => x = t

(* The lineage a task row is made with: a root is its own root, a scheduled *)
(* child inherits the root of its parent, and a retry copies the row of the *)
(* task it repeats.                                                         *)
ASSUME LineageAssumption ==
    \A t \in Tasks :
        /\ Parent[t] = NoTask /\ ~IsRetry(t) => Root[t] = t
        /\ Parent[t] # NoTask => Root[t] \in {Parent[t], Root[Parent[t]]}
        /\ Parent[Retry[t]] = Parent[t] /\ Root[Retry[t]] \in {Root[t], Retry[t]}

VARIABLES
    result,    \* task -> status of task_results/<id>.json
    child,     \* subagent -> status of its result on its own drive
    intent,    \* task -> row of state/cancel_intents.json
    owed,      \* tasks whose terminal answer is registered in the outbox
    snapshot,  \* pending tasks in the queue snapshot file
    pending,   \* PENDING
    running,   \* RUNNING: task -> slot, NoSlot when it has no row
    attempt,   \* task -> _attempt of its task row
    fences,    \* CANCELLED_ROOT_FENCES
    slots,     \* WORKERS, with what the process of each slot is doing
    events,    \* the event queue, first in first out
    jobs,      \* the reaper's queue
    reaper,    \* the job the reaper thread is working on
    custody,   \* thread -> the cancellation custody it is carrying out
    cascade,   \* thread -> the subtree cancellation it is carrying out
    pid,       \* identity of the supervisor process
    used       \* how often each bounded thing has happened, and what went wrong
               \* with whom on the way: only the properties read these sets

durableVars == <<result, child, intent, owed, snapshot>>
queueVars   == <<pending, running, attempt, fences>>
reapVars    == <<jobs, reaper>>
threadVars  == <<custody, cascade>>
envVars     == <<pid, used>>
taskVars    == <<durableVars, queueVars, slots, events, reapVars, threadVars, envVars>>

Settled  == {"completed", "failed", "cancelled"}
Statuses == Settled \cup {"none", "scheduled", "running", "interrupted"}

IsSettled(t) == result[t] \in Settled

(* Mutant: the last writer wins. *)
Written_Overwrites(old, new) == new

(* write_task_result: a settled status is sticky *)
Written(old, new) == IF old \in Settled THEN old ELSE new

(* copy_child_task_result *)
CopiedBack(t) ==
    IF t \in Subagents /\ child[t] \in Settled THEN Written(result[t], child[t]) ELSE result[t]

---------------------------------------------------------------------------
NoIntent == [state |-> "none", req |-> 0, gen |-> 0, scope |-> "single", pid |-> 0]
NoClaim  == [req |-> 0, gen |-> 0]

HasIntent(t) == intent[t].state # "none"

(* claim_is_abandoned: the process that made the claim is gone *)
Abandoned(i) == i.state = "claimed" /\ i.pid # pid

(* _generation_mismatch; a custody without an intent passes no fence at all *)
Mine(i, claim) == claim.req = 0 \/ (i.req = claim.req /\ i.gen = claim.gen)

(* request_cancel: an active intent is only ever widened *)
Requested(i, scope) ==
    IF i.state = "none"
    THEN [NoIntent EXCEPT !.state = "requested", !.req = used.mints + 1, !.scope = scope]
    ELSE [i EXCEPT !.scope = IF scope = "cascade" THEN scope ELSE @]

(* Mutant: the claim is stamped with the pid of the next supervisor. *)
Claimed_NextPid(i) == [i EXCEPT !.state = "claimed", !.gen = @ + 1, !.pid = pid + 1]

(* claim_intent *)
Claimed(i) == [i EXCEPT !.state = "claimed", !.gen = @ + 1, !.pid = pid]

(* Mutant: a failed custody keeps its claim. *)
Released_Keeps(i, claim) == i

(* release_claim *)
Released(i, claim) ==
    IF i.state = "claimed" /\ Mine(i, claim) THEN [i EXCEPT !.state = "requested", !.pid = 0] ELSE i

(* Mutant: the custody of the root settles the whole cascade. *)
SettledIntent_AnyScope(i, claim) == IF Mine(i, claim) THEN NoIntent ELSE i

(* settle_intent: the intent of a cascade is settled by its postcondition only *)
SettledIntent(i, claim) ==
    IF i.scope = "cascade"
    THEN IF claim.req # 0 THEN Released(i, claim) ELSE i
    ELSE IF Mine(i, claim) THEN NoIntent ELSE i

---------------------------------------------------------------------------
FreshSlot ==
    [busy |-> NoTask, reaping |-> FALSE, proc |-> "idle", job |-> NoTask, inq |-> <<>>, inc |-> 0]

Alive(w) == slots[w].proc # "dead"
Given(w, t) == slots[w].job = t \/ \E n \in DOMAIN slots[w].inq : slots[w].inq[n] = t
Executes(w, t) == Alive(w) /\ Given(w, t)

(* respawn_worker: whatever the slot holds is replaced by a fresh process *)
Respawned(w) == [FreshSlot EXCEPT !.inc = slots[w].inc + 1]

(* Mutant: the worker is not killed before its task is given away. *)
Killed_Skips(w, inc) == slots

(* kill_pid_tree and join of a process, which the slot may no longer hold *)
Killed(w, inc) ==
    IF slots[w].inc = inc THEN [slots EXCEPT ![w].proc = "dead"] ELSE slots

Unreaped(w, inc) ==
    IF slots[w].inc = inc THEN [slots EXCEPT ![w].reaping = FALSE] ELSE slots

OnQueue(t) == t \in pending \/ running[t] # NoSlot
Running    == {t \in Tasks : running[t] # NoSlot}
Queued     == {t \in Tasks : OnQueue(t)}

(* The walk from a task up its ancestry: to its parent, and on from every   *)
(* task it meets that is among those whose row can be looked up.            *)
Ancestors(t, rows) ==
    {a \in Tasks : \A up \in SUBSET Tasks :
        (\A x \in {t} \cup (up \cap rows) : Parent[x] \in up \cup {NoTask}) => a \in up}
Below(t, rows) == {x \in Tasks \ {t} : Root[x] = t \/ t \in Ancestors(x, rows)}

(* root_cancellation_fenced, and _is_descendant_of, which looks up less *)
Fenced(t) == Root[t] \in fences \/ Ancestors(t, Queued) \cap fences # {}
Descendants(t) == Below(t, Running)

(* task_has_live_ownership *)
Owned(t) == running[t] # NoSlot \/ \E w \in Slots : slots[w].busy = t

(* task_subtree_is_live, without and with the intents *)
TreeIsLive(t) ==
    \/ t \in pending
    \/ running[t] # NoSlot /\ ~IsSettled(t)
    \/ \E x \in Descendants(t) : OnQueue(x) /\ ~IsSettled(x)
SubtreeIsLive(t) == TreeIsLive(t) \/ HasIntent(t)

NoCustody ==
    [pc |-> "idle", task |-> NoTask, claim |-> NoClaim, took |-> FALSE, deliver |-> TRUE,
     slot |-> NoSlot, inc |-> 0, settled |-> FALSE, then |-> "end"]
NoCascade == [pc |-> "idle", root |-> NoTask, mint |-> {}, todo |-> {}, done |-> {},
              failed |-> {}, sweeps |-> 0]
NoJob     == [pc |-> "idle", task |-> NoTask, slot |-> NoSlot, inc |-> 0, retry |-> FALSE]

ThreadFree(th) == custody[th].pc = "idle" /\ cascade[th].pc = "idle"

DoneEvent(t, w)  == [kind |-> "done", task |-> t, slot |-> w]
ScheduleEvent(t) == [kind |-> "schedule", task |-> t, slot |-> NoSlot]
Emitted(t)       == Append(events, DoneEvent(t, NoSlot))

Counted(what) == used' = [used EXCEPT ![what] = @ + 1]
CountedWith(what, mark, who) == used' = [used EXCEPT ![what] = @ + 1, ![mark] = @ \cup who]
InTrouble     == used.deaths + used.timeouts + used.faults + used.crashes >= MaxTroubles
MayFault      == used.faults < MaxFaults /\ ~InTrouble

TaskState_Init ==
    LET roots == {t \in Tasks : Parent[t] = NoTask /\ ~IsRetry(t)} IN
    /\ result = [t \in Tasks |-> IF t \in roots THEN "scheduled" ELSE "none"]
    /\ child = [t \in Tasks |-> "none"] /\ intent = [t \in Tasks |-> NoIntent]
    /\ owed = {} /\ pending = roots /\ snapshot = roots
    /\ running = [t \in Tasks |-> NoSlot] /\ attempt = [t \in Tasks |-> 1] /\ fences = {}
    /\ slots = [w \in Slots |-> FreshSlot] /\ events = <<>>
    /\ jobs = <<>> /\ reaper = NoJob
    /\ custody = [th \in Threads |-> NoCustody] /\ cascade = [th \in Threads |-> NoCascade]
    /\ pid = 1
    /\ used = [requests |-> 0, mints |-> 0, deaths |-> 0, timeouts |-> 0, faults |-> 0,
                crashes |-> 0, replays |-> 0,
                struck |-> {}, stranded |-> {}, unread |-> {}, adrift |-> {}]
============================================================================
