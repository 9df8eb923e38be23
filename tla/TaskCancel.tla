----------------------------- MODULE TaskCancel ----------------------------
(* Cancellation.  A request records a durable intent; the custody of a      *)
(* thread claims the intent, captures the task under the queue lock, kills  *)
(* and joins its worker, writes the outcome, registers the answer as owed,  *)
(* settles the intent and only then publishes and respawns.  A cascade      *)
(* fences a subtree and drives every live member of it through custody.     *)
(* Every step below is one call that leaves its effect behind: threads,     *)
(* the supervisor loop and a crash interleave between them.                 *)
EXTENDS TaskState

Active(th, at) == custody[th].pc = at

Goto(th, at) == custody' = [custody EXCEPT ![th].pc = at]

(* end of a custody: a cascade notes which of its tasks it terminalized *)
Ended(th, ok) ==
    LET t == custody[th].task IN
    /\ custody' = [custody EXCEPT ![th] = NoCustody]
    /\ cascade' = IF cascade[th].pc = "idle" THEN cascade
                  ELSE IF ok THEN [cascade EXCEPT ![th].done = @ \cup {t}]
                  ELSE [cascade EXCEPT ![th].failed = @ \cup {t}]

(* Mutant: a failed custody settles its intent. *)
GivenUp_Settles(th) ==
    LET t == custody[th].task IN
    /\ intent' = [intent EXCEPT ![t] = NoIntent]
    /\ Ended(th, FALSE)

(* a failed custody reopens the intent for the watchdog *)
GivenUp(th) ==
    LET t == custody[th].task IN
    /\ intent' = [intent EXCEPT ![t] = Released(@, custody[th].claim)]
    /\ Ended(th, FALSE)

Take(th, t, deliver) ==
    custody' = [custody EXCEPT
                  ![th] = [NoCustody EXCEPT !.pc = "claim", !.task = t, !.deliver = deliver]]
Open(th, t) ==
    cascade' = [cascade EXCEPT ![th] = [NoCascade EXCEPT !.pc = "begin", !.root = t]]

Minted(t, scope) ==
    /\ intent' = [intent EXCEPT ![t] = Requested(@, scope)]
    /\ used' = [used EXCEPT !.mints = IF HasIntent(t) THEN @ ELSE @ + 1]

(******************************* ingress **********************************)
MayRequest == used.requests < MaxRequests
Asking(t, scope) ==
    /\ intent' = [intent EXCEPT ![t] = Requested(@, scope)]
    /\ used' = [used EXCEPT !.requests = @ + 1, !.mints = IF HasIntent(t) THEN @ ELSE @ + 1]

RequestSingle(c, t) ==
    /\ MayRequest /\ ThreadFree(c)
    /\ Owned(t) \/ SubtreeIsLive(t)
    /\ Asking(t, "single")
    /\ Take(c, t, TRUE)
    /\ UNCHANGED <<result, child, owed, snapshot, queueVars, slots, events, reapVars, cascade, pid>>

RequestCascade(c, t) ==
    /\ MayRequest /\ ThreadFree(c)
    /\ Owned(t) \/ SubtreeIsLive(t)
    /\ Asking(t, "cascade")
    /\ Open(c, t)
    /\ UNCHANGED <<result, child, owed, snapshot, queueVars, slots, events, reapVars, custody, pid>>

(* a worker's request: its control event may be lost, the intent is not *)
RequestByWorker(t) ==
    /\ MayRequest
    /\ ~IsSettled(t) \/ Owned(t)
    /\ result[t] # "none"
    /\ Asking(t, "single")
    /\ UNCHANGED <<result, child, owed, snapshot, queueVars, slots, events, reapVars, threadVars, pid>>

(* sweep_cancel_intents, on the supervisor's tick *)
Watchdog(t) ==
    /\ ThreadFree(Main) /\ used.replays < MaxReplays
    /\ intent[t].state = "requested" \/ Abandoned(intent[t])
    /\ IF intent[t].scope = "cascade"
       THEN Open(Main, t) /\ UNCHANGED custody
       ELSE Take(Main, t, TRUE) /\ UNCHANGED cascade
    /\ Counted("replays")
    /\ UNCHANGED <<durableVars, queueVars, slots, events, reapVars, pid>>

(******************************* custody **********************************)
(* phase 0: exclusivity comes from the claim *)
Claim(th) ==
    LET t == custody[th].task
        i == intent[t]
        row == Claimed(i) IN
    /\ Active(th, "claim")
    /\ \/ /\ ~HasIntent(t)
          /\ Goto(th, "capture") /\ UNCHANGED <<intent, cascade>>
       \/ /\ i.state = "claimed" /\ ~Abandoned(i)
          /\ Ended(th, FALSE) /\ UNCHANGED intent
       \/ /\ HasIntent(t) /\ (i.state = "claimed" => Abandoned(i))
          /\ intent' = [intent EXCEPT ![t] = row]
          /\ custody' = [custody EXCEPT ![th].pc = "capture",
                            ![th].claim = [req |-> row.req, gen |-> row.gen],
                            ![th].took = Abandoned(i)]
          /\ UNCHANGED cascade
    /\ UNCHANGED <<result, child, owed, snapshot, queueVars, slots, events, reapVars, envVars>>

(* the workers a custody may capture: not a dead one of a settled task *)
Holders(t) == {w \in Slots : slots[w].busy = t /\ (Alive(w) \/ ~IsSettled(t))}

(* phase 1, under the queue lock *)
CapturePending(th) ==
    LET t == custody[th].task IN
    /\ Active(th, "capture") /\ t \in pending /\ ~IsSettled(t)
    /\ pending' = pending \ {t}
    /\ Goto(th, "pwrite")
    /\ UNCHANGED <<durableVars, running, attempt, fences, slots, events, reapVars, cascade, envVars>>

CaptureRunning(th) ==
    LET c == custody[th]
        t == c.task IN
    /\ Active(th, "capture") /\ (t \in pending => IsSettled(t))
    /\ pending' = pending \ {t}
    /\ \E w \in Holders(t) :
          IF slots[w].reaping /\ ~c.took
          THEN /\ IF c.claim.req # 0 THEN GivenUp(th) ELSE Ended(th, FALSE) /\ UNCHANGED intent
               /\ UNCHANGED slots
          ELSE /\ slots' = [slots EXCEPT ![w].reaping = TRUE]
               /\ custody' = [custody EXCEPT ![th].pc = "kill", ![th].slot = w,
                                 ![th].inc = slots[w].inc, ![th].settled = IsSettled(t),
                                 ![th].then = "publish"]
               /\ UNCHANGED <<intent, cascade>>
    /\ UNCHANGED <<result, child, owed, snapshot, running, attempt, fences, events, reapVars, envVars>>

CaptureNothing(th) ==
    LET c == custody[th]
        t == c.task IN
    /\ Active(th, "capture") /\ (t \in pending => IsSettled(t)) /\ Holders(t) = {}
    /\ pending' = pending \ {t}
    /\ Goto(th, IF ~IsSettled(t) THEN "miss"
                ELSE IF c.claim.req # 0 /\ c.deliver THEN "owed" ELSE "settle")
    /\ UNCHANGED <<durableVars, running, attempt, fences, slots, events, reapVars, cascade, envVars>>

(* a queued task has no process *)
WritePending(th) ==
    LET c == custody[th]
        t == c.task IN
    /\ Active(th, "pwrite")
    /\ result' = [result EXCEPT ![t] = Written(@, "cancelled")]
    /\ custody' = [custody EXCEPT ![th].pc = "settle",
                      ![th].then = IF result'[t] = "cancelled" THEN "emit" ELSE "end"]
    /\ UNCHANGED <<child, intent, owed, snapshot, queueVars, slots, events, reapVars, cascade, envVars>>

WritePendingFails(th) ==
    /\ Active(th, "pwrite") /\ MayFault
    /\ pending' = pending \cup {custody[th].task}
    /\ GivenUp(th)
    /\ Counted("faults")
    /\ UNCHANGED <<result, child, owed, snapshot, running, attempt, fences, slots, events, reapVars, pid>>

(* phase 2, off the lock: kill and join, then the child's own result decides *)
KillWorker(th) ==
    LET c == custody[th]
        t == c.task IN
    /\ Active(th, "kill")
    /\ slots' = Killed(c.slot, c.inc)
    /\ result' = IF c.settled THEN result ELSE [result EXCEPT ![t] = CopiedBack(t)]
    /\ Goto(th, IF c.settled \/ (t \in Subagents /\ child[t] \in Settled) THEN "owed" ELSE "write")
    /\ UNCHANGED <<child, intent, owed, snapshot, queueVars, events, reapVars, cascade, envVars>>

(* Mutant: the slot of a worker that survived its kill is respawned over. *)
WorkerSurvives_Respawns(th) ==
    LET c == custody[th] IN
    /\ Active(th, "kill") /\ MayFault
    /\ slots[c.slot].inc = c.inc /\ Alive(c.slot)
    /\ Goto(th, "respawn")
    /\ Counted("faults")
    /\ UNCHANGED <<durableVars, queueVars, slots, events, reapVars, cascade, pid>>

WorkerSurvives(th) ==
    LET c == custody[th] IN
    /\ Active(th, "kill") /\ MayFault
    /\ slots[c.slot].inc = c.inc /\ Alive(c.slot)
    /\ slots' = Unreaped(c.slot, c.inc)
    /\ GivenUp(th)
    /\ Counted("faults")
    /\ UNCHANGED <<result, child, owed, snapshot, queueVars, events, reapVars, pid>>

StillOurs(c) ==
    LET i == intent[c.task] IN
    c.claim.req = 0 \/ (i.state = "claimed" /\ Mine(i, c.claim) /\ i.pid = pid)

(* phase 3: the durable write, behind the claim *)
WriteRunning(th) ==
    LET c == custody[th]
        t == c.task IN
    /\ Active(th, "write") /\ StillOurs(c)
    /\ result' = [result EXCEPT ![t] = Written(@, "cancelled")]
    /\ Goto(th, "owed")
    /\ UNCHANGED <<child, intent, owed, snapshot, queueVars, slots, events, reapVars, cascade, envVars>>

WriteRunningFails(th) ==
    LET c == custody[th] IN
    /\ Active(th, "write") /\ StillOurs(c) /\ MayFault
    /\ slots' = Unreaped(c.slot, c.inc)
    /\ GivenUp(th)
    /\ Counted("faults")
    /\ UNCHANGED <<result, child, owed, snapshot, queueVars, events, reapVars, pid>>

(* the claim was lost during the kill: the slot is left to the crash detector *)
WriteRefused(th) ==
    LET c == custody[th] IN
    /\ Active(th, "write") /\ ~StillOurs(c)
    /\ slots' = Unreaped(c.slot, c.inc)
    /\ GivenUp(th)
    /\ UNCHANGED <<result, child, owed, snapshot, queueVars, events, reapVars, envVars>>

(* neither queued nor running: nothing to kill, but never a phantom task and *)
(* never over a child that finished                                          *)
Miss(th) ==
    LET c == custody[th]
        t == c.task
        i == intent[t]
        newer == c.claim.req # 0 /\ i.req = c.claim.req /\ i.gen # c.claim.gen
        after == Written(CopiedBack(t), "cancelled") IN
    /\ Active(th, "miss")
    /\ IF (c.claim.req = 0 /\ ~HasIntent(t)) \/ newer
       THEN Ended(th, ~newer) /\ UNCHANGED result
       ELSE IF result[t] = "none"
       THEN Goto(th, "settle") /\ UNCHANGED <<result, cascade>>
       ELSE /\ result' = [result EXCEPT ![t] = after]
            /\ custody' = [custody EXCEPT ![th].pc = "owed", ![th].deliver = TRUE,
                              ![th].then = IF CopiedBack(t) \in Settled THEN "end" ELSE "emit"]
            /\ UNCHANGED cascade
    /\ UNCHANGED <<child, intent, owed, snapshot, queueVars, slots, events, reapVars, envVars>>

MissFails(th) ==
    /\ Active(th, "miss") /\ MayFault
    /\ GivenUp(th)
    /\ Counted("faults")
    /\ UNCHANGED <<result, child, owed, snapshot, queueVars, slots, events, reapVars, pid>>

(* the answer is owed before the intent is settled *)
RegisterOwed(th) ==
    LET c == custody[th] IN
    /\ Active(th, "owed")
    /\ owed' = IF c.deliver THEN owed \cup ({c.task} \ Subagents) ELSE owed
    /\ Goto(th, "settle")
    /\ UNCHANGED <<result, child, intent, snapshot, queueVars, slots, events, reapVars, cascade, envVars>>

(* an answer that could not be registered reopens the intent *)
OwedFails(th) ==
    LET c == custody[th] IN
    /\ Active(th, "owed") /\ MayFault
    /\ c.deliver /\ c.task \notin Subagents /\ c.claim.req # 0
    /\ Counted("faults")
    /\ intent' = [intent EXCEPT ![c.task] = Released(@, c.claim)]
    /\ CASE c.then = "publish" -> Goto(th, "publish") /\ UNCHANGED <<events, snapshot, cascade>>
         [] c.then = "emit" -> Ended(th, TRUE) /\ events' = Emitted(c.task) /\ snapshot' = pending
         [] c.then = "end" -> Ended(th, TRUE) /\ UNCHANGED <<events, snapshot>>
    /\ UNCHANGED <<result, child, owed, queueVars, slots, reapVars, pid>>

Settle(th) ==
    LET c == custody[th] IN
    /\ Active(th, "settle")
    /\ intent' = [intent EXCEPT ![c.task] = SettledIntent(@, c.claim)]
    /\ CASE c.then = "publish" -> Goto(th, "publish") /\ UNCHANGED <<events, snapshot, cascade>>
         [] c.then = "emit" -> Ended(th, TRUE) /\ events' = Emitted(c.task) /\ snapshot' = pending
         [] c.then = "end" -> Ended(th, TRUE) /\ UNCHANGED <<events, snapshot>>
    /\ UNCHANGED <<result, child, owed, queueVars, slots, reapVars, pid, used>>

(* the row leaves RUNNING only now; who pops it emits the event *)
Publish(th) ==
    LET t == custody[th].task IN
    /\ Active(th, "publish")
    /\ running' = [running EXCEPT ![t] = NoSlot]
    /\ events' = IF running[t] # NoSlot THEN Emitted(t) ELSE events
    /\ Goto(th, "respawn")
    /\ UNCHANGED <<durableVars, pending, attempt, fences, slots, reapVars, cascade, envVars>>

(* also the last step of the crash detector, which has no task *)
Respawn(th) ==
    LET c == custody[th] IN
    /\ Active(th, "respawn")
    /\ slots' = [slots EXCEPT ![c.slot] = Respawned(c.slot)]
    /\ snapshot' = pending
    /\ child' = IF c.task \in Subagents THEN [child EXCEPT ![c.task] = "none"] ELSE child
    /\ Ended(th, TRUE)
    /\ UNCHANGED <<result, intent, owed, queueVars, events, reapVars, envVars>>

RespawnFails(th) ==
    LET c == custody[th] IN
    /\ Active(th, "respawn") /\ MayFault
    /\ slots' = [slots EXCEPT ![c.slot].reaping = FALSE]
    /\ snapshot' = pending
    /\ child' = IF c.task \in Subagents THEN [child EXCEPT ![c.task] = "none"] ELSE child
    /\ Ended(th, TRUE)
    /\ CountedWith("faults", "stranded", IF c.task = NoTask THEN {slots[c.slot].busy} \ {NoTask} ELSE {})
    /\ UNCHANGED <<result, intent, owed, queueVars, events, reapVars, pid>>

(******************************* cascade **********************************)
At(th, at) == cascade[th].pc = at /\ custody[th].pc = "idle"
MaxSweeps == 4

(* the scope on the intent, then the fence of the target *)
CascadeBegin(th) ==
    LET r == cascade[th].root IN
    /\ At(th, "begin")
    /\ intent' = [intent EXCEPT ![r].scope = IF HasIntent(r) THEN "cascade" ELSE @]
    /\ fences' = fences \cup {r}
    /\ cascade' = [cascade EXCEPT ![th].pc = "sweep"]
    /\ UNCHANGED <<result, child, owed, snapshot, pending, running, attempt, slots, events,
                   reapVars, custody, envVars>>

(* one snapshot of the live subtree, all of it fenced before the lock goes *)
CascadeSweep(th) ==
    LET k == cascade[th]
        order == ((Below(k.root, Queued) \cap Queued) \cup {k.root}) \ k.done IN
    /\ At(th, "sweep") \/ (At(th, "tasks") /\ k.todo = {})
    /\ IF k.sweeps = MaxSweeps \/ order = {}
       THEN cascade' = [cascade EXCEPT ![th].pc = "post"] /\ UNCHANGED fences
       ELSE /\ cascade' = [cascade EXCEPT ![th].pc = "mint", ![th].mint = order \ {k.root},
                              ![th].todo = order, ![th].failed = {}, ![th].sweeps = @ + 1]
            /\ fences' = fences \cup order
    /\ UNCHANGED <<durableVars, pending, running, attempt, slots, events, reapVars, custody, envVars>>

(* every captured descendant gets an intent of its own *)
CascadeMint(th, t) ==
    /\ At(th, "mint") /\ t \in cascade[th].mint
    /\ Minted(t, "single")
    /\ cascade' = [cascade EXCEPT ![th].mint = @ \ {t}]
    /\ UNCHANGED <<result, child, owed, snapshot, queueVars, slots, events, reapVars, custody, pid>>

(* children first *)
CascadeTake(th, t) ==
    LET k == cascade[th] IN
    /\ (At(th, "mint") /\ k.mint = {}) \/ At(th, "tasks")
    /\ t \in k.todo /\ Below(t, Tasks) \cap k.todo = {}
    /\ cascade' = [cascade EXCEPT ![th].pc = "tasks", ![th].todo = @ \ {t}]
    /\ Take(th, t, FALSE)
    /\ UNCHANGED <<durableVars, queueVars, slots, events, reapVars, envVars>>

(* the postcondition is a property of the tree, whoever did the killing *)
CascadePost(th) ==
    LET k == cascade[th]
        refused == {t \in k.failed : ~IsSettled(t)} IN
    /\ At(th, "post")
    /\ IF refused # {} \/ TreeIsLive(k.root)
       THEN cascade' = [cascade EXCEPT ![th] = NoCascade]
       ELSE cascade' = [cascade EXCEPT ![th].pc = "summary"]
    /\ UNCHANGED <<durableVars, queueVars, slots, events, reapVars, custody, envVars>>

(* the summary of the tree is owed before its intent is settled *)
CascadeSummary(th) ==
    LET k == cascade[th] IN
    /\ At(th, "summary")
    /\ \/ /\ owed' = owed \cup {k.root}
          /\ cascade' = [cascade EXCEPT ![th].pc = "close"]
          /\ UNCHANGED used
       \/ /\ MayFault /\ Counted("faults")
          /\ cascade' = [cascade EXCEPT ![th] = NoCascade]
          /\ UNCHANGED owed
    /\ UNCHANGED <<result, child, intent, snapshot, queueVars, slots, events, reapVars, custody, pid>>

CascadeClose(th) ==
    LET r == cascade[th].root IN
    /\ At(th, "close")
    /\ intent' = [intent EXCEPT ![r] = IF @.scope = "cascade" THEN NoIntent ELSE @]
    /\ cascade' = [cascade EXCEPT ![th] = NoCascade]
    /\ UNCHANGED <<result, child, owed, snapshot, queueVars, slots, events, reapVars, custody, envVars>>

CustodyStep(th) ==
    \/ Claim(th) \/ CapturePending(th) \/ CaptureRunning(th) \/ CaptureNothing(th)
    \/ WritePending(th) \/ KillWorker(th) \/ WriteRunning(th) \/ WriteRefused(th) \/ Miss(th)
    \/ RegisterOwed(th) \/ Settle(th) \/ Publish(th) \/ Respawn(th)
CustodyFault(th) ==
    \/ WritePendingFails(th) \/ WorkerSurvives(th) \/ WriteRunningFails(th) \/ MissFails(th)
    \/ OwedFails(th) \/ RespawnFails(th)
CascadeStep(th) ==
    \/ CascadeBegin(th) \/ CascadeSweep(th) \/ CascadePost(th) \/ CascadeSummary(th)
    \/ CascadeClose(th) \/ \E t \in Tasks : CascadeMint(th, t) \/ CascadeTake(th, t)
============================================================================
