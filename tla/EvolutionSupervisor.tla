------------------------- MODULE EvolutionSupervisor -------------------------
(* The supervisor thread and its reaper thread: the worker pool, the post-  *)
(* task one-shot, the evolution queue, task terminals, the owner controls   *)
(* and restarts.  The thread runs its sections in program order; sup.pc is  *)
(* where it stands between two of them.                                     *)
EXTENDS EvolutionSystem

----------------------------------------------------------------------------
(* Worker pool and reaper thread.                                           *)

\* ensure_workers_healthy: the dead worker's task is retried, or terminal
\* when evolution is off or the retries are exhausted; the slot respawns
RespawnDead(w) ==
    /\ AtTop /\ wk[w].ph = "dead"
    /\ LET t == wk[w].tx
       IN IF t # 0 /\ q[t] = "running"
          THEN \/ /\ st.enabled
                  /\ q' = [q EXCEPT ![t] = "pending"] /\ UNCHANGED evq
               \/ /\ q' = [q EXCEPT ![t] = "none"]
                  /\ evq' = evq \cup {[kind |-> "done", tx |-> t]}
          ELSE UNCHANGED <<q, evq>>
    /\ wk' = [wk EXCEPT ![w] = Booting]
    /\ UNCHANGED <<files, repo, gen, server, drain, sup, snap, other, old, cnt>>

\* enforce_task_timeouts: only with a durable "reaping" mark does the task
\* leave RUNNING; the decision to retry is frozen here
TimeoutReap(w) ==
    /\ AtTop /\ cnt.reap < Reaps
    /\ wk[w].ph \in Working /\ q[wk[w].tx] = "running"
    /\ camp.active.id = wk[w].tx
    /\ WriteAllowed(camp, MarkReaping(camp))
    /\ camp' = MarkReaping(camp)
    /\ \E r \in Reaping :
         /\ r = "reap_retry" => st.enabled
         /\ q' = [q EXCEPT ![wk[w].tx] = r]
    /\ Tick("reap")
    /\ UNCHANGED <<st, req, marker, stale, closed, repo, gen, server, drain, evq, wk,
                   sup, snap, other, old>>

\* Mutant: the task is requeued or ended before its worker is confirmed dead.
ReaperKill_Unconfirmed(t) ==
    /\ Up /\ q[t] \in Reaping
    /\ IF q[t] = "reap_retry"
       THEN q' = [q EXCEPT ![t] = "pending"] /\ UNCHANGED evq
       ELSE /\ q' = [q EXCEPT ![t] = "none"]
            /\ evq' = evq \cup {[kind |-> "done", tx |-> t]}
    /\ UNCHANGED <<files, repo, gen, server, drain, wk, sup, snap, other, old, cnt>>

\* reap_timed_out_task, once the worker is confirmed dead: honour a result
\* it wrote itself, requeue the task, or emit its failed terminal
ReaperKill(t) ==
    /\ Up /\ q[t] \in Reaping
    /\ IF \E w \in Workers : wk[w].tx = t /\ wk[w].ph \in Working
       THEN /\ \E w \in Workers :
                 /\ wk[w].tx = t /\ wk[w].ph \in Working
                 /\ wk' = [wk EXCEPT ![w] = Booting]
                 /\ stale' = stale \cup Claims({w})
            /\ IF q[t] = "reap_retry"
               THEN q' = [q EXCEPT ![t] = "pending"] /\ UNCHANGED evq
               ELSE /\ q' = [q EXCEPT ![t] = "none"]
                    /\ evq' = evq \cup {[kind |-> "done", tx |-> t]}
       ELSE /\ q' = [q EXCEPT ![t] = "none"]
            /\ evq' = evq \cup {[kind |-> "done", tx |-> t]}
            /\ UNCHANGED <<wk, stale>>
    /\ UNCHANGED <<st, camp, req, marker, closed, repo, gen, server, drain, sup, snap,
                   other, old, cnt>>

\* assign_tasks: exact authority, or the task is cancelled
Assign(w, t) ==
    /\ AtTop /\ drain = "" /\ q[t] = "pending" /\ wk[w].ph = "idle"
    /\ \/ /\ Authorized(camp, st, t) /\ ~Committed(camp.active)
          /\ q' = [q EXCEPT ![t] = "running"]
          /\ wk' = [wk EXCEPT ![w].ph = "work", ![w].tx = t]
          /\ UNCHANGED evq
       \/ /\ LockMayFail \/ ~(Authorized(camp, st, t) /\ ~Committed(camp.active))
          /\ q' = [q EXCEPT ![t] = "none"]
          /\ evq' = evq \cup {[kind |-> "done", tx |-> t]}
          /\ UNCHANGED wk
       \/ \* over budget: dropped from PENDING without a terminal
          /\ EnvMayRefuse
          /\ q' = [q EXCEPT ![t] = "none"]
          /\ UNCHANGED <<evq, wk>>
    /\ UNCHANGED <<files, repo, gen, server, drain, sup, snap, other, old, cnt>>

\* assignment of an ordinary task
OtherStarts ==
    /\ AtTop /\ drain = "" /\ ~other /\ cnt.other < Others
    /\ other' = TRUE /\ Tick("other")
    /\ UNCHANGED <<files, repo, gen, server, drain, q, evq, wk, sup, snap, old>>

----------------------------------------------------------------------------
(* apply_pending_request, section by section.                               *)

ApplyDrop ==
    /\ AtTop /\ drain = "" /\ req # 0
    /\ st.stopped \/ EnvMayRefuse
    /\ req' = 0
    /\ UNCHANGED <<st, camp, marker, stale, closed, repo, proc, cnt>>

ApplyTake ==
    /\ AtTop /\ drain = "" /\ req # 0
    /\ ~st.stopped /\ ~st.enabled /\ MayStart(camp)
    /\ Goto("minting", req, FALSE)
    /\ UNCHANGED <<files, repo, gen, server, drain, q, evq, wk, snap, other, old, cnt>>

\* start_evolution_campaign
ApplyStart ==
    /\ Up /\ sup.pc = "minting"
    /\ \/ /\ MayStart(camp) /\ camp' = StartCampaign(camp, sup.arg, gen)
          /\ Goto("link", sup.arg, FALSE)
       \/ LockMayFail /\ Return /\ UNCHANGED camp
    /\ UNCHANGED <<st, req, marker, stale, closed, repo, gen, server, drain, q, evq,
                   wk, snap, other, old, cnt>>

\* the promoted item is linked only if it is in the open backlog
ApplyRead ==
    /\ Up /\ sup.pc = "link"
    /\ \/ /\ sup.arg \notin closed
          /\ snap' = camp /\ Goto("write", sup.arg, FALSE)
       \/ \* no backlog id, a closed or an unknown one
          Goto("arm", sup.arg, FALSE) /\ UNCHANGED snap
    /\ UNCHANGED <<files, repo, gen, server, drain, q, evq, wk, other, old, cnt>>

\* a whole-file write of what was read without the lock
ApplyWrite ==
    /\ Up /\ sup.pc = "write"
    /\ LET linked == [snap EXCEPT !.link = sup.arg]
       IN \/ WriteAllowed(camp, linked) /\ camp' = linked
          \/ (LockMayFail \/ ~WriteAllowed(camp, linked)) /\ UNCHANGED camp
    /\ snap' = NoCampaign /\ Goto("arm", sup.arg, FALSE)
    /\ UNCHANGED <<st, req, marker, stale, closed, repo, gen, server, drain, q, evq,
                   wk, other, old, cnt>>

\* Mutant: the owner stop is not checked again under the lock.
ApplyArm_NoRecheck ==
    /\ Up /\ sup.pc = "arm"
    /\ st' = [st EXCEPT !.enabled = TRUE, !.autostop = TRUE, !.fails = 0]
    /\ Goto("applied", 0, FALSE)
    /\ UNCHANGED <<camp, req, marker, stale, closed, repo, gen, server, drain, q, evq,
                   wk, snap, other, old, cnt>>

\* _activate_one_shot
ApplyArm ==
    /\ Up /\ sup.pc = "arm"
    /\ st' = IF st.stopped THEN st
             ELSE [st EXCEPT !.enabled = TRUE, !.autostop = TRUE, !.fails = 0]
    /\ Goto(IF st'.enabled THEN "applied" ELSE "disarm", 0, FALSE)
    /\ UNCHANGED <<camp, req, marker, stale, closed, repo, gen, server, drain, q, evq,
                   wk, snap, other, old, cnt>>

ApplyDone ==
    /\ Up /\ sup.pc = "applied"
    /\ req' = 0 /\ Return
    /\ UNCHANGED <<st, camp, marker, stale, closed, repo, gen, server, drain, q, evq,
                   wk, snap, other, old, cnt>>

\* the owner stop won the race
ApplyDisarm ==
    /\ Up /\ sup.pc = "disarm"
    /\ req' = 0 /\ Return
    /\ Close
    /\ UNCHANGED <<st, marker, stale, closed, pushed, made, gen, server, drain, q, evq,
                   wk, snap, other, old, cnt>>

----------------------------------------------------------------------------
(* enqueue_evolution_task_if_needed.                                        *)

MayEnqueue == AtTop /\ drain = "" /\ st.enabled /\ QueueIdle

\* the enable flag without an active campaign
DisableBareFlag ==
    /\ MayEnqueue /\ camp.status # "active"
    /\ st' = Disable(st)
    /\ UNCHANGED <<camp, req, marker, stale, closed, repo, proc, cnt>>

\* light mode, consecutive failures, a repeated objective, the budget reserve
Breaker == EnvMayRefuse \/ st.fails >= FailCap \/ camp.repeats[camp.obj] >= RepeatCap

Dispatchable == MayEnqueue /\ camp.status = "active" /\ ~WaitingTx(camp)
                           /\ ~camp.active.reaping

\* pause_evolution_campaign, then disable_evolution_projection
TripBreaker ==
    /\ Dispatchable /\ Breaker
    /\ \/ camp' = PauseCampaign(camp)
       \/ LockMayFail /\ camp' = camp
    /\ st' = Disable(st)
    /\ UNCHANGED <<req, marker, stale, closed, repo, proc, cnt>>

\* begin_evolution_transaction, or disable_evolution_authority if it fails
Begin ==
    /\ Dispatchable
    /\ ~(st.fails >= FailCap) /\ ~(camp.repeats[camp.obj] >= RepeatCap)
    /\ \/ /\ MayBegin(camp, st, camp.id) /\ cnt.tx < MaxTx
          /\ camp' = BeginTransaction(camp, cnt.tx + 1, head)
          /\ Goto("queueing", cnt.tx + 1, FALSE)
          /\ Tick("tx") /\ UNCHANGED st
       \/ /\ LockMayFail \/ ~MayBegin(camp, st, camp.id)
          /\ st' = Disable(st)
          /\ UNCHANGED <<camp, sup, cnt>>
    /\ UNCHANGED <<req, marker, stale, closed, repo, gen, server, drain, q, evq, wk,
                   snap, other, old>>

\* enqueue_task
QueueTask ==
    /\ Up /\ sup.pc = "queueing"
    /\ q' = [q EXCEPT ![sup.arg] = "pending"] /\ Return
    /\ UNCHANGED <<files, repo, gen, server, drain, evq, wk, snap, other, old, cnt>>

----------------------------------------------------------------------------
(* _handle_evolution_task_done, section by section.                         *)

Row(t) == CHOOSE x \in camp.rows : x.id = t
HasRow(t) == \E x \in camp.rows : x.id = t

\* update_evolution_campaign_after_task: a terminal is rejected (no live
\* campaign, another transaction, no lock), a replay, or accepted
TaskDone(t) ==
    /\ Dispatching /\ [kind |-> "done", tx |-> t] \in evq
    /\ evq' = evq \ {[kind |-> "done", tx |-> t]}
    /\ \/ /\ \/ LockMayFail \/ camp.status \notin Live
             \/ ~HasRow(t) /\ camp.active.id # t
          /\ Goto("finish", t, FALSE) /\ UNCHANGED camp
       \/ /\ camp.status \in Live /\ HasRow(t)
          /\ Goto("effects", t, FALSE) /\ UNCHANGED camp
       \/ /\ camp.status \in Live /\ ~HasRow(t) /\ camp.active.id = t
          /\ camp' = AfterTask(camp) /\ Goto("effects", t, TRUE)
    /\ UNCHANGED <<st, req, marker, stale, closed, repo, gen, server, drain, q, wk,
                   snap, other, old, cnt>>

\* _resume_evolution_terminal_effects of a closed transaction
CleanUp ==
    /\ Up /\ sup.pc = "effects" /\ HasRow(sup.arg) /\ Row(sup.arg).pend
    /\ Clean(Row(sup.arg))
    /\ \/ camp' = PersistCleanup(camp, sup.arg)
       \/ LockMayFail /\ camp' = camp
    /\ Goto("finish", sup.arg, sup.ok)
    /\ UNCHANGED <<st, req, marker, stale, closed, pushed, made, gen, server, drain,
                   q, evq, wk, snap, other, old, cnt>>

\* request_evolution_restart of a committed one
RequestOwnRestart ==
    /\ Up /\ sup.pc = "effects" /\ ~(HasRow(sup.arg) /\ Row(sup.arg).pend)
    /\ LET t == sup.arg
           x == Row(t)
       IN IF HasRow(t) /\ x.outcome = "waiting_for_restart"
             /\ ReceiptAuthorized(camp, st, t, x.sha)
          THEN \/ /\ marker' = [sha |-> x.sha, tx |-> t]
                  /\ evq' = evq \cup {[kind |-> "restart_evolution", tx |-> 0]}
               \/ LockMayFail /\ UNCHANGED <<marker, evq>>
          ELSE UNCHANGED <<marker, evq>>
    /\ Goto("finish", sup.arg, sup.ok)
    /\ UNCHANGED <<st, camp, req, stale, closed, repo, gen, server, drain, q, wk, snap,
                   other, old, cnt>>

\* Mutant: the settling task's own RUNNING row keeps the campaign open.
StopSettles_CountsItself(t) == /\ st.stopped /\ camp.status \in Live
                               /\ \A u \in TxIds : ~Queued(u)

\* _close_campaign_after_owner_stop: nothing else is live
StopSettles(t) == /\ st.stopped /\ camp.status \in Live
                  /\ \A u \in TxIds \ {t} : ~Queued(u)

\* Mutant: the one-shot is not consumed.
Settle_KeepsArmed(failed) ==
    [st EXCEPT !.fails = IF failed THEN IF @ < FailCap THEN @ + 1 ELSE @ ELSE 0]

\* the failure counter and the one-shot
Settle(failed) ==
    [st EXCEPT !.fails = IF failed THEN IF @ < FailCap THEN @ + 1 ELSE @ ELSE 0,
               !.enabled = @ /\ ~st.autostop, !.autostop = FALSE]

\* the rest of _handle_evolution_task_done, and the RUNNING row
FinishDone ==
    /\ Up /\ sup.pc = "finish"
    /\ IF StopSettles(sup.arg) THEN Close ELSE UNCHANGED <<camp, head>>
    /\ IF sup.ok THEN \E failed \in BOOLEAN : st' = Settle(failed) ELSE UNCHANGED st
    /\ q' = [q EXCEPT ![sup.arg] = IF @ = "running" THEN "none" ELSE @]
    /\ Return
    /\ UNCHANGED <<req, marker, stale, closed, pushed, made, gen, server, drain, evq,
                   wk, snap, other, old, cnt>>

----------------------------------------------------------------------------
(* Owner controls: /evolve off, /evolve on, panic.                          *)

Flags(on) == [st EXCEPT !.enabled = on, !.stopped = ~on, !.autostop = FALSE,
                        !.fails = IF on THEN 0 ELSE @]

OwnerStop ==
    /\ AtTop /\ cnt.owner < Owner
    /\ st' = Flags(FALSE)
    /\ Goto("stopping", 0, FALSE) /\ Tick("owner")
    /\ UNCHANGED <<camp, req, marker, stale, closed, repo, gen, server, drain, q, evq,
                   wk, snap, other, old>>

\* Mutant: an incomplete stop is declared clean.
AfterStop_AlwaysClean(incomplete) == "closing"

\* _owner_evolution_stop: an incomplete stop leaves the campaign open
AfterStop(incomplete) == IF incomplete THEN "loop" ELSE "closing"

\* drop_pending_request and stop_evolution_tasks: what is PENDING or RUNNING
\* is cancelled, except for the tasks in I, whose cancellation fails
StopTasks ==
    /\ Up /\ sup.pc = "stopping"
    /\ req' = 0
    /\ \E I \in SUBSET {t \in TxIds : q[t] = "running"} :
         LET gone == {t \in TxIds : Queued(t)} \ I
             hit  == {w \in Workers : wk[w].tx \in gone}
         IN /\ q' = [t \in TxIds |-> IF t \in gone THEN "none" ELSE q[t]]
            /\ evq' = evq \cup [kind : {"done"}, tx : gone]
            /\ wk' = [w \in Workers |-> IF w \in hit THEN Booting ELSE wk[w]]
            /\ stale' = stale \cup Claims(hit)
            /\ Goto(AfterStop(I # {}), 0, FALSE)
    /\ UNCHANGED <<st, camp, marker, closed, repo, gen, server, drain, snap, other, old,
                   cnt>>

\* complete_evolution_campaign; a close that cannot lock is not retried
CloseCampaign ==
    /\ Up /\ sup.pc = "closing"
    /\ Close /\ Return
    /\ UNCHANGED <<st, req, marker, stale, closed, pushed, made, gen, server, drain, q,
                   evq, wk, snap, other, old, cnt>>

\* the stop flag is cleared first; sup.ok remembers its prior value
OwnerStart ==
    /\ AtTop /\ cnt.owner < Owner /\ MayStart(camp)
    /\ st' = [st EXCEPT !.stopped = FALSE]
    /\ Goto("starting", 0, st.stopped) /\ Tick("owner")
    /\ UNCHANGED <<camp, req, marker, stale, closed, repo, gen, server, drain, q, evq,
                   wk, snap, other, old>>

\* without an objective of his own the owner resumes the campaign's
StartOwned ==
    /\ Up /\ sup.pc = "starting"
    /\ \/ /\ MayStart(camp)
          /\ \E o \in {0, IF camp.status \in Live THEN camp.obj ELSE 0} :
               camp' = StartCampaign(camp, o, gen)
          /\ Goto("enabling", 0, FALSE)
       \/ LockMayFail /\ camp' = camp /\ Goto("restoring", 0, sup.ok)
    /\ UNCHANGED <<st, req, marker, stale, closed, repo, gen, server, drain, q, evq, wk,
                   snap, other, old, cnt>>

SetFlags ==
    /\ Up /\ sup.pc \in {"enabling", "restoring"}
    /\ st' = IF sup.pc = "enabling" THEN Flags(TRUE) ELSE [st EXCEPT !.stopped = sup.ok]
    /\ Return
    /\ UNCHANGED <<camp, req, marker, stale, closed, repo, gen, server, drain, q, evq,
                   wk, snap, other, old, cnt>>

\* the queue as the durable snapshot restores it
Kept == [t \in TxIds |-> IF q[t] = "pending" THEN "pending" ELSE "none"]

\* execute_panic_stop, in a thread of its own
Panic ==
    /\ server = "up" /\ cnt.panic < Panics
    /\ st' = Flags(FALSE) /\ server' = "flagged" /\ Tick("panic")
    /\ UNCHANGED <<camp, req, marker, stale, closed, repo, gen, drain, q, evq, wk,
                   sup, snap, other, old>>

\* the campaign is closed only if the state lock is free within a millisecond,
\* and the worktree is left alone
PanicClose ==
    /\ server = "flagged" /\ server' = "closed"
    /\ camp' \in {camp, CompleteCampaign(camp)} /\ req' = 0
    /\ UNCHANGED <<st, marker, stale, closed, repo, gen, drain, q, evq, wk, sup,
                   snap, other, old, cnt>>

PanicExit ==
    /\ server = "closed"
    /\ Down(Kept)
    /\ UNCHANGED <<st, camp, req, marker, closed, repo, cnt>>

----------------------------------------------------------------------------
(* Restart, crash and boot.                                                 *)

\* _perform_supervisor_restart: an evolution restart needs the claim in the
\* marker file, its exact authority and the exact clean HEAD
MayRestart(kind) ==
    kind = "restart_evolution" =>
        /\ marker.tx # 0
        /\ ReceiptAuthorized(camp, st, marker.tx, marker.sha)
        /\ Tip(head, marker.sha)

\* state.json is read here and written back if the restart is blocked
Perform(kind, dispatching) ==
    \/ /\ MayRestart(kind)
       /\ sup' = [pc |-> "restarting", arg |-> 0, ok |-> dispatching, st |-> st]
    \/ /\ ~MayRestart(kind) \/ (kind = "restart_evolution" /\ (LockMayFail \/ EnvMayRefuse))
       /\ UNCHANGED sup

\* a restart request waits for the running tasks whose heartbeat is fresh
HandleRestart(kind) ==
    /\ Dispatching /\ [kind |-> kind, tx |-> 0] \in evq
    /\ evq' = evq \ {[kind |-> kind, tx |-> 0]}
    /\ \/ AnyRunning /\ drain' = kind /\ UNCHANGED sup
       \/ Perform(kind, TRUE) /\ UNCHANGED drain
    /\ UNCHANGED <<files, repo, gen, server, q, wk, snap, other, old, cnt>>

\* _check_pending_restart_drain: nothing runs any more, or the deadline passed
DrainDone ==
    /\ AtTop /\ drain # ""
    /\ Perform(drain, FALSE) /\ drain' = ""
    /\ UNCHANGED <<files, repo, gen, server, q, evq, wk, snap, other, old, cnt>>

\* the branch a restart or a boot lands on
Land == head' = head \/ (BootMayReset /\ head' = {})

\* a blocked restart or boot pauses evolution, over a rescue snapshot or not;
\* the one-shot mark is kept
Blocked(read) ==
    /\ EnvMayRefuse
    /\ st' = [read EXCEPT !.enabled = FALSE]
    /\ camp' \in {PauseCampaign(camp), PauseCampaign(LinkRescue(camp))}
                  \cup (IF LockMayFail THEN {camp} ELSE {})

\* safe_restart, then kill_workers: the queue is drained, with terminals
SafeRestart ==
    /\ Up /\ sup.pc = "restarting"
    /\ \/ /\ Land /\ server' = "exiting"
          /\ wk' = [w \in Workers |-> Dead] /\ stale' = stale \cup Claims(Workers)
          /\ q' = [t \in TxIds |-> IF Queued(t) THEN "none" ELSE q[t]]
          /\ evq' = evq \cup [kind : {"done"}, tx : {t \in TxIds : Queued(t)}]
          /\ other' = FALSE
          /\ UNCHANGED <<st, camp>>
       \/ /\ Blocked(sup.st)
          /\ UNCHANGED <<stale, head, server, q, evq, wk, other>>
    /\ IF server' = "exiting" /\ ~sup.ok
       THEN sup' = [AtLoop EXCEPT !.pc = "exit"] ELSE Return
    /\ UNCHANGED <<req, marker, closed, pushed, made, gen, drain, snap, old, cnt>>

\* the process exits; only the dispatch loop looks at its queue before that
Exit ==
    /\ server = "exiting" /\ sup.pc \in {"loop", "exit"}
    /\ Down([t \in TxIds |-> "none"])
    /\ UNCHANGED <<st, camp, req, marker, closed, repo, cnt>>

\* the server process dies
Crash ==
    /\ Up /\ cnt.crash < Crashes
    /\ Down(Kept) /\ Tick("crash")
    /\ UNCHANGED <<st, camp, req, marker, closed, repo>>

\* a new generation: bootstrap, workers, the queue snapshot (if recent)
Boot ==
    /\ ~Up /\ gen < MaxGen
    /\ gen' = gen + 1 /\ server' = "up"
    /\ wk' = [w \in Workers |-> Booting]
    /\ q' \in {q, [t \in TxIds |-> "none"]}
    /\ \/ Land /\ UNCHANGED <<st, camp>>
       \/ /\ camp.status \in Live /\ OpenTx(camp)
          /\ Blocked(st) /\ UNCHANGED head
    /\ UNCHANGED <<req, marker, stale, closed, pushed, made, drain, evq, sup, snap,
                   other, old, cnt>>
============================================================================
