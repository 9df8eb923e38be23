------------------------- MODULE EvolutionLifecycle -------------------------
(* The evolution lifecycle: the workers and the supervisor of               *)
(* EvolutionWorker and EvolutionSupervisor composed, and the properties     *)
(* their interleavings must keep.                                           *)
EXTENDS EvolutionWorker, EvolutionSupervisor

Worker(w) ==
    \/ BootObserve(w) \/ VerifyRename(w) \/ VerifyMiss(w)
    \/ MarkRestart(w) \/ Reconcile(w)
    \/ Authorize(w) \/ MakeCommit(w) \/ PreTag(w) \/ RecordReceipt(w)
    \/ CheckPublication(w) \/ Push(w) \/ RequestRestart(w) \/ FinishTask(w)

Concurrent == OtherCommits \/ OtherRequestsRestart \/ OtherEnds
              \/ RollbackLoads \/ RollbackSaves

\* sections that the supervisor thread is in the middle of
Continue ==
    \/ ApplyStart \/ ApplyRead \/ ApplyWrite \/ ApplyArm \/ ApplyDone \/ ApplyDisarm
    \/ QueueTask \/ CleanUp \/ RequestOwnRestart \/ FinishDone
    \/ StopTasks \/ CloseCampaign \/ StartOwned \/ SetFlags \/ SafeRestart

\* sections the loop starts by itself
Loop ==
    \/ \E w \in Workers : RespawnDead(w) \/ TimeoutReap(w)
    \/ \E w \in Workers, t \in TxIds : Assign(w, t)
    \/ \E t \in TxIds : TaskDone(t)
    \/ \E kind \in {"restart", "restart_evolution"} : HandleRestart(kind)
    \/ DrainDone \/ OtherStarts
    \/ ApplyDrop \/ ApplyTake
    \/ DisableBareFlag \/ TripBreaker \/ Begin

Failures == Crash \/ \E w \in Workers : WorkerDies(w)

Next ==
    \/ \E w \in Workers : Worker(w)
    \/ Concurrent \/ Continue \/ Loop
    \/ \E t \in TxIds : ReaperKill(t)
    \/ OwnerStop \/ OwnerStart \/ Panic \/ PanicClose \/ PanicExit \/ Exit
    \/ Failures \/ Boot

Spec == Init /\ [][Next]_vars

\* Every process that can run does run.  The supervisor loop visits each of
\* its sections in every round, so one that is enabled again and again is
\* taken; a task that was started ends (its deadline is enforced).  Nothing is
\* assumed of the owner, of ordinary tasks, of timeouts or of failures.
Fairness ==
    /\ WF_vars(Continue)
    /\ \A w \in Workers : WF_vars(Worker(w)) /\ SF_vars(RespawnDead(w))
    /\ \A t \in TxIds : WF_vars(ReaperKill(t)) /\ SF_vars(TaskDone(t))
    /\ \A w \in Workers, t \in TxIds : SF_vars(Assign(w, t))
    /\ \A kind \in {"restart", "restart_evolution"} : SF_vars(HandleRestart(kind))
    /\ SF_vars(DrainDone) /\ SF_vars(Begin)
    /\ WF_vars(PanicClose) /\ WF_vars(PanicExit) /\ WF_vars(Exit) /\ WF_vars(Boot)

FairSpec == Spec /\ Fairness

WorkerSlot == [ph: Phases, tx: 0..MaxTx, sha: 0..MaxSha, obs: SUBSET Shas,
               ask: BOOLEAN, claim: Markers]

SupervisorSlot == [pc: SupPcs, arg: Nat, ok: BOOLEAN, st: State]

Origins == [gen: 0..MaxGen, tx: 0..MaxTx, camp: 0..MaxCamp]

Counters == [tx: 0..MaxTx, sha: 0..MaxSha, req: 0..MaxReq, owner: 0..Owner,
             panic: 0..Panics, crash: 0..Crashes, reap: 0..Reaps, other: 0..Others,
             stale: 0..Stales]

\* every variable but the campaign and the copy of it
SystemTypes ==
    /\ st \in State
    /\ req \in 0..MaxReq /\ marker \in Markers /\ stale \subseteq Markers
    /\ head \subseteq Shas /\ pushed \subseteq Shas /\ closed \subseteq Reqs
    /\ gen \in 1..MaxGen /\ server \in Servers
    /\ drain \in {"", "restart", "restart_evolution"}
    /\ q \in [TxIds -> QueueStates] /\ evq \subseteq Events
    /\ wk \in [Workers -> WorkerSlot]
    /\ sup \in SupervisorSlot
    /\ other \in BOOLEAN
    /\ old \in [set: BOOLEAN, st: State]
    /\ cnt \in Counters
    /\ made \in [Shas -> Origins]

\* Every variable has its type; in particular every status, outcome and phase
\* is one that the readers of the files know.
TypeOK == SystemTypes /\ camp \in Campaign /\ snap \in Campaign

----------------------------------------------------------------------------
(* Safety: the campaign file.                                               *)

\* every cycle the campaign knows of
Cycles == camp.hist \cup (IF HasTx(camp) THEN {camp.active} ELSE {})

\* what a step adds to transaction_history (its cleanup evidence may change later)
NewlyArchived == {x \in camp'.hist : \A y \in camp.hist : y.id # x.id}

\* absorbed_count is the number of archived cycles with outcome "absorbed":
\* no cycle is counted twice by two boots, by a boot and a task terminal, or
\* by a write of a stale copy of the campaign, and none is dropped.
AbsorbedCountExact ==
    camp.absorbed = Cardinality({x \in camp.hist : x.outcome = "absorbed"})

\* A cycle in transaction_history never becomes the active one again, although
\* apply_pending_request writes back a whole campaign that it read unlocked
\* while booting workers archive cycles.
ArchivedStaysArchived ==
    [][\A x \in camp.hist : camp'.id = camp.id => camp'.active.id # x.id]_vars

\* Once a generation reconciled a campaign (last_reconciled_generation) nothing
\* but a new generation undoes it, so at most one worker per server start
\* decides the fate of a commit.
ReconciledOncePerGeneration ==
    [][camp.gen = gen /\ gen' = gen /\ camp'.id = camp.id => camp'.gen = gen]_vars

\* A closed campaign is never written back to life: not by the promotion that
\* read it while it was live, and not by a worker that verifies its commit.
ClosedIsTerminal ==
    [][camp.status = "stopped" /\ camp'.id = camp.id => camp'.status = "stopped"]_vars

\* From an owner stop until the owner's next start the campaign absorbs
\* nothing, begins no cycle and accepts no commit receipt, whatever the
\* workers that were running at that moment still do.
StopFreezesCampaign ==
    [][st.stopped /\ st'.stopped /\ camp'.id = camp.id =>
         /\ camp'.absorbed = camp.absorbed
         /\ camp'.active.id \in {camp.active.id, 0}
         /\ camp'.active.sha \in {camp.active.sha, 0}]_vars

\* While an owner stop or a panic stands, evolution is enabled again only by the
\* owner's own start, whose last write a panic may slip in front of, or by a
\* rollback that saves the state.json it had loaded before: a promotion that was
\* half applied when the stop came, a terminal and a blocked restart or boot that
\* writes back the flags it read earlier never overrule it.
StopNotOverruled ==
    [][st.stopped /\ ~st.enabled /\ st'.enabled =>
         sup.pc = "enabling" \/ (old.set /\ ~old'.set /\ old.st.enabled)]_vars

----------------------------------------------------------------------------
(* Safety: cycles, their commits and the workers.                           *)

\* the terminal of t is on its way or being handled
Ended(t) ==
    \/ [kind |-> "done", tx |-> t] \in evq
    \/ sup.pc \in {"effects", "finish"} /\ sup.arg = t

\* One execution: whatever dies, is respawned, reaped, retried, stopped, crashes
\* and comes back with a restored queue snapshot, no two workers ever execute the
\* same cycle, and a cycle that is executed is not queued a second time and has
\* no terminal on its way.
OneExecution ==
    /\ \A v, w \in Workers :
         wk[v].ph \in Working /\ wk[w].ph \in Working /\ wk[v].tx = wk[w].tx => v = w
    /\ \A w \in Workers : wk[w].ph \in Working =>
         q[wk[w].tx] \notin {"none", "pending"} /\ ~Ended(wk[w].tx)

Receipted == {"recorded", "cleared", "pushed"}

\* A worker past its receipt finds that receipt in the campaign it was written
\* to, in the active cycle or in its history, until it ends: no other section
\* archives the cycle without it or overwrites it.
ReceiptSurvives ==
    \A w \in {v \in Workers : wk[v].ph \in Receipted} :
       made[wk[w].sha].camp = camp.id =>
          \E x \in Cycles : x.id = wk[w].tx /\ x.sha = wk[w].sha

\* A cycle is absorbed only by a server that started after its commit was made
\* (verify_restart: a respawned worker is no evidence of a restart).
AbsorbedOnlyAfterRestart ==
    [][\A x \in NewlyArchived :
         x.outcome = "absorbed" => made[x.sha].gen < gen]_vars

\* A committed cycle is abandoned only if its commit is no longer on the live
\* branch, or went to a rescue snapshot.
AbandonedOnlyIfLost ==
    [][\A x \in NewlyArchived :
         x.outcome = "abandoned" /\ Committed(x) => x.rescue \/ x.sha \notin head]_vars

\* A committed cycle is never archived as a no-op and never pushed out by the
\* cycle that begins in its place.
CommittedNotSuperseded ==
    [][\A x \in NewlyArchived :
          Committed(x) => x.outcome # "no_op" /\ camp'.active.id = 0]_vars

\* A promotion is a one-shot: while its post_task_autostop mark is set, no
\* second cycle begins under an objective that already had its cycle settled.
OneCyclePerPromotion ==
    [][st.autostop /\ camp'.active.id \notin {camp.active.id, 0} =>
         \A x \in camp.rows : x.obj # camp'.active.obj]_vars

\* A closed campaign has no worker at work, but for one whose task timed out and
\* which the reaper is about to kill: /evolve off closes it only when the running
\* cycle is gone, and it does not wait for the reaper.
StopLeavesNoWorker ==
    camp.status = "stopped" /\ server = "up" /\ sup.pc = "loop" =>
       \A w \in Workers : wk[w].ph \in Working => q[wk[w].tx] \in Reaping

----------------------------------------------------------------------------
(* Refinement: the abstract cycle.                                          *)

Cycle == INSTANCE CampaignCycle WITH
    CycleIds  <- TxIds,
    CommitIds <- Shas,
    number    <- camp.id,
    live      <- camp.status \in Live,
    cycle     <- [id |-> camp.active.id, sha |-> camp.active.sha],
    settled   <- {[id |-> x.id, sha |-> x.sha, outcome |-> x.outcome] : x \in camp.hist}

\* Whatever the sections of the workers and the supervisor interleave, and
\* whatever stale copy of the campaign is written back, the campaign file only
\* takes the steps of the abstract cycle: no cycle is settled twice, loses its
\* commit or changes after its campaign was closed.
ImplementsCycle == Cycle!Cycle_Spec

----------------------------------------------------------------------------
(* Liveness, under FairSpec.                                                *)

\* A campaign that the owner stopped is eventually closed (or restarted by the
\* owner), also when a task would not cancel and the close was deferred to its
\* terminal.
OwnerStopCloses ==
    st.stopped /\ camp.status \in Live ~> ~st.stopped \/ camp.status \notin Live

\* Unless the owner stops it or starts again, a cycle that this server committed is
\* eventually absorbed: the restart is requested, waits for the tasks, happens,
\* and is verified.  (A worker that is respawned meanwhile can hide the marker
\* from the supervisor, and a start in the next server can pass for a respawn.)
CommittedCycleLands ==
    \A t \in TxIds, n \in 0..Owner :
       (camp.active.id = t /\ Committed(camp.active) /\ made[camp.active.sha].gen = gen
          /\ cnt.owner = n)
          ~> \/ st.stopped \/ cnt.owner > n \/ cnt.reap + cnt.crash > 0
             \/ \E x \in camp.hist : x.id = t /\ x.outcome = "absorbed"

\* A cycle marked "reaping" before it committed anything is eventually settled:
\* dispatch waits for exactly that.
ReapedCycleResolves ==
    camp.active.reaping /\ ~Committed(camp.active)
       ~> ~camp.active.reaping \/ Committed(camp.active)
============================================================================
