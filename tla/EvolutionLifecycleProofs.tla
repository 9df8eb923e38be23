---------------------- MODULE EvolutionLifecycleProofs ----------------------
(* Theorems about EvolutionLifecycle for every value of its constants: type *)
(* correctness, the exactness of absorbed_count, and the action properties  *)
(* of the campaign file that the unlocked write of apply_pending_request    *)
(* endangers.  IInv is the inductive invariant they rest on.                *)
EXTENDS EvolutionSystemProofs

\* While apply_pending_request holds its copy of the campaign, the generation
\* is reconciled (start_evolution_campaign stamped it), so that nothing but a
\* close changes the history or the transaction in flight of the file.
SnapOK ==
    /\ camp.status = "stopped" => ~HasTx(camp)
    /\ sup.pc = "link" => camp.gen = gen
    /\ sup.pc = "write" =>
         /\ camp.gen = gen /\ snap.gen = gen /\ snap.id = camp.id
         /\ \/ /\ snap.hist = camp.hist /\ snap.active.id = camp.active.id
               /\ snap.status = camp.status
            \/ snap.status \in Live /\ camp.status = "stopped"

IInv == SystemOK /\ CampaignOK(camp, cnt.tx) /\ CampaignOK(snap, cnt.tx) /\ SnapOK

-----------------------------------------------------------------------------
(* The campaign file: CampaignOK and SnapOK are inductive, and a step never *)
(* brings back an archived cycle, a closed campaign or a generation.        *)

KeepsHistory    == \A x \in camp.hist : camp'.id = camp.id => camp'.active.id # x.id
KeepsGeneration == camp.gen = gen /\ gen' = gen /\ camp'.id = camp.id => camp'.gen = gen
KeepsClosed     == camp.status = "stopped" /\ camp'.id = camp.id => camp'.status = "stopped"

StepOK == /\ CampaignOK(camp, cnt.tx)' /\ CampaignOK(snap, cnt.tx)' /\ SnapOK'
          /\ KeepsHistory /\ KeepsGeneration /\ KeepsClosed

\* steps that leave the campaign and the copy of it alone
Quiet == /\ camp' = camp /\ snap' = snap /\ cnt'.tx = cnt.tx
         /\ gen' = gen /\ (sup' = sup \/ sup'.pc \notin {"link", "write"})

\* The steps by what they do to the campaign: those that leave it alone, the
\* sections of another process than the supervisor, those of the supervisor,
\* and those of the server.
QuietAction ==
    \/ \E w \in Workers :
         \/ BootObserve(w) \/ VerifyRename(w) \/ VerifyMiss(w) \/ Authorize(w)
         \/ MakeCommit(w) \/ PreTag(w)
         \/ CheckPublication(w) \/ Push(w) \/ RequestRestart(w) \/ FinishTask(w)
         \/ RespawnDead(w) \/ WorkerDies(w)
    \/ Concurrent
    \/ \E t \in TxIds : ReaperKill(t) \/ \E w \in Workers : Assign(w, t)
    \/ \E kind \in {"restart", "restart_evolution"} : HandleRestart(kind)
    \/ DrainDone \/ OtherStarts \/ ApplyDrop \/ ApplyTake \/ DisableBareFlag
    \/ ApplyArm \/ ApplyDone \/ QueueTask \/ RequestOwnRestart \/ StopTasks
    \/ SetFlags \/ OwnerStop \/ OwnerStart \/ Panic

ForeignAction ==
    \/ \E w \in Workers : MarkRestart(w) \/ Reconcile(w) \/ RecordReceipt(w)
    \/ PanicClose

SupervisorAction ==
    \/ \E w \in Workers : TimeoutReap(w)
    \/ \E t \in TxIds : TaskDone(t)
    \/ ApplyStart \/ ApplyRead \/ ApplyWrite \/ ApplyDisarm
    \/ TripBreaker \/ Begin \/ CleanUp \/ FinishDone \/ CloseCampaign
    \/ StartOwned \/ SafeRestart

ServerAction == PanicExit \/ Exit \/ Crash \/ Boot

\* Every action is in one of the groups.
LEMMA ActionGroups ==
    ASSUME Next
    PROVE  QuietAction \/ ForeignAction \/ SupervisorAction \/ ServerAction
<1>1. ASSUME NEW w \in Workers, Worker(w)
      PROVE  QuietAction \/ ForeignAction
  BY <1>1 DEF Worker, QuietAction, ForeignAction
<1>2. CASE Continue
  BY <1>2 DEF Continue, QuietAction, SupervisorAction
<1>3. CASE Loop
  BY <1>3 DEF Loop, QuietAction, SupervisorAction
<1>4. CASE Failures
  BY <1>4 DEF Failures, QuietAction, ServerAction
<1>5. CASE \/ Concurrent \/ \E t \in TxIds : ReaperKill(t)
           \/ OwnerStop \/ OwnerStart \/ Panic \/ PanicClose \/ PanicExit \/ Exit \/ Boot
  BY <1>5 DEF QuietAction, ForeignAction, ServerAction
<1> QED
  BY <1>1, <1>2, <1>3, <1>4, <1>5 DEF Next

\* A step that leaves the campaign and the copy of it alone keeps everything.
LEMMA QuietStep ==
    ASSUME IInv, Quiet
    PROVE  StepOK
<1>1. CampaignOK(camp, cnt.tx)' /\ CampaignOK(snap, cnt.tx)'
  BY DEF Quiet, IInv, CampaignOK, Absorbed
<1>2. SnapOK'
  BY DEF Quiet, IInv, SnapOK, HasTx
<1>3. KeepsHistory
  BY DEF Quiet, IInv, CampaignOK, KeepsHistory
<1> QED
  BY <1>1, <1>2, <1>3 DEF StepOK, Quiet, KeepsGeneration, KeepsClosed

\* Sections of the supervisor, and of another process when the supervisor holds
\* no copy of the campaign: what has to be shown of the record written.
LEMMA SectionStep ==
    ASSUME IInv, CampaignOK(camp', cnt'.tx), snap' = snap, cnt.tx \in Nat, cnt'.tx \in Nat,
           cnt.tx <= cnt'.tx, gen' = gen, sup'.pc \notin {"link", "write"},
           camp'.status = "stopped" => camp'.active.id = 0,
           camp'.id = camp.id =>
             /\ camp'.active.id \in {0, camp.active.id} \/ camp'.active.id > cnt.tx
             /\ camp'.gen \in {camp.gen, gen}
             /\ camp.status = "stopped" => camp'.status = "stopped"
    PROVE  StepOK
<1>1. CampaignOK(camp, cnt.tx)' /\ CampaignOK(snap, cnt.tx)'
  BY CampaignOKMonotone DEF IInv
<1>2. SnapOK'
  BY DEF SnapOK, HasTx
<1>3. KeepsHistory
  <2>1. \A x \in camp.hist : x.id \in Nat /\ x.id <= cnt.tx /\ x.id # 0 /\ x.id # camp.active.id
    BY CampaignFields, TransactionFields, BoundsAssumption DEF IInv, CampaignOK
  <2>2. camp'.active.id \in Nat
    BY CampaignFields, BoundsAssumption DEF CampaignOK
  <2> QED
    BY <2>1, <2>2 DEF KeepsHistory
<1> QED
  BY <1>1, <1>2, <1>3 DEF StepOK, KeepsGeneration, KeepsClosed

\* Sections of another process that may run while the supervisor holds a copy.
LEMMA ForeignStep ==
    ASSUME IInv, CampaignOK(camp', cnt.tx), snap' = snap, cnt'.tx = cnt.tx, gen' = gen,
           sup' = sup, camp'.id = camp.id, cnt.tx \in Nat,
           camp'.status = "stopped" => camp'.active.id = 0,
           camp'.active.id \in {0, camp.active.id}, camp'.gen \in {camp.gen, gen},
           camp.status = "stopped" => camp'.status = "stopped",
           sup.pc = "write" =>
              \/ /\ camp'.hist = camp.hist /\ camp'.active.id = camp.active.id
                 /\ camp'.status = camp.status
              \/ camp.status \in Live /\ camp'.status = "stopped"
    PROVE  StepOK
<1>1. CampaignOK(camp, cnt.tx)' /\ CampaignOK(snap, cnt.tx)'
  BY DEF IInv, CampaignOK, Absorbed
<1>2. SnapOK'
  BY DEF IInv, SnapOK, HasTx
<1>3. KeepsHistory
  BY DEF IInv, CampaignOK, KeepsHistory
<1> QED
  BY <1>1, <1>2, <1>3 DEF StepOK, KeepsGeneration, KeepsClosed

\* The steps that leave the campaign alone.
LEMMA QuietSteps ==
    ASSUME IInv, QuietAction
    PROVE  Quiet
<1> USE DEF files, repo, proc, UnchangedInWorker, Orphan
<1>0. cnt \in Counters
  BY DEF IInv, SystemOK, SystemTypes
<1>1. ASSUME NEW w \in Workers,
             \/ BootObserve(w) \/ VerifyRename(w) \/ VerifyMiss(w) \/ Authorize(w)
             \/ PreTag(w)
             \/ CheckPublication(w) \/ Push(w) \/ RequestRestart(w) \/ FinishTask(w)
             \/ RespawnDead(w)
      PROVE  Quiet
  BY <1>1 DEF Quiet, BootObserve, VerifyRename, VerifyMiss, Authorize, PreTag,
     CheckPublication, Push, RequestRestart, FinishTask, RespawnDead
<1>2. ASSUME NEW w \in Workers, MakeCommit(w) \/ WorkerDies(w)
      PROVE  Quiet
  BY <1>0, <1>2 DEF Quiet, MakeCommit, WorkerDies, Tick, Counters
<1>3. ASSUME Concurrent
      PROVE  Quiet
  BY <1>0, <1>3 DEF Quiet, Concurrent, OtherCommits, OtherRequestsRestart, OtherEnds,
     RollbackLoads, RollbackSaves, Tick, Counters
<1>4. ASSUME NEW t \in TxIds, ReaperKill(t) \/ \E w \in Workers : Assign(w, t)
      PROVE  Quiet
  BY <1>4 DEF Quiet, ReaperKill, Assign
<1>5. ASSUME NEW kind, HandleRestart(kind)
      PROVE  Quiet
  BY <1>5 DEF Quiet, HandleRestart, Perform
<1>6. ASSUME NEW pc \in SupPcs \ {"link", "write"}, NEW arg, NEW ok,
             Goto(pc, arg, ok) \/ Return
      PROVE  sup'.pc \notin {"link", "write"}
  BY <1>6 DEF Goto, Return, AtLoop
<1>7. ASSUME NEW kind, NEW d, Perform(kind, d)
      PROVE  sup' = sup \/ sup'.pc \notin {"link", "write"}
  BY <1>7 DEF Perform
<1>8. ASSUME DrainDone \/ ApplyDrop \/ DisableBareFlag
      PROVE  Quiet
  BY <1>7, <1>8 DEF Quiet, DrainDone, ApplyDrop, DisableBareFlag
<1>9. ASSUME OtherStarts \/ Panic
      PROVE  Quiet
  BY <1>0, <1>9 DEF Quiet, OtherStarts, Panic, Tick, Counters
<1>10. ASSUME OwnerStop \/ OwnerStart
       PROVE  Quiet
  <2>1. cnt'.tx = cnt.tx
    BY <1>0, <1>10 DEF OwnerStop, OwnerStart, Tick, Counters
  <2>2. sup'.pc \notin {"link", "write"}
    BY <1>6, <1>10 DEF OwnerStop, OwnerStart, SupPcs
  <2> QED
    BY <1>10, <2>1, <2>2 DEF Quiet, OwnerStop, OwnerStart
<1>11. ASSUME \/ ApplyTake \/ ApplyArm \/ ApplyDone \/ QueueTask
              \/ RequestOwnRestart \/ StopTasks \/ SetFlags
       PROVE  Quiet
  <2>1. CASE ApplyTake
    BY <1>6, <2>1 DEF ApplyTake, Quiet, SupPcs
  <2>2. CASE ApplyArm
    BY <1>6, <2>2 DEF ApplyArm, Quiet, SupPcs
  <2>3. CASE ApplyDone
    BY <1>6, <2>3 DEF ApplyDone, Quiet, SupPcs
  <2>6. CASE QueueTask
    BY <1>6, <2>6 DEF QueueTask, Quiet, SupPcs
  <2>7. CASE SetFlags
    BY <1>6, <2>7 DEF SetFlags, Quiet, SupPcs
  <2>4. CASE RequestOwnRestart
    BY <1>6, <2>4 DEF RequestOwnRestart, Quiet, SupPcs
  <2>5. CASE StopTasks
    BY <1>6, <2>5 DEF StopTasks, AfterStop, Quiet, SupPcs
  <2> QED
    BY <1>11, <2>1, <2>2, <2>3, <2>4, <2>5, <2>6, <2>7
<1> QED
  BY <1>1, <1>2, <1>3, <1>4, <1>5, <1>8, <1>9, <1>10, <1>11 DEF QuietAction

\* The worker's and the panic's sections of the campaign file.
LEMMA ForeignSteps ==
    ASSUME IInv, ForeignAction
    PROVE  StepOK
<1>0. /\ camp \in Campaign /\ CampaignOK(camp, cnt.tx) /\ cnt.tx \in Nat
      /\ gen \in 0..MaxGen /\ SnapOK
      /\ wk \in [Workers -> WorkerSlot]
  <2>1. gen \in 1..MaxGen /\ cnt \in Counters /\ wk \in [Workers -> WorkerSlot]
    BY DEF IInv, SystemOK, SystemTypes
  <2>2. cnt.tx \in 0..MaxTx
    BY <2>1 DEF Counters
  <2> QED
    BY <2>1, <2>2, BoundsAssumption DEF IInv, CampaignOK
<1> DEFINE frame == snap' = snap /\ cnt' = cnt /\ gen' = gen /\ sup' = sup
<1>1. ASSUME frame, camp' = camp
      PROVE  StepOK
  BY <1>1, QuietStep DEF Quiet
<1>2. ASSUME frame, camp' = Stamp(camp, gen)
      PROVE  StepOK
  BY <1>0, <1>2, StampOK, StampFields, ForeignStep DEF SnapOK, HasTx
<1>3. ASSUME frame, HasTx(camp), camp.gen # gen, camp.status \in Live,
             camp' \in {Absorb(camp, gen), AbandonUnreachable(camp, gen)}
      PROVE  StepOK
  <2>1. CampaignOK(camp', cnt.tx)
    BY <1>0, <1>3, AbsorbOK, AbandonUnreachableOK
  <2>2. camp'.id = camp.id /\ camp'.gen = gen /\ camp'.status = camp.status /\ camp'.active.id = 0
    BY <1>0, <1>3, BootFields
  <2>3. sup.pc # "write"
    BY <1>0, <1>3 DEF SnapOK
  <2> QED
    BY <1>0, <1>3, <2>1, <2>2, <2>3, ForeignStep DEF Live
<1>4. ASSUME NEW w \in Workers, MarkRestart(w)
      PROVE  StepOK
  BY <1>1, <1>2, <1>3, <1>4 DEF MarkRestart, Unlink, Restore, repo
<1>5. ASSUME NEW w \in Workers, Reconcile(w)
      PROVE  StepOK
  BY <1>1, <1>2, <1>3, <1>5 DEF Reconcile, WaitingTx, HasTx, repo
<1>6. ASSUME NEW w \in Workers, RecordReceipt(w)
      PROVE  StepOK
  <2>1. CASE camp' = camp
    BY <1>1, <1>6, <2>1 DEF RecordReceipt, UnchangedInWorker
  <2>2. CASE camp' = RecordCommit(camp, wk[w].sha)
    <3>1. wk[w].sha \in 0..MaxSha
      BY <1>0 DEF WorkerSlot
    <3>2. CampaignOK(camp', cnt.tx)
      BY <1>0, <2>2, <3>1, RecordCommitOK
    <3>3. frame
      BY <1>6 DEF RecordReceipt, UnchangedInWorker
    <3> QED
      BY <1>0, <2>2, <3>2, <3>3, RecordFields, ForeignStep DEF SnapOK, HasTx
  <2> QED
    BY <1>6, <2>1, <2>2 DEF RecordReceipt, Orphan
<1>7. CASE PanicClose
  <2>1. CASE camp' = camp
    BY <1>1, <1>7, <2>1 DEF PanicClose, repo
  <2>2. CASE camp' = CompleteCampaign(camp)
    <3>1. CampaignOK(camp', cnt.tx)
      BY <1>0, <2>2, CompleteCampaignOK
    <3>2. frame
      BY <1>7 DEF PanicClose, repo
    <3>3. CASE camp.status = "none"
      BY <1>0, <1>1, <2>2, <3>2, <3>3, CompleteFields
    <3>4. CASE camp.status = "stopped"
      BY <1>0, <2>2, <3>1, <3>2, <3>4, CompleteFields, ForeignStep DEF SnapOK, HasTx
    <3>5. CASE camp.status \in Live
      BY <1>0, <2>2, <3>1, <3>2, <3>5, CompleteFields, ForeignStep DEF Live
    <3> QED
      BY <1>0, <3>3, <3>4, <3>5, CampaignFields DEF Live
  <2> QED
    BY <1>7, <2>1, <2>2 DEF PanicClose
<1> QED
  BY <1>4, <1>5, <1>6, <1>7 DEF ForeignAction

\* The supervisor's sections of the campaign file.
LEMMA SupervisorSteps ==
    ASSUME IInv, SupervisorAction
    PROVE  StepOK
<1>0. /\ camp \in Campaign /\ CampaignOK(camp, cnt.tx) /\ cnt.tx \in Nat
      /\ gen \in 0..MaxGen /\ SnapOK /\ cnt \in Counters /\ CampaignOK(snap, cnt.tx)
      /\ sup.pc \in {"minting", "link", "write"} => sup.arg \in Reqs
  <2>1. gen \in 1..MaxGen /\ cnt \in Counters
    BY DEF IInv, SystemOK, SystemTypes
  <2>2. cnt.tx \in 0..MaxTx
    BY <2>1 DEF Counters
  <2> QED
    BY <2>1, <2>2, BoundsAssumption DEF IInv, CampaignOK, SystemOK, SupervisorOK
<1> DEFINE frame == snap' = snap /\ cnt' = cnt /\ gen' = gen
           away == sup'.pc \notin {"link", "write"}
<1>1. ASSUME NEW pc \in SupPcs \ {"link", "write"}, NEW arg, NEW ok,
             Goto(pc, arg, ok) \/ Return
      PROVE  away
  BY <1>1 DEF Goto, Return, AtLoop
<1>2. ASSUME frame, sup' = sup \/ away, camp' = camp
      PROVE  StepOK
  BY <1>2, QuietStep DEF Quiet
<1>3. ASSUME frame, away, camp' = CompleteCampaign(camp)
      PROVE  StepOK
  <2>1. CampaignOK(camp', cnt'.tx)
    BY <1>0, <1>3, CompleteCampaignOK
  <2>2. CASE camp.status = "none"
    BY <1>0, <1>2, <1>3, <2>2, CompleteFields
  <2>3. CASE camp.status # "none"
    BY <1>0, <1>3, <2>1, <2>3, CompleteFields, SectionStep
  <2> QED
    BY <2>2, <2>3
<1>4. ASSUME frame, away, NEW o \in Objectives, MayStart(camp),
             camp' = StartCampaign(camp, o, gen)
      PROVE  StepOK
  <2>1. CampaignOK(camp', cnt'.tx)
    BY <1>0, <1>4, StartCampaignOK
  <2> QED
    BY <1>0, <1>4, <2>1, StartFields, SectionStep DEF Live
<1>5. ASSUME frame, sup' = sup \/ away, sup.pc \notin {"link", "write"},
             camp' \in {PauseCampaign(camp), PauseCampaign(LinkRescue(camp))}
      PROVE  StepOK
  <2>1. /\ CampaignOK(LinkRescue(camp), cnt.tx) /\ LinkRescue(camp) \in Campaign
        /\ LinkRescue(camp).status = camp.status /\ LinkRescue(camp).id = camp.id
        /\ LinkRescue(camp).gen = camp.gen /\ LinkRescue(camp).active.id = camp.active.id
    BY <1>0, LinkRescueOK, RescueFields DEF CampaignOK
  <2>2. CampaignOK(camp', cnt'.tx)
    BY <1>0, <1>5, <2>1, PauseCampaignOK
  <2>3. /\ camp'.id = camp.id /\ camp'.gen = camp.gen /\ camp'.active.id = camp.active.id
        /\ camp.status = "stopped" <=> camp'.status = "stopped"
    BY <1>0, <1>5, <2>1, PauseFields DEF Live
  <2> QED
    BY <1>0, <1>5, <2>2, <2>3, SectionStep DEF SnapOK, HasTx
<1>6. ASSUME NEW w \in Workers, TimeoutReap(w)
      PROVE  StepOK
  <2>1. CampaignOK(camp', cnt.tx) /\ camp' = MarkReaping(camp)
    BY <1>0, <1>6, MarkReapingOK DEF TimeoutReap
  <2>2. cnt'.tx = cnt.tx /\ snap' = snap /\ gen' = gen /\ sup' = sup /\ sup.pc = "loop"
    BY <1>0, <1>6 DEF TimeoutReap, Tick, Counters, AtTop, Dispatching
  <2> QED
    BY <1>0, <2>1, <2>2, ReapFields, SectionStep DEF SnapOK, HasTx
<1>7. ASSUME NEW t \in TxIds, TaskDone(t)
      PROVE  StepOK
  <2>1. frame /\ away
    BY <1>1, <1>7 DEF TaskDone, repo, SupPcs
  <2>2. CASE camp' = camp
    BY <1>2, <2>1, <2>2
  <2>3. CASE camp.status \in Live /\ camp.active.id = t /\ camp' = AfterTask(camp)
    <3>1. HasTx(camp)
      BY <2>3 DEF HasTx, TxIds
    <3>2. CampaignOK(camp', cnt'.tx)
      BY <1>0, <2>1, <2>3, <3>1, AfterTaskOK
    <3> QED
      BY <1>0, <2>1, <2>3, <3>2, AfterTaskFields, SectionStep DEF Live
  <2> QED
    BY <1>7, <2>2, <2>3 DEF TaskDone
<1>8. CASE ApplyStart
  <2> USE <1>8 DEF ApplyStart, repo
  <2>1. frame
    OBVIOUS
  <2>2. CASE Return /\ camp' = camp
    BY <1>1, <1>2, <2>1, <2>2 DEF SupPcs
  <2>3. CASE /\ MayStart(camp) /\ camp' = StartCampaign(camp, sup.arg, gen)
             /\ Goto("link", sup.arg, FALSE)
    <3>1. sup.arg \in Objectives /\ sup'.pc = "link"
      BY <1>0, <2>3, BoundsAssumption DEF Reqs, Objectives, Goto
    <3>2. CampaignOK(camp', cnt'.tx)
      BY <1>0, <2>1, <2>3, <3>1, StartCampaignOK
    <3>3. /\ camp'.status = "active" /\ camp'.gen = gen
          /\ camp.status \in Live => camp'.id = camp.id /\ camp'.active.id = camp.active.id
          /\ camp.status \notin Live => camp'.id # camp.id
      BY <1>0, <2>3, <3>1, StartFields
    <3>4. SnapOK' /\ CampaignOK(snap, cnt.tx)'
      BY <1>0, <2>1, <3>1, <3>3 DEF SnapOK, CampaignOK, Absorbed
    <3>5. KeepsHistory
      BY <1>0, <3>3 DEF KeepsHistory, CampaignOK
    <3>6. KeepsGeneration /\ KeepsClosed
      BY <3>3, <2>1 DEF KeepsGeneration, KeepsClosed, Live
    <3> QED
      BY <3>2, <3>4, <3>5, <3>6 DEF StepOK
  <2> QED
    BY <2>2, <2>3
<1>9. CASE ApplyRead
  <2> USE <1>9 DEF ApplyRead, files, repo
  <2>1. CASE Goto("arm", sup.arg, FALSE) /\ UNCHANGED snap
    BY <1>1, <1>2, <2>1 DEF SupPcs
  <2>2. CASE snap' = camp /\ Goto("write", sup.arg, FALSE)
    <3>1. sup'.pc = "write" /\ camp' = camp /\ cnt' = cnt /\ gen' = gen
      BY <2>2 DEF Goto
    <3>2. CampaignOK(camp, cnt.tx)' /\ CampaignOK(snap, cnt.tx)'
      BY <1>0, <2>2, <3>1 DEF CampaignOK, Absorbed
    <3>3. SnapOK'
      BY <1>0, <2>2, <3>1 DEF SnapOK, HasTx
    <3>4. KeepsHistory
      BY <1>0, <3>1 DEF KeepsHistory, CampaignOK
    <3> QED
      BY <3>1, <3>2, <3>3, <3>4 DEF StepOK, KeepsGeneration, KeepsClosed
  <2> QED
    BY <2>1, <2>2
<1>10. CASE ApplyWrite
  <2> USE <1>10 DEF ApplyWrite, repo
  <2> DEFINE linked == [snap EXCEPT !.link = sup.arg]
  <2>1. cnt' = cnt /\ gen' = gen /\ snap' = NoCampaign /\ sup.pc = "write" /\ away
    BY <1>1 DEF SupPcs
  <2>2. CampaignOK(snap, cnt.tx)'
    BY <1>0, <2>1, NoCampaignOK DEF CampaignOK, Absorbed
  <2>3. CASE camp' = camp
    BY <1>0, <2>1, <2>2, <2>3 DEF StepOK, CampaignOK, Absorbed, SnapOK, HasTx, KeepsHistory,
       KeepsGeneration, KeepsClosed
  <2>4. CASE WriteAllowed(camp, linked) /\ camp' = linked
    <3>1. sup.arg \in 0..MaxReq
      BY <1>0, <2>1, BoundsAssumption DEF Reqs
    <3>2. CampaignOK(linked, cnt.tx)
      BY <1>0, <3>1, LinkOK
    <3>3. /\ linked.id = snap.id /\ linked.gen = snap.gen /\ linked.active = snap.active
          /\ linked.hist = snap.hist /\ linked.status = snap.status
      BY <1>0 DEF CampaignOK, Campaign
    <3> HIDE DEF linked
    <3>4. /\ camp'.id = camp.id /\ camp'.gen = gen /\ camp.gen = gen
          /\ camp'.hist = camp.hist /\ camp'.active.id = camp.active.id
          /\ camp'.status = camp.status
      BY <1>0, <2>1, <2>4, <3>3 DEF SnapOK, WriteAllowed, Live
    <3>5. CampaignOK(camp, cnt.tx)'
      BY <2>1, <2>4, <3>2 DEF CampaignOK, Absorbed
    <3>6. SnapOK'
      BY <1>0, <2>1, <3>4 DEF SnapOK, HasTx
    <3>7. KeepsHistory
      BY <1>0, <3>4 DEF KeepsHistory, CampaignOK
    <3> QED
      BY <2>2, <3>4, <3>5, <3>6, <3>7 DEF StepOK, KeepsGeneration, KeepsClosed
  <2> QED
    BY <2>3, <2>4
<1>11. CASE ApplyDisarm \/ CloseCampaign
  <2>1. frame /\ away
    BY <1>1, <1>11 DEF ApplyDisarm, CloseCampaign, SupPcs
  <2> QED
    BY <1>2, <1>3, <1>11, <2>1 DEF ApplyDisarm, CloseCampaign, Close
<1>12. CASE TripBreaker
  <2>1. frame /\ sup' = sup /\ sup.pc = "loop"
    BY <1>12 DEF TripBreaker, repo, proc, Dispatchable, MayEnqueue, AtTop, Dispatching
  <2> QED
    BY <1>2, <1>5, <1>12, <2>1 DEF TripBreaker
<1>13. CASE Begin
  <2>1. snap' = snap /\ gen' = gen
    BY <1>13 DEF Begin, repo
  <2>2. CASE UNCHANGED <<camp, sup, cnt>>
    BY <1>2, <2>1, <2>2
  <2>3. CASE /\ MayBegin(camp, st, camp.id) /\ cnt.tx < MaxTx
             /\ camp' = BeginTransaction(camp, cnt.tx + 1, head)
             /\ Goto("queueing", cnt.tx + 1, FALSE) /\ Tick("tx")
    <3>1. cnt'.tx = cnt.tx + 1 /\ cnt.tx + 1 \in TxIds
      BY <1>0, <2>3, BoundsAssumption DEF Tick, Counters, TxIds
    <3>2. away
      BY <1>1, <2>3 DEF SupPcs
    <3>3. head \in SUBSET Shas
      BY DEF IInv, SystemOK, SystemTypes
    <3>4. CampaignOK(camp', cnt'.tx)
      BY <1>0, <2>3, <3>1, <3>3, BeginTransactionOK
    <3>5. /\ camp'.id = camp.id /\ camp'.gen = camp.gen /\ camp'.status = camp.status
          /\ camp'.active.id = cnt.tx + 1
      BY <1>0, <2>3, BeginFields
    <3>6. camp.status = "active"
      BY <2>3 DEF MayBegin
    <3> QED
      BY <1>0, <2>1, <3>1, <3>2, <3>4, <3>5, <3>6, SectionStep
  <2> QED
    BY <1>13, <2>2, <2>3 DEF Begin
<1>14. CASE CleanUp
  <2>1. frame /\ away
    BY <1>1, <1>14 DEF CleanUp, SupPcs
  <2>2. CASE camp' = camp
    BY <1>2, <2>1, <2>2
  <2>3. CASE camp' = PersistCleanup(camp, sup.arg)
    <3>1. CampaignOK(camp', cnt'.tx)
      BY <1>0, <2>1, <2>3, PersistCleanupOK
    <3> QED
      BY <1>0, <2>1, <2>3, <3>1, CleanupFields, SectionStep DEF SnapOK, HasTx
  <2> QED
    BY <1>14, <2>2, <2>3 DEF CleanUp
<1>15. CASE FinishDone
  <2>1. frame /\ away
    BY <1>1, <1>15 DEF FinishDone, SupPcs
  <2> QED
    BY <1>2, <1>3, <1>15, <2>1 DEF FinishDone, Close
<1>16. CASE StartOwned
  <2>1. frame /\ away
    BY <1>1, <1>16 DEF StartOwned, repo, SupPcs
  <2>2. 0 \in Objectives /\ camp.obj \in Objectives
    BY <1>0, CampaignFields, BoundsAssumption DEF Objectives
  <2> QED
    BY <1>2, <1>4, <1>16, <2>1, <2>2 DEF StartOwned
<1>17. CASE SafeRestart
  <2>1. frame /\ sup.pc = "restarting"
    BY <1>17 DEF SafeRestart
  <2>2. away
    <3>1. [AtLoop EXCEPT !.pc = "exit"].pc = "exit"
      BY DEF AtLoop
    <3> QED
      BY <1>1, <1>17, <3>1 DEF SafeRestart, SupPcs
  <2> QED
    BY <1>2, <1>5, <1>17, <2>1, <2>2 DEF SafeRestart, Blocked
<1> QED
  BY <1>6, <1>7, <1>8, <1>9, <1>10, <1>11, <1>12, <1>13, <1>14, <1>15, <1>16, <1>17
     DEF SupervisorAction

\* A server that goes down forgets the copy of the campaign; a new one is a new
\* generation and may pause the campaign over a rescue snapshot.
LEMMA ServerSteps ==
    ASSUME IInv, ServerAction
    PROVE  StepOK
<1>0. /\ camp \in Campaign /\ CampaignOK(camp, cnt.tx) /\ CampaignOK(snap, cnt.tx)
      /\ cnt.tx \in Nat /\ cnt \in Counters /\ gen \in 1..MaxGen /\ SnapOK
      /\ server = "down" => sup.pc = "loop"
  <2>1. gen \in 1..MaxGen /\ cnt \in Counters
    BY DEF IInv, SystemOK, SystemTypes
  <2>2. cnt.tx \in 0..MaxTx
    BY <2>1 DEF Counters
  <2> QED
    BY <2>1, <2>2, BoundsAssumption DEF IInv, CampaignOK, SystemOK, SupervisorOK
<1>1. ASSUME PanicExit \/ Exit \/ Crash
      PROVE  StepOK
  <2>1. camp' = camp /\ snap' = NoCampaign /\ gen' = gen /\ sup' = AtLoop
    BY <1>1 DEF PanicExit, Exit, Crash, Down
  <2>2. cnt'.tx = cnt.tx
    BY <1>0, <1>1 DEF PanicExit, Exit, Crash, Tick, Counters
  <2>3. CampaignOK(camp, cnt.tx)' /\ CampaignOK(snap, cnt.tx)'
    BY <1>0, <2>1, <2>2, NoCampaignOK DEF CampaignOK, Absorbed
  <2>4. SnapOK'
    BY <1>0, <2>1 DEF SnapOK, HasTx, AtLoop
  <2>5. KeepsHistory
    BY <1>0, <2>1 DEF KeepsHistory, CampaignOK
  <2> QED
    BY <2>1, <2>3, <2>4, <2>5 DEF StepOK, KeepsGeneration, KeepsClosed
<1>2. CASE Boot
  <2>1. /\ snap' = snap /\ cnt' = cnt /\ sup' = sup /\ sup.pc = "loop" /\ gen' # gen
    BY <1>0, <1>2 DEF Boot, Up
  <2>2. /\ CampaignOK(LinkRescue(camp), cnt.tx) /\ LinkRescue(camp) \in Campaign
        /\ LinkRescue(camp).status = camp.status /\ LinkRescue(camp).id = camp.id
        /\ LinkRescue(camp).active.id = camp.active.id
    BY <1>0, LinkRescueOK, RescueFields DEF CampaignOK
  <2>3. camp' \in {camp, PauseCampaign(camp), PauseCampaign(LinkRescue(camp))}
    BY <1>2 DEF Boot, Blocked
  <2>4. CampaignOK(camp', cnt.tx)
    BY <1>0, <2>2, <2>3, PauseCampaignOK
  <2>5. /\ camp'.id = camp.id /\ camp'.active.id = camp.active.id
        /\ camp.status = "stopped" <=> camp'.status = "stopped"
    BY <1>0, <2>2, <2>3, PauseFields DEF Live
  <2>6. CampaignOK(camp, cnt.tx)' /\ CampaignOK(snap, cnt.tx)'
    BY <1>0, <2>1, <2>4 DEF CampaignOK, Absorbed
  <2>7. SnapOK'
    BY <1>0, <2>1, <2>5 DEF SnapOK, HasTx
  <2>8. KeepsHistory
    BY <1>0, <2>5 DEF KeepsHistory, CampaignOK
  <2> QED
    BY <2>1, <2>5, <2>6, <2>7, <2>8 DEF StepOK, KeepsGeneration, KeepsClosed
<1> QED
  BY <1>1, <1>2 DEF ServerAction

(***************************************************************************)
(* The invariant, and the theorems.                                        *)
(***************************************************************************)

\* The initial state satisfies the invariant.
LEMMA InitIInv ==
    Init => IInv
<1> SUFFICES ASSUME Init PROVE IInv
  OBVIOUS
<1>0. /\ 0 \in 0..MaxTx /\ 0 \in 0..MaxCamp /\ 0 \in 0..MaxSha /\ 0 \in 0..MaxGen
      /\ 0 \in 0..MaxReq /\ 1 \in 1..MaxGen
      /\ 0 \in 0..Owner /\ 0 \in 0..Panics /\ 0 \in 0..Crashes /\ 0 \in 0..Reaps
      /\ 0 \in 0..Others /\ 0 \in 0..Stales
  BY BoundsAssumption, BudgetsAssumption
<1>1. /\ st = Off /\ camp = NoCampaign /\ snap = NoCampaign /\ req = 0
      /\ marker = NoMarker /\ stale = {} /\ closed = {} /\ head = {} /\ pushed = {}
      /\ gen = 1 /\ server = "up" /\ drain = "" /\ evq = {} /\ other = FALSE
      /\ old = NoOld /\ sup = AtLoop /\ q = [t \in TxIds |-> "none"]
      /\ wk = [w \in Workers |-> Booting]
  BY DEF Init
<1>2. Off \in State /\ NoOld \in [set: BOOLEAN, st: State] /\ NoMarker \in Markers
  BY SlotTypes, SupervisorTypes
<1>3. q \in [TxIds -> QueueStates] /\ server \in Servers
  BY <1>1 DEF QueueStates, Servers
<1>4. wk \in [Workers -> WorkerSlot] /\ WorkersOK
  <2>1. \A w \in Workers : wk[w].ph = "boot"
    BY <1>1, SlotTypes
  <2> QED
    BY <1>1, <2>1, SlotTypes DEF WorkersOK, Working, Committing
<1>5. sup \in SupervisorSlot /\ sup.pc = "loop"
  BY <1>1, SupervisorTypes
<1>6. cnt \in Counters /\ cnt.tx = 0
  <2>1. cnt = [tx |-> 0, sha |-> 0, req |-> 0, owner |-> 0, panic |-> 0, crash |-> 0,
               reap |-> 0, other |-> 0, stale |-> 0]
    BY DEF Init
  <2> QED
    BY <1>0, <2>1 DEF Counters
<1>7. made \in [Shas -> Origins]
  <2>1. made = [s \in Shas |-> [gen |-> 0, tx |-> 0, camp |-> 0]]
    BY DEF Init
  <2>2. [gen |-> 0, tx |-> 0, camp |-> 0] \in Origins
    BY <1>0 DEF Origins
  <2> QED
    BY <2>1, <2>2
<1>8. SystemOK
  <2>1. SystemTypes
    BY <1>0, <1>1, <1>2, <1>3, <1>4, <1>5, <1>6, <1>7 DEF SystemTypes
  <2> QED
    BY <1>1, <1>4, <1>5, <2>1 DEF SystemOK, SupervisorOK
<1>9. CampaignOK(camp, cnt.tx) /\ CampaignOK(snap, cnt.tx)
  <2>1. CampaignOK(NoCampaign, 0)
    BY NoCampaignOK
  <2> QED
    BY <1>1, <1>6, <2>1 DEF CampaignOK, Absorbed
<1>10. SnapOK
  BY <1>1, <1>5 DEF SnapOK, NoCampaign
<1> QED
  BY <1>8, <1>9, <1>10 DEF IInv

\* Every action keeps the other variables good.
LEMMA NextSystemOK ==
    ASSUME SystemOK, camp \in Campaign, Next
    PROVE  SystemOK'
<1>1. ASSUME NEW w \in Workers, Worker(w)
      PROVE  SystemOK'
  BY <1>1, WorkerSystemOK
<1>2. CASE Concurrent
  BY <1>2, ConcurrentSystemOK
<1>3. CASE Continue
  BY <1>3, ContinueSystemOK
<1>4. ASSUME NEW w \in Workers, RespawnDead(w) \/ TimeoutReap(w) \/ WorkerDies(w)
      PROVE  SystemOK'
  BY <1>4, PoolSystemOK
<1>5. ASSUME NEW w \in Workers, NEW t \in TxIds, Assign(w, t)
      PROVE  SystemOK'
  BY <1>5, AssignSystemOK
<1>6. ASSUME NEW t \in TxIds, ReaperKill(t) \/ TaskDone(t)
      PROVE  SystemOK'
  BY <1>6, TaskSystemOK
<1>7. ASSUME NEW kind \in {"restart", "restart_evolution"}, HandleRestart(kind)
      PROVE  SystemOK'
  BY <1>7, RestartSystemOK
<1>8. ASSUME \/ DrainDone \/ OtherStarts \/ ApplyDrop \/ ApplyTake
             \/ DisableBareFlag \/ TripBreaker \/ Begin \/ OwnerStop \/ OwnerStart
      PROVE  SystemOK'
  BY <1>8, LoopSystemOK
<1>9. ASSUME Panic \/ PanicClose \/ PanicExit \/ Exit \/ Crash \/ Boot
      PROVE  SystemOK'
  BY <1>9, ServerSystemOK
<1> QED
  BY <1>1, <1>2, <1>3, <1>4, <1>5, <1>6, <1>7, <1>8, <1>9 DEF Next, Loop, Failures

\* Every step keeps the invariant, and what StepOK says of the campaign file.
LEMMA NextStep ==
    ASSUME IInv, [Next]_vars
    PROVE  IInv' /\ StepOK
<1>1. SystemOK /\ camp \in Campaign
  BY DEF IInv, CampaignOK
<1>2. CASE UNCHANGED vars
  <2>1. SystemOK'
    BY <1>1, <1>2 DEF vars, SystemOK, SystemTypes, WorkersOK, SupervisorOK
  <2>2. StepOK
    BY <1>2, QuietStep DEF vars, Quiet
  <2> QED
    BY <2>1, <2>2 DEF IInv, StepOK
<1>3. CASE Next
  <2>1. SystemOK'
    BY <1>1, <1>3, NextSystemOK
  <2>2. StepOK
    BY <1>3, ActionGroups, QuietSteps, QuietStep, ForeignSteps, SupervisorSteps, ServerSteps
  <2> QED
    BY <2>1, <2>2 DEF IInv, StepOK
<1> QED
  BY <1>2, <1>3

\* The inductive invariant holds in every reachable state.
THEOREM Invariant ==
    Spec => []IInv
<1>1. IInv /\ [Next]_vars => IInv'
  BY NextStep
<1> QED
  BY InitIInv, <1>1, PTL DEF Spec

\* Every variable has its type in every reachable state: each section writes
\* only statuses, outcomes, phases and queue states that the readers know.
THEOREM TypeCorrect ==
    Spec => []TypeOK
<1>1. IInv => TypeOK
  BY DEF IInv, SystemOK, CampaignOK, TypeOK
<1> QED
  BY Invariant, <1>1, PTL

\* absorbed_count is the number of archived cycles with outcome "absorbed",
\* whatever boots, task terminals and writes of a stale copy do to the file.
THEOREM AbsorbedCountCorrect ==
    Spec => []AbsorbedCountExact
<1>1. IInv => AbsorbedCountExact
  BY DEF IInv, CampaignOK, Absorbed, AbsorbedCountExact
<1> QED
  BY Invariant, <1>1, PTL

\* What StepOK says of a step holds of every step of a behaviour.
LEMMA StepsOK ==
    Spec => [][StepOK]_vars
<1>1. IInv /\ [Next]_vars => StepOK
  BY NextStep
<1> QED
  BY Invariant, <1>1, PTL DEF Spec

\* An archived cycle never becomes the active one of its campaign again, not
\* even by the whole-file write of apply_pending_request.
THEOREM ArchivedStays ==
    Spec => ArchivedStaysArchived
<1>1. StepOK => \A x \in camp.hist : camp'.id = camp.id => camp'.active.id # x.id
  BY DEF StepOK, KeepsHistory
<1> QED
  BY StepsOK, <1>1, PTL DEF ArchivedStaysArchived

\* The generation that reconciled a campaign stays recorded until the server
\* restarts, so that no second worker of it decides the fate of a commit.
THEOREM ReconciledOnce ==
    Spec => ReconciledOncePerGeneration
<1>1. StepOK => (camp.gen = gen /\ gen' = gen /\ camp'.id = camp.id => camp'.gen = gen)
  BY DEF StepOK, KeepsGeneration
<1> QED
  BY StepsOK, <1>1, PTL DEF ReconciledOncePerGeneration

\* A closed campaign stays closed.
THEOREM ClosedStays ==
    Spec => ClosedIsTerminal
<1>1. StepOK => (camp.status = "stopped" /\ camp'.id = camp.id => camp'.status = "stopped")
  BY DEF StepOK, KeepsClosed
<1> QED
  BY StepsOK, <1>1, PTL DEF ClosedIsTerminal

-----------------------------------------------------------------------------
(* The cycle: what a step does to the transaction in flight and to what was *)
(* settled before it.                                                       *)

\* The copy that apply_pending_request holds misses at most the commit of the
\* cycle, unless the campaign was closed meanwhile (and the write refused).
CopyOK ==
    sup.pc = "write" =>
        \/ snap.status \in Live /\ camp.status = "stopped"
        \/ snap.active.sha \in {0, camp.active.sha}

CycleOK == ActiveOK(camp) /\ ActiveOK(snap) /\ CopyOK

\* the transaction in flight is settled and the campaign goes on
SettlesLive(outcome) ==
    SettlesAs(camp, camp', outcome) /\ camp.status \in Live /\ camp'.status \in Live

\* the write of the copy
Rewrites ==
    /\ sup.pc = "write" /\ (camp.status \in Live <=> camp'.status \in Live)
    /\ camp'.id = camp.id /\ camp'.hist = camp.hist /\ camp'.absorbed = camp.absorbed
    /\ camp'.active.id = camp.active.id /\ camp'.active.sha = snap.active.sha
    /\ snap.active.sha \in {0, camp.active.sha}
    /\ ~(snap.status \in Live /\ camp.status = "stopped")

CampaignMove ==
    \/ SameCycle(camp, camp')
    \/ Founds(camp, camp')
    \/ ~st.stopped /\ st.enabled /\ \E s \in Shas : Commits(camp, camp', s)
    \/ ~st.stopped /\ cnt.tx + 1 \in TxIds /\ Begins(camp, camp', cnt.tx + 1)
    \/ ~st.stopped /\ Committed(camp.active) /\ SettlesLive("absorbed")
    \/ SettlesLive("abandoned")
    \/ ~Committed(camp.active) /\ SettlesLive("no_op")
    \/ Closes(camp, camp')
    \/ Rewrites

MoveOK == CampaignMove /\ ActiveOK(camp)'

\* What the lemmas about the moves use of the invariant.
LEMMA MoveFacts ==
    ASSUME IInv
    PROVE  /\ camp \in Campaign /\ CampaignOK(camp, cnt.tx) /\ cnt.tx \in 0..MaxTx
           /\ snap \in Campaign /\ CampaignOK(snap, cnt.tx) /\ SnapOK
           /\ cnt \in Counters /\ gen \in 1..MaxGen /\ wk \in [Workers -> WorkerSlot]
           /\ sup.pc \in {"minting", "link", "write"} => sup.arg \in Reqs
  BY DEF IInv, CampaignOK, SystemOK, SystemTypes, SupervisorOK, Counters

\* A step that leaves the campaign alone keeps its cycle.
LEMMA StaysMove ==
    ASSUME CycleOK, camp' = camp
    PROVE  MoveOK
  BY Zenon DEF CycleOK, MoveOK, CampaignMove, SameCycle

\* A section that only marks, pauses or cleans the record keeps its cycle.
LEMMA SameMove ==
    ASSUME SameCycle(camp, camp'), ActiveOK(camp')
    PROVE  MoveOK
  BY Zenon DEF MoveOK, CampaignMove

\* A close of the campaign.
LEMMA CloseMove ==
    ASSUME IInv, CycleOK, camp' = CompleteCampaign(camp)
    PROVE  MoveOK
<1>1. ActiveOK(camp') /\ (SameCycle(camp, camp') \/ Closes(camp, camp'))
  BY MoveFacts, ClosesCampaign DEF CycleOK
<1> QED
  BY <1>1, Zenon DEF MoveOK, CampaignMove

\* A start of the campaign.
LEMMA StartMove ==
    ASSUME IInv, CycleOK, NEW o, camp' = StartCampaign(camp, o, gen)
    PROVE  MoveOK
<1>1. ActiveOK(camp') /\ (SameCycle(camp, camp') \/ Founds(camp, camp'))
  BY MoveFacts, StartsCampaign DEF CycleOK
<1> QED
  BY <1>1, Zenon DEF MoveOK, CampaignMove

\* A pause of the campaign.
LEMMA PauseMove ==
    ASSUME IInv, CycleOK,
           camp' \in {camp, PauseCampaign(camp), PauseCampaign(LinkRescue(camp))}
    PROVE  MoveOK
<1>1. CASE camp' = camp
  BY <1>1, StaysMove
<1>2. CASE camp' \in {PauseCampaign(camp), PauseCampaign(LinkRescue(camp))}
  BY <1>2, MoveFacts, PauseKeepsCycle, SameMove DEF CycleOK
<1> QED
  BY <1>1, <1>2

\* A stamp of the generation, or a "reaping" mark.
LEMMA MarkMove ==
    ASSUME IInv, CycleOK, camp' \in {Stamp(camp, gen), MarkReaping(camp)}
    PROVE  MoveOK
  BY MoveFacts, MarksKeepCycle, SameMove DEF CycleOK

\* A boot that settles the transaction in flight.
LEMMA BootMove ==
    ASSUME IInv, CycleOK, WaitingTx(camp), camp.status \in Live,
           ~st.stopped, camp' \in {Absorb(camp, gen), AbandonUnreachable(camp, gen)}
    PROVE  MoveOK
<1>1. \E o \in {"absorbed", "abandoned"} :
         SettlesAs(camp, camp', o) /\ camp'.status = camp.status /\ ActiveOK(camp')
  BY MoveFacts, BootSettles DEF WaitingTx
<1> QED
  BY <1>1, Zenon DEF MoveOK, CampaignMove, SettlesLive, WaitingTx

\* The sections of the workers and of a panic.
LEMMA ForeignMoves ==
    ASSUME IInv, CycleOK, ForeignAction
    PROVE  MoveOK
<1>1. ASSUME NEW w \in Workers, MarkRestart(w)
      PROVE  MoveOK
  <2>1. CASE camp' \in {camp, Stamp(camp, gen)}
    BY <2>1, StaysMove, MarkMove
  <2>2. CASE /\ WaitingTx(camp) /\ ~st.stopped /\ camp.status \in Live
             /\ camp' = Absorb(camp, gen)
    BY <2>2, BootMove
  <2> QED
    BY <1>1, <2>1, <2>2 DEF MarkRestart, WaitingTx
<1>2. ASSUME NEW w \in Workers, Reconcile(w)
      PROVE  MoveOK
  <2>1. CASE camp' \in {camp, Stamp(camp, gen)}
    BY <2>1, StaysMove, MarkMove
  <2>2. CASE /\ WaitingTx(camp) /\ ~st.stopped /\ camp.status \in Live
             /\ camp' \in {Absorb(camp, gen), AbandonUnreachable(camp, gen)}
    BY <2>2, BootMove
  <2> QED
    BY <1>2, <2>1, <2>2 DEF Reconcile
<1>3. ASSUME NEW w \in Workers, RecordReceipt(w)
      PROVE  MoveOK
  <2>1. CASE camp' = camp
    BY <2>1, StaysMove
  <2>2. CASE MayRecord(camp, st, wk[w].tx, wk[w].sha) /\ camp' = RecordCommit(camp, wk[w].sha)
    <3>1. /\ ~st.stopped /\ st.enabled /\ camp.status \in Live
          /\ camp.active.id = wk[w].tx /\ camp.active.sha \in {0, wk[w].sha}
      BY <2>2 DEF MayRecord, Authorized, Live
    <3>2. wk[w].sha \in Shas /\ wk[w].tx \in TxIds
      <4>1. wk[w].ph = "tagged"
        BY <1>3 DEF RecordReceipt
      <4> QED
        BY <4>1 DEF IInv, SystemOK, WorkersOK, Committing, Working
    <3>3. HasTx(camp)
      BY <3>1, <3>2 DEF HasTx, TxIds
    <3>4. Commits(camp, camp', wk[w].sha) /\ ActiveOK(camp')
      BY <2>2, <3>1, <3>2, <3>3, MoveFacts, RecordsCommit DEF CycleOK
    <3> QED
      BY <3>1, <3>2, <3>4, Zenon DEF MoveOK, CampaignMove
  <2> QED
    BY <1>3, <2>1, <2>2 DEF RecordReceipt, Orphan
<1>4. CASE PanicClose
  BY <1>4, StaysMove, CloseMove DEF PanicClose
<1> QED
  BY <1>1, <1>2, <1>3, <1>4 DEF ForeignAction

\* The write of the copy that apply_pending_request holds.
LEMMA WriteMove ==
    ASSUME IInv, CycleOK, ApplyWrite
    PROVE  MoveOK
<1> DEFINE linked == [snap EXCEPT !.link = sup.arg]
<1>1. sup.pc = "write"
  BY DEF ApplyWrite
<1>2. CASE camp' = camp
  BY <1>2, StaysMove
<1>3. CASE WriteAllowed(camp, linked) /\ camp' = linked
  <2>1. /\ linked.id = snap.id /\ linked.hist = snap.hist /\ linked.status = snap.status
        /\ linked.absorbed = snap.absorbed /\ linked.active = snap.active
    BY MoveFacts DEF Campaign
  <2>2. SameCycle(snap, linked) /\ ActiveOK(linked)
    BY MoveFacts, MarksKeepCycle DEF CycleOK
  <2> HIDE DEF linked
  <2>3. ~(snap.status \in Live /\ camp.status = "stopped")
    BY <1>1, <1>3, <2>1, MoveFacts DEF SnapOK, WriteAllowed, Live
  <2>4. /\ snap.id = camp.id /\ snap.hist = camp.hist /\ snap.active.id = camp.active.id
        /\ snap.status = camp.status
    BY <1>1, <2>3, MoveFacts DEF SnapOK
  <2>5. snap.absorbed = camp.absorbed
    BY <2>4, MoveFacts DEF CampaignOK, Absorbed
  <2>6. snap.active.sha \in {0, camp.active.sha}
    BY <1>1, <2>3 DEF CycleOK, CopyOK
  <2>7. Rewrites
    BY <1>1, <1>3, <2>1, <2>3, <2>4, <2>5, <2>6, Zenon DEF Rewrites
  <2> QED
    BY <1>3, <2>2, <2>7, Zenon DEF MoveOK, CampaignMove
<1> QED
  BY <1>2, <1>3 DEF ApplyWrite

\* The dispatch of a fresh cycle.
LEMMA BeginMove ==
    ASSUME IInv, CycleOK, Begin
    PROVE  MoveOK
<1>1. CASE camp' = camp
  BY <1>1, StaysMove
<1>2. CASE /\ MayBegin(camp, st, camp.id) /\ cnt.tx < MaxTx
           /\ camp' = BeginTransaction(camp, cnt.tx + 1, head)
  <2>1. cnt.tx + 1 \in TxIds /\ cnt.tx + 1 # 0
    BY <1>2, MoveFacts, BoundsAssumption DEF TxIds
  <2>2. ~st.stopped /\ ~WaitingTx(camp) /\ camp.status \in Live
    BY <1>2 DEF MayBegin, Live
  <2>3. Begins(camp, camp', cnt.tx + 1) /\ ActiveOK(camp')
    BY <1>2, <2>1, <2>2, MoveFacts, BeginsTransaction DEF CycleOK
  <2> QED
    BY <2>1, <2>2, <2>3, Zenon DEF MoveOK, CampaignMove
<1> QED
  BY <1>1, <1>2 DEF Begin

\* The terminal of a task.
LEMMA DoneMove ==
    ASSUME IInv, CycleOK, NEW t \in TxIds, TaskDone(t)
    PROVE  MoveOK
<1>1. CASE camp' = camp
  BY <1>1, StaysMove
<1>2. CASE camp.status \in Live /\ camp.active.id = t /\ camp' = AfterTask(camp)
  <2>1. HasTx(camp)
    BY <1>2 DEF HasTx, TxIds
  <2>2. /\ camp'.id = camp.id /\ camp'.status = camp.status /\ ActiveOK(camp')
        /\ \/ SettlesAs(camp, camp', "abandoned")
           \/ ~Committed(camp.active) /\ SettlesAs(camp, camp', "no_op")
           \/ SameCycle(camp, camp')
    BY <1>2, <2>1, MoveFacts, TerminalOfCycle DEF CycleOK
  <2> QED
    BY <1>2, <2>2, Zenon DEF MoveOK, CampaignMove, SettlesLive
<1> QED
  BY <1>1, <1>2 DEF TaskDone

\* The sections of the supervisor.
LEMMA SupervisorMoves ==
    ASSUME IInv, CycleOK, SupervisorAction
    PROVE  MoveOK
<1>1. ASSUME NEW w \in Workers, TimeoutReap(w)
      PROVE  MoveOK
  BY <1>1, MarkMove DEF TimeoutReap
<1>2. ASSUME NEW t \in TxIds, TaskDone(t)
      PROVE  MoveOK
  BY <1>2, DoneMove
<1>3. CASE ApplyStart \/ StartOwned
  BY <1>3, StaysMove, StartMove DEF ApplyStart, StartOwned
<1>4. CASE ApplyRead
  BY <1>4, StaysMove DEF ApplyRead, files
<1>5. CASE ApplyWrite
  BY <1>5, WriteMove
<1>6. CASE ApplyDisarm \/ CloseCampaign \/ FinishDone
  BY <1>6, StaysMove, CloseMove DEF ApplyDisarm, CloseCampaign, FinishDone, Close
<1>7. CASE TripBreaker
  BY <1>7, PauseMove DEF TripBreaker
<1>8. CASE Begin
  BY <1>8, BeginMove
<1>9. CASE CleanUp
  <2>1. CASE camp' = PersistCleanup(camp, sup.arg)
    BY <2>1, MoveFacts, CleanupKeepsCycle, SameMove DEF CycleOK
  <2> QED
    BY <1>9, <2>1, StaysMove DEF CleanUp
<1>10. CASE SafeRestart
  BY <1>10, PauseMove DEF SafeRestart, Blocked
<1> QED
  BY <1>1, <1>2, <1>3, <1>4, <1>5, <1>6, <1>7, <1>8, <1>9, <1>10 DEF SupervisorAction

\* The server goes down, or comes up.
LEMMA ServerMoves ==
    ASSUME IInv, CycleOK, ServerAction
    PROVE  MoveOK
<1>1. CASE PanicExit \/ Exit \/ Crash
  BY <1>1, StaysMove DEF PanicExit, Exit, Crash
<1>2. CASE Boot
  BY <1>2, PauseMove DEF Boot, Blocked
<1> QED
  BY <1>1, <1>2 DEF ServerAction

\* The campaign only takes the moves listed above.
LEMMA StepMoves ==
    ASSUME IInv, CycleOK, [Next]_vars
    PROVE  MoveOK
<1>1. CASE UNCHANGED vars
  BY <1>1, StaysMove DEF vars
<1>2. CASE Next
  <2>1. QuietAction => MoveOK
    BY QuietSteps, StaysMove DEF Quiet
  <2> QED
    BY <1>2, <2>1, ActionGroups, ForeignMoves, SupervisorMoves, ServerMoves
<1> QED
  BY <1>1, <1>2

\* Where the copy of the campaign comes from, and what a step does while the
\* supervisor holds it.
LEMMA CopySteps ==
    ASSUME IInv, [Next]_vars
    PROVE  /\ snap' \in {snap, camp, NoCampaign}
           /\ sup'.pc = "write" =>
                \/ (snap' = camp /\ camp' = camp)
                \/ (snap' = snap /\ sup' = sup)
<1>1. CASE UNCHANGED vars
  BY <1>1 DEF vars
<1>2. CASE QuietAction
  BY <1>2, QuietSteps DEF Quiet
<1>3. CASE ForeignAction
  BY <1>3 DEF ForeignAction, MarkRestart, Reconcile, RecordReceipt, PanicClose, UnchangedInWorker
<1>4. CASE ServerAction
  <2>1. CASE PanicExit \/ Exit \/ Crash
    <3>1. snap' = NoCampaign /\ sup' = AtLoop
      BY <2>1 DEF PanicExit, Exit, Crash, Down
    <3>2. sup'.pc = "loop"
      BY <3>1 DEF AtLoop
    <3> QED
      BY <3>1, <3>2
  <2>2. CASE Boot
    BY <2>2 DEF Boot
  <2> QED
    BY <1>4, <2>1, <2>2 DEF ServerAction
<1>5. CASE SupervisorAction
  <2>1. CASE ApplyRead
    BY <2>1 DEF ApplyRead, files, Goto
  <2>2. CASE ApplyWrite
    BY <2>2 DEF ApplyWrite, Goto
  <2>3. CASE ApplyStart \/ ApplyDisarm \/ CleanUp \/ FinishDone \/ CloseCampaign \/ StartOwned
    BY <2>3 DEF ApplyStart, ApplyDisarm, CleanUp, FinishDone, CloseCampaign, StartOwned,
       Goto, Return, AtLoop
  <2>4. CASE SafeRestart
    <3>1. [AtLoop EXCEPT !.pc = "exit"].pc = "exit"
      BY DEF AtLoop
    <3> QED
      BY <2>4, <3>1 DEF SafeRestart, Return, AtLoop
  <2>5. CASE TripBreaker \/ Begin
    BY <2>5 DEF TripBreaker, Begin, proc, Goto
  <2>6. ASSUME NEW w \in Workers, TimeoutReap(w)
        PROVE  snap' = snap /\ sup' = sup
    BY <2>6 DEF TimeoutReap
  <2>7. ASSUME NEW t \in TxIds, TaskDone(t)
        PROVE  snap' = snap /\ sup'.pc # "write"
    BY <2>7 DEF TaskDone, Goto
  <2> QED
    BY <1>5, <2>1, <2>2, <2>3, <2>4, <2>5, <2>6, <2>7 DEF SupervisorAction
<1> QED
  BY <1>1, <1>2, <1>3, <1>4, <1>5, ActionGroups

\* While the supervisor holds its copy, nothing happens to the cycle but its
\* commit, unless the campaign is closed.
LEMMA HeldCopy ==
    ASSUME IInv, CycleOK, [Next]_vars, sup'.pc = "write"
    PROVE  \/ snap' = camp /\ camp' = camp
           \/ snap'.status \in Live /\ camp'.status = "stopped"
           \/ /\ sup.pc = "write" /\ snap' = snap /\ snap.status = camp.status
              /\ \/ camp'.active.sha = camp.active.sha
                 \/ camp'.active.sha = snap.active.sha
                 \/ st.enabled /\ \E s \in Shas : Commits(camp, camp', s)
<1> SUFFICES ASSUME snap' = snap, sup' = sup, ~(snap'.status \in Live /\ camp'.status = "stopped")
             PROVE  /\ sup.pc = "write" /\ snap.status = camp.status
                    /\ \/ camp'.active.sha = camp.active.sha
                       \/ camp'.active.sha = snap.active.sha
                       \/ st.enabled /\ \E s \in Shas : Commits(camp, camp', s)
  BY CopySteps
<1>1. SnapOK /\ SnapOK' /\ StepOK /\ sup.pc = "write"
  BY NextStep DEF IInv
<1>2. camp'.id = camp.id
  BY <1>1 DEF SnapOK
<1>3. ~(snap.status \in Live /\ camp.status = "stopped")
  BY <1>1, <1>2 DEF StepOK, KeepsClosed
<1>4. /\ snap.status = camp.status /\ snap.status = camp'.status
      /\ snap.active.id = camp.active.id /\ snap.active.id = camp'.active.id
  BY <1>1, <1>3 DEF SnapOK
<1>5. camp.id \in Nat /\ camp.active.id \in Nat /\ camp.active.id <= cnt.tx /\ cnt.tx \in Nat
  BY MoveFacts, CampaignFields, BoundsAssumption DEF CampaignOK
<1>6. CampaignMove
  BY StepMoves DEF MoveOK
<1>7. ~Founds(camp, camp') /\ ~Closes(camp, camp')
  BY <1>2, <1>4, <1>5 DEF Founds, Closes
<1>8. ~Begins(camp, camp', cnt.tx + 1)
  BY <1>4, <1>5 DEF Begins
<1>9. \A o : ~SettlesLive(o)
  BY <1>4, <1>5 DEF SettlesLive, SettlesAs, HasTx
<1>10. \/ SameCycle(camp, camp') \/ Rewrites
       \/ st.enabled /\ \E s \in Shas : Commits(camp, camp', s)
  BY <1>6, <1>7, <1>8, <1>9, Zenon DEF CampaignMove
<1>11. SameCycle(camp, camp') => camp'.active.sha = camp.active.sha
  BY DEF SameCycle
<1>12. Rewrites => camp'.active.sha = snap.active.sha
  BY DEF Rewrites
<1> QED
  BY <1>1, <1>4, <1>10, <1>11, <1>12

\* What is known of the cycle and of the copy is kept.
LEMMA CycleOKStep ==
    ASSUME IInv, CycleOK, [Next]_vars
    PROVE  CycleOK'
<1>1. ActiveOK(camp)'
  BY StepMoves DEF MoveOK
<1>2. ActiveOK(snap)'
  <2>1. snap' \in {snap, camp, NoCampaign}
    BY CopySteps
  <2> QED
    BY <2>1, EmptyActive, Zenon DEF CycleOK, ActiveOK
<1>3. CopyOK'
  <2>1. SUFFICES ASSUME sup'.pc = "write", ~(snap'.status \in Live /\ camp'.status = "stopped")
                 PROVE  snap'.active.sha \in {0, camp'.active.sha}
    BY DEF CopyOK
  <2>2. CASE snap' = camp /\ camp' = camp
    BY <2>2
  <2>3. CASE /\ sup.pc = "write" /\ snap' = snap /\ snap.status = camp.status
             /\ \/ camp'.active.sha = camp.active.sha
                \/ camp'.active.sha = snap.active.sha
                \/ \E s \in Shas : Commits(camp, camp', s)
    <3>1. snap.active.sha \in {0, camp.active.sha}
      BY <2>3 DEF CycleOK, CopyOK, Live
    <3>2. ASSUME NEW s \in Shas, Commits(camp, camp', s)
          PROVE  camp.active.sha \in {0, s} /\ camp'.active.sha = s
      BY <3>2 DEF Commits
    <3> QED
      BY <2>3, <3>1, <3>2
  <2> QED
    BY <2>1, <2>2, <2>3, HeldCopy
<1> QED
  BY <1>1, <1>2, <1>3 DEF CycleOK

\* Nothing is in flight at first.
LEMMA InitCycleOK ==
    Init => CycleOK
<1> SUFFICES ASSUME Init PROVE CycleOK
  OBVIOUS
<1>1. camp = NoCampaign /\ snap = NoCampaign /\ sup.pc = "loop"
  BY DEF Init, AtLoop
<1>2. ActiveOK(camp) /\ ActiveOK(snap)
  BY <1>1, EmptyActive
<1>3. CopyOK
  BY <1>1 DEF CopyOK
<1> QED
  BY <1>2, <1>3 DEF CycleOK

\* A campaign that is not live has nothing in flight, one that waits has its
\* commit, and the copy misses at most that commit.
THEOREM CycleInvariant ==
    Spec => [](IInv /\ CycleOK)
<1>1. IInv /\ CycleOK /\ [Next]_vars => IInv' /\ CycleOK'
  BY NextStep, CycleOKStep
<1> QED
  BY InitIInv, InitCycleOK, <1>1, PTL DEF Spec

\* The moves of every step of a behaviour.
LEMMA MovesOK ==
    Spec => [][IInv /\ CycleOK /\ MoveOK]_vars
<1>1. IInv /\ CycleOK /\ [Next]_vars => IInv /\ CycleOK /\ MoveOK
  BY StepMoves
<1> QED
  BY CycleInvariant, <1>1, PTL DEF Spec

\* What a move adds to the history: at most the transaction in flight.
LEMMA MoveArchives ==
    ASSUME CampaignMove, NEW x \in NewlyArchived
    PROVE  /\ x.id = camp.active.id /\ x.sha = camp.active.sha
           /\ \/ /\ camp'.active.id = 0
                 /\ x.outcome = "no_op" => ~Committed(camp.active)
              \/ ~Committed(camp.active)
<1>1. x \in camp'.hist /\ \A y \in camp.hist : y.id # x.id
  BY DEF NewlyArchived
<1>2. ~SameCycle(camp, camp')
  <2>1. SUFFICES ASSUME Settled(camp') = Settled(camp) PROVE FALSE
    BY DEF SameCycle
  <2>2. PICK y \in camp.hist : Summary(y) = Summary(x)
    BY <1>1, <2>1 DEF Settled
  <2>3. y.id = x.id
    BY <2>2 DEF Summary
  <2> QED
    BY <1>1, <2>3
<1>3. ~Founds(camp, camp') /\ ~Rewrites /\ \A s : ~Commits(camp, camp', s)
  BY <1>1 DEF Founds, Rewrites, Commits
<1>4. ASSUME NEW o, SettlesAs(camp, camp', o)
      PROVE  /\ x.id = camp.active.id /\ x.sha = camp.active.sha /\ x.outcome = o
             /\ camp'.active.id = 0
  BY <1>1, <1>4 DEF SettlesAs
<1>5. ASSUME NEW t, Begins(camp, camp', t)
      PROVE  x.id = camp.active.id /\ x.sha = camp.active.sha /\ ~Committed(camp.active)
  BY <1>1, <1>5 DEF Begins
<1>6. CASE SettlesLive("absorbed") \/ SettlesLive("abandoned")
  <2>1. \E o : SettlesAs(camp, camp', o) /\ o # "no_op"
    BY <1>6 DEF SettlesLive
  <2> QED
    BY <1>4, <2>1
<1>7. CASE ~Committed(camp.active) /\ SettlesLive("no_op")
  BY <1>4, <1>7 DEF SettlesLive
<1>8. CASE Closes(camp, camp')
  <2>1. \E o : SettlesAs(camp, camp', o) /\ o # "no_op"
    BY <1>1, <1>8 DEF Closes
  <2> QED
    BY <1>4, <2>1
<1> QED
  BY <1>2, <1>3, <1>5, <1>6, <1>7, <1>8, Zenon DEF CampaignMove

\* While the owner's stop stands, a move of the campaign takes its transaction
\* off or leaves it as it is.
LEMMA MoveFrozen ==
    ASSUME IInv, CampaignMove, st.stopped, camp'.id = camp.id
    PROVE  /\ camp'.absorbed = camp.absorbed
           /\ camp'.active.id \in {camp.active.id, 0}
           /\ camp'.active.sha \in {camp.active.sha, 0}
<1>1. camp.id \in Nat
  BY MoveFacts, CampaignFields, BoundsAssumption
<1>2. ~Founds(camp, camp')
  BY <1>1 DEF Founds
<1>3. CASE SameCycle(camp, camp')
  BY <1>3 DEF SameCycle
<1>4. CASE Rewrites
  BY <1>4 DEF Rewrites
<1>5. CASE \E o : SettlesAs(camp, camp', o) /\ o # "absorbed"
  BY <1>5 DEF SettlesAs
<1>6. CASE SettlesLive("abandoned") \/ SettlesLive("no_op")
  <2>1. \E o : SettlesAs(camp, camp', o) /\ o # "absorbed"
    BY <1>6 DEF SettlesLive
  <2> QED
    BY <1>5, <2>1
<1>7. CASE Closes(camp, camp')
  <2>1. CASE /\ camp'.absorbed = camp.absorbed
             /\ camp'.active.id = 0 /\ camp'.active.sha = 0
    BY <2>1
  <2>2. CASE \E o : SettlesAs(camp, camp', o) /\ o # "absorbed"
    BY <1>5, <2>2
  <2> QED
    BY <1>7, <2>1, <2>2 DEF Closes
<1> QED
  BY <1>2, <1>3, <1>4, <1>6, <1>7, Zenon DEF CampaignMove

\* A committed cycle is never archived as a no-op, and never makes room for the
\* next one.
THEOREM CommittedKept ==
    Spec => CommittedNotSuperseded
<1>1. MoveOK => \A x \in NewlyArchived :
                   Committed(x) => x.outcome # "no_op" /\ camp'.active.id = 0
  BY MoveArchives DEF MoveOK, Committed
<1> QED
  BY MovesOK, <1>1, PTL DEF CommittedNotSuperseded

\* From an owner stop to the owner's next start the campaign absorbs nothing,
\* begins no cycle and takes no receipt.
THEOREM StopFreezes ==
    Spec => StopFreezesCampaign
<1>1. IInv /\ MoveOK =>
        (st.stopped /\ st'.stopped /\ camp'.id = camp.id =>
           /\ camp'.absorbed = camp.absorbed
           /\ camp'.active.id \in {camp.active.id, 0}
           /\ camp'.active.sha \in {camp.active.sha, 0})
  BY MoveFrozen DEF MoveOK
<1> QED
  BY MovesOK, <1>1, PTL DEF StopFreezesCampaign

-----------------------------------------------------------------------------
(* The refinement: the moves of the campaign are steps of CampaignCycle, as *)
(* long as no flag is raised behind a promotion that holds its copy.        *)

\* The campaign is not enabled while apply_pending_request holds its copy.
FlagOff == sup.pc = "write" => ~st.enabled

\* The copy has the commit of the cycle too.
ExactCopy ==
    sup.pc = "write" =>
        \/ snap.status \in Live /\ camp.status = "stopped"
        \/ snap.active.sha = camp.active.sha

\* Without a flag no receipt is recorded behind the copy.
LEMMA ExactStep ==
    ASSUME IInv, CycleOK, ExactCopy, FlagOff, [Next]_vars
    PROVE  ExactCopy'
<1>1. SUFFICES ASSUME sup'.pc = "write", ~(snap'.status \in Live /\ camp'.status = "stopped")
               PROVE  snap'.active.sha = camp'.active.sha
  BY DEF ExactCopy
<1>2. CASE snap' = camp /\ camp' = camp
  BY <1>2
<1>3. CASE /\ sup.pc = "write" /\ snap' = snap /\ snap.status = camp.status
           /\ \/ camp'.active.sha = camp.active.sha
              \/ camp'.active.sha = snap.active.sha
              \/ st.enabled
  BY <1>3 DEF ExactCopy, FlagOff, Live
<1> QED
  BY <1>1, <1>2, <1>3, HeldCopy

\* A move that keeps the cycle is a stutter.
LEMMA SameStutters ==
    ASSUME camp'.id = camp.id, camp'.status \in Live <=> camp.status \in Live,
           camp'.active.id = camp.active.id, camp'.active.sha = camp.active.sha,
           Settled(camp') = Settled(camp)
    PROVE  UNCHANGED Cycle!cycleVars
<1>1. (camp.status \in Live)' = (camp.status \in Live)
  OBVIOUS
<1> QED
  BY <1>1 DEF Cycle!cycleVars, Settled, Summary

\* A transaction that is settled while the campaign goes on.
LEMMA SettleRefines ==
    ASSUME NEW o, SettlesLive(o)
    PROVE  /\ Cycle!Running /\ Cycle!Settle(o)
           /\ UNCHANGED <<camp.id, camp.status \in Live>>
<1>1. Settled(camp') = Settled(camp) \cup
         {[id |-> camp.active.id, sha |-> camp.active.sha, outcome |-> o]}
  BY SettlesSummary DEF SettlesLive
<1>2. camp'.active.id = 0 /\ camp'.active.sha = 0 /\ camp'.id = camp.id /\ HasTx(camp)
  BY DEF SettlesLive, SettlesAs
<1>3. Cycle!Settle(o)
  BY <1>1, <1>2 DEF Cycle!Settle, Cycle!As, Cycle!None, Settled, Summary
<1>4. Cycle!Running
  BY <1>2 DEF Cycle!Running, SettlesLive, HasTx
<1>5. (camp.status \in Live)' = (camp.status \in Live)
  BY DEF SettlesLive
<1> QED
  BY <1>2, <1>3, <1>4, <1>5

\* A new campaign.
LEMMA FoundRefines ==
    ASSUME Founds(camp, camp')
    PROVE  Cycle!Found
<1>1. (camp.status \in Live)' = TRUE /\ ~(camp.status \in Live)
  BY DEF Founds
<1>2. camp'.id = camp.id + 1 /\ camp'.active.id = 0 /\ camp'.active.sha = 0 /\ camp'.hist = {}
  BY DEF Founds
<1> QED
  BY <1>1, <1>2 DEF Cycle!Found, Cycle!None

\* A receipt: the first one commits the cycle, the same one again says nothing.
LEMMA CommitRefines ==
    ASSUME NEW s \in Shas, Commits(camp, camp', s)
    PROVE  Cycle!Commit(s) \/ UNCHANGED Cycle!cycleVars
<1>1. /\ camp'.id = camp.id /\ camp'.hist = camp.hist /\ camp'.active.id = camp.active.id
      /\ camp'.active.sha = s /\ camp.active.sha \in {0, s} /\ camp.active.id # 0
      /\ camp.status \in Live /\ camp'.status \in Live
  BY DEF Commits, HasTx
<1>2. (camp.status \in Live)' = (camp.status \in Live)
  BY <1>1
<1>3. CASE camp.active.sha = s
  BY <1>1, <1>3, SameStutters DEF Settled
<1>4. CASE camp.active.sha = 0
  BY <1>1, <1>2, <1>4 DEF Cycle!Commit, Cycle!IsOpen, Cycle!Running
<1> QED
  BY <1>1, <1>3, <1>4

\* A fresh cycle.
LEMMA BeginRefines ==
    ASSUME IInv, CycleOK, NEW t \in TxIds, t = cnt.tx + 1, Begins(camp, camp', t)
    PROVE  Cycle!Begin(t)
<1>1. /\ camp'.id = camp.id /\ camp'.active.id = t /\ camp'.active.sha = 0
      /\ camp.status \in Live /\ camp'.status \in Live
      /\ HasTx(camp) => camp.active.sha = 0
  BY DEF Begins, Committed
<1>2. (camp.status \in Live)' = (camp.status \in Live)
  BY <1>1
<1>3. /\ cnt.tx \in Nat /\ camp.active.id \in Nat /\ camp.active.id <= cnt.tx
      /\ \A x \in camp.hist : x.id \in Nat /\ x.id <= cnt.tx
  BY MoveFacts, CampaignFields, TransactionFields, BoundsAssumption DEF CampaignOK
<1>4. t # camp.active.id /\ \A x \in camp.hist : x.id # t
  BY <1>3
<1>5. ~HasTx(camp) => camp'.hist = camp.hist
  BY DEF Begins
<1>6. HasTx(camp) =>
        Settled(camp') = Settled(camp) \cup
          {[id |-> camp.active.id, sha |-> camp.active.sha, outcome |-> "abandoned"]}
  <2>1. SUFFICES ASSUME HasTx(camp)
                 PROVE  Settled(camp') = Settled(camp) \cup
                    {[id |-> camp.active.id, sha |-> camp.active.sha, outcome |-> "abandoned"]}
    OBVIOUS
  <2>2. PICK y \in Transaction : /\ camp'.hist = camp.hist \cup {y} /\ y.outcome = "abandoned"
                                /\ y.id = camp.active.id /\ y.sha = camp.active.sha
    BY <2>1 DEF Begins
  <2>3. Summary(y) = [id |-> camp.active.id, sha |-> camp.active.sha, outcome |-> "abandoned"]
    BY <2>2 DEF Summary
  <2>4. Settled(camp') = Settled(camp) \cup {Summary(y)}
    BY <2>2 DEF Settled
  <2> QED
    BY <2>3, <2>4
<1>7. Cycle!IsOpen <=> HasTx(camp)
  BY <1>1 DEF Cycle!IsOpen, Cycle!Running, HasTx
<1>8. ~Cycle!IsWaiting
  BY <1>1 DEF Cycle!IsWaiting, Cycle!Running, HasTx
<1>9. Settled(camp') = Settled(camp) \cup
                         (IF Cycle!IsOpen THEN {Cycle!As("abandoned")} ELSE {})
  BY <1>5, <1>6, <1>7 DEF Cycle!As, Settled
<1> QED
  BY <1>1, <1>2, <1>4, <1>8, <1>9 DEF Cycle!Begin, Settled, Summary

\* A close of the campaign.
LEMMA CloseRefines ==
    ASSUME CycleOK, Closes(camp, camp')
    PROVE  Cycle!Close
<1>1. (camp.status \in Live)' = FALSE /\ (camp.status \in Live) = TRUE
  BY DEF Closes
<1>2. camp'.id = camp.id
  BY DEF Closes, SettlesAs
<1>3. ASSUME NEW o, SettlesAs(camp, camp', o)
      PROVE  Cycle!Running /\ Cycle!Settle(o)
  <2>1. Settled(camp') = Settled(camp) \cup
           {[id |-> camp.active.id, sha |-> camp.active.sha, outcome |-> o]}
    BY <1>3, SettlesSummary
  <2>2. camp'.active.id = 0 /\ camp'.active.sha = 0 /\ HasTx(camp)
    BY <1>3 DEF SettlesAs
  <2>3. Cycle!Settle(o)
    BY <2>1, <2>2 DEF Cycle!Settle, Cycle!As, Cycle!None, Settled, Summary
  <2> QED
    BY <1>1, <2>2, <2>3 DEF Cycle!Running, HasTx
<1>4. CASE SettlesAs(camp, camp', "owner_stopped")
  BY <1>1, <1>2, <1>3, <1>4 DEF Cycle!Close
<1>5. CASE Committed(camp.active) /\ SettlesAs(camp, camp', "waiting_for_restart")
  <2>1. Cycle!IsWaiting
    BY <1>3, <1>5 DEF Cycle!IsWaiting, Committed
  <2> QED
    BY <1>1, <1>2, <1>3, <1>5, <2>1 DEF Cycle!Close
<1>6. CASE /\ ~HasTx(camp) /\ camp'.hist = camp.hist
           /\ camp'.active.id = 0 /\ camp'.active.sha = 0 /\ camp.active.sha = 0
  BY <1>1, <1>2, <1>6 DEF Cycle!Close, HasTx
<1>7. camp.active.id = 0 => camp.active.sha = 0
  BY Zenon DEF CycleOK, ActiveOK, Pending
<1> QED
  BY <1>4, <1>5, <1>6, <1>7 DEF Closes, HasTx

\* The write of a copy that lacks the commit recorded since it was read: the
\* cycle is open again, and nothing else is different.
Forgets ==
    /\ sup.pc = "write" /\ snap.active.sha # camp.active.sha
    /\ camp.status \in Live /\ Committed(camp.active)
    /\ camp'.status \in Live /\ camp'.id = camp.id /\ camp'.hist = camp.hist
    /\ camp'.active.id = camp.active.id /\ ~Committed(camp'.active)

\* Every move is a step of the abstract cycle, leaves it alone or forgets its
\* commit.
LEMMA MoveRefines ==
    ASSUME IInv, CycleOK, CampaignMove
    PROVE  [Cycle!Cycle_Next]_(Cycle!cycleVars) \/ Forgets
<1> USE DEF Cycle!Cycle_Next
<1>1. CASE SameCycle(camp, camp')
  BY <1>1, SameStutters DEF SameCycle
<1>2. CASE Founds(camp, camp')
  BY <1>2, FoundRefines
<1>3. ASSUME NEW s \in Shas, Commits(camp, camp', s)
      PROVE  [Cycle!Cycle_Next]_(Cycle!cycleVars)
  BY <1>3, CommitRefines
<1>4. CASE cnt.tx + 1 \in TxIds /\ Begins(camp, camp', cnt.tx + 1)
  BY <1>4, BeginRefines
<1>5. ASSUME Committed(camp.active), SettlesLive("absorbed")
      PROVE  Cycle!Absorb
  BY <1>5, SettleRefines DEF Cycle!Absorb, Cycle!IsWaiting, Committed
<1>6. ASSUME SettlesLive("abandoned")
      PROVE  Cycle!Abandon
  BY <1>6, SettleRefines DEF Cycle!Abandon
<1>7. ASSUME ~Committed(camp.active), SettlesLive("no_op")
      PROVE  Cycle!NoOp
  BY <1>7, SettleRefines DEF Cycle!NoOp, Cycle!IsOpen, Committed
<1>8. CASE Closes(camp, camp')
  BY <1>8, CloseRefines
<1>9. CASE Rewrites
  <2>1. CASE camp'.active.sha = camp.active.sha
    BY <1>9, <2>1, SameStutters DEF Rewrites, Settled
  <2>2. CASE camp'.active.sha # camp.active.sha
    <3>1. camp.active.sha # 0 /\ camp'.active.sha = 0
      BY <1>9, <2>2 DEF Rewrites
    <3>2. camp.status \in Live /\ camp'.status \in Live
      BY <1>9, <3>1 DEF Rewrites, CycleOK, ActiveOK, Pending
    <3> QED
      BY <1>9, <3>1, <3>2 DEF Rewrites, Forgets, Committed
  <2> QED
    BY <2>1, <2>2
<1> QED
  BY <1>1, <1>2, <1>3, <1>4, <1>5, <1>6, <1>7, <1>8, <1>9 DEF CampaignMove

\* The first campaign file has no cycle.
LEMMA InitCycle ==
    Init => Cycle!Cycle_Init /\ ExactCopy
<1> SUFFICES ASSUME Init PROVE Cycle!Cycle_Init /\ ExactCopy
  OBVIOUS
<1>1. camp = NoCampaign /\ sup.pc = "loop"
  BY DEF Init, AtLoop
<1>2. /\ camp.id = 0 /\ camp.hist = {} /\ camp.active = NoTx /\ camp.status = "none"
  BY <1>1 DEF NoCampaign
<1>3. camp.active.id = 0 /\ camp.active.sha = 0
  BY <1>2, EmptyActive, Zenon
<1>4. (camp.status \in Live) = FALSE
  BY <1>2 DEF Live
<1>5. Cycle!Cycle_Init
  BY <1>2, <1>3, <1>4 DEF Cycle!Cycle_Init, Cycle!None
<1> QED
  BY <1>1, <1>5 DEF ExactCopy

\* The campaign file implements the abstract cycle, as long as the enable flag
\* is never raised while a promotion holds its copy of the file.
THEOREM ImplementsCycleGuarded ==
    Spec /\ []FlagOff => ImplementsCycle
<1>1. IInv /\ CycleOK /\ ExactCopy /\ FlagOff /\ [Next]_vars => ExactCopy'
  BY ExactStep
<1>2. IInv /\ CycleOK /\ ExactCopy /\ [Next]_vars => [Cycle!Cycle_Next]_(Cycle!cycleVars)
  <2>1. SUFFICES ASSUME IInv, CycleOK, ExactCopy, [Next]_vars
                 PROVE  [Cycle!Cycle_Next]_(Cycle!cycleVars)
    OBVIOUS
  <2>2. CASE Forgets
    <3>1. camp.status # "stopped" /\ snap.active.sha = camp.active.sha
      BY <2>1, <2>2 DEF Forgets, ExactCopy, Live
    <3> QED
      BY <2>2, <3>1 DEF Forgets
  <2> QED
    BY <2>1, <2>2, StepMoves, MoveRefines DEF MoveOK
<1>3. Spec /\ []FlagOff => Cycle!Cycle_Init /\ [][Cycle!Cycle_Next]_(Cycle!cycleVars)
  BY CycleInvariant, InitCycle, <1>1, <1>2, PTL DEF Spec
<1> QED
  BY <1>3 DEF ImplementsCycle, Cycle!Cycle_Spec

\* Without any condition: the campaign file takes the steps of the abstract
\* cycle, whatever dies, crashes, is stopped, restarted or rolled back, except
\* that the unlocked write of apply_pending_request may undo a commit receipt,
\* and that is all it may undo.
THEOREM ImplementsCycleOrForgets ==
    Spec => Cycle!Cycle_Init /\ [][Cycle!Cycle_Next \/ Forgets]_(Cycle!cycleVars)
<1>1. IInv /\ CycleOK /\ [Next]_vars => [Cycle!Cycle_Next \/ Forgets]_(Cycle!cycleVars)
  BY StepMoves, MoveRefines DEF MoveOK
<1> QED
  BY CycleInvariant, InitCycle, <1>1, PTL DEF Spec

-----------------------------------------------------------------------------
(* The owner's stop: which steps write the flags of state.json.             *)

\* A step that leaves the flags alone, or turns evolution off.
Lowers == st' = st \/ st'.enabled = FALSE

\* The steps that write the flags, each as it leaves them.
LEMMA FlagSteps ==
    ASSUME st \in State, sup \in SupervisorSlot, [Next]_vars
    PROVE  \/ Lowers
           \/ ~st.stopped \/ st.enabled
           \/ sup.pc = "enabling"
           \/ old.set /\ st' = old.st /\ old' = NoOld
<1> SUFFICES ASSUME st.stopped, ~st.enabled, sup.pc # "enabling"
             PROVE  Lowers \/ (old.set /\ st' = old.st /\ old' = NoOld)
  OBVIOUS
<1> USE DEF UnchangedInWorker, files, repo, proc, Lowers
<1> DEFINE off(read) == [read EXCEPT !.enabled = FALSE]
<1>1. \A read \in State : off(read).enabled = FALSE
  BY DEF State
<1>2. UNCHANGED vars => st' = st
  BY DEF vars
<1>3. ASSUME NEW w \in Workers, Worker(w)
      PROVE  st' = st
  BY <1>3 DEF Worker, BootObserve, VerifyRename, VerifyMiss, MarkRestart, Reconcile,
     Authorize, MakeCommit, PreTag, RecordReceipt, CheckPublication, Push, RequestRestart,
     FinishTask
<1>4. CASE Concurrent
  BY <1>4 DEF Concurrent, OtherCommits, OtherRequestsRestart, OtherEnds, RollbackLoads,
     RollbackSaves
<1>5. CASE Continue
  <2>1. CASE \/ ApplyStart \/ ApplyRead \/ ApplyWrite \/ ApplyDone \/ ApplyDisarm \/ QueueTask
             \/ CleanUp \/ RequestOwnRestart \/ StopTasks \/ CloseCampaign \/ StartOwned
    BY <2>1 DEF ApplyStart, ApplyRead, ApplyWrite, ApplyDone, ApplyDisarm, QueueTask, CleanUp,
       RequestOwnRestart, StopTasks, CloseCampaign, StartOwned
  <2>2. CASE ApplyArm
    BY <2>2 DEF ApplyArm
  <2>3. CASE FinishDone
    BY <2>3 DEF FinishDone, Settle, State
  <2>4. CASE SetFlags
    BY <2>4 DEF SetFlags, State
  <2>5. CASE SafeRestart
    BY <1>1, <2>5 DEF SafeRestart, Blocked, SupervisorSlot
  <2> QED
    BY <1>5, <2>1, <2>2, <2>3, <2>4, <2>5 DEF Continue
<1>6. CASE Loop
  <2>1. ASSUME NEW w \in Workers, \/ RespawnDead(w) \/ TimeoutReap(w)
                                  \/ \E t \in TxIds : Assign(w, t)
        PROVE  st' = st
    BY <2>1 DEF RespawnDead, TimeoutReap, Assign
  <2>2. ASSUME NEW t \in TxIds, TaskDone(t)
        PROVE  st' = st
    BY <2>2 DEF TaskDone
  <2>3. CASE \/ DrainDone \/ OtherStarts \/ ApplyDrop \/ ApplyTake
             \/ \E kind \in {"restart", "restart_evolution"} : HandleRestart(kind)
    BY <2>3 DEF DrainDone, OtherStarts, ApplyDrop, ApplyTake, HandleRestart
  <2>4. CASE DisableBareFlag \/ TripBreaker \/ Begin
    BY <2>4 DEF DisableBareFlag, TripBreaker, Begin, Disable, State
  <2> QED
    BY <1>6, <2>1, <2>2, <2>3, <2>4 DEF Loop
<1>7. ASSUME NEW t \in TxIds, ReaperKill(t)
      PROVE  st' = st
  BY <1>7 DEF ReaperKill
<1>8. CASE OwnerStop \/ OwnerStart \/ Panic
  BY <1>8 DEF OwnerStop, OwnerStart, Panic, Flags, State
<1>9. CASE PanicClose \/ PanicExit \/ Exit \/ Failures
  BY <1>9 DEF PanicClose, PanicExit, Exit, Failures, Crash, WorkerDies
<1>10. CASE Boot
  BY <1>1, <1>10 DEF Boot, Blocked
<1> QED
  BY <1>2, <1>3, <1>4, <1>5, <1>6, <1>7, <1>8, <1>9, <1>10 DEF Next

\* No promotion, terminal, restart or boot overrules the owner's stop or a panic,
\* in any order and number of commands: _activate_one_shot looks at the flag
\* again under the lock, and what a blocked restart writes back is disabled.
THEOREM StopStands ==
    Spec => StopNotOverruled
<1>1. IInv /\ [Next]_vars =>
        (st.stopped /\ ~st.enabled /\ st'.enabled =>
            sup.pc = "enabling" \/ (old.set /\ ~old'.set /\ old.st.enabled))
  <2>1. SUFFICES ASSUME IInv, [Next]_vars, st.stopped, ~st.enabled, st'.enabled
                 PROVE  sup.pc = "enabling" \/ (old.set /\ ~old'.set /\ old.st.enabled)
    OBVIOUS
  <2>2. st \in State /\ sup \in SupervisorSlot
    BY <2>1 DEF IInv, SystemOK, SystemTypes
  <2>3. ~Lowers
    BY <2>1 DEF Lowers
  <2>4. ~NoOld.set
    BY DEF NoOld
  <2> QED
    BY <2>1, <2>2, <2>3, <2>4, FlagSteps
<1> QED
  BY Invariant, <1>1, PTL DEF StopNotOverruled, Spec

-----------------------------------------------------------------------------
(* The workers: how a slot comes by its task and its commit.                *)

\* What a step does to a worker slot: nothing, it takes it from its task, gives
\* it one, or takes the task one stage further.
SlotMove(w) ==
    \/ wk'[w] = wk[w]
    \/ wk'[w].ph \notin Working
    \/ /\ wk'[w].ph = "work" /\ \E t \in TxIds : wk'[w].tx = t /\ Assign(w, t)
    \/ /\ wk[w].ph \in Working /\ wk'[w].tx = wk[w].tx
       /\ \/ wk'[w].ph \notin Committing
          \/ wk'[w].ph = "made" /\ MakeCommit(w)
          \/ /\ wk[w].ph \in Committing /\ wk'[w].sha = wk[w].sha
             /\ \/ wk'[w].ph \notin Receipted
                \/ wk[w].ph \in Receipted
                \/ RecordReceipt(w) /\ camp' = RecordCommit(camp, wk[w].sha)

\* The names of the phases.
LEMMA PhaseNames ==
    /\ \A ph \in {"work", "ready"} : ph \in Working /\ ph \notin Committing
    /\ \A ph \in {"made", "tagged"} : ph \in Working /\ ph \in Committing /\ ph \notin Receipted
    /\ \A ph \in {"recorded", "cleared", "pushed"} : ph \in Working /\ ph \in Committing
    /\ \A ph \in Receipted : ph \in Committing
    /\ \A ph \in Committing : ph \in Working
    /\ \A ph \in {"boot", "verify", "claimed", "reconcile", "idle", "dead"} :
          ph \notin Working /\ ph \notin Committing
  BY DEF Working, Committing, Receipted

\* The phases of the slots of the model.
LEMMA SlotPhases ==
    /\ Idle.ph \notin Working /\ Dead.ph \notin Working /\ Booting.ph \notin Working
    /\ \A c : [Idle EXCEPT !.claim = c].ph = "idle"
    /\ \A c : [Idle EXCEPT !.ph = "verify", !.obs = c].ph = "verify"
    /\ \A c : [Dead EXCEPT !.tx = c].ph = "dead"
  BY SlotTypes, PhaseNames DEF Idle, Dead, Booting

\* The steps of a worker, on its own slot.
LEMMA WorkerSlotMoves ==
    ASSUME IInv, NEW w \in Workers, Worker(w)
    PROVE  SlotMove(w)
<1>0. wk \in [Workers -> WorkerSlot] /\ wk[w] \in WorkerSlot
  BY MoveFacts
<1> USE PhaseNames, SlotPhases
<1>1. CASE BootObserve(w)
  <2>1. wk'[w].ph = "verify"
    BY <1>0, <1>1 DEF BootObserve
  <2> QED
    BY <2>1 DEF SlotMove
<1>2. CASE VerifyRename(w)
  <2>1. wk'[w].ph = "claimed"
    BY <1>0, <1>2 DEF VerifyRename, WorkerSlot
  <2> QED
    BY <2>1 DEF SlotMove
<1>3. CASE VerifyMiss(w)
  <2>1. wk'[w].ph \in {"claimed", "reconcile"} \/ wk'[w] = Idle
    BY <1>0, <1>3 DEF VerifyMiss, WorkerSlot
  <2> QED
    BY <2>1 DEF SlotMove
<1>4. CASE MarkRestart(w)
  <2> DEFINE kept == [Idle EXCEPT !.claim = wk[w].claim]
  <2>1. kept.ph = "idle"
    OBVIOUS
  <2> HIDE DEF kept
  <2>2. wk' = [wk EXCEPT ![w] = Idle] \/ wk' = [wk EXCEPT ![w] = kept]
    BY <1>4 DEF MarkRestart, Unlink, Restore, kept
  <2>3. wk'[w] \in {Idle, kept}
    BY <1>0, <2>2
  <2> QED
    BY <2>1, <2>3 DEF SlotMove
<1>5. CASE Reconcile(w)
  <2>1. wk'[w] = Idle
    BY <1>0, <1>5 DEF Reconcile
  <2> QED
    BY <2>1 DEF SlotMove
<1>6. CASE Authorize(w)
  <2>1. wk[w].ph = "work" /\ wk'[w].ph = "ready" /\ wk'[w].tx = wk[w].tx
    BY <1>0, <1>6 DEF Authorize, WorkerSlot
  <2> QED
    BY <2>1 DEF SlotMove
<1>7. CASE MakeCommit(w)
  <2>1. wk[w].ph = "ready" /\ wk'[w].ph = "made" /\ wk'[w].tx = wk[w].tx
    BY <1>0, <1>7 DEF MakeCommit, WorkerSlot
  <2> QED
    BY <1>7, <2>1 DEF SlotMove
<1>8. ASSUME wk[w].ph \in Committing, Orphan(w)
      PROVE  SlotMove(w)
  <2>1. wk'[w].ph = "work" /\ wk'[w].tx = wk[w].tx
    BY <1>0, <1>8 DEF Orphan, WorkerSlot
  <2> QED
    BY <1>8, <2>1 DEF SlotMove
<1>9. ASSUME NEW ph \in {"tagged", "recorded", "cleared", "pushed"}, wk[w].ph \in Committing,
             wk' = [wk EXCEPT ![w].ph = ph],
             \/ ph = "tagged" \/ wk[w].ph \in Receipted
             \/ RecordReceipt(w) /\ camp' = RecordCommit(camp, wk[w].sha)
      PROVE  SlotMove(w)
  <2>1. wk'[w].ph = ph /\ wk'[w].tx = wk[w].tx /\ wk'[w].sha = wk[w].sha
    BY <1>0, <1>9 DEF WorkerSlot
  <2> QED
    BY <1>9, <2>1 DEF SlotMove
<1>10. CASE PreTag(w)
  BY <1>8, <1>9, <1>10 DEF PreTag
<1>11. CASE RecordReceipt(w)
  BY <1>8, <1>9, <1>11 DEF RecordReceipt
<1>12. CASE CheckPublication(w)
  BY <1>8, <1>9, <1>12 DEF CheckPublication, Receipted
<1>13. CASE Push(w)
  BY <1>9, <1>13 DEF Push, Receipted
<1>14. CASE RequestRestart(w)
  <2>1. wk[w].ph = "pushed" /\ wk'[w].ph = "pushed" /\ wk'[w].tx = wk[w].tx /\ wk'[w].sha = wk[w].sha
    BY <1>0, <1>14 DEF RequestRestart, WorkerSlot
  <2> QED
    BY <2>1 DEF SlotMove, Receipted
<1>15. CASE FinishTask(w)
  <2>1. wk'[w].ph = "idle"
    BY <1>0, <1>15 DEF FinishTask
  <2> QED
    BY <2>1 DEF SlotMove
<1> QED
  BY <1>1, <1>2, <1>3, <1>4, <1>5, <1>6, <1>7, <1>10, <1>11, <1>12, <1>13, <1>14, <1>15
     DEF Worker

\* The steps of a worker leave the other slots alone.
LEMMA OtherSlots ==
    ASSUME IInv, NEW v \in Workers, NEW w \in Workers, v # w,
           \/ Worker(v) \/ RespawnDead(v) \/ TimeoutReap(v) \/ WorkerDies(v)
           \/ \E t \in TxIds : Assign(v, t)
    PROVE  wk'[w] = wk[w]
<1>0. wk \in [Workers -> WorkerSlot]
  BY MoveFacts
<1>1. CASE \/ BootObserve(v) \/ VerifyRename(v) \/ VerifyMiss(v) \/ Reconcile(v)
           \/ Authorize(v) \/ MakeCommit(v) \/ Push(v) \/ RequestRestart(v) \/ FinishTask(v)
  BY <1>0, <1>1 DEF BootObserve, VerifyRename, VerifyMiss, Reconcile, Authorize, MakeCommit,
     Push, RequestRestart, FinishTask
<1>2. CASE MarkRestart(v)
  BY <1>0, <1>2 DEF MarkRestart, Unlink, Restore
<1>3. CASE PreTag(v) \/ RecordReceipt(v) \/ CheckPublication(v)
  BY <1>0, <1>3 DEF PreTag, RecordReceipt, CheckPublication, Orphan
<1>4. CASE \/ RespawnDead(v) \/ TimeoutReap(v) \/ WorkerDies(v)
           \/ \E t \in TxIds : Assign(v, t)
  BY <1>0, <1>4 DEF RespawnDead, TimeoutReap, WorkerDies, Assign
<1> QED
  BY <1>1, <1>2, <1>3, <1>4 DEF Worker

\* The steps of the pool on a slot of its own.
LEMMA PoolSlotMoves ==
    ASSUME IInv, NEW w \in Workers,
           \/ RespawnDead(w) \/ TimeoutReap(w) \/ WorkerDies(w)
           \/ \E t \in TxIds : Assign(w, t)
    PROVE  SlotMove(w)
<1>0. wk \in [Workers -> WorkerSlot] /\ wk[w] \in WorkerSlot
  BY MoveFacts
<1>1. CASE RespawnDead(w)
  <2>1. wk'[w] = Booting
    BY <1>0, <1>1 DEF RespawnDead
  <2> QED
    BY <2>1, SlotPhases DEF SlotMove
<1>2. CASE TimeoutReap(w)
  BY <1>2 DEF TimeoutReap, SlotMove
<1>3. CASE WorkerDies(w)
  <2>1. wk'[w].ph = "dead"
    BY <1>0, <1>3, SlotPhases DEF WorkerDies
  <2> QED
    BY <2>1, PhaseNames DEF SlotMove
<1>4. ASSUME NEW t \in TxIds, Assign(w, t)
      PROVE  SlotMove(w)
  <2>1. CASE wk' = wk
    BY <2>1 DEF SlotMove
  <2>2. CASE wk' = [wk EXCEPT ![w].ph = "work", ![w].tx = t]
    <3>1. wk'[w].ph = "work" /\ wk'[w].tx = t
      BY <1>0, <2>2 DEF WorkerSlot
    <3> QED
      BY <1>4, <3>1 DEF SlotMove
  <2> QED
    BY <1>4, <2>1, <2>2 DEF Assign
<1> QED
  BY <1>1, <1>2, <1>3, <1>4

\* Every step moves every slot in one of these ways.
LEMMA SlotMoves ==
    ASSUME IInv, [Next]_vars, NEW w \in Workers
    PROVE  SlotMove(w)
<1>0. wk \in [Workers -> WorkerSlot] /\ Booting.ph \notin Working /\ Dead.ph \notin Working
  BY MoveFacts, SlotPhases
<1>1. ASSUME wk' = wk \/ wk'[w] \in {wk[w], Booting, Dead}
      PROVE  SlotMove(w)
  BY <1>0, <1>1 DEF SlotMove
<1>2. ASSUME NEW v \in Workers, Worker(v)
      PROVE  SlotMove(w)
  BY <1>1, <1>2, WorkerSlotMoves, OtherSlots
<1>3. ASSUME NEW v \in Workers, \/ RespawnDead(v) \/ TimeoutReap(v) \/ WorkerDies(v)
                               \/ \E t \in TxIds : Assign(v, t)
      PROVE  SlotMove(w)
  BY <1>1, <1>3, PoolSlotMoves, OtherSlots
<1>4. CASE Concurrent
  BY <1>1, <1>4 DEF Concurrent, OtherCommits, OtherRequestsRestart, OtherEnds, RollbackLoads,
     RollbackSaves, proc
<1>5. ASSUME NEW t \in TxIds, ReaperKill(t) \/ TaskDone(t)
      PROVE  SlotMove(w)
  <2>1. CASE TaskDone(t)
    BY <1>1, <2>1 DEF TaskDone
  <2>2. CASE ReaperKill(t)
    <3>1. \/ wk' = wk
          \/ \E v \in Workers : wk' = [wk EXCEPT ![v] = Booting]
      BY <2>2 DEF ReaperKill
    <3> QED
      BY <1>0, <1>1, <3>1
  <2> QED
    BY <1>5, <2>1, <2>2
<1>6. CASE StopTasks
  <2>1. \E hit : wk' = [u \in Workers |-> IF u \in hit THEN Booting ELSE wk[u]]
    BY <1>6 DEF StopTasks
  <2> QED
    BY <1>1, <2>1
<1>7. CASE SafeRestart
  BY <1>1, <1>7 DEF SafeRestart
<1>8. CASE \/ ApplyStart \/ ApplyRead \/ ApplyWrite \/ ApplyArm \/ ApplyDone \/ ApplyDisarm
           \/ QueueTask \/ CleanUp \/ RequestOwnRestart \/ FinishDone \/ CloseCampaign
           \/ StartOwned \/ SetFlags
  BY <1>1, <1>8 DEF ApplyStart, ApplyRead, ApplyWrite, ApplyArm, ApplyDone, ApplyDisarm,
     QueueTask, CleanUp, RequestOwnRestart, FinishDone, CloseCampaign, StartOwned, SetFlags
<1>9. CASE \/ DrainDone \/ OtherStarts \/ ApplyDrop \/ ApplyTake
           \/ DisableBareFlag \/ TripBreaker \/ Begin
           \/ \E kind \in {"restart", "restart_evolution"} : HandleRestart(kind)
  BY <1>1, <1>9 DEF DrainDone, OtherStarts, ApplyDrop, ApplyTake, DisableBareFlag, TripBreaker,
     Begin, HandleRestart, proc
<1>10. CASE \/ OwnerStop \/ OwnerStart \/ Panic \/ PanicClose
  BY <1>1, <1>10 DEF OwnerStop, OwnerStart, Panic, PanicClose
<1>11. CASE \/ PanicExit \/ Exit \/ Crash \/ Boot
  BY <1>1, <1>11 DEF PanicExit, Exit, Crash, Down, Boot
<1>12. CASE UNCHANGED vars
  BY <1>1, <1>12 DEF vars
<1>13. CASE Continue
  BY <1>6, <1>7, <1>8, <1>13 DEF Continue
<1>14. CASE Loop
  BY <1>3, <1>5, <1>9, <1>14 DEF Loop
<1>15. CASE Failures
  BY <1>3, <1>11, <1>15 DEF Failures
<1>16. CASE Next
  BY <1>2, <1>4, <1>5, <1>10, <1>11, <1>13, <1>14, <1>15, <1>16 DEF Next
<1> QED
  BY <1>12, <1>16

-----------------------------------------------------------------------------
(* Receipts: a commit is made once, by one worker, in one campaign, and the *)
(* campaign keeps the cycle that it was recorded for.                       *)

\* Who made which commit.
MadeOK ==
    /\ \A s \in Shas :
         /\ s > cnt.sha => made[s].tx = 0
         /\ made[s].camp <= camp.id
    /\ \A w \in Workers :
         wk[w].ph \in Committing =>
            /\ wk[w].sha <= cnt.sha
            /\ made[wk[w].sha].tx = wk[w].tx

\* A step makes no commit, or the next one.
Makes(t) ==
    /\ cnt.sha < MaxSha /\ cnt'.sha = cnt.sha + 1 /\ camp' = camp
    /\ made' = [made EXCEPT ![cnt.sha + 1] = [gen |-> gen, tx |-> t, camp |-> camp.id]]

MakesNone == made' = made /\ cnt'.sha = cnt.sha

LEMMA MakeSteps ==
    ASSUME IInv, [Next]_vars
    PROVE  MakesNone \/ \E t \in 0..MaxTx : Makes(t)
<1> USE DEF UnchangedInWorker, files, repo, proc, Tick, Counters
<1>0. cnt \in Counters /\ wk \in [Workers -> WorkerSlot] /\ (0 \in 0..MaxTx)
  BY MoveFacts, BoundsAssumption
<1>1. ASSUME made' = made, cnt' = cnt
      PROVE  MakesNone
  BY <1>1 DEF MakesNone
<1>2. ASSUME made' = made,
             \E f \in {"tx", "req", "owner", "panic", "crash", "reap", "other", "stale"} : Tick(f)
      PROVE  MakesNone
  BY <1>0, <1>2 DEF MakesNone
<1>3. CASE UNCHANGED vars
  BY <1>1, <1>3 DEF vars
<1>4. ASSUME NEW w \in Workers, MakeCommit(w)
      PROVE  \E t \in 0..MaxTx : Makes(t)
  <2>1. wk[w].tx \in 0..MaxTx
    BY <1>0 DEF WorkerSlot
  <2>2. cnt'.sha = cnt.sha + 1
    BY <1>0, <1>4 DEF MakeCommit
  <2>3. Makes(wk[w].tx)
    BY <1>4, <2>2 DEF MakeCommit, Makes
  <2> QED
    BY <2>1, <2>3
<1>5. CASE OtherCommits
  <2>1. cnt'.sha = cnt.sha + 1
    BY <1>0, <1>5 DEF OtherCommits
  <2>2. Makes(0)
    BY <1>5, <2>1 DEF OtherCommits, Makes
  <2> QED
    BY <1>0, <2>2
<1>6. ASSUME NEW w \in Workers, Worker(w), ~MakeCommit(w)
      PROVE  MakesNone
  BY <1>1, <1>6 DEF Worker, BootObserve, VerifyRename, VerifyMiss, MarkRestart, Reconcile,
     Authorize, PreTag, RecordReceipt, CheckPublication, Push, RequestRestart, FinishTask, Orphan
<1>7. CASE OtherRequestsRestart \/ OtherEnds \/ RollbackLoads \/ RollbackSaves
  BY <1>1, <1>2, <1>7 DEF OtherRequestsRestart, OtherEnds, RollbackLoads, RollbackSaves
<1>8. CASE Continue
  BY <1>1, <1>8 DEF Continue, ApplyStart, ApplyRead, ApplyWrite, ApplyArm, ApplyDone, ApplyDisarm,
     QueueTask, CleanUp, RequestOwnRestart, FinishDone, StopTasks, CloseCampaign, StartOwned,
     SetFlags, SafeRestart
<1>9. ASSUME NEW w \in Workers, \/ RespawnDead(w) \/ TimeoutReap(w) \/ WorkerDies(w)
                               \/ \E t \in TxIds : Assign(w, t)
      PROVE  MakesNone
  BY <1>1, <1>2, <1>9 DEF RespawnDead, TimeoutReap, WorkerDies, Assign
<1>10. ASSUME NEW t \in TxIds, ReaperKill(t) \/ TaskDone(t)
       PROVE  MakesNone
  BY <1>1, <1>10 DEF ReaperKill, TaskDone
<1>11. CASE \/ DrainDone \/ OtherStarts \/ ApplyDrop \/ ApplyTake
            \/ DisableBareFlag \/ TripBreaker \/ Begin
            \/ \E kind \in {"restart", "restart_evolution"} : HandleRestart(kind)
  BY <1>1, <1>2, <1>11 DEF DrainDone, OtherStarts, ApplyDrop, ApplyTake, DisableBareFlag,
     TripBreaker, Begin, HandleRestart
<1>12. CASE \/ OwnerStop \/ OwnerStart \/ Panic \/ PanicClose \/ PanicExit \/ Exit \/ Crash \/ Boot
  BY <1>1, <1>2, <1>12 DEF OwnerStop, OwnerStart, Panic, PanicClose, PanicExit, Exit, Crash, Boot
<1>13. CASE Concurrent
  BY <1>5, <1>7, <1>13 DEF Concurrent
<1>14. CASE Loop
  BY <1>9, <1>10, <1>11, <1>14 DEF Loop
<1>15. CASE Failures
  BY <1>9, <1>12, <1>15 DEF Failures
<1>16. CASE Next
  BY <1>4, <1>6, <1>8, <1>10, <1>12, <1>13, <1>14, <1>15, <1>16 DEF Next
<1> QED
  BY <1>3, <1>16

\* The worker that makes a commit makes the next one, for its own task.
LEMMA MakerOfCommit ==
    ASSUME IInv, NEW w \in Workers, MakeCommit(w)
    PROVE  /\ wk'[w].sha = cnt.sha + 1 /\ wk'[w].tx = wk[w].tx /\ cnt.sha + 1 \in Shas
           /\ made'[cnt.sha + 1].tx = wk[w].tx /\ cnt'.sha = cnt.sha + 1
<1>1. /\ wk \in [Workers -> WorkerSlot] /\ cnt \in Counters /\ made \in [Shas -> Origins]
      /\ cnt.sha \in 0..MaxSha
  BY DEF IInv, SystemOK, SystemTypes, Counters
<1>2. cnt.sha + 1 \in Shas
  BY <1>1, BoundsAssumption DEF MakeCommit, Shas
<1>3. wk'[w].sha = cnt.sha + 1 /\ wk'[w].tx = wk[w].tx
  BY <1>1 DEF MakeCommit, WorkerSlot
<1>4. made'[cnt.sha + 1].tx = wk[w].tx
  BY <1>1, <1>2 DEF MakeCommit
<1>5. cnt'.sha = cnt.sha + 1
  BY <1>1 DEF MakeCommit, Tick, Counters
<1> QED
  BY <1>2, <1>3, <1>4, <1>5

\* The campaign number never falls.
LEMMA NumberGrows ==
    ASSUME CampaignMove
    PROVE  camp'.id \in {camp.id, camp.id + 1}
  BY DEF CampaignMove, SameCycle, Founds, Commits, Begins, Closes, SettlesLive, SettlesAs, Rewrites

\* MadeOK is inductive.
LEMMA MadeOKStep ==
    ASSUME IInv, CycleOK, MadeOK, [Next]_vars
    PROVE  MadeOK'
<1>1. /\ made \in [Shas -> Origins] /\ cnt.sha \in 0..MaxSha /\ camp.id \in 0..MaxCamp
      /\ wk \in [Workers -> WorkerSlot]
      /\ \A w \in Workers : wk[w].ph \in Committing => wk[w].sha \in Shas
  BY MoveFacts, CampaignFields DEF IInv, SystemOK, SystemTypes, Counters, WorkersOK
<1>2. camp'.id \in {camp.id, camp.id + 1}
  BY StepMoves, NumberGrows DEF MoveOK
<1>3. \A s \in Shas : made[s].camp \in Nat /\ s \in Nat
  BY <1>1, BoundsAssumption DEF Origins, Shas
<1>4. /\ cnt'.sha \in Nat /\ cnt'.sha >= cnt.sha
      /\ \A s \in Shas :
           /\ s <= cnt.sha => made'[s] = made[s]
           /\ s > cnt'.sha => made'[s].tx = 0
           /\ made'[s].camp <= camp'.id
  <2>1. CASE MakesNone
    BY <1>1, <1>2, <1>3, <2>1, BoundsAssumption DEF MakesNone, MadeOK
  <2>2. ASSUME NEW t \in 0..MaxTx, Makes(t)
        PROVE  <1>4
    <3>1. cnt.sha + 1 \in Shas
      BY <1>1, <2>2, BoundsAssumption DEF Makes, Shas
    <3>2. \A s \in Shas : s # cnt.sha + 1 => made'[s] = made[s]
      BY <1>1, <2>2 DEF Makes
    <3>3. made'[cnt.sha + 1].camp = camp.id /\ camp' = camp
      BY <1>1, <2>2, <3>1 DEF Makes
    <3> QED
      BY <1>1, <1>3, <2>2, <3>1, <3>2, <3>3, BoundsAssumption DEF Makes, MadeOK
  <2> QED
    BY <2>1, <2>2, MakeSteps
<1>5. ASSUME NEW w \in Workers, wk'[w].ph \in Committing
      PROVE  /\ wk'[w].sha <= cnt'.sha
             /\ made'[wk'[w].sha].tx = wk'[w].tx
  <2>1. CASE wk[w].ph \in Committing /\ wk'[w].sha = wk[w].sha /\ wk'[w].tx = wk[w].tx
    <3>1. wk[w].sha \in Shas /\ wk[w].sha <= cnt.sha /\ made[wk[w].sha].tx = wk[w].tx
      BY <1>1, <2>1 DEF MadeOK
    <3>2. made'[wk[w].sha] = made[wk[w].sha]
      BY <1>4, <3>1
    <3>3. wk[w].sha <= cnt'.sha
      BY <1>1, <1>3, <1>4, <3>1
    <3> QED
      BY <2>1, <3>1, <3>2, <3>3
  <2>2. CASE MakeCommit(w)
    BY <1>4, <2>2, MakerOfCommit
  <2>3. wk'[w].ph \in Working /\ wk'[w].ph # "work"
    BY <1>5, PhaseNames
  <2> QED
    BY <1>5, <2>1, <2>2, <2>3, SlotMoves DEF SlotMove
<1> QED
  BY <1>4, <1>5 DEF MadeOK

\* At the start nothing was made.
LEMMA InitMade ==
    Init => MadeOK
<1> SUFFICES ASSUME Init
             PROVE  MadeOK
  OBVIOUS
<1>1. made = [s \in Shas |-> [gen |-> 0, tx |-> 0, camp |-> 0]]
  BY Zenon DEF Init
<1>2. camp.id = 0
  BY Zenon DEF Init, NoCampaign
<1>3. wk = [w \in Workers |-> Booting]
  BY Zenon DEF Init
<1> QED
  BY <1>1, <1>2, <1>3, SlotPhases, PhaseNames DEF MadeOK

\* A campaign keeps every cycle it knows of together with its commit, unless a
\* copy without that commit is written back.
LEMMA KeepsCommitted ==
    ASSUME CampaignMove, camp \in Campaign, ExactCopy, camp'.id = camp.id,
           NEW x \in Cycles, x.id # 0, x.sha # 0
    PROVE  \E y \in Cycles' : y.id = x.id /\ y.sha = x.sha
<1>1. camp.id # camp.id + 1
  BY CampaignFields, BoundsAssumption
<1>2. ASSUME camp'.active.id = x.id, camp'.active.sha = x.sha
      PROVE  \E y \in Cycles' : y.id = x.id /\ y.sha = x.sha
  <2>1. camp'.active \in Cycles'
    BY <1>2 DEF Cycles, HasTx
  <2> QED
    BY <1>2, <2>1
<1>3. ASSUME NEW o, SettlesAs(camp, camp', o)
      PROVE  \E y \in Cycles' : y.id = x.id /\ y.sha = x.sha
  BY <1>3 DEF SettlesAs, Cycles, HasTx
<1>4. CASE SameCycle(camp, camp')
  <2>1. CASE x \in camp.hist
    <3>1. Summary(x) \in Settled(camp')
      BY <1>4, <2>1 DEF SameCycle, Settled
    <3>2. PICK y \in camp'.hist : Summary(y) = Summary(x)
      BY <3>1 DEF Settled
    <3> QED
      BY <3>2 DEF Cycles, Summary
  <2>2. CASE x = camp.active
    BY <1>2, <1>4, <2>2 DEF SameCycle
  <2> QED
    BY <2>1, <2>2 DEF Cycles
<1>5. ASSUME NEW s, Commits(camp, camp', s)
      PROVE  \E y \in Cycles' : y.id = x.id /\ y.sha = x.sha
  BY <1>2, <1>5 DEF Commits, Cycles
<1>6. ASSUME NEW t, Begins(camp, camp', t)
      PROVE  \E y \in Cycles' : y.id = x.id /\ y.sha = x.sha
  <2>1. x \in camp.hist
    BY <1>6 DEF Begins, Cycles, Committed
  <2>2. camp.hist \subseteq camp'.hist
    BY <1>6 DEF Begins
  <2> QED
    BY <2>1, <2>2 DEF Cycles
<1>7. CASE Closes(camp, camp')
  BY <1>3, <1>7 DEF Closes, Cycles
<1>8. CASE Rewrites
  <2>1. camp'.active.sha = camp.active.sha
    BY <1>8 DEF Rewrites, ExactCopy
  <2> QED
    BY <1>2, <1>8, <2>1 DEF Rewrites, Cycles
<1> QED
  BY <1>1, <1>3, <1>4, <1>5, <1>6, <1>7, <1>8 DEF CampaignMove, Founds, SettlesLive

\* Where a worker past its receipt comes from.
LEMMA ReceiptMoves ==
    ASSUME IInv, [Next]_vars, NEW w \in Workers, wk'[w].ph \in Receipted
    PROVE  \/ /\ wk[w].ph \in Receipted
              /\ wk'[w].tx = wk[w].tx /\ wk'[w].sha = wk[w].sha
           \/ /\ wk'[w].tx = wk[w].tx /\ wk'[w].sha = wk[w].sha
              /\ MayRecord(camp, st, wk[w].tx, wk[w].sha)
              /\ camp' = RecordCommit(camp, wk[w].sha)
              /\ wk[w].ph = "tagged" /\ made' = made
<1>1. ASSUME RecordReceipt(w)
      PROVE  /\ MayRecord(camp, st, wk[w].tx, wk[w].sha) /\ made' = made
             /\ wk[w].ph = "tagged"
  <2>1. ~Orphan(w)
    <3>1. wk \in [Workers -> WorkerSlot]
      BY MoveFacts
    <3> QED
      BY <3>1 DEF Orphan, WorkerSlot, Receipted
  <2> QED
    BY <1>1, <2>1 DEF RecordReceipt, repo
<1> QED
  BY <1>1, SlotMoves, PhaseNames DEF SlotMove, Receipted

\* ReceiptSurvives is inductive while no copy without a commit is written back.
LEMMA ReceiptStep ==
    ASSUME IInv, CycleOK, MadeOK, ExactCopy, ReceiptSurvives, [Next]_vars
    PROVE  ReceiptSurvives'
<1>1. SUFFICES ASSUME NEW w \in Workers, wk'[w].ph \in Receipted,
                      made'[wk'[w].sha].camp = camp'.id
               PROVE  \E y \in Cycles' : y.id = wk'[w].tx /\ y.sha = wk'[w].sha
  BY DEF ReceiptSurvives
<1>2. CASE /\ wk[w].ph \in Receipted
           /\ wk'[w].tx = wk[w].tx /\ wk'[w].sha = wk[w].sha
  <2>1. /\ wk[w].sha \in Shas /\ wk[w].sha <= cnt.sha /\ wk[w].tx \in TxIds
        /\ made[wk[w].sha].camp <= camp.id
    BY <1>2, PhaseNames DEF MadeOK, IInv, SystemOK, WorkersOK
  <2>2. /\ made \in [Shas -> Origins] /\ cnt.sha \in 0..MaxSha /\ camp.id \in 0..MaxCamp
        /\ camp \in Campaign
    BY MoveFacts, CampaignFields DEF IInv, SystemOK, SystemTypes, Counters
  <2>3. made'[wk[w].sha] = made[wk[w].sha]
    <3>1. ASSUME NEW t, Makes(t)
          PROVE  made'[wk[w].sha] = made[wk[w].sha]
      BY <2>1, <2>2, <3>1, BoundsAssumption DEF Makes, Shas
    <3> QED
      BY <3>1, MakeSteps DEF MakesNone
  <2>4. camp'.id = camp.id
    <3>1. made[wk[w].sha].camp \in Nat
      BY <2>1, <2>2, BoundsAssumption DEF Origins
    <3> QED
      BY <1>1, <1>2, <2>1, <2>2, <2>3, <3>1, StepMoves, NumberGrows DEF MoveOK
  <2>5. PICK x \in Cycles : x.id = wk[w].tx /\ x.sha = wk[w].sha
    BY <1>1, <1>2, <2>3, <2>4 DEF ReceiptSurvives
  <2>6. x.id # 0 /\ x.sha # 0
    BY <2>1, <2>5 DEF TxIds, Shas
  <2> QED
    BY <1>2, <2>2, <2>4, <2>5, <2>6, StepMoves, KeepsCommitted DEF MoveOK
<1>3. CASE /\ wk'[w].tx = wk[w].tx /\ wk'[w].sha = wk[w].sha /\ wk[w].ph = "tagged"
           /\ MayRecord(camp, st, wk[w].tx, wk[w].sha)
           /\ camp' = RecordCommit(camp, wk[w].sha)
  <2>1. wk[w].tx \in TxIds
    BY <1>3 DEF IInv, SystemOK, WorkersOK, Working
  <2>2. camp.active.id = wk[w].tx
    BY <1>3 DEF MayRecord, Authorized
  <2>3. camp'.active.id = camp.active.id /\ camp'.active.sha = wk[w].sha
    BY <1>3, MoveFacts DEF RecordCommit, Campaign, Transaction
  <2>4. camp'.active \in Cycles'
    BY <2>1, <2>2, <2>3 DEF Cycles, HasTx, TxIds
  <2> QED
    BY <1>3, <2>2, <2>3, <2>4
<1> QED
  BY <1>1, <1>2, <1>3, ReceiptMoves

\* At the start no worker has a receipt and no copy is held.
LEMMA InitReceipts ==
    Init => ReceiptSurvives /\ ExactCopy
<1> SUFFICES ASSUME Init
             PROVE  ReceiptSurvives /\ ExactCopy
  OBVIOUS
<1>1. wk = [w \in Workers |-> Booting] /\ sup = AtLoop
  BY Zenon DEF Init
<1>2. AtLoop.pc = "loop"
  BY DEF AtLoop
<1> QED
  BY <1>1, <1>2, SlotPhases, PhaseNames DEF ReceiptSurvives, ExactCopy

\* The invariant of the receipts, while the promotion that holds a copy of the
\* campaign finds evolution disabled.
LEMMA ReceiptInvariant ==
    Spec /\ []FlagOff => [](IInv /\ MadeOK /\ ReceiptSurvives)
<1>1. IInv /\ CycleOK /\ ExactCopy /\ FlagOff /\ [Next]_vars => ExactCopy'
  BY ExactStep
<1>2. IInv /\ CycleOK /\ MadeOK /\ [Next]_vars => MadeOK'
  BY MadeOKStep
<1>3. IInv /\ CycleOK /\ MadeOK /\ ExactCopy /\ ReceiptSurvives /\ [Next]_vars => ReceiptSurvives'
  BY ReceiptStep
<1> QED
  BY CycleInvariant, InitMade, InitReceipts, <1>1, <1>2, <1>3, PTL DEF Spec

\* Whatever the sections of the campaign file interleave, a worker past its
\* receipt (record_evolution_commit) finds it in the campaign until it ends,
\* unless a stale rollback save enables evolution behind a promotion.
THEOREM ReceiptsSurviveGuarded ==
    Spec /\ []FlagOff => []ReceiptSurvives
  BY ReceiptInvariant, PTL

-----------------------------------------------------------------------------
(* Executions: at most one worker executes a cycle, and a cycle that is     *)
(* executed is neither waiting in the queue nor ended.                      *)

\* w executes a cycle, or died executing one and was not replaced yet
Holds(w) == wk[w].ph \in Working \/ (wk[w].ph = "dead" /\ wk[w].tx # 0)

\* nothing knows of t yet
Fresh(t) == q[t] = "none" /\ ~Ended(t) /\ \A w \in Workers : Holds(w) => wk[w].tx # t

\* What a step keeps of the executions.
ExecOK ==
    /\ \A v, w \in Workers : Holds(v) /\ Holds(w) /\ wk[v].tx = wk[w].tx => v = w
    /\ \A w \in Workers :
         /\ ~Holds(w) => wk[w].tx = 0
         /\ Holds(w) => wk[w].tx \in TxIds /\ q[wk[w].tx] # "pending"
         /\ wk[w].ph \in Working => q[wk[w].tx] # "none" /\ ~Ended(wk[w].tx)
         /\ Holds(w) /\ q[wk[w].tx] = "running" => ~Ended(wk[w].tx)
    /\ \A t \in TxIds : /\ Ended(t) => q[t] # "pending"
                        /\ t > cnt.tx => Fresh(t)
    /\ sup.pc = "queueing" => sup.arg \in TxIds /\ sup.arg = cnt.tx /\ Fresh(sup.arg)

\* holders of a cycle only let go of it
HoldMove ==
    \A w \in Workers :
       /\ Holds(w)' => /\ Holds(w) /\ wk'[w].tx = wk[w].tx
                       /\ wk'[w].ph \in Working => wk[w].ph \in Working
       /\ ~Holds(w)' => wk'[w].tx = 0

\* t leaves the queue, is being reaped, or is queued again
QueueMove(t) ==
    \/ q'[t] = q[t]
    \/ /\ q[t] # "none"
       /\ \/ /\ q'[t] = "none"
             /\ \A w \in Workers : wk'[w].ph \in Working => wk'[w].tx # t
          \/ q'[t] \in Reaping /\ q[t] = "running"
          \/ /\ q'[t] = "pending" /\ ~Ended(t)'
             /\ \A w \in Workers : Holds(w)' => wk'[w].tx # t

\* t ends only when it is not queued and not executed
EndMove(t) ==
    Ended(t)' => \/ Ended(t)
                 \/ /\ q[t] # "none" /\ q'[t] # "pending"
                    /\ \A w \in Workers : wk'[w].ph \in Working => wk'[w].tx # t
                    /\ \A w \in Workers : Holds(w)' /\ wk'[w].tx = t => q'[t] # "running"

ExecMove == /\ HoldMove /\ \A t \in TxIds : QueueMove(t) /\ EndMove(t)
            /\ cnt'.tx = cnt.tx
            /\ sup'.pc = "queueing" => sup.pc = "queueing" /\ sup'.arg = sup.arg

\* A step that starts no execution keeps ExecOK.
LEMMA ExecKeeps ==
    ASSUME ExecOK, ExecMove
    PROVE  ExecOK'
<1>0. \A w \in Workers : wk[w].ph \in Working => Holds(w)
  BY DEF Holds
<1>1. \A v, w \in Workers : Holds(v)' /\ Holds(w)' /\ wk'[v].tx = wk'[w].tx => v = w
  BY DEF ExecMove, HoldMove, ExecOK
<1>2. ASSUME NEW w \in Workers, Holds(w)'
      PROVE  /\ wk'[w].tx \in TxIds /\ q'[wk'[w].tx] # "pending"
             /\ wk'[w].ph \in Working => q'[wk'[w].tx] # "none" /\ (~Ended(wk[w].tx))'
             /\ q'[wk'[w].tx] = "running" => (~Ended(wk[w].tx))'
  <2>1. /\ Holds(w) /\ wk'[w].tx = wk[w].tx /\ wk[w].tx \in TxIds
        /\ wk'[w].ph \in Working => wk[w].ph \in Working
    BY <1>2 DEF ExecMove, HoldMove, ExecOK
  <2>2. QueueMove(wk[w].tx) /\ EndMove(wk[w].tx)
    BY <2>1 DEF ExecMove
  <2>3. q'[wk[w].tx] # "pending"
    BY <1>2, <2>1, <2>2 DEF ExecOK, QueueMove, Reaping
  <2>4. wk'[w].ph \in Working => q'[wk[w].tx] # "none" /\ ~Ended(wk[w].tx)'
    BY <1>2, <2>1, <2>2 DEF ExecOK, QueueMove, EndMove, Reaping
  <2>5. q'[wk[w].tx] = "running" => q[wk[w].tx] = "running"
    BY <2>2 DEF QueueMove, Reaping
  <2>6. q'[wk[w].tx] = "running" => ~Ended(wk[w].tx)'
    BY <1>2, <2>1, <2>2, <2>5 DEF ExecOK, EndMove
  <2> QED
    BY <2>1, <2>3, <2>4, <2>6
<1>3. ASSUME NEW t \in TxIds, Ended(t)'
      PROVE  q'[t] # "pending"
  <2>1. QueueMove(t) /\ EndMove(t)
    BY DEF ExecMove
  <2> QED
    BY <1>3, <2>1 DEF ExecOK, QueueMove, EndMove, Reaping
<1>4. ASSUME NEW t \in TxIds, Fresh(t)
      PROVE  Fresh(t)'
  <2>1. q[t] = "none" /\ ~Ended(t) /\ QueueMove(t) /\ EndMove(t)
    BY <1>4 DEF ExecMove, Fresh
  <2>2. q'[t] = "none" /\ ~Ended(t)'
    BY <2>1 DEF QueueMove, EndMove
  <2> QED
    BY <1>4, <2>2 DEF Fresh, ExecMove, HoldMove
<1>5. (sup.pc = "queueing" => sup.arg \in TxIds /\ sup.arg = cnt.tx /\ Fresh(sup.arg))'
  BY <1>4 DEF ExecMove, ExecOK, Fresh, Holds, Ended
<1>6. \A t \in TxIds : t > cnt'.tx => Fresh(t)'
  BY <1>4 DEF ExecMove, ExecOK
<1>7. \A w \in Workers : wk'[w].ph \in Working => Holds(w)'
  BY DEF Holds
<1>8. \A w \in Workers : ~Holds(w)' => wk'[w].tx = 0
  BY DEF ExecMove, HoldMove
<1> QED
  BY <1>1, <1>2, <1>3, <1>5, <1>6, <1>7, <1>8 DEF ExecOK

\* Steps that leave the workers and the queue alone and end nothing.
LEMMA ExecCalm ==
    ASSUME ExecOK, wk' = wk, q' = q, cnt'.tx = cnt.tx,
           sup' = sup \/ sup'.pc \notin {"queueing", "effects", "finish"},
           \A t \in TxIds : [kind |-> "done", tx |-> t] \in evq' =>
                               [kind |-> "done", tx |-> t] \in evq
    PROVE  ExecOK'
<1>1. HoldMove
  BY DEF HoldMove, Holds, ExecOK
<1>2. \A t \in TxIds : QueueMove(t) /\ EndMove(t)
  BY DEF QueueMove, EndMove, Ended
<1>3. ExecMove
  BY <1>1, <1>2 DEF ExecMove
<1> QED
  BY <1>3, ExecKeeps

\* A step of a worker, on its own slot, takes it to no other cycle.
LEMMA WorkerHolds ==
    ASSUME IInv, ExecOK, NEW w \in Workers, Worker(w)
    PROVE  HoldMove
<1>0. wk \in [Workers -> WorkerSlot] /\ wk[w] \in WorkerSlot
  BY MoveFacts
<1>1. wk[w].ph \notin {"idle", "dead"}
  BY DEF Worker, BootObserve, VerifyRename, VerifyMiss, MarkRestart, Reconcile, Authorize,
     MakeCommit, PreTag, RecordReceipt, CheckPublication, Push, RequestRestart, FinishTask
<1>2. /\ wk'[w].ph # "dead"
      /\ \/ wk'[w].tx = 0
         \/ wk'[w].tx = wk[w].tx /\ (wk[w].ph \in Working => wk'[w].ph \in Working)
  <2> DEFINE kept == [Idle EXCEPT !.claim = wk[w].claim]
             seen == [Idle EXCEPT !.ph = "verify", !.obs = head]
  <2>0. /\ kept.ph = "idle" /\ kept.tx = 0 /\ seen.ph = "verify" /\ seen.tx = 0
        /\ Idle.ph = "idle" /\ Idle.tx = 0
    BY DEF Idle
  <2> HIDE DEF kept, seen
  <2>1. CASE BootObserve(w)
    <3>1. wk'[w] = seen
      BY <1>0, <2>1 DEF BootObserve, seen
    <3> QED
      BY <2>0, <3>1
  <2>2. CASE Reconcile(w) \/ FinishTask(w)
    <3>1. wk'[w] \in {Idle, kept}
      BY <1>0, <2>2 DEF Reconcile, FinishTask, kept
    <3> QED
      BY <2>0, <3>1
  <2>3. CASE MarkRestart(w)
    <3>1. wk' = [wk EXCEPT ![w] = Idle] \/ wk' = [wk EXCEPT ![w] = kept]
      BY <2>3 DEF MarkRestart, Unlink, Restore, kept
    <3>2. wk'[w] \in {Idle, kept}
      BY <1>0, <3>1
    <3> QED
      BY <2>0, <3>2
  <2>4. CASE VerifyRename(w) \/ VerifyMiss(w)
    <3>1. wk[w].ph = "verify"
      BY <2>4 DEF VerifyRename, VerifyMiss
    <3>2. \/ wk'[w] = Idle
          \/ wk'[w].ph \in {"claimed", "reconcile"} /\ wk'[w].tx = wk[w].tx
      BY <1>0, <2>4 DEF VerifyRename, VerifyMiss, WorkerSlot
    <3> QED
      BY <2>0, <3>1, <3>2, PhaseNames
  <2>5. CASE Authorize(w) \/ MakeCommit(w) \/ Push(w) \/ RequestRestart(w)
    BY <1>0, <2>5 DEF Authorize, MakeCommit, Push, RequestRestart, WorkerSlot, Working
  <2>6. CASE PreTag(w) \/ RecordReceipt(w) \/ CheckPublication(w)
    BY <1>0, <2>6 DEF PreTag, RecordReceipt, CheckPublication, Orphan, WorkerSlot, Working
  <2> QED
    BY <2>1, <2>2, <2>3, <2>4, <2>5, <2>6 DEF Worker
<1>3. Holds(w)' => Holds(w) /\ wk'[w].tx = wk[w].tx /\ wk[w].ph \in Working
  <2>1. SlotMove(w)
    BY WorkerSlotMoves
  <2>2. \A t \in TxIds : ~Assign(w, t)
    BY <1>1 DEF Assign
  <2>3. ASSUME Holds(w)'
        PROVE  wk[w].ph \in Working /\ wk'[w].tx = wk[w].tx
    BY <1>2, <2>1, <2>2, <2>3 DEF SlotMove, Holds
  <2> QED
    BY <2>3 DEF Holds
<1>4. ~Holds(w)' => wk'[w].tx = 0
  BY <1>1, <1>2 DEF ExecOK, Holds
<1>5. \A v \in Workers : v # w => wk'[v] = wk[v]
  BY OtherSlots
<1>6. \A v \in Workers : v # w => (Holds(v)' <=> Holds(v))
  BY <1>5 DEF Holds
<1> QED
  BY <1>3, <1>4, <1>5, <1>6 DEF HoldMove, ExecOK

\* The steps of the workers.
LEMMA WorkerExec ==
    ASSUME IInv, ExecOK, NEW w \in Workers, Worker(w)
    PROVE  ExecOK'
<1>0. wk \in [Workers -> WorkerSlot] /\ cnt \in Counters
  BY MoveFacts
<1>1. q' = q /\ sup' = sup
  BY DEF Worker, BootObserve, VerifyRename, VerifyMiss, MarkRestart, Reconcile, Authorize,
     MakeCommit, PreTag, RecordReceipt, CheckPublication, Push, RequestRestart, FinishTask,
     UnchangedInWorker
<1>2. cnt'.tx = cnt.tx
  <2>1. CASE MakeCommit(w)
    BY <1>0, <2>1 DEF MakeCommit, Tick, Counters
  <2>2. CASE ~MakeCommit(w)
    BY <2>2 DEF Worker, BootObserve, VerifyRename, VerifyMiss, MarkRestart, Reconcile, Authorize,
       PreTag, RecordReceipt, CheckPublication, Push, RequestRestart, FinishTask, UnchangedInWorker
  <2> QED
    BY <2>1, <2>2
<1>3. ASSUME NEW t \in TxIds
      PROVE  EndMove(t)
  <2>1. CASE FinishTask(w)
    <3>1. wk[w].ph \in Working
      BY <2>1 DEF FinishTask, Working
    <3>2. q[wk[w].tx] \notin {"none", "pending"}
      BY <3>1 DEF ExecOK, Holds
    <3>3. Ended(t)' => Ended(t) \/ t = wk[w].tx
      BY <1>1, <2>1 DEF FinishTask, Ended
    <3>4. ~Holds(w)'
      <4>1. wk'[w].ph = "idle"
        BY <1>0, <2>1, SlotPhases DEF FinishTask
      <4> QED
        BY <4>1, PhaseNames DEF Holds
    <3>5. \A v \in Workers : Holds(v)' => wk'[v].tx # wk[w].tx
      BY <3>1, <3>4, WorkerHolds DEF HoldMove, ExecOK, Holds
    <3> QED
      BY <1>1, <3>2, <3>3, <3>5 DEF EndMove, Holds
  <2>2. CASE ~FinishTask(w)
    <3>1. evq' = evq
      BY <2>2 DEF Worker, BootObserve, VerifyRename, VerifyMiss, MarkRestart, Reconcile,
         Authorize, MakeCommit, PreTag, RecordReceipt, CheckPublication, Push, RequestRestart,
         UnchangedInWorker
    <3> QED
      BY <1>1, <3>1 DEF EndMove, Ended
  <2> QED
    BY <2>1, <2>2
<1>4. ExecMove
  BY <1>1, <1>2, <1>3, WorkerHolds DEF ExecMove, QueueMove
<1> QED
  BY <1>4, ExecKeeps

\* A slot that is emptied lets go of its cycle.
LEMMA EmptySlots ==
    /\ \A ph \in {"boot", "idle"} : ph \notin Working /\ ph # "dead"
    /\ Booting.ph = "boot" /\ Booting.tx = 0 /\ Dead.ph = "dead" /\ Dead.tx = 0
    /\ "dead" \notin Working
  BY DEF Working, Booting, Dead, Idle

\* The slots in H are respawned.
LEMMA RespawnHolds ==
    ASSUME ExecOK, NEW H, \A w \in Workers : wk'[w] = IF w \in H THEN Booting ELSE wk[w]
    PROVE  HoldMove /\ \A w \in Workers : Holds(w)' => w \notin H
<1>1. \A w \in Workers : w \in H => ~Holds(w)' /\ wk'[w].tx = 0
  BY EmptySlots DEF Holds
<1>2. \A w \in Workers : w \notin H => wk'[w] = wk[w] /\ (Holds(w)' <=> Holds(w))
  BY DEF Holds
<1> QED
  BY <1>1, <1>2 DEF HoldMove, ExecOK

\* ensure_workers_healthy: the task of a dead worker is queued again, or ends.
LEMMA RespawnExec ==
    ASSUME IInv, ExecOK, NEW w \in Workers, RespawnDead(w)
    PROVE  ExecOK'
<1> DEFINE u == wk[w].tx
<1>0. wk \in [Workers -> WorkerSlot] /\ q \in [TxIds -> QueueStates] /\ w \in {w}
  BY DEF IInv, SystemOK, SystemTypes
<1>1. HoldMove /\ ~Holds(w)'
  <2>1. \A v \in Workers : wk'[v] = IF v \in {w} THEN Booting ELSE wk[v]
    BY <1>0 DEF RespawnDead
  <2> QED
    BY <1>0, <2>1, RespawnHolds
<1>2. sup' = sup /\ cnt' = cnt
  BY DEF RespawnDead
<1>3. CASE u # 0 /\ q[u] = "running"
  <2>1. Holds(w)
    BY <1>3 DEF RespawnDead, Holds
  <2>2. u \in TxIds /\ ~Ended(u)
    BY <1>3, <2>1 DEF ExecOK
  <2>3. \A v \in Workers : Holds(v)' => wk'[v].tx # u
    BY <1>1, <2>1 DEF HoldMove, ExecOK
  <2>4. \A t \in TxIds : t # u => q'[t] = q[t]
    BY <1>0, <1>3 DEF RespawnDead
  <2>5. \/ q'[u] = "pending" /\ evq' = evq
        \/ q'[u] = "none" /\ evq' = evq \cup {[kind |-> "done", tx |-> u]}
    BY <1>0, <1>3, <2>2 DEF RespawnDead
  <2>6. \A t \in TxIds : Ended(t)' => Ended(t) \/ (t = u /\ q'[u] = "none")
    BY <1>2, <2>5 DEF Ended
  <2>7. \A t \in TxIds : QueueMove(t) /\ EndMove(t)
    BY <1>3, <2>2, <2>3, <2>4, <2>5, <2>6 DEF QueueMove, EndMove, Holds
  <2> QED
    BY <1>1, <1>2, <2>7, ExecKeeps DEF ExecMove
<1>4. CASE ~(u # 0 /\ q[u] = "running")
  <2>1. q' = q /\ evq' = evq
    BY <1>4 DEF RespawnDead
  <2>2. \A t \in TxIds : QueueMove(t) /\ EndMove(t)
    BY <1>2, <2>1 DEF QueueMove, EndMove, Ended
  <2> QED
    BY <1>1, <1>2, <2>2, ExecKeeps DEF ExecMove
<1> QED
  BY <1>3, <1>4

\* enforce_task_timeouts: a running task is handed to the reaper.
LEMMA TimeoutExec ==
    ASSUME IInv, ExecOK, NEW w \in Workers, TimeoutReap(w)
    PROVE  ExecOK'
<1>0. q \in [TxIds -> QueueStates] /\ cnt \in Counters
  BY DEF IInv, SystemOK, SystemTypes
<1>1. wk[w].tx \in TxIds /\ q[wk[w].tx] = "running"
  BY DEF TimeoutReap, ExecOK, Holds
<1>2. PICK r \in Reaping : q' = [q EXCEPT ![wk[w].tx] = r]
  BY DEF TimeoutReap
<1>3. wk' = wk /\ evq' = evq /\ sup' = sup /\ cnt'.tx = cnt.tx
  BY <1>0 DEF TimeoutReap, Tick, Counters
<1>4. \A t \in TxIds : QueueMove(t) /\ EndMove(t)
  BY <1>0, <1>1, <1>2, <1>3 DEF QueueMove, EndMove, Ended
<1>5. HoldMove
  BY <1>3 DEF HoldMove, Holds, ExecOK
<1> QED
  BY <1>3, <1>4, <1>5, ExecKeeps DEF ExecMove

\* A worker dies: its slot keeps the cycle until it is replaced.
LEMMA DeathExec ==
    ASSUME IInv, ExecOK, NEW w \in Workers, WorkerDies(w)
    PROVE  ExecOK'
<1>0. wk \in [Workers -> WorkerSlot] /\ cnt \in Counters
  BY MoveFacts
<1>1. /\ wk'[w].ph = "dead" /\ wk'[w].tx = wk[w].tx /\ wk[w].ph # "dead"
      /\ \A v \in Workers : v # w => wk'[v] = wk[v]
  BY <1>0 DEF WorkerDies, Dead, Idle
<1>2. q' = q /\ evq' = evq /\ sup' = sup /\ cnt'.tx = cnt.tx
  BY <1>0 DEF WorkerDies, Tick, Counters
<1>3. Holds(w)' => Holds(w)
  BY <1>1, EmptySlots DEF Holds, ExecOK
<1>4. \A v \in Workers : v # w => (Holds(v)' <=> Holds(v))
  BY <1>1 DEF Holds
<1>5. ~Holds(w)' => wk'[w].tx = 0
  BY <1>1 DEF Holds
<1>6. HoldMove
  BY <1>1, <1>3, <1>4, <1>5, EmptySlots DEF HoldMove, ExecOK
<1>7. \A t \in TxIds : QueueMove(t) /\ EndMove(t)
  BY <1>2 DEF QueueMove, EndMove, Ended
<1> QED
  BY <1>2, <1>6, <1>7, ExecKeeps DEF ExecMove

\* assign_tasks: a pending task is executed, ends or is dropped.
LEMMA AssignExec ==
    ASSUME IInv, ExecOK, NEW w \in Workers, NEW t \in TxIds, Assign(w, t)
    PROVE  ExecOK'
<1>0. wk \in [Workers -> WorkerSlot] /\ q \in [TxIds -> QueueStates]
  BY DEF IInv, SystemOK, SystemTypes
<1>1. /\ sup' = sup /\ cnt' = cnt /\ q[t] = "pending" /\ wk[w].ph = "idle" /\ sup.pc = "loop"
  BY DEF Assign, AtTop, Dispatching
<1>2. ~Ended(t) /\ ~Holds(w) /\ \A v \in Workers : Holds(v) => wk[v].tx # t
  BY <1>1, EmptySlots DEF ExecOK, Holds
<1>3. CASE /\ wk' = wk /\ q' = [q EXCEPT ![t] = "none"]
           /\ evq' \in {evq, evq \cup {[kind |-> "done", tx |-> t]}}
  <2>1. HoldMove
    BY <1>3 DEF HoldMove, Holds, ExecOK
  <2>2. q'[t] = "none" /\ \A u \in TxIds : u # t => q'[u] = q[u]
    BY <1>0, <1>3
  <2>3. \A u \in TxIds : Ended(u)' => Ended(u) \/ u = t
    BY <1>1, <1>3 DEF Ended
  <2>4. \A u \in TxIds : QueueMove(u) /\ EndMove(u)
    BY <1>1, <1>2, <1>3, <2>2, <2>3 DEF QueueMove, EndMove, Holds
  <2> QED
    BY <1>1, <2>1, <2>4, ExecKeeps DEF ExecMove
<1>4. CASE /\ q' = [q EXCEPT ![t] = "running"] /\ evq' = evq
           /\ wk' = [wk EXCEPT ![w].ph = "work", ![w].tx = t]
  <2>1. q'[t] = "running" /\ \A u \in TxIds : u # t => q'[u] = q[u]
    BY <1>0, <1>4
  <2>2. wk'[w].ph = "work" /\ wk'[w].tx = t /\ \A v \in Workers : v # w => wk'[v] = wk[v]
    BY <1>0, <1>4 DEF WorkerSlot
  <2>3. Holds(w)' /\ \A v \in Workers : v # w => (Holds(v)' <=> Holds(v))
    BY <2>2, PhaseNames DEF Holds
  <2>4. \A u : Ended(u)' <=> Ended(u)
    BY <1>1, <1>4 DEF Ended
  <2>5. \A v, x \in Workers : Holds(v)' /\ Holds(x)' /\ wk'[v].tx = wk'[x].tx => v = x
    BY <1>2, <2>2, <2>3 DEF ExecOK
  <2>6. \A v \in Workers : Holds(v)' /\ v # w => wk'[v] = wk[v] /\ wk[v].tx # t /\ Holds(v)
    BY <1>2, <2>2, <2>3
  <2>7. ASSUME NEW v \in Workers
        PROVE  /\ ~Holds(v)' => wk'[v].tx = 0
               /\ Holds(v)' => wk'[v].tx \in TxIds /\ q'[wk'[v].tx] # "pending"
               /\ wk'[v].ph \in Working => q'[wk'[v].tx] # "none" /\ (~Ended(wk[v].tx))'
               /\ Holds(v)' /\ q'[wk'[v].tx] = "running" => (~Ended(wk[v].tx))'
    <3>1. CASE v = w
      <4>1. (~Ended(wk[w].tx))'
        BY <1>1, <1>2, <1>4, <2>2 DEF Ended
      <4> QED
        BY <2>1, <2>2, <2>3, <3>1, <4>1
    <3>2. CASE v # w
      <4>1. wk'[v] = wk[v] /\ (Holds(v)' <=> Holds(v)) /\ (Holds(v) => wk[v].tx \in TxIds)
        BY <2>2, <2>3, <3>2 DEF ExecOK
      <4>2. Holds(v) => q'[wk[v].tx] = q[wk[v].tx]
        BY <1>2, <2>1, <4>1
      <4>3. (Ended(wk[v].tx))' <=> Ended(wk[v].tx)
        <5>1. wk'[v].tx = wk[v].tx
          BY <4>1
        <5> QED
          BY <1>1, <1>4, <5>1 DEF Ended
      <4>4. wk[v].ph \in Working => Holds(v)
        BY DEF Holds
      <4> QED
        BY <4>1, <4>2, <4>3, <4>4 DEF ExecOK
    <3> QED
      BY <3>1, <3>2
  <2>8. \A u \in TxIds : (Ended(u) => q[u] # "pending")'
    BY <2>1, <2>4 DEF ExecOK
  <2>9. ASSUME NEW u \in TxIds, Fresh(u)
        PROVE  Fresh(u)'
    <3>1. u # t
      BY <1>1, <2>9 DEF Fresh
    <3> QED
      BY <2>1, <2>2, <2>3, <2>4, <2>6, <2>9, <3>1 DEF Fresh
  <2>10. \A u \in TxIds : u > cnt'.tx => Fresh(u)'
    BY <1>1, <2>9 DEF ExecOK
  <2> QED
    BY <1>1, <2>5, <2>7, <2>8, <2>10 DEF ExecOK
<1> QED
  BY <1>3, <1>4 DEF Assign

\* reap_timed_out_task: a killed task is queued again, or ends.
LEMMA ReaperExec ==
    ASSUME IInv, ExecOK, NEW t \in TxIds, ReaperKill(t)
    PROVE  ExecOK'
<1>0. wk \in [Workers -> WorkerSlot] /\ q \in [TxIds -> QueueStates]
  BY DEF IInv, SystemOK, SystemTypes
<1>1. sup' = sup /\ cnt' = cnt /\ q[t] \in Reaping
  BY DEF ReaperKill
<1>2. ASSUME /\ q' = [q EXCEPT ![t] = "none"]
             /\ evq' = evq \cup {[kind |-> "done", tx |-> t]}
             /\ HoldMove /\ \A v \in Workers : wk'[v].ph \in Working => wk'[v].tx # t
      PROVE  ExecOK'
  <2>1. q'[t] = "none" /\ \A u \in TxIds : u # t => q'[u] = q[u]
    BY <1>0, <1>2
  <2>2. \A u \in TxIds : Ended(u)' => Ended(u) \/ u = t
    BY <1>1, <1>2 DEF Ended
  <2>3. \A u \in TxIds : QueueMove(u) /\ EndMove(u)
    BY <1>1, <1>2, <2>1, <2>2 DEF QueueMove, EndMove, Reaping
  <2> QED
    BY <1>1, <1>2, <2>3, ExecKeeps DEF ExecMove
<1>3. CASE ~\E w \in Workers : wk[w].tx = t /\ wk[w].ph \in Working
  <2>1. /\ q' = [q EXCEPT ![t] = "none"] /\ wk' = wk
        /\ evq' = evq \cup {[kind |-> "done", tx |-> t]}
    BY <1>3 DEF ReaperKill
  <2>2. HoldMove
    BY <2>1 DEF HoldMove, Holds, ExecOK
  <2> QED
    BY <1>2, <1>3, <2>1, <2>2
<1>4. CASE \E w \in Workers : wk[w].tx = t /\ wk[w].ph \in Working
  <2>1. PICK w \in Workers : /\ wk[w].tx = t /\ wk[w].ph \in Working
                             /\ wk' = [wk EXCEPT ![w] = Booting]
    BY <1>4 DEF ReaperKill
  <2>2. HoldMove /\ ~Holds(w)'
    <3>1. w \in {w} /\ \A v \in Workers : wk'[v] = IF v \in {w} THEN Booting ELSE wk[v]
      BY <1>0, <2>1
    <3> QED
      BY <3>1, RespawnHolds
  <2>3. \A v \in Workers : Holds(v)' => wk'[v].tx # t
    BY <2>1, <2>2 DEF HoldMove, ExecOK, Holds
  <2>4. CASE q' = [q EXCEPT ![t] = "pending"] /\ evq' = evq
    <3>1. q'[t] = "pending" /\ \A u \in TxIds : u # t => q'[u] = q[u]
      BY <1>0, <2>4
    <3>2. ~Ended(t)
      BY <2>1 DEF ExecOK
    <3>3. \A u \in TxIds : Ended(u)' => Ended(u)
      BY <1>1, <2>4 DEF Ended
    <3>4. \A u \in TxIds : QueueMove(u) /\ EndMove(u)
      BY <1>1, <2>3, <3>1, <3>2, <3>3 DEF QueueMove, EndMove, Reaping
    <3> QED
      BY <1>1, <2>2, <3>4, ExecKeeps DEF ExecMove
  <2>5. CASE /\ q' = [q EXCEPT ![t] = "none"]
             /\ evq' = evq \cup {[kind |-> "done", tx |-> t]}
    BY <1>2, <2>2, <2>3, <2>5 DEF Holds
  <2> QED
    BY <1>4, <2>4, <2>5 DEF ReaperKill
<1> QED
  BY <1>3, <1>4

\* The terminal of a task is taken up, handled and finished.
LEMMA DoneExec ==
    ASSUME IInv, ExecOK,
           \/ CleanUp \/ RequestOwnRestart \/ FinishDone
           \/ \E t \in TxIds : TaskDone(t)
    PROVE  ExecOK'
<1>0. q \in [TxIds -> QueueStates]
  BY DEF IInv, SystemOK, SystemTypes
<1>1. wk' = wk /\ cnt' = cnt
  BY DEF CleanUp, RequestOwnRestart, FinishDone, TaskDone
<1>2. HoldMove
  BY <1>1 DEF HoldMove, Holds, ExecOK
<1>3. sup'.pc \in {"effects", "finish", "loop"}
  <2>1. CASE CleanUp \/ RequestOwnRestart
    BY <2>1 DEF CleanUp, RequestOwnRestart, Goto
  <2>2. CASE FinishDone
    BY <2>2 DEF FinishDone, Return, AtLoop
  <2>3. CASE \E t \in TxIds : TaskDone(t)
    BY <2>3 DEF TaskDone, Goto
  <2> QED
    BY <2>1, <2>2, <2>3
<1>4. ASSUME NEW t \in TxIds
      PROVE  Ended(t)' => Ended(t)
  <2>1. CASE CleanUp \/ FinishDone
    BY <2>1 DEF CleanUp, FinishDone, Goto, Return, AtLoop, Ended
  <2>2. CASE RequestOwnRestart
    <3>1. evq' \subseteq evq \cup {[kind |-> "restart_evolution", tx |-> 0]}
      BY <2>2 DEF RequestOwnRestart
    <3>2. [kind |-> "done", tx |-> t] # [kind |-> "restart_evolution", tx |-> 0]
      OBVIOUS
    <3>3. sup.pc = "effects" /\ sup'.arg = sup.arg
      BY <2>2 DEF RequestOwnRestart, Goto
    <3> QED
      BY <3>1, <3>2, <3>3 DEF Ended
  <2>3. ASSUME NEW u \in TxIds, TaskDone(u)
        PROVE  Ended(t)' => Ended(t)
    BY <2>3 DEF TaskDone, Goto, Ended
  <2> QED
    BY <2>1, <2>2, <2>3
<1>5. ASSUME NEW t \in TxIds
      PROVE  QueueMove(t)
  <2>1. CASE FinishDone
    <3>1. q'[t] = q[t] \/ (t = sup.arg /\ q[t] = "running" /\ q'[t] = "none")
      BY <1>0, <2>1 DEF FinishDone
    <3>2. Ended(sup.arg)
      BY <2>1 DEF FinishDone, Ended
    <3>3. \A w \in Workers : wk[w].ph \in Working => wk[w].tx # sup.arg
      BY <3>2 DEF ExecOK
    <3> QED
      BY <1>1, <3>1, <3>3 DEF QueueMove
  <2>2. CASE ~FinishDone
    <3>1. q' = q
      BY <2>2 DEF CleanUp, RequestOwnRestart, TaskDone
    <3> QED
      BY <3>1 DEF QueueMove
  <2> QED
    BY <2>1, <2>2
<1>6. \A t \in TxIds : EndMove(t)
  BY <1>4 DEF EndMove
<1> QED
  BY <1>1, <1>2, <1>3, <1>5, <1>6, ExecKeeps DEF ExecMove

\* stop_evolution_tasks: what is cancelled ends.
LEMMA StopExec ==
    ASSUME IInv, ExecOK, StopTasks
    PROVE  ExecOK'
<1>1. PICK I \in SUBSET {t \in TxIds : q[t] = "running"} :
         LET gone == {t \in TxIds : Queued(t)} \ I
             hit  == {w \in Workers : wk[w].tx \in gone}
         IN /\ q' = [t \in TxIds |-> IF t \in gone THEN "none" ELSE q[t]]
            /\ evq' = evq \cup [kind : {"done"}, tx : gone]
            /\ wk' = [w \in Workers |-> IF w \in hit THEN Booting ELSE wk[w]]
            /\ Goto(AfterStop(I # {}), 0, FALSE)
  BY DEF StopTasks
<1> DEFINE gone == {t \in TxIds : Queued(t)} \ I
           hit  == {w \in Workers : wk[w].tx \in gone}
<1>2. HoldMove /\ \A w \in Workers : Holds(w)' => w \notin hit
  <2>1. \A w \in Workers : wk'[w] = IF w \in hit THEN Booting ELSE wk[w]
    BY <1>1
  <2> HIDE DEF hit
  <2> QED
    BY <2>1, RespawnHolds
<1>3. \A w \in Workers : Holds(w)' => wk'[w].tx \notin gone
  BY <1>2 DEF HoldMove
<1>4. \A w \in Workers : wk'[w].ph \in Working => Holds(w)'
  BY DEF Holds
<1>5. sup.pc = "stopping" /\ sup'.pc \in {"loop", "closing"} /\ cnt' = cnt
  BY <1>1 DEF StopTasks, Goto, AfterStop
<1>6. ASSUME NEW t \in TxIds
      PROVE  QueueMove(t) /\ EndMove(t)
  <2>1. q'[t] = IF t \in gone THEN "none" ELSE q[t]
    BY <1>1
  <2>2. t \in gone => q[t] # "none"
    BY DEF Queued
  <2>3. [kind |-> "done", tx |-> t] \in evq' => [kind |-> "done", tx |-> t] \in evq \/ t \in gone
    BY <1>1
  <2>4. Ended(t)' => Ended(t) \/ t \in gone
    BY <1>5, <2>3 DEF Ended
  <2> HIDE DEF gone, hit
  <2> QED
    BY <1>3, <1>4, <2>1, <2>2, <2>4 DEF QueueMove, EndMove
<1> QED
  BY <1>2, <1>5, <1>6, ExecKeeps DEF ExecMove

\* A cycle begins, and is put into the queue.
LEMMA BeginExec ==
    ASSUME IInv, ExecOK, Begin \/ QueueTask
    PROVE  ExecOK'
<1>0. q \in [TxIds -> QueueStates] /\ cnt \in Counters /\ cnt.tx \in 0..MaxTx
  BY MoveFacts DEF IInv, SystemOK, SystemTypes
<1>1. wk' = wk /\ evq' = evq
  BY DEF Begin, QueueTask
<1>2. \A w \in Workers : (Holds(w)' <=> Holds(w))
  BY <1>1 DEF Holds
<1>3. \A w \in Workers : wk[w].ph \in Working => Holds(w)
  BY DEF Holds
<1>4. CASE Begin /\ sup' = sup
  <2>1. cnt' = cnt /\ q' = q
    <3>1. sup.pc = "loop" /\ q' = q
      BY <1>4 DEF Begin, Dispatchable, MayEnqueue, AtTop, Dispatching
    <3>2. ~Goto("queueing", cnt.tx + 1, FALSE)
      BY <1>4, <3>1 DEF Goto
    <3> QED
      BY <1>4, <3>1, <3>2 DEF Begin
  <2> QED
    BY <1>1, <1>4, <2>1, ExecCalm
<1>5. CASE Begin /\ Goto("queueing", cnt.tx + 1, FALSE) /\ Tick("tx") /\ cnt.tx < MaxTx
  <2>1. /\ q' = q /\ sup.pc = "loop" /\ sup'.pc = "queueing" /\ sup'.arg = cnt.tx + 1
        /\ cnt'.tx = cnt.tx + 1
    BY <1>0, <1>5 DEF Begin, Dispatchable, MayEnqueue, AtTop, Dispatching, Goto, Tick, Counters
  <2>2. \A t : Ended(t)' <=> Ended(t)
    BY <1>1, <2>1 DEF Ended
  <2>3. \A t \in TxIds : Fresh(t)' <=> Fresh(t)
    BY <1>1, <1>2, <2>1, <2>2 DEF Fresh
  <2>4. cnt.tx + 1 \in TxIds /\ cnt.tx + 1 > cnt.tx
    BY <1>0, <1>5, BoundsAssumption DEF TxIds
  <2>5. (Fresh(sup.arg))'
    <3>1. Fresh(cnt.tx + 1)
      BY <2>4 DEF ExecOK
    <3> QED
      BY <1>1, <2>1, <3>1 DEF Fresh, Holds, Ended
  <2>6. \A t \in TxIds : t > cnt'.tx => Fresh(t)'
    <3>1. \A t \in TxIds : t > cnt.tx + 1 => t > cnt.tx
      BY <1>0, BoundsAssumption DEF TxIds
    <3> QED
      BY <2>1, <2>3, <3>1 DEF ExecOK
  <2>7. \A w \in Workers : (Ended(wk[w].tx))' <=> Ended(wk[w].tx)
    BY <1>1, <2>1 DEF Ended
  <2> QED
    BY <1>1, <1>2, <2>1, <2>2, <2>4, <2>5, <2>6, <2>7 DEF ExecOK
<1>6. CASE QueueTask
  <2> DEFINE a == sup.arg
  <2>1. /\ sup.pc = "queueing" /\ sup'.pc = "loop" /\ cnt' = cnt
        /\ q' = [q EXCEPT ![a] = "pending"]
    BY <1>6 DEF QueueTask, Return, AtLoop
  <2>2. a \in TxIds /\ a = cnt.tx /\ Fresh(a)
    BY <2>1 DEF ExecOK
  <2>3. q'[a] = "pending" /\ \A t \in TxIds : t # a => q'[t] = q[t]
    BY <1>0, <2>1, <2>2
  <2>4. ~Ended(a) /\ \A w \in Workers : Holds(w) => wk[w].tx # a
    BY <2>2 DEF Fresh
  <2>5. \A t : Ended(t)' <=> Ended(t)
    BY <1>1, <2>1 DEF Ended
  <2>6. \A t \in TxIds : t > cnt'.tx => Fresh(t)'
    <3>1. \A t \in TxIds : t > cnt.tx => Fresh(t) /\ t # a
      BY <1>0, <2>2, BoundsAssumption DEF ExecOK, TxIds
    <3> QED
      BY <1>1, <1>2, <2>1, <2>3, <2>5, <3>1 DEF Fresh
  <2>7. \A w \in Workers : (Ended(wk[w].tx))' <=> Ended(wk[w].tx)
    BY <1>1, <2>1 DEF Ended
  <2>8. \A w \in Workers : Holds(w) => q'[wk[w].tx] = q[wk[w].tx]
    BY <2>3, <2>4 DEF ExecOK
  <2>9. \A t \in TxIds : Ended(t)' => q'[t] # "pending"
    BY <2>3, <2>4, <2>5 DEF ExecOK
  <2> HIDE DEF a
  <2> QED
    BY <1>1, <1>2, <1>3, <2>1, <2>6, <2>7, <2>8, <2>9 DEF ExecOK
<1> QED
  BY <1>4, <1>5, <1>6 DEF Begin

\* A restart ends what is queued; a server that is gone executes nothing.
LEMMA ServerExec ==
    ASSUME IInv, ExecOK, PanicExit \/ Exit \/ Crash \/ SafeRestart \/ Boot
    PROVE  ExecOK'
<1>0. q \in [TxIds -> QueueStates] /\ cnt \in Counters
  BY MoveFacts DEF IInv, SystemOK, SystemTypes
<1>1. ASSUME NEW e \in {Booting, Dead}, wk' = [w \in Workers |-> e]
      PROVE  \A w \in Workers : ~Holds(w)' /\ wk'[w].tx = 0 /\ wk'[w].ph \notin Working
  BY <1>1, EmptySlots DEF Holds
<1>2. CASE PanicExit \/ Exit \/ Crash
  <2>1. cnt'.tx = cnt.tx
    BY <1>0, <1>2 DEF PanicExit, Exit, Crash, Tick, Counters
  <2>2. /\ wk' = [w \in Workers |-> Dead] /\ evq' = {} /\ sup' = AtLoop
        /\ q' \in {Kept, [t \in TxIds |-> "none"]}
    BY <1>2 DEF PanicExit, Exit, Crash, Down
  <2>3. \A w \in Workers : ~Holds(w)' /\ wk'[w].tx = 0 /\ wk'[w].ph \notin Working
    BY <1>1, <2>2
  <2>4. sup'.pc = "loop" /\ \A t : ~Ended(t)'
    BY <2>2 DEF Ended, AtLoop
  <2>5. \A t \in TxIds : q[t] = "none" => q'[t] = "none"
    BY <2>2 DEF Kept
  <2>6. \A t \in TxIds : t > cnt'.tx => Fresh(t)'
    BY <2>1, <2>3, <2>4, <2>5 DEF ExecOK, Fresh
  <2> QED
    BY <2>3, <2>4, <2>6 DEF ExecOK
<1>3. CASE Boot
  <2>1. wk' = [w \in Workers |-> Booting] /\ evq' = evq /\ sup' = sup /\ cnt' = cnt
    BY <1>3 DEF Boot
  <2>2. \A w \in Workers : ~Holds(w)' /\ wk'[w].tx = 0 /\ wk'[w].ph \notin Working
    BY <1>1, <2>1
  <2>3. \A t \in TxIds : q'[t] \in {q[t], "none"}
    BY <1>3 DEF Boot
  <2>4. HoldMove /\ \A t \in TxIds : QueueMove(t) /\ EndMove(t)
    BY <2>1, <2>2, <2>3 DEF HoldMove, QueueMove, EndMove, Ended
  <2> QED
    BY <2>1, <2>4, ExecKeeps DEF ExecMove
<1>4. CASE SafeRestart
  <2>1. sup.pc = "restarting" /\ sup'.pc \in {"loop", "exit"} /\ cnt' = cnt
    BY <1>4 DEF SafeRestart, Return, AtLoop
  <2>2. CASE wk' = wk /\ q' = q /\ evq' = evq
    BY <2>1, <2>2, ExecCalm
  <2>3. CASE /\ wk' = [w \in Workers |-> Dead]
             /\ q' = [t \in TxIds |-> IF Queued(t) THEN "none" ELSE q[t]]
             /\ evq' = evq \cup [kind : {"done"}, tx : {t \in TxIds : Queued(t)}]
    <3>1. \A w \in Workers : ~Holds(w)' /\ wk'[w].tx = 0 /\ wk'[w].ph \notin Working
      BY <1>1, <2>3
    <3>2. \A t \in TxIds : q'[t] = q[t] \/ (q[t] # "none" /\ q'[t] = "none")
      BY <2>3 DEF Queued
    <3>3. \A t \in TxIds : Ended(t)' => Ended(t) \/ Queued(t)
      BY <2>1, <2>3 DEF Ended
    <3>4. \A t \in TxIds : Queued(t) => q[t] # "none" /\ q'[t] = "none"
      BY <2>3 DEF Queued
    <3>5. HoldMove /\ \A t \in TxIds : QueueMove(t) /\ EndMove(t)
      BY <3>1, <3>2, <3>3, <3>4 DEF HoldMove, QueueMove, EndMove
    <3> QED
      BY <2>1, <3>5, ExecKeeps DEF ExecMove
  <2> QED
    BY <1>4, <2>2, <2>3 DEF SafeRestart
<1> QED
  BY <1>2, <1>3, <1>4

\* Every step keeps ExecOK.
LEMMA ExecStep ==
    ASSUME IInv, ExecOK, [Next]_vars
    PROVE  ExecOK'
<1> DEFINE Moves == {"queueing", "effects", "finish"}
<1>0. cnt \in Counters
  BY MoveFacts
<1>1. ASSUME NEW pc \in SupPcs \ Moves, NEW arg, NEW ok, Goto(pc, arg, ok) \/ Return
      PROVE  sup'.pc \notin Moves
  BY <1>1 DEF Goto, Return, AtLoop
<1>2. ASSUME wk' = wk, q' = q, cnt'.tx = cnt.tx, sup' = sup \/ sup'.pc \notin Moves,
             evq' \subseteq evq \cup {[kind |-> "restart", tx |-> 0]}
      PROVE  ExecOK'
  <2>1. \A t : [kind |-> "done", tx |-> t] # [kind |-> "restart", tx |-> 0]
    OBVIOUS
  <2> QED
    BY <1>2, <2>1, ExecCalm
<1>3. CASE UNCHANGED vars
  BY <1>2, <1>3 DEF vars
<1>4. CASE Concurrent
  <2>1. wk' = wk /\ q' = q /\ sup' = sup
    BY <1>4 DEF Concurrent, OtherCommits, OtherRequestsRestart, OtherEnds, RollbackLoads,
       RollbackSaves, proc
  <2>2. evq' \subseteq evq \cup {[kind |-> "restart", tx |-> 0]}
    BY <1>4 DEF Concurrent, OtherCommits, OtherRequestsRestart, OtherEnds, RollbackLoads,
       RollbackSaves, proc
  <2>3. cnt'.tx = cnt.tx
    BY <1>0, <1>4 DEF Concurrent, OtherCommits, OtherRequestsRestart, OtherEnds, RollbackLoads,
       RollbackSaves, Tick, Counters
  <2> QED
    BY <1>2, <2>1, <2>2, <2>3
<1>5. CASE \/ ApplyStart \/ ApplyRead \/ ApplyWrite \/ ApplyArm \/ ApplyDone \/ ApplyDisarm
           \/ CloseCampaign \/ StartOwned \/ SetFlags
  <2>1. wk' = wk /\ q' = q /\ cnt' = cnt /\ evq' = evq
    BY <1>5 DEF ApplyStart, ApplyRead, ApplyWrite, ApplyArm, ApplyDone, ApplyDisarm,
       CloseCampaign, StartOwned, SetFlags, files
  <2>4. sup'.pc \notin Moves
    <3>2. CASE ApplyStart \/ ApplyRead
      BY <1>1, <3>2 DEF ApplyStart, ApplyRead, SupPcs
    <3>3. CASE ApplyWrite \/ ApplyDone \/ ApplyDisarm
      BY <1>1, <3>3 DEF ApplyWrite, ApplyDone, ApplyDisarm, SupPcs
    <3>5. CASE ApplyArm
      BY <1>1, <3>5 DEF ApplyArm, SupPcs
    <3>6. CASE CloseCampaign \/ SetFlags
      BY <1>1, <3>6 DEF CloseCampaign, SetFlags, SupPcs
    <3>7. CASE StartOwned
      BY <1>1, <3>7 DEF StartOwned, SupPcs
    <3> QED
      BY <1>5, <3>2, <3>3, <3>5, <3>6, <3>7
  <2> QED
    BY <1>2, <2>1, <2>4
<1>6. CASE Continue
  BY <1>5, <1>6, DoneExec, StopExec, BeginExec, ServerExec DEF Continue
<1>7. CASE \/ DrainDone \/ \E kind \in {"restart", "restart_evolution"} : HandleRestart(kind)
  <2>1. wk' = wk /\ q' = q /\ cnt' = cnt /\ evq' \subseteq evq
    BY <1>7 DEF DrainDone, HandleRestart
  <2>2. sup' = sup \/ sup'.pc = "restarting"
    <3>1. \A kind, d : Perform(kind, d) => sup' = sup \/ sup'.pc = "restarting"
      BY DEF Perform
    <3> QED
      BY <1>7, <3>1 DEF DrainDone, HandleRestart
  <2> QED
    BY <1>2, <2>1, <2>2
<1>8. CASE OtherStarts \/ ApplyDrop \/ DisableBareFlag \/ TripBreaker
  <2>1. wk' = wk /\ q' = q /\ evq' = evq /\ sup' = sup
    BY <1>8 DEF OtherStarts, ApplyDrop, DisableBareFlag, TripBreaker, proc
  <2>2. cnt'.tx = cnt.tx
    BY <1>0, <1>8 DEF OtherStarts, ApplyDrop, DisableBareFlag, TripBreaker, Tick, Counters
  <2> QED
    BY <1>2, <2>1, <2>2
<1>9. CASE ApplyTake
  BY <1>1, <1>2, <1>9 DEF ApplyTake, SupPcs
<1>10. CASE OwnerStop \/ OwnerStart
  <2>1. sup'.pc \notin Moves
    BY <1>1, <1>10 DEF OwnerStop, OwnerStart, SupPcs
  <2>2. wk' = wk /\ q' = q /\ evq' = evq
    BY <1>10 DEF OwnerStop, OwnerStart
  <2>3. cnt'.tx = cnt.tx
    BY <1>0, <1>10 DEF OwnerStop, OwnerStart, Tick, Counters
  <2> QED
    BY <1>2, <2>1, <2>2, <2>3
<1>11. CASE Panic \/ PanicClose
  <2>1. wk' = wk /\ q' = q /\ evq' = evq /\ sup' = sup
    BY <1>11 DEF Panic, PanicClose
  <2>2. cnt'.tx = cnt.tx
    BY <1>0, <1>11 DEF Panic, PanicClose, Tick, Counters
  <2> QED
    BY <1>2, <2>1, <2>2
<1>12. CASE Loop
  BY <1>7, <1>8, <1>9, <1>12, RespawnExec, TimeoutExec, AssignExec, DoneExec, BeginExec DEF Loop
<1>13. CASE Failures
  BY <1>13, DeathExec, ServerExec DEF Failures
<1>14. CASE Next
  BY <1>4, <1>6, <1>10, <1>11, <1>12, <1>13, <1>14, WorkerExec, ReaperExec, ServerExec DEF Next
<1> QED
  BY <1>3, <1>14

\* At the start nothing is executed.
LEMMA InitExec ==
    Init => ExecOK
<1> SUFFICES ASSUME Init
             PROVE  ExecOK
  OBVIOUS
<1>1. wk = [w \in Workers |-> Booting] /\ sup = AtLoop /\ evq = {} /\ q = [t \in TxIds |-> "none"]
  BY Zenon DEF Init
<1>2. \A w \in Workers : ~Holds(w) /\ wk[w].tx = 0 /\ wk[w].ph \notin Working
  BY <1>1, EmptySlots DEF Holds
<1>3. sup.pc = "loop" /\ \A t : ~Ended(t)
  BY <1>1 DEF Ended, AtLoop
<1>4. \A t \in TxIds : Fresh(t)
  BY <1>1, <1>2, <1>3 DEF Fresh
<1> QED
  BY <1>2, <1>3, <1>4 DEF ExecOK

\* The worker pool, the reaper and the queue execute a cycle once at a time.
THEOREM ExecutedOnce ==
    Spec => []OneExecution
<1>1. IInv /\ ExecOK /\ [Next]_vars => ExecOK'
  BY ExecStep
<1>2. ExecOK => OneExecution
  BY DEF ExecOK, OneExecution, Holds
<1> QED
  BY Invariant, InitExec, <1>1, <1>2, PTL DEF Spec
=============================================================================
