------------------------ MODULE SkillSurfacesProofs ------------------------
(***************************************************************************)
(* Theorems of SkillSurfaces, for any number of calls, skills, workers and *)
(* troubles.                                                               *)
(***************************************************************************)
EXTENDS SkillSurfaces, TLAPS

----------------------------------------------------------------------------
\* Types.

\* The first state has its types.
LEMMA InitType == Init => SkillTypeOK
<1> SUFFICES ASSUME Init PROVE SkillTypeOK
    OBVIOUS
<1>1. NewJob \in LifecycleJob
    BY SkillsAssumption DEF NewJob, LifecycleJob, PCs, Kinds, Procs, Statuses
<1>2. LaneTypeOK
    BY <1>1 DEF Init, LaneInit, LaneTypeOK
<1>3. Idle \in [by : {"nobody", "job", "pickup", "reload"},
                of : Jobs \cup {Nobody}, want : BOOLEAN]
    BY DEF Idle
<1>4. 0 \in 0 .. MaxAttempts
    BY AttemptsAssumption
<1>5. recon \in [Skills -> [by : {"nobody", "job", "pickup", "reload"},
                            of : Jobs \cup {Nobody}, want : BOOLEAN]]
    BY <1>3 DEF Init
<1> QED
    BY <1>2, <1>4, <1>5, TroublesAssumption DEF Init, SkillTypeOK

\* Moving a call, or giving it a status, keeps the type of the calls.
LEMMA EndsType ==
    ASSUME job \in [Jobs -> LifecycleJob], NEW j \in Jobs,
           NEW pc \in PCs, NEW status \in Statuses, Ends(j, pc, status)
    PROVE  job' \in [Jobs -> LifecycleJob]
<1>1. [job[j] EXCEPT !.pc = pc, !.status = status] \in LifecycleJob
    BY DEF LifecycleJob
<1>2. job' = [job EXCEPT ![j] = [job[j] EXCEPT !.pc = pc, !.status = status]]
    BY DEF Ends, LifecycleJob
<1> QED
    BY <1>1, <1>2

LEMMA GoesType ==
    ASSUME job \in [Jobs -> LifecycleJob], NEW j \in Jobs, NEW pc \in PCs, Goes(j, pc)
    PROVE  job' \in [Jobs -> LifecycleJob]
BY DEF Goes, LifecycleJob

\* Releasing a key keeps the type of the table.
LEMMA ReleasedType ==
    ASSUME LaneTypeOK, NEW j \in Jobs
    PROVE  Released(j) \in [Procs -> [Skills -> Jobs \cup {Nobody}]]
BY DEF LaneTypeOK, Released, LifecycleJob

\* A step of the lane keeps the types of the lane.
LEMMA LaneStepType ==
    ASSUME LaneTypeOK, NEW j \in Jobs, LaneStep(j)
    PROVE  LaneTypeOK'
<1> USE EndsType, GoesType, ReleasedType DEF LaneTypeOK
<1>a. {"running", "done", "runner", "over", "leaving"} \subseteq PCs
    BY DEF PCs
<1>b. {"running", "failed", "cancelled"} \subseteq Statuses
    BY DEF Statuses
<1>2. CASE EnterLane(j)
    BY <1>2, <1>a, <1>b DEF EnterLane
<1>3. CASE \E status \in {"failed", "cancelled"} : LeaveQueue(j, status)
    BY <1>3, <1>a, <1>b DEF LeaveQueue
<1>4. CASE TakeFile(j)
    BY <1>4, <1>a, <1>b DEF TakeFile
<1>5. CASE \E status \in {"failed", "cancelled"} : GiveUpFile(j, status)
    BY <1>5, <1>a, <1>b DEF GiveUpFile
<1>6. CASE ReleaseKey(j)
    BY <1>6, <1>a, <1>b DEF ReleaseKey
<1>7. CASE LeaveLane(j)
    BY <1>7, <1>a, <1>b DEF LeaveLane
<1> QED
    BY <1>2, <1>3, <1>4, <1>5, <1>6, <1>7 DEF LaneStep

\* So do a new call, the end of a runner and the death of a process.
LEMMA SubmitType ==
    ASSUME LaneTypeOK, NEW j \in Jobs, NEW kind \in Kinds, NEW p \in Procs,
           NEW s \in Skills, NEW b \in BOOLEAN, Submit(j, kind, p, s, b)
    PROVE  LaneTypeOK'
<1>1. Call(kind, p, s, b) \in LifecycleJob
    BY DEF Call, PCs, Statuses, LifecycleJob
<1>2. [Call(kind, p, s, b) EXCEPT !.pc = "done", !.status = "failed"] \in LifecycleJob
    BY DEF Call, PCs, Statuses, LifecycleJob
<1>3. job' \in [Jobs -> LifecycleJob]
    BY <1>1, <1>2 DEF Submit, LaneTypeOK
<1>4. dedupe' \in [Procs -> [Skills -> Jobs \cup {Nobody}]]
    BY SMTT(30) DEF Submit, LaneTypeOK
<1> QED
    BY <1>3, <1>4 DEF Submit, LaneTypeOK

LEMMA RunnerEndsType ==
    ASSUME LaneTypeOK, NEW j \in Jobs, NEW status \in {"failed", "succeeded"},
           RunnerEnds(j, status)
    PROVE  LaneTypeOK'
<1>1. {"done", "over"} \subseteq PCs /\ status \in Statuses
    BY DEF PCs, Statuses
<1> QED
    BY <1>1, EndsType DEF LaneTypeOK, RunnerEnds

LEMMA OutcomeRange ==
    ASSUME NEW j, NEW failed
    PROVE  Outcome(j, failed) \in {"failed", "succeeded"}
BY DEF Outcome

\* A runner in trouble ends with one status or the other.
LEMMA TroubleEnds ==
    ASSUME NEW j, ServerRaises(j) \/ GoesUnannounced(j)
    PROVE  \E status \in {"failed", "succeeded"} : RunnerEnds(j, status)
<1>1. CASE ServerRaises(j)
    <2>1. RunnerEnds(j, Outcome(j, TRUE))
        BY <1>1 DEF ServerRaises
    <2>2. Outcome(j, TRUE) \in {"failed", "succeeded"}
        BY OutcomeRange
    <2> QED
        BY <2>1, <2>2
<1>2. CASE GoesUnannounced(j)
    <2>1. RunnerEnds(j, Outcome(j, At(j, "saved")))
        BY <1>2 DEF GoesUnannounced
    <2>2. Outcome(j, At(j, "saved")) \in {"failed", "succeeded"}
        BY OutcomeRange
    <2> QED
        BY <2>1, <2>2
<1> QED
    BY <1>1, <1>2

LEMMA LaneDiesType ==
    ASSUME LaneTypeOK, NEW p \in Procs, LaneDies(p)
    PROVE  LaneTypeOK'
<1>1. \A j \in Jobs : [job[j] EXCEPT !.pc = "dead", !.status = "failed"]
         \in LifecycleJob
    BY DEF LaneTypeOK, LifecycleJob, PCs, Statuses
<1> QED
    BY <1>1 DEF LaneTypeOK, LaneDies

LEMMA AppliesType ==
    ASSUME SkillTypeOK, NEW s \in Skills, NEW loads \in BOOLEAN, Applies(s, loads)
    PROVE  /\ live' \in [Skills -> BOOLEAN] /\ broken' \in [Skills -> BOOLEAN]
           /\ recon' \in [Skills -> [by : {"nobody", "job", "pickup", "reload"},
                                     of : Jobs \cup {Nobody}, want : BOOLEAN]]
           /\ slip' \in [Skills -> {"none", "lost", "reload"}]
<1>1. Idle \in [by : {"nobody", "job", "pickup", "reload"},
                of : Jobs \cup {Nobody}, want : BOOLEAN]
    BY DEF Idle
<1> QED
    BY <1>1 DEF SkillTypeOK, Applies

LEMMA ReadsType ==
    ASSUME SkillTypeOK, NEW s \in Skills, NEW by \in {"job", "pickup", "reload"},
           NEW of \in Jobs \cup {Nobody}, NEW flag \in BOOLEAN, Reads(s, by, of, flag)
    PROVE  /\ recon' \in [Skills -> [by : {"nobody", "job", "pickup", "reload"},
                                     of : Jobs \cup {Nobody}, want : BOOLEAN]]
           /\ broken' = broken
BY DEF SkillTypeOK, Reads

LEMMA RaisesType ==
    ASSUME SkillTypeOK, NEW s \in Skills, Raises(s)
    PROVE  /\ recon' \in [Skills -> [by : {"nobody", "job", "pickup", "reload"},
                                     of : Jobs \cup {Nobody}, want : BOOLEAN]]
           /\ live' = live /\ broken' = broken
<1>1. Idle \in [by : {"nobody", "job", "pickup", "reload"},
                of : Jobs \cup {Nobody}, want : BOOLEAN]
    BY DEF Idle
<1> QED
    BY <1>1 DEF SkillTypeOK, Raises

\* A step of a call, of the pickup loop, of a reload, or a trouble keeps the types.
LEMMA RunnerType ==
    ASSUME SkillTypeOK, NEW j \in Jobs, RunnerStep(j)
    PROVE  SkillTypeOK'
<1> USE GoesType, RunnerEndsType DEF SkillTypeOK
<1>a. {"saved", "loading", "notify"} \subseteq PCs
    BY DEF PCs
<1>b. job[j].skill \in Skills /\ job[j].want \in BOOLEAN
    BY DEF LaneTypeOK, LifecycleJob
<1>1. CASE RunnerRefuses(j)
    BY <1>1 DEF RunnerRefuses, surfaceVars
<1>2. CASE SavesFlag(j)
    <2>1. LaneTypeOK'
        BY <1>2, <1>a DEF SavesFlag, LaneTypeOK
    <2>2. enabled' \in [Skills -> BOOLEAN]
        BY <1>2, <1>b DEF SavesFlag
    <2> QED
        BY <1>2, <2>1, <2>2 DEF SavesFlag
<1>3. CASE ServerReads(j)
    <2>1. LaneTypeOK'
        BY <1>3, <1>a DEF ServerReads, LaneTypeOK
    <2>2. /\ recon' \in [Skills -> [by : {"nobody", "job", "pickup", "reload"},
                                    of : Jobs \cup {Nobody}, want : BOOLEAN]]
          /\ broken' = broken
        BY <1>3, <1>b, ReadsType DEF ServerReads
    <2> QED
        BY <1>3, <2>1, <2>2 DEF ServerReads
<1>4. ASSUME NEW loads \in BOOLEAN, ServerApplies(j, loads)
      PROVE  SkillTypeOK'
    <2>1. LaneTypeOK'
        BY <1>4, OutcomeRange DEF ServerApplies
    <2>2. enabled' \in [Skills -> BOOLEAN]
        BY <1>4, <1>b DEF ServerApplies, Reverts
    <2> QED
        BY <1>4, <1>b, <2>1, <2>2, AppliesType DEF ServerApplies
<1>5. ASSUME NEW loads \in BOOLEAN, WorkerReconciles(j, loads)
      PROVE  SkillTypeOK'
    <2>1. LaneTypeOK'
        BY <1>5, <1>a DEF WorkerReconciles, LaneTypeOK
    <2>2. enabled' \in [Skills -> BOOLEAN]
        BY <1>5, <1>b DEF WorkerReconciles, Reverts
    <2> QED
        BY <1>5, <2>1, <2>2 DEF WorkerReconciles
<1>6. CASE Notifies(j)
    BY <1>6 DEF Notifies
<1> HIDE GoesType, RunnerEndsType DEF SkillTypeOK
<1> QED
    BY <1>1, <1>2, <1>3, <1>4, <1>5, <1>6 DEF RunnerStep

LEMMA PickupType ==
    ASSUME SkillTypeOK, PickupStep
    PROVE  SkillTypeOK'
<1> USE DEF SkillTypeOK
<1>a. \A m \in Jobs : job[m].skill \in Skills
    BY DEF LaneTypeOK, LifecycleJob
<1>1. CASE PollStarts
    BY <1>1 DEF PollStarts, Pending, laneVars, LaneTypeOK
<1>2. ASSUME NEW m \in Jobs, PickupReads(m)
      PROVE  SkillTypeOK'
    <2>1. enabled[job[m].skill] \in BOOLEAN
        BY <1>a
    <2> QED
        BY <1>2, <1>a, <2>1, ReadsType DEF PickupReads, laneVars, LaneTypeOK
<1>3. ASSUME NEW m \in Jobs, NEW loads \in BOOLEAN, PickupApplies(m, loads)
      PROVE  SkillTypeOK'
    BY <1>3, <1>a, AppliesType DEF PickupApplies, Unlinked, laneVars, LaneTypeOK
<1> QED
    BY <1>1, <1>2, <1>3 DEF PickupStep

LEMMA ReloadType ==
    ASSUME SkillTypeOK, ReloadStep
    PROVE  SkillTypeOK'
<1> USE DEF SkillTypeOK
<1>1. CASE Boots
    BY <1>1 DEF Boots, laneVars, LaneTypeOK
<1>2. ASSUME NEW s \in Skills, ReloadReads(s)
      PROVE  SkillTypeOK'
    <2>1. reload.seen[s] \in BOOLEAN
        OBVIOUS
    <2>2. reload' \in [todo : SUBSET Skills, seen : [Skills -> BOOLEAN]]
        BY <1>2 DEF ReloadReads
    <2>3. /\ recon' \in [Skills -> [by : {"nobody", "job", "pickup", "reload"},
                                    of : Jobs \cup {Nobody}, want : BOOLEAN]]
          /\ broken' = broken
        BY <1>2, <2>1 DEF ReloadReads, Reads
    <2> QED
        BY <1>2, <2>2, <2>3 DEF ReloadReads, laneVars, LaneTypeOK
<1>3. ASSUME NEW s \in Skills, NEW loads \in BOOLEAN, ReloadApplies(s, loads)
      PROVE  SkillTypeOK'
    BY <1>3, AppliesType DEF ReloadApplies, laneVars, LaneTypeOK
<1> QED
    BY <1>1, <1>2, <1>3 DEF ReloadStep

LEMMA TroubleType ==
    ASSUME SkillTypeOK, \A m \in Jobs : tries[m] < MaxAttempts \/ ~Picked(m), Trouble
    PROVE  SkillTypeOK'
<1> USE DEF SkillTypeOK
<1>a. \A m \in Jobs : job[m].skill \in Skills
    BY DEF LaneTypeOK, LifecycleJob
<1>b. Suffers => left' \in Nat
    BY DEF Suffers
<1>1. ASSUME NEW j \in Jobs, Wedges(j)
      PROVE  SkillTypeOK'
    <2>1. LaneTypeOK'
        BY <1>1, GoesType DEF Wedges, LaneTypeOK, PCs
    <2> QED
        BY <1>1, <1>b, <2>1 DEF Wedges
<1>2. ASSUME NEW j \in Jobs, ServerRaises(j)
      PROVE  SkillTypeOK'
    BY <1>2, <1>a, <1>b, RaisesType, RunnerEndsType, TroubleEnds, ZenonT(40) DEF ServerRaises, Lost
<1>3. ASSUME NEW j \in Jobs, GoesUnannounced(j)
      PROVE  SkillTypeOK'
    BY <1>3, <1>b, RunnerEndsType, TroubleEnds DEF GoesUnannounced, Lost
<1>4. ASSUME NEW m \in Jobs, PickupRaises(m)
      PROVE  SkillTypeOK'
    <2>1. tries' \in [Jobs -> 0 .. MaxAttempts]
        BY <1>4, AttemptsAssumption DEF PickupRaises
    <2> QED
        BY <1>4, <1>a, <2>1, RaisesType DEF PickupRaises, laneVars, LaneTypeOK
<1>5. ASSUME NEW s \in Skills, ReloadRaises(s)
      PROVE  SkillTypeOK'
    BY <1>5, RaisesType DEF ReloadRaises, Lost, laneVars, LaneTypeOK
<1>6. CASE ReloadStarts
    BY <1>6, <1>b DEF ReloadStarts, laneVars, LaneTypeOK
<1>7. CASE ServerRestarts
    <2>1. LaneTypeOK'
        BY <1>7, LaneDiesType DEF ServerRestarts, Procs
    <2>2. Idle \in [by : {"nobody", "job", "pickup", "reload"},
                    of : Jobs \cup {Nobody}, want : BOOLEAN]
        BY DEF Idle
    <2>3. recon' \in [Skills -> [by : {"nobody", "job", "pickup", "reload"},
                                 of : Jobs \cup {Nobody}, want : BOOLEAN]]
        BY <1>7, <2>2 DEF ServerRestarts
    <2> QED
        BY <1>7, <1>b, <2>1, <2>3 DEF ServerRestarts
<1>8. ASSUME NEW p \in Workers, WorkerDies(p)
      PROVE  SkillTypeOK'
    <2>1. LaneTypeOK'
        BY <1>8, LaneDiesType DEF WorkerDies, Procs
    <2> QED
        BY <1>8, <1>b, <2>1 DEF WorkerDies
<1> QED
    BY <1>1, <1>2, <1>3, <1>4, <1>5, <1>6, <1>7, <1>8 DEF Trouble
----------------------------------------------------------------------------
\* The lane.

InRunner == {"runner", "saved", "loading", "notify", "wedged"}
Held == {"queued", "running"} \cup InRunner

\* The file is held by the call whose runner is at work, and a review that is
\* queued or at work is the one the table names.
FileHeld == \A j \in Jobs : job[j].pc \in InRunner <=> flock = j
HeldIsActive == \A j \in Jobs : job[j].pc \in Held => Active(j)
OverIsFinished == \A j \in Jobs : job[j].pc \in {"over", "leaving"} => ~Active(j)
OnlyToolsBlock ==
    \A j \in Jobs : At(j, "blocked") => job[j].kind = "tool" /\ Active(j)
ReviewHoldsKey ==
    \A j \in Jobs : job[j].kind = "review" /\ job[j].pc \in Held
                        => dedupe[job[j].proc][job[j].skill] = j
LaneInv == /\ FileHeld /\ HeldIsActive /\ OverIsFinished /\ OnlyToolsBlock
           /\ ReviewHoldsKey

LEMMA LaneInvStarts == Init => LaneInv
BY NobodyAssumption
   DEF Init, LaneInit, NewJob, LaneInv, FileHeld, HeldIsActive, OverIsFinished,
       OnlyToolsBlock, ReviewHoldsKey, InRunner, Held, At, Active

LEMMA LaneInvStays ==
    ASSUME LaneInv, UNCHANGED laneVars
    PROVE  LaneInv'
BY DEF LaneInv, laneVars, FileHeld, HeldIsActive, OverIsFinished, OnlyToolsBlock,
       ReviewHoldsKey, At, Active

\* What a step that changes one call has to show.
LEMMA LaneInvOne ==
    ASSUME LaneInv, NEW j \in Jobs,
           \A i \in Jobs : i # j => job'[i] = job[i],
           \A i \in Jobs : i # j => (flock = i <=> flock' = i),
           \A i \in Jobs : /\ i # j
                           /\ dedupe[job[i].proc][job[i].skill] = i
                           /\ job[i].kind = "review" /\ job[i].pc \in Held
                           => dedupe'[job[i].proc][job[i].skill] = i,
           job'[j].pc \in InRunner <=> flock' = j,
           job'[j].pc \in Held => Active(j)',
           job'[j].pc \in {"over", "leaving"} => ~Active(j)',
           job'[j].pc = "blocked" => job'[j].kind = "tool" /\ Active(j)',
           job'[j].kind = "review" /\ job'[j].pc \in Held
               => dedupe'[job'[j].proc][job'[j].skill] = j
    PROVE  LaneInv'
<1>1. FileHeld'
    BY DEF LaneInv, FileHeld
<1>2. HeldIsActive'
    BY DEF LaneInv, HeldIsActive, Active
<1>3. OverIsFinished'
    BY DEF LaneInv, OverIsFinished, Active
<1>4. OnlyToolsBlock'
    BY DEF LaneInv, OnlyToolsBlock, Active, At
<1>5. ReviewHoldsKey'
    BY DEF LaneInv, ReviewHoldsKey
<1> QED
    BY <1>1, <1>2, <1>3, <1>4, <1>5 DEF LaneInv

\* The instances of the invariant for the call that moves.
LEMMA LaneInvAt ==
    ASSUME LaneInv, NEW j \in Jobs
    PROVE  /\ job[j].pc \in InRunner <=> flock = j
           /\ job[j].pc \in Held => Active(j)
           /\ job[j].pc \in {"over", "leaving"} => ~Active(j)
           /\ job[j].pc = "blocked" => job[j].kind = "tool" /\ Active(j)
           /\ job[j].kind = "review" /\ job[j].pc \in Held
                => dedupe[job[j].proc][job[j].skill] = j
BY DEF LaneInv, FileHeld, HeldIsActive, OverIsFinished, OnlyToolsBlock, ReviewHoldsKey, At

\* A call that moves inside its runner keeps the file, its key and its status.
LEMMA LaneInvMoves ==
    ASSUME LaneTypeOK, LaneInv, NEW j \in Jobs, job[j].pc \in InRunner,
           NEW pc \in InRunner, Goes(j, pc), UNCHANGED <<lane, flock, dedupe>>
    PROVE  LaneInv'
<1>1. /\ \A i \in Jobs : i # j => job'[i] = job[i]
      /\ job'[j].pc = pc /\ job'[j].kind = job[j].kind /\ job'[j].proc = job[j].proc
      /\ job'[j].skill = job[j].skill /\ job'[j].status = job[j].status
    BY DEF Goes, LaneTypeOK, LifecycleJob
<1>2. pc \notin {"over", "leaving", "blocked"} /\ pc \in Held /\ job[j].pc \in Held
    BY DEF InRunner, Held
<1> QED
    BY <1>1, <1>2, LaneInvAt, LaneInvOne DEF Active

\* A call that ends its runner frees the file.
LEMMA LaneInvEnds ==
    ASSUME LaneTypeOK, LaneInv, NEW j \in Jobs, job[j].pc \in InRunner,
           NEW status \in {"failed", "succeeded"}, RunnerEnds(j, status)
    PROVE  LaneInv'
<1>1. /\ \A i \in Jobs : i # j => job'[i] = job[i]
      /\ job'[j].pc \in {"done", "over"} /\ job'[j].status = status
      /\ flock' = Nobody /\ dedupe' = dedupe
    BY DEF RunnerEnds, Ends, LaneTypeOK, LifecycleJob
<1>2. /\ {"done", "over"} \cap Held = {} /\ {"done", "over"} \cap InRunner = {}
      /\ job'[j].pc # "blocked"
    BY <1>1 DEF Held, InRunner
<1>3. flock = j
    BY LaneInvAt
<1> QED
    BY <1>1, <1>2, <1>3, LaneInvOne, NobodyAssumption DEF Active

\* A step of the lane: the table is changed for the key of a call that leaves.
LEMMA LaneInvStep ==
    ASSUME LaneTypeOK, LaneInv, NEW j \in Jobs, LaneStep(j)
    PROVE  LaneInv'
<1> DEFINE Same == /\ \A i \in Jobs : i # j => job'[i] = job[i]
                   /\ job'[j].kind = job[j].kind /\ job'[j].proc = job[j].proc
                   /\ job'[j].skill = job[j].skill
<1>a. ASSUME NEW i \in Jobs, i # j, dedupe[job[i].proc][job[i].skill] = i
      PROVE  Released(j)[job[i].proc][job[i].skill] = i
    BY <1>a DEF Released, LaneTypeOK, LifecycleJob
<1>b. /\ {"queued", "running", "runner"} \subseteq Held
      /\ {"done", "over", "leaving", "blocked"} \cap Held = {}
      /\ {"done", "over", "leaving", "queued", "running", "blocked"} \cap InRunner = {}
      /\ "runner" \in InRunner
    BY DEF Held, InRunner
<1> USE LaneInvAt, LaneInvOne DEF Active
<1>1. CASE EnterLane(j)
    <2>1. Same /\ job[j].pc = "queued" /\ job'[j].pc = "running"
               /\ job'[j].status = "running" /\ flock' = flock /\ dedupe' = dedupe
        BY <1>1 DEF EnterLane, Ends, At, LaneTypeOK, LifecycleJob
    <2> QED
        BY <1>b, <2>1
<1>2. ASSUME NEW status \in {"failed", "cancelled"}, LeaveQueue(j, status)
      PROVE  LaneInv'
    <2>1. Same /\ job[j].pc = "queued" /\ job'[j].pc = "done" /\ flock' = flock
               /\ dedupe' = Released(j)
        BY <1>2 DEF LeaveQueue, Ends, At, LaneTypeOK, LifecycleJob
    <2> QED
        BY <1>a, <1>b, <2>1
<1>3. CASE TakeFile(j)
    <2>1. Same /\ job[j].pc \in {"running", "blocked"} /\ job'[j].pc = "runner"
               /\ job'[j].status = job[j].status /\ flock = Nobody /\ flock' = j
               /\ dedupe' = dedupe
        BY <1>3 DEF TakeFile, Goes, LaneTypeOK, LifecycleJob
    <2>2. Active(j)'
        BY <1>b, <2>1
    <2>3. job'[j].kind = "review" => dedupe'[job'[j].proc][job'[j].skill] = j
        BY <1>b, <2>1
    <2> QED
        BY <1>b, <2>1, <2>2, <2>3, NobodyAssumption
<1>4. ASSUME NEW status \in {"failed", "cancelled"}, GiveUpFile(j, status)
      PROVE  LaneInv'
    <2>1. Same /\ job[j].pc = "running" /\ job'[j].pc = "over"
               /\ job'[j].status = status /\ flock' = flock /\ dedupe' = dedupe
        BY <1>4 DEF GiveUpFile, Ends, At, LaneTypeOK, LifecycleJob
    <2> QED
        BY <1>4, <1>b, <2>1
<1>5. CASE ReleaseKey(j)
    <2>1. Same /\ job[j].pc = "over" /\ job'[j].pc = "leaving"
               /\ job'[j].status = job[j].status /\ flock' = flock
               /\ dedupe' = Released(j)
        BY <1>5 DEF ReleaseKey, Goes, At, LaneTypeOK, LifecycleJob
    <2> QED
        BY <1>a, <1>b, <2>1
<1>6. CASE LeaveLane(j)
    <2>1. Same /\ job[j].pc = "leaving" /\ job'[j].pc = "done" /\ flock' = flock
               /\ dedupe' = dedupe
        BY <1>6 DEF LeaveLane, Goes, At, LaneTypeOK, LifecycleJob
    <2> QED
        BY <1>b, <2>1
<1> HIDE LaneInvAt, LaneInvOne
<1> QED
    BY <1>1, <1>2, <1>3, <1>4, <1>5, <1>6 DEF LaneStep

\* A new review replaces only the entry of a call that is finished.
LEMMA LaneInvSubmit ==
    ASSUME LaneTypeOK, LaneInv, NEW j \in Jobs, NEW kind \in Kinds, NEW p \in Procs,
           NEW s \in Skills, NEW b \in BOOLEAN, Submit(j, kind, p, s, b)
    PROVE  LaneInv'
<1>a. {"done", "queued", "blocked", "new"} \cap InRunner = {}
      /\ "done" \notin Held /\ "blocked" \notin Held
    BY DEF Held, InRunner
<1>b. flock # j /\ flock' = flock /\ \A i \in Jobs : i # j => job'[i] = job[i]
    BY <1>a, LaneInvAt DEF Submit, At, LaneTypeOK
<1>1. CASE kind = "review" /\ Duplicate(p, s)
    <2>1. job'[j].pc = "done" /\ dedupe' = dedupe
        BY <1>1 DEF Submit, Call, LaneTypeOK
    <2> QED
        BY <1>a, <1>b, <2>1, LaneInvOne
<1>2. CASE kind = "review" /\ ~Duplicate(p, s)
    <2>1. /\ job'[j] = Call(kind, p, s, b) /\ dedupe' = [dedupe EXCEPT ![p][s] = j]
          /\ job'[j].pc = "queued" /\ job'[j].status = "queued"
          /\ job'[j].proc = p /\ job'[j].skill = s
        BY <1>2 DEF Submit, Call, LaneTypeOK
    <2>2. dedupe'[p][s] = j
        BY <2>1 DEF LaneTypeOK
    <2>3. ASSUME NEW i \in Jobs, i # j, job[i].kind = "review", job[i].pc \in Held,
                 dedupe[job[i].proc][job[i].skill] = i
          PROVE  dedupe'[job[i].proc][job[i].skill] = i
        <3>1. Active(i) /\ i # Nobody
            BY <2>3, LaneInvAt, NobodyAssumption
        <3>2. ~(job[i].proc = p /\ job[i].skill = s)
            BY <1>2, <2>3, <3>1 DEF Duplicate
        <3> QED
            BY <2>1, <2>3, <3>2 DEF LaneTypeOK, LifecycleJob
    <2> QED
        BY <1>a, <1>b, <2>1, <2>2, <2>3, LaneInvOne DEF Active
<1>3. CASE kind # "review"
    <2>1. /\ job'[j].pc = (IF kind = "tool" THEN "blocked" ELSE "queued")
          /\ job'[j].status = "queued" /\ job'[j].kind = kind /\ dedupe' = dedupe
        BY <1>3 DEF Submit, Call, LaneTypeOK
    <2> QED
        BY <1>3, <1>a, <1>b, <2>1, LaneInvOne DEF Active
<1> QED
    BY <1>1, <1>2, <1>3

\* A process that dies leaves nothing in the lane.
LEMMA LaneInvDies ==
    ASSUME LaneTypeOK, LaneInv, NEW p \in Procs, LaneDies(p)
    PROVE  LaneInv'
<1> DEFINE Dies(i) == job[i].proc = p /\ job[i].pc \notin {"new", "done"}
<1>1. /\ \A i \in Jobs : ~Dies(i) => job'[i] = job[i]
      /\ \A i \in Jobs : Dies(i) => job'[i].pc = "dead"
    BY DEF LaneDies, LaneTypeOK, LifecycleJob
<1>2. {"dead", "new", "done"} \cap Held = {} /\ {"dead", "new", "done"} \cap InRunner = {}
    BY DEF Held, InRunner
<1>3. \A i \in Jobs : job[i].proc # p => dedupe'[job[i].proc] = dedupe[job[i].proc]
    BY DEF LaneDies, LaneTypeOK, LifecycleJob
<1>4. flock' = (IF flock # Nobody /\ job[flock].proc = p THEN Nobody ELSE flock)
    BY DEF LaneDies
<1>5. FileHeld'
    BY <1>1, <1>2, <1>4, NobodyAssumption DEF LaneInv, FileHeld
<1>6. HeldIsActive' /\ OverIsFinished' /\ OnlyToolsBlock'
    BY <1>1, <1>2 DEF LaneInv, HeldIsActive, OverIsFinished, OnlyToolsBlock, At, Active
<1>7. ReviewHoldsKey'
    BY <1>1, <1>2, <1>3 DEF LaneInv, ReviewHoldsKey
<1> QED
    BY <1>5, <1>6, <1>7 DEF LaneInv
----------------------------------------------------------------------------
\* The markers.

Past == {"over", "leaving", "done", "dead"}

\* A marker is written by a runner that ends, the pickup loop works on one that
\* is pending and on no other of its list, and a pending one has attempts left.
MarkersAfter == \A m \in Jobs : marker[m] # "none" => job[m].pc \in Past
PollPending == \A m \in poll : marker[m] = "pending" /\ ~Picked(m)
PickupOfMarker ==
    \A s \in Skills : recon[s].by = "pickup" =>
        /\ recon[s].of \in Jobs
        /\ marker[recon[s].of] = "pending" /\ job[recon[s].of].skill = s
TriesLeft == \A m \in Jobs : /\ marker[m] = "none" => tries[m] = 0
                             /\ marker[m] = "pending" => tries[m] < MaxAttempts
MarkerInv == MarkersAfter /\ PollPending /\ PickupOfMarker /\ TriesLeft

\* No step takes a finished call back, or gives it another skill.
PastKept == \A i \in Jobs : job[i].pc \in Past => /\ job'[i].pc \in Past
                                                  /\ job'[i].skill = job[i].skill

LEMMA MarkerInvStarts == Init => MarkerInv
BY AttemptsAssumption
   DEF Init, MarkerInv, MarkersAfter, PollPending, PickupOfMarker, TriesLeft, Idle

\* Steps that leave the markers alone, and the reconciliations of the pickup loop.
LEMMA MarkerInvStays ==
    ASSUME SkillTypeOK, MarkerInv, PastKept, marker' = marker, tries' = tries,
           poll' \subseteq poll,
           \A s \in Skills : recon'[s] = recon[s] \/ recon'[s].by # "pickup"
    PROVE  MarkerInv'
<1>1. \A m \in Jobs : job[m].skill \in Skills
    BY DEF SkillTypeOK, LaneTypeOK, LifecycleJob
<1>2. MarkersAfter'
    BY DEF MarkerInv, MarkersAfter, PastKept
<1>3. \A m \in Jobs : marker[m] # "none" => job'[m].skill = job[m].skill
    BY DEF MarkerInv, MarkersAfter, PastKept
<1>4. PollPending'
    BY <1>1, <1>3 DEF SkillTypeOK, MarkerInv, PollPending, Picked
<1>5. PickupOfMarker'
    BY <1>3 DEF MarkerInv, PickupOfMarker
<1>6. TriesLeft'
    BY DEF MarkerInv, TriesLeft
<1> QED
    BY <1>2, <1>4, <1>5, <1>6 DEF MarkerInv

LEMMA NotifiesMarker ==
    ASSUME SkillTypeOK, MarkerInv, NEW j \in Jobs, Notifies(j)
    PROVE  MarkerInv'
<1>1. /\ \A i \in Jobs : i # j => job'[i] = job[i]
      /\ job'[j].pc \in Past /\ job'[j].skill = job[j].skill /\ job[j].pc \notin Past
    BY DEF Notifies, RunnerEnds, Ends, At, SkillTypeOK, LaneTypeOK, LifecycleJob, Past
<1>2. marker[j] = "none" /\ marker' = [marker EXCEPT ![j] = "pending"]
      /\ recon' = recon /\ poll' = poll /\ tries' = tries
    BY <1>1 DEF Notifies, MarkerInv, MarkersAfter
<1>3. MarkersAfter'
    BY <1>1, <1>2 DEF MarkerInv, MarkersAfter, SkillTypeOK
<1>4. j \notin poll
    BY <1>2 DEF MarkerInv, PollPending
<1>5. PollPending'
    BY <1>1, <1>2, <1>4 DEF MarkerInv, PollPending, Picked, SkillTypeOK
<1>6. PickupOfMarker'
    BY <1>1, <1>2 DEF MarkerInv, PickupOfMarker, SkillTypeOK
<1>7. TriesLeft'
    BY <1>2, AttemptsAssumption DEF MarkerInv, TriesLeft, SkillTypeOK
<1> QED
    BY <1>3, <1>5, <1>6, <1>7 DEF MarkerInv

LEMMA PickupMarker ==
    ASSUME SkillTypeOK, MarkerInv,
           PickupStep \/ \E m \in Jobs : PickupRaises(m)
    PROVE  MarkerInv'
<1>a. \A m \in Jobs : job[m].skill \in Skills
    BY DEF SkillTypeOK, LaneTypeOK, LifecycleJob
<1>1. CASE PollStarts
    <2>1. \A m \in Jobs : ~Picked(m)
        BY <1>1, <1>a DEF PollStarts, Working, Picked
    <2>2. poll' = Pending /\ UNCHANGED <<job, marker, tries, recon>>
        BY <1>1 DEF PollStarts, laneVars
    <2>3. PollPending'
        BY <2>1, <2>2 DEF PollPending, Pending, Picked
    <2> QED
        BY <2>2, <2>3 DEF MarkerInv, MarkersAfter, PickupOfMarker, TriesLeft
<1>2. ASSUME NEW m \in Jobs, PickupReads(m)
      PROVE  MarkerInv'
    <2>1. /\ UNCHANGED <<job, marker, tries>> /\ m \in poll /\ poll' = poll \ {m}
          /\ recon' = [recon EXCEPT ![job[m].skill] =
                         [by |-> "pickup", of |-> m, want |-> enabled[job[m].skill]]]
        BY <1>2 DEF PickupReads, Reads, laneVars
    <2>2. PollPending'
        BY <2>1 DEF MarkerInv, PollPending, Picked, SkillTypeOK
    <2>3. PickupOfMarker'
        BY <1>a, <2>1 DEF MarkerInv, PollPending, PickupOfMarker, SkillTypeOK
    <2> QED
        BY <2>1, <2>2, <2>3 DEF MarkerInv, MarkersAfter, TriesLeft
<1>3. ASSUME NEW m \in Jobs, Picked(m), UNCHANGED <<job, poll>>,
             recon' = [recon EXCEPT ![job[m].skill] = Idle],
             NEW now \in {"gone", "failed", "pending"},
             marker' = [marker EXCEPT ![m] = now],
             now = "pending" => tries'[m] < MaxAttempts,
             \A i \in Jobs : i # m => tries'[i] = tries[i]
      PROVE  MarkerInv'
    <2>1. marker[m] = "pending" /\ m \notin poll
        BY <1>3, <1>a DEF MarkerInv, PickupOfMarker, PollPending, Picked
    <2>2. MarkersAfter'
        BY <1>3, <2>1 DEF MarkerInv, MarkersAfter, SkillTypeOK
    <2>3. PollPending'
        BY <1>3, <1>a, <2>1 DEF MarkerInv, PollPending, Picked, SkillTypeOK, Idle
    <2>4. PickupOfMarker'
        BY <1>3, <1>a DEF MarkerInv, PickupOfMarker, Picked, SkillTypeOK, Idle
    <2>5. TriesLeft'
        BY <1>3 DEF MarkerInv, TriesLeft, SkillTypeOK
    <2> QED
        BY <2>2, <2>3, <2>4, <2>5 DEF MarkerInv
<1>4. ASSUME NEW m \in Jobs, NEW loads \in BOOLEAN, PickupApplies(m, loads)
      PROVE  MarkerInv'
    BY <1>3, <1>4 DEF PickupApplies, Applies, Unlinked, laneVars
<1>5. ASSUME NEW m \in Jobs, PickupRaises(m)
      PROVE  MarkerInv'
    <2>1. /\ Picked(m) /\ UNCHANGED <<job, poll>>
          /\ recon' = [recon EXCEPT ![job[m].skill] = Idle]
          /\ tries' = [tries EXCEPT ![m] = @ + 1]
        BY <1>5 DEF PickupRaises, Raises, laneVars
    <2>2. marker[m] = "pending"
        BY <2>1, <1>a DEF MarkerInv, PickupOfMarker, Picked
    <2>3. CASE GivenUp(m)
        <3>1. marker' = [marker EXCEPT ![m] = "failed"]
            BY <1>5, <2>3 DEF PickupRaises
        <3> QED
            BY <1>3, <2>1, <3>1 DEF SkillTypeOK
    <2>4. CASE ~GivenUp(m)
        <3>1. marker' = [marker EXCEPT ![m] = "pending"]
            BY <1>5, <2>2, <2>4 DEF PickupRaises, SkillTypeOK
        <3>2. tries'[m] < MaxAttempts
            BY <2>1, <2>4, AttemptsAssumption DEF GivenUp, SkillTypeOK
        <3> QED
            BY <1>3, <2>1, <3>1, <3>2 DEF SkillTypeOK
    <2> QED
        BY <2>3, <2>4
<1> QED
    BY <1>1, <1>2, <1>4, <1>5 DEF PickupStep
----------------------------------------------------------------------------
\* The surfaces.

\* The reconciliation of a call of the server has read the flag as it is: nobody
\* else writes it while the call holds the file.
LoadingReads ==
    \A j \in Jobs : At(j, "loading") =>
        /\ job[j].proc = Server
        /\ recon[job[j].skill] = [by |-> "job", of |-> j, want |-> enabled[job[j].skill]]

\* A change of the flag of s is announced by something other than one marker.
Announced(s, besides) ==
    \/ slip[s] # "none"
    \/ \E j \in Jobs : job[j].skill = s /\ Unannounced(j)
    \/ \E m \in Jobs : /\ m # besides /\ job[m].skill = s
                       /\ marker[m] \in {"pending", "failed"}

\* A flag the pickup loop read too early has been announced again.
Fresh(s) == recon[s].by = "pickup" /\ recon[s].want # enabled[s]
                => Announced(s, recon[s].of)
PickupIsFresh == \A s \in Skills : Fresh(s)

\* SurfaceOwed, arranged for the proof.
Settled(s) == \/ live[s] = enabled[s]
              \/ enabled[s] /\ broken[s]
              \/ booting /\ (s \in reload.todo \/ recon[s].by = "reload")
              \/ Announced(s, Nobody)
AllSettled == \A s \in Skills : Settled(s)

LEMMA SettledIsOwed == AllSettled <=> SurfaceOwed
BY NobodyAssumption DEF AllSettled, Settled, Announced, SurfaceOwed, Explained, Owed, Pending

SkillInv == /\ SkillTypeOK /\ LaneInv /\ MarkerInv
            /\ LoadingReads /\ PickupIsFresh /\ AllSettled

LEMMA SkillInvStarts == Init => SkillInv
<1> SUFFICES ASSUME Init PROVE SkillInv
    OBVIOUS
<1>1. LoadingReads
    BY DEF Init, LaneInit, NewJob, LoadingReads, At
<1>2. PickupIsFresh
    BY DEF Init, Idle, PickupIsFresh, Fresh
<1>3. AllSettled
    BY DEF Init, AllSettled, Settled
<1> QED
    BY <1>1, <1>2, <1>3, InitType, LaneInvStarts, MarkerInvStarts DEF SkillInv

\* What a call announces still is, after a step that leaves its skill alone.
LEMMA AnnouncedKept ==
    ASSUME SkillInv, PastKept, NEW s \in Skills, NEW b \in Jobs \cup {Nobody},
           Announced(s, b),
           slip[s] # "none" => slip'[s] # "none",
           \A j \in Jobs : job[j].skill = s /\ Unannounced(j)
                              => job'[j].skill = s /\ Unannounced(j)',
           \A m \in Jobs : m # b /\ job[m].skill = s /\ marker[m] \in {"pending", "failed"}
                              => marker'[m] \in {"pending", "failed"}
    PROVE  Announced(s, b)'
<1>1. \A m \in Jobs : marker[m] # "none" => job'[m].skill = job[m].skill
    BY DEF SkillInv, MarkerInv, MarkersAfter, PastKept
<1> QED
    BY <1>1 DEF Announced

\* A skill on which a step does nothing.
LEMMA Untouched ==
    ASSUME SkillInv, PastKept, NEW s \in Skills,
           live'[s] = live[s], enabled'[s] = enabled[s], broken'[s] = broken[s],
           recon'[s] = recon[s], slip'[s] = slip[s],
           booting /\ s \in reload.todo => booting' /\ s \in reload'.todo,
           booting /\ recon[s].by = "reload" => booting',
           \A j \in Jobs : job[j].skill = s /\ Unannounced(j)
                              => job'[j].skill = s /\ Unannounced(j)',
           \A m \in Jobs : job[m].skill = s /\ marker[m] \in {"pending", "failed"}
                              => marker'[m] \in {"pending", "failed"}
    PROVE  Settled(s)' /\ Fresh(s)'
<1>1. ASSUME NEW b \in Jobs \cup {Nobody}, Announced(s, b)
      PROVE  Announced(s, b)'
    BY <1>1, AnnouncedKept
<1>2. Settled(s)
    BY DEF SkillInv, AllSettled
<1>3. Settled(s)'
    BY <1>1, <1>2 DEF Settled
<1>4. Fresh(s)'
    <2>1. PICK b \in Jobs \cup {Nobody} : b = recon[s].of
        BY DEF SkillInv, SkillTypeOK
    <2>2. Fresh(s)
        BY DEF SkillInv, PickupIsFresh
    <2>3. CASE Announced(s, b)
        BY <1>1, <2>1, <2>3 DEF Fresh, Announced
    <2>4. CASE ~(recon[s].by = "pickup" /\ recon[s].want # enabled[s])
        BY <2>4 DEF Fresh
    <2> QED
        BY <2>1, <2>2, <2>3, <2>4 DEF Fresh
<1> QED
    BY <1>3, <1>4

\* A reconciliation ends with the surfaces at the flag it has read.
LEMMA AppliesSettles ==
    ASSUME SkillTypeOK, NEW s \in Skills, NEW loads \in BOOLEAN, Applies(s, loads),
           recon[s].want = enabled[s], enabled'[s] = enabled[s]
    PROVE  Settled(s)'
<1>1. live'[s] = (enabled[s] /\ (live[s] \/ loads))
      /\ broken'[s] = (enabled[s] /\ ~live[s] /\ ~loads)
    BY DEF Applies, SkillTypeOK
<1>2. enabled[s] \in BOOLEAN /\ live[s] \in BOOLEAN
    BY DEF SkillTypeOK
<1> QED
    BY <1>1, <1>2 DEF Settled

\* What is left to show of a step: the type and the lane are kept above.
SurfaceInv == MarkerInv /\ LoadingReads /\ PickupIsFresh /\ AllSettled

\* A step that concerns one skill has to show its part for that skill.
LEMMA OnlyTouches ==
    ASSUME SkillInv, PastKept, NEW s \in Skills, Settled(s)', Fresh(s)',
           \A r \in Skills : r # s =>
               /\ live'[r] = live[r] /\ enabled'[r] = enabled[r] /\ broken'[r] = broken[r]
               /\ recon'[r] = recon[r] /\ slip'[r] = slip[r]
               /\ r \in reload.todo => r \in reload'.todo,
           booting' = booting,
           \A j \in Jobs : job[j].skill # s /\ Unannounced(j) => job'[j] = job[j],
           \A m \in Jobs : job[m].skill # s => marker'[m] = marker[m]
    PROVE  PickupIsFresh' /\ AllSettled'
<1>1. ASSUME NEW r \in Skills, r # s
      PROVE  Settled(r)' /\ Fresh(r)'
    <2>1. \A j \in Jobs : job[j].skill = r /\ Unannounced(j)
                             => job'[j].skill = r /\ Unannounced(j)'
        BY <1>1 DEF Unannounced
    <2> QED
        BY <1>1, <2>1, Untouched
<1> QED
    BY <1>1 DEF PickupIsFresh, AllSettled

\* A step of one call that announces nothing and has nothing announced.
LEMMA QuietStays ==
    ASSUME SkillInv, NEW j \in Jobs,
           \A i \in Jobs : i # j => job'[i] = job[i],
           ~Unannounced(j), ~Unannounced(j)',
           job[j].pc \in Past => job'[j].pc \in Past /\ job'[j].skill = job[j].skill,
           UNCHANGED <<enabled, live, broken, recon, marker, tries, poll, reload,
                       booting, slip>>
    PROVE  SurfaceInv'
<1>1. PastKept
    BY DEF PastKept
<1>2. MarkerInv'
    BY <1>1, MarkerInvStays DEF SkillInv
<1>3. LoadingReads'
    BY DEF SkillInv, LoadingReads, Unannounced, At
<1>4. ASSUME NEW s \in Skills
      PROVE  Settled(s)' /\ Fresh(s)'
    <2>1. \A i \in Jobs : job[i].skill = s /\ Unannounced(i)
                             => job'[i].skill = s /\ Unannounced(i)'
        BY DEF Unannounced
    <2> QED
        BY <1>1, <2>1, Untouched
<1> QED
    BY <1>2, <1>3, <1>4 DEF SurfaceInv, PickupIsFresh, AllSettled

LEMMA GoesFacts ==
    ASSUME SkillTypeOK, NEW j \in Jobs, NEW pc, Goes(j, pc)
    PROVE  /\ \A i \in Jobs : i # j => job'[i] = job[i]
           /\ job'[j].pc = pc /\ job'[j].skill = job[j].skill
           /\ job'[j].proc = job[j].proc
BY DEF Goes, SkillTypeOK, LaneTypeOK, LifecycleJob

LEMMA EndsFacts ==
    ASSUME SkillTypeOK, NEW j \in Jobs, NEW pc, NEW status, Ends(j, pc, status)
    PROVE  /\ \A i \in Jobs : i # j => job'[i] = job[i]
           /\ job'[j].pc = pc /\ job'[j].skill = job[j].skill
BY DEF Ends, SkillTypeOK, LaneTypeOK, LifecycleJob

LEMMA RunnerEndsFacts ==
    ASSUME SkillTypeOK, NEW j \in Jobs, NEW status, RunnerEnds(j, status)
    PROVE  /\ \A i \in Jobs : i # j => job'[i] = job[i]
           /\ job'[j].pc \in {"done", "over"} /\ job'[j].skill = job[j].skill
BY EndsFacts DEF RunnerEnds

\* While one runner is at work, no other call is loading.
LEMMA OneRunner ==
    ASSUME SkillInv, NEW j \in Jobs, job[j].pc \in InRunner,
           \A i \in Jobs : i # j => job'[i] = job[i]
    PROVE  \A i \in Jobs : i # j => ~At(i, "loading")'
<1>1. flock = j
    BY LaneInvAt DEF SkillInv
<1>2. \A i \in Jobs : i # j => job[i].pc # "loading"
    BY <1>1, LaneInvAt DEF SkillInv, InRunner
<1> QED
    BY <1>2 DEF At

\* A step on a skill that no call is loading.
LEMMA LoadingStays ==
    ASSUME SkillInv, job' = job, enabled' = enabled, NEW s \in Skills,
           recon[s].by # "job", \A r \in Skills : r # s => recon'[r] = recon[r]
    PROVE  LoadingReads'
<1>1. ASSUME NEW j \in Jobs, At(j, "loading")
      PROVE  /\ job[j].proc = Server
             /\ recon'[job[j].skill]
                    = [by |-> "job", of |-> j, want |-> enabled[job[j].skill]]
    <2>1. PICK r \in Skills : r = job[j].skill
        BY DEF SkillInv, SkillTypeOK, LaneTypeOK, LifecycleJob
    <2>2. job[j].proc = Server /\ recon[r] = [by |-> "job", of |-> j, want |-> enabled[r]]
        BY <1>1, <2>1 DEF SkillInv, LoadingReads
    <2> QED
        BY <2>1, <2>2
<1> QED
    BY <1>1 DEF LoadingReads, At

\* The steps that only move a call in the lane.
LEMMA LaneSurface ==
    ASSUME SkillInv, NEW j \in Jobs, Asks(j) \/ LaneMoves(j) \/ RunnerRefuses(j) \/ Wedges(j)
    PROVE  SurfaceInv'
<1> USE DEF Unannounced, Past
<1>1. CASE Asks(j)
    <2>1. PICK kind \in Kinds, p \in Procs, s \in Skills, b \in BOOLEAN :
              Submit(j, kind, p, s, b)
        BY <1>1 DEF Asks
    <2>t. LaneTypeOK
        BY DEF SkillInv, SkillTypeOK
    <2>2. \A i \in Jobs : i # j => job'[i] = job[i]
        BY <2>1, <2>t DEF Submit, LaneTypeOK
    <2>3. job'[j].pc \in {"done", "queued", "blocked"}
        <3>1. CASE kind = "review" /\ Duplicate(p, s)
            <4>1. job' = [job EXCEPT ![j] = [Call(kind, p, s, b) EXCEPT !.pc = "done",
                                                                   !.status = "failed"]]
                BY <2>1, <3>1 DEF Submit
            <4> QED
                BY <2>t, <4>1 DEF Call, LaneTypeOK
        <3>2. CASE ~(kind = "review" /\ Duplicate(p, s))
            <4>1. job' = [job EXCEPT ![j] = Call(kind, p, s, b)]
                BY <2>1, <3>2 DEF Submit
            <4> QED
                BY <2>t, <4>1 DEF Call, LaneTypeOK
        <3> QED
            BY <3>1, <3>2
    <2>4. job[j].pc = "new"
        BY <2>1 DEF Submit, At
    <2> QED
        BY <1>1, <2>2, <2>3, <2>4, QuietStays DEF Asks, surfaceVars
<1>2. CASE LaneMoves(j)
    <2>1. /\ \A i \in Jobs : i # j => job'[i] = job[i]
          /\ job[j].pc \in {"queued", "running", "blocked", "over", "leaving"}
          /\ job'[j].pc \in {"running", "done", "runner", "over", "leaving"}
          /\ job[j].pc \in {"over", "leaving"} => job'[j].pc \in {"leaving", "done"}
          /\ job'[j].skill = job[j].skill
        <3> USE GoesFacts, EndsFacts DEF SkillInv, At
        <3>1. CASE EnterLane(j)
            BY <3>1 DEF EnterLane
        <3>2. CASE \E status \in {"failed", "cancelled"} : LeaveQueue(j, status)
            BY <3>2 DEF LeaveQueue
        <3>3. CASE TakeFile(j)
            BY <3>3 DEF TakeFile
        <3>4. CASE \E status \in {"failed", "cancelled"} : GiveUpFile(j, status)
            BY <3>4 DEF GiveUpFile
        <3>5. CASE ReleaseKey(j)
            BY <3>5 DEF ReleaseKey
        <3>6. CASE LeaveLane(j)
            BY <3>6 DEF LeaveLane
        <3> QED
            BY <1>2, <3>1, <3>2, <3>3, <3>4, <3>5, <3>6 DEF LaneMoves, LaneStep
    <2> QED
        BY <1>2, <2>1, QuietStays DEF LaneMoves, surfaceVars
<1>3. CASE RunnerRefuses(j)
    BY <1>3, RunnerEndsFacts, QuietStays DEF RunnerRefuses, At, surfaceVars, SkillInv
<1>4. CASE Wedges(j)
    BY <1>4, GoesFacts, QuietStays DEF Wedges, At, SkillInv
<1> QED
    BY <1>1, <1>2, <1>3, <1>4

\* The steps of a runner past its guards: it holds the file.
LEMMA RunnerSurface ==
    ASSUME SkillInv, NEW j \in Jobs,
           RunnerStep(j) \/ ServerRaises(j) \/ GoesUnannounced(j)
    PROVE  SurfaceInv'
<1>s. PICK s \in Skills : s = job[j].skill
    BY DEF SkillInv, SkillTypeOK, LaneTypeOK, LifecycleJob
<1> USE <1>s
<1>0. CASE RunnerRefuses(j)
    BY <1>0, LaneSurface
<1> DEFINE One == /\ \A i \in Jobs : i # j => job'[i] = job[i]
                  /\ job'[j].skill = s /\ job[j].pc \in InRunner
<1>a. ASSUME One
      PROVE  PastKept
    BY <1>a DEF PastKept, Past, InRunner
\* The skill of the call is left announced by the call itself.
<1>b. ASSUME One, Unannounced(j)', job'[j].pc # "loading",
             UNCHANGED <<live, broken, recon, marker, tries, poll, reload, booting, slip>>,
             \A r \in Skills : r # s => enabled'[r] = enabled[r]
      PROVE  SurfaceInv'
    <2>1. PastKept
        BY <1>a, <1>b
    <2>2. MarkerInv'
        BY <1>b, <2>1, MarkerInvStays DEF SkillInv
    <2>3. LoadingReads'
        BY <1>b, OneRunner DEF LoadingReads, At
    <2>4. \A b : Announced(s, b)'
        BY <1>b DEF Announced
    <2>5. Settled(s)' /\ Fresh(s)'
        BY <1>b, <2>4 DEF Settled, Fresh, Announced
    <2> QED
        BY <1>b, <1>s, <2>1, <2>2, <2>3, <2>5, OnlyTouches DEF SurfaceInv
<1>1. CASE SavesFlag(j)
    <2>1. One /\ job'[j].pc = "saved"
        BY <1>1, GoesFacts DEF SavesFlag, At, InRunner, SkillInv
    <2>2. \A r \in Skills : r # s => enabled'[r] = enabled[r]
        BY <1>1 DEF SavesFlag, SkillInv, SkillTypeOK
    <2> QED
        BY <1>1, <1>b, <2>1, <2>2 DEF SavesFlag, Unannounced
<1>2. ASSUME NEW loads \in BOOLEAN, WorkerReconciles(j, loads)
      PROVE  SurfaceInv'
    <2>1. One /\ job'[j].pc = "notify"
        BY <1>2, GoesFacts DEF WorkerReconciles, At, InRunner, SkillInv
    <2>2. \A r \in Skills : r # s => enabled'[r] = enabled[r]
        BY <1>2 DEF WorkerReconciles, Reverts, SkillInv, SkillTypeOK
    <2> QED
        BY <1>2, <1>b, <2>1, <2>2 DEF WorkerReconciles, Unannounced
<1>3. CASE ServerReads(j)
    <2>1. One /\ job'[j].pc = "loading" /\ Unannounced(j)' /\ job'[j].proc = Server
        BY <1>3, GoesFacts DEF ServerReads, At, InRunner, SkillInv, Unannounced
    <2>2. /\ recon' = [recon EXCEPT ![s] = [by |-> "job", of |-> j, want |-> enabled[s]]]
          /\ UNCHANGED <<enabled, live, broken, marker, tries, poll, reload, booting, slip>>
        BY <1>3 DEF ServerReads, Reads
    <2>3. PastKept
        BY <1>a, <2>1
    <2>4. MarkerInv'
        BY <2>2, <2>3, MarkerInvStays DEF SkillInv, SkillTypeOK
    <2>5. LoadingReads'
        BY <1>s, <2>1, <2>2, OneRunner DEF LoadingReads, At, SkillInv, SkillTypeOK
    <2>6. Settled(s)' /\ Fresh(s)'
        BY <1>s, <2>1, <2>2 DEF Settled, Fresh, Announced, SkillInv, SkillTypeOK
    <2>7. \A r \in Skills : r # s => recon'[r] = recon[r]
        BY <2>2 DEF SkillInv, SkillTypeOK
    <2> QED
        BY <1>s, <2>1, <2>2, <2>3, <2>4, <2>5, <2>6, <2>7, OnlyTouches DEF SurfaceInv
\* The call ends its reconciliation, and every reconciliation of the skill.
<1>c. ASSUME One, job'[j].pc \in {"done", "over"}, At(j, "loading"),
             UNCHANGED <<marker, tries, poll, reload, booting>>,
             recon' = [recon EXCEPT ![s] = Idle], Settled(s)',
             \A r \in Skills : r # s => /\ live'[r] = live[r] /\ enabled'[r] = enabled[r]
                                        /\ broken'[r] = broken[r] /\ slip'[r] = slip[r]
      PROVE  SurfaceInv'
    <2>1. PastKept
        BY <1>a, <1>c
    <2>2. recon'[s].by # "pickup" /\ \A r \in Skills : r # s => recon'[r] = recon[r]
        BY <1>c, <1>s DEF SkillInv, SkillTypeOK, Idle
    <2>3. MarkerInv'
        BY <1>c, <2>1, <2>2, MarkerInvStays DEF SkillInv
    <2>4. LoadingReads'
        BY <1>c, OneRunner DEF LoadingReads, At
    <2>5. Fresh(s)'
        BY <2>2 DEF Fresh
    <2> QED
        BY <1>c, <1>s, <2>1, <2>2, <2>3, <2>4, <2>5, OnlyTouches DEF SurfaceInv
<1>4. ASSUME NEW loads \in BOOLEAN, ServerApplies(j, loads)
      PROVE  SurfaceInv'
    <2>1. One /\ job'[j].pc \in {"done", "over"} /\ At(j, "loading")
        BY <1>4, RunnerEndsFacts DEF ServerApplies, At, InRunner, SkillInv
    <2>2. /\ recon' = [recon EXCEPT ![s] = Idle]
          /\ live' = [live EXCEPT ![s] = recon[s].want /\ (live[s] \/ loads)]
          /\ broken' = [broken EXCEPT ![s] = recon[s].want /\ ~live[s] /\ ~loads]
          /\ enabled' = [enabled EXCEPT ![s] = @ /\ ~(broken'[s] /\ job[j].want)]
        BY <1>4 DEF ServerApplies, Applies, Reverts
    <2>9. \A r \in Skills : r # s => slip'[r] = slip[r]
        BY <1>4 DEF ServerApplies, Applies, SkillInv, SkillTypeOK
    <2>3. recon[s].want = enabled[s]
        <3>1. recon[job[j].skill] = [by |-> "job", of |-> j, want |-> enabled[job[j].skill]]
            BY <2>1 DEF SkillInv, LoadingReads
        <3> QED
            BY <3>1
    <2>4. enabled[s] \in BOOLEAN /\ live[s] \in BOOLEAN
        BY <1>s DEF SkillInv, SkillTypeOK
    <2>5. /\ live'[s] = (enabled[s] /\ (live[s] \/ loads))
          /\ broken'[s] = (enabled[s] /\ ~live[s] /\ ~loads)
          /\ enabled'[s] = (enabled[s] /\ ~(broken'[s] /\ job[j].want))
        BY <1>s, <2>2, <2>3 DEF SkillInv, SkillTypeOK
    <2>6. live'[s] = enabled'[s] \/ (enabled'[s] /\ broken'[s])
        BY <2>4, <2>5
    <2>7. Settled(s)'
        BY <2>6 DEF Settled
    <2>8. \A r \in Skills : r # s => /\ live'[r] = live[r] /\ enabled'[r] = enabled[r]
                                     /\ broken'[r] = broken[r]
        BY <2>2 DEF SkillInv, SkillTypeOK
    <2> QED
        BY <1>4, <1>c, <2>1, <2>2, <2>7, <2>8, <2>9 DEF ServerApplies
<1>5. CASE ServerRaises(j)
    <2>1. One /\ job'[j].pc \in {"done", "over"} /\ At(j, "loading")
        BY <1>5, RunnerEndsFacts DEF ServerRaises, At, InRunner, SkillInv
    <2>2. slip'[s] = "lost" /\ \A r \in Skills : r # s => slip'[r] = slip[r]
        BY <1>5, <1>s DEF ServerRaises, Lost, SkillInv, SkillTypeOK
    <2>3. Settled(s)'
        BY <2>2 DEF Settled, Announced
    <2> QED
        BY <1>5, <1>c, <2>1, <2>2, <2>3 DEF ServerRaises, Raises
<1>6. CASE GoesUnannounced(j)
    <2>1. One /\ job'[j].pc \in {"done", "over"}
        BY <1>6, RunnerEndsFacts DEF GoesUnannounced, At, InRunner, SkillInv
    <2>2. slip'[s] = "lost" /\ \A r \in Skills : r # s => slip'[r] = slip[r]
        BY <1>6, <1>s DEF GoesUnannounced, Lost, SkillInv, SkillTypeOK
    <2>3. UNCHANGED <<enabled, live, broken, recon, marker, tries, poll, reload, booting>>
        BY <1>6 DEF GoesUnannounced
    <2>4. PastKept
        BY <1>a, <2>1
    <2>5. MarkerInv'
        BY <2>3, <2>4, MarkerInvStays DEF SkillInv
    <2>6. LoadingReads'
        BY <2>1, OneRunner DEF LoadingReads, At
    <2>7. Settled(s)' /\ Fresh(s)'
        BY <2>2 DEF Settled, Fresh, Announced
    <2> QED
        BY <1>s, <2>1, <2>2, <2>3, <2>4, <2>5, <2>6, <2>7, OnlyTouches DEF SurfaceInv
<1>7. CASE Notifies(j)
    <2>1. One /\ job'[j].pc \in {"done", "over"}
        BY <1>7, RunnerEndsFacts DEF Notifies, At, InRunner, SkillInv
    <2>2. /\ marker' = [marker EXCEPT ![j] = "pending"]
          /\ UNCHANGED <<enabled, live, broken, recon, tries, poll, reload, booting, slip>>
        BY <1>7 DEF Notifies
    <2>3. PastKept
        BY <1>a, <2>1
    <2>4. MarkerInv'
        BY <1>7, NotifiesMarker DEF SkillInv
    <2>5. LoadingReads'
        BY <2>1, OneRunner DEF LoadingReads, At
    <2>6. \A b : b # j => Announced(s, b)'
        BY <2>1, <2>2 DEF Announced, SkillInv, SkillTypeOK
    <2>7. recon[s].by = "pickup" => recon[s].of # j
        BY <1>s, <2>1 DEF SkillInv, MarkerInv, PickupOfMarker, MarkersAfter, Past, InRunner
    <2>8. Settled(s)' /\ Fresh(s)'
        BY <2>2, <2>6, <2>7, NobodyAssumption DEF Settled, Fresh, Announced
    <2> QED
        BY <1>s, <2>1, <2>2, <2>3, <2>4, <2>5, <2>8, OnlyTouches
           DEF SurfaceInv, SkillInv, SkillTypeOK
<1> QED
    BY <1>0, <1>1, <1>2, <1>3, <1>4, <1>5, <1>6, <1>7 DEF RunnerStep

\* The steps of the pickup loop.
LEMMA PickupSurface ==
    ASSUME SkillInv, PickupStep \/ \E m \in Jobs : PickupRaises(m)
    PROVE  SurfaceInv'
<1>1. job' = job /\ UNCHANGED <<enabled, reload, booting>>
    BY DEF PickupStep, PollStarts, PickupReads, PickupApplies, PickupRaises, laneVars
<1>2. PastKept
    BY <1>1 DEF PastKept
<1>3. MarkerInv'
    BY PickupMarker DEF SkillInv
<1>4. CASE PollStarts
    <2>1. UNCHANGED <<live, broken, recon, marker, slip>>
        BY <1>4 DEF PollStarts
    <2>2. LoadingReads'
        BY <1>1, <2>1 DEF SkillInv, LoadingReads, At
    <2>3. \A s \in Skills : Settled(s)' /\ Fresh(s)'
        BY <1>1, <1>2, <2>1, Untouched DEF Unannounced
    <2> QED
        BY <1>3, <2>2, <2>3 DEF SurfaceInv, PickupIsFresh, AllSettled
<1>5. ASSUME NEW m \in Jobs, PickupReads(m)
      PROVE  SurfaceInv'
    <2>1. PICK s \in Skills : s = job[m].skill
        BY DEF SkillInv, SkillTypeOK, LaneTypeOK, LifecycleJob
    <2>2. /\ recon[s] = Idle
          /\ recon' = [recon EXCEPT ![s] = [by |-> "pickup", of |-> m, want |-> enabled[s]]]
          /\ UNCHANGED <<live, broken, marker, slip>>
        BY <1>5, <2>1 DEF PickupReads, Reads, Busy
    <2>3. \A r \in Skills : r # s => recon'[r] = recon[r]
        BY <2>2 DEF SkillInv, SkillTypeOK
    <2>4. recon'[s] = [by |-> "pickup", of |-> m, want |-> enabled[s]]
        BY <2>2 DEF SkillInv, SkillTypeOK
    <2>5. LoadingReads'
        BY <1>1, <2>2, <2>3, LoadingStays DEF Idle
    <2>6. Settled(s)
        BY DEF SkillInv, AllSettled
    <2>7. Settled(s)' /\ Fresh(s)'
        BY <1>1, <2>2, <2>4, <2>6 DEF Settled, Fresh, Announced, Unannounced, Idle
    <2> QED
        BY <1>1, <1>2, <1>3, <2>2, <2>3, <2>5, <2>7, OnlyTouches DEF SurfaceInv
\* The loop is done with marker m, or has failed on it.
<1>6. ASSUME NEW m \in Jobs, Picked(m), NEW s \in Skills, s = job[m].skill,
             recon' = [recon EXCEPT ![s] = Idle], Settled(s)',
             \A i \in Jobs : i # m => marker'[i] = marker[i],
             \A r \in Skills : r # s => /\ live'[r] = live[r] /\ broken'[r] = broken[r]
                                        /\ slip'[r] = slip[r]
      PROVE  SurfaceInv'
    <2>1. \A r \in Skills : r # s => recon'[r] = recon[r]
        BY <1>6 DEF SkillInv, SkillTypeOK
    <2>2. recon'[s].by # "pickup"
        BY <1>6 DEF SkillInv, SkillTypeOK, Idle
    <2>3. LoadingReads'
        BY <1>1, <1>6, <2>1, LoadingStays DEF Picked
    <2>4. Fresh(s)'
        BY <2>2 DEF Fresh
    <2> QED
        BY <1>1, <1>2, <1>3, <1>6, <2>1, <2>3, <2>4, OnlyTouches DEF SurfaceInv
<1>7. ASSUME NEW m \in Jobs, NEW loads \in BOOLEAN, PickupApplies(m, loads)
      PROVE  SurfaceInv'
    <2>1. PICK s \in Skills : s = job[m].skill
        BY DEF SkillInv, SkillTypeOK, LaneTypeOK, LifecycleJob
    <2>2. /\ Picked(m) /\ Applies(s, loads) /\ recon' = [recon EXCEPT ![s] = Idle]
          /\ marker' = [marker EXCEPT ![m] = "gone"]
        BY <1>7, <2>1 DEF PickupApplies, Applies, Unlinked
    <2>3. /\ recon[s].by = "pickup" /\ recon[s].of = m
          /\ \A i \in Jobs : i # m => marker'[i] = marker[i]
        BY <2>1, <2>2 DEF Picked, SkillInv, SkillTypeOK
    <2>4. \A r \in Skills : r # s => /\ live'[r] = live[r] /\ broken'[r] = broken[r]
                                     /\ slip'[r] = slip[r]
        BY <2>2 DEF Applies, SkillInv, SkillTypeOK
    <2>5. CASE recon[s].want = enabled[s]
        <3>1. Settled(s)'
            BY <1>1, <2>2, <2>5, AppliesSettles DEF SkillInv
        <3> QED
            BY <1>6, <2>1, <2>2, <2>3, <2>4, <3>1
    <2>6. CASE recon[s].want # enabled[s]
        <3>1. slip' = slip
            BY <2>2, <2>3, <2>6 DEF Applies
        <3>2. Announced(s, m)
            BY <2>3, <2>6 DEF SkillInv, PickupIsFresh, Fresh
        <3>3. Announced(s, Nobody)'
            BY <1>1, <2>3, <3>1, <3>2, NobodyAssumption DEF Announced, Unannounced
        <3>4. Settled(s)'
            BY <3>3 DEF Settled
        <3> QED
            BY <1>6, <2>1, <2>2, <2>3, <2>4, <3>4
    <2> QED
        BY <2>5, <2>6
<1>8. ASSUME NEW m \in Jobs, PickupRaises(m)
      PROVE  SurfaceInv'
    <2>1. PICK s \in Skills : s = job[m].skill
        BY DEF SkillInv, SkillTypeOK, LaneTypeOK, LifecycleJob
    <2>2. /\ Picked(m) /\ recon' = [recon EXCEPT ![s] = Idle]
          /\ UNCHANGED <<live, broken, slip>>
        BY <1>8, <2>1 DEF PickupRaises, Raises
    <2>3. marker[m] = "pending"
        BY <2>1, <2>2 DEF SkillInv, MarkerInv, PickupOfMarker, Picked
    <2>4. marker'[m] \in {"pending", "failed"} /\ \A i \in Jobs : i # m => marker'[i] = marker[i]
        BY <1>8, <2>3 DEF PickupRaises, SkillInv, SkillTypeOK
    <2>5. Settled(s)'
        BY <1>1, <2>1, <2>4, NobodyAssumption DEF Settled, Announced
    <2> QED
        BY <1>6, <2>1, <2>2, <2>4, <2>5
<1> QED
    BY <1>4, <1>5, <1>7, <1>8 DEF PickupStep

\* The steps of reload_all, the boot among them.
LEMMA ReloadSurface ==
    ASSUME SkillInv, ReloadStep \/ ReloadStarts \/ \E s \in Skills : ReloadRaises(s)
    PROVE  SurfaceInv'
<1>1. job' = job /\ UNCHANGED <<enabled, marker, tries, poll>>
    BY DEF ReloadStep, Boots, ReloadReads, ReloadApplies, ReloadRaises, ReloadStarts, laneVars
<1>2. PastKept
    BY <1>1 DEF PastKept
\* A step that works on no skill, while the boot has none to visit either.
<1>3. ASSUME UNCHANGED <<live, broken, recon, slip>>, reload.todo = {}, ~Working("reload")
      PROVE  SurfaceInv'
    <2>1. MarkerInv'
        BY <1>1, <1>2, <1>3, MarkerInvStays DEF SkillInv
    <2>2. LoadingReads'
        BY <1>1, <1>3 DEF SkillInv, LoadingReads, At
    <2>3. ASSUME NEW s \in Skills
          PROVE  Settled(s)' /\ Fresh(s)'
        <3>1. \A j \in Jobs : job[j].skill = s /\ Unannounced(j)
                                 => job'[j].skill = s /\ Unannounced(j)'
            BY <1>1 DEF Unannounced
        <3>2. s \notin reload.todo /\ recon[s].by # "reload"
            BY <1>3 DEF Working
        <3>3. UNCHANGED <<live, enabled, broken, recon, slip, marker>>
            BY <1>1, <1>3
        <3> QED
            BY <1>2, <3>1, <3>2, <3>3, Untouched
    <2> QED
        BY <2>1, <2>2, <2>3 DEF SurfaceInv, PickupIsFresh, AllSettled
<1>4. CASE Boots
    BY <1>3, <1>4 DEF Boots
<1>5. CASE ReloadStarts
    BY <1>3, <1>5 DEF ReloadStarts
\* A step on one skill.
<1>6. ASSUME NEW s \in Skills, Settled(s)', booting' = booting, recon'[s].by # "pickup",
             recon[s].by \in {"nobody", "reload"},
             \A r \in Skills : r # s =>
                 /\ live'[r] = live[r] /\ broken'[r] = broken[r] /\ recon'[r] = recon[r]
                 /\ slip'[r] = slip[r] /\ (r \in reload.todo => r \in reload'.todo)
      PROVE  SurfaceInv'
    <2>1. MarkerInv'
        BY <1>1, <1>2, <1>6, MarkerInvStays DEF SkillInv
    <2>2. LoadingReads'
        BY <1>1, <1>6, LoadingStays
    <2>3. Fresh(s)'
        BY <1>6 DEF Fresh
    <2> QED
        BY <1>1, <1>2, <1>6, <2>1, <2>2, <2>3, OnlyTouches DEF SurfaceInv
<1>7. ASSUME NEW s \in Skills, ReloadReads(s)
      PROVE  SurfaceInv'
    <2>1. /\ recon[s] = Idle /\ UNCHANGED <<live, broken, slip, booting>>
          /\ recon' = [recon EXCEPT ![s] = [by |-> "reload", of |-> Nobody,
                                           want |-> reload.seen[s]]]
          /\ reload' = [reload EXCEPT !.todo = @ \ {s}]
        BY <1>7 DEF ReloadReads, Reads, Busy
    <2>2. /\ recon'[s].by = "reload" /\ \A r \in Skills : r # s => recon'[r] = recon[r]
          /\ \A r \in Skills : r # s => (r \in reload.todo => r \in reload'.todo)
        BY <2>1 DEF SkillInv, SkillTypeOK
    <2>3. Settled(s)
        BY DEF SkillInv, AllSettled
    <2>4. Settled(s)'
        BY <1>1, <2>1, <2>2, <2>3 DEF Settled, Announced, Unannounced, Idle
    <2> QED
        BY <1>6, <2>1, <2>2, <2>4 DEF Idle
<1>8. ASSUME NEW s \in Skills, NEW loads \in BOOLEAN, ReloadApplies(s, loads)
      PROVE  SurfaceInv'
    <2>1. /\ recon[s].by = "reload" /\ Applies(s, loads) /\ UNCHANGED <<reload, booting>>
        BY <1>8 DEF ReloadApplies
    <2>2. \A r \in Skills : r # s => /\ live'[r] = live[r] /\ broken'[r] = broken[r]
                                     /\ recon'[r] = recon[r] /\ slip'[r] = slip[r]
        BY <2>1 DEF Applies, SkillInv, SkillTypeOK
    <2>3. recon'[s] = Idle
        BY <2>1 DEF Applies, SkillInv, SkillTypeOK
    <2>4. Settled(s)'
        <3>1. CASE recon[s].want = enabled[s]
            BY <1>1, <2>1, <3>1, AppliesSettles DEF SkillInv
        <3>2. CASE recon[s].want # enabled[s]
            <4>1. slip'[s] = "reload"
                BY <2>1, <3>2 DEF Applies, SkillInv, SkillTypeOK
            <4> QED
                BY <4>1 DEF Settled, Announced
        <3> QED
            BY <3>1, <3>2
    <2> QED
        BY <1>6, <2>1, <2>2, <2>3, <2>4 DEF Idle
<1>9. ASSUME NEW s \in Skills, ReloadRaises(s)
      PROVE  SurfaceInv'
    <2>1. /\ recon[s].by = "reload" /\ UNCHANGED <<live, broken, reload, booting>>
          /\ recon' = [recon EXCEPT ![s] = Idle] /\ slip' = [slip EXCEPT ![s] = "lost"]
        BY <1>9 DEF ReloadRaises, Raises, Lost
    <2>2. /\ recon'[s] = Idle /\ slip'[s] = "lost"
          /\ \A r \in Skills : r # s => recon'[r] = recon[r] /\ slip'[r] = slip[r]
        BY <2>1 DEF SkillInv, SkillTypeOK
    <2>3. Settled(s)'
        BY <2>2 DEF Settled, Announced
    <2> QED
        BY <1>6, <2>1, <2>2, <2>3 DEF Idle
<1> QED
    BY <1>4, <1>5, <1>7, <1>8, <1>9 DEF ReloadStep

\* The death of a process.  That of the server hands every skill to the boot.
LEMMA DeathSurface ==
    ASSUME SkillInv, ServerRestarts \/ \E p \in Workers : WorkerDies(p)
    PROVE  SurfaceInv'
<1>1. ASSUME NEW p \in Procs, LaneDies(p)
      PROVE  /\ PastKept
             /\ \A i \in Jobs : /\ job[i].proc # p => job'[i] = job[i]
                                /\ job[i].proc = p /\ Unannounced(i) => job'[i].pc = "dead"
                                /\ Unannounced(i)' => job'[i] = job[i]
    <2> DEFINE Dies(i) == job[i].proc = p /\ job[i].pc \notin {"new", "done"}
    <2>1. \A i \in Jobs : ~Dies(i) => job'[i] = job[i]
        BY <1>1 DEF LaneDies
    <2>2. \A i \in Jobs : Dies(i) => job'[i].pc = "dead" /\ job'[i].skill = job[i].skill
        <3>1. LaneTypeOK
            BY DEF SkillInv, SkillTypeOK
        <3> QED
            BY <1>1, <3>1 DEF LaneDies, LaneTypeOK, LifecycleJob
    <2> QED
        BY <2>1, <2>2 DEF PastKept, Past, Unannounced
<1>2. CASE ServerRestarts
    <2>1. /\ LaneDies(Server) /\ Server \in Procs
          /\ recon' = [s \in Skills |-> Idle] /\ poll' = {} /\ booting' = TRUE
          /\ reload' = [todo |-> Skills, seen |-> enabled]
          /\ UNCHANGED <<enabled, marker, tries>>
        BY <1>2 DEF ServerRestarts, Procs
    <2>2. MarkerInv'
        BY <1>1, <2>1, MarkerInvStays DEF SkillInv, Idle
    <2>3. LoadingReads'
        <3>1. \A j \in Jobs : At(j, "loading")' => At(j, "loading") /\ job[j].proc # Server
            BY <1>1, <2>1 DEF Unannounced, At
        <3> QED
            BY <3>1 DEF SkillInv, LoadingReads
    <2>4. \A s \in Skills : Settled(s)' /\ Fresh(s)'
        BY <2>1 DEF Settled, Fresh, Idle, SkillInv, SkillTypeOK
    <2> QED
        BY <2>2, <2>3, <2>4 DEF SurfaceInv, PickupIsFresh, AllSettled
\* That of a worker leaves the changes it had not announced to a record.
<1>3. ASSUME NEW p \in Workers, WorkerDies(p)
      PROVE  SurfaceInv'
    <2>1. /\ LaneDies(p) /\ p \in Procs /\ p # Server
          /\ UNCHANGED <<enabled, live, broken, recon, marker, tries, poll, reload, booting>>
        BY <1>3, ServerAssumption DEF WorkerDies, Procs
    <2>2. PastKept
        BY <1>1, <2>1
    <2>3. MarkerInv'
        BY <2>1, <2>2, MarkerInvStays DEF SkillInv
    <2>4. LoadingReads'
        <3>1. \A j \in Jobs : At(j, "loading")' => job'[j] = job[j]
            BY <1>1, <2>1 DEF Unannounced, At
        <3> QED
            BY <2>1, <3>1 DEF SkillInv, LoadingReads, At
    <2>5. ASSUME NEW s \in Skills
          PROVE  Settled(s)' /\ Fresh(s)'
        <3>1. CASE slip'[s] # "none"
            BY <3>1 DEF Settled, Fresh, Announced
        <3>2. CASE slip'[s] = "none"
            <4>1. slip'[s] = slip[s]
                  /\ ~\E j \in Jobs : job[j].proc = p /\ job[j].skill = s /\ Unannounced(j)
                BY <1>3, <3>2 DEF WorkerDies
            <4>2. \A j \in Jobs : job[j].skill = s /\ Unannounced(j)
                                     => job'[j].skill = s /\ Unannounced(j)'
                BY <1>1, <2>1, <4>1 DEF Unannounced
            <4> QED
                BY <2>1, <2>2, <4>1, <4>2, Untouched
        <3> QED
            BY <3>1, <3>2
    <2> QED
        BY <2>3, <2>4, <2>5 DEF SurfaceInv, PickupIsFresh, AllSettled
<1> QED
    BY <1>2, <1>3
----------------------------------------------------------------------------
\* The types and the lane through every action.
LEMMA NextType ==
    ASSUME SkillTypeOK, [Next]_vars, \A m \in Jobs : tries[m] < MaxAttempts \/ ~Picked(m)
    PROVE  SkillTypeOK'
<1>t. LaneTypeOK
    BY DEF SkillTypeOK
<1>1. ASSUME NEW j \in Jobs, Asks(j) \/ LaneMoves(j)
      PROVE  SkillTypeOK'
    <2>1. LaneTypeOK'
        BY <1>t, <1>1, SubmitType, LaneStepType DEF Asks, LaneMoves
    <2>2. UNCHANGED surfaceVars
        BY <1>1 DEF Asks, LaneMoves
    <2> QED
        BY <2>1, <2>2 DEF surfaceVars, SkillTypeOK
<1>2. ASSUME NEW j \in Jobs, RunnerStep(j)
      PROVE  SkillTypeOK'
    BY <1>2, RunnerType
<1>3. CASE PickupStep \/ ReloadStep \/ Trouble
    BY <1>3, PickupType, ReloadType, TroubleType
<1>4. CASE UNCHANGED vars
    BY <1>4 DEF vars, laneVars, surfaceVars, SkillTypeOK, LaneTypeOK
<1> QED
    BY <1>1, <1>2, <1>3, <1>4 DEF Next, JobStep

LEMMA LaneInvNext ==
    ASSUME SkillTypeOK, LaneInv, [Next]_vars
    PROVE  LaneInv'
<1>t. LaneTypeOK
    BY DEF SkillTypeOK
<1>1. ASSUME NEW j \in Jobs, Asks(j) \/ LaneMoves(j)
      PROVE  LaneInv'
    BY <1>t, <1>1, LaneInvSubmit, LaneInvStep DEF Asks, LaneMoves
\* The runner.
<1>2. ASSUME NEW j \in Jobs, job[j].pc \in InRunner, NEW pc \in InRunner, Goes(j, pc),
             UNCHANGED <<lane, flock, dedupe>>
      PROVE  LaneInv'
    BY <1>t, <1>2, LaneInvMoves
<1>3. ASSUME NEW j \in Jobs, job[j].pc \in InRunner, NEW status \in {"failed", "succeeded"},
             RunnerEnds(j, status)
      PROVE  LaneInv'
    BY <1>t, <1>3, LaneInvEnds
<1>4. ASSUME NEW j \in Jobs, Wedges(j) \/ SavesFlag(j) \/ ServerReads(j)
      PROVE  LaneInv'
    <2>1. \E pc \in InRunner : Goes(j, pc)
        BY <1>4 DEF Wedges, SavesFlag, ServerReads, InRunner
    <2>2. job[j].pc \in InRunner /\ UNCHANGED <<lane, flock, dedupe>>
        BY <1>4 DEF Wedges, SavesFlag, ServerReads, At, InRunner
    <2> QED
        BY <1>2, <2>1, <2>2
<1>5. ASSUME NEW j \in Jobs, NEW loads \in BOOLEAN, WorkerReconciles(j, loads)
      PROVE  LaneInv'
    BY <1>2, <1>5 DEF WorkerReconciles, At, InRunner
<1>6. ASSUME NEW j \in Jobs, NEW loads \in BOOLEAN, ServerApplies(j, loads)
      PROVE  LaneInv'
    BY <1>3, <1>6, OutcomeRange DEF ServerApplies, At, InRunner
<1>7. ASSUME NEW j \in Jobs, RunnerRefuses(j) \/ Notifies(j) \/ ServerRaises(j)
                             \/ GoesUnannounced(j)
      PROVE  LaneInv'
    <2>1. job[j].pc \in InRunner
        BY <1>7 DEF RunnerRefuses, Notifies, ServerRaises, GoesUnannounced, At, InRunner
    <2>2. \E status \in {"failed", "succeeded"} : RunnerEnds(j, status)
        BY <1>7, TroubleEnds DEF RunnerRefuses, Notifies
    <2> QED
        BY <1>3, <2>1, <2>2
<1>8. CASE PickupStep \/ ReloadStep \/ ReloadStarts \/ \E m \in Jobs : PickupRaises(m)
    BY <1>8, LaneInvStays
       DEF PickupStep, PollStarts, PickupReads, PickupApplies, PickupRaises, ReloadStep, Boots,
           ReloadReads, ReloadApplies, ReloadStarts
<1>9. ASSUME NEW s \in Skills, ReloadRaises(s)
      PROVE  LaneInv'
    BY <1>9, LaneInvStays DEF ReloadRaises
<1>10. CASE ServerRestarts \/ \E p \in Workers : WorkerDies(p)
    BY <1>t, <1>10, LaneInvDies DEF ServerRestarts, WorkerDies, Procs
<1>11. CASE UNCHANGED vars
    BY <1>11, LaneInvStays DEF vars
<1> QED
    BY <1>1, <1>4, <1>5, <1>6, <1>7, <1>8, <1>9, <1>10, <1>11
       DEF Next, JobStep, RunnerStep, Trouble
----------------------------------------------------------------------------
\* Every step keeps the invariant.
LEMMA SkillInvStep == SkillInv /\ [Next]_vars => SkillInv'
<1> SUFFICES ASSUME SkillInv, [Next]_vars
             PROVE  SkillInv'
    OBVIOUS
<1>t. SkillTypeOK /\ LaneTypeOK /\ LaneInv /\ MarkerInv
    BY DEF SkillInv, SkillTypeOK
<1>m. \A m \in Jobs : tries[m] < MaxAttempts \/ ~Picked(m)
    BY <1>t DEF MarkerInv, TriesLeft, PickupOfMarker, Picked, LaneTypeOK, LifecycleJob
<1>1. SkillTypeOK'
    BY <1>t, <1>m, NextType
<1>2. LaneInv'
    BY <1>t, LaneInvNext
<1>3. SurfaceInv'
    <2>1. ASSUME NEW j \in Jobs, Asks(j) \/ JobStep(j) \/ Wedges(j) \/ ServerRaises(j)
                                 \/ GoesUnannounced(j)
          PROVE  SurfaceInv'
        BY <2>1, LaneSurface, RunnerSurface DEF JobStep
    <2>2. CASE PickupStep \/ \E m \in Jobs : PickupRaises(m)
        BY <2>2, PickupSurface
    <2>3. CASE ReloadStep \/ ReloadStarts \/ \E s \in Skills : ReloadRaises(s)
        BY <2>3, ReloadSurface
    <2>4. CASE ServerRestarts \/ \E p \in Workers : WorkerDies(p)
        BY <2>4, DeathSurface
    <2>5. CASE UNCHANGED vars
        BY <2>5 DEF vars, laneVars, surfaceVars, SkillInv, SurfaceInv, MarkerInv, MarkersAfter,
                    PollPending, Picked, PickupOfMarker, TriesLeft, LoadingReads, At,
                    PickupIsFresh, Fresh, AllSettled, Settled, Announced, Unannounced
    <2> QED
        BY <2>1, <2>2, <2>3, <2>4, <2>5 DEF Next, Trouble
<1> QED
    BY <1>1, <1>2, <1>3 DEF SkillInv, SurfaceInv

LEMMA SkillInvAlways == Spec => []SkillInv
<1> QED
    BY SkillInvStarts, SkillInvStep, PTL DEF Spec

\* The variables of the lane and of the surfaces keep their types.
THEOREM SkillsTyped == Spec => []SkillTypeOK
<1>1. SkillInv => SkillTypeOK
    BY DEF SkillInv
<1> QED
    BY <1>1, SkillInvAlways, PTL

\* One process never has two active reviews of one skill: an active review holds
\* the entry of its key (_register_dedupe, _release_dedupe).
THEOREM KeysHeldOnce == Spec => []KeyHeldOnce
<1>1. SkillInv => KeyHeldOnce
    <2> SUFFICES ASSUME SkillInv, NEW i \in Jobs, NEW j \in Jobs, i # j,
                        {job[i].pc, job[j].pc} \cap {"new", "done", "dead"} = {},
                        job[i].kind = "review", job[j].kind = "review",
                        job[i].proc = job[j].proc, job[i].skill = job[j].skill,
                        Active(i), Active(j)
                 PROVE  FALSE
        BY DEF KeyHeldOnce
    <2>1. job[i].pc \in Held /\ job[j].pc \in Held
        BY DEF SkillInv, SkillTypeOK, LaneTypeOK, LifecycleJob, LaneInv, OverIsFinished,
               OnlyToolsBlock, PCs, Held, InRunner, At
    <2>2. /\ dedupe[job[i].proc][job[i].skill] = i
          /\ dedupe[job[j].proc][job[j].skill] = j
        BY <2>1, LaneInvAt DEF SkillInv
    <2> QED
        BY <2>2
<1> QED
    BY <1>1, SkillInvAlways, PTL

\* The surfaces of a skill follow its flag, or something is on its way to them,
\* or a record says why not.
THEOREM SurfacesOwed == Spec => []SurfaceOwed
<1>1. SkillInv => SurfaceOwed
    BY SettledIsOwed DEF SkillInv
<1> QED
    BY <1>1, SkillInvAlways, PTL
=============================================================================
