-------------------------- MODULE StateLockProofs --------------------------
(* The lock of state.json for any number of processes, updates, crashes,    *)
(* stalls and failed reads.                                                 *)
EXTENDS StateLock, TLAPS

\* the lock file was always its holder's, and everybody went in with one
Covered == lapses \cap {"takeover", "unlocked"} = {}

HolderOwnsFile == Covered => \A p \in Procs : Critical(p) => locked[p] /\ lock.by = p

WriterIsCurrent ==
    Covered => \A p \in Procs :
        /\ pc[p] = "write" /\ op[p] = "update" => copy[p] = state
        /\ pc[p] = "second" => state = Updated(p)

WriterHasOp == \A p \in Procs : pc[p] = "write" => op[p] \in {"update", "save"}

LockInv ==
    LockTypeOK /\ HolderOwnsFile /\ WriterIsCurrent /\ WriterHasOp
    /\ NoLostUpdate /\ LastGoodFollows

LEMMA LockTypeInit == Lock_Init => LockTypeOK
<1> SUFFICES ASSUME Lock_Init PROVE LockTypeOK
  OBVIOUS
<1> USE DEF Lock_Init
<1>1. state \in States
  BY DEF States
<1>2. lastGood \in States /\ made \in States /\ copy \in [Procs -> States]
  BY <1>1
<1>3. lock \in [by: Procs \cup {NoProc}, old: BOOLEAN] /\ (lock.by = NoProc => lock = NoLock)
  BY DEF NoLock
<1>4. /\ pc \in [Procs -> Inside \cup {"idle", "acquire", "unlink"}]
      /\ op \in [Procs -> {"none", "update", "load", "save"}] /\ locked \in [Procs -> BOOLEAN]
  BY DEF Inside
<1>5. lapses \subseteq Lapses /\ torn \in BOOLEAN
  OBVIOUS
<1>6. used \in [updates: Nat, crashes: Nat, stalls: Nat, faults: Nat]
  OBVIOUS
<1> QED
  BY <1>1, <1>2, <1>3, <1>4, <1>5, <1>6 DEF LockTypeOK

\* Every step keeps the types; Updated is a state again.
LEMMA LockTypeStep ==
    ASSUME LockTypeOK, [Lock_Next]_lockVars PROVE LockTypeOK'
<1> USE LockAssumption DEF LockTypeOK, NoLock, States, Inside, Lapses
<1>1. CASE UNCHANGED lockVars
  BY <1>1 DEF lockVars, fileVars, procVars
<1>2. CASE Expire
  <2>1. used' \in [updates: Nat, crashes: Nat, stalls: Nat, faults: Nat]
    BY <1>2 DEF Expire, Use
  <2>2. /\ lock' \in [by: Procs \cup {NoProc}, old: BOOLEAN]
        /\ lock'.by = NoProc => lock' = NoLock
    BY <1>2 DEF Expire
  <2> QED
    BY <1>2, <2>1, <2>2 DEF Expire, fileVars, procVars
<1>3. ASSUME NEW p \in Procs, Lock_Step(p) PROVE LockTypeOK'
  <2>1. ASSUME NEW o \in {"update", "load"}, Call(p, o) PROVE LockTypeOK'
    <3>1. used' \in [updates: Nat, crashes: Nat, stalls: Nat, faults: Nat]
      BY <2>1 DEF Call, Use
    <3> QED
      BY <2>1, <3>1 DEF Call, Goes, fileVars
  <2>2. CASE Create(p)
    BY <2>2 DEF Create, Goes, fileVars
  <2>3. CASE FindStale(p)
    BY <2>3 DEF FindStale, Goes, fileVars
  <2>4. CASE UnlinkStale(p)
    BY <2>4 DEF UnlinkStale, Lapse, Goes, fileVars
  <2>5. CASE ProceedUnlocked(p)
    <3>1. lapses' \subseteq Lapses
      BY <2>5 DEF ProceedUnlocked, Lapse
    <3> QED
      BY <2>5, <3>1 DEF ProceedUnlocked, Goes, fileVars
  <2>6. CASE Load(p)
    <3>1. lapses' \subseteq Lapses
      BY <2>6 DEF Load, Lapse
    <3>2. copy' \in [Procs -> States] /\ state' \in States
      BY <2>6 DEF Load, fileVars
    <3>3. used' \in [updates: Nat, crashes: Nat, stalls: Nat, faults: Nat]
      BY <2>6 DEF Load, Use
    <3>4. pc' \in [Procs -> Inside \cup {"idle", "acquire", "unlink"}]
      BY <2>6 DEF Load, Goes
    <3> QED
      BY <2>6, <3>1, <3>2, <3>3, <3>4 DEF Load, fileVars
  <2>7. CASE WriteState(p)
    <3>1. state' \in States /\ made' \in States
      BY <2>7 DEF WriteState, Updated
    <3> QED
      BY <2>7, <3>1 DEF WriteState, Lapse, Goes
  <2>8. CASE WriteLastGood(p)
    <3>1. lastGood' \in States
      BY <2>8 DEF WriteLastGood, Updated
    <3> QED
      BY <2>8, <3>1 DEF WriteLastGood, Goes
  <2>9. CASE Release(p)
    BY <2>9 DEF Release, Goes, fileVars
  <2>10. CASE Crash(p)
    BY <2>10 DEF Crash, Use, Goes, fileVars
  <2> QED
    BY <1>3, <2>1, <2>2, <2>3, <2>4, <2>5, <2>6, <2>7, <2>8, <2>9, <2>10 DEF Lock_Step
<1> QED
  BY <1>1, <1>2, <1>3 DEF Lock_Next

\* A process that enters, leaves or dies takes the lock file with it only when
\* it is its own, or no live holder's.
LEMMA HolderStep ==
    ASSUME LockTypeOK, HolderOwnsFile, [Lock_Next]_lockVars PROVE HolderOwnsFile'
<1> USE LockAssumption DEF LockTypeOK, HolderOwnsFile, Covered, Critical, NoLock, Inside
<1>1. CASE UNCHANGED lockVars
  BY <1>1 DEF lockVars, procVars
<1>2. CASE Expire
  BY <1>2 DEF Expire, procVars
<1>3. ASSUME NEW p \in Procs, Lock_Step(p) PROVE HolderOwnsFile'
  <2>1. ASSUME NEW o \in {"update", "load"}, Call(p, o) PROVE HolderOwnsFile'
    BY <2>1 DEF Call, Goes
  <2>2. CASE Create(p)
    BY <2>2 DEF Create, Goes
  <2>3. CASE FindStale(p)
    BY <2>3 DEF FindStale, Goes
  <2>4. CASE UnlinkStale(p)
    BY <2>4 DEF UnlinkStale, Lapse, Goes, Holding
  <2>5. CASE ProceedUnlocked(p)
    BY <2>5 DEF ProceedUnlocked, Lapse, Goes
  <2>6. CASE Load(p)
    BY <2>6 DEF Load, Lapse, Goes
  <2>7. CASE WriteState(p)
    BY <2>7 DEF WriteState, Lapse, Goes
  <2>8. CASE WriteLastGood(p)
    BY <2>8 DEF WriteLastGood, Goes
  <2>9. CASE Release(p)
    BY <2>9 DEF Release, Goes
  <2>10. CASE Crash(p)
    BY <2>10 DEF Crash, Goes
  <2> QED
    BY <1>3, <2>1, <2>2, <2>3, <2>4, <2>5, <2>6, <2>7, <2>8, <2>9, <2>10 DEF Lock_Step
<1> QED
  BY <1>1, <1>2, <1>3 DEF Lock_Next

LEMMA OwnedIsAlone == HolderOwnsFile => OneAtATime
BY DEF HolderOwnsFile, OneAtATime, Covered

\* What a writer loaded is still there when it writes, because it is alone.
LEMMA ContentStep ==
    ASSUME LockInv, [Lock_Next]_lockVars
    PROVE  (WriterIsCurrent /\ WriterHasOp /\ NoLostUpdate /\ LastGoodFollows)'
<1> DEFINE Goal == WriterIsCurrent /\ WriterHasOp /\ NoLostUpdate /\ LastGoodFollows
<1>0. OneAtATime
  BY OwnedIsAlone DEF LockInv
<1> USE LockAssumption, <1>0
    DEF LockInv, LockTypeOK, WriterIsCurrent, WriterHasOp, NoLostUpdate, LastGoodFollows,
        OneAtATime, Covered, Critical, Inside, Updated, States, Lapses
<1>1. CASE UNCHANGED lockVars
  BY <1>1 DEF lockVars, fileVars, procVars
<1>2. CASE Expire
  BY <1>2 DEF Expire, fileVars, procVars
<1>3. ASSUME NEW p \in Procs, Lock_Step(p) PROVE Goal'
  <2>1. ASSUME NEW o \in {"update", "load"}, Call(p, o) PROVE Goal'
    BY <2>1 DEF Call, Goes, fileVars
  <2>2. CASE Create(p)
    BY <2>2 DEF Create, Goes, fileVars
  <2>3. CASE FindStale(p)
    BY <2>3 DEF FindStale, Goes, fileVars
  <2>4. CASE UnlinkStale(p)
    BY <2>4 DEF UnlinkStale, Lapse, Goes, fileVars
  <2>5. CASE ProceedUnlocked(p)
    BY <2>5 DEF ProceedUnlocked, Lapse, Goes, fileVars
  <2>6. CASE Load(p)
    BY <2>6, ZenonT(40) DEF Load, Lapse, Goes, fileVars
  <2>7. CASE WriteState(p)
    BY <2>7, ZenonT(40) DEF WriteState, Lapse, Goes
  <2>8. CASE WriteLastGood(p)
    BY <2>8 DEF WriteLastGood, Goes
  <2>9. CASE Release(p)
    BY <2>9 DEF Release, Goes, fileVars
  <2>10. CASE Crash(p)
    BY <2>10, ZenonT(40) DEF Crash, Goes, fileVars
  <2> QED
    BY <1>3, <2>1, <2>2, <2>3, <2>4, <2>5, <2>6, <2>7, <2>8, <2>9, <2>10 DEF Lock_Step
<1> QED
  BY <1>1, <1>2, <1>3 DEF Lock_Next

\* Together: the invariant of the lock.
LEMMA LockInvariance == Lock_Spec => []LockInv
<1>1. Lock_Init => LockInv
  <2> SUFFICES ASSUME Lock_Init PROVE LockInv
    OBVIOUS
  <2>1. LockTypeOK
    BY LockTypeInit
  <2> QED
    BY <2>1 DEF LockInv, HolderOwnsFile, WriterIsCurrent, WriterHasOp, NoLostUpdate,
                LastGoodFollows, Lock_Init, Critical, Inside
<1>2. LockInv /\ [Lock_Next]_lockVars => LockInv'
  BY LockTypeStep, HolderStep, ContentStep DEF LockInv
<1> QED
  BY <1>1, <1>2, PTL DEF Lock_Spec

\* The types of the files, the lock and the processes.
THEOREM StateLockTyped == Lock_Spec => []LockTypeOK
<1>1. LockInv => LockTypeOK
  BY DEF LockInv
<1> QED
  BY <1>1, LockInvariance, PTL

\* Mutual exclusion of the locked sections of state.json (platform_layer.py).
THEOREM StateLockExcludes == Lock_Spec => []OneAtATime
<1>1. LockInv => OneAtATime
  BY OwnedIsAlone DEF LockInv
<1> QED
  BY <1>1, LockInvariance, PTL

\* No update_state is lost before a lapse (state.py).
THEOREM StateKeepsUpdates == Lock_Spec => []NoLostUpdate
<1>1. LockInv => NoLostUpdate
  BY DEF LockInv
<1> QED
  BY <1>1, LockInvariance, PTL

\* The fallback copy follows state.json (_save_state_unlocked).
THEOREM FallbackFollows == Lock_Spec => []LastGoodFollows
<1>1. LockInv => LastGoodFollows
  BY DEF LockInv
<1> QED
  BY <1>1, LockInvariance, PTL
=============================================================================
