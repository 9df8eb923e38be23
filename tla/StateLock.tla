----------------------------- MODULE StateLock -----------------------------
(* state.json behind its lock file (supervisor/state.py and the O_EXCL lock *)
(* of ouroboros/platform_layer.py): update_state in one locked section, and *)
(* the load_state ... save_state pattern in two.  The processes are the     *)
(* server, its threads and its workers.  Each one owns a field of the state *)
(* and counts its own updates in it.                                        *)
EXTENDS Naturals, FiniteSets

CONSTANTS
    Procs, NoProc,
    MaxUpdates, MaxCrashes,
    MaxStalls,   \* a live holder keeps the lock longer than stale_sec
    MaxFaults    \* state.json cannot be read although it is there

ASSUME LockAssumption == NoProc \notin Procs

VARIABLES
    lock,      \* the lock file: the pid in it, and is it older than stale_sec?
    state,     \* state.json
    lastGood,  \* state.last_good.json
    pc, op,    \* where a process is, and in which operation
    locked,    \* does it have a lock_fd?
    copy,      \* the state it loaded
    made,      \* the updates that were written, per process
    lapses,    \* what the lock did not cover so far
    torn,      \* did a process die between the two writes?
    used       \* how often each bounded thing has happened

procVars  == <<pc, op, locked, copy>>
fileVars  == <<state, lastGood>>
lockVars  == <<lock, fileVars, procVars, made, lapses, torn, used>>

NoLock == [by |-> NoProc, old |-> FALSE]
Inside == {"load", "write", "second", "release"}
Critical(p) == pc[p] \in Inside
Holding(p)  == Critical(p) /\ locked[p]

Goes(p, to) == pc' = [pc EXCEPT ![p] = to]
Use(what) == used' = [used EXCEPT ![what] = @ + 1]
Lapse(what, happens) == lapses' = lapses \cup (IF happens THEN {what} ELSE {})

---------------------------------------------------------------------------
Call(p, o) ==
    /\ pc[p] = "idle" /\ used.updates < MaxUpdates
    /\ Use("updates")
    /\ op' = [op EXCEPT ![p] = o]
    /\ Goes(p, "acquire")
    /\ UNCHANGED <<lock, fileVars, locked, copy, made, lapses, torn>>

\* Mutant: the lock file is opened without O_EXCL.
Create_Shared(p) ==
    /\ pc[p] = "acquire"
    /\ lock' = [by |-> p, old |-> FALSE]
    /\ locked' = [locked EXCEPT ![p] = TRUE]
    /\ Goes(p, IF op[p] = "save" THEN "write" ELSE "load")
    /\ UNCHANGED <<fileVars, op, copy, made, lapses, torn, used>>

\* Mutant: an update trusts the copy of its process.
Create_Cached(p) ==
    /\ pc[p] = "acquire" /\ lock = NoLock
    /\ lock' = [by |-> p, old |-> FALSE]
    /\ locked' = [locked EXCEPT ![p] = TRUE]
    /\ Goes(p, IF op[p] = "load" THEN "load" ELSE "write")
    /\ UNCHANGED <<fileVars, op, copy, made, lapses, torn, used>>

\* acquire_exclusive_file_lock: O_CREAT | O_EXCL
Create(p) ==
    /\ pc[p] = "acquire" /\ lock = NoLock
    /\ lock' = [by |-> p, old |-> FALSE]
    /\ locked' = [locked EXCEPT ![p] = TRUE]
    /\ Goes(p, IF op[p] = "save" THEN "write" ELSE "load")
    /\ UNCHANGED <<fileVars, op, copy, made, lapses, torn, used>>

\* the file exists and its age is over stale_sec: to be unlinked, by its path
FindStale(p) ==
    /\ pc[p] = "acquire" /\ lock.old
    /\ Goes(p, "unlink")
    /\ UNCHANGED <<lock, fileVars, op, locked, copy, made, lapses, torn, used>>

UnlinkStale(p) ==
    /\ pc[p] = "unlink"
    /\ lock' = NoLock
    /\ Lapse("takeover", lock.by \in Procs /\ Holding(lock.by))
    /\ Goes(p, "acquire")
    /\ UNCHANGED <<fileVars, op, locked, copy, made, torn, used>>

\* after timeout_sec every operation of state.py proceeds without the lock
ProceedUnlocked(p) ==
    /\ pc[p] = "acquire" /\ lock # NoLock
    /\ Lapse("unlocked", TRUE)
    /\ Goes(p, IF op[p] = "save" THEN "write" ELSE "load")
    /\ UNCHANGED <<lock, fileVars, op, locked, copy, made, torn, used>>

---------------------------------------------------------------------------
\* _load_state_unlocked: an unreadable state.json is replaced by last_good
Load(p) ==
    /\ pc[p] = "load"
    /\ \/ /\ copy' = [copy EXCEPT ![p] = state]
          /\ UNCHANGED <<fileVars, lapses, used>>
       \/ /\ used.faults < MaxFaults /\ Use("faults")
          /\ copy' = [copy EXCEPT ![p] = lastGood]
          /\ state' = lastGood
          /\ Lapse("recovered", lastGood # state)
          /\ UNCHANGED lastGood
    /\ Goes(p, IF op[p] = "update" THEN "write" ELSE "release")
    /\ UNCHANGED <<lock, op, locked, made, torn>>

Updated(p) == [copy[p] EXCEPT ![p] = @ + 1]

\* _save_state_unlocked: two atomic replacements, state.json first
WriteState(p) ==
    /\ pc[p] = "write"
    /\ state' = Updated(p)
    /\ made' = [made EXCEPT ![p] = @ + 1]
    /\ Lapse("reload", op[p] = "save" /\ copy[p] # state)
    /\ Goes(p, "second")
    /\ UNCHANGED <<lock, lastGood, op, locked, copy, torn, used>>

WriteLastGood(p) ==
    /\ pc[p] = "second"
    /\ lastGood' = Updated(p)
    /\ torn' = FALSE
    /\ Goes(p, "release")
    /\ UNCHANGED <<lock, state, op, locked, copy, made, lapses, used>>

\* Mutant: the released file keeps its age.
Release_Aged(p) ==
    /\ pc[p] = "release"
    /\ lock' = IF locked[p] THEN [NoLock EXCEPT !.old = lock.old] ELSE lock
    /\ locked' = [locked EXCEPT ![p] = FALSE]
    /\ op' = [op EXCEPT ![p] = IF @ = "load" THEN "save" ELSE "none"]
    /\ Goes(p, IF op[p] = "load" THEN "acquire" ELSE "idle")
    /\ UNCHANGED <<fileVars, copy, made, lapses, torn, used>>

\* release_exclusive_file_lock unlinks whatever file is there; a load of the
\* load-then-save pattern comes back with its save
Release(p) ==
    /\ pc[p] = "release"
    /\ lock' = IF locked[p] THEN NoLock ELSE lock
    /\ locked' = [locked EXCEPT ![p] = FALSE]
    /\ op' = [op EXCEPT ![p] = IF @ = "load" THEN "save" ELSE "none"]
    /\ Goes(p, IF op[p] = "load" THEN "acquire" ELSE "idle")
    /\ UNCHANGED <<fileVars, copy, made, lapses, torn, used>>

---------------------------------------------------------------------------
\* stale_sec has passed; a live holder is that slow only when it stalls
Expire ==
    /\ lock # NoLock /\ ~lock.old
    /\ IF lock.by \in Procs /\ Holding(lock.by)
       THEN used.stalls < MaxStalls /\ Use("stalls") ELSE UNCHANGED used
    /\ lock' = [lock EXCEPT !.old = TRUE]
    /\ UNCHANGED <<fileVars, procVars, made, lapses, torn>>

\* a process dies, its lock file stays, and it is started again
Crash(p) ==
    /\ pc[p] # "idle" /\ used.crashes < MaxCrashes
    /\ Use("crashes")
    /\ torn' = (torn \/ pc[p] = "second")
    /\ Goes(p, "idle")
    /\ op' = [op EXCEPT ![p] = "none"]
    /\ locked' = [locked EXCEPT ![p] = FALSE]
    /\ UNCHANGED <<lock, fileVars, copy, made, lapses>>

Lock_Init ==
    /\ lock = NoLock
    /\ state = [p \in Procs |-> 0] /\ lastGood = state /\ made = state
    /\ pc = [p \in Procs |-> "idle"] /\ op = [p \in Procs |-> "none"]
    /\ locked = [p \in Procs |-> FALSE] /\ copy = [p \in Procs |-> state]
    /\ lapses = {} /\ torn = FALSE
    /\ used = [updates |-> 0, crashes |-> 0, stalls |-> 0, faults |-> 0]

Lock_Step(p) ==
    \/ \E o \in {"update", "load"} : Call(p, o)
    \/ Create(p) \/ FindStale(p) \/ UnlinkStale(p) \/ ProceedUnlocked(p)
    \/ Load(p) \/ WriteState(p) \/ WriteLastGood(p) \/ Release(p)
    \/ Crash(p)

Lock_Next == Expire \/ \E p \in Procs : Lock_Step(p)

Lock_Spec == Lock_Init /\ [][Lock_Next]_lockVars

---------------------------------------------------------------------------
States == [Procs -> Nat]
Lapses == {"takeover", "unlocked", "reload", "recovered"}

\* The files, the lock and every process hold what their type says.
LockTypeOK ==
    /\ lock \in [by: Procs \cup {NoProc}, old: BOOLEAN]
    /\ lock.by = NoProc => lock = NoLock
    /\ state \in States /\ lastGood \in States /\ made \in States
    /\ pc \in [Procs -> Inside \cup {"idle", "acquire", "unlink"}]
    /\ op \in [Procs -> {"none", "update", "load", "save"}]
    /\ locked \in [Procs -> BOOLEAN] /\ copy \in [Procs -> States]
    /\ lapses \subseteq Lapses /\ torn \in BOOLEAN
    /\ used \in [updates: Nat, crashes: Nat, stalls: Nat, faults: Nat]

\* One process at a time is in a section of state.json, whoever died with the
\* lock in hand, as long as no live holder lost its file and nobody went on
\* without one.
OneAtATime ==
    lapses \cap {"takeover", "unlocked"} = {} =>
        \A p, q \in Procs : Critical(p) /\ Critical(q) => p = q

\* update_state: until one of the four lapses happens, state.json has every
\* update that was ever written to it, across crashes and stale locks.
NoLostUpdate == lapses = {} => state = made

\* The fallback copy is as new as state.json, except while a writer is between
\* its two writes or after one died there.
LastGoodFollows ==
    lapses \cap {"takeover", "unlocked"} = {} =>
        lastGood = state \/ torn \/ \E p \in Procs : pc[p] = "second"

\* The docstring of update_state: "holding STATE_LOCK for the WHOLE operation,
\* so concurrent updates cannot lose each other", when every operation got the
\* lock and nobody stalls, reloads or falls back.
ConcurrentUpdatesKept == lapses \subseteq {"takeover"} => state = made
=============================================================================
