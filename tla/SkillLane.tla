----------------------------- MODULE SkillLane -----------------------------
(***************************************************************************)
(* ouroboros/skill_lifecycle_queue.py: the single lane in which the skills *)
(* are installed, reviewed, enabled and disabled.                          *)
(*                                                                         *)
(* Every process has a lane of its own (a thread lock) and a table of the  *)
(* reviews it has accepted (_dedupe_jobs); the processes exclude one       *)
(* another with a lock on one file.  A wait for the lane or for the file   *)
(* has a deadline, except that of the agent's toggle_skill, which blocks   *)
(* on the file without entering a lane.                                    *)
(*                                                                         *)
(* job[j].pc follows the call: "new", "queued" (waits for the lane),       *)
(* "running" (has it, waits for the file), "blocked" (toggle_skill waits   *)
(* for the file), "runner", "saved", "loading", "notify", "wedged" (the    *)
(* runner, see SkillSurfaces), "over" (the runner is done or was never     *)
(* reached, the file is free), "leaving" (the key is released, the lane    *)
(* still held), "done", and "dead" when the process died under it.         *)
(***************************************************************************)
EXTENDS Integers

CONSTANTS Jobs,    \* the calls, numbered in the order they are made
          Skills,  \* the skills, which are also the keys of their reviews
          Workers, \* the worker processes
          Server,  \* the server process
          Nobody

Procs == Workers \cup {Server}

ASSUME JobsAssumption == Jobs \subseteq Nat
ASSUME SkillsAssumption == Skills # {}
ASSUME ServerAssumption == Server \notin Workers
ASSUME NobodyAssumption == Nobody \notin Jobs

VARIABLES job,    \* the calls: pc, kind, process, skill, value asked, status
          lane,   \* _lock of each process: the call that holds it
          flock,  \* the call that holds state/skill_lifecycle.lock
          dedupe  \* _dedupe_jobs of each process, by skill

laneVars == <<job, lane, flock, dedupe>>

Kinds == {"toggle", "review", "tool"}
PCs == {"new", "queued", "running", "blocked", "runner", "saved", "loading",
        "notify", "wedged", "over", "leaving", "done", "dead"}
Statuses == {"queued", "running", "succeeded", "failed", "cancelled"}

LifecycleJob == [pc : PCs, kind : Kinds, proc : Procs, skill : Skills,
                 want : BOOLEAN, status : Statuses]

NewJob == [pc |-> "new", kind |-> "toggle", proc |-> Server,
           skill |-> CHOOSE s \in Skills : TRUE, want |-> FALSE, status |-> "queued"]

LaneInit == /\ job = [j \in Jobs |-> NewJob]
            /\ lane = [p \in Procs |-> Nobody]
            /\ flock = Nobody
            /\ dedupe = [p \in Procs |-> [s \in Skills |-> Nobody]]

At(j, pc) == job[j].pc = pc
Goes(j, pc) == job' = [job EXCEPT ![j].pc = pc]
Ends(j, pc, status) == job' = [job EXCEPT ![j].pc = pc, ![j].status = status]

\* A call the table still counts as active.
Active(j) == job[j].status \in {"queued", "running"}

\* The owner's toggle runs in the server, the agent's in its worker, a review in
\* whichever asked for it; want is TRUE of a review that enables what it passes.
Call(kind, p, s, b) == [pc |-> IF kind = "tool" THEN "blocked" ELSE "queued",
                        kind |-> kind, proc |-> p, skill |-> s, want |-> b,
                        status |-> "queued"]
Legal(kind, p) == /\ kind = "toggle" => p = Server
                  /\ kind = "tool" => p \in Workers

\* Mutant: a call counts only once it runs.
Duplicate_Running(p, s) == dedupe[p][s] # Nobody /\ job[dedupe[p][s]].status = "running"

\* The table refuses a review whose key another active call of the process
\* holds; an entry whose call is finished is replaced.
Duplicate(p, s) == dedupe[p][s] # Nobody /\ Active(dedupe[p][s])

Submit(j, kind, p, s, b) ==
    /\ At(j, "new") /\ Legal(kind, p)
    /\ IF kind = "review" /\ Duplicate(p, s)
       THEN /\ job' = [job EXCEPT ![j] = [Call(kind, p, s, b) EXCEPT !.pc = "done",
                                                                     !.status = "failed"]]
            /\ UNCHANGED dedupe
       ELSE /\ job' = [job EXCEPT ![j] = Call(kind, p, s, b)]
            /\ dedupe' = IF kind = "review" THEN [dedupe EXCEPT ![p][s] = j] ELSE dedupe
    /\ UNCHANGED <<lane, flock>>

\* _release_dedupe: only an entry that is still this call's own is dropped.
Released(j) == LET p == job[j].proc  s == job[j].skill
               IN  IF dedupe[p][s] = j THEN [dedupe EXCEPT ![p][s] = Nobody] ELSE dedupe

EnterLane(j) ==
    /\ At(j, "queued") /\ lane[job[j].proc] = Nobody
    /\ lane' = [lane EXCEPT ![job[j].proc] = j]
    /\ Ends(j, "running", "running")
    /\ UNCHANGED <<flock, dedupe>>

\* Mutant: a wait without a deadline.
MayGiveUp_Never(j, status, lock) == status = "cancelled" /\ job[j].kind = "toggle"

\* The deadline passes, or the client of a toggle goes away, before the lane
\* is reached: the outer handler ends the job.
MayGiveUp(j, status, lock) == IF status = "cancelled" THEN job[j].kind = "toggle"
                                                      ELSE lock # Nobody
LeaveQueue(j, status) ==
    /\ At(j, "queued") /\ MayGiveUp(j, status, lane[job[j].proc])
    /\ Ends(j, "done", status)
    /\ dedupe' = Released(j)
    /\ UNCHANGED <<lane, flock>>

TakeFile(j) ==
    /\ job[j].pc \in {"running", "blocked"} /\ flock = Nobody
    /\ flock' = j
    /\ Goes(j, "runner")
    /\ UNCHANGED <<lane, dedupe>>

\* The same while waiting for the file, from inside the lane.
GiveUpFile(j, status) ==
    /\ At(j, "running") /\ MayGiveUp(j, status, flock)
    /\ Ends(j, "over", status)
    /\ UNCHANGED <<lane, flock, dedupe>>

\* The runner returned or raised: the file is freed and the status set.
\* toggle_skill has nothing more to do.
RunnerEnds(j, status) ==
    /\ flock' = Nobody
    /\ Ends(j, IF job[j].kind = "tool" THEN "done" ELSE "over", status)
    /\ UNCHANGED <<lane, dedupe>>

\* The inner finally: the key is released, then the lane.
ReleaseKey(j) ==
    /\ At(j, "over")
    /\ dedupe' = Released(j)
    /\ Goes(j, "leaving")
    /\ UNCHANGED <<lane, flock>>

LeaveLane(j) ==
    /\ At(j, "leaving")
    /\ lane' = [lane EXCEPT ![job[j].proc] = Nobody]
    /\ Goes(j, "done")
    /\ UNCHANGED <<flock, dedupe>>

\* A process dies: its locks and its table go with it.
LaneDies(p) ==
    /\ job' = [j \in Jobs |-> IF job[j].proc = p /\ job[j].pc \notin {"new", "done"}
                              THEN [job[j] EXCEPT !.pc = "dead", !.status = "failed"]
                              ELSE job[j]]
    /\ lane' = [lane EXCEPT ![p] = Nobody]
    /\ flock' = IF flock # Nobody /\ job[flock].proc = p THEN Nobody ELSE flock
    /\ dedupe' = [dedupe EXCEPT ![p] = [s \in Skills |-> Nobody]]

\* What a call does in the lane by itself.
LaneStep(j) == \/ EnterLane(j)
               \/ \E status \in {"failed", "cancelled"} : LeaveQueue(j, status)
               \/ TakeFile(j)
               \/ \E status \in {"failed", "cancelled"} : GiveUpFile(j, status)
               \/ ReleaseKey(j)
               \/ LeaveLane(j)

LaneTypeOK ==
    /\ job \in [Jobs -> LifecycleJob]
    /\ lane \in [Procs -> Jobs \cup {Nobody}]
    /\ flock \in Jobs \cup {Nobody}
    /\ dedupe \in [Procs -> [Skills -> Jobs \cup {Nobody}]]
=============================================================================
