--------------------------- MODULE SkillSurfaces ---------------------------
(***************************************************************************)
(* What the jobs of the skill lane are for: the flag in enabled.json, and  *)
(* the surfaces (routes, tools, companions) the server has loaded for a    *)
(* skill, which must follow it.                                            *)
(*                                                                         *)
(* A job of the server reconciles the surfaces itself.  A worker has only  *)
(* its own registry: it leaves a marker on disk (extension_reconcile_queue *)
(* .py), which the server's pickup loop processes.  The server also        *)
(* reconciles every skill when it boots and when a setting changes         *)
(* (reload_all), from flags it read before the first of them.              *)
(*                                                                         *)
(* One reconciliation of a skill excludes another in the server (the lock  *)
(* of _lifecycle_lock_for); recon[s] is the one under way and the flag it  *)
(* has read.  A marker is known by the job that wrote it.  slip[s] says    *)
(* that nobody may be left to reconcile s: the announcement was lost       *)
(* ("lost"), or a reload applied a flag that had changed ("reload").       *)
(***************************************************************************)
EXTENDS SkillLane

CONSTANTS MaxAttempts, \* MAX_ATTEMPTS of a marker
          MaxTroubles  \* deaths, exceptions elsewhere, wedges and reloads together

VARIABLES enabled, \* enabled.json of each skill
          live,    \* the server has the skill's surfaces loaded
          broken,  \* the server's last attempt to load them failed
          recon,   \* the reconciliation under way in the server, by skill
          marker,  \* the reconcile markers, by the job that wrote them
          tries,   \* their attempts
          poll,    \* the markers the pickup loop has listed and not reached
          reload,  \* the skills reload_all has still to visit, and their flags
          booting, \* the server is not yet serving
          slip,
          left     \* the troubles that may still come

surfaceVars == <<enabled, live, broken, recon, marker, tries, poll, reload,
                 booting, slip, left>>
vars == <<laneVars, surfaceVars>>

ASSUME TroublesAssumption == MaxTroubles \in Nat
ASSUME AttemptsAssumption == MaxAttempts \in Nat \ {0}

Suffers == left > 0 /\ left' = left - 1

Idle == [by |-> "nobody", of |-> Nobody, want |-> FALSE]
Busy(s) == recon[s] # Idle

Init == /\ LaneInit
        /\ enabled = [s \in Skills |-> FALSE] /\ live = [s \in Skills |-> FALSE]
        /\ broken = [s \in Skills |-> FALSE]
        /\ recon = [s \in Skills |-> Idle]
        /\ marker = [j \in Jobs |-> "none"] /\ tries = [j \in Jobs |-> 0]
        /\ poll = {}
        /\ reload = [todo |-> {}, seen |-> enabled]
        /\ booting = FALSE
        /\ slip = [s \in Skills |-> "none"]
        /\ left = MaxTroubles

----------------------------------------------------------------------------
\* The lane, with the surfaces untouched.  The server takes no request while
\* it boots.

LaneMoves(j) == LaneStep(j) /\ UNCHANGED surfaceVars

Asks(j) == /\ \A i \in Jobs : i < j => ~At(i, "new")
           /\ \E kind \in Kinds, p \in Procs, s \in Skills, b \in BOOLEAN :
                 (p = Server => ~booting) /\ Submit(j, kind, p, s, b)
           /\ UNCHANGED surfaceVars

\* A runner that never returns: the lane and the file stay held.
Wedges(j) == /\ At(j, "runner") /\ Suffers
             /\ Goes(j, "wedged")
             /\ UNCHANGED <<lane, flock, dedupe, enabled, live, broken, recon, marker,
                            tries, poll, reload, booting, slip>>

----------------------------------------------------------------------------
\* One reconciliation: the flag is read, then the surfaces are brought to it.

Reads(s, by, of, flag) ==
    /\ ~Busy(s)
    /\ recon' = [recon EXCEPT ![s] = [by |-> by, of |-> of, want |-> flag]]
    /\ UNCHANGED broken

\* loads: whether the extension can be loaded, if it must be.
Applies(s, loads) ==
    LET want == recon[s].want
    IN  /\ live' = [live EXCEPT ![s] = want /\ (live[s] \/ loads)]
        /\ broken' = [broken EXCEPT ![s] = want /\ ~live[s] /\ ~loads]
        /\ slip' = IF want = enabled[s] THEN [slip EXCEPT ![s] = "none"]
                   ELSE IF recon[s].by = "reload" THEN [slip EXCEPT ![s] = "reload"]
                   ELSE slip
        /\ recon' = [recon EXCEPT ![s] = Idle]

\* An exception on the way leaves the surfaces as they are.
Raises(s) == /\ recon' = [recon EXCEPT ![s] = Idle]
             /\ UNCHANGED <<live, broken>>

Lost(s) == slip' = [slip EXCEPT ![s] = "lost"]

----------------------------------------------------------------------------
\* The runner: _run_toggle_sync in the server, _handle_toggle_skill in a
\* worker, _run_review in either.

\* The guards of the runner refuse, before anything is written.
RunnerRefuses(j) == /\ At(j, "runner") /\ RunnerEnds(j, "failed")
                    /\ UNCHANGED surfaceVars

SavesFlag(j) ==
    LET s == job[j].skill
    IN  /\ At(j, "runner") /\ Goes(j, "saved")
        /\ enabled' = [enabled EXCEPT ![s] = job[j].want \/ (@ /\ job[j].kind = "review")]
        /\ UNCHANGED <<lane, flock, dedupe, live, broken, recon, marker, tries, poll,
                       reload, booting, slip, left>>

\* A review ends as its verdict says, whatever comes of the reconciliation.
Outcome(j, failed) == IF failed /\ job[j].kind # "review" THEN "failed" ELSE "succeeded"

\* A failed load takes back the flag this job has just set.
Reverts(j, failed) ==
    enabled' = [enabled EXCEPT ![job[j].skill] = @ /\ ~(failed /\ job[j].want)]

ServerReads(j) == /\ At(j, "saved") /\ job[j].proc = Server /\ Goes(j, "loading")
                  /\ Reads(job[j].skill, "job", j, enabled[job[j].skill])
                  /\ UNCHANGED <<lane, flock, dedupe, enabled, live, marker, tries, poll,
                                 reload, booting, slip, left>>

ServerApplies(j, loads) ==
    LET s == job[j].skill
    IN  /\ At(j, "loading") /\ Applies(s, loads)
        /\ Reverts(j, broken'[s])
        /\ RunnerEnds(j, Outcome(j, broken'[s]))
        /\ UNCHANGED <<marker, tries, poll, reload, booting, left>>

ServerRaises(j) == /\ At(j, "loading") /\ Suffers
                   /\ Raises(job[j].skill) /\ Lost(job[j].skill)
                   /\ RunnerEnds(j, Outcome(j, TRUE))
                   /\ UNCHANGED <<enabled, marker, tries, poll, reload, booting>>

\* A worker reconciles its own registry, which is not the server's.
WorkerReconciles(j, loads) ==
    /\ At(j, "saved") /\ job[j].proc # Server /\ Goes(j, "notify")
    /\ Reverts(j, ~loads)
    /\ UNCHANGED <<lane, flock, dedupe, live, broken, recon, marker, tries, poll, reload,
                   booting, slip, left>>

\* _request_server_reconcile_if_worker.
Notifies(j) == /\ At(j, "notify")
               /\ marker' = [marker EXCEPT ![j] = "pending"]
               /\ RunnerEnds(j, "succeeded")
               /\ UNCHANGED <<enabled, live, broken, recon, tries, poll, reload, booting,
                              slip, left>>

\* The reconciliation raises in the worker, or the marker cannot be written
\* (which is only logged): nobody tells the server.
GoesUnannounced(j) ==
    /\ At(j, "notify") \/ (At(j, "saved") /\ job[j].proc # Server)
    /\ Suffers /\ Lost(job[j].skill) /\ RunnerEnds(j, Outcome(j, At(j, "saved")))
    /\ UNCHANGED <<enabled, live, broken, recon, marker, tries, poll, reload, booting>>

RunnerStep(j) == \/ RunnerRefuses(j)
                 \/ SavesFlag(j)
                 \/ ServerReads(j)
                 \/ \E loads \in BOOLEAN : ServerApplies(j, loads) \/ WorkerReconciles(j, loads)
                 \/ Notifies(j)

----------------------------------------------------------------------------
\* The pickup loop: it lists the markers, then processes one after another.

Pending == {m \in Jobs : marker[m] = "pending"}
Working(by) == \E s \in Skills : recon[s].by = by
Picked(m) == LET now == recon[job[m].skill] IN now.by = "pickup" /\ now.of = m

PollStarts == /\ ~booting /\ poll = {} /\ ~Working("pickup") /\ Pending # {}
              /\ poll' = Pending
              /\ UNCHANGED <<laneVars, enabled, live, broken, recon, marker, tries, reload,
                             booting, slip, left>>

PickupReads(m) == /\ m \in poll /\ ~Working("pickup")
                  /\ Reads(job[m].skill, "pickup", m, enabled[job[m].skill])
                  /\ poll' = poll \ {m}
                  /\ UNCHANGED <<laneVars, enabled, live, marker, tries, reload, booting,
                                 slip, left>>

\* Mutant: one marker for all the requests of a skill.
Unlinked_Skill(m) == marker' = [i \in Jobs |-> IF job[i].skill = job[m].skill
                                               THEN "gone" ELSE marker[i]]
Unlinked(m) == marker' = [marker EXCEPT ![m] = "gone"]

PickupApplies(m, loads) == /\ Picked(m) /\ Applies(job[m].skill, loads)
                           /\ Unlinked(m)
                           /\ UNCHANGED <<laneVars, enabled, tries, poll, reload, booting,
                                          left>>

\* Mutant: one attempt too many.
GivenUp_Late(m) == tries[m] + 1 > MaxAttempts
GivenUp(m) == tries[m] + 1 >= MaxAttempts

\* _mark_failed: the marker stays for the next poll, until its last attempt.
PickupRaises(m) ==
    /\ Picked(m) /\ Raises(job[m].skill)
    /\ tries' = [tries EXCEPT ![m] = @ + 1]
    /\ marker' = IF GivenUp(m) THEN [marker EXCEPT ![m] = "failed"]
                 ELSE marker
    /\ UNCHANGED <<laneVars, enabled, poll, reload, booting, slip, left>>

PickupStep == \/ PollStarts
              \/ \E m \in Jobs : \/ PickupReads(m)
                                 \/ \E loads \in BOOLEAN : PickupApplies(m, loads)

----------------------------------------------------------------------------
\* reload_all: the flags of all skills are read first.

ReloadStarts == /\ ~booting /\ reload.todo = {} /\ ~Working("reload") /\ Suffers
                /\ reload' = [todo |-> Skills, seen |-> enabled]
                /\ UNCHANGED <<laneVars, enabled, live, broken, recon, marker, tries, poll,
                               booting, slip>>

ReloadReads(s) == /\ s \in reload.todo /\ ~Working("reload")
                  /\ Reads(s, "reload", Nobody, reload.seen[s])
                  /\ reload' = [reload EXCEPT !.todo = @ \ {s}]
                  /\ UNCHANGED <<laneVars, enabled, live, marker, tries, poll, booting,
                                 slip, left>>

ReloadApplies(s, loads) == /\ recon[s].by = "reload" /\ Applies(s, loads)
                           /\ UNCHANGED <<laneVars, enabled, marker, tries, poll, reload,
                                          booting, left>>

ReloadRaises(s) == /\ recon[s].by = "reload" /\ Raises(s) /\ Lost(s)
                   /\ UNCHANGED <<laneVars, enabled, marker, tries, poll, reload, booting,
                                  left>>

\* The reload of the boot is over: requests and the pickup loop begin.
Boots == /\ booting /\ reload.todo = {} /\ ~Working("reload")
         /\ booting' = FALSE
         /\ UNCHANGED <<laneVars, enabled, live, broken, recon, marker, tries, poll, reload,
                        slip, left>>

ReloadStep == \/ Boots
              \/ \E s \in Skills : \/ ReloadReads(s)
                                   \/ \E loads \in BOOLEAN : ReloadApplies(s, loads)

----------------------------------------------------------------------------
\* Deaths.  The server loses its surfaces and loads them again as it boots;
\* the flags and the markers are on disk.

ServerRestarts ==
    /\ Suffers /\ LaneDies(Server)
    /\ live' = [s \in Skills |-> FALSE] /\ broken' = [s \in Skills |-> FALSE]
    /\ recon' = [s \in Skills |-> Idle]
    /\ poll' = {}
    /\ reload' = [todo |-> Skills, seen |-> enabled]
    /\ booting' = TRUE
    /\ slip' = [s \in Skills |-> "none"]
    /\ UNCHANGED <<enabled, marker, tries>>

\* A job past its write whose change no marker announces yet.
Unannounced(j) == job[j].pc \in {"saved", "loading", "notify"}

WorkerDies(p) ==
    /\ Suffers /\ LaneDies(p)
    /\ slip' = [s \in Skills |->
                  IF \E j \in Jobs : job[j].proc = p /\ job[j].skill = s /\ Unannounced(j)
                  THEN "lost" ELSE slip[s]]
    /\ UNCHANGED <<enabled, live, broken, recon, marker, tries, poll, reload, booting>>

----------------------------------------------------------------------------
JobStep(j) == LaneMoves(j) \/ RunnerStep(j)

Trouble == \/ \E j \in Jobs : Wedges(j) \/ ServerRaises(j) \/ GoesUnannounced(j)
           \/ \E m \in Jobs : PickupRaises(m)
           \/ \E s \in Skills : ReloadRaises(s)
           \/ ReloadStarts
           \/ ServerRestarts
           \/ \E p \in Workers : WorkerDies(p)

Next == \/ \E j \in Jobs : Asks(j) \/ JobStep(j)
        \/ PickupStep
        \/ ReloadStep
        \/ Trouble

Spec == Init /\ [][Next]_vars

\* A call goes on unless its runner is wedged, the loops come round; calls and
\* troubles need not happen.
FairSpec == /\ Spec
            /\ \A j \in Jobs : WF_vars(JobStep(j))
            /\ WF_vars(PickupStep)
            /\ WF_vars(ReloadStep)

----------------------------------------------------------------------------
\* Properties.

\* Every variable keeps to its range.
SkillTypeOK ==
    /\ LaneTypeOK
    /\ enabled \in [Skills -> BOOLEAN] /\ live \in [Skills -> BOOLEAN]
    /\ broken \in [Skills -> BOOLEAN]
    /\ recon \in [Skills -> [by : {"nobody", "job", "pickup", "reload"},
                             of : Jobs \cup {Nobody}, want : BOOLEAN]]
    /\ marker \in [Jobs -> {"none", "pending", "failed", "gone"}]
    /\ tries \in [Jobs -> 0 .. MaxAttempts]
    /\ poll \subseteq Jobs
    /\ reload \in [todo : SUBSET Skills, seen : [Skills -> BOOLEAN]]
    /\ booting \in BOOLEAN
    /\ slip \in [Skills -> {"none", "lost", "reload"}]
    /\ left \in Nat

\* One process never has two active reviews of one skill: the table refuses the
\* second as long as the first is active, although an entry is replaced while
\* its finished owner has still to release it (_register_dedupe and
\* _release_dedupe).
KeyHeldOnce ==
    \A i, j \in Jobs :
        /\ i # j /\ {job[i].pc, job[j].pc} \cap {"new", "done", "dead"} = {}
        /\ job[i].kind = "review" /\ job[j].kind = "review"
        /\ job[i].proc = job[j].proc /\ job[i].skill = job[j].skill
        => ~(Active(i) /\ Active(j))

\* Somebody will still bring the surfaces of s to its flag.
Owed(s) == \/ \E m \in Pending : job[m].skill = s
           \/ \E j \in Jobs : job[j].skill = s /\ Unannounced(j)
           \/ booting /\ (s \in reload.todo \/ recon[s].by = "reload")

\* Nobody will, and there is a record of it, or the trouble was let pass.
Explained(s) == \/ live[s] = enabled[s]
                \/ enabled[s] /\ broken[s]
                \/ \E m \in Jobs : marker[m] = "failed" /\ job[m].skill = s
                \/ slip[s] # "none"

\* The server never shows surfaces other than the flag asks for without a marker,
\* a job or the boot on its way to them: no marker is lost to an older one, and
\* no reconciliation that began before a change is the last.
SurfaceOwed == \A s \in Skills : Explained(s) \/ Owed(s)

\* A call ends although another has wedged the lane or the file (but not the
\* agent's toggle, which waits for the file without a deadline), and the surfaces
\* of its skill come to follow the flag.
Ended(j) == \/ job[j].pc \in {"done", "dead", "wedged"}
            \/ At(j, "blocked") /\ flock # Nobody /\ At(flock, "wedged")

EveryRequestSettles ==
    \A j \in Jobs : job[j].pc \in {"queued", "blocked"} ~>
                        Ended(j) /\ Explained(job[j].skill)

=============================================================================
