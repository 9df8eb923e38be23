------------------------- MODULE EvolutionCampaign -------------------------
(* The evolution campaign file (state/evolution_campaign.json) and the      *)
(* locked read-check-write sections that change it.  Every section is an    *)
(* operator from the record read under the state lock to the record that is *)
(* written; EvolutionLifecycle says which process runs which section when.  *)
(*                                                                          *)
(* A transaction is identified by one number that stands for its            *)
(* transaction_id and for its task_id (both are minted by the same call of  *)
(* enqueue_evolution_task_if_needed).  A commit is a number too: commits    *)
(* are numbered in creation order, so a branch is the set of the commits it *)
(* contains and its tip is the largest of them.                             *)
EXTENDS Naturals, FiniteSets

CONSTANTS
    MaxTx,      \* bound on evolution transactions (cycles) begun
    MaxCamp,    \* bound on campaigns minted
    MaxSha,     \* bound on commits created
    MaxGen,     \* bound on server generations (custody sessions)
    MaxReq,     \* bound on post-task promotion requests
    RepeatCap   \* OBJECTIVE_REPEAT_CAP

ASSUME BoundsAssumption ==
    /\ MaxTx \in Nat /\ MaxCamp \in Nat /\ MaxSha \in Nat
    /\ MaxGen \in Nat \ {0} /\ MaxReq \in Nat /\ RepeatCap \in Nat

TxIds   == 1..MaxTx
CampIds == 1..MaxCamp
Shas    == 1..MaxSha
Reqs    == 1..MaxReq

\* Objective 0 is the owner's; objective r > 0 and the backlog item r are
\* those of promotion request r.
Objectives == 0..MaxReq

Live == {"active", "paused"}

(***************************************************************************)
(* Transactions.  outcome is cycle_outcome: "" until it is decided.        *)
(* pend is cleanup_status = "pending".                                     *)
(***************************************************************************)
Outcomes == {"", "waiting_for_restart", "absorbed", "abandoned", "no_op",
             "owner_stopped"}

Transaction ==
    [id: 0..MaxTx, camp: 0..MaxCamp, obj: Objectives, base: SUBSET Shas,
     sha: 0..MaxSha, outcome: Outcomes, reaping: BOOLEAN, rescue: BOOLEAN,
     pend: BOOLEAN]

NoTx == [id |-> 0, camp |-> 0, obj |-> 0, base |-> {}, sha |-> 0,
         outcome |-> "", reaping |-> FALSE, rescue |-> FALSE, pend |-> FALSE]

Campaign ==
    [id: 0..MaxCamp, status: {"none", "active", "paused", "stopped"},
     obj: Objectives, link: 0..MaxReq, active: Transaction,
     hist: SUBSET Transaction, rows: SUBSET Transaction,
     absorbed: Nat, gen: 0..MaxGen, repeats: [Objectives -> Nat]]

NoCampaign ==
    [id |-> 0, status |-> "none", obj |-> 0, link |-> 0, active |-> NoTx,
     hist |-> {}, rows |-> {}, absorbed |-> 0, gen |-> 0,
     repeats |-> [o \in Objectives |-> 0]]

HasTx(c)      == c.active.id # 0
Committed(x)  == x.sha # 0
OpenTx(c)     == HasTx(c) /\ ~Committed(c.active)
WaitingTx(c)  == HasTx(c) /\ Committed(c.active)

\* append_unique_transaction: the first archived copy of an id is the one kept.
Archive(c, x) ==
    IF \E y \in c.hist : y.id = x.id THEN c.hist ELSE c.hist \cup {x}

\* _bump_objective_repeat_count / _clear_objective_repeat_count
Bump(c, x)  == [c.repeats EXCEPT ![x.obj] = @ + 1]
Clear(c, x) == [c.repeats EXCEPT ![x.obj] = 0]

\* Mutant: the write forgets that a terminal campaign is terminal.
WriteAllowed_Resurrects(cur, new) == cur.id \in {0, new.id}

\* _write_evolution_campaign: compare-and-swap on the campaign id, and no
\* resurrection of a terminal campaign.
WriteAllowed(cur, new) ==
    /\ cur.id \in {0, new.id}
    /\ (cur.id = new.id /\ new.status \in Live) => cur.status \in Live

----------------------------------------------------------------------------
(* Sections run by the supervisor.                                         *)

\* Mutant: a start does not count the running generation as reconciled.
StartCampaign_NoStamp(c, o, g) ==
    IF c.status \in Live
    THEN [c EXCEPT !.obj = o, !.status = "active"]
    ELSE [NoCampaign EXCEPT !.id = c.id + 1, !.status = "active", !.obj = o]

\* start_evolution_campaign: mint a fresh campaign, or resume the live one
\* under a new objective; the current generation counts as reconciled.
StartCampaign(c, o, g) ==
    IF c.status \in Live
    THEN [c EXCEPT !.obj = o, !.status = "active", !.gen = g]
    ELSE [NoCampaign EXCEPT !.id = c.id + 1, !.status = "active",
                            !.obj = o, !.gen = g]

MayStart(c) == c.status \in Live \/ c.id < MaxCamp

\* pause_evolution_campaign (a terminal campaign refuses the write)
PauseCampaign(c) ==
    IF c.status \in Live THEN [c EXCEPT !.status = "paused"] ELSE c

\* Mutant: the transaction in flight is dropped instead of archived.
CompleteCampaign_Drops(c) ==
    IF c.status = "none" THEN c
    ELSE [c EXCEPT !.active = NoTx, !.link = 0, !.status = "stopped"]

\* complete_evolution_campaign
CompleteCampaign(c) ==
    IF c.status = "none" THEN c
    ELSE LET x == [c.active EXCEPT
                     !.outcome = IF @ = "" THEN "owner_stopped" ELSE @]
         IN  [c EXCEPT !.hist = IF HasTx(c) THEN Archive(c, x) ELSE @,
                       !.active = NoTx, !.link = 0, !.status = "stopped"]

\* begin_evolution_transaction: attach a fresh transaction t; an earlier
\* uncommitted one was never dispatched and is archived as abandoned.
MayBegin(c, st, snapId) ==
    /\ ~st.stopped /\ st.enabled
    /\ c.status = "active" /\ c.id = snapId
    /\ ~WaitingTx(c)

BeginTransaction(c, t, head) ==
    [c EXCEPT
       !.hist = IF HasTx(c)
                THEN Archive(c, [c.active EXCEPT !.outcome = "abandoned"])
                ELSE @,
       !.active = [NoTx EXCEPT !.id = t, !.camp = c.id, !.obj = c.obj,
                               !.base = head]]

\* update_evolution_transaction(task_id, dispatch_status = "reaping")
MarkReaping(c) == [c EXCEPT !.active.reaping = TRUE]

\* link_evolution_rescue
LinkRescue(c) ==
    IF c.status \in Live /\ HasTx(c)
    THEN [c EXCEPT !.active.rescue = TRUE] ELSE c

\* Mutant: the commit is looked up in the task's copy of the transaction,
\* which was made when the cycle began.
AfterTask_StaleCopy(c) ==
    LET x == [c.active EXCEPT !.outcome = "no_op", !.pend = TRUE]
    IN  [c EXCEPT !.hist = Archive(c, x), !.rows = @ \cup {x}, !.active = NoTx,
                  !.link = 0, !.repeats = Bump(c, x)]

\* Mutant: a cycle without a commit is archived but stays the active one.
AfterTask_KeepsActive(c) ==
    LET x == c.active
    IN  [c EXCEPT !.rows = @ \cup {x},
                  !.hist = IF Committed(x) THEN @ ELSE Archive(c, x)]

\* update_evolution_campaign_after_task for the active transaction.  A tx
\* with restart_verified set is never active (verify_restart archives it in
\* the same write), so the "absorbed" branch of the code has no case here.
AfterTask(c) ==
    LET x == c.active
        closed(o) == [x EXCEPT !.outcome = o, !.pend = TRUE]
        wait      == [x EXCEPT !.outcome = "waiting_for_restart"]
        close(y)  == [c EXCEPT !.hist = Archive(c, y), !.rows = @ \cup {y},
                               !.active = NoTx, !.link = 0,
                               !.repeats = Bump(c, x)]
    IN  IF x.rescue THEN close(closed("abandoned"))
        ELSE IF ~Committed(x) THEN close(closed("no_op"))
        ELSE [c EXCEPT !.active = wait, !.rows = @ \cup {wait}]

\* _persist_evolution_cleanup: the cleanup evidence of transaction t.
PersistCleanup(c, t) ==
    LET settle(S) == {IF x.id = t THEN [x EXCEPT !.pend = FALSE] ELSE x : x \in S}
    IN  [c EXCEPT !.hist = settle(@), !.rows = settle(@)]

----------------------------------------------------------------------------
(* Authority checks (_evolution_claim_error).                               *)

\* check_evolution_authority(...) without a commit
Authorized(c, st, t) ==
    /\ ~st.stopped /\ st.enabled
    /\ c.status = "active" /\ c.active.id = t

\* check_evolution_authority(..., commit_sha = sha): the receipt is enough
\* once the cycle is disabled, but not once the owner stopped it.
ReceiptAuthorized(c, st, t, sha) ==
    /\ ~st.stopped
    /\ c.status = "active" /\ c.active.id = t /\ c.active.sha = sha

\* Mutant: the receipt is checked against the campaign file alone.
MayRecord_NoFlags(c, st, t, sha) ==
    c.status = "active" /\ c.active.id = t /\ c.active.sha \in {0, sha}

\* record_evolution_commit
MayRecord(c, st, t, sha) ==
    Authorized(c, st, t) /\ c.active.sha \in {0, sha}

RecordCommit(c, sha) == [c EXCEPT !.active.sha = sha]

----------------------------------------------------------------------------
(* Sections run by a booting worker (verify_restart).                       *)

\* Mutant: the transaction is archived (as a copy) before its outcome is set.
Absorb_OutcomeLate(c, g) ==
    [c EXCEPT !.hist = Archive(c, c.active), !.active = NoTx, !.link = 0, !.gen = g,
              !.absorbed = @ + 1, !.repeats = Clear(c, c.active)]

\* the absorbed branches of _mark_campaign_restart_verified and of
\* _reconcile_dangling_campaign_transaction
Absorb(c, g) ==
    [c EXCEPT !.hist = Archive(c, [c.active EXCEPT !.outcome = "absorbed"]),
              !.active = NoTx, !.link = 0, !.gen = g,
              !.absorbed = @ + 1, !.repeats = Clear(c, c.active)]

\* the abandoned branch of _reconcile_dangling_campaign_transaction
AbandonUnreachable(c, g) ==
    [c EXCEPT !.hist = Archive(c, [c.active EXCEPT !.outcome = "abandoned"]),
              !.active = NoTx, !.link = 0, !.gen = g,
              !.repeats = Bump(c, c.active)]

Stamp(c, g) == [c EXCEPT !.gen = g]

Tip(h, s) == s \in h /\ \A d \in h : d <= s
============================================================================
