------------------------- MODULE EvolutionWorker -------------------------
(* Worker processes: boot verification, the reviewed commit of an evolution *)
(* task, death, and the other processes that touch the same files.  Actions *)
(* are the sections between two points where another process may run.       *)
EXTENDS EvolutionSystem

----------------------------------------------------------------------------
(* Worker boot: verify_restart.                                             *)

\* Mutant: the process observes origin instead of the live branch.
BootObserve_Origin(w) ==
    /\ Up /\ wk[w].ph = "boot"
    /\ wk' = [wk EXCEPT ![w] = [Idle EXCEPT !.ph = "verify", !.obs = pushed]]
    /\ UNCHANGED <<files, repo, gen, server, drain, q, evq, sup, snap, other, old, cnt>>

\* a process starts, and observes HEAD
BootObserve(w) ==
    /\ Up /\ wk[w].ph = "boot"
    /\ wk' = [wk EXCEPT ![w] = [Idle EXCEPT !.ph = "verify", !.obs = head]]
    /\ UNCHANGED <<files, repo, gen, server, drain, q, evq, sup, snap, other, old, cnt>>

LiveClaim == \E v \in Workers : wk[v].claim # NoMarker

\* os.rename(pending, claimed.<pid>)
VerifyRename(w) ==
    /\ Up /\ wk[w].ph = "verify" /\ marker # NoMarker
    /\ wk' = [wk EXCEPT ![w].ph = "claimed", ![w].claim = marker]
    /\ marker' = NoMarker
    /\ UNCHANGED <<st, camp, req, stale, closed, repo, gen, server, drain, q, evq,
                   sup, snap, other, old, cnt>>

\* the rename failed: look at the claimed files of other processes
VerifyMiss(w) ==
    /\ Up /\ wk[w].ph = "verify" /\ marker = NoMarker
    /\ \/ /\ LiveClaim
          /\ wk' = [wk EXCEPT ![w] = Idle]
          /\ UNCHANGED stale
       \/ \E m \in stale :
            /\ wk' = [wk EXCEPT ![w].ph = "claimed", ![w].claim = m]
            /\ stale' = stale \ {m}
       \/ /\ ~LiveClaim /\ stale = {}
          /\ wk' = [wk EXCEPT ![w].ph = "reconcile", ![w].sha = camp.active.sha]
          /\ UNCHANGED stale
    /\ UNCHANGED <<st, camp, req, marker, closed, repo, gen, server, drain, q, evq,
                   sup, snap, other, old, cnt>>

CloseLinked == closed' = closed \cup (IF camp.link = 0 THEN {} ELSE {camp.link})

\* Mutant: the observed HEAD is compared with nothing that was expected.
Verified_NoExpected(w) == Tip(wk[w].obs, wk[w].sha)

\* sha_ok: the observed HEAD is the expected commit
Verified(w) == Tip(wk[w].obs, wk[w].claim.sha)

Unlink(w) == /\ wk' = [wk EXCEPT ![w] = Idle]
             /\ UNCHANGED marker

\* a claim that cannot be restored stays behind as the file of a live process
Restore(w) ==
    IF marker = NoMarker
    THEN /\ marker' = wk[w].claim
         /\ wk' = [wk EXCEPT ![w] = Idle]
    ELSE /\ wk' = [wk EXCEPT ![w] = [Idle EXCEPT !.claim = wk[w].claim]]
         /\ UNCHANGED marker

\* _mark_campaign_restart_verified, then unlink or restore of the claim
MarkRestart(w) ==
    /\ Up /\ wk[w].ph = "claimed"
    /\ LET m == wk[w].claim
           x == camp.active
           exact == m.tx = x.id /\ m.sha = x.sha /\ Committed(x)
       IN \/ \* the state lock timed out
             /\ LockMayFail
             /\ Restore(w) /\ UNCHANGED <<camp, closed>>
          \/ \* no transaction, owner stop or terminal campaign: consume the claim
             /\ ~HasTx(camp) \/ st.stopped \/ camp.status \notin Live
             /\ Unlink(w) /\ UNCHANGED <<camp, closed>>
          \/ /\ HasTx(camp) /\ ~st.stopped /\ camp.status \in Live
             /\ \/ \* missing or mismatched claim: keep the transaction open
                   /\ ~exact
                   /\ camp' = Stamp(camp, gen)
                   /\ Unlink(w) /\ UNCHANGED closed
                \/ \* a respawned worker of the same server: not a restart
                   /\ exact /\ camp.gen = gen
                   /\ Restore(w) /\ UNCHANGED <<camp, closed>>
                \/ /\ exact /\ camp.gen # gen /\ Verified(w)
                   /\ camp' = Absorb(camp, gen) /\ CloseLinked /\ Unlink(w)
                \/ /\ exact /\ camp.gen # gen /\ ~Verified(w)
                   /\ camp' = Stamp(camp, gen)
                   /\ Unlink(w) /\ UNCHANGED closed
    /\ UNCHANGED <<st, req, stale, repo, gen, server, drain, q, evq, sup, snap,
                   other, old, cnt>>

\* _reconcile_dangling_campaign_transaction; wk[w].sha is the commit of the
\* snapshot whose reachability was computed before the lock
Reconcile(w) ==
    /\ Up /\ wk[w].ph = "reconcile"
    /\ \/ \* lock timeout, owner stop, terminal campaign or generation done
          /\ LockMayFail \/ st.stopped \/ camp.status \notin Live \/ camp.gen = gen
          /\ UNCHANGED <<camp, closed>>
       \/ /\ ~st.stopped /\ camp.status \in Live /\ camp.gen # gen
          /\ \/ /\ ~WaitingTx(camp) \/ camp.active.sha # wk[w].sha
                /\ camp' = Stamp(camp, gen) /\ UNCHANGED closed
             \/ /\ WaitingTx(camp) /\ camp.active.sha = wk[w].sha
                /\ wk[w].sha \in wk[w].obs
                /\ camp' = Absorb(camp, gen) /\ CloseLinked
             \/ /\ WaitingTx(camp) /\ camp.active.sha = wk[w].sha
                /\ wk[w].sha \notin wk[w].obs
                /\ camp' = AbandonUnreachable(camp, gen) /\ UNCHANGED closed
    /\ wk' = [wk EXCEPT ![w] = Idle]
    /\ UNCHANGED <<st, req, marker, stale, repo, gen, server, drain, q, evq, sup,
                   snap, other, old, cnt>>

----------------------------------------------------------------------------
(* Evolution task in a worker: repo_commit stages and request_restart.      *)

UnchangedInWorker == UNCHANGED <<st, req, stale, closed, gen, server, drain, q,
                                 sup, snap, other, old>>

\* pre_review / pre_commit authority: require_uncommitted
Authorize(w) ==
    /\ wk[w].ph = "work"
    /\ Authorized(camp, st, wk[w].tx) /\ ~Committed(camp.active)
    /\ wk' = [wk EXCEPT ![w].ph = "ready"]
    /\ UNCHANGED <<camp, marker, repo, evq, cnt>> /\ UnchangedInWorker

\* git commit
MakeCommit(w) ==
    /\ wk[w].ph = "ready" /\ cnt.sha < MaxSha
    /\ LET s == cnt.sha + 1
       IN /\ head' = head \cup {s}
          /\ made' = [made EXCEPT ![s] = [gen |-> gen, tx |-> wk[w].tx, camp |-> camp.id]]
          /\ wk' = [wk EXCEPT ![w].ph = "made", ![w].sha = s]
    /\ Tick("sha")
    /\ UNCHANGED <<camp, marker, pushed, evq>> /\ UnchangedInWorker

\* _preserve_evolution_orphan: off the branch if it is still the exact HEAD
Orphan(w) ==
    /\ head' = IF Tip(head, wk[w].sha) THEN head \ {wk[w].sha} ELSE head
    /\ wk' = [wk EXCEPT ![w].ph = "work", ![w].sha = 0]
    /\ UNCHANGED <<camp, pushed, made>>

\* pre_tag authority
PreTag(w) ==
    /\ wk[w].ph = "made"
    /\ \/ /\ Authorized(camp, st, wk[w].tx) /\ Tip(head, wk[w].sha)
          /\ wk' = [wk EXCEPT ![w].ph = "tagged"]
          /\ UNCHANGED <<camp, repo>>
       \/ /\ LockMayFail \/ ~(Authorized(camp, st, wk[w].tx) /\ Tip(head, wk[w].sha))
          /\ Orphan(w)
    /\ UNCHANGED <<marker, evq, cnt>> /\ UnchangedInWorker

\* _record_evolution_commit_receipt
RecordReceipt(w) ==
    /\ wk[w].ph = "tagged"
    /\ \/ /\ MayRecord(camp, st, wk[w].tx, wk[w].sha)
          /\ camp' = RecordCommit(camp, wk[w].sha)
          /\ wk' = [wk EXCEPT ![w].ph = "recorded"]
          /\ UNCHANGED repo
       \/ /\ LockMayFail \/ ~MayRecord(camp, st, wk[w].tx, wk[w].sha)
          /\ Orphan(w)
    /\ UNCHANGED <<marker, evq, cnt>> /\ UnchangedInWorker

MayPublish(w) == ReceiptAuthorized(camp, st, wk[w].tx, wk[w].sha) /\ Tip(head, wk[w].sha)

\* _evolution_publication_stopped_result
CheckPublication(w) ==
    /\ wk[w].ph = "recorded"
    /\ \/ /\ MayPublish(w)
          /\ wk' = [wk EXCEPT ![w].ph = "cleared"]
          /\ UNCHANGED <<camp, repo>>
       \/ /\ LockMayFail \/ ~MayPublish(w)
          /\ Orphan(w)
    /\ UNCHANGED <<marker, evq, cnt>> /\ UnchangedInWorker

\* _auto_push
Push(w) ==
    /\ wk[w].ph = "cleared"
    /\ pushed' = pushed \cup {wk[w].sha}
    /\ wk' = [wk EXCEPT ![w].ph = "pushed"]
    /\ UNCHANGED <<camp, marker, head, made, evq, cnt>> /\ UnchangedInWorker

\* _request_restart in an evolution task
RequestRestart(w) ==
    /\ wk[w].ph = "pushed" /\ ~wk[w].ask /\ MayPublish(w)
    /\ marker' = [sha |-> wk[w].sha, tx |-> wk[w].tx]
    /\ wk' = [wk EXCEPT ![w].ask = TRUE]
    /\ UNCHANGED <<camp, repo, evq, cnt>> /\ UnchangedInWorker

\* the task ends, with a published commit or without one (the review may
\* refuse it)
FinishTask(w) ==
    /\ wk[w].ph \in {"work", "ready", "pushed"}
    /\ evq' = evq \cup {[kind |-> "done", tx |-> wk[w].tx]}
                  \cup (IF wk[w].ask THEN {[kind |-> "restart_evolution", tx |-> 0]} ELSE {})
    /\ wk' = [wk EXCEPT ![w] = [Idle EXCEPT !.claim = wk[w].claim]]
    /\ UNCHANGED <<camp, marker, repo, cnt>> /\ UnchangedInWorker

----------------------------------------------------------------------------
(* Death of a worker; ordinary tasks; rollback in another process.          *)

\* a worker process dies by itself; its claimed marker file outlives it
WorkerDies(w) ==
    /\ Up /\ wk[w].ph # "dead" /\ cnt.crash < Crashes
    /\ wk' = [wk EXCEPT ![w] = [Dead EXCEPT !.tx = wk[w].tx]]
    /\ stale' = stale \cup Claims({w}) /\ Tick("crash")
    /\ UNCHANGED <<st, camp, req, marker, closed, repo, gen, server, drain, q, evq,
                   sup, snap, other, old>>

\* commit_reviewed in an ordinary task
OtherCommits ==
    /\ Up /\ other /\ cnt.sha < MaxSha
    /\ head' = head \cup {cnt.sha + 1}
    /\ pushed' = pushed \cup {cnt.sha + 1}
    /\ made' = [made EXCEPT ![cnt.sha + 1] = [gen |-> gen, tx |-> 0, camp |-> camp.id]]
    /\ Tick("sha")
    /\ UNCHANGED <<files, proc>>

\* request_restart in an ordinary task: a marker without a claim
OtherRequestsRestart ==
    /\ Up /\ other
    /\ \E s \in head : Tip(head, s) /\ marker' = [sha |-> s, tx |-> 0]
    /\ evq' = evq \cup {[kind |-> "restart", tx |-> 0]}
    /\ other' = FALSE
    /\ UNCHANGED <<st, camp, req, stale, closed, repo, gen, server, drain, q, wk, sup,
                   snap, old, cnt>>

\* the task ends; its reflection may promote a request (maybe_promote), which
\* replaces a request that was not applied yet
OtherEnds ==
    /\ Up /\ other /\ other' = FALSE
    /\ \/ UNCHANGED <<req, cnt>>
       \/ /\ cnt.req < MaxReq /\ req' = cnt.req + 1 /\ Tick("req")
    /\ UNCHANGED <<st, camp, marker, stale, closed, repo, gen, server, drain, q, evq,
                   wk, sup, snap, old>>

\* rollback in a worker or in an HTTP thread: load_state ... save_state
RollbackLoads ==
    /\ Up /\ ~old.set /\ cnt.stale < Stales
    /\ old' = [set |-> TRUE, st |-> st] /\ Tick("stale")
    /\ \E k \in 0..MaxSha : head' = {s \in head : s <= k}
    /\ UNCHANGED <<files, pushed, made, gen, server, drain, q, evq, wk, sup, snap, other>>

RollbackSaves ==
    /\ Up /\ old.set
    /\ st' = old.st /\ old' = NoOld
    /\ UNCHANGED <<camp, req, marker, stale, closed, repo, gen, server, drain, q, evq,
                   wk, sup, snap, other, cnt>>
============================================================================
