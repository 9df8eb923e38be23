------------------------- MODULE EvolutionSystem -------------------------
(* State shared by the processes around the campaign file: the single       *)
(* supervisor thread, the worker processes it spawns, the reaper thread,    *)
(* and the durable files and branch they all touch.  EvolutionWorker and    *)
(* EvolutionSupervisor give their actions, EvolutionLifecycle composes them.*)
EXTENDS EvolutionCampaign

CONSTANTS
    Workers,      \* worker slots
    Owner,        \* number of owner starts and stops
    Panics,       \* number of panics
    Crashes,      \* number of server crashes and worker deaths
    Reaps,        \* number of task timeouts
    Others,       \* number of ordinary tasks
    Stales,       \* number of unlocked load/save rewrites of state.json
    FailCap,      \* consecutive failures that pause a campaign
    LockMayFail,  \* may an acquisition of the state lock time out?
    BootMayReset, \* may the bootstrap land on the stable branch?
    EnvMayRefuse  \* may runtime mode, budget or a dirty worktree refuse?

ASSUME BudgetsAssumption ==
    /\ Owner \in Nat /\ Panics \in Nat /\ Crashes \in Nat /\ Reaps \in Nat
    /\ Others \in Nat /\ Stales \in Nat /\ FailCap \in Nat
    /\ LockMayFail \in BOOLEAN /\ BootMayReset \in BOOLEAN
    /\ EnvMayRefuse \in BOOLEAN

NoMarker == [sha |-> 0, tx |-> 0]
\* pending_restart_verify.json: tx = 0 is a plain restart without a claim
Markers  == [sha: 0..MaxSha, tx: 0..MaxTx]

Events == [kind: {"done"}, tx: TxIds] \cup [kind: {"restart", "restart_evolution"}, tx: {0}]

Phases == {"dead", "boot", "verify", "claimed", "reconcile", "idle",
           "work", "ready", "made", "tagged", "recorded", "cleared", "pushed"}
\* phases of a worker that is executing an evolution task
Working == {"work", "ready", "made", "tagged", "recorded", "cleared", "pushed"}

QueueStates == {"none", "pending", "running", "reap_retry", "reap_fail"}
Reaping == {"reap_retry", "reap_fail"}

\* a panic sets its flags, closes the campaign and exits while the other
\* threads still run; a restart kills the pool and exits after the events
\* that its dispatch loop still finds
Servers == {"up", "flagged", "closed", "exiting", "down"}

SupPcs == {"loop", "queueing", "minting", "link", "write", "arm", "disarm", "applied",
           "stopping", "closing", "leaving_open", "starting", "restoring", "enabling",
           "effects", "finish", "restarting", "exit"}

VARIABLES
    st,      \* the evolution keys of state.json
    camp,    \* evolution_campaign.json
    req,     \* the post-task request file, 0 when absent
    marker,  \* pending_restart_verify.json
    stale,   \* claimed marker files whose process is gone
    head,    \* commits on the live branch
    pushed,  \* commits pushed to origin
    closed,  \* closed backlog items
    gen,     \* custody session of the running server
    server,  \* the server process, its panic thread included
    drain,   \* deferred restart: "", "restart" or "restart_evolution"
    q,       \* queue state of each evolution task
    evq,     \* worker event queue
    wk,      \* worker slots
    sup,     \* the supervisor thread: where it is and what it remembers
    snap,    \* campaign read by apply_pending_request before its unlocked write
    other,   \* is an ordinary task running?
    old,     \* state.json as read by a rollback in another process
    cnt,     \* how many of each bounded thing happened
    made     \* history: who made each commit, and when

vars == <<st, camp, req, marker, stale, head, pushed, closed, gen, server, drain,
          q, evq, wk, sup, snap, other, old, cnt, made>>

\* groups left alone together
files == <<st, camp, req, marker, stale, closed>>
repo  == <<head, pushed, made>>
proc  == <<gen, server, drain, q, evq, wk, sup, snap, other, old>>

State == [enabled: BOOLEAN, stopped: BOOLEAN, autostop: BOOLEAN, fails: Nat]
Idle   == [ph |-> "idle", tx |-> 0, sha |-> 0, obs |-> {}, ask |-> FALSE, claim |-> NoMarker]
Dead   == [Idle EXCEPT !.ph = "dead"]
Booting == [Idle EXCEPT !.ph = "boot"]
Off    == [enabled |-> FALSE, stopped |-> FALSE, autostop |-> FALSE, fails |-> 0]
AtLoop == [pc |-> "loop", arg |-> 0, ok |-> FALSE, st |-> Off]
NoOld  == [set |-> FALSE, st |-> Off]

Init ==
    /\ st = Off
    /\ camp = NoCampaign
    /\ req = 0 /\ marker = NoMarker /\ stale = {} /\ closed = {}
    /\ head = {} /\ pushed = {} /\ made = [s \in Shas |-> [gen |-> 0, tx |-> 0, camp |-> 0]]
    /\ gen = 1 /\ server = "up" /\ drain = ""
    /\ q = [t \in TxIds |-> "none"] /\ evq = {}
    /\ wk = [w \in Workers |-> Booting]
    /\ sup = AtLoop /\ snap = NoCampaign
    /\ other = FALSE /\ old = NoOld
    /\ cnt = [tx |-> 0, sha |-> 0, req |-> 0, owner |-> 0, panic |-> 0, crash |-> 0,
              reap |-> 0, other |-> 0, stale |-> 0]

----------------------------------------------------------------------------
Up == server # "down"
Dispatching == Up /\ sup.pc = "loop"
AtTop == Dispatching /\ server # "exiting"
Goto(pc, arg, ok) == sup' = [pc |-> pc, arg |-> arg, ok |-> ok, st |-> Off]
Return == sup' = AtLoop
Tick(f) == cnt' = [cnt EXCEPT ![f] = @ + 1]
Disable(s) == [s EXCEPT !.enabled = FALSE, !.autostop = FALSE]

Queued(t)   == q[t] \in {"pending", "running"}
QueueIdle   == ~other /\ \A t \in TxIds : ~Queued(t)
AnyRunning  == other \/ \E t \in TxIds : q[t] = "running"
OthersRun(t) == other \/ \E u \in TxIds \ {t} : q[u] = "running"

\* _cleanup_worktree_after_cycle: the branch goes back to base_head unless
\* another task is in RUNNING, the update lock is busy or git fails
Clean(x) ==
    \/ head' = IF x.id = 0 \/ OthersRun(x.id) THEN head ELSE x.base
    \/ LockMayFail /\ head' = head

\* complete_evolution_campaign, with its worktree cleanup
Close ==
    /\ Clean(camp.active)
    /\ \/ camp' = CompleteCampaign(camp)
       \/ LockMayFail /\ camp' = camp

\* claimed marker files held by the processes in W
Claims(W) == {wk[w].claim : w \in W} \ {NoMarker}

\* every process of the server is gone; what the queue keeps is next
Down(next) ==
    /\ server' = "down" /\ drain' = "" /\ q' = next /\ evq' = {}
    /\ wk' = [w \in Workers |-> Dead] /\ stale' = stale \cup Claims(Workers)
    /\ sup' = AtLoop /\ snap' = NoCampaign /\ other' = FALSE /\ old' = NoOld
    /\ UNCHANGED gen
============================================================================
