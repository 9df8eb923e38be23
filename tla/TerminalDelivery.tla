-------------------------- MODULE TerminalDelivery --------------------------
(* The durable outbox of terminal answers (supervisor/terminal_delivery.py) *)
(* with everything that writes to it: the worker that finishes a task, the  *)
(* supervisor threads that rescue the answer of a dead worker, and the      *)
(* supervisor loop that sends queued answers and replays the owed ones.     *)
(* The registry file lives through a crash; the event queue, the cache of   *)
(* delivered ids and every thread do not.                                   *)
EXTENDS Integers, Sequences, FiniteSets

CONSTANTS
    Answers,       \* the delivery ids
    NoAnswer,
    PendingCap,    \* _PENDING_CAP
    RegistryCap,   \* _REGISTRY_CAP
    CacheCap,      \* maxlen of _DELIVERED_MESSAGE_IDS
    MaxReplays,    \* _PENDING_MAX_REPLAYS
    MaxTroubles,   \* deaths of a worker, failed writes and sends, crashes together
    MaxRescues

ASSUME DeliveryAssumption ==
    /\ IsFiniteSet(Answers) /\ NoAnswer \notin Answers
    /\ {PendingCap, RegistryCap, CacheCap} \subseteq Nat \ {0} /\ MaxReplays \in Nat

VARIABLES
    row,         \* pending rows of the registry: the ids owed longer, attempts
    delivered,   \* delivered ids of the registry, newest last
    queue,       \* copies of each answer in the event queue
    cache,       \* _DELIVERED_MESSAGE_IDS, newest last
    worker,      \* the worker finishing the task of each answer
    rescue,      \* enqueue_terminal_delivery in a supervisor thread
    loop,        \* what the supervisor loop is doing
    stored,      \* answers whose task result is durable
    sends,       \* how often the owner got each answer
    disclosed,   \* answers reported as given up or as never registered
    silent,      \* answers whose report was cut short by a death
    unconfirmed, \* answers that went out without being recorded
    used         \* how often each bounded thing has happened

registryVars == <<row, delivered>>
memoryVars   == <<queue, cache>>
ghostVars    == <<stored, sends, disclosed, silent, unconfirmed>>
deliveryVars == <<registryVars, memoryVars, worker, rescue, loop, ghostVars, used>>

Ids(s)  == {s[i] : i \in DOMAIN s}
NoRow   == [owed |-> FALSE, older |-> {}, attempts |-> 0]
Pending == {d \in Answers : row[d].owed}
Idle    == [pc |-> "idle", drops |-> {}]
Drained == [pc |-> "drain", d |-> NoAnswer, due |-> {}, drops |-> {}]

Newest(s, d, cap) == Append(IF Len(s) < cap THEN s ELSE Tail(s), d)

Without(gone) == [d \in Answers |->
    IF d \in gone THEN NoRow ELSE [row[d] EXCEPT !.older = @ \ gone]]

---------------------------------------------------------------------------
(* register_pending_delivery: nothing is owed twice, and nothing delivered  *)
(* is owed.  The oldest rows over the cap leave; the caller reports them.   *)
\* Mutant: the delivered ids are not looked at.
IsNew_OwesDelivered(d) == d \notin Pending

IsNew(d) == d \notin Ids(delivered) /\ d \notin Pending
Overflow == Cardinality(Pending) + 1 - PendingCap
Evicted(d) ==
    IF IsNew(d) THEN {x \in Pending : Cardinality(row[x].older) < Overflow} ELSE {}

Owed(d) ==
    IF ~IsNew(d) THEN row
    ELSE [Without(Evicted(d)) EXCEPT
            ![d] = [owed |-> TRUE, older |-> Pending \ Evicted(d), attempts |-> 0]]

Trouble == used.troubles < MaxTroubles /\ used' = [used EXCEPT !.troubles = @ + 1]

\* Mutant: evicted rows are not reported.
Own_Silent(d, drops) ==
    \/ row' = Owed(d) /\ drops = {} /\ UNCHANGED used
    \/ Trouble /\ drops = {d} /\ UNCHANGED row

\* the locked write, or a typed terminal_delivery_unregistered report
Own(d, drops) ==
    \/ row' = Owed(d) /\ drops = Evicted(d) /\ UNCHANGED used
    \/ Trouble /\ drops = {d} /\ UNCHANGED row

\* Mutant: the row is taken out, the delivered id is not recorded.
RegisterDelivery_Forgets(d) ==
    \/ row' = Without({d}) /\ UNCHANGED <<delivered, unconfirmed, used>>
    \/ /\ Trouble
       /\ unconfirmed' = unconfirmed \cup {d}
       /\ UNCHANGED registryVars

(* register_delivery, after a send: delivered and not owed, in one write *)
RegisterDelivery(d) ==
    \/ /\ row' = Without({d})
       /\ delivered' = IF d \in Ids(delivered) THEN delivered
                       ELSE Newest(delivered, d, RegistryCap)
       /\ unconfirmed' = unconfirmed
       /\ UNCHANGED used
    \/ /\ Trouble
       /\ unconfirmed' = unconfirmed \cup {d}
       /\ UNCHANGED registryVars

---------------------------------------------------------------------------
(* The worker: owed, then stored; the live copy, then the buffered one *)
WorkerAt(d, pc) == worker[d].pc = pc /\ worker[d].drops = {}
WorkerTo(d, pc, drops) == worker' = [worker EXCEPT ![d] = [pc |-> pc, drops |-> drops]]

Put(d) == queue' = [queue EXCEPT ![d] = @ + 1]

RegisterFinalAnswerOwed(d) ==
    /\ WorkerAt(d, "working")
    /\ \E drops \in SUBSET Answers : Own(d, drops) /\ WorkerTo(d, "owed", drops)
    /\ UNCHANGED <<delivered, memoryVars, rescue, loop, ghostVars>>

StoreTaskResult(d) ==
    /\ WorkerAt(d, "owed")
    /\ stored' = stored \cup {d}
    /\ WorkerTo(d, "stored", {})
    /\ UNCHANGED <<registryVars, memoryVars, rescue, loop, sends, disclosed, silent,
                   unconfirmed, used>>

\* deliver_final_message_live registers once more before its put
RegisterLive(d) ==
    /\ WorkerAt(d, "stored")
    /\ \E drops \in SUBSET Answers : Own(d, drops) /\ WorkerTo(d, "live", drops)
    /\ UNCHANGED <<delivered, memoryVars, rescue, loop, ghostVars>>

PutLive(d) ==
    /\ WorkerAt(d, "live")
    /\ Put(d)
    /\ WorkerTo(d, "posted", {})
    /\ UNCHANGED <<registryVars, cache, rescue, loop, ghostVars, used>>

\* a task whose post-task work does not block goes straight to the return
PutBuffered(d) ==
    /\ WorkerAt(d, "stored") \/ WorkerAt(d, "posted")
    /\ Put(d)
    /\ WorkerTo(d, "gone", {})
    /\ UNCHANGED <<registryVars, cache, rescue, loop, ghostVars, used>>

WorkerDies(d) ==
    /\ worker[d].pc # "gone" /\ Trouble
    /\ silent' = silent \cup worker[d].drops
    /\ WorkerTo(d, "gone", {})
    /\ UNCHANGED <<registryVars, memoryVars, rescue, loop, stored, sends, disclosed,
                   unconfirmed>>

---------------------------------------------------------------------------
(* enqueue_terminal_delivery, for the stored answer of a worker that is gone *)
RescueTo(d, pc, drops) == rescue' = [rescue EXCEPT ![d] = [pc |-> pc, drops |-> drops]]

RescueStart(d) ==
    /\ rescue[d] = Idle /\ d \in stored /\ worker[d].pc = "gone"
    /\ used.rescues < MaxRescues
    /\ used' = [used EXCEPT !.rescues = @ + 1]
    /\ d \notin Ids(delivered)
    /\ RescueTo(d, "register", {})
    /\ UNCHANGED <<registryVars, memoryVars, worker, loop, ghostVars>>

RescueRegister(d) ==
    /\ rescue[d] = [pc |-> "register", drops |-> {}]
    /\ \E drops \in SUBSET Answers : Own(d, drops) /\ RescueTo(d, "put", drops)
    /\ UNCHANGED <<delivered, memoryVars, worker, loop, ghostVars>>

RescuePut(d) ==
    /\ rescue[d] = [pc |-> "put", drops |-> {}]
    /\ Put(d)
    /\ RescueTo(d, "idle", {})
    /\ UNCHANGED <<registryVars, cache, worker, loop, ghostVars, used>>

---------------------------------------------------------------------------
(* The supervisor loop: _handle_send_message until the queue is empty, then  *)
(* replay_pending_deliveries.  A boot starts with an empty queue.            *)
At(pc, d) == [Drained EXCEPT !.pc = pc, !.d = d]

\* Mutant: a copy is taken that is not in the queue.
HandleSendMessage_NoCopy(d) ==
    /\ loop.pc = "drain"
    /\ queue' = [queue EXCEPT ![d] = @ - 1]
    /\ loop' = IF d \in Ids(cache) THEN At("again", d)
               ELSE IF d \in Ids(delivered) THEN Drained
               ELSE At("send", d)
    /\ UNCHANGED <<registryVars, cache, worker, rescue, ghostVars, used>>

HandleSendMessage(d) ==
    /\ loop.pc = "drain" /\ queue[d] > 0
    /\ queue' = [queue EXCEPT ![d] = @ - 1]
    /\ loop' = IF d \in Ids(cache) THEN At("again", d)
               ELSE IF d \in Ids(delivered) THEN Drained
               ELSE At("send", d)
    /\ UNCHANGED <<registryVars, cache, worker, rescue, ghostVars, used>>

Send ==
    /\ loop.pc = "send"
    /\ sends' = [sends EXCEPT ![loop.d] = @ + 1]
    /\ cache' = Newest(cache, loop.d, CacheCap)
    /\ loop' = At("sent", loop.d)
    /\ UNCHANGED <<registryVars, queue, worker, rescue, stored, disclosed, silent,
                   unconfirmed, used>>

\* the event is consumed; the send may have raised after the message went out
SendRaises ==
    /\ loop.pc = "send"
    /\ \/ UNCHANGED <<sends, unconfirmed, used>>
       \/ /\ Trouble
          /\ sends' = [sends EXCEPT ![loop.d] = @ + 1]
          /\ unconfirmed' = unconfirmed \cup {loop.d}
    /\ loop' = Drained
    /\ UNCHANGED <<registryVars, memoryVars, worker, rescue, stored, disclosed, silent>>

RegisterDelivered ==
    /\ loop.pc \in {"sent", "again"}
    /\ RegisterDelivery(loop.d)
    /\ loop' = Drained
    /\ UNCHANGED <<memoryVars, worker, rescue, stored, sends, disclosed, silent>>

\* reading the owed rows that are due; when one is depends on the clock
ReplayRead(due) ==
    /\ loop.pc = "drain" /\ \A d \in Answers : queue[d] = 0
    /\ due # {} /\ due \subseteq Pending \ Ids(delivered)
    /\ loop' = [Drained EXCEPT !.pc = "bump", !.due = due]
    /\ UNCHANGED <<registryVars, memoryVars, worker, rescue, ghostVars, used>>

\* _bump_replay_attempts: an exhausted row is dropped, and reported
Exhausted == {d \in loop.due \cap Pending : row[d].attempts + 1 > MaxReplays}

\* Mutant: the attempts are not counted.
BumpReplayAttempts_NoCount ==
    /\ loop.pc = "bump"
    /\ loop' = [loop EXCEPT !.pc = "replay"]
    /\ UNCHANGED <<registryVars, memoryVars, worker, rescue, ghostVars, used>>

BumpReplayAttempts ==
    /\ loop.pc = "bump"
    /\ \/ /\ row' = [d \in Answers |->
                IF d \in (loop.due \cap Pending) \ Exhausted
                THEN [Without(Exhausted)[d] EXCEPT !.attempts = @ + 1]
                ELSE Without(Exhausted)[d]]
          /\ loop' = [Drained EXCEPT !.pc = "replay", !.drops = Exhausted,
                                     !.due = (loop.due \cap Pending) \ Exhausted]
          /\ UNCHANGED used
       \/ Trouble /\ loop' = [loop EXCEPT !.pc = "replay"] /\ UNCHANGED row
    /\ UNCHANGED <<delivered, memoryVars, worker, rescue, ghostVars>>

ReplayPut ==
    /\ loop.pc = "replay" /\ loop.drops = {}
    /\ queue' = [d \in Answers |-> queue[d] + IF d \in loop.due THEN 1 ELSE 0]
    /\ loop' = Drained
    /\ UNCHANGED <<registryVars, cache, worker, rescue, ghostVars, used>>

---------------------------------------------------------------------------
(* _disclose_exhausted_delivery and _log_unregistered_delivery, after the lock *)
Disclose(x) ==
    /\ \/ /\ x \in loop.drops
          /\ loop' = [loop EXCEPT !.drops = @ \ {x}]
          /\ UNCHANGED <<worker, rescue>>
       \/ \E d \in Answers :
            \/ /\ x \in worker[d].drops
               /\ worker' = [worker EXCEPT ![d].drops = @ \ {x}]
               /\ UNCHANGED <<rescue, loop>>
            \/ /\ x \in rescue[d].drops
               /\ rescue' = [rescue EXCEPT ![d].drops = @ \ {x}]
               /\ UNCHANGED <<worker, loop>>
    /\ disclosed' = disclosed \cup {x}
    /\ UNCHANGED <<registryVars, memoryVars, stored, sends, silent, unconfirmed, used>>

\* dropped rows that a living process still has to report
InHand == {x \in Answers :
    x \in loop.drops \/ \E d \in Answers : x \in worker[d].drops \cup rescue[d].drops}

\* the server dies or restarts; its workers are killed, and the next one boots
Crash ==
    /\ Trouble
    /\ silent' = silent \cup InHand
    /\ unconfirmed' = unconfirmed \cup (IF loop.pc = "sent" THEN {loop.d} ELSE {})
    /\ queue' = [d \in Answers |-> 0] /\ cache' = <<>> /\ loop' = Drained
    /\ rescue' = [d \in Answers |-> Idle]
    /\ worker' = [d \in Answers |-> [pc |-> "gone", drops |-> {}]]
    /\ UNCHANGED <<registryVars, stored, sends, disclosed>>

---------------------------------------------------------------------------
Delivery_Init ==
    /\ row = [d \in Answers |-> NoRow] /\ delivered = <<>>
    /\ queue = [d \in Answers |-> 0] /\ cache = <<>> /\ loop = Drained
    /\ worker = [d \in Answers |-> [pc |-> "working", drops |-> {}]]
    /\ rescue = [d \in Answers |-> Idle]
    /\ stored = {} /\ disclosed = {} /\ silent = {} /\ unconfirmed = {}
    /\ sends = [d \in Answers |-> 0]
    /\ used = [troubles |-> 0, rescues |-> 0]

WorkerSteps(d) ==
    RegisterFinalAnswerOwed(d) \/ StoreTaskResult(d) \/ RegisterLive(d) \/ PutLive(d)
    \/ PutBuffered(d)

RescueSteps(d) == RescueRegister(d) \/ RescuePut(d)

LoopSteps ==
    \/ \E d \in Answers : HandleSendMessage(d)
    \/ Send \/ SendRaises \/ RegisterDelivered \/ BumpReplayAttempts \/ ReplayPut

Delivery_Next ==
    \/ LoopSteps
    \/ \E due \in SUBSET Answers : ReplayRead(due)
    \/ \E d \in Answers : WorkerSteps(d) \/ RescueStart(d) \/ RescueSteps(d)
    \/ \E d \in Answers : Disclose(d) \/ WorkerDies(d)
    \/ Crash

Delivery_Spec == Delivery_Init /\ [][Delivery_Next]_deliveryVars

\* The loop drains its queue and then looks at the outbox, where the backoff
\* of a row is bounded, so a row that stays owed is due at one of its visits.
\* Threads and workers that started run on.  No send need ever succeed.
Delivery_Fairness ==
    /\ WF_deliveryVars(LoopSteps)
    /\ \A d \in Answers :
        /\ WF_deliveryVars(WorkerSteps(d)) /\ WF_deliveryVars(RescueSteps(d))
        /\ WF_deliveryVars(Disclose(d))
        /\ SF_deliveryVars(\E due \in SUBSET Answers : d \in due /\ ReplayRead(due))

Delivery_FairSpec == Delivery_Spec /\ Delivery_Fairness

---------------------------------------------------------------------------
WorkerPcs == {"working", "owed", "stored", "live", "posted", "gone"}

\* The registry, the queue and every process hold what their type says.
DeliveryTypeOK ==
    /\ row \in [Answers -> [owed: BOOLEAN, older: SUBSET Answers, attempts: Nat]]
    /\ delivered \in Seq(Answers) /\ cache \in Seq(Answers)
    /\ queue \in [Answers -> Nat] /\ sends \in [Answers -> Nat]
    /\ worker \in [Answers -> [pc: WorkerPcs, drops: SUBSET Answers]]
    /\ rescue \in [Answers -> [pc: {"idle", "register", "put"}, drops: SUBSET Answers]]
    /\ loop \in [pc: {"drain", "send", "sent", "again", "bump", "replay"},
                 d: Answers \cup {NoAnswer}, due: SUBSET Answers, drops: SUBSET Answers]
    /\ loop.pc \in {"send", "sent", "again"} => loop.d \in Answers
    /\ {stored, disclosed, silent, unconfirmed} \subseteq SUBSET Answers
    /\ used \in [troubles: Nat, rescues: Nat]

\* An answer is never both delivered and owed, however the worker, the rescue
\* and the loop interleave: register_pending_delivery looks for the id in the
\* very write in which it would add it, and register_delivery takes it out.
DeliveredNotOwed == Ids(delivered) \cap Pending = {}

\* The promise of the outbox (never lost): once the result of a task is stored,
\* its answer went out, is owed, or was reported undelivered.  The only other
\* way is a process that dies between dropping a row and reporting it.
NeverLost ==
    \A d \in stored : sends[d] > 0 \/ d \in Pending \cup disclosed \cup InHand \cup silent

\* The other half (never doubled): the live copy, the buffered copy, the rescue
\* and the replays reach the owner once, unless a send went out unrecorded
\* because of a crash or of a failed registry write.
SentOnce == \A d \in Answers : sends[d] > 1 => d \in unconfirmed

\* No debt is replayed for ever: a chat that never takes the message, and any
\* number of lost copies, end in a delivery or in a dropped row.
DebtEnds == \A d \in Answers : d \in Pending ~> d \notin Pending
=============================================================================
