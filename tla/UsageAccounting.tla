-------------------------- MODULE UsageAccounting --------------------------
(***************************************************************************)
(* ouroboros/usage_accounting.py: the budget of model calls.  Each call    *)
(* reserves an upper bound of its cost, is marked dispatched, goes to the  *)
(* provider and is settled; each of these is one section under the lock of *)
(* the ledger, and the provider is called between two of them.  A process  *)
(* may die anywhere; an append may fail with any part of it written.  A    *)
(* call of a readonly child (gateways/claude_code.py) is closed by its     *)
(* parent when the child dies.                                             *)
(***************************************************************************)
EXTENDS UsageLedger, FiniteSetsExt

CONSTANTS Children,    \* the attempts made in a child process
          Bound,       \* _reservation_cost of an attempt, or Undisclosed
          Price,       \* the cost of a one-shot or imported row
          Roots, Root, \* the task trees, and the tree of a row
          Limit, RootLimit,
          MaxCharge,   \* what a call of unknown price may cost
          MaxOverrun,  \* what a call may cost beyond its reservation
          MaxFaults    \* appends that fail

ASSUME BoundAssumption == Bound \in [Attempts -> Nat \cup {Undisclosed}]
ASSUME PriceAssumption == Price \in [Sessions \cup Legacy -> Nat]
ASSUME LimitAssumption == Limit \in Nat /\ RootLimit \in [Roots -> Nat]
ASSUME RootAssumption == Root \in [Ids -> Roots]
ASSUME ChildrenAssumption == Children \subseteq Attempts
ASSUME FaultsAssumption == MaxFaults \in Nat /\ MaxCharge \in Nat /\ MaxOverrun \in Nat

VARIABLES
    ledger,      \* state/usage_attempts.jsonl
    quarantined, \* does the quarantine file exist?
    imported,    \* the watermark of the import
    pc, due,     \* where an attempt's owner is, and the row it writes next
    told,        \* the children whose parent has read the attempt's id
    recorded,    \* ledger_recorded of the custody of a session
    charge,      \* what the provider charged for an attempt
    lost,        \* the ids of rows that went with a bare line
    faults       \* the appends that failed so far

ownerVars == <<pc, due, told, charge>>
usageVars == <<ledger, quarantined, imported, ownerVars, recorded, lost, faults>>

PCs == {"idle", "held", "sent", "settling", "closing", "over", "dead", "stuck"}
Priced == {a \in Attempts : Bound[a] # Undisclosed}

\* What a row counts in _summary, as far as it is known.
Upper(i) == IF i \notin Attempts THEN Price[i]
            ELSE IF Bound[i] = Undisclosed THEN 0 ELSE Bound[i]
Counts(i, row) ==
    CASE row.st \in {"absent", "released"} -> 0
      [] row.st = "settled" /\ row.cost # Undisclosed -> row.cost
      [] OTHER -> Upper(i)

\* The reservation is planned from an estimate of the tokens: an answer may
\* have cost more, and is settled for what it cost.
Charges(a) == 0 .. (IF a \in Priced THEN Bound[a] + MaxOverrun ELSE MaxCharge)

Accounted(rows, S) == MapThenSumSet(LAMBDA i : Counts(i, rows[i]), S)
Tree(r) == {i \in Ids : Root[i] = r}

\* Mutant: the bound of the new attempt is not looked at.
Fits_OnlyNow(rows, a, S, limit) == Accounted(rows, S) < limit

\* The checks of reserve_attempt: something is left of both budgets, and the
\* bound, when the price is known, fits.
Fits(rows, a, S, limit) ==
    LET spent == Accounted(rows, S) IN
    /\ limit > 0 /\ spent < limit
    /\ a \in Priced => spent + Bound[a] <= limit

----------------------------------------------------------------------------
\* One locked section: read, quarantine, append.  A section that raises
\* leaves the file as its reader left it.  An unreadable file stops everyone;
\* only the import, before any call, can leave one.
Reads == /\ ledger.end # "corrupt"
         /\ quarantined' = (quarantined \/ ledger.end = "torn")

Look == Reads /\ ledger' = Replayed(ledger) /\ UNCHANGED <<lost, faults>>

Appends(batch) ==
    /\ Reads /\ Valid(Replayed(ledger), batch)
    /\ ledger' = Appended(Replayed(ledger), batch)
    /\ lost' = lost \cup Unlearned(Replayed(ledger), ledger', DOMAIN batch)
    /\ UNCHANGED faults

Fails(batch) ==
    /\ Reads /\ Valid(Replayed(ledger), batch)
    /\ faults < MaxFaults /\ faults' = faults + 1
    /\ ledger' \in AfterFailure(Replayed(ledger), batch)
    /\ lost' = lost \cup Unlearned(Replayed(ledger), ledger', {})

\* _validate_records refuses the transition.
Refuses(batch) == Look /\ ~Valid(Replayed(ledger), batch)

Raises(batch) == Fails(batch) \/ Refuses(batch)

One(i, row) == [j \in {i} |-> row]

\* A process dies between writing the quarantine and cutting the line off.
QuarantineDies ==
    /\ ledger.end = "torn" /\ quarantined' = TRUE
    /\ UNCHANGED <<ledger, imported, ownerVars, recorded, lost, faults>>

----------------------------------------------------------------------------
\* The rows a call of the import still finds to write.
Missing == [l \in {l \in Legacy : Replayed(ledger).rows[l].st = "absent"} |->
                Settled(Price[l], FALSE)]

\* Mutant: the watermark is written before the rows.
Import_WatermarkFirst ==
    /\ ~imported /\ imported' = TRUE
    /\ Appends(Missing) \/ Fails(Missing)
    /\ UNCHANGED <<ownerVars, recorded>>

\* ensure_legacy_imported: what is not there yet is appended in one batch,
\* and then the watermark written.  Every call that finds no watermark tries.
Import ==
    /\ ~imported
    /\ \/ Appends(Missing) /\ imported' = TRUE
       \/ Fails(Missing) /\ UNCHANGED imported
    /\ UNCHANGED <<ownerVars, recorded>>

\* _append_single_settled_row: again and again until the caller's own record
\* of it is durable; a row that is there is not appended twice.
Record(s) ==
    LET row == One(s, Settled(Price[s], TRUE)) IN
    /\ imported
    /\ \/ Look /\ Replayed(ledger).rows[s].st # "absent" /\ recorded' = recorded \cup {s}
       \/ Appends(row) /\ recorded' = recorded \cup {s}
       \/ Fails(row) /\ UNCHANGED recorded
    /\ UNCHANGED <<imported, ownerVars>>

----------------------------------------------------------------------------
\* reserve_attempt.  Refused, or failing, it raises and nothing is sent.
Reserve(a) ==
    LET rows == Replayed(ledger).rows IN
    /\ imported /\ pc[a] = "idle"
    /\ IF /\ Fits(rows, a, Ids, Limit)
          /\ Fits(rows, a, Tree(Root[a]), RootLimit[Root[a]])
       THEN \/ Appends(One(a, A("reserved"))) /\ pc' = [pc EXCEPT ![a] = "held"]
            \/ Fails(One(a, A("reserved"))) /\ pc' = [pc EXCEPT ![a] = "stuck"]
       ELSE Look /\ UNCHANGED pc
    /\ UNCHANGED <<imported, due, told, charge, recorded>>

\* mark_dispatched, and in a child the line with the attempt for its parent,
\* which may not get out.
Dispatch(a) ==
    LET row == One(a, A("dispatched")) IN
    /\ pc[a] = "held"
    /\ \/ /\ Appends(row)
          /\ pc' = [pc EXCEPT ![a] = "sent"]
          /\ told' \in {told, told \cup ({a} \cap Children)}
       \/ Raises(row) /\ pc' = [pc EXCEPT ![a] = "stuck"] /\ UNCHANGED told
    /\ UNCHANGED <<imported, due, charge, recorded>>

\* The actor has no sends left (physical_attempt_limit).
HitsLimit(a) ==
    /\ pc[a] = "held"
    /\ pc' = [pc EXCEPT ![a] = "closing"]
    /\ due' = [due EXCEPT ![a] = A("released")]
    /\ UNCHANGED <<ledger, quarantined, imported, told, charge, recorded, lost, faults>>

\* The provider charges c, and the call answers or raises.
Ends(a, c, step, row) ==
    /\ pc[a] = "sent"
    /\ charge' = [charge EXCEPT ![a] = c]
    /\ pc' = [pc EXCEPT ![a] = step]
    /\ due' = [due EXCEPT ![a] = row]
    /\ UNCHANGED <<ledger, quarantined, imported, told, recorded, lost, faults>>

\* A cost comes with the answer, or is estimated from its tokens, or is not
\* known at all; an error in the body that billed no token cost nothing.
Answers(a, c) == \/ Ends(a, c, "settling", Settled(c, TRUE))
                 \/ \E e \in Charges(a) : Ends(a, c, "settling", Settled(e, FALSE))
                 \/ Ends(a, c, "settling", Settled(Undisclosed, FALSE))

\* _terminalize_failed_attempt: a request that was rejected before it reached
\* a model cost nothing; after any other failure nobody knows.
Throws(a, c) == \/ c = 0 /\ Ends(a, c, "closing", Settled(0, TRUE))
                \/ Ends(a, c, "closing", A("unresolved"))

Call(a) == \E c \in Charges(a) : Answers(a, c) \/ Throws(a, c)

\* Mutant: a settlement that cannot be written is given up.
Close_Swallows(a) ==
    LET row == One(a, due[a]) IN
    /\ pc[a] \in {"settling", "closing"}
    /\ Appends(row) \/ Raises(row)
    /\ pc' = [pc EXCEPT ![a] = "over"]
    /\ UNCHANGED <<imported, due, told, charge, recorded>>

\* settle_attempt, release_attempt and mark_unresolved: a settlement that
\* cannot be written is followed by one try to leave the bound counted.
Close(a) ==
    LET row == One(a, due[a]) IN
    /\ pc[a] \in {"settling", "closing"}
    /\ \/ Appends(row) /\ pc' = [pc EXCEPT ![a] = "over"] /\ UNCHANGED due
       \/ /\ Raises(row) /\ pc[a] = "settling"
          /\ pc' = [pc EXCEPT ![a] = "closing"]
          /\ due' = [due EXCEPT ![a] = A("unresolved")]
       \/ Raises(row) /\ pc[a] = "closing" /\ pc' = [pc EXCEPT ![a] = "stuck"] /\ UNCHANGED due
    /\ UNCHANGED <<imported, told, charge, recorded>>

\* The owner's process dies.  A child may do so after its accounting is done.
Dies(a) ==
    /\ pc[a] \in {"held", "sent", "settling", "closing", "over", "stuck"}
    /\ pc[a] \in {"over", "stuck"} => a \in told
    /\ pc' = [pc EXCEPT ![a] = "dead"]
    /\ \/ pc[a] = "sent" /\ \E c \in Charges(a) : charge' = [charge EXCEPT ![a] = c]
       \/ UNCHANGED charge
    /\ UNCHANGED <<ledger, quarantined, imported, due, told, recorded, lost, faults>>

\* How a call that was sent may be closed by another than its owner.
Unfinished == {A("unresolved"), Settled(Undisclosed, FALSE)}
Estimates(a) == {Settled(e, FALSE) : e \in Charges(a)}

\* Mutant: what was not settled is released.
Inspect_Releases(a) ==
    /\ pc[a] = "dead" /\ a \in told /\ Look
    /\ told' = told \ {a}
    /\ IF Replayed(ledger).rows[a].st \in Terminal \cup {"absent"}
       THEN pc' = [pc EXCEPT ![a] = "over"] /\ UNCHANGED due
       ELSE /\ pc' = [pc EXCEPT ![a] = "closing"]
            /\ due' = [due EXCEPT ![a] = Settled(0, TRUE)]
    /\ UNCHANGED <<imported, charge, recorded>>

\* terminalize_abandoned_attempt by the parent, which reads in one section
\* and closes in another.  The tokens the child reported give an estimate;
\* without any the bound stays counted.
Inspect(a) ==
    LET st == Replayed(ledger).rows[a].st IN
    /\ pc[a] = "dead" /\ a \in told
    /\ told' = told \ {a}
    /\ Look
    /\ \/ /\ st \in Terminal \cup {"absent"}
          /\ pc' = [pc EXCEPT ![a] = "over"] /\ UNCHANGED due
       \/ /\ st \in {"reserved", "dispatched"}
          /\ pc' = [pc EXCEPT ![a] = "closing"]
          /\ \E row \in IF st = "reserved" THEN {A("released")}
                        ELSE Unfinished \cup Estimates(a) :
                due' = [due EXCEPT ![a] = row]
    /\ UNCHANGED <<imported, charge, recorded>>

----------------------------------------------------------------------------
Usage_Init ==
    /\ ledger = EmptyFile /\ quarantined = FALSE /\ imported = FALSE
    /\ pc = [a \in Attempts |-> "idle"]
    /\ due = [a \in Attempts |-> A("absent")]
    /\ told = {} /\ recorded = {} /\ lost = {}
    /\ charge = [a \in Attempts |-> 0]
    /\ faults = 0

OwnerStep(a) == Dispatch(a) \/ Call(a) \/ Close(a) \/ Inspect(a)

Usage_Next ==
    \/ Import \/ QuarantineDies
    \/ \E s \in Sessions : Record(s)
    \/ \E a \in Attempts : Reserve(a) \/ HitsLimit(a) \/ OwnerStep(a) \/ Dies(a)

Usage_Spec == Usage_Init /\ [][Usage_Next]_usageVars

\* A process that runs goes on, its provider answers or its client gives up,
\* and a parent notices the death of its child.
Usage_FairSpec == Usage_Spec /\ \A a \in Attempts : WF_usageVars(OwnerStep(a))

----------------------------------------------------------------------------
UsageTypeOK ==
    /\ ledger \in UsageFile /\ quarantined \in BOOLEAN /\ imported \in BOOLEAN
    /\ pc \in [Attempts -> PCs] /\ due \in [Attempts -> Row]
    /\ told \subseteq Attempts /\ recorded \subseteq Sessions /\ lost \subseteq Ids
    /\ charge \in [Attempts -> Nat] /\ faults \in 0 .. MaxFaults

\* A row that is settled with a cost, and one that says it is an estimate.
Costed(a) == ledger.rows[a].st = "settled" /\ ledger.rows[a].cost # Undisclosed
Estimated(a) == Costed(a) /\ ~ledger.rows[a].exact

\* What the provider charged for a call of known price stays counted against
\* the budget by the row of that call, whoever died or failed to write on the
\* way.  A call that cost more than was reserved for it counts what it cost
\* once that is on disk, and its whole reservation until then or if nobody
\* learned it.  Only an estimate, which says so, may be less, and a row that
\* was glued to a bare line.
ChargeCovered ==
    \A a \in Priced : \/ charge[a] <= Counts(a, ledger.rows[a])
                      \/ ~Costed(a) /\ Counts(a, ledger.rows[a]) = Bound[a]
                      \/ Estimated(a) \/ a \in lost

\* All calls together, of one tree or of all of them, never really cost more
\* than the limit they were admitted under, except by what single calls cost
\* beyond their reservations, and by what ChargeCovered excepts.
Known == {a \in Priced : ~Estimated(a) /\ a \notin lost}
Planned(a) == IF charge[a] <= Bound[a] THEN charge[a] ELSE Bound[a]
SpendWithinLimits ==
    /\ MapThenSumSet(Planned, Known) <= Limit
    /\ \A r \in Roots : MapThenSumSet(Planned, Known \cap Tree(r)) <= RootLimit[r]

\* A writer that was told its row is durable finds it again, or the row went
\* with a bare line and the quarantine says, or will say at the next read,
\* that the ledger is degraded.
Kept(i, states) == \/ ledger.rows[i].st \in states
                   \/ i \in lost /\ (quarantined \/ ledger.end \in {"torn", "corrupt"})
AcknowledgedKept ==
    /\ imported => \A l \in Legacy : Kept(l, {"settled"})
    /\ \A s \in recorded : Kept(s, {"settled"})
    /\ \A a \in Attempts : /\ (pc[a] = "held") => Kept(a, {"reserved"})
                           /\ (pc[a] = "sent") => Kept(a, {"dispatched"})
                           /\ (pc[a] = "over") => Kept(a, Terminal)

\* A reservation does not hold its share of the budget for ever: it is
\* settled, released or left unresolved, unless its owner died with nobody
\* told, a write failed, or the row went.
HoldsEnd ==
    \A a \in Attempts :
        (pc[a] = "held") ~> \/ ledger.rows[a].st \in Terminal
                            \/ pc[a] = "stuck"
                            \/ pc[a] = "dead" /\ a \notin told
                            \/ a \in lost

\* usage_ledger.py 277-279: a row that a reader has validated stays.
HistoryKept ==
    [][\A i \in Ids : ledger.rows[i].st # "absent" => ledger'.rows[i].st # "absent"]_usageVars
=============================================================================
