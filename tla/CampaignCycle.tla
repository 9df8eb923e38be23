--------------------------- MODULE CampaignCycle ---------------------------
(* What the evolution campaign promises about its cycles, whatever the      *)
(* processes, files and flags that carry them out: a campaign runs one      *)
(* cycle at a time, a cycle is committed at most once and settled exactly   *)
(* once, an unfinished cycle is never taken for a finished one, and a       *)
(* closed campaign does nothing more until a new one is founded.            *)
(* EvolutionLifecycle implements this specification.                        *)
EXTENDS Naturals

CONSTANTS CycleIds, CommitIds   \* 0 is in neither

VARIABLES
    number,  \* how many campaigns were founded
    live,    \* is the last one active or paused?
    cycle,   \* its unsettled cycle and that cycle's commit, 0 for none
    settled  \* its settled cycles

cycleVars == <<number, live, cycle, settled>>

None == [id |-> 0, sha |-> 0]

Cycle_Init == number = 0 /\ live = FALSE /\ cycle = None /\ settled = {}

Running   == live /\ cycle.id # 0
IsOpen    == Running /\ cycle.sha = 0
IsWaiting == Running /\ cycle.sha # 0

As(outcome) == [id |-> cycle.id, sha |-> cycle.sha, outcome |-> outcome]

Found ==
    /\ ~live
    /\ number' = number + 1 /\ live' = TRUE /\ cycle' = None /\ settled' = {}

\* an open cycle that was never dispatched makes room for the next one
Begin(t) ==
    /\ live /\ ~IsWaiting
    /\ t # cycle.id /\ \A x \in settled : x.id # t
    /\ cycle' = [id |-> t, sha |-> 0]
    /\ settled' = settled \cup (IF IsOpen THEN {As("abandoned")} ELSE {})
    /\ UNCHANGED <<number, live>>

Commit(s) ==
    /\ IsOpen
    /\ cycle' = [cycle EXCEPT !.sha = s]
    /\ UNCHANGED <<number, live, settled>>

Settle(outcome) ==
    /\ settled' = settled \cup {As(outcome)}
    /\ cycle' = None

Absorb  == IsWaiting /\ Settle("absorbed") /\ UNCHANGED <<number, live>>
Abandon == Running /\ Settle("abandoned") /\ UNCHANGED <<number, live>>
NoOp    == IsOpen /\ Settle("no_op") /\ UNCHANGED <<number, live>>

\* a committed cycle may still wait for its restart when the campaign closes
Close ==
    /\ live /\ live' = FALSE
    /\ \/ cycle.id = 0 /\ UNCHANGED <<cycle, settled>>
       \/ Running /\ Settle("owner_stopped")
       \/ IsWaiting /\ Settle("waiting_for_restart")
    /\ UNCHANGED number

Cycle_Next ==
    \/ Found \/ Absorb \/ Abandon \/ NoOp \/ Close
    \/ \E t \in CycleIds : Begin(t)
    \/ \E s \in CommitIds : Commit(s)

Cycle_Spec == Cycle_Init /\ [][Cycle_Next]_cycleVars
============================================================================
