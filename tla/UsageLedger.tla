---------------------------- MODULE UsageLedger ----------------------------
(***************************************************************************)
(* The file under the accounting of model calls                            *)
(* (ouroboros/usage_ledger.py): state/usage_attempts.jsonl, one JSON line  *)
(* per change of an attempt, appended under a lock of all processes.       *)
(*                                                                         *)
(* A file is represented by what a replay of it yields: rows, the last row *)
(* of every id (_final_rows), and whole, the same without a last line that *)
(* lacks its newline.  end says how the file ends: "whole" with a newline; *)
(* "bare" with a complete row whose newline is missing, which a reader     *)
(* accepts; "torn" with a last line that is no row, which the next reader  *)
(* moves to the quarantine; "corrupt" with such a line further up, which   *)
(* every reader refuses.                                                   *)
(***************************************************************************)
EXTENDS Integers, FiniteSets

CONSTANTS Attempts,   \* calls of a model, each with its reservation
          Sessions,   \* one-shot rows: a delegated session, an external call
          Legacy,     \* the rows of the one-time import
          Undisclosed \* a cost nobody knows

Ids == Attempts \cup Sessions \cup Legacy

ASSUME KindsAssumption == /\ Attempts \cap (Sessions \cup Legacy) = {}
                          /\ Sessions \cap Legacy = {}
ASSUME LegacyAssumption == IsFiniteSet(Legacy)
ASSUME CostAssumption == Undisclosed \notin Int

Terminal == {"settled", "unresolved", "released"}
Row == [st : {"absent", "reserved", "dispatched"} \cup Terminal,
        cost : Nat \cup {Undisclosed}, exact : BOOLEAN]

A(st) == [st |-> st, cost |-> Undisclosed, exact |-> FALSE]
Settled(cost, exact) == [st |-> "settled", cost |-> cost, exact |-> exact]

UsageFile == [rows : [Ids -> Row], whole : [Ids -> Row],
              end : {"whole", "bare", "torn", "corrupt"}]
EmptyFile == [rows |-> [i \in Ids |-> A("absent")],
              whole |-> [i \in Ids |-> A("absent")], end |-> "whole"]

----------------------------------------------------------------------------
\* _read_records_locked and _quarantine_tail: the file after a reader, which
\* cuts off a torn last line and leaves a bare one.
Replayed(f) == IF f.end = "torn" THEN [f EXCEPT !.end = "whole"] ELSE f

\* _validate_records: an attempt is reserved, then released or dispatched,
\* then settled or unresolved; a row of the other kinds has no past.
Allowed(i, old, new) ==
    IF i \in Attempts
    THEN \/ old = "absent" /\ new = "reserved"
         \/ old = "reserved" /\ new \in {"dispatched", "released"}
         \/ old = "dispatched" /\ new \in {"settled", "unresolved"}
    ELSE old = "absent" /\ new = "settled"

Valid(f, batch) ==
    \A i \in DOMAIN batch : Allowed(i, f.rows[i].st, batch[i].st)

----------------------------------------------------------------------------
\* A batch is a function from ids to rows; its lines go to the file together.
With(rows, batch) ==
    [i \in Ids |-> IF i \in DOMAIN batch THEN batch[i] ELSE rows[i]]
Part(batch, S) == [i \in S |-> batch[i]]

\* More bytes after a bare line make one line of two rows, which is none.
\* Whatever follows that line on lines of its own makes the file unreadable.
Glued(f, follows) ==
    [rows |-> f.whole, whole |-> f.whole, end |-> IF follows THEN "corrupt" ELSE "torn"]

\* _append_bytes_fsync: the file after all lines of a batch ...
Appended(f, batch) ==
    IF DOMAIN batch = {} THEN f
    ELSE IF f.end = "bare" THEN Glued(f, Cardinality(DOMAIN batch) > 1)
    ELSE [rows |-> With(f.rows, batch), whole |-> With(f.rows, batch), end |-> "whole"]

\* ... after some of them and a piece of the next ...
Broken(f, batch, S) ==
    IF f.end = "bare" THEN Glued(f, S # {})
    ELSE [Appended(f, Part(batch, S)) EXCEPT !.end = "torn"]

\* ... and after some of them and the next one without its newline.
Unended(f, batch, S, i) ==
    IF f.end = "bare" THEN Glued(f, S # {})
    ELSE LET before == Appended(f, Part(batch, S))
         IN  [rows |-> With(before.rows, Part(batch, {i})), whole |-> before.rows,
              end |-> "bare"]

\* What the file may be after an append that died, or raised: the disk is
\* full, the write or the fsync fails.
AfterFailure(f, batch) ==
         {Appended(f, Part(batch, S)) : S \in SUBSET DOMAIN batch}
    \cup {Broken(f, batch, S) : S \in SUBSET DOMAIN batch \ {DOMAIN batch}}
    \cup UNION {{Unended(f, batch, S, i) : i \in DOMAIN batch \ S} : S \in SUBSET DOMAIN batch}

\* The ids whose rows go when something lands on a bare line: the row of that
\* line, and of the batch what its writer takes for written.
Unlearned(f, g, written) ==
    IF f.end = "bare" /\ g # f
    THEN {i \in Ids : f.rows[i] # f.whole[i]} \cup written ELSE {}
=============================================================================
