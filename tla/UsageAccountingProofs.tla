----------------------- MODULE UsageAccountingProofs -----------------------
(***************************************************************************)
(* Proofs about the accounting of model calls, for every set of attempts,  *)
(* sessions and imported rows, every bound and price, and any number of    *)
(* failed appends: types, ChargeCovered, AcknowledgedKept and the limits   *)
(* of the spend.  What a section does to the file is stated once           *)
(* (Section); every action then follows the row of its own attempt.  Sums  *)
(* over sets of rows are argued by their smallest exception.               *)
(***************************************************************************)
EXTENDS UsageAccounting, FiniteSetTheorems, WellFoundedInduction, NaturalsInduction, TLAPS

IsBatch(b) == b \in [DOMAIN b -> Row] /\ DOMAIN b \subseteq Ids
Aligned(f) == f.end # "bare" => f.rows = f.whole

\* What a section may do to the row of an id.
Written(f, g, b, i) == i \in DOMAIN b /\ g.rows[i] = b[i]
Moved(f, g, b, i) ==
    \/ g.rows[i] = f.rows[i]
    \/ Written(f, g, b, i) /\ Allowed(i, f.rows[i].st, b[i].st)

----------------------------------------------------------------------------
\* A reader leaves a file it can append to, with the rows it had.
LEMMA ReplayedFile ==
  ASSUME NEW f \in UsageFile, Aligned(f), f.end # "corrupt"
  PROVE  /\ Replayed(f) \in UsageFile /\ Aligned(Replayed(f))
         /\ Replayed(f).end \in {"whole", "bare"}
         /\ Replayed(f).rows = f.rows
  BY DEF UsageFile, Aligned, Replayed

LEMMA PartIsBatch ==
  ASSUME NEW b, IsBatch(b), NEW S \in SUBSET DOMAIN b
  PROVE  /\ IsBatch(Part(b, S)) /\ DOMAIN Part(b, S) = S
         /\ \A i \in S : Part(b, S)[i] = b[i]
  BY DEF IsBatch, Part

LEMMA WithRows ==
  ASSUME NEW r \in [Ids -> Row], NEW b, IsBatch(b)
  PROVE  /\ With(r, b) \in [Ids -> Row]
         /\ \A i \in Ids : With(r, b)[i] = IF i \in DOMAIN b THEN b[i] ELSE r[i]
  BY DEF IsBatch, With

LEMMA GluedFile ==
  ASSUME NEW f \in UsageFile, NEW follows \in BOOLEAN
  PROVE  /\ Glued(f, follows) \in UsageFile /\ Aligned(Glued(f, follows))
         /\ Glued(f, follows).rows = f.whole
         /\ Glued(f, follows).end \in {"torn", "corrupt"}
  BY DEF UsageFile, Glued, Aligned

\* A row that is not among those that went with the bare line is still there.
LEMMA GluedRows ==
  ASSUME NEW f \in UsageFile, f.end = "bare", NEW follows \in BOOLEAN, NEW w \in SUBSET Ids
  PROVE  LET g == Glued(f, follows)
             u == Unlearned(f, g, w)
         IN  /\ u \subseteq Ids /\ w \subseteq u
             /\ \A i \in Ids \ u : g.rows[i] = f.rows[i]
  <1>1. Glued(f, follows) # f
    BY GluedFile DEF UsageFile
  <1> QED
    BY <1>1, GluedFile DEF Unlearned

\* A complete append: every row of the batch is there, and nothing else has
\* changed, but for what went with a bare line.
LEMMA AppendedFile ==
  ASSUME NEW f \in UsageFile, Aligned(f), f.end \in {"whole", "bare"}, NEW b, IsBatch(b)
  PROVE  LET g == Appended(f, b)
             u == Unlearned(f, g, DOMAIN b)
         IN  /\ g \in UsageFile /\ Aligned(g) /\ u \subseteq Ids
             /\ u # {} => g.end \in {"torn", "corrupt"}
             /\ \A i \in Ids \ u : IF i \in DOMAIN b THEN g.rows[i] = b[i]
                                   ELSE g.rows[i] = f.rows[i]
  <1> DEFINE g == Appended(f, b)
             u == Unlearned(f, g, DOMAIN b)
             follows == Cardinality(DOMAIN b) > 1
  <1>1. CASE DOMAIN b = {}
    BY <1>1 DEF Appended, Unlearned
  <1>2. CASE DOMAIN b # {} /\ f.end = "bare"
    <2>1. g = Glued(f, follows) /\ follows \in BOOLEAN
      BY <1>2 DEF Appended
    <2>2. DOMAIN b \in SUBSET Ids
      BY DEF IsBatch
    <2> HIDE DEF follows
    <2>3. /\ g \in UsageFile /\ Aligned(g) /\ g.end \in {"torn", "corrupt"}
      BY <2>1, GluedFile
    <2>4. /\ u \subseteq Ids /\ DOMAIN b \subseteq u
          /\ \A i \in Ids \ u : g.rows[i] = f.rows[i]
      BY <1>2, <2>1, <2>2, GluedRows
    <2> QED
      BY <2>3, <2>4
  <1>3. CASE DOMAIN b # {} /\ f.end = "whole"
    <2>1. g = [rows |-> With(f.rows, b), whole |-> With(f.rows, b), end |-> "whole"]
      BY <1>3 DEF Appended
    <2>2. u = {}
      BY <1>3 DEF Unlearned
    <2>3. f.rows \in [Ids -> Row]
      BY DEF UsageFile
    <2> QED
      BY <2>1, <2>2, <2>3, WithRows DEF UsageFile, Aligned
  <1> QED
    BY <1>1, <1>2, <1>3

\* An append that broke off: some rows of the batch are there.
LEMMA FailedFile ==
  ASSUME NEW f \in UsageFile, Aligned(f), f.end \in {"whole", "bare"}, NEW b, IsBatch(b),
         NEW g \in AfterFailure(f, b)
  PROVE  LET u == Unlearned(f, g, {})
         IN  /\ g \in UsageFile /\ Aligned(g) /\ u \subseteq Ids
             /\ u # {} => g.end \in {"torn", "corrupt"}
             /\ \A i \in Ids \ u : g.rows[i] = f.rows[i] \/ Written(f, g, b, i)
  <1> DEFINE u == Unlearned(f, g, {})
  <1>0. ASSUME f.end = "bare", NEW follows \in BOOLEAN, g = Glued(f, follows)
        PROVE  /\ g \in UsageFile /\ Aligned(g) /\ u \subseteq Ids
               /\ u # {} => g.end \in {"torn", "corrupt"}
               /\ \A i \in Ids \ u : g.rows[i] = f.rows[i]
    BY <1>0, GluedFile, GluedRows
  <1>1. ASSUME NEW S \in SUBSET DOMAIN b, g = Appended(f, Part(b, S))
        PROVE  /\ g \in UsageFile /\ Aligned(g) /\ u \subseteq Ids
               /\ u # {} => g.end \in {"torn", "corrupt"}
               /\ \A i \in Ids \ u : g.rows[i] = f.rows[i] \/ Written(f, g, b, i)
    <2>1. CASE f.end = "bare" /\ S # {}
      <3> DEFINE follows == Cardinality(DOMAIN Part(b, S)) > 1
      <3>1. g = Glued(f, follows) /\ follows \in BOOLEAN
        BY <1>1, <2>1, PartIsBatch DEF Appended
      <3> HIDE DEF follows
      <3> QED
        BY <1>0, <2>1, <3>1
    <2>2. CASE S = {}
      BY <1>1, <2>2, PartIsBatch DEF Appended, Unlearned
    <2>3. CASE f.end = "whole"
      <3>1. u = {}
        BY <2>3 DEF Unlearned
      <3>2. IsBatch(Part(b, S)) /\ DOMAIN Part(b, S) = S
        BY PartIsBatch
      <3>3. Unlearned(f, g, DOMAIN Part(b, S)) = {}
        BY <2>3 DEF Unlearned
      <3>4. /\ g \in UsageFile /\ Aligned(g)
            /\ \A i \in Ids : IF i \in S THEN g.rows[i] = Part(b, S)[i]
                              ELSE g.rows[i] = f.rows[i]
        BY <1>1, <3>2, <3>3, AppendedFile
      <3> QED
        BY <3>1, <3>4, PartIsBatch DEF Written
    <2> QED
      BY <2>1, <2>2, <2>3
  <1>2. ASSUME NEW S \in SUBSET DOMAIN b, g = Broken(f, b, S)
        PROVE  /\ g \in UsageFile /\ Aligned(g) /\ u \subseteq Ids
               /\ u # {} => g.end \in {"torn", "corrupt"}
               /\ \A i \in Ids \ u : g.rows[i] = f.rows[i] \/ Written(f, g, b, i)
    <2>1. CASE f.end = "bare"
      BY <1>0, <1>2, <2>1 DEF Broken
    <2>2. CASE f.end = "whole"
      <3> DEFINE h == Appended(f, Part(b, S))
      <3>1. u = {} /\ Unlearned(f, h, DOMAIN Part(b, S)) = {}
        BY <2>2 DEF Unlearned
      <3>2. IsBatch(Part(b, S)) /\ DOMAIN Part(b, S) = S
        BY PartIsBatch
      <3>3. /\ h \in UsageFile /\ Aligned(h)
            /\ \A i \in Ids : IF i \in S THEN h.rows[i] = Part(b, S)[i]
                              ELSE h.rows[i] = f.rows[i]
        BY <3>1, <3>2, AppendedFile
      <3>4. h.rows = h.whole
        BY <2>2 DEF Appended, Aligned
      <3>5. g = [h EXCEPT !.end = "torn"]
        BY <1>2, <2>2 DEF Broken
      <3> HIDE DEF h
      <3>6. g \in UsageFile /\ g.rows = h.rows /\ g.whole = h.whole
        BY <3>3, <3>5 DEF UsageFile
      <3> QED
        BY <3>1, <3>3, <3>4, <3>6, PartIsBatch DEF Written, Aligned
    <2> QED
      BY <2>1, <2>2
  <1>3. ASSUME NEW S \in SUBSET DOMAIN b, NEW j \in DOMAIN b \ S, g = Unended(f, b, S, j)
        PROVE  /\ g \in UsageFile /\ Aligned(g) /\ u \subseteq Ids
               /\ u # {} => g.end \in {"torn", "corrupt"}
               /\ \A i \in Ids \ u : g.rows[i] = f.rows[i] \/ Written(f, g, b, i)
    <2>1. CASE f.end = "bare"
      BY <1>0, <1>3, <2>1 DEF Unended
    <2>2. CASE f.end = "whole"
      <3> DEFINE h == Appended(f, Part(b, S))
      <3>1. u = {} /\ Unlearned(f, h, DOMAIN Part(b, S)) = {}
        BY <2>2 DEF Unlearned
      <3>2. IsBatch(Part(b, S)) /\ DOMAIN Part(b, S) = S
        BY PartIsBatch
      <3>3. /\ h \in UsageFile
            /\ \A i \in Ids : IF i \in S THEN h.rows[i] = Part(b, S)[i]
                              ELSE h.rows[i] = f.rows[i]
        BY <3>1, <3>2, AppendedFile
      <3>4. g = [rows |-> With(h.rows, Part(b, {j})), whole |-> h.rows, end |-> "bare"]
        BY <1>3, <2>2 DEF Unended
      <3> HIDE DEF h
      <3>5. h.rows \in [Ids -> Row]
        BY <3>3 DEF UsageFile
      <3>6. {j} \in SUBSET DOMAIN b
        BY <1>3
      <3>7. /\ IsBatch(Part(b, {j})) /\ DOMAIN Part(b, {j}) = {j} /\ Part(b, {j})[j] = b[j]
        BY <3>6, PartIsBatch
      <3>8. /\ With(h.rows, Part(b, {j})) \in [Ids -> Row]
            /\ \A i \in Ids : With(h.rows, Part(b, {j}))[i] = IF i = j THEN b[j] ELSE h.rows[i]
        <4> DEFINE p == Part(b, {j})
                   r == h.rows
        <4>1. IsBatch(p) /\ DOMAIN p = {j} /\ p[j] = b[j] /\ r \in [Ids -> Row]
          BY <3>5, <3>7
        <4> HIDE DEF p, r
        <4>2. /\ With(r, p) \in [Ids -> Row]
              /\ \A i \in Ids : With(r, p)[i] = IF i \in DOMAIN p THEN p[i] ELSE r[i]
          BY <4>1, WithRows
        <4>3. \A i \in Ids : With(r, p)[i] = IF i = j THEN b[j] ELSE r[i]
          BY <4>1, <4>2
        <4> QED
          BY <4>2, <4>3 DEF p, r
      <3>9. g \in UsageFile /\ Aligned(g) /\ g.rows = With(h.rows, Part(b, {j}))
        BY <3>4, <3>5, <3>8 DEF UsageFile, Aligned
      <3>10. ASSUME NEW i \in Ids
             PROVE  g.rows[i] = f.rows[i] \/ Written(f, g, b, i)
        <4>1. CASE i = j
          BY <1>3, <4>1, <3>8, <3>9 DEF Written
        <4>2. CASE i # j /\ i \in S
          BY <4>2, <3>3, <3>8, <3>9, PartIsBatch DEF Written
        <4>3. CASE i # j /\ i \notin S
          BY <4>3, <3>3, <3>8, <3>9
        <4> QED
          BY <4>1, <4>2, <4>3
      <3> QED
        BY <3>1, <3>9, <3>10
    <2> QED
      BY <2>1, <2>2
  <1>4. CASE g \in {Appended(f, Part(b, S)) : S \in SUBSET DOMAIN b}
    <2>1. PICK S \in SUBSET DOMAIN b : g = Appended(f, Part(b, S))
      BY <1>4
    <2> QED
      BY <1>1, <2>1
  <1>5. CASE g \in {Broken(f, b, S) : S \in SUBSET DOMAIN b \ {DOMAIN b}}
    <2>1. PICK S \in SUBSET DOMAIN b : g = Broken(f, b, S)
      BY <1>5
    <2> QED
      BY <1>2, <2>1
  <1>6. CASE g \in UNION {{Unended(f, b, S, i) : i \in DOMAIN b \ S} : S \in SUBSET DOMAIN b}
    <2>1. PICK S \in SUBSET DOMAIN b : g \in {Unended(f, b, S, i) : i \in DOMAIN b \ S}
      BY <1>6
    <2>2. PICK j \in DOMAIN b \ S : g = Unended(f, b, S, j)
      BY <2>1
    <2> QED
      BY <1>3, <2>2
  <1> QED
    BY <1>4, <1>5, <1>6 DEF AfterFailure

----------------------------------------------------------------------------
\* What holds of the file in every state: only a bare line makes a reader see
\* a row that is not followed by its newline, and rows that went have left a
\* trace.
FileOK ==
    /\ ledger \in UsageFile /\ quarantined \in BOOLEAN
    /\ lost \subseteq Ids /\ faults \in 0 .. MaxFaults
    /\ Aligned(ledger)
    /\ lost # {} => quarantined \/ ledger.end \in {"torn", "corrupt"}

\* One locked section: it keeps FileOK, forgets no loss, and changes no row
\* but those of its batch, and those as _validate_records allows.
Effect(b) ==
    /\ FileOK' /\ lost \subseteq lost'
    /\ \A i \in Ids \ lost' : Moved(ledger, ledger', b, i)

LEMMA SectionLooks ==
  ASSUME FileOK, Look
  PROVE  /\ FileOK' /\ lost' = lost
         /\ ledger'.rows = ledger.rows /\ Replayed(ledger).rows = ledger.rows
  <1>1. ledger' = Replayed(ledger) /\ ledger.end # "corrupt" /\ lost' = lost /\ faults' = faults
    BY DEF Look, Reads
  <1>2. /\ Replayed(ledger) \in UsageFile /\ Aligned(Replayed(ledger))
        /\ Replayed(ledger).rows = ledger.rows
    BY <1>1, ReplayedFile DEF FileOK
  <1>3. quarantined' = (quarantined \/ ledger.end = "torn")
    BY DEF Look, Reads
  <1>4. quarantined' \in BOOLEAN /\ (lost # {} => quarantined')
    BY <1>1, <1>3 DEF FileOK
  <1>5. FileOK'
    BY <1>1, <1>2, <1>4 DEF FileOK
  <1> QED
    BY <1>1, <1>2, <1>5

LEMMA SectionAppends ==
  ASSUME FileOK, NEW b, IsBatch(b), Appends(b)
  PROVE  /\ Effect(b)
         /\ \A i \in DOMAIN b \ lost' : /\ ledger'.rows[i] = b[i]
                                        /\ Allowed(i, ledger.rows[i].st, b[i].st)
  <1> DEFINE f == Replayed(ledger)
             u == Unlearned(f, ledger', DOMAIN b)
  <1>1. ledger.end # "corrupt" /\ Valid(f, b) /\ ledger' = Appended(f, b)
    BY DEF Appends, Reads
  <1>2. lost' = lost \cup u /\ faults' = faults
    BY DEF Appends
  <1>3. quarantined' = (quarantined \/ ledger.end = "torn")
    BY DEF Appends, Reads
  <1>4. /\ f \in UsageFile /\ Aligned(f) /\ f.end \in {"whole", "bare"}
        /\ f.rows = ledger.rows
    BY <1>1, ReplayedFile DEF FileOK
  <1> HIDE DEF f
  <1>5. /\ ledger' \in UsageFile /\ Aligned(ledger') /\ u \subseteq Ids
        /\ u # {} => ledger'.end \in {"torn", "corrupt"}
        /\ \A i \in Ids \ u : IF i \in DOMAIN b THEN ledger'.rows[i] = b[i]
                              ELSE ledger'.rows[i] = f.rows[i]
    BY <1>1, <1>4, AppendedFile
  <1> HIDE DEF u
  <1>6. quarantined' \in BOOLEAN /\ (lost # {} => quarantined')
    BY <1>1, <1>3 DEF FileOK
  <1>7. FileOK'
    BY <1>2, <1>5, <1>6 DEF FileOK
  <1>8. \A i \in DOMAIN b : i \in Ids /\ Allowed(i, ledger.rows[i].st, b[i].st)
    BY <1>1, <1>4 DEF Valid, IsBatch
  <1>9. \A i \in Ids \ lost' : Moved(ledger, ledger', b, i)
    BY <1>2, <1>4, <1>5, <1>8 DEF Moved, Written
  <1> QED
    BY <1>2, <1>5, <1>7, <1>8, <1>9 DEF Effect

LEMMA SectionFails ==
  ASSUME FileOK, NEW b, IsBatch(b), Fails(b)
  PROVE  Effect(b)
  <1> DEFINE f == Replayed(ledger)
             u == Unlearned(f, ledger', {})
  <1>1. ledger.end # "corrupt" /\ Valid(f, b) /\ ledger' \in AfterFailure(f, b)
    BY DEF Fails, Reads
  <1>2. lost' = lost \cup u /\ faults' = faults + 1 /\ faults < MaxFaults
    BY DEF Fails
  <1>3. quarantined' = (quarantined \/ ledger.end = "torn")
    BY DEF Fails, Reads
  <1>4. /\ f \in UsageFile /\ Aligned(f) /\ f.end \in {"whole", "bare"}
        /\ f.rows = ledger.rows
    BY <1>1, ReplayedFile DEF FileOK
  <1> HIDE DEF f
  <1>5. /\ ledger' \in UsageFile /\ Aligned(ledger') /\ u \subseteq Ids
        /\ u # {} => ledger'.end \in {"torn", "corrupt"}
        /\ \A i \in Ids \ u : ledger'.rows[i] = f.rows[i] \/ Written(f, ledger', b, i)
    BY <1>1, <1>4, FailedFile
  <1> HIDE DEF u
  <1>6. quarantined' \in BOOLEAN /\ (lost # {} => quarantined')
    BY <1>1, <1>3 DEF FileOK
  <1>7. faults' \in 0 .. MaxFaults
    BY <1>2, FaultsAssumption DEF FileOK
  <1>8. FileOK'
    BY <1>2, <1>5, <1>6, <1>7 DEF FileOK
  <1>9. \A i \in DOMAIN b : i \in Ids /\ Allowed(i, ledger.rows[i].st, b[i].st)
    BY <1>1, <1>4 DEF Valid, IsBatch
  <1>10. \A i \in Ids \ lost' : Moved(ledger, ledger', b, i)
    BY <1>2, <1>4, <1>5, <1>9 DEF Moved, Written
  <1> QED
    BY <1>2, <1>8, <1>10 DEF Effect

\* A section that raises, for whatever reason.
LEMMA SectionRaises ==
  ASSUME FileOK, NEW b, IsBatch(b), Raises(b)
  PROVE  Effect(b)
  <1>1. CASE Fails(b)
    BY <1>1, SectionFails
  <1>2. CASE Refuses(b)
    BY <1>2, SectionLooks DEF Refuses, Effect, Moved
  <1> QED
    BY <1>1, <1>2 DEF Raises

LEMMA OneIsBatch ==
  ASSUME NEW i \in Ids, NEW row \in Row
  PROVE  IsBatch(One(i, row)) /\ DOMAIN One(i, row) = {i} /\ One(i, row)[i] = row
  BY DEF IsBatch, One

----------------------------------------------------------------------------
\* The invariant.  A row or a settlement on its way claims no less than what
\* the provider charged.
Honest(a, row) ==
    /\ row.st \in {"absent", "reserved", "released"} => charge[a] = 0
    /\ row.st = "settled" /\ row.exact /\ row.cost # Undisclosed => charge[a] <= row.cost

\* Where the owner of an attempt is tells what its row is, unless it went.
CallInv(a) ==
    /\ pc[a] \in {"settling", "closing"} => due[a].st \in Terminal
    /\ a \notin lost =>
         /\ Honest(a, ledger.rows[a])
         /\ pc[a] \in {"settling", "closing"} => Honest(a, due[a])
         /\ pc[a] = "held" => ledger.rows[a].st = "reserved"
         /\ pc[a] = "sent" => ledger.rows[a].st = "dispatched"
         /\ pc[a] = "over" => ledger.rows[a].st \in Terminal
         /\ a \in told => ledger.rows[a].st \in Terminal \cup {"dispatched"}

\* Rows of the other kinds are settled once; who was told so finds them.
RowInv(i) ==
    i \notin lost =>
      /\ ledger.rows[i].st \in {"absent", "settled"}
      /\ (imported /\ i \in Legacy) \/ i \in recorded => ledger.rows[i].st = "settled"

OwnersTyped ==
    /\ imported \in BOOLEAN /\ pc \in [Attempts -> PCs] /\ due \in [Attempts -> Row]
    /\ told \subseteq Attempts /\ recorded \subseteq Sessions /\ charge \in [Attempts -> Nat]

UsageInv ==
    /\ FileOK /\ OwnersTyped
    /\ \A a \in Attempts : CallInv(a)
    /\ \A i \in Sessions \cup Legacy : RowInv(i)

\* A section that may have touched the rows of S only.
Touches(S) ==
    /\ FileOK' /\ lost \subseteq lost'
    /\ \A i \in Ids \ (lost' \cup S) : ledger'.rows[i] = ledger.rows[i]

LEMMA EffectTouches ==
  ASSUME NEW b, Effect(b)
  PROVE  Touches(DOMAIN b)
  BY DEF Effect, Touches, Moved, Written

LEMMA IdleTouches ==
  ASSUME FileOK, NEW S, Look \/ UNCHANGED <<ledger, quarantined, lost, faults>>
  PROVE  Touches(S) /\ lost' = lost /\ ledger'.rows = ledger.rows
  <1>1. CASE Look
    BY <1>1, SectionLooks DEF Touches
  <1>2. CASE UNCHANGED <<ledger, quarantined, lost, faults>>
    BY <1>2 DEF Touches, FileOK, Aligned
  <1> QED
    BY <1>1, <1>2

\* An attempt whose own variables and row stay keeps its part of the
\* invariant, and so does every row of another kind.
LEMMA CallFrame ==
  ASSUME UsageInv, NEW a \in Attempts, NEW S, Touches(S), a \notin S,
         pc'[a] = pc[a], due'[a] = due[a], charge'[a] = charge[a], a \in told' <=> a \in told
  PROVE  CallInv(a)'
  <1>1. a \in Ids
    BY DEF Ids
  <1>2. a \notin lost' => a \notin lost /\ ledger'.rows[a] = ledger.rows[a]
    BY <1>1 DEF Touches
  <1>3. CallInv(a)
    BY DEF UsageInv
  <1> QED
    BY <1>2, <1>3 DEF CallInv, Honest

LEMMA RowFrame ==
  ASSUME UsageInv, NEW i \in Sessions \cup Legacy, NEW S, Touches(S), i \notin S,
         imported' = imported, recorded' = recorded
  PROVE  RowInv(i)'
  <1>1. i \in Ids
    BY DEF Ids
  <1>2. i \notin lost' => i \notin lost /\ ledger'.rows[i] = ledger.rows[i]
    BY <1>1 DEF Touches
  <1>3. RowInv(i)
    BY DEF UsageInv
  <1> QED
    BY <1>2, <1>3 DEF RowInv

\* A step of one attempt.
LEMMA AttemptStep ==
  ASSUME UsageInv, NEW a \in Attempts, Touches({a}),
         imported' = imported, recorded' = recorded, OwnersTyped',
         \A x \in Attempts \ {a} : /\ pc'[x] = pc[x] /\ due'[x] = due[x]
                                   /\ charge'[x] = charge[x] /\ (x \in told' <=> x \in told),
         CallInv(a)'
  PROVE  UsageInv'
  <1>1. ASSUME NEW x \in Attempts PROVE CallInv(x)'
    <2>1. CASE x = a
      BY <2>1
    <2>2. CASE x # a
      BY <2>2, CallFrame
    <2> QED
      BY <2>1, <2>2
  <1>2. ASSUME NEW i \in Sessions \cup Legacy PROVE RowInv(i)'
    <2>1. i \notin {a}
      BY KindsAssumption
    <2> QED
      BY <2>1, RowFrame
  <1> QED
    BY <1>1, <1>2 DEF UsageInv, Touches

LEMMA RowTypes ==
  /\ \A st \in {"absent", "reserved", "dispatched"} \cup Terminal : A(st) \in Row /\ A(st).st = st
  /\ \A c \in Nat \cup {Undisclosed}, x \in BOOLEAN :
        /\ Settled(c, x) \in Row /\ Settled(c, x).st = "settled"
        /\ Settled(c, x).cost = c /\ Settled(c, x).exact = x
  BY DEF A, Settled, Row, Terminal

LEMMA ChargeTypes ==
  ASSUME NEW a \in Attempts, NEW c \in Charges(a)
  PROVE  c \in Nat
  BY BoundAssumption, FaultsAssumption DEF Charges, Priced

\* An attempt that was not reserved yet.
LEMMA ReserveStep ==
  ASSUME UsageInv, NEW a \in Attempts, Reserve(a)
  PROVE  UsageInv'
  <1> DEFINE b == One(a, A("reserved"))
  <1>1. /\ imported' = imported /\ recorded' = recorded /\ due' = due
        /\ told' = told /\ charge' = charge /\ pc[a] = "idle"
    BY DEF Reserve
  <1>2. a \in Ids /\ IsBatch(b) /\ DOMAIN b = {a} /\ b[a].st = "reserved"
    <2>1. A("reserved") \in Row /\ A("reserved").st = "reserved"
      BY RowTypes
    <2> QED
      BY <2>1, OneIsBatch DEF Ids
  <1> HIDE DEF b
  <1>3. CallInv(a) /\ FileOK /\ OwnersTyped /\ a \notin lost => Honest(a, ledger.rows[a])
    BY DEF UsageInv, CallInv
  <1>4. FileOK /\ OwnersTyped /\ CallInv(a)
    BY DEF UsageInv
  <1>5. CASE Appends(b) /\ pc' = [pc EXCEPT ![a] = "held"]
    <2>1. /\ Touches({a})
          /\ a \notin lost' => /\ ledger'.rows[a].st = "reserved" /\ a \notin lost
                               /\ ledger.rows[a].st = "absent"
      BY <1>2, <1>4, <1>5, SectionAppends, EffectTouches DEF Touches, Allowed, Terminal
    <2>2. pc'[a] = "held" /\ OwnersTyped'
      BY <1>1, <1>4, <1>5 DEF OwnersTyped, PCs
    <2>3. a \notin lost' => charge[a] = 0 /\ a \notin told
      BY <1>4, <2>1 DEF CallInv, Honest, Terminal
    <2>4. CallInv(a)'
      BY <1>1, <1>4, <2>1, <2>2, <2>3 DEF CallInv, Honest
    <2> QED
      BY <1>1, <1>4, <1>5, <2>1, <2>2, <2>4, AttemptStep DEF OwnersTyped
  <1>6. CASE Fails(b) /\ pc' = [pc EXCEPT ![a] = "stuck"]
    <2>1. /\ Touches({a})
          /\ a \notin lost' => /\ a \notin lost
                               /\ \/ ledger'.rows[a] = ledger.rows[a]
                                  \/ /\ ledger'.rows[a].st = "reserved"
                                     /\ ledger.rows[a].st = "absent"
      BY <1>2, <1>4, <1>6, SectionFails, EffectTouches
         DEF Effect, Touches, Moved, Written, Allowed, Terminal
    <2>2. pc'[a] = "stuck" /\ OwnersTyped'
      BY <1>1, <1>4, <1>6 DEF OwnersTyped, PCs
    <2>3. CallInv(a)'
      BY <1>1, <1>4, <2>1, <2>2 DEF CallInv, Honest, Terminal
    <2> QED
      BY <1>1, <1>4, <1>6, <2>1, <2>2, <2>3, AttemptStep DEF OwnersTyped
  <1>7. CASE Look /\ pc' = pc
    <2>1. Touches({a}) /\ lost' = lost /\ ledger'.rows = ledger.rows
      BY <1>4, <1>7, IdleTouches
    <2>2. OwnersTyped' /\ CallInv(a)'
      BY <1>1, <1>4, <1>7, <2>1 DEF OwnersTyped, CallInv, Honest
    <2> QED
      BY <1>1, <1>7, <2>1, <2>2, AttemptStep
  <1> QED
    BY <1>5, <1>6, <1>7 DEF Reserve, b

LEMMA DispatchStep ==
  ASSUME UsageInv, NEW a \in Attempts, Dispatch(a)
  PROVE  UsageInv'
  <1> DEFINE b == One(a, A("dispatched"))
  <1>1. /\ imported' = imported /\ recorded' = recorded /\ due' = due
        /\ charge' = charge /\ pc[a] = "held"
    BY DEF Dispatch
  <1>2. a \in Ids /\ IsBatch(b) /\ DOMAIN b = {a} /\ b[a].st = "dispatched"
    <2>1. A("dispatched") \in Row /\ A("dispatched").st = "dispatched"
      BY RowTypes
    <2> QED
      BY <2>1, OneIsBatch DEF Ids
  <1> HIDE DEF b
  <1>3. FileOK /\ OwnersTyped /\ CallInv(a)
    BY DEF UsageInv
  <1>4. CASE /\ Appends(b) /\ pc' = [pc EXCEPT ![a] = "sent"]
             /\ told' \in {told, told \cup ({a} \cap Children)}
    <2>1. /\ Touches({a})
          /\ a \notin lost' => a \notin lost /\ ledger'.rows[a].st = "dispatched"
      BY <1>2, <1>3, <1>4, SectionAppends, EffectTouches DEF Touches
    <2>2. pc'[a] = "sent" /\ OwnersTyped'
      BY <1>1, <1>3, <1>4 DEF OwnersTyped, PCs
    <2>3. CallInv(a)'
      BY <1>1, <1>3, <2>1, <2>2 DEF CallInv, Honest
    <2> QED
      BY <1>1, <1>3, <1>4, <2>1, <2>2, <2>3, AttemptStep DEF OwnersTyped
  <1>5. CASE Raises(b) /\ pc' = [pc EXCEPT ![a] = "stuck"] /\ told' = told
    <2>1. /\ Touches({a})
          /\ a \notin lost' => /\ a \notin lost
                               /\ \/ ledger'.rows[a] = ledger.rows[a]
                                  \/ ledger'.rows[a].st = "dispatched"
      BY <1>2, <1>3, <1>5, SectionRaises, EffectTouches DEF Effect, Touches, Moved, Written
    <2>2. pc'[a] = "stuck" /\ OwnersTyped'
      BY <1>1, <1>3, <1>5 DEF OwnersTyped, PCs
    <2>3. CallInv(a)'
      <3>1. a \notin lost' => Honest(a, ledger'.rows[a])
        BY <1>1, <1>3, <2>1 DEF CallInv, Honest
      <3>2. a \notin lost' => (a \in told => ledger'.rows[a].st \in Terminal \cup {"dispatched"})
        BY <1>3, <2>1 DEF CallInv
      <3> QED
        BY <1>1, <1>3, <1>5, <2>2, <3>1, <3>2 DEF CallInv, Honest
    <2> QED
      BY <1>1, <1>3, <1>5, <2>1, <2>2, <2>3, AttemptStep DEF OwnersTyped
  <1> QED
    BY <1>4, <1>5 DEF Dispatch, b

LEMMA LimitStep ==
  ASSUME UsageInv, NEW a \in Attempts, HitsLimit(a)
  PROVE  UsageInv'
  <1>1. FileOK /\ OwnersTyped /\ CallInv(a)
    BY DEF UsageInv
  <1>2. Touches({a}) /\ lost' = lost /\ ledger' = ledger
    BY <1>1, IdleTouches DEF HitsLimit
  <1>3. /\ OwnersTyped' /\ pc'[a] = "closing" /\ due'[a].st = "released"
    BY <1>1, RowTypes DEF HitsLimit, OwnersTyped, PCs, Terminal
  <1>4. CallInv(a)'
    BY <1>1, <1>2, <1>3 DEF HitsLimit, CallInv, Honest, Terminal
  <1> QED
    BY <1>1, <1>2, <1>3, <1>4, AttemptStep DEF HitsLimit, OwnersTyped

\* The call ends with a settlement that is honest about its charge.
LEMMA EndsStep ==
  ASSUME UsageInv, NEW a \in Attempts, NEW c \in Charges(a),
         NEW step \in {"settling", "closing"}, NEW row \in Row, Ends(a, c, step, row),
         row.st \in {"settled", "unresolved"},
         row.st = "settled" /\ row.exact /\ row.cost # Undisclosed => c <= row.cost
  PROVE  UsageInv'
  <1>1. FileOK /\ OwnersTyped /\ CallInv(a)
    BY DEF UsageInv
  <1>2. Touches({a}) /\ lost' = lost /\ ledger' = ledger
    BY <1>1, IdleTouches DEF Ends
  <1>3. c \in Nat
    BY ChargeTypes
  <1>4. /\ OwnersTyped' /\ pc'[a] = step /\ due'[a] = row /\ charge'[a] = c
        /\ told' = told /\ pc[a] = "sent"
    BY <1>1, <1>3 DEF Ends, OwnersTyped, PCs
  <1>5. CallInv(a)'
    BY <1>1, <1>2, <1>3, <1>4 DEF CallInv, Honest, Terminal
  <1> QED
    BY <1>1, <1>2, <1>4, <1>5, AttemptStep DEF Ends, OwnersTyped

LEMMA CallSteps ==
  ASSUME UsageInv, NEW a \in Attempts, Call(a)
  PROVE  UsageInv'
  <1>1. PICK c \in Charges(a) : Answers(a, c) \/ Throws(a, c)
    BY DEF Call
  <1>2. c \in Nat /\ \A e \in Charges(a) : e \in Nat
    BY ChargeTypes
  <1>3. CASE Ends(a, c, "settling", Settled(c, TRUE))
    <2> DEFINE row == Settled(c, TRUE)
    <2>1. row \in Row /\ row.st = "settled" /\ c <= row.cost
      BY <1>2 DEF Settled, Row, Terminal
    <2>2. Ends(a, c, "settling", row)
      BY <1>3
    <2> HIDE DEF row
    <2> QED
      BY <2>1, <2>2, EndsStep
  <1>4. CASE \E e \in Charges(a) : Ends(a, c, "settling", Settled(e, FALSE))
    BY <1>2, <1>4, RowTypes, EndsStep
  <1>5. CASE Ends(a, c, "settling", Settled(Undisclosed, FALSE))
    BY <1>5, RowTypes, EndsStep
  <1>6. CASE c = 0 /\ Ends(a, c, "closing", Settled(0, TRUE))
    <2> DEFINE row == Settled(0, TRUE)
    <2>1. row \in Row /\ row.st = "settled" /\ c <= row.cost
      BY <1>6 DEF Settled, Row, Terminal
    <2>2. Ends(a, c, "closing", row)
      BY <1>6
    <2> HIDE DEF row
    <2> QED
      BY <2>1, <2>2, EndsStep
  <1>7. CASE Ends(a, c, "closing", A("unresolved"))
    <2>1. A("unresolved") \in Row /\ A("unresolved").st = "unresolved"
      BY RowTypes DEF Terminal
    <2> QED
      BY <1>7, <2>1, EndsStep
  <1> QED
    BY <1>1, <1>3, <1>4, <1>5, <1>6, <1>7 DEF Answers, Throws

LEMMA CloseStep ==
  ASSUME UsageInv, NEW a \in Attempts, Close(a)
  PROVE  UsageInv'
  <1> DEFINE b == One(a, due[a])
  <1>1. /\ imported' = imported /\ recorded' = recorded
        /\ told' = told /\ charge' = charge /\ pc[a] \in {"settling", "closing"}
    BY DEF Close
  <1>2. FileOK /\ OwnersTyped /\ CallInv(a)
    BY DEF UsageInv
  <1>3. a \in Ids /\ IsBatch(b) /\ DOMAIN b = {a} /\ b[a] = due[a]
    BY <1>2, OneIsBatch DEF Ids, OwnersTyped
  <1> HIDE DEF b
  <1>4. due[a].st \in Terminal
    BY <1>1, <1>2 DEF CallInv
  <1>5. CASE Appends(b) /\ pc' = [pc EXCEPT ![a] = "over"] /\ due' = due
    <2>1. /\ Touches({a})
          /\ a \notin lost' => a \notin lost /\ ledger'.rows[a] = due[a]
      BY <1>2, <1>3, <1>5, SectionAppends, EffectTouches DEF Touches
    <2>2. pc'[a] = "over" /\ OwnersTyped'
      BY <1>1, <1>2, <1>5 DEF OwnersTyped, PCs
    <2>3. CallInv(a)'
      BY <1>1, <1>2, <1>4, <2>1, <2>2 DEF CallInv, Honest
    <2> QED
      BY <1>1, <1>2, <1>5, <2>1, <2>2, <2>3, AttemptStep DEF OwnersTyped
  <1>6. ASSUME Raises(b)
        PROVE  /\ Touches({a})
               /\ a \notin lost' =>
                    /\ a \notin lost
                    /\ Honest(a, ledger'.rows[a])
                    /\ a \in told => ledger'.rows[a].st \in Terminal \cup {"dispatched"}
    <2>1. /\ Touches({a})
          /\ a \notin lost' => /\ a \notin lost
                               /\ \/ ledger'.rows[a] = ledger.rows[a]
                                  \/ ledger'.rows[a] = due[a]
      BY <1>2, <1>3, <1>6, SectionRaises, EffectTouches DEF Effect, Touches, Moved, Written
    <2> QED
      BY <1>1, <1>2, <1>4, <2>1 DEF CallInv
  <1>7. CASE /\ Raises(b) /\ pc' = [pc EXCEPT ![a] = "closing"]
             /\ due' = [due EXCEPT ![a] = A("unresolved")]
    <2>1. A("unresolved") \in Row /\ A("unresolved").st = "unresolved"
      BY RowTypes DEF Terminal
    <2>2. /\ OwnersTyped' /\ pc'[a] = "closing" /\ due'[a].st = "unresolved"
      BY <1>1, <1>2, <1>7, <2>1 DEF OwnersTyped, PCs
    <2>3. CallInv(a)'
      BY <1>1, <1>2, <1>6, <1>7, <2>2 DEF CallInv, Honest, Terminal
    <2> QED
      BY <1>1, <1>2, <1>6, <1>7, <2>2, <2>3, AttemptStep DEF OwnersTyped
  <1>8. CASE Raises(b) /\ pc' = [pc EXCEPT ![a] = "stuck"] /\ due' = due
    <2>1. pc'[a] = "stuck" /\ OwnersTyped'
      BY <1>1, <1>2, <1>8 DEF OwnersTyped, PCs
    <2>2. CallInv(a)'
      BY <1>1, <1>2, <1>6, <1>8, <2>1 DEF CallInv, Honest
    <2> QED
      BY <1>1, <1>2, <1>6, <1>8, <2>1, <2>2, AttemptStep DEF OwnersTyped
  <1> QED
    BY <1>5, <1>7, <1>8 DEF Close, b

LEMMA DiesStep ==
  ASSUME UsageInv, NEW a \in Attempts, Dies(a)
  PROVE  UsageInv'
  <1>1. FileOK /\ OwnersTyped /\ CallInv(a)
    BY DEF UsageInv
  <1>2. Touches({a}) /\ lost' = lost /\ ledger' = ledger
    BY <1>1, IdleTouches DEF Dies
  <1>3. /\ pc' = [pc EXCEPT ![a] = "dead"] /\ due' = due /\ told' = told
        /\ imported' = imported /\ recorded' = recorded
    BY DEF Dies
  <1>4. CASE charge' = charge
    <2>1. OwnersTyped' /\ CallInv(a)'
      BY <1>1, <1>2, <1>3, <1>4 DEF OwnersTyped, PCs, CallInv, Honest
    <2> QED
      BY <1>1, <1>2, <1>3, <1>4, <2>1, AttemptStep DEF OwnersTyped
  <1>5. CASE pc[a] = "sent" /\ \E c \in Charges(a) : charge' = [charge EXCEPT ![a] = c]
    <2>1. PICK c \in Charges(a) : charge' = [charge EXCEPT ![a] = c]
      BY <1>5
    <2>2. c \in Nat
      BY ChargeTypes
    <2>3. OwnersTyped' /\ charge'[a] = c /\ pc'[a] = "dead"
      BY <1>1, <1>3, <2>1, <2>2 DEF OwnersTyped, PCs
    <2>4. CallInv(a)'
      BY <1>1, <1>2, <1>3, <1>5, <2>2, <2>3 DEF CallInv, Honest
    <2> QED
      BY <1>1, <1>2, <1>3, <2>1, <2>3, <2>4, AttemptStep DEF OwnersTyped
  <1> QED
    BY <1>4, <1>5 DEF Dies

\* A parent closes what its child left open: by a release only if nothing was
\* dispatched, and so nothing charged.
LEMMA InspectStep ==
  ASSUME UsageInv, NEW a \in Attempts, Inspect(a)
  PROVE  UsageInv'
  <1> DEFINE st == Replayed(ledger).rows[a].st
  <1>1. FileOK /\ OwnersTyped /\ CallInv(a)
    BY DEF UsageInv
  <1>2. /\ Look /\ told' = told \ {a} /\ a \in told
        /\ imported' = imported /\ recorded' = recorded /\ charge' = charge
    BY DEF Inspect
  <1>3. Touches({a}) /\ lost' = lost /\ ledger'.rows = ledger.rows
    BY <1>1, <1>2, IdleTouches
  <1>4. st = ledger.rows[a].st
    BY <1>1, <1>2, SectionLooks
  <1>5. a \notin lost => st \in Terminal \cup {"dispatched"}
    BY <1>1, <1>2, <1>4 DEF CallInv
  <1> HIDE DEF st
  <1>6. CASE st \in Terminal \cup {"absent"} /\ pc' = [pc EXCEPT ![a] = "over"] /\ due' = due
    <2>1. OwnersTyped' /\ pc'[a] = "over"
      BY <1>1, <1>2, <1>6 DEF OwnersTyped, PCs
    <2>2. CallInv(a)'
      BY <1>1, <1>2, <1>3, <1>4, <1>5, <1>6, <2>1 DEF CallInv, Honest, Terminal
    <2> QED
      BY <1>1, <1>2, <1>3, <1>6, <2>1, <2>2, AttemptStep DEF OwnersTyped
  <1>7. CASE /\ pc' = [pc EXCEPT ![a] = "closing"]
             /\ \E row \in IF st = "reserved" THEN {A("released")}
                           ELSE Unfinished \cup Estimates(a) : due' = [due EXCEPT ![a] = row]
    <2>1. PICK row \in IF st = "reserved" THEN {A("released")} ELSE Unfinished \cup Estimates(a) :
             due' = [due EXCEPT ![a] = row]
      BY <1>7
    <2>2. \A e \in Charges(a) : e \in Nat
      BY ChargeTypes
    <2>3. (row = A("released") /\ st = "reserved") \/ row \in Unfinished \cup Estimates(a)
      BY <2>1
    <2>4. /\ row \in Row /\ row.st \in Terminal
          /\ row.st = "released" => st = "reserved"
          /\ row.st = "settled" => ~row.exact
      <3>1. CASE row = A("released") /\ st = "reserved"
        BY <3>1 DEF A, Row, Terminal
      <3>2. CASE row \in Unfinished
        <4>1. row = A("unresolved") \/ row = Settled(Undisclosed, FALSE)
          BY <3>2 DEF Unfinished
        <4>2. CASE row = A("unresolved")
          BY <4>2 DEF A, Row, Terminal
        <4>3. CASE row = Settled(Undisclosed, FALSE)
          BY <4>3 DEF Settled, Row, Terminal
        <4> QED
          BY <4>1, <4>2, <4>3
      <3>3. CASE row \in Estimates(a)
        <4>1. PICK e \in Charges(a) : row = Settled(e, FALSE)
          BY <3>3 DEF Estimates
        <4> QED
          BY <2>2, <4>1 DEF Settled, Row, Terminal
      <3> QED
        BY <2>3, <3>1, <3>2, <3>3
    <2>5. OwnersTyped' /\ pc'[a] = "closing" /\ due'[a] = row
      BY <1>1, <1>2, <1>7, <2>1, <2>4 DEF OwnersTyped, PCs
    <2>6. CallInv(a)'
      BY <1>1, <1>2, <1>3, <1>4, <1>5, <2>4, <2>5 DEF CallInv, Honest, Terminal
    <2> QED
      BY <1>1, <1>2, <1>3, <1>7, <2>1, <2>5, <2>6, AttemptStep DEF OwnersTyped
  <1> QED
    BY <1>6, <1>7 DEF Inspect, st


----------------------------------------------------------------------------
\* A section that concerns no attempt.
LEMMA OtherStep ==
  ASSUME UsageInv, NEW S, Touches(S), S \cap Attempts = {}, UNCHANGED ownerVars,
         imported' \in BOOLEAN, recorded' \subseteq Sessions,
         \A i \in Sessions \cup Legacy : RowInv(i)'
  PROVE  UsageInv'
  <1>1. OwnersTyped'
    BY DEF UsageInv, OwnersTyped, ownerVars
  <1>2. \A a \in Attempts : CallInv(a)'
    BY CallFrame DEF ownerVars
  <1> QED
    BY <1>1, <1>2 DEF UsageInv, Touches

LEMMA ImportStep ==
  ASSUME UsageInv, Import
  PROVE  UsageInv'
  <1>1. FileOK /\ OwnersTyped /\ \A i \in Sessions \cup Legacy : RowInv(i)
    BY DEF UsageInv
  <1>2. UNCHANGED ownerVars /\ recorded' = recorded /\ recorded \subseteq Sessions
    BY <1>1 DEF Import, OwnersTyped
  <1>3. ledger.end # "corrupt"
    BY DEF Import, Appends, Fails, Reads
  <1>4. Replayed(ledger).rows = ledger.rows
    BY <1>1, <1>3, ReplayedFile DEF FileOK
  <1>5. /\ DOMAIN Missing = {l \in Legacy : ledger.rows[l].st = "absent"}
        /\ \A l \in DOMAIN Missing : Missing[l] = Settled(Price[l], FALSE)
    BY <1>4 DEF Missing
  <1>6. \A l \in DOMAIN Missing : Missing[l] \in Row /\ Missing[l].st = "settled"
    <2>1. ASSUME NEW l \in DOMAIN Missing
          PROVE  Missing[l] \in Row /\ Missing[l].st = "settled"
      <3>1. Price[l] \in Nat
        BY <1>5, PriceAssumption
      <3> DEFINE row == Settled(Price[l], FALSE)
      <3>2. row \in Row /\ row.st = "settled"
        BY <3>1 DEF Settled, Row, Terminal
      <3>3. Missing[l] = row
        BY <1>5
      <3> QED
        BY <3>2, <3>3
    <2> QED
      BY <2>1
  <1>7. IsBatch(Missing)
    <2>1. Missing = [l \in DOMAIN Missing |-> Missing[l]]
      BY DEF Missing
    <2> QED
      BY <1>5, <1>6, <2>1 DEF IsBatch, Ids
  <1>8. DOMAIN Missing \cap Attempts = {}
    BY <1>5, KindsAssumption
  <1>9. CASE Appends(Missing) /\ imported' = TRUE
    <2>1. /\ Effect(Missing)
          /\ \A l \in DOMAIN Missing \ lost' : ledger'.rows[l].st = "settled"
      BY <1>1, <1>6, <1>7, <1>9, SectionAppends
    <2>2. Touches(DOMAIN Missing)
      BY <2>1, EffectTouches
    <2>3. ASSUME NEW i \in Sessions \cup Legacy PROVE RowInv(i)'
      <3>1. RowInv(i) /\ i \in Ids
        BY <1>1 DEF Ids
      <3>2. CASE i \in DOMAIN Missing
        BY <2>1, <3>2 DEF RowInv
      <3>3. CASE i \notin DOMAIN Missing
        <4>1. i \notin lost' => i \notin lost /\ ledger'.rows[i] = ledger.rows[i]
          BY <2>2, <3>1, <3>3 DEF Touches
        <4>2. i \in Legacy => ledger.rows[i].st # "absent"
          BY <1>5, <3>3
        <4> QED
          BY <1>2, <3>1, <4>1, <4>2 DEF RowInv
      <3> QED
        BY <3>2, <3>3
    <2> QED
      BY <1>2, <1>8, <1>9, <2>2, <2>3, OtherStep
  <1>10. CASE Fails(Missing) /\ imported' = imported
    <2>1. Effect(Missing)
      BY <1>1, <1>7, <1>10, SectionFails
    <2>2. Touches(DOMAIN Missing)
      BY <2>1, EffectTouches
    <2>3. ~imported
      BY DEF Import
    <2>4. ASSUME NEW i \in Sessions \cup Legacy PROVE RowInv(i)'
      <3>1. RowInv(i) /\ i \in Ids
        BY <1>1 DEF Ids
      <3>2. CASE i \in DOMAIN Missing
        <4>1. i \notin recorded
          BY <1>2, <1>5, <3>2, KindsAssumption
        <4>2. i \notin lost' => ledger'.rows[i].st \in {ledger.rows[i].st, "settled"} /\ i \notin lost
          BY <1>6, <2>1, <3>1 DEF Effect, Moved, Written
        <4> QED
          BY <1>2, <1>10, <2>3, <3>1, <4>1, <4>2 DEF RowInv
      <3>3. CASE i \notin DOMAIN Missing
        BY <1>2, <1>10, <2>2, <3>3, RowFrame
      <3> QED
        BY <3>2, <3>3
    <2> QED
      BY <1>1, <1>2, <1>8, <1>10, <2>2, <2>4, OtherStep DEF OwnersTyped
  <1> QED
    BY <1>9, <1>10 DEF Import

LEMMA RecordStep ==
  ASSUME UsageInv, NEW s \in Sessions, Record(s)
  PROVE  UsageInv'
  <1> DEFINE b == One(s, Settled(Price[s], TRUE))
  <1>1. FileOK /\ OwnersTyped /\ \A i \in Sessions \cup Legacy : RowInv(i)
    BY DEF UsageInv
  <1>2. UNCHANGED ownerVars /\ imported' = imported /\ imported' \in BOOLEAN
    BY <1>1 DEF Record, OwnersTyped
  <1>3. s \in Ids /\ s \notin Attempts /\ Price[s] \in Nat
    BY KindsAssumption, PriceAssumption DEF Ids
  <1>4. /\ IsBatch(b) /\ DOMAIN b = {s} /\ b[s].st = "settled"
    <2>1. Settled(Price[s], TRUE) \in Row /\ Settled(Price[s], TRUE).st = "settled"
      BY <1>3 DEF Settled, Row, Terminal
    <2> QED
      BY <1>3, <2>1, OneIsBatch
  <1> HIDE DEF b
  <1>5. ASSUME Touches({s}), recorded' \in {recorded, recorded \cup {s}},
               s \notin lost' => /\ s \notin lost
                                 /\ ledger'.rows[s].st \in {ledger.rows[s].st, "settled"}
                                 /\ recorded' # recorded => ledger'.rows[s].st = "settled"
        PROVE  UsageInv'
    <2>1. ASSUME NEW i \in Sessions \cup Legacy PROVE RowInv(i)'
      <3>1. RowInv(i) /\ i \in Ids
        BY <1>1 DEF Ids
      <3>2. CASE i = s
        <4>1. s \notin Legacy
          BY KindsAssumption
        <4> QED
          BY <1>2, <1>5, <3>1, <3>2, <4>1 DEF RowInv
      <3>3. CASE i # s
        <4>1. i \notin lost' => i \notin lost /\ ledger'.rows[i] = ledger.rows[i]
          BY <1>5, <3>1, <3>3 DEF Touches
        <4> QED
          BY <1>2, <1>5, <3>1, <3>3, <4>1 DEF RowInv
      <3> QED
        BY <3>2, <3>3
    <2> QED
      BY <1>1, <1>2, <1>3, <1>5, <2>1, OtherStep DEF OwnersTyped
  <1>6. CASE Look /\ Replayed(ledger).rows[s].st # "absent" /\ recorded' = recorded \cup {s}
    <2>1. /\ Touches({s}) /\ lost' = lost /\ ledger'.rows = ledger.rows
          /\ Replayed(ledger).rows = ledger.rows
      BY <1>1, <1>6, IdleTouches, SectionLooks
    <2>2. RowInv(s)
      BY <1>1
    <2>3. s \notin lost => ledger.rows[s].st = "settled"
      BY <1>6, <2>1, <2>2 DEF RowInv
    <2> QED
      BY <1>5, <1>6, <2>1, <2>3
  <1>7. CASE Appends(b) /\ recorded' = recorded \cup {s}
    <2>1. /\ Touches({s})
          /\ s \notin lost' => s \notin lost /\ ledger'.rows[s].st = "settled"
      BY <1>1, <1>3, <1>4, <1>7, SectionAppends, EffectTouches DEF Touches
    <2> QED
      BY <1>5, <1>7, <2>1
  <1>8. CASE Fails(b) /\ recorded' = recorded
    <2>1. /\ Touches({s})
          /\ s \notin lost' => s \notin lost /\ ledger'.rows[s].st \in {ledger.rows[s].st, "settled"}
      BY <1>1, <1>3, <1>4, <1>8, SectionFails, EffectTouches DEF Effect, Touches, Moved, Written
    <2> QED
      BY <1>5, <1>8, <2>1
  <1> QED
    BY <1>6, <1>7, <1>8 DEF Record, b

LEMMA QuarantineStep ==
  ASSUME UsageInv, QuarantineDies \/ UNCHANGED usageVars
  PROVE  UsageInv'
  <1>1. /\ UNCHANGED <<ledger, lost, faults, imported, recorded, ownerVars>>
        /\ quarantined' \in {quarantined, TRUE}
    BY DEF QuarantineDies, usageVars
  <1>2. FileOK'
    BY <1>1 DEF UsageInv, FileOK, Aligned
  <1>3. Touches({})
    BY <1>1, <1>2 DEF Touches
  <1>4. \A i \in Sessions \cup Legacy : RowInv(i)'
    BY <1>1, <1>3, RowFrame
  <1> QED
    BY <1>1, <1>3, <1>4, OtherStep DEF UsageInv, OwnersTyped

----------------------------------------------------------------------------
LEMMA UsageInvInit == Usage_Init => UsageInv
  <1> SUFFICES ASSUME Usage_Init PROVE UsageInv
    OBVIOUS
  <1>1. A("absent") \in Row /\ A("absent").st = "absent"
    BY RowTypes
  <1>2. ledger \in UsageFile /\ Aligned(ledger) /\ \A i \in Ids : ledger.rows[i].st = "absent"
    BY <1>1 DEF Usage_Init, EmptyFile, UsageFile, Aligned
  <1>3. FileOK /\ OwnersTyped
    <2>1. FileOK
      <3>1. quarantined \in BOOLEAN /\ lost = {} /\ faults = 0
        BY DEF Usage_Init
      <3>2. faults \in 0 .. MaxFaults
        BY <3>1, FaultsAssumption
      <3> QED
        BY <1>2, <3>1, <3>2 DEF FileOK
    <2>2. due \in [Attempts -> Row]
      BY <1>1 DEF Usage_Init
    <2>3. pc \in [Attempts -> PCs] /\ charge \in [Attempts -> Nat]
      BY DEF Usage_Init, PCs
    <2> QED
      BY <2>1, <2>2, <2>3 DEF Usage_Init, OwnersTyped
  <1>4. ASSUME NEW a \in Attempts PROVE CallInv(a)
    <2>1. a \in Ids /\ pc[a] = "idle" /\ charge[a] = 0 /\ a \notin told
      BY DEF Usage_Init, Ids
    <2>2. a \in Priced => 0 <= Bound[a]
      BY BoundAssumption DEF Priced
    <2> QED
      BY <1>2, <2>1, <2>2 DEF CallInv, Honest
  <1>5. ASSUME NEW i \in Sessions \cup Legacy PROVE RowInv(i)
    BY <1>2 DEF Usage_Init, RowInv, Ids
  <1> QED
    BY <1>3, <1>4, <1>5 DEF UsageInv

LEMMA UsageInvNext == UsageInv /\ [Usage_Next]_usageVars => UsageInv'
  <1> SUFFICES ASSUME UsageInv, [Usage_Next]_usageVars PROVE UsageInv'
    OBVIOUS
  <1>1. CASE Import
    BY <1>1, ImportStep
  <1>2. CASE QuarantineDies \/ UNCHANGED usageVars
    BY <1>2, QuarantineStep
  <1>3. ASSUME NEW s \in Sessions, Record(s) PROVE UsageInv'
    BY <1>3, RecordStep
  <1>4. ASSUME NEW a \in Attempts, Reserve(a) \/ HitsLimit(a) \/ OwnerStep(a) \/ Dies(a)
        PROVE  UsageInv'
    BY <1>4, ReserveStep, LimitStep, DispatchStep, CallSteps, CloseStep, InspectStep, DiesStep
       DEF OwnerStep
  <1> QED
    BY <1>1, <1>2, <1>3, <1>4 DEF Usage_Next

THEOREM UsageInvariant == Usage_Spec => []UsageInv
  BY UsageInvInit, UsageInvNext, PTL DEF Usage_Spec

\* Every variable of the accounting has its type, whatever fails.
THEOREM UsageTyped == Usage_Spec => []UsageTypeOK
  <1>1. UsageInv => UsageTypeOK
    BY DEF UsageInv, FileOK, OwnersTyped, UsageTypeOK
  <1> QED
    BY <1>1, UsageInvariant, PTL

\* The charge of a priced call stays counted by its row (reserve_attempt to
\* settle_attempt, and terminalize_abandoned_attempt).
THEOREM ChargesCovered == Usage_Spec => []ChargeCovered
  <1>1. ASSUME UsageInv, NEW a \in Priced, a \notin lost, ~Estimated(a)
        PROVE  \/ charge[a] <= Counts(a, ledger.rows[a])
               \/ ~Costed(a) /\ Counts(a, ledger.rows[a]) = Bound[a]
    <2>1. /\ a \in Attempts /\ a \in Ids /\ Bound[a] \in Nat /\ Upper(a) = Bound[a]
      BY BoundAssumption DEF Priced, Ids, Upper
    <2>2. CallInv(a) /\ charge[a] \in Nat /\ ledger.rows[a] \in Row
      BY <1>1, <2>1 DEF UsageInv, OwnersTyped, FileOK, UsageFile
    <2> DEFINE row == ledger.rows[a]
    <2>3. Honest(a, row)
      BY <1>1, <2>2 DEF CallInv
    <2>4. CASE row.st \in {"absent", "released"}
      BY <2>3, <2>4 DEF Honest, Counts
    <2>5. CASE Costed(a)
      <3>1. row.exact
        BY <1>1, <2>2, <2>5 DEF Estimated, Row
      <3>2. Counts(a, row) = row.cost /\ row.st = "settled" /\ row.cost # Undisclosed
        BY <2>5 DEF Counts, Costed
      <3> QED
        BY <2>3, <3>1, <3>2 DEF Honest
    <2>6. CASE row.st \notin {"absent", "released"} /\ ~Costed(a)
      BY <2>1, <2>6 DEF Counts, Costed
    <2> QED
      BY <2>4, <2>5, <2>6
  <1>2. UsageInv => ChargeCovered
    BY <1>1 DEF ChargeCovered
  <1> QED
    BY <1>2, UsageInvariant, PTL

\* A writer finds again what it was told is durable (the import's watermark,
\* ledger_recorded of a session, the state an attempt's owner is in).
THEOREM RowsKept == Usage_Spec => []AcknowledgedKept
  <1>1. ASSUME UsageInv PROVE AcknowledgedKept
    <2>1. \A i \in lost : quarantined \/ ledger.end \in {"torn", "corrupt"}
      BY <1>1 DEF UsageInv, FileOK
    <2>2. imported => \A l \in Legacy : Kept(l, {"settled"})
      BY <1>1, <2>1 DEF UsageInv, RowInv, Kept
    <2>3. \A s \in recorded : Kept(s, {"settled"})
      BY <1>1, <2>1 DEF UsageInv, RowInv, Kept, OwnersTyped
    <2>4. ASSUME NEW a \in Attempts
          PROVE  /\ (pc[a] = "held") => Kept(a, {"reserved"})
                 /\ (pc[a] = "sent") => Kept(a, {"dispatched"})
                 /\ (pc[a] = "over") => Kept(a, Terminal)
      BY <1>1, <2>1 DEF UsageInv, CallInv, Kept
    <2> QED
      BY <2>2, <2>3, <2>4 DEF AcknowledgedKept
  <1> QED
    BY <1>1, UsageInvariant, PTL

----------------------------------------------------------------------------
\* The sum of a function over a set, as the library computes it: the element
\* that is chosen first, and then the rest.
Total(f, S) == MapThenSumSet(LAMBDA x : f[x], S)
First(S) == CHOOSE x \in S : TRUE
Adds(f, D, t) == t = [s \in D |-> IF s = {} THEN 0 ELSE f[First(s)] + t[s \ {First(s)}]]

\* The sum over a set is the one value every table of sums gives it.
LEMMA TotalIsChosen ==
  ASSUME NEW f, NEW S
  PROVE  Total(f, S) = (CHOOSE t : Adds(f, SUBSET S, t))[S]
  BY DEF Total, MapThenSumSet, MapThenFoldSet, Adds, First

\* Every nonempty set of natural numbers has a least one.
LEMMA LeastNumber ==
  ASSUME NEW T, T \subseteq Nat, T # {}
  PROVE  \E m \in T : \A n \in T : m <= n
  <1> DEFINE R == OpToRel(<, Nat)
  <1>1. \A m, n \in T : n < m => <<n, m>> \in R
    BY DEF OpToRel
  <1>2. IsWellFoundedOn(R, Nat)
    BY NatLessThanWellFounded
  <1> HIDE DEF R
  <1>3. PICK m \in T : \A n \in T : ~(<<n, m>> \in R)
    BY <1>2, WFMin, Zenon
  <1>4. \A n \in T : ~(n < m)
    BY <1>1, <1>3
  <1> QED
    BY <1>4

\* A set without one of its elements is smaller.
LEMMA Removed ==
  ASSUME NEW S, IsFiniteSet(S), S # {}
  PROVE  /\ First(S) \in S /\ IsFiniteSet(S \ {First(S)}) /\ Cardinality(S) \in Nat \ {0}
         /\ Cardinality(S \ {First(S)}) = Cardinality(S) - 1
  BY FS_RemoveElement, FS_CardinalityType, FS_EmptySet DEF First

\* Such a table exists, size by size.
LEMMA SumExists ==
  ASSUME NEW f, NEW S, IsFiniteSet(S)
  PROVE  \E t : Adds(f, SUBSET S, t)
  <1> DEFINE D(n) == {s \in SUBSET S : Cardinality(s) <= n}
             Good == {n \in Nat : \E t : Adds(f, D(n), t)}
  <1>0. \A s \in SUBSET S : IsFiniteSet(s) /\ Cardinality(s) \in Nat
    BY FS_Subset, FS_CardinalityType
  <1>1. 0 \in Good
    <2>1. D(0) = {{}}
      BY <1>0, FS_EmptySet
    <2> DEFINE t == [s \in {{}} |-> 0]
    <2>2. Adds(f, {{}}, t)
      BY DEF Adds
    <2> QED
      BY <2>1, <2>2
  <1>2. ASSUME NEW n \in Good PROVE n + 1 \in Good
    <2>1. PICK t : Adds(f, D(n), t)
      BY <1>2
    <2> DEFINE u == [s \in D(n + 1) |-> IF s = {} THEN 0 ELSE f[First(s)] + t[s \ {First(s)}]]
    <2>2. ASSUME NEW s \in D(n + 1), s # {} PROVE s \ {First(s)} \in D(n)
      BY <1>0, <2>2, Removed
    <2>3. ASSUME NEW s \in D(n) PROVE s \in D(n + 1) /\ t[s] = u[s]
      <3>1. s \in D(n + 1)
        BY <1>0
      <3>2. t[s] = IF s = {} THEN 0 ELSE f[First(s)] + t[s \ {First(s)}]
        <4> HIDE DEF D
        <4> QED
          BY <2>1 DEF Adds
      <3> QED
        BY <3>1, <3>2
    <2>4. \A s \in D(n + 1) : u[s] = IF s = {} THEN 0 ELSE f[First(s)] + u[s \ {First(s)}]
      BY <2>2, <2>3
    <2>5. u = [s \in D(n + 1) |-> u[s]]
      OBVIOUS
    <2> HIDE DEF u, D
    <2>6. Adds(f, D(n + 1), u)
      BY <2>4, <2>5 DEF Adds
    <2> QED
      BY <2>6
  <1>3. \A n \in Nat : n \in Good
    <2> SUFFICES ASSUME Nat \ Good # {} PROVE FALSE
      OBVIOUS
    <2> HIDE DEF Good
    <2>1. PICK m \in Nat \ Good : \A n \in Nat \ Good : m <= n
      BY LeastNumber
    <2>2. m - 1 \in Good /\ m = (m - 1) + 1
      BY <1>1, <2>1
    <2> QED
      BY <1>2, <2>1, <2>2
  <1>4. D(Cardinality(S)) = SUBSET S
    BY <1>0, FS_Subset
  <1> QED
    BY <1>0, <1>3, <1>4

\* It does not depend on the set it is computed within.
LEMMA SumsAgree ==
  \A f, S, T, t, u :
      IsFiniteSet(S) /\ T \subseteq S /\ Adds(f, SUBSET S, t) /\ Adds(f, SUBSET T, u)
          => t[T] = u[T]
  <1> TAKE f, S, T, t, u
  <1> HAVE IsFiniteSet(S) /\ T \subseteq S /\ Adds(f, SUBSET S, t) /\ Adds(f, SUBSET T, u)
  <1> DEFINE Odd == {s \in SUBSET T : t[s] # u[s]}
             Sizes == {Cardinality(s) : s \in Odd}
  <1>0. \A s \in SUBSET T : IsFiniteSet(s) /\ Cardinality(s) \in Nat
    BY FS_Subset, FS_CardinalityType
  <1> SUFFICES ASSUME Odd # {} PROVE FALSE
    OBVIOUS
  <1>1. PICK s \in Odd : \A r \in Odd : Cardinality(s) <= Cardinality(r)
    <2>1. Sizes \subseteq Nat /\ Sizes # {}
      BY <1>0
    <2>2. PICK m \in Sizes : \A n \in Sizes : m <= n
      BY <2>1, LeastNumber
    <2> QED
      BY <2>2
  <1>2. s # {}
    BY DEF Adds
  <1>3. s \ {First(s)} \in SUBSET T /\ s \ {First(s)} \notin Odd
    BY <1>0, <1>1, <1>2, Removed
  <1>4. /\ t[s] = f[First(s)] + t[s \ {First(s)}]
        /\ u[s] = f[First(s)] + u[s \ {First(s)}]
    BY <1>2, <1>3 DEF Adds
  <1> QED
    BY <1>3, <1>4

\* The sum of nothing, and of something: the first element, and the rest.
LEMMA TotalFirst ==
  ASSUME NEW f, NEW S, IsFiniteSet(S)
  PROVE  Total(f, S) = IF S = {} THEN 0 ELSE f[First(S)] + Total(f, S \ {First(S)})
  <1> DEFINE R == S \ {First(S)}
             t == CHOOSE t : Adds(f, SUBSET S, t)
             u == CHOOSE u : Adds(f, SUBSET R, u)
  <1>1. IsFiniteSet(R)
    BY FS_Subset
  <1>2. Adds(f, SUBSET S, t) /\ Adds(f, SUBSET R, u)
    BY <1>1, SumExists
  <1>3. Total(f, S) = t[S] /\ Total(f, R) = u[R]
    BY TotalIsChosen
  <1>4. R \subseteq S
    OBVIOUS
  <1>5. t[S] = IF S = {} THEN 0 ELSE f[First(S)] + t[R]
    <2> HIDE DEF t
    <2> QED
      BY <1>2 DEF Adds
  <1> HIDE DEF t, u, R
  <1>6. t[R] = u[R]
    <2>1. IsFiniteSet(S) /\ R \subseteq S /\ Adds(f, SUBSET S, t) /\ Adds(f, SUBSET R, u)
      BY <1>2, <1>4
    <2> QED
      BY <2>1, SumsAgree
  <1> QED
    BY <1>3, <1>5, <1>6 DEF R

\* Whatever holds of a finite set as soon as it holds of every smaller one,
\* holds: there is no smallest exception.
LEMMA SmallestSet ==
  ASSUME NEW E, E # {}, \A s \in E : IsFiniteSet(s)
  PROVE  \E s \in E : \A r \in E : Cardinality(s) <= Cardinality(r)
  <1> DEFINE Sizes == {Cardinality(s) : s \in E}
  <1>1. Sizes \subseteq Nat /\ Sizes # {}
    BY FS_CardinalityType
  <1>2. PICK m \in Sizes : \A n \in Sizes : m <= n
    BY <1>1, LeastNumber
  <1> QED
    BY <1>2

\* So it is, with the size of the set at hand.
LEMMA Smaller ==
  ASSUME NEW S, IsFiniteSet(S), NEW x \in S
  PROVE  /\ IsFiniteSet(S \ {x}) /\ Cardinality(S \ {x}) < Cardinality(S)
         /\ Cardinality(S) \in Nat
  <1>1. Cardinality(S) \in Nat
    BY FS_CardinalityType
  <1>2. IsFiniteSet(S \ {x}) /\ Cardinality(S \ {x}) = Cardinality(S) - 1
    BY FS_RemoveElement
  <1> QED
    BY <1>1, <1>2

\* A smallest exception has none below it.
LEMMA NoneBelow ==
  ASSUME NEW E, NEW S, IsFiniteSet(S), NEW s \in E, s \subseteq S,
         \A r \in E : Cardinality(s) <= Cardinality(r), NEW x \in s
  PROVE  s \ {x} \notin E
  <1>1. IsFiniteSet(s)
    BY FS_Subset
  <1>2. /\ Cardinality(s \ {x}) < Cardinality(s) /\ Cardinality(s) \in Nat
        /\ IsFiniteSet(s \ {x})
    BY <1>1, Smaller
  <1>3. Cardinality(s \ {x}) \in Nat
    BY <1>2, FS_CardinalityType
  <1>4. ~(Cardinality(s) <= Cardinality(s \ {x}))
    BY <1>2, <1>3
  <1> QED
    BY <1>4

\* A sum of naturals is a natural.
LEMMA TotalIsNat ==
  ASSUME NEW S, IsFiniteSet(S), NEW f, \A x \in S : f[x] \in Nat
  PROVE  Total(f, S) \in Nat
  <1> DEFINE E == {s \in SUBSET S : Total(f, s) \notin Nat}
  <1>0. \A s \in SUBSET S : IsFiniteSet(s)
    BY FS_Subset
  <1> SUFFICES ASSUME E # {} PROVE FALSE
    OBVIOUS
  <1>1. PICK s \in E : \A r \in E : Cardinality(s) <= Cardinality(r)
    BY <1>0, SmallestSet
  <1>2. Total(f, s) = IF s = {} THEN 0 ELSE f[First(s)] + Total(f, s \ {First(s)})
    BY <1>0, TotalFirst
  <1>3. CASE s # {}
    <2>1. First(s) \in s
      BY <1>3 DEF First
    <2>2. s \ {First(s)} \notin E
      <3> HIDE DEF E
      <3>1. s \subseteq S
        BY DEF E
      <3> QED
        BY <1>1, <2>1, <3>1, NoneBelow
    <2> QED
      BY <1>2, <1>3, <2>1, <2>2
  <1> QED
    BY <1>2, <1>3

\* Any element may be taken out first.
LEMMA TotalWithout ==
  ASSUME NEW S, IsFiniteSet(S), NEW f, \A x \in S : f[x] \in Nat, NEW x \in S
  PROVE  Total(f, S) = f[x] + Total(f, S \ {x})
  <1> DEFINE Splits(s) == \A y \in s : Total(f, s) = f[y] + Total(f, s \ {y})
             E == {s \in SUBSET S : ~Splits(s)}
  <1>0. \A s \in SUBSET S : IsFiniteSet(s) /\ Total(f, s) \in Nat
    BY FS_Subset, TotalIsNat
  <1> SUFFICES ASSUME E # {} PROVE FALSE
    OBVIOUS
  <1>1. PICK s \in E : \A r \in E : Cardinality(s) <= Cardinality(r)
    BY <1>0, SmallestSet
  <1>2. PICK y \in s : Total(f, s) # f[y] + Total(f, s \ {y})
    OBVIOUS
  <1> DEFINE c == First(s)
  <1>3. c \in s /\ Total(f, s) = f[c] + Total(f, s \ {c})
    BY <1>0, TotalFirst DEF First
  <1>4. c # y
    BY <1>2, <1>3
  <1>5. Splits(s \ {c}) /\ Splits(s \ {y})
    <2>1. \A z \in s : s \ {z} \notin E
      <3> HIDE DEF E
      <3>1. s \subseteq S
        BY DEF E
      <3> QED
        BY <1>1, <3>1, NoneBelow
    <2> QED
      BY <1>3, <2>1
  <1>6. /\ Total(f, s \ {c}) = f[y] + Total(f, (s \ {c}) \ {y})
        /\ Total(f, s \ {y}) = f[c] + Total(f, (s \ {y}) \ {c})
    BY <1>3, <1>4, <1>5
  <1>7. (s \ {c}) \ {y} = (s \ {y}) \ {c}
    OBVIOUS
  <1>8. /\ Total(f, (s \ {c}) \ {y}) \in Nat /\ f[c] \in Nat /\ f[y] \in Nat
        /\ (s \ {c}) \ {y} \in SUBSET S
    BY <1>0, <1>3
  <1> HIDE DEF c, Splits, E
  <1> QED
    BY <1>2, <1>3, <1>6, <1>7, <1>8

\* A smaller function over fewer elements has a smaller sum.
LEMMA TotalGrows ==
  ASSUME NEW S, IsFiniteSet(S), NEW T \in SUBSET S, NEW f, NEW g,
         \A x \in T : f[x] \in Nat, \A x \in S : g[x] \in Nat, \A x \in T : f[x] <= g[x]
  PROVE  Total(f, T) <= Total(g, S)
  <1> DEFINE E == {s \in SUBSET S : ~(Total(f, T \cap s) <= Total(g, s))}
  <1>0. \A s \in SUBSET S : /\ IsFiniteSet(s) /\ Total(g, s) \in Nat
                             /\ IsFiniteSet(T \cap s) /\ Total(f, T \cap s) \in Nat
    BY FS_Subset, TotalIsNat
  <1> SUFFICES ASSUME E # {} PROVE FALSE
    <2>1. S \notin E /\ T \cap S = T
      OBVIOUS
    <2> QED
      BY <2>1
  <1>1. PICK s \in E : \A r \in E : Cardinality(s) <= Cardinality(r)
    BY <1>0, SmallestSet
  <1>2. s # {}
    <2>1. Total(f, {}) = 0 /\ Total(g, {}) = 0
      BY TotalFirst, FS_EmptySet
    <2> QED
      BY <2>1
  <1>3. PICK x \in s : TRUE
    BY <1>2
  <1> DEFINE r == s \ {x}
  <1>4. r \notin E /\ r \in SUBSET S
    <2> HIDE DEF E
    <2>1. s \subseteq S
      BY DEF E
    <2> QED
      BY <1>1, <2>1, NoneBelow
  <1>5. Total(f, T \cap r) <= Total(g, r)
    BY <1>4
  <1>6. Total(g, s) = g[x] + Total(g, r)
    BY <1>0, TotalWithout
  <1>7. \/ T \cap s = T \cap r
        \/ x \in T /\ Total(f, T \cap s) = f[x] + Total(f, T \cap r)
    <2>1. CASE x \in T
      <3>1. x \in T \cap s /\ (T \cap s) \ {x} = T \cap r
        BY <2>1
      <3>2. Total(f, T \cap s) = f[x] + Total(f, (T \cap s) \ {x})
        BY <1>0, <3>1, TotalWithout
      <3> QED
        BY <2>1, <3>1, <3>2
    <2> QED
      BY <2>1
  <1> DEFINE a == Total(f, T \cap r)
             b == Total(g, r)
             p == f[x]
             q == g[x]
  <1>8. /\ a \in Nat /\ b \in Nat /\ q \in Nat /\ (x \in T => p \in Nat /\ p <= q)
        /\ ~(Total(f, T \cap s) <= Total(g, s))
    BY <1>0, <1>4
  <1>9. a <= b /\ Total(g, s) = q + b
        /\ (Total(f, T \cap s) = a \/ (x \in T /\ Total(f, T \cap s) = p + a))
    BY <1>5, <1>6, <1>7
  <1> HIDE DEF r, E, a, b, p, q
  <1> QED
    BY <1>8, <1>9

\* A sum of zeros is zero.
LEMMA TotalOfNothing ==
  ASSUME NEW S, IsFiniteSet(S), NEW f, \A x \in S : f[x] = 0
  PROVE  Total(f, S) = 0
  <1> DEFINE E == {s \in SUBSET S : Total(f, s) # 0}
  <1>0. \A s \in SUBSET S : IsFiniteSet(s)
    BY FS_Subset
  <1> SUFFICES ASSUME E # {} PROVE FALSE
    OBVIOUS
  <1>1. PICK s \in E : \A r \in E : Cardinality(s) <= Cardinality(r)
    BY <1>0, SmallestSet
  <1>2. Total(f, s) = IF s = {} THEN 0 ELSE f[First(s)] + Total(f, s \ {First(s)})
    BY <1>0, TotalFirst
  <1>3. CASE s # {}
    <2>1. First(s) \in s
      BY <1>3 DEF First
    <2>2. s \ {First(s)} \notin E
      <3> HIDE DEF E
      <3>1. s \subseteq S
        BY DEF E
      <3> QED
        BY <1>1, <2>1, <3>1, NoneBelow
    <2> QED
      BY <1>2, <1>3, <2>1, <2>2
  <1> QED
    BY <1>2, <1>3

----------------------------------------------------------------------------
\* The spend.  What the rows of the calls of known cost count, of a call no
\* more than was reserved for it, stays within the limit they were admitted
\* under: a reservation fits when it is made, beside all that then counts.
Counting == [i \in Ids |-> Counts(i, ledger.rows[i])]
Held == [i \in Ids |-> IF i \in Priced /\ Bound[i] <= Counting[i] THEN Bound[i] ELSE Counting[i]]
Within(S, limit) == Total(Held, Known \cap S) <= limit
SpendInv ==
    /\ Within(Ids, Limit)
    /\ \A r \in Roots : Within(Tree(r), RootLimit[r])

\* The sum of a call's check is that of the counts.
LEMMA CountedTotal ==
  ASSUME NEW S \in SUBSET Ids
  PROVE  Accounted(ledger.rows, S) = Total(Counting, S)
  <1> DEFINE op(t) == [s \in SUBSET S |-> IF s = {} THEN 0
                            ELSE Counts(First(s), ledger.rows[First(s)]) + t[s \ {First(s)}]]
  <1>1. Accounted(ledger.rows, S) = (CHOOSE t : t = op(t))[S]
    BY DEF Accounted, MapThenSumSet, MapThenFoldSet, First
  <1>2. \A s \in SUBSET S : s # {} => First(s) \in Ids
    BY DEF First
  <1>3. ASSUME NEW t PROVE (t = op(t)) <=> Adds(Counting, SUBSET S, t)
    <2>1. \A s \in SUBSET S : s # {} =>
             Counting[First(s)] = Counts(First(s), ledger.rows[First(s)])
      BY <1>2 DEF Counting
    <2>2. op(t) = [s \in SUBSET S |-> IF s = {} THEN 0
                      ELSE Counting[First(s)] + t[s \ {First(s)}]]
      BY <2>1
    <2> HIDE DEF op
    <2> QED
      BY <2>2 DEF Adds
  <1> HIDE DEF op
  <1>4. (CHOOSE t : t = op(t)) = (CHOOSE t : Adds(Counting, SUBSET S, t))
    BY <1>3
  <1> QED
    BY <1>1, <1>4, TotalIsChosen

\* So is the sum of what calls of known cost were to cost.
LEMMA PlannedTotal ==
  ASSUME NEW S \in SUBSET Priced
  PROVE  MapThenSumSet(Planned, S) = Total([a \in Priced |-> Planned(a)], S)
  <1> DEFINE op(t) == [s \in SUBSET S |-> IF s = {} THEN 0 ELSE Planned(First(s)) + t[s \ {First(s)}]]
             plan == [a \in Priced |-> Planned(a)]
  <1>1. MapThenSumSet(Planned, S) = (CHOOSE t : t = op(t))[S]
    BY DEF MapThenSumSet, MapThenFoldSet, First
  <1>2. \A s \in SUBSET S : s # {} => First(s) \in Priced
    BY DEF First
  <1>3. ASSUME NEW t PROVE (t = op(t)) <=> Adds(plan, SUBSET S, t)
    <2>1. \A s \in SUBSET S : s # {} => plan[First(s)] = Planned(First(s))
      BY <1>2
    <2> HIDE DEF plan
    <2>2. op(t) = [s \in SUBSET S |-> IF s = {} THEN 0 ELSE plan[First(s)] + t[s \ {First(s)}]]
      BY <2>1
    <2> HIDE DEF op
    <2> QED
      BY <2>2 DEF Adds
  <1> HIDE DEF op, plan
  <1>4. (CHOOSE t : t = op(t)) = (CHOOSE t : Adds(plan, SUBSET S, t))
    BY <1>3
  <1>5. MapThenSumSet(Planned, S) = Total(plan, S)
    BY <1>1, <1>4, TotalIsChosen
  <1> QED
    BY <1>5 DEF plan

\* No call but those of X comes to be counted, or counts for more.
Shrinks(X) == \A i \in Known' \ X : i \in Known /\ Held'[i] <= Held[i]

\* A row counts a natural; a call of known cost has a natural bound.
LEMMA CountsTyped ==
  ASSUME NEW row \in Row, NEW i \in Ids
  PROVE  /\ Counts(i, row) \in Nat
         /\ i \in Priced => Upper(i) = Bound[i] /\ Bound[i] \in Nat
  <1>1. Upper(i) \in Nat /\ (i \in Priced => Upper(i) = Bound[i] /\ Bound[i] \in Nat)
    BY BoundAssumption, PriceAssumption DEF Upper, Ids, Priced
  <1> HIDE DEF Ids
  <1>2. Counts(i, row) \in Nat
    BY <1>1 DEF Counts, Row
  <1> QED
    BY <1>1, <1>2

\* So do the rows of the file,
LEMMA CountsAreNat ==
  ASSUME FileOK, NEW i \in Ids
  PROVE  /\ Counting[i] = Counts(i, ledger.rows[i]) /\ Counting[i] \in Nat
         /\ Held[i] \in Nat /\ Held[i] <= Counting[i]
         /\ i \in Priced => Upper(i) = Bound[i] /\ Bound[i] \in Nat /\ Held[i] <= Bound[i]
  <1>1. /\ Counting[i] = Counts(i, ledger.rows[i]) /\ Counting[i] \in Nat
        /\ i \in Priced => Upper(i) = Bound[i] /\ Bound[i] \in Nat
    BY CountsTyped DEF FileOK, UsageFile, Counting
  <1>2. Held[i] = IF i \in Priced /\ Bound[i] <= Counting[i] THEN Bound[i] ELSE Counting[i]
    BY DEF Held
  <1> QED
    BY <1>1, <1>2

\* and those it holds after a step.
LEMMA CountsStayNat ==
  ASSUME FileOK', NEW i \in Ids
  PROVE  /\ Counting'[i] = Counts(i, ledger'.rows[i]) /\ Counting'[i] \in Nat
         /\ Held'[i] \in Nat /\ Held'[i] <= Counting'[i]
         /\ i \in Priced => Held'[i] <= Bound[i]
  <1>1. /\ Counting'[i] = Counts(i, ledger'.rows[i]) /\ Counting'[i] \in Nat
        /\ i \in Priced => Bound[i] \in Nat
    BY CountsTyped DEF FileOK, UsageFile, Counting
  <1>2. Held'[i] = IF i \in Priced /\ Bound[i] <= Counting'[i] THEN Bound[i] ELSE Counting'[i]
    BY DEF Held
  <1> QED
    BY <1>1, <1>2

\* Calls of known cost are attempts, and those are rows.
LEMMA KnownAreCalls == Known \subseteq Priced /\ Priced \subseteq Attempts /\ Attempts \subseteq Ids
  BY DEF Known, Priced, Ids

\* A section of a call that is past its reservation.
LEMMA SectionShrinks ==
  ASSUME FileOK, NEW b, Effect(b), NEW X,
         \A i \in (Priced \cap DOMAIN b) \ X : b[i].st \in {"dispatched"} \cup Terminal
  PROVE  Shrinks(X)
  <1> SUFFICES ASSUME NEW i \in Known' \ X PROVE i \in Known /\ Held'[i] <= Held[i]
    BY DEF Shrinks
  <1>1. i \in Priced /\ i \in Attempts /\ i \in Ids /\ i \notin lost' /\ i \notin lost
    BY DEF Known, Priced, Ids, Effect
  <1>2. ~Estimated(i)'
    BY DEF Known
  <1>3. FileOK' /\ Moved(ledger, ledger', b, i)
    BY <1>1 DEF Effect
  <1> DEFINE old == ledger.rows[i]
             new == ledger'.rows[i]
  <1>4. /\ Counting[i] = Counts(i, old) /\ Upper(i) = Bound[i] /\ Bound[i] \in Nat
        /\ Held[i] \in Nat /\ Held'[i] \in Nat /\ Held'[i] <= Bound[i]
    BY <1>1, <1>3, CountsAreNat, CountsStayNat
  <1>5. CASE new = old
    <2>1. i \in Known
      BY <1>1, <1>2, <1>5 DEF Known, Estimated, Costed
    <2>2. Held'[i] = Held[i]
      BY <1>1, <1>5 DEF Held, Counting
    <2> QED
      BY <1>4, <2>1, <2>2
  <1>6. CASE i \in DOMAIN b /\ new = b[i] /\ Allowed(i, old.st, b[i].st)
    <2>1. old.st \in {"reserved", "dispatched"}
      BY <1>1, <1>6 DEF Allowed, Terminal
    <2>2. i \in Known
      BY <1>1, <2>1 DEF Known, Estimated, Costed
    <2>3. Counting[i] = Bound[i]
      BY <1>4, <2>1 DEF Counts
    <2>4. Held[i] = Bound[i]
      BY <1>1, <1>4, <2>3 DEF Held
    <2> QED
      BY <1>4, <2>2, <2>4
  <1> QED
    BY <1>3, <1>5, <1>6 DEF Moved, Written

\* A section that only looks changes nothing that counts.
LEMMA UntouchedShrinks ==
  ASSUME FileOK, NEW X, Look \/ UNCHANGED <<ledger, lost>>
  PROVE  Shrinks(X)
  <1>1. lost' = lost /\ ledger'.rows = ledger.rows
    BY SectionLooks
  <1>2. Known' = Known /\ Held' = Held
    BY <1>1 DEF Known, Estimated, Costed, Counting, Held
  <1>3. \A i \in Known : Held[i] \in Nat
    BY CountsAreNat, KnownAreCalls
  <1> QED
    BY <1>2, <1>3 DEF Shrinks

\* Nobody is admitted: what fits goes on to fit.
LEMMA ShrunkFits ==
  ASSUME FileOK, FileOK', IsFiniteSet(Ids), NEW S \in SUBSET Ids, NEW limit \in Nat,
         Shrinks({}), Within(S, limit)
  PROVE  Within(S, limit)'
  <1>1. IsFiniteSet(Known \cap S) /\ Known' \cap S \in SUBSET (Known \cap S)
    <2>1. Known \cap S \subseteq Ids
      OBVIOUS
    <2> QED
      BY <2>1, FS_Subset DEF Shrinks
  <1>2. /\ \A i \in Known \cap S : Held[i] \in Nat
        /\ \A i \in Known' \cap S : Held'[i] \in Nat /\ Held'[i] <= Held[i]
    <2>1. \A i \in Ids : Held[i] \in Nat /\ Held'[i] \in Nat
      BY CountsAreNat, CountsStayNat
    <2> QED
      BY <2>1 DEF Shrinks
  <1>3. Total(Held', Known' \cap S) <= Total(Held, Known \cap S)
    BY <1>1, <1>2, TotalGrows
  <1>4. Total(Held, Known \cap S) \in Nat /\ Total(Held', Known' \cap S) \in Nat
    <2>1. IsFiniteSet(Known' \cap S)
      BY <1>1, FS_Subset
    <2> QED
      BY <1>1, <1>2, <2>1, TotalIsNat
  <1>5. Within(S, limit)' <=> Total(Held', Known' \cap S) <= limit
    BY DEF Within
  <1> QED
    BY <1>3, <1>4, <1>5 DEF Within

\* A new reservation: it fits beside all that counts.
LEMMA ReservedFits ==
  ASSUME FileOK, FileOK', IsFiniteSet(Ids), NEW S \in SUBSET Ids, NEW limit \in Nat,
         NEW a \in Attempts, Shrinks({a}), Within(S, limit),
         a \in Known' => Held'[a] <= Bound[a],
         a \in S => Fits(ledger.rows, a, S, limit)
  PROVE  Within(S, limit)'
  <1> DEFINE U == Known' \cap S
             spent == Total(Held, S)
  <1>1. \A i \in Ids : Held[i] \in Nat /\ Held'[i] \in Nat
    BY CountsAreNat, CountsStayNat
  <1>2. IsFiniteSet(S) /\ IsFiniteSet(U)
    BY FS_Subset
  <1>3. Within(S, limit)' <=> Total(Held', U) <= limit
    BY DEF Within
  <1>4. \A i \in U \ {a} : i \in Known \cap S /\ Held'[i] <= Held[i]
    BY DEF Shrinks
  <1>5. CASE a \in U
    <2>1. a \in Priced /\ a \in S
      BY <1>5 DEF Known
    <2>2. Accounted(ledger.rows, S) + Bound[a] <= limit
      BY <2>1 DEF Fits
    <2>3. /\ spent <= Total(Counting, S) /\ Accounted(ledger.rows, S) = Total(Counting, S)
          /\ Total(Counting, S) \in Nat
      <3>1. \A i \in S : Held[i] \in Nat /\ Counting[i] \in Nat /\ Held[i] <= Counting[i]
        BY CountsAreNat
      <3>2. S \in SUBSET S
        OBVIOUS
      <3>3. spent <= Total(Counting, S)
        BY <1>2, <3>1, <3>2, TotalGrows
      <3> QED
        BY <1>2, <3>1, <3>3, CountedTotal, TotalIsNat
    <2>4. U \ {a} \in SUBSET S
      OBVIOUS
    <2> DEFINE rest == Total(Held', U \ {a})
    <2>5. rest <= spent
      BY <1>1, <1>2, <1>4, <2>4, TotalGrows
    <2>6. Total(Held', U) = Held'[a] + rest
      <3>1. \A i \in U : Held'[i] \in Nat
        BY <1>1
      <3> HIDE DEF U
      <3> QED
        BY <1>2, <1>5, <3>1, TotalWithout
    <2>7. rest \in Nat /\ spent \in Nat /\ Held'[a] \in Nat /\ Bound[a] \in Nat
      <3>1. IsFiniteSet(U \ {a}) /\ U \ {a} \subseteq Ids
        BY <1>2, FS_Subset
      <3>2. rest \in Nat /\ spent \in Nat
        BY <1>1, <1>2, <3>1, TotalIsNat
      <3> QED
        BY <1>1, <2>1, <3>2, CountsAreNat, KnownAreCalls
    <2>8. Held'[a] <= Bound[a]
      BY <1>5
    <2> HIDE DEF U, spent, rest
    <2> QED
      BY <1>3, <2>2, <2>3, <2>5, <2>6, <2>7, <2>8
  <1>6. CASE a \notin U
    <2>1. U \in SUBSET (Known \cap S) /\ Known \cap S \subseteq Ids
      BY <1>4, <1>6
    <2>2. \A i \in U : i \in Ids /\ Held'[i] <= Held[i]
      BY <1>4, <1>6
    <2>3. IsFiniteSet(Known \cap S)
      BY <1>2, FS_Subset
    <2> DEFINE before == Total(Held, Known \cap S)
               now == Total(Held', U)
    <2> HIDE DEF U
    <2>4. now <= before
      BY <1>1, <2>1, <2>2, <2>3, TotalGrows
    <2>5. before \in Nat /\ now \in Nat
      BY <1>1, <1>2, <2>1, <2>2, <2>3, TotalIsNat
    <2>6. before <= limit
      BY DEF Within
    <2> HIDE DEF before, now
    <2> QED
      BY <1>3, <2>4, <2>5, <2>6 DEF now
  <1> QED
    BY <1>5, <1>6

\* No section but a reservation leaves a call of known cost counting for more
\* of its reservation than before.
LEMMA SpendKept ==
  ASSUME UsageInv, UsageInv', IsFiniteSet(Ids), SpendInv, Shrinks({})
  PROVE  SpendInv'
  <1>1. FileOK /\ FileOK' /\ Limit \in Nat /\ \A r \in Roots : RootLimit[r] \in Nat
    BY LimitAssumption DEF UsageInv
  <1>2. Within(Ids, Limit)'
    <2>1. Within(Ids, Limit) /\ Ids \in SUBSET Ids
      BY DEF SpendInv
    <2> QED
      BY <1>1, <2>1, ShrunkFits
  <1>3. ASSUME NEW r \in Roots PROVE Within(Tree(r), RootLimit[r])'
    <2>1. Within(Tree(r), RootLimit[r]) /\ Tree(r) \in SUBSET Ids
      BY DEF SpendInv, Tree
    <2> QED
      BY <1>1, <2>1, ShrunkFits
  <1> QED
    BY <1>2, <1>3 DEF SpendInv

\* A reservation keeps the limits: the check reserve_attempt makes.
LEMMA SpendReserve ==
  ASSUME UsageInv, UsageInv', IsFiniteSet(Ids), SpendInv, NEW a \in Attempts, Reserve(a)
  PROVE  SpendInv'
  <1> DEFINE b == One(a, A("reserved"))
  <1>1. FileOK /\ FileOK' /\ Limit \in Nat /\ \A r \in Roots : RootLimit[r] \in Nat
    BY LimitAssumption DEF UsageInv
  <1>3. a \in Ids /\ IsBatch(b) /\ DOMAIN b = {a} /\ b[a] = A("reserved") /\ b[a].st = "reserved"
    <2>1. A("reserved") \in Row /\ A("reserved").st = "reserved"
      BY RowTypes
    <2> QED
      BY <2>1, OneIsBatch DEF Ids
  <1>4. CASE Look
    BY <1>1, <1>4, UntouchedShrinks, SpendKept
  <1>5. CASE /\ Appends(b) \/ Fails(b)
             /\ Fits(Replayed(ledger).rows, a, Ids, Limit)
             /\ Fits(Replayed(ledger).rows, a, Tree(Root[a]), RootLimit[Root[a]])
    <2> HIDE DEF b
    <2>1. Effect(b)
      BY <1>1, <1>3, <1>5, SectionAppends, SectionFails
    <2>2. Shrinks({a})
      BY <1>1, <1>3, <2>1, SectionShrinks
    <2>3. Replayed(ledger).rows = ledger.rows
      BY <1>1, <1>5, ReplayedFile DEF Appends, Fails, Reads, FileOK
    <2>5. a \in Known' => Held'[a] <= Bound[a]
      BY <1>1, <1>3, CountsStayNat, KnownAreCalls DEF Known
    <2>6. Within(Ids, Limit)'
      <3>1. Within(Ids, Limit) /\ Ids \in SUBSET Ids /\ Fits(ledger.rows, a, Ids, Limit)
        BY <1>5, <2>3 DEF SpendInv
      <3> QED
        BY <1>1, <2>2, <2>5, <3>1, ReservedFits
    <2>7. ASSUME NEW r \in Roots PROVE Within(Tree(r), RootLimit[r])'
      <3>1. Within(Tree(r), RootLimit[r]) /\ Tree(r) \in SUBSET Ids
        BY DEF SpendInv, Tree
      <3>2. a \in Tree(r) => Fits(ledger.rows, a, Tree(r), RootLimit[r])
        BY <1>5, <2>3 DEF Tree
      <3> QED
        BY <1>1, <2>2, <2>5, <3>1, <3>2, ReservedFits
    <2> QED
      BY <2>6, <2>7 DEF SpendInv
  <1> QED
    BY <1>4, <1>5 DEF Reserve

\* Every step keeps the limits.
LEMMA SpendStep ==
  ASSUME UsageInv, UsageInv', IsFiniteSet(Ids), SpendInv, [Usage_Next]_usageVars
  PROVE  SpendInv'
  <1>1. FileOK /\ OwnersTyped
    BY DEF UsageInv
  <1> SUFFICES ASSUME \A a \in Attempts : ~Reserve(a) PROVE Shrinks({})
    BY SpendReserve, SpendKept
  <1>2. CASE \/ QuarantineDies \/ UNCHANGED usageVars
             \/ \E a \in Attempts : HitsLimit(a) \/ Call(a) \/ Inspect(a) \/ Dies(a)
    <2>1. Look \/ UNCHANGED <<ledger, lost>>
      BY <1>2 DEF QuarantineDies, usageVars, HitsLimit, Call, Answers, Throws, Ends, Inspect, Dies
    <2> QED
      BY <1>1, <2>1, UntouchedShrinks
  <1>3. ASSUME NEW b, IsBatch(b), DOMAIN b \cap Priced = {}, Appends(b) \/ Fails(b) PROVE Shrinks({})
    <2>1. Effect(b)
      BY <1>1, <1>3, SectionAppends, SectionFails
    <2> QED
      BY <1>1, <1>3, <2>1, SectionShrinks
  <1>4. CASE Import
    <2>1. IsBatch(Missing) /\ DOMAIN Missing \cap Priced = {}
      <3>1. DOMAIN Missing \subseteq Legacy /\ DOMAIN Missing \cap Priced = {}
        BY KindsAssumption DEF Missing, Priced
      <3>2. \A l \in DOMAIN Missing : Missing[l] = Settled(Price[l], FALSE)
        BY DEF Missing
      <3>3. \A l \in Legacy : Settled(Price[l], FALSE) \in Row
        BY PriceAssumption, RowTypes
      <3>4. \A l \in DOMAIN Missing : l \in Ids /\ Missing[l] \in Row
        BY <3>1, <3>2, <3>3 DEF Ids
      <3>5. Missing = [l \in DOMAIN Missing |-> Missing[l]]
        BY DEF Missing
      <3> QED
        BY <3>1, <3>4, <3>5 DEF IsBatch
    <2> HIDE DEF Missing
    <2> QED
      BY <1>3, <1>4, <2>1 DEF Import
  <1>5. ASSUME NEW s \in Sessions, Record(s) PROVE Shrinks({})
    <2> DEFINE row == Settled(Price[s], TRUE)
               b == One(s, row)
    <2>1. IsBatch(b) /\ DOMAIN b \cap Priced = {}
      <3>1. row \in Row /\ s \in Ids
        BY PriceAssumption, RowTypes DEF Ids
      <3> HIDE DEF row
      <3>2. IsBatch(b) /\ DOMAIN b = {s}
        BY <3>1, OneIsBatch
      <3>3. s \notin Priced
        BY KindsAssumption DEF Priced
      <3> QED
        BY <3>2, <3>3
    <2> HIDE DEF b
    <2>2. Look \/ Appends(b) \/ Fails(b)
      BY <1>5 DEF Record, b
    <2> QED
      BY <1>1, <1>3, <2>1, <2>2, UntouchedShrinks
  <1>6. ASSUME NEW a \in Attempts, NEW row \in Row, row.st \in {"dispatched"} \cup Terminal,
               Appends(One(a, row)) \/ Raises(One(a, row))
        PROVE  Shrinks({})
    <2> DEFINE b == One(a, row)
    <2>1. IsBatch(b) /\ DOMAIN b = {a} /\ b[a] = row
      BY OneIsBatch DEF Ids
    <2> HIDE DEF b
    <2>2. Effect(b)
      BY <1>1, <1>6, <2>1, SectionAppends, SectionRaises DEF b
    <2> QED
      BY <1>1, <1>6, <2>1, <2>2, SectionShrinks
  <1>7. ASSUME NEW a \in Attempts, Dispatch(a) PROVE Shrinks({})
    <2> DEFINE row == A("dispatched")
    <2>1. row \in Row /\ row.st = "dispatched"
      BY RowTypes
    <2>2. Appends(One(a, row)) \/ Raises(One(a, row))
      BY <1>7 DEF Dispatch
    <2> HIDE DEF row
    <2> QED
      BY <1>6, <2>1, <2>2
  <1>8. ASSUME NEW a \in Attempts, Close(a) PROVE Shrinks({})
    <2>1. due[a] \in Row /\ due[a].st \in Terminal
      BY <1>8 DEF UsageInv, OwnersTyped, CallInv, Close
    <2>2. Appends(One(a, due[a])) \/ Raises(One(a, due[a]))
      BY <1>8 DEF Close
    <2> QED
      BY <1>6, <2>1, <2>2
  <1> QED
    BY <1>2, <1>4, <1>5, <1>7, <1>8 DEF Usage_Next, OwnerStep

\* Nothing was spent at first.
LEMMA SpendStart ==
  ASSUME Usage_Init, IsFiniteSet(Ids) PROVE SpendInv
  <1>1. \A i \in Ids : Held[i] = 0
    <2>1. \A i \in Ids : Counting[i] = 0
      BY DEF Usage_Init, EmptyFile, Counting, Counts, A
    <2>2. \A i \in Priced : Bound[i] \in Nat
      BY BoundAssumption DEF Priced
    <2> QED
      BY <2>1, <2>2 DEF Held
  <1>2. ASSUME NEW S \in SUBSET Ids, NEW limit \in Nat PROVE Within(S, limit)
    <2>1. IsFiniteSet(Known \cap S) /\ Known \cap S \subseteq Ids
      BY FS_Subset
    <2>2. Total(Held, Known \cap S) = 0
      BY <1>1, <2>1, TotalOfNothing
    <2> QED
      BY <2>2 DEF Within
  <1> QED
    BY <1>2, LimitAssumption DEF SpendInv, Tree

\* What a call of known cost counts covers its charge, so what its tree and
\* all trees were charged is within their limits but for what single calls
\* cost beyond their reservations (reserve_attempt against _root_limit_usd and
\* _global_limit_usd).
THEOREM SpendStaysWithin ==
  ASSUME IsFiniteSet(Ids) PROVE Usage_Spec => []SpendWithinLimits
  <1>1. Usage_Init => SpendInv
    BY SpendStart
  <1>2. UsageInv /\ UsageInv' /\ SpendInv /\ [Usage_Next]_usageVars => SpendInv'
    BY SpendStep
  <1>3. ASSUME UsageInv, ChargeCovered, SpendInv PROVE SpendWithinLimits
    <2> DEFINE plan == [a \in Priced |-> Planned(a)]
    <2>1. \A a \in Known : plan[a] \in Nat /\ Held[a] \in Nat /\ plan[a] <= Held[a]
      <3> SUFFICES ASSUME NEW a \in Known
                   PROVE  plan[a] \in Nat /\ Held[a] \in Nat /\ plan[a] <= Held[a]
        OBVIOUS
      <3>1. a \in Priced /\ a \in Attempts /\ a \in Ids /\ a \notin lost /\ ~Estimated(a)
        BY KnownAreCalls DEF Known
      <3>2. charge[a] \in Nat
        BY <1>3, <3>1 DEF UsageInv, OwnersTyped
      <3>3. /\ Counting[a] = Counts(a, ledger.rows[a]) /\ Counting[a] \in Nat
            /\ Held[a] \in Nat /\ Bound[a] \in Nat
        BY <1>3, <3>1, CountsAreNat DEF UsageInv
      <3>4. charge[a] <= Counting[a] \/ Counting[a] = Bound[a]
        BY <1>3, <3>1, <3>3 DEF ChargeCovered
      <3>5. Held[a] = IF Bound[a] <= Counting[a] THEN Bound[a] ELSE Counting[a]
        BY <3>1 DEF Held
      <3>6. plan[a] = IF charge[a] <= Bound[a] THEN charge[a] ELSE Bound[a]
        BY <3>1 DEF Planned
      <3> QED
        BY <3>2, <3>3, <3>4, <3>5, <3>6
    <2> HIDE DEF plan
    <2>2. ASSUME NEW S \in SUBSET Ids, NEW limit \in Nat, Within(S, limit)
          PROVE  Total(plan, Known \cap S) <= limit
      <3>1. IsFiniteSet(Known \cap S) /\ Known \cap S \in SUBSET (Known \cap S)
        <4>1. Known \cap S \subseteq Ids
          OBVIOUS
        <4> QED
          BY <4>1, FS_Subset
      <3>2. \A a \in Known \cap S : plan[a] \in Nat /\ Held[a] \in Nat /\ plan[a] <= Held[a]
        BY <2>1
      <3>3. Total(plan, Known \cap S) <= Total(Held, Known \cap S)
        BY <3>1, <3>2, TotalGrows
      <3>4. Total(plan, Known \cap S) \in Nat /\ Total(Held, Known \cap S) \in Nat
        BY <3>1, <3>2, TotalIsNat
      <3> QED
        BY <2>2, <3>3, <3>4 DEF Within
    <2>3. ASSUME NEW S \in SUBSET Known
          PROVE  MapThenSumSet(Planned, S) = Total(plan, S)
      <3>1. S \in SUBSET Priced
        BY KnownAreCalls
      <3> QED
        BY <3>1, PlannedTotal DEF plan
    <2>4. MapThenSumSet(Planned, Known) <= Limit
      <3>1. Known \cap Ids = Known
        BY KnownAreCalls
      <3> QED
        BY <1>3, <2>2, <2>3, <3>1, LimitAssumption DEF SpendInv
    <2>5. \A r \in Roots : MapThenSumSet(Planned, Known \cap Tree(r)) <= RootLimit[r]
      BY <1>3, <2>2, <2>3, LimitAssumption DEF SpendInv, Tree
    <2> QED
      BY <2>4, <2>5 DEF SpendWithinLimits
  <1> QED
    BY <1>1, <1>2, <1>3, UsageInvariant, ChargesCovered, PTL DEF Usage_Spec
=============================================================================
