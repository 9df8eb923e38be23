----------------------- MODULE EvolutionSystemProofs ------------------------
(* Lemmas about the sections of the campaign file: what each one keeps of a *)
(* good campaign record (CampaignOK), and what it changes.  Then the types, *)
(* the worker slots and the supervisor: SystemOK is kept by every action    *)
(* from a state whose campaign record has its type.                         *)
EXTENDS EvolutionLifecycle, FiniteSetTheorems, TLAPS

Absorbed(c) == {x \in c.hist : x.outcome = "absorbed"}

\* A campaign record c when n transactions have been begun: the transaction in
\* flight is not absorbed yet and not in the history, transaction ids are used
\* in order, and no absorbed row is waiting for its cleanup, so that the
\* cleanup of another one (PersistCleanup) rewrites none of them.
CampaignOK(c, n) ==
    /\ c \in Campaign
    /\ c.active.id <= n /\ c.active.outcome # "absorbed" /\ ~c.active.pend
    /\ \A x \in c.hist : x.id <= n /\ x.id # 0 /\ x.id # c.active.id
    /\ \A x \in Absorbed(c) : ~x.pend
    /\ IsFiniteSet(Absorbed(c))
    /\ c.absorbed = Cardinality(Absorbed(c))

\* The empty transaction and the empty campaign have their types.
LEMMA EmptyTypes ==
    NoTx \in Transaction /\ NoCampaign \in Campaign
<1>1. NoTx \in Transaction
  BY BoundsAssumption DEF NoTx, Transaction, Objectives, Outcomes
<1>2. [o \in Objectives |-> 0] \in [Objectives -> Nat] /\ 0 \in Objectives
  BY BoundsAssumption DEF Objectives
<1>3. NoCampaign \in Campaign
  BY <1>1, <1>2, BoundsAssumption DEF NoCampaign, Campaign
<1> QED
  BY <1>1, <1>3

\* Fields of the empty transaction.
LEMMA NoTxFields ==
    NoTx.id = 0 /\ NoTx.outcome = "" /\ NoTx.outcome # "absorbed" /\ ~NoTx.pend
  BY DEF NoTx

\* What the later steps use of a record of the campaign file.
LEMMA CampaignFields ==
    ASSUME NEW c \in Campaign
    PROVE  /\ c.id \in 0..MaxCamp /\ c.obj \in Objectives /\ c.link \in 0..MaxReq
           /\ c.status \in {"none", "active", "paused", "stopped"}
           /\ c.active \in Transaction /\ c.hist \subseteq Transaction
           /\ c.rows \subseteq Transaction /\ c.gen \in 0..MaxGen
           /\ c.absorbed \in Nat /\ c.repeats \in [Objectives -> Nat]
           /\ c.active.id \in 0..MaxTx /\ c.active.sha \in 0..MaxSha
           /\ c.active.base \in SUBSET Shas /\ c.active.obj \in Objectives
  BY DEF Campaign, Transaction

\* What the later steps use of a transaction.
LEMMA TransactionFields ==
    ASSUME NEW x \in Transaction
    PROVE  /\ x.id \in 0..MaxTx /\ x.sha \in 0..MaxSha /\ x.base \in SUBSET Shas
           /\ x.obj \in Objectives /\ x.pend \in BOOLEAN /\ x.outcome \in Outcomes
  BY DEF Transaction

\* The empty campaign absorbed nothing.
LEMMA NoCampaignOK ==
    ASSUME NEW n \in Nat
    PROVE  CampaignOK(NoCampaign, n)
<1>1. Absorbed(NoCampaign) = {}
  BY DEF Absorbed, NoCampaign
<1>2. NoCampaign.hist = {} /\ NoCampaign.absorbed = 0 /\ NoCampaign.active = NoTx
  BY DEF NoCampaign
<1>3. NoTx.id <= n /\ NoTx.outcome # "absorbed" /\ ~NoTx.pend
  BY DEF NoTx
<1>4. IsFiniteSet(Absorbed(NoCampaign)) /\ Cardinality(Absorbed(NoCampaign)) = 0
  BY <1>1, FS_EmptySet
<1> QED
  BY <1>1, <1>2, <1>3, <1>4, EmptyTypes DEF CampaignOK

\* More transactions begun disturb nothing.
LEMMA CampaignOKMonotone ==
    ASSUME NEW c, NEW n \in Nat, NEW m \in Nat, n <= m, CampaignOK(c, n)
    PROVE  CampaignOK(c, m)
<1>1. \A x \in c.hist : x.id \in 0..MaxTx
  BY CampaignFields, TransactionFields DEF CampaignOK
<1>2. c.active.id \in 0..MaxTx
  BY CampaignFields DEF CampaignOK
<1> QED
  BY <1>1, <1>2, BoundsAssumption DEF CampaignOK

\* A change of other fields disturbs nothing.
LEMMA CampaignOKFrame ==
    ASSUME NEW c, NEW d \in Campaign, NEW n \in Nat, CampaignOK(c, n),
           d.hist = c.hist, d.absorbed = c.absorbed, d.active.id = c.active.id,
           d.active.outcome # "absorbed", ~d.active.pend
    PROVE  CampaignOK(d, n)
<1>1. Absorbed(d) = Absorbed(c)
  BY DEF Absorbed
<1> QED
  BY <1>1 DEF CampaignOK

\* Archiving a transaction y in the place of the active one, absorbed or not:
\* the count must grow by one exactly when y is absorbed.
LEMMA CampaignOKArchive ==
    ASSUME NEW c, NEW d \in Campaign, NEW n \in Nat, NEW m \in Nat, n <= m,
           CampaignOK(c, n), HasTx(c), NEW y \in Transaction, y.id = c.active.id,
           d.hist = Archive(c, y), d.active.outcome # "absorbed", ~d.active.pend,
           d.active.id = 0 \/ (d.active.id = m /\ m > n),
           y.outcome = "absorbed" => ~y.pend /\ d.absorbed = c.absorbed + 1,
           y.outcome # "absorbed" => d.absorbed = c.absorbed
    PROVE  CampaignOK(d, m)
<1>1. /\ \A x \in c.hist : x.id \in Nat /\ x.id <= n /\ x.id # 0 /\ x.id # y.id
      /\ y.id \in Nat /\ y.id <= n /\ y.id # 0
  BY CampaignFields, TransactionFields, BoundsAssumption DEF CampaignOK, HasTx
<1>2. d.hist = c.hist \cup {y} /\ y \notin c.hist
  BY <1>1 DEF Archive
<1>3. \A x \in d.hist : x.id <= m /\ x.id # 0 /\ x.id # d.active.id
  BY <1>1, <1>2
<1>4. d.active.id <= m
  BY BoundsAssumption
<1>5. CASE y.outcome = "absorbed"
  <2>1. Absorbed(d) = Absorbed(c) \cup {y} /\ y \notin Absorbed(c)
    BY <1>2, <1>5 DEF Absorbed
  <2>2. IsFiniteSet(Absorbed(d)) /\ Cardinality(Absorbed(d)) = c.absorbed + 1
    BY <2>1, FS_AddElement DEF CampaignOK
  <2>3. \A x \in Absorbed(d) : ~x.pend
    BY <2>1, <1>5 DEF CampaignOK
  <2> QED
    BY <1>3, <1>4, <1>5, <2>2, <2>3 DEF CampaignOK
<1>6. CASE y.outcome # "absorbed"
  <2>1. Absorbed(d) = Absorbed(c)
    BY <1>2, <1>6 DEF Absorbed
  <2> QED
    BY <1>3, <1>4, <1>6, <2>1 DEF CampaignOK
<1> QED
  BY <1>5, <1>6

\* Every locked section keeps a good campaign record good.
LEMMA StartCampaignOK ==
    ASSUME NEW c, NEW n \in Nat, CampaignOK(c, n), NEW o \in Objectives,
           NEW g \in 0..MaxGen, MayStart(c)
    PROVE  CampaignOK(StartCampaign(c, o, g), n)
<1>1. c \in Campaign
  BY DEF CampaignOK
<1>2. CASE c.status \in Live
  <2>1. StartCampaign(c, o, g) = [c EXCEPT !.obj = o, !.status = "active", !.gen = g]
    BY <1>2 DEF StartCampaign
  <2>2. StartCampaign(c, o, g) \in Campaign
    BY <1>1, <2>1 DEF Campaign
  <2>3. /\ StartCampaign(c, o, g).hist = c.hist /\ StartCampaign(c, o, g).active = c.active
        /\ StartCampaign(c, o, g).absorbed = c.absorbed
    BY <1>1, <2>1 DEF Campaign
  <2> QED
    BY <2>2, <2>3, CampaignOKFrame DEF CampaignOK
<1>3. CASE c.status \notin Live
  <2>1. StartCampaign(c, o, g) =
          [NoCampaign EXCEPT !.id = c.id + 1, !.status = "active", !.obj = o, !.gen = g]
    BY <1>3 DEF StartCampaign
  <2>2. c.id + 1 \in 0..MaxCamp
    BY <1>1, <1>3, CampaignFields, BoundsAssumption DEF MayStart
  <2>3. StartCampaign(c, o, g) \in Campaign
    BY <2>1, <2>2, EmptyTypes DEF Campaign
  <2>4. LET s == StartCampaign(c, o, g)
        IN  /\ s.hist = NoCampaign.hist /\ s.active = NoCampaign.active
            /\ s.absorbed = NoCampaign.absorbed
    BY <2>1, EmptyTypes DEF Campaign
  <2> QED
    BY <2>3, <2>4, NoCampaignOK, CampaignOKFrame DEF CampaignOK
<1> QED
  BY <1>2, <1>3

\* A pause keeps the record good.
LEMMA PauseCampaignOK ==
    ASSUME NEW c, NEW n \in Nat, CampaignOK(c, n)
    PROVE  CampaignOK(PauseCampaign(c), n)
<1>1. c \in Campaign
  BY DEF CampaignOK
<1>2. PauseCampaign(c) \in Campaign
  BY <1>1 DEF PauseCampaign, Campaign
<1>3. /\ PauseCampaign(c).hist = c.hist /\ PauseCampaign(c).active = c.active
      /\ PauseCampaign(c).absorbed = c.absorbed
  BY <1>1 DEF PauseCampaign, Campaign
<1> QED
  BY <1>2, <1>3, CampaignOKFrame DEF CampaignOK

\* Linking a rescue snapshot keeps the record good.
LEMMA LinkRescueOK ==
    ASSUME NEW c, NEW n \in Nat, CampaignOK(c, n)
    PROVE  CampaignOK(LinkRescue(c), n)
<1>1. c \in Campaign
  BY DEF CampaignOK
<1>2. LinkRescue(c) \in Campaign
  BY <1>1 DEF LinkRescue, Campaign, Transaction
<1>3. /\ LinkRescue(c).hist = c.hist /\ LinkRescue(c).active.id = c.active.id
      /\ LinkRescue(c).active.outcome = c.active.outcome
      /\ LinkRescue(c).active.pend = c.active.pend
      /\ LinkRescue(c).absorbed = c.absorbed
  BY <1>1 DEF LinkRescue, Campaign, Transaction
<1> QED
  BY <1>2, <1>3, CampaignOKFrame DEF CampaignOK

\* The durable reaping mark keeps the record good.
LEMMA MarkReapingOK ==
    ASSUME NEW c, NEW n \in Nat, CampaignOK(c, n)
    PROVE  CampaignOK(MarkReaping(c), n)
<1>1. c \in Campaign
  BY DEF CampaignOK
<1>2. MarkReaping(c) \in Campaign
  BY <1>1 DEF MarkReaping, Campaign, Transaction
<1>3. /\ MarkReaping(c).hist = c.hist /\ MarkReaping(c).active.id = c.active.id
      /\ MarkReaping(c).active.outcome = c.active.outcome
      /\ MarkReaping(c).active.pend = c.active.pend
      /\ MarkReaping(c).absorbed = c.absorbed
  BY <1>1 DEF MarkReaping, Campaign, Transaction
<1> QED
  BY <1>2, <1>3, CampaignOKFrame DEF CampaignOK

\* A commit receipt keeps the record good.
LEMMA RecordCommitOK ==
    ASSUME NEW c, NEW n \in Nat, CampaignOK(c, n), NEW s \in 0..MaxSha
    PROVE  CampaignOK(RecordCommit(c, s), n)
<1>1. c \in Campaign
  BY DEF CampaignOK
<1>2. RecordCommit(c, s) \in Campaign
  BY <1>1 DEF RecordCommit, Campaign, Transaction
<1>3. /\ RecordCommit(c, s).hist = c.hist /\ RecordCommit(c, s).active.id = c.active.id
      /\ RecordCommit(c, s).active.outcome = c.active.outcome
      /\ RecordCommit(c, s).active.pend = c.active.pend
      /\ RecordCommit(c, s).absorbed = c.absorbed
  BY <1>1 DEF RecordCommit, Campaign, Transaction
<1> QED
  BY <1>2, <1>3, CampaignOKFrame DEF CampaignOK

\* The generation stamp of a booting worker keeps the record good.
LEMMA StampOK ==
    ASSUME NEW c, NEW n \in Nat, CampaignOK(c, n), NEW g \in 0..MaxGen
    PROVE  CampaignOK(Stamp(c, g), n)
<1>1. c \in Campaign
  BY DEF CampaignOK
<1>2. Stamp(c, g) \in Campaign
  BY <1>1 DEF Stamp, Campaign
<1>3. /\ Stamp(c, g).hist = c.hist /\ Stamp(c, g).active = c.active
      /\ Stamp(c, g).absorbed = c.absorbed
  BY <1>1 DEF Stamp, Campaign
<1> QED
  BY <1>2, <1>3, CampaignOKFrame DEF CampaignOK

\* The backlog link of a promotion.
LEMMA LinkOK ==
    ASSUME NEW c, NEW n \in Nat, CampaignOK(c, n), NEW r \in 0..MaxReq
    PROVE  CampaignOK([c EXCEPT !.link = r], n)
<1> DEFINE d == [c EXCEPT !.link = r]
<1>1. c \in Campaign
  BY DEF CampaignOK
<1>2. d \in Campaign
  BY <1>1 DEF Campaign
<1>3. d.hist = c.hist /\ d.active = c.active /\ d.absorbed = c.absorbed
  BY <1>1 DEF Campaign
<1> HIDE DEF d
<1> QED
  <2>1. CampaignOK(d, n)
    BY <1>2, <1>3, CampaignOKFrame DEF CampaignOK
  <2> QED
    BY <2>1 DEF d

\* The history stays a set of transactions.
LEMMA ArchiveType ==
    ASSUME NEW c \in Campaign, NEW y \in Transaction
    PROVE  Archive(c, y) \in SUBSET Transaction
  BY DEF Archive, Campaign

\* Closing a campaign archives the transaction in flight, which is not absorbed,
\* so the count stays.
LEMMA CompleteCampaignOK ==
    ASSUME NEW c, NEW n \in Nat, CampaignOK(c, n)
    PROVE  CampaignOK(CompleteCampaign(c), n)
<1>1. c \in Campaign /\ c.active.outcome # "absorbed"
  BY DEF CampaignOK
<1> DEFINE d == CompleteCampaign(c)
           y == [c.active EXCEPT !.outcome = IF @ = "" THEN "owner_stopped" ELSE @]
<1>2. y \in Transaction /\ y.id = c.active.id /\ y.outcome # "absorbed"
  BY <1>1, CampaignFields DEF Transaction, Outcomes
<1>3. CASE c.status = "none"
  BY <1>3 DEF CompleteCampaign
<1>4. CASE c.status # "none"
  <2> DEFINE H == IF HasTx(c) THEN Archive(c, y) ELSE c.hist
  <2>1. d = [c EXCEPT !.hist = H, !.active = NoTx, !.link = 0, !.status = "stopped"]
    BY <1>4 DEF CompleteCampaign
  <2>2. H \in SUBSET Transaction
    BY <1>1, <1>2, ArchiveType, CampaignFields
  <2> HIDE DEF y, H, d
  <2>3. d \in Campaign /\ d.hist = H /\ d.active = NoTx /\ d.absorbed = c.absorbed
    <3>1. NoTx \in Transaction /\ 0 \in 0..MaxReq
      BY EmptyTypes, BoundsAssumption
    <3> QED
      BY <1>1, <2>1, <2>2, <3>1 DEF Campaign
  <2>4. d.active.id = 0 /\ d.active.outcome # "absorbed" /\ ~d.active.pend
    BY <2>3, NoTxFields
  <2>5. CASE HasTx(c)
    <3>1. d.hist = Archive(c, y)
      BY <2>3, <2>5 DEF H
    <3>2. CampaignOK(d, n)
      BY <1>2, <2>3, <2>4, <2>5, <3>1, CampaignOKArchive
    <3> QED
      BY <3>2 DEF d
  <2>6. CASE ~HasTx(c)
    <3>1. d.hist = c.hist /\ c.active.id = 0
      BY <2>3, <2>6 DEF H, HasTx
    <3>2. CampaignOK(d, n)
      BY <2>3, <2>4, <3>1, CampaignOKFrame
    <3> QED
      BY <3>2 DEF d
  <2> QED
    BY <2>5, <2>6
<1> QED
  BY <1>3, <1>4

\* Beginning transaction n + 1 archives an earlier one as abandoned and takes an
\* id that no archived transaction has.
LEMMA BeginTransactionOK ==
    ASSUME NEW c, NEW n \in Nat, CampaignOK(c, n), n + 1 \in TxIds,
           NEW h \in SUBSET Shas
    PROVE  CampaignOK(BeginTransaction(c, n + 1, h), n + 1)
<1>1. c \in Campaign /\ c.active.outcome # "absorbed"
  BY DEF CampaignOK
<1> DEFINE d == BeginTransaction(c, n + 1, h)
           y == [c.active EXCEPT !.outcome = "abandoned"]
           new == [NoTx EXCEPT !.id = n + 1, !.camp = c.id, !.obj = c.obj, !.base = h]
<1>2. y \in Transaction /\ y.id = c.active.id /\ y.outcome = "abandoned"
  BY <1>1, CampaignFields DEF Transaction, Outcomes
<1>3. new \in Transaction /\ new.id = n + 1 /\ new.outcome = "" /\ ~new.pend
  <2>1. n + 1 \in 0..MaxTx
    BY BoundsAssumption DEF TxIds
  <2>2. c.id \in 0..MaxCamp /\ c.obj \in Objectives
    BY <1>1, CampaignFields
  <2>3. NoTx \in Transaction /\ NoTx.outcome = "" /\ ~NoTx.pend
    BY EmptyTypes, NoTxFields
  <2> QED
    BY <2>1, <2>2, <2>3 DEF Transaction
<1> DEFINE H == IF HasTx(c) THEN Archive(c, y) ELSE c.hist
<1>4. d = [c EXCEPT !.hist = H, !.active = new]
  BY DEF BeginTransaction
<1>5. H \in SUBSET Transaction
  BY <1>1, <1>2, ArchiveType, CampaignFields
<1> HIDE DEF new, y, H
<1>6. d \in Campaign /\ d.hist = H /\ d.active = new /\ d.absorbed = c.absorbed
  BY <1>1, <1>3, <1>4, <1>5 DEF Campaign
<1> HIDE DEF d
<1>7. /\ n + 1 \in Nat /\ n <= n + 1 /\ n + 1 > n
      /\ d.active.id = n + 1 /\ d.active.outcome # "absorbed" /\ ~d.active.pend
  <2>1. n + 1 \in Nat /\ n <= n + 1 /\ n + 1 > n
    OBVIOUS
  <2>2. d.active.id = n + 1 /\ d.active.outcome = "" /\ ~d.active.pend
    BY <1>3, <1>6
  <2> QED
    BY <2>1, <2>2
<1>8. CASE HasTx(c)
  <2>1. d.hist = Archive(c, y)
    BY <1>6, <1>8 DEF H
  <2>2. CampaignOK(d, n + 1)
    BY <1>2, <1>6, <1>7, <1>8, <2>1, CampaignOKArchive
  <2> QED
    BY <2>2 DEF d
<1>9. CASE ~HasTx(c)
  <2>1. d.hist = c.hist
    BY <1>6, <1>9 DEF H
  <2>2. Absorbed(d) = Absorbed(c)
    BY <2>1 DEF Absorbed
  <2>3. \A x \in d.hist : x.id \in Nat /\ x.id <= n /\ x.id # 0
    BY <2>1, <1>1, CampaignFields, TransactionFields, BoundsAssumption DEF CampaignOK
  <2>4. \A x \in d.hist : x.id <= n + 1 /\ x.id # 0 /\ x.id # d.active.id
    BY <2>3, <1>7
  <2>5. CampaignOK(d, n + 1)
    BY <1>6, <1>7, <2>2, <2>4 DEF CampaignOK
  <2> QED
    BY <2>5 DEF d
<1> QED
  BY <1>8, <1>9

\* A task terminal closes the transaction as no_op or abandoned, or leaves it
\* waiting for the restart: it never counts it as absorbed.
LEMMA AfterTaskOK ==
    ASSUME NEW c, NEW n \in Nat, CampaignOK(c, n), HasTx(c)
    PROVE  CampaignOK(AfterTask(c), n)
<1>1. /\ c \in Campaign /\ c.active \in Transaction /\ c.rows \in SUBSET Transaction
      /\ c.repeats \in [Objectives -> Nat] /\ c.active.outcome # "absorbed" /\ ~c.active.pend
  BY CampaignFields DEF CampaignOK
<1> DEFINE d == AfterTask(c)
           x == c.active
           closed_(o) == [x EXCEPT !.outcome = o, !.pend = TRUE]
           wait == [x EXCEPT !.outcome = "waiting_for_restart"]
           close(y) == [c EXCEPT !.hist = Archive(c, y), !.rows = @ \cup {y},
                                 !.active = NoTx, !.link = 0, !.repeats = Bump(c, x)]
<1>2. ASSUME NEW y \in Transaction, y.id = x.id, y.outcome # "absorbed"
      PROVE  CampaignOK(close(y), n)
  <2> DEFINE e == close(y)
             H == Archive(c, y)
             B == Bump(c, x)
  <2>1. H \in SUBSET Transaction /\ c.rows \cup {y} \in SUBSET Transaction
    BY <1>1, <1>2, ArchiveType
  <2>2. B \in [Objectives -> Nat]
    BY <1>1, CampaignFields DEF Bump
  <2>3. 0 \in 0..MaxReq
    BY BoundsAssumption
  <2>4. e = [c EXCEPT !.hist = H, !.rows = @ \cup {y}, !.active = NoTx, !.link = 0,
                      !.repeats = B]
    OBVIOUS
  <2> HIDE DEF H, B, e
  <2>5. e \in Campaign /\ e.hist = H /\ e.active = NoTx /\ e.absorbed = c.absorbed
    BY <1>1, <2>1, <2>2, <2>3, <2>4, EmptyTypes DEF Campaign
  <2>6. e.active.id = 0 /\ e.active.outcome # "absorbed" /\ ~e.active.pend
    BY <2>5, NoTxFields
  <2>7. e.hist = Archive(c, y)
    BY <2>5 DEF H
  <2>8. CampaignOK(e, n)
    BY <1>2, <2>5, <2>6, <2>7, CampaignOKArchive
  <2> QED
    BY <2>8 DEF e
<1>3. ASSUME NEW o \in {"abandoned", "no_op"}, d = close(closed_(o))
      PROVE  CampaignOK(d, n)
  <2> DEFINE y == closed_(o)
  <2>1. y \in Transaction /\ y.id = x.id /\ y.outcome # "absorbed"
    BY <1>1, <1>3 DEF Transaction, Outcomes
  <2>2. CampaignOK(close(y), n)
    <3> HIDE DEF y, close
    <3> QED
      BY <1>2, <2>1
  <2> QED
    BY <1>3, <2>2
<1>4. CASE x.rescue
  BY <1>3, <1>4 DEF AfterTask
<1>5. CASE ~x.rescue /\ ~Committed(x)
  BY <1>3, <1>5 DEF AfterTask
<1>6. CASE ~x.rescue /\ Committed(x)
  <2>1. d = [c EXCEPT !.active = wait, !.rows = @ \cup {wait}]
    BY <1>6 DEF AfterTask
  <2>2. /\ wait \in Transaction /\ wait.id = x.id
        /\ wait.outcome = "waiting_for_restart" /\ ~wait.pend
    BY <1>1 DEF Transaction, Outcomes
  <2> HIDE DEF wait, d
  <2>3. d \in Campaign /\ d.hist = c.hist /\ d.active = wait /\ d.absorbed = c.absorbed
    BY <1>1, <2>1, <2>2 DEF Campaign
  <2>4. d.active.id = c.active.id /\ d.active.outcome # "absorbed" /\ ~d.active.pend
    BY <2>2, <2>3
  <2>5. CampaignOK(d, n)
    BY <2>3, <2>4, CampaignOKFrame
  <2> QED
    BY <2>5 DEF d
<1> QED
  BY <1>4, <1>5, <1>6

\* The absorbed branch counts the one transaction that it archives.
LEMMA AbsorbOK ==
    ASSUME NEW c, NEW n \in Nat, CampaignOK(c, n), HasTx(c), NEW g \in 0..MaxGen
    PROVE  CampaignOK(Absorb(c, g), n)
<1>1. /\ c \in Campaign /\ c.active \in Transaction /\ c.absorbed \in Nat
      /\ c.repeats \in [Objectives -> Nat] /\ ~c.active.pend
  BY CampaignFields DEF CampaignOK
<1> DEFINE d == Absorb(c, g)
           y == [c.active EXCEPT !.outcome = "absorbed"]
           H == Archive(c, y)
           R == Clear(c, c.active)
           A == c.absorbed + 1
<1>2. y \in Transaction /\ y.id = c.active.id /\ y.outcome = "absorbed" /\ ~y.pend
  BY <1>1 DEF Transaction, Outcomes
<1>3. H \in SUBSET Transaction /\ R \in [Objectives -> Nat] /\ 0 \in 0..MaxReq
  <2>1. H \in SUBSET Transaction
    BY <1>1, <1>2, ArchiveType
  <2>2. R \in [Objectives -> Nat]
    BY <1>1 DEF Clear
  <2> QED
    BY <2>1, <2>2, BoundsAssumption
<1>4. /\ d = [c EXCEPT !.hist = H, !.active = NoTx, !.link = 0, !.gen = g,
                       !.absorbed = A, !.repeats = R]
      /\ A \in Nat
  BY <1>1 DEF Absorb
<1> HIDE DEF y, H, R, A, d
<1>5. d \in Campaign /\ d.hist = H /\ d.active = NoTx /\ d.absorbed = A
  BY <1>1, <1>3, <1>4, EmptyTypes DEF Campaign
<1>6. d.active.id = 0 /\ d.active.outcome # "absorbed" /\ ~d.active.pend
  BY <1>5, NoTxFields
<1>7. d.hist = Archive(c, y)
  BY <1>5 DEF H
<1>8. CampaignOK(d, n)
  <2>1. d.absorbed = c.absorbed + 1
    BY <1>5 DEF A
  <2> QED
    BY <1>2, <1>5, <1>6, <1>7, <2>1, CampaignOKArchive
<1> QED
  BY <1>8 DEF d

\* The abandoned branch of the boot reconciliation counts nothing.
LEMMA AbandonUnreachableOK ==
    ASSUME NEW c, NEW n \in Nat, CampaignOK(c, n), HasTx(c), NEW g \in 0..MaxGen
    PROVE  CampaignOK(AbandonUnreachable(c, g), n)
<1>1. /\ c \in Campaign /\ c.active \in Transaction
      /\ c.repeats \in [Objectives -> Nat]
  BY CampaignFields DEF CampaignOK
<1> DEFINE d == AbandonUnreachable(c, g)
           y == [c.active EXCEPT !.outcome = "abandoned"]
           H == Archive(c, y)
           R == Bump(c, c.active)
<1>2. y \in Transaction /\ y.id = c.active.id /\ y.outcome = "abandoned"
  BY <1>1 DEF Transaction, Outcomes
<1>3. H \in SUBSET Transaction /\ R \in [Objectives -> Nat] /\ 0 \in 0..MaxReq
  <2>1. H \in SUBSET Transaction
    BY <1>1, <1>2, ArchiveType
  <2>2. R \in [Objectives -> Nat]
    BY <1>1, CampaignFields DEF Bump
  <2> QED
    BY <2>1, <2>2, BoundsAssumption
<1>4. d = [c EXCEPT !.hist = H, !.active = NoTx, !.link = 0, !.gen = g, !.repeats = R]
  BY DEF AbandonUnreachable
<1> HIDE DEF y, H, R, d
<1>5. d \in Campaign /\ d.hist = H /\ d.active = NoTx /\ d.absorbed = c.absorbed
  BY <1>1, <1>3, <1>4, EmptyTypes DEF Campaign
<1>6. d.active.id = 0 /\ d.active.outcome # "absorbed" /\ ~d.active.pend
  BY <1>5, NoTxFields
<1>7. d.hist = Archive(c, y)
  BY <1>5 DEF H
<1>8. CampaignOK(d, n)
  BY <1>2, <1>5, <1>6, <1>7, CampaignOKArchive
<1> QED
  BY <1>8 DEF d

\* The cleanup evidence of a transaction leaves the absorbed rows as they are.
LEMMA PersistCleanupOK ==
    ASSUME NEW c, NEW n \in Nat, CampaignOK(c, n), NEW t
    PROVE  CampaignOK(PersistCleanup(c, t), n)
<1>1. /\ c \in Campaign /\ c.hist \in SUBSET Transaction /\ c.rows \in SUBSET Transaction
  BY CampaignFields DEF CampaignOK
<1> DEFINE d == PersistCleanup(c, t)
           new(x) == IF x.id = t THEN [x EXCEPT !.pend = FALSE] ELSE x
           settle(S) == {new(x) : x \in S}
<1>2. ASSUME NEW x \in Transaction
      PROVE  /\ new(x) \in Transaction /\ new(x).id = x.id
             /\ new(x).outcome = x.outcome /\ new(x).pend => x.pend
             /\ ~x.pend => new(x) = x
  BY DEF Transaction
<1>3. settle(c.hist) \in SUBSET Transaction /\ settle(c.rows) \in SUBSET Transaction
  BY <1>1, <1>2
<1>4. d = [c EXCEPT !.hist = settle(c.hist), !.rows = settle(c.rows)]
  BY <1>1 DEF PersistCleanup, Campaign
<1>5. /\ d \in Campaign /\ d.active = c.active /\ d.absorbed = c.absorbed
      /\ d.hist = settle(c.hist)
  <2> HIDE DEF settle, d
  <2> QED
    BY <1>1, <1>3, <1>4 DEF Campaign
<1>6. Absorbed(d) = Absorbed(c)
  <2>1. ASSUME NEW x \in Absorbed(c)
        PROVE  x \in Absorbed(d)
    <3>1. x \in c.hist /\ x \in Transaction /\ x.outcome = "absorbed" /\ ~x.pend
      BY <1>1, <2>1 DEF Absorbed, CampaignOK
    <3>2. new(x) = x
      BY <1>2, <3>1
    <3> QED
      BY <1>5, <3>1, <3>2 DEF Absorbed
  <2>2. ASSUME NEW z \in Absorbed(d)
        PROVE  z \in Absorbed(c)
    <3>0. z \in d.hist /\ z.outcome = "absorbed"
      BY <2>2 DEF Absorbed
    <3>1. PICK x \in c.hist : z = new(x)
      BY <1>5, <3>0
    <3>2. x \in Transaction
      BY <1>1
    <3>3. new(x).outcome = x.outcome
      BY <1>2, <3>2
    <3>4. x \in Absorbed(c)
      BY <3>0, <3>1, <3>3 DEF Absorbed
    <3>5. ~x.pend
      BY <3>4 DEF CampaignOK
    <3>6. new(x) = x
      BY <1>2, <3>2, <3>5
    <3> QED
      BY <3>1, <3>4, <3>6
  <2> QED
    BY <2>1, <2>2
<1>7. \A z \in d.hist : z.id <= n /\ z.id # 0 /\ z.id # d.active.id
  <2>1. ASSUME NEW z \in d.hist
        PROVE  \E x \in c.hist : z.id = x.id
    BY <1>1, <1>2, <1>5
  <2> QED
    BY <1>5, <2>1 DEF CampaignOK
<1> HIDE DEF d
<1>8. CampaignOK(d, n)
  BY <1>5, <1>6, <1>7 DEF CampaignOK
<1> QED
  BY <1>8 DEF d

-----------------------------------------------------------------------------
(* What the sections change besides.                                        *)

\* A start stamps the generation; it mints a new id or keeps the live campaign and
\* its transaction.
LEMMA StartFields ==
    ASSUME NEW c \in Campaign, NEW o \in Objectives, NEW g \in 0..MaxGen, MayStart(c)
    PROVE  LET d == StartCampaign(c, o, g)
           IN  /\ d.status = "active" /\ d.gen = g
               /\ c.status \in Live => d.id = c.id /\ d.active.id = c.active.id
               /\ c.status \notin Live => d.id # c.id
<1>1. CASE c.status \in Live
  BY <1>1 DEF StartCampaign, Campaign
<1>2. CASE c.status \notin Live
  <2>1. StartCampaign(c, o, g) =
          [NoCampaign EXCEPT !.id = c.id + 1, !.status = "active", !.obj = o, !.gen = g]
    BY <1>2 DEF StartCampaign
  <2>2. c.id \in Nat /\ c.id + 1 # c.id
    BY CampaignFields, BoundsAssumption
  <2> QED
    BY <1>2, <2>1, <2>2, EmptyTypes DEF Campaign
<1> QED
  BY <1>1, <1>2

\* A pause changes the status alone, and never that of a closed campaign.
LEMMA PauseFields ==
    ASSUME NEW c \in Campaign
    PROVE  LET d == PauseCampaign(c)
           IN  /\ d.id = c.id /\ d.gen = c.gen /\ d.active = c.active /\ d.hist = c.hist
               /\ d.status = c.status \/ (c.status \in Live /\ d.status = "paused")
<1>1. CASE c.status \in Live
  <2>1. PauseCampaign(c) = [c EXCEPT !.status = "paused"]
    BY <1>1 DEF PauseCampaign
  <2> QED
    BY <1>1, <2>1 DEF Campaign
<1>2. CASE c.status \notin Live
  <2>1. PauseCampaign(c) = c
    BY <1>2 DEF PauseCampaign
  <2> QED
    BY <2>1
<1> QED
  BY <1>1, <1>2

\* A rescue link leaves the identity, status and history alone.
LEMMA RescueFields ==
    ASSUME NEW c \in Campaign
    PROVE  LET d == LinkRescue(c)
           IN  /\ d.id = c.id /\ d.gen = c.gen /\ d.active.id = c.active.id
               /\ d.hist = c.hist /\ d.status = c.status
  BY DEF LinkRescue, Campaign, Transaction

\* A reaping mark leaves the identity, status and history alone.
LEMMA ReapFields ==
    ASSUME NEW c \in Campaign
    PROVE  LET d == MarkReaping(c)
           IN  /\ d.id = c.id /\ d.gen = c.gen /\ d.active.id = c.active.id
               /\ d.hist = c.hist /\ d.status = c.status
  BY DEF MarkReaping, Campaign, Transaction

\* A receipt leaves the identity, status and history alone.
LEMMA RecordFields ==
    ASSUME NEW c \in Campaign, NEW s
    PROVE  LET d == RecordCommit(c, s)
           IN  /\ d.id = c.id /\ d.gen = c.gen /\ d.active.id = c.active.id
               /\ d.hist = c.hist /\ d.status = c.status
  BY DEF RecordCommit, Campaign, Transaction

\* A stamp changes the generation alone.
LEMMA StampFields ==
    ASSUME NEW c \in Campaign, NEW g
    PROVE  LET d == Stamp(c, g)
           IN  /\ d.id = c.id /\ d.gen = g /\ d.active = c.active
               /\ d.hist = c.hist /\ d.status = c.status
  BY DEF Stamp, Campaign

\* A close ends every minted campaign without a transaction in flight.
LEMMA CompleteFields ==
    ASSUME NEW c \in Campaign
    PROVE  LET d == CompleteCampaign(c)
           IN  /\ d.id = c.id /\ d.gen = c.gen
               /\ c.status = "none" => d = c
               /\ c.status # "none" => d.status = "stopped" /\ d.active.id = 0
               /\ ~HasTx(c) => d.hist = c.hist
<1> DEFINE d == CompleteCampaign(c)
           y == [c.active EXCEPT !.outcome = IF @ = "" THEN "owner_stopped" ELSE @]
           H == IF HasTx(c) THEN Archive(c, y) ELSE c.hist
<1>1. CASE c.status = "none"
  BY <1>1 DEF CompleteCampaign
<1>2. CASE c.status # "none"
  <2>1. d = [c EXCEPT !.hist = H, !.active = NoTx, !.link = 0, !.status = "stopped"]
    BY <1>2 DEF CompleteCampaign
  <2>2. ~HasTx(c) => H = c.hist
    OBVIOUS
  <2> HIDE DEF H, d
  <2>3. d.id = c.id /\ d.gen = c.gen /\ d.status = "stopped" /\ d.active = NoTx /\ d.hist = H
    BY <2>1 DEF Campaign
  <2> QED
    BY <1>2, <2>2, <2>3, NoTxFields DEF d
<1> QED
  BY <1>1, <1>2

\* A begun transaction is the one in flight.
LEMMA BeginFields ==
    ASSUME NEW c \in Campaign, NEW t, NEW h
    PROVE  LET d == BeginTransaction(c, t, h)
           IN  d.id = c.id /\ d.gen = c.gen /\ d.status = c.status /\ d.active.id = t
<1> DEFINE d == BeginTransaction(c, t, h)
           H == IF HasTx(c) THEN Archive(c, [c.active EXCEPT !.outcome = "abandoned"])
                ELSE c.hist
           new == [NoTx EXCEPT !.id = t, !.camp = c.id, !.obj = c.obj, !.base = h]
<1>1. d = [c EXCEPT !.hist = H, !.active = new]
  BY DEF BeginTransaction
<1>2. new.id = t
  BY DEF NoTx
<1> HIDE DEF H, new, d
<1>3. d.id = c.id /\ d.gen = c.gen /\ d.status = c.status /\ d.active = new
  BY <1>1 DEF Campaign
<1> QED
  BY <1>2, <1>3 DEF d

\* A task terminal keeps the transaction in flight or takes it off.
LEMMA AfterTaskFields ==
    ASSUME NEW c \in Campaign
    PROVE  LET d == AfterTask(c)
           IN  /\ d.id = c.id /\ d.gen = c.gen /\ d.status = c.status
               /\ d.active.id \in {0, c.active.id}
<1> DEFINE d == AfterTask(c)
           x == c.active
           wait == [x EXCEPT !.outcome = "waiting_for_restart"]
           close(y) == [c EXCEPT !.hist = Archive(c, y), !.rows = @ \cup {y},
                                 !.active = NoTx, !.link = 0, !.repeats = Bump(c, x)]
<1>1. \/ \E y : d = close(y)
      \/ d = [c EXCEPT !.active = wait, !.rows = @ \cup {wait}]
  BY DEF AfterTask
<1>2. wait.id = x.id
  BY CampaignFields DEF Transaction
<1> HIDE DEF d
<1>3. ASSUME NEW y, d = close(y)
      PROVE  d.id = c.id /\ d.gen = c.gen /\ d.status = c.status /\ d.active.id = 0
  <2> DEFINE H == Archive(c, y)
             B == Bump(c, x)
  <2>1. d = [c EXCEPT !.hist = H, !.rows = @ \cup {y}, !.active = NoTx, !.link = 0,
                      !.repeats = B]
    BY <1>3
  <2> HIDE DEF H, B
  <2>2. d.id = c.id /\ d.gen = c.gen /\ d.status = c.status /\ d.active = NoTx
    BY <2>1 DEF Campaign
  <2> QED
    BY <2>2, NoTxFields
<1>4. ASSUME d = [c EXCEPT !.active = wait, !.rows = @ \cup {wait}]
      PROVE  d.id = c.id /\ d.gen = c.gen /\ d.status = c.status /\ d.active.id = x.id
  <2> HIDE DEF wait
  <2>1. d.id = c.id /\ d.gen = c.gen /\ d.status = c.status /\ d.active = wait
    BY <1>4 DEF Campaign
  <2> QED
    BY <1>2, <2>1
<1> QED
  BY <1>1, <1>3, <1>4 DEF d

\* The cleanup evidence leaves the identity, status and active transaction alone.
LEMMA CleanupFields ==
    ASSUME NEW c \in Campaign, NEW t
    PROVE  LET d == PersistCleanup(c, t)
           IN  d.id = c.id /\ d.gen = c.gen /\ d.status = c.status /\ d.active = c.active
  BY DEF PersistCleanup, Campaign

\* Both branches of a booting worker stamp the generation and take the
\* transaction off.
LEMMA BootFields ==
    ASSUME NEW c \in Campaign, NEW g, NEW d \in {Absorb(c, g), AbandonUnreachable(c, g)}
    PROVE  d.id = c.id /\ d.gen = g /\ d.status = c.status /\ d.active.id = 0
<1>1. CASE d = Absorb(c, g)
  <2> DEFINE H == Archive(c, [c.active EXCEPT !.outcome = "absorbed"])
             R == Clear(c, c.active)
  <2>1. d = [c EXCEPT !.hist = H, !.active = NoTx, !.link = 0, !.gen = g,
                      !.absorbed = @ + 1, !.repeats = R]
    BY <1>1 DEF Absorb
  <2> HIDE DEF H, R
  <2>2. d.id = c.id /\ d.gen = g /\ d.status = c.status /\ d.active = NoTx
    BY <2>1 DEF Campaign
  <2> QED
    BY <2>2, NoTxFields
<1>2. CASE d = AbandonUnreachable(c, g)
  <2> DEFINE H == Archive(c, [c.active EXCEPT !.outcome = "abandoned"])
             R == Bump(c, c.active)
  <2>1. d = [c EXCEPT !.hist = H, !.active = NoTx, !.link = 0, !.gen = g, !.repeats = R]
    BY <1>2 DEF AbandonUnreachable
  <2> HIDE DEF H, R
  <2>2. d.id = c.id /\ d.gen = g /\ d.status = c.status /\ d.active = NoTx
    BY <2>1 DEF Campaign
  <2> QED
    BY <2>2, NoTxFields
<1> QED
  BY <1>1, <1>2
-----------------------------------------------------------------------------
(* What the sections do to the cycle, as the abstract specification sees it.*)

\* The active transaction waits for its restart only with a commit, an empty
\* one has none, and there is one only while the campaign is live.
Pending(id, sha, outcome) ==
    /\ id = 0 => sha = 0
    /\ outcome = "" \/ (outcome = "waiting_for_restart" /\ sha # 0)

ActiveOK(c) ==
    /\ Pending(c.active.id, c.active.sha, c.active.outcome)
    /\ c.status \notin Live => c.active.id = 0

\* the settled cycles of a campaign file
Summary(x) == [id |-> x.id, sha |-> x.sha, outcome |-> x.outcome]
Settled(c) == {Summary(x) : x \in c.hist}

\* d has the cycles of c
SameCycle(c, d) ==
    /\ d.id = c.id /\ (d.status \in Live <=> c.status \in Live)
    /\ d.active.id = c.active.id /\ d.active.sha = c.active.sha
    /\ d.absorbed = c.absorbed /\ Settled(d) = Settled(c)

\* d has the transaction in flight of c in its history, with an outcome
SettlesAs(c, d, outcome) ==
    /\ d.id = c.id /\ HasTx(c)
    /\ d.active.id = 0 /\ d.active.sha = 0
    /\ \E y \in Transaction :
         /\ d.hist = c.hist \cup {y}
         /\ y.id = c.active.id /\ y.sha = c.active.sha /\ y.outcome = outcome
    /\ outcome # "absorbed" => d.absorbed = c.absorbed

\* d is a new campaign without a cycle
Founds(c, d) ==
    /\ c.status \notin Live /\ d.status \in Live
    /\ d.id = c.id + 1 /\ d.hist = {} /\ d.active.id = 0 /\ d.active.sha = 0

\* d has the cycles of c, and the commit s for the one in flight
Commits(c, d, s) ==
    /\ c.status \in Live /\ d.status \in Live /\ HasTx(c) /\ c.active.sha \in {0, s}
    /\ d.id = c.id /\ d.absorbed = c.absorbed /\ d.hist = c.hist
    /\ d.active.id = c.active.id /\ d.active.sha = s

\* d has the fresh cycle t; one of c without a commit is settled as abandoned
Begins(c, d, t) ==
    /\ c.status \in Live /\ d.status \in Live
    /\ d.id = c.id /\ d.absorbed = c.absorbed
    /\ d.active.id = t /\ d.active.sha = 0
    /\ ~HasTx(c) => d.hist = c.hist
    /\ HasTx(c) => /\ ~Committed(c.active)
                   /\ \E y \in Transaction :
                        /\ d.hist = c.hist \cup {y} /\ y.outcome = "abandoned"
                        /\ y.id = c.active.id /\ y.sha = c.active.sha

\* d is c closed
Closes(c, d) ==
    /\ c.status \in Live /\ d.status \notin Live
    /\ \/ /\ ~HasTx(c) /\ d.id = c.id /\ d.hist = c.hist /\ d.absorbed = c.absorbed
          /\ d.active.id = 0 /\ d.active.sha = 0
       \/ SettlesAs(c, d, "owner_stopped")
       \/ Committed(c.active) /\ SettlesAs(c, d, "waiting_for_restart")

\* The empty transaction and the empty campaign have no cycle.
LEMMA EmptyActive ==
    /\ \A a : a = NoTx => a.id = 0 /\ a.sha = 0 /\ Pending(a.id, a.sha, a.outcome)
    /\ ActiveOK(NoCampaign)
<1>1. NoTx.sha = 0 /\ NoTx.id = 0 /\ NoTx.outcome = ""
  BY DEF NoTx
<1>2. Pending(NoTx.id, NoTx.sha, NoTx.outcome)
  BY <1>1, Zenon DEF Pending
<1>3. NoCampaign.active = NoTx
  BY DEF NoCampaign
<1>4. ActiveOK(NoCampaign)
  BY <1>1, <1>2, <1>3, Zenon DEF ActiveOK
<1> QED
  BY <1>1, <1>2, <1>4, Zenon

\* The outcomes that the sections decide.
LEMMA OutcomeNames ==
    {"absorbed", "abandoned", "no_op", "owner_stopped", "waiting_for_restart"} \subseteq Outcomes
  BY Zenon DEF Outcomes

\* What is settled after a settling section.
LEMMA SettlesSummary ==
    ASSUME NEW c, NEW d, NEW o, SettlesAs(c, d, o)
    PROVE  Settled(d) = Settled(c) \cup
             {[id |-> c.active.id, sha |-> c.active.sha, outcome |-> o]}
<1>1. PICK y \in Transaction : /\ d.hist = c.hist \cup {y} /\ y.id = c.active.id
                               /\ y.sha = c.active.sha /\ y.outcome = o
  BY DEF SettlesAs
<1>2. Summary(y) = [id |-> c.active.id, sha |-> c.active.sha, outcome |-> o]
  BY <1>1 DEF Summary
<1>3. Settled(d) = Settled(c) \cup {Summary(y)}
  BY <1>1 DEF Settled
<1> QED
  BY <1>2, <1>3

\* A section that archives a copy of the active transaction settles it.
LEMMA ArchiveSettles ==
    ASSUME NEW c, NEW n, CampaignOK(c, n), HasTx(c), NEW d,
           NEW y \in Transaction, y.id = c.active.id, y.sha = c.active.sha,
           d.id = c.id, d.active = NoTx, d.hist = Archive(c, y),
           y.outcome # "absorbed" => d.absorbed = c.absorbed
    PROVE  SettlesAs(c, d, y.outcome)
<1>1. \A x \in c.hist : x.id # y.id
  BY DEF CampaignOK
<1>2. d.hist = c.hist \cup {y}
  BY <1>1 DEF Archive
<1>3. d.active.id = 0 /\ d.active.sha = 0
  BY EmptyActive, Zenon
<1> QED
  BY <1>2, <1>3 DEF SettlesAs

\* A section that leaves history, identity and commit alone keeps the cycle.
LEMMA KeepsCycle ==
    ASSUME NEW c, NEW d, d.id = c.id, d.status \in Live <=> c.status \in Live,
           d.active.id = c.active.id, d.active.sha = c.active.sha,
           d.active.outcome = c.active.outcome, d.absorbed = c.absorbed,
           d.hist = c.hist, ActiveOK(c)
    PROVE  SameCycle(c, d) /\ ActiveOK(d)
<1>1. SameCycle(c, d)
  BY DEF SameCycle, Settled
<1>2. ActiveOK(d)
  BY Zenon DEF ActiveOK
<1> QED
  BY <1>1, <1>2

\* The sections that only mark the record.
LEMMA MarksKeepCycle ==
    ASSUME NEW c \in Campaign, ActiveOK(c), NEW g, NEW r,
           NEW d \in {Stamp(c, g), LinkRescue(c), MarkReaping(c), [c EXCEPT !.link = r]}
    PROVE  SameCycle(c, d) /\ ActiveOK(d) /\ d.status = c.status
<1>1. /\ d.id = c.id /\ d.status = c.status /\ d.absorbed = c.absorbed /\ d.hist = c.hist
      /\ d.active.id = c.active.id /\ d.active.sha = c.active.sha
      /\ d.active.outcome = c.active.outcome
  BY DEF Stamp, LinkRescue, MarkReaping, Campaign, Transaction
<1> QED
  BY <1>1, KeepsCycle

\* A pause of the campaign, over a rescue snapshot or not.
LEMMA PauseKeepsCycle ==
    ASSUME NEW c \in Campaign, ActiveOK(c),
           NEW d \in {PauseCampaign(c), PauseCampaign(LinkRescue(c))}
    PROVE  SameCycle(c, d) /\ ActiveOK(d)
<1>1. ASSUME NEW e \in Campaign, ActiveOK(e)
      PROVE  SameCycle(e, PauseCampaign(e)) /\ ActiveOK(PauseCampaign(e))
  <2> DEFINE p == PauseCampaign(e)
  <2>1. /\ p.id = e.id /\ p.absorbed = e.absorbed /\ p.hist = e.hist
        /\ p.active = e.active /\ (p.status \in Live <=> e.status \in Live)
    BY <1>1 DEF PauseCampaign, Campaign, Live
  <2> HIDE DEF p
  <2>2. SameCycle(e, p) /\ ActiveOK(p)
    BY <1>1, <2>1, KeepsCycle
  <2> QED
    BY <2>2 DEF p
<1>2. LinkRescue(c) \in Campaign
  BY DEF LinkRescue, Campaign, Transaction
<1>3. SameCycle(c, LinkRescue(c)) /\ ActiveOK(LinkRescue(c))
  BY MarksKeepCycle
<1> QED
  BY <1>1, <1>2, <1>3 DEF SameCycle

\* The cleanup evidence of a cycle is no part of its summary.
LEMMA CleanupKeepsCycle ==
    ASSUME NEW c \in Campaign, ActiveOK(c), NEW t
    PROVE  SameCycle(c, PersistCleanup(c, t)) /\ ActiveOK(PersistCleanup(c, t))
<1> DEFINE d == PersistCleanup(c, t)
           new(x) == IF x.id = t THEN [x EXCEPT !.pend = FALSE] ELSE x
<1>1. /\ d.id = c.id /\ d.status = c.status /\ d.absorbed = c.absorbed
      /\ d.active = c.active /\ d.hist = {new(x) : x \in c.hist}
  BY DEF PersistCleanup, Campaign
<1>2. \A x \in c.hist : Summary(new(x)) = Summary(x)
  BY CampaignFields DEF Summary, Transaction
<1> HIDE DEF d, new
<1>3. Settled(d) = Settled(c)
  BY <1>1, <1>2 DEF Settled
<1>4. SameCycle(c, d) /\ ActiveOK(d)
  BY <1>1, <1>3, Zenon DEF SameCycle, ActiveOK
<1> QED
  BY <1>4 DEF d

\* A receipt gives the cycle its commit and changes nothing else of it.
LEMMA RecordsCommit ==
    ASSUME NEW c \in Campaign, ActiveOK(c), HasTx(c), c.status \in Live,
           NEW s \in Shas, c.active.sha \in {0, s}
    PROVE  Commits(c, RecordCommit(c, s), s) /\ ActiveOK(RecordCommit(c, s))
<1> DEFINE d == RecordCommit(c, s)
<1>1. /\ d.id = c.id /\ d.status = c.status /\ d.absorbed = c.absorbed
      /\ d.hist = c.hist /\ d.active.id = c.active.id /\ d.active.sha = s
      /\ d.active.outcome = c.active.outcome
  BY DEF RecordCommit, Campaign, Transaction
<1>2. s # 0
  BY DEF Shas
<1> HIDE DEF d
<1>3. ActiveOK(d)
  <2>1. ASSUME NEW i, NEW o, Pending(i, c.active.sha, o), i # 0
        PROVE  Pending(i, s, o)
    BY <1>2, <2>1, Zenon DEF Pending
  <2> QED
    BY <1>1, <2>1, Zenon DEF ActiveOK, HasTx
<1> QED
  BY <1>1, <1>3, Zenon DEF d, Commits

\* A start founds a campaign without cycles, or resumes the live one.
LEMMA StartsCampaign ==
    ASSUME NEW c \in Campaign, ActiveOK(c), NEW o, NEW g
    PROVE  LET d == StartCampaign(c, o, g)
           IN  ActiveOK(d) /\ (SameCycle(c, d) \/ Founds(c, d))
<1> DEFINE d == StartCampaign(c, o, g)
<1>1. CASE c.status \in Live
  <2>1. /\ d.id = c.id /\ d.status \in Live /\ d.absorbed = c.absorbed
        /\ d.hist = c.hist /\ d.active = c.active
    BY <1>1 DEF StartCampaign, Campaign, Live
  <2> HIDE DEF d
  <2>2. SameCycle(c, d) /\ ActiveOK(d)
    BY <1>1, <2>1, KeepsCycle
  <2> QED
    BY <1>1, <2>2 DEF d
<1>2. CASE c.status \notin Live
  <2>1. d = [NoCampaign EXCEPT !.id = c.id + 1, !.status = "active", !.obj = o, !.gen = g]
    BY <1>2 DEF StartCampaign
  <2>2. d.id = c.id + 1 /\ d.status \in Live /\ d.hist = {} /\ d.active = NoTx
    BY <2>1 DEF NoCampaign, Live
  <2> HIDE DEF d
  <2>3. ActiveOK(d) /\ d.active.id = 0 /\ d.active.sha = 0
    BY <2>2, EmptyActive, Zenon DEF ActiveOK
  <2> QED
    BY <1>2, <2>2, <2>3 DEF d, Founds
<1> QED
  BY <1>1, <1>2

\* A close settles the transaction in flight as stopped by the owner, or as
\* waiting when it has its commit, or closes a campaign that has none.
LEMMA ClosesCampaign ==
    ASSUME NEW c, NEW n, CampaignOK(c, n), ActiveOK(c)
    PROVE  LET d == CompleteCampaign(c)
           IN  ActiveOK(d) /\ (SameCycle(c, d) \/ Closes(c, d))
<1> DEFINE d == CompleteCampaign(c)
           o == IF c.active.outcome = "" THEN "owner_stopped" ELSE c.active.outcome
           y == [c.active EXCEPT !.outcome = o]
<1>1. c \in Campaign
  BY DEF CampaignOK
<1>2. c.active \in Transaction
  BY <1>1, CampaignFields
<1>3. /\ o = "owner_stopped" \/ (o = "waiting_for_restart" /\ Committed(c.active))
      /\ o # "absorbed"
  BY Zenon DEF ActiveOK, Pending, Committed
<1>4. o \in Outcomes
  BY <1>3, Zenon DEF Outcomes
<1> HIDE DEF o
<1>5. y \in Transaction /\ y.id = c.active.id /\ y.sha = c.active.sha /\ y.outcome = o
  BY <1>2, <1>4 DEF Transaction
<1>6. CASE c.status = "none"
  <2>1. d = c
    BY <1>6 DEF CompleteCampaign
  <2>2. c.status \notin Live
    BY <1>6 DEF Live
  <2> QED
    BY <2>1, <2>2, Zenon DEF SameCycle
<1>7. CASE c.status # "none"
  <2>1. d = [c EXCEPT !.hist = IF HasTx(c) THEN Archive(c, y) ELSE @,
                      !.active = NoTx, !.link = 0, !.status = "stopped"]
    BY <1>7, Zenon DEF CompleteCampaign, o
  <2> HIDE DEF y
  <2>2. /\ d.id = c.id /\ d.status = "stopped" /\ d.absorbed = c.absorbed
        /\ d.active = NoTx /\ d.hist = (IF HasTx(c) THEN Archive(c, y) ELSE c.hist)
    BY <1>1, <2>1 DEF Campaign
  <2>3. d.status \notin Live
    BY <2>2 DEF Live
  <2> HIDE DEF d
  <2>4. d.active.id = 0 /\ d.active.sha = 0 /\ ActiveOK(d)
    BY <2>2, EmptyActive, Zenon DEF ActiveOK
  <2>5. ~HasTx(c) => SameCycle(c, d) \/ c.status \in Live
    <3>1. c.active.id = 0 => c.active.sha = 0
      BY Zenon DEF ActiveOK, Pending
    <3> QED
      BY <2>2, <2>3, <2>4, <3>1, Zenon DEF SameCycle, Settled, HasTx
  <2>6. HasTx(c) => SettlesAs(c, d, o)
    BY <1>5, <2>2, ArchiveSettles
  <2>7. c.status \notin Live => ~HasTx(c)
    BY Zenon DEF ActiveOK, HasTx
  <2>8. /\ ActiveOK(d) /\ d.status \notin Live
        /\ c.status \notin Live => SameCycle(c, d)
        /\ c.status \in Live => Closes(c, d)
    BY <1>3, <2>2, <2>3, <2>4, <2>5, <2>6, <2>7, Zenon DEF Closes
  <2> QED
    BY <2>8 DEF d
<1> QED
  BY <1>6, <1>7

\* A begin makes t the active transaction, without a commit; one that was
\* never dispatched is settled as abandoned.
LEMMA BeginsTransaction ==
    ASSUME NEW c, NEW n, CampaignOK(c, n), ActiveOK(c), NEW t, t # 0, NEW h,
           ~WaitingTx(c), c.status \in Live
    PROVE  Begins(c, BeginTransaction(c, t, h), t) /\ ActiveOK(BeginTransaction(c, t, h))
<1> DEFINE d == BeginTransaction(c, t, h)
           y == [c.active EXCEPT !.outcome = "abandoned"]
           x == [NoTx EXCEPT !.id = t, !.camp = c.id, !.obj = c.obj, !.base = h]
<1>1. c \in Campaign
  BY DEF CampaignOK
<1>2. c.active \in Transaction
  BY <1>1, CampaignFields
<1>3. /\ y \in Transaction /\ y.id = c.active.id /\ y.sha = c.active.sha
      /\ y.outcome = "abandoned"
  BY <1>2, OutcomeNames DEF Transaction
<1>4. x.id = t /\ x.sha = 0 /\ x.outcome = NoTx.outcome
  BY DEF NoTx
<1>5. d = [c EXCEPT !.hist = IF HasTx(c) THEN Archive(c, y) ELSE @, !.active = x]
  BY DEF BeginTransaction
<1> HIDE DEF x, y
<1>6. /\ d.id = c.id /\ d.status = c.status /\ d.absorbed = c.absorbed
      /\ d.active = x /\ d.hist = (IF HasTx(c) THEN Archive(c, y) ELSE c.hist)
  BY <1>1, <1>5 DEF Campaign
<1> HIDE DEF d
<1>7. Pending(t, 0, NoTx.outcome)
  BY NoTxFields, Zenon DEF Pending
<1>8. ActiveOK(d)
  BY <1>4, <1>6, <1>7, Zenon DEF ActiveOK
<1>9. HasTx(c) => d.hist = c.hist \cup {y}
  <2>1. \A z \in c.hist : z.id # y.id
    BY <1>3 DEF CampaignOK
  <2> QED
    BY <1>6, <2>1 DEF Archive
<1>10. HasTx(c) => ~Committed(c.active)
  BY DEF WaitingTx
<1>11. d.active.id = t /\ d.active.sha = 0
  BY <1>4, <1>6
<1>12. ~HasTx(c) => d.hist = c.hist
  BY <1>6
<1>13. /\ d.id = c.id /\ d.status = c.status /\ d.absorbed = c.absorbed
  BY <1>6
<1>14. HasTx(c) => \E z \in Transaction :
                     /\ d.hist = c.hist \cup {z} /\ z.outcome = "abandoned"
                     /\ z.id = c.active.id /\ z.sha = c.active.sha
  BY <1>3, <1>9
<1> QED
  BY <1>8, <1>10, <1>11, <1>12, <1>13, <1>14, Zenon DEF d, Begins

\* The terminal of a cycle settles it without a commit as a no-op, and as
\* abandoned when it went to a rescue snapshot; with a commit it waits.
LEMMA TerminalOfCycle ==
    ASSUME NEW c, NEW n, CampaignOK(c, n), ActiveOK(c), HasTx(c)
    PROVE  LET d == AfterTask(c)
           IN  /\ d.id = c.id /\ d.status = c.status /\ ActiveOK(d)
               /\ \/ c.active.rescue /\ SettlesAs(c, d, "abandoned")
                  \/ ~Committed(c.active) /\ SettlesAs(c, d, "no_op")
                  \/ Committed(c.active) /\ SameCycle(c, d)
<1> DEFINE d == AfterTask(c)
           ended(o) == [c.active EXCEPT !.outcome = o, !.pend = TRUE]
           wait == [c.active EXCEPT !.outcome = "waiting_for_restart"]
           close(y) == [c EXCEPT !.hist = Archive(c, y), !.rows = @ \cup {y},
                                 !.active = NoTx, !.link = 0,
                                 !.repeats = Bump(c, c.active)]
<1>1. c \in Campaign
  BY DEF CampaignOK
<1>2. c.active \in Transaction
  BY <1>1, CampaignFields
<1>3. ASSUME NEW o \in {"abandoned", "no_op"}, d = close(ended(o))
      PROVE  /\ SettlesAs(c, d, o) /\ d.id = c.id /\ d.status = c.status /\ ActiveOK(d)
  <2> DEFINE y == ended(o)
             R == Bump(c, c.active)
  <2>1. y \in Transaction /\ y.id = c.active.id /\ y.sha = c.active.sha /\ y.outcome = o
    BY <1>2, OutcomeNames DEF Transaction
  <2>2. d = [c EXCEPT !.hist = Archive(c, y), !.rows = @ \cup {y},
                      !.active = NoTx, !.link = 0, !.repeats = R]
    BY <1>3
  <2> HIDE DEF y, R, d
  <2>3. /\ d.id = c.id /\ d.status = c.status /\ d.absorbed = c.absorbed
        /\ d.active = NoTx /\ d.hist = Archive(c, y)
    BY <1>1, <2>2 DEF Campaign
  <2>4. SettlesAs(c, d, y.outcome)
    BY <2>1, <2>3, ArchiveSettles
  <2>5. ActiveOK(d)
    BY <2>3, EmptyActive, Zenon DEF ActiveOK
  <2> QED
    BY <2>1, <2>3, <2>4, <2>5
<1>4. CASE c.active.rescue
  <2>1. d = close(ended("abandoned"))
    BY <1>4, Zenon DEF AfterTask
  <2> HIDE DEF close, ended, d
  <2>2. SettlesAs(c, d, "abandoned") /\ d.id = c.id /\ d.status = c.status /\ ActiveOK(d)
    BY <1>3, <2>1
  <2> QED
    BY <1>4, <2>2 DEF d
<1>5. CASE ~c.active.rescue /\ ~Committed(c.active)
  <2>1. d = close(ended("no_op"))
    BY <1>5, Zenon DEF AfterTask
  <2> HIDE DEF close, ended, d
  <2>2. SettlesAs(c, d, "no_op") /\ d.id = c.id /\ d.status = c.status /\ ActiveOK(d)
    BY <1>3, <2>1
  <2> QED
    BY <1>5, <2>2 DEF d
<1>6. CASE ~c.active.rescue /\ Committed(c.active)
  <2>1. d = [c EXCEPT !.active = wait, !.rows = @ \cup {wait}]
    BY <1>6 DEF AfterTask
  <2>2. wait.id = c.active.id /\ wait.sha = c.active.sha /\ wait.outcome = "waiting_for_restart"
    BY <1>2 DEF Transaction
  <2> HIDE DEF wait
  <2>3. /\ d.id = c.id /\ d.status = c.status /\ d.absorbed = c.absorbed
        /\ d.active = wait /\ d.hist = c.hist
    BY <1>1, <2>1 DEF Campaign
  <2> HIDE DEF d
  <2>4. SameCycle(c, d)
    BY <2>2, <2>3 DEF SameCycle, Settled
  <2>5. ActiveOK(d)
    BY <1>6, <2>2, <2>3, Zenon DEF ActiveOK, Pending, Committed
  <2> QED
    BY <1>6, <2>3, <2>4, <2>5 DEF d
<1> QED
  BY <1>4, <1>5, <1>6

\* A boot that finds the commit absorbs it, one that does not abandons it.
LEMMA BootSettles ==
    ASSUME NEW c, NEW n, CampaignOK(c, n), HasTx(c), NEW g,
           NEW d, NEW o, \/ (d = Absorb(c, g) /\ o = "absorbed")
                        \/ (d = AbandonUnreachable(c, g) /\ o = "abandoned")
    PROVE  SettlesAs(c, d, o) /\ d.status = c.status /\ ActiveOK(d)
<1> DEFINE y == [c.active EXCEPT !.outcome = o]
<1>1. c \in Campaign
  BY DEF CampaignOK
<1>2. c.active \in Transaction
  BY <1>1, CampaignFields
<1>3. y \in Transaction /\ y.id = c.active.id /\ y.sha = c.active.sha /\ y.outcome = o
  BY <1>2, OutcomeNames DEF Transaction
<1>4. /\ d.id = c.id /\ d.status = c.status /\ d.active = NoTx /\ d.hist = Archive(c, y)
      /\ o # "absorbed" => d.absorbed = c.absorbed
  <2> DEFINE B == Bump(c, c.active)
             R == Clear(c, c.active)
             H == Archive(c, y)
  <2>1. CASE d = Absorb(c, g) /\ o = "absorbed"
    <3>1. d = [c EXCEPT !.hist = H, !.active = NoTx, !.link = 0, !.gen = g,
                        !.absorbed = @ + 1, !.repeats = R]
      BY <2>1 DEF Absorb
    <3> HIDE DEF H, R
    <3>2. d.id = c.id /\ d.status = c.status /\ d.active = NoTx /\ d.hist = H
      BY <1>1, <3>1 DEF Campaign
    <3> QED
      BY <2>1, <3>2 DEF H
  <2>2. CASE d = AbandonUnreachable(c, g) /\ o = "abandoned"
    <3>1. d = [c EXCEPT !.hist = H, !.active = NoTx, !.link = 0, !.gen = g, !.repeats = B]
      BY <2>2 DEF AbandonUnreachable
    <3> HIDE DEF H, B
    <3>2. /\ d.id = c.id /\ d.status = c.status /\ d.active = NoTx /\ d.hist = H
          /\ d.absorbed = c.absorbed
      BY <1>1, <3>1 DEF Campaign
    <3> QED
      BY <2>2, <3>2 DEF H
  <2> QED
    BY <2>1, <2>2
<1> HIDE DEF y
<1>5. SettlesAs(c, d, y.outcome)
  BY <1>3, <1>4, ArchiveSettles
<1>6. ActiveOK(d)
  BY <1>4, EmptyActive, Zenon DEF ActiveOK
<1> QED
  BY <1>3, <1>4, <1>5, <1>6

---------------------------------------------------------------------------
(* The system around the file.                                              *)

\* phases in which a worker holds the commit it made
Committing == {"made", "tagged", "recorded", "cleared", "pushed"}

WorkersOK ==
    \A w \in Workers : /\ wk[w].ph \in Working => wk[w].tx \in TxIds
                       /\ wk[w].ph \in Committing => wk[w].sha \in Shas

\* the supervisor is in the middle of nothing when the server is down, and it
\* applies a promotion under that promotion's objective
SupervisorOK ==
    /\ sup.pc \in {"minting", "link", "write"} => sup.arg \in Reqs
    /\ server = "down" => sup.pc = "loop"

SystemOK == SystemTypes /\ WorkersOK /\ SupervisorOK

\* The worker slots of the model have their type.
LEMMA SlotTypes ==
    /\ NoMarker \in Markers /\ 0 \in 0..MaxReq
    /\ Idle \in WorkerSlot /\ Dead \in WorkerSlot /\ Booting \in WorkerSlot
    /\ Idle.ph = "idle" /\ Dead.ph = "dead" /\ Booting.ph = "boot"
<1>1. NoMarker \in Markers /\ 0 \in 0..MaxReq
  BY BoundsAssumption DEF NoMarker, Markers
<1>2. Idle \in WorkerSlot
  BY <1>1, BoundsAssumption DEF Idle, WorkerSlot, Phases
<1> QED
  BY <1>1, <1>2 DEF WorkerSlot, Phases, Dead, Booting, Idle

\* Only a linked backlog item is closed.
LEMMA CloseLinkedType ==
    ASSUME camp \in Campaign, closed \subseteq Reqs, CloseLinked
    PROVE  closed' \subseteq Reqs
<1>1. camp.link \in 0..MaxReq
  BY CampaignFields
<1> DEFINE L == IF camp.link = 0 THEN {} ELSE {camp.link}
<1>2. L \subseteq Reqs
  BY <1>1, BoundsAssumption DEF Reqs
<1>3. closed' = closed \cup L
  BY DEF CloseLinked
<1> HIDE DEF L
<1> QED
  BY <1>2, <1>3

\* The steps of a worker.
LEMMA WorkerSystemOK ==
    ASSUME SystemOK, camp \in Campaign, NEW w \in Workers, Worker(w)
    PROVE  SystemOK'
<1> USE SlotTypes, CampaignFields, BoundsAssumption DEF SystemOK
<1>0. /\ wk \in [Workers -> WorkerSlot] /\ marker \in Markers /\ stale \subseteq Markers
      /\ head \subseteq Shas /\ pushed \subseteq Shas /\ closed \subseteq Reqs
      /\ gen \in 1..MaxGen /\ evq \subseteq Events /\ cnt \in Counters
      /\ made \in [Shas -> Origins]
      /\ WorkersOK
  BY DEF SystemTypes
<1>1. CASE BootObserve(w)
  <2> USE <1>1 DEF BootObserve, files, repo
  <2>1. wk' \in [Workers -> WorkerSlot]
    BY <1>0 DEF WorkerSlot, Phases
  <2>2. SystemTypes'
    BY <2>1 DEF SystemTypes
  <2>3. WorkersOK'
    BY <1>0 DEF WorkersOK, Working, Committing, WorkerSlot
  <2>4. SupervisorOK'
    BY DEF SupervisorOK
  <2> QED
    BY <2>2, <2>3, <2>4
<1>2. CASE VerifyRename(w)
  <2> USE <1>2 DEF VerifyRename, repo
  <2>1. wk' \in [Workers -> WorkerSlot]
    BY <1>0, ZenonT(40) DEF WorkerSlot, Phases
  <2>2. marker' \in Markers
    BY <1>0
  <2>3. SystemTypes'
    BY <2>1, <2>2 DEF SystemTypes
  <2>4. WorkersOK'
    BY <1>0 DEF WorkersOK, Working, Committing, WorkerSlot
  <2>5. SupervisorOK'
    BY DEF SupervisorOK
  <2> QED
    BY <2>3, <2>4, <2>5
<1>3. CASE VerifyMiss(w)
  <2> USE <1>3 DEF VerifyMiss, repo
  <2>1. wk' \in [Workers -> WorkerSlot]
    BY <1>0 DEF WorkerSlot, Phases
  <2>2. stale' \subseteq Markers
    BY <1>0
  <2>3. SystemTypes'
    BY <2>1, <2>2 DEF SystemTypes
  <2>4. WorkersOK'
    BY <1>0 DEF WorkersOK, Working, Committing, WorkerSlot
  <2>5. SupervisorOK'
    BY DEF SupervisorOK
  <2> QED
    BY <2>3, <2>4, <2>5
<1>4. CASE MarkRestart(w)
  <2> USE <1>4 DEF MarkRestart, repo
  <2>1. wk' \in [Workers -> WorkerSlot]
    BY <1>0 DEF WorkerSlot, Phases, Unlink, Restore
  <2>2. marker' \in Markers
    BY <1>0 DEF Unlink, Restore, WorkerSlot
  <2>3. closed' \subseteq Reqs
    BY <1>0, CloseLinkedType
  <2>4. SystemTypes'
    BY <2>1, <2>2, <2>3 DEF SystemTypes, Unlink, Restore
  <2>5. WorkersOK'
    BY <1>0 DEF WorkersOK, Working, Committing, WorkerSlot, Unlink, Restore
  <2>6. SupervisorOK'
    BY DEF SupervisorOK
  <2> QED
    BY <2>4, <2>5, <2>6
<1>5. CASE Reconcile(w)
  <2> USE <1>5 DEF Reconcile, repo
  <2>1. wk' \in [Workers -> WorkerSlot]
    BY <1>0 DEF WorkerSlot, Phases
  <2>2. closed' \subseteq Reqs
    BY <1>0, CloseLinkedType
  <2>3. SystemTypes'
    BY <2>1, <2>2 DEF SystemTypes
  <2>4. WorkersOK'
    BY <1>0 DEF WorkersOK, Working, Committing, WorkerSlot
  <2>5. SupervisorOK'
    BY DEF SupervisorOK
  <2> QED
    BY <2>3, <2>4, <2>5
<1>6. CASE Authorize(w)
  <2> USE <1>6 DEF Authorize, repo, UnchangedInWorker
  <2>1. wk' \in [Workers -> WorkerSlot]
    BY <1>0 DEF WorkerSlot, Phases
  <2>2. SystemTypes'
    BY <2>1 DEF SystemTypes
  <2>3. WorkersOK'
    BY <1>0 DEF WorkersOK, Working, Committing, WorkerSlot
  <2>4. SupervisorOK'
    BY DEF SupervisorOK
  <2> QED
    BY <2>2, <2>3, <2>4
<1>7. CASE MakeCommit(w)
  <2> USE <1>7 DEF MakeCommit, UnchangedInWorker
  <2> DEFINE s == cnt.sha + 1
             m == [gen |-> gen, tx |-> wk[w].tx, camp |-> camp.id]
  <2>1. s \in 0..MaxSha /\ s \in Shas
    BY <1>0, SMTT(30) DEF Counters, Shas
  <2>2. m \in Origins
    BY <1>0 DEF WorkerSlot, Origins
  <2>3. /\ wk[w].ph = "ready" /\ wk' = [wk EXCEPT ![w].ph = "made", ![w].sha = s]
        /\ head' = head \cup {s} /\ made' = [made EXCEPT ![s] = m]
    OBVIOUS
  <2>4. cnt' \in Counters
    BY <1>0 DEF Counters, Tick
  <2> HIDE DEF s, m, MakeCommit
  <2>5. wk' \in [Workers -> WorkerSlot]
    BY <1>0, <2>1, <2>3, ZenonT(40) DEF WorkerSlot, Phases
  <2>6. made' \in [Shas -> Origins]
    BY <1>0, <2>1, <2>2, <2>3
  <2>7. SystemTypes'
    BY <2>1, <2>3, <2>4, <2>5, <2>6 DEF SystemTypes, MakeCommit
  <2>8. WorkersOK'
    BY <1>0, <2>1, <2>3 DEF WorkersOK, Working, Committing, WorkerSlot
  <2>9. SupervisorOK'
    BY DEF SupervisorOK, MakeCommit
  <2> QED
    BY <2>7, <2>8, <2>9
<1>8. CASE PreTag(w)
  <2> USE <1>8 DEF PreTag, repo, UnchangedInWorker
  <2>1. wk' \in [Workers -> WorkerSlot]
    BY <1>0 DEF WorkerSlot, Phases, Orphan
  <2>2. head' \subseteq Shas
    BY <1>0 DEF Orphan
  <2>3. SystemTypes'
    BY <2>1, <2>2 DEF SystemTypes, Orphan
  <2>4. WorkersOK'
    BY <1>0 DEF WorkersOK, Working, Committing, WorkerSlot, Orphan
  <2>5. SupervisorOK'
    BY DEF SupervisorOK
  <2> QED
    BY <2>3, <2>4, <2>5
<1>9. CASE RecordReceipt(w)
  <2> USE <1>9 DEF RecordReceipt, repo, UnchangedInWorker
  <2>1. wk' \in [Workers -> WorkerSlot]
    BY <1>0 DEF WorkerSlot, Phases, Orphan
  <2>2. head' \subseteq Shas
    BY <1>0 DEF Orphan
  <2>3. SystemTypes'
    BY <2>1, <2>2 DEF SystemTypes, Orphan
  <2>4. WorkersOK'
    BY <1>0 DEF WorkersOK, Working, Committing, WorkerSlot, Orphan
  <2>5. SupervisorOK'
    BY DEF SupervisorOK
  <2> QED
    BY <2>3, <2>4, <2>5
<1>10. CASE CheckPublication(w)
  <2> USE <1>10 DEF CheckPublication, repo, UnchangedInWorker
  <2>1. wk' \in [Workers -> WorkerSlot]
    BY <1>0 DEF WorkerSlot, Phases, Orphan
  <2>2. head' \subseteq Shas
    BY <1>0 DEF Orphan
  <2>3. SystemTypes'
    BY <2>1, <2>2 DEF SystemTypes, Orphan
  <2>4. WorkersOK'
    BY <1>0 DEF WorkersOK, Working, Committing, WorkerSlot, Orphan
  <2>5. SupervisorOK'
    BY DEF SupervisorOK
  <2> QED
    BY <2>3, <2>4, <2>5
<1>11. CASE Push(w)
  <2> USE <1>11 DEF Push, UnchangedInWorker
  <2>1. wk' \in [Workers -> WorkerSlot]
    BY <1>0 DEF WorkerSlot, Phases
  <2>2. pushed' \subseteq Shas
    BY <1>0 DEF WorkersOK, Committing
  <2>3. SystemTypes'
    BY <2>1, <2>2 DEF SystemTypes
  <2>4. WorkersOK'
    BY <1>0 DEF WorkersOK, Working, Committing, WorkerSlot
  <2>5. SupervisorOK'
    BY DEF SupervisorOK
  <2> QED
    BY <2>3, <2>4, <2>5
<1>12. CASE RequestRestart(w)
  <2> USE <1>12 DEF RequestRestart, repo, UnchangedInWorker
  <2>1. wk' \in [Workers -> WorkerSlot]
    BY <1>0, ZenonT(40) DEF WorkerSlot, Phases
  <2>2. marker' \in Markers
    BY <1>0 DEF Markers, WorkerSlot
  <2>3. SystemTypes'
    BY <2>1, <2>2 DEF SystemTypes
  <2>4. WorkersOK'
    BY <1>0 DEF WorkersOK, Working, Committing, WorkerSlot
  <2>5. SupervisorOK'
    BY DEF SupervisorOK
  <2> QED
    BY <2>3, <2>4, <2>5
<1>13. CASE FinishTask(w)
  <2> USE <1>13 DEF FinishTask, repo, UnchangedInWorker
  <2>1. wk' \in [Workers -> WorkerSlot]
    BY <1>0 DEF WorkerSlot, Phases
  <2>2. evq' \subseteq Events
    BY <1>0 DEF Events, WorkersOK, Working
  <2>3. SystemTypes'
    BY <2>1, <2>2 DEF SystemTypes
  <2>4. WorkersOK'
    BY <1>0 DEF WorkersOK, Working, Committing, WorkerSlot
  <2>5. SupervisorOK'
    BY DEF SupervisorOK
  <2> QED
    BY <2>3, <2>4, <2>5
<1> QED
  BY <1>1, <1>2, <1>3, <1>4, <1>5, <1>6, <1>7, <1>8, <1>9, <1>10, <1>11, <1>12, <1>13 DEF Worker

\* Values that the steps below are made of.
LEMMA SupervisorTypes ==
    /\ Off \in State /\ AtLoop \in SupervisorSlot /\ AtLoop.pc = "loop"
    /\ NoOld \in [set: BOOLEAN, st: State]
<1>1. Off \in State
  BY DEF Off, State
<1>2. "loop" \in SupPcs /\ 0 \in Nat /\ FALSE \in BOOLEAN
  BY DEF SupPcs
<1> QED
  BY <1>1, <1>2 DEF AtLoop, SupervisorSlot, NoOld

\* A move of the supervisor keeps the type of its slot.
LEMMA GotoType ==
    ASSUME NEW pc \in SupPcs, NEW arg \in Nat, NEW ok \in BOOLEAN, Goto(pc, arg, ok)
    PROVE  sup' \in SupervisorSlot /\ sup'.pc = pc /\ sup'.arg = arg
  BY SupervisorTypes DEF Goto, SupervisorSlot

\* Every write of the evolution keys of state.json keeps their types.
LEMMA FlagTypes ==
    ASSUME st \in State
    PROVE  /\ \A on \in BOOLEAN : Flags(on) \in State
           /\ \A failed \in BOOLEAN : Settle(failed) \in State
           /\ Disable(st) \in State
<1>1. \A on \in BOOLEAN : Flags(on) \in State
  BY DEF Flags, State
<1>2. ASSUME NEW failed \in BOOLEAN
      PROVE  Settle(failed) \in State
  <2> DEFINE n == IF failed THEN IF st.fails < FailCap THEN st.fails + 1 ELSE st.fails ELSE 0
             e == st.enabled /\ ~st.autostop
  <2>1. n \in Nat /\ e \in BOOLEAN
    BY BudgetsAssumption DEF State
  <2>2. Settle(failed) = [st EXCEPT !.fails = n, !.enabled = e, !.autostop = FALSE]
    BY DEF Settle, State
  <2> HIDE DEF n, e
  <2> QED
    BY <2>1, <2>2 DEF State
<1>3. Disable(st) \in State
  BY DEF Disable, State
<1> QED
  BY <1>1, <1>2, <1>3

\* A counter that is ticked below its bound stays within it.
LEMMA TickType ==
    ASSUME cnt \in Counters,
           NEW f \in {"tx", "sha", "req", "owner", "panic", "crash", "reap", "other", "stale"},
           Tick(f),
           NEW b \in Nat, cnt[f] < b,
           f = "tx" => b = MaxTx, f = "sha" => b = MaxSha, f = "req" => b = MaxReq,
           f = "owner" => b = Owner, f = "panic" => b = Panics, f = "crash" => b = Crashes,
           f = "reap" => b = Reaps, f = "other" => b = Others, f = "stale" => b = Stales
    PROVE  cnt' \in Counters
  BY DEF Tick, Counters

\* A claimed marker file holds a marker.
LEMMA ClaimTypes ==
    ASSUME wk \in [Workers -> WorkerSlot], NEW W \in SUBSET Workers
    PROVE  Claims(W) \subseteq Markers
  BY DEF Claims, WorkerSlot

\* The worktree cleanup leaves a set of commits.
LEMMA CleanType ==
    ASSUME head \subseteq Shas, NEW x \in Transaction, Clean(x)
    PROVE  head' \subseteq Shas
<1>1. x.base \in SUBSET Shas
  BY TransactionFields
<1> QED
  BY <1>1 DEF Clean

\* Closing a campaign leaves a set of commits.
LEMMA CloseType ==
    ASSUME head \subseteq Shas, camp \in Campaign, Close
    PROVE  head' \subseteq Shas
<1>1. camp.active \in Transaction /\ Clean(camp.active)
  BY CampaignFields DEF Close
<1> QED
  BY <1>1, CleanType

\* The row of a cycle is a transaction of that cycle.
LEMMA RowType ==
    ASSUME camp \in Campaign, NEW t, HasRow(t)
    PROVE  Row(t) \in Transaction /\ Row(t).id = t /\ Row(t) \in camp.rows
<1>1. camp.rows \subseteq Transaction
  BY CampaignFields
<1> QED
  BY <1>1 DEF HasRow, Row

\* Deciding on a restart leaves the supervisor alone or sends it to restart.
LEMMA PerformType ==
    ASSUME st \in State, sup \in SupervisorSlot, NEW kind, NEW d \in BOOLEAN,
           Perform(kind, d)
    PROVE  sup' \in SupervisorSlot /\ (sup' = sup \/ sup'.pc = "restarting")
<1>1. sup' = sup \/ sup' = [pc |-> "restarting", arg |-> 0, ok |-> d, st |-> st]
  BY DEF Perform
<1>2. [pc |-> "restarting", arg |-> 0, ok |-> d, st |-> st] \in SupervisorSlot
  BY DEF SupervisorSlot, SupPcs
<1> QED
  BY <1>1, <1>2

\* A restart lands on a set of commits.
LEMMA LandType ==
    ASSUME head \subseteq Shas, Land
    PROVE  head' \subseteq Shas
  BY DEF Land

\* A blocked restart keeps the types of state.json.
LEMMA BlockedType ==
    ASSUME NEW read \in State, Blocked(read)
    PROVE  st' \in State
  BY DEF Blocked, State

\* The steps of ordinary tasks and of a rollback.
LEMMA ConcurrentSystemOK ==
    ASSUME SystemOK, camp \in Campaign, Concurrent
    PROVE  SystemOK'
<1> USE SlotTypes, SupervisorTypes, CampaignFields, BoundsAssumption, BudgetsAssumption
    DEF SystemOK
<1>0. /\ st \in State /\ req \in 0..MaxReq /\ marker \in Markers /\ stale \subseteq Markers
      /\ head \subseteq Shas /\ pushed \subseteq Shas /\ closed \subseteq Reqs
      /\ gen \in 1..MaxGen /\ q \in [TxIds -> QueueStates] /\ evq \subseteq Events
      /\ wk \in [Workers -> WorkerSlot] /\ sup \in SupervisorSlot
      /\ old \in [set: BOOLEAN, st: State] /\ cnt \in Counters
      /\ made \in [Shas -> Origins] /\ WorkersOK
  BY DEF SystemTypes
<1>1. CASE OtherCommits
  <2>0. cnt.sha < MaxSha /\ cnt.sha \in 0..MaxSha
    BY <1>0, <1>1 DEF OtherCommits, Counters
  <2> USE <1>1 DEF OtherCommits, files, proc
  <2> DEFINE s == cnt.sha + 1
             m == [gen |-> gen, tx |-> 0, camp |-> camp.id]
  <2>1. s \in Shas /\ m \in Origins
    <3>1. s \in Shas
      <4> HIDE DEF OtherCommits
      <4> QED
        BY <2>0 DEF Shas
    <3>2. m \in Origins
      BY <1>0 DEF Origins
    <3> QED
      BY <3>1, <3>2
  <2>2. head' = head \cup {s} /\ pushed' = pushed \cup {s} /\ made' = [made EXCEPT ![s] = m]
    OBVIOUS
  <2>3. cnt' \in Counters
    BY <1>0 DEF Counters, Tick
  <2> HIDE DEF s, m
  <2>4. head' \subseteq Shas /\ pushed' \subseteq Shas /\ made' \in [Shas -> Origins]
    BY <1>0, <2>1, <2>2
  <2>5. SystemTypes'
    BY <2>3, <2>4 DEF SystemTypes
  <2>6. WorkersOK' /\ SupervisorOK'
    BY <1>0 DEF WorkersOK, SupervisorOK
  <2> QED
    BY <2>5, <2>6
<1>2. CASE OtherRequestsRestart
  <2> USE <1>2 DEF OtherRequestsRestart, repo
  <2>1. marker' \in Markers
    BY <1>0 DEF Markers, Shas
  <2>2. evq' \subseteq Events
    BY <1>0 DEF Events
  <2>3. other' \in BOOLEAN
    BY <1>0
  <2>4. SystemTypes'
    BY <2>1, <2>2, <2>3 DEF SystemTypes
  <2>5. WorkersOK'
    BY <1>0 DEF WorkersOK
  <2>6. SupervisorOK'
    BY DEF SupervisorOK
  <2> QED
    BY <2>4, <2>5, <2>6
<1>3. CASE OtherEnds
  <2> USE <1>3 DEF OtherEnds, repo
  <2>1. req' \in 0..MaxReq
    BY <1>0 DEF Counters
  <2>2. cnt' \in Counters
    BY <1>0, TickType DEF Counters
  <2>3. other' \in BOOLEAN
    BY <1>0
  <2>4. SystemTypes'
    BY <2>1, <2>2, <2>3 DEF SystemTypes
  <2>5. WorkersOK'
    BY <1>0 DEF WorkersOK
  <2>6. SupervisorOK'
    BY DEF SupervisorOK
  <2> QED
    BY <2>4, <2>5, <2>6
<1>4. CASE RollbackLoads
  <2> USE <1>4 DEF RollbackLoads, files
  <2>1. old' \in [set: BOOLEAN, st: State]
    BY <1>0
  <2>2. cnt' \in Counters
    BY <1>0, TickType DEF Counters
  <2>3. head' \subseteq Shas
    BY <1>0
  <2>4. SystemTypes'
    BY <2>1, <2>2, <2>3 DEF SystemTypes
  <2>5. WorkersOK'
    BY <1>0 DEF WorkersOK
  <2>6. SupervisorOK'
    BY DEF SupervisorOK
  <2> QED
    BY <2>4, <2>5, <2>6
<1>5. CASE RollbackSaves
  <2> USE <1>5 DEF RollbackSaves, repo
  <2>1. st' \in State
    BY <1>0
  <2>2. old' \in [set: BOOLEAN, st: State]
    BY <1>0
  <2>3. SystemTypes'
    BY <2>1, <2>2 DEF SystemTypes
  <2>4. WorkersOK'
    BY <1>0 DEF WorkersOK
  <2>5. SupervisorOK'
    BY DEF SupervisorOK
  <2> QED
    BY <2>3, <2>4, <2>5
<1> QED
  BY <1>1, <1>2, <1>3, <1>4, <1>5 DEF Concurrent

\* The worker pool: respawn, timeout and death of a worker.
LEMMA PoolSystemOK ==
    ASSUME SystemOK, camp \in Campaign, NEW w \in Workers,
           RespawnDead(w) \/ TimeoutReap(w) \/ WorkerDies(w)
    PROVE  SystemOK'
<1> USE SlotTypes, SupervisorTypes, CampaignFields, BoundsAssumption, BudgetsAssumption
    DEF SystemOK
<1>0. /\ st \in State /\ req \in 0..MaxReq /\ marker \in Markers /\ stale \subseteq Markers
      /\ head \subseteq Shas /\ pushed \subseteq Shas /\ closed \subseteq Reqs
      /\ gen \in 1..MaxGen /\ q \in [TxIds -> QueueStates] /\ evq \subseteq Events
      /\ wk \in [Workers -> WorkerSlot] /\ sup \in SupervisorSlot
      /\ old \in [set: BOOLEAN, st: State] /\ cnt \in Counters
      /\ made \in [Shas -> Origins] /\ WorkersOK
  BY DEF SystemTypes
<1>1. CASE RespawnDead(w)
  <2> USE <1>1 DEF RespawnDead, files, repo
  <2>1. q' \in [TxIds -> QueueStates]
    BY <1>0 DEF QueueStates
  <2>2. evq' \subseteq Events
    BY <1>0 DEF Events, WorkerSlot, TxIds
  <2>3. wk' \in [Workers -> WorkerSlot]
    BY <1>0 DEF WorkerSlot, Phases
  <2>4. SystemTypes'
    BY <2>1, <2>2, <2>3 DEF SystemTypes
  <2>5. WorkersOK'
    BY <1>0 DEF WorkersOK, Working, Committing, WorkerSlot
  <2>6. SupervisorOK'
    BY DEF SupervisorOK
  <2> QED
    BY <2>4, <2>5, <2>6
<1>2. CASE TimeoutReap(w)
  <2> USE <1>2 DEF TimeoutReap, repo, Reaping
  <2>1. q' \in [TxIds -> QueueStates]
    BY <1>0 DEF QueueStates
  <2>2. cnt' \in Counters
    BY <1>0, TickType DEF Counters
  <2>3. SystemTypes'
    BY <2>1, <2>2 DEF SystemTypes
  <2>4. WorkersOK'
    BY <1>0 DEF WorkersOK
  <2>5. SupervisorOK'
    BY DEF SupervisorOK
  <2> QED
    BY <2>3, <2>4, <2>5
<1>3. CASE WorkerDies(w)
  <2> USE <1>3 DEF WorkerDies, repo
  <2>1. wk' \in [Workers -> WorkerSlot]
    BY <1>0 DEF WorkerSlot, Phases, Dead
  <2>2. stale' \subseteq Markers
    <3>1. Claims({w}) \subseteq Markers
      BY <1>0, ClaimTypes
    <3> QED
      BY <1>0, <3>1
  <2>3. cnt' \in Counters
    BY <1>0, TickType DEF Counters
  <2>4. SystemTypes'
    BY <2>1, <2>2, <2>3 DEF SystemTypes
  <2>5. WorkersOK'
    BY <1>0 DEF WorkersOK, Working, Committing, WorkerSlot, Dead, Idle
  <2>6. SupervisorOK'
    BY DEF SupervisorOK
  <2> QED
    BY <2>4, <2>5, <2>6
<1> QED
  BY <1>1, <1>2, <1>3 DEF SystemOK

\* The reaper, and the terminal of a task.
LEMMA TaskSystemOK ==
    ASSUME SystemOK, camp \in Campaign, NEW t \in TxIds, ReaperKill(t) \/ TaskDone(t)
    PROVE  SystemOK'
<1> USE SlotTypes, SupervisorTypes, CampaignFields, BoundsAssumption, BudgetsAssumption
    DEF SystemOK
<1>0. /\ st \in State /\ req \in 0..MaxReq /\ marker \in Markers /\ stale \subseteq Markers
      /\ head \subseteq Shas /\ pushed \subseteq Shas /\ closed \subseteq Reqs
      /\ gen \in 1..MaxGen /\ q \in [TxIds -> QueueStates] /\ evq \subseteq Events
      /\ wk \in [Workers -> WorkerSlot] /\ sup \in SupervisorSlot
      /\ old \in [set: BOOLEAN, st: State] /\ cnt \in Counters
      /\ made \in [Shas -> Origins] /\ WorkersOK
  BY DEF SystemTypes
<1>1. CASE ReaperKill(t)
  <2> USE <1>1 DEF ReaperKill, repo, Reaping
  <2>1. wk' \in [Workers -> WorkerSlot]
    BY <1>0, ZenonT(40) DEF WorkerSlot, Phases
  <2>2. stale' \subseteq Markers
    <3>1. \A v \in Workers : Claims({v}) \subseteq Markers
      BY <1>0, ClaimTypes
    <3> QED
      BY <1>0, <3>1
  <2>3. q' \in [TxIds -> QueueStates]
    BY <1>0 DEF QueueStates
  <2>4. evq' \subseteq Events
    BY <1>0 DEF Events
  <2>5. SystemTypes'
    BY <2>1, <2>2, <2>3, <2>4 DEF SystemTypes
  <2>6. WorkersOK'
    BY <1>0 DEF WorkersOK, Working, Committing, WorkerSlot
  <2>7. SupervisorOK'
    BY DEF SupervisorOK
  <2> QED
    BY <2>5, <2>6, <2>7
<1>2. CASE TaskDone(t)
  <2> USE <1>2 DEF TaskDone, repo
  <2>1. sup' \in SupervisorSlot
    <3>1. t \in Nat /\ "finish" \in SupPcs /\ "effects" \in SupPcs
      BY DEF TxIds, SupPcs
    <3> QED
      BY <3>1, GotoType
  <2>2. evq' \subseteq Events
    BY <1>0 DEF Events
  <2>3. SystemTypes'
    BY <2>1, <2>2 DEF SystemTypes
  <2>4. WorkersOK'
    BY <1>0 DEF WorkersOK
  <2>5. SupervisorOK'
    BY DEF SupervisorOK, Goto, Dispatching, Up
  <2> QED
    BY <2>3, <2>4, <2>5
<1> QED
  BY <1>1, <1>2 DEF SystemOK

\* The assignment of a task.
LEMMA AssignSystemOK ==
    ASSUME SystemOK, camp \in Campaign, NEW w \in Workers, NEW t \in TxIds,
           Assign(w, t)
    PROVE  SystemOK'
<1> USE SlotTypes, SupervisorTypes, CampaignFields, BoundsAssumption, BudgetsAssumption
    DEF SystemOK
<1>0. /\ st \in State /\ req \in 0..MaxReq /\ marker \in Markers /\ stale \subseteq Markers
      /\ head \subseteq Shas /\ pushed \subseteq Shas /\ closed \subseteq Reqs
      /\ gen \in 1..MaxGen /\ q \in [TxIds -> QueueStates] /\ evq \subseteq Events
      /\ wk \in [Workers -> WorkerSlot] /\ sup \in SupervisorSlot
      /\ old \in [set: BOOLEAN, st: State] /\ cnt \in Counters
      /\ made \in [Shas -> Origins] /\ WorkersOK
  BY DEF SystemTypes
<1>1. CASE Assign(w, t)
  <2>0. {[kind |-> "done", tx |-> t]} \subseteq Events
    BY DEF Events
  <2>1. t \in 0..MaxTx
    BY DEF TxIds
  <2> USE <1>1 DEF Assign, files, repo
  <2>2. wk' = [wk EXCEPT ![w].ph = "work", ![w].tx = t] \/ wk' = wk
    OBVIOUS
  <2>3. evq' = evq \/ evq' = evq \cup {[kind |-> "done", tx |-> t]}
    OBVIOUS
  <2>4. q' \in [TxIds -> QueueStates]
    BY <1>0 DEF QueueStates
  <2>5. evq' \subseteq Events
    BY <1>0, <2>0, <2>3
  <2> HIDE DEF Assign
  <2>6. wk' \in [Workers -> WorkerSlot]
    <3>1. [wk EXCEPT ![w].ph = "work", ![w].tx = t] \in [Workers -> WorkerSlot]
      <4>1. [wk[w] EXCEPT !.ph = "work", !.tx = t] \in WorkerSlot
        BY <1>0, <2>1, ZenonT(40) DEF WorkerSlot, Phases
      <4> QED
        BY <1>0, <4>1
    <3> QED
      BY <1>0, <2>2, <3>1
  <2>7. WorkersOK'
    BY <1>0, <2>2 DEF WorkersOK, Working, Committing, WorkerSlot
  <2>8. SystemTypes' /\ SupervisorOK'
    BY <2>4, <2>5, <2>6 DEF SystemTypes, SupervisorOK, Assign
  <2> QED
    BY <2>7, <2>8
<1> QED
  BY <1>1 DEF SystemOK

\* The sections that the supervisor thread is in the middle of.
LEMMA ContinueSystemOK ==
    ASSUME SystemOK, camp \in Campaign, Continue
    PROVE  SystemOK'
<1> USE SlotTypes, SupervisorTypes, CampaignFields, BoundsAssumption, BudgetsAssumption
    DEF SystemOK
<1>0. /\ st \in State /\ req \in 0..MaxReq /\ marker \in Markers /\ stale \subseteq Markers
      /\ head \subseteq Shas /\ pushed \subseteq Shas /\ closed \subseteq Reqs
      /\ gen \in 1..MaxGen /\ q \in [TxIds -> QueueStates] /\ evq \subseteq Events
      /\ wk \in [Workers -> WorkerSlot] /\ sup \in SupervisorSlot
      /\ old \in [set: BOOLEAN, st: State] /\ cnt \in Counters
      /\ made \in [Shas -> Origins] /\ WorkersOK
  BY DEF SystemTypes
<1>1. CASE ApplyStart
  <2> USE <1>1 DEF ApplyStart, repo
  <2>1. sup' \in SupervisorSlot
    BY <1>0, GotoType DEF SupPcs, SupervisorSlot, Return
  <2>2. SystemTypes'
    BY <2>1 DEF SystemTypes
  <2>3. WorkersOK'
    BY <1>0 DEF WorkersOK
  <2>4. SupervisorOK'
    BY DEF SupervisorOK, Goto, Return
  <2> QED
    BY <2>2, <2>3, <2>4
<1>2. CASE ApplyRead
  <2> USE <1>2 DEF ApplyRead, files, repo
  <2>1. sup' \in SupervisorSlot
    BY <1>0, GotoType DEF SupPcs, SupervisorSlot
  <2>2. SystemTypes'
    BY <2>1 DEF SystemTypes
  <2>3. WorkersOK'
    BY <1>0 DEF WorkersOK
  <2>4. SupervisorOK'
    BY DEF SupervisorOK, Goto
  <2> QED
    BY <2>2, <2>3, <2>4
<1>3. CASE ApplyWrite
  <2> USE <1>3 DEF ApplyWrite, repo
  <2>1. sup' \in SupervisorSlot
    BY <1>0, GotoType DEF SupPcs, SupervisorSlot
  <2>2. SystemTypes'
    BY <2>1 DEF SystemTypes
  <2>3. WorkersOK'
    BY <1>0 DEF WorkersOK
  <2>4. SupervisorOK'
    BY DEF SupervisorOK, Goto
  <2> QED
    BY <2>2, <2>3, <2>4
<1>4. CASE ApplyArm
  <2> USE <1>4 DEF ApplyArm, repo
  <2>1. st' \in State
    BY <1>0 DEF State
  <2>2. sup' \in SupervisorSlot
    BY <1>0, GotoType DEF SupPcs
  <2>3. SystemTypes'
    BY <2>1, <2>2 DEF SystemTypes
  <2>4. WorkersOK'
    BY <1>0 DEF WorkersOK
  <2>5. SupervisorOK'
    BY DEF SupervisorOK, Goto
  <2> QED
    BY <2>3, <2>4, <2>5
<1>5. CASE ApplyDone
  <2> USE <1>5 DEF ApplyDone, repo
  <2>1. req' \in 0..MaxReq
    BY <1>0
  <2>2. sup' \in SupervisorSlot
    BY <1>0, SupervisorTypes DEF Return
  <2>3. SystemTypes'
    BY <2>1, <2>2 DEF SystemTypes
  <2>4. WorkersOK'
    BY <1>0 DEF WorkersOK
  <2>5. SupervisorOK'
    BY DEF SupervisorOK, Return
  <2> QED
    BY <2>3, <2>4, <2>5
<1>6. CASE ApplyDisarm
  <2> USE <1>6 DEF ApplyDisarm, repo
  <2>1. req' \in 0..MaxReq
    BY <1>0
  <2>2. sup' \in SupervisorSlot
    BY <1>0, SupervisorTypes DEF Return
  <2>3. head' \subseteq Shas
    BY <1>0, CloseType
  <2>4. SystemTypes'
    BY <2>1, <2>2, <2>3 DEF SystemTypes
  <2>5. WorkersOK'
    BY <1>0 DEF WorkersOK
  <2>6. SupervisorOK'
    BY DEF SupervisorOK, Return
  <2> QED
    BY <2>4, <2>5, <2>6
<1>7. CASE QueueTask
  <2> USE <1>7 DEF QueueTask, files, repo
  <2>1. q' \in [TxIds -> QueueStates]
    BY <1>0 DEF QueueStates
  <2>2. sup' \in SupervisorSlot
    BY <1>0, SupervisorTypes DEF Return
  <2>3. SystemTypes'
    BY <2>1, <2>2 DEF SystemTypes
  <2>4. WorkersOK'
    BY <1>0 DEF WorkersOK
  <2>5. SupervisorOK'
    BY DEF SupervisorOK, Return
  <2> QED
    BY <2>3, <2>4, <2>5
<1>8. CASE CleanUp
  <2> USE <1>8 DEF CleanUp, repo
  <2>1. head' \subseteq Shas
    BY <1>0, RowType, CleanType
  <2>2. sup' \in SupervisorSlot
    BY <1>0, GotoType DEF SupPcs, SupervisorSlot
  <2>3. SystemTypes'
    BY <2>1, <2>2 DEF SystemTypes
  <2>4. WorkersOK'
    BY <1>0 DEF WorkersOK
  <2>5. SupervisorOK'
    BY DEF SupervisorOK, Goto
  <2> QED
    BY <2>3, <2>4, <2>5
<1>9. CASE RequestOwnRestart
  <2> USE <1>9 DEF RequestOwnRestart, repo
  <2>1. marker' \in Markers
    <3>1. \/ marker' = marker
          \/ HasRow(sup.arg) /\ marker' = [sha |-> Row(sup.arg).sha, tx |-> sup.arg]
      OBVIOUS
    <3>2. HasRow(sup.arg) => Row(sup.arg).sha \in 0..MaxSha /\ sup.arg \in 0..MaxTx
      BY RowType, TransactionFields
    <3> QED
      BY <1>0, <3>1, <3>2 DEF Markers
  <2>2. evq' \subseteq Events
    BY <1>0 DEF Events
  <2>3. sup' \in SupervisorSlot
    BY <1>0, GotoType DEF SupPcs, SupervisorSlot
  <2>4. SystemTypes'
    BY <2>1, <2>2, <2>3 DEF SystemTypes
  <2>5. WorkersOK'
    BY <1>0 DEF WorkersOK
  <2>6. SupervisorOK'
    BY DEF SupervisorOK, Goto
  <2> QED
    BY <2>4, <2>5, <2>6
<1>10. CASE FinishDone
  <2> USE <1>10 DEF FinishDone, repo
  <2>1. head' \subseteq Shas
    BY <1>0, CloseType
  <2>2. st' \in State
    BY <1>0, FlagTypes
  <2>3. q' \in [TxIds -> QueueStates]
    BY <1>0 DEF QueueStates
  <2>4. sup' \in SupervisorSlot
    BY <1>0, SupervisorTypes DEF Return
  <2>5. SystemTypes'
    BY <2>1, <2>2, <2>3, <2>4 DEF SystemTypes
  <2>6. WorkersOK'
    BY <1>0 DEF WorkersOK
  <2>7. SupervisorOK'
    BY DEF SupervisorOK, Return
  <2> QED
    BY <2>5, <2>6, <2>7
<1>11. CASE StopTasks
  <2> USE <1>11 DEF StopTasks, repo
  <2>1. req' \in 0..MaxReq
    BY <1>0
  <2>2. q' \in [TxIds -> QueueStates]
    BY <1>0 DEF QueueStates
  <2>3. evq' \subseteq Events
    BY <1>0 DEF Events
  <2>4. wk' \in [Workers -> WorkerSlot]
    BY <1>0 DEF WorkerSlot, Phases
  <2>5. stale' \subseteq Markers
    BY <1>0, ClaimTypes
  <2>6. sup' \in SupervisorSlot
    BY <1>0, GotoType DEF SupPcs, AfterStop
  <2>7. SystemTypes'
    BY <2>1, <2>2, <2>3, <2>4, <2>5, <2>6 DEF SystemTypes
  <2>8. WorkersOK'
    BY <1>0 DEF WorkersOK, Working, Committing, WorkerSlot
  <2>9. SupervisorOK'
    BY DEF SupervisorOK, Goto, AfterStop
  <2> QED
    BY <2>7, <2>8, <2>9
<1>12. CASE CloseCampaign
  <2> USE <1>12 DEF CloseCampaign, repo
  <2>1. head' \subseteq Shas
    BY <1>0, CloseType
  <2>2. sup' \in SupervisorSlot
    BY <1>0, SupervisorTypes DEF Return
  <2>3. SystemTypes'
    BY <2>1, <2>2 DEF SystemTypes
  <2>4. WorkersOK'
    BY <1>0 DEF WorkersOK
  <2>5. SupervisorOK'
    BY DEF SupervisorOK, Return
  <2> QED
    BY <2>3, <2>4, <2>5
<1>13. CASE StartOwned
  <2> USE <1>13 DEF StartOwned, repo
  <2>1. sup' \in SupervisorSlot
    <3>1. sup.ok \in BOOLEAN /\ "enabling" \in SupPcs /\ "restoring" \in SupPcs
      BY <1>0 DEF SupervisorSlot, SupPcs
    <3>2. Goto("enabling", 0, FALSE) \/ Goto("restoring", 0, sup.ok)
      OBVIOUS
    <3> HIDE DEF StartOwned
    <3>3. CASE Goto("enabling", 0, FALSE)
      BY <3>1, <3>3, GotoType
    <3>4. CASE Goto("restoring", 0, sup.ok)
      BY <3>1, <3>4, GotoType
    <3> QED
      BY <3>2, <3>3, <3>4
  <2>2. SystemTypes'
    BY <2>1 DEF SystemTypes
  <2>3. WorkersOK'
    BY <1>0 DEF WorkersOK
  <2>4. SupervisorOK'
    BY DEF SupervisorOK, Goto
  <2> QED
    BY <2>2, <2>3, <2>4
<1>14. CASE SetFlags
  <2> USE <1>14 DEF SetFlags, repo
  <2>1. st' \in State
    BY <1>0, FlagTypes DEF SupervisorSlot, State
  <2>2. sup' \in SupervisorSlot
    BY <1>0, SupervisorTypes DEF Return
  <2>3. SystemTypes'
    BY <2>1, <2>2 DEF SystemTypes
  <2>4. WorkersOK'
    BY <1>0 DEF WorkersOK
  <2>5. SupervisorOK'
    BY DEF SupervisorOK, Return
  <2> QED
    BY <2>3, <2>4, <2>5
<1>15. CASE SafeRestart
  <2> USE <1>15 DEF SafeRestart
  <2>1. sup.st \in State
    BY <1>0 DEF SupervisorSlot
  <2>2. sup' \in SupervisorSlot /\ (server = "down" => sup'.pc = "loop")
             /\ sup'.pc \in {"loop", "exit"}
    <3>1. [AtLoop EXCEPT !.pc = "exit"] \in SupervisorSlot
      BY DEF SupervisorSlot, SupPcs
    <3>2. [AtLoop EXCEPT !.pc = "exit"].pc = "exit"
      BY DEF SupervisorSlot
    <3>3. sup' = [AtLoop EXCEPT !.pc = "exit"] \/ sup' = AtLoop
      BY DEF Return
    <3> QED
      BY <3>1, <3>2, <3>3 DEF Up
  <2>3. CASE Blocked(sup.st) /\ UNCHANGED <<stale, head, server, q, evq, wk, other>>
    <3>1. st' \in State
      BY <2>1, <2>3, BlockedType
    <3>2. SystemTypes'
      BY <2>2, <2>3, <3>1 DEF SystemTypes
    <3>3. WorkersOK' /\ SupervisorOK'
      BY <1>0, <2>2, <2>3 DEF WorkersOK, SupervisorOK
    <3> QED
      BY <3>2, <3>3
  <2>4. CASE /\ Land /\ server' = "exiting"
             /\ wk' = [v \in Workers |-> Dead] /\ stale' = stale \cup Claims(Workers)
             /\ q' = [t \in TxIds |-> IF Queued(t) THEN "none" ELSE q[t]]
             /\ evq' = evq \cup [kind : {"done"}, tx : {t \in TxIds : Queued(t)}]
             /\ other' = FALSE /\ UNCHANGED st
    <3>1. head' \subseteq Shas /\ stale' \subseteq Markers
      BY <1>0, <2>4, LandType, ClaimTypes
    <3>2. q' \in [TxIds -> QueueStates]
      BY <1>0, <2>4 DEF QueueStates
    <3>3. evq' \subseteq Events
      BY <1>0, <2>4 DEF Events
    <3>4. wk' \in [Workers -> WorkerSlot] /\ server' \in Servers /\ other' \in BOOLEAN
      BY <2>4 DEF Servers
    <3>5. SystemTypes'
      BY <2>2, <2>4, <3>1, <3>2, <3>3, <3>4 DEF SystemTypes
    <3>6. WorkersOK'
      BY <2>4 DEF WorkersOK, Working, Committing
    <3>7. SupervisorOK'
      BY <2>2, <2>4 DEF SupervisorOK
    <3> QED
      BY <3>5, <3>6, <3>7
  <2> QED
    BY <2>3, <2>4
<1> QED
  BY <1>1, <1>2, <1>3, <1>4, <1>5, <1>6, <1>7, <1>8, <1>9, <1>10, <1>11, <1>12, <1>13, <1>14, <1>15 DEF Continue

\* The sections that the supervisor loop starts by itself, and the owner.
LEMMA LoopSystemOK ==
    ASSUME SystemOK, camp \in Campaign,
           \/ DrainDone \/ OtherStarts \/ ApplyDrop \/ ApplyTake
           \/ DisableBareFlag \/ TripBreaker \/ Begin \/ OwnerStop \/ OwnerStart
    PROVE  SystemOK'
<1> USE SlotTypes, SupervisorTypes, CampaignFields, BoundsAssumption, BudgetsAssumption
    DEF SystemOK
<1>0. /\ st \in State /\ req \in 0..MaxReq /\ marker \in Markers /\ stale \subseteq Markers
      /\ head \subseteq Shas /\ pushed \subseteq Shas /\ closed \subseteq Reqs
      /\ gen \in 1..MaxGen /\ q \in [TxIds -> QueueStates] /\ evq \subseteq Events
      /\ wk \in [Workers -> WorkerSlot] /\ sup \in SupervisorSlot
      /\ old \in [set: BOOLEAN, st: State] /\ cnt \in Counters
      /\ made \in [Shas -> Origins] /\ WorkersOK
  BY DEF SystemTypes
<1>1. CASE DrainDone
  <2> USE <1>1 DEF DrainDone, files, repo
  <2>1. sup' \in SupervisorSlot /\ (sup' = sup \/ sup'.pc = "restarting")
    BY <1>0, PerformType
  <2>2. SystemTypes'
    BY <2>1 DEF SystemTypes
  <2>3. WorkersOK' /\ SupervisorOK'
    BY <1>0, <2>1 DEF WorkersOK, SupervisorOK, AtTop, Dispatching, Up
  <2> QED
    BY <2>2, <2>3
<1>2. CASE OtherStarts
  <2> USE <1>2 DEF OtherStarts, files, repo
  <2>1. other' \in BOOLEAN
    BY <1>0
  <2>2. cnt' \in Counters
    BY <1>0, TickType DEF Counters
  <2>3. SystemTypes'
    BY <2>1, <2>2 DEF SystemTypes
  <2>4. WorkersOK'
    BY <1>0 DEF WorkersOK
  <2>5. SupervisorOK'
    BY DEF SupervisorOK
  <2> QED
    BY <2>3, <2>4, <2>5
<1>3. CASE ApplyDrop
  <2> USE <1>3 DEF ApplyDrop, repo, proc
  <2>1. req' \in 0..MaxReq
    BY <1>0
  <2>2. SystemTypes'
    BY <2>1 DEF SystemTypes
  <2>3. WorkersOK'
    BY <1>0 DEF WorkersOK
  <2>4. SupervisorOK'
    BY DEF SupervisorOK
  <2> QED
    BY <2>2, <2>3, <2>4
<1>4. CASE ApplyTake
  <2>0. req \in Nat /\ (req # 0 => req \in Reqs)
    BY <1>0 DEF Reqs
  <2> USE <1>4 DEF ApplyTake, files, repo
  <2>1. sup' \in SupervisorSlot
    BY <2>0, SupervisorTypes DEF Goto, SupervisorSlot, SupPcs
  <2>2. SystemTypes'
    BY <2>1 DEF SystemTypes
  <2>3. WorkersOK'
    BY <1>0 DEF WorkersOK
  <2>4. SupervisorOK'
    <3>1. server' # "down" /\ sup'.pc = "minting" /\ sup'.arg \in Reqs
      BY <2>0 DEF Goto, AtTop, Dispatching, Up
    <3> HIDE DEF ApplyTake
    <3> QED
      BY <3>1 DEF SupervisorOK
  <2> QED
    BY <2>2, <2>3, <2>4
<1>5. CASE DisableBareFlag
  <2> USE <1>5 DEF DisableBareFlag, repo, proc
  <2>1. st' \in State
    BY <1>0, FlagTypes
  <2>2. SystemTypes'
    BY <2>1 DEF SystemTypes
  <2>3. WorkersOK'
    BY <1>0 DEF WorkersOK
  <2>4. SupervisorOK'
    BY DEF SupervisorOK
  <2> QED
    BY <2>2, <2>3, <2>4
<1>6. CASE TripBreaker
  <2> USE <1>6 DEF TripBreaker, repo, proc
  <2>1. st' \in State
    BY <1>0, FlagTypes
  <2>2. SystemTypes'
    BY <2>1 DEF SystemTypes
  <2>3. WorkersOK'
    BY <1>0 DEF WorkersOK
  <2>4. SupervisorOK'
    BY DEF SupervisorOK
  <2> QED
    BY <2>2, <2>3, <2>4
<1>7. CASE Begin
  <2> USE <1>7 DEF Begin, repo
  <2>1. sup' \in SupervisorSlot
    <3>1. cnt.tx + 1 \in Nat /\ "queueing" \in SupPcs
      BY <1>0 DEF Counters, SupPcs
    <3> QED
      BY <1>0, <3>1, GotoType
  <2>2. cnt' \in Counters
    BY <1>0, TickType DEF Counters
  <2>3. st' \in State
    BY <1>0, FlagTypes
  <2>4. SystemTypes'
    BY <2>1, <2>2, <2>3 DEF SystemTypes
  <2>5. WorkersOK'
    BY <1>0 DEF WorkersOK
  <2>6. SupervisorOK'
    <3>1. server' # "down"
      BY DEF MayEnqueue, Dispatchable, AtTop, Dispatching, Up
    <3>2. sup' = sup \/ sup'.pc = "queueing"
      BY DEF Goto
    <3> HIDE DEF Begin
    <3> QED
      BY <3>1, <3>2 DEF SupervisorOK
  <2> QED
    BY <2>4, <2>5, <2>6
<1>8. CASE OwnerStop
  <2> USE <1>8 DEF OwnerStop, repo
  <2>1. st' \in State
    BY <1>0, FlagTypes
  <2>2. sup' \in SupervisorSlot
    BY <1>0, GotoType DEF SupPcs
  <2>3. cnt' \in Counters
    BY <1>0, TickType DEF Counters
  <2>4. SystemTypes'
    BY <2>1, <2>2, <2>3 DEF SystemTypes
  <2>5. WorkersOK'
    BY <1>0 DEF WorkersOK
  <2>6. SupervisorOK'
    BY DEF SupervisorOK, Goto, AtTop, Dispatching, Up
  <2> QED
    BY <2>4, <2>5, <2>6
<1>9. CASE OwnerStart
  <2> USE <1>9 DEF OwnerStart, repo
  <2>1. st' \in State
    BY <1>0 DEF State
  <2>2. sup' \in SupervisorSlot
    <3>1. st.stopped \in BOOLEAN /\ "starting" \in SupPcs
      BY <1>0 DEF State, SupPcs
    <3> QED
      BY <3>1, SupervisorTypes DEF Goto, SupervisorSlot
  <2>3. cnt' \in Counters
    BY <1>0, TickType DEF Counters
  <2>4. SystemTypes'
    BY <2>1, <2>2, <2>3 DEF SystemTypes
  <2>5. WorkersOK'
    BY <1>0 DEF WorkersOK
  <2>6. SupervisorOK'
    BY DEF SupervisorOK, Goto, AtTop, Dispatching, Up
  <2> QED
    BY <2>4, <2>5, <2>6
<1> QED
  BY <1>1, <1>2, <1>3, <1>4, <1>5, <1>6, <1>7, <1>8, <1>9 DEF SystemOK

\* A restart request.
LEMMA RestartSystemOK ==
    ASSUME SystemOK, camp \in Campaign, NEW kind \in {"restart", "restart_evolution"},
           HandleRestart(kind)
    PROVE  SystemOK'
<1> USE SlotTypes, SupervisorTypes, CampaignFields, BoundsAssumption, BudgetsAssumption
    DEF SystemOK
<1>0. /\ st \in State /\ req \in 0..MaxReq /\ marker \in Markers /\ stale \subseteq Markers
      /\ head \subseteq Shas /\ pushed \subseteq Shas /\ closed \subseteq Reqs
      /\ gen \in 1..MaxGen /\ q \in [TxIds -> QueueStates] /\ evq \subseteq Events
      /\ wk \in [Workers -> WorkerSlot] /\ sup \in SupervisorSlot
      /\ old \in [set: BOOLEAN, st: State] /\ cnt \in Counters
      /\ made \in [Shas -> Origins] /\ WorkersOK
  BY DEF SystemTypes
<1>1. CASE HandleRestart(kind)
  <2> USE <1>1 DEF HandleRestart, files, repo
  <2>1. sup' \in SupervisorSlot /\ (sup' = sup \/ sup'.pc = "restarting")
    BY <1>0, PerformType
  <2>2. drain' = drain \/ drain' = kind
    OBVIOUS
  <2>3. SystemTypes'
    BY <2>1, <2>2 DEF SystemTypes
  <2>4. WorkersOK' /\ SupervisorOK'
    BY <1>0, <2>1 DEF WorkersOK, SupervisorOK, Dispatching, Up
  <2> QED
    BY <2>3, <2>4
<1> QED
  BY <1>1 DEF SystemOK

\* Panic, exit, crash and boot of the server.
LEMMA ServerSystemOK ==
    ASSUME SystemOK, camp \in Campaign,
           Panic \/ PanicClose \/ PanicExit \/ Exit \/ Crash \/ Boot
    PROVE  SystemOK'
<1> USE SlotTypes, SupervisorTypes, CampaignFields, BoundsAssumption, BudgetsAssumption
    DEF SystemOK
<1>0. /\ st \in State /\ req \in 0..MaxReq /\ marker \in Markers /\ stale \subseteq Markers
      /\ head \subseteq Shas /\ pushed \subseteq Shas /\ closed \subseteq Reqs
      /\ gen \in 1..MaxGen /\ q \in [TxIds -> QueueStates] /\ evq \subseteq Events
      /\ wk \in [Workers -> WorkerSlot] /\ sup \in SupervisorSlot
      /\ old \in [set: BOOLEAN, st: State] /\ cnt \in Counters
      /\ made \in [Shas -> Origins] /\ WorkersOK
  BY DEF SystemTypes
<1>1. CASE Panic
  <2> USE <1>1 DEF Panic, repo
  <2>1. st' \in State
    BY <1>0, FlagTypes
  <2>2. server' \in Servers
    BY <1>0 DEF Servers
  <2>3. cnt' \in Counters
    BY <1>0, TickType DEF Counters
  <2>4. SystemTypes'
    BY <2>1, <2>2, <2>3 DEF SystemTypes
  <2>5. WorkersOK'
    BY <1>0 DEF WorkersOK
  <2>6. SupervisorOK'
    BY DEF SupervisorOK
  <2> QED
    BY <2>4, <2>5, <2>6
<1>2. CASE PanicClose
  <2> USE <1>2 DEF PanicClose, repo
  <2>1. server' \in Servers
    BY <1>0 DEF Servers
  <2>2. req' \in 0..MaxReq
    BY <1>0
  <2>3. SystemTypes'
    BY <2>1, <2>2 DEF SystemTypes
  <2>4. WorkersOK'
    BY <1>0 DEF WorkersOK
  <2>5. SupervisorOK'
    BY DEF SupervisorOK
  <2> QED
    BY <2>3, <2>4, <2>5
<1>3. CASE PanicExit
  <2> USE <1>3 DEF PanicExit, repo, Down
  <2>1. server' \in Servers
    BY <1>0 DEF Servers
  <2>2. q' \in [TxIds -> QueueStates]
    BY <1>0 DEF QueueStates, Kept
  <2>3. wk' \in [Workers -> WorkerSlot]
    BY <1>0 DEF WorkerSlot, Phases
  <2>4. stale' \subseteq Markers
    BY <1>0, ClaimTypes
  <2>5. sup' \in SupervisorSlot
    BY <1>0
  <2>6. old' \in [set: BOOLEAN, st: State]
    BY <1>0
  <2>7. SystemTypes'
    BY <2>1, <2>2, <2>3, <2>4, <2>5, <2>6 DEF SystemTypes
  <2>8. WorkersOK'
    BY <1>0 DEF WorkersOK, Working, Committing, WorkerSlot
  <2>9. SupervisorOK'
    BY DEF SupervisorOK
  <2> QED
    BY <2>7, <2>8, <2>9
<1>4. CASE Exit
  <2> USE <1>4 DEF Exit, repo, Down
  <2>1. server' \in Servers
    BY <1>0 DEF Servers
  <2>2. q' \in [TxIds -> QueueStates]
    BY <1>0 DEF QueueStates
  <2>3. wk' \in [Workers -> WorkerSlot]
    BY <1>0 DEF WorkerSlot, Phases
  <2>4. stale' \subseteq Markers
    BY <1>0, ClaimTypes
  <2>5. sup' \in SupervisorSlot
    BY <1>0
  <2>6. old' \in [set: BOOLEAN, st: State]
    BY <1>0
  <2>7. SystemTypes'
    BY <2>1, <2>2, <2>3, <2>4, <2>5, <2>6 DEF SystemTypes
  <2>8. WorkersOK'
    BY <1>0 DEF WorkersOK, Working, Committing, WorkerSlot
  <2>9. SupervisorOK'
    BY DEF SupervisorOK
  <2> QED
    BY <2>7, <2>8, <2>9
<1>5. CASE Crash
  <2> USE <1>5 DEF Crash, repo, Down
  <2>1. server' \in Servers
    BY <1>0 DEF Servers
  <2>2. q' \in [TxIds -> QueueStates]
    BY <1>0 DEF QueueStates, Kept
  <2>3. wk' \in [Workers -> WorkerSlot]
    BY <1>0 DEF WorkerSlot, Phases
  <2>4. stale' \subseteq Markers
    BY <1>0, ClaimTypes
  <2>5. sup' \in SupervisorSlot
    BY <1>0
  <2>6. old' \in [set: BOOLEAN, st: State]
    BY <1>0
  <2>7. cnt' \in Counters
    BY <1>0, TickType DEF Counters
  <2>8. SystemTypes'
    BY <2>1, <2>2, <2>3, <2>4, <2>5, <2>6, <2>7 DEF SystemTypes
  <2>9. WorkersOK'
    BY <1>0 DEF WorkersOK, Working, Committing, WorkerSlot
  <2>10. SupervisorOK'
    BY DEF SupervisorOK
  <2> QED
    BY <2>8, <2>9, <2>10
<1>6. CASE Boot
  <2> USE <1>6 DEF Boot, repo
  <2>1. gen' \in 1..MaxGen
    BY <1>0
  <2>2. server' \in Servers
    BY <1>0 DEF Servers
  <2>3. q' \in [TxIds -> QueueStates]
    BY <1>0 DEF QueueStates
  <2>4. wk' \in [Workers -> WorkerSlot]
    BY <1>0 DEF WorkerSlot, Phases
  <2>5. st' \in State
    BY <1>0 DEF Blocked, State
  <2>6. head' \subseteq Shas
    BY <1>0 DEF Land
  <2>7. SystemTypes'
    BY <2>1, <2>2, <2>3, <2>4, <2>5, <2>6 DEF SystemTypes
  <2>8. WorkersOK'
    BY <1>0 DEF WorkersOK, Working, Committing, WorkerSlot
  <2>9. SupervisorOK'
    BY DEF SupervisorOK, Up
  <2> QED
    BY <2>7, <2>8, <2>9
<1> QED
  BY <1>1, <1>2, <1>3, <1>4, <1>5, <1>6 DEF SystemOK
=============================================================================
