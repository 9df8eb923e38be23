----------------------- MODULE TerminalDeliveryProofs -----------------------
(* The promises of the outbox for any number of answers, any capacities and *)
(* any number of deaths, failed writes, crashes and rescues.                *)
EXTENDS TerminalDelivery, FiniteSetTheorems, TLAPS

RowType    == [owed: BOOLEAN, older: SUBSET Answers, attempts: Nat]
LoopPcs    == {"drain", "send", "sent", "again", "bump", "replay"}
WorkerType == [pc: WorkerPcs, drops: SUBSET Answers]
RescueType == [pc: {"idle", "register", "put"}, drops: SUBSET Answers]
LoopType   == [pc: LoopPcs, d: Answers \cup {NoAnswer}, due: SUBSET Answers,
               drops: SUBSET Answers]
UsedType   == [troubles: Nat, rescues: Nat]

TypeParts ==
    /\ row \in [Answers -> RowType]
    /\ delivered \in Seq(Answers) /\ cache \in Seq(Answers)
    /\ queue \in [Answers -> Nat] /\ sends \in [Answers -> Nat]
    /\ worker \in [Answers -> WorkerType] /\ rescue \in [Answers -> RescueType]
    /\ loop \in LoopType /\ (loop.pc \in {"send", "sent", "again"} => loop.d \in Answers)
    /\ stored \subseteq Answers /\ disclosed \subseteq Answers /\ silent \subseteq Answers
    /\ unconfirmed \subseteq Answers /\ used \in UsedType

Sent == {d \in Answers : sends[d] > 0}

\* only what went out is recorded, in the registry or in the cache
RecordsAreSends ==
    /\ Ids(delivered) \subseteq Sent /\ Ids(cache) \subseteq Sent
    /\ loop.pc \in {"sent", "again"} => loop.d \in Sent

LoopReportsDropped == loop.pc # "replay" => loop.drops = {}

Accounted(d) == d \in Sent \cup Pending \cup disclosed \cup InHand \cup silent

\* from its first registration on, an answer is in somebody's books
OwnedIsAccounted ==
    \A d \in Answers :
        worker[d].pc \in {"owed", "stored", "live", "posted"} \/ d \in stored => Accounted(d)

DeliveryInv ==
    TypeParts /\ DeliveredNotOwed /\ RecordsAreSends /\ LoopReportsDropped
    /\ OwnedIsAccounted

---------------------------------------------------------------------------
\* A capped newest-last list gains the new id and at most loses old ones.
LEMMA NewestHolds ==
    ASSUME NEW s \in Seq(Answers), NEW d \in Answers, NEW cap \in Nat \ {0}
    PROVE  Newest(s, d, cap) \in Seq(Answers) /\ Ids(Newest(s, d, cap)) \subseteq Ids(s) \cup {d}
<1> DEFINE t == IF Len(s) < cap THEN s ELSE Tail(s)
<1>1. t \in Seq(Answers) /\ Ids(t) \subseteq Ids(s)
  <2>1. CASE Len(s) < cap
    BY <2>1
  <2>2. CASE ~(Len(s) < cap)
    <3>1. s # <<>> /\ t = Tail(s)
      BY <2>2
    <3>2. \A i \in DOMAIN Tail(s) : i + 1 \in DOMAIN s /\ Tail(s)[i] = s[i + 1]
      BY <3>1
    <3> QED
      BY <3>1, <3>2 DEF Ids
  <2> QED
    BY <2>1, <2>2
<1>2. Ids(Append(t, d)) \subseteq Ids(t) \cup {d}
  BY <1>1 DEF Ids
<1> QED
  BY <1>1, <1>2 DEF Newest

\* The new id is the last of the list.
LEMMA NewestTakes ==
    ASSUME NEW s \in Seq(Answers), NEW d \in Answers, NEW cap \in Nat \ {0}
    PROVE  d \in Ids(Newest(s, d, cap))
<1> DEFINE t == IF Len(s) < cap THEN s ELSE Tail(s)
<1>1. t \in Seq(Answers)
  <2>1. ~(Len(s) < cap) => s # <<>>
    OBVIOUS
  <2> QED
    BY <2>1
<1>2. Len(t) + 1 \in DOMAIN Append(t, d) /\ Append(t, d)[Len(t) + 1] = d
  BY <1>1
<1> QED
  BY <1>2 DEF Newest, Ids

\* Rows that leave the outbox leave nothing else behind.
LEMMA WithoutRows ==
    ASSUME row \in [Answers -> RowType], NEW gone
    PROVE  /\ Without(gone) \in [Answers -> RowType]
           /\ \A d \in Answers : Without(gone)[d].owed <=> (d \in Pending /\ d \notin gone)
<1>1. \A d \in Answers : [row[d] EXCEPT !.older = @ \ gone] \in RowType
  BY DEF RowType
<1>2. NoRow \in RowType
  BY DEF NoRow, RowType
<1>3. Without(gone) \in [Answers -> RowType]
  BY <1>1, <1>2 DEF Without
<1>4. ASSUME NEW d \in Answers
      PROVE  Without(gone)[d].owed <=> (d \in Pending /\ d \notin gone)
  <2>1. CASE d \in gone
    BY <2>1 DEF Without, NoRow
  <2>2. CASE d \notin gone
    <3>1. Without(gone)[d] = [row[d] EXCEPT !.older = @ \ gone]
      BY <2>2 DEF Without
    <3>2. row[d] \in RowType
      OBVIOUS
    <3>3. Without(gone)[d].owed = row[d].owed
      BY <3>1, <3>2 DEF RowType
    <3> QED
      BY <2>2, <3>3 DEF Pending
  <2> QED
    BY <2>1, <2>2
<1> QED
  BY <1>3, <1>4

\* register_pending_delivery: what leaves the outbox is what the caller must
\* report, and only a new id that was not delivered comes in.
LEMMA OwnRows ==
    ASSUME row \in [Answers -> RowType], NEW d \in Answers, NEW drops, Own(d, drops),
           used \in [troubles: Nat, rescues: Nat]
    PROVE  /\ row' \in [Answers -> RowType] /\ used' \in [troubles: Nat, rescues: Nat]
           /\ drops \subseteq Answers
           /\ Pending \subseteq Pending' \cup drops
           /\ Pending' \subseteq Pending \cup ({d} \ Ids(delivered))
           /\ d \in Pending' \cup drops \cup Ids(delivered)
<1>1. CASE row' = Owed(d) /\ drops = Evicted(d) /\ UNCHANGED used
  <2>1. CASE ~IsNew(d)
    BY <1>1, <2>1 DEF Owed, Evicted, IsNew, Pending
  <2>2. CASE IsNew(d)
    <3>1. drops \subseteq Pending
      BY <1>1 DEF Evicted
    <3> DEFINE new == [owed |-> TRUE, older |-> Pending \ drops, attempts |-> 0]
    <3>2. row' = [Without(drops) EXCEPT ![d] = new]
      BY <1>1, <2>2 DEF Owed
    <3>3. new \in RowType
      BY DEF RowType, Pending
    <3>4. /\ Without(drops) \in [Answers -> RowType]
          /\ \A x \in Answers : Without(drops)[x].owed <=> (x \in Pending /\ x \notin drops)
      BY WithoutRows
    <3> HIDE DEF new
    <3>5. row' \in [Answers -> RowType]
      BY <3>2, <3>3, <3>4
    <3>6. \A x \in Answers : row'[x].owed <=> x = d \/ (x \in Pending /\ x \notin drops)
      <4>1. new.owed
        BY DEF new
      <4> QED
        BY <3>2, <3>4, <4>1
    <3>7. \A x \in Answers : x \in Pending' <=> row'[x].owed
      BY DEF Pending
    <3>8. Pending \subseteq Answers /\ Pending' \subseteq Answers
      BY DEF Pending
    <3> QED
      BY <1>1, <2>2, <3>1, <3>5, <3>6, <3>7, <3>8 DEF IsNew
  <2> QED
    BY <2>1, <2>2
<1>2. CASE Trouble /\ drops = {d} /\ UNCHANGED row
  BY <1>2 DEF Trouble, Pending
<1> QED
  BY <1>1, <1>2 DEF Own

---------------------------------------------------------------------------
\* a loop that was left alone, or was reset to At(pc, d) or to Drained
LEMMA LoopRecords ==
    /\ Drained \in LoopType /\ Drained.drops = {} /\ Drained.pc = "drain"
    /\ \A pc \in LoopPcs, d \in Answers :
        At(pc, d) \in LoopType /\ At(pc, d).pc = pc /\ At(pc, d).d = d /\ At(pc, d).drops = {}
BY DEF Drained, At, LoopType, LoopPcs

LEMMA DeliveryTypeInit == Delivery_Init => DeliveryTypeOK
<1> SUFFICES ASSUME Delivery_Init PROVE DeliveryTypeOK
  OBVIOUS
<1>1. NoRow \in RowType /\ Drained \in LoopType /\ Idle \in RescueType
      /\ [pc |-> "working", drops |-> {}] \in WorkerType
  BY DEF NoRow, RowType, Drained, LoopType, LoopPcs, Idle, RescueType, WorkerType, WorkerPcs
<1>2. loop.pc = "drain"
  BY DEF Delivery_Init, Drained
<1>3. used \in UsedType
  BY DEF Delivery_Init, UsedType
<1>4. row \in [Answers -> RowType] /\ worker \in [Answers -> WorkerType]
      /\ rescue \in [Answers -> RescueType] /\ loop \in LoopType
  BY <1>1 DEF Delivery_Init
<1> QED
  BY <1>2, <1>3, <1>4
     DEF Delivery_Init, DeliveryTypeOK, RowType, WorkerType, RescueType, LoopType, LoopPcs, UsedType

LEMMA TypeInParts == DeliveryTypeOK <=> TypeParts
BY DEF DeliveryTypeOK, TypeParts, RowType, WorkerType, RescueType, LoopType, LoopPcs, UsedType

\* everything but the types, when nothing is lost from the books
LEMMA BooksKept ==
    ASSUME DeliveryInv,
           Sent \subseteq Sent', disclosed \subseteq disclosed', silent \subseteq silent',
           Pending \cup InHand \subseteq Pending' \cup InHand' \cup disclosed' \cup silent',
           \A d \in Answers :
              worker'[d].pc \in {"owed", "stored", "live", "posted"} \/ d \in stored'
                => \/ Accounted(d)'
                   \/ worker[d].pc \in {"owed", "stored", "live", "posted"} \/ d \in stored
    PROVE  OwnedIsAccounted'
BY DEF DeliveryInv, OwnedIsAccounted, Accounted

---------------------------------------------------------------------------
\* The worker's and the rescue's two registrations.
LEMMA OwnStep ==
    ASSUME DeliveryInv, NEW d \in Answers, NEW drops, Own(d, drops),
           UNCHANGED <<delivered, memoryVars, loop, ghostVars>>,
           \/ /\ WorkerAt(d, "working") /\ WorkerTo(d, "owed", drops)
              /\ UNCHANGED rescue
           \/ /\ WorkerAt(d, "stored") /\ WorkerTo(d, "live", drops)
              /\ UNCHANGED rescue
           \/ /\ rescue[d] = [pc |-> "register", drops |-> {}] /\ RescueTo(d, "put", drops)
              /\ UNCHANGED worker
    PROVE  DeliveryInv'
<1> USE DEF memoryVars, ghostVars
<1>1. /\ row' \in [Answers -> RowType] /\ used' \in UsedType /\ drops \subseteq Answers
      /\ Pending \subseteq Pending' \cup drops
      /\ Pending' \subseteq Pending \cup ({d} \ Ids(delivered))
      /\ d \in Pending' \cup drops \cup Ids(delivered)
  BY OwnRows DEF DeliveryInv, TypeParts, UsedType
<1>2. worker' \in [Answers -> WorkerType] /\ rescue' \in [Answers -> RescueType]
  <2>1. [pc |-> "owed", drops |-> drops] \in WorkerType
        /\ [pc |-> "live", drops |-> drops] \in WorkerType
        /\ [pc |-> "put", drops |-> drops] \in RescueType
    BY <1>1 DEF WorkerType, RescueType, WorkerPcs
  <2> QED
    BY <2>1 DEF DeliveryInv, TypeParts, WorkerTo, RescueTo
<1>3. TypeParts'
  BY <1>1, <1>2 DEF DeliveryInv, TypeParts
<1>4. (RecordsAreSends /\ DeliveredNotOwed /\ LoopReportsDropped)'
  BY <1>1 DEF DeliveryInv, RecordsAreSends, DeliveredNotOwed, LoopReportsDropped, Sent
<1>5. InHand \cup drops \subseteq InHand'
  <2>1. ASSUME NEW x \in Answers, x \in InHand PROVE x \in InHand'
    BY <2>1, <1>2 DEF InHand, WorkerAt, WorkerTo, RescueTo, DeliveryInv, TypeParts
  <2>2. ASSUME NEW x \in drops PROVE x \in InHand'
    <3>1. x \in worker'[d].drops \/ x \in rescue'[d].drops
      BY <2>2 DEF WorkerTo, RescueTo, DeliveryInv, TypeParts
    <3> QED
      BY <2>2, <3>1, <1>1 DEF InHand
  <2> QED
    BY <2>1, <2>2 DEF InHand
<1>6. Accounted(d)'
  BY <1>1, <1>5 DEF Accounted, DeliveryInv, RecordsAreSends, Sent
<1>7. \A x \in Answers \ {d} : worker'[x] = worker[x]
  BY DEF WorkerTo, DeliveryInv, TypeParts
<1>8. OwnedIsAccounted'
  BY <1>1, <1>5, <1>6, <1>7, BooksKept DEF Sent
<1> QED
  BY <1>3, <1>4, <1>8 DEF DeliveryInv

\* The two counters of the model stay numbers.
LEMMA Counters ==
    ASSUME DeliveryInv, NEW d \in Answers
    PROVE  (Put(d) => queue' \in [Answers -> Nat]) /\ (Trouble => used' \in UsedType)
<1>1. queue \in [Answers -> Nat] /\ used \in UsedType
  BY DEF DeliveryInv, TypeParts
<1>2. Put(d) => queue' \in [Answers -> Nat]
  <2>1. queue[d] + 1 \in Nat
    BY <1>1
  <2> QED
    BY <1>1, <2>1 DEF Put
<1>3. Trouble => used' \in UsedType
  BY <1>1 DEF Trouble, UsedType
<1> QED
  BY <1>2, <1>3

\* The worker's other steps report nothing and drop nothing.
LEMMA WorkerStep ==
    ASSUME DeliveryInv, NEW d \in Answers,
           StoreTaskResult(d) \/ PutLive(d) \/ PutBuffered(d)
    PROVE  DeliveryInv'
<1> USE DEF memoryVars, ghostVars, registryVars
<1>1. PICK pc \in {"stored", "posted", "gone"} :
        /\ worker' = [worker EXCEPT ![d] = [pc |-> pc, drops |-> {}]]
        /\ pc = "stored" => worker[d].pc = "owed"
        /\ pc = "posted" => worker[d].pc = "live"
  BY DEF StoreTaskResult, PutLive, PutBuffered, WorkerAt, WorkerTo
<1>2. worker[d].drops = {}
  BY DEF StoreTaskResult, PutLive, PutBuffered, WorkerAt
<1>3. worker' \in [Answers -> WorkerType]
  BY <1>1 DEF DeliveryInv, TypeParts, WorkerType, WorkerPcs
<1>4. queue' \in [Answers -> Nat] /\ stored' \subseteq Answers
  <2>1. CASE StoreTaskResult(d)
    BY <2>1 DEF StoreTaskResult, DeliveryInv, TypeParts
  <2>2. CASE PutLive(d) \/ PutBuffered(d)
    BY <2>2, Counters DEF PutLive, PutBuffered, DeliveryInv, TypeParts
  <2> QED
    BY <2>1, <2>2
<1>5. UNCHANGED <<registryVars, cache, rescue, loop, sends, disclosed, silent, unconfirmed, used>>
  BY DEF StoreTaskResult, PutLive, PutBuffered
<1>6. stored' \subseteq stored \cup {d} /\ (stored' # stored => worker[d].pc = "owed")
  BY DEF StoreTaskResult, PutLive, PutBuffered, WorkerAt
<1>7. TypeParts'
  BY <1>3, <1>4, <1>5 DEF DeliveryInv, TypeParts
<1>8. (RecordsAreSends /\ DeliveredNotOwed /\ LoopReportsDropped)'
  BY <1>5 DEF DeliveryInv, RecordsAreSends, DeliveredNotOwed, LoopReportsDropped, Sent, Pending
<1>9. InHand \subseteq InHand' /\ Pending' = Pending /\ Sent' = Sent
  BY <1>1, <1>2, <1>5 DEF InHand, Pending, Sent, DeliveryInv, TypeParts
<1>10. \A x \in Answers \ {d} : worker'[x] = worker[x]
  BY <1>1 DEF DeliveryInv, TypeParts
<1>11. worker'[d].pc = pc
  BY <1>1 DEF DeliveryInv, TypeParts
<1>12. OwnedIsAccounted'
  BY <1>1, <1>5, <1>6, <1>9, <1>10, <1>11, BooksKept
<1> QED
  BY <1>7, <1>8, <1>12 DEF DeliveryInv

\* What a dying worker had not reported yet is lost silently, and counted so.
LEMMA WorkerDiesStep ==
    ASSUME DeliveryInv, NEW d \in Answers, WorkerDies(d) PROVE DeliveryInv'
<1> USE DEF memoryVars, registryVars
<1>1. /\ worker' = [worker EXCEPT ![d] = [pc |-> "gone", drops |-> {}]]
      /\ silent' = silent \cup worker[d].drops
      /\ UNCHANGED <<registryVars, memoryVars, rescue, loop, stored, sends, disclosed, unconfirmed>>
  BY DEF WorkerDies, WorkerTo
<1>2. used' \in UsedType
  BY Counters DEF WorkerDies
<1>3. worker' \in [Answers -> WorkerType] /\ silent' \subseteq Answers
  BY <1>1 DEF DeliveryInv, TypeParts, WorkerType, WorkerPcs
<1>4. TypeParts'
  BY <1>1, <1>2, <1>3 DEF DeliveryInv, TypeParts
<1>5. (RecordsAreSends /\ DeliveredNotOwed /\ LoopReportsDropped)'
  BY <1>1 DEF DeliveryInv, RecordsAreSends, DeliveredNotOwed, LoopReportsDropped, Sent, Pending
<1>6. InHand \subseteq InHand' \cup silent' /\ Pending' = Pending /\ Sent' = Sent
  BY <1>1 DEF InHand, Pending, Sent, DeliveryInv, TypeParts
<1>7. \A x \in Answers : x # d => worker'[x] = worker[x]
  BY <1>1 DEF DeliveryInv, TypeParts
<1>8. worker'[d].pc = "gone"
  BY <1>1 DEF DeliveryInv, TypeParts
<1>9. OwnedIsAccounted'
  BY <1>1, <1>6, <1>7, <1>8, BooksKept
<1> QED
  BY <1>4, <1>5, <1>9 DEF DeliveryInv

\* A rescue begins and ends without a row in hand.
LEMMA RescueStep ==
    ASSUME DeliveryInv, NEW d \in Answers, RescueStart(d) \/ RescuePut(d) PROVE DeliveryInv'
<1> USE DEF memoryVars, ghostVars, registryVars
<1>1. PICK pc \in {"register", "idle"} : rescue' = [rescue EXCEPT ![d] = [pc |-> pc, drops |-> {}]]
  BY DEF RescueStart, RescuePut, RescueTo
<1>2. rescue[d].drops = {}
  BY DEF RescueStart, RescuePut, Idle
<1>3. rescue' \in [Answers -> RescueType]
  BY <1>1 DEF DeliveryInv, TypeParts, RescueType
<1>4. queue' \in [Answers -> Nat]
  BY Counters DEF RescueStart, RescuePut, DeliveryInv, TypeParts
<1>5. used' \in UsedType
  BY DEF RescueStart, RescuePut, DeliveryInv, TypeParts, UsedType
<1>6. UNCHANGED <<registryVars, cache, worker, loop, ghostVars>>
  BY DEF RescueStart, RescuePut
<1>7. TypeParts'
  BY <1>3, <1>4, <1>5, <1>6 DEF DeliveryInv, TypeParts
<1>8. (RecordsAreSends /\ DeliveredNotOwed /\ LoopReportsDropped)'
  BY <1>6 DEF DeliveryInv, RecordsAreSends, DeliveredNotOwed, LoopReportsDropped, Sent, Pending
<1>9. InHand \subseteq InHand' /\ Pending' = Pending /\ Sent' = Sent
  BY <1>1, <1>2, <1>6 DEF InHand, Pending, Sent, DeliveryInv, TypeParts
<1>10. OwnedIsAccounted'
  BY <1>6, <1>9, BooksKept
<1> QED
  BY <1>7, <1>8, <1>10 DEF DeliveryInv

---------------------------------------------------------------------------
\* The steps of the loop that change no registry row.
LEMMA LoopStep ==
    ASSUME DeliveryInv,
           (\E d \in Answers : HandleSendMessage(d)) \/ Send \/ SendRaises
             \/ (\E due \in SUBSET Answers : ReplayRead(due)) \/ ReplayPut
    PROVE  DeliveryInv'
<1> USE DEF memoryVars, ghostVars, registryVars
<1>1. loop.drops = {}
  BY DEF HandleSendMessage, Send, SendRaises, ReplayRead, ReplayPut, DeliveryInv,
         LoopReportsDropped
<1>2. loop' \in LoopType /\ loop'.drops = {}
  <2>1. CASE \E d \in Answers : HandleSendMessage(d)
    BY <2>1, LoopRecords DEF HandleSendMessage, LoopPcs
  <2>2. CASE Send \/ SendRaises \/ ReplayPut
    BY <2>2, LoopRecords DEF Send, SendRaises, ReplayPut, LoopPcs, DeliveryInv, TypeParts
  <2>3. ASSUME NEW due \in SUBSET Answers, ReplayRead(due)
        PROVE  loop' \in LoopType /\ loop'.drops = {}
    BY <2>3 DEF ReplayRead, Drained, LoopType, LoopPcs
  <2> QED
    BY <2>1, <2>2, <2>3
<1>3. UNCHANGED <<registryVars, worker, rescue, stored, disclosed, silent>>
  BY DEF HandleSendMessage, Send, SendRaises, ReplayRead, ReplayPut
<1>4. queue' \in [Answers -> Nat]
  <2>1. CASE \E d \in Answers : HandleSendMessage(d)
    <3>1. PICK d \in Answers : HandleSendMessage(d)
      BY <2>1
    <3>2. queue[d] > 0 /\ queue[d] \in Nat
      BY <3>1 DEF HandleSendMessage, DeliveryInv, TypeParts
    <3>3. queue[d] - 1 \in Nat
      BY <3>2
    <3> QED
      BY <3>1, <3>3 DEF HandleSendMessage, DeliveryInv, TypeParts
  <2>2. CASE ReplayPut
    <3>1. \A d \in Answers : queue[d] + (IF d \in loop.due THEN 1 ELSE 0) \in Nat
      BY DEF DeliveryInv, TypeParts
    <3> QED
      BY <2>2, <3>1 DEF ReplayPut
  <2>3. CASE Send \/ SendRaises \/ \E due \in SUBSET Answers : ReplayRead(due)
    BY <2>3 DEF Send, SendRaises, ReplayRead, DeliveryInv, TypeParts
  <2> QED
    BY <2>1, <2>2, <2>3
<1>5. CASE Send
  <2>1. loop.d \in Answers
    BY <1>5 DEF Send, DeliveryInv, TypeParts
  <2>2. sends' = [sends EXCEPT ![loop.d] = @ + 1] /\ sends \in [Answers -> Nat]
    BY <1>5 DEF Send, DeliveryInv, TypeParts
  <2>3. sends' \in [Answers -> Nat] /\ Sent' = Sent \cup {loop.d}
    BY <2>1, <2>2 DEF Sent
  <2>4. cache' \in Seq(Answers) /\ Ids(cache') \subseteq Ids(cache) \cup {loop.d}
    BY <1>5, <2>1, NewestHolds, DeliveryAssumption DEF Send, DeliveryInv, TypeParts
  <2>5. loop'.d = loop.d /\ unconfirmed' = unconfirmed /\ used' = used
    BY <1>5, <2>1, LoopRecords DEF Send, LoopPcs
  <2>6. TypeParts'
    BY <1>2, <1>3, <1>4, <2>1, <2>3, <2>4, <2>5 DEF DeliveryInv, TypeParts
  <2>7. (RecordsAreSends /\ DeliveredNotOwed /\ LoopReportsDropped)'
    BY <1>2, <1>3, <2>3, <2>4, <2>5
       DEF DeliveryInv, RecordsAreSends, DeliveredNotOwed, LoopReportsDropped, Pending
  <2>8. InHand \subseteq InHand' /\ Pending' = Pending
    BY <1>1, <1>3 DEF InHand, Pending
  <2>9. OwnedIsAccounted'
    BY <1>3, <2>3, <2>8, BooksKept
  <2> QED
    BY <2>6, <2>7, <2>9 DEF DeliveryInv
<1>6. CASE SendRaises
  <2>1. loop.d \in Answers /\ cache' = cache
    BY <1>6 DEF SendRaises, DeliveryInv, TypeParts
  <2>2. loop'.pc = "drain"
    BY <1>6, LoopRecords DEF SendRaises
  <2>3. /\ sends' \in [Answers -> Nat] /\ Sent \subseteq Sent'
        /\ unconfirmed' \subseteq Answers /\ used' \in UsedType
    <3>1. CASE UNCHANGED <<sends, unconfirmed, used>>
      BY <3>1 DEF DeliveryInv, TypeParts, Sent
    <3>2. CASE Trouble /\ sends' = [sends EXCEPT ![loop.d] = @ + 1]
               /\ unconfirmed' = unconfirmed \cup {loop.d}
      <4>1. used' \in UsedType
        BY <2>1, <3>2, Counters
      <4>2. sends \in [Answers -> Nat]
        BY DEF DeliveryInv, TypeParts
      <4>3. sends' \in [Answers -> Nat] /\ Sent \subseteq Sent'
        BY <2>1, <3>2, <4>2 DEF Sent
      <4> QED
        BY <2>1, <3>2, <4>1, <4>3 DEF DeliveryInv, TypeParts
    <3> QED
      BY <1>6, <3>1, <3>2 DEF SendRaises
  <2>4. TypeParts'
    BY <1>2, <1>3, <1>4, <2>1, <2>2, <2>3 DEF DeliveryInv, TypeParts
  <2>5. (RecordsAreSends /\ DeliveredNotOwed /\ LoopReportsDropped)'
    BY <1>2, <1>3, <2>1, <2>2, <2>3
       DEF DeliveryInv, RecordsAreSends, DeliveredNotOwed, LoopReportsDropped, Pending
  <2>6. InHand \subseteq InHand' /\ Pending' = Pending
    BY <1>1, <1>3 DEF InHand, Pending
  <2>7. OwnedIsAccounted'
    BY <1>3, <2>3, <2>6, BooksKept
  <2> QED
    BY <2>4, <2>5, <2>7 DEF DeliveryInv
<1>7. CASE (\E d \in Answers : HandleSendMessage(d)) \/ ReplayPut
             \/ \E due \in SUBSET Answers : ReplayRead(due)
  <2>1. UNCHANGED <<cache, sends, unconfirmed, used>>
    BY <1>7 DEF HandleSendMessage, ReplayRead, ReplayPut
  <2>2. \/ loop'.pc = "drain" \/ loop'.pc = "bump"
        \/ loop'.pc = "send" /\ loop'.d \in Answers
        \/ loop'.pc = "again" /\ loop'.d \in Answers \cap Ids(cache)
    <3>1. ASSUME NEW d \in Answers, HandleSendMessage(d)
          PROVE  \/ loop'.pc = "drain"
                 \/ loop'.pc = "send" /\ loop'.d \in Answers
                 \/ loop'.pc = "again" /\ loop'.d \in Answers \cap Ids(cache)
      <4>1. CASE d \in Ids(cache)
        <5>1. loop' = At("again", d)
          BY <3>1, <4>1 DEF HandleSendMessage
        <5> QED
          BY <4>1, <5>1, LoopRecords DEF LoopPcs
      <4>2. CASE d \notin Ids(cache) /\ d \in Ids(delivered)
        BY <3>1, <4>2, LoopRecords DEF HandleSendMessage
      <4>3. CASE d \notin Ids(cache) /\ d \notin Ids(delivered)
        <5>1. loop' = At("send", d)
          BY <3>1, <4>3 DEF HandleSendMessage
        <5> QED
          BY <5>1, LoopRecords DEF LoopPcs
      <4> QED
        BY <4>1, <4>2, <4>3
    <3>2. ASSUME NEW due \in SUBSET Answers, ReplayRead(due)
          PROVE  loop'.pc = "bump"
      BY <3>2 DEF ReplayRead, Drained
    <3>3. CASE ReplayPut
      BY <3>3, LoopRecords DEF ReplayPut
    <3> QED
      BY <1>7, <3>1, <3>2, <3>3
  <2>3. (loop'.pc \in {"send", "again", "sent"} => loop'.d \in Answers)
        /\ (loop'.pc \in {"sent", "again"} => loop'.d \in Sent)
    BY <2>2 DEF DeliveryInv, RecordsAreSends
  <2>4. TypeParts'
    BY <1>2, <1>3, <1>4, <2>1, <2>3 DEF DeliveryInv, TypeParts
  <2>5. InHand \subseteq InHand' /\ Pending' = Pending /\ Sent' = Sent
    BY <1>1, <1>3, <2>1 DEF InHand, Pending, Sent
  <2>6. (RecordsAreSends /\ DeliveredNotOwed /\ LoopReportsDropped)'
    BY <1>2, <1>3, <2>1, <2>3, <2>5
       DEF DeliveryInv, RecordsAreSends, DeliveredNotOwed, LoopReportsDropped
  <2>7. OwnedIsAccounted'
    BY <1>3, <2>5, BooksKept
  <2> QED
    BY <2>4, <2>6, <2>7 DEF DeliveryInv
<1> QED
  BY <1>5, <1>6, <1>7

\* register_delivery: the only step that ends a debt with a delivery.
LEMMA RegisterDeliveredStep ==
    ASSUME DeliveryInv, RegisterDelivered PROVE DeliveryInv'
<1> USE DEF memoryVars
<1>1. /\ loop.d \in Answers /\ loop.d \in Sent /\ loop.drops = {}
      /\ loop' = Drained /\ loop' \in LoopType /\ loop'.drops = {} /\ loop'.pc = "drain"
      /\ UNCHANGED <<memoryVars, worker, rescue, stored, sends, disclosed, silent>>
  BY LoopRecords DEF RegisterDelivered, DeliveryInv, TypeParts, RecordsAreSends, LoopReportsDropped
<1>2. InHand \subseteq InHand' /\ Sent' = Sent
  BY <1>1 DEF InHand, Sent
<1>3. CASE /\ row' = Without({loop.d})
           /\ delivered' = IF loop.d \in Ids(delivered) THEN delivered
                           ELSE Newest(delivered, loop.d, RegistryCap)
           /\ unconfirmed' = unconfirmed
           /\ UNCHANGED used
  <2>1. row' \in [Answers -> RowType] /\ Pending' = Pending \ {loop.d}
    BY <1>3, WithoutRows DEF DeliveryInv, TypeParts, Pending
  <2>2. delivered' \in Seq(Answers) /\ Ids(delivered') \subseteq Ids(delivered) \cup {loop.d}
    BY <1>1, <1>3, NewestHolds, DeliveryAssumption DEF DeliveryInv, TypeParts
  <2>3. TypeParts'
    BY <1>1, <1>3, <2>1, <2>2 DEF DeliveryInv, TypeParts
  <2>4. (RecordsAreSends /\ DeliveredNotOwed /\ LoopReportsDropped)'
    BY <1>1, <1>2, <2>1, <2>2
       DEF DeliveryInv, RecordsAreSends, DeliveredNotOwed, LoopReportsDropped
  <2>5. ASSUME NEW d \in Answers, Accounted(d) PROVE Accounted(d)'
    BY <2>5, <1>1, <1>2, <2>1 DEF Accounted
  <2>6. OwnedIsAccounted'
    BY <1>1, <2>5 DEF DeliveryInv, OwnedIsAccounted
  <2> QED
    BY <2>3, <2>4, <2>6 DEF DeliveryInv
<1>4. CASE /\ Trouble
           /\ unconfirmed' = unconfirmed \cup {loop.d}
           /\ UNCHANGED registryVars
  <2>1. used' \in UsedType /\ UNCHANGED <<row, delivered>>
    BY <1>1, <1>4, Counters DEF registryVars
  <2>2. TypeParts'
    BY <1>1, <1>4, <2>1 DEF DeliveryInv, TypeParts
  <2>3. Pending' = Pending
    BY <2>1 DEF Pending
  <2>4. (RecordsAreSends /\ DeliveredNotOwed /\ LoopReportsDropped)'
    BY <1>1, <1>2, <2>1, <2>3
       DEF DeliveryInv, RecordsAreSends, DeliveredNotOwed, LoopReportsDropped
  <2>5. OwnedIsAccounted'
    BY <1>1, <1>2, <2>3, BooksKept
  <2> QED
    BY <2>2, <2>4, <2>5 DEF DeliveryInv
<1> QED
  BY <1>3, <1>4 DEF RegisterDelivered, RegisterDelivery

\* _bump_replay_attempts: an exhausted row goes from the outbox into the hands
\* of the loop that reports it.
LEMMA BumpStep ==
    ASSUME DeliveryInv, BumpReplayAttempts PROVE DeliveryInv'
<1> USE DEF memoryVars, ghostVars
<1>1. loop.pc = "bump" /\ loop.drops = {} /\ loop \in LoopType
      /\ UNCHANGED <<delivered, memoryVars, worker, rescue, ghostVars>>
  BY DEF BumpReplayAttempts, DeliveryInv, LoopReportsDropped, TypeParts
<1>2. CASE /\ row' = [d \in Answers |->
                IF d \in (loop.due \cap Pending) \ Exhausted
                THEN [Without(Exhausted)[d] EXCEPT !.attempts = @ + 1]
                ELSE Without(Exhausted)[d]]
           /\ loop' = [Drained EXCEPT !.pc = "replay", !.drops = Exhausted,
                                      !.due = (loop.due \cap Pending) \ Exhausted]
           /\ UNCHANGED used
  <2>1. Exhausted \subseteq Answers /\ Exhausted \subseteq Pending
    BY DEF Exhausted, Pending
  <2>2. /\ Without(Exhausted) \in [Answers -> RowType]
        /\ \A d \in Answers : Without(Exhausted)[d].owed <=> (d \in Pending /\ d \notin Exhausted)
    BY WithoutRows DEF DeliveryInv, TypeParts
  <2>3. ASSUME NEW d \in Answers
        PROVE  row'[d] \in RowType /\ row'[d].owed = Without(Exhausted)[d].owed
    <3>1. Without(Exhausted)[d] \in RowType
      BY <2>2
    <3> DEFINE r == Without(Exhausted)[d]
    <3>2. [r EXCEPT !.attempts = @ + 1] \in RowType
          /\ [r EXCEPT !.attempts = @ + 1].owed = r.owed
      BY <3>1 DEF RowType
    <3>3. row'[d] = r \/ row'[d] = [r EXCEPT !.attempts = @ + 1]
      BY <1>2
    <3> QED
      BY <3>1, <3>2, <3>3
  <2>4. row' \in [Answers -> RowType]
    <3> DEFINE new(d) == IF d \in (loop.due \cap Pending) \ Exhausted
                         THEN [Without(Exhausted)[d] EXCEPT !.attempts = @ + 1]
                         ELSE Without(Exhausted)[d]
    <3>1. row' = [d \in Answers |-> new(d)]
      BY <1>2
    <3>2. \A d \in Answers : new(d) \in RowType
      BY <2>3, <3>1
    <3> HIDE DEF new
    <3> QED
      BY <3>1, <3>2
  <2>5. Pending' = Pending \ Exhausted
    BY <2>1, <2>2, <2>3 DEF Pending
  <2>6. loop' = [pc |-> "replay", d |-> NoAnswer, due |-> (loop.due \cap Pending) \ Exhausted,
                 drops |-> Exhausted]
    BY <1>2 DEF Drained
  <2>7. loop' \in LoopType /\ loop'.pc = "replay" /\ loop'.drops = Exhausted
    BY <1>1, <2>1, <2>6 DEF LoopType, LoopPcs
  <2>8. TypeParts'
    BY <1>1, <1>2, <2>4, <2>7 DEF DeliveryInv, TypeParts
  <2>9. (RecordsAreSends /\ DeliveredNotOwed /\ LoopReportsDropped)'
    BY <1>1, <2>5, <2>7
       DEF DeliveryInv, RecordsAreSends, DeliveredNotOwed, LoopReportsDropped, Sent
  <2>10. InHand \cup Exhausted \subseteq InHand'
    BY <1>1, <2>1, <2>7 DEF InHand
  <2>11. OwnedIsAccounted'
    BY <1>1, <2>5, <2>10, BooksKept DEF Sent
  <2> QED
    BY <2>8, <2>9, <2>11 DEF DeliveryInv
<1>3. CASE Trouble /\ loop' = [loop EXCEPT !.pc = "replay"] /\ UNCHANGED row
  <2>1. used' \in UsedType
    <3>1. used \in UsedType
      BY DEF DeliveryInv, TypeParts
    <3> QED
      BY <1>3, <3>1 DEF Trouble, UsedType
  <2>2. loop' \in LoopType /\ loop'.pc = "replay" /\ loop'.drops = {}
    BY <1>1, <1>3 DEF LoopType, LoopPcs
  <2>3. TypeParts'
    BY <1>1, <1>3, <2>1, <2>2 DEF DeliveryInv, TypeParts
  <2>4. (RecordsAreSends /\ DeliveredNotOwed /\ LoopReportsDropped)'
    BY <1>1, <1>3, <2>2
       DEF DeliveryInv, RecordsAreSends, DeliveredNotOwed, LoopReportsDropped, Sent, Pending
  <2>5. InHand \subseteq InHand' /\ Pending' = Pending
    BY <1>1, <1>3 DEF InHand, Pending
  <2>6. OwnedIsAccounted'
    BY <1>1, <2>5, BooksKept DEF Sent
  <2> QED
    BY <2>3, <2>4, <2>6 DEF DeliveryInv
<1> QED
  BY <1>2, <1>3 DEF BumpReplayAttempts

\* A report moves one answer from a hand to the events log.
LEMMA DiscloseStep ==
    ASSUME DeliveryInv, NEW x \in Answers, Disclose(x) PROVE DeliveryInv'
<1> USE DEF memoryVars, registryVars
<1>1. /\ disclosed' = disclosed \cup {x}
      /\ UNCHANGED <<registryVars, memoryVars, stored, sends, silent, unconfirmed, used>>
  BY DEF Disclose
<1>2. loop \in LoopType /\ worker \in [Answers -> WorkerType] /\ rescue \in [Answers -> RescueType]
  BY DEF DeliveryInv, TypeParts
<1>3. /\ loop' \in LoopType /\ loop'.pc = loop.pc /\ loop'.d = loop.d
      /\ loop'.drops \subseteq loop.drops /\ loop.drops \ {x} \subseteq loop'.drops
  <2>1. loop' = loop \/ loop' = [loop EXCEPT !.drops = @ \ {x}]
    BY DEF Disclose
  <2> QED
    BY <1>2, <2>1 DEF LoopType
<1>4. /\ worker' \in [Answers -> WorkerType]
      /\ \A d \in Answers : worker'[d].pc = worker[d].pc
                            /\ worker[d].drops \ {x} \subseteq worker'[d].drops
  <2>1. CASE worker' = worker
    BY <1>2, <2>1
  <2>2. ASSUME NEW e \in Answers, worker' = [worker EXCEPT ![e].drops = @ \ {x}]
        PROVE  <1>4!1 /\ <1>4!2
    <3> DEFINE w == [worker[e] EXCEPT !.drops = @ \ {x}]
    <3>1. worker' = [worker EXCEPT ![e] = w]
      BY <2>2
    <3>2. w \in WorkerType /\ w.pc = worker[e].pc /\ worker[e].drops \ {x} \subseteq w.drops
      <4>1. worker[e] \in WorkerType
        BY <1>2
      <4> QED
        BY <4>1 DEF WorkerType
    <3> HIDE DEF w
    <3> QED
      BY <1>2, <3>1, <3>2
  <2> QED
    BY <2>1, <2>2 DEF Disclose
<1>5. /\ rescue' \in [Answers -> RescueType]
      /\ \A d \in Answers : rescue[d].drops \ {x} \subseteq rescue'[d].drops
  <2>1. CASE rescue' = rescue
    BY <1>2, <2>1
  <2>2. ASSUME NEW e \in Answers, rescue' = [rescue EXCEPT ![e].drops = @ \ {x}]
        PROVE  <1>5!1 /\ <1>5!2
    <3> DEFINE r == [rescue[e] EXCEPT !.drops = @ \ {x}]
    <3>1. rescue' = [rescue EXCEPT ![e] = r]
      BY <2>2
    <3>2. r \in RescueType /\ rescue[e].drops \ {x} \subseteq r.drops
      <4>1. rescue[e] \in RescueType
        BY <1>2
      <4> QED
        BY <4>1 DEF RescueType
    <3> HIDE DEF r
    <3> QED
      BY <1>2, <3>1, <3>2
  <2> QED
    BY <2>1, <2>2 DEF Disclose
<1>6. TypeParts'
  BY <1>1, <1>3, <1>4, <1>5 DEF DeliveryInv, TypeParts
<1>7. (RecordsAreSends /\ DeliveredNotOwed /\ LoopReportsDropped)'
  BY <1>1, <1>3 DEF DeliveryInv, RecordsAreSends, DeliveredNotOwed, LoopReportsDropped, Sent, Pending
<1>8. InHand \subseteq InHand' \cup disclosed' /\ Pending' = Pending /\ Sent' = Sent
  BY <1>1, <1>3, <1>4, <1>5 DEF InHand, Pending, Sent
<1>9. OwnedIsAccounted'
  BY <1>1, <1>4, <1>8, BooksKept
<1> QED
  BY <1>6, <1>7, <1>9 DEF DeliveryInv

\* A crash keeps the registry, and what was in a hand is counted as silent.
LEMMA CrashStep ==
    ASSUME DeliveryInv, Crash PROVE DeliveryInv'
<1> USE DEF registryVars
<1>1. /\ silent' = silent \cup InHand /\ queue' = [d \in Answers |-> 0] /\ cache' = <<>>
      /\ loop' = Drained /\ rescue' = [d \in Answers |-> Idle]
      /\ worker' = [d \in Answers |-> [pc |-> "gone", drops |-> {}]]
      /\ UNCHANGED <<registryVars, stored, sends, disclosed>>
  BY DEF Crash
<1>2. used' \in UsedType
  <2>1. used \in UsedType /\ used' = [used EXCEPT !.troubles = @ + 1]
    BY DEF Crash, Trouble, DeliveryInv, TypeParts
  <2> QED
    BY <2>1 DEF UsedType
<1>3. unconfirmed' \subseteq Answers /\ silent' \subseteq Answers
  BY <1>1 DEF Crash, DeliveryInv, TypeParts, InHand
<1>4. loop' \in LoopType /\ loop'.pc = "drain" /\ loop'.drops = {}
  BY <1>1, LoopRecords
<1>5. worker' \in [Answers -> WorkerType] /\ rescue' \in [Answers -> RescueType]
  BY <1>1 DEF WorkerType, RescueType, WorkerPcs, Idle
<1>6. cache' \in Seq(Answers) /\ Ids(cache') = {}
  BY <1>1 DEF Ids
<1>7. TypeParts'
  BY <1>1, <1>2, <1>3, <1>4, <1>5, <1>6 DEF DeliveryInv, TypeParts
<1>8. (RecordsAreSends /\ DeliveredNotOwed /\ LoopReportsDropped)'
  BY <1>1, <1>4, <1>6
     DEF DeliveryInv, RecordsAreSends, DeliveredNotOwed, LoopReportsDropped, Sent, Pending
<1>9. Pending' = Pending /\ Sent' = Sent /\ \A d \in Answers : worker'[d].pc = "gone"
  BY <1>1 DEF Pending, Sent
<1>10. OwnedIsAccounted'
  BY <1>1, <1>9, BooksKept
<1> QED
  BY <1>7, <1>8, <1>10 DEF DeliveryInv

LEMMA StutterStep ==
    ASSUME DeliveryInv, UNCHANGED deliveryVars PROVE DeliveryInv'
BY DEF deliveryVars, registryVars, memoryVars, ghostVars, DeliveryInv, TypeParts,
       DeliveredNotOwed, RecordsAreSends, LoopReportsDropped, OwnedIsAccounted, Accounted,
       Sent, Pending, InHand

---------------------------------------------------------------------------
LEMMA DeliveryInvInit == Delivery_Init => DeliveryInv
<1> SUFFICES ASSUME Delivery_Init PROVE DeliveryInv
  OBVIOUS
<1>1. TypeParts
  BY DeliveryTypeInit, TypeInParts
<1>2. Pending = {} /\ Ids(delivered) = {} /\ Ids(cache) = {} /\ stored = {}
  BY DEF Delivery_Init, Pending, NoRow, Ids
<1>3. loop.pc = "drain" /\ loop.drops = {} /\ \A d \in Answers : worker[d].pc = "working"
  BY DEF Delivery_Init, Drained
<1> QED
  BY <1>1, <1>2, <1>3
     DEF DeliveryInv, DeliveredNotOwed, RecordsAreSends, LoopReportsDropped, OwnedIsAccounted

LEMMA DeliveryInvStep == DeliveryInv /\ [Delivery_Next]_deliveryVars => DeliveryInv'
<1> SUFFICES ASSUME DeliveryInv, [Delivery_Next]_deliveryVars PROVE DeliveryInv'
  OBVIOUS
<1>1. CASE (\E d \in Answers : HandleSendMessage(d)) \/ Send \/ SendRaises
             \/ (\E due \in SUBSET Answers : ReplayRead(due)) \/ ReplayPut
  BY <1>1, LoopStep
<1>2. CASE RegisterDelivered
  BY <1>2, RegisterDeliveredStep
<1>3. CASE BumpReplayAttempts
  BY <1>3, BumpStep
<1>4. ASSUME NEW d \in Answers, WorkerSteps(d) PROVE DeliveryInv'
  <2>1. CASE RegisterFinalAnswerOwed(d)
    BY <2>1, OwnStep DEF RegisterFinalAnswerOwed
  <2>2. CASE RegisterLive(d)
    BY <2>2, OwnStep DEF RegisterLive
  <2>3. CASE StoreTaskResult(d) \/ PutLive(d) \/ PutBuffered(d)
    BY <2>3, WorkerStep
  <2> QED
    BY <1>4, <2>1, <2>2, <2>3 DEF WorkerSteps
<1>5. ASSUME NEW d \in Answers, RescueStart(d) \/ RescueSteps(d) PROVE DeliveryInv'
  <2>1. CASE RescueRegister(d)
    BY <2>1, OwnStep DEF RescueRegister
  <2>2. CASE RescueStart(d) \/ RescuePut(d)
    BY <2>2, RescueStep
  <2> QED
    BY <1>5, <2>1, <2>2 DEF RescueSteps
<1>6. ASSUME NEW d \in Answers, Disclose(d) \/ WorkerDies(d) PROVE DeliveryInv'
  BY <1>6, DiscloseStep, WorkerDiesStep
<1>7. CASE Crash
  BY <1>7, CrashStep
<1>8. CASE UNCHANGED deliveryVars
  BY <1>8, StutterStep
<1> QED
  BY <1>1, <1>2, <1>3, <1>4, <1>5, <1>6, <1>7, <1>8 DEF Delivery_Next, LoopSteps

LEMMA DeliveryInvariance == Delivery_Spec => []DeliveryInv
BY DeliveryInvInit, DeliveryInvStep, PTL DEF Delivery_Spec

\* The registry, the cache, the queue and every process keep their types.
THEOREM DeliveryTyped == Delivery_Spec => []DeliveryTypeOK
<1>1. DeliveryInv => DeliveryTypeOK
  BY TypeInParts DEF DeliveryInv
<1> QED
  BY <1>1, DeliveryInvariance, PTL

\* However the worker, the rescue and the loop interleave, and whatever
\* crashes, no id is both delivered and owed.
THEOREM DeliveredIsNeverOwed == Delivery_Spec => []DeliveredNotOwed
<1>1. DeliveryInv => DeliveredNotOwed
  BY DEF DeliveryInv
<1> QED
  BY <1>1, DeliveryInvariance, PTL

\* The answer of a task whose result is stored went out, is owed, or was
\* reported; only a process that dies with a dropped row in hand loses one.
THEOREM AnswersNeverLost == Delivery_Spec => []NeverLost
<1>1. DeliveryInv => NeverLost
  <2>1. DeliveryInv => \A d \in stored : d \in Answers
    BY DEF DeliveryInv, TypeParts
  <2> QED
    BY <2>1 DEF DeliveryInv, OwnedIsAccounted, Accounted, NeverLost, Sent
<1> QED
  BY <1>1, DeliveryInvariance, PTL
---------------------------------------------------------------------------
(* Never doubled.  An answer that went out is remembered by the registry, is *)
(* about to be, or is known to be unconfirmed; the loop sends nothing that   *)
(* the registry remembers.                                                   *)
OnceInv(d) ==
    /\ d \in Sent => \/ d \in unconfirmed \cup Ids(delivered)
                     \/ loop.pc = "sent" /\ loop.d = d
    /\ loop.pc = "send" /\ loop.d = d => d \notin Ids(delivered)
    /\ sends[d] > 1 => d \in unconfirmed

\* the step does not push the id of d out of the registry
Remembers(d) == d \in Ids(delivered) => d \in Ids(delivered)'

\* The registry says delivered only in register_delivery, of the id just sent.
LEMMA DeliveredMoves ==
    ASSUME DeliveryInv, [Delivery_Next]_deliveryVars
    PROVE  \/ delivered' = delivered
           \/ /\ loop.pc \in {"sent", "again"} /\ loop' = Drained
              /\ UNCHANGED <<sends, unconfirmed>>
              /\ loop.d \notin Ids(delivered)
              /\ delivered' = Newest(delivered, loop.d, RegistryCap)
<1>1. CASE LoopSteps
  BY <1>1 DEF LoopSteps, HandleSendMessage, Send, SendRaises, RegisterDelivered,
              RegisterDelivery, BumpReplayAttempts, ReplayPut, registryVars
<1>2. CASE \E due \in SUBSET Answers : ReplayRead(due)
  BY <1>2 DEF ReplayRead, registryVars
<1>3. CASE \E d \in Answers : WorkerSteps(d) \/ RescueStart(d) \/ RescueSteps(d)
  BY <1>3 DEF WorkerSteps, RescueSteps, RegisterFinalAnswerOwed, StoreTaskResult, RegisterLive,
              PutLive, PutBuffered, RescueStart, RescueRegister, RescuePut, registryVars
<1>4. CASE (\E d \in Answers : Disclose(d) \/ WorkerDies(d)) \/ Crash
  BY <1>4 DEF Disclose, WorkerDies, Crash, registryVars
<1>5. CASE UNCHANGED deliveryVars
  BY <1>5 DEF deliveryVars, registryVars
<1> QED
  BY <1>1, <1>2, <1>3, <1>4, <1>5 DEF Delivery_Next

\* Steps that leave the sends alone, and in which the loop neither begins nor
\* forgets a send.
LEMMA OnceCalm ==
    ASSUME NEW d \in Answers, OnceInv(d), sends' = sends, delivered' = delivered,
           unconfirmed \subseteq unconfirmed',
           loop'.pc # "send" \/ (loop'.pc = loop.pc /\ loop'.d = loop.d),
           (loop.pc = "sent" /\ loop.d = d) =>
                (loop'.pc = "sent" /\ loop'.d = d) \/ d \in unconfirmed'
    PROVE  OnceInv(d)'
BY DEF OnceInv, Sent, Ids

\* One step of the system, for an answer whose id it does not push out.
LEMMA OnceStep ==
    ASSUME DeliveryInv, [Delivery_Next]_deliveryVars, NEW d \in Answers, OnceInv(d), Remembers(d)
    PROVE  OnceInv(d)'
<1> USE DEF memoryVars, ghostVars
<1>0. sends \in [Answers -> Nat] /\ loop \in LoopType
      /\ (loop.pc \in {"send", "sent", "again"} => loop.d \in Answers)
  BY DEF DeliveryInv, TypeParts
<1>1. ASSUME NEW e \in Answers, HandleSendMessage(e) PROVE OnceInv(d)'
  <2>1. UNCHANGED <<delivered, sends, unconfirmed>> /\ loop.pc = "drain"
    BY <1>1 DEF HandleSendMessage, registryVars
  <2>2. \/ loop'.pc \in {"again", "drain"}
        \/ loop'.pc = "send" /\ loop'.d = e /\ e \notin Ids(delivered)
    BY <1>1, LoopRecords DEF HandleSendMessage, LoopPcs
  <2> QED
    BY <2>1, <2>2 DEF OnceInv, Sent, Ids
<1>2. CASE Send
  <2>1. /\ loop.pc = "send" /\ sends' = [sends EXCEPT ![loop.d] = @ + 1]
        /\ loop'.pc = "sent" /\ loop'.d = loop.d /\ UNCHANGED <<delivered, unconfirmed>>
    BY <1>0, <1>2, LoopRecords DEF Send, registryVars, LoopPcs
  <2>2. CASE d = loop.d
    <3>1. d \notin Ids(delivered) /\ (sends[d] > 0 => d \in unconfirmed)
      BY <2>1, <2>2 DEF OnceInv, Sent
    <3>2. sends'[d] = sends[d] + 1 /\ sends[d] \in Nat
      BY <1>0, <2>1, <2>2
    <3> QED
      BY <2>1, <2>2, <3>1, <3>2 DEF OnceInv, Sent
  <2>3. CASE d # loop.d
    <3>1. sends'[d] = sends[d]
      BY <1>0, <2>1, <2>3
    <3> QED
      BY <2>1, <2>3, <3>1 DEF OnceInv, Sent, Ids
  <2> QED
    BY <2>2, <2>3
<1>3. CASE SendRaises
  <2>1. loop.pc = "send" /\ loop'.pc = "drain" /\ delivered' = delivered
    BY <1>3, LoopRecords DEF SendRaises, registryVars
  <2>2. CASE UNCHANGED <<sends, unconfirmed, used>>
    BY <2>1, <2>2 DEF OnceInv, Sent, Ids
  <2>3. CASE sends' = [sends EXCEPT ![loop.d] = @ + 1] /\ unconfirmed' = unconfirmed \cup {loop.d}
    <3>1. d # loop.d => sends'[d] = sends[d]
      BY <1>0, <2>1, <2>3
    <3> QED
      BY <2>1, <2>3, <3>1 DEF OnceInv, Sent, Ids
  <2> QED
    BY <1>3, <2>2, <2>3 DEF SendRaises
<1>4. CASE RegisterDelivered
  <2>1. loop.pc \in {"sent", "again"} /\ loop'.pc = "drain" /\ sends' = sends
        /\ delivered \in Seq(Answers) /\ loop.d \in Answers
    BY <1>4, <1>0, LoopRecords DEF RegisterDelivered, DeliveryInv, TypeParts
  <2>2. CASE delivered' = (IF loop.d \in Ids(delivered) THEN delivered
                           ELSE Newest(delivered, loop.d, RegistryCap)) /\ unconfirmed' = unconfirmed
    <3>1. loop.d \in Ids(delivered)'
      <4>1. CASE loop.d \in Ids(delivered)
        BY <2>2, <4>1 DEF Ids
      <4>2. CASE loop.d \notin Ids(delivered)
        BY <2>1, <2>2, <4>2, NewestTakes, DeliveryAssumption DEF Ids
      <4> QED
        BY <4>1, <4>2
    <3> QED
      BY <2>1, <2>2, <3>1 DEF OnceInv, Sent, Remembers
  <2>3. CASE unconfirmed' = unconfirmed \cup {loop.d} /\ UNCHANGED registryVars
    BY <2>1, <2>3 DEF OnceInv, Sent, Ids, registryVars
  <2> QED
    BY <1>4, <2>2, <2>3 DEF RegisterDelivered, RegisterDelivery
<1>5. CASE BumpReplayAttempts \/ ReplayPut \/ \E due \in SUBSET Answers : ReplayRead(due)
  <2>1. UNCHANGED <<delivered, sends, unconfirmed>> /\ loop.pc \notin {"send", "sent"}
    BY <1>5 DEF BumpReplayAttempts, ReplayPut, ReplayRead, registryVars
  <2>2. loop'.pc \in {"replay", "drain", "bump"}
    <3>1. CASE BumpReplayAttempts
      BY <3>1, <1>0 DEF BumpReplayAttempts, Drained, LoopType
    <3>2. CASE ReplayPut
      BY <3>2 DEF ReplayPut, Drained
    <3>3. ASSUME NEW due \in SUBSET Answers, ReplayRead(due) PROVE loop'.pc = "bump"
      BY <3>3 DEF ReplayRead, Drained
    <3> QED
      BY <1>5, <3>1, <3>2, <3>3
  <2> QED
    BY <2>1, <2>2, OnceCalm
<1>6. ASSUME NEW e \in Answers, WorkerSteps(e) \/ RescueStart(e) \/ RescueSteps(e) \/ WorkerDies(e)
      PROVE  OnceInv(d)'
  <2>1. UNCHANGED <<delivered, sends, unconfirmed, loop>>
    BY <1>6 DEF WorkerSteps, RescueSteps, RegisterFinalAnswerOwed, StoreTaskResult, RegisterLive,
                PutLive, PutBuffered, RescueStart, RescueRegister, RescuePut, WorkerDies, registryVars
  <2> QED
    BY <2>1, OnceCalm
<1>7. ASSUME NEW x \in Answers, Disclose(x) PROVE OnceInv(d)'
  <2>1. UNCHANGED <<delivered, sends, unconfirmed>> /\ loop'.pc = loop.pc /\ loop'.d = loop.d
    BY <1>7, <1>0 DEF Disclose, registryVars, LoopType
  <2> QED
    BY <2>1, OnceCalm
<1>8. CASE Crash
  <2>1. /\ UNCHANGED <<delivered, sends>> /\ loop'.pc = "drain"
        /\ unconfirmed' = unconfirmed \cup (IF loop.pc = "sent" THEN {loop.d} ELSE {})
    BY <1>8, LoopRecords DEF Crash, registryVars
  <2> QED
    BY <2>1, OnceCalm
<1>9. CASE UNCHANGED deliveryVars
  BY <1>9, OnceCalm DEF deliveryVars, registryVars
<1> QED
  BY <1>1, <1>2, <1>3, <1>4, <1>5, <1>6, <1>7, <1>8, <1>9 DEF Delivery_Next, LoopSteps

LEMMA OnceInit == Delivery_Init => \A d \in Answers : OnceInv(d)
<1> SUFFICES ASSUME Delivery_Init, NEW d \in Answers PROVE OnceInv(d)
  OBVIOUS
<1>1. sends[d] = 0 /\ loop.pc = "drain"
  BY DEF Delivery_Init, Drained
<1> QED
  BY <1>1 DEF OnceInv, Sent

\* Whatever crashes and however the copies of an answer interleave, the owner
\* gets it twice only if a send went out unrecorded, or if 512 later answers
\* pushed its own id out of the registry while a copy was still on its way.
THEOREM SentOnceIfRemembered ==
    ASSUME NEW d \in Answers
    PROVE  Delivery_Spec /\ [][Remembers(d)]_deliveryVars => [](sends[d] > 1 => d \in unconfirmed)
<1>1. Delivery_Init => OnceInv(d)
  BY OnceInit
<1>2. DeliveryInv /\ OnceInv(d) /\ [Delivery_Next]_deliveryVars /\ [Remembers(d)]_deliveryVars
        => OnceInv(d)'
  <2>1. UNCHANGED deliveryVars => Remembers(d)
    BY DEF deliveryVars, registryVars, Remembers, Ids
  <2> QED
    BY <2>1, OnceStep
<1>3. OnceInv(d) => (sends[d] > 1 => d \in unconfirmed)
  BY DEF OnceInv
<1> QED
  BY <1>1, <1>2, <1>3, DeliveryInvariance, PTL DEF Delivery_Spec

---------------------------------------------------------------------------
\* The registry lists no id twice, so it is never longer than the answers are
\* many, and forgets none while they fit.
NoRepeats == \A i, j \in DOMAIN delivered : delivered[i] = delivered[j] => i = j

LEMMA NewId ==
    ASSUME TypeParts, NoRepeats, Cardinality(Answers) <= RegistryCap,
           NEW d \in Answers, d \notin Ids(delivered)
    PROVE  Newest(delivered, d, RegistryCap) = Append(delivered, d)
<1> DEFINE places == 1 .. Len(delivered)
           others == Answers \ {d}
<1>1. delivered \in Seq(Answers) /\ Len(delivered) \in Nat /\ DOMAIN delivered = places
  BY DEF TypeParts
<1>2. \A i \in places : delivered[i] \in others
  BY <1>1 DEF Ids
<1>3. delivered \in [places -> others]
  BY <1>1, <1>2
<1>4. IsFiniteSet(places) /\ Cardinality(places) = Len(delivered)
  BY <1>1, FS_Interval
<1>5. IsFiniteSet(Answers) /\ Cardinality(Answers) \in Nat
      /\ IsFiniteSet(others) /\ Cardinality(others) = Cardinality(Answers) - 1
  BY FS_RemoveElement, FS_CardinalityType, DeliveryAssumption
<1>6. Len(delivered) <= Cardinality(others)
  <2> SUFFICES ASSUME Cardinality(others) < Cardinality(places) PROVE FALSE
    BY <1>1, <1>4, <1>5
  <2>1. \E i, j \in places : i # j /\ delivered[i] = delivered[j]
    BY <1>3, <1>4, <1>5, FS_PigeonHole
  <2> QED
    BY <2>1, <1>1 DEF NoRepeats
<1>7. Len(delivered) < RegistryCap
  BY <1>1, <1>5, <1>6, DeliveryAssumption
<1> QED
  BY <1>7 DEF Newest

LEMMA NoRepeatsStep ==
    ASSUME DeliveryInv, NoRepeats, [Delivery_Next]_deliveryVars, Cardinality(Answers) <= RegistryCap
    PROVE  NoRepeats' /\ \A d \in Answers : Remembers(d)
<1>1. CASE delivered' = delivered
  BY <1>1 DEF NoRepeats, Remembers, Ids
<1>2. CASE /\ loop.pc \in {"sent", "again"} /\ loop.d \notin Ids(delivered)
           /\ delivered' = Newest(delivered, loop.d, RegistryCap)
  <2>1. loop.d \in Answers /\ delivered \in Seq(Answers)
    BY <1>2 DEF DeliveryInv, TypeParts
  <2>2. delivered' = Append(delivered, loop.d)
    BY <1>2, <2>1, NewId DEF DeliveryInv
  <2>3. /\ \A i \in DOMAIN delivered : i \in DOMAIN delivered' /\ delivered'[i] = delivered[i]
        /\ \A i \in DOMAIN delivered' :
              i \in DOMAIN delivered \/ (i = Len(delivered) + 1 /\ delivered'[i] = loop.d)
    BY <2>1, <2>2
  <2> QED
    BY <1>2, <2>3 DEF NoRepeats, Remembers, Ids
<1> QED
  BY <1>1, <1>2, DeliveredMoves

\* No answer reaches the owner twice unless a send went out unrecorded, as long
\* as the answers do not outnumber the ids that the registry keeps.
THEOREM SentAtMostOnce ==
    ASSUME Cardinality(Answers) <= RegistryCap PROVE Delivery_Spec => []SentOnce
<1> DEFINE Inv == NoRepeats /\ \A d \in Answers : OnceInv(d)
<1>1. Delivery_Init => Inv
  BY OnceInit DEF Delivery_Init, NoRepeats
<1>2. DeliveryInv /\ Inv /\ [Delivery_Next]_deliveryVars => Inv'
  BY NoRepeatsStep, OnceStep
<1>3. Inv => SentOnce
  BY DEF OnceInv, SentOnce
<1> QED
  BY <1>1, <1>2, <1>3, DeliveryInvariance, PTL DEF Delivery_Spec
=============================================================================
