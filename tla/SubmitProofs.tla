---------------------------- MODULE SubmitProofs ----------------------------
(***************************************************************************)
(* Proofs about the public form: SubmissionDelivery for every number of    *)
(* handlers, ids and queue places and every set of deployments, and        *)
(* NftGate for every set of wallets and every bound.                       *)
(***************************************************************************)
EXTENDS SubmissionDelivery, NftGate, FiniteSetTheorems, SequenceTheorems, TLAPS

-----------------------------------------------------------------------------
(* SubmissionDelivery                                                      *)

(* The queue as the type invariant has it.                                 *)
IsQueue(q) ==
  /\ q \in Seq(ItemType)
  /\ \A i, j \in DOMAIN q : q[i].id = q[j].id => i = j

(* Where a handler has an id of its own, and where it may still send it.   *)
Numbered == {"queueing", "uploading", "keptLocally", "stored", "requeue", "delivered", "recording"}
Sending == Numbered \ {"keptLocally"}

HandlersOwnTheirIds ==
  /\ \A h \in Handlers : handler[h].id \in 0 .. made
  /\ \A h \in Handlers : handler[h].pc \in Numbered => handler[h].id # NoId
  /\ \A h, k \in Handlers : handler[h].id = handler[k].id /\ handler[h].id # NoId => h = k

QueuedWereMade ==
  /\ \A i \in DOMAIN queue : queue[i].id \in enqueued
  /\ \A i \in DOMAIN sync.todo : sync.todo[i].id \in enqueued
  /\ enqueued \subseteq 1 .. made

(* The handler acts on what it knows.                                      *)
HandlersKnow ==
  \A h \in Handlers :
    LET id == handler[h].id IN
    /\ handler[h].pc \in {"delivered", "recording"} => inbox[id] = "whole"
    /\ handler[h].pc = "recording" => ~Queued(id)
    /\ handler[h].pc \in {"queueing", "uploading", "requeue"} => ~Told(id)

(* A fallback copy of an id is only left by the handler that gave up on it. *)
FallbackCopy(id) ==
  \/ \E i \in DOMAIN queue : queue[i] = Item(id, "fallback")
  \/ \E i \in DOMAIN sync.todo : sync.todo[i] = Item(id, "fallback")

FallbackIsFinal ==
  \A id \in Ids : FallbackCopy(id) =>
    /\ deployment.fallback /\ ~Told(id)
    /\ \A h \in Handlers : handler[h].id = id => handler[h].pc \notin Sending

HollowByFallback ==
  \A id \in Ids : inbox[id] = "hollow" => deployment.encrypted /\ deployment.fallback

SavedHasArrived == sync.pc = "saving" => inbox[Head(sync.todo).id] # "none"

(* A record is pushed out only when more signals were queued than fit.     *)
EvictsOnlyWhenFull == evicted # {} => Cardinality(enqueued) > QueueCap

DeliveryInv ==
  /\ DeliveryTypeOK
  /\ HandlersOwnTheirIds
  /\ QueuedWereMade
  /\ HandlersKnow
  /\ FallbackIsFinal
  /\ HollowByFallback
  /\ SavedHasArrived
  /\ NothingSilentlyLost
  /\ SubmittedIsDelivered
  /\ EvictsOnlyWhenFull

-----------------------------------------------------------------------------
(* The queue *)

LEMMA RemoveAtProperties ==
  ASSUME NEW S, NEW s \in Seq(S), NEW i \in DOMAIN s
  PROVE  /\ RemoveAt(s, i) \in Seq(S) /\ Len(RemoveAt(s, i)) = Len(s) - 1
         /\ \A k \in 1 .. Len(s) - 1 : RemoveAt(s, i)[k] = IF k < i THEN s[k] ELSE s[k + 1]
<1> PICK n : n = Len(s)
  OBVIOUS
<1> PICK front, back : front = SubSeq(s, 1, i - 1) /\ back = SubSeq(s, i + 1, n)
  OBVIOUS
<1>1. i \in 1 .. n /\ n \in Nat
  BY LenProperties
<1>2. /\ front \in Seq(S) /\ Len(front) = i - 1
      /\ \A k \in 1 .. i - 1 : front[k] = s[k]
  BY <1>1
<1>3. /\ back \in Seq(S) /\ Len(back) = n - i
      /\ \A k \in 1 .. n - i : back[k] = s[i + k]
  BY <1>1
<1>4. /\ front \o back \in Seq(S) /\ Len(front \o back) = Len(front) + Len(back)
      /\ \A k \in 1 .. Len(front) + Len(back) :
           (front \o back)[k] = IF k <= Len(front) THEN front[k] ELSE back[k - Len(front)]
  <2>1. front \in Seq(S) /\ back \in Seq(S)
    BY <1>2, <1>3
  <2> QED  BY ONLY <2>1, ConcatProperties
<1>5. Len(front) + Len(back) = n - 1
  BY ONLY <1>1, <1>2, <1>3
<1>6. ASSUME NEW k \in 1 .. n - 1
      PROVE  (front \o back)[k] = IF k < i THEN s[k] ELSE s[k + 1]
  <2>1. CASE k < i
    <3>1. k <= Len(front) /\ k \in 1 .. i - 1
      BY ONLY <1>1, <1>2, <2>1, k \in 1 .. n - 1
    <3> QED  BY <1>2, <1>4, <1>5, <2>1, <3>1
  <2>2. CASE ~(k < i)
    <3>1. PICK j \in 1 .. n - i : j = k - Len(front)
      BY ONLY <1>1, <1>2, <2>2, k \in 1 .. n - 1
    <3>2. ~(k <= Len(front)) /\ i + j = k + 1
      BY ONLY <1>1, <1>2, <2>2, <3>1, k \in 1 .. n - 1
    <3> QED  BY <1>3, <1>4, <1>5, <2>2, <3>1, <3>2
  <2> QED  BY <2>1, <2>2
<1> QED  BY <1>4, <1>5, <1>6 DEF RemoveAt

(* Without an id, the queue keeps every other record in its order.         *)
LEMMA WithoutProperties ==
  ASSUME IsQueue(queue), NEW id
  PROVE  /\ IsQueue(Without(id)) /\ Len(Without(id)) <= Len(queue)
         /\ \A k \in DOMAIN Without(id) :
              Without(id)[k].id # id /\ \E i \in DOMAIN queue : Without(id)[k] = queue[i]
         /\ \A i \in DOMAIN queue :
              queue[i].id # id => \E k \in DOMAIN Without(id) : Without(id)[k] = queue[i]
<1>1. CASE ~Queued(id)
  BY <1>1, LenProperties DEF Queued, Without, IsQueue
<1>2. CASE Queued(id)
  <2> DEFINE at == CHOOSE i \in DOMAIN queue : queue[i].id = id
             rest == RemoveAt(queue, at)
  <2>1. at \in DOMAIN queue /\ queue[at].id = id
    BY <1>2 DEF Queued
  <2>2. Without(id) = rest
    BY <1>2 DEF Without
  <2> HIDE DEF at
  <2>3. queue \in Seq(ItemType) /\ DOMAIN queue = 1 .. Len(queue) /\ Len(queue) \in Nat
    BY LenProperties DEF IsQueue
  <2>4. /\ rest \in Seq(ItemType) /\ Len(rest) = Len(queue) - 1
        /\ \A k \in 1 .. Len(queue) - 1 : rest[k] = IF k < at THEN queue[k] ELSE queue[k + 1]
    BY <2>1, <2>3, RemoveAtProperties
  <2> HIDE DEF rest
  <2>5. DOMAIN rest = 1 .. Len(queue) - 1
    BY <2>4, LenProperties
  <2>6. \A k \in DOMAIN rest : rest[k].id # id /\ \E i \in DOMAIN queue : rest[k] = queue[i]
    <3> TAKE k \in DOMAIN rest
    <3>1. CASE k < at
      BY <2>1, <2>3, <2>4, <2>5, <3>1 DEF IsQueue
    <3>2. CASE ~(k < at)
      BY <2>1, <2>3, <2>4, <2>5, <3>2 DEF IsQueue
    <3> QED  BY <3>1, <3>2
  <2>7. \A i \in DOMAIN queue : queue[i].id # id => \E k \in DOMAIN rest : rest[k] = queue[i]
    <3> SUFFICES ASSUME NEW i \in DOMAIN queue, queue[i].id # id
                 PROVE  \E k \in DOMAIN rest : rest[k] = queue[i]
      OBVIOUS
    <3>1. CASE i < at
      BY <2>1, <2>3, <2>4, <2>5, <3>1
    <3>2. CASE i > at
      <4>1. i - 1 \in DOMAIN rest /\ rest[i - 1] = queue[i]
        BY <2>1, <2>3, <2>4, <2>5, <3>2
      <4> QED  BY <4>1
    <3> QED  BY <2>1, <2>3, <3>1, <3>2
  <2>8. \A j, k \in DOMAIN rest : rest[j].id = rest[k].id => j = k
    <3> DEFINE place(k) == IF k < at THEN k ELSE k + 1
    <3>1. \A k \in DOMAIN rest : place(k) \in DOMAIN queue /\ rest[k] = queue[place(k)]
      BY <2>1, <2>3, <2>4, <2>5
    <3>2. \A j, k \in DOMAIN rest : place(j) = place(k) => j = k
      BY <2>1, <2>3, <2>5
    <3> HIDE DEF place
    <3> QED  BY <3>1, <3>2 DEF IsQueue
  <2> QED  BY <2>2, <2>3, <2>4, <2>6, <2>7, <2>8 DEF IsQueue
<1> QED  BY <1>1, <1>2

(* The next queue holds the new record and others of the queue, and as     *)
(* many as there is room for.                                              *)
LEMMA NextQueueProperties ==
  ASSUME IsQueue(queue), NEW item \in ItemType
  PROVE  LET next == NextQueue(item) IN
         /\ IsQueue(next) /\ Len(next) <= QueueCap
         /\ \E k \in DOMAIN next : next[k] = item
         /\ \A k \in DOMAIN next : next[k] = item \/ \E i \in DOMAIN queue : next[k] = queue[i]
         /\ \/ Len(next) = QueueCap
            \/ \A i \in DOMAIN queue : \E k \in DOMAIN next : next[k].id = queue[i].id
<1> DEFINE rest == Without(item.id)
           whole == <<item>> \o rest
           next == FirstOf(QueueCap, whole)
<1>1. /\ rest \in Seq(ItemType) /\ Len(rest) \in Nat /\ DOMAIN rest = 1 .. Len(rest)
      /\ \A j, k \in DOMAIN rest : rest[j].id = rest[k].id => j = k
      /\ \A k \in DOMAIN rest :
           rest[k].id # item.id /\ \E i \in DOMAIN queue : rest[k] = queue[i]
      /\ \A i \in DOMAIN queue :
           queue[i].id # item.id => \E k \in DOMAIN rest : rest[k] = queue[i]
  BY WithoutProperties, LenProperties DEF IsQueue
<1> HIDE DEF rest
<1>2. /\ whole \in Seq(ItemType) /\ Len(whole) = Len(rest) + 1
      /\ whole[1] = item /\ \A k \in 1 .. Len(rest) : whole[k + 1] = rest[k]
  BY <1>1, ConcatProperties
<1> HIDE DEF whole
<1>3. /\ next \in Seq(ItemType)
      /\ Len(next) = IF Len(whole) <= QueueCap THEN Len(whole) ELSE QueueCap
      /\ \A k \in 1 .. Len(next) : next[k] = whole[k]
  BY <1>1, <1>2, DeliveryAssumption DEF FirstOf
<1> HIDE DEF next
<1>4. DOMAIN next = 1 .. Len(next) /\ Len(next) \in Nat \ {0} /\ Len(next) <= QueueCap
  BY <1>1, <1>2, <1>3, LenProperties, DeliveryAssumption
<1>5. \A k \in DOMAIN next : next[k] = IF k = 1 THEN item ELSE rest[k - 1]
  <2> TAKE k \in DOMAIN next
  <2>1. CASE k = 1
    BY <1>2, <1>3, <1>4, <2>1
  <2>2. CASE k # 1
    <3>1. k - 1 \in 1 .. Len(rest) /\ (k - 1) + 1 = k
      BY <1>1, <1>2, <1>3, <1>4, <2>2, DeliveryAssumption
    <3> QED  BY <1>2, <1>3, <1>4, <2>2, <3>1
  <2> QED  BY <2>1, <2>2
<1>6. \A k \in DOMAIN next : k # 1 => k - 1 \in DOMAIN rest
  BY <1>1, <1>2, <1>3, <1>4, DeliveryAssumption
<1>7. \A j, k \in DOMAIN next : next[j].id = next[k].id => j = k
  BY <1>1, <1>4, <1>5, <1>6
<1>8. \A k \in DOMAIN next : next[k] = item \/ \E i \in DOMAIN queue : next[k] = queue[i]
  BY <1>1, <1>5, <1>6
<1>9. 1 \in DOMAIN next /\ next[1] = item
  BY <1>4, <1>5
<1>10. ASSUME Len(next) # QueueCap, NEW i \in DOMAIN queue
       PROVE  \E k \in DOMAIN next : next[k].id = queue[i].id
  <2>1. Len(next) = Len(rest) + 1
    BY <1>1, <1>2, <1>3, <1>10
  <2>2. CASE queue[i].id = item.id
    BY <1>9, <2>2
  <2>3. CASE queue[i].id # item.id
    <3>1. PICK j \in DOMAIN rest : rest[j] = queue[i]
      BY <1>1, <2>3
    <3>2. j + 1 \in DOMAIN next /\ next[j + 1] = rest[j]
      BY <1>1, <1>4, <1>5, <2>1
    <3> QED  BY <3>1, <3>2
  <2> QED  BY <2>2, <2>3
<1>11. NextQueue(item) = next
  BY DEF NextQueue, next, whole, rest
<1> QED  BY <1>3, <1>4, <1>7, <1>8, <1>9, <1>10, <1>11 DEF IsQueue

LEMMA QueueTyped ==
  ASSUME DeliveryInv
  PROVE  /\ IsQueue(queue) /\ DOMAIN queue = 1 .. Len(queue) /\ Len(queue) \in Nat
         /\ \A i \in DOMAIN queue : queue[i] \in ItemType
         /\ IsFiniteSet(enqueued) /\ Cardinality(enqueued) \in Nat
         /\ 1 .. made \subseteq Ids /\ made \in Nat
<1>1. IsQueue(queue) /\ DOMAIN queue = 1 .. Len(queue) /\ Len(queue) \in Nat
  BY LenProperties DEF DeliveryInv, DeliveryTypeOK, IsQueue
<1>2. \A i \in DOMAIN queue : queue[i] \in ItemType
  BY <1>1, ElementOfSeq DEF IsQueue
<1>3. made \in Nat /\ 1 .. made \subseteq Ids
  BY DeliveryAssumption DEF DeliveryInv, DeliveryTypeOK, Ids
<1>4. IsFiniteSet(enqueued) /\ Cardinality(enqueued) \in Nat
  <2>1. IsFiniteSet(1 .. made)
    BY <1>3, FS_Interval
  <2> QED  BY <2>1, FS_Subset, FS_CardinalityType DEF DeliveryInv, QueuedWereMade
<1> QED  BY <1>1, <1>2, <1>3, <1>4

(* A record is pushed out only by a full queue, whose ids are all others.  *)
LEMMA FullQueuePushesOut ==
  ASSUME NEW q, IsQueue(q), Len(q) = QueueCap, NEW ids, IsFiniteSet(ids),
         \A k \in DOMAIN q : q[k].id \in ids,
         NEW out \in ids, \A k \in DOMAIN q : q[k].id # out
  PROVE  Cardinality(ids) > QueueCap
<1> DEFINE f == [k \in 1 .. QueueCap |-> q[k].id]
           others == ids \ {out}
<1>1. DOMAIN q = 1 .. QueueCap /\ QueueCap \in Nat
  BY LenProperties, DeliveryAssumption DEF IsQueue
<1>2. f \in Injection(1 .. QueueCap, others)
  BY <1>1 DEF Injection, IsInjective, IsQueue
<1>3. /\ IsFiniteSet(others) /\ Cardinality(others) = Cardinality(ids) - 1
      /\ Cardinality(ids) \in Nat
  BY FS_RemoveElement, FS_CardinalityType
<1> HIDE DEF f, others
<1>4. Cardinality(1 .. QueueCap) <= Cardinality(others)
  BY <1>2, <1>3, FS_Injection
<1>5. Cardinality(1 .. QueueCap) = QueueCap
  BY <1>1, FS_Interval
<1> QED  BY <1>1, <1>3, <1>4, <1>5

LEMMA EnqueueEffect ==
  ASSUME DeliveryInv, NEW item \in ItemType, item.id \in 1 .. made, EnqueuePending(item)
  PROVE  /\ IsQueue(queue') /\ Len(queue') <= QueueCap
         /\ \A k \in DOMAIN queue' :
              /\ queue'[k] = item \/ \E i \in DOMAIN queue : queue'[k] = queue[i]
              /\ queue'[k].id \in enqueued'
         /\ enqueued \subseteq enqueued' /\ enqueued' \subseteq 1 .. made
         /\ evicted' \subseteq enqueued'
         /\ \A id \in enqueued' :
              Queued(id)' \/ id \in evicted' \/ (id \in enqueued /\ inbox[id] # "none")
         /\ EvictsOnlyWhenFull'
<1>1. /\ \A i \in DOMAIN queue : queue[i].id \in enqueued
      /\ enqueued \subseteq 1 .. made /\ evicted \subseteq enqueued
      /\ \A id \in enqueued : Queued(id) \/ id \in evicted \/ inbox[id] # "none"
      /\ Len(queue) <= QueueCap
      /\ evicted # {} => Cardinality(enqueued) > QueueCap
  BY DEF DeliveryInv, DeliveryTypeOK, QueuedWereMade, NothingSilentlyLost, EvictsOnlyWhenFull
<1>2. CASE UNCHANGED <<queue, enqueued, evicted>>
  BY <1>1, <1>2, QueueTyped DEF Queued, EvictsOnlyWhenFull
<1>3. CASE /\ queue' = NextQueue(item)
           /\ enqueued' = enqueued \cup {item.id}
           /\ evicted' = {id \in evicted \cup {queue[i].id : i \in DOMAIN queue} \cup {item.id} :
                            \A i \in DOMAIN queue' : queue'[i].id # id}
  <2> PICK next : next = NextQueue(item)
    OBVIOUS
  <2>1. /\ IsQueue(next) /\ Len(next) <= QueueCap
        /\ \E k \in DOMAIN next : next[k] = item
        /\ \A k \in DOMAIN next : next[k] = item \/ \E i \in DOMAIN queue : next[k] = queue[i]
        /\ \/ Len(next) = QueueCap
           \/ \A i \in DOMAIN queue : \E k \in DOMAIN next : next[k].id = queue[i].id
    <3>1. IsQueue(queue)
      BY QueueTyped
    <3> QED  BY ONLY <3>1, NextQueueProperties, item \in ItemType, next = NextQueue(item)
  <2>2. queue' = next
    BY <1>3
  <2>3. \A k \in DOMAIN next : next[k].id \in enqueued'
    BY <1>1, <1>3, <2>1
  <2>4. /\ enqueued \subseteq enqueued' /\ enqueued' \subseteq 1 .. made
        /\ evicted' \subseteq enqueued'
    BY <1>1, <1>3
  <2>5. ASSUME NEW id \in enqueued'
        PROVE  Queued(id)' \/ id \in evicted' \/ (id \in enqueued /\ inbox[id] # "none")
    <3>1. id = item.id \/ Queued(id) \/ id \in evicted \/ (id \in enqueued /\ inbox[id] # "none")
      BY <1>1, <1>3
    <3> QED  BY <1>3, <3>1 DEF Queued
  <2>6. EvictsOnlyWhenFull'
    <3> SUFFICES ASSUME NEW out \in evicted'
                 PROVE  Cardinality(enqueued') > QueueCap
      BY DEF EvictsOnlyWhenFull
    <3>1. IsFiniteSet(enqueued')
      <4>1. IsFiniteSet(1 .. made)
        BY QueueTyped, FS_Interval
      <4> QED  BY <2>4, <4>1, FS_Subset
    <3>2. CASE out \in evicted
      <4>1. Cardinality(enqueued) <= Cardinality(enqueued')
        BY <2>4, <3>1, FS_Subset
      <4>2. Cardinality(enqueued) \in Nat /\ Cardinality(enqueued') \in Nat
        BY <3>1, QueueTyped, FS_CardinalityType
      <4> QED  BY <1>1, <3>2, <4>1, <4>2, DeliveryAssumption
    <3>3. CASE out \notin evicted
      <4>1. out \in enqueued' /\ \A k \in DOMAIN next : next[k].id # out
        BY <1>3, <2>2, <2>4
      <4>2. Len(next) = QueueCap
        <5>1. \E i \in DOMAIN queue : queue[i].id = out
          BY <1>3, <2>1, <3>3, <4>1
        <5> QED  BY <2>1, <4>1, <5>1
      <4> QED  BY <2>1, <2>3, <3>1, <4>1, <4>2, FullQueuePushesOut
    <3> QED  BY <3>2, <3>3
  <2> QED  BY <2>1, <2>2, <2>3, <2>4, <2>5, <2>6
<1> QED  BY <1>2, <1>3 DEF EnqueuePending

LEMMA RemoveEffect ==
  ASSUME DeliveryInv, NEW id, RemovePending(id)
  PROVE  /\ IsQueue(queue') /\ Len(queue') <= QueueCap /\ ~Queued(id)'
         /\ \A k \in DOMAIN queue' : \E i \in DOMAIN queue : queue'[k] = queue[i]
         /\ \A x : Queued(x) /\ x # id => Queued(x)'
         /\ UNCHANGED <<enqueued, evicted>>
<1> PICK rest : rest = Without(id)
  OBVIOUS
<1>1. queue' = rest /\ UNCHANGED <<enqueued, evicted>>
  BY DEF RemovePending
<1>2. IsQueue(queue) /\ Len(queue) <= QueueCap /\ Len(queue) \in Nat
  BY QueueTyped DEF DeliveryInv, DeliveryTypeOK
<1>3. /\ IsQueue(rest) /\ Len(rest) <= Len(queue)
      /\ \A k \in DOMAIN rest : rest[k].id # id /\ \E i \in DOMAIN queue : rest[k] = queue[i]
      /\ \A i \in DOMAIN queue : queue[i].id # id => \E k \in DOMAIN rest : rest[k] = queue[i]
  BY ONLY <1>2, WithoutProperties, rest = Without(id)
<1>4. Len(rest) \in Nat
  BY <1>3, LenProperties DEF IsQueue
<1> QED  BY <1>1, <1>2, <1>3, <1>4, DeliveryAssumption DEF Queued

-----------------------------------------------------------------------------
(* Steps of a handler that leave the queue alone *)

HandlerType == [pc : HandlerPcs, id : Ids \cup {NoId}]

(* What may be written in the inbox by a handler: whole signals.           *)
InboxFills ==
  /\ inbox' \in [Ids -> {"none", "hollow", "whole"}]
  /\ \A id \in Ids : inbox'[id] = inbox[id] \/ inbox'[id] = "whole"

LEMMA ArrivalFills ==
  ASSUME DeliveryInv, NEW id \in Ids, MayHaveArrived(id, "whole") \/ Delivered(id, "whole")
  PROVE  InboxFills
  BY DEF DeliveryInv, DeliveryTypeOK, MayHaveArrived, Delivered, InboxFills

LEMMA NumberedId ==
  ASSUME DeliveryInv, NEW h \in Handlers
  PROVE  /\ handler[h] \in HandlerType /\ handler[h].id \in Ids \cup {NoId}
         /\ handler[h].pc \in Numbered => handler[h].id \in Ids /\ handler[h].id \in 1 .. made
<1>1. handler[h] \in HandlerType /\ handler[h].id \in Ids \cup {NoId}
  BY DEF DeliveryInv, DeliveryTypeOK, HandlerType
<1>2. handler[h].pc \in Numbered => handler[h].id \in 1 .. made
  BY QueueTyped DEF DeliveryInv, HandlersOwnTheirIds, NoId
<1> QED  BY <1>1, <1>2, QueueTyped

(* A handler that goes on keeps its id, or is done with it; it goes on     *)
(* only to where the invariant lets it be.                                 *)
LEMMA HandlerStep ==
  ASSUME DeliveryInv, NEW h \in Handlers, NEW next \in HandlerType,
         handler' = [handler EXCEPT ![h] = next],
         UNCHANGED <<deployment, queue, made, sync, enqueued, evicted>>,
         submitting' \in BOOLEAN, closed' \in BOOLEAN, InboxFills,
         history' \in [Ids -> Statuses],
         \A id \in Ids : history'[id] # history[id] => id = handler[h].id,
         next.id = handler[h].id \/ next.id = NoId,
         next.pc \in Numbered => next.id # NoId,
         next.pc \in {"delivered", "recording"} => inbox'[next.id] = "whole",
         next.pc = "recording" => ~Queued(next.id),
         next.pc \in {"queueing", "uploading", "requeue"} => ~Told(next.id)',
         next.pc \in Sending => handler[h].pc \in Sending,
         \A id \in Ids : Told(id)' /\ ~Told(id) =>
           /\ inbox'[id] = "whole" /\ ~Queued(id)
           /\ handler[h].id = id /\ handler[h].pc \in Sending
  PROVE  DeliveryInv'
<1>1. /\ handler \in [Handlers -> HandlerType] /\ handler' \in [Handlers -> HandlerType]
      /\ \A k \in Handlers : handler'[k] = IF k = h THEN next ELSE handler[k]
  BY DEF DeliveryInv, DeliveryTypeOK, HandlerType
<1>2. DeliveryTypeOK'
  BY <1>1 DEF DeliveryInv, DeliveryTypeOK, InboxFills, HandlerType
<1>3. \A k \in Handlers : k # h /\ handler[k].pc \in Numbered =>
        handler[k].id \in Ids /\ handler[k].id # handler[h].id
  BY NumberedId DEF DeliveryInv, HandlersOwnTheirIds, NoId
<1>4. HandlersOwnTheirIds'
  <2>1. \A k \in Handlers : handler'[k].id \in 0 .. made
    BY <1>1, QueueTyped DEF DeliveryInv, HandlersOwnTheirIds, NoId
  <2>2. \A k \in Handlers : handler'[k].pc \in Numbered => handler'[k].id # NoId
    BY <1>1 DEF DeliveryInv, HandlersOwnTheirIds
  <2>3. \A k \in Handlers : handler'[k].id # NoId => handler'[k].id = handler[k].id
    BY <1>1
  <2>4. \A j, k \in Handlers : handler'[j].id = handler'[k].id /\ handler'[j].id # NoId => j = k
    BY <2>3 DEF DeliveryInv, HandlersOwnTheirIds
  <2> QED  BY <2>1, <2>2, <2>4 DEF HandlersOwnTheirIds
<1>5. QueuedWereMade'
  BY DEF DeliveryInv, QueuedWereMade
<1>6. HandlersKnow'
  <2> SUFFICES ASSUME NEW k \in Handlers
               PROVE  LET id == handler'[k].id IN
                      /\ handler'[k].pc \in {"delivered", "recording"} => inbox'[id] = "whole"
                      /\ handler'[k].pc = "recording" => ~Queued(id)
                      /\ handler'[k].pc \in {"queueing", "uploading", "requeue"}
                            => history'[id] \notin {"submitted", "withdrawn"}
    BY DEF HandlersKnow, Queued, Told
  <2>1. CASE k = h
    BY <1>1, <2>1 DEF Told
  <2>2. CASE k # h /\ handler[k].pc \in Numbered
    BY <1>1, <1>3, <2>2 DEF DeliveryInv, HandlersKnow, InboxFills, Told
  <2>3. CASE k # h /\ handler[k].pc \notin Numbered
    BY <1>1, <2>3 DEF Numbered
  <2> QED  BY <2>1, <2>2, <2>3
<1>7. FallbackIsFinal'
  <2> SUFFICES ASSUME NEW id \in Ids, FallbackCopy(id)
               PROVE  /\ deployment.fallback /\ ~Told(id)'
                      /\ \A k \in Handlers : handler'[k].id = id => handler'[k].pc \notin Sending
    BY DEF FallbackIsFinal, FallbackCopy
  <2>1. /\ deployment.fallback /\ ~Told(id)
        /\ \A k \in Handlers : handler[k].id = id => handler[k].pc \notin Sending
    BY DEF DeliveryInv, FallbackIsFinal
  <2>2. ~Told(id)'
    BY <2>1 DEF Told
  <2>3. NoId \notin Ids
    BY DEF NoId, Ids
  <2> QED  BY <1>1, <2>1, <2>2, <2>3
<1>8. HollowByFallback'
  BY DEF DeliveryInv, HollowByFallback, InboxFills
<1>9. SavedHasArrived' /\ NothingSilentlyLost'
  <2>1. \A id \in Ids : inbox[id] # "none" => inbox'[id] # "none"
    BY DEF InboxFills
  <2>2. sync.pc = "saving" => Head(sync.todo).id \in Ids
    <3>1. sync.todo \in Seq(ItemType) /\ (sync.pc = "saving" => sync.todo # <<>>)
      BY DEF DeliveryInv, DeliveryTypeOK
    <3>2. sync.pc = "saving" => Head(sync.todo) \in ItemType
      BY <3>1, HeadTailProperties
    <3> QED  BY <3>2 DEF ItemType
  <2>3. enqueued \subseteq Ids
    BY DEF DeliveryInv, DeliveryTypeOK
  <2> QED  BY <2>1, <2>2, <2>3 DEF DeliveryInv, SavedHasArrived, NothingSilentlyLost, Queued
<1>10. SubmittedIsDelivered'
  BY DEF DeliveryInv, SubmittedIsDelivered, InboxFills, Queued
<1>11. EvictsOnlyWhenFull'
  BY DEF DeliveryInv, EvictsOnlyWhenFull
<1> QED  BY <1>2, <1>4, <1>5, <1>6, <1>7, <1>8, <1>9, <1>10, <1>11 DEF DeliveryInv

LEMMA GotoShape ==
  ASSUME DeliveryInv, NEW h \in Handlers, NEW pc \in HandlerPcs, Goto(h, pc)
  PROVE  LET next == [pc |-> pc, id |-> handler[h].id] IN
         next \in HandlerType /\ handler' = [handler EXCEPT ![h] = next]
<1> PICK next : next = [pc |-> pc, id |-> handler[h].id]
  OBVIOUS
<1>1. handler \in [Handlers -> HandlerType] /\ handler[h] \in HandlerType
  BY DEF DeliveryInv, DeliveryTypeOK, HandlerType
<1>2. next \in HandlerType
  BY <1>1 DEF HandlerType
<1>3. [handler[h] EXCEPT !.pc = pc] = next
  BY <1>1 DEF HandlerType
<1>4. handler' = [handler EXCEPT ![h] = [handler[h] EXCEPT !.pc = pc]]
  BY DEF Goto
<1> QED  BY <1>2, <1>3, <1>4

(* A handler goes where it has not got an answer in hand.                  *)
LEMMA PlainStep ==
  ASSUME DeliveryInv, NEW h \in Handlers, NEW pc \in HandlerPcs \ Numbered, Goto(h, pc),
         UNCHANGED <<deployment, queue, history, made, sync, enqueued, evicted>>,
         submitting' \in BOOLEAN, closed' \in BOOLEAN, InboxFills
  PROVE  DeliveryInv'
<1> PICK next : next = [pc |-> pc, id |-> handler[h].id]
  OBVIOUS
<1>1. next \in HandlerType /\ handler' = [handler EXCEPT ![h] = next]
  BY GotoShape
<1>2. /\ history' \in [Ids -> Statuses]
      /\ \A id \in Ids : history'[id] = history[id] /\ Told(id)' = Told(id)
  BY DEF DeliveryInv, DeliveryTypeOK, Told
<1>3. next.pc \notin Numbered /\ next.id = handler[h].id
  BY <1>1
<1> QED  BY <1>1, <1>2, <1>3, HandlerStep DEF Numbered, Sending

LEMMA SilentInbox ==
  ASSUME DeliveryInv, UNCHANGED inbox
  PROVE  InboxFills /\ submitting \in BOOLEAN /\ closed \in BOOLEAN
  BY DEF DeliveryInv, DeliveryTypeOK, InboxFills

LEMMA ClickSteps ==
  ASSUME DeliveryInv, NEW h \in Handlers,
         \/ Click(h) \/ CheckRefuses(h) \/ CheckPasses(h) \/ PrepareFails(h)
         \/ QueueFails(h) \/ UploadTooLate(h) \/ ArchiveFails(h)
  PROVE  DeliveryInv'
<1>1. /\ \E pc \in {"checking", "idle", "preparing", "failing"} : Goto(h, pc)
      /\ UNCHANGED <<deployment, queue, history, inbox, closed, made, sync, enqueued, evicted>>
      /\ submitting' = submitting \/ submitting' = TRUE
  BY DEF Click, CheckRefuses, CheckPasses, PrepareFails, QueueFails, UploadTooLate, ArchiveFails
<1>2. {"checking", "idle", "preparing", "failing"} \subseteq HandlerPcs \ Numbered
  BY DEF HandlerPcs, Numbered
<1> QED  BY <1>1, <1>2, PlainStep, SilentInbox

LEMMA UploadThrowsStep ==
  ASSUME DeliveryInv, NEW h \in Handlers, UploadThrows(h)
  PROVE  DeliveryInv'
<1>1. handler[h].id \in Ids
  BY NumberedId DEF UploadThrows, At, Numbered
<1>2. InboxFills
  BY <1>1, ArrivalFills DEF UploadThrows
<1>3. "failing" \in HandlerPcs \ Numbered
  BY DEF HandlerPcs, Numbered
<1>4. submitting \in BOOLEAN /\ closed \in BOOLEAN
  BY DEF DeliveryInv, DeliveryTypeOK
<1> QED  BY <1>2, <1>3, <1>4, PlainStep DEF UploadThrows

(* The upload arrived, or Walrus holds it.                                 *)
LEMMA UploadedStep ==
  ASSUME DeliveryInv, NEW h \in Handlers, UploadConfirmed(h) \/ UploadStored(h)
  PROVE  DeliveryInv'
<1> PICK pc : pc = IF UploadConfirmed(h) THEN "delivered" ELSE "stored"
  OBVIOUS
<1> PICK next : next = [pc |-> pc, id |-> handler[h].id]
  OBVIOUS
<1>1. pc \in {"delivered", "stored"} /\ pc \in HandlerPcs
  BY DEF HandlerPcs
<1>2. Goto(h, pc) /\ handler[h].pc = "uploading"
  BY DEF UploadConfirmed, UploadStored, At
<1>3. next \in HandlerType /\ handler' = [handler EXCEPT ![h] = next]
  BY <1>1, <1>2, GotoShape
<1>4. handler[h].id \in Ids /\ handler[h].id # NoId
  BY <1>2, NumberedId DEF Numbered, Ids, NoId
<1>5. InboxFills
  BY <1>4, ArrivalFills DEF UploadConfirmed, UploadStored
<1>6. pc = "delivered" => inbox'[handler[h].id] = "whole"
  BY <1>4 DEF UploadConfirmed, Delivered, DeliveryInv, DeliveryTypeOK
<1>7. /\ UNCHANGED <<deployment, queue, history, submitting, closed, made, sync,
                     enqueued, evicted>>
      /\ submitting \in BOOLEAN /\ closed \in BOOLEAN /\ history \in [Ids -> Statuses]
  BY DEF UploadConfirmed, UploadStored, DeliveryInv, DeliveryTypeOK
<1>8. next.pc = pc /\ next.id = handler[h].id /\ \A id \in Ids : Told(id)' = Told(id)
  BY <1>3, <1>7 DEF Told
<1> QED  BY <1>1, <1>2, <1>3, <1>4, <1>5, <1>6, <1>7, <1>8, HandlerStep DEF Sending, Numbered

(* How a handler ends: what it tells My Responses, and where it goes.  The *)
(* catch block need not get to tell anything.                              *)
Outcomes == {[at |-> "keptLocally", status |-> "local-only", pc |-> "settling"],
             [at |-> "stored", status |-> "pending", pc |-> "requeue"],
             [at |-> "recording", status |-> "submitted", pc |-> "archiving"],
             [at |-> "failing", status |-> "failed", pc |-> "settling"],
             [at |-> "failing", status |-> "withdrawn", pc |-> "settling"]}

SaysNothing(h) ==
  /\ handler[h].pc = "failing" /\ Goto(h, "settling")
  /\ UNCHANGED <<deployment, queue, history, inbox, submitting, closed, made, sync,
                 enqueued, evicted>>

LEMMA Endings ==
  ASSUME DeliveryInv, NEW h \in Handlers,
         FinishKeptLocally(h) \/ FinishStored(h) \/ RecordSubmitted(h) \/ Fail(h)
  PROVE  \/ SaysNothing(h)
         \/ \E o \in Outcomes :
              /\ handler[h].id # NoId /\ At(h, o.at) /\ Record(h, o.status, o.pc)
              /\ o.at = "failing" =>
                   (o.status = "withdrawn" <=> history[handler[h].id] = "submitted")
              /\ UNCHANGED <<queue, enqueued, evicted>>
<1>1. CASE handler[h].pc # "failing"
  <2>1. handler[h].id # NoId
    BY <1>1 DEF FinishKeptLocally, FinishStored, RecordSubmitted, Fail, At,
                DeliveryInv, HandlersOwnTheirIds, Numbered
  <2> QED  BY <1>1, <2>1 DEF FinishKeptLocally, FinishStored, RecordSubmitted, Fail, At, Outcomes
<1>2. CASE handler[h].pc = "failing"
  BY <1>2 DEF FinishKeptLocally, FinishStored, RecordSubmitted, Fail, At, SaysNothing, Outcomes
<1> QED  BY <1>1, <1>2

(* My Responses is told how it ended.                                      *)
LEMMA RecordSteps ==
  ASSUME DeliveryInv, NEW h \in Handlers,
         FinishKeptLocally(h) \/ FinishStored(h) \/ RecordSubmitted(h) \/ Fail(h)
  PROVE  DeliveryInv'
<1>1. CASE SaysNothing(h)
  <2>1. "settling" \in HandlerPcs \ Numbered
    BY DEF HandlerPcs, Numbered
  <2> QED  BY <1>1, <2>1, PlainStep, SilentInbox DEF SaysNothing
<1>2. CASE ~SaysNothing(h)
  <2> PICK mine : mine = handler[h].id
    OBVIOUS
  <2>1. PICK o \in Outcomes :
          /\ mine # NoId /\ At(h, o.at) /\ Record(h, o.status, o.pc)
          /\ o.at = "failing" => (o.status = "withdrawn" <=> history[mine] = "submitted")
          /\ UNCHANGED <<queue, enqueued, evicted>>
    BY <1>2, Endings
  <2>2. /\ o.pc \in HandlerPcs /\ o.status \in Statuses
        /\ o.pc \in {"settling", "requeue", "archiving"}
        /\ o.pc = "requeue" => o.at = "stored" /\ o.status = "pending"
        /\ o.status = "submitted" => o.at = "recording"
        /\ o.status = "withdrawn" => o.at = "failing"
    BY DEF HandlerPcs, Statuses, Outcomes
  <2> PICK next : next = [pc |-> o.pc, id |-> mine]
    OBVIOUS
  <2>3. next \in HandlerType /\ handler' = [handler EXCEPT ![h] = next]
    BY <2>1, <2>2, GotoShape DEF Record
  <2>4. mine \in Ids
    BY <2>1, NumberedId
  <2>5. /\ history \in [Ids -> Statuses]
        /\ history' = [history EXCEPT ![mine] = o.status]
        /\ UNCHANGED <<deployment, inbox, submitting, closed, made, sync>>
        /\ submitting \in BOOLEAN /\ closed \in BOOLEAN /\ InboxFills
    BY <2>1, SilentInbox DEF Record, DeliveryInv, DeliveryTypeOK
  <2>6. /\ history' \in [Ids -> Statuses]
        /\ \A id \in Ids : history'[id] = IF id = mine THEN o.status ELSE history[id]
    BY <2>2, <2>4, <2>5
  <2>7. o.status = "submitted" =>
          inbox'[mine] = "whole" /\ ~Queued(mine) /\ handler[h].pc \in Sending
    BY <2>1, <2>2, <2>5 DEF At, DeliveryInv, HandlersKnow, Sending, Numbered
  <2>8. next.pc = o.pc /\ next.id = mine
    BY <2>3
  <2>9. o.pc = "requeue" => ~Told(mine)' /\ handler[h].pc \in Sending
    BY <2>1, <2>2, <2>4, <2>6 DEF At, Sending, Numbered, Told
  <2>10. \A id \in Ids : Told(id)' /\ ~Told(id) =>
           inbox'[id] = "whole" /\ ~Queued(id) /\ mine = id /\ handler[h].pc \in Sending
    <3>1. o.status = "withdrawn" => Told(mine)
      BY <2>1, <2>2 DEF Told
    <3> QED  BY <2>6, <2>7, <3>1 DEF Told
  <2>11. next.pc \notin {"queueing", "uploading", "delivered", "recording"}
    BY <2>2, <2>8
  <2>12. next.pc \in Sending => next.pc = "requeue"
    BY <2>2, <2>8 DEF Sending, Numbered
  <2>13. next.pc \in Numbered => next.id # NoId
    BY <2>1, <2>8
  <2> QED  BY <2>1, <2>3, <2>5, <2>6, <2>8, <2>9, <2>10, <2>11, <2>12, <2>13, HandlerStep
<1> QED  BY <1>1, <1>2

LEMMA SettleStep ==
  ASSUME DeliveryInv, NEW h \in Handlers, Settle(h)
  PROVE  DeliveryInv'
<1> PICK next : next = [pc |-> "idle", id |-> NoId]
  OBVIOUS
<1>1. next \in HandlerType /\ next.pc \notin Numbered /\ next.id = NoId
  BY DEF HandlerType, HandlerPcs, Numbered
<1>2. history \in [Ids -> Statuses] /\ (UNCHANGED history => \A id \in Ids : Told(id)' = Told(id))
  BY DEF DeliveryInv, DeliveryTypeOK, Told
<1> QED  BY <1>1, <1>2, HandlerStep, SilentInbox DEF Settle, Numbered, Sending

LEMMA PrepareStep ==
  ASSUME DeliveryInv, NEW h \in Handlers, Prepare(h)
  PROVE  DeliveryInv'
<1> PICK new : new = made + 1
  OBVIOUS
<1> PICK next : next = [pc |-> "queueing", id |-> new]
  OBVIOUS
<1>1. /\ made < MaxSubmissions /\ made' = new
      /\ handler' = [handler EXCEPT ![h] = next]
      /\ history' = [history EXCEPT ![new] = "pending"]
      /\ UNCHANGED <<deployment, queue, inbox, submitting, closed, sync, enqueued, evicted>>
  BY DEF Prepare
<1>2. made \in Nat /\ new \in Nat /\ new <= MaxSubmissions /\ new > made /\ new \in Ids
  BY <1>1, QueueTyped, DeliveryAssumption DEF Ids
<1>3. /\ handler \in [Handlers -> HandlerType]
      /\ \A k \in Handlers : handler'[k] = IF k = h THEN next ELSE handler[k]
  BY <1>1 DEF DeliveryInv, DeliveryTypeOK, HandlerType
<1>4. next \in HandlerType /\ next.pc = "queueing" /\ next.id = new
  BY <1>2 DEF HandlerType, HandlerPcs
<1>5. \A id \in Ids : /\ history'[id] = IF id = new THEN "pending" ELSE history[id]
                      /\ Told(id)' <=> id # new /\ Told(id)
  BY <1>1, <1>2 DEF DeliveryInv, DeliveryTypeOK, Told
<1>6. \A k \in Handlers : handler[k].id \in 0 .. made /\ handler[k].id # new
  BY <1>2 DEF DeliveryInv, HandlersOwnTheirIds
<1>7. DeliveryTypeOK'
  <2>1. history' \in [Ids -> Statuses]
    BY <1>1 DEF DeliveryInv, DeliveryTypeOK, Statuses
  <2>2. handler' \in [Handlers -> HandlerType]
    BY <1>1, <1>3, <1>4
  <2>3. made' \in 0 .. MaxSubmissions
    BY <1>1, <1>2, DeliveryAssumption
  <2> QED  BY <1>1, <2>1, <2>2, <2>3 DEF DeliveryInv, DeliveryTypeOK, HandlerType
<1>8. HandlersOwnTheirIds'
  <2>1. \A k \in Handlers : handler'[k].id \in 0 .. made'
    BY <1>1, <1>2, <1>3, <1>4, <1>6
  <2>2. \A k \in Handlers : handler'[k].pc \in Numbered => handler'[k].id # NoId
    BY <1>2, <1>3, <1>4 DEF DeliveryInv, HandlersOwnTheirIds, NoId, Ids
  <2>3. \A j, k \in Handlers : handler'[j].id = handler'[k].id /\ handler'[j].id # NoId => j = k
    BY <1>3, <1>4, <1>6 DEF DeliveryInv, HandlersOwnTheirIds
  <2> QED  BY <2>1, <2>2, <2>3 DEF HandlersOwnTheirIds
<1>9. QueuedWereMade'
  BY <1>1, <1>2 DEF DeliveryInv, QueuedWereMade
<1>10. HandlersKnow'
  <2>1. \A k \in Handlers : k # h /\ handler[k].pc \in Numbered => handler[k].id \in Ids
    BY NumberedId
  <2> QED  BY <1>1, <1>2, <1>3, <1>4, <1>5, <1>6, <2>1
             DEF DeliveryInv, HandlersKnow, Queued, Numbered
<1>11. FallbackIsFinal'
  <2> SUFFICES ASSUME NEW id \in Ids, FallbackCopy(id)
               PROVE  /\ deployment.fallback /\ ~Told(id)'
                      /\ \A k \in Handlers : handler'[k].id = id => handler'[k].pc \notin Sending
    BY <1>1 DEF FallbackIsFinal, FallbackCopy
  <2>1. id \in 1 .. made /\ id # new
    BY <1>2 DEF DeliveryInv, QueuedWereMade, FallbackCopy, Item
  <2> QED  BY <1>3, <1>4, <1>5, <2>1 DEF DeliveryInv, FallbackIsFinal
<1>12. HollowByFallback' /\ SavedHasArrived' /\ NothingSilentlyLost' /\ EvictsOnlyWhenFull'
  BY <1>1 DEF DeliveryInv, HollowByFallback, SavedHasArrived, NothingSilentlyLost,
              EvictsOnlyWhenFull, Queued
<1>13. SubmittedIsDelivered'
  BY <1>1, <1>5 DEF DeliveryInv, SubmittedIsDelivered, Queued
<1> QED  BY <1>7, <1>8, <1>9, <1>10, <1>11, <1>12, <1>13 DEF DeliveryInv

-----------------------------------------------------------------------------
(* Steps of a handler that change the queue *)

LEMMA EnqueueStep ==
  ASSUME DeliveryInv, NEW h \in Handlers, handler[h].pc \in {"queueing", "uploading", "requeue"},
         NEW copy \in Copies, EnqueuePending(Item(handler[h].id, copy)),
         NEW pc \in {"uploading", "settling", "keptLocally", "failing"}, Goto(h, pc),
         copy = "fallback" => deployment.fallback /\ pc \in {"keptLocally", "failing"},
         UNCHANGED <<deployment, history, submitting, closed, made, sync>>, InboxFills
  PROVE  DeliveryInv'
<1> PICK mine : mine = handler[h].id
  OBVIOUS
<1> PICK item : item = Item(mine, copy)
  OBVIOUS
<1> PICK next : next = [pc |-> pc, id |-> mine]
  OBVIOUS
<1>1. /\ mine \in Ids /\ mine \in 1 .. made /\ mine # NoId
      /\ handler[h].pc \in Sending /\ ~Told(mine) /\ \A id : Told(id)' = Told(id)
  BY NumberedId DEF Numbered, Sending, Ids, NoId, DeliveryInv, HandlersKnow, Told
<1>2. item \in ItemType /\ item.id = mine /\ item.copy = copy
  BY <1>1 DEF Item, ItemType
<1>3. next \in HandlerType /\ handler' = [handler EXCEPT ![h] = next]
  BY GotoShape DEF HandlerPcs
<1>4. /\ handler \in [Handlers -> HandlerType] /\ handler' \in [Handlers -> HandlerType]
      /\ \A k \in Handlers : handler'[k] = IF k = h THEN next ELSE handler[k]
  BY <1>3 DEF DeliveryInv, DeliveryTypeOK, HandlerType
<1>5. next.pc = pc /\ next.id = mine
  BY <1>3
<1>6. /\ IsQueue(queue') /\ Len(queue') <= QueueCap
      /\ \A k \in DOMAIN queue' :
           /\ queue'[k] = item \/ \E i \in DOMAIN queue : queue'[k] = queue[i]
           /\ queue'[k].id \in enqueued'
      /\ enqueued \subseteq enqueued' /\ enqueued' \subseteq 1 .. made
      /\ evicted' \subseteq enqueued'
      /\ \A id \in enqueued' :
           Queued(id)' \/ id \in evicted' \/ (id \in enqueued /\ inbox[id] # "none")
      /\ EvictsOnlyWhenFull'
  BY <1>1, <1>2, EnqueueEffect
<1>7. \A k \in Handlers : k # h => handler[k].id # mine
  BY <1>1 DEF DeliveryInv, HandlersOwnTheirIds
<1>8. DeliveryTypeOK'
  <2>1. enqueued' \subseteq Ids
    BY <1>6, QueueTyped
  <2> QED  BY <1>4, <1>6, <2>1 DEF DeliveryInv, DeliveryTypeOK, IsQueue, InboxFills, HandlerType
<1>9. HandlersOwnTheirIds'
  <2>1. \A k \in Handlers : handler'[k].id = handler[k].id
    BY <1>4, <1>5
  <2>2. \A k \in Handlers : handler'[k].pc \in Numbered => handler'[k].id # NoId
    BY <1>1, <1>4, <1>5 DEF DeliveryInv, HandlersOwnTheirIds
  <2> QED  BY <2>1, <2>2 DEF DeliveryInv, HandlersOwnTheirIds
<1>10. QueuedWereMade'
  BY <1>6 DEF DeliveryInv, QueuedWereMade
<1>11. HandlersKnow'
  <2>1. \A k \in Handlers : k # h /\ handler[k].pc \in Numbered => handler[k].id \in Ids
    BY NumberedId
  <2>2. ASSUME NEW k \in Handlers, k # h, handler[k].pc = "recording"
        PROVE  \A i \in DOMAIN queue' : queue'[i].id # handler[k].id
    BY <1>2, <1>6, <1>7, <2>2 DEF DeliveryInv, HandlersKnow, Queued
  <2>3. ASSUME NEW k \in Handlers, k # h
        PROVE  /\ handler[k].pc \in {"delivered", "recording"} => inbox'[handler[k].id] = "whole"
               /\ handler[k].pc \in {"queueing", "uploading", "requeue"}
                    => ~Told(handler[k].id)
    BY <2>1, <2>3 DEF DeliveryInv, HandlersKnow, InboxFills, Numbered
  <2> QED  BY <1>1, <1>4, <1>5, <2>2, <2>3 DEF HandlersKnow, Queued
<1>12. FallbackIsFinal'
  <2> SUFFICES ASSUME NEW id \in Ids, FallbackCopy(id)'
               PROVE  /\ deployment.fallback /\ ~Told(id)
                      /\ \A k \in Handlers : handler'[k].id = id => handler'[k].pc \notin Sending
    BY DEF Told, FallbackIsFinal
  <2>1. FallbackCopy(id) \/ (id = mine /\ copy = "fallback")
    BY <1>2, <1>6 DEF FallbackCopy, Item
  <2>2. CASE FallbackCopy(id)
    <3>1. /\ deployment.fallback /\ ~Told(id)
          /\ \A k \in Handlers : handler[k].id = id => handler[k].pc \notin Sending
      BY <2>2 DEF DeliveryInv, FallbackIsFinal
    <3> QED  BY <1>1, <1>4, <1>5, <3>1
  <2>3. CASE id = mine /\ copy = "fallback"
    BY <1>1, <1>4, <1>5, <1>7, <2>3 DEF Sending, Numbered
  <2> QED  BY <2>1, <2>2, <2>3
<1>13. HollowByFallback'
  BY DEF DeliveryInv, HollowByFallback, InboxFills
<1>14. SavedHasArrived' /\ NothingSilentlyLost'
  <2>1. \A id \in Ids : inbox[id] # "none" => inbox'[id] # "none"
    BY DEF InboxFills
  <2>2. sync.pc = "saving" => Head(sync.todo).id \in Ids
    <3>1. sync.todo \in Seq(ItemType) /\ (sync.pc = "saving" => sync.todo # <<>>)
      BY DEF DeliveryInv, DeliveryTypeOK
    <3>2. sync.pc = "saving" => Head(sync.todo) \in ItemType
      BY <3>1, HeadTailProperties
    <3> QED  BY <3>2 DEF ItemType
  <2>3. enqueued' \subseteq Ids
    BY <1>6, QueueTyped
  <2> QED  BY <1>6, <2>1, <2>2, <2>3 DEF DeliveryInv, SavedHasArrived, NothingSilentlyLost
<1>15. SubmittedIsDelivered'
  BY <1>1, <1>2, <1>6 DEF DeliveryInv, SubmittedIsDelivered, InboxFills, Queued
<1> QED  BY <1>6, <1>8, <1>9, <1>10, <1>11, <1>12, <1>13, <1>14, <1>15 DEF DeliveryInv

LEMMA QueueingSteps ==
  ASSUME DeliveryInv, NEW h \in Handlers, QueueRaw(h) \/ Requeue(h) \/ UploadFallsBack(h)
  PROVE  DeliveryInv'
<1>1. CASE QueueRaw(h)
  BY <1>1, EnqueueStep, SilentInbox DEF QueueRaw, At, Copies
<1>2. CASE Requeue(h)
  BY <1>2, EnqueueStep, SilentInbox DEF Requeue, At, Copies
<1>3. CASE UploadFallsBack(h)
  <2>1. /\ handler[h].pc = "uploading" /\ deployment.fallback
        /\ EnqueuePending(Item(handler[h].id, "fallback"))
        /\ MayHaveArrived(handler[h].id, "whole")
        /\ \E pc \in {"keptLocally", "failing"} : Goto(h, pc)
        /\ UNCHANGED <<deployment, history, submitting, closed, made, sync>>
    BY <1>3 DEF UploadFallsBack, At
  <2>2. handler[h].id \in Ids
    BY <2>1, NumberedId DEF Numbered
  <2>3. InboxFills
    BY <2>1, <2>2, ArrivalFills
  <2> QED  BY <2>1, <2>3, EnqueueStep DEF Copies
<1> QED  BY <1>1, <1>2, <1>3

LEMMA FinishDeliveredStep ==
  ASSUME DeliveryInv, NEW h \in Handlers, FinishDelivered(h)
  PROVE  DeliveryInv'
<1> PICK mine : mine = handler[h].id
  OBVIOUS
<1> PICK next : next = [pc |-> "recording", id |-> mine]
  OBVIOUS
<1>1. /\ handler[h].pc = "delivered" /\ mine \in Ids /\ mine # NoId /\ inbox[mine] = "whole"
      /\ UNCHANGED <<deployment, history, inbox, submitting, closed, made, sync>>
      /\ Goto(h, "recording") /\ RemovePending(mine)
  BY NumberedId DEF FinishDelivered, At, Numbered, DeliveryInv, HandlersKnow, Ids, NoId
<1>2. next \in HandlerType /\ handler' = [handler EXCEPT ![h] = next]
  BY <1>1, GotoShape DEF HandlerPcs
<1>3. /\ handler \in [Handlers -> HandlerType] /\ handler' \in [Handlers -> HandlerType]
      /\ \A k \in Handlers : handler'[k] = IF k = h THEN next ELSE handler[k]
  BY <1>2 DEF DeliveryInv, DeliveryTypeOK, HandlerType
<1>4. next.pc = "recording" /\ next.id = mine
  BY <1>2
<1>5. /\ IsQueue(queue') /\ Len(queue') <= QueueCap /\ ~Queued(mine)'
      /\ \A k \in DOMAIN queue' : \E i \in DOMAIN queue : queue'[k] = queue[i]
      /\ \A x : Queued(x) /\ x # mine => Queued(x)'
      /\ UNCHANGED <<enqueued, evicted>>
  BY <1>1, RemoveEffect
<1>6. DeliveryTypeOK'
  BY <1>1, <1>3, <1>5 DEF DeliveryInv, DeliveryTypeOK, IsQueue, HandlerType
<1>7. HandlersOwnTheirIds'
  <2>1. \A k \in Handlers : handler'[k].id = handler[k].id
    BY <1>3, <1>4
  <2>2. \A k \in Handlers : handler'[k].pc \in Numbered => handler'[k].id # NoId
    BY <1>1, <1>3, <1>4 DEF DeliveryInv, HandlersOwnTheirIds
  <2> QED  BY <1>1, <2>1, <2>2 DEF DeliveryInv, HandlersOwnTheirIds
<1>8. QueuedWereMade'
  BY <1>1, <1>5 DEF DeliveryInv, QueuedWereMade
<1>9. \A x : Queued(x)' => Queued(x)
  BY <1>5 DEF Queued
<1>10. HandlersKnow'
  <2>1. \A k \in Handlers : k # h /\ handler[k].pc = "recording" =>
          \A i \in DOMAIN queue' : queue'[i].id # handler[k].id
    BY <1>5 DEF DeliveryInv, HandlersKnow, Queued
  <2> QED  BY <1>1, <1>3, <1>4, <1>5, <2>1 DEF Told, DeliveryInv, HandlersKnow, Queued
<1>11. FallbackIsFinal'
  <2> SUFFICES ASSUME NEW id \in Ids, FallbackCopy(id)'
               PROVE  /\ deployment.fallback /\ ~Told(id)
                      /\ \A k \in Handlers : handler'[k].id = id => handler'[k].pc \notin Sending
    BY <1>1 DEF Told, FallbackIsFinal
  <2>1. FallbackCopy(id)
    BY <1>1, <1>5 DEF FallbackCopy
  <2> QED  BY <1>1, <1>3, <1>4, <2>1 DEF DeliveryInv, FallbackIsFinal, Sending, Numbered
<1>12. HollowByFallback' /\ SavedHasArrived' /\ EvictsOnlyWhenFull'
  BY <1>1, <1>5 DEF DeliveryInv, HollowByFallback, SavedHasArrived, EvictsOnlyWhenFull
<1>13. NothingSilentlyLost'
  BY <1>1, <1>5 DEF DeliveryInv, NothingSilentlyLost
<1>14. SubmittedIsDelivered'
  BY <1>1, <1>9 DEF Told, DeliveryInv, SubmittedIsDelivered
<1> QED  BY <1>6, <1>7, <1>8, <1>10, <1>11, <1>12, <1>13, <1>14 DEF DeliveryInv

-----------------------------------------------------------------------------
(* The retry and the environment *)

(* What the invariant says of everything but the retry holds as well when  *)
(* the queue loses records and the inbox gets what the retry sends.        *)
LEMMA SendingTodo ==
  ASSUME DeliveryInv, sync.pc # "idle"
  PROVE  /\ sync.todo \in Seq(ItemType) /\ sync.todo # <<>> /\ Len(sync.todo) \in Nat \ {0}
         /\ Head(sync.todo) \in ItemType /\ Head(sync.todo) = sync.todo[1]
         /\ DOMAIN sync.todo = 1 .. Len(sync.todo)
         /\ Tail(sync.todo) \in Seq(ItemType) /\ Len(Tail(sync.todo)) = Len(sync.todo) - 1
         /\ DOMAIN Tail(sync.todo) = 1 .. Len(sync.todo) - 1
         /\ \A i \in DOMAIN Tail(sync.todo) : Tail(sync.todo)[i] = sync.todo[i + 1]
<1>1. sync.todo \in Seq(ItemType) /\ sync.todo # <<>>
  BY DEF DeliveryInv, DeliveryTypeOK
<1>2. Len(sync.todo) \in Nat \ {0} /\ DOMAIN sync.todo = 1 .. Len(sync.todo)
  BY <1>1, EmptySeq, LenProperties
<1>3. Head(sync.todo) \in ItemType /\ Tail(sync.todo) \in Seq(ItemType)
  BY <1>1, HeadTailProperties
<1> QED  BY <1>1, <1>2, <1>3, HeadTailProperties, LenProperties

(* The inbox after the retry sent its first record, or did not.            *)
SentByRetry ==
  \/ UNCHANGED inbox
  \/ /\ PassesLeakGuard(Head(sync.todo))
     /\ Delivered(Head(sync.todo).id, Content(Head(sync.todo)))

LEMMA RetryFills ==
  ASSUME DeliveryInv, sync.pc # "idle", SentByRetry
  PROVE  /\ inbox' \in [Ids -> {"none", "hollow", "whole"}]
         /\ \A id \in Ids :
              \/ inbox'[id] = inbox[id] \/ inbox'[id] = "whole"
              \/ inbox'[id] = "hollow" /\ deployment.encrypted /\ FallbackCopy(id)
<1> PICK item : item = Head(sync.todo)
  OBVIOUS
<1>1. item \in ItemType /\ 1 \in DOMAIN sync.todo /\ item = sync.todo[1]
  BY SendingTodo
<1>2. inbox \in [Ids -> {"none", "hollow", "whole"}]
  BY DEF DeliveryInv, DeliveryTypeOK
<1>3. CASE UNCHANGED inbox
  BY <1>2, <1>3
<1>4. CASE PassesLeakGuard(item) /\ Delivered(item.id, Content(item))
  <2>1. Content(item) \in {"hollow", "whole"} /\ item.id \in Ids
    BY <1>1 DEF Content, ItemType
  <2>2. Content(item) = "hollow" => deployment.encrypted /\ item.copy = "fallback"
    BY <1>4 DEF Content, PassesLeakGuard
  <2>3. item.copy = "fallback" => item = Item(item.id, "fallback")
    BY <1>1 DEF ItemType, Item
  <2>4. item.copy = "fallback" => FallbackCopy(item.id)
    BY <1>1, <2>3 DEF FallbackCopy
  <2> QED  BY <1>2, <1>4, <2>1, <2>2, <2>4 DEF Delivered
<1> QED  BY <1>3, <1>4 DEF SentByRetry

LEMMA RetryStep ==
  ASSUME DeliveryInv, sync.pc # "idle", SentByRetry,
         UNCHANGED <<deployment, history, handler, submitting, closed, made>>,
         NEW id \in Ids, id = Head(sync.todo).id,
         \/ UNCHANGED <<queue, enqueued, evicted>>
         \/ RemovePending(id) /\ inbox'[id] # "none",
         sync' \in [pc : {"idle", "sending", "saving"}, todo : Seq(ItemType)],
         (sync'.pc = "idle") = (sync'.todo = <<>>),
         \A k \in DOMAIN sync'.todo : \E i \in DOMAIN sync.todo : sync'.todo[k] = sync.todo[i],
         sync'.pc = "saving" => Head(sync'.todo).id = id /\ inbox'[id] # "none"
  PROVE  DeliveryInv'
<1>1. /\ inbox' \in [Ids -> {"none", "hollow", "whole"}]
      /\ \A x \in Ids :
           \/ inbox'[x] = inbox[x] \/ inbox'[x] = "whole"
           \/ inbox'[x] = "hollow" /\ deployment.encrypted /\ FallbackCopy(x)
  BY RetryFills
<1>2. /\ IsQueue(queue') /\ Len(queue') <= QueueCap
      /\ \A k \in DOMAIN queue' : \E i \in DOMAIN queue : queue'[k] = queue[i]
      /\ \A x : Queued(x) => Queued(x)' \/ (x = id /\ inbox'[x] # "none")
      /\ UNCHANGED <<enqueued, evicted>>
  <2>1. CASE UNCHANGED <<queue, enqueued, evicted>>
    BY <2>1, QueueTyped DEF DeliveryInv, DeliveryTypeOK, Queued
  <2>2. CASE RemovePending(id) /\ inbox'[id] # "none"
    BY <2>2, RemoveEffect
  <2> QED  BY <2>1, <2>2
<1>3. \A x : Queued(x)' => Queued(x)
  BY <1>2 DEF Queued
<1>4. \A x \in Ids : FallbackCopy(x)' => FallbackCopy(x)
  BY <1>2 DEF FallbackCopy
<1>5. DeliveryTypeOK'
  BY <1>1, <1>2 DEF DeliveryInv, DeliveryTypeOK, IsQueue
<1>6. HandlersOwnTheirIds'
  BY DEF DeliveryInv, HandlersOwnTheirIds
<1>7. QueuedWereMade'
  BY <1>2 DEF DeliveryInv, QueuedWereMade
<1>8. HandlersKnow'
  <2> SUFFICES ASSUME NEW k \in Handlers, handler[k].pc \in Numbered
               PROVE  /\ handler[k].pc \in {"delivered", "recording"} => inbox'[handler[k].id] = "whole"
                      /\ handler[k].pc = "recording" =>
                           \A i \in DOMAIN queue' : queue'[i].id # handler[k].id
                      /\ handler[k].pc \in {"queueing", "uploading", "requeue"}
                            => ~Told(handler[k].id)
    BY DEF HandlersKnow, Queued, Numbered, Told
  <2>1. handler[k].id \in Ids
    BY NumberedId
  <2>2. handler[k].pc \in {"delivered", "recording"} => ~FallbackCopy(handler[k].id)
    BY <2>1 DEF DeliveryInv, FallbackIsFinal, Sending, Numbered
  <2> QED  BY <1>1, <1>2, <2>1, <2>2 DEF DeliveryInv, HandlersKnow, Queued
<1>9. FallbackIsFinal'
  BY <1>4 DEF Told, DeliveryInv, FallbackIsFinal
<1>10. HollowByFallback'
  BY <1>1 DEF DeliveryInv, HollowByFallback, FallbackIsFinal
<1>11. SavedHasArrived' /\ EvictsOnlyWhenFull'
  BY <1>2 DEF DeliveryInv, SavedHasArrived, EvictsOnlyWhenFull
<1>12. NothingSilentlyLost'
  <2>1. \A x \in Ids : inbox[x] # "none" => inbox'[x] # "none"
    BY <1>1
  <2>2. enqueued \subseteq Ids
    BY DEF DeliveryInv, DeliveryTypeOK
  <2> QED  BY <1>2, <2>1, <2>2 DEF DeliveryInv, NothingSilentlyLost
<1>13. SubmittedIsDelivered'
  BY <1>1, <1>3 DEF Told, DeliveryInv, SubmittedIsDelivered, FallbackIsFinal
<1> QED  BY <1>5, <1>6, <1>7, <1>8, <1>9, <1>10, <1>11, <1>12, <1>13 DEF DeliveryInv

LEMMA RestShape ==
  ASSUME DeliveryInv, sync.pc # "idle"
  PROVE  LET rest == Rest(sync.todo) IN
         /\ rest \in [pc : {"idle", "sending", "saving"}, todo : Seq(ItemType)]
         /\ (rest.pc = "idle") = (rest.todo = <<>>) /\ rest.pc # "saving"
         /\ \A k \in DOMAIN rest.todo : \E i \in DOMAIN sync.todo : rest.todo[k] = sync.todo[i]
<1> PICK todo, tail : todo = sync.todo /\ tail = Tail(sync.todo)
  OBVIOUS
<1>1. /\ Len(todo) \in Nat \ {0} /\ DOMAIN todo = 1 .. Len(todo)
      /\ tail \in Seq(ItemType) /\ Len(tail) = Len(todo) - 1
      /\ DOMAIN tail = 1 .. Len(todo) - 1
      /\ \A i \in DOMAIN tail : tail[i] = todo[i + 1]
  BY SendingTodo
<1>2. Len(todo) = 1 <=> tail = <<>>
  <2>1. tail = <<>> <=> Len(tail) = 0
    BY <1>1, EmptySeq
  <2> QED  BY <1>1, <2>1
<1>3. \A k \in DOMAIN tail : \E i \in DOMAIN todo : tail[k] = todo[i]
  BY <1>1
<1> QED  BY <1>1, <1>2, <1>3 DEF Rest

LEMMA RetrySteps ==
  ASSUME DeliveryInv, NEW id \in Ids, SyncStep(id)
  PROVE  DeliveryInv'
<1> PICK item : item = Head(sync.todo)
  OBVIOUS
<1>1. /\ sync.pc # "idle" /\ item.id = id
      /\ UNCHANGED <<deployment, history, handler, submitting, closed, made>>
  BY DEF SyncStep, SyncConfirmed, SyncUnconfirmed, SyncSaved, SyncSaveFails
<1>2. CASE SyncConfirmed(id)
  <2>1. /\ SentByRetry /\ sync' = [sync EXCEPT !.pc = "saving"]
        /\ UNCHANGED <<queue, enqueued, evicted>> /\ Delivered(id, Content(item))
    BY <1>2 DEF SyncConfirmed, SentByRetry
  <2>2. sync'.pc = "saving" /\ sync'.todo = sync.todo
        /\ sync' \in [pc : {"idle", "sending", "saving"}, todo : Seq(ItemType)]
    BY <2>1 DEF DeliveryInv, DeliveryTypeOK
  <2>3. inbox'[id] # "none"
    BY <2>1 DEF Delivered, Content, DeliveryInv, DeliveryTypeOK
  <2>4. (sync'.pc = "idle") = (sync'.todo = <<>>)
    BY <1>1, <2>2, SendingTodo
  <2> QED  BY <1>1, <2>1, <2>2, <2>3, <2>4, RetryStep
<1>3. CASE ~SyncConfirmed(id)
  <2>1. sync' = Rest(sync.todo)
    BY <1>3 DEF SyncStep, SyncUnconfirmed, SyncSaved, SyncSaveFails
  <2>2. SentByRetry
    BY <1>1, <1>3 DEF SyncStep, SyncUnconfirmed, SyncSaved, SyncSaveFails, SentByRetry, MayHaveArrived
  <2>3. \/ UNCHANGED <<queue, enqueued, evicted>>
        \/ RemovePending(id) /\ inbox'[id] # "none"
    BY <1>3 DEF SyncStep, SyncUnconfirmed, SyncSaved, SyncSaveFails, DeliveryInv, SavedHasArrived
  <2>4. /\ sync' \in [pc : {"idle", "sending", "saving"}, todo : Seq(ItemType)]
        /\ (sync'.pc = "idle") = (sync'.todo = <<>>) /\ sync'.pc # "saving"
        /\ \A k \in DOMAIN sync'.todo : \E i \in DOMAIN sync.todo : sync'.todo[k] = sync.todo[i]
    BY <1>1, <2>1, RestShape
  <2> QED  BY <1>1, <2>2, <2>3, <2>4, RetryStep
<1> QED  BY <1>2, <1>3

LEMMA ReloadRecoveryStep ==
  ASSUME DeliveryInv, ReloadRecovery
  PROVE  DeliveryInv'
<1>1. /\ sync.pc # "idle" /\ SentByRetry /\ sync' = [pc |-> "idle", todo |-> <<>>]
      /\ UNCHANGED <<deployment, queue, history, handler, submitting, closed, made,
                     enqueued, evicted>>
  BY DEF ReloadRecovery, SentByRetry, MayHaveArrived
<1>2. Head(sync.todo).id \in Ids
  BY <1>1, SendingTodo DEF ItemType
<1>3. /\ sync' \in [pc : {"idle", "sending", "saving"}, todo : Seq(ItemType)]
      /\ sync'.pc = "idle" /\ sync'.todo = <<>> /\ DOMAIN sync'.todo = {}
  BY <1>1, EmptySeq
<1> QED  BY <1>1, <1>2, <1>3, RetryStep

(* The retry starts with what is queued.                                   *)
LEMMA ManualSyncStep ==
  ASSUME DeliveryInv, ManualSync
  PROVE  DeliveryInv'
<1>1. /\ queue # <<>> /\ sync' = [pc |-> "sending", todo |-> queue]
      /\ UNCHANGED <<deployment, queue, history, inbox, handler, submitting,
                     closed, made, enqueued, evicted>>
  BY DEF ManualSync, SyncPending
<1>2. sync'.pc = "sending" /\ sync'.todo = queue
  BY <1>1
<1>3. DeliveryTypeOK'
  BY <1>1, <1>2 DEF DeliveryInv, DeliveryTypeOK
<1>4. \A id \in Ids : FallbackCopy(id)' => FallbackCopy(id)
  BY <1>1, <1>2 DEF FallbackCopy
<1>5. QueuedWereMade' /\ FallbackIsFinal' /\ SavedHasArrived'
  BY <1>1, <1>2, <1>4 DEF Told, DeliveryInv, QueuedWereMade, FallbackIsFinal, SavedHasArrived
<1>6. HandlersOwnTheirIds' /\ HandlersKnow' /\ HollowByFallback' /\ NothingSilentlyLost'
        /\ SubmittedIsDelivered' /\ EvictsOnlyWhenFull'
  BY <1>1 DEF Told, DeliveryInv, HandlersOwnTheirIds, HandlersKnow, HollowByFallback,
              NothingSilentlyLost, SubmittedIsDelivered, EvictsOnlyWhenFull, Queued
<1> QED  BY <1>3, <1>5, <1>6 DEF DeliveryInv

LEMMA QuietDelivery ==
  ASSUME DeliveryInv, closed' \in BOOLEAN,
         UNCHANGED <<deployment, queue, history, inbox, handler, submitting, made, sync,
                     enqueued, evicted>>
  PROVE  DeliveryInv'
  BY DEF Told, DeliveryInv, DeliveryTypeOK, QueuedWereMade, FallbackIsFinal, FallbackCopy,
         SavedHasArrived, HandlersOwnTheirIds, HandlersKnow, HollowByFallback,
         NothingSilentlyLost, SubmittedIsDelivered, EvictsOnlyWhenFull, Queued

LEMMA ReloadFormStep ==
  ASSUME DeliveryInv, ReloadForm
  PROVE  DeliveryInv'
<1>1. /\ handler' = [h \in Handlers |-> [pc |-> "idle", id |-> NoId]] /\ submitting' = FALSE
      /\ UNCHANGED <<deployment, queue, history, closed, made, sync, enqueued, evicted>>
      /\ \E lands : inbox' = [id \in Ids |-> IF id \in lands THEN "whole" ELSE inbox[id]]
  BY DEF ReloadForm
<1>2. InboxFills
  BY <1>1 DEF InboxFills, DeliveryInv, DeliveryTypeOK
<1>3. \A h \in Handlers : handler'[h].pc \notin Numbered /\ handler'[h].id = NoId
  BY <1>1 DEF Numbered
<1>4. DeliveryTypeOK'
  <2>1. handler' \in [Handlers -> HandlerType]
    BY <1>1 DEF HandlerType, HandlerPcs
  <2> QED  BY <1>1, <1>2, <2>1 DEF DeliveryInv, DeliveryTypeOK, HandlerType, InboxFills
<1>5. HandlersOwnTheirIds' /\ HandlersKnow' /\ QueuedWereMade'
  BY <1>1, <1>3, QueueTyped
     DEF HandlersOwnTheirIds, HandlersKnow, DeliveryInv, QueuedWereMade, Numbered, NoId
<1>6. FallbackIsFinal'
  BY <1>1, <1>3 DEF Told, DeliveryInv, FallbackIsFinal, FallbackCopy, Sending
<1>7. HollowByFallback' /\ EvictsOnlyWhenFull'
  BY <1>1, <1>2 DEF DeliveryInv, HollowByFallback, InboxFills, EvictsOnlyWhenFull
<1>8. \A id \in Ids : inbox[id] # "none" => inbox'[id] # "none"
  BY <1>2 DEF InboxFills
<1>9. SavedHasArrived' /\ NothingSilentlyLost'
  <2>1. sync.pc = "saving" => Head(sync.todo).id \in Ids
    BY SendingTodo DEF ItemType
  <2>2. enqueued \subseteq Ids
    BY DEF DeliveryInv, DeliveryTypeOK
  <2> QED  BY <1>1, <1>8, <2>1, <2>2 DEF DeliveryInv, SavedHasArrived, NothingSilentlyLost, Queued
<1>10. SubmittedIsDelivered'
  BY <1>1, <1>2 DEF Told, DeliveryInv, SubmittedIsDelivered, InboxFills, Queued
<1> QED  BY <1>4, <1>5, <1>6, <1>7, <1>9, <1>10 DEF DeliveryInv

-----------------------------------------------------------------------------

LEMMA DeliveryInitInv == DeliveryInit => DeliveryInv
<1> SUFFICES ASSUME DeliveryInit
             PROVE  DeliveryInv
  OBVIOUS
<1>1. /\ queue \in Seq(ItemType) /\ Len(queue) = 0 /\ DOMAIN queue = {}
      /\ sync = [pc |-> "idle", todo |-> <<>>] /\ sync.todo = <<>> /\ DOMAIN sync.todo = {}
      /\ sync \in [pc : {"idle", "sending", "saving"}, todo : Seq(ItemType)]
      /\ enqueued = {} /\ evicted = {} /\ made = 0
  BY EmptySeq DEF DeliveryInit
<1>2. \A h \in Handlers : handler[h] = [pc |-> "idle", id |-> NoId]
  BY DEF DeliveryInit
<1>3. \A id \in Ids : history[id] = "none" /\ inbox[id] = "none"
  BY DEF DeliveryInit
<1>4. DeliveryTypeOK
  <2>1. /\ history \in [Ids -> Statuses] /\ inbox \in [Ids -> {"none", "hollow", "whole"}]
        /\ handler \in [Handlers -> [pc : HandlerPcs, id : Ids \cup {NoId}]]
        /\ deployment \in DeploymentType /\ submitting \in BOOLEAN /\ closed \in BOOLEAN
    BY DeliveryAssumption DEF DeliveryInit, HandlerPcs, Statuses
  <2>2. Len(queue) <= QueueCap /\ made \in 0 .. MaxSubmissions
    BY <1>1, DeliveryAssumption
  <2>3. (sync.pc = "idle") = (sync.todo = <<>>)
    BY <1>1
  <2> QED  BY <1>1, <2>1, <2>2, <2>3 DEF DeliveryTypeOK
<1>5. HandlersOwnTheirIds /\ QueuedWereMade /\ HandlersKnow
  BY <1>1, <1>2 DEF HandlersOwnTheirIds, QueuedWereMade, HandlersKnow, Numbered, NoId
<1>6. FallbackIsFinal /\ HollowByFallback /\ SavedHasArrived /\ NothingSilentlyLost
        /\ SubmittedIsDelivered /\ EvictsOnlyWhenFull
  BY <1>1, <1>3 DEF Told, FallbackIsFinal, FallbackCopy, HollowByFallback, SavedHasArrived,
                    NothingSilentlyLost, SubmittedIsDelivered, EvictsOnlyWhenFull
<1> QED  BY <1>4, <1>5, <1>6 DEF DeliveryInv

LEMMA DeliveryNextInv ==
  ASSUME DeliveryInv, [DeliveryNext]_deliveryVars
  PROVE  DeliveryInv'
<1>1. CASE UNCHANGED deliveryVars
  BY <1>1, QuietDelivery DEF deliveryVars, DeliveryInv, DeliveryTypeOK
<1>2. ASSUME NEW h \in Handlers, Click(h) \/ Progress(h)
      PROVE  DeliveryInv'
  BY <1>2, ClickSteps, PrepareStep, QueueingSteps, UploadThrowsStep, UploadedStep,
     FinishDeliveredStep, RecordSteps, SettleStep DEF Progress, Upload
<1>3. CASE ManualSync
  BY <1>3, ManualSyncStep
<1>4. CASE AutomaticSync
  BY <1>4, QuietDelivery DEF AutomaticSync, SyncPending, DeliveryInv, DeliveryTypeOK
<1>5. ASSUME NEW id \in Ids, SyncStep(id)
      PROVE  DeliveryInv'
  BY <1>5, RetrySteps
<1>6. CASE DeadlinePasses
  BY <1>6, QuietDelivery DEF DeadlinePasses
<1>7. CASE ReloadForm \/ ReloadRecovery
  BY <1>7, ReloadFormStep, ReloadRecoveryStep
<1> QED  BY <1>1, <1>2, <1>3, <1>4, <1>5, <1>6, <1>7 DEF DeliveryNext

LEMMA DeliveryInvariant == DeliverySpec => []DeliveryInv
<1>1. DeliveryInv /\ [DeliveryNext]_deliveryVars => DeliveryInv'
  BY DeliveryNextInv
<1> QED  BY <1>1, DeliveryInitInv, PTL DEF DeliverySpec

(* The queue never holds an id twice, nor more records than the cap.       *)
THEOREM DeliveryTypeCorrect == DeliverySpec => []DeliveryTypeOK
<1>1. DeliveryInv => DeliveryTypeOK
  BY DEF DeliveryInv
<1> QED  BY <1>1, DeliveryInvariant, PTL

(* No interleaving of handlers, retry, deadline and reloads drops a queued *)
(* signal that has not arrived.                                            *)
THEOREM NothingIsLost == DeliverySpec => []NothingSilentlyLost
<1>1. DeliveryInv => NothingSilentlyLost
  BY DEF DeliveryInv
<1> QED  BY <1>1, DeliveryInvariant, PTL

(* "submitted" in My Responses is said of a whole signal in the inbox that *)
(* is not queued to be sent again.                                         *)
THEOREM SubmittedHasArrived == DeliverySpec => []SubmittedIsDelivered
<1>1. DeliveryInv => SubmittedIsDelivered
  BY DEF DeliveryInv
<1> QED  BY <1>1, DeliveryInvariant, PTL

(* A record is pushed out only by more signals than the cap.               *)
THEOREM OnlyFullQueuesEvict == DeliverySpec => []EvictsOnlyWhenFull
<1>1. DeliveryInv => EvictsOnlyWhenFull
  BY DEF DeliveryInv
<1> QED  BY <1>1, DeliveryInvariant, PTL

(* A build without local fallback of encrypted forms puts no record        *)
(* without its payload in the inbox.                                       *)
THEOREM ArrivesWhole == DeliverySpec => []DeliveredIsWhole
<1>1. DeliveryInv => DeliveredIsWhole
  BY DEF DeliveryInv, HollowByFallback, DeliveredIsWhole
<1> QED  BY <1>1, DeliveryInvariant, PTL

-----------------------------------------------------------------------------
(* The form is an answer box                                               *)

(* What a form has said of each id, and the ids it keeps.                  *)
Said(id) ==
  IF history[id] = "none" THEN "nothing"
  ELSE IF Told(id) THEN history[id] ELSE "waiting"

IdsOf(q) == {q[i].id : i \in DOMAIN q}

(* The ids given out are those made; an invocation that called its id      *)
(* submitted has only to archive it, or to fail, and one that took it back *)
(* has only to settle.                                                     *)
GivenAreMade == \A id \in Ids : history[id] # "none" <=> id <= made

Ending == {"archiving", "failing", "settling"}

NotYetTold ==
  \A h \in Handlers : handler[h].id # NoId =>
    /\ handler[h].pc \notin Ending => history[handler[h].id] # "submitted"
    /\ handler[h].pc # "settling" => history[handler[h].id] # "withdrawn"

BoxInv == GivenAreMade /\ NotYetTold

(* A queue holds as many ids as records.                                   *)
LEMMA IdsOfQueue ==
  ASSUME NEW q, IsQueue(q)
  PROVE  IsFiniteSet(IdsOf(q)) /\ Cardinality(IdsOf(q)) = Len(q)
<1> DEFINE f == [i \in 1 .. Len(q) |-> q[i].id]
<1>1. DOMAIN q = 1 .. Len(q) /\ Len(q) \in Nat
  BY LenProperties DEF IsQueue
<1>2. f \in Bijection(1 .. Len(q), IdsOf(q))
  <2>1. f \in [1 .. Len(q) -> IdsOf(q)]
    BY <1>1 DEF IdsOf
  <2>2. \A i, j \in 1 .. Len(q) : f[i] = f[j] => i = j
    BY <1>1 DEF IsQueue
  <2>3. \A id \in IdsOf(q) : \E i \in 1 .. Len(q) : f[i] = id
    BY <1>1 DEF IdsOf
  <2> HIDE DEF f
  <2> QED  BY <2>1, <2>2, <2>3 DEF Bijection, Injection, Surjection, IsInjective
<1> HIDE DEF f
<1>3. \A n \in Nat : IsFiniteSet(1 .. n) /\ Cardinality(1 .. n) = n
  BY FS_Interval
<1>4. ExistsBijection(1 .. Len(q), IdsOf(q))
  BY <1>2 DEF ExistsBijection
<1> QED  BY <1>1, <1>3, <1>4, FS_Bijection

(* Queueing keeps the new id and all others, or all but one when they are  *)
(* too many.                                                               *)
LEMMA NextQueueKeeps ==
  ASSUME DeliveryInv, NEW item \in ItemType
  PROVE  LET wanted == IdsOf(queue) \cup {item.id}
             ids == IdsOf(NextQueue(item)) IN
         IF Cardinality(wanted) <= QueueCap
           THEN ids = wanted
           ELSE \E other \in IdsOf(queue) \ {item.id} : ids = wanted \ {other}
<1> PICK next : next = NextQueue(item)
  OBVIOUS
<1> PICK id : id = item.id
  OBVIOUS
<1> PICK old, ids : old = IdsOf(queue) /\ ids = IdsOf(next)
  OBVIOUS
<1> PICK wanted : wanted = old \cup {id}
  OBVIOUS
<1>1. /\ IsQueue(queue) /\ Len(queue) \in Nat /\ Len(queue) <= QueueCap /\ QueueCap \in Nat \ {0}
  BY QueueTyped, DeliveryAssumption DEF DeliveryInv, DeliveryTypeOK
<1>2. /\ IsQueue(next) /\ Len(next) <= QueueCap
      /\ \E k \in DOMAIN next : next[k] = item
      /\ \A k \in DOMAIN next : next[k] = item \/ \E i \in DOMAIN queue : next[k] = queue[i]
      /\ \/ Len(next) = QueueCap
         \/ \A i \in DOMAIN queue : \E k \in DOMAIN next : next[k].id = queue[i].id
  BY ONLY <1>1, NextQueueProperties, item \in ItemType, next = NextQueue(item)
<1>3. id \in ids /\ ids \subseteq wanted
  BY <1>2 DEF IdsOf
<1>4. /\ IsFiniteSet(old) /\ Cardinality(old) <= QueueCap /\ Cardinality(old) \in Nat
      /\ IsFiniteSet(ids) /\ Cardinality(ids) = Len(next) /\ Cardinality(ids) \in Nat
  BY <1>1, <1>2, IdsOfQueue, FS_CardinalityType
<1>5. /\ IsFiniteSet(wanted) /\ Cardinality(wanted) \in Nat
      /\ Cardinality(wanted) <= QueueCap + 1
  <2>1. /\ IsFiniteSet(wanted)
        /\ Cardinality(wanted) = IF id \in old THEN Cardinality(old) ELSE Cardinality(old) + 1
    BY <1>4, FS_AddElement
  <2> QED  BY <1>1, <1>4, <2>1
<1>6. CASE old \subseteq ids
  BY <1>2, <1>3, <1>4, <1>6
<1>7. CASE ~(old \subseteq ids)
  <2>1. Cardinality(ids) = QueueCap
    BY <1>2, <1>4, <1>7 DEF IdsOf
  <2>2. PICK other \in old : other \notin ids
    BY <1>7
  <2>3. ids # wanted /\ ids \in SUBSET wanted /\ other \in wanted
    BY <1>3, <2>2
  <2>4. Cardinality(ids) <= Cardinality(wanted) /\ Cardinality(ids) # Cardinality(wanted)
    BY <1>5, <2>3, FS_Subset
  <2>5. Cardinality(wanted) = QueueCap + 1
    BY <1>1, <1>5, <2>1, <2>4
  <2>6. /\ IsFiniteSet(wanted \ {other})
        /\ Cardinality(wanted \ {other}) = Cardinality(wanted) - 1
    BY <1>5, <2>3, FS_RemoveElement
  <2>7. ids \in SUBSET (wanted \ {other}) /\ Cardinality(wanted \ {other}) = Cardinality(ids)
    BY <1>1, <2>1, <2>2, <2>3, <2>5, <2>6
  <2>8. ids = wanted \ {other}
    BY <2>6, <2>7, FS_Subset
  <2>9. other \in old \ {id} /\ ~(Cardinality(wanted) <= QueueCap)
    BY <1>1, <1>3, <2>2, <2>5
  <2> QED  BY <2>8, <2>9
<1> QED  BY <1>6, <1>7

-----------------------------------------------------------------------------
(* The actions of the box, in the form's variables *)

LEMMA BoxStutters ==
  ASSUME UNCHANGED <<queue, inbox, deployment>>, \A id \in Ids : Said(id)' = Said(id)
  PROVE  UNCHANGED Box!boxVars
  BY DEF Told, Box!boxVars, Said

LEMMA BoxGives ==
  ASSUME NEW id \in Ids, Said(id) = "nothing",
         \A x \in Ids : Said(x)' = IF x = id THEN "waiting" ELSE Said(x),
         UNCHANGED <<queue, inbox, deployment>>
  PROVE  Box!BoxNext
<1>1. Box!Give(id)
  BY DEF Told, Box!Give, Said
<1> QED  BY <1>1 DEF Box!BoxNext

LEMMA BoxArrives ==
  ASSUME NEW ids \in SUBSET Ids, \A id \in ids : Said(id) = "waiting",
         inbox' = [id \in Ids |-> IF id \in ids THEN "whole" ELSE inbox[id]],
         UNCHANGED <<queue, history, deployment>>
  PROVE  Box!BoxNext
<1>1. Box!Arrive(ids)
  BY DEF Told, Box!Arrive, Box!Land, Box!Open, Said
<1> QED  BY <1>1 DEF Box!BoxNext

LEMMA BoxArrivesHollow ==
  ASSUME NEW id \in Ids, Said(id) = "waiting", deployment.encrypted, deployment.fallback,
         inbox' = [inbox EXCEPT ![id] = "hollow"],
         UNCHANGED <<queue, history, deployment>>
  PROVE  Box!BoxNext
<1>1. Box!ArriveHollow(id)
  BY DEF Told, Box!ArriveHollow, Box!Open, Said
<1> QED  BY <1>1 DEF Box!BoxNext

LEMMA BoxReleases ==
  ASSUME NEW id \in Ids, Queued(id), inbox[id] # "none", IdsOf(queue)' = IdsOf(queue) \ {id},
         UNCHANGED <<inbox, history, deployment>>
  PROVE  Box!BoxNext
<1>1. Box!Release(id)
  BY DEF Told, Box!Release, IdsOf, Queued
<1> QED  BY <1>1 DEF Box!BoxNext

LEMMA BoxConfirms ==
  ASSUME NEW id \in Ids, Said(id) = "waiting", inbox[id] = "whole", ~Queued(id),
         \A x \in Ids : Said(x)' = IF x = id THEN "submitted" ELSE Said(x),
         UNCHANGED <<queue, inbox, deployment>>
  PROVE  Box!BoxNext
<1>1. Box!Confirm(id)
  BY DEF Told, Box!Confirm, Box!Open, Said, Queued
<1> QED  BY <1>1 DEF Box!BoxNext

LEMMA BoxWithdraws ==
  ASSUME NEW id \in Ids, Said(id) = "submitted",
         \A x \in Ids : Said(x)' = IF x = id THEN "withdrawn" ELSE Said(x),
         UNCHANGED <<queue, inbox, deployment>>
  PROVE  Box!BoxNext
<1>1. Box!Withdraw(id)
  BY DEF Told, Box!Withdraw, Said
<1> QED  BY <1>1 DEF Box!BoxNext

LEMMA BoxCounts == \A S : Box!Cardinality(S) = Cardinality(S)
  BY DEF Box!Cardinality, Cardinality

LEMMA BoxKeeps ==
  ASSUME NEW id \in Ids, Said(id) = "waiting",
         LET wanted == IdsOf(queue) \cup {id} IN
           IF Cardinality(wanted) <= QueueCap
             THEN IdsOf(queue') = wanted
             ELSE \E other \in IdsOf(queue) \ {id} : IdsOf(queue') = wanted \ {other},
         UNCHANGED inbox \/ inbox' = [x \in Ids |-> IF x = id THEN "whole" ELSE inbox[x]],
         UNCHANGED <<history, deployment>>
  PROVE  Box!BoxNext
<1>1. Box!Keep(id)
  BY BoxCounts DEF Told, Box!Keep, Box!Land, Box!Open, Said, IdsOf
<1> QED  BY <1>1 DEF Box!BoxNext

-----------------------------------------------------------------------------
(* Every step of the form is a step of the box, or none                    *)

BoxStep == Box!BoxNext \/ UNCHANGED Box!boxVars

LEMMA MadeIsSaid ==
  ASSUME DeliveryInv, BoxInv, NEW id \in 1 .. made
  PROVE  /\ id \in Ids /\ (Said(id) = "waiting" <=> ~Told(id))
         /\ history[id] = "submitted" => Said(id) = "submitted"
<1>1. id \in Ids /\ id <= made
  BY QueueTyped
<1> QED  BY <1>1 DEF BoxInv, GivenAreMade, Said, Told

(* What a handler still sends, its form has not called submitted.          *)
LEMMA OwnWaits ==
  ASSUME DeliveryInv, BoxInv, NEW h \in Handlers, handler[h].pc \in Numbered
  PROVE  handler[h].id \in Ids /\ handler[h].id \in 1 .. made /\ Said(handler[h].id) = "waiting"
<1>1. handler[h].id \in 1 .. made /\ handler[h].id # NoId /\ handler[h].pc \notin Ending
  BY NumberedId DEF Numbered, Ending, DeliveryInv, HandlersOwnTheirIds
<1>2. ~Told(handler[h].id)
  BY <1>1 DEF BoxInv, NotYetTold, Told, Ending
<1> QED  BY <1>1, <1>2, MadeIsSaid

LEMMA HandlerBoxInv ==
  ASSUME DeliveryInv, BoxInv, NEW h \in Handlers, NEW next \in HandlerType,
         handler' = [handler EXCEPT ![h] = next], UNCHANGED made,
         \A id \in Ids : history'[id] # history[id] => id = handler[h].id /\ history'[id] # "none",
         next.id = handler[h].id \/ next.id = NoId,
         next.id # NoId => /\ next.pc \notin Ending => history'[next.id] # "submitted"
                           /\ next.pc # "settling" => history'[next.id] # "withdrawn"
  PROVE  BoxInv'
<1>1. /\ handler \in [Handlers -> HandlerType]
      /\ \A k \in Handlers : handler'[k] = IF k = h THEN next ELSE handler[k]
  BY DEF DeliveryInv, DeliveryTypeOK, HandlerType
<1>2. GivenAreMade'
  <2> SUFFICES ASSUME NEW id \in Ids
               PROVE  history'[id] # "none" <=> id <= made
    BY DEF GivenAreMade
  <2>1. CASE history'[id] = history[id]
    BY <2>1 DEF BoxInv, GivenAreMade
  <2>2. CASE history'[id] # history[id]
    <3>1. id = handler[h].id /\ history'[id] # "none" /\ handler[h].id \in 0 .. made
      BY <2>2 DEF DeliveryInv, HandlersOwnTheirIds
    <3> QED  BY <3>1, QueueTyped
  <2> QED  BY <2>1, <2>2
<1>3. NotYetTold'
  <2> SUFFICES ASSUME NEW k \in Handlers, handler'[k].id # NoId
               PROVE  LET said == history'[handler'[k].id] IN
                      /\ handler'[k].pc \notin Ending => said # "submitted"
                      /\ handler'[k].pc # "settling" => said # "withdrawn"
    BY DEF NotYetTold
  <2>1. CASE k = h
    BY <1>1, <2>1
  <2>2. CASE k # h
    <3>1. handler'[k] = handler[k] /\ handler[k].id # handler[h].id /\ handler[k].id \in Ids
      BY <1>1, <2>2, NumberedId DEF DeliveryInv, HandlersOwnTheirIds
    <3> QED  BY <3>1 DEF BoxInv, NotYetTold
  <2> QED  BY <2>1, <2>2
<1> QED  BY <1>2, <1>3 DEF BoxInv

LEMMA GotoBoxInv ==
  ASSUME DeliveryInv, BoxInv, NEW h \in Handlers, NEW pc \in HandlerPcs, Goto(h, pc),
         handler[h].pc # "settling", handler[h].pc \in Ending => pc \in Ending,
         UNCHANGED <<history, made>>
  PROVE  BoxInv'
<1> PICK next : next = [pc |-> pc, id |-> handler[h].id]
  OBVIOUS
<1>1. next \in HandlerType /\ handler' = [handler EXCEPT ![h] = next]
  BY GotoShape
<1>2. next.id = handler[h].id
  BY <1>1
<1>3. next.id # NoId => /\ next.pc \notin Ending => history'[next.id] # "submitted"
                        /\ history'[next.id] # "withdrawn"
  BY <1>1, <1>2 DEF BoxInv, NotYetTold
<1> QED  BY <1>1, <1>2, <1>3, HandlerBoxInv

LEMMA ClickBox ==
  ASSUME DeliveryInv, BoxInv, NEW h \in Handlers,
         \/ Click(h) \/ CheckRefuses(h) \/ CheckPasses(h) \/ PrepareFails(h)
         \/ QueueFails(h) \/ UploadTooLate(h) \/ ArchiveFails(h)
  PROVE  BoxInv' /\ BoxStep
<1>1. /\ handler[h].pc # "settling"
      /\ \E pc \in {"checking", "idle", "preparing", "failing"} :
           Goto(h, pc) /\ (handler[h].pc \in Ending => pc \in Ending)
      /\ UNCHANGED <<deployment, queue, history, inbox, made>>
  BY DEF Click, CheckRefuses, CheckPasses, PrepareFails, QueueFails, UploadTooLate,
         ArchiveFails, At, Ending
<1>2. {"checking", "idle", "preparing", "failing"} \subseteq HandlerPcs
  BY DEF HandlerPcs
<1>3. \A id \in Ids : Said(id)' = Said(id)
  BY <1>1 DEF Said, Told
<1> QED  BY <1>1, <1>2, <1>3, GotoBoxInv, BoxStutters DEF BoxStep

(* A signal arrives, whether or not the handler is told.                   *)
LEMMA ArrivalBox ==
  ASSUME DeliveryInv, NEW id \in Ids, Said(id) = "waiting",
         MayHaveArrived(id, "whole") \/ Delivered(id, "whole"),
         UNCHANGED <<deployment, queue, history>>
  PROVE  BoxStep
<1>1. CASE UNCHANGED inbox
  <2>1. \A x \in Ids : Said(x)' = Said(x)
    BY DEF Said, Told
  <2> QED  BY <1>1, <2>1, BoxStutters DEF BoxStep
<1>2. CASE Delivered(id, "whole")
  <2>1. inbox' = [x \in Ids |-> IF x \in {id} THEN "whole" ELSE inbox[x]]
    BY <1>2 DEF Delivered, DeliveryInv, DeliveryTypeOK
  <2>2. {id} \in SUBSET Ids /\ \A x \in {id} : Said(x) = "waiting"
    OBVIOUS
  <2> QED  BY <2>1, <2>2, BoxArrives DEF BoxStep
<1> QED  BY <1>1, <1>2 DEF MayHaveArrived

LEMMA UploadedBox ==
  ASSUME DeliveryInv, BoxInv, NEW h \in Handlers,
         UploadConfirmed(h) \/ UploadStored(h) \/ UploadThrows(h)
  PROVE  BoxInv' /\ BoxStep
<1>1. /\ handler[h].pc = "uploading"
      /\ \E pc \in {"delivered", "stored", "failing"} : Goto(h, pc)
      /\ MayHaveArrived(handler[h].id, "whole") \/ Delivered(handler[h].id, "whole")
      /\ UNCHANGED <<deployment, queue, history, made>>
  BY DEF UploadConfirmed, UploadStored, UploadThrows, At
<1>2. {"delivered", "stored", "failing"} \subseteq HandlerPcs
  BY DEF HandlerPcs
<1>3. handler[h].id \in Ids /\ Said(handler[h].id) = "waiting"
  BY <1>1, OwnWaits DEF Numbered
<1> QED  BY <1>1, <1>2, <1>3, GotoBoxInv, ArrivalBox DEF Ending

(* Queueing keeps the signal, whether or not it arrives at the same time.  *)
LEMMA EnqueueBox ==
  ASSUME DeliveryInv, NEW item \in ItemType, Said(item.id) = "waiting", EnqueuePending(item),
         MayHaveArrived(item.id, "whole"), UNCHANGED <<deployment, history>>
  PROVE  BoxStep
<1> PICK id : id = item.id
  OBVIOUS
<1>1. id \in Ids
  BY DEF ItemType
<1>2. CASE UNCHANGED queue
  BY <1>1, <1>2, ArrivalBox
<1>3. CASE queue' = NextQueue(item)
  <2>1. LET wanted == IdsOf(queue) \cup {id} IN
          IF Cardinality(wanted) <= QueueCap
            THEN IdsOf(queue') = wanted
            ELSE \E other \in IdsOf(queue) \ {id} : IdsOf(queue') = wanted \ {other}
    BY <1>3, NextQueueKeeps
  <2>2. UNCHANGED inbox \/ inbox' = [x \in Ids |-> IF x = id THEN "whole" ELSE inbox[x]]
    BY DEF MayHaveArrived, Delivered, DeliveryInv, DeliveryTypeOK
  <2>3. Box!BoxNext
    BY <1>1, <2>1, <2>2, BoxKeeps
  <2> QED  BY <2>3 DEF BoxStep
<1> QED  BY <1>2, <1>3 DEF EnqueuePending

LEMMA QueueingBox ==
  ASSUME DeliveryInv, BoxInv, NEW h \in Handlers, QueueRaw(h) \/ Requeue(h) \/ UploadFallsBack(h)
  PROVE  BoxInv' /\ BoxStep
<1>1. /\ handler[h].pc \in {"queueing", "uploading", "requeue"}
      /\ \E pc \in {"uploading", "settling", "keptLocally", "failing"} : Goto(h, pc)
      /\ \E copy \in Copies : EnqueuePending(Item(handler[h].id, copy))
      /\ MayHaveArrived(handler[h].id, "whole")
      /\ UNCHANGED <<deployment, history, made>>
  BY DEF QueueRaw, Requeue, UploadFallsBack, At, Copies, MayHaveArrived
<1>2. {"uploading", "settling", "keptLocally", "failing"} \subseteq HandlerPcs
  BY DEF HandlerPcs
<1>3. handler[h].id \in Ids /\ Said(handler[h].id) = "waiting"
  BY <1>1, OwnWaits DEF Numbered
<1>4. PICK copy \in Copies : EnqueuePending(Item(handler[h].id, copy))
  BY <1>1
<1>5. PICK item : item = Item(handler[h].id, copy)
  OBVIOUS
<1>6. item \in ItemType /\ item.id = handler[h].id
  BY <1>3, <1>5 DEF Item, ItemType
<1>7. BoxStep
  BY <1>1, <1>3, <1>4, <1>5, <1>6, EnqueueBox
<1>8. BoxInv'
  BY <1>1, <1>2, GotoBoxInv DEF Ending
<1> QED  BY <1>7, <1>8

(* A record that is removed has arrived.                                   *)
LEMMA RemoveBox ==
  ASSUME DeliveryInv, NEW id \in Ids, RemovePending(id), inbox[id] # "none",
         UNCHANGED <<deployment, history, inbox>>
  PROVE  BoxStep
<1>1. /\ ~Queued(id)' /\ \A k \in DOMAIN queue' : \E i \in DOMAIN queue : queue'[k] = queue[i]
      /\ \A x : Queued(x) /\ x # id => Queued(x)'
  BY RemoveEffect
<1>2. IdsOf(queue)' = IdsOf(queue) \ {id}
  BY <1>1 DEF IdsOf, Queued
<1>3. CASE Queued(id)
  BY <1>2, <1>3, BoxReleases DEF BoxStep
<1>4. CASE ~Queued(id)
  <2>1. queue' = queue
    BY <1>4 DEF RemovePending, Without
  <2>2. \A x \in Ids : Said(x)' = Said(x)
    BY DEF Said, Told
  <2> QED  BY <2>1, <2>2, BoxStutters DEF BoxStep
<1> QED  BY <1>3, <1>4

LEMMA FinishDeliveredBox ==
  ASSUME DeliveryInv, BoxInv, NEW h \in Handlers, FinishDelivered(h)
  PROVE  BoxInv' /\ BoxStep
<1>1. /\ handler[h].pc = "delivered" /\ Goto(h, "recording") /\ RemovePending(handler[h].id)
      /\ UNCHANGED <<deployment, history, inbox, made>>
  BY DEF FinishDelivered, At
<1>2. handler[h].id \in Ids /\ inbox[handler[h].id] = "whole"
  BY <1>1, OwnWaits DEF Numbered, DeliveryInv, HandlersKnow
<1>3. "recording" \in HandlerPcs
  BY DEF HandlerPcs
<1> QED  BY <1>1, <1>2, <1>3, GotoBoxInv, RemoveBox DEF Ending

LEMMA RecordBox ==
  ASSUME DeliveryInv, BoxInv, NEW h \in Handlers,
         FinishKeptLocally(h) \/ FinishStored(h) \/ RecordSubmitted(h) \/ Fail(h)
  PROVE  BoxInv' /\ BoxStep
<1> PICK mine : mine = handler[h].id
  OBVIOUS
<1>1. CASE SaysNothing(h)
  <2>1. "settling" \in HandlerPcs /\ "settling" \in Ending
    BY DEF HandlerPcs, Ending
  <2>2. \A id \in Ids : Said(id)' = Said(id)
    BY <1>1 DEF Said, Told, SaysNothing
  <2> QED  BY <1>1, <2>1, <2>2, GotoBoxInv, BoxStutters DEF BoxStep, SaysNothing
<1>2. CASE ~SaysNothing(h)
  <2>1. PICK o \in Outcomes :
          /\ mine # NoId /\ At(h, o.at) /\ Record(h, o.status, o.pc)
          /\ o.at = "failing" => (o.status = "withdrawn" <=> history[mine] = "submitted")
          /\ UNCHANGED <<queue, enqueued, evicted>>
    BY <1>2, Endings
  <2>2. /\ o.pc \in HandlerPcs /\ o.status # "none" /\ o.at # "settling"
        /\ o.at \notin Ending \/ o.at = "failing"
        /\ o.status = "submitted" <=> o.at = "recording"
        /\ o.status = "submitted" => o.pc = "archiving"
        /\ o.status = "withdrawn" => o.at = "failing" /\ o.pc = "settling"
    BY DEF HandlerPcs, Outcomes, Ending
  <2>3. /\ handler[h].pc = o.at /\ Goto(h, o.pc)
        /\ history' = [history EXCEPT ![mine] = o.status]
        /\ UNCHANGED <<deployment, queue, inbox, made>>
    BY <2>1 DEF At, Record
  <2>4. mine \in Ids /\ mine \in 1 .. made
    BY <2>1, NumberedId, QueueTyped DEF DeliveryInv, HandlersOwnTheirIds, NoId
  <2>5. IF o.status = "withdrawn" THEN Said(mine) = "submitted" ELSE Said(mine) = "waiting"
    <3>1. history[mine] # "withdrawn" /\ (o.at # "failing" => history[mine] # "submitted")
      BY <2>1, <2>2, <2>3 DEF BoxInv, NotYetTold
    <3>2. IF o.status = "withdrawn" THEN history[mine] = "submitted" ELSE ~Told(mine)
      BY <2>1, <2>2, <3>1 DEF Told
    <3> QED  BY <2>4, <3>2, MadeIsSaid
  <2>6. \A id \in Ids : history'[id] = IF id = mine THEN o.status ELSE history[id]
    BY <2>3, <2>4 DEF DeliveryInv, DeliveryTypeOK
  <2>7. BoxInv'
    <3> PICK next : next = [pc |-> o.pc, id |-> mine]
      OBVIOUS
    <3>1. next \in HandlerType /\ handler' = [handler EXCEPT ![h] = next]
      BY <2>2, <2>3, GotoShape
    <3>2. next.pc = o.pc /\ next.id = mine
      BY <3>1
    <3>3. \A id \in Ids : history'[id] # history[id] => id = mine /\ history'[id] # "none"
      BY <2>2, <2>6
    <3>4. /\ next.pc \notin Ending => history'[next.id] # "submitted"
          /\ next.pc # "settling" => history'[next.id] # "withdrawn"
      BY <2>2, <2>4, <2>6, <3>2 DEF Ending
    <3> QED  BY <2>3, <3>1, <3>2, <3>3, <3>4, HandlerBoxInv
  <2>8. BoxStep
    <3>1. CASE o.status = "submitted"
      <4>1. inbox[mine] = "whole" /\ ~Queued(mine)
        BY <2>2, <2>3, <3>1 DEF DeliveryInv, HandlersKnow
      <4>2. \A id \in Ids : Said(id)' = IF id = mine THEN "submitted" ELSE Said(id)
        BY <2>6, <3>1 DEF Said, Told
      <4> QED  BY <2>3, <2>4, <2>5, <3>1, <4>1, <4>2, BoxConfirms DEF BoxStep
    <3>2. CASE o.status = "withdrawn"
      <4>1. \A id \in Ids : Said(id)' = IF id = mine THEN "withdrawn" ELSE Said(id)
        BY <2>6, <3>2 DEF Said, Told
      <4> QED  BY <2>3, <2>4, <2>5, <3>2, <4>1, BoxWithdraws DEF BoxStep
    <3>3. CASE o.status \notin {"submitted", "withdrawn"}
      <4>1. \A id \in Ids : Said(id)' = Said(id)
        BY <2>2, <2>5, <2>6, <3>3 DEF Said, Told
      <4> QED  BY <2>3, <4>1, BoxStutters DEF BoxStep
    <3> QED  BY <3>1, <3>2, <3>3
  <2> QED  BY <2>7, <2>8
<1> QED  BY <1>1, <1>2

LEMMA SettleBox ==
  ASSUME DeliveryInv, BoxInv, NEW h \in Handlers, Settle(h)
  PROVE  BoxInv' /\ BoxStep
<1> PICK next : next = [pc |-> "idle", id |-> NoId]
  OBVIOUS
<1>1. next \in HandlerType /\ next.id = NoId
  BY DEF HandlerType, HandlerPcs
<1>2. handler' = [handler EXCEPT ![h] = next] /\ UNCHANGED <<deployment, queue, history, inbox, made>>
  BY DEF Settle
<1>3. \A id \in Ids : Said(id)' = Said(id)
  BY <1>2 DEF Said, Told
<1>4. BoxInv'
  BY <1>1, <1>2, HandlerBoxInv
<1> QED  BY <1>2, <1>3, <1>4, BoxStutters DEF BoxStep

LEMMA PrepareBox ==
  ASSUME DeliveryInv, BoxInv, NEW h \in Handlers, Prepare(h)
  PROVE  BoxInv' /\ BoxStep
<1> PICK new : new = made + 1
  OBVIOUS
<1> PICK next : next = [pc |-> "queueing", id |-> new]
  OBVIOUS
<1>1. /\ made < MaxSubmissions /\ made' = new
      /\ handler' = [handler EXCEPT ![h] = next]
      /\ history' = [history EXCEPT ![new] = "pending"]
      /\ UNCHANGED <<deployment, queue, inbox>>
  BY DEF Prepare
<1>2. made \in Nat /\ new \in Nat /\ new > made /\ new \in Ids /\ Ids \subseteq Nat
  BY <1>1, QueueTyped, DeliveryAssumption DEF Ids
<1>3. /\ \A k \in Handlers : handler'[k] = IF k = h THEN next ELSE handler[k]
      /\ next.id = new
  BY <1>1 DEF DeliveryInv, DeliveryTypeOK
<1>4. \A id \in Ids : history'[id] = IF id = new THEN "pending" ELSE history[id]
  BY <1>1, <1>2 DEF DeliveryInv, DeliveryTypeOK
<1>5. \A id \in Ids : id # new => (id <= new <=> id <= made)
  BY <1>2
<1>6. GivenAreMade'
  BY <1>1, <1>2, <1>4, <1>5 DEF BoxInv, GivenAreMade
<1>7. NotYetTold'
  <2> SUFFICES ASSUME NEW k \in Handlers, handler'[k].id # NoId
               PROVE  LET said == history'[handler'[k].id] IN
                      /\ handler'[k].pc \notin Ending => said # "submitted"
                      /\ handler'[k].pc # "settling" => said # "withdrawn"
    BY DEF NotYetTold
  <2>1. CASE k = h
    BY <1>2, <1>3, <1>4, <2>1
  <2>2. CASE k # h
    <3>1. handler'[k] = handler[k] /\ handler[k].id \in Ids
      BY <1>3, <2>2, NumberedId
    <3> QED  BY <1>4, <3>1 DEF BoxInv, NotYetTold
  <2> QED  BY <2>1, <2>2
<1>8. Said(new) = "nothing" /\ \A id \in Ids : Said(id)' = IF id = new THEN "waiting" ELSE Said(id)
  <2>1. history[new] = "none"
    BY <1>2 DEF BoxInv, GivenAreMade
  <2> QED  BY <1>4, <2>1 DEF Said, Told
<1> QED  BY <1>1, <1>2, <1>6, <1>7, <1>8, BoxGives DEF BoxInv, BoxStep

LEMMA QuietBox ==
  ASSUME DeliveryInv, BoxInv, UNCHANGED <<deployment, queue, history, inbox, handler, made>>
  PROVE  BoxInv' /\ BoxStep
<1>1. \A id \in Ids : Said(id)' = Said(id)
  BY DEF Said, Told
<1>2. BoxInv'
  BY DEF BoxInv, GivenAreMade, NotYetTold
<1> QED  BY <1>1, <1>2, BoxStutters DEF BoxStep

(* What the retry sends is whole, or hollow and allowed to be; of what is  *)
(* called submitted the inbox has the whole already.                       *)
LEMMA SentBox ==
  ASSUME DeliveryInv, BoxInv, sync.pc # "idle", SentByRetry,
         UNCHANGED <<deployment, queue, history, handler, made>>
  PROVE  BoxInv' /\ BoxStep
<1> PICK item : item = Head(sync.todo)
  OBVIOUS
<1> PICK id : id = item.id
  OBVIOUS
<1>1. /\ item \in ItemType /\ id \in Ids /\ id \in 1 .. made
      /\ inbox \in [Ids -> {"none", "hollow", "whole"}]
  <2>1. item \in ItemType /\ 1 \in DOMAIN sync.todo /\ item = sync.todo[1]
    BY SendingTodo
  <2> QED  BY <2>1, QueueTyped DEF DeliveryInv, QueuedWereMade, DeliveryTypeOK
<1>2. CASE UNCHANGED inbox
  BY <1>2, QuietBox
<1>3. CASE Delivered(id, Content(item)) /\ ~UNCHANGED inbox
  <2>1. BoxInv'
    BY DEF BoxInv, GivenAreMade, NotYetTold
  <2>2. \A x \in Ids :
          \/ inbox'[x] = inbox[x] \/ inbox'[x] = "whole"
          \/ inbox'[x] = "hollow" /\ deployment.encrypted /\ FallbackCopy(x)
    BY RetryFills
  <2>3. Content(item) \in {"hollow", "whole"} /\ inbox'[id] = Content(item)
    BY <1>1, <1>3 DEF Content, Delivered
  <2>4. inbox[id] # Content(item)
    BY <1>1, <1>3 DEF Delivered
  <2>5. ~Told(id)
    BY <1>1, <2>2, <2>3, <2>4 DEF Told, DeliveryInv, SubmittedIsDelivered, FallbackIsFinal
  <2>6. Said(id) = "waiting"
    BY <1>1, <2>5, MadeIsSaid
  <2>7. CASE Content(item) = "whole"
    BY <1>1, <1>3, <2>1, <2>6, <2>7, ArrivalBox
  <2>8. CASE Content(item) = "hollow"
    <3>1. deployment.encrypted /\ deployment.fallback
      BY <1>1, <2>2, <2>3, <2>4, <2>8 DEF DeliveryInv, FallbackIsFinal
    <3>2. inbox' = [inbox EXCEPT ![id] = "hollow"]
      BY <1>3, <2>8 DEF Delivered
    <3> QED  BY <1>1, <2>1, <2>6, <3>1, <3>2, BoxArrivesHollow DEF BoxStep
  <2> QED  BY <2>3, <2>7, <2>8
<1> QED  BY <1>2, <1>3 DEF SentByRetry

LEMMA RetryBox ==
  ASSUME DeliveryInv, BoxInv, NEW id \in Ids, SyncStep(id)
  PROVE  BoxInv' /\ BoxStep
<1>1. sync.pc # "idle" /\ Head(sync.todo).id = id /\ UNCHANGED <<deployment, history, handler, made>>
  BY DEF SyncStep, SyncConfirmed, SyncUnconfirmed, SyncSaved, SyncSaveFails
<1>2. CASE SyncConfirmed(id) \/ SyncUnconfirmed(id) \/ SyncSaveFails(id)
  <2>1. SentByRetry /\ UNCHANGED queue
    BY <1>1, <1>2 DEF SyncConfirmed, SyncUnconfirmed, SyncSaveFails, SentByRetry, MayHaveArrived
  <2> QED  BY <1>1, <2>1, SentBox
<1>3. CASE SyncSaved(id)
  <2>1. inbox[id] # "none" /\ RemovePending(id) /\ UNCHANGED inbox
    BY <1>1, <1>3 DEF SyncSaved, DeliveryInv, SavedHasArrived
  <2>2. BoxInv'
    BY <1>1 DEF BoxInv, GivenAreMade, NotYetTold
  <2> QED  BY <1>1, <2>1, <2>2, RemoveBox
<1> QED  BY <1>2, <1>3 DEF SyncStep

LEMMA ReloadFormBox ==
  ASSUME DeliveryInv, BoxInv, ReloadForm
  PROVE  BoxInv' /\ BoxStep
<1>1. /\ handler' = [h \in Handlers |-> [pc |-> "idle", id |-> NoId]]
      /\ UNCHANGED <<deployment, queue, history, made>>
  BY DEF ReloadForm
<1>2. PICK lands \in SUBSET {handler[h].id : h \in {k \in Handlers : At(k, "uploading")}} :
        inbox' = [id \in Ids |-> IF id \in lands THEN "whole" ELSE inbox[id]]
  BY DEF ReloadForm
<1>3. \A id \in lands : id \in Ids /\ Said(id) = "waiting"
  BY OwnWaits DEF At, Numbered
<1>4. BoxStep
  BY <1>1, <1>2, <1>3, BoxArrives DEF BoxStep
<1>5. BoxInv'
  BY <1>1 DEF BoxInv, GivenAreMade, NotYetTold
<1> QED  BY <1>4, <1>5

LEMMA DeliveryBoxStep ==
  ASSUME DeliveryInv, BoxInv, [DeliveryNext]_deliveryVars
  PROVE  BoxInv' /\ BoxStep
<1>1. CASE UNCHANGED deliveryVars
  BY <1>1, QuietBox DEF deliveryVars
<1>2. ASSUME NEW h \in Handlers, Click(h) \/ Progress(h)
      PROVE  BoxInv' /\ BoxStep
  BY <1>2, ClickBox, PrepareBox, QueueingBox, UploadedBox, FinishDeliveredBox, RecordBox,
     SettleBox DEF Progress, Upload
<1>3. CASE ManualSync \/ AutomaticSync \/ DeadlinePasses
  BY <1>3, QuietBox DEF ManualSync, AutomaticSync, SyncPending, DeadlinePasses
<1>4. ASSUME NEW id \in Ids, SyncStep(id)
      PROVE  BoxInv' /\ BoxStep
  BY <1>4, RetryBox
<1>5. CASE ReloadForm
  BY <1>5, ReloadFormBox
<1>6. CASE ReloadRecovery
  <2>1. /\ sync.pc # "idle" /\ SentByRetry
        /\ UNCHANGED <<deployment, queue, history, handler, made>>
    BY <1>6 DEF ReloadRecovery, SentByRetry, MayHaveArrived
  <2> QED  BY <2>1, SentBox
<1> QED  BY <1>1, <1>2, <1>3, <1>4, <1>5, <1>6 DEF DeliveryNext

(* Whatever handlers, retry, deadline, reloads and failing loads do, the   *)
(* form is an answer box: a kept signal leaves the queue only for the      *)
(* owner's inbox or, one at a time, when more are kept than fit; what the  *)
(* inbox holds is not taken away; "submitted" is said of a whole signal    *)
(* that is not sent again, whether or not an error then replaces it.       *)
THEOREM DeliveryImplementsBox == DeliverySpec => ImplementsAnswerBox
<1>1. DeliveryInit => Box!BoxInit /\ BoxInv
  <2> SUFFICES ASSUME DeliveryInit
               PROVE  Box!BoxInit /\ BoxInv
    OBVIOUS
  <2>1. IdsOf(queue) = {}
    BY EmptySeq DEF DeliveryInit, IdsOf
  <2>2. deployment.encrypted \in BOOLEAN /\ deployment.fallback \in BOOLEAN
    BY DeliveryAssumption DEF DeliveryInit, DeploymentType
  <2>3. Box!BoxInit
    BY <2>1, <2>2 DEF Box!BoxInit, DeliveryInit, IdsOf
  <2>4. BoxInv
    BY DEF DeliveryInit, BoxInv, GivenAreMade, NotYetTold, Ids, NoId
  <2> QED  BY <2>3, <2>4
<1>2. DeliveryInv /\ BoxInv /\ [DeliveryNext]_deliveryVars => BoxInv'
  BY DeliveryBoxStep
<1>3. DeliveryInv /\ BoxInv /\ [DeliveryNext]_deliveryVars => [Box!BoxNext]_(Box!boxVars)
  BY DeliveryBoxStep DEF BoxStep
<1> QED  BY <1>1, <1>2, <1>3, DeliveryInvariant, PTL
           DEF DeliverySpec, ImplementsAnswerBox, Box!BoxSpec

-----------------------------------------------------------------------------
(* NftGate                                                                 *)

CheckType == [id : CheckIds, wallet : Wallets, live : BOOLEAN,
              read : {"unread", "held", "short"}, old : BOOLEAN]

IdsAreUsed ==
  /\ \A c \in checks : c.id <= used.checks
  /\ \A w \in Wallets : known[w].id <= used.checks

(* The request a press waits for was not answered before the press.        *)
PressIsAhead ==
  press.step = "checking" =>
    /\ press.account # NoWallet
    /\ \A c \in checks : c.id = press.check => ~c.old

(* Each request is due to a mount, to a change of wallet or to a press.    *)
PageDue ==
  IF \/ runtime = "waiting" /\ FormShown(told)
     \/ runtime = "mounted" /\ hook.wallet # wallet
  THEN 1 ELSE 0

PressDue == IF press.step = "starting" THEN 1 ELSE 0

ChecksAreDue == used.checks + PageDue + PressDue <= used.changes + used.presses + 1

GateInv ==
  /\ GateTypeOK
  /\ IdsAreUsed
  /\ PressIsAhead
  /\ ChecksAreDue
  /\ SubmitsAreChecked

-----------------------------------------------------------------------------

LEMMA UsedShape ==
  ASSUME GateTypeOK
  PROVE  /\ used.changes \in Nat /\ used.presses \in Nat /\ used.checks \in Nat
         /\ used.changes <= MaxChanges /\ used.presses <= MaxPresses
         /\ CheckIds \subseteq Nat \ {0}
         /\ \A id \in Nat : id # 0 /\ id <= MaxChanges + MaxPresses + 1 => id \in CheckIds
  BY GateAssumption DEF GateTypeOK, CheckIds

LEMMA KnownShape ==
  ASSUME GateTypeOK, NEW w \in Wallets
  PROVE  /\ known[w] \in {Nothing, Success} \cup {InFlight(id) : id \in CheckIds}
         /\ known[w].id \in Nat
  BY UsedShape DEF GateTypeOK, Nothing, Success, InFlight

(* One more request, for a wallet whose entry of the cache is replaced.    *)
LEMMA OneMoreCheck ==
  ASSUME GateInv, NEW w \in Wallets, NEW live \in BOOLEAN,
         known'[w] = InFlight(used.checks + 1),
         \A x \in Wallets : x # w => known'[x] \in {known[x], Nothing},
         used'.checks = used.checks + 1
  PROVE  LET next == checks \cup {NewCheck(w, live)} IN
         /\ \A c, d \in next : c.id = d.id => c = d
         /\ \A c \in next, x \in Wallets : known'[x].id = c.id => c.wallet = x
         /\ \A c \in next : c.id <= used'.checks
         /\ \A x \in Wallets : known'[x].id <= used'.checks
<1> PICK n : n = used.checks + 1
  OBVIOUS
<1> PICK new : new = NewCheck(w, live)
  OBVIOUS
<1>1. /\ GateTypeOK /\ used.checks \in Nat /\ n \in Nat /\ n > used.checks /\ n # 0
      /\ \A c \in checks : c.id \in Nat \ {0} /\ c.id # n /\ c.id <= used.checks
      /\ \A x \in Wallets : known[x].id \in Nat /\ known[x].id # n /\ known[x].id <= used.checks
  BY UsedShape, KnownShape DEF GateInv, IdsAreUsed, GateTypeOK
<1>2. new.id = n /\ new.wallet = w
  BY DEF NewCheck
<1>3. InFlight(n).id = n /\ Nothing.id = 0
  BY DEF InFlight, Nothing
<1>4. known'[w].id = n /\ \A x \in Wallets : x # w => known'[x].id \in {known[x].id, 0}
  BY <1>3
<1>5. \A c, d \in checks \cup {new} : c.id = d.id => c = d
  BY <1>1, <1>2 DEF GateTypeOK
<1>6. \A c \in checks \cup {new}, x \in Wallets : known'[x].id = c.id => c.wallet = x
  BY <1>1, <1>2, <1>4 DEF GateTypeOK
<1>7. \A c \in checks \cup {new} : c.id <= used'.checks
  BY <1>1, <1>2
<1>8. \A x \in Wallets : known'[x].id <= used'.checks
  BY <1>1, <1>4
<1> QED  BY <1>5, <1>6, <1>7, <1>8

(* Fewer entries in the cache, and requests that lose what is live or are  *)
(* gone.                                                                   *)
LEMMA NoMoreChecks ==
  ASSUME GateInv, NEW cache, NEW next,
         \A x \in Wallets : cache[x] \in {known[x], Nothing, Success},
         \A c \in next : \E d \in checks : c.id = d.id /\ c.wallet = d.wallet
  PROVE  /\ \A c \in next, x \in Wallets : cache[x].id = c.id => c.wallet = x
         /\ \A c \in next : c.id <= used.checks
         /\ \A x \in Wallets : cache[x].id <= used.checks
<1>1. /\ used.checks \in Nat /\ \A c \in checks : c.id \in Nat \ {0}
      /\ Nothing.id = 0 /\ Success.id = 0
  BY UsedShape DEF GateInv, GateTypeOK, Nothing, Success
<1> QED  BY <1>1 DEF GateInv, GateTypeOK, IdsAreUsed

ToldType == [viewing : BOOLEAN, submission : BOOLEAN, canView : BOOLEAN,
             told : BOOLEAN, recheck : Accounts]
HookType == [wallet : Accounts, owned : BOOLEAN]

(* A request that is nobody's any more is the same request.                *)
LEMMA LeftBehind ==
  ASSUME NEW S \in SUBSET CheckType
  PROVE  LET left == {[c EXCEPT !.live = FALSE] : c \in S} IN
         /\ left \in SUBSET CheckType
         /\ \A c \in left : \E d \in S : /\ c = [d EXCEPT !.live = FALSE]
                                        /\ c.id = d.id /\ c.wallet = d.wallet /\ c.old = d.old
         /\ (\A c, d \in S : c.id = d.id => c = d) => (\A c, d \in left : c.id = d.id => c = d)
<1> PICK left : left = {[c EXCEPT !.live = FALSE] : c \in S}
  OBVIOUS
<1>1. \A d \in S : LET c == [d EXCEPT !.live = FALSE] IN
        c \in CheckType /\ c.id = d.id /\ c.wallet = d.wallet /\ c.old = d.old
  BY DEF CheckType
<1>2. \A c \in left : \E d \in S : /\ c = [d EXCEPT !.live = FALSE]
                                  /\ c.id = d.id /\ c.wallet = d.wallet /\ c.old = d.old
  BY <1>1
<1>3. left \in SUBSET CheckType
  BY <1>1, <1>2
<1>4. ASSUME \A c, d \in S : c.id = d.id => c = d
      PROVE  \A c, d \in left : c.id = d.id => c = d
  <2> SUFFICES ASSUME NEW c \in left, NEW d \in left, c.id = d.id
               PROVE  c = d
    OBVIOUS
  <2>1. PICK c0 \in S : c = [c0 EXCEPT !.live = FALSE] /\ c.id = c0.id
    BY <1>2
  <2>2. PICK d0 \in S : d = [d0 EXCEPT !.live = FALSE] /\ d.id = d0.id
    BY <1>2
  <2> QED  BY <1>4, <2>1, <2>2
<1> QED  BY <1>2, <1>3, <1>4

LEMMA TellShape ==
  ASSUME GateInv, NEW owned \in BOOLEAN, NEW hookNext \in HookType, hookNext.wallet = wallet,
         NEW next \in SUBSET CheckType, Tell(Report(owned), hookNext, next),
         UNCHANGED <<gate, wallet>>
  PROVE  /\ told' \in ToldType /\ runtime' \in {"waiting", "mounted"} /\ hook' \in HookType
         /\ checks' \in SUBSET CheckType
         /\ \A c \in checks' : \E d \in next : c.id = d.id /\ c.wallet = d.wallet /\ c.old = d.old
         /\ (\A c, d \in next : c.id = d.id => c = d)
              => (\A c, d \in checks' : c.id = d.id => c = d)
         /\ PageDue' = 0
<1> PICK state : state = Report(owned)
  OBVIOUS
<1>1. state \in ToldType
  BY DEF GateInv, GateTypeOK, ToldType, Report, Accounts
<1>2. /\ told' = state
      /\ runtime' = IF FormShown(state) THEN "mounted" ELSE "waiting"
      /\ hook' = IF FormShown(state) THEN hookNext ELSE NewHook
      /\ checks' = IF FormShown(state) THEN next ELSE {[c EXCEPT !.live = FALSE] : c \in next}
  BY DEF Tell
<1>3. NewHook \in HookType
  BY DEF NewHook, HookType, Accounts
<1>4. CASE FormShown(state)
  BY <1>1, <1>2, <1>4 DEF PageDue
<1>5. CASE ~FormShown(state)
  <2>1. PageDue' = 0
    BY <1>2, <1>5 DEF PageDue, FormShown
  <2>2. checks' = {[c EXCEPT !.live = FALSE] : c \in next}
    BY <1>2, <1>5
  <2>3. /\ checks' \in SUBSET CheckType
        /\ \A c \in checks' : \E d \in next : c.id = d.id /\ c.wallet = d.wallet /\ c.old = d.old
        /\ (\A c, d \in next : c.id = d.id => c = d)
              => (\A c, d \in checks' : c.id = d.id => c = d)
    <3> PICK left : left = {[c EXCEPT !.live = FALSE] : c \in next}
      OBVIOUS
    <3>1. /\ left \in SUBSET CheckType
          /\ \A c \in left : \E d \in next : /\ c = [d EXCEPT !.live = FALSE]
                                          /\ c.id = d.id /\ c.wallet = d.wallet /\ c.old = d.old
          /\ (\A c, d \in next : c.id = d.id => c = d)
               => (\A c, d \in left : c.id = d.id => c = d)
      BY ONLY LeftBehind, next \in SUBSET CheckType,
              left = {[c EXCEPT !.live = FALSE] : c \in next}
    <3>2. checks' = left
      BY <2>2
    <3> QED  BY <3>1, <3>2
  <2> QED  BY <1>1, <1>2, <1>3, <1>5, <2>1, <2>3
<1> QED  BY <1>4, <1>5

(* The type invariant from its parts.                                      *)
KnownType == [Wallets -> {Nothing, Success} \cup {InFlight(id) : id \in CheckIds}]
PressType == [step : {"idle", "starting", "checking"}, account : Accounts,
              told : BOOLEAN, recheck : Accounts, check : CheckIds \cup {0}]
UsedType == [changes : 0 .. MaxChanges, presses : 0 .. MaxPresses,
             failures : 0 .. MaxFailures, checks : CheckIds \cup {0}]

LEMMA CountCheck ==
  ASSUME GateInv, PageDue = 1 \/ PressDue = 1
  PROVE  /\ used.checks + 1 \in CheckIds
         /\ [used EXCEPT !.checks = @ + 1] \in UsedType
         /\ [used EXCEPT !.checks = @ + 1].checks = used.checks + 1
         /\ [used EXCEPT !.checks = @ + 1].changes = used.changes
         /\ [used EXCEPT !.checks = @ + 1].presses = used.presses
<1>1. PageDue \in {0, 1} /\ PressDue \in {0, 1}
  BY DEF PageDue, PressDue
<1>2. used.checks + 1 <= used.changes + used.presses + 1
  BY <1>1, UsedShape DEF GateInv, ChecksAreDue
<1>3. used.checks + 1 \in CheckIds
  BY <1>2, UsedShape, GateAssumption DEF GateInv
<1>4. used \in UsedType
  BY DEF GateInv, GateTypeOK, UsedType
<1> QED  BY <1>3, <1>4 DEF UsedType

LEMMA EffectsStep ==
  ASSUME GateInv, NEW previous, NEW owned \in BOOLEAN, PageDue = 1,
         Effects(previous, owned),
         UNCHANGED <<gate, holders, wallet, press, accepted>>
  PROVE  GateInv'
<1> PICK cache : cache = [w \in Wallets |-> IF w = previous /\ w # wallet THEN Nothing ELSE known[w]]
  OBVIOUS
<1> PICK asks : asks = (Ready /\ Finds(cache, wallet, FALSE) = Nothing)
  OBVIOUS
<1> PICK owns : owns = IF ~Ready THEN FALSE
                       ELSE IF Finds(cache, wallet, FALSE) = Success THEN TRUE ELSE owned
  OBVIOUS
<1> PICK next : next = checks \cup {c \in {NewCheck(wallet, TRUE)} : asks}
  OBVIOUS
<1> PICK hookNext : hookNext = [wallet |-> wallet, owned |-> owns]
  OBVIOUS
<1>1. /\ known' = IF asks THEN [cache EXCEPT ![wallet] = InFlight(used.checks + 1)] ELSE cache
      /\ Tell(Report(owned), hookNext, next)
      /\ used' = IF asks THEN [used EXCEPT !.checks = @ + 1] ELSE used
  BY DEF Effects
<1>2. hookNext \in HookType /\ hookNext.wallet = wallet
  BY DEF GateInv, GateTypeOK, HookType
<1>3. /\ cache \in KnownType
      /\ \A x \in Wallets : cache[x] \in {known[x], Nothing}
  BY DEF GateInv, GateTypeOK, KnownType
<1>4. checks \in SUBSET CheckType /\ \A c, d \in checks : c.id = d.id => c = d
  BY DEF GateInv, GateTypeOK, CheckType
<1>5. /\ used.checks + 1 \in CheckIds
      /\ asks => used' \in UsedType /\ used'.checks = used.checks + 1
      /\ ~asks => used' = used
      /\ used'.changes = used.changes /\ used'.presses = used.presses
  BY <1>1, CountCheck
<1>6. /\ next \in SUBSET CheckType
      /\ \A c, d \in next : c.id = d.id => c = d
      /\ \A c \in next, x \in Wallets : known'[x].id = c.id => c.wallet = x
      /\ \A c \in next : c.id <= used'.checks
      /\ \A x \in Wallets : known'[x].id <= used'.checks
      /\ known' \in KnownType
      /\ \A c \in next : c \in checks \/ ~c.old
  <2>1. CASE asks
    <3>1. wallet \in Wallets
      BY <2>1 DEF Ready, GateInv, GateTypeOK, Accounts
    <3>2. NewCheck(wallet, TRUE) \in CheckType /\ ~NewCheck(wallet, TRUE).old
      BY <1>5, <3>1 DEF NewCheck, CheckType
    <3>3. next = checks \cup {NewCheck(wallet, TRUE)} /\ next \in SUBSET CheckType
      BY <1>4, <2>1, <3>2
    <3>4. /\ known' \in KnownType /\ known'[wallet] = InFlight(used.checks + 1)
          /\ \A x \in Wallets : x # wallet => known'[x] \in {known[x], Nothing}
      BY <1>1, <1>3, <1>5, <2>1, <3>1 DEF KnownType
    <3>5. used'.checks = used.checks + 1
      BY <1>5, <2>1
    <3> HIDE DEF GateInv
    <3>6. /\ \A c, d \in next : c.id = d.id => c = d
          /\ \A c \in next, x \in Wallets : known'[x].id = c.id => c.wallet = x
          /\ \A c \in next : c.id <= used'.checks
          /\ \A x \in Wallets : known'[x].id <= used'.checks
      BY ONLY GateInv, <3>1, <3>3, <3>4, <3>5, OneMoreCheck
    <3> QED  BY <3>2, <3>3, <3>4, <3>6
  <2>2. CASE ~asks
    <3>1. next = checks /\ known' = cache /\ used' = used
      BY <1>1, <2>2
    <3>2. /\ \A x \in Wallets : cache[x] \in {known[x], Nothing, Success}
          /\ \A c \in checks : \E d \in checks : c.id = d.id /\ c.wallet = d.wallet
      BY <1>3
    <3>3. /\ \A c \in checks, x \in Wallets : cache[x].id = c.id => c.wallet = x
          /\ \A c \in checks : c.id <= used.checks
          /\ \A x \in Wallets : cache[x].id <= used.checks
      BY ONLY GateInv, <3>2, NoMoreChecks
    <3> QED  BY <1>3, <1>4, <3>1, <3>3
  <2> QED  BY <2>1, <2>2
<1>7. /\ told' \in ToldType /\ runtime' \in {"waiting", "mounted"} /\ hook' \in HookType
      /\ checks' \in SUBSET CheckType
      /\ \A c \in checks' : \E d \in next : c.id = d.id /\ c.wallet = d.wallet /\ c.old = d.old
      /\ \A c, d \in checks' : c.id = d.id => c = d
      /\ PageDue' = 0
  <2>1. UNCHANGED <<gate, wallet>> /\ next \in SUBSET CheckType
    BY <1>6
  <2>2. /\ told' \in ToldType /\ runtime' \in {"waiting", "mounted"} /\ hook' \in HookType
        /\ checks' \in SUBSET CheckType
        /\ \A c \in checks' : \E d \in next : c.id = d.id /\ c.wallet = d.wallet /\ c.old = d.old
        /\ (\A c, d \in next : c.id = d.id => c = d)
             => (\A c, d \in checks' : c.id = d.id => c = d)
        /\ PageDue' = 0
    BY ONLY GateInv, <1>1, <1>2, <2>1, owned \in BOOLEAN, TellShape
  <2> QED  BY <1>6, <2>2
<1>8. used' \in UsedType
  BY <1>5 DEF GateInv, GateTypeOK, UsedType
<1>9. GateTypeOK'
  <2>1. \A c \in checks', x \in Wallets : known'[x].id = c.id => c.wallet = x
    <3> TAKE c \in checks', x \in Wallets
    <3>1. PICK d \in next : c.id = d.id /\ c.wallet = d.wallet
      BY <1>7
    <3> QED  BY <1>6, <3>1
  <2> QED  BY <1>6, <1>7, <1>8, <2>1
             DEF GateInv, GateTypeOK, ToldType, HookType, CheckType, KnownType, UsedType
<1>10. IdsAreUsed'
  BY <1>6, <1>7 DEF IdsAreUsed
<1>11. PressIsAhead'
  <2>1. press' = press /\ PressIsAhead
    BY DEF GateInv
  <2> SUFFICES ASSUME press.step = "checking", NEW c \in checks', c.id = press.check
               PROVE  ~c.old
    BY <2>1 DEF PressIsAhead
  <2>2. PICK d \in next : c.id = d.id /\ c.old = d.old
    BY <1>7
  <2> QED  BY <1>6, <2>1, <2>2 DEF PressIsAhead
<1>12. ChecksAreDue'
  <2>1. PressDue' = PressDue /\ PressDue \in {0, 1}
    BY DEF PressDue
  <2>2. used'.checks = used.checks \/ used'.checks = used.checks + 1
    BY <1>5
  <2> QED  BY <1>5, <1>7, <2>1, <2>2, UsedShape DEF GateInv, ChecksAreDue
<1>13. SubmitsAreChecked'
  BY DEF GateInv, SubmitsAreChecked
<1> QED  BY <1>9, <1>10, <1>11, <1>12, <1>13 DEF GateInv

-----------------------------------------------------------------------------
(* The steps of the page.                                                  *)
LEMMA MountRuntimeStep ==
  ASSUME GateInv, MountRuntime
  PROVE  GateInv'
<1>1. PageDue = 1
  BY DEF MountRuntime, PageDue
<1>2. Effects(NoWallet, FALSE) /\ UNCHANGED <<gate, holders, wallet, press, accepted>>
  BY DEF MountRuntime
<1> QED  BY ONLY GateInv, <1>1, <1>2, EffectsStep

LEMMA WalletEffectsStep ==
  ASSUME GateInv, WalletEffects
  PROVE  GateInv'
<1>1. PageDue = 1 /\ hook.owned \in BOOLEAN
  BY DEF WalletEffects, PageDue, GateInv, GateTypeOK
<1>2. Effects(hook.wallet, hook.owned) /\ UNCHANGED <<gate, holders, wallet, press, accepted>>
  BY DEF WalletEffects
<1> QED  BY ONLY GateInv, <1>1, <1>2, EffectsStep

LEMMA TellPageStep ==
  ASSUME GateInv, TellPage
  PROVE  GateInv'
<1>1. /\ hook.owned \in BOOLEAN /\ hook \in HookType /\ hook.wallet = wallet
      /\ checks \in SUBSET CheckType /\ \A c, d \in checks : c.id = d.id => c = d
  BY DEF TellPage, GateInv, GateTypeOK, HookType, CheckType
<1>2. /\ Tell(Report(hook.owned), hook, checks)
      /\ UNCHANGED <<gate, wallet>>
      /\ UNCHANGED <<holders, known, press, used, accepted>>
  BY DEF TellPage
<1>3. /\ told' \in ToldType /\ runtime' \in {"waiting", "mounted"} /\ hook' \in HookType
      /\ checks' \in SUBSET CheckType
      /\ \A c \in checks' : \E d \in checks : c.id = d.id /\ c.wallet = d.wallet /\ c.old = d.old
      /\ (\A c, d \in checks : c.id = d.id => c = d)
           => (\A c, d \in checks' : c.id = d.id => c = d)
      /\ PageDue' = 0
  BY ONLY GateInv, <1>1, <1>2, TellShape
<1>4. /\ \A x \in Wallets : known[x] \in {known[x], Nothing, Success}
      /\ \A c \in checks' : \E d \in checks : c.id = d.id /\ c.wallet = d.wallet
  BY <1>3
<1>5. /\ \A c \in checks', x \in Wallets : known[x].id = c.id => c.wallet = x
      /\ \A c \in checks' : c.id <= used.checks
      /\ \A x \in Wallets : known[x].id <= used.checks
  BY ONLY GateInv, <1>4, NoMoreChecks
<1>6. GateTypeOK'
  BY <1>1, <1>2, <1>3, <1>5 DEF GateInv, GateTypeOK, ToldType, HookType, CheckType
<1>7. IdsAreUsed'
  BY <1>2, <1>5 DEF IdsAreUsed
<1>8. PressIsAhead'
  BY <1>2, <1>3 DEF GateInv, PressIsAhead
<1>9. ChecksAreDue'
  <2>1. PressDue' = PressDue /\ PressDue \in {0, 1} /\ PageDue \in {0, 1}
    BY <1>2 DEF PressDue, PageDue
  <2> QED  BY <1>2, <1>3, <2>1, UsedShape DEF GateInv, ChecksAreDue
<1>10. SubmitsAreChecked'
  BY <1>2 DEF GateInv, SubmitsAreChecked
<1> QED  BY <1>6, <1>7, <1>8, <1>9, <1>10 DEF GateInv

-----------------------------------------------------------------------------
(* The steps of a request.                                                 *)
LEMMA ReadsStep ==
  ASSUME GateInv, NEW q \in checks, Reads(q)
  PROVE  GateInv'
<1> PICK r : r = IF q.wallet \in holders THEN "held" ELSE "short"
  OBVIOUS
<1> PICK new : new = [q EXCEPT !.read = r]
  OBVIOUS
<1>1. q \in CheckType /\ checks \in SUBSET CheckType /\ r \in {"unread", "held", "short"}
  BY DEF GateInv, GateTypeOK, CheckType
<1>2. new \in CheckType /\ new.id = q.id /\ new.wallet = q.wallet /\ new.old = q.old
  BY <1>1 DEF CheckType
<1>3. /\ checks' = (checks \ {q}) \cup {new}
      /\ UNCHANGED <<gate, holders, wallet, runtime, told, hook, known, press, used, accepted>>
  BY DEF Reads
<1>4. /\ checks' \in SUBSET CheckType
      /\ \A d \in checks' : \E e \in checks : d.id = e.id /\ d.wallet = e.wallet /\ d.old = e.old
      /\ \A d, e \in checks' : d.id = e.id => d = e
  BY <1>1, <1>2, <1>3 DEF GateInv, GateTypeOK
<1> PICK cache, next : cache = known /\ next = checks'
  OBVIOUS
<1>5. /\ \A x \in Wallets : cache[x] \in {known[x], Nothing, Success}
      /\ \A d \in next : \E e \in checks : d.id = e.id /\ d.wallet = e.wallet
  BY <1>4
<1>6. /\ \A d \in next, x \in Wallets : cache[x].id = d.id => d.wallet = x
      /\ \A d \in next : d.id <= used.checks
      /\ \A x \in Wallets : cache[x].id <= used.checks
  <2>1. /\ used.checks \in Nat /\ \A d \in checks : d.id \in Nat \ {0}
        /\ Nothing.id = 0 /\ Success.id = 0
    BY UsedShape DEF GateInv, GateTypeOK, Nothing, Success
  <2> QED  BY <1>5, <2>1 DEF GateInv, GateTypeOK, IdsAreUsed
<1>7. /\ \A d \in checks', x \in Wallets : known[x].id = d.id => d.wallet = x
      /\ \A d \in checks' : d.id <= used.checks
      /\ \A x \in Wallets : known[x].id <= used.checks
  BY <1>6
<1>8. GateTypeOK'
  BY <1>3, <1>4, <1>7 DEF GateInv, GateTypeOK, CheckType
<1>9. IdsAreUsed'
  BY <1>3, <1>7 DEF IdsAreUsed
<1>10. PressIsAhead'
  BY <1>3, <1>4 DEF GateInv, PressIsAhead
<1>11. ChecksAreDue' /\ SubmitsAreChecked'
  BY <1>3 DEF GateInv, ChecksAreDue, PageDue, PressDue, FormShown, SubmitsAreChecked
<1> QED  BY <1>8, <1>9, <1>10, <1>11 DEF GateInv

(* The handler that waited lets an answer pass only on a wallet that was   *)
(* seen to hold the NFT, after the press.                                  *)
LEMMA VerdictShape ==
  ASSUME GateInv, NEW c \in checks, NEW held \in BOOLEAN, Verdict(c, held),
         UNCHANGED gate
  PROVE  /\ press' = press \/ (press' = NoPress /\ press.step = "checking")
         /\ press' \in PressType
         /\ accepted' \subseteq [account : Wallets, checked : BOOLEAN, told : BOOLEAN,
                                 fresh : BOOLEAN, held : BOOLEAN]
         /\ SubmitsAreChecked'
<1>1. NoPress \in PressType /\ press \in PressType /\ NoPress.step = "idle"
  BY DEF NoPress, PressType, Accounts, GateInv, GateTypeOK
<1>2. CASE press.step = "checking" /\ press.check = c.id
  <2> PICK a : a = [account |-> press.account, checked |-> TRUE, told |-> press.told,
                    fresh |-> ~c.old, held |-> TRUE]
    OBVIOUS
  <2>1. press' = NoPress /\ accepted' \subseteq accepted \cup {a}
    BY <1>2 DEF Verdict
  <2>2. ~c.old /\ press.account \in Wallets /\ press.told \in BOOLEAN
    BY <1>2 DEF GateInv, GateTypeOK, PressIsAhead, Accounts
  <2>3. a \in [account : Wallets, checked : BOOLEAN, told : BOOLEAN,
               fresh : BOOLEAN, held : BOOLEAN]
    BY <2>2
  <2>4. a.checked /\ a.fresh /\ a.held
    BY <2>2
  <2>5. SubmitsAreChecked'
    BY <2>1, <2>4 DEF GateInv, SubmitsAreChecked
  <2>6. accepted' \subseteq [account : Wallets, checked : BOOLEAN, told : BOOLEAN,
                             fresh : BOOLEAN, held : BOOLEAN]
    BY <2>1, <2>3 DEF GateInv, GateTypeOK
  <2> QED  BY <1>1, <1>2, <2>1, <2>5, <2>6
<1>3. CASE ~(press.step = "checking" /\ press.check = c.id)
  <2>1. UNCHANGED <<press, accepted>>
    BY <1>3 DEF Verdict
  <2> QED  BY <1>1, <2>1 DEF GateInv, GateTypeOK, SubmitsAreChecked
<1> QED  BY <1>2, <1>3

(* Answered or failed, a request is gone and its entry says what it found. *)
LEMMA RequestEnds ==
  ASSUME GateInv, NEW q \in checks, NEW held \in BOOLEAN, NEW entry \in {Nothing, Success},
         Verdict(q, held),
         checks' = checks \ {q},
         known' = [known EXCEPT ![q.wallet] = entry],
         hook' \in HookType, hook'.wallet = hook.wallet,
         used' \in UsedType, used'.checks = used.checks,
         used'.changes = used.changes, used'.presses = used.presses,
         UNCHANGED <<gate, holders, wallet, runtime, told>>
  PROVE  GateInv'
<1>1. /\ press' = press \/ (press' = NoPress /\ press.step = "checking")
      /\ press' \in PressType
      /\ accepted' \subseteq [account : Wallets, checked : BOOLEAN, told : BOOLEAN,
                              fresh : BOOLEAN, held : BOOLEAN]
      /\ SubmitsAreChecked'
  BY VerdictShape
<1>2. known \in KnownType /\ known' \in KnownType
  BY DEF GateInv, GateTypeOK, KnownType
<1>3. \A x \in Wallets : known'[x] \in {known[x], Nothing, Success}
  BY <1>2 DEF KnownType
<1>4. \A d \in checks' : \E e \in checks : d.id = e.id /\ d.wallet = e.wallet
  OBVIOUS
<1> PICK cache, next : cache = known' /\ next = checks'
  OBVIOUS
<1>5. /\ \A x \in Wallets : cache[x] \in {known[x], Nothing, Success}
      /\ \A d \in next : \E e \in checks : d.id = e.id /\ d.wallet = e.wallet
  BY <1>3, <1>4
<1>6. /\ \A d \in next, x \in Wallets : cache[x].id = d.id => d.wallet = x
      /\ \A d \in next : d.id <= used.checks
      /\ \A x \in Wallets : cache[x].id <= used.checks
  <2>1. /\ used.checks \in Nat /\ \A d \in checks : d.id \in Nat \ {0}
        /\ Nothing.id = 0 /\ Success.id = 0
    BY UsedShape DEF GateInv, GateTypeOK, Nothing, Success
  <2> QED  BY <1>5, <2>1 DEF GateInv, GateTypeOK, IdsAreUsed
<1>7. /\ \A d \in checks', x \in Wallets : known'[x].id = d.id => d.wallet = x
      /\ \A d \in checks' : d.id <= used.checks
      /\ \A x \in Wallets : known'[x].id <= used.checks
  BY <1>6
<1>8. GateTypeOK'
  BY <1>1, <1>2, <1>7 DEF GateInv, GateTypeOK, KnownType, HookType, PressType, UsedType
<1>9. IdsAreUsed'
  BY <1>7 DEF IdsAreUsed
<1>10. PressIsAhead'
  BY <1>1 DEF GateInv, PressIsAhead, NoPress
<1>11. ChecksAreDue'
  BY <1>1 DEF GateInv, ChecksAreDue, PageDue, PressDue, FormShown, NoPress
<1> QED  BY <1>1, <1>8, <1>9, <1>10, <1>11 DEF GateInv

LEMMA AnswersStep ==
  ASSUME GateInv, NEW c \in checks, Answers(c)
  PROVE  GateInv'
<1> PICK held : held = (c.read = "held")
  OBVIOUS
<1> PICK entry : entry = IF held THEN Success ELSE Nothing
  OBVIOUS
<1>1. /\ held \in BOOLEAN /\ entry \in {Nothing, Success}
      /\ checks' = checks \ {c} /\ known' = [known EXCEPT ![c.wallet] = entry]
      /\ Verdict(c, held)
      /\ UNCHANGED <<gate, holders, wallet, runtime, told>> /\ used' = used
  BY DEF Answers
<1>2. hook' = IF c.live THEN [hook EXCEPT !.owned = held] ELSE hook
  BY DEF Answers
<1>3. hook' \in HookType /\ hook'.wallet = hook.wallet
  BY <1>1, <1>2 DEF GateInv, GateTypeOK, HookType
<1>4. /\ used' \in UsedType /\ used'.checks = used.checks
      /\ used'.changes = used.changes /\ used'.presses = used.presses
  BY <1>1 DEF GateInv, GateTypeOK, UsedType
<1> QED  BY ONLY GateInv, c \in checks, <1>1, <1>3, <1>4, RequestEnds

LEMMA CheckFailsStep ==
  ASSUME GateInv, NEW c \in checks, CheckFails(c)
  PROVE  GateInv'
<1>1. /\ checks' = checks \ {c} /\ known' = [known EXCEPT ![c.wallet] = Nothing]
      /\ Verdict(c, FALSE) /\ FALSE \in BOOLEAN /\ Nothing \in {Nothing, Success}
      /\ UNCHANGED <<gate, holders, wallet, runtime, told>> /\ hook' = hook
      /\ used' = [used EXCEPT !.failures = @ + 1] /\ used.failures < MaxFailures
  BY DEF CheckFails
<1>2. hook' \in HookType /\ hook'.wallet = hook.wallet
  BY <1>1 DEF GateInv, GateTypeOK, HookType
<1>3. /\ used' \in UsedType /\ used'.checks = used.checks
      /\ used'.changes = used.changes /\ used'.presses = used.presses
  BY <1>1, GateAssumption DEF GateInv, GateTypeOK, UsedType
<1> QED  BY ONLY GateInv, c \in checks, <1>1, <1>2, <1>3, RequestEnds

LEMMA CacheExpiresStep ==
  ASSUME GateInv, NEW w \in Wallets, CacheExpires(w)
  PROVE  GateInv'
<1>1. /\ known' = [known EXCEPT ![w] = Nothing]
      /\ UNCHANGED <<gate, holders, wallet, runtime, told, hook, checks, press, used, accepted>>
  BY DEF CacheExpires
<1>2. known \in KnownType /\ known' \in KnownType
  BY <1>1 DEF GateInv, GateTypeOK, KnownType
<1>3. \A x \in Wallets : known'[x] \in {known[x], Nothing, Success}
  BY <1>1, <1>2 DEF KnownType
<1>4. \A d \in checks : \E e \in checks : d.id = e.id /\ d.wallet = e.wallet
  OBVIOUS
<1>5. /\ \A d \in checks, x \in Wallets : known'[x].id = d.id => d.wallet = x
      /\ \A d \in checks : d.id <= used.checks
      /\ \A x \in Wallets : known'[x].id <= used.checks
  BY ONLY GateInv, <1>3, <1>4, NoMoreChecks
<1>6. GateTypeOK'
  BY <1>1, <1>2, <1>5 DEF GateInv, GateTypeOK, KnownType
<1>7. IdsAreUsed'
  BY <1>1, <1>5 DEF IdsAreUsed
<1>8. PressIsAhead' /\ ChecksAreDue' /\ SubmitsAreChecked'
  BY <1>1 DEF GateInv, PressIsAhead, ChecksAreDue, PageDue, PressDue, FormShown, SubmitsAreChecked
<1> QED  BY <1>6, <1>7, <1>8 DEF GateInv

-----------------------------------------------------------------------------
(* The steps of a press.                                                   *)
LEMMA PressSubmitStep ==
  ASSUME GateInv, PressSubmit
  PROVE  GateInv'
<1>1. /\ press.step = "idle" /\ used.presses < MaxPresses
      /\ used' = [used EXCEPT !.presses = @ + 1]
      /\ press' = [step |-> "starting", account |-> wallet, told |-> told.told,
                   recheck |-> told.recheck, check |-> 0]
      /\ checks' = {[c EXCEPT !.old = c.read # "unread"] : c \in checks}
      /\ UNCHANGED <<gate, holders, wallet, runtime, told, hook, known, accepted>>
  BY DEF PressSubmit
<1>2. press' \in PressType /\ press'.step = "starting"
  BY <1>1 DEF GateInv, GateTypeOK, PressType
<1>3. /\ used' \in UsedType /\ used'.checks = used.checks
      /\ used'.changes = used.changes /\ used'.presses = used.presses + 1
  BY <1>1, GateAssumption DEF GateInv, GateTypeOK, UsedType
<1>4. checks \in SUBSET CheckType
  BY DEF GateInv, GateTypeOK, CheckType
<1>5. \A c \in CheckType : LET d == [c EXCEPT !.old = c.read # "unread"] IN
        d \in CheckType /\ d.id = c.id /\ d.wallet = c.wallet
  BY DEF CheckType
<1>6. \A d \in checks' : \E c \in checks : /\ d = [c EXCEPT !.old = c.read # "unread"]
                                          /\ d.id = c.id /\ d.wallet = c.wallet
                                          /\ d \in CheckType
  <2> TAKE d \in checks'
  <2>1. PICK c \in checks : d = [c EXCEPT !.old = c.read # "unread"]
    BY <1>1
  <2>2. c \in CheckType
    BY <1>4
  <2>3. d \in CheckType /\ d.id = c.id /\ d.wallet = c.wallet
    BY <1>5, <2>1, <2>2
  <2> QED  BY <2>1, <2>3
<1>7. \A d, e \in checks' : d.id = e.id => d = e
  <2> SUFFICES ASSUME NEW d \in checks', NEW e \in checks', d.id = e.id
               PROVE  d = e
    OBVIOUS
  <2>1. PICK c \in checks : d = [c EXCEPT !.old = c.read # "unread"] /\ d.id = c.id
    BY <1>6
  <2>2. PICK b \in checks : e = [b EXCEPT !.old = b.read # "unread"] /\ e.id = b.id
    BY <1>6
  <2>3. c = b
    BY <2>1, <2>2 DEF GateInv, GateTypeOK
  <2> QED  BY <2>1, <2>2, <2>3
<1>8. \A x \in Wallets : known[x] \in {known[x], Nothing, Success}
  OBVIOUS
<1>9. \A d \in checks' : \E e \in checks : d.id = e.id /\ d.wallet = e.wallet
  BY <1>6
<1>10. /\ \A d \in checks', x \in Wallets : known[x].id = d.id => d.wallet = x
       /\ \A d \in checks' : d.id <= used.checks
       /\ \A x \in Wallets : known[x].id <= used.checks
  BY ONLY GateInv, <1>8, <1>9, NoMoreChecks
<1>11. GateTypeOK'
  BY <1>1, <1>2, <1>3, <1>6, <1>7, <1>10 DEF GateInv, GateTypeOK, PressType, UsedType, CheckType
<1>12. IdsAreUsed'
  BY <1>1, <1>3, <1>10 DEF IdsAreUsed
<1>13. PressIsAhead'
  BY <1>2 DEF PressIsAhead
<1>14. ChecksAreDue'
  <2>1. PageDue' = PageDue /\ PageDue \in {0, 1} /\ PressDue = 0 /\ PressDue' = 1
    BY <1>1, <1>2 DEF PageDue, PressDue, FormShown
  <2> QED  BY <1>3, <2>1, UsedShape DEF GateInv, ChecksAreDue
<1>15. SubmitsAreChecked'
  BY <1>1 DEF GateInv, SubmitsAreChecked
<1> QED  BY <1>11, <1>12, <1>13, <1>14, <1>15 DEF GateInv

LEMMA recheckAccessStep ==
  ASSUME GateInv, recheckAccess
  PROVE  GateInv'
<1> PICK w : w = press.recheck
  OBVIOUS
<1> PICK asks : asks = (press.told /\ gate.submission)
  OBVIOUS
<1>1. /\ press.step = "starting" /\ press \in PressType
      /\ UNCHANGED <<gate, holders, wallet, runtime, told>>
      /\ Finds(known, press.recheck, TRUE) = Nothing /\ Nothing # Success
      /\ Nothing.state # "asked"
  BY DEF recheckAccess, GateInv, GateTypeOK, PressType, Finds, MayReuse, Nothing, Success
<1>2. NoPress \in PressType /\ NoPress.step = "idle"
  BY DEF NoPress, PressType, Accounts
<1>3. \/ /\ press' = NoPress
         /\ UNCHANGED <<known, checks, hook, used, accepted>>
      \/ /\ press.account # NoWallet /\ ~asks
         /\ press' = NoPress
         /\ accepted' = accepted \cup
              {[account |-> press.account, checked |-> FALSE, told |-> press.told,
                fresh |-> FALSE, held |-> FALSE]}
         /\ UNCHANGED <<known, checks, hook, used>>
      \/ /\ press.account # NoWallet /\ w # NoWallet
         /\ known' = [known EXCEPT ![w] = InFlight(used.checks + 1)]
         /\ checks' = checks \cup {NewCheck(w, runtime = "mounted")}
         /\ press' = [press EXCEPT !.step = "checking", !.check = used.checks + 1]
         /\ used' = [used EXCEPT !.checks = @ + 1]
         /\ UNCHANGED <<hook, accepted>>
  BY <1>1 DEF recheckAccess
<1>4. ASSUME press' = NoPress, UNCHANGED <<known, checks, hook, used>>,
             accepted' \subseteq [account : Wallets, checked : BOOLEAN, told : BOOLEAN,
                                  fresh : BOOLEAN, held : BOOLEAN],
             SubmitsAreChecked'
      PROVE  GateInv'
  <2>1. GateTypeOK'
    BY <1>1, <1>2, <1>4 DEF GateInv, GateTypeOK, PressType
  <2>2. IdsAreUsed' /\ PressIsAhead'
    BY <1>2, <1>4 DEF GateInv, IdsAreUsed, PressIsAhead
  <2>3. ChecksAreDue'
    <3>1. PageDue' = PageDue /\ PageDue \in {0, 1} /\ PressDue = 1 /\ PressDue' = 0
      BY <1>1, <1>2, <1>4 DEF PageDue, PressDue, FormShown
    <3> QED  BY <1>4, <3>1, UsedShape DEF GateInv, ChecksAreDue
  <2> QED  BY <1>4, <2>1, <2>2, <2>3 DEF GateInv
<1>5. CASE press' = NoPress /\ UNCHANGED <<known, checks, hook, used, accepted>>
  BY <1>1, <1>4, <1>5 DEF GateInv, GateTypeOK, SubmitsAreChecked
<1>6. CASE /\ press.account # NoWallet /\ ~asks
           /\ press' = NoPress
           /\ accepted' = accepted \cup
                {[account |-> press.account, checked |-> FALSE, told |-> press.told,
                  fresh |-> FALSE, held |-> FALSE]}
           /\ UNCHANGED <<known, checks, hook, used>>
  <2> PICK a : a = [account |-> press.account, checked |-> FALSE, told |-> press.told,
                    fresh |-> FALSE, held |-> FALSE]
    OBVIOUS
  <2>1. press.account \in Wallets /\ press.told \in BOOLEAN
    BY <1>1, <1>6 DEF PressType, Accounts
  <2>2. /\ a \in [account : Wallets, checked : BOOLEAN, told : BOOLEAN,
                  fresh : BOOLEAN, held : BOOLEAN]
        /\ ~a.checked /\ (~a.told \/ ~gate.submission)
    BY <1>6, <2>1
  <2>3. SubmitsAreChecked'
    BY <1>1, <1>6, <2>2 DEF GateInv, SubmitsAreChecked
  <2> QED  BY <1>4, <1>6, <2>2, <2>3 DEF GateInv, GateTypeOK
<1>7. CASE /\ press.account # NoWallet /\ w # NoWallet
           /\ known' = [known EXCEPT ![w] = InFlight(used.checks + 1)]
           /\ checks' = checks \cup {NewCheck(w, runtime = "mounted")}
           /\ press' = [press EXCEPT !.step = "checking", !.check = used.checks + 1]
           /\ used' = [used EXCEPT !.checks = @ + 1]
           /\ UNCHANGED <<hook, accepted>>
  <2> PICK live : live = (runtime = "mounted")
    OBVIOUS
  <2>1. w \in Wallets /\ live \in BOOLEAN /\ PressDue = 1
    BY <1>1, <1>7 DEF PressType, Accounts, PressDue
  <2>2. /\ used.checks + 1 \in CheckIds
        /\ used' \in UsedType /\ used'.checks = used.checks + 1
        /\ used'.changes = used.changes /\ used'.presses = used.presses
    BY <1>7, <2>1, CountCheck
  <2>3. /\ known' \in KnownType /\ known'[w] = InFlight(used.checks + 1)
        /\ \A x \in Wallets : x # w => known'[x] \in {known[x], Nothing}
    BY <1>7, <2>1, <2>2 DEF GateInv, GateTypeOK, KnownType
  <2>4. checks' = checks \cup {NewCheck(w, live)}
    BY <1>7
  <2>5. /\ \A c, d \in checks' : c.id = d.id => c = d
        /\ \A c \in checks', x \in Wallets : known'[x].id = c.id => c.wallet = x
        /\ \A c \in checks' : c.id <= used'.checks
        /\ \A x \in Wallets : known'[x].id <= used'.checks
    BY ONLY GateInv, <2>1, <2>2, <2>3, <2>4, OneMoreCheck
  <2>6. NewCheck(w, live) \in CheckType /\ ~NewCheck(w, live).old
    BY <2>1, <2>2 DEF NewCheck, CheckType
  <2>7. /\ press' \in PressType /\ press'.step = "checking"
        /\ press'.account # NoWallet /\ press'.check = used.checks + 1
    BY <1>1, <1>7, <2>2 DEF PressType
  <2>8. GateTypeOK'
    BY <1>1, <1>7, <2>2, <2>3, <2>4, <2>5, <2>6, <2>7
       DEF GateInv, GateTypeOK, CheckType, KnownType, PressType, UsedType
  <2>9. IdsAreUsed'
    BY <2>5 DEF IdsAreUsed
  <2>10. PressIsAhead'
    BY <2>4, <2>6, <2>7, UsedShape DEF GateInv, GateTypeOK, IdsAreUsed, PressIsAhead
  <2>11. ChecksAreDue'
    <3>1. PageDue' = PageDue /\ PageDue \in {0, 1} /\ PressDue' = 0
      BY <1>1, <1>7, <2>7 DEF PageDue, PressDue, FormShown
    <3> QED  BY <2>1, <2>2, <3>1, UsedShape DEF GateInv, ChecksAreDue
  <2>12. SubmitsAreChecked'
    BY <1>1, <1>7 DEF GateInv, SubmitsAreChecked
  <2> QED  BY <2>8, <2>9, <2>10, <2>11, <2>12 DEF GateInv
<1> QED  BY <1>3, <1>5, <1>6, <1>7

-----------------------------------------------------------------------------
(* The steps around the page.                                              *)
LEMMA CountChange ==
  ASSUME GateInv, Changes
  PROVE  /\ used' \in UsedType /\ used'.checks = used.checks
         /\ used'.changes = used.changes + 1 /\ used'.presses = used.presses
  BY GateAssumption DEF GateInv, GateTypeOK, UsedType, Changes

LEMMA ConnectWalletStep ==
  ASSUME GateInv, NEW w \in Accounts, ConnectWallet(w)
  PROVE  GateInv'
<1>1. /\ Changes /\ wallet' = w
      /\ UNCHANGED <<gate, holders, runtime, told, hook, known, checks, press, accepted>>
  BY DEF ConnectWallet
<1>2. /\ used' \in UsedType /\ used'.checks = used.checks
      /\ used'.changes = used.changes + 1 /\ used'.presses = used.presses
  BY <1>1, CountChange
<1>3. GateTypeOK'
  BY <1>1, <1>2 DEF GateInv, GateTypeOK, UsedType
<1>4. IdsAreUsed' /\ PressIsAhead' /\ SubmitsAreChecked'
  BY <1>1, <1>2 DEF GateInv, IdsAreUsed, PressIsAhead, SubmitsAreChecked
<1>5. ChecksAreDue'
  <2>1. PageDue \in {0, 1} /\ PageDue' \in {0, 1} /\ PressDue \in {0, 1} /\ PressDue' = PressDue
    BY <1>1 DEF PageDue, PressDue
  <2> QED  BY <1>2, <2>1, UsedShape DEF GateInv, ChecksAreDue
<1> QED  BY <1>3, <1>4, <1>5 DEF GateInv

LEMMA TradesStep ==
  ASSUME GateInv, NEW w \in Wallets, Trades(w)
  PROVE  GateInv'
<1>1. /\ Changes /\ holders' \subseteq Wallets
      /\ UNCHANGED <<gate, wallet, runtime, told, hook, known, checks, press, accepted>>
  BY DEF Trades, GateInv, GateTypeOK
<1>2. /\ used' \in UsedType /\ used'.checks = used.checks
      /\ used'.changes = used.changes + 1 /\ used'.presses = used.presses
  BY <1>1, CountChange
<1>3. GateTypeOK'
  BY <1>1, <1>2 DEF GateInv, GateTypeOK, UsedType
<1>4. IdsAreUsed' /\ PressIsAhead' /\ SubmitsAreChecked'
  BY <1>1, <1>2 DEF GateInv, IdsAreUsed, PressIsAhead, SubmitsAreChecked
<1>5. ChecksAreDue'
  <2>1. PageDue \in {0, 1} /\ PageDue' \in {0, 1} /\ PressDue \in {0, 1} /\ PressDue' = PressDue
        /\ PageDue' = PageDue
    BY <1>1 DEF PageDue, PressDue, FormShown
  <2> QED  BY <1>2, <2>1, UsedShape DEF GateInv, ChecksAreDue
<1> QED  BY <1>3, <1>4, <1>5 DEF GateInv

LEMMA ReopenPageStep ==
  ASSUME GateInv, ReopenPage
  PROVE  GateInv'
<1>1. /\ Changes
      /\ wallet' = NoWallet /\ runtime' = "waiting" /\ told' = NotTold /\ hook' = NewHook
      /\ checks' = {[c EXCEPT !.live = FALSE] : c \in checks}
      /\ press' = NoPress
      /\ UNCHANGED <<gate, holders, known, accepted>>
  BY DEF ReopenPage
<1>2. /\ used' \in UsedType /\ used'.checks = used.checks
      /\ used'.changes = used.changes + 1 /\ used'.presses = used.presses
  BY <1>1, CountChange
<1>3. checks \in SUBSET CheckType /\ \A c, d \in checks : c.id = d.id => c = d
  BY DEF GateInv, GateTypeOK, CheckType
<1> PICK left : left = {[c EXCEPT !.live = FALSE] : c \in checks}
  OBVIOUS
<1>4. /\ left \in SUBSET CheckType
      /\ \A c \in left : \E d \in checks : /\ c = [d EXCEPT !.live = FALSE]
                                          /\ c.id = d.id /\ c.wallet = d.wallet /\ c.old = d.old
      /\ (\A c, d \in checks : c.id = d.id => c = d) => (\A c, d \in left : c.id = d.id => c = d)
  BY ONLY LeftBehind, <1>3, left = {[c EXCEPT !.live = FALSE] : c \in checks}
<1>5. checks' = left
  BY <1>1
<1>6. \A x \in Wallets : known[x] \in {known[x], Nothing, Success}
  OBVIOUS
<1>7. \A d \in left : \E e \in checks : d.id = e.id /\ d.wallet = e.wallet
  BY <1>4
<1>8. /\ \A d \in left, x \in Wallets : known[x].id = d.id => d.wallet = x
      /\ \A d \in left : d.id <= used.checks
      /\ \A x \in Wallets : known[x].id <= used.checks
  BY ONLY GateInv, <1>6, <1>7, NoMoreChecks
<1>9. NotTold \in ToldType /\ NewHook \in HookType /\ NoPress \in PressType /\ NoPress.step = "idle"
  BY DEF NotTold, ToldType, NewHook, HookType, NoPress, PressType, Accounts
<1>10. GateTypeOK'
  BY <1>1, <1>2, <1>3, <1>4, <1>5, <1>8, <1>9
     DEF GateInv, GateTypeOK, CheckType, ToldType, HookType, PressType, UsedType, Accounts
<1>11. IdsAreUsed'
  BY <1>1, <1>2, <1>5, <1>8 DEF IdsAreUsed
<1>12. PressIsAhead' /\ SubmitsAreChecked'
  BY <1>1, <1>9 DEF GateInv, PressIsAhead, SubmitsAreChecked
<1>13. ChecksAreDue'
  <2>1. PageDue \in {0, 1} /\ PageDue' \in {0, 1} /\ PressDue \in {0, 1} /\ PressDue' = 0
    BY <1>1, <1>9 DEF PageDue, PressDue
  <2> QED  BY <1>2, <2>1, UsedShape DEF GateInv, ChecksAreDue
<1> QED  BY <1>10, <1>11, <1>12, <1>13 DEF GateInv

-----------------------------------------------------------------------------

LEMMA GateInitInv ==
  ASSUME GateInit
  PROVE  GateInv
<1>1. GateTypeOK
  BY GateAssumption DEF GateInit, GateTypeOK, NotTold, NewHook, NoPress, Accounts, CheckIds
<1>2. IdsAreUsed
  BY DEF GateInit, IdsAreUsed, Nothing
<1>3. PressIsAhead /\ SubmitsAreChecked
  BY DEF GateInit, PressIsAhead, SubmitsAreChecked, NoPress
<1>4. ChecksAreDue
  <2>1. PageDue \in {0, 1} /\ PressDue = 0
    BY DEF GateInit, PageDue, PressDue, NoPress
  <2>2. used.checks = 0 /\ used.changes = 0 /\ used.presses = 0
    BY DEF GateInit
  <2> QED  BY <2>1, <2>2 DEF ChecksAreDue
<1> QED  BY <1>1, <1>2, <1>3, <1>4 DEF GateInv

LEMMA GateStepInv ==
  ASSUME GateInv, [GateNext]_gateVars
  PROVE  GateInv'
<1>1. CASE UNCHANGED gateVars
  BY <1>1 DEF gateVars, GateInv, GateTypeOK, IdsAreUsed, PressIsAhead, ChecksAreDue,
              PageDue, PressDue, FormShown, SubmitsAreChecked
<1>2. CASE GateNext
  <2> USE <1>2
  <2>1. CASE MountRuntime \/ WalletEffects \/ TellPage
    BY <2>1, MountRuntimeStep, WalletEffectsStep, TellPageStep
  <2>2. ASSUME NEW c \in checks, Reads(c) \/ Answers(c) \/ CheckFails(c)
        PROVE  GateInv'
    BY <2>2, ReadsStep, AnswersStep, CheckFailsStep
  <2>3. ASSUME NEW w \in Wallets, CacheExpires(w) \/ Trades(w)
        PROVE  GateInv'
    BY <2>3, CacheExpiresStep, TradesStep
  <2>4. CASE PressSubmit \/ recheckAccess
    BY <2>4, PressSubmitStep, recheckAccessStep
  <2>5. ASSUME NEW w \in Accounts, ConnectWallet(w)
        PROVE  GateInv'
    BY <2>5, ConnectWalletStep
  <2>6. CASE ReopenPage
    BY <2>6, ReopenPageStep
  <2> QED  BY <2>1, <2>2, <2>3, <2>4, <2>5, <2>6 DEF GateNext
<1> QED  BY <1>1, <1>2

LEMMA GateInvariant == GateSafety => []GateInv
<1>1. GateInit => GateInv
  BY GateInitInv
<1>2. GateInv /\ [GateNext]_gateVars => GateInv'
  BY GateStepInv
<1> QED  BY <1>1, <1>2, PTL DEF GateSafety

(* The page, the hook and the requests keep their shapes, each request is  *)
(* due to a mount, a change of wallet or a press, and a request is in the  *)
(* cache for its own wallet only (usePublicNftGate.ts).                    *)
THEOREM GateTypeCorrect == GateSafety => []GateTypeOK
<1>1. GateInv => GateTypeOK
  BY DEF GateInv
<1> QED  BY <1>1, GateInvariant, PTL

(* An answer passes a gate on submission only on a wallet that was seen to *)
(* hold the NFT after the press, or before the page knew of the gate,      *)
(* whatever the wallet, its owner, the requests and the cache do meanwhile *)
(* (usePublicNftGate.ts:200-212, usePublicSubmission.ts:1073).             *)
THEOREM SubmitIsChecked == GateSafety => []SubmitsAreChecked
<1>1. GateInv => SubmitsAreChecked
  BY DEF GateInv
<1> QED  BY <1>1, GateInvariant, PTL

=============================================================================
