---------------------------- MODULE OwnerInboxProofs ----------------------------
(***************************************************************************)
(* Proofs about OwnerInbox for every set of submissions and every bound.   *)
(***************************************************************************)
EXTENDS OwnerInbox, WellFoundedInduction, TLAPS

(* A row of a submission names no receipt, or one of that submission.      *)
GoodRow(id, row, chain) ==
  /\ row \in Rows
  /\ row.signal # NoSignal => row.signal \in DOMAIN chain /\ chain[row.signal].of = id

GoodRows(rows, chain) ==
  rows \in Stores /\ \A id \in DOMAIN rows : GoodRow(id, rows[id], chain)

Chains == {chain \in Seq(Receipts) : Len(chain) <= MaxReceipts}

(* A copy of the receipts is a beginning of them, up to the statuses.      *)
Agrees(registry, chain) ==
  /\ registry \in Seq(Receipts) /\ Len(registry) <= Len(chain)
  /\ \A i \in DOMAIN registry : registry[i].of = chain[i].of

-----------------------------------------------------------------------------
(* Stores and rows.                                                        *)
LEMMA StoreShape ==
  ASSUME NEW rows \in Stores
  PROVE  /\ DOMAIN rows \subseteq InboxIds
         /\ \A id \in DOMAIN rows : rows[id] \in Rows
  BY DEF Stores

LEMMA StoreFrom ==
  ASSUME NEW D \in SUBSET InboxIds, NEW rows \in [D -> Rows]
  PROVE  rows \in Stores
  BY DEF Stores

LEMMA LastSignal ==
  ASSUME NEW n \in Nat, NEW S \in SUBSET (1 .. n), S # {}
  PROVE  \E i \in S : \A j \in S : j <= i
<1> DEFINE T == {n - i : i \in S}
<1>1. T \subseteq Nat /\ T # {}
  <2>1. PICK i \in S : TRUE
    OBVIOUS
  <2>2. n - i \in T
    BY <2>1
  <2>3. \A j \in S : n - j \in Nat
    OBVIOUS
  <2> QED  BY <2>2, <2>3
<1>2. \E m \in T : \A k \in T : ~ (<<k, m>> \in OpToRel(<, Nat))
  <2> HIDE DEF T
  <2> QED  BY <1>1, NatLessThanWellFounded, WFMin
<1>3. PICK m \in T : \A k \in T : ~ (<<k, m>> \in OpToRel(<, Nat))
  BY <1>2
<1>4. PICK i \in S : m = n - i
  <2>1. m \in T
    BY <1>3
  <2> QED  BY <2>1
<1>5. ASSUME NEW j \in S
      PROVE  j <= i
  <2>1. n - j \in T
    OBVIOUS
  <2>2. ~ (<<n - j, m>> \in OpToRel(<, Nat))
    BY <1>3, <2>1
  <2>3. n - j \in Nat /\ m \in Nat
    BY <1>1, <2>1
  <2>4. ~(n - j < m)
    BY <2>2, <2>3 DEF OpToRel
  <2> QED  BY <1>4, <2>4
<1> QED  BY <1>5

LEMMA LastOfIsOne ==
  ASSUME NEW id, NEW registry \in Seq(Receipts), SignalsOf(id, registry) # {}
  PROVE  /\ LastOf(id, registry) \in DOMAIN registry
         /\ registry[LastOf(id, registry)].of = id
<1>1. SignalsOf(id, registry) \in SUBSET (1 .. Len(registry)) /\ Len(registry) \in Nat
  BY DEF SignalsOf
<1>2. \E i \in SignalsOf(id, registry) : \A j \in SignalsOf(id, registry) : j <= i
  BY <1>1, LastSignal
<1>3. LastOf(id, registry) \in SignalsOf(id, registry)
  BY <1>2 DEF LastOf
<1> QED  BY <1>3 DEF SignalsOf

LEMMA PatchedRow ==
  ASSUME NEW id, NEW row, NEW chain \in Chains, NEW registry,
         GoodRow(id, row, chain), Agrees(registry, chain)
  PROVE  /\ GoodRow(id, PatchRow(row, id, registry), chain)
         /\ PatchRow(row, id, registry).review = row.review
<1>1. CASE SignalsOf(id, registry) = {}
  BY <1>1 DEF PatchRow
<1>2. CASE SignalsOf(id, registry) # {}
  <2> PICK n : n = LastOf(id, registry)
    OBVIOUS
  <2>1. n \in DOMAIN registry /\ registry[n].of = id
    BY <1>2, LastOfIsOne DEF Agrees
  <2>2. /\ n \in 0 .. MaxReceipts /\ n \in DOMAIN chain /\ chain[n].of = id
        /\ registry[n].status \in Reviews
    <3>1. registry \in Seq(Receipts) /\ chain \in Seq(Receipts) /\ Len(chain) <= MaxReceipts
      BY DEF Agrees, Chains
    <3>2. registry[n] \in Receipts /\ n \in 1 .. Len(registry)
      BY <2>1, <3>1
    <3>3. n \in 1 .. Len(chain)
      BY <3>1, <3>2 DEF Agrees
    <3>4. chain[n].of = id
      BY <2>1 DEF Agrees
    <3> QED  BY <3>1, <3>2, <3>3, <3>4, InboxAssumption DEF Receipts
  <2>3. PatchRow(row, id, registry) =
          [row EXCEPT !.pending = FALSE, !.signal = n, !.status = registry[n].status]
    BY <1>2 DEF PatchRow
  <2>4. row \in Rows
    BY DEF GoodRow
  <2> QED  BY <2>2, <2>3, <2>4 DEF GoodRow, Rows
<1> QED  BY <1>1, <1>2

LEMMA PatchedRows ==
  ASSUME NEW rows, NEW chain \in Chains, NEW registry,
         GoodRows(rows, chain), Agrees(registry, chain)
  PROVE  GoodRows(Patch(rows, registry), chain)
<1>1. /\ DOMAIN rows \subseteq InboxIds
      /\ \A id \in DOMAIN rows : GoodRow(id, rows[id], chain)
  BY StoreShape DEF GoodRows
<1>2. \A id \in DOMAIN rows : GoodRow(id, PatchRow(rows[id], id, registry), chain)
  BY <1>1, PatchedRow
<1>3. Patch(rows, registry) \in [DOMAIN rows -> Rows]
  BY <1>2 DEF Patch, GoodRow
<1>4. Patch(rows, registry) \in Stores
  BY <1>1, <1>3, StoreFrom
<1> QED  BY <1>2, <1>4 DEF GoodRows, Patch

LEMMA PostedRow ==
  ASSUME NEW id, NEW chain \in Chains
  PROVE  GoodRow(id, Posted, chain)
  BY InboxAssumption DEF GoodRow, Posted, Rows, NoSignal

LEMMA PostedRows ==
  ASSUME NEW ids \in SUBSET InboxIds, NEW chain \in Chains
  PROVE  GoodRows(AllPosted(ids), chain)
<1>1. \A id \in ids : GoodRow(id, Posted, chain)
  BY PostedRow
<1>2. AllPosted(ids) \in [ids -> Rows]
  BY <1>1 DEF AllPosted, GoodRow
<1>3. AllPosted(ids) \in Stores
  BY <1>2, StoreFrom
<1> QED  BY <1>1, <1>3 DEF GoodRows, AllPosted

LEMMA NoRowsAreGood ==
  ASSUME NEW chain
  PROVE  GoodRows(NoRows, chain) /\ DOMAIN NoRows = {}
<1>1. NoRows \in [{} -> Rows] /\ DOMAIN NoRows = {}
  BY DEF NoRows
<1>2. NoRows \in Stores
  BY <1>1, StoreFrom
<1> QED  BY <1>1, <1>2 DEF GoodRows

LEMMA OverRows ==
  ASSUME NEW chain, NEW first, NEW rows, GoodRows(first, chain), GoodRows(rows, chain)
  PROVE  GoodRows(Over(first, rows), chain)
<1> PICK D : D = (DOMAIN first) \cup (DOMAIN rows)
  OBVIOUS
<1>1. D \in SUBSET InboxIds
  BY StoreShape DEF GoodRows
<1>2. \A id \in D : GoodRow(id, IF id \in DOMAIN first THEN first[id] ELSE rows[id], chain)
  BY DEF GoodRows
<1>3. Over(first, rows) = [id \in D |-> IF id \in DOMAIN first THEN first[id] ELSE rows[id]]
  BY DEF Over
<1>4. Over(first, rows) \in [D -> Rows]
  BY <1>2, <1>3 DEF GoodRow
<1>5. Over(first, rows) \in Stores
  BY <1>1, <1>4, StoreFrom
<1> QED  BY <1>2, <1>3, <1>5 DEF GoodRows

LEMMA OneRowIsGood ==
  ASSUME NEW chain, NEW id \in InboxIds, NEW row, GoodRow(id, row, chain)
  PROVE  /\ GoodRows(OneRowOf(id, row), chain)
         /\ DOMAIN OneRowOf(id, row) = {id} /\ OneRowOf(id, row)[id] = row
<1>1. OneRowOf(id, row) \in [{id} -> Rows]
  BY DEF OneRowOf, GoodRow
<1>2. OneRowOf(id, row) \in Stores
  BY <1>1, StoreFrom
<1> QED  BY <1>2 DEF GoodRows, OneRowOf

LEMMA ReplacedRows ==
  ASSUME NEW chain, NEW rows, NEW id, NEW row, GoodRows(rows, chain), GoodRow(id, row, chain)
  PROVE  GoodRows(Replace(rows, id, row), chain)
<1>1. CASE id \notin DOMAIN rows
  BY <1>1 DEF Replace
<1>2. CASE id \in DOMAIN rows
  <2> PICK D : D = DOMAIN rows
    OBVIOUS
  <2>1. D \in SUBSET InboxIds /\ rows \in [D -> Rows] /\ row \in Rows
    BY StoreShape DEF GoodRows, GoodRow, Stores
  <2>2. Replace(rows, id, row) = [rows EXCEPT ![id] = row]
    BY <1>2 DEF Replace
  <2>3. Replace(rows, id, row) \in [D -> Rows]
    BY <2>1, <2>2
  <2>4. Replace(rows, id, row) \in Stores
    BY <2>1, <2>3, StoreFrom
  <2> QED  BY <2>1, <2>2, <2>4 DEF GoodRows
<1> QED  BY <1>1, <1>2

LEMMA RestrictedRows ==
  ASSUME NEW chain, NEW rows, GoodRows(rows, chain), NEW D \in SUBSET DOMAIN rows
  PROVE  GoodRows(Restrict(rows, D), chain)
<1>1. D \in SUBSET InboxIds /\ \A id \in D : GoodRow(id, rows[id], chain)
  BY StoreShape DEF GoodRows
<1>2. Restrict(rows, D) \in [D -> Rows]
  BY <1>1 DEF Restrict, GoodRow
<1>3. Restrict(rows, D) \in Stores
  BY <1>1, <1>2, StoreFrom
<1> QED  BY <1>1, <1>3 DEF GoodRows, Restrict

LEMMA LoadedRowsAreGood ==
  ASSUME NEW chain \in Chains, NEW rows, NEW registry, NEW fetched \in SUBSET InboxIds,
         GoodRows(rows, chain), Agrees(registry, chain)
  PROVE  GoodRows(LoadedRows(fetched, rows, registry), chain)
<1>1. GoodRows(AllPosted(fetched), chain)
  BY PostedRows
<1>2. GoodRows(Over(AllPosted(fetched), rows), chain)
  BY <1>1, OverRows
<1> QED  BY <1>2, PatchedRows DEF LoadedRows

-----------------------------------------------------------------------------
(* Receipts are only added, and a receipt stays the submission's it is of. *)
Grows(chain, next) ==
  /\ next \in Chains /\ Len(chain) <= Len(next)
  /\ \A i \in DOMAIN chain : next[i].of = chain[i].of

LEMMA GrowsByOne ==
  ASSUME NEW chain \in Chains, Len(chain) < MaxReceipts, NEW id \in InboxIds
  PROVE  LET next == Append(chain, Receipt(id)) IN
         /\ Grows(chain, next) /\ Len(next) = Len(chain) + 1 /\ next[Len(chain) + 1].of = id
  BY InboxAssumption DEF Chains, Grows, Receipts, Receipt

LEMMA StatusChanges ==
  ASSUME NEW chain \in Chains, NEW i \in DOMAIN chain, NEW review \in Reviews
  PROVE  Grows(chain, [chain EXCEPT ![i].status = review])
<1> PICK next : next = [chain EXCEPT ![i].status = review]
  OBVIOUS
<1>1. chain \in Seq(Receipts) /\ Len(chain) \in Nat /\ chain[i] \in Receipts
  BY DEF Chains
<1>2. next = [chain EXCEPT ![i] = [chain[i] EXCEPT !.status = review]]
  OBVIOUS
<1>3. [chain[i] EXCEPT !.status = review] \in Receipts
      /\ [chain[i] EXCEPT !.status = review].of = chain[i].of
  BY <1>1 DEF Receipts
<1>4. next \in Seq(Receipts) /\ Len(next) = Len(chain)
  BY <1>1, <1>2, <1>3
<1>5. \A j \in DOMAIN chain : next[j].of = chain[j].of
  BY <1>1, <1>2, <1>3
<1> QED  BY <1>4, <1>5 DEF Grows, Chains

LEMMA GoodRowStays ==
  ASSUME NEW chain \in Chains, NEW next, Grows(chain, next), NEW id, NEW row,
         GoodRow(id, row, chain)
  PROVE  GoodRow(id, row, next)
<1>1. DOMAIN chain \subseteq DOMAIN next
  BY DEF Chains, Grows
<1> QED  BY <1>1 DEF GoodRow, Grows

LEMMA GoodRowsStay ==
  ASSUME NEW chain \in Chains, NEW next, Grows(chain, next), NEW rows,
         GoodRows(rows, chain)
  PROVE  GoodRows(rows, next)
  BY GoodRowStays DEF GoodRows

LEMMA AgreesStays ==
  ASSUME NEW chain \in Chains, NEW next, Grows(chain, next), NEW registry,
         Agrees(registry, chain)
  PROVE  Agrees(registry, next)
<1>1. DOMAIN registry \subseteq DOMAIN chain
  BY DEF Chains, Agrees
<1> QED  BY <1>1 DEF Agrees, Grows, Chains
-----------------------------------------------------------------------------
(* The inductive invariant.                                                *)
LoadType == [pc : {"idle", "starting", "fetching"}, run : 0 .. MaxLoads,
             rows : Stores, registry : Seq(Receipts)]
HydrationType == [pc : {"patching", "reading"}, run : 0 .. MaxLoads,
                  rows : Stores, registry : Seq(Receipts)]
SaveType == [pc : {"storing", "syncing", "restoring"}, id : InboxIds, row : Rows]
CountType == [edits : Nat, loads : 0 .. MaxLoads, foreign : Nat]
ChosenType == [InboxIds -> Reviews \cup {"unsaved"}]

StoresOK(chain) ==
  /\ GoodRows(local, chain) /\ GoodRows(view, chain) /\ GoodRows(extra, chain)
  /\ GoodRows(registering, chain)

LoadOK(run, chain) ==
  run \in LoadType /\ GoodRows(run.rows, chain) /\ Agrees(run.registry, chain)

HydrationOK(h, chain) ==
  h \in HydrationType /\ GoodRows(h.rows, chain) /\ Agrees(h.registry, chain)

SaveOK(save, chain) ==
  /\ save \in SaveType /\ GoodRow(save.id, save.row, chain)
  /\ save.pc # "storing" => save.row.signal # NoSignal

(* Only the first save of the chain of promises is under way.              *)
QueueOK(queue, chain) ==
  /\ queue \in Seq(SaveType)
  /\ \A i \in DOMAIN queue : SaveOK(queue[i], chain)
  /\ \A i \in DOMAIN queue : queue[i].pc # "storing" => i = 1

(* The last save of a submission saves the review that was chosen last.    *)
QueuedAreChosen(queue, choice) ==
  \A i \in DOMAIN queue :
    (\A j \in DOMAIN queue : j > i => queue[j].id # queue[i].id)
      => choice[queue[i].id] \in {"unsaved", queue[i].row.review}

StoredAreChosen(rows, queue, choice) ==
  \A id \in DOMAIN rows :
    choice[id] # "unsaved" /\ ~SaveQueued(id, queue) => rows[id].review = choice[id]

InboxInv ==
  /\ receipts \in Chains /\ Agrees(known, receipts)
  /\ remote \subseteq InboxIds
  /\ StoresOK(receipts)
  /\ LoadOK(load, receipts)
  /\ \A h \in hydrations : HydrationOK(h, receipts)
  /\ QueueOK(saves, receipts)
  /\ counts \in CountType
  /\ chosen \in ChosenType
  /\ QueuedAreChosen(saves, chosen)
  /\ StoredAreChosen(local, saves, chosen)

LEMMA InvariantSaysAll ==
  ASSUME InboxInv
  PROVE  InboxTypeOK /\ ReceiptOfItsOwn /\ LatestSaveWins
<1>1. /\ known \in Seq(Receipts) /\ receipts \in Seq(Receipts) /\ Len(receipts) <= MaxReceipts
  BY DEF InboxInv, Chains, Agrees
<1>2. /\ local \in Stores /\ view \in Stores /\ extra \in Stores /\ registering \in Stores
      /\ load \in LoadType
      /\ \A h \in hydrations : h \in HydrationType
  BY DEF InboxInv, StoresOK, LoadOK, HydrationOK, GoodRows
<1>3. \A i \in DOMAIN saves : saves[i] \in SaveType /\ saves[i].row \in Rows
  BY DEF InboxInv, QueueOK, SaveOK, SaveType
<1>4. \A i \in DOMAIN saves :
        saves[i].pc # "storing" => i = 1 /\ saves[i].row.signal # NoSignal
  BY DEF InboxInv, QueueOK, SaveOK
<1>5. InboxTypeOK
  BY <1>1, <1>2, <1>3, <1>4
     DEF InboxInv, InboxTypeOK, LoadType, HydrationType, SaveType, ChosenType
<1>6. ReceiptOfItsOwn
  <2>1. \A id, row : GoodRow(id, row, receipts) => OwnReceipt(id, row)
    BY DEF GoodRow, OwnReceipt
  <2>2. \A rows \in {local, view, extra, load.rows, registering} :
          \A id \in DOMAIN rows : OwnReceipt(id, rows[id])
    BY <2>1 DEF InboxInv, StoresOK, LoadOK, GoodRows
  <2>3. \A h \in hydrations : \A id \in DOMAIN h.rows : OwnReceipt(id, h.rows[id])
    BY <2>1 DEF InboxInv, HydrationOK, GoodRows
  <2>4. \A i \in DOMAIN saves : OwnReceipt(saves[i].id, saves[i].row)
    BY <2>1 DEF InboxInv, QueueOK, SaveOK
  <2> QED  BY <2>2, <2>3, <2>4 DEF ReceiptOfItsOwn
<1>7. LatestSaveWins
  BY DEF InboxInv, StoredAreChosen, LatestSaveWins
<1> QED  BY <1>5, <1>6, <1>7

(* Nothing the browser holds is wrong about a longer list of receipts.     *)
LEMMA EverythingStays ==
  ASSUME InboxInv, NEW next, Grows(receipts, next)
  PROVE  /\ next \in Chains /\ Agrees(known, next)
         /\ StoresOK(next)
         /\ LoadOK(load, next)
         /\ \A h \in hydrations : HydrationOK(h, next)
         /\ QueueOK(saves, next)
<1>1. receipts \in Chains /\ next \in Chains
  BY DEF InboxInv, Grows
<1>2. Agrees(known, next)
  BY <1>1, AgreesStays DEF InboxInv
<1>3. StoresOK(next)
  BY <1>1, GoodRowsStay DEF InboxInv, StoresOK
<1>4. LoadOK(load, next)
  BY <1>1, GoodRowsStay, AgreesStays DEF InboxInv, LoadOK
<1>5. ASSUME NEW h \in hydrations
      PROVE  HydrationOK(h, next)
  BY <1>1, GoodRowsStay, AgreesStays DEF InboxInv, HydrationOK
<1>6. QueueOK(saves, next)
  BY <1>1, GoodRowStays DEF InboxInv, QueueOK, SaveOK
<1> QED  BY <1>1, <1>2, <1>3, <1>4, <1>5, <1>6

-----------------------------------------------------------------------------
(* The chain of saves.                                                     *)
LEMMA QueueTail ==
  ASSUME NEW chain, NEW queue, QueueOK(queue, chain), queue # <<>>
  PROVE  /\ SaveOK(Head(queue), chain) /\ Head(queue) = queue[1] /\ 1 \in DOMAIN queue
         /\ QueueOK(Tail(queue), chain)
         /\ \A i \in DOMAIN Tail(queue) :
              /\ i + 1 \in DOMAIN queue /\ Tail(queue)[i] = queue[i + 1]
              /\ Tail(queue)[i].pc = "storing"
         /\ \A i \in DOMAIN queue : i # 1 =>
              i - 1 \in DOMAIN Tail(queue) /\ Tail(queue)[i - 1] = queue[i]
<1>1. queue \in Seq(SaveType) /\ Len(queue) \in Nat /\ Len(queue) # 0
  BY DEF QueueOK
<1>2. /\ Head(queue) = queue[1] /\ 1 \in DOMAIN queue
      /\ Tail(queue) \in Seq(SaveType) /\ Len(Tail(queue)) = Len(queue) - 1
      /\ \A i \in 1 .. Len(queue) - 1 : Tail(queue)[i] = queue[i + 1]
  BY <1>1
<1>3. \A i \in DOMAIN Tail(queue) :
        i + 1 \in DOMAIN queue /\ Tail(queue)[i] = queue[i + 1] /\ i + 1 # 1
  BY <1>1, <1>2
<1>4. \A i \in DOMAIN queue : i # 1 =>
        i - 1 \in DOMAIN Tail(queue) /\ Tail(queue)[i - 1] = queue[i]
  BY <1>1, <1>2
<1>5. \A i \in DOMAIN Tail(queue) : Tail(queue)[i].pc = "storing"
  BY <1>3 DEF QueueOK
<1>6. QueueOK(Tail(queue), chain)
  BY <1>2, <1>3, <1>5 DEF QueueOK
<1>7. SaveOK(Head(queue), chain)
  BY <1>2 DEF QueueOK
<1> QED  BY <1>2, <1>3, <1>4, <1>5, <1>6, <1>7

LEMMA TailIsChosen ==
  ASSUME NEW chain, NEW queue, QueueOK(queue, chain), queue # <<>>,
         NEW choice, QueuedAreChosen(queue, choice)
  PROVE  /\ QueuedAreChosen(Tail(queue), choice)
         /\ \A id : SaveQueued(id, queue) <=> id = Head(queue).id \/ SaveQueued(id, Tail(queue))
         /\ ~SaveQueued(Head(queue).id, Tail(queue))
              => choice[Head(queue).id] \in {"unsaved", Head(queue).row.review}
<1> PICK rest : rest = Tail(queue)
  OBVIOUS
<1>1. /\ Head(queue) = queue[1] /\ 1 \in DOMAIN queue
      /\ \A i \in DOMAIN rest : i + 1 \in DOMAIN queue /\ rest[i] = queue[i + 1]
      /\ \A i \in DOMAIN queue : i # 1 => i - 1 \in DOMAIN rest /\ rest[i - 1] = queue[i]
      /\ DOMAIN queue \subseteq Nat \ {0} /\ DOMAIN rest \subseteq Nat \ {0}
  <2>1. /\ Head(queue) = queue[1] /\ 1 \in DOMAIN queue
        /\ \A i \in DOMAIN rest : i + 1 \in DOMAIN queue /\ rest[i] = queue[i + 1]
        /\ \A i \in DOMAIN queue : i # 1 => i - 1 \in DOMAIN rest /\ rest[i - 1] = queue[i]
    BY QueueTail
  <2>2. queue \in Seq(SaveType) /\ rest \in Seq(SaveType)
    BY QueueTail DEF QueueOK
  <2> QED  BY <2>1, <2>2
<1>2. QueuedAreChosen(rest, choice)
  <2> SUFFICES ASSUME NEW i \in DOMAIN rest, \A j \in DOMAIN rest : j > i => rest[j].id # rest[i].id
               PROVE  choice[rest[i].id] \in {"unsaved", rest[i].row.review}
    BY DEF QueuedAreChosen
  <2>1. i + 1 \in DOMAIN queue /\ rest[i] = queue[i + 1]
    BY <1>1
  <2>2. ASSUME NEW j \in DOMAIN queue, j > i + 1
        PROVE  queue[j].id # queue[i + 1].id
    <3>1. j # 1 /\ j - 1 > i
      BY <1>1, <2>1, <2>2
    <3>2. j - 1 \in DOMAIN rest /\ rest[j - 1] = queue[j]
      BY <1>1, <3>1
    <3> QED  BY <2>1, <3>1, <3>2
  <2> QED  BY <2>1, <2>2 DEF QueuedAreChosen
<1>3. \A id : SaveQueued(id, queue) <=> id = Head(queue).id \/ SaveQueued(id, rest)
  <2> TAKE id
  <2>1. ASSUME NEW i \in DOMAIN queue, queue[i].id = id
        PROVE  id = Head(queue).id \/ SaveQueued(id, rest)
    <3>1. CASE i = 1
      BY <1>1, <2>1, <3>1
    <3>2. CASE i # 1
      <4>1. i - 1 \in DOMAIN rest /\ rest[i - 1].id = id
        BY <1>1, <2>1, <3>2
      <4> QED  BY <4>1 DEF SaveQueued
    <3> QED  BY <3>1, <3>2
  <2>2. ASSUME NEW i \in DOMAIN rest, rest[i].id = id
        PROVE  SaveQueued(id, queue)
    <3>1. i + 1 \in DOMAIN queue /\ queue[i + 1].id = id
      BY <1>1, <2>2
    <3> QED  BY <3>1 DEF SaveQueued
  <2>3. id = Head(queue).id => SaveQueued(id, queue)
    BY <1>1 DEF SaveQueued
  <2> QED  BY <2>1, <2>2, <2>3 DEF SaveQueued
<1>4. ASSUME ~SaveQueued(Head(queue).id, rest)
      PROVE  choice[Head(queue).id] \in {"unsaved", Head(queue).row.review}
  <2>1. ASSUME NEW j \in DOMAIN queue, j > 1
        PROVE  queue[j].id # queue[1].id
    <3>1. j - 1 \in DOMAIN rest /\ rest[j - 1] = queue[j]
      BY <1>1, <2>1
    <3> QED  BY <1>1, <1>4, <3>1 DEF SaveQueued
  <2> QED  BY <1>1, <2>1 DEF QueuedAreChosen
<1> QED  BY <1>2, <1>3, <1>4

(* The first save goes on: only its place and its row change.              *)
LEMMA HeadGoesOn ==
  ASSUME NEW chain, NEW queue, QueueOK(queue, chain), queue # <<>>,
         NEW choice, QueuedAreChosen(queue, choice),
         NEW save, SaveOK(save, chain), save.id = Head(queue).id,
         save.row.review = Head(queue).row.review
  PROVE  LET next == <<save>> \o Tail(queue) IN
         /\ QueueOK(next, chain) /\ QueuedAreChosen(next, choice)
         /\ \A id : SaveQueued(id, next) <=> SaveQueued(id, queue)
<1> PICK next : next = <<save>> \o Tail(queue)
  OBVIOUS
<1>1. queue \in Seq(SaveType) /\ Len(queue) \in Nat /\ Len(queue) # 0 /\ save \in SaveType
  BY DEF QueueOK, SaveOK
<1>2. /\ next \in Seq(SaveType) /\ Len(next) = Len(queue) /\ DOMAIN next = DOMAIN queue
      /\ next[1] = save /\ \A i \in DOMAIN queue : i # 1 => next[i] = queue[i]
  BY <1>1
<1>3. Head(queue) = queue[1] /\ 1 \in DOMAIN queue
  BY <1>1
<1>4. \A i \in DOMAIN queue : next[i].id = queue[i].id /\ next[i].row.review = queue[i].row.review
  BY <1>2, <1>3
<1>5. QueueOK(next, chain)
  BY <1>2 DEF QueueOK
<1>6. QueuedAreChosen(next, choice)
  <2> SUFFICES ASSUME NEW i \in DOMAIN queue,
                      \A j \in DOMAIN queue : j > i => next[j].id # next[i].id
               PROVE  choice[next[i].id] \in {"unsaved", next[i].row.review}
    BY <1>2 DEF QueuedAreChosen
  <2>1. \A j \in DOMAIN queue : j > i => queue[j].id # queue[i].id
    BY <1>4
  <2>2. choice[queue[i].id] \in {"unsaved", queue[i].row.review}
    BY <2>1 DEF QueuedAreChosen
  <2> QED  BY <1>4, <2>2
<1>7. \A id : SaveQueued(id, next) <=> SaveQueued(id, queue)
  BY <1>2, <1>4 DEF SaveQueued
<1> QED  BY <1>5, <1>6, <1>7

(* A choice that is not the last any more is forgotten.                    *)
LEMMA FewerChoices ==
  ASSUME NEW chain, NEW queue, QueueOK(queue, chain), NEW choice, NEW left,
         \A id \in InboxIds : left[id] \in {choice[id], "unsaved"},
         QueuedAreChosen(queue, choice)
  PROVE  QueuedAreChosen(queue, left)
<1>1. \A i \in DOMAIN queue : queue[i].id \in InboxIds
  BY DEF QueueOK, SaveOK, SaveType
<1> QED  BY <1>1 DEF QueuedAreChosen

LEMMA ForgetShape ==
  ASSUME chosen \in ChosenType, NEW id \in InboxIds, NEW queue, Forget(id, queue)
  PROVE  /\ chosen' \in ChosenType
         /\ \A x : x \in InboxIds => chosen'[x] \in {chosen[x], "unsaved"}
         /\ \A x : x \in InboxIds /\ x # id => chosen'[x] = chosen[x]
         /\ ~SaveQueued(id, queue) => chosen'[id] = "unsaved"
  BY DEF Forget, ChosenType

(* A review that is stored is the one that was chosen last, unless another *)
(* one is queued.                                                          *)
LEMMA SavedIsChosen ==
  ASSUME NEW chain, NEW queue, QueueOK(queue, chain), queue # <<>>,
         NEW choice, QueuedAreChosen(queue, choice),
         NEW rows, StoredAreChosen(rows, queue, choice)
  PROVE  LET stored == Replace(rows, Head(queue).id, Head(queue).row) IN
         StoredAreChosen(stored, queue, choice) /\ StoredAreChosen(stored, Tail(queue), choice)
<1> PICK save : save = Head(queue)
  OBVIOUS
<1> PICK stored : stored = Replace(rows, save.id, save.row)
  OBVIOUS
<1>1. /\ DOMAIN stored = DOMAIN rows
      /\ \A id \in DOMAIN rows : id # save.id => stored[id] = rows[id]
      /\ save.id \in DOMAIN rows => stored[save.id] = save.row
  BY DEF Replace
<1>2. /\ \A id : SaveQueued(id, queue) <=> id = save.id \/ SaveQueued(id, Tail(queue))
      /\ ~SaveQueued(save.id, Tail(queue)) => choice[save.id] \in {"unsaved", save.row.review}
  BY TailIsChosen
<1>3. StoredAreChosen(stored, queue, choice)
  BY <1>1, <1>2 DEF StoredAreChosen
<1>4. StoredAreChosen(stored, Tail(queue), choice)
  BY <1>1, <1>2 DEF StoredAreChosen
<1> QED  BY <1>3, <1>4

LEMMA EmptyQueue ==
  ASSUME NEW chain, NEW choice
  PROVE  QueueOK(<<>>, chain) /\ QueuedAreChosen(<<>>, choice)
  BY DEF QueueOK, QueuedAreChosen

LEMMA NothingIsKnown ==
  ASSUME NEW chain \in Chains
  PROVE  Agrees(<<>>, chain)
<1>1. chain \in Seq(Receipts) /\ Len(chain) \in Nat
  BY DEF Chains
<1>2. <<>> \in Seq(Receipts) /\ Len(<<>>) = 0 /\ DOMAIN <<>> = {}
  OBVIOUS
<1> QED  BY <1>1, <1>2 DEF Agrees

LEMMA IdleLoadIsGood ==
  ASSUME NEW chain \in Chains
  PROVE  LoadOK(IdleLoad, chain)
<1>1. NoRows \in Stores /\ GoodRows(NoRows, chain)
  BY NoRowsAreGood DEF GoodRows
<1>2. Agrees(<<>>, chain) /\ <<>> \in Seq(Receipts)
  BY NothingIsKnown
<1>3. 0 \in 0 .. MaxLoads
  BY InboxAssumption
<1>4. IdleLoad = [pc |-> "idle", run |-> 0, rows |-> NoRows, registry |-> <<>>]
  BY DEF IdleLoad
<1> QED  BY <1>1, <1>2, <1>3, <1>4 DEF LoadOK, LoadType

-----------------------------------------------------------------------------
(* The steps of a load.                                                    *)
LEMMA StartLoadStep ==
  ASSUME InboxInv, StartLoad
  PROVE  InboxInv'
<1>1. /\ counts.loads < MaxLoads /\ counts' = [counts EXCEPT !.loads = @ + 1]
      /\ load' = [pc |-> "starting", run |-> counts.loads + 1, rows |-> NoRows,
                  registry |-> known]
      /\ UNCHANGED <<receipts, known, remote, local, view, extra, hydrations,
                     registering, saves, chosen>>
  BY DEF StartLoad
<1>2. counts' \in CountType /\ counts.loads + 1 \in 0 .. MaxLoads
  BY <1>1, InboxAssumption DEF InboxInv, CountType
<1>3. LoadOK(load', receipts)
  BY <1>1, <1>2, NoRowsAreGood DEF InboxInv, LoadOK, LoadType, Agrees, GoodRows
<1> QED  BY <1>1, <1>2, <1>3 DEF InboxInv, StoresOK

LEMMA ListLocalStep ==
  ASSUME InboxInv, ListLocal
  PROVE  InboxInv'
<1>1. /\ load' = [load EXCEPT !.pc = "fetching", !.rows = local]
      /\ UNCHANGED <<receipts, known, remote, local, view, extra, hydrations,
                     registering, saves, counts, chosen>>
  BY DEF ListLocal
<1>2. LoadOK(load', receipts)
  BY <1>1 DEF InboxInv, StoresOK, LoadOK, LoadType, GoodRows
<1> QED  BY <1>1, <1>2 DEF InboxInv, StoresOK

LEMMA FinishLoadStep ==
  ASSUME InboxInv, FinishLoad
  PROVE  InboxInv'
<1>1. PICK fetched \in SUBSET remote :
        /\ view' = LoadedRows(fetched, load.rows, load.registry)
        /\ hydrations' = hydrations \cup
             {[pc |-> "patching", run |-> load.run,
               rows |-> LoadedRows(fetched, load.rows, load.registry),
               registry |-> load.registry]}
  BY DEF FinishLoad
<1>2. /\ load' = IdleLoad
      /\ UNCHANGED <<receipts, known, remote, local, extra, registering, saves, counts, chosen>>
  BY DEF FinishLoad
<1> PICK rows : rows = LoadedRows(fetched, load.rows, load.registry)
  OBVIOUS
<1>3. GoodRows(rows, receipts)
  BY LoadedRowsAreGood DEF InboxInv, LoadOK
<1> PICK h : h = [pc |-> "patching", run |-> load.run, rows |-> rows, registry |-> load.registry]
  OBVIOUS
<1>4. HydrationOK(h, receipts)
  BY <1>3 DEF InboxInv, LoadOK, LoadType, HydrationOK, HydrationType, GoodRows
<1>5. \A g \in hydrations' : HydrationOK(g, receipts)
  BY <1>1, <1>4 DEF InboxInv
<1>6. LoadOK(load', receipts)
  BY <1>2, IdleLoadIsGood DEF InboxInv
<1> QED  BY <1>1, <1>2, <1>3, <1>5, <1>6 DEF InboxInv, StoresOK

LEMMA PatchViewStep ==
  ASSUME InboxInv, NEW h \in hydrations, PatchView(h)
  PROVE  InboxInv'
<1>1. /\ view' = [id \in DOMAIN view |->
                    IF id \in DOMAIN h.rows /\ SignalsOf(id, h.registry) # {}
                      THEN h.rows[id] ELSE view[id]]
      /\ hydrations' = (hydrations \ {h}) \cup {[h EXCEPT !.pc = "reading"]}
      /\ UNCHANGED <<receipts, known, remote, local, extra, load, registering,
                     saves, counts, chosen>>
  BY DEF PatchView
<1>2. HydrationOK(h, receipts) /\ GoodRows(view, receipts)
  BY DEF InboxInv, StoresOK
<1>3. HydrationOK([h EXCEPT !.pc = "reading"], receipts)
  BY <1>2 DEF HydrationOK, HydrationType
<1>4. \A g \in hydrations' : HydrationOK(g, receipts)
  BY <1>1, <1>3 DEF InboxInv
<1>5. GoodRows(view', receipts)
  <2> PICK D : D = DOMAIN view
    OBVIOUS
  <2>1. D \in SUBSET InboxIds /\ DOMAIN view' = D
    BY <1>1, <1>2, StoreShape DEF GoodRows
  <2>2. \A id \in D : GoodRow(id, view'[id], receipts)
    BY <1>1, <1>2 DEF HydrationOK, GoodRows
  <2>3. view' \in [D -> Rows]
    BY <1>1, <2>2 DEF GoodRow
  <2>4. view' \in Stores
    BY <2>1, <2>3, StoreFrom
  <2> QED  BY <2>1, <2>2, <2>4 DEF GoodRows
<1> QED  BY <1>1, <1>4, <1>5 DEF InboxInv, StoresOK

LEMMA ShowSupplementalStep ==
  ASSUME InboxInv, NEW h \in hydrations, ShowSupplemental(h)
  PROVE  InboxInv'
<1>1. /\ hydrations' = hydrations \ {h}
      /\ UNCHANGED <<receipts, known, remote, local, view, load, registering,
                     saves, counts, chosen>>
  BY DEF ShowSupplemental
<1>2. HydrationOK(h, receipts) /\ receipts \in Chains
  BY DEF InboxInv
<1>3. GoodRows(extra', receipts)
  <2>1. CASE UNCHANGED extra
    BY <2>1 DEF InboxInv, StoresOK
  <2>2. ASSUME NEW readable \in SUBSET {h.registry[i].of : i \in DOMAIN h.registry},
               extra' = [id \in readable \ DOMAIN h.rows |->
                           [PatchRow(Posted, id, h.registry) EXCEPT !.pending = TRUE]]
        PROVE  GoodRows(extra', receipts)
    <3> PICK D : D = readable \ DOMAIN h.rows
      OBVIOUS
    <3>1. h.registry \in Seq(Receipts)
      BY <1>2 DEF HydrationOK, Agrees
    <3>2. \A i \in DOMAIN h.registry : h.registry[i].of \in InboxIds
      <4> TAKE i \in DOMAIN h.registry
      <4>1. h.registry[i] \in Receipts
        BY <3>1
      <4> QED  BY <4>1 DEF Receipts
    <3>3. D \in SUBSET InboxIds
      BY <3>2
    <3>4. \A id : GoodRow(id, PatchRow(Posted, id, h.registry), receipts)
      BY <1>2, PostedRow, PatchedRow DEF HydrationOK
    <3>5. \A id : GoodRow(id, [PatchRow(Posted, id, h.registry) EXCEPT !.pending = TRUE], receipts)
      <4> TAKE id
      <4> PICK row : row = PatchRow(Posted, id, h.registry)
        OBVIOUS
      <4>1. GoodRow(id, row, receipts)
        BY <3>4
      <4>2. GoodRow(id, [row EXCEPT !.pending = TRUE], receipts)
        BY <4>1 DEF GoodRow, Rows
      <4> QED  BY <4>2
    <3>6. DOMAIN extra' = D /\ \A id \in D : GoodRow(id, extra'[id], receipts)
      BY <2>2, <3>5
    <3>7. extra' \in [D -> Rows]
      BY <2>2, <3>6 DEF GoodRow
    <3>8. extra' \in Stores
      BY <3>3, <3>7, StoreFrom
    <3> QED  BY <3>6, <3>8 DEF GoodRows
  <2> QED  BY <2>1, <2>2 DEF ShowSupplemental
<1> QED  BY <1>1, <1>3 DEF InboxInv, StoresOK

-----------------------------------------------------------------------------
(* The steps of a review.                                                  *)
LEMMA ShownIsGood ==
  ASSUME InboxInv, NEW id \in DOMAIN Shown
  PROVE  id \in InboxIds /\ GoodRow(id, Shown[id], receipts)
<1>1. GoodRows(view, receipts) /\ GoodRows(extra, receipts)
  BY DEF InboxInv, StoresOK
<1>2. id \in (DOMAIN view) \cup (DOMAIN extra)
  BY DEF Shown
<1>3. Shown[id] = IF id \in DOMAIN view /\ (id \notin DOMAIN extra \/ view[id].signal # NoSignal)
                    THEN view[id] ELSE extra[id]
  BY DEF Shown
<1>4. id \in InboxIds
  BY <1>1, <1>2, StoreShape DEF GoodRows
<1> QED  BY <1>1, <1>2, <1>3, <1>4 DEF GoodRows

LEMMA EditStep ==
  ASSUME InboxInv, NEW id \in InboxIds, NEW review \in Reviews, Edit(id, review)
  PROVE  InboxInv'
<1> PICK row : row = [Shown[id] EXCEPT !.review = review]
  OBVIOUS
<1> PICK save : save = [pc |-> "storing", id |-> id, row |-> row]
  OBVIOUS
<1>1. /\ id \in DOMAIN Shown
      /\ view' = Replace(view, id, row) /\ saves' = Append(saves, save)
      /\ counts' = [counts EXCEPT !.edits = @ + 1]
      /\ chosen' = [chosen EXCEPT ![id] = review]
      /\ UNCHANGED <<receipts, known, remote, local, extra, load, hydrations, registering>>
  BY DEF Edit
<1>2. GoodRow(id, Shown[id], receipts)
  BY <1>1, ShownIsGood
<1>3. GoodRow(id, row, receipts) /\ row.review = review
  BY <1>2 DEF GoodRow, Rows
<1>4. SaveOK(save, receipts)
  BY <1>3 DEF SaveOK, SaveType, GoodRow
<1>5. GoodRows(view', receipts)
  BY <1>1, <1>3, ReplacedRows DEF InboxInv, StoresOK
<1>6. saves \in Seq(SaveType) /\ Len(saves) \in Nat /\ save \in SaveType
  BY <1>4 DEF InboxInv, QueueOK, SaveOK
<1> PICK n : n = Len(saves) + 1
  OBVIOUS
<1>7. /\ saves' \in Seq(SaveType) /\ DOMAIN saves' = 1 .. n /\ DOMAIN saves = 1 .. n - 1
      /\ n \in Nat /\ saves'[n] = save /\ \A i \in 1 .. n - 1 : saves'[i] = saves[i]
  BY <1>1, <1>6
<1>8. QueueOK(saves', receipts)
  BY <1>4, <1>7 DEF InboxInv, QueueOK
<1>9. counts' \in CountType /\ chosen' \in ChosenType
  <2>1. counts' \in CountType
    BY <1>1 DEF InboxInv, CountType
  <2>2. chosen' \in ChosenType
    BY <1>1 DEF InboxInv, ChosenType
  <2> QED  BY <2>1, <2>2
<1>10. chosen'[id] = review /\ \A x \in InboxIds : x # id => chosen'[x] = chosen[x]
  BY <1>1 DEF InboxInv, ChosenType
<1>11. QueuedAreChosen(saves', chosen')
  <2> SUFFICES ASSUME NEW i \in 1 .. n, \A j \in 1 .. n : j > i => saves'[j].id # saves'[i].id
               PROVE  chosen'[saves'[i].id] \in {"unsaved", saves'[i].row.review}
    BY <1>7 DEF QueuedAreChosen
  <2>1. CASE i = n
    <3>1. save.id = id /\ save.row.review = review
      BY <1>3
    <3> QED  BY <1>7, <1>10, <2>1, <3>1
  <2>2. CASE i # n
    <3>1. i \in 1 .. n - 1 /\ saves'[i] = saves[i] /\ saves[i].id # id
      BY <1>7, <2>2
    <3>2. saves[i].id \in InboxIds
      BY <1>7, <3>1 DEF InboxInv, QueueOK, SaveOK, SaveType
    <3>3. \A j \in 1 .. n - 1 : j > i => saves[j].id # saves[i].id
      BY <1>7, <3>1
    <3>4. chosen[saves[i].id] \in {"unsaved", saves[i].row.review}
      BY <1>7, <3>1, <3>3 DEF InboxInv, QueuedAreChosen
    <3> QED  BY <1>10, <3>1, <3>2, <3>4
  <2> QED  BY <2>1, <2>2
<1>12. StoredAreChosen(local, saves', chosen')
  <2>1. SaveQueued(id, saves') /\ \A x : SaveQueued(x, saves) => SaveQueued(x, saves')
    BY <1>7 DEF SaveQueued
  <2>2. DOMAIN local \subseteq InboxIds
    BY StoreShape DEF InboxInv, StoresOK, GoodRows
  <2> QED  BY <1>10, <2>1, <2>2 DEF InboxInv, StoredAreChosen
<1> QED  BY <1>1, <1>5, <1>8, <1>9, <1>11, <1>12 DEF InboxInv, StoresOK

LEMMA SaveReviewStep ==
  ASSUME InboxInv, SaveReview
  PROVE  InboxInv'
<1> PICK save : save = Head(saves)
  OBVIOUS
<1> PICK stored : stored = Replace(local, save.id, save.row)
  OBVIOUS
<1>1. /\ saves # <<>> /\ save.pc = "storing"
      /\ local' = stored
      /\ saves' = IF NeedsSync(save.row) THEN Advance("syncing", save.row) ELSE Tail(saves)
      /\ UNCHANGED <<receipts, known, remote, view, extra, load, hydrations,
                     registering, counts, chosen>>
  BY DEF SaveReview, Saving
<1>2. QueueOK(saves, receipts) /\ QueuedAreChosen(saves, chosen)
      /\ StoredAreChosen(local, saves, chosen) /\ GoodRows(local, receipts)
  BY DEF InboxInv, StoresOK
<1>3. SaveOK(save, receipts) /\ QueueOK(Tail(saves), receipts)
  BY <1>1, <1>2, QueueTail
<1>4. GoodRows(stored, receipts)
  BY <1>2, <1>3, ReplacedRows DEF SaveOK
<1>5. StoredAreChosen(stored, saves, chosen) /\ StoredAreChosen(stored, Tail(saves), chosen)
  BY <1>1, <1>2, SavedIsChosen
<1>6. /\ QueueOK(saves', receipts) /\ QueuedAreChosen(saves', chosen)
      /\ StoredAreChosen(stored, saves', chosen)
  <2>1. CASE ~NeedsSync(save.row)
    BY <1>1, <1>2, <1>3, <1>5, <2>1, TailIsChosen
  <2>2. CASE NeedsSync(save.row)
    <3> PICK new : new = [save EXCEPT !.pc = "syncing", !.row = save.row]
      OBVIOUS
    <3>1. saves' = <<new>> \o Tail(saves)
      BY <1>1, <2>2 DEF Advance
    <3>2. new.id = save.id /\ new.row = save.row /\ SaveOK(new, receipts)
      BY <1>3, <2>2 DEF SaveOK, SaveType, NeedsSync
    <3> PICK next : next = <<new>> \o Tail(saves)
      OBVIOUS
    <3>3. /\ QueueOK(next, receipts) /\ QueuedAreChosen(next, chosen)
          /\ \A id : SaveQueued(id, next) <=> SaveQueued(id, saves)
      BY <1>1, <1>2, <3>2, HeadGoesOn
    <3>4. StoredAreChosen(stored, next, chosen)
      BY <1>5, <3>3 DEF StoredAreChosen
    <3> QED  BY <3>1, <3>3, <3>4
  <2> QED  BY <2>1, <2>2
<1> QED  BY <1>1, <1>4, <1>6 DEF InboxInv, StoresOK

(* The synced review lands on the submission's own receipt.                *)
LEMMA SyncStatusStep ==
  ASSUME InboxInv, SyncStatus
  PROVE  InboxInv'
<1> PICK save : save = Head(saves)
  OBVIOUS
<1> PICK row : row = save.row
  OBVIOUS
<1> PICK next : next = [receipts EXCEPT ![row.signal].status = row.review]
  OBVIOUS
<1> PICK new : new = [save EXCEPT !.pc = "restoring", !.row = [row EXCEPT !.status = row.review]]
  OBVIOUS
<1> PICK queue : queue = <<new>> \o Tail(saves)
  OBVIOUS
<1>1. /\ saves # <<>> /\ save.pc = "syncing"
      /\ receipts' = next /\ saves' = queue
      /\ UNCHANGED <<known, remote, local, view, extra, load, hydrations,
                     registering, counts, chosen>>
  BY DEF SyncStatus, Saving, Advance
<1>2. SaveOK(save, receipts)
  BY <1>1, QueueTail DEF InboxInv
<1>3. /\ row \in Rows /\ row.signal # NoSignal /\ row.signal \in DOMAIN receipts
      /\ receipts[row.signal].of = save.id /\ row.review \in Reviews
  BY <1>1, <1>2 DEF SaveOK, GoodRow, Rows
<1>4. Grows(receipts, next)
  BY <1>3, StatusChanges DEF InboxInv
<1>5. /\ next \in Chains /\ Agrees(known, next) /\ StoresOK(next) /\ LoadOK(load, next)
      /\ \A h \in hydrations : HydrationOK(h, next)
      /\ QueueOK(saves, next)
  BY <1>4, EverythingStays
<1>6. SaveOK(save, next)
  BY <1>1, <1>5, QueueTail
<1>7. /\ new.id = save.id /\ new.row.review = row.review
      /\ SaveOK(new, next)
  BY <1>3, <1>6 DEF SaveOK, SaveType, GoodRow, Rows
<1>8. /\ QueueOK(queue, next) /\ QueuedAreChosen(queue, chosen)
      /\ \A id : SaveQueued(id, queue) <=> SaveQueued(id, saves)
  BY <1>1, <1>5, <1>7, HeadGoesOn DEF InboxInv
<1>9. StoredAreChosen(local, queue, chosen)
  BY <1>8 DEF InboxInv, StoredAreChosen
<1> QED  BY <1>1, <1>5, <1>8, <1>9 DEF InboxInv, StoresOK

LEMMA SaveSyncedStep ==
  ASSUME InboxInv, SaveSynced
  PROVE  InboxInv'
<1> PICK save : save = Head(saves)
  OBVIOUS
<1> PICK stored : stored = Replace(local, save.id, save.row)
  OBVIOUS
<1>1. /\ saves # <<>>
      /\ local' = stored /\ view' = Replace(view, save.id, save.row)
      /\ saves' = Tail(saves)
      /\ UNCHANGED <<receipts, known, remote, extra, load, hydrations,
                     registering, counts, chosen>>
  BY DEF SaveSynced, Saving
<1>2. QueueOK(saves, receipts) /\ QueuedAreChosen(saves, chosen)
      /\ StoredAreChosen(local, saves, chosen)
      /\ GoodRows(local, receipts) /\ GoodRows(view, receipts)
  BY DEF InboxInv, StoresOK
<1>3. SaveOK(save, receipts) /\ QueueOK(Tail(saves), receipts)
  BY <1>1, <1>2, QueueTail
<1>4. GoodRows(stored, receipts) /\ GoodRows(view', receipts)
  BY <1>1, <1>2, <1>3, ReplacedRows DEF SaveOK
<1>5. StoredAreChosen(stored, Tail(saves), chosen)
  BY <1>1, <1>2, SavedIsChosen
<1>6. QueuedAreChosen(Tail(saves), chosen)
  BY <1>1, <1>2, TailIsChosen
<1> QED  BY <1>1, <1>3, <1>4, <1>5, <1>6 DEF InboxInv, StoresOK

LEMMA SaveFailsStep ==
  ASSUME InboxInv, SaveFails
  PROVE  InboxInv'
<1> PICK save : save = Head(saves)
  OBVIOUS
<1> PICK rest : rest = Tail(saves)
  OBVIOUS
<1>1. /\ saves # <<>> /\ saves' = rest /\ Forget(save.id, rest)
      /\ UNCHANGED <<receipts, known, remote, local, view, extra, load, hydrations,
                     registering, counts>>
  BY DEF SaveFails
<1>2. QueueOK(saves, receipts) /\ QueuedAreChosen(saves, chosen)
      /\ StoredAreChosen(local, saves, chosen) /\ DOMAIN local \subseteq InboxIds
  BY StoreShape DEF InboxInv, StoresOK, GoodRows
<1>3. /\ SaveOK(save, receipts) /\ QueueOK(rest, receipts) /\ save.id \in InboxIds
  BY <1>1, <1>2, QueueTail DEF SaveOK, SaveType
<1>4. /\ chosen' \in ChosenType
      /\ \A x : x \in InboxIds => chosen'[x] \in {chosen[x], "unsaved"}
      /\ \A x : x \in InboxIds /\ x # save.id => chosen'[x] = chosen[x]
      /\ ~SaveQueued(save.id, rest) => chosen'[save.id] = "unsaved"
  BY <1>1, <1>3, ForgetShape DEF InboxInv
<1>5. /\ QueuedAreChosen(rest, chosen)
      /\ \A id : SaveQueued(id, saves) <=> id = save.id \/ SaveQueued(id, rest)
  BY <1>1, <1>2, TailIsChosen
<1>6. QueuedAreChosen(rest, chosen')
  BY <1>3, <1>4, <1>5, FewerChoices
<1>7. StoredAreChosen(local, rest, chosen')
  BY <1>2, <1>4, <1>5 DEF StoredAreChosen
<1> QED  BY <1>1, <1>3, <1>4, <1>6, <1>7 DEF InboxInv, StoresOK

-----------------------------------------------------------------------------
(* The steps of a registration.                                            *)
LEMMA BeginRegisterStep ==
  ASSUME InboxInv, NEW id \in InboxIds, BeginRegister(id)
  PROVE  InboxInv'
<1>1. /\ id \in DOMAIN Shown
      /\ registering' = Over(OneRowOf(id, Shown[id]), registering)
      /\ UNCHANGED <<receipts, known, remote, local, view, extra, load, hydrations,
                     saves, counts, chosen>>
  BY DEF BeginRegister
<1>2. GoodRow(id, Shown[id], receipts)
  BY <1>1, ShownIsGood
<1>3. GoodRows(registering', receipts)
  BY <1>1, <1>2, OneRowIsGood, OverRows DEF InboxInv, StoresOK
<1> QED  BY <1>1, <1>3 DEF InboxInv, StoresOK

LEMMA FinishedRows ==
  ASSUME NEW chain, GoodRows(registering, chain), NEW id, Finish(id)
  PROVE  GoodRows(registering', chain)
<1> PICK D : D = DOMAIN registering \ {id}
  OBVIOUS
<1>1. D \in SUBSET DOMAIN registering /\ registering' = Restrict(registering, D)
  BY DEF Finish
<1> QED  BY <1>1, RestrictedRows

LEMMA RegisterOnChainStep ==
  ASSUME InboxInv, NEW id \in InboxIds, RegisterOnChain(id)
  PROVE  InboxInv'
<1> PICK next : next = Append(receipts, Receipt(id))
  OBVIOUS
<1>1. /\ id \in DOMAIN registering /\ Len(receipts) < MaxReceipts
      /\ receipts' = next
      /\ UNCHANGED <<known, remote, local, view, extra, load, hydrations, saves,
                     counts, chosen>>
  BY DEF RegisterOnChain, Running
<1>2. PICK named \in {Len(receipts) + 1, NoSignal} :
        registering' = [registering EXCEPT ![id].pending = FALSE, ![id].status = "new",
                                           ![id].signal = named]
  BY DEF RegisterOnChain
<1>3. /\ Grows(receipts, next)
      /\ Len(next) = Len(receipts) + 1 /\ next[Len(receipts) + 1].of = id
  BY <1>1, GrowsByOne DEF InboxInv
<1>4. /\ next \in Chains /\ Agrees(known, next) /\ StoresOK(next) /\ LoadOK(load, next)
      /\ \A h \in hydrations : HydrationOK(h, next)
      /\ QueueOK(saves, next)
  BY <1>3, EverythingStays
<1> PICK row : row = [registering[id] EXCEPT !.pending = FALSE, !.status = "new", !.signal = named]
  OBVIOUS
<1>5. GoodRow(id, registering[id], next) /\ GoodRows(registering, next)
  BY <1>1, <1>4 DEF StoresOK, GoodRows
<1>6. named \in 0 .. MaxReceipts /\ (named # NoSignal => named \in DOMAIN next /\ next[named].of = id)
  BY <1>3, <1>4, InboxAssumption DEF Chains, NoSignal
<1>7. GoodRow(id, row, next)
  BY <1>5, <1>6, InboxAssumption DEF GoodRow, Rows
<1>8. registering' = Replace(registering, id, row)
  BY <1>1, <1>2 DEF Replace
<1>9. GoodRows(registering', next)
  BY <1>5, <1>7, <1>8, ReplacedRows
<1> QED  BY <1>1, <1>4, <1>9 DEF InboxInv, StoresOK

LEMMA RegisterUnansweredStep ==
  ASSUME InboxInv, NEW id \in InboxIds, RegisterUnanswered(id)
  PROVE  InboxInv'
<1> PICK next : next = Append(receipts, Receipt(id))
  OBVIOUS
<1>1. /\ Len(receipts) < MaxReceipts /\ receipts' = next /\ Finish(id)
      /\ UNCHANGED <<known, remote, local, view, extra, load, hydrations, saves,
                     counts, chosen>>
  BY DEF RegisterUnanswered
<1>2. Grows(receipts, next)
  BY <1>1, GrowsByOne DEF InboxInv
<1>3. /\ next \in Chains /\ Agrees(known, next) /\ StoresOK(next) /\ LoadOK(load, next)
      /\ \A h \in hydrations : HydrationOK(h, next)
      /\ QueueOK(saves, next)
  BY <1>2, EverythingStays
<1>4. GoodRows(registering', next)
  BY <1>1, <1>3, FinishedRows DEF StoresOK
<1> QED  BY <1>1, <1>3, <1>4 DEF InboxInv, StoresOK

LEMMA StoreRegisteredStep ==
  ASSUME InboxInv, NEW id \in InboxIds, StoreRegistered(id)
  PROVE  InboxInv'
<1> PICK row : row = registering[id]
  OBVIOUS
<1>1. /\ id \in DOMAIN registering
      /\ local' = Over(OneRowOf(id, row), local)
      /\ view' = Replace(view, id, row)
      /\ Finish(id) /\ Forget(id, saves)
      /\ UNCHANGED <<receipts, known, remote, extra, load, hydrations, saves, counts>>
  BY DEF StoreRegistered, Running
<1>2. /\ GoodRow(id, row, receipts) /\ GoodRows(registering, receipts)
      /\ GoodRows(local, receipts) /\ GoodRows(view, receipts)
  BY <1>1 DEF InboxInv, StoresOK, GoodRows
<1>3. /\ GoodRows(OneRowOf(id, row), receipts)
      /\ DOMAIN OneRowOf(id, row) = {id} /\ OneRowOf(id, row)[id] = row
  <2>1. id \in InboxIds /\ GoodRow(id, row, receipts)
    BY <1>2
  <2> QED  BY ONLY <2>1, OneRowIsGood
<1>4. GoodRows(local', receipts)
  BY <1>1, <1>2, <1>3, OverRows
<1>5. GoodRows(view', receipts)
  BY <1>1, <1>2, ReplacedRows
<1>6. GoodRows(registering', receipts)
  BY <1>1, <1>2, FinishedRows
<1>7. /\ chosen' \in ChosenType
      /\ \A x : x \in InboxIds => chosen'[x] \in {chosen[x], "unsaved"}
      /\ \A x : x \in InboxIds /\ x # id => chosen'[x] = chosen[x]
      /\ ~SaveQueued(id, saves) => chosen'[id] = "unsaved"
  BY <1>1, ForgetShape DEF InboxInv
<1>8. QueuedAreChosen(saves, chosen')
  BY <1>7, FewerChoices DEF InboxInv
<1>9. StoredAreChosen(local', saves, chosen')
  <2>1. /\ DOMAIN local' = {id} \cup DOMAIN local
        /\ \A x \in DOMAIN local : x # id => local'[x] = local[x]
    BY <1>1, <1>3 DEF Over
  <2>2. DOMAIN local \subseteq InboxIds
    BY <1>2, StoreShape DEF GoodRows
  <2> QED  BY <1>7, <2>1, <2>2 DEF InboxInv, StoredAreChosen
<1> QED  BY <1>1, <1>4, <1>5, <1>6, <1>7, <1>8, <1>9 DEF InboxInv, StoresOK

LEMMA RegisterFailsStep ==
  ASSUME InboxInv, NEW id \in InboxIds, RegisterFails(id)
  PROVE  InboxInv'
<1>1. /\ Finish(id)
      /\ UNCHANGED <<receipts, known, remote, local, view, extra, load, hydrations,
                     saves, counts, chosen>>
  BY DEF RegisterFails
<1>2. GoodRows(registering', receipts)
  BY <1>1, FinishedRows DEF InboxInv, StoresOK
<1> QED  BY <1>1, <1>2 DEF InboxInv, StoresOK

-----------------------------------------------------------------------------
(* Other browsers, a summary that is fetched again, and a reload.          *)
LEMMA RefreshRegistryStep ==
  ASSUME InboxInv, RefreshRegistry
  PROVE  InboxInv'
<1>1. /\ known' = receipts
      /\ UNCHANGED <<receipts, remote, local, view, extra, load, hydrations,
                     registering, saves, counts, chosen>>
  BY DEF RefreshRegistry
<1>2. Agrees(receipts, receipts)
  BY DEF InboxInv, Chains, Agrees
<1> QED  BY <1>1, <1>2 DEF InboxInv, StoresOK

LEMMA ForeignStep ==
  ASSUME InboxInv, Foreign, Grows(receipts, receipts')
  PROVE  InboxInv'
<1> PICK next : next = receipts'
  OBVIOUS
<1>1. /\ counts' = [counts EXCEPT !.foreign = @ + 1]
      /\ UNCHANGED <<known, remote, local, view, extra, load, hydrations,
                     registering, saves, chosen>>
  BY DEF Foreign
<1>2. /\ next \in Chains /\ Agrees(known, next) /\ StoresOK(next) /\ LoadOK(load, next)
      /\ \A h \in hydrations : HydrationOK(h, next)
      /\ QueueOK(saves, next)
  BY EverythingStays
<1>3. counts' \in CountType
  BY <1>1 DEF InboxInv, CountType
<1> QED  BY <1>1, <1>2, <1>3 DEF InboxInv, StoresOK

LEMMA OtherRegistersStep ==
  ASSUME InboxInv, NEW id \in InboxIds, OtherRegisters(id)
  PROVE  InboxInv'
<1>1. Len(receipts) < MaxReceipts /\ receipts' = Append(receipts, Receipt(id)) /\ Foreign
  BY DEF OtherRegisters
<1>2. Grows(receipts, receipts')
  BY <1>1, GrowsByOne DEF InboxInv
<1> QED  BY <1>1, <1>2, ForeignStep

LEMMA OtherReviewsStep ==
  ASSUME InboxInv, NEW i, NEW review \in Reviews, OtherReviews(i, review)
  PROVE  InboxInv'
<1>1. /\ i \in DOMAIN receipts
      /\ receipts' = [receipts EXCEPT ![i].status = review] /\ Foreign
  BY DEF OtherReviews
<1>2. Grows(receipts, receipts')
  BY <1>1, StatusChanges DEF InboxInv
<1> QED  BY <1>1, <1>2, ForeignStep

LEMMA ReloadTabStep ==
  ASSUME InboxInv, ReloadTab
  PROVE  InboxInv'
<1>1. /\ known' = receipts
      /\ view' = NoRows /\ extra' = NoRows
      /\ load' = IdleLoad /\ hydrations' = {}
      /\ registering' = NoRows /\ saves' = <<>>
      /\ chosen' = [id \in InboxIds |-> IF SaveQueued(id, saves) THEN "unsaved" ELSE chosen[id]]
      /\ UNCHANGED <<receipts, remote, local, counts>>
  BY DEF ReloadTab
<1>2. Agrees(receipts, receipts) /\ receipts \in Chains
  BY DEF InboxInv, Chains, Agrees
<1>3. GoodRows(NoRows, receipts) /\ LoadOK(IdleLoad, receipts)
  BY <1>2, NoRowsAreGood, IdleLoadIsGood
<1>4. chosen' \in ChosenType
  BY <1>1 DEF InboxInv, ChosenType
<1>5. QueueOK(<<>>, receipts) /\ QueuedAreChosen(<<>>, chosen')
  BY EmptyQueue
<1>6. StoredAreChosen(local, <<>>, chosen')
  <2>1. DOMAIN local \subseteq InboxIds
    BY StoreShape DEF InboxInv, StoresOK, GoodRows
  <2> QED  BY <1>1, <2>1 DEF InboxInv, StoredAreChosen
<1> QED  BY <1>1, <1>2, <1>3, <1>4, <1>5, <1>6 DEF InboxInv, StoresOK

-----------------------------------------------------------------------------

LEMMA InboxInitInv ==
  ASSUME InboxInit
  PROVE  InboxInv
<1>1. PICK posted \in SUBSET InboxIds, kept \in SUBSET InboxIds :
        remote = posted /\ local = AllPosted(kept)
  BY DEF InboxInit
<1>2. /\ receipts = <<>> /\ known = <<>>
      /\ view = NoRows /\ extra = NoRows
      /\ load = IdleLoad /\ hydrations = {}
      /\ registering = NoRows /\ saves = <<>>
      /\ counts = [edits |-> 0, loads |-> 0, foreign |-> 0]
      /\ chosen = [id \in InboxIds |-> "unsaved"]
  BY DEF InboxInit
<1>3. <<>> \in Chains
  <2>1. <<>> \in Seq(Receipts) /\ Len(<<>>) = 0
    OBVIOUS
  <2> QED  BY <2>1, InboxAssumption DEF Chains
<1>4. Agrees(<<>>, <<>>) /\ LoadOK(IdleLoad, <<>>) /\ GoodRows(NoRows, <<>>)
  BY <1>3, NothingIsKnown, IdleLoadIsGood, NoRowsAreGood
<1>5. GoodRows(local, <<>>) /\ DOMAIN local \subseteq InboxIds
  BY <1>1, <1>3, PostedRows DEF AllPosted
<1>6. QueueOK(<<>>, <<>>) /\ QueuedAreChosen(<<>>, chosen)
  BY EmptyQueue
<1>7. counts \in CountType /\ chosen \in ChosenType
  <2>1. counts \in CountType
    BY <1>2, InboxAssumption DEF CountType
  <2>2. chosen \in ChosenType
    BY <1>2 DEF ChosenType
  <2> QED  BY <2>1, <2>2
<1>8. StoredAreChosen(local, <<>>, chosen)
  BY <1>2, <1>5 DEF StoredAreChosen
<1> QED  BY <1>1, <1>2, <1>3, <1>4, <1>5, <1>6, <1>7, <1>8 DEF InboxInv, StoresOK

LEMMA InboxStepInv ==
  ASSUME InboxInv, [InboxNext]_inboxVars
  PROVE  InboxInv'
<1>1. CASE UNCHANGED inboxVars
  BY <1>1 DEF inboxVars, InboxInv, StoresOK
<1>2. CASE InboxNext
  <2> USE <1>2
  <2>1. CASE StartLoad \/ ListLocal \/ FinishLoad
    BY <2>1, StartLoadStep, ListLocalStep, FinishLoadStep
  <2>2. ASSUME NEW h \in hydrations, PatchView(h) \/ ShowSupplemental(h)
        PROVE  InboxInv'
    BY <2>2, PatchViewStep, ShowSupplementalStep
  <2>3. ASSUME NEW id \in InboxIds, NEW review \in Reviews, Edit(id, review)
        PROVE  InboxInv'
    BY <2>3, EditStep
  <2>4. CASE SaveStep
    BY <2>4, SaveReviewStep, SyncStatusStep, SaveSyncedStep, SaveFailsStep DEF SaveStep
  <2>5. ASSUME NEW id \in InboxIds,
               \/ BeginRegister(id) \/ RegisterOnChain(id) \/ RegisterUnanswered(id)
               \/ StoreRegistered(id) \/ RegisterFails(id)
               \/ OtherRegisters(id)
        PROVE  InboxInv'
    BY <2>5, BeginRegisterStep, RegisterOnChainStep, RegisterUnansweredStep,
       StoreRegisteredStep, RegisterFailsStep, OtherRegistersStep
  <2>6. ASSUME NEW i \in 1 .. MaxReceipts, NEW review \in Reviews, OtherReviews(i, review)
        PROVE  InboxInv'
    BY <2>6, OtherReviewsStep
  <2>7. CASE RefreshRegistry \/ ReloadTab
    BY <2>7, RefreshRegistryStep, ReloadTabStep
  <2> QED  BY <2>1, <2>2, <2>3, <2>4, <2>5, <2>6, <2>7 DEF InboxNext
<1> QED  BY <1>1, <1>2

LEMMA InboxInvariant == InboxSpec => []InboxInv
<1>1. InboxInit => InboxInv
  BY InboxInitInv
<1>2. InboxInv /\ [InboxNext]_inboxVars => InboxInv'
  BY InboxStepInv
<1> QED  BY <1>1, <1>2, PTL DEF InboxSpec

(* The stores hold rows of the form's submissions, and only the first save *)
(* of the chain of promises is under way (AdminDashboardWorkspace.tsx      *)
(* updateSubmission, saveQueueRef).                                        *)
THEOREM InboxTypeCorrect == InboxSpec => []InboxTypeOK
<1>1. InboxInv => InboxTypeOK
  BY InvariantSaysAll
<1> QED  BY <1>1, InboxInvariant, PTL

(* Whatever stale snapshot a row went through, the signal id it carries is *)
(* a receipt of its own submission, for any number of submissions,         *)
(* managers, loads and registrations: a review that is synced never lands  *)
(* on another submission's receipt (useSignalInboxData.ts:232-246,         *)
(* adminWriteRuntime.ts:293-318).                                          *)
THEOREM RowsNameTheirReceipts == InboxSpec => []ReceiptOfItsOwn
<1>1. InboxInv => ReceiptOfItsOwn
  BY InvariantSaysAll
<1> QED  BY <1>1, InboxInvariant, PTL

(* Saves of quick edits are stored in the order they were made: with no    *)
(* save of a submission left, the local store has the review chosen last,  *)
(* unless that save failed or a registration rewrote the row               *)
(* (AdminDashboardWorkspace.tsx:6758-6857).                                *)
THEOREM LastChoiceIsStored == InboxSpec => []LatestSaveWins
<1>1. InboxInv => LatestSaveWins
  BY InvariantSaysAll
<1> QED  BY <1>1, InboxInvariant, PTL

-----------------------------------------------------------------------------
(* Beyond the properties of the runs.                                      *)

(* A step writes the status of a receipt only as another manager's review  *)
(* or as the sync of the save at the head of the chain, which is a save of *)
(* that receipt's submission; what it writes is the review chosen last,    *)
(* unless a newer save of the submission stands behind it or a             *)
(* registration overwrote the row.  No receipt is withdrawn or moved       *)
(* (AdminDashboardWorkspace.tsx:6758-6857, useSignalInboxData.ts:232-246). *)
SyncsLandOnTheirOwn ==
  [][\A i \in DOMAIN receipts :
       /\ i \in DOMAIN receipts' /\ receipts'[i].of = receipts[i].of
       /\ receipts'[i].status # receipts[i].status
            => \/ counts'.foreign = counts.foreign + 1
               \/ /\ Saving("syncing")
                  /\ Head(saves).id = receipts[i].of
                  /\ receipts'[i].status = Head(saves).row.review
                  /\ \/ SaveQueued(receipts[i].of, Tail(saves))
                     \/ chosen[receipts[i].of] \in {"unsaved", receipts'[i].status}
    ]_inboxVars

(* What a load that reaches every store shows, at any moment: the review   *)
(* of the posted record for whatever is in the remote index, and for       *)
(* everything else the review chosen last, once it is saved.  So the       *)
(* remote index is all that is wrong in the counterexample to              *)
(* SavedReviewIsShown (loadSubmissionsForForm, useSignalInboxData.ts).     *)
LoadsShow ==
  \A id \in InboxIds :
    /\ id \in remote => LoadedRows(remote, local, known)[id].review = "new"
    /\ id \notin remote /\ chosen[id] # "unsaved" /\ ~SaveQueued(id, saves)
         => LoadedRows(remote, local, known)[id].review = chosen[id]

LEMMA HowReceiptsChange ==
  ASSUME InboxNext
  PROVE  \/ UNCHANGED receipts
         \/ SyncStatus
         \/ Len(receipts) < MaxReceipts
            /\ \E id \in InboxIds : receipts' = Append(receipts, Receipt(id))
         \/ \E i \in 1 .. MaxReceipts, review \in Reviews : OtherReviews(i, review)
<1>1. CASE StartLoad \/ ListLocal \/ FinishLoad \/ RefreshRegistry \/ ReloadTab
  BY <1>1 DEF StartLoad, ListLocal, FinishLoad, RefreshRegistry, ReloadTab
<1>2. ASSUME NEW h \in hydrations, PatchView(h) \/ ShowSupplemental(h)
      PROVE  UNCHANGED receipts
  BY <1>2 DEF PatchView, ShowSupplemental
<1>3. ASSUME NEW id \in InboxIds, NEW review \in Reviews, Edit(id, review)
      PROVE  UNCHANGED receipts
  BY <1>3 DEF Edit
<1>4. CASE SaveStep
  BY <1>4 DEF SaveStep, SaveReview, SaveSynced, SaveFails
<1>5. ASSUME NEW id \in InboxIds, BeginRegister(id) \/ StoreRegistered(id) \/ RegisterFails(id)
      PROVE  UNCHANGED receipts
  BY <1>5 DEF BeginRegister, StoreRegistered, RegisterFails
<1>6. ASSUME NEW id \in InboxIds,
             RegisterOnChain(id) \/ RegisterUnanswered(id) \/ OtherRegisters(id)
      PROVE  Len(receipts) < MaxReceipts /\ receipts' = Append(receipts, Receipt(id))
  BY <1>6 DEF RegisterOnChain, RegisterUnanswered, OtherRegisters
<1> QED  BY <1>1, <1>2, <1>3, <1>4, <1>5, <1>6 DEF InboxNext

(* A synced review lands on a receipt of its own submission and is the     *)
(* newest there is.                                                        *)
THEOREM SyncsAreTheirOwn == InboxSpec => SyncsLandOnTheirOwn
<1> DEFINE Step(i) ==
      /\ i \in DOMAIN receipts' /\ receipts'[i].of = receipts[i].of
      /\ receipts'[i].status # receipts[i].status
           => \/ counts'.foreign = counts.foreign + 1
              \/ /\ Saving("syncing")
                 /\ Head(saves).id = receipts[i].of
                 /\ receipts'[i].status = Head(saves).row.review
                 /\ \/ SaveQueued(receipts[i].of, Tail(saves))
                    \/ chosen[receipts[i].of] \in {"unsaved", receipts'[i].status}
<1>1. InboxInv /\ [InboxNext]_inboxVars => [\A i \in DOMAIN receipts : Step(i)]_inboxVars
  <2> SUFFICES ASSUME InboxInv, InboxNext, NEW i \in DOMAIN receipts
               PROVE  Step(i)
    OBVIOUS
  <2>1. receipts \in Seq(Receipts) /\ Len(receipts) \in Nat
    BY DEF InboxInv, Chains
  <2>2. CASE UNCHANGED receipts
    BY <2>2
  <2>3. ASSUME NEW id \in InboxIds, receipts' = Append(receipts, Receipt(id))
        PROVE  Step(i)
    <3>1. i \in DOMAIN receipts' /\ receipts'[i] = receipts[i]
      BY <2>1, <2>3 DEF Receipts, Receipt
    <3> QED  BY <3>1
  <2>4. ASSUME NEW j, NEW review \in Reviews, OtherReviews(j, review)
        PROVE  Step(i)
    <3>1. /\ j \in DOMAIN receipts
          /\ receipts' = [receipts EXCEPT ![j].status = review]
          /\ counts' = [counts EXCEPT !.foreign = @ + 1]
      BY <2>4 DEF OtherReviews, Foreign
    <3>2. Grows(receipts, receipts')
      BY <3>1, StatusChanges DEF InboxInv
    <3>3. i \in DOMAIN receipts' /\ receipts'[i].of = receipts[i].of
      BY <3>1, <3>2 DEF Grows
    <3>4. counts'.foreign = counts.foreign + 1
      BY <3>1 DEF InboxInv, CountType
    <3> QED  BY <3>3, <3>4
  <2>5. CASE SyncStatus
    <3> PICK save : save = Head(saves)
      OBVIOUS
    <3>1. /\ saves # <<>> /\ save.pc = "syncing"
          /\ receipts' = [receipts EXCEPT ![save.row.signal].status = save.row.review]
      BY <2>5 DEF SyncStatus, Saving
    <3>2. SaveOK(save, receipts)
      BY <3>1, QueueTail DEF InboxInv
    <3>3. /\ save.row.signal \in DOMAIN receipts /\ save.row.review \in Reviews
          /\ receipts[save.row.signal].of = save.id
      BY <3>1, <3>2 DEF SaveOK, GoodRow, Rows
    <3>4. i \in DOMAIN receipts' /\ receipts'[i].of = receipts[i].of
      BY <3>1, <3>3, StatusChanges DEF InboxInv, Grows
    <3>5. CASE i # save.row.signal
      BY <3>1, <3>4, <3>5
    <3>6. CASE i = save.row.signal
      <4>1. receipts[i] \in Receipts
        BY <2>1
      <4>2. receipts'[i].status = save.row.review
        BY <3>1, <3>6, <4>1 DEF Receipts
      <4>3. SaveQueued(save.id, Tail(saves)) \/ chosen[save.id] \in {"unsaved", save.row.review}
        BY <3>1, TailIsChosen DEF InboxInv
      <4> QED  BY <3>1, <3>3, <3>4, <3>6, <4>2, <4>3 DEF Saving
    <3> QED  BY <3>5, <3>6
  <2> HIDE DEF Step
  <2> QED  BY <2>2, <2>3, <2>4, <2>5, HowReceiptsChange
<1> QED  BY <1>1, InboxInvariant, PTL DEF InboxSpec, SyncsLandOnTheirOwn

-----------------------------------------------------------------------------
(* A submission that was not posted has its row in the local store.        *)
NothingIsMissing == InboxIds \subseteq remote \cup DOMAIN local

LEMMA StoresOnlyGrow ==
  ASSUME InboxNext
  PROVE  remote' = remote /\ DOMAIN local \subseteq DOMAIN local'
<1>1. CASE StartLoad \/ ListLocal \/ FinishLoad \/ RefreshRegistry \/ ReloadTab
  BY <1>1 DEF StartLoad, ListLocal, FinishLoad, RefreshRegistry, ReloadTab
<1>2. ASSUME NEW h \in hydrations, PatchView(h) \/ ShowSupplemental(h)
      PROVE  UNCHANGED <<remote, local>>
  BY <1>2 DEF PatchView, ShowSupplemental
<1>3. ASSUME NEW id \in InboxIds, NEW review \in Reviews, Edit(id, review)
      PROVE  UNCHANGED <<remote, local>>
  BY <1>3 DEF Edit
<1>4. \A rows, id, row : DOMAIN Replace(rows, id, row) = DOMAIN rows
  BY DEF Replace
<1>5. CASE SaveStep
  BY <1>4, <1>5 DEF SaveStep, SaveReview, SyncStatus, SaveSynced, SaveFails
<1>6. ASSUME NEW id \in InboxIds, StoreRegistered(id)
      PROVE  remote' = remote /\ DOMAIN local \subseteq DOMAIN local'
  BY <1>6 DEF StoreRegistered, Over
<1>7. ASSUME NEW id \in InboxIds,
             \/ BeginRegister(id) \/ RegisterFails(id)
             \/ RegisterOnChain(id) \/ RegisterUnanswered(id)
      PROVE  UNCHANGED <<remote, local>>
  BY <1>7 DEF BeginRegister, RegisterFails, RegisterOnChain, RegisterUnanswered
<1>8. ASSUME Foreign PROVE UNCHANGED <<remote, local>>
  BY <1>8 DEF Foreign
<1>9. ASSUME NEW id \in InboxIds, OtherRegisters(id) PROVE UNCHANGED <<remote, local>>
  BY <1>8, <1>9 DEF OtherRegisters
<1>10. ASSUME NEW i, NEW review \in Reviews, OtherReviews(i, review)
       PROVE  UNCHANGED <<remote, local>>
  BY <1>8, <1>10 DEF OtherReviews
<1> QED  BY <1>1, <1>2, <1>3, <1>5, <1>6, <1>7, <1>9, <1>10 DEF InboxNext

LEMMA NothingGoesMissing == InboxSpec => []NothingIsMissing
<1>1. InboxInit => NothingIsMissing
  BY DEF InboxInit, NothingIsMissing, AllPosted
<1>2. NothingIsMissing /\ [InboxNext]_inboxVars => NothingIsMissing'
  <2>1. ASSUME NothingIsMissing, InboxNext PROVE NothingIsMissing'
    BY <2>1, StoresOnlyGrow DEF NothingIsMissing
  <2> QED  BY <2>1 DEF NothingIsMissing, inboxVars
<1> QED  BY <1>1, <1>2, PTL DEF InboxSpec

(* The review of a row is that of the fetched record or of the local one.  *)
LEMMA LoadedReview ==
  ASSUME InboxInv, NEW id \in remote \cup DOMAIN local
  PROVE  LoadedRows(remote, local, known)[id].review
           = IF id \in remote THEN "new" ELSE local[id].review
<1> PICK rows : rows = Over(AllPosted(remote), local)
  OBVIOUS
<1>1. GoodRows(rows, receipts)
  BY PostedRows, OverRows DEF InboxInv, StoresOK
<1>2. /\ id \in DOMAIN rows
      /\ rows[id] = IF id \in remote THEN Posted ELSE local[id]
  BY DEF Over, AllPosted
<1>3. GoodRow(id, rows[id], receipts)
  BY <1>1, <1>2 DEF GoodRows
<1>4. PatchRow(rows[id], id, known).review = rows[id].review
  BY <1>3, PatchedRow DEF InboxInv
<1>5. LoadedRows(remote, local, known)[id] = PatchRow(rows[id], id, known)
  BY <1>2 DEF LoadedRows, Patch
<1>6. Posted.review = "new"
  BY DEF Posted
<1> QED  BY <1>2, <1>4, <1>5, <1>6

(* A load shows posted reviews of what is in the index, saved ones of the  *)
(* rest.                                                                   *)
THEOREM LoadsShowTheSavedOrThePosted == InboxSpec => []LoadsShow
<1>1. InboxInv /\ NothingIsMissing => LoadsShow
  <2> SUFFICES ASSUME InboxInv, NothingIsMissing, NEW id \in InboxIds
               PROVE  /\ id \in remote => LoadedRows(remote, local, known)[id].review = "new"
                      /\ id \notin remote /\ chosen[id] # "unsaved" /\ ~SaveQueued(id, saves)
                           => LoadedRows(remote, local, known)[id].review = chosen[id]
    BY DEF LoadsShow
  <2>1. id \in remote \cup DOMAIN local
    BY DEF NothingIsMissing
  <2>2. id \in DOMAIN local /\ chosen[id] # "unsaved" /\ ~SaveQueued(id, saves)
          => local[id].review = chosen[id]
    BY DEF InboxInv, StoredAreChosen
  <2> QED  BY <2>1, <2>2, LoadedReview
<1> QED  BY <1>1, InboxInvariant, NothingGoesMissing, PTL
=============================================================================
