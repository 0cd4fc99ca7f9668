--------------------------- MODULE ManifestProofs ---------------------------
(***************************************************************************)
(* Proofs about what a form publishes on Walrus: WalrusManifest for every  *)
(* number of calls, submissions and blobs, and FormVersions for every      *)
(* number of pages, structures, answers, bundles and versions.             *)
(***************************************************************************)
EXTENDS WalrusManifest, FormVersions, SequenceTheorems, TLAPS

-----------------------------------------------------------------------------
(* WalrusManifest                                                          *)

Calls == [pc : {"idle", "loaded", "written"}, op : Operations, id : Ids \cup {NoSubmission},
          base : Refs, bundle : Refs, next : Manifests]

(* A call that saves or updates knows its submission.                      *)
Writes(call) == call.op \in {"save", "update"}

(* What a call read and uploaded: its base is a blob, and the bundle it    *)
(* wrote carries its submission, the form, and all that its base listed.   *)
LoadedOK(call, bs) ==
  call.pc # "idle" =>
    /\ call.base <= Len(bs)
    /\ Writes(call) => call.id \in Ids
    /\ call.base # NoBlob => bs[call.base].form

WrittenOK(call, bs) ==
  call.pc = "written" =>
    /\ call.bundle \in DOMAIN bs
    /\ Writes(call) => bs[call.bundle].submission = call.id
    /\ ~Writes(call) \/ call.base # NoBlob => bs[call.bundle].form
    /\ Writes(call) /\ call.base # NoBlob => call.id \in DOMAIN bs[call.bundle].manifest
    /\ call.base # NoBlob =>
         DOMAIN bs[call.base].manifest \subseteq DOMAIN bs[call.bundle].manifest

NextOK(call, bs) == \A id \in DOMAIN call.next : call.next[id] <= Len(bs)

CallOK(call, bs) == LoadedOK(call, bs) /\ WrittenOK(call, bs) /\ NextOK(call, bs)

CallsOK == \A t \in Tasks : CallOK(task[t], blobs)

(* A manifest only refers to blobs that are there.                         *)
BlobsOK == \A b \in DOMAIN blobs : \A id \in DOMAIN blobs[b].manifest :
             blobs[b].manifest[id] <= Len(blobs)

(* Without a fork nothing is reported before there is a manifest.          *)
NothingBefore == ~forked /\ manifestAt = NoBlob => committed = {}

ManifestInv ==
  /\ ManifestTypeOK /\ BlobsOK /\ CallsOK /\ NothingBefore
  /\ IndexNamesACarrier /\ CommittedStaysReachable /\ OnlyForksLoseEntries

-----------------------------------------------------------------------------
LEMMA ManifestShape ==
  \A m : m \in Manifests <=> DOMAIN m \subseteq Ids /\ m \in [DOMAIN m -> Refs]
BY DEF Manifests

LEMMA EntryShape ==
  ASSUME NEW m \in Manifests, NEW id \in Ids, NEW ref \in Refs,
         NEW w, w = WithEntryFor(id, ref, m)
  PROVE  /\ w \in Manifests
         /\ DOMAIN w = DOMAIN m \cup {id}
         /\ \A x \in DOMAIN w : (x = id => w[x] = ref) /\ (x # id => w[x] = m[x])
<1>1. /\ DOMAIN w = DOMAIN m \cup {id}
      /\ \A x \in DOMAIN w : (x = id => w[x] = ref) /\ (x # id => w[x] = m[x])
      /\ w = [x \in DOMAIN w |-> w[x]]
  BY DEF WithEntryFor
<1>2. DOMAIN m \subseteq Ids /\ \A x \in DOMAIN m : m[x] \in Refs
  BY ManifestShape
<1>3. w \in [DOMAIN w -> Refs] /\ DOMAIN w \subseteq Ids
  BY <1>1, <1>2
<1>4. w \in Manifests
  BY <1>3, ManifestShape
<1> QED  BY <1>1, <1>4

LEMMA PatchedShape ==
  ASSUME NEW m \in Manifests, NEW ref \in Refs
  PROVE  /\ Patched(m, ref) \in Manifests
         /\ \A x \in DOMAIN Patched(m, ref) : x \in DOMAIN m /\ Patched(m, ref)[x] \in {m[x], ref}
<1> DEFINE p == Patched(m, ref)
<1>1. DOMAIN p = DOMAIN m /\ \A x \in DOMAIN m : p[x] \in {m[x], ref}
  BY DEF Patched
<1>2. p = [x \in DOMAIN p |-> p[x]]
  BY DEF Patched
<1>3. DOMAIN m \subseteq Ids /\ \A x \in DOMAIN m : m[x] \in Refs
  BY ManifestShape
<1> HIDE DEF p
<1>4. p \in [DOMAIN p -> Refs] /\ DOMAIN p \subseteq Ids
  BY <1>1, <1>2, <1>3
<1>5. p \in Manifests
  BY <1>4, ManifestShape
<1> QED  BY <1>1, <1>5 DEF p

LEMMA IndexedShape ==
  ASSUME NEW m \in Manifests
  PROVE  /\ IndexedBy(m) \in Manifests
         /\ \A x \in DOMAIN IndexedBy(m) : x \in DOMAIN m /\ IndexedBy(m)[x] = m[x] /\ m[x] # NoBlob
<1> DEFINE p == IndexedBy(m)
<1>1. \A x \in DOMAIN p : x \in DOMAIN m /\ p[x] = m[x] /\ m[x] # NoBlob
  BY DEF IndexedBy
<1>2. p = [x \in DOMAIN p |-> p[x]]
  BY DEF IndexedBy
<1>3. DOMAIN m \subseteq Ids /\ \A x \in DOMAIN m : m[x] \in Refs
  BY ManifestShape
<1> HIDE DEF p
<1>4. p \in [DOMAIN p -> Refs] /\ DOMAIN p \subseteq Ids
  BY <1>1, <1>2, <1>3
<1>5. p \in Manifests
  BY <1>4, ManifestShape
<1> QED  BY <1>1, <1>5 DEF p

LEMMA EmptyShape == EmptyManifest \in Manifests /\ DOMAIN EmptyManifest = {}
BY ManifestShape DEF EmptyManifest

LEMMA References ==
  ASSUME ManifestTypeOK
  PROVE  /\ Len(blobs) \in Nat /\ DOMAIN blobs = 1 .. Len(blobs) /\ Len(blobs) <= MaxBlobs
         /\ \A b \in DOMAIN blobs : blobs[b] \in Blobs /\ blobs[b].manifest \in Manifests
         /\ \A t \in Tasks : task[t] \in Calls /\ task[t].base \in Refs
                             /\ task[t].bundle \in Refs /\ task[t].next \in Manifests
                             /\ task[t].op \in Operations
         /\ task \in [Tasks -> Calls]
         /\ \A r \in Refs : r <= Len(blobs) /\ r # NoBlob => r \in DOMAIN blobs
         /\ DOMAIN blobs \subseteq Refs /\ NoBlob = 0 /\ NoBlob \in Refs
<1>1. Len(blobs) \in Nat /\ DOMAIN blobs = 1 .. Len(blobs) /\ Len(blobs) <= MaxBlobs
  BY LenProperties DEF ManifestTypeOK
<1>2. \A b \in DOMAIN blobs : blobs[b] \in Blobs
  BY <1>1, ElementOfSeq DEF ManifestTypeOK
<1>3. \A b \in DOMAIN blobs : blobs[b].manifest \in Manifests
  BY <1>2 DEF Blobs
<1>4. task \in [Tasks -> Calls]
  BY DEF ManifestTypeOK, Calls
<1>5. \A t \in Tasks : /\ task[t] \in Calls /\ task[t].base \in Refs
                       /\ task[t].bundle \in Refs /\ task[t].next \in Manifests
                       /\ task[t].op \in Operations
  BY <1>4 DEF Calls
<1> QED  BY <1>1, <1>2, <1>3, <1>4, <1>5, ManifestAssumption DEF Refs, BlobIds, NoBlob

-----------------------------------------------------------------------------
(* bs2 is bs with at most more blobs at its end.                           *)
Extends(bs2, bs) ==
  /\ Len(bs) \in Nat /\ Len(bs2) \in Nat /\ Len(bs) <= Len(bs2)
  /\ DOMAIN bs = 1 .. Len(bs) /\ DOMAIN bs2 = 1 .. Len(bs2)
  /\ \A b \in DOMAIN bs : bs2[b] = bs[b]

(* Blobs never change, so what a call knew of them stays true.             *)
LEMMA CallStaysOK ==
  ASSUME NEW bs, NEW bs2, Extends(bs2, bs), NEW call \in Calls, CallOK(call, bs)
  PROVE  CallOK(call, bs2)
<1> USE DEF Extends
<1>1. call.base \in Refs /\ call.next \in Manifests
  BY DEF Calls
<1>2. call.pc # "idle" /\ call.base # NoBlob => call.base \in DOMAIN bs
  BY <1>1, ManifestAssumption DEF CallOK, LoadedOK, Refs, BlobIds, NoBlob
<1>3. LoadedOK(call, bs2)
  BY <1>1, <1>2, ManifestAssumption DEF CallOK, LoadedOK, Refs, BlobIds, NoBlob
<1>4. WrittenOK(call, bs2)
  BY <1>2 DEF CallOK, WrittenOK
<1>5. NextOK(call, bs2)
  <2>1. \A id \in DOMAIN call.next : call.next[id] \in Nat
    BY <1>1, ManifestShape, ManifestAssumption DEF Refs, BlobIds, NoBlob
  <2> QED  BY <2>1 DEF CallOK, NextOK
<1> QED  BY <1>3, <1>4, <1>5 DEF CallOK

LEMMA CallsMove ==
  ASSUME ManifestTypeOK, CallsOK, NEW t \in Tasks, NEW n \in Calls,
         task' = [task EXCEPT ![t] = n], Extends(blobs', blobs), CallOK(n, blobs')
  PROVE  task' \in [Tasks -> Calls] /\ CallsOK' /\ task'[t] = n
<1>1. /\ task' \in [Tasks -> Calls] /\ task'[t] = n
      /\ \A u \in Tasks \ {t} : task'[u] = task[u] /\ task[u] \in Calls
  BY References
<1>2. \A u \in Tasks : CallOK(task'[u], blobs')
  BY <1>1, CallStaysOK DEF CallsOK
<1> QED  BY <1>1, <1>2 DEF CallsOK

LEMMA SameBlobs ==
  ASSUME ManifestTypeOK, UNCHANGED blobs PROVE Extends(blobs', blobs)
BY References DEF Extends

LEMMA IdleIsOK ==
  /\ IdleTask \in Calls /\ \A bs : CallOK(IdleTask, bs)
BY EmptyShape, ManifestAssumption
   DEF IdleTask, Calls, Operations, Refs, NoBlob, CallOK, LoadedOK, WrittenOK, NextOK

(* An upload puts one more blob at the end.                                *)
LEMMA UploadExtends ==
  ASSUME ManifestTypeOK, BlobsOK, NEW content \in Blobs, Uploaded(content),
         \A id \in DOMAIN content.manifest : content.manifest[id] <= Len(blobs)
  PROVE  /\ blobs' \in Seq(Blobs) /\ Len(blobs') <= MaxBlobs /\ Len(blobs') = Len(blobs) + 1
         /\ Extends(blobs', blobs) /\ BlobsOK'
         /\ BundleId \in DOMAIN blobs' /\ BundleId \in Refs /\ BundleId = Len(blobs')
         /\ BundleId # NoBlob /\ blobs'[BundleId] = content
<1>1. blobs \in Seq(Blobs) /\ Len(blobs) \in Nat /\ DOMAIN blobs = 1 .. Len(blobs)
  BY References DEF ManifestTypeOK
<1>2. /\ blobs' \in Seq(Blobs) /\ Len(blobs') = Len(blobs) + 1
      /\ \A b \in 1 .. Len(blobs) : blobs'[b] = blobs[b]
      /\ blobs'[Len(blobs) + 1] = content /\ Len(blobs) < MaxBlobs
  BY <1>1, AppendProperties DEF Uploaded
<1>3. DOMAIN blobs' = 1 .. Len(blobs')
  BY <1>2, LenProperties
<1>4. Extends(blobs', blobs)
  BY <1>1, <1>2, <1>3 DEF Extends
<1>5. BlobsOK'
  <2> SUFFICES ASSUME NEW b \in DOMAIN blobs', NEW id \in DOMAIN blobs'[b].manifest
               PROVE  blobs'[b].manifest[id] <= Len(blobs')
    BY DEF BlobsOK
  <2>1. blobs'[b] \in Blobs
    BY <1>2, <1>3, ElementOfSeq
  <2>2. blobs'[b].manifest[id] \in Nat
    <3>1. blobs'[b].manifest \in Manifests
      BY <2>1 DEF Blobs
    <3> QED  BY <3>1, ManifestShape, ManifestAssumption DEF Refs, BlobIds, NoBlob
  <2>3. blobs'[b].manifest[id] <= Len(blobs)
    <3>1. CASE b \in DOMAIN blobs
      BY <1>1, <1>2, <3>1 DEF BlobsOK
    <3>2. CASE b = Len(blobs) + 1
      BY <1>2, <3>2
    <3> QED  BY <1>1, <1>2, <1>3, <3>1, <3>2
  <2> QED  BY <1>1, <1>2, <2>2, <2>3
<1> QED  BY <1>1, <1>2, <1>3, <1>4, <1>5, ManifestAssumption DEF BundleId, Refs, BlobIds, NoBlob

(* The invariants that do not speak of calls survive an upload.            *)
LEMMA IndexRests ==
  ASSUME ManifestInv, Extends(blobs', blobs), blobs' \in Seq(Blobs), Len(blobs') <= MaxBlobs,
         task' \in [Tasks -> Calls],
         UNCHANGED <<manifestAt, submissionAt, local, committed, forked>>
  PROVE  /\ ManifestTypeOK' /\ NothingBefore'
         /\ (IndexNamesACarrier /\ CommittedStaysReachable /\ OnlyForksLoseEntries)'
<1> USE DEF ManifestInv
<1>1. /\ manifestAt # NoBlob => manifestAt \in DOMAIN blobs
      /\ \A id \in Ids : local[id] # NoBlob => local[id] \in DOMAIN blobs
  BY References DEF ManifestTypeOK
<1>2. Len(blobs) \in Nat /\ Len(blobs') \in Nat /\ Len(blobs) <= Len(blobs')
      /\ DOMAIN blobs \subseteq DOMAIN blobs' /\ \A b \in DOMAIN blobs : blobs'[b] = blobs[b]
  BY DEF Extends
<1>3. manifestAt \in Nat /\ \A id \in Ids : local[id] \in Nat
  BY ManifestAssumption DEF ManifestTypeOK, Refs, BlobIds, NoBlob
<1>4. ManifestTypeOK'
  BY <1>2, <1>3 DEF ManifestTypeOK, Calls
<1>5. NothingBefore' /\ IndexNamesACarrier' /\ OnlyForksLoseEntries'
  BY <1>1, <1>2 DEF NothingBefore, IndexNamesACarrier, OnlyForksLoseEntries
<1>6. CommittedStaysReachable'
  BY <1>1, <1>2 DEF CommittedStaysReachable, ManifestTypeOK
<1> QED  BY <1>4, <1>5, <1>6

-----------------------------------------------------------------------------
LEMMA ManifestInitInv == Init => ManifestInv
<1> SUFFICES ASSUME Init PROVE ManifestInv
  OBVIOUS
<1>1. blobs = <<>> /\ blobs \in Seq(Blobs) /\ Len(blobs) = 0 /\ DOMAIN blobs = {}
  BY DEF Init
<1>2. task \in [Tasks -> Calls] /\ \A t \in Tasks : task[t] = IdleTask
  BY IdleIsOK DEF Init
<1>3. ManifestTypeOK
  <2>1. NoBlob \in Refs /\ NoBlob <= Len(blobs) /\ Len(blobs) <= MaxBlobs
    BY <1>1, ManifestAssumption DEF Refs, NoBlob
  <2>2. local \in [Ids -> Refs] /\ \A id \in Ids : local[id] = NoBlob
    BY <2>1 DEF Init
  <2>3. submissionAt \in Manifests /\ DOMAIN submissionAt = {} /\ manifestAt = NoBlob
    BY EmptyShape DEF Init
  <2> QED  BY <1>1, <1>2, <2>1, <2>2, <2>3 DEF Init, ManifestTypeOK, Calls
<1>4. CallsOK
  BY <1>2, IdleIsOK DEF CallsOK
<1> QED
  BY <1>1, <1>3, <1>4 DEF Init, ManifestInv, BlobsOK, NothingBefore, IndexNamesACarrier,
                          CommittedStaysReachable, OnlyForksLoseEntries

(* A call that only reads or gives up.                                     *)
LEMMA CallOnly ==
  ASSUME ManifestInv, NEW t \in Tasks, NEW n \in Calls, task' = [task EXCEPT ![t] = n],
         CallOK(n, blobs), UNCHANGED <<blobs, manifestAt, submissionAt, local, committed, forked>>
  PROVE  ManifestInv'
<1> USE DEF ManifestInv
<1>1. Extends(blobs', blobs)
  BY SameBlobs
<1>2. task' \in [Tasks -> Calls] /\ CallsOK'
  BY <1>1, CallsMove
<1>3. BlobsOK' /\ blobs' \in Seq(Blobs) /\ Len(blobs') <= MaxBlobs
  BY DEF BlobsOK, ManifestTypeOK
<1> QED  BY <1>1, <1>2, <1>3, IndexRests

LEMMA LoadInv ==
  ASSUME ManifestInv, NEW t \in Tasks, NEW op \in Operations, NEW id \in Ids \cup {NoSubmission},
         op \in {"save", "update"} => id \in Ids, Load(t, op, id)
  PROVE  ManifestInv'
<1> USE DEF ManifestInv
<1> DEFINE n == [IdleTask EXCEPT !.pc = "loaded", !.op = op, !.id = id, !.base = manifestAt]
<1>1. ASSUME NEW o \in Calls, NEW m,
             m = [o EXCEPT !.pc = "loaded", !.op = op, !.id = id, !.base = manifestAt]
      PROVE  m \in Calls /\ m.pc = "loaded" /\ m.op = op /\ m.id = id /\ m.base = manifestAt
             /\ m.next = o.next
  BY <1>1 DEF Calls, ManifestTypeOK
<1>2. /\ n \in Calls /\ n.pc = "loaded" /\ n.op = op /\ n.id = id /\ n.base = manifestAt
      /\ n.next = IdleTask.next
  BY <1>1, IdleIsOK
<1>3. task' = [task EXCEPT ![t] = n]
  BY DEF Load
<1> HIDE DEF n
<1>4. DOMAIN n.next = {}
  BY <1>2, EmptyShape DEF IdleTask
<1>5. CallOK(n, blobs)
  BY <1>2, <1>4 DEF CallOK, LoadedOK, WrittenOK, NextOK, Writes, ManifestTypeOK, IndexNamesACarrier
<1> QED  BY <1>2, <1>3, <1>5, CallOnly DEF Load

LEMMA LoadsInv ==
  ASSUME ManifestInv, NEW t \in Tasks, LoadForSave(t) \/ LoadForUpdate(t) \/ LoadForPublish(t)
  PROVE  ManifestInv'
<1>1. CASE LoadForSave(t)
  BY <1>1, LoadInv DEF LoadForSave, Operations
<1>2. CASE LoadForUpdate(t)
  BY <1>2, LoadInv DEF LoadForUpdate, Operations
<1>3. CASE LoadForPublish(t)
  BY <1>3, LoadInv DEF LoadForPublish, Operations
<1> QED  BY <1>1, <1>2, <1>3

LEMMA AbandonInv == ASSUME ManifestInv, NEW t \in Tasks, Abandon(t) PROVE ManifestInv'
BY IdleIsOK, CallOnly DEF Abandon

(* From here on the index is forked, and only types and carriers count.    *)
LEMMA ForkedRests ==
  ASSUME ManifestInv, blobs' = blobs, committed' = committed, UNCHANGED local, forked' = TRUE,
         manifestAt' \in Refs, manifestAt' <= Len(blobs),
         manifestAt' # NoBlob => blobs[manifestAt'].form,
         UNCHANGED submissionAt, task' \in [Tasks -> Calls], CallsOK'
  PROVE  ManifestInv'
<1> USE DEF ManifestInv
<1>1. ManifestTypeOK'
  BY DEF ManifestTypeOK, Calls
<1>2. (BlobsOK /\ NothingBefore /\ IndexNamesACarrier /\ CommittedStaysReachable
         /\ OnlyForksLoseEntries)'
  BY DEF BlobsOK, NothingBefore, IndexNamesACarrier, CommittedStaysReachable, OnlyForksLoseEntries
<1> QED  BY <1>1, <1>2

LEMMA PublishWithoutManifestInv ==
  ASSUME ManifestInv, NEW t \in Tasks, PublishWithoutManifest(t) PROVE ManifestInv'
<1> USE DEF ManifestInv
<1> DEFINE n == [IdleTask EXCEPT !.pc = "loaded", !.op = "publish"]
<1>1. ASSUME NEW o \in Calls, NEW m, m = [o EXCEPT !.pc = "loaded", !.op = "publish"]
      PROVE  m \in Calls /\ m.pc = "loaded" /\ m.op = "publish" /\ m.base = o.base /\ m.next = o.next
  BY <1>1 DEF Calls, Operations
<1>2. n \in Calls /\ n.pc = "loaded" /\ n.op = "publish" /\ n.base = NoBlob /\ n.next = EmptyManifest
  BY <1>1, IdleIsOK DEF IdleTask
<1>3. task' = [task EXCEPT ![t] = n]
  BY DEF PublishWithoutManifest
<1> HIDE DEF n
<1>4. CallOK(n, blobs)
  BY <1>2, EmptyShape, References
     DEF CallOK, LoadedOK, WrittenOK, NextOK, Writes
<1>5. task' \in [Tasks -> Calls] /\ CallsOK'
  <2>1. CallOK(n, blobs')
    BY <1>4 DEF PublishWithoutManifest
  <2> QED  BY <1>2, <1>3, <2>1, CallsMove, SameBlobs DEF PublishWithoutManifest
<1> QED  BY <1>5, ForkedRests DEF PublishWithoutManifest, ManifestTypeOK, IndexNamesACarrier

LEMMA FollowLinkInv == ASSUME ManifestInv, FollowLink PROVE ManifestInv'
<1>1. PICK b \in DOMAIN blobs : blobs[b].form /\ manifestAt' = b
  BY DEF FollowLink
<1>2. b \in Refs /\ b <= Len(blobs)
  BY <1>1, References DEF ManifestInv
<1>3. task' \in [Tasks -> Calls] /\ CallsOK'
  BY References DEF FollowLink, ManifestInv, CallsOK
<1> QED  BY <1>1, <1>2, <1>3, ForkedRests DEF FollowLink

-----------------------------------------------------------------------------
(* A call whose upload is done.                                            *)
LEMMA WriteInv ==
  ASSUME ManifestInv, NEW t \in Tasks, NEW content \in Blobs, Uploaded(content),
         \A id \in DOMAIN content.manifest : content.manifest[id] <= Len(blobs),
         NEW n \in Calls, task' = [task EXCEPT ![t] = n], CallOK(n, blobs'),
         UNCHANGED <<manifestAt, submissionAt, local, committed, forked>>
  PROVE  ManifestInv'
<1>1. /\ blobs' \in Seq(Blobs) /\ Len(blobs') <= MaxBlobs
      /\ Extends(blobs', blobs) /\ BlobsOK'
  BY UploadExtends DEF ManifestInv
<1>2. task' \in [Tasks -> Calls] /\ CallsOK'
  BY <1>1, CallsMove DEF ManifestInv
<1> QED  BY <1>1, <1>2, IndexRests DEF ManifestInv

(* What a call holds while its upload is under way.                        *)
LEMMA BaseManifest ==
  ASSUME ManifestInv, NEW t \in Tasks, task[t].pc = "loaded"
  PROVE  /\ ManifestOf(task[t].base) \in Manifests
         /\ \A id \in DOMAIN ManifestOf(task[t].base) : ManifestOf(task[t].base)[id] <= Len(blobs)
         /\ task[t].base # NoBlob => /\ task[t].base \in DOMAIN blobs
                                     /\ blobs[task[t].base].form
                                     /\ ManifestOf(task[t].base) = blobs[task[t].base].manifest
<1>1. task[t].base <= Len(blobs) /\ (task[t].base # NoBlob => blobs[task[t].base].form)
  BY DEF ManifestInv, CallsOK, CallOK, LoadedOK
<1> QED  BY <1>1, References, EmptyShape DEF ManifestInv, ManifestOf, BlobsOK

LEMMA WriteBundleInv == ASSUME ManifestInv, NEW t \in Tasks, WriteBundle(t) PROVE ManifestInv'
<1> DEFINE call == task[t]
           next == NextManifest(ManifestOf(call.base), call.id)
           content == [submission |-> call.id, manifest |-> next, form |-> TRUE]
           n == [call EXCEPT !.pc = "written", !.bundle = BundleId, !.next = Patched(next, BundleId)]
<1>1. call \in Calls /\ call.id \in Ids /\ call.base # NoBlob /\ call.pc = "loaded"
        /\ call.op \in {"save", "update"} /\ call.base <= Len(blobs)
  BY References DEF WriteBundle, ManifestInv, CallsOK, CallOK, LoadedOK, Writes
<1>2. /\ ManifestOf(call.base) \in Manifests /\ ManifestOf(call.base) = blobs[call.base].manifest
      /\ \A id \in DOMAIN ManifestOf(call.base) : ManifestOf(call.base)[id] <= Len(blobs)
      /\ call.base \in DOMAIN blobs /\ blobs[call.base].form
  BY <1>1, BaseManifest
<1>3. Len(blobs) \in Nat /\ NoBlob = 0 /\ NoBlob \in Refs
  BY References DEF ManifestInv
<1>4. /\ next \in Manifests /\ DOMAIN next = DOMAIN ManifestOf(call.base) \cup {call.id}
      /\ \A id \in DOMAIN next : next[id] <= Len(blobs)
  <2> DEFINE id == call.id
             base == ManifestOf(call.base)
  <2>1. next = WithEntryFor(id, NoBlob, base) /\ id \in Ids /\ base \in Manifests
    BY <1>1, <1>2 DEF NextManifest
  <2>3. \A x \in DOMAIN base : base[x] <= Len(blobs)
    BY <1>2
  <2> HIDE DEF next, id, base
  <2>2. next \in Manifests
    BY <1>3, <2>1, EntryShape
  <2>4. DOMAIN next = DOMAIN base \cup {id}
    BY <1>3, <2>1, EntryShape
  <2>5. \A x \in DOMAIN next : (x = id => next[x] = NoBlob) /\ (x # id => next[x] = base[x])
    BY <2>1, <2>4 DEF WithEntryFor
  <2> QED  BY <1>3, <2>2, <2>3, <2>4, <2>5 DEF id, base
<1> HIDE DEF next
<1>5. content \in Blobs /\ content.submission = call.id /\ content.manifest = next /\ content.form
  BY <1>1, <1>4 DEF Blobs
<1>6. Uploaded(content)
  BY DEF WriteBundle, next
<1>7. /\ Extends(blobs', blobs) /\ BundleId \in DOMAIN blobs' /\ BundleId \in Refs
      /\ BundleId = Len(blobs') /\ BundleId # NoBlob /\ blobs'[BundleId] = content
  <2> HIDE DEF content
  <2> QED  BY <1>4, <1>5, <1>6, UploadExtends DEF ManifestInv
<1>8. /\ Patched(next, BundleId) \in Manifests
      /\ \A id \in DOMAIN Patched(next, BundleId) : Patched(next, BundleId)[id] <= Len(blobs')
  <2> DEFINE patched == Patched(next, BundleId)
  <2>1. /\ patched \in Manifests
        /\ \A id \in DOMAIN patched : id \in DOMAIN next /\ patched[id] \in {next[id], BundleId}
    BY <1>4, <1>7, PatchedShape
  <2>2. \A id \in DOMAIN next : next[id] \in Nat
    BY <1>4, ManifestShape, ManifestAssumption DEF Refs, BlobIds, NoBlob
  <2> HIDE DEF patched
  <2>3. \A id \in DOMAIN patched : patched[id] <= Len(blobs')
    BY <1>3, <1>4, <1>7, <2>1, <2>2 DEF BundleId
  <2> QED  BY <2>1, <2>3 DEF patched
<1>9. ASSUME NEW o \in Calls, NEW m, NEW patched \in Manifests,
             m = [o EXCEPT !.pc = "written", !.bundle = BundleId, !.next = patched]
      PROVE  m \in Calls /\ m.pc = "written" /\ m.bundle = BundleId /\ m.next = patched
             /\ m.op = o.op /\ m.id = o.id /\ m.base = o.base
  BY <1>7, <1>9 DEF Calls
<1>10. /\ n \in Calls /\ n.pc = "written" /\ n.bundle = BundleId /\ n.next = Patched(next, BundleId)
       /\ n.op = call.op /\ n.id = call.id /\ n.base = call.base
  <2>1. n = [call EXCEPT !.pc = "written", !.bundle = BundleId, !.next = Patched(next, BundleId)]
    OBVIOUS
  <2>2. call \in Calls /\ Patched(next, BundleId) \in Manifests
    BY <1>1, <1>8
  <2> HIDE DEF n, call
  <2> QED  BY <1>9, <2>1, <2>2, Zenon
<1>11. task' = [task EXCEPT ![t] = n]
  BY References DEF WriteBundle, next, ManifestInv
<1>12. UNCHANGED <<manifestAt, submissionAt, local, committed, forked>>
  BY DEF WriteBundle
<1> HIDE DEF n, content, call
<1>13. blobs'[n.base] = blobs[n.base]
  BY <1>2, <1>7, <1>10 DEF Extends
<1>14. CallOK(n, blobs')
  <2>1. LoadedOK(n, blobs')
    BY <1>1, <1>2, <1>3, <1>7, <1>10, <1>13 DEF LoadedOK, Extends
  <2>2. WrittenOK(n, blobs')
    BY <1>1, <1>2, <1>4, <1>5, <1>7, <1>10, <1>13 DEF WrittenOK
  <2>3. NextOK(n, blobs')
    BY <1>8, <1>10 DEF NextOK
  <2> QED  BY <2>1, <2>2, <2>3 DEF CallOK
<1> QED  BY <1>4, <1>5, <1>6, <1>10, <1>11, <1>12, <1>14, WriteInv

(* A record or a form that is uploaded without the patch of an entry.      *)
LEMMA WritePlain ==
  ASSUME ManifestInv, NEW t \in Tasks, task[t].pc = "loaded", NEW content \in Blobs, Uploaded(content),
         \A id \in DOMAIN content.manifest : content.manifest[id] <= Len(blobs),
         task' = [task EXCEPT ![t].pc = "written", ![t].bundle = BundleId],
         UNCHANGED <<manifestAt, submissionAt, local, committed, forked>>,
         Writes(task[t]) => task[t].base = NoBlob /\ content.submission = task[t].id,
         ~Writes(task[t]) => content.form /\ content.manifest = ManifestOf(task[t].base)
  PROVE  ManifestInv'
<1> DEFINE call == task[t]
           n == [call EXCEPT !.pc = "written", !.bundle = BundleId]
<1>1. call \in Calls /\ LoadedOK(call, blobs) /\ NextOK(call, blobs)
  BY References DEF ManifestInv, CallsOK, CallOK
<1>2. call.base # NoBlob => /\ call.base \in DOMAIN blobs /\ blobs[call.base].form
                            /\ ManifestOf(call.base) = blobs[call.base].manifest
  BY BaseManifest
<1>3. /\ Extends(blobs', blobs) /\ BundleId \in DOMAIN blobs' /\ BundleId \in Refs
      /\ BundleId = Len(blobs') /\ BundleId # NoBlob /\ blobs'[BundleId] = content
  BY UploadExtends DEF ManifestInv
<1>4. ASSUME NEW o \in Calls, NEW m, m = [o EXCEPT !.pc = "written", !.bundle = BundleId]
      PROVE  m \in Calls /\ m.pc = "written" /\ m.bundle = BundleId /\ m.next = o.next
             /\ m.op = o.op /\ m.id = o.id /\ m.base = o.base
  BY <1>3, <1>4 DEF Calls
<1>5. /\ n \in Calls /\ n.pc = "written" /\ n.bundle = BundleId /\ n.next = call.next
      /\ n.op = call.op /\ n.id = call.id /\ n.base = call.base
  <2>1. n = [call EXCEPT !.pc = "written", !.bundle = BundleId]
    OBVIOUS
  <2> HIDE DEF n, call
  <2> QED  BY <1>1, <1>4, <2>1
<1>6. task' = [task EXCEPT ![t] = n]
  BY References DEF ManifestInv
<1>7. call.pc = "loaded" /\ (Writes(call) <=> Writes(n)) /\ n.base \in Refs /\ n.next \in Manifests
  BY <1>5 DEF Writes, Calls
<1> HIDE DEF n
<1>8. n.base # NoBlob => blobs'[n.base] = blobs[n.base]
  BY <1>2, <1>3, <1>5 DEF Extends
<1>9. Len(blobs) \in Nat /\ Len(blobs') \in Nat /\ Len(blobs) <= Len(blobs')
  BY <1>3 DEF Extends
<1>10. LoadedOK(n, blobs')
  <2>1. n.base \in Nat
    BY <1>7, ManifestAssumption DEF Refs, BlobIds, NoBlob
  <2> QED  BY <1>1, <1>5, <1>7, <1>8, <1>9, <2>1 DEF LoadedOK
<1>11. WrittenOK(n, blobs')
  BY <1>2, <1>3, <1>5, <1>7, <1>8 DEF WrittenOK
<1>12. NextOK(n, blobs')
  <2>1. \A id \in DOMAIN n.next : n.next[id] \in Nat
    BY <1>7, ManifestShape, ManifestAssumption DEF Refs, BlobIds, NoBlob
  <2> QED  BY <1>1, <1>5, <1>9, <2>1 DEF NextOK
<1> QED  BY <1>5, <1>6, <1>10, <1>11, <1>12, WriteInv DEF CallOK

LEMMA WriteRecordInv == ASSUME ManifestInv, NEW t \in Tasks, WriteRecord(t) PROVE ManifestInv'
<1> DEFINE content == [submission |-> task[t].id, manifest |-> EmptyManifest, form |-> FALSE]
<1>1. task[t].id \in Ids
  BY DEF WriteRecord, ManifestInv, CallsOK, CallOK, LoadedOK, Writes
<1>2. content \in Blobs /\ content.submission = task[t].id /\ DOMAIN content.manifest = {}
  BY <1>1, EmptyShape DEF Blobs
<1>3. /\ Uploaded(content) /\ task[t].pc = "loaded" /\ task[t].base = NoBlob /\ Writes(task[t])
      /\ task' = [task EXCEPT ![t].pc = "written", ![t].bundle = BundleId]
      /\ UNCHANGED <<manifestAt, submissionAt, local, committed, forked>>
  BY DEF WriteRecord, Writes
<1> HIDE DEF content
<1> QED  BY <1>2, <1>3, WritePlain

LEMMA WriteFormInv == ASSUME ManifestInv, NEW t \in Tasks, WriteForm(t) PROVE ManifestInv'
<1> DEFINE content == [submission |-> NoSubmission, manifest |-> ManifestOf(task[t].base), form |-> TRUE]
<1>1. /\ Uploaded(content) /\ task[t].pc = "loaded" /\ ~Writes(task[t])
      /\ task' = [task EXCEPT ![t].pc = "written", ![t].bundle = BundleId]
      /\ UNCHANGED <<manifestAt, submissionAt, local, committed, forked>>
  BY DEF WriteForm, Writes
<1>2. /\ content \in Blobs /\ content.form /\ content.manifest = ManifestOf(task[t].base)
      /\ \A id \in DOMAIN content.manifest : content.manifest[id] <= Len(blobs)
  BY <1>1, BaseManifest DEF Blobs
<1> HIDE DEF content
<1> QED  BY <1>1, <1>2, WritePlain

-----------------------------------------------------------------------------
(* A call that ends after its upload: the types that change are those of   *)
(* the index and the local copies.                                         *)
LEMMA CommitTypes ==
  ASSUME ManifestInv, NEW t \in Tasks, Done(t), UNCHANGED blobs,
         manifestAt' \in Refs, manifestAt' <= Len(blobs),
         submissionAt' \in Manifests,
         \A id \in DOMAIN submissionAt' : submissionAt'[id] \in DOMAIN blobs,
         local' \in [Ids -> Refs], \A id \in Ids : local'[id] <= Len(blobs),
         committed' \subseteq Ids, forked' \in BOOLEAN
  PROVE  ManifestTypeOK' /\ BlobsOK' /\ CallsOK'
<1>1. task' \in [Tasks -> Calls] /\ CallsOK'
  BY IdleIsOK, CallsMove, SameBlobs DEF ManifestInv, Done
<1> QED  BY <1>1 DEF ManifestInv, ManifestTypeOK, BlobsOK, Calls

(* What a call that has written its bundle may move the index to.          *)
LEMMA WrittenCall ==
  ASSUME ManifestInv, NEW t \in Tasks, task[t].pc = "written"
  PROVE  /\ task[t].bundle \in DOMAIN blobs /\ task[t].bundle \in Refs
         /\ task[t].bundle <= Len(blobs) /\ task[t].bundle # NoBlob
         /\ WrittenOK(task[t], blobs) /\ LoadedOK(task[t], blobs)
         /\ IndexedBy(task[t].next) \in Manifests
         /\ \A id \in DOMAIN IndexedBy(task[t].next) : IndexedBy(task[t].next)[id] \in DOMAIN blobs
<1>1. CallOK(task[t], blobs) /\ task[t].next \in Manifests
  BY References DEF ManifestInv, CallsOK
<1>2. task[t].bundle \in DOMAIN blobs /\ task[t].bundle \in Refs
  BY <1>1, References DEF ManifestInv, CallOK, WrittenOK
<1>3. \A id \in DOMAIN task[t].next : task[t].next[id] \in Refs /\ task[t].next[id] <= Len(blobs)
  BY <1>1, ManifestShape DEF CallOK, NextOK
<1> QED  BY <1>1, <1>2, <1>3, IndexedShape, References DEF ManifestInv, CallOK

LEMMA KeptReachable ==
  ASSUME ManifestInv, UNCHANGED blobs, NEW id \in Ids, NEW b \in DOMAIN blobs, b \in Refs, b # NoBlob,
         blobs[b].submission = id, Keep(id, b), committed' = committed \cup {id}
  PROVE  /\ local' \in [Ids -> Refs] /\ \A i \in Ids : local'[i] <= Len(blobs)
         /\ committed' \subseteq Ids /\ CommittedStaysReachable'
BY References DEF ManifestInv, ManifestTypeOK, Keep, CommittedStaysReachable

LEMMA CommitBundleInv == ASSUME ManifestInv, NEW t \in Tasks, CommitBundle(t) PROVE ManifestInv'
<1>1. /\ task[t].bundle \in DOMAIN blobs /\ task[t].bundle \in Refs
      /\ task[t].bundle <= Len(blobs) /\ task[t].bundle # NoBlob
      /\ WrittenOK(task[t], blobs) /\ LoadedOK(task[t], blobs)
      /\ submissionAt' \in Manifests
      /\ \A id \in DOMAIN submissionAt' : submissionAt'[id] \in DOMAIN blobs
  BY WrittenCall DEF CommitBundle
<1>2. Writes(task[t]) /\ task[t].base # NoBlob /\ task[t].id \in Ids
  BY <1>1 DEF CommitBundle, Writes, LoadedOK
<1>3. /\ blobs[task[t].bundle].submission = task[t].id /\ blobs[task[t].bundle].form
      /\ {task[t].id} \cup DOMAIN blobs[task[t].base].manifest
           \subseteq DOMAIN blobs[task[t].bundle].manifest
  BY <1>1, <1>2 DEF CommitBundle, WrittenOK
<1>4. manifestAt' = task[t].bundle /\ forked' = (forked \/ manifestAt # task[t].base)
        /\ UNCHANGED blobs /\ Done(t) /\ committed' = committed \cup {task[t].id}
  BY DEF CommitBundle, MoveIndex
<1>5. /\ local' \in [Ids -> Refs] /\ \A i \in Ids : local'[i] <= Len(blobs)
      /\ committed' \subseteq Ids /\ CommittedStaysReachable'
  BY <1>1, <1>2, <1>3, <1>4, KeptReachable DEF CommitBundle
<1>6. forked' \in BOOLEAN
  BY <1>4 DEF ManifestInv, ManifestTypeOK
<1>7. ManifestTypeOK' /\ BlobsOK' /\ CallsOK'
  BY <1>1, <1>4, <1>5, <1>6, CommitTypes
<1>8. NothingBefore' /\ IndexNamesACarrier'
  BY <1>1, <1>3, <1>4 DEF NothingBefore, IndexNamesACarrier
<1>9. OnlyForksLoseEntries'
  BY <1>2, <1>3, <1>4 DEF ManifestInv, OnlyForksLoseEntries
<1> QED  BY <1>5, <1>7, <1>8, <1>9 DEF ManifestInv

LEMMA CommitBundleUnkeptInv == ASSUME ManifestInv, NEW t \in Tasks, CommitBundleUnkept(t) PROVE ManifestInv'
<1>1. /\ task[t].bundle \in DOMAIN blobs /\ task[t].bundle \in Refs
      /\ task[t].bundle <= Len(blobs) /\ task[t].bundle # NoBlob
      /\ WrittenOK(task[t], blobs)
      /\ submissionAt' \in Manifests
      /\ \A id \in DOMAIN submissionAt' : submissionAt'[id] \in DOMAIN blobs
  BY WrittenCall DEF CommitBundleUnkept
<1>2. Writes(task[t]) /\ task[t].base # NoBlob
  BY DEF CommitBundleUnkept, Writes
<1>3. /\ blobs[task[t].bundle].form
      /\ DOMAIN blobs[task[t].base].manifest \subseteq DOMAIN blobs[task[t].bundle].manifest
  BY <1>1, <1>2 DEF CommitBundleUnkept, WrittenOK
<1>4. manifestAt' = task[t].bundle /\ forked' = (forked \/ manifestAt # task[t].base)
        /\ UNCHANGED <<blobs, local, committed>> /\ Done(t)
  BY DEF CommitBundleUnkept, MoveIndex
<1>5. forked' \in BOOLEAN /\ local' \in [Ids -> Refs] /\ committed' \subseteq Ids
        /\ \A i \in Ids : local'[i] <= Len(blobs)
  BY <1>4 DEF ManifestInv, ManifestTypeOK
<1>6. ManifestTypeOK' /\ BlobsOK' /\ CallsOK'
  BY <1>1, <1>4, <1>5, CommitTypes
<1>7. NothingBefore' /\ IndexNamesACarrier' /\ CommittedStaysReachable'
  BY <1>1, <1>3, <1>4 DEF ManifestInv, NothingBefore, IndexNamesACarrier, CommittedStaysReachable
<1>8. OnlyForksLoseEntries'
  BY <1>2, <1>3, <1>4 DEF ManifestInv, OnlyForksLoseEntries
<1> QED  BY <1>6, <1>7, <1>8 DEF ManifestInv

LEMMA CommitRecordInv == ASSUME ManifestInv, NEW t \in Tasks, CommitRecord(t) PROVE ManifestInv'
<1>1. /\ task[t].bundle \in DOMAIN blobs /\ task[t].bundle \in Refs
      /\ task[t].bundle <= Len(blobs) /\ task[t].bundle # NoBlob
      /\ WrittenOK(task[t], blobs) /\ LoadedOK(task[t], blobs)
  BY WrittenCall DEF CommitRecord
<1>2. Writes(task[t]) /\ task[t].id \in Ids /\ blobs[task[t].bundle].submission = task[t].id
  BY <1>1 DEF CommitRecord, Writes, LoadedOK, WrittenOK
<1>3. submissionAt \in Manifests /\ \A id \in DOMAIN submissionAt : submissionAt[id] \in DOMAIN blobs
  BY DEF ManifestInv, ManifestTypeOK
<1>4. /\ submissionAt' \in Manifests
      /\ \A id \in DOMAIN submissionAt' : submissionAt'[id] \in DOMAIN blobs
  <2> DEFINE id == task[t].id
             bundle == task[t].bundle
  <2>1. submissionAt' = WithEntryFor(id, bundle, submissionAt) /\ id \in Ids /\ bundle \in Refs
    BY <1>1, <1>2 DEF CommitRecord
  <2>3. bundle \in DOMAIN blobs
    BY <1>1
  <2> HIDE DEF id, bundle
  <2>2. submissionAt' \in Manifests
    BY <1>3, <2>1, EntryShape
  <2>4. DOMAIN submissionAt' = DOMAIN submissionAt \cup {id}
    BY <1>3, <2>1, EntryShape
  <2>5. \A x \in DOMAIN submissionAt' : /\ x = id => submissionAt'[x] = bundle
                                        /\ x # id => submissionAt'[x] = submissionAt[x]
    BY <2>1, <2>4 DEF WithEntryFor
  <2> QED  BY <1>3, <2>2, <2>3, <2>4, <2>5
<1>5. /\ local' \in [Ids -> Refs] /\ \A i \in Ids : local'[i] <= Len(blobs)
      /\ committed' \subseteq Ids /\ CommittedStaysReachable'
  BY <1>1, <1>2, KeptReachable DEF CommitRecord
<1>6. manifestAt' \in Refs /\ manifestAt' <= Len(blobs) /\ forked' = TRUE
  BY DEF CommitRecord, ManifestInv, ManifestTypeOK
<1>7. ManifestTypeOK' /\ BlobsOK' /\ CallsOK'
  BY <1>4, <1>5, <1>6, CommitTypes DEF CommitRecord
<1>8. NothingBefore' /\ IndexNamesACarrier' /\ OnlyForksLoseEntries'
  BY <1>6 DEF CommitRecord, ManifestInv, NothingBefore, IndexNamesACarrier, OnlyForksLoseEntries
<1> QED  BY <1>5, <1>7, <1>8 DEF ManifestInv

LEMMA CommitFormInv == ASSUME ManifestInv, NEW t \in Tasks, CommitForm(t) PROVE ManifestInv'
<1>1. /\ task[t].bundle \in DOMAIN blobs /\ task[t].bundle \in Refs
      /\ task[t].bundle <= Len(blobs) /\ task[t].bundle # NoBlob
      /\ WrittenOK(task[t], blobs)
  BY WrittenCall DEF CommitForm
<1>2. /\ blobs[task[t].bundle].form
      /\ task[t].base # NoBlob =>
           DOMAIN blobs[task[t].base].manifest \subseteq DOMAIN blobs[task[t].bundle].manifest
  BY <1>1 DEF CommitForm, WrittenOK, Writes
<1>3. manifestAt' = task[t].bundle /\ forked' = (forked \/ manifestAt # task[t].base)
        /\ UNCHANGED <<blobs, submissionAt, local, committed>> /\ Done(t)
  BY DEF CommitForm, MoveIndex
<1>4. ManifestTypeOK' /\ BlobsOK' /\ CallsOK'
  BY <1>1, <1>3, CommitTypes DEF ManifestInv, ManifestTypeOK
<1>5. NothingBefore' /\ IndexNamesACarrier' /\ CommittedStaysReachable'
  BY <1>1, <1>2, <1>3 DEF ManifestInv, NothingBefore, IndexNamesACarrier, CommittedStaysReachable
<1>6. OnlyForksLoseEntries'
  <2> SUFFICES ASSUME ~forked' PROVE committed' \subseteq DOMAIN blobs'[manifestAt'].manifest
    BY DEF OnlyForksLoseEntries
  <2>1. ~forked /\ manifestAt = task[t].base
    BY <1>3
  <2>2. CASE manifestAt = NoBlob
    BY <1>3, <2>1, <2>2 DEF ManifestInv, NothingBefore
  <2>3. CASE manifestAt # NoBlob
    BY <1>2, <1>3, <2>1, <2>3 DEF ManifestInv, OnlyForksLoseEntries
  <2> QED  BY <2>2, <2>3
<1> QED  BY <1>4, <1>5, <1>6 DEF ManifestInv

LEMMA ManifestStepInv == ManifestInv /\ [Next]_vars => ManifestInv'
<1> SUFFICES ASSUME ManifestInv, [Next]_vars PROVE ManifestInv'
  OBVIOUS
<1>1. ASSUME NEW t \in Tasks, LoadForSave(t) \/ LoadForUpdate(t) \/ LoadForPublish(t) PROVE ManifestInv'
  BY <1>1, LoadsInv
<1>2. ASSUME NEW t \in Tasks, PublishWithoutManifest(t) \/ Abandon(t) PROVE ManifestInv'
  BY <1>2, PublishWithoutManifestInv, AbandonInv
<1>3. ASSUME NEW t \in Tasks, WriteBundle(t) \/ WriteRecord(t) \/ WriteForm(t) PROVE ManifestInv'
  BY <1>3, WriteBundleInv, WriteRecordInv, WriteFormInv
<1>4. ASSUME NEW t \in Tasks,
             CommitBundle(t) \/ CommitBundleUnkept(t) \/ CommitRecord(t) \/ CommitForm(t)
      PROVE  ManifestInv'
  BY <1>4, CommitBundleInv, CommitBundleUnkeptInv, CommitRecordInv, CommitFormInv
<1>5. CASE FollowLink
  BY <1>5, FollowLinkInv
<1>6. CASE UNCHANGED vars
  BY <1>6 DEF vars, ManifestInv, ManifestTypeOK, BlobsOK, CallsOK, NothingBefore, IndexNamesACarrier,
              CommittedStaysReachable, OnlyForksLoseEntries
<1> QED  BY <1>1, <1>2, <1>3, <1>4, <1>5, <1>6 DEF Next

LEMMA ManifestInvariant == Spec => []ManifestInv
<1> QED  BY ManifestInitInv, ManifestStepInv, PTL DEF Spec

-----------------------------------------------------------------------------
(* The chain, the index and the calls keep their types, however many calls *)
(* overlap (walrusAdapter.ts, blobIndex.ts).                               *)
THEOREM ManifestTypeCorrect == Spec => []ManifestTypeOK
<1>1. ManifestInv => ManifestTypeOK
  BY DEF ManifestInv
<1> QED  BY <1>1, ManifestInvariant, PTL

(* The index never names a blob the next call cannot go on from            *)
(* (walrusAdapter.ts:1656-1683).                                           *)
THEOREM IndexIsUsable == Spec => []IndexNamesACarrier
<1>1. ManifestInv => IndexNamesACarrier
  BY DEF ManifestInv
<1> QED  BY <1>1, ManifestInvariant, PTL

(* A reported submission has a local copy that names a blob which holds it *)
(* (walrusAdapter.ts:1829-1858).                                           *)
THEOREM ReportedIsReachable == Spec => []CommittedStaysReachable
<1>1. ManifestInv => CommittedStaysReachable
  BY DEF ManifestInv
<1> QED  BY <1>1, ManifestInvariant, PTL

(* Without a fork the manifest the index names lists every reported        *)
(* submission (walrusAdapter.ts:1801-1827).                                *)
THEOREM ForksAlone == Spec => []OnlyForksLoseEntries
<1>1. ManifestInv => OnlyForksLoseEntries
  BY DEF ManifestInv
<1> QED  BY <1>1, ManifestInvariant, PTL

-----------------------------------------------------------------------------
(* FormVersions                                                            *)

VersionMaps == UNION {[vs -> Entry] : vs \in SUBSET Versions}
Manifest == [current : Versions, listed : SUBSET Replies, versions : VersionMaps]
Bundle == [form : [version : Versions, hash : Hashes], manifest : Manifest,
           base : BundleRefs, from : Versions]

(* A bundle is made from an earlier one, or from none.                     *)
BasesExist ==
  /\ \A b \in DOMAIN bundles : bundles[b].base \in 0 .. b - 1
  /\ \A e \in Editors : editor[e].step = "saving" => editor[e].base \in 0 .. Len(bundles)

ListedAreAnswered ==
  \A b \in DOMAIN bundles : \A s \in bundles[b].manifest.listed : answer[s] # NoForm

Names(form) == form.blob \in DOMAIN bundles /\ form = FormAt(form.blob)

(* As long as the local store and the index were written as a pair, both   *)
(* know the same form and answers, and every form was read from a bundle.  *)
PairAgrees ==
  ~parted =>
    /\ index \in DOMAIN bundles
    /\ kept \subseteq bundles[index].manifest.listed
    /\ StoreFollowsIndex
    /\ Names(store)
    /\ \A s \in Replies : page[s] # NoForm => Names(page[s])
    /\ \A s \in Replies : answer[s] # NoForm => Names(answer[s])

VersionsInv ==
  /\ VersionsTypeOK /\ bundles \in Seq(Bundle)
  /\ BasesExist
  /\ CarrierDescribesItself
  /\ ListedAreAnswered
  /\ NewestPageKeepsAnswers
  /\ PairAgrees

-----------------------------------------------------------------------------
(* Manifests *)

LEMMA VersionMapShape ==
  ASSUME NEW m
  PROVE  m \in VersionMaps <=>
           /\ m = [v \in DOMAIN m |-> m[v]]
           /\ DOMAIN m \subseteq Versions
           /\ \A v \in DOMAIN m : m[v] \in Entry
<1>1. ASSUME m \in VersionMaps
      PROVE  m = [v \in DOMAIN m |-> m[v]] /\ DOMAIN m \subseteq Versions
               /\ \A v \in DOMAIN m : m[v] \in Entry
  <2> PICK vs \in SUBSET Versions : m \in [vs -> Entry]
    BY <1>1 DEF VersionMaps
  <2> QED  OBVIOUS
<1>2. ASSUME m = [v \in DOMAIN m |-> m[v]], DOMAIN m \subseteq Versions,
             \A v \in DOMAIN m : m[v] \in Entry
      PROVE  m \in VersionMaps
  <2>1. m \in [DOMAIN m -> Entry]
    BY <1>2
  <2> QED  BY <1>2, <2>1 DEF VersionMaps
<1> QED  BY <1>1, <1>2

(* WithEntry lists one more version, with the structure it was given, and  *)
(* changes no other entry.                                                 *)
LEMMA WithEntryElsewhere ==
  ASSUME NEW m, NEW version, NEW hash, NEW carrier, NEW v \in (DOMAIN m) \ {version}
  PROVE  WithEntry(m, version, hash, carrier)[v] = m[v]
  BY DEF WithEntry

LEMMA WithEntryProperties ==
  ASSUME NEW m \in VersionMaps, NEW version \in Versions, NEW hash \in Hashes,
         NEW carrier \in BundleRefs
  PROVE  LET n == WithEntry(m, version, hash, carrier) IN
         /\ n \in VersionMaps
         /\ DOMAIN n = (DOMAIN m) \cup {version}
         /\ n[version].hash = hash
<1> DEFINE n == WithEntry(m, version, hash, carrier)
<1>1. DOMAIN m \subseteq Versions /\ \A v \in DOMAIN m : m[v] \in Entry
  BY VersionMapShape
<1>2. DOMAIN n = (DOMAIN m) \cup {version} /\ n = [v \in DOMAIN n |-> n[v]]
  BY DEF WithEntry
<1>3. n[version] = [hash |-> hash,
                    form |-> IF version \in DOMAIN m THEN m[version].form ELSE carrier]
  BY DEF WithEntry
<1>4. \A v \in DOMAIN n : n[v] \in Entry
  BY <1>1, <1>2, <1>3, WithEntryElsewhere DEF Entry
<1> HIDE DEF n
<1>5. n \in VersionMaps
  BY <1>1, <1>2, <1>4, VersionMapShape
<1> QED  BY <1>2, <1>3, <1>5 DEF n

LEMMA BundleShape ==
  ASSUME bundles \in Seq(Bundle), NEW b \in DOMAIN bundles
  PROVE  /\ bundles[b] \in Bundle /\ b \in 1 .. Len(bundles) /\ Len(bundles) \in Nat
         /\ bundles[b].manifest \in Manifest
         /\ bundles[b].manifest.versions \in VersionMaps
<1>1. b \in 1 .. Len(bundles) /\ Len(bundles) \in Nat
  BY LenProperties
<1>2. bundles[b] \in Bundle
  BY <1>1, ElementOfSeq
<1> QED  BY <1>1, <1>2 DEF Bundle, Manifest

LEMMA BundleManifestShape ==
  ASSUME bundles \in Seq(Bundle), NEW b \in 0 .. Len(bundles)
  PROVE  ManifestAt(b) \in Manifest
<1>1. CASE b = NoBundle
  <2> DEFINE none == [v \in {} |-> NoBundle]
  <2>1. none = [v \in DOMAIN none |-> none[v]] /\ DOMAIN none = {}
    OBVIOUS
  <2>2. none \in VersionMaps
    <3> HIDE DEF none
    <3> QED  BY <2>1, VersionMapShape
  <2> HIDE DEF none
  <2>3. ManifestAt(b) = [current |-> 1, listed |-> {}, versions |-> none]
    BY <1>1 DEF ManifestAt, NoManifest, none
  <2> QED  BY <2>2, <2>3 DEF Manifest, Versions
<1>2. CASE b # NoBundle
  <2>1. b \in DOMAIN bundles
    BY <1>2, LenProperties DEF NoBundle
  <2> QED  BY <1>2, <2>1, BundleShape DEF ManifestAt
<1> QED  BY <1>1, <1>2

(* The version of a publish: the one of the page or the next one; and what *)
(* it takes for an answered structure to keep its version.                 *)
LEMMA NextVersionProperties ==
  ASSUME NEW manifest \in Manifest, NEW version \in Versions, NEW hash \in Hashes
  PROVE  LET next == NextVersion(manifest, version, hash) IN
         /\ next \in Versions
         /\ next = version \/ next = manifest.current + 1
         /\ manifest.listed # {} /\ CurrentEntry(manifest).hash # hash => next > manifest.current
  BY DEF NextVersion, Manifest, Versions

LEMMA KeepFormShape ==
  ASSUME store \in Form, NEW version \in Versions, NEW hash \in Hashes, NEW blob \in BundleRefs,
         KeepForm(version, hash, blob)
  PROVE  store' \in Form
  BY DEF KeepForm, NextLocalVersion, Form, Versions

LEMMA EditorShape ==
  ASSUME VersionsTypeOK, NEW e \in Editors
  PROVE  /\ editor[e].step \in {"editing", "saving"} => editor[e].opened \in Form
         /\ editor[e].step = "saving" => editor[e].base \in BundleRefs
         /\ \A form \in Form : [step |-> "editing", opened |-> form] \in EditorType
         /\ \A form \in Form, base \in BundleRefs :
              [step |-> "saving", opened |-> form, base |-> base] \in EditorType
         /\ Shut \in EditorType
  BY DEF VersionsTypeOK, EditorType, Shut

(* One more bundle, which the index names.                                 *)
LEMMA BundleUploaded ==
  ASSUME bundles \in Seq(Bundle), NEW bundle \in Bundle, Upload(bundle)
  PROVE  /\ bundles' \in Seq(Bundle)
         /\ Len(bundles) \in Nat /\ Len(bundles') = Len(bundles) + 1
         /\ Len(bundles') <= MaxBundles
         /\ index' = Len(bundles')
         /\ DOMAIN bundles = 1 .. Len(bundles) /\ DOMAIN bundles' = 1 .. Len(bundles')
         /\ bundles'[index'] = bundle
         /\ \A b \in DOMAIN bundles : bundles'[b] = bundles[b]
<1>1. bundles' = Append(bundles, bundle) /\ index' = Len(bundles) + 1
  BY DEF Upload
<1>2. /\ bundles' \in Seq(Bundle) /\ Len(bundles') = Len(bundles) + 1
      /\ bundles'[Len(bundles) + 1] = bundle
      /\ \A b \in 1 .. Len(bundles) : bundles'[b] = bundles[b]
  BY <1>1, AppendProperties
<1>3. DOMAIN bundles = 1 .. Len(bundles) /\ DOMAIN bundles' = 1 .. Len(bundles')
        /\ Len(bundles) \in Nat
  BY <1>2, LenProperties
<1> QED  BY <1>1, <1>2, <1>3, VersionsAssumption DEF Upload

LEMMA FormAtStays ==
  ASSUME NEW b, bundles'[b] = bundles[b]
  PROVE  FormAt(b)' = FormAt(b)
  BY DEF FormAt

-----------------------------------------------------------------------------
(* What one more bundle does to the history of the form *)

Describes(bundle) ==
  /\ bundle.manifest.current = bundle.form.version
  /\ bundle.form.version \in DOMAIN bundle.manifest.versions
  /\ CurrentEntry(bundle.manifest).hash = bundle.form.hash

(* A bundle made from a page that had the newest version open keeps the    *)
(* answers of its base under their structures.                             *)
Keeps(bundle) ==
  LET before == bundles[bundle.base].manifest IN
  bundle.base # NoBundle /\ bundle.from = before.current
      /\ (\A v \in DOMAIN before.versions : v <= before.current)
    => \A s \in before.listed : Attached(s, before) => Attached(s, bundle.manifest)

AnswersStay == \A s \in Replies : answer[s] # NoForm => answer'[s] = answer[s]

LEMMA HistoryStays ==
  ASSUME VersionsInv, UNCHANGED bundles, AnswersStay
  PROVE  CarrierDescribesItself' /\ ListedAreAnswered' /\ NewestPageKeepsAnswers'
<1> USE DEF VersionsInv
<1>1. CarrierDescribesItself'
  BY DEF CarrierDescribesItself, CurrentEntry
<1>2. \A b \in DOMAIN bundles : bundles[b].manifest.listed \subseteq Replies
  BY BundleShape DEF Manifest
<1>3. ListedAreAnswered'
  BY <1>2 DEF ListedAreAnswered, AnswersStay
<1>4. NewestPageKeepsAnswers'
  <2> SUFFICES ASSUME NEW b \in DOMAIN bundles, OpenedNewest(b), bundles[b].base # NoBundle
               PROVE  LET before == bundles[bundles[b].base].manifest IN
                      \A s \in before.listed :
                        Attached(s, before)' => Attached(s, bundles[b].manifest)'
    BY DEF NewestPageKeepsAnswers, OpenedNewest, KeepsAttached, Attached
  <2> DEFINE before == bundles[bundles[b].base].manifest
  <2>1. bundles[b].base \in DOMAIN bundles
    BY BundleShape DEF BasesExist, NoBundle
  <2>2. \A s \in before.listed : s \in Replies /\ answer'[s] = answer[s]
    BY <1>2, <2>1 DEF ListedAreAnswered, AnswersStay
  <2>3. \A s \in before.listed : Attached(s, before) => Attached(s, bundles[b].manifest)
    BY DEF NewestPageKeepsAnswers, KeepsAttached
  <2> QED  BY <2>2, <2>3 DEF Attached
<1> QED  BY <1>1, <1>3, <1>4

LEMMA HistoryGrows ==
  ASSUME VersionsInv, NEW bundle \in Bundle, Upload(bundle), AnswersStay,
         bundle.base \in 0 .. Len(bundles), Describes(bundle), Keeps(bundle),
         \A s \in bundle.manifest.listed : answer'[s] # NoForm
  PROVE  /\ \A b \in DOMAIN bundles' : bundles'[b].base \in 0 .. b - 1
         /\ CarrierDescribesItself' /\ ListedAreAnswered' /\ NewestPageKeepsAnswers'
<1> USE DEF VersionsInv
<1> DEFINE n == Len(bundles) + 1
<1>1. /\ bundles' \in Seq(Bundle) /\ Len(bundles) \in Nat /\ Len(bundles') = n
      /\ DOMAIN bundles = 1 .. Len(bundles) /\ DOMAIN bundles' = 1 .. n
      /\ bundles'[n] = bundle
      /\ \A b \in DOMAIN bundles : bundles'[b] = bundles[b]
  BY BundleUploaded
<1>2. \A b \in DOMAIN bundles' : b = n \/ b \in DOMAIN bundles
  BY <1>1
<1>3. \A b \in DOMAIN bundles' : bundles'[b].base \in 0 .. b - 1
  BY <1>1, <1>2 DEF BasesExist
<1>4. CarrierDescribesItself'
  BY <1>1, <1>2 DEF CarrierDescribesItself, Describes, CurrentEntry
<1>5. \A b \in DOMAIN bundles : bundles[b].manifest.listed \subseteq Replies
  BY BundleShape DEF Manifest
<1>6. ListedAreAnswered'
  BY <1>1, <1>2, <1>5 DEF ListedAreAnswered, AnswersStay
<1>7. NewestPageKeepsAnswers'
  <2> SUFFICES ASSUME NEW b \in DOMAIN bundles', OpenedNewest(b)', bundles'[b].base # NoBundle
               PROVE  \A s \in bundles'[bundles'[b].base].manifest.listed :
                        Attached(s, bundles[bundles[b].base].manifest)'
                          => Attached(s, bundles[b].manifest)'
    BY DEF NewestPageKeepsAnswers, KeepsAttached
  <2> DEFINE base == bundles'[b].base
             before == bundles[base].manifest
  <2>1. base \in DOMAIN bundles /\ bundles'[base] = bundles[base]
    BY <1>1, <1>3 DEF NoBundle
  <2>2. \A s \in before.listed : s \in Replies /\ answer'[s] = answer[s]
    BY <1>5, <2>1 DEF ListedAreAnswered, AnswersStay
  <2>3. bundles'[b].from = before.current /\ \A v \in DOMAIN before.versions : v <= before.current
    BY <2>1 DEF OpenedNewest
  <2>4. \A s \in before.listed : Attached(s, before) => Attached(s, bundles'[b].manifest)
    <3>1. CASE b = n
      BY <1>1, <2>1, <2>3, <3>1 DEF Keeps
    <3>2. CASE b \in DOMAIN bundles
      <4>1. bundles'[b] = bundles[b] /\ OpenedNewest(b)
        BY <1>1, <2>3, <3>2 DEF OpenedNewest
      <4> QED  BY <3>2, <4>1 DEF NewestPageKeepsAnswers, KeepsAttached
    <3> QED  BY <1>2, <3>1, <3>2
  <2> QED  BY <2>1, <2>2, <2>4 DEF Attached
<1> QED  BY <1>3, <1>4, <1>6, <1>7

(* What a builder page uploads.                                            *)
LEMMA PublishedProperties ==
  ASSUME VersionsInv, Len(bundles) < MaxBundles, NEW base \in 0 .. Len(bundles),
         NEW from \in Versions, NEW hash \in Hashes,
         NEW next, next = NextVersion(ManifestAt(base), from, hash),
         NEW bundle, bundle = Published(next, hash, base, from)
  PROVE  /\ next \in Versions /\ bundle \in Bundle
         /\ bundle.base = base /\ bundle.form = [version |-> next, hash |-> hash]
         /\ bundle.manifest.listed = ManifestAt(base).listed
         /\ Describes(bundle) /\ Keeps(bundle)
<1> PICK before : before = ManifestAt(base)
  OBVIOUS
<1> PICK carrier : carrier = Len(bundles) + 1
  OBVIOUS
<1> PICK entries : entries = WithEntry(before.versions, next, hash, carrier)
  OBVIOUS
<1> USE DEF VersionsInv
<1>1. /\ before \in Manifest /\ before.versions \in VersionMaps
      /\ before.listed \subseteq Replies /\ before.current \in Versions
  BY BundleManifestShape DEF Manifest
<1>2. /\ next \in Versions
      /\ next = from \/ next = before.current + 1
      /\ before.listed # {} /\ CurrentEntry(before).hash # hash => next > before.current
  BY <1>1, NextVersionProperties
<1>3. carrier \in BundleRefs /\ base \in BundleRefs
  <2>1. Len(bundles) \in Nat
    BY LenProperties
  <2> QED  BY <2>1, VersionsAssumption DEF BundleRefs
<1>4. /\ entries \in VersionMaps /\ DOMAIN entries = (DOMAIN before.versions) \cup {next}
      /\ entries[next].hash = hash
      /\ \A v \in (DOMAIN before.versions) \ {next} : entries[v] = before.versions[v]
  <2> PICK m \in VersionMaps : m = before.versions
    BY <1>1
  <2>1. /\ entries = WithEntry(m, next, hash, carrier)
        /\ m \in VersionMaps /\ hash \in Hashes /\ next \in Versions
    BY <1>2
  <2>2. entries[next].hash = hash
    BY ONLY <1>3, <2>1, WithEntryProperties
  <2>3. entries \in VersionMaps /\ DOMAIN entries = (DOMAIN m) \cup {next}
    BY ONLY <1>3, <2>1, WithEntryProperties
  <2>4. \A v \in (DOMAIN m) \ {next} : entries[v] = m[v]
    BY WithEntryElsewhere
  <2> QED  BY <2>2, <2>3, <2>4
<1>5. bundle = [form |-> [version |-> next, hash |-> hash],
                manifest |-> [current |-> next, listed |-> before.listed, versions |-> entries],
                base |-> base, from |-> from]
  BY DEF Published
<1>6. bundle \in Bundle
  BY <1>1, <1>2, <1>3, <1>4, <1>5 DEF Bundle, Manifest
<1>7. Describes(bundle)
  BY <1>4, <1>5 DEF Describes, CurrentEntry
<1>8. Keeps(bundle)
  <2> SUFFICES ASSUME base # NoBundle, from = before.current,
                      \A v \in DOMAIN before.versions : v <= before.current,
                      NEW s \in before.listed, Attached(s, before)
               PROVE  Attached(s, bundle.manifest)
    <3>1. bundle.base = base /\ bundle.from = from
      BY <1>5
    <3>2. base # NoBundle => bundles[bundle.base].manifest = before
      BY <3>1 DEF ManifestAt
    <3> QED  BY <3>1, <3>2 DEF Keeps
  <2>1. /\ answer[s] # NoForm /\ answer[s].version \in DOMAIN before.versions
        /\ before.versions[answer[s].version].hash = answer[s].hash
    BY DEF Attached
  <2>2. base \in DOMAIN bundles /\ before = bundles[base].manifest
    BY LenProperties DEF ManifestAt, NoBundle
  <2>3. before.current \in DOMAIN before.versions
    BY <2>2 DEF CarrierDescribesItself
  <2>4. answer[s].version = next => hash = answer[s].hash
    BY <1>1, <1>2, <2>1, <2>3 DEF CurrentEntry, Versions
  <2> QED  BY <1>4, <1>5, <2>1, <2>4 DEF Attached
<1> QED  BY <1>2, <1>5, <1>6, <1>7, <1>8

(* What an answer uploads: the bundle the index names, with one more       *)
(* answer.                                                                 *)
AnsweredBundle(s) ==
  LET manifest == bundles[index].manifest IN
  [form |-> bundles[index].form,
   manifest |->
     [manifest EXCEPT
        !.listed = @ \cup {s},
        !.versions = WithEntry(@, manifest.current, CurrentEntry(manifest).hash,
                               Len(bundles) + 1)],
   base |-> index, from |-> manifest.current]

LEMMA AnsweredProperties ==
  ASSUME VersionsInv, Len(bundles) < MaxBundles, index \in DOMAIN bundles,
         NEW reply \in Replies, NEW bundle, bundle = AnsweredBundle(reply)
  PROVE  /\ bundle \in Bundle
         /\ bundle.base = index /\ bundle.form = bundles[index].form
         /\ bundle.manifest.listed = bundles[index].manifest.listed \cup {reply}
         /\ Describes(bundle) /\ Keeps(bundle)
<1> PICK before : before = bundles[index].manifest
  OBVIOUS
<1> PICK current : current = before.current
  OBVIOUS
<1> PICK carrier : carrier = Len(bundles) + 1
  OBVIOUS
<1> PICK hash : hash = CurrentEntry(before).hash
  OBVIOUS
<1> PICK entries : entries = WithEntry(before.versions, current, hash, carrier)
  OBVIOUS
<1>1. /\ bundles[index] \in Bundle /\ before \in Manifest /\ before.versions \in VersionMaps
      /\ before.listed \subseteq Replies /\ current \in Versions
  BY BundleShape DEF VersionsInv, Manifest
<1>2. /\ bundles[index].form.version = current /\ bundles[index].form.hash = hash
      /\ current \in DOMAIN before.versions
  BY DEF VersionsInv, CarrierDescribesItself
<1>3. carrier \in BundleRefs /\ index \in BundleRefs /\ hash \in Hashes
  <2>1. Len(bundles) \in Nat /\ index \in 1 .. Len(bundles)
    BY BundleShape DEF VersionsInv
  <2>2. carrier \in BundleRefs /\ index \in BundleRefs
    BY <2>1, VersionsAssumption DEF BundleRefs
  <2>3. hash \in Hashes
    BY <1>1, <1>2 DEF Bundle
  <2> QED  BY <2>2, <2>3
<1>4. /\ entries \in VersionMaps /\ DOMAIN entries = (DOMAIN before.versions) \cup {current}
      /\ entries[current].hash = hash
      /\ \A v \in (DOMAIN before.versions) \ {current} : entries[v] = before.versions[v]
  <2> PICK m \in VersionMaps : m = before.versions
    BY <1>1
  <2>1. /\ entries = WithEntry(m, current, hash, carrier)
        /\ m \in VersionMaps /\ hash \in Hashes /\ current \in Versions
    BY <1>1, <1>3
  <2>2. entries[current].hash = hash
    BY ONLY <1>3, <2>1, WithEntryProperties
  <2>3. entries \in VersionMaps /\ DOMAIN entries = (DOMAIN m) \cup {current}
    BY ONLY <1>3, <2>1, WithEntryProperties
  <2>4. \A v \in (DOMAIN m) \ {current} : entries[v] = m[v]
    BY WithEntryElsewhere
  <2> QED  BY <2>2, <2>3, <2>4
<1>5. bundle = [form |-> bundles[index].form,
                manifest |-> [current |-> current, listed |-> before.listed \cup {reply},
                              versions |-> entries],
                base |-> index, from |-> current]
  <2>1. before = [current |-> before.current, listed |-> before.listed,
                  versions |-> before.versions]
    BY <1>1 DEF Manifest
  <2> QED  BY <2>1 DEF AnsweredBundle
<1>6. /\ bundle.manifest.current = current /\ bundle.manifest.versions = entries
      /\ bundle.form.version = current /\ bundle.form.hash = hash
  BY <1>2, <1>5
<1>7. bundle \in Bundle
  BY <1>1, <1>3, <1>4, <1>5 DEF Bundle, Manifest
<1>8. Describes(bundle)
  BY <1>4, <1>6 DEF Describes, CurrentEntry
<1>9. Keeps(bundle)
  <2>1. ASSUME NEW s \in before.listed, Attached(s, before)
        PROVE  Attached(s, bundle.manifest)
    <3>1. /\ answer[s] # NoForm /\ answer[s].version \in DOMAIN before.versions
          /\ before.versions[answer[s].version].hash = answer[s].hash
      BY <2>1 DEF Attached
    <3>2. /\ answer[s].version \in DOMAIN entries
          /\ entries[answer[s].version].hash = answer[s].hash
      BY <1>4, <3>1 DEF CurrentEntry
    <3> QED  BY <1>6, <3>1, <3>2 DEF Attached
  <2>2. bundles[bundle.base].manifest = before
    BY <1>5
  <2> QED  BY ONLY <2>1, <2>2 DEF Keeps
<1> QED  BY <1>5, <1>7, <1>8, <1>9

-----------------------------------------------------------------------------
(* Types *)

(* The shapes of the bundles are what the type invariant says of them.     *)
LEMMA BundlesTyped ==
  ASSUME NEW bs \in Seq(Bundle)
  PROVE  /\ DOMAIN bs = 1 .. Len(bs) /\ Len(bs) \in Nat
         /\ \A b \in DOMAIN bs : IsBundle(bs[b])
<1>1. DOMAIN bs = 1 .. Len(bs) /\ Len(bs) \in Nat
  BY LenProperties
<1>2. ASSUME NEW b \in DOMAIN bs
      PROVE  IsBundle(bs[b])
  <2>1. bs[b] \in Bundle
    BY <1>1, ElementOfSeq
  <2>2. bs[b].manifest \in Manifest /\ bs[b].manifest.versions \in VersionMaps
    BY <2>1 DEF Bundle, Manifest
  <2>3. /\ DOMAIN bs[b].manifest.versions \subseteq Versions
        /\ \A v \in DOMAIN bs[b].manifest.versions : bs[b].manifest.versions[v] \in Entry
    BY <2>2, VersionMapShape
  <2> QED  BY <2>1, <2>2, <2>3 DEF IsBundle, IsManifest, Bundle, Manifest
<1> QED  BY <1>1, <1>2

LEMMA FormAtType ==
  ASSUME VersionsInv, NEW b \in DOMAIN bundles
  PROVE  FormAt(b) \in Form /\ FormAt(b) # NoForm /\ b \in BundleRefs
<1>1. bundles[b] \in Bundle /\ b \in 1 .. Len(bundles) /\ Len(bundles) \in Nat
  BY BundleShape DEF VersionsInv
<1>2. Len(bundles) <= MaxBundles
  BY DEF VersionsInv, VersionsTypeOK
<1>3. b \in BundleRefs
  BY <1>1, <1>2, VersionsAssumption DEF BundleRefs
<1>4. FormAt(b) \in Form
  BY <1>1, <1>3 DEF FormAt, Form, Bundle
<1> QED  BY <1>3, <1>4 DEF Form, NoForm, Versions

LEMMA VersionsInitInv == VersionsInit => VersionsInv
<1> SUFFICES ASSUME VersionsInit
             PROVE  VersionsInv
  OBVIOUS
<1>1. /\ page = [s \in Replies |-> NoForm] /\ answer = [s \in Replies |-> NoForm]
      /\ kept = {} /\ editor = [e \in Editors |-> Shut] /\ parted = (index = NoBundle)
  BY DEF VersionsInit
<1>2. \A e \in Editors : editor[e].step # "saving"
  BY <1>1 DEF Shut
<1>3. editor \in [Editors -> EditorType]
  BY <1>1 DEF EditorType
<1>4. PICK hash \in Hashes :
        \/ /\ store = [version |-> 1, hash |-> hash, blob |-> 1]
           /\ bundles = <<FirstBundle(hash)>> /\ index = 1
        \/ /\ store = [version |-> 1, hash |-> hash, blob |-> NoBundle]
           /\ bundles = <<>> /\ index = NoBundle
  BY DEF VersionsInit
<1>5. 0 \in BundleRefs /\ 1 \in BundleRefs /\ 1 \in Versions
  BY VersionsAssumption DEF BundleRefs, Versions
<1>6. store \in Form
  BY <1>4, <1>5 DEF Form, NoBundle
<1>7. CASE /\ store = [version |-> 1, hash |-> hash, blob |-> 1]
           /\ bundles = <<FirstBundle(hash)>> /\ index = 1
  <2> DEFINE entries == [v \in {1} |-> [form |-> 1, hash |-> hash]]
  <2>1. /\ entries = [v \in DOMAIN entries |-> entries[v]] /\ DOMAIN entries = {1}
        /\ entries[1] = [form |-> 1, hash |-> hash]
    OBVIOUS
  <2>2. FirstBundle(hash) =
          [form |-> [version |-> 1, hash |-> hash],
           manifest |-> [current |-> 1, listed |-> {}, versions |-> entries],
           base |-> NoBundle, from |-> 1]
    BY DEF FirstBundle
  <2> HIDE DEF entries
  <2>3. entries \in VersionMaps
    BY <1>5, <2>1, VersionMapShape DEF Entry
  <2>4. FirstBundle(hash) \in Bundle
    BY <1>5, <2>2, <2>3 DEF Bundle, Manifest, NoBundle
  <2>5. /\ bundles \in Seq(Bundle) /\ Len(bundles) = 1 /\ DOMAIN bundles = {1}
        /\ bundles[1] = FirstBundle(hash)
    BY <1>7, <2>4
  <2>6. VersionsTypeOK
    <3>1. DOMAIN bundles = 1 .. Len(bundles) /\ \A b \in DOMAIN bundles : IsBundle(bundles[b])
      BY <2>5, BundlesTyped
    <3>2. page \in [Replies -> Form \cup {NoForm}] /\ answer \in [Replies -> Form \cup {NoForm}]
      BY <1>1
    <3> QED  BY <1>1, <1>3, <1>6, <1>7, <2>5, <3>1, <3>2, VersionsAssumption DEF VersionsTypeOK
  <2>7. BasesExist
    BY <1>2, <2>2, <2>5 DEF BasesExist, NoBundle
  <2>8. CarrierDescribesItself
    BY <2>1, <2>2, <2>5 DEF CarrierDescribesItself, CurrentEntry
  <2>9. ListedAreAnswered /\ NewestPageKeepsAnswers
    BY <2>2, <2>5 DEF ListedAreAnswered, NewestPageKeepsAnswers, KeepsAttached
  <2>10. PairAgrees
    BY <1>1, <1>7, <2>2, <2>5 DEF PairAgrees, StoreFollowsIndex, Names, FormAt
  <2> QED  BY <2>5, <2>6, <2>7, <2>8, <2>9, <2>10 DEF VersionsInv
<1>8. CASE /\ store = [version |-> 1, hash |-> hash, blob |-> NoBundle]
           /\ bundles = <<>> /\ index = NoBundle
  <2>1. bundles \in Seq(Bundle) /\ Len(bundles) = 0 /\ DOMAIN bundles = {}
    BY <1>8
  <2>2. VersionsTypeOK
    <3>1. DOMAIN bundles = 1 .. Len(bundles) /\ \A b \in DOMAIN bundles : IsBundle(bundles[b])
      BY <2>1, BundlesTyped
    <3>2. page \in [Replies -> Form \cup {NoForm}] /\ answer \in [Replies -> Form \cup {NoForm}]
      BY <1>1
    <3> QED  BY <1>1, <1>3, <1>6, <1>8, <2>1, <3>1, <3>2, VersionsAssumption
               DEF VersionsTypeOK, NoBundle
  <2>3. BasesExist /\ CarrierDescribesItself /\ ListedAreAnswered /\ NewestPageKeepsAnswers
    BY <1>2, <2>1
       DEF BasesExist, CarrierDescribesItself, ListedAreAnswered, NewestPageKeepsAnswers
  <2>4. PairAgrees
    BY <1>1, <1>8 DEF PairAgrees
  <2> QED  BY <2>1, <2>2, <2>3, <2>4 DEF VersionsInv
<1> QED  BY <1>4, <1>7, <1>8

-----------------------------------------------------------------------------
(* Steps that upload nothing *)

LEMMA QuietStep ==
  ASSUME VersionsInv, UNCHANGED bundles, AnswersStay,
         VersionsTypeOK', PairAgrees',
         \A e \in Editors : editor'[e].step = "saving" => editor'[e].base \in 0 .. Len(bundles)
  PROVE  VersionsInv'
<1>1. CarrierDescribesItself' /\ ListedAreAnswered' /\ NewestPageKeepsAnswers'
  BY HistoryStays
<1>2. BasesExist' /\ bundles' \in Seq(Bundle)
  BY DEF VersionsInv, BasesExist
<1> QED  BY <1>1, <1>2 DEF VersionsInv

LEMMA NamesStay ==
  ASSUME DOMAIN bundles \subseteq DOMAIN bundles',
         \A b \in DOMAIN bundles : bundles'[b] = bundles[b],
         NEW form, Names(form)
  PROVE  Names(form)'
  BY DEF Names, FormAt

(* Nothing changes but what one builder page does.                         *)
LEMMA EditorStep ==
  ASSUME VersionsInv, NEW e \in Editors, NEW next \in EditorType,
         editor' = [editor EXCEPT ![e] = next],
         next.step = "saving" => next.base \in 0 .. Len(bundles),
         UNCHANGED <<bundles, index, store, page, answer, kept, parted>>
  PROVE  VersionsInv'
<1>1. VersionsTypeOK'
  BY DEF VersionsInv, VersionsTypeOK
<1>2. PairAgrees'
  BY DEF VersionsInv, PairAgrees, StoreFollowsIndex, Names, FormAt
<1>3. \A x \in Editors : editor'[x] = IF x = e THEN next ELSE editor[x]
  BY DEF VersionsInv, VersionsTypeOK
<1>4. \A x \in Editors : editor'[x].step = "saving" => editor'[x].base \in 0 .. Len(bundles)
  BY <1>3 DEF VersionsInv, BasesExist
<1> QED  BY <1>1, <1>2, <1>4, QuietStep DEF AnswersStay

(* A builder page is closed, or in an edit or a save of a form.            *)
LEMMA PageSteps ==
  ASSUME VersionsInv, NEW e \in Editors,
         Open(e) \/ handleSubmit(e) \/ PublishFails(e) \/ Leave(e)
  PROVE  VersionsInv'
<1>1. VersionsTypeOK /\ index \in 0 .. Len(bundles) /\ store \in Form
  BY DEF VersionsInv, VersionsTypeOK
<1>2. CASE Open(e)
  <2>1. PICK form \in Form :
          editor' = [editor EXCEPT ![e] = [step |-> "editing", opened |-> form]]
    <3>1. index # NoBundle => FormAt(index) \in Form
      BY <1>1, BundlesTyped, FormAtType DEF NoBundle, VersionsInv
    <3> QED  BY <1>1, <1>2, <3>1 DEF Open
  <2>2. [step |-> "editing", opened |-> form] \in EditorType
    BY <1>1, EditorShape
  <2> QED  BY <1>2, <2>1, <2>2, EditorStep DEF Open
<1>3. CASE handleSubmit(e)
  <2>1. PICK base \in {index, NoBundle} :
          editor' = [editor EXCEPT
            ![e] = [step |-> "saving", opened |-> @.opened, base |-> base]]
    BY <1>3 DEF handleSubmit
  <2>2. base \in 0 .. Len(bundles) /\ base \in BundleRefs
    BY <1>1, VersionsAssumption DEF VersionsTypeOK, VersionsInv, NoBundle, BundleRefs
  <2>3. editor[e].opened \in Form
    BY <1>1, <1>3, EditorShape DEF handleSubmit
  <2>4. PICK next : next = [step |-> "saving", opened |-> editor[e].opened, base |-> base]
    OBVIOUS
  <2>5. next \in EditorType /\ next.base \in 0 .. Len(bundles)
    BY <1>1, <2>2, <2>3, <2>4, EditorShape
  <2>6. editor' = [editor EXCEPT ![e] = next]
    BY <2>1, <2>4 DEF VersionsInv, VersionsTypeOK
  <2> QED  BY <1>3, <2>5, <2>6, EditorStep DEF handleSubmit
<1>4. CASE PublishFails(e)
  <2>1. editor[e].opened \in Form
    BY <1>1, <1>4, EditorShape DEF PublishFails
  <2>2. PICK next : next = [step |-> "editing", opened |-> editor[e].opened]
    OBVIOUS
  <2>3. next \in EditorType /\ next.step # "saving"
    BY <1>1, <2>1, <2>2, EditorShape
  <2>4. editor' = [editor EXCEPT ![e] = next]
    BY <1>4, <2>2 DEF PublishFails
  <2> QED  BY <1>4, <2>3, <2>4, EditorStep DEF PublishFails
<1>5. CASE Leave(e)
  <2>1. Shut \in EditorType /\ Shut.step # "saving"
    BY <1>1, EditorShape DEF Shut
  <2> QED  BY <1>5, <2>1, EditorStep DEF Leave
<1> QED  BY <1>2, <1>3, <1>4, <1>5

LEMMA KeepLocallyStep ==
  ASSUME VersionsInv, NEW e \in Editors, NEW hash \in Hashes, KeepLocally(e, hash)
  PROVE  VersionsInv'
<1>1. VersionsTypeOK /\ editor[e].opened \in Form
  BY EditorShape DEF VersionsInv, KeepLocally
<1>2. store' \in Form
  BY <1>1, KeepFormShape DEF KeepLocally, VersionsTypeOK, Form
<1>3. Shut \in EditorType
  BY <1>1, EditorShape
<1>4. VersionsTypeOK'
  BY <1>1, <1>2, <1>3 DEF VersionsTypeOK, KeepLocally
<1>5. \A x \in Editors : editor'[x].step = "saving" => editor'[x].base \in 0 .. Len(bundles)
  BY <1>1 DEF VersionsInv, VersionsTypeOK, BasesExist, KeepLocally, Shut
<1> QED  BY <1>4, <1>5, QuietStep DEF KeepLocally, AnswersStay, PairAgrees

LEMMA OpenLinkStep ==
  ASSUME VersionsInv, NEW s \in Replies, NEW b \in DOMAIN bundles, OpenLink(s, b)
  PROVE  VersionsInv'
<1>1. /\ FormAt(b) \in Form /\ b \in BundleRefs
      /\ b \in 1 .. Len(bundles) /\ Len(bundles) \in Nat
      /\ bundles[b].form.version \in Versions /\ bundles[b].form.hash \in Hashes
  BY FormAtType, BundleShape DEF VersionsInv, Bundle
<1>2. store' \in Form
  BY <1>1, KeepFormShape DEF OpenLink, VersionsInv, VersionsTypeOK
<1>3. VersionsTypeOK'
  BY <1>1, <1>2 DEF VersionsInv, VersionsTypeOK, OpenLink
<1>4. PairAgrees'
  <2> SUFFICES ASSUME ~parted'
               PROVE  PairAgrees'
    BY DEF PairAgrees
  <2>1. /\ ~parted /\ store'.version = bundles[b].form.version
        /\ kept \subseteq bundles[b].manifest.listed
        /\ index' = b /\ UNCHANGED <<bundles, answer, kept>>
        /\ page' = [page EXCEPT ![s] = FormAt(b)]
    BY DEF OpenLink
  <2>2. store' = [version |-> bundles[b].form.version, hash |-> bundles[b].form.hash, blob |-> b]
    BY <2>1 DEF OpenLink, KeepForm
  <2>3. Names(store)' /\ StoreFollowsIndex'
    BY <2>1, <2>2 DEF Names, FormAt, StoreFollowsIndex
  <2>4. ASSUME NEW x \in Replies, page'[x] # NoForm
        PROVE  Names(page[x])'
    <3>1. page'[x] = IF x = s THEN FormAt(b) ELSE page[x]
      BY <2>1 DEF VersionsInv, VersionsTypeOK
    <3>2. CASE x = s
      BY <2>1, <3>1, <3>2 DEF Names, FormAt
    <3>3. CASE x # s
      <4>1. Names(page[x])
        BY <2>1, <2>4, <3>1, <3>3 DEF VersionsInv, PairAgrees
      <4> QED  BY <2>1, <3>1, <3>3, <4>1 DEF Names, FormAt
    <3> QED  BY <3>2, <3>3
  <2>5. ASSUME NEW x \in Replies, answer'[x] # NoForm
        PROVE  Names(answer[x])'
    <3>1. Names(answer[x])
      BY <2>1, <2>5 DEF VersionsInv, PairAgrees
    <3> QED  BY <2>1, <3>1 DEF Names, FormAt
  <2> QED  BY <2>1, <2>3, <2>4, <2>5 DEF PairAgrees
<1> QED  BY <1>3, <1>4, QuietStep DEF OpenLink, AnswersStay, VersionsInv, BasesExist

LEMMA OpenStoredStep ==
  ASSUME VersionsInv, NEW s \in Replies, OpenStored(s)
  PROVE  VersionsInv'
<1>1. VersionsTypeOK'
  BY DEF VersionsInv, VersionsTypeOK, OpenStored
<1>2. \A x \in Replies : page'[x] = IF x = s THEN store ELSE page[x]
  BY DEF VersionsInv, VersionsTypeOK, OpenStored
<1>3. PairAgrees'
  <2> SUFFICES ASSUME ~parted'
               PROVE  PairAgrees'
    BY DEF PairAgrees
  <2>1. PairAgrees /\ ~parted /\ UNCHANGED <<bundles, index, store, answer, kept>>
    BY DEF VersionsInv, OpenStored
  <2>2. ASSUME NEW x \in Replies, page'[x] # NoForm
        PROVE  Names(page[x])'
    <3>1. Names(page'[x])
      BY <1>2, <2>1, <2>2 DEF PairAgrees
    <3> QED  BY <2>1, <3>1 DEF Names, FormAt
  <2>3. ASSUME NEW x \in Replies, answer'[x] # NoForm
        PROVE  Names(answer[x])'
    <3>1. Names(answer[x])
      BY <2>1, <2>3 DEF PairAgrees
    <3> QED  BY <2>1, <3>1 DEF Names, FormAt
  <2>4. Names(store)' /\ StoreFollowsIndex'
    BY <2>1 DEF PairAgrees, Names, FormAt, StoreFollowsIndex
  <2> QED  BY <2>1, <2>2, <2>3, <2>4 DEF PairAgrees
<1> QED  BY <1>1, <1>3, QuietStep DEF OpenStored, AnswersStay, VersionsInv, BasesExist

LEMMA AnswerLocallyStep ==
  ASSUME VersionsInv, NEW s \in Replies, AnswerLocally(s)
  PROVE  VersionsInv'
<1>1. VersionsTypeOK'
  BY DEF VersionsInv, VersionsTypeOK, AnswerLocally
<1>2. AnswersStay
  BY DEF VersionsInv, VersionsTypeOK, AnswerLocally, AnswersStay
<1> QED  BY <1>1, <1>2, QuietStep DEF AnswerLocally, VersionsInv, BasesExist, PairAgrees

-----------------------------------------------------------------------------
(* Steps that upload a bundle *)

LEMMA UploadTyped ==
  ASSUME VersionsInv, NEW bundle \in Bundle, Upload(bundle)
  PROVE  /\ DOMAIN bundles' = 1 .. Len(bundles') /\ Len(bundles') <= MaxBundles
         /\ \A b \in DOMAIN bundles' : IsBundle(bundles'[b])
         /\ index' \in 0 .. Len(bundles') /\ index' \in BundleRefs
<1>1. /\ bundles' \in Seq(Bundle) /\ Len(bundles) \in Nat /\ Len(bundles') = Len(bundles) + 1
      /\ Len(bundles') <= MaxBundles /\ index' = Len(bundles')
  BY BundleUploaded DEF VersionsInv
<1>2. DOMAIN bundles' = 1 .. Len(bundles') /\ \A b \in DOMAIN bundles' : IsBundle(bundles'[b])
  BY <1>1, BundlesTyped
<1> QED  BY <1>1, <1>2, VersionsAssumption DEF BundleRefs

LEMMA GrowingStep ==
  ASSUME VersionsInv, NEW bundle \in Bundle, Upload(bundle), AnswersStay,
         bundle.base \in 0 .. Len(bundles), Describes(bundle), Keeps(bundle),
         \A s \in bundle.manifest.listed : answer'[s] # NoForm,
         \A e \in Editors : editor'[e].step = "saving" => editor'[e] = editor[e],
         VersionsTypeOK', PairAgrees'
  PROVE  VersionsInv'
<1>1. /\ \A b \in DOMAIN bundles' : bundles'[b].base \in 0 .. b - 1
      /\ CarrierDescribesItself' /\ ListedAreAnswered' /\ NewestPageKeepsAnswers'
  BY HistoryGrows
<1>2. bundles' \in Seq(Bundle) /\ Len(bundles) \in Nat /\ Len(bundles') = Len(bundles) + 1
  BY BundleUploaded DEF VersionsInv
<1>3. \A e \in Editors : editor'[e].step = "saving" => editor'[e].base \in 0 .. Len(bundles')
  BY <1>2 DEF VersionsInv, BasesExist
<1> QED  BY <1>1, <1>2, <1>3 DEF VersionsInv, BasesExist

(* What a builder page that saves is about to publish.                     *)
LEMMA PublishShape ==
  ASSUME VersionsInv, NEW e \in Editors, NEW hash \in Hashes, editor[e].step = "saving",
         Len(bundles) < MaxBundles
  PROVE  LET base == editor[e].base
             from == editor[e].opened.version
             next == NextVersion(ManifestAt(base), from, hash)
             bundle == Published(next, hash, base, from)
         IN /\ base \in 0 .. Len(bundles) /\ next \in Versions /\ bundle \in Bundle
            /\ bundle.base = base /\ bundle.form = [version |-> next, hash |-> hash]
            /\ bundle.manifest.listed = ManifestAt(base).listed
            /\ Describes(bundle) /\ Keeps(bundle)
            /\ \A s \in bundle.manifest.listed : s \in Replies /\ answer[s] # NoForm
<1> PICK base, from : base = editor[e].base /\ from = editor[e].opened.version
  OBVIOUS
<1>1. base \in 0 .. Len(bundles)
  BY DEF VersionsInv, BasesExist
<1>2. from \in Versions
  <2>1. editor[e].opened \in Form
    BY EditorShape DEF VersionsInv
  <2> QED  BY <2>1 DEF Form
<1>3. \A s \in ManifestAt(base).listed : s \in Replies /\ answer[s] # NoForm
  <2>1. CASE base = NoBundle
    BY <2>1 DEF ManifestAt, NoManifest
  <2>2. CASE base # NoBundle
    <3>1. base \in DOMAIN bundles
      BY <1>1, <2>2, BundlesTyped DEF VersionsInv, NoBundle
    <3> QED  BY <2>2, <3>1, BundleShape DEF ManifestAt, Manifest, VersionsInv, ListedAreAnswered
  <2> QED  BY <2>1, <2>2
<1> PICK next : next = NextVersion(ManifestAt(base), from, hash)
  OBVIOUS
<1> PICK bundle : bundle = Published(next, hash, base, from)
  OBVIOUS
<1>4. /\ next \in Versions /\ bundle \in Bundle
      /\ bundle.base = base /\ bundle.form = [version |-> next, hash |-> hash]
      /\ bundle.manifest.listed = ManifestAt(base).listed
      /\ Describes(bundle) /\ Keeps(bundle)
  BY <1>1, <1>2, PublishedProperties
<1> QED  BY <1>1, <1>3, <1>4

(* The local store comes to the version of the publish.                    *)
LEMMA StoreAgrees ==
  ASSUME VersionsInv, ~parted, NEW from \in Versions, NEW hash \in Hashes,
         NEW next, next = NextVersion(ManifestAt(index), from, hash)
  PROVE  NextLocalVersion(next, hash) = next
<1> PICK manifest : manifest = bundles[index].manifest
  OBVIOUS
<1>1. /\ index \in DOMAIN bundles /\ kept \subseteq manifest.listed
      /\ store.version = manifest.current /\ store.hash = CurrentEntry(manifest).hash
  BY DEF VersionsInv, PairAgrees, StoreFollowsIndex, CarrierDescribesItself
<1>2. ManifestAt(index) = manifest /\ manifest \in Manifest
  BY <1>1, BundleShape DEF ManifestAt, NoBundle, VersionsInv
<1>3. manifest.listed # {} /\ CurrentEntry(manifest).hash # hash => next > manifest.current
  BY <1>2, NextVersionProperties
<1>4. next \in Versions /\ manifest.current \in Versions
  BY <1>2, NextVersionProperties DEF Manifest
<1> QED  BY <1>1, <1>3, <1>4 DEF NextLocalVersion, Versions

LEMMA PublishStep ==
  ASSUME VersionsInv, NEW e \in Editors, NEW hash \in Hashes, Publish(e, hash)
  PROVE  VersionsInv'
<1> PICK base, from : base = editor[e].base /\ from = editor[e].opened.version
  OBVIOUS
<1> PICK next : next = NextVersion(ManifestAt(base), from, hash)
  OBVIOUS
<1> PICK bundle : bundle = Published(next, hash, base, from)
  OBVIOUS
<1>1. /\ editor[e].step = "saving" /\ Len(bundles) < MaxBundles
      /\ Upload(bundle) /\ KeepForm(next, hash, index')
      /\ parted' = (parted \/ base # index)
      /\ editor' = [editor EXCEPT ![e] = Shut]
      /\ UNCHANGED <<page, answer, kept>>
  BY DEF Publish, Upload
<1>2. /\ base \in 0 .. Len(bundles) /\ next \in Versions /\ bundle \in Bundle
      /\ bundle.base = base /\ bundle.form = [version |-> next, hash |-> hash]
      /\ bundle.manifest.listed = ManifestAt(base).listed
      /\ Describes(bundle) /\ Keeps(bundle)
      /\ \A s \in bundle.manifest.listed : s \in Replies /\ answer[s] # NoForm
  BY <1>1, PublishShape
<1>3. /\ DOMAIN bundles' = 1 .. Len(bundles') /\ Len(bundles') <= MaxBundles
      /\ \A b \in DOMAIN bundles' : IsBundle(bundles'[b])
      /\ index' \in 0 .. Len(bundles') /\ index' \in BundleRefs
  BY <1>1, <1>2, UploadTyped
<1>4. /\ DOMAIN bundles \subseteq DOMAIN bundles' /\ index' \in DOMAIN bundles'
      /\ bundles'[index'] = bundle
      /\ \A b \in DOMAIN bundles : bundles'[b] = bundles[b]
  BY <1>1, <1>2, BundleUploaded DEF VersionsInv
<1>5. store' \in Form
  BY <1>1, <1>2, <1>3, KeepFormShape DEF VersionsInv, VersionsTypeOK
<1>6. VersionsTypeOK'
  BY <1>1, <1>3, <1>5, EditorShape DEF VersionsInv, VersionsTypeOK
<1>7. PairAgrees'
  <2> SUFFICES ASSUME ~parted'
               PROVE  PairAgrees'
    BY DEF PairAgrees
  <2>1. ~parted /\ base = index /\ PairAgrees
    BY <1>1 DEF VersionsInv
  <2>2. from \in Versions
    <3>1. editor[e].opened \in Form
      BY <1>1, EditorShape DEF VersionsInv
    <3> QED  BY <3>1 DEF Form
  <2>3. store' = [version |-> next, hash |-> hash, blob |-> index']
    BY <1>1, <2>1, <2>2, StoreAgrees DEF KeepForm
  <2>4. StoreFollowsIndex' /\ Names(store)'
    BY <1>2, <1>4, <2>3 DEF StoreFollowsIndex, Names, FormAt
  <2>5. kept' \subseteq bundles'[index'].manifest.listed
    BY <1>1, <1>2, <1>4, <2>1 DEF PairAgrees, ManifestAt, NoBundle
  <2>6. \A x \in Replies : (page[x] # NoForm)' => Names(page[x])'
    BY <1>1, <1>4, <2>1 DEF PairAgrees, Names, FormAt
  <2>7. \A x \in Replies : (answer[x] # NoForm)' => Names(answer[x])'
    BY <1>1, <1>4, <2>1 DEF PairAgrees, Names, FormAt
  <2> QED  BY <1>4, <2>4, <2>5, <2>6, <2>7 DEF PairAgrees
<1>8. \A x \in Editors : editor'[x].step = "saving" => editor'[x] = editor[x]
  BY <1>1 DEF VersionsInv, VersionsTypeOK, Shut
<1> QED  BY <1>1, <1>2, <1>6, <1>7, <1>8, GrowingStep DEF AnswersStay

LEMMA PublishUnkeptStep ==
  ASSUME VersionsInv, NEW e \in Editors, NEW hash \in Hashes, PublishUnkept(e, hash)
  PROVE  VersionsInv'
<1> PICK base, from : base = editor[e].base /\ from = editor[e].opened.version
  OBVIOUS
<1> PICK next : next = NextVersion(ManifestAt(base), from, hash)
  OBVIOUS
<1> PICK bundle : bundle = Published(next, hash, base, from)
  OBVIOUS
<1>1. /\ editor[e].step = "saving" /\ Len(bundles) < MaxBundles
      /\ Upload(bundle) /\ parted' = TRUE
      /\ editor' = [editor EXCEPT ![e] = [step |-> "editing", opened |-> @.opened]]
      /\ UNCHANGED <<store, page, answer, kept>>
  BY DEF PublishUnkept, Upload
<1>2. /\ base \in 0 .. Len(bundles) /\ next \in Versions /\ bundle \in Bundle
      /\ bundle.base = base /\ bundle.form = [version |-> next, hash |-> hash]
      /\ bundle.manifest.listed = ManifestAt(base).listed
      /\ Describes(bundle) /\ Keeps(bundle)
      /\ \A s \in bundle.manifest.listed : s \in Replies /\ answer[s] # NoForm
  BY <1>1, PublishShape
<1>3. /\ DOMAIN bundles' = 1 .. Len(bundles') /\ Len(bundles') <= MaxBundles
      /\ \A b \in DOMAIN bundles' : IsBundle(bundles'[b])
      /\ index' \in 0 .. Len(bundles')
  BY <1>1, <1>2, UploadTyped
<1>4. [step |-> "editing", opened |-> editor[e].opened] \in EditorType
  BY <1>1, EditorShape DEF VersionsInv
<1>5. VersionsTypeOK'
  BY <1>1, <1>3, <1>4 DEF VersionsInv, VersionsTypeOK
<1>6. \A x \in Editors : editor'[x].step = "saving" => editor'[x] = editor[x]
  BY <1>1 DEF VersionsInv, VersionsTypeOK
<1> QED  BY <1>1, <1>2, <1>5, <1>6, GrowingStep DEF AnswersStay, PairAgrees

LEMMA AnswerHereStep ==
  ASSUME VersionsInv, NEW s \in Replies, AnswerHere(s)
  PROVE  VersionsInv'
<1> PICK bundle : bundle = AnsweredBundle(s)
  OBVIOUS
<1>1. /\ page[s] # NoForm /\ answer[s] = NoForm /\ Len(bundles) < MaxBundles
      /\ index # NoBundle /\ answer' = [answer EXCEPT ![s] = page[s]]
      /\ Upload(bundle) /\ kept' = kept \cup {s}
      /\ UNCHANGED <<store, page, editor, parted>>
  BY DEF AnswerHere, AnsweredBundle, Upload
<1>2. index \in DOMAIN bundles /\ index \in 0 .. Len(bundles)
  BY <1>1, BundlesTyped DEF VersionsInv, VersionsTypeOK, NoBundle
<1>3. /\ bundle \in Bundle
      /\ bundle.base = index /\ bundle.form = bundles[index].form
      /\ bundle.manifest.listed = bundles[index].manifest.listed \cup {s}
      /\ Describes(bundle) /\ Keeps(bundle)
  BY <1>1, <1>2, AnsweredProperties
<1>4. /\ DOMAIN bundles' = 1 .. Len(bundles') /\ Len(bundles') <= MaxBundles
      /\ \A b \in DOMAIN bundles' : IsBundle(bundles'[b])
      /\ index' \in 0 .. Len(bundles')
  BY <1>1, <1>3, UploadTyped
<1>5. /\ DOMAIN bundles \subseteq DOMAIN bundles' /\ index' \in DOMAIN bundles'
      /\ bundles'[index'] = bundle
      /\ \A b \in DOMAIN bundles : bundles'[b] = bundles[b]
  BY <1>1, <1>3, BundleUploaded DEF VersionsInv
<1>6. \A x \in Replies : answer'[x] = IF x = s THEN page[s] ELSE answer[x]
  BY <1>1 DEF VersionsInv, VersionsTypeOK
<1>7. VersionsTypeOK'
  BY <1>1, <1>4 DEF VersionsInv, VersionsTypeOK
<1>8. PairAgrees'
  <2> SUFFICES ASSUME ~parted'
               PROVE  PairAgrees'
    BY DEF PairAgrees
  <2>1. ~parted /\ PairAgrees
    BY <1>1 DEF VersionsInv
  <2>2. StoreFollowsIndex' /\ Names(store)'
    BY <1>1, <1>2, <1>3, <1>5, <2>1 DEF PairAgrees, StoreFollowsIndex, Names, FormAt
  <2>3. kept' \subseteq bundles'[index'].manifest.listed
    BY <1>1, <1>3, <1>5, <2>1 DEF PairAgrees
  <2>4. ASSUME NEW x \in Replies, (page[x] # NoForm)'
        PROVE  Names(page[x])'
    BY <1>1, <1>5, <2>1, <2>4 DEF PairAgrees, Names, FormAt
  <2>5. ASSUME NEW x \in Replies, (answer[x] # NoForm)'
        PROVE  Names(answer[x])'
    <3>1. Names(answer'[x])
      BY <1>1, <1>6, <2>1, <2>5 DEF PairAgrees
    <3> QED  BY <1>5, <3>1 DEF Names, FormAt
  <2> QED  BY <1>5, <2>2, <2>3, <2>4, <2>5 DEF PairAgrees
<1>9. AnswersStay
  BY <1>1, <1>6 DEF AnswersStay
<1>10. \A x \in bundle.manifest.listed : answer'[x] # NoForm
  <2>1. \A x \in bundles[index].manifest.listed : x \in Replies /\ answer[x] # NoForm
    BY <1>2, BundleShape DEF VersionsInv, ListedAreAnswered, Manifest
  <2> QED  BY <1>1, <1>3, <1>6, <2>1
<1> QED  BY <1>1, <1>2, <1>3, <1>7, <1>8, <1>9, <1>10, GrowingStep

-----------------------------------------------------------------------------

LEMMA VersionsStepInv ==
  ASSUME VersionsInv, [VersionsNext]_versionsVars
  PROVE  VersionsInv'
<1>1. CASE UNCHANGED versionsVars
  BY <1>1 DEF versionsVars, VersionsInv, VersionsTypeOK, BasesExist, CarrierDescribesItself,
              ListedAreAnswered, NewestPageKeepsAnswers, OpenedNewest, KeepsAttached, Attached,
              PairAgrees, StoreFollowsIndex, Names, FormAt
<1>2. ASSUME NEW e \in Editors, Open(e) \/ handleSubmit(e) \/ PublishFails(e) \/ Leave(e)
      PROVE  VersionsInv'
  BY <1>2, PageSteps
<1>3. ASSUME NEW e \in Editors, NEW hash \in Hashes,
             Publish(e, hash) \/ PublishUnkept(e, hash) \/ KeepLocally(e, hash)
      PROVE  VersionsInv'
  BY <1>3, PublishStep, PublishUnkeptStep, KeepLocallyStep
<1>4. ASSUME NEW s \in Replies, NEW b \in DOMAIN bundles, OpenLink(s, b)
      PROVE  VersionsInv'
  BY <1>4, OpenLinkStep
<1>5. ASSUME NEW s \in Replies, OpenStored(s) \/ AnswerHere(s) \/ AnswerLocally(s)
      PROVE  VersionsInv'
  BY <1>5, OpenStoredStep, AnswerHereStep, AnswerLocallyStep
<1> QED  BY <1>1, <1>2, <1>3, <1>4, <1>5 DEF VersionsNext

LEMMA VersionsInvariant == VersionsSpec => []VersionsInv
<1>1. VersionsInv /\ [VersionsNext]_versionsVars => VersionsInv'
  BY VersionsStepInv
<1> QED  BY <1>1, VersionsInitInv, PTL DEF VersionsSpec

(* Bundles, pages and the local store keep the shapes the code gives them. *)
THEOREM VersionsTypeCorrect == VersionsSpec => []VersionsTypeOK
<1>1. VersionsInv => VersionsTypeOK
  BY DEF VersionsInv
<1> QED  BY <1>1, VersionsInvariant, PTL

(* Whatever pages published in between, the manifest of a bundle names the *)
(* version and the structure of the form the bundle carries.               *)
THEOREM CarriersAgree == VersionsSpec => []CarrierDescribesItself
<1>1. VersionsInv => CarrierDescribesItself
  BY DEF VersionsInv
<1> QED  BY <1>1, VersionsInvariant, PTL

(* A publish from a page with the newest version open leaves each listed   *)
(* answer under the structure it was given to.                             *)
THEOREM NewestPageIsSafe == VersionsSpec => []NewestPageKeepsAnswers
<1>1. VersionsInv => NewestPageKeepsAnswers
  BY DEF VersionsInv
<1> QED  BY <1>1, VersionsInvariant, PTL

(* While local store and index are written as a pair, the blob an answer   *)
(* names carries the version and structure it was given to.                *)
THEOREM AnswersNameTheirForms == VersionsSpec => []AnswerNamesItsForm
<1>1. VersionsInv => AnswerNamesItsForm
  BY DEF VersionsInv, PairAgrees, Names, AnswerNamesItsForm
<1> QED  BY <1>1, VersionsInvariant, PTL

(* And the two decisions on the version come to the same one.              *)
THEOREM StoreAgreesWithIndex == VersionsSpec => []StoreFollowsIndex
<1>1. VersionsInv => StoreFollowsIndex
  BY DEF VersionsInv, PairAgrees, StoreFollowsIndex
<1> QED  BY <1>1, VersionsInvariant, PTL

=============================================================================
