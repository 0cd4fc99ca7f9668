--------------------------- MODULE WalrusManifest ---------------------------
(***************************************************************************)
(* One form's manifest chain on Walrus as the storage adapter writes it    *)
(* (src/src/storage/walrusAdapter.ts) and the browser's pointers to it     *)
(* (src/src/storage/blobIndex.ts).                                         *)
(*                                                                         *)
(* Blobs are immutable.  A save, an update or a publish reads the manifest *)
(* the local index points at, uploads a bundle that carries the next       *)
(* manifest, and then moves the index; the awaits between these three      *)
(* steps let another tab or another call of the same tab in.               *)
(***************************************************************************)
EXTENDS Naturals, Sequences

CONSTANTS
  Tasks,           \* calls of the adapter that may overlap
  Ids,             \* submissions; a larger id was created later
  MaxBlobs         \* bound: uploads that are explored

ASSUME ManifestAssumption == Ids \subseteq Nat \ {0} /\ MaxBlobs \in Nat

VARIABLES
  blobs,       \* every uploaded blob, in upload order; its place is its id
  manifestAt,  \* the index entry of the form: the blob it names, or NoBlob
  submissionAt,\* the submission entries of the index
  local,       \* the blobId of each submission in the local store, or NoBlob
  task,        \* what each call is doing
  committed,   \* submissions whose save was reported (history variable)
  forked       \* the index left a manifest that was not this call's base,
               \* or a manifest could not be read (history variable)

vars == <<blobs, manifestAt, submissionAt, local, task, committed, forked>>

NoBlob == 0              \* also the empty blobId ""
BlobIds == 1 .. MaxBlobs
Refs == BlobIds \cup {NoBlob}
NoSubmission == 0
Operations == {"save", "update", "publish"}

(* A manifest's submissions: a function from the ids it lists to blobIds.  *)
Manifests == UNION {[listed -> Refs] : listed \in SUBSET Ids}
EmptyManifest == [id \in {} |-> NoBlob]

(* A bundle holds a submission (or none, a form bundle), the manifest and  *)
(* the form; a bare record has neither manifest nor form.                  *)
Blobs == [submission : Ids \cup {NoSubmission}, manifest : Manifests, form : BOOLEAN]

IdleTask == [pc |-> "idle", op |-> "save", id |-> NoSubmission, base |-> NoBlob,
             bundle |-> NoBlob, next |-> EmptyManifest]

-----------------------------------------------------------------------------
(* createManifest: the entry of this submission goes in with an empty      *)
(* blobId, the others are copied, the newest submission comes first.       *)

WithEntryFor(id, ref, manifest) ==
  [listed \in DOMAIN manifest \cup {id} |-> IF listed = id THEN ref ELSE manifest[listed]]

(* Mutant of NextManifest: the other entries are not copied.               *)
NextManifest_ForgetsOthers(manifest, id) == [listed \in {id} |-> NoBlob]

NextManifest(manifest, id) == WithEntryFor(id, NoBlob, manifest)

Newest(manifest) ==
  CHOOSE id \in DOMAIN manifest : \A other \in DOMAIN manifest : other <= id

(* After the upload, `nextManifest.submissions[0].blobId = bundle.blobId`. *)
Patched(manifest, bundle) == [manifest EXCEPT ![Newest(manifest)] = bundle]

(* Mutant of IndexedBy: empty references are kept.                         *)
IndexedBy_KeepsEmpty(manifest) == manifest

(* replaceSubmissionBlobIndex; readIndex drops entries with an empty blobId. *)
IndexedBy(manifest) ==
  [id \in {listed \in DOMAIN manifest : manifest[listed] # NoBlob} |-> manifest[id]]

ManifestOf(base) == IF base = NoBlob THEN EmptyManifest ELSE blobs[base].manifest

-----------------------------------------------------------------------------
Init ==
  /\ blobs = <<>>
  /\ manifestAt = NoBlob
  /\ submissionAt = EmptyManifest
  /\ local = [id \in Ids |-> NoBlob]
  /\ task = [t \in Tasks |-> IdleTask]
  /\ committed = {}
  /\ forked = FALSE

Uploaded(content) ==
  /\ Len(blobs) < MaxBlobs
  /\ blobs' = Append(blobs, content)

BundleId == Len(blobs) + 1

(* loadManifestOrThrow; a form without an index entry has no manifest.     *)
Load(t, op, id) ==
  /\ task[t].pc = "idle"
  /\ task' = [task EXCEPT ![t] = [IdleTask EXCEPT !.pc = "loaded", !.op = op,
                                                  !.id = id, !.base = manifestAt]]
  /\ UNCHANGED <<blobs, manifestAt, submissionAt, local, committed, forked>>

LoadForSave(t) == \E id \in Ids : Load(t, "save", id)
LoadForUpdate(t) == \E id \in Ids : local[id] # NoBlob /\ Load(t, "update", id)
LoadForPublish(t) == Load(t, "publish", NoSubmission)

(* saveForm goes on with a fresh manifest when the old one cannot be read. *)
PublishWithoutManifest(t) ==
  /\ task[t].pc = "idle"
  /\ manifestAt # NoBlob
  /\ task' = [task EXCEPT ![t] = [IdleTask EXCEPT !.pc = "loaded", !.op = "publish"]]
  /\ forked' = TRUE
  /\ UNCHANGED <<blobs, manifestAt, submissionAt, local, committed>>

(* Mutant of WriteBundle: the form is left out of the bundle.              *)
WriteBundle_WithoutForm(t) ==
  /\ task[t].pc = "loaded"
  /\ task[t].base # NoBlob
  /\ task[t].op \in {"save", "update"}
  /\ LET next == NextManifest(ManifestOf(task[t].base), task[t].id)
     IN  /\ Uploaded([submission |-> task[t].id, manifest |-> next, form |-> FALSE])
         /\ task' = [task EXCEPT ![t].pc = "written", ![t].bundle = BundleId,
                                 ![t].next = Patched(next, BundleId)]
  /\ UNCHANGED <<manifestAt, submissionAt, local, committed, forked>>

(* The bundle is uploaded with the manifest as it is before the patch.     *)
WriteBundle(t) ==
  /\ task[t].pc = "loaded"
  /\ task[t].base # NoBlob
  /\ task[t].op \in {"save", "update"}
  /\ LET next == NextManifest(ManifestOf(task[t].base), task[t].id)
     IN  /\ Uploaded([submission |-> task[t].id, manifest |-> next, form |-> TRUE])
         /\ task' = [task EXCEPT ![t].pc = "written", ![t].bundle = BundleId,
                                 ![t].next = Patched(next, BundleId)]
  /\ UNCHANGED <<manifestAt, submissionAt, local, committed, forked>>

(* Without a manifest the record is uploaded alone.                        *)
WriteRecord(t) ==
  /\ task[t].pc = "loaded"
  /\ task[t].base = NoBlob
  /\ task[t].op \in {"save", "update"}
  /\ Uploaded([submission |-> task[t].id, manifest |-> EmptyManifest, form |-> FALSE])
  /\ task' = [task EXCEPT ![t].pc = "written", ![t].bundle = BundleId]
  /\ UNCHANGED <<manifestAt, submissionAt, local, committed, forked>>

WriteForm(t) ==
  /\ task[t].pc = "loaded"
  /\ task[t].op = "publish"
  /\ Uploaded([submission |-> NoSubmission, manifest |-> ManifestOf(task[t].base),
               form |-> TRUE])
  /\ task' = [task EXCEPT ![t].pc = "written", ![t].bundle = BundleId]
  /\ UNCHANGED <<manifestAt, submissionAt, local, committed, forked>>

(* The call throws: a failed read or upload, a refused wallet, a reload.   *)
Abandon(t) ==
  /\ task[t].pc # "idle"
  /\ task' = [task EXCEPT ![t] = IdleTask]
  /\ UNCHANGED <<blobs, manifestAt, submissionAt, local, committed, forked>>

-----------------------------------------------------------------------------
(* The synchronous tail of a call: index, then local store.                *)

Done(t) == task' = [task EXCEPT ![t] = IdleTask]
MoveIndex(t) ==
  /\ manifestAt' = task[t].bundle
  /\ forked' = (forked \/ manifestAt # task[t].base)

(* A save replaces the local copy, an update changes one that is there.    *)
Keep(id, ref) == local' = [local EXCEPT ![id] = ref]

(* Mutant of CommitBundle: the first entry is taken for this submission.   *)
CommitBundle_KeepsFirstEntry(t) ==
  /\ task[t].pc = "written"
  /\ task[t].op \in {"save", "update"}
  /\ task[t].base # NoBlob
  /\ MoveIndex(t)
  /\ submissionAt' = IndexedBy(task[t].next)
  /\ Keep(Newest(task[t].next), task[t].bundle)
  /\ committed' = committed \cup {task[t].id}
  /\ Done(t)
  /\ UNCHANGED blobs

CommitBundle(t) ==
  /\ task[t].pc = "written"
  /\ task[t].op \in {"save", "update"}
  /\ task[t].base # NoBlob
  /\ MoveIndex(t)
  /\ submissionAt' = IndexedBy(task[t].next)
  /\ Keep(task[t].id, task[t].bundle)
  /\ committed' = committed \cup {task[t].id}
  /\ Done(t)
  /\ UNCHANGED blobs

(* localStorage is full: the index has moved, the local copy is not kept   *)
(* and the save throws.                                                    *)
CommitBundleUnkept(t) ==
  /\ task[t].pc = "written"
  /\ task[t].op \in {"save", "update"}
  /\ task[t].base # NoBlob
  /\ MoveIndex(t)
  /\ submissionAt' = IndexedBy(task[t].next)
  /\ Done(t)
  /\ UNCHANGED <<blobs, local, committed>>

(* upsertSubmissionBlobIndex; no manifest lists the record.                *)
CommitRecord(t) ==
  /\ task[t].pc = "written"
  /\ task[t].op \in {"save", "update"}
  /\ task[t].base = NoBlob
  /\ submissionAt' = WithEntryFor(task[t].id, task[t].bundle, submissionAt)
  /\ Keep(task[t].id, task[t].bundle)
  /\ committed' = committed \cup {task[t].id}
  /\ forked' = TRUE
  /\ Done(t)
  /\ UNCHANGED <<blobs, manifestAt>>

CommitForm(t) ==
  /\ task[t].pc = "written"
  /\ task[t].op = "publish"
  /\ MoveIndex(t)
  /\ Done(t)
  /\ UNCHANGED <<blobs, submissionAt, local, committed>>

(* Opening a shared link or loading the form from the chain points the     *)
(* index at the bundle that was published then.                            *)
FollowLink ==
  /\ \E b \in DOMAIN blobs :
       /\ blobs[b].form
       /\ blobs[b].submission = NoSubmission
       /\ b # manifestAt
       /\ manifestAt' = b
  /\ forked' = TRUE
  /\ UNCHANGED <<blobs, submissionAt, local, task, committed>>

Next ==
  \/ \E t \in Tasks :
       \/ LoadForSave(t) \/ LoadForUpdate(t) \/ LoadForPublish(t)
       \/ PublishWithoutManifest(t)
       \/ WriteBundle(t) \/ WriteRecord(t) \/ WriteForm(t)
       \/ CommitBundle(t) \/ CommitBundleUnkept(t) \/ CommitRecord(t) \/ CommitForm(t)
       \/ Abandon(t)
  \/ FollowLink

Spec == Init /\ [][Next]_vars

-----------------------------------------------------------------------------
(* The variables have the shape the adapter gives them, every pointer      *)
(* names a blob that was uploaded, and no submission entry of the index is *)
(* empty.                                                                  *)
ManifestTypeOK ==
  /\ blobs \in Seq(Blobs) /\ Len(blobs) <= MaxBlobs
  /\ manifestAt \in Refs /\ manifestAt <= Len(blobs)
  /\ submissionAt \in Manifests
  /\ \A id \in DOMAIN submissionAt : submissionAt[id] \in DOMAIN blobs
  /\ local \in [Ids -> Refs] /\ \A id \in Ids : local[id] <= Len(blobs)
  /\ task \in [Tasks -> [pc : {"idle", "loaded", "written"}, op : Operations,
                         id : Ids \cup {NoSubmission}, base : Refs, bundle : Refs,
                         next : Manifests]]
  /\ committed \subseteq Ids /\ forked \in BOOLEAN

(* loadManifestOrThrow refuses a bundled pointer whose bundle has no form: *)
(* no save, update, publish or link leaves the index at such a blob, so    *)
(* the next call can go on from it.                                        *)
IndexNamesACarrier == manifestAt # NoBlob => blobs[manifestAt].form

(* A submission whose save was reported can be read back from this         *)
(* browser: its local copy names a blob that holds that very submission,   *)
(* also when saves of several submissions overlap.                         *)
CommittedStaysReachable ==
  \A id \in committed : local[id] # NoBlob /\ blobs[local[id]].submission = id

(* The manifest the index names lists every reported submission, unless    *)
(* calls overlapped, a stale link was followed, a manifest was unreadable  *)
(* or missing: those are the only ways to lose an entry.                   *)
OnlyForksLoseEntries ==
  ~forked /\ manifestAt # NoBlob => committed \subseteq DOMAIN blobs[manifestAt].manifest
=============================================================================
