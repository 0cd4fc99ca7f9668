----------------------------- MODULE FormVersions -----------------------------
(***************************************************************************)
(* The versions of one published form in the browser of its owner: the     *)
(* builder page that opens and publishes it (FormBuilderPage,              *)
(* useCreateFormPublish), the Walrus adapter that decides on the version   *)
(* and chains the manifests (walrusAdapter.saveForm), the local store that *)
(* decides again (localStorageAdapter.saveForm), and the form pages that   *)
(* open a shared link (usePublicFormLoader) and answer it.  Both decisions *)
(* look for existing responses in what this browser knows.                 *)
(*                                                                         *)
(* A form is its version, the hash of its question structure and the blob  *)
(* it says it is in.  A bundle holds a form and a manifest; "base" and     *)
(* "from" are history: the bundle it was made from, and the version the    *)
(* publishing page had open.                                               *)
(***************************************************************************)
EXTENDS Naturals, Sequences, FiniteSets

CONSTANTS
    Editors,        \* builder pages that have the form open for editing
    Hashes,         \* structures the questions can have
    Replies,        \* form pages, each for one submission of this browser
    MaxBundles,     \* bound on the bundles uploaded
    MaxVersion      \* bound on the versions the local store reaches

ASSUME VersionsAssumption == MaxBundles \in Nat \ {0} /\ MaxVersion \in Nat

VARIABLES
    bundles,        \* every bundle uploaded for the form; its place is its id
    index,          \* the bundle the blob index names, NoBundle if none
    store,          \* the form in the local store
    page,           \* the form each form page has open, or NoForm
    answer,         \* what each submission says it answers, or NoForm
    kept,           \* submissions in the local store
    editor,         \* what each builder page is doing
    parted          \* history: index and store were not written as a pair

versionsVars == <<bundles, index, store, page, answer, kept, editor, parted>>

NoBundle == 0           \* also a form blob that is only local
BundleRefs == 0..MaxBundles
Versions == Nat \ {0}

Form == [version : Versions, hash : Hashes, blob : BundleRefs]
NoForm == [version |-> 0]

(* A version entry names the blob of its form and the hash of its shape.   *)
Entry == [form : BundleRefs, hash : Hashes]

IsManifest(manifest) ==
    /\ manifest.current \in Versions
    /\ manifest.listed \subseteq Replies
    /\ DOMAIN manifest.versions \subseteq Versions
    /\ \A v \in DOMAIN manifest.versions : manifest.versions[v] \in Entry

IsBundle(bundle) ==
    /\ bundle.form \in [version : Versions, hash : Hashes]
    /\ IsManifest(bundle.manifest)
    /\ bundle.base \in BundleRefs
    /\ bundle.from \in Versions

Shut == [step |-> "closed"]

EditorType ==
    {Shut}
    \cup [step : {"editing"}, opened : Form]
    \cup [step : {"saving"}, opened : Form, base : BundleRefs]

(* Bundles, pages and the local store have the shapes the code gives them. *)
VersionsTypeOK ==
    /\ DOMAIN bundles = 1..Len(bundles) /\ Len(bundles) <= MaxBundles
    /\ \A b \in DOMAIN bundles : IsBundle(bundles[b])
    /\ index \in 0..Len(bundles)
    /\ store \in Form
    /\ page \in [Replies -> Form \cup {NoForm}]
    /\ answer \in [Replies -> Form \cup {NoForm}]
    /\ kept \subseteq Replies
    /\ editor \in [Editors -> EditorType]
    /\ parted \in BOOLEAN

(* The entry of the version that a manifest calls current.                 *)
CurrentEntry(manifest) == manifest.versions[manifest.current]

-----------------------------------------------------------------------------
(* Mutant of WithEntry: an entry that is there keeps its hash, as it keeps *)
(* its blob.                                                               *)
WithEntry_KeepsHash(versions, version, hash, carrier) ==
    [v \in DOMAIN versions \cup {version} |->
       IF v \in DOMAIN versions THEN versions[v] ELSE [hash |-> hash, form |-> carrier]]

(* createManifest: the entry of the current version is replaced.  One that *)
(* was there keeps its blob, also when the structure is another.           *)
WithEntry(versions, version, hash, carrier) ==
    [v \in DOMAIN versions \cup {version} |->
       IF v # version THEN versions[v]
       ELSE [hash |-> hash,
             form |-> IF version \in DOMAIN versions THEN versions[version].form
                                                     ELSE carrier]]

NoManifest == [current |-> 1, listed |-> {}, versions |-> [v \in {} |-> NoBundle]]
ManifestAt(b) == IF b = NoBundle THEN NoManifest ELSE bundles[b].manifest

(* Mutant of NextVersion: only a page that is behind gets the next         *)
(* version.                                                                *)
NextVersion_BehindOnly(manifest, version, hash) ==
    IF /\ manifest.listed # {}
       /\ CurrentEntry(manifest).hash # hash
       /\ version < manifest.current
    THEN manifest.current + 1
    ELSE version

(* saveForm: a structure that differs from the one that was answered gets  *)
(* the next version, unless the page says a newer one than the manifest.   *)
NextVersion(manifest, version, hash) ==
    IF /\ manifest.listed # {}
       /\ CurrentEntry(manifest).hash # hash
       /\ version <= manifest.current
    THEN manifest.current + 1
    ELSE version

(* Mutant of NextLocalVersion: the local store counts every edit, a light  *)
(* one as well.                                                            *)
NextLocalVersion_AnyEdit(version, hash) ==
    IF kept # {} /\ version <= store.version THEN store.version + 1 ELSE version

(* The local store decides by its own form and its own answers.            *)
NextLocalVersion(version, hash) ==
    IF kept # {} /\ store.hash # hash /\ version <= store.version
    THEN store.version + 1
    ELSE version

(* Mutant of KeepForm: the blob of the form that was there is kept.        *)
KeepForm_KeepsBlob(version, hash, blob) ==
    /\ NextLocalVersion(version, hash) <= MaxVersion
    /\ store' = [store EXCEPT !.version = NextLocalVersion(version, hash), !.hash = hash]

KeepForm(version, hash, blob) ==
    /\ NextLocalVersion(version, hash) <= MaxVersion
    /\ store' = [version |-> NextLocalVersion(version, hash), hash |-> hash, blob |-> blob]

Published(version, hash, base, from) ==
    [form |-> [version |-> version, hash |-> hash],
     manifest |->
       [current |-> version,
        listed |-> ManifestAt(base).listed,
        versions |-> WithEntry(ManifestAt(base).versions, version, hash, Len(bundles) + 1)],
     base |-> base, from |-> from]

(* The form has just been published, or could only be kept locally.        *)
FirstBundle(hash) ==
    [form |-> [version |-> 1, hash |-> hash],
     manifest |-> [current |-> 1, listed |-> {},
                   versions |-> [v \in {1} |-> [form |-> 1, hash |-> hash]]],
     base |-> NoBundle, from |-> 1]

VersionsInit ==
    /\ \E hash \in Hashes :
         \/ /\ store = [version |-> 1, hash |-> hash, blob |-> 1]
            /\ bundles = <<FirstBundle(hash)>> /\ index = 1
         \/ /\ store = [version |-> 1, hash |-> hash, blob |-> NoBundle]
            /\ bundles = <<>> /\ index = NoBundle
    /\ page = [s \in Replies |-> NoForm]
    /\ answer = [s \in Replies |-> NoForm]
    /\ kept = {}
    /\ editor = [e \in Editors |-> Shut]
    /\ parted = (index = NoBundle)

(* The form a bundle carries, as its readers name it.                      *)
FormAt(b) ==
    [version |-> bundles[b].form.version, hash |-> bundles[b].form.hash, blob |-> b]

-----------------------------------------------------------------------------
(* The builder page loads the form once; the local copy stands in when the *)
(* blob cannot be read.                                                    *)
Open(e) ==
    /\ editor[e].step = "closed"
    /\ \/ /\ index # NoBundle
          /\ editor' = [editor EXCEPT ![e] = [step |-> "editing", opened |-> FormAt(index)]]
       \/ editor' = [editor EXCEPT ![e] = [step |-> "editing", opened |-> store]]
    /\ UNCHANGED <<bundles, index, store, page, answer, kept, parted>>

(* handleSubmit up to the read of the manifest, which may fail.  What the  *)
(* page then publishes is its draft, here a structure chosen below.        *)
handleSubmit(e) ==
    /\ editor[e].step = "editing"
    /\ \E base \in {index, NoBundle} :
         editor' = [editor EXCEPT
           ![e] = [step |-> "saving", opened |-> @.opened, base |-> base]]
    /\ UNCHANGED <<bundles, index, store, page, answer, kept, parted>>

Upload(bundle) ==
    /\ Len(bundles) < MaxBundles
    /\ bundles' = Append(bundles, bundle)
    /\ index' = Len(bundles) + 1

(* The upload is back: index and local copy move together.                 *)
Publish(e, hash) ==
    /\ editor[e].step = "saving"
    /\ LET x == editor[e]
           version == NextVersion(ManifestAt(x.base), x.opened.version, hash)
       IN /\ Upload(Published(version, hash, x.base, x.opened.version))
          /\ KeepForm(version, hash, index')
          /\ parted' = (parted \/ x.base # index)
    /\ editor' = [editor EXCEPT ![e] = Shut]
    /\ UNCHANGED <<page, answer, kept>>

(* The local store is full: the index has moved, the publish fails, and    *)
(* the page stays as it is, for another try.                               *)
PublishUnkept(e, hash) ==
    /\ editor[e].step = "saving"
    /\ LET x == editor[e]
           version == NextVersion(ManifestAt(x.base), x.opened.version, hash)
       IN Upload(Published(version, hash, x.base, x.opened.version))
    /\ parted' = TRUE
    /\ editor' = [editor EXCEPT ![e] = [step |-> "editing", opened |-> @.opened]]
    /\ UNCHANGED <<store, page, answer, kept>>

(* withWriteFallback: the upload failed and the form is kept locally, with *)
(* the blob of the form the page had opened.                               *)
KeepLocally(e, hash) ==
    /\ editor[e].step = "saving"
    /\ KeepForm(editor[e].opened.version, hash, editor[e].opened.blob)
    /\ parted' = TRUE
    /\ editor' = [editor EXCEPT ![e] = Shut]
    /\ UNCHANGED <<bundles, index, page, answer, kept>>

(* The wallet refused, Walrus is required, or the tab was closed meanwhile. *)
PublishFails(e) ==
    /\ editor[e].step = "saving"
    /\ editor' = [editor EXCEPT ![e] = [step |-> "editing", opened |-> @.opened]]
    /\ UNCHANGED <<bundles, index, store, page, answer, kept, parted>>

Leave(e) ==
    /\ editor[e].step = "editing"
    /\ editor' = [editor EXCEPT ![e] = Shut]
    /\ UNCHANGED <<bundles, index, store, page, answer, kept, parted>>

-----------------------------------------------------------------------------
(* A shared link names a bundle, which need not be the newest.  The page   *)
(* saves its form in the local store, which may take it for an edit and    *)
(* count a version nobody published, and moves the index to it, whose      *)
(* manifest may not list the answers that were given since.                *)
OpenLink(s, b) ==
    /\ page[s] = NoForm
    /\ page' = [page EXCEPT ![s] = FormAt(b)]
    /\ KeepForm(bundles[b].form.version, bundles[b].form.hash, b)
    /\ index' = b
    /\ parted' = (\/ parted
                  \/ store'.version # bundles[b].form.version
                  \/ ~(kept \subseteq bundles[b].manifest.listed))
    /\ UNCHANGED <<bundles, answer, kept, editor>>

(* A link without a manifest opens what the local store has.               *)
OpenStored(s) ==
    /\ page[s] = NoForm
    /\ page' = [page EXCEPT ![s] = store]
    /\ UNCHANGED <<bundles, index, store, answer, kept, editor, parted>>

(* saveSubmissionRecord: the bundle carries the form and the manifest the  *)
(* index names by now, with this submission in its list; what it answers   *)
(* is the form its page has open.  (How such saves and publishes           *)
(* interleave with each other is module WalrusManifest.)                   *)
AnswerHere(s) ==
    /\ page[s] # NoForm /\ answer[s] = NoForm
    /\ index # NoBundle
    /\ answer' = [answer EXCEPT ![s] = page[s]]
    /\ LET manifest == bundles[index].manifest
       IN Upload([form |-> bundles[index].form,
                  manifest |->
                    [manifest EXCEPT
                       !.listed = @ \cup {s},
                       !.versions = WithEntry(@, manifest.current,
                                              CurrentEntry(manifest).hash,
                                              Len(bundles) + 1)],
                  base |-> index, from |-> manifest.current])
    /\ kept' = kept \cup {s}
    /\ UNCHANGED <<store, page, editor, parted>>

(* An answer that cannot be uploaded is kept locally.                      *)
AnswerLocally(s) ==
    /\ page[s] # NoForm /\ answer[s] = NoForm
    /\ answer' = [answer EXCEPT ![s] = page[s]]
    /\ kept' = kept \cup {s}
    /\ parted' = TRUE
    /\ UNCHANGED <<bundles, index, store, page, editor>>

VersionsNext ==
    \/ \E e \in Editors :
         \/ Open(e) \/ handleSubmit(e) \/ PublishFails(e) \/ Leave(e)
         \/ \E hash \in Hashes :
              Publish(e, hash) \/ PublishUnkept(e, hash) \/ KeepLocally(e, hash)
    \/ \E s \in Replies :
         \/ \E b \in DOMAIN bundles : OpenLink(s, b)
         \/ OpenStored(s) \/ AnswerHere(s) \/ AnswerLocally(s)

VersionsSpec == VersionsInit /\ [][VersionsNext]_versionsVars

-----------------------------------------------------------------------------
(***************************************************************************)
(* Whoever reads a bundle learns the same version and structure from its   *)
(* form as from its manifest, whatever pages published in between and      *)
(* whether the version was taken from the page or was the next one         *)
(* (walrusAdapter.ts:1935-1951, createManifest).                           *)
(***************************************************************************)
CarrierDescribesItself ==
    \A b \in DOMAIN bundles :
        LET bundle == bundles[b] IN
        /\ bundle.manifest.current = bundle.form.version
        /\ bundle.form.version \in DOMAIN bundle.manifest.versions
        /\ CurrentEntry(bundle.manifest).hash = bundle.form.hash

(* The answers of a manifest that are listed under the structure they were *)
(* given to.                                                               *)
Attached(s, manifest) ==
    /\ answer[s] # NoForm
    /\ answer[s].version \in DOMAIN manifest.versions
    /\ manifest.versions[answer[s].version].hash = answer[s].hash

KeepsAttached(b) ==
    bundles[b].base # NoBundle =>
        LET before == bundles[bundles[b].base].manifest IN
        \A s \in before.listed :
            Attached(s, before) => Attached(s, bundles[b].manifest)

(* The page had open what its manifest calls current, and that is newest.  *)
OpenedNewest(b) ==
    bundles[b].base # NoBundle =>
        LET before == bundles[bundles[b].base].manifest IN
        /\ bundles[b].from = before.current
        /\ \A v \in DOMAIN before.versions : v <= before.current

(***************************************************************************)
(* A publish from a page that has the newest version open leaves every     *)
(* listed answer under the structure it was given to, also when answers    *)
(* came in, the structure went back to an earlier one or an earlier        *)
(* publish of the page failed half-way (walrusAdapter.ts:1930-1941).       *)
(***************************************************************************)
NewestPageKeepsAnswers ==
    \A b \in DOMAIN bundles :
        OpenedNewest(b) => KeepsAttached(b)

(***************************************************************************)
(* The form blob that an answer names carries the version and structure    *)
(* the answer was given to, whichever link was opened, whatever was        *)
(* published while the page was open, as long as local store and index     *)
(* were only written together (storageSeal.ts:745-752,                     *)
(* usePublicFormLoader.ts:330-342).                                        *)
(***************************************************************************)
AnswerNamesItsForm ==
    ~parted => \A s \in Replies : answer[s] # NoForm => answer[s] = FormAt(answer[s].blob)

(***************************************************************************)
(* The local store and the blob index decide on the version separately and *)
(* come to the same one, as long as each publish starts from the manifest  *)
(* the index still names, every form and answer reaches both of them and   *)
(* no old link was opened after answers came in                            *)
(* (localStorageAdapter.ts:148-165, walrusAdapter.ts:1930-1938).           *)
(***************************************************************************)
StoreFollowsIndex ==
    ~parted => /\ store.version = bundles[index].form.version
               /\ store.hash = bundles[index].form.hash

(***************************************************************************)
(* What the builder says before it publishes a new version: existing       *)
(* responses remain attached to their original question structure.         *)
(***************************************************************************)
AnswersStayAttached == \A b \in DOMAIN bundles : KeepsAttached(b)

=============================================================================
