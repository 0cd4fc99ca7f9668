------------------------------ MODULE FormRemoval ------------------------------
(***************************************************************************)
(* The list of forms in the dashboard and the removal of forms from it     *)
(* (AdminDashboardWorkspace, useSignalInboxData): loads of the list, the   *)
(* restore of missing forms that runs behind a load, the registration of a *)
(* form on Sui and removals with their wallet prompt, in one tab.          *)
(*                                                                         *)
(* A row of the list is a form of this browser or a shadow, which stands   *)
(* for a form that only Sui knows.  Two forms with one manifest are        *)
(* aliases of one node.  Forms of one project; none has answers.           *)
(***************************************************************************)
EXTENDS Naturals, FiniteSets

CONSTANTS
  Forms,        \* form ids this browser has seen
  ManifestBlobs, \* manifest blobs they were published with
  NoLocalForm,   \* the form of a shadow row
  Removals,     \* runs of handleDelete that can overlap
  MaxOnchain,   \* bound: forms ever registered on Sui
  MaxEvents     \* bound: what the owner, others and the tab do of themselves,
                \* and the errors of the tab

ASSUME RemovalAssumption ==
  /\ NoLocalForm \notin Forms
  /\ Forms \cap Nat = {}
  /\ MaxOnchain \in Nat /\ MaxEvents \in Nat

VARIABLES
  manifestOf,   \* the manifest of each form; never changes
  chain,        \* forms of the project on Sui, with their sourceFormId
  minted,       \* on-chain form ids given so far
  projects,     \* the forms on Sui as the page fetched them last
  stored,       \* deepsignal.forms
  indexed,      \* forms in deepsignal.walrus.index
  onchainIdOf,  \* onchainFormId in the record or the overlay, 0 if none
  tombstones,   \* deepsignal.deletedFormTombstones
  screen,       \* the rows on screen, which formsRef follows
  stable,       \* lastStableFormsRef
  load,         \* the newest load and the restore behind it
  orphans,      \* restores nobody waits for any more
  removal,      \* the runs of handleDelete
  deletingForm, \* deletingFormId
  late,         \* transactions still in the wallet after their timeout
  registering,  \* the row that is being registered on Sui
  events,       \* how much of MaxEvents is used
  keptRows,     \* history: rows that a fallback or a registration put there,
                \* or that an abandoned removal or a failed load left there
  outlived      \* history: manifests that outlived their removal, which a
                \* reload or an error cut off or a registration undid

chainVars == <<chain, minted, late>>
storeVars == <<stored, indexed, onchainIdOf>>
viewVars == <<screen, stable, keptRows>>
removalVars == <<removal, deletingForm, tombstones, outlived>>
formVars == <<manifestOf, chainVars, projects, storeVars, viewVars, load, orphans,
              removalVars, registering, events>>

OnchainIds == 1 .. MaxOnchain
OnchainForm == [id : OnchainIds, form : Forms]
Row == [form : Forms \cup {NoLocalForm}, onchain : 0 .. MaxOnchain]
RowIds == Forms \cup OnchainIds

NoLoad == [step |-> "none", projects |-> {}, listed |-> {}, restored |-> {}]
NoRemoval == [step |-> "idle", bulk |-> FALSE, clicked |-> {}, rows |-> {},
              manifests |-> {}, targets |-> {}, projects |-> {}]
(* An event of its own.                                                    *)
Happens == events < MaxEvents /\ events' = events + 1

NotRegistering == [step |-> "idle", form |-> NoLocalForm, onchain |-> 0]

(* The stores, the list and the runs have the shapes the code gives them,  *)
(* and the list shows a form once.                                         *)
RemovalTypeOK ==
  /\ manifestOf \in [Forms -> ManifestBlobs]
  /\ chain \subseteq OnchainForm /\ projects \subseteq OnchainForm
  /\ minted \in 0 .. MaxOnchain
  /\ stored \subseteq Forms /\ indexed \subseteq Forms
  /\ onchainIdOf \in [Forms -> 0 .. MaxOnchain]
  /\ tombstones \in [rows : SUBSET RowIds, manifests : SUBSET ManifestBlobs,
                     onchain : SUBSET OnchainIds]
  /\ screen \subseteq Row /\ stable \subseteq Row /\ keptRows \subseteq Row
  /\ \A r, s \in screen : r.form = s.form /\ r.form # NoLocalForm => r = s
  /\ load \in [step : {"none", "listing", "restoring"}, projects : SUBSET OnchainForm,
               listed : (SUBSET OnchainForm) \cup (SUBSET Forms), restored : SUBSET Row]
  /\ orphans \subseteq OnchainForm
  /\ removal \in [Removals ->
       [step : {"idle", "remote", "refetch", "purge"}, bulk : BOOLEAN,
        clicked : SUBSET RowIds, rows : SUBSET RowIds, manifests : SUBSET ManifestBlobs,
        targets : SUBSET OnchainIds, projects : SUBSET OnchainForm]]
  /\ deletingForm \in RowIds \cup {NoLocalForm}
  /\ late \subseteq SUBSET OnchainIds
  /\ registering \in [step : {"idle", "wallet", "reporting"}, form : Forms \cup {NoLocalForm},
                      onchain : 0 .. MaxOnchain]
  /\ outlived \subseteq ManifestBlobs
  /\ events \in 0 .. MaxEvents

(* A browser that published, registered and imported forms; what is on Sui *)
(* may have been registered elsewhere.                                     *)
RemovalInit ==
  /\ manifestOf \in [Forms -> ManifestBlobs]
  /\ stored \in SUBSET Forms /\ indexed \in SUBSET Forms
  /\ chain \in SUBSET OnchainForm
  /\ \A k, l \in chain : (k.id = l.id \/ k.form = l.form) => k = l
  /\ minted = Cardinality(chain) /\ \A k \in chain : k.id <= minted
  /\ onchainIdOf \in [Forms -> 0 .. MaxOnchain]
  /\ \A f \in Forms : onchainIdOf[f] # 0 =>
       f \in stored \cup indexed /\ [id |-> onchainIdOf[f], form |-> f] \in chain
  /\ projects = chain
  /\ tombstones = [rows |-> {}, manifests |-> {}, onchain |-> {}]
  /\ screen = {} /\ stable = {} /\ keptRows = {}
  /\ load = NoLoad /\ orphans = {}
  /\ removal = [d \in Removals |-> NoRemoval]
  /\ deletingForm = NoLocalForm
  /\ late = {} /\ registering = NotRegistering /\ outlived = {}
  /\ events = 0

-----------------------------------------------------------------------------
(* Rows *)

Shadow(id) == [form |-> NoLocalForm, onchain |-> id]
RowOf(f) == [form |-> f, onchain |-> onchainIdOf[f]]
RowId(row) == IF row.form = NoLocalForm THEN row.onchain ELSE row.form
RowManifests(row) == {manifestOf[f] : f \in {row.form} \cap Forms}

(* isDeletedFormTombstone *)
Hidden(row) ==
  \/ RowId(row) \in tombstones.rows
  \/ RowManifests(row) \cap tombstones.manifests # {}
  \/ row.onchain \in tombstones.onchain

(* Mutant of Visible: the list trusts the stores.                          *)
Visible_Everything(rows) == rows

(* The filters of loadConsole and of the restore behind it.                *)
Visible(rows) == {r \in rows : ~Hidden(r)}

(* mergeFormsWithProjectRegistry: a form on Sui that no row names gets a   *)
(* shadow, which has no manifest.                                          *)
WithShadows(rows, onchain) ==
  rows \cup {s \in {Shadow(k.id) : k \in onchain} :
               ~Hidden(s) /\ \A r \in rows : r.onchain # s.onchain}

SameNode(r, s) ==
  \/ r.form = s.form /\ r.form # NoLocalForm
  \/ r.onchain = s.onchain /\ r.onchain # 0
  \/ RowManifests(r) \cap RowManifests(s) # {}

(* mergeFormsById: of the rows of one node the first one stays, and the    *)
(* restored rows come first; else it depends on the order of the rows.     *)
Merges(merged, restored, rows) ==
  /\ merged \subseteq restored \cup rows
  /\ \A r, s \in merged : SameNode(r, s) => r = s
  /\ \A r \in rows : \E s \in merged : r = s \/ SameNode(r, s)
  /\ \A r \in restored : \E s \in merged \cap restored : r = s \/ SameNode(r, s)

(* setForms, with the effect that keeps the refs up to date.               *)
Show(rows) ==
  /\ screen' = rows
  /\ stable' = IF rows = {} THEN stable ELSE rows

-----------------------------------------------------------------------------
(* Loads *)

(* loadConsole, called with what its render knew of Sui; the restore       *)
(* behind the load before goes on without anybody waiting for it.          *)
Begin(onchain, listed) ==
  /\ load' = [NoLoad EXCEPT !.step = "listing", !.projects = onchain, !.listed = listed]
  /\ orphans' = IF load.step = "restoring" THEN orphans \cup load.listed ELSE orphans

(* The button, or the effect on what is on Sui after a refetch.            *)
loadConsole(refetches) ==
  /\ Happens
  /\ projects' = IF refetches THEN chain ELSE projects
  /\ Begin(projects', stored \cup indexed)
  /\ UNCHANGED <<manifestOf, chainVars, storeVars, viewVars, removalVars, registering>>

(* The list arrives; forms whose blob could not be read are missing unless *)
(* they are in the local store.  From here on "listed" is what the restore *)
(* still has to read.                                                      *)
FinishListing(unread) ==
  LET own  == Visible({RowOf(f) : f \in load.listed \ unread})
      next == Visible(WithShadows(own, load.projects))
      rows == IF next = {} THEN stable ELSE next
  IN
  /\ load.step = "listing"
  /\ unread \subseteq load.listed \ stored
  /\ Show(rows)
  /\ keptRows' = rows \ next
  /\ load' = [load EXCEPT !.step = "restoring",
                !.listed = {k \in load.projects : \A r \in own : r.onchain # k.id}]
  /\ UNCHANGED <<manifestOf, chainVars, projects, storeVars, orphans, removalVars, registering, events>>

(* Reading the list fails; what is on screen stays, removed rows included. *)
ListingFails ==
  /\ Happens
  /\ load.step = "listing"
  /\ load' = NoLoad
  /\ keptRows' = keptRows \cup (screen \ Visible(screen))
  /\ UNCHANGED <<manifestOf, chainVars, projects, storeVars, screen, stable, orphans, removalVars,
                 registering>>

-----------------------------------------------------------------------------
(* The restore of forms that only Sui names *)

RestoredRow(k) == [form |-> k.form, onchain |-> k.id]

(* Mutant of MayRestore: the tombstones are not asked.                     *)
MayRestore_Unasked(k) == TRUE

(* restoreProjectFormFromManifest asks once, after the manifest was read.  *)
MayRestore(k) == ~Hidden(RestoredRow(k))

(* It then writes the form, the overlay and the index, whoever waits.      *)
KeepRestored(k) ==
  /\ stored' = stored \cup {k.form}
  /\ indexed' = indexed \cup {k.form}
  /\ onchainIdOf' = [onchainIdOf EXCEPT ![k.form] = k.id]

Restore(k) ==
  /\ load.step = "restoring" /\ k \in load.listed
  /\ MayRestore(k)
  /\ KeepRestored(k)
  /\ load' = [load EXCEPT !.listed = @ \ {k}, !.restored = @ \cup {RestoredRow(k)}]
  /\ UNCHANGED <<manifestOf, chainVars, projects, viewVars, orphans, removalVars, registering, events>>

(* The manifest cannot be read, names another form or is tombstoned; or    *)
(* the 2.5 s are over, and the reading goes on.                            *)
RestoreFails(k, timeout) ==
  /\ load.step = "restoring" /\ k \in load.listed
  /\ load' = [load EXCEPT !.listed = @ \ {k}]
  /\ orphans' = IF timeout THEN orphans \cup {k} ELSE orphans
  /\ UNCHANGED <<manifestOf, chainVars, projects, storeVars, viewVars, removalVars, registering, events>>

OrphanEnds(k) ==
  /\ k \in orphans
  /\ orphans' = orphans \ {k}
  /\ \/ MayRestore(k) /\ KeepRestored(k)
     \/ UNCHANGED storeVars
  /\ UNCHANGED <<manifestOf, chainVars, projects, viewVars, load, removalVars, registering, events>>

FinishRestore ==
  /\ load.step = "restoring" /\ load.listed = {} /\ load.restored # {}
  /\ \E merged \in SUBSET (load.restored \cup screen) :
       /\ Merges(merged, load.restored, screen)
       /\ Show(Visible(WithShadows(merged, load.projects)))
  /\ keptRows' = {}
  /\ load' = NoLoad
  /\ UNCHANGED <<manifestOf, chainVars, projects, storeVars, orphans, removalVars, registering, events>>

-----------------------------------------------------------------------------
(* Removal *)

(* buildProjectFormIdentityKey *)
SameIdentity(r, s) ==
  \/ r.onchain = s.onchain /\ r.onchain # 0
  \/ r.onchain = 0 /\ s.onchain = 0 /\ RowManifests(r) \cap RowManifests(s) # {}

(* resolveOnchainDeleteTarget: the id in the row, or that of a form on Sui *)
(* with its manifest.                                                      *)
DeleteTargets(row) ==
  IF row.onchain # 0 THEN {row.onchain}
  ELSE {k.id : k \in {l \in projects : manifestOf[l.form] \in RowManifests(row)}}

(* deleteNodes marks everything that is the same node as a clicked row     *)
(* before it does anything else.                                           *)
deleteNodes(d, clicked, bulk) ==
  LET asked     == {r \in screen : RowId(r) \in clicked}
      same      == {r \in screen : \E a \in asked : r = a \/ SameIdentity(r, a)}
      manifests == UNION {RowManifests(r) : r \in same}
      ids       == {RowId(r) : r \in same} \cup {f \in indexed : manifestOf[f] \in manifests}
      marked    == {r \in screen : RowId(r) \in ids}
  IN
  /\ tombstones' =
       [rows |-> tombstones.rows \cup {RowId(r) : r \in marked},
        manifests |-> tombstones.manifests \cup manifests
                        \cup UNION {RowManifests(r) : r \in marked},
        onchain |-> tombstones.onchain \cup ({r.onchain : r \in marked} \ {0})]
  /\ \E targets \in SUBSET UNION {DeleteTargets(r) : r \in marked} :
       /\ \A r \in marked : DeleteTargets(r) # {} => DeleteTargets(r) \cap targets # {}
       /\ \A t \in targets : \E r \in marked : DeleteTargets(r) \cap targets = {t}
       /\ removal' = [removal EXCEPT ![d] =
            [step |-> "remote", bulk |-> bulk, clicked |-> clicked, rows |-> ids,
             manifests |-> manifests, targets |-> targets, projects |-> projects]]

(* The button of a row, and the one for all rows.                          *)
handleDelete(d, r) ==
  /\ Happens
  /\ removal[d].step = "idle"
  /\ \A e \in Removals : ~removal[e].bulk
  /\ r \in screen /\ RowId(r) # deletingForm
  /\ deletingForm' = RowId(r)
  /\ deleteNodes(d, {RowId(r)}, FALSE)
  /\ UNCHANGED <<manifestOf, chainVars, projects, storeVars, viewVars, load, orphans,
                 registering, outlived>>

handleDeleteVisibleNodes(d) ==
  /\ Happens
  /\ removal[d].step = "idle"
  /\ \A e \in Removals : ~removal[e].bulk
  /\ screen # {}
  /\ deletingForm' = NoLocalForm
  /\ deleteNodes(d, {RowId(r) : r \in screen}, TRUE)
  /\ UNCHANGED <<manifestOf, chainVars, projects, storeVars, viewVars, load, orphans,
                 registering, outlived>>

Go(d, step) == removal' = [removal EXCEPT ![d].step = step]

Executes(targets) == chain' = {k \in chain : k.id \notin targets}

(* One transaction removes all targets or, when one is gone already, none; *)
(* then the batch only says that it handled nothing.                       *)
RemoteRemoves(d) ==
  /\ removal[d].step = "remote"
  /\ \/ removal[d].targets \subseteq {k.id : k \in chain} /\ Executes(removal[d].targets)
     \/ removal[d].targets \ {k.id : k \in chain} # {} /\ UNCHANGED chain
  /\ Go(d, IF removal[d].targets = {} THEN "purge" ELSE "refetch")
  /\ UNCHANGED <<manifestOf, minted, late, projects, storeVars, viewVars, load, orphans,
                 deletingForm, tombstones, outlived, registering, events>>

(* It is refused, or the 15 s are over: it may be signed later.            *)
RemoteFails(d, timeout) ==
  /\ removal[d].step = "remote"
  /\ late' = IF timeout /\ removal[d].targets # {} THEN late \cup {removal[d].targets} ELSE late
  /\ Go(d, "purge")
  /\ UNCHANGED <<manifestOf, chain, minted, projects, storeVars, viewVars, load, orphans,
                 deletingForm, tombstones, outlived, registering, events>>

LateAnswer(targets) ==
  /\ targets \in late
  /\ late' = late \ {targets}
  /\ \/ targets \subseteq {k.id : k \in chain} /\ Executes(targets)
     \/ UNCHANGED chain
  /\ UNCHANGED <<manifestOf, minted, projects, storeVars, viewVars, load, orphans,
                 removalVars, registering, events>>

(* refetchProjects, and the load the new answer starts.                    *)
Refetch(d) ==
  /\ removal[d].step = "refetch"
  /\ projects' = chain
  /\ Begin(chain, stored \cup indexed)
  /\ Go(d, "purge")
  /\ UNCHANGED <<manifestOf, chainVars, storeVars, viewVars, deletingForm, tombstones,
                 outlived, registering, events>>

(* The forms a run takes out of the stores.                                *)
PurgedBy(run) ==
  {f \in Forms : f \in run.rows \/
     (f \in stored \cup indexed /\ manifestOf[f] \in run.manifests)}

PurgesStores(purged) ==
  /\ stored' = stored \ purged /\ indexed' = indexed \ purged
  /\ onchainIdOf' = [f \in Forms |-> IF f \in purged THEN 0 ELSE onchainIdOf[f]]

(* The finally block of both buttons.                                      *)
Ends(d) ==
  /\ removal' = [removal EXCEPT ![d] = NoRemoval]
  /\ deletingForm' = IF removal[d].bulk THEN deletingForm ELSE NoLocalForm

(* deleteFormsFromLocalCache and forcePurgeFormArtifacts, which follow     *)
(* each other without waiting for anything else; then applyFormRemovals    *)
(* and a load that knows what the click knew of Sui.                       *)
Purge(d) ==
  LET run    == removal[d]
      purged == PurgedBy(run)
      left   == {r \in screen : RowId(r) \notin run.clicked}
  IN
  /\ run.step = "purge"
  /\ PurgesStores(purged)
  /\ screen' = left
  /\ stable' = IF left # {} THEN left ELSE {r \in stable : RowId(r) \notin run.clicked}
  /\ keptRows' = keptRows \cap left
  /\ outlived' = outlived \ run.manifests
  /\ Begin(run.projects, (stored \cup indexed) \ purged)
  /\ Ends(d)
  /\ UNCHANGED <<manifestOf, chainVars, projects, tombstones, registering, events>>

(* The code of the remote removal or of the purge does not load, or the    *)
(* activity log is full after the purge.  Only a toast tells: the rows     *)
(* stay on screen, and no load follows.  Before the purge the adapter may  *)
(* have deleted the forms the wallet owns.                                 *)
RemovalFails(d, purged) ==
  LET run == removal[d] IN
  /\ Happens
  /\ \/ run.step = "remote" /\ purged = {}
     \/ /\ run.step = "purge"
        /\ purged \subseteq run.rows \/ purged = PurgedBy(run)
  /\ PurgesStores(purged)
  /\ keptRows' = keptRows \cup (screen \ Visible(screen))
  /\ outlived' = IF purged = PurgedBy(run) THEN outlived \ run.manifests
                 ELSE outlived \cup run.manifests
  /\ Ends(d)
  /\ UNCHANGED <<manifestOf, chainVars, projects, screen, stable, load, orphans, tombstones,
                 registering>>

-----------------------------------------------------------------------------
(* Registration of a form on Sui *)

handleRegisterNodeOnSui(r) ==
  /\ Happens
  /\ registering.step = "idle"
  /\ \A d \in Removals : ~removal[d].bulk
  /\ r \in screen /\ r.form # NoLocalForm /\ r.onchain = 0
  /\ registering' = [step |-> "wallet", form |-> r.form, onchain |-> 0]
  /\ UNCHANGED <<manifestOf, chainVars, projects, storeVars, viewVars, load, orphans, removalVars>>

RegistrationExecutes ==
  /\ registering.step = "wallet" /\ minted < MaxOnchain
  /\ minted' = minted + 1
  /\ chain' = chain \cup {[id |-> minted', form |-> registering.form]}
  /\ registering' = [registering EXCEPT !.step = "reporting", !.onchain = minted']
  /\ UNCHANGED <<manifestOf, late, projects, storeVars, viewVars, load, orphans, removalVars, events>>

RegistrationFails ==
  /\ registering.step # "idle"
  /\ registering' = NotRegistering
  /\ UNCHANGED <<manifestOf, chainVars, projects, storeVars, viewVars, load, orphans, removalVars, events>>

(* cleanupRegisteredFormLocalFallback and applyFormUpdate, neither of      *)
(* which knows of tombstones.                                              *)
RegistrationReports ==
  LET f   == registering.form
      row == [form |-> f, onchain |-> registering.onchain]
  IN
  /\ registering.step = "reporting"
  /\ stored' = {g \in stored : manifestOf[g] # manifestOf[f]} \cup {f}
  /\ onchainIdOf' = [onchainIdOf EXCEPT ![f] = registering.onchain]
  /\ Show({r \in screen : r.form # f} \cup {row})
  /\ keptRows' = keptRows \cup {row}
  /\ outlived' = outlived \cup ({manifestOf[f]} \cap tombstones.manifests)
  /\ registering' = NotRegistering
  /\ UNCHANGED <<manifestOf, chainVars, projects, indexed, load, orphans, removal, deletingForm,
                 tombstones, events>>

-----------------------------------------------------------------------------
(* Somebody else removes a form on Sui. *)
RemovedElsewhere(k) ==
  /\ Happens
  /\ k \in chain
  /\ chain' = chain \ {k}
  /\ UNCHANGED <<manifestOf, minted, late, projects, storeVars, viewVars, load, orphans,
                 removalVars, registering>>

(* A reload of the tab keeps the stores, and what the wallet still shows.  *)
ReloadDashboard ==
  /\ Happens
  /\ screen' = {} /\ stable' = {} /\ keptRows' = {}
  /\ load' = NoLoad /\ orphans' = {}
  /\ removal' = [d \in Removals |-> NoRemoval] /\ deletingForm' = NoLocalForm
  /\ registering' = NotRegistering
  /\ projects' = chain
  /\ outlived' = outlived \cup UNION {removal[d].manifests : d \in Removals}
  /\ UNCHANGED <<manifestOf, chainVars, storeVars, tombstones>>

RemovalNext ==
  \/ \E refetches \in BOOLEAN : loadConsole(refetches)
  \/ \E unread \in SUBSET Forms : FinishListing(unread)
  \/ ListingFails
  \/ \E k \in OnchainForm :
       \/ Restore(k) \/ OrphanEnds(k) \/ RemovedElsewhere(k)
       \/ \E timeout \in BOOLEAN : RestoreFails(k, timeout)
  \/ FinishRestore
  \/ \E r \in Row : handleRegisterNodeOnSui(r)
  \/ \E d \in Removals :
       \/ \E r \in Row : handleDelete(d, r)
       \/ handleDeleteVisibleNodes(d)
       \/ RemoteRemoves(d) \/ Refetch(d) \/ Purge(d)
       \/ \E purged \in SUBSET Forms : RemovalFails(d, purged)
       \/ \E timeout \in BOOLEAN : RemoteFails(d, timeout)
  \/ \E targets \in SUBSET OnchainIds : LateAnswer(targets)
  \/ RegistrationExecutes \/ RegistrationFails \/ RegistrationReports
  \/ ReloadDashboard

RemovalSpec == RemovalInit /\ [][RemovalNext]_formVars

-----------------------------------------------------------------------------
Removing == \E d \in Removals : removal[d].step # "idle"

(* A row that is tombstoned is not on screen once its removal and the load *)
(* that follows are over, whatever loads, restores and refetches were      *)
(* under way.  Four paths of the code leave or bring one there until the   *)
(* next load: the list of before is kept when a load finds no form at all  *)
(* (useSignalInboxData.ts:1170), a load fails (1420), a registration that  *)
(* ends late shows its row (1793), and an error between the tombstones and *)
(* the purge abandons the removal (AdminDashboardWorkspace.tsx:5856).      *)
RemovedStaysHidden ==
  \A r \in screen :
    Hidden(r) => Removing \/ load.step = "listing" \/ r \in keptRows

(* Once a removal is over nothing of its manifest is left in the stores of *)
(* this browser, although restores that were reading that manifest write   *)
(* without being waited for, unless a reload or an error cut the removal   *)
(* off (AdminDashboardWorkspace.tsx:5699-5787, 5856) or a registration of  *)
(* the form that ended after the click wrote it back; a removal of what is *)
(* left that runs to its end takes it away.                                *)
PurgedStaysPurged ==
  \A f \in stored \cup indexed :
    manifestOf[f] \in tombstones.manifests => Removing \/ manifestOf[f] \in outlived

=============================================================================
