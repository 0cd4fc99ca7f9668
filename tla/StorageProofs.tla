---------------------------- MODULE StorageProofs ----------------------------
(***************************************************************************)
(* Proofs about FormRemoval for every number of forms, manifests, removals *)
(* and registrations and any number of events, and about the storage layer *)
(* that MCStorage composes.                                                *)
(***************************************************************************)
EXTENDS MCStorage, ManifestProofs, RelayProofs, FiniteSetTheorems

-----------------------------------------------------------------------------
(* FormRemoval                                                             *)

(* Every row of a list stands for something, and a form has one row.       *)
IsList(rows) ==
  /\ rows \subseteq Row
  /\ \A r \in rows : r.form = NoLocalForm => r.onchain # 0
  /\ \A r, s \in rows : r.form = s.form /\ r.form # NoLocalForm => r = s

ChainOK ==
  /\ chain \subseteq OnchainForm /\ projects \subseteq OnchainForm
  /\ minted \in 0 .. MaxOnchain
  /\ late \subseteq SUBSET OnchainIds

StoresOK ==
  /\ manifestOf \in [Forms -> ManifestBlobs]
  /\ stored \subseteq Forms /\ indexed \subseteq Forms
  /\ onchainIdOf \in [Forms -> 0 .. MaxOnchain]

ListsOK == IsList(screen) /\ IsList(stable) /\ keptRows \subseteq Row

(* A load lists the forms of this browser, and what its restore has left   *)
(* to read is on Sui.                                                      *)
LoadOK ==
  /\ load \in [step : {"none", "listing", "restoring"}, projects : SUBSET OnchainForm,
               listed : (SUBSET OnchainForm) \cup (SUBSET Forms), restored : SUBSET Row]
  /\ load.step = "listing" => load.listed \subseteq Forms
  /\ load.step = "restoring" => load.listed \subseteq OnchainForm
  /\ \A r \in load.restored : r.form \in Forms
  /\ orphans \subseteq OnchainForm

RemovalType ==
  [step : {"idle", "remote", "refetch", "purge"}, bulk : BOOLEAN,
   clicked : SUBSET RowIds, rows : SUBSET RowIds, manifests : SUBSET ManifestBlobs,
   targets : SUBSET OnchainIds, projects : SUBSET OnchainForm]

RemovalsOK ==
  /\ tombstones \in [rows : SUBSET RowIds, manifests : SUBSET ManifestBlobs,
                     onchain : SUBSET OnchainIds]
  /\ removal \in [Removals -> RemovalType]
  /\ deletingForm \in RowIds \cup {NoLocalForm}
  /\ outlived \subseteq ManifestBlobs

RegisteringOK ==
  /\ registering \in [step : {"idle", "wallet", "reporting"}, form : Forms \cup {NoLocalForm},
                      onchain : 0 .. MaxOnchain]
  /\ registering.step # "idle" => registering.form \in Forms

ShapeOK ==
  /\ ChainOK /\ StoresOK /\ ListsOK /\ LoadOK /\ RemovalsOK /\ RegisteringOK
  /\ events \in 0 .. MaxEvents

LEMMA ShapeIsType == ShapeOK => RemovalTypeOK
  BY DEF ShapeOK, RemovalTypeOK, ChainOK, StoresOK, ListsOK, LoadOK, RemovalsOK,
         RegisteringOK, RemovalType, IsList

(* What is left of a tombstoned manifest belongs to a removal that is      *)
(* still to purge that very manifest, or outlived its removal.             *)
PurgeIsComing ==
  \A f \in stored \cup indexed :
    manifestOf[f] \in tombstones.manifests =>
      \/ \E d \in Removals : removal[d].step # "idle" /\ manifestOf[f] \in removal[d].manifests
      \/ manifestOf[f] \in outlived

-----------------------------------------------------------------------------
(* Rows *)

LEMMA RowShape ==
  ASSUME StoresOK, NEW f \in Forms
  PROVE  RowOf(f) \in Row /\ RowOf(f).form = f
  BY RemovalAssumption DEF RowOf, Row, StoresOK

LEMMA ShadowShape ==
  ASSUME NEW id \in OnchainIds
  PROVE  /\ Shadow(id) \in Row /\ Shadow(id).form = NoLocalForm
         /\ Shadow(id).onchain = id /\ id # 0
  BY RemovalAssumption DEF Shadow, Row, OnchainIds

LEMMA SublistIsList ==
  ASSUME NEW rows, IsList(rows), NEW some \in SUBSET rows
  PROVE  IsList(some)
  BY DEF IsList

LEMMA VisibleIsList ==
  ASSUME NEW rows, IsList(rows)
  PROVE  IsList(Visible(rows))
  BY SublistIsList DEF Visible

LEMMA ShadowsAreList ==
  ASSUME NEW rows, IsList(rows), NEW onchain \in SUBSET OnchainForm
  PROVE  IsList(WithShadows(rows, onchain))
<1>1. \A k \in onchain : k.id \in OnchainIds
  BY DEF OnchainForm
<1>2. \A s \in WithShadows(rows, onchain) :
        s \in rows \/ \E id \in OnchainIds : s = Shadow(id)
  BY <1>1 DEF WithShadows
<1> QED  BY <1>2, ShadowShape DEF IsList

(* The forms of this browser, each by its own row.                         *)
LEMMA OwnRowsAreList ==
  ASSUME StoresOK, NEW forms \in SUBSET Forms
  PROVE  IsList({RowOf(f) : f \in forms})
  BY RowShape, RemovalAssumption DEF IsList

LEMMA MergedIsList ==
  ASSUME NEW merged, NEW restored \in SUBSET Row, IsList(screen),
         \A r \in restored : r.form \in Forms,
         Merges(merged, restored, screen)
  PROVE  IsList(merged)
  BY RemovalAssumption DEF IsList, Merges, SameNode

LEMMA RowIdShape ==
  ASSUME NEW rows, IsList(rows), NEW r \in rows
  PROVE  /\ r \in Row /\ RowId(r) \in RowIds
         /\ \A s \in rows : RowId(r) = RowId(s) /\ r.form # NoLocalForm => r = s
         /\ r.onchain \in OnchainIds \cup {0}
<1>1. r \in Row /\ r.form \in Forms \cup {NoLocalForm} /\ r.onchain \in 0 .. MaxOnchain
  BY DEF IsList, Row
<1>2. RowId(r) \in RowIds
  BY <1>1, RemovalAssumption DEF RowId, RowIds, OnchainIds, IsList
<1>3. ASSUME NEW s \in rows, RowId(r) = RowId(s), r.form # NoLocalForm
      PROVE  r = s
  <2>1. s.form = NoLocalForm => RowId(s) \in Nat
    BY RemovalAssumption DEF IsList, Row, RowId
  <2>2. RowId(r) = r.form /\ r.form \in Forms
    BY <1>1, <1>3 DEF RowId
  <2>3. s.form # NoLocalForm
    BY <1>3, <2>1, <2>2, RemovalAssumption
  <2>4. RowId(s) = s.form
    BY <2>3 DEF RowId
  <2> QED  BY <1>3, <2>2, <2>3, <2>4 DEF IsList
<1> QED  BY <1>1, <1>2, <1>3, RemovalAssumption DEF OnchainIds

LEMMA ManifestsOfRows ==
  ASSUME StoresOK, NEW rows
  PROVE  UNION {RowManifests(r) : r \in rows} \subseteq ManifestBlobs
  BY DEF RowManifests, StoresOK

-----------------------------------------------------------------------------
(* The shapes, action by action                                            *)

LEMMA ShapeInit == RemovalInit => ShapeOK
<1> SUFFICES ASSUME RemovalInit PROVE ShapeOK
  OBVIOUS
<1>1. ChainOK
  <2> DEFINE id == [k \in chain |-> k.id]
  <2>1. id \in Injection(chain, OnchainIds)
    BY DEF RemovalInit, OnchainForm, Injection, IsInjective
  <2>2. IsFiniteSet(OnchainIds) /\ Cardinality(OnchainIds) = MaxOnchain
    BY FS_Interval, RemovalAssumption DEF OnchainIds
  <2>3. IsFiniteSet(chain) /\ Cardinality(chain) <= MaxOnchain
    BY <2>1, <2>2, FS_Injection
  <2>4. Cardinality(chain) \in Nat
    BY <2>3, FS_CardinalityType
  <2> QED  BY <2>3, <2>4, RemovalAssumption DEF RemovalInit, ChainOK
<1>2. StoresOK /\ ListsOK
  BY DEF RemovalInit, StoresOK, ListsOK, IsList
<1>3. LoadOK
  BY DEF RemovalInit, LoadOK, NoLoad
<1>4. RemovalsOK
  BY DEF RemovalInit, RemovalsOK, RemovalType, NoRemoval
<1>5. RegisteringOK /\ events \in 0 .. MaxEvents
  BY RemovalAssumption DEF RemovalInit, RegisteringOK, NotRegistering
<1> QED  BY <1>1, <1>2, <1>3, <1>4, <1>5 DEF ShapeOK

LEMMA HappensShape ==
  ASSUME events \in 0 .. MaxEvents, Happens
  PROVE  events' \in 0 .. MaxEvents
  BY RemovalAssumption DEF Happens

LEMMA BeginShape ==
  ASSUME LoadOK, NEW onchain \in SUBSET OnchainForm, NEW listed \in SUBSET Forms,
         Begin(onchain, listed)
  PROVE  LoadOK'
<1>1. load' = [step |-> "listing", projects |-> onchain, listed |-> listed, restored |-> {}]
  BY DEF Begin, NoLoad
<1>2. orphans' \subseteq OnchainForm
  BY DEF Begin, LoadOK
<1> QED  BY <1>1, <1>2 DEF LoadOK

LEMMA ShowShape ==
  ASSUME ListsOK, NEW rows, IsList(rows), Show(rows)
  PROVE  IsList(screen') /\ IsList(stable')
  BY DEF Show, ListsOK

LEMMA loadConsoleShape ==
  ASSUME ShapeOK, NEW refetches \in BOOLEAN, loadConsole(refetches)
  PROVE  ShapeOK'
<1> USE DEF ShapeOK, loadConsole
<1>1. ChainOK' /\ StoresOK' /\ ListsOK' /\ RemovalsOK' /\ RegisteringOK'
  BY DEF ChainOK, StoresOK, ListsOK, RemovalsOK, RegisteringOK, chainVars, storeVars,
         viewVars, removalVars
<1>2. LoadOK'
  <2>1. projects' \in SUBSET OnchainForm /\ stored \cup indexed \in SUBSET Forms
    BY DEF ChainOK, StoresOK
  <2> QED  BY <2>1, BeginShape
<1> QED  BY <1>1, <1>2, HappensShape

LEMMA FinishListingShape ==
  ASSUME ShapeOK, NEW unread \in SUBSET Forms, FinishListing(unread)
  PROVE  ShapeOK'
<1> DEFINE own  == Visible({RowOf(f) : f \in load.listed \ unread})
           next == Visible(WithShadows(own, load.projects))
           rows == IF next = {} THEN stable ELSE next
<1> USE DEF ShapeOK
<1>1. ChainOK' /\ StoresOK' /\ RemovalsOK' /\ RegisteringOK' /\ events' \in 0 .. MaxEvents
  BY DEF FinishListing, ChainOK, StoresOK, RemovalsOK, RegisteringOK, chainVars, storeVars,
         removalVars
<1>2. ListsOK'
  <2>1. load.listed \ unread \in SUBSET Forms /\ load.projects \in SUBSET OnchainForm
    BY DEF FinishListing, LoadOK
  <2>2. IsList(next)
    BY <2>1, OwnRowsAreList, VisibleIsList, ShadowsAreList
  <2>3. IsList(rows)
    BY <2>2 DEF ListsOK
  <2>4. Show(rows) /\ keptRows' = rows \ next
    BY DEF FinishListing
  <2> QED  BY <2>3, <2>4, ShowShape DEF ListsOK, IsList
<1>3. LoadOK'
  BY DEF FinishListing, LoadOK
<1> QED  BY <1>1, <1>2, <1>3

LEMMA KeepRestoredShape ==
  ASSUME StoresOK, NEW k \in OnchainForm, KeepRestored(k), manifestOf' = manifestOf
  PROVE  StoresOK'
  BY DEF StoresOK, KeepRestored, OnchainForm, OnchainIds

LEMMA RestoreShape ==
  ASSUME ShapeOK, NEW k \in OnchainForm, Restore(k)
  PROVE  ShapeOK'
<1> USE DEF ShapeOK, Restore
<1>1. ChainOK' /\ ListsOK' /\ RemovalsOK' /\ RegisteringOK' /\ events' \in 0 .. MaxEvents
  BY DEF ChainOK, ListsOK, RemovalsOK, RegisteringOK, chainVars, viewVars, removalVars
<1>2. StoresOK'
  BY KeepRestoredShape
<1>3. LoadOK'
  <2>1. RestoredRow(k) \in Row /\ RestoredRow(k).form \in Forms
    BY DEF RestoredRow, Row, OnchainForm, OnchainIds
  <2> QED  BY <2>1 DEF LoadOK
<1> QED  BY <1>1, <1>2, <1>3

LEMMA RestoreFailsShape ==
  ASSUME ShapeOK, NEW k \in OnchainForm, NEW timeout \in BOOLEAN, RestoreFails(k, timeout)
  PROVE  ShapeOK'
<1> USE DEF ShapeOK, RestoreFails
<1>1. /\ ChainOK' /\ StoresOK' /\ ListsOK' /\ RemovalsOK' /\ RegisteringOK'
      /\ events' \in 0 .. MaxEvents
  BY DEF ChainOK, StoresOK, ListsOK, RemovalsOK, RegisteringOK, chainVars, storeVars,
         viewVars, removalVars
<1>2. LoadOK'
  BY DEF LoadOK
<1> QED  BY <1>1, <1>2

LEMMA OrphanEndsShape ==
  ASSUME ShapeOK, NEW k \in OnchainForm, OrphanEnds(k)
  PROVE  ShapeOK'
<1> USE DEF ShapeOK, OrphanEnds
<1>1. ChainOK' /\ ListsOK' /\ RemovalsOK' /\ RegisteringOK' /\ events' \in 0 .. MaxEvents
  BY DEF ChainOK, ListsOK, RemovalsOK, RegisteringOK, chainVars, viewVars, removalVars
<1>2. StoresOK'
  BY KeepRestoredShape DEF StoresOK, storeVars
<1>3. LoadOK'
  BY DEF LoadOK
<1> QED  BY <1>1, <1>2, <1>3

LEMMA FinishRestoreShape ==
  ASSUME ShapeOK, FinishRestore
  PROVE  ShapeOK'
<1> USE DEF ShapeOK
<1>1. /\ ChainOK' /\ StoresOK' /\ RemovalsOK' /\ RegisteringOK' /\ LoadOK'
      /\ events' \in 0 .. MaxEvents
  BY DEF FinishRestore, ChainOK, StoresOK, RemovalsOK, RegisteringOK, LoadOK, NoLoad,
         chainVars, storeVars, removalVars
<1>2. ListsOK'
  <2>1. PICK merged \in SUBSET (load.restored \cup screen) :
          /\ Merges(merged, load.restored, screen)
          /\ Show(Visible(WithShadows(merged, load.projects)))
    BY DEF FinishRestore
  <2>2. IsList(merged) /\ load.projects \in SUBSET OnchainForm
    BY <2>1, MergedIsList DEF LoadOK, ListsOK
  <2>3. IsList(Visible(WithShadows(merged, load.projects)))
    BY <2>2, ShadowsAreList, VisibleIsList
  <2> QED  BY <2>1, <2>3, ShowShape DEF FinishRestore, ListsOK
<1> QED  BY <1>1, <1>2

(* What a click on a delete button changes.                                *)
LEMMA DeleteNodesShape ==
  ASSUME ShapeOK, NEW d \in Removals, NEW clicked \in SUBSET RowIds, NEW bulk \in BOOLEAN,
         deleteNodes(d, clicked, bulk), deletingForm' \in RowIds \cup {NoLocalForm},
         outlived' = outlived
  PROVE  RemovalsOK'
<1> DEFINE asked     == {r \in screen : RowId(r) \in clicked}
           same      == {r \in screen : \E a \in asked : r = a \/ SameIdentity(r, a)}
           manifests == UNION {RowManifests(r) : r \in same}
           ids       == {RowId(r) : r \in same} \cup {f \in indexed : manifestOf[f] \in manifests}
           marked    == {r \in screen : RowId(r) \in ids}
<1>1. manifests \in SUBSET ManifestBlobs /\ UNION {RowManifests(r) : r \in marked} \subseteq ManifestBlobs
  BY ManifestsOfRows DEF ShapeOK
<1>2. \A r \in screen : RowId(r) \in RowIds /\ r.onchain \in OnchainIds \cup {0}
  BY RowIdShape DEF ShapeOK, ListsOK
<1>3. ids \in SUBSET RowIds
  BY <1>2 DEF ShapeOK, StoresOK, RowIds
<1>4. {r.onchain : r \in marked} \ {0} \subseteq OnchainIds
  BY <1>2
<1>5. tombstones' \in [rows : SUBSET RowIds, manifests : SUBSET ManifestBlobs,
                       onchain : SUBSET OnchainIds]
  <2>1. tombstones' =
       [rows |-> tombstones.rows \cup {RowId(r) : r \in marked},
        manifests |-> tombstones.manifests \cup manifests
                        \cup UNION {RowManifests(r) : r \in marked},
        onchain |-> tombstones.onchain \cup ({r.onchain : r \in marked} \ {0})]
    BY DEF deleteNodes
  <2>2. /\ tombstones.rows \subseteq RowIds /\ tombstones.manifests \subseteq ManifestBlobs
        /\ tombstones.onchain \subseteq OnchainIds
    BY DEF ShapeOK, RemovalsOK
  <2>3. {RowId(r) : r \in marked} \subseteq RowIds
    BY <1>2
  <2> HIDE DEF marked, manifests
  <2> QED  BY <1>1, <1>4, <2>1, <2>2, <2>3
<1>6. \A r \in marked : DeleteTargets(r) \subseteq OnchainIds
  BY <1>2 DEF DeleteTargets, ShapeOK, ChainOK, OnchainForm
<1>7. PICK targets \in SUBSET UNION {DeleteTargets(r) : r \in marked} :
        removal' = [removal EXCEPT ![d] =
            [step |-> "remote", bulk |-> bulk, clicked |-> clicked, rows |-> ids,
             manifests |-> manifests, targets |-> targets, projects |-> projects]]
  BY DEF deleteNodes
<1>8. targets \in SUBSET OnchainIds
  BY <1>6
<1>9. [step |-> "remote", bulk |-> bulk, clicked |-> clicked, rows |-> ids,
       manifests |-> manifests, targets |-> targets, projects |-> projects] \in RemovalType
  <2> HIDE DEF manifests, ids
  <2> QED  BY <1>1, <1>3, <1>8 DEF RemovalType, ShapeOK, ChainOK
<1> HIDE DEF manifests, ids
<1> QED  BY <1>5, <1>7, <1>9 DEF RemovalsOK, ShapeOK

LEMMA DeleteShape ==
  ASSUME ShapeOK, NEW d \in Removals,
         (\E r \in Row : handleDelete(d, r)) \/ handleDeleteVisibleNodes(d)
  PROVE  ShapeOK'
<1> USE DEF ShapeOK
<1>1. /\ ChainOK' /\ StoresOK' /\ ListsOK' /\ LoadOK' /\ RegisteringOK'
      /\ events' \in 0 .. MaxEvents
  BY HappensShape
     DEF handleDelete, handleDeleteVisibleNodes, ChainOK, StoresOK, ListsOK, LoadOK,
         RegisteringOK, chainVars, storeVars, viewVars
<1>2. \A r \in screen : RowId(r) \in RowIds
  BY RowIdShape DEF ListsOK
<1>3. ASSUME NEW r \in Row, handleDelete(d, r) PROVE RemovalsOK'
  <2>1. {RowId(r)} \in SUBSET RowIds /\ deletingForm' \in RowIds \cup {NoLocalForm}
    BY <1>2, <1>3 DEF handleDelete
  <2> QED  BY <1>3, <2>1, DeleteNodesShape DEF handleDelete
<1>4. ASSUME handleDeleteVisibleNodes(d) PROVE RemovalsOK'
  <2>1. {RowId(r) : r \in screen} \in SUBSET RowIds
    BY <1>2
  <2> QED  BY <1>4, <2>1, DeleteNodesShape DEF handleDeleteVisibleNodes
<1> QED  BY <1>1, <1>3, <1>4

LEMMA GoShape ==
  ASSUME RemovalsOK, NEW d \in Removals, NEW step \in {"remote", "refetch", "purge"}, Go(d, step),
         UNCHANGED <<deletingForm, tombstones, outlived>>
  PROVE  RemovalsOK'
  BY DEF RemovalsOK, RemovalType, Go

LEMMA RemoteShape ==
  ASSUME ShapeOK, NEW d \in Removals,
         RemoteRemoves(d) \/ \E timeout \in BOOLEAN : RemoteFails(d, timeout)
  PROVE  ShapeOK'
<1> USE DEF ShapeOK
<1>1. StoresOK' /\ ListsOK' /\ LoadOK' /\ RegisteringOK' /\ events' \in 0 .. MaxEvents
  BY DEF RemoteRemoves, RemoteFails, StoresOK, ListsOK, LoadOK, RegisteringOK, storeVars,
         viewVars
<1>2. removal[d].targets \subseteq OnchainIds
  BY DEF RemovalsOK, RemovalType
<1>3. ChainOK'
  BY <1>2 DEF RemoteRemoves, RemoteFails, Executes, ChainOK
<1>4. RemovalsOK'
  BY GoShape DEF RemoteRemoves, RemoteFails
<1> QED  BY <1>1, <1>3, <1>4

LEMMA LateAnswerShape ==
  ASSUME ShapeOK, NEW targets, LateAnswer(targets)
  PROVE  ShapeOK'
  BY DEF ShapeOK, LateAnswer, Executes, ChainOK, StoresOK, ListsOK, LoadOK, RemovalsOK,
         RegisteringOK, storeVars, viewVars, removalVars

LEMMA RefetchShape ==
  ASSUME ShapeOK, NEW d \in Removals, Refetch(d)
  PROVE  ShapeOK'
<1> USE DEF ShapeOK, Refetch
<1>1. /\ ChainOK' /\ StoresOK' /\ ListsOK' /\ RegisteringOK'
      /\ events' \in 0 .. MaxEvents
  BY DEF ChainOK, StoresOK, ListsOK, RegisteringOK, chainVars, storeVars, viewVars
<1>2. LoadOK'
  BY BeginShape DEF ChainOK, StoresOK
<1>3. RemovalsOK'
  BY GoShape
<1> QED  BY <1>1, <1>2, <1>3

(* An error leaves the rows it can see.                                    *)
LEMMA LeavesList ==
  ASSUME ListsOK, UNCHANGED <<screen, stable>>,
         keptRows' = keptRows \cup (screen \ Visible(screen))
  PROVE  ListsOK'
<1>1. screen \subseteq Row
  BY DEF ListsOK, IsList
<1>2. keptRows' \subseteq Row
  BY <1>1 DEF ListsOK
<1> QED  BY <1>2 DEF ListsOK

LEMMA PurgesShape ==
  ASSUME StoresOK, NEW purged, PurgesStores(purged), manifestOf' = manifestOf
  PROVE  StoresOK'
  BY RemovalAssumption DEF PurgesStores, StoresOK

LEMMA EndsShape ==
  ASSUME RemovalsOK, NEW d \in Removals, Ends(d), UNCHANGED tombstones,
         outlived' \subseteq ManifestBlobs
  PROVE  RemovalsOK'
<1>1. NoRemoval \in RemovalType
  BY DEF NoRemoval, RemovalType
<1> QED  BY <1>1 DEF Ends, RemovalsOK

LEMMA PurgeShape ==
  ASSUME ShapeOK, NEW d \in Removals, Purge(d)
  PROVE  ShapeOK'
<1> DEFINE run    == removal[d]
           purged == PurgedBy(run)
<1> USE DEF ShapeOK
<1>1. ChainOK' /\ RegisteringOK' /\ events' \in 0 .. MaxEvents
  BY DEF Purge, ChainOK, RegisteringOK, chainVars
<1>2. StoresOK'
  <2>1. PurgesStores(purged) /\ manifestOf' = manifestOf
    BY DEF Purge
  <2> QED  BY <2>1, PurgesShape
<1>3. ListsOK'
  BY SublistIsList DEF Purge, ListsOK
<1>4. LoadOK'
  <2>1. run.projects \in SUBSET OnchainForm
    BY DEF RemovalsOK, RemovalType
  <2>2. (stored \cup indexed) \ purged \in SUBSET Forms
    BY DEF StoresOK
  <2>3. Begin(run.projects, (stored \cup indexed) \ purged)
    BY DEF Purge
  <2> QED  BY <2>1, <2>2, <2>3, BeginShape
<1>5. RemovalsOK'
  BY EndsShape DEF Purge, RemovalsOK
<1> QED  BY <1>1, <1>2, <1>3, <1>4, <1>5

LEMMA RemovalFailsShape ==
  ASSUME ShapeOK, NEW d \in Removals, NEW purged \in SUBSET Forms, RemovalFails(d, purged)
  PROVE  ShapeOK'
<1> USE DEF ShapeOK
<1>1. ChainOK' /\ RegisteringOK' /\ LoadOK' /\ events' \in 0 .. MaxEvents
  BY HappensShape DEF RemovalFails, ChainOK, RegisteringOK, LoadOK, chainVars
<1>2. StoresOK'
  BY PurgesShape DEF RemovalFails
<1>3. ListsOK'
  BY LeavesList DEF RemovalFails
<1>4. RemovalsOK'
  <2>1. Ends(d) /\ UNCHANGED tombstones
    BY DEF RemovalFails
  <2>2. removal[d].manifests \subseteq ManifestBlobs
    BY DEF RemovalsOK, RemovalType
  <2>3. outlived' \subseteq ManifestBlobs
    BY <2>2 DEF RemovalFails, RemovalsOK
  <2> QED  BY <2>1, <2>3, EndsShape
<1> QED  BY <1>1, <1>2, <1>3, <1>4

LEMMA ListingFailsShape ==
  ASSUME ShapeOK, ListingFails
  PROVE  ShapeOK'
<1> USE DEF ShapeOK, ListingFails
<1>1. /\ ChainOK' /\ StoresOK' /\ RemovalsOK' /\ RegisteringOK'
      /\ events' \in 0 .. MaxEvents
  BY HappensShape
     DEF ChainOK, StoresOK, RemovalsOK, RegisteringOK, chainVars, storeVars, removalVars
<1>2. LoadOK'
  BY DEF LoadOK, NoLoad
<1>3. ListsOK'
  BY LeavesList
<1> QED  BY <1>1, <1>2, <1>3

LEMMA RegistrationShape ==
  ASSUME ShapeOK,
         (\E r \in Row : handleRegisterNodeOnSui(r)) \/ RegistrationExecutes \/ RegistrationFails
  PROVE  ShapeOK'
<1> USE DEF ShapeOK
<1>1. StoresOK' /\ ListsOK' /\ LoadOK' /\ RemovalsOK' /\ events' \in 0 .. MaxEvents
  BY HappensShape
     DEF handleRegisterNodeOnSui, RegistrationExecutes, RegistrationFails, StoresOK, ListsOK,
         LoadOK, RemovalsOK, storeVars, viewVars, removalVars
<1>2. RegisteringOK'
  <2>1. ASSUME NEW r \in Row, handleRegisterNodeOnSui(r) PROVE RegisteringOK'
    <3>1. r.form \in Forms
      BY <2>1 DEF handleRegisterNodeOnSui, Row
    <3> QED  BY <2>1, <3>1, RemovalAssumption DEF handleRegisterNodeOnSui, RegisteringOK
  <2>2. CASE RegistrationExecutes
    <3>1. minted' \in 0 .. MaxOnchain
      BY <2>2, RemovalAssumption DEF RegistrationExecutes, ChainOK
    <3> QED  BY <2>2, <3>1 DEF RegistrationExecutes, RegisteringOK
  <2>3. CASE RegistrationFails
    BY <2>3, RemovalAssumption DEF RegistrationFails, RegisteringOK, NotRegistering
  <2> QED  BY <2>1, <2>2, <2>3
<1>3. ChainOK'
  BY RemovalAssumption
     DEF handleRegisterNodeOnSui, RegistrationExecutes, RegistrationFails, ChainOK,
         RegisteringOK, OnchainForm, OnchainIds, chainVars
<1> QED  BY <1>1, <1>2, <1>3

LEMMA RegistrationReportsShape ==
  ASSUME ShapeOK, RegistrationReports
  PROVE  ShapeOK'
<1> DEFINE f   == registering.form
           row == [form |-> f, onchain |-> registering.onchain]
<1> USE DEF ShapeOK
<1>1. f \in Forms /\ f # NoLocalForm /\ registering.onchain \in 0 .. MaxOnchain
  BY RemovalAssumption DEF RegistrationReports, RegisteringOK
<1>2. ChainOK' /\ LoadOK' /\ RegisteringOK' /\ events' \in 0 .. MaxEvents
  BY RemovalAssumption
     DEF RegistrationReports, ChainOK, LoadOK, RegisteringOK, NotRegistering, chainVars
<1>3. StoresOK'
  BY <1>1 DEF RegistrationReports, StoresOK
<1>4. RemovalsOK'
  BY DEF RegistrationReports, RemovalsOK
<1>5. ListsOK'
  <2>1. row \in Row /\ row.form = f
    BY <1>1 DEF Row
  <2>2. IsList({r \in screen : r.form # f} \cup {row})
    BY <1>1, <2>1 DEF ListsOK, IsList
  <2>3. /\ Show({r \in screen : r.form # f} \cup {row})
        /\ keptRows' = keptRows \cup {row}
    BY DEF RegistrationReports
  <2> QED  BY <2>1, <2>2, <2>3, ShowShape DEF ListsOK
<1> QED  BY <1>2, <1>3, <1>4, <1>5

LEMMA AroundShape ==
  ASSUME ShapeOK, (\E k \in OnchainForm : RemovedElsewhere(k)) \/ ReloadDashboard
  PROVE  ShapeOK'
<1> USE DEF ShapeOK
<1>1. ChainOK' /\ StoresOK' /\ ListsOK' /\ LoadOK' /\ RegisteringOK' /\ events' \in 0 .. MaxEvents
  BY HappensShape, RemovalAssumption
     DEF RemovedElsewhere, ReloadDashboard, ChainOK, StoresOK, ListsOK, LoadOK, RegisteringOK,
         IsList, NoLoad, NotRegistering, chainVars, storeVars, viewVars
<1>2. NoRemoval \in RemovalType /\ \A d \in Removals : removal[d].manifests \subseteq ManifestBlobs
  BY DEF NoRemoval, RemovalType, RemovalsOK
<1>3. RemovalsOK'
  BY <1>2 DEF RemovedElsewhere, ReloadDashboard, RemovalsOK, removalVars
<1> QED  BY <1>1, <1>3

LEMMA ShapeStep ==
  ASSUME ShapeOK, [RemovalNext]_formVars
  PROVE  ShapeOK'
<1>1. CASE UNCHANGED formVars
  BY <1>1
     DEF formVars, chainVars, storeVars, viewVars, removalVars, ShapeOK, ChainOK, StoresOK,
         ListsOK, LoadOK, RemovalsOK, RegisteringOK
<1>2. CASE RemovalNext
  BY <1>2, loadConsoleShape, FinishListingShape, RestoreShape, RestoreFailsShape,
     OrphanEndsShape, FinishRestoreShape, DeleteShape, RemoteShape, LateAnswerShape,
     RefetchShape, PurgeShape, RemovalFailsShape, ListingFailsShape,
     RegistrationShape, RegistrationReportsShape, AroundShape
     DEF RemovalNext
<1> QED  BY <1>1, <1>2

(* Every store of the browser keeps its shape, and the list shows a form   *)
(* once: loads, restores and registrations never add a second row for it.  *)
THEOREM RemovalTypeCorrect == RemovalSpec => []RemovalTypeOK
  BY ShapeInit, ShapeStep, ShapeIsType, PTL DEF RemovalSpec

-----------------------------------------------------------------------------
(* What a removal hides stays hidden                                       *)

LEMMA HiddenStep ==
  ASSUME ShapeOK, RemovedStaysHidden, [RemovalNext]_formVars
  PROVE  RemovedStaysHidden'
<1> SUFFICES ASSUME NEW r \in screen', Hidden(r)', ~Removing', load'.step # "listing",
                    r \notin keptRows'
             PROVE  FALSE
  BY DEF RemovedStaysHidden
<1> USE DEF ShapeOK
(* A row that was there is hidden by a removal that is over.               *)
<1>1. ASSUME r \in screen, tombstones' = tombstones, manifestOf' = manifestOf,
             ~Removing \/ removal' = removal, load.step # "listing", r \notin keptRows
      PROVE  FALSE
  BY <1>1 DEF RemovedStaysHidden, Hidden, RowId, RowManifests, Removing
(* What the filter lets pass is not hidden.                                *)
<1>2. ASSUME NEW rows, r \in Visible(rows), tombstones' = tombstones, manifestOf' = manifestOf
      PROVE  FALSE
  BY <1>2 DEF Visible, Hidden, RowId, RowManifests
<1>3. CASE UNCHANGED formVars
  BY <1>1, <1>3 DEF formVars, chainVars, storeVars, viewVars, removalVars
<1>4. ASSUME NEW refetches \in BOOLEAN, loadConsole(refetches) PROVE FALSE
  BY <1>4 DEF loadConsole, Begin, NoLoad
<1>5. ASSUME NEW unread \in SUBSET Forms, FinishListing(unread) PROVE FALSE
  <2> DEFINE own  == Visible({RowOf(f) : f \in load.listed \ unread})
             next == Visible(WithShadows(own, load.projects))
             rows == IF next = {} THEN stable ELSE next
  <2>1. r \in rows /\ r \notin rows \ next
    BY <1>5 DEF FinishListing, Show
  <2> QED  BY <1>2, <1>5, <2>1 DEF FinishListing, removalVars
<1>6. ASSUME NEW k \in OnchainForm,
             \/ Restore(k) \/ OrphanEnds(k) \/ RemovedElsewhere(k)
             \/ \E timeout \in BOOLEAN : RestoreFails(k, timeout)
      PROVE  FALSE
  BY <1>1, <1>6
     DEF Restore, OrphanEnds, RemovedElsewhere, RestoreFails, viewVars, removalVars, LoadOK
<1>7. CASE FinishRestore
  BY <1>2, <1>7 DEF FinishRestore, Show, removalVars
<1>8. ASSUME NEW s \in Row, handleRegisterNodeOnSui(s) PROVE FALSE
  BY <1>1, <1>8 DEF handleRegisterNodeOnSui, viewVars, removalVars
<1>9. ASSUME NEW d \in Removals, (\E s \in Row : handleDelete(d, s)) \/ handleDeleteVisibleNodes(d)
      PROVE  FALSE
  <2>1. removal'[d].step = "remote"
    BY <1>9 DEF handleDelete, handleDeleteVisibleNodes, deleteNodes, RemovalsOK
  <2> QED  BY <2>1 DEF Removing
<1>10. ASSUME NEW d \in Removals,
              \/ RemoteRemoves(d) \/ Refetch(d)
              \/ \E timeout \in BOOLEAN : RemoteFails(d, timeout)
       PROVE  FALSE
  <2>1. \E step \in {"refetch", "purge"} : Go(d, step)
    BY <1>10 DEF RemoteRemoves, Refetch, RemoteFails
  <2>2. removal'[d].step # "idle"
    BY <2>1 DEF Go, RemovalsOK
  <2> QED  BY <2>2 DEF Removing
<1>11. ASSUME NEW d \in Removals, Purge(d) PROVE FALSE
  BY <1>11 DEF Purge, Begin, NoLoad
<1>12. ASSUME NEW targets, LateAnswer(targets) PROVE FALSE
  BY <1>1, <1>12 DEF LateAnswer, viewVars, removalVars
<1>13. CASE RegistrationExecutes \/ RegistrationFails
  BY <1>1, <1>13 DEF RegistrationExecutes, RegistrationFails, viewVars, removalVars
<1>14. CASE RegistrationReports
  <2> DEFINE row == [form |-> registering.form, onchain |-> registering.onchain]
  <2>1. r \in screen /\ r \notin keptRows
    BY <1>14 DEF RegistrationReports, Show
  <2> QED  BY <1>1, <1>14, <2>1 DEF RegistrationReports
<1>15. CASE ReloadDashboard
  BY <1>15 DEF ReloadDashboard
(* An error leaves the rows it can see, and they are remembered.           *)
<1>16. CASE \/ ListingFails
            \/ \E d \in Removals : \E purged \in SUBSET Forms : RemovalFails(d, purged)
  <2>1. /\ r \in screen /\ tombstones' = tombstones /\ manifestOf' = manifestOf
        /\ keptRows' = keptRows \cup (screen \ Visible(screen))
    BY <1>16 DEF ListingFails, RemovalFails, removalVars
  <2> QED  BY <1>2, <2>1
<1> QED
  BY <1>3, <1>4, <1>5, <1>6, <1>7, <1>8, <1>9, <1>10, <1>11, <1>12, <1>13, <1>14, <1>15,
     <1>16 DEF RemovalNext

(* A removed row is on screen only while a removal or the load after it is *)
(* under way, or because the list of before was kept, a load failed, a     *)
(* registration ended late or an error abandoned the removal: every other  *)
(* load, restore and refetch asks the tombstones last.                     *)
THEOREM RemovedIsHidden == RemovalSpec => []RemovedStaysHidden
<1>1. RemovalInit => RemovedStaysHidden
  BY DEF RemovalInit, RemovedStaysHidden
<1> QED  BY <1>1, ShapeInit, ShapeStep, HiddenStep, PTL DEF RemovalSpec

-----------------------------------------------------------------------------
(* What a removal purged stays away                                        *)

(* A click marks the manifests its removal is to purge, and no others: a   *)
(* row that is marked by its id is one of those that were found, or of a   *)
(* form with one of their manifests.                                       *)
LEMMA MarksWhatItPurges ==
  ASSUME ShapeOK, NEW d \in Removals, NEW clicked, NEW bulk, deleteNodes(d, clicked, bulk)
  PROVE  /\ tombstones'.manifests = tombstones.manifests \cup removal'[d].manifests
         /\ removal'[d].step = "remote"
         /\ \A e \in Removals \ {d} : removal'[e] = removal[e]
<1> DEFINE asked     == {r \in screen : RowId(r) \in clicked}
           same      == {r \in screen : \E a \in asked : r = a \/ SameIdentity(r, a)}
           manifests == UNION {RowManifests(r) : r \in same}
           ids       == {RowId(r) : r \in same} \cup {f \in indexed : manifestOf[f] \in manifests}
           marked    == {r \in screen : RowId(r) \in ids}
<1> USE DEF ShapeOK
<1>1. ASSUME NEW r \in marked PROVE RowManifests(r) \subseteq manifests
  <2>1. CASE r.form = NoLocalForm
    BY <2>1, RemovalAssumption DEF RowManifests
  <2>2. CASE r.form # NoLocalForm /\ \E s \in same : RowId(r) = RowId(s)
    <3>1. r \in same
      BY <2>2, RowIdShape DEF ListsOK
    <3> QED  BY <3>1
  <2>3. CASE r.form # NoLocalForm /\ RowId(r) \in {f \in indexed : manifestOf[f] \in manifests}
    BY <2>3 DEF RowId, RowManifests
  <2> QED  BY <2>1, <2>2, <2>3
<1>2. PICK targets :
        removal' = [removal EXCEPT ![d] =
            [step |-> "remote", bulk |-> bulk, clicked |-> clicked, rows |-> ids,
             manifests |-> manifests, targets |-> targets, projects |-> projects]]
  BY DEF deleteNodes
<1>3. tombstones'.manifests =
        tombstones.manifests \cup manifests \cup UNION {RowManifests(r) : r \in marked}
  BY DEF deleteNodes
<1>4. UNION {RowManifests(r) : r \in marked} \subseteq manifests
  BY <1>1
<1> HIDE DEF manifests, ids, marked
<1>5. /\ removal'[d].manifests = manifests /\ removal'[d].step = "remote"
      /\ \A e \in Removals \ {d} : removal'[e] = removal[e]
  BY <1>2 DEF RemovalsOK
<1> QED  BY <1>3, <1>4, <1>5

LEMMA PurgeStep ==
  ASSUME ShapeOK, PurgeIsComing, [RemovalNext]_formVars
  PROVE  PurgeIsComing'
<1> SUFFICES ASSUME NEW f \in stored' \cup indexed', manifestOf'[f] \in tombstones'.manifests,
                    manifestOf'[f] \notin outlived',
                    \A d \in Removals :
                      removal'[d].step = "idle" \/ manifestOf'[f] \notin removal'[d].manifests
             PROVE  FALSE
  BY DEF PurgeIsComing
<1> USE DEF ShapeOK
<1>1. manifestOf' = manifestOf
  BY DEF RemovalNext, loadConsole, FinishListing, Restore, OrphanEnds, RemovedElsewhere,
         RestoreFails, FinishRestore, handleRegisterNodeOnSui, handleDelete,
         handleDeleteVisibleNodes, RemoteRemoves, Refetch, Purge, RemoteFails, LateAnswer,
         ListingFails, RemovalFails, RegistrationExecutes, RegistrationFails,
         RegistrationReports, ReloadDashboard, formVars
(* Whatever was in the stores of a tombstoned manifest awaits its purge.   *)
<1>2. ASSUME f \in stored \cup indexed, manifestOf[f] \in tombstones.manifests,
             manifestOf[f] \notin outlived,
             \A d \in Removals : removal[d].step = "idle" \/ manifestOf[f] \notin removal[d].manifests
      PROVE  FALSE
  BY <1>2 DEF PurgeIsComing
<1>3. ASSUME UNCHANGED storeVars, UNCHANGED removalVars PROVE FALSE
  BY <1>1, <1>2, <1>3 DEF storeVars, removalVars
<1>4. CASE \/ UNCHANGED formVars
           \/ \E refetches \in BOOLEAN : loadConsole(refetches)
           \/ \E unread \in SUBSET Forms : FinishListing(unread)
           \/ \E k \in OnchainForm :
                RemovedElsewhere(k) \/ \E timeout \in BOOLEAN : RestoreFails(k, timeout)
           \/ ListingFails \/ FinishRestore
           \/ \E r \in Row : handleRegisterNodeOnSui(r)
           \/ \E targets \in SUBSET OnchainIds : LateAnswer(targets)
           \/ RegistrationExecutes \/ RegistrationFails
  BY <1>3, <1>4
     DEF formVars, loadConsole, FinishListing, ListingFails, RemovedElsewhere, RestoreFails,
         FinishRestore, handleRegisterNodeOnSui, LateAnswer, RegistrationExecutes, RegistrationFails
(* A restore that writes has asked the tombstones about its manifest.      *)
<1>5. ASSUME NEW k \in OnchainForm, Restore(k) \/ OrphanEnds(k) PROVE FALSE
  <2>1. UNCHANGED removalVars
    BY <1>5 DEF Restore, OrphanEnds
  <2>2. CASE UNCHANGED storeVars
    BY <1>3, <2>1, <2>2
  <2>3. CASE MayRestore(k) /\ KeepRestored(k)
    <3>1. k.form \in Forms /\ manifestOf[k.form] \notin tombstones.manifests
      BY <2>3 DEF MayRestore, Hidden, RowManifests, RestoredRow, OnchainForm
    <3>2. f \in stored \cup indexed
      BY <1>1, <2>1, <2>3, <3>1 DEF KeepRestored, removalVars
    <3> QED  BY <1>1, <1>2, <2>1, <3>2 DEF removalVars
  <2> QED  BY <1>5, <2>2, <2>3 DEF Restore, OrphanEnds
<1>6. ASSUME NEW d \in Removals, (\E r \in Row : handleDelete(d, r)) \/ handleDeleteVisibleNodes(d)
      PROVE  FALSE
  <2>1. /\ UNCHANGED storeVars /\ outlived' = outlived /\ removal[d].step = "idle"
        /\ \E clicked, bulk : deleteNodes(d, clicked, bulk)
    BY <1>6 DEF handleDelete, handleDeleteVisibleNodes
  <2>2. /\ tombstones'.manifests = tombstones.manifests \cup removal'[d].manifests
        /\ removal'[d].step = "remote"
        /\ \A e \in Removals \ {d} : removal'[e] = removal[e]
    BY <2>1, MarksWhatItPurges
  <2> QED  BY <1>1, <1>2, <2>1, <2>2 DEF storeVars
<1>7. ASSUME NEW d \in Removals,
             \/ RemoteRemoves(d) \/ Refetch(d)
             \/ \E timeout \in BOOLEAN : RemoteFails(d, timeout)
      PROVE  FALSE
  <2>1. PICK step \in {"refetch", "purge"} : Go(d, step)
    BY <1>7 DEF RemoteRemoves, Refetch, RemoteFails
  <2>2. \A e \in Removals :
          /\ removal'[e].manifests = removal[e].manifests
          /\ removal'[e].step = "idle" => removal[e].step = "idle"
    BY <2>1 DEF Go, RemovalsOK, RemovalType
  <2>3. UNCHANGED storeVars /\ UNCHANGED <<tombstones, outlived>>
    BY <1>7 DEF RemoteRemoves, Refetch, RemoteFails
  <2> QED  BY <1>1, <1>2, <2>2, <2>3 DEF storeVars
(* The forms of a removal's manifests are gone when it ends; or an error   *)
(* ended it, and its manifests are said to outlive it.                     *)
<1>8. ASSUME NEW d \in Removals,
             Purge(d) \/ \E purged \in SUBSET Forms : RemovalFails(d, purged)
      PROVE  FALSE
  <2>1. /\ tombstones' = tombstones
        /\ \A e \in Removals \ {d} : removal'[e] = removal[e]
    BY <1>8 DEF Purge, RemovalFails, Ends, RemovalsOK
  <2>2. PICK purged \in SUBSET Forms :
          /\ PurgesStores(purged)
          /\ \/ purged = PurgedBy(removal[d]) /\ outlived' = outlived \ removal[d].manifests
             \/ outlived' = outlived \cup removal[d].manifests
    BY <1>8 DEF Purge, RemovalFails, PurgedBy
  <2>3. f \in stored \cup indexed /\ f \in Forms /\ f \notin purged
    BY <2>2 DEF PurgesStores, StoresOK
  <2>4. manifestOf[f] \notin removal[d].manifests /\ manifestOf[f] \notin outlived
    BY <1>1, <2>2, <2>3 DEF PurgedBy
  <2> QED  BY <1>1, <1>2, <2>1, <2>3, <2>4
<1>9. CASE RegistrationReports
  <2>1. f \in stored \cup indexed \/ f = registering.form
    BY <1>9 DEF RegistrationReports
  <2>2. /\ outlived' = outlived \cup ({manifestOf[registering.form]} \cap tombstones.manifests)
        /\ UNCHANGED <<tombstones, removal>>
    BY <1>9 DEF RegistrationReports
  <2> QED  BY <1>1, <1>2, <2>1, <2>2
<1>10. CASE ReloadDashboard
  <2>1. /\ UNCHANGED storeVars /\ tombstones' = tombstones
        /\ outlived' = outlived \cup UNION {removal[d].manifests : d \in Removals}
    BY <1>10 DEF ReloadDashboard
  <2> QED  BY <1>1, <1>2, <2>1 DEF storeVars
<1> QED
  BY <1>4, <1>5, <1>6, <1>7, <1>8, <1>9, <1>10 DEF RemovalNext

(* Once a removal is over nothing of its manifests is left in the stores,  *)
(* although restores write without being waited for, unless a reload or an *)
(* error cut it off or a registration wrote the form back.                 *)
THEOREM PurgedIsGone == RemovalSpec => []PurgedStaysPurged
<1>1. RemovalInit => PurgeIsComing
  BY DEF RemovalInit, PurgeIsComing
<1>2. PurgeIsComing => PurgedStaysPurged
  BY DEF PurgeIsComing, PurgedStaysPurged, Removing
<1> QED  BY <1>1, <1>2, ShapeInit, ShapeStep, PurgeStep, PTL DEF RemovalSpec

-----------------------------------------------------------------------------
(* The storage layer                                                       *)

(* The manifest chain, the versions, the relay and the removals share no   *)
(* state: a behaviour of the four is one of each.                          *)
THEOREM StorageFollowsItsParts ==
  StorageSpec => Spec /\ VersionsSpec /\ RelaySpec /\ RemovalSpec
<1>1. StorageInit => Init /\ VersionsInit /\ RelayInit /\ RemovalInit
  BY DEF StorageInit
<1>2. [StorageNext]_<<focus, vars, versionsVars, relayVars, formVars>>
        => /\ [Next]_vars /\ [VersionsNext]_versionsVars
           /\ [RelayNext]_relayVars /\ [RemovalNext]_formVars
  BY DEF StorageNext
<1> QED  BY <1>1, <1>2, PTL DEF StorageSpec, Spec, VersionsSpec, RelaySpec, RemovalSpec

(* Bundles, forms, Drive files and the stores of a page keep the shapes    *)
(* the code gives them on every instance (walrusAdapter.ts, the relay      *)
(* script, useSignalInboxData.ts).                                         *)
THEOREM StorageTypeCorrect == StorageSpec => []StorageTypeOK
<1> DEFINE Parts == {"manifest", "versions", "relay", "removal"}
<1>1. StorageInit => focus \in Parts
  BY DEF StorageInit
<1>2. focus \in Parts /\ [StorageNext]_<<focus, vars, versionsVars, relayVars, formVars>>
        => (focus \in Parts)'
  BY DEF StorageNext
<1>3. focus \in Parts /\ ManifestTypeOK /\ VersionsTypeOK /\ RelayTypeOK /\ RemovalTypeOK
        => StorageTypeOK
  BY DEF StorageTypeOK
<1> QED  BY <1>1, <1>2, <1>3, StorageFollowsItsParts, ManifestTypeCorrect, VersionsTypeCorrect,
            RelayTypeCorrect, RemovalTypeCorrect, PTL DEF StorageSpec

=============================================================================
