---------------------------- MODULE OwnerInbox ----------------------------
(***************************************************************************)
(* The owner's inbox in one browser tab: how rows are loaded and patched   *)
(* (src/src/features/admin/hooks/useSignalInboxData.ts), how a pending     *)
(* signal gets its receipt on Sui (usePendingSuiRegistration.ts) and how a *)
(* review is saved (updateSubmission in AdminDashboardWorkspace.tsx), for  *)
(* the submissions of one project form that was published from this        *)
(* browser.                                                                *)
(*                                                                         *)
(* Four stores hold what the inbox knows of a submission: the receipts on  *)
(* chain, the cached copy of them (React Query), the local store and the   *)
(* remote index with the records as they were posted.  A step runs up to   *)
(* the next `await`.                                                       *)
(***************************************************************************)
EXTENDS Naturals, Sequences, FiniteSets, SequencesExt, Functions

CONSTANTS
  InboxIds,       \* submissions of the form
  Reviews,        \* review outcomes, as triageStatusToOnchainStatus names them
  MaxReceipts,    \* bound: receipts registered on chain
  MaxEdits,       \* bound: reviews the owner saves
  MaxLoads,       \* bound: runs of loadConsole
  MaxForeign      \* bound: steps of another manager's browser

ASSUME InboxAssumption ==
  /\ "new" \in Reviews /\ "none" \notin Reviews /\ "unsaved" \notin Reviews
  /\ MaxReceipts \in Nat /\ MaxEdits \in Nat /\ MaxLoads \in Nat
  /\ MaxForeign \in Nat

VARIABLES
  receipts,     \* the project's signals on Sui; the place is the signal id
  known,        \* the cached project summary's onchainSignals
  remote,       \* submissions in the remote index, each as it was posted
  local,        \* deepsignal.submissions
  view,         \* submissionsByFormId
  extra,        \* supplementalSignals: rows known from the chain alone
  load,         \* the newest run of loadConsole
  hydrations,   \* runs of hydrateOnchainSignals that are not finished
  registering,  \* registerSubmissionRecordOnSui, per submission
  saves,        \* the chain of promises in saveQueueRef
  counts,       \* edits, loads and foreign steps, for the bounds
  chosen        \* the review chosen last, "unsaved" once its save failed or
                \* a registration overwrote it (history variable)

inboxVars == <<receipts, known, remote, local, view, extra, load, hydrations,
               registering, saves, counts, chosen>>

NoSignal == 0
Receipts == [of : InboxIds, status : Reviews]

(* What the inbox tells apart in a Submission: the review, the flag        *)
(* pendingOnchainRegistration, onchainSignalId and onchainStatus.          *)
Rows == [review : Reviews, pending : BOOLEAN,
         signal : 0 .. MaxReceipts, status : Reviews \cup {"none"}]
Stores == UNION {[ids -> Rows] : ids \in SUBSET InboxIds}
NoRows == [id \in {} |-> NoSignal]

(* The record as the public form posts it.                                 *)
Posted == [review |-> "new", pending |-> TRUE, signal |-> NoSignal, status |-> "none"]
AllPosted(ids) == [id \in ids |-> Posted]

SignalsOf(id, registry) == {i \in DOMAIN registry : registry[i].of = id}
LastOf(id, registry) == CHOOSE i \in SignalsOf(id, registry) :
                          \A j \in SignalsOf(id, registry) : j <= i

(* patchSubmissionFromOnchainSignal, for every signal in turn: the last    *)
(* receipt of the submission stays.                                        *)
PatchRow(row, id, registry) ==
  IF SignalsOf(id, registry) = {}
    THEN row
    ELSE [row EXCEPT !.pending = FALSE, !.signal = LastOf(id, registry),
                     !.status = registry[LastOf(id, registry)].status]

Patch(rows, registry) == [id \in DOMAIN rows |-> PatchRow(rows[id], id, registry)]

(* The rows of both stores, where those of the first win.                  *)
Over(first, rows) ==
  [id \in DOMAIN first \cup DOMAIN rows |->
     IF id \in DOMAIN first THEN first[id] ELSE rows[id]]
OneRowOf(id, row) == [i \in {id} |-> row]

(* loadSubmissionsForForm and patchLocalOnchainSignals: a fetched record   *)
(* wins over the local one, then the receipts are patched in.              *)
LoadedRows(fetched, rows, registry) == Patch(Over(AllPosted(fetched), rows), registry)

(* A row of a store that lists the submission is replaced; others are not  *)
(* added.                                                                  *)
Replace(rows, id, row) == IF id \in DOMAIN rows THEN [rows EXCEPT ![id] = row] ELSE rows

(* allSignals: a supplemental row stands in for a row without a receipt.   *)
Shown == [id \in DOMAIN view \cup DOMAIN extra |->
            IF id \in DOMAIN view /\ (id \notin DOMAIN extra \/ view[id].signal # NoSignal)
              THEN view[id] ELSE extra[id]]

IdleLoad == [pc |-> "idle", run |-> 0, rows |-> NoRows, registry |-> <<>>]

-----------------------------------------------------------------------------
InboxInit ==
  /\ \E posted, kept \in SUBSET InboxIds :
       /\ posted \cup kept = InboxIds
       /\ remote = posted
       /\ local = AllPosted(kept)
  /\ receipts = <<>> /\ known = <<>>
  /\ view = NoRows /\ extra = NoRows
  /\ load = IdleLoad /\ hydrations = {}
  /\ registering = NoRows /\ saves = <<>>
  /\ counts = [edits |-> 0, loads |-> 0, foreign |-> 0]
  /\ chosen = [id \in InboxIds |-> "unsaved"]

-----------------------------------------------------------------------------
(* loadConsole: a new run makes the older one stop at its next check.      *)
StartLoad ==
  /\ counts.loads < MaxLoads
  /\ counts' = [counts EXCEPT !.loads = @ + 1]
  /\ load' = [pc |-> "starting", run |-> counts.loads + 1, rows |-> NoRows,
              registry |-> known]
  /\ UNCHANGED <<receipts, known, remote, local, view, extra, hydrations,
                 registering, saves, chosen>>

(* storageAdapter.listSubmissions; the manifest of the form lists no blob. *)
ListLocal ==
  /\ load.pc = "starting"
  /\ load' = [load EXCEPT !.pc = "fetching", !.rows = local]
  /\ UNCHANGED <<receipts, known, remote, local, view, extra, hydrations,
                 registering, saves, counts, chosen>>

(* A blob may not be readable and the index may time out; the hydration is *)
(* scheduled with the rows and the summary of this run.                    *)
FinishLoad ==
  /\ load.pc = "fetching"
  /\ \E fetched \in SUBSET remote :
       LET rows == LoadedRows(fetched, load.rows, load.registry)
       IN  /\ view' = rows
           /\ hydrations' = hydrations \cup
                {[pc |-> "patching", run |-> load.run, rows |-> rows,
                  registry |-> load.registry]}
  /\ load' = IdleLoad
  /\ UNCHANGED <<receipts, known, remote, local, extra, registering, saves,
                 counts, chosen>>

(* hydrateOnchainSignals up to its fetches: rows with a receipt are set    *)
(* back to what this run loaded, also when a newer run has started.        *)
PatchView(h) ==
  /\ h.pc = "patching"
  /\ view' = [id \in DOMAIN view |->
                IF id \in DOMAIN h.rows /\ SignalsOf(id, h.registry) # {}
                  THEN h.rows[id] ELSE view[id]]
  /\ hydrations' = (hydrations \ {h}) \cup {[h EXCEPT !.pc = "reading"]}
  /\ UNCHANGED <<receipts, known, remote, local, extra, load, registering,
                 saves, counts, chosen>>

(* The rest: receipts without a row show the record read from Walrus, as   *)
(* it was posted, with the receipt's number; unreadable ones show a shadow *)
(* row no store knows, which is left out.                                  *)
ShowSupplemental(h) ==
  /\ h.pc = "reading"
  /\ hydrations' = hydrations \ {h}
  /\ IF h.run = counts.loads
       THEN \E readable \in SUBSET {h.registry[i].of : i \in DOMAIN h.registry} :
              extra' = [id \in readable \ DOMAIN h.rows |->
                          [PatchRow(Posted, id, h.registry) EXCEPT !.pending = TRUE]]
       ELSE UNCHANGED extra
  /\ UNCHANGED <<receipts, known, remote, local, view, load, registering,
                 saves, counts, chosen>>

-----------------------------------------------------------------------------
(* updateSubmission: shown at once, saved when the earlier saves are done. *)
Edit(id, review) ==
  /\ id \in DOMAIN Shown
  /\ counts.edits < MaxEdits
  /\ LET row == [Shown[id] EXCEPT !.review = review]
     IN  /\ view' = Replace(view, id, row)
         /\ saves' = Append(saves, [pc |-> "storing", id |-> id, row |-> row])
  /\ counts' = [counts EXCEPT !.edits = @ + 1]
  /\ chosen' = [chosen EXCEPT ![id] = review]
  /\ UNCHANGED <<receipts, known, remote, local, extra, load, hydrations,
                 registering>>

Saving(pc) == saves # <<>> /\ Head(saves).pc = pc
NeedsSync(row) == row.signal # NoSignal /\ ~row.pending /\ row.status # row.review
Advance(pc, row) == <<[Head(saves) EXCEPT !.pc = pc, !.row = row]>> \o Tail(saves)

SaveQueued(id, queue) == \E i \in DOMAIN queue : queue[i].id = id
Forget(id, queue) ==
  chosen' = IF SaveQueued(id, queue) THEN chosen ELSE [chosen EXCEPT ![id] = "unsaved"]

(* Mutant of SaveReview: the newest save is stored first.                  *)
SaveReview_NewestFirst ==
  /\ saves # <<>> /\ Last(saves).pc = "storing"
  /\ LET save == Last(saves)
     IN  /\ local' = Replace(local, save.id, save.row)
         /\ saves' = IF NeedsSync(save.row)
                       THEN <<[save EXCEPT !.pc = "syncing"]>> \o Front(saves)
                       ELSE Front(saves)
  /\ UNCHANGED <<receipts, known, remote, view, extra, load, hydrations,
                 registering, counts, chosen>>

SaveReview ==
  /\ Saving("storing")
  /\ LET save == Head(saves)
     IN  /\ local' = Replace(local, save.id, save.row)
         /\ saves' = IF NeedsSync(save.row) THEN Advance("syncing", save.row) ELSE Tail(saves)
  /\ UNCHANGED <<receipts, known, remote, view, extra, load, hydrations,
                 registering, counts, chosen>>

SyncStatus ==
  /\ Saving("syncing")
  /\ LET row == Head(saves).row
     IN  /\ receipts' = [receipts EXCEPT ![row.signal].status = row.review]
         /\ saves' = Advance("restoring", [row EXCEPT !.status = row.review])
  /\ UNCHANGED <<known, remote, local, view, extra, load, hydrations,
                 registering, counts, chosen>>

SaveSynced ==
  /\ Saving("restoring")
  /\ LET save == Head(saves)
     IN  /\ local' = Replace(local, save.id, save.row)
         /\ view' = Replace(view, save.id, save.row)
  /\ saves' = Tail(saves)
  /\ UNCHANGED <<receipts, known, remote, extra, load, hydrations,
                 registering, counts, chosen>>

(* Mutant of SaveFails: a failed save is tried again before the others.    *)
SaveFails_StaysInLine ==
  /\ saves # <<>>
  /\ saves' = Advance("storing", Head(saves).row)
  /\ UNCHANGED <<receipts, known, remote, local, view, extra, load, hydrations,
                 registering, counts, chosen>>

(* Walrus, the wallet or the RPC node refuses or does not answer in time:  *)
(* an error toast, and the next save begins.                               *)
SaveFails ==
  /\ saves # <<>>
  /\ saves' = Tail(saves)
  /\ Forget(Head(saves).id, Tail(saves))
  /\ UNCHANGED <<receipts, known, remote, local, view, extra, load, hydrations,
                 registering, counts>>

-----------------------------------------------------------------------------
(* registerSubmissionRecordOnSui; the button of a running one is disabled. *)
BeginRegister(id) ==
  /\ id \in DOMAIN Shown /\ Shown[id].pending
  /\ id \notin DOMAIN registering
  /\ registering' = Over(OneRowOf(id, Shown[id]), registering)
  /\ UNCHANGED <<receipts, known, remote, local, view, extra, load, hydrations,
                 saves, counts, chosen>>

Running(id) == id \in DOMAIN registering
Finish(id) == registering' = Restrict(registering, DOMAIN registering \ {id})
Receipt(id) == [of |-> id, status |-> "new"]

(* Mutant of RegisterOnChain: the signal id is one short.                  *)
RegisterOnChain_PreviousId(id) ==
  /\ Running(id) /\ registering[id].pending
  /\ Len(receipts) < MaxReceipts
  /\ receipts' = Append(receipts, Receipt(id))
  /\ registering' = [registering EXCEPT ![id].pending = FALSE, ![id].status = "new",
                                        ![id].signal = Len(receipts)]
  /\ UNCHANGED <<known, remote, local, view, extra, load, hydrations, saves,
                 counts, chosen>>

(* The receipt exists; without its event the row gets no signal id.        *)
RegisterOnChain(id) ==
  /\ Running(id) /\ registering[id].pending
  /\ Len(receipts) < MaxReceipts
  /\ receipts' = Append(receipts, Receipt(id))
  /\ \E named \in {Len(receipts) + 1, NoSignal} :
       registering' = [registering EXCEPT ![id].pending = FALSE, ![id].status = "new",
                                          ![id].signal = named]
  /\ UNCHANGED <<known, remote, local, view, extra, load, hydrations, saves,
                 counts, chosen>>

(* The transaction went through but waiting for it did not.                *)
RegisterUnanswered(id) ==
  /\ Running(id) /\ registering[id].pending
  /\ Len(receipts) < MaxReceipts
  /\ receipts' = Append(receipts, Receipt(id))
  /\ Finish(id)
  /\ UNCHANGED <<known, remote, local, view, extra, load, hydrations, saves,
                 counts, chosen>>

(* updateSubmission, cleanupRegisteredSubmissionLocalFallback and          *)
(* applySubmissionUpdate with the row as it was when the button was        *)
(* pressed: whatever review was saved since is gone.                       *)
StoreRegistered(id) ==
  /\ Running(id) /\ ~registering[id].pending
  /\ local' = Over(OneRowOf(id, registering[id]), local)
  /\ view' = Replace(view, id, registering[id])
  /\ Finish(id)
  /\ Forget(id, saves)
  /\ UNCHANGED <<receipts, known, remote, extra, load, hydrations, saves, counts>>

RegisterFails(id) ==
  /\ Running(id)
  /\ Finish(id)
  /\ UNCHANGED <<receipts, known, remote, local, view, extra, load, hydrations,
                 saves, counts, chosen>>

-----------------------------------------------------------------------------
(* The summary is fetched again (refreshSelectedProject): it is cached for  *)
(* five minutes and neither focus nor remounting refetches it.             *)
RefreshRegistry ==
  /\ known # receipts
  /\ known' = receipts
  /\ UNCHANGED <<receipts, remote, local, view, extra, load, hydrations,
                 registering, saves, counts, chosen>>

(* Another manager's browser.                                              *)
Foreign ==
  /\ counts.foreign < MaxForeign
  /\ counts' = [counts EXCEPT !.foreign = @ + 1]
  /\ UNCHANGED <<known, remote, local, view, extra, load, hydrations,
                 registering, saves, chosen>>

OtherRegisters(id) ==
  /\ Len(receipts) < MaxReceipts
  /\ receipts' = Append(receipts, Receipt(id))
  /\ Foreign

OtherReviews(i, review) ==
  /\ i \in DOMAIN receipts
  /\ receipts' = [receipts EXCEPT ![i].status = review]
  /\ Foreign

(* The tab is reloaded: only the chain, the index and the local store stay.*)
ReloadTab ==
  /\ view # NoRows \/ load.pc # "idle"
  /\ known' = receipts
  /\ view' = NoRows /\ extra' = NoRows
  /\ load' = IdleLoad /\ hydrations' = {}
  /\ registering' = NoRows /\ saves' = <<>>
  /\ chosen' = [id \in InboxIds |-> IF SaveQueued(id, saves) THEN "unsaved" ELSE chosen[id]]
  /\ UNCHANGED <<receipts, remote, local, counts>>

-----------------------------------------------------------------------------
SaveStep == SaveReview \/ SyncStatus \/ SaveSynced \/ SaveFails

InboxNext ==
  \/ StartLoad \/ ListLocal \/ FinishLoad
  \/ \E h \in hydrations : PatchView(h) \/ ShowSupplemental(h)
  \/ \E id \in InboxIds, review \in Reviews : Edit(id, review)
  \/ SaveStep
  \/ \E id \in InboxIds :
       \/ BeginRegister(id) \/ RegisterOnChain(id) \/ RegisterUnanswered(id)
       \/ StoreRegistered(id) \/ RegisterFails(id)
       \/ OtherRegisters(id)
  \/ \E i \in 1 .. MaxReceipts, review \in Reviews : OtherReviews(i, review)
  \/ RefreshRegistry
  \/ ReloadTab

InboxSpec == InboxInit /\ [][InboxNext]_inboxVars

(* Every request of a save is answered or times out in the end.            *)
SavingFairness == WF_inboxVars(SaveStep)

-----------------------------------------------------------------------------
(* Every store holds rows of the form's submissions; only the first save   *)
(* of the chain is under way, and it reaches the chain only with a receipt.*)
InboxTypeOK ==
  /\ receipts \in Seq(Receipts) /\ Len(receipts) <= MaxReceipts
  /\ known \in Seq(Receipts)
  /\ remote \subseteq InboxIds
  /\ local \in Stores /\ view \in Stores /\ extra \in Stores
  /\ load \in [pc : {"idle", "starting", "fetching"}, run : 0 .. MaxLoads,
               rows : Stores, registry : Seq(Receipts)]
  /\ \A h \in hydrations : h.pc \in {"patching", "reading"} /\ h.rows \in Stores
  /\ registering \in Stores
  /\ \A i \in DOMAIN saves :
       /\ saves[i].pc \in {"storing", "syncing", "restoring"}
       /\ saves[i].id \in InboxIds /\ saves[i].row \in Rows
       /\ saves[i].pc # "storing" => i = 1 /\ saves[i].row.signal # NoSignal
  /\ chosen \in [InboxIds -> Reviews \cup {"unsaved"}]

(* Whatever stale snapshot a row went through (a load, a hydration, a      *)
(* queued save, a registration), the signal id it carries is a receipt of  *)
(* that submission: a synced review never lands on another's receipt.      *)
OwnReceipt(id, row) ==
  row.signal # NoSignal => row.signal \in DOMAIN receipts /\ receipts[row.signal].of = id

ReceiptOfItsOwn ==
  /\ \A rows \in {local, view, extra, load.rows, registering} :
       \A id \in DOMAIN rows : OwnReceipt(id, rows[id])
  /\ \A h \in hydrations : \A id \in DOMAIN h.rows : OwnReceipt(id, h.rows[id])
  /\ \A i \in DOMAIN saves : OwnReceipt(saves[i].id, saves[i].row)

(* Saves of quick edits are stored in the order they were made: when no    *)
(* save of a submission is left, the local store has the review that was   *)
(* chosen last, unless that save failed or a registration rewrote the row. *)
LatestSaveWins ==
  \A id \in DOMAIN local :
    chosen[id] # "unsaved" /\ ~SaveQueued(id, saves) => local[id].review = chosen[id]

(* A save that fails never blocks the ones behind it: the chain of saves   *)
(* drains whatever each of them is answered.                               *)
SavesDrain == saves # <<>> ~> saves = <<>>

(* What the toast "Review & Triage saved." says                            *)
(* (AdminDashboardWorkspace.tsx:6836): with no save or registration under  *)
(* way, a load that reaches every store shows the review that was saved.   *)
SavedReviewIsShown ==
  saves = <<>> /\ registering = NoRows
    => \A id \in InboxIds :
         chosen[id] # "unsaved"
           => LoadedRows(remote, local, known)[id].review = chosen[id]
=============================================================================
