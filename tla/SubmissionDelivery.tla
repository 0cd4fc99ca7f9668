------------------------- MODULE SubmissionDelivery -------------------------
(***************************************************************************)
(* How an answer leaves the respondent's browser: the submit handler of    *)
(* the public form (src/src/features/public-form/hooks/                    *)
(* usePublicSubmission.ts), the pending queue in localStorage              *)
(* (src/src/storage/submissionDelivery.ts), the save with its local        *)
(* fallback and the retry of the Local Recovery Center                     *)
(* (src/src/storage/storageFactory.ts).                                    *)
(*                                                                         *)
(* A handler invocation is a process: everything up to one `await` is one  *)
(* step.  localStorage calls are synchronous, so each is atomic, but two   *)
(* tabs (the form, the recovery center) interleave between them.  The      *)
(* relay that owns the inbox is outside the browser; a request it accepted *)
(* may still look failed to the browser that sent it.                      *)
(***************************************************************************)
EXTENDS Naturals, Sequences, FiniteSets, SequencesExt

CONSTANTS
  Handlers,          \* invocations of handleSubmit that may overlap
  MaxSubmissions,    \* bound: ids ever made by makeId
  QueueCap,          \* the 100 of enqueuePendingSubmission, scaled down
  Deployments        \* the builds and relays to explore, see DeploymentType

DeploymentType ==
  [encrypted : BOOLEAN,            \* form.encryptSubmissions
   fallback  : BOOLEAN,            \* a failed write may be kept locally
   relay     : {"none", "full", "index", "script"}]

ASSUME DeliveryAssumption ==
  /\ MaxSubmissions \in Nat
  /\ QueueCap \in Nat \ {0}
  /\ Deployments \subseteq DeploymentType

VARIABLES
  deployment,  \* never changes: env variables and form settings
  queue,       \* deepsignal.submissionDelivery.pendingQueue, newest first
  history,     \* the My Responses status of each id
  inbox,       \* what the owner's remote index holds for each id
  handler,     \* per invocation: where it is and the id it made
  submitting,  \* React state `submitting`
  closed,      \* the response deadline has passed
  made,        \* ids made so far
  sync,        \* the retry of the recovery center and its snapshot
  enqueued,    \* ids that were put in the queue (history variable)
  evicted      \* ids the cap pushed out (history variable)

deliveryVars == <<deployment, queue, history, inbox, handler, submitting, closed,
          made, sync, enqueued, evicted>>

Ids == 1 .. MaxSubmissions
NoId == 0

(* "withdrawn" is "failed" written over "submitted": the entry of My       *)
(* Responses then still has the earlier event "received" in its lifecycle. *)
Statuses == {"none", "pending", "local-only", "submitted", "failed", "withdrawn"}

(***************************************************************************)
(* What a queued record still carries decides what a later upload can do:  *)
(* "raw" is queued before the upload, "fallback" by the failed upload's    *)
(* local copy, "sealed" by the handler once Walrus holds the evidence.     *)
(***************************************************************************)
Copies == {"raw", "fallback", "sealed"}
Item(id, copy) == [id |-> id, copy |-> copy]
ItemType == [id : Ids, copy : Copies]

HandlerPcs == {"idle", "checking", "preparing", "queueing", "uploading",
               "keptLocally", "stored", "requeue", "delivered", "recording",
               "archiving", "failing", "settling"}

Queued(id) == \E i \in DOMAIN queue : queue[i].id = id

-----------------------------------------------------------------------------
DeliveryInit ==
  /\ deployment \in Deployments
  /\ queue = <<>>
  /\ history = [id \in Ids |-> "none"]
  /\ inbox = [id \in Ids |-> "none"]
  /\ handler = [h \in Handlers |-> [pc |-> "idle", id |-> NoId]]
  /\ submitting = FALSE
  /\ closed = FALSE
  /\ made = 0
  /\ sync = [pc |-> "idle", todo |-> <<>>]
  /\ enqueued = {}
  /\ evicted = {}

-----------------------------------------------------------------------------
(* The queue: newest first, one record per id, cut at the cap.             *)

(* An id is queued at most once, so filtering it out removes one place.    *)
Without(id) ==
  IF Queued(id)
    THEN RemoveAt(queue, CHOOSE i \in DOMAIN queue : queue[i].id = id)
    ELSE queue

FirstOf(n, s) == IF Len(s) <= n THEN s ELSE SubSeq(s, 1, n)

(* Mutant of NextQueue: no cap.                                            *)
NextQueue_KeepsAll(item) == <<item>> \o Without(item.id)

NextQueue(item) == FirstOf(QueueCap, <<item>> \o Without(item.id))

(* A full localStorage refuses the longer queue; the error is only logged. *)
EnqueuePending(item) ==
  \/ /\ queue' = NextQueue(item)
     /\ enqueued' = enqueued \cup {item.id}
     /\ evicted' = {id \in evicted \cup {queue[i].id : i \in DOMAIN queue} \cup {item.id} :
                      \A i \in DOMAIN queue' : queue'[i].id # id}
  \/ UNCHANGED <<queue, enqueued, evicted>>

(* Mutant of RemovePending: the newest record goes, whichever it is.       *)
RemovePending_Newest(id) ==
  /\ queue' = IF queue = <<>> THEN queue ELSE Tail(queue)
  /\ UNCHANGED <<enqueued, evicted>>

(* A shorter queue always fits.                                            *)
RemovePending(id) ==
  /\ queue' = Without(id)
  /\ UNCHANGED <<enqueued, evicted>>

-----------------------------------------------------------------------------
(* walrusAdapter.saveSubmission as its callers see it.                     *)

(* Only these relays confirm that the owner can read the entry.            *)
CanConfirm == deployment.relay \in {"full", "index"}

(* Without a confirming full relay the bundle goes to Walrus and the       *)
(* result is sync_pending.                                                 *)
CanStore == deployment.relay # "full"

(* Mutant of PassesLeakGuard: nothing is refused.                          *)
PassesLeakGuard_Always(item) == TRUE

(* The leak guard refuses an encrypted record without an encrypted blob.   *)
PassesLeakGuard(item) == deployment.encrypted => item.copy # "raw"

(* A fallback copy of an encrypted record names its embedded payload, and  *)
(* the sanitizer drops that payload on a plain save.                       *)
Content(item) ==
  IF deployment.encrypted /\ item.copy \in {"raw", "fallback"} THEN "hollow" ELSE "whole"

Delivered(id, content) == inbox' = [inbox EXCEPT ![id] = content]

(* A request that did not come back confirmed may have been accepted.      *)
MayHaveArrived(id, content) ==
  \/ UNCHANGED inbox
  \/ deployment.relay # "none" /\ Delivered(id, content)

-----------------------------------------------------------------------------
(* handleSubmit                                                            *)

At(h, pc) == handler[h].pc = pc
Goto(h, pc) == handler' = [handler EXCEPT ![h].pc = pc]

(* The guard reads `submitting` and the deadline; the awaited checks that  *)
(* follow come before setSubmitting(true).                                 *)
Click(h) ==
  /\ At(h, "idle")
  /\ ~submitting
  /\ ~closed
  /\ Goto(h, "checking")
  /\ UNCHANGED <<deployment, queue, history, inbox, submitting, closed, made,
                 sync, enqueued, evicted>>

(* Seal status, NFT access, location or validation refuses.                *)
CheckRefuses(h) ==
  /\ At(h, "checking")
  /\ Goto(h, "idle")
  /\ UNCHANGED <<deployment, queue, history, inbox, submitting, closed, made,
                 sync, enqueued, evicted>>

CheckPasses(h) ==
  /\ At(h, "checking")
  /\ submitting' = TRUE
  /\ Goto(h, "preparing")
  /\ UNCHANGED <<deployment, queue, history, inbox, closed, made, sync,
                 enqueued, evicted>>

(* Attachments, identity or signature fail before an id is made.           *)
PrepareFails(h) ==
  /\ At(h, "preparing")
  /\ Goto(h, "failing")
  /\ UNCHANGED <<deployment, queue, history, inbox, submitting, closed, made,
                 sync, enqueued, evicted>>

Prepare(h) ==
  /\ At(h, "preparing")
  /\ made < MaxSubmissions
  /\ made' = made + 1
  /\ handler' = [handler EXCEPT ![h] = [pc |-> "queueing", id |-> made']]
  /\ history' = [history EXCEPT ![made'] = "pending"]
  /\ UNCHANGED <<deployment, queue, inbox, submitting, closed, sync, enqueued,
                 evicted>>

QueueRaw(h) ==
  /\ At(h, "queueing")
  /\ EnqueuePending(Item(handler[h].id, "raw"))
  /\ Goto(h, "uploading")
  /\ UNCHANGED <<deployment, history, inbox, submitting, closed, made, sync>>

(* The code of the queue is loaded here for the first time; a load that    *)
(* fails ends the submission with nothing queued.                          *)
QueueFails(h) ==
  /\ At(h, "queueing")
  /\ Goto(h, "failing")
  /\ UNCHANGED <<deployment, queue, history, inbox, submitting, closed, made,
                 sync, enqueued, evicted>>

(* saveSubmissionWithEncryption looks at the deadline again.               *)
UploadTooLate(h) ==
  /\ At(h, "uploading")
  /\ closed
  /\ Goto(h, "failing")
  /\ UNCHANGED <<deployment, queue, history, inbox, submitting, closed, made,
                 sync, enqueued, evicted>>

UploadConfirmed(h) ==
  /\ At(h, "uploading")
  /\ CanConfirm
  /\ Delivered(handler[h].id, "whole")
  /\ Goto(h, "delivered")
  /\ UNCHANGED <<deployment, queue, history, submitting, closed, made, sync,
                 enqueued, evicted>>

(* Mutant of UploadStored: stored on Walrus is taken for delivered.        *)
UploadStored_Confirms(h) ==
  /\ At(h, "uploading")
  /\ CanStore
  /\ MayHaveArrived(handler[h].id, "whole")
  /\ Goto(h, "delivered")
  /\ UNCHANGED <<deployment, queue, history, submitting, closed, made, sync,
                 enqueued, evicted>>

UploadStored(h) ==
  /\ At(h, "uploading")
  /\ CanStore
  /\ MayHaveArrived(handler[h].id, "whole")
  /\ Goto(h, "stored")
  /\ UNCHANGED <<deployment, queue, history, submitting, closed, made, sync,
                 enqueued, evicted>>

(* The wallet refused, or the build must not fall back: the save throws.   *)
UploadThrows(h) ==
  /\ At(h, "uploading")
  /\ MayHaveArrived(handler[h].id, "whole")
  /\ Goto(h, "failing")
  /\ UNCHANGED <<deployment, queue, history, submitting, closed, made, sync,
                 enqueued, evicted>>

(* The local task queues the record again and saves it in localStorage,    *)
(* which may be full.                                                      *)
UploadFallsBack(h) ==
  /\ At(h, "uploading")
  /\ deployment.fallback
  /\ EnqueuePending(Item(handler[h].id, "fallback"))
  /\ MayHaveArrived(handler[h].id, "whole")
  /\ \E pc \in {"keptLocally", "failing"} : Goto(h, pc)
  /\ UNCHANGED <<deployment, history, submitting, closed, made, sync>>

Record(h, status, pc) ==
  /\ history' = [history EXCEPT ![handler[h].id] = status]
  /\ Goto(h, pc)
  /\ UNCHANGED <<deployment, inbox, submitting, closed, made, sync>>

FinishKeptLocally(h) ==
  /\ At(h, "keptLocally")
  /\ Record(h, "local-only", "settling")
  /\ UNCHANGED <<queue, enqueued, evicted>>

(* "Inbox synchronization will retry automatically."                       *)
FinishStored(h) ==
  /\ At(h, "stored")
  /\ Record(h, "pending", "requeue")
  /\ UNCHANGED <<queue, enqueued, evicted>>

(* The last statement of the branch queues the record with its blob ids.   *)
Requeue(h) ==
  /\ At(h, "requeue")
  /\ EnqueuePending(Item(handler[h].id, "sealed"))
  /\ Goto(h, "settling")
  /\ UNCHANGED <<deployment, history, inbox, submitting, closed, made, sync>>

(* Mutant of FinishDelivered: the queued record is forgotten.              *)
FinishDelivered_LeavesQueue(h) ==
  /\ At(h, "delivered")
  /\ Goto(h, "recording")
  /\ UNCHANGED <<deployment, queue, history, inbox, submitting, closed, made,
                 sync, enqueued, evicted>>

FinishDelivered(h) ==
  /\ At(h, "delivered")
  /\ RemovePending(handler[h].id)
  /\ Goto(h, "recording")
  /\ UNCHANGED <<deployment, history, inbox, submitting, closed, made, sync>>

RecordSubmitted(h) ==
  /\ At(h, "recording")
  /\ Record(h, "submitted", "archiving")
  /\ UNCHANGED <<queue, enqueued, evicted>>

(* savePublicSubmittedHistoryEntry loads its code on demand.  A load that  *)
(* fails goes to the catch block: on the stored path before the record is  *)
(* queued with its blob ids, on the delivered path after "submitted".      *)
ArchiveFails(h) ==
  /\ At(h, "requeue") \/ At(h, "archiving")
  /\ Goto(h, "failing")
  /\ UNCHANGED <<deployment, queue, history, inbox, submitting, closed, made,
                 sync, enqueued, evicted>>

(* The catch block writes "failed", whatever the status was; before the    *)
(* id exists it keeps a separate draft entry of My Responses, and it too   *)
(* may fail to load what it needs.                                         *)
Fail(h) ==
  /\ At(h, "failing")
  /\ \/ /\ handler[h].id # NoId
        /\ Record(h, IF history[handler[h].id] = "submitted" THEN "withdrawn"
                     ELSE "failed", "settling")
     \/ /\ Goto(h, "settling")
        /\ UNCHANGED <<deployment, history, inbox, submitting, closed, made, sync>>
  /\ UNCHANGED <<queue, enqueued, evicted>>

(* The finally block, after the catch block, after a return, or when the   *)
(* entry of the submitted history is saved.                                *)
Settle(h) ==
  /\ At(h, "settling") \/ At(h, "archiving")
  /\ submitting' = FALSE
  /\ handler' = [handler EXCEPT ![h] = [pc |-> "idle", id |-> NoId]]
  /\ UNCHANGED <<deployment, queue, history, inbox, closed, made, sync,
                 enqueued, evicted>>

-----------------------------------------------------------------------------
(* retryPendingSubmissionSync                                              *)

(* The automatic callers pass FALSE and are told how much was skipped.     *)
SyncPending(allowWalletPrompt) ==
  /\ sync.pc = "idle"
  /\ queue # <<>>
  /\ sync' = IF allowWalletPrompt THEN [pc |-> "sending", todo |-> queue] ELSE sync
  /\ UNCHANGED <<deployment, queue, history, inbox, handler, submitting,
                 closed, made, enqueued, evicted>>

ManualSync == SyncPending(TRUE)
AutomaticSync == SyncPending(FALSE)

(* Mutant of Rest: the retry ends with its first record.                   *)
Rest_StopsAtFailure(todo) == [pc |-> "idle", todo |-> <<>>]

Rest(todo) == [pc |-> IF Len(todo) = 1 THEN "idle" ELSE "sending", todo |-> Tail(todo)]

SyncConfirmed(id) ==
  /\ sync.pc = "sending"
  /\ Head(sync.todo).id = id
  /\ CanConfirm
  /\ PassesLeakGuard(Head(sync.todo))
  /\ Delivered(id, Content(Head(sync.todo)))
  /\ sync' = [sync EXCEPT !.pc = "saving"]
  /\ UNCHANGED <<deployment, queue, history, handler, submitting, closed, made,
                 enqueued, evicted>>

(* Not confirmed, or the save threw: the record stays queued.              *)
SyncUnconfirmed(id) ==
  /\ sync.pc = "sending"
  /\ Head(sync.todo).id = id
  /\ IF PassesLeakGuard(Head(sync.todo))
       THEN MayHaveArrived(id, Content(Head(sync.todo)))
       ELSE UNCHANGED inbox
  /\ sync' = Rest(sync.todo)
  /\ UNCHANGED <<deployment, queue, history, handler, submitting, closed, made,
                 enqueued, evicted>>

SyncSaved(id) ==
  /\ sync.pc = "saving"
  /\ Head(sync.todo).id = id
  /\ RemovePending(id)
  /\ sync' = Rest(sync.todo)
  /\ UNCHANGED <<deployment, history, inbox, handler, submitting, closed, made>>

(* localStorage refused the synced copy: caught, the record stays queued.  *)
SyncSaveFails(id) ==
  /\ sync.pc = "saving"
  /\ Head(sync.todo).id = id
  /\ sync' = Rest(sync.todo)
  /\ UNCHANGED <<deployment, queue, history, inbox, handler, submitting, closed,
                 made, enqueued, evicted>>

-----------------------------------------------------------------------------
(* The environment                                                         *)

DeadlinePasses ==
  /\ ~closed
  /\ closed' = TRUE
  /\ UNCHANGED <<deployment, queue, history, inbox, handler, submitting, made,
                 sync, enqueued, evicted>>

(* The form's tab is reloaded: its handlers are gone, localStorage is not. *)
ReloadForm ==
  /\ \E h \in Handlers : ~At(h, "idle")
  /\ handler' = [h \in Handlers |-> [pc |-> "idle", id |-> NoId]]
  /\ submitting' = FALSE
  /\ \E lands \in SUBSET {handler[h].id : h \in {k \in Handlers : At(k, "uploading")}} :
       /\ deployment.relay = "none" => lands = {}
       /\ inbox' = [id \in Ids |-> IF id \in lands THEN "whole" ELSE inbox[id]]
  /\ UNCHANGED <<deployment, queue, history, closed, made, sync, enqueued,
                 evicted>>

ReloadRecovery ==
  /\ sync.pc # "idle"
  /\ sync' = [pc |-> "idle", todo |-> <<>>]
  /\ IF sync.pc = "sending" /\ PassesLeakGuard(Head(sync.todo))
       THEN MayHaveArrived(Head(sync.todo).id, Content(Head(sync.todo)))
       ELSE UNCHANGED inbox
  /\ UNCHANGED <<deployment, queue, history, handler, submitting, closed, made,
                 enqueued, evicted>>

-----------------------------------------------------------------------------
Upload(h) ==
  \/ UploadTooLate(h) \/ UploadConfirmed(h) \/ UploadStored(h)
  \/ UploadThrows(h) \/ UploadFallsBack(h)

Progress(h) ==
  \/ CheckRefuses(h) \/ CheckPasses(h)
  \/ PrepareFails(h) \/ Prepare(h) \/ QueueRaw(h) \/ QueueFails(h)
  \/ Upload(h)
  \/ FinishKeptLocally(h) \/ FinishStored(h) \/ Requeue(h)
  \/ FinishDelivered(h) \/ RecordSubmitted(h) \/ ArchiveFails(h)
  \/ Fail(h) \/ Settle(h)

SyncStep(id) ==
  \/ SyncConfirmed(id) \/ SyncUnconfirmed(id)
  \/ SyncSaved(id) \/ SyncSaveFails(id)

DeliveryNext ==
  \/ \E h \in Handlers : Click(h) \/ Progress(h)
  \/ ManualSync
  \/ AutomaticSync
  \/ \E id \in Ids : SyncStep(id)
  \/ DeadlinePasses
  \/ ReloadForm
  \/ ReloadRecovery

DeliverySpec == DeliveryInit /\ [][DeliveryNext]_deliveryVars

(* A running handler and a running retry get on: an upload answers or fails *)
(* in the end, and reloads do not cut every retry short.  The relay and    *)
(* localStorage do not refuse the same record for ever.  The pages that    *)
(* retry automatically keep doing so.                                      *)
AutomaticFairness ==
  /\ \A h \in Handlers : WF_deliveryVars(Progress(h))
  /\ \A id \in Ids : /\ SF_deliveryVars(SyncStep(id))
                     /\ SF_deliveryVars(SyncConfirmed(id))
                     /\ SF_deliveryVars(SyncSaved(id))
  /\ WF_deliveryVars(AutomaticSync)

AutomaticSpec == DeliverySpec /\ AutomaticFairness

(* The respondent also keeps pressing "Retry pending sync".                *)
PatientFairness == AutomaticFairness /\ WF_deliveryVars(ManualSync)

-----------------------------------------------------------------------------
(* Every variable has the shape the code gives it; the queue never holds   *)
(* an id twice nor more records than enqueuePendingSubmission keeps.       *)
DeliveryTypeOK ==
  /\ deployment \in DeploymentType
  /\ queue \in Seq(ItemType)
  /\ Len(queue) <= QueueCap
  /\ \A i, j \in DOMAIN queue : queue[i].id = queue[j].id => i = j
  /\ history \in [Ids -> Statuses]
  /\ inbox \in [Ids -> {"none", "hollow", "whole"}]
  /\ handler \in [Handlers -> [pc : HandlerPcs, id : Ids \cup {NoId}]]
  /\ submitting \in BOOLEAN /\ closed \in BOOLEAN
  /\ made \in 0 .. MaxSubmissions
  /\ sync \in [pc : {"idle", "sending", "saving"}, todo : Seq(ItemType)]
  /\ (sync.pc = "idle") = (sync.todo = <<>>)
  /\ enqueued \subseteq Ids /\ evicted \subseteq enqueued

(* A signal that reached the queue is still there, or was pushed out by    *)
(* newer ones, or is in the owner's inbox: no interleaving of handler,     *)
(* retry, deadline and reload drops it in between (removePendingSubmission *)
(* is only reached after a confirmed delivery).                            *)
NothingSilentlyLost ==
  \A id \in enqueued : Queued(id) \/ id \in evicted \/ inbox[id] # "none"

(* My Responses once said "submitted" of it.                               *)
Told(id) == history[id] \in {"submitted", "withdrawn"}

(* My Responses says "submitted" only of a signal the owner can read, and  *)
(* such a signal is not waiting in the queue to be sent a second time; the *)
(* same holds after an error of the page has replaced that status.         *)
SubmittedIsDelivered == \A id \in Ids : Told(id) => inbox[id] = "whole" /\ ~Queued(id)

(* What a respondent may rely on, whatever handlers, retry, deadline,      *)
(* reloads and code that fails to load do: an answer box.  A signal that   *)
(* is queued again never costs another one its place, what the inbox holds *)
(* of a signal that was once "submitted" is not overwritten, and only an   *)
(* error of the handler that said so takes "submitted" back.               *)
Box ==
  INSTANCE AnswerBox WITH
    Answers <- Ids,
    Room <- QueueCap,
    told <- [id \in Ids |->
               IF history[id] = "none" THEN "nothing"
               ELSE IF Told(id) THEN history[id] ELSE "waiting"],
    kept <- {queue[i].id : i \in DOMAIN queue},
    arrived <- inbox,
    lossy <- deployment.encrypted /\ deployment.fallback

ImplementsAnswerBox == Box!BoxSpec

(* A production build (where an encrypted form has no local fallback)      *)
(* never puts an encrypted record without its payload in the inbox, even   *)
(* by a retry of the record queued before encryption.                      *)
DeliveredIsWhole ==
  (deployment.encrypted => ~deployment.fallback)
    => \A id \in Ids : inbox[id] # "hollow"

(* A queued record that a relay can confirm and the leak guard lets pass   *)
(* leaves the queue if the respondent keeps retrying, whatever records     *)
(* that can never be sent are queued before it.                            *)
Deliverable(id) ==
  /\ CanConfirm
  /\ \E i \in DOMAIN queue : queue[i].id = id /\ PassesLeakGuard(queue[i])

DeliverableDrains == \A id \in Ids : Deliverable(id) ~> ~Queued(id)

(* What the form tells the respondent of a signal Walrus holds and the     *)
(* relay has not confirmed (usePublicSubmission.ts:1615): "Inbox           *)
(* synchronization will retry automatically."  Its record, queued with the *)
(* blob ids, leaves the queue without the respondent pressing anything.    *)
RetriesAutomatically ==
  \A id \in Ids :
    (CanConfirm /\ \E i \in DOMAIN queue : queue[i] = Item(id, "sealed"))
      ~> ~Queued(id)
=============================================================================
