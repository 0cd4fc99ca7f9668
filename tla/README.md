# DeepSignal: a verification project

DeepSignal collects "signals" (form answers) in the browser, stores them on Walrus
(immutable blobs), records receipts on Sui (Move contracts) and shows them to the form
owner in an inbox. There is no application server: correctness rests on two Move
contracts, on code that runs in several browser tabs at once, and on an Apps Script
relay that keeps the owner's index in a Drive file.

This directory holds TLA+ models of those parts, TLC configurations, and TLAPS proofs.
Every definition that stands for code is translated from the source; `PROJECT.json`
gives, for each definition, the lines it stands for.

    tlc -workers 2 -config MCProjectRegistry.cfg MCProjectRegistry   # a run
    tlapm ContractProofs.tla                                         # the proofs

## 1. Inventory

Paths of TypeScript files are relative to the repository's own `src/`, others to its root.
"Hard" names the behaviour that tests hardly reach.

**Global access control** - `move/deepsignal_access/sources/access_control.move`.
State: the shared `Registry` (owner, owner capability id, list of admin entries), the
capability objects and who holds them. Operations: `add_admin`, `remove_admin`, capability
transfer; read by `project_registry`. Hard: capabilities are transferable, an address can
be added, removed and added again. Correct when authority needs a listed entry *and* its
matching capability, and nobody else can hand it out.

**Project registry** - `move/deepsignal_access/sources/project_registry.move`.
State: per project an owner, members with roles, the legacy `admins` list, forms, signals,
counters; one owner capability per project. Operations: create/delete/transfer a project,
admins and members (add, change role, remove), forms (create, activate, delete), signals
(register, update status), `seal_approve_project_signal`. Calls access control for
`create_project`. Hard: any order of calls by any wallet, `swap_remove` next to ids from
counters, two sources of authority (members and legacy admins). Correct when receipts keep
their number and form, ids are never given out twice, and no order of legal calls makes a
receipt unreadable.

**NFT gate** - `features/public-form/hooks/usePublicNftGate.ts`,
`features/public-form/components/PublicNftGateRuntime.tsx`, `pages/PublicFormPage.tsx`.
State: what the page was told, the hook's count, a cache of successes and requests under way
shared by the tab. Operations: mount, change of wallet, check, recheck at submit. Hard: the
runtime that reports is mounted by the page it reports to; requests outlive the component, the
wallet and the press. Correct when an answer passes the gate only on a request that was made
for it, and a holder gets in.

**Submission delivery** - `features/public-form/hooks/usePublicSubmission.ts`,
`storage/submissionDelivery.ts`, `storage/storageFactory.ts`, `storage/submissionSanitizer.ts`,
`lib/storageSeal.ts`, `components/LocalRecoveryCenter.tsx`.
State: React `submitting`, the pending queue in localStorage (at most 100), My Responses,
the owner's index behind the relay. Operations: submit, queue, upload with fallback, retry
(manual and automatic), reload. Hard: every `await` lets a second click, another tab, a
reload or the deadline in; the relay may accept a request whose answer is lost; the queue
is capped; an encrypted record is queued before it is encrypted. Correct when nothing that
was queued vanishes, "submitted" is only said of delivered signals, and no hollow encrypted
record is delivered.

**Walrus manifest chain** - `storage/walrusAdapter.ts`, `storage/blobIndex.ts`.
State: immutable blobs, the local pointer to the current manifest, the blob ids of the
submissions, local copies. Operations: save and update a submission, publish a form, follow
a link. Hard: read manifest, upload bundle, move index are three steps with awaits between
them; each may fail; an old link rewinds the pointer. Correct when the pointer names a
usable bundle and reported submissions stay reachable.

**Apps Script relay and the cache in front of it** - `scripts/google-drive-apps-script-relay.gs`,
`storage/submissionDelivery.ts`. State: folders and the index file in Drive, a script
property; per tab one slot with a promise and its expiry. Operations: `doPost` (find folders,
read, add, write), `doGet`; ask for the index, answer, reject. Hard: no lock around the
read-modify-write or around find-or-create; a late rejection meets a newer request. Correct
when an acknowledged entry stays readable, and an answer is no older than the slot allows.

**Form publishing and versions** - `pages/FormBuilderPage.tsx`,
`features/createForm/hooks/useCreateFormPublish.ts`, `lib/formVersioning.ts`, `storage/walrusAdapter.ts`,
`storage/localStorageAdapter.ts`. State: the form a page has open, the current bundle, the
local record. Operations: open, publish, fall back, open a shared link, answer. Hard: the
version number is decided twice, and a stale page publishes over a newer form. Correct when
an answer keeps the question structure it was given to.

**Form removal** - `pages/AdminDashboardWorkspace.tsx` (`deleteNodes`),
`storage/deletedFormTombstones.ts`, `storage/forcePurgeFormArtifacts.ts`,
`features/admin/hooks/useSignalInboxData.ts` (list of forms). State: tombstones, four stores
that know a form, the rows on screen. Operations: remove one row or all, load the list, restore
forms known from Sui alone, register a form. Hard: restores write without being waited for, the
wallet answers after its timeout, one node has several aliases, code is loaded half way through.
Correct when what was removed stays removed.

**Owner inbox** - `features/admin/hooks/useSignalInboxData.ts`,
`features/admin/hooks/usePendingSuiRegistration.ts`, `features/admin/runtime/adminWriteRuntime.ts`,
`pages/AdminDashboardWorkspace.tsx`, `hooks/useProjectRegistry.ts`.
State: four stores that know a submission (receipts on chain, the cached summary, the local
store, the remote index) and the rows on screen; a chain of promises that saves reviews.
Operations: load, hydrate in the background, edit and save a review, sync its status to Sui,
register a receipt. Hard: every snapshot can be stale when it is written back. Correct when
a row never carries another submission's receipt, saves take effect in order, a failing save
blocks nobody, and what was reported as saved is shown afterwards.

**Seal decrypt sessions** - `crypto/sealClientAdapter.ts`,
`features/admin/hooks/usePrivateSignalDecrypt.ts`. State: session keys in memory and in
storage, a pending prompt, the selected record, a request counter, a bulk run. Operations:
select, unlock, cancel, bulk unlock, approve, refuse, expire. Hard: a cancelled request goes
on and ends beside a newer one; a prompt is shared. Correct when answers are never shown
under another record and the button always comes back.

**Lazy route and chunk recovery** - `lib/lazyRetry.ts`, `lib/chunkLoadRecovery.ts`,
`routes/routeEpoch.ts`, `routes/RouteErrorBoundary.tsx`. State: a registry of imports, the line
imports stand in on Mobile Safari, the route epoch, the flag and the count of notices (memory,
sessionStorage). Hard: callbacks of different imports change one counter and one line; a chunk
error is reported to two places, one of which swallows it. Correct when nobody is forgotten in
the line and an import fails only after its attempts.

**My Responses and drafts, wallet and zkLogin session, signal memory, system signal reporter,
RPC transport and query cache, pages** - listed in `PROJECT.json` with the reason each is
partly or not modelled: third-party state, advisory stores nobody reads back, or
presentation.

How the parts interact: the submit handler asks the NFT gate, then calls the Walrus adapter,
which posts to the relay; the inbox reads the relay's index through the cache, the Walrus
blobs and the contract, and calls `register_signal` and `update_signal_status`; removals and
registrations of forms call `delete_form` and `create_form`; all browser parts share
localStorage without a lock. Each call is synchronous up to the next `await`, which is what a
step of the browser models is.

## 2. Modules

| Module | Models | Builds on |
|---|---|---|
| `AccessControl` | `access_control.move` | |
| `ProjectRegistry` | `project_registry.move`, composed with access control | extends `AccessControl` |
| `SignalLedger` | what the registry promises (abstract) | refined by `ProjectRegistry` |
| `NftGate` | gated form page, hook and cache, check at submit | |
| `SubmissionDelivery` | submit handler, queue, fallback, retry, relay outcomes | |
| `AnswerBox` | what the public form promises a respondent (abstract) | refined by `SubmissionDelivery` |
| `WalrusManifest` | manifest chain and blob index of one form | |
| `DriveRelay` | the Apps Script relay over Drive | |
| `RemoteIndexCache` | the cached, shared request for the index | |
| `FormVersions` | opening, publishing, linking and answering versions of a form | |
| `FormRemoval` | list of forms, removal, tombstones, purge, restore, registration | |
| `OwnerInbox` | load, hydrate, register, review of one form | |
| `DecryptSession` | unlock requests, bulk run, session keys | |
| `LazyImports` | lazy imports, their line, the update notice | |
| `ContractProofs` | theorems about the two contracts and the refinement | `AccessControl`, `ProjectRegistry` |
| `SubmitProofs` | theorems about the way of an answer to the inbox | `SubmissionDelivery`, `NftGate` |
| `ManifestProofs` | theorems about bundles and their manifests | `WalrusManifest`, `FormVersions` |
| `RelayProofs`, `OwnerInboxProofs` | theorems | the module each names |
| `AnswerPathProofs` | theorems about the request cache and the composed path of an answer | `MCAnswerPath`, `SubmitProofs` |
| `StorageProofs` | theorems about removals and the composed storage layer | `MCStorage`, `ManifestProofs`, `RelayProofs` |
| `ReviewProofs` | theorems about sessions, imports and the composed work of a reviewer | `MCReview`, `ContractProofs`, `OwnerInboxProofs` |
| `MCAnswerPath`, `MCStorage`, `MCReview`, `MCProgress` | several parts on one instance (section 3) | the modules they extend |
| `MCProjectRegistry`, `MCSubmissionDelivery`, `MCOwnerInbox`, `MCDriveRelay`, `MCFormVersions`, `MCLazyImports`, `MCNftGate` | one part on a small instance | the module they name |

An operator named after another with an underscore and a remark (`NextQueue_KeepsAll`) is a
mutated form of that definition. No specification uses it: it stands for a plausible bug, and
`PROJECT.json` says which property fails when it takes the place of the original.

**AccessControl.** `registry` is the shared object, `holder` says who owns each minted
capability. One action per entry function; a Move abort is a disabled action. `CapId`
stands for object ids: a capability id is used once.

**ProjectRegistry.** `project[p]` is the object (or absent), `ownerCap[p]` the holder of its
capability. The Move vectors are sets of records: code that looks an element up takes the
first match, and `FormsKeepIdentity`, `ReceiptsAreDense` and `MembersWellFormed` say that
there is only one. Transactions are atomic, so an action is a whole entry function. The
status byte is any value of `StatusInput`, since the contract does not check it. Titles,
digests, sealed identities and clock times are left out.

**SignalLedger.** Per project, forms go from unborn to open, closed or gone; receipts are
`(number, form)` pairs that only grow, accepted in order and only for an open form; a form
with receipts does not go. `ProjectRegistry!Ledger` is the refinement mapping.

**NftGate.** `told` is the page's copy of the gate's state, `hook` the state of the mounted
hook, `runtime` whether it is mounted; `known` is the cache of the tab and `checks` the
requests under way, each with the wallet it asks about and what the fullnode read. `press` is
the submit handler between the press and the verdict, with the account and the check its
render knew. A count is only whether it is enough. `old` marks requests that were read before
the press.

**SubmissionDelivery.** `handler[h].pc` is where an invocation of `handleSubmit` waits;
`queue` is `deepsignal.submissionDelivery.pendingQueue`; `inbox` what the relay holds. A
queued record is told apart by what it still carries (`raw` before the upload, `fallback`
from the local copy, `sealed` once Walrus has it). `deployment` is one of the possible
builds (with or without local fallback, encrypted or not, the kind of relay).
`MayHaveArrived` is a request that looked failed and may have been accepted. The handler loads
part of its code on the way: a chunk that fails is `PrepareFails`, `QueueFails`, `UploadThrows` or
`ArchiveFails`, all of which end in the catch block (`Fail`).

**AnswerBox.** Without handlers, relays or retries: an answer is given, kept, arrives (perhaps
without the browser learning of it, perhaps hollow where a build allows that), is released and
confirmed. A full box gives away one place for a newer answer; only what has arrived is
released; only a whole answer that is no longer kept is called submitted, and then it is not
sent, kept or changed again, not even when an error takes the word back (`Withdraw`).
`SubmissionDelivery!Box` is the mapping: what My Responses says ("failed" over "submitted" is
withdrawn, every status before "submitted" is waiting), the ids in the queue, the inbox. An
upload that falls back is one `Keep` that may also land; a step that only moves a handler is a
stutter.

**WalrusManifest.** `blobs` is everything uploaded, `manifestAt` and `submissionAt` the local
index, `local` the local copies, `task[t]` a call between its read, its upload and its
synchronous tail. `Abandon` is a failure at any await. `forked` records that calls
overlapped or a stale link was followed.

**DriveRelay.** `folders`, `files` and `rootProperty` are Drive and the script's property;
`execution[e]` is a run of `doPost` or `doGet` between two calls to them. Drive allows two
folders or files with one name, and a search returns any. `raced` records the entries posted
while another post was under way.

**RemoteIndexCache.** `slot` is the cached promise with its expiry, `fetches` the requests
with what they read, `asked` what each caller was given. Time is a counter; `TTL` and
`Timeout` are ticks. The two transports differ in how they fail: one rejects, the other
resolves to an empty list when its time is over.

**FormVersions.** A form is its version, the hash of its structure and the blob it says it is
in. `bundles` are the uploaded ones, `index` the one the local pointer names, `store` the local
record, `editor` what a builder page has open, `page` what each form page has open, `answer` what
each submission says it answers. `parted`, and `base` and `from` of a bundle, are history.

**FormRemoval.** `chain` is what is on Sui, `projects` what the page last fetched of it,
`stored`, `indexed` and `onchainIdOf` the local stores, `screen` and `stable` the rows on screen
and the last list that was not empty. `load` is the newest run of `loadConsole` with the
restore behind it, `orphans` the restores nobody waits for any more, `removal[d]` a run of
`handleDelete`, `late` the transactions still in the wallet after their timeout. `keptRows` and
`outlived` are history: rows that a path which does not ask the tombstones showed or left on
screen, and manifests that a reload, an error or a late registration left in the stores.
`ListingFails` and `RemovalFails` are the catch blocks of the load and of the two buttons. A row without
a local form is a shadow of a form on Sui; forms with one manifest are aliases of one node.

**OwnerInbox.** `receipts`, `known`, `remote`, `local` are the four stores, `view` and `extra`
the rows on screen, `load` the newest run of `loadConsole`, `hydrations` the background runs
that still wait, `saves` the promise chain, `registering` the registrations. A row is what
the inbox distinguishes: review, pending flag, receipt id, status on chain. `Over` is the
object spread of two stores, written as a function so that it can be reasoned about.

**DecryptSession.** `task[i]` is an unlock request (0 is the bulk run), at the step it waits
at; `pending` the prompt others can share, `open` the prompts the wallet shows. A key is the
number of the prompt it was signed in, and expires at any time.

**LazyImports.** `entry` is the registry, `imports[c]` the attempts of a chunk, `activeCount`,
`line` and `resumed` the line of Mobile Safari (`resumed` are those woken but not counted yet,
the microtask in between), `recovery` the flag in memory, the
count in storage and, as history, whether the user had them cleared (`cleared`).

## 3. Runs

A state space holds one part at a time: `MCAnswerPath`, `MCStorage`, `MCReview` and
`MCProgress` extend several modules that share no variables, and `focus`, chosen
initially, says which of them moves while the others stay in an initial state. That keeps
one question ("what may happen to an answer", "to what is stored", "to a reviewer", "what must
get on") in one run without multiplying independent states. The initial condition pins the
parts that do not move, so each behaviour of a part is explored once.

| Run | Instance | Shows |
|---|---|---|
| `registry` | 1 project, 2 wallets, 2 form ids, 2 receipts | receipts stay dense, form ids are never reused, and the contract refines `SignalLedger` |
| `delivery` | gate: 2 wallets, 2 changes, 1 press, 1 failed request; delivery: 2 handlers, 2 submissions, queue of 1, plain and encrypted, with and without fallback, at the index relay; cache: 3 callers, 3 requests, 7 ticks with TTL 3 and timeout 2 | only rechecked answers pass the gate; nothing is silently lost, "submitted" is true, nothing hollow is delivered, and the delivery refines `AnswerBox`; index answers are recent and requests spaced |
| `storage` | manifest: 2 calls, 2 submissions, 4 blobs; versions: 1 builder, 2 form pages, 3 bundles, 2 structures; relay: 2 executions, 2 submissions, 4 folders, 2 files; removal: 2 forms, 2 manifests, 2 ids on Sui, 1 removal at a time, 3 events | the index is usable, reported submissions are reachable, only forks, races and split storage lose entries; versions describe themselves; what was removed stays removed and purged on every path but the named ones |
| `review` | access: 2 wallets, 4 capabilities; projects: 2 with 1 form and 1 receipt each; inbox: 2 submissions with 1 edit, 1 load and 2 receipts, or 1 receipt and a step of another manager, or 2 edits and 2 loads of 1 submission; session: 2 records, all or none of them readable, 2 requests, 2 prompts; chunks: 3, 2 attempts, 1 epoch, 1 retry, 1 reload | authority is the owner's to give and take, members stay well formed, receipts stay readable, a row has its own receipt, the latest save wins, answers are shown under their record, one prompt, fresh keys, nobody forgotten in the line, one part at most fails early |
| `progress` | delivery: 1 handler, 2 submissions, queue of 2; inbox: 1 submission, 2 edits; line: 4 chunks, 2 attempts | a respondent who keeps retrying drains the queue, no outcome of a save blocks the chain, every import ends |
| `removed_member`, `automatic_retry`, `saved_review`, `relay_acknowledged`, `answers_attached`, `attempts_used`, `holder_gets_in` | the smallest instance of one part | violated, see section 6 |

Why the bounds are enough. The contract's rules speak of one project, at most two forms and
two receipts at a time, and of one wallet besides the owner; two of each give every pair,
and the proofs cover all sizes. The `delivery` run has the index relay alone, because it
may confirm, accept without confirming, or refuse: every step of a handler or a retry at another
relay is one of its steps (`CanConfirm` and `CanStore` hold), and the proofs cover every set of
deployments. A queue of one with two submissions is the smallest in which
an eviction happens, a queue of two the smallest with a record behind another. Two handlers,
two adapter calls or two executions of the script are what it takes for a stale read; four
blobs allow a published form, two bundles and one more. In the inbox, two edits make the
chain of saves, two loads make one run stale, and two submissions are needed for a receipt to
land on the wrong one. At the gate, two changes of the wallet or its holdings, one press and
one failure make every request of the page meet a press of another wallet. A third caller and
a third request of the cache are what a late rejection can hurt. Three events in the removal
run are, for example, a load, a removal while its restore reads, and a reload, an error or a second load;
the form that is not in the stores at first is the one a restore brings. The removal starts with one
form in the index; the same run over all initial stores was checked once and passes, but takes
longer. Three chunks and two attempts make a line with somebody behind somebody; `attempts_used`
has all four.

Symmetry is used over handlers, wallets, adapter calls, structures, form pages, projects,
submissions and records, which the modules only compare for equality. `SettledStays`,
`AuthorityIsTheOwners`, `CachedKeyIsFresh` and `ImplementsAnswerBox` are checked beside it:
they are properties of single steps and single out none of these values. No liveness is checked under
symmetry. Deadlock is checked in the contract runs; the browser runs stop once their bounded
clicks, edits and loads are spent and nothing is under way, so it is off there.

## 4. Fairness

Only liveness properties assume any.

- `AutomaticFairness`: a running handler and a running retry go on (`WF`, `SF` against reloads
  that cut a retry short); the relay and localStorage do not refuse the same record for ever
  (`SF` on `SyncConfirmed` and `SyncSaved`); the pages that retry automatically keep calling
  (the app's start, each return of the network and the opening of an inbox page).
- `PatientFairness` adds that the respondent keeps pressing "Retry pending sync".
- `SavingFairness`: every request made by a save is answered or times out. Nothing is assumed
  about the answer: `SaveFails` is as good as a success. Edits are bounded in the run, so
  `SavesDrain` says that no outcome of a save blocks the chain.
- `ImportFairness`: every fetch of a chunk settles in the end and timers fire. Only the shells
  have a hard timeout in the code (`lazyRetry.ts`), so for the pages this is what a browser
  does with a request, not what the code enforces.
- `GateFairness`: chunks arrive, React runs effects, every ownership request is answered.

`RetriesAutomatically` is refuted under `AutomaticSpec` and `HolderGetsIn` under `GateSpec`, so
the counterexamples are not systems that stop: in the first the automatic callers keep
running, in the second everything that can still happen of itself has happened.

## 5. Proofs

Every part has its proofs. They hold for any number of wallets, capabilities, projects,
handlers, pages, calls, executions, callers, requests, forms, submissions and chunks, and for any
bounds. Every safety invariant and every action property that a run checks of a part is a
theorem, and so are the type invariants of the compositions.

| Module | Part | Theorems |
|---|---|---|
| `ContractProofs` | access control | `AccessTypeCorrect`, `AdminsStayWellFormed`, `AuthorityStaysTheOwners` |
| | project registry | `TypeCorrect`, `ReceiptsKeepTheirForm`, `FormIdentity`, `ReceiptNumbering`, `MembersStayWellFormed`, `ReadableForEver`, `DeletedFormIdsStayDead`, the refinement `RegistryImplementsLedger`; `RolesStayTheOwners`, `RemovalEndsMembership` |
| `SubmitProofs` | delivery | `DeliveryTypeCorrect`, `NothingIsLost`, `SubmittedHasArrived`, `OnlyFullQueuesEvict`, `ArrivesWhole`, the refinement `DeliveryImplementsBox` |
| | NFT gate | `GateTypeCorrect`, `SubmitIsChecked` |
| `ManifestProofs` | manifest chain | `ManifestTypeCorrect`, `IndexIsUsable`, `ReportedIsReachable`, `ForksAlone` |
| | versions | `VersionsTypeCorrect`, `CarriersAgree`, `NewestPageIsSafe`, `AnswersNameTheirForms`, `StoreAgreesWithIndex` |
| `RelayProofs` | relay | `RelayTypeCorrect`, `OnlyRacesLose`, `SettledForGood` |
| `AnswerPathProofs` | cache | `CacheTypeCorrect`, `RequestsStaySpaced`, `AnswersStayRecent` |
| | `MCAnswerPath` | `PathFollowsItsParts`, `PathTypeCorrect` |
| `StorageProofs` | removal | `RemovalTypeCorrect`, `RemovedIsHidden`, `PurgedIsGone` |
| | `MCStorage` | `StorageFollowsItsParts`, `StorageTypeCorrect` |
| `OwnerInboxProofs` | inbox | `InboxTypeCorrect`, `RowsNameTheirReceipts`, `LastChoiceIsStored`; `SyncsAreTheirOwn`, `LoadsShowTheSavedOrThePosted` |
| `ReviewProofs` | sessions | `SessionTypeCorrect`, `AnswersOfTheSelected`, `NobodyWaitsForNothing`, `ButtonComesBack`, `OnePrompt`, `FreshKeys` |
| | lazy imports | `LazyTypeCorrect`, `NobodyIsForgotten`, `OneFailsEarly`; `FailuresAreEarned`, `EmptyStays` |
| | `MCReview` | `ReviewFollowsItsParts`, `ReviewTypeCorrect` |

The inductive invariants and why they are needed:

- `AccessInv`: the type and the shape of the admin list. `AuthorityIsTheOwners` needs all of it: a
  wallet has one entry, so that removing it ends its authority; an entry has a capability of its
  own, so that one transfer changes one wallet; listed capabilities were minted, so that the id of
  a new one is no key yet (`AddAdminAuthority`, `RemoveAdminAuthority`, `TransferCapAuthority`).
- `IInv` (registry): the types, then for each project `FormsOK` (the forms are a finite set,
  ids unique and below the counter, `forms_count` the cardinality), `SignalsOK` (ids dense,
  unique, each naming a form), `MembersOK` and `LifeOK` (a project that is not live has neither
  forms nor signals), and `CapsOK` (live exactly when its capability is held). The properties
  are not inductive one by one: `ReceiptsReferToForms` is kept by `DeleteForm` only because
  that looks a form up by an id that is unique, and a new form is new only because ids are
  below the counter. The refinement uses `IInv` in every step: each action is shown to be a
  step of the ledger or to leave its two variables alone.
- `DeliveryInv`: what a handler knows at the step it waits at. No id belongs to two handlers
  (`HandlersOwnTheirIds`), so between its `await`s nobody else sends a signal but the retry;
  a handler that is recording has delivered and dequeued (`HandlersKnow`); a copy left by the
  local fallback is the last of its handler (`FallbackIsFinal`), which is why a retry that sends
  it does not meet "submitted"; and a retry that saves has sent (`SavedHasArrived`). Without
  these, each of the four properties is broken by one step from a state nobody reaches. Evictions
  need a count: what is queued and what was evicted are different signals, all of them enqueued.
- The box: every step of a handler, of the retry or of a reload is one step of `AnswerBox` or
  leaves it alone. `BoxInv` adds to `DeliveryInv` that answers were made before they are
  given (`GivenAreMade`) and that nobody was told yet of what is under way (`NotYetTold`), so that
  only the handler that said "submitted" can take it back;
  `NextQueueKeeps` counts what enqueueing keeps and what it gives up.
- `GateInv`: ids of requests were given once (`IdsAreUsed`), a press waits for a request
  that was not answered before it (`PressIsAhead`), and every request is due to a mount, a
  change of wallet or a press (`ChecksAreDue`). The last says that the ids of the model, of which
  there are `MaxChanges + MaxPresses + 1`, never run out: no request is held back by a bound.
- `ManifestInv`: besides the types, what each call has read and written (`CallsOK`: a
  written bundle carries its call's submission, the form and all its base listed), that
  entries of manifests name uploaded blobs, and that nothing was reported before the index
  names anything (`NothingBefore`). `ReportedIsReachable` rests on `WrittenOK`, `ForksAlone` on the
  base of an unforked call being the current manifest.
- `VersionsInv`: bundles are made from earlier ones (`BasesExist`), listed submissions have an
  answer (`ListedAreAnswered`), and, until store and index are written apart, both know the same
  form, and every form a page, a store or an answer has was read from the bundle it names
  (`PairAgrees`). `NewestPageKeepsAnswers` is about all bundles ever made: a new one is compared
  with its base, the old ones do not change, and an answer is given once.
- `RelayInv`: Drive is a tree whose ids are given once (`TreeOK`), what an execution found is
  still there (`ExecutionsOK`), posts under way together have raced (`OverlapsAreRaced`), and an
  acknowledged entry outside a race is in some reachable file (`SafeIsKept`).
- `CacheInv`: the slot names a request that was not rejected and expires `TTL` after it was sent
  (`SlotOK`), requests outside the slot are rejected or old (`OthersAreOld`), and answers contain
  what was readable before they were asked for.
- Removal: `ShapeOK` (the types, and one row for a form on every list) is enough for
  `RemovedStaysHidden`, because every step that shows rows filters them by the tombstones of that
  moment or records them in `keptRows`, a click leaves a removal under way, and a removal or a load
  that ends in an error records what it leaves on screen. `PurgedStaysPurged`
  needs `PurgeIsComing`: what is left of a tombstoned manifest belongs to a removal that is under
  way and has this manifest in its own list, or it outlived one.
- `InboxInv`: receipts only grow and never change their submission (`Grows`), so every snapshot
  of the registry, however stale, is a beginning of the receipts up to statuses (`Agrees`), and a row
  with a receipt of its own stays one (`GoodRows`). `QueuedAreChosen`: of the saves of one
  submission in the chain, the last carries the review chosen last, so that the store has it
  when none is left.
- `SessionInv`: running tasks have a record, waiters have a prompt, and the prompt that can be
  shared is the only open one until the caches are cleared (`OpenIsPending`).
- `LazyInv`: an entry is pending exactly while its import runs, everybody who waits stands in
  the line once or was woken (`LineOK`), the count is the number of running imports and a line
  that is not empty has somebody to wake it (`CountOK`). `FailsEarlyOnce` adds `SwallowedOnce`: an
  empty entry was swallowed under the flag in memory, which nothing but a cleared recovery resets
  while the entry stays; with `FailuresAreEarned`, what failed early has an empty entry.

Seven properties are refuted by a run (section 6), and of three of them the proofs say how far
the damage goes:

- `RemovedMemberCannotManage`: `RemovalEndsMembership` proves that a removed member keeps
  authority exactly when the wallet is in the legacy list. Beside it, `RolesStayTheOwners`
  says that roles change one wallet at a time and only while the owner holds the capability of
  this project, so that sending it away fixes them for good. Both follow from `IInv` and
  `RolesStep`: a transaction leaves the roles alone or changes those of one wallet.
- `SavedReviewIsShown`: `LoadsShowTheSavedOrThePosted` proves that a load that reaches every
  store shows the saved review of everything that is not in the remote index. It
  needs that nothing is missing from both stores (`NothingIsMissing`) and `QueuedAreChosen`.
  `SyncsAreTheirOwn` completes it on Sui: a save's sync moves the status of a receipt of its own
  submission alone, and a status can only be older than the last choice while a newer save
  stands behind it, or after another manager.
- `AttemptsAreUsed`: `FailuresAreEarned` proves that an import fails early only when its chunk was
  swallowed, and `EmptyStays` that such a chunk is empty until the page is loaded again. The
  invariant is `FailuresOK`: no import is ahead of the route's epoch, so that one which became
  stale stays stale.

Compositions: a behaviour of `MCAnswerPath`, `MCStorage` or `MCReview` is a behaviour of each of
its parts (`PathFollowsItsParts`, `StorageFollowsItsParts`, `ReviewFollowsItsParts`), because a
step moves one part and leaves the variables of the others alone. So the theorems of the parts hold
there, and the type invariants of the compositions follow from them. The theorems about the gate
need no fairness: they are stated of `GateSafety`, which has none.

Each action has a lemma; the theorems at the end of a part join them. Assumptions are those of
the modules: bounds are naturals (`TTL`, `Timeout` and `MaxAttempts` positive, and `MaxBundles`,
because a form is published once before anything else happens), the distinguished values are
outside their sets. No induction over data is used, and no module declares a RECURSIVE operator.

The proofs changed three things in the modules. `PurgedStaysPurged` excepted only
late registrations under an id on Sui that no tombstone names, and was false one event beyond its
run: a form is registered on Sui, the list is loaded again and shows its id, all rows are removed
and purged, so that a tombstone names the id, and only then the registration reports and writes
the form back. The property now names the path whatever the id, and `outlived` records it.
The type of `SubmissionDelivery` says that the retry's list is empty
exactly when it is idle. And `FormVersions` assumes room for the bundle it starts from.

Only model-checked:

- liveness and anything with ENABLED: `DeliverableDrains`, `SavesDrain`, `ComponentsSettle` and
  the refuted `RetriesAutomatically` and `HolderGetsIn` (out of the prover's reach);
- what the violation runs refute, of course.

## 6. Where code and text disagree

Seven runs refute something the repository says of itself; `PROJECT.json` quotes it.

- `removed_member`: `remove_project_member` removes the member entry and never looks at the
  legacy admins list, so a wallet in both still manages the project afterwards. The test at
  project_registry.move:1127 covers a wallet that is in the legacy list alone. No other wallet
  does (`RemovalEndsMembership`).
- `automatic_retry`: the form promises that inbox synchronization "will retry automatically";
  every automatic caller forbids the wallet prompt, and then the retry returns before
  anything is sent.
- `saved_review`: a load spreads the record of the remote index, as it was posted, over the
  local copy that holds the saved review. Nothing else hides one (`LoadsShowTheSavedOrThePosted`).
- `relay_acknowledged`: two posts read the same index file and both write it back; the first
  entry is gone although it was answered as readable by the owner.
- `answers_attached`: a publish that moved the index and could not write the local store is
  tried again from the page's old version, and replaces the structure of answered version 1.
- `attempts_used`: the first chunk failure of a tab is prevented by the handler that asks for the
  update notice, so the import resolves with no module and the other attempts are not made. It is
  the only way to fail early (`FailuresAreEarned`), and only a reload mends it (`EmptyStays`).
- `holder_gets_in`: a form gated for viewing mounts its gate beside the form; the first report
  of the gate replaces the form by the gate screen and unmounts the gate, so a holder who
  connects is never let in.

Observed on the way, without a run of its own:

- A bundle is uploaded with a manifest that lists the new submission with an empty `blobId`,
  which is then set in memory only (`walrusAdapter.ts:1801`, 1829); `README.md:55` says that
  manifests let an operator recover the graph from blob references.
- A removed row comes back when a load finds no form at all (the previous list is kept,
  `useSignalInboxData.ts:1170`) or when a registration ends late (1793); the second also puts a
  copy into the store, also after a purge.
- A removal marks its tombstones (`AdminDashboardWorkspace.tsx:5699`) and then loads code twice
  (5709, 5781). If a chunk fails, the catch block (5856, 5995) only shows a toast: the rows stay on
  screen until the next load, and the stores stay full for good unless what is left is removed
  again. A load that fails (`useSignalInboxData.ts:1420`) leaves the screen as it was, too.
  `RemovedStaysHidden` and `PurgedStaysPurged` name all of these, and a reload, as their only exceptions.
- After "submitted" was written, the handler loads the code of the submitted history
  (`usePublicSubmission.ts:1666`). If that chunk fails, the catch block writes "failed" over it
  (1700), although the owner has the answer; on the stored path the record then stays queued as
  it was before the upload (1636-1646). A respondent may answer again. `ImplementsAnswerBox` has
  the step (`Withdraw`): it costs neither the answer nor its place.
- Clearing the recovery state (`RouteErrorBoundary.tsx:268`, 283, 298) allows a second notice in
  one window of two minutes, and with it a second part that fails early.
- A shadow row of a node reappears when no tombstone names its id on Sui: the tombstones of a
  row without an id on Sui name its form and manifest, which a shadow does not carry.
- One form that is already gone from Sui aborts the whole delete transaction, which is then
  reported as if everything was handled (`adminWriteRuntime.ts:142`).
- The load after a removal uses the projects of the render that started it.
- At the gate, a joined request sets no count, so its page does not learn the result; an answer
  sets the count whatever wallet is connected by then; and a press before the gate has
  reported is not checked.

## 7. What is not modelled

- Data: titles, digests, answers, wording, layout. Encryption is a step that passes or fails;
  what matters of it is whether a record still carries its payload (`Content`).
- Time: the deadline is a step that may happen at any point; keys, cached successes and windows
  end at any point; requests may fail at any point. Only `RemoteIndexCache` has a clock.
- `WalrusManifest`: deletion of superseded blobs, `deleteForms`; the save through a full relay,
  which writes no manifest (`SubmissionDelivery` has its outcomes).
- `FormVersions`: the archive of local versions (`localFormVersions.ts`), the renaming overlay, and
  a link that is followed while the stores are written only in part.
- `FormRemoval`: submissions of the removed forms, several projects, removal of Walrus objects,
  opening the shared link of a removed form.
- `OwnerInbox`: demo signals, filters, streams, the second inbox of `FormSubmissionsPage`,
  shadow rows for blobs that cannot be read.
- `SubmissionDelivery`: attachments, draft autosave, revoke requests.
- `NftGate`: how objects and kiosks of a wallet are walked, the words of the gate screen.
- `DecryptSession`: the approval transaction (it is `seal_approve_project_signal` of
  `ProjectRegistry`) and the failover of RPC clients.
- `LazyImports`: the CSS recovery, a page and chunks of two builds, the banner of the notice, events
  of imports that do not go through `retryLazyImport`, and the branch for the preload errors of
  Safari (`chunkLoadRecovery.ts:235-238`), which swallows without asking for a notice: it is for
  messages that the preload helper of this build does not produce.
- zkLogin and wallet sessions, MemWal, the system signal reporter, RPC failover and the pages:
  see `PROJECT.json`.

## 8. Plan

Done: models, runs and proofs of the contracts with their refinement, delivery with its
refinement, manifest chain, relay and cache, versions, removal, inbox, decrypt sessions, lazy
imports and the NFT gate, and that each composition is its parts. Next, in order of importance:

1. An abstract store of entries that `DriveRelay` implements outside races.
2. The archive of local versions next to `FormVersions`.
3. Draft autosave and the history of My Responses; the failover of the RPC transport.
4. What delimits the other refuted properties: which records a retry drains without a prompt, and
   which gates let a holder in.
