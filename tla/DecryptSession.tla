---------------------------- MODULE DecryptSession ----------------------------
(***************************************************************************)
(* Unlocking sealed signals in one tab of a reviewer: the hook behind the  *)
(* unlock card and the bulk button (usePrivateSignalDecrypt.ts) and the    *)
(* session keys it asks for (crypto/sealClientAdapter.ts), for one wallet  *)
(* and one package.                                                        *)
(*                                                                         *)
(* A session key is the number of the wallet prompt it was signed in.      *)
(* Whether the key servers approve is left open: an unlock can fail at any *)
(* step, and for a key whose ten minutes are over it does.  "failed"       *)
(* stands for "unauthorized" as well.                                      *)
(***************************************************************************)
EXTENDS Naturals, FiniteSets

CONSTANTS
    Records,        \* the sealed signals in the list
    NoRecord,
    MaxRequests,    \* bound on presses of the unlock button
    MaxPrompts      \* bound on wallet prompts

ASSUME SessionAssumption ==
    /\ NoRecord \notin Records
    /\ MaxRequests \in Nat /\ MaxPrompts \in Nat

VARIABLES
    page,           \* which page uses the hook
    available,      \* records whose encrypted payload can be read
    selected,       \* the selected record
    detail,         \* the record whose answers are shown (detailAnswers)
    decryptState,
    unlocked,       \* keys of decryptedSignalsById
    active,         \* activeDecryptRequestRef: a request id, 0 is null
    inFlight,       \* decryptInFlightRef and decrypting
    requests,       \* decryptRequestIdRef, the requests ever started
    task,           \* where each request is, and the bulk run
    bulkLeft,       \* what the bulk run has still to do
    memoryKey,      \* sessionKeyCache; 0 is no key
    storedKey,      \* the key in sessionStorage
    pending,        \* pendingSessionKeyPromises: the prompt others can share
    prompts,        \* wallet prompts ever opened
    open,           \* prompts the wallet still shows
    expired,        \* keys whose time is over
    cleared         \* history: the caches were cleared by hand

viewVars == <<page, available, selected, detail, decryptState, unlocked>>
taskVars == <<active, inFlight, requests, task, bulkLeft>>
keyVars == <<memoryKey, storedKey, pending, prompts, open, expired, cleared>>
sessionVars == <<viewVars, taskVars, keyVars>>

Requests == 1..MaxRequests
Prompts == 1..MaxPrompts
Bulk == 0
Tasks == {Bulk} \cup Requests
States == {"locked", "checking_access", "waiting_wallet_approval", "decrypting",
           "decrypted", "failed"}

Off == [step |-> "off", record |-> NoRecord, key |-> 0]
Busy(a) == task[a] # Off

(* The parts of the state have the shapes the hook and the adapter use.    *)
SessionTypeOK ==
    /\ page \in {"workspace", "submissions"}
    /\ available \subseteq Records /\ unlocked \subseteq Records
    /\ selected \in Records \cup {NoRecord} /\ detail \in Records \cup {NoRecord}
    /\ decryptState \in States
    /\ active \in 0..MaxRequests /\ requests \in 0..MaxRequests /\ inFlight \in BOOLEAN
    /\ task \in [Tasks -> [step : {"off", "fetch", "prompt", "unlock", "refused"},
                           record : Records \cup {NoRecord}, key : 0..MaxPrompts]]
    /\ bulkLeft \subseteq Records
    /\ {memoryKey, storedKey, pending, prompts} \subseteq 0..MaxPrompts
    /\ open \subseteq Prompts /\ expired \subseteq Prompts
    /\ cleared \in BOOLEAN

Closed ==
    /\ selected = NoRecord /\ detail = NoRecord /\ decryptState = "locked"
    /\ unlocked = {}
    /\ active = 0 /\ inFlight = FALSE
    /\ task = [a \in Tasks |-> Off] /\ bulkLeft = {}
    /\ memoryKey = 0 /\ pending = 0 /\ open = {}

SessionInit ==
    /\ page \in {"workspace", "submissions"}
    /\ available \in SUBSET Records
    /\ Closed
    /\ requests = 0 /\ prompts = 0
    /\ storedKey = 0 /\ expired = {} /\ cleared = FALSE

(* onStatusChange of a request: only the active one, whatever is selected. *)
Status(a, value) == IF a # Bulk /\ a = active THEN value ELSE decryptState

-----------------------------------------------------------------------------
(* What the reviewer does. *)

(* The selection and the effect that follows it.  The submissions page     *)
(* does not let go of a record while its unlock is in flight.              *)
Select(r) ==
    /\ r # selected
    /\ page = "submissions" => ~inFlight
    /\ selected' = r
    /\ detail' = IF r \in unlocked THEN r ELSE NoRecord
    /\ decryptState' = IF r \in unlocked THEN "decrypted" ELSE "locked"
    /\ UNCHANGED <<page, available, unlocked, taskVars, keyVars>>

(* The button guards the single unlock alone, not the bulk run.            *)
CanDecrypt == selected # NoRecord /\ detail = NoRecord /\ ~inFlight

handleDecrypt ==
    /\ CanDecrypt
    /\ selected \in available
    /\ requests < MaxRequests
    /\ requests' = requests + 1
    /\ active' = requests'
    /\ inFlight' = TRUE
    /\ task' = [task EXCEPT ![requests'] = [step |-> "fetch", record |-> selected, key |-> 0]]
    /\ decryptState' = "checking_access"
    /\ UNCHANGED <<page, available, selected, detail, unlocked, bulkLeft, keyVars>>

NothingToDecrypt ==
    /\ CanDecrypt
    /\ selected \notin available
    /\ decryptState' = "failed"
    /\ UNCHANGED <<page, available, selected, detail, unlocked, taskVars, keyVars>>

(* Only the submissions page offers to cancel.  The request goes on.       *)
handleCancelDecrypt ==
    /\ page = "submissions"
    /\ active # 0
    /\ active' = 0
    /\ inFlight' = FALSE
    /\ decryptState' = IF detail # NoRecord THEN "decrypted" ELSE "locked"
    /\ UNCHANGED <<page, available, selected, detail, unlocked,
                   requests, task, bulkLeft, keyVars>>

(* One record after the other, in the order of the list.                   *)
handleDecryptRecords ==
    /\ ~Busy(Bulk) /\ ~inFlight
    /\ \E r \in available \ unlocked :
         /\ task' = [task EXCEPT ![Bulk] = [step |-> "fetch", record |-> r, key |-> 0]]
         /\ bulkLeft' = (available \ unlocked) \ {r}
    /\ UNCHANGED <<viewVars, active, inFlight, requests, keyVars>>

-----------------------------------------------------------------------------
(* getOrCreateSessionKey. *)

(* Mutant of CachedKey: the restored key is taken as it is.                *)
CachedKey_StoredUnchecked ==
    IF memoryKey # 0 THEN (IF memoryKey \in expired THEN 0 ELSE memoryKey) ELSE storedKey

(* A key in memory hides the stored one, also when it is too old.          *)
CachedKey ==
    LET key == IF memoryKey # 0 THEN memoryKey ELSE storedKey
    IN  IF key \in expired THEN 0 ELSE key

UseCachedKey(a) ==
    /\ task[a].step = "fetch"
    /\ CachedKey # 0
    /\ memoryKey' = CachedKey
    /\ task' = [task EXCEPT ![a].step = "unlock", ![a].key = CachedKey]
    /\ decryptState' = Status(a, "decrypting")
    /\ UNCHANGED <<page, available, selected, detail, unlocked, active, inFlight,
                   requests, bulkLeft, storedKey, pending, prompts, open, expired, cleared>>

(* A miss leaves no key behind; a prompt that is open is shared ...        *)
SharePrompt(a) ==
    /\ task[a].step = "fetch"
    /\ CachedKey = 0
    /\ pending # 0
    /\ memoryKey' = 0 /\ storedKey' = 0
    /\ task' = [task EXCEPT ![a].step = "prompt", ![a].key = pending]
    /\ decryptState' = Status(a, "decrypting")
    /\ UNCHANGED <<page, available, selected, detail, unlocked, active, inFlight,
                   requests, bulkLeft, pending, prompts, open, expired, cleared>>

(* Mutant of OpenPrompt: each unlock asks the wallet itself.               *)
OpenPrompt_NeverShares(a) ==
    /\ task[a].step = "fetch"
    /\ CachedKey = 0
    /\ prompts < MaxPrompts
    /\ memoryKey' = 0 /\ storedKey' = 0
    /\ prompts' = prompts + 1
    /\ open' = open \cup {prompts'}
    /\ pending' = prompts'
    /\ task' = [task EXCEPT ![a].step = "prompt", ![a].key = prompts']
    /\ decryptState' = Status(a, "waiting_wallet_approval")
    /\ UNCHANGED <<page, available, selected, detail, unlocked, active, inFlight,
                   requests, bulkLeft, expired, cleared>>

(* ... and a new one is opened otherwise.                                  *)
OpenPrompt(a) ==
    /\ task[a].step = "fetch"
    /\ CachedKey = 0
    /\ pending = 0
    /\ prompts < MaxPrompts
    /\ memoryKey' = 0 /\ storedKey' = 0
    /\ prompts' = prompts + 1
    /\ open' = open \cup {prompts'}
    /\ pending' = prompts'
    /\ task' = [task EXCEPT ![a].step = "prompt", ![a].key = prompts']
    /\ decryptState' = Status(a, "waiting_wallet_approval")
    /\ UNCHANGED <<page, available, selected, detail, unlocked, active, inFlight,
                   requests, bulkLeft, expired, cleared>>

(* Everybody who waits for a prompt goes on when the wallet has answered.  *)
Resumed(p, step) ==
    [a \in Tasks |-> IF task[a].step = "prompt" /\ task[a].key = p
                       THEN [task[a] EXCEPT !.step = step] ELSE task[a]]

(* The signed key is kept in memory and, where it can be, in the storage.  *)
(* The entry of the pending map goes, whichever prompt it is for by now.   *)
Approve(p) ==
    /\ p \in open
    /\ open' = open \ {p}
    /\ memoryKey' = p
    /\ storedKey' \in {p, storedKey}
    /\ pending' = 0
    /\ task' = Resumed(p, "unlock")
    /\ decryptState' = IF active # 0 /\ task[active] # task'[active]
                         THEN "decrypting" ELSE decryptState
    /\ UNCHANGED <<page, available, selected, detail, unlocked, active, inFlight,
                   requests, bulkLeft, prompts, expired, cleared>>

(* Mutant of Refuse: the promise that was rejected stays in the map.       *)
Refuse_KeepsPending(p) ==
    /\ p \in open
    /\ open' = open \ {p}
    /\ task' = Resumed(p, "refused")
    /\ UNCHANGED <<viewVars, active, inFlight, requests, bulkLeft,
                   memoryKey, storedKey, pending, prompts, expired, cleared>>

Refuse(p) ==
    /\ p \in open
    /\ open' = open \ {p}
    /\ pending' = 0
    /\ task' = Resumed(p, "refused")
    /\ UNCHANGED <<viewVars, active, inFlight, requests, bulkLeft,
                   memoryKey, storedKey, prompts, expired, cleared>>

(* The ten minutes run from the prompt, not from the signature.            *)
Expire(k) ==
    /\ k \in 1..prompts
    /\ k \notin expired
    /\ expired' = expired \cup {k}
    /\ UNCHANGED <<viewVars, taskVars, memoryKey, storedKey, pending, prompts, open, cleared>>

(* clearDeepSignalPolicyCapabilityCache: not while an unlock is in flight, *)
(* but a cancelled one and the bulk run may still wait for their prompt.   *)
ClearCaches ==
    /\ ~inFlight
    /\ memoryKey' = 0 /\ storedKey' = 0 /\ pending' = 0
    /\ cleared' = TRUE
    /\ UNCHANGED <<viewVars, taskVars, prompts, open, expired>>

-----------------------------------------------------------------------------
(* How an unlock ends. *)

IsLatest(i) == active = i
(* Mutant of ShowsResult: the result is shown to whoever looks, as the     *)
(* status is.                                                              *)
ShowsResult_Latest(i) == IsLatest(i)

ShowsResult(i) == IsLatest(i) /\ selected = task[i].record

(* Mutant of EndRequest: the flag is only cleared together with showing    *)
(* the result.                                                             *)
EndRequest_ForgetsFlag(i) ==
    /\ active' = IF IsLatest(i) THEN 0 ELSE active
    /\ inFlight' = (inFlight /\ ~ShowsResult(i))
    /\ task' = [task EXCEPT ![i] = Off]
    /\ UNCHANGED <<requests, bulkLeft, keyVars>>

(* finally: the flag is cleared whoever set it.                            *)
EndRequest(i) ==
    /\ active' = IF IsLatest(i) THEN 0 ELSE active
    /\ inFlight' = FALSE
    /\ task' = [task EXCEPT ![i] = Off]
    /\ UNCHANGED <<requests, bulkLeft, keyVars>>

(* signal_unlocked reaches the card of whatever is selected by now; the    *)
(* answers only that of the record they belong to.                         *)
RequestUnlocks(i) ==
    /\ task[i].step = "unlock"
    /\ task[i].key \notin expired
    /\ unlocked' = unlocked \cup {task[i].record}
    /\ detail' = IF ShowsResult(i) THEN task[i].record ELSE detail
    /\ decryptState' = Status(i, "decrypted")
    /\ EndRequest(i)
    /\ UNCHANGED <<page, available, selected>>

RequestFails(i) ==
    /\ Busy(i)
    /\ task[i].step # "prompt"
    /\ decryptState' = IF ShowsResult(i) THEN "failed" ELSE decryptState
    /\ EndRequest(i)
    /\ UNCHANGED <<page, available, selected, detail, unlocked>>

(* The bulk run goes to the next record, also after a failure.             *)
NextOfBulk ==
    /\ IF bulkLeft = {}
         THEN task' = [task EXCEPT ![Bulk] = Off] /\ UNCHANGED bulkLeft
         ELSE \E r \in bulkLeft :
                /\ task' = [task EXCEPT ![Bulk] = [step |-> "fetch", record |-> r, key |-> 0]]
                /\ bulkLeft' = bulkLeft \ {r}
    /\ UNCHANGED <<active, inFlight, requests, keyVars>>

BulkUnlocks ==
    LET r == task[Bulk].record IN
    /\ task[Bulk].step = "unlock"
    /\ task[Bulk].key \notin expired
    /\ unlocked' = unlocked \cup {r}
    /\ detail' = IF selected = r THEN r ELSE detail
    /\ decryptState' = IF selected = r THEN "decrypted" ELSE decryptState
    /\ NextOfBulk
    /\ UNCHANGED <<page, available, selected>>

BulkFails ==
    /\ Busy(Bulk)
    /\ task[Bulk].step # "prompt"
    /\ NextOfBulk
    /\ UNCHANGED viewVars

(* A reload of the tab keeps the stored key alone.                         *)
Reload ==
    /\ detail' = NoRecord /\ selected' = NoRecord /\ decryptState' = "locked"
    /\ unlocked' = {}
    /\ active' = 0 /\ inFlight' = FALSE /\ bulkLeft' = {}
    /\ task' = [a \in Tasks |-> Off]
    /\ memoryKey' = 0 /\ pending' = 0 /\ open' = {}
    /\ UNCHANGED <<page, available, requests, storedKey, prompts, expired, cleared>>

SessionNext ==
    \/ \E r \in Records \cup {NoRecord} : Select(r)
    \/ handleDecrypt \/ NothingToDecrypt \/ handleCancelDecrypt
    \/ handleDecryptRecords
    \/ \E a \in Tasks : UseCachedKey(a) \/ SharePrompt(a) \/ OpenPrompt(a)
    \/ \E p \in Prompts : Approve(p) \/ Refuse(p) \/ Expire(p)
    \/ ClearCaches
    \/ \E i \in Requests : RequestUnlocks(i) \/ RequestFails(i)
    \/ BulkUnlocks \/ BulkFails
    \/ Reload

SessionSpec == SessionInit /\ [][SessionNext]_sessionVars

-----------------------------------------------------------------------------
(***************************************************************************)
(* The answers on screen are those of the selected record, and of one that *)
(* was unlocked, however late an unlock ends and whatever was selected,    *)
(* cancelled or started in between (usePrivateSignalDecrypt.ts:365-390).   *)
(***************************************************************************)
ShownIsSelected ==
    detail # NoRecord => detail = selected /\ detail \in unlocked

(***************************************************************************)
(* The wallet shows one prompt at a time, also when the bulk run and a     *)
(* single unlock start together, or one is cancelled and another started;  *)
(* only clearing the caches by hand lets a second one through              *)
(* (sealClientAdapter.ts:454-484).                                         *)
(***************************************************************************)
OnePromptUnlessCleared == cleared \/ Cardinality(open) <= 1

(***************************************************************************)
(* Nobody waits, or can come to wait, for a prompt the wallet has already  *)
(* closed: after a refusal, a clearing or a second prompt the next unlock  *)
(* asks again or shares one that is still open                             *)
(* (sealClientAdapter.ts:454-484).                                         *)
(***************************************************************************)
WaitersHaveAPrompt ==
    /\ pending # 0 => pending \in open
    /\ \A a \in Tasks : task[a].step = "prompt" => task[a].key \in open

(***************************************************************************)
(* A key that comes from a cache is not expired when it is handed out,     *)
(* whichever of the two caches held it (sealClientAdapter.ts:487-545).     *)
(***************************************************************************)
CachedKeyIsFresh ==
    [][\A a \in Tasks :
         (task[a].step = "fetch" /\ task'[a].step = "unlock") =>
             task'[a].key \notin expired]_sessionVars

(***************************************************************************)
(* The unlock button is only locked while the request that locked it is    *)
(* under way: no order of cancelling, failing and starting again leaves it *)
(* locked for good (usePrivateSignalDecrypt.ts:293-306, 439-451).          *)
(***************************************************************************)
LockedMeansRunning ==
    inFlight => active # 0 /\ Busy(active)

=============================================================================
