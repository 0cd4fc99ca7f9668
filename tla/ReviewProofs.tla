---------------------------- MODULE ReviewProofs -----------------------------
(***************************************************************************)
(* Proofs about DecryptSession for every set of records and every bound on *)
(* requests and prompts, LazyImports for every set of chunks and every     *)
(* number of attempts, route epochs, retries and reloads, and about the    *)
(* work of a reviewer that MCReview composes.                              *)
(***************************************************************************)
EXTENDS MCReview, ContractProofs, OwnerInboxProofs, SequenceTheorems

-----------------------------------------------------------------------------
(* DecryptSession                                                          *)

(* The prompt others can share is the only one the wallet shows, until the *)
(* caches are cleared by hand.                                             *)
OpenIsPending == cleared \/ open \subseteq {pending}

(* Whoever runs has a record to unlock.                                    *)
TasksHaveRecords == \A a \in Tasks : Busy(a) => task[a].record \in Records

SessionInv ==
    SessionTypeOK /\ TasksHaveRecords /\ ShownIsSelected /\ WaitersHaveAPrompt /\ LockedMeansRunning
      /\ OpenIsPending

Steps == {"off", "fetch", "prompt", "unlock", "refused"}
Task == [step : Steps, record : Records \cup {NoRecord}, key : 0..MaxPrompts]

(* What the sets of ids are for the provers.                               *)
LEMMA Ids ==
    /\ Requests \subseteq Tasks /\ Bulk \in Tasks /\ Bulk = 0 /\ 0 \in 0..MaxPrompts
    /\ Requests \subseteq 0..MaxRequests /\ \A i \in Requests : i # 0
    /\ Prompts \subseteq 0..MaxPrompts /\ \A p \in Prompts : p # 0
    /\ 0 \in 0..MaxRequests /\ 0 \notin Prompts
    /\ \A i \in 0..MaxRequests : i # 0 => i \in Requests
    /\ \A i \in 0..MaxRequests : i < MaxRequests => i + 1 \in Requests
    /\ \A p \in 0..MaxPrompts : p < MaxPrompts => p + 1 \in Prompts
    /\ Off \in Task
BY SessionAssumption DEF Requests, Prompts, Tasks, Bulk, Off, Task, Steps

LEMMA TaskShape ==
    ASSUME SessionTypeOK, NEW a \in Tasks
    PROVE  /\ task \in [Tasks -> Task] /\ task[a] \in Task
           /\ task[a].step \in Steps /\ task[a].record \in Records \cup {NoRecord}
           /\ task[a].key \in 0..MaxPrompts
BY DEF SessionTypeOK, Task, Steps

LEMMA SessionInitInv == SessionInit => SessionInv
<1> SUFFICES ASSUME SessionInit PROVE SessionInv
  OBVIOUS
<1>1. task = [a \in Tasks |-> Off] /\ [a \in Tasks |-> Off] \in [Tasks -> Task]
  BY Ids DEF SessionInit, Closed
<1>2. SessionTypeOK
  BY <1>1, Ids DEF SessionInit, Closed, SessionTypeOK, States, Task, Steps
<1>3. WaitersHaveAPrompt /\ TasksHaveRecords
  BY <1>1 DEF SessionInit, Closed, WaitersHaveAPrompt, TasksHaveRecords, Busy, Off
<1> QED
  BY <1>2, <1>3 DEF SessionInit, Closed, SessionInv, ShownIsSelected,
                    LockedMeansRunning, OpenIsPending

(* What the reviewer looks at changes neither tasks nor keys.              *)
LEMMA SelectInv ==
    ASSUME SessionInv, NEW r \in Records \cup {NoRecord}, Select(r) PROVE SessionInv'
<1> USE DEF SessionInv
<1>1. SessionTypeOK'
  BY DEF SessionTypeOK, Select, taskVars, keyVars, States
<1>2. ShownIsSelected'
  BY DEF Select, ShownIsSelected
<1>3. (TasksHaveRecords /\ WaitersHaveAPrompt /\ LockedMeansRunning /\ OpenIsPending)'
  BY DEF Select, taskVars, keyVars, TasksHaveRecords, WaitersHaveAPrompt, LockedMeansRunning,
         OpenIsPending, Busy
<1> QED  BY <1>1, <1>2, <1>3

LEMMA handleDecryptInv == ASSUME SessionInv, handleDecrypt PROVE SessionInv'
<1> USE DEF SessionInv
<1> DEFINE started == [step |-> "fetch", record |-> selected, key |-> 0]
<1>1. requests' \in Requests /\ requests' # 0 /\ requests' \in 0..MaxRequests /\ requests' \in Tasks
  BY Ids DEF SessionTypeOK, handleDecrypt
<1>2. started \in Task
  BY Ids DEF SessionTypeOK, Task, Steps
<1>3. task' = [task EXCEPT ![requests'] = started] /\ task \in [Tasks -> Task]
  BY DEF handleDecrypt, SessionTypeOK, Task, Steps
<1>4. task' \in [Tasks -> Task] /\ task'[requests'] = started
        /\ \A a \in Tasks : a # requests' => task'[a] = task[a]
  BY <1>1, <1>2, <1>3
<1>5. SessionTypeOK'
  BY <1>1, <1>4 DEF SessionTypeOK, handleDecrypt, keyVars, States, Task, Steps
<1>6. ShownIsSelected'
  BY DEF handleDecrypt, ShownIsSelected
<1>7. WaitersHaveAPrompt'
  <2>1. \A a \in Tasks : task'[a].step = "prompt" => task[a].step = "prompt" /\ task'[a].key = task[a].key
    BY <1>4
  <2> QED  BY <2>1 DEF handleDecrypt, keyVars, WaitersHaveAPrompt
<1>8. LockedMeansRunning'
  BY <1>1, <1>4 DEF handleDecrypt, LockedMeansRunning, Busy, Off
<1>9. OpenIsPending'
  BY DEF handleDecrypt, keyVars, OpenIsPending
<1>10. TasksHaveRecords'
  <2>1. selected \in Records
    BY DEF handleDecrypt, SessionTypeOK
  <2> QED  BY <1>4, <2>1 DEF TasksHaveRecords, Busy
<1> QED  BY <1>5, <1>6, <1>7, <1>8, <1>9, <1>10

LEMMA NothingToDecryptInv == ASSUME SessionInv, NothingToDecrypt PROVE SessionInv'
BY DEF SessionInv, NothingToDecrypt, taskVars, keyVars, SessionTypeOK, States,
       TasksHaveRecords, ShownIsSelected, WaitersHaveAPrompt, LockedMeansRunning,
       OpenIsPending, Busy

LEMMA handleCancelDecryptInv == ASSUME SessionInv, handleCancelDecrypt PROVE SessionInv'
<1> USE DEF SessionInv, handleCancelDecrypt, keyVars
<1>1. SessionTypeOK'
  BY Ids DEF SessionTypeOK, States
<1>2. (TasksHaveRecords /\ ShownIsSelected /\ WaitersHaveAPrompt /\ LockedMeansRunning
         /\ OpenIsPending)'
  BY DEF TasksHaveRecords, Busy, ShownIsSelected, WaitersHaveAPrompt, LockedMeansRunning,
         OpenIsPending
<1> QED  BY <1>1, <1>2

(* A step of the bulk run leaves requests, prompts and keys alone.         *)
LEMMA BulkTaskInv ==
    ASSUME SessionInv, NEW x \in Task, x.step \in {"off", "fetch"},
           x = Off \/ x.record \in Records, task' = [task EXCEPT ![Bulk] = x],
           UNCHANGED <<active, inFlight, requests, keyVars>>
    PROVE  /\ task' \in [Tasks -> Task]
           /\ (TasksHaveRecords /\ WaitersHaveAPrompt /\ LockedMeansRunning /\ OpenIsPending)'
<1> USE DEF SessionInv
<1>1. task \in [Tasks -> Task] /\ Bulk \in Tasks /\ Bulk = 0
  BY Ids DEF SessionTypeOK, Task, Steps
<1>2. task' \in [Tasks -> Task] /\ task'[Bulk] = x /\ \A a \in Tasks : a # Bulk => task'[a] = task[a]
  BY <1>1
<1>3. WaitersHaveAPrompt'
  <2>1. \A a \in Tasks : task'[a].step = "prompt" => task[a].step = "prompt" /\ task'[a].key = task[a].key
    BY <1>2
  <2> QED  BY <2>1 DEF keyVars, WaitersHaveAPrompt
<1>4. LockedMeansRunning'
  <2>1. active # 0 => active \in Tasks
    BY Ids DEF SessionTypeOK
  <2> QED  BY <1>1, <1>2, <2>1 DEF LockedMeansRunning, Busy
<1>5. OpenIsPending'
  BY DEF keyVars, OpenIsPending
<1>6. TasksHaveRecords'
  BY <1>2 DEF TasksHaveRecords, Busy
<1> QED  BY <1>2, <1>3, <1>4, <1>5, <1>6

LEMMA handleDecryptRecordsInv == ASSUME SessionInv, handleDecryptRecords PROVE SessionInv'
<1> USE DEF SessionInv
<1>1. PICK r \in available \ unlocked :
        /\ task' = [task EXCEPT ![Bulk] = [step |-> "fetch", record |-> r, key |-> 0]]
        /\ bulkLeft' = (available \ unlocked) \ {r}
  BY DEF handleDecryptRecords
<1>2. [step |-> "fetch", record |-> r, key |-> 0] \in Task /\ r \in Records
  BY Ids DEF SessionTypeOK, Task, Steps
<1>3. /\ task' \in [Tasks -> Task]
      /\ (TasksHaveRecords /\ WaitersHaveAPrompt /\ LockedMeansRunning /\ OpenIsPending)'
  BY <1>1, <1>2, BulkTaskInv DEF handleDecryptRecords
<1>4. SessionTypeOK'
  BY <1>1, <1>3 DEF handleDecryptRecords, viewVars, keyVars, SessionTypeOK, Task, Steps
<1>5. ShownIsSelected'
  BY DEF handleDecryptRecords, viewVars, ShownIsSelected
<1> QED  BY <1>3, <1>4, <1>5

(* How a step of one task moves the invariants that speak of tasks.        *)
LEMMA OneTaskMoves ==
    ASSUME SessionInv, NEW a \in Tasks, NEW x \in Task, x.step # "off",
           x.record \in Records, task' = [task EXCEPT ![a] = x],
           x.step = "prompt" => x.key \in open', open \subseteq open',
           pending' # 0 => pending' \in open',
           UNCHANGED <<active, inFlight>>
    PROVE  /\ task' \in [Tasks -> Task]
           /\ (TasksHaveRecords /\ WaitersHaveAPrompt /\ LockedMeansRunning)'
<1> USE DEF SessionInv
<1>1. task \in [Tasks -> Task]
  BY DEF SessionTypeOK, Task, Steps
<1>2. task' \in [Tasks -> Task] /\ task'[a] = x /\ \A b \in Tasks : b # a => task'[b] = task[b]
  BY <1>1
<1>3. WaitersHaveAPrompt'
  BY <1>2 DEF WaitersHaveAPrompt
<1>4. LockedMeansRunning'
  <2>1. active # 0 => active \in Tasks
    BY Ids DEF SessionTypeOK
  <2> QED  BY <1>2, <2>1 DEF LockedMeansRunning, Busy, Off
<1>5. TasksHaveRecords'
  BY <1>2 DEF TasksHaveRecords, Busy
<1> QED  BY <1>2, <1>3, <1>4, <1>5

(* The task with another step and key.                                     *)
Moved(a, step, key) == [task[a] EXCEPT !.step = step, !.key = key]

LEMMA StepAndKey ==
    ASSUME SessionTypeOK, TasksHaveRecords, NEW a \in Tasks, Busy(a),
           NEW step \in Steps, NEW key \in 0..MaxPrompts
    PROVE  /\ Moved(a, step, key) \in Task /\ Moved(a, step, key).step = step
           /\ Moved(a, step, key).key = key /\ Moved(a, step, key).record \in Records
<1>1. task[a] \in Task /\ task[a].record \in Records
  BY TaskShape DEF TasksHaveRecords
<1>2. ASSUME NEW o \in Task, NEW n, n = [o EXCEPT !.step = step, !.key = key]
      PROVE  n \in Task /\ n.step = step /\ n.key = key /\ n.record = o.record
  BY <1>2 DEF Task
<1> QED  BY <1>1, <1>2 DEF Moved

LEMMA CachedKeyType == SessionTypeOK => CachedKey \in 0..MaxPrompts
BY Ids DEF SessionTypeOK, CachedKey

LEMMA StatusType ==
    ASSUME SessionTypeOK, NEW a, NEW value \in States PROVE Status(a, value) \in States
BY DEF SessionTypeOK, Status

LEMMA UseCachedKeyInv ==
    ASSUME SessionInv, NEW a \in Tasks, UseCachedKey(a) PROVE SessionInv'
<1> USE DEF SessionInv
<1> DEFINE x == Moved(a, "unlock", CachedKey)
<1>1. /\ x \in Task /\ x.step = "unlock" /\ x.record \in Records
      /\ task' = [task EXCEPT ![a] = x] /\ CachedKey \in 0..MaxPrompts
  <2>1. "unlock" \in Steps /\ Busy(a) /\ CachedKey \in 0..MaxPrompts
    BY CachedKeyType DEF UseCachedKey, Steps, Busy, Off
  <2>2. task \in [Tasks -> Task] /\ SessionTypeOK /\ TasksHaveRecords
    BY TaskShape
  <2>3. task' = [task EXCEPT ![a] = x]
    BY <2>2 DEF UseCachedKey, Moved
  <2> HIDE DEF SessionInv
  <2> QED  BY <2>1, <2>2, <2>3, StepAndKey
<1>2. task' \in [Tasks -> Task] /\ (TasksHaveRecords /\ WaitersHaveAPrompt /\ LockedMeansRunning)'
  <2> HIDE DEF x
  <2>1. UNCHANGED <<pending, open, active, inFlight>>
    BY DEF UseCachedKey
  <2> QED  BY <1>1, <2>1, OneTaskMoves DEF WaitersHaveAPrompt
<1>3. SessionTypeOK'
  <2>1. decryptState' \in States
    BY StatusType DEF UseCachedKey, States
  <2> QED  BY <1>1, <1>2, <2>1 DEF UseCachedKey, SessionTypeOK, Task, Steps
<1>4. (ShownIsSelected /\ OpenIsPending)'
  BY DEF UseCachedKey, ShownIsSelected, OpenIsPending
<1> QED  BY <1>2, <1>3, <1>4

LEMMA SharePromptInv ==
    ASSUME SessionInv, NEW a \in Tasks, SharePrompt(a) PROVE SessionInv'
<1> USE DEF SessionInv
<1> DEFINE x == Moved(a, "prompt", pending)
<1>1. /\ x \in Task /\ x.step = "prompt" /\ x.key = pending /\ x.record \in Records
      /\ task' = [task EXCEPT ![a] = x]
  <2>1. "prompt" \in Steps /\ Busy(a) /\ pending \in 0..MaxPrompts
    BY DEF SharePrompt, Steps, Busy, Off, SessionTypeOK
  <2>2. task \in [Tasks -> Task] /\ SessionTypeOK /\ TasksHaveRecords
    BY TaskShape
  <2>3. task' = [task EXCEPT ![a] = x]
    BY <2>2 DEF SharePrompt, Moved
  <2> HIDE DEF SessionInv
  <2> QED  BY <2>1, <2>2, <2>3, StepAndKey
<1>2. task' \in [Tasks -> Task] /\ (TasksHaveRecords /\ WaitersHaveAPrompt /\ LockedMeansRunning)'
  <2> HIDE DEF x
  <2>1. UNCHANGED <<pending, open, active, inFlight>> /\ pending \in open
    BY DEF SharePrompt, WaitersHaveAPrompt
  <2> QED  BY <1>1, <2>1, OneTaskMoves
<1>3. SessionTypeOK'
  <2>1. decryptState' \in States
    BY StatusType DEF SharePrompt, States
  <2> QED  BY <1>2, <2>1, Ids DEF SharePrompt, SessionTypeOK, Task, Steps
<1>4. (ShownIsSelected /\ OpenIsPending)'
  BY DEF SharePrompt, ShownIsSelected, OpenIsPending
<1> QED  BY <1>2, <1>3, <1>4

LEMMA OpenPromptInv ==
    ASSUME SessionInv, NEW a \in Tasks, OpenPrompt(a) PROVE SessionInv'
<1> USE DEF SessionInv
<1> DEFINE x == Moved(a, "prompt", prompts')
<1>1. prompts' \in Prompts /\ prompts' \in 0..MaxPrompts
  BY Ids DEF OpenPrompt, SessionTypeOK
<1>2. /\ x \in Task /\ x.step = "prompt" /\ x.key = prompts' /\ x.record \in Records
      /\ task' = [task EXCEPT ![a] = x]
  <2>1. "prompt" \in Steps /\ Busy(a)
    BY DEF OpenPrompt, Steps, Busy, Off
  <2>2. task \in [Tasks -> Task] /\ SessionTypeOK /\ TasksHaveRecords
    BY TaskShape
  <2>3. task' = [task EXCEPT ![a] = x]
    BY <2>2 DEF OpenPrompt, Moved
  <2> HIDE DEF SessionInv
  <2> QED  BY <1>1, <2>1, <2>2, <2>3, StepAndKey
<1>3. task' \in [Tasks -> Task] /\ (TasksHaveRecords /\ WaitersHaveAPrompt /\ LockedMeansRunning)'
  <2> HIDE DEF x
  <2>1. /\ UNCHANGED <<active, inFlight>> /\ open' = open \cup {prompts'}
        /\ pending' = prompts'
    BY DEF OpenPrompt
  <2> QED  BY <1>2, <2>1, OneTaskMoves
<1>4. SessionTypeOK'
  <2>1. decryptState' \in States
    BY StatusType DEF OpenPrompt, States
  <2> QED  BY <1>1, <1>3, <2>1, Ids DEF OpenPrompt, SessionTypeOK, Task, Steps
<1>5. ShownIsSelected'
  BY DEF OpenPrompt, ShownIsSelected
<1>6. OpenIsPending'
  BY Ids DEF OpenPrompt, OpenIsPending, SessionTypeOK
<1> QED  BY <1>3, <1>4, <1>5, <1>6

(* Those who wait for another prompt go on waiting.                        *)
LEMMA ResumedTasks ==
    ASSUME SessionInv, NEW p \in open, NEW step \in Steps \ {"off", "prompt"},
           task' = Resumed(p, step), open' = open \ {p},
           pending' = 0, UNCHANGED <<active, inFlight>>
    PROVE  /\ task' \in [Tasks -> Task]
           /\ (TasksHaveRecords /\ WaitersHaveAPrompt /\ LockedMeansRunning)'
<1> USE DEF SessionInv
<1>1. ASSUME NEW a \in Tasks, task[a].step = "prompt", task[a].key = p
      PROVE  task'[a] \in Task /\ task'[a].step = step
  BY <1>1, TaskShape DEF Resumed, Task, Steps
<1>2. ASSUME NEW a \in Tasks, ~(task[a].step = "prompt" /\ task[a].key = p)
      PROVE  task'[a] = task[a] /\ task'[a] \in Task
  BY <1>2, TaskShape DEF Resumed
<1>3. task' \in [Tasks -> Task]
  <2>1. task' = [a \in Tasks |-> task'[a]]
    BY DEF Resumed
  <2>2. \A a \in Tasks : task'[a] \in Task
    BY <1>1, <1>2
  <2> QED  BY <2>1, <2>2
<1>4. WaitersHaveAPrompt'
  <2>1. ASSUME NEW a \in Tasks, task'[a].step = "prompt" PROVE task'[a].key \in open'
    BY <1>1, <1>2, <2>1 DEF WaitersHaveAPrompt
  <2> QED  BY <2>1 DEF WaitersHaveAPrompt
<1>5. LockedMeansRunning'
  <2>1. active # 0 => active \in Tasks
    BY Ids DEF SessionTypeOK
  <2>2. ASSUME NEW a \in Tasks, task[a] # Off PROVE task'[a] # Off
    BY <1>1, <1>2, <2>2 DEF Off
  <2> QED  BY <2>1, <2>2 DEF LockedMeansRunning, Busy
<1>6. TasksHaveRecords'
  <2>1. ASSUME NEW a \in Tasks, task'[a] # Off
        PROVE  task[a] # Off /\ task'[a].record = task[a].record
    BY <1>2, <2>1, TaskShape DEF Off, Resumed, Task, Steps
  <2> QED  BY <2>1 DEF TasksHaveRecords, Busy
<1> QED  BY <1>3, <1>4, <1>5, <1>6

LEMMA ApproveInv == ASSUME SessionInv, NEW p \in Prompts, Approve(p) PROVE SessionInv'
<1> USE DEF SessionInv
<1>1. task' \in [Tasks -> Task] /\ (TasksHaveRecords /\ WaitersHaveAPrompt /\ LockedMeansRunning)'
  BY ResumedTasks DEF Approve, Steps
<1>2. SessionTypeOK'
  <2>1. decryptState' \in States
    BY DEF Approve, SessionTypeOK, States
  <2> QED  BY <1>1, <2>1, Ids DEF Approve, SessionTypeOK, Task, Steps
<1>3. (ShownIsSelected /\ OpenIsPending)'
  BY DEF Approve, ShownIsSelected, OpenIsPending
<1> QED  BY <1>1, <1>2, <1>3

LEMMA RefuseInv == ASSUME SessionInv, NEW p \in Prompts, Refuse(p) PROVE SessionInv'
<1> USE DEF SessionInv
<1>1. task' \in [Tasks -> Task] /\ (TasksHaveRecords /\ WaitersHaveAPrompt /\ LockedMeansRunning)'
  BY ResumedTasks DEF Refuse, Steps
<1>2. SessionTypeOK'
  BY <1>1, Ids DEF Refuse, viewVars, SessionTypeOK, Task, Steps, States
<1>3. (ShownIsSelected /\ OpenIsPending)'
  BY DEF Refuse, viewVars, ShownIsSelected, OpenIsPending
<1> QED  BY <1>1, <1>2, <1>3

LEMMA ExpireInv == ASSUME SessionInv, NEW k \in Prompts, Expire(k) PROVE SessionInv'
<1> USE DEF SessionInv, Expire, viewVars, taskVars
<1>1. SessionTypeOK'
  BY DEF SessionTypeOK, States
<1>2. (TasksHaveRecords /\ ShownIsSelected /\ WaitersHaveAPrompt /\ LockedMeansRunning
         /\ OpenIsPending)'
  BY DEF TasksHaveRecords, Busy, ShownIsSelected, WaitersHaveAPrompt, LockedMeansRunning,
         OpenIsPending
<1> QED  BY <1>1, <1>2

LEMMA ClearCachesInv == ASSUME SessionInv, ClearCaches PROVE SessionInv'
<1> USE DEF SessionInv, ClearCaches, viewVars, taskVars
<1>1. SessionTypeOK'
  BY Ids DEF SessionTypeOK, States
<1>2. (TasksHaveRecords /\ ShownIsSelected /\ WaitersHaveAPrompt /\ LockedMeansRunning
         /\ OpenIsPending)'
  BY DEF TasksHaveRecords, Busy, ShownIsSelected, WaitersHaveAPrompt, LockedMeansRunning,
         OpenIsPending
<1> QED  BY <1>1, <1>2

(* A request that ends unlocks the button, whoever locked it.              *)
LEMMA EndRequestInv ==
    ASSUME SessionInv, NEW i \in Requests, EndRequest(i)
    PROVE  /\ task' \in [Tasks -> Task] /\ active' \in 0..MaxRequests
           /\ (TasksHaveRecords /\ WaitersHaveAPrompt /\ LockedMeansRunning /\ OpenIsPending)'
<1> USE DEF SessionInv, EndRequest, keyVars
<1>1. task \in [Tasks -> Task] /\ i \in Tasks /\ Off \in Task
  BY Ids DEF SessionTypeOK, Task, Steps
<1>2. task' \in [Tasks -> Task] /\ task'[i] = Off /\ \A a \in Tasks : a # i => task'[a] = task[a]
  BY <1>1
<1>3. WaitersHaveAPrompt'
  <2>1. \A a \in Tasks : task'[a].step = "prompt" => task[a].step = "prompt" /\ task'[a].key = task[a].key
    BY <1>2 DEF Off
  <2> QED  BY <2>1 DEF WaitersHaveAPrompt
<1>4. (LockedMeansRunning /\ OpenIsPending)' /\ active' \in 0..MaxRequests
  BY Ids DEF LockedMeansRunning, OpenIsPending, SessionTypeOK
<1>5. TasksHaveRecords'
  BY <1>2 DEF TasksHaveRecords, Busy
<1> QED  BY <1>2, <1>3, <1>4, <1>5

LEMMA RequestUnlocksInv ==
    ASSUME SessionInv, NEW i \in Requests, RequestUnlocks(i) PROVE SessionInv'
<1> USE DEF SessionInv
<1>1. /\ task' \in [Tasks -> Task] /\ active' \in 0..MaxRequests
      /\ (TasksHaveRecords /\ WaitersHaveAPrompt /\ LockedMeansRunning /\ OpenIsPending)'
  BY EndRequestInv DEF RequestUnlocks
<1>2. task[i].record \in Records
  BY Ids DEF RequestUnlocks, TasksHaveRecords, Busy, Off
<1>3. decryptState' \in States
  BY StatusType DEF RequestUnlocks, States
<1>4. SessionTypeOK'
  BY <1>1, <1>2, <1>3 DEF RequestUnlocks, EndRequest, keyVars, SessionTypeOK, Task, Steps
<1>5. ShownIsSelected'
  BY DEF RequestUnlocks, ShownIsSelected, ShowsResult
<1> QED  BY <1>1, <1>4, <1>5

LEMMA RequestFailsInv ==
    ASSUME SessionInv, NEW i \in Requests, RequestFails(i) PROVE SessionInv'
<1> USE DEF SessionInv
<1>1. /\ task' \in [Tasks -> Task] /\ active' \in 0..MaxRequests
      /\ (TasksHaveRecords /\ WaitersHaveAPrompt /\ LockedMeansRunning /\ OpenIsPending)'
  BY EndRequestInv DEF RequestFails
<1>2. decryptState' \in States
  BY DEF RequestFails, SessionTypeOK, States
<1>3. SessionTypeOK'
  BY <1>1, <1>2 DEF RequestFails, EndRequest, keyVars, SessionTypeOK, Task, Steps
<1>4. ShownIsSelected'
  BY DEF RequestFails, ShownIsSelected
<1> QED  BY <1>1, <1>3, <1>4

LEMMA NextOfBulkInv ==
    ASSUME SessionInv, NextOfBulk
    PROVE  /\ task' \in [Tasks -> Task] /\ bulkLeft' \subseteq Records
           /\ (TasksHaveRecords /\ WaitersHaveAPrompt /\ LockedMeansRunning /\ OpenIsPending)'
<1>1. CASE bulkLeft = {}
  <2>1. Off \in Task /\ Off.step = "off"
    BY Ids DEF Off
  <2> QED  BY <1>1, <2>1, BulkTaskInv DEF NextOfBulk, SessionInv, SessionTypeOK
<1>2. CASE bulkLeft # {}
  <2>1. PICK r \in bulkLeft :
          /\ task' = [task EXCEPT ![Bulk] = [step |-> "fetch", record |-> r, key |-> 0]]
          /\ bulkLeft' = bulkLeft \ {r}
    BY <1>2 DEF NextOfBulk
  <2>2. [step |-> "fetch", record |-> r, key |-> 0] \in Task /\ r \in Records
    BY Ids DEF SessionInv, SessionTypeOK, Task, Steps
  <2> QED  BY <2>1, <2>2, BulkTaskInv DEF NextOfBulk, SessionInv, SessionTypeOK
<1> QED  BY <1>1, <1>2

LEMMA BulkUnlocksInv == ASSUME SessionInv, BulkUnlocks PROVE SessionInv'
<1> USE DEF SessionInv
<1>1. /\ task' \in [Tasks -> Task] /\ bulkLeft' \subseteq Records
      /\ (TasksHaveRecords /\ WaitersHaveAPrompt /\ LockedMeansRunning /\ OpenIsPending)'
  BY NextOfBulkInv DEF BulkUnlocks
<1>2. task[Bulk].record \in Records
  BY Ids DEF BulkUnlocks, TasksHaveRecords, Busy, Off
<1>3. decryptState' \in States
  BY DEF BulkUnlocks, SessionTypeOK, States
<1>4. SessionTypeOK'
  BY <1>1, <1>2, <1>3 DEF BulkUnlocks, NextOfBulk, keyVars, SessionTypeOK, Task, Steps
<1>5. ShownIsSelected'
  BY DEF BulkUnlocks, ShownIsSelected
<1> QED  BY <1>1, <1>4, <1>5

LEMMA BulkFailsInv == ASSUME SessionInv, BulkFails PROVE SessionInv'
<1> USE DEF SessionInv
<1>1. /\ task' \in [Tasks -> Task] /\ bulkLeft' \subseteq Records
      /\ (TasksHaveRecords /\ WaitersHaveAPrompt /\ LockedMeansRunning /\ OpenIsPending)'
  BY NextOfBulkInv DEF BulkFails
<1>2. SessionTypeOK'
  BY <1>1 DEF BulkFails, NextOfBulk, viewVars, keyVars, SessionTypeOK, Task, Steps
<1>3. ShownIsSelected'
  BY DEF BulkFails, viewVars, ShownIsSelected
<1> QED  BY <1>1, <1>2, <1>3

LEMMA ReloadInv == ASSUME SessionInv, Reload PROVE SessionInv'
<1> USE DEF SessionInv, Reload
<1>1. task' = [a \in Tasks |-> Off] /\ task' \in [Tasks -> Task]
  BY Ids
<1>2. SessionTypeOK'
  BY <1>1, Ids DEF SessionTypeOK, Task, Steps, States
<1>3. (TasksHaveRecords /\ WaitersHaveAPrompt)'
  BY <1>1 DEF TasksHaveRecords, Busy, WaitersHaveAPrompt, Off
<1>4. (ShownIsSelected /\ LockedMeansRunning /\ OpenIsPending)'
  BY DEF ShownIsSelected, LockedMeansRunning, OpenIsPending
<1> QED  BY <1>2, <1>3, <1>4

LEMMA SessionNextInv == SessionInv /\ [SessionNext]_sessionVars => SessionInv'
<1> SUFFICES ASSUME SessionInv, [SessionNext]_sessionVars PROVE SessionInv'
  OBVIOUS
<1>1. CASE \E r \in Records \cup {NoRecord} : Select(r)
  BY <1>1, SelectInv
<1>2. CASE handleDecrypt \/ NothingToDecrypt \/ handleCancelDecrypt
  BY <1>2, handleDecryptInv, NothingToDecryptInv, handleCancelDecryptInv
<1>3. CASE handleDecryptRecords
  BY <1>3, handleDecryptRecordsInv
<1>4. CASE \E a \in Tasks : UseCachedKey(a) \/ SharePrompt(a) \/ OpenPrompt(a)
  BY <1>4, UseCachedKeyInv, SharePromptInv, OpenPromptInv
<1>5. CASE \E p \in Prompts : Approve(p) \/ Refuse(p) \/ Expire(p)
  BY <1>5, ApproveInv, RefuseInv, ExpireInv
<1>6. CASE \E i \in Requests : RequestUnlocks(i) \/ RequestFails(i)
  BY <1>6, RequestUnlocksInv, RequestFailsInv
<1>7. CASE ClearCaches \/ BulkUnlocks \/ BulkFails \/ Reload
  BY <1>7, ClearCachesInv, BulkUnlocksInv, BulkFailsInv, ReloadInv
<1>8. CASE UNCHANGED sessionVars
  BY <1>8 DEF SessionInv, sessionVars, viewVars, taskVars, keyVars, SessionTypeOK, TasksHaveRecords,
       ShownIsSelected, WaitersHaveAPrompt, LockedMeansRunning, OpenIsPending, Busy
<1> QED  BY <1>1, <1>2, <1>3, <1>4, <1>5, <1>6, <1>7, <1>8 DEF SessionNext

LEMMA AlwaysSessionInv == SessionSpec => []SessionInv
<1> QED  BY SessionInitInv, SessionNextInv, PTL DEF SessionSpec

-----------------------------------------------------------------------------
(* The hook and the key caches keep their types, however many unlocks are  *)
(* started and prompts opened.                                             *)
THEOREM SessionTypeCorrect == SessionSpec => []SessionTypeOK
<1>1. SessionInv => SessionTypeOK
  BY DEF SessionInv
<1> QED  BY <1>1, AlwaysSessionInv, PTL

(* The answers shown are those of the selected record                      *)
(* (usePrivateSignalDecrypt.ts:365-390).                                   *)
THEOREM AnswersOfTheSelected == SessionSpec => []ShownIsSelected
<1>1. SessionInv => ShownIsSelected
  BY DEF SessionInv
<1> QED  BY <1>1, AlwaysSessionInv, PTL

(* Nobody waits for a prompt the wallet has closed                         *)
(* (sealClientAdapter.ts:454-484).                                         *)
THEOREM NobodyWaitsForNothing == SessionSpec => []WaitersHaveAPrompt
<1>1. SessionInv => WaitersHaveAPrompt
  BY DEF SessionInv
<1> QED  BY <1>1, AlwaysSessionInv, PTL

(* The button is locked only while its request runs                        *)
(* (usePrivateSignalDecrypt.ts:293-306, 439-451).                          *)
THEOREM ButtonComesBack == SessionSpec => []LockedMeansRunning
<1>1. SessionInv => LockedMeansRunning
  BY DEF SessionInv
<1> QED  BY <1>1, AlwaysSessionInv, PTL

(* One prompt at a time, unless the caches were cleared by hand            *)
(* (sealClientAdapter.ts:454-484).                                         *)
THEOREM OnePrompt == SessionSpec => []OnePromptUnlessCleared
<1>1. SessionInv => OnePromptUnlessCleared
  <2> SUFFICES ASSUME SessionInv, ~cleared PROVE Cardinality(open) <= 1
    BY DEF OnePromptUnlessCleared
  <2>1. open = {} \/ open = {pending}
    BY DEF SessionInv, OpenIsPending
  <2>2. CASE open = {}
    BY <2>2, FS_EmptySet
  <2>3. CASE open = {pending}
    <3>1. Cardinality({pending}) = 1
      BY FS_Singleton
    <3> QED  BY <2>3, <3>1
  <2> QED  BY <2>1, <2>2, <2>3
<1> QED  BY <1>1, AlwaysSessionInv, PTL

(* No cache hands out a key whose time is over                             *)
(* (sealClientAdapter.ts:487-545).                                         *)
THEOREM FreshKeys == SessionSpec => CachedKeyIsFresh
<1> DEFINE Fresh ==
      \A a \in Tasks : (task[a].step = "fetch" /\ task'[a].step = "unlock") =>
        task'[a].key \notin expired
<1>1. ASSUME SessionInv, [SessionNext]_sessionVars PROVE [Fresh]_sessionVars
  <2> SUFFICES ASSUME NEW b \in Tasks, task[b].step = "fetch", task'[b].step = "unlock", SessionNext
               PROVE  task'[b].key \notin expired
    BY <1>1
  <2>1. task \in [Tasks -> Task]
    BY <1>1 DEF SessionInv, SessionTypeOK, Task, Steps
  <2>2. ASSUME NEW x, NEW a \in Tasks, task' = [task EXCEPT ![a] = x], x.step # "unlock" PROVE FALSE
    BY <2>1, <2>2
  <2>3. CASE \E a \in Tasks : UseCachedKey(a)
    <3> PICK a \in Tasks : UseCachedKey(a)
      BY <2>3
    <3>1. CachedKey \notin expired /\ CachedKey \in 0..MaxPrompts
      BY <1>1, CachedKeyType DEF UseCachedKey, CachedKey, SessionInv
    <3> DEFINE x == Moved(a, "unlock", CachedKey)
    <3>2. "unlock" \in Steps /\ Busy(a)
      BY DEF UseCachedKey, Steps, Busy, Off
    <3>3. x.key = CachedKey
      BY <1>1, <3>1, <3>2, StepAndKey DEF SessionInv
    <3>4. task' = [task EXCEPT ![a] = x]
      BY <2>1 DEF UseCachedKey, Moved
    <3> HIDE DEF x
    <3> QED  BY <2>1, <3>1, <3>3, <3>4
  <2>4. CASE \E a \in Tasks : SharePrompt(a)
    <3> PICK a \in Tasks : SharePrompt(a)
      BY <2>4
    <3> DEFINE x == Moved(a, "prompt", pending)
    <3>1. "prompt" \in Steps /\ Busy(a) /\ pending \in 0..MaxPrompts
      BY <1>1 DEF SharePrompt, Steps, Busy, Off, SessionInv, SessionTypeOK
    <3>2. x.step = "prompt"
      BY <1>1, <3>1, StepAndKey DEF SessionInv
    <3>3. task' = [task EXCEPT ![a] = x]
      BY <2>1 DEF SharePrompt, Moved
    <3> HIDE DEF x
    <3> QED  BY <2>2, <3>2, <3>3
  <2>5. CASE \E a \in Tasks : OpenPrompt(a)
    <3> PICK a \in Tasks : OpenPrompt(a)
      BY <2>5
    <3> DEFINE x == Moved(a, "prompt", prompts')
    <3>1. "prompt" \in Steps /\ Busy(a) /\ prompts' \in 0..MaxPrompts
      BY <1>1, Ids DEF OpenPrompt, Steps, Busy, Off, SessionInv, SessionTypeOK
    <3>2. x.step = "prompt"
      BY <1>1, <3>1, StepAndKey DEF SessionInv
    <3>3. task' = [task EXCEPT ![a] = x]
      BY <2>1 DEF OpenPrompt, Moved
    <3> HIDE DEF x
    <3> QED  BY <2>2, <3>2, <3>3
  <2>6. CASE \E p \in Prompts : Approve(p) \/ Refuse(p)
    BY <2>6 DEF Approve, Refuse, Resumed
  <2>7. CASE handleDecrypt \/ handleDecryptRecords \/ BulkUnlocks \/ BulkFails
    <3>1. Bulk \in Tasks /\ (handleDecrypt => requests' \in Tasks)
      BY <1>1, Ids DEF SessionInv, SessionTypeOK, handleDecrypt
    <3> QED  BY <2>2, <2>7, <3>1 DEF handleDecrypt, handleDecryptRecords, BulkUnlocks, BulkFails,
                 NextOfBulk, Off
  <2>8. CASE \E i \in Requests : RequestUnlocks(i) \/ RequestFails(i)
    BY <2>2, <2>8, Ids DEF RequestUnlocks, RequestFails, EndRequest, Off
  <2>9. CASE Reload
    BY <2>9 DEF Reload, Off
  <2>10. ASSUME UNCHANGED task PROVE FALSE
    BY <2>10
  <2>11. CASE \/ \E r \in Records \cup {NoRecord} : Select(r)
              \/ NothingToDecrypt \/ handleCancelDecrypt \/ ClearCaches
              \/ \E p \in Prompts : Expire(p)
    BY <2>10, <2>11 DEF Select, NothingToDecrypt, handleCancelDecrypt, ClearCaches, Expire, taskVars
  <2> QED  BY <2>3, <2>4, <2>5, <2>6, <2>7, <2>8, <2>9, <2>11 DEF SessionNext
<1>2. SessionSpec => [][Fresh]_sessionVars
  BY <1>1, AlwaysSessionInv, PTL DEF SessionSpec
<1> QED  BY <1>2 DEF CachedKeyIsFresh

-----------------------------------------------------------------------------
(* LazyImports                                                             *)

RunningImports == {c \in Chunks : imports[c].pc = "running"}

(* The registry waits for an import exactly while it is under way.         *)
PendingRuns ==
  \A c \in Chunks :
    /\ entry[c] = "pending" <=> imports[c].pc # "idle"
    /\ component[c] = "loading" => imports[c].pc # "idle"

(* Whoever waits in the line stands in it once or was shifted from it.     *)
LineOK ==
  /\ \A i \in 1 .. Len(line) : imports[line[i]].pc = "queued" /\ line[i] \notin resumed
  /\ \A i, j \in 1 .. Len(line) : line[i] = line[j] => i = j
  /\ \A c \in resumed : imports[c].pc = "queued"
  /\ \A c \in Chunks : imports[c].pc = "queued" =>
       c \in resumed \/ \E i \in 1 .. Len(line) : line[i] = c

(* The count is that of the running imports, and nobody is left in the     *)
(* line without somebody who will wake the next one.                       *)
CountOK ==
  /\ IsFiniteSet(RunningImports)
  /\ browser.mobileSafari => activeCount = Cardinality(RunningImports)
  /\ ~browser.mobileSafari => activeCount = 0 /\ line = <<>> /\ resumed = {}
  /\ line # <<>> => resumed # {} \/ RunningImports # {}

LineShapeOK == LineOK /\ CountOK

LazyInv == LazyTypeOK /\ PendingRuns /\ LineShapeOK

PCs == {"idle", "queued", "running", "failed"}
Import == [pc : PCs, epoch : Nat, attempt : 0 .. MaxAttempts,
           error : {"none", "chunk", "other"}]
Entries == [Chunks -> {"none", "pending", "resolved", "empty", "rejected"}]
Components == [Chunks -> {"unasked", "loading", "shown", "failed", "hanging"}]
RecoveryType == [scheduled : BOOLEAN, stored : 0 .. 1, cleared : BOOLEAN]
QueueType == activeCount \in Nat /\ line \in Seq(Chunks) /\ resumed \subseteq Chunks

(* A step that touches the import of one chunk.                            *)
Moves(c, pc) ==
  /\ imports' \in [Chunks -> Import]
  /\ imports'[c].pc = pc
  /\ \A d \in Chunks \ {c} : imports'[d] = imports[d]

LEMMA TypeParts ==
  ASSUME LazyTypeOK
  PROVE  /\ imports \in [Chunks -> Import] /\ entry \in Entries /\ component \in Components
         /\ QueueType /\ route.epoch \in Nat
         /\ \A c \in Chunks : imports[c] \in Import /\ imports[c].pc \in PCs
                              /\ imports[c].attempt \in 0 .. MaxAttempts
                              /\ imports[c].epoch \in Nat
BY DEF LazyTypeOK, Import, Entries, Components, QueueType, PCs

LEMMA OneImportMoves ==
  ASSUME LazyTypeOK, NEW c \in Chunks, NEW n \in Import, imports' = [imports EXCEPT ![c] = n]
  PROVE  Moves(c, n.pc)
BY TypeParts DEF Moves

LEMMA EndImportMoves ==
  ASSUME LazyTypeOK, NEW c \in Chunks, EndImport(c) PROVE Moves(c, "idle")
<1>1. ASSUME NEW o \in Import, NEW n, n = [o EXCEPT !.pc = "idle"]
      PROVE  n \in Import /\ n.pc = "idle"
  BY <1>1 DEF Import, PCs
<1> DEFINE n == [imports[c] EXCEPT !.pc = "idle"]
<1>2. n \in Import /\ n.pc = "idle"
  BY <1>1, TypeParts
<1>3. imports' = [imports EXCEPT ![c] = n]
  BY TypeParts DEF EndImport
<1> HIDE DEF n
<1> QED  BY <1>2, <1>3, OneImportMoves

LEMMA EnqueueMoves ==
  ASSUME LazyTypeOK, NEW c \in Chunks, NEW attempt \in 0 .. MaxAttempts, NEW epoch \in Nat,
         Enqueue(c, attempt, epoch)
  PROVE  Moves(c, IF browser.mobileSafari /\ activeCount >= 1 THEN "queued" ELSE "running")
<1> DEFINE pc == IF browser.mobileSafari /\ activeCount >= 1 THEN "queued" ELSE "running"
           n == [imports[c] EXCEPT !.pc = pc, !.attempt = attempt, !.epoch = epoch]
<1>1. pc \in PCs
  BY DEF PCs
<1> HIDE DEF pc
<1>2. ASSUME NEW o \in Import, NEW m, m = [o EXCEPT !.pc = pc, !.attempt = attempt, !.epoch = epoch]
      PROVE  m \in Import /\ m.pc = pc
  BY <1>1, <1>2 DEF Import
<1>3. n \in Import /\ n.pc = pc
  BY <1>2, TypeParts
<1>4. imports' = [imports EXCEPT ![c] = n]
  BY TypeParts DEF Enqueue, pc
<1> HIDE DEF n
<1>5. Moves(c, pc)
  BY <1>3, <1>4, OneImportMoves
<1> QED  BY <1>5 DEF pc

(* Starting or standing in line keeps the line and the count in order.     *)
LEMMA EnqueueQueue ==
  ASSUME LazyTypeOK, LineShapeOK, NEW c \in Chunks, imports[c].pc \in {"idle", "failed"},
         NEW attempt \in 0 .. MaxAttempts, NEW epoch \in Nat,
         Enqueue(c, attempt, epoch), UNCHANGED browser
  PROVE  (LineShapeOK /\ QueueType)' /\ imports'[c].pc # "idle"
<1> USE DEF LineShapeOK
<1>1. QueueType /\ imports \in [Chunks -> Import]
  BY TypeParts
<1>2. CASE browser.mobileSafari /\ activeCount >= 1
  <2>1. Moves(c, "queued") /\ line' = Append(line, c) /\ UNCHANGED <<activeCount, resumed>>
    BY <1>2, EnqueueMoves DEF Enqueue
  <2>2. /\ line' \in Seq(Chunks) /\ Len(line') = Len(line) + 1 /\ line' # <<>>
        /\ \A i \in 1 .. Len(line) : line'[i] = line[i]
        /\ line'[Len(line) + 1] = c /\ Len(line) \in Nat
        /\ \A i \in 1 .. Len(line) : line[i] \in Chunks
    BY <1>1, <2>1, AppendProperties, LenProperties, ElementOfSeq DEF QueueType
  <2>3. \A i \in 1 .. Len(line) : line[i] # c
    BY DEF LineOK
  <2>4. c \notin resumed
    BY DEF LineOK
  <2>5. LineOK'
    <3>1. \A i \in 1 .. Len(line') : imports'[line'[i]].pc = "queued" /\ line'[i] \notin resumed'
      BY <2>1, <2>2, <2>3, <2>4 DEF LineOK, Moves
    <3>2. \A i, j \in 1 .. Len(line') : line'[i] = line'[j] => i = j
      BY <2>2, <2>3 DEF LineOK
    <3>3. \A d \in resumed' : imports'[d].pc = "queued"
      BY <1>1, <2>1, <2>4 DEF LineOK, Moves, QueueType
    <3>4. ASSUME NEW d \in Chunks, imports'[d].pc = "queued"
          PROVE  d \in resumed' \/ \E i \in 1 .. Len(line') : line'[i] = d
      <4>1. CASE d = c
        BY <2>2, <4>1
      <4>2. CASE d # c
        <5>1. d \in resumed \/ \E i \in 1 .. Len(line) : line[i] = d
          BY <2>1, <3>4, <4>2 DEF LineOK, Moves
        <5> QED  BY <2>1, <2>2, <5>1
      <4> QED  BY <4>1, <4>2
    <3> QED  BY <3>1, <3>2, <3>3, <3>4 DEF LineOK
  <2>6. RunningImports' = RunningImports
    BY <2>1 DEF RunningImports, Moves
  <2>7. CountOK'
    <3>1. RunningImports # {}
      BY <1>2, FS_EmptySet DEF CountOK
    <3> QED  BY <1>2, <2>1, <2>6, <3>1 DEF CountOK
  <2> QED  BY <1>1, <2>1, <2>2, <2>5, <2>7 DEF QueueType, Moves
<1>3. CASE ~(browser.mobileSafari /\ activeCount >= 1)
  <2>1. Moves(c, "running") /\ UNCHANGED <<line, resumed>>
    BY <1>3, EnqueueMoves DEF Enqueue
  <2>2. activeCount' = IF browser.mobileSafari THEN activeCount + 1 ELSE activeCount
    BY <1>3 DEF Enqueue
  <2>3. RunningImports' = RunningImports \cup {c} /\ c \notin RunningImports
    BY <2>1 DEF RunningImports, Moves
  <2>4. LineOK'
    <3>1. \A d \in Chunks : imports'[d].pc = "queued" <=> imports[d].pc = "queued"
      BY <2>1 DEF Moves
    <3>2. \A i \in 1 .. Len(line) : line[i] \in Chunks
      BY <1>1, ElementOfSeq DEF QueueType
    <3> QED  BY <1>1, <2>1, <3>1, <3>2 DEF LineOK, QueueType
  <2>5. CountOK'
    <3>1. IsFiniteSet(RunningImports') /\ Cardinality(RunningImports') = Cardinality(RunningImports) + 1
      BY <2>3, FS_AddElement DEF CountOK
    <3> QED  BY <2>1, <2>2, <2>3, <3>1 DEF CountOK
  <2> QED  BY <1>1, <2>1, <2>2, <2>4, <2>5 DEF QueueType, Moves
<1> QED  BY <1>2, <1>3

(* A running import that ends wakes the next one in the line.              *)
LEMMA ReleaseQueue ==
  ASSUME LazyTypeOK, LineShapeOK, NEW c \in Chunks, imports[c].pc = "running",
         NEW pc \in {"idle", "failed"}, Moves(c, pc), Release, UNCHANGED browser
  PROVE  (LineShapeOK /\ QueueType)'
<1> USE DEF LineShapeOK
<1>1. QueueType /\ imports \in [Chunks -> Import]
  BY TypeParts
<1>2. RunningImports' = RunningImports \ {c} /\ c \in RunningImports
  BY DEF RunningImports, Moves
<1>3. IsFiniteSet(RunningImports') /\ Cardinality(RunningImports') = Cardinality(RunningImports) - 1
  BY <1>2, FS_RemoveElement DEF CountOK
<1>4. activeCount' \in Nat /\ (browser'.mobileSafari => activeCount' = Cardinality(RunningImports'))
  <2>1. Cardinality(RunningImports) \in Nat /\ Cardinality(RunningImports') \in Nat
    BY <1>3, FS_CardinalityType DEF CountOK
  <2> QED  BY <1>1, <1>3, <2>1 DEF Release, CountOK, QueueType
<1>5. \A d \in Chunks : imports'[d].pc = "queued" <=> imports[d].pc = "queued"
  BY DEF Moves
<1>6. CASE line = <<>>
  <2>1. line' = line /\ resumed' = resumed /\ Len(line) = 0
    BY <1>6 DEF Release
  <2>2. LineOK'
    BY <1>1, <1>5, <2>1 DEF LineOK, QueueType
  <2> QED  BY <1>1, <1>3, <1>4, <1>6, <2>1, <2>2 DEF CountOK, QueueType, Release
<1>7. CASE line # <<>>
  <2>1. line' = Tail(line) /\ resumed' = resumed \cup {Head(line)}
    BY <1>7 DEF Release
  <2>2. /\ Len(line) \in Nat \ {0} /\ Head(line) = line[1] /\ Head(line) \in Chunks
        /\ line' \in Seq(Chunks) /\ Len(line') = Len(line) - 1 /\ Len(line') \in Nat
        /\ \A i \in 1 .. Len(line') : line'[i] = line[i + 1]
        /\ \A i \in 1 .. Len(line) : line[i] \in Chunks
    BY <1>1, <1>7, <2>1, HeadTailProperties, EmptySeq, LenProperties, ElementOfSeq DEF QueueType
  <2>3. LineOK'
    <3>1. \A i \in 1 .. Len(line') : imports'[line'[i]].pc = "queued" /\ line'[i] \notin resumed'
      <4> TAKE i \in 1 .. Len(line')
      <4>1. i + 1 \in 1 .. Len(line) /\ 1 \in 1 .. Len(line) /\ i + 1 # 1
        BY <2>2
      <4>2. line[i + 1] # line[1] /\ imports[line[i + 1]].pc = "queued" /\ line[i + 1] \notin resumed
        BY <4>1 DEF LineOK
      <4> QED  BY <1>5, <2>1, <2>2, <4>1, <4>2
    <3>2. \A i, j \in 1 .. Len(line') : line'[i] = line'[j] => i = j
      <4> TAKE i, j \in 1 .. Len(line')
      <4>1. i + 1 \in 1 .. Len(line) /\ j + 1 \in 1 .. Len(line)
        BY <2>2
      <4>2. line[i + 1] = line[j + 1] => i + 1 = j + 1
        BY <4>1 DEF LineOK
      <4> QED  BY <2>2, <4>2
    <3>3. \A d \in resumed' : imports'[d].pc = "queued"
      BY <1>1, <1>5, <2>1, <2>2 DEF LineOK, QueueType
    <3>4. ASSUME NEW d \in Chunks, imports'[d].pc = "queued"
          PROVE  d \in resumed' \/ \E i \in 1 .. Len(line') : line'[i] = d
      <4>1. d \in resumed \/ \E i \in 1 .. Len(line) : line[i] = d
        BY <1>5, <3>4 DEF LineOK
      <4>2. ASSUME NEW i \in 1 .. Len(line), line[i] = d, i # 1
            PROVE  \E j \in 1 .. Len(line') : line'[j] = d
        <5>1. i - 1 \in 1 .. Len(line') /\ (i - 1) + 1 = i
          BY <2>2, <4>2
        <5> QED  BY <2>2, <4>2, <5>1
      <4> QED  BY <2>1, <2>2, <4>1, <4>2
    <3> QED  BY <3>1, <3>2, <3>3, <3>4 DEF LineOK
  <2>4. browser.mobileSafari
    BY <1>7 DEF CountOK
  <2> QED  BY <1>1, <1>3, <1>4, <2>1, <2>2, <2>3, <2>4 DEF CountOK, QueueType
<1> QED  BY <1>6, <1>7

(* A step that leaves the line alone and moves no queued or running import. *)
LEMMA QueueRests ==
  ASSUME LazyTypeOK, LineShapeOK, NEW c \in Chunks, imports[c].pc \in {"idle", "failed"},
         NEW pc \in {"idle", "failed"}, Moves(c, pc), UNCHANGED <<queueVars, browser>>
  PROVE  (LineShapeOK /\ QueueType)'
<1>1. QueueType /\ \A i \in 1 .. Len(line) : line[i] \in Chunks
  BY TypeParts, ElementOfSeq DEF QueueType
<1>2. RunningImports' = RunningImports /\ \A d \in Chunks : imports'[d].pc = "queued" <=> imports[d].pc = "queued"
  BY DEF RunningImports, Moves
<1> QED  BY <1>1, <1>2 DEF LineShapeOK, LineOK, CountOK, QueueType, queueVars

LEMMA AnswerEnds ==
  ASSUME LazyTypeOK, NEW c \in Chunks, NEW result \in {"shown", "failed", "hanging"},
         Answer(c, result)
  PROVE  /\ component' \in Components /\ component'[c] # "loading"
         /\ \A d \in Chunks \ {c} : component'[d] = component[d]
BY TypeParts DEF Answer, Components

(* An import that ends with its entry leaves nobody waiting for it.        *)
LEMMA EndKeepsPending ==
  ASSUME LazyTypeOK, PendingRuns, NEW c \in Chunks, Moves(c, "idle"),
         NEW status \in {"none", "resolved", "empty", "rejected"},
         entry' = [entry EXCEPT ![c] = status],
         component'[c] # "loading",
         \A d \in Chunks \ {c} : component'[d] = component[d]
  PROVE  entry' \in Entries /\ PendingRuns'
BY TypeParts DEF PendingRuns, Moves, Entries

LEMMA StaleEnds ==
  ASSUME LazyTypeOK, PendingRuns, NEW c \in Chunks, Stale(c)
  PROVE  Moves(c, "idle") /\ entry' \in Entries /\ component' \in Components /\ PendingRuns'
<1>1. Moves(c, "idle")
  BY EndImportMoves DEF Stale
<1>2. PICK result \in {"shown", "failed", "hanging"} : Answer(c, result)
  BY DEF Stale
<1>3. /\ component' \in Components /\ component'[c] # "loading"
      /\ \A d \in Chunks \ {c} : component'[d] = component[d]
  BY <1>2, AnswerEnds
<1>4. entry' = [entry EXCEPT ![c] = "none"]
  BY DEF Stale
<1> QED  BY <1>1, <1>3, <1>4, EndKeepsPending

(* The parts of the type invariant, put together again.                    *)
LEMMA TypeFromParts ==
  ASSUME LazyTypeOK, imports' \in [Chunks -> Import], entry' \in Entries,
         component' \in Components, QueueType',
         UNCHANGED <<browser, route, presses>>,
         recovery' \in RecoveryType
  PROVE  LazyTypeOK'
BY DEF LazyTypeOK, Import, Entries, Components, QueueType, RecoveryType, PCs

LEMMA NoticedInv ==
  ASSUME LazyTypeOK, NEW error, Recovers(error), recovery' = Noticed
  PROVE  recovery' \in RecoveryType /\ recovery'.scheduled /\ recovery'.cleared = recovery.cleared
<1>1. recovery \in RecoveryType /\ recovery.stored = 0
  BY DEF LazyTypeOK, RecoveryType, Recovers
<1>2. ASSUME NEW o \in RecoveryType, o.stored = 0, NEW n,
             n = [o EXCEPT !.scheduled = TRUE, !.stored = IF browser.storage THEN @ + 1 ELSE @]
      PROVE  n \in RecoveryType /\ n.scheduled /\ n.cleared = o.cleared
  <2> DEFINE count == IF browser.storage THEN 1 ELSE 0
  <2>1. n = [o EXCEPT !.scheduled = TRUE, !.stored = count]
    BY <1>2 DEF RecoveryType
  <2>2. count \in 0 .. 1
    OBVIOUS
  <2> HIDE DEF count
  <2> QED  BY <2>1, <2>2 DEF RecoveryType
<1> QED  BY <1>1, <1>2 DEF Noticed

LEMMA LazyInitInv == LazyInit => LazyInv
<1> SUFFICES ASSUME LazyInit PROVE LazyInv
  OBVIOUS
<1>1. imports \in [Chunks -> Import] /\ \A c \in Chunks : imports[c].pc = "idle"
  BY LazyAssumption DEF LazyInit, NoImports, Import, PCs
<1>2. entry \in Entries /\ component \in Components
  BY DEF LazyInit, NoEntries, Unasked, Entries, Components
<1>3. line = <<>> /\ line \in Seq(Chunks) /\ Len(line) = 0 /\ resumed = {} /\ activeCount = 0
  BY DEF LazyInit
<1>4. LazyTypeOK
  BY <1>1, <1>2, <1>3 DEF LazyInit, LazyTypeOK, Import, PCs, Entries, Components, Paths
<1>5. PendingRuns
  BY <1>1 DEF LazyInit, PendingRuns, NoEntries, Unasked
<1>6. LineOK
  BY <1>1, <1>3 DEF LineOK
<1>7. CountOK
  <2>1. RunningImports = {}
    BY <1>1 DEF RunningImports
  <2> QED  BY <1>3, <2>1, FS_EmptySet DEF CountOK
<1> QED  BY <1>4, <1>5, <1>6, <1>7 DEF LazyInv, LineShapeOK

(* The registry, the line and the recovery, where a step leaves them alone. *)
LEMMA QueueUnchanged ==
  ASSUME LineShapeOK, UNCHANGED <<imports, queueVars, browser>> PROVE LineShapeOK'
BY DEF LineShapeOK, LineOK, CountOK, RunningImports, queueVars

LEMMA AskInv == ASSUME LazyInv, NEW c \in Chunks, Ask(c) PROVE LazyInv'
<1> USE DEF LazyInv
<1>1. recovery' \in RecoveryType
  BY DEF Ask, LazyTypeOK, RecoveryType
<1>2. CASE UNCHANGED <<entry, imports, queueVars>>
  <2>1. component' \in Components
    BY <1>2, TypeParts DEF Ask, Components
  <2>2. LazyTypeOK'
    BY <1>1, <1>2, <2>1 DEF Ask, LazyTypeOK, Components, queueVars
  <2>3. PendingRuns'
    <3>1. \A d \in Chunks : component'[d] = "loading" => component[d] = "loading" \/ entry[d] = "pending"
      BY <1>2, TypeParts DEF Ask, Components, Entries
    <3> QED  BY <1>2, <3>1 DEF PendingRuns
  <2>4. LineShapeOK'
    BY <1>2, QueueUnchanged DEF Ask
  <2> QED  BY <1>1, <2>2, <2>3, <2>4
<1>3. CASE /\ entry[c] \in {"none", "rejected"}
           /\ component' = [component EXCEPT ![c] = "loading"]
           /\ entry' = [entry EXCEPT ![c] = "pending"]
           /\ Enqueue(c, 1, route.epoch)
  <2>1. 1 \in 0 .. MaxAttempts /\ route.epoch \in Nat
    BY LazyAssumption, TypeParts
  <2>2. imports[c].pc = "idle"
    BY <1>3 DEF PendingRuns
  <2>3. (LineShapeOK /\ QueueType)' /\ imports'[c].pc # "idle"
    BY <1>3, <2>1, <2>2, EnqueueQueue DEF Ask
  <2>4. \E pc \in PCs : Moves(c, pc)
    BY <1>3, <2>1, EnqueueMoves DEF PCs
  <2>5. entry' \in Entries /\ component' \in Components
    BY <1>3, TypeParts DEF Entries, Components
  <2>6. PendingRuns'
    BY <1>3, <2>3, <2>4, TypeParts DEF PendingRuns, Moves, Entries, Components
  <2>7. LazyTypeOK'
    BY <1>1, <2>3, <2>4, <2>5, TypeFromParts DEF Ask, Moves, RecoveryType
  <2> QED  BY <1>1, <2>3, <2>6, <2>7
<1> QED  BY <1>2, <1>3 DEF Ask

LEMMA AskAgainRawInv == ASSUME LazyInv, NEW c \in Chunks, AskAgainRaw(c) PROVE LazyInv'
<1> USE DEF LazyInv
<1>1. LazyTypeOK' /\ PendingRuns'
  BY TypeParts DEF AskAgainRaw, LazyTypeOK, queueVars, PendingRuns, Components
<1> QED  BY <1>1, QueueUnchanged DEF AskAgainRaw

(* The one that was shifted from the line runs.                            *)
LEMMA ResumeInv == ASSUME LazyInv, NEW c \in Chunks, Resume(c) PROVE LazyInv'
<1> USE DEF LazyInv, LineShapeOK
<1>1. QueueType /\ imports[c].pc = "queued"
  BY TypeParts DEF Resume, LineOK
<1>2. Moves(c, "running")
  <2>1. ASSUME NEW o \in Import, NEW m, m = [o EXCEPT !.pc = "running"]
        PROVE  m \in Import /\ m.pc = "running"
    BY <2>1 DEF Import, PCs
  <2> DEFINE n == [imports[c] EXCEPT !.pc = "running"]
  <2>2. n \in Import /\ n.pc = "running"
    BY <2>1, TypeParts
  <2>3. imports' = [imports EXCEPT ![c] = n]
    BY TypeParts DEF Resume
  <2> HIDE DEF n
  <2> QED  BY <2>2, <2>3, OneImportMoves
<1>3. RunningImports' = RunningImports \cup {c} /\ c \notin RunningImports
  BY <1>1, <1>2 DEF RunningImports, Moves
<1>4. IsFiniteSet(RunningImports') /\ Cardinality(RunningImports') = Cardinality(RunningImports) + 1
  BY <1>3, FS_AddElement DEF CountOK
<1>5. \A i \in 1 .. Len(line) : line[i] \in Chunks /\ line[i] # c
  BY <1>1, ElementOfSeq DEF QueueType, LineOK, Resume
<1>6. LineOK'
  <2>1. \A d \in Chunks \ {c} : imports'[d] = imports[d]
    BY <1>2 DEF Moves
  <2>2. \A d \in resumed' : imports'[d].pc = "queued"
    BY <1>1, <2>1 DEF Resume, LineOK, QueueType
  <2>3. \A d \in Chunks : imports'[d].pc = "queued" => d # c
    BY <1>2 DEF Moves
  <2> QED  BY <1>5, <2>1, <2>2, <2>3 DEF Resume, LineOK
<1>7. CountOK'
  <2>1. browser.mobileSafari
    BY DEF Resume, CountOK
  <2> QED  BY <1>3, <1>4, <2>1 DEF Resume, CountOK
<1>8. QueueType' /\ entry' \in Entries /\ component' \in Components
  BY <1>1, TypeParts DEF Resume, QueueType
<1>9. LazyTypeOK'
  BY <1>2, <1>8, TypeFromParts DEF Resume, Moves, LazyTypeOK, RecoveryType
<1>10. PendingRuns'
  BY <1>1, <1>2 DEF Resume, PendingRuns, Moves
<1> QED  BY <1>6, <1>7, <1>9, <1>10

(* An import that ends, with a result or as a stale one.                   *)
LEMMA EndedInv ==
  ASSUME LazyInv, NEW c \in Chunks, imports[c].pc = "running", Release,
         Moves(c, "idle"), entry' \in Entries, component' \in Components, PendingRuns',
         recovery' \in RecoveryType, UNCHANGED <<browser, route, presses>>
  PROVE  LazyInv'
<1>1. (LineShapeOK /\ QueueType)'
  BY ReleaseQueue DEF LazyInv
<1>2. LazyTypeOK'
  BY <1>1, TypeFromParts DEF LazyInv, Moves, RecoveryType
<1> QED  BY <1>1, <1>2 DEF LazyInv

LEMMA LoadsInv == ASSUME LazyInv, NEW c \in Chunks, Loads(c) PROVE LazyInv'
<1> USE DEF LazyInv
<1>1. recovery' \in RecoveryType
  BY DEF Loads, LazyTypeOK, RecoveryType
<1>2. Moves(c, "idle") /\ entry' \in Entries /\ component' \in Components /\ PendingRuns'
  <2>1. CASE Current(c)
    <3>1. /\ Moves(c, "idle") /\ component' \in Components /\ component'[c] # "loading"
          /\ \A d \in Chunks \ {c} : component'[d] = component[d]
      BY <2>1, EndImportMoves, AnswerEnds DEF Loads
    <3>2. entry' = [entry EXCEPT ![c] = "resolved"]
      BY <2>1 DEF Loads
    <3> QED  BY <3>1, <3>2, EndKeepsPending
  <2>2. CASE ~Current(c)
    BY <2>2, StaleEnds DEF Loads
  <2> QED  BY <2>1, <2>2
<1> QED  BY <1>1, <1>2, EndedInv DEF Loads

LEMMA LoadSwallowedInv == ASSUME LazyInv, NEW c \in Chunks, LoadSwallowed(c) PROVE LazyInv'
<1> USE DEF LazyInv
<1>1. recovery' \in RecoveryType
  BY NoticedInv DEF LoadSwallowed
<1>2. Moves(c, "idle") /\ entry' \in Entries /\ component' \in Components /\ PendingRuns'
  <2>1. CASE Current(c)
    <3>1. PICK result \in {"shown", "failed", "hanging"} : Answer(c, result)
      BY <2>1 DEF LoadSwallowed
    <3>2. /\ Moves(c, "idle") /\ component' \in Components /\ component'[c] # "loading"
          /\ \A d \in Chunks \ {c} : component'[d] = component[d]
      BY <2>1, <3>1, EndImportMoves, AnswerEnds DEF LoadSwallowed
    <3>3. entry' = [entry EXCEPT ![c] = "empty"]
      BY <2>1 DEF LoadSwallowed
    <3> QED  BY <3>2, <3>3, EndKeepsPending
  <2>2. CASE ~Current(c)
    BY <2>2, StaleEnds DEF LoadSwallowed
  <2> QED  BY <2>1, <2>2
<1> QED  BY <1>1, <1>2, EndedInv DEF LoadSwallowed

LEMMA LoadRejectsInv ==
  ASSUME LazyInv, NEW c \in Chunks, NEW error \in {"chunk", "other"}, LoadRejects(c, error)
  PROVE  LazyInv'
<1> USE DEF LazyInv
<1>1. recovery' \in RecoveryType
  BY DEF LoadRejects, LazyTypeOK, RecoveryType
<1>2. CASE Current(c)
  <2>1. Moves(c, "failed")
    <3>1. ASSUME NEW o \in Import, NEW m, m = [o EXCEPT !.pc = "failed", !.error = error]
          PROVE  m \in Import /\ m.pc = "failed"
      BY <3>1 DEF Import, PCs
    <3> DEFINE n == [imports[c] EXCEPT !.pc = "failed", !.error = error]
    <3>2. n \in Import /\ n.pc = "failed"
      BY <3>1, TypeParts
    <3>3. imports' = [imports EXCEPT ![c] = n]
      BY <1>2, TypeParts DEF LoadRejects
    <3> HIDE DEF n
    <3> QED  BY <3>2, <3>3, OneImportMoves
  <2>2. (LineShapeOK /\ QueueType)'
    BY <2>1, ReleaseQueue DEF LoadRejects
  <2>3. UNCHANGED <<entry, component>>
    BY <1>2 DEF LoadRejects
  <2>4. LazyTypeOK'
    BY <1>1, <2>1, <2>2, <2>3, TypeParts, TypeFromParts DEF LoadRejects, Moves, RecoveryType
  <2>5. PendingRuns'
    BY <2>1, <2>3 DEF LoadRejects, PendingRuns, Moves
  <2> QED  BY <1>1, <2>2, <2>4, <2>5
<1>3. CASE ~Current(c)
  <2>1. Moves(c, "idle") /\ entry' \in Entries /\ component' \in Components /\ PendingRuns'
    BY <1>3, StaleEnds DEF LoadRejects
  <2> QED  BY <1>1, <2>1, EndedInv DEF LoadRejects
<1> QED  BY <1>2, <1>3

LEMMA NextAttemptInv == ASSUME LazyInv, NEW c \in Chunks, NextAttempt(c) PROVE LazyInv'
<1> USE DEF LazyInv
<1>1. recovery' \in RecoveryType
  BY DEF NextAttempt, LazyTypeOK, RecoveryType
<1>2. CASE Current(c)
  <2>1. imports[c].attempt + 1 \in 0 .. MaxAttempts /\ imports[c].epoch \in Nat
    BY LazyAssumption, TypeParts DEF NextAttempt
  <2>2. Enqueue(c, imports[c].attempt + 1, imports[c].epoch) /\ UNCHANGED <<entry, component>>
    BY <1>2 DEF NextAttempt
  <2>3. (LineShapeOK /\ QueueType)' /\ imports'[c].pc # "idle"
    BY <2>1, <2>2, EnqueueQueue DEF NextAttempt
  <2>4. \E pc \in PCs : Moves(c, pc)
    BY <2>1, <2>2, EnqueueMoves DEF PCs
  <2>5. PendingRuns'
    BY <2>2, <2>3, <2>4 DEF NextAttempt, PendingRuns, Moves
  <2>6. LazyTypeOK'
    BY <1>1, <2>2, <2>3, <2>4, TypeParts, TypeFromParts DEF NextAttempt, Moves, RecoveryType
  <2> QED  BY <1>1, <2>3, <2>5, <2>6
<1>3. CASE ~Current(c)
  <2>1. Moves(c, "idle") /\ entry' \in Entries /\ component' \in Components /\ PendingRuns'
    BY <1>3, StaleEnds DEF NextAttempt
  <2>2. (LineShapeOK /\ QueueType)'
    BY <1>3, <2>1, QueueRests DEF NextAttempt
  <2>3. LazyTypeOK'
    BY <1>1, <2>1, <2>2, TypeFromParts DEF NextAttempt, Moves, RecoveryType
  <2> QED  BY <1>1, <2>1, <2>2, <2>3
<1> QED  BY <1>2, <1>3

LEMMA GiveUpInv == ASSUME LazyInv, NEW c \in Chunks, GiveUp(c) PROVE LazyInv'
<1> USE DEF LazyInv
<1>1. recovery' \in RecoveryType
  <2>1. CASE Recovers(imports[c].error)
    BY <2>1, NoticedInv DEF GiveUp
  <2>2. CASE ~Recovers(imports[c].error)
    BY <2>2 DEF GiveUp, LazyTypeOK, RecoveryType
  <2> QED  BY <2>1, <2>2
<1>2. /\ Moves(c, "idle") /\ component' \in Components /\ component'[c] # "loading"
      /\ \A d \in Chunks \ {c} : component'[d] = component[d]
  BY EndImportMoves, AnswerEnds DEF GiveUp
<1>3. entry' \in Entries /\ PendingRuns'
  <2>1. entry' = [entry EXCEPT ![c] = "rejected"]
    BY DEF GiveUp
  <2> QED  BY <1>2, <2>1, EndKeepsPending
<1>4. (LineShapeOK /\ QueueType)'
  BY <1>2, QueueRests DEF GiveUp
<1>5. LazyTypeOK'
  BY <1>1, <1>2, <1>3, <1>4, TypeFromParts DEF GiveUp, Moves, RecoveryType
<1> QED  BY <1>1, <1>3, <1>4, <1>5

(* Steps of the user and of the clock start and end no import.             *)
LEMMA OtherStepsInv ==
  ASSUME LazyInv,
         \/ \E path \in Paths \ {"/"} : EnterDashboard(path)
         \/ \E second \in BOOLEAN : Retry(second)
         \/ ClearCache
         \/ WindowExpires
  PROVE  LazyInv'
<1> USE DEF LazyInv
<1>1. UNCHANGED <<imports, queueVars, browser, entry>>
  BY DEF EnterDashboard, Retry, ClearCache, WindowExpires
<1>2. LineShapeOK'
  BY <1>1, QueueUnchanged
<1>3. component' \in Components /\ \A c \in Chunks : component'[c] = "loading" => component[c] = "loading"
  BY TypeParts DEF EnterDashboard, Retry, ClearCache, WindowExpires, Components
<1>4. PendingRuns'
  BY <1>1, <1>3 DEF PendingRuns
<1>5. recovery' \in RecoveryType
  <2>1. recovery \in RecoveryType
    BY DEF LazyTypeOK, RecoveryType
  <2>2. CASE recovery' = recovery
    BY <2>1, <2>2
  <2>3. CASE recovery' = ClearedRecovery
    BY <2>3 DEF ClearedRecovery, RecoveryType
  <2>4. CASE WindowExpires
    <3>1. ASSUME NEW o \in RecoveryType
          PROVE  [o EXCEPT !.stored = 0] \in RecoveryType
      BY DEF RecoveryType
    <3> QED  BY <2>1, <2>4, <3>1 DEF WindowExpires
  <2> QED  BY <2>2, <2>3, <2>4 DEF EnterDashboard, Retry, ClearCache
<1>6. route' \in [path : Paths, epoch : Nat] /\ presses' \in [retries : Nat, reloads : Nat]
  <2>1. route \in [path : Paths, epoch : Nat] /\ presses \in [retries : Nat, reloads : Nat]
    BY DEF LazyTypeOK
  <2>2. CASE \E second \in BOOLEAN : Retry(second)
    <3>1. route' = route /\ presses' = [presses EXCEPT !.retries = @ + 1]
      BY <2>2 DEF Retry
    <3> QED  BY <2>1, <3>1
  <2>3. CASE \E path \in Paths \ {"/"} : EnterDashboard(path)
    <3>1. presses' = presses /\ \E path \in Paths : route' = [path |-> path, epoch |-> route.epoch + 1]
      BY <2>3 DEF EnterDashboard
    <3> QED  BY <2>1, <3>1
  <2>4. CASE ClearCache \/ WindowExpires
    BY <2>1, <2>4 DEF ClearCache, WindowExpires
  <2> QED  BY <2>2, <2>3, <2>4
<1>7. LazyTypeOK'
  BY <1>1, <1>3, <1>5, <1>6 DEF LazyTypeOK, Components, RecoveryType, queueVars
<1> QED  BY <1>2, <1>4, <1>5, <1>7

LEMMA ReloadAppInv ==
  ASSUME LazyInv, NEW newBuild \in BOOLEAN, ReloadApp(newBuild) PROVE LazyInv'
<1> USE DEF LazyInv
<1>1. imports' \in [Chunks -> Import] /\ \A c \in Chunks : imports'[c].pc = "idle"
  BY LazyAssumption DEF ReloadApp, NoImports, Import, PCs
<1>2. entry' \in Entries /\ component' \in Components
  BY DEF ReloadApp, NoEntries, Unasked, Entries, Components
<1>3. line' = <<>> /\ line' \in Seq(Chunks) /\ Len(line') = 0 /\ resumed' = {} /\ activeCount' = 0
  BY DEF ReloadApp
<1>4. recovery' \in RecoveryType
  BY DEF ReloadApp, LazyTypeOK, RecoveryType
<1>5. LazyTypeOK'
  <2>1. route' \in [path : Paths, epoch : Nat]
    BY DEF ReloadApp, Paths
  <2>2. presses' \in [retries : Nat, reloads : Nat]
    <3>1. ASSUME NEW o \in [retries : Nat, reloads : Nat], NEW n, n = [o EXCEPT !.reloads = @ + 1]
          PROVE  n \in [retries : Nat, reloads : Nat]
      BY <3>1
    <3> QED  BY <3>1 DEF LazyTypeOK, ReloadApp
  <2> QED  BY <1>1, <1>2, <1>3, <1>4, <2>1, <2>2
           DEF ReloadApp, LazyTypeOK, Import, PCs, Entries, Components, RecoveryType
<1>6. PendingRuns'
  BY <1>1 DEF ReloadApp, PendingRuns, NoEntries, Unasked
<1>7. LineOK'
  BY <1>1, <1>3 DEF LineOK
<1>8. CountOK'
  <2>1. RunningImports' = {}
    BY <1>1 DEF RunningImports
  <2> QED  BY <1>3, <2>1, FS_EmptySet DEF CountOK
<1> QED  BY <1>4, <1>5, <1>6, <1>7, <1>8 DEF LineShapeOK

LEMMA LazyNextInv == LazyInv /\ [LazyNext]_lazyVars => LazyInv'
<1> SUFFICES ASSUME LazyInv, [LazyNext]_lazyVars PROVE LazyInv'
  OBVIOUS
<1>1. CASE \E c \in Chunks : Ask(c) \/ AskAgainRaw(c)
  BY <1>1, AskInv, AskAgainRawInv
<1>2. CASE \E c \in Chunks : ImportStep(c)
  <2>1. PICK c \in Chunks : ImportStep(c)
    BY <1>2
  <2>2. CASE Resume(c) \/ NextAttempt(c) \/ GiveUp(c)
    BY <2>2, ResumeInv, NextAttemptInv, GiveUpInv
  <2>3. CASE Settles(c)
    BY <2>3, LoadsInv, LoadSwallowedInv, LoadRejectsInv DEF Settles
  <2> QED  BY <2>1, <2>2, <2>3 DEF ImportStep
<1>3. CASE \/ \E path \in Paths \ {"/"} : EnterDashboard(path)
           \/ \E second \in BOOLEAN : Retry(second)
           \/ ClearCache
           \/ WindowExpires
  BY <1>3, OtherStepsInv
<1>4. CASE \E newBuild \in BOOLEAN : ReloadApp(newBuild)
  BY <1>4, ReloadAppInv
<1>5. CASE UNCHANGED lazyVars
  <2>1. UNCHANGED <<browser, route, entry, imports, queueVars, component, recovery, presses>>
    BY <1>5 DEF lazyVars
  <2>2. LineShapeOK'
    BY <2>1, QueueUnchanged DEF LazyInv
  <2>3. (LazyTypeOK /\ PendingRuns)'
    BY <2>1 DEF LazyInv, LazyTypeOK, PendingRuns, queueVars
  <2> QED  BY <2>2, <2>3 DEF LazyInv
<1> QED  BY <1>1, <1>2, <1>3, <1>4, <1>5 DEF LazyNext

LEMMA AlwaysLazyInv == LazySpec => []LazyInv
<1> QED  BY LazyInitInv, LazyNextInv, PTL DEF LazySpec

-----------------------------------------------------------------------------
(* The registry, the line and the recovery state keep their types, for any *)
(* number of chunks, attempts and reloads (lazyRetry.ts).                  *)
THEOREM LazyTypeCorrect == LazySpec => []LazyTypeOK
<1>1. LazyInv => LazyTypeOK
  BY DEF LazyInv
<1> QED  BY <1>1, AlwaysLazyInv, PTL

(* Nobody waits for an import that is over, and nobody in the line is      *)
(* forgotten (lazyRetry.ts:73-119).                                        *)
THEOREM NobodyIsForgotten == LazySpec => []WaitsForSomething
<1>1. LazyInv => WaitsForSomething
  <2> SUFFICES ASSUME LazyInv PROVE WaitsForSomething
    OBVIOUS
  <2>1. \A c \in Chunks : component[c] = "loading" => imports[c].pc # "idle"
    BY DEF LazyInv, PendingRuns
  <2>2. ASSUME NEW c \in Chunks, imports[c].pc = "queued", c \notin resumed
        PROVE  \E d \in Chunks : d \in resumed \/ imports[d].pc = "running"
    <3>1. line # <<>>
      <4>1. PICK i \in 1 .. Len(line) : line[i] = c
        BY <2>2 DEF LazyInv, LineShapeOK, LineOK
      <4>2. line = <<>> => Len(line) = 0
        OBVIOUS
      <4> QED  BY <4>1, <4>2
    <3>2. resumed # {} \/ RunningImports # {}
      BY <3>1 DEF LazyInv, LineShapeOK, CountOK
    <3> QED  BY <3>2, TypeParts DEF LazyInv, RunningImports, QueueType
  <2> QED  BY <2>1, <2>2 DEF WaitsForSomething
<1> QED  BY <1>1, AlwaysLazyInv, PTL

-----------------------------------------------------------------------------
(* Failures of lazy components, beyond the properties of the runs.         *)

(* A component fails only after all attempts of its import, or because the *)
(* preload handler let an import resolve with no module: this is all that  *)
(* is wrong in the counterexample to AttemptsAreUsed (retryLazyImport,     *)
(* lazyRetry.ts; handleVitePreloadError, chunkLoadRecovery.ts).            *)
AttemptsAreUsedOrSwallowed ==
  \A c \in Chunks :
    component[c] = "failed" /\ Current(c)
      => imports[c].attempt = MaxAttempts \/ entry[c] = "empty"

(* An import that resolved with no module stays so in the registry of the  *)
(* tab: neither "Retry", nor a cleared recovery state, nor another page    *)
(* has the chunk imported under its label again, only a reload does.       *)
EmptyUntilReload ==
  [][\A c \in Chunks : entry[c] = "empty" /\ entry'[c] # "empty"
       => presses'.reloads = presses.reloads + 1]_lazyVars

(* No import is ahead of the route's epoch, so that one which became stale *)
(* stays stale.                                                            *)
NoneIsAhead == \A c \in Chunks : imports[c].epoch <= route.epoch

FailuresOK == NoneIsAhead /\ AttemptsAreUsedOrSwallowed

(* What an ending import leaves as it was.                                 *)
LEMMA EndKeepsRest ==
  ASSUME LazyTypeOK, NEW c \in Chunks, EndImport(c), NEW d \in Chunks
  PROVE  imports'[d].epoch = imports[d].epoch /\ imports'[d].attempt = imports[d].attempt
<1>1. imports \in [Chunks -> Import] /\ imports' = [imports EXCEPT ![c].pc = "idle"]
  BY TypeParts DEF EndImport
<1>2. ASSUME NEW o \in Import
      PROVE  LET n == [o EXCEPT !.pc = "idle"] IN n.epoch = o.epoch /\ n.attempt = o.attempt
  BY DEF Import
<1>3. CASE d = c
  <2>1. imports'[d] = [imports[d] EXCEPT !.pc = "idle"]
    BY <1>1, <1>3
  <2> QED  BY <1>1, <1>2, <2>1
<1>4. CASE d # c
  BY <1>1, <1>4
<1> QED  BY <1>3, <1>4

(* An import that ends leaves a failed component only if it was stale, had *)
(* made all attempts, or resolved with no module.                          *)
LEMMA EndsAsItShould ==
  ASSUME LazyInv, FailuresOK, NEW c \in Chunks, EndImport(c), imports[c].pc # "idle",
         UNCHANGED route,
         NEW status, entry' = [entry EXCEPT ![c] = status],
         NEW result, Answer(c, result),
         \/ result # "failed" \/ status = "empty"
         \/ ~Current(c) \/ imports[c].attempt = MaxAttempts
  PROVE  FailuresOK'
<1>1. \A d \in Chunks : imports'[d].epoch = imports[d].epoch
                        /\ imports'[d].attempt = imports[d].attempt
  BY EndKeepsRest DEF LazyInv
<1>2. /\ entry \in Entries /\ component \in Components
      /\ entry[c] = "pending"
  BY TypeParts DEF LazyInv, PendingRuns
<1>3. NoneIsAhead'
  BY <1>1 DEF FailuresOK, NoneIsAhead
<1>4. \A d \in Chunks \ {c} : entry'[d] = entry[d] /\ component'[d] = component[d]
  BY <1>2 DEF Entries, Components, Answer
<1>5. /\ entry'[c] = status
      /\ component'[c] = "failed" => component[c] = "failed" \/ result = "failed"
  BY <1>2 DEF Entries, Components, Answer
<1>6. AttemptsAreUsedOrSwallowed'
  BY <1>1, <1>2, <1>4, <1>5 DEF FailuresOK, AttemptsAreUsedOrSwallowed, Current
<1> QED  BY <1>3, <1>6 DEF FailuresOK

LEMMA StaleFails ==
  ASSUME LazyInv, FailuresOK, NEW c \in Chunks, Stale(c), ~Current(c),
         imports[c].pc # "idle", UNCHANGED route
  PROVE  FailuresOK'
<1>1. entry' = [entry EXCEPT ![c] = "none"] /\ EndImport(c)
  BY DEF Stale
<1>2. PICK result : Answer(c, result)
  BY DEF Stale
<1> QED  BY <1>1, <1>2, EndsAsItShould

(* An attempt that starts belongs to a component that has not failed.      *)
LEMMA EnqueueFails ==
  ASSUME LazyInv, FailuresOK, NEW c \in Chunks, NEW attempt \in 0 .. MaxAttempts,
         NEW epoch \in Nat, Enqueue(c, attempt, epoch), epoch <= route.epoch,
         UNCHANGED route, component'[c] # "failed",
         \A d \in Chunks \ {c} : component'[d] = component[d] /\ entry'[d] = entry[d]
  PROVE  FailuresOK'
<1>1. imports \in [Chunks -> Import]
  BY TypeParts DEF LazyInv
<1>2. ASSUME NEW o \in Import, NEW pc
      PROVE  [o EXCEPT !.pc = pc, !.attempt = attempt, !.epoch = epoch].epoch = epoch
  BY DEF Import
<1>3. /\ imports'[c].epoch = epoch
      /\ \A d \in Chunks \ {c} : imports'[d] = imports[d]
  BY <1>1, <1>2 DEF Enqueue
<1> QED  BY <1>3 DEF FailuresOK, NoneIsAhead, AttemptsAreUsedOrSwallowed, Current

LEMMA LoadFails ==
  ASSUME LazyInv, FailuresOK, NEW c \in Chunks, Settles(c)
  PROVE  FailuresOK'
<1>1. imports[c].pc = "running" /\ UNCHANGED route
  BY DEF Settles, Loads, LoadSwallowed, LoadRejects
<1>2. CASE ~Current(c)
  <2>1. Stale(c)
    BY <1>2 DEF Settles, Loads, LoadSwallowed, LoadRejects
  <2> QED  BY <1>1, <1>2, <2>1, StaleFails
<1>3. CASE Current(c) /\ Loads(c)
  <2>1. entry' = [entry EXCEPT ![c] = "resolved"] /\ EndImport(c)
    BY <1>3 DEF Loads
  <2>2. PICK result : result # "failed" /\ Answer(c, result)
    <3>1. "shown" # "failed" /\ Answer(c, "shown")
      BY <1>3 DEF Loads
    <3> QED  BY <3>1
  <2> QED  BY <1>1, <2>1, <2>2, EndsAsItShould
<1>4. CASE Current(c) /\ LoadSwallowed(c)
  <2>1. PICK result : Answer(c, result)
    BY <1>4 DEF LoadSwallowed
  <2>2. entry' = [entry EXCEPT ![c] = "empty"] /\ EndImport(c)
    BY <1>4 DEF LoadSwallowed
  <2> QED  BY <1>1, <2>1, <2>2, EndsAsItShould
<1>5. ASSUME Current(c), NEW error \in {"chunk", "other"}, LoadRejects(c, error)
      PROVE  FailuresOK'
  <2>1. /\ imports' = [imports EXCEPT ![c] = [@ EXCEPT !.pc = "failed", !.error = error]]
        /\ UNCHANGED <<entry, component>>
    BY <1>5 DEF LoadRejects
  <2>2. imports \in [Chunks -> Import]
    BY TypeParts DEF LazyInv
  <2>3. ASSUME NEW o \in Import
        PROVE  LET n == [o EXCEPT !.pc = "failed", !.error = error] IN
               n.epoch = o.epoch /\ n.attempt = o.attempt
    BY DEF Import
  <2>4. \A d \in Chunks : imports'[d].epoch = imports[d].epoch
                          /\ imports'[d].attempt = imports[d].attempt
    BY <2>1, <2>2, <2>3
  <2> QED  BY <1>1, <2>1, <2>4
           DEF FailuresOK, NoneIsAhead, AttemptsAreUsedOrSwallowed, Current
<1> QED  BY <1>2, <1>3, <1>4, <1>5 DEF Settles

LEMMA ImportFails ==
  ASSUME LazyInv, FailuresOK, NEW c \in Chunks, ImportStep(c)
  PROVE  FailuresOK'
<1>1. CASE Resume(c)
  <2>1. imports \in [Chunks -> Import]
    BY TypeParts DEF LazyInv
  <2>2. ASSUME NEW o \in Import
        PROVE  LET n == [o EXCEPT !.pc = "running"] IN
               n.epoch = o.epoch /\ n.attempt = o.attempt
    BY DEF Import
  <2>3. imports' = [imports EXCEPT ![c].pc = "running"] /\ UNCHANGED <<route, entry, component>>
    BY <1>1 DEF Resume
  <2>4. \A d \in Chunks : imports'[d] = imports[d]
                          \/ imports'[d] = [imports[d] EXCEPT !.pc = "running"]
    BY <2>1, <2>3
  <2>5. \A d \in Chunks : imports'[d].epoch = imports[d].epoch
                          /\ imports'[d].attempt = imports[d].attempt
    BY <2>1, <2>2, <2>4
  <2> QED  BY <2>3, <2>5 DEF FailuresOK, NoneIsAhead, AttemptsAreUsedOrSwallowed, Current
<1>2. CASE Settles(c)
  BY <1>2, LoadFails
<1>3. CASE NextAttempt(c)
  <2>1. imports[c].pc = "failed" /\ imports[c].attempt < MaxAttempts /\ UNCHANGED route
    BY <1>3 DEF NextAttempt
  <2>2. CASE Current(c)
    <3>1. Enqueue(c, imports[c].attempt + 1, imports[c].epoch) /\ UNCHANGED <<entry, component>>
      BY <1>3, <2>2 DEF NextAttempt
    <3>2. /\ imports[c].attempt + 1 \in 0 .. MaxAttempts /\ imports[c].epoch \in Nat
          /\ imports[c].epoch <= route.epoch
      BY <2>1, TypeParts, LazyAssumption DEF LazyInv, FailuresOK, NoneIsAhead
    <3>3. entry[c] = "pending"
      BY <2>1 DEF LazyInv, PendingRuns
    <3>4. component[c] # "failed"
      BY <2>1, <2>2, <3>2, <3>3, LazyAssumption DEF FailuresOK, AttemptsAreUsedOrSwallowed
    <3> QED  BY <2>1, <3>1, <3>2, <3>4, EnqueueFails
  <2>3. CASE ~Current(c)
    BY <1>3, <2>1, <2>3, StaleFails DEF NextAttempt
  <2> QED  BY <2>2, <2>3
<1>4. CASE GiveUp(c)
  <2>1. /\ imports[c].pc = "failed" /\ imports[c].attempt = MaxAttempts
        /\ entry' = [entry EXCEPT ![c] = "rejected"] /\ Answer(c, "failed") /\ EndImport(c)
        /\ UNCHANGED route
    BY <1>4 DEF GiveUp
  <2> QED  BY <2>1, EndsAsItShould
<1> QED  BY <1>1, <1>2, <1>3, <1>4 DEF ImportStep

LEMMA AskFails ==
  ASSUME LazyInv, FailuresOK, NEW c \in Chunks, Ask(c) \/ AskAgainRaw(c)
  PROVE  FailuresOK'
<1>1. /\ imports \in [Chunks -> Import] /\ entry \in Entries /\ component \in Components
      /\ route.epoch \in Nat
  BY TypeParts DEF LazyInv
<1>2. UNCHANGED route
  BY DEF Ask, AskAgainRaw
<1>3. CASE UNCHANGED <<entry, imports>>
  <2>1. \A d \in Chunks : component'[d] = "failed" => component[d] = "failed" \/ entry[d] = "empty"
    BY <1>1, <1>3 DEF Ask, AskAgainRaw, Components, Entries
  <2> QED  BY <1>2, <1>3, <2>1
           DEF FailuresOK, NoneIsAhead, AttemptsAreUsedOrSwallowed, Current
<1>4. CASE /\ component' = [component EXCEPT ![c] = "loading"]
           /\ entry' = [entry EXCEPT ![c] = "pending"]
           /\ Enqueue(c, 1, route.epoch)
  <2>1. 1 \in 0 .. MaxAttempts
    BY LazyAssumption
  <2>2. /\ component'[c] # "failed"
        /\ \A d \in Chunks \ {c} : component'[d] = component[d] /\ entry'[d] = entry[d]
    BY <1>1, <1>4 DEF Components, Entries
  <2> QED  BY <1>1, <1>2, <1>4, <2>1, <2>2, EnqueueFails
<1> QED  BY <1>3, <1>4 DEF Ask, AskAgainRaw

LEMMA FailuresStayOK == LazyInv /\ FailuresOK /\ [LazyNext]_lazyVars => FailuresOK'
<1> SUFFICES ASSUME LazyInv, FailuresOK, [LazyNext]_lazyVars PROVE FailuresOK'
  OBVIOUS
<1> USE DEF FailuresOK, NoneIsAhead, AttemptsAreUsedOrSwallowed, Current
<1>1. CASE \E c \in Chunks : Ask(c) \/ AskAgainRaw(c) \/ ImportStep(c)
  BY <1>1, AskFails, ImportFails
<1>2. CASE \E path \in Paths \ {"/"} : EnterDashboard(path)
  <2>1. /\ route'.epoch = route.epoch + 1 /\ route.epoch \in Nat
        /\ UNCHANGED <<imports, entry, component>>
    BY <1>2, TypeParts DEF LazyInv, EnterDashboard
  <2>2. \A c \in Chunks : imports[c].epoch \in Nat
    BY TypeParts DEF LazyInv
  <2> QED  BY <2>1, <2>2
<1>3. CASE (\E second \in BOOLEAN : Retry(second)) \/ ClearCache \/ WindowExpires
  <2>1. /\ UNCHANGED <<imports, entry, route>>
        /\ \A c \in Chunks : component'[c] \in {component[c], "unasked"}
    BY <1>3 DEF Retry, ClearCache, WindowExpires
  <2> QED  BY <2>1
<1>4. CASE \E newBuild \in BOOLEAN : ReloadApp(newBuild)
  <2>1. \A c \in Chunks : imports'[c].epoch = 0 /\ route'.epoch = 0 /\ component'[c] = "unasked"
    BY <1>4 DEF ReloadApp, NoImports, Unasked
  <2> QED  BY <2>1
<1>5. CASE UNCHANGED lazyVars
  BY <1>5 DEF lazyVars
<1> QED  BY <1>1, <1>2, <1>3, <1>4, <1>5 DEF LazyNext

(* A component fails after all attempts, or on an empty module.            *)
THEOREM FailuresAreEarned == LazySpec => []AttemptsAreUsedOrSwallowed
<1>1. LazyInit => FailuresOK
  BY DEF LazyInit, FailuresOK, NoneIsAhead, AttemptsAreUsedOrSwallowed, NoImports, Unasked
<1>2. FailuresOK => AttemptsAreUsedOrSwallowed
  BY DEF FailuresOK
<1> QED  BY <1>1, <1>2, FailuresStayOK, AlwaysLazyInv, PTL DEF LazySpec

(* An empty module is for the rest of the tab.                             *)
THEOREM EmptyStays == LazySpec => EmptyUntilReload
<1> DEFINE Stays == \A c \in Chunks : entry[c] = "empty" /\ entry'[c] # "empty"
                      => presses'.reloads = presses.reloads + 1
<1>1. LazyInv /\ [LazyNext]_lazyVars => [Stays]_lazyVars
  <2> SUFFICES ASSUME LazyInv, LazyNext, NEW c \in Chunks,
                      entry[c] = "empty", entry'[c] # "empty"
               PROVE  presses'.reloads = presses.reloads + 1
    OBVIOUS
  <2>1. entry \in Entries /\ imports[c].pc = "idle"
    BY TypeParts DEF LazyInv, PendingRuns
  <2>2. ASSUME NEW d \in Chunks, NEW status, d # c \/ status = "empty"
        PROVE  [entry EXCEPT ![d] = status][c] = "empty"
    BY <2>1, <2>2 DEF Entries
  <2>3. ASSUME NEW d \in Chunks, Ask(d) \/ AskAgainRaw(d)
        PROVE  FALSE
    <3>1. \/ UNCHANGED entry
          \/ entry[d] # "empty" /\ entry' = [entry EXCEPT ![d] = "pending"]
      BY <2>3 DEF Ask, AskAgainRaw
    <3> QED  BY <2>2, <3>1
  <2>4. ASSUME NEW d \in Chunks, ImportStep(d)
        PROVE  FALSE
    <3>1. d # c
      BY <2>1, <2>4
      DEF ImportStep, Resume, Settles, Loads, LoadSwallowed, LoadRejects, NextAttempt, GiveUp,
          LazyInv, LineShapeOK, LineOK
    <3>2. Stale(d) => FALSE
      BY <2>2, <3>1 DEF Stale
    <3> QED  BY <2>2, <2>4, <3>1, <3>2
             DEF ImportStep, Resume, Settles, Loads, LoadSwallowed, LoadRejects, NextAttempt,
                 GiveUp
  <2>5. CASE \E newBuild \in BOOLEAN : ReloadApp(newBuild)
    <3>1. presses \in [retries : Nat, reloads : Nat]
      BY DEF LazyInv, LazyTypeOK
    <3> QED  BY <2>5, <3>1 DEF ReloadApp
  <2>6. CASE \/ \E path \in Paths \ {"/"} : EnterDashboard(path)
             \/ \E second \in BOOLEAN : Retry(second)
             \/ ClearCache \/ WindowExpires
    BY <2>6 DEF EnterDashboard, Retry, ClearCache, WindowExpires
  <2> QED  BY <2>3, <2>4, <2>5, <2>6 DEF LazyNext
<1> QED  BY <1>1, AlwaysLazyInv, PTL DEF LazySpec, EmptyUntilReload

(* Only one import is swallowed: the handler that does it sets the flag    *)
(* that stops it from doing it again, and no step but a load of the page   *)
(* or a cleared recovery takes that flag back.                             *)
SwallowedOnce ==
  ~recovery.cleared =>
    /\ \A c \in Chunks : entry[c] = "empty" => recovery.scheduled
    /\ \A c, d \in Chunks : entry[c] = "empty" /\ entry[d] = "empty" => c = d

(* A step that swallows nothing and forgets no notice.                     *)
LEMMA NothingSwallowed ==
  ASSUME SwallowedOnce,
         \A c \in Chunks : entry'[c] = "empty" => entry[c] = "empty",
         recovery.scheduled => recovery'.scheduled,
         recovery'.cleared = recovery.cleared
  PROVE  SwallowedOnce'
BY DEF SwallowedOnce

LEMMA EntryEnds ==
  ASSUME LazyTypeOK, NEW c \in Chunks, NEW status, entry' = [entry EXCEPT ![c] = status]
  PROVE  /\ entry'[c] = status
         /\ \A d \in Chunks \ {c} : entry'[d] = entry[d]
BY TypeParts DEF Entries

LEMMA SwallowStep ==
  ASSUME LazyInv, SwallowedOnce, NEW c \in Chunks, LoadSwallowed(c)
  PROVE  SwallowedOnce'
<1>1. ~recovery.scheduled /\ recovery'.scheduled /\ recovery'.cleared = recovery.cleared
  BY NoticedInv DEF LoadSwallowed, Recovers, LazyInv
<1>2. \A d \in Chunks \ {c} : entry'[d] = entry[d]
  BY EntryEnds DEF LoadSwallowed, Stale, LazyInv
<1> QED  BY <1>1, <1>2 DEF SwallowedOnce

LEMMA SwallowedStaysOnce == LazyInv /\ SwallowedOnce /\ [LazyNext]_lazyVars => SwallowedOnce'
<1> SUFFICES ASSUME LazyInv, SwallowedOnce, [LazyNext]_lazyVars PROVE SwallowedOnce'
  OBVIOUS
<1>1. ASSUME NEW c \in Chunks, Ask(c) \/ AskAgainRaw(c)
      PROVE  SwallowedOnce'
  <2>1. entry' = entry \/ entry' = [entry EXCEPT ![c] = "pending"]
    BY <1>1 DEF Ask, AskAgainRaw
  <2>2. \A d \in Chunks : entry'[d] = "empty" => entry[d] = "empty"
    BY <2>1, EntryEnds DEF LazyInv
  <2> QED  BY <1>1, <2>2, NothingSwallowed DEF Ask, AskAgainRaw
<1>2. ASSUME NEW c \in Chunks, Resume(c) \/ Loads(c) \/ NextAttempt(c) \/ GiveUp(c)
                               \/ \E error \in {"chunk", "other"} : LoadRejects(c, error)
      PROVE  SwallowedOnce'
  <2>1. entry' = entry \/ \E status \in {"none", "resolved", "rejected"} :
                            entry' = [entry EXCEPT ![c] = status]
    BY <1>2 DEF Resume, Loads, NextAttempt, GiveUp, LoadRejects, Stale
  <2>2. \A d \in Chunks : entry'[d] = "empty" => entry[d] = "empty"
    BY <2>1, EntryEnds DEF LazyInv
  <2>3. \/ recovery' = recovery
        \/ Recovers(imports[c].error) /\ recovery' = Noticed
    BY <1>2 DEF Resume, Loads, NextAttempt, GiveUp, LoadRejects
  <2>4. (recovery.scheduled => recovery'.scheduled) /\ recovery'.cleared = recovery.cleared
    BY <2>3, NoticedInv DEF LazyInv
  <2> QED  BY <2>2, <2>4, NothingSwallowed
<1>3. ASSUME NEW c \in Chunks, LoadSwallowed(c) PROVE SwallowedOnce'
  BY <1>3, SwallowStep
<1>4. CASE (\E second \in BOOLEAN : Retry(second)) \/ ClearCache
  <2>1. UNCHANGED <<entry, recovery>> \/ recovery'.cleared
    BY <1>4 DEF Retry, ClearCache, ClearedRecovery
  <2> QED  BY <2>1 DEF SwallowedOnce
<1>5. CASE WindowExpires \/ (\E path \in Paths \ {"/"} : EnterDashboard(path)) \/ UNCHANGED lazyVars
  <2>1. ASSUME NEW o \in RecoveryType, NEW n, n = [o EXCEPT !.stored = 0]
        PROVE  n.scheduled = o.scheduled /\ n.cleared = o.cleared
    BY <2>1 DEF RecoveryType
  <2>2. recovery \in RecoveryType
    BY DEF LazyInv, LazyTypeOK, RecoveryType
  <2>3. /\ entry' = entry
        /\ recovery'.scheduled = recovery.scheduled /\ recovery'.cleared = recovery.cleared
    BY <1>5, <2>1, <2>2 DEF WindowExpires, EnterDashboard, lazyVars
  <2> QED  BY <2>3, NothingSwallowed
<1>6. CASE \E newBuild \in BOOLEAN : ReloadApp(newBuild)
  BY <1>6 DEF ReloadApp, NoEntries, SwallowedOnce
<1> QED
  BY <1>1, <1>2, <1>3, <1>4, <1>5, <1>6 DEF LazyNext, ImportStep, Settles

(* At most one part of the app fails early between two loads of the page,  *)
(* for any number of parts, attempts and retries, unless the user had the  *)
(* recovery cleared (chunkLoadRecovery.ts:198-242, lazyRetry.ts).          *)
THEOREM OneFailsEarly == LazySpec => []FailsEarlyOnce
<1>1. LazyInit => SwallowedOnce
  BY DEF LazyInit, SwallowedOnce, NoEntries
<1>2. LazyInv /\ AttemptsAreUsedOrSwallowed /\ SwallowedOnce => FailsEarlyOnce
  <2> SUFFICES ASSUME LazyInv, AttemptsAreUsedOrSwallowed, SwallowedOnce,
                      ~recovery.cleared, NEW c \in Chunks, NEW d \in Chunks,
                      FailedEarly(c), FailedEarly(d)
               PROVE  c = d
    BY DEF FailsEarlyOnce
  <2>1. imports[c].attempt # MaxAttempts /\ imports[d].attempt # MaxAttempts
    BY TypeParts, LazyAssumption DEF FailedEarly, LazyInv
  <2>2. entry[c] = "empty" /\ entry[d] = "empty"
    BY <2>1 DEF FailedEarly, AttemptsAreUsedOrSwallowed
  <2> QED  BY <2>2 DEF SwallowedOnce
<1> QED  BY <1>1, <1>2, SwallowedStaysOnce, FailuresAreEarned, AlwaysLazyInv, PTL DEF LazySpec

-----------------------------------------------------------------------------
(* The work of a reviewer                                                  *)

(* The contracts share the global registry, and beside them the inbox, the *)
(* sealed signals and the imports share no state: a behaviour of all of    *)
(* them is one of each.                                                    *)
THEOREM ReviewFollowsItsParts ==
  ReviewSpec => AccessSpec /\ Spec /\ InboxSpec /\ SessionSpec /\ LazySpec
<1>1. ReviewInit => AccessInit /\ Init /\ InboxInit /\ SessionInit /\ LazyInit
  BY DEF ReviewInit, Init
<1>2. [ReviewNext]_<<focus, vars, inboxVars, sessionVars, lazyVars>>
        => /\ [Next]_vars /\ [InboxNext]_inboxVars
           /\ [SessionNext]_sessionVars /\ [LazyNext]_lazyVars
  BY DEF ReviewNext, Next, PairStep, RowStep
<1>3. [Next]_vars => [AccessNext]_accessVars
  BY DEF Next, ProjectNext, vars, accessVars
<1> QED  BY <1>1, <1>2, <1>3, PTL
           DEF ReviewSpec, AccessSpec, Spec, InboxSpec, SessionSpec, LazySpec

(* Contracts, inbox, sessions and imports keep the shapes the code gives   *)
(* them on every instance (access_control.move, project_registry.move,     *)
(* useSignalInboxData.ts, usePrivateSignalDecrypt.ts, lazyRetry.ts).       *)
THEOREM ReviewTypeCorrect == ReviewSpec => []ReviewTypeOK
<1>1. AccessTypeOK /\ TypeOK /\ InboxTypeOK /\ SessionTypeOK /\ LazyTypeOK => ReviewTypeOK
  BY DEF ReviewTypeOK
<1> QED  BY <1>1, ReviewFollowsItsParts, AccessTypeCorrect, TypeCorrect, InboxTypeCorrect,
            SessionTypeCorrect, LazyTypeCorrect, PTL

=============================================================================
