------------------------------ MODULE LazyImports ------------------------------
(***************************************************************************)
(* The lazily loaded parts of the app in one browser tab                   *)
(* (src/src/lib/lazyRetry.ts): the registry that joins calls for the same  *)
(* label, the attempts of an import, the line Mobile Safari imports stand  *)
(* in, the route epoch that makes an import stale (routes/routeEpoch.ts)   *)
(* and the update notice a failed chunk asks for (lib/chunkLoadRecovery.ts). *)
(*                                                                         *)
(* A chunk stands for a label and for the React.lazy component that asks   *)
(* for it.  The registry lets one import of a label be under way, so its   *)
(* progress is kept per chunk.  The probes and the pauses between two      *)
(* attempts are the time an import stays in "failed".                      *)
(***************************************************************************)
EXTENDS Integers, Sequences

CONSTANTS
  Chunks,       \* labels of retryLazyImport
  Pages,        \* the chunks of createAppRouteComponents
  Shell,        \* app-shell: the pages are rendered inside it
  Dashboard,    \* route-admin-dashboard, the page that moves the epoch
  MaxAttempts,  \* lazyImportAttempts
  MaxEpoch,     \* bound: route epochs after the first
  MaxRetries,   \* bound: presses of "Retry" in the error boundary
  MaxReloads    \* bound: reloads of the tab

ASSUME LazyAssumption ==
  /\ Pages \subseteq Chunks /\ Dashboard \in Pages
  /\ Shell \in Chunks \ Pages
  /\ MaxAttempts \in Nat \ {0}
  /\ MaxEpoch \in Nat /\ MaxRetries \in Nat /\ MaxReloads \in Nat

VARIABLES
  browser,      \* whether it is Mobile Safari and sessionStorage works
  route,        \* currentSnapshot of the route epoch: its path and number
  entry,        \* lazyImportRegistry: status and result per label
  imports,      \* the newest import of each label
  activeCount,  \* mobileSafariLazyImportActiveCount
  line,         \* mobileSafariLazyImportQueue
  resumed,      \* shifted from the line, their await not continued yet
  component,    \* what became of each lazy component
  recovery,     \* reloadScheduled, the stored count and, as history, whether
                \* the user has had them cleared since the page was loaded
  presses       \* retries and reloads so far

queueVars == <<activeCount, line, resumed>>
lazyVars == <<browser, route, entry, imports, queueVars, component, recovery, presses>>

Paths == {"/", "/dashboard", "/admin"}
Unasked == [c \in Chunks |-> "unasked"]
NoEntries == [c \in Chunks |-> "none"]
NoImports == [c \in Chunks |-> [pc |-> "idle", epoch |-> 0, attempt |-> 0, error |-> "none"]]

(* Shapes of the state.  "empty" is a resolved entry whose result is       *)
(* undefined.                                                              *)
LazyTypeOK ==
  /\ browser \in [mobileSafari : BOOLEAN, storage : BOOLEAN]
  /\ route \in [path : Paths, epoch : Nat]
  /\ entry \in [Chunks -> {"none", "pending", "resolved", "empty", "rejected"}]
  /\ imports \in [Chunks -> [pc : {"idle", "queued", "running", "failed"},
                             epoch : Nat, attempt : 0 .. MaxAttempts,
                             error : {"none", "chunk", "other"}]]
  /\ activeCount \in Nat /\ line \in Seq(Chunks) /\ resumed \subseteq Chunks
  /\ component \in [Chunks -> {"unasked", "loading", "shown", "failed", "hanging"}]
  /\ recovery \in [scheduled : BOOLEAN, stored : 0 .. 1, cleared : BOOLEAN]
  /\ presses \in [retries : Nat, reloads : Nat]

LazyInit ==
  /\ browser \in [mobileSafari : BOOLEAN, storage : BOOLEAN]
  /\ route = [path |-> "/", epoch |-> 0]
  /\ entry = NoEntries /\ imports = NoImports
  /\ activeCount = 0 /\ line = <<>> /\ resumed = {}
  /\ component = Unasked
  /\ recovery = [scheduled |-> FALSE, stored |-> 0, cleared |-> FALSE]
  /\ presses = [retries |-> 0, reloads |-> 0]

-----------------------------------------------------------------------------
(* isCurrentEpoch *)
Current(c) == imports[c].epoch = route.epoch

(* Mutant of Recovers: only the count of the window limits the notices.    *)
Recovers_ForgetsScheduled(error) == error = "chunk" /\ recovery.stored < 1

(* recoverFromChunkLoadFailure asks for a notice.                          *)
Recovers(error) ==
  /\ error = "chunk"
  /\ ~recovery.scheduled
  /\ recovery.stored < 1

(* requestBuildUpdateNotice; a browser without storage forgets the count.  *)
Noticed ==
  [recovery EXCEPT !.scheduled = TRUE,
                   !.stored = IF browser.storage THEN @ + 1 ELSE @]

(* clearChunkLoadRecoveryState *)
ClearedRecovery == [scheduled |-> FALSE, stored |-> 0, cleared |-> TRUE]

(* The first half of runWithMobileSafariLazyImportQueue: an attempt starts *)
(* or stands in line.                                                      *)
Enqueue(c, attempt, epoch) ==
  LET waits == browser.mobileSafari /\ activeCount >= 1 IN
  /\ imports' = [imports EXCEPT ![c] =
       [@ EXCEPT !.pc = IF waits THEN "queued" ELSE "running",
                 !.attempt = attempt, !.epoch = epoch]]
  /\ line' = IF waits THEN Append(line, c) ELSE line
  /\ activeCount' = IF browser.mobileSafari /\ ~waits THEN activeCount + 1 ELSE activeCount
  /\ UNCHANGED resumed

(* Mutant of Release: the next in line is resumed only when one is left    *)
(* behind it.                                                              *)
Release_LeavesLast ==
  /\ activeCount' = IF activeCount > 0 THEN activeCount - 1 ELSE 0
  /\ line' = IF Len(line) > 1 THEN Tail(line) ELSE line
  /\ resumed' = IF Len(line) > 1 THEN resumed \cup {Head(line)} ELSE resumed

(* Mutant of Release: a task that is over still counts as active.          *)
Release_KeepsCount ==
  /\ activeCount' = activeCount
  /\ UNCHANGED <<line, resumed>>

(* Its finally block.  The one shifted from the line continues in a later  *)
(* microtask, so that a newcomer may find the count at zero before it.     *)
Release ==
  /\ activeCount' = IF activeCount > 0 THEN activeCount - 1 ELSE 0
  /\ line' = IF line # <<>> THEN Tail(line) ELSE line
  /\ resumed' = IF line # <<>> THEN resumed \cup {Head(line)} ELSE resumed

Answer(c, result) ==
  component' = [component EXCEPT ![c] = IF @ = "loading" THEN result ELSE @]

EndImport(c) == imports' = [imports EXCEPT ![c].pc = "idle"]

(* StaleLazyImportEpochError: the entry goes; suppressStaleLazyImport      *)
(* leaves a page pending for ever, everything else rejects.                *)
Stale(c) ==
  /\ entry' = [entry EXCEPT ![c] = "none"]
  /\ Answer(c, IF c \in Pages THEN "hanging" ELSE "failed")
  /\ EndImport(c)

(* retryLazyImport, called by the component's first render.                *)
Ask(c) ==
  /\ component[c] = "unasked"
  /\ c \in Pages => component[Shell] = "shown"
  /\ \/ /\ entry[c] = "resolved"
        /\ component' = [component EXCEPT ![c] = "shown"]
        /\ UNCHANGED <<entry, imports, queueVars>>
     \/ /\ entry[c] = "empty"
        /\ component' = [component EXCEPT ![c] = "failed"]
        /\ UNCHANGED <<entry, imports, queueVars>>
     \/ /\ entry[c] = "pending"
        /\ component' = [component EXCEPT ![c] = "loading"]
        /\ UNCHANGED <<entry, imports, queueVars>>
     \/ /\ entry[c] \in {"none", "rejected"}
        /\ component' = [component EXCEPT ![c] = "loading"]
        /\ entry' = [entry EXCEPT ![c] = "pending"]
        /\ Enqueue(c, 1, route.epoch)
  /\ UNCHANGED <<browser, route, recovery, presses>>

(* resolveLazyRouteModuleWithSafariRetry imports the raw chunk once more.  *)
AskAgainRaw(c) ==
  /\ component[c] = "unasked" /\ component[Shell] = "shown"
  /\ c \in Pages /\ browser.mobileSafari /\ entry[c] = "empty"
  /\ component' = [component EXCEPT ![c] = "shown"]
  /\ UNCHANGED <<browser, route, entry, imports, queueVars, recovery, presses>>

(* The waiter that was shifted from the line continues, whoever else has   *)
(* started meanwhile.                                                      *)
Resume(c) ==
  /\ c \in resumed
  /\ resumed' = resumed \ {c}
  /\ activeCount' = activeCount + 1
  /\ imports' = [imports EXCEPT ![c].pc = "running"]
  /\ UNCHANGED <<browser, route, entry, line, component, recovery, presses>>

(* The chunk arrives.                                                      *)
Loads(c) ==
  /\ imports[c].pc = "running"
  /\ Release
  /\ IF Current(c)
     THEN /\ entry' = [entry EXCEPT ![c] = "resolved"]
          /\ Answer(c, "shown")
          /\ EndImport(c)
     ELSE Stale(c)
  /\ UNCHANGED <<browser, route, recovery, presses>>

(* The first attempt goes through Vite's preload helper, as do later ones  *)
(* for which no URL of the chunk is known: its event reaches               *)
(* handleVitePreloadError, which prevents the default when a notice was    *)
(* asked for, and the import resolves with no module.                      *)
LoadSwallowed(c) ==
  /\ imports[c].pc = "running"
  /\ Recovers("chunk") /\ recovery' = Noticed
  /\ Release
  /\ IF Current(c)
     THEN /\ entry' = [entry EXCEPT ![c] = "empty"]
          /\ \/ Answer(c, "failed")
             \/ c \in Pages /\ browser.mobileSafari /\ Answer(c, "shown")
          /\ EndImport(c)
     ELSE Stale(c)
  /\ UNCHANGED <<browser, route, presses>>

(* The attempt is rejected: by the network, by the module's evaluation, or *)
(* for the shell by the hard timeout of Mobile Safari, which is an error   *)
(* of the other kind.                                                      *)
LoadRejects(c, error) ==
  /\ imports[c].pc = "running"
  /\ error = "chunk" /\ imports[c].attempt = 1 => ~Recovers(error)
  /\ Release
  /\ IF Current(c)
     THEN /\ imports' = [imports EXCEPT ![c] = [@ EXCEPT !.pc = "failed", !.error = error]]
          /\ UNCHANGED <<entry, component>>
     ELSE Stale(c)
  /\ UNCHANGED <<browser, route, recovery, presses>>

(* The next attempt, after the probes and the pause.                       *)
NextAttempt(c) ==
  /\ imports[c].pc = "failed" /\ imports[c].attempt < MaxAttempts
  /\ IF Current(c)
     THEN /\ Enqueue(c, imports[c].attempt + 1, imports[c].epoch)
          /\ UNCHANGED <<entry, component>>
     ELSE Stale(c) /\ UNCHANGED queueVars
  /\ UNCHANGED <<browser, route, recovery, presses>>

(* Mutant of GiveUp: the registry keeps the pending entry.                 *)
GiveUp_StaysPending(c) ==
  /\ imports[c].pc = "failed" /\ imports[c].attempt = MaxAttempts
  /\ Answer(c, "failed")
  /\ EndImport(c)
  /\ recovery' = IF Recovers(imports[c].error) THEN Noticed ELSE recovery
  /\ UNCHANGED <<browser, route, entry, queueVars, presses>>

(* The last attempt has failed; the epoch is not looked at again.          *)
GiveUp(c) ==
  /\ imports[c].pc = "failed" /\ imports[c].attempt = MaxAttempts
  /\ entry' = [entry EXCEPT ![c] = "rejected"]
  /\ Answer(c, "failed")
  /\ EndImport(c)
  /\ recovery' = IF Recovers(imports[c].error) THEN Noticed ELSE recovery
  /\ UNCHANGED <<browser, route, queueVars, presses>>

(* AdminDashboardPage's effect on the path it is mounted for; no other     *)
(* surface in use moves the epoch.                                         *)
EnterDashboard(path) ==
  /\ component[Dashboard] = "shown"
  /\ path # route.path /\ route.epoch < MaxEpoch
  /\ route' = [path |-> path, epoch |-> route.epoch + 1]
  /\ UNCHANGED <<browser, entry, imports, queueVars, component, recovery, presses>>

(* handleRetry: the pages are created anew, and from the second press on   *)
(* the recovery state is cleared.  A navigation resets the count of presses. *)
Retry(second) ==
  /\ \E c \in Chunks : component[c] = "failed"
  /\ second => presses.retries > 0
  /\ presses.retries < MaxRetries
  /\ presses' = [presses EXCEPT !.retries = @ + 1]
  /\ component' = [c \in Chunks |-> IF c \in Pages THEN "unasked" ELSE component[c]]
  /\ recovery' = IF second THEN ClearedRecovery ELSE recovery
  /\ UNCHANGED <<browser, route, entry, imports, queueVars>>

(* handleClearRouteCache, and the first half of handleHardRefresh.         *)
ClearCache ==
  /\ \E c \in Chunks : component[c] = "failed"
  /\ recovery' = ClearedRecovery
  /\ UNCHANGED <<browser, route, entry, imports, queueVars, component, presses>>

(* Two minutes after the window began readReloadState ignores the count.   *)
WindowExpires ==
  /\ recovery.stored > 0
  /\ recovery' = [recovery EXCEPT !.stored = 0]
  /\ UNCHANGED <<browser, route, entry, imports, queueVars, component, presses>>

(* The tab is reloaded, with the same build or a new one: sessionStorage   *)
(* stays, but a new build ignores the count.                               *)
ReloadApp(newBuild) ==
  /\ presses.reloads < MaxReloads
  /\ presses' = [presses EXCEPT !.reloads = @ + 1]
  /\ route' = [path |-> "/", epoch |-> 0]
  /\ entry' = NoEntries /\ imports' = NoImports
  /\ activeCount' = 0 /\ line' = <<>> /\ resumed' = {}
  /\ component' = Unasked
  /\ recovery' = [scheduled |-> FALSE, stored |-> IF newBuild THEN 0 ELSE recovery.stored,
                  cleared |-> FALSE]
  /\ UNCHANGED browser

-----------------------------------------------------------------------------
Settles(c) == Loads(c) \/ LoadSwallowed(c) \/ \E error \in {"chunk", "other"} : LoadRejects(c, error)

ImportStep(c) == Resume(c) \/ Settles(c) \/ NextAttempt(c) \/ GiveUp(c)

LazyNext ==
  \/ \E c \in Chunks : Ask(c) \/ AskAgainRaw(c) \/ ImportStep(c)
  \/ \E path \in Paths \ {"/"} : EnterDashboard(path)
  \/ \E second \in BOOLEAN : Retry(second)
  \/ ClearCache
  \/ WindowExpires
  \/ \E newBuild \in BOOLEAN : ReloadApp(newBuild)

LazySpec == LazyInit /\ [][LazyNext]_lazyVars

(* Timers and microtasks run, and every fetch is answered in the end.      *)
ImportFairness == \A c \in Chunks : WF_lazyVars(ImportStep(c))

-----------------------------------------------------------------------------
(* Nobody waits for nothing: a component that shows its fallback has an    *)
(* import of its chunk under way, and whoever stands in Mobile Safari's    *)
(* line has a running or a resumed import ahead of it, although the count, *)
(* the line and the registry are changed by callbacks of different imports. *)
WaitsForSomething ==
  /\ \A c \in Chunks : component[c] = "loading" => imports[c].pc # "idle"
  /\ \A c \in Chunks : imports[c].pc = "queued" =>
       c \in resumed \/ \E d \in Chunks : d \in resumed \/ imports[d].pc = "running"

(* It failed while attempts were left.                                     *)
FailedEarly(c) ==
  component[c] = "failed" /\ Current(c) /\ imports[c].attempt < MaxAttempts

(* What the swallowed failures of AttemptsAreUsed cost: one part of the    *)
(* app at most fails early between two loads of the page, in whatever      *)
(* order chunks fail, windows expire and the user presses "Retry", unless  *)
(* a second "Retry" or "clear cache" had the recovery cleared              *)
(* (RouteErrorBoundary.tsx:268, 283, 298).  The flag in memory must hold   *)
(* when the count in sessionStorage is lost, and the empty result stays in *)
(* the registry for everybody who asks for that part again.                *)
FailsEarlyOnce ==
  ~recovery.cleared => \A c, d \in Chunks : FailedEarly(c) /\ FailedEarly(d) => c = d

(* When every fetch is answered and nothing more is asked for, no component *)
(* stays in its fallback but those a stale import left pending: nobody     *)
(* starves in the line behind newcomers that find the count at zero.       *)
ComponentsSettle == []<>(\A c \in Chunks : component[c] # "loading")

(* "A fourth attempt keeps the route in suspense long enough to absorb     *)
(* that short propagation window" (lazyRetry.ts:31): a component fails     *)
(* only after all attempts, unless its import became stale.                *)
AttemptsAreUsed ==
  \A c \in Chunks :
    component[c] = "failed" /\ Current(c) => imports[c].attempt = MaxAttempts
=============================================================================
