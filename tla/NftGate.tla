-------------------------------- MODULE NftGate --------------------------------
(***************************************************************************)
(* A public form for the holders of an NFT: the page with the runtime it   *)
(* loads lazily (PublicFormPage, PublicNftGateRuntime), the hook behind    *)
(* that (usePublicNftGate) with the requests all pages of a tab share, and *)
(* the check the submit handler makes (usePublicSubmission).               *)
(*                                                                         *)
(* A count is abstracted to whether it reaches the required one.  What     *)
(* only words the gate screen (isChecking, gateError, debugInfo,           *)
(* hasResolvedOwnership) is left out.                                      *)
(***************************************************************************)
EXTENDS Naturals, FiniteSets

CONSTANTS
  Wallets,      \* accounts that may connect
  NoWallet,     \* no account is connected
  MaxChanges,   \* bound: what the wallet, its owner and the tab do
  MaxPresses,   \* bound: presses of the submit button
  MaxFailures   \* bound: requests that fail

ASSUME GateAssumption ==
  /\ NoWallet \notin Wallets
  /\ MaxChanges \in Nat /\ MaxPresses \in Nat /\ MaxFailures \in Nat

VARIABLES
  gate,      \* settings of the form; never change
  holders,   \* wallets that own enough at the moment
  wallet,    \* resolvedWalletAddress
  runtime,   \* whether the page has the gate's runtime mounted
  told,      \* the page's copy of the gate's state
  hook,      \* the state of the mounted hook
  known,     \* publicNftOwnershipCache
  checks,    \* requests under way
  press,     \* the submit handler between press and verdict
  used,      \* how much of each bound is used
  accepted   \* history: the answers that passed the gate

gateVars == <<gate, holders, wallet, runtime, told, hook, known, checks, press, used, accepted>>

Accounts == Wallets \cup {NoWallet}
CheckIds == 1 .. (MaxChanges + MaxPresses + 1)

(* An entry of the cache: a success, or a request under way.               *)
Nothing == [state |-> "none", id |-> 0]
Success == [state |-> "held", id |-> 0]
InFlight(id) == [state |-> "asked", id |-> id]

NotTold == [viewing |-> FALSE, submission |-> FALSE, canView |-> TRUE,
            told |-> FALSE, recheck |-> NoWallet]
NewHook == [wallet |-> NoWallet, owned |-> FALSE]
NoPress == [step |-> "idle", account |-> NoWallet, told |-> FALSE,
            recheck |-> NoWallet, check |-> 0]

(* The page, the hook and the requests have the shapes the code gives      *)
(* them, and a request is in the cache for its own wallet only.            *)
GateTypeOK ==
  /\ gate \in [viewing : BOOLEAN, submission : BOOLEAN, network : BOOLEAN]
  /\ holders \subseteq Wallets /\ wallet \in Accounts
  /\ runtime \in {"waiting", "mounted"}
  /\ told \in [viewing : BOOLEAN, submission : BOOLEAN, canView : BOOLEAN,
               told : BOOLEAN, recheck : Accounts]
  /\ hook \in [wallet : Accounts, owned : BOOLEAN]
  /\ known \in [Wallets -> {Nothing, Success} \cup {InFlight(id) : id \in CheckIds}]
  /\ checks \subseteq [id : CheckIds, wallet : Wallets, live : BOOLEAN,
                       read : {"unread", "held", "short"}, old : BOOLEAN]
  /\ \A c, d \in checks : c.id = d.id => c = d
  /\ \A c \in checks, w \in Wallets : known[w].id = c.id => c.wallet = w
  /\ press \in [step : {"idle", "starting", "checking"}, account : Accounts,
                told : BOOLEAN, recheck : Accounts, check : CheckIds \cup {0}]
  /\ used \in [changes : 0 .. MaxChanges, presses : 0 .. MaxPresses,
               failures : 0 .. MaxFailures, checks : CheckIds \cup {0}]
  /\ accepted \subseteq [account : Wallets, checked : BOOLEAN, told : BOOLEAN,
                         fresh : BOOLEAN, held : BOOLEAN]

GateInit ==
  /\ gate \in [viewing : BOOLEAN, submission : BOOLEAN, network : BOOLEAN]
  /\ holders \in SUBSET Wallets /\ wallet \in Accounts
  /\ runtime = "waiting" /\ told = NotTold /\ hook = NewHook
  /\ known = [w \in Wallets |-> Nothing] /\ checks = {}
  /\ press = NoPress /\ accepted = {}
  /\ used = [changes |-> 0, presses |-> 0, failures |-> 0, checks |-> 0]

-----------------------------------------------------------------------------
(* The page shows the form, and with it mounts the runtime, unless the     *)
(* state it was told closes it.                                            *)
FormShown(state) == ~(state.viewing /\ ~state.canView)

(* The effect of the runtime that tells the page what the hook returned.   *)
Report(owned) ==
  [viewing |-> gate.viewing, submission |-> gate.submission,
   canView |-> wallet # NoWallet /\ gate.network /\ owned,
   told |-> TRUE, recheck |-> wallet]

(* The page renders what it was told; a runtime that goes leaves its       *)
(* requests behind.                                                        *)
Tell(state, hookNext, checksNext) ==
  /\ told' = state
  /\ runtime' = IF FormShown(state) THEN "mounted" ELSE "waiting"
  /\ hook' = IF FormShown(state) THEN hookNext ELSE NewHook
  /\ checks' = IF FormShown(state) THEN checksNext
               ELSE {[c EXCEPT !.live = FALSE] : c \in checksNext}

-----------------------------------------------------------------------------
(* checkOwnership *)

Ready == wallet # NoWallet /\ gate.network

(* Mutant of MayReuse: the check at submit is one like the others.         *)
MayReuse_Always(forceFresh) == TRUE

MayReuse(forceFresh) == ~forceFresh

(* What a call finds: a request to wait for, a recent success, or nothing. *)
Finds(cache, w, forceFresh) ==
  IF MayReuse(forceFresh) THEN cache[w] ELSE Nothing

NewCheck(w, live) ==
  [id |-> used.checks + 1, wallet |-> w, live |-> live, read |-> "unread", old |-> FALSE]

(* The effects of a commit: the requests of the wallet before are          *)
(* forgotten, and the new one is checked.                                  *)
Effects(previous, owned) ==
  LET cache == [w \in Wallets |-> IF w = previous /\ w # wallet THEN Nothing ELSE known[w]]
      asks  == Ready /\ Finds(cache, wallet, FALSE) = Nothing
      next  == IF ~Ready THEN FALSE
               ELSE IF Finds(cache, wallet, FALSE) = Success THEN TRUE ELSE owned
  IN
  /\ known' = IF asks THEN [cache EXCEPT ![wallet] = InFlight(used.checks + 1)] ELSE cache
  /\ Tell(Report(owned), [wallet |-> wallet, owned |-> next],
          checks \cup {c \in {NewCheck(wallet, TRUE)} : asks})
  /\ used' = IF asks THEN [used EXCEPT !.checks = @ + 1] ELSE used

(* The two chunks have arrived.                                            *)
MountRuntime ==
  /\ runtime = "waiting" /\ FormShown(told)
  /\ Effects(NoWallet, FALSE)
  /\ UNCHANGED <<gate, holders, wallet, press, accepted>>

(* Another wallet: the page has rendered it, the effects run after that.   *)
WalletEffects ==
  /\ runtime = "mounted" /\ hook.wallet # wallet
  /\ Effects(hook.wallet, hook.owned)
  /\ UNCHANGED <<gate, holders, wallet, press, accepted>>

(* The hook has rendered again with a new count.                           *)
TellPage ==
  /\ runtime = "mounted" /\ hook.wallet = wallet
  /\ told # Report(hook.owned)
  /\ Tell(Report(hook.owned), hook, checks)
  /\ UNCHANGED <<gate, holders, wallet, known, press, used, accepted>>

-----------------------------------------------------------------------------
(* Requests *)

(* The fullnode looks at the objects of the wallet.                        *)
Reads(c) ==
  /\ c \in checks /\ c.read = "unread"
  /\ checks' = (checks \ {c}) \cup
       {[c EXCEPT !.read = IF c.wallet \in holders THEN "held" ELSE "short"]}
  /\ UNCHANGED <<gate, holders, wallet, runtime, told, hook, known, press, used, accepted>>

(* The handler that waits for the request goes on, or refuses.             *)
Verdict(c, held) ==
  IF press.step = "checking" /\ press.check = c.id
    THEN /\ press' = NoPress
         /\ accepted' = accepted \cup
              {[account |-> press.account, checked |-> TRUE, told |-> press.told,
                fresh |-> ~c.old, held |-> TRUE] : h \in {TRUE} \cap {held}}
    ELSE UNCHANGED <<press, accepted>>

(* Whoever asked: the last answer sets the count and the cache, whatever   *)
(* wallet is connected by now.                                             *)
Answers(c) ==
  LET held == c.read = "held" IN
  /\ c \in checks /\ c.read # "unread"
  /\ checks' = checks \ {c}
  /\ known' = [known EXCEPT ![c.wallet] = IF held THEN Success ELSE Nothing]
  /\ hook' = IF c.live THEN [hook EXCEPT !.owned = held] ELSE hook
  /\ Verdict(c, held)
  /\ UNCHANGED <<gate, holders, wallet, runtime, told, used>>

CheckFails(c) ==
  /\ c \in checks /\ used.failures < MaxFailures
  /\ used' = [used EXCEPT !.failures = @ + 1]
  /\ checks' = checks \ {c}
  /\ known' = [known EXCEPT ![c.wallet] = Nothing]
  /\ Verdict(c, FALSE)
  /\ UNCHANGED <<gate, holders, wallet, runtime, told, hook>>

(* A success is used for 30 s.                                             *)
CacheExpires(w) ==
  /\ known[w] = Success
  /\ known' = [known EXCEPT ![w] = Nothing]
  /\ UNCHANGED <<gate, holders, wallet, runtime, told, hook, checks, press, used, accepted>>

-----------------------------------------------------------------------------
(* Submit *)

(* The handler keeps what its render knew: the account, and the check, if  *)
(* the page was told of one.                                               *)
PressSubmit ==
  /\ FormShown(told) /\ press.step = "idle"
  /\ used.presses < MaxPresses
  /\ used' = [used EXCEPT !.presses = @ + 1]
  /\ press' = [step |-> "starting", account |-> wallet, told |-> told.told,
               recheck |-> told.recheck, check |-> 0]
  /\ checks' = {[c EXCEPT !.old = c.read # "unread"] : c \in checks}
  /\ UNCHANGED <<gate, holders, wallet, runtime, told, hook, known, accepted>>

(* recheckAccess, after the handler's own imports.                         *)
recheckAccess ==
  LET w    == press.recheck
      asks == press.told /\ gate.submission
      finds == Finds(known, w, TRUE)
      passes(checked) ==
        /\ press' = NoPress
        /\ accepted' = accepted \cup
             {[account |-> press.account, checked |-> checked, told |-> press.told,
               fresh |-> FALSE, held |-> FALSE]}
        /\ UNCHANGED <<known, checks, hook, used>>
  IN
  /\ press.step = "starting"
  /\ \/ /\ press.account = NoWallet \/ (asks /\ (w = NoWallet \/ ~gate.network))
        /\ press' = NoPress
        /\ UNCHANGED <<known, checks, hook, used, accepted>>
     \/ /\ press.account # NoWallet /\ ~asks
        /\ passes(FALSE)
     \/ /\ press.account # NoWallet /\ asks /\ w # NoWallet /\ gate.network
        /\ \/ finds = Success /\ passes(TRUE)
           \/ /\ finds.state = "asked"
              /\ press' = [press EXCEPT !.step = "checking", !.check = finds.id]
              /\ UNCHANGED <<known, checks, hook, used, accepted>>
           \/ /\ finds = Nothing
              /\ known' = [known EXCEPT ![w] = InFlight(used.checks + 1)]
              /\ checks' = checks \cup {NewCheck(w, runtime = "mounted")}
              /\ press' = [press EXCEPT !.step = "checking", !.check = used.checks + 1]
              /\ used' = [used EXCEPT !.checks = @ + 1]
              /\ UNCHANGED <<hook, accepted>>
  /\ UNCHANGED <<gate, holders, wallet, runtime, told>>

-----------------------------------------------------------------------------
(* Around the page *)

Changes ==
  /\ used.changes < MaxChanges
  /\ used' = [used EXCEPT !.changes = @ + 1]

ConnectWallet(w) ==
  /\ Changes
  /\ w # wallet
  /\ wallet' = w
  /\ UNCHANGED <<gate, holders, runtime, told, hook, known, checks, press, accepted>>

(* The NFT is bought or sold.                                              *)
Trades(w) ==
  /\ Changes
  /\ holders' = IF w \in holders THEN holders \ {w} ELSE holders \cup {w}
  /\ UNCHANGED <<gate, wallet, runtime, told, hook, known, checks, press, accepted>>

(* The visitor leaves the form and comes back within the tab.              *)
ReopenPage ==
  /\ Changes
  /\ wallet' = NoWallet /\ runtime' = "waiting" /\ told' = NotTold /\ hook' = NewHook
  /\ checks' = {[c EXCEPT !.live = FALSE] : c \in checks}
  /\ press' = NoPress
  /\ UNCHANGED <<gate, holders, known, accepted>>

GateNext ==
  \/ MountRuntime \/ WalletEffects \/ TellPage
  \/ \E c \in checks : Reads(c) \/ Answers(c) \/ CheckFails(c)
  \/ \E w \in Wallets : CacheExpires(w) \/ Trades(w)
  \/ PressSubmit \/ recheckAccess
  \/ \E w \in Accounts : ConnectWallet(w)
  \/ ReopenPage

(* Chunks arrive, React runs effects, requests are answered.               *)
GateFairness ==
  /\ WF_gateVars(MountRuntime) /\ WF_gateVars(WalletEffects) /\ WF_gateVars(TellPage)
  /\ WF_gateVars(\E c \in checks : Reads(c) \/ Answers(c))

GateSafety == GateInit /\ [][GateNext]_gateVars

GateSpec == GateSafety /\ GateFairness

-----------------------------------------------------------------------------
(* "final submit must fail if ownership is gone at submit time"            *)
(* (docs/nft-gated-signals.md:631): an answer that passed a gate on        *)
(* submission was pressed before the page knew of the gate, or the wallet  *)
(* was seen to hold the NFT after the press, whatever requests of the page *)
(* were under way and whatever the cache held                              *)
(* (usePublicNftGate.ts:200-212, usePublicSubmission.ts:1073).             *)
SubmitsAreChecked ==
  \A a \in accepted :
    IF a.checked THEN a.fresh /\ a.held ELSE ~a.told \/ ~gate.submission

(* "Connect a wallet that holds the required collection to continue."      *)
(* (src/i18n/locales/en.ts:3412): a wallet that holds the NFT all the time *)
(* and stays connected gets to see the form, when every request is         *)
(* answered.                                                               *)
HolderGetsIn ==
  gate.network =>
    \A w \in Wallets : [](w \in holders) /\ <>[](wallet = w) => []<>FormShown(told)

=============================================================================
