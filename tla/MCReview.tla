------------------------------ MODULE MCReview ------------------------------
(***************************************************************************)
(* What decides whom the reviewers are and what they work with, on a small *)
(* instance each: the admin capabilities of the access contract, the roles *)
(* of two projects, the inbox with two submissions or many steps of one,   *)
(* the unlocking of sealed signals and the chunks of the app they run in.  *)
(* A behaviour is one of the part that "focus" names, and the others stay  *)
(* in one of their initial states.                                         *)
(***************************************************************************)
EXTENDS ProjectRegistry, OwnerInbox, DecryptSession, LazyImports, TLC

CONSTANTS alice, oc1, oc2, oc3, p1, p2, s1, s2, r1, r2, shell, dash, other

VARIABLE focus

(* Four capability ids let a wallet be added, removed and added again while *)
(* the other one is listed.                                                *)
MCAddress == {Deployer, alice}
MCCapId == {OwnerCapId, oc1, oc2, oc3}

MCProjects == {p1, p2}
MCSubmissions == {s1, s2}
MCReviews == {"new", "triaged"}
MCRecords == {r1, r2}
MCChunks == {shell, dash, other}
MCPages == {dash, other}

(* Nothing but one submission is touched or in the remote index.           *)
OneRow ==
  \E id \in InboxIds :
    /\ remote \cup DOMAIN registering \subseteq {id}
    /\ \A i \in DOMAIN receipts : receipts[i].of = id
    /\ \A s \in InboxIds \ {id} : chosen[s] = "unsaved"

(* One review and one load with two submissions, and two receipts or one   *)
(* and a step of another manager; or more of reviews and loads with one.   *)
PairStep ==
  /\ InboxNext
  /\ counts'.edits <= 1 /\ counts'.loads <= 1
  /\ Len(receipts') + counts'.foreign <= 2
RowStep == InboxNext /\ OneRow' /\ Len(receipts') <= 1 /\ counts'.foreign = 0

ReviewInit ==
  /\ focus \in {"access", "projects", "inbox", "row", "session", "chunks"}
  /\ Init /\ InboxInit /\ SessionInit /\ LazyInit
  /\ focus \notin {"inbox", "row"} => remote = {}
  /\ focus = "row" => OneRow
  /\ IF focus = "session" THEN available \in {{}, Records}
     ELSE page = "workspace" /\ available = {}
  /\ browser.mobileSafari = browser.storage
  /\ focus # "chunks" => browser.storage

(* Nobody becomes a global admin while the projects are explored: the      *)
(* deployer owns both of them.                                             *)
ReviewNext ==
  /\ UNCHANGED focus
  /\ \/ /\ focus = "access"
        /\ AccessNext
        /\ UNCHANGED <<projectVars, inboxVars, sessionVars, lazyVars>>
     \/ /\ focus = "projects"
        /\ Next /\ Minted' = Minted
        /\ UNCHANGED <<inboxVars, sessionVars, lazyVars>>
     \/ /\ \/ focus = "inbox" /\ PairStep
           \/ focus = "row" /\ RowStep
        /\ UNCHANGED <<vars, sessionVars, lazyVars>>
     \/ /\ focus = "session"
        /\ SessionNext
        /\ UNCHANGED <<vars, inboxVars, lazyVars>>
     \/ /\ focus = "chunks"
        /\ LazyNext
        /\ UNCHANGED <<vars, inboxVars, sessionVars>>

ReviewSpec == ReviewInit /\ [][ReviewNext]_<<focus, vars, inboxVars, sessionVars, lazyVars>>

(* All parts of the state have the shapes the code gives them.             *)
ReviewTypeOK == AccessTypeOK /\ TypeOK /\ InboxTypeOK /\ SessionTypeOK /\ LazyTypeOK

(* Projects, submissions and sealed records are only compared for equality. *)
Symmetry ==
  Permutations(MCProjects) \cup Permutations(MCSubmissions) \cup Permutations(MCRecords)
=============================================================================
