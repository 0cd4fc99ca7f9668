------------------------------ MODULE MCProgress ------------------------------
(***************************************************************************)
(* What must get on in the end, on a small instance each: the delivery of  *)
(* a respondent who keeps retrying, the saves of one row of the inbox and  *)
(* the lazily loaded parts of the app.  A behaviour is one of the part     *)
(* that "focus" names, and the others stay in their initial state, where   *)
(* none of the fair actions is enabled.                                    *)
(***************************************************************************)
EXTENDS SubmissionDelivery, OwnerInbox, LazyImports

CONSTANTS h1, s1, shell, wallet, dash, page

VARIABLE focus

OneHandler == {h1}
OneSubmission == {s1}
MCReviews == {"new", "triaged"}
MCChunks == {shell, wallet, dash, page}
MCPages == {dash, page}

(* The production builds with the relay that has every outcome.            *)
IndexRelay == [encrypted : BOOLEAN, fallback : {FALSE}, relay : {"index"}]

(* The browser that lines imports up.                                      *)
Safari == [mobileSafari |-> TRUE, storage |-> TRUE]

ProgressInit ==
  /\ focus \in {"delivery", "inbox", "line"}
  /\ DeliveryInit /\ InboxInit /\ LazyInit
  /\ focus # "delivery" => deployment.encrypted
  /\ focus # "inbox" => remote = {}
  /\ browser = Safari

(* Four imports at once; reloads and notices change nothing of the line.   *)
LineStep ==
  \/ \E c \in Chunks :
       \/ Ask(c) \/ Resume(c) \/ Loads(c) \/ LoadRejects(c, "other")
       \/ NextAttempt(c) \/ GiveUp(c)
  \/ \E path \in Paths \ {"/"} : EnterDashboard(path)
  \/ presses.retries = 0 /\ Retry(FALSE)

ProgressNext ==
  /\ UNCHANGED focus
  /\ \/ focus = "delivery" /\ DeliveryNext /\ UNCHANGED <<inboxVars, lazyVars>>
     \/ focus = "inbox" /\ InboxNext /\ UNCHANGED <<deliveryVars, lazyVars>>
     \/ focus = "line" /\ LineStep /\ UNCHANGED <<deliveryVars, inboxVars>>

ProgressSpec ==
  /\ ProgressInit /\ [][ProgressNext]_<<focus, deliveryVars, inboxVars, lazyVars>>
  /\ PatientFairness /\ SavingFairness /\ ImportFairness
=============================================================================
