---------------------------- MODULE SignalLedger ----------------------------
(***************************************************************************)
(* What a project registry promises to a respondent whose signal it        *)
(* registers, without roles, capabilities, counters or vectors:            *)
(*   - a form is born once, may be opened and closed, and may be withdrawn *)
(*     for good only while nobody has answered it;                         *)
(*   - a signal is accepted only by an open form, under a number that is   *)
(*     not in use, and is never withdrawn, renumbered or moved.            *)
(***************************************************************************)
CONSTANTS
  ProjectId,    \* the projects
  FormId,       \* form numbers of a project
  SignalId      \* signal numbers of a project

VARIABLES
  status,       \* status[p][f]: where form f of project p is in its life
  receipts      \* receipts[p]: pairs <<signal number, form>>

ledgerVars == <<status, receipts>>

FormStatus == {"unborn", "open", "closed", "gone"}

LedgerInit ==
  /\ status = [p \in ProjectId |-> [f \in FormId |-> "unborn"]]
  /\ receipts = [p \in ProjectId |-> {}]

Birth(p, f) ==
  /\ status[p][f] = "unborn"
  /\ status' = [status EXCEPT ![p][f] = "open"]
  /\ UNCHANGED receipts

Toggle(p, f) ==
  /\ status[p][f] \in {"open", "closed"}
  /\ \E s \in {"open", "closed"} : status' = [status EXCEPT ![p][f] = s]
  /\ UNCHANGED receipts

Withdraw(p, f) ==
  /\ status[p][f] \in {"open", "closed"}
  /\ \A r \in receipts[p] : r[2] # f
  /\ status' = [status EXCEPT ![p][f] = "gone"]
  /\ UNCHANGED receipts

Accept(p, f, n) ==
  /\ status[p][f] = "open"
  /\ \A r \in receipts[p] : r[1] # n
  /\ receipts' = [receipts EXCEPT ![p] = @ \cup {<<n, f>>}]
  /\ UNCHANGED status

LedgerNext ==
  \E p \in ProjectId, f \in FormId :
    \/ Birth(p, f)
    \/ Toggle(p, f)
    \/ Withdraw(p, f)
    \/ \E n \in SignalId : Accept(p, f, n)

LedgerSpec == LedgerInit /\ [][LedgerNext]_ledgerVars

=============================================================================
