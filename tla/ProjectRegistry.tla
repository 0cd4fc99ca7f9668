--------------------------- MODULE ProjectRegistry ---------------------------
(***************************************************************************)
(* The Move module deepsignal::project_registry composed with              *)
(* access_control: shared Project objects with their owner, legacy admins, *)
(* members with roles, forms and signal receipts.  An action is one        *)
(* transaction of one sender; a transaction that aborts changes nothing.   *)
(*                                                                         *)
(* Vectors are sets of records: every search in the code looks for one id  *)
(* or address and every removal is swap_remove, so order is not observed.  *)
(* Nothing in that choice makes ids or member addresses unique: two        *)
(* records with the same id and different contents can stand in one set.   *)
(* Titles, digests, blob ids and timestamps are left out: the code stores  *)
(* and emits them and never tests them.                                    *)
(***************************************************************************)
EXTENDS AccessControl

CONSTANTS
  ProjectId,    \* object ids of projects; an id names its ProjectOwnerCap too
  MaxForms,     \* bound: forms ever created in one project
  MaxSignals,   \* bound: signals registered in one project
  StatusInput   \* the status bytes callers pass to update_signal_status

ASSUME ProjectAssumption ==
  /\ MaxForms \in Nat
  /\ MaxSignals \in Nat
  /\ StatusInput \subseteq 0..255

VARIABLES
  project,      \* project[p]: the shared Project object
  ownerCap      \* ownerCap[p]: the wallet that holds its ProjectOwnerCap

projectVars == <<project, ownerCap>>
vars == <<registry, holder, project, ownerCap>>

ROLE_OWNER == 0
ROLE_CO_ADMIN == 1
ROLE_REVIEWER == 2
SIGNAL_STATUS_NEW == 0

FormId == 0..(MaxForms - 1)
SignalId == 0..(MaxSignals - 1)

Member == [addr : Address, role : {ROLE_CO_ADMIN, ROLE_REVIEWER}]
Form == [form_id : Nat, active : BOOLEAN]
SignalReceipt == [signal_id : Nat, form_id : Nat, submitter : Address,
                  status : 0..255]

(* life is the existence of the object: "none" before create_project,      *)
(* "live" while it is shared, "deleted" after delete_project destroys it.  *)
(* The other fields of a deleted project keep their last value; every      *)
(* transaction needs a live one.                                           *)
Project ==
  [life : {"none", "live", "deleted"},
   owner : Address \cup {NoHolder},
   admins : SUBSET Address,
   members : SUBSET Member,
   forms_count : Nat,
   signals_count : Nat,
   next_form_id : Nat,
   forms : SUBSET Form,
   signals : SUBSET SignalReceipt]

EmptyProject(life, owner) ==
  [life |-> life, owner |-> owner, admins |-> {}, members |-> {},
   forms_count |-> 0, signals_count |-> 0, next_form_id |-> 0,
   forms |-> {}, signals |-> {}]

Init ==
  /\ AccessInit
  /\ project = [p \in ProjectId |-> EmptyProject("none", NoHolder)]
  /\ ownerCap = [p \in ProjectId |-> NoHolder]

-----------------------------------------------------------------------------
(* Roles of a wallet in a project P *)

contains_admin(P, wallet) == wallet \in P.admins

member_has_role(P, wallet, role) ==
  \E m \in P.members : m.addr = wallet /\ m.role = role

is_member(P, wallet) == \E m \in P.members : m.addr = wallet

is_project_owner(P, wallet) == P.owner = wallet

is_co_admin(P, wallet) ==
  \/ is_project_owner(P, wallet)
  \/ contains_admin(P, wallet)
  \/ member_has_role(P, wallet, ROLE_CO_ADMIN)

is_reviewer(P, wallet) == member_has_role(P, wallet, ROLE_REVIEWER)

can_manage(P, wallet) == is_project_owner(P, wallet) \/ is_co_admin(P, wallet)

can_review(P, wallet) == can_manage(P, wallet) \/ is_reviewer(P, wallet)

(* The sender passes the ProjectOwnerCap of project q to a transaction on  *)
(* project p: the capability must belong to p and the sender be its owner. *)
assert_project_owner(p, q, sender) ==
  /\ ownerCap[q] = sender
  /\ q = p
  /\ project[p].owner = sender

Live(p) == project[p].life = "live"

has_form(P, f) == \E form \in P.forms : form.form_id = f

form_has_signals(P, f) == \E s \in P.signals : s.form_id = f

(* What a Seal key server evaluates before it releases a key for an        *)
(* identity whose prefix is the id of project ns.                          *)
seal_approve_project_signal(ns, p, sender) ==
  Live(p) /\ can_review(project[p], sender) /\ ns = p

-----------------------------------------------------------------------------
(* Projects *)

(* create_project and create_project_by_owner: a global admin, or the      *)
(* global owner, that presents its capability.  The ProjectOwnerCap is     *)
(* returned to the transaction, which sends it to the chosen recipient.    *)
CreateProject(sender, cap, p, recipient) ==
  /\ Presents(sender, cap)
  /\ is_admin(sender, cap) \/ is_owner(sender, cap)
  /\ project[p].life = "none"
  /\ project' = [project EXCEPT ![p] = EmptyProject("live", sender)]
  /\ ownerCap' = [ownerCap EXCEPT ![p] = recipient]

TransferProjectOwnerCap(sender, p, recipient) ==
  /\ ownerCap[p] = sender
  /\ ownerCap' = [ownerCap EXCEPT ![p] = recipient]
  /\ UNCHANGED project

(* Mutant of DeleteProject: any ProjectOwnerCap of the owner is accepted. *)
DeleteProject_AnyCap(sender, p, q) ==
  /\ Live(p)
  /\ ownerCap[q] = sender
  /\ project[p].owner = sender
  /\ project[p].forms = {} /\ project[p].signals = {}
  /\ project' = [project EXCEPT ![p].life = "deleted"]
  /\ ownerCap' = [ownerCap EXCEPT ![q] = NoHolder]

(* delete_project consumes the project and the capability. *)
DeleteProject(sender, p, q) ==
  /\ Live(p)
  /\ assert_project_owner(p, q, sender)
  /\ project[p].forms_count = 0 /\ project[p].signals_count = 0
  /\ project[p].forms = {} /\ project[p].signals = {}
  /\ project' = [project EXCEPT ![p].life = "deleted"]
  /\ ownerCap' = [ownerCap EXCEPT ![q] = NoHolder]

-----------------------------------------------------------------------------
(* Admins and members: only the owner, with the project's capability *)

(* The legacy vector.  It does not look at the owner or at the members. *)
AddProjectAdmin(sender, p, q, wallet) ==
  /\ Live(p)
  /\ assert_project_owner(p, q, sender)
  /\ ~contains_admin(project[p], wallet)
  /\ project' = [project EXCEPT ![p].admins = @ \cup {wallet}]
  /\ UNCHANGED ownerCap

RemoveProjectAdmin(sender, p, q, wallet) ==
  /\ Live(p)
  /\ assert_project_owner(p, q, sender)
  /\ contains_admin(project[p], wallet)
  /\ project' = [project EXCEPT ![p].admins = @ \ {wallet}]
  /\ UNCHANGED ownerCap

(* Mutant of AddProjectMember: the members are not searched. *)
AddProjectMember_Duplicates(sender, p, q, wallet, role) ==
  /\ Live(p)
  /\ assert_project_owner(p, q, sender)
  /\ role # ROLE_OWNER
  /\ wallet # project[p].owner
  /\ ~contains_admin(project[p], wallet)
  /\ project' = [project EXCEPT ![p].members =
                   @ \cup {[addr |-> wallet, role |-> role]}]
  /\ UNCHANGED ownerCap

(* Mutant of AddProjectMember: is_valid_role alone, ROLE_OWNER is accepted. *)
AddProjectMember_AnyRole(sender, p, q, wallet, role) ==
  /\ Live(p)
  /\ assert_project_owner(p, q, sender)
  /\ wallet # project[p].owner
  /\ ~contains_admin(project[p], wallet)
  /\ ~is_member(project[p], wallet)
  /\ project' = [project EXCEPT ![p].members =
                   @ \cup {[addr |-> wallet, role |-> role]}]
  /\ UNCHANGED ownerCap

AddProjectMember(sender, p, q, wallet, role) ==
  /\ Live(p)
  /\ assert_project_owner(p, q, sender)
  /\ role \in {ROLE_OWNER, ROLE_CO_ADMIN, ROLE_REVIEWER} \ {ROLE_OWNER}
  /\ wallet # project[p].owner
  /\ ~contains_admin(project[p], wallet)
  /\ ~is_member(project[p], wallet)
  /\ project' = [project EXCEPT ![p].members =
                   @ \cup {[addr |-> wallet, role |-> role]}]
  /\ UNCHANGED ownerCap

(* The member entry if there is one, else the entry of the legacy vector:  *)
(* never both.                                                             *)
RemoveProjectMember(sender, p, q, wallet) ==
  /\ Live(p)
  /\ assert_project_owner(p, q, sender)
  /\ wallet # project[p].owner
  /\ \/ \E m \in project[p].members :
          /\ m.addr = wallet
          /\ project' = [project EXCEPT ![p].members = @ \ {m}]
     \/ /\ ~is_member(project[p], wallet)
        /\ contains_admin(project[p], wallet)
        /\ project' = [project EXCEPT ![p].admins = @ \ {wallet}]
  /\ UNCHANGED ownerCap

UpdateProjectMemberRole(sender, p, q, wallet, role) ==
  /\ Live(p)
  /\ assert_project_owner(p, q, sender)
  /\ role \in {ROLE_OWNER, ROLE_CO_ADMIN, ROLE_REVIEWER} \ {ROLE_OWNER}
  /\ wallet # project[p].owner
  /\ \E m \in project[p].members :
       /\ m.addr = wallet
       /\ project' = [project EXCEPT ![p].members =
                        (@ \ {m}) \cup {[m EXCEPT !.role = role]}]
  /\ UNCHANGED ownerCap

-----------------------------------------------------------------------------
(* Forms: whoever can manage the project *)

NewForm(id) == [form_id |-> id, active |-> TRUE]

(* Mutant of CreateForm: the id is the number of forms that are left. *)
CreateForm_CountAsId(sender, p) ==
  /\ Live(p)
  /\ can_manage(project[p], sender)
  /\ project[p].next_form_id < MaxForms
  /\ project' = [project EXCEPT
       ![p].next_form_id = @ + 1,
       ![p].forms = @ \cup {NewForm(project[p].forms_count)},
       ![p].forms_count = Cardinality(project[p].forms) + 1]
  /\ UNCHANGED ownerCap

CreateForm(sender, p) ==
  LET id == project[p].next_form_id
      forms == project[p].forms \cup {NewForm(id)}
  IN /\ Live(p)
     /\ can_manage(project[p], sender)
     /\ id < MaxForms
     /\ project' = [project EXCEPT ![p].next_form_id = id + 1,
                                   ![p].forms = forms,
                                   ![p].forms_count = Cardinality(forms)]
     /\ UNCHANGED ownerCap

SetFormActive(sender, p, f, active) ==
  /\ Live(p)
  /\ can_manage(project[p], sender)
  /\ \E form \in project[p].forms :
       /\ form.form_id = f
       /\ project' = [project EXCEPT ![p].forms =
                        (@ \ {form}) \cup {[form EXCEPT !.active = active]}]
  /\ UNCHANGED ownerCap

(* Mutant of DeleteForm: the receipts of the form are not looked at. *)
DeleteForm_LeavesReceipts(sender, p, f) ==
  /\ Live(p)
  /\ can_manage(project[p], sender)
  /\ \E form \in project[p].forms :
       /\ form.form_id = f
       /\ project' = [project EXCEPT
            ![p].forms = @ \ {form},
            ![p].forms_count = Cardinality(project[p].forms \ {form})]
  /\ UNCHANGED ownerCap

(* Mutant of DeleteForm: the counter is not brought up to date. *)
DeleteForm_KeepsCount(sender, p, f) ==
  /\ Live(p)
  /\ can_manage(project[p], sender)
  /\ ~form_has_signals(project[p], f)
  /\ \E form \in project[p].forms :
       /\ form.form_id = f
       /\ project' = [project EXCEPT ![p].forms = @ \ {form}]
  /\ UNCHANGED ownerCap

DeleteForm(sender, p, f) ==
  /\ Live(p)
  /\ can_manage(project[p], sender)
  /\ ~form_has_signals(project[p], f)
  /\ \E form \in project[p].forms :
       /\ form.form_id = f
       /\ project' = [project EXCEPT
            ![p].forms = @ \ {form},
            ![p].forms_count = Cardinality(project[p].forms \ {form})]
  /\ UNCHANGED ownerCap

-----------------------------------------------------------------------------
(* Signals: anyone registers, whoever can review sets the status *)

NewReceipt(id, f, sender) ==
  [signal_id |-> id, form_id |-> f, submitter |-> sender,
   status |-> SIGNAL_STATUS_NEW]

(* Mutant of RegisterSignal: the form is found but its flag is not read. *)
RegisterSignal_IgnoresActive(sender, p, f) ==
  LET id == project[p].signals_count
  IN /\ Live(p)
     /\ has_form(project[p], f)
     /\ id < MaxSignals
     /\ project' = [project EXCEPT
          ![p].signals = @ \cup {NewReceipt(id, f, sender)},
          ![p].signals_count = id + 1]
     /\ UNCHANGED ownerCap

(* Mutant of RegisterSignal: the id is counted per form. *)
RegisterSignal_PerFormId(sender, p, f) ==
  LET id == Cardinality({s \in project[p].signals : s.form_id = f})
  IN /\ Live(p)
     /\ \E form \in project[p].forms : form.form_id = f /\ form.active
     /\ project[p].signals_count < MaxSignals
     /\ project' = [project EXCEPT
          ![p].signals = @ \cup {NewReceipt(id, f, sender)},
          ![p].signals_count = @ + 1]
     /\ UNCHANGED ownerCap

RegisterSignal(sender, p, f) ==
  LET id == project[p].signals_count
  IN /\ Live(p)
     /\ \E form \in project[p].forms : form.form_id = f /\ form.active
     /\ id < MaxSignals
     /\ project' = [project EXCEPT
          ![p].signals = @ \cup {NewReceipt(id, f, sender)},
          ![p].signals_count = id + 1]
     /\ UNCHANGED ownerCap

(* Any byte is stored: the three status constants are not checked. *)
UpdateSignalStatus(sender, p, n, status) ==
  /\ Live(p)
  /\ can_review(project[p], sender)
  /\ \E s \in project[p].signals :
       /\ s.signal_id = n
       /\ project' = [project EXCEPT ![p].signals =
                        (@ \ {s}) \cup {[s EXCEPT !.status = status]}]
  /\ UNCHANGED ownerCap

-----------------------------------------------------------------------------
(* The specification *)

OwnerStep(sender, p) ==
  \E q \in ProjectId :
    \/ DeleteProject(sender, p, q)
    \/ \E wallet \in Address :
         \/ AddProjectAdmin(sender, p, q, wallet)
         \/ RemoveProjectAdmin(sender, p, q, wallet)
         \/ RemoveProjectMember(sender, p, q, wallet)
         \/ \E role \in 0..2 :
              \/ AddProjectMember(sender, p, q, wallet, role)
              \/ UpdateProjectMemberRole(sender, p, q, wallet, role)

FormStep(sender, p) ==
  \/ CreateForm(sender, p)
  \/ \E f \in FormId :
       \/ \E active \in BOOLEAN : SetFormActive(sender, p, f, active)
       \/ DeleteForm(sender, p, f)

SignalStep(sender, p) ==
  \/ \E f \in FormId : RegisterSignal(sender, p, f)
  \/ \E n \in SignalId, status \in StatusInput :
       UpdateSignalStatus(sender, p, n, status)

CapStep(sender, p) ==
  \E recipient \in Address :
    \/ TransferProjectOwnerCap(sender, p, recipient)
    \/ \E cap \in CapId : CreateProject(sender, cap, p, recipient)

ProjectNext ==
  /\ \E sender \in Address, p \in ProjectId :
       \/ CapStep(sender, p)
       \/ OwnerStep(sender, p)
       \/ FormStep(sender, p)
       \/ SignalStep(sender, p)
  /\ UNCHANGED accessVars

Next == ProjectNext \/ (AccessNext /\ UNCHANGED projectVars)

Spec == Init /\ [][Next]_vars

-----------------------------------------------------------------------------
(* Properties *)

(* The projects and their capabilities have their types; in particular no  *)
(* member is ever recorded with ROLE_OWNER.                                *)
TypeOK ==
  /\ AccessTypeOK
  /\ project \in [ProjectId -> Project]
  /\ ownerCap \in [ProjectId -> Address \cup {NoHolder}]

(* Every receipt names a form the project still has, whatever the order in *)
(* which managers delete forms and respondents register signals.           *)
ReceiptsReferToForms ==
  \A p \in ProjectId : \A s \in project[p].signals :
    has_form(project[p], s.form_id)

(* Form ids are unique and below the counter, and forms_count is the       *)
(* number of forms: find_form_index, which takes the first match, finds    *)
(* the only one, and delete_project's count test agrees with the vector.   *)
FormsKeepIdentity ==
  \A p \in ProjectId :
    /\ \A f, g \in project[p].forms : f.form_id = g.form_id => f = g
    /\ \A f \in project[p].forms : f.form_id < project[p].next_form_id
    /\ project[p].forms_count = Cardinality(project[p].forms)

(* Signal ids are 0 .. signals_count - 1, each used once: the number a     *)
(* receipt gets from the counter is its position for good.                 *)
ReceiptsAreDense ==
  \A p \in ProjectId :
    /\ {s.signal_id : s \in project[p].signals} = 0..(project[p].signals_count - 1)
    /\ \A s, t \in project[p].signals : s.signal_id = t.signal_id => s = t

(* A wallet has at most one member entry and the owner has none, so        *)
(* find_member_index and the removal by address act on the only entry.     *)
MembersWellFormed ==
  \A p \in ProjectId :
    /\ \A m, n \in project[p].members : m.addr = n.addr => m = n
    /\ \A m \in project[p].members : m.addr # project[p].owner

(* A project exists exactly as long as its capability does: no transaction *)
(* leaves a project nobody can administer or a capability without project. *)
(* And a project that holds receipts exists, with an owner the Seal policy *)
(* approves: no delete takes the key to registered answers away.           *)
ReceiptsStayReadable ==
  \A p \in ProjectId :
    /\ Live(p) <=> ownerCap[p] # NoHolder
    /\ project[p].signals # {} =>
         seal_approve_project_signal(p, p, project[p].owner)

(* A form that is gone stays gone: its id never names another form, so a   *)
(* published link cannot come to point at a different form.                *)
FormIdsNeverReused ==
  [][\A p \in ProjectId : \A f \in project'[p].forms :
       has_form(project[p], f.form_id) \/ f.form_id >= project[p].next_form_id]_vars

(* Removing the member entry of a wallet ends its authority to manage.     *)
(* The run on this property finds a counterexample.                        *)
RemovedMemberCannotManage ==
  [][\A p \in ProjectId, wallet \in Address :
       is_member(project[p], wallet) /\ ~is_member(project'[p], wallet)
         => ~can_manage(project'[p], wallet)]_vars

-----------------------------------------------------------------------------
(* What the registry promises to respondents *)

formStatus(P, f) ==
  CASE f >= P.next_form_id -> "unborn"
    [] \E form \in P.forms : form.form_id = f /\ form.active -> "open"
    [] \E form \in P.forms : form.form_id = f /\ ~form.active -> "closed"
    [] OTHER -> "gone"

Ledger ==
  INSTANCE SignalLedger WITH
    status <- [p \in ProjectId |-> [f \in FormId |-> formStatus(project[p], f)]],
    receipts <- [p \in ProjectId |->
                   {<<s.signal_id, s.form_id>> : s \in project[p].signals}]

(* The registry implements the ledger: whatever the roles, capabilities    *)
(* and counters do, a registered signal keeps its number and its form, an  *)
(* inactive form accepts nothing, and a form with signals is not deleted.  *)
ImplementsLedger == Ledger!LedgerSpec

=============================================================================
