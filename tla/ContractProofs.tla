--------------------------- MODULE ContractProofs ---------------------------
(***************************************************************************)
(* Proofs about the two contracts: AccessControl for every set of wallets  *)
(* and capability ids, and ProjectRegistry for every set of wallets,       *)
(* capabilities and projects and every bound on forms and signals.         *)
(***************************************************************************)
EXTENDS ProjectRegistry, FiniteSetTheorems, TLAPS

-----------------------------------------------------------------------------
(* AccessControl                                                           *)

OwnerCapMinted == registry.owner_cap_id \in Minted

(* Types and the shape of the admin list together are inductive: that a    *)
(* new entry's capability differs from those of the others needs that all  *)
(* listed capabilities are minted.                                         *)
AccessInv == AccessTypeOK /\ AdminsAreWellFormed /\ OwnerCapMinted

LEMMA AccessInitInv == AccessInit => AccessInv
  BY AccessAssumption
  DEF AccessInit, AccessInv, AccessTypeOK, AdminsAreWellFormed, RegistryType,
      OwnerCapMinted, Minted

LEMMA AddAdminInv ==
  ASSUME AccessInv,
         NEW sender \in Address, NEW recipient \in Address,
         NEW cap \in CapId, NEW fresh \in CapId,
         AddAdmin(sender, cap, recipient, fresh)
  PROVE  AccessInv'
<1>1. AccessTypeOK'
  BY DEF AccessInv, AccessTypeOK, RegistryType, AccessEntry, AddAdmin
<1>2. \A c \in CapId : c \in Minted' <=> c \in Minted \/ c = fresh
  BY AccessAssumption DEF AccessInv, AccessTypeOK, AddAdmin, Minted
<1>3. AdminsAreWellFormed'
  BY <1>2 DEF AccessInv, AccessTypeOK, RegistryType, AccessEntry,
              AdminsAreWellFormed, OwnerCapMinted, AddAdmin, contains_address
<1>4. OwnerCapMinted'
  BY <1>2 DEF AccessInv, AccessTypeOK, RegistryType, OwnerCapMinted, AddAdmin
<1> QED  BY <1>1, <1>3, <1>4 DEF AccessInv

LEMMA RemoveAdminInv ==
  ASSUME AccessInv,
         NEW sender \in Address, NEW address \in Address, NEW cap \in CapId,
         RemoveAdmin(sender, cap, address)
  PROVE  AccessInv'
<1>1. AccessTypeOK'
  BY DEF AccessInv, AccessTypeOK, RegistryType, RemoveAdmin
<1>2. Minted' = Minted
  BY DEF RemoveAdmin, Minted
<1>3. AdminsAreWellFormed' /\ OwnerCapMinted'
  BY <1>2 DEF AccessInv, AccessTypeOK, RegistryType, AccessEntry,
              AdminsAreWellFormed, OwnerCapMinted, RemoveAdmin
<1> QED  BY <1>1, <1>3 DEF AccessInv

LEMMA TransferCapInv ==
  ASSUME AccessInv,
         NEW sender \in Address, NEW recipient \in Address, NEW cap \in CapId,
         TransferCap(sender, cap, recipient)
  PROVE  AccessInv'
<1>1. AccessTypeOK'
  BY DEF AccessInv, AccessTypeOK, TransferCap
<1>2. Minted' = Minted
  BY AccessAssumption DEF AccessInv, AccessTypeOK, TransferCap, Presents, Minted
<1>3. AdminsAreWellFormed' /\ OwnerCapMinted'
  BY <1>2 DEF AccessInv, AdminsAreWellFormed, OwnerCapMinted, TransferCap
<1> QED  BY <1>1, <1>3 DEF AccessInv

LEMMA AccessNextInv == AccessInv /\ [AccessNext]_accessVars => AccessInv'
<1> SUFFICES ASSUME AccessInv, [AccessNext]_accessVars
             PROVE  AccessInv'
  OBVIOUS
<1>1. CASE AccessNext
  BY <1>1, AddAdminInv, RemoveAdminInv, TransferCapInv DEF AccessNext
<1>2. CASE UNCHANGED accessVars
  BY <1>2 DEF accessVars, AccessInv, AccessTypeOK, AdminsAreWellFormed,
              OwnerCapMinted, Minted
<1> QED  BY <1>1, <1>2

(* The Registry and the capabilities keep their types. *)
THEOREM AccessTypeCorrect == AccessSpec => []AccessTypeOK
<1>1. AccessInv => AccessTypeOK
  BY DEF AccessInv
<1> QED  BY <1>1, AccessInitInv, AccessNextInv, PTL DEF AccessSpec

(* No wallet and no capability is ever listed twice, and every listed      *)
(* capability exists: remove_admin by address revokes all of a wallet.     *)
THEOREM AdminsStayWellFormed == AccessSpec => []AdminsAreWellFormed
<1>1. AccessInv => AdminsAreWellFormed
  BY DEF AccessInv
<1> QED  BY <1>1, AccessInitInv, AccessNextInv, PTL DEF AccessSpec

(* What a transaction does to authority, in terms of the list and the      *)
(* holders.                                                                *)
OneAuthority ==
  /\ \A w \in Address, c \in Minted : is_admin(w, c)' => is_admin(w, c)
  /\ \A w \in Address : ~(ActsAsAdmin(w)' <=> ActsAsAdmin(w)) =>
       /\ \A other \in Address \ {w} : ActsAsAdmin(other)' <=> ActsAsAdmin(other)
       /\ \/ registry' # registry /\ Presents(registry.owner_address, registry.owner_cap_id)
          \/ \E c \in Minted : is_admin(w, c) /\ is_admin(w, c)' /\ holder'[c] # holder[c]

(* A wallet acts exactly when it holds the capability it is listed with.   *)
LEMMA ActsByEntry ==
  ASSUME AccessTypeOK, NEW w
  PROVE  ActsAsAdmin(w) <=> \E e \in registry.admins : e.address = w /\ holder[e.cap_id] = w
  BY DEF AccessTypeOK, RegistryType, AccessEntry, ActsAsAdmin, is_admin, Presents

LEMMA AddAdminAuthority ==
  ASSUME AccessInv, AccessTypeOK',
         NEW sender \in Address, NEW recipient \in Address,
         NEW cap \in CapId, NEW fresh \in CapId,
         AddAdmin(sender, cap, recipient, fresh)
  PROVE  OneAuthority
<1> DEFINE entry == [address |-> recipient, cap_id |-> fresh]
<1>1. registry'.admins = registry.admins \cup {entry} /\ registry' # registry
  <2>1. registry' = [registry EXCEPT !.admins = @ \cup {entry}]
    BY DEF AddAdmin
  <2>2. entry \notin registry.admins
    BY DEF AddAdmin, contains_address
  <2>3. registry'.admins = registry.admins \cup {entry}
    BY <2>1 DEF AccessInv, AccessTypeOK, RegistryType
  <2> QED  BY <2>2, <2>3
<1>2. \A e \in registry.admins : e.cap_id \in Minted /\ e.cap_id \in CapId
  BY DEF AccessInv, AdminsAreWellFormed, Minted
<1>3. \A c \in Minted : c # fresh /\ holder'[c] = holder[c]
  BY DEF AddAdmin, AccessInv, AccessTypeOK, Minted
<1>4. Presents(registry.owner_address, registry.owner_cap_id)
  BY DEF AddAdmin, is_owner, Presents
<1>5. \A w \in Address, c \in Minted : is_admin(w, c)' => is_admin(w, c)
  BY <1>1, <1>3 DEF is_admin
<1>6. \A w \in Address \ {recipient} : ActsAsAdmin(w)' <=> ActsAsAdmin(w)
  <2> SUFFICES ASSUME NEW w \in Address \ {recipient}
               PROVE  ActsAsAdmin(w)' <=> ActsAsAdmin(w)
    OBVIOUS
  <2>1. ActsAsAdmin(w) <=> \E e \in registry.admins : e.address = w /\ holder[e.cap_id] = w
    BY ActsByEntry DEF AccessInv
  <2>2. ActsAsAdmin(w)' <=> \E e \in registry'.admins : e.address = w /\ holder'[e.cap_id] = w
    BY DEF AccessTypeOK, RegistryType, AccessEntry, ActsAsAdmin, is_admin, Presents
  <2> QED  BY <1>1, <1>2, <1>3, <2>1, <2>2
<1> QED  BY <1>1, <1>4, <1>5, <1>6 DEF OneAuthority

LEMMA RemoveAdminAuthority ==
  ASSUME AccessInv, AccessTypeOK',
         NEW sender \in Address, NEW address \in Address, NEW cap \in CapId,
         RemoveAdmin(sender, cap, address)
  PROVE  OneAuthority
<1>1. PICK e \in registry.admins :
        e.address = address /\ registry'.admins = registry.admins \ {e}
  BY DEF RemoveAdmin, AccessInv, AccessTypeOK, RegistryType
<1>2. registry' # registry /\ holder' = holder
  BY <1>1 DEF RemoveAdmin
<1>3. Presents(registry.owner_address, registry.owner_cap_id)
  BY DEF RemoveAdmin, is_owner, Presents
<1>4. \A w \in Address, c \in Minted : is_admin(w, c)' => is_admin(w, c)
  BY <1>1 DEF is_admin
<1>5. \A w \in Address \ {address} : ActsAsAdmin(w)' <=> ActsAsAdmin(w)
  BY <1>1, <1>2 DEF ActsAsAdmin, is_admin, Presents
<1> QED  BY <1>2, <1>3, <1>4, <1>5 DEF OneAuthority

LEMMA TransferCapAuthority ==
  ASSUME AccessInv, AccessTypeOK',
         NEW sender \in Address, NEW recipient \in Address, NEW cap \in CapId,
         TransferCap(sender, cap, recipient)
  PROVE  OneAuthority
<1>1. registry' = registry /\ holder' = [holder EXCEPT ![cap] = recipient]
  BY DEF TransferCap
<1>2. \A c \in CapId \ {cap} : holder'[c] = holder[c]
  BY <1>1 DEF AccessInv, AccessTypeOK
(* Only who is listed with the capability that moves is concerned.         *)
<1>3. ASSUME NEW w \in Address, ~(ActsAsAdmin(w)' <=> ActsAsAdmin(w))
      PROVE  is_admin(w, cap) /\ holder'[cap] # holder[cap]
  BY <1>1, <1>2, <1>3 DEF ActsAsAdmin, is_admin, Presents
<1>4. ASSUME NEW w \in Address, NEW other \in Address, is_admin(w, cap), is_admin(other, cap)
      PROVE  other = w
  BY <1>4 DEF is_admin, AccessInv, AdminsAreWellFormed
<1>5. cap \in Minted
  BY AccessAssumption DEF TransferCap, Presents, Minted
<1>6. \A w \in Address, c \in CapId : is_admin(w, c)' <=> is_admin(w, c)
  BY <1>1 DEF is_admin
<1> QED  BY <1>3, <1>4, <1>5, <1>6 DEF OneAuthority, Minted

(* The authority of an admin is the owner's to give and to take, one       *)
(* wallet at a time: revoked capabilities stay dead, a listed address      *)
(* without its capability is nobody.                                       *)
THEOREM AuthorityStaysTheOwners == AccessSpec => AuthorityIsTheOwners
<1>1. AccessInv /\ AccessInv' /\ [AccessNext]_accessVars => [OneAuthority]_accessVars
  <2> SUFFICES ASSUME AccessInv, AccessTypeOK', AccessNext
               PROVE  OneAuthority
    BY DEF AccessInv
  <2> QED  BY AddAdminAuthority, RemoveAdminAuthority, TransferCapAuthority DEF AccessNext
<1>2. [][OneAuthority]_accessVars => AuthorityIsTheOwners
  BY PTL DEF OneAuthority, AuthorityIsTheOwners
<1> QED  BY <1>1, <1>2, AccessInitInv, AccessNextInv, PTL DEF AccessSpec

-----------------------------------------------------------------------------
(* ProjectRegistry                                                         *)

(* The inductive invariant, one project at a time. *)
FormsOK(P) ==
  /\ IsFiniteSet(P.forms)
  /\ P.forms_count = Cardinality(P.forms)
  /\ \A f, g \in P.forms : f.form_id = g.form_id => f = g
  /\ \A f \in P.forms : f.form_id < P.next_form_id

SignalsOK(P) ==
  /\ \A s \in P.signals : has_form(P, s.form_id)
  /\ \A n \in Nat : n < P.signals_count <=> \E s \in P.signals : s.signal_id = n
  /\ \A s, t \in P.signals : s.signal_id = t.signal_id => s = t

MembersOK(P) ==
  /\ \A m, n \in P.members : m.addr = n.addr => m = n
  /\ \A m \in P.members : m.addr # P.owner

(* A project that is not shared yet is empty, and one that was deleted     *)
(* holds neither forms nor signals: what delete_project's guard is for.    *)
LifeOK(P) ==
  /\ P.life # "live" => P.forms = {} /\ P.signals = {}
  /\ P.life = "none" => P.next_form_id = 0
  /\ P.life = "live" => P.owner \in Address

ProjectOK(P) ==
  /\ P \in Project
  /\ FormsOK(P) /\ SignalsOK(P) /\ MembersOK(P) /\ LifeOK(P)

CapsOK ==
  /\ ownerCap \in [ProjectId -> Address \cup {NoHolder}]
  /\ \A p \in ProjectId : Live(p) <=> ownerCap[p] # NoHolder

IInv ==
  /\ AccessTypeOK
  /\ project \in [ProjectId -> Project]
  /\ \A p \in ProjectId : ProjectOK(project[p])
  /\ CapsOK

-----------------------------------------------------------------------------
(* Every project transaction rewrites one project and leaves the others. *)

OnlyProject(p, P) == project' = [project EXCEPT ![p] = P]

LEMMA OneProjectInv ==
  ASSUME IInv, NEW p \in ProjectId, NEW P, OnlyProject(p, P), ProjectOK(P),
         P.life = project[p].life, UNCHANGED <<ownerCap, registry, holder>>
  PROVE  IInv'
<1>1. project' \in [ProjectId -> Project]
  BY DEF IInv, OnlyProject, ProjectOK
<1>2. \A q \in ProjectId : ProjectOK(project'[q])
  BY DEF IInv, OnlyProject
<1>3. CapsOK'
  BY DEF IInv, OnlyProject, CapsOK, Live
<1>4. AccessTypeOK'
  BY DEF IInv, AccessTypeOK
<1> QED  BY <1>1, <1>2, <1>3, <1>4 DEF IInv

LEMMA EmptyProjectOK ==
  ASSUME NEW life \in {"none", "live", "deleted"},
         NEW owner \in Address \cup {NoHolder},
         life = "live" => owner \in Address
  PROVE  ProjectOK(EmptyProject(life, owner))
<1> DEFINE P == EmptyProject(life, owner)
<1>1. P \in Project
  BY DEF Project, EmptyProject
<1>2. FormsOK(P)
  BY FS_EmptySet DEF FormsOK, EmptyProject
<1>3. SignalsOK(P) /\ MembersOK(P) /\ LifeOK(P)
  BY DEF SignalsOK, MembersOK, LifeOK, EmptyProject
<1> QED  BY <1>1, <1>2, <1>3 DEF ProjectOK

LEMMA InitInv == Init => IInv
<1> SUFFICES ASSUME Init PROVE IInv
  OBVIOUS
<1>1. AccessTypeOK
  BY AccessAssumption DEF Init, AccessInit, AccessTypeOK, RegistryType
<1>2. ProjectOK(EmptyProject("none", NoHolder))
  BY EmptyProjectOK
<1>3. \A p \in ProjectId : ProjectOK(project[p])
  BY <1>2 DEF Init
<1>4. project \in [ProjectId -> Project]
  BY <1>2 DEF Init, ProjectOK
<1>5. CapsOK
  BY DEF Init, CapsOK, Live, EmptyProject
<1> QED  BY <1>1, <1>3, <1>4, <1>5 DEF IInv

-----------------------------------------------------------------------------
(* Projects appear and disappear together with their capability. *)

LEMMA CreateProjectInv ==
  ASSUME IInv, UNCHANGED accessVars,
         NEW sender \in Address, NEW cap \in CapId,
         NEW p \in ProjectId, NEW recipient \in Address,
         CreateProject(sender, cap, p, recipient)
  PROVE  IInv'
<1>1. ProjectOK(EmptyProject("live", sender))
  BY EmptyProjectOK
<1>2. project' = [project EXCEPT ![p] = EmptyProject("live", sender)]
  BY DEF CreateProject
<1>3. project' \in [ProjectId -> Project] /\ \A q \in ProjectId : ProjectOK(project'[q])
  BY <1>1, <1>2 DEF IInv, ProjectOK
<1>4. EmptyProject("live", sender).life = "live"
  BY DEF EmptyProject
<1>5. CapsOK'
  BY <1>2, <1>4, AccessAssumption DEF IInv, CapsOK, Live, CreateProject
<1>6. AccessTypeOK'
  BY DEF IInv, AccessTypeOK, accessVars
<1> QED  BY <1>3, <1>5, <1>6 DEF IInv

LEMMA TransferProjectOwnerCapInv ==
  ASSUME IInv, UNCHANGED accessVars,
         NEW sender \in Address, NEW p \in ProjectId, NEW recipient \in Address,
         TransferProjectOwnerCap(sender, p, recipient)
  PROVE  IInv'
<1>1. CapsOK'
  BY AccessAssumption DEF IInv, CapsOK, Live, TransferProjectOwnerCap
<1>2. AccessTypeOK'
  BY DEF IInv, AccessTypeOK, accessVars
<1> QED  BY <1>1, <1>2 DEF IInv, TransferProjectOwnerCap

LEMMA DeleteProjectInv ==
  ASSUME IInv, UNCHANGED accessVars,
         NEW sender \in Address, NEW p \in ProjectId, NEW q \in ProjectId,
         DeleteProject(sender, p, q)
  PROVE  IInv'
<1> DEFINE P == [project[p] EXCEPT !.life = "deleted"]
<1>1. project' = [project EXCEPT ![p] = P]
  BY DEF DeleteProject
<1>2. project[p] \in Project /\ ProjectOK(project[p])
  BY DEF IInv
<1>3. P \in Project
  BY <1>2 DEF Project
<1>4. FormsOK(P) /\ SignalsOK(P) /\ MembersOK(P) /\ LifeOK(P)
  BY <1>2 DEF Project, ProjectOK, FormsOK, SignalsOK, MembersOK, LifeOK, has_form,
              DeleteProject
<1>5. project' \in [ProjectId -> Project] /\ \A r \in ProjectId : ProjectOK(project'[r])
  BY <1>1, <1>3, <1>4 DEF IInv, ProjectOK
<1>6. P.life = "deleted"
  BY <1>2 DEF Project
<1>7. CapsOK'
  BY <1>1, <1>6, AccessAssumption
  DEF IInv, CapsOK, Live, DeleteProject, assert_project_owner
<1>8. AccessTypeOK'
  BY DEF IInv, AccessTypeOK, accessVars
<1> QED  BY <1>5, <1>7, <1>8 DEF IInv

-----------------------------------------------------------------------------
(* Admins and members *)

LEMMA AdminsInv ==
  ASSUME IInv, UNCHANGED accessVars,
         NEW sender \in Address, NEW p \in ProjectId, NEW q \in ProjectId,
         NEW wallet \in Address,
         \/ AddProjectAdmin(sender, p, q, wallet)
         \/ RemoveProjectAdmin(sender, p, q, wallet)
  PROVE  IInv'
<1> PICK A \in SUBSET Address : project' = [project EXCEPT ![p].admins = A]
  BY DEF AddProjectAdmin, RemoveProjectAdmin, IInv, Project
<1> DEFINE P == [project[p] EXCEPT !.admins = A]
<1>1. ProjectOK(project[p])
  BY DEF IInv
<1>2. ProjectOK(P)
  BY <1>1 DEF ProjectOK, Project, FormsOK, SignalsOK, MembersOK, LifeOK, has_form
<1>3. OnlyProject(p, P) /\ P.life = project[p].life
  BY <1>1 DEF OnlyProject, ProjectOK, Project
<1>4. UNCHANGED <<ownerCap, registry, holder>>
  BY DEF AddProjectAdmin, RemoveProjectAdmin, accessVars
<1> QED  BY <1>2, <1>3, <1>4, OneProjectInv

LEMMA MembersInv ==
  ASSUME IInv, UNCHANGED <<ownerCap, registry, holder>>,
         NEW p \in ProjectId, NEW M \in SUBSET Member,
         project' = [project EXCEPT ![p].members = M],
         MembersOK([project[p] EXCEPT !.members = M])
  PROVE  IInv'
<1> DEFINE P == [project[p] EXCEPT !.members = M]
<1>1. ProjectOK(project[p])
  BY DEF IInv
<1>2. ProjectOK(P)
  BY <1>1 DEF ProjectOK, Project, FormsOK, SignalsOK, LifeOK, has_form
<1>3. OnlyProject(p, P) /\ P.life = project[p].life
  BY <1>1 DEF OnlyProject, ProjectOK, Project
<1> QED  BY <1>2, <1>3, OneProjectInv

LEMMA AddProjectMemberInv ==
  ASSUME IInv, UNCHANGED accessVars,
         NEW sender \in Address, NEW p \in ProjectId, NEW q \in ProjectId,
         NEW wallet \in Address, NEW role \in 0..2,
         AddProjectMember(sender, p, q, wallet, role)
  PROVE  IInv'
<1> DEFINE M == project[p].members \cup {[addr |-> wallet, role |-> role]}
<1>1. ProjectOK(project[p])
  BY DEF IInv
<1>2. project' = [project EXCEPT ![p].members = M]
  BY DEF AddProjectMember
<1>3. M \in SUBSET Member
  BY <1>1 DEF ProjectOK, Project, Member, AddProjectMember, ROLE_OWNER,
              ROLE_CO_ADMIN, ROLE_REVIEWER
<1>4. MembersOK([project[p] EXCEPT !.members = M])
  BY <1>1 DEF ProjectOK, Project, Member, MembersOK, AddProjectMember, is_member
<1>5. UNCHANGED <<ownerCap, registry, holder>>
  BY DEF AddProjectMember, accessVars
<1> QED  BY <1>2, <1>3, <1>4, <1>5, MembersInv

LEMMA UpdateProjectMemberRoleInv ==
  ASSUME IInv, UNCHANGED accessVars,
         NEW sender \in Address, NEW p \in ProjectId, NEW q \in ProjectId,
         NEW wallet \in Address, NEW role \in 0..2,
         UpdateProjectMemberRole(sender, p, q, wallet, role)
  PROVE  IInv'
<1>1. ProjectOK(project[p])
  BY DEF IInv
<1>2. PICK m \in project[p].members :
        /\ m.addr = wallet
        /\ project' = [project EXCEPT ![p].members =
                         (@ \ {m}) \cup {[m EXCEPT !.role = role]}]
  BY DEF UpdateProjectMemberRole
<1> DEFINE M == (project[p].members \ {m}) \cup {[m EXCEPT !.role = role]}
<1>3. m \in Member
  BY <1>1, <1>2 DEF ProjectOK, Project
<1>4. M \in SUBSET Member
  BY <1>1, <1>3 DEF ProjectOK, Project, Member, UpdateProjectMemberRole, ROLE_OWNER,
                    ROLE_CO_ADMIN, ROLE_REVIEWER
<1>5. MembersOK([project[p] EXCEPT !.members = M])
  BY <1>1, <1>2, <1>3 DEF ProjectOK, Project, Member, MembersOK
<1>6. UNCHANGED <<ownerCap, registry, holder>>
  BY DEF UpdateProjectMemberRole, accessVars
<1> QED  BY <1>2, <1>4, <1>5, <1>6, MembersInv

LEMMA RemoveProjectMemberInv ==
  ASSUME IInv, UNCHANGED accessVars,
         NEW sender \in Address, NEW p \in ProjectId, NEW q \in ProjectId,
         NEW wallet \in Address,
         RemoveProjectMember(sender, p, q, wallet)
  PROVE  IInv'
<1>1. ProjectOK(project[p])
  BY DEF IInv
<1>2. UNCHANGED <<ownerCap, registry, holder>>
  BY DEF RemoveProjectMember, accessVars
<1>3. CASE \E m \in project[p].members :
             project' = [project EXCEPT ![p].members = @ \ {m}]
  <2>1. PICK m \in project[p].members :
          project' = [project EXCEPT ![p].members = @ \ {m}]
    BY <1>3
  <2>2. project[p].members \ {m} \in SUBSET Member
    BY <1>1 DEF ProjectOK, Project
  <2>3. MembersOK([project[p] EXCEPT !.members = @ \ {m}])
    BY <1>1 DEF ProjectOK, Project, MembersOK
  <2> QED  BY <1>2, <2>1, <2>2, <2>3, MembersInv
<1>4. CASE project' = [project EXCEPT ![p].admins = @ \ {wallet}]
  <2> DEFINE P == [project[p] EXCEPT !.admins = @ \ {wallet}]
  <2>1. ProjectOK(P)
    BY <1>1 DEF ProjectOK, Project, FormsOK, SignalsOK, MembersOK, LifeOK, has_form
  <2>2. OnlyProject(p, P) /\ P.life = project[p].life
    BY <1>1, <1>4 DEF OnlyProject, ProjectOK, Project
  <2> QED  BY <1>2, <2>1, <2>2, OneProjectInv
<1> QED  BY <1>3, <1>4 DEF RemoveProjectMember

-----------------------------------------------------------------------------
(* Forms *)

LEMMA CreateFormInv ==
  ASSUME IInv, UNCHANGED accessVars,
         NEW sender \in Address, NEW p \in ProjectId, CreateForm(sender, p)
  PROVE  IInv'
<1> DEFINE id == project[p].next_form_id
           forms == project[p].forms \cup {NewForm(id)}
           P == [project[p] EXCEPT !.next_form_id = id + 1, !.forms = forms,
                                   !.forms_count = Cardinality(forms)]
<1>1. ProjectOK(project[p]) /\ project[p] \in Project /\ id \in Nat
  BY DEF IInv, Project
<1>2. IsFiniteSet(forms) /\ Cardinality(forms) \in Nat
  BY <1>1, FS_AddElement, FS_CardinalityType DEF ProjectOK, FormsOK
<1>3. forms \in SUBSET Form
  <2>1. NewForm(id) \in Form
    BY <1>1 DEF Form, NewForm
  <2>2. project[p].forms \in SUBSET Form
    BY <1>1 DEF Project
  <2> QED  BY <2>1, <2>2
<1>4. P \in Project
  <2> DEFINE count == Cardinality(forms)
  <2> HIDE DEF forms, count
  <2> SUFFICES [project[p] EXCEPT !.next_form_id = id + 1, !.forms = forms,
                                  !.forms_count = count] \in Project
    BY DEF count
  <2>1. count \in Nat /\ id + 1 \in Nat
    BY <1>1, <1>2 DEF count
  <2> QED  BY <1>1, <1>3, <2>1 DEF Project
<1>5. FormsOK(P)
  BY <1>1, <1>2, <1>3 DEF Project, ProjectOK, FormsOK, NewForm, Form
<1>6. SignalsOK(P) /\ MembersOK(P) /\ LifeOK(P)
  BY <1>1 DEF Project, ProjectOK, SignalsOK, MembersOK, LifeOK, has_form,
              CreateForm, Live
<1>7. OnlyProject(p, P) /\ P.life = project[p].life
  BY <1>1 DEF CreateForm, OnlyProject, Project, IInv
<1>8. UNCHANGED <<ownerCap, registry, holder>>
  BY DEF CreateForm, accessVars
<1> QED  BY <1>4, <1>5, <1>6, <1>7, <1>8, OneProjectInv DEF ProjectOK

LEMMA SetFormActiveInv ==
  ASSUME IInv, UNCHANGED accessVars,
         NEW sender \in Address, NEW p \in ProjectId, NEW f \in FormId,
         NEW active \in BOOLEAN, SetFormActive(sender, p, f, active)
  PROVE  IInv'
<1>1. ProjectOK(project[p]) /\ project[p] \in Project
  BY DEF IInv
<1>2. PICK form \in project[p].forms :
        /\ form.form_id = f
        /\ project' = [project EXCEPT ![p].forms =
                         (@ \ {form}) \cup {[form EXCEPT !.active = active]}]
  BY DEF SetFormActive
<1> DEFINE new == [form EXCEPT !.active = active]
           rest == project[p].forms \ {form}
           forms == rest \cup {new}
           P == [project[p] EXCEPT !.forms = forms]
<1>3. form \in Form /\ new \in Form /\ new.form_id = form.form_id
  BY <1>1, <1>2 DEF Project, Form
<1>4. new \notin rest
  BY <1>1, <1>2, <1>3 DEF ProjectOK, FormsOK
<1>5. /\ IsFiniteSet(forms)
      /\ Cardinality(forms) = Cardinality(project[p].forms)
  <2>1. IsFiniteSet(project[p].forms)
    BY <1>1 DEF ProjectOK, FormsOK
  <2>2. IsFiniteSet(rest) /\ Cardinality(rest) = Cardinality(project[p].forms) - 1
    BY <1>2, <2>1, FS_RemoveElement
  <2>3. IsFiniteSet(forms) /\ Cardinality(forms) = Cardinality(rest) + 1
    BY <1>4, <2>2, FS_AddElement
  <2>4. Cardinality(project[p].forms) \in Nat
    BY <2>1, FS_CardinalityType
  <2> QED  BY <2>2, <2>3, <2>4
<1>6. P \in Project
  BY <1>1, <1>3 DEF Project
<1>7. FormsOK(P)
  BY <1>1, <1>2, <1>3, <1>5 DEF Project, ProjectOK, FormsOK
<1>8. SignalsOK(P)
  BY <1>1, <1>2, <1>3 DEF Project, ProjectOK, SignalsOK, has_form
<1>9. MembersOK(P) /\ LifeOK(P)
  BY <1>1 DEF Project, ProjectOK, MembersOK, LifeOK, SetFormActive, Live
<1>10. OnlyProject(p, P) /\ P.life = project[p].life
  BY <1>1, <1>2 DEF OnlyProject, Project
<1>11. UNCHANGED <<ownerCap, registry, holder>>
  BY DEF SetFormActive, accessVars
<1> QED  BY <1>6, <1>7, <1>8, <1>9, <1>10, <1>11, OneProjectInv DEF ProjectOK

LEMMA DeleteFormInv ==
  ASSUME IInv, UNCHANGED accessVars,
         NEW sender \in Address, NEW p \in ProjectId, NEW f \in FormId,
         DeleteForm(sender, p, f)
  PROVE  IInv'
<1>1. ProjectOK(project[p]) /\ project[p] \in Project
  BY DEF IInv
<1>2. PICK form \in project[p].forms :
        /\ form.form_id = f
        /\ project' = [project EXCEPT
             ![p].forms = @ \ {form},
             ![p].forms_count = Cardinality(project[p].forms \ {form})]
  BY DEF DeleteForm
<1> DEFINE forms == project[p].forms \ {form}
           P == [project[p] EXCEPT !.forms = forms, !.forms_count = Cardinality(forms)]
<1>3. IsFiniteSet(forms) /\ Cardinality(forms) \in Nat
  BY <1>1, FS_RemoveElement, FS_CardinalityType DEF ProjectOK, FormsOK
<1>4. P \in Project
  BY <1>1, <1>3 DEF Project
<1>5. FormsOK(P)
  BY <1>1, <1>3 DEF Project, ProjectOK, FormsOK
<1>6. SignalsOK(P)
  BY <1>1, <1>2 DEF Project, ProjectOK, SignalsOK, has_form, form_has_signals, DeleteForm
<1>7. MembersOK(P) /\ LifeOK(P)
  BY <1>1 DEF Project, ProjectOK, MembersOK, LifeOK
<1>8. OnlyProject(p, P) /\ P.life = project[p].life
  BY <1>1, <1>2 DEF OnlyProject, Project, IInv
<1>9. UNCHANGED <<ownerCap, registry, holder>>
  BY DEF DeleteForm, accessVars
<1> QED  BY <1>4, <1>5, <1>6, <1>7, <1>8, <1>9, OneProjectInv DEF ProjectOK

-----------------------------------------------------------------------------
(* Signals *)

LEMMA RegisterSignalInv ==
  ASSUME IInv, UNCHANGED accessVars,
         NEW sender \in Address, NEW p \in ProjectId, NEW f \in FormId,
         RegisterSignal(sender, p, f)
  PROVE  IInv'
<1> DEFINE id == project[p].signals_count
           new == NewReceipt(id, f, sender)
           P == [project[p] EXCEPT !.signals = @ \cup {new}, !.signals_count = id + 1]
<1>1. ProjectOK(project[p]) /\ project[p] \in Project /\ id \in Nat /\ f \in Nat
  BY ProjectAssumption DEF IInv, Project, FormId
<1>2. new \in SignalReceipt /\ new.signal_id = id /\ new.form_id = f
  BY <1>1 DEF SignalReceipt, NewReceipt, SIGNAL_STATUS_NEW
<1>3. P \in Project
  <2> HIDE DEF new
  <2>1. project[p].signals \cup {new} \in SUBSET SignalReceipt
    BY <1>1, <1>2 DEF Project
  <2>2. id + 1 \in Nat
    BY <1>1
  <2> QED  BY <1>1, <2>1, <2>2 DEF Project
<1>4. FormsOK(P) /\ MembersOK(P) /\ LifeOK(P)
  BY <1>1 DEF Project, ProjectOK, FormsOK, MembersOK, LifeOK, RegisterSignal, Live
<1>5. SignalsOK(P)
  <2>1. P.forms = project[p].forms /\ P.signals = project[p].signals \cup {new}
        /\ P.signals_count = id + 1
    BY <1>1 DEF Project
  <2>2. \A s \in P.signals : has_form(P, s.form_id)
    BY <1>1, <1>2, <2>1 DEF ProjectOK, SignalsOK, has_form, RegisterSignal
  <2>3. \A n \in Nat : n < P.signals_count <=> \E s \in P.signals : s.signal_id = n
    BY <1>1, <1>2, <2>1 DEF ProjectOK, SignalsOK
  <2>4. \A s \in project[p].signals : s.signal_id # id
    BY <1>1 DEF ProjectOK, SignalsOK
  <2>5. \A s, t \in P.signals : s.signal_id = t.signal_id => s = t
    BY <1>1, <1>2, <2>1, <2>4 DEF ProjectOK, SignalsOK
  <2> QED  BY <2>2, <2>3, <2>5 DEF SignalsOK
<1>6. OnlyProject(p, P) /\ P.life = project[p].life
  BY <1>1 DEF OnlyProject, Project, RegisterSignal, IInv
<1>7. UNCHANGED <<ownerCap, registry, holder>>
  BY DEF RegisterSignal, accessVars
<1> QED  BY <1>3, <1>4, <1>5, <1>6, <1>7, OneProjectInv DEF ProjectOK

LEMMA UpdateSignalStatusInv ==
  ASSUME IInv, UNCHANGED accessVars,
         NEW sender \in Address, NEW p \in ProjectId, NEW n \in SignalId,
         NEW status \in StatusInput, UpdateSignalStatus(sender, p, n, status)
  PROVE  IInv'
<1>1. ProjectOK(project[p]) /\ project[p] \in Project
  BY DEF IInv
<1>2. PICK s \in project[p].signals :
        /\ s.signal_id = n
        /\ project' = [project EXCEPT ![p].signals =
                         (@ \ {s}) \cup {[s EXCEPT !.status = status]}]
  BY DEF UpdateSignalStatus
<1> DEFINE new == [s EXCEPT !.status = status]
           signals == (project[p].signals \ {s}) \cup {new}
           P == [project[p] EXCEPT !.signals = signals]
<1>3. /\ s \in SignalReceipt /\ new \in SignalReceipt
      /\ new.signal_id = s.signal_id /\ new.form_id = s.form_id
  BY <1>1, <1>2, ProjectAssumption DEF Project, SignalReceipt
<1>4. P \in Project
  BY <1>1, <1>3 DEF Project
<1>5. FormsOK(P) /\ MembersOK(P) /\ LifeOK(P)
  BY <1>1 DEF Project, ProjectOK, FormsOK, MembersOK, LifeOK, UpdateSignalStatus, Live
<1>6. SignalsOK(P)
  <2>1. P.forms = project[p].forms /\ P.signals = signals
        /\ P.signals_count = project[p].signals_count
    BY <1>1 DEF Project
  <2>2. \A t \in P.signals : \E u \in project[p].signals :
          t.signal_id = u.signal_id /\ t.form_id = u.form_id
    BY <1>2, <1>3, <2>1
  <2>3. \A u \in project[p].signals : \E t \in P.signals : t.signal_id = u.signal_id
    BY <1>2, <1>3, <2>1
  <2>4. \A t, u \in P.signals : t.signal_id = u.signal_id => t = u
    <3>1. \A t, u \in project[p].signals : t.signal_id = u.signal_id => t = u
      BY <1>1 DEF ProjectOK, SignalsOK
    <3>2. \A t \in P.signals : t = new \/ (t \in project[p].signals /\ t # s)
      BY <2>1
    <3>3. \A t \in project[p].signals : t.signal_id = new.signal_id => t = s
      BY <1>2, <1>3, <3>1
    <3> HIDE DEF new, P
    <3> QED  BY <3>1, <3>2, <3>3
  <2>5. \A t \in P.signals : has_form(P, t.form_id)
    BY <1>1, <2>1, <2>2 DEF ProjectOK, SignalsOK, has_form
  <2>6. \A m \in Nat : m < P.signals_count <=> \E t \in P.signals : t.signal_id = m
    BY <1>1, <2>1, <2>2, <2>3 DEF ProjectOK, SignalsOK
  <2> QED  BY <2>4, <2>5, <2>6 DEF SignalsOK
<1>7. OnlyProject(p, P) /\ P.life = project[p].life
  BY <1>1, <1>2 DEF OnlyProject, Project
<1>8. UNCHANGED <<ownerCap, registry, holder>>
  BY DEF UpdateSignalStatus, accessVars
<1> QED  BY <1>4, <1>5, <1>6, <1>7, <1>8, OneProjectInv DEF ProjectOK

-----------------------------------------------------------------------------
(* The inductive step *)

LEMMA ProjectNextInv == IInv /\ ProjectNext => IInv'
<1> SUFFICES ASSUME IInv, ProjectNext
             PROVE  IInv'
  OBVIOUS
<1> PICK sender \in Address, p \in ProjectId :
      \/ CapStep(sender, p)
      \/ OwnerStep(sender, p)
      \/ FormStep(sender, p)
      \/ SignalStep(sender, p)
  BY DEF ProjectNext
<1>1. UNCHANGED accessVars
  BY DEF ProjectNext
<1>2. CASE CapStep(sender, p)
  BY <1>1, <1>2, CreateProjectInv, TransferProjectOwnerCapInv DEF CapStep
<1>3. CASE OwnerStep(sender, p)
  BY <1>1, <1>3, DeleteProjectInv, AdminsInv, AddProjectMemberInv,
     RemoveProjectMemberInv, UpdateProjectMemberRoleInv DEF OwnerStep
<1>4. CASE FormStep(sender, p)
  BY <1>1, <1>4, CreateFormInv, SetFormActiveInv, DeleteFormInv DEF FormStep
<1>5. CASE SignalStep(sender, p)
  BY <1>1, <1>5, RegisterSignalInv, UpdateSignalStatusInv DEF SignalStep
<1> QED  BY <1>2, <1>3, <1>4, <1>5

LEMMA NextInv == IInv /\ [Next]_vars => IInv'
<1> SUFFICES ASSUME IInv, [Next]_vars
             PROVE  IInv'
  OBVIOUS
<1>1. CASE ProjectNext
  BY <1>1, ProjectNextInv
<1>2. CASE AccessNext /\ UNCHANGED projectVars
  <2>1. AccessTypeOK'
    BY <1>2 DEF IInv, AccessTypeOK, RegistryType, AccessEntry, AccessNext,
                AddAdmin, RemoveAdmin, TransferCap
  <2> QED  BY <1>2, <2>1 DEF IInv, CapsOK, Live, projectVars
<1>3. CASE UNCHANGED vars
  BY <1>3 DEF IInv, AccessTypeOK, CapsOK, Live, vars
<1> QED  BY <1>1, <1>2, <1>3 DEF Next

LEMMA Invariance == Spec => []IInv
  BY InitInv, NextInv, PTL DEF Spec

-----------------------------------------------------------------------------
(* Theorems *)

(* Every variable keeps its type; no member has a role but co-admin or     *)
(* reviewer.                                                               *)
THEOREM TypeCorrect == Spec => []TypeOK
<1>1. IInv => TypeOK
  BY DEF IInv, TypeOK, CapsOK
<1> QED  BY <1>1, Invariance, PTL

(* Referential integrity: every receipt's form exists.  delete_form alone  *)
(* keeps it by its guard; that register_signal does needs form ids to be   *)
(* unique, and set_form_active and the shared counters not to disturb them.*)
THEOREM ReceiptsKeepTheirForm == Spec => []ReceiptsReferToForms
<1>1. IInv => ReceiptsReferToForms
  BY DEF IInv, ProjectOK, SignalsOK, ReceiptsReferToForms
<1> QED  BY <1>1, Invariance, PTL

(* Form ids are unique, below the counter, and counted. *)
THEOREM FormIdentity == Spec => []FormsKeepIdentity
<1>1. IInv => FormsKeepIdentity
  BY DEF IInv, ProjectOK, FormsOK, FormsKeepIdentity
<1> QED  BY <1>1, Invariance, PTL

(* Signal ids are exactly 0 .. signals_count - 1, each used once. *)
THEOREM ReceiptNumbering == Spec => []ReceiptsAreDense
<1>1. IInv => ReceiptsAreDense
  <2> SUFFICES ASSUME IInv, NEW p \in ProjectId
               PROVE  /\ {s.signal_id : s \in project[p].signals}
                           = 0..(project[p].signals_count - 1)
                      /\ \A s, t \in project[p].signals :
                           s.signal_id = t.signal_id => s = t
    BY DEF ReceiptsAreDense
  <2>1. project[p] \in Project /\ SignalsOK(project[p])
    BY DEF IInv, ProjectOK
  <2>2. /\ project[p].signals_count \in Nat
        /\ \A s \in project[p].signals : s.signal_id \in Nat
    BY <2>1 DEF Project, SignalReceipt
  <2> QED  BY <2>1, <2>2 DEF SignalsOK
<1> QED  BY <1>1, Invariance, PTL

(* One entry per member wallet, none for the owner. *)
THEOREM MembersStayWellFormed == Spec => []MembersWellFormed
<1>1. IInv => MembersWellFormed
  BY DEF IInv, ProjectOK, MembersOK, MembersWellFormed
<1> QED  BY <1>1, Invariance, PTL

(* A project lives exactly as long as its owner capability, and registered *)
(* answers never lose the project whose Seal policy releases their key.    *)
THEOREM ReadableForEver == Spec => []ReceiptsStayReadable
<1>1. IInv => ReceiptsStayReadable
  BY DEF IInv, CapsOK, ProjectOK, LifeOK, ReceiptsStayReadable,
         seal_approve_project_signal, can_review, can_manage, is_project_owner, Live
<1> QED  BY <1>1, Invariance, PTL

-----------------------------------------------------------------------------
(* Refinement: the registry implements the ledger *)

StatusOf(P) == [f \in FormId |-> formStatus(P, f)]
ReceiptsOf(P) == {<<s.signal_id, s.form_id>> : s \in P.signals}

LEMMA FormStatusValues ==
  ASSUME NEW P \in Project, FormsOK(P), NEW f \in FormId
  PROVE  /\ formStatus(P, f) = "unborn" <=> f >= P.next_form_id
         /\ formStatus(P, f) = "open" <=>
              \E form \in P.forms : form.form_id = f /\ form.active
         /\ formStatus(P, f) = "closed" <=>
              \E form \in P.forms : form.form_id = f /\ ~form.active
         /\ formStatus(P, f) \in {"unborn", "open", "closed", "gone"}
<1>1. f \in Nat /\ P.next_form_id \in Nat
  BY ProjectAssumption DEF FormId, Project
<1>2. \A form \in P.forms : form.form_id = f => ~(f >= P.next_form_id)
  BY <1>1 DEF FormsOK
<1>3. \A form, g \in P.forms : form.form_id = f /\ g.form_id = f => form = g
  BY DEF FormsOK
<1>4. CASE f >= P.next_form_id
  BY <1>2, <1>4 DEF formStatus
<1>5. CASE /\ ~(f >= P.next_form_id)
           /\ \E form \in P.forms : form.form_id = f /\ form.active
  BY <1>3, <1>5 DEF formStatus
<1>6. CASE /\ ~(f >= P.next_form_id)
           /\ \E form \in P.forms : form.form_id = f /\ ~form.active
  BY <1>3, <1>6 DEF formStatus
<1>7. CASE /\ ~(f >= P.next_form_id)
           /\ ~\E form \in P.forms : form.form_id = f
  BY <1>7 DEF formStatus
<1> QED  BY <1>4, <1>5, <1>6, <1>7

(* Equal forms and counters give equal statuses. *)
LEMMA SameStatus ==
  ASSUME NEW P, NEW Q, P.forms = Q.forms, P.next_form_id = Q.next_form_id
  PROVE  StatusOf(P) = StatusOf(Q)
  BY DEF StatusOf, formStatus

(* A step whose view of project p is unchanged maps to a stutter. *)
LEMMA StutterStep ==
  ASSUME IInv, NEW p \in ProjectId, NEW P, OnlyProject(p, P),
         StatusOf(P) = StatusOf(project[p]),
         ReceiptsOf(P) = ReceiptsOf(project[p])
  PROVE  UNCHANGED Ledger!ledgerVars
<1>1. \A q \in ProjectId : /\ StatusOf(project'[q]) = StatusOf(project[q])
                           /\ ReceiptsOf(project'[q]) = ReceiptsOf(project[q])
  BY DEF IInv, OnlyProject
<1> QED  BY <1>1 DEF Ledger!ledgerVars, StatusOf, ReceiptsOf

viewStatus == [p \in ProjectId |-> StatusOf(project[p])]
viewReceipts == [p \in ProjectId |-> ReceiptsOf(project[p])]

LEMMA ViewStep ==
  ASSUME IInv, NEW p \in ProjectId, NEW P, OnlyProject(p, P)
  PROVE  /\ viewStatus' = [viewStatus EXCEPT ![p] = StatusOf(P)]
         /\ viewReceipts' = [viewReceipts EXCEPT ![p] = ReceiptsOf(P)]
<1>1. project'[p] = P /\ \A q \in ProjectId : q # p => project'[q] = project[q]
  BY DEF IInv, OnlyProject
<1>2. viewStatus' = [q \in ProjectId |-> StatusOf(project'[q])]
  BY DEF viewStatus, StatusOf, formStatus
<1>3. viewReceipts' = [q \in ProjectId |-> ReceiptsOf(project'[q])]
  BY DEF viewReceipts, ReceiptsOf
<1> QED  BY <1>1, <1>2, <1>3 DEF viewStatus, viewReceipts

(* The instance's variables are these views. *)
LEMMA LedgerViews ==
  ASSUME NEW p \in ProjectId, NEW f \in FormId
  PROVE
  /\ Ledger!Birth(p, f) <=>
       /\ viewStatus[p][f] = "unborn"
       /\ viewStatus' = [viewStatus EXCEPT ![p][f] = "open"]
       /\ viewReceipts' = viewReceipts
  /\ Ledger!Toggle(p, f) <=>
       /\ viewStatus[p][f] \in {"open", "closed"}
       /\ \E s \in {"open", "closed"} : viewStatus' = [viewStatus EXCEPT ![p][f] = s]
       /\ viewReceipts' = viewReceipts
  /\ Ledger!Withdraw(p, f) <=>
       /\ viewStatus[p][f] \in {"open", "closed"}
       /\ \A r \in viewReceipts[p] : r[2] # f
       /\ viewStatus' = [viewStatus EXCEPT ![p][f] = "gone"]
       /\ viewReceipts' = viewReceipts
  BY DEF Ledger!Birth, Ledger!Toggle, Ledger!Withdraw,
         viewStatus, viewReceipts, StatusOf, ReceiptsOf

LEMMA AcceptView ==
  ASSUME NEW p \in ProjectId, NEW f \in FormId, NEW n \in SignalId,
         viewStatus[p][f] = "open",
         \A r \in viewReceipts[p] : r[1] # n,
         viewReceipts' = [viewReceipts EXCEPT ![p] = @ \cup {<<n, f>>}],
         viewStatus' = viewStatus
  PROVE  Ledger!LedgerNext
<1>1. Ledger!Accept(p, f, n)
  BY DEF Ledger!Accept, viewStatus, viewReceipts, StatusOf, ReceiptsOf
<1>2. \E m \in SignalId : Ledger!Accept(p, f, m)
  BY <1>1
<1> QED  BY <1>2 DEF Ledger!LedgerNext

(* create_form gives birth to form next_form_id. *)
LEMMA CreateFormLedger ==
  ASSUME IInv, NEW sender \in Address, NEW p \in ProjectId, CreateForm(sender, p), IInv'
  PROVE  Ledger!LedgerNext
<1> DEFINE P == project'[p]
           id == project[p].next_form_id
<1>1. /\ project[p] \in Project /\ FormsOK(project[p])
      /\ P \in Project /\ FormsOK(P)
  BY DEF IInv, ProjectOK
<1>2. id \in FormId
  BY <1>1, ProjectAssumption DEF CreateForm, FormId, Project
<1>3. /\ P.forms = project[p].forms \cup {NewForm(id)}
      /\ P.next_form_id = id + 1
      /\ P.signals = project[p].signals
  BY <1>1 DEF CreateForm, IInv, Project
<1>4. OnlyProject(p, P)
  BY DEF CreateForm, OnlyProject, IInv
<1> HIDE DEF P
<1>5. formStatus(project[p], id) = "unborn"
  BY <1>1, <1>2, FormStatusValues DEF Project
<1>6. StatusOf(P) = [StatusOf(project[p]) EXCEPT ![id] = "open"]
  <2>1. formStatus(P, id) = "open"
    <3>1. \E form \in P.forms : form.form_id = id /\ form.active
      <4>1. NewForm(id).form_id = id /\ NewForm(id).active = TRUE
        BY DEF NewForm
      <4>2. NewForm(id) \in P.forms
        BY <1>3
      <4> QED  BY <4>1, <4>2
    <3> QED  BY <1>1, <1>2, <3>1, FormStatusValues
  <2>2. \A f \in FormId \ {id} : formStatus(P, f) = formStatus(project[p], f)
    <3> TAKE f \in FormId \ {id}
    <3>1. f \in Nat /\ id \in Nat
      BY <1>2, ProjectAssumption DEF FormId
    <3>2. f >= P.next_form_id <=> f >= id
      BY <1>3, <3>1
    <3>3. \A form : form \in P.forms /\ form.form_id = f
                     <=> form \in project[p].forms /\ form.form_id = f
      BY <1>3 DEF NewForm
    <3> QED  BY <3>2, <3>3 DEF formStatus
  <2> QED  BY <2>1, <2>2, <1>2 DEF StatusOf
<1>7. ReceiptsOf(P) = ReceiptsOf(project[p])
  BY <1>3 DEF ReceiptsOf
<1>8. viewStatus[p][id] = "unborn"
  BY <1>2, <1>5 DEF viewStatus, StatusOf
<1>9. viewStatus' = [viewStatus EXCEPT ![p][id] = "open"]
  BY <1>4, <1>6, ViewStep DEF viewStatus
<1>10. viewReceipts' = viewReceipts
  BY <1>4, <1>7, ViewStep DEF viewReceipts
<1>11. Ledger!Birth(p, id)
  BY <1>2, <1>8, <1>9, <1>10, LedgerViews
<1> QED  BY <1>2, <1>11 DEF Ledger!LedgerNext

(* A transaction that touches neither forms, counters nor receipts. *)
LEMMA QuietStep ==
  ASSUME IInv, NEW p \in ProjectId, NEW P, OnlyProject(p, P),
         P.forms = project[p].forms, P.next_form_id = project[p].next_form_id,
         P.signals = project[p].signals
  PROVE  UNCHANGED Ledger!ledgerVars
<1>1. StatusOf(P) = StatusOf(project[p])
  BY SameStatus
<1>2. ReceiptsOf(P) = ReceiptsOf(project[p])
  BY DEF ReceiptsOf
<1> QED  BY <1>1, <1>2, StutterStep

(* set_form_active toggles its form. *)
LEMMA SetFormActiveLedger ==
  ASSUME IInv, NEW sender \in Address, NEW p \in ProjectId, NEW f \in FormId,
         NEW active \in BOOLEAN, SetFormActive(sender, p, f, active), IInv'
  PROVE  Ledger!LedgerNext
<1>1. PICK form \in project[p].forms :
        /\ form.form_id = f
        /\ project' = [project EXCEPT ![p].forms =
                         (@ \ {form}) \cup {[form EXCEPT !.active = active]}]
  BY DEF SetFormActive
<1> DEFINE P == project'[p]
           new == [form EXCEPT !.active = active]
<1>2. /\ project[p] \in Project /\ FormsOK(project[p])
      /\ P \in Project /\ FormsOK(P)
  BY DEF IInv, ProjectOK
<1>3. /\ P.forms = (project[p].forms \ {form}) \cup {new}
      /\ P.next_form_id = project[p].next_form_id
      /\ P.signals = project[p].signals
  BY <1>1, <1>2 DEF IInv, Project
<1>4. OnlyProject(p, P)
  BY <1>1 DEF OnlyProject, IInv
<1>5. form \in Form /\ new.form_id = f /\ new.active = active
  BY <1>1, <1>2 DEF Project, Form
<1> HIDE DEF P, new
<1>6. formStatus(project[p], f) \in {"open", "closed"}
  <2>1. form.active \in BOOLEAN
    BY <1>5 DEF Form
  <2>2. CASE form.active
    BY <1>1, <1>2, <2>2, FormStatusValues
  <2>3. CASE ~form.active
    BY <1>1, <1>2, <2>3, FormStatusValues
  <2> QED  BY <2>1, <2>2, <2>3
<1>7. formStatus(P, f) \in {"open", "closed"}
  <2>1. new \in P.forms
    BY <1>3
  <2>2. CASE active
    BY <1>2, <1>5, <2>1, <2>2, FormStatusValues
  <2>3. CASE ~active
    BY <1>2, <1>5, <2>1, <2>3, FormStatusValues
  <2> QED  BY <2>2, <2>3
<1>8. \A g \in FormId \ {f} : formStatus(P, g) = formStatus(project[p], g)
  <2> TAKE g \in FormId \ {f}
  <2>1. \A x : x \in P.forms /\ x.form_id = g <=> x \in project[p].forms /\ x.form_id = g
    BY <1>1, <1>3, <1>5
  <2> QED  BY <1>3, <2>1 DEF formStatus
<1>9. StatusOf(P) = [StatusOf(project[p]) EXCEPT ![f] = formStatus(P, f)]
  BY <1>8 DEF StatusOf
<1>10. ReceiptsOf(P) = ReceiptsOf(project[p])
  BY <1>3 DEF ReceiptsOf
<1>11. viewStatus[p][f] \in {"open", "closed"}
  BY <1>6 DEF viewStatus, StatusOf
<1>12. viewStatus' = [viewStatus EXCEPT ![p][f] = formStatus(P, f)]
  BY <1>4, <1>9, ViewStep DEF viewStatus
<1>13. viewReceipts' = viewReceipts
  BY <1>4, <1>10, ViewStep DEF viewReceipts
<1>14. Ledger!Toggle(p, f)
  BY <1>7, <1>11, <1>12, <1>13, LedgerViews
<1> QED  BY <1>14 DEF Ledger!LedgerNext

(* delete_form withdraws its form. *)
LEMMA DeleteFormLedger ==
  ASSUME IInv, NEW sender \in Address, NEW p \in ProjectId, NEW f \in FormId,
         DeleteForm(sender, p, f), IInv'
  PROVE  Ledger!LedgerNext
<1>1. PICK form \in project[p].forms :
        /\ form.form_id = f
        /\ project' = [project EXCEPT
             ![p].forms = @ \ {form},
             ![p].forms_count = Cardinality(project[p].forms \ {form})]
  BY DEF DeleteForm
<1> DEFINE P == project'[p]
<1>2. /\ project[p] \in Project /\ FormsOK(project[p])
      /\ P \in Project /\ FormsOK(P)
  BY DEF IInv, ProjectOK
<1>3. /\ P.forms = project[p].forms \ {form}
      /\ P.next_form_id = project[p].next_form_id
      /\ P.signals = project[p].signals
  BY <1>1, <1>2 DEF IInv, Project
<1>4. OnlyProject(p, P)
  BY <1>1 DEF OnlyProject, IInv
<1>5. form \in Form
  BY <1>1, <1>2 DEF Project
<1> HIDE DEF P
<1>6. formStatus(project[p], f) \in {"open", "closed"}
  <2>1. form.active \in BOOLEAN
    BY <1>5 DEF Form
  <2>2. CASE form.active
    BY <1>1, <1>2, <2>2, FormStatusValues
  <2>3. CASE ~form.active
    BY <1>1, <1>2, <2>3, FormStatusValues
  <2> QED  BY <2>1, <2>2, <2>3
<1>7. formStatus(P, f) = "gone"
  <2>1. \A x \in P.forms : x.form_id # f
    BY <1>1, <1>2, <1>3 DEF FormsOK
  <2>2. formStatus(project[p], f) # "unborn"
    BY <1>6
  <2>3. ~(f >= P.next_form_id)
    BY <1>2, <1>3, <2>2, FormStatusValues
  <2> QED  BY <1>2, <2>1, <2>3, FormStatusValues
<1>8. \A g \in FormId \ {f} : formStatus(P, g) = formStatus(project[p], g)
  <2> TAKE g \in FormId \ {f}
  <2>1. \A x : x \in P.forms /\ x.form_id = g <=> x \in project[p].forms /\ x.form_id = g
    BY <1>1, <1>3
  <2> QED  BY <1>3, <2>1 DEF formStatus
<1>9. StatusOf(P) = [StatusOf(project[p]) EXCEPT ![f] = "gone"]
  BY <1>7, <1>8 DEF StatusOf
<1>10. ReceiptsOf(P) = ReceiptsOf(project[p])
  BY <1>3 DEF ReceiptsOf
<1>11. \A r \in viewReceipts[p] : r[2] # f
  BY DEF viewReceipts, ReceiptsOf, DeleteForm, form_has_signals
<1>12. viewStatus[p][f] \in {"open", "closed"}
  BY <1>6 DEF viewStatus, StatusOf
<1>13. viewStatus' = [viewStatus EXCEPT ![p][f] = "gone"]
  BY <1>4, <1>9, ViewStep DEF viewStatus
<1>14. viewReceipts' = viewReceipts
  BY <1>4, <1>10, ViewStep DEF viewReceipts
<1>15. Ledger!Withdraw(p, f)
  BY <1>11, <1>12, <1>13, <1>14, LedgerViews
<1> QED  BY <1>15 DEF Ledger!LedgerNext

(* register_signal is accepted by an open form under an unused number. *)
LEMMA RegisterSignalLedger ==
  ASSUME IInv, NEW sender \in Address, NEW p \in ProjectId, NEW f \in FormId,
         RegisterSignal(sender, p, f)
  PROVE  Ledger!LedgerNext
<1> DEFINE P == project'[p]
           id == project[p].signals_count
           new == NewReceipt(id, f, sender)
<1>1. project[p] \in Project /\ FormsOK(project[p]) /\ SignalsOK(project[p])
  BY DEF IInv, ProjectOK
<1>2. id \in Nat /\ id \in SignalId
  BY <1>1, ProjectAssumption DEF Project, SignalId, RegisterSignal
<1>3. /\ P.forms = project[p].forms
      /\ P.next_form_id = project[p].next_form_id
      /\ P.signals = project[p].signals \cup {new}
  BY <1>1 DEF RegisterSignal, IInv, Project
<1>4. OnlyProject(p, P)
  BY DEF RegisterSignal, OnlyProject, IInv
<1>5. new.signal_id = id /\ new.form_id = f
  BY DEF NewReceipt
<1> HIDE DEF P, new
<1>6. StatusOf(P) = StatusOf(project[p])
  BY <1>3, SameStatus
<1>7. ReceiptsOf(P) = ReceiptsOf(project[p]) \cup {<<id, f>>}
  BY <1>3, <1>5 DEF ReceiptsOf
<1>8. viewStatus[p][f] = "open"
  BY <1>1, FormStatusValues DEF viewStatus, StatusOf, RegisterSignal
<1>9. \A r \in viewReceipts[p] : r[1] # id
  BY <1>1, <1>2 DEF viewReceipts, ReceiptsOf, SignalsOK
<1>10. viewStatus' = viewStatus
  <2>1. viewStatus' = [viewStatus EXCEPT ![p] = StatusOf(P)]
    BY <1>4, ViewStep
  <2>2. StatusOf(P) = viewStatus[p]
    BY <1>6 DEF viewStatus
  <2> QED  BY <2>1, <2>2 DEF viewStatus
<1>11. viewReceipts' = [viewReceipts EXCEPT ![p] = @ \cup {<<id, f>>}]
  BY <1>4, <1>7, ViewStep DEF viewReceipts
<1> QED  BY <1>2, <1>8, <1>9, <1>10, <1>11, AcceptView

(* A status change renumbers and moves nothing. *)
LEMMA UpdateSignalStatusLedger ==
  ASSUME IInv, NEW sender \in Address, NEW p \in ProjectId, NEW n \in SignalId,
         NEW status \in StatusInput, UpdateSignalStatus(sender, p, n, status)
  PROVE  UNCHANGED Ledger!ledgerVars
<1>1. PICK s \in project[p].signals :
        project' = [project EXCEPT ![p].signals =
                      (@ \ {s}) \cup {[s EXCEPT !.status = status]}]
  BY DEF UpdateSignalStatus
<1> DEFINE new == [s EXCEPT !.status = status]
           P == [project[p] EXCEPT !.signals = (@ \ {s}) \cup {new}]
<1>2. project[p] \in Project
  BY DEF IInv
<1>3. OnlyProject(p, P)
  BY <1>1 DEF OnlyProject
<1>4. /\ P.forms = project[p].forms
      /\ P.next_form_id = project[p].next_form_id
      /\ P.signals = (project[p].signals \ {s}) \cup {new}
  BY <1>2 DEF Project
<1>5. new.signal_id = s.signal_id /\ new.form_id = s.form_id
  BY <1>1, <1>2 DEF Project, SignalReceipt
<1> HIDE DEF P, new
<1>6. ReceiptsOf(P) = ReceiptsOf(project[p])
  BY <1>1, <1>4, <1>5 DEF ReceiptsOf
<1> QED  BY <1>3, <1>4, <1>6, SameStatus, StutterStep

(* create_project: the new project is as empty as the absent one. *)
LEMMA CreateProjectLedger ==
  ASSUME IInv, NEW sender \in Address, NEW cap \in CapId,
         NEW p \in ProjectId, NEW recipient \in Address,
         CreateProject(sender, cap, p, recipient)
  PROVE  UNCHANGED Ledger!ledgerVars
<1> DEFINE P == EmptyProject("live", sender)
<1>1. OnlyProject(p, P)
  BY DEF CreateProject, OnlyProject
<1>2. project[p].forms = {} /\ project[p].next_form_id = 0 /\ project[p].signals = {}
  BY DEF CreateProject, IInv, ProjectOK, LifeOK
<1>3. P.forms = {} /\ P.next_form_id = 0 /\ P.signals = {}
  BY DEF EmptyProject
<1> HIDE DEF P
<1> QED  BY <1>1, <1>2, <1>3, QuietStep

(* Ownership, roles and deletion of an empty project. *)
LEMMA OwnerStepLedger ==
  ASSUME IInv, NEW sender \in Address, NEW p \in ProjectId, OwnerStep(sender, p)
  PROVE  UNCHANGED Ledger!ledgerVars
<1> DEFINE P == project'[p]
<1>1. project[p] \in Project
  BY DEF IInv
<1>2. \/ project' = [project EXCEPT ![p].life = "deleted"]
      \/ \E A : project' = [project EXCEPT ![p].admins = A]
      \/ \E M : project' = [project EXCEPT ![p].members = M]
  BY DEF OwnerStep, DeleteProject, AddProjectAdmin, RemoveProjectAdmin,
         AddProjectMember, RemoveProjectMember, UpdateProjectMemberRole
<1>3. OnlyProject(p, P)
  BY <1>2 DEF OnlyProject, IInv
<1>4. /\ P.forms = project[p].forms
      /\ P.next_form_id = project[p].next_form_id
      /\ P.signals = project[p].signals
  BY <1>1, <1>2 DEF IInv, Project
<1> HIDE DEF P
<1> QED  BY <1>3, <1>4, QuietStep

LEMMA LedgerUnchanged ==
  ASSUME UNCHANGED project
  PROVE  UNCHANGED Ledger!ledgerVars
  BY DEF Ledger!ledgerVars, formStatus

(* The registry implements the ledger. *)
THEOREM RegistryImplementsLedger == Spec => ImplementsLedger
<1>1. Init => Ledger!LedgerInit
  <2> SUFFICES ASSUME Init PROVE Ledger!LedgerInit
    OBVIOUS
  <2>1. \A p \in ProjectId : /\ project[p].next_form_id = 0
                             /\ project[p].signals = {}
    BY DEF Init, EmptyProject
  <2>2. \A p \in ProjectId, f \in FormId : formStatus(project[p], f) = "unborn"
    <3> TAKE p \in ProjectId, f \in FormId
    <3>1. f >= project[p].next_form_id
      BY <2>1, ProjectAssumption DEF FormId
    <3>2. project[p] \in Project /\ FormsOK(project[p])
      BY InitInv DEF IInv, ProjectOK
    <3> QED  BY <3>1, <3>2, FormStatusValues
  <2> QED  BY <2>1, <2>2 DEF Ledger!LedgerInit
<1>2. IInv /\ IInv' /\ [Next]_vars => [Ledger!LedgerNext]_(Ledger!ledgerVars)
  <2> SUFFICES ASSUME IInv, IInv', [Next]_vars
               PROVE  Ledger!LedgerNext \/ UNCHANGED Ledger!ledgerVars
    OBVIOUS
  <2>1. CASE ProjectNext
    <3> PICK sender \in Address, p \in ProjectId :
          \/ CapStep(sender, p)
          \/ OwnerStep(sender, p)
          \/ FormStep(sender, p)
          \/ SignalStep(sender, p)
      BY <2>1 DEF ProjectNext
    <3>1. CASE CapStep(sender, p)
      BY <3>1, CreateProjectLedger, LedgerUnchanged DEF CapStep, TransferProjectOwnerCap
    <3>2. CASE OwnerStep(sender, p)
      BY <3>2, OwnerStepLedger
    <3>3. CASE FormStep(sender, p)
      BY <3>3, CreateFormLedger, SetFormActiveLedger, DeleteFormLedger DEF FormStep
    <3>4. CASE SignalStep(sender, p)
      BY <3>4, RegisterSignalLedger, UpdateSignalStatusLedger DEF SignalStep
    <3> QED  BY <3>1, <3>2, <3>3, <3>4
  <2>2. CASE AccessNext /\ UNCHANGED projectVars
    BY <2>2, LedgerUnchanged DEF projectVars
  <2>3. CASE UNCHANGED vars
    BY <2>3, LedgerUnchanged DEF vars
  <2> QED  BY <2>1, <2>2, <2>3 DEF Next
<1> QED  BY <1>1, <1>2, Invariance, PTL DEF Spec, ImplementsLedger, Ledger!LedgerSpec

(* A deleted form id never names another form. *)
THEOREM DeletedFormIdsStayDead == Spec => FormIdsNeverReused
<1> DEFINE NoReuse ==
      \A p \in ProjectId : \A f \in project'[p].forms :
        has_form(project[p], f.form_id) \/ f.form_id >= project[p].next_form_id
<1>1. IInv /\ [Next]_vars => [NoReuse]_vars
  <2> SUFFICES ASSUME IInv, Next, NEW p \in ProjectId, NEW f \in project'[p].forms
               PROVE  \/ has_form(project[p], f.form_id)
                      \/ f.form_id >= project[p].next_form_id
    OBVIOUS
  <2>1. project[p] \in Project /\ project[p].next_form_id \in Nat
    BY DEF IInv, Project
  <2>2. \A forms : project[p].forms = forms /\ f \in forms => has_form(project[p], f.form_id)
    BY DEF has_form
  <2>3. CASE project' = project
    BY <2>2, <2>3
  <2>4. CASE ProjectNext
    <3> PICK sender \in Address, q \in ProjectId :
          \/ CapStep(sender, q)
          \/ OwnerStep(sender, q)
          \/ FormStep(sender, q)
          \/ SignalStep(sender, q)
      BY <2>4 DEF ProjectNext
    <3>1. CASE CapStep(sender, q)
      <4>1. EmptyProject("live", sender).forms = {}
        BY DEF EmptyProject
      <4> QED  BY <3>1, <4>1, <2>2
               DEF IInv, CapStep, CreateProject, TransferProjectOwnerCap
    <3>2. CASE OwnerStep(sender, q)
      <4>1. \/ project' = [project EXCEPT ![q].life = "deleted"]
            \/ \E A : project' = [project EXCEPT ![q].admins = A]
            \/ \E M : project' = [project EXCEPT ![q].members = M]
        BY <3>2 DEF OwnerStep, DeleteProject, AddProjectAdmin, RemoveProjectAdmin,
               AddProjectMember, RemoveProjectMember, UpdateProjectMemberRole
      <4>2. project'[p].forms = project[p].forms
        BY <2>1, <4>1 DEF IInv, Project
      <4> QED  BY <2>2, <4>2
    <3>3. ASSUME CreateForm(sender, q)
          PROVE  has_form(project[p], f.form_id) \/ f.form_id >= project[p].next_form_id
      <4>1. \/ project'[p].forms = project[p].forms
            \/ project'[p].forms
                 = project[p].forms \cup {NewForm(project[p].next_form_id)}
        BY <2>1, <3>3 DEF CreateForm, IInv, Project
      <4>2. NewForm(project[p].next_form_id).form_id = project[p].next_form_id
        BY DEF NewForm
      <4> QED  BY <2>1, <4>1, <4>2 DEF has_form
    <3>4. ASSUME NEW i \in FormId, NEW active \in BOOLEAN,
                 SetFormActive(sender, q, i, active)
          PROVE  has_form(project[p], f.form_id)
      <4>1. PICK form \in project[q].forms :
              project' = [project EXCEPT ![q].forms =
                            (@ \ {form}) \cup {[form EXCEPT !.active = active]}]
        BY <3>4 DEF SetFormActive
      <4>2. /\ project[q] \in Project /\ form \in Form
            /\ [form EXCEPT !.active = active].form_id = form.form_id
        BY <4>1 DEF IInv, Project, Form
      <4>3. \/ project'[p].forms = project[p].forms
            \/ p = q /\ project'[p].forms =
                 (project[p].forms \ {form}) \cup {[form EXCEPT !.active = active]}
        BY <2>1, <4>1 DEF IInv, Project
      <4> QED  BY <4>1, <4>2, <4>3 DEF has_form
    <3>5. ASSUME NEW i \in FormId, DeleteForm(sender, q, i)
          PROVE  has_form(project[p], f.form_id)
      <4>1. project'[p].forms \subseteq project[p].forms
        BY <2>1, <3>5 DEF DeleteForm, IInv, Project
      <4> QED  BY <4>1 DEF has_form
    <3>6. ASSUME NEW i \in FormId, RegisterSignal(sender, q, i)
          PROVE  has_form(project[p], f.form_id)
      <4>1. project'[p].forms = project[p].forms
        BY <2>1, <3>6 DEF RegisterSignal, IInv, Project
      <4> QED  BY <2>2, <4>1
    <3>7. ASSUME NEW n \in SignalId, NEW status \in StatusInput,
                 UpdateSignalStatus(sender, q, n, status)
          PROVE  has_form(project[p], f.form_id)
      <4>1. PICK S : project' = [project EXCEPT ![q].signals = S]
        BY <3>7 DEF UpdateSignalStatus
      <4>2. project'[p].forms = project[p].forms
        BY <2>1, <4>1 DEF IInv, Project
      <4> QED  BY <2>2, <4>2
    <3> QED  BY <3>1, <3>2, <3>3, <3>4, <3>5, <3>6, <3>7 DEF FormStep, SignalStep
  <2> QED  BY <2>3, <2>4 DEF Next, projectVars
<1> QED  BY <1>1, Invariance, PTL DEF Spec, FormIdsNeverReused

-----------------------------------------------------------------------------
(* Who gets authority over a project, and how it ends                      *)

(* The authority a wallet has: it may write forms, or only review.         *)
Authority(P, wallet) == <<can_manage(P, wallet), can_review(P, wallet)>>

(* A live project keeps its owner.  A transaction changes the authority of *)
(* at most one wallet, and only while the owner holds the capability of    *)
(* this very project: once it was sent to another wallet, who may manage   *)
(* and who may decrypt is fixed for good.  A new project can be read by    *)
(* its creator alone, whoever receives the capability                      *)
(* (project_registry.move:219-300, 412-564).                                        *)
RolesAreTheOwners ==
  [][\A p \in ProjectId :
       /\ Live(p) => /\ project'[p].owner = project[p].owner
                     /\ \A wallet \in Address :
                          Authority(project'[p], wallet) # Authority(project[p], wallet)
                            => /\ ownerCap[p] = project[p].owner
                               /\ \A other \in Address \ {wallet} :
                                    Authority(project'[p], other) = Authority(project[p], other)
       /\ ~Live(p) /\ Live(p)' =>
            \A wallet \in Address :
              can_review(project'[p], wallet) <=> wallet = project'[p].owner]_vars

(* A wallet whose member entry is removed may still manage or decrypt only *)
(* if it stands in the legacy admin list too: this is all that is wrong in *)
(* the counterexample to RemovedMemberCannotManage                         *)
(* (remove_project_member, project_registry.move:494-537).                 *)
RemovalLeavesLegacyAdminsAlone ==
  [][\A p \in ProjectId, wallet \in Address :
       Live(p) /\ is_member(project[p], wallet) /\ ~is_member(project'[p], wallet)
         => /\ ownerCap[p] = project[p].owner
            /\ can_review(project'[p], wallet) <=> contains_admin(project[p], wallet)]_vars

(* What a transaction can do to the roles of a live project: nothing, or   *)
(* the owner changes those of one wallet.                                  *)
SameRoles(P, Q) == Q.owner = P.owner /\ Q.admins = P.admins /\ Q.members = P.members

ChangesOne(P, Q, wallet) ==
  /\ Q.owner = P.owner
  /\ Q.admins \ {wallet} = P.admins \ {wallet}
  /\ {m \in Q.members : m.addr # wallet} = {m \in P.members : m.addr # wallet}
  /\ \/ Q.admins = P.admins
     \/ Q.members = P.members

LEMMA SameAuthority ==
  ASSUME NEW P, NEW Q, SameRoles(P, Q), NEW wallet
  PROVE  /\ Authority(Q, wallet) = Authority(P, wallet)
         /\ is_member(Q, wallet) <=> is_member(P, wallet)
  BY DEF SameRoles, Authority, can_manage, can_review, is_project_owner, is_co_admin,
         is_reviewer, contains_admin, member_has_role, is_member

LEMMA OthersKeepAuthority ==
  ASSUME NEW P, NEW Q, NEW wallet, ChangesOne(P, Q, wallet), NEW other, other # wallet
  PROVE  /\ Authority(Q, other) = Authority(P, other)
         /\ is_member(Q, other) <=> is_member(P, other)
<1>1. contains_admin(Q, other) <=> contains_admin(P, other)
  BY DEF ChangesOne, contains_admin
<1>2. \A m : m.addr = other => (m \in Q.members <=> m \in P.members)
  BY DEF ChangesOne
<1>3. \A role : member_has_role(Q, other, role) <=> member_has_role(P, other, role)
  BY <1>2 DEF member_has_role
<1>4. is_member(Q, other) <=> is_member(P, other)
  BY <1>2 DEF is_member
<1>5. is_project_owner(Q, other) <=> is_project_owner(P, other)
  BY DEF ChangesOne, is_project_owner
<1>6. /\ can_manage(Q, other) <=> can_manage(P, other)
      /\ can_review(Q, other) <=> can_review(P, other)
  BY <1>1, <1>3, <1>5 DEF can_manage, can_review, is_co_admin, is_reviewer
<1>7. /\ can_manage(Q, other) = can_manage(P, other)
      /\ can_review(Q, other) = can_review(P, other)
  BY <1>6 DEF can_manage, can_review, is_co_admin, is_reviewer, is_project_owner
<1> QED  BY <1>4, <1>7 DEF Authority

(* A wallet without a member entry has authority as the owner or from the  *)
(* legacy vector.                                                          *)
LEMMA AuthorityWithoutEntry ==
  ASSUME NEW P, NEW wallet, ~is_member(P, wallet)
  PROVE  can_review(P, wallet) <=> P.owner = wallet \/ contains_admin(P, wallet)
  BY DEF can_review, can_manage, is_co_admin, is_reviewer, is_project_owner,
         member_has_role, is_member

LEMMA OwnerStepRoles ==
  ASSUME IInv, NEW sender \in Address, NEW q \in ProjectId, OwnerStep(sender, q),
         NEW p \in ProjectId
  PROVE  \/ SameRoles(project[p], project'[p])
         \/ /\ ownerCap[p] = project[p].owner
            /\ \E wallet \in Address : ChangesOne(project[p], project'[p], wallet)
<1>1. project[p] \in Project /\ p \in DOMAIN project /\ q \in DOMAIN project
  BY DEF IInv
<1>2. CASE p # q
  <2>1. project'[p] = project[p]
    BY <1>1, <1>2
    DEF OwnerStep, DeleteProject, AddProjectAdmin, RemoveProjectAdmin, AddProjectMember,
        RemoveProjectMember, UpdateProjectMemberRole
  <2> QED  BY <2>1 DEF SameRoles
<1>3. CASE p = q
  <2>1. ASSUME NEW r \in ProjectId, DeleteProject(sender, q, r)
        PROVE  SameRoles(project[p], project'[p])
    BY <1>1, <1>3, <2>1 DEF DeleteProject, SameRoles, Project
  <2>2. ASSUME NEW r \in ProjectId, assert_project_owner(q, r, sender)
        PROVE  ownerCap[p] = project[p].owner
    BY <1>3, <2>2 DEF assert_project_owner
  <2>3. ASSUME NEW r \in ProjectId, NEW wallet \in Address,
               AddProjectAdmin(sender, q, r, wallet) \/ RemoveProjectAdmin(sender, q, r, wallet)
        PROVE  /\ ownerCap[p] = project[p].owner
               /\ ChangesOne(project[p], project'[p], wallet)
    BY <1>1, <1>3, <2>2, <2>3
    DEF AddProjectAdmin, RemoveProjectAdmin, ChangesOne, Project
  <2>4. ASSUME NEW r \in ProjectId, NEW wallet \in Address, NEW role \in 0..2,
               AddProjectMember(sender, q, r, wallet, role)
        PROVE  /\ ownerCap[p] = project[p].owner
               /\ ChangesOne(project[p], project'[p], wallet)
    <3> DEFINE entry == [addr |-> wallet, role |-> role]
    <3>1. project' = [project EXCEPT ![q].members = @ \cup {entry}] /\ entry.addr = wallet
      BY <2>4 DEF AddProjectMember
    <3> HIDE DEF entry
    <3>2. ChangesOne(project[p], project'[p], wallet)
      BY <1>1, <1>3, <3>1 DEF ChangesOne, Project
    <3> QED  BY <2>2, <2>4, <3>2 DEF AddProjectMember
  <2>5. ASSUME NEW r \in ProjectId, NEW wallet \in Address, NEW role \in 0..2,
               UpdateProjectMemberRole(sender, q, r, wallet, role)
        PROVE  /\ ownerCap[p] = project[p].owner
               /\ ChangesOne(project[p], project'[p], wallet)
    <3>1. PICK m \in project[q].members :
            /\ m.addr = wallet
            /\ project' = [project EXCEPT ![q].members =
                             (@ \ {m}) \cup {[m EXCEPT !.role = role]}]
      BY <2>5 DEF UpdateProjectMemberRole
    <3> DEFINE entry == [m EXCEPT !.role = role]
    <3>2. m \in Member
      BY <1>1, <1>3, <3>1 DEF Project
    <3>3. entry.addr = wallet
      BY <3>1, <3>2 DEF Member
    <3>4. project' = [project EXCEPT ![q].members = (@ \ {m}) \cup {entry}]
      BY <3>1
    <3> HIDE DEF entry
    <3>5. ChangesOne(project[p], project'[p], wallet)
      BY <1>1, <1>3, <3>1, <3>3, <3>4 DEF ChangesOne, Project
    <3> QED  BY <2>2, <2>5, <3>5 DEF UpdateProjectMemberRole
  <2>6. ASSUME NEW r \in ProjectId, NEW wallet \in Address,
               RemoveProjectMember(sender, q, r, wallet)
        PROVE  /\ ownerCap[p] = project[p].owner
               /\ ChangesOne(project[p], project'[p], wallet)
    BY <1>1, <1>3, <2>2, <2>6 DEF RemoveProjectMember, ChangesOne, Project
  <2> QED  BY <2>1, <2>3, <2>4, <2>5, <2>6 DEF OwnerStep
<1> QED  BY <1>2, <1>3

LEMMA RolesStep ==
  ASSUME IInv, [Next]_vars, NEW p \in ProjectId, Live(p)
  PROVE  \/ SameRoles(project[p], project'[p])
         \/ /\ ownerCap[p] = project[p].owner
            /\ \E wallet \in Address : ChangesOne(project[p], project'[p], wallet)
<1>1. project[p] \in Project
  BY DEF IInv
<1>2. CASE UNCHANGED project
  BY <1>2 DEF SameRoles
<1>3. CASE ProjectNext
  <2> PICK sender \in Address, q \in ProjectId :
        \/ CapStep(sender, q)
        \/ OwnerStep(sender, q)
        \/ FormStep(sender, q)
        \/ SignalStep(sender, q)
    BY <1>3 DEF ProjectNext
  <2>1. CASE CapStep(sender, q)
    BY <2>1, <1>1
    DEF CapStep, CreateProject, TransferProjectOwnerCap, SameRoles, IInv, Live
  <2>2. CASE OwnerStep(sender, q)
    BY <2>2, OwnerStepRoles
  <2>3. CASE FormStep(sender, q)
    <3>1. ASSUME CreateForm(sender, q) PROVE SameRoles(project[p], project'[p])
      BY <3>1, <1>1 DEF CreateForm, SameRoles, IInv, Project
    <3>2. ASSUME NEW f \in FormId, NEW active \in BOOLEAN, SetFormActive(sender, q, f, active)
          PROVE  SameRoles(project[p], project'[p])
      <4>1. PICK F : project' = [project EXCEPT ![q].forms = F]
        BY <3>2 DEF SetFormActive
      <4> QED  BY <4>1, <1>1 DEF SameRoles, IInv, Project
    <3>3. ASSUME NEW f \in FormId, DeleteForm(sender, q, f)
          PROVE  SameRoles(project[p], project'[p])
      <4>1. PICK F, n : project' = [project EXCEPT ![q].forms = F, ![q].forms_count = n]
        BY <3>3 DEF DeleteForm
      <4> QED  BY <4>1, <1>1 DEF SameRoles, IInv, Project
    <3> QED  BY <2>3, <3>1, <3>2, <3>3 DEF FormStep
  <2>4. CASE SignalStep(sender, q)
    <3>1. ASSUME NEW f \in FormId, RegisterSignal(sender, q, f)
          PROVE  SameRoles(project[p], project'[p])
      BY <3>1, <1>1 DEF RegisterSignal, SameRoles, IInv, Project
    <3>2. ASSUME NEW n \in SignalId, NEW status \in StatusInput,
                 UpdateSignalStatus(sender, q, n, status)
          PROVE  SameRoles(project[p], project'[p])
      <4>1. PICK S : project' = [project EXCEPT ![q].signals = S]
        BY <3>2 DEF UpdateSignalStatus
      <4> QED  BY <4>1, <1>1 DEF SameRoles, IInv, Project
    <3> QED  BY <2>4, <3>1, <3>2 DEF SignalStep
  <2> QED  BY <2>1, <2>2, <2>3, <2>4
<1> QED  BY <1>2, <1>3 DEF Next, projectVars, vars

(* Only the creator can read a project that has just been made.            *)
LEMMA CreatorIsAlone ==
  ASSUME IInv, [Next]_vars, NEW p \in ProjectId, ~Live(p), Live(p)', NEW wallet \in Address
  PROVE  can_review(project'[p], wallet) <=> wallet = project'[p].owner
<1>1. project[p] \in Project
  BY DEF IInv
<1>2. project' # project
  BY DEF Live
<1>3. PICK sender \in Address, q \in ProjectId :
        \/ CapStep(sender, q)
        \/ OwnerStep(sender, q)
        \/ FormStep(sender, q)
        \/ SignalStep(sender, q)
  BY <1>2 DEF Next, ProjectNext, projectVars, vars
<1>4. ASSUME NEW cap \in CapId, NEW recipient \in Address,
             CreateProject(sender, cap, q, recipient), p = q
      PROVE  can_review(project'[p], wallet) <=> wallet = project'[p].owner
  <2>1. project'[p] = EmptyProject("live", sender)
    BY <1>4 DEF CreateProject, IInv
  <2>2. project'[p].admins = {} /\ project'[p].members = {}
    BY <2>1 DEF EmptyProject
  <2> QED  BY <2>2, AuthorityWithoutEntry DEF is_member, contains_admin
<1>5. \A r \in ProjectId : ~Live(r) => project'[r] = project[r] \/
        \E cap \in CapId, recipient \in Address :
          CreateProject(sender, cap, q, recipient) /\ r = q
  BY <1>1, <1>3
  DEF IInv, Live, CapStep, OwnerStep, FormStep, SignalStep, CreateProject,
      TransferProjectOwnerCap, DeleteProject, AddProjectAdmin, RemoveProjectAdmin,
      AddProjectMember, RemoveProjectMember, UpdateProjectMemberRole, CreateForm,
      SetFormActive, DeleteForm, RegisterSignal, UpdateSignalStatus
<1> QED  BY <1>4, <1>5 DEF Live

(* Authority over a live project changes by its owner's transactions, one  *)
(* wallet at a time, and only while the owner holds the capability.        *)
THEOREM RolesStayTheOwners == Spec => RolesAreTheOwners
<1> DEFINE Step(p) ==
      /\ Live(p) => /\ project'[p].owner = project[p].owner
                    /\ \A wallet \in Address :
                         Authority(project'[p], wallet) # Authority(project[p], wallet)
                           => /\ ownerCap[p] = project[p].owner
                              /\ \A other \in Address \ {wallet} :
                                   Authority(project'[p], other) = Authority(project[p], other)
      /\ ~Live(p) /\ Live(p)' =>
           \A wallet \in Address :
             can_review(project'[p], wallet) <=> wallet = project'[p].owner
<1>1. IInv /\ [Next]_vars => [\A p \in ProjectId : Step(p)]_vars
  <2> SUFFICES ASSUME IInv, [Next]_vars, NEW p \in ProjectId PROVE Step(p)
    OBVIOUS
  <2>1. ASSUME Live(p)
        PROVE  /\ project'[p].owner = project[p].owner
               /\ \A wallet \in Address :
                    Authority(project'[p], wallet) # Authority(project[p], wallet)
                      => /\ ownerCap[p] = project[p].owner
                         /\ \A other \in Address \ {wallet} :
                              Authority(project'[p], other) = Authority(project[p], other)
    <3>1. CASE SameRoles(project[p], project'[p])
      BY <3>1, SameAuthority DEF SameRoles
    <3>2. ASSUME ownerCap[p] = project[p].owner,
                 NEW one \in Address, ChangesOne(project[p], project'[p], one),
                 NEW wallet \in Address,
                 Authority(project'[p], wallet) # Authority(project[p], wallet),
                 NEW other \in Address \ {wallet}
          PROVE  Authority(project'[p], other) = Authority(project[p], other)
      BY <3>2, OthersKeepAuthority
    <3>3. \A one : ChangesOne(project[p], project'[p], one)
                     => project'[p].owner = project[p].owner
      BY DEF ChangesOne
    <3> HIDE DEF Step
    <3> QED  BY <2>1, <3>1, <3>2, <3>3, RolesStep
  <2> QED  BY <2>1, CreatorIsAlone
<1> QED  BY <1>1, Invariance, PTL DEF Spec, RolesAreTheOwners

(* Removing a member takes everything but a place in the legacy vector.    *)
THEOREM RemovalEndsMembership == Spec => RemovalLeavesLegacyAdminsAlone
<1> DEFINE Step(p, wallet) ==
      Live(p) /\ is_member(project[p], wallet) /\ ~is_member(project'[p], wallet)
        => /\ ownerCap[p] = project[p].owner
           /\ can_review(project'[p], wallet) <=> contains_admin(project[p], wallet)
<1>1. IInv /\ [Next]_vars => [\A p \in ProjectId, wallet \in Address : Step(p, wallet)]_vars
  <2> SUFFICES ASSUME IInv, [Next]_vars, NEW p \in ProjectId, NEW wallet \in Address,
                      Live(p), is_member(project[p], wallet),
                      ~is_member(project'[p], wallet)
               PROVE  /\ ownerCap[p] = project[p].owner
                      /\ can_review(project'[p], wallet) <=> contains_admin(project[p], wallet)
    OBVIOUS
  <2>1. ~SameRoles(project[p], project'[p])
    BY SameAuthority
  <2>2. PICK one \in Address : ChangesOne(project[p], project'[p], one)
    BY <2>1, RolesStep
  <2>3. ownerCap[p] = project[p].owner
    BY <2>1, RolesStep
  <2>4. project'[p].members # project[p].members
    BY DEF is_member
  <2>5. project'[p].admins = project[p].admins /\ project'[p].owner = project[p].owner
    BY <2>2, <2>4 DEF ChangesOne
  <2>6. wallet # project[p].owner
    BY DEF IInv, ProjectOK, MembersOK, is_member
  <2> QED  BY <2>3, <2>5, <2>6, AuthorityWithoutEntry DEF contains_admin
<1> QED  BY <1>1, Invariance, PTL DEF Spec, RemovalLeavesLegacyAdminsAlone
=============================================================================
