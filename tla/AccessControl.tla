--------------------------- MODULE AccessControl ---------------------------
(***************************************************************************)
(* The Move module deepsignal::access_control: one shared Registry object  *)
(* with one owner and a list of admins.  Authority is the PAIR of a wallet *)
(* and a capability object: the Registry records which capability belongs  *)
(* to which wallet, and capabilities can be transferred freely because     *)
(* they have key + store.                                                  *)
(*                                                                         *)
(* The admin vector is a set of entries: the code searches it for an       *)
(* address or for a pair and removes with swap_remove, so its order is     *)
(* never observed.  An action is one transaction; an abort changes nothing *)
(* and is a transaction that is not enabled.                               *)
(***************************************************************************)
EXTENDS Naturals, FiniteSets

CONSTANTS
  Address,      \* the wallets
  Deployer,     \* the wallet that publishes the package
  CapId,        \* the object ids the chain may hand out to capabilities
  OwnerCapId,   \* the id of the OwnerCap that init mints
  NoHolder      \* a capability id that no object has yet

ASSUME AccessAssumption ==
  /\ Deployer \in Address
  /\ OwnerCapId \in CapId
  /\ NoHolder \notin Address

VARIABLES
  registry,     \* the shared Registry object
  holder        \* the wallet that holds each capability object

accessVars == <<registry, holder>>

AccessEntry == [address : Address, cap_id : CapId]

RegistryType == [owner_address : Address, owner_cap_id : CapId,
                 admins : SUBSET AccessEntry]

(* Ids whose object exists: a capability is never destroyed, there is no   *)
(* function in the module that takes one by value.                         *)
Minted == {c \in CapId : holder[c] # NoHolder}

AccessInit ==
  /\ registry = [owner_address |-> Deployer, owner_cap_id |-> OwnerCapId,
                 admins |-> {}]
  /\ holder = [c \in CapId |-> IF c = OwnerCapId THEN Deployer ELSE NoHolder]

-----------------------------------------------------------------------------
(* Queries *)

is_owner(wallet, cap) ==
  registry.owner_address = wallet /\ registry.owner_cap_id = cap

(* Mutant of is_admin: a listed address is enough, with any capability.    *)
is_admin_ByAddress(wallet, cap) == \E e \in registry.admins : e.address = wallet

is_admin(wallet, cap) ==
  \E e \in registry.admins : e.address = wallet /\ e.cap_id = cap

contains_address(wallet) == \E e \in registry.admins : e.address = wallet

(* The sender can only pass an object it holds to a transaction.           *)
Presents(sender, cap) == holder[cap] = sender

(* Who passes assert_admin_authority with what it holds.                   *)
ActsAsAdmin(wallet) == \E cap \in CapId : Presents(wallet, cap) /\ is_admin(wallet, cap)

-----------------------------------------------------------------------------
(* Transactions *)

(* Mutant of AddAdmin: without the address check a wallet can be listed twice. *)
AddAdmin_ListsTwice(sender, cap, recipient, fresh) ==
  /\ Presents(sender, cap)
  /\ is_owner(sender, cap)
  /\ fresh \notin Minted
  /\ registry' = [registry EXCEPT !.admins =
                    @ \cup {[address |-> recipient, cap_id |-> fresh]}]
  /\ holder' = [holder EXCEPT ![fresh] = recipient]

(* Mutant of AddAdmin: the vector keeps bare addresses, as project admins do. *)
AddAdmin_BareAddress(sender, cap, recipient, fresh) ==
  /\ Presents(sender, cap)
  /\ is_owner(sender, cap)
  /\ fresh \notin Minted
  /\ registry' = [registry EXCEPT !.admins = @ \cup {recipient}]
  /\ holder' = [holder EXCEPT ![fresh] = recipient]

(* add_admin, also reached through issue_admin_cap and                     *)
(* issue_admin_cap_to_sender (recipient = sender): object::new gives the   *)
(* new AdminCap an id no object ever had.                                  *)
AddAdmin(sender, cap, recipient, fresh) ==
  /\ Presents(sender, cap)
  /\ is_owner(sender, cap)
  /\ ~contains_address(recipient)
  /\ fresh \notin Minted
  /\ registry' = [registry EXCEPT !.admins =
                    @ \cup {[address |-> recipient, cap_id |-> fresh]}]
  /\ holder' = [holder EXCEPT ![fresh] = recipient]

(* remove_admin removes the entry of an address; the AdminCap itself stays *)
(* with whoever holds it.                                                  *)
RemoveAdmin(sender, cap, address) ==
  /\ Presents(sender, cap)
  /\ is_owner(sender, cap)
  /\ \E e \in registry.admins :
       /\ e.address = address
       /\ registry' = [registry EXCEPT !.admins = @ \ {e}]
  /\ UNCHANGED holder

(* transfer::public_transfer of an OwnerCap or an AdminCap by its holder.  *)
TransferCap(sender, cap, recipient) ==
  /\ Presents(sender, cap)
  /\ holder' = [holder EXCEPT ![cap] = recipient]
  /\ UNCHANGED registry

AccessNext ==
  \E sender, other \in Address, cap \in CapId :
    \/ \E fresh \in CapId : AddAdmin(sender, cap, other, fresh)
    \/ RemoveAdmin(sender, cap, other)
    \/ TransferCap(sender, cap, other)

AccessSpec == AccessInit /\ [][AccessNext]_accessVars

-----------------------------------------------------------------------------
(* Properties *)

(* Registry and capabilities have their types. *)
AccessTypeOK ==
  /\ registry \in RegistryType
  /\ holder \in [CapId -> Address \cup {NoHolder}]

(* An address is listed at most once and a capability backs at most one    *)
(* entry, whatever the order of add_admin, remove_admin and transfers: the *)
(* address-only search of remove_admin can therefore never leave a second  *)
(* entry of the same wallet behind.  The OwnerCap never doubles as an      *)
(* admin capability.                                                       *)
AdminsAreWellFormed ==
  /\ \A e, f \in registry.admins :
       (e.address = f.address \/ e.cap_id = f.cap_id) => e = f
  /\ \A e \in registry.admins :
       e.cap_id \in Minted /\ e.cap_id # registry.owner_cap_id

(* Authority comes from the Registry's owner and from nothing else,        *)
(* whatever is added, removed, added again and passed around.  A           *)
(* capability that exists and is no key of a wallet never becomes one, so  *)
(* one that was revoked stays dead when its wallet is listed again, and a  *)
(* listed address is not enough.  A transaction gives or takes the         *)
(* authority of one wallet at most, and either the owner changed the list  *)
(* with its OwnerCap in hand or the capability the wallet is listed with   *)
(* changed hands.                                                          *)
AuthorityIsTheOwners ==
  [][/\ \A w \in Address, c \in Minted : is_admin(w, c)' => is_admin(w, c)
     /\ \A w \in Address : ~(ActsAsAdmin(w)' <=> ActsAsAdmin(w)) =>
          /\ \A other \in Address \ {w} : ActsAsAdmin(other)' <=> ActsAsAdmin(other)
          /\ \/ registry' # registry /\ Presents(registry.owner_address, registry.owner_cap_id)
             \/ \E c \in Minted : is_admin(w, c) /\ is_admin(w, c)' /\ holder'[c] # holder[c]
    ]_accessVars

=============================================================================
