------------------------- MODULE MCProjectRegistry -------------------------
(***************************************************************************)
(* ProjectRegistry on small instances: the deployer, who is the global     *)
(* owner, and a wallet that becomes admin, member, owner of a project or   *)
(* stays a plain sender.                                                   *)
(***************************************************************************)
EXTENDS ProjectRegistry

CONSTANTS a, c1, p1

MCAddress == {Deployer, a}
MCCapId == {OwnerCapId, c1}
OneProject == {p1}

=============================================================================
