------------------------------ MODULE MCStorage ------------------------------
(***************************************************************************)
(* Four parts of the storage layer that share no state on a small instance *)
(* each: the manifest chain, the versions of a form, the relay's index in  *)
(* Drive and the removal of forms.  A behaviour is one of the part that    *)
(* "focus" names; the others stay where they started, from one of their    *)
(* initial states.                                                         *)
(***************************************************************************)
EXTENDS WalrusManifest, FormVersions, DriveRelay, FormRemoval, TLC

CONSTANTS t1, t2, e1, h1, h2, r1, r2, s1, s2, x1, x2,
  f1, f2, m1, m2, d1

VARIABLE focus

MCTasks == {t1, t2}
MCIds == 1 .. 2
MCEditors == {e1}
MCHashes == {h1, h2}
MCReplies == {r1, r2}
MCExecutions == {x1, x2}
MCSubmissions == {s1, s2}
MCForms == {f1, f2}
MCManifestBlobs == {m1, m2}
MCRemovals == {d1}

(* A browser that has one form, perhaps only in the index; the other one   *)
(* it learns of from Sui.  The manifests are interchangeable.              *)
OneFormHere == indexed = {f1} /\ stored \subseteq indexed /\ manifestOf[f1] = m1

StorageInit ==
  /\ focus \in {"manifest", "versions", "relay", "removal"}
  /\ Init /\ VersionsInit /\ RelayInit /\ RemovalInit
  /\ OneFormHere
  /\ focus # "versions" => index = 1
  /\ focus # "relay" => rootProperty = NoFolder
  /\ focus # "removal" =>
       /\ chain = {} /\ stored = {}
       /\ manifestOf = [f \in Forms |-> m1]

StorageNext ==
  /\ UNCHANGED focus
  /\ \/ /\ focus = "manifest"
        /\ Next
        /\ UNCHANGED <<versionsVars, relayVars, formVars>>
     \/ /\ focus = "versions"
        /\ VersionsNext
        /\ UNCHANGED <<vars, relayVars, formVars>>
     \/ /\ focus = "relay"
        /\ RelayNext
        /\ UNCHANGED <<vars, versionsVars, formVars>>
     \/ /\ focus = "removal"
        /\ RemovalNext
        /\ UNCHANGED <<vars, versionsVars, relayVars>>

StorageSpec ==
  StorageInit /\ [][StorageNext]_<<focus, vars, versionsVars, relayVars, formVars>>

(* The part that moves has the shape the code gives it.                    *)
StorageTypeOK ==
  CASE focus = "manifest" -> ManifestTypeOK
    [] focus = "versions" -> VersionsTypeOK
    [] focus = "relay"    -> RelayTypeOK
    [] focus = "removal"  -> RemovalTypeOK

(* Calls of the adapter, structures and form pages are interchangeable.    *)
Symmetry ==
  Permutations(MCTasks) \cup Permutations(MCHashes) \cup Permutations(MCReplies)
=============================================================================
