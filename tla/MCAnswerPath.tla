----------------------------- MODULE MCAnswerPath -----------------------------
(***************************************************************************)
(* The path of an answer, on a small instance of each of its parts: the    *)
(* gate of a form for holders, the pending queue of the browser and the    *)
(* cache through which the remote index is read back.  A behaviour is one  *)
(* of the part that "focus" names; the others stay in one of their initial *)
(* states.                                                                 *)
(***************************************************************************)
EXTENDS SubmissionDelivery, RemoteIndexCache, NftGate, TLC

CONSTANTS h1, h2, c1, c2, c3, v1, w1, w2

VARIABLE focus

(* Two overlapping invocations of the submit handler, with and without     *)
(* local fallback, for plain and encrypted forms.  The relay is one that   *)
(* may confirm, accept without confirming or refuse, so it takes every     *)
(* step a form with another relay takes.                                   *)
MCHandlers == {h1, h2}
MCDeployments == {d \in DeploymentType : d.relay = "index"}

MCCallers == {c1, c2, c3}
MCEntries == {v1}
MCWallets == {w1, w2}

AnswerPathInit ==
  /\ focus \in {"gate", "delivery", "cache"}
  /\ DeliveryInit /\ CacheInit /\ GateInit
  /\ focus # "gate" =>
       /\ gate = [viewing |-> TRUE, submission |-> TRUE, network |-> TRUE]
       /\ holders = {} /\ wallet = NoWallet
  /\ focus # "delivery" =>
       deployment = [encrypted |-> TRUE, fallback |-> FALSE, relay |-> "index"]
  /\ focus # "cache" => relayKind = "http"

AnswerPathNext ==
  /\ UNCHANGED focus
  /\ \/ /\ focus = "gate"
        /\ GateNext
        /\ UNCHANGED <<deliveryVars, cacheVars>>
     \/ /\ focus = "delivery"
        /\ DeliveryNext
        /\ UNCHANGED <<gateVars, cacheVars>>
     \/ /\ focus = "cache"
        /\ CacheNext
        /\ UNCHANGED <<gateVars, deliveryVars>>

AnswerPathSpec ==
  AnswerPathInit /\ [][AnswerPathNext]_<<focus, gateVars, deliveryVars, cacheVars>>

(* The part that moves has the shape the code gives it.                    *)
AnswerPathTypeOK ==
  CASE focus = "gate"     -> GateTypeOK
    [] focus = "delivery" -> DeliveryTypeOK
    [] focus = "cache"    -> CacheTypeOK

(* The invocations of the handler and the wallets are interchangeable.     *)
Symmetry == Permutations(MCHandlers) \cup Permutations(MCWallets)
=============================================================================
