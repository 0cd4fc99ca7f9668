-------------------------- MODULE AnswerPathProofs ---------------------------
(***************************************************************************)
(* Proofs about RemoteIndexCache for every number of entries, callers and  *)
(* requests and every time to live, and about the path of an answer that   *)
(* MCAnswerPath composes.                                                  *)
(***************************************************************************)
EXTENDS MCAnswerPath, SubmitProofs

-----------------------------------------------------------------------------
(* RemoteIndexCache                                                        *)

(* The slot names a request that was not rejected, and its time is over    *)
(* TTL after that request was sent.                                        *)
SlotOK ==
  slot = NoSlot
    \/ /\ slot.fetch \in DOMAIN fetches
       /\ fetches[slot.fetch].state # "rejected"
       /\ slot.expiresAt = fetches[slot.fetch].at + TTL

(* A request that can still be shared is the one in the slot.              *)
OthersAreOld ==
  \A f \in DOMAIN fetches :
    /\ fetches[f].at <= now
    /\ fetches[f].state = "rejected" \/ slot.fetch = f \/ fetches[f].at + TTL <= now

(* An answer holds what was readable before its request was sent.          *)
AnswersAreComplete ==
  \A f \in DOMAIN fetches : fetches[f].state \in {"read", "resolved"} =>
    \A x \in Entries : readable[x] < fetches[f].at => x \in fetches[f].entries

(* Nobody was given a request that was sent TTL before.                    *)
CallsAreRecent ==
  \A c \in Callers : asked[c] # NotAsked =>
    /\ asked[c].fetch \in DOMAIN fetches
    /\ asked[c].at < fetches[asked[c].fetch].at + TTL

CacheInv ==
  CacheTypeOK /\ SlotOK /\ OthersAreOld /\ AnswersAreComplete /\ CallsAreRecent
    /\ RequestsAreSpaced

LEMMA RequestShape ==
  ASSUME CacheTypeOK, NEW f \in DOMAIN fetches
  PROVE  /\ fetches[f] \in Fetch /\ fetches[f].at \in 0..MaxTime /\ fetches[f].at \in Nat
         /\ fetches[f].state \in FetchStates /\ fetches[f].entries \in SUBSET Entries
         /\ f \in Nat \ {0}
<1>1. fetches \in Seq(Fetch) /\ f \in 1..Len(fetches) /\ Len(fetches) \in Nat
  BY LenProperties DEF CacheTypeOK
<1>2. fetches[f] \in Fetch
  BY <1>1, ElementOfSeq
<1> QED  BY <1>1, <1>2, CacheAssumption DEF Fetch

LEMMA CacheInitInv == CacheInit => CacheInv
<1> SUFFICES ASSUME CacheInit PROVE CacheInv
  OBVIOUS
<1>1. fetches = <<>> /\ fetches \in Seq(Fetch) /\ Len(fetches) = 0 /\ DOMAIN fetches = {}
  BY DEF CacheInit
<1>2. CacheTypeOK
  BY <1>1, CacheAssumption DEF CacheInit, CacheTypeOK, Never, NoSlot, NotAsked
<1> QED
  BY <1>1, <1>2 DEF CacheInit, CacheInv, SlotOK, OthersAreOld, AnswersAreComplete,
                    CallsAreRecent, RequestsAreSpaced

LEMMA TickInv == CacheInv /\ Tick => CacheInv'
<1> SUFFICES ASSUME CacheInv, Tick PROVE CacheInv'
  OBVIOUS
<1> USE CacheAssumption DEF CacheInv, CacheTypeOK, Tick, Fetch
<1>1. CacheTypeOK'
  OBVIOUS
<1>2. \A f \in DOMAIN fetches : fetches[f].at \in 0..MaxTime
  BY RequestShape
<1>3. SlotOK' /\ AnswersAreComplete' /\ CallsAreRecent' /\ RequestsAreSpaced'
  BY DEF SlotOK, AnswersAreComplete, CallsAreRecent, RequestsAreSpaced
<1>4. OthersAreOld'
  BY <1>2 DEF OthersAreOld
<1> QED  BY <1>1, <1>3, <1>4

LEMMA BecomesReadableInv ==
  ASSUME CacheInv, NEW x \in Entries, BecomesReadable(x)
  PROVE  CacheInv'
<1> USE CacheAssumption DEF CacheInv, CacheTypeOK, BecomesReadable, Fetch, Never
<1>1. CacheTypeOK'
  OBVIOUS
<1>2. SlotOK' /\ OthersAreOld' /\ CallsAreRecent' /\ RequestsAreSpaced'
  BY DEF SlotOK, OthersAreOld, CallsAreRecent, RequestsAreSpaced
<1>3. AnswersAreComplete'
  <2> SUFFICES ASSUME NEW f \in DOMAIN fetches, fetches[f].state \in {"read", "resolved"},
                      NEW y \in Entries, readable'[y] < fetches[f].at
               PROVE  y \in fetches[f].entries
    BY DEF AnswersAreComplete
  <2>1. fetches[f].at \in Nat /\ fetches[f].at <= now
    BY RequestShape DEF OthersAreOld
  <2>2. y # x
    BY <2>1
  <2> QED  BY <2>2 DEF AnswersAreComplete
<1> QED  BY <1>1, <1>2, <1>3

LEMMA ShareRequestInv ==
  ASSUME CacheInv, NEW c \in Callers, ShareRequest(c)
  PROVE  CacheInv'
<1> USE CacheAssumption DEF CacheInv, CacheTypeOK, ShareRequest, Fetch
<1>1. CacheTypeOK'
  OBVIOUS
<1>2. SlotOK' /\ OthersAreOld' /\ AnswersAreComplete' /\ RequestsAreSpaced'
  BY DEF SlotOK, OthersAreOld, AnswersAreComplete, RequestsAreSpaced
<1>3. slot.fetch \in DOMAIN fetches /\ now < fetches[slot.fetch].at + TTL
  BY DEF Fresh, SlotOK
<1>4. CallsAreRecent'
  BY <1>3 DEF CallsAreRecent
<1> QED  BY <1>1, <1>2, <1>4

(* What is true of the requests once one more is sent.                     *)
LEMMA SentRequest ==
  ASSUME CacheInv, NEW c \in Callers, SendRequest(c)
  PROVE  /\ Len(fetches') = Len(fetches) + 1
         /\ DOMAIN fetches' = DOMAIN fetches \cup {Len(fetches')}
         /\ fetches' \in Seq(Fetch)
         /\ fetches'[Len(fetches')] = [state |-> "sent", at |-> now, entries |-> {}]
         /\ \A f \in DOMAIN fetches : fetches'[f] = fetches[f] /\ f < Len(fetches')
<1> DEFINE new == [state |-> "sent", at |-> now, entries |-> {}]
<1>1. new \in Fetch
  BY DEF CacheInv, CacheTypeOK, Fetch, FetchStates
<1>2. fetches \in Seq(Fetch) /\ fetches' = Append(fetches, new)
  BY DEF CacheInv, CacheTypeOK, SendRequest
<1>3. fetches' \in Seq(Fetch) /\ Len(fetches') = Len(fetches) + 1
  BY <1>1, <1>2, AppendProperties
<1>4. DOMAIN fetches = 1..Len(fetches) /\ DOMAIN fetches' = 1..Len(fetches')
        /\ Len(fetches) \in Nat
  BY <1>2, <1>3, LenProperties
<1>5. fetches'[Len(fetches')] = new
        /\ \A f \in 1..Len(fetches) : fetches'[f] = fetches[f]
  BY <1>1, <1>2, <1>3, AppendProperties
<1> QED  BY <1>3, <1>4, <1>5

LEMMA SendRequestInv ==
  ASSUME CacheInv, NEW c \in Callers, SendRequest(c)
  PROVE  CacheInv'
<1> DEFINE n == Len(fetches')
<1> USE CacheAssumption
<1>1. /\ n = Len(fetches) + 1
      /\ DOMAIN fetches' = DOMAIN fetches \cup {n}
      /\ fetches' \in Seq(Fetch)
      /\ fetches'[n] = [state |-> "sent", at |-> now, entries |-> {}]
      /\ \A f \in DOMAIN fetches : fetches'[f] = fetches[f] /\ f < n
  BY SentRequest
<1>2. n \in Nat /\ n \notin DOMAIN fetches /\ now \in Nat /\ now \in 0..MaxTime
  BY <1>1 DEF CacheInv, CacheTypeOK
<1>3. \A f \in DOMAIN fetches : fetches[f].at \in Nat /\ fetches[f] \in Fetch
  BY RequestShape DEF CacheInv
<1>4. /\ slot' = [fetch |-> n, expiresAt |-> now + TTL]
      /\ asked' = [asked EXCEPT ![c] = [at |-> now, fetch |-> n]]
      /\ UNCHANGED <<relayKind, now, readable>>
      /\ Len(fetches) < MaxFetches
  BY DEF SendRequest
<1>5. CacheTypeOK'
  BY <1>1, <1>2, <1>4 DEF CacheInv, CacheTypeOK
<1>6. SlotOK'
  BY <1>1, <1>4 DEF SlotOK
<1>7. \A f \in DOMAIN fetches : fetches[f].state # "rejected" => fetches[f].at + TTL <= now
  BY <1>2, <1>3 DEF CacheInv, SlotOK, OthersAreOld, SendRequest, Fresh, NoSlot
<1>8. OthersAreOld'
  BY <1>1, <1>2, <1>3, <1>4, <1>7 DEF CacheInv, OthersAreOld
<1>9. AnswersAreComplete'
  BY <1>1, <1>4 DEF CacheInv, AnswersAreComplete
<1>10. CallsAreRecent'
  BY <1>1, <1>2, <1>4 DEF CacheInv, CacheTypeOK, CallsAreRecent
<1>11. RequestsAreSpaced'
  BY <1>1, <1>2, <1>7 DEF CacheInv, RequestsAreSpaced
<1> QED  BY <1>5, <1>6, <1>8, <1>9, <1>10, <1>11 DEF CacheInv

(* What no step of a request changes.                                      *)
LEMMA SameRequests ==
  ASSUME CacheInv, NEW f \in DOMAIN fetches, FetchStep(f)
  PROVE  /\ fetches' \in Seq(Fetch) /\ Len(fetches') = Len(fetches)
         /\ DOMAIN fetches' = DOMAIN fetches
         /\ \A g \in DOMAIN fetches : fetches'[g].at = fetches[g].at
         /\ \A g \in DOMAIN fetches \ {f} : fetches'[g] = fetches[g]
         /\ fetches'[f].state = "rejected" \/ slot' = slot
         /\ UNCHANGED <<relayKind, now, readable, asked>>
<1>1. fetches \in Seq(Fetch) /\ ReadableAt(now) \in SUBSET Entries
  BY DEF CacheInv, CacheTypeOK, ReadableAt
<1> DEFINE Becomes(state, entries) ==
      /\ fetches' = [fetches EXCEPT ![f].state = state, ![f].entries = entries]
      /\ state = "rejected" \/ slot' = slot
      /\ UNCHANGED <<relayKind, now, readable, asked>>
<1>2. \E state \in FetchStates, entries \in SUBSET Entries : Becomes(state, entries)
  <2>1. CASE RelayReads(f)
    <3>1. Becomes("read", ReadableAt(now))
      BY <2>1 DEF RelayReads
    <3> QED  BY <1>1, <3>1 DEF FetchStates
  <2>2. CASE Answered(f)
    <3>1. fetches[f].entries \in SUBSET Entries /\ fetches[f] \in Fetch
      BY RequestShape DEF CacheInv
    <3>2. [fetches[f] EXCEPT !.state = "resolved"]
            = [fetches[f] EXCEPT !.state = "resolved", !.entries = fetches[f].entries]
      BY <3>1 DEF Fetch
    <3>3. Becomes("resolved", fetches[f].entries)
      BY <2>2, <3>2 DEF Answered
    <3> QED  BY <3>1, <3>3 DEF FetchStates
  <2>3. CASE ResolvesEmpty(f)
    <3>1. Becomes("degraded", {})
      BY <2>3 DEF ResolvesEmpty
    <3>2. "degraded" \in FetchStates /\ {} \in SUBSET Entries
      BY DEF FetchStates
    <3> HIDE DEF Becomes
    <3> QED  BY <3>1, <3>2
  <2>4. CASE Rejects(f)
    <3>1. Becomes("rejected", {})
      BY <2>4 DEF Rejects
    <3>2. "rejected" \in FetchStates /\ {} \in SUBSET Entries
      BY DEF FetchStates
    <3> HIDE DEF Becomes
    <3> QED  BY <3>1, <3>2
  <2> QED  BY <2>1, <2>2, <2>3, <2>4 DEF FetchStep
<1>3. PICK state \in FetchStates, entries \in SUBSET Entries : Becomes(state, entries)
  BY <1>2
<1>4. fetches[f] \in Fetch
  BY RequestShape DEF CacheInv
<1>5. [fetches[f] EXCEPT !.state = state, !.entries = entries] \in Fetch
  BY <1>4 DEF Fetch
<1>6. fetches' = [fetches EXCEPT ![f] = [fetches[f] EXCEPT !.state = state, !.entries = entries]]
  BY <1>3
<1>7. fetches' \in Seq(Fetch) /\ Len(fetches') = Len(fetches) /\ DOMAIN fetches' = DOMAIN fetches
  BY <1>1, <1>5, <1>6, ExceptSeq
<1>8. fetches'[f].at = fetches[f].at
        /\ (fetches'[f].state = "rejected" \/ slot' = slot)
  BY <1>3, <1>4, <1>6 DEF Fetch
<1>9. \A g \in DOMAIN fetches \ {f} : fetches'[g] = fetches[g]
  BY <1>6
<1> QED  BY <1>3, <1>7, <1>8, <1>9

LEMMA FetchStepInv ==
  ASSUME CacheInv, NEW f \in DOMAIN fetches, FetchStep(f)
  PROVE  CacheInv'
<1> USE CacheAssumption
<1>1. /\ fetches' \in Seq(Fetch) /\ Len(fetches') = Len(fetches)
      /\ DOMAIN fetches' = DOMAIN fetches
      /\ \A g \in DOMAIN fetches : fetches'[g].at = fetches[g].at
      /\ \A g \in DOMAIN fetches \ {f} : fetches'[g] = fetches[g]
      /\ fetches'[f].state = "rejected" \/ slot' = slot
      /\ UNCHANGED <<relayKind, now, readable, asked>>
  BY SameRequests
<1>2. slot' = slot \/ (fetches'[f].state = "rejected" /\ slot.fetch = f /\ slot' = NoSlot)
  BY <1>1 DEF FetchStep, RelayReads, Answered, ResolvesEmpty, Rejects
<1>3. fetches'[f].state = "rejected" => slot' = NoSlot \/ slot'.fetch # f
  <2>1. fetches[f] \in Fetch /\ f # 0
    BY RequestShape DEF CacheInv
  <2>2. CASE Rejects(f)
    BY <2>1, <2>2 DEF Rejects, NoSlot
  <2>3. CASE RelayReads(f) \/ Answered(f) \/ ResolvesEmpty(f)
    BY <2>1, <2>3 DEF RelayReads, Answered, ResolvesEmpty, Fetch
  <2> QED  BY <2>2, <2>3 DEF FetchStep
<1>4. fetches[f].state # "rejected" /\ \A g \in DOMAIN fetches : fetches[g] \in Fetch /\ g # 0
  BY RequestShape DEF FetchStep, RelayReads, Answered, ResolvesEmpty, Rejects, CacheInv
<1>5. CacheTypeOK'
  BY <1>1, <1>2 DEF CacheInv, CacheTypeOK, NoSlot
<1>6. SlotOK'
  BY <1>1, <1>2, <1>3, <1>4 DEF CacheInv, SlotOK, NoSlot
<1>7. OthersAreOld'
  BY <1>1, <1>2, <1>4 DEF CacheInv, OthersAreOld, NoSlot
<1>8. AnswersAreComplete'
  <2> SUFFICES ASSUME fetches'[f].state \in {"read", "resolved"},
                      NEW x \in Entries, readable[x] < fetches[f].at
               PROVE  x \in fetches'[f].entries
    BY <1>1 DEF CacheInv, AnswersAreComplete
  <2>1. fetches[f].at <= now /\ fetches[f].at \in Nat /\ now \in Nat /\ readable[x] \in Nat
    BY RequestShape, CacheAssumption DEF CacheInv, CacheTypeOK, OthersAreOld, Never
  <2>2. CASE RelayReads(f)
    <3>1. x \in ReadableAt(now)
      BY <2>1 DEF ReadableAt
    <3>2. fetches[f] \in Fetch
      BY <1>4
    <3>3. fetches'[f].entries = ReadableAt(now)
      BY <2>2, <3>2 DEF RelayReads, Fetch
    <3> QED  BY <3>1, <3>3
  <2>3. CASE Answered(f)
    BY <1>4, <2>3 DEF Answered, CacheInv, CacheTypeOK, AnswersAreComplete, Fetch
  <2>4. CASE ResolvesEmpty(f) \/ Rejects(f)
    BY <1>4, <2>4 DEF ResolvesEmpty, Rejects, CacheInv, CacheTypeOK, Fetch
  <2> QED  BY <2>2, <2>3, <2>4 DEF FetchStep
<1>9. CallsAreRecent'
  BY <1>1 DEF CacheInv, CallsAreRecent
<1>10. RequestsAreSpaced'
  BY <1>1, <1>4 DEF CacheInv, RequestsAreSpaced
<1> QED  BY <1>5, <1>6, <1>7, <1>8, <1>9, <1>10 DEF CacheInv

LEMMA CacheNextInv == CacheInv /\ [CacheNext]_cacheVars => CacheInv'
<1> SUFFICES ASSUME CacheInv, [CacheNext]_cacheVars PROVE CacheInv'
  OBVIOUS
<1>1. CASE CacheNext
  BY <1>1, TickInv, BecomesReadableInv, ShareRequestInv, SendRequestInv, FetchStepInv
     DEF CacheNext
<1>2. CASE UNCHANGED cacheVars
  BY <1>2 DEF cacheVars, CacheInv, CacheTypeOK, SlotOK, OthersAreOld, AnswersAreComplete,
              CallsAreRecent, RequestsAreSpaced
<1> QED  BY <1>1, <1>2

(* The requests, the slot and the callers' answers keep their shapes.      *)
THEOREM CacheTypeCorrect == CacheSpec => []CacheTypeOK
<1>1. CacheInv => CacheTypeOK
  BY DEF CacheInv
<1> QED  BY <1>1, CacheInitInv, CacheNextInv, PTL DEF CacheSpec

(* The relay is not asked twice within the time to live unless it failed:  *)
(* fetchRemoteSubmissionIndex shares one request among its callers.        *)
THEOREM RequestsStaySpaced == CacheSpec => []RequestsAreSpaced
<1>1. CacheInv => RequestsAreSpaced
  BY DEF CacheInv
<1> QED  BY <1>1, CacheInitInv, CacheNextInv, PTL DEF CacheSpec

(* No caller of fetchRemoteSubmissionIndex misses an entry that was        *)
(* readable a time to live before it asked.                                *)
THEOREM AnswersStayRecent == CacheSpec => []AnswerIsRecent
<1>1. CacheInv => AnswerIsRecent
  <2> SUFFICES ASSUME CacheInv, NEW c \in Callers, asked[c] # NotAsked,
                      fetches[asked[c].fetch].state = "resolved",
                      NEW x \in Entries, readable[x] + TTL <= asked[c].at
               PROVE  x \in fetches[asked[c].fetch].entries
    BY DEF AnswerIsRecent
  <2>1. asked[c].fetch \in DOMAIN fetches
          /\ asked[c].at < fetches[asked[c].fetch].at + TTL
    BY DEF CacheInv, CallsAreRecent
  <2>2. fetches[asked[c].fetch].at \in Nat
    BY <2>1, RequestShape DEF CacheInv
  <2>3. readable[x] < fetches[asked[c].fetch].at
    BY <2>1, <2>2, CacheAssumption DEF CacheInv, CacheTypeOK, Never
  <2> QED  BY <2>1, <2>3 DEF CacheInv, AnswersAreComplete
<1> QED  BY <1>1, CacheInitInv, CacheNextInv, PTL DEF CacheSpec

-----------------------------------------------------------------------------
(* The path of an answer                                                   *)

(* The gate, the browser's queue and the request cache share no state: a   *)
(* behaviour of the three is one of each, so what is proved of a part      *)
(* holds of the path.                                                      *)
THEOREM PathFollowsItsParts == AnswerPathSpec => GateSafety /\ DeliverySpec /\ CacheSpec
<1>1. AnswerPathInit => GateInit /\ DeliveryInit /\ CacheInit
  BY DEF AnswerPathInit
<1>2. [AnswerPathNext]_<<focus, gateVars, deliveryVars, cacheVars>>
        => [GateNext]_gateVars /\ [DeliveryNext]_deliveryVars /\ [CacheNext]_cacheVars
  BY DEF AnswerPathNext
<1> QED  BY <1>1, <1>2, PTL DEF AnswerPathSpec, GateSafety, DeliverySpec, CacheSpec

(* Gate, queue and cache keep the shapes the code gives them on every      *)
(* instance of the path, whichever of them moves (PublicNftGateRuntime,    *)
(* handleSubmit, fetchRemoteSubmissionIndex).                              *)
THEOREM PathTypeCorrect == AnswerPathSpec => []AnswerPathTypeOK
<1> DEFINE Parts == {"gate", "delivery", "cache"}
<1>1. AnswerPathInit => focus \in Parts
  BY DEF AnswerPathInit
<1>2. focus \in Parts /\ [AnswerPathNext]_<<focus, gateVars, deliveryVars, cacheVars>>
        => (focus \in Parts)'
  BY DEF AnswerPathNext
<1>3. focus \in Parts /\ GateTypeOK /\ DeliveryTypeOK /\ CacheTypeOK => AnswerPathTypeOK
  BY DEF AnswerPathTypeOK
<1> QED  BY <1>1, <1>2, <1>3, PathFollowsItsParts, GateTypeCorrect, DeliveryTypeCorrect,
            CacheTypeCorrect, PTL DEF AnswerPathSpec

=============================================================================
