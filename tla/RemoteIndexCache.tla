--------------------------- MODULE RemoteIndexCache ---------------------------
(***************************************************************************)
(* The cache in front of the relay's index (storage/submissionDelivery.ts, *)
(* fetchRemoteSubmissionIndex): one form of one project, one tab.  The     *)
(* slot holds a promise and its expiry, so callers share a request that is *)
(* in flight as well as the answer it brought.  The relay itself is module *)
(* DriveRelay; here it is the set of entries an answer can have read.      *)
(***************************************************************************)
EXTENDS Naturals, Sequences

CONSTANTS
    Entries,        \* index entries the relay can come to hold
    Callers,        \* loads of the inbox that ask for the index
    TTL,            \* REMOTE_SUBMISSION_INDEX_CACHE_TTL_MS, in ticks
    Timeout,        \* REMOTE_SUBMISSION_INDEX_TIMEOUT_MS, in ticks
    MaxTime,        \* bound on the clock
    MaxFetches      \* bound on the requests sent

ASSUME CacheAssumption ==
    /\ TTL \in Nat \ {0} /\ Timeout \in Nat \ {0}
    /\ MaxTime \in Nat /\ MaxFetches \in Nat

VARIABLES
    relayKind,      \* which of the two transports the build uses
    now,
    readable,       \* the instants from which the relay lists each entry
    fetches,        \* the requests sent, oldest first
    slot,           \* remoteSubmissionIndexRequests, for this form
    asked           \* what each caller got: the request it waits for, and when

cacheVars == <<relayKind, now, readable, fetches, slot, asked>>

Kinds == {"appsScript", "http"}
Never == MaxTime + 1
NoSlot == [fetch |-> 0, expiresAt |-> 0]
NotAsked == [at |-> 0, fetch |-> 0]

FetchStates == {"sent", "read", "resolved", "degraded", "rejected"}
Fetch == [state : FetchStates, at : 0..MaxTime, entries : SUBSET Entries]

(* Each part of the state has the shape the module gives it.               *)
CacheTypeOK ==
    /\ relayKind \in Kinds
    /\ now \in 0..MaxTime
    /\ readable \in [Entries -> 0..Never]
    /\ fetches \in Seq(Fetch) /\ Len(fetches) <= MaxFetches
    /\ slot \in [fetch : 0..Len(fetches), expiresAt : Nat]
    /\ asked \in [Callers -> [at : 0..MaxTime, fetch : 0..Len(fetches)]]

ReadableAt(t) == {x \in Entries : readable[x] <= t}

CacheInit ==
    /\ relayKind \in Kinds
    /\ now = 0
    /\ readable = [x \in Entries |-> Never]
    /\ fetches = <<>>
    /\ slot = NoSlot
    /\ asked = [c \in Callers |-> NotAsked]

(* Another browser delivers a submission to the relay.                     *)
BecomesReadable(x) ==
    /\ readable[x] = Never
    /\ readable' = [readable EXCEPT ![x] = now]
    /\ UNCHANGED <<relayKind, now, fetches, slot, asked>>

(* A cached promise is used until its time is over.                        *)
Fresh == slot # NoSlot /\ slot.expiresAt > now

ShareRequest(c) ==
    /\ asked[c] = NotAsked
    /\ Fresh
    /\ asked' = [asked EXCEPT ![c] = [at |-> now, fetch |-> slot.fetch]]
    /\ UNCHANGED <<relayKind, now, readable, fetches, slot>>

(* Otherwise a request is sent; the time counts from here, not from the    *)
(* answer.                                                                 *)
SendRequest(c) ==
    /\ asked[c] = NotAsked
    /\ ~Fresh
    /\ Len(fetches) < MaxFetches
    /\ fetches' = Append(fetches, [state |-> "sent", at |-> now, entries |-> {}])
    /\ slot' = [fetch |-> Len(fetches'), expiresAt |-> now + TTL]
    /\ asked' = [asked EXCEPT ![c] = [at |-> now, fetch |-> Len(fetches')]]
    /\ UNCHANGED <<relayKind, now, readable>>

(* The relay reads its index at some moment between request and answer.    *)
RelayReads(f) ==
    /\ fetches[f].state = "sent"
    /\ fetches' = [fetches EXCEPT ![f].state = "read", ![f].entries = ReadableAt(now)]
    /\ UNCHANGED <<relayKind, now, readable, slot, asked>>

(* Mutant of Answered: the time counts from the answer, as if the answer   *)
(* were what is cached.                                                    *)
Answered_RenewsSlot(f) ==
    /\ fetches[f].state = "read"
    /\ fetches' = [fetches EXCEPT ![f].state = "resolved"]
    /\ slot' = IF slot.fetch = f THEN [slot EXCEPT !.expiresAt = now + TTL] ELSE slot
    /\ UNCHANGED <<relayKind, now, readable, asked>>

Answered(f) ==
    /\ fetches[f].state = "read"
    /\ fetches' = [fetches EXCEPT ![f].state = "resolved"]
    /\ UNCHANGED <<relayKind, now, readable, slot, asked>>

(* A JSONP request that fails, or is not answered in time, resolves to the *)
(* empty list, which stays in the slot; an answer after that is ignored.   *)
ResolvesEmpty(f) ==
    /\ relayKind = "appsScript"
    /\ fetches[f].state \in {"sent", "read"}
    /\ fetches' = [fetches EXCEPT ![f].state = "degraded", ![f].entries = {}]
    /\ UNCHANGED <<relayKind, now, readable, slot, asked>>

(* Mutant of Rejects: the rejection clears the slot without looking whose  *)
(* it is.                                                                  *)
Rejects_ClearsAny(f) ==
    /\ relayKind = "http"
    /\ fetches[f].state \in {"sent", "read"}
    /\ fetches' = [fetches EXCEPT ![f].state = "rejected", ![f].entries = {}]
    /\ slot' = NoSlot
    /\ UNCHANGED <<relayKind, now, readable, asked>>

(* A failed HTTP request rejects; the slot goes if it is still this one.   *)
Rejects(f) ==
    /\ relayKind = "http"
    /\ fetches[f].state \in {"sent", "read"}
    /\ fetches' = [fetches EXCEPT ![f].state = "rejected", ![f].entries = {}]
    /\ slot' = IF slot.fetch = f THEN NoSlot ELSE slot
    /\ UNCHANGED <<relayKind, now, readable, asked>>

(* The timer of a JSONP request lets no time pass beyond the limit.        *)
Overdue(f) ==
    /\ relayKind = "appsScript"
    /\ fetches[f].state \in {"sent", "read"}
    /\ now >= fetches[f].at + Timeout

Tick ==
    /\ now < MaxTime
    /\ \A f \in DOMAIN fetches : ~Overdue(f)
    /\ now' = now + 1
    /\ UNCHANGED <<relayKind, readable, fetches, slot, asked>>

FetchStep(f) == RelayReads(f) \/ Answered(f) \/ ResolvesEmpty(f) \/ Rejects(f)

CacheNext ==
    \/ Tick
    \/ \E x \in Entries : BecomesReadable(x)
    \/ \E c \in Callers : ShareRequest(c) \/ SendRequest(c)
    \/ \E f \in DOMAIN fetches : FetchStep(f)

CacheSpec == CacheInit /\ [][CacheNext]_cacheVars

-----------------------------------------------------------------------------
(***************************************************************************)
(* What a load gets is at most TTL old, however long the request took and  *)
(* whichever load sent it: an entry that was readable TTL before the load  *)
(* asked is in a complete answer (submissionDelivery.ts:168, :179).        *)
(***************************************************************************)
AnswerIsRecent ==
    \A c \in Callers :
        LET call == asked[c] IN
        (call # NotAsked /\ fetches[call.fetch].state = "resolved") =>
            \A x \in Entries :
                readable[x] + TTL <= call.at => x \in fetches[call.fetch].entries

(***************************************************************************)
(* The relay is not asked again within TTL of a request unless that one    *)
(* was rejected: neither a second caller nor the late rejection of an      *)
(* older request lets one through (lines 168 and 182-187).                 *)
(***************************************************************************)
RequestsAreSpaced ==
    \A f, g \in DOMAIN fetches :
        (f < g /\ fetches[f].state # "rejected") => fetches[g].at >= fetches[f].at + TTL

=============================================================================
