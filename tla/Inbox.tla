------------------------------- MODULE Inbox -------------------------------
(***************************************************************************)
(* The inbound pipeline shared by signed inbox requests and in-process     *)
(* local delivery: verify the signature against the remote key cache,      *)
(* judge the block, record the activity id, dispatch to the registered     *)
(* handlers one after the other.  Requests run concurrently; a sender may  *)
(* post the same activity again, to the same or another inbox, for as long *)
(* as SendWindow; the pruning loop forgets ids older than Retention.       *)
(***************************************************************************)
EXTENDS Integers, FiniteSets

CONSTANTS
  Requests,      \* request slots of the server
  Activities,    \* activity ids
  Recipients,    \* local actors
  Shared,        \* the shared inbox, as a destination
  RemoteSigners, \* signers whose requests arrive over HTTP
  SignerOf,      \* SignerOf[a]: the actor that sends activity a
  HandlerCount,  \* handlers registered for the activities' type
  Retention,     \* received_activity_retention_days
  SendWindow,    \* how long a sender keeps posting an activity
  KeyTtl,        \* public_key_cache_ttl
  MaxRotations,  \* bound: key rotations of a remote signer
  MaxFaults      \* bound: database errors and dying requests

ASSUME InboxAssumption ==
  /\ Shared \notin Recipients
  /\ HandlerCount \in Nat
  /\ Retention \in Nat /\ SendWindow \in Nat /\ KeyTtl \in Nat
  /\ SendWindow <= Retention
  /\ MaxRotations \in Nat /\ MaxFaults \in Nat

Signers == {SignerOf[a] : a \in Activities} \cup RemoteSigners
None == -1

VARIABLES
  posted,    \* posted[a]: time since a was first sent, or None
  remoteKey, \* remoteKey[s]: version of the key signer s publishes
  cached,    \* cached[s]: version in remote_public_keys, or None
  cachedAge, \* cachedAge[s]: time since fetched_at
  blocking,  \* blocks rows: pairs <<recipient, signer>>
  ledger,    \* ledger[a]: age of the received_activities row, or None
  slot,      \* slot[r]: the request in slot r and its stage
  reply,     \* reply[r]: "unauthorized" if the last request in slot r ended so
  excuse,    \* history: resolution failed or the key rotated under request r
  effects,   \* history: effects[a][n], runs of handler n on a, up to 2
  burnt,     \* history: processing of a broke off after it was recorded
  faults

keyVars  == <<remoteKey, cached, cachedAge>>
slotVars == <<slot, reply, excuse>>
history  == <<effects, burnt>>
vars == <<posted, keyVars, blocking, ledger, slotVars, history, faults>>

Dests   == Recipients \cup {Shared}
Replies == {"none", "unauthorized"}

(* A request: its activity and destination, the key version its signature  *)
(* was made with, the version it fetched itself, how many handlers have    *)
(* run, and the history bit "at some time since it arrived the destination *)
(* did not block the signer".                                              *)
FreeSlot == [stage |-> "free"]
RequestRecord ==
  [stage : {"verify", "store", "refetch", "restore", "block", "dedup", "dispatch"},
   act : Activities, dest : Dests, signed : 0..MaxRotations, key : 0..MaxRotations,
   ran : 0..HandlerCount, open : BOOLEAN]

(* Every variable has its type.                                            *)
TypeOK ==
  /\ posted \in [Activities -> None..(SendWindow + 1)]
  /\ remoteKey \in [Signers -> 0..MaxRotations]
  /\ cached \in [Signers -> None..MaxRotations]
  /\ cachedAge \in [Signers -> 0..(KeyTtl + 1)]
  /\ blocking \subseteq Recipients \X Signers
  /\ ledger \in [Activities -> None..(Retention + 1)]
  /\ slot \in [Requests -> RequestRecord \cup {FreeSlot}]
  /\ reply \in [Requests -> Replies]
  /\ excuse \in [Requests -> BOOLEAN]
  /\ effects \in [Activities -> [1..HandlerCount -> 0..2]]
  /\ burnt \in [Activities -> BOOLEAN]
  /\ faults \in 0..MaxFaults

Fault == faults < MaxFaults /\ faults' = faults + 1

At(r, stage) == slot[r].stage = stage

Busy(r) == ~At(r, "free")

Goto(r, stage) == slot' = [slot EXCEPT ![r].stage = stage] /\ UNCHANGED reply

(* The request is answered and its slot is free again; only a 401 is kept  *)
(* in mind.                                                                *)
Answer(r, outcome) ==
  /\ slot' = [slot EXCEPT ![r] = FreeSlot]
  /\ reply' = [reply EXCEPT ![r] = IF outcome \in Replies THEN outcome ELSE "none"]

Blocked(d, s) == d \in Recipients /\ <<d, s>> \in blocking

SignerOfRequest(r) == SignerOf[slot[r].act]

-----------------------------------------------------------------------------
(* process_inbound, or process_local for a local sender, is called.        *)
Post(r, a, d) ==
  LET s == SignerOf[a] IN
  /\ At(r, "free")
  /\ posted[a] <= SendWindow
  /\ posted' = [posted EXCEPT ![a] = IF @ = None THEN 0 ELSE @]
  /\ s \in RemoteSigners \/ d \in Recipients
  /\ slot' = [slot EXCEPT ![r] =
       [stage |-> IF s \in RemoteSigners THEN "verify" ELSE "block",
        act |-> a, dest |-> d, signed |-> remoteKey[s], key |-> 0, ran |-> 0,
        open |-> ~Blocked(d, s)]]
  /\ reply' = [reply EXCEPT ![r] = "none"]
  /\ excuse' = [excuse EXCEPT ![r] = FALSE]
  /\ UNCHANGED <<keyVars, blocking, ledger, history, faults>>

CacheValid(s) == cached[s] # None /\ cachedAge[s] <= KeyTtl

(* The signature verifies under key, or it does not.                       *)
Check(r, key, otherwise) ==
  IF key = slot[r].signed
    THEN slot' = [slot EXCEPT ![r].stage = "block", ![r].key = 0] /\ UNCHANGED reply
    ELSE otherwise

(* resolve_public_key(key_id, false) finds a fresh row: a first check with *)
(* the cached key; on failure the key is refetched.                        *)
VerifyCached(r) ==
  /\ At(r, "verify")
  /\ CacheValid(SignerOfRequest(r))
  /\ Check(r, cached[SignerOfRequest(r)], Goto(r, "refetch"))
  /\ UNCHANGED <<posted, keyVars, blocking, ledger, excuse, history, faults>>

(* fetch_and_cache's HTTP fetch: the key the signer publishes now.         *)
Fetched(r, next) ==
  /\ slot' = [slot EXCEPT ![r].key = remoteKey[SignerOfRequest(r)], ![r].stage = next]
  /\ UNCHANGED <<posted, keyVars, blocking, ledger, reply, excuse, history, faults>>

Fetch(r) ==
  /\ At(r, "verify")
  /\ ~CacheValid(SignerOfRequest(r))
  /\ Fetched(r, "store")

RefetchFromCache(r) ==
  /\ At(r, "refetch")
  /\ IF CacheValid(SignerOfRequest(r))
       THEN /\ Answer(r, "unauthorized")
            /\ UNCHANGED <<posted, keyVars, blocking, ledger, excuse, history, faults>>
       ELSE Fetched(r, "restore")

(* resolve_public_key(key_id, true) after a failed check, exactly once,    *)
(* even when the first key was itself just fetched.                        *)
Refetch(r) ==
  /\ At(r, "refetch")
  /\ Fetched(r, "restore")

Upsert(r) ==
  /\ At(r, "store") \/ At(r, "restore")
  /\ cached' = [cached EXCEPT ![SignerOfRequest(r)] = slot[r].key]
  /\ cachedAge' = [cachedAge EXCEPT ![SignerOfRequest(r)] = 0]

(* fetch_and_cache's upsert: the last writer wins, whatever it fetched and *)
(* when; the check uses the key this request fetched.                      *)
Store(r) ==
  /\ Upsert(r)
  /\ Check(r, slot[r].key,
           IF At(r, "store") THEN Goto(r, "refetch") ELSE Answer(r, "unauthorized"))
  /\ UNCHANGED <<posted, remoteKey, blocking, ledger, excuse, history, faults>>

(* The cache cannot be read, whatever it holds, or the key document cannot *)
(* be fetched or stored; the upsert may have committed all the same.       *)
ResolveFails(r) ==
  /\ slot[r].stage \in {"verify", "store", "refetch", "restore"}
  /\ Upsert(r) \/ UNCHANGED <<cached, cachedAge>>
  /\ Answer(r, "unauthorized")
  /\ excuse' = [excuse EXCEPT ![r] = TRUE]
  /\ UNCHANGED <<posted, remoteKey, blocking, ledger, history, faults>>

CheckBlockAfterRecording(r) ==
  /\ At(r, "block")
  /\ IF Blocked(slot[r].dest, SignerOfRequest(r))
       THEN /\ Answer(r, "forbidden")
            /\ ledger' = [ledger EXCEPT ![slot[r].act] = IF @ = None THEN 0 ELSE @]
       ELSE Goto(r, "dedup") /\ UNCHANGED ledger
  /\ UNCHANGED <<posted, keyVars, blocking, excuse, effects, burnt, faults>>

CheckBlockSkipped(r) ==
  /\ At(r, "block")
  /\ Goto(r, "dedup")
  /\ UNCHANGED <<posted, keyVars, blocking, ledger, excuse, effects, burnt, faults>>

(* block_policy.is_blocked: never for the shared inbox.                    *)
CheckBlock(r) ==
  /\ At(r, "block")
  /\ IF Blocked(slot[r].dest, SignerOfRequest(r))
       THEN Answer(r, "forbidden")
       ELSE Goto(r, "dedup")
  /\ UNCHANGED <<posted, keyVars, blocking, ledger, excuse, effects, burnt, faults>>

(* record_if_new: one INSERT ON CONFLICT DO NOTHING.                       *)
Record(r) ==
  /\ At(r, "dedup")
  /\ IF ledger[slot[r].act] # None
       THEN Answer(r, "duplicate") /\ UNCHANGED ledger
       ELSE /\ ledger' = [ledger EXCEPT ![slot[r].act] = 0]
            /\ IF HandlerCount = 0 THEN Answer(r, "accepted") ELSE Goto(r, "dispatch")
  /\ UNCHANGED <<posted, keyVars, blocking, excuse, history, faults>>

(* The insert commits but its reply is lost: a 500, and the id is taken.   *)
RecordReplyLost(r) ==
  /\ Fault
  /\ At(r, "dedup")
  /\ ledger[slot[r].act] = None
  /\ ledger' = [ledger EXCEPT ![slot[r].act] = 0]
  /\ burnt' = [burnt EXCEPT ![slot[r].act] = TRUE]
  /\ Answer(r, "error")
  /\ UNCHANGED <<posted, keyVars, blocking, excuse, effects>>

CountRun(a, n) ==
  effects' = [effects EXCEPT ![a][n] = IF @ < 2 THEN @ + 1 ELSE @]

HandleFirstOnly(r) ==
  /\ At(r, "dispatch")
  /\ CountRun(slot[r].act, slot[r].ran + 1)
  /\ Answer(r, "accepted")
  /\ UNCHANGED <<posted, keyVars, blocking, ledger, excuse, burnt, faults>>

HandlePastLast(r) ==
  /\ At(r, "dispatch")
  /\ CountRun(slot[r].act, slot[r].ran + 1)
  /\ IF slot[r].ran > HandlerCount
       THEN Answer(r, "accepted")
       ELSE slot' = [slot EXCEPT ![r].ran = @ + 1] /\ UNCHANGED reply
  /\ UNCHANGED <<posted, keyVars, blocking, ledger, excuse, burnt, faults>>

(* dispatch: the next handler succeeds, Handled or Ignored.                *)
Handle(r) ==
  /\ At(r, "dispatch")
  /\ CountRun(slot[r].act, slot[r].ran + 1)
  /\ IF slot[r].ran + 1 = HandlerCount
       THEN Answer(r, "accepted")
       ELSE slot' = [slot EXCEPT ![r].ran = @ + 1] /\ UNCHANGED reply
  /\ UNCHANGED <<posted, keyVars, blocking, ledger, excuse, burnt, faults>>

(* The next handler fails: the error answers the request, the rest of the  *)
(* handlers are skipped and the recorded id stays.                         *)
HandlerFails(r) ==
  /\ Fault
  /\ At(r, "dispatch")
  /\ burnt' = [burnt EXCEPT ![slot[r].act] = TRUE]
  /\ Answer(r, "error")
  /\ UNCHANGED <<posted, keyVars, blocking, ledger, excuse, effects>>

(* The process dies, or the block query or the insert fails, at any stage. *)
RequestDies(r) ==
  /\ Fault
  /\ Busy(r)
  /\ burnt' = [burnt EXCEPT ![slot[r].act] = @ \/ At(r, "dispatch")]
  /\ Answer(r, "error")
  /\ UNCHANGED <<posted, keyVars, blocking, ledger, excuse, effects>>

-----------------------------------------------------------------------------
(* Its last look at the signer's key is still to come.                     *)
AwaitsKey(r) == At(r, "verify") \/ At(r, "store") \/ At(r, "refetch")

(* External: a remote signer rotates its key, an owner blocks or unblocks. *)
Rotate(s) ==
  /\ s \in RemoteSigners
  /\ remoteKey[s] < MaxRotations
  /\ remoteKey' = [remoteKey EXCEPT ![s] = @ + 1]
  /\ excuse' = [r \in Requests |->
       excuse[r] \/ (AwaitsKey(r) /\ SignerOfRequest(r) = s)]
  /\ UNCHANGED <<posted, cached, cachedAge, blocking, ledger, slot, reply, history, faults>>

Concerns(r, d, s) == Busy(r) /\ slot[r].dest = d /\ SignerOfRequest(r) = s

ToggleBlock(d, s) ==
  /\ blocking' = IF <<d, s>> \in blocking THEN blocking \ {<<d, s>>}
                                          ELSE blocking \cup {<<d, s>>}
  /\ slot' = [r \in Requests |-> IF Concerns(r, d, s) THEN [slot[r] EXCEPT !.open = TRUE]
                                                      ELSE slot[r]]
  /\ UNCHANGED <<posted, keyVars, ledger, reply, excuse, history, faults>>

ExpiredEarly(a) == ledger[a] > 0

(* prune_expired's cutoff: received_at < now - retention.                  *)
Expired(a) == ledger[a] > Retention

Prune ==
  /\ \E a \in Activities : Expired(a)
  /\ ledger' = [a \in Activities |-> IF Expired(a) THEN None ELSE ledger[a]]
  /\ UNCHANGED <<posted, keyVars, blocking, slotVars, history, faults>>

Older(t, bound) == IF t # None /\ t <= bound THEN t + 1 ELSE t

(* Time passes between requests: retention is days, a request seconds.     *)
Tick ==
  /\ \A r \in Requests : ~Busy(r)
  /\ posted' = [a \in Activities |-> Older(posted[a], SendWindow)]
  /\ ledger' = [a \in Activities |-> Older(ledger[a], Retention)]
  /\ cachedAge' = [s \in Signers |-> Older(cachedAge[s], KeyTtl)]
  /\ UNCHANGED <<remoteKey, cached, blocking, slotVars, history, faults>>

Init ==
  /\ posted = [a \in Activities |-> None]
  /\ remoteKey = [s \in Signers |-> 0]
  /\ cached = [s \in Signers |-> None]
  /\ cachedAge = [s \in Signers |-> 0]
  /\ blocking = {}
  /\ ledger = [a \in Activities |-> None]
  /\ slot = [r \in Requests |-> FreeSlot]
  /\ reply = [r \in Requests |-> "none"]
  /\ excuse = [r \in Requests |-> FALSE]
  /\ effects = [a \in Activities |-> [n \in 1..HandlerCount |-> 0]]
  /\ burnt = [a \in Activities |-> FALSE]
  /\ faults = 0

Next ==
  \/ \E r \in Requests :
       \/ \E a \in Activities, d \in Dests : Post(r, a, d)
       \/ VerifyCached(r) \/ Fetch(r) \/ Refetch(r) \/ Store(r) \/ ResolveFails(r)
       \/ CheckBlock(r)
       \/ Record(r) \/ RecordReplyLost(r)
       \/ Handle(r) \/ HandlerFails(r)
       \/ RequestDies(r)
  \/ \E s \in Signers : Rotate(s)
  \/ \E d \in Recipients, s \in Signers : ToggleBlock(d, s)
  \/ Prune
  \/ Tick

Spec == Init /\ [][Next]_vars

-----------------------------------------------------------------------------
(* dedup.rs: however often, wherever and however concurrently an activity  *)
(* is posted, no handler runs on it twice, across pruning too.             *)
HandledAtMostOnce ==
  \A a \in Activities : \A n \in 1..HandlerCount : effects[a][n] <= 1

(* process_verified: an activity whose id is recorded has been through     *)
(* every handler, unless a request is at it or broke off in the middle;    *)
(* only such a break can turn a retry into a Duplicate that lost the work, *)
(* a refusal of one recipient's copy because of a block never does.        *)
RecordedMeansHandled ==
  \A a \in Activities :
    \/ ledger[a] = None
    \/ burnt[a]
    \/ \E r \in Requests : At(r, "dispatch") /\ slot[r].act = a
    \/ \A n \in 1..HandlerCount : effects[a][n] > 0

(* A destination that blocked the signer during the whole request never    *)
(* has the activity recorded or dispatched on its behalf.                  *)
BlockIsHonoured ==
  \A r \in Requests :
    At(r, "dedup") \/ At(r, "dispatch") => slot[r].open \/ slot[r].dest = Shared

(* verify_request's forced refetch: a genuine signature is refused only    *)
(* when resolve_public_key failed (at reading the cache, fetching the key  *)
(* or storing it) or the key was rotated during the request, never because *)
(* the cache still held the key from before a rotation.                    *)
RefusedOnlyForCause ==
  \A r \in Requests : reply[r] = "unauthorized" => excuse[r]
=============================================================================
