---------------------------- MODULE InboxProofs ----------------------------
(***************************************************************************)
(* Theorems about Inbox for any requests, activities, signers and handlers *)
(* and any windows of time with SendWindow <= Retention.                   *)
(***************************************************************************)
EXTENDS Inbox, TLAPS

-----------------------------------------------------------------------------
(* The inductive invariant                                                 *)

(* Handlers run one after the other, from the first.                       *)
RanInOrder ==
  \A r \in Requests :
    Busy(r) => IF At(r, "dispatch") THEN slot[r].ran < HandlerCount ELSE slot[r].ran = 0

(* A row is never older than its sender's first attempt, so that when it is*)
(* pruned nobody sends the activity any more.                              *)
RowsFollowPosts ==
  \A a \in Activities : ledger[a] # None =>
    posted[a] # None /\ (posted[a] >= ledger[a] \/ posted[a] = SendWindow + 1)

(* A request is short: its activity is still in its sender's window.       *)
RequestsAreRecent ==
  \A r \in Requests : Busy(r) => posted[slot[r].act] \in 0..SendWindow

(* No row means no handler yet, as long as the activity may still be sent. *)
UnrecordedIsUnhandled ==
  \A a \in Activities : ledger[a] = None /\ posted[a] <= SendWindow =>
    /\ \A n \in 1..HandlerCount : effects[a][n] = 0
    /\ \A r \in Requests : At(r, "dispatch") => slot[r].act # a

(* The one request that dispatches an activity knows how far it got.       *)
DispatchIsExclusive ==
  \A r \in Requests : At(r, "dispatch") =>
    /\ \A q \in Requests : At(q, "dispatch") /\ slot[q].act = slot[r].act => q = r
    /\ \A n \in 1..HandlerCount :
         effects[slot[r].act][n] = IF n <= slot[r].ran THEN 1 ELSE 0

(* Only a block that stood all along keeps a request from being open, and  *)
(* such a request gets no further than the block check.                    *)
ClosedMeansBlocked ==
  \A r \in Requests : Busy(r) =>
    \/ slot[r].open \/ slot[r].dest = Shared
    \/ ~At(r, "dedup") /\ ~At(r, "dispatch") /\ Blocked(slot[r].dest, SignerOfRequest(r))

(* Without an excuse the key a request still has to see is the one it was  *)
(* signed with, and so is the one it has refetched.                        *)
KeysAreCurrent ==
  \A r \in Requests : ~excuse[r] =>
    /\ AwaitsKey(r) => slot[r].signed = remoteKey[SignerOfRequest(r)]
    /\ At(r, "restore") => slot[r].key = slot[r].signed

Typed == TypeOK /\ RanInOrder
Once  == /\ RowsFollowPosts /\ RequestsAreRecent /\ UnrecordedIsUnhandled
         /\ DispatchIsExclusive /\ HandledAtMostOnce

-----------------------------------------------------------------------------
(* Steps of one request                                                    *)

Stages == {"verify", "store", "refetch", "restore", "block", "dedup", "dispatch"}
SlotType == [Requests -> RequestRecord \cup {FreeSlot}]

(* Request r goes on as the same request; the others are not touched.      *)
Keeps(r) ==
  /\ slot'[r] \in RequestRecord
  /\ slot'[r].act = slot[r].act /\ slot'[r].dest = slot[r].dest
  /\ slot'[r].signed = slot[r].signed /\ slot'[r].open = slot[r].open
OthersStay(r) == \A q \in Requests \ {r} : slot'[q] = slot[q]

(* Request r goes to stage, and holds key there.                           *)
Writes(r, stage, key) ==
  \/ slot' = [slot EXCEPT ![r].stage = stage] /\ key = slot[r].key
  \/ slot' = [slot EXCEPT ![r].stage = stage, ![r].key = key]
  \/ slot' = [slot EXCEPT ![r].key = key, ![r].stage = stage]

LEMMA BusyTyped ==
  ASSUME TypeOK, NEW r \in Requests
  PROVE  /\ Busy(r) <=> slot[r] \in RequestRecord
         /\ Busy(r) => /\ slot[r].stage \in Stages
                       /\ slot[r].act \in Activities /\ slot[r].dest \in Dests
                       /\ slot[r].signed \in 0..MaxRotations
                       /\ slot[r].key \in 0..MaxRotations
                       /\ slot[r].ran \in 0..HandlerCount /\ slot[r].open \in BOOLEAN
                       /\ SignerOfRequest(r) \in Signers
         /\ ~Busy(r) <=> slot[r] = FreeSlot
  BY DEF TypeOK, RequestRecord, FreeSlot, Busy, At, Stages, SignerOfRequest, Signers

(* A stage and a key are written: whatever is not written is kept.         *)
LEMMA StageFrame ==
  ASSUME TypeOK, NEW r \in Requests, Busy(r),
         NEW stage \in Stages, NEW key \in 0..MaxRotations, Writes(r, stage, key)
  PROVE  /\ Keeps(r) /\ OthersStay(r) /\ slot' \in SlotType
         /\ slot'[r].stage = stage /\ slot'[r].key = key /\ slot'[r].ran = slot[r].ran
<1>1. slot[r] \in RequestRecord
  BY BusyTyped
<1> DEFINE new == [slot[r] EXCEPT !.stage = stage, !.key = key]
<1>2. /\ new \in RequestRecord /\ new.stage = stage /\ new.key = key
      /\ new.act = slot[r].act /\ new.dest = slot[r].dest
      /\ new.signed = slot[r].signed /\ new.open = slot[r].open /\ new.ran = slot[r].ran
  BY <1>1 DEF RequestRecord, Stages
<1>3. slot' = [slot EXCEPT ![r] = new]
  <2>1. CASE slot' = [slot EXCEPT ![r].stage = stage] /\ key = slot[r].key
    <3>1. [slot[r] EXCEPT !.stage = stage] = new
      BY <1>1, <2>1 DEF RequestRecord
    <3> QED
      BY <2>1, <3>1
  <2>2. CASE slot' = [slot EXCEPT ![r].stage = stage, ![r].key = key]
    BY <2>2 DEF TypeOK
  <2>3. CASE slot' = [slot EXCEPT ![r].key = key, ![r].stage = stage]
    <3>1. [[slot[r] EXCEPT !.key = key] EXCEPT !.stage = stage] = new
      BY <1>1 DEF RequestRecord
    <3> QED
      BY <2>3, <3>1 DEF TypeOK
  <2> QED
    BY <2>1, <2>2, <2>3 DEF Writes
<1>4. slot'[r] = new /\ OthersStay(r) /\ slot' \in SlotType
  BY <1>2, <1>3 DEF TypeOK, SlotType, OthersStay
<1> QED
  BY <1>2, <1>4 DEF Keeps

LEMMA GotoFrame ==
  ASSUME TypeOK, NEW r \in Requests, Busy(r), NEW stage \in Stages, Goto(r, stage)
  PROVE  /\ Keeps(r) /\ OthersStay(r) /\ slot' \in SlotType /\ reply' = reply
         /\ slot'[r].stage = stage /\ slot'[r].key = slot[r].key
         /\ slot'[r].ran = slot[r].ran
<1>1. PICK key \in 0..MaxRotations : key = slot[r].key
  BY BusyTyped
<1>2. Writes(r, stage, key) /\ reply' = reply
  BY <1>1 DEF Goto, Writes
<1>3. /\ Keeps(r) /\ OthersStay(r) /\ slot' \in SlotType
      /\ slot'[r].stage = stage /\ slot'[r].key = key /\ slot'[r].ran = slot[r].ran
  BY <1>1, <1>2, StageFrame
<1> QED
  BY <1>1, <1>2, <1>3

LEMMA AnswerFrame ==
  ASSUME TypeOK, NEW r \in Requests, NEW outcome, Answer(r, outcome)
  PROVE  /\ slot'[r] = FreeSlot /\ OthersStay(r) /\ slot' \in SlotType
         /\ reply' \in [Requests -> Replies]
         /\ \A q \in Requests : q # r => reply'[q] = reply[q]
         /\ outcome # "unauthorized" => reply'[r] # "unauthorized"
  BY DEF Answer, OthersStay, SlotType, TypeOK, Replies

LEMMA RanFrame ==
  ASSUME TypeOK, NEW r \in Requests, Busy(r), slot[r].ran + 1 \in 0..HandlerCount,
         slot' = [slot EXCEPT ![r].ran = @ + 1]
  PROVE  /\ Keeps(r) /\ OthersStay(r) /\ slot' \in SlotType
         /\ slot'[r].stage = slot[r].stage /\ slot'[r].key = slot[r].key
         /\ slot'[r].ran = slot[r].ran + 1
<1>1. slot[r] \in RequestRecord
  BY BusyTyped
<1> DEFINE new == [slot[r] EXCEPT !.ran = slot[r].ran + 1]
<1>2. /\ new \in RequestRecord /\ new.stage = slot[r].stage /\ new.key = slot[r].key
      /\ new.act = slot[r].act /\ new.dest = slot[r].dest
      /\ new.signed = slot[r].signed /\ new.open = slot[r].open /\ new.ran = slot[r].ran + 1
  BY <1>1 DEF RequestRecord
<1>3. slot' = [slot EXCEPT ![r] = new]
  OBVIOUS
<1>4. slot'[r] = new /\ OthersStay(r) /\ slot' \in SlotType
  BY <1>2, <1>3 DEF TypeOK, SlotType, OthersStay
<1> QED
  BY <1>2, <1>4 DEF Keeps

(* Up to the dedup check a step touches its own request, its reply and,    *)
(* when it stores a key, the cache.                                        *)
Early(r) ==
  \/ VerifyCached(r) \/ Fetch(r) \/ Refetch(r) \/ Store(r) \/ ResolveFails(r)
  \/ CheckBlock(r)

LEMMA EarlyFrame ==
  ASSUME TypeOK, NEW r \in Requests, Early(r)
  PROVE  /\ slot[r].stage \in {"verify", "store", "refetch", "restore", "block"}
         /\ OthersStay(r) /\ slot' \in SlotType
         /\ \/ slot'[r] = FreeSlot
            \/ Keeps(r) /\ slot'[r].ran = slot[r].ran /\ slot'[r].stage # "dispatch"
         /\ reply' \in [Requests -> Replies]
         /\ UNCHANGED <<posted, remoteKey, blocking, ledger, effects, burnt, faults>>
<1> USE DEF keyVars, history
<1>1. /\ slot[r].stage \in {"verify", "store", "refetch", "restore", "block"}
      /\ UNCHANGED <<posted, remoteKey, blocking, ledger, effects, burnt, faults>>
  BY DEF Early, VerifyCached, Fetch, Refetch, Store, Upsert, ResolveFails, CheckBlock, Fetched, At
<1>2. Busy(r) /\ slot[r].key \in 0..MaxRotations /\ remoteKey[SignerOfRequest(r)] \in 0..MaxRotations
  BY <1>1, BusyTyped DEF TypeOK, Busy, At
<1>3. 0 \in 0..MaxRotations
  BY InboxAssumption
<1> DEFINE Answers == \E outcome : Answer(r, outcome)
           Goes    == \E stage \in Stages \ {"dispatch"} : Goto(r, stage)
           Rekeys  == \E stage \in Stages \ {"dispatch"}, key \in 0..MaxRotations :
                        Writes(r, stage, key) /\ UNCHANGED reply
<1>4. Answers \/ Goes \/ Rekeys
  <2>1. CASE VerifyCached(r)
    BY <1>3, <2>1 DEF VerifyCached, Check, Writes, Stages
  <2>2. CASE Fetch(r) \/ Refetch(r)
    BY <1>2, <2>2 DEF Fetch, Refetch, Fetched, Writes, Stages
  <2>3. CASE Store(r)
    BY <1>3, <2>3 DEF Store, Check, Writes, Stages
  <2>4. CASE ResolveFails(r) \/ CheckBlock(r)
    BY <2>4 DEF ResolveFails, CheckBlock, Stages
  <2> HIDE DEF Answers, Goes, Rekeys
  <2> QED
    BY <2>1, <2>2, <2>3, <2>4 DEF Early
<1>5. CASE Answers
  BY <1>1, <1>5, AnswerFrame
<1>6. CASE Goes
  BY <1>1, <1>2, <1>6, GotoFrame DEF TypeOK
<1>7. CASE Rekeys
  <2>1. PICK stage \in Stages \ {"dispatch"}, key \in 0..MaxRotations :
          Writes(r, stage, key) /\ UNCHANGED reply
    BY <1>7
  <2>2. /\ Keeps(r) /\ OthersStay(r) /\ slot' \in SlotType
        /\ slot'[r].stage = stage /\ slot'[r].ran = slot[r].ran
    BY <1>2, <2>1, StageFrame
  <2> QED
    BY <1>1, <2>1, <2>2 DEF TypeOK
<1> QED
  BY <1>4, <1>5, <1>6, <1>7

(* A request arrives in a free slot.                                       *)
Arrival(a, d) ==
  [stage |-> IF SignerOf[a] \in RemoteSigners THEN "verify" ELSE "block",
   act |-> a, dest |-> d, signed |-> remoteKey[SignerOf[a]], key |-> 0, ran |-> 0,
   open |-> ~Blocked(d, SignerOf[a])]

LEMMA PostFrame ==
  ASSUME TypeOK, NEW r \in Requests, NEW a \in Activities, NEW d \in Dests, Post(r, a, d)
  PROVE  /\ ~Busy(r) /\ slot'[r] = Arrival(a, d) /\ Arrival(a, d) \in RequestRecord
         /\ OthersStay(r) /\ slot' \in SlotType
<1>1. slot' = [slot EXCEPT ![r] = Arrival(a, d)]
  BY DEF Post, Arrival
<1>2. Arrival(a, d) \in RequestRecord
  BY InboxAssumption DEF Arrival, RequestRecord, Blocked, TypeOK, Signers
<1> QED
  BY <1>1, <1>2 DEF Post, Busy, OthersStay, SlotType, TypeOK

(* A block that comes or goes opens the requests it concerns.              *)
LEMMA ToggleFrame ==
  ASSUME TypeOK, NEW d \in Recipients, NEW s \in Signers, ToggleBlock(d, s)
  PROVE  /\ slot' \in SlotType
         /\ \A r \in Requests :
              IF Concerns(r, d, s)
                THEN /\ slot'[r] \in RequestRecord /\ slot'[r].open
                     /\ slot'[r].stage = slot[r].stage /\ slot'[r].act = slot[r].act
                     /\ slot'[r].dest = slot[r].dest /\ slot'[r].signed = slot[r].signed
                     /\ slot'[r].key = slot[r].key /\ slot'[r].ran = slot[r].ran
                ELSE slot'[r] = slot[r]
<1>1. slot' = [r \in Requests |-> IF Concerns(r, d, s) THEN [slot[r] EXCEPT !.open = TRUE]
                                                      ELSE slot[r]]
  BY DEF ToggleBlock
<1>2. ASSUME NEW r \in Requests, Concerns(r, d, s)
      PROVE  /\ slot'[r] \in RequestRecord /\ slot'[r].open
             /\ slot'[r].stage = slot[r].stage /\ slot'[r].act = slot[r].act
             /\ slot'[r].dest = slot[r].dest /\ slot'[r].signed = slot[r].signed
             /\ slot'[r].key = slot[r].key /\ slot'[r].ran = slot[r].ran
  <2>1. slot[r] \in RequestRecord
    BY <1>2, BusyTyped DEF Concerns
  <2>2. slot'[r] = [slot[r] EXCEPT !.open = TRUE]
    BY <1>1, <1>2
  <2> QED
    BY <2>1, <2>2 DEF RequestRecord
<1>3. \A r \in Requests : ~Concerns(r, d, s) => slot'[r] = slot[r]
  BY <1>1
<1>4. slot' \in SlotType
  <2>1. \A r \in Requests : slot'[r] \in RequestRecord \cup {FreeSlot}
    BY <1>2, <1>3 DEF TypeOK
  <2> QED
    BY <1>1, <2>1 DEF SlotType
<1> QED
  BY <1>2, <1>3, <1>4

-----------------------------------------------------------------------------
(* Type correctness                                                        *)

LEMMA TypedInit == Init => Typed
  BY InboxAssumption
  DEF Init, Typed, TypeOK, RanInOrder, None, FreeSlot, Busy, At, Replies, RequestRecord

(* The step leaves r free, or as far in its handlers as its stage allows.  *)
InOrder(r) ==
  \/ slot'[r] = FreeSlot
  \/ /\ slot'[r].stage \in Stages
     /\ IF slot'[r].stage = "dispatch" THEN slot'[r].ran < HandlerCount ELSE slot'[r].ran = 0

LEMMA OrderKept ==
  ASSUME RanInOrder, NEW r \in Requests, OthersStay(r), InOrder(r)
  PROVE  RanInOrder'
  BY DEF OthersStay, InOrder, RanInOrder, Busy, At, FreeSlot

(* A handler's run is counted, up to two.                                  *)
LEMMA CountFrame ==
  ASSUME TypeOK, NEW a \in Activities, NEW n \in 1..HandlerCount, CountRun(a, n)
  PROVE  /\ effects' \in [Activities -> [1..HandlerCount -> 0..2]]
         /\ effects'[a][n] = IF effects[a][n] < 2 THEN effects[a][n] + 1 ELSE effects[a][n]
         /\ \A b \in Activities \ {a} : effects'[b] = effects[b]
         /\ \A k \in 1..HandlerCount : k # n => effects'[a][k] = effects[a][k]
<1> DEFINE up   == IF effects[a][n] < 2 THEN effects[a][n] + 1 ELSE effects[a][n]
           runs == [effects[a] EXCEPT ![n] = up]
<1>1. effects' = [effects EXCEPT ![a] = runs]
  BY DEF CountRun, TypeOK
<1>2. effects[a] \in [1..HandlerCount -> 0..2] /\ up \in 0..2
  <2>1. effects[a] \in [1..HandlerCount -> 0..2]
    BY DEF TypeOK
  <2>2. effects[a][n] \in 0..2
    BY <2>1
  <2> QED
    BY <2>1, <2>2
<1>3. /\ runs \in [1..HandlerCount -> 0..2] /\ runs[n] = up
      /\ \A k \in 1..HandlerCount : k # n => runs[k] = effects[a][k]
  BY <1>2
<1> HIDE DEF runs
<1>4. /\ effects' \in [Activities -> [1..HandlerCount -> 0..2]] /\ effects'[a] = runs
      /\ \A b \in Activities \ {a} : effects'[b] = effects[b]
  BY <1>1, <1>3 DEF TypeOK
<1> QED
  BY <1>3, <1>4

LEMMA TypedStep == Typed /\ [Next]_vars => Typed'
<1> SUFFICES ASSUME Typed, [Next]_vars PROVE Typed'
  OBVIOUS
<1> USE InboxAssumption DEF keyVars, slotVars, history
<1>a. TypeOK /\ RanInOrder
  BY DEF Typed
<1>1. ASSUME NEW r \in Requests, NEW a \in Activities, NEW d \in Dests, Post(r, a, d)
      PROVE  Typed'
  <2>1. posted' \in [Activities -> None..(SendWindow + 1)]
    BY <1>1, <1>a DEF Post, None, TypeOK
  <2>2. OthersStay(r) /\ slot' \in SlotType /\ slot'[r] = Arrival(a, d)
    BY <1>1, <1>a, PostFrame
  <2>3. InOrder(r)
    BY <2>2 DEF InOrder, Arrival, Stages
  <2>4. RanInOrder'
    BY <1>a, <2>2, <2>3, OrderKept
  <2> QED
    BY <1>1, <1>a, <2>1, <2>2, <2>4 DEF Post, Typed, TypeOK, SlotType, Replies
<1>2. ASSUME NEW r \in Requests, Early(r) PROVE Typed'
  <2>1. /\ slot' \in SlotType /\ reply' \in [Requests -> Replies]
        /\ UNCHANGED <<posted, remoteKey, blocking, ledger, effects, burnt, faults>>
        /\ slot[r].stage \in {"verify", "store", "refetch", "restore", "block"}
    BY <1>2, <1>a, EarlyFrame
  <2>2. RanInOrder'
    <3>1. Busy(r) /\ ~At(r, "dispatch")
      BY <2>1 DEF Busy, At
    <3>2. slot[r].ran = 0
      BY <3>1, <1>a DEF RanInOrder
    <3>3. OthersStay(r) /\ InOrder(r)
      BY <1>2, <1>a, <3>2, EarlyFrame DEF InOrder, Keeps, RequestRecord, Stages
    <3> QED
      BY <1>a, <3>3, OrderKept
  <2>3. /\ SignerOfRequest(r) \in Signers /\ slot[r].key \in 0..MaxRotations
    BY <2>1, <1>a, BusyTyped DEF Busy, At
  <2>4. /\ cached' \in [Signers -> None..MaxRotations]
        /\ cachedAge' \in [Signers -> 0..(KeyTtl + 1)]
    <3>1. CASE Upsert(r)
      BY <3>1, <1>a, <2>3 DEF Upsert, TypeOK, None
    <3>2. CASE UNCHANGED <<cached, cachedAge>>
      BY <3>2, <1>a DEF TypeOK
    <3> QED
      BY <1>2, <3>1, <3>2
      DEF Early, VerifyCached, Fetch, Refetch, Store, ResolveFails, CheckBlock, Fetched
  <2>5. excuse' \in [Requests -> BOOLEAN]
    BY <1>2, <1>a
    DEF Early, VerifyCached, Fetch, Refetch, Store, ResolveFails, CheckBlock, Fetched, TypeOK
  <2> QED
    BY <1>a, <2>1, <2>2, <2>4, <2>5 DEF Typed, TypeOK, SlotType
<1>3. ASSUME NEW r \in Requests, Record(r) \/ RecordReplyLost(r) PROVE Typed'
  <2>1. /\ Busy(r) /\ ~At(r, "dispatch") /\ slot[r].act \in Activities
        /\ slot[r].ran = 0
    BY <1>3, <1>a, BusyTyped DEF Record, RecordReplyLost, At, Busy, RanInOrder
  <2>2. \/ \E outcome : Answer(r, outcome)
        \/ Goto(r, "dispatch") /\ HandlerCount # 0
    BY <1>3 DEF Record, RecordReplyLost
  <2>3. slot' \in SlotType /\ reply' \in [Requests -> Replies] /\ RanInOrder'
    <3>1. CASE \E outcome : Answer(r, outcome)
      BY <3>1, <1>a, OrderKept, AnswerFrame DEF InOrder
    <3>2. CASE Goto(r, "dispatch") /\ HandlerCount # 0
      <4>1. /\ Keeps(r) /\ OthersStay(r) /\ slot' \in SlotType /\ reply' = reply
            /\ slot'[r].stage = "dispatch" /\ slot'[r].ran = 0
        BY <3>2, <1>a, <2>1, GotoFrame DEF Stages
      <4>2. InOrder(r)
        BY <3>2, <4>1 DEF InOrder, Stages
      <4> QED
        BY <1>a, <4>1, <4>2, OrderKept DEF TypeOK
    <3> QED
      BY <2>2, <3>1, <3>2
  <2>4. ledger' \in [Activities -> None..(Retention + 1)]
    BY <1>3, <1>a, <2>1 DEF Record, RecordReplyLost, TypeOK, None
  <2>5. burnt' \in [Activities -> BOOLEAN] /\ faults' \in 0..MaxFaults
    <3>1. CASE Record(r)
      BY <3>1, <1>a DEF Record, TypeOK
    <3>2. CASE RecordReplyLost(r)
      BY <3>2, <1>a, <2>1 DEF RecordReplyLost, Fault, TypeOK
    <3> QED
      BY <1>3, <3>1, <3>2
  <2> QED
    BY <1>3, <1>a, <2>3, <2>4, <2>5 DEF Record, RecordReplyLost, Typed, TypeOK, SlotType
<1>4. ASSUME NEW r \in Requests, Handle(r) PROVE Typed'
  <2>1. /\ Busy(r) /\ slot[r].act \in Activities /\ slot[r].ran \in 0..HandlerCount
        /\ slot[r].ran < HandlerCount /\ slot[r].stage = "dispatch"
    BY <1>4, <1>a, BusyTyped DEF Handle, At, Busy, RanInOrder
  <2>2. effects' \in [Activities -> [1..HandlerCount -> 0..2]]
    BY <1>4, <1>a, <2>1, CountFrame DEF Handle
  <2>3. slot' \in SlotType /\ reply' \in [Requests -> Replies] /\ RanInOrder'
    <3>1. CASE Answer(r, "accepted")
      BY <3>1, <1>a, OrderKept, AnswerFrame DEF InOrder
    <3>2. CASE /\ slot[r].ran + 1 # HandlerCount
               /\ slot' = [slot EXCEPT ![r].ran = @ + 1] /\ UNCHANGED reply
      <4>1. slot[r].ran + 1 \in 0..HandlerCount /\ slot[r].ran + 1 < HandlerCount
        BY <2>1, <3>2
      <4>2. /\ Keeps(r) /\ OthersStay(r) /\ slot' \in SlotType
            /\ slot'[r].stage = "dispatch" /\ slot'[r].ran = slot[r].ran + 1
        BY <3>2, <4>1, <1>a, <2>1, RanFrame
      <4>3. InOrder(r)
        BY <4>1, <4>2 DEF InOrder, Stages
      <4> QED
        BY <1>a, <3>2, <4>2, <4>3, OrderKept DEF TypeOK
    <3> QED
      BY <1>4, <3>1, <3>2 DEF Handle
  <2> QED
    BY <1>4, <1>a, <2>2, <2>3 DEF Handle, Typed, TypeOK, SlotType
<1>5. ASSUME NEW r \in Requests, HandlerFails(r) \/ RequestDies(r) PROVE Typed'
  <2>1. Answer(r, "error") /\ Busy(r)
    BY <1>5 DEF HandlerFails, RequestDies, Busy, At
  <2>2. slot' \in SlotType /\ reply' \in [Requests -> Replies] /\ RanInOrder'
    BY <1>a, <2>1, OrderKept, AnswerFrame DEF InOrder
  <2>3. slot[r].act \in Activities
    BY <1>a, <2>1, BusyTyped
  <2>4. faults' \in 0..MaxFaults
    BY <1>5, <1>a DEF HandlerFails, RequestDies, Fault, TypeOK
  <2>5. burnt' \in [Activities -> BOOLEAN]
    <3>1. CASE HandlerFails(r)
      BY <3>1, <1>a DEF HandlerFails, TypeOK
    <3>2. CASE RequestDies(r)
      <4>1. (burnt[slot[r].act] \/ At(r, "dispatch")) \in BOOLEAN
        BY DEF At
      <4> QED
        BY <3>2, <4>1, <1>a DEF RequestDies, TypeOK
    <3> QED
      BY <1>5, <3>1, <3>2
  <2> QED
    BY <1>5, <1>a, <2>2, <2>4, <2>5 DEF HandlerFails, RequestDies, Typed, TypeOK, SlotType
<1>6. ASSUME NEW s \in Signers, Rotate(s) PROVE Typed'
  <2>1. remoteKey' \in [Signers -> 0..MaxRotations] /\ excuse' \in [Requests -> BOOLEAN]
    BY <1>6, <1>a DEF Rotate, TypeOK
  <2> QED
    BY <1>6, <1>a, <2>1 DEF Rotate, Typed, TypeOK, RanInOrder, Busy, At
<1>7. ASSUME NEW d \in Recipients, NEW s \in Signers, ToggleBlock(d, s) PROVE Typed'
  <2>1. slot' \in SlotType /\ blocking' \subseteq Recipients \X Signers
    <3>1. <<d, s>> \in Recipients \X Signers
      OBVIOUS
    <3>2. blocking' \subseteq blocking \cup {<<d, s>>}
      BY <1>7 DEF ToggleBlock
    <3> QED
      BY <1>7, <1>a, <3>1, <3>2, ToggleFrame DEF TypeOK
  <2>2. RanInOrder'
    BY <1>7, <1>a, ToggleFrame DEF RanInOrder, Busy, At
  <2> QED
    BY <1>7, <1>a, <2>1, <2>2 DEF ToggleBlock, Typed, TypeOK, SlotType
<1>8. CASE Prune
  BY <1>8, <1>a DEF Prune, None, Typed, TypeOK, RanInOrder, Busy, At
<1>9. CASE Tick
  <2>1. posted' \in [Activities -> None..(SendWindow + 1)]
    BY <1>9, <1>a DEF Tick, Older, None, TypeOK
  <2>2. ledger' \in [Activities -> None..(Retention + 1)]
    BY <1>9, <1>a DEF Tick, Older, None, TypeOK
  <2>3. cachedAge' \in [Signers -> 0..(KeyTtl + 1)]
    BY <1>9, <1>a DEF Tick, Older, None, TypeOK
  <2> QED
    BY <1>9, <1>a, <2>1, <2>2, <2>3 DEF Tick, Typed, TypeOK, RanInOrder, Busy, At
<1>10. CASE UNCHANGED vars
  BY <1>10, <1>a DEF vars, Typed, TypeOK, RanInOrder, Busy, At
<1> QED
  BY <1>1, <1>2, <1>3, <1>4, <1>5, <1>6, <1>7, <1>8, <1>9, <1>10 DEF Next, Early

(* Every variable keeps its type.                                          *)
THEOREM TypeCorrect == Spec => []TypeOK
<1>1. Typed => TypeOK
  BY DEF Typed
<1> QED
  BY TypedInit, TypedStep, <1>1, PTL DEF Spec

-----------------------------------------------------------------------------
(* At most once                                                            *)

(* No request advances in the pipeline past its dedup check.               *)
NobodyDispatches ==
  \A r \in Requests :
    /\ Busy(r)' => Busy(r) /\ slot'[r].act = slot[r].act
    /\ At(r, "dispatch")' => At(r, "dispatch") /\ slot'[r].ran = slot[r].ran

LEMMA OnceKept ==
  ASSUME Once, NobodyDispatches, UNCHANGED <<posted, ledger, effects>>
  PROVE  Once'
<1>1. \A r \in Requests : At(r, "dispatch")' =>
        At(r, "dispatch") /\ slot'[r].act = slot[r].act /\ slot'[r].ran = slot[r].ran
  BY DEF NobodyDispatches, Busy, At
<1>2. RequestsAreRecent'
  BY DEF NobodyDispatches, Once, RequestsAreRecent
<1>3. UnrecordedIsUnhandled' /\ DispatchIsExclusive'
  BY <1>1 DEF Once, UnrecordedIsUnhandled, DispatchIsExclusive
<1> QED
  BY <1>2, <1>3 DEF Once, RowsFollowPosts, HandledAtMostOnce

(* Answering a request, or any step before dispatch, dispatches nothing.   *)
LEMMA AnswersDispatchNothing ==
  ASSUME TypeOK, NEW r \in Requests, OthersStay(r),
         \/ slot'[r] = FreeSlot
         \/ Busy(r) /\ Keeps(r) /\ slot'[r].stage # "dispatch"
  PROVE  NobodyDispatches
  BY DEF NobodyDispatches, OthersStay, Keeps, Busy, At, FreeSlot

LEMMA OnceInit == Init => Once
  BY InboxAssumption
  DEF Init, Once, RowsFollowPosts, RequestsAreRecent, UnrecordedIsUnhandled,
      DispatchIsExclusive, HandledAtMostOnce, Busy, At, FreeSlot

(* The dedup check takes a new activity: its row is written, and the       *)
(* request dispatches it or has no handler to run.                         *)
LEMMA OnceRecorded ==
  ASSUME Typed, Once, NEW r \in Requests, At(r, "dedup"), ledger[slot[r].act] = None,
         ledger' = [ledger EXCEPT ![slot[r].act] = 0], UNCHANGED <<posted, effects>>,
         (\E outcome : Answer(r, outcome)) \/ Goto(r, "dispatch")
  PROVE  Once'
<1> DEFINE a == slot[r].act
<1>a. TypeOK /\ RanInOrder
  BY DEF Typed
<1>1. Busy(r) /\ a \in Activities /\ slot[r].ran = 0
  BY <1>a, BusyTyped DEF At, Busy, RanInOrder
<1>2. posted[a] \in 0..SendWindow
  BY <1>1 DEF Once, RequestsAreRecent
<1>3. /\ \A n \in 1..HandlerCount : effects[a][n] = 0
      /\ \A q \in Requests : At(q, "dispatch") => slot[q].act # a
  BY <1>1, <1>2, InboxAssumption DEF Once, UnrecordedIsUnhandled
<1>4. /\ ledger'[a] = 0
      /\ \A b \in Activities \ {a} : ledger'[b] = ledger[b]
  BY <1>a, <1>1 DEF TypeOK
<1>5. /\ OthersStay(r)
      /\ \/ slot'[r] = FreeSlot
         \/ /\ slot'[r].stage = "dispatch"
            /\ slot'[r].act = a /\ slot'[r].ran = 0
  BY <1>a, <1>1, AnswerFrame, GotoFrame DEF Keeps, Stages
<1> HIDE DEF a
<1>6. RowsFollowPosts'
  BY <1>2, <1>4, InboxAssumption DEF Once, RowsFollowPosts, None
<1>7. RequestsAreRecent'
  BY <1>2, <1>5 DEF Once, RequestsAreRecent, OthersStay, Busy, At, FreeSlot
<1>8. UnrecordedIsUnhandled'
  BY <1>4, <1>5 DEF Once, UnrecordedIsUnhandled, OthersStay, At, FreeSlot, None
<1>9. DispatchIsExclusive'
  BY <1>1, <1>3, <1>5 DEF Once, DispatchIsExclusive, OthersStay, At, FreeSlot
<1> QED
  BY <1>6, <1>7, <1>8, <1>9 DEF Once, HandledAtMostOnce

LEMMA OnceStep == Typed /\ Once /\ [Next]_vars => Once'
<1> SUFFICES ASSUME Typed, Once, [Next]_vars PROVE Once'
  OBVIOUS
<1> USE InboxAssumption DEF keyVars, slotVars, history
<1>a. TypeOK /\ RanInOrder
  BY DEF Typed
<1>1. ASSUME NEW r \in Requests, NEW a \in Activities, NEW d \in Dests, Post(r, a, d)
      PROVE  Once'
  <2>1. /\ OthersStay(r) /\ slot'[r].act = a /\ slot'[r].stage # "dispatch"
    <3>1. OthersStay(r) /\ slot'[r] = Arrival(a, d)
      BY <1>1, <1>a, PostFrame
    <3>2. Arrival(a, d).act = a /\ Arrival(a, d).stage # "dispatch"
      BY DEF Arrival
    <3> QED
      BY <3>1, <3>2
  <2>2. /\ posted[a] <= SendWindow /\ posted'[a] = IF posted[a] = None THEN 0 ELSE posted[a]
        /\ \A b \in Activities \ {a} : posted'[b] = posted[b]
        /\ UNCHANGED <<ledger, effects>>
    BY <1>1, <1>a DEF Post, TypeOK
  <2>3. \A b \in Activities : posted[b] \in None..(SendWindow + 1)
    BY <1>a DEF TypeOK
  <2>4. RowsFollowPosts'
    BY <2>2 DEF Once, RowsFollowPosts
  <2>5. RequestsAreRecent'
    <3>1. posted'[a] \in 0..SendWindow
      BY <2>2, <2>3 DEF None
    <3>2. \A q \in Requests \ {r} : Busy(q)' => posted'[slot'[q].act] \in 0..SendWindow
      BY <2>1, <2>2, <3>1, <1>a, BusyTyped DEF Once, RequestsAreRecent, OthersStay, Busy, At
    <3> QED
      BY <2>1, <3>1, <3>2 DEF RequestsAreRecent
  <2>6. UnrecordedIsUnhandled'
    BY <2>1, <2>2 DEF Once, UnrecordedIsUnhandled, OthersStay, At
  <2>7. DispatchIsExclusive'
    BY <2>1, <2>2 DEF Once, DispatchIsExclusive, OthersStay, At
  <2> QED
    BY <2>2, <2>4, <2>5, <2>6, <2>7 DEF Once, HandledAtMostOnce
<1>2. ASSUME NEW r \in Requests, Early(r) PROVE Once'
  <2>1. /\ OthersStay(r) /\ UNCHANGED <<posted, ledger, effects>>
        /\ \/ slot'[r] = FreeSlot
           \/ Busy(r) /\ Keeps(r) /\ slot'[r].stage # "dispatch"
    BY <1>2, <1>a, EarlyFrame DEF Busy, At
  <2> QED
    BY <2>1, <1>a, AnswersDispatchNothing, OnceKept
<1>3. ASSUME NEW r \in Requests, Record(r) PROVE Once'
  <2>1. CASE ledger[slot[r].act] # None
    <3>1. OthersStay(r) /\ slot'[r] = FreeSlot /\ UNCHANGED <<posted, ledger, effects>>
      BY <1>3, <1>a, <2>1, AnswerFrame DEF Record
    <3> QED
      BY <3>1, <1>a, AnswersDispatchNothing, OnceKept
  <2>2. CASE ledger[slot[r].act] = None
    BY <1>3, <2>2, OnceRecorded DEF Record
  <2> QED
    BY <2>1, <2>2
<1>4. ASSUME NEW r \in Requests, RecordReplyLost(r) PROVE Once'
  BY <1>4, OnceRecorded DEF RecordReplyLost
<1>5. ASSUME NEW r \in Requests, Handle(r) PROVE Once'
  <2> DEFINE a == slot[r].act
             n == slot[r].ran + 1
  <2>1. /\ Busy(r) /\ At(r, "dispatch") /\ a \in Activities
        /\ slot[r].ran \in 0..HandlerCount /\ slot[r].ran < HandlerCount
    BY <1>5, <1>a, BusyTyped DEF Handle, At, Busy, RanInOrder
  <2>2. /\ n \in 1..HandlerCount /\ n + 0 = slot[r].ran + 1
        /\ \A q \in Requests : At(q, "dispatch") /\ slot[q].act = a => q = r
        /\ \A k \in 1..HandlerCount : effects[a][k] = IF k <= slot[r].ran THEN 1 ELSE 0
    BY <2>1 DEF Once, DispatchIsExclusive
  <2>3. /\ effects'[a][n] = 1
        /\ \A b \in Activities \ {a} : effects'[b] = effects[b]
        /\ \A k \in 1..HandlerCount : k # n => effects'[a][k] = effects[a][k]
    <3>1. CountRun(a, n) /\ effects[a][n] = 0
      BY <1>5, <2>1, <2>2 DEF Handle
    <3> HIDE DEF a, n
    <3> QED
      BY <1>a, <2>1, <2>2, <3>1, CountFrame
  <2>4. /\ OthersStay(r) /\ UNCHANGED <<posted, ledger>>
        /\ \/ slot'[r] = FreeSlot
           \/ Keeps(r) /\ slot'[r].stage = "dispatch" /\ slot'[r].ran = slot[r].ran + 1
    <3>1. CASE Answer(r, "accepted")
      BY <1>5, <1>a, <3>1, AnswerFrame DEF Handle
    <3>2. CASE /\ slot[r].ran + 1 # HandlerCount
               /\ slot' = [slot EXCEPT ![r].ran = @ + 1] /\ UNCHANGED reply
      <4>1. slot[r].ran + 1 \in 0..HandlerCount
        BY <2>1
      <4>2. slot[r].stage = "dispatch"
        BY <2>1 DEF At
      <4> QED
        BY <1>5, <1>a, <2>1, <3>2, <4>1, <4>2, RanFrame DEF Handle
    <3> QED
      BY <1>5, <3>1, <3>2 DEF Handle
  <2>5. ledger[a] # None \/ posted[a] > SendWindow
    BY <2>1 DEF Once, UnrecordedIsUnhandled, RequestsAreRecent
  <2>6. \A k \in 1..HandlerCount :
          effects'[a][k] = IF k <= slot[r].ran + 1 THEN 1 ELSE 0
    BY <2>1, <2>2, <2>3
  <2> HIDE DEF a, n
  <2>7. RequestsAreRecent' /\ RowsFollowPosts'
    BY <2>1, <2>4 DEF Once, RequestsAreRecent, RowsFollowPosts, OthersStay, Keeps, Busy, At, FreeSlot
  <2>8. UnrecordedIsUnhandled'
    BY <2>1, <2>3, <2>4, <2>5 DEF Once, UnrecordedIsUnhandled, OthersStay, Keeps, At, FreeSlot, a
  <2>9. DispatchIsExclusive'
    <3>1. ASSUME NEW q \in Requests \ {r}, At(q, "dispatch")'
          PROVE  /\ At(q, "dispatch") /\ slot'[q] = slot[q] /\ slot[q].act \in Activities \ {a}
                 /\ effects'[slot[q].act] = effects[slot[q].act]
      <4>1. At(q, "dispatch") /\ slot'[q] = slot[q]
        BY <2>4, <3>1 DEF OthersStay, At
      <4>2. slot[q].act \in Activities
        BY <4>1, <1>a, BusyTyped DEF At, Busy
      <4>3. slot[q].act # a
        BY <2>2, <4>1
      <4> QED
        BY <2>3, <4>1, <4>2, <4>3
    <3>2. At(r, "dispatch")' => slot'[r].act = a /\ slot'[r].ran = slot[r].ran + 1
      BY <2>4 DEF Keeps, At, FreeSlot, a
    <3> QED
      BY <2>6, <3>1, <3>2 DEF Once, DispatchIsExclusive
  <2>10. HandledAtMostOnce'
    BY <2>1, <2>3, <2>6 DEF Once, HandledAtMostOnce
  <2> QED
    BY <2>7, <2>8, <2>9, <2>10 DEF Once
<1>6. ASSUME NEW r \in Requests, HandlerFails(r) \/ RequestDies(r) PROVE Once'
  <2>1. OthersStay(r) /\ slot'[r] = FreeSlot /\ UNCHANGED <<posted, ledger, effects>>
    BY <1>6, <1>a, AnswerFrame DEF HandlerFails, RequestDies
  <2> QED
    BY <2>1, <1>a, AnswersDispatchNothing, OnceKept
<1>7. ASSUME NEW s \in Signers, Rotate(s) PROVE Once'
  BY <1>7, OnceKept DEF Rotate, NobodyDispatches, Busy, At
<1>8. ASSUME NEW d \in Recipients, NEW s \in Signers, ToggleBlock(d, s) PROVE Once'
  <2>1. NobodyDispatches
    BY <1>8, <1>a, ToggleFrame DEF NobodyDispatches, Busy, At
  <2> QED
    BY <1>8, <2>1, OnceKept DEF ToggleBlock
<1>9. CASE Prune
  <2>1. \A a \in Activities :
          /\ ledger'[a] = IF ledger[a] > Retention THEN None ELSE ledger[a]
          /\ ledger[a] \in None..(Retention + 1) /\ posted[a] \in None..(SendWindow + 1)
    BY <1>9, <1>a DEF Prune, Expired, TypeOK
  <2>2. UNCHANGED <<posted, slot, effects>>
    BY <1>9 DEF Prune
  <2>3. RowsFollowPosts'
    BY <2>1, <2>2 DEF Once, RowsFollowPosts, None
  <2>4. UnrecordedIsUnhandled'
    <3>1. \A a \in Activities :
            ledger'[a] = None /\ posted[a] <= SendWindow => ledger[a] = None
      BY <2>1 DEF Once, RowsFollowPosts, None
    <3> QED
      BY <2>2, <3>1 DEF Once, UnrecordedIsUnhandled, At
  <2>5. RequestsAreRecent' /\ DispatchIsExclusive' /\ HandledAtMostOnce'
    BY <2>2 DEF Once, RequestsAreRecent, DispatchIsExclusive, HandledAtMostOnce, Busy, At
  <2> QED
    BY <2>3, <2>4, <2>5 DEF Once
<1>10. CASE Tick
  <2>1. /\ \A r \in Requests : ~Busy(r) /\ ~At(r, "dispatch")
        /\ UNCHANGED <<slot, effects>>
    BY <1>10 DEF Tick, Busy, At
  <2>2. \A a \in Activities :
          /\ ledger'[a] = Older(ledger[a], Retention) /\ posted'[a] = Older(posted[a], SendWindow)
          /\ ledger[a] \in None..(Retention + 1) /\ posted[a] \in None..(SendWindow + 1)
    BY <1>10, <1>a DEF Tick, TypeOK
  <2>3. RowsFollowPosts'
    BY <2>2 DEF Once, RowsFollowPosts, Older, None
  <2>4. UnrecordedIsUnhandled'
    <3>1. \A a \in Activities :
            ledger'[a] = None /\ posted'[a] <= SendWindow =>
              ledger[a] = None /\ posted[a] <= SendWindow
      BY <2>2 DEF Older, None
    <3> QED
      BY <2>1, <3>1 DEF Once, UnrecordedIsUnhandled, At
  <2>5. RequestsAreRecent' /\ DispatchIsExclusive' /\ HandledAtMostOnce'
    BY <2>1 DEF Once, RequestsAreRecent, DispatchIsExclusive, HandledAtMostOnce, Busy, At
  <2> QED
    BY <2>3, <2>4, <2>5 DEF Once
<1>11. CASE UNCHANGED vars
  BY <1>11, OnceKept DEF vars, NobodyDispatches, Busy, At
<1> QED
  BY <1>1, <1>2, <1>3, <1>4, <1>5, <1>6, <1>7, <1>8, <1>9, <1>10, <1>11 DEF Next, Early

(* No handler runs twice on an activity, whoever posts it how often.       *)
THEOREM ActivitiesHandledOnce == Spec => []HandledAtMostOnce
<1>1. Once => HandledAtMostOnce
  BY DEF Once
<1> QED
  BY TypedInit, TypedStep, OnceInit, OnceStep, <1>1, PTL DEF Spec

-----------------------------------------------------------------------------
(* Recorded means handled                                                  *)

(* A step of a request that is not dispatching, with no new row.           *)
LEMMA HandledKept ==
  ASSUME RecordedMeansHandled, UNCHANGED effects,
         \A a \in Activities : ledger'[a] # None => ledger[a] # None,
         \A a \in Activities : burnt[a] => burnt'[a],
         \A r \in Requests : At(r, "dispatch") =>
           \/ At(r, "dispatch")' /\ slot'[r].act = slot[r].act
           \/ burnt'[slot[r].act]
  PROVE  RecordedMeansHandled'
<1> SUFFICES ASSUME NEW a \in Activities, ledger'[a] # None, ~burnt'[a]
             PROVE  \/ \E r \in Requests : At(r, "dispatch")' /\ slot'[r].act = a
                    \/ \A n \in 1..HandlerCount : effects'[a][n] > 0
  BY DEF RecordedMeansHandled
<1>1. ledger[a] # None /\ ~burnt[a]
  OBVIOUS
<1>2. CASE \A n \in 1..HandlerCount : effects[a][n] > 0
  BY <1>2
<1>3. CASE \E r \in Requests : At(r, "dispatch") /\ slot[r].act = a
  BY <1>3
<1> QED
  BY <1>1, <1>2, <1>3 DEF RecordedMeansHandled

LEMMA HandledStep ==
  Typed /\ Once /\ RecordedMeansHandled /\ [Next]_vars => RecordedMeansHandled'
<1> SUFFICES ASSUME Typed, Once, RecordedMeansHandled, [Next]_vars PROVE RecordedMeansHandled'
  OBVIOUS
<1> USE InboxAssumption DEF keyVars, slotVars, history
<1>a. TypeOK /\ RanInOrder
  BY DEF Typed
<1>1. ASSUME NEW r \in Requests, NEW a \in Activities, NEW d \in Dests, Post(r, a, d)
      PROVE  RecordedMeansHandled'
  <2>1. OthersStay(r) /\ ~At(r, "dispatch")
    BY <1>1, <1>a, PostFrame DEF Busy, At
  <2>2. UNCHANGED <<ledger, effects, burnt>>
    BY <1>1 DEF Post
  <2> QED
    BY <2>1, <2>2, HandledKept DEF OthersStay, At
<1>2. ASSUME NEW r \in Requests, Early(r) PROVE RecordedMeansHandled'
  <2>1. OthersStay(r) /\ ~At(r, "dispatch") /\ UNCHANGED <<ledger, effects, burnt>>
    BY <1>2, <1>a, EarlyFrame DEF At
  <2> QED
    BY <2>1, HandledKept DEF OthersStay, At
<1>3. ASSUME NEW r \in Requests, Record(r) \/ RecordReplyLost(r) PROVE RecordedMeansHandled'
  <2>1. /\ Busy(r) /\ ~At(r, "dispatch") /\ slot[r].act \in Activities
        /\ UNCHANGED effects
    BY <1>3, <1>a, BusyTyped DEF Record, RecordReplyLost, At, Busy
  <2>2. OthersStay(r)
    BY <1>3, <1>a, <2>1, AnswerFrame, GotoFrame DEF Record, RecordReplyLost, Stages
  <2>3. \A a \in Activities : burnt[a] => burnt'[a]
    BY <1>3, <1>a DEF Record, RecordReplyLost, TypeOK
  <2>4. \A a \in Activities \ {slot[r].act} : ledger'[a] = ledger[a]
    BY <1>3, <1>a DEF Record, RecordReplyLost, TypeOK
  <2>5. CASE ledger[slot[r].act] # None
    <3>1. UNCHANGED ledger
      BY <1>3, <2>5 DEF Record, RecordReplyLost
    <3> QED
      BY <2>1, <2>2, <2>3, <3>1, HandledKept DEF OthersStay, At
  <2>6. CASE ledger[slot[r].act] = None
    <3>1. \/ burnt'[slot[r].act]
          \/ HandlerCount = 0
          \/ At(r, "dispatch")' /\ slot'[r].act = slot[r].act
      <4>1. CASE RecordReplyLost(r)
        BY <4>1, <1>a, <2>1 DEF RecordReplyLost, TypeOK
      <4>2. CASE Record(r) /\ HandlerCount # 0
        <5>1. Goto(r, "dispatch")
          BY <4>2, <2>6 DEF Record
        <5> QED
          BY <5>1, <1>a, <2>1, GotoFrame DEF Stages, At, Keeps
      <4> QED
        BY <1>3, <4>1, <4>2
    <3> SUFFICES ASSUME NEW a \in Activities, ledger'[a] # None, ~burnt'[a]
                 PROVE  \/ \E q \in Requests : At(q, "dispatch")' /\ slot'[q].act = a
                        \/ \A n \in 1..HandlerCount : effects'[a][n] > 0
      BY DEF RecordedMeansHandled
    <3>2. CASE a = slot[r].act
      BY <3>1, <3>2
    <3>3. CASE a # slot[r].act
      BY <2>1, <2>2, <2>3, <2>4, <3>3 DEF RecordedMeansHandled, OthersStay, At
    <3> QED
      BY <3>2, <3>3
  <2> QED
    BY <2>5, <2>6
<1>4. ASSUME NEW r \in Requests, Handle(r) PROVE RecordedMeansHandled'
  <2> DEFINE a == slot[r].act
             n == slot[r].ran + 1
  <2>1. /\ Busy(r) /\ At(r, "dispatch") /\ a \in Activities
        /\ slot[r].ran \in 0..HandlerCount /\ slot[r].ran < HandlerCount
        /\ UNCHANGED <<ledger, burnt>>
    BY <1>4, <1>a, BusyTyped DEF Handle, At, Busy, RanInOrder
  <2>2. n \in 1..HandlerCount /\ CountRun(a, n)
    BY <1>4, <2>1 DEF Handle
  <2>3. \A k \in 1..HandlerCount : effects[a][k] = IF k <= slot[r].ran THEN 1 ELSE 0
    BY <2>1 DEF Once, DispatchIsExclusive
  <2>4. /\ \A b \in Activities \ {a} : effects'[b] = effects[b]
        /\ effects'[a][n] > 0
        /\ \A k \in 1..HandlerCount : k # n => effects'[a][k] = effects[a][k]
    <3>1. effects[a][n] = 0
      BY <2>1, <2>2, <2>3
    <3> HIDE DEF a, n
    <3> QED
      BY <1>a, <2>1, <2>2, <3>1, CountFrame
  <2>5. /\ OthersStay(r)
        /\ \/ n = HandlerCount
           \/ At(r, "dispatch")' /\ slot'[r].act = a
    <3>1. CASE Answer(r, "accepted") /\ n = HandlerCount
      BY <1>a, <3>1, AnswerFrame
    <3>2. CASE slot[r].ran + 1 # HandlerCount /\ slot' = [slot EXCEPT ![r].ran = @ + 1]
      <4>1. slot[r].ran + 1 \in 0..HandlerCount
        BY <2>1
      <4> QED
        BY <1>a, <2>1, <3>2, <4>1, RanFrame DEF Keeps, At
    <3> QED
      BY <1>4, <3>1, <3>2 DEF Handle
  <2> SUFFICES ASSUME NEW b \in Activities, ledger'[b] # None, ~burnt'[b]
               PROVE  \/ \E q \in Requests : At(q, "dispatch")' /\ slot'[q].act = b
                      \/ \A k \in 1..HandlerCount : effects'[b][k] > 0
    BY DEF RecordedMeansHandled
  <2>6. CASE b # a
    <3>1. \/ \E q \in Requests : At(q, "dispatch") /\ slot[q].act = b
          \/ \A k \in 1..HandlerCount : effects[b][k] > 0
      BY <2>1 DEF RecordedMeansHandled
    <3> QED
      BY <2>4, <2>5, <2>6, <3>1 DEF OthersStay, At
  <2>7. CASE b = a /\ n = HandlerCount
    <3>1. \A k \in 1..HandlerCount : k # n => k <= slot[r].ran
      BY <2>1, <2>7
    <3> QED
      BY <2>3, <2>4, <2>7, <3>1
  <2>8. CASE b = a /\ At(r, "dispatch")' /\ slot'[r].act = a
    BY <2>8
  <2> QED
    BY <2>5, <2>6, <2>7, <2>8
<1>5. ASSUME NEW r \in Requests, HandlerFails(r) \/ RequestDies(r) PROVE RecordedMeansHandled'
  <2>1. /\ OthersStay(r) /\ slot[r].act \in Activities /\ UNCHANGED <<ledger, effects>>
    BY <1>5, <1>a, AnswerFrame, BusyTyped DEF HandlerFails, RequestDies, Busy, At
  <2>2. /\ \A a \in Activities : burnt[a] => burnt'[a]
        /\ At(r, "dispatch") => burnt'[slot[r].act]
    <3>1. CASE HandlerFails(r)
      BY <3>1, <1>a, <2>1 DEF HandlerFails, TypeOK
    <3>2. CASE RequestDies(r)
      BY <3>2, <1>a, <2>1 DEF RequestDies, TypeOK
    <3> QED
      BY <1>5, <3>1, <3>2
  <2> QED
    BY <2>1, <2>2, HandledKept DEF OthersStay, At
<1>6. ASSUME NEW s \in Signers, Rotate(s) PROVE RecordedMeansHandled'
  BY <1>6, HandledKept DEF Rotate, At
<1>7. ASSUME NEW d \in Recipients, NEW s \in Signers, ToggleBlock(d, s)
      PROVE  RecordedMeansHandled'
  <2>1. \A r \in Requests : At(r, "dispatch") => At(r, "dispatch")' /\ slot'[r].act = slot[r].act
    BY <1>7, <1>a, ToggleFrame DEF At
  <2> QED
    BY <1>7, <2>1, HandledKept DEF ToggleBlock
<1>8. CASE Prune \/ Tick
  <2>1. /\ \A a \in Activities : ledger'[a] # None => ledger[a] # None
        /\ UNCHANGED <<slot, effects, burnt>>
    BY <1>8 DEF Prune, Tick, Older
  <2> QED
    BY <2>1, HandledKept DEF At
<1>9. CASE UNCHANGED vars
  BY <1>9, HandledKept DEF vars, At
<1> QED
  BY <1>1, <1>2, <1>3, <1>4, <1>5, <1>6, <1>7, <1>8, <1>9 DEF Next, Early

(* A recorded activity has been, or is being, through every handler, but   *)
(* where its processing broke off.                                         *)
THEOREM RecordedActivitiesHandled == Spec => []RecordedMeansHandled
<1>1. Init => RecordedMeansHandled
  BY DEF Init, RecordedMeansHandled
<1> QED
  BY TypedInit, TypedStep, OnceInit, OnceStep, <1>1, HandledStep, PTL DEF Spec

-----------------------------------------------------------------------------
(* Blocks                                                                  *)

LEMMA BlocksInit == Init => ClosedMeansBlocked
  BY DEF Init, ClosedMeansBlocked, Busy, At, FreeSlot

(* Request r becomes free, or keeps what ClosedMeansBlocked says of it.    *)
LEMMA BlocksKept ==
  ASSUME TypeOK, ClosedMeansBlocked, NEW r \in Requests, OthersStay(r), UNCHANGED blocking,
         \/ slot'[r] = FreeSlot
         \/ /\ Busy(r) /\ Keeps(r)
            /\ At(r, "dedup")' \/ At(r, "dispatch")' => slot[r].open \/ slot[r].dest = Shared
  PROVE  ClosedMeansBlocked'
<1>1. \A q \in Requests \ {r} : slot'[q] = slot[q]
  BY DEF OthersStay
<1>2. ASSUME NEW q \in Requests \ {r}, Busy(q)'
      PROVE  \/ slot'[q].open \/ slot'[q].dest = Shared
             \/ ~At(q, "dedup")' /\ ~At(q, "dispatch")' /\ Blocked(slot[q].dest, SignerOfRequest(q))'
  BY <1>1, <1>2 DEF ClosedMeansBlocked, Busy, At, Blocked, SignerOfRequest
<1>3. ASSUME Busy(r)'
      PROVE  \/ slot'[r].open \/ slot'[r].dest = Shared
             \/ ~At(r, "dedup")' /\ ~At(r, "dispatch")' /\ Blocked(slot[r].dest, SignerOfRequest(r))'
  <2>1. Busy(r) /\ Keeps(r)
    BY <1>3 DEF Busy, At, FreeSlot
  <2> QED
    BY <2>1 DEF ClosedMeansBlocked, Busy, At, Blocked, SignerOfRequest, Keeps, FreeSlot
<1> QED
  BY <1>2, <1>3 DEF ClosedMeansBlocked

LEMMA BlocksStep == Typed /\ ClosedMeansBlocked /\ [Next]_vars => ClosedMeansBlocked'
<1> SUFFICES ASSUME Typed, ClosedMeansBlocked, [Next]_vars PROVE ClosedMeansBlocked'
  OBVIOUS
<1> USE DEF keyVars, slotVars, history
<1>a. TypeOK /\ RanInOrder
  BY DEF Typed
<1>1. ASSUME NEW r \in Requests, NEW a \in Activities, NEW d \in Dests, Post(r, a, d)
      PROVE  ClosedMeansBlocked'
  <2>1. OthersStay(r) /\ slot'[r] = Arrival(a, d) /\ UNCHANGED blocking
    BY <1>1, <1>a, PostFrame DEF Post
  <2>2. /\ slot'[r].act = a /\ slot'[r].dest = d /\ slot'[r].open = ~Blocked(d, SignerOf[a])
        /\ ~At(r, "dedup")' /\ ~At(r, "dispatch")'
    BY <2>1 DEF Arrival, At
  <2> QED
    BY <2>1, <2>2 DEF ClosedMeansBlocked, OthersStay, Busy, At, Blocked, SignerOfRequest
<1>2. ASSUME NEW r \in Requests, Early(r) PROVE ClosedMeansBlocked'
  <2>1. /\ slot[r].stage \in {"verify", "store", "refetch", "restore", "block"}
        /\ OthersStay(r) /\ UNCHANGED blocking
        /\ slot'[r] = FreeSlot \/ Keeps(r)
        /\ ~At(r, "dispatch")'
    BY <1>2, <1>a, EarlyFrame DEF At, FreeSlot
  <2>2. Busy(r)
    BY <2>1 DEF Busy, At
  <2>3. CASE ~CheckBlock(r)
    <3>1. ~At(r, "dedup")'
      <4>1. \/ \E outcome : Answer(r, outcome)
            \/ \E stage \in Stages \ {"dedup"}, key \in 0..MaxRotations : Writes(r, stage, key)
        <5>1. 0 \in 0..MaxRotations /\ slot[r].key \in 0..MaxRotations
              /\ remoteKey[SignerOfRequest(r)] \in 0..MaxRotations
          BY <1>a, <2>2, BusyTyped, InboxAssumption DEF TypeOK
        <5>2. CASE VerifyCached(r)
          BY <5>1, <5>2 DEF VerifyCached, Check, Goto, Writes, Stages
        <5>3. CASE Fetch(r) \/ Refetch(r)
          BY <5>1, <5>3 DEF Fetch, Refetch, Fetched, Writes, Stages
        <5>4. CASE Store(r)
          BY <5>1, <5>4 DEF Store, Check, Goto, Writes, Stages
        <5>5. CASE ResolveFails(r)
          BY <5>5 DEF ResolveFails
        <5> QED
          BY <1>2, <2>3, <5>2, <5>3, <5>4, <5>5 DEF Early
      <4>2. CASE \E outcome : Answer(r, outcome)
        BY <4>2, <1>a, AnswerFrame DEF At, FreeSlot
      <4>3. CASE \E stage \in Stages \ {"dedup"}, key \in 0..MaxRotations : Writes(r, stage, key)
        BY <4>3, <1>a, <2>2, StageFrame DEF At
      <4> QED
        BY <4>1, <4>2, <4>3
    <3> QED
      BY <1>a, <2>1, <2>2, <3>1, BlocksKept
  <2>4. CASE CheckBlock(r) /\ Blocked(slot[r].dest, SignerOfRequest(r))
    <3>1. slot'[r] = FreeSlot
      BY <2>4, <1>a, AnswerFrame DEF CheckBlock
    <3> QED
      BY <1>a, <2>1, <3>1, BlocksKept
  <2>5. CASE CheckBlock(r) /\ ~Blocked(slot[r].dest, SignerOfRequest(r))
    <3>1. slot[r].open \/ slot[r].dest = Shared
      BY <2>2, <2>5 DEF ClosedMeansBlocked
    <3>2. slot'[r] = FreeSlot \/ (Busy(r) /\ Keeps(r))
      BY <2>1, <2>2
    <3> QED
      BY <1>a, <2>1, <3>1, <3>2, BlocksKept
  <2> QED
    BY <2>3, <2>4, <2>5
<1>3. ASSUME NEW r \in Requests,
             \/ Record(r) \/ RecordReplyLost(r) \/ Handle(r)
             \/ HandlerFails(r) \/ RequestDies(r)
      PROVE  ClosedMeansBlocked'
  <2>1. UNCHANGED blocking
    BY <1>3 DEF Record, RecordReplyLost, Handle, HandlerFails, RequestDies
  <2>2. CASE \E outcome : Answer(r, outcome)
    BY <1>a, <2>1, <2>2, AnswerFrame, BlocksKept
  <2>3. CASE Record(r) /\ Goto(r, "dispatch")
    <3>1. Busy(r) /\ At(r, "dedup")
      BY <2>3 DEF Record, Busy, At
    <3>2. OthersStay(r) /\ Keeps(r)
      BY <1>a, <2>3, <3>1, GotoFrame DEF Stages
    <3>3. slot[r].open \/ slot[r].dest = Shared
      BY <3>1 DEF ClosedMeansBlocked
    <3> QED
      BY <1>a, <2>1, <3>1, <3>2, <3>3, BlocksKept
  <2>4. CASE Handle(r) /\ slot[r].ran + 1 # HandlerCount /\ slot' = [slot EXCEPT ![r].ran = @ + 1]
    <3>1. Busy(r) /\ At(r, "dispatch")
      BY <2>4 DEF Handle, Busy, At
    <3>2. slot[r].ran + 1 \in 0..HandlerCount
      BY <1>a, <2>4, <3>1, BusyTyped, InboxAssumption DEF RanInOrder
    <3>3. OthersStay(r) /\ Keeps(r)
      BY <1>a, <2>4, <3>1, <3>2, RanFrame
    <3>4. slot[r].open \/ slot[r].dest = Shared
      BY <3>1 DEF ClosedMeansBlocked
    <3> QED
      BY <1>a, <2>1, <3>1, <3>3, <3>4, BlocksKept
  <2> QED
    BY <1>3, <2>2, <2>3, <2>4 DEF Record, RecordReplyLost, Handle, HandlerFails, RequestDies
<1>4. ASSUME NEW d \in Recipients, NEW s \in Signers, ToggleBlock(d, s)
      PROVE  ClosedMeansBlocked'
  <2> SUFFICES ASSUME NEW r \in Requests, Busy(r)'
               PROVE  \/ slot'[r].open \/ slot'[r].dest = Shared
                      \/ /\ ~At(r, "dedup")' /\ ~At(r, "dispatch")'
                         /\ Blocked(slot[r].dest, SignerOfRequest(r))'
    BY DEF ClosedMeansBlocked
  <2>1. CASE Concerns(r, d, s)
    BY <1>4, <1>a, <2>1, ToggleFrame
  <2>2. CASE ~Concerns(r, d, s)
    <3>1. slot'[r] = slot[r] /\ Busy(r)
      BY <1>4, <1>a, <2>2, ToggleFrame DEF Busy, At
    <3>2. \A e, t : <<e, t>> # <<d, s>> => (<<e, t>> \in blocking' <=> <<e, t>> \in blocking)
      BY <1>4 DEF ToggleBlock
    <3>3. <<slot[r].dest, SignerOfRequest(r)>> # <<d, s>>
      BY <2>2, <3>1 DEF Concerns
    <3> QED
      BY <3>1, <3>2, <3>3 DEF ClosedMeansBlocked, At, Busy, Blocked, SignerOfRequest
  <2> QED
    BY <2>1, <2>2
<1>5. CASE UNCHANGED <<slot, blocking>>
  BY <1>5 DEF ClosedMeansBlocked, At, Busy, Blocked, SignerOfRequest
<1> QED
  BY <1>1, <1>2, <1>3, <1>4, <1>5 DEF Next, Early, Rotate, Prune, Tick, vars

(* What a recipient blocked throughout is not recorded for it.             *)
THEOREM BlocksAreHonoured == Spec => []BlockIsHonoured
<1>1. ClosedMeansBlocked => BlockIsHonoured
  BY DEF ClosedMeansBlocked, BlockIsHonoured, Busy, At
<1> QED
  BY TypedInit, TypedStep, BlocksInit, BlocksStep, <1>1, PTL DEF Spec

-----------------------------------------------------------------------------
(* Keys                                                                    *)

LEMMA KeysInit == Init => KeysAreCurrent /\ RefusedOnlyForCause
  BY DEF Init, KeysAreCurrent, RefusedOnlyForCause, AwaitsKey, At, FreeSlot

(* What KeysAreCurrent and RefusedOnlyForCause say of one request.         *)
KeyOf(r) ==
  /\ ~excuse[r] /\ AwaitsKey(r) => slot[r].signed = remoteKey[SignerOfRequest(r)]
  /\ ~excuse[r] /\ At(r, "restore") => slot[r].key = slot[r].signed
  /\ reply[r] = "unauthorized" => excuse[r]

LEMMA KeyOfAll == KeysAreCurrent /\ RefusedOnlyForCause <=> \A r \in Requests : KeyOf(r)
  BY DEF KeysAreCurrent, RefusedOnlyForCause, KeyOf

(* A step of request r's own says nothing new of the others.               *)
LEMMA KeysOfOthers ==
  ASSUME TypeOK, NEW r \in Requests, OthersStay(r), UNCHANGED remoteKey,
         \A q \in Requests \ {r} : excuse'[q] = excuse[q] /\ reply'[q] = reply[q],
         \A q \in Requests : KeyOf(q), KeyOf(r)'
  PROVE  \A q \in Requests : KeyOf(q)'
  BY DEF KeyOf, OthersStay, AwaitsKey, At, SignerOfRequest

(* An answer other than 401 ends what is said of its request.              *)
LEMMA KeyAnswered ==
  ASSUME TypeOK, NEW r \in Requests, NEW outcome, Answer(r, outcome),
         outcome # "unauthorized" \/ excuse'[r]
  PROVE  KeyOf(r)'
  BY AnswerFrame DEF KeyOf, AwaitsKey, At, FreeSlot

LEMMA KeysStep ==
  Typed /\ KeysAreCurrent /\ RefusedOnlyForCause /\ [Next]_vars
    => KeysAreCurrent' /\ RefusedOnlyForCause'
<1> SUFFICES ASSUME Typed, \A r \in Requests : KeyOf(r), [Next]_vars
             PROVE  \A r \in Requests : KeyOf(r)'
  BY KeyOfAll DEF KeysAreCurrent, RefusedOnlyForCause, KeyOf
<1> USE InboxAssumption DEF keyVars, slotVars, history
<1>a. TypeOK /\ RanInOrder
  BY DEF Typed
<1>1. ASSUME NEW r \in Requests, NEW a \in Activities, NEW d \in Dests, Post(r, a, d)
      PROVE  \A q \in Requests : KeyOf(q)'
  <2>1. OthersStay(r) /\ slot'[r] = Arrival(a, d)
    BY <1>1, <1>a, PostFrame
  <2>2. /\ slot'[r].signed = remoteKey[SignerOf[a]] /\ slot'[r].act = a
        /\ slot'[r].stage \in {"verify", "block"}
    BY <2>1 DEF Arrival
  <2>3. /\ reply'[r] = "none" /\ UNCHANGED remoteKey
        /\ \A q \in Requests \ {r} : excuse'[q] = excuse[q] /\ reply'[q] = reply[q]
    BY <1>1, <1>a DEF Post, TypeOK
  <2>4. KeyOf(r)'
    BY <2>2, <2>3 DEF KeyOf, AwaitsKey, At, SignerOfRequest
  <2> QED
    BY <1>a, <2>1, <2>3, <2>4, KeysOfOthers
<1>2. ASSUME NEW r \in Requests, Early(r) PROVE \A q \in Requests : KeyOf(q)'
  <2>1. /\ Busy(r) /\ OthersStay(r) /\ UNCHANGED remoteKey
        /\ slot[r].key \in 0..MaxRotations /\ remoteKey[SignerOfRequest(r)] \in 0..MaxRotations
    BY <1>2, <1>a, EarlyFrame, BusyTyped DEF Busy, At, TypeOK
  <2>2. \A q \in Requests \ {r} : excuse'[q] = excuse[q] /\ reply'[q] = reply[q]
    BY <1>2, <1>a
    DEF Early, VerifyCached, Fetch, Refetch, Store, ResolveFails, CheckBlock, Fetched, Check,
        Goto, Answer, TypeOK
  <2>3. KeyOf(r)'
    <3>1. CASE VerifyCached(r) \/ Fetch(r) \/ (Store(r) /\ At(r, "store"))
      <4>1. PICK stage \in {"block", "refetch", "store"}, key \in 0..MaxRotations : Writes(r, stage, key)
        BY <2>1, <3>1 DEF VerifyCached, Fetch, Store, Fetched, Check, Goto, Writes
      <4>2. Keeps(r) /\ slot'[r].stage = stage
        BY <1>a, <2>1, <4>1, StageFrame DEF Stages
      <4>3. AwaitsKey(r) /\ UNCHANGED <<excuse, reply>>
        BY <3>1 DEF VerifyCached, Fetch, Store, Fetched, Check, Goto, AwaitsKey, At
      <4> QED
        BY <2>1, <4>2, <4>3 DEF KeyOf, Keeps, AwaitsKey, At, SignerOfRequest
    <3>2. CASE Refetch(r)
      <4>1. PICK key \in 0..MaxRotations :
              key = remoteKey[SignerOfRequest(r)] /\ Writes(r, "restore", key)
        BY <2>1, <3>2 DEF Refetch, Fetched, Writes
      <4>2. /\ Keeps(r) /\ slot'[r].stage = "restore"
            /\ slot'[r].key = remoteKey[SignerOfRequest(r)]
        BY <1>a, <2>1, <4>1, StageFrame DEF Stages
      <4>3. AwaitsKey(r) /\ UNCHANGED <<excuse, reply>>
        BY <3>2 DEF Refetch, Fetched, AwaitsKey, At
      <4> QED
        BY <2>1, <4>2, <4>3 DEF KeyOf, Keeps, AwaitsKey, At
    <3>3. CASE Store(r) /\ At(r, "restore") /\ slot[r].key = slot[r].signed
      <4>1. 0 \in 0..MaxRotations /\ Writes(r, "block", 0) /\ UNCHANGED <<excuse, reply>>
        BY <3>3 DEF Store, Check, Writes
      <4>2. slot'[r].stage = "block"
        BY <1>a, <2>1, <4>1, StageFrame DEF Stages
      <4> QED
        BY <4>1, <4>2 DEF KeyOf, AwaitsKey, At
    <3>4. CASE Store(r) /\ At(r, "restore") /\ slot[r].key # slot[r].signed
      <4>1. Answer(r, "unauthorized") /\ UNCHANGED excuse
        BY <3>4 DEF Store, Check, At
      <4>2. excuse[r]
        BY <3>4 DEF KeyOf
      <4> QED
        BY <1>a, <4>1, <4>2, KeyAnswered
    <3>5. CASE ResolveFails(r)
      <4>1. Answer(r, "unauthorized") /\ excuse'[r]
        BY <1>a, <3>5 DEF ResolveFails, TypeOK
      <4> QED
        BY <1>a, <4>1, KeyAnswered
    <3>6. CASE CheckBlock(r)
      <4>1. Answer(r, "forbidden") \/ Goto(r, "dedup")
        BY <3>6 DEF CheckBlock
      <4>2. CASE Answer(r, "forbidden")
        BY <1>a, <4>2, KeyAnswered
      <4>3. CASE Goto(r, "dedup")
        <5>1. slot'[r].stage = "dedup" /\ UNCHANGED <<excuse, reply>>
          BY <1>a, <2>1, <3>6, <4>3, GotoFrame DEF CheckBlock, Stages
        <5> QED
          BY <5>1 DEF KeyOf, AwaitsKey, At
      <4> QED
        BY <4>1, <4>2, <4>3
    <3> QED
      BY <1>2, <3>1, <3>2, <3>3, <3>4, <3>5, <3>6 DEF Early, Store, Upsert
  <2> QED
    BY <1>a, <2>1, <2>2, <2>3, KeysOfOthers
<1>3. ASSUME NEW r \in Requests,
             \/ Record(r) \/ RecordReplyLost(r) \/ Handle(r)
             \/ HandlerFails(r) \/ RequestDies(r)
      PROVE  \A q \in Requests : KeyOf(q)'
  <2>1. UNCHANGED <<remoteKey, excuse>>
    BY <1>3 DEF Record, RecordReplyLost, Handle, HandlerFails, RequestDies
  <2>2. CASE \E outcome \in {"duplicate", "accepted", "error"} : Answer(r, outcome)
    <3>1. KeyOf(r)'
      BY <1>a, <2>2, KeyAnswered
    <3> QED
      BY <1>a, <2>1, <2>2, <3>1, AnswerFrame, KeysOfOthers
  <2>3. CASE Record(r) /\ Goto(r, "dispatch")
    <3>1. Busy(r)
      BY <2>3 DEF Record, Busy, At
    <3>2. OthersStay(r) /\ slot'[r].stage = "dispatch" /\ UNCHANGED reply
      BY <1>a, <2>3, <3>1, GotoFrame DEF Stages
    <3>3. KeyOf(r)'
      BY <2>1, <3>2 DEF KeyOf, AwaitsKey, At
    <3> QED
      BY <1>a, <2>1, <3>2, <3>3, KeysOfOthers
  <2>4. CASE /\ Handle(r) /\ slot[r].ran + 1 # HandlerCount
             /\ slot' = [slot EXCEPT ![r].ran = @ + 1] /\ UNCHANGED reply
    <3>1. Busy(r) /\ slot[r].stage = "dispatch"
      BY <2>4 DEF Handle, Busy, At
    <3>2. slot[r].ran + 1 \in 0..HandlerCount
      BY <1>a, <2>4, <3>1, BusyTyped DEF RanInOrder, At
    <3>3. OthersStay(r) /\ slot'[r].stage = "dispatch"
      BY <1>a, <2>4, <3>1, <3>2, RanFrame
    <3>4. KeyOf(r)'
      BY <2>1, <2>4, <3>3 DEF KeyOf, AwaitsKey, At
    <3> QED
      BY <1>a, <2>1, <2>4, <3>3, <3>4, KeysOfOthers
  <2> QED
    BY <1>3, <2>2, <2>3, <2>4 DEF Record, RecordReplyLost, Handle, HandlerFails, RequestDies
<1>4. ASSUME NEW s \in Signers, Rotate(s), NEW r \in Requests PROVE KeyOf(r)'
  <2>1. /\ UNCHANGED <<slot, reply>>
        /\ \A t \in Signers : t # s => remoteKey'[t] = remoteKey[t]
        /\ excuse'[r] <=> excuse[r] \/ (AwaitsKey(r) /\ SignerOfRequest(r) = s)
    BY <1>4, <1>a DEF Rotate, TypeOK
  <2>2. AwaitsKey(r) => SignerOfRequest(r) \in Signers
    BY <1>a, BusyTyped DEF AwaitsKey, Busy, At
  <2> QED
    BY <2>1, <2>2 DEF KeyOf, AwaitsKey, At, SignerOfRequest
<1>5. ASSUME NEW d \in Recipients, NEW s \in Signers, ToggleBlock(d, s), NEW r \in Requests
      PROVE  KeyOf(r)'
  <2>1. UNCHANGED <<remoteKey, excuse, reply>>
    BY <1>5 DEF ToggleBlock
  <2>2. \/ slot'[r] = slot[r]
        \/ /\ slot'[r].stage = slot[r].stage /\ slot'[r].act = slot[r].act
           /\ slot'[r].signed = slot[r].signed /\ slot'[r].key = slot[r].key
    BY <1>5, <1>a, ToggleFrame
  <2> QED
    BY <2>1, <2>2 DEF KeyOf, AwaitsKey, At, SignerOfRequest
<1>6. CASE UNCHANGED <<remoteKey, slot, reply, excuse>>
  BY <1>6 DEF KeyOf, AwaitsKey, At, SignerOfRequest
<1> QED
  BY <1>1, <1>2, <1>3, <1>4, <1>5, <1>6 DEF Next, Early, Prune, Tick, vars

(* A genuine signature is refused only when the cache could not be read,   *)
(* the key not be fetched or stored, or it was rotated meanwhile.          *)
THEOREM RefusalsHaveCause == Spec => []RefusedOnlyForCause
  BY TypedInit, TypedStep, KeysInit, KeysStep, PTL DEF Spec
=============================================================================
