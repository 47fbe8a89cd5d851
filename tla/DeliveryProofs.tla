--------------------------- MODULE DeliveryProofs ---------------------------
(***************************************************************************)
(* Theorems about Delivery for every number of workers, activities,        *)
(* inboxes and hosts, every batch size, attempt limit and fault bound.     *)
(***************************************************************************)
EXTENDS Delivery, TLAPS

-----------------------------------------------------------------------------
(* Lemmas about the operators.                                             *)

(* backoff_delay never leaves 1..MaxDelay, whatever the attempt count.     *)
LEMMA BackoffBounded == \A n \in Nat : Backoff(n) \in 1..MaxDelay
<1>1. MaxDelay \in Nat \ {0}
  BY DeliveryAssumption
<1>2. TAKE n \in Nat
<1>3. CASE BaseDelay * 2^n \in 1..MaxDelay
  BY <1>3 DEF Backoff
<1>4. CASE BaseDelay * 2^n \notin 1..MaxDelay
  <2>1. Backoff(n) = MaxDelay
    BY <1>4 DEF Backoff
  <2>2. QED
    BY <1>1, <2>1
<1>5. QED
  BY <1>3, <1>4

(* A rescheduled row lies at most MaxLag in the past and MaxDelay ahead.   *)
LEMMA RemainingBounded ==
  ASSUME NEW d \in 1..MaxDelay, NEW e \in 0..(MaxDelay + MaxLag)
  PROVE  Remaining(d, e) \in (-MaxLag)..MaxDelay
  BY DeliveryAssumption DEF Remaining

LEMMA FormatsOK ==
  /\ \A f \in Formats : OtherFormat(f) \in Formats
  /\ TypeOK => \A h \in Hosts : FirstFormat(h) \in Formats
  BY DEF Formats, OtherFormat, FirstFormat, TypeOK

LEMMA CountsBounded ==
  /\ \A n \in 0..SeenCap : CountCopy(n) \in 0..SeenCap /\ CountCopy(n) > 0
  /\ \A n \in 0..(MaxAttempts + 1) : CountTry(n) \in 0..(MaxAttempts + 1)
  BY DeliveryAssumption DEF CountCopy, CountTry

LEMMA HostOK == \A j \in Jobs : Host(j) \in Hosts
  BY DeliveryAssumption DEF Host, Jobs

-----------------------------------------------------------------------------
(* Type correctness, strengthened: between "loop" and the end of a job,    *)
(* the worker's current job is one of its batch.                           *)
Handling(w) == pc[w] \notin {"idle", "loop"}

Holding == \A w \in Workers : Handling(w) => cur[w] \in batch[w]

TInv == TypeOK /\ Holding

LEMMA TInvInit == Init => TInv
  BY DeliveryAssumption
  DEF Init, TInv, TypeOK, Holding, Handling, CallState, JobStatus, WorkerState, Formats

(* The row a settling statement writes keeps its types.                    *)
LEMMA SettledRowTyped ==
  ASSUME TInv, NEW w \in Workers, SettledRow(w)
  PROVE  /\ status' \in [Jobs -> JobStatus]
         /\ attempts' \in [Jobs -> 0..MaxAttempts]
         /\ wait' \in [Jobs -> (-MaxLag)..MaxDelay]
<1>1. cur[w] \in Jobs /\ attempts[cur[w]] \in 0..MaxAttempts /\ age[w] \in 0..(MaxDelay + MaxLag)
  BY DEF TInv, TypeOK, Holding, Handling, SettledRow
<1>2. CASE pc[w] \in {"delivered", "unrecoverable"}
  BY <1>2 DEF SettledRow, TInv, TypeOK, JobStatus
<1>3. CASE pc[w] = "retryable" /\ attempts[cur[w]] + 1 >= MaxAttempts
  BY <1>1, <1>3, DeliveryAssumption DEF SettledRow, TInv, TypeOK, JobStatus
<1>4. CASE pc[w] = "retryable" /\ attempts[cur[w]] + 1 < MaxAttempts
  <2> DEFINE n == attempts[cur[w]] + 1
  <2>1. n \in 0..MaxAttempts
    BY <1>1, <1>4, DeliveryAssumption
  <2>2. Backoff(n) \in 1..MaxDelay
    BY <2>1, BackoffBounded
  <2>3. Remaining(Backoff(n), age[w]) \in (-MaxLag)..MaxDelay
    BY <1>1, <2>2, RemainingBounded
  <2>4. /\ status' = [status EXCEPT ![cur[w]] = "pending"]
        /\ attempts' = [attempts EXCEPT ![cur[w]] = n]
        /\ wait' = [wait EXCEPT ![cur[w]] = Remaining(Backoff(n), age[w])]
    BY <1>1, <1>4, DeliveryAssumption DEF SettledRow
  <2>5. QED
    BY <1>1, <2>1, <2>3, <2>4 DEF TInv, TypeOK, JobStatus
<1>5. QED
  BY <1>1, <1>2, <1>3, <1>4, DeliveryAssumption DEF SettledRow

LEMMA StopTyped ==
  ASSUME TInv, NEW w \in Workers, NEW rest \in SUBSET Jobs, Stop(w, rest)
  PROVE  /\ pc' \in [Workers -> WorkerState]
         /\ batch' \in [Workers -> SUBSET Jobs]
         /\ cur' \in [Workers -> Jobs \cup {NoJob}]
         /\ fmt' \in [Workers -> Formats]
         /\ age' \in [Workers -> 0..(MaxDelay + MaxLag)]
         /\ Holding'
  BY DeliveryAssumption DEF Stop, TInv, TypeOK, Holding, Handling, WorkerState, Formats

LEMMA TInvStep == TInv /\ [Next]_vars => TInv'
<1> SUFFICES ASSUME TInv, [Next]_vars PROVE TInv'
  OBVIOUS
<1> USE DEF callVars, jobVars, workerVars, history
<1>1. ASSUME NEW a \in Activities, Deliver(a) PROVE TInv'
  <2>1. Recipients[a] \in SUBSET Targets
    BY DeliveryAssumption
  <2>2. QED
    BY <1>1, <2>1 DEF Deliver, TInv, TypeOK, Holding, Handling, CallState
<1>2. ASSUME NEW a \in Activities, NEW l \in Locals, DispatchLocal(a, l) PROVE TInv'
  BY <1>2 DEF DispatchLocal, Dispatched, TInv, TypeOK, Holding, Handling, CallState
<1>3. ASSUME NEW a \in Activities, NEW i \in Inboxes, DispatchRemote(a, i) PROVE TInv'
  <2>1. <<a, i>> \in Jobs
    BY DEF Jobs
  <2>2. 0 \in 0..MaxAttempts /\ 0 \in (-MaxLag)..MaxDelay
    BY DeliveryAssumption
  <2>3. QED
    BY <1>3, <2>1, <2>2
    DEF DispatchRemote, Dispatched, TInv, TypeOK, Holding, Handling, CallState, JobStatus
<1>4. ASSUME NEW a \in Activities, DispatchFails(a) PROVE TInv'
  BY <1>4 DEF DispatchFails, TInv, TypeOK, Holding, Handling, CallState
<1>5. ASSUME NEW b \in SUBSET Jobs, MarkInProgress(b)
      PROVE  status' \in [Jobs -> JobStatus] /\ wait' \in [Jobs -> (-MaxLag)..MaxDelay]
  BY <1>5, DeliveryAssumption DEF MarkInProgress, TInv, TypeOK, JobStatus
<1>6. ASSUME NEW w \in Workers, Claim(w) PROVE TInv'
  <2>1. PICK b \in SUBSET Jobs : MarkInProgress(b) /\ batch' = [batch EXCEPT ![w] = b]
    BY <1>6 DEF Claim
  <2>2. status' \in [Jobs -> JobStatus] /\ wait' \in [Jobs -> (-MaxLag)..MaxDelay]
    BY <2>1, <1>5
  <2>3. QED
    BY <1>6, <2>1, <2>2 DEF Claim, TInv, TypeOK, Holding, Handling, WorkerState
<1>7. ASSUME NEW w \in Workers, ClaimReplyLost(w) PROVE TInv'
  <2>1. status' \in [Jobs -> JobStatus] /\ wait' \in [Jobs -> (-MaxLag)..MaxDelay]
    BY <1>7, <1>5 DEF ClaimReplyLost
  <2>2. QED
    BY <1>7, <2>1, DeliveryAssumption
    DEF ClaimReplyLost, Fault, TInv, TypeOK, Holding, Handling
<1>8. ASSUME NEW w \in Workers, Begin(w) PROVE TInv'
  <2>1. PICK j \in batch[w] :
          /\ cur' = [cur EXCEPT ![w] = j]
          /\ tries' = [tries EXCEPT ![j] = CountTry(@)]
          /\ fmt' = [fmt EXCEPT ![w] = FirstFormat(Host(j))]
          /\ \/ pc' = [pc EXCEPT ![w] = "knock1"]
             \/ pc' = [pc EXCEPT ![w] = "unrecoverable"]
    BY <1>8 DEF Begin
  <2>2. j \in Jobs /\ CountTry(tries[j]) \in 0..(MaxAttempts + 1)
    BY CountsBounded DEF TInv, TypeOK
  <2>3. FirstFormat(Host(j)) \in Formats
    BY <2>2, HostOK, FormatsOK DEF TInv
  <2>4. QED
    BY <1>8, <2>1, <2>2, <2>3 DEF Begin, TInv, TypeOK, Holding, Handling, WorkerState
<1>9. ASSUME NEW w \in Workers, BeginFails(w) PROVE TInv'
  <2>1. PICK j \in batch[w] :
          cur' = [cur EXCEPT ![w] = j] /\ tries' = [tries EXCEPT ![j] = CountTry(@)]
    BY <1>9 DEF BeginFails
  <2>2. j \in Jobs /\ CountTry(tries[j]) \in 0..(MaxAttempts + 1)
    BY CountsBounded DEF TInv, TypeOK
  <2>3. QED
    BY <1>9, <2>1, <2>2, DeliveryAssumption
    DEF BeginFails, Fault, TInv, TypeOK, Holding, Handling, WorkerState
<1>10. ASSUME NEW w \in Workers, SendAccepted(w) \/ SendReplyLost(w) PROVE TInv'
  <2>1. cur[w] \in Jobs /\ CountCopy(received[cur[w]]) \in 0..SeenCap
    BY <1>10, CountsBounded
    DEF SendAccepted, SendReplyLost, TInv, TypeOK, Holding, Handling
  <2>2. CASE SendAccepted(w)
    BY <2>1, <2>2 DEF SendAccepted, TInv, TypeOK, Holding, Handling, WorkerState
  <2>3. CASE SendReplyLost(w)
    BY <2>1, <2>3 DEF SendReplyLost, TInv, TypeOK, Holding, Handling, WorkerState
  <2>4. QED
    BY <1>10, <2>2, <2>3
<1>11. ASSUME NEW w \in Workers, SendUnauthorized(w) PROVE TInv'
  BY <1>11, FormatsOK DEF SendUnauthorized, TInv, TypeOK, Holding, Handling, WorkerState
<1>12. ASSUME NEW w \in Workers, SendRefused(w) PROVE TInv'
  BY <1>12 DEF SendRefused, TInv, TypeOK, Holding, Handling, WorkerState
<1>13. ASSUME NEW w \in Workers, RecordFormat(w) PROVE TInv'
  BY <1>13 DEF RecordFormat, TInv, TypeOK, Holding, Handling, WorkerState
<1>14. ASSUME NEW w \in Workers, RecordFormatFails(w) PROVE TInv'
  BY <1>14, DeliveryAssumption
  DEF RecordFormatFails, Fault, TInv, TypeOK, Holding, Handling, WorkerState
<1>15. ASSUME NEW w \in Workers, Settle(w) PROVE TInv'
  <2>1. batch[w] \ {cur[w]} \in SUBSET Jobs
    BY DEF TInv, TypeOK
  <2>2. SettledRow(w) /\ Stop(w, batch[w] \ {cur[w]})
    BY <1>15 DEF Settle
  <2>3. QED
    BY <1>15, <2>1, <2>2, SettledRowTyped, StopTyped DEF Settle, TInv, TypeOK
<1>16. ASSUME NEW w \in Workers, SettleFails(w) \/ Crash(w) PROVE TInv'
  <2>1. Stop(w, {}) /\ faults' \in 0..MaxFaults
    BY <1>16, DeliveryAssumption DEF SettleFails, Crash, Fault, TInv, TypeOK
  <2>2. /\ status' \in [Jobs -> JobStatus]
        /\ attempts' \in [Jobs -> 0..MaxAttempts]
        /\ wait' \in [Jobs -> (-MaxLag)..MaxDelay]
    BY <1>16, SettledRowTyped DEF SettleFails, Crash, TInv, TypeOK
  <2>3. QED
    BY <1>16, <2>1, <2>2, StopTyped DEF SettleFails, Crash, TInv, TypeOK
<1>17. ASSUME Tick PROVE TInv'
  <2>1. /\ wait' \in [Jobs -> (-MaxLag)..MaxDelay]
        /\ age' \in [Workers -> 0..(MaxDelay + MaxLag)]
    BY <1>17, DeliveryAssumption DEF Tick, TInv, TypeOK
  <2>2. QED
    BY <1>17, <2>1 DEF Tick, TInv, TypeOK, Holding, Handling
<1>18. CASE UNCHANGED vars
  BY <1>18 DEF vars, TInv, TypeOK, Holding, Handling
<1>19. QED
  BY <1>1, <1>2, <1>3, <1>4, <1>6, <1>7, <1>8, <1>9, <1>10, <1>11, <1>12, <1>13, <1>14,
     <1>15, <1>16, <1>17, <1>18
  DEF Next, Caller, Pass, Own, SendEnds, Trouble

(* Every behaviour of the queue and its workers is well typed, whatever is *)
(* lost, refused or crashed.                                               *)
THEOREM TypeCorrect == SafeSpec => []TypeOK
<1>1. TInv => TypeOK
  BY DEF TInv
<1>2. QED
  BY TInvInit, TInvStep, <1>1, PTL DEF SafeSpec

-----------------------------------------------------------------------------
(* Claims are exclusive.  Nothing in the settling statements guards them:  *)
(* it follows from claim_due selecting pending rows only.                  *)

LEMMA HandledJob ==
  ASSUME TInv, ClaimsExclusive, NEW w \in Workers, Handling(w)
  PROVE  /\ cur[w] \in batch[w] /\ cur[w] \in Jobs
         /\ status[cur[w]] = "in_progress"
         /\ \A v \in Workers : v # w => cur[w] \notin batch[v]
  BY DEF TInv, TypeOK, Holding, ClaimsExclusive

(* A settling statement touches the row of the current job only.           *)
LEMMA SettledRowFrame ==
  ASSUME TInv, NEW w \in Workers, SettledRow(w)
  PROVE  /\ Handling(w)
         /\ \A j \in Jobs : j # cur[w] => /\ status'[j] = status[j]
                                          /\ attempts'[j] = attempts[j]
  BY DEF SettledRow, Handling, TInv, TypeOK

LEMMA ClaimsStep == TInv /\ ClaimsExclusive /\ [Next]_vars => ClaimsExclusive'
<1> SUFFICES ASSUME TInv, ClaimsExclusive, [Next]_vars PROVE ClaimsExclusive'
  OBVIOUS
<1> USE DEF callVars, jobVars, workerVars, history
<1>1. ASSUME NEW w \in Workers, Claim(w) PROVE ClaimsExclusive'
  <2>1. PICK b \in SUBSET Jobs :
          Claimable(w, b) /\ MarkInProgress(b) /\ batch' = [batch EXCEPT ![w] = b]
    BY <1>1 DEF Claim
  <2>2. \A v \in Workers : batch[v] \cap b = {}
    BY <2>1 DEF Claimable, Due, ClaimsExclusive, TInv, TypeOK
  <2>3. QED
    BY <2>1, <2>2 DEF MarkInProgress, ClaimsExclusive, TInv, TypeOK
<1>2. ASSUME NEW w \in Workers, ClaimReplyLost(w) PROVE ClaimsExclusive'
  BY <1>2 DEF ClaimReplyLost, MarkInProgress, ClaimsExclusive, TInv, TypeOK
<1>3. ASSUME NEW a \in Activities, NEW i \in Inboxes, DispatchRemote(a, i)
      PROVE  ClaimsExclusive'
  BY <1>3 DEF DispatchRemote, ClaimsExclusive, TInv, TypeOK, Jobs
<1>4. ASSUME NEW w \in Workers, Settle(w) PROVE ClaimsExclusive'
  <2>1. SettledRow(w) /\ batch' = [batch EXCEPT ![w] = batch[w] \ {cur[w]}]
    BY <1>4 DEF Settle, Stop
  <2>2. QED
    BY <2>1, SettledRowFrame, HandledJob DEF ClaimsExclusive, TInv, TypeOK
<1>5. ASSUME NEW w \in Workers, SettleFails(w) PROVE ClaimsExclusive'
  <2>1. /\ SettledRow(w) \/ UNCHANGED jobVars
        /\ Handling(w)
        /\ batch' = [batch EXCEPT ![w] = {}]
    BY <1>5 DEF SettleFails, Stop, Handling
  <2>2. QED
    BY <2>1, SettledRowFrame, HandledJob DEF ClaimsExclusive, TInv, TypeOK
<1>6. ASSUME NEW w \in Workers, Crash(w) PROVE ClaimsExclusive'
  BY <1>6 DEF Crash, Stop, ClaimsExclusive, TInv, TypeOK
<1>7. CASE UNCHANGED <<status, batch>>
  BY <1>7 DEF ClaimsExclusive
<1>8. QED
  BY <1>1, <1>2, <1>3, <1>4, <1>5, <1>6, <1>7
  DEF Next, Caller, Pass, Own, SendEnds, Trouble, Deliver, DispatchLocal, DispatchFails, Begin, BeginFails,
      SendAccepted, SendUnauthorized, SendRefused, SendReplyLost, RecordFormat,
      RecordFormatFails, Tick, vars

(* No two workers ever hold the same job, however many run.                *)
THEOREM ClaimsAreExclusive == SafeSpec => []ClaimsExclusive
<1>1. Init => ClaimsExclusive
  BY DEF Init, ClaimsExclusive
<1>2. QED
  BY TInvInit, TInvStep, <1>1, ClaimsStep, PTL DEF SafeSpec

-----------------------------------------------------------------------------
(* Done means received.                                                    *)

Backed ==
  /\ DoneWasReceived
  /\ \A w \in Workers : pc[w] \in {"record", "delivered"} => received[cur[w]] > 0

LEMMA BackedStep == TInv /\ ClaimsExclusive /\ Backed /\ [Next]_vars => Backed'
<1> SUFFICES ASSUME TInv, ClaimsExclusive, Backed, [Next]_vars PROVE Backed'
  OBVIOUS
<1> USE DEF callVars, jobVars, workerVars, history
<1>1. ASSUME NEW w \in Workers, Claim(w) \/ ClaimReplyLost(w) PROVE Backed'
  BY <1>1 DEF Claim, ClaimReplyLost, MarkInProgress, Backed, DoneWasReceived, TInv, TypeOK
<1>2. ASSUME NEW a \in Activities, NEW i \in Inboxes, DispatchRemote(a, i) PROVE Backed'
  BY <1>2 DEF DispatchRemote, Backed, DoneWasReceived, TInv, TypeOK, Jobs
<1>3. ASSUME NEW w \in Workers, Begin(w) \/ BeginFails(w) PROVE Backed'
  BY <1>3 DEF Begin, BeginFails, Backed, DoneWasReceived, TInv, TypeOK
<1>4. ASSUME NEW w \in Workers, SendAccepted(w) \/ SendReplyLost(w) PROVE Backed'
  <2>1. cur[w] \in Jobs
    BY <1>4 DEF SendAccepted, SendReplyLost, TInv, TypeOK, Holding, Handling
  <2>2. received' = [received EXCEPT ![cur[w]] = CountCopy(received[cur[w]])]
    BY <1>4 DEF SendAccepted, SendReplyLost
  <2>3. \A j \in Jobs : received[j] > 0 \/ j = cur[w] => received'[j] > 0
    BY <2>1, <2>2, CountsBounded DEF TInv, TypeOK
  <2>4. /\ UNCHANGED <<status, cur>>
        /\ \A v \in Workers : pc'[v] \in {"record", "delivered"} =>
             v = w \/ pc[v] \in {"record", "delivered"}
    BY <1>4 DEF SendAccepted, SendReplyLost, TInv, TypeOK
  <2>5. QED
    BY <2>1, <2>3, <2>4 DEF Backed, DoneWasReceived, TInv, TypeOK, Holding, Handling
<1>5. ASSUME NEW w \in Workers, SendUnauthorized(w) \/ SendRefused(w) PROVE Backed'
  BY <1>5 DEF SendUnauthorized, SendRefused, Backed, DoneWasReceived, TInv, TypeOK
<1>6. ASSUME NEW w \in Workers, RecordFormat(w) \/ RecordFormatFails(w) PROVE Backed'
  BY <1>6 DEF RecordFormat, RecordFormatFails, Backed, DoneWasReceived, TInv, TypeOK
<1>7. ASSUME NEW w \in Workers, Settle(w) \/ SettleFails(w) \/ Crash(w) PROVE Backed'
  <2>1. PICK rest \in SUBSET Jobs : Stop(w, rest)
    BY <1>7 DEF Settle, SettleFails, Crash, TInv, TypeOK
  <2>2. \A j \in Jobs : status'[j] = "done" => status[j] = "done" \/ received[j] > 0
    BY <1>7 DEF Settle, SettleFails, Crash, SettledRow, Backed, TInv, TypeOK, Holding, Handling
  <2>3. UNCHANGED received
    BY <1>7 DEF Settle, SettleFails, Crash
  <2>4. QED
    BY <2>1, <2>2, <2>3 DEF Stop, Backed, DoneWasReceived, TInv, TypeOK
<1>8. CASE UNCHANGED <<status, received, pc, cur>>
  BY <1>8 DEF Backed, DoneWasReceived
<1>9. QED
  BY <1>1, <1>2, <1>3, <1>4, <1>5, <1>6, <1>7, <1>8
  DEF Next, Caller, Pass, Own, SendEnds, Trouble, Deliver, DispatchLocal, DispatchFails, Tick, vars

(* A job marked done was accepted by its inbox at least once.              *)
THEOREM DoneMeansReceived == SafeSpec => []DoneWasReceived
<1>1. Init => ClaimsExclusive /\ Backed
  BY DEF Init, ClaimsExclusive, Backed, DoneWasReceived
<1>2. Backed => DoneWasReceived
  BY DEF Backed
<1>3. QED
  BY TInvInit, TInvStep, <1>1, <1>2, ClaimsStep, BackedStep, PTL DEF SafeSpec

-----------------------------------------------------------------------------
(* Attempts are counted.                                                   *)

(* One more attempt was begun for w's current job than its row says.       *)
Trying(w, j) == Handling(w) /\ cur[w] = j

Counted ==
  /\ AttemptsAreCounted
  /\ \A j \in Jobs : status[j] = "absent" => tries[j] = 0
  /\ \A w \in Workers : \A j \in batch[w] :
       /\ attempts[j] < MaxAttempts
       /\ Trying(w, j) => tries[j] = attempts[j] + 1
       /\ ~Trying(w, j) => tries[j] = attempts[j]
  /\ \A w \in Workers : pc[w] = "unrecoverable" => cur[w][1] \in Orphans

LEMMA CountedStep == TInv /\ ClaimsExclusive /\ Counted /\ [Next]_vars => Counted'
<1> SUFFICES ASSUME TInv, ClaimsExclusive, Counted, [Next]_vars PROVE Counted'
  OBVIOUS
<1> USE DEF callVars, jobVars, workerVars, history
<1>1. ASSUME NEW w \in Workers, Claim(w) PROVE Counted'
  <2>1. PICK b \in SUBSET Jobs :
          Claimable(w, b) /\ MarkInProgress(b) /\ batch' = [batch EXCEPT ![w] = b]
    BY <1>1 DEF Claim
  <2>2. \A j \in b : attempts[j] = tries[j] /\ attempts[j] < MaxAttempts
    BY <2>1 DEF Claimable, Due, Counted, AttemptsAreCounted
  <2>3. \A j \in Jobs : status'[j] = status[j] \/ status'[j] = "in_progress"
    BY <2>1 DEF MarkInProgress
  <2>4. /\ pc[w] = "idle" /\ pc' = [pc EXCEPT ![w] = "loop"]
        /\ UNCHANGED <<attempts, tries, cur>>
    BY <1>1 DEF Claim
  <2>5. QED
    BY <2>1, <2>2, <2>3, <2>4 DEF Counted, AttemptsAreCounted, Trying, Handling, TInv, TypeOK
<1>2. ASSUME NEW w \in Workers, ClaimReplyLost(w) PROVE Counted'
  BY <1>2 DEF ClaimReplyLost, MarkInProgress, Counted, AttemptsAreCounted, Trying, Handling,
              TInv, TypeOK
<1>3. ASSUME NEW a \in Activities, NEW i \in Inboxes, DispatchRemote(a, i) PROVE Counted'
  <2>1. <<a, i>> \in Jobs /\ \A w \in Workers : <<a, i>> \notin batch[w]
    BY <1>3 DEF DispatchRemote, ClaimsExclusive, Jobs
  <2>2. \A j \in Jobs : j # <<a, i>> => status'[j] = status[j] /\ attempts'[j] = attempts[j]
    BY <1>3, <2>1 DEF DispatchRemote, TInv, TypeOK
  <2>3. /\ status'[<<a, i>>] = "pending" /\ attempts'[<<a, i>>] = 0
        /\ tries[<<a, i>>] = 0 /\ 0 < MaxAttempts
    BY <1>3, <2>1, DeliveryAssumption DEF DispatchRemote, Counted, TInv, TypeOK
  <2>4. UNCHANGED <<pc, batch, cur, tries>>
    BY <1>3 DEF DispatchRemote
  <2>5. \A w \in Workers, j \in Jobs : Trying(w, j)' <=> Trying(w, j)
    BY <2>4 DEF Trying, Handling
  <2>6. \A w \in Workers : \A j \in batch[w] : j \in Jobs /\ attempts'[j] = attempts[j]
    BY <2>1, <2>2 DEF TInv, TypeOK
  <2>7. QED
    BY <2>2, <2>3, <2>4, <2>5, <2>6 DEF Counted, AttemptsAreCounted
<1>4. ASSUME NEW w \in Workers, Begin(w) \/ BeginFails(w) PROVE Counted'
  <2>1. pc[w] = "loop" /\ UNCHANGED <<status, attempts, batch>>
    BY <1>4 DEF Begin, BeginFails
  <2>2. PICK j \in batch[w] :
          /\ cur' = [cur EXCEPT ![w] = j]
          /\ tries' = [tries EXCEPT ![j] = CountTry(@)]
          /\ \E p \in {"unrecoverable", "knock1", "retryable"} :
               /\ pc' = [pc EXCEPT ![w] = p]
               /\ p = "unrecoverable" => j[1] \in Orphans
    BY <1>4 DEF Begin, BeginFails
  <2>3. j \in Jobs /\ status[j] = "in_progress" /\ CountTry(tries[j]) = attempts[j] + 1
    BY <2>1, <2>2, DeliveryAssumption
    DEF Counted, Trying, Handling, CountTry, ClaimsExclusive, TInv, TypeOK
  <2>4. \A v \in Workers : v # w => j \notin batch[v]
    BY DEF ClaimsExclusive
  <2>5. \A v \in Workers, k \in Jobs :
          v # w => /\ Trying(v, k)' <=> Trying(v, k)
                   /\ k \in batch[v] => tries'[k] = tries[k]
    BY <2>2, <2>4 DEF Trying, Handling, TInv, TypeOK
  <2>6. \A k \in batch[w] : Trying(w, k)' <=> k = j
    BY <2>1, <2>2 DEF Trying, Handling, TInv, TypeOK
  <2>7. \A k \in batch[w] : k # j => tries'[k] = tries[k] /\ ~Trying(w, k)
    BY <2>1, <2>2 DEF Trying, Handling, TInv, TypeOK
  <2>8. \A k \in Jobs : k # j => tries'[k] = tries[k]
    BY <2>2 DEF TInv, TypeOK
  <2>9. AttemptsAreCounted' /\ \A k \in Jobs : status'[k] = "absent" => tries'[k] = 0
    BY <2>1, <2>3, <2>8 DEF Counted, AttemptsAreCounted
  <2>10. \A v \in Workers : pc'[v] = "unrecoverable" => cur'[v][1] \in Orphans
    BY <2>2 DEF Counted, TInv, TypeOK
  <2>11. \A v \in Workers : \A k \in batch'[v] :
           /\ attempts'[k] < MaxAttempts
           /\ Trying(v, k)' => tries'[k] = attempts'[k] + 1
           /\ ~Trying(v, k)' => tries'[k] = attempts'[k]
    <3> TAKE v \in Workers
    <3> TAKE k \in batch'[v]
    <3>1. k \in Jobs /\ k \in batch[v]
      BY <2>1 DEF TInv, TypeOK
    <3>2. tries'[j] = attempts[j] + 1
      BY <2>2, <2>3 DEF TInv, TypeOK
    <3>3. CASE v # w
      BY <2>1, <2>5, <3>1, <3>3 DEF Counted
    <3>4. CASE v = w
      BY <2>1, <2>6, <2>7, <3>1, <3>2, <3>4 DEF Counted
    <3>5. QED
      BY <3>3, <3>4
  <2>12. QED
    BY <2>9, <2>10, <2>11 DEF Counted
<1>5. ASSUME NEW w \in Workers, NEW p \in WorkerState \ {"idle", "loop", "unrecoverable"},
             Handling(w), pc' = [pc EXCEPT ![w] = p],
             UNCHANGED <<status, attempts, batch, cur, tries>>
      PROVE  Counted'
  <2>1. \A v \in Workers, k \in Jobs : Trying(v, k)' <=> Trying(v, k)
    BY <1>5 DEF Trying, Handling, TInv, TypeOK
  <2>2. QED
    BY <1>5, <2>1 DEF Counted, AttemptsAreCounted, TInv, TypeOK
<1>6. ASSUME NEW w \in Workers,
             \/ SendAccepted(w) \/ SendUnauthorized(w) \/ SendRefused(w)
             \/ SendReplyLost(w) \/ RecordFormat(w) \/ RecordFormatFails(w)
      PROVE  Counted'
  <2>1. \E p \in WorkerState \ {"idle", "loop", "unrecoverable"} :
          pc' = [pc EXCEPT ![w] = p]
    BY <1>6 DEF SendAccepted, SendUnauthorized, SendRefused, SendReplyLost, RecordFormat,
                RecordFormatFails, WorkerState
  <2>2. Handling(w) /\ UNCHANGED <<status, attempts, batch, cur, tries>>
    BY <1>6 DEF SendAccepted, SendUnauthorized, SendRefused, SendReplyLost, RecordFormat,
                RecordFormatFails, Handling
  <2>3. QED
    BY <1>5, <2>1, <2>2
<1>7. ASSUME NEW w \in Workers, Settle(w) \/ SettleFails(w) PROVE Counted'
  <2>1. Handling(w) /\ UNCHANGED tries
    BY <1>7 DEF Settle, SettleFails, SettledRow, Handling
  <2>2. PICK rest \in SUBSET batch[w] : Stop(w, rest) /\ cur[w] \notin rest
    BY <1>7 DEF Settle, SettleFails
  <2>3. cur[w] \in Jobs /\ status[cur[w]] = "in_progress" /\ tries[cur[w]] = attempts[cur[w]] + 1
        /\ attempts[cur[w]] < MaxAttempts
    BY <2>1, HandledJob DEF Counted, Trying
  <2>4. \A j \in Jobs : j # cur[w] => status'[j] = status[j] /\ attempts'[j] = attempts[j]
    BY <1>7, SettledRowFrame DEF Settle, SettleFails
  <2>5. /\ status'[cur[w]] = "pending" =>
             attempts'[cur[w]] = tries[cur[w]] /\ tries[cur[w]] < MaxAttempts
        /\ status'[cur[w]] = "failed" =>
             tries[cur[w]] = MaxAttempts \/ cur[w][1] \in Orphans
        /\ status'[cur[w]] # "absent"
    <3>1. attempts[cur[w]] \in 0..MaxAttempts /\ MaxAttempts \in Nat
      BY <2>3, DeliveryAssumption DEF TInv, TypeOK
    <3>2. CASE UNCHANGED jobVars
      BY <2>3, <3>2
    <3>3. CASE SettledRow(w) /\ pc[w] = "delivered"
      BY <2>3, <3>3 DEF SettledRow, TInv, TypeOK
    <3>4. CASE SettledRow(w) /\ pc[w] = "unrecoverable"
      BY <2>3, <3>4 DEF SettledRow, Counted, TInv, TypeOK
    <3>5. CASE SettledRow(w) /\ pc[w] = "retryable" /\ attempts[cur[w]] + 1 >= MaxAttempts
      <4>1. tries[cur[w]] = MaxAttempts
        BY <2>3, <3>1, <3>5
      <4>2. status'[cur[w]] = "failed"
        BY <2>3, <3>1, <3>5 DEF SettledRow, TInv, TypeOK
      <4>3. QED
        BY <4>1, <4>2
    <3>6. CASE SettledRow(w) /\ pc[w] = "retryable" /\ attempts[cur[w]] + 1 < MaxAttempts
      <4>1. status'[cur[w]] = "pending" /\ attempts'[cur[w]] = attempts[cur[w]] + 1
        BY <2>3, <3>1, <3>6 DEF SettledRow, TInv, TypeOK
      <4>2. QED
        BY <2>3, <3>6, <4>1
    <3>7. SettledRow(w) => pc[w] \in {"delivered", "unrecoverable", "retryable"}
      BY DEF SettledRow
    <3>8. QED
      BY <1>7, <3>1, <3>2, <3>3, <3>4, <3>5, <3>6, <3>7 DEF Settle, SettleFails
  <2>6. /\ batch' = [batch EXCEPT ![w] = rest]
        /\ \A k \in rest : ~Trying(w, k) /\ ~Trying(w, k)'
        /\ pc'[w] # "unrecoverable"
    BY <2>2 DEF Stop, Trying, Handling, TInv, TypeOK
  <2>7. \A v \in Workers : v # w =>
          /\ pc'[v] = pc[v] /\ cur'[v] = cur[v] /\ cur[w] \notin batch[v]
          /\ \A k \in Jobs : Trying(v, k)' <=> Trying(v, k)
    BY <2>1, <2>2, HandledJob DEF Stop, Trying, Handling, TInv, TypeOK
  <2>8. AttemptsAreCounted' /\ \A j \in Jobs : status'[j] = "absent" => tries'[j] = 0
    BY <2>1, <2>4, <2>5 DEF Counted, AttemptsAreCounted
  <2>9. \A v \in Workers : \A k \in batch'[v] :
           /\ attempts'[k] < MaxAttempts
           /\ Trying(v, k)' => tries'[k] = attempts'[k] + 1
           /\ ~Trying(v, k)' => tries'[k] = attempts'[k]
    <3> TAKE v \in Workers
    <3> TAKE k \in batch'[v]
    <3>1. k \in batch[v] /\ k \in Jobs /\ k # cur[w]
      BY <2>2, <2>6, <2>7 DEF TInv, TypeOK
    <3>2. QED
      BY <2>1, <2>4, <2>6, <2>7, <3>1 DEF Counted, TInv, TypeOK
  <2>10. QED
    BY <2>6, <2>7, <2>8, <2>9 DEF Counted
<1>8. ASSUME NEW w \in Workers, Crash(w) PROVE Counted'
  <2>1. \A v \in Workers : v # w =>
          /\ batch'[v] = batch[v] /\ pc'[v] = pc[v] /\ cur'[v] = cur[v]
          /\ \A k \in Jobs : Trying(v, k)' <=> Trying(v, k)
    BY <1>8 DEF Crash, Stop, Trying, Handling, TInv, TypeOK
  <2>2. /\ batch'[w] = {} /\ pc'[w] = "idle" /\ batch' \in [Workers -> SUBSET Jobs]
        /\ UNCHANGED <<status, attempts, tries>>
    BY <1>8 DEF Crash, Stop, TInv, TypeOK
  <2>3. QED
    BY <2>1, <2>2 DEF Counted, AttemptsAreCounted
<1>9. CASE UNCHANGED <<status, attempts, batch, cur, pc, tries>>
  BY <1>9 DEF Counted, AttemptsAreCounted, Trying, Handling
<1>10. QED
  BY <1>1, <1>2, <1>3, <1>4, <1>6, <1>7, <1>8, <1>9
  DEF Next, Caller, Pass, Own, SendEnds, Trouble, Deliver, DispatchLocal, DispatchFails, Tick, vars

(* The attempts column counts the attempts begun, so no job is given up    *)
(* early or sent once too often because of a fault in between.             *)
THEOREM AttemptsStayCounted == SafeSpec => []AttemptsAreCounted
<1>1. Init => ClaimsExclusive /\ Counted
  BY DeliveryAssumption
  DEF Init, ClaimsExclusive, Counted, AttemptsAreCounted, Trying, Handling
<1>2. Counted => AttemptsAreCounted
  BY DEF Counted
<1>3. QED
  BY TInvInit, TInvStep, <1>1, <1>2, ClaimsStep, CountedStep, PTL DEF SafeSpec

-----------------------------------------------------------------------------
(* Duplicates need a doubt.                                                *)

(* w knows that its current job was accepted and has not settled it yet.   *)
Confirmed(w, j) == cur[w] = j /\ pc[w] \in {"record", "delivered"}

(* Only a job nobody can send again may be received and beyond doubt.      *)
Doubted ==
  /\ DuplicatesNeedDoubt
  /\ \A j \in Jobs : status[j] \in {"absent", "pending"} /\ received[j] > 0 => unsure[j]
  /\ \A w \in Workers : \A j \in batch[w] :
       received[j] > 0 => unsure[j] \/ Confirmed(w, j)

LEMMA DoubtedStep == TInv /\ ClaimsExclusive /\ Doubted /\ [Next]_vars => Doubted'
<1> SUFFICES ASSUME TInv, ClaimsExclusive, Doubted, [Next]_vars PROVE Doubted'
  OBVIOUS
<1> USE DEF callVars, jobVars, workerVars, history
<1>1. ASSUME NEW w \in Workers, Claim(w) PROVE Doubted'
  <2>1. PICK b \in SUBSET Jobs :
          Claimable(w, b) /\ MarkInProgress(b) /\ batch' = [batch EXCEPT ![w] = b]
    BY <1>1 DEF Claim
  <2>2. \A j \in b : received[j] > 0 => unsure[j]
    BY <2>1 DEF Claimable, Due, Doubted
  <2>3. \A j \in Jobs : status'[j] = status[j] \/ status'[j] = "in_progress"
    BY <2>1 DEF MarkInProgress
  <2>4. \A v \in Workers, j \in Jobs : v # w => (Confirmed(v, j)' <=> Confirmed(v, j))
    BY <1>1 DEF Claim, Confirmed, TInv, TypeOK
  <2>5. UNCHANGED <<received, unsure>>
    BY <1>1 DEF Claim
  <2>6. \A v \in Workers : v # w => batch'[v] = batch[v]
    BY <2>1 DEF TInv, TypeOK
  <2>7. batch'[w] = b /\ \A v \in Workers : batch[v] \subseteq Jobs
    BY <2>1 DEF TInv, TypeOK
  <2>8. QED
    BY <2>2, <2>3, <2>4, <2>5, <2>6, <2>7 DEF Doubted, DuplicatesNeedDoubt
<1>2. ASSUME NEW w \in Workers, ClaimReplyLost(w) PROVE Doubted'
  BY <1>2 DEF ClaimReplyLost, MarkInProgress, Doubted, DuplicatesNeedDoubt, Confirmed,
              TInv, TypeOK
<1>3. ASSUME NEW a \in Activities, NEW i \in Inboxes, DispatchRemote(a, i) PROVE Doubted'
  BY <1>3 DEF DispatchRemote, Doubted, DuplicatesNeedDoubt, Confirmed, TInv, TypeOK, Jobs
<1>4. ASSUME NEW w \in Workers, Begin(w) \/ BeginFails(w) PROVE Doubted'
  <2>1. pc[w] = "loop" /\ UNCHANGED <<status, batch, received, unsure>>
    BY <1>4 DEF Begin, BeginFails
  <2>2. \A v \in Workers : v # w => pc'[v] = pc[v] /\ cur'[v] = cur[v]
    BY <1>4 DEF Begin, BeginFails, TInv, TypeOK
  <2>3. \A v \in Workers, j \in Jobs : Confirmed(v, j) => Confirmed(v, j)'
    BY <2>1, <2>2 DEF Confirmed
  <2>4. \A v \in Workers : batch[v] \subseteq Jobs
    BY DEF TInv, TypeOK
  <2>5. QED
    BY <2>1, <2>3, <2>4 DEF Doubted, DuplicatesNeedDoubt
<1>5. ASSUME NEW w \in Workers, SendAccepted(w) \/ SendReplyLost(w) PROVE Doubted'
  <2>1. Handling(w) /\ UNCHANGED <<status, batch, cur>>
    BY <1>5 DEF SendAccepted, SendReplyLost, Handling
  <2>2. cur[w] \in Jobs /\ status[cur[w]] = "in_progress" /\ cur[w] \in batch[w]
        /\ \A v \in Workers : v # w => cur[w] \notin batch[v]
    BY <2>1, HandledJob
  <2>3. pc[w] \in {"knock1", "knock2"} /\ \A j \in Jobs : ~Confirmed(w, j)
    BY <1>5 DEF SendAccepted, SendReplyLost, Confirmed
  <2>4. received[cur[w]] > 0 => unsure[cur[w]]
    BY <2>2, <2>3 DEF Doubted
  <2>5. \A j \in Jobs : j # cur[w] => received'[j] = received[j] /\ (unsure'[j] <=> unsure[j])
    BY <1>5 DEF SendAccepted, SendReplyLost, TInv, TypeOK
  <2>6. received'[cur[w]] = CountCopy(received[cur[w]])
    BY <1>5, <2>2 DEF SendAccepted, SendReplyLost, TInv, TypeOK
  <2>7. received[cur[w]] \in Nat
    BY <2>2, DeliveryAssumption DEF TInv, TypeOK
  <2>8. received'[cur[w]] > 1 => received[cur[w]] > 0
    BY <2>6, <2>7 DEF CountCopy
  <2>9. unsure[cur[w]] => unsure'[cur[w]]
    BY <1>5, <2>2 DEF SendAccepted, SendReplyLost, TInv, TypeOK
  <2>10. unsure'[cur[w]] \/ \A j \in Jobs : j = cur[w] => Confirmed(w, j)'
    BY <1>5, <2>2 DEF SendAccepted, SendReplyLost, Confirmed, TInv, TypeOK
  <2>11. \A v \in Workers, j \in Jobs : v # w => (Confirmed(v, j)' <=> Confirmed(v, j))
    BY <1>5 DEF SendAccepted, SendReplyLost, Confirmed, TInv, TypeOK
  <2>12. DuplicatesNeedDoubt'
    BY <2>4, <2>5, <2>8, <2>9 DEF Doubted, DuplicatesNeedDoubt
  <2>13. \A j \in Jobs : status'[j] \in {"absent", "pending"} /\ received'[j] > 0 => unsure'[j]
    BY <2>1, <2>2, <2>5 DEF Doubted
  <2>14. \A v \in Workers : \A j \in batch'[v] :
            received'[j] > 0 => unsure'[j] \/ Confirmed(v, j)'
    <3> TAKE v \in Workers
    <3> TAKE j \in batch'[v]
    <3>1. j \in Jobs /\ j \in batch[v]
      BY <2>1 DEF TInv, TypeOK
    <3>2. CASE j = cur[w]
      BY <2>2, <2>10, <3>1, <3>2
    <3>3. CASE j # cur[w] /\ v = w
      BY <2>3, <2>5, <3>1, <3>3 DEF Doubted
    <3>4. CASE j # cur[w] /\ v # w
      BY <2>5, <2>11, <3>1, <3>4 DEF Doubted
    <3>5. QED
      BY <3>2, <3>3, <3>4
  <2>15. QED
    BY <2>12, <2>13, <2>14 DEF Doubted
<1>6. ASSUME NEW w \in Workers, SendUnauthorized(w) \/ SendRefused(w) \/ RecordFormat(w)
      PROVE  Doubted'
  <2>1. UNCHANGED <<status, batch, cur, received, unsure>>
    BY <1>6 DEF SendUnauthorized, SendRefused, RecordFormat
  <2>2. \A v \in Workers, j \in Jobs : Confirmed(v, j) => Confirmed(v, j)'
    BY <1>6 DEF SendUnauthorized, SendRefused, RecordFormat, Confirmed, TInv, TypeOK
  <2>3. \A v \in Workers : batch[v] \subseteq Jobs
    BY DEF TInv, TypeOK
  <2>4. QED
    BY <2>1, <2>2, <2>3 DEF Doubted, DuplicatesNeedDoubt
<1>7. ASSUME NEW w \in Workers, RecordFormatFails(w) PROVE Doubted'
  <2>1. cur[w] \in Jobs /\ UNCHANGED <<status, batch, cur, received>>
    BY <1>7 DEF RecordFormatFails, TInv, TypeOK, Holding, Handling
  <2>2. unsure'[cur[w]] /\ \A j \in Jobs : unsure[j] => unsure'[j]
    BY <1>7, <2>1 DEF RecordFormatFails, TInv, TypeOK
  <2>3. \A v \in Workers, j \in Jobs : Confirmed(v, j) => Confirmed(v, j)' \/ unsure'[j]
    BY <1>7, <2>2 DEF RecordFormatFails, Confirmed, TInv, TypeOK
  <2>4. \A v \in Workers : batch[v] \subseteq Jobs
    BY DEF TInv, TypeOK
  <2>5. QED
    BY <2>1, <2>2, <2>3, <2>4 DEF Doubted, DuplicatesNeedDoubt
<1>8. ASSUME NEW w \in Workers, Settle(w) \/ SettleFails(w) \/ Crash(w) PROVE Doubted'
  <2>1. PICK rest \in SUBSET batch[w] : Stop(w, rest) /\ (Handling(w) => cur[w] \notin rest)
    BY <1>8 DEF Settle, SettleFails, Crash
  <2>2. UNCHANGED <<received, unsure>>
    BY <1>8 DEF Settle, SettleFails, Crash
  <2>3. \A j \in Jobs : status'[j] \in {"absent", "pending"} =>
          \/ status'[j] = status[j]
          \/ j = cur[w] /\ pc[w] = "retryable"
    BY <1>8 DEF Settle, SettleFails, Crash, SettledRow, TInv, TypeOK
  <2>4. pc[w] = "retryable" /\ received[cur[w]] > 0 => unsure[cur[w]]
    BY HandledJob DEF Doubted, Confirmed, Handling
  <2>5. \A v \in Workers : v # w =>
          /\ batch'[v] = batch[v]
          /\ \A j \in Jobs : Confirmed(v, j)' <=> Confirmed(v, j)
    BY <2>1 DEF Stop, Confirmed, TInv, TypeOK
  <2>6. batch'[w] = rest /\ \A j \in rest : ~Confirmed(w, j)
    BY <2>1 DEF Stop, Confirmed, Handling, TInv, TypeOK
  <2>7. \A v \in Workers : batch[v] \subseteq Jobs
    BY DEF TInv, TypeOK
  <2>8. \A j \in Jobs : status'[j] \in {"absent", "pending"} /\ received'[j] > 0 => unsure'[j]
    BY <2>2, <2>3, <2>4 DEF Doubted
  <2>9. \A v \in Workers : \A j \in batch'[v] :
           received'[j] > 0 => unsure'[j] \/ Confirmed(v, j)'
    BY <2>1, <2>2, <2>5, <2>6, <2>7 DEF Doubted
  <2>10. QED
    BY <2>2, <2>8, <2>9 DEF Doubted, DuplicatesNeedDoubt
<1>9. CASE UNCHANGED <<status, received, unsure, batch, cur, pc>>
  BY <1>9 DEF Doubted, DuplicatesNeedDoubt, Confirmed
<1>10. QED
  BY <1>1, <1>2, <1>3, <1>4, <1>5, <1>6, <1>7, <1>8, <1>9
  DEF Next, Caller, Pass, Own, SendEnds, Trouble, Deliver, DispatchLocal, DispatchFails, Tick, vars

(* An inbox sees an activity twice only when an accepted copy went         *)
(* unreported, whatever crashes, errors or competing workers there are.    *)
THEOREM DuplicatesAreExcused == SafeSpec => []DuplicatesNeedDoubt
<1>1. Init => ClaimsExclusive /\ Doubted
  BY DEF Init, ClaimsExclusive, Doubted, DuplicatesNeedDoubt
<1>2. Doubted => DuplicatesNeedDoubt
  BY DEF Doubted
<1>3. QED
  BY TInvInit, TInvStep, <1>1, <1>2, ClaimsStep, DoubtedStep, PTL DEF SafeSpec

-----------------------------------------------------------------------------
(* Recorded formats work.                                                  *)

Formatted ==
  /\ RecordedFormatWorks
  /\ \A w \in Workers : pc[w] = "record" => fmt[w] \in Supports[Host(cur[w])]

LEMMA FormattedStep == TInv /\ Formatted /\ [Next]_vars => Formatted'
<1> SUFFICES ASSUME TInv, Formatted, [Next]_vars PROVE Formatted'
  OBVIOUS
<1> USE DEF callVars, jobVars, workerVars, history
<1>1. ASSUME NEW w \in Workers, Begin(w) \/ BeginFails(w) PROVE Formatted'
  BY <1>1 DEF Begin, BeginFails, Formatted, RecordedFormatWorks, Host, TInv, TypeOK
<1>2. ASSUME NEW w \in Workers, SendAccepted(w) PROVE Formatted'
  BY <1>2 DEF SendAccepted, Formatted, RecordedFormatWorks, Host, TInv, TypeOK
<1>3. ASSUME NEW w \in Workers, SendUnauthorized(w) \/ SendRefused(w) \/ SendReplyLost(w)
      PROVE  Formatted'
  BY <1>3 DEF SendUnauthorized, SendRefused, SendReplyLost, Formatted, RecordedFormatWorks,
              Host, TInv, TypeOK
<1>4. ASSUME NEW w \in Workers, RecordFormat(w) PROVE Formatted'
  BY <1>4 DEF RecordFormat, Formatted, RecordedFormatWorks, Host, TInv, TypeOK
<1>5. ASSUME NEW w \in Workers, RecordFormatFails(w) PROVE Formatted'
  BY <1>5 DEF RecordFormatFails, Formatted, RecordedFormatWorks, Host, TInv, TypeOK
<1>6. ASSUME NEW w \in Workers, Settle(w) \/ SettleFails(w) \/ Crash(w) PROVE Formatted'
  <2>1. /\ \A v \in Workers : pc'[v] = "record" =>
             pc[v] = "record" /\ cur'[v] = cur[v] /\ fmt'[v] = fmt[v]
        /\ UNCHANGED known
    BY <1>6 DEF Settle, SettleFails, Crash, Stop, TInv, TypeOK
  <2>2. QED
    BY <2>1 DEF Formatted, RecordedFormatWorks, Host
<1>7. ASSUME NEW w \in Workers, Claim(w) PROVE Formatted'
  BY <1>7 DEF Claim, Formatted, RecordedFormatWorks, Host, TInv, TypeOK
<1>8. CASE UNCHANGED <<known, pc, cur, fmt>>
  BY <1>8 DEF Formatted, RecordedFormatWorks, Host
<1>9. QED
  BY <1>1, <1>2, <1>3, <1>4, <1>5, <1>6, <1>7, <1>8
  DEF Next, Caller, Pass, Own, SendEnds, Trouble, Deliver, DispatchLocal, DispatchRemote, DispatchFails,
      ClaimReplyLost, Tick, vars

(* What the double-knock learns about a host is always a format the host   *)
(* verifies, whichever worker learns it.                                   *)
THEOREM RecordedFormatsWork == SafeSpec => []RecordedFormatWorks
<1>1. Init => Formatted
  BY DEF Init, Formatted, RecordedFormatWorks
<1>2. Formatted => RecordedFormatWorks
  BY DEF Formatted
<1>3. QED
  BY TInvInit, TInvStep, <1>1, <1>2, FormattedStep, PTL DEF SafeSpec

-----------------------------------------------------------------------------
(* The implementation of DeliveryPromise.                                  *)

(* The refinement mapping's image of a row.                                *)
Image(s) == CASE s = "absent" -> "none"
              [] s \in {"pending", "in_progress"} -> "owed"
              [] s = "done" -> "delivered"
              [] s = "failed" -> "abandoned"

Promised == [j \in Jobs |-> Image(status[j])]

LEMMA ImageValues ==
  /\ Image("absent") = "none" /\ Image("pending") = "owed" /\ Image("in_progress") = "owed"
  /\ Image("done") = "delivered" /\ Image("failed") = "abandoned"
  BY DEF Image

LEMMA PromiseMap ==
  /\ Promise!Init <=> Promised = [j \in Jobs |-> "none"] /\ received = [j \in Jobs |-> 0]
  /\ UNCHANGED Promise!vars <=> Promised' = Promised /\ received' = received
  /\ \A j \in Jobs :
       /\ Promise!Owe(j) <=> /\ Promised[j] = "none"
                             /\ Promised' = [Promised EXCEPT ![j] = "owed"]
                             /\ UNCHANGED received
       /\ Promise!Arrive(j) <=> /\ Promised[j] = "owed"
                                /\ received' = [received EXCEPT ![j] = CountCopy(@)]
                                /\ Promised' = Promised
       /\ Promise!Deliver(j) <=> /\ Promised[j] = "owed"
                                 /\ received[j] > 0
                                 /\ Promised' = [Promised EXCEPT ![j] = "delivered"]
                                 /\ UNCHANGED received
       /\ Promise!Abandon(j) <=> /\ Promised[j] = "owed"
                                 /\ Promised' = [Promised EXCEPT ![j] = "abandoned"]
                                 /\ UNCHANGED received
  BY DEF Promise!Init, Promise!vars, Promise!Owe, Promise!Arrive, Promise!Deliver,
         Promise!Abandon, Promise!Owed, Promise!CountCopy, CountCopy, Promised, Image

(* One row changes and no copy arrives.                                    *)
LEMMA OneRow ==
  ASSUME TInv, NEW j \in Jobs, NEW s \in JobStatus, status' = [status EXCEPT ![j] = s]
  PROVE  Promised' = [Promised EXCEPT ![j] = Image(s)]
  BY DEF Promised, TInv, TypeOK

LEMMA Refines ==
  TInv /\ ClaimsExclusive /\ Backed /\ [Next]_vars => [Promise!Next]_(Promise!vars)
<1> SUFFICES ASSUME TInv, ClaimsExclusive, Backed, [Next]_vars,
                    ~ UNCHANGED Promise!vars
             PROVE  \E j \in Jobs : \/ Promise!Owe(j) \/ Promise!Arrive(j)
                                    \/ Promise!Deliver(j) \/ Promise!Abandon(j)
  BY DEF Promise!Next
<1> USE DEF callVars, jobVars, workerVars, history
<1>1. ASSUME NEW a \in Activities, NEW i \in Inboxes, DispatchRemote(a, i)
      PROVE  \E j \in Jobs : Promise!Owe(j)
  <2>1. <<a, i>> \in Jobs
    BY DEF Jobs
  <2>2. Promised[<<a, i>>] = "none" /\ UNCHANGED received
    BY <1>1, <2>1, ImageValues DEF DispatchRemote, Promised
  <2>3. Promised' = [Promised EXCEPT ![<<a, i>>] = "owed"]
    BY <1>1, <2>1, OneRow, ImageValues DEF DispatchRemote, JobStatus
  <2>4. QED
    BY <2>1, <2>2, <2>3, PromiseMap
<1>2. ASSUME NEW w \in Workers, SendAccepted(w) \/ SendReplyLost(w)
      PROVE  \E j \in Jobs : Promise!Arrive(j)
  <2>1. cur[w] \in Jobs /\ status[cur[w]] = "in_progress"
    BY <1>2, HandledJob DEF SendAccepted, SendReplyLost, Handling
  <2>2. Promised[cur[w]] = "owed" /\ Promised' = Promised
    BY <1>2, <2>1, ImageValues DEF SendAccepted, SendReplyLost, Promised
  <2>3. received' = [received EXCEPT ![cur[w]] = CountCopy(@)]
    BY <1>2 DEF SendAccepted, SendReplyLost
  <2>4. QED
    BY <2>1, <2>2, <2>3, PromiseMap
<1>3. ASSUME NEW w \in Workers, SettledRow(w), UNCHANGED received
      PROVE  \E j \in Jobs : Promise!Deliver(j) \/ Promise!Abandon(j)
  <2>1. cur[w] \in Jobs /\ status[cur[w]] = "in_progress"
    BY <1>3, SettledRowFrame, HandledJob
  <2>2. Promised[cur[w]] = "owed"
    BY <2>1, ImageValues DEF Promised
  <2>3. CASE pc[w] = "delivered"
    <3>1. status' = [status EXCEPT ![cur[w]] = "done"] /\ received[cur[w]] > 0
      BY <1>3, <2>3 DEF SettledRow, Backed
    <3>2. Promised' = [Promised EXCEPT ![cur[w]] = "delivered"]
      BY <2>1, <3>1, OneRow, ImageValues DEF JobStatus
    <3>3. QED
      BY <1>3, <2>1, <2>2, <3>1, <3>2, PromiseMap
  <2>4. CASE status' = [status EXCEPT ![cur[w]] = "failed"]
    <3>1. Promised' = [Promised EXCEPT ![cur[w]] = "abandoned"]
      BY <2>1, <2>4, OneRow, ImageValues DEF JobStatus
    <3>2. QED
      BY <1>3, <2>1, <2>2, <3>1, PromiseMap
  <2>5. CASE status' = [status EXCEPT ![cur[w]] = "pending"]
    <3>1. Promised' = [Promised EXCEPT ![cur[w]] = "owed"]
      BY <2>1, <2>5, OneRow, ImageValues DEF JobStatus
    <3>2. Promised' = Promised
      BY <2>1, <2>2, <3>1 DEF Promised
    <3>3. QED
      BY <1>3, <3>2, PromiseMap
  <2>6. QED
    BY <1>3, <2>3, <2>4, <2>5 DEF SettledRow
<1>4. ASSUME NEW w \in Workers, NEW b \in SUBSET Jobs, Claimable(w, b), MarkInProgress(b)
      PROVE  Promised' = Promised
  <2>1. \A j \in Jobs : status'[j] = status[j] \/ (status[j] = "pending" /\ status'[j] = "in_progress")
    BY <1>4 DEF Claimable, Due, MarkInProgress
  <2>2. \A j \in Jobs : Image(status'[j]) = Image(status[j])
    BY <2>1, ImageValues
  <2>3. QED
    BY <2>2 DEF Promised
<1>5. ASSUME NEW w \in Workers, Claim(w) \/ ClaimReplyLost(w)
      PROVE  FALSE
  <2>1. Promised' = Promised /\ received' = received
    BY <1>4, <1>5 DEF Claim, ClaimReplyLost
  <2>2. QED
    BY <2>1, PromiseMap
<1>6. CASE UNCHANGED <<status, received>>
  BY <1>6, PromiseMap DEF Promised
<1>7. QED
  BY <1>1, <1>2, <1>3, <1>5, <1>6
  DEF Next, Caller, Pass, Own, SendEnds, Trouble, Deliver, DispatchLocal, DispatchFails, Begin, BeginFails,
      SendUnauthorized, SendRefused, RecordFormat, RecordFormatFails, Settle, SettleFails,
      Crash, Tick, vars

(* The queue and its workers implement DeliveryPromise: a settled job is   *)
(* never sent again and never revived, and done is always honest.          *)
THEOREM DeliveryKeepsPromise == SafeSpec => KeepsPromise
<1>1. Init => ClaimsExclusive /\ Backed
  BY DEF Init, ClaimsExclusive, Backed, DoneWasReceived
<1>2. Init => Promise!Init
  <2> SUFFICES ASSUME Init PROVE Promise!Init
    OBVIOUS
  <2>1. Promised = [j \in Jobs |-> "none"] /\ received = [j \in Jobs |-> 0]
    BY ImageValues DEF Init, Promised
  <2>2. QED
    BY <2>1, PromiseMap
<1>3. QED
  BY TInvInit, TInvStep, <1>1, <1>2, ClaimsStep, BackedStep, Refines, PTL
  DEF SafeSpec, KeepsPromise, Promise!Spec
=============================================================================
