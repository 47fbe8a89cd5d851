------------------------------ MODULE Delivery ------------------------------
(***************************************************************************)
(* Outbound federation delivery: DeliveryService fans one activity out to  *)
(* its targets, the PostgreSQL-backed queue keeps one delivery_jobs row    *)
(* per (activity, inbox), and DeliveryWorker passes claim due rows, send   *)
(* them with the double-knock signature negotiation and settle each row.   *)
(*                                                                         *)
(* Time is relative: wait[j] is next_attempt_at minus the current time and *)
(* age[w] is the time since worker w's pass read its clock.  Every         *)
(* activity id is freshly minted by its builder, so an activity is handed  *)
(* to deliver at most once.                                                *)
(***************************************************************************)
EXTENDS Integers, FiniteSets

CONSTANTS
  Workers,      \* running DeliveryWorker loops (one per server process)
  Activities,   \* activities handed to DeliveryService::deliver
  Inboxes,      \* remote inbox URLs
  Locals,       \* local recipients
  Hosts,        \* remote hosts
  HostOf,       \* HostOf[i]: the host of inbox i
  Recipients,   \* Recipients[a]: resolved targets of activity a
  Orphans,      \* activities whose sender row may disappear
  Supports,     \* Supports[h]: signature formats host h verifies
  Limit,        \* Limit[w]: delivery_poll_batch_size of w's process
  MaxAttempts,  \* DEFAULT_MAX_DELIVERY_ATTEMPTS
  BaseDelay,    \* DEFAULT_DELIVERY_BASE_DELAY
  MaxDelay,     \* DEFAULT_DELIVERY_MAX_DELAY
  MaxLag,       \* bound: a due job is at most this long overdue
  MaxFaults,    \* bound: database errors and crashes in a behaviour
  SeenCap,      \* bound: accepted copies are counted up to this
  NoJob

Formats == {"draft_cavage", "rfc9421"}
Targets == Inboxes \cup Locals
Jobs    == Activities \X Inboxes

ASSUME DeliveryAssumption ==
  /\ Inboxes \cap Locals = {}
  /\ HostOf \in [Inboxes -> Hosts]
  /\ Recipients \in [Activities -> SUBSET Targets]
  /\ Supports \in [Hosts -> SUBSET Formats]
  /\ Limit \in [Workers -> Nat \ {0}]
  /\ MaxAttempts \in Nat \ {0}
  /\ BaseDelay \in Nat \ {0}
  /\ MaxDelay \in Nat \ {0}
  /\ MaxLag \in Nat
  /\ MaxFaults \in Nat
  /\ SeenCap \in Nat \ {0}
  /\ NoJob \notin Jobs

VARIABLES
  call,      \* call[a]: the deliver call for activity a
  todo,      \* todo[a]: targets that call has not dispatched to yet
  status,    \* status[j]: delivery_jobs.status, "absent" for no row
  attempts,  \* attempts[j]: delivery_jobs.attempts
  wait,      \* wait[j]: next_attempt_at minus now, kept while j is pending
  known,     \* known[h]: instance_signature_capabilities.format, or "none"
  pc,        \* pc[w]: where worker w is
  batch,     \* batch[w]: claimed jobs run_once has not finished
  cur,       \* cur[w]: the job of process_job
  fmt,       \* fmt[w]: the format of the send under way
  age,       \* age[w]: time since the pass read its clock
  received,  \* history: copies of j the remote inbox accepted
  unsure,    \* history: an accepted copy of j was not reported as delivered
  tries,     \* history: send attempts begun for j
  faults     \* history: database errors and crashes so far

callVars   == <<call, todo>>
jobVars    == <<status, attempts, wait>>
workerVars == <<pc, batch, cur, fmt, age>>
history    == <<received, unsure, tries>>
vars == <<callVars, jobVars, known, workerVars, history, faults>>

-----------------------------------------------------------------------------
CallState   == {"new", "running", "ok", "error"}
JobStatus   == {"absent", "pending", "in_progress", "done", "failed"}
WorkerState == {"idle", "loop", "knock1", "knock2", "record", "delivered",
                "retryable", "unrecoverable"}

(* Every variable has its type.                                            *)
TypeOK ==
  /\ call \in [Activities -> CallState]
  /\ todo \in [Activities -> SUBSET Targets]
  /\ status \in [Jobs -> JobStatus]
  /\ attempts \in [Jobs -> 0..MaxAttempts]
  /\ wait \in [Jobs -> (-MaxLag)..MaxDelay]
  /\ known \in [Hosts -> Formats \cup {"none"}]
  /\ pc \in [Workers -> WorkerState]
  /\ batch \in [Workers -> SUBSET Jobs]
  /\ cur \in [Workers -> Jobs \cup {NoJob}]
  /\ fmt \in [Workers -> Formats]
  /\ age \in [Workers -> 0..(MaxDelay + MaxLag)]
  /\ received \in [Jobs -> 0..SeenCap]
  /\ unsure \in [Jobs -> BOOLEAN]
  /\ tries \in [Jobs -> 0..(MaxAttempts + 1)]
  /\ faults \in 0..MaxFaults

Host(j) == HostOf[j[2]]

(* negotiation.rs other_format: exactly two formats exist.                 *)
OtherFormat(f) == CHOOSE g \in Formats : g # f

(* negotiate_and_send's first choice.                                      *)
FirstFormat(h) == IF known[h] = "none" THEN "draft_cavage" ELSE known[h]

BackoffNoCap(n) == BaseDelay * 2^n

(* queue.rs backoff_delay: doubling, capped.                               *)
Backoff(n) == IF BaseDelay * 2^n \in 1..MaxDelay THEN BaseDelay * 2^n
                                                 ELSE MaxDelay

(* next_attempt_at = pass clock + backoff, seen from the current time.     *)
Remaining(delay, elapsed) ==
  IF delay - elapsed < -MaxLag THEN -MaxLag ELSE delay - elapsed

CountCopy(n) == IF n < SeenCap THEN n + 1 ELSE n

CountTry(n) == IF n <= MaxAttempts THEN n + 1 ELSE n

Fault == faults < MaxFaults /\ faults' = faults + 1

-----------------------------------------------------------------------------
(* DeliveryService::deliver                                                *)

(* The activity is serialized once and its targets are resolved.           *)
Deliver(a) ==
  /\ call[a] = "new"
  /\ call' = [call EXCEPT ![a] = IF Recipients[a] = {} THEN "ok" ELSE "running"]
  /\ todo' = [todo EXCEPT ![a] = Recipients[a]]
  /\ UNCHANGED <<jobVars, known, workerVars, history, faults>>

Dispatched(a, t) ==
  /\ call[a] = "running"
  /\ t \in todo[a]
  /\ todo' = [todo EXCEPT ![a] = @ \ {t}]
  /\ call' = [call EXCEPT ![a] = IF todo[a] = {t} THEN "ok" ELSE "running"]

(* LocalDeliverySink: in-process, creates no job.                          *)
DispatchLocal(a, l) ==
  /\ Dispatched(a, l)
  /\ UNCHANGED <<jobVars, known, workerVars, history, faults>>

(* HttpDeliverySink and enqueue: a pending row that is due at once.        *)
DispatchRemote(a, i) ==
  /\ Dispatched(a, i)
  /\ status[<<a, i>>] = "absent"
  /\ status' = [status EXCEPT ![<<a, i>>] = "pending"]
  /\ attempts' = [attempts EXCEPT ![<<a, i>>] = 0]
  /\ wait' = [wait EXCEPT ![<<a, i>>] = 0]
  /\ UNCHANGED <<known, workerVars, history, faults>>

(* The first target that fails ends the call; later ones get nothing.      *)
DispatchFails(a) ==
  /\ call[a] = "running"
  /\ call' = [call EXCEPT ![a] = "error"]
  /\ UNCHANGED <<todo, jobVars, known, workerVars, history, faults>>

-----------------------------------------------------------------------------
(* DeliveryWorker::run_once                                                *)

Due == {j \in Jobs : status[j] = "pending" /\ wait[j] <= 0}

ClaimableAnyStatus(w, b) ==
  /\ b \subseteq {j \in Jobs : status[j] \in {"pending", "in_progress"} /\ wait[j] <= 0}
  /\ b # {}
  /\ Cardinality(b) <= Limit[w]

(* The rows claim_due's subquery selects: the Limit[w] most overdue.       *)
Claimable(w, b) ==
  /\ b \subseteq Due
  /\ b # {}
  /\ Cardinality(b) <= Limit[w]
  /\ b = Due \/ Cardinality(b) = Limit[w]
  /\ \A j \in b, k \in Due \ b : wait[j] <= wait[k]

MarkInProgress(b) ==
  /\ status' = [j \in Jobs |-> IF j \in b THEN "in_progress" ELSE status[j]]
  /\ wait' = [j \in Jobs |-> IF j \in b THEN 0 ELSE wait[j]]

Claim(w) ==
  /\ pc[w] = "idle"
  /\ \E b \in SUBSET Jobs :
       /\ Claimable(w, b)
       /\ MarkInProgress(b)
       /\ batch' = [batch EXCEPT ![w] = b]
  /\ pc' = [pc EXCEPT ![w] = "loop"]
  /\ UNCHANGED <<callVars, attempts, known, cur, fmt, age, history, faults>>

(* claim_due commits but its reply is lost: run_once returns the error.    *)
ClaimReplyLost(w) ==
  /\ Fault
  /\ pc[w] = "idle"
  /\ \E b \in SUBSET Jobs : Claimable(w, b) /\ MarkInProgress(b)
  /\ UNCHANGED <<callVars, attempts, known, workerVars, history>>

(* process_job and attempt, up to the first send.                          *)
Begin(w) ==
  /\ pc[w] = "loop"
  /\ \E j \in batch[w] :
       /\ cur' = [cur EXCEPT ![w] = j]
       /\ tries' = [tries EXCEPT ![j] = CountTry(@)]
       /\ fmt' = [fmt EXCEPT ![w] = FirstFormat(Host(j))]
       /\ \/ pc' = [pc EXCEPT ![w] = "knock1"]
          \/ /\ j[1] \in Orphans
             /\ pc' = [pc EXCEPT ![w] = "unrecoverable"]
  /\ UNCHANGED <<callVars, jobVars, known, batch, age, received, unsure, faults>>

(* The sender lookup or recorded_format fails: nothing is sent.            *)
BeginFails(w) ==
  /\ Fault
  /\ pc[w] = "loop"
  /\ \E j \in batch[w] :
       /\ cur' = [cur EXCEPT ![w] = j]
       /\ tries' = [tries EXCEPT ![j] = CountTry(@)]
  /\ pc' = [pc EXCEPT ![w] = "retryable"]
  /\ UNCHANGED <<callVars, jobVars, known, batch, fmt, age, received, unsure>>

(* 2xx.                                                                    *)
SendAccepted(w) ==
  /\ pc[w] \in {"knock1", "knock2"}
  /\ fmt[w] \in Supports[Host(cur[w])]
  /\ received' = [received EXCEPT ![cur[w]] = CountCopy(@)]
  /\ pc' = [pc EXCEPT ![w] = "record"]
  /\ UNCHANGED <<callVars, jobVars, known, batch, cur, fmt, age, unsure, tries, faults>>

(* 401: one second knock in the other format, never a third.               *)
SendUnauthorized(w) ==
  /\ \/ /\ pc[w] = "knock1"
        /\ pc' = [pc EXCEPT ![w] = "knock2"]
        /\ fmt' = [fmt EXCEPT ![w] = OtherFormat(@)]
     \/ /\ pc[w] = "knock2"
        /\ pc' = [pc EXCEPT ![w] = "retryable"]
        /\ UNCHANGED fmt
  /\ UNCHANGED <<callVars, jobVars, known, batch, cur, age, history, faults>>

SendRefusedAsDelivered(w) ==
  /\ pc[w] \in {"knock1", "knock2"}
  /\ pc' = [pc EXCEPT ![w] = "delivered"]
  /\ UNCHANGED <<callVars, jobVars, known, batch, cur, fmt, age, history, faults>>

(* Any other status, or a transport error before the remote accepted.      *)
SendRefused(w) ==
  /\ pc[w] \in {"knock1", "knock2"}
  /\ pc' = [pc EXCEPT ![w] = "retryable"]
  /\ UNCHANGED <<callVars, jobVars, known, batch, cur, fmt, age, history, faults>>

(* A transport error after the remote accepted: the 2xx never arrives.     *)
SendReplyLost(w) ==
  /\ pc[w] \in {"knock1", "knock2"}
  /\ fmt[w] \in Supports[Host(cur[w])]
  /\ received' = [received EXCEPT ![cur[w]] = CountCopy(@)]
  /\ unsure' = [unsure EXCEPT ![cur[w]] = TRUE]
  /\ pc' = [pc EXCEPT ![w] = "retryable"]
  /\ UNCHANGED <<callVars, jobVars, known, batch, cur, fmt, age, tries, faults>>

RecordFormatFirst(w) ==
  /\ pc[w] = "record"
  /\ known' = [known EXCEPT ![Host(cur[w])] = FirstFormat(Host(cur[w]))]
  /\ pc' = [pc EXCEPT ![w] = "delivered"]
  /\ UNCHANGED <<callVars, jobVars, batch, cur, fmt, age, history, faults>>

(* record_format, then the response is returned as a success.              *)
RecordFormat(w) ==
  /\ pc[w] = "record"
  /\ known' = [known EXCEPT ![Host(cur[w])] = fmt[w]]
  /\ pc' = [pc EXCEPT ![w] = "delivered"]
  /\ UNCHANGED <<callVars, jobVars, batch, cur, fmt, age, history, faults>>

(* record_format fails: its error hides the 2xx from the worker.           *)
RecordFormatFails(w) ==
  /\ Fault
  /\ pc[w] = "record"
  /\ pc' = [pc EXCEPT ![w] = "retryable"]
  /\ unsure' = [unsure EXCEPT ![cur[w]] = TRUE]
  /\ UNCHANGED <<callVars, jobVars, known, batch, cur, fmt, age, received, tries>>

SettledRowNoLimit(w) ==
  LET j == cur[w] IN
  \/ /\ pc[w] = "delivered"
     /\ status' = [status EXCEPT ![j] = "done"]
     /\ UNCHANGED <<attempts, wait>>
  \/ /\ pc[w] = "unrecoverable"
     /\ status' = [status EXCEPT ![j] = "failed"]
     /\ UNCHANGED <<attempts, wait>>
  \/ /\ pc[w] = "retryable"
     /\ status' = [status EXCEPT ![j] = "pending"]
     /\ attempts' = [attempts EXCEPT ![j] = IF @ < MaxAttempts THEN @ + 1 ELSE @]
     /\ wait' = [wait EXCEPT ![j] = Remaining(Backoff(attempts[j]), age[w])]

SettledRowOneMoreTry(w) ==
  LET j == cur[w]
      n == attempts[j] + 1 IN
  \/ /\ pc[w] = "delivered"
     /\ status' = [status EXCEPT ![j] = "done"]
     /\ UNCHANGED <<attempts, wait>>
  \/ /\ pc[w] = "unrecoverable" \/ (pc[w] = "retryable" /\ n > MaxAttempts)
     /\ status' = [status EXCEPT ![j] = "failed"]
     /\ UNCHANGED <<attempts, wait>>
  \/ /\ pc[w] = "retryable"
     /\ n <= MaxAttempts
     /\ status' = [status EXCEPT ![j] = "pending"]
     /\ attempts' = [attempts EXCEPT ![j] = n]
     /\ wait' = [wait EXCEPT ![j] = Remaining(Backoff(n), age[w])]

(* The row as mark_done, mark_failed or reschedule leaves it.              *)
SettledRow(w) ==
  LET j == cur[w]
      n == attempts[j] + 1 IN
  \/ /\ pc[w] = "delivered"
     /\ status' = [status EXCEPT ![j] = "done"]
     /\ UNCHANGED <<attempts, wait>>
  \/ /\ pc[w] = "unrecoverable"
     /\ status' = [status EXCEPT ![j] = "failed"]
     /\ UNCHANGED <<attempts, wait>>
  \/ /\ pc[w] = "retryable"
     /\ n >= MaxAttempts
     /\ status' = [status EXCEPT ![j] = "failed"]
     /\ UNCHANGED <<attempts, wait>>
  \/ /\ pc[w] = "retryable"
     /\ n < MaxAttempts
     /\ status' = [status EXCEPT ![j] = "pending"]
     /\ attempts' = [attempts EXCEPT ![j] = n]
     /\ wait' = [wait EXCEPT ![j] = Remaining(Backoff(n), age[w])]

(* The job is over; a pass with nothing left to do ends.                   *)
Stop(w, rest) ==
  /\ pc' = [pc EXCEPT ![w] = IF rest = {} THEN "idle" ELSE "loop"]
  /\ batch' = [batch EXCEPT ![w] = rest]
  /\ cur' = [cur EXCEPT ![w] = NoJob]
  /\ fmt' = [fmt EXCEPT ![w] = "draft_cavage"]
  /\ age' = [age EXCEPT ![w] = IF rest = {} THEN 0 ELSE @]

Settle(w) ==
  /\ SettledRow(w)
  /\ Stop(w, batch[w] \ {cur[w]})
  /\ UNCHANGED <<callVars, known, history, faults>>

(* The settling statement errs, committed or not: run_once returns at once *)
(* and forgets the rest of its batch.                                      *)
SettleFails(w) ==
  /\ Fault
  /\ pc[w] \in {"delivered", "unrecoverable", "retryable"}
  /\ SettledRow(w) \/ UNCHANGED jobVars
  /\ Stop(w, {})
  /\ UNCHANGED <<callVars, known, history>>

(* The process dies: the pass is lost, the rows are not.                   *)
Crash(w) ==
  /\ Fault
  /\ pc[w] # "idle"
  /\ Stop(w, {})
  /\ UNCHANGED <<callVars, jobVars, known, history>>

(* One unit of time passes.                                                *)
Tick ==
  /\ wait' = [j \in Jobs |-> IF status[j] = "pending" /\ wait[j] > -MaxLag
                               THEN wait[j] - 1 ELSE wait[j]]
  /\ age' = [w \in Workers |->
               IF pc[w] # "idle" /\ age[w] < MaxDelay + MaxLag THEN age[w] + 1 ELSE age[w]]
  /\ UNCHANGED <<callVars, status, attempts, known, pc, batch, cur, fmt, history, faults>>

-----------------------------------------------------------------------------
Init ==
  /\ call = [a \in Activities |-> "new"]
  /\ todo = [a \in Activities |-> {}]
  /\ status = [j \in Jobs |-> "absent"]
  /\ attempts = [j \in Jobs |-> 0]
  /\ wait = [j \in Jobs |-> 0]
  /\ known = [h \in Hosts |-> "none"]
  /\ pc = [w \in Workers |-> "idle"]
  /\ batch = [w \in Workers |-> {}]
  /\ cur = [w \in Workers |-> NoJob]
  /\ fmt = [w \in Workers |-> "draft_cavage"]
  /\ age = [w \in Workers |-> 0]
  /\ received = [j \in Jobs |-> 0]
  /\ unsure = [j \in Jobs |-> FALSE]
  /\ tries = [j \in Jobs |-> 0]
  /\ faults = 0

Caller(a) ==
  \/ Deliver(a)
  \/ \E l \in Locals : DispatchLocal(a, l)
  \/ \E i \in Inboxes : DispatchRemote(a, i)
  \/ DispatchFails(a)

(* The steps of a pass that meets no fault: those on this instance, and    *)
(* the end of a send, which is up to the remote inbox.                     *)
Own(w) == Claim(w) \/ Begin(w) \/ RecordFormat(w) \/ Settle(w)

SendEnds(w) ==
  SendAccepted(w) \/ SendUnauthorized(w) \/ SendRefused(w) \/ SendReplyLost(w)

Pass(w) == Own(w) \/ SendEnds(w)

Trouble(w) ==
  \/ ClaimReplyLost(w)
  \/ BeginFails(w)
  \/ RecordFormatFails(w)
  \/ SettleFails(w)
  \/ Crash(w)

Next ==
  \/ \E a \in Activities : Caller(a)
  \/ \E w \in Workers : Pass(w) \/ Trouble(w)
  \/ Tick

(* The loop of FederationBackgroundTasks polls for ever; time passes.  The *)
(* client has no timeout, so nothing is assumed of a send.                 *)
Fairness ==
  /\ \A w \in Workers : WF_vars(Own(w))
  /\ WF_vars(Tick)

SafeSpec == Init /\ [][Next]_vars
Spec == SafeSpec /\ Fairness

-----------------------------------------------------------------------------
(* A claimed row is in progress and belongs to one pass: two workers never *)
(* hold the same job (claim_due, FOR UPDATE SKIP LOCKED), although no      *)
(* settling statement checks who holds the row.                            *)
ClaimsExclusive ==
  /\ \A w \in Workers : \A j \in batch[w] : status[j] = "in_progress"
  /\ \A v, w \in Workers : v # w => batch[v] \cap batch[w] = {}

(* run_once: a row is marked done only when the remote accepted a copy.    *)
DoneWasReceived == \A j \in Jobs : status[j] = "done" => received[j] > 0

(* process_job: the attempts column counts the attempts truly begun, so a  *)
(* job is given up after exactly MaxAttempts of them, or when its sender   *)
(* is gone, whatever failed in between.                                    *)
AttemptsAreCounted ==
  \A j \in Jobs :
    /\ status[j] = "pending" => attempts[j] = tries[j] /\ tries[j] < MaxAttempts
    /\ status[j] = "failed" => tries[j] = MaxAttempts \/ j[1] \in Orphans

(* The remote gets a second copy only when an accepted one went unreported:*)
(* a lost reply, or record_format failing after the 2xx.                   *)
DuplicatesNeedDoubt == \A j \in Jobs : received[j] > 1 => unsure[j]

(* A recorded format is one its host verifies: never the refused first     *)
(* knock of a double-knock.                                                *)
RecordedFormatWorks == \A h \in Hosts : known[h] # "none" => known[h] \in Supports[h]

Promise == INSTANCE DeliveryPromise WITH
  promise <- [j \in Jobs |-> CASE status[j] = "absent" -> "none"
                               [] status[j] \in {"pending", "in_progress"} -> "owed"
                               [] status[j] = "done" -> "delivered"
                               [] status[j] = "failed" -> "abandoned"],
  seen <- received

(* The queue and its workers implement DeliveryPromise: no copy is sent    *)
(* and no status changes once a job is done or failed.                     *)
KeepsPromise == Promise!Spec

Settled(j) == status[j] \in {"done", "failed"}

Sending(w) == pc[w] \in {"knock1", "knock2"}

(* A send of worker w never returns, its pass never ends.                  *)
HangsForever(w) == <>[]Sending(w)

(* The client without a timeout: every enqueued job is eventually done or  *)
(* failed, unless a database error or a crash happened, and a send that    *)
(* never returns holds up the claimed batch it is in and no other job,     *)
(* until every worker is caught in one.                                    *)
SettlesUnlessHeld ==
  \A j \in Jobs :
    \/ status[j] = "pending" ~> (Settled(j) \/ faults > 0)
    \/ \E w \in Workers : <>[](Sending(w) /\ j \in batch[w])
    \/ \A w \in Workers : HangsForever(w)

(* worker.rs run_once's comment: a claimed job that was not reached stays  *)
(* in progress for a future recovery pass, so it settles in the end if all *)
(* sends return.                                                           *)
ClaimedJobsRecover ==
  (\A w \in Workers : ~HangsForever(w))
    => \A j \in Jobs : status[j] = "in_progress" ~> Settled(j)
=============================================================================
