------------------------ MODULE MediaPipelineProofs ------------------------
(***************************************************************************)
(* Theorems about MediaPipeline for any uploads, any number of workers,    *)
(* any attempt limit and any number of faults.                             *)
(***************************************************************************)
EXTENDS MediaPipeline, TLAPS

-----------------------------------------------------------------------------
(* The inductive invariant                                                 *)

(* A job, and with it a worker's interest in an upload, begins when the    *)
(* upload is accepted; its media row exists from the insert on.            *)
UploadsInOrder ==
  \A m \in Media :
    /\ upload[m] \in {"none", "stored"} => media[m] = "absent"
    /\ upload[m] \in {"inserted", "accepted"} => media[m] # "absent"
    /\ upload[m] # "accepted" => job[m].state = "absent"
    /\ upload[m] # "accepted" => \A w \in Workers : ~Holds(w, m)

(* A claim that nobody could take over still stands: the row is leased, or *)
(* this worker has just failed it and has only the media left to settle.   *)
LeaseStands ==
  \A w \in Workers : \A m \in Media :
    Holds(w, m) /\ m \notin overtaken =>
      \/ job[m].state = "processing" /\ ~job[m].stale
      \/ job[m].state = "failed" /\ At(w, "setfailed")

(* What a worker relies on at a step still holds there: a completed job has*)
(* settled its media, a failed original is broken; and while nobody        *)
(* overtakes the worker its media stays unsettled and its thumbnail whole. *)
StepsAreFounded ==
  \A w \in Workers : \A m \in Media : Holds(w, m) =>
    /\ At(w, "complete") => media[m] # "processing"
    /\ At(w, "fail") => m \in broken
    /\ At(w, "ready") /\ m \notin overtaken => thumb[m] = "whole"
    /\ worker[w].step \in {"process", "put", "ready", "fail"} /\ m \notin overtaken
         => media[m] = "processing"
    /\ worker[w].step \in {"retry", "setfailed"} /\ m \notin overtaken \cup unread
         => media[m] = "processing"

(* Neither the row nor a worker has counted more attempts than claims.     *)
AttemptsAreClaims ==
  \A m \in Media :
    /\ job[m].state = "queued" => job[m].attempts <= tries[m]
    /\ job[m].state = "processing" => job[m].attempts + 1 <= tries[m]
    /\ \A w \in Workers : Holds(w, m) =>
         /\ worker[w].attempts + 1 <= tries[m]
         /\ At(w, "setfailed") => m \in broken \/ tries[m] >= MaxAttempts

(* Each of the three is inductive together with the ones before it, and    *)
(* NothingForgotten with the first two.                                    *)
Lease == TypeOK /\ UploadsInOrder /\ LeaseStands /\ OneWorkerPerJob

Founded == StepsAreFounded /\ ReadyIsViewable
Counted == AttemptsAreClaims /\ FailedOnlyAfterTries

-----------------------------------------------------------------------------
(* Type correctness                                                        *)

LEMMA TypeInit == Init => TypeOK
  BY MediaAssumption DEF Init, TypeOK, NoJob, Idle, JobStates

(* A worker's place: idle, stopped, or a step of a claimed job.            *)
LEMMA WorkerTyped ==
  ASSUME TypeOK, NEW w \in Workers
  PROVE  \/ worker[w] \in {Idle, Stopped} /\ worker[w].step \notin Steps
         \/ /\ worker[w] \in [step : Steps, of : Media, attempts : Nat]
            /\ worker[w].step \in Steps
            /\ Job(w) \in Media /\ worker[w].attempts \in Nat
  BY DEF TypeOK, Idle, Stopped, Steps, Job

(* Going to another step of the same job.                                  *)
LEMMA GotoTyped ==
  ASSUME TypeOK, NEW w \in Workers, worker[w].step \in Steps,
         NEW step \in Steps, Goto(w, step)
  PROVE  worker' \in [Workers -> {Idle, Stopped} \cup [step : Steps, of : Media, attempts : Nat]]
<1>1. worker[w] \in [step : Steps, of : Media, attempts : Nat]
  BY WorkerTyped
<1>2. [worker[w] EXCEPT !.step = step] \in [step : Steps, of : Media, attempts : Nat]
  BY <1>1
<1> QED
  BY <1>2 DEF Goto, TypeOK

LEMMA EndJobTyped ==
  ASSUME TypeOK, NEW w \in Workers, EndJob(w)
  PROVE  worker' \in [Workers -> {Idle, Stopped} \cup [step : Steps, of : Media, attempts : Nat]]
  BY DEF EndJob, TypeOK

LEMMA TypeStep == TypeOK /\ [Next]_vars => TypeOK'
<1> SUFFICES ASSUME TypeOK, [Next]_vars PROVE TypeOK'
  OBVIOUS
<1> USE DEF history
<1>1. ASSUME NEW m \in Media, StoreOriginal(m) \/ InsertMedia(m) PROVE TypeOK'
  <2>1. CASE StoreOriginal(m)
    BY <2>1 DEF StoreOriginal, TypeOK
  <2>2. CASE InsertMedia(m)
    BY <2>2 DEF InsertMedia, TypeOK
  <2> QED
    BY <1>1, <2>1, <2>2
<1>2. ASSUME NEW m \in Media, Enqueue(m) PROVE TypeOK'
  BY <1>2 DEF Enqueue, NoJob, JobStates, TypeOK
<1>3. ASSUME NEW m \in Media, UploadFails(m) PROVE TypeOK'
  BY <1>3, MediaAssumption DEF UploadFails, Fault, TypeOK
<1>4. ASSUME NEW m \in Media, BackoffEnds(m) PROVE TypeOK'
  BY <1>4 DEF BackoffEnds, TypeOK
<1>5. ASSUME NEW m \in Media, LeaseEnds(m) PROVE TypeOK'
  BY <1>5 DEF LeaseEnds, TypeOK
<1>6. ASSUME NEW w \in Workers, NEW m \in Media, Claim(w, m) PROVE TypeOK'
  BY <1>6 DEF Claim, Reclaimed, JobStates, Steps, TypeOK
<1>7. ASSUME NEW w \in Workers,
             Load(w) \/ TransientFailure(w) \/ Process(w) \/ Put(w) \/ SetReady(w)
      PROVE  TypeOK'
  <2>1. worker[w].step \in Steps /\ Job(w) \in Media
    BY <1>7, WorkerTyped DEF Load, TransientFailure, Process, Put, SetReady, At, Steps
  <2>2. \E step \in Steps : Goto(w, step)
    BY <1>7 DEF Load, TransientFailure, Process, Put, SetReady, Steps
  <2>3. worker' \in [Workers -> {Idle, Stopped} \cup [step : Steps, of : Media, attempts : Nat]]
    BY <2>1, <2>2, GotoTyped
  <2>4. CASE Load(w)
    BY <2>3, <2>4 DEF Load, TypeOK
  <2>5. CASE TransientFailure(w)
    BY <2>1, <2>3, <2>5 DEF TransientFailure, TypeOK
  <2>6. CASE Process(w)
    BY <2>1, <2>3, <2>6 DEF Process, TypeOK
  <2>7. CASE Put(w)
    BY <2>1, <2>3, <2>7 DEF Put, TypeOK
  <2>8. CASE SetReady(w)
    BY <2>1, <2>3, <2>8 DEF SetReady, TypeOK
  <2> QED
    BY <1>7, <2>4, <2>5, <2>6, <2>7, <2>8
<1>8. ASSUME NEW w \in Workers, Complete(w) \/ SetFailed(w) PROVE TypeOK'
  <2>1. Job(w) \in Media
    BY <1>8, WorkerTyped DEF Complete, SetFailed, At, Steps
  <2>2. worker' \in [Workers -> {Idle, Stopped} \cup [step : Steps, of : Media, attempts : Nat]]
    BY <1>8, EndJobTyped DEF Complete, SetFailed
  <2>3. CASE Complete(w)
    BY <2>1, <2>2, <2>3 DEF Complete, NoJob, JobStates, TypeOK
  <2>4. CASE SetFailed(w)
    BY <2>1, <2>2, <2>4 DEF SetFailed, TypeOK
  <2> QED
    BY <1>8, <2>3, <2>4
<1>9. ASSUME NEW w \in Workers, FailOrRetry(w) PROVE TypeOK'
  <2>1. worker[w].step \in Steps /\ Job(w) \in Media /\ worker[w].attempts \in Nat
    BY <1>9, WorkerTyped DEF FailOrRetry, At, Steps
  <2>2. (\E step \in Steps : Goto(w, step)) \/ EndJob(w)
    BY <1>9 DEF FailOrRetry, Steps
  <2>3. \E s \in {"queued", "failed"} :
          Write(Job(w), [state |-> s, attempts |-> worker[w].attempts + 1,
                         due |-> FALSE, stale |-> FALSE])
    BY <1>9 DEF FailOrRetry
  <2>4. job' \in [Media -> [state : JobStates, attempts : Nat, due : BOOLEAN, stale : BOOLEAN]]
    BY <2>1, <2>3 DEF Write, JobStates, TypeOK
  <2> QED
    BY <1>9, <2>1, <2>2, <2>4, GotoTyped, EndJobTyped DEF FailOrRetry, TypeOK
<1>10. ASSUME NEW w \in Workers, Start(w) PROVE TypeOK'
  BY <1>10, EndJobTyped DEF Start, TypeOK
<1>11. ASSUME NEW w \in Workers, Die(w) \/ Shutdown(w) PROVE TypeOK'
  <2>1. Lost(w) \subseteq Media
    BY WorkerTyped DEF Lost, At, Steps
  <2>2. faults' \in 0..MaxFaults
    BY <1>11, MediaAssumption DEF Die, Shutdown, Fault, TypeOK
  <2> QED
    BY <1>11, <2>1, <2>2, EndJobTyped DEF Die, Shutdown, TypeOK
<1>12. CASE UNCHANGED vars
  BY <1>12 DEF vars, TypeOK
<1> QED
  BY <1>1, <1>2, <1>3, <1>4, <1>5, <1>6, <1>7, <1>8, <1>9, <1>10, <1>11, <1>12
  DEF Next, Work, AcceptUpload

-----------------------------------------------------------------------------
(* The lease                                                               *)

(* A step of w's own: the other workers keep their jobs; w keeps its job,  *)
(* unless it is free afterwards.                                           *)
LEMMA GotoFrame ==
  ASSUME TypeOK, NEW w \in Workers, worker[w].step \in Steps,
         NEW step \in Steps, Goto(w, step)
  PROVE  /\ worker'[w].step = step /\ worker'[w].of = worker[w].of
         /\ worker'[w].attempts = worker[w].attempts
         /\ \A v \in Workers \ {w} : worker'[v] = worker[v]
         /\ \A v \in Workers, m \in Media : Holds(v, m)' <=> Holds(v, m)
<1>1. worker[w] \in [step : Steps, of : Media, attempts : Nat]
  BY WorkerTyped
<1>2. worker' = [worker EXCEPT ![w] = [worker[w] EXCEPT !.step = step]]
  BY DEF Goto
<1>3. /\ worker'[w] = [worker[w] EXCEPT !.step = step]
      /\ \A v \in Workers \ {w} : worker'[v] = worker[v]
  BY <1>2 DEF TypeOK
<1>4. /\ worker'[w].step = step /\ worker'[w].of = worker[w].of
      /\ worker'[w].attempts = worker[w].attempts
  BY <1>1, <1>3
<1> QED
  BY <1>3, <1>4 DEF Holds

LEMMA EndJobFrame ==
  ASSUME TypeOK, NEW w \in Workers, EndJob(w) \/ worker' = [worker EXCEPT ![w] = Stopped]
  PROVE  /\ worker'[w] \in {Idle, Stopped}
         /\ \A m \in Media : ~Holds(w, m)'
         /\ \A v \in Workers \ {w} :
              worker'[v] = worker[v] /\ \A m \in Media : Holds(v, m)' <=> Holds(v, m)
<1>1. /\ worker'[w] \in {Idle, Stopped}
      /\ \A v \in Workers \ {w} : worker'[v] = worker[v]
  BY DEF EndJob, TypeOK
<1>2. \A m \in Media : ~Holds(w, m)'
  BY <1>1 DEF Holds, Idle, Stopped, Steps
<1> QED
  BY <1>1, <1>2 DEF Holds

LEMMA LeaseInit == Init => Lease
<1> SUFFICES ASSUME Init PROVE Lease
  OBVIOUS
<1>1. \A w \in Workers : \A m \in Media : ~Holds(w, m)
  BY DEF Init, Holds, Idle, Steps
<1>2. UploadsInOrder
  BY <1>1 DEF Init, UploadsInOrder, NoJob
<1> QED
  BY <1>1, <1>2, TypeInit DEF Lease, LeaseStands, OneWorkerPerJob

LEMMA LeaseStep == Lease /\ [Next]_vars => Lease'
<1> SUFFICES ASSUME Lease, [Next]_vars
             PROVE  UploadsInOrder' /\ LeaseStands' /\ OneWorkerPerJob'
  BY TypeStep DEF Lease
<1> USE DEF Lease, history
<1>1. ASSUME NEW m \in Media, StoreOriginal(m)
      PROVE  UploadsInOrder' /\ LeaseStands' /\ OneWorkerPerJob'
  BY <1>1 DEF StoreOriginal, UploadsInOrder, LeaseStands, OneWorkerPerJob, Holds, At, TypeOK
<1>2. ASSUME NEW m \in Media, InsertMedia(m)
      PROVE  UploadsInOrder' /\ LeaseStands' /\ OneWorkerPerJob'
  BY <1>2 DEF InsertMedia, UploadsInOrder, LeaseStands, OneWorkerPerJob, Holds, At, TypeOK
<1>3. ASSUME NEW m \in Media, Enqueue(m)
      PROVE  UploadsInOrder' /\ LeaseStands' /\ OneWorkerPerJob'
  BY <1>3 DEF Enqueue, NoJob, UploadsInOrder, LeaseStands, OneWorkerPerJob, Holds, At, TypeOK
<1>4. ASSUME NEW m \in Media, UploadFails(m)
      PROVE  UploadsInOrder' /\ LeaseStands' /\ OneWorkerPerJob'
  BY <1>4 DEF UploadFails, UploadsInOrder, LeaseStands, OneWorkerPerJob, Holds, At, TypeOK
<1>5. ASSUME NEW m \in Media, BackoffEnds(m)
      PROVE  UploadsInOrder' /\ LeaseStands' /\ OneWorkerPerJob'
  BY <1>5 DEF BackoffEnds, UploadsInOrder, LeaseStands, OneWorkerPerJob, Holds, At, TypeOK
<1>6. ASSUME NEW m \in Media, LeaseEnds(m)
      PROVE  UploadsInOrder' /\ LeaseStands' /\ OneWorkerPerJob'
  BY <1>6 DEF LeaseEnds, UploadsInOrder, LeaseStands, OneWorkerPerJob, Holds, At, TypeOK
<1>7. ASSUME NEW w \in Workers, NEW m \in Media, Claim(w, m)
      PROVE  UploadsInOrder' /\ LeaseStands' /\ OneWorkerPerJob'
  <2>1. \A v \in Workers : Holds(v, m) => m \in overtaken
    BY <1>7 DEF Claim, Claimable, LeaseStands
  <2>2. /\ job'[m].state = "processing" /\ ~job'[m].stale
        /\ \A n \in Media \ {m} : job'[n] = job[n]
    BY <1>7 DEF Claim, TypeOK
  <2>3. \A v \in Workers, n \in Media :
          IF v = w THEN Holds(v, n)' <=> n = m ELSE Holds(v, n)' <=> Holds(v, n)
    BY <1>7 DEF Claim, TypeOK, Holds, Steps
  <2>4. \A v \in Workers : v # w => worker'[v] = worker[v]
    BY <1>7 DEF Claim, TypeOK
  <2>5. upload[m] = "accepted" /\ UNCHANGED <<upload, media, overtaken>>
    BY <1>7 DEF Claim, Claimable, UploadsInOrder, TypeOK
  <2> QED
    BY <2>1, <2>2, <2>3, <2>4, <2>5 DEF UploadsInOrder, LeaseStands, OneWorkerPerJob, At
<1>8. ASSUME NEW w \in Workers,
             Load(w) \/ TransientFailure(w) \/ Process(w) \/ Put(w) \/ SetReady(w)
      PROVE  UploadsInOrder' /\ LeaseStands' /\ OneWorkerPerJob'
  <2>1. worker[w].step \in Steps \ {"setfailed"}
    BY <1>8 DEF Load, TransientFailure, Process, Put, SetReady, At, Steps
  <2>2. PICK step \in Steps : Goto(w, step)
    BY <1>8 DEF Load, TransientFailure, Process, Put, SetReady, Steps
  <2>3. /\ UNCHANGED <<upload, job, overtaken>>
        /\ media' \in {media, [media EXCEPT ![Job(w)] = "ready"]}
    BY <1>8 DEF Load, TransientFailure, Process, Put, SetReady
  <2>4. \A v \in Workers, m \in Media :
          /\ Holds(v, m)' <=> Holds(v, m)
          /\ Holds(v, m) /\ At(v, "setfailed") => At(v, "setfailed")'
    BY <2>1, <2>2, GotoFrame DEF At
  <2>5. Holds(w, Job(w)) /\ Job(w) \in Media
    BY <2>1, WorkerTyped DEF Holds, Job
  <2> QED
    BY <2>3, <2>4, <2>5 DEF UploadsInOrder, LeaseStands, OneWorkerPerJob, TypeOK
<1>9. ASSUME NEW w \in Workers, FailOrRetry(w)
      PROVE  UploadsInOrder' /\ LeaseStands' /\ OneWorkerPerJob'
  <2>1. /\ worker[w].step \in Steps \ {"setfailed"}
        /\ Job(w) \in Media /\ Holds(w, Job(w))
    BY <1>9, WorkerTyped DEF FailOrRetry, At, Steps, Holds, Job
  <2> DEFINE row(s) == [state |-> s, attempts |-> worker[w].attempts + 1,
                        due |-> FALSE, stale |-> FALSE]
  <2>2. PICK s \in {"queued", "failed"} :
          /\ Write(Job(w), row(s))
          /\ IF s = "failed" THEN Goto(w, "setfailed") ELSE EndJob(w)
    BY <1>9 DEF FailOrRetry
  <2>3. /\ \A m \in Media \ {Job(w)} : job'[m] = job[m]
        /\ job'[Job(w)].state \in {job[Job(w)].state, s}
        /\ job[Job(w)].state # "absent" => job'[Job(w)].state = s
        /\ job[Job(w)].state = "absent" => job'[Job(w)].state = "absent"
    BY <2>1, <2>2 DEF Write, TypeOK
  <2>4. UNCHANGED <<upload, media, overtaken>>
    BY <1>9 DEF FailOrRetry
  <2>5. CASE s = "failed" /\ Goto(w, "setfailed")
    <3>1. \A v \in Workers, m \in Media :
            /\ Holds(v, m)' <=> Holds(v, m)
            /\ Holds(v, m) /\ At(v, "setfailed") => At(v, "setfailed")'
      BY <2>1, <2>5, GotoFrame DEF At, Steps
    <3>2. At(w, "setfailed")'
      BY <2>1, <2>5, GotoFrame DEF At, Steps
    <3>3. \A m \in Media : Holds(w, m) => m = Job(w)
      BY DEF Holds, Job
    <3> QED
      BY <2>1, <2>3, <2>4, <2>5, <3>1, <3>2, <3>3 DEF UploadsInOrder, LeaseStands, OneWorkerPerJob
  <2>6. CASE EndJob(w)
    <3>1. \A v \in Workers, m \in Media :
            /\ Holds(v, m)' => v # w /\ Holds(v, m)
            /\ v # w /\ At(v, "setfailed") => At(v, "setfailed")'
      BY <2>6, EndJobFrame DEF At
    <3> QED
      BY <2>1, <2>2, <2>3, <2>4, <3>1 DEF UploadsInOrder, LeaseStands, OneWorkerPerJob
  <2> QED
    BY <2>2, <2>5, <2>6
<1>10. ASSUME NEW w \in Workers, Complete(w)
      PROVE  UploadsInOrder' /\ LeaseStands' /\ OneWorkerPerJob'
  <2>1. Job(w) \in Media /\ Holds(w, Job(w)) /\ EndJob(w)
    BY <1>10, WorkerTyped DEF Complete, At, Steps, Holds, Job
  <2>2. \A v \in Workers, m \in Media :
          /\ Holds(v, m)' => v # w /\ Holds(v, m)
          /\ v # w /\ At(v, "setfailed") => At(v, "setfailed")'
    BY <2>1, EndJobFrame DEF At
  <2>3. /\ \A m \in Media \ {Job(w)} : job'[m] = job[m]
        /\ job'[Job(w)].state = "absent"
        /\ UNCHANGED <<upload, media, overtaken>>
    BY <1>10, <2>1 DEF Complete, NoJob, TypeOK
  <2> QED
    BY <2>1, <2>2, <2>3 DEF UploadsInOrder, LeaseStands, OneWorkerPerJob
<1>11. ASSUME NEW w \in Workers, SetFailed(w) \/ Start(w) \/ Die(w) \/ Shutdown(w)
      PROVE  UploadsInOrder' /\ LeaseStands' /\ OneWorkerPerJob'
  <2>1. EndJob(w) \/ worker' = [worker EXCEPT ![w] = Stopped]
    BY <1>11 DEF SetFailed, Start, Die, Shutdown
  <2>2. \A v \in Workers, m \in Media :
          /\ Holds(v, m)' => v # w /\ Holds(v, m)
          /\ v # w /\ At(v, "setfailed") => At(v, "setfailed")'
    BY <2>1, EndJobFrame DEF At
  <2>3. /\ UNCHANGED <<upload, job, overtaken>>
        /\ UNCHANGED media \/ (Holds(w, Job(w)) /\ media' = [media EXCEPT ![Job(w)] = "failed"])
    BY <1>11 DEF SetFailed, Start, Die, Shutdown, At, Holds, Job, Steps
  <2> QED
    BY <2>2, <2>3 DEF UploadsInOrder, LeaseStands, OneWorkerPerJob, TypeOK
<1>12. CASE UNCHANGED vars
  BY <1>12 DEF vars, UploadsInOrder, LeaseStands, OneWorkerPerJob, Holds, At
<1> QED
  BY <1>1, <1>2, <1>3, <1>4, <1>5, <1>6, <1>7, <1>8, <1>9, <1>10, <1>11, <1>12
  DEF Next, Work, AcceptUpload

(* A second worker on a job means that a lease ran out.                    *)
THEOREM OneWorkerUnlessOvertaken == Spec => []OneWorkerPerJob
<1>1. Lease => OneWorkerPerJob
  BY DEF Lease
<1> QED
  BY LeaseInit, LeaseStep, <1>1, PTL DEF Spec

-----------------------------------------------------------------------------
(* Settled media                                                           *)

(* The steps of worker w on its job m.                                     *)
LEMMA AtHolds ==
  ASSUME TypeOK, NEW w \in Workers, NEW step \in Steps, At(w, step)
  PROVE  Job(w) \in Media /\ Holds(w, Job(w)) /\ \A m \in Media : Holds(w, m) => m = Job(w)
  BY WorkerTyped DEF At, Holds, Job

LEMMA FoundedStep == Lease /\ Founded /\ [Next]_vars => Founded'
<1> SUFFICES ASSUME Lease, Founded, [Next]_vars PROVE Founded'
  OBVIOUS
<1> USE DEF history
<1>a. TypeOK /\ UploadsInOrder /\ LeaseStands /\ OneWorkerPerJob
  BY DEF Lease
<1>1. ASSUME NEW m \in Media, StoreOriginal(m) \/ InsertMedia(m) PROVE Founded'
  <2>1. \A w \in Workers : ~Holds(w, m)
    BY <1>1, <1>a DEF StoreOriginal, InsertMedia, UploadsInOrder
  <2>2. /\ \A n \in Media \ {m} : media'[n] = media[n]
        /\ media'[m] # "ready" \/ media'[m] = media[m]
        /\ \A n \in Media \ {m} : n \in broken => n \in broken'
        /\ UNCHANGED <<thumb, worker, overtaken, unread>>
    BY <1>1, <1>a DEF StoreOriginal, InsertMedia, TypeOK
  <2> QED
    BY <2>1, <2>2 DEF Founded, StepsAreFounded, ReadyIsViewable, Holds, At
<1>2. ASSUME NEW m \in Media, LeaseEnds(m) PROVE Founded'
  BY <1>2 DEF LeaseEnds, Founded, StepsAreFounded, ReadyIsViewable, Holds, At
<1>3. ASSUME NEW w \in Workers, NEW m \in Media, Claim(w, m) PROVE Founded'
  <2>1. \A v \in Workers : v # w => worker'[v] = worker[v]
    BY <1>3, <1>a DEF Claim, TypeOK
  <2>2. worker'[w].step = "load"
    BY <1>3, <1>a DEF Claim, TypeOK
  <2>3. UNCHANGED <<broken, media, thumb, overtaken, unread>>
    BY <1>3 DEF Claim
  <2> QED
    BY <2>1, <2>2, <2>3 DEF Founded, StepsAreFounded, ReadyIsViewable, Holds, At
<1>4. ASSUME NEW w \in Workers, Load(w) PROVE Founded'
  <2>1. PICK step \in {"process", "complete"} :
          Goto(w, step) /\ (step = "process" <=> media[Job(w)] = "processing")
    BY <1>4 DEF Load
  <2>2. worker[w].step = "load" /\ UNCHANGED <<broken, media, thumb, overtaken, unread>>
    BY <1>4 DEF Load, At
  <2>3. /\ worker'[w].step = step
        /\ \A v \in Workers \ {w} : worker'[v] = worker[v]
        /\ \A v \in Workers, m \in Media : Holds(v, m)' <=> Holds(v, m)
    BY <2>1, <2>2, <1>a, GotoFrame DEF Steps
  <2>4. \A m \in Media : Holds(w, m) => m = Job(w)
    BY DEF Holds, Job
  <2> QED
    BY <2>1, <2>2, <2>3, <2>4 DEF Founded, StepsAreFounded, ReadyIsViewable, At
<1>5. ASSUME NEW w \in Workers, TransientFailure(w) PROVE Founded'
  <2>1. worker[w].step \in {"load", "process", "put"} /\ Goto(w, "retry")
    BY <1>5 DEF TransientFailure, At
  <2>2. /\ worker'[w].step = "retry"
        /\ \A v \in Workers \ {w} : worker'[v] = worker[v]
        /\ \A v \in Workers, m \in Media : Holds(v, m)' <=> Holds(v, m)
    BY <2>1, <1>a, GotoFrame DEF Steps
  <2>3. /\ UNCHANGED <<broken, media, thumb, overtaken>>
        /\ unread \subseteq unread'
        /\ At(w, "load") /\ media[Job(w)] # "processing" => Job(w) \in unread'
    BY <1>5 DEF TransientFailure
  <2>4. \A m \in Media : Holds(w, m) => m = Job(w)
    BY DEF Holds, Job
  <2> QED
    BY <2>1, <2>2, <2>3, <2>4 DEF Founded, StepsAreFounded, ReadyIsViewable, At
<1>6. ASSUME NEW w \in Workers, Process(w) \/ Put(w) PROVE Founded'
  <2>1. /\ worker[w].step \in {"process", "put"}
        /\ Job(w) \in Media /\ Holds(w, Job(w)) /\ \A m \in Media : Holds(w, m) => m = Job(w)
    BY <1>6, <1>a, AtHolds DEF Process, Put, At, Steps
  <2>2. PICK step \in {"fail", "put", "ready"} :
          /\ Goto(w, step)
          /\ step = "fail" => Job(w) \in broken
          /\ step = "ready" => thumb' = [thumb EXCEPT ![Job(w)] = "whole"]
    BY <1>6 DEF Process, Put
  <2>3. /\ worker'[w].step = step
        /\ \A v \in Workers \ {w} : worker'[v] = worker[v]
        /\ \A v \in Workers, m \in Media : Holds(v, m)' <=> Holds(v, m)
    BY <2>1, <2>2, <1>a, GotoFrame DEF Steps
  <2>4. /\ UNCHANGED <<broken, media, overtaken, unread>>
        /\ \A m \in Media \ {Job(w)} : thumb'[m] = thumb[m]
        /\ step = "ready" => thumb'[Job(w)] = "whole"
    BY <1>6, <1>a, <2>1, <2>2 DEF Process, Put, TypeOK
  <2>5. Job(w) \notin overtaken => media[Job(w)] = "processing"
    BY <2>1 DEF Founded, StepsAreFounded
  <2>6. \A v \in Workers \ {w} : Holds(v, Job(w)) => Job(w) \in overtaken
    BY <2>1, <1>a DEF OneWorkerPerJob
  <2> QED
    BY <2>1, <2>2, <2>3, <2>4, <2>5, <2>6 DEF Founded, StepsAreFounded, ReadyIsViewable, At
<1>7. ASSUME NEW w \in Workers, SetReady(w) PROVE Founded'
  <2>1. /\ worker[w].step = "ready" /\ At(w, "ready")
        /\ Job(w) \in Media /\ Holds(w, Job(w)) /\ \A m \in Media : Holds(w, m) => m = Job(w)
    BY <1>7, <1>a, AtHolds DEF SetReady, At, Steps
  <2>2. /\ worker'[w].step = "complete"
        /\ \A v \in Workers \ {w} : worker'[v] = worker[v]
        /\ \A v \in Workers, m \in Media : Holds(v, m)' <=> Holds(v, m)
    BY <1>7, <2>1, <1>a, GotoFrame DEF SetReady, Steps
  <2>3. /\ UNCHANGED <<broken, thumb, overtaken, unread>>
        /\ \A m \in Media \ {Job(w)} : media'[m] = media[m]
        /\ media'[Job(w)] = "ready"
    BY <1>7, <1>a, <2>1 DEF SetReady, TypeOK
  <2>4. \A v \in Workers \ {w} : Holds(v, Job(w)) => Job(w) \in overtaken
    BY <2>1, <1>a DEF OneWorkerPerJob
  <2> QED
    BY <2>1, <2>2, <2>3, <2>4 DEF Founded, StepsAreFounded, ReadyIsViewable, At
<1>8. ASSUME NEW w \in Workers, FailOrRetry(w) PROVE Founded'
  <2>1. /\ worker[w].step \in {"fail", "retry"}
        /\ Goto(w, "setfailed") \/ EndJob(w)
        /\ UNCHANGED <<broken, media, thumb, overtaken, unread>>
    BY <1>8 DEF FailOrRetry, At
  <2>2. CASE Goto(w, "setfailed")
    <3>1. /\ worker'[w].step = "setfailed"
          /\ \A v \in Workers \ {w} : worker'[v] = worker[v]
          /\ \A v \in Workers, m \in Media : Holds(v, m)' <=> Holds(v, m)
      BY <2>1, <2>2, <1>a, GotoFrame DEF Steps
    <3> QED
      BY <2>1, <3>1 DEF Founded, StepsAreFounded, ReadyIsViewable, At
  <2>3. CASE EndJob(w)
    BY <2>1, <2>3, <1>a, EndJobFrame DEF Founded, StepsAreFounded, ReadyIsViewable, At
  <2> QED
    BY <2>1, <2>2, <2>3
<1>9. ASSUME NEW w \in Workers, SetFailed(w) PROVE Founded'
  <2>1. /\ Job(w) \in Media /\ Holds(w, Job(w)) /\ EndJob(w)
    BY <1>9, <1>a, AtHolds DEF SetFailed, Steps
  <2>2. /\ UNCHANGED <<broken, thumb, overtaken, unread>>
        /\ \A m \in Media \ {Job(w)} : media'[m] = media[m]
        /\ media'[Job(w)] = "failed"
    BY <1>9, <1>a, <2>1 DEF SetFailed, TypeOK
  <2>3. \A v \in Workers \ {w} : Holds(v, Job(w)) => Job(w) \in overtaken
    BY <2>1, <1>a DEF OneWorkerPerJob
  <2> QED
    BY <2>1, <2>2, <2>3, <1>a, EndJobFrame DEF Founded, StepsAreFounded, ReadyIsViewable, At
<1>10. ASSUME NEW w \in Workers, Complete(w) \/ Start(w) \/ Die(w) \/ Shutdown(w) PROVE Founded'
  <2>1. /\ EndJob(w) \/ worker' = [worker EXCEPT ![w] = Stopped]
        /\ UNCHANGED <<broken, media, thumb, overtaken, unread>>
    BY <1>10 DEF Complete, Start, Die, Shutdown
  <2> QED
    BY <2>1, <1>a, EndJobFrame DEF Founded, StepsAreFounded, ReadyIsViewable, At
<1>11. CASE UNCHANGED <<broken, media, thumb, worker, overtaken, unread>>
  BY <1>11 DEF Founded, StepsAreFounded, ReadyIsViewable, Holds, At
<1> QED
  BY <1>1, <1>2, <1>3, <1>4, <1>5, <1>6, <1>7, <1>8, <1>9, <1>10, <1>11
  DEF Next, Work, AcceptUpload, Enqueue, UploadFails, BackoffEnds, vars

LEMMA FoundedInit == Init => Founded
<1> SUFFICES ASSUME Init PROVE Founded
  OBVIOUS
<1>1. \A w \in Workers : \A m \in Media : ~Holds(w, m)
  BY DEF Init, Holds, Idle, Steps
<1> QED
  BY <1>1 DEF Init, Founded, StepsAreFounded, ReadyIsViewable

(* A ready media that nobody overtook has its whole thumbnail.             *)
THEOREM ReadyMeansViewable == Spec => []ReadyIsViewable
<1>1. Lease /\ Founded => ReadyIsViewable
  BY DEF Founded
<1> QED
  BY LeaseInit, LeaseStep, FoundedInit, FoundedStep, <1>1, PTL DEF Spec

(* Every variable keeps its type.                                          *)
THEOREM TypeCorrect == Spec => []TypeOK
  BY TypeInit, TypeStep, PTL DEF Spec

(* A step that settles a media finds it unsettled.                         *)
LEMMA SettledStep ==
  Lease /\ Founded /\ [Next]_vars =>
    \A m \in Media :
      media[m] \in {"ready", "failed"} /\ m \notin overtaken \cup unread
      => media'[m] = media[m]
<1> SUFFICES ASSUME Lease, Founded, [Next]_vars, NEW m \in Media,
                    media[m] \in {"ready", "failed"}, m \notin overtaken \cup unread
             PROVE  media'[m] = media[m]
  OBVIOUS
<1> USE DEF history
<1>a. TypeOK /\ UploadsInOrder
  BY DEF Lease
<1>1. ASSUME NEW n \in Media, InsertMedia(n) PROVE media'[m] = media[m]
  BY <1>1, <1>a DEF InsertMedia, UploadsInOrder, TypeOK
<1>2. ASSUME NEW w \in Workers, SetReady(w) \/ SetFailed(w) PROVE media'[m] = media[m]
  <2>1. worker[w].step \in {"ready", "setfailed"} /\ Holds(w, Job(w)) /\ Job(w) \in Media
    BY <1>2, <1>a, AtHolds DEF SetReady, SetFailed, At, Steps
  <2>2. m # Job(w)
    BY <2>1 DEF Founded, StepsAreFounded
  <2> QED
    BY <1>2, <1>a, <2>1, <2>2 DEF SetReady, SetFailed, TypeOK
<1>3. CASE UNCHANGED media
  BY <1>3
<1> QED
  BY <1>1, <1>2, <1>3
  DEF Next, Work, AcceptUpload, StoreOriginal, Enqueue, UploadFails, BackoffEnds, LeaseEnds,
      Claim, Load, Process, Put, Complete, FailOrRetry, Start, TransientFailure, Die, Shutdown,
      vars

(* Ready and failed are final, but for an outlived lease or an unread row. *)
THEOREM SettledMediaStay == Spec => SettledStays
<1>1. Lease /\ Founded /\ [Next]_vars =>
        [\A m \in Media :
           media[m] \in {"ready", "failed"} /\ m \notin overtaken \cup unread
           => media'[m] = media[m]]_vars
  BY SettledStep
<1> QED
  BY LeaseInit, LeaseStep, FoundedInit, FoundedStep, <1>1, PTL DEF Spec, SettledStays

-----------------------------------------------------------------------------
(* The attempts counter                                                    *)

LEMMA CountedInit == Init => Counted
<1> SUFFICES ASSUME Init PROVE Counted
  OBVIOUS
<1>1. \A w \in Workers : \A m \in Media : ~Holds(w, m)
  BY DEF Init, Holds, Idle, Steps
<1> QED
  BY <1>1 DEF Init, Counted, AttemptsAreClaims, FailedOnlyAfterTries, NoJob

(* Time changes no row's state and no row's attempts.                      *)
LEMMA TimeFrame ==
  ASSUME TypeOK, NEW m \in Media, BackoffEnds(m) \/ LeaseEnds(m)
  PROVE  \A n \in Media : job'[n].state = job[n].state /\ job'[n].attempts = job[n].attempts
<1>1. CASE BackoffEnds(m)
  <2>1. job' = [job EXCEPT ![m] = [job[m] EXCEPT !.due = TRUE]]
    BY <1>1 DEF BackoffEnds
  <2> QED
    BY <2>1 DEF TypeOK
<1>2. CASE LeaseEnds(m)
  <2>1. job' = [job EXCEPT ![m] = [job[m] EXCEPT !.stale = TRUE]]
    BY <1>2 DEF LeaseEnds
  <2> QED
    BY <2>1 DEF TypeOK
<1> QED
  BY <1>1, <1>2

LEMMA CountedStep == Lease /\ Founded /\ Counted /\ [Next]_vars => Counted'
<1> SUFFICES ASSUME Lease, Founded, Counted, [Next]_vars PROVE Counted'
  OBVIOUS
<1> USE MediaAssumption DEF history
<1>a. TypeOK
  BY DEF Lease
<1>b. \A m \in Media : tries[m] \in Nat /\ job[m].attempts \in Nat
  BY <1>a DEF TypeOK
<1>1. ASSUME NEW m \in Media, StoreOriginal(m) \/ InsertMedia(m) PROVE Counted'
  <2>1. /\ broken \subseteq broken'
        /\ \A n \in Media : media'[n] = "failed" => media[n] = "failed"
        /\ UNCHANGED <<job, worker, tries>>
    BY <1>1, <1>a DEF StoreOriginal, InsertMedia, TypeOK
  <2> QED
    BY <2>1 DEF Counted, AttemptsAreClaims, FailedOnlyAfterTries, Holds, At
<1>2. ASSUME NEW m \in Media, Enqueue(m) PROVE Counted'
  <2>1. /\ job'[m].state = "queued" /\ job'[m].attempts = 0
        /\ \A n \in Media \ {m} : job'[n] = job[n]
        /\ UNCHANGED <<broken, media, worker, tries>>
    BY <1>2, <1>a DEF Enqueue, NoJob, TypeOK
  <2> QED
    BY <2>1, <1>b DEF Counted, AttemptsAreClaims, FailedOnlyAfterTries, Holds, At
<1>3. ASSUME NEW m \in Media, BackoffEnds(m) \/ LeaseEnds(m) PROVE Counted'
  <2>1. UNCHANGED <<broken, media, worker, tries>>
    BY <1>3 DEF BackoffEnds, LeaseEnds
  <2>2. \A n \in Media : job'[n].state = job[n].state /\ job'[n].attempts = job[n].attempts
    BY <1>3, <1>a, TimeFrame
  <2> QED
    BY <2>1, <2>2 DEF Counted, AttemptsAreClaims, FailedOnlyAfterTries, Holds, At
<1>4. ASSUME NEW w \in Workers, NEW m \in Media, Claim(w, m) PROVE Counted'
  <2>1. job[m].attempts + Reclaimed(m) <= tries[m] /\ Reclaimed(m) \in {0, 1}
    BY <1>4, <1>b DEF Claim, Claimable, Reclaimed, Counted, AttemptsAreClaims
  <2>2. /\ tries'[m] = tries[m] + 1
        /\ \A n \in Media \ {m} : job'[n] = job[n] /\ tries'[n] = tries[n]
        /\ UNCHANGED <<broken, media>>
    BY <1>4, <1>a DEF Claim, TypeOK
  <2>3. job'[m].state = "processing" /\ job'[m].attempts = job[m].attempts + Reclaimed(m)
    BY <1>4, <1>a DEF Claim, TypeOK
  <2>4. /\ worker'[w].step = "load" /\ worker'[w].of = m
        /\ worker'[w].attempts = job[m].attempts + Reclaimed(m)
        /\ \A v \in Workers \ {w} : worker'[v] = worker[v]
    BY <1>4, <1>a DEF Claim, TypeOK
  <2>5. \A v \in Workers, n \in Media :
          Holds(v, n)' => IF v = w THEN n = m ELSE Holds(v, n)
    BY <2>4 DEF Holds
  <2>6. \A n \in Media : tries[n] <= tries'[n] /\ tries'[n] \in Nat
    BY <2>2, <1>b
  <2>7. \A v \in Workers \ {w}, n \in Media : Holds(v, n) => worker[v].attempts \in Nat
    BY <1>a, WorkerTyped DEF Holds
  <2>8. FailedOnlyAfterTries'
    BY <2>2, <2>6, <1>b DEF Counted, FailedOnlyAfterTries
  <2>9. ASSUME NEW n \in Media PROVE
          /\ job'[n].state = "queued" => job'[n].attempts <= tries'[n]
          /\ job'[n].state = "processing" => job'[n].attempts + 1 <= tries'[n]
    BY <2>1, <2>2, <2>3, <1>b DEF Counted, AttemptsAreClaims
  <2>10. ASSUME NEW n \in Media, NEW v \in Workers, Holds(v, n)' PROVE
          /\ worker'[v].attempts + 1 <= tries'[n]
          /\ At(v, "setfailed")' => n \in broken' \/ tries'[n] >= MaxAttempts
    <3>1. CASE v = w
      BY <2>1, <2>2, <2>4, <2>5, <2>10, <3>1, <1>b DEF At
    <3>2. CASE v # w
      BY <2>2, <2>4, <2>5, <2>6, <2>7, <2>10, <3>2, <1>b DEF At, Counted, AttemptsAreClaims
    <3> QED
      BY <3>1, <3>2
  <2> QED
    BY <2>8, <2>9, <2>10 DEF Counted, AttemptsAreClaims
<1>5. ASSUME NEW w \in Workers,
             Load(w) \/ TransientFailure(w) \/ Process(w) \/ Put(w) \/ SetReady(w)
      PROVE  Counted'
  <2>1. worker[w].step \in Steps
    BY <1>5 DEF Load, TransientFailure, Process, Put, SetReady, At, Steps
  <2>2. PICK step \in Steps \ {"setfailed"} : Goto(w, step)
    BY <1>5 DEF Load, TransientFailure, Process, Put, SetReady, Steps
  <2>3. /\ UNCHANGED <<broken, job, tries>>
        /\ \A m \in Media : media'[m] = "failed" => media[m] = "failed"
    BY <1>5, <1>a DEF Load, TransientFailure, Process, Put, SetReady, TypeOK
  <2>4. \A v \in Workers, m \in Media :
          /\ Holds(v, m)' <=> Holds(v, m)
          /\ worker'[v].attempts = worker[v].attempts
          /\ At(v, "setfailed")' => At(v, "setfailed")
    BY <2>1, <2>2, <1>a, GotoFrame DEF At
  <2> QED
    BY <2>3, <2>4 DEF Counted, AttemptsAreClaims, FailedOnlyAfterTries
<1>6. ASSUME NEW w \in Workers, FailOrRetry(w) PROVE Counted'
  <2>1. /\ worker[w].step \in Steps
        /\ Job(w) \in Media /\ Holds(w, Job(w)) /\ \A m \in Media : Holds(w, m) => m = Job(w)
        /\ worker[w].attempts \in Nat
    BY <1>6, <1>a, AtHolds, WorkerTyped DEF FailOrRetry, At, Steps
  <2>2. worker[w].attempts + 1 <= tries[Job(w)]
    BY <2>1 DEF Counted, AttemptsAreClaims
  <2>3. UNCHANGED <<broken, media, tries>>
    BY <1>6 DEF FailOrRetry
  <2> DEFINE row(s) == [state |-> s, attempts |-> worker[w].attempts + 1,
                        due |-> FALSE, stale |-> FALSE]
  <2>4. PICK s \in {"queued", "failed"} :
          /\ Write(Job(w), row(s))
          /\ IF s = "failed"
               THEN /\ Goto(w, "setfailed")
                    /\ At(w, "fail") \/ worker[w].attempts + 1 >= MaxAttempts
               ELSE EndJob(w)
    BY <1>6 DEF FailOrRetry
  <2>5. /\ \A m \in Media \ {Job(w)} : job'[m] = job[m]
        /\ job'[Job(w)].state \in {"absent", "queued", "failed"}
        /\ job'[Job(w)].state = "queued" => job'[Job(w)].attempts = worker[w].attempts + 1
    BY <2>1, <2>4, <1>a DEF Write, TypeOK
  <2>6. \A m \in Media :
          /\ job'[m].state = "queued" => job'[m].attempts <= tries'[m]
          /\ job'[m].state = "processing" => job'[m].attempts + 1 <= tries'[m]
    BY <2>2, <2>3, <2>5 DEF Counted, AttemptsAreClaims
  <2>7. CASE s = "failed" /\ Goto(w, "setfailed")
    <3>1. /\ worker'[w].attempts = worker[w].attempts
          /\ \A v \in Workers \ {w} : worker'[v] = worker[v]
          /\ \A v \in Workers, m \in Media : Holds(v, m)' <=> Holds(v, m)
      BY <2>1, <2>7, <1>a, GotoFrame DEF Steps
    <3>2. Job(w) \in broken \/ tries[Job(w)] >= MaxAttempts
      BY <2>1, <2>2, <2>4, <2>7, <1>b DEF Founded, StepsAreFounded
    <3> QED
      BY <2>1, <2>2, <2>3, <2>6, <3>1, <3>2
      DEF Counted, AttemptsAreClaims, FailedOnlyAfterTries, At
  <2>8. CASE EndJob(w)
    BY <2>3, <2>6, <2>8, <1>a, EndJobFrame
    DEF Counted, AttemptsAreClaims, FailedOnlyAfterTries, At
  <2> QED
    BY <2>4, <2>7, <2>8
<1>7. ASSUME NEW w \in Workers, SetFailed(w) PROVE Counted'
  <2>1. /\ Job(w) \in Media /\ Holds(w, Job(w)) /\ EndJob(w) /\ At(w, "setfailed")
    BY <1>7, <1>a, AtHolds DEF SetFailed, Steps
  <2>2. /\ UNCHANGED <<broken, job, tries>>
        /\ \A m \in Media \ {Job(w)} : media'[m] = media[m]
    BY <1>7, <1>a, <2>1 DEF SetFailed, TypeOK
  <2>3. Job(w) \in broken \/ tries[Job(w)] >= MaxAttempts
    BY <2>1 DEF Counted, AttemptsAreClaims
  <2> QED
    BY <2>1, <2>2, <2>3, <1>a, EndJobFrame
    DEF Counted, AttemptsAreClaims, FailedOnlyAfterTries, At
<1>8. ASSUME NEW w \in Workers, Complete(w) \/ Start(w) \/ Die(w) \/ Shutdown(w) PROVE Counted'
  <2>1. /\ EndJob(w) \/ worker' = [worker EXCEPT ![w] = Stopped]
        /\ UNCHANGED <<broken, media, tries>>
    BY <1>8 DEF Complete, Start, Die, Shutdown
  <2>2. \A m \in Media : job'[m] \in {job[m], NoJob}
    BY <1>8, <1>a DEF Complete, Start, Die, Shutdown, TypeOK
  <2>3. \A m \in Media :
          /\ job'[m].state = "queued" => job'[m].attempts <= tries'[m]
          /\ job'[m].state = "processing" => job'[m].attempts + 1 <= tries'[m]
    BY <2>1, <2>2 DEF Counted, AttemptsAreClaims, NoJob
  <2> QED
    BY <2>1, <2>3, <1>a, EndJobFrame DEF Counted, AttemptsAreClaims, FailedOnlyAfterTries, At
<1>9. CASE UNCHANGED <<broken, media, job, worker, tries>>
  BY <1>9 DEF Counted, AttemptsAreClaims, FailedOnlyAfterTries, Holds, At
<1> QED
  BY <1>1, <1>2, <1>3, <1>4, <1>5, <1>6, <1>7, <1>8, <1>9
  DEF Next, Work, AcceptUpload, UploadFails, vars

(* A decodable media fails only after MaxAttempts claims of its job.       *)
THEOREM FailuresAreTried == Spec => []FailedOnlyAfterTries
<1>1. Lease /\ Founded /\ Counted => FailedOnlyAfterTries
  BY DEF Counted
<1> QED
  BY LeaseInit, LeaseStep, FoundedInit, FoundedStep, CountedInit, CountedStep, <1>1, PTL DEF Spec

-----------------------------------------------------------------------------
(* Nothing is forgotten                                                    *)

LEMMA RememberedStep == Lease /\ Founded /\ NothingForgotten /\ [Next]_vars => NothingForgotten'
<1> SUFFICES ASSUME Lease, Founded, NothingForgotten, [Next]_vars,
                    NEW m \in Media, media'[m] = "processing"
             PROVE  \/ job'[m].state \in {"queued", "processing"}
                    \/ upload'[m] = "inserted"
                    \/ \E w \in Workers : Holds(w, m)' /\ At(w, "setfailed")'
                    \/ m \in dropped'
  BY DEF NothingForgotten
<1> DEFINE Goal == \/ job'[m].state \in {"queued", "processing"}
                   \/ upload'[m] = "inserted"
                   \/ \E w \in Workers : Holds(w, m)' /\ At(w, "setfailed")'
                   \/ m \in dropped'
<1> USE DEF history
<1>a. TypeOK
  BY DEF Lease
<1>1. ASSUME NEW n \in Media, AcceptUpload(n) PROVE Goal
  <2>1. \A k \in Media \ {n} :
          media'[k] = media[k] /\ job'[k] = job[k] /\ upload'[k] = upload[k]
    BY <1>1, <1>a DEF AcceptUpload, StoreOriginal, InsertMedia, Enqueue, TypeOK
  <2>2. UNCHANGED <<worker, dropped>>
    BY <1>1 DEF AcceptUpload, StoreOriginal, InsertMedia, Enqueue
  <2>3. CASE m # n
    BY <2>1, <2>2, <2>3 DEF NothingForgotten, Holds, At
  <2>4. CASE m = n
    <3>1. CASE StoreOriginal(m)
      BY <3>1, <1>a DEF StoreOriginal, Lease, UploadsInOrder
    <3>2. CASE InsertMedia(m)
      BY <3>2, <1>a DEF InsertMedia, TypeOK
    <3>3. CASE Enqueue(m)
      BY <3>3, <1>a DEF Enqueue, NoJob, TypeOK
    <3> QED
      BY <1>1, <2>4, <3>1, <3>2, <3>3 DEF AcceptUpload
  <2> QED
    BY <2>3, <2>4
<1>2. ASSUME NEW n \in Media, UploadFails(n) PROVE Goal
  BY <1>2, <1>a DEF UploadFails, NothingForgotten, Holds, At, TypeOK
<1>3. ASSUME NEW n \in Media, BackoffEnds(n) \/ LeaseEnds(n) PROVE Goal
  <2>1. UNCHANGED <<media, upload, worker, dropped>>
    BY <1>3 DEF BackoffEnds, LeaseEnds, history
  <2>2. \A k \in Media : job'[k].state = job[k].state
    BY <1>3, <1>a, TimeFrame
  <2> QED
    BY <2>1, <2>2 DEF NothingForgotten, Holds, At
<1>4. ASSUME NEW w \in Workers, NEW n \in Media, Claim(w, n) PROVE Goal
  <2>1. /\ job'[n].state = "processing"
        /\ \A k \in Media \ {n} : job'[k] = job[k]
        /\ \A v \in Workers \ {w} : worker'[v] = worker[v]
        /\ ~At(w, "setfailed")
        /\ UNCHANGED <<media, upload, dropped>>
    BY <1>4, <1>a DEF Claim, At, TypeOK
  <2> QED
    BY <2>1 DEF NothingForgotten, Holds, At
<1>5. ASSUME NEW w \in Workers,
             Load(w) \/ TransientFailure(w) \/ Process(w) \/ Put(w) \/ SetReady(w)
      PROVE  Goal
  <2>1. worker[w].step \in Steps \ {"setfailed"} /\ Job(w) \in Media
    BY <1>5, <1>a, WorkerTyped DEF Load, TransientFailure, Process, Put, SetReady, At, Steps
  <2>2. PICK step \in Steps : Goto(w, step)
    BY <1>5 DEF Load, TransientFailure, Process, Put, SetReady, Steps
  <2>3. /\ UNCHANGED <<job, upload, dropped>>
        /\ media[m] = "processing"
    BY <1>5, <1>a, <2>1 DEF Load, TransientFailure, Process, Put, SetReady, TypeOK
  <2>4. \A v \in Workers : Holds(v, m) /\ At(v, "setfailed") => Holds(v, m)' /\ At(v, "setfailed")'
    BY <2>1, <2>2, <1>a, GotoFrame DEF At
  <2> QED
    BY <2>3, <2>4 DEF NothingForgotten
<1>6. ASSUME NEW w \in Workers, FailOrRetry(w) PROVE Goal
  <2>1. /\ worker[w].step \in Steps \ {"setfailed"}
        /\ Job(w) \in Media /\ Holds(w, Job(w))
    BY <1>6, <1>a, AtHolds DEF FailOrRetry, At, Steps
  <2>2. UNCHANGED <<media, upload, dropped>>
    BY <1>6 DEF FailOrRetry
  <2> DEFINE row(s) == [state |-> s, attempts |-> worker[w].attempts + 1,
                        due |-> FALSE, stale |-> FALSE]
  <2>3. PICK s \in {"queued", "failed"} :
          /\ Write(Job(w), row(s))
          /\ IF s = "failed" THEN Goto(w, "setfailed") ELSE EndJob(w)
    BY <1>6 DEF FailOrRetry
  <2>4. /\ \A k \in Media \ {Job(w)} : job'[k] = job[k]
        /\ job'[Job(w)].state = IF job[Job(w)].state = "absent" THEN "absent" ELSE s
    BY <2>1, <2>3, <1>a DEF Write, TypeOK
  <2>5. CASE s = "failed" /\ Goto(w, "setfailed")
    <3>1. /\ At(w, "setfailed")'
          /\ \A v \in Workers : Holds(v, m)' <=> Holds(v, m)
          /\ \A v \in Workers : At(v, "setfailed") => At(v, "setfailed")'
      BY <2>1, <2>5, <1>a, GotoFrame DEF At, Steps
    <3> QED
      BY <2>1, <2>2, <2>4, <3>1 DEF NothingForgotten
  <2>6. CASE s = "queued" /\ EndJob(w)
    <3>1. \A v \in Workers : Holds(v, m) /\ At(v, "setfailed") => Holds(v, m)' /\ At(v, "setfailed")'
      BY <2>1, <2>6, <1>a, EndJobFrame DEF At
    <3> QED
      BY <2>2, <2>4, <2>6, <3>1 DEF NothingForgotten
  <2> QED
    BY <2>3, <2>5, <2>6
<1>7. ASSUME NEW w \in Workers, SetFailed(w) PROVE Goal
  <2>1. Job(w) \in Media /\ EndJob(w) /\ \A k \in Media : Holds(w, k) => k = Job(w)
    BY <1>7, <1>a, AtHolds DEF SetFailed, Steps
  <2>2. /\ m # Job(w) /\ media[m] = "processing"
        /\ UNCHANGED <<job, upload, dropped>>
    BY <1>7, <1>a, <2>1 DEF SetFailed, TypeOK
  <2>3. \A v \in Workers : Holds(v, m) /\ At(v, "setfailed") => Holds(v, m)' /\ At(v, "setfailed")'
    BY <2>1, <2>2, <1>a, EndJobFrame DEF At
  <2> QED
    BY <2>2, <2>3 DEF NothingForgotten
<1>8. ASSUME NEW w \in Workers, Complete(w) PROVE Goal
  <2>1. /\ Job(w) \in Media /\ Holds(w, Job(w)) /\ EndJob(w)
        /\ worker[w].step = "complete"
    BY <1>8, <1>a, AtHolds DEF Complete, Steps, At
  <2>2. media[Job(w)] # "processing"
    BY <2>1 DEF Founded, StepsAreFounded, At
  <2>3. /\ \A k \in Media \ {Job(w)} : job'[k] = job[k]
        /\ UNCHANGED <<media, upload, dropped>>
    BY <1>8, <1>a, <2>1 DEF Complete, TypeOK
  <2>4. \A v \in Workers : Holds(v, m) /\ At(v, "setfailed") => Holds(v, m)' /\ At(v, "setfailed")'
    BY <2>1, <1>a, EndJobFrame DEF At
  <2> QED
    BY <2>2, <2>3, <2>4 DEF NothingForgotten
<1>9. ASSUME NEW w \in Workers, Start(w) \/ Die(w) \/ Shutdown(w) PROVE Goal
  <2>1. /\ EndJob(w) \/ worker' = [worker EXCEPT ![w] = Stopped]
        /\ UNCHANGED <<media, job, upload>>
    BY <1>9 DEF Start, Die, Shutdown
  <2>2. dropped \cup Lost(w) \subseteq dropped'
    BY <1>9 DEF Start, Die, Shutdown, Lost, At
  <2>3. Holds(w, m) /\ At(w, "setfailed") => m \in Lost(w)
    BY DEF Holds, Lost, Job
  <2>4. \A v \in Workers \ {w} :
          Holds(v, m) /\ At(v, "setfailed") => Holds(v, m)' /\ At(v, "setfailed")'
    BY <2>1, <1>a, EndJobFrame DEF At
  <2> QED
    BY <2>1, <2>2, <2>3, <2>4 DEF NothingForgotten
<1>10. CASE UNCHANGED vars
  BY <1>10 DEF vars, NothingForgotten, Holds, At
<1> QED
  BY <1>1, <1>2, <1>3, <1>4, <1>5, <1>6, <1>7, <1>8, <1>9, <1>10 DEF Next, Work

(* A processing media is somebody's job, but where a fault dropped it.     *)
THEOREM MediaAreRemembered == Spec => []NothingForgotten
<1>1. Init => NothingForgotten
  BY DEF Init, NothingForgotten
<1> QED
  BY LeaseInit, LeaseStep, FoundedInit, FoundedStep, <1>1, RememberedStep, PTL DEF Spec
=============================================================================
