--------------------------- MODULE MediaPipeline ---------------------------
(***************************************************************************)
(* Media uploads and their processing jobs: MediaService::accept_upload,   *)
(* the job queue media_processing_jobs and the ProcessingWorker pool.      *)
(*                                                                         *)
(* Every statement and every storage write is a step of its own.  A claim  *)
(* is a lease on time: a worker that is slower than lease_duration loses   *)
(* its job to another one and does not notice.  Instants are abstracted to *)
(* their order: "due" (run_at has passed) and "stale" (locked_at is older  *)
(* than the lease) are flags that time sets.                               *)
(***************************************************************************)
EXTENDS Naturals

CONSTANTS
  Media,         \* uploads; each has one processing job
  Workers,
  MaxAttempts,   \* max_retry_attempts
  MaxFaults      \* bound: crashes, failed statements and shutdowns under way

ASSUME MediaAssumption ==
  /\ MaxAttempts \in Nat \ {0}
  /\ MaxFaults \in Nat

VARIABLES
  broken,    \* uploads whose bytes no decoder accepts
  upload,    \* upload[m]: how far accept_upload got
  media,     \* media[m]: the state column, "absent" before the insert
  job,       \* job[m]: the row of m's job
  thumb,     \* thumb[m]: the thumbnail file, "partial" while it is written
  worker,    \* worker[w]: its step, its claimed job and the row's attempts
  faults,    \* faults so far
  tries,     \* history: claims of m's job
  overtaken, \* history: uploads whose lease ran out under a living worker
  unread,    \* history: settled uploads whose row a worker failed to read
  dropped    \* history: uploads whose last write a fault prevented

history == <<tries, overtaken, unread, dropped>>
vars == <<broken, upload, media, job, thumb, worker, faults, history>>

JobStates == {"absent", "queued", "processing", "failed"}
Steps == {"load", "process", "put", "ready", "complete", "retry", "fail", "setfailed"}

NoJob   == [state |-> "absent", attempts |-> 0, due |-> FALSE, stale |-> FALSE]
Idle    == [step |-> "idle"]
Stopped == [step |-> "stopped"]

(* Every variable has its type.                                            *)
TypeOK ==
  /\ broken \subseteq Media
  /\ upload \in [Media -> {"none", "stored", "inserted", "accepted", "aborted"}]
  /\ media \in [Media -> {"absent", "processing", "ready", "failed"}]
  /\ job \in [Media -> [state : JobStates, attempts : Nat, due : BOOLEAN, stale : BOOLEAN]]
  /\ thumb \in [Media -> {"absent", "partial", "whole"}]
  /\ worker \in [Workers -> {Idle, Stopped} \cup [step : Steps, of : Media, attempts : Nat]]
  /\ faults \in 0..MaxFaults
  /\ tries \in [Media -> Nat]
  /\ overtaken \subseteq Media /\ unread \subseteq Media /\ dropped \subseteq Media

-----------------------------------------------------------------------------
At(w, step) == worker[w].step = step
Holds(w, m) == worker[w].step \in Steps /\ worker[w].of = m
Job(w)      == worker[w].of

Goto(w, step) == worker' = [worker EXCEPT ![w].step = step]
EndJob(w)     == worker' = [worker EXCEPT ![w] = Idle]

Fault == faults < MaxFaults /\ faults' = faults + 1

-----------------------------------------------------------------------------
(* accept_upload: the original is stored, the row inserted, the job queued.*)
(* The format is judged by the declared content type alone.                *)

StoreOriginal(m) ==
  /\ upload[m] = "none"
  /\ upload' = [upload EXCEPT ![m] = "stored"]
  /\ broken' \in {broken, broken \cup {m}}
  /\ UNCHANGED <<media, job, thumb, worker, faults, history>>

InsertMedia(m) ==
  /\ upload[m] = "stored"
  /\ upload' = [upload EXCEPT ![m] = "inserted"]
  /\ media' = [media EXCEPT ![m] = "processing"]
  /\ UNCHANGED <<broken, job, thumb, worker, faults, history>>

Enqueue(m) ==
  /\ upload[m] = "inserted"
  /\ upload' = [upload EXCEPT ![m] = "accepted"]
  /\ job' = [job EXCEPT ![m] = [NoJob EXCEPT !.state = "queued", !.due = TRUE]]
  /\ UNCHANGED <<broken, media, thumb, worker, faults, history>>

(* The request ends between two of its steps; nothing takes them back.     *)
UploadFails(m) ==
  /\ upload[m] \in {"stored", "inserted"}
  /\ Fault
  /\ upload' = [upload EXCEPT ![m] = "aborted"]
  /\ dropped' = IF upload[m] = "inserted" THEN dropped \cup {m} ELSE dropped
  /\ UNCHANGED <<broken, media, job, thumb, worker, tries, overtaken, unread>>

-----------------------------------------------------------------------------
(* Time                                                                    *)

BackoffEnds(m) ==
  /\ job[m].state = "queued" /\ ~job[m].due
  /\ job' = [job EXCEPT ![m].due = TRUE]
  /\ UNCHANGED <<broken, upload, media, thumb, worker, faults, history>>

LeaseEnds(m) ==
  /\ job[m].state = "processing" /\ ~job[m].stale
  /\ job' = [job EXCEPT ![m].stale = TRUE]
  /\ overtaken' = IF \E w \in Workers : Holds(w, m) THEN overtaken \cup {m} ELSE overtaken
  /\ UNCHANGED <<broken, upload, media, thumb, worker, faults, tries, unread, dropped>>

-----------------------------------------------------------------------------
(* ProcessingWorker                                                        *)

EveryClaimCounted(m) == 1

(* What a claim adds to the row's attempts: only a reclaim counts as one.  *)
Reclaimed(m) == IF job[m].state = "processing" THEN 1 ELSE 0

ClaimableUnleased(m) ==
  \/ job[m].state = "queued" /\ job[m].due
  \/ job[m].state = "processing"

QueuedOnly(m) == job[m].state = "queued" /\ job[m].due

Claimable(m) ==
  \/ job[m].state = "queued" /\ job[m].due
  \/ job[m].state = "processing" /\ job[m].stale

(* claim_due: one statement.                                               *)
Claim(w, m) ==
  LET n == job[m].attempts + Reclaimed(m) IN
  /\ At(w, "idle")
  /\ Claimable(m)
  /\ job' = [job EXCEPT ![m] =
       [state |-> "processing", attempts |-> n, due |-> TRUE, stale |-> FALSE]]
  /\ worker' = [worker EXCEPT ![w] = [step |-> "load", of |-> m, attempts |-> n]]
  /\ tries' = [tries EXCEPT ![m] = @ + 1]
  /\ UNCHANGED <<broken, upload, media, thumb, faults, overtaken, unread, dropped>>

LoadUnchecked(w) ==
  /\ At(w, "load")
  /\ Goto(w, "process")
  /\ UNCHANGED <<broken, upload, media, job, thumb, faults, history>>

LoadInverted(w) ==
  /\ At(w, "load")
  /\ Goto(w, IF media[Job(w)] = "processing" THEN "complete" ELSE "process")
  /\ UNCHANGED <<broken, upload, media, job, thumb, faults, history>>

(* attempt: a media that has settled already is not processed again.       *)
Load(w) ==
  /\ At(w, "load")
  /\ Goto(w, IF media[Job(w)] = "processing" THEN "process" ELSE "complete")
  /\ UNCHANGED <<broken, upload, media, job, thumb, faults, history>>

ProcessUnawaited(w) ==
  /\ At(w, "process")
  /\ IF Job(w) \in broken
       THEN Goto(w, "fail") /\ UNCHANGED thumb
       ELSE Goto(w, "ready") /\ thumb' = [thumb EXCEPT ![Job(w)] = "partial"]
  /\ UNCHANGED <<broken, upload, media, job, faults, history>>

(* process_image, and put opens the thumbnail's file for writing.          *)
Process(w) ==
  /\ At(w, "process")
  /\ IF Job(w) \in broken
       THEN Goto(w, "fail") /\ UNCHANGED thumb
       ELSE Goto(w, "put") /\ thumb' = [thumb EXCEPT ![Job(w)] = "partial"]
  /\ UNCHANGED <<broken, upload, media, job, faults, history>>

Put(w) ==
  /\ At(w, "put")
  /\ thumb' = [thumb EXCEPT ![Job(w)] = "whole"]
  /\ Goto(w, "ready")
  /\ UNCHANGED <<broken, upload, media, job, faults, history>>

(* The row cannot be read, the original not be got or the thumbnail not be *)
(* written: the job is retried.                                            *)
TransientFailure(w) ==
  /\ \/ At(w, "load") \/ At(w, "process") \/ At(w, "put")
  /\ Goto(w, "retry")
  /\ unread' = IF At(w, "load") /\ media[Job(w)] # "processing"
                 THEN unread \cup {Job(w)} ELSE unread
  /\ UNCHANGED <<broken, upload, media, job, thumb, faults, tries, overtaken, dropped>>

SetReady(w) ==
  /\ At(w, "ready")
  /\ media' = [media EXCEPT ![Job(w)] = "ready"]
  /\ Goto(w, "complete")
  /\ UNCHANGED <<broken, upload, job, thumb, faults, history>>

CompleteAsDone(w) ==
  /\ At(w, "complete")
  /\ job' = [job EXCEPT ![Job(w)].state = "done"]
  /\ EndJob(w)
  /\ UNCHANGED <<broken, upload, media, thumb, faults, history>>

(* complete deletes the row, whoever holds it now.                         *)
Complete(w) ==
  /\ At(w, "complete")
  /\ job' = [job EXCEPT ![Job(w)] = NoJob]
  /\ EndJob(w)
  /\ UNCHANGED <<broken, upload, media, thumb, faults, history>>

(* An UPDATE by id alone: it writes the claimed row's attempts plus one,   *)
(* and finds no row once another worker has completed the job.             *)
Write(m, row) == job' = [job EXCEPT ![m] = IF job[m].state = "absent" THEN @ ELSE row]

(* fail_or_retry, with a limit of 0 for a broken original; set_failed       *)
(* is a statement of its own.                                              *)
FailOrRetry(w) ==
  LET n     == worker[w].attempts + 1
      limit == IF At(w, "fail") THEN 0 ELSE MaxAttempts
      row(s) == [state |-> s, attempts |-> n, due |-> FALSE, stale |-> FALSE] IN
  /\ At(w, "fail") \/ At(w, "retry")
  /\ \/ n >= limit /\ Write(Job(w), row("failed")) /\ Goto(w, "setfailed")
     \/ n < limit  /\ Write(Job(w), row("queued")) /\ EndJob(w)
  /\ UNCHANGED <<broken, upload, media, thumb, faults, history>>

SetFailed(w) ==
  /\ At(w, "setfailed")
  /\ media' = [media EXCEPT ![Job(w)] = "failed"]
  /\ EndJob(w)
  /\ UNCHANGED <<broken, upload, job, thumb, faults, history>>

(* Once fail_or_retry has ended the job nobody else settles its media.     *)
Lost(w) == IF At(w, "setfailed") THEN {Job(w)} ELSE {}

(* A settling statement fails, or the process dies and starts again.       *)
Die(w) ==
  /\ worker[w].step \in Steps
  /\ Fault
  /\ EndJob(w)
  /\ dropped' = dropped \cup Lost(w)
  /\ UNCHANGED <<broken, upload, media, job, thumb, tries, overtaken, unread>>

(* run's select! takes the shutdown signal at any await of run_once, whose *)
(* future is dropped there.                                                *)
Shutdown(w) ==
  /\ ~At(w, "stopped")
  /\ Fault
  /\ worker' = [worker EXCEPT ![w] = Stopped]
  /\ dropped' = dropped \cup Lost(w)
  /\ UNCHANGED <<broken, upload, media, job, thumb, tries, overtaken, unread>>

(* The next process starts its workers.                                    *)
Start(w) ==
  /\ At(w, "stopped")
  /\ EndJob(w)
  /\ UNCHANGED <<broken, upload, media, job, thumb, faults, history>>

-----------------------------------------------------------------------------
Init ==
  /\ broken = {}
  /\ upload = [m \in Media |-> "none"]
  /\ media = [m \in Media |-> "absent"]
  /\ job = [m \in Media |-> NoJob]
  /\ thumb = [m \in Media |-> "absent"]
  /\ worker = [w \in Workers |-> Idle]
  /\ faults = 0
  /\ tries = [m \in Media |-> 0]
  /\ overtaken = {} /\ unread = {} /\ dropped = {}

AcceptUpload(m) == StoreOriginal(m) \/ InsertMedia(m) \/ Enqueue(m)

Work(w) ==
  \/ Load(w) \/ Process(w) \/ Put(w) \/ SetReady(w) \/ Complete(w)
  \/ FailOrRetry(w) \/ SetFailed(w) \/ Start(w)

Next ==
  \/ \E m \in Media : AcceptUpload(m) \/ UploadFails(m) \/ BackoffEnds(m) \/ LeaseEnds(m)
  \/ \E w \in Workers :
       \/ \E m \in Media : Claim(w, m)
       \/ Work(w) \/ TransientFailure(w) \/ Die(w) \/ Shutdown(w)

Spec == Init /\ [][Next]_vars

(* The pool polls and works, time passes and stopped processes are started *)
(* again; nobody has to upload and nothing has to fail.                    *)
Fairness ==
  /\ \A w \in Workers :
       WF_vars(Work(w)) /\ WF_vars(\E m \in Media : Claim(w, m))
  /\ \A m \in Media : WF_vars(BackoffEnds(m)) /\ WF_vars(LeaseEnds(m))

FairSpec == Spec /\ Fairness

-----------------------------------------------------------------------------
(* The lease excludes: two workers process an upload at the same time only *)
(* after the lease of a living worker ran out.                             *)
OneWorkerPerJob ==
  \A v, w \in Workers : \A m \in Media :
    v # w /\ Holds(v, m) /\ Holds(w, m) => m \in overtaken

(* A ready media has a complete thumbnail, also after a crash or a shutdown*)
(* in the middle of the write, unless a second worker was writing.         *)
ReadyIsViewable ==
  \A m \in Media : media[m] = "ready" /\ m \notin overtaken => thumb[m] = "whole"

(* Ready and failed are final: a job that is claimed again because its     *)
(* worker stopped after settling the media does not process it again.  Two *)
(* cases undo it: a worker that outlived its lease, and a claimer that     *)
(* fails to read the row, whose last attempt then fails a ready media.     *)
SettledStays ==
  [][\A m \in Media :
       media[m] \in {"ready", "failed"} /\ m \notin overtaken \cup unread
       => media'[m] = media[m]]_vars

(* A processing media always has a job or a worker that will settle it,    *)
(* except where a fault came between two writes that belong together:      *)
(* insert_media and enqueue, or fail_or_retry and set_failed.              *)
NothingForgotten ==
  \A m \in Media :
    media[m] = "processing" =>
      \/ job[m].state \in {"queued", "processing"}
      \/ upload[m] = "inserted"
      \/ \E w \in Workers : Holds(w, m) /\ At(w, "setfailed")
      \/ m \in dropped

(* Reclaims and reported failures share one counter without counting an    *)
(* attempt twice: a decodable media fails only after MaxAttempts claims.   *)
FailedOnlyAfterTries ==
  \A m \in Media :
    media[m] = "failed" => m \in broken \/ tries[m] >= MaxAttempts

(* Every accepted upload is settled in the end, whatever the workers do    *)
(* with it on the way, unless its last write was dropped.                  *)
UploadsSettle ==
  \A m \in Media :
    upload[m] = "accepted" ~> media[m] \in {"ready", "failed"} \/ m \in dropped

(* worker.rs, doc of run: shutdown is observed between iterations, never by*)
(* aborting work in progress.                                              *)
ShutdownDrains ==
  [][\A w \in Workers : Stopped = worker'[w] => worker[w] \in {Idle, Stopped}]_vars
=============================================================================
