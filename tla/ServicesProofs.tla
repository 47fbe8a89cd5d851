--------------------------- MODULE ServicesProofs ---------------------------
(***************************************************************************)
(* Proofs about Interactions, and about the services together: what stands *)
(* is counted, the author is told of it, and what holds of each component  *)
(* alone holds of all of them side by side.                                *)
(***************************************************************************)
EXTENDS Services, AccessProofs, StatusesProofs, FiniteSetTheorems, TLAPS

-----------------------------------------------------------------------------
(* Interactions: the requests under way                                    *)

(* The requests that may be at a step.                                     *)
OpsAt(step) ==
  CASE step = "find"    -> {"reblog", "unreblog", "Announce", "UndoAnnounce"}
    [] step = "write"   -> {"reblog", "favourite", "unfavourite", "reply"}
    [] step = "scan"    -> {"delete"}
    [] step = "insert"  -> {"Announce", "Like", "Create"}
    [] step = "drop"    -> {"unreblog", "UndoAnnounce", "UndoLike", "remove", "delete"}
    [] step = "raise"   -> {"Announce", "Like", "Create"}
    [] step = "lower"   -> {"unreblog", "UndoAnnounce", "UndoLike"}
    [] step = "deliver" -> {"reblog", "unreblog", "favourite", "unfavourite", "reply"}
    [] step = "notify"  -> {"reblog", "favourite", "Announce", "Like"}

(* The rows a request has in hand are those it means.                      *)
SeenFits(t) ==
  t.step = "drop" =>
    /\ t.op \in {"unreblog", "UndoAnnounce"} =>
         \E r \in Row : t.seen = {r} /\ r.kind = "boost" /\ r.actor = t.actor /\ r.post = t.post
    /\ t.op = "remove" =>
         \E r \in Row : t.seen = {r} /\ r.kind = "reply" /\ r.actor = t.actor /\ r.post = t.post
    /\ t.op = "delete" => \A r \in t.seen : r.kind = "boost" /\ r.post = t.post

(* A request at one of its steps: what an echo returns to, whose call it is.*)
TaskFits(t) ==
  t # Idle =>
    /\ t.op \in OpsAt(t.step)
    /\ t.after = "reblog" => t.op = "Announce"
    /\ t.after = "favourite" => t.op = "Like"
    /\ t.op \in ApiOps \/ t.after # "none" => t.actor \in Members
    /\ SeenFits(t)

TasksFit == \A k \in Slots : TaskFits(task[k])

TablesAreFinite == IsFiniteSet(rows) /\ \A p \in Posts : IsFiniteSet(favs[p])

TasksSound == InteractionsTypeOK /\ TasksFit

(* Slot k alone goes on with its request, or is done with it.              *)
Proceeds(k) ==
  /\ task' \in [Slots -> Task \cup {Idle}]
  /\ \A j \in Slots \ {k} : task'[j] = task[j]
  /\ task'[k] # Idle =>
       /\ task'[k].actor = By(k) /\ task'[k].post = OnPost(k) /\ task'[k].id = task[k].id
       /\ task'[k].op = "delete" <=> task[k].op = "delete"

LEMMA TaskKinds ==
  /\ \A t \in Task : t # Idle /\ t.step # "idle"
  /\ Idle.step = "idle"
<1>1. \A t \in Task : t.step # "idle"
  BY DEF Task, Steps
<1>2. Idle.step = "idle"
  BY DEF Idle
<1> QED BY <1>1, <1>2

LEMMA RunningFacts ==
  ASSUME InteractionsTypeOK, NEW k \in Slots
  PROVE  /\ Running(k) <=> task[k] \in Task
         /\ Running(k) <=> task[k] # Idle
         /\ task[k] \in Task \cup {Idle}
         /\ Running(k) => /\ By(k) \in Actors /\ OnPost(k) \in Posts /\ task[k].id \in 1..MaxTouches
                          /\ task[k].op \in Ops
  BY TaskKinds DEF InteractionsTypeOK, Running, Task, By, OnPost

LEMMA TaskIsItsFields ==
  ASSUME NEW t \in Task
  PROVE  t = [step |-> t.step, op |-> t.op, actor |-> t.actor, post |-> t.post, id |-> t.id,
              seen |-> t.seen, after |-> t.after]
  BY DEF Task

(* What an EXCEPT on one field of a request leaves alone.                  *)
LEMMA SetStep ==
  ASSUME NEW t \in Task, NEW new \in Steps
  PROVE  \E r \in Task : /\ r = [t EXCEPT !.step = new] /\ r.step = new
                  /\ r.op = t.op /\ r.actor = t.actor /\ r.post = t.post
                  /\ r.id = t.id /\ r.seen = t.seen /\ r.after = t.after
<1> DEFINE r == [step |-> new, op |-> t.op, actor |-> t.actor, post |-> t.post,
               id |-> t.id, seen |-> t.seen, after |-> t.after]
<1>1. r \in Task
  BY DEF Task
<1>2. r = [t EXCEPT !.step = new]
  BY TaskIsItsFields
<1> QED BY <1>1, <1>2

LEMMA SetOp ==
  ASSUME NEW t \in Task, NEW new \in Ops
  PROVE  \E r \in Task : /\ r = [t EXCEPT !.op = new] /\ r.op = new
                  /\ r.step = t.step /\ r.actor = t.actor /\ r.post = t.post
                  /\ r.id = t.id /\ r.seen = t.seen /\ r.after = t.after
<1> DEFINE r == [step |-> t.step, op |-> new, actor |-> t.actor, post |-> t.post,
               id |-> t.id, seen |-> t.seen, after |-> t.after]
<1>1. r \in Task
  BY DEF Task
<1>2. r = [t EXCEPT !.op = new]
  BY TaskIsItsFields
<1> QED BY <1>1, <1>2

LEMMA SetSeen ==
  ASSUME NEW t \in Task, NEW new \in SUBSET Row
  PROVE  \E r \in Task : /\ r = [t EXCEPT !.seen = new] /\ r.seen = new
                  /\ r.step = t.step /\ r.op = t.op /\ r.actor = t.actor
                  /\ r.post = t.post /\ r.id = t.id /\ r.after = t.after
<1> DEFINE r == [step |-> t.step, op |-> t.op, actor |-> t.actor, post |-> t.post,
               id |-> t.id, seen |-> new, after |-> t.after]
<1>1. r \in Task
  BY DEF Task
<1>2. r = [t EXCEPT !.seen = new]
  BY TaskIsItsFields
<1> QED BY <1>1, <1>2

LEMMA SetAfter ==
  ASSUME NEW t \in Task, NEW new \in {"none", "reblog", "favourite"}
  PROVE  \E r \in Task : /\ r = [t EXCEPT !.after = new] /\ r.after = new
                  /\ r.step = t.step /\ r.op = t.op /\ r.actor = t.actor
                  /\ r.post = t.post /\ r.id = t.id /\ r.seen = t.seen
<1> DEFINE r == [step |-> t.step, op |-> t.op, actor |-> t.actor, post |-> t.post,
               id |-> t.id, seen |-> t.seen, after |-> new]
<1>1. r \in Task
  BY DEF Task
<1>2. r = [t EXCEPT !.after = new]
  BY TaskIsItsFields
<1> QED BY <1>1, <1>2

(* StepTo changes the step and nothing else of the request.                *)
LEMMA ToStep ==
  ASSUME TasksSound, NEW k \in Slots, Running(k), NEW step \in Steps, StepTo(k, step)
  PROVE  /\ Proceeds(k) /\ task'[k] \in Task /\ task'[k].step = step /\ task'[k].op = task[k].op
         /\ task'[k].seen = task[k].seen /\ task'[k].after = task[k].after
<1>1. task[k] \in Task /\ task \in [Slots -> Task \cup {Idle}]
  BY RunningFacts DEF TasksSound, InteractionsTypeOK
<1>2. PICK t \in Task : /\ t = [task[k] EXCEPT !.step = step]
                        /\ t.step = step /\ t.op = task[k].op /\ t.seen = task[k].seen
                        /\ t.after = task[k].after /\ t.actor = task[k].actor
                        /\ t.post = task[k].post /\ t.id = task[k].id
  BY <1>1, SetStep
<1>3. task' = [task EXCEPT ![k] = t]
  BY <1>1, <1>2 DEF StepTo
<1> QED BY <1>1, <1>2, <1>3 DEF Proceeds, By, OnPost

LEMMA Returns ==
  ASSUME TasksSound, NEW k \in Slots, Return(k)
  PROVE  Proceeds(k) /\ task'[k] = Idle
  BY DEF Return, TasksSound, InteractionsTypeOK, Proceeds

(* A handler is done: the request ends, or the call it was an echo of goes *)
(* on to its notification.                                                 *)
LEMMA HandlerEnds ==
  ASSUME TasksSound, NEW k \in Slots, Running(k), HandlerDone(k), task[k].op # "delete"
  PROVE  /\ Proceeds(k)
         /\ IF task[k].after = "none"
              THEN task'[k] = Idle
              ELSE /\ task'[k] \in Task /\ task'[k].step = "notify" /\ task'[k].op = task[k].after
                   /\ task'[k].after = "none" /\ task[k].after \in {"reblog", "favourite"}
<1>1. task[k] \in Task /\ task \in [Slots -> Task \cup {Idle}]
  BY RunningFacts DEF TasksSound, InteractionsTypeOK
<1>2. CASE task[k].after = "none"
  BY <1>2, Returns DEF HandlerDone
<1>3. CASE task[k].after # "none"
  <2>1. task[k].after \in {"reblog", "favourite"}
    BY <1>1, <1>3 DEF Task
  <2>2. task[k].after \in Ops /\ "notify" \in Steps
    BY <2>1 DEF Steps, Ops, ApiOps
  <2>3. PICK r1 \in Task : /\ r1 = [task[k] EXCEPT !.op = task[k].after] /\ r1.op = task[k].after
                           /\ r1.actor = task[k].actor /\ r1.post = task[k].post /\ r1.id = task[k].id
    BY <1>1, <2>2, SetOp
  <2>4. PICK r2 \in Task : /\ r2 = [r1 EXCEPT !.after = "none"] /\ r2.after = "none" /\ r2.op = r1.op
                           /\ r2.actor = r1.actor /\ r2.post = r1.post /\ r2.id = r1.id
    BY SetAfter
  <2>5. PICK t \in Task : /\ t = [r2 EXCEPT !.step = "notify"] /\ t.step = "notify"
                          /\ t.after = r2.after /\ t.op = r2.op
                          /\ t.actor = r2.actor /\ t.post = r2.post /\ t.id = r2.id
    BY <2>2, SetStep
  <2>6. task' = [task EXCEPT ![k].op = task[k].after, ![k].after = "none", ![k].step = "notify"]
    BY <1>3 DEF HandlerDone
  <2>7. task' = [task EXCEPT ![k] = t]
    BY <1>1, <2>3, <2>4, <2>5, <2>6
  <2>8. task[k].after # "delete" /\ task'[k] = t
    BY <1>1, <2>1, <2>7
  <2> QED BY <1>1, <1>3, <2>1, <2>3, <2>4, <2>5, <2>7, <2>8 DEF Proceeds, By, OnPost
<1> QED BY <1>2, <1>3

LEMMA FitsGoOn ==
  ASSUME TasksSound, NEW k \in Slots, Proceeds(k), TaskFits(task'[k])
  PROVE  TasksFit'
<1> SUFFICES ASSUME NEW j \in Slots PROVE TaskFits(task'[j])
  BY DEF TasksFit
<1>1. CASE j = k
  BY <1>1
<1>2. CASE j # k
  BY <1>2 DEF Proceeds, TasksSound, TasksFit
<1> QED BY <1>1, <1>2

LEMMA StepFits ==
  ASSUME TasksSound, NEW k \in Slots, Running(k), NEW step \in Steps \ {"drop"},
         task[k].op \in OpsAt(step), StepTo(k, step)
  PROVE  /\ Proceeds(k) /\ TasksFit' /\ task'[k] \in Task /\ task'[k].step = step
         /\ task'[k].op = task[k].op /\ task'[k].after = task[k].after
<1>1. /\ Proceeds(k) /\ task'[k] \in Task /\ task'[k].step = step /\ task'[k].op = task[k].op
      /\ task'[k].after = task[k].after
  BY ToStep
<1>2. task[k] # Idle /\ TaskFits(task[k]) /\ task'[k] # Idle
  BY <1>1, RunningFacts, TaskKinds DEF TasksSound, TasksFit
<1>3. SeenFits(task'[k])
  BY <1>1 DEF SeenFits
<1>4. task'[k].actor = task[k].actor
  BY <1>1, <1>2 DEF Proceeds, By
<1>5. TaskFits(task'[k])
  BY <1>1, <1>2, <1>3, <1>4 DEF TaskFits
<1> QED BY <1>1, <1>5, FitsGoOn

LEMMA ReturnFits ==
  ASSUME TasksSound, NEW k \in Slots, Return(k)
  PROVE  Proceeds(k) /\ TasksFit' /\ task'[k] = Idle
<1>1. TaskFits(Idle)
  BY DEF TaskFits
<1> QED BY <1>1, Returns, FitsGoOn

LEMMA DoneFits ==
  ASSUME TasksSound, NEW k \in Slots, Running(k), HandlerDone(k), task[k].op # "delete"
  PROVE  /\ Proceeds(k) /\ TasksFit'
         /\ IF task[k].after = "none"
              THEN task'[k] = Idle
              ELSE /\ task'[k] \in Task /\ task'[k].step = "notify" /\ task'[k].op = task[k].after
                   /\ task'[k].after = "none" /\ task[k].after \in {"reblog", "favourite"}
<1>1. /\ Proceeds(k)
      /\ IF task[k].after = "none"
           THEN task'[k] = Idle
           ELSE /\ task'[k] \in Task /\ task'[k].step = "notify" /\ task'[k].op = task[k].after
                /\ task'[k].after = "none" /\ task[k].after \in {"reblog", "favourite"}
  BY HandlerEnds
<1>2. task[k] # Idle /\ TaskFits(task[k])
  BY RunningFacts DEF TasksSound, TasksFit
<1>3. CASE task[k].after = "none"
  BY <1>1, <1>3, FitsGoOn DEF TaskFits
<1>4. CASE task[k].after # "none"
  <2>1. task'[k].actor = task[k].actor /\ task[k].actor \in Members
    BY <1>1, <1>2, <1>4, TaskKinds DEF Proceeds, By, TaskFits
  <2>2. SeenFits(task'[k])
    BY <1>1, <1>4 DEF SeenFits
  <2>3. task'[k].op \in OpsAt("notify")
    BY <1>1, <1>4 DEF OpsAt
  <2>4. TaskFits(task'[k])
    BY <1>1, <1>4, <2>1, <2>2, <2>3 DEF TaskFits
  <2> QED BY <1>1, <2>4, FitsGoOn
<1> QED BY <1>3, <1>4

LEMMA DoingFacts ==
  ASSUME InteractionsTypeOK, NEW k \in Slots, NEW ops, NEW step \in Steps, Doing(k, ops, step)
  PROVE  Running(k) /\ task[k].op \in ops /\ task[k].step = step
  BY DEF Doing, Running, Steps

(* A call or handler begins.                                               *)
LEMMA EnterFits ==
  ASSUME TasksSound, NEW k \in Slots, NEW op \in Ops, NEW a \in Actors, NEW p \in Posts,
         NEW seen \in SUBSET Row, Enter(k, op, a, p, seen),
         op \in ApiOps => a \in Members,
         op = "remove" => \E r \in Row : seen = {r} /\ r.kind = "reply" /\ r.actor = a /\ r.post = p
  PROVE  /\ TasksFit' /\ task' \in [Slots -> Task \cup {Idle}]
         /\ \A j \in Slots \ {k} : task'[j] = task[j]
         /\ touches' = touches + 1 /\ touches' \in 1..MaxTouches
         /\ task'[k] \in Task /\ task'[k].step = FirstStepOf(op) /\ task'[k].op = op
         /\ task'[k].actor = a /\ task'[k].post = p /\ task'[k].id = touches + 1
         /\ task'[k].seen = seen /\ task'[k].after = "none"
<1> DEFINE t == [step |-> FirstStepOf(op), op |-> op, actor |-> a, post |-> p,
                 id |-> touches + 1, seen |-> seen, after |-> "none"]
<1>1. /\ touches' = touches + 1 /\ touches' \in 1..MaxTouches
      /\ task' = [task EXCEPT ![k] = t]
  BY InteractionsAssumption DEF Enter, TasksSound, InteractionsTypeOK
<1>2. FirstStepOf(op) \in Steps /\ op \in OpsAt(FirstStepOf(op))
  BY DEF FirstStepOf, Steps, OpsAt, Ops, ApiOps, HandlerOps
<1>3. t \in Task
  BY <1>1, <1>2 DEF Task
<1>4. FirstStepOf(op) = "drop" => op \in {"UndoLike", "remove"}
  BY DEF FirstStepOf, Ops, ApiOps, HandlerOps
<1>5. SeenFits(t)
  BY <1>4 DEF SeenFits
<1>6. TaskFits(t)
  BY <1>2, <1>5 DEF TaskFits
<1>7. /\ t.step = FirstStepOf(op) /\ t.op = op /\ t.actor = a /\ t.post = p
      /\ t.id = touches + 1 /\ t.seen = seen /\ t.after = "none"
  OBVIOUS
<1> HIDE DEF t
<1>8. task'[k] = t /\ task' \in [Slots -> Task \cup {Idle}] /\ \A j \in Slots \ {k} : task'[j] = task[j]
  BY <1>1, <1>3 DEF TasksSound, InteractionsTypeOK
<1>9. TasksFit'
  <2> SUFFICES ASSUME NEW j \in Slots PROVE TaskFits(task'[j])
    BY DEF TasksFit
  <2>1. CASE j = k
    BY <1>6, <1>8, <2>1
  <2>2. CASE j # k
    BY <1>8, <2>2 DEF TasksSound, TasksFit
  <2> QED BY <2>1, <2>2
<1> QED BY <1>1, <1>3, <1>7, <1>8, <1>9

(* The request takes the rows it found into its hands.                     *)
LEMMA TakeFits ==
  ASSUME TasksSound, NEW k \in Slots, Running(k), NEW seen \in SUBSET Row,
         task[k].op \in {"unreblog", "UndoAnnounce", "delete"},
         IF task[k].op = "delete"
           THEN \A r \in seen : r.kind = "boost" /\ r.post = OnPost(k)
           ELSE \E r \in Row : seen = {r} /\ r.kind = "boost" /\ r.actor = By(k) /\ r.post = OnPost(k),
         task' = [task EXCEPT ![k].step = "drop", ![k].seen = seen]
  PROVE  /\ Proceeds(k) /\ TasksFit' /\ task'[k] \in Task /\ task'[k].step = "drop"
         /\ task'[k].op = task[k].op /\ task'[k].seen = seen
<1>1. task[k] \in Task /\ task \in [Slots -> Task \cup {Idle}]
  BY RunningFacts DEF TasksSound, InteractionsTypeOK
<1>2. PICK r1 \in Task : /\ r1 = [task[k] EXCEPT !.step = "drop"] /\ r1.step = "drop"
                         /\ r1.op = task[k].op /\ r1.actor = By(k) /\ r1.post = OnPost(k)
                         /\ r1.id = task[k].id /\ r1.after = task[k].after
  <2>1. "drop" \in Steps
    BY DEF Steps
  <2> QED BY <1>1, <2>1, SetStep DEF By, OnPost
<1>3. PICK t \in Task : /\ t = [r1 EXCEPT !.seen = seen] /\ t.seen = seen /\ t.step = r1.step
                        /\ t.op = r1.op /\ t.actor = r1.actor /\ t.post = r1.post
                        /\ t.id = r1.id /\ t.after = r1.after
  BY SetSeen
<1>4. task' = [task EXCEPT ![k] = t]
  BY <1>1, <1>2, <1>3
<1>5. Proceeds(k) /\ task'[k] = t
  BY <1>1, <1>2, <1>3, <1>4 DEF Proceeds
<1>6. task[k] # Idle /\ TaskFits(task[k])
  BY RunningFacts DEF TasksSound, TasksFit
<1>7. t.op \in OpsAt("drop")
  BY <1>2, <1>3 DEF OpsAt
<1>8. SeenFits(t)
  BY <1>2, <1>3 DEF SeenFits
<1>9. TaskFits(t)
  BY <1>2, <1>3, <1>6, <1>7, <1>8 DEF TaskFits, By
<1> QED BY <1>2, <1>3, <1>5, <1>9, FitsGoOn

(* The echo: the call goes on as the inbox handler of its own activity.    *)
LEMMA EchoFits ==
  ASSUME TasksSound, NEW k \in Slots, Running(k), NEW op, op = task[k].op, op \in OpsAt("deliver"),
         task' = [task EXCEPT ![k].op = EchoOf(op), ![k].step = FirstStepOf(EchoOf(op)),
                              ![k].after = AfterEcho(op)]
  PROVE  /\ Proceeds(k) /\ TasksFit' /\ task'[k] \in Task /\ task'[k].step = FirstStepOf(EchoOf(op))
         /\ task'[k].op = EchoOf(op) /\ task'[k].after = AfterEcho(op)
         /\ EchoOf(op) \in HandlerOps /\ By(k) \in Members
<1>1. task[k] \in Task /\ task \in [Slots -> Task \cup {Idle}]
  BY RunningFacts DEF TasksSound, InteractionsTypeOK
<1>2. task[k] # Idle /\ TaskFits(task[k])
  BY RunningFacts DEF TasksSound, TasksFit
<1>3. op \in {"reblog", "unreblog", "favourite", "unfavourite", "reply"}
  BY DEF OpsAt
<1>4. /\ EchoOf(op) \in HandlerOps /\ FirstStepOf(EchoOf(op)) \in Steps
      /\ AfterEcho(op) \in {"none", "reblog", "favourite"}
      /\ EchoOf(op) \in Ops /\ EchoOf(op) # "delete" /\ op # "delete"
  BY <1>3 DEF EchoOf, FirstStepOf, AfterEcho, HandlerOps, Steps, Ops
<1>5. /\ EchoOf(op) \in OpsAt(FirstStepOf(EchoOf(op)))
      /\ AfterEcho(op) = "reblog" => EchoOf(op) = "Announce"
      /\ AfterEcho(op) = "favourite" => EchoOf(op) = "Like"
      /\ FirstStepOf(EchoOf(op)) = "drop" => EchoOf(op) = "UndoLike"
  BY <1>3 DEF EchoOf, FirstStepOf, AfterEcho, OpsAt
<1>6. By(k) \in Members
  BY <1>2, <1>3 DEF TaskFits, By, ApiOps
<1>7. PICK r1 \in Task : /\ r1 = [task[k] EXCEPT !.op = EchoOf(op)] /\ r1.op = EchoOf(op)
                         /\ r1.actor = By(k) /\ r1.post = OnPost(k) /\ r1.id = task[k].id
  BY <1>1, <1>4, SetOp DEF By, OnPost
<1>8. PICK r2 \in Task : /\ r2 = [r1 EXCEPT !.step = FirstStepOf(EchoOf(op))]
                         /\ r2.step = FirstStepOf(EchoOf(op)) /\ r2.op = r1.op
                         /\ r2.actor = r1.actor /\ r2.post = r1.post /\ r2.id = r1.id
  BY <1>4, SetStep
<1>9. PICK t \in Task : /\ t = [r2 EXCEPT !.after = AfterEcho(op)] /\ t.after = AfterEcho(op)
                        /\ t.step = r2.step /\ t.op = r2.op
                        /\ t.actor = r2.actor /\ t.post = r2.post /\ t.id = r2.id
  <2>1. PICK after \in {"none", "reblog", "favourite"} : after = AfterEcho(op)
    BY <1>4
  <2>2. \E t \in Task : /\ t = [r2 EXCEPT !.after = after] /\ t.after = after
                        /\ t.step = r2.step /\ t.op = r2.op
                        /\ t.actor = r2.actor /\ t.post = r2.post /\ t.id = r2.id
    <3> DEFINE t == [step |-> r2.step, op |-> r2.op, actor |-> r2.actor, post |-> r2.post,
                     id |-> r2.id, seen |-> r2.seen, after |-> after]
    <3>1. t \in Task
      BY DEF Task
    <3>2. t = [r2 EXCEPT !.after = after]
      BY TaskIsItsFields
    <3> QED BY <3>1, <3>2
  <2> QED BY <2>1, <2>2
<1>10. task' = [task EXCEPT ![k] = t]
  BY <1>1, <1>7, <1>8, <1>9
<1>11. Proceeds(k) /\ task'[k] = t
  BY <1>1, <1>4, <1>7, <1>8, <1>9, <1>10 DEF Proceeds
<1>12. SeenFits(t)
  BY <1>5, <1>7, <1>8, <1>9 DEF SeenFits
<1>13. TaskFits(t)
  BY <1>5, <1>6, <1>7, <1>8, <1>9, <1>12 DEF TaskFits
<1> QED BY <1>4, <1>6, <1>7, <1>8, <1>9, <1>11, <1>13, FitsGoOn

LEMMA AdjustedFacts ==
  ASSUME InteractionsTypeOK, NEW p \in Posts, NEW c \in Counters, NEW delta \in {1, -1}
  PROVE  /\ Adjusted(count, p, c, delta) \in [Posts -> [Counters -> Nat]]
         /\ \A q \in Posts, d \in Counters :
              (q # p \/ d # c \/ p \notin living) => Adjusted(count, p, c, delta)[q][d] = count[q][d]
         /\ p \in living /\ (delta = 1 \/ count[p][c] # 0) =>
              Adjusted(count, p, c, delta)[p][c] = count[p][c] + delta
<1>1. count \in [Posts -> [Counters -> Nat]] /\ count[p][c] \in Nat
  BY DEF InteractionsTypeOK
<1>2. PICK n \in Nat : n = IF count[p][c] + delta < 0 THEN 0 ELSE count[p][c] + delta
  BY <1>1
<1>3. (delta = 1 \/ count[p][c] # 0) => n = count[p][c] + delta
  BY <1>1, <1>2
<1>4. Adjusted(count, p, c, delta) = IF p \in living THEN [count EXCEPT ![p][c] = n] ELSE count
  BY <1>2 DEF Adjusted
<1>5. [count EXCEPT ![p][c] = n] \in [Posts -> [Counters -> Nat]]
  BY <1>1
<1>6. [count EXCEPT ![p][c] = n][p][c] = n
  BY <1>1
<1>7. \A q \in Posts, d \in Counters : q # p \/ d # c => [count EXCEPT ![p][c] = n][q][d] = count[q][d]
  BY <1>1
<1> QED BY <1>1, <1>3, <1>4, <1>5, <1>6, <1>7

LEMMA CounterFacts ==
  /\ \A op \in Ops : CounterOf(op) \in Counters
  /\ \A op \in {"reblog", "unreblog", "Announce", "UndoAnnounce"} : CounterOf(op) = "reblogs"
  /\ \A op \in {"favourite", "unfavourite", "Like", "UndoLike"} : CounterOf(op) = "favourites"
  /\ \A op \in {"reply", "Create", "remove"} : CounterOf(op) = "replies"
  /\ \A p, c : AtFloor(p, c) \subseteq {<<p, c>>}
  BY DEF CounterOf, Counters, AtFloor

LEMMA RowFacts ==
  ASSUME InteractionsTypeOK, NEW k \in Slots, Running(k), NEW kind \in {"boost", "reply"},
         NEW local \in BOOLEAN
  PROVE  NewRow(k, kind, local) \in Row
  BY RunningFacts DEF NewRow, Row, By, OnPost

(* Whatever a step does to a request, the rest of its effects are typed.   *)
LEMMA TypedFrame ==
  ASSUME TasksSound, TasksFit', task' \in [Slots -> Task \cup {Idle}],
         living' \subseteq Posts, rows' \subseteq Row, favs' \in [Posts -> SUBSET Actors],
         count' \in [Posts -> [Counters -> Nat]], notes' \subseteq Note,
         touches' \in 0..MaxTouches, mishaps' \in 0..MaxMishaps,
         raced' \subseteq Actors \X Posts, drifted' \subseteq Posts \X Counters,
         untold' \subseteq Counters \X Posts \X Actors
  PROVE  TasksSound'
  BY DEF TasksSound, InteractionsTypeOK

LEMMA FindToBoostFacts ==
  ASSUME TasksSound, NEW k \in Slots, FindToBoost(k)
  PROVE  /\ TasksSound' /\ Proceeds(k) /\ Doing(k, {"reblog"}, "find")
         /\ UNCHANGED <<data, notes, touches, mishaps, touchHistory>>
         /\ \/ task'[k] = Idle
            \/ /\ Boosts(By(k), OnPost(k)) = {}
               /\ task'[k] \in Task /\ task'[k].step = "write" /\ task'[k].op = "reblog"
<1>1. /\ Doing(k, {"reblog"}, "find") /\ UNCHANGED <<data, notes, touches, mishaps, touchHistory>>
      /\ IF Boosts(By(k), OnPost(k)) # {} THEN Return(k) ELSE StepTo(k, "write")
  BY DEF FindToBoost
<1>2. Running(k) /\ task[k].op = "reblog"
  BY <1>1 DEF Doing, Running
<1>3. /\ TasksFit' /\ Proceeds(k)
      /\ \/ task'[k] = Idle
         \/ /\ Boosts(By(k), OnPost(k)) = {}
            /\ task'[k] \in Task /\ task'[k].step = "write" /\ task'[k].op = "reblog"
  <2>1. CASE Return(k)
    BY <2>1, ReturnFits
  <2>2. CASE StepTo(k, "write") /\ Boosts(By(k), OnPost(k)) = {}
    <3>1. "write" \in Steps \ {"drop"} /\ task[k].op \in OpsAt("write")
      BY <1>2 DEF Steps, OpsAt
    <3> QED BY <1>2, <2>2, <3>1, StepFits
  <2> QED BY <1>1, <2>1, <2>2
<1>4. TasksSound'
  BY <1>1, <1>3, TypedFrame DEF Proceeds, TasksSound, InteractionsTypeOK, data, touchHistory
<1> QED BY <1>1, <1>3, <1>4

LEMMA ReblogFacts ==
  ASSUME TasksSound, NEW k \in Slots, Reblog(k)
  PROVE  /\ TasksSound' /\ Proceeds(k) /\ Doing(k, {"reblog"}, "write")
         /\ NewRow(k, "boost", TRUE) \in Row
         /\ task'[k] \in Task /\ task'[k].step = "deliver" /\ task'[k].op = "reblog"
<1>1. /\ Doing(k, {"reblog"}, "write") /\ StepTo(k, "deliver")
      /\ rows' = rows \cup {NewRow(k, "boost", TRUE)}
      /\ count' = Adjusted(count, OnPost(k), "reblogs", 1)
      /\ UNCHANGED <<living, favs, notes, touches, mishaps, touchHistory>>
  BY DEF Reblog
<1>2. Running(k) /\ task[k].op = "reblog" /\ InteractionsTypeOK
  BY <1>1 DEF Doing, Running, TasksSound
<1>3. "deliver" \in Steps \ {"drop"} /\ task[k].op \in OpsAt("deliver")
  BY <1>2 DEF Steps, OpsAt
<1>4. /\ TasksFit' /\ Proceeds(k) /\ task'[k] \in Task
      /\ task'[k].step = "deliver" /\ task'[k].op = "reblog"
  BY <1>1, <1>2, <1>3, StepFits
<1>5. NewRow(k, "boost", TRUE) \in Row /\ OnPost(k) \in Posts
  BY <1>2, RowFacts, RunningFacts
<1>6. count' \in [Posts -> [Counters -> Nat]]
  BY <1>1, <1>2, <1>5, AdjustedFacts DEF Counters
<1>7. TasksSound'
  BY <1>1, <1>4, <1>5, <1>6, TypedFrame
    DEF Proceeds, TasksSound, InteractionsTypeOK, touchHistory
<1> QED BY <1>1, <1>4, <1>5, <1>7

LEMMA FindAnnouncedFacts ==
  ASSUME TasksSound, NEW k \in Slots, FindAnnounced(k)
  PROVE  /\ TasksSound' /\ Proceeds(k) /\ Doing(k, {"Announce"}, "find")
         /\ UNCHANGED <<data, notes, touches, mishaps, touchHistory>>
         /\ \/ HandlerDone(k)
            \/ /\ OnPost(k) \in living /\ Boosts(By(k), OnPost(k)) = {}
               /\ task'[k] \in Task /\ task'[k].step = "insert" /\ task'[k].op = "Announce"
               /\ task'[k].after = task[k].after
<1>1. /\ Doing(k, {"Announce"}, "find") /\ UNCHANGED <<data, notes, touches, mishaps, touchHistory>>
      /\ \/ HandlerDone(k)
         \/ OnPost(k) \in living /\ Boosts(By(k), OnPost(k)) = {} /\ StepTo(k, "insert")
  BY DEF FindAnnounced
<1>2. Running(k) /\ task[k].op = "Announce"
  BY <1>1 DEF Doing, Running
<1>3. /\ TasksFit' /\ Proceeds(k)
      /\ \/ HandlerDone(k)
         \/ /\ OnPost(k) \in living /\ Boosts(By(k), OnPost(k)) = {}
            /\ task'[k] \in Task /\ task'[k].step = "insert" /\ task'[k].op = "Announce"
            /\ task'[k].after = task[k].after
  <2>1. CASE HandlerDone(k)
    BY <1>2, <2>1, DoneFits
  <2>2. CASE OnPost(k) \in living /\ Boosts(By(k), OnPost(k)) = {} /\ StepTo(k, "insert")
    <3>1. "insert" \in Steps \ {"drop"} /\ task[k].op \in OpsAt("insert")
      BY <1>2 DEF Steps, OpsAt
    <3> QED BY <1>2, <2>2, <3>1, StepFits
  <2> QED BY <1>1, <2>1, <2>2
<1>4. TasksSound'
  BY <1>1, <1>3, TypedFrame DEF Proceeds, TasksSound, InteractionsTypeOK, data, touchHistory
<1> QED BY <1>1, <1>3, <1>4

LEMMA InsertAnnouncedFacts ==
  ASSUME TasksSound, NEW k \in Slots, InsertAnnounced(k)
  PROVE  /\ TasksSound' /\ Proceeds(k) /\ Doing(k, {"Announce"}, "insert")
         /\ NewRow(k, "boost", FALSE) \in Row
         /\ task'[k] \in Task /\ task'[k].step = "raise" /\ task'[k].op = "Announce"
         /\ task'[k].after = task[k].after
<1>1. /\ Doing(k, {"Announce"}, "insert") /\ StepTo(k, "raise")
      /\ rows' = rows \cup {NewRow(k, "boost", FALSE)}
      /\ UNCHANGED <<living, favs, count, notes, touches, mishaps, touchHistory>>
  BY DEF InsertAnnounced
<1>2. Running(k) /\ task[k].op = "Announce" /\ InteractionsTypeOK
  BY <1>1 DEF Doing, Running, TasksSound
<1>3. "raise" \in Steps \ {"drop"} /\ task[k].op \in OpsAt("raise")
  BY <1>2 DEF Steps, OpsAt
<1>4. /\ TasksFit' /\ Proceeds(k) /\ task'[k] \in Task /\ task'[k].step = "raise"
      /\ task'[k].op = "Announce" /\ task'[k].after = task[k].after
  BY <1>1, <1>2, <1>3, StepFits
<1>5. NewRow(k, "boost", FALSE) \in Row
  BY <1>2, RowFacts
<1>6. TasksSound'
  BY <1>1, <1>4, <1>5, TypedFrame DEF Proceeds, TasksSound, InteractionsTypeOK, touchHistory
<1> QED BY <1>1, <1>4, <1>5, <1>6

LEMMA FindToUndoFacts ==
  ASSUME TasksSound, NEW k \in Slots, FindToUndo(k)
  PROVE  /\ TasksSound' /\ Proceeds(k) /\ Doing(k, {"unreblog", "UndoAnnounce"}, "find")
         /\ UNCHANGED <<data, notes, touches, mishaps, touchHistory>>
         /\ \/ HandlerDone(k)
            \/ task'[k] \in Task /\ task'[k].step = "drop" /\ task'[k].op = task[k].op
<1>1. /\ Doing(k, {"unreblog", "UndoAnnounce"}, "find")
      /\ UNCHANGED <<data, notes, touches, mishaps, touchHistory>>
      /\ \/ HandlerDone(k)
         \/ \E r \in Boosts(By(k), OnPost(k)) :
              task' = [task EXCEPT ![k].step = "drop", ![k].seen = {r}]
  BY DEF FindToUndo
<1>2. Running(k) /\ task[k].op \in {"unreblog", "UndoAnnounce"}
  BY <1>1 DEF Doing, Running
<1>3. /\ TasksFit' /\ Proceeds(k)
      /\ \/ HandlerDone(k)
         \/ task'[k] \in Task /\ task'[k].step = "drop" /\ task'[k].op = task[k].op
  <2>1. CASE HandlerDone(k)
    BY <1>2, <2>1, DoneFits
  <2>2. ASSUME NEW r \in Boosts(By(k), OnPost(k)),
               task' = [task EXCEPT ![k].step = "drop", ![k].seen = {r}]
        PROVE  /\ TasksFit' /\ Proceeds(k)
               /\ task'[k] \in Task /\ task'[k].step = "drop" /\ task'[k].op = task[k].op
    <3>1. r \in Row /\ r.kind = "boost" /\ r.actor = By(k) /\ r.post = OnPost(k)
      BY DEF Boosts, TasksSound, InteractionsTypeOK
    <3>2. PICK seen \in SUBSET Row : seen = {r}
      BY <3>1
    <3>3. \E x \in Row : seen = {x} /\ x.kind = "boost" /\ x.actor = By(k) /\ x.post = OnPost(k)
      BY <3>1, <3>2
    <3>4. task' = [task EXCEPT ![k].step = "drop", ![k].seen = seen]
      BY <2>2, <3>2
    <3> QED BY <1>2, <3>3, <3>4, TakeFits
  <2> QED BY <1>1, <2>1, <2>2
<1>4. TasksSound'
  BY <1>1, <1>3, TypedFrame DEF Proceeds, TasksSound, InteractionsTypeOK, data, touchHistory
<1> QED BY <1>1, <1>3, <1>4

LEMMA DropBoostFacts ==
  ASSUME TasksSound, NEW k \in Slots, DropBoost(k)
  PROVE  /\ TasksSound' /\ Proceeds(k) /\ Doing(k, {"unreblog", "UndoAnnounce"}, "drop")
         /\ \E r \in Row : task[k].seen = {r} /\ r.kind = "boost" /\ r.actor = By(k) /\ r.post = OnPost(k)
         /\ task'[k] \in Task /\ task'[k].step = "lower" /\ task'[k].op = task[k].op
<1>1. /\ Doing(k, {"unreblog", "UndoAnnounce"}, "drop") /\ StepTo(k, "lower")
      /\ rows' = rows \ task[k].seen
      /\ drifted' \subseteq drifted \cup {<<OnPost(k), "reblogs">>}
      /\ UNCHANGED <<living, favs, count, notes, touches, mishaps, raced, untold>>
  BY DEF DropBoost
<1>2. /\ Running(k) /\ task[k].op \in {"unreblog", "UndoAnnounce"} /\ task[k].step = "drop"
      /\ InteractionsTypeOK
  BY <1>1 DEF Doing, Running, TasksSound
<1>3. "lower" \in Steps \ {"drop"} /\ task[k].op \in OpsAt("lower")
  BY <1>2 DEF Steps, OpsAt
<1>4. /\ TasksFit' /\ Proceeds(k) /\ task'[k] \in Task
      /\ task'[k].step = "lower" /\ task'[k].op = task[k].op
  BY <1>1, <1>2, <1>3, StepFits
<1>5. SeenFits(task[k]) /\ OnPost(k) \in Posts
  BY <1>2, RunningFacts DEF TasksSound, TasksFit, TaskFits
<1>6. \E r \in Row : task[k].seen = {r} /\ r.kind = "boost" /\ r.actor = By(k) /\ r.post = OnPost(k)
  BY <1>2, <1>5 DEF SeenFits, By, OnPost
<1>7. drifted' \subseteq Posts \X Counters
  BY <1>1, <1>2, <1>5 DEF Counters, InteractionsTypeOK
<1>8. TasksSound'
  BY <1>1, <1>4, <1>7, TypedFrame DEF Proceeds, TasksSound, InteractionsTypeOK
<1> QED BY <1>1, <1>4, <1>6, <1>8

LEMMA FavouriteFacts ==
  ASSUME TasksSound, NEW k \in Slots, Favourite(k)
  PROVE  /\ TasksSound' /\ Proceeds(k) /\ Doing(k, {"favourite"}, "write")
         /\ UNCHANGED <<living, rows, notes, touches, mishaps, touchHistory>>
         /\ \/ task'[k] = Idle /\ UNCHANGED <<favs, count>>
            \/ /\ task'[k] \in Task /\ task'[k].step = "deliver" /\ task'[k].op = "favourite"
               /\ OnPost(k) \in living /\ By(k) \notin favs[OnPost(k)]
               /\ favs' = [favs EXCEPT ![OnPost(k)] = @ \cup {By(k)}]
               /\ count' = Adjusted(count, OnPost(k), "favourites", 1)
<1>1. /\ Doing(k, {"favourite"}, "write")
      /\ UNCHANGED <<living, rows, notes, touches, mishaps, touchHistory>>
      /\ \/ Return(k) /\ UNCHANGED <<favs, count>>
         \/ /\ StepTo(k, "deliver") /\ OnPost(k) \in living /\ By(k) \notin favs[OnPost(k)]
            /\ favs' = [favs EXCEPT ![OnPost(k)] = @ \cup {By(k)}]
            /\ count' = Adjusted(count, OnPost(k), "favourites", 1)
  BY DEF Favourite
<1>2. Running(k) /\ task[k].op = "favourite" /\ InteractionsTypeOK
  BY <1>1 DEF Doing, Running, TasksSound
<1>3. OnPost(k) \in Posts /\ By(k) \in Actors
  BY <1>2, RunningFacts
<1>4. CASE Return(k) /\ UNCHANGED <<favs, count>>
  <2>1. TasksFit' /\ Proceeds(k) /\ task'[k] = Idle
    BY <1>4, ReturnFits
  <2>2. TasksSound'
    BY <1>1, <1>4, <2>1, TypedFrame DEF Proceeds, TasksSound, InteractionsTypeOK, touchHistory
  <2> QED BY <1>1, <1>4, <2>1, <2>2
<1>5. CASE /\ StepTo(k, "deliver") /\ OnPost(k) \in living /\ By(k) \notin favs[OnPost(k)]
           /\ favs' = [favs EXCEPT ![OnPost(k)] = @ \cup {By(k)}]
           /\ count' = Adjusted(count, OnPost(k), "favourites", 1)
  <2>1. "deliver" \in Steps \ {"drop"} /\ task[k].op \in OpsAt("deliver")
    BY <1>2 DEF Steps, OpsAt
  <2>2. /\ TasksFit' /\ Proceeds(k) /\ task'[k] \in Task
        /\ task'[k].step = "deliver" /\ task'[k].op = "favourite"
    BY <1>2, <1>5, <2>1, StepFits
  <2>3. count' \in [Posts -> [Counters -> Nat]]
    BY <1>2, <1>3, <1>5, AdjustedFacts DEF Counters
  <2>4. favs' \in [Posts -> SUBSET Actors]
    BY <1>2, <1>3, <1>5 DEF InteractionsTypeOK
  <2>5. TasksSound'
    BY <1>1, <2>2, <2>3, <2>4, TypedFrame DEF Proceeds, TasksSound, InteractionsTypeOK, touchHistory
  <2> QED BY <1>1, <1>5, <2>2, <2>5
<1> QED BY <1>1, <1>4, <1>5

LEMMA UnfavouriteFacts ==
  ASSUME TasksSound, NEW k \in Slots, Unfavourite(k)
  PROVE  /\ TasksSound' /\ Proceeds(k) /\ Doing(k, {"unfavourite"}, "write")
         /\ UNCHANGED <<living, rows, notes, touches, mishaps, raced, untold>>
         /\ \/ task'[k] = Idle /\ UNCHANGED <<favs, count, drifted>>
            \/ /\ task'[k] \in Task /\ task'[k].step = "deliver" /\ task'[k].op = "unfavourite"
               /\ By(k) \in favs[OnPost(k)]
               /\ favs' = [favs EXCEPT ![OnPost(k)] = @ \ {By(k)}]
               /\ count' = Adjusted(count, OnPost(k), "favourites", -1)
               /\ drifted' = drifted \cup AtFloor(OnPost(k), "favourites")
<1>1. /\ Doing(k, {"unfavourite"}, "write")
      /\ UNCHANGED <<living, rows, notes, touches, mishaps, raced, untold>>
      /\ \/ Return(k) /\ UNCHANGED <<favs, count, drifted>>
         \/ /\ StepTo(k, "deliver") /\ By(k) \in favs[OnPost(k)]
            /\ favs' = [favs EXCEPT ![OnPost(k)] = @ \ {By(k)}]
            /\ count' = Adjusted(count, OnPost(k), "favourites", -1)
            /\ drifted' = drifted \cup AtFloor(OnPost(k), "favourites")
  BY DEF Unfavourite
<1>2. Running(k) /\ task[k].op = "unfavourite" /\ InteractionsTypeOK
  BY <1>1 DEF Doing, Running, TasksSound
<1>3. OnPost(k) \in Posts /\ By(k) \in Actors
  BY <1>2, RunningFacts
<1>4. CASE Return(k) /\ UNCHANGED <<favs, count, drifted>>
  <2>1. TasksFit' /\ Proceeds(k) /\ task'[k] = Idle
    BY <1>4, ReturnFits
  <2>2. TasksSound'
    BY <1>1, <1>4, <2>1, TypedFrame DEF Proceeds, TasksSound, InteractionsTypeOK
  <2> QED BY <1>1, <1>4, <2>1, <2>2
<1>5. CASE /\ StepTo(k, "deliver") /\ By(k) \in favs[OnPost(k)]
           /\ favs' = [favs EXCEPT ![OnPost(k)] = @ \ {By(k)}]
           /\ count' = Adjusted(count, OnPost(k), "favourites", -1)
           /\ drifted' = drifted \cup AtFloor(OnPost(k), "favourites")
  <2>1. "deliver" \in Steps \ {"drop"} /\ task[k].op \in OpsAt("deliver")
    BY <1>2 DEF Steps, OpsAt
  <2>2. /\ TasksFit' /\ Proceeds(k) /\ task'[k] \in Task
        /\ task'[k].step = "deliver" /\ task'[k].op = "unfavourite"
    BY <1>2, <1>5, <2>1, StepFits
  <2>3. count' \in [Posts -> [Counters -> Nat]]
    BY <1>2, <1>3, <1>5, AdjustedFacts DEF Counters
  <2>4. favs' \in [Posts -> SUBSET Actors]
    BY <1>2, <1>3, <1>5 DEF InteractionsTypeOK
  <2>5. drifted' \subseteq Posts \X Counters
    BY <1>2, <1>3, <1>5, CounterFacts DEF InteractionsTypeOK, Counters
  <2>6. TasksSound'
    BY <1>1, <2>2, <2>3, <2>4, <2>5, TypedFrame DEF Proceeds, TasksSound, InteractionsTypeOK
  <2> QED BY <1>1, <1>5, <2>2, <2>6
<1> QED BY <1>1, <1>4, <1>5

LEMMA InsertLikeFacts ==
  ASSUME TasksSound, NEW k \in Slots, InsertLike(k)
  PROVE  /\ TasksSound' /\ Proceeds(k) /\ Doing(k, {"Like"}, "insert")
         /\ UNCHANGED <<living, rows, count, notes, touches, mishaps, touchHistory>>
         /\ \/ OnPost(k) \notin living /\ task'[k] = Idle /\ UNCHANGED favs
            \/ HandlerDone(k) /\ UNCHANGED favs
            \/ /\ task'[k] \in Task /\ task'[k].step = "raise" /\ task'[k].op = "Like"
               /\ By(k) \notin favs[OnPost(k)]
               /\ favs' = [favs EXCEPT ![OnPost(k)] = @ \cup {By(k)}]
<1>1. /\ Doing(k, {"Like"}, "insert")
      /\ UNCHANGED <<living, rows, count, notes, touches, mishaps, touchHistory>>
      /\ \/ OnPost(k) \notin living /\ Return(k) /\ UNCHANGED favs
         \/ HandlerDone(k) /\ UNCHANGED favs
         \/ /\ StepTo(k, "raise") /\ By(k) \notin favs[OnPost(k)]
            /\ favs' = [favs EXCEPT ![OnPost(k)] = @ \cup {By(k)}]
  BY DEF InsertLike
<1>2. Running(k) /\ task[k].op = "Like" /\ InteractionsTypeOK
  BY <1>1 DEF Doing, Running, TasksSound
<1>3. CASE OnPost(k) \notin living /\ Return(k) /\ UNCHANGED favs
  <2>1. TasksFit' /\ Proceeds(k) /\ task'[k] = Idle
    BY <1>3, ReturnFits
  <2>2. TasksSound'
    BY <1>1, <1>3, <2>1, TypedFrame DEF Proceeds, TasksSound, InteractionsTypeOK, touchHistory
  <2> QED BY <1>1, <1>3, <2>1, <2>2
<1>4. CASE HandlerDone(k) /\ UNCHANGED favs
  <2>1. TasksFit' /\ Proceeds(k)
    BY <1>2, <1>4, DoneFits
  <2>2. TasksSound'
    BY <1>1, <1>4, <2>1, TypedFrame DEF Proceeds, TasksSound, InteractionsTypeOK, touchHistory
  <2> QED BY <1>1, <1>4, <2>1, <2>2
<1>5. CASE /\ StepTo(k, "raise") /\ By(k) \notin favs[OnPost(k)]
           /\ favs' = [favs EXCEPT ![OnPost(k)] = @ \cup {By(k)}]
  <2>1. "raise" \in Steps \ {"drop"} /\ task[k].op \in OpsAt("raise")
    BY <1>2 DEF Steps, OpsAt
  <2>2. /\ TasksFit' /\ Proceeds(k) /\ task'[k] \in Task
        /\ task'[k].step = "raise" /\ task'[k].op = "Like"
    BY <1>2, <1>5, <2>1, StepFits
  <2>3. favs' \in [Posts -> SUBSET Actors]
    BY <1>2, <1>5, RunningFacts DEF InteractionsTypeOK
  <2>4. TasksSound'
    BY <1>1, <2>2, <2>3, TypedFrame DEF Proceeds, TasksSound, InteractionsTypeOK, touchHistory
  <2> QED BY <1>1, <1>5, <2>2, <2>4
<1> QED BY <1>1, <1>3, <1>4, <1>5

LEMMA DropLikeFacts ==
  ASSUME TasksSound, NEW k \in Slots, DropLike(k)
  PROVE  /\ TasksSound' /\ Proceeds(k) /\ Doing(k, {"UndoLike"}, "drop")
         /\ UNCHANGED <<living, rows, count, notes, touches, mishaps, touchHistory>>
         /\ favs' = [favs EXCEPT ![OnPost(k)] = @ \ {By(k)}]
         /\ IF By(k) \in favs[OnPost(k)]
              THEN task'[k] \in Task /\ task'[k].step = "lower" /\ task'[k].op = "UndoLike"
              ELSE HandlerDone(k)
<1>1. /\ Doing(k, {"UndoLike"}, "drop")
      /\ UNCHANGED <<living, rows, count, notes, touches, mishaps, touchHistory>>
      /\ favs' = [favs EXCEPT ![OnPost(k)] = @ \ {By(k)}]
      /\ IF By(k) \in favs[OnPost(k)] THEN StepTo(k, "lower") ELSE HandlerDone(k)
  BY DEF DropLike
<1>2. Running(k) /\ task[k].op = "UndoLike" /\ InteractionsTypeOK
  BY <1>1 DEF Doing, Running, TasksSound
<1>3. /\ TasksFit' /\ Proceeds(k)
      /\ IF By(k) \in favs[OnPost(k)]
           THEN task'[k] \in Task /\ task'[k].step = "lower" /\ task'[k].op = "UndoLike"
           ELSE HandlerDone(k)
  <2>1. CASE By(k) \in favs[OnPost(k)]
    <3>1. "lower" \in Steps \ {"drop"} /\ task[k].op \in OpsAt("lower")
      BY <1>2 DEF Steps, OpsAt
    <3> QED BY <1>1, <1>2, <2>1, <3>1, StepFits
  <2>2. CASE By(k) \notin favs[OnPost(k)]
    BY <1>1, <1>2, <2>2, DoneFits
  <2> QED BY <2>1, <2>2
<1>4. favs' \in [Posts -> SUBSET Actors]
  BY <1>1, <1>2, RunningFacts DEF InteractionsTypeOK
<1>5. TasksSound'
  BY <1>1, <1>3, <1>4, TypedFrame DEF Proceeds, TasksSound, InteractionsTypeOK, touchHistory
<1> QED BY <1>1, <1>3, <1>5

LEMMA RaiseCountFacts ==
  ASSUME TasksSound, NEW k \in Slots, RaiseCount(k)
  PROVE  /\ TasksSound' /\ Proceeds(k)
         /\ Running(k) /\ task[k].step = "raise" /\ task[k].op \in {"Announce", "Like", "Create"}
         /\ IF task[k].op = "Create"
              THEN HandlerDone(k)
              ELSE /\ task'[k] \in Task /\ task'[k].step = "notify" /\ task'[k].op = task[k].op
                   /\ task'[k].after = task[k].after
<1>1. /\ task[k].step = "raise"
      /\ count' = Adjusted(count, OnPost(k), CounterOf(task[k].op), 1)
      /\ IF task[k].op = "Create" THEN HandlerDone(k) ELSE StepTo(k, "notify")
      /\ UNCHANGED <<living, rows, favs, notes, touches, mishaps, touchHistory>>
  BY DEF RaiseCount
<1>2. Running(k) /\ InteractionsTypeOK
  BY <1>1 DEF Running, TasksSound
<1>3. task[k].op \in {"Announce", "Like", "Create"}
  <2>1. task[k].op \in OpsAt("raise")
    BY <1>1, <1>2, RunningFacts DEF TasksSound, TasksFit, TaskFits
  <2> QED BY <2>1 DEF OpsAt
<1>4. /\ TasksFit' /\ Proceeds(k)
      /\ IF task[k].op = "Create"
           THEN HandlerDone(k)
           ELSE /\ task'[k] \in Task /\ task'[k].step = "notify" /\ task'[k].op = task[k].op
                /\ task'[k].after = task[k].after
  <2>1. CASE task[k].op = "Create"
    BY <1>1, <1>2, <2>1, DoneFits
  <2>2. CASE task[k].op # "Create"
    <3>1. "notify" \in Steps \ {"drop"} /\ task[k].op \in OpsAt("notify")
      BY <1>3, <2>2 DEF Steps, OpsAt
    <3> QED BY <1>1, <1>2, <2>2, <3>1, StepFits
  <2> QED BY <2>1, <2>2
<1>5. CounterOf(task[k].op) \in Counters /\ OnPost(k) \in Posts
  BY <1>2, RunningFacts, CounterFacts
<1>6. count' \in [Posts -> [Counters -> Nat]]
  BY <1>1, <1>2, <1>5, AdjustedFacts
<1>7. TasksSound'
  BY <1>1, <1>4, <1>6, TypedFrame DEF Proceeds, TasksSound, InteractionsTypeOK, touchHistory
<1> QED BY <1>1, <1>2, <1>3, <1>4, <1>7

LEMMA LowerCountFacts ==
  ASSUME TasksSound, NEW k \in Slots, LowerCount(k)
  PROVE  /\ TasksSound' /\ Proceeds(k) /\ Running(k) /\ task[k].step = "lower"
         /\ task[k].op \in {"unreblog", "UndoAnnounce", "UndoLike"}
         /\ \/ HandlerDone(k)
            \/ task'[k] \in Task /\ task'[k].step = "deliver" /\ task'[k].op = "unreblog"
<1>1. /\ task[k].step = "lower"
      /\ count' = Adjusted(count, OnPost(k), CounterOf(task[k].op), -1)
      /\ drifted' = drifted \cup AtFloor(OnPost(k), CounterOf(task[k].op))
      /\ IF task[k].op = "unreblog" THEN StepTo(k, "deliver") ELSE HandlerDone(k)
      /\ UNCHANGED <<living, rows, favs, notes, touches, mishaps, raced, untold>>
  BY DEF LowerCount
<1>2. Running(k) /\ InteractionsTypeOK
  BY <1>1 DEF Running, TasksSound
<1>3. task[k].op \in {"unreblog", "UndoAnnounce", "UndoLike"}
  <2>1. task[k].op \in OpsAt("lower")
    BY <1>1, <1>2, RunningFacts DEF TasksSound, TasksFit, TaskFits
  <2> QED BY <2>1 DEF OpsAt
<1>4. /\ TasksFit' /\ Proceeds(k)
      /\ \/ HandlerDone(k)
         \/ task'[k] \in Task /\ task'[k].step = "deliver" /\ task'[k].op = "unreblog"
  <2>1. CASE task[k].op # "unreblog"
    BY <1>1, <1>2, <1>3, <2>1, DoneFits
  <2>2. CASE task[k].op = "unreblog"
    <3>1. "deliver" \in Steps \ {"drop"} /\ task[k].op \in OpsAt("deliver")
      BY <2>2 DEF Steps, OpsAt
    <3> QED BY <1>1, <1>2, <2>2, <3>1, StepFits
  <2> QED BY <2>1, <2>2
<1>5. CounterOf(task[k].op) \in Counters /\ OnPost(k) \in Posts
  BY <1>2, RunningFacts, CounterFacts
<1>6. count' \in [Posts -> [Counters -> Nat]]
  BY <1>1, <1>2, <1>5, AdjustedFacts
<1>7. drifted' \subseteq Posts \X Counters
  BY <1>1, <1>2, <1>5, CounterFacts DEF InteractionsTypeOK
<1>8. TasksSound'
  BY <1>1, <1>4, <1>6, <1>7, TypedFrame DEF Proceeds, TasksSound, InteractionsTypeOK
<1> QED BY <1>1, <1>2, <1>3, <1>4, <1>8

LEMMA ReplyFacts ==
  ASSUME TasksSound, NEW k \in Slots, Reply(k)
  PROVE  /\ TasksSound' /\ Proceeds(k) /\ Doing(k, {"reply"}, "write")
         /\ NewRow(k, "reply", TRUE) \in Row
         /\ task'[k] \in Task /\ task'[k].step = "deliver" /\ task'[k].op = "reply"
<1>1. /\ Doing(k, {"reply"}, "write") /\ StepTo(k, "deliver")
      /\ rows' = rows \cup {NewRow(k, "reply", TRUE)}
      /\ count' = Adjusted(count, OnPost(k), "replies", 1)
      /\ UNCHANGED <<living, favs, notes, touches, mishaps, touchHistory>>
  BY DEF Reply
<1>2. Running(k) /\ task[k].op = "reply" /\ InteractionsTypeOK
  BY <1>1 DEF Doing, Running, TasksSound
<1>3. "deliver" \in Steps \ {"drop"} /\ task[k].op \in OpsAt("deliver")
  BY <1>2 DEF Steps, OpsAt
<1>4. /\ TasksFit' /\ Proceeds(k) /\ task'[k] \in Task
      /\ task'[k].step = "deliver" /\ task'[k].op = "reply"
  BY <1>1, <1>2, <1>3, StepFits
<1>5. NewRow(k, "reply", TRUE) \in Row /\ OnPost(k) \in Posts
  BY <1>2, RowFacts, RunningFacts
<1>6. count' \in [Posts -> [Counters -> Nat]]
  BY <1>1, <1>2, <1>5, AdjustedFacts DEF Counters
<1>7. TasksSound'
  BY <1>1, <1>4, <1>5, <1>6, TypedFrame
    DEF Proceeds, TasksSound, InteractionsTypeOK, touchHistory
<1> QED BY <1>1, <1>4, <1>5, <1>7

LEMMA InsertCreatedFacts ==
  ASSUME TasksSound, NEW k \in Slots, InsertCreated(k)
  PROVE  /\ TasksSound' /\ Proceeds(k) /\ Doing(k, {"Create"}, "insert")
         /\ UNCHANGED <<living, favs, count, notes, touches, mishaps, touchHistory>>
         /\ \/ HandlerDone(k) /\ UNCHANGED rows
            \/ /\ \A r \in rows : r.id # task[k].id
               /\ rows' = rows \cup {NewRow(k, "reply", FALSE)} /\ NewRow(k, "reply", FALSE) \in Row
               /\ task'[k] \in Task /\ task'[k].step = "raise" /\ task'[k].op = "Create"
<1>1. /\ Doing(k, {"Create"}, "insert")
      /\ UNCHANGED <<living, favs, count, notes, touches, mishaps, touchHistory>>
      /\ \/ HandlerDone(k) /\ UNCHANGED rows
         \/ /\ \A r \in rows : r.id # task[k].id
            /\ rows' = rows \cup {NewRow(k, "reply", FALSE)} /\ StepTo(k, "raise")
  BY DEF InsertCreated
<1>2. Running(k) /\ task[k].op = "Create" /\ InteractionsTypeOK
  BY <1>1 DEF Doing, Running, TasksSound
<1>3. CASE HandlerDone(k) /\ UNCHANGED rows
  <2>1. TasksFit' /\ Proceeds(k)
    BY <1>2, <1>3, DoneFits
  <2>2. TasksSound'
    BY <1>1, <1>3, <2>1, TypedFrame DEF Proceeds, TasksSound, InteractionsTypeOK, touchHistory
  <2> QED BY <1>1, <1>3, <2>1, <2>2
<1>4. CASE /\ \A r \in rows : r.id # task[k].id
           /\ rows' = rows \cup {NewRow(k, "reply", FALSE)} /\ StepTo(k, "raise")
  <2>1. "raise" \in Steps \ {"drop"} /\ task[k].op \in OpsAt("raise")
    BY <1>2 DEF Steps, OpsAt
  <2>2. /\ TasksFit' /\ Proceeds(k) /\ task'[k] \in Task
        /\ task'[k].step = "raise" /\ task'[k].op = "Create"
    BY <1>2, <1>4, <2>1, StepFits
  <2>3. NewRow(k, "reply", FALSE) \in Row
    BY <1>2, RowFacts
  <2>4. TasksSound'
    BY <1>1, <1>4, <2>2, <2>3, TypedFrame DEF Proceeds, TasksSound, InteractionsTypeOK, touchHistory
  <2> QED BY <1>1, <1>4, <2>2, <2>3, <2>4
<1> QED BY <1>1, <1>3, <1>4

LEMMA RemoveReplyFacts ==
  ASSUME TasksSound, NEW k \in Slots, RemoveReply(k)
  PROVE  /\ TasksSound' /\ Proceeds(k) /\ Doing(k, {"remove"}, "drop") /\ task'[k] = Idle
         /\ \E r \in Row : task[k].seen = {r} /\ r.kind = "reply" /\ r.actor = By(k) /\ r.post = OnPost(k)
<1> DEFINE hit == task[k].seen \cap rows # {}
<1>1. /\ Doing(k, {"remove"}, "drop") /\ Return(k)
      /\ rows' = rows \ task[k].seen
      /\ count' = IF hit THEN Adjusted(count, OnPost(k), "replies", -1) ELSE count
      /\ drifted' = IF hit THEN drifted \cup AtFloor(OnPost(k), "replies") ELSE drifted
      /\ UNCHANGED <<living, favs, notes, touches, mishaps, raced, untold>>
  BY DEF RemoveReply
<1>2. Running(k) /\ task[k].op = "remove" /\ task[k].step = "drop" /\ InteractionsTypeOK
  BY <1>1 DEF Doing, Running, TasksSound
<1>3. TasksFit' /\ Proceeds(k) /\ task'[k] = Idle
  BY <1>1, ReturnFits
<1>4. SeenFits(task[k]) /\ OnPost(k) \in Posts
  BY <1>2, RunningFacts DEF TasksSound, TasksFit, TaskFits
<1>5. \E r \in Row : task[k].seen = {r} /\ r.kind = "reply" /\ r.actor = By(k) /\ r.post = OnPost(k)
  BY <1>2, <1>4 DEF SeenFits, By, OnPost
<1> HIDE DEF hit
<1>6. count' \in [Posts -> [Counters -> Nat]]
  <2>1. Adjusted(count, OnPost(k), "replies", -1) \in [Posts -> [Counters -> Nat]]
    BY <1>2, <1>4, AdjustedFacts DEF Counters
  <2> QED BY <1>1, <1>2, <2>1 DEF InteractionsTypeOK
<1>7. drifted' \subseteq Posts \X Counters
  BY <1>1, <1>2, <1>4, CounterFacts DEF InteractionsTypeOK, Counters
<1>8. TasksSound'
  BY <1>1, <1>3, <1>6, <1>7, TypedFrame DEF Proceeds, TasksSound, InteractionsTypeOK
<1> QED BY <1>1, <1>3, <1>5, <1>8

LEMMA ScanBoostsFacts ==
  ASSUME TasksSound, NEW k \in Slots, ScanBoosts(k)
  PROVE  /\ TasksSound' /\ Proceeds(k) /\ Doing(k, {"delete"}, "scan")
         /\ UNCHANGED <<data, notes, touches, mishaps, touchHistory>>
         /\ task'[k] \in Task /\ task'[k].step = "drop" /\ task'[k].op = "delete"
         /\ task'[k].seen = {r \in rows : r.kind = "boost" /\ r.post = OnPost(k)}
<1>1. /\ Doing(k, {"delete"}, "scan") /\ UNCHANGED <<data, notes, touches, mishaps, touchHistory>>
      /\ task' = [task EXCEPT ![k].step = "drop",
           ![k].seen = {r \in rows : r.kind = "boost" /\ r.post = OnPost(k)}]
  BY DEF ScanBoosts
<1>2. Running(k) /\ task[k].op = "delete" /\ rows \subseteq Row
  BY <1>1 DEF Doing, Running, TasksSound, InteractionsTypeOK
<1>3. PICK seen \in SUBSET Row : seen = {r \in rows : r.kind = "boost" /\ r.post = OnPost(k)}
  BY <1>2
<1>4. task' = [task EXCEPT ![k].step = "drop", ![k].seen = seen]
  BY <1>1, <1>3
<1>5. \A r \in seen : r.kind = "boost" /\ r.post = OnPost(k)
  BY <1>3
<1>6. /\ TasksFit' /\ Proceeds(k) /\ task'[k] \in Task
      /\ task'[k].step = "drop" /\ task'[k].op = "delete" /\ task'[k].seen = seen
  BY <1>2, <1>4, <1>5, TakeFits
<1>7. TasksSound'
  BY <1>1, <1>6, TypedFrame DEF Proceeds, TasksSound, InteractionsTypeOK, data, touchHistory
<1> QED BY <1>1, <1>3, <1>6, <1>7

LEMMA DeletePostFacts ==
  ASSUME TasksSound, NEW k \in Slots, DeletePost(k)
  PROVE  /\ TasksSound' /\ Proceeds(k) /\ Doing(k, {"delete"}, "drop") /\ task'[k] = Idle
         /\ \A r \in task[k].seen : r.kind = "boost" /\ r.post = OnPost(k)
<1>1. /\ Doing(k, {"delete"}, "drop") /\ Return(k)
      /\ living' = living \ {OnPost(k)} /\ rows' = rows \ task[k].seen
      /\ favs' = [favs EXCEPT ![OnPost(k)] = {}]
      /\ UNCHANGED <<count, notes, touches, mishaps, touchHistory>>
  BY DEF DeletePost
<1>2. Running(k) /\ task[k].op = "delete" /\ task[k].step = "drop" /\ InteractionsTypeOK
  BY <1>1 DEF Doing, Running, TasksSound
<1>3. TasksFit' /\ Proceeds(k) /\ task'[k] = Idle
  BY <1>1, ReturnFits
<1>4. \A r \in task[k].seen : r.kind = "boost" /\ r.post = OnPost(k)
  BY <1>2, RunningFacts DEF TasksSound, TasksFit, TaskFits, SeenFits, OnPost
<1>5. favs' \in [Posts -> SUBSET Actors]
  BY <1>1, <1>2 DEF InteractionsTypeOK
<1>6. TasksSound'
  BY <1>1, <1>3, <1>5, TypedFrame DEF Proceeds, TasksSound, InteractionsTypeOK, touchHistory
<1> QED BY <1>1, <1>3, <1>4, <1>6

LEMMA DeliverFacts ==
  ASSUME TasksSound, NEW k \in Slots, Deliver(k)
  PROVE  /\ TasksSound' /\ Proceeds(k) /\ Running(k) /\ task[k].step = "deliver"
         /\ task[k].op \in {"reblog", "unreblog", "favourite", "unfavourite", "reply"}
         /\ UNCHANGED <<data, notes, touches, mishaps, touchHistory>>
         /\ \/ /\ task'[k] \in Task /\ task'[k].step = FirstStepOf(EchoOf(task[k].op))
               /\ task'[k].op = EchoOf(task[k].op) /\ task'[k].after = AfterEcho(task[k].op)
               /\ By(k) \in Members
            \/ task[k].op = "reblog" /\ task'[k] \in Task /\ task'[k].step = "notify" /\ task'[k].op = "reblog"
            \/ task[k].op = "reply" /\ task'[k] = Idle
<1>1. PICK op : op = task[k].op
  OBVIOUS
<1>2. /\ task[k].step = "deliver" /\ UNCHANGED <<data, notes, touches, mishaps, touchHistory>>
      /\ \/ task' = [task EXCEPT ![k].op = EchoOf(op), ![k].step = FirstStepOf(EchoOf(op)),
                                 ![k].after = AfterEcho(op)]
         \/ op = "reblog" /\ StepTo(k, "notify")
         \/ op = "reply" /\ Return(k)
  BY <1>1 DEF Deliver
<1>3. Running(k)
  BY <1>2 DEF Running
<1>4. op \in OpsAt("deliver") /\ op \in {"reblog", "unreblog", "favourite", "unfavourite", "reply"}
  <2>1. op \in OpsAt("deliver")
    BY <1>1, <1>2, <1>3, RunningFacts DEF TasksSound, TasksFit, TaskFits
  <2> QED BY <2>1 DEF OpsAt
<1>5. /\ TasksFit' /\ Proceeds(k)
      /\ \/ /\ task'[k] \in Task /\ task'[k].step = FirstStepOf(EchoOf(op))
            /\ task'[k].op = EchoOf(op) /\ task'[k].after = AfterEcho(op)
            /\ By(k) \in Members
         \/ op = "reblog" /\ task'[k] \in Task /\ task'[k].step = "notify" /\ task'[k].op = "reblog"
         \/ op = "reply" /\ task'[k] = Idle
  <2>1. CASE task' = [task EXCEPT ![k].op = EchoOf(op), ![k].step = FirstStepOf(EchoOf(op)),
                                  ![k].after = AfterEcho(op)]
    BY <1>1, <1>3, <1>4, <2>1, EchoFits
  <2>2. CASE op = "reblog" /\ StepTo(k, "notify")
    <3>1. "notify" \in Steps \ {"drop"} /\ task[k].op \in OpsAt("notify")
      BY <1>1, <2>2 DEF Steps, OpsAt
    <3> QED BY <1>1, <1>3, <2>2, <3>1, StepFits
  <2>3. CASE op = "reply" /\ Return(k)
    BY <2>3, ReturnFits
  <2> QED BY <1>2, <2>1, <2>2, <2>3
<1>6. TasksSound'
  BY <1>2, <1>5, TypedFrame DEF Proceeds, TasksSound, InteractionsTypeOK, data, touchHistory
<1> QED BY <1>1, <1>2, <1>3, <1>4, <1>5, <1>6

LEMMA NotifyFacts ==
  ASSUME TasksSound, NEW k \in Slots, Notify(k)
  PROVE  /\ TasksSound' /\ Proceeds(k) /\ HandlerDone(k) /\ Running(k) /\ task[k].step = "notify"
         /\ task[k].op \in {"reblog", "favourite", "Announce", "Like"}
         /\ CounterOf(task[k].op) \in {"reblogs", "favourites"}
         /\ UNCHANGED <<data, touches, mishaps, raced, drifted>>
<1> DEFINE about == CounterOf(task[k].op)
           key   == <<about, OnPost(k), By(k)>>
           note  == [about |-> about, post |-> OnPost(k), from |-> By(k),
                     local |-> task[k].op \in ApiOps]
<1>1. /\ task[k].step = "notify" /\ HandlerDone(k) /\ UNCHANGED <<data, touches, mishaps, raced, drifted>>
      /\ notes' \subseteq notes \cup {note} /\ untold' \subseteq untold \cup {key}
  BY DEF Notify
<1>2. Running(k) /\ InteractionsTypeOK
  BY <1>1 DEF Running, TasksSound
<1>3. task[k].op \in {"reblog", "favourite", "Announce", "Like"}
  <2>1. task[k].op \in OpsAt("notify")
    BY <1>1, <1>2, RunningFacts DEF TasksSound, TasksFit, TaskFits
  <2> QED BY <2>1 DEF OpsAt
<1>4. about \in {"reblogs", "favourites"} /\ about \in Counters
  BY <1>3, CounterFacts DEF Counters
<1>5. TasksFit' /\ Proceeds(k)
  BY <1>1, <1>2, <1>3, DoneFits
<1>6. OnPost(k) \in Posts /\ By(k) \in Actors
  BY <1>2, RunningFacts
<1>7. note \in Note /\ key \in Counters \X Posts \X Actors
  BY <1>4, <1>6 DEF Note
<1> HIDE DEF note, key
<1>8. TasksSound'
  BY <1>1, <1>5, <1>7, TypedFrame DEF Proceeds, TasksSound, InteractionsTypeOK, data
<1> QED BY <1>1, <1>2, <1>3, <1>4, <1>5, <1>8

LEMMA DismissedFacts ==
  ASSUME TasksSound, NEW gone \in SUBSET notes, Dismissed(gone)
  PROVE  TasksSound' /\ UNCHANGED <<data, task, touches, mishaps, raced, drifted>>
<1>1. /\ notes' = notes \ gone /\ untold' = untold \cup {<<n.about, n.post, n.from>> : n \in gone}
      /\ UNCHANGED <<data, task, touches, mishaps, raced, drifted>>
  BY DEF Dismissed
<1>2. \A n \in gone : n.about \in Counters /\ n.post \in Posts /\ n.from \in Actors
  BY DEF TasksSound, InteractionsTypeOK, Note, Counters
<1>3. untold' \subseteq Counters \X Posts \X Actors
  BY <1>1, <1>2 DEF TasksSound, InteractionsTypeOK
<1>4. TasksFit'
  BY <1>1 DEF TasksSound, TasksFit
<1>5. TasksSound'
  BY <1>1, <1>3, <1>4, TypedFrame DEF TasksSound, InteractionsTypeOK, data
<1> QED BY <1>1, <1>5

LEMMA AbandonFacts ==
  ASSUME TasksSound, NEW k \in Slots, Abandon(k)
  PROVE  /\ TasksSound' /\ Proceeds(k) /\ Running(k) /\ task'[k] = Idle
         /\ OnPost(k) \in Posts /\ CounterOf(task[k].op) \in Counters
         /\ UNCHANGED <<data, notes, touches, raced>>
<1>1. /\ Running(k) /\ mishaps < MaxMishaps /\ mishaps' = mishaps + 1 /\ Return(k)
      /\ drifted' \subseteq drifted \cup {<<OnPost(k), CounterOf(task[k].op)>>}
      /\ untold' = untold \cup {<<CounterOf(task[k].op), OnPost(k), By(k)>>}
      /\ UNCHANGED <<data, notes, touches, raced>>
  BY DEF Abandon
<1>2. TasksFit' /\ Proceeds(k) /\ task'[k] = Idle
  BY <1>1, ReturnFits
<1>3. OnPost(k) \in Posts /\ By(k) \in Actors /\ CounterOf(task[k].op) \in Counters
  BY <1>1, RunningFacts, CounterFacts DEF TasksSound
<1>4. mishaps' \in 0..MaxMishaps
  BY <1>1, InteractionsAssumption DEF TasksSound, InteractionsTypeOK
<1>5. drifted' \subseteq Posts \X Counters
  BY <1>1, <1>3 DEF TasksSound, InteractionsTypeOK
<1>6. untold' \subseteq Counters \X Posts \X Actors
  BY <1>1, <1>3 DEF TasksSound, InteractionsTypeOK
<1>7. TasksSound'
  BY <1>1, <1>2, <1>4, <1>5, <1>6, TypedFrame DEF Proceeds, TasksSound, InteractionsTypeOK, data
<1> QED BY <1>1, <1>2, <1>3, <1>7

(* A call begins: both actions that begin one.                             *)
Begins(k) ==
  \/ \E op \in ApiOps \cup HandlerOps, a \in Actors, p \in Posts : Touch(k, op, a, p)
  \/ \E r \in rows : TouchReply(k, r)

LEMMA BeginsFacts ==
  ASSUME TasksSound, NEW k \in Slots, Begins(k)
  PROVE  \E op \in Ops, a \in Actors, p \in Posts, seen \in SUBSET Row :
           /\ Enter(k, op, a, p, seen)
           /\ op \in ApiOps => a \in Members
           /\ op # "remove" => op \in ApiOps \cup HandlerOps /\ p \in living
           /\ op \in HandlerOps => a \notin Members
           /\ op = "remove" => \E r \in Row : seen = {r} /\ r.kind = "reply" /\ r.actor = a /\ r.post = p
<1>1. ASSUME NEW op \in ApiOps \cup HandlerOps, NEW a \in Actors, NEW p \in Posts, Touch(k, op, a, p)
      PROVE  /\ Enter(k, op, a, p, {}) /\ p \in living /\ op # "remove" /\ op \in Ops
             /\ op \in ApiOps => a \in Members
             /\ op \in HandlerOps => a \notin Members
  BY <1>1 DEF Touch, ApiOps, HandlerOps, Ops
<1>2. ASSUME NEW r \in rows, TouchReply(k, r)
      PROVE  /\ Enter(k, "remove", r.actor, r.post, {r}) /\ "remove" \notin ApiOps
             /\ r \in Row /\ r.kind = "reply" /\ r.actor \in Actors /\ r.post \in Posts
             /\ "remove" \in Ops /\ "remove" \notin HandlerOps
  <2>1. Enter(k, "remove", r.actor, r.post, {r}) /\ r.kind = "reply"
    BY <1>2 DEF TouchReply
  <2>2. r \in Row /\ r.actor \in Actors /\ r.post \in Posts
    BY DEF TasksSound, InteractionsTypeOK, Row
  <2>3. "remove" \notin ApiOps /\ "remove" \in Ops /\ "remove" \notin HandlerOps
    BY DEF ApiOps, HandlerOps, Ops
  <2> QED BY <2>1, <2>2, <2>3
<1>3. CASE \E op \in ApiOps \cup HandlerOps, a \in Actors, p \in Posts : Touch(k, op, a, p)
  <2>1. PICK op \in ApiOps \cup HandlerOps, a \in Actors, p \in Posts : Touch(k, op, a, p)
    BY <1>3
  <2>2. PICK seen \in SUBSET Row : seen = {}
    OBVIOUS
  <2>3. Enter(k, op, a, p, seen)
    BY <1>1, <2>1, <2>2
  <2> QED BY <1>1, <2>1, <2>3
<1>4. CASE \E r \in rows : TouchReply(k, r)
  <2>1. PICK r \in rows : TouchReply(k, r)
    BY <1>4
  <2>2. PICK seen \in SUBSET Row : seen = {r}
    BY <1>2, <2>1
  <2>3. \E x \in Row : seen = {x} /\ x.kind = "reply" /\ x.actor = r.actor /\ x.post = r.post
    BY <1>2, <2>1, <2>2
  <2>4. Enter(k, "remove", r.actor, r.post, seen)
    BY <1>2, <2>1, <2>2
  <2> QED BY <1>2, <2>1, <2>3, <2>4
<1> QED BY <1>3, <1>4 DEF Begins

-----------------------------------------------------------------------------
(* Interactions: rows and counters                                         *)

(* Every request numbers its rows by itself.                               *)
IdsAreOwn ==
  /\ \A r \in rows : r.id <= touches
  /\ \A k \in Slots : Running(k) => task[k].id <= touches
  /\ \A j, k \in Slots : Running(j) /\ Running(k) /\ task[j].id = task[k].id => j = k

(* A row with the number of request t is none that t has still to insert.  *)
NoneToCome(t, r) ==
  /\ ~(t.op \in {"reblog", "reply"} /\ t.step \in {"find", "write"})
  /\ \/ t.op = "reblog" /\ t.step = "deliver"
     \/ t.op = "Announce" /\ t.step \in {"find", "insert"}
     => r.local

RowsAreNew ==
  \A k \in Slots : \A r \in rows :
    Running(k) /\ r.id = task[k].id => NoneToCome(task[k], r)

CountsSound ==
  TasksSound /\ IdsAreOwn /\ RowsAreNew /\ TablesAreFinite /\ CountersMatch

LEMMA NumbersProceed ==
  ASSUME TasksSound, TasksSound', IdsAreOwn, RowsAreNew, NEW k \in Slots, Running(k), Proceeds(k),
         touches' = touches, \A r \in rows' : r \in rows \/ r.id = task[k].id,
         task'[k] # Idle => \A r \in rows' : r.id = task[k].id => NoneToCome(task'[k], r)
  PROVE  IdsAreOwn' /\ RowsAreNew'
<1>1. \A j \in Slots : Running(j)' <=> task'[j] # Idle
  BY RunningFacts, TaskKinds DEF TasksSound, InteractionsTypeOK, Running
<1>2. \A j \in Slots : task'[j] # Idle => Running(j) /\ task'[j].id = task[j].id
  BY RunningFacts DEF Proceeds, TasksSound
<1>3. IdsAreOwn'
  BY <1>1, <1>2 DEF IdsAreOwn
<1>4. ASSUME NEW j \in Slots, NEW r \in rows', task'[j] # Idle, r.id = task'[j].id
      PROVE  NoneToCome(task'[j], r)
  <2>1. CASE j = k
    BY <1>2, <1>4, <2>1
  <2>2. CASE j # k
    <3>1. task'[j] = task[j] /\ Running(j) /\ task[j].id # task[k].id
      BY <1>2, <1>4, <2>2 DEF Proceeds, IdsAreOwn
    <3> QED BY <1>4, <3>1 DEF RowsAreNew
  <2> QED BY <2>1, <2>2
<1> QED BY <1>1, <1>3, <1>4 DEF RowsAreNew

LEMMA NothingToCome ==
  ASSUME NEW t, t.step \in {"drop", "raise", "lower", "notify", "scan"} \/ t.op \notin {"reblog", "reply", "Announce"}
                \/ (t.op = "reply" /\ t.step = "deliver")
  PROVE  \A r : NoneToCome(t, r)
  BY DEF NoneToCome

LEMMA NumbersBegin ==
  ASSUME TasksSound, TasksSound', IdsAreOwn, RowsAreNew, NEW k \in Slots,
         \A j \in Slots \ {k} : task'[j] = task[j],
         task'[k].id = touches + 1, touches' = touches + 1, rows' = rows
  PROVE  IdsAreOwn' /\ RowsAreNew'
<1>1. touches \in Nat /\ \A r \in rows : r.id \in Nat
  BY InteractionsAssumption DEF TasksSound, InteractionsTypeOK, Row
<1>2. \A j \in Slots \ {k} : Running(j)' <=> Running(j)
  BY DEF Running
<1>3. \A j \in Slots : Running(j) => task[j].id \in Nat
  BY RunningFacts DEF TasksSound
<1>4. \A r \in rows : r.id # touches + 1 /\ r.id <= touches + 1
  BY <1>1 DEF IdsAreOwn
<1>5. \A j \in Slots \ {k} : Running(j) => task[j].id # touches + 1 /\ task[j].id <= touches + 1
  BY <1>1, <1>3 DEF IdsAreOwn
<1>6. IdsAreOwn'
  BY <1>1, <1>2, <1>4, <1>5 DEF IdsAreOwn
<1>7. RowsAreNew'
  BY <1>2, <1>4 DEF RowsAreNew
<1> QED BY <1>6, <1>7

-----------------------------------------------------------------------------
Weighs(t, p, c, step) == t.step = step /\ t.post = p /\ CounterOf(t.op) = c

(* The change of the counter a request has still to make.                  *)
Load(t, p, c) == IF Weighs(t, p, c, "raise") THEN 1 ELSE IF Weighs(t, p, c, "lower") THEN -1 ELSE 0

LEMMA PendingMoves ==
  ASSUME NEW k \in Slots, \A j \in Slots \ {k} : task'[j] = task[j],
         NEW p, NEW c, NEW step
  PROVE  /\ Pending(p, c, step) \in Nat /\ Pending(p, c, step)' \in Nat
         /\ (Weighs(task[k], p, c, step) <=> Weighs(task'[k], p, c, step))
              => Pending(p, c, step)' = Pending(p, c, step)
         /\ Weighs(task[k], p, c, step) /\ ~Weighs(task'[k], p, c, step)
              => Pending(p, c, step)' = Pending(p, c, step) - 1
         /\ ~Weighs(task[k], p, c, step) /\ Weighs(task'[k], p, c, step)
              => Pending(p, c, step)' = Pending(p, c, step) + 1
<1>1. PICK S : S = {j \in Slots : task[j].step = step /\ OnPost(j) = p /\ CounterOf(task[j].op) = c}
  OBVIOUS
<1>2. PICK T : T = {j \in Slots : task'[j].step = step /\ OnPost(j)' = p /\ CounterOf(task'[j].op) = c}
  OBVIOUS
<1>3. Pending(p, c, step) = Cardinality(S)
  BY <1>1 DEF Pending
<1>4. Pending(p, c, step)' = Cardinality(T)
  BY <1>2 DEF Pending, CounterOf
<1>5. IsFiniteSet(S) /\ IsFiniteSet(T) /\ Cardinality(S) \in Nat /\ Cardinality(T) \in Nat
  <2>1. IsFiniteSet(Slots) /\ S \subseteq Slots /\ T \subseteq Slots
    BY <1>1, <1>2, InteractionsAssumption
  <2> QED BY <2>1, FS_Subset, FS_CardinalityType
<1>6. \A j \in Slots \ {k} : j \in S <=> j \in T
  BY <1>1, <1>2 DEF OnPost
<1>7. (k \in S <=> Weighs(task[k], p, c, step)) /\ (k \in T <=> Weighs(task'[k], p, c, step))
  BY <1>1, <1>2 DEF OnPost, Weighs
<1>8. S \subseteq Slots /\ T \subseteq Slots
  BY <1>1, <1>2
<1>9. (k \in S <=> k \in T) => S = T
  BY <1>6, <1>8
<1>10. k \in S /\ k \notin T => Cardinality(T) = Cardinality(S) - 1
  <2> SUFFICES ASSUME k \in S, k \notin T PROVE Cardinality(T) = Cardinality(S) - 1
    OBVIOUS
  <2>1. T = S \ {k}
    BY <1>6, <1>8
  <2> QED BY <1>5, <2>1, FS_RemoveElement
<1>11. k \notin S /\ k \in T => Cardinality(T) = Cardinality(S) + 1
  <2> SUFFICES ASSUME k \notin S, k \in T PROVE Cardinality(T) = Cardinality(S) + 1
    OBVIOUS
  <2>1. T = S \cup {k}
    BY <1>6, <1>8
  <2> QED BY <1>5, <2>1, FS_AddElement
<1> QED BY <1>3, <1>4, <1>5, <1>7, <1>9, <1>10, <1>11

(* The counter a row stands in.                                            *)
CounterOfKind(kind) == IF kind = "boost" THEN "reblogs" ELSE "replies"

LEMMA StandingTypes ==
  ASSUME TablesAreFinite, NEW p \in Posts, NEW c \in Counters
  PROVE  Standing(p, c) \in Nat
<1>1. IsFiniteSet({r \in rows : r.kind = "boost" /\ r.post = p})
  BY FS_Subset DEF TablesAreFinite
<1>2. IsFiniteSet({r \in rows : r.kind = "reply" /\ r.post = p})
  BY FS_Subset DEF TablesAreFinite
<1>3. IsFiniteSet(favs[p])
  BY DEF TablesAreFinite
<1>4. CASE c = "favourites"
  BY <1>3, <1>4, FS_CardinalityType DEF Standing
<1>5. CASE c = "reblogs"
  BY <1>1, <1>5, FS_CardinalityType DEF Standing
<1>6. CASE c = "replies"
  BY <1>2, <1>6, FS_CardinalityType DEF Standing
<1> QED BY <1>4, <1>5, <1>6 DEF Counters

LEMMA StandingTypesNext ==
  ASSUME TablesAreFinite', NEW p \in Posts, NEW c \in Counters
  PROVE  Standing(p, c)' \in Nat
<1>1. IsFiniteSet({r \in rows' : r.kind = "boost" /\ r.post = p})
  BY FS_Subset DEF TablesAreFinite
<1>2. IsFiniteSet({r \in rows' : r.kind = "reply" /\ r.post = p})
  BY FS_Subset DEF TablesAreFinite
<1>3. IsFiniteSet(favs'[p])
  BY DEF TablesAreFinite
<1>4. CASE c = "favourites"
  BY <1>3, <1>4, FS_CardinalityType DEF Standing
<1>5. CASE c = "reblogs"
  BY <1>1, <1>5, FS_CardinalityType DEF Standing
<1>6. CASE c = "replies"
  BY <1>2, <1>6, FS_CardinalityType DEF Standing
<1> QED BY <1>4, <1>5, <1>6 DEF Counters

LEMMA RowAdded ==
  ASSUME TablesAreFinite, UNCHANGED favs, NEW r \in Row, r \notin rows, rows' = rows \cup {r}
  PROVE  /\ TablesAreFinite'
         /\ \A p \in Posts, c \in Counters :
              Standing(p, c)' = Standing(p, c)
                                + IF p = r.post /\ c = CounterOfKind(r.kind) THEN 1 ELSE 0
<1> DEFINE Of2(S, p, kind) == {x \in S : x.kind = kind /\ x.post = p}
<1>1. TablesAreFinite'
  BY FS_AddElement DEF TablesAreFinite
<1>2. ASSUME NEW p \in Posts, NEW kind \in {"boost", "reply"}
      PROVE  /\ Cardinality(Of2(rows, p, kind)) \in Nat
             /\ Cardinality(Of2(rows', p, kind)) = Cardinality(Of2(rows, p, kind))
                                             + IF p = r.post /\ kind = r.kind THEN 1 ELSE 0
  <2>1. PICK S : S = Of2(rows, p, kind)
    OBVIOUS
  <2>2. IsFiniteSet(S) /\ Cardinality(S) \in Nat
    BY <2>1, FS_Subset, FS_CardinalityType DEF TablesAreFinite
  <2>3. CASE p = r.post /\ kind = r.kind
    <3>1. Of2(rows', p, kind) = S \cup {r} /\ r \notin S
      BY <2>1, <2>3
    <3>2. Cardinality(S \cup {r}) = Cardinality(S) + 1
      BY <2>2, <3>1, FS_AddElement
    <3> HIDE DEF Of2
    <3> QED BY <2>1, <2>2, <2>3, <3>1, <3>2
  <2>4. CASE ~(p = r.post /\ kind = r.kind)
    <3>1. Of2(rows', p, kind) = S
      BY <2>1, <2>4
    <3> HIDE DEF Of2
    <3> QED BY <2>1, <2>2, <2>4, <3>1
  <2> QED BY <2>3, <2>4
<1>3. \A p \in Posts : /\ Standing(p, "reblogs") = Cardinality(Of2(rows, p, "boost"))
                       /\ Standing(p, "reblogs")' = Cardinality(Of2(rows', p, "boost"))
                       /\ Standing(p, "replies") = Cardinality(Of2(rows, p, "reply"))
                       /\ Standing(p, "replies")' = Cardinality(Of2(rows', p, "reply"))
                       /\ Standing(p, "favourites")' = Standing(p, "favourites")
  BY DEF Standing
<1>4. r.kind \in {"boost", "reply"}
  BY DEF Row
<1> HIDE DEF Of2
<1>5. ASSUME NEW p \in Posts, NEW c \in Counters
      PROVE  Standing(p, c)' = Standing(p, c)
                               + IF p = r.post /\ c = CounterOfKind(r.kind) THEN 1 ELSE 0
  <2>1. CASE c = "reblogs"
    <3>1. Standing(p, "reblogs")' = Standing(p, "reblogs") + IF p = r.post /\ "boost" = r.kind THEN 1 ELSE 0
      BY <1>2, <1>3
    <3> QED BY <1>4, <2>1, <3>1 DEF CounterOfKind
  <2>2. CASE c = "replies"
    <3>1. Standing(p, "replies")' = Standing(p, "replies") + IF p = r.post /\ "reply" = r.kind THEN 1 ELSE 0
      BY <1>2, <1>3
    <3> QED BY <1>4, <2>2, <3>1 DEF CounterOfKind
  <2>3. CASE c = "favourites"
    <3>1. Standing(p, "favourites")' = Standing(p, "favourites") /\ Standing(p, "favourites") \in Nat
      BY <1>3, StandingTypes DEF Counters
    <3> QED BY <2>3, <3>1 DEF CounterOfKind
  <2> QED BY <2>1, <2>2, <2>3 DEF Counters
<1> QED BY <1>1, <1>5

LEMMA RowsDropped ==
  ASSUME TablesAreFinite, UNCHANGED favs, NEW r \in Row, rows' = rows \ {r}
  PROVE  /\ TablesAreFinite'
         /\ \A p \in Posts, c \in Counters :
              Standing(p, c)' = Standing(p, c)
                  - IF r \in rows /\ p = r.post /\ c = CounterOfKind(r.kind) THEN 1 ELSE 0
<1> DEFINE Of2(S, p, kind) == {x \in S : x.kind = kind /\ x.post = p}
<1>1. TablesAreFinite'
  BY FS_RemoveElement DEF TablesAreFinite
<1>2. ASSUME NEW p \in Posts, NEW kind \in {"boost", "reply"}
      PROVE  /\ Cardinality(Of2(rows, p, kind)) \in Nat
             /\ Cardinality(Of2(rows', p, kind)) = Cardinality(Of2(rows, p, kind))
                        - IF r \in rows /\ p = r.post /\ kind = r.kind THEN 1 ELSE 0
  <2>1. PICK S : S = Of2(rows, p, kind)
    OBVIOUS
  <2>2. IsFiniteSet(S) /\ Cardinality(S) \in Nat
    BY <2>1, FS_Subset, FS_CardinalityType DEF TablesAreFinite
  <2>3. CASE r \in rows /\ p = r.post /\ kind = r.kind
    <3>1. Of2(rows', p, kind) = S \ {r} /\ r \in S
      BY <2>1, <2>3
    <3>2. Cardinality(S \ {r}) = Cardinality(S) - 1
      BY <2>2, <3>1, FS_RemoveElement
    <3> HIDE DEF Of2
    <3> QED BY <2>1, <2>2, <2>3, <3>1, <3>2
  <2>4. CASE ~(r \in rows /\ p = r.post /\ kind = r.kind)
    <3>1. Of2(rows', p, kind) = S
      BY <2>1, <2>4
    <3> HIDE DEF Of2
    <3> QED BY <2>1, <2>2, <2>4, <3>1
  <2> QED BY <2>3, <2>4
<1>3. \A p \in Posts : /\ Standing(p, "reblogs") = Cardinality(Of2(rows, p, "boost"))
                       /\ Standing(p, "reblogs")' = Cardinality(Of2(rows', p, "boost"))
                       /\ Standing(p, "replies") = Cardinality(Of2(rows, p, "reply"))
                       /\ Standing(p, "replies")' = Cardinality(Of2(rows', p, "reply"))
                       /\ Standing(p, "favourites")' = Standing(p, "favourites")
  BY DEF Standing
<1>4. r.kind \in {"boost", "reply"}
  BY DEF Row
<1> HIDE DEF Of2
<1>5. ASSUME NEW p \in Posts, NEW c \in Counters
      PROVE  Standing(p, c)' = Standing(p, c)
                  - IF r \in rows /\ p = r.post /\ c = CounterOfKind(r.kind) THEN 1 ELSE 0
  <2>1. CASE c = "reblogs"
    <3>1. Standing(p, "reblogs")' = Standing(p, "reblogs")
                   - IF r \in rows /\ p = r.post /\ "boost" = r.kind THEN 1 ELSE 0
      BY <1>2, <1>3
    <3> QED BY <1>4, <2>1, <3>1 DEF CounterOfKind
  <2>2. CASE c = "replies"
    <3>1. Standing(p, "replies")' = Standing(p, "replies")
                   - IF r \in rows /\ p = r.post /\ "reply" = r.kind THEN 1 ELSE 0
      BY <1>2, <1>3
    <3> QED BY <1>4, <2>2, <3>1 DEF CounterOfKind
  <2>3. CASE c = "favourites"
    <3>1. Standing(p, "favourites")' = Standing(p, "favourites") /\ Standing(p, "favourites") \in Nat
      BY <1>3, StandingTypes DEF Counters
    <3> QED BY <2>3, <3>1 DEF CounterOfKind
  <2> QED BY <2>1, <2>2, <2>3 DEF Counters
<1> QED BY <1>1, <1>5

LEMMA FavAdded ==
  ASSUME InteractionsTypeOK, TablesAreFinite, UNCHANGED rows, NEW p \in Posts, NEW a,
         favs' = [favs EXCEPT ![p] = @ \cup {a}], a \notin favs[p]
  PROVE  /\ TablesAreFinite'
         /\ \A q \in Posts, c \in Counters :
              Standing(q, c)' = Standing(q, c) + IF q = p /\ c = "favourites" THEN 1 ELSE 0
<1>1. favs \in [Posts -> SUBSET Actors] /\ IsFiniteSet(favs[p]) /\ Cardinality(favs[p]) \in Nat
  BY FS_CardinalityType DEF InteractionsTypeOK, TablesAreFinite
<1>2. favs'[p] = favs[p] \cup {a} /\ \A q \in Posts \ {p} : favs'[q] = favs[q]
  BY <1>1
<1>3. /\ IsFiniteSet(favs[p] \cup {a})
      /\ Cardinality(favs[p] \cup {a}) = Cardinality(favs[p]) + 1
  BY <1>1, FS_AddElement
<1>4. TablesAreFinite'
  BY <1>2, <1>3 DEF TablesAreFinite
<1>5. ASSUME NEW q \in Posts, NEW c \in Counters
      PROVE  Standing(q, c)' = Standing(q, c) + IF q = p /\ c = "favourites" THEN 1 ELSE 0
  <2>1. Standing(q, c) \in Nat
    BY StandingTypes
  <2>2. CASE q = p /\ c = "favourites"
    <3>1. Standing(p, "favourites") = Cardinality(favs[p]) /\ Standing(p, "favourites")' = Cardinality(favs'[p])
      BY DEF Standing
    <3> QED BY <1>1, <1>2, <1>3, <2>2, <3>1
  <2>3. CASE ~(q = p /\ c = "favourites")
    <3>1. Standing(q, c)' = Standing(q, c)
      BY <1>2, <2>3 DEF Standing, Counters
    <3> QED BY <2>1, <2>3, <3>1
  <2> QED BY <2>2, <2>3
<1> QED BY <1>4, <1>5

LEMMA FavDropped ==
  ASSUME InteractionsTypeOK, TablesAreFinite, UNCHANGED rows, NEW p \in Posts, NEW a,
         favs' = [favs EXCEPT ![p] = @ \ {a}], a \in favs[p]
  PROVE  /\ TablesAreFinite'
         /\ \A q \in Posts, c \in Counters :
              Standing(q, c)' = Standing(q, c) - IF q = p /\ c = "favourites" THEN 1 ELSE 0
<1>1. favs \in [Posts -> SUBSET Actors] /\ IsFiniteSet(favs[p]) /\ Cardinality(favs[p]) \in Nat
  BY FS_CardinalityType DEF InteractionsTypeOK, TablesAreFinite
<1>2. favs'[p] = favs[p] \ {a} /\ \A q \in Posts \ {p} : favs'[q] = favs[q]
  BY <1>1
<1>3. /\ IsFiniteSet(favs[p] \ {a})
      /\ Cardinality(favs[p] \ {a}) = Cardinality(favs[p]) - 1
  BY <1>1, FS_RemoveElement
<1>4. TablesAreFinite'
  BY <1>2, <1>3 DEF TablesAreFinite
<1>5. ASSUME NEW q \in Posts, NEW c \in Counters
      PROVE  Standing(q, c)' = Standing(q, c) - IF q = p /\ c = "favourites" THEN 1 ELSE 0
  <2>1. Standing(q, c) \in Nat
    BY StandingTypes
  <2>2. CASE q = p /\ c = "favourites"
    <3>1. Standing(p, "favourites") = Cardinality(favs[p]) /\ Standing(p, "favourites")' = Cardinality(favs'[p])
      BY DEF Standing
    <3> QED BY <1>1, <1>2, <1>3, <2>2, <3>1
  <2>3. CASE ~(q = p /\ c = "favourites")
    <3>1. Standing(q, c)' = Standing(q, c)
      BY <1>2, <2>3 DEF Standing, Counters
    <3> QED BY <2>1, <2>3, <3>1
  <2> QED BY <2>2, <2>3
<1> QED BY <1>4, <1>5

LEMMA CountsMove ==
  ASSUME InteractionsTypeOK, InteractionsTypeOK', TablesAreFinite, TablesAreFinite', CountersMatch,
         NEW k \in Slots, \A j \in Slots \ {k} : task'[j] = task[j],
         living' \subseteq living, drifted \subseteq drifted',
         \A p \in living', c \in Counters : <<p, c>> \notin drifted' =>
           count'[p][c] + Load(task'[k], p, c) - Load(task[k], p, c) - count[p][c]
             = Standing(p, c)' - Standing(p, c)
  PROVE  CountersMatch'
<1> SUFFICES ASSUME NEW p \in living', NEW c \in Counters, <<p, c>> \notin drifted'
             PROVE  count'[p][c] + Pending(p, c, "raise")' - Pending(p, c, "lower")' = Standing(p, c)'
  BY DEF CountersMatch
<1>1. p \in Posts /\ count[p][c] \in Int /\ count'[p][c] \in Int
  BY DEF InteractionsTypeOK
<1>2. Standing(p, c) \in Nat /\ Standing(p, c)' \in Nat
  BY <1>1, StandingTypes, StandingTypesNext
<1>3. count[p][c] + Pending(p, c, "raise") - Pending(p, c, "lower") = Standing(p, c)
  BY DEF CountersMatch
<1>4. ASSUME NEW step
      PROVE /\ Pending(p, c, step) \in Nat /\ Pending(p, c, step)' \in Nat
            /\ Pending(p, c, step)' = Pending(p, c, step)
                  + (IF Weighs(task'[k], p, c, step) THEN 1 ELSE 0)
                  - (IF Weighs(task[k], p, c, step) THEN 1 ELSE 0)
  BY PendingMoves
<1>5. \A t : Weighs(t, p, c, "raise") => ~Weighs(t, p, c, "lower")
  BY DEF Weighs
<1>6. \A t : Load(t, p, c) = (IF Weighs(t, p, c, "raise") THEN 1 ELSE 0)
                             - (IF Weighs(t, p, c, "lower") THEN 1 ELSE 0)
  BY <1>5 DEF Load
<1>7. count'[p][c] + Load(task'[k], p, c) - Load(task[k], p, c) - count[p][c]
        = Standing(p, c)' - Standing(p, c)
  OBVIOUS
<1> QED BY <1>1, <1>2, <1>3, <1>4, <1>6, <1>7

LEMMA LoadFacts ==
  ASSUME NEW t, NEW p, NEW c
  PROVE  /\ t.step \notin {"raise", "lower"} => Load(t, p, c) = 0
         /\ t.step = "raise" => Load(t, p, c) = IF t.post = p /\ CounterOf(t.op) = c THEN 1 ELSE 0
         /\ t.step = "lower" => Load(t, p, c) = IF t.post = p /\ CounterOf(t.op) = c THEN -1 ELSE 0
  BY DEF Load, Weighs

LEMMA DoneIsQuiet ==
  ASSUME TasksSound, NEW k \in Slots, Running(k), HandlerDone(k), task[k].op # "delete"
  PROVE  /\ task'[k].step \notin {"raise", "lower", "deliver", "insert", "find", "write", "drop", "scan"}
         /\ task'[k] # Idle => task'[k].step = "notify" /\ \A r : NoneToCome(task'[k], r)
<1>1. \/ task'[k] = Idle
      \/ task'[k].step = "notify"
  BY DoneFits
<1> QED BY <1>1, TaskKinds, NothingToCome

(* A step that touches no table and applies no change of a counter.        *)
LEMMA QuietCounts ==
  ASSUME CountsSound, TasksSound', NEW k \in Slots, \A j \in Slots \ {k} : task'[j] = task[j],
         task[k].step \notin {"raise", "lower"}, task'[k].step \notin {"raise", "lower"},
         UNCHANGED data, drifted \subseteq drifted'
  PROVE  TablesAreFinite' /\ CountersMatch'
<1>1. /\ InteractionsTypeOK /\ InteractionsTypeOK' /\ TablesAreFinite /\ CountersMatch
      /\ UNCHANGED <<living, rows, favs, count>>
  BY DEF CountsSound, TasksSound, data
<1>2. TablesAreFinite'
  BY <1>1 DEF TablesAreFinite
<1>3. ASSUME NEW p \in living', NEW c \in Counters
      PROVE  count'[p][c] + Load(task'[k], p, c) - Load(task[k], p, c) - count[p][c]
               = Standing(p, c)' - Standing(p, c)
  <2>1. Standing(p, c)' = Standing(p, c)
    BY <1>1 DEF Standing, Counters
  <2>2. p \in Posts /\ count[p][c] \in Int
    BY <1>1 DEF InteractionsTypeOK
  <2>3. Standing(p, c) \in Nat
    BY <1>1, <2>2, StandingTypes
  <2> QED BY <1>1, <2>1, <2>2, <2>3, LoadFacts
<1>4. CountersMatch'
  BY <1>1, <1>2, <1>3, CountsMove
<1> QED BY <1>2, <1>4

LEMMA BeginsCounts ==
  ASSUME CountsSound, NEW k \in Slots, Begins(k)
  PROVE  CountsSound'
<1>1. TasksSound /\ ~Running(k)
  BY BeginsFacts DEF CountsSound, Enter
<1>2. PICK op \in Ops, a \in Actors, p \in Posts, seen \in SUBSET Row :
           /\ Enter(k, op, a, p, seen)
           /\ op \in ApiOps => a \in Members
           /\ op = "remove" => \E r \in Row : seen = {r} /\ r.kind = "reply" /\ r.actor = a /\ r.post = p
  BY <1>1, BeginsFacts
<1>3. /\ TasksFit' /\ task' \in [Slots -> Task \cup {Idle}]
      /\ \A j \in Slots \ {k} : task'[j] = task[j]
      /\ touches' = touches + 1 /\ touches' \in 1..MaxTouches
      /\ task'[k] \in Task /\ task'[k].step = FirstStepOf(op) /\ task'[k].id = touches + 1
  BY <1>1, <1>2, EnterFits
<1>4. /\ UNCHANGED <<data, notes, mishaps, drifted, untold>>
      /\ raced' = raced \cup {<<b, p>> : b \in
           UNION {{a, By(j)} : j \in {j \in Slots \ {k} : Meets(j, op, a, p)}}}
  BY <1>2 DEF Enter
<1>5. raced' \subseteq Actors \X Posts
  <2>1. \A j \in Slots : Meets(j, op, a, p) => By(j) \in Actors
    BY <1>1, RunningFacts DEF Meets, TasksSound
  <2> QED BY <1>1, <1>4, <2>1 DEF TasksSound, InteractionsTypeOK
<1>6. touches' \in 0..MaxTouches
  BY <1>3
<1>7. TasksSound'
  BY <1>1, <1>3, <1>4, <1>5, <1>6, TypedFrame DEF TasksSound, InteractionsTypeOK, data
<1>8. task[k].step \notin {"raise", "lower"} /\ FirstStepOf(op) \notin {"raise", "lower"}
  <2>1. task[k].step = "idle"
    BY <1>1 DEF Running
  <2>2. FirstStepOf(op) \notin {"raise", "lower"}
    BY DEF FirstStepOf, Ops, ApiOps, HandlerOps
  <2> QED BY <2>1, <2>2
<1>9. TablesAreFinite' /\ CountersMatch'
  BY <1>3, <1>4, <1>7, <1>8, QuietCounts
<1>10. IdsAreOwn' /\ RowsAreNew'
  BY <1>1, <1>3, <1>4, <1>7, NumbersBegin DEF CountsSound, data
<1> QED BY <1>7, <1>9, <1>10 DEF CountsSound

LEMMA FindToBoostCounts ==
  ASSUME CountsSound, NEW k \in Slots, FindToBoost(k)
  PROVE  CountsSound'
<1>1. /\ TasksSound /\ TasksSound' /\ Proceeds(k) /\ Doing(k, {"reblog"}, "find")
      /\ UNCHANGED <<data, touches, drifted>>
      /\ \/ task'[k] = Idle
         \/ task'[k] \in Task /\ task'[k].step = "write" /\ task'[k].op = "reblog"
  BY FindToBoostFacts DEF CountsSound, touchHistory
<1>2. /\ Running(k) /\ task[k].step = "find" /\ task[k].op = "reblog"
      /\ \A j \in Slots \ {k} : task'[j] = task[j]
  BY <1>1 DEF Doing, Running, Proceeds
<1>3. TablesAreFinite' /\ CountersMatch'
  BY <1>1, <1>2, TaskKinds, QuietCounts
<1>4. \A r \in rows : r.id # task[k].id
  BY <1>2 DEF CountsSound, RowsAreNew, NoneToCome
<1>5. IdsAreOwn' /\ RowsAreNew'
  BY <1>1, <1>2, <1>4, NumbersProceed DEF CountsSound, data
<1> QED BY <1>1, <1>3, <1>5 DEF CountsSound

LEMMA ReblogCounts ==
  ASSUME CountsSound, NEW k \in Slots, Reblog(k)
  PROVE  CountsSound'
<1>1. /\ TasksSound /\ TasksSound' /\ Proceeds(k) /\ Doing(k, {"reblog"}, "write")
      /\ NewRow(k, "boost", TRUE) \in Row
      /\ task'[k] \in Task /\ task'[k].step = "deliver" /\ task'[k].op = "reblog"
  BY ReblogFacts DEF CountsSound
<1>2. /\ count' = Adjusted(count, OnPost(k), "reblogs", 1)
      /\ UNCHANGED <<living, favs, touches, drifted>>
  BY DEF Reblog, touchHistory
<1>3. PICK row \in Row : /\ rows' = rows \cup {row} /\ row.id = task[k].id /\ row.kind = "boost"
                         /\ row.post = OnPost(k) /\ row.local
  BY <1>1 DEF Reblog, NewRow
<1>4. /\ Running(k) /\ task[k].step = "write" /\ task[k].op = "reblog" /\ OnPost(k) \in Posts
      /\ \A j \in Slots \ {k} : task'[j] = task[j]
  BY <1>1, RunningFacts DEF Doing, Running, Proceeds, TasksSound
<1>5. \A r \in rows : r.id # task[k].id
  BY <1>4 DEF CountsSound, RowsAreNew, NoneToCome
<1>6. /\ TablesAreFinite'
      /\ \A p \in Posts, c \in Counters :
           Standing(p, c)' = Standing(p, c)
                             + IF p = row.post /\ c = CounterOfKind(row.kind) THEN 1 ELSE 0
  BY <1>2, <1>3, <1>5, RowAdded DEF CountsSound
<1>7. CountersMatch'
  <2>1. ASSUME NEW p \in living', NEW c \in Counters
        PROVE  count'[p][c] + Load(task'[k], p, c) - Load(task[k], p, c) - count[p][c]
                 = Standing(p, c)' - Standing(p, c)
    <3>1. p \in Posts /\ p \in living /\ count[p][c] \in Int
      BY <1>1, <1>2 DEF TasksSound, InteractionsTypeOK
    <3>2. Standing(p, c) \in Nat
      BY <3>1, StandingTypes DEF CountsSound
    <3>3. count'[p][c] = count[p][c] + IF p = OnPost(k) /\ c = "reblogs" THEN 1 ELSE 0
      BY <1>1, <1>2, <1>4, <3>1, AdjustedFacts DEF TasksSound, Counters
    <3>4. Load(task[k], p, c) = 0 /\ Load(task'[k], p, c) = 0
      BY <1>1, <1>4, LoadFacts
    <3>5. Standing(p, c)' = Standing(p, c) + IF p = OnPost(k) /\ c = "reblogs" THEN 1 ELSE 0
      BY <1>3, <1>6, <3>1 DEF CounterOfKind
    <3> QED BY <3>1, <3>2, <3>3, <3>4, <3>5
  <2> QED BY <1>1, <1>2, <1>4, <1>6, <2>1, CountsMove DEF CountsSound, TasksSound
<1>8. IdsAreOwn' /\ RowsAreNew'
  <2>1. \A r \in rows' : r.id = task[k].id => NoneToCome(task'[k], r)
    BY <1>1, <1>3, <1>5 DEF NoneToCome
  <2> QED BY <1>1, <1>2, <1>3, <1>4, <2>1, NumbersProceed DEF CountsSound
<1> QED BY <1>1, <1>6, <1>7, <1>8 DEF CountsSound

(* A step that inserts no row and after which nothing is left to insert.   *)
LEMMA NumbersStay ==
  ASSUME TasksSound, TasksSound', IdsAreOwn, RowsAreNew, NEW k \in Slots, Running(k), Proceeds(k),
         touches' = touches, rows' \subseteq rows,
         \/ task'[k] = Idle
         \/ task'[k].step \in {"drop", "raise", "lower", "notify", "scan"}
         \/ task'[k].op \notin {"reblog", "reply", "Announce"}
         \/ task'[k].op = "reply" /\ task'[k].step = "deliver"
  PROVE  IdsAreOwn' /\ RowsAreNew'
<1>1. task'[k] # Idle => \A r : NoneToCome(task'[k], r)
  BY NothingToCome
<1> QED BY <1>1, NumbersProceed

LEMMA FindAnnouncedCounts ==
  ASSUME CountsSound, NEW k \in Slots, FindAnnounced(k)
  PROVE  CountsSound'
<1>1. /\ TasksSound /\ TasksSound' /\ Proceeds(k) /\ Doing(k, {"Announce"}, "find")
      /\ UNCHANGED <<data, touches, drifted>>
      /\ \/ HandlerDone(k)
         \/ task'[k] \in Task /\ task'[k].step = "insert" /\ task'[k].op = "Announce"
  BY FindAnnouncedFacts DEF CountsSound, touchHistory
<1>2. /\ Running(k) /\ task[k].step = "find" /\ task[k].op = "Announce"
      /\ \A j \in Slots \ {k} : task'[j] = task[j]
  BY <1>1 DEF Doing, Running, Proceeds
<1>3. task'[k].step \notin {"raise", "lower"}
  BY <1>1, <1>2, DoneIsQuiet
<1>4. TablesAreFinite' /\ CountersMatch'
  BY <1>1, <1>2, <1>3, QuietCounts
<1>5. \A r \in rows : r.id = task[k].id => r.local
  BY <1>2 DEF CountsSound, RowsAreNew, NoneToCome
<1>6. task'[k] # Idle => \A r \in rows : r.id = task[k].id => NoneToCome(task'[k], r)
  <2>1. CASE HandlerDone(k)
    BY <1>1, <1>2, <2>1, DoneIsQuiet
  <2>2. CASE task'[k].step = "insert" /\ task'[k].op = "Announce"
    BY <1>5, <2>2 DEF NoneToCome
  <2> QED BY <1>1, <2>1, <2>2
<1>7. IdsAreOwn' /\ RowsAreNew'
  BY <1>1, <1>2, <1>6, NumbersProceed DEF CountsSound, data
<1> QED BY <1>1, <1>4, <1>7 DEF CountsSound

LEMMA InsertAnnouncedCounts ==
  ASSUME CountsSound, NEW k \in Slots, InsertAnnounced(k)
  PROVE  CountsSound'
<1>1. /\ TasksSound /\ TasksSound' /\ Proceeds(k) /\ Doing(k, {"Announce"}, "insert")
      /\ NewRow(k, "boost", FALSE) \in Row
      /\ task'[k] \in Task /\ task'[k].step = "raise" /\ task'[k].op = "Announce"
  BY InsertAnnouncedFacts DEF CountsSound
<1>2. UNCHANGED <<living, favs, count, touches, drifted>>
  BY DEF InsertAnnounced, touchHistory
<1>3. PICK row \in Row : /\ rows' = rows \cup {row} /\ row.id = task[k].id /\ row.kind = "boost"
                         /\ row.post = OnPost(k) /\ ~row.local
  BY <1>1 DEF InsertAnnounced, NewRow
<1>4. /\ Running(k) /\ task[k].step = "insert" /\ task[k].op = "Announce" /\ OnPost(k) \in Posts
      /\ \A j \in Slots \ {k} : task'[j] = task[j]
  BY <1>1, RunningFacts DEF Doing, Running, Proceeds, TasksSound
<1>5. row \notin rows
  BY <1>3, <1>4 DEF CountsSound, RowsAreNew, NoneToCome
<1>6. /\ TablesAreFinite'
      /\ \A p \in Posts, c \in Counters :
           Standing(p, c)' = Standing(p, c)
                             + IF p = row.post /\ c = CounterOfKind(row.kind) THEN 1 ELSE 0
  BY <1>2, <1>3, <1>5, RowAdded DEF CountsSound
<1>7. task'[k].post = OnPost(k) /\ CounterOf(task'[k].op) = "reblogs"
  BY <1>1, TaskKinds, CounterFacts DEF Proceeds
<1>8. CountersMatch'
  <2>1. ASSUME NEW p \in living', NEW c \in Counters
        PROVE  count'[p][c] + Load(task'[k], p, c) - Load(task[k], p, c) - count[p][c]
                 = Standing(p, c)' - Standing(p, c)
    <3>1. p \in Posts /\ count[p][c] \in Int /\ count'[p][c] = count[p][c]
      BY <1>1, <1>2 DEF TasksSound, InteractionsTypeOK
    <3>2. Standing(p, c) \in Nat
      BY <3>1, StandingTypes DEF CountsSound
    <3>3. Load(task[k], p, c) = 0
      BY <1>4, LoadFacts
    <3>4. Load(task'[k], p, c) = IF p = OnPost(k) /\ c = "reblogs" THEN 1 ELSE 0
      BY <1>1, <1>7, LoadFacts
    <3>5. Standing(p, c)' = Standing(p, c) + IF p = OnPost(k) /\ c = "reblogs" THEN 1 ELSE 0
      BY <1>3, <1>6, <3>1 DEF CounterOfKind
    <3> QED BY <3>1, <3>2, <3>3, <3>4, <3>5
  <2> QED BY <1>1, <1>2, <1>4, <1>6, <2>1, CountsMove DEF CountsSound, TasksSound
<1>9. IdsAreOwn' /\ RowsAreNew'
  <2>1. \A r \in rows' : r.id = task[k].id => NoneToCome(task'[k], r)
    BY <1>1, NothingToCome
  <2> QED BY <1>1, <1>2, <1>3, <1>4, <2>1, NumbersProceed DEF CountsSound
<1> QED BY <1>1, <1>6, <1>8, <1>9 DEF CountsSound

LEMMA FindToUndoCounts ==
  ASSUME CountsSound, NEW k \in Slots, FindToUndo(k)
  PROVE  CountsSound'
<1>1. /\ TasksSound /\ TasksSound' /\ Proceeds(k) /\ Doing(k, {"unreblog", "UndoAnnounce"}, "find")
      /\ UNCHANGED <<data, touches, drifted>>
      /\ HandlerDone(k) \/ task'[k].step = "drop"
  BY FindToUndoFacts DEF CountsSound, touchHistory
<1>2. /\ Running(k) /\ task[k].step = "find" /\ task[k].op # "delete"
      /\ \A j \in Slots \ {k} : task'[j] = task[j]
  BY <1>1 DEF Doing, Running, Proceeds
<1>3. task'[k].step \notin {"raise", "lower"} /\ (task'[k] = Idle \/ task'[k].step \in {"drop", "notify"})
  BY <1>1, <1>2, DoneIsQuiet
<1>4. TablesAreFinite' /\ CountersMatch'
  BY <1>1, <1>2, <1>3, QuietCounts
<1>5. IdsAreOwn' /\ RowsAreNew'
  BY <1>1, <1>2, <1>3, NumbersStay DEF CountsSound, data
<1> QED BY <1>1, <1>4, <1>5 DEF CountsSound

LEMMA DropBoostCounts ==
  ASSUME CountsSound, NEW k \in Slots, DropBoost(k)
  PROVE  CountsSound'
<1>1. /\ TasksSound /\ TasksSound' /\ Proceeds(k) /\ Doing(k, {"unreblog", "UndoAnnounce"}, "drop")
      /\ task'[k] \in Task /\ task'[k].step = "lower" /\ task'[k].op = task[k].op
  BY DropBoostFacts DEF CountsSound
<1>2. PICK row \in Row : task[k].seen = {row} /\ row.kind = "boost" /\ row.post = OnPost(k)
  BY DropBoostFacts DEF CountsSound
<1>3. /\ rows' = rows \ {row} /\ UNCHANGED <<living, favs, count, touches>>
      /\ drifted' = IF row \in rows THEN drifted ELSE drifted \cup {<<OnPost(k), "reblogs">>}
  BY <1>2 DEF DropBoost
<1>4. /\ Running(k) /\ task[k].step = "drop" /\ OnPost(k) \in Posts
      /\ \A j \in Slots \ {k} : task'[j] = task[j]
  BY <1>1, RunningFacts DEF Doing, Running, Proceeds, TasksSound
<1>5. /\ TablesAreFinite'
      /\ \A p \in Posts, c \in Counters :
           Standing(p, c)' = Standing(p, c)
               - IF row \in rows /\ p = row.post /\ c = CounterOfKind(row.kind) THEN 1 ELSE 0
  BY <1>3, RowsDropped DEF CountsSound
<1>6. task'[k].post = OnPost(k) /\ CounterOf(task'[k].op) = "reblogs"
  BY <1>1, TaskKinds, CounterFacts DEF Proceeds, Doing
<1>7. CountersMatch'
  <2>1. ASSUME NEW p \in living', NEW c \in Counters, <<p, c>> \notin drifted'
        PROVE  count'[p][c] + Load(task'[k], p, c) - Load(task[k], p, c) - count[p][c]
                 = Standing(p, c)' - Standing(p, c)
    <3>1. p \in Posts /\ count[p][c] \in Int /\ count'[p][c] = count[p][c]
      BY <1>1, <1>3 DEF TasksSound, InteractionsTypeOK
    <3>2. Standing(p, c) \in Nat
      BY <3>1, StandingTypes DEF CountsSound
    <3>3. Load(task[k], p, c) = 0
      BY <1>4, LoadFacts
    <3>4. Load(task'[k], p, c) = IF p = OnPost(k) /\ c = "reblogs" THEN -1 ELSE 0
      BY <1>1, <1>6, LoadFacts
    <3>5. Standing(p, c)' = Standing(p, c) - IF row \in rows /\ p = OnPost(k) /\ c = "reblogs" THEN 1 ELSE 0
      BY <1>2, <1>5, <3>1 DEF CounterOfKind
    <3>6. p = OnPost(k) /\ c = "reblogs" => row \in rows
      BY <1>3, <2>1
    <3> QED BY <3>1, <3>2, <3>3, <3>4, <3>5, <3>6
  <2> QED BY <1>1, <1>3, <1>4, <1>5, <2>1, CountsMove DEF CountsSound, TasksSound
<1>8. IdsAreOwn' /\ RowsAreNew'
  BY <1>1, <1>3, <1>4, NumbersStay DEF CountsSound
<1> QED BY <1>1, <1>5, <1>7, <1>8 DEF CountsSound

LEMMA FavouriteCounts ==
  ASSUME CountsSound, NEW k \in Slots, Favourite(k)
  PROVE  CountsSound'
<1>1. /\ TasksSound /\ TasksSound' /\ Proceeds(k) /\ Doing(k, {"favourite"}, "write")
      /\ UNCHANGED <<living, rows, touches, drifted>>
      /\ \/ task'[k] = Idle /\ UNCHANGED <<favs, count>>
         \/ /\ task'[k] \in Task /\ task'[k].step = "deliver" /\ task'[k].op = "favourite"
            /\ OnPost(k) \in living /\ By(k) \notin favs[OnPost(k)]
            /\ favs' = [favs EXCEPT ![OnPost(k)] = @ \cup {By(k)}]
            /\ count' = Adjusted(count, OnPost(k), "favourites", 1)
  BY FavouriteFacts DEF CountsSound, touchHistory
<1>2. /\ Running(k) /\ task[k].step = "write" /\ OnPost(k) \in Posts
      /\ \A j \in Slots \ {k} : task'[j] = task[j]
  BY <1>1, RunningFacts DEF Doing, Running, Proceeds, TasksSound
<1>3. IdsAreOwn' /\ RowsAreNew'
  BY <1>1, <1>2, NumbersStay DEF CountsSound
<1>4. CASE task'[k] = Idle /\ UNCHANGED <<favs, count>>
  <2>1. TablesAreFinite' /\ CountersMatch'
    BY <1>1, <1>2, <1>4, TaskKinds, QuietCounts DEF data
  <2> QED BY <1>1, <1>3, <2>1 DEF CountsSound
<1>5. CASE /\ task'[k] \in Task /\ task'[k].step = "deliver" /\ task'[k].op = "favourite"
           /\ OnPost(k) \in living /\ By(k) \notin favs[OnPost(k)]
           /\ favs' = [favs EXCEPT ![OnPost(k)] = @ \cup {By(k)}]
           /\ count' = Adjusted(count, OnPost(k), "favourites", 1)
  <2>3. /\ TablesAreFinite'
        /\ \A q \in Posts, c \in Counters :
             Standing(q, c)' = Standing(q, c) + IF q = OnPost(k) /\ c = "favourites" THEN 1 ELSE 0
    BY <1>1, <1>2, <1>5, FavAdded DEF CountsSound, TasksSound
  <2>4. ASSUME NEW p \in living', NEW c \in Counters
        PROVE  count'[p][c] + Load(task'[k], p, c) - Load(task[k], p, c) - count[p][c]
                 = Standing(p, c)' - Standing(p, c)
    <3>1. p \in Posts /\ p \in living /\ count[p][c] \in Int
      BY <1>1 DEF TasksSound, InteractionsTypeOK
    <3>2. Standing(p, c) \in Nat
      BY <3>1, StandingTypes DEF CountsSound
    <3>3. count'[p][c] = count[p][c] + IF p = OnPost(k) /\ c = "favourites" THEN 1 ELSE 0
      BY <1>1, <1>2, <1>5, <3>1, AdjustedFacts DEF TasksSound, Counters
    <3>4. Load(task[k], p, c) = 0 /\ Load(task'[k], p, c) = 0
      BY <1>2, <1>5, LoadFacts
    <3> QED BY <2>3, <3>1, <3>2, <3>3, <3>4
  <2>5. CountersMatch'
    BY <1>1, <1>2, <2>3, <2>4, CountsMove DEF CountsSound, TasksSound
  <2> QED BY <1>1, <1>3, <2>3, <2>5 DEF CountsSound
<1> QED BY <1>1, <1>4, <1>5

LEMMA UnfavouriteCounts ==
  ASSUME CountsSound, NEW k \in Slots, Unfavourite(k)
  PROVE  CountsSound'
<1>1. /\ TasksSound /\ TasksSound' /\ Proceeds(k) /\ Doing(k, {"unfavourite"}, "write")
      /\ UNCHANGED <<living, rows, touches>>
      /\ \/ task'[k] = Idle /\ UNCHANGED <<favs, count, drifted>>
         \/ /\ task'[k] \in Task /\ task'[k].step = "deliver" /\ task'[k].op = "unfavourite"
            /\ By(k) \in favs[OnPost(k)]
            /\ favs' = [favs EXCEPT ![OnPost(k)] = @ \ {By(k)}]
            /\ count' = Adjusted(count, OnPost(k), "favourites", -1)
            /\ drifted' = drifted \cup AtFloor(OnPost(k), "favourites")
  BY UnfavouriteFacts DEF CountsSound
<1>2. /\ Running(k) /\ task[k].step = "write" /\ OnPost(k) \in Posts
      /\ \A j \in Slots \ {k} : task'[j] = task[j]
  BY <1>1, RunningFacts DEF Doing, Running, Proceeds, TasksSound
<1>3. IdsAreOwn' /\ RowsAreNew'
  BY <1>1, <1>2, NumbersStay DEF CountsSound
<1>4. CASE task'[k] = Idle /\ UNCHANGED <<favs, count, drifted>>
  <2>1. TablesAreFinite' /\ CountersMatch'
    BY <1>1, <1>2, <1>4, TaskKinds, QuietCounts DEF data
  <2> QED BY <1>1, <1>3, <2>1 DEF CountsSound
<1>5. CASE /\ task'[k] \in Task /\ task'[k].step = "deliver" /\ task'[k].op = "unfavourite"
           /\ By(k) \in favs[OnPost(k)]
           /\ favs' = [favs EXCEPT ![OnPost(k)] = @ \ {By(k)}]
           /\ count' = Adjusted(count, OnPost(k), "favourites", -1)
           /\ drifted' = drifted \cup AtFloor(OnPost(k), "favourites")
  <2>1. /\ TablesAreFinite'
        /\ \A q \in Posts, c \in Counters :
             Standing(q, c)' = Standing(q, c) - IF q = OnPost(k) /\ c = "favourites" THEN 1 ELSE 0
    BY <1>1, <1>2, <1>5, FavDropped DEF CountsSound, TasksSound
  <2>2. ASSUME NEW p \in living', NEW c \in Counters, <<p, c>> \notin drifted'
        PROVE  count'[p][c] + Load(task'[k], p, c) - Load(task[k], p, c) - count[p][c]
                 = Standing(p, c)' - Standing(p, c)
    <3>1. p \in Posts /\ p \in living /\ count[p][c] \in Int
      BY <1>1 DEF TasksSound, InteractionsTypeOK
    <3>2. Standing(p, c) \in Nat
      BY <3>1, StandingTypes DEF CountsSound
    <3>3. p = OnPost(k) /\ c = "favourites" => count[p][c] # 0
      BY <1>5, <2>2, <3>1 DEF AtFloor
    <3>4. count'[p][c] = count[p][c] - IF p = OnPost(k) /\ c = "favourites" THEN 1 ELSE 0
      <4>1. CASE p = OnPost(k) /\ c = "favourites"
        <5>1. Adjusted(count, p, c, -1)[p][c] = count[p][c] + (-1)
          BY <1>1, <3>1, <3>3, <4>1, AdjustedFacts DEF TasksSound
        <5> QED BY <1>5, <3>1, <4>1, <5>1
      <4>2. CASE ~(p = OnPost(k) /\ c = "favourites")
        BY <1>1, <1>2, <1>5, <3>1, <4>2, AdjustedFacts DEF TasksSound, Counters
      <4> QED BY <4>1, <4>2
    <3>5. Load(task[k], p, c) = 0 /\ Load(task'[k], p, c) = 0
      BY <1>2, <1>5, LoadFacts
    <3> QED BY <2>1, <3>1, <3>2, <3>4, <3>5
  <2>3. CountersMatch'
    BY <1>1, <1>2, <1>5, <2>1, <2>2, CountsMove DEF CountsSound, TasksSound
  <2> QED BY <1>1, <1>3, <2>1, <2>3 DEF CountsSound
<1> QED BY <1>1, <1>4, <1>5

LEMMA InsertLikeCounts ==
  ASSUME CountsSound, NEW k \in Slots, InsertLike(k)
  PROVE  CountsSound'
<1>1. /\ TasksSound /\ TasksSound' /\ Proceeds(k) /\ Doing(k, {"Like"}, "insert")
      /\ UNCHANGED <<living, rows, count, touches, drifted>>
      /\ \/ task'[k] = Idle /\ UNCHANGED favs
         \/ HandlerDone(k) /\ UNCHANGED favs
         \/ /\ task'[k] \in Task /\ task'[k].step = "raise" /\ task'[k].op = "Like"
            /\ By(k) \notin favs[OnPost(k)]
            /\ favs' = [favs EXCEPT ![OnPost(k)] = @ \cup {By(k)}]
  BY InsertLikeFacts DEF CountsSound, touchHistory
<1>2. /\ Running(k) /\ task[k].step = "insert" /\ task[k].op = "Like" /\ OnPost(k) \in Posts
      /\ \A j \in Slots \ {k} : task'[j] = task[j]
  BY <1>1, RunningFacts DEF Doing, Running, Proceeds, TasksSound
<1>3. HandlerDone(k) => task'[k] = Idle \/ task'[k].step = "notify"
  BY <1>1, <1>2, DoneIsQuiet
<1>4. IdsAreOwn' /\ RowsAreNew'
  BY <1>1, <1>2, <1>3, NumbersStay DEF CountsSound
<1>5. CASE (task'[k] = Idle \/ HandlerDone(k)) /\ UNCHANGED favs
  <2>1. TablesAreFinite' /\ CountersMatch'
    BY <1>1, <1>2, <1>3, <1>5, TaskKinds, QuietCounts DEF data
  <2> QED BY <1>1, <1>4, <2>1 DEF CountsSound
<1>6. CASE /\ task'[k] \in Task /\ task'[k].step = "raise" /\ task'[k].op = "Like"
           /\ By(k) \notin favs[OnPost(k)]
           /\ favs' = [favs EXCEPT ![OnPost(k)] = @ \cup {By(k)}]
  <2>1. /\ TablesAreFinite'
        /\ \A q \in Posts, c \in Counters :
             Standing(q, c)' = Standing(q, c) + IF q = OnPost(k) /\ c = "favourites" THEN 1 ELSE 0
    BY <1>1, <1>2, <1>6, FavAdded DEF CountsSound, TasksSound
  <2>2. task'[k].post = OnPost(k) /\ CounterOf(task'[k].op) = "favourites"
    BY <1>1, <1>6, TaskKinds, CounterFacts DEF Proceeds
  <2>3. ASSUME NEW p \in living', NEW c \in Counters
        PROVE  count'[p][c] + Load(task'[k], p, c) - Load(task[k], p, c) - count[p][c]
                 = Standing(p, c)' - Standing(p, c)
    <3>1. p \in Posts /\ count[p][c] \in Int /\ count'[p][c] = count[p][c]
      BY <1>1 DEF TasksSound, InteractionsTypeOK
    <3>2. Standing(p, c) \in Nat
      BY <3>1, StandingTypes DEF CountsSound
    <3>3. Load(task[k], p, c) = 0 /\ Load(task'[k], p, c) = IF p = OnPost(k) /\ c = "favourites" THEN 1 ELSE 0
      BY <1>2, <1>6, <2>2, LoadFacts
    <3> QED BY <2>1, <3>1, <3>2, <3>3
  <2>4. CountersMatch'
    BY <1>1, <1>2, <2>1, <2>3, CountsMove DEF CountsSound, TasksSound
  <2> QED BY <1>1, <1>4, <2>1, <2>4 DEF CountsSound
<1> QED BY <1>1, <1>5, <1>6

LEMMA DropLikeCounts ==
  ASSUME CountsSound, NEW k \in Slots, DropLike(k)
  PROVE  CountsSound'
<1>1. /\ TasksSound /\ TasksSound' /\ Proceeds(k) /\ Doing(k, {"UndoLike"}, "drop")
      /\ UNCHANGED <<living, rows, count, touches, drifted>>
      /\ favs' = [favs EXCEPT ![OnPost(k)] = @ \ {By(k)}]
      /\ IF By(k) \in favs[OnPost(k)]
           THEN task'[k] \in Task /\ task'[k].step = "lower" /\ task'[k].op = "UndoLike"
           ELSE HandlerDone(k)
  BY DropLikeFacts DEF CountsSound, touchHistory
<1>2. /\ Running(k) /\ task[k].step = "drop" /\ task[k].op = "UndoLike" /\ OnPost(k) \in Posts
      /\ \A j \in Slots \ {k} : task'[j] = task[j]
  BY <1>1, RunningFacts DEF Doing, Running, Proceeds, TasksSound
<1>3. HandlerDone(k) => task'[k] = Idle \/ task'[k].step = "notify"
  BY <1>1, <1>2, DoneIsQuiet
<1>4. IdsAreOwn' /\ RowsAreNew'
  BY <1>1, <1>2, <1>3, NumbersStay DEF CountsSound
<1>5. CASE By(k) \notin favs[OnPost(k)]
  <2>1. UNCHANGED favs
    BY <1>1, <1>2, <1>5 DEF TasksSound, InteractionsTypeOK
  <2>2. TablesAreFinite' /\ CountersMatch'
    BY <1>1, <1>2, <1>3, <1>5, <2>1, TaskKinds, QuietCounts DEF data
  <2> QED BY <1>1, <1>4, <2>2 DEF CountsSound
<1>6. CASE By(k) \in favs[OnPost(k)]
  <2>1. /\ TablesAreFinite'
        /\ \A q \in Posts, c \in Counters :
             Standing(q, c)' = Standing(q, c) - IF q = OnPost(k) /\ c = "favourites" THEN 1 ELSE 0
    BY <1>1, <1>2, <1>6, FavDropped DEF CountsSound, TasksSound
  <2>2. /\ task'[k].step = "lower" /\ task'[k].post = OnPost(k)
        /\ CounterOf(task'[k].op) = "favourites"
    BY <1>1, <1>6, TaskKinds, CounterFacts DEF Proceeds
  <2>3. ASSUME NEW p \in living', NEW c \in Counters
        PROVE  count'[p][c] + Load(task'[k], p, c) - Load(task[k], p, c) - count[p][c]
                 = Standing(p, c)' - Standing(p, c)
    <3>1. p \in Posts /\ count[p][c] \in Int /\ count'[p][c] = count[p][c]
      BY <1>1 DEF TasksSound, InteractionsTypeOK
    <3>2. Standing(p, c) \in Nat
      BY <3>1, StandingTypes DEF CountsSound
    <3>3. Load(task[k], p, c) = 0 /\ Load(task'[k], p, c) = IF p = OnPost(k) /\ c = "favourites" THEN -1 ELSE 0
      BY <1>2, <2>2, LoadFacts
    <3> QED BY <2>1, <3>1, <3>2, <3>3
  <2>4. CountersMatch'
    BY <1>1, <1>2, <2>1, <2>3, CountsMove DEF CountsSound, TasksSound
  <2> QED BY <1>1, <1>4, <2>1, <2>4 DEF CountsSound
<1> QED BY <1>5, <1>6

LEMMA RaiseCountCounts ==
  ASSUME CountsSound, NEW k \in Slots, RaiseCount(k)
  PROVE  CountsSound'
<1>1. /\ TasksSound /\ TasksSound' /\ Proceeds(k) /\ Running(k)
      /\ task[k].step = "raise" /\ task[k].op \in {"Announce", "Like", "Create"}
      /\ HandlerDone(k) \/ task'[k].step = "notify"
  BY RaiseCountFacts DEF CountsSound
<1>2. PICK cnt \in Counters : cnt = CounterOf(task[k].op)
  BY <1>1, RunningFacts, CounterFacts DEF TasksSound
<1>3. count' = Adjusted(count, OnPost(k), cnt, 1) /\ UNCHANGED <<living, rows, favs, touches, drifted>>
  BY <1>2 DEF RaiseCount, touchHistory
<1>4. OnPost(k) \in Posts /\ \A j \in Slots \ {k} : task'[j] = task[j]
  BY <1>1, RunningFacts DEF Proceeds, TasksSound
<1>5. (task'[k] = Idle \/ task'[k].step = "notify") /\ task'[k].step \notin {"raise", "lower"}
  BY <1>1, DoneIsQuiet
<1>6. IdsAreOwn' /\ RowsAreNew'
  BY <1>1, <1>3, <1>5, NumbersStay DEF CountsSound
<1>7. TablesAreFinite'
  BY <1>3 DEF CountsSound, TablesAreFinite
<1>8. ASSUME NEW p \in living', NEW c \in Counters
      PROVE  count'[p][c] + Load(task'[k], p, c) - Load(task[k], p, c) - count[p][c]
               = Standing(p, c)' - Standing(p, c)
  <2>1. p \in Posts /\ p \in living /\ count[p][c] \in Int
    BY <1>1, <1>3 DEF TasksSound, InteractionsTypeOK
  <2>2. Standing(p, c) \in Nat /\ Standing(p, c)' = Standing(p, c)
    BY <1>3, <2>1, StandingTypes DEF CountsSound, Standing, Counters
  <2>3. count'[p][c] = count[p][c] + IF p = OnPost(k) /\ c = cnt THEN 1 ELSE 0
    BY <1>1, <1>3, <1>4, <2>1, AdjustedFacts DEF TasksSound
  <2>4. Load(task'[k], p, c) = 0
    BY <1>5, LoadFacts
  <2>5. Load(task[k], p, c) = IF p = OnPost(k) /\ c = cnt THEN 1 ELSE 0
    BY <1>1, <1>2, LoadFacts DEF OnPost
  <2> QED BY <2>1, <2>2, <2>3, <2>4, <2>5
<1>9. CountersMatch'
  BY <1>1, <1>3, <1>4, <1>7, <1>8, CountsMove DEF CountsSound, TasksSound
<1> QED BY <1>1, <1>6, <1>7, <1>9 DEF CountsSound

LEMMA LowerCountCounts ==
  ASSUME CountsSound, NEW k \in Slots, LowerCount(k)
  PROVE  CountsSound'
<1>1. /\ TasksSound /\ TasksSound' /\ Proceeds(k) /\ Running(k) /\ task[k].step = "lower"
      /\ task[k].op \in {"unreblog", "UndoAnnounce", "UndoLike"}
      /\ HandlerDone(k) \/ (task'[k].step = "deliver" /\ task'[k].op = "unreblog")
  BY LowerCountFacts DEF CountsSound
<1>2. PICK cnt \in Counters : cnt = CounterOf(task[k].op)
  BY <1>1, RunningFacts, CounterFacts DEF TasksSound
<1>3. /\ count' = Adjusted(count, OnPost(k), cnt, -1) /\ drifted' = drifted \cup AtFloor(OnPost(k), cnt)
      /\ UNCHANGED <<living, rows, favs, touches>>
  BY <1>2 DEF LowerCount
<1>4. OnPost(k) \in Posts /\ \A j \in Slots \ {k} : task'[j] = task[j]
  BY <1>1, RunningFacts DEF Proceeds, TasksSound
<1>5. /\ \/ task'[k] = Idle \/ task'[k].step = "notify" \/ task'[k].op = "unreblog"
      /\ task'[k].step \notin {"raise", "lower"}
  BY <1>1, DoneIsQuiet
<1>6. IdsAreOwn' /\ RowsAreNew'
  BY <1>1, <1>3, <1>5, NumbersStay DEF CountsSound
<1>7. TablesAreFinite'
  BY <1>3 DEF CountsSound, TablesAreFinite
<1>8. ASSUME NEW p \in living', NEW c \in Counters, <<p, c>> \notin drifted'
      PROVE  count'[p][c] + Load(task'[k], p, c) - Load(task[k], p, c) - count[p][c]
               = Standing(p, c)' - Standing(p, c)
  <2>1. p \in Posts /\ p \in living /\ count[p][c] \in Int
    BY <1>1, <1>3 DEF TasksSound, InteractionsTypeOK
  <2>2. Standing(p, c) \in Nat /\ Standing(p, c)' = Standing(p, c)
    BY <1>3, <2>1, StandingTypes DEF CountsSound, Standing, Counters
  <2>3. count'[p][c] = count[p][c] - IF p = OnPost(k) /\ c = cnt THEN 1 ELSE 0
    <3>1. CASE p = OnPost(k) /\ c = cnt
      <4>1. count[p][c] # 0
        BY <1>3, <1>8, <2>1, <3>1 DEF AtFloor
      <4>2. Adjusted(count, p, c, -1)[p][c] = count[p][c] + (-1)
        BY <1>1, <2>1, <4>1, AdjustedFacts DEF TasksSound
      <4> QED BY <1>3, <2>1, <3>1, <4>2
    <3>2. CASE ~(p = OnPost(k) /\ c = cnt)
      BY <1>1, <1>3, <1>4, <2>1, <3>2, AdjustedFacts DEF TasksSound
    <3> QED BY <3>1, <3>2
  <2>4. Load(task'[k], p, c) = 0
    BY <1>5, LoadFacts
  <2>5. Load(task[k], p, c) = IF p = OnPost(k) /\ c = cnt THEN -1 ELSE 0
    BY <1>1, <1>2, LoadFacts DEF OnPost
  <2> QED BY <2>1, <2>2, <2>3, <2>4, <2>5
<1>9. CountersMatch'
  BY <1>1, <1>3, <1>4, <1>7, <1>8, CountsMove DEF CountsSound, TasksSound
<1> QED BY <1>1, <1>6, <1>7, <1>9 DEF CountsSound

LEMMA ReplyCounts ==
  ASSUME CountsSound, NEW k \in Slots, Reply(k)
  PROVE  CountsSound'
<1>1. /\ TasksSound /\ TasksSound' /\ Proceeds(k) /\ Doing(k, {"reply"}, "write")
      /\ NewRow(k, "reply", TRUE) \in Row
      /\ task'[k] \in Task /\ task'[k].step = "deliver" /\ task'[k].op = "reply"
  BY ReplyFacts DEF CountsSound
<1>2. /\ count' = Adjusted(count, OnPost(k), "replies", 1)
      /\ UNCHANGED <<living, favs, touches, drifted>>
  BY DEF Reply, touchHistory
<1>3. PICK row \in Row : /\ rows' = rows \cup {row} /\ row.id = task[k].id /\ row.kind = "reply"
                         /\ row.post = OnPost(k)
  BY <1>1 DEF Reply, NewRow
<1>4. /\ Running(k) /\ task[k].step = "write" /\ task[k].op = "reply" /\ OnPost(k) \in Posts
      /\ \A j \in Slots \ {k} : task'[j] = task[j]
  BY <1>1, RunningFacts DEF Doing, Running, Proceeds, TasksSound
<1>5. \A r \in rows : r.id # task[k].id
  BY <1>4 DEF CountsSound, RowsAreNew, NoneToCome
<1>6. /\ TablesAreFinite'
      /\ \A p \in Posts, c \in Counters :
           Standing(p, c)' = Standing(p, c)
                             + IF p = row.post /\ c = CounterOfKind(row.kind) THEN 1 ELSE 0
  BY <1>2, <1>3, <1>5, RowAdded DEF CountsSound
<1>7. CountersMatch'
  <2>1. ASSUME NEW p \in living', NEW c \in Counters
        PROVE  count'[p][c] + Load(task'[k], p, c) - Load(task[k], p, c) - count[p][c]
                 = Standing(p, c)' - Standing(p, c)
    <3>1. p \in Posts /\ p \in living /\ count[p][c] \in Int
      BY <1>1, <1>2 DEF TasksSound, InteractionsTypeOK
    <3>2. Standing(p, c) \in Nat
      BY <3>1, StandingTypes DEF CountsSound
    <3>3. count'[p][c] = count[p][c] + IF p = OnPost(k) /\ c = "replies" THEN 1 ELSE 0
      BY <1>1, <1>2, <1>4, <3>1, AdjustedFacts DEF TasksSound, Counters
    <3>4. Load(task[k], p, c) = 0 /\ Load(task'[k], p, c) = 0
      BY <1>1, <1>4, LoadFacts
    <3>5. Standing(p, c)' = Standing(p, c) + IF p = OnPost(k) /\ c = "replies" THEN 1 ELSE 0
      BY <1>3, <1>6, <3>1 DEF CounterOfKind
    <3> QED BY <3>1, <3>2, <3>3, <3>4, <3>5
  <2> QED BY <1>1, <1>2, <1>4, <1>6, <2>1, CountsMove DEF CountsSound, TasksSound
<1>8. IdsAreOwn' /\ RowsAreNew'
  <2>1. \A r \in rows' : NoneToCome(task'[k], r)
    BY <1>1, NothingToCome
  <2> QED BY <1>1, <1>2, <1>3, <1>4, <2>1, NumbersProceed DEF CountsSound
<1> QED BY <1>1, <1>6, <1>7, <1>8 DEF CountsSound

LEMMA InsertCreatedCounts ==
  ASSUME CountsSound, NEW k \in Slots, InsertCreated(k)
  PROVE  CountsSound'
<1>1. /\ TasksSound /\ TasksSound' /\ Proceeds(k) /\ Doing(k, {"Create"}, "insert")
      /\ UNCHANGED <<living, favs, count, touches, drifted>>
      /\ \/ HandlerDone(k) /\ UNCHANGED rows
         \/ /\ \A r \in rows : r.id # task[k].id
            /\ rows' = rows \cup {NewRow(k, "reply", FALSE)} /\ NewRow(k, "reply", FALSE) \in Row
            /\ task'[k] \in Task /\ task'[k].step = "raise" /\ task'[k].op = "Create"
  BY InsertCreatedFacts DEF CountsSound, touchHistory
<1>2. /\ Running(k) /\ task[k].step = "insert" /\ task[k].op = "Create" /\ OnPost(k) \in Posts
      /\ \A j \in Slots \ {k} : task'[j] = task[j]
  BY <1>1, RunningFacts DEF Doing, Running, Proceeds, TasksSound
<1>3. CASE HandlerDone(k) /\ UNCHANGED rows
  <2>1. /\ task'[k].step \notin {"raise", "lower"}
        /\ task'[k] = Idle \/ task'[k].step = "notify"
    BY <1>1, <1>2, <1>3, DoneIsQuiet
  <2>2. TablesAreFinite' /\ CountersMatch'
    BY <1>1, <1>2, <1>3, <2>1, QuietCounts DEF data
  <2>3. IdsAreOwn' /\ RowsAreNew'
    BY <1>1, <1>2, <1>3, <2>1, NumbersStay DEF CountsSound
  <2> QED BY <1>1, <2>2, <2>3 DEF CountsSound
<1>4. CASE /\ \A r \in rows : r.id # task[k].id
           /\ rows' = rows \cup {NewRow(k, "reply", FALSE)} /\ NewRow(k, "reply", FALSE) \in Row
           /\ task'[k] \in Task /\ task'[k].step = "raise" /\ task'[k].op = "Create"
  <2>1. PICK row \in Row : /\ rows' = rows \cup {row} /\ row.id = task[k].id /\ row.kind = "reply"
                           /\ row.post = OnPost(k)
    BY <1>4 DEF NewRow
  <2>2. /\ TablesAreFinite'
        /\ \A p \in Posts, c \in Counters :
             Standing(p, c)' = Standing(p, c)
                               + IF p = row.post /\ c = CounterOfKind(row.kind) THEN 1 ELSE 0
    BY <1>1, <1>4, <2>1, RowAdded DEF CountsSound
  <2>3. task'[k].post = OnPost(k) /\ CounterOf(task'[k].op) = "replies"
    BY <1>1, <1>4, TaskKinds, CounterFacts DEF Proceeds
  <2>4. ASSUME NEW p \in living', NEW c \in Counters
        PROVE  count'[p][c] + Load(task'[k], p, c) - Load(task[k], p, c) - count[p][c]
                 = Standing(p, c)' - Standing(p, c)
    <3>1. p \in Posts /\ count[p][c] \in Int /\ count'[p][c] = count[p][c]
      BY <1>1 DEF TasksSound, InteractionsTypeOK
    <3>2. Standing(p, c) \in Nat
      BY <3>1, StandingTypes DEF CountsSound
    <3>3. Load(task[k], p, c) = 0 /\ Load(task'[k], p, c) = IF p = OnPost(k) /\ c = "replies" THEN 1 ELSE 0
      BY <1>2, <1>4, <2>3, LoadFacts
    <3>4. Standing(p, c)' = Standing(p, c) + IF p = OnPost(k) /\ c = "replies" THEN 1 ELSE 0
      BY <2>1, <2>2, <3>1 DEF CounterOfKind
    <3> QED BY <3>1, <3>2, <3>3, <3>4
  <2>5. CountersMatch'
    BY <1>1, <1>2, <2>2, <2>4, CountsMove DEF CountsSound, TasksSound
  <2>6. IdsAreOwn' /\ RowsAreNew'
    <3>1. \A r \in rows' : NoneToCome(task'[k], r)
      BY <1>4, NothingToCome
    <3> QED BY <1>1, <1>2, <2>1, <3>1, NumbersProceed DEF CountsSound
  <2> QED BY <1>1, <2>2, <2>5, <2>6 DEF CountsSound
<1> QED BY <1>1, <1>3, <1>4

LEMMA RemoveReplyCounts ==
  ASSUME CountsSound, NEW k \in Slots, RemoveReply(k)
  PROVE  CountsSound'
<1>1. TasksSound /\ TasksSound' /\ Proceeds(k) /\ Doing(k, {"remove"}, "drop") /\ task'[k] = Idle
  BY RemoveReplyFacts DEF CountsSound
<1>2. PICK row \in Row : task[k].seen = {row} /\ row.kind = "reply" /\ row.post = OnPost(k)
  BY RemoveReplyFacts DEF CountsSound
<1>3. /\ rows' = rows \ {row} /\ UNCHANGED <<living, favs, touches>>
      /\ count' = IF row \in rows THEN Adjusted(count, OnPost(k), "replies", -1) ELSE count
      /\ drifted' = IF row \in rows THEN drifted \cup AtFloor(OnPost(k), "replies") ELSE drifted
  BY <1>2 DEF RemoveReply
<1>4. /\ Running(k) /\ task[k].step = "drop" /\ OnPost(k) \in Posts
      /\ \A j \in Slots \ {k} : task'[j] = task[j]
  BY <1>1, RunningFacts DEF Doing, Running, Proceeds, TasksSound
<1>5. /\ TablesAreFinite'
      /\ \A p \in Posts, c \in Counters :
           Standing(p, c)' = Standing(p, c)
               - IF row \in rows /\ p = row.post /\ c = CounterOfKind(row.kind) THEN 1 ELSE 0
  BY <1>3, RowsDropped DEF CountsSound
<1>6. CountersMatch'
  <2>1. ASSUME NEW p \in living', NEW c \in Counters, <<p, c>> \notin drifted'
        PROVE  count'[p][c] + Load(task'[k], p, c) - Load(task[k], p, c) - count[p][c]
                 = Standing(p, c)' - Standing(p, c)
    <3>1. p \in Posts /\ p \in living /\ count[p][c] \in Int
      BY <1>1, <1>3 DEF TasksSound, InteractionsTypeOK
    <3>2. Standing(p, c) \in Nat
      BY <3>1, StandingTypes DEF CountsSound
    <3>3. Load(task[k], p, c) = 0 /\ Load(task'[k], p, c) = 0
      BY <1>1, <1>4, TaskKinds, LoadFacts
    <3>4. Standing(p, c)' = Standing(p, c) - IF row \in rows /\ p = OnPost(k) /\ c = "replies" THEN 1 ELSE 0
      BY <1>2, <1>5, <3>1 DEF CounterOfKind
    <3>5. count'[p][c] = count[p][c] - IF row \in rows /\ p = OnPost(k) /\ c = "replies" THEN 1 ELSE 0
      <4>1. CASE row \in rows /\ p = OnPost(k) /\ c = "replies"
        <5>1. count[p][c] # 0
          BY <1>3, <2>1, <3>1, <4>1 DEF AtFloor
        <5>2. Adjusted(count, p, c, -1)[p][c] = count[p][c] + (-1)
          BY <1>1, <3>1, <5>1, AdjustedFacts DEF TasksSound
        <5> QED BY <1>3, <3>1, <4>1, <5>2
      <4>2. CASE row \in rows /\ ~(p = OnPost(k) /\ c = "replies")
        BY <1>1, <1>3, <1>4, <3>1, <4>2, AdjustedFacts DEF TasksSound, Counters
      <4>3. CASE row \notin rows
        BY <1>3, <3>1, <4>3
      <4> QED BY <4>1, <4>2, <4>3
    <3> QED BY <3>1, <3>2, <3>3, <3>4, <3>5
  <2>2. drifted \subseteq drifted'
    BY <1>3
  <2> QED BY <1>1, <1>3, <1>4, <1>5, <2>1, <2>2, CountsMove DEF CountsSound, TasksSound
<1>7. IdsAreOwn' /\ RowsAreNew'
  BY <1>1, <1>3, <1>4, NumbersStay DEF CountsSound
<1> QED BY <1>1, <1>5, <1>6, <1>7 DEF CountsSound

LEMMA ScanBoostsCounts ==
  ASSUME CountsSound, NEW k \in Slots, ScanBoosts(k)
  PROVE  CountsSound'
<1>1. /\ TasksSound /\ TasksSound' /\ Proceeds(k) /\ Doing(k, {"delete"}, "scan")
      /\ UNCHANGED <<data, touches, drifted>> /\ task'[k].step = "drop"
  BY ScanBoostsFacts DEF CountsSound, touchHistory
<1>2. /\ Running(k) /\ task[k].step = "scan" /\ \A j \in Slots \ {k} : task'[j] = task[j]
  BY <1>1 DEF Doing, Running, Proceeds
<1>3. TablesAreFinite' /\ CountersMatch'
  BY <1>1, <1>2, QuietCounts
<1>4. IdsAreOwn' /\ RowsAreNew'
  BY <1>1, <1>2, NumbersStay DEF CountsSound, data
<1> QED BY <1>1, <1>3, <1>4 DEF CountsSound

LEMMA DeletePostCounts ==
  ASSUME CountsSound, NEW k \in Slots, DeletePost(k)
  PROVE  CountsSound'
<1>1. /\ TasksSound /\ TasksSound' /\ Proceeds(k) /\ Doing(k, {"delete"}, "drop") /\ task'[k] = Idle
      /\ \A r \in task[k].seen : r.kind = "boost" /\ r.post = OnPost(k)
  BY DeletePostFacts DEF CountsSound
<1>2. /\ living' = living \ {OnPost(k)} /\ rows' = rows \ task[k].seen
      /\ favs' = [favs EXCEPT ![OnPost(k)] = {}] /\ UNCHANGED <<count, touches, drifted>>
  BY DEF DeletePost, touchHistory
<1>3. /\ Running(k) /\ task[k].step = "drop" /\ OnPost(k) \in Posts
      /\ \A j \in Slots \ {k} : task'[j] = task[j]
  BY <1>1, RunningFacts DEF Doing, Running, Proceeds, TasksSound
<1>4. \A p \in Posts : favs'[p] = IF p = OnPost(k) THEN {} ELSE favs[p]
  BY <1>1, <1>2, <1>3 DEF TasksSound, InteractionsTypeOK
<1>5. TablesAreFinite'
  <2>1. IsFiniteSet(rows')
    BY <1>2, FS_Subset DEF CountsSound, TablesAreFinite
  <2>2. ASSUME NEW p \in Posts PROVE IsFiniteSet(favs'[p])
    BY <1>4, FS_EmptySet DEF CountsSound, TablesAreFinite
  <2> QED BY <2>1, <2>2 DEF TablesAreFinite
<1>6. ASSUME NEW p \in living', NEW c \in Counters
      PROVE  count'[p][c] + Load(task'[k], p, c) - Load(task[k], p, c) - count[p][c]
               = Standing(p, c)' - Standing(p, c)
  <2>1. p \in Posts /\ p # OnPost(k) /\ count[p][c] \in Int /\ count'[p][c] = count[p][c]
    BY <1>1, <1>2 DEF TasksSound, InteractionsTypeOK
  <2>2. Standing(p, c) \in Nat
    BY <2>1, StandingTypes DEF CountsSound
  <2>3. /\ {r \in rows' : r.kind = "boost" /\ r.post = p} = {r \in rows : r.kind = "boost" /\ r.post = p}
        /\ {r \in rows' : r.kind = "reply" /\ r.post = p} = {r \in rows : r.kind = "reply" /\ r.post = p}
        /\ favs'[p] = favs[p]
    BY <1>1, <1>2, <1>4, <2>1
  <2>4. Standing(p, c)' = Standing(p, c)
    BY <2>3 DEF Standing, Counters
  <2>5. Load(task[k], p, c) = 0 /\ Load(task'[k], p, c) = 0
    BY <1>1, <1>3, TaskKinds, LoadFacts
  <2> QED BY <2>1, <2>2, <2>4, <2>5
<1>7. CountersMatch'
  BY <1>1, <1>2, <1>3, <1>5, <1>6, CountsMove DEF CountsSound, TasksSound
<1>8. IdsAreOwn' /\ RowsAreNew'
  BY <1>1, <1>2, <1>3, NumbersStay DEF CountsSound
<1> QED BY <1>1, <1>5, <1>7, <1>8 DEF CountsSound

LEMMA DeliverCounts ==
  ASSUME CountsSound, NEW k \in Slots, Deliver(k)
  PROVE  CountsSound'
<1>1. /\ TasksSound /\ TasksSound' /\ Proceeds(k) /\ Running(k) /\ task[k].step = "deliver"
      /\ task[k].op \in {"reblog", "unreblog", "favourite", "unfavourite", "reply"}
      /\ UNCHANGED <<data, touches, drifted>>
      /\ \/ /\ task'[k] \in Task /\ task'[k].step = FirstStepOf(EchoOf(task[k].op))
            /\ task'[k].op = EchoOf(task[k].op)
         \/ task[k].op = "reblog" /\ task'[k] \in Task /\ task'[k].step = "notify" /\ task'[k].op = "reblog"
         \/ task[k].op = "reply" /\ task'[k] = Idle
  BY DeliverFacts DEF CountsSound, touchHistory
<1>2. /\ task'[k].step \notin {"raise", "lower"}
      /\ \/ task'[k] = Idle
         \/ task'[k].step = "notify"
         \/ task'[k].op \notin {"reblog", "reply", "Announce"}
         \/ task[k].op = "reblog" /\ task'[k].op = "Announce" /\ task'[k].step = "find"
  BY <1>1, TaskKinds DEF EchoOf, FirstStepOf
<1>3. \A j \in Slots \ {k} : task'[j] = task[j]
  BY <1>1 DEF Proceeds
<1>4. TablesAreFinite' /\ CountersMatch'
  BY <1>1, <1>2, <1>3, QuietCounts
<1>5. CASE task[k].op = "reblog" /\ task'[k].op = "Announce" /\ task'[k].step = "find"
  <2>1. \A r \in rows : r.id = task[k].id => r.local
    BY <1>1, <1>5 DEF CountsSound, RowsAreNew, NoneToCome
  <2>2. \A r \in rows' : r.id = task[k].id => NoneToCome(task'[k], r)
    BY <1>1, <1>5, <2>1 DEF NoneToCome, data
  <2>3. IdsAreOwn' /\ RowsAreNew'
    BY <1>1, <2>2, NumbersProceed DEF CountsSound, data
  <2> QED BY <1>1, <1>4, <2>3 DEF CountsSound
<1>6. CASE \/ task'[k] = Idle
           \/ task'[k].step = "notify"
           \/ task'[k].op \notin {"reblog", "reply", "Announce"}
  <2>1. IdsAreOwn' /\ RowsAreNew'
    BY <1>1, <1>6, NumbersStay DEF CountsSound, data
  <2> QED BY <1>1, <1>4, <2>1 DEF CountsSound
<1> QED BY <1>2, <1>5, <1>6

LEMMA NotifyCounts ==
  ASSUME CountsSound, NEW k \in Slots, Notify(k)
  PROVE  CountsSound'
<1>1. /\ TasksSound /\ TasksSound' /\ Proceeds(k) /\ HandlerDone(k) /\ Running(k)
      /\ task[k].step = "notify" /\ task[k].op # "delete" /\ UNCHANGED <<data, touches, drifted>>
  BY NotifyFacts DEF CountsSound
<1>2. /\ task'[k].step \notin {"raise", "lower"}
      /\ task'[k] = Idle \/ task'[k].step = "notify"
  BY <1>1, DoneIsQuiet
<1>3. TablesAreFinite' /\ CountersMatch'
  BY <1>1, <1>2, QuietCounts DEF Proceeds
<1>4. IdsAreOwn' /\ RowsAreNew'
  BY <1>1, <1>2, NumbersStay DEF CountsSound, data
<1> QED BY <1>1, <1>3, <1>4 DEF CountsSound

LEMMA AbandonCounts ==
  ASSUME CountsSound, NEW k \in Slots, Abandon(k)
  PROVE  CountsSound'
<1>1. /\ TasksSound /\ TasksSound' /\ Proceeds(k) /\ Running(k) /\ task'[k] = Idle
      /\ OnPost(k) \in Posts /\ UNCHANGED <<data, touches>>
  BY AbandonFacts DEF CountsSound
<1>2. /\ drifted' = IF task[k].step \in {"raise", "lower"}
                      THEN drifted \cup {<<OnPost(k), CounterOf(task[k].op)>>} ELSE drifted
      /\ UNCHANGED <<living, rows, favs, count>>
  BY DEF Abandon, data
<1>3. TablesAreFinite'
  BY <1>2 DEF CountsSound, TablesAreFinite
<1>4. ASSUME NEW p \in living', NEW c \in Counters, <<p, c>> \notin drifted'
      PROVE  count'[p][c] + Load(task'[k], p, c) - Load(task[k], p, c) - count[p][c]
               = Standing(p, c)' - Standing(p, c)
  <2>1. p \in Posts /\ count[p][c] \in Int /\ count'[p][c] = count[p][c]
    BY <1>1, <1>2 DEF TasksSound, InteractionsTypeOK
  <2>2. Standing(p, c) \in Nat /\ Standing(p, c)' = Standing(p, c)
    BY <1>2, <2>1, StandingTypes DEF CountsSound, Standing, Counters
  <2>3. Load(task'[k], p, c) = 0
    BY <1>1, TaskKinds, LoadFacts
  <2>4. Load(task[k], p, c) = 0
    BY <1>2, <1>4 DEF Load, Weighs, OnPost
  <2> QED BY <2>1, <2>2, <2>3, <2>4
<1>5. CountersMatch'
  BY <1>1, <1>2, <1>3, <1>4, CountsMove DEF CountsSound, TasksSound, Proceeds
<1>6. IdsAreOwn' /\ RowsAreNew'
  BY <1>1, <1>2, NumbersStay DEF CountsSound
<1> QED BY <1>1, <1>3, <1>5, <1>6 DEF CountsSound

(* What no slot takes part in.                                             *)
LEMMA UntouchedCounts ==
  CountsSound /\ TasksSound' /\ UNCHANGED <<data, task, touches, drifted>> => CountsSound'
<1> SUFFICES ASSUME CountsSound, TasksSound', UNCHANGED <<data, task, touches, drifted>>
             PROVE  CountsSound'
  OBVIOUS
<1>1. UNCHANGED <<living, rows, favs, count, task, touches, drifted>>
  BY DEF data
<1>2. IdsAreOwn' /\ RowsAreNew'
  BY <1>1 DEF CountsSound, IdsAreOwn, RowsAreNew, Running
<1>3. TablesAreFinite'
  BY <1>1 DEF CountsSound, TablesAreFinite
<1>4. ASSUME NEW p, NEW c PROVE /\ Pending(p, c, "raise")' = Pending(p, c, "raise")
                                /\ Pending(p, c, "lower")' = Pending(p, c, "lower")
                                /\ Standing(p, c)' = Standing(p, c)
  BY <1>1 DEF Pending, Standing, OnPost
<1>5. CountersMatch'
  BY <1>1, <1>4 DEF CountsSound, CountersMatch
<1> QED BY <1>2, <1>3, <1>5 DEF CountsSound

LEMMA DismissedCounts ==
  ASSUME CountsSound, NEW gone \in SUBSET notes, Dismissed(gone)
  PROVE  CountsSound'
<1>1. TasksSound
  BY DEF CountsSound
<1> QED BY <1>1, DismissedFacts, UntouchedCounts

LEMMA TasksBegin == InteractionsInit => TasksSound
<1> SUFFICES ASSUME InteractionsInit PROVE TasksSound
  OBVIOUS
<1>1. InteractionsTypeOK
  BY InteractionsAssumption DEF InteractionsInit, InteractionsTypeOK
<1>2. TasksFit
  BY DEF InteractionsInit, TasksFit, TaskFits
<1> QED BY <1>1, <1>2 DEF TasksSound

LEMMA CountsBegin == InteractionsInit => CountsSound
<1> SUFFICES ASSUME InteractionsInit PROVE CountsSound
  OBVIOUS
<1>1. TasksSound
  BY TasksBegin
<1>2. \A k \in Slots : ~Running(k)
  BY DEF InteractionsInit, Running, Idle
<1>3. IdsAreOwn /\ RowsAreNew
  BY <1>2 DEF InteractionsInit, IdsAreOwn, RowsAreNew
<1>4. TablesAreFinite
  BY FS_EmptySet DEF InteractionsInit, TablesAreFinite
<1>5. ASSUME NEW p \in Posts, NEW c \in Counters
      PROVE  count[p][c] = 0 /\ Pending(p, c, "raise") = 0 /\ Pending(p, c, "lower") = 0
             /\ Standing(p, c) = 0
  <2>1. count[p][c] = 0
    BY DEF InteractionsInit
  <2>2. /\ {k \in Slots : task[k].step = "raise" /\ OnPost(k) = p /\ CounterOf(task[k].op) = c} = {}
        /\ {k \in Slots : task[k].step = "lower" /\ OnPost(k) = p /\ CounterOf(task[k].op) = c} = {}
    BY DEF InteractionsInit, Idle
  <2>3. /\ favs[p] = {}
        /\ {r \in rows : r.kind = "boost" /\ r.post = p} = {}
        /\ {r \in rows : r.kind = "reply" /\ r.post = p} = {}
    BY DEF InteractionsInit
  <2>4. Pending(p, c, "raise") = 0 /\ Pending(p, c, "lower") = 0
    BY <2>2, FS_EmptySet DEF Pending
  <2>5. Standing(p, c) = 0
    BY <2>3, FS_EmptySet DEF Standing, Counters
  <2> QED BY <2>1, <2>4, <2>5
<1>6. CountersMatch
  BY <1>1, <1>5 DEF CountersMatch, TasksSound, InteractionsTypeOK
<1> QED BY <1>1, <1>3, <1>4, <1>6 DEF CountsSound

(* The actions of Interactions, those of a slot first.                     *)
Acts(k) ==
  \/ FindToBoost(k) \/ Reblog(k) \/ FindAnnounced(k) \/ InsertAnnounced(k)
  \/ FindToUndo(k) \/ DropBoost(k)
  \/ Favourite(k) \/ Unfavourite(k) \/ InsertLike(k) \/ DropLike(k)
  \/ RaiseCount(k) \/ LowerCount(k)
  \/ Reply(k) \/ InsertCreated(k) \/ RemoveReply(k) \/ ScanBoosts(k) \/ DeletePost(k)
  \/ Deliver(k) \/ Notify(k) \/ Abandon(k)

LEMMA NextIsOneOf ==
  ASSUME [InteractionsNext]_interactionVars
  PROVE  \/ \E k \in Slots : Begins(k) \/ Acts(k)
         \/ \E gone \in SUBSET notes : Dismissed(gone)
         \/ UNCHANGED interactionVars
<1>1. CASE \E n \in notes : DismissNote(n)
  <2>1. PICK n \in notes : Dismissed({n})
    BY <1>1 DEF DismissNote
  <2> QED BY <2>1
<1>2. CASE \E a \in Members : ClearNotes(a)
  <2>1. PICK a \in Members : Dismissed({n \in notes : AuthorOf[n.post] = a})
    BY <1>2 DEF ClearNotes
  <2> QED BY <2>1
<1>3. CASE \E k \in Slots : Begins(k) \/ Acts(k)
  BY <1>3
<1> QED BY <1>1, <1>2, <1>3 DEF InteractionsNext, Begins, Acts

LEMMA CountsStep == CountsSound /\ [InteractionsNext]_interactionVars => CountsSound'
<1> SUFFICES ASSUME CountsSound, [InteractionsNext]_interactionVars PROVE CountsSound'
  OBVIOUS
<1>1. CASE UNCHANGED interactionVars
  <2>1. TasksSound'
    BY <1>1 DEF CountsSound, TasksSound, InteractionsTypeOK, TasksFit, interactionVars, data, touchHistory
  <2> QED BY <1>1, <2>1, UntouchedCounts DEF interactionVars, touchHistory
<1>2. ASSUME NEW k \in Slots, Acts(k) PROVE CountsSound'
  BY <1>2, FindToBoostCounts, ReblogCounts, FindAnnouncedCounts, InsertAnnouncedCounts,
     FindToUndoCounts, DropBoostCounts, FavouriteCounts, UnfavouriteCounts, InsertLikeCounts,
     DropLikeCounts, RaiseCountCounts, LowerCountCounts, ReplyCounts, InsertCreatedCounts,
     RemoveReplyCounts, ScanBoostsCounts, DeletePostCounts, DeliverCounts, NotifyCounts,
     AbandonCounts DEF Acts
<1> QED BY <1>1, <1>2, NextIsOneOf, BeginsCounts, DismissedCounts

LEMMA CountsHold == InteractionsSpec => []CountsSound
BY CountsBegin, CountsStep, PTL DEF InteractionsSpec

-----------------------------------------------------------------------------
(* Interactions: what stands, stands once                                  *)

(* Two requests of an actor on a post, or one and a deletion, are known.   *)
OverlapsAreKnown ==
  \A j, k \in Slots :
    j # k /\ Running(j) /\ Running(k) /\ OnPost(j) = OnPost(k)
      /\ (By(j) = By(k) \/ task[j].op = "delete" \/ task[k].op = "delete")
    => <<By(j), OnPost(j)>> \in raced

(* What request k read of its actor's boosts and replies, and its post,    *)
(* still stands.                                                           *)
Reads(k) ==
  /\ task[k].op # "remove" => OnPost(k) \in living
  /\ Doing(k, {"reblog"}, "write") => Boosts(By(k), OnPost(k)) = {}
  /\ Doing(k, {"Announce"}, "insert") => Boosts(By(k), OnPost(k)) = {} /\ By(k) \notin Members
  /\ Doing(k, {"reblog"}, "deliver") \/ (Doing(k, {"Announce"}, "find") /\ By(k) \in Members)
       => Boosts(By(k), OnPost(k)) # {}
  /\ Doing(k, {"reply"}, "deliver") \/ (Doing(k, {"Create"}, "insert") /\ By(k) \in Members)
       => \E r \in rows : r.id = task[k].id /\ r.actor = By(k) /\ r.post = OnPost(k)

ReadsStand ==
  \A k \in Slots : Running(k) /\ <<By(k), OnPost(k)>> \notin raced => Reads(k)

(* The deletion of a post has all the boosts nobody else is working on.    *)
DeletionsSeeBoosts ==
  \A k \in Slots : Doing(k, {"delete"}, "drop") =>
    \A r \in rows : r.kind = "boost" /\ r.post = OnPost(k) /\ <<r.actor, r.post>> \notin raced
                    => r \in task[k].seen

StandsAt(a, p) ==
  /\ Cardinality(Boosts(a, p)) <= 1
  /\ Boosts(a, p) # {} => p \in living
  /\ \A r \in rows : r.actor = a /\ r.post = p => (r.local <=> a \in Members)

StandsSound == OverlapsAreKnown /\ ReadsStand /\ DeletionsSeeBoosts /\ StandsOnce

LEMMA StandsMove ==
  ASSUME CountsSound, StandsSound, NEW k \in Slots, Running(k), Proceeds(k), raced' = raced,
         \A r \in rows' : r \in rows \/ (r.actor = By(k) /\ r.post = OnPost(k)),
         \A r \in rows : \/ r \in rows'
                         \/ r.post = OnPost(k) /\ (r.actor = By(k) \/ task[k].op = "delete"),
         \/ living' = living
         \/ task[k].op = "delete" /\ living' = living \ {OnPost(k)},
         NEW q \in Posts, q = OnPost(k),
         \A a \in Actors :
           (a = By(k) \/ task[k].op = "delete") /\ <<a, q>> \notin raced => StandsAt(a, q)',
         task'[k] # Idle /\ <<By(k), OnPost(k)>> \notin raced => Reads(k)',
         Doing(k, {"delete"}, "drop")' => \A r \in rows' : r.kind = "boost" /\ r.post = OnPost(k) => r \in task'[k].seen
  PROVE  StandsSound'
<1>1. InteractionsTypeOK
  BY DEF CountsSound, TasksSound
<1>2. \A j \in Slots : Running(j)' => /\ Running(j) /\ By(j)' = By(j) /\ OnPost(j)' = OnPost(j)
                                      /\ task'[j] # Idle
                                      /\ task'[j].op = "delete" <=> task[j].op = "delete"
  BY <1>1, RunningFacts, TaskKinds DEF Proceeds, Running, By, OnPost
<1>3. OverlapsAreKnown'
  BY <1>2 DEF StandsSound, OverlapsAreKnown
<1>4. ASSUME NEW j \in Slots, j # k, Running(j), OnPost(j) = OnPost(k),
             By(j) = By(k) \/ task[j].op = "delete" \/ task[k].op = "delete"
      PROVE  <<By(j), OnPost(j)>> \in raced /\ <<By(k), OnPost(k)>> \in raced
  BY <1>4 DEF StandsSound, OverlapsAreKnown
<1>5. ReadsStand'
  <2> SUFFICES ASSUME NEW j \in Slots, Running(j)', <<By(j), OnPost(j)>>' \notin raced' PROVE Reads(j)'
    BY DEF ReadsStand
  <2>1. CASE j = k
    BY <1>2, <2>1
  <2>2. CASE j # k
    <3>1. task'[j] = task[j] /\ Running(j) /\ <<By(j), OnPost(j)>> \notin raced
      BY <1>2, <2>2 DEF Proceeds
    <3>2. Reads(j)
      BY <3>1 DEF StandsSound, ReadsStand
    <3>3. OnPost(j) = OnPost(k) => By(j) # By(k) /\ task[j].op # "delete" /\ task[k].op # "delete"
      BY <1>4, <2>2, <3>1
    <3>4. OnPost(j) \in living => OnPost(j) \in living'
      BY <3>3
    <3>5. \A r : r.actor = By(j) /\ r.post = OnPost(j) => (r \in rows <=> r \in rows')
      BY <3>3
    <3>6. Boosts(By(j), OnPost(j))' = Boosts(By(j), OnPost(j))
      BY <3>1, <3>5 DEF Boosts, By, OnPost
    <3> QED BY <3>1, <3>2, <3>4, <3>5, <3>6 DEF Reads, Doing, By, OnPost
  <2> QED BY <2>1, <2>2
<1>6. DeletionsSeeBoosts'
  <2> SUFFICES ASSUME NEW j \in Slots, Doing(j, {"delete"}, "drop")', NEW r \in rows', r.kind = "boost",
                      r.post = OnPost(j)', <<r.actor, r.post>> \notin raced'
               PROVE  r \in task'[j].seen
    BY DEF DeletionsSeeBoosts
  <2>1. Running(j)'
    BY DEF Doing, Running
  <2>2. CASE j = k
    BY <1>2, <2>1, <2>2
  <2>3. CASE j # k
    <3>1. task'[j] = task[j] /\ Running(j) /\ OnPost(j)' = OnPost(j) /\ Doing(j, {"delete"}, "drop")
      BY <1>2, <2>1, <2>3 DEF Proceeds, Doing
    <3>2. task[j].op = "delete"
      BY <3>1 DEF Doing
    <3>3. r \in rows
      BY <1>4, <2>3, <3>1, <3>2
    <3> QED BY <3>1, <3>3 DEF StandsSound, DeletionsSeeBoosts
  <2> QED BY <2>2, <2>3
<1>7. StandsOnce'
  <2>1. ASSUME NEW a \in Actors, NEW p \in Posts, <<a, p>> \notin raced PROVE StandsAt(a, p)'
    <3>1. CASE p = OnPost(k) /\ (a = By(k) \/ task[k].op = "delete")
      BY <2>1, <3>1
    <3>2. CASE ~(p = OnPost(k) /\ (a = By(k) \/ task[k].op = "delete"))
      <4>1. StandsAt(a, p)
        BY <2>1 DEF StandsSound, StandsOnce, StandsAt
      <4>2. \A r : r.actor = a /\ r.post = p => (r \in rows <=> r \in rows')
        BY <3>2
      <4>3. Boosts(a, p)' = Boosts(a, p)
        BY <4>2 DEF Boosts
      <4>4. p \in living => p \in living'
        BY <3>2
      <4> QED BY <4>1, <4>2, <4>3, <4>4 DEF StandsAt
    <3> QED BY <3>1, <3>2
  <2> QED BY <2>1 DEF StandsOnce, StandsAt
<1> QED BY <1>3, <1>5, <1>6, <1>7 DEF StandsSound

(* A step that leaves the tables alone.                                    *)
LEMMA StandsByReading ==
  ASSUME CountsSound, StandsSound, NEW k \in Slots, Running(k), Proceeds(k), UNCHANGED <<living, rows, raced>>,
         task'[k] # Idle /\ <<By(k), OnPost(k)>> \notin raced => Reads(k)',
         Doing(k, {"delete"}, "drop")' =>
           \A r \in rows : r.kind = "boost" /\ r.post = OnPost(k) => r \in task'[k].seen
  PROVE  StandsSound'
<1>1. StandsOnce'
  BY DEF StandsSound, StandsOnce, Boosts
<1>2. PICK q \in Posts : q = OnPost(k)
  BY RunningFacts DEF CountsSound, TasksSound
<1>3. \A a \in Actors : <<a, q>> \notin raced => StandsAt(a, q)'
  BY <1>1 DEF StandsOnce, StandsAt
<1> QED BY <1>2, <1>3, StandsMove

(* ... and reads nothing of its own.                                       *)
LEMMA StandsQuietly ==
  ASSUME CountsSound, StandsSound, NEW k \in Slots, Running(k), Proceeds(k), UNCHANGED <<living, rows, raced>>,
         \/ task'[k] = Idle
         \/ /\ task[k].op # "remove"
            /\ task'[k].step \in {"drop", "raise", "lower", "notify"}
                 \/ task'[k].op \in {"favourite", "unfavourite", "unreblog", "UndoAnnounce", "Like", "UndoLike"},
         task'[k].op # "delete" \/ task'[k].step # "drop"
  PROVE  StandsSound'
<1>1. task'[k] # Idle /\ <<By(k), OnPost(k)>> \notin raced => Reads(k)'
  <2> SUFFICES ASSUME task'[k] # Idle, <<By(k), OnPost(k)>> \notin raced PROVE Reads(k)'
    OBVIOUS
  <2>1. Reads(k) /\ task[k].op # "remove" /\ OnPost(k)' = OnPost(k)
    BY DEF StandsSound, ReadsStand, Proceeds, OnPost
  <2>2. OnPost(k)' \in living'
    BY <2>1 DEF Reads
  <2> QED BY <2>2 DEF Reads, Doing
<1>2. ~Doing(k, {"delete"}, "drop")'
  BY DEF Doing
<1> QED BY <1>1, <1>2, StandsByReading

LEMMA QuietStands ==
  ASSUME CountsSound, StandsSound, NEW k \in Slots,
         \/ FindToUndo(k) \/ Favourite(k) \/ Unfavourite(k) \/ InsertLike(k) \/ DropLike(k)
         \/ RaiseCount(k) \/ LowerCount(k) \/ Notify(k) \/ Abandon(k)
  PROVE  StandsSound'
<1>1. TasksSound /\ InteractionsTypeOK
  BY DEF CountsSound, TasksSound
<1>2. ASSUME Running(k), HandlerDone(k), task[k].op # "delete"
      PROVE  task'[k] = Idle \/ task'[k].step = "notify"
  BY <1>1, <1>2, DoneIsQuiet
<1>3. CASE FindToUndo(k)
  <2>1. /\ Running(k) /\ task[k].op # "remove" /\ task[k].op # "delete" /\ Proceeds(k)
        /\ UNCHANGED <<living, rows, raced>>
        /\ HandlerDone(k) \/ (task'[k].step = "drop" /\ task'[k].op = task[k].op)
    BY <1>1, <1>3, FindToUndoFacts DEF Doing, Running, data, touchHistory
  <2> QED BY <1>2, <2>1, TaskKinds, StandsQuietly
<1>4. CASE Favourite(k)
  <2>1. /\ Running(k) /\ task[k].op # "remove" /\ Proceeds(k)
        /\ UNCHANGED <<living, rows, raced>>
        /\ task'[k] = Idle \/ task'[k].op = "favourite"
    BY <1>1, <1>4, FavouriteFacts DEF Doing, Running, data, touchHistory
  <2> QED BY <2>1, TaskKinds, StandsQuietly
<1>5. CASE Unfavourite(k)
  <2>1. /\ Running(k) /\ task[k].op # "remove" /\ Proceeds(k)
        /\ UNCHANGED <<living, rows, raced>>
        /\ task'[k] = Idle \/ task'[k].op = "unfavourite"
    BY <1>1, <1>5, UnfavouriteFacts DEF Doing, Running, Unfavourite
  <2> QED BY <2>1, TaskKinds, StandsQuietly
<1>6. CASE InsertLike(k)
  <2>1. /\ Running(k) /\ task[k].op # "remove" /\ task[k].op # "delete" /\ Proceeds(k)
        /\ UNCHANGED <<living, rows, raced>>
        /\ task'[k] = Idle \/ HandlerDone(k) \/ task'[k].op = "Like"
    BY <1>1, <1>6, InsertLikeFacts DEF Doing, Running, data, touchHistory
  <2> QED BY <1>2, <2>1, TaskKinds, StandsQuietly
<1>7. CASE DropLike(k)
  <2>1. /\ Running(k) /\ task[k].op # "remove" /\ task[k].op # "delete" /\ Proceeds(k)
        /\ UNCHANGED <<living, rows, raced>>
        /\ HandlerDone(k) \/ task'[k].op = "UndoLike"
    BY <1>1, <1>7, DropLikeFacts DEF Doing, Running, data, touchHistory
  <2> QED BY <1>2, <2>1, TaskKinds, StandsQuietly
<1>8. CASE RaiseCount(k)
  <2>1. /\ Running(k) /\ task[k].op # "remove" /\ task[k].op # "delete" /\ Proceeds(k)
        /\ HandlerDone(k) \/ task'[k].step = "notify"
    BY <1>1, <1>8, RaiseCountFacts
  <2>2. UNCHANGED <<living, rows, raced>>
    BY <1>8 DEF RaiseCount, touchHistory
  <2> QED BY <1>2, <2>1, <2>2, TaskKinds, StandsQuietly
<1>9. CASE LowerCount(k)
  <2>1. /\ Running(k) /\ task[k].op # "remove" /\ task[k].op # "delete" /\ Proceeds(k)
        /\ HandlerDone(k) \/ task'[k].op = "unreblog"
    BY <1>1, <1>9, LowerCountFacts
  <2>2. UNCHANGED <<living, rows, raced>>
    BY <1>9 DEF LowerCount
  <2> QED BY <1>2, <2>1, <2>2, TaskKinds, StandsQuietly
<1>10. CASE Notify(k)
  <2>1. /\ Running(k) /\ task[k].op # "remove" /\ task[k].op # "delete" /\ Proceeds(k)
        /\ HandlerDone(k) /\ UNCHANGED <<living, rows, raced>>
    BY <1>1, <1>10, NotifyFacts DEF data
  <2> QED BY <1>2, <2>1, TaskKinds, StandsQuietly
<1>11. CASE Abandon(k)
  <2>1. Running(k) /\ Proceeds(k) /\ task'[k] = Idle /\ UNCHANGED <<living, rows, raced>>
    BY <1>1, <1>11, AbandonFacts DEF data
  <2> QED BY <2>1, TaskKinds, StandsQuietly
<1> QED BY <1>3, <1>4, <1>5, <1>6, <1>7, <1>8, <1>9, <1>10, <1>11

(* A call's actor is a member; what it read of its own, and its post.      *)
LEMMA OwnFacts ==
  ASSUME CountsSound, StandsSound, NEW k \in Slots, Running(k)
  PROVE  /\ TasksSound /\ InteractionsTypeOK /\ By(k) \in Actors /\ OnPost(k) \in Posts
         /\ task[k].op \in ApiOps => By(k) \in Members
         /\ <<By(k), OnPost(k)>> \notin raced => Reads(k) /\ StandsAt(By(k), OnPost(k))
<1>1. TasksSound /\ InteractionsTypeOK
  BY DEF CountsSound, TasksSound
<1>2. By(k) \in Actors /\ OnPost(k) \in Posts /\ task[k] # Idle /\ TaskFits(task[k])
  BY <1>1, RunningFacts DEF TasksSound, TasksFit
<1>3. task[k].op \in ApiOps => By(k) \in Members
  BY <1>2 DEF TaskFits, By
<1>4. <<By(k), OnPost(k)>> \notin raced => Reads(k) /\ StandsAt(By(k), OnPost(k))
  BY <1>2 DEF StandsSound, ReadsStand, StandsOnce, StandsAt
<1> QED BY <1>1, <1>2, <1>3, <1>4

LEMMA ReadingStands ==
  ASSUME CountsSound, StandsSound, NEW k \in Slots,
         FindToBoost(k) \/ FindAnnounced(k) \/ ScanBoosts(k) \/ Deliver(k)
  PROVE  StandsSound'
<1>1. CASE FindToBoost(k)
  <2>1. /\ Proceeds(k) /\ Doing(k, {"reblog"}, "find") /\ UNCHANGED <<living, rows, raced>>
        /\ \/ task'[k] = Idle
           \/ task'[k] \in Task /\ task'[k].step = "write" /\ task'[k].op = "reblog"
    BY <1>1, FindToBoostFacts DEF CountsSound, data, touchHistory
  <2>2. Running(k) /\ task[k].op # "remove" /\ ~Doing(k, {"delete"}, "drop")'
    BY <2>1, TaskKinds DEF Doing, Running
  <2>3. ASSUME task'[k] # Idle, <<By(k), OnPost(k)>> \notin raced PROVE Reads(k)'
    <3>1. OnPost(k)' = OnPost(k) /\ By(k)' = By(k) /\ OnPost(k) \in living
      BY <2>1, <2>2, <2>3, OwnFacts DEF Proceeds, OnPost, By, Reads
    <3>2. Boosts(By(k), OnPost(k)) = {}
      <4>1. TasksSound
        BY DEF CountsSound
      <4> QED BY <1>1, <2>3, <4>1, Returns DEF FindToBoost
    <3>3. Boosts(By(k), OnPost(k))' = {}
      BY <2>1, <3>1, <3>2 DEF Boosts
    <3> QED BY <2>1, <2>3, <3>1, <3>3 DEF Reads, Doing
  <2> QED BY <2>1, <2>2, <2>3, StandsByReading
<1>2. CASE FindAnnounced(k)
  <2>1. /\ Proceeds(k) /\ Doing(k, {"Announce"}, "find") /\ UNCHANGED <<living, rows, raced>>
    BY <1>2, FindAnnouncedFacts DEF CountsSound, data, touchHistory
  <2>2. Running(k) /\ task[k].op = "Announce" /\ TasksSound
    BY <2>1 DEF Doing, Running, CountsSound
  <2>3. CASE HandlerDone(k)
    <3>1. task'[k] = Idle \/ task'[k].step = "notify"
      BY <2>2, <2>3, DoneIsQuiet
    <3> QED BY <2>1, <2>2, <3>1, TaskKinds, StandsQuietly
  <2>4. CASE ~HandlerDone(k)
    <3>1. /\ Boosts(By(k), OnPost(k)) = {} /\ OnPost(k) \in living
          /\ task'[k].step = "insert" /\ task'[k].op = "Announce"
      BY <1>2, <2>2, <2>4, FindAnnouncedFacts DEF FindAnnounced
    <3>2. ASSUME task'[k] # Idle, <<By(k), OnPost(k)>> \notin raced PROVE Reads(k)'
      <4>1. OnPost(k)' = OnPost(k) /\ By(k)' = By(k)
        BY <2>1, <3>2 DEF Proceeds, OnPost, By
      <4>2. By(k) \notin Members
        BY <2>1, <2>2, <3>1, <3>2, OwnFacts DEF Reads
      <4>3. Boosts(By(k), OnPost(k))' = {}
        BY <2>1, <3>1, <4>1 DEF Boosts
      <4> QED BY <2>1, <3>1, <4>1, <4>2, <4>3 DEF Reads, Doing
    <3>3. ~Doing(k, {"delete"}, "drop")'
      BY <3>1 DEF Doing
    <3> QED BY <2>1, <2>2, <3>2, <3>3, StandsByReading
  <2> QED BY <2>3, <2>4
<1>3. CASE ScanBoosts(k)
  <2>1. /\ Proceeds(k) /\ Doing(k, {"delete"}, "scan") /\ UNCHANGED <<living, rows, raced>>
        /\ task'[k] \in Task /\ task'[k].step = "drop" /\ task'[k].op = "delete"
        /\ task'[k].seen = {r \in rows : r.kind = "boost" /\ r.post = OnPost(k)}
    BY <1>3, ScanBoostsFacts DEF CountsSound, data, touchHistory
  <2>2. Running(k) /\ task[k].op # "remove"
    BY <2>1 DEF Doing, Running
  <2>3. ASSUME task'[k] # Idle, <<By(k), OnPost(k)>> \notin raced PROVE Reads(k)'
    <3>1. OnPost(k)' = OnPost(k) /\ OnPost(k) \in living
      BY <2>1, <2>2, <2>3, OwnFacts DEF Proceeds, OnPost, Reads
    <3> QED BY <2>1, <3>1 DEF Reads, Doing
  <2> QED BY <2>1, <2>2, <2>3, StandsByReading
<1>4. CASE Deliver(k)
  <2>1. /\ Proceeds(k) /\ Running(k) /\ task[k].step = "deliver" /\ UNCHANGED <<living, rows, raced>>
        /\ task[k].op \in {"reblog", "unreblog", "favourite", "unfavourite", "reply"}
        /\ \/ /\ task'[k] \in Task /\ task'[k].step = FirstStepOf(EchoOf(task[k].op))
              /\ task'[k].op = EchoOf(task[k].op)
           \/ task[k].op = "reblog" /\ task'[k] \in Task /\ task'[k].step = "notify" /\ task'[k].op = "reblog"
           \/ task[k].op = "reply" /\ task'[k] = Idle
    BY <1>4, DeliverFacts DEF CountsSound, data, touchHistory
  <2>2. /\ task[k].op # "remove"
        /\ \/ task'[k] = Idle
           \/ task'[k].step = "notify" /\ task'[k].op # "delete"
           \/ task'[k].op \in {"UndoAnnounce", "Like", "UndoLike"}
           \/ task[k].op = "reblog" /\ task'[k].op = "Announce" /\ task'[k].step = "find"
           \/ task[k].op = "reply" /\ task'[k].op = "Create" /\ task'[k].step = "insert"
    BY <2>1 DEF EchoOf, FirstStepOf
  <2>3. CASE \/ task'[k] = Idle
             \/ task'[k].step = "notify" /\ task'[k].op # "delete"
             \/ task'[k].op \in {"UndoAnnounce", "Like", "UndoLike"}
    BY <2>1, <2>2, <2>3, TaskKinds, StandsQuietly
  <2>4. CASE task[k].op = "reblog" /\ task'[k].op = "Announce" /\ task'[k].step = "find"
    <3>1. ASSUME task'[k] # Idle, <<By(k), OnPost(k)>> \notin raced PROVE Reads(k)'
      <4>1. OnPost(k)' = OnPost(k) /\ By(k)' = By(k)
        BY <2>1, <3>1 DEF Proceeds, OnPost, By
      <4>2. OnPost(k) \in living /\ Boosts(By(k), OnPost(k)) # {}
        BY <2>1, <2>4, <3>1, OwnFacts DEF Reads, Doing
      <4>3. Boosts(By(k), OnPost(k))' # {}
        BY <2>1, <4>1, <4>2 DEF Boosts
      <4> QED BY <2>1, <2>4, <4>1, <4>2, <4>3 DEF Reads, Doing
    <3>2. ~Doing(k, {"delete"}, "drop")'
      BY <2>4 DEF Doing
    <3> QED BY <2>1, <3>1, <3>2, StandsByReading
  <2>5. CASE task[k].op = "reply" /\ task'[k].op = "Create" /\ task'[k].step = "insert"
    <3>1. ASSUME task'[k] # Idle, <<By(k), OnPost(k)>> \notin raced PROVE Reads(k)'
      <4>1. OnPost(k)' = OnPost(k) /\ By(k)' = By(k) /\ task'[k].id = task[k].id
        BY <2>1, <3>1 DEF Proceeds, OnPost, By
      <4>2. /\ OnPost(k) \in living
            /\ \E r \in rows : r.id = task[k].id /\ r.actor = By(k) /\ r.post = OnPost(k)
        BY <2>1, <2>5, <3>1, OwnFacts DEF Reads, Doing
      <4> QED BY <2>1, <2>5, <4>1, <4>2 DEF Reads, Doing
    <3>2. ~Doing(k, {"delete"}, "drop")'
      BY <2>5 DEF Doing
    <3> QED BY <2>1, <3>1, <3>2, StandsByReading
  <2> QED BY <2>2, <2>3, <2>4, <2>5
<1> QED BY <1>1, <1>2, <1>3, <1>4

LEMMA FewerStand ==
  ASSUME NEW a, NEW p, TablesAreFinite, rows' \subseteq rows, StandsAt(a, p), p \in living => p \in living'
  PROVE  StandsAt(a, p)'
<1>1. Boosts(a, p)' \subseteq Boosts(a, p) /\ IsFiniteSet(Boosts(a, p))
  BY FS_Subset DEF Boosts, TablesAreFinite
<1>2. Cardinality(Boosts(a, p)') <= 1
  <2>1. PICK S, T : S = Boosts(a, p)' /\ T = Boosts(a, p)
    OBVIOUS
  <2>2. Cardinality(S) \in Nat /\ Cardinality(T) \in Nat /\ Cardinality(S) <= Cardinality(T)
    BY <1>1, <2>1, FS_Subset, FS_CardinalityType
  <2> QED BY <2>1, <2>2 DEF StandsAt
<1> QED BY <1>1, <1>2 DEF StandsAt

(* A boost is inserted: the actor's only one, unless requests overlapped.  *)
LEMMA BoostStands ==
  ASSUME CountsSound, StandsSound, NEW k \in Slots, Running(k), Proceeds(k), UNCHANGED <<living, raced>>,
         NEW row, rows' = rows \cup {row}, row.kind = "boost", row.actor = By(k), row.post = OnPost(k),
         task[k].op # "delete", task'[k] \in Task,
         task'[k].step = "raise" \/ (task'[k].op = "reblog" /\ task'[k].step = "deliver"),
         <<By(k), OnPost(k)>> \notin raced =>
           /\ OnPost(k) \in living /\ Boosts(By(k), OnPost(k)) = {}
           /\ row.local <=> By(k) \in Members
  PROVE  StandsSound'
<1>1. PICK a \in Actors, p \in Posts : a = By(k) /\ p = OnPost(k)
  BY OwnFacts
<1>2. ASSUME <<a, p>> \notin raced PROVE StandsAt(a, p)' /\ Boosts(a, p)' # {}
  <2>1. Boosts(a, p)' = {row}
    BY <1>1, <1>2 DEF Boosts
  <2>2. Cardinality({row}) = 1
    BY FS_Singleton
  <2>3. p \in living' /\ (row.local <=> a \in Members)
    BY <1>1, <1>2
  <2>4. \A r \in rows : r.actor = a /\ r.post = p => (r.local <=> a \in Members)
    BY <1>1, <1>2, OwnFacts DEF StandsAt
  <2>5. \A r \in rows' : r.actor = a /\ r.post = p => (r.local <=> a \in Members)
    BY <2>3, <2>4
  <2>6. Cardinality(Boosts(a, p)') <= 1
    BY <2>1, <2>2
  <2> QED BY <2>1, <2>3, <2>5, <2>6 DEF StandsAt
<1>3. ASSUME task'[k] # Idle, <<By(k), OnPost(k)>> \notin raced PROVE Reads(k)'
  <2>1. OnPost(k)' = OnPost(k) /\ By(k)' = By(k)
    BY <1>3 DEF Proceeds, OnPost, By
  <2>2. Boosts(By(k), OnPost(k))' # {}
    BY <1>1, <1>2, <1>3, <2>1 DEF Boosts
  <2>3. OnPost(k)' \in living'
    BY <1>3, <2>1
  <2> QED BY <2>2, <2>3 DEF Reads, Doing
<1>4. ~Doing(k, {"delete"}, "drop")'
  BY DEF Doing
<1>5. \A r \in rows' : r \in rows \/ (r.actor = By(k) /\ r.post = OnPost(k))
  OBVIOUS
<1>6. \A b \in Actors : (b = By(k) \/ task[k].op = "delete") /\ <<b, p>> \notin raced => StandsAt(b, p)'
  BY <1>1, <1>2
<1> QED BY <1>1, <1>3, <1>4, <1>5, <1>6, StandsMove

(* A reply is inserted.                                                    *)
LEMMA ReplyStands ==
  ASSUME CountsSound, StandsSound, NEW k \in Slots, Running(k), Proceeds(k), UNCHANGED <<living, raced>>,
         NEW row, rows' = rows \cup {row}, row.kind = "reply", row.actor = By(k), row.post = OnPost(k),
         row.id = task[k].id, task[k].op \notin {"delete", "remove"}, task'[k] \in Task,
         task'[k].step = "raise" \/ (task'[k].op = "reply" /\ task'[k].step = "deliver"),
         <<By(k), OnPost(k)>> \notin raced => (row.local <=> By(k) \in Members)
  PROVE  StandsSound'
<1>1. PICK a \in Actors, p \in Posts : a = By(k) /\ p = OnPost(k)
  BY OwnFacts
<1>2. ASSUME <<a, p>> \notin raced PROVE StandsAt(a, p)'
  <2>1. Boosts(a, p)' = Boosts(a, p)
    BY <1>1, <1>2 DEF Boosts
  <2>2. StandsAt(a, p)
    BY <1>1, <1>2, OwnFacts
  <2>3. \A r \in rows' : r.actor = a /\ r.post = p => (r.local <=> a \in Members)
    BY <1>1, <1>2, <2>2 DEF StandsAt
  <2> QED BY <2>1, <2>2, <2>3 DEF StandsAt
<1>3. ASSUME task'[k] # Idle, <<By(k), OnPost(k)>> \notin raced PROVE Reads(k)'
  <2>1. OnPost(k)' = OnPost(k) /\ By(k)' = By(k) /\ task'[k].id = task[k].id
    BY <1>3 DEF Proceeds, OnPost, By
  <2>2. \E r \in rows' : r.id = task[k].id /\ r.actor = By(k) /\ r.post = OnPost(k)
    OBVIOUS
  <2>3. OnPost(k)' \in living'
    BY <1>3, <2>1, OwnFacts DEF Reads
  <2> QED BY <2>1, <2>2, <2>3 DEF Reads, Doing
<1>4. ~Doing(k, {"delete"}, "drop")'
  BY DEF Doing
<1>5. \A r \in rows' : r \in rows \/ (r.actor = By(k) /\ r.post = OnPost(k))
  OBVIOUS
<1>6. \A b \in Actors : (b = By(k) \/ task[k].op = "delete") /\ <<b, p>> \notin raced => StandsAt(b, p)'
  BY <1>1, <1>2
<1> QED BY <1>1, <1>3, <1>4, <1>5, <1>6, StandsMove

LEMMA InsertionsStand ==
  ASSUME CountsSound, StandsSound, NEW k \in Slots,
         Reblog(k) \/ InsertAnnounced(k) \/ Reply(k) \/ InsertCreated(k)
  PROVE  StandsSound'
<1>1. TasksSound
  BY DEF CountsSound
<1>2. CASE Reblog(k)
  <2>1. /\ Proceeds(k) /\ Doing(k, {"reblog"}, "write") /\ NewRow(k, "boost", TRUE) \in Row
        /\ task'[k] \in Task /\ task'[k].step = "deliver" /\ task'[k].op = "reblog"
    BY <1>1, <1>2, ReblogFacts
  <2>2. PICK row \in Row : /\ rows' = rows \cup {row} /\ row.kind = "boost" /\ row.actor = By(k)
                   /\ row.post = OnPost(k) /\ row.local
    BY <1>2, <2>1 DEF Reblog, NewRow
  <2>3. UNCHANGED <<living, raced>>
    BY <1>2 DEF Reblog, touchHistory
  <2>4. Running(k) /\ task[k].op = "reblog"
    BY <2>1 DEF Doing, Running
  <2>5. By(k) \in Members
    BY <2>4, OwnFacts DEF ApiOps
  <2>6. <<By(k), OnPost(k)>> \notin raced => OnPost(k) \in living /\ Boosts(By(k), OnPost(k)) = {}
    BY <2>1, <2>4, OwnFacts DEF Reads
  <2> QED BY <2>1, <2>2, <2>3, <2>4, <2>5, <2>6, BoostStands
<1>3. CASE InsertAnnounced(k)
  <2>1. /\ Proceeds(k) /\ Doing(k, {"Announce"}, "insert") /\ NewRow(k, "boost", FALSE) \in Row
        /\ task'[k] \in Task /\ task'[k].step = "raise" /\ task'[k].op = "Announce"
    BY <1>1, <1>3, InsertAnnouncedFacts
  <2>2. PICK row \in Row : /\ rows' = rows \cup {row} /\ row.kind = "boost" /\ row.actor = By(k)
                   /\ row.post = OnPost(k) /\ ~row.local
    BY <1>3, <2>1 DEF InsertAnnounced, NewRow
  <2>3. UNCHANGED <<living, raced>>
    BY <1>3 DEF InsertAnnounced, touchHistory
  <2>4. Running(k) /\ task[k].op = "Announce"
    BY <2>1 DEF Doing, Running
  <2>5. <<By(k), OnPost(k)>> \notin raced => OnPost(k) \in living /\ Boosts(By(k), OnPost(k)) = {}
                                             /\ By(k) \notin Members
    BY <2>1, <2>4, OwnFacts DEF Reads
  <2> QED BY <2>1, <2>2, <2>3, <2>4, <2>5, BoostStands
<1>4. CASE Reply(k)
  <2>1. /\ Proceeds(k) /\ Doing(k, {"reply"}, "write") /\ NewRow(k, "reply", TRUE) \in Row
        /\ task'[k] \in Task /\ task'[k].step = "deliver" /\ task'[k].op = "reply"
    BY <1>1, <1>4, ReplyFacts
  <2>2. PICK row \in Row : /\ rows' = rows \cup {row} /\ row.kind = "reply" /\ row.actor = By(k)
                   /\ row.post = OnPost(k) /\ row.local /\ row.id = task[k].id
    BY <1>4, <2>1 DEF Reply, NewRow
  <2>3. UNCHANGED <<living, raced>>
    BY <1>4 DEF Reply, touchHistory
  <2>4. Running(k) /\ task[k].op = "reply"
    BY <2>1 DEF Doing, Running
  <2>5. By(k) \in Members
    BY <2>4, OwnFacts DEF ApiOps
  <2> QED BY <2>1, <2>2, <2>3, <2>4, <2>5, ReplyStands
<1>5. CASE InsertCreated(k)
  <2>1. /\ Proceeds(k) /\ Doing(k, {"Create"}, "insert") /\ UNCHANGED <<living, raced>>
        /\ \/ HandlerDone(k) /\ UNCHANGED rows
           \/ /\ \A r \in rows : r.id # task[k].id
              /\ rows' = rows \cup {NewRow(k, "reply", FALSE)} /\ NewRow(k, "reply", FALSE) \in Row
              /\ task'[k] \in Task /\ task'[k].step = "raise" /\ task'[k].op = "Create"
    BY <1>1, <1>5, InsertCreatedFacts DEF touchHistory
  <2>2. Running(k) /\ task[k].op = "Create"
    BY <2>1 DEF Doing, Running
  <2>3. CASE HandlerDone(k) /\ UNCHANGED rows
    <3>1. task'[k] = Idle \/ task'[k].step = "notify"
      BY <1>1, <2>2, <2>3, DoneIsQuiet
    <3> QED BY <2>1, <2>2, <2>3, <3>1, TaskKinds, StandsQuietly
  <2>4. CASE /\ \A r \in rows : r.id # task[k].id
             /\ rows' = rows \cup {NewRow(k, "reply", FALSE)} /\ NewRow(k, "reply", FALSE) \in Row
             /\ task'[k] \in Task /\ task'[k].step = "raise" /\ task'[k].op = "Create"
    <3>1. PICK row \in Row : /\ rows' = rows \cup {row} /\ row.kind = "reply" /\ row.actor = By(k)
                     /\ row.post = OnPost(k) /\ ~row.local /\ row.id = task[k].id
      BY <2>4 DEF NewRow
    <3>2. <<By(k), OnPost(k)>> \notin raced => By(k) \notin Members
      BY <2>1, <2>2, <2>4, OwnFacts DEF Reads
    <3> QED BY <2>1, <2>2, <2>4, <3>1, <3>2, ReplyStands
  <2> QED BY <2>1, <2>3, <2>4
<1> QED BY <1>2, <1>3, <1>4, <1>5

LEMMA RemovalsStand ==
  ASSUME CountsSound, StandsSound, NEW k \in Slots, DropBoost(k) \/ RemoveReply(k)
  PROVE  StandsSound'
<1>1. TasksSound /\ TablesAreFinite
  BY DEF CountsSound
<1>2. /\ Proceeds(k) /\ (task'[k] = Idle \/ (task'[k].step = "lower" /\ task[k].op # "remove"))
      /\ Running(k) /\ task[k].op # "delete"
      /\ \A r \in task[k].seen : r.actor = By(k) /\ r.post = OnPost(k)
  <2>1. CASE DropBoost(k)
    <3>1. /\ Proceeds(k) /\ Doing(k, {"unreblog", "UndoAnnounce"}, "drop") /\ task'[k].step = "lower"
          /\ \A r \in task[k].seen : r.actor = By(k) /\ r.post = OnPost(k)
      BY <1>1, <2>1, DropBoostFacts
    <3> QED BY <3>1 DEF Doing, Running
  <2>2. CASE RemoveReply(k)
    <3>1. /\ Proceeds(k) /\ Doing(k, {"remove"}, "drop") /\ task'[k] = Idle
          /\ \A r \in task[k].seen : r.actor = By(k) /\ r.post = OnPost(k)
      BY <1>1, <2>2, RemoveReplyFacts
    <3> QED BY <3>1 DEF Doing, Running
  <2> QED BY <2>1, <2>2
<1>3. rows' = rows \ task[k].seen /\ UNCHANGED <<living, raced>>
  BY DEF DropBoost, RemoveReply
<1>4. PICK a \in Actors, p \in Posts : a = By(k) /\ p = OnPost(k)
  BY <1>2, OwnFacts
<1>5. \A b \in Actors : (b = By(k) \/ task[k].op = "delete") /\ <<b, p>> \notin raced => StandsAt(b, p)'
  <2>1. <<a, p>> \notin raced => StandsAt(a, p)
    BY <1>2, <1>4, OwnFacts
  <2>2. <<a, p>> \notin raced => StandsAt(a, p)'
    BY <1>1, <1>3, <2>1, FewerStand
  <2> QED BY <1>2, <1>4, <2>2
<1>6. ASSUME task'[k] # Idle, <<By(k), OnPost(k)>> \notin raced PROVE Reads(k)'
  <2>1. Reads(k) /\ task[k].op # "remove" /\ OnPost(k)' = OnPost(k)
    BY <1>2, <1>6, OwnFacts DEF Proceeds, OnPost
  <2>2. OnPost(k)' \in living'
    BY <1>3, <2>1 DEF Reads
  <2> QED BY <1>2, <1>6, <2>2 DEF Reads, Doing
<1>7. ~Doing(k, {"delete"}, "drop")'
  BY <1>2, TaskKinds DEF Doing
<1>8. /\ \A r \in rows' : r \in rows \/ (r.actor = By(k) /\ r.post = OnPost(k))
      /\ \A r \in rows : r \in rows' \/ (r.post = OnPost(k) /\ (r.actor = By(k) \/ task[k].op = "delete"))
  BY <1>2, <1>3
<1> QED BY <1>2, <1>3, <1>4, <1>5, <1>6, <1>7, <1>8, StandsMove

LEMMA DeletionStands ==
  ASSUME CountsSound, StandsSound, NEW k \in Slots, DeletePost(k)
  PROVE  StandsSound'
<1>1. TasksSound /\ TablesAreFinite
  BY DEF CountsSound
<1>2. /\ Proceeds(k) /\ Doing(k, {"delete"}, "drop") /\ task'[k] = Idle
      /\ \A r \in task[k].seen : r.kind = "boost" /\ r.post = OnPost(k)
  BY <1>1, DeletePostFacts
<1>3. rows' = rows \ task[k].seen /\ living' = living \ {OnPost(k)} /\ raced' = raced
  BY DEF DeletePost, touchHistory
<1>4. Running(k) /\ task[k].op = "delete"
  BY <1>2 DEF Doing, Running
<1>5. PICK p \in Posts : p = OnPost(k)
  BY <1>4, OwnFacts
<1>6. ASSUME NEW b \in Actors, <<b, p>> \notin raced PROVE StandsAt(b, p)'
  <2>1. Boosts(b, p)' = {}
    BY <1>2, <1>3, <1>5, <1>6 DEF Boosts, StandsSound, DeletionsSeeBoosts
  <2>2. Cardinality(Boosts(b, p)') <= 1
    BY <2>1, FS_EmptySet
  <2>3. \A r \in rows' : r.actor = b /\ r.post = p => (r.local <=> b \in Members)
    BY <1>3, <1>6 DEF StandsSound, StandsOnce
  <2> QED BY <2>1, <2>2, <2>3 DEF StandsAt
<1>7. ~Doing(k, {"delete"}, "drop")'
  BY <1>2, TaskKinds DEF Doing
<1> QED BY <1>2, <1>3, <1>4, <1>5, <1>6, <1>7, StandsMove

LEMMA BeginsStand ==
  ASSUME CountsSound, StandsSound, NEW k \in Slots, Begins(k)
  PROVE  StandsSound'
<1>1. TasksSound /\ InteractionsTypeOK
  BY DEF CountsSound, TasksSound
<1>2. PICK op \in Ops, a \in Actors, p \in Posts, seen \in SUBSET Row :
        /\ Enter(k, op, a, p, seen)
        /\ op \in ApiOps => a \in Members
        /\ op # "remove" => op \in ApiOps \cup HandlerOps /\ p \in living
        /\ op \in HandlerOps => a \notin Members
        /\ op = "remove" => \E r \in Row : seen = {r} /\ r.kind = "reply" /\ r.actor = a /\ r.post = p
  BY <1>1, BeginsFacts
<1>3. /\ task' \in [Slots -> Task \cup {Idle}] /\ \A j \in Slots \ {k} : task'[j] = task[j]
      /\ task'[k] \in Task /\ task'[k].step = FirstStepOf(op) /\ task'[k].op = op
      /\ By(k)' = a /\ OnPost(k)' = p
  BY <1>1, <1>2, EnterFits DEF By, OnPost
<1>4. /\ UNCHANGED <<living, rows>>
      /\ raced' = raced \cup {<<b, p>> : b \in
           UNION {{a, By(j)} : j \in {j \in Slots \ {k} : Meets(j, op, a, p)}}}
  BY <1>2 DEF Enter, data
<1>5. \A j \in Slots \ {k} : /\ Running(j)' <=> Running(j)
                             /\ By(j)' = By(j) /\ OnPost(j)' = OnPost(j)
  BY <1>3 DEF Running, By, OnPost
<1>6. ASSUME NEW j \in Slots \ {k}, Meets(j, op, a, p)
      PROVE  <<a, p>> \in raced' /\ <<By(j), p>> \in raced'
  BY <1>4, <1>6
<1>7. OverlapsAreKnown'
  <2> SUFFICES ASSUME NEW i \in Slots, NEW j \in Slots, i # j, Running(i)', Running(j)',
                      OnPost(i)' = OnPost(j)',
                      By(i)' = By(j)' \/ task'[i].op = "delete" \/ task'[j].op = "delete"
               PROVE  <<By(i)', OnPost(i)'>> \in raced'
    BY DEF OverlapsAreKnown
  <2>1. CASE i # k /\ j # k
    BY <1>3, <1>4, <1>5, <2>1 DEF StandsSound, OverlapsAreKnown
  <2>2. CASE i = k
    <3>1. Meets(j, op, a, p)
      BY <1>3, <1>5, <2>2 DEF Meets
    <3> QED BY <1>3, <1>6, <2>2, <3>1
  <2>3. CASE j = k
    <3>1. Meets(i, op, a, p)
      BY <1>3, <1>5, <2>3 DEF Meets
    <3> QED BY <1>3, <1>5, <1>6, <2>3, <3>1
  <2> QED BY <2>1, <2>2, <2>3
<1>8. ReadsStand'
  <2> SUFFICES ASSUME NEW j \in Slots, Running(j)', <<By(j), OnPost(j)>>' \notin raced' PROVE Reads(j)'
    BY DEF ReadsStand
  <2>1. CASE j = k
    <3>1. task'[k].op # "remove" => OnPost(k)' \in living'
      BY <1>2, <1>3, <1>4
    <3>2. /\ ~Doing(k, {"reblog"}, "write")' /\ ~Doing(k, {"Announce"}, "insert")'
          /\ ~Doing(k, {"reblog"}, "deliver")' /\ ~Doing(k, {"reply"}, "deliver")'
          /\ Doing(k, {"Announce"}, "find")' \/ Doing(k, {"Create"}, "insert")' => By(k)' \notin Members
      BY <1>2, <1>3 DEF Doing, FirstStepOf, HandlerOps
    <3> QED BY <2>1, <3>1, <3>2 DEF Reads
  <2>2. CASE j # k
    <3>1. task'[j] = task[j] /\ Running(j) /\ <<By(j), OnPost(j)>> \notin raced
      BY <1>3, <1>4, <1>5, <2>2
    <3>2. Reads(j)
      BY <3>1 DEF StandsSound, ReadsStand
    <3> QED BY <1>4, <3>1, <3>2 DEF Reads, Doing, By, OnPost, Boosts
  <2> QED BY <2>1, <2>2
<1>9. DeletionsSeeBoosts'
  <2>1. ~Doing(k, {"delete"}, "drop")'
    BY <1>3 DEF Doing, FirstStepOf
  <2>2. \A j \in Slots : Doing(j, {"delete"}, "drop")' =>
          j # k /\ task'[j] = task[j] /\ Doing(j, {"delete"}, "drop")
    BY <1>3, <2>1 DEF Doing
  <2> QED BY <1>4, <2>2 DEF StandsSound, DeletionsSeeBoosts, OnPost
<1>10. StandsOnce'
  BY <1>4 DEF StandsSound, StandsOnce, Boosts
<1> QED BY <1>7, <1>8, <1>9, <1>10 DEF StandsSound

LEMMA UntouchedStands ==
  ASSUME StandsSound, UNCHANGED <<living, rows, task, raced>>
  PROVE  StandsSound'
BY DEF StandsSound, OverlapsAreKnown, ReadsStand, Reads, DeletionsSeeBoosts, StandsOnce, Boosts,
       Doing, Running, By, OnPost

LEMMA StandsBegin == InteractionsInit => StandsSound
<1> SUFFICES ASSUME InteractionsInit PROVE StandsSound
  OBVIOUS
<1>1. \A k \in Slots : ~Running(k) /\ task[k].step = "idle"
  BY DEF InteractionsInit, Running, Idle
<1>2. \A a, p : Boosts(a, p) = {}
  BY DEF InteractionsInit, Boosts
<1>3. \A a, p : Cardinality(Boosts(a, p)) = 0
  BY <1>2, FS_EmptySet
<1> QED BY <1>1, <1>2, <1>3
    DEF InteractionsInit, StandsSound, OverlapsAreKnown, ReadsStand, DeletionsSeeBoosts, StandsOnce, Doing

LEMMA StandsStep ==
  CountsSound /\ StandsSound /\ [InteractionsNext]_interactionVars => StandsSound'
<1> SUFFICES ASSUME CountsSound, StandsSound, [InteractionsNext]_interactionVars PROVE StandsSound'
  OBVIOUS
<1>1. CASE UNCHANGED interactionVars
  BY <1>1, UntouchedStands DEF interactionVars, data, touchHistory
<1>2. ASSUME NEW gone \in SUBSET notes, Dismissed(gone) PROVE StandsSound'
  <2>1. UNCHANGED <<living, rows, task, raced>>
    BY <1>2 DEF Dismissed, data
  <2> QED BY <2>1, UntouchedStands
<1>3. ASSUME NEW k \in Slots, Acts(k) PROVE StandsSound'
  BY <1>3, QuietStands, ReadingStands, InsertionsStand, RemovalsStand, DeletionStands DEF Acts
<1> QED BY <1>1, <1>2, <1>3, NextIsOneOf, BeginsStand

(* Boosts, favourites and replies are counted however calls, inbox         *)
(* handlers and echoes interleave (adjust_counts beside add_favourite,     *)
(* insert_status and delete_status), except for the drifts the code        *)
(* accepts; and reblog and AnnounceHandler leave an actor one boost of a   *)
(* post, except where its own requests overlapped.                         *)
THEOREM WhatStandsIsCounted == InteractionsSpec => []RowsAndCountersAgree
<1>1. InteractionsInit => CountsSound /\ StandsSound
  BY CountsBegin, StandsBegin
<1>2. (CountsSound /\ StandsSound) /\ [InteractionsNext]_interactionVars => (CountsSound /\ StandsSound)'
  BY CountsStep, StandsStep
<1>3. CountsSound /\ StandsSound => RowsAndCountersAgree
  BY DEF CountsSound, StandsSound, RowsAndCountersAgree
<1> QED BY <1>1, <1>2, <1>3, PTL DEF InteractionsSpec

-----------------------------------------------------------------------------
(* Interactions: whom the author hears of.  An act that stands is told of, *)
(* or a request under way still has it to tell.                            *)

Told == {"reblogs", "favourites"}

CallOf(c)    == IF c = "reblogs" THEN "reblog" ELSE "favourite"
HandlerOf(c) == IF c = "reblogs" THEN "Announce" ELSE "Like"

(* Request t comes to its notification about c, unless it breaks off: the  *)
(* call itself, its echo, or the handler that inserted the act.            *)
WillTell(t, c) ==
  /\ t # Idle
  /\ \/ t.step = "deliver" /\ t.op = CallOf(c)
     \/ t.step = "notify" /\ t.op \in {CallOf(c), HandlerOf(c)}
     \/ t.step = "raise" /\ t.op = HandlerOf(c)
     \/ t.after = CallOf(c)

ActStands(c, p, a) == IF c = "reblogs" THEN Boosts(a, p) # {} ELSE a \in favs[p]

Heard(c, p, a) ==
  \/ <<c, p, a>> \in untold
  \/ \E n \in notes : n.about = c /\ n.post = p /\ n.from = a

ToBeTold(c, p, a) == \E k \in Slots : By(k) = a /\ OnPost(k) = p /\ WillTell(task[k], c)

ActsAreTold ==
  \A p \in living : \A a \in Actors \ {AuthorOf[p]} : \A c \in Told :
    ActStands(c, p, a) => Heard(c, p, a) \/ ToBeTold(c, p, a)

(* One request goes on: no act stands anew but one it will tell of, what   *)
(* the author heard stays heard, and what it was to tell it tells or still *)
(* will.                                                                   *)
LEMMA TellingMoves ==
  ASSUME TasksSound, ActsAreTold, NEW k \in Slots, NEW a \in Actors, NEW p \in Posts,
         Running(k), By(k) = a, OnPost(k) = p, Proceeds(k), living' \subseteq living,
         \A q \in living' : \A b \in Actors : \A c \in Told :
           ActStands(c, q, b)' => \/ ActStands(c, q, b)
                                  \/ b = a /\ q = p /\ WillTell(task'[k], c),
         \A q, b, c : Heard(c, q, b) => Heard(c, q, b)',
         a # AuthorOf[p] /\ p \in living' =>
           \A c \in Told : WillTell(task[k], c) => WillTell(task'[k], c) \/ Heard(c, p, a)'
  PROVE  ActsAreTold'
<1> SUFFICES ASSUME NEW q \in living', NEW b \in Actors \ {AuthorOf[q]}, NEW c \in Told,
                    ActStands(c, q, b)', ~Heard(c, q, b)'
             PROVE  \E j \in Slots : By(j)' = b /\ OnPost(j)' = q /\ WillTell(task'[j], c)
  BY DEF ActsAreTold, ToBeTold
<1>1. WillTell(task'[k], c) => By(k)' = a /\ OnPost(k)' = p
  BY DEF WillTell, Proceeds, By, OnPost
<1>2. CASE b = a /\ q = p /\ WillTell(task'[k], c)
  BY <1>1, <1>2
<1>3. CASE ~(b = a /\ q = p /\ WillTell(task'[k], c))
  <2>1. PICK j \in Slots : By(j) = b /\ OnPost(j) = q /\ WillTell(task[j], c)
    BY <1>3 DEF ActsAreTold, ToBeTold
  <2>2. CASE j = k
    BY <1>3, <2>1, <2>2
  <2>3. CASE j # k
    <3>1. task'[j] = task[j]
      BY <2>3 DEF Proceeds
    <3> QED BY <2>1, <3>1 DEF By, OnPost
  <2> QED BY <2>2, <2>3
<1> QED BY <1>2, <1>3

(* Which requests those are, and how an echo gives the task back.          *)
LEMMA PromiseFacts ==
  ASSUME TasksSound, NEW k \in Slots, NEW c \in Told, WillTell(task[k], c)
  PROVE  /\ task[k].op \in {CallOf(c), HandlerOf(c)} /\ CounterOf(task[k].op) = c
         /\ task[k].op = CallOf(c) => task[k].step \in {"deliver", "notify"}
         /\ task[k].op = HandlerOf(c) /\ task[k].after # CallOf(c) => task[k].step \in {"raise", "notify"}
<1>1. task[k] # Idle /\ TaskFits(task[k])
  BY DEF WillTell, TasksSound, TasksFit
<1>2. /\ task[k].after = "reblog" => task[k].op = "Announce"
      /\ task[k].after = "favourite" => task[k].op = "Like"
  BY <1>1 DEF TaskFits
<1>3. CASE c = "reblogs"
  <2>1. CallOf(c) = "reblog" /\ HandlerOf(c) = "Announce"
    BY <1>3 DEF CallOf, HandlerOf
  <2>2. task[k].op \in {"reblog", "Announce"}
    BY <1>2, <2>1 DEF WillTell
  <2> QED BY <1>2, <1>3, <2>1, <2>2, CounterFacts DEF WillTell
<1>4. CASE c = "favourites"
  <2>1. CallOf(c) = "favourite" /\ HandlerOf(c) = "Like"
    BY <1>4 DEF CallOf, HandlerOf
  <2>2. task[k].op \in {"favourite", "Like"}
    BY <1>2, <2>1 DEF WillTell
  <2> QED BY <1>2, <1>4, <2>1, <2>2, CounterFacts DEF WillTell
<1> QED BY <1>3, <1>4 DEF Told

LEMMA DoneStillTells ==
  ASSUME TasksSound, NEW k \in Slots, NEW c \in Told, Running(k), HandlerDone(k),
         task[k].op # "delete", task[k].after = CallOf(c)
  PROVE  WillTell(task'[k], c)
<1>1. task[k].after # "none"
  BY DEF CallOf
<1>2. task'[k] \in Task /\ task'[k].step = "notify" /\ task'[k].op = CallOf(c)
  BY <1>1, DoneFits
<1> QED BY <1>2, TaskKinds DEF WillTell

(* Steps after which the same acts stand and the same notifications, by a  *)
(* request that has nothing to tell, or still has it.                      *)
LEMMA TellsQuietly ==
  ASSUME TasksSound, ActsAreTold, NEW k \in Slots, Running(k), Proceeds(k),
         UNCHANGED <<notes, untold>>, living' \subseteq living,
         \A q \in living' : favs'[q] \subseteq favs[q],
         \A r \in rows' : r.kind = "boost" => r \in rows,
         \A c \in Told : WillTell(task[k], c) => WillTell(task'[k], c)
  PROVE  ActsAreTold'
<1>1. PICK a \in Actors, p \in Posts : By(k) = a /\ OnPost(k) = p
  BY RunningFacts DEF TasksSound
<1>2. \A q \in living' : \A b \in Actors : \A c \in Told : ActStands(c, q, b)' => ActStands(c, q, b)
  BY DEF ActStands, Boosts
<1>3. \A q, b, c : Heard(c, q, b) => Heard(c, q, b)'
  BY DEF Heard
<1> QED BY <1>1, <1>2, <1>3, TellingMoves

LEMMA NothingToTell ==
  ASSUME TasksSound, NEW k \in Slots,
         \/ task[k].op \notin {"reblog", "favourite", "Announce", "Like"}
         \/ task[k].op \in {"reblog", "favourite"} /\ task[k].step \in {"find", "write"}
  PROVE  \A c \in Told : ~WillTell(task[k], c)
BY PromiseFacts DEF CallOf, HandlerOf

LEMMA UnsaidTells ==
  ASSUME TasksSound, ActsAreTold, NEW k \in Slots,
         \/ FindToBoost(k) \/ FindToUndo(k) \/ DropBoost(k) \/ Unfavourite(k) \/ DropLike(k)
         \/ Reply(k) \/ InsertCreated(k) \/ RemoveReply(k) \/ ScanBoosts(k) \/ LowerCount(k)
         \/ DeletePost(k)
  PROVE  ActsAreTold'
<1>1. InteractionsTypeOK
  BY DEF TasksSound
<1>2. CASE FindToBoost(k)
  <2>1. Proceeds(k) /\ Running(k) /\ task[k].op = "reblog" /\ task[k].step = "find"
    BY <1>2, FindToBoostFacts, TaskKinds DEF Doing, Running
  <2>2. UNCHANGED <<data, notes, untold>>
    BY <1>2 DEF FindToBoost, touchHistory
  <2> QED BY <2>1, <2>2, NothingToTell, TellsQuietly DEF data
<1>3. CASE FindToUndo(k)
  <2>1. Proceeds(k) /\ Running(k) /\ task[k].op \in {"unreblog", "UndoAnnounce"}
    BY <1>3, FindToUndoFacts DEF Doing, Running
  <2>2. UNCHANGED <<data, notes, untold>>
    BY <1>3 DEF FindToUndo, touchHistory
  <2> QED BY <2>1, <2>2, NothingToTell, TellsQuietly DEF data
<1>4. CASE DropBoost(k)
  <2>1. Proceeds(k) /\ Running(k) /\ task[k].op \in {"unreblog", "UndoAnnounce"}
    BY <1>4, DropBoostFacts DEF Doing, Running
  <2>2. rows' \subseteq rows /\ UNCHANGED <<living, favs, notes, untold>>
    BY <1>4 DEF DropBoost
  <2> QED BY <2>1, <2>2, NothingToTell, TellsQuietly
<1>5. CASE Unfavourite(k)
  <2>1. Proceeds(k) /\ Running(k) /\ task[k].op = "unfavourite"
    BY <1>5, UnfavouriteFacts DEF Doing, Running
  <2>2. /\ UNCHANGED <<living, rows, notes, untold>>
        /\ favs' = favs \/ favs' = [favs EXCEPT ![OnPost(k)] = @ \ {By(k)}]
    BY <1>5, UnfavouriteFacts
  <2>3. \A q \in living' : favs'[q] \subseteq favs[q]
    BY <1>1, <2>2 DEF InteractionsTypeOK
  <2> QED BY <2>1, <2>2, <2>3, NothingToTell, TellsQuietly
<1>6. CASE DropLike(k)
  <2>1. Proceeds(k) /\ Running(k) /\ task[k].op = "UndoLike"
    BY <1>6, DropLikeFacts DEF Doing, Running
  <2>2. /\ UNCHANGED <<living, rows, notes, untold>>
        /\ favs' = [favs EXCEPT ![OnPost(k)] = @ \ {By(k)}]
    BY <1>6 DEF DropLike, touchHistory
  <2>3. \A q \in living' : favs'[q] \subseteq favs[q]
    BY <1>1, <2>2 DEF InteractionsTypeOK
  <2> QED BY <2>1, <2>2, <2>3, NothingToTell, TellsQuietly
<1>7. CASE Reply(k)
  <2>1. Proceeds(k) /\ Running(k) /\ task[k].op = "reply"
    BY <1>7, ReplyFacts DEF Doing, Running
  <2>2. /\ rows' = rows \cup {NewRow(k, "reply", TRUE)} /\ NewRow(k, "reply", TRUE).kind = "reply"
        /\ UNCHANGED <<living, favs, notes, untold>>
    BY <1>7 DEF Reply, NewRow, touchHistory
  <2> QED BY <2>1, <2>2, NothingToTell, TellsQuietly
<1>8. CASE InsertCreated(k)
  <2>1. Proceeds(k) /\ Running(k) /\ task[k].op = "Create"
    BY <1>8, InsertCreatedFacts DEF Doing, Running
  <2>2. /\ rows' \subseteq rows \cup {NewRow(k, "reply", FALSE)} /\ NewRow(k, "reply", FALSE).kind = "reply"
        /\ UNCHANGED <<living, favs, notes, untold>>
    BY <1>8 DEF InsertCreated, NewRow, touchHistory
  <2> QED BY <2>1, <2>2, NothingToTell, TellsQuietly
<1>9. CASE RemoveReply(k)
  <2>1. Proceeds(k) /\ Running(k) /\ task[k].op = "remove"
    BY <1>9, RemoveReplyFacts DEF Doing, Running
  <2>2. rows' \subseteq rows /\ UNCHANGED <<living, favs, notes, untold>>
    BY <1>9 DEF RemoveReply
  <2> QED BY <2>1, <2>2, NothingToTell, TellsQuietly
<1>10. CASE ScanBoosts(k)
  <2>1. Proceeds(k) /\ Running(k) /\ task[k].op = "delete"
    BY <1>10, ScanBoostsFacts DEF Doing, Running
  <2>2. UNCHANGED <<data, notes, untold>>
    BY <1>10 DEF ScanBoosts, touchHistory
  <2> QED BY <2>1, <2>2, NothingToTell, TellsQuietly DEF data
<1>11. CASE LowerCount(k)
  <2>1. Proceeds(k) /\ Running(k) /\ task[k].op \in {"unreblog", "UndoAnnounce", "UndoLike"}
    BY <1>11, LowerCountFacts
  <2>2. UNCHANGED <<living, rows, favs, notes, untold>>
    BY <1>11 DEF LowerCount
  <2> QED BY <2>1, <2>2, NothingToTell, TellsQuietly
<1>12. CASE DeletePost(k)
  <2>1. Proceeds(k) /\ Running(k) /\ task[k].op = "delete"
    BY <1>12, DeletePostFacts DEF Doing, Running
  <2>2. /\ living' \subseteq living /\ rows' \subseteq rows /\ UNCHANGED <<notes, untold>>
        /\ favs' = [favs EXCEPT ![OnPost(k)] = {}]
    BY <1>12 DEF DeletePost, touchHistory
  <2>3. \A q \in living' : favs'[q] \subseteq favs[q]
    BY <1>1, <2>2 DEF InteractionsTypeOK
  <2> QED BY <2>1, <2>2, <2>3, NothingToTell, TellsQuietly
<1> QED BY <1>2, <1>3, <1>4, <1>5, <1>6, <1>7, <1>8, <1>9, <1>10, <1>11, <1>12

(* The steps of an echo, of a handler and of a delivery pass the task on.  *)
LEMMA PassingOnTells ==
  ASSUME TasksSound, ActsAreTold, NEW k \in Slots,
         FindAnnounced(k) \/ RaiseCount(k) \/ Deliver(k)
  PROVE  ActsAreTold'
<1>1. CASE FindAnnounced(k)
  <2>1. Proceeds(k) /\ Running(k) /\ task[k].op = "Announce" /\ task[k].step = "find"
    BY <1>1, FindAnnouncedFacts DEF Doing, Running
  <2>2. UNCHANGED <<data, notes, untold>>
    BY <1>1 DEF FindAnnounced, touchHistory
  <2>3. ASSUME NEW c \in Told, WillTell(task[k], c) PROVE WillTell(task'[k], c)
    <3>1. task[k].after = CallOf(c)
      BY <2>1, <2>3 DEF WillTell
    <3>2. CASE HandlerDone(k)
      BY <2>1, <3>1, <3>2, DoneStillTells
    <3>3. CASE task'[k] \in Task /\ task'[k].after = task[k].after
      BY <3>1, <3>3, TaskKinds DEF WillTell
    <3> QED BY <1>1, <3>2, <3>3, FindAnnouncedFacts
  <2> QED BY <2>1, <2>2, <2>3, TellsQuietly DEF data
<1>2. CASE RaiseCount(k)
  <2>1. Proceeds(k) /\ Running(k) /\ task[k].op \in {"Announce", "Like", "Create"}
    BY <1>2, RaiseCountFacts
  <2>2. UNCHANGED <<living, rows, favs, notes, untold>>
    BY <1>2 DEF RaiseCount, touchHistory
  <2>3. ASSUME NEW c \in Told, WillTell(task[k], c) PROVE WillTell(task'[k], c)
    <3>1. task[k].op = HandlerOf(c) /\ task[k].op # "Create"
      BY <2>1, <2>3, PromiseFacts DEF CallOf, HandlerOf
    <3>2. task'[k] \in Task /\ task'[k].step = "notify" /\ task'[k].op = task[k].op
      BY <1>2, <3>1, RaiseCountFacts
    <3> QED BY <3>1, <3>2, TaskKinds DEF WillTell
  <2> QED BY <2>1, <2>2, <2>3, TellsQuietly
<1>3. CASE Deliver(k)
  <2>1. Proceeds(k) /\ Running(k)
        /\ task[k].op \in {"reblog", "unreblog", "favourite", "unfavourite", "reply"}
    BY <1>3, DeliverFacts
  <2>2. UNCHANGED <<data, notes, untold>>
    BY <1>3 DEF Deliver, touchHistory
  <2>3. ASSUME NEW c \in Told, WillTell(task[k], c) PROVE WillTell(task'[k], c)
    <3>1. task[k].op = CallOf(c) /\ task[k].op \in {"reblog", "favourite"}
      BY <2>1, <2>3, PromiseFacts DEF CallOf, HandlerOf
    <3>2. CASE task'[k] \in Task /\ task'[k].after = AfterEcho(task[k].op)
      BY <3>1, <3>2, TaskKinds DEF WillTell, AfterEcho
    <3>3. CASE task'[k] \in Task /\ task'[k].step = "notify" /\ task'[k].op = task[k].op
      BY <3>1, <3>3, TaskKinds DEF WillTell
    <3> QED BY <1>3, <3>1, <3>2, <3>3, DeliverFacts
  <2> QED BY <2>1, <2>2, <2>3, TellsQuietly DEF data
<1> QED BY <1>1, <1>2, <1>3

(* The steps that create the act.                                          *)
LEMMA ActingTells ==
  ASSUME TasksSound, ActsAreTold, NEW k \in Slots,
         Reblog(k) \/ InsertAnnounced(k) \/ Favourite(k) \/ InsertLike(k)
  PROVE  ActsAreTold'
<1>1. InteractionsTypeOK
  BY DEF TasksSound
<1>2. /\ Proceeds(k) /\ Running(k)
      /\ task[k].op \in {"reblog", "Announce", "favourite", "Like"}
      /\ task[k].step \in {"write", "insert"}
      /\ task[k].op \in {"reblog", "favourite"} => task[k].step = "write"
  BY ReblogFacts, InsertAnnouncedFacts, FavouriteFacts, InsertLikeFacts DEF Doing, Running
<1>3. PICK a \in Actors, p \in Posts : By(k) = a /\ OnPost(k) = p
  BY <1>1, <1>2, RunningFacts
<1>4. UNCHANGED <<living, notes, untold>>
  BY DEF Reblog, InsertAnnounced, Favourite, InsertLike, touchHistory
<1>5. \A q, b, c : Heard(c, q, b) => Heard(c, q, b)'
  BY <1>4 DEF Heard
<1>6. CASE Reblog(k) \/ InsertAnnounced(k)
  <2>1. /\ favs' = favs
        /\ \A r \in rows' : r \in rows \/ (r.actor = a /\ r.post = p)
    <3>1. /\ NewRow(k, "boost", TRUE).actor = a /\ NewRow(k, "boost", TRUE).post = p
          /\ NewRow(k, "boost", FALSE).actor = a /\ NewRow(k, "boost", FALSE).post = p
      BY <1>3 DEF NewRow
    <3>2. /\ favs' = favs
          /\ rows' \subseteq rows \cup {NewRow(k, "boost", TRUE), NewRow(k, "boost", FALSE)}
      BY <1>6 DEF Reblog, InsertAnnounced
    <3> QED BY <3>1, <3>2
  <2>2. WillTell(task'[k], "reblogs")
    BY <1>6, ReblogFacts, InsertAnnouncedFacts, TaskKinds DEF WillTell, CallOf, HandlerOf
  <2>3. \A q \in living' : \A b \in Actors : \A c \in Told :
          ActStands(c, q, b)' => \/ ActStands(c, q, b)
                                 \/ b = a /\ q = p /\ WillTell(task'[k], c)
    BY <2>1, <2>2 DEF ActStands, Boosts, Told
  <2>4. ASSUME NEW c \in Told, WillTell(task[k], c) PROVE WillTell(task'[k], c)
    <3>1. task[k].op = HandlerOf(c) /\ InsertAnnounced(k)
      BY <1>2, <1>6, <2>4, PromiseFacts, ReblogFacts DEF Doing, CallOf, HandlerOf
    <3>2. c = "reblogs"
      BY <3>1, InsertAnnouncedFacts DEF Doing, HandlerOf, Told
    <3> QED BY <2>2, <3>2
  <2> QED BY <1>2, <1>3, <1>4, <1>5, <2>3, <2>4, TellingMoves
<1>7. CASE Favourite(k) \/ InsertLike(k)
  <2>1. rows' = rows
    BY <1>7 DEF Favourite, InsertLike
  <2>2. \/ favs' = favs
        \/ /\ favs' = [favs EXCEPT ![p] = @ \cup {a}]
           /\ WillTell(task'[k], "favourites")
    BY <1>3, <1>7, FavouriteFacts, InsertLikeFacts, TaskKinds DEF WillTell, CallOf, HandlerOf
  <2>3. \A q \in Posts, b \in Actors :
          b \in favs'[q] => b \in favs[q] \/ (b = a /\ q = p /\ WillTell(task'[k], "favourites"))
    <3>1. CASE favs' = favs
      BY <3>1
    <3>2. CASE favs' = [favs EXCEPT ![p] = @ \cup {a}] /\ WillTell(task'[k], "favourites")
      <4>1. \A q \in Posts, b \in Actors : b \in favs'[q] => b \in favs[q] \/ (b = a /\ q = p)
        BY <1>1, <3>2 DEF InteractionsTypeOK
      <4> QED BY <3>2, <4>1
    <3> QED BY <2>2, <3>1, <3>2
  <2>4. \A q \in living' : \A b \in Actors : \A c \in Told :
          ActStands(c, q, b)' => \/ ActStands(c, q, b)
                                 \/ b = a /\ q = p /\ WillTell(task'[k], c)
    BY <1>1, <1>4, <2>1, <2>3 DEF ActStands, Boosts, Told, InteractionsTypeOK
  <2>5. ASSUME NEW c \in Told, WillTell(task[k], c), p \in living' PROVE WillTell(task'[k], c)
    <3>1. task[k].op = HandlerOf(c) /\ InsertLike(k)
      BY <1>2, <1>7, <2>5, PromiseFacts, FavouriteFacts DEF Doing, CallOf, HandlerOf
    <3>2. c = "favourites" /\ task[k].op = "Like" /\ task[k].step = "insert"
      BY <3>1, InsertLikeFacts DEF Doing, HandlerOf, Told
    <3>3. task[k].after = CallOf(c)
      BY <1>2, <2>5, <3>1, <3>2, PromiseFacts
    <3>4. CASE HandlerDone(k)
      BY <1>2, <3>2, <3>3, <3>4, DoneStillTells
    <3>5. CASE task'[k] \in Task /\ task'[k].step = "raise" /\ task'[k].op = "Like"
      BY <3>2, <3>5, TaskKinds DEF WillTell, HandlerOf
    <3> QED BY <1>3, <1>4, <2>5, <3>1, <3>4, <3>5, InsertLikeFacts
  <2> QED BY <1>2, <1>3, <1>4, <1>5, <2>4, <2>5, TellingMoves
<1> QED BY <1>6, <1>7

(* The notification itself.                                                *)
LEMMA NotifyTells ==
  ASSUME TasksSound, ActsAreTold, NEW k \in Slots, Notify(k)
  PROVE  ActsAreTold'
<1>1. /\ Proceeds(k) /\ HandlerDone(k) /\ Running(k) /\ task[k].step = "notify"
      /\ task[k].op \in {"reblog", "favourite", "Announce", "Like"}
      /\ UNCHANGED <<living, rows, favs>>
  BY NotifyFacts DEF data
<1>2. PICK a \in Actors, p \in Posts : By(k) = a /\ OnPost(k) = p
  BY <1>1, RunningFacts DEF TasksSound
<1>3. PICK d \in Told : d = CounterOf(task[k].op)
  BY NotifyFacts DEF Told
<1>4. \/ a = AuthorOf[p] /\ UNCHANGED <<notes, untold>>
      \/ a # AuthorOf[p] /\ untold' = untold \cup {<<d, p, a>>} /\ notes' = notes
      \/ /\ a # AuthorOf[p]
         /\ notes' = notes \cup {[about |-> d, post |-> p, from |-> a, local |-> task[k].op \in ApiOps]}
         /\ untold' = untold \ {<<d, p, a>>}
  BY <1>2, <1>3 DEF Notify
<1>5. a # AuthorOf[p] => Heard(d, p, a)'
  <2>1. CASE untold' = untold \cup {<<d, p, a>>}
    BY <2>1 DEF Heard
  <2>2. CASE notes' = notes \cup {[about |-> d, post |-> p, from |-> a, local |-> task[k].op \in ApiOps]}
    <3>1. [about |-> d, post |-> p, from |-> a, local |-> task[k].op \in ApiOps] \in notes'
      BY <2>2
    <3> QED BY <3>1 DEF Heard
  <2> QED BY <1>4, <2>1, <2>2
<1>6. \A q, b, c : Heard(c, q, b) => Heard(c, q, b)'
  <2> SUFFICES ASSUME NEW q, NEW b, NEW c, Heard(c, q, b) PROVE Heard(c, q, b)'
    OBVIOUS
  <2>1. CASE c = d /\ q = p /\ b = a /\ a # AuthorOf[p]
    BY <1>5, <2>1
  <2>2. CASE ~(c = d /\ q = p /\ b = a /\ a # AuthorOf[p])
    BY <1>4, <2>2 DEF Heard
  <2> QED BY <2>1, <2>2
<1>7. \A q \in living' : \A b \in Actors : \A c \in Told : ActStands(c, q, b)' => ActStands(c, q, b)
  BY <1>1 DEF ActStands, Boosts
<1>8. ASSUME a # AuthorOf[p], NEW c \in Told, WillTell(task[k], c)
      PROVE  WillTell(task'[k], c) \/ Heard(c, p, a)'
  <2>1. c = d
    BY <1>3, <1>8, PromiseFacts
  <2> QED BY <1>5, <1>8, <2>1
<1>9. living' \subseteq living
  BY <1>1
<1> QED BY <1>1, <1>2, <1>6, <1>7, <1>8, <1>9, TellingMoves

LEMMA AbandonTells ==
  ASSUME TasksSound, ActsAreTold, NEW k \in Slots, Abandon(k)
  PROVE  ActsAreTold'
<1>1. Proceeds(k) /\ Running(k) /\ UNCHANGED <<living, rows, favs, notes>>
  BY AbandonFacts DEF data
<1>2. PICK a \in Actors, p \in Posts : By(k) = a /\ OnPost(k) = p
  BY <1>1, RunningFacts DEF TasksSound
<1>3. untold' = untold \cup {<<CounterOf(task[k].op), p, a>>}
  BY <1>2 DEF Abandon
<1>4. \A q, b, c : Heard(c, q, b) => Heard(c, q, b)'
  BY <1>1, <1>3 DEF Heard
<1>5. \A q \in living' : \A b \in Actors : \A c \in Told : ActStands(c, q, b)' => ActStands(c, q, b)
  BY <1>1 DEF ActStands, Boosts
<1>6. ASSUME NEW c \in Told, WillTell(task[k], c) PROVE Heard(c, p, a)'
  BY <1>3, <1>6, PromiseFacts DEF Heard
<1>7. living' \subseteq living
  BY <1>1
<1> QED BY <1>1, <1>2, <1>4, <1>5, <1>6, <1>7, TellingMoves

LEMMA BeginsTells ==
  ASSUME TasksSound, ActsAreTold, NEW k \in Slots, Begins(k)
  PROVE  ActsAreTold'
<1>1. PICK op \in Ops, a \in Actors, p \in Posts, seen \in SUBSET Row :
        /\ Enter(k, op, a, p, seen)
        /\ op \in ApiOps => a \in Members
        /\ op = "remove" => \E r \in Row : seen = {r} /\ r.kind = "reply" /\ r.actor = a /\ r.post = p
  BY BeginsFacts
<1>2. \A j \in Slots \ {k} : task'[j] = task[j]
  BY <1>1, EnterFits
<1>3. UNCHANGED <<living, rows, favs, notes, untold>> /\ task[k].step = "idle"
  BY <1>1 DEF Enter, data, Running
<1>4. ~Running(k) /\ task[k] = Idle
  BY <1>3, RunningFacts DEF Running, TasksSound
<1>5. \A q, b, c : ToBeTold(c, q, b) => ToBeTold(c, q, b)'
  <2> SUFFICES ASSUME NEW q, NEW b, NEW c, NEW j \in Slots, By(j) = b, OnPost(j) = q, WillTell(task[j], c)
               PROVE  ToBeTold(c, q, b)'
    BY DEF ToBeTold
  <2>1. j # k
    BY <1>4 DEF WillTell
  <2> QED BY <1>2, <2>1 DEF ToBeTold, By, OnPost
<1> QED BY <1>3, <1>5 DEF ActsAreTold, ActStands, Boosts, Heard

LEMMA DismissedTells ==
  ASSUME TasksSound, ActsAreTold, NEW gone \in SUBSET notes, Dismissed(gone)
  PROVE  ActsAreTold'
<1>1. /\ UNCHANGED <<living, rows, favs, task>>
      /\ notes' = notes \ gone
      /\ untold' = untold \cup {<<n.about, n.post, n.from>> : n \in gone}
  BY DEF Dismissed, data
<1>2. \A q, b, c : Heard(c, q, b) => Heard(c, q, b)'
  BY <1>1 DEF Heard
<1>3. \A q, b, c : ToBeTold(c, q, b) => ToBeTold(c, q, b)'
  BY <1>1 DEF ToBeTold, By, OnPost
<1> QED BY <1>1, <1>2, <1>3 DEF ActsAreTold, ActStands, Boosts

LEMMA TellingStep ==
  CountsSound /\ ActsAreTold /\ [InteractionsNext]_interactionVars => ActsAreTold'
<1> SUFFICES ASSUME TasksSound, ActsAreTold, [InteractionsNext]_interactionVars PROVE ActsAreTold'
  BY DEF CountsSound
<1>1. CASE UNCHANGED interactionVars
  BY <1>1 DEF interactionVars, data, touchHistory, ActsAreTold, ActStands, Boosts, Heard, ToBeTold, By, OnPost
<1>2. ASSUME NEW k \in Slots, Acts(k) PROVE ActsAreTold'
  BY <1>2, UnsaidTells, PassingOnTells, ActingTells, NotifyTells, AbandonTells DEF Acts
<1> QED BY <1>1, <1>2, NextIsOneOf, BeginsTells, DismissedTells

(* emit after reblog, favourite and their handlers: once the requests of   *)
(* an actor on another's post are over, whatever boost or favourite of it  *)
(* stands there has a live notification, unless that was suppressed or     *)
(* dismissed or a request broke off before it.                             *)
THEOREM ActsAreNotified == InteractionsSpec => []AuthorIsTold
<1>1. InteractionsInit => ActsAreTold
  BY DEF InteractionsInit, ActsAreTold, ActStands, Boosts, Told
<1>2. (CountsSound /\ ActsAreTold) /\ [InteractionsNext]_interactionVars => (CountsSound /\ ActsAreTold)'
  BY CountsStep, TellingStep
<1>3. ASSUME CountsSound, ActsAreTold PROVE AuthorIsTold
  <2> SUFFICES ASSUME NEW p \in living, NEW a \in Actors \ {AuthorOf[p]},
                      \A k \in Slots : Running(k) => By(k) # a \/ OnPost(k) # p
               PROVE  \A c \in {"reblogs", "favourites"} :
                        (/\ IF c = "reblogs" THEN Boosts(a, p) # {} ELSE a \in favs[p]
                         /\ <<c, p, a>> \notin untold)
                        => \E n \in notes : n.about = c /\ n.post = p /\ n.from = a
    BY Zenon DEF AuthorIsTold
  <2>1. ASSUME NEW c \in Told, ActStands(c, p, a), <<c, p, a>> \notin untold
        PROVE  \E n \in notes : n.about = c /\ n.post = p /\ n.from = a
    <3>1. Heard(c, p, a) \/ ToBeTold(c, p, a)
      BY <1>3, <2>1 DEF ActsAreTold
    <3>2. \A k \in Slots : WillTell(task[k], c) => Running(k)
      BY <1>3, RunningFacts DEF WillTell, CountsSound, TasksSound
    <3>3. ~ToBeTold(c, p, a)
      BY <3>2 DEF ToBeTold
    <3> QED BY <2>1, <3>1, <3>3 DEF Heard
  <2>2. /\ Boosts(a, p) # {} => ActStands("reblogs", p, a)
        /\ a \in favs[p] => ActStands("favourites", p, a)
    BY DEF ActStands
  <2>3. Boosts(a, p) # {} /\ <<"reblogs", p, a>> \notin untold
          => \E n \in notes : n.about = "reblogs" /\ n.post = p /\ n.from = a
    BY <2>1, <2>2 DEF Told
  <2>4. a \in favs[p] /\ <<"favourites", p, a>> \notin untold
          => \E n \in notes : n.about = "favourites" /\ n.post = p /\ n.from = a
    BY <2>1, <2>2 DEF Told
  <2> QED BY <2>3, <2>4
<1> QED BY <1>1, <1>2, <1>3, CountsBegin, PTL DEF InteractionsSpec

-----------------------------------------------------------------------------
(* The services side by side: each behaves as it would alone, so what is   *)
(* proved of each holds of all.                                            *)

LEMMA EachServiceIsItself ==
  Spec => /\ InteractionsSpec /\ PostingSpec /\ RemoteCopiesSpec /\ PollsSpec
          /\ OAuthSpec /\ SigningKeysSpec /\ TimelinesSpec /\ AudienceSpec
<1>1. Init => /\ InteractionsInit /\ PostingInit /\ RemoteCopiesInit /\ PollsInit
              /\ OAuthInit /\ SigningKeysInit /\ TimelinesInit /\ AudienceInit
  BY DEF Init
<1>2. ASSUME [Next]_servicesVars
      PROVE  /\ [InteractionsNext]_interactionVars /\ [PostingNext]_postingVars
             /\ [RemoteCopiesNext]_remoteVars /\ [PollsNext]_pollsVars
             /\ [OAuthNext]_oauthVars /\ [SigningKeysNext]_signingVars
             /\ [TimelinesNext]_timelinesVars /\ [AudienceNext]_audienceVars
  <2>1. CASE UNCHANGED servicesVars
    BY <2>1 DEF servicesVars
  <2>2. CASE StepInteractions
    BY <2>2 DEF StepInteractions
  <2>3. CASE StepPosting
    BY <2>3 DEF StepPosting
  <2>4. CASE StepRemoteCopies
    BY <2>4 DEF StepRemoteCopies
  <2>5. CASE StepPolls
    BY <2>5 DEF StepPolls
  <2>6. CASE StepOAuth
    BY <2>6 DEF StepOAuth
  <2>7. CASE StepSigningKeys
    BY <2>7 DEF StepSigningKeys
  <2>8. CASE StepTimelines
    BY <2>8 DEF StepTimelines
  <2>9. CASE StepAudience
    BY <2>9 DEF StepAudience
  <2> QED BY <1>2, <2>1, <2>2, <2>3, <2>4, <2>5, <2>6, <2>7, <2>8, <2>9 DEF Next
<1> QED BY <1>1, <1>2, PTL
    DEF Spec, InteractionsSpec, PostingSpec, RemoteCopiesSpec, PollsSpec, OAuthSpec, SigningKeysSpec,
        TimelinesSpec, AudienceSpec

(* The tables, requests and counters of all the services keep their types, *)
(* the bounds of the numbers they draw among them.                         *)
THEOREM TypeCorrect == Spec => []TypeOK
<1>1. Spec => [](part \in Parts)
  <2>1. Init => part \in Parts
    BY DEF Init
  <2>2. part \in Parts /\ [Next]_servicesVars => (part \in Parts)'
    BY DEF Next, servicesVars, StepInteractions, StepPosting, StepRemoteCopies, StepPolls, StepOAuth,
           StepSigningKeys, StepTimelines, StepAudience
  <2> QED BY <2>1, <2>2, PTL DEF Spec
<1>2. /\ CountsSound => InteractionsTypeOK
      /\ PostingSound => PostingTypeOK
      /\ CopiesSound => RemoteCopiesTypeOK
      /\ PollsSound => PollsTypeOK
      /\ OAuthCounted => OAuthTypeOK
      /\ KeysAreSound => SigningKeysTypeOK
      /\ TimelinesSound => TimelinesTypeOK
      /\ AudienceSound => AudienceTypeOK
  BY DEF CountsSound, TasksSound, PostingSound, CopiesSound, PollsSound, OAuthCounted, KeysAreSound,
         TimelinesSound, AudienceSound
<1>3. TypeOK <=> /\ part \in Parts
                 /\ InteractionsTypeOK /\ PostingTypeOK /\ RemoteCopiesTypeOK /\ PollsTypeOK
                 /\ OAuthTypeOK /\ SigningKeysTypeOK /\ TimelinesTypeOK /\ AudienceTypeOK
  BY DEF TypeOK
<1> QED BY <1>1, <1>2, <1>3, EachServiceIsItself, CountsHold, PostingHolds, CopiesHold, PollsHold,
           OAuthHolds, KeysHold, TimelinesHold, AudienceHolds, PTL

(* What the services promise, each over all the calls, handlers, failures  *)
(* and restarts of its model, they promise together.                       *)
THEOREM ServicesKeepTheirWord ==
  Spec => [](/\ RowsAndCountersAgree /\ AuthorIsTold /\ OnePostPerKey /\ EditsStayWhole
             /\ CopiesFollowAuthor /\ BallotsStand /\ TokensAreEarned /\ CacheServesActiveKey
             /\ PagesAreSeamless /\ PagesFitTheirReaders)
BY EachServiceIsItself, WhatStandsIsCounted, ActsAreNotified, OnePostForAKey, EditsStayOnePiece,
   CopiesCatchUp, PollsCountBallots, TokensEarned, CacheServesTheKey, WalksAreSeamless, PagesFit, PTL
=============================================================================
