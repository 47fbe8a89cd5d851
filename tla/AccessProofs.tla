---------------------------- MODULE AccessProofs ----------------------------
(***************************************************************************)
(* Proofs about SigningKeys, OAuth and Audience: the key that signs for an *)
(* actor, the tokens that act for it, and who gets to read a post.         *)
(***************************************************************************)
EXTENDS SigningKeys, OAuth, Audience, FiniteSetTheorems, TLAPS

-----------------------------------------------------------------------------
(* Signing keys                                                            *)

(* An actor that exists has one active key, one that does not has none.    *)
OneKeyEach ==
  /\ \A a \in exists : \E k \in KeyPairs : active[a] = {k}
  /\ \A a \in Principals \ exists : active[a] = {}

(* A creation is alone with its actor, whom nobody knows before it commits.*)
CreationsAreAlone ==
  \A o \in Operators : Occupied(o) =>
    /\ job[o].op = "create" =>
         /\ OfActor(o) \notin exists
         /\ job[o].step \in {"insert", "commit"} /\ job[o].old = NoKeyPair
         /\ InStep(o, "commit") => cache[OfActor(o)] = job[o].new
         /\ \A p \in Operators \ {o} : Occupied(p) => OfActor(p) # OfActor(o)
    /\ job[o].op = "rotate" => OfActor(o) \in exists

(* The unique index lets one transaction of an actor through at a time,    *)
(* which has retired the key it found.                                     *)
CommitsAreExclusive ==
  \A o \in Operators : InStep(o, "commit") =>
    /\ active[OfActor(o)] \subseteq {job[o].old}
    /\ \A p \in Operators \ {o} : InStep(p, "commit") => OfActor(p) # OfActor(o)

(* The cache lags behind the table only for a rotation that has committed  *)
(* and is about to fill it.                                                *)
CacheFollows ==
  \A a \in exists \ stale : up =>
    /\ \A o \in Operators : InStep(o, "upsert") /\ OfActor(o) = a => active[a] = {job[o].new}
    /\ (\A o \in Operators : InStep(o, "upsert") => OfActor(o) # a) => active[a] = {cache[a]}

DownMeansIdle == ~up => \A o \in Operators : ~Occupied(o)

KeysAreSound ==
  /\ SigningKeysTypeOK /\ OneKeyEach /\ CreationsAreAlone /\ CommitsAreExclusive
  /\ CacheFollows /\ DownMeansIdle

LEMMA KeysInit == SigningKeysInit => KeysAreSound
BY SigningKeysAssumption DEF SigningKeysInit, KeysAreSound, SigningKeysTypeOK, OneKeyEach, CreationsAreAlone,
   CommitsAreExclusive, CacheFollows, DownMeansIdle, Vacant, Occupied, InStep, NoKeyPair

(* The transaction of a job, field by field.                               *)
LEMMA JobFields ==
  ASSUME SigningKeysTypeOK, NEW o \in Operators, Occupied(o)
  PROVE  /\ job[o] \in Job /\ OfActor(o) \in Principals
         /\ job[o].new \in KeyPairs /\ job[o].old \in KeyPairs \cup {NoKeyPair}
         /\ job[o].op \in {"create", "rotate"}
BY DEF SigningKeysTypeOK, Occupied, Vacant, Job, OfActor

(* A step that gives a job another step, or ends it.                       *)
LEMMA JobMoves ==
  ASSUME SigningKeysTypeOK, NEW o \in Operators, NEW j \in Job \cup {Vacant}, job' = [job EXCEPT ![o] = j]
  PROVE  /\ job' \in [Operators -> Job \cup {Vacant}]
         /\ job'[o] = j
         /\ \A p \in Operators \ {o} : job'[p] = job[p]
BY DEF SigningKeysTypeOK

LEMMA CreateKeeps ==
  ASSUME KeysAreSound, NEW o \in Operators, NEW a \in Principals, CreateActor(o, a)
  PROVE  KeysAreSound'
<1> DEFINE j == [step |-> "insert", op |-> "create", actor |-> a, new |-> generated + 1, old |-> NoKeyPair]
<1>0. /\ SigningKeysTypeOK /\ up /\ ~Occupied(o) /\ a \notin exists
      /\ \A p \in Operators : Occupied(p) => OfActor(p) # a
      /\ generated < MaxKeys /\ generated' = generated + 1 /\ job' = [job EXCEPT ![o] = j]
      /\ UNCHANGED <<exists, active, cache, up, slips, stale>>
  BY DEF KeysAreSound, CreateActor, Generate
<1>1. j \in Job /\ generated' \in 0..MaxKeys
  BY <1>0, SigningKeysAssumption DEF SigningKeysTypeOK, Job, KeyPairs
<1>2. job' \in [Operators -> Job \cup {Vacant}] /\ job'[o] = j /\ \A p \in Operators \ {o} : job'[p] = job[p]
  BY <1>0, <1>1, JobMoves
<1>3. SigningKeysTypeOK'
  BY <1>0, <1>1, <1>2 DEF SigningKeysTypeOK
<1>4. OneKeyEach'
  BY <1>0 DEF KeysAreSound, OneKeyEach
<1>5. CreationsAreAlone'
  BY <1>0, <1>2 DEF KeysAreSound, CreationsAreAlone, Occupied, OfActor, InStep
<1>6. CommitsAreExclusive'
  BY <1>0, <1>2 DEF KeysAreSound, CommitsAreExclusive, OfActor, InStep
<1>7. CacheFollows'
  BY <1>0, <1>2 DEF KeysAreSound, CacheFollows, OfActor, InStep, Occupied
<1>8. DownMeansIdle'
  BY <1>0 DEF DownMeansIdle
<1> QED BY <1>3, <1>4, <1>5, <1>6, <1>7, <1>8 DEF KeysAreSound

LEMMA RotateKeeps ==
  ASSUME KeysAreSound, NEW o \in Operators, NEW a \in Principals, RotateKey(o, a)
  PROVE  KeysAreSound'
<1> DEFINE j == [step |-> "retire", op |-> "rotate", actor |-> a, new |-> generated + 1, old |-> NoKeyPair]
<1>0. /\ SigningKeysTypeOK /\ up /\ ~Occupied(o) /\ a \in exists
      /\ generated < MaxKeys /\ generated' = generated + 1 /\ job' = [job EXCEPT ![o] = j]
      /\ UNCHANGED <<exists, active, cache, up, slips, stale>>
  BY DEF KeysAreSound, RotateKey, Generate
<1>1. j \in Job /\ generated' \in 0..MaxKeys
  BY <1>0, SigningKeysAssumption DEF SigningKeysTypeOK, Job, KeyPairs
<1>2. job' \in [Operators -> Job \cup {Vacant}] /\ job'[o] = j /\ \A p \in Operators \ {o} : job'[p] = job[p]
  BY <1>0, <1>1, JobMoves
<1>3. SigningKeysTypeOK'
  BY <1>0, <1>1, <1>2 DEF SigningKeysTypeOK
<1>4. OneKeyEach'
  BY <1>0 DEF KeysAreSound, OneKeyEach
<1>5. CreationsAreAlone'
  BY <1>0, <1>2 DEF KeysAreSound, CreationsAreAlone, Occupied, OfActor, InStep
<1>6. CommitsAreExclusive'
  BY <1>0, <1>2 DEF KeysAreSound, CommitsAreExclusive, OfActor, InStep
<1>7. CacheFollows'
  BY <1>0, <1>2 DEF KeysAreSound, CacheFollows, OfActor, InStep, Occupied
<1>8. DownMeansIdle'
  BY <1>0 DEF DownMeansIdle
<1> QED BY <1>3, <1>4, <1>5, <1>6, <1>7, <1>8 DEF KeysAreSound

GoesOn(o, step, row) ==
  job' = [job EXCEPT ![o] = [step |-> step, op |-> job[o].op, actor |-> job[o].actor,
                             new |-> job[o].new, old |-> row]]

(* A job before its commit changes step, and the row it means to retire,   *)
(* and touches nothing else; or it gives up.                               *)
LEMMA RetiringKeeps ==
  ASSUME KeysAreSound, NEW o \in Operators, job[o].step \in {"retire", "wait"},
         NEW step \in {"wait", "insert"}, NEW row \in KeyPairs \cup {NoKeyPair},
         GoesOn(o, step, row),
         UNCHANGED <<exists, active, cache, up, generated, slips, stale>>
  PROVE  KeysAreSound'
<1> DEFINE j == [step |-> step, op |-> job[o].op, actor |-> job[o].actor, new |-> job[o].new, old |-> row]
<1>0. SigningKeysTypeOK /\ Occupied(o)
  BY DEF KeysAreSound, Occupied
<1>1. j \in Job /\ job[o].op = "rotate"
  BY <1>0, JobFields DEF KeysAreSound, CreationsAreAlone, OfActor, Job
<1>2. job' \in [Operators -> Job \cup {Vacant}] /\ job'[o] = j /\ \A p \in Operators \ {o} : job'[p] = job[p]
  BY <1>0, <1>1, JobMoves DEF GoesOn
<1>3. SigningKeysTypeOK'
  BY <1>0, <1>2 DEF SigningKeysTypeOK
<1>4. OneKeyEach'
  BY DEF KeysAreSound, OneKeyEach
<1>5. CreationsAreAlone'
  BY <1>0, <1>1, <1>2 DEF KeysAreSound, CreationsAreAlone, Occupied, OfActor, InStep
<1>6. CommitsAreExclusive'
  BY <1>2 DEF KeysAreSound, CommitsAreExclusive, OfActor, InStep
<1>7. CacheFollows'
  BY <1>2 DEF KeysAreSound, CacheFollows, OfActor, InStep, Occupied
<1>8. DownMeansIdle'
  BY <1>0 DEF KeysAreSound, DownMeansIdle
<1> QED BY <1>3, <1>4, <1>5, <1>6, <1>7, <1>8 DEF KeysAreSound

LEMMA GivingUpKeeps ==
  ASSUME KeysAreSound, NEW o \in Operators, Occupied(o), ~InStep(o, "upsert"),
         job' = [job EXCEPT ![o] = Vacant], slips' \in 0..MaxSlips,
         UNCHANGED <<exists, active, cache, up, generated, stale>>
  PROVE  KeysAreSound'
<1>0. SigningKeysTypeOK
  BY DEF KeysAreSound
<1>2. job' \in [Operators -> Job \cup {Vacant}] /\ job'[o] = Vacant /\ \A p \in Operators \ {o} : job'[p] = job[p]
  BY <1>0, JobMoves
<1>3. SigningKeysTypeOK'
  BY <1>0, <1>2 DEF SigningKeysTypeOK
<1>4. OneKeyEach'
  BY DEF KeysAreSound, OneKeyEach
<1>5. CreationsAreAlone'
  BY <1>2 DEF KeysAreSound, CreationsAreAlone, Occupied, OfActor, InStep, Vacant
<1>6. CommitsAreExclusive'
  BY <1>2 DEF KeysAreSound, CommitsAreExclusive, OfActor, InStep, Vacant
<1>7. CacheFollows'
  BY <1>2 DEF KeysAreSound, CacheFollows, OfActor, InStep, Vacant
<1>8. DownMeansIdle'
  BY <1>2 DEF KeysAreSound, DownMeansIdle, Occupied, Vacant
<1> QED BY <1>3, <1>4, <1>5, <1>6, <1>7, <1>8 DEF KeysAreSound

LEMMA JobGoesOn ==
  ASSUME SigningKeysTypeOK, NEW o \in Operators, Occupied(o), NEW step, NEW row,
         job' = [job EXCEPT ![o].old = row, ![o].step = step]
  PROVE  GoesOn(o, step, row)
<1>1. job[o] \in Job
  BY JobFields
<1>2. [job[o] EXCEPT !.old = row]
        = [step |-> job[o].step, op |-> job[o].op, actor |-> job[o].actor, new |-> job[o].new, old |-> row]
  BY <1>1 DEF Job
<1> DEFINE j == [step |-> job[o].step, op |-> job[o].op, actor |-> job[o].actor, new |-> job[o].new,
                 old |-> row]
<1>a. [j EXCEPT !.step = step]
        = [step |-> step, op |-> job[o].op, actor |-> job[o].actor, new |-> job[o].new, old |-> row]
  OBVIOUS
<1>3. [[job[o] EXCEPT !.old = row] EXCEPT !.step = step]
        = [step |-> step, op |-> job[o].op, actor |-> job[o].actor, new |-> job[o].new, old |-> row]
  BY <1>2, <1>a
<1>4. [job EXCEPT ![o].old = row, ![o].step = step]
        = [job EXCEPT ![o] = [[job[o] EXCEPT !.old = row] EXCEPT !.step = step]]
  BY DEF SigningKeysTypeOK
<1> QED BY <1>3, <1>4 DEF GoesOn

LEMMA RetireKeeps ==
  ASSUME KeysAreSound, NEW o \in Operators, RetireActiveKey(o)
  PROVE  KeysAreSound'
<1>0. SigningKeysTypeOK /\ Occupied(o) /\ job[o].step = "retire"
  BY DEF KeysAreSound, RetireActiveKey, InStep, Occupied
<1>1. PICK row \in active[OfActor(o)], step \in {"wait", "insert"} :
           job' = [job EXCEPT ![o].old = row, ![o].step = step]
  BY DEF RetireActiveKey
<1>2. row \in KeyPairs
  BY <1>0, JobFields DEF SigningKeysTypeOK
<1>3. GoesOn(o, step, row)
  BY <1>0, <1>1, JobGoesOn
<1> QED BY <1>0, <1>2, <1>3, RetiringKeeps DEF RetireActiveKey

LEMMA RetireAfterWaitKeeps ==
  ASSUME KeysAreSound, NEW o \in Operators, RetireAfterWait(o)
  PROVE  KeysAreSound'
<1>0. SigningKeysTypeOK /\ Occupied(o) /\ job[o].step = "wait"
  BY DEF KeysAreSound, RetireAfterWait, InStep, Occupied
<1>1. PICK row \in KeyPairs \cup {NoKeyPair} : job' = [job EXCEPT ![o].step = "insert", ![o].old = row]
  BY <1>0, JobFields DEF RetireAfterWait
<1>2. [job EXCEPT ![o].step = "insert", ![o].old = row] = [job EXCEPT ![o].old = row, ![o].step = "insert"]
  BY <1>0 DEF SigningKeysTypeOK
<1>3. GoesOn(o, "insert", row)
  BY <1>0, <1>1, <1>2, JobGoesOn
<1> QED BY <1>0, <1>3, RetiringKeeps DEF RetireAfterWait

LEMMA InsertKeeps ==
  ASSUME KeysAreSound, NEW o \in Operators, InsertActiveKey(o)
  PROVE  KeysAreSound'
<1> DEFINE j == [job[o] EXCEPT !.step = "commit"]
<1>0. /\ SigningKeysTypeOK /\ Occupied(o) /\ job[o].step = "insert"
      /\ active[OfActor(o)] \subseteq {job[o].old}
      /\ \A p \in Operators \ {o} : InStep(p, "commit") => OfActor(p) # OfActor(o)
      /\ job' = [job EXCEPT ![o] = j]
      /\ UNCHANGED <<exists, active, up, generated, slips, stale>>
  BY DEF KeysAreSound, InsertActiveKey, InStep, Occupied, Collides
<1>1. /\ j \in Job /\ j.step = "commit" /\ j.op = job[o].op /\ j.actor = job[o].actor
      /\ j.old = job[o].old /\ j.new = job[o].new
  BY <1>0, JobFields DEF Job
<1> HIDE DEF j
<1>2. job' \in [Operators -> Job \cup {Vacant}] /\ job'[o] = j /\ \A p \in Operators \ {o} : job'[p] = job[p]
  BY <1>0, <1>1, JobMoves
<1>3. /\ cache' \in [Principals -> KeyPairs \cup {NoKeyPair}]
      /\ \A a \in Principals : a # OfActor(o) => cache'[a] = cache[a]
      /\ job[o].op = "create" => cache'[OfActor(o)] = job[o].new
      /\ job[o].op = "rotate" => cache' = cache
  BY <1>0, JobFields DEF InsertActiveKey, SigningKeysTypeOK
<1>4. SigningKeysTypeOK'
  BY <1>0, <1>2, <1>3 DEF SigningKeysTypeOK
<1>5. OneKeyEach'
  BY <1>0 DEF KeysAreSound, OneKeyEach
<1>6. CreationsAreAlone'
  <2> SUFFICES ASSUME NEW p \in Operators, Occupied(p)'
               PROVE  /\ job'[p].op = "create" =>
                            /\ OfActor(p)' \notin exists'
                            /\ job'[p].step \in {"insert", "commit"} /\ job'[p].old = NoKeyPair
                            /\ InStep(p, "commit")' => cache'[OfActor(p)'] = job'[p].new
                            /\ \A q \in Operators \ {p} : Occupied(q)' => OfActor(q)' # OfActor(p)'
                      /\ job'[p].op = "rotate" => OfActor(p)' \in exists'
    BY DEF CreationsAreAlone
  <2>1. \A q \in Operators : (Occupied(q)' <=> Occupied(q)) /\ OfActor(q)' = OfActor(q)
    BY <1>0, <1>1, <1>2 DEF Occupied, OfActor
  <2>2. CASE p = o
    BY <1>0, <1>1, <1>2, <1>3, <2>1, <2>2 DEF KeysAreSound, CreationsAreAlone, InStep
  <2>3. CASE p # o
    <3>1. job'[p] = job[p] /\ Occupied(p) /\ OfActor(p) \in Principals
      BY <1>0, <1>2, <2>1, <2>3, JobFields
    <3>2. job[p].op = "create" => OfActor(o) # OfActor(p)
      BY <1>0, <3>1, <2>3 DEF KeysAreSound, CreationsAreAlone
    <3> QED BY <1>0, <1>3, <2>1, <3>1, <3>2 DEF KeysAreSound, CreationsAreAlone, InStep
  <2> QED BY <2>2, <2>3
<1>7. CommitsAreExclusive'
  BY <1>0, <1>1, <1>2 DEF KeysAreSound, CommitsAreExclusive, OfActor, InStep
<1>8. CacheFollows'
  <2>1. \A p \in Operators : (InStep(p, "upsert")' <=> InStep(p, "upsert")) /\ OfActor(p)' = OfActor(p)
    BY <1>0, <1>1, <1>2 DEF InStep, OfActor
  <2>2. \A p \in Operators : InStep(p, "upsert") => job'[p] = job[p]
    BY <1>0, <1>2 DEF InStep
  <2>3. \A a \in exists : cache'[a] = cache[a]
    BY <1>0, <1>3, JobFields DEF KeysAreSound, CreationsAreAlone, SigningKeysTypeOK
  <2> QED BY <1>0, <2>1, <2>2, <2>3 DEF KeysAreSound, CacheFollows
<1>9. DownMeansIdle'
  BY <1>0 DEF KeysAreSound, DownMeansIdle
<1> QED BY <1>4, <1>5, <1>6, <1>7, <1>8, <1>9 DEF KeysAreSound

(* The commit itself, answered or not.                                     *)
LEMMA CommittedKey ==
  ASSUME KeysAreSound, NEW o \in Operators, InStep(o, "commit"), Committed(o)
  PROVE  /\ exists' = exists \cup {OfActor(o)} /\ exists' \subseteq Principals
         /\ active' \in [Principals -> SUBSET KeyPairs]
         /\ active'[OfActor(o)] = {job[o].new}
         /\ \A a \in Principals : a # OfActor(o) => active'[a] = active[a]
         /\ OneKeyEach'
<1>0. Occupied(o) /\ SigningKeysTypeOK
  BY DEF KeysAreSound, InStep, Occupied
<1>1. OfActor(o) \in Principals /\ job[o].new \in KeyPairs
  BY <1>0, JobFields
<1>2. active[OfActor(o)] \ {job[o].old} = {}
  BY DEF KeysAreSound, CommitsAreExclusive
<1>3. active' = [active EXCEPT ![OfActor(o)] = {job[o].new}]
  BY <1>2 DEF Committed
<1>4. exists' = exists \cup {OfActor(o)}
  BY DEF Committed
<1>5. /\ active' \in [Principals -> SUBSET KeyPairs] /\ active'[OfActor(o)] = {job[o].new}
      /\ \A a \in Principals : a # OfActor(o) => active'[a] = active[a]
  BY <1>0, <1>1, <1>3 DEF SigningKeysTypeOK
<1>6. exists' \subseteq Principals
  BY <1>0, <1>1, <1>4 DEF SigningKeysTypeOK
<1>7. OneKeyEach'
  <2>1. \A a \in exists' : \E k \in KeyPairs : active'[a] = {k}
    BY <1>1, <1>4, <1>5, <1>6 DEF KeysAreSound, OneKeyEach
  <2>2. \A a \in Principals \ exists' : active'[a] = {}
    BY <1>4, <1>5 DEF KeysAreSound, OneKeyEach
  <2> QED BY <2>1, <2>2 DEF OneKeyEach
<1> QED BY <1>4, <1>5, <1>6, <1>7

(* After it, the other jobs of the actor are rotations before their own    *)
(* commit, or make the entry stale.                                        *)
LEMMA CommitKeepsSound ==
  ASSUME KeysAreSound, NEW o \in Operators, InStep(o, "commit"), Committed(o),
         NEW j \in Job \cup {Vacant}, job' = [job EXCEPT ![o] = j],
         j = Vacant \/ (/\ j.step = "upsert" /\ j.op = "rotate"
                       /\ j.actor = job[o].actor /\ j.new = job[o].new),
         stale \subseteq stale', stale' \subseteq Principals, slips' \in 0..MaxSlips,
         UNCHANGED <<cache, up, generated>>,
         OfActor(o) \notin stale' =>
           /\ \A p \in Operators : InStep(p, "upsert") => OfActor(p) # OfActor(o)
           /\ job[o].op = "rotate" => j # Vacant
  PROVE  KeysAreSound'
<1>0. Occupied(o) /\ SigningKeysTypeOK /\ job[o].step = "commit"
  BY DEF KeysAreSound, InStep, Occupied
<1>1. /\ exists' = exists \cup {OfActor(o)} /\ exists' \subseteq Principals
      /\ active' \in [Principals -> SUBSET KeyPairs]
      /\ active'[OfActor(o)] = {job[o].new}
      /\ \A a \in Principals : a # OfActor(o) => active'[a] = active[a]
      /\ OneKeyEach'
  BY CommittedKey
<1>2. job' \in [Operators -> Job \cup {Vacant}] /\ job'[o] = j /\ \A p \in Operators \ {o} : job'[p] = job[p]
  BY <1>0, JobMoves
<1>3. SigningKeysTypeOK'
  BY <1>0, <1>1, <1>2 DEF SigningKeysTypeOK
<1>4. /\ \A p \in Operators \ {o} : /\ Occupied(p)' <=> Occupied(p)
                                    /\ OfActor(p)' = OfActor(p)
                                    /\ \A st : InStep(p, st)' <=> InStep(p, st)
      /\ ~(InStep(o, "commit")')
      /\ Occupied(o)' => /\ InStep(o, "upsert")' /\ job'[o].op = "rotate"
                         /\ OfActor(o)' = OfActor(o) /\ job'[o].new = job[o].new
      /\ InStep(o, "upsert")' => Occupied(o)'
  BY <1>2 DEF Occupied, OfActor, InStep, Vacant
<1>5. CreationsAreAlone'
  <2> SUFFICES ASSUME NEW p \in Operators, Occupied(p)'
               PROVE  /\ job'[p].op = "create" =>
                            /\ OfActor(p)' \notin exists'
                            /\ job'[p].step \in {"insert", "commit"} /\ job'[p].old = NoKeyPair
                            /\ InStep(p, "commit")' => cache'[OfActor(p)'] = job'[p].new
                            /\ \A q \in Operators \ {p} : Occupied(q)' => OfActor(q)' # OfActor(p)'
                      /\ job'[p].op = "rotate" => OfActor(p)' \in exists'
    BY DEF CreationsAreAlone
  <2>1. CASE p = o
    BY <1>1, <1>4, <2>1
  <2>2. CASE p # o
    <3>1. job'[p] = job[p] /\ Occupied(p) /\ OfActor(p)' = OfActor(p) /\ (InStep(p, "commit")' <=> InStep(p, "commit"))
      BY <1>2, <1>4, <2>2
    <3>2. job[p].op = "create" => OfActor(o) # OfActor(p)
      BY <1>0, <3>1, <2>2 DEF KeysAreSound, CreationsAreAlone
    <3> QED BY <1>0, <1>1, <1>4, <3>1, <3>2 DEF KeysAreSound, CreationsAreAlone
  <2> QED BY <2>1, <2>2
<1>6. CommitsAreExclusive'
  <2> SUFFICES ASSUME NEW p \in Operators, InStep(p, "commit")'
               PROVE  /\ active'[OfActor(p)'] \subseteq {job'[p].old}
                      /\ \A q \in Operators \ {p} : InStep(q, "commit")' => OfActor(q)' # OfActor(p)'
    BY DEF CommitsAreExclusive
  <2>1. p # o /\ InStep(p, "commit") /\ OfActor(p)' = OfActor(p) /\ job'[p] = job[p]
    BY <1>2, <1>4
  <2>2. OfActor(p) # OfActor(o) /\ OfActor(p) \in Principals
    BY <1>0, <2>1, JobFields DEF KeysAreSound, CommitsAreExclusive, InStep, Occupied
  <2> QED BY <1>1, <1>4, <2>1, <2>2 DEF KeysAreSound, CommitsAreExclusive
<1>7. CacheFollows'
  <2> SUFFICES ASSUME NEW a \in exists', a \notin stale', up
               PROVE  /\ \A p \in Operators : InStep(p, "upsert")' /\ OfActor(p)' = a => active'[a] = {job'[p].new}
                      /\ (\A p \in Operators : InStep(p, "upsert")' => OfActor(p)' # a) => active'[a] = {cache'[a]}
    BY DEF CacheFollows
  <2>1. CASE a # OfActor(o)
    <3>1. a \in exists \ stale /\ active'[a] = active[a]
      BY <1>1, <2>1
    <3>2. /\ \A p \in Operators : InStep(p, "upsert") /\ OfActor(p) = a => active[a] = {job[p].new}
          /\ (\A p \in Operators : InStep(p, "upsert") => OfActor(p) # a) => active[a] = {cache[a]}
      BY <3>1 DEF KeysAreSound, CacheFollows
    <3>3. \A p \in Operators : /\ InStep(p, "upsert")' /\ OfActor(p)' = a => p # o
                               /\ InStep(p, "upsert") => p # o
      BY <1>0, <1>4, <2>1 DEF InStep
    <3>4. \A p \in Operators \ {o} : /\ InStep(p, "upsert")' <=> InStep(p, "upsert")
                                     /\ OfActor(p)' = OfActor(p) /\ job'[p] = job[p]
      BY <1>2, <1>4
    <3>5. \A p \in Operators : InStep(p, "upsert")' /\ OfActor(p)' = a => active'[a] = {job'[p].new}
      BY <3>1, <3>2, <3>3, <3>4
    <3>6. (\A p \in Operators : InStep(p, "upsert")' => OfActor(p)' # a) => active'[a] = {cache'[a]}
      BY <3>1, <3>2, <3>3, <3>4
    <3> QED BY <3>5, <3>6
  <2>2. CASE a = OfActor(o)
    <3>1. \A p \in Operators \ {o} : InStep(p, "upsert")' => OfActor(p)' # a
      BY <1>4, <2>2
    <3>2. CASE Occupied(o)'
      BY <1>1, <1>4, <2>2, <3>1, <3>2
    <3>3. CASE ~(Occupied(o)')
      <4>1. job[o].op = "create"
        BY <1>0, <1>2, <2>2, <3>3, JobFields DEF Occupied, Vacant
      <4>2. cache[a] = job[o].new
        BY <1>0, <2>2, <4>1 DEF KeysAreSound, CreationsAreAlone
      <4> QED BY <1>1, <1>4, <2>2, <3>1, <3>3, <4>2
    <3> QED BY <3>2, <3>3
  <2> QED BY <2>1, <2>2
<1>8. DownMeansIdle'
  BY <1>0 DEF KeysAreSound, DownMeansIdle
<1> QED BY <1>1, <1>3, <1>5, <1>6, <1>7, <1>8 DEF KeysAreSound

LEMMA CommitKeeps ==
  ASSUME KeysAreSound, NEW o \in Operators, Commit(o)
  PROVE  KeysAreSound'
<1>0. Occupied(o) /\ SigningKeysTypeOK /\ InStep(o, "commit") /\ Committed(o)
  BY DEF KeysAreSound, Commit, InStep, Occupied
<1>1. OfActor(o) \in Principals /\ job[o].op \in {"create", "rotate"} /\ job[o] \in Job
  BY <1>0, JobFields
<1>2. /\ stale \subseteq stale' /\ stale' \subseteq Principals
      /\ OfActor(o) \notin stale' => \A p \in Operators : InStep(p, "upsert") => OfActor(p) # OfActor(o)
  BY <1>0, <1>1 DEF Commit, SigningKeysTypeOK
<1>3. slips' \in 0..MaxSlips /\ UNCHANGED <<cache, up, generated>>
  BY <1>0 DEF Commit, SigningKeysTypeOK
<1>4. CASE job[o].op = "create"
  <2>1. job' = [job EXCEPT ![o] = Vacant]
    BY <1>4 DEF Commit
  <2> QED BY <1>0, <1>2, <1>3, <1>4, <2>1, CommitKeepsSound
<1>5. CASE job[o].op = "rotate"
  <2> DEFINE j == [job[o] EXCEPT !.step = "upsert"]
  <2>1. job' = [job EXCEPT ![o] = j]
    BY <1>5 DEF Commit
  <2>2. j \in Job /\ j.step = "upsert" /\ j.op = "rotate" /\ j.actor = job[o].actor /\ j.new = job[o].new
    BY <1>1, <1>5 DEF Job
  <2> HIDE DEF j
  <2>3. j # Vacant
    BY <2>2 DEF Vacant
  <2> QED BY <1>0, <1>2, <1>3, <2>1, <2>2, <2>3, CommitKeepsSound
<1> QED BY <1>1, <1>4, <1>5

LEMMA CommitUnansweredKeeps ==
  ASSUME KeysAreSound, NEW o \in Operators, CommitUnanswered(o)
  PROVE  KeysAreSound'
<1>0. Occupied(o) /\ SigningKeysTypeOK /\ InStep(o, "commit") /\ Committed(o)
  BY DEF KeysAreSound, CommitUnanswered, InStep, Occupied
<1>1. OfActor(o) \in Principals /\ job[o].op \in {"create", "rotate"}
  BY <1>0, JobFields
<1>2. stale \subseteq stale' /\ stale' \subseteq Principals
  BY <1>0, <1>1 DEF CommitUnanswered, SigningKeysTypeOK
<1>3. slips' \in 0..MaxSlips /\ UNCHANGED <<cache, up, generated>> /\ job' = [job EXCEPT ![o] = Vacant]
  BY <1>0, SigningKeysAssumption DEF CommitUnanswered, Slip, SigningKeysTypeOK
<1>4. OfActor(o) \notin stale' =>
        job[o].op = "create" /\ \A p \in Operators : InStep(p, "upsert") => OfActor(p) # OfActor(o)
  <2>1. job[o].op = "rotate" => OfActor(o) \in stale'
    BY DEF CommitUnanswered
  <2>2. job[o].op = "create" => \A p \in Operators : InStep(p, "upsert") => OfActor(p) # OfActor(o)
    BY <1>0 DEF KeysAreSound, CreationsAreAlone, Occupied, InStep
  <2> QED BY <1>1, <2>1, <2>2
<1> QED BY <1>0, <1>2, <1>3, <1>4, CommitKeepsSound

LEMMA UpsertKeeps ==
  ASSUME KeysAreSound, NEW o \in Operators, Upsert(o)
  PROVE  KeysAreSound'
<1>0. Occupied(o) /\ SigningKeysTypeOK /\ job[o].step = "upsert" /\ UNCHANGED <<exists, active, up, generated, slips, stale>>
  BY DEF KeysAreSound, Upsert, InStep, Occupied
<1>1. OfActor(o) \in Principals /\ job[o].new \in KeyPairs
  BY <1>0, JobFields
<1>2. job' \in [Operators -> Job \cup {Vacant}] /\ job'[o] = Vacant /\ \A p \in Operators \ {o} : job'[p] = job[p]
  BY <1>0, JobMoves DEF Upsert
<1>3. /\ cache' \in [Principals -> KeyPairs \cup {NoKeyPair}] /\ cache'[OfActor(o)] = job[o].new
      /\ \A a \in Principals : a # OfActor(o) => cache'[a] = cache[a]
  BY <1>0, <1>1 DEF Upsert, SigningKeysTypeOK
<1>4. SigningKeysTypeOK'
  BY <1>0, <1>2, <1>3 DEF SigningKeysTypeOK
<1>5. OneKeyEach'
  BY <1>0 DEF KeysAreSound, OneKeyEach
<1>6. CreationsAreAlone'
  <2>1. \A p \in Operators : Occupied(p)' => /\ p # o /\ Occupied(p) /\ job'[p] = job[p]
                                             /\ OfActor(p)' = OfActor(p)
    BY <1>2 DEF Occupied, OfActor, Vacant
  <2>2. \A p \in Operators : Occupied(p)' /\ job[p].op = "create" => cache'[OfActor(p)] = cache[OfActor(p)]
    BY <1>0, <1>3, <2>1, JobFields DEF KeysAreSound, CreationsAreAlone
  <2>3. \A p \in Operators : Occupied(p)' => (InStep(p, "commit")' <=> InStep(p, "commit"))
    BY <2>1 DEF InStep
  <2> QED BY <1>0, <2>1, <2>2, <2>3 DEF KeysAreSound, CreationsAreAlone
<1>7. CommitsAreExclusive'
  BY <1>0, <1>2 DEF KeysAreSound, CommitsAreExclusive, OfActor, InStep, Vacant
<1>8. CacheFollows'
  <2> SUFFICES ASSUME NEW a \in exists, a \notin stale, up
               PROVE  /\ \A p \in Operators : InStep(p, "upsert")' /\ OfActor(p)' = a => active[a] = {job'[p].new}
                      /\ (\A p \in Operators : InStep(p, "upsert")' => OfActor(p)' # a) => active[a] = {cache'[a]}
    BY <1>0 DEF CacheFollows
  <2>1. /\ \A p \in Operators : InStep(p, "upsert") /\ OfActor(p) = a => active[a] = {job[p].new}
        /\ (\A p \in Operators : InStep(p, "upsert") => OfActor(p) # a) => active[a] = {cache[a]}
    BY DEF KeysAreSound, CacheFollows
  <2>2. \A p \in Operators : InStep(p, "upsert")' <=> p # o /\ InStep(p, "upsert")
    BY <1>2 DEF InStep, Vacant
  <2>3. \A p \in Operators \ {o} : OfActor(p)' = OfActor(p) /\ job'[p] = job[p]
    BY <1>2 DEF OfActor
  <2>4. a = OfActor(o) => active[a] = {cache'[a]}
    BY <1>0, <1>3, <2>1 DEF InStep
  <2>5. a # OfActor(o) => cache'[a] = cache[a]
    BY <1>0, <1>3 DEF SigningKeysTypeOK
  <2> QED BY <2>1, <2>2, <2>3, <2>4, <2>5
<1>9. DownMeansIdle'
  BY <1>0 DEF KeysAreSound, DownMeansIdle
<1> QED BY <1>4, <1>5, <1>6, <1>7, <1>8, <1>9 DEF KeysAreSound

LEMMA CrashKeeps ==
  ASSUME KeysAreSound, Crash
  PROVE  KeysAreSound'
<1>0. SigningKeysTypeOK /\ slips' \in 0..MaxSlips
  BY SigningKeysAssumption DEF KeysAreSound, Crash, Slip, SigningKeysTypeOK
<1>1. \A o \in Operators : job'[o] = Vacant
  BY DEF Crash
<1>2. SigningKeysTypeOK'
  BY <1>0 DEF Crash, SigningKeysTypeOK
<1>3. OneKeyEach'
  BY DEF KeysAreSound, Crash, OneKeyEach
<1>4. CreationsAreAlone' /\ CommitsAreExclusive' /\ DownMeansIdle'
  BY <1>1 DEF CreationsAreAlone, CommitsAreExclusive, DownMeansIdle, Occupied, InStep, Vacant
<1>5. CacheFollows'
  BY DEF CacheFollows, Crash
<1> QED BY <1>2, <1>3, <1>4, <1>5 DEF KeysAreSound

LEMMA RestartKeeps ==
  ASSUME KeysAreSound, Restart
  PROVE  KeysAreSound'
<1>0. SigningKeysTypeOK /\ OneKeyEach /\ UNCHANGED <<exists, active, job, generated, slips>> /\ up'
      /\ \A o \in Operators : ~Occupied(o)
  BY DEF KeysAreSound, Restart, DownMeansIdle
<1>1. \A o \in Operators : ~(Occupied(o)')
  BY <1>0 DEF Occupied
<1>2. \A a \in Principals : cache'[a] \in active[a] \cup {NoKeyPair} /\ (active[a] # {} => cache'[a] \in active[a])
  BY DEF Restart
<1>3. SigningKeysTypeOK'
  <2>1. cache' \in [Principals -> KeyPairs \cup {NoKeyPair}]
    BY <1>0, <1>2 DEF Restart, SigningKeysTypeOK
  <2> QED BY <1>0, <2>1 DEF SigningKeysTypeOK, Restart
<1>4. OneKeyEach'
  BY <1>0 DEF OneKeyEach
<1>5. CreationsAreAlone' /\ CommitsAreExclusive' /\ DownMeansIdle'
  BY <1>1 DEF CreationsAreAlone, CommitsAreExclusive, DownMeansIdle, Occupied, InStep
<1>6. CacheFollows'
  <2>1. \A a \in exists : active[a] = {cache'[a]}
    BY <1>0, <1>2 DEF OneKeyEach, SigningKeysTypeOK
  <2>2. \A o \in Operators : ~(InStep(o, "upsert")')
    BY <1>1 DEF Occupied, InStep
  <2> QED BY <1>0, <2>1, <2>2 DEF CacheFollows
<1> QED BY <1>3, <1>4, <1>5, <1>6 DEF KeysAreSound

LEMMA KeysStep == KeysAreSound /\ [SigningKeysNext]_signingVars => KeysAreSound'
<1> SUFFICES ASSUME KeysAreSound, [SigningKeysNext]_signingVars PROVE KeysAreSound'
  OBVIOUS
<1>1. CASE UNCHANGED signingVars
  BY <1>1 DEF signingVars, KeysAreSound, SigningKeysTypeOK, OneKeyEach, CreationsAreAlone, CommitsAreExclusive,
     CacheFollows, DownMeansIdle, Occupied, InStep, OfActor
<1>2. ASSUME NEW o \in Operators, InsertRefused(o) PROVE KeysAreSound'
  BY <1>2, GivingUpKeeps DEF InsertRefused, InStep, Occupied, KeysAreSound, SigningKeysTypeOK
<1>3. ASSUME NEW o \in Operators, RollBack(o) PROVE KeysAreSound'
  <2>1. slips' \in 0..MaxSlips
    BY <1>3, SigningKeysAssumption DEF KeysAreSound, SigningKeysTypeOK, RollBack, Slip
  <2> QED BY <1>3, <2>1, GivingUpKeeps DEF RollBack, InStep, Occupied
<1>4. CASE SigningKeysNext
  BY <1>2, <1>3, <1>4, CreateKeeps, RotateKeeps, RetireKeeps, RetireAfterWaitKeeps, InsertKeeps, CommitKeeps,
     UpsertKeeps, CommitUnansweredKeeps, CrashKeeps, RestartKeeps DEF SigningKeysNext
<1> QED BY <1>1, <1>4

LEMMA KeysHold == SigningKeysSpec => []KeysAreSound
BY KeysInit, KeysStep, PTL DEF SigningKeysSpec

(* Deliveries are signed with the one active key of their actor once no    *)
(* creation or rotation of it is under way, for any number of them at once,*)
(* unless two rotations crossed or a commit's answer was lost.             *)
THEOREM CacheServesTheKey == SigningKeysSpec => []CacheServesActiveKey
<1>1. KeysAreSound => CacheServesActiveKey
  <2> SUFFICES ASSUME KeysAreSound, NEW a \in exists
               PROVE  /\ Cardinality(active[a]) = 1
                      /\ up /\ a \notin stale /\ (\A o \in Operators : Occupied(o) => OfActor(o) # a)
                         => active[a] = {cache[a]}
    BY DEF CacheServesActiveKey
  <2>1. Cardinality(active[a]) = 1
    <3>1. PICK k : active[a] = {k}
      BY DEF KeysAreSound, OneKeyEach
    <3> QED BY <3>1, FS_Singleton
  <2>2. up /\ a \notin stale /\ (\A o \in Operators : Occupied(o) => OfActor(o) # a) => active[a] = {cache[a]}
    BY DEF KeysAreSound, CacheFollows, Occupied, InStep
  <2> QED BY <2>1, <2>2
<1> QED BY <1>1, KeysHold, PTL

-----------------------------------------------------------------------------
(* Codes and tokens                                                        *)

Exchanging == {f \in Flows : flow[f].step \in {"consume", "match", "issue"}}

(* The flows that have used up their code.                                 *)
Redeeming(f) == At(f, "match") \/ At(f, "issue")

Calling(f) == At(f, "resolve") \/ At(f, "revoke") \/ At(f, "report")

(* Every token was a flow of its own and is known by its id.               *)
TokensAreCounted ==
  /\ IsFiniteSet(tokens) /\ IsFiniteSet(Exchanging)
  /\ Cardinality(tokens) + Cardinality(Exchanging) <= flows
  /\ \A t \in tokens : t.id \in 1..Cardinality(tokens)
  /\ \A t, u \in tokens : t.id = u.id => t = u

(* A code's row says what the owner approved.                              *)
CodesAreGranted ==
  \A c \in Codes : codes[c] # NoCode =>
    /\ [code |-> c, app |-> codes[c].app, actor |-> codes[c].actor, scopes |-> codes[c].scopes,
        redirect |-> codes[c].redirect] \in grants
    /\ registered[codes[c].app] # Unregistered
    /\ Satisfied(codes[c].scopes, registered[codes[c].app])

(* Only one flow gets past the conditional UPDATE of a code.               *)
ExchangesAreFair ==
  /\ \A f \in Exchanging : codes[flow[f].code] # NoCode
  /\ \A f \in Flows : Redeeming(f) => codes[flow[f].code].consumed /\ ~flow[f].late
  /\ \A f \in Flows : At(f, "issue") =>
       codes[flow[f].code].app = flow[f].by /\ codes[flow[f].code].redirect = flow[f].at
  /\ \A f, g \in Flows : f # g /\ Redeeming(f) /\ Redeeming(g) => flow[f].code # flow[g].code

(* A token is its code's, which no flow holds any more.                    *)
TokensAreRedeemed ==
  /\ \A t \in tokens :
       /\ codes[t.code] # NoCode
       /\ codes[t.code].consumed
       /\ codes[t.code].app = t.app /\ codes[t.code].actor = t.actor /\ codes[t.code].scopes = t.scopes
       /\ t.by = t.app /\ t.at = codes[t.code].redirect /\ ~t.late
       /\ \A f \in Flows : Redeeming(f) => flow[f].code # t.code
  /\ \A t, u \in tokens : t.code = u.code => t = u

(* A reported revocation has reached the row before, and stays.            *)
RevocationsLast ==
  /\ \A r \in reported : Issued(r) # {} /\ \A t \in Issued(r) : t.revoked
  /\ \A f \in Flows : At(f, "report") => \A t \in Issued(flow[f].token) : t.revoked
  /\ \A f \in Flows : Calling(f) => Issued(flow[f].token) # {}
  /\ \A f \in Flows : At(f, "resolve") => flow[f].need \in ScopeSets /\ (flow[f].barred => flow[f].token \in reported)

ServedWithin ==
  \A s \in served :
    /\ ~s.barred /\ Issued(s.token) # {}
    /\ \A t \in Issued(s.token) : Satisfied(s.need, t.scopes)

OAuthCounted == OAuthTypeOK /\ TokensAreCounted

OAuthSound ==
  /\ CodesAreGranted /\ ExchangesAreFair /\ TokensAreRedeemed /\ RevocationsLast /\ ServedWithin

-----------------------------------------------------------------------------
(* Types                                                                   *)

(* What a flow is at each of its steps.                                    *)
LEMMA FlowKinds ==
  ASSUME OAuthTypeOK, NEW f \in Flows
  PROVE  /\ flow[f] \in Exchange \/ flow[f] \in Call \/ flow[f] = AtRest
         /\ flow[f].step \in {"consume", "match", "issue"} <=> flow[f] \in Exchange
         /\ flow[f].step \in {"resolve", "revoke", "report"} <=> flow[f] \in Call
BY DEF OAuthTypeOK, Exchange, Call, AtRest

LEMMA FlowMoves ==
  ASSUME OAuthTypeOK, NEW f \in Flows, NEW r \in Exchange \cup Call \cup {AtRest},
         flow' = [flow EXCEPT ![f] = r]
  PROVE  /\ flow' \in [Flows -> Exchange \cup Call \cup {AtRest}]
         /\ flow'[f] = r
         /\ \A g \in Flows \ {f} : flow'[g] = flow[g]
BY DEF OAuthTypeOK

LEMMA ExchangeGoesOn ==
  ASSUME OAuthTypeOK, NEW f \in Flows, flow[f] \in Exchange, NEW step \in {"consume", "match", "issue"},
         Forward(f, step)
  PROVE  \E r \in Exchange :
           /\ flow' = [flow EXCEPT ![f] = r]
           /\ r.step = step /\ r.code = flow[f].code /\ r.by = flow[f].by /\ r.at = flow[f].at
           /\ r.late = flow[f].late
<1> DEFINE r == [flow[f] EXCEPT !.step = step]
<1>1. flow' = [flow EXCEPT ![f] = r]
  BY DEF Forward
<1>2. /\ r \in Exchange /\ r.step = step /\ r.code = flow[f].code /\ r.by = flow[f].by /\ r.at = flow[f].at
      /\ r.late = flow[f].late
  BY DEF Exchange
<1> QED BY <1>1, <1>2

LEMMA CallGoesOn ==
  ASSUME OAuthTypeOK, NEW f \in Flows, flow[f] \in Call, NEW step \in {"resolve", "revoke", "report"},
         Forward(f, step)
  PROVE  \E r \in Call :
           /\ flow' = [flow EXCEPT ![f] = r]
           /\ r.step = step /\ r.token = flow[f].token /\ r.barred = flow[f].barred
<1> DEFINE r == [flow[f] EXCEPT !.step = step]
<1>1. flow' = [flow EXCEPT ![f] = r]
  BY DEF Forward
<1>2. r \in Call /\ r.step = step /\ r.token = flow[f].token /\ r.barred = flow[f].barred
  BY DEF Call
<1> QED BY <1>1, <1>2

(* The counts, while no token is issued: an exchange that starts is a flow *)
(* more, others end.                                                       *)
LEMMA CountsStay ==
  ASSUME OAuthCounted, OAuthTypeOK', NEW f \in Flows, NEW r \in Exchange \cup Call \cup {AtRest},
         flow' = [flow EXCEPT ![f] = r], tokens' = tokens,
         flows' = flows \/ flows' = flows + 1,
         r \in Exchange => f \in Exchanging \/ flows' = flows + 1
  PROVE  OAuthCounted'
<1>0. OAuthTypeOK /\ TokensAreCounted
  BY DEF OAuthCounted
<1>1. flow'[f] = r /\ \A g \in Flows \ {f} : flow'[g] = flow[g]
  BY <1>0, FlowMoves
<1>2. r \in Exchange <=> r.step \in {"consume", "match", "issue"}
  BY DEF Exchange, Call, AtRest
<1>3. r \in Exchange => Exchanging' = Exchanging \cup {f}
  BY <1>1, <1>2 DEF Exchanging
<1>4. r \notin Exchange => Exchanging' = Exchanging \ {f}
  BY <1>1, <1>2 DEF Exchanging
<1>5. flows \in Nat /\ flows' \in Nat /\ Cardinality(tokens) \in Nat /\ Cardinality(Exchanging) \in Nat
  BY <1>0, FS_CardinalityType DEF OAuthTypeOK, TokensAreCounted
<1>6. IsFiniteSet(Exchanging)
  BY <1>0 DEF TokensAreCounted
<1>7. Cardinality(tokens) + Cardinality(Exchanging) <= flows
  BY <1>0 DEF TokensAreCounted
<1>8. IsFiniteSet(Exchanging') /\ Cardinality(tokens) + Cardinality(Exchanging') <= flows'
  <2> DEFINE old == Exchanging
             n == Cardinality(old)
             m == Cardinality(tokens)
  <2>0. m \in Nat /\ n \in Nat /\ m + n <= flows /\ IsFiniteSet(old)
    BY <1>5, <1>6, <1>7
  <2>1. CASE r \in Exchange /\ f \in old
    <3>1. Exchanging' = old
      BY <1>3, <2>1
    <3> QED BY <1>5, <2>0, <3>1
  <2>2. CASE r \in Exchange /\ f \notin old
    <3>1. IsFiniteSet(old \cup {f}) /\ Cardinality(old \cup {f}) = n + 1
      BY <2>0, <2>2, FS_AddElement
    <3>2. flows' = flows + 1
      BY <2>2
    <3>3. Exchanging' = old \cup {f}
      BY <1>3, <2>2
    <3> HIDE DEF old, n, m
    <3>4. m + (n + 1) <= flows'
      BY <1>5, <2>0, <3>2
    <3> QED BY <3>1, <3>3, <3>4 DEF m
  <2>3. CASE r \notin Exchange
    <3>1. Exchanging' = old \ {f}
      BY <1>4, <2>3
    <3>2. IsFiniteSet(old \ {f}) /\ Cardinality(old \ {f}) \in {n, n - 1}
      BY <2>0, FS_RemoveElement
    <3> HIDE DEF old, n, m
    <3>3. \A k \in {n, n - 1} : m + k <= flows'
      BY <1>5, <2>0
    <3> QED BY <3>1, <3>2, <3>3 DEF m
  <2> QED BY <2>1, <2>2, <2>3
<1>9. TokensAreCounted'
  BY <1>0, <1>8 DEF TokensAreCounted
<1> QED BY <1>9 DEF OAuthCounted

(* The issuing flow makes room for its token's id.                         *)
LEMMA IssueCounts ==
  ASSUME OAuthCounted, ExchangesAreFair, NEW f \in Flows, IssueToken(f)
  PROVE  /\ OAuthCounted'
         /\ \E t \in Token :
              /\ tokens' = tokens \cup {t} /\ t \notin tokens /\ ~t.revoked
              /\ t.id = Cardinality(tokens) + 1
              /\ t.code = flow[f].code /\ t.by = flow[f].by /\ t.at = flow[f].at /\ t.late = flow[f].late
              /\ t.app = codes[t.code].app /\ t.actor = codes[t.code].actor /\ t.scopes = codes[t.code].scopes
<1> DEFINE old == Exchanging
           n == Cardinality(old)
           m == Cardinality(tokens)
<1>0. /\ OAuthTypeOK /\ TokensAreCounted /\ flow[f].step = "issue"
      /\ UNCHANGED <<registered, codes, lapsed, flows, oauthHistory>> /\ flow' = [flow EXCEPT ![f] = AtRest]
  BY DEF OAuthCounted, IssueToken, At, Finish
<1>1. flow[f] \in Exchange /\ f \in old
  BY <1>0, FlowKinds DEF Exchanging
<1>2. codes[flow[f].code] \in Code
  <2>1. flow[f].code \in Codes /\ codes[flow[f].code] # NoCode
    BY <1>1 DEF Exchange, ExchangesAreFair
  <2> QED BY <1>0, <2>1 DEF OAuthTypeOK
<1>3. m \in Nat /\ n \in Nat /\ m + n <= flows /\ flows \in Nat /\ flows <= MaxFlows /\ MaxFlows \in Nat
  BY <1>0, FS_CardinalityType, OAuthAssumption DEF TokensAreCounted, OAuthTypeOK
<1>4. IsFiniteSet(old \ {f}) /\ Cardinality(old \ {f}) = n - 1 /\ n - 1 \in Nat
  <2>1. IsFiniteSet(old \ {f}) /\ Cardinality(old \ {f}) = n - 1
    BY <1>0, <1>1, FS_RemoveElement DEF TokensAreCounted
  <2> QED BY <2>1, FS_CardinalityType
<1>5. m + 1 \in TokenIds /\ (m + 1) + (n - 1) <= flows
  <2> HIDE DEF m, n, old
  <2> QED BY <1>3, <1>4 DEF TokenIds
<1> DEFINE t == [id |-> m + 1, app |-> codes[flow[f].code].app, actor |-> codes[flow[f].code].actor,
                 scopes |-> codes[flow[f].code].scopes, revoked |-> FALSE, code |-> flow[f].code,
                 by |-> flow[f].by, at |-> flow[f].at, late |-> flow[f].late]
<1>6. tokens' = tokens \cup {t}
  BY DEF IssueToken
<1>7. t \in Token
  <2> HIDE DEF m
  <2> QED BY <1>1, <1>2, <1>5 DEF Token, Code, Exchange
<1>8. \A u \in tokens : u.id \in 1..m
  BY <1>0 DEF TokensAreCounted
<1>9. t \notin tokens
  <2> HIDE DEF m
  <2>1. t.id \notin 1..m
    BY <1>3
  <2> HIDE DEF t
  <2> QED BY <1>8, <2>1
<1>10. IsFiniteSet(tokens') /\ Cardinality(tokens') = m + 1
  <2> HIDE DEF t
  <2> QED BY <1>0, <1>6, <1>9, FS_AddElement DEF TokensAreCounted
<1>11. Exchanging' = old \ {f}
  BY <1>0 DEF Exchanging, AtRest, OAuthTypeOK
<1>12. TokensAreCounted'
  <2>1. \A u \in tokens' : u.id \in 1..(m + 1)
    <3>1. t.id = m + 1
      OBVIOUS
    <3> HIDE DEF m, t
    <3> QED BY <1>3, <1>6, <1>8, <3>1
  <2>2. \A u, v \in tokens' : u.id = v.id => u = v
    <3>1. \A u \in tokens : u.id # t.id
      <4> HIDE DEF m
      <4> QED BY <1>3, <1>8
    <3>2. \A u, v \in tokens : u.id = v.id => u = v
      BY <1>0 DEF TokensAreCounted
    <3> HIDE DEF t
    <3> QED BY <1>6, <3>1, <3>2
  <2>3. Cardinality(tokens') + Cardinality(Exchanging') <= flows'
    BY <1>0, <1>4, <1>5, <1>10, <1>11
  <2> HIDE DEF m, n, t, old
  <2> QED BY <1>4, <1>10, <1>11, <2>1, <2>2, <2>3 DEF TokensAreCounted
<1>13. OAuthTypeOK'
  <2>1. flow' \in [Flows -> Exchange \cup Call \cup {AtRest}]
    BY <1>0, FlowMoves
  <2>2. tokens' \subseteq Token
    <3> HIDE DEF t
    <3> QED BY <1>0, <1>6, <1>7 DEF OAuthTypeOK
  <2> QED BY <1>0, <2>1, <2>2 DEF OAuthTypeOK, oauthHistory
<1>14. /\ ~t.revoked /\ t.id = Cardinality(tokens) + 1
       /\ t.code = flow[f].code /\ t.by = flow[f].by /\ t.at = flow[f].at /\ t.late = flow[f].late
       /\ t.app = codes[t.code].app /\ t.actor = codes[t.code].actor /\ t.scopes = codes[t.code].scopes
  OBVIOUS
<1> HIDE DEF t
<1> QED BY <1>6, <1>7, <1>9, <1>12, <1>13, <1>14 DEF OAuthCounted

(* v is u's row, now or after an UPDATE of its revoked column.             *)
SameRow(u, v) ==
  /\ u.id = v.id /\ u.app = v.app /\ u.actor = v.actor /\ u.scopes = v.scopes
  /\ u.code = v.code /\ u.by = v.by /\ u.at = v.at /\ u.late = v.late

Revoked(u, k) == IF u.id = k THEN [u EXCEPT !.revoked = TRUE] ELSE u

LEMMA RevokedRow ==
  ASSUME NEW u \in Token, NEW k
  PROVE  /\ Revoked(u, k) \in Token /\ SameRow(u, Revoked(u, k))
         /\ Revoked(u, k).revoked <=> u.revoked \/ u.id = k
BY DEF Token, Revoked, SameRow

(* A revocation changes rows in place.                                     *)
LEMMA RevokeCounts ==
  ASSUME OAuthCounted, NEW f \in Flows, RevokeToken(f)
  PROVE  /\ OAuthCounted'
         /\ tokens' = {Revoked(u, flow[f].token) : u \in tokens}
<1> DEFINE k == flow[f].token
           F == [u \in tokens |-> Revoked(u, k)]
           m == Cardinality(tokens)
<1>0. /\ OAuthTypeOK /\ TokensAreCounted /\ flow[f].step = "revoke" /\ Forward(f, "report")
      /\ UNCHANGED <<registered, codes, lapsed, flows, oauthHistory>>
  BY DEF OAuthCounted, RevokeToken, At
<1>1. tokens' = {Revoked(u, k) : u \in tokens}
  BY DEF RevokeToken, Revoked
<1>2. flow[f] \in Call
  BY <1>0, FlowKinds
<1>3. \A u \in tokens : u \in Token /\ u.id \in 1..m
  BY <1>0 DEF OAuthTypeOK, TokensAreCounted
<1>4. \A u, v \in tokens : u.id = v.id => u = v
  BY <1>0 DEF TokensAreCounted
<1>5. \A u \in tokens : Revoked(u, k) \in Token /\ Revoked(u, k).id = u.id
  BY <1>3, RevokedRow DEF SameRow
<1>6. F \in Bijection(tokens, tokens')
  <2>1. F \in [tokens -> tokens'] /\ \A v \in tokens' : \E u \in tokens : F[u] = v
    BY <1>1
  <2>2. \A u, v \in tokens : F[u] = F[v] => u = v
    BY <1>4, <1>5
  <2> HIDE DEF F
  <2> QED BY <2>1, <2>2 DEF Bijection, Injection, Surjection, IsInjective
<1>7. IsFiniteSet(tokens') /\ Cardinality(tokens') = m
  <2> HIDE DEF F
  <2> QED BY <1>0, <1>6, FS_Bijection DEF TokensAreCounted, ExistsBijection
<1>8. \E r \in Call : flow' = [flow EXCEPT ![f] = r] /\ r.step = "report"
  <2>1. "report" \in {"resolve", "revoke", "report"}
    OBVIOUS
  <2> QED BY <1>0, <1>2, <2>1, CallGoesOn
<1>9. Exchanging' = Exchanging
  BY <1>0, <1>8 DEF Exchanging, OAuthTypeOK
<1>10. TokensAreCounted'
  <2>1. /\ \A u \in tokens' : u.id \in 1..m
        /\ \A u, v \in tokens' : u.id = v.id => u = v
    BY <1>1, <1>3, <1>4, <1>5
  <2> QED BY <1>0, <1>7, <1>9, <2>1 DEF TokensAreCounted
<1>11. OAuthTypeOK'
  <2>1. flow' \in [Flows -> Exchange \cup Call \cup {AtRest}]
    BY <1>0, <1>8 DEF OAuthTypeOK
  <2>2. tokens' \subseteq Token
    BY <1>1, <1>5
  <2> QED BY <1>0, <2>1, <2>2 DEF OAuthTypeOK, oauthHistory
<1> QED BY <1>1, <1>10, <1>11 DEF OAuthCounted

LEMMA OAuthCountsBegin == OAuthInit => OAuthCounted
<1> SUFFICES ASSUME OAuthInit PROVE OAuthCounted
  OBVIOUS
<1>1. Exchanging = {}
  BY DEF OAuthInit, Exchanging, AtRest
<1>2. TokensAreCounted
  BY <1>1, FS_EmptySet DEF OAuthInit, TokensAreCounted
<1>3. OAuthTypeOK
  BY OAuthAssumption DEF OAuthInit, OAuthTypeOK
<1> QED BY <1>2, <1>3 DEF OAuthCounted

-----------------------------------------------------------------------------
(* Steps that change a flow only                                           *)

(* r is a state flow f may go to, given the tables.                        *)
FlowFits(f, r) ==
  /\ r.step \in {"consume", "match", "issue"} => codes[r.code] # NoCode
  /\ r.step \in {"match", "issue"} =>
       /\ codes[r.code].consumed /\ ~r.late
       /\ Redeeming(f) /\ flow[f].code = r.code
  /\ r.step = "issue" => codes[r.code].app = r.by /\ codes[r.code].redirect = r.at
  /\ r.step \in {"resolve", "revoke", "report"} => Issued(r.token) # {}
  /\ r.step = "report" => \A t \in Issued(r.token) : t.revoked
  /\ r.step = "resolve" => r.need \in ScopeSets /\ (r.barred => r.token \in reported)

LEMMA FlowChanges ==
  ASSUME OAuthTypeOK, OAuthSound, NEW f \in Flows, NEW r \in Exchange \cup Call \cup {AtRest},
         flow' = [flow EXCEPT ![f] = r], FlowFits(f, r),
         UNCHANGED <<registered, codes, tokens, grants, served, reported>>
  PROVE  OAuthSound'
<1>1. flow'[f] = r /\ \A g \in Flows \ {f} : flow'[g] = flow[g]
  BY FlowMoves
<1>2. \A t : Issued(t)' = Issued(t)
  BY DEF Issued
<1>3. CodesAreGranted' /\ ServedWithin'
  BY <1>2 DEF OAuthSound, CodesAreGranted, ServedWithin
<1>4. \A g \in Flows : Redeeming(g)' => Redeeming(g) /\ flow'[g].code = flow[g].code
  BY <1>1 DEF FlowFits, Redeeming, At
<1>5. ExchangesAreFair'
  <2>1. \A g \in Exchanging' : codes'[flow'[g].code] # NoCode
    BY <1>1 DEF FlowFits, OAuthSound, ExchangesAreFair, Exchanging
  <2>2. \A g \in Flows : Redeeming(g)' => codes'[flow'[g].code].consumed /\ ~flow'[g].late
    BY <1>1 DEF FlowFits, OAuthSound, ExchangesAreFair, Redeeming, At
  <2>3. \A g \in Flows : At(g, "issue")' =>
          codes'[flow'[g].code].app = flow'[g].by /\ codes'[flow'[g].code].redirect = flow'[g].at
    BY <1>1 DEF FlowFits, OAuthSound, ExchangesAreFair, At
  <2>4. \A g, h \in Flows : g # h /\ Redeeming(g)' /\ Redeeming(h)' => flow'[g].code # flow'[h].code
    BY <1>4 DEF OAuthSound, ExchangesAreFair
  <2> QED BY <2>1, <2>2, <2>3, <2>4 DEF ExchangesAreFair
<1>6. TokensAreRedeemed'
  <2>1. \A t \in tokens : \A g \in Flows : Redeeming(g)' => flow'[g].code # t.code
    BY <1>4 DEF OAuthSound, TokensAreRedeemed
  <2> QED BY <2>1 DEF OAuthSound, TokensAreRedeemed
<1>7. RevocationsLast'
  <2>1. \A g \in Flows : At(g, "report")' => \A t \in Issued(flow'[g].token) : t.revoked
    BY <1>1 DEF FlowFits, OAuthSound, RevocationsLast, At
  <2>2. \A g \in Flows : Calling(g)' => Issued(flow'[g].token) # {}
    BY <1>1 DEF FlowFits, OAuthSound, RevocationsLast, Calling, At
  <2>3. \A g \in Flows : At(g, "resolve")' => flow'[g].need \in ScopeSets /\ (flow'[g].barred => flow'[g].token \in reported)
    BY <1>1 DEF FlowFits, OAuthSound, RevocationsLast, At
  <2>4. \A k \in reported : Issued(k) # {} /\ \A t \in Issued(k) : t.revoked
    BY DEF OAuthSound, RevocationsLast
  <2> QED BY <1>2, <2>1, <2>2, <2>3, <2>4 DEF RevocationsLast
<1> QED BY <1>3, <1>5, <1>6, <1>7 DEF OAuthSound

(* A flow that ends, and the types with it.                                *)
LEMMA FlowEnds ==
  ASSUME OAuthCounted, OAuthSound, NEW f \in Flows, Finish(f),
         UNCHANGED <<registered, codes, lapsed, tokens, flows, oauthHistory>>
  PROVE  OAuthCounted' /\ OAuthSound'
<1>1. AtRest \in Exchange \cup Call \cup {AtRest} /\ AtRest \notin Exchange /\ flow' = [flow EXCEPT ![f] = AtRest]
  BY DEF Finish, Exchange, AtRest
<1>2. OAuthTypeOK'
  BY <1>1, FlowMoves DEF OAuthCounted, OAuthTypeOK, oauthHistory
<1>3. OAuthCounted'
  BY <1>1, <1>2, CountsStay
<1>4. FlowFits(f, AtRest)
  BY DEF FlowFits, AtRest
<1>5. OAuthSound'
  BY <1>1, <1>4, FlowChanges DEF OAuthCounted, oauthHistory
<1> QED BY <1>3, <1>5

LEMMA FlowStarts ==
  ASSUME OAuthCounted, OAuthSound, NEW f \in Flows, NEW r \in Exchange \cup Call,
         Launch(f, r), FlowFits(f, r)
  PROVE  OAuthCounted' /\ OAuthSound'
<1>1. /\ flows' = flows + 1 /\ flow' = [flow EXCEPT ![f] = r] /\ flows < MaxFlows
      /\ UNCHANGED <<registered, codes, lapsed, tokens, oauthHistory>>
  BY DEF Launch
<1>2. OAuthTypeOK'
  <2>1. flow' \in [Flows -> Exchange \cup Call \cup {AtRest}]
    BY <1>1, FlowMoves DEF OAuthCounted
  <2>2. flows' \in 0..MaxFlows
    BY <1>1, OAuthAssumption DEF OAuthCounted, OAuthTypeOK
  <2> QED BY <1>1, <2>1, <2>2 DEF OAuthCounted, OAuthTypeOK, oauthHistory
<1>3. OAuthCounted'
  BY <1>1, <1>2, CountsStay
<1>4. OAuthSound'
  BY <1>1, FlowChanges DEF OAuthCounted, oauthHistory
<1> QED BY <1>3, <1>4

LEMMA PresentCodeKeeps ==
  ASSUME OAuthCounted, OAuthSound, NEW f \in Flows, NEW by \in Apps, NEW c \in Codes,
         NEW at \in Redirects, NEW verifier \in BOOLEAN, PresentCode(f, by, c, at, verifier)
  PROVE  OAuthCounted' /\ OAuthSound'
<1> DEFINE r == [step |-> "consume", by |-> by, code |-> c, at |-> at, verifier |-> verifier,
                 late |-> c \in lapsed]
<1>1. r \in Exchange /\ FlowFits(f, r) /\ Launch(f, r)
  BY DEF PresentCode, Exchange, FlowFits
<1> HIDE DEF r
<1> QED BY <1>1, FlowStarts

LEMMA PresentTokenKeeps ==
  ASSUME OAuthCounted, OAuthSound, NEW f \in Flows, NEW t \in TokenIds, NEW need \in ScopeSets,
         PresentToken(f, t, need)
  PROVE  OAuthCounted' /\ OAuthSound'
<1> DEFINE r == [step |-> "resolve", token |-> t, need |-> need, barred |-> t \in reported]
<1>1. Launch(f, r) /\ Issued(t) # {}
  BY DEF PresentToken
<1>2. r \in Call
  <2>1. (t \in reported) \in BOOLEAN
    OBVIOUS
  <2> QED BY <2>1 DEF Call
<1>3. r.step = "resolve" /\ r.token = t /\ r.need \in ScopeSets /\ (r.barred => t \in reported)
  OBVIOUS
<1> HIDE DEF r
<1>4. FlowFits(f, r)
  BY <1>1, <1>3 DEF FlowFits
<1> QED BY <1>1, <1>2, <1>4, FlowStarts

LEMMA PresentForRevocationKeeps ==
  ASSUME OAuthCounted, OAuthSound, NEW f \in Flows, NEW t \in TokenIds, PresentForRevocation(f, t)
  PROVE  OAuthCounted' /\ OAuthSound'
<1> DEFINE r == [step |-> "revoke", token |-> t, need |-> {}, barred |-> FALSE]
<1>1. r \in Call /\ FlowFits(f, r) /\ Launch(f, r)
  BY DEF PresentForRevocation, Call, FlowFits
<1> HIDE DEF r
<1> QED BY <1>1, FlowStarts

LEMMA MatchGrantKeeps ==
  ASSUME OAuthCounted, OAuthSound, NEW f \in Flows, MatchGrant(f)
  PROVE  OAuthCounted' /\ OAuthSound'
<1>0. /\ OAuthTypeOK /\ At(f, "match")
      /\ UNCHANGED <<registered, codes, lapsed, tokens, flows, oauthHistory>>
  BY DEF MatchGrant, OAuthCounted
<1>1. CASE Finish(f)
  BY <1>0, <1>1, FlowEnds
<1>2. CASE /\ Forward(f, "issue")
           /\ codes[flow[f].code].app = flow[f].by /\ codes[flow[f].code].redirect = flow[f].at
  <2>1. flow[f] \in Exchange /\ f \in Exchanging /\ Redeeming(f)
    BY <1>0, FlowKinds DEF Exchanging, At, Redeeming
  <2>2. PICK r \in Exchange : /\ flow' = [flow EXCEPT ![f] = r]
                              /\ r.step = "issue" /\ r.code = flow[f].code /\ r.by = flow[f].by
                              /\ r.at = flow[f].at /\ r.late = flow[f].late
    BY <1>0, <1>2, <2>1, ExchangeGoesOn
  <2>3. FlowFits(f, r)
    BY <1>2, <2>1, <2>2 DEF FlowFits, OAuthSound, ExchangesAreFair
  <2>4. OAuthTypeOK'
    BY <1>0, <2>2, FlowMoves DEF OAuthTypeOK, oauthHistory
  <2> QED BY <1>0, <2>1, <2>2, <2>3, <2>4, CountsStay, FlowChanges DEF oauthHistory
<1> QED BY <1>1, <1>2 DEF MatchGrant

-----------------------------------------------------------------------------
(* Steps that change a table                                               *)

(* Of two exchanges of one code the UPDATE lets one through.               *)
LEMMA ConsumeCodeKeeps ==
  ASSUME OAuthCounted, OAuthSound, NEW f \in Flows, ConsumeCode(f)
  PROVE  OAuthCounted' /\ OAuthSound'
<1> DEFINE c == flow[f].code
<1>0. OAuthTypeOK /\ At(f, "consume") /\ UNCHANGED <<registered, lapsed, tokens, flows, oauthHistory>>
  BY DEF ConsumeCode, OAuthCounted
<1>1. CASE Finish(f) /\ UNCHANGED codes
  BY <1>0, <1>1, FlowEnds
<1>2. CASE /\ ~flow[f].late /\ ~codes[c].consumed
           /\ codes' = [codes EXCEPT ![c].consumed = TRUE] /\ Forward(f, "match")
  <2>1. flow[f] \in Exchange /\ f \in Exchanging
    BY <1>0, FlowKinds DEF Exchanging, At
  <2>2. PICK r \in Exchange : /\ flow' = [flow EXCEPT ![f] = r]
                              /\ r.step = "match" /\ r.code = c /\ r.late = flow[f].late
    BY <1>2, <1>0, <2>1, ExchangeGoesOn
  <2>3. c \in Codes /\ codes[c] \in Code
    BY <1>0, <2>1 DEF OAuthTypeOK, Exchange, OAuthSound, ExchangesAreFair
  <2>4. /\ codes' \in [Codes -> Code \cup {NoCode}]
        /\ codes'[c] # NoCode /\ codes'[c].consumed
        /\ \A d \in Codes : codes[d] # NoCode =>
             /\ codes'[d] # NoCode /\ (codes[d].consumed => codes'[d].consumed)
             /\ codes'[d].app = codes[d].app /\ codes'[d].actor = codes[d].actor
             /\ codes'[d].scopes = codes[d].scopes /\ codes'[d].redirect = codes[d].redirect
        /\ \A d \in Codes : codes'[d] # NoCode => codes[d] # NoCode
    <3> DEFINE row == [codes[c] EXCEPT !.consumed = TRUE]
    <3>1. codes' = [codes EXCEPT ![c] = row]
      BY <1>2
    <3>2. /\ row \in Code /\ row.consumed /\ row.app = codes[c].app /\ row.actor = codes[c].actor
          /\ row.scopes = codes[c].scopes /\ row.redirect = codes[c].redirect
      BY <2>3 DEF Code
    <3>3. \A x \in Code : x # NoCode
      BY DEF Code, NoCode
    <3> HIDE DEF row, c
    <3> QED BY <1>0, <2>3, <3>1, <3>2, <3>3 DEF OAuthTypeOK
  <2>5. flow'[f] = r /\ \A g \in Flows \ {f} : flow'[g] = flow[g]
    BY <1>0, <2>2, FlowMoves
  <2>6. OAuthTypeOK'
    BY <1>0, <2>2, <2>4, FlowMoves DEF OAuthTypeOK, oauthHistory
  <2>7. OAuthCounted'
    BY <1>0, <2>1, <2>2, <2>6, CountsStay
  <2>8. \A g \in Flows : (At(g, "issue")' => g # f /\ At(g, "issue")) /\ (Redeeming(g)' /\ g # f => Redeeming(g))
    BY <2>2, <2>5 DEF Redeeming, At
  <2>9. \A g \in Flows : Redeeming(g) => flow[g].code # c
    BY <1>2 DEF OAuthSound, ExchangesAreFair
  <2>10. \A g \in Exchanging' : flow[g].code \in Codes /\ codes[flow[g].code] # NoCode /\ flow'[g].code = flow[g].code
    <3>1. \A g \in Exchanging' : g \in Exchanging /\ flow'[g].code = flow[g].code
      BY <2>1, <2>2, <2>5 DEF Exchanging
    <3>2. \A g \in Exchanging : flow[g].code \in Codes
      <4> SUFFICES ASSUME NEW g \in Exchanging PROVE flow[g].code \in Codes
        OBVIOUS
      <4>1. flow[g] \in Exchange
        BY <1>0, FlowKinds DEF Exchanging
      <4> QED BY <4>1 DEF Exchange
    <3> QED BY <3>1, <3>2 DEF OAuthSound, ExchangesAreFair
  <2>11. \A g \in Flows : Redeeming(g)' => g \in Exchanging'
    BY DEF Redeeming, Exchanging, At
  <2>12. ExchangesAreFair'
    <3>1. \A g \in Exchanging' : codes'[flow'[g].code] # NoCode
      BY <2>4, <2>10
    <3>2. \A g \in Flows : Redeeming(g)' => codes'[flow'[g].code].consumed /\ ~flow'[g].late
      <4>1. codes'[flow'[f].code].consumed /\ ~flow'[f].late
        BY <1>2, <2>2, <2>4, <2>5
      <4>2. \A g \in Flows : Redeeming(g)' /\ g # f => codes'[flow'[g].code].consumed /\ ~flow'[g].late
        BY <2>4, <2>5, <2>8, <2>10, <2>11 DEF OAuthSound, ExchangesAreFair
      <4> QED BY <4>1, <4>2
    <3>3. \A g \in Flows : At(g, "issue")' =>
            codes'[flow'[g].code].app = flow'[g].by /\ codes'[flow'[g].code].redirect = flow'[g].at
      <4> SUFFICES ASSUME NEW g \in Flows, At(g, "issue")'
                   PROVE  codes'[flow'[g].code].app = flow'[g].by /\ codes'[flow'[g].code].redirect = flow'[g].at
        OBVIOUS
      <4>1. g # f /\ At(g, "issue") /\ flow'[g] = flow[g] /\ g \in Exchanging'
        BY <2>5, <2>8, <2>11 DEF Redeeming
      <4> QED BY <2>4, <2>10, <4>1 DEF OAuthSound, ExchangesAreFair
    <3>4. \A g, h \in Flows : g # h /\ Redeeming(g)' /\ Redeeming(h)' => flow'[g].code # flow'[h].code
      BY <2>2, <2>5, <2>8, <2>9 DEF OAuthSound, ExchangesAreFair
    <3> QED BY <3>1, <3>2, <3>3, <3>4 DEF ExchangesAreFair
  <2>13. \A t \in tokens : t.code \in Codes /\ t.code # c /\ codes[t.code] # NoCode
    BY <1>0, <1>2 DEF OAuthSound, TokensAreRedeemed, OAuthTypeOK, Token
  <2>14. TokensAreRedeemed'
    <3>1. \A t \in tokens : codes'[t.code] = codes[t.code]
      BY <1>0, <1>2, <2>13 DEF OAuthTypeOK
    <3>2. \A t \in tokens : \A g \in Flows : Redeeming(g)' => flow'[g].code # t.code
      BY <2>2, <2>5, <2>8, <2>13 DEF OAuthSound, TokensAreRedeemed
    <3> QED BY <1>0, <3>1, <3>2 DEF OAuthSound, TokensAreRedeemed
  <2>15. CodesAreGranted'
    BY <1>0, <2>4 DEF OAuthSound, CodesAreGranted, oauthHistory
  <2>16. \A t : Issued(t)' = Issued(t)
    BY <1>0 DEF Issued
  <2>17. \A g \in Flows : /\ ~(g = f /\ (Calling(g)' \/ At(g, "report")' \/ At(g, "resolve")'))
                          /\ g # f => flow'[g] = flow[g]
    BY <2>2, <2>5 DEF Calling, At
  <2>18. RevocationsLast'
    BY <1>0, <2>16, <2>17 DEF OAuthSound, RevocationsLast, Calling, At, oauthHistory
  <2>19. ServedWithin'
    BY <1>0, <2>16 DEF OAuthSound, ServedWithin, oauthHistory
  <2> QED BY <2>7, <2>12, <2>14, <2>15, <2>18, <2>19 DEF OAuthSound
<1> QED BY <1>1, <1>2 DEF ConsumeCode

LEMMA IssueTokenKeeps ==
  ASSUME OAuthCounted, OAuthSound, NEW f \in Flows, IssueToken(f)
  PROVE  OAuthCounted' /\ OAuthSound'
<1>0. /\ OAuthTypeOK /\ At(f, "issue") /\ flow' = [flow EXCEPT ![f] = AtRest]
      /\ UNCHANGED <<registered, codes, lapsed, flows, oauthHistory>>
  BY DEF IssueToken, OAuthCounted, Finish
<1>1. OAuthCounted'
  BY IssueCounts DEF OAuthSound
<1>2. PICK t \in Token :
        /\ tokens' = tokens \cup {t} /\ t \notin tokens /\ ~t.revoked /\ t.id = Cardinality(tokens) + 1
        /\ t.code = flow[f].code /\ t.by = flow[f].by /\ t.at = flow[f].at /\ t.late = flow[f].late
        /\ t.app = codes[t.code].app /\ t.actor = codes[t.code].actor /\ t.scopes = codes[t.code].scopes
  BY IssueCounts DEF OAuthSound
<1>3. Redeeming(f) /\ f \in Exchanging
  BY <1>0 DEF Redeeming, Exchanging, At
<1>4. flow'[f].step = "rest" /\ \A g \in Flows \ {f} : flow'[g] = flow[g]
  BY <1>0 DEF OAuthTypeOK, AtRest
<1>5. \A g \in Flows : /\ ~(g = f /\ (Redeeming(g)' \/ g \in Exchanging' \/ Calling(g)' \/ At(g, "issue")'
                                        \/ At(g, "report")' \/ At(g, "resolve")'))
                       /\ g # f => flow'[g] = flow[g]
  BY <1>4 DEF Redeeming, Exchanging, Calling, At
<1>6. CodesAreGranted'
  BY <1>0 DEF OAuthSound, CodesAreGranted, oauthHistory
<1>7. ExchangesAreFair'
  BY <1>0, <1>5 DEF OAuthSound, ExchangesAreFair, Redeeming, Exchanging, At
<1>8. TokensAreRedeemed'
  <2>1. /\ codes[t.code] # NoCode /\ codes[t.code].consumed
        /\ t.by = t.app /\ t.at = codes[t.code].redirect /\ ~t.late
    BY <1>0, <1>2, <1>3 DEF OAuthSound, ExchangesAreFair
  <2>2. \A g \in Flows : Redeeming(g)' => Redeeming(g) /\ g # f /\ flow'[g].code = flow[g].code
    BY <1>5 DEF Redeeming, At
  <2>3. \A g \in Flows : Redeeming(g)' => flow'[g].code # t.code
    BY <1>2, <1>3, <2>2 DEF OAuthSound, ExchangesAreFair
  <2>4. \A u \in tokens : u.code # t.code
    BY <1>2, <1>3 DEF OAuthSound, TokensAreRedeemed
  <2>5. \A u \in tokens' :
          /\ codes[u.code] # NoCode /\ codes[u.code].consumed
          /\ codes[u.code].app = u.app /\ codes[u.code].actor = u.actor /\ codes[u.code].scopes = u.scopes
          /\ u.by = u.app /\ u.at = codes[u.code].redirect /\ ~u.late
          /\ \A g \in Flows : Redeeming(g)' => flow'[g].code # u.code
    BY <1>2, <2>1, <2>2, <2>3 DEF OAuthSound, TokensAreRedeemed
  <2>6. \A u, v \in tokens' : u.code = v.code => u = v
    BY <1>2, <2>4 DEF OAuthSound, TokensAreRedeemed
  <2> QED BY <1>0, <2>5, <2>6 DEF TokensAreRedeemed
<1>9. \A k : Issued(k) # {} => Issued(k)' = Issued(k)
  <2> SUFFICES ASSUME NEW k, Issued(k) # {} PROVE Issued(k)' = Issued(k)
    OBVIOUS
  <2>1. k \in 1..Cardinality(tokens)
    BY DEF Issued, OAuthCounted, TokensAreCounted
  <2>2. Cardinality(tokens) \in Nat
    BY FS_CardinalityType DEF OAuthCounted, TokensAreCounted
  <2>3. t.id # k
    BY <1>2, <2>1, <2>2
  <2> QED BY <1>2, <2>3 DEF Issued
<1>10. RevocationsLast'
  <2>1. \A k \in reported : Issued(k)' # {} /\ \A u \in Issued(k)' : u.revoked
    BY <1>9 DEF OAuthSound, RevocationsLast
  <2>2. \A g \in Flows : At(g, "report")' => \A u \in Issued(flow[g].token)' : u.revoked
    <3> SUFFICES ASSUME NEW g \in Flows, At(g, "report")' PROVE \A u \in Issued(flow[g].token)' : u.revoked
      OBVIOUS
    <3>1. g # f /\ flow'[g] = flow[g] /\ At(g, "report") /\ Calling(g)
      BY <1>5 DEF At, Calling
    <3>2. PICK k : k = flow[g].token
      OBVIOUS
    <3>3. Issued(k) # {} /\ \A u \in Issued(k) : u.revoked
      BY <3>1, <3>2 DEF OAuthSound, RevocationsLast
    <3>4. Issued(k)' = Issued(k)
      BY <1>9, <3>3
    <3>5. Issued(flow[g].token)' = Issued(k)'
      BY <3>1, <3>2 DEF Issued
    <3> QED BY <3>3, <3>4, <3>5
  <2>3. \A g \in Flows : Calling(g)' => Issued(flow[g].token)' # {}
    <3> SUFFICES ASSUME NEW g \in Flows, Calling(g)' PROVE Issued(flow[g].token)' # {}
      OBVIOUS
    <3>1. flow'[g] = flow[g] /\ Calling(g)
      BY <1>5 DEF At, Calling
    <3>2. Issued(flow[g].token) # {}
      BY <3>1 DEF OAuthSound, RevocationsLast
    <3> QED BY <1>2, <3>1, <3>2 DEF Issued
  <2>4. \A g \in Flows : At(g, "resolve")' => flow'[g].need \in ScopeSets /\ (flow'[g].barred => flow'[g].token \in reported)
    BY <1>5 DEF OAuthSound, RevocationsLast, At
  <2>5. reported' = reported
    BY <1>0 DEF oauthHistory
  <2> QED BY <2>1, <2>2, <2>3, <2>4, <2>5 DEF RevocationsLast
<1>11. ServedWithin'
  BY <1>0, <1>9 DEF OAuthSound, ServedWithin, oauthHistory
<1> QED BY <1>1, <1>6, <1>7, <1>8, <1>10, <1>11 DEF OAuthSound

(* A row read without its revocation was never barred.                     *)
LEMMA AuthenticateKeeps ==
  ASSUME OAuthCounted, OAuthSound, NEW f \in Flows, Authenticate(f)
  PROVE  OAuthCounted' /\ OAuthSound'
<1> DEFINE k == flow[f].token
           need == flow[f].need
           s == [token |-> k, need |-> need, barred |-> flow[f].barred]
<1>0. /\ OAuthTypeOK /\ At(f, "resolve") /\ flow' = [flow EXCEPT ![f] = AtRest]
      /\ UNCHANGED <<registered, codes, lapsed, tokens, flows, grants, reported>>
  BY DEF Authenticate, OAuthCounted, Finish
<1>1. flow[f] \in Call
  BY <1>0, FlowKinds DEF At
<1>2. \/ served' = served
      \/ /\ served' = served \cup {s}
         /\ \E u \in Issued(k) : ~u.revoked /\ Satisfied(need, u.scopes)
  BY DEF Authenticate
<1>3. AtRest \in Exchange \cup Call \cup {AtRest} /\ AtRest \notin Exchange
  BY DEF Exchange, AtRest
<1>4. OAuthTypeOK'
  <2>1. flow' \in [Flows -> Exchange \cup Call \cup {AtRest}]
    BY <1>0, FlowMoves
  <2>2. need \in ScopeSets => s \in Served
    BY <1>1 DEF Call, Served
  <2>3. need \in ScopeSets
    BY <1>0 DEF OAuthSound, RevocationsLast
  <2> QED BY <1>0, <1>2, <2>1, <2>2, <2>3 DEF OAuthTypeOK
<1>5. OAuthCounted'
  BY <1>0, <1>3, <1>4, CountsStay
<1>6. FlowFits(f, AtRest)
  BY DEF FlowFits, AtRest
<1>7. \A j : Issued(j)' = Issued(j)
  BY <1>0 DEF Issued
<1>8. ServedWithin'
  <2>1. (\E u \in Issued(k) : ~u.revoked) => ~flow[f].barred
    BY <1>0 DEF OAuthSound, RevocationsLast
  <2>2. \A u, v \in Issued(k) : u = v
    BY DEF Issued, OAuthCounted, TokensAreCounted
  <2>3. s.token = k /\ s.need = need /\ s.barred = flow[f].barred
    OBVIOUS
  <2>4. \A x \in served' :
          /\ ~x.barred /\ Issued(x.token) # {}
          /\ \A t \in Issued(x.token) : Satisfied(x.need, t.scopes)
    <3> HIDE DEF s, k, need
    <3> QED BY <1>2, <2>1, <2>2, <2>3 DEF OAuthSound, ServedWithin, k
  <2> QED BY <1>7, <2>4 DEF ServedWithin
<1> QED
  <2>1. /\ CodesAreGranted' /\ TokensAreRedeemed' /\ ExchangesAreFair'
    <3>1. flow'[f].step = "rest" /\ \A g \in Flows \ {f} : flow'[g] = flow[g]
      BY <1>0 DEF OAuthTypeOK, AtRest
    <3> QED BY <1>0, <3>1 DEF OAuthSound, CodesAreGranted, TokensAreRedeemed, ExchangesAreFair, Exchanging,
              Redeeming, At
  <2>2. RevocationsLast'
    <3>1. flow'[f].step = "rest" /\ \A g \in Flows \ {f} : flow'[g] = flow[g]
      BY <1>0 DEF OAuthTypeOK, AtRest
    <3> QED BY <1>0, <1>7, <3>1 DEF OAuthSound, RevocationsLast, Calling, At
  <2> QED BY <1>5, <1>8, <2>1, <2>2 DEF OAuthSound

LEMMA RevokeTokenKeeps ==
  ASSUME OAuthCounted, OAuthSound, NEW f \in Flows, RevokeToken(f)
  PROVE  OAuthCounted' /\ OAuthSound'
<1> DEFINE k == flow[f].token
<1>0. /\ OAuthTypeOK /\ At(f, "revoke") /\ Forward(f, "report") /\ flow[f] \in Call
      /\ UNCHANGED <<registered, codes, lapsed, flows, oauthHistory>>
  BY FlowKinds DEF RevokeToken, OAuthCounted, At
<1>1. OAuthCounted' /\ tokens' = {Revoked(u, k) : u \in tokens}
  BY RevokeCounts
<1>2. PICK r \in Call : flow' = [flow EXCEPT ![f] = r] /\ r.step = "report" /\ r.token = k
  BY <1>0, CallGoesOn
<1>3. flow'[f] = r /\ \A g \in Flows \ {f} : flow'[g] = flow[g]
  BY <1>0, <1>2, FlowMoves
<1>4. \A u \in tokens : /\ Revoked(u, k) \in tokens' /\ SameRow(u, Revoked(u, k))
                        /\ Revoked(u, k).revoked <=> u.revoked \/ u.id = k
  BY <1>0, <1>1, RevokedRow DEF OAuthTypeOK
<1>5. \A v \in tokens' : \E u \in tokens : SameRow(u, v) /\ (v.revoked <=> u.revoked \/ u.id = k) /\ v = Revoked(u, k)
  BY <1>1, <1>4
<1>6. \A j : Issued(j) # {} <=> Issued(j)' # {}
  BY <1>4, <1>5 DEF Issued, SameRow
<1>7. \A g \in Flows : /\ ~(g = f /\ (Redeeming(g)' \/ g \in Exchanging' \/ At(g, "issue")' \/ At(g, "resolve")'))
                       /\ g # f => flow'[g] = flow[g]
  BY <1>2, <1>3 DEF Redeeming, Exchanging, At
<1>8. CodesAreGranted' /\ ExchangesAreFair'
  BY <1>0, <1>7 DEF OAuthSound, CodesAreGranted, ExchangesAreFair, Redeeming, Exchanging, At, oauthHistory
<1>9. TokensAreRedeemed'
  <2>1. \A u \in tokens :
          /\ codes[u.code] # NoCode /\ codes[u.code].consumed
          /\ codes[u.code].app = u.app /\ codes[u.code].actor = u.actor /\ codes[u.code].scopes = u.scopes
          /\ u.by = u.app /\ u.at = codes[u.code].redirect /\ ~u.late
          /\ \A g \in Flows : Redeeming(g)' => flow'[g].code # u.code
    BY <1>7 DEF OAuthSound, TokensAreRedeemed, Redeeming, At
  <2>2. \A v \in tokens' :
          /\ codes[v.code] # NoCode /\ codes[v.code].consumed
          /\ codes[v.code].app = v.app /\ codes[v.code].actor = v.actor /\ codes[v.code].scopes = v.scopes
          /\ v.by = v.app /\ v.at = codes[v.code].redirect /\ ~v.late
          /\ \A g \in Flows : Redeeming(g)' => flow'[g].code # v.code
    BY <1>5, <2>1 DEF SameRow
  <2>3. \A v, w \in tokens' : v.code = w.code => v = w
    BY <1>5 DEF OAuthSound, TokensAreRedeemed, SameRow
  <2> QED BY <1>0, <2>2, <2>3 DEF TokensAreRedeemed
<1>10. RevocationsLast'
  <2>1. \A j \in reported : Issued(j)' # {} /\ \A v \in Issued(j)' : v.revoked
    BY <1>5, <1>6 DEF OAuthSound, RevocationsLast, Issued, SameRow
  <2>2. \A g \in Flows : At(g, "report")' => \A v \in tokens' : v.id = flow'[g].token => v.revoked
    <3>1. \A v \in tokens' : v.id = k => v.revoked
      BY <1>5 DEF SameRow
    <3>2. \A g \in Flows : g # f /\ At(g, "report")' => \A u \in tokens : u.id = flow'[g].token => u.revoked
      BY <1>7 DEF OAuthSound, RevocationsLast, At, Issued
    <3> QED BY <1>2, <1>3, <1>5, <3>1, <3>2 DEF SameRow
  <2>3. \A g \in Flows : Calling(g)' => \E v \in tokens' : v.id = flow'[g].token
    <3>1. \A g \in Flows : Calling(g) => \E u \in tokens : u.id = flow[g].token
      BY DEF OAuthSound, RevocationsLast, Issued
    <3>2. \A g \in Flows : Calling(g)' => Calling(g) /\ flow'[g].token = flow[g].token
      BY <1>0, <1>2, <1>3 DEF Calling, At
    <3> QED BY <1>4, <3>1, <3>2 DEF SameRow
  <2>4. \A g \in Flows : At(g, "resolve")' => flow'[g].need \in ScopeSets /\ (flow'[g].barred => flow'[g].token \in reported)
    BY <1>7 DEF OAuthSound, RevocationsLast, At
  <2> QED BY <1>0, <2>1, <2>2, <2>3, <2>4 DEF RevocationsLast, oauthHistory, Issued
<1>11. ServedWithin'
  <2>1. \A x \in served : \A v \in Issued(x.token)' : Satisfied(x.need, v.scopes)
    BY <1>0, <1>5 DEF OAuthSound, ServedWithin, Issued, SameRow, oauthHistory
  <2> QED BY <1>0, <1>6, <2>1 DEF OAuthSound, ServedWithin, oauthHistory
<1> QED BY <1>1, <1>8, <1>9, <1>10, <1>11 DEF OAuthSound

LEMMA ReportRevokedKeeps ==
  ASSUME OAuthCounted, OAuthSound, NEW f \in Flows, ReportRevoked(f)
  PROVE  OAuthCounted' /\ OAuthSound'
<1> DEFINE k == flow[f].token
<1>0. /\ OAuthTypeOK /\ At(f, "report") /\ flow' = [flow EXCEPT ![f] = AtRest] /\ flow[f] \in Call
      /\ reported' = reported \cup {k}
      /\ UNCHANGED <<registered, codes, lapsed, tokens, flows, grants, served>>
  BY FlowKinds DEF ReportRevoked, OAuthCounted, At, Finish
<1>1. AtRest \in Exchange \cup Call \cup {AtRest} /\ AtRest \notin Exchange
  BY DEF Exchange, AtRest
<1>2. OAuthTypeOK'
  <2>1. flow' \in [Flows -> Exchange \cup Call \cup {AtRest}]
    BY <1>0, FlowMoves
  <2>2. k \in TokenIds
    BY <1>0 DEF Call
  <2> QED BY <1>0, <2>1, <2>2 DEF OAuthTypeOK
<1>3. OAuthCounted'
  BY <1>0, <1>1, <1>2, CountsStay
<1>4. \A j : Issued(j)' = Issued(j)
  BY <1>0 DEF Issued
<1>5. flow'[f].step = "rest" /\ \A g \in Flows \ {f} : flow'[g] = flow[g]
  BY <1>0 DEF OAuthTypeOK, AtRest
<1>6. CodesAreGranted' /\ TokensAreRedeemed' /\ ExchangesAreFair'
  BY <1>0, <1>5 DEF OAuthSound, CodesAreGranted, TokensAreRedeemed, ExchangesAreFair, Exchanging, Redeeming, At
<1>7. RevocationsLast'
  <2>1. Issued(k) # {} /\ \A t \in Issued(k) : t.revoked
    BY <1>0 DEF OAuthSound, RevocationsLast, Calling
  <2> QED BY <1>0, <1>4, <1>5, <2>1 DEF OAuthSound, RevocationsLast, Calling, At
<1>8. ServedWithin'
  BY <1>0, <1>4 DEF OAuthSound, ServedWithin
<1> QED BY <1>3, <1>6, <1>7, <1>8 DEF OAuthSound

(* Steps that leave flows and tokens alone.                                *)
LEMMA TablesGrow ==
  ASSUME OAuthCounted, OAuthSound, OAuthTypeOK', CodesAreGranted',
         UNCHANGED <<tokens, flow, flows, served, reported>>,
         \A c \in Codes : codes[c] # NoCode => codes'[c] = codes[c]
  PROVE  OAuthCounted' /\ OAuthSound'
<1>1. OAuthCounted'
  BY DEF OAuthCounted, TokensAreCounted, Exchanging
<1>2. RevocationsLast' /\ ServedWithin'
  BY DEF OAuthSound, RevocationsLast, ServedWithin, Calling, At, Issued
<1>3. \A f \in Exchanging : flow[f].code \in Codes /\ codes'[flow[f].code] = codes[flow[f].code]
  <2> SUFFICES ASSUME NEW f \in Exchanging
               PROVE  flow[f].code \in Codes /\ codes'[flow[f].code] = codes[flow[f].code]
    OBVIOUS
  <2>1. flow[f] \in Exchange
    BY FlowKinds DEF OAuthCounted, Exchanging
  <2> QED BY <2>1 DEF OAuthSound, ExchangesAreFair, Exchange
<1>4. \A f \in Flows : Redeeming(f) \/ At(f, "issue") => f \in Exchanging
  BY DEF Redeeming, Exchanging, At
<1>5. ExchangesAreFair'
  BY <1>3, <1>4 DEF OAuthSound, ExchangesAreFair, Exchanging, Redeeming, At
<1>6. \A t \in tokens : codes'[t.code] = codes[t.code]
  BY DEF OAuthCounted, OAuthTypeOK, Token, OAuthSound, TokensAreRedeemed
<1>7. TokensAreRedeemed'
  BY <1>6 DEF OAuthSound, TokensAreRedeemed, Redeeming, At
<1> QED BY <1>1, <1>2, <1>5, <1>7 DEF OAuthSound

LEMMA RegisterAppKeeps ==
  ASSUME OAuthCounted, OAuthSound, NEW a \in Apps, NEW scopes \in ScopeSets, RegisterApp(a, scopes)
  PROVE  OAuthCounted' /\ OAuthSound'
<1>1. OAuthTypeOK /\ OAuthTypeOK'
  BY DEF RegisterApp, OAuthCounted, OAuthTypeOK, oauthHistory
<1>2. \A b \in Apps : registered[b] # Unregistered => registered'[b] = registered[b]
  BY <1>1 DEF RegisterApp, OAuthTypeOK
<1>3. \A c \in Codes : codes[c] # NoCode => codes[c].app \in Apps
  BY <1>1 DEF OAuthTypeOK, Code
<1>4. CodesAreGranted'
  BY <1>2, <1>3 DEF RegisterApp, OAuthSound, CodesAreGranted, oauthHistory
<1> QED BY <1>1, <1>4, TablesGrow DEF RegisterApp, oauthHistory

LEMMA ApproveKeeps ==
  ASSUME OAuthCounted, OAuthSound, NEW a \in Apps, NEW actor \in Owned \cup Foreign,
         NEW scopes \in ScopeSets, NEW redirect \in Redirects, Approve(a, actor, scopes, redirect)
  PROVE  OAuthCounted' /\ OAuthSound'
<1> DEFINE row == [app |-> a, actor |-> actor, scopes |-> scopes, redirect |-> redirect, consumed |-> FALSE]
           Granted(c) == [code |-> c, app |-> a, actor |-> actor, scopes |-> scopes, redirect |-> redirect]
<1>0. OAuthTypeOK
  BY DEF OAuthCounted
<1>1. PICK c \in Codes : /\ codes[c] = NoCode /\ codes' = [codes EXCEPT ![c] = row]
                         /\ grants' = grants \cup {Granted(c)}
  BY DEF Approve
<1>2. /\ registered[a] # Unregistered /\ actor \in Owned /\ Satisfied(scopes, registered[a])
      /\ UNCHANGED <<registered, lapsed, tokens, flow, flows, served, reported>>
  BY DEF Approve, OwnsActor
<1>3. row \in Code /\ Granted(c) \in Grant
  BY <1>2 DEF Code, Grant
<1>4. OAuthTypeOK'
  <2> HIDE DEF row, Granted
  <2> QED BY <1>0, <1>1, <1>2, <1>3 DEF OAuthTypeOK
<1>5. \A d \in Codes : codes'[d] = IF d = c THEN row ELSE codes[d]
  BY <1>0, <1>1 DEF OAuthTypeOK
<1>6. CodesAreGranted'
  <2> SUFFICES ASSUME NEW d \in Codes, codes'[d] # NoCode
               PROVE  /\ [code |-> d, app |-> codes'[d].app, actor |-> codes'[d].actor,
                          scopes |-> codes'[d].scopes, redirect |-> codes'[d].redirect] \in grants'
                      /\ registered[codes'[d].app] # Unregistered
                      /\ Satisfied(codes'[d].scopes, registered[codes'[d].app])
    BY <1>2 DEF CodesAreGranted
  <2>1. CASE d = c
    <3>1. codes'[d] = row
      BY <1>5, <2>1
    <3> QED BY <1>1, <1>2, <2>1, <3>1
  <2>2. CASE d # c
    BY <1>1, <1>5, <2>2 DEF OAuthSound, CodesAreGranted
  <2> QED BY <2>1, <2>2
<1> QED BY <1>1, <1>2, <1>4, <1>5, <1>6, TablesGrow

LEMMA LapseKeeps ==
  ASSUME OAuthCounted, OAuthSound, NEW c \in Codes, Lapse(c)
  PROVE  OAuthCounted' /\ OAuthSound'
<1>1. OAuthTypeOK' /\ CodesAreGranted'
  BY DEF Lapse, OAuthCounted, OAuthTypeOK, OAuthSound, CodesAreGranted, oauthHistory
<1> QED BY <1>1, TablesGrow DEF Lapse, oauthHistory

LEMMA OAuthStep ==
  OAuthCounted /\ OAuthSound /\ [OAuthNext]_oauthVars => OAuthCounted' /\ OAuthSound'
<1> SUFFICES ASSUME OAuthCounted, OAuthSound, [OAuthNext]_oauthVars PROVE OAuthCounted' /\ OAuthSound'
  OBVIOUS
<1>1. CASE UNCHANGED oauthVars
  <2>1. OAuthTypeOK' /\ CodesAreGranted'
    BY <1>1 DEF oauthVars, oauthHistory, OAuthCounted, OAuthTypeOK, OAuthSound, CodesAreGranted
  <2> QED BY <1>1, <2>1, TablesGrow DEF oauthVars, oauthHistory
<1>2. ASSUME NEW f \in Flows, BreakOff(f) PROVE OAuthCounted' /\ OAuthSound'
  BY <1>2, FlowEnds DEF BreakOff
<1>3. CASE OAuthNext
  BY <1>2, <1>3, RegisterAppKeeps, ApproveKeeps, LapseKeeps, PresentCodeKeeps, ConsumeCodeKeeps, MatchGrantKeeps,
     IssueTokenKeeps, PresentTokenKeeps, PresentForRevocationKeeps, AuthenticateKeeps, RevokeTokenKeeps,
     ReportRevokedKeeps DEF OAuthNext
<1> QED BY <1>1, <1>3

LEMMA OAuthHolds == OAuthSpec => [](OAuthCounted /\ OAuthSound)
<1>1. OAuthInit => OAuthSound
  BY DEF OAuthInit, OAuthSound, CodesAreGranted, ExchangesAreFair, TokensAreRedeemed, RevocationsLast,
     ServedWithin, Exchanging, Redeeming, Calling, At, AtRest
<1> QED BY <1>1, OAuthCountsBegin, OAuthStep, PTL DEF OAuthSpec

(* A scope stands for those below it, two levels deep.                     *)
LEMMA SatisfiedIsTransitive ==
  ASSUME NEW A, NEW B, NEW C, Satisfied(A, B), Satisfied(B, C)
  PROVE  Satisfied(A, C)
BY DEF Satisfied, SubsumingTopLevel

(* However many exchanges, requests and revocations run, and wherever they *)
(* break off: a code becomes one token at most, the one the owner approved,*)
(* and it serves only what its application registered, never after a       *)
(* revocation was answered.                                                *)
THEOREM TokensEarned == OAuthSpec => []TokensAreEarned
<1>1. OAuthCounted /\ OAuthSound => TokensAreEarned
  <2> SUFFICES ASSUME OAuthCounted, OAuthSound PROVE TokensAreEarned
    OBVIOUS
  <2>1. \A t \in tokens : t.code \in Codes /\ codes[t.code] # NoCode
    BY DEF OAuthCounted, OAuthTypeOK, Token, OAuthSound, TokensAreRedeemed
  <2>2. ASSUME NEW t \in tokens
        PROVE  \E g \in grants : /\ <<g.code, g.app, g.actor, g.scopes>> = <<t.code, t.app, t.actor, t.scopes>>
                                 /\ t.by = g.app /\ t.at = g.redirect /\ ~t.late
    <3> DEFINE c == t.code
               g == [code |-> c, app |-> codes[c].app, actor |-> codes[c].actor, scopes |-> codes[c].scopes,
                     redirect |-> codes[c].redirect]
    <3>1. g \in grants
      BY <2>1 DEF OAuthSound, CodesAreGranted
    <3>2. <<g.code, g.app, g.actor, g.scopes>> = <<t.code, t.app, t.actor, t.scopes>>
      BY DEF OAuthSound, TokensAreRedeemed
    <3>3. t.by = g.app /\ t.at = g.redirect /\ ~t.late
      BY DEF OAuthSound, TokensAreRedeemed
    <3> QED BY <3>1, <3>2, <3>3
  <2>3. ASSUME NEW s \in served, NEW t \in Issued(s.token)
        PROVE  Satisfied(s.need, registered[t.app]) /\ ~s.barred
    <3>1. Satisfied(s.need, t.scopes) /\ ~s.barred
      BY DEF OAuthSound, ServedWithin
    <3>2. Satisfied(t.scopes, registered[t.app])
      BY <2>1 DEF OAuthSound, CodesAreGranted, TokensAreRedeemed, Issued
    <3> QED BY <3>1, <3>2, SatisfiedIsTransitive
  <2> QED BY <2>2, <2>3 DEF TokensAreEarned, OAuthSound, TokensAreRedeemed
<1> QED BY <1>1, OAuthHolds, PTL

-----------------------------------------------------------------------------
(* Who gets to read a post                                                 *)

(* The audience a text was given, its later followers included.            *)
Addressed(i) ==
  journal[i].boostOf = NoBoost =>
    /\ <<Author(i), i>> \in entitled
    /\ \A v \in journal[i].mentions : <<v, i>> \in entitled
    /\ journal[i].visibility = "public" => \A v \in Everyone \cup {Nobody} : <<v, i>> \in entitled
    /\ journal[i].visibility = "unlisted" => \A v \in Everyone : <<v, i>> \in entitled
    /\ journal[i].visibility = "private" =>
         \A v \in Everyone : <<v, Author(i)>> \in following => <<v, i>> \in entitled

(* A boost names an earlier row, and a resident boosts what it may read.   *)
Carried(i) ==
  LET t == journal[i].boostOf IN
  t # NoBoost =>
    /\ t \in DOMAIN journal
    /\ journal[i].mentions = {}
    /\ Author(i) \in Residents /\ journal[t].boostOf = NoBoost => <<Author(i), t>> \in entitled

AudienceSound ==
  /\ AudienceTypeOK /\ journal \in Seq(Entry)
  /\ \A i \in DOMAIN journal : Addressed(i) /\ Carried(i)
  /\ \A v \in Opened : fetching[v].viewer = v
  /\ sent \subseteq entitled

LEMMA AudienceBegins == AudienceInit => AudienceSound
<1> SUFFICES ASSUME AudienceInit PROVE AudienceSound
  OBVIOUS
<1>1. journal \in Seq(Entry) /\ Len(journal) = 0 /\ DOMAIN journal = {}
  BY DEF AudienceInit
<1>2. AudienceTypeOK
  BY <1>1, AudienceAssumption DEF AudienceInit, AudienceTypeOK
<1> QED BY <1>1, <1>2 DEF AudienceSound, AudienceInit, Opened

LEMMA JournalGrows ==
  ASSUME journal \in Seq(Entry), NEW e \in Entry, Added(e)
  PROVE  /\ journal' \in Seq(Entry) /\ Len(journal') = NewId /\ NewId \in Nat
         /\ DOMAIN journal = 1..Len(journal) /\ Len(journal) \in Nat
         /\ DOMAIN journal' = DOMAIN journal \cup {NewId}
         /\ NewId \notin DOMAIN journal /\ journal'[NewId] = e
         /\ \A i \in DOMAIN journal : journal'[i] = journal[i]
BY DEF Added, NewId

(* What the type says of the row of an entry.                              *)
LEMMA EntryFacts ==
  ASSUME AudienceSound, NEW i \in DOMAIN journal
  PROVE  /\ journal[i] \in Entry /\ Author(i) \in Everyone /\ i \in 1..MaxEntries
         /\ journal[i].mentions \subseteq Residents /\ journal[i].visibility \in Visibility
<1>1. journal[i] \in Entry /\ DOMAIN journal = 1..Len(journal) /\ Len(journal) \in Nat /\ Len(journal) <= MaxEntries
  BY DEF AudienceSound, AudienceTypeOK
<1> QED BY <1>1, AudienceAssumption DEF Entry, Author

(* Whoever may see a text by the one judgment of is_visible is entitled.   *)
LEMMA VisibleMeansEntitled ==
  ASSUME AudienceSound, NEW v \in Everyone \cup {Nobody}, NEW i \in DOMAIN journal,
         journal[i].boostOf = NoBoost, NEW follows \in BOOLEAN, IsVisible(journal[i], v, follows),
         follows => <<v, Author(i)>> \in following
  PROVE  <<v, i>> \in entitled
<1>1. Addressed(i) /\ Author(i) \in Everyone
  BY EntryFacts DEF AudienceSound
<1>2. v # Nobody => v \in Everyone
  OBVIOUS
<1> QED BY <1>1, <1>2 DEF Addressed, IsVisible, Author

-----------------------------------------------------------------------------
LEMMA EntryFits ==
  ASSUME AudienceSound, NEW e \in Entry, Room, Added(e), entitled \subseteq entitled',
         following' = following, fetching' = fetching, avoided' = avoided, turns' = turns,
         entitled' \subseteq (Everyone \cup {Nobody}) \X (1..MaxEntries),
         sent' \subseteq Visitors \X (1..MaxEntries), sent' \subseteq entitled',
         e.boostOf = NoBoost =>
           /\ <<e.author, NewId>> \in entitled'
           /\ \A v \in e.mentions : <<v, NewId>> \in entitled'
           /\ e.visibility = "public" => \A v \in Everyone \cup {Nobody} : <<v, NewId>> \in entitled'
           /\ e.visibility = "unlisted" => \A v \in Everyone : <<v, NewId>> \in entitled'
           /\ e.visibility = "private" =>
                \A v \in Everyone : <<v, e.author>> \in following => <<v, NewId>> \in entitled',
         e.boostOf # NoBoost =>
           /\ e.boostOf \in DOMAIN journal /\ e.mentions = {}
           /\ e.author \in Residents /\ journal[e.boostOf].boostOf = NoBoost => <<e.author, e.boostOf>> \in entitled'
  PROVE  AudienceSound'
<1>1. /\ journal' \in Seq(Entry) /\ Len(journal') = NewId /\ NewId \in Nat
      /\ DOMAIN journal = 1..Len(journal) /\ Len(journal) \in Nat
      /\ DOMAIN journal' = DOMAIN journal \cup {NewId}
      /\ NewId \notin DOMAIN journal /\ journal'[NewId] = e
      /\ \A i \in DOMAIN journal : journal'[i] = journal[i]
  BY JournalGrows DEF AudienceSound
<1>2. PICK new \in Nat : new = NewId
  BY <1>1
<1>3. AudienceTypeOK'
  BY <1>1 DEF AudienceTypeOK, AudienceSound, Room
<1>4. ASSUME NEW i \in DOMAIN journal PROVE Addressed(i)' /\ Carried(i)'
  <2>1. Addressed(i) /\ Carried(i) /\ journal'[i] = journal[i]
    BY <1>1 DEF AudienceSound
  <2>2. Addressed(i)'
    BY <2>1 DEF Addressed, Author
  <2>3. Carried(i)'
    BY <1>1, <2>1 DEF Carried, Author
  <2> QED BY <2>2, <2>3
<1>5. Addressed(new)'
  BY <1>1, <1>2 DEF Addressed, Author
<1>6. Carried(new)'
  BY <1>1, <1>2 DEF Carried, Author
<1>7. (\A v \in Opened : fetching[v].viewer = v)'
  BY DEF AudienceSound, Opened
<1> QED BY <1>1, <1>2, <1>3, <1>4, <1>5, <1>6, <1>7 DEF AudienceSound

(* What is delivered of a text goes to readers it is meant for.            *)
LEMMA DeliveryIsMeant ==
  ASSUME NEW a \in Everyone, NEW visibility \in Visibility, NEW mentions \in SUBSET Residents
  PROVE  Visitors \cap DeriveRecipients(DeriveAddressing(visibility), a, mentions)
           \subseteq Meant(a, visibility, mentions) \cap Visitors
<1>1. mentions \cap Visitors = {} /\ Visitors \subseteq Everyone
  BY AudienceAssumption DEF Everyone
<1>2. CASE visibility = "public"
  BY <1>1, <1>2 DEF DeriveRecipients, DeriveAddressing, Meant, Followers
<1>3. CASE visibility = "unlisted"
  BY <1>1, <1>3 DEF DeriveRecipients, DeriveAddressing, Meant, Followers
<1>4. CASE visibility = "private"
  BY <1>1, <1>4 DEF DeriveRecipients, DeriveAddressing, Meant, Followers
<1>5. CASE visibility = "direct"
  BY <1>1, <1>5 DEF DeriveRecipients, DeriveAddressing, Meant, Followers
<1> QED BY <1>2, <1>3, <1>4, <1>5 DEF Visibility

(* And a text's visibility says what its author means by it.               *)
LEMMA MeantReaders ==
  ASSUME NEW a \in Everyone, NEW visibility \in Visibility, NEW mentions \in SUBSET Residents
  PROVE  /\ a \in Meant(a, visibility, mentions) /\ mentions \subseteq Meant(a, visibility, mentions)
         /\ Meant(a, visibility, mentions) \subseteq Everyone \cup {Nobody}
         /\ visibility = "public" => Meant(a, visibility, mentions) = Everyone \cup {Nobody}
         /\ visibility = "unlisted" => Meant(a, visibility, mentions) = Everyone
         /\ visibility = "private" => \A v \in Everyone : <<v, a>> \in following => v \in Meant(a, visibility, mentions)
BY DEF Meant, Visibility, Everyone, Followers

LEMMA TextKeeps ==
  ASSUME AudienceSound, Room, NEW a \in Everyone, NEW visibility \in Visibility,
         NEW mentions \in SUBSET Residents,
         Added([author |-> a, visibility |-> visibility, mentions |-> mentions, boostOf |-> NoBoost]),
         entitled' = entitled \cup Meant(a, visibility, mentions) \X {NewId},
         sent' = sent \/ DeliverText(NewId, a, visibility, mentions),
         UNCHANGED <<following, avoided, fetching, turns>>
  PROVE  AudienceSound'
<1> DEFINE entry == [author |-> a, visibility |-> visibility, mentions |-> mentions, boostOf |-> NoBoost]
<1>1. /\ entry \in Entry /\ entry.author = a /\ entry.visibility = visibility /\ entry.mentions = mentions
      /\ entry.boostOf = NoBoost
  BY AudienceAssumption DEF Entry, NoBoost
<1>2. PICK e \in Entry : /\ Added(e) /\ e.author = a /\ e.visibility = visibility /\ e.mentions = mentions
                         /\ e.boostOf = NoBoost
  BY <1>1
<1> HIDE DEF entry
<1>3. PICK meant : meant = Meant(a, visibility, mentions)
  OBVIOUS
<1>4. /\ a \in meant /\ mentions \subseteq meant /\ meant \subseteq Everyone \cup {Nobody}
      /\ visibility = "public" => meant = Everyone \cup {Nobody}
      /\ visibility = "unlisted" => meant = Everyone
      /\ visibility = "private" => \A v \in Everyone : <<v, a>> \in following => v \in meant
  BY <1>3, MeantReaders
<1>5. NewId \in 1..MaxEntries
  BY <1>2, JournalGrows DEF AudienceSound, Room, NewId
<1>6. sent' \subseteq sent \cup ((meant \cap Visitors) \X {NewId})
  BY <1>3, DeliveryIsMeant DEF DeliverText
<1>7. entitled' = entitled \cup (meant \X {NewId})
  BY <1>3
<1>8. entitled' \subseteq (Everyone \cup {Nobody}) \X (1..MaxEntries)
  BY <1>4, <1>5, <1>7 DEF AudienceSound, AudienceTypeOK
<1>9. sent' \subseteq Visitors \X (1..MaxEntries) /\ sent' \subseteq entitled'
  BY <1>5, <1>6, <1>7 DEF AudienceSound, AudienceTypeOK
<1> QED BY <1>2, <1>4, <1>7, <1>8, <1>9, EntryFits

LEMMA CreateStatusKeeps ==
  ASSUME AudienceSound, NEW a \in Residents, NEW visibility \in Visibility, NEW mentions \in SUBSET Residents,
         CreateStatus(a, visibility, mentions)
  PROVE  AudienceSound'
BY TextKeeps DEF CreateStatus, Everyone

LEMMA InboundVisibilityIsMeant ==
  ASSUME NEW visibility \in Visibility
  PROVE  DeriveInboundVisibility(DeriveAddressing(visibility)) = visibility
BY DEF DeriveInboundVisibility, DeriveAddressing, Visibility

LEMMA IngestNoteKeeps ==
  ASSUME AudienceSound, NEW a \in Visitors, NEW visibility \in Visibility, NEW mentions \in SUBSET Residents,
         IngestNote(a, visibility, mentions)
  PROVE  AudienceSound'
<1>1. Added([author |-> a, visibility |-> visibility, mentions |-> mentions, boostOf |-> NoBoost])
  BY InboundVisibilityIsMeant DEF IngestNote
<1> QED BY <1>1, TextKeeps DEF IngestNote, Everyone

LEMMA AddBoostKeeps ==
  ASSUME AudienceSound, NEW a \in Everyone, NEW t \in DOMAIN journal, AddBoost(a, t),
         a \in Residents /\ journal[t].boostOf = NoBoost => <<a, t>> \in entitled
  PROVE  AudienceSound'
<1> DEFINE entry == [author |-> a, visibility |-> journal[t].visibility, mentions |-> {}, boostOf |-> t]
<1>1. journal[t].visibility \in Visibility /\ t \in 1..MaxEntries
  BY EntryFacts
<1>2. /\ entry \in Entry /\ entry.author = a /\ entry.mentions = {} /\ entry.boostOf = t
  BY <1>1, AudienceAssumption DEF Entry
<1>3. PICK e \in Entry : Added(e) /\ e.author = a /\ e.mentions = {} /\ e.boostOf = t
  BY <1>2 DEF AddBoost
<1>4. e.boostOf # NoBoost
  BY <1>1, <1>3 DEF NoBoost
<1>5. Room /\ UNCHANGED <<following, avoided, fetching, sent, entitled, turns>>
  BY DEF AddBoost
<1>6. /\ entitled \subseteq (Everyone \cup {Nobody}) \X (1..MaxEntries)
      /\ sent \subseteq Visitors \X (1..MaxEntries) /\ sent \subseteq entitled
  BY DEF AudienceSound, AudienceTypeOK
<1> QED BY <1>3, <1>4, <1>5, <1>6, EntryFits

LEMMA BoostKeeps ==
  ASSUME AudienceSound, NEW a \in Residents, NEW t \in DOMAIN journal, Boost(a, t)
  PROVE  AudienceSound'
<1>1. a \in Everyone
  BY DEF Everyone
<1>2. journal[t].boostOf = NoBoost => <<a, t>> \in entitled
  <2>1. IsVisible(journal[t], a, ViewerRelation(a, Author(t))) /\ ViewerRelation(a, Author(t)) \in BOOLEAN
    BY DEF Boost, VisibleTo, ViewerRelation
  <2>2. ViewerRelation(a, Author(t)) => <<a, Author(t)>> \in following
    BY DEF ViewerRelation
  <2>3. PICK follows \in BOOLEAN : follows = ViewerRelation(a, Author(t))
    BY <2>1
  <2> QED BY <1>1, <2>1, <2>2, <2>3, VisibleMeansEntitled
<1> QED BY <1>1, <1>2, AddBoostKeeps DEF Boost

LEMMA BoostFromAfarKeeps ==
  ASSUME AudienceSound, NEW a \in Visitors, NEW t \in DOMAIN journal, BoostFromAfar(a, t)
  PROVE  AudienceSound'
<1>1. a \in Everyone /\ a \notin Residents
  BY AudienceAssumption DEF Everyone
<1> QED BY <1>1, AddBoostKeeps DEF BoostFromAfar

-----------------------------------------------------------------------------
(* Steps that leave the journal alone                                      *)

LEMMA JournalStays ==
  ASSUME AudienceSound, AudienceTypeOK', journal' = journal, entitled \subseteq entitled',
         \A i \in DOMAIN journal : journal[i].boostOf = NoBoost /\ journal[i].visibility = "private" =>
           \A v \in Everyone : <<v, Author(i)>> \in following' => <<v, Author(i)>> \in following \/ <<v, i>> \in entitled',
         sent' \subseteq entitled',
         (\A v \in Opened : fetching[v].viewer = v)'
  PROVE  AudienceSound'
<1>1. ASSUME NEW i \in DOMAIN journal PROVE Addressed(i)' /\ Carried(i)'
  <2>1. Addressed(i) /\ Carried(i)
    BY DEF AudienceSound
  <2>2. Addressed(i)'
    BY <2>1 DEF Addressed, Author
  <2>3. Carried(i)'
    BY <2>1 DEF Carried, Author
  <2> QED BY <2>2, <2>3
<1> QED BY <1>1 DEF AudienceSound

LEMMA EditStatusKeeps ==
  ASSUME AudienceSound, NEW i \in DOMAIN journal, EditStatus(i)
  PROVE  AudienceSound'
<1>0. /\ i \in Texts(DOMAIN journal) /\ DeliverText(i, Author(i), journal[i].visibility, journal[i].mentions)
      /\ UNCHANGED <<journal, following, avoided, fetching, entitled, turns>>
  BY DEF EditStatus
<1>1. /\ journal[i].visibility \in Visibility /\ journal[i].mentions \subseteq Residents
      /\ Author(i) \in Everyone /\ i \in 1..MaxEntries
  BY EntryFacts
<1>2. PICK a \in Everyone, visibility \in Visibility, mentions \in SUBSET Residents :
        a = Author(i) /\ visibility = journal[i].visibility /\ mentions = journal[i].mentions
  BY <1>1
<1>3. PICK reached : reached = Visitors \cap DeriveRecipients(DeriveAddressing(visibility), a, mentions)
  OBVIOUS
<1>4. sent' = sent \cup (reached \X {i})
  BY <1>0, <1>2, <1>3 DEF DeliverText
<1>5. reached \subseteq Meant(a, visibility, mentions) \cap Visitors
  BY <1>3, DeliveryIsMeant
<1>6. Addressed(i) /\ journal[i].boostOf = NoBoost
  BY <1>0 DEF AudienceSound, Texts
<1>7. \A v \in reached : <<v, i>> \in entitled
  <2>1. \A v \in Meant(a, visibility, mentions) : v \in Everyone => <<v, i>> \in entitled
    BY <1>2, <1>6 DEF Addressed, Meant, Visibility, Followers
  <2> QED BY <1>5, <2>1 DEF Everyone
<1>8. sent' \subseteq entitled /\ sent' \subseteq Visitors \X (1..MaxEntries)
  BY <1>1, <1>4, <1>5, <1>7 DEF AudienceSound, AudienceTypeOK
<1>9. AudienceTypeOK'
  BY <1>0, <1>8 DEF AudienceSound, AudienceTypeOK
<1>10. (\A v \in Opened : fetching[v].viewer = v)'
  BY <1>0 DEF AudienceSound, Opened
<1> QED BY <1>0, <1>8, <1>9, <1>10, JournalStays

LEMMA FollowKeeps ==
  ASSUME AudienceSound, NEW v \in Everyone, NEW a \in Everyone, Follow(v, a)
  PROVE  AudienceSound'
<1>0. /\ turns' \in 0..MaxTurns /\ following' = following \cup {<<v, a>>}
      /\ entitled' = entitled \cup
           {v} \X {i \in DOMAIN journal : Author(i) = a /\ journal[i].visibility = "private"}
      /\ UNCHANGED <<journal, avoided, fetching, sent>>
  BY AudienceAssumption DEF Follow, AudienceSound, AudienceTypeOK
<1>1. \A i \in DOMAIN journal : i \in 1..MaxEntries
  BY EntryFacts
<1>2. AudienceTypeOK'
  BY <1>0, <1>1 DEF AudienceSound, AudienceTypeOK
<1>3. (\A u \in Opened : fetching[u].viewer = u)'
  BY <1>0 DEF AudienceSound, Opened
<1>4. sent' \subseteq entitled'
  BY <1>0 DEF AudienceSound
<1> QED BY <1>0, <1>2, <1>3, <1>4, JournalStays

LEMMA QuietStepKeeps ==
  ASSUME AudienceSound, UNCHANGED <<journal, sent, entitled>>, following' \subseteq following,
         avoided' \subseteq Readers \X Everyone, turns' \in 0..MaxTurns,
         fetching' \in [Readers -> FilterContext \cup {Shut}],
         (\A v \in Opened : fetching[v].viewer = v)'
  PROVE  AudienceSound'
<1>1. AudienceTypeOK'
  BY DEF AudienceSound, AudienceTypeOK
<1>2. sent' \subseteq entitled'
  BY DEF AudienceSound
<1> QED BY <1>1, <1>2, JournalStays

LEMMA UnfollowKeeps ==
  ASSUME AudienceSound, NEW v \in Everyone, NEW a \in Everyone, Unfollow(v, a)
  PROVE  AudienceSound'
<1>1. turns' \in 0..MaxTurns
  BY AudienceAssumption DEF Unfollow, AudienceSound, AudienceTypeOK
<1>2. (\A u \in Opened : fetching[u].viewer = u)'
  BY DEF Unfollow, AudienceSound, Opened
<1> QED BY <1>1, <1>2, QuietStepKeeps DEF Unfollow, AudienceSound, AudienceTypeOK

LEMMA AvoidKeeps ==
  ASSUME AudienceSound, NEW v \in Readers, NEW a \in Everyone, Avoid(v, a)
  PROVE  AudienceSound'
<1>1. turns' \in 0..MaxTurns
  BY AudienceAssumption DEF Avoid, AudienceSound, AudienceTypeOK
<1>2. (\A u \in Opened : fetching[u].viewer = u)'
  BY DEF Avoid, AudienceSound, Opened
<1> QED BY <1>1, <1>2, QuietStepKeeps DEF Avoid, AudienceSound, AudienceTypeOK

LEMMA ContextFacts ==
  ASSUME NEW v \in Readers
  PROVE  Context(v) \in FilterContext /\ Context(v).viewer = v
BY DEF Context, FilterContext

LEMMA OpenTimelineKeeps ==
  ASSUME AudienceSound, NEW v \in Readers, OpenTimeline(v)
  PROVE  AudienceSound'
<1>0. /\ UNCHANGED <<journal, following, avoided, sent, entitled, turns>>
      /\ fetching \in [Readers -> FilterContext \cup {Shut}]
  BY DEF OpenTimeline, AudienceSound, AudienceTypeOK
<1>1. PICK context \in FilterContext : context.viewer = v /\ fetching' = [fetching EXCEPT ![v] = context]
  BY ContextFacts DEF OpenTimeline
<1>2. fetching'[v] = context /\ \A u \in Readers \ {v} : fetching'[u] = fetching[u]
  BY <1>0, <1>1
<1>3. fetching' \in [Readers -> FilterContext \cup {Shut}]
  BY <1>0, <1>1
<1>4. (\A u \in Opened : fetching[u].viewer = u)'
  BY <1>1, <1>2 DEF AudienceSound, Opened
<1> QED BY <1>0, <1>3, <1>4, QuietStepKeeps DEF AudienceSound, AudienceTypeOK

LEMMA ServeTimelineKeeps ==
  ASSUME AudienceSound, NEW v \in Readers, ServeTimeline(v)
  PROVE  AudienceSound'
<1>0. /\ UNCHANGED <<journal, following, avoided, sent, entitled, turns>>
      /\ fetching \in [Readers -> FilterContext \cup {Shut}]
      /\ fetching' = [fetching EXCEPT ![v] = Shut]
  BY DEF ServeTimeline, AudienceSound, AudienceTypeOK
<1>1. fetching'[v] = Shut /\ \A u \in Readers \ {v} : fetching'[u] = fetching[u]
  BY <1>0
<1>2. fetching' \in [Readers -> FilterContext \cup {Shut}]
  BY <1>0
<1>3. (\A u \in Opened : fetching[u].viewer = u)'
  BY <1>1 DEF AudienceSound, Opened
<1> QED BY <1>0, <1>2, <1>3, QuietStepKeeps DEF AudienceSound, AudienceTypeOK

LEMMA AudienceStep == AudienceSound /\ [AudienceNext]_audienceVars => AudienceSound'
<1> SUFFICES ASSUME AudienceSound, [AudienceNext]_audienceVars PROVE AudienceSound'
  OBVIOUS
<1>1. CASE UNCHANGED audienceVars
  <2>1. UNCHANGED <<journal, following, avoided, fetching, sent, entitled, turns>>
    BY <1>1 DEF audienceVars
  <2>2. (\A v \in Opened : fetching[v].viewer = v)'
    BY <2>1 DEF AudienceSound, Opened
  <2> QED BY <2>1, <2>2, QuietStepKeeps DEF AudienceSound, AudienceTypeOK
<1>2. ASSUME NEW visibility \in Visibility, NEW mentions \in {{}} \cup {{v} : v \in Readers}
      PROVE  mentions \in SUBSET Residents
  BY AudienceAssumption
<1>3. CASE AudienceNext
  BY <1>2, <1>3, CreateStatusKeeps, IngestNoteKeeps, EditStatusKeeps, BoostKeeps, BoostFromAfarKeeps, FollowKeeps,
     UnfollowKeeps, AvoidKeeps, OpenTimelineKeeps, ServeTimelineKeeps DEF AudienceNext
<1> QED BY <1>1, <1>3

LEMMA AudienceHolds == AudienceSpec => []AudienceSound
BY AudienceBegins, AudienceStep, PTL DEF AudienceSpec

-----------------------------------------------------------------------------
(* What a timeline shows, whatever relations it read                       *)

LEMMA TimelineTextsAreVisible ==
  ASSUME NEW context, NEW i \in TimelineTexts(context)
  PROVE  i \in DOMAIN journal \cup Boosted(DOMAIN journal) /\ journal[i].boostOf = NoBoost /\ IsVisibleIn(context, i)
BY DEF TimelineTexts, Texts, MatchesHome, MatchesPublic, Keep, Nested, Boosted

LEMMA TimelineTextsAvoidNobody ==
  ASSUME NEW context, NEW i \in TimelineTexts(context)
  PROVE  Author(i) \notin context.avoided
BY DEF TimelineTexts, Texts, Keep, Nested, Boosted, Author

(* For any accounts, posts and follows: a text reaches only whom its       *)
(* author addressed, by whatever boost, page, edit or delivery, and no     *)
(* timeline shows an author that its reader avoided when it opened.        *)
THEOREM PagesFit == AudienceSpec => []PagesFitTheirReaders
<1>1. AudienceSound => PagesFitTheirReaders
  <2> SUFFICES ASSUME AudienceSound PROVE TextsReachTheirAudience /\ AvoidedAuthorsStayHidden
    BY DEF PagesFitTheirReaders
  <2>1. \A i \in DOMAIN journal : Addressed(i) /\ Carried(i)
    BY DEF AudienceSound
  <2>2. Boosted(DOMAIN journal) \subseteq DOMAIN journal
    BY <2>1 DEF Boosted, Carried
  <2>3. ASSUME NEW v \in Residents \cup {Nobody}, NEW i \in ShownTo(v)
        PROVE  i \in EntitledTo(v)
    <3>1. /\ i \in DOMAIN journal /\ journal[i].boostOf = NoBoost
          /\ IsVisible(journal[i], v, ViewerRelation(v, Author(i))) /\ ViewerRelation(v, Author(i)) \in BOOLEAN
      BY DEF ShownTo, Texts, VisibleTo, ViewerRelation
    <3>2. PICK follows \in BOOLEAN : follows = ViewerRelation(v, Author(i))
      BY <3>1
    <3>3. follows => <<v, Author(i)>> \in following
      BY <3>2 DEF ViewerRelation
    <3> QED BY <3>1, <3>2, <3>3, VisibleMeansEntitled DEF EntitledTo, Everyone
  <2>4. ASSUME NEW v \in Residents \cup {Nobody}, NEW i \in NoticePage(v)
        PROVE  i \in EntitledTo(v)
    <3>1. journal[i].boostOf = NoBoost /\ i \in Notices(v) \cup Boosted(Notices(v))
      BY DEF NoticePage, Texts
    <3>2. CASE i \in Notices(v)
      BY <2>1, <3>1, <3>2 DEF Notices, Addressed, EntitledTo
    <3>3. CASE i \in Boosted(Notices(v))
      <4>1. PICK j \in Notices(v) : i = journal[j].boostOf /\ i # NoBoost
        BY <3>3 DEF Boosted
      <4>2. j \in DOMAIN journal /\ Carried(j) /\ Author(j) \in Everyone
        BY <2>1, <4>1, EntryFacts DEF Notices
      <4>3. i \in DOMAIN journal /\ Author(j) = v
        BY <4>1, <4>2 DEF Carried, Notices
      <4>4. v \in Residents
        BY <4>2, <4>3, AudienceAssumption DEF Everyone
      <4> QED BY <3>1, <4>1, <4>2, <4>3, <4>4 DEF Carried, EntitledTo
    <3> QED BY <3>1, <3>2, <3>3
  <2>5. ASSUME NEW i \in TimelineTexts(Context(Nobody))
        PROVE  i \in EntitledTo(Nobody)
    <3>1. PICK context : context = Context(Nobody)
      OBVIOUS
    <3>2. i \in DOMAIN journal /\ journal[i].boostOf = NoBoost /\ IsVisibleIn(context, i)
      BY <2>2, <3>1, TimelineTextsAreVisible
    <3>3. context.viewer = Nobody
      BY <3>1 DEF Context
    <3>4. IsVisible(journal[i], Nobody, FALSE)
      BY <3>2, <3>3 DEF IsVisibleIn, IsVisible
    <3> QED BY <3>2, <3>4, VisibleMeansEntitled DEF EntitledTo
  <2>6. ASSUME NEW v \in Opened, NEW i \in TimelineTexts(fetching[v])
        PROVE  i \in EntitledTo(v) \/ LeftMeanwhile(v, Author(i))
    <3>1. v \in Readers /\ v \in Everyone /\ fetching[v].viewer = v
      BY AudienceAssumption DEF Opened, AudienceSound, Everyone
    <3>2. PICK context : context = fetching[v]
      OBVIOUS
    <3>3. i \in DOMAIN journal /\ journal[i].boostOf = NoBoost /\ IsVisibleIn(context, i)
      BY <2>2, <3>2, TimelineTextsAreVisible
    <3>4. PICK follows \in BOOLEAN : follows <=> Author(i) \in context.following
      OBVIOUS
    <3>5. IsVisible(journal[i], v, follows)
      BY <3>1, <3>2, <3>3, <3>4 DEF IsVisibleIn
    <3>6. CASE follows => <<v, Author(i)>> \in following
      BY <3>1, <3>3, <3>5, <3>6, VisibleMeansEntitled DEF EntitledTo
    <3>7. CASE follows /\ <<v, Author(i)>> \notin following
      BY <3>2, <3>4, <3>7 DEF LeftMeanwhile
    <3> QED BY <3>6, <3>7
  <2>7. TextsReachTheirAudience
    BY <2>3, <2>4, <2>5, <2>6 DEF TextsReachTheirAudience, AudienceSound
  <2>8. AvoidedAuthorsStayHidden
    BY TimelineTextsAvoidNobody DEF AvoidedAuthorsStayHidden
  <2> QED BY <2>7, <2>8
<1> QED BY <1>1, AudienceHolds, PTL
=============================================================================
