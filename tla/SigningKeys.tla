---------------------------- MODULE SigningKeys ----------------------------
(***************************************************************************)
(* An actor's signing key: one active row in the database, which other     *)
(* servers fetch, and its private half in the process' cache, with which   *)
(* deliveries are signed.  Creation and rotation of keys change both, the  *)
(* row inside a transaction, the cache outside of it.                      *)
(***************************************************************************)
EXTENDS Integers, FiniteSets

CONSTANTS
  Principals,    \* actors, existing or to be created
  Operators,     \* creations and rotations running at once
  MaxKeys,       \* bound: key pairs generated
  MaxSlips       \* bound: failures and crashes

ASSUME SigningKeysAssumption == MaxKeys \in Nat /\ MaxSlips \in Nat

VARIABLES
  exists,     \* committed local_actors rows
  active,     \* active[a]: committed actor_signing_keys rows of a with status active
  cache,      \* cache[a]: KeyCache entry, or NoKeyPair
  up,         \* the process runs
  job,        \* job[o]: the creation or rotation and its next step
  generated,
  slips,
  stale       \* history: actors whose cache entry went wrong until a restart

signingVars == <<exists, active, cache, up, job, generated, slips, stale>>

KeyPairs  == 1..MaxKeys
NoKeyPair == 0
Vacant    == [step |-> "vacant"]

(* old: the row the transaction retires, or has yet to wait for.           *)
Job == [step : {"retire", "wait", "insert", "commit", "upsert"}, op : {"create", "rotate"},
        actor : Principals, new : KeyPairs, old : KeyPairs \cup {NoKeyPair}]

SigningKeysTypeOK ==
  /\ exists \subseteq Principals
  /\ active \in [Principals -> SUBSET KeyPairs]
  /\ cache \in [Principals -> KeyPairs \cup {NoKeyPair}]
  /\ up \in BOOLEAN
  /\ job \in [Operators -> Job \cup {Vacant}]
  /\ generated \in 0..MaxKeys /\ slips \in 0..MaxSlips
  /\ stale \subseteq Principals

Occupied(o)   == job[o].step # "vacant"
InStep(o, step) == job[o].step = step
OfActor(o)    == job[o].actor
Holds(o, row) == job[o].step \in {"insert", "commit"} /\ job[o].old = row /\ row # NoKeyPair

-----------------------------------------------------------------------------
(* build_new_active_key                                                    *)
Generate(o, op, step, a) ==
  /\ up
  /\ ~Occupied(o)
  /\ generated < MaxKeys
  /\ generated' = generated + 1
  /\ job' = [job EXCEPT ![o] = [step |-> step, op |-> op, actor |-> a, new |-> generated + 1,
                                old |-> NoKeyPair]]
  /\ UNCHANGED <<exists, active, cache, up, slips, stale>>

(* create_actor: the id is new, so nobody else creates or rotates it.      *)
CreateActor(o, a) ==
  /\ a \notin exists
  /\ \A p \in Operators : Occupied(p) => OfActor(p) # a
  /\ Generate(o, "create", "insert", a)

RotateKey(o, a) == a \in exists /\ Generate(o, "rotate", "retire", a)

(* retire_active_key: the UPDATE sees the row that is active now and waits *)
(* for a transaction that has retired it but not committed.                *)
RetireActiveKey(o) ==
  /\ InStep(o, "retire")
  /\ \E row \in active[OfActor(o)] :
       job' = [job EXCEPT ![o].old = row,
                          ![o].step = IF \E p \in Operators : Holds(p, row) THEN "wait" ELSE "insert"]
  /\ UNCHANGED <<exists, active, cache, up, generated, slips, stale>>

(* It is then looked at again; the key that replaced it is not.            *)
RetireAfterWait(o) ==
  LET row == job[o].old IN
  /\ InStep(o, "wait")
  /\ \A p \in Operators : ~Holds(p, row)
  /\ job' = [job EXCEPT ![o].step = "insert",
                        ![o].old = IF row \in active[OfActor(o)] THEN row ELSE NoKeyPair]
  /\ UNCHANGED <<exists, active, cache, up, generated, slips, stale>>

(* Another active row of the actor, committed and not retired here.        *)
Collides(o) == active[OfActor(o)] \ {job[o].old} # {}

InsertAndUpsert(o) ==
  /\ InStep(o, "insert")
  /\ ~Collides(o)
  /\ \A p \in Operators \ {o} : InStep(p, "commit") => OfActor(p) # OfActor(o)
  /\ job' = [job EXCEPT ![o].step = "commit"]
  /\ cache' = [cache EXCEPT ![OfActor(o)] = job[o].new]
  /\ UNCHANGED <<exists, active, up, generated, slips, stale>>

(* insert_active_key: the partial unique index waits for an uncommitted    *)
(* active row of the actor.  provision_key fills the cache right here,     *)
(* before its caller commits.                                              *)
InsertActiveKey(o) ==
  /\ InStep(o, "insert")
  /\ ~Collides(o)
  /\ \A p \in Operators \ {o} : InStep(p, "commit") => OfActor(p) # OfActor(o)
  /\ job' = [job EXCEPT ![o].step = "commit"]
  /\ cache' = IF job[o].op = "create" THEN [cache EXCEPT ![OfActor(o)] = job[o].new] ELSE cache
  /\ UNCHANGED <<exists, active, up, generated, slips, stale>>

(* The index refuses it: the transaction rolls back.                       *)
InsertRefused(o) ==
  /\ InStep(o, "insert")
  /\ Collides(o)
  /\ job' = [job EXCEPT ![o] = Vacant]
  /\ UNCHANGED <<exists, active, cache, up, generated, slips, stale>>

Committed(o) ==
  LET a == OfActor(o) IN
  /\ exists' = exists \cup {a}
  /\ active' = [active EXCEPT ![a] = (@ \ {job[o].old}) \cup {job[o].new}]

(* A rotation committed while another of the actor has yet to fill the     *)
(* cache may be overtaken by it.                                           *)
Commit(o) ==
  /\ InStep(o, "commit")
  /\ Committed(o)
  /\ job' = [job EXCEPT ![o] = IF job[o].op = "create" THEN Vacant ELSE [@ EXCEPT !.step = "upsert"]]
  /\ stale' = stale \cup {a \in {OfActor(o)} :
                            \E p \in Operators : InStep(p, "upsert") /\ OfActor(p) = a}
  /\ UNCHANGED <<cache, up, generated, slips>>

Upsert(o) ==
  /\ InStep(o, "upsert")
  /\ cache' = [cache EXCEPT ![OfActor(o)] = job[o].new]
  /\ job' = [job EXCEPT ![o] = Vacant]
  /\ UNCHANGED <<exists, active, up, generated, slips, stale>>

-----------------------------------------------------------------------------
Slip == slips < MaxSlips /\ slips' = slips + 1

(* A statement fails: the transaction rolls back.                          *)
RollBack(o) ==
  /\ job[o].step \in {"retire", "wait", "insert", "commit"}
  /\ Slip
  /\ job' = [job EXCEPT ![o] = Vacant]
  /\ UNCHANGED <<exists, active, cache, up, generated, stale>>

(* The commit succeeds and its answer is lost.                             *)
CommitUnanswered(o) ==
  /\ InStep(o, "commit")
  /\ Slip
  /\ Committed(o)
  /\ job' = [job EXCEPT ![o] = Vacant]
  /\ stale' = IF job[o].op = "rotate" THEN stale \cup {OfActor(o)} ELSE stale
  /\ UNCHANGED <<cache, up, generated>>

Crash ==
  /\ up
  /\ Slip
  /\ up' = FALSE
  /\ job' = [o \in Operators |-> Vacant]
  /\ cache' = [a \in Principals |-> NoKeyPair]
  /\ UNCHANGED <<exists, active, generated, stale>>

(* load_key_cache, before any request is accepted.                         *)
Restart ==
  /\ ~up
  /\ up' = TRUE
  /\ cache' = [a \in Principals |-> IF active[a] = {} THEN NoKeyPair
                                    ELSE CHOOSE k \in active[a] : TRUE]
  /\ stale' = {}
  /\ UNCHANGED <<exists, active, job, generated, slips>>

SigningKeysInit ==
  /\ exists = {}
  /\ active = [a \in Principals |-> {}]
  /\ cache = [a \in Principals |-> NoKeyPair]
  /\ up = TRUE
  /\ job = [o \in Operators |-> Vacant]
  /\ generated = 0 /\ slips = 0
  /\ stale = {}

SigningKeysNext ==
  \/ \E o \in Operators :
       \/ \E a \in Principals : CreateActor(o, a) \/ RotateKey(o, a)
       \/ RetireActiveKey(o) \/ RetireAfterWait(o)
       \/ InsertActiveKey(o) \/ InsertRefused(o) \/ Commit(o) \/ Upsert(o)
       \/ RollBack(o) \/ CommitUnanswered(o)
  \/ Crash \/ Restart

SigningKeysSpec == SigningKeysInit /\ [][SigningKeysNext]_signingVars

-----------------------------------------------------------------------------
(* rotate_key, provision_key, load_key_cache: an existing actor has exactly*)
(* one active key, and while no rotation of it is under way deliveries are *)
(* signed with that key, the one other servers fetch.  Only two rotations  *)
(* that crossed, or a commit whose answer was lost, part the two until the *)
(* next restart.                                                           *)
CacheServesActiveKey ==
  \A a \in exists :
    /\ Cardinality(active[a]) = 1
    /\ up /\ a \notin stale /\ (\A o \in Operators : Occupied(o) => OfActor(o) # a) =>
         active[a] = {cache[a]}
=============================================================================
