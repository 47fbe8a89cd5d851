------------------------- MODULE HashtagIndexProofs -------------------------
(***************************************************************************)
(* Theorems about HashtagIndex for every finite set of posts, every set of *)
(* tags, searches and keys and every batch size.                           *)
(***************************************************************************)
EXTENDS HashtagIndex, FiniteSetTheorems, TLAPS

-----------------------------------------------------------------------------
(* The inductive invariant                                                 *)

(* A minted post has a key, and a post has tags only while it is stored.   *)
PostsInOrder ==
  \A p \in Posts :
    /\ post[p] \in {"minted", "ingesting", "stored"} => key[p] > 0
    /\ ~Stored(p) => tags[p] = {}

(* Only a scan under way has a cursor, a batch or pairs to upsert.         *)
Resting ==
  \A s \in Searches :
    /\ step[s] \in {"idle", "match"} => upto[s] = 0
    /\ step[s] # "derive" => batch[s] = {} /\ todo[s] = {}
    /\ step[s] = "idle" => before[s] = {}

(* Search s will still upsert pair a.                                      *)
AtWork(s, a) == a[2] \in batch[s] \/ a \in todo[s]

(* Up to the cursor, or the end of its batch, a scan has indexed or is     *)
(* about to index every tag that was not attached behind it.               *)
ScanIsComplete ==
  \A s \in Searches : \A a \in Tagged :
    key[a[2]] <= upto[s] => a \in index \/ a[2] \in late \/ AtWork(s, a)

(* A later batch of s will contain post p.                                 *)
Ahead(s, p) ==
  /\ key[p] > upto[s]
  /\ step[s] = "fetch" \/ (step[s] = "derive" /\ full[s])

(* A pair that was stored when s began is indexed or will be by s itself.  *)
ScanWillReach ==
  \A s \in Searches : \A a \in before[s] :
    a \in index \/ a[2] \in late \/ AtWork(s, a) \/ Ahead(s, a[2])

(* A pair leaves status_tags only with its post.                           *)
BeforeStays == \A s \in Searches : before[s] \subseteq Tagged

Users(t) == {p \in Posts : <<t, p>> \in index}

IInv ==
  /\ TypeOK /\ CountsMatch
  /\ PostsInOrder /\ Resting
  /\ ScanIsComplete /\ ScanWillReach /\ BeforeStays
  /\ NothingSkipped

-----------------------------------------------------------------------------
(* Lemmas                                                                  *)

(* Counting the posts of a tag is counting part of a finite set.           *)
LEMMA UsersFinite ==
  \A t \in Tags :
    /\ IsFiniteSet(Users(t))
    /\ Cardinality(Users(t)) \in 0..Cardinality(Posts)
<1> TAKE t \in Tags
<1>1. Users(t) \subseteq Posts /\ IsFiniteSet(Posts)
  BY HashtagAssumption DEF Users
<1>2. IsFiniteSet(Users(t)) /\ Cardinality(Users(t)) <= Cardinality(Posts)
  BY <1>1, FS_Subset
<1>3. Cardinality(Users(t)) \in Nat /\ Cardinality(Posts) \in Nat
  BY <1>1, <1>2, FS_CardinalityType
<1> QED
  BY <1>2, <1>3

LEMMA InitEstablishes == Init => IInv
<1> SUFFICES ASSUME Init PROVE IInv
  OBVIOUS
<1>1. Cardinality(Posts) \in Nat
  BY HashtagAssumption, FS_CardinalityType
<1>2. TypeOK
  BY <1>1, HashtagAssumption DEF Init, TypeOK
<1>3. Tagged = {}
  BY DEF Init, Tagged, Stored, Pairs
<1>4. CountsMatch
  <2> SUFFICES ASSUME NEW t \in Tags PROVE count[t] = Cardinality({p \in Posts : <<t, p>> \in index})
    BY DEF CountsMatch
  <2>1. {p \in Posts : <<t, p>> \in index} = {} /\ count[t] = 0
    BY DEF Init
  <2> QED
    BY <2>1, FS_EmptySet
<1>5. PostsInOrder /\ Resting
  BY DEF Init, PostsInOrder, Resting, Stored
<1>6. ScanIsComplete /\ ScanWillReach /\ BeforeStays /\ NothingSkipped
  BY <1>3 DEF Init, ScanIsComplete, ScanWillReach, BeforeStays, NothingSkipped
<1> QED
  BY <1>2, <1>4, <1>5, <1>6 DEF IInv

(* Steps that leave the index and its counters alone.                      *)
LEMMA CountsKept ==
  ASSUME CountsMatch, UNCHANGED <<index, count>>
  PROVE  CountsMatch'
  BY DEF CountsMatch

(* Steps of a post leave the searches alone.                               *)
LEMMA RestingKept == ASSUME Resting, UNCHANGED scanVars PROVE Resting'
  BY DEF Resting, scanVars

(* upsert_tag_usage keeps the counters exact.                              *)
LEMMA UpsertCounts ==
  ASSUME TypeOK, CountsMatch, NEW s \in Searches, Upsert(s)
  PROVE  CountsMatch' /\ count' \in [Tags -> 0..Cardinality(Posts)]
<1>1. PICK a \in todo[s] :
        /\ index' = index \cup {a}
        /\ count' = [count EXCEPT ![a[1]] = IF a \in index THEN @ ELSE @ + 1]
  BY DEF Upsert, Indexed
<1>2. a \in Pairs /\ a = <<a[1], a[2]>> /\ a[1] \in Tags /\ a[2] \in Posts
  BY DEF TypeOK, Pairs
<1>3. \A t \in Tags : count'[t] = Cardinality(Users(t)')
  <2> TAKE t \in Tags
  <2>1. count[t] = Cardinality(Users(t)) /\ IsFiniteSet(Users(t))
    BY UsersFinite DEF CountsMatch, Users
  <2>2. CASE a \in index \/ t # a[1]
    <3>1. Users(t)' = Users(t)
      BY <1>1, <1>2, <2>2 DEF Users
    <3>2. count'[t] = count[t]
      BY <1>1, <1>2, <2>2 DEF TypeOK
    <3> QED
      BY <2>1, <3>1, <3>2
  <2>3. CASE a \notin index /\ t = a[1]
    <3>1. Users(t)' = Users(t) \cup {a[2]} /\ a[2] \notin Users(t)
      BY <1>1, <1>2, <2>3 DEF Users
    <3>2. Cardinality(Users(t)') = Cardinality(Users(t)) + 1
      BY <2>1, <3>1, FS_AddElement
    <3>3. count'[t] = count[t] + 1
      BY <1>1, <1>2, <2>3 DEF TypeOK
    <3> QED
      BY <2>1, <3>2, <3>3
  <2> QED
    BY <2>2, <2>3
<1>4. index' \subseteq Pairs
  BY <1>1, <1>2 DEF TypeOK
<1>5. \A t \in Tags : Cardinality(Users(t)') \in 0..Cardinality(Posts)
  <2> TAKE t \in Tags
  <2>1. Users(t)' \subseteq Posts /\ IsFiniteSet(Posts)
    BY HashtagAssumption DEF Users
  <2>2. IsFiniteSet(Users(t)') /\ Cardinality(Users(t)') <= Cardinality(Posts)
    BY <2>1, FS_Subset
  <2>3. Cardinality(Users(t)') \in Nat /\ Cardinality(Posts) \in Nat
    BY <2>1, <2>2, FS_CardinalityType
  <2> QED
    BY <2>2, <2>3
<1>6. DOMAIN count' = Tags /\ count' = [t \in Tags |-> count'[t]]
  BY <1>1 DEF TypeOK
<1>7. CountsMatch'
  BY <1>3 DEF CountsMatch, Users
<1> QED
  BY <1>3, <1>5, <1>6, <1>7

-----------------------------------------------------------------------------
(* The steps of a post                                                     *)

LEMMA TaggedPosts ==
  ASSUME TypeOK, NEW a \in Tagged
  PROVE  /\ a \in Pairs /\ a = <<a[1], a[2]>> /\ a[1] \in Tags /\ a[2] \in Posts
         /\ Stored(a[2]) /\ a[1] \in tags[a[2]]
         /\ key[a[2]] \in 0..MaxKey
  BY DEF Tagged, Pairs, TypeOK

(* Steps under which the set of tagged posts and their keys stay the same. *)
LEMMA TaggedKept ==
  ASSUME IInv, Tagged' = Tagged, \A a \in Tagged : key'[a[2]] = key[a[2]],
         UNCHANGED <<index, watermark, scanVars, late>>
  PROVE  ScanIsComplete' /\ ScanWillReach' /\ BeforeStays' /\ NothingSkipped'
<1>1. ScanIsComplete' /\ NothingSkipped'
  BY DEF IInv, ScanIsComplete, NothingSkipped, AtWork, scanVars
<1>2. ScanWillReach'
  BY DEF IInv, ScanWillReach, BeforeStays, AtWork, Ahead, scanVars
<1>3. BeforeStays'
  BY DEF IInv, BeforeStays, scanVars
<1> QED
  BY <1>1, <1>2, <1>3

LEMMA MintKeeps == ASSUME IInv, NEW p \in Posts, Mint(p) PROVE IInv'
<1>1. PICK k \in 1..MaxKey : key' = [key EXCEPT ![p] = k]
  BY DEF Mint
<1>2. TypeOK'
  BY <1>1, HashtagAssumption DEF Mint, IInv, TypeOK, scanVars
<1>3. ~Stored(p) /\ ~Stored(p)' /\ tags[p] = {}
  BY <1>1, <1>2 DEF Mint, IInv, PostsInOrder, Stored, TypeOK
<1>4. \A q \in Posts : Stored(q)' <=> Stored(q)
  BY <1>3 DEF Mint, Stored, IInv, TypeOK
<1>5. Tagged' = Tagged
  BY <1>4 DEF Tagged, Mint, Pairs
<1>6. PostsInOrder'
  BY <1>1, <1>3, <1>4 DEF IInv, PostsInOrder, Mint, TypeOK
<1>7. \A a \in Tagged : key'[a[2]] = key[a[2]]
  BY <1>1, <1>3, TaggedPosts DEF IInv, TypeOK
<1> QED
  BY <1>2, <1>5, <1>6, <1>7, TaggedKept, CountsKept, RestingKept DEF Mint, IInv

(* Tags come to a stored post: whoever is past the post notes it as late.  *)
LEMMA TaggingKeeps ==
  ASSUME IInv, NEW p \in Posts, NEW new \in SUBSET Tags,
         Stored(p)' /\ key[p] > 0,
         \A q \in Posts \ {p} : post'[q] = post[q],
         tags' = [tags EXCEPT ![p] = tags[p] \cup new],
         ~Stored(p) => tags[p] = {},
         NoteIfPassed(p), TypeOK',
         UNCHANGED <<key, index, count, watermark, scanVars>>
  PROVE  IInv'
<1>1. \A a \in Tagged' : a \in Tagged \/ (a[2] = p /\ a[1] \in new)
  BY DEF Tagged, Stored, Pairs, IInv, TypeOK, PostsInOrder
<1>2. Tagged \subseteq Tagged'
  BY DEF Tagged, Stored, Pairs, IInv, TypeOK
<1>3. late \subseteq late' /\ (Passed(p) => p \in late')
  BY DEF NoteIfPassed
<1>4. PostsInOrder'
  BY DEF IInv, PostsInOrder, TypeOK, Stored
<1>5. ScanIsComplete'
  <2> SUFFICES ASSUME NEW s \in Searches, NEW a \in Tagged', key[a[2]] <= upto[s]
               PROVE  a \in index \/ a[2] \in late' \/ AtWork(s, a)
    BY DEF ScanIsComplete, AtWork, scanVars
  <2>1. CASE a \in Tagged
    BY <2>1, <1>3 DEF IInv, ScanIsComplete
  <2>2. CASE a[2] = p
    BY <2>2, <1>3 DEF Passed, AtWork
  <2> QED
    BY <2>1, <2>2, <1>1
<1>6. ScanWillReach'
  <2> SUFFICES ASSUME NEW s \in Searches, NEW a \in before[s]
               PROVE  a \in index \/ a[2] \in late' \/ AtWork(s, a) \/ Ahead(s, a[2])
    BY DEF ScanWillReach, AtWork, Ahead, scanVars
  <2> QED
    BY <1>3 DEF IInv, ScanWillReach
<1>7. BeforeStays'
  BY <1>2 DEF IInv, BeforeStays, scanVars
<1>8. NothingSkipped'
  <2> SUFFICES ASSUME NEW a \in Tagged', key[a[2]] <= watermark
               PROVE  a \in index \/ a[2] \in late'
    BY DEF NothingSkipped
  <2>1. CASE a \in Tagged
    BY <2>1, <1>3 DEF IInv, NothingSkipped
  <2>2. CASE a[2] = p
    BY <2>2, <1>3 DEF Passed
  <2> QED
    BY <2>1, <2>2, <1>1
<1> QED
  BY <1>4, <1>5, <1>6, <1>7, <1>8, CountsKept, RestingKept DEF IInv

LEMMA CreateLocalKeeps == ASSUME IInv, NEW p \in Posts, CreateLocal(p) PROVE IInv'
<1>1. TagsOf[p] \in SUBSET Tags
  BY HashtagAssumption
<1>2. ~Stored(p) /\ tags[p] = {}
  BY DEF CreateLocal, Stored, IInv, PostsInOrder
<1>3. TypeOK'
  BY <1>1 DEF CreateLocal, IInv, TypeOK, NoteIfPassed, scanVars
<1>4. key[p] > 0
  BY DEF CreateLocal, IInv, PostsInOrder
<1>5. /\ Stored(p)'
      /\ \A q \in Posts \ {p} : post'[q] = post[q]
      /\ tags' = [tags EXCEPT ![p] = tags[p] \cup TagsOf[p]]
  BY <1>2 DEF CreateLocal, Stored, IInv, TypeOK
<1>6. NoteIfPassed(p) /\ UNCHANGED <<key, index, count, watermark, scanVars>>
  BY DEF CreateLocal
<1> QED
  BY <1>1, <1>2, <1>3, <1>4, <1>5, <1>6, TaggingKeeps

LEMMA IngestRemoteKeeps == ASSUME IInv, NEW p \in Posts, IngestRemote(p) PROVE IInv'
<1>1. PICK k \in 1..MaxKey : key' = [key EXCEPT ![p] = k]
  BY DEF IngestRemote
<1>2. TypeOK'
  BY <1>1, HashtagAssumption DEF IngestRemote, IInv, TypeOK, scanVars
<1>3. ~Stored(p) /\ tags[p] = {}
  BY DEF IngestRemote, IInv, PostsInOrder, Stored
<1>4. \A q \in Posts \ {p} : Stored(q)' <=> Stored(q)
  BY DEF IngestRemote, Stored, IInv, TypeOK
<1>5. Tagged' = Tagged
  BY <1>3, <1>4 DEF Tagged, IngestRemote, Pairs
<1>6. PostsInOrder'
  BY <1>1, <1>3, <1>4 DEF IInv, PostsInOrder, IngestRemote, TypeOK
<1>7. \A a \in Tagged : key'[a[2]] = key[a[2]]
  BY <1>1, <1>3, TaggedPosts DEF IInv, TypeOK
<1> QED
  BY <1>2, <1>5, <1>6, <1>7, TaggedKept, CountsKept, RestingKept
  DEF IngestRemote, IInv

LEMMA AttachTagKeeps ==
  ASSUME IInv, NEW p \in Posts, NEW t \in Tags, AttachTag(p, t)
  PROVE  IInv'
<1>1. TypeOK'
  BY DEF AttachTag, IInv, TypeOK, NoteIfPassed, scanVars
<1>2. Stored(p) /\ key[p] > 0
  BY DEF AttachTag, Stored, IInv, PostsInOrder
<1>3. /\ Stored(p)'
      /\ \A q \in Posts \ {p} : post'[q] = post[q]
      /\ tags' = [tags EXCEPT ![p] = tags[p] \cup {t}]
  BY DEF AttachTag, Stored, IInv, TypeOK
<1>4. NoteIfPassed(p) /\ UNCHANGED <<key, index, count, watermark, scanVars>>
  BY DEF AttachTag
<1> QED
  BY <1>1, <1>2, <1>3, <1>4, {t} \in SUBSET Tags, TaggingKeeps

LEMMA CreationFailsKeeps == ASSUME IInv, NEW p \in Posts, CreationFails(p) PROVE IInv'
<1>1. TypeOK'
  BY DEF CreationFails, IInv, TypeOK, scanVars
<1>2. \A q \in Posts : Stored(q)' <=> Stored(q)
  BY DEF CreationFails, Stored, IInv, TypeOK
<1>3. Tagged' = Tagged
  BY <1>2 DEF Tagged, CreationFails, Pairs
<1>4. PostsInOrder'
  BY <1>2 DEF IInv, PostsInOrder, CreationFails, TypeOK
<1> QED
  BY <1>1, <1>3, <1>4, TaggedKept, CountsKept, RestingKept DEF CreationFails, IInv

LEMMA DeleteKeeps == ASSUME IInv, NEW p \in Posts, Delete(p) PROVE IInv'
<1>1. TypeOK'
  BY DEF Delete, IInv, TypeOK, scanVars
<1>2. \A q \in Posts :
        /\ q # p => post'[q] = post[q] /\ tags'[q] = tags[q]
        /\ q = p => post'[q] = "gone" /\ tags'[q] = {}
  BY DEF Delete, IInv, TypeOK
<1>3. Tagged' = {a \in Tagged : a[2] # p}
  BY <1>2 DEF Tagged, Stored, Pairs
<1>4. PostsInOrder'
  <2> SUFFICES ASSUME NEW q \in Posts
               PROVE  /\ post'[q] \in {"minted", "ingesting", "stored"} => key'[q] > 0
                      /\ ~Stored(q)' => tags'[q] = {}
    BY DEF PostsInOrder
  <2>1. key'[q] = key[q]
    BY DEF Delete
  <2>2. CASE q = p
    BY <2>2, <1>2
  <2>3. CASE q # p
    <3>1. post'[q] = post[q] /\ tags'[q] = tags[q]
      BY <2>3, <1>2
    <3> QED
      BY <3>1, <2>1 DEF IInv, PostsInOrder, Stored
  <2> QED
    BY <2>2, <2>3
<1>5. /\ \A s \in Searches : before'[s] = {a \in before[s] : a[2] # p}
      /\ late' = late \ {p}
      /\ UNCHANGED <<key, index, watermark, step, upto, batch, todo, full>>
  BY DEF Delete
<1>6. ScanIsComplete' /\ NothingSkipped'
  BY <1>3, <1>5 DEF IInv, ScanIsComplete, NothingSkipped, AtWork
<1>7. ScanWillReach' /\ BeforeStays'
  BY <1>3, <1>5 DEF IInv, ScanWillReach, BeforeStays, AtWork, Ahead
<1>8. Resting'
  BY <1>5 DEF IInv, Resting
<1> QED
  BY <1>1, <1>4, <1>6, <1>7, <1>8, CountsKept DEF Delete, IInv

-----------------------------------------------------------------------------
(* The steps of a search                                                   *)

LEMMA BeginKeeps == ASSUME IInv, NEW s \in Searches, Begin(s) PROVE IInv'
<1>1. Tagged \subseteq Pairs /\ Tagged' = Tagged
  BY DEF Begin, postVars, Tagged, Stored
<1>2. TypeOK'
  BY <1>1 DEF Begin, IInv, TypeOK, postVars
<1>3. PostsInOrder'
  BY DEF Begin, IInv, PostsInOrder, Stored, postVars
<1>4. /\ step'[s] = "fetch" /\ upto'[s] = watermark /\ before'[s] = Tagged
      /\ batch'[s] = {} /\ todo'[s] = {}
      /\ UNCHANGED <<key, index, watermark, late, post, batch, todo, full>>
      /\ \A q \in Searches \ {s} :
           step'[q] = step[q] /\ upto'[q] = upto[q] /\ before'[q] = before[q]
  BY DEF Begin, IInv, TypeOK, Resting, postVars
<1>5. Resting'
  BY <1>4 DEF IInv, Resting
<1>6. ScanIsComplete'
  <2> SUFFICES ASSUME NEW q \in Searches, NEW a \in Tagged, key[a[2]] <= upto'[q]
               PROVE  a \in index \/ a[2] \in late \/ AtWork(q, a)'
    BY <1>1, <1>4 DEF ScanIsComplete
  <2> QED
    BY <1>4 DEF IInv, ScanIsComplete, NothingSkipped, AtWork
<1>7. ScanWillReach'
  <2> SUFFICES ASSUME NEW q \in Searches, NEW a \in before'[q]
               PROVE  a \in index \/ a[2] \in late \/ AtWork(q, a)' \/ Ahead(q, a[2])'
    BY <1>1, <1>4 DEF ScanWillReach
  <2>1. CASE q = s
    <3>1. a \in Tagged /\ key[a[2]] \in 0..MaxKey /\ watermark \in 0..MaxKey
      BY <2>1, <1>4, TaggedPosts DEF IInv, TypeOK
    <3>2. CASE key[a[2]] <= watermark
      BY <3>1, <3>2 DEF IInv, NothingSkipped
    <3>3. CASE key[a[2]] > watermark
      BY <3>3, <2>1, <1>4 DEF Ahead
    <3> QED
      BY <3>1, <3>2, <3>3
  <2>2. CASE q # s
    BY <2>2, <1>4 DEF IInv, ScanWillReach, AtWork, Ahead
  <2> QED
    BY <2>1, <2>2
<1>8. BeforeStays' /\ NothingSkipped'
  BY <1>1, <1>4 DEF IInv, BeforeStays, NothingSkipped
<1> QED
  BY <1>2, <1>3, <1>5, <1>6, <1>7, <1>8, CountsKept DEF Begin, IInv

(* A scan that goes on keeps its cursor; one that is over has none.        *)
LEMMA ContinueShape ==
  ASSUME IInv, NEW s \in Searches, NEW more \in BOOLEAN, Continue(s, more)
  PROVE  /\ step' \in [Searches -> {"idle", "fetch", "derive", "match"}]
         /\ upto' \in [Searches -> 0..MaxKey]
         /\ full' \in [Searches -> BOOLEAN]
         /\ more => step'[s] = "fetch" /\ upto'[s] = upto[s]
         /\ ~more => step'[s] = "match" /\ upto'[s] = 0
         /\ \A q \in Searches \ {s} :
              step'[q] = step[q] /\ upto'[q] = upto[q] /\ full'[q] = full[q]
  BY HashtagAssumption DEF Continue, IInv, TypeOK

(* When a scan with nothing at work goes on or is over, what it has still  *)
(* to reach is ahead of it, or nothing.                                    *)
LEMMA ContinueKeeps ==
  ASSUME IInv, NEW s \in Searches, NEW more \in BOOLEAN, Continue(s, more),
         batch[s] = {}, todo[s] = {}, step[s] # "idle",
         more \/ \A a \in before[s] : ~Ahead(s, a[2]),
         UNCHANGED <<postVars, index, batch, todo, before, late>>
  PROVE  Resting' /\ ScanIsComplete' /\ ScanWillReach'
<1>1. Tagged' = Tagged /\ UNCHANGED <<post, key>>
  BY DEF postVars, Tagged, Stored
<1>2. Resting'
  BY ContinueShape DEF IInv, Resting
<1>3. ScanIsComplete'
  <2> SUFFICES ASSUME NEW q \in Searches, NEW a \in Tagged, key[a[2]] <= upto'[q]
               PROVE  a \in index \/ a[2] \in late \/ AtWork(q, a)
    BY <1>1 DEF ScanIsComplete, AtWork
  <2>1. key[a[2]] > 0 /\ key[a[2]] \in 0..MaxKey
    BY TaggedPosts DEF IInv, PostsInOrder, Stored
  <2>2. key[a[2]] <= upto[q]
    BY <2>1, ContinueShape
  <2> QED
    BY <2>2 DEF IInv, ScanIsComplete
<1>4. ScanWillReach'
  <2> SUFFICES ASSUME NEW q \in Searches, NEW a \in before[q]
               PROVE  a \in index \/ a[2] \in late \/ AtWork(q, a) \/ Ahead(q, a[2])'
    BY <1>1 DEF ScanWillReach, AtWork
  <2>1. a \in index \/ a[2] \in late \/ AtWork(q, a) \/ Ahead(q, a[2])
    BY DEF IInv, ScanWillReach
  <2>2. CASE q # s
    BY <2>1, <2>2, <1>1, ContinueShape DEF Ahead
  <2>3. CASE q = s /\ more
    BY <2>1, <2>3, <1>1, ContinueShape DEF Ahead
  <2>4. CASE q = s /\ ~more
    BY <2>1, <2>4
  <2> QED
    BY <2>2, <2>3, <2>4
<1> QED
  BY <1>2, <1>3, <1>4

(* The batch holds every newer post up to its end, and all newer posts     *)
(* unless it is full.                                                      *)
LEMMA FetchKeeps == ASSUME IInv, NEW s \in Searches, Fetch(s) PROVE IInv'
<1>1. /\ step[s] = "fetch" /\ batch[s] = {} /\ todo[s] = {}
      /\ UNCHANGED <<postVars, index, count, watermark, todo, before, late>>
  BY DEF Fetch, IInv, Resting
<1>2. Tagged' = Tagged /\ UNCHANGED <<post, key, tags>>
  BY <1>1 DEF postVars, Tagged, Stored
<1>3. PostsInOrder' /\ BeforeStays' /\ NothingSkipped'
  BY <1>1, <1>2 DEF IInv, PostsInOrder, BeforeStays, NothingSkipped, Stored
<1>4. \A a \in Tagged : a[2] \in Posts /\ Stored(a[2]) /\ key[a[2]] \in 0..MaxKey
                       /\ (key[a[2]] > upto[s] => a[2] \in Newer(s))
  BY TaggedPosts DEF IInv, Newer
<1>5. CASE Newer(s) = {} /\ Continue(s, FALSE) /\ UNCHANGED batch
  <2>1. \A a \in before[s] : ~Ahead(s, a[2])
    BY <1>4, <1>5 DEF IInv, BeforeStays, Ahead
  <2>2. Resting' /\ ScanIsComplete' /\ ScanWillReach'
    BY <1>1, <1>5, <2>1, ContinueKeeps
  <2>3. TypeOK'
    BY <1>1, <1>5, ContinueShape DEF IInv, TypeOK, postVars
  <2> QED
    BY <1>1, <1>3, <2>2, <2>3, CountsKept DEF IInv
<1>6. CASE ~(Newer(s) = {} /\ Continue(s, FALSE) /\ UNCHANGED batch)
  <2>1. PICK b \in SUBSET Newer(s), last \in Newer(s) :
          /\ Oldest(b, Newer(s))
          /\ last \in b /\ \A p \in b : key[p] <= key[last]
          /\ upto' = [upto EXCEPT ![s] = key[last]]
          /\ batch' = [batch EXCEPT ![s] = b]
          /\ full' = [full EXCEPT ![s] = Cardinality(b) = BatchSize]
          /\ step' = [step EXCEPT ![s] = "derive"]
    BY <1>6 DEF Fetch
  <2>2. /\ b \subseteq Posts /\ last \in Posts /\ key[last] > upto[s]
        /\ key[last] \in 0..MaxKey /\ upto[s] \in 0..MaxKey
    BY DEF Newer, IInv, TypeOK
  <2>3. /\ step'[s] = "derive" /\ upto'[s] = key[last] /\ batch'[s] = b
        /\ full'[s] = (Cardinality(b) = BatchSize)
        /\ \A q \in Searches \ {s} :
             /\ step'[q] = step[q] /\ upto'[q] = upto[q]
             /\ batch'[q] = batch[q] /\ full'[q] = full[q]
    BY <2>1 DEF IInv, TypeOK
  <2>4. TypeOK'
    BY <1>1, <2>1, <2>2 DEF IInv, TypeOK, postVars
  <2>5. Resting'
    BY <1>1, <2>3 DEF IInv, Resting
  <2>6. \A p \in Newer(s) \ b : key[p] > key[last] /\ Cardinality(b) = BatchSize
    BY <2>1 DEF Oldest, Newer, IInv, TypeOK
  <2>7. ScanIsComplete'
    <3> SUFFICES ASSUME NEW q \in Searches, NEW a \in Tagged, key[a[2]] <= upto'[q]
                 PROVE  a \in index \/ a[2] \in late \/ AtWork(q, a)'
      BY <1>1, <1>2 DEF ScanIsComplete
    <3>1. CASE q # s
      BY <3>1, <1>1, <2>3 DEF IInv, ScanIsComplete, AtWork
    <3>2. CASE q = s /\ key[a[2]] <= upto[s]
      BY <3>2, <1>1 DEF IInv, ScanIsComplete, AtWork
    <3>3. CASE q = s /\ key[a[2]] > upto[s]
      <4>1. a[2] \in Newer(s) /\ ~(key[a[2]] > key[last])
        BY <3>3, <1>4, <2>2, <2>3
      <4> QED
        BY <4>1, <3>3, <2>3, <2>6 DEF AtWork
    <3> QED
      BY <3>1, <3>2, <3>3, <1>4, <2>2
  <2>8. ScanWillReach'
    <3> SUFFICES ASSUME NEW q \in Searches, NEW a \in before[q]
                 PROVE  a \in index \/ a[2] \in late \/ AtWork(q, a)' \/ Ahead(q, a[2])'
      BY <1>1, <1>2 DEF ScanWillReach
    <3>1. a \in index \/ a[2] \in late \/ AtWork(q, a) \/ Ahead(q, a[2])
      BY DEF IInv, ScanWillReach
    <3>2. CASE q # s
      BY <3>1, <3>2, <1>1, <1>2, <2>3 DEF AtWork, Ahead
    <3>3. CASE q = s /\ Ahead(s, a[2])
      <4>1. a[2] \in Newer(s)
        BY <3>3, <1>4 DEF IInv, BeforeStays, Ahead
      <4>2. CASE a[2] \in b
        BY <4>2, <3>3, <2>3 DEF AtWork
      <4>3. CASE a[2] \notin b
        BY <4>1, <4>3, <3>3, <1>2, <2>3, <2>6 DEF Ahead
      <4> QED
        BY <4>2, <4>3
    <3>4. CASE q = s /\ ~Ahead(s, a[2])
      BY <3>1, <3>4, <1>1 DEF AtWork
    <3> QED
      BY <3>2, <3>3, <3>4
  <2> QED
    BY <1>1, <1>3, <2>4, <2>5, <2>7, <2>8, CountsKept DEF IInv
<1> QED
  BY <1>5, <1>6

(* The post leaves the batch and all its pairs are to be upserted.         *)
LEMMA ReadTagsKeeps == ASSUME IInv, NEW s \in Searches, ReadTags(s) PROVE IInv'
<1>1. PICK p \in batch[s] :
        /\ batch' = [batch EXCEPT ![s] = batch[s] \ {p}]
        /\ todo' = [todo EXCEPT ![s] = tags[p] \X {p}]
  BY DEF ReadTags
<1>2. /\ step[s] = "derive" /\ todo[s] = {} /\ p \in Posts
      /\ UNCHANGED <<postVars, index, count, watermark, step, upto, full, before, late>>
  BY DEF ReadTags, IInv, TypeOK
<1>3. Tagged' = Tagged /\ UNCHANGED <<post, key, tags>>
  BY <1>2 DEF postVars, Tagged, Stored
<1>4. /\ batch'[s] = batch[s] \ {p} /\ todo'[s] = tags[p] \X {p}
      /\ \A q \in Searches \ {s} : batch'[q] = batch[q] /\ todo'[q] = todo[q]
  BY <1>1 DEF IInv, TypeOK
<1>5. tags[p] \X {p} \subseteq Pairs
  BY <1>2 DEF IInv, TypeOK, Pairs
<1>6. TypeOK'
  BY <1>1, <1>2, <1>5 DEF IInv, TypeOK, postVars
<1>7. PostsInOrder' /\ BeforeStays' /\ NothingSkipped'
  BY <1>2, <1>3 DEF IInv, PostsInOrder, BeforeStays, NothingSkipped, Stored
<1>8. Resting'
  BY <1>2, <1>4 DEF IInv, Resting
<1>9. \A q \in Searches : \A a \in Tagged : AtWork(q, a) => AtWork(q, a)'
  <2> SUFFICES ASSUME NEW q \in Searches, NEW a \in Tagged, AtWork(q, a)
               PROVE  AtWork(q, a)'
    OBVIOUS
  <2>1. a = <<a[1], a[2]>> /\ a[1] \in tags[a[2]]
    BY TaggedPosts DEF IInv
  <2>2. CASE q = s /\ a[2] = p
    BY <2>1, <2>2, <1>4 DEF AtWork
  <2>3. CASE q # s \/ a[2] # p
    BY <2>3, <1>2, <1>4 DEF AtWork
  <2> QED
    BY <2>2, <2>3
<1>10. ScanIsComplete'
  BY <1>2, <1>3, <1>9 DEF IInv, ScanIsComplete
<1>11. ScanWillReach'
  BY <1>2, <1>3, <1>9 DEF IInv, ScanWillReach, BeforeStays, Ahead
<1> QED
  BY <1>2, <1>6, <1>7, <1>8, <1>10, <1>11, CountsKept DEF IInv

(* What is upserted moves from the work to the index.                      *)
LEMMA UpsertKeeps == ASSUME IInv, NEW s \in Searches, Upsert(s) PROVE IInv'
<1>1. PICK b \in todo[s] :
        index' = index \cup {b} /\ todo' = [todo EXCEPT ![s] = todo[s] \ {b}]
  BY DEF Upsert, Indexed
<1>2. /\ step[s] = "derive" /\ b \in Pairs
      /\ UNCHANGED <<postVars, watermark, step, upto, batch, full, before, late>>
  BY DEF Upsert, IInv, TypeOK
<1>3. Tagged' = Tagged /\ UNCHANGED <<post, key, tags>>
  BY <1>2 DEF postVars, Tagged, Stored
<1>4. CountsMatch' /\ count' \in [Tags -> 0..Cardinality(Posts)]
  BY UpsertCounts DEF IInv
<1>5. TypeOK'
  BY <1>1, <1>2, <1>4 DEF IInv, TypeOK, postVars
<1>6. \A q \in Searches : \A a \in Tagged :
        a \in index \/ AtWork(q, a) => a \in index' \/ AtWork(q, a)'
  BY <1>1, <1>2 DEF AtWork, IInv, TypeOK
<1>7. PostsInOrder' /\ BeforeStays' /\ NothingSkipped'
  BY <1>1, <1>2, <1>3 DEF IInv, PostsInOrder, BeforeStays, NothingSkipped, Stored
<1>8. Resting'
  BY <1>1, <1>2 DEF IInv, TypeOK, Resting
<1>9. ScanIsComplete'
  BY <1>2, <1>3, <1>6 DEF IInv, ScanIsComplete
<1>10. ScanWillReach'
  BY <1>2, <1>3, <1>6 DEF IInv, ScanWillReach, BeforeStays, Ahead
<1> QED
  BY <1>4, <1>5, <1>7, <1>8, <1>9, <1>10 DEF IInv

(* The saved watermark is the end of a batch that is wholly derived.       *)
LEMMA SaveKeeps == ASSUME IInv, NEW s \in Searches, Save(s) PROVE IInv'
<1>1. /\ step[s] = "derive" /\ todo[s] = {} /\ batch[s] = {}
      /\ watermark' = upto[s] /\ Continue(s, full[s])
      /\ UNCHANGED <<postVars, index, count, batch, todo, before, late>>
  BY DEF Save, Derived
<1>2. full[s] \in BOOLEAN /\ upto[s] \in 0..MaxKey
  BY DEF IInv, TypeOK
<1>3. Tagged' = Tagged /\ UNCHANGED <<post, key, tags>>
  BY <1>1 DEF postVars, Tagged, Stored
<1>4. TypeOK'
  BY <1>1, <1>2, ContinueShape DEF IInv, TypeOK, postVars
<1>5. full[s] \/ \A a \in before[s] : ~Ahead(s, a[2])
  BY <1>1 DEF Ahead
<1>6. Resting' /\ ScanIsComplete' /\ ScanWillReach'
  BY <1>1, <1>2, <1>5, ContinueKeeps
<1>7. PostsInOrder' /\ BeforeStays'
  BY <1>1, <1>3 DEF IInv, PostsInOrder, BeforeStays, Stored
<1>8. NothingSkipped'
  BY <1>1, <1>3 DEF IInv, NothingSkipped, ScanIsComplete, AtWork
<1> QED
  BY <1>1, <1>4, <1>6, <1>7, <1>8, CountsKept DEF IInv

LEMMA EndKeeps == ASSUME IInv, NEW s \in Searches, End(s) PROVE IInv'
<1>1. /\ step'[s] = "idle" /\ upto'[s] = 0 /\ batch'[s] = {} /\ todo'[s] = {}
      /\ before'[s] = {}
      /\ \A q \in Searches \ {s} :
           /\ step'[q] = step[q] /\ upto'[q] = upto[q] /\ batch'[q] = batch[q]
           /\ todo'[q] = todo[q] /\ full'[q] = full[q] /\ before'[q] = before[q]
      /\ UNCHANGED <<postVars, index, count, watermark, late>>
  BY DEF End, IInv, TypeOK
<1>2. Tagged' = Tagged /\ UNCHANGED <<post, key, tags>>
  BY <1>1 DEF postVars, Tagged, Stored
<1>3. TypeOK'
  BY HashtagAssumption DEF End, IInv, TypeOK, postVars
<1>4. PostsInOrder' /\ NothingSkipped'
  BY <1>1, <1>2 DEF IInv, PostsInOrder, NothingSkipped, Stored
<1>5. Resting' /\ BeforeStays'
  BY <1>1, <1>2 DEF IInv, Resting, BeforeStays
<1>6. ScanIsComplete'
  <2> SUFFICES ASSUME NEW q \in Searches, NEW a \in Tagged, key[a[2]] <= upto'[q]
               PROVE  a \in index \/ a[2] \in late \/ AtWork(q, a)'
    BY <1>1, <1>2 DEF ScanIsComplete
  <2>1. key[a[2]] > 0 /\ key[a[2]] \in 0..MaxKey
    BY TaggedPosts DEF IInv, PostsInOrder, Stored
  <2>2. q # s
    BY <2>1, <1>1
  <2> QED
    BY <2>2, <1>1 DEF IInv, ScanIsComplete, AtWork
<1>7. ScanWillReach'
  BY <1>1, <1>2 DEF IInv, ScanWillReach, AtWork, Ahead
<1> QED
  BY <1>1, <1>3, <1>4, <1>5, <1>6, <1>7, CountsKept DEF IInv

-----------------------------------------------------------------------------
(* The theorems                                                            *)

LEMMA NextKeeps == IInv /\ [Next]_vars => IInv'
<1> SUFFICES ASSUME IInv, [Next]_vars PROVE IInv'
  OBVIOUS
<1>1. ASSUME NEW p \in Posts, Posting(p) PROVE IInv'
  BY <1>1, MintKeeps, CreateLocalKeeps, IngestRemoteKeeps, AttachTagKeeps,
     CreationFailsKeeps, DeleteKeeps DEF Posting
<1>2. ASSUME NEW s \in Searches, Searching(s) PROVE IInv'
  BY <1>2, BeginKeeps, FetchKeeps, ReadTagsKeeps, UpsertKeeps, SaveKeeps, EndKeeps
  DEF Searching
<1>3. ASSUME UNCHANGED vars PROVE IInv'
  <2>1. UNCHANGED <<post, key, tags, index, count, watermark, scanVars, late>>
    BY <1>3 DEF vars, postVars
  <2>2. Tagged' = Tagged
    BY <2>1 DEF Tagged, Stored
  <2>3. TypeOK' /\ PostsInOrder'
    BY <2>1 DEF IInv, TypeOK, PostsInOrder, Stored, scanVars
  <2> QED
    BY <2>1, <2>2, <2>3, TaggedKept, CountsKept, RestingKept DEF IInv
<1> QED
  BY <1>1, <1>2, <1>3 DEF Next

LEMMA InvariantHolds == Spec => []IInv
  BY InitEstablishes, NextKeeps, PTL DEF Spec

(* Every reachable state is well typed.                                    *)
THEOREM TypeCorrect == Spec => []TypeOK
<1>1. IInv => TypeOK
  BY DEF IInv
<1> QED
  BY <1>1, InvariantHolds, PTL

(* The counters of search_tags are exact for every number of concurrent,   *)
(* failing and repeated scans (upsert_tag_usage).                          *)
THEOREM CountsAreExact == Spec => []CountsMatch
<1>1. IInv => CountsMatch
  BY DEF IInv
<1> QED
  BY <1>1, InvariantHolds, PTL

(* The watermark never covers a tag that was stored before a scan passed   *)
(* its post and is not indexed (catch_up_from_watermark).                  *)
THEOREM WatermarkIsSound == Spec => []NothingSkipped
<1>1. IInv => NothingSkipped
  BY DEF IInv
<1> QED
  BY <1>1, InvariantHolds, PTL

(* A search matches an index with every tag that was stored before it      *)
(* began and not behind a scan (search_hashtags).                          *)
THEOREM SearchIsComplete == Spec => []SearchSeesEarlierPosts
<1>1. IInv => SearchSeesEarlierPosts
  <2> SUFFICES ASSUME IInv, NEW s \in Searches, step[s] = "match",
                      NEW a \in before[s]
               PROVE  a \in index \/ a[2] \in late
    BY DEF SearchSeesEarlierPosts
  <2>1. batch[s] = {} /\ todo[s] = {}
    BY DEF IInv, Resting
  <2> QED
    BY <2>1 DEF IInv, ScanWillReach, AtWork, Ahead
<1> QED
  BY <1>1, InvariantHolds, PTL
=============================================================================
