---------------------------- MODULE HashtagIndex ----------------------------
(***************************************************************************)
(* The hashtag index of search: search_hashtags first runs                 *)
(* catch_up_from_watermark, which walks the statuses newer than the        *)
(* watermark in batches, copies their tags into search_tags and            *)
(* search_status_tags and moves the watermark on, then matches the index.  *)
(* Searches run concurrently with each other, with create_status (one      *)
(* transaction for a post and its tags), with the ingestion of remote notes*)
(* (one statement after the other) and with deletions.                     *)
(*                                                                         *)
(* A pair (created_at, id) is abstracted to its place in their order, a    *)
(* key.  Local keys follow the clock; a remote note brings its own date.   *)
(***************************************************************************)
EXTENDS Naturals, FiniteSets

CONSTANTS
  Posts,
  Local,      \* posts of this server's accounts
  Tags,
  TagsOf,     \* TagsOf[p]: the hashtags in p's content
  Searches,   \* concurrent hashtag searches
  BatchSize,  \* CATCH_UP_BATCH_SIZE
  MaxKey      \* bound: keys are 1..MaxKey

ASSUME HashtagAssumption ==
  /\ IsFiniteSet(Posts)
  /\ Local \subseteq Posts
  /\ TagsOf \in [Posts -> SUBSET Tags]
  /\ BatchSize \in Nat \ {0}
  /\ MaxKey \in Nat

VARIABLES
  post,       \* post[p]: how far its creation got
  key,        \* key[p]: place of <<created_at, id>>, 0 before it is minted
  tags,       \* tags[p]: its rows in status_tags
  index,      \* search_status_tags: pairs <<tag, post>>
  count,      \* count[t]: search_tags.statuses_count
  watermark,  \* search_index_watermark, 0 for none
  step,       \* step[s]: where search s is
  upto,       \* upto[s]: the scan's cursor, or the end of its batch
  batch,      \* batch[s]: fetched posts whose tags are not read yet
  todo,       \* todo[s]: pairs of the current post to be upserted
  full,       \* full[s]: the batch had BatchSize posts
  before,     \* history: pairs stored when s began, of posts still there
  late        \* history: posts tagged after a scan had passed their key

postVars == <<post, key, tags>>
scanVars == <<step, upto, batch, todo, full, before>>
vars == <<postVars, index, count, watermark, scanVars, late>>

Pairs == Tags \X Posts

(* Every variable has its type.                                            *)
TypeOK ==
  /\ post \in [Posts -> {"new", "minted", "ingesting", "stored", "gone"}]
  /\ key \in [Posts -> 0..MaxKey]
  /\ tags \in [Posts -> SUBSET Tags]
  /\ index \subseteq Pairs
  /\ count \in [Tags -> 0..Cardinality(Posts)]
  /\ watermark \in 0..MaxKey
  /\ step \in [Searches -> {"idle", "fetch", "derive", "match"}]
  /\ upto \in [Searches -> 0..MaxKey]
  /\ batch \in [Searches -> SUBSET Posts]
  /\ todo \in [Searches -> SUBSET Pairs]
  /\ full \in [Searches -> BOOLEAN]
  /\ before \in [Searches -> SUBSET Pairs]
  /\ late \subseteq Posts

-----------------------------------------------------------------------------
Stored(p) == post[p] \in {"ingesting", "stored"}

(* The rows of statuses joined with status_tags.                           *)
Tagged == {a \in Pairs : Stored(a[2]) /\ a[1] \in tags[a[2]]}

(* A scan, or the watermark one left, is past p and will not read its tags.*)
Passed(p) ==
  \/ key[p] <= watermark
  \/ \E s \in Searches : key[p] <= upto[s] /\ p \notin batch[s]

NoteIfPassed(p) == late' = IF Passed(p) THEN late \cup {p} ELSE late

-----------------------------------------------------------------------------
(* Posts                                                                   *)

Unused(k) == \A p \in Posts : key[p] # k

(* create_status fixes the id and created_at before it writes anything.    *)
Mint(p) ==
  /\ p \in Local /\ post[p] = "new"
  /\ \E k \in 1..MaxKey :
       /\ Unused(k)
       /\ \A q \in Local : key[q] < k
       /\ key' = [key EXCEPT ![p] = k]
  /\ post' = [post EXCEPT ![p] = "minted"]
  /\ UNCHANGED <<tags, index, count, watermark, scanVars, late>>

(* Its transaction commits the post with its tags.                         *)
CreateLocal(p) ==
  /\ post[p] = "minted"
  /\ post' = [post EXCEPT ![p] = "stored"]
  /\ tags' = [tags EXCEPT ![p] = TagsOf[p]]
  /\ NoteIfPassed(p)
  /\ UNCHANGED <<key, index, count, watermark, scanVars>>

(* ingest_note_object inserts the post, dated as its published property    *)
(* says, then its tags one by one.                                         *)
IngestRemote(p) ==
  /\ p \notin Local /\ post[p] = "new"
  /\ \E k \in 1..MaxKey : Unused(k) /\ key' = [key EXCEPT ![p] = k]
  /\ post' = [post EXCEPT ![p] = "ingesting"]
  /\ UNCHANGED <<tags, index, count, watermark, scanVars, late>>

AttachTag(p, t) ==
  /\ post[p] = "ingesting"
  /\ t \in TagsOf[p] \ tags[p]
  /\ tags' = [tags EXCEPT ![p] = @ \cup {t}]
  /\ post' = [post EXCEPT ![p] = IF tags'[p] = TagsOf[p] THEN "stored" ELSE @]
  /\ NoteIfPassed(p)
  /\ UNCHANGED <<key, index, count, watermark, scanVars>>

(* The request fails: a local post is rolled back, a remote one stays with *)
(* the tags it has, since a redelivery finds the row and adds nothing.     *)
CreationFails(p) ==
  /\ \/ post[p] = "minted" /\ post' = [post EXCEPT ![p] = "gone"]
     \/ post[p] = "ingesting" /\ post' = [post EXCEPT ![p] = "stored"]
  /\ UNCHANGED <<key, tags, index, count, watermark, scanVars, late>>

(* delete_status: status_tags rows go with the post, the index keeps its,  *)
(* and what is gone no longer matters to the histories.                    *)
Delete(p) ==
  /\ Stored(p)
  /\ post' = [post EXCEPT ![p] = "gone"]
  /\ tags' = [tags EXCEPT ![p] = {}]
  /\ before' = [s \in Searches |-> {a \in before[s] : a[2] # p}]
  /\ late' = late \ {p}
  /\ UNCHANGED <<key, index, count, watermark, step, upto, batch, todo, full>>

-----------------------------------------------------------------------------
(* search_hashtags                                                         *)

(* load_watermark                                                          *)
Begin(s) ==
  /\ step[s] = "idle"
  /\ step' = [step EXCEPT ![s] = "fetch"]
  /\ upto' = [upto EXCEPT ![s] = watermark]
  /\ before' = [before EXCEPT ![s] = Tagged]
  /\ UNCHANGED <<postVars, index, count, watermark, batch, todo, full, late>>

Newer(s) == {p \in Posts : Stored(p) /\ key[p] > upto[s]}

(* The next batch: the BatchSize oldest posts newer than the cursor.       *)
Oldest(b, posts) ==
  /\ b \subseteq posts
  /\ Cardinality(b) <= BatchSize
  /\ b = posts \/ Cardinality(b) = BatchSize
  /\ \A p \in b, q \in posts \ b : key[p] < key[q]

(* The scan goes on behind the cursor, or the index is matched now.        *)
Continue(s, more) ==
  /\ step' = [step EXCEPT ![s] = IF more THEN "fetch" ELSE "match"]
  /\ upto' = [upto EXCEPT ![s] = IF more THEN @ ELSE 0]
  /\ full' = [full EXCEPT ![s] = FALSE]

(* fetch_statuses_since; without a newer post the scan is over.            *)
Fetch(s) ==
  /\ step[s] = "fetch"
  /\ \/ Newer(s) = {} /\ Continue(s, FALSE) /\ UNCHANGED batch
     \/ \E b \in SUBSET Newer(s), last \in Newer(s) :
          /\ Oldest(b, Newer(s))
          /\ last \in b /\ \A p \in b : key[p] <= key[last]
          /\ upto' = [upto EXCEPT ![s] = key[last]]
          /\ batch' = [batch EXCEPT ![s] = b]
          /\ full' = [full EXCEPT ![s] = Cardinality(b) = BatchSize]
          /\ step' = [step EXCEPT ![s] = "derive"]
  /\ UNCHANGED <<postVars, index, count, watermark, todo, before, late>>

(* tags_for_status of the batch's next post.                               *)
ReadTags(s) ==
  /\ step[s] = "derive" /\ todo[s] = {}
  /\ \E p \in batch[s] :
       /\ \A q \in batch[s] : key[p] <= key[q]
       /\ batch' = [batch EXCEPT ![s] = @ \ {p}]
       /\ todo' = [todo EXCEPT ![s] = tags[p] \X {p}]
  /\ UNCHANGED <<postVars, index, count, watermark, step, upto, full, before, late>>

Indexed(a) == index' = index \cup {a}

UpsertCountingAlways(s) ==
  /\ step[s] = "derive"
  /\ \E a \in todo[s] :
       /\ Indexed(a)
       /\ count' = [count EXCEPT ![a[1]] = @ + 1]
       /\ todo' = [todo EXCEPT ![s] = @ \ {a}]
  /\ UNCHANGED <<postVars, watermark, step, upto, batch, full, before, late>>

UpsertCountingOnce(s) ==
  /\ step[s] = "derive"
  /\ \E a \in todo[s] :
       /\ Indexed(a)
       /\ count' = [count EXCEPT ![a[1]] = IF @ = 0 THEN 1 ELSE @]
       /\ todo' = [todo EXCEPT ![s] = @ \ {a}]
  /\ UNCHANGED <<postVars, watermark, step, upto, batch, full, before, late>>

(* upsert_tag_usage: one transaction; only a new association counts.       *)
Upsert(s) ==
  /\ step[s] = "derive"
  /\ \E a \in todo[s] :
       /\ Indexed(a)
       /\ count' = [count EXCEPT ![a[1]] = IF a \in index THEN @ ELSE @ + 1]
       /\ todo' = [todo EXCEPT ![s] = @ \ {a}]
  /\ UNCHANGED <<postVars, watermark, step, upto, batch, full, before, late>>

Derived(s) == step[s] = "derive" /\ todo[s] = {} /\ batch[s] = {}

SaveNewest(s) ==
  /\ Derived(s)
  /\ \E p \in Posts :
       /\ \A q \in Posts : Stored(q) => key[q] <= key[p]
       /\ watermark' = IF Stored(p) THEN key[p] ELSE upto[s]
  /\ Continue(s, full[s])
  /\ UNCHANGED <<postVars, index, count, batch, todo, before, late>>

SaveAndStop(s) ==
  /\ Derived(s)
  /\ watermark' = upto[s]
  /\ Continue(s, FALSE)
  /\ UNCHANGED <<postVars, index, count, batch, todo, before, late>>

(* save_watermark: the last writer wins, also when it moves the watermark  *)
(* back.  Only a full batch is followed by another one.                    *)
Save(s) ==
  /\ Derived(s)
  /\ watermark' = upto[s]
  /\ Continue(s, full[s])
  /\ UNCHANGED <<postVars, index, count, batch, todo, before, late>>

(* match_hashtags answers the search; or a statement fails and ends it.    *)
End(s) ==
  /\ step[s] # "idle"
  /\ step' = [step EXCEPT ![s] = "idle"]
  /\ upto' = [upto EXCEPT ![s] = 0]
  /\ batch' = [batch EXCEPT ![s] = {}]
  /\ todo' = [todo EXCEPT ![s] = {}]
  /\ full' = [full EXCEPT ![s] = FALSE]
  /\ before' = [before EXCEPT ![s] = {}]
  /\ UNCHANGED <<postVars, index, count, watermark, late>>

-----------------------------------------------------------------------------
Init ==
  /\ post = [p \in Posts |-> "new"]
  /\ key = [p \in Posts |-> 0]
  /\ tags = [p \in Posts |-> {}]
  /\ index = {}
  /\ count = [t \in Tags |-> 0]
  /\ watermark = 0
  /\ step = [s \in Searches |-> "idle"]
  /\ upto = [s \in Searches |-> 0]
  /\ batch = [s \in Searches |-> {}]
  /\ todo = [s \in Searches |-> {}]
  /\ full = [s \in Searches |-> FALSE]
  /\ before = [s \in Searches |-> {}]
  /\ late = {}

Posting(p) ==
  \/ Mint(p) \/ CreateLocal(p) \/ IngestRemote(p)
  \/ \E t \in Tags : AttachTag(p, t)
  \/ CreationFails(p) \/ Delete(p)

Searching(s) == Begin(s) \/ Fetch(s) \/ ReadTags(s) \/ Upsert(s) \/ Save(s) \/ End(s)

Next ==
  \/ \E p \in Posts : Posting(p)
  \/ \E s \in Searches : Searching(s)

Spec == Init /\ [][Next]_vars

-----------------------------------------------------------------------------
(* statuses_count is the number of associations of its tag, however often  *)
(* concurrent, failed and repeated scans derive the same posts.            *)
CountsMatch ==
  \A t \in Tags : count[t] = Cardinality({p \in Posts : <<t, p>> \in index})

(* The watermark stands for finished work: below it every tag of a stored  *)
(* post is indexed, although failed scans stop anywhere and concurrent     *)
(* ones save it in any order, unless the post was tagged behind a scan.    *)
NothingSkipped ==
  \A a \in Tagged : key[a[2]] <= watermark => a \in index \/ a[2] \in late

(* search_hashtags matches an index that holds every tag stored before the *)
(* search began and still there, over all its batches and whatever other   *)
(* searches do to the watermark, unless its post was tagged behind a scan. *)
SearchSeesEarlierPosts ==
  \A s \in Searches :
    step[s] = "match" => \A a \in before[s] : a \in index \/ a[2] \in late

(* design.md:371: the catch-up scan runs at the head of every search, which*)
(* therefore always matches against the tags as they are just before it.   *)
SearchIsUpToDate ==
  \A s \in Searches : step[s] = "match" => before[s] \subseteq index
=============================================================================
