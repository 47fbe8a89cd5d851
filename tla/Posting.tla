------------------------------ MODULE Posting ------------------------------
(***************************************************************************)
(* The life of a member's post: creation under an Idempotency-Key, retries,*)
(* edits with their archive of earlier versions, and deletion.  The key is *)
(* looked up first and bound last; an edit archives and overwrites in one  *)
(* transaction and replaces the media in another.  A version number stands *)
(* for a text and its media.                                               *)
(***************************************************************************)
EXTENDS Integers, FiniteSets

CONSTANTS
  Clients,     \* requests running at once
  Keys,        \* <<actor, idempotency_key>> pairs
  NoKey,       \* a request without Idempotency-Key
  MaxRequests, \* bound: requests, and with it posts and versions
  MaxBreaks    \* bound: failed steps and dying processes

ASSUME PostingAssumption ==
  /\ NoKey \notin Keys
  /\ MaxRequests \in Nat /\ MaxBreaks \in Nat

VARIABLES
  posts,     \* ids of the statuses rows that exist
  text,      \* text[p]: version in the statuses row
  media,     \* media[p]: version in status_media
  archive,   \* archive[p]: versions in status_edits
  bound,     \* bound[key]: status_idempotency_keys row, or 0
  client,    \* client[c]: the request and its next step
  requests,
  breaks,
  made,      \* history: made[key], posts created under key
  wasLive,   \* history: wasLive[p], versions the row of p has held
  unsure,    \* history: keys of requests that overlapped or broke off unbound
  mixed      \* history: posts with overlapping or broken edits

tables == <<posts, text, media, archive, bound>>
postingHistory == <<made, wasLive, unsure, mixed>>
postingVars == <<tables, client, requests, breaks, postingHistory>>

Ids == 1..MaxRequests
NoPost == 0
Waiting == [step |-> "waiting"]
Request == [step : {"lookup", "create", "announce", "bind", "archive", "overwrite",
                    "replace", "refetch", "delete", "tell"},
            op : {"create", "edit", "delete"}, key : Keys \cup {NoKey},
            id : Ids, post : Ids \cup {NoPost}, saw : Ids \cup {NoPost}]

PostingTypeOK ==
  /\ posts \subseteq Ids
  /\ text \in [Ids -> Ids \cup {NoPost}] /\ media \in [Ids -> Ids \cup {NoPost}]
  /\ archive \in [Ids -> SUBSET Ids]
  /\ bound \in [Keys -> Ids \cup {NoPost}]
  /\ client \in [Clients -> Request \cup {Waiting}]
  /\ requests \in 0..MaxRequests /\ breaks \in 0..MaxBreaks
  /\ made \in [Keys -> SUBSET Ids]
  /\ wasLive \in [Ids -> SUBSET Ids]
  /\ unsure \subseteq Keys /\ mixed \subseteq Ids

Serving(c)  == client[c].step # "waiting"
On(c, step) == client[c].step = step
Proceed(c, step) == client' = [client EXCEPT ![c].step = step]
Respond(c)  == client' = [client EXCEPT ![c] = Waiting]

-----------------------------------------------------------------------------
(* A request arrives.  Two with the same key, or two edits of the same     *)
(* post, that overlap are remembered.                                      *)
Arrive(c, op, key, p) ==
  /\ ~Serving(c)
  /\ requests < MaxRequests
  /\ requests' = requests + 1
  /\ client' = [client EXCEPT ![c] =
       [step |-> CASE op = "create" -> IF key = NoKey THEN "create" ELSE "lookup"
                   [] op = "edit" -> "archive" [] op = "delete" -> "delete",
        op |-> op, key |-> key, id |-> requests + 1, post |-> p, saw |-> NoPost]]
  /\ unsure' = unsure \cup {k \in Keys : k = key /\ \E d \in Clients : Serving(d) /\ client[d].key = key}
  /\ mixed' = mixed \cup {q \in Ids : /\ q = p /\ op = "edit"
                                      /\ \E d \in Clients : Serving(d) /\ client[d].post = p
                                                            /\ client[d].op = "edit"}
  /\ UNCHANGED <<tables, breaks, made, wasLive>>

RequestPost(c, key) == Arrive(c, "create", key, NoPost)

(* edit_status and delete_status find the post, whose owner calls them.    *)
RequestEdit(c, p)   == p \in posts /\ Arrive(c, "edit", NoKey, p)
RequestDelete(c, p) == p \in posts /\ Arrive(c, "delete", NoKey, p)

-----------------------------------------------------------------------------
(* create_status                                                           *)

ForgetLookup(c) ==
  /\ On(c, "lookup")
  /\ Proceed(c, "create")
  /\ UNCHANGED <<tables, requests, breaks, postingHistory>>

(* check_or_reserve; a hit is then read with find_by_id, and answered with *)
(* that post, or with an error when it has just gone.                      *)
CheckOrReserve(c) ==
  /\ On(c, "lookup")
  /\ IF bound[client[c].key] # NoPost THEN Respond(c) ELSE Proceed(c, "create")
  /\ UNCHANGED <<tables, requests, breaks, postingHistory>>

(* The transaction commits post, media, poll and tags together.            *)
Create(c) ==
  LET p == client[c].id IN
  /\ On(c, "create")
  /\ posts' = posts \cup {p}
  /\ text' = [text EXCEPT ![p] = p]
  /\ media' = [media EXCEPT ![p] = p]
  /\ wasLive' = [wasLive EXCEPT ![p] = {p}]
  /\ made' = [k \in Keys |-> IF k = client[c].key THEN made[k] \cup {p} ELSE made[k]]
  /\ Proceed(c, "announce")
  /\ UNCHANGED <<archive, bound, requests, breaks, unsure, mixed>>

(* build_addressing, deliver_create and the mention notifications.         *)
Announce(c) ==
  /\ On(c, "announce")
  /\ IF client[c].key = NoKey THEN Respond(c) ELSE Proceed(c, "bind")
  /\ UNCHANGED <<tables, requests, breaks, postingHistory>>

(* idempotency::bind: the first binding stays; the key's row references    *)
(* the post, so the insert fails if the post has gone.                     *)
Bind(c) ==
  LET p == client[c].id
      k == client[c].key IN
  /\ On(c, "bind")
  /\ bound' = [bound EXCEPT ![k] = IF @ = NoPost /\ p \in posts THEN p ELSE @]
  /\ Respond(c)
  /\ UNCHANGED <<posts, text, media, archive, requests, breaks, postingHistory>>

-----------------------------------------------------------------------------
(* edit_status                                                             *)

(* apply_edit reads the live version, without a lock ...                   *)
FetchRaw(c) ==
  /\ On(c, "archive")
  /\ IF client[c].post \in posts
       THEN client' = [client EXCEPT ![c].step = "overwrite", ![c].saw = text[client[c].post]]
       ELSE Respond(c)
  /\ UNCHANGED <<tables, requests, breaks, postingHistory>>

OverwriteOnly(c) ==
  LET p == client[c].post IN
  /\ On(c, "overwrite")
  /\ IF p \in posts
       THEN /\ text' = [text EXCEPT ![p] = client[c].id]
            /\ wasLive' = [wasLive EXCEPT ![p] = @ \cup {client[c].id}]
            /\ Proceed(c, "replace")
       ELSE Respond(c) /\ UNCHANGED <<text, wasLive>>
  /\ UNCHANGED <<posts, media, archive, bound, requests, breaks, made, unsure, mixed>>

(* ... and commits the archived version with the new one; the archive's    *)
(* foreign key fails the edit of a post that has gone.                     *)
ApplyEdit(c) ==
  LET p == client[c].post IN
  /\ On(c, "overwrite")
  /\ IF p \in posts
       THEN /\ archive' = [archive EXCEPT ![p] = @ \cup {client[c].saw}]
            /\ text' = [text EXCEPT ![p] = client[c].id]
            /\ wasLive' = [wasLive EXCEPT ![p] = @ \cup {client[c].id}]
            /\ Proceed(c, "replace")
       ELSE Respond(c) /\ UNCHANGED <<archive, text, wasLive>>
  /\ UNCHANGED <<posts, media, bound, requests, breaks, made, unsure, mixed>>

(* replace_media, a transaction of its own.                                *)
ReplaceMedia(c) ==
  LET p == client[c].post IN
  /\ On(c, "replace")
  /\ IF p \in posts
       THEN media' = [media EXCEPT ![p] = client[c].id] /\ Proceed(c, "refetch")
       ELSE Respond(c) /\ UNCHANGED media
  /\ UNCHANGED <<posts, text, archive, bound, requests, breaks, postingHistory>>

(* The updated post is read again and an Update is delivered.              *)
DeliverUpdate(c) ==
  /\ On(c, "refetch")
  /\ Respond(c)
  /\ UNCHANGED <<tables, requests, breaks, postingHistory>>

-----------------------------------------------------------------------------
(* delete_status: versions, media and the bound key cascade.               *)
Delete(c) ==
  LET p == client[c].post IN
  /\ On(c, "delete")
  /\ posts' = posts \ {p}
  /\ text' = [text EXCEPT ![p] = NoPost]
  /\ media' = [media EXCEPT ![p] = NoPost]
  /\ archive' = [archive EXCEPT ![p] = {}]
  /\ wasLive' = [wasLive EXCEPT ![p] = {}]
  /\ bound' = [k \in Keys |-> IF bound[k] = p THEN NoPost ELSE bound[k]]
  /\ Proceed(c, "tell")
  /\ UNCHANGED <<requests, breaks, made, unsure, mixed>>

DeliverDelete(c) ==
  /\ On(c, "tell")
  /\ Respond(c)
  /\ UNCHANGED <<tables, requests, breaks, postingHistory>>

(* A step fails or the process dies before it; what is committed stays.    *)
Break(c) ==
  LET r == client[c] IN
  /\ Serving(c)
  /\ breaks < MaxBreaks
  /\ breaks' = breaks + 1
  /\ Respond(c)
  /\ unsure' = IF r.step \in {"announce", "bind"} THEN unsure \cup ({r.key} \ {NoKey}) ELSE unsure
  /\ mixed' = IF r.step = "replace" THEN mixed \cup {r.post} ELSE mixed
  /\ UNCHANGED <<tables, requests, made, wasLive>>

PostingInit ==
  /\ posts = {}
  /\ text = [p \in Ids |-> NoPost] /\ media = [p \in Ids |-> NoPost]
  /\ archive = [p \in Ids |-> {}]
  /\ bound = [k \in Keys |-> NoPost]
  /\ client = [c \in Clients |-> Waiting]
  /\ requests = 0 /\ breaks = 0
  /\ made = [k \in Keys |-> {}]
  /\ wasLive = [p \in Ids |-> {}]
  /\ unsure = {} /\ mixed = {}

PostingNext ==
  \E c \in Clients :
    \/ \E k \in Keys \cup {NoKey} : RequestPost(c, k)
    \/ \E p \in posts : RequestEdit(c, p) \/ RequestDelete(c, p)
    \/ CheckOrReserve(c) \/ Create(c) \/ Announce(c) \/ Bind(c)
    \/ FetchRaw(c) \/ ApplyEdit(c) \/ ReplaceMedia(c) \/ DeliverUpdate(c)
    \/ Delete(c) \/ DeliverDelete(c)
    \/ Break(c)

PostingSpec == PostingInit /\ [][PostingNext]_postingVars

-----------------------------------------------------------------------------
(* idempotency.rs: however often a client repeats a request with one       *)
(* Idempotency-Key, at most one post made under the key exists, and once   *)
(* all requests are answered the key is bound to it.  Only a request that  *)
(* overlapped another with the key, or broke off between commit and bind,  *)
(* leaves that open.                                                       *)
OnePostPerKey ==
  \A k \in Keys \ unsure :
    /\ Cardinality(made[k] \cap posts) <= 1
    /\ (\A c \in Clients : Serving(c) => client[c].key # k) =>
         \A p \in made[k] \cap posts : bound[k] = p

(* apply_edit and replace_media: every version a post has shown is live or *)
(* in its history, the live one is not in it, and text and media are of    *)
(* the same edit once no edit is under way, unless two edits of the post   *)
(* overlapped or one broke off between its transactions.                   *)
EditsStayWhole ==
  \A p \in posts \ mixed :
    /\ wasLive[p] = archive[p] \cup {text[p]}
    /\ text[p] \notin archive[p]
    /\ (\A c \in Clients : Serving(c) => client[c].post # p) => media[p] = text[p]
=============================================================================
