# Kawasemi: TLA+ models and proofs

Kawasemi is a small multi-actor ActivityPub server (Rust, axum, sqlx, PostgreSQL) with the Mastodon client API.
This directory holds TLA+ modules for its concurrent and distributed parts, TLC instances that model-check them, and TLAPS proofs about all of them.
Source paths below are relative to the repository's `src/` crate directory unless they begin with `.kiro/`.

## 1. Inventory

| Component | State it keeps | Operations | Talks to | What is hard |
|---|---|---|---|---|
| Outbound delivery (`federation/outbound`, `federation/signatures/negotiation.rs`) | `delivery_jobs`, `instance_signature_capabilities` | `deliver`, `enqueue`, `claim_due`, `run_once`, `negotiate_and_send`, `mark_done`, `mark_failed`, `reschedule` | every service that federates calls `deliver`; remote inboxes over HTTP; local recipients through the inbox in process | claims, lost replies, retries and backoff, crashes, double-knock |
| Inbox (`federation/inbound`, `federation/signatures/verifier.rs`, `key_resolver.rs`) | `received_activities`, `remote_public_keys` | `process_inbound`, `process_local`, `verify_request`, `record_if_new`, `dispatch`, `prune_expired` | remote senders; handlers of social graph, statuses and accounts; block policy | concurrent copies of one activity, key rotation against the cache, a failing handler, pruning |
| Social graph (`social_graph`) | `follows`, `follow_requests`, `blocks`, `mutes` | `follow`, `unfollow`, `authorize_request`, `reject_request`, `block`, `unblock`, `mute`; handlers of Follow, Accept, Reject, Block, Undo | delivery, inbox, notifications; the same tables of the other server | two servers with one relation between them, activities lost, overtaken or crossing, check-then-write |
| Media pipeline (`media`) | `media`, `media_processing_jobs`, files | `accept_upload`, `claim_due`, `attempt`, `complete`, `fail_or_retry`, `set_ready`, `set_failed`, shutdown | statuses attach media; a worker pool | leases that run out under a living worker, several writes per step, shutdown |
| Hashtag index (`search/hashtag_*.rs`) | `search_tags`, `search_status_tags`, `search_index_watermark` | `catch_up_from_watermark`, `upsert_tag_usage`, `save_watermark`, `match_hashtags` | reads `statuses` and `status_tags` while posts are written | a watermark over rows that become visible out of order, concurrent scans |
| Statuses (`statuses`) | `statuses`, `status_edits`, `favourites`, `bookmarks`, `pins`, `polls`, `poll_votes`, `status_idempotency_keys`, `tags` | `create_status`, `edit_status`, `delete_status`, `reblog`, `unreblog`, `favourite`, `vote`; handlers of Create, Announce, Like, Delete, Update, Undo | delivery, notifications, timelines | idempotency keys bound last, counters beside rows, votes |
| Actors and keys (`actor`) | `local_actors`, `actor_signing_keys`, in-memory `KeyCache` | `create_actor`, `provision_key`, `rotate_key`, `load_key_cache`, `deactivate_actor` | signing in delivery | cache updated outside the transaction, without a lock |
| OAuth (`oauth`) | `oauth_applications`, `oauth_authorization_codes`, `oauth_access_tokens` | register, `issue_authorization_code`, `exchange_token`, `revoke_token`, bearer middleware | every API endpoint | single use of a code, revocation racing use |
| Notifications (`notifications`) | `notifications` | generator, `insert_dedup`, list, dismiss, clear | called after commits of social graph and statuses | emitted outside the transaction that causes them |
| Timelines (`timelines`) | none; a client keeps cursors | `timeline`: candidates, filter, fill loop, links | statuses, social graph | pages filled by a bounded number of batches while posts and relations change |
| Accounts and instance (`accounts`) | `account_profiles`, `remote_accounts`, `custom_emojis`, `instance_settings` | update, fetch and cache remote accounts | inbox, search | stale copies of remote accounts |
| API foundation (`api`) | rate-limit windows in memory | pagination, parsing, rate limit | every endpoint | none shared beyond one mutex |
| Core runtime (`runtime`, `config`, `bootstrap`, `db`, `migrate`, `server`, `telemetry`) | configuration, pool | start, wiring, graceful shutdown | everything | shutdown of the background tasks |

What makes each correct:

- **Delivery**: one holder per claimed row, `done` only after a 2xx, an honest attempts count, a duplicate only after an unreported success, every job settled in the end unless a send that never returns holds it up, and the learned signature format one that works.
- **Inbox**: a handler runs at most once per activity; nothing recorded without being handled; a rejected request has no effect; a block is honoured; a genuine signature is not refused because the cached key is old.
- **Social graph**: both servers agree, one row per pair, a block removes and keeps out the follower, a withdrawn request ends.
- **Media**: one worker at a time, ready means a complete thumbnail, settled is final, every upload settles.
- **Hashtag index**: exact counters, a watermark that covers finished work only, a search that sees what existed before it.
- **Statuses**: one post per idempotency key, whole edits with a whole history, counters equal to rows, a copy of a remote post that ends as its author left it, one ballot per voter and a truthful answer about it.
- **Notifications**: whoever's post is boosted, favourited or mentions somebody, that actor is told once the request is over.
- **Keys**: the cache signs with the one active key once rotations have ended.
- **OAuth**: one token per code, what the owner approved, for the application it was approved for; no request served that arrives after an answered revocation.
- **Timelines**: a client that follows the links sees everything once.
- **Visibility**: a text reaches only readers its author addressed, by whatever way; a timeline hides the authors its reader avoids; every surface judges alike.

`PROJECT.json` lists the hazards one by one with their lines and the properties that would expose them.

## 2. Modules

| Module | Models | Extended or instantiated by |
|---|---|---|
| `DeliveryPromise` | abstract: what delivery owes for one job | `Delivery` (refinement) |
| `Delivery` | outbound delivery | `MCDelivery`, `DeliveryProofs` |
| `Inbox` | inbound pipeline | `MCInbox`, `InboxProofs` |
| `SocialGraph` | follows, requests and blocks on several servers, with the network between them | `MCSocialGraph`, `SocialGraphProofs` |
| `MediaPipeline` | uploads, jobs and the worker pool | `MCMediaPipeline`, `MediaPipelineProofs` |
| `HashtagIndex` | the index and its scans beside posting | `MCHashtagIndex`, `HashtagIndexProofs` |
| `Interactions` | boosts, favourites and replies, their counters and notifications | `Services` |
| `Posting` | creation under an idempotency key, edits, deletion | `Services`, `StatusesProofs` |
| `RemoteCopies` | copies of remote posts: Create, Update, Delete and searches | `Services`, `StatusesProofs` |
| `Polls` | votes in a local poll | `Services`, `StatusesProofs` |
| `OAuth` | codes, tokens, authenticated requests, revocation | `Services`, `AccessProofs` |
| `SigningKeys` | key rows and the key cache | `Services`, `AccessProofs` |
| `Timelines` | a client's walk over pages | `Services`, `StatusesProofs` |
| `Audience` | who gets to read a post: visibility, addressing, boosts, timelines, notifications | `Services`, `MCAudience`, `AccessProofs` |
| `Services` | the eight above, side by side | `MCServices`, `ServicesProofs` (with the proofs about `Interactions`) |

`SocialGraph` composes: it holds several copies of the service's tables and abstracts `Delivery` and `Inbox` to what those two modules establish.
An activity is delivered at most once to the handler (`HandledAtMostOnce`), in any order, or is given up or held back by a send that never returns (`SettlesUnlessHeld`), and is refused while the recipient blocks the sender (`BlockIsHonoured`).

### Delivery
`call`, `todo` are the running `deliver` calls; `status`, `attempts`, `wait` the columns of `delivery_jobs` (`wait` is `next_attempt_at` minus now); `known` the recorded formats; `pc`, `batch`, `cur`, `fmt`, `age` the local state of a worker's `run_once`.
`Claim` is `claim_due`'s single statement, `Begin` the part of `process_job` up to the first send, `SendAccepted`, `SendUnauthorized`, `SendRefused` and `SendReplyLost` the four outcomes of a send, `RecordFormat` the upsert after a success, `Settle` the `UPDATE` that ends a job.
`ClaimReplyLost`, `BeginFails`, `RecordFormatFails`, `SettleFails` and `Crash` are the error paths; `?` on a database error leaves `run_once`, so the rest of a batch is forgotten in memory but not in the table.
Target resolution is the constant `Recipients`; `Orphans` are the activities whose sender row may be missing when an attempt begins (each attempt looks for itself, so the model also allows a row that comes back), and `Limit[w]` is the batch size of worker `w`'s process.
A process has one delivery loop; two workers stand for two processes that overlap during a restart or run side by side.

### Inbox
`slot` holds the requests under way and their stage, `cached`/`cachedAge` the `remote_public_keys` row, `ledger` the age of the `received_activities` row, `blocking` the blocks.
Any error of the key resolver, a failed read of a cache that holds the right key included, becomes a refusal (`ResolveFails`).
The stages follow `process_inbound`: cached key, refetch and upsert (two steps, so that requests interleave between fetch and store), block judgment, `record_if_new`, one step per handler.
`process_local` enters at the block judgment.
A signature is the version of the key that made it.
Handlers are counted runs, and what they do is in the modules of their components.

### SocialGraph
`follows`, `pending`, `blocks` are one copy of the tables per server; a row is represented by its `activity_id`.
A task (`slot`) is an API call or a handler; reading, each statement and the delivery are separate steps.
`load_states` reads `follows` and then `follow_requests`, in two steps (`LookUp`, then `ReadFollow`, `HandleFollow` or `ReadUnfollow`), so that a row may move between the two tables in the meantime.
Transactions (`block_and_clear`) are one step, and pairs of statements without one (`promote_pending`) are two.
Between servers an activity travels through `net`; on one server the sending task goes on as its handler, as `LocalDeliverySink` does.
Block activity ids, notifications and mutes are left out.

### MediaPipeline
`upload` follows `accept_upload`; `media`, `job` are the two rows; `thumb` is the thumbnail file, partial while it is written in place; `worker` is the program counter with the attempts read at the claim.
Settling statements name the row id only, and so do the actions.
Instants are reduced to two flags that time sets, `due` and `stale`.

### HashtagIndex
`post`, `key`, `tags` are posts, their place in the order of `(created_at, id)` and their `status_tags` rows; `index`, `count`, `watermark` the index; `step`, `upto`, `batch`, `todo`, `full` the local state of a running `catch_up_from_watermark`.
A local post is minted first and committed later with its tags; a remote note is inserted and tagged statement by statement, dated by its own `published`.
Every statement of a scan is a step, and any of them may fail (`End`).

### Interactions
`living`, `rows`, `favs`, `count` and `notes` are the tables; `task` is a request and its next step.
API calls follow `interaction_service.rs`: find, one transaction of row and counter, delivery, notification.
Handlers follow `inbound_handlers.rs`, where row and counter are statements of their own.
When the target's author is local, the delivery runs the handler inside the call: the `Deliver` step turns the call into that handler, which finds the row and stops, and the notification follows (`after`).
A reblog has no unique index on (actor, `reblog_of_id`), so `FindToBoost` and `Reblog` are separate steps, as are `FindToUndo` and `DropBoost`.
`Notify` is `insert_dedup`; `DismissNote` and `ClearNotes` are the recipient's.
A favourite's unique index makes `Favourite` one step.
The reply of another server is `InsertCreated`; its removal lowers the counter.

### Posting
`posts`, `text`, `media`, `archive` and `bound` are the tables; a version number stands for a text together with its media.
`create_status` is `CheckOrReserve` (the lookup of the key), `Create` (the transaction), `Announce` (delivery and notifications) and `Bind`.
`edit_status` is `FetchRaw`, `ApplyEdit` (archive and overwrite in one transaction), `ReplaceMedia` (another one) and `DeliverUpdate`.
`Break` ends a request after any step, as `?` or a dying process does.

### RemoteCopies
`original` is the post at its author's server, `wire` the activities that server has sent and not yet had handled, `copy` this server's row with its details, `told` the notification of the mention.
`Receive` starts a handler; `Lose` is an activity given up by the sender.
Create and search share `ingest_note_object`: `CheckIngested`, `FindByUri`, `InsertCopy`, one `AddDetail` per detail, each its own statement; only the Create goes on to `NotifyMention`.
Update and Delete are a lookup and a write.
The author's server is external: it sends each activity once, `Inbox` hands it to the handlers at most once (`HandledAtMostOnce`), and a search receives the current version.

### Polls
`lock` is the row lock of `record_vote`'s `SELECT ... FOR UPDATE`; within it the check, the ballot and the tally are steps of one transaction, so that dropping the lock would show.
`late` is the clock read before the transaction.
After its commit an API vote is delivered to the author on the same server, one Create per option (`titles`), which runs the vote handler as an `echo`.
`answer` is what the caller was told.

### OAuth
`registered`, `codes`, `tokens` are the tables.
An exchange is `PresentCode`, `ConsumeCode` (the conditional `UPDATE`), `MatchGrant` (client, redirect URI, PKCE) and `IssueToken`, so that a code burns before a check refuses it, as in the code.
A request is `PresentToken` and `Authenticate`; a revocation `PresentForRevocation`, `RevokeToken`, `ReportRevoked`.
Hashing, comparison of secrets, sessions and CSRF are left out; PKCE is whether a verifier was presented, because the endpoint stores no challenge.

### SigningKeys
`active` are the committed rows, `cache` the process's `KeyCache`, `job` a creation or rotation.
The partial unique index on active keys is a guard of `InsertActiveKey`; a second rotation waits on the retired row (`wait`) and then sees the new one or none.
`Upsert` is the write of the cache, after the commit for a rotation, before it for a creation.
`Crash` empties the cache and ends all jobs; `Restart` loads it from the table.

### Timelines
`shelf` are the committed posts, `unborn` ids minted before their commit, `shunned` the authors the viewer does not see.
`OpenPage` reads the relations, `FillBatch` reads `BatchLimit` candidates beyond the cursor and filters them, and `MaxFill` batches end the page as it is.
`walk` is the client following `next` (`max_id`) or `prev` (`min_id`) links until a page offers none.

### Audience
`journal` is the `statuses` table in the order of ids, boosts included; `following` and `avoided` the relations; `fetching` the `FilterContext` of a timeline request between its reading of the relations and of the posts; `sent` the texts delivered to other servers.
Reads change nothing, so the surfaces are operators on the state (`ShownTo`, `TimelineTexts`, `NoticePage`), and the properties speak of what each would render in every state.
`ViewerRelation` and `Context` are the two ways the code asks whether the viewer follows the author: the first by kind and id, and always as a local account, the second by id alone.
`entitled` records the author's intention (`Meant`), apart from what the code derives from it.
A note of another server is addressed by the same convention and read back by `DeriveInboundVisibility`.

### Services
`part` chooses which of the eight a behaviour exercises; the rest keep their initial state.
They share no variable, so the product of their states would add nothing to their sum, and one instance covers all of them.
The two ways in which they do touch are inside the modules: `Interactions` and `RemoteCopies` hold the notifications their own requests emit, and `Timelines` holds the mints and commits of posts it reads.

## 3. Checked with TLC

| Run | Instance | Shows |
|---|---|---|
| `delivery` | `MCDelivery.cfg` | type and five safety invariants, implementation of `DeliveryPromise`; without a fault every job settles, unless a send that never returns holds it up |
| `delivery_recovery` | `MCDeliveryRecovery.cfg` | **violated**: a claimed job is never recovered after a fault, even if all sends return |
| `inbox` | `MCInbox.cfg` | type invariant and four safety invariants |
| `social` | `MCSocialGraph.cfg` | two servers agree; one row per pair; blocks cut; on one server the handler adds nothing to its sender's writes |
| `social_withdrawn` | `MCSocialGraphWithdrawn.cfg` | **violated**: a withdrawn request stays pending at the target |
| `social_local_block` | `MCSocialGraphLocalBlock.cfg` | **violated**: a blocked account of the same server becomes a follower |
| `media` | `MCMediaPipeline.cfg` | leases exclude, ready is viewable, settled stays, nothing is forgotten, uploads settle |
| `media_shutdown` | `MCMediaShutdown.cfg` | **violated**: shutdown aborts the work in progress |
| `hashtags` | `MCHashtagIndex.cfg` | exact counters, sound watermark, complete searches |
| `hashtags_up_to_date` | `MCHashtagUpToDate.cfg` | **violated**: a post tagged behind the watermark is never found |
| `services` | `MCServices.cfg` | rows and counters, notifications, keys of posts, edits, copies, ballots, tokens, signing keys, pages, audiences |
| `timeline_opens` | `MCAudience.cfg` | **violated**: the home timeline shows a post of another server that cannot be opened |

### Bounds, and why they are enough
- **delivery**: two workers, two jobs on one host with a third recipient served locally, one fault. Two workers are the least that can share a claim; the host accepts RFC 9421 only, so the first knock always fails; the sender of one activity may be gone when an attempt begins. `Limit` is 1 for one worker and 2 for the other. The first one's claim has to choose, so a job that is rescheduled competes with one that has not had its turn, and while one worker hangs in a send the other one has to settle the remaining job; the second one's pass can abandon a batch with a job unreached. `MaxAttempts` is 2: an attempt is retried once and the next one decides. `MaxDelay` is 1, below the first doubled delay, so the cap applies, and a pass that is longer than the delay reschedules a job into the past (`MaxLag` 1). What these small limits leave out, `DeliveryProofs` proves of the safety properties for every limit. `delivery_recovery` needs one worker only, and has an uncapped delay.
- **inbox**: two request slots (a copy racing a copy), one remote and one local activity, the personal and the shared inbox, two handlers (one may succeed and the next fail), one key rotation, one fault. `Retention` equals `SendWindow`, the tightest case the assumption allows; with a shorter retention a late retry is handled twice, which is why `SendWindow <= Retention` is an assumption. The code's default retention is measured in days and its retry window in hours.
- **social**: two accounts, one of them locked, either on two servers or on one (`Placements`), three API calls in all, two tasks, one lost activity and one failed task. Three calls are what the known anomalies need (follow, unfollow, authorize; follow, block, unblock). `social_withdrawn` uses two servers, `social_local_block` one.
- **media**: one upload, two workers, three attempts, two faults. Jobs do not interact (every statement names one row), so one upload stands for any number; two workers are the least for a lost lease, and the third attempt separates the counter of reclaims from the number of failures.
- **hashtags**: two local posts and a remote note, one tag on two of them, two searches, batches of two. Three posts make a full batch followed by another one; an untagged post moves the cursor without touching the index.
- **services**: two requests at once everywhere, the least that race, and interchangeable (symmetry). *Interactions*: one post (its counters are its own), its author, another member and a remote actor, three requests (boost, undo, boost again with an echo between them), one failure. *Posting*: one key, four requests (a create, its retry and two edits), one failure. *RemoteCopies*: one note, three versions (an Update can overtake another), two searches, one loss. *Polls*: one local and one remote voter, two options, three votes. *OAuth*: two applications, one code, four requests (two exchanges, a revocation, a use); three scope sets, one covering another and one unrelated. *SigningKeys*: two actors, four key pairs, two failures (a lost answer, then a crash). *Timelines*: five posts of two authors, pages of one, batches of two, at most two of them, so that a page can be filled, be capped or run dry; one change of relations. *Audience*: a reader, another resident and an account of another server, one text and two boosts (a boost of a boost), two changes of relations (follow and leave, follow and avoid) around a timeline that is being fetched; `timeline_opens` the same. About 1.1 million states.

### Fairness
`Delivery` assumes weak fairness of time and of each worker's own steps (`Own`: claim, begin, record, settle): the background loop polls for ever.
Of the end of a send (`SendEnds`) nothing is assumed: it is up to the remote inbox, and the HTTP client is built without a timeout (`federation/signatures/http_client.rs:179`).
`SettlesUnlessHeld` therefore says what a send that never returns may hold up: the jobs of the batch it is in, and everything once every worker is caught in one; a process has one worker, so there a single inbox is enough.
Faults are not fair, and liveness is stated up to the bounded faults.
`MediaPipeline` assumes weak fairness of each worker's steps, of claiming, of restart after a shutdown and of time.
The other modules have safety properties only and state no fairness.

### Excuses
Where the code gives no guarantee in a known case, the property names that case through a history variable instead of weakening the model, so that it still speaks of every other behaviour.

| History | Set when | Used by |
|---|---|---|
| `unsure` | an accepted copy is not reported as delivered | `DuplicatesNeedDoubt` |
| `burnt` | processing broke off after the id was recorded | `RecordedMeansHandled` |
| `excuse` | `resolve_public_key` failed (reading the cache, fetching or storing the key), or the key rotated while the request was under way | `RefusedOnlyForCause` |
| `raced` | two tasks on the same two accounts overlapped on one server | social graph |
| `doubt` | an activity was lost, overtaken, crossed by a Block, answered an older Follow, or its task failed, or the cached locked flag was wrong | `SidesAgree`, `WithdrawnRequestsEnd` |
| `withdrawn` | an Undo(Follow) reached a server where the request was pending | `SidesAgree` |
| `overtaken` | a lease ran out under a living worker | media |
| `unread` | a worker could not read a row that was settled already | `SettledStays` |
| `dropped` | a fault hit between two writes that belong together | media |
| `late` | a post was tagged after a scan had passed its key | hashtags |
| `raced` | two requests of an actor on a post, or one and the post's deletion, overlapped | `RowsAndCountersAgree` |
| `drifted` | a request broke off between row and count, a decrement met zero, or `unreblog` found its boost gone | `RowsAndCountersAgree` |
| `untold` | a request broke off before the notification, or the author dismissed it | `AuthorIsTold` |
| `unsure` (`Posting`) | two requests with one key overlapped, or one broke off between commit and bind | `OnePostPerKey` |
| `mixed` | two edits of a post overlapped, or one broke off between its transactions | `EditsStayWhole` |
| `overtaken` (`RemoteCopies`) | older content was stored after a later Update or Delete was handled | `CopiesFollowAuthor` |
| `torn` | an activity of the post was lost or its handling broke off | `CopiesFollowAuthor` |
| `excused` (in `answer`) | the poll closed or was deleted, or a step failed, after the ballot was stored | `BallotsStand` |
| `stale` | two rotations crossed, or a commit's answer was lost, until the next restart | `CacheServesActiveKey` |
| `skipped` | a capped scan towards newer posts did not reach the post | `PagesAreSeamless` |

`LeftMeanwhile` in `Audience` is such an excuse without a variable: the follow a page relies on ended while the page was being made.

## 4. Where the code and its documents disagree

1. `federation/outbound/worker.rs:266` says that unreached jobs stay claimed "for a future recovery pass". No code selects `in_progress` rows, so they are never delivered (`delivery_recovery`).
2. `.kiro/specs/social-graph/requirements.md:28` lets `unfollow` withdraw a pending request. The receiving server keeps it, and authorizing it later establishes a follow nobody wants (`social_withdrawn`).
3. `.kiro/specs/social-graph/requirements.md:98` wants one result for local and remote blocks. On one server `follow` keeps the row it wrote before delivery was refused (`social_local_block`).
4. `media/worker.rs:357` says that shutdown never aborts work in progress. `select!` drops `run_once` at its next await (`media_shutdown`).
5. `.kiro/specs/search/design.md:371` says that a search always matches the tags as they are just before it. Posts that become visible behind the watermark are never indexed (`hashtags_up_to_date`).
6. `.kiro/specs/timelines/requirements.md:79` wants one judgment for local and remote posts, `:73` the one of statuses. `social_graph/providers.rs:555` asks for the follow of a local author only, so a follower-only post of another server is on its follower's home timeline and not found everywhere else (`timeline_opens`).

Smaller ones, met while modelling, which no run is spent on:

- `actor/keys/service.rs:77` says that the partial unique index never rejects a rotation; two rotations of one actor that overlap make it do so (`InsertRefused`), which costs the caller an error and nothing else.
- `api/pagination.rs:216` promises pages towards newer posts that skip nothing; a capped fill loop leaves posts out (`skipped`), a trade-off `timelines/service.rs` documents.
- `unreblog` sends its Undo to the author of the boosted post only (`statuses/interaction_service.rs:486`), while the Announce went to the booster's followers.
- `TimelineMatcher::matches` (`timelines/matcher.rs:232`) does not look at `local`, `remote` and `only_media`, which `fetch_candidates` applies.
- A notification renders its post without a new judgment (`notifications/service.rs:293`), so a mentioned actor reads a direct post there that `show` denies; `statuses/visibility.rs` documents the author-only rule.
- `consume_code` comes before the checks of client and redirect, so a refused exchange burns the code. The property holds, and the owner has to approve again.

## 5. Proved with TLAPS

`DeliveryProofs` proves the following for any sets of workers, activities, inboxes and hosts and any limits that satisfy `DeliveryAssumption`:

| Theorem | States |
|---|---|
| `TypeCorrect` | `[]TypeOK` |
| `ClaimsAreExclusive` | `[]ClaimsExclusive` |
| `DoneMeansReceived` | `[]DoneWasReceived` |
| `AttemptsStayCounted` | `[]AttemptsAreCounted` |
| `DuplicatesAreExcused` | `[]DuplicatesNeedDoubt` |
| `RecordedFormatsWork` | `[]RecordedFormatWorks` |
| `DeliveryKeepsPromise` | `Delivery` implements `DeliveryPromise` |

The argument goes in layers. `TInv` is `TypeOK` with `Holding`: a worker at a job has that job in its batch; it shows for example that a rescheduled row stays within the bounds of `wait`.
On it `ClaimsExclusive` is inductive, because a claim takes pending rows only and every batch consists of rows in progress.
`Backed` says that a worker that is about to record a success, or to mark a row done, holds a job its inbox has accepted; with it `DoneWasReceived` is inductive.
`Counted` ties the attempts column to the attempts begun according to where the job and its holder are, which `AttemptsAreCounted` alone does not say for a row in progress.
`Doubted` ties received copies to `unsure` in the same way, and `Formatted` says that a format about to be recorded was accepted.
The refinement follows from these, step by step: a send by a holder is `Arrive` because the row is in progress, a settle is `Deliver` or `Abandon`, everything else stutters.

`HashtagIndexProofs` proves the following for any finite set of posts, any tags and searches and any batch size:

| Theorem | States |
|---|---|
| `TypeCorrect` | `[]TypeOK` |
| `CountsAreExact` | `[]CountsMatch` |
| `WatermarkIsSound` | `[]NothingSkipped` |
| `SearchIsComplete` | `[]SearchSeesEarlierPosts` |

`IInv` adds four ideas to these properties.
`ScanIsComplete`: up to a scan's cursor every tag is indexed, is in the scan's own remaining work, or is late.
That is what makes `save_watermark` sound whichever scan saves last, and loading a watermark starts a cursor of which it holds because `NothingSkipped` does.
`ScanWillReach`: a pair that was stored when a search began is indexed, in its remaining work, late, or ahead of a cursor that still moves.
`BeforeStays`: such a pair disappears only with its post.
`PostsInOrder` and `Resting` describe posts and searches between steps.
`CountsMatch` needs finite sets: the cardinality grows by one exactly when the association is new.

`MediaPipelineProofs`, for any set of media and workers, any number of attempts and faults:

| Theorem | States |
|---|---|
| `TypeCorrect` | `[]TypeOK` |
| `OneWorkerUnlessOvertaken` | `[]OneWorkerPerJob` |
| `ReadyMeansViewable` | `[]ReadyIsViewable` |
| `SettledMediaStay` | `SettledStays`, an action property |
| `FailuresAreTried` | `[]FailedOnlyAfterTries` |
| `MediaAreRemembered` | `[]NothingForgotten` |

`LeaseStands` says that a claim nobody could take over still holds its row; `StepsAreFounded` says for each step of a worker what it relies on (a row about to be completed has a settled media, a media about to be set ready has a whole thumbnail); `AttemptsAreClaims` bounds the counters of row and worker by the claims.

`InboxProofs`, for any senders, recipients, activities, requests, handlers and windows with `SendWindow <= Retention`:

| Theorem | States |
|---|---|
| `TypeCorrect` | `[]TypeOK` |
| `ActivitiesHandledOnce` | `[]HandledAtMostOnce` |
| `RecordedActivitiesHandled` | `[]RecordedMeansHandled` |
| `BlocksAreHonoured` | `[]BlockIsHonoured` |
| `RefusalsHaveCause` | `[]RefusedOnlyForCause` |

At most once needs time: a row is never older than its sender's first attempt (`RowsFollowPosts`), so when it is pruned the sender has given up; while the activity may still be sent, no row means no handler yet (`UnrecordedIsUnhandled`); and one request dispatches an activity (`DispatchIsExclusive`).
`KeysAreCurrent` ties the key a request has still to see to the one it was signed with.

`SocialGraphProofs`, for any accounts, servers and placements and any number of tasks:

| Theorem | States |
|---|---|
| `OnePendingOrFollowing` | `[]OneRowPerPair` |
| `BlocksEndFollows` | `[]BlockCutsFollower` |
| `LocalEchoesAreIdle` | `LocalEchoIsIdle`, an action property |
| `TypeCorrect` | `[]TypeOK` |
| `ServersAgree` | `[]SidesAgree` |

`OverlapsAreNoted` makes an undisturbed task the only one on its two accounts; `TasksAreSound` says what such a task has established about the row it is going to write (`WriteIsFounded`), that no block was set behind it (`BlockStopsTask`), and, on one server, what its handler will find (`EchoIsForeseen`).
The bounds of `TypeOK` come from an account of API calls (`Ledger`): per direction, the queued activities, those a task may still send, and those that Follows not yet answered may call forth are together no more than the calls (`CallsPay`), and no row, task or activity has an id that was not minted (`IdsAreMinted`).

`ServersAgree` is argued in two layers.
What is on its way from one account to another is a set of numbered activities, `Way`: the one being handled (0), the queued ones, and the one a task is about to send once its row is written. A row that `promote` has taken but not yet written counts as the follow it will be (`Following`).
The lower layer speaks of two servers' rows and the ways there and back only (`Agreeing`): the last Follow, Undo or Block on its way tells what the follower's server holds (`AskStands`, `EndStands`); with none on its way the rows agree, or the Accept, Reject or Block that will make them agree is on its way back (`Level`); a Follow on its way will not find a row and has an id of its own (`AsksAreFresh`, `AsksAreApart`, `ClaimsAreFresh`). One lemma per exchange shows that it keeps this.
The upper layer shows that every action of the module is one of those exchanges, or does not concern the relation (`IsAside`), or leaves one of the excuses of `SidesAgree` behind.
Two things stand beside it. A Follow and a Block on their way towards each other break the relation before they meet, so `RelationHolds` exempts a pair that is `Doomed`: both have yet to be handled, and when the first of them is, the pair is noted in `doubt`.
And `Informed` says what an undisturbed task knows when it writes: no row for `follow`, the target's own flag for the choice between follow and request.
Blocks are the same argument with one row on each side (`BlocksAgree`).

`AccessProofs`, for any actors, applications, readers and posts and any number of requests at once:

| Theorem | States |
|---|---|
| `CacheServesTheKey` | `SigningKeysSpec => []CacheServesActiveKey` |
| `TokensEarned` | `OAuthSpec => []TokensAreEarned` |
| `PagesFit` | `AudienceSpec => []PagesFitTheirReaders` |

The key cache lags behind the table only for a rotation between its commit and its upsert (`CacheFollows`), and the unique index lets one transaction of an actor through at a time (`CommitsAreExclusive`).
For tokens, one flow gets past the conditional `UPDATE` of a code (`ExchangesAreFair`), a token agrees with its code (`TokensAreRedeemed`), token ids are counted by flows (`TokensAreCounted`), and a reported revocation is in the row (`RevocationsLast`).
For pages, every text stays within the audience it was given, its later followers included (`Addressed`), and a boost points to an earlier text its booster may read (`Carried`); lemmas show that each surface's judgment implies membership in that audience.

`StatusesProofs`, for any keys, posts, voters, options and page sizes and any number of requests at once:

| Theorem | States |
|---|---|
| `OnePostForAKey` | `PostingSpec => []OnePostPerKey` |
| `EditsStayOnePiece` | `PostingSpec => []EditsStayWhole` |
| `PollsCountBallots` | `PollsSpec => []BallotsStand` |
| `CopiesCatchUp` | `RemoteCopiesSpec => []CopiesFollowAuthor` |
| `WalksAreSeamless` | `TimelinesSpec => []PagesAreSeamless` |

A key that was never contended is held by one creation, free from its lookup to its bind (`KeysAreHeld`); the one edit of a post saw its live text and owes it its media (`EditsAreWhole`).
The lock of a poll covers check and write, and a request knows whether it wrote (`BoothsAreOrderly`); the tally of an option is the cardinality of its voters (`BallotsAreCounted`).
Of a remote post, the newest activity, the row, its details and the mention are each there, on the wire, or in the hands of a handler (`NewestIsOwed`, `RowIsOwed`, `DetailsAreOwed`, `MentionIsOwed`).
What a walk owes its client is seen, on the open page, or ahead of the cursor (`OwedIsAhead`); that the cursor of a page is the lowest or highest post of it needs the greatest element of a finite set of numbers, from the library's `WFMin`.

`ServicesProofs`, for any posts, actors and number of requests at once:

| Theorem | States |
|---|---|
| `WhatStandsIsCounted` | `InteractionsSpec => []RowsAndCountersAgree` |
| `ActsAreNotified` | `InteractionsSpec => []AuthorIsTold` |
| `TypeCorrect` | `Spec => []TypeOK` |
| `ServicesKeepTheirWord` | `Spec` implies the ten safety properties of the eight services together |

`TasksSound` gives every request its type and says which requests may be at which step, what an echo returns to, and which rows a request has in hand.
The counters need finite tables, requests that number their rows by themselves (`IdsAreOwn`), rows that are new when inserted (`RowsAreNew`), and the load each request still has to apply; a lemma per action shows that row, counter and load move together (`CountsSound`).
`StandsOnce` needs that overlaps are known (`OverlapsAreKnown`), that what an undisturbed request has read still stands (`ReadsStand`), and that a deletion has every boost of its post in hand (`DeletionsSeeBoosts`).
`ActsAreTold` generalises `AuthorIsTold` to requests under way: an act that stands was told of, was excused, or a request `WillTell` of it, as the call, as its echo, or as the handler that inserted it.
The composition is shown to implement each component's specification, since a step of one leaves the variables of the others unchanged.

The proofs rest only on the named assumptions of the modules, which TLC evaluates for the instances.
Most say that limits are numbers and that sets of model values are disjoint; those with content are `SendWindow <= Retention` (the code's defaults are days against hours), finitely many slots and options, and that the null values `NoKey`, `NoJob`, `NoBooth`, `Nobody` and `Shared` are none of the values they stand beside.

Model-checked only:

- The liveness properties (`SettlesUnlessHeld`, `UploadsSettle`): `ENABLED` and fairness are out of the prover's reach.
- The six properties that are violated.

No module defines a recursive operator; facts that need induction over data could not be proved and none is used.

## 6. Not modelled, and why

- Accounts, serializers, queries and endpoints: reads and single-row updates; the interleavings they meet are those of the components that write.
- Bookmarks and pins: one row per actor and post behind a unique index, one idempotent statement, no counter.
- Owner sessions, CSRF tokens and cookies of OAuth; deactivation of actors: single guarded statements.
- Notifications of follows and polls, their filter and listing. Follow notifications are emitted in the same order as those of `Interactions`.
- Mutes as rows with an expiry: `Timelines` and `Audience` only see whether an author is hidden. Lists and relationship mapping: read-only queries.
- Tag conditions and the `local`, `remote` and `only_media` narrowing of timelines: they hide more posts and show none. `Timelines` takes the authors a timeline covers as a constant; which posts it admits is in `Audience`.
- In `Audience`: deletions and changed mentions (an edit notifies nobody), the `show_reblogs` flag, polls.
- `update_metadata` of media: columns no worker writes.
- Cryptography, JSON-LD, HTML and text processing: pure functions. A signature is a key version and a hashtag is a model value.
- Configuration, wiring, migrations, telemetry and the test harness.

## 7. Plan

In order of importance:

1. An abstract specification of one follow relation that `SocialGraph` implements when no activity is lost, and one of a post with derived counts that `Interactions` implements where no two requests of an actor overlap.
2. Follow notifications in `SocialGraph`, and deactivation in `SigningKeys`.
