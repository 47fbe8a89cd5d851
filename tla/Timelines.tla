----------------------------- MODULE Timelines -----------------------------
(***************************************************************************)
(* A client walks a timeline page by page while posts are made, removed    *)
(* and hidden.  A page is filled in several batches: each reads candidates *)
(* below the last one, filters them with the relations read when the page  *)
(* was opened, and after MaxFill batches the page is served as it is.      *)
(***************************************************************************)
EXTENDS Integers, FiniteSets, FiniteSetsExt

CONSTANTS
  Writers,       \* authors the timeline covers
  WriterOf,      \* WriterOf[p]: the author of the post with id p
  PageLimit,     \* limit of the walk's requests
  BatchFactor,   \* BATCH_LIMIT_MULTIPLIER
  MaxFill,       \* MAX_FILL_ITERATIONS
  MaxPosts,      \* bound: ids minted
  MaxToggles     \* bound: changes of the viewer's relations

ASSUME TimelinesAssumption ==
  /\ MaxPosts \in Nat /\ MaxToggles \in Nat
  /\ PageLimit \in Nat \ {0} /\ BatchFactor \in Nat \ {0} /\ MaxFill \in Nat \ {0}
  /\ WriterOf \in [1..MaxPosts -> Writers]

VARIABLES
  minted,      \* highest id minted
  unborn,      \* ids minted whose insert has not committed
  shelf,       \* ids of the statuses rows the timeline covers
  shunned,     \* authors the viewer blocks, mutes or is blocked by
  toggles,
  walk,        \* the client's walk
  page,        \* the page being filled
  owed,        \* history: posts the walk must show before it ends
  skipped      \* history: posts a capped min_id scan did not reach

timelinesVars == <<minted, unborn, shelf, shunned, toggles, walk, page, owed, skipped>>

Timeline == 1..MaxPosts
Top == MaxPosts + 1
NoCursor == 0
BatchLimit == PageLimit * BatchFactor
Ashore == [mode |-> "none"]
Closed == [step |-> "closed"]

(* older: next links, max_id; newer: prev links, min_id.                   *)
Walk == [mode : {"older", "newer"}, cursor : 0..Top, seen : SUBSET Timeline,
         repeated : BOOLEAN, ended : BOOLEAN]
Page == [step : {"fill"}, hidden : SUBSET Writers, upper : 0..Top, found : SUBSET Timeline,
         batches : 0..MaxFill]

TimelinesTypeOK ==
  /\ minted \in 0..MaxPosts
  /\ unborn \subseteq Timeline /\ shelf \subseteq Timeline
  /\ shunned \subseteq Writers
  /\ toggles \in 0..MaxToggles
  /\ walk \in Walk \cup {Ashore}
  /\ page \in Page \cup {Closed}
  /\ owed \subseteq Timeline /\ skipped \subseteq Timeline

InRange(S, lower, upper) == {p \in S : lower < p /\ p < upper}
Lower == IF walk.mode = "newer" THEN walk.cursor ELSE NoCursor
Walking == walk # Ashore /\ ~walk.ended
Of(ws)  == {p \in Timeline : WriterOf[p] \in ws}
Lowest(S, n)  == {p \in S : Cardinality({q \in S : q < p}) < n}
Highest(S, n) == {p \in S : Cardinality({q \in S : q > p}) < n}

-----------------------------------------------------------------------------
(* The rest of the server                                                  *)

(* An id is minted before the transaction that inserts the post commits.   *)
Mint ==
  /\ minted < MaxPosts
  /\ minted' = minted + 1
  /\ unborn' = unborn \cup {minted + 1}
  /\ UNCHANGED <<shelf, shunned, toggles, walk, page, owed, skipped>>

Publish(p) ==
  /\ p \in unborn
  /\ unborn' = unborn \ {p}
  /\ shelf' = shelf \cup {p}
  /\ UNCHANGED <<minted, shunned, toggles, walk, page, owed, skipped>>

Withdraw(p) ==
  /\ p \in shelf
  /\ shelf' = shelf \ {p}
  /\ owed' = owed \ {p}
  /\ UNCHANGED <<minted, unborn, shunned, toggles, walk, page, skipped>>

(* The viewer blocks, mutes or unfollows an author, or takes it back.      *)
Toggle(w) ==
  /\ toggles < MaxToggles
  /\ toggles' = toggles + 1
  /\ shunned' = (shunned \ {w}) \cup ({w} \ shunned)
  /\ owed' = owed \ Of({w})
  /\ UNCHANGED <<minted, unborn, shelf, walk, page, skipped>>

-----------------------------------------------------------------------------
(* TimelineService::timeline                                               *)

StartWalk(mode, cursor) ==
  /\ walk = Ashore
  /\ walk' = [mode |-> mode, cursor |-> cursor, seen |-> {}, repeated |-> FALSE, ended |-> FALSE]
  /\ UNCHANGED <<minted, unborn, shelf, shunned, toggles, page, owed, skipped>>

(* The request is parsed and build_filter_context reads the relations.     *)
OpenPage ==
  /\ Walking /\ page = Closed
  /\ page' = [step |-> "fill", hidden |-> shunned, found |-> {}, batches |-> 0,
              upper |-> IF walk.mode = "older" THEN walk.cursor ELSE Top]
  /\ owed' = owed \cup (InRange(shelf, Lower, page'.upper) \ Of(shunned))
  /\ UNCHANGED <<minted, unborn, shelf, shunned, toggles, walk, skipped>>

(* paginate, and the links of build_link_header.                           *)
Paginate(found) ==
  IF walk.mode = "newer" THEN Lowest(found, PageLimit) ELSE Highest(found, PageLimit)

LinkAsPaginated(items, capped, last) ==
  IF items = {} THEN NoCursor ELSE IF walk.mode = "older" THEN Min(items) ELSE Max(items)

(* A capped scan that found nothing continues below the last id it read;   *)
(* the link towards newer posts is paginate's.                             *)
Link(items, capped, last) ==
  CASE items # {} -> IF walk.mode = "older" THEN Min(items) ELSE Max(items)
    [] items = {} /\ capped /\ walk.mode = "older" -> last
    [] OTHER -> NoCursor

ServePage(found, capped, last) ==
  LET items == Paginate(found)
      link  == Link(items, capped, last) IN
  /\ page' = Closed
  /\ walk' = [walk EXCEPT !.seen = @ \cup items,
                          !.repeated = @ \/ items \cap walk.seen # {},
                          !.ended = link = NoCursor,
                          !.cursor = IF link = NoCursor THEN @ ELSE link]
  /\ skipped' = IF capped /\ walk.mode = "newer"
                  THEN skipped \cup InRange(shelf, Lower, last)
                  ELSE skipped

(* fetch_candidates, keep, and the conditions that end the loop; the id    *)
(* below which the next batch starts is the last one read, kept or not.    *)
FillBatch ==
  LET batch == Highest(InRange(shelf, Lower, page.upper), BatchLimit)
      found == page.found \cup (batch \ Of(page.hidden))
      last  == IF batch = {} THEN page.upper ELSE Min(batch)
      exhausted  == Cardinality(batch) < BatchLimit
      sufficient == walk.mode # "newer" /\ Cardinality(found) >= PageLimit
      capped == ~exhausted /\ ~sufficient /\ page.batches + 1 >= MaxFill IN
  /\ page # Closed
  /\ IF exhausted \/ sufficient \/ capped
       THEN ServePage(found, capped, last)
       ELSE /\ page' = [page EXCEPT !.found = found, !.upper = last, !.batches = @ + 1]
            /\ UNCHANGED <<walk, skipped>>
  /\ UNCHANGED <<minted, unborn, shelf, shunned, toggles, owed>>

TimelinesInit ==
  /\ minted = 0 /\ unborn = {} /\ shelf = {}
  /\ shunned \in SUBSET Writers /\ toggles = 0
  /\ walk = Ashore /\ page = Closed
  /\ owed = {} /\ skipped = {}

TimelinesNext ==
  \/ Mint
  \/ \E p \in Timeline : Publish(p) \/ Withdraw(p)
  \/ \E w \in Writers : Toggle(w)
  \/ StartWalk("older", Top)
  \/ \E from \in {NoCursor} \cup shelf : StartWalk("newer", from)
  \/ OpenPage \/ FillBatch

TimelinesSpec == TimelinesInit /\ [][TimelinesNext]_timelinesVars

-----------------------------------------------------------------------------
(* timelines/service.rs: a client that follows the links to the end has    *)
(* been shown every post that was on the timeline beyond its cursor when   *)
(* one of its pages was opened and neither removed nor hidden since, and   *)
(* no post twice, however many candidates each page filtered out.  Only    *)
(* what a capped scan towards newer posts left unread may be missing.      *)
PagesAreSeamless ==
  walk # Ashore =>
    /\ ~walk.repeated
    /\ walk.ended => owed \subseteq walk.seen \cup skipped
=============================================================================
