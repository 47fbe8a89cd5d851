------------------------------ MODULE Audience ------------------------------
(***************************************************************************)
(* Who gets to read a post: visibility and addressing, the boosts that     *)
(* carry a post on, and the surfaces that render it.  Reads change nothing *)
(* and are operators on the state; a timeline is an operator on relations  *)
(* that were read when the request began.                                  *)
(*                                                                         *)
(* A follow row of a reader that turns boosts off only hides more; it is   *)
(* left out, and so are deletions (Interactions, RemoteCopies).            *)
(***************************************************************************)
EXTENDS Naturals, Sequences

CONSTANTS
  Residents,  \* local accounts
  Visitors,   \* known accounts of other servers
  Nobody,     \* the viewer of a request without a token
  Readers,    \* residents that open timelines
  MaxTexts,   \* bound: only the first entries may be texts, the rest are boosts
  MaxEntries, \* bound: posts and boosts
  MaxTurns    \* bound: changes of relations

ASSUME AudienceAssumption ==
  /\ Residents \cap Visitors = {} /\ Nobody \notin Residents \cup Visitors
  /\ Readers \subseteq Residents
  /\ MaxTexts \in Nat /\ MaxEntries \in Nat /\ MaxTurns \in Nat

VARIABLES
  journal,    \* the statuses rows in the order of their ids
  following,  \* follows rows <<follower, followee>>
  avoided,    \* <<reader, account>>: blocked, blocking or muted
  fetching,   \* fetching[v]: the FilterContext of the timeline v is fetching
  sent,       \* <<visitor, entry>>: texts delivered to other servers
  entitled,   \* history: <<viewer, entry>>, v has belonged to the text's audience
  turns       \* changes of relations so far

audienceVars == <<journal, following, avoided, fetching, sent, entitled, turns>>

Everyone == Residents \cup Visitors
Shut     == [viewer |-> Nobody]
Visibility == {"public", "unlisted", "private", "direct"}
NoBoost  == 0

Entry == [author : Everyone, visibility : Visibility, mentions : SUBSET Residents,
          boostOf : 0..MaxEntries]
FilterContext == [viewer : Readers, following : SUBSET Everyone, avoided : SUBSET Everyone]

AudienceTypeOK ==
  /\ Len(journal) <= MaxEntries /\ \A i \in DOMAIN journal : journal[i] \in Entry
  /\ following \subseteq Everyone \X Everyone
  /\ avoided \subseteq Readers \X Everyone
  /\ fetching \in [Readers -> FilterContext \cup {Shut}]
  /\ sent \subseteq Visitors \X (1..MaxEntries)
  /\ entitled \subseteq (Everyone \cup {Nobody}) \X (1..MaxEntries)
  /\ turns \in 0..MaxTurns

Author(i)  == journal[i].author
Texts(S)   == {i \in S : journal[i].boostOf = NoBoost}
Boosted(S) == {journal[i].boostOf : i \in S} \ {NoBoost}

-----------------------------------------------------------------------------
(* Visibility                                                              *)

IsVisible(entry, v, isFollower) ==
  \/ entry.author = v
  \/ entry.visibility = "public"
  \/ entry.visibility = "unlisted" /\ v # Nobody
  \/ entry.visibility = "private" /\ v # Nobody /\ isFollower

(* viewer_relation looks the author up as a local account.                 *)
ViewerRelation(v, a) == a \in Residents /\ <<v, a>> \in following

VisibleTo(v, i) == IsVisible(journal[i], v, ViewerRelation(v, Author(i)))

-----------------------------------------------------------------------------
(* Surfaces                                                                *)

(* show, context, search, statuses of an account; a boosted post is judged *)
(* there like any other.                                                   *)
ShownTo(v) == {i \in Texts(DOMAIN journal) : VisibleTo(v, i)}

(* build_filter_context: ids of any origin.                                *)
Context(v) == [viewer    |-> v,
               following |-> {a \in Everyone : <<v, a>> \in following},
               avoided   |-> {a \in Everyone : <<v, a>> \in avoided}]

MatchesHome(ctx) ==
  {i \in DOMAIN journal : /\ Author(i) \in ctx.following \cup {ctx.viewer}
                          /\ journal[i].visibility # "direct"}

(* matches_local and matches_tag admit some of these.                      *)
MatchesPublic == {i \in Texts(DOMAIN journal) : journal[i].visibility = "public"}

IsVisibleIn(ctx, i) == IsVisible(journal[i], ctx.viewer, Author(i) \in ctx.following)

KeepByBooster(ctx, i) == IsVisibleIn(ctx, i) /\ Author(i) \notin ctx.avoided

Keep(ctx, i) ==
  /\ IsVisibleIn(ctx, i)
  /\ \A j \in {i} \cup Boosted({i}) : Author(j) \notin ctx.avoided

NestedAnyway(ctx, rows) == Boosted(rows)

(* resolve_reblog_target of the timelines judges the boosted post again.   *)
Nested(ctx, rows) == {t \in Boosted(rows) : IsVisibleIn(ctx, t)}

TimelineTexts(ctx) ==
  LET kept == {i \in MatchesHome(ctx) \cup MatchesPublic : Keep(ctx, i)} IN
  Texts(kept \cup Nested(ctx, kept))

(* Mentions of v, and what others boost or favourite of v.                 *)
Notices(v) ==
  {i \in DOMAIN journal : Author(i) = v \/ v \in journal[i].mentions}

(* render_page and its resolve_reblog_target judge nothing again.          *)
NoticePage(v) == Texts(Notices(v) \cup Boosted(Notices(v)))

-----------------------------------------------------------------------------
(* Addressing                                                              *)

Followers(a) == {v \in Everyone : <<v, a>> \in following}

(* The collections among to and cc; mentions come on top of them.          *)
DeriveAddressing(visibility) ==
  CASE visibility = "public"   -> [to |-> {"Public"}, cc |-> {"followers"}]
    [] visibility = "unlisted" -> [to |-> {"followers"}, cc |-> {"Public"}]
    [] visibility = "private"  -> [to |-> {"followers"}, cc |-> {}]
    [] visibility = "direct"   -> [to |-> {}, cc |-> {}]

DeriveRecipients(addressing, a, mentions) ==
  IF "followers" \in addressing.to \cup addressing.cc THEN Followers(a) \cup mentions
                                                      ELSE mentions

DeriveInboundVisibility(addressing) ==
  CASE "Public" \in addressing.to -> "public"
    [] "Public" \in addressing.cc /\ "Public" \notin addressing.to -> "unlisted"
    [] addressing.to \cup addressing.cc = {"followers"} -> "private"
    [] OTHER -> "direct"

(* What an author means by a visibility, whatever the code derives from it.*)
Meant(a, visibility, mentions) ==
  CASE visibility = "public"   -> Everyone \cup {Nobody}
    [] visibility = "unlisted" -> Everyone
    [] visibility = "private"  -> {a} \cup mentions \cup Followers(a)
    [] visibility = "direct"   -> {a} \cup mentions

-----------------------------------------------------------------------------
Added(entry) == journal' = Append(journal, entry)
NewId == Len(journal) + 1
Room  == NewId <= MaxEntries

DeliverText(i, a, visibility, mentions) ==
  sent' = sent \cup (Visitors \cap DeriveRecipients(DeriveAddressing(visibility), a, mentions))
                    \X {i}

(* create_status; of the mentions only local ones are resolved.            *)
CreateStatus(a, visibility, mentions) ==
  /\ Room
  /\ Added([author |-> a, visibility |-> visibility, mentions |-> mentions,
            boostOf |-> NoBoost])
  /\ DeliverText(NewId, a, visibility, mentions)
  /\ entitled' = entitled \cup Meant(a, visibility, mentions) \X {NewId}
  /\ UNCHANGED <<following, avoided, fetching, turns>>

(* A Create of another server, addressed as that server addresses it.      *)
IngestNote(a, visibility, mentions) ==
  /\ Room
  /\ Added([author |-> a, mentions |-> mentions, boostOf |-> NoBoost,
            visibility |-> DeriveInboundVisibility(DeriveAddressing(visibility))])
  /\ entitled' = entitled \cup Meant(a, visibility, mentions) \X {NewId}
  /\ UNCHANGED <<following, avoided, fetching, sent, turns>>

(* edit_status: visibility and addressing stay, the followers are today's. *)
EditStatus(i) ==
  /\ i \in Texts(DOMAIN journal) /\ Author(i) \in Residents
  /\ DeliverText(i, Author(i), journal[i].visibility, journal[i].mentions)
  /\ UNCHANGED <<journal, following, avoided, fetching, entitled, turns>>

AddBoost(a, t) ==
  /\ Room
  /\ ~\E i \in DOMAIN journal : Author(i) = a /\ journal[i].boostOf = t
  /\ Added([author |-> a, visibility |-> journal[t].visibility, mentions |-> {},
            boostOf |-> t])
  /\ UNCHANGED <<following, avoided, fetching, sent, entitled, turns>>

(* reblog; its Announce names the post and carries no text.                *)
Boost(a, t) == VisibleTo(a, t) /\ AddBoost(a, t)

(* AnnounceHandler: of any local post the other server can name.           *)
BoostFromAfar(a, t) == Author(t) \in Residents /\ AddBoost(a, t)

(* A follow is established: earlier posts are the new follower's to read.  *)
Follow(v, a) ==
  /\ turns < MaxTurns /\ turns' = turns + 1
  /\ <<v, a>> \notin following
  /\ following' = following \cup {<<v, a>>}
  /\ entitled' = entitled \cup
       {v} \X {i \in DOMAIN journal : Author(i) = a /\ journal[i].visibility = "private"}
  /\ UNCHANGED <<journal, avoided, fetching, sent>>

Unfollow(v, a) ==
  /\ turns < MaxTurns /\ turns' = turns + 1
  /\ <<v, a>> \in following
  /\ following' = following \ {<<v, a>>}
  /\ UNCHANGED <<journal, avoided, fetching, sent, entitled>>

(* A block by either side, or a mute.                                      *)
Avoid(v, a) ==
  /\ turns < MaxTurns /\ turns' = turns + 1
  /\ avoided' = avoided \cup {<<v, a>>}
  /\ UNCHANGED <<journal, following, fetching, sent, entitled>>

(* TimelineService::timeline reads the relations, then the posts.          *)
OpenTimeline(v) ==
  /\ fetching[v] = Shut
  /\ fetching' = [fetching EXCEPT ![v] = Context(v)]
  /\ UNCHANGED <<journal, following, avoided, sent, entitled, turns>>

ServeTimeline(v) ==
  /\ fetching[v] # Shut
  /\ fetching' = [fetching EXCEPT ![v] = Shut]
  /\ UNCHANGED <<journal, following, avoided, sent, entitled, turns>>

AudienceInit ==
  /\ journal = <<>> /\ following = {} /\ avoided = {}
  /\ fetching = [v \in Readers |-> Shut]
  /\ sent = {} /\ entitled = {} /\ turns = 0

AudienceNext ==
  \/ /\ Len(journal) < MaxTexts
     /\ \E visibility \in Visibility, mentions \in {{}} \cup {{v} : v \in Readers} :
          \/ \E a \in Residents : CreateStatus(a, visibility, mentions)
          \/ \E a \in Visitors : IngestNote(a, visibility, mentions)
  \/ \E i \in DOMAIN journal :
       \/ EditStatus(i)
       \/ \E a \in Residents : Boost(a, i)
       \/ \E a \in Visitors : BoostFromAfar(a, i)
  \/ \E v, a \in Everyone :
       /\ v # a /\ (v \in Residents \/ a \in Residents)
       /\ Follow(v, a) \/ Unfollow(v, a)
  \/ \E v \in Readers : \/ \E a \in Everyone \ {v} : Avoid(v, a)
                        \/ OpenTimeline(v) \/ ServeTimeline(v)

AudienceSpec == AudienceInit /\ [][AudienceNext]_audienceVars

-----------------------------------------------------------------------------
Opened == {v \in Readers : fetching[v] # Shut}

(* A page may still trust a follow that ended while it was being made.     *)
LeftMeanwhile(v, a) == a \in fetching[v].following /\ <<v, a>> \notin following

EntitledTo(v) == {i \in DOMAIN journal : <<v, i>> \in entitled}

TextsReachTheirAudience ==
  /\ \A v \in Residents \cup {Nobody} : ShownTo(v) \cup NoticePage(v) \subseteq EntitledTo(v)
  /\ TimelineTexts(Context(Nobody)) \subseteq EntitledTo(Nobody)
  /\ \A v \in Opened : \A i \in TimelineTexts(fetching[v]) :
       i \in EntitledTo(v) \/ LeftMeanwhile(v, Author(i))
  /\ sent \subseteq entitled

AvoidedAuthorsStayHidden ==
  \A v \in Opened : \A i \in TimelineTexts(fetching[v]) : Author(i) \notin fetching[v].avoided

(* statuses-core 4.1 to 4.4, timelines 5 and 6: whatever way a text takes  *)
(* (a page, a notification, a boost of a boost, an edit, a delivery to     *)
(* another server), it reaches nobody its author has not addressed at some *)
(* time, unless a follow ended while the page was being made; and no       *)
(* timeline shows a text of an author its reader avoided when it opened,   *)
(* whoever boosted it.                                                     *)
PagesFitTheirReaders == TextsReachTheirAudience /\ AvoidedAuthorsStayHidden

(* timelines/requirements.md, 5.3, and statuses-core 4.1: one judgment for *)
(* local and remote posts, so what a timeline shows can also be opened,    *)
(* answered, boosted and found.                                            *)
TimelinePostsOpen == \A v \in Readers : TimelineTexts(Context(v)) \subseteq ShownTo(v)
=============================================================================
