---------------------------- MODULE Interactions ----------------------------
(***************************************************************************)
(* Boosts, favourites and replies of local posts, the counters kept beside *)
(* them and the notifications they cause.  Members call the API, remote    *)
(* actors arrive as inbox handlers, and the delivery of a member's activity*)
(* to an actor of the same server runs the inbox handler inside the call   *)
(* (the echo).  Every step is one committed statement or transaction under *)
(* READ COMMITTED, or one read a later step relies on.                     *)
(***************************************************************************)
EXTENDS Integers, FiniteSets

CONSTANTS
  Posts,         \* original posts of local authors
  AuthorOf,      \* AuthorOf[p]
  Members,       \* local actors
  Remotes,       \* actors of other servers
  Slots,         \* requests running at once
  MaxTouches,    \* bound: calls and inbox requests
  MaxMishaps     \* bound: failed steps and dying processes

ASSUME InteractionsAssumption ==
  /\ AuthorOf \in [Posts -> Members]
  /\ Members \cap Remotes = {}
  /\ IsFiniteSet(Slots)
  /\ MaxTouches \in Nat /\ MaxMishaps \in Nat

VARIABLES
  living,   \* posts whose row exists
  rows,     \* statuses rows of boosts and replies
  favs,     \* favs[p]: favourites rows of p
  count,    \* count[p]: reblogs_count, favourites_count, replies_count
  notes,    \* live notifications rows
  task,     \* task[k]: the request in slot k and its next step
  touches,
  mishaps,
  raced,    \* history: <<a, p>>, two requests of a on p, or one and a deletion, overlapped
  drifted,  \* history: <<p, c>>, a change of counter c of p was lost
  untold    \* history: <<c, p, a>>, the author was not told, or dismissed it

data == <<living, rows, favs, count>>
touchHistory == <<raced, drifted, untold>>
interactionVars == <<data, notes, task, touches, mishaps, touchHistory>>

Actors   == Members \cup Remotes
Counters == {"reblogs", "favourites", "replies"}

ApiOps     == {"reblog", "unreblog", "favourite", "unfavourite", "reply", "delete"}
HandlerOps == {"Announce", "Like", "Create", "UndoAnnounce", "UndoLike"}

(* The removal of a reply: the API's delete_status or a received Delete.   *)
Ops == ApiOps \cup HandlerOps \cup {"remove"}

CounterOf(op) ==
  CASE op \in {"reblog", "unreblog", "Announce", "UndoAnnounce"} -> "reblogs"
    [] op \in {"favourite", "unfavourite", "Like", "UndoLike"} -> "favourites"
    [] OTHER -> "replies"

Row == [id : 1..MaxTouches, kind : {"boost", "reply"}, post : Posts,
        actor : Actors, local : BOOLEAN]

Note == [about : {"reblogs", "favourites"}, post : Posts, from : Actors, local : BOOLEAN]

Idle == [step |-> "idle"]
Steps == {"find", "write", "scan", "insert", "drop", "raise", "lower", "deliver", "notify"}
Task == [step : Steps, op : Ops, actor : Actors, post : Posts, id : 1..MaxTouches,
         seen : SUBSET Row, after : {"none", "reblog", "favourite"}]

InteractionsTypeOK ==
  /\ living \subseteq Posts
  /\ rows \subseteq Row
  /\ favs \in [Posts -> SUBSET Actors]
  /\ count \in [Posts -> [Counters -> Nat]]
  /\ notes \subseteq Note
  /\ task \in [Slots -> Task \cup {Idle}]
  /\ touches \in 0..MaxTouches /\ mishaps \in 0..MaxMishaps
  /\ raced \subseteq Actors \X Posts
  /\ drifted \subseteq Posts \X Counters
  /\ untold \subseteq Counters \X Posts \X Actors

Running(k)  == task[k].step # "idle"
Doing(k, ops, step) == task[k].step = step /\ task[k].op \in ops
Boosts(a, p) == {r \in rows : r.kind = "boost" /\ r.actor = a /\ r.post = p}
OnPost(k)   == task[k].post
By(k)       == task[k].actor

StepTo(k, step) == task' = [task EXCEPT ![k].step = step]
Return(k)       == task' = [task EXCEPT ![k] = Idle]

(* A handler is done: an echo gives the task back to the call it is part   *)
(* of, which still has its notification to emit.                           *)
HandlerDone(k) ==
  IF task[k].after = "none"
    THEN Return(k)
    ELSE task' = [task EXCEPT ![k].op = task[k].after, ![k].after = "none", ![k].step = "notify"]

(* adjust_counts: one UPDATE, floored at zero, without effect on a deleted *)
(* post.                                                                   *)
Adjusted(counts, p, c, delta) ==
  IF p \in living
    THEN [counts EXCEPT ![p][c] = IF @ + delta < 0 THEN 0 ELSE @ + delta]
    ELSE counts

AtFloor(p, c) == IF p \in living /\ count[p][c] = 0 THEN {<<p, c>>} ELSE {}

-----------------------------------------------------------------------------
(* Calls                                                                   *)

FirstStepOf(op) ==
  CASE op \in {"reblog", "unreblog", "Announce", "UndoAnnounce"} -> "find"
    [] op \in {"favourite", "unfavourite", "reply"} -> "write"
    [] op \in {"Like", "Create"} -> "insert"
    [] op = "UndoLike" \/ op = "remove" -> "drop"
    [] op = "delete" -> "scan"

Meets(k, op, a, p) == Running(k) /\ OnPost(k) = p /\ (By(k) = a \/ "delete" \in {op, task[k].op})

Enter(k, op, a, p, seen) ==
  /\ ~Running(k)
  /\ touches < MaxTouches
  /\ touches' = touches + 1
  /\ task' = [task EXCEPT ![k] = [step |-> FirstStepOf(op), op |-> op, actor |-> a, post |-> p,
                                  id |-> touches + 1, seen |-> seen, after |-> "none"]]
  /\ raced' = raced \cup {<<b, p>> : b \in
       UNION {{a, By(j)} : j \in {j \in Slots \ {k} : Meets(j, op, a, p)}}}
  /\ UNCHANGED <<data, notes, mishaps, drifted, untold>>

(* The call or handler begins and finds its target.                        *)
Touch(k, op, a, p) ==
  /\ p \in living
  /\ IF a \in Members THEN op \in ApiOps ELSE op \in HandlerOps
  /\ op = "delete" => a = AuthorOf[p]
  /\ Enter(k, op, a, p, {})

(* delete_status or DeleteHandler finds a reply of the caller's own.       *)
TouchReply(k, r) ==
  /\ r.kind = "reply"
  /\ Enter(k, "remove", r.actor, r.post, {r})

-----------------------------------------------------------------------------
(* Boosts                                                                  *)

BoostUnconditionally(k) ==
  /\ Doing(k, {"reblog"}, "find")
  /\ StepTo(k, "write")
  /\ UNCHANGED <<data, notes, touches, mishaps, touchHistory>>

(* find_reblog: inside reblog's transaction, outside any in the others.    *)
FindToBoost(k) ==
  /\ Doing(k, {"reblog"}, "find")
  /\ IF Boosts(By(k), OnPost(k)) # {} THEN Return(k) ELSE StepTo(k, "write")
  /\ UNCHANGED <<data, notes, touches, mishaps, touchHistory>>

NewRow(k, kind, local) ==
  [id |-> task[k].id, kind |-> kind, post |-> OnPost(k), actor |-> By(k), local |-> local]

(* reblog's transaction commits: the boost and its count.  The target may  *)
(* have gone since; reblog_of_id has no foreign key.                       *)
Reblog(k) ==
  /\ Doing(k, {"reblog"}, "write")
  /\ rows' = rows \cup {NewRow(k, "boost", TRUE)}
  /\ count' = Adjusted(count, OnPost(k), "reblogs", 1)
  /\ StepTo(k, "deliver")
  /\ UNCHANGED <<living, favs, notes, touches, mishaps, touchHistory>>

(* AnnounceHandler: find_by_uri and find_reblog.                           *)
FindAnnounced(k) ==
  /\ Doing(k, {"Announce"}, "find")
  /\ IF OnPost(k) \notin living \/ Boosts(By(k), OnPost(k)) # {}
       THEN HandlerDone(k)
       ELSE StepTo(k, "insert")
  /\ UNCHANGED <<data, notes, touches, mishaps, touchHistory>>

InsertAnnounced(k) ==
  /\ Doing(k, {"Announce"}, "insert")
  /\ rows' = rows \cup {NewRow(k, "boost", FALSE)}
  /\ StepTo(k, "raise")
  /\ UNCHANGED <<living, favs, count, notes, touches, mishaps, touchHistory>>

(* unreblog and UndoHandler: LIMIT 1 picks any boost of the actor.         *)
FindToUndo(k) ==
  /\ Doing(k, {"unreblog", "UndoAnnounce"}, "find")
  /\ \/ /\ Boosts(By(k), OnPost(k)) = {} \/ (task[k].op = "UndoAnnounce" /\ OnPost(k) \notin living)
        /\ HandlerDone(k)
     \/ /\ task[k].op = "unreblog" \/ OnPost(k) \in living
        /\ \E r \in Boosts(By(k), OnPost(k)) :
             task' = [task EXCEPT ![k].step = "drop", ![k].seen = {r}]
  /\ UNCHANGED <<data, notes, touches, mishaps, touchHistory>>

(* delete_status of the boost: its result does not say whether the row was *)
(* still there, and the count is lowered in any case.                      *)
DropBoost(k) ==
  /\ Doing(k, {"unreblog", "UndoAnnounce"}, "drop")
  /\ rows' = rows \ task[k].seen
  /\ drifted' = IF task[k].seen \subseteq rows THEN drifted
                                              ELSE drifted \cup {<<OnPost(k), "reblogs">>}
  /\ StepTo(k, "lower")
  /\ UNCHANGED <<living, favs, count, notes, touches, mishaps, raced, untold>>

-----------------------------------------------------------------------------
(* Favourites                                                              *)

(* favourite and unfavourite: row and count in one transaction; a new row  *)
(* needs its post.                                                         *)
Favourite(k) ==
  LET p == OnPost(k) IN
  /\ Doing(k, {"favourite"}, "write")
  /\ IF p \notin living \/ By(k) \in favs[p]
       THEN Return(k) /\ UNCHANGED <<favs, count>>
       ELSE /\ favs' = [favs EXCEPT ![p] = @ \cup {By(k)}]
            /\ count' = Adjusted(count, p, "favourites", 1)
            /\ StepTo(k, "deliver")
  /\ UNCHANGED <<living, rows, notes, touches, mishaps, touchHistory>>

Unfavourite(k) ==
  LET p == OnPost(k) IN
  /\ Doing(k, {"unfavourite"}, "write")
  /\ IF By(k) \notin favs[p]
       THEN Return(k) /\ UNCHANGED <<favs, count, drifted>>
       ELSE /\ favs' = [favs EXCEPT ![p] = @ \ {By(k)}]
            /\ count' = Adjusted(count, p, "favourites", -1)
            /\ drifted' = drifted \cup AtFloor(p, "favourites")
            /\ StepTo(k, "deliver")
  /\ UNCHANGED <<living, rows, notes, touches, mishaps, raced, untold>>

LikeUnconditionally(k) ==
  LET p == OnPost(k) IN
  /\ Doing(k, {"Like"}, "insert")
  /\ IF p \in living
       THEN favs' = [favs EXCEPT ![p] = @ \cup {By(k)}] /\ StepTo(k, "raise")
       ELSE HandlerDone(k) /\ UNCHANGED favs
  /\ UNCHANGED <<living, rows, count, notes, touches, mishaps, touchHistory>>

(* LikeHandler: find_by_uri, then add_favourite on its own.  A post that   *)
(* goes in between fails the request.                                      *)
InsertLike(k) ==
  LET p == OnPost(k) IN
  /\ Doing(k, {"Like"}, "insert")
  /\ \/ p \notin living /\ (HandlerDone(k) \/ Return(k)) /\ UNCHANGED favs
     \/ p \in living /\ By(k) \in favs[p] /\ HandlerDone(k) /\ UNCHANGED favs
     \/ /\ p \in living /\ By(k) \notin favs[p]
        /\ favs' = [favs EXCEPT ![p] = @ \cup {By(k)}]
        /\ StepTo(k, "raise")
  /\ UNCHANGED <<living, rows, count, notes, touches, mishaps, touchHistory>>

(* UndoHandler: remove_favourite on its own.                               *)
DropLike(k) ==
  /\ Doing(k, {"UndoLike"}, "drop")
  /\ favs' = [favs EXCEPT ![OnPost(k)] = @ \ {By(k)}]
  /\ IF By(k) \in favs[OnPost(k)] THEN StepTo(k, "lower") ELSE HandlerDone(k)
  /\ UNCHANGED <<living, rows, count, notes, touches, mishaps, touchHistory>>

-----------------------------------------------------------------------------
(* Counts of the handlers and of unreblog, each a statement of its own     *)

RaiseCount(k) ==
  /\ task[k].step = "raise"
  /\ count' = Adjusted(count, OnPost(k), CounterOf(task[k].op), 1)
  /\ IF task[k].op = "Create" THEN HandlerDone(k) ELSE StepTo(k, "notify")
  /\ UNCHANGED <<living, rows, favs, notes, touches, mishaps, touchHistory>>

LowerCount(k) ==
  LET c == CounterOf(task[k].op) IN
  /\ task[k].step = "lower"
  /\ count' = Adjusted(count, OnPost(k), c, -1)
  /\ drifted' = drifted \cup AtFloor(OnPost(k), c)
  /\ IF task[k].op = "unreblog" THEN StepTo(k, "deliver") ELSE HandlerDone(k)
  /\ UNCHANGED <<living, rows, favs, notes, touches, mishaps, raced, untold>>

-----------------------------------------------------------------------------
(* Replies and deletion                                                    *)

(* create_status of a reply: row and replies_count in one transaction.     *)
Reply(k) ==
  /\ Doing(k, {"reply"}, "write")
  /\ rows' = rows \cup {NewRow(k, "reply", TRUE)}
  /\ count' = Adjusted(count, OnPost(k), "replies", 1)
  /\ StepTo(k, "deliver")
  /\ UNCHANGED <<living, favs, notes, touches, mishaps, touchHistory>>

(* CreateNoteHandler: a known uri is left alone; ingest_note_object        *)
(* inserts the row, then raises the parent's count if it found the parent. *)
InsertCreated(k) ==
  /\ Doing(k, {"Create"}, "insert")
  /\ IF \E r \in rows : r.id = task[k].id
       THEN HandlerDone(k) /\ UNCHANGED rows
       ELSE rows' = rows \cup {NewRow(k, "reply", FALSE)} /\ StepTo(k, "raise")
  /\ UNCHANGED <<living, favs, count, notes, touches, mishaps, touchHistory>>

(* delete_status of a reply: only the caller whose DELETE hits the row     *)
(* lowers the parent's count.                                              *)
RemoveReply(k) ==
  LET hit == task[k].seen \cap rows # {} IN
  /\ Doing(k, {"remove"}, "drop")
  /\ rows' = rows \ task[k].seen
  /\ count' = IF hit THEN Adjusted(count, OnPost(k), "replies", -1) ELSE count
  /\ drifted' = IF hit THEN drifted \cup AtFloor(OnPost(k), "replies") ELSE drifted
  /\ Return(k)
  /\ UNCHANGED <<living, favs, notes, touches, mishaps, raced, untold>>

(* delete_status of a post: DELETE its boosts as that statement sees them. *)
ScanBoosts(k) ==
  /\ Doing(k, {"delete"}, "scan")
  /\ task' = [task EXCEPT ![k].step = "drop",
       ![k].seen = {r \in rows : r.kind = "boost" /\ r.post = OnPost(k)}]
  /\ UNCHANGED <<data, notes, touches, mishaps, touchHistory>>

(* ... then the row, whose favourites cascade, and commit.  Replies stay.  *)
DeletePost(k) ==
  /\ Doing(k, {"delete"}, "drop")
  /\ living' = living \ {OnPost(k)}
  /\ rows' = rows \ task[k].seen
  /\ favs' = [favs EXCEPT ![OnPost(k)] = {}]
  /\ Return(k)
  /\ UNCHANGED <<count, notes, touches, mishaps, touchHistory>>

-----------------------------------------------------------------------------
(* Delivery and notification                                               *)

EchoOf(op) ==
  CASE op = "reblog" -> "Announce" [] op = "unreblog" -> "UndoAnnounce"
    [] op = "favourite" -> "Like"  [] op = "unfavourite" -> "UndoLike"
    [] op = "reply" -> "Create"

AfterEcho(op) == IF op \in {"reblog", "favourite"} THEN op ELSE "none"

(* deliver_like and deliver_undo reach the author, who is local; a boost   *)
(* or a reply is echoed if an addressee is local.                          *)
Deliver(k) ==
  LET op == task[k].op IN
  /\ task[k].step = "deliver"
  /\ \/ task' = [task EXCEPT ![k].op = EchoOf(op), ![k].step = FirstStepOf(EchoOf(op)),
                             ![k].after = AfterEcho(op)]
     \/ op = "reblog" /\ StepTo(k, "notify")
     \/ op = "reply" /\ Return(k)
  /\ UNCHANGED <<data, notes, touches, mishaps, touchHistory>>

NotifyPerPost(k) ==
  LET about == CounterOf(task[k].op)
      key   == <<about, OnPost(k), By(k)>>
      note  == [about |-> about, post |-> OnPost(k), from |-> By(k),
                local |-> task[k].op \in ApiOps] IN
  /\ task[k].step = "notify"
  /\ IF By(k) # AuthorOf[OnPost(k)] /\ ~\E n \in notes : n.post = OnPost(k) /\ n.about = about
       THEN notes' = notes \cup {note} /\ untold' = untold \ {key}
       ELSE UNCHANGED <<notes, untold>>
  /\ HandlerDone(k)
  /\ UNCHANGED <<data, touches, mishaps, raced, drifted>>

(* emit, generate, insert_dedup: no notification of one's own act, nor one *)
(* the recipient's blocks and mutes suppress; a live row with the same key *)
(* absorbs it.  Handlers call every origin remote.                         *)
Notify(k) ==
  LET about == CounterOf(task[k].op)
      key   == <<about, OnPost(k), By(k)>>
      note  == [about |-> about, post |-> OnPost(k), from |-> By(k),
                local |-> task[k].op \in ApiOps] IN
  /\ task[k].step = "notify"
  /\ \/ /\ By(k) = AuthorOf[OnPost(k)]
        /\ UNCHANGED <<notes, untold>>
     \/ /\ By(k) # AuthorOf[OnPost(k)]
        /\ untold' = untold \cup {key}
        /\ UNCHANGED notes
     \/ /\ By(k) # AuthorOf[OnPost(k)]
        /\ notes' = notes \cup {note}
        /\ untold' = untold \ {key}
  /\ HandlerDone(k)
  /\ UNCHANGED <<data, touches, mishaps, raced, drifted>>

Dismissed(gone) ==
  /\ notes' = notes \ gone
  /\ untold' = untold \cup {<<n.about, n.post, n.from>> : n \in gone}
  /\ UNCHANGED <<data, task, touches, mishaps, raced, drifted>>

DismissNote(n) == Dismissed({n})

ClearNotes(a) == notes # {} /\ Dismissed({n \in notes : AuthorOf[n.post] = a})

(* A step fails, or the process dies before it: the request ends there.    *)
Abandon(k) ==
  /\ Running(k)
  /\ mishaps < MaxMishaps
  /\ mishaps' = mishaps + 1
  /\ Return(k)
  /\ drifted' = IF task[k].step \in {"raise", "lower"}
                  THEN drifted \cup {<<OnPost(k), CounterOf(task[k].op)>>} ELSE drifted
  /\ untold' = untold \cup {<<CounterOf(task[k].op), OnPost(k), By(k)>>}
  /\ UNCHANGED <<data, notes, touches, raced>>

InteractionsInit ==
  /\ living = Posts
  /\ rows = {}
  /\ favs = [p \in Posts |-> {}]
  /\ count = [p \in Posts |-> [c \in Counters |-> 0]]
  /\ notes = {}
  /\ task = [k \in Slots |-> Idle]
  /\ touches = 0 /\ mishaps = 0
  /\ raced = {} /\ drifted = {} /\ untold = {}

InteractionsNext ==
  \/ \E k \in Slots :
       \/ \E op \in ApiOps \cup HandlerOps, a \in Actors, p \in Posts : Touch(k, op, a, p)
       \/ \E r \in rows : TouchReply(k, r)
       \/ FindToBoost(k) \/ Reblog(k) \/ FindAnnounced(k) \/ InsertAnnounced(k)
       \/ FindToUndo(k) \/ DropBoost(k)
       \/ Favourite(k) \/ Unfavourite(k) \/ InsertLike(k) \/ DropLike(k)
       \/ RaiseCount(k) \/ LowerCount(k)
       \/ Reply(k) \/ InsertCreated(k) \/ RemoveReply(k) \/ ScanBoosts(k) \/ DeletePost(k)
       \/ Deliver(k) \/ Notify(k)
       \/ Abandon(k)
  \/ \E n \in notes : DismissNote(n)
  \/ \E a \in Members : ClearNotes(a)

InteractionsSpec == InteractionsInit /\ [][InteractionsNext]_interactionVars

-----------------------------------------------------------------------------
Pending(p, c, step) ==
  Cardinality({k \in Slots : task[k].step = step /\ OnPost(k) = p /\ CounterOf(task[k].op) = c})

Standing(p, c) ==
  CASE c = "favourites" -> Cardinality(favs[p])
    [] c = "reblogs" -> Cardinality({r \in rows : r.kind = "boost" /\ r.post = p})
    [] c = "replies" -> Cardinality({r \in rows : r.kind = "reply" /\ r.post = p})

(* adjust_counts beside add_favourite, insert_status and delete_status: a  *)
(* post's counters equal its favourites, boosts and replies, give or take  *)
(* the changes that requests under way have still to apply, however the    *)
(* calls of the same and of different actors interleave.  A counter drifts *)
(* only if a request breaks off between row and count, if a decrement meets*)
(* zero, or if unreblog's boost was already gone.                          *)
CountersMatch ==
  \A p \in living : \A c \in Counters :
    <<p, c>> \notin drifted =>
      count[p][c] + Pending(p, c, "raise") - Pending(p, c, "lower") = Standing(p, c)

(* reblog and AnnounceHandler: an actor has at most one boost of a post,   *)
(* only of a post that exists, and no echo brings a member's own boost or  *)
(* reply back as a remote one, unless two requests of the actor on the     *)
(* post, or one and the post's deletion, overlapped.                       *)
StandsOnce ==
  \A a \in Actors : \A p \in Posts :
    <<a, p>> \notin raced =>
      /\ Cardinality(Boosts(a, p)) <= 1
      /\ Boosts(a, p) # {} => p \in living
      /\ \A r \in rows : r.actor = a /\ r.post = p => (r.local <=> a \in Members)

(* Rows and counters together: what stands, stands once, and is counted.   *)
RowsAndCountersAgree == CountersMatch /\ StandsOnce

(* Once the requests of an actor on another's post are over, a boost or    *)
(* favourite that stands has a live notification, unless it was suppressed *)
(* or dismissed or a request broke off before it.                          *)
AuthorIsTold ==
  \A p \in living : \A a \in Actors \ {AuthorOf[p]} :
    (\A k \in Slots : Running(k) => By(k) # a \/ OnPost(k) # p) =>
      \A c \in {"reblogs", "favourites"} :
        /\ IF c = "reblogs" THEN Boosts(a, p) # {} ELSE a \in favs[p]
        /\ <<c, p, a>> \notin untold
        => \E n \in notes : n.about = c /\ n.post = p /\ n.from = a
=============================================================================
