---------------------------- MODULE SocialGraph ----------------------------
(***************************************************************************)
(* Follows, follow requests and blocks between accounts of one or several  *)
(* servers that run this code: the API operations of FollowService,        *)
(* FollowRequestService and BlockService, the handlers of                  *)
(* SocialGraphInboundHandler, and the activities that travel between them. *)
(*                                                                         *)
(* Every API call or handler is a task that reads, writes and sends in     *)
(* separate steps; tasks interleave.  Delivery to another server may lose  *)
(* and reorder activities but the inbox handles each at most once; between *)
(* accounts of one server the sending task runs the handler itself.        *)
(*                                                                         *)
(* A row is its activity_id.  The direction column is left out: a request  *)
(* is Outbound on the requester's server and Inbound on the target's.      *)
(***************************************************************************)
EXTENDS Naturals, Sequences, SequencesExt

CONSTANTS
  Servers, Accounts,
  Placements, \* ways the accounts may be spread over the servers
  Locked,     \* accounts that approve their followers
  Slots,      \* concurrent tasks
  MaxCalls,   \* bound: API calls in a behaviour
  MaxLosses,  \* bound: activities given up by delivery
  MaxFaults   \* bound: tasks that fail or die

ASSUME SocialGraphAssumption ==
  /\ Placements \subseteq [Accounts -> Servers]
  /\ Locked \subseteq Accounts
  /\ MaxCalls \in Nat /\ MaxLosses \in Nat /\ MaxFaults \in Nat

Pairs == {p \in Accounts \X Accounts : p[1] # p[2]}
Ids   == 0..MaxCalls   \* Follow activity ids; 0: no row
None  == 0

VARIABLES
  home,      \* home[x]: the server of account x
  follows,   \* follows[s][p]: activity_id of the row <<follower, followee>> on s
  pending,   \* pending[s][p]: activity_id of the request <<requester, target>> on s
  blocks,    \* blocks[s]: rows <<blocker, blocked>>
  net,       \* net[p]: activities on their way from p[1] to p[2]
  slot,      \* slot[k]: the task in slot k
  calls,     \* API calls so far
  lastId,    \* last Follow id minted
  lost,      \* activities given up so far
  faults,    \* tasks failed so far
  raced,     \* history: <<s, {x, y}>>, two tasks on x and y overlapped on s
  withdrawn, \* history: an Undo of p reached a server where p was still pending
  doubt      \* history: {x, y} lost, reordered, crossed or misread an activity

tables  == <<follows, pending, blocks>>
history == <<raced, withdrawn, doubt>>
bounds  == <<calls, lastId, lost, faults>>
vars == <<home, tables, net, slot, bounds, history>>

ApiOps   == {"follow", "unfollow", "block", "unblock", "authorize", "reject"}
Handlers == {"Follow", "Accept", "Reject", "Block", "UndoFollow", "UndoBlock"}
Steps    == {"look", "read", "establish", "request", "remove", "withdraw", "block", "unblock",
             "take", "promote", "send"}

(* The activity an operation or handler delivers at its end.               *)
Sends == [follow |-> "Follow", unfollow |-> "UndoFollow", block |-> "Block",
          unblock |-> "UndoBlock", authorize |-> "Accept", reject |-> "Reject",
          Follow |-> "Accept"]

(* A task acts for the account "me" of server home[me] towards "you".      *)
FreeSlot == [step |-> "free"]
Task == [op : ApiOps \cup Handlers, step : Steps, me : Accounts, you : Accounts, id : Ids]
Message == [type : Handlers, id : Ids]

(* Every variable has its type.                                            *)
TypeOK ==
  /\ home \in Placements
  /\ follows \in [Servers -> [Pairs -> Ids]]
  /\ pending \in [Servers -> [Pairs -> Ids]]
  /\ blocks \in [Servers -> SUBSET Pairs]
  /\ DOMAIN net = Pairs
  /\ \A p \in Pairs : Len(net[p]) <= 2 * MaxCalls /\ ToSet(net[p]) \subseteq Message
  /\ slot \in [Slots -> Task \cup {FreeSlot}]
  /\ calls \in 0..MaxCalls /\ lastId \in 0..MaxCalls
  /\ lost \in 0..MaxLosses /\ faults \in 0..MaxFaults
  /\ raced \subseteq Servers \X SUBSET Accounts
  /\ withdrawn \subseteq Pairs
  /\ doubt \subseteq SUBSET Accounts

-----------------------------------------------------------------------------
Me(k)     == slot[k].me
You(k)    == slot[k].you
Server(k) == home[Me(k)]
Busy(k)   == slot[k] # FreeSlot
Both(k)   == {Me(k), You(k)}
Mine(k)   == <<Me(k), You(k)>>
Theirs(k) == <<You(k), Me(k)>>

At(k, step) == Busy(k) /\ slot[k].step = step

SameServer(x, y) == home[x] = home[y]

HasBlock(s, p) == p \in blocks[s]

(* The row <<follower, followee>> or <<requester, target>> task k is about.*)
SubjectOfSender(k) == Mine(k)

Subject(k) ==
  IF slot[k].op \in {"follow", "unfollow", "Accept", "Reject"} THEN Mine(k) ELSE Theirs(k)

FirstStep(op) ==
  CASE op \in {"follow", "unfollow", "Follow"} -> "look"
    [] op = "block" -> "read"
    [] op \in {"authorize", "reject", "Accept", "Reject"} -> "take"
    [] op = "Block" -> "block"
    [] op = "UndoFollow" -> "remove"
    [] op \in {"unblock", "UndoBlock"} -> "unblock"

Begin(k, op, me, you, id) ==
  /\ slot' = [slot EXCEPT ![k] =
       [op |-> op, step |-> FirstStep(op), me |-> me, you |-> you, id |-> id]]
  /\ raced' = raced \cup {<<home[me], {me, you}>> : j \in
       {j \in Slots \ {k} : Busy(j) /\ Both(j) = {me, you} /\ Server(j) = home[me]}}

Goto(k, step) == slot' = [slot EXCEPT ![k].step = step] /\ UNCHANGED raced

End(k) == slot' = [slot EXCEPT ![k] = FreeSlot] /\ UNCHANGED raced

(* API operations end with a delivery, handlers only where Sends says so.  *)
Finish(k) == IF slot[k].op \in DOMAIN Sends THEN Goto(k, "send") ELSE End(k)

-----------------------------------------------------------------------------
(* An account calls the API.                                               *)
Call(k, op, x, y) ==
  /\ ~Busy(k)
  /\ calls < MaxCalls
  /\ calls' = calls + 1
  /\ Begin(k, op, x, y, None)
  /\ UNCHANGED <<tables, net, lastId, lost, faults, withdrawn, doubt>>

(* load_states asks one table after the other, follows first: what it has  *)
(* read there may have changed when it comes to follow_requests.           *)
LookUp(k) ==
  /\ At(k, "look")
  /\ IF follows[Server(k)][Subject(k)] = None THEN Goto(k, "read")
     ELSE IF slot[k].op = "unfollow" THEN Goto(k, "remove")
     ELSE End(k)
  /\ UNCHANGED <<tables, net, bounds, withdrawn, doubt>>

(* FollowApprovalPolicy: approval is skipped on one server; elsewhere the  *)
(* flag decides, and the requester's server only has a cached copy of it.  *)
Decision(x, y, flag) ==
  IF ~SameServer(x, y) /\ flag THEN "request" ELSE "establish"

(* resolve_target: the profile of a local account, a cached remote one.    *)
LockedFlags(x, y) == IF SameServer(x, y) THEN {y \in Locked} ELSE BOOLEAN

(* follow: no row in either table, then the decision and a fresh id.       *)
ReadFollow(k) ==
  /\ At(k, "read") /\ slot[k].op = "follow"
  /\ IF pending[Server(k)][Mine(k)] # None
       THEN End(k) /\ UNCHANGED <<lastId, doubt>>
       ELSE \E flag \in LockedFlags(Me(k), You(k)) :
              /\ lastId' = lastId + 1
              /\ slot' = [slot EXCEPT ![k].step = Decision(Me(k), You(k), flag),
                                      ![k].id = lastId + 1]
              /\ doubt' = IF flag = (You(k) \in Locked) THEN doubt ELSE doubt \cup {Both(k)}
              /\ UNCHANGED raced
  /\ UNCHANGED <<tables, net, calls, lost, faults, withdrawn>>

(* handle_follow: an established or pending follow is left alone.          *)
HandleFollow(k) ==
  /\ At(k, "read") /\ slot[k].op = "Follow"
  /\ IF pending[Server(k)][Theirs(k)] # None
       THEN End(k)
       ELSE Goto(k, Decision(You(k), Me(k), Me(k) \in Locked))
  /\ UNCHANGED <<tables, net, bounds, withdrawn, doubt>>

(* unfollow: a follow is deleted, else a request is taken, else no-op.     *)
ReadUnfollow(k) ==
  /\ At(k, "read") /\ slot[k].op = "unfollow"
  /\ IF pending[Server(k)][Mine(k)] # None THEN Goto(k, "withdraw") ELSE End(k)
  /\ UNCHANGED <<tables, net, bounds, withdrawn, doubt>>

ReadBlock(k) ==
  /\ At(k, "read") /\ slot[k].op = "block"
  /\ IF HasBlock(Server(k), Mine(k)) THEN End(k) ELSE Goto(k, "block")
  /\ UNCHANGED <<tables, net, bounds, withdrawn, doubt>>

-----------------------------------------------------------------------------
(* Transitions                                                             *)

SetFollow(s, p, id)  == follows' = [follows EXCEPT ![s][p] = id]
SetPending(s, p, id) == pending' = [pending EXCEPT ![s][p] = id]

(* establish_follow                                                        *)
Establish(k) ==
  /\ At(k, "establish")
  /\ SetFollow(Server(k), Subject(k), slot[k].id)
  /\ Finish(k)
  /\ UNCHANGED <<pending, blocks, net, bounds, withdrawn, doubt>>

(* record_pending; a handler answers nothing yet.                          *)
Request(k) ==
  /\ At(k, "request")
  /\ SetPending(Server(k), Subject(k), slot[k].id)
  /\ IF slot[k].op = "follow" THEN Goto(k, "send") ELSE End(k)
  /\ UNCHANGED <<follows, blocks, net, bounds, withdrawn, doubt>>

(* remove_follow: for Undo(Follow) too, which leaves a request pending.    *)
RemoveFollow(k) ==
  /\ At(k, "remove")
  /\ SetFollow(Server(k), Subject(k), None)
  /\ withdrawn' = IF slot[k].op = "UndoFollow" /\ pending[Server(k)][Subject(k)] # None
                    THEN withdrawn \cup {Subject(k)} ELSE withdrawn
  /\ Finish(k)
  /\ UNCHANGED <<pending, blocks, net, bounds, doubt>>

TakenNothing(k) == UNCHANGED pending

(* take_request: DELETE ... RETURNING                                      *)
Taken(k) == SetPending(Server(k), Subject(k), None)

Withdraw(k) ==
  /\ At(k, "withdraw")
  /\ Taken(k)
  /\ IF pending[Server(k)][Subject(k)] = None THEN End(k) ELSE Goto(k, "send")
  /\ UNCHANGED <<follows, blocks, net, bounds, withdrawn, doubt>>

(* take_request's answer: an Accept or Reject is matched by the two actors *)
(* alone, so it may answer an older Follow than the one now pending.       *)
Take(k) ==
  LET s   == Server(k)
      row == pending[s][Subject(k)] IN
  /\ At(k, "take")
  /\ Taken(k)
  /\ doubt' = IF slot[k].op \in {"Accept", "Reject"} /\ row \notin {None, slot[k].id}
                THEN doubt \cup {Both(k)} ELSE doubt
  /\ \/ row = None /\ End(k)
     \/ /\ row # None
        /\ slot[k].op \in {"authorize", "Accept"}
        /\ slot' = [slot EXCEPT ![k].step = "promote", ![k].id = row]
        /\ UNCHANGED raced
     \/ /\ row # None
        /\ slot[k].op = "reject"
        /\ slot' = [slot EXCEPT ![k].step = "send", ![k].id = row]
        /\ UNCHANGED raced
     \/ row # None /\ slot[k].op = "Reject" /\ End(k)
  /\ UNCHANGED <<follows, blocks, net, bounds, withdrawn>>

(* promote_pending's second statement, outside any transaction.            *)
Promote(k) ==
  /\ At(k, "promote")
  /\ SetFollow(Server(k), Subject(k), slot[k].id)
  /\ IF slot[k].op = "authorize" THEN Goto(k, "send") ELSE End(k)
  /\ UNCHANGED <<pending, blocks, net, bounds, withdrawn, doubt>>

BlockRow(k) == IF slot[k].op \in {"block", "unblock"} THEN Mine(k) ELSE Theirs(k)

ClearedTheirs(k, rows) == [rows EXCEPT ![Theirs(k)] = None]

Cleared(k, rows) == [rows EXCEPT ![Mine(k)] = None, ![Theirs(k)] = None]

(* block_and_clear: one transaction for apply_block and mark_blocked_by,   *)
(* which gives the row an empty activity_id; block ids are left out.       *)
Block(k) ==
  LET s == Server(k) IN
  /\ At(k, "block")
  /\ follows' = [follows EXCEPT ![s] = Cleared(k, @)]
  /\ pending' = [pending EXCEPT ![s] = Cleared(k, @)]
  /\ blocks' = [blocks EXCEPT ![s] = @ \cup {BlockRow(k)}]
  /\ Finish(k)
  /\ UNCHANGED <<net, bounds, withdrawn, doubt>>

(* take_block, or delete_block for a received Undo(Block).                 *)
Unblock(k) ==
  /\ At(k, "unblock")
  /\ blocks' = [blocks EXCEPT ![Server(k)] = @ \ {BlockRow(k)}]
  /\ IF HasBlock(Server(k), BlockRow(k)) THEN Finish(k) ELSE End(k)
  /\ UNCHANGED <<follows, pending, net, bounds, withdrawn, doubt>>

-----------------------------------------------------------------------------
(* Delivery                                                                *)

Refuses(x, y) == HasBlock(home[x], <<x, y>>)

SendAndStay(k) ==
  /\ At(k, "send")
  /\ ~SameServer(Me(k), You(k))
  /\ net' = [net EXCEPT ![Mine(k)] = Append(@, [type |-> Sends[slot[k].op], id |-> slot[k].id])]
  /\ UNCHANGED <<tables, slot, bounds, history>>

(* DeliveryService::deliver to another server enqueues the activity.       *)
SendRemote(k) ==
  /\ At(k, "send")
  /\ ~SameServer(Me(k), You(k))
  /\ net' = [net EXCEPT ![Mine(k)] = Append(@, [type |-> Sends[slot[k].op], id |-> slot[k].id])]
  /\ End(k)
  /\ UNCHANGED <<tables, bounds, withdrawn, doubt>>

(* On the same server process_local judges the block and runs the handler  *)
(* in this task; a refusal fails the call, whose write stays.              *)
SendLocal(k) ==
  /\ At(k, "send")
  /\ SameServer(Me(k), You(k))
  /\ IF Refuses(You(k), Me(k))
       THEN End(k)
       ELSE Begin(k, Sends[slot[k].op], You(k), Me(k), slot[k].id)
  /\ UNCHANGED <<tables, net, bounds, withdrawn, doubt>>

(* A Follow and a Block of the same two accounts pass each other.          *)
Crossing(p, i) ==
  \E there \in ToSet(net[<<p[2], p[1]>>]) : {net[p][i].type, there.type} = {"Follow", "Block"}

Arrive(k, p, i) ==
  /\ ~Busy(k)
  /\ net' = [net EXCEPT ![p] = RemoveAt(@, i)]
  /\ Begin(k, net[p][i].type, p[2], p[1], net[p][i].id)
  /\ doubt' = IF i = 1 /\ ~Crossing(p, i) THEN doubt ELSE doubt \cup {{p[1], p[2]}}
  /\ UNCHANGED <<tables, bounds, withdrawn>>

ReceiveUnjudged(k, p, i) == Arrive(k, p, i)

(* Any queued activity may arrive next; while the recipient blocks the     *)
(* sender the inbox answers 403 and the queue keeps trying.                *)
Receive(k, p, i) == ~Refuses(p[2], p[1]) /\ Arrive(k, p, i)

(* Delivery gives an activity up.                                          *)
Lose(p, i) ==
  /\ lost < MaxLosses
  /\ lost' = lost + 1
  /\ net' = [net EXCEPT ![p] = RemoveAt(@, i)]
  /\ doubt' = doubt \cup {{p[1], p[2]}}
  /\ UNCHANGED <<tables, slot, calls, lastId, faults, raced, withdrawn>>

(* A database error ends the task, or its process dies, before any step.   *)
Die(k) ==
  /\ Busy(k)
  /\ faults < MaxFaults
  /\ faults' = faults + 1
  /\ End(k)
  /\ doubt' = doubt \cup {Both(k)}
  /\ UNCHANGED <<tables, net, calls, lastId, lost, withdrawn>>

Init ==
  /\ home \in Placements
  /\ follows = [s \in Servers |-> [p \in Pairs |-> None]]
  /\ pending = [s \in Servers |-> [p \in Pairs |-> None]]
  /\ blocks = [s \in Servers |-> {}]
  /\ net = [p \in Pairs |-> <<>>]
  /\ slot = [k \in Slots |-> FreeSlot]
  /\ calls = 0 /\ lastId = 0 /\ lost = 0 /\ faults = 0
  /\ raced = {} /\ withdrawn = {} /\ doubt = {}

TaskStep(k) ==
  \/ LookUp(k) \/ ReadFollow(k) \/ HandleFollow(k) \/ ReadUnfollow(k) \/ ReadBlock(k)
  \/ Establish(k) \/ Request(k) \/ RemoveFollow(k) \/ Withdraw(k)
  \/ Take(k) \/ Promote(k) \/ Block(k) \/ Unblock(k)
  \/ SendRemote(k) \/ SendLocal(k)

Next ==
  /\ \/ \E k \in Slots :
          \/ \E op \in ApiOps, p \in Pairs : Call(k, op, p[1], p[2])
          \/ TaskStep(k)
          \/ \E p \in Pairs : \E i \in DOMAIN net[p] : Receive(k, p, i)
          \/ Die(k)
     \/ \E p \in Pairs : \E i \in DOMAIN net[p] : Lose(p, i)
  /\ UNCHANGED home

Spec == Init /\ [][Next]_vars

-----------------------------------------------------------------------------
Quiet(x, y) ==
  /\ net[<<x, y>>] = <<>> /\ net[<<y, x>>] = <<>>
  /\ \A k \in Slots : Busy(k) => Both(k) # {x, y}

Raced(s, x, y) == <<s, {x, y}>> \in raced

(* How server s sees x's wish to follow y.                                 *)
Standing(s, x, y) ==
  CASE follows[s][<<x, y>>] # None -> "following"
    [] follows[s][<<x, y>>] = None /\ pending[s][<<x, y>>] # None -> "requested"
    [] OTHER -> "none"

(* The Follow/Accept/Reject/Undo/Block exchanges bring both servers to the *)
(* same view of a follow and of a block, however the calls of the two      *)
(* sides cross, unless an activity was lost, overtaken or answered an      *)
(* older Follow, a Follow and a Block crossed, follow went by a wrong copy *)
(* of the locked flag, a task failed or overlapped another one on the same *)
(* two accounts, or a pending request was withdrawn.                       *)
SidesAgree ==
  \A x, y \in Accounts :
    /\ x # y /\ ~SameServer(x, y) /\ Quiet(x, y)
    /\ {x, y} \notin doubt /\ <<x, y>> \notin withdrawn
    /\ \A s \in Servers : ~Raced(s, x, y)
    => /\ Standing(home[x], x, y) = Standing(home[y], x, y)
       /\ HasBlock(home[x], <<x, y>>) <=> HasBlock(home[y], <<x, y>>)

(* A server never holds a follow and a pending request of the same pair,   *)
(* unless two tasks on the pair overlapped there: load_states' two reads   *)
(* and the write that follows are separate, and no constraint spans both   *)
(* tables.                                                                 *)
OneRowPerPair ==
  \A s \in Servers : \A p \in Pairs :
    follows[s][p] # None /\ pending[s][p] # None => Raced(s, p[1], p[2])

(* Block judgment and block_and_clear: an actor of another server that x   *)
(* blocks is neither follower nor requester of x, unless a task was already*)
(* under way when the block was set.                                       *)
BlockCutsFollower ==
  \A x, y \in Accounts :
    /\ x # y /\ ~SameServer(x, y)
    /\ HasBlock(home[x], <<x, y>>)
    /\ ~Raced(home[x], x, y)
    => Standing(home[x], y, x) = "none"

(* On one server the sending task has already written the tables that the  *)
(* handler of its activity reads, so the handler adds and removes no row,  *)
(* unless another task on the two accounts overlapped.                     *)
LocalEchoIsIdle ==
  [][\A k \in Slots :
       /\ Busy(k) /\ slot[k].op \in Handlers /\ slot'[k] # slot[k]
       /\ SameServer(Me(k), You(k)) /\ ~Raced(Server(k), Me(k), You(k))
       => /\ UNCHANGED <<follows, pending>>
          /\ \A s \in Servers : \A p \in Pairs : HasBlock(s, p)' = HasBlock(s, p)]_vars

(* requirements.md, 5.5 and 7: blocks have the same result on one server as*)
(* between two, so on one server too the account y that x blocks does not  *)
(* become a follower of x.                                                 *)
BlockedCannotFollow ==
  \A x, y \in Accounts :
    /\ x # y /\ Quiet(x, y)
    /\ HasBlock(home[x], <<x, y>>)
    /\ ~Raced(home[x], x, y)
    => Standing(home[x], y, x) = "none"

(* requirements.md, 1.4 and 7: a follow and its Undo make a round trip, so *)
(* once an Undo(Follow) has been handled the withdrawn request is pending  *)
(* on neither server.                                                      *)
WithdrawnRequestsEnd ==
  \A p \in withdrawn :
    LET x == p[1]
        y == p[2] IN
    /\ Quiet(x, y) /\ {x, y} \notin doubt
    /\ \A s \in Servers : ~Raced(s, x, y)
    => Standing(home[x], x, y) = Standing(home[y], x, y)
=============================================================================
