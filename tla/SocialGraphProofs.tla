------------------------- MODULE SocialGraphProofs -------------------------
(***************************************************************************)
(* IInv: what a task has read or written stays true until its next step,   *)
(* unless another task on the same two accounts overlapped it on the same  *)
(* server.  Ledger: every activity is paid for by a call.  Knowledge and   *)
(* Sides, at the end, relate the tables of two servers to the activities   *)
(* between them.                                                           *)
(***************************************************************************)
EXTENDS SocialGraph, FiniteSetTheorems, SequenceTheorems, TLAPS

(* The operations and handlers that reach a step.                          *)
MayBeAt(op, step) ==
  \/ step = "look" /\ op \in {"follow", "unfollow", "Follow"}
  \/ step = "read" /\ op \in {"follow", "unfollow", "block", "Follow"}
  \/ step \in {"establish", "request"} /\ op \in {"follow", "Follow"}
  \/ step = "remove" /\ op \in {"unfollow", "UndoFollow"}
  \/ step = "withdraw" /\ op = "unfollow"
  \/ step = "block" /\ op \in {"block", "Block"}
  \/ step = "unblock" /\ op \in {"unblock", "UndoBlock"}
  \/ step = "take" /\ op \in {"authorize", "reject", "Accept", "Reject"}
  \/ step = "promote" /\ op \in {"authorize", "Accept"}
  \/ step = "send" /\ op \in {"follow", "unfollow", "block", "unblock", "authorize",
                              "reject", "Follow"}

Errand == {t \in [op : ApiOps \cup Handlers, step : Steps, me : Accounts, you : Accounts,
                  id : Nat] : t.me # t.you /\ MayBeAt(t.op, t.step)}

Activity == [type : Handlers, id : Nat]

Tables == [Servers -> [Pairs -> Nat]]

(* The types without the bounds, with what a task looks like.              *)
Typed ==
  /\ home \in [Accounts -> Servers]
  /\ follows \in Tables
  /\ pending \in Tables
  /\ blocks \in [Servers -> SUBSET Pairs]
  /\ net \in [Pairs -> Seq(Activity)]
  /\ slot \in [Slots -> Errand \cup {FreeSlot}]
  /\ lastId \in Nat

(* The network carries nothing between accounts of one server.             *)
NetIsRemote == \A p \in Pairs : net[p] # <<>> => ~SameServer(p[1], p[2])

(* Two tasks on the same accounts and server leave their mark.             *)
OverlapsAreNoted ==
  \A j, k \in Slots :
    /\ j # k /\ Busy(j) /\ Busy(k)
    /\ Both(j) = Both(k) /\ Server(j) = Server(k)
    => <<Server(k), Both(k)>> \in raced

NoRow(s, p) == follows[s][p] = None /\ pending[s][p] = None

Related(s, p) == ~NoRow(s, p)

(* What task k has established about the row it is going to write.         *)
WriteIsFounded(k) ==
  /\ At(k, "read") /\ slot[k].op # "block" => follows[Server(k)][Subject(k)] = None
  /\ At(k, "establish") \/ At(k, "promote") => pending[Server(k)][Subject(k)] = None
  /\ At(k, "request") => follows[Server(k)][Subject(k)] = None
  /\ At(k, "withdraw") => follows[Server(k)][Mine(k)] = None
  /\ slot[k].op = "follow" /\ (At(k, "establish") \/ At(k, "request")) => slot[k].id # None

(* No task that lets an account of another server follow survives a block. *)
BlockStopsTask(k) ==
  ~SameServer(Me(k), You(k)) /\ HasBlock(Server(k), Mine(k)) =>
    /\ slot[k].op = "Follow" => At(k, "send")
    /\ slot[k].op = "authorize" => ~At(k, "promote")

(* What an operation that is about to send has written.                    *)
Written(s, p, q, op) ==
  CASE op = "follow"   -> Related(s, p)
    [] op = "unfollow" -> follows[s][p] = None
    [] op = "block"    -> HasBlock(s, p) /\ NoRow(s, p) /\ NoRow(s, q)
    [] op = "unblock"  -> ~HasBlock(s, p)
    [] op \in {"authorize", "reject"} -> pending[s][q] = None
    [] OTHER -> FALSE

(* What the handler of its activity then finds, on the same server.        *)
Found(s, p, q, op, step) ==
  CASE op = "Follow" -> step \in {"look", "read"} /\ Related(s, q)
    [] op \in {"Accept", "Reject"} -> step = "take" /\ pending[s][p] = None
    [] op = "Block" -> HasBlock(s, q) /\ NoRow(s, p) /\ NoRow(s, q)
    [] op = "UndoFollow" -> follows[s][q] = None
    [] op = "UndoBlock"  -> ~HasBlock(s, q)
    [] OTHER -> TRUE

EchoIsForeseen(k) ==
  SameServer(Me(k), You(k)) =>
    /\ At(k, "send") => Written(Server(k), Mine(k), Theirs(k), slot[k].op)
    /\ Found(Server(k), Mine(k), Theirs(k), slot[k].op, slot[k].step)

Undisturbed(k) == Busy(k) /\ ~Raced(Server(k), Me(k), You(k))

TaskIsSound(k) ==
  Undisturbed(k) => WriteIsFounded(k) /\ BlockStopsTask(k) /\ EchoIsForeseen(k)

TasksAreSound == \A k \in Slots : TaskIsSound(k)

(* OneRowPerPair and BlockCutsFollower, of one pair on one server.         *)
PairIsSound(s, p) ==
  ~Raced(s, p[1], p[2]) =>
    /\ follows[s][p] = None \/ pending[s][p] = None
    /\ s = home[p[2]] /\ s # home[p[1]] /\ HasBlock(s, <<p[2], p[1]>>) => NoRow(s, p)

PairsAreSound == \A s \in Servers : \A p \in Pairs : PairIsSound(s, p)

IInv == Typed /\ NetIsRemote /\ OverlapsAreNoted /\ TasksAreSound /\ PairsAreSound

-----------------------------------------------------------------------------
(* A busy slot, field by field.                                            *)
LEMMA TaskFields ==
  ASSUME Typed, NEW k \in Slots, Busy(k)
  PROVE  /\ slot[k] \in Errand
         /\ Me(k) \in Accounts /\ You(k) \in Accounts /\ Me(k) # You(k)
         /\ Server(k) \in Servers
         /\ Mine(k) \in Pairs /\ Theirs(k) \in Pairs /\ Mine(k) # Theirs(k)
         /\ Subject(k) \in {Mine(k), Theirs(k)}
         /\ MayBeAt(slot[k].op, slot[k].step)
         /\ slot[k].id \in Nat
<1>1. slot[k] \in Errand
  BY DEF Typed, Busy
<1>2. Me(k) \in Accounts /\ You(k) \in Accounts /\ Me(k) # You(k) /\ slot[k].id \in Nat
      /\ MayBeAt(slot[k].op, slot[k].step)
  BY <1>1 DEF Errand, Me, You
<1>3. Server(k) \in Servers
  BY <1>2 DEF Typed, Server
<1>4. Mine(k) \in Pairs /\ Theirs(k) \in Pairs /\ Mine(k) # Theirs(k)
  BY <1>2 DEF Pairs, Mine, Theirs
<1> QED BY <1>1, <1>2, <1>3, <1>4 DEF Subject

(* A task is never the free slot.                                          *)
LEMMA ErrandsAreBusy == \A t \in Errand : t # FreeSlot
BY DEF Errand, Steps, FreeSlot

(* A slot that is given a new step, or freed, or a new task.               *)
LEMMA SlotsStayTyped ==
  ASSUME Typed, NEW k \in Slots, NEW t \in Errand \cup {FreeSlot}, slot' = [slot EXCEPT ![k] = t]
  PROVE  /\ slot' \in [Slots -> Errand \cup {FreeSlot}]
         /\ slot'[k] = t
         /\ \A j \in Slots \ {k} : slot'[j] = slot[j]
BY DEF Typed

IsWritten(U, T, s, p, id) == U = [T EXCEPT ![s][p] = id]

LEMMA RowsStayTyped ==
  ASSUME NEW T \in Tables, NEW U, NEW s \in Servers, NEW p \in Pairs, NEW id \in Nat,
         IsWritten(U, T, s, p, id)
  PROVE  /\ U \in Tables
         /\ U[s][p] = id
         /\ \A r \in Servers : \A q \in Pairs : r # s \/ q # p => U[r][q] = T[r][q]
<1> DEFINE row == [T[s] EXCEPT ![p] = id]
<1>1. T[s] \in [Pairs -> Nat]
  BY DEF Tables
<1>2. row \in [Pairs -> Nat] /\ row[p] = id /\ \A q \in Pairs : q # p => row[q] = T[s][q]
  BY <1>1
<1>3. U = [T EXCEPT ![s] = row]
  BY <1>1 DEF IsWritten
<1> HIDE DEF row
<1> QED BY <1>2, <1>3 DEF Tables

LEMMA ActivitiesStayTyped ==
  ASSUME NEW q \in Seq(Activity), NEW i \in DOMAIN q
  PROVE  RemoveAt(q, i) \in Seq(Activity) /\ (RemoveAt(q, i) # <<>> => q # <<>>)
BY DEF RemoveAt

-----------------------------------------------------------------------------
(* Steps of a running task                                                 *)

RowsKept(s, p) ==
  /\ follows'[s][p] = follows[s][p]
  /\ pending'[s][p] = pending[s][p]
  /\ p \in blocks'[s] <=> p \in blocks[s]

RowsStayOutside(k) ==
  \A s \in Servers : \A p \in Pairs :
    s # Server(k) \/ p \notin {Mine(k), Theirs(k)} => RowsKept(s, p)

(* The step of a task that leaves its slot with t, for the same accounts.  *)
Moves(k, t) ==
  /\ Busy(k)
  /\ home' = home
  /\ raced \subseteq raced'
  /\ t \in Errand \cup {FreeSlot}
  /\ slot' = [slot EXCEPT ![k] = t]
  /\ t = FreeSlot \/ ({t.me, t.you} = Both(k) /\ home[t.me] = Server(k))
  /\ lastId' \in Nat
  /\ follows' \in Tables /\ pending' \in Tables /\ blocks' \in [Servers -> SUBSET Pairs]
  /\ net' \in [Pairs -> Seq(Activity)]
  /\ RowsStayOutside(k)

(* The pairs of the task are sound after its step.                         *)
LeavesPairsSound(k) ==
  \A s \in Servers : \A p \in Pairs :
    s = Server(k) /\ p \in {Mine(k), Theirs(k)} => PairIsSound(s, p)'

LEMMA TaskKept ==
  ASSUME NEW j \in Slots, Typed, Busy(j), home' = home, raced \subseteq raced', slot'[j] = slot[j],
         RowsKept(Server(j), Mine(j)), RowsKept(Server(j), Theirs(j)), TaskIsSound(j)
  PROVE  TaskIsSound(j)'
<1>1. Server(j)' = Server(j) /\ Mine(j)' = Mine(j) /\ Theirs(j)' = Theirs(j) /\ Me(j)' = Me(j)
      /\ You(j)' = You(j) /\ Subject(j)' = Subject(j) /\ Subject(j) \in {Mine(j), Theirs(j)}
  BY DEF Server, Mine, Theirs, Me, You, Subject
<1>2. SameServer(Me(j), You(j))' <=> SameServer(Me(j), You(j))
  BY DEF SameServer, Me, You
<1>3. \A step : At(j, step)' <=> At(j, step)
  BY DEF At, Busy
<1>4. Undisturbed(j)' => Undisturbed(j)
  BY <1>1 DEF Undisturbed, Raced, Busy
<1> DEFINE s == Server(j)
           p == Mine(j)
           q == Theirs(j)
<1>5. WriteIsFounded(j) => WriteIsFounded(j)'
  BY <1>1, <1>3 DEF WriteIsFounded, RowsKept
<1>6. BlockStopsTask(j) => BlockStopsTask(j)'
  BY <1>1, <1>2, <1>3 DEF BlockStopsTask, RowsKept, HasBlock
<1>7. EchoIsForeseen(j) => EchoIsForeseen(j)'
  BY <1>1, <1>2, <1>3 DEF EchoIsForeseen, Written, Found, RowsKept, HasBlock, NoRow, Related
<1> QED BY <1>4, <1>5, <1>6, <1>7 DEF TaskIsSound

LEMMA PairKept ==
  ASSUME NEW s \in Servers, NEW p \in Pairs, home' = home, raced \subseteq raced',
         RowsKept(s, p), RowsKept(s, <<p[2], p[1]>>), PairIsSound(s, p)
  PROVE  PairIsSound(s, p)'
BY DEF PairIsSound, RowsKept, HasBlock, NoRow, Raced

LEMMA MovesKeepIInv ==
  ASSUME IInv, NEW k \in Slots, NEW t, Moves(k, t), NetIsRemote',
         TaskIsSound(k)', LeavesPairsSound(k)
  PROVE  IInv'
<1>0. Typed /\ OverlapsAreNoted /\ TasksAreSound /\ PairsAreSound /\ Busy(k)
  BY DEF IInv, Moves
<1>1. Typed'
  BY <1>0 DEF Typed, Moves
<1>2. \A j \in Slots \ {k} : slot'[j] = slot[j]
  BY <1>0 DEF Typed, Moves
<1>3. slot'[k] = t
  BY <1>0 DEF Typed, Moves
<1>4. OverlapsAreNoted'
  <2> SUFFICES ASSUME NEW i \in Slots, NEW j \in Slots, i # j, Busy(i)', Busy(j)',
                      Both(i)' = Both(j)', Server(i)' = Server(j)'
               PROVE  <<Server(j), Both(j)>>' \in raced'
    BY DEF OverlapsAreNoted
  <2>1. \A h \in Slots : Busy(h)' => Busy(h) /\ Both(h)' = Both(h) /\ Server(h)' = Server(h)
    <3> TAKE h \in Slots
    <3>1. CASE h # k
      BY <3>1, <1>2 DEF Moves, Busy, Both, Server, Me, You
    <3>2. CASE h = k
      BY <3>2, <1>0, <1>3 DEF Moves, Busy, Both, Server, Me, You
    <3> QED BY <3>1, <3>2
  <2>2. Busy(i) /\ Busy(j) /\ Both(i) = Both(j) /\ Server(i) = Server(j)
    BY <2>1
  <2>3. <<Server(j), Both(j)>> \in raced
    BY <2>2, <1>0 DEF OverlapsAreNoted
  <2> QED BY <2>1, <2>3 DEF Moves
<1>5. TasksAreSound'
  <2> SUFFICES ASSUME NEW j \in Slots, j # k, Busy(j)' PROVE TaskIsSound(j)'
    BY DEF TasksAreSound, TaskIsSound, Undisturbed
  <2>1. Busy(j) /\ slot'[j] = slot[j] /\ home' = home /\ raced \subseteq raced'
    BY <1>2 DEF Busy, Moves
  <2>2. CASE <<Server(j), Both(j)>> \in raced
    <3>1. <<Server(j), Both(j)>>' \in raced'
      BY <2>1, <2>2 DEF Server, Both, Me, You
    <3> QED BY <3>1 DEF TaskIsSound, Undisturbed, Raced, Both
  <2>3. CASE <<Server(j), Both(j)>> \notin raced
    <3>1. Server(j) # Server(k) \/ Both(j) # Both(k)
      BY <2>1, <2>3, <1>0 DEF OverlapsAreNoted
    <3>2. Server(j) # Server(k) \/ (Mine(j) \notin {Mine(k), Theirs(k)} /\ Theirs(j) \notin {Mine(k), Theirs(k)})
      BY <3>1 DEF Both, Mine, Theirs
    <3>3. Server(j) \in Servers /\ Mine(j) \in Pairs /\ Theirs(j) \in Pairs
      BY <1>0, <2>1, TaskFields
    <3>4. RowsKept(Server(j), Mine(j)) /\ RowsKept(Server(j), Theirs(j))
      BY <3>2, <3>3 DEF Moves, RowsStayOutside
    <3> QED BY <1>0, <2>1, <3>4, TaskKept DEF TasksAreSound
  <2> QED BY <2>2, <2>3
<1>6. PairsAreSound'
  <2> SUFFICES ASSUME NEW s \in Servers, NEW p \in Pairs PROVE PairIsSound(s, p)'
    BY DEF PairsAreSound
  <2>1. CASE s = Server(k) /\ p \in {Mine(k), Theirs(k)}
    BY <2>1 DEF LeavesPairsSound
  <2>2. CASE s # Server(k) \/ p \notin {Mine(k), Theirs(k)}
    <3>1. <<p[2], p[1]>> \in Pairs /\ p = <<p[1], p[2]>>
      BY DEF Pairs
    <3>2. s # Server(k) \/ <<p[2], p[1]>> \notin {Mine(k), Theirs(k)}
      BY <2>2, <3>1 DEF Mine, Theirs
    <3>3. RowsKept(s, p) /\ RowsKept(s, <<p[2], p[1]>>)
      BY <2>2, <3>1, <3>2 DEF Moves, RowsStayOutside
    <3> QED BY <1>0, <3>3, PairKept DEF PairsAreSound, Moves
  <2> QED BY <2>1, <2>2
<1> QED BY <1>1, <1>4, <1>5, <1>6 DEF IInv

(* Task k at another of its steps.                                         *)
Onward(k, step, id) ==
  [op |-> slot[k].op, step |-> step, me |-> Me(k), you |-> You(k), id |-> id]

LEMMA ErrandGoesOn ==
  ASSUME NEW t \in Errand, NEW step, NEW id
  PROVE  [t EXCEPT !.step = step, !.id = id]
           = [op |-> t.op, step |-> step, me |-> t.me, you |-> t.you, id |-> id]
<1> DEFINE u == [op |-> t.op, step |-> step, me |-> t.me, you |-> t.you, id |-> t.id]
<1>1. [t EXCEPT !.step = step] = u
  BY DEF Errand
<1>2. [u EXCEPT !.id = id] = [op |-> t.op, step |-> step, me |-> t.me, you |-> t.you, id |-> id]
  OBVIOUS
<1>3. [t EXCEPT !.step = step, !.id = id] = [[t EXCEPT !.step = step] EXCEPT !.id = id]
  BY DEF Errand
<1> HIDE DEF u
<1> QED BY <1>1, <1>2, <1>3

LEMMA GotoIsOnward ==
  ASSUME Typed, NEW k \in Slots, Busy(k), NEW step, Goto(k, step)
  PROVE  slot' = [slot EXCEPT ![k] = Onward(k, step, slot[k].id)] /\ raced' = raced
<1>1. slot[k] \in Errand
  BY DEF Typed, Busy
<1>2. [slot[k] EXCEPT !.step = step] = Onward(k, step, slot[k].id)
  BY <1>1 DEF Errand, Onward, Me, You
<1> QED BY <1>2 DEF Goto, Typed

LEMMA OnwardFits ==
  ASSUME Typed, NEW k \in Slots, Busy(k), NEW step \in Steps, NEW id \in Nat, MayBeAt(slot[k].op, step)
  PROVE  /\ Onward(k, step, id) \in Errand
         /\ Onward(k, step, id) # FreeSlot
         /\ {Onward(k, step, id).me, Onward(k, step, id).you} = Both(k)
         /\ home[Onward(k, step, id).me] = Server(k)
<1>1. Onward(k, step, id) \in Errand
  BY TaskFields DEF Onward, Errand
<1> QED BY <1>1, ErrandsAreBusy DEF Onward, Both, Server

(* How the task sees itself after the step.                                *)
LEMMA OnwardView ==
  ASSUME Typed, NEW k \in Slots, NEW step, NEW id, Moves(k, Onward(k, step, id))
  PROVE  /\ slot'[k].op = slot[k].op /\ slot'[k].id = id /\ slot'[k].step = step
         /\ \A st : At(k, st)' => st = step
         /\ Server(k)' = Server(k) /\ Mine(k)' = Mine(k) /\ Theirs(k)' = Theirs(k)
         /\ Subject(k)' = Subject(k)
         /\ SameServer(Me(k), You(k))' <=> SameServer(Me(k), You(k))
         /\ Undisturbed(k)' => Undisturbed(k)
         /\ Server(k) \in Servers /\ Mine(k) \in Pairs /\ Theirs(k) \in Pairs
<1>1. slot'[k] = Onward(k, step, id)
  BY DEF Moves, Typed
<1>2. slot'[k].op = slot[k].op /\ slot'[k].id = id /\ slot'[k].step = step
      /\ slot'[k].me = Me(k) /\ slot'[k].you = You(k) /\ home' = home
  BY <1>1 DEF Onward, Moves
<1>3. Me(k)' = Me(k) /\ You(k)' = You(k)
  BY <1>2 DEF Me, You
<1>4. Server(k)' = Server(k) /\ Mine(k)' = Mine(k) /\ Theirs(k)' = Theirs(k)
      /\ Subject(k)' = Subject(k)
  BY <1>2, <1>3 DEF Server, Mine, Theirs, Subject
<1>5. SameServer(Me(k), You(k))' <=> SameServer(Me(k), You(k))
  BY <1>2, <1>3 DEF SameServer
<1>6. \A st : At(k, st)' => st = step
  BY <1>2 DEF At
<1>7. Undisturbed(k)' => Undisturbed(k)
  BY <1>3, <1>4 DEF Undisturbed, Raced, Moves
<1> QED BY <1>2, <1>4, <1>5, <1>6, <1>7, TaskFields DEF Moves

LEMMA FreedIsSound ==
  ASSUME Typed, NEW k \in Slots, Moves(k, FreeSlot)
  PROVE  TaskIsSound(k)'
BY DEF Moves, Typed, TaskIsSound, Undisturbed, Busy

LEMMA EndMoves ==
  ASSUME Typed, NEW k \in Slots, Busy(k), End(k), home' = home, lastId' = lastId, UNCHANGED <<tables, net>>
  PROVE  Moves(k, FreeSlot)
BY DEF Moves, Typed, End, tables, RowsStayOutside, RowsKept

(* Nothing was written: the pairs are as they were.                        *)
LEMMA ReadersLeavePairs ==
  ASSUME IInv, NEW k \in Slots, Busy(k), home' = home, raced \subseteq raced', UNCHANGED tables
  PROVE  LeavesPairsSound(k)
<1> SUFFICES ASSUME NEW s \in Servers, NEW p \in Pairs
             PROVE  PairIsSound(s, p)'
  BY DEF LeavesPairsSound
<1> QED BY PairKept DEF IInv, PairsAreSound, RowsKept, tables

-----------------------------------------------------------------------------
(* Steps that read                                                         *)

LEMMA EndKeepsIInv ==
  ASSUME IInv, NEW k \in Slots, Busy(k), End(k), home' = home, UNCHANGED <<tables, net, lastId>>
  PROVE  IInv'
<1>1. Moves(k, FreeSlot)
  BY EndMoves DEF IInv
<1>2. TaskIsSound(k)'
  BY <1>1, FreedIsSound DEF IInv
<1>3. NetIsRemote'
  BY DEF IInv, NetIsRemote, SameServer
<1>4. LeavesPairsSound(k)
  BY ReadersLeavePairs DEF End
<1> QED BY <1>1, <1>2, <1>3, <1>4, MovesKeepIInv

(* A step that reads, decides and goes on.                                 *)
LEMMA OnwardMoves ==
  ASSUME IInv, NEW k \in Slots, Busy(k), NEW step \in Steps, NEW id \in Nat,
         MayBeAt(slot[k].op, step), slot' = [slot EXCEPT ![k] = Onward(k, step, id)],
         home' = home, raced' = raced, lastId' \in Nat, UNCHANGED <<tables, net>>
  PROVE  Moves(k, Onward(k, step, id)) /\ NetIsRemote' /\ LeavesPairsSound(k)
<1>1. Moves(k, Onward(k, step, id))
  BY OnwardFits DEF IInv, Typed, Moves, tables, RowsStayOutside, RowsKept
<1>2. NetIsRemote'
  BY DEF IInv, NetIsRemote, SameServer
<1>3. LeavesPairsSound(k)
  BY ReadersLeavePairs
<1> QED BY <1>1, <1>2, <1>3

LEMMA LookUpKeeps ==
  ASSUME IInv, NEW k \in Slots, LookUp(k), home' = home
  PROVE  IInv'
<1>0. /\ Typed /\ Busy(k) /\ At(k, "look") /\ UNCHANGED <<tables, net, lastId>>
      /\ slot[k].op \in {"follow", "unfollow", "Follow"}
  BY TaskFields DEF IInv, LookUp, At, bounds, MayBeAt
<1>1. CASE End(k)
  BY <1>0, <1>1, EndKeepsIInv
<1>2. ASSUME NEW step \in {"read", "remove"}, Goto(k, step),
             step = "read" => follows[Server(k)][Subject(k)] = None,
             step = "remove" => slot[k].op = "unfollow"
      PROVE  IInv'
  <2> DEFINE id == slot[k].id
  <2>1. slot' = [slot EXCEPT ![k] = Onward(k, step, id)] /\ raced' = raced
    BY <1>0, <1>2, GotoIsOnward
  <2>2. id \in Nat
    BY <1>0, TaskFields
  <2> HIDE DEF id
  <2>3. step \in Steps /\ MayBeAt(slot[k].op, step) /\ lastId' \in Nat
    BY <1>0, <1>2 DEF Steps, MayBeAt, Typed
  <2>4. Moves(k, Onward(k, step, id)) /\ NetIsRemote' /\ LeavesPairsSound(k)
    BY <1>0, <2>1, <2>2, <2>3, OnwardMoves
  <2>5. TaskIsSound(k)'
    <3> SUFFICES ASSUME Undisturbed(k)'
                 PROVE  WriteIsFounded(k)' /\ BlockStopsTask(k)' /\ EchoIsForeseen(k)'
      BY DEF TaskIsSound
    <3>1. BlockStopsTask(k) /\ EchoIsForeseen(k)
      BY <1>0, <2>4, OnwardView DEF IInv, TasksAreSound, TaskIsSound
    <3>2. WriteIsFounded(k)'
      BY <1>0, <1>2, <2>4, OnwardView DEF WriteIsFounded, tables
    <3>3. BlockStopsTask(k)'
      <4>1. slot[k].op = "Follow" => ~At(k, "send")
        BY <1>0 DEF At
      <4> QED BY <1>0, <3>1, <4>1, <2>4, OnwardView DEF BlockStopsTask, HasBlock, tables
    <3>4. EchoIsForeseen(k)'
      <4>1. step = "read" \/ slot[k].op = "unfollow"
        BY <1>2
      <4> QED BY <1>0, <1>2, <3>1, <4>1, <2>4, OnwardView
              DEF EchoIsForeseen, Found, Related, NoRow, tables
    <3> QED BY <3>2, <3>3, <3>4
  <2> QED BY <2>4, <2>5, MovesKeepIInv
<1> QED BY <1>1, <1>2 DEF LookUp

LEMMA ReadFollowKeeps ==
  ASSUME IInv, NEW k \in Slots, ReadFollow(k), home' = home
  PROVE  IInv'
<1>0. Typed /\ Busy(k) /\ slot[k].op = "follow" /\ At(k, "read") /\ UNCHANGED <<tables, net>>
  BY DEF IInv, ReadFollow, At
<1>1. CASE pending[Server(k)][Mine(k)] # None
  BY <1>0, <1>1, EndKeepsIInv DEF ReadFollow
<1>2. CASE pending[Server(k)][Mine(k)] = None
  <2>1. PICK flag \in LockedFlags(Me(k), You(k)) :
             /\ lastId' = lastId + 1
             /\ slot' = [slot EXCEPT ![k].step = Decision(Me(k), You(k), flag), ![k].id = lastId + 1]
             /\ raced' = raced
    BY <1>2 DEF ReadFollow
  <2> DEFINE step == Decision(Me(k), You(k), flag)
             id   == lastId + 1
  <2>2. step \in {"establish", "request"} /\ id \in Nat /\ id # None /\ lastId' \in Nat
    BY <1>0, <2>1 DEF Decision, Typed, None
  <2>3. slot[k] \in Errand
    BY <1>0, TaskFields
  <2>a. slot' = [slot EXCEPT ![k].step = step, ![k].id = id]
    BY <2>1
  <2> HIDE DEF step, id
  <2>4. slot' = [slot EXCEPT ![k] = Onward(k, step, id)]
    <3>2. [slot[k] EXCEPT !.step = step, !.id = id] = Onward(k, step, id)
      BY <2>3, ErrandGoesOn DEF Onward, Me, You
    <3>3. slot \in [Slots -> Errand \cup {FreeSlot}]
      BY <1>0 DEF Typed
    <3> QED BY <2>a, <3>2, <3>3
  <2>5. step \in Steps /\ MayBeAt(slot[k].op, step)
    BY <1>0, <2>2 DEF Steps, MayBeAt
  <2>6. Moves(k, Onward(k, step, id)) /\ NetIsRemote' /\ LeavesPairsSound(k)
    BY <1>0, <2>1, <2>2, <2>4, <2>5, OnwardMoves
  <2>7. TaskIsSound(k)'
    <3> SUFFICES ASSUME Undisturbed(k)'
                 PROVE  WriteIsFounded(k)' /\ BlockStopsTask(k)' /\ EchoIsForeseen(k)'
      BY DEF TaskIsSound
    <3>0. WriteIsFounded(k)
      BY <1>0, <2>6, OnwardView DEF IInv, TasksAreSound, TaskIsSound
    <3>2. Subject(k) = Mine(k)
      BY <1>0 DEF Subject
    <3>1. follows'[Server(k)][Mine(k)] = None /\ pending'[Server(k)][Mine(k)] = None
      BY <1>0, <1>2, <3>0, <3>2 DEF WriteIsFounded, tables
    <3>3. WriteIsFounded(k)'
      BY <1>0, <2>2, <2>6, <3>1, <3>2, OnwardView DEF WriteIsFounded
    <3>4. BlockStopsTask(k)'
      BY <1>0, <2>2, <2>6, OnwardView DEF BlockStopsTask
    <3>5. EchoIsForeseen(k)'
      BY <1>0, <2>2, <2>6, OnwardView DEF EchoIsForeseen, Found
    <3> QED BY <3>3, <3>4, <3>5
  <2> QED BY <2>6, <2>7, MovesKeepIInv
<1> QED BY <1>1, <1>2

LEMMA HandleFollowKeeps ==
  ASSUME IInv, NEW k \in Slots, HandleFollow(k), home' = home
  PROVE  IInv'
<1>0. Typed /\ Busy(k) /\ slot[k].op = "Follow" /\ At(k, "read") /\ UNCHANGED <<tables, net, lastId>>
  BY DEF IInv, HandleFollow, At, bounds
<1>1. CASE pending[Server(k)][Theirs(k)] # None
  BY <1>0, <1>1, EndKeepsIInv DEF HandleFollow
<1>2. CASE pending[Server(k)][Theirs(k)] = None
  <2> DEFINE step == Decision(You(k), Me(k), Me(k) \in Locked)
             id   == slot[k].id
  <2>1. Goto(k, step)
    BY <1>2 DEF HandleFollow
  <2>2. step \in {"establish", "request"} /\ id \in Nat
    BY <1>0, TaskFields DEF Decision
  <2>4. slot' = [slot EXCEPT ![k] = Onward(k, step, id)] /\ raced' = raced
    BY <1>0, <2>1, GotoIsOnward
  <2> HIDE DEF step, id
  <2>5. step \in Steps /\ MayBeAt(slot[k].op, step) /\ lastId' \in Nat
    BY <1>0, <2>2 DEF Steps, MayBeAt, Typed
  <2>6. Moves(k, Onward(k, step, id)) /\ NetIsRemote' /\ LeavesPairsSound(k)
    BY <1>0, <2>2, <2>4, <2>5, OnwardMoves
  <2>7. TaskIsSound(k)'
    <3> SUFFICES ASSUME Undisturbed(k)'
                 PROVE  WriteIsFounded(k)' /\ BlockStopsTask(k)' /\ EchoIsForeseen(k)'
      BY DEF TaskIsSound
    <3>0. WriteIsFounded(k) /\ BlockStopsTask(k) /\ EchoIsForeseen(k)
      BY <1>0, <2>6, OnwardView DEF IInv, TasksAreSound, TaskIsSound
    <3>2. Subject(k) = Theirs(k)
      BY <1>0 DEF Subject
    <3>a. NoRow(Server(k), Theirs(k))
      BY <1>0, <1>2, <3>0, <3>2 DEF WriteIsFounded, NoRow
    <3>1. follows'[Server(k)][Theirs(k)] = None /\ pending'[Server(k)][Theirs(k)] = None
      BY <1>0, <3>a DEF NoRow, tables
    <3>3. WriteIsFounded(k)'
      BY <1>0, <2>2, <2>6, <3>1, <3>2, OnwardView DEF WriteIsFounded
    <3>4. BlockStopsTask(k)'
      <4>1. ~At(k, "send")
        BY <1>0 DEF At
      <4> QED BY <1>0, <3>0, <4>1, <2>6, OnwardView DEF BlockStopsTask, HasBlock, tables
    <3>5. ~SameServer(Me(k), You(k))
      BY <1>0, <3>0, <3>a DEF EchoIsForeseen, Found, Related
    <3>6. EchoIsForeseen(k)'
      BY <1>0, <2>6, <3>5, OnwardView DEF EchoIsForeseen
    <3> QED BY <3>3, <3>4, <3>6
  <2> QED BY <2>6, <2>7, MovesKeepIInv
<1> QED BY <1>1, <1>2

LEMMA ReadUnfollowKeeps ==
  ASSUME IInv, NEW k \in Slots, ReadUnfollow(k), home' = home
  PROVE  IInv'
<1>0. /\ Typed /\ Busy(k) /\ slot[k].op = "unfollow" /\ At(k, "read")
      /\ UNCHANGED <<tables, net, lastId>>
  BY DEF IInv, ReadUnfollow, At, bounds
<1>1. CASE End(k)
  BY <1>0, <1>1, EndKeepsIInv
<1>2. CASE Goto(k, "withdraw")
  <2> DEFINE step == "withdraw"
             id   == slot[k].id
  <2>2. id \in Nat
    BY <1>0, TaskFields
  <2>4. slot' = [slot EXCEPT ![k] = Onward(k, step, id)] /\ raced' = raced
    BY <1>0, <1>2, GotoIsOnward
  <2> HIDE DEF id
  <2>5. step \in Steps /\ MayBeAt(slot[k].op, step) /\ lastId' \in Nat
    BY <1>0, <2>2 DEF Steps, MayBeAt, Typed
  <2>6. Moves(k, Onward(k, step, id)) /\ NetIsRemote' /\ LeavesPairsSound(k)
    BY <1>0, <2>2, <2>4, <2>5, OnwardMoves
  <2>7. TaskIsSound(k)'
    <3> SUFFICES ASSUME Undisturbed(k)'
                 PROVE  WriteIsFounded(k)' /\ BlockStopsTask(k)' /\ EchoIsForeseen(k)'
      BY DEF TaskIsSound
    <3>1. WriteIsFounded(k)
      BY <1>0, <2>6, OnwardView DEF IInv, TasksAreSound, TaskIsSound
    <3>2. follows[Server(k)][Mine(k)] = None
      BY <1>0, <3>1 DEF WriteIsFounded, Subject
    <3>3. WriteIsFounded(k)'
      BY <1>0, <2>6, <3>2, OnwardView DEF WriteIsFounded, tables
    <3>4. BlockStopsTask(k)'
      BY <1>0, <2>6, OnwardView DEF BlockStopsTask
    <3>6. EchoIsForeseen(k)'
      BY <1>0, <2>6, OnwardView DEF EchoIsForeseen, Found
    <3> QED BY <3>3, <3>4, <3>6
  <2> QED BY <2>6, <2>7, MovesKeepIInv
<1> QED BY <1>1, <1>2 DEF ReadUnfollow

LEMMA ReadBlockKeeps ==
  ASSUME IInv, NEW k \in Slots, ReadBlock(k), home' = home
  PROVE  IInv'
<1>0. Typed /\ Busy(k) /\ slot[k].op = "block" /\ UNCHANGED <<tables, net, lastId>>
  BY DEF IInv, ReadBlock, At, bounds
<1>1. CASE End(k)
  BY <1>0, <1>1, EndKeepsIInv
<1>2. CASE Goto(k, "block")
  <2> DEFINE id == slot[k].id
  <2>2. id \in Nat
    BY <1>0, TaskFields
  <2>4. slot' = [slot EXCEPT ![k] = Onward(k, "block", id)] /\ raced' = raced
    BY <1>0, <1>2, GotoIsOnward
  <2> HIDE DEF id
  <2>5. "block" \in Steps /\ MayBeAt(slot[k].op, "block") /\ lastId' \in Nat
    BY <1>0, <2>2 DEF Steps, MayBeAt, Typed
  <2>6. Moves(k, Onward(k, "block", id)) /\ NetIsRemote' /\ LeavesPairsSound(k)
    BY <1>0, <2>2, <2>4, <2>5, OnwardMoves
  <2>7. TaskIsSound(k)'
    <3>3. WriteIsFounded(k)'
      BY <1>0, <2>6, OnwardView DEF WriteIsFounded
    <3>4. BlockStopsTask(k)'
      BY <1>0, <2>6, OnwardView DEF BlockStopsTask
    <3>6. EchoIsForeseen(k)'
      BY <1>0, <2>6, OnwardView DEF EchoIsForeseen, Found
    <3> QED BY <3>3, <3>4, <3>6 DEF TaskIsSound
  <2> QED BY <2>6, <2>7, MovesKeepIInv
<1> QED BY <1>1, <1>2 DEF ReadBlock

-----------------------------------------------------------------------------
(* Steps that write a follow or a request                                  *)

(* Only the row of the task changes.                                       *)
WritesSubject(k) ==
  /\ follows' \in Tables /\ pending' \in Tables
  /\ blocks' = blocks
  /\ \A s \in Servers : \A p \in Pairs :
       s # Server(k) \/ p # Subject(k) =>
         follows'[s][p] = follows[s][p] /\ pending'[s][p] = pending[s][p]

LEMMA FollowIsWritten ==
  ASSUME Typed, NEW k \in Slots, Busy(k), NEW id \in Nat,
         SetFollow(Server(k), Subject(k), id), UNCHANGED <<pending, blocks>>
  PROVE  WritesSubject(k) /\ follows'[Server(k)][Subject(k)] = id
<1>1. Server(k) \in Servers /\ Subject(k) \in Pairs
  BY TaskFields
<1>2. follows \in Tables /\ pending \in Tables
  BY DEF Typed
<1>3. PICK s \in Servers, p \in Pairs : s = Server(k) /\ p = Subject(k)
  BY <1>1
<1>4. IsWritten(follows', follows, s, p, id)
  BY <1>3 DEF SetFollow, IsWritten
<1>5. /\ follows' \in Tables /\ follows'[s][p] = id
      /\ \A r \in Servers : \A q \in Pairs : r # s \/ q # p => follows'[r][q] = follows[r][q]
  BY <1>2, <1>4, RowsStayTyped
<1> QED BY <1>2, <1>3, <1>5 DEF WritesSubject

LEMMA RequestIsWritten ==
  ASSUME Typed, NEW k \in Slots, Busy(k), NEW id \in Nat,
         SetPending(Server(k), Subject(k), id), UNCHANGED <<follows, blocks>>
  PROVE  WritesSubject(k) /\ pending'[Server(k)][Subject(k)] = id
<1>1. Server(k) \in Servers /\ Subject(k) \in Pairs
  BY TaskFields
<1>2. follows \in Tables /\ pending \in Tables
  BY DEF Typed
<1>3. PICK s \in Servers, p \in Pairs : s = Server(k) /\ p = Subject(k)
  BY <1>1
<1>4. IsWritten(pending', pending, s, p, id)
  BY <1>3 DEF SetPending, IsWritten
<1>5. /\ pending' \in Tables /\ pending'[s][p] = id
      /\ \A r \in Servers : \A q \in Pairs : r # s \/ q # p => pending'[r][q] = pending[r][q]
  <2>1. pending \in Tables
    BY <1>2
  <2> QED BY <2>1, <1>4, RowsStayTyped
<1> QED BY <1>2, <1>3, <1>5 DEF WritesSubject

LEMMA WritersLeavePairs ==
  ASSUME IInv, NEW k \in Slots, Busy(k), home' = home, raced \subseteq raced', WritesSubject(k),
         Undisturbed(k) =>
           follows'[Server(k)][Subject(k)] = None \/ pending'[Server(k)][Subject(k)] = None,
         /\ Undisturbed(k)
         /\ ~SameServer(Me(k), You(k)) /\ HasBlock(Server(k), Mine(k)) /\ Subject(k) = Theirs(k)
         => /\ follows'[Server(k)][Subject(k)] = None
            /\ pending'[Server(k)][Subject(k)] = None
  PROVE  LeavesPairsSound(k)
<1>0. Typed /\ PairsAreSound
  BY DEF IInv
<1>1. Subject(k) \in {Mine(k), Theirs(k)} /\ Mine(k) \in Pairs /\ Theirs(k) \in Pairs
      /\ Server(k) \in Servers
  BY <1>0, TaskFields
<1> SUFFICES ASSUME NEW s \in Servers, NEW p \in Pairs, s = Server(k), p \in {Mine(k), Theirs(k)}
             PROVE  PairIsSound(s, p)'
  BY DEF LeavesPairsSound
<1>2. CASE p # Subject(k)
  <2>1. follows'[s][p] = follows[s][p] /\ pending'[s][p] = pending[s][p] /\ blocks' = blocks
    BY <1>2 DEF WritesSubject
  <2>2. PairIsSound(s, p)
    BY <1>0 DEF PairsAreSound
  <2> QED BY <2>1, <2>2 DEF PairIsSound, HasBlock, NoRow, Raced
<1>3. CASE p = Subject(k) /\ ~Undisturbed(k)
  <2>1. Raced(s, p[1], p[2])
    BY <1>3 DEF Undisturbed, Raced, Mine, Theirs
  <2> QED BY <2>1 DEF PairIsSound, Raced
<1>4. CASE p = Subject(k) /\ Undisturbed(k)
  <2>1. follows'[s][p] = None \/ pending'[s][p] = None
    BY <1>4
  <2>2. ASSUME s = home[p[2]], s # home[p[1]], HasBlock(s, <<p[2], p[1]>>)'
        PROVE  NoRow(s, p)'
    <3>1. p = Theirs(k)
      <4>1. p = Mine(k) => p[1] = Me(k)
        BY DEF Mine
      <4>2. home[Me(k)] = s
        BY DEF Server
      <4> QED BY <2>2, <4>1, <4>2
    <3>2. <<p[2], p[1]>> = Mine(k) /\ ~SameServer(Me(k), You(k))
      BY <2>2, <3>1 DEF Mine, Theirs, SameServer
    <3>3. HasBlock(Server(k), Mine(k))
      BY <2>2, <3>2 DEF HasBlock, WritesSubject
    <3> QED BY <1>4, <3>1, <3>2, <3>3 DEF NoRow
  <2> QED BY <2>1, <2>2 DEF PairIsSound
<1> QED BY <1>2, <1>3, <1>4

(* The step as a whole, given what it wrote.                               *)
LEMMA WriterGoesOn ==
  ASSUME IInv, NEW k \in Slots, Busy(k), NEW step \in Steps, NEW id \in Nat,
         MayBeAt(slot[k].op, step), slot' = [slot EXCEPT ![k] = Onward(k, step, id)],
         home' = home, raced' = raced, WritesSubject(k), UNCHANGED <<net, lastId>>
  PROVE  Moves(k, Onward(k, step, id)) /\ NetIsRemote'
<1>1. Typed /\ Subject(k) \in {Mine(k), Theirs(k)}
  BY TaskFields DEF IInv
<1>2. RowsStayOutside(k)
  BY <1>1 DEF WritesSubject, RowsStayOutside, RowsKept
<1>3. Moves(k, Onward(k, step, id))
  BY <1>1, <1>2, OnwardFits DEF Typed, Moves, WritesSubject
<1>4. NetIsRemote'
  BY DEF IInv, NetIsRemote, SameServer
<1> QED BY <1>3, <1>4

LEMMA WriterEnds ==
  ASSUME IInv, NEW k \in Slots, Busy(k), End(k), home' = home, WritesSubject(k),
         LeavesPairsSound(k), UNCHANGED <<net, lastId>>
  PROVE  IInv'
<1>1. Typed /\ Subject(k) \in {Mine(k), Theirs(k)}
  BY TaskFields DEF IInv
<1>2. RowsStayOutside(k)
  BY <1>1 DEF WritesSubject, RowsStayOutside, RowsKept
<1>3. Moves(k, FreeSlot)
  BY <1>1, <1>2 DEF Typed, Moves, WritesSubject, End
<1>4. NetIsRemote'
  BY DEF IInv, NetIsRemote, SameServer
<1> QED BY <1>1, <1>3, <1>4, FreedIsSound, MovesKeepIInv

(* What soundness gives the task, and what it has left to send.            *)
LEMMA TaskFacts ==
  ASSUME IInv, NEW k \in Slots, Undisturbed(k)
  PROVE  WriteIsFounded(k) /\ BlockStopsTask(k) /\ EchoIsForeseen(k)
BY DEF IInv, TasksAreSound, TaskIsSound

LEMMA SenderIsSound ==
  ASSUME Typed, NEW k \in Slots, NEW id, Moves(k, Onward(k, "send", id)), slot[k].op \in ApiOps,
         Undisturbed(k) => Written(Server(k), Mine(k), Theirs(k), slot[k].op)'
  PROVE  TaskIsSound(k)'
<1> SUFFICES ASSUME Undisturbed(k)'
             PROVE  WriteIsFounded(k)' /\ BlockStopsTask(k)' /\ EchoIsForeseen(k)'
  BY DEF TaskIsSound
<1>1. Undisturbed(k)
  BY OnwardView
<1>2. WriteIsFounded(k)'
  BY OnwardView DEF WriteIsFounded
<1>3. BlockStopsTask(k)'
  BY OnwardView DEF BlockStopsTask, ApiOps
<1>4. EchoIsForeseen(k)'
  BY <1>1, OnwardView DEF EchoIsForeseen, Found, ApiOps
<1> QED BY <1>2, <1>3, <1>4

(* A remote Follow that a handler answers.                                 *)
LEMMA AnswererIsSound ==
  ASSUME Typed, NEW k \in Slots, NEW id, Moves(k, Onward(k, "send", id)), slot[k].op = "Follow",
         Undisturbed(k) => ~SameServer(Me(k), You(k))
  PROVE  TaskIsSound(k)'
<1> SUFFICES ASSUME Undisturbed(k)'
             PROVE  WriteIsFounded(k)' /\ BlockStopsTask(k)' /\ EchoIsForeseen(k)'
  BY DEF TaskIsSound
<1>1. Undisturbed(k) /\ ~SameServer(Me(k), You(k))' /\ At(k, "send")'
  <2>1. slot'[k].step = "send" /\ Busy(k)'
    <3>1. slot'[k] = Onward(k, "send", id)
      BY DEF Moves, Typed
    <3>2. slot'[k].step # FreeSlot.step
      BY <3>1 DEF Onward, FreeSlot
    <3> QED BY <3>1, <3>2, OnwardView DEF Busy
  <2> QED BY <2>1, OnwardView DEF At
<1>2. WriteIsFounded(k)'
  BY OnwardView DEF WriteIsFounded
<1>3. BlockStopsTask(k)'
  BY <1>1, OnwardView DEF BlockStopsTask
<1>4. EchoIsForeseen(k)'
  BY <1>1 DEF EchoIsForeseen
<1> QED BY <1>2, <1>3, <1>4

LEMMA EstablishKeeps ==
  ASSUME IInv, NEW k \in Slots, Establish(k), home' = home
  PROVE  IInv'
<1>0. Typed /\ Busy(k) /\ At(k, "establish") /\ slot[k].op \in {"follow", "Follow"}
      /\ slot[k].id \in Nat /\ UNCHANGED <<pending, blocks, net, lastId>>
  <2>1. Typed /\ Busy(k) /\ At(k, "establish") /\ UNCHANGED <<pending, blocks, net, lastId>>
    BY DEF IInv, Establish, At, bounds
  <2>2. slot[k].step = "establish"
    BY <2>1 DEF At
  <2> QED BY <2>1, <2>2, TaskFields DEF MayBeAt
<1> DEFINE id == slot[k].id
<1>1. WritesSubject(k) /\ follows'[Server(k)][Subject(k)] = id
  BY <1>0, FollowIsWritten DEF Establish
<1>2. Goto(k, "send")
  BY <1>0 DEF Establish, Finish, Sends
<1>3. slot' = [slot EXCEPT ![k] = Onward(k, "send", id)] /\ raced' = raced
  BY <1>0, <1>2, GotoIsOnward
<1> HIDE DEF id
<1>4. "send" \in Steps /\ MayBeAt(slot[k].op, "send") /\ id \in Nat
  BY <1>0 DEF Steps, MayBeAt, id
<1>5. Moves(k, Onward(k, "send", id)) /\ NetIsRemote'
  BY <1>0, <1>1, <1>3, <1>4, WriterGoesOn
<1>6. Subject(k) \in {Mine(k), Theirs(k)} /\ Server(k) \in Servers
  BY <1>0, TaskFields
<1>7. Undisturbed(k) => pending'[Server(k)][Subject(k)] = None
  BY <1>0, TaskFacts DEF WriteIsFounded
<1>8. LeavesPairsSound(k)
  <2>1. Undisturbed(k) /\ ~SameServer(Me(k), You(k)) /\ HasBlock(Server(k), Mine(k)) =>
          slot[k].op = "follow"
    BY <1>0, TaskFacts DEF BlockStopsTask, At
  <2>2. slot[k].op = "follow" => Subject(k) # Theirs(k)
    BY <1>0, TaskFields DEF Subject
  <2> QED BY <1>0, <1>1, <1>3, <1>7, <2>1, <2>2, WritersLeavePairs
<1>9. TaskIsSound(k)'
  <2>1. CASE slot[k].op = "follow"
    <3>1. Subject(k) = Mine(k)
      BY <2>1 DEF Subject
    <3>2. Undisturbed(k) => id # None
      BY <1>0, <2>1, TaskFacts DEF WriteIsFounded, id
    <3>3. Undisturbed(k) => Written(Server(k), Mine(k), Theirs(k), slot[k].op)'
      BY <1>0, <1>1, <1>5, <2>1, <3>1, <3>2, OnwardView DEF Written, Related, NoRow
    <3> QED BY <1>0, <1>5, <2>1, <3>3, SenderIsSound DEF ApiOps
  <2>2. CASE slot[k].op = "Follow"
    <3>1. Undisturbed(k) => ~SameServer(Me(k), You(k))
      BY <1>0, <2>2, TaskFacts DEF EchoIsForeseen, Found, At
    <3> QED BY <1>0, <1>5, <2>2, <3>1, AnswererIsSound
  <2> QED BY <1>0, <2>1, <2>2
<1> QED BY <1>5, <1>8, <1>9, MovesKeepIInv

LEMMA RequestKeeps ==
  ASSUME IInv, NEW k \in Slots, Request(k), home' = home
  PROVE  IInv'
<1>0. Typed /\ Busy(k) /\ At(k, "request") /\ slot[k].op \in {"follow", "Follow"}
      /\ slot[k].id \in Nat /\ UNCHANGED <<follows, blocks, net, lastId>>
  <2>1. Typed /\ Busy(k) /\ At(k, "request") /\ UNCHANGED <<follows, blocks, net, lastId>>
    BY DEF IInv, Request, At, bounds
  <2>2. slot[k].step = "request"
    BY <2>1 DEF At
  <2> QED BY <2>1, <2>2, TaskFields DEF MayBeAt
<1> DEFINE id == slot[k].id
<1>1. WritesSubject(k) /\ pending'[Server(k)][Subject(k)] = id
  BY <1>0, RequestIsWritten DEF Request
<1>6. Subject(k) \in {Mine(k), Theirs(k)} /\ Server(k) \in Servers
  BY <1>0, TaskFields
<1>7. Undisturbed(k) => follows'[Server(k)][Subject(k)] = None
  BY <1>0, TaskFacts DEF WriteIsFounded
<1>8. LeavesPairsSound(k)
  <2>1. Undisturbed(k) /\ ~SameServer(Me(k), You(k)) /\ HasBlock(Server(k), Mine(k)) =>
          slot[k].op = "follow"
    BY <1>0, TaskFacts DEF BlockStopsTask, At
  <2>2. slot[k].op = "follow" => Subject(k) # Theirs(k)
    BY <1>0, TaskFields DEF Subject
  <2>3. raced' = raced
    BY DEF Request, Goto, End
  <2> QED BY <1>0, <1>1, <1>7, <2>1, <2>2, <2>3, WritersLeavePairs
<1>9. CASE slot[k].op = "follow"
  <2>2. Goto(k, "send")
    BY <1>9 DEF Request
  <2>3. slot' = [slot EXCEPT ![k] = Onward(k, "send", id)] /\ raced' = raced
    BY <1>0, <2>2, GotoIsOnward
  <2> HIDE DEF id
  <2>4. "send" \in Steps /\ MayBeAt(slot[k].op, "send") /\ id \in Nat
    BY <1>0 DEF Steps, MayBeAt, id
  <2>5. Moves(k, Onward(k, "send", id)) /\ NetIsRemote'
    BY <1>0, <1>1, <2>3, <2>4, WriterGoesOn
  <2>6. TaskIsSound(k)'
    <3>1. Subject(k) = Mine(k)
      BY <1>9 DEF Subject
    <3>2. Undisturbed(k) => id # None
      BY <1>0, <1>9, TaskFacts DEF WriteIsFounded, id
    <3>3. Undisturbed(k) => Written(Server(k), Mine(k), Theirs(k), slot[k].op)'
      BY <1>0, <1>1, <2>5, <1>9, <3>1, <3>2, OnwardView DEF Written, Related, NoRow
    <3> QED BY <1>0, <2>5, <1>9, <3>3, SenderIsSound DEF ApiOps
  <2> QED BY <2>5, <1>8, <2>6, MovesKeepIInv
<1>10. CASE slot[k].op # "follow"
  BY <1>0, <1>1, <1>8, <1>10, WriterEnds DEF Request
<1> QED BY <1>9, <1>10

LEMMA RemoveFollowKeeps ==
  ASSUME IInv, NEW k \in Slots, RemoveFollow(k), home' = home
  PROVE  IInv'
<1>0. Typed /\ Busy(k) /\ At(k, "remove") /\ slot[k].op \in {"unfollow", "UndoFollow"}
      /\ slot[k].id \in Nat /\ UNCHANGED <<pending, blocks, net, lastId>>
  <2>1. Typed /\ Busy(k) /\ At(k, "remove") /\ UNCHANGED <<pending, blocks, net, lastId>>
    BY DEF IInv, RemoveFollow, At, bounds
  <2>2. slot[k].step = "remove"
    BY <2>1 DEF At
  <2> QED BY <2>1, <2>2, TaskFields DEF MayBeAt
<1> DEFINE id == slot[k].id
<1>1. WritesSubject(k) /\ follows'[Server(k)][Subject(k)] = None
  BY <1>0, FollowIsWritten DEF RemoveFollow, None
<1>2. raced' = raced
  BY DEF RemoveFollow, Finish, Goto, End
<1>3. LeavesPairsSound(k)
  <2>1. Undisturbed(k) /\ ~SameServer(Me(k), You(k)) /\ HasBlock(Server(k), Mine(k)) /\ Subject(k) = Theirs(k)
        => pending'[Server(k)][Subject(k)] = None
    <3> SUFFICES ASSUME Undisturbed(k), ~SameServer(Me(k), You(k)), HasBlock(Server(k), Mine(k)),
                        Subject(k) = Theirs(k)
                 PROVE  pending'[Server(k)][Subject(k)] = None
      OBVIOUS
    <3>1. Server(k) \in Servers /\ Theirs(k) \in Pairs
      BY <1>0, TaskFields
    <3>2. PairIsSound(Server(k), Theirs(k))
      BY <3>1 DEF IInv, PairsAreSound
    <3>3. ~Raced(Server(k), Theirs(k)[1], Theirs(k)[2])
      BY DEF Undisturbed, Raced, Theirs
    <3>4. Server(k) = home[Theirs(k)[2]] /\ Server(k) # home[Theirs(k)[1]]
          /\ <<Theirs(k)[2], Theirs(k)[1]>> = Mine(k)
      BY DEF Server, Theirs, Mine, SameServer
    <3> QED BY <1>0, <3>2, <3>3, <3>4 DEF PairIsSound, NoRow
  <2> QED BY <1>0, <1>1, <1>2, <2>1, WritersLeavePairs
<1>4. CASE slot[k].op = "unfollow"
  <2>2. Goto(k, "send")
    BY <1>4 DEF RemoveFollow, Finish, Sends
  <2>3. slot' = [slot EXCEPT ![k] = Onward(k, "send", id)]
    BY <1>0, <2>2, GotoIsOnward
  <2> HIDE DEF id
  <2>4. "send" \in Steps /\ MayBeAt(slot[k].op, "send") /\ id \in Nat
    BY <1>0, <1>4 DEF Steps, MayBeAt, id
  <2>5. Moves(k, Onward(k, "send", id)) /\ NetIsRemote'
    BY <1>0, <1>1, <1>2, <2>3, <2>4, WriterGoesOn
  <2>6. TaskIsSound(k)'
    <3>1. Subject(k) = Mine(k)
      BY <1>4 DEF Subject
    <3>2. Written(Server(k), Mine(k), Theirs(k), slot[k].op)'
      BY <1>0, <1>1, <2>5, <1>4, <3>1, OnwardView DEF Written
    <3> QED BY <1>0, <2>5, <1>4, <3>2, SenderIsSound DEF ApiOps
  <2> QED BY <2>5, <1>3, <2>6, MovesKeepIInv
<1>5. CASE slot[k].op = "UndoFollow"
  <2>1. End(k)
    BY <1>5 DEF RemoveFollow, Finish, Sends
  <2> QED BY <1>0, <1>1, <1>3, <2>1, WriterEnds
<1> QED BY <1>0, <1>4, <1>5

LEMMA WithdrawKeeps ==
  ASSUME IInv, NEW k \in Slots, Withdraw(k), home' = home
  PROVE  IInv'
<1>0. Typed /\ Busy(k) /\ At(k, "withdraw") /\ slot[k].op = "unfollow"
      /\ slot[k].id \in Nat /\ UNCHANGED <<follows, blocks, net, lastId>>
  <2>1. Typed /\ Busy(k) /\ At(k, "withdraw") /\ UNCHANGED <<follows, blocks, net, lastId>>
    BY DEF IInv, Withdraw, At, bounds
  <2>2. slot[k].step = "withdraw"
    BY <2>1 DEF At
  <2> QED BY <2>1, <2>2, TaskFields DEF MayBeAt
<1> DEFINE id == slot[k].id
<1>1. WritesSubject(k) /\ pending'[Server(k)][Subject(k)] = None
  BY <1>0, RequestIsWritten DEF Withdraw, Taken, None
<1>2. raced' = raced
  BY DEF Withdraw, Goto, End
<1>a. Subject(k) = Mine(k) /\ Mine(k) # Theirs(k)
  BY <1>0, TaskFields DEF Subject
<1>3. LeavesPairsSound(k)
  BY <1>0, <1>1, <1>2, <1>a, WritersLeavePairs
<1>4. CASE Goto(k, "send")
  <2>3. slot' = [slot EXCEPT ![k] = Onward(k, "send", id)]
    BY <1>0, <1>4, GotoIsOnward
  <2> HIDE DEF id
  <2>4. "send" \in Steps /\ MayBeAt(slot[k].op, "send") /\ id \in Nat
    BY <1>0 DEF Steps, MayBeAt, id
  <2>5. Moves(k, Onward(k, "send", id)) /\ NetIsRemote'
    BY <1>0, <1>1, <1>2, <2>3, <2>4, WriterGoesOn
  <2>6. TaskIsSound(k)'
    <3>1. Undisturbed(k) => follows[Server(k)][Mine(k)] = None
      BY <1>0, TaskFacts DEF WriteIsFounded
    <3>2. Undisturbed(k) => Written(Server(k), Mine(k), Theirs(k), slot[k].op)'
      BY <1>0, <2>5, <3>1, OnwardView DEF Written
    <3> QED BY <1>0, <2>5, <3>2, SenderIsSound DEF ApiOps
  <2> QED BY <2>5, <1>3, <2>6, MovesKeepIInv
<1>5. CASE End(k)
  BY <1>0, <1>1, <1>3, <1>5, WriterEnds
<1> QED BY <1>4, <1>5 DEF Withdraw

LEMMA PromoteKeeps ==
  ASSUME IInv, NEW k \in Slots, Promote(k), home' = home
  PROVE  IInv'
<1>0. Typed /\ Busy(k) /\ At(k, "promote") /\ slot[k].op \in {"authorize", "Accept"}
      /\ slot[k].id \in Nat /\ UNCHANGED <<pending, blocks, net, lastId>>
  <2>1. Typed /\ Busy(k) /\ At(k, "promote") /\ UNCHANGED <<pending, blocks, net, lastId>>
    BY DEF IInv, Promote, At, bounds
  <2>2. slot[k].step = "promote"
    BY <2>1 DEF At
  <2> QED BY <2>1, <2>2, TaskFields DEF MayBeAt
<1> DEFINE id == slot[k].id
<1>1. WritesSubject(k) /\ follows'[Server(k)][Subject(k)] = id
  BY <1>0, FollowIsWritten DEF Promote
<1>2. raced' = raced
  BY DEF Promote, Goto, End
<1>3. Undisturbed(k) => pending'[Server(k)][Subject(k)] = None
  BY <1>0, TaskFacts DEF WriteIsFounded
<1>4. LeavesPairsSound(k)
  <2>1. Undisturbed(k) /\ ~SameServer(Me(k), You(k)) /\ HasBlock(Server(k), Mine(k)) =>
          slot[k].op = "Accept"
    BY <1>0, TaskFacts DEF BlockStopsTask
  <2>2. slot[k].op = "Accept" => Subject(k) # Theirs(k)
    BY <1>0, TaskFields DEF Subject
  <2> QED BY <1>0, <1>1, <1>2, <1>3, <2>1, <2>2, WritersLeavePairs
<1>5. CASE slot[k].op = "authorize"
  <2>2. Goto(k, "send")
    BY <1>5 DEF Promote
  <2>3. slot' = [slot EXCEPT ![k] = Onward(k, "send", id)]
    BY <1>0, <2>2, GotoIsOnward
  <2> HIDE DEF id
  <2>4. "send" \in Steps /\ MayBeAt(slot[k].op, "send") /\ id \in Nat
    BY <1>0, <1>5 DEF Steps, MayBeAt, id
  <2>5. Moves(k, Onward(k, "send", id)) /\ NetIsRemote'
    BY <1>0, <1>1, <1>2, <2>3, <2>4, WriterGoesOn
  <2>6. TaskIsSound(k)'
    <3>1. Subject(k) = Theirs(k)
      BY <1>5 DEF Subject
    <3>2. Undisturbed(k) => Written(Server(k), Mine(k), Theirs(k), slot[k].op)'
      BY <1>0, <1>3, <2>5, <1>5, <3>1, OnwardView DEF Written
    <3> QED BY <1>0, <2>5, <1>5, <3>2, SenderIsSound DEF ApiOps
  <2> QED BY <2>5, <1>4, <2>6, MovesKeepIInv
<1>6. CASE slot[k].op # "authorize"
  BY <1>0, <1>1, <1>4, <1>6, WriterEnds DEF Promote
<1> QED BY <1>5, <1>6

LEMMA TakeKeeps ==
  ASSUME IInv, NEW k \in Slots, Take(k), home' = home
  PROVE  IInv'
<1> DEFINE row == pending[Server(k)][Subject(k)]
<1>0. Typed /\ Busy(k) /\ At(k, "take") /\ slot[k].op \in {"authorize", "reject", "Accept", "Reject"}
      /\ row \in Nat /\ UNCHANGED <<follows, blocks, net, lastId>>
  <2>1. Typed /\ Busy(k) /\ At(k, "take") /\ UNCHANGED <<follows, blocks, net, lastId>>
    BY DEF IInv, Take, At, bounds
  <2>2. slot[k].step = "take"
    BY <2>1 DEF At
  <2>3. row \in Nat
    <3>1. Server(k) \in Servers /\ Subject(k) \in Pairs
      BY <2>1, TaskFields
    <3>2. pending \in [Servers -> [Pairs -> Nat]]
      BY <2>1 DEF Typed, Tables
    <3> QED BY <3>1, <3>2
  <2> QED BY <2>1, <2>2, <2>3, TaskFields DEF MayBeAt
<1>1. WritesSubject(k) /\ pending'[Server(k)][Subject(k)] = None
  BY <1>0, RequestIsWritten DEF Take, Taken, None
<1>2. raced' = raced
  BY DEF Take, Goto, End
<1>3. Server(k) \in Servers /\ Mine(k) \in Pairs /\ Theirs(k) \in Pairs /\ Mine(k) # Theirs(k)
      /\ slot[k] \in Errand
  BY <1>0, TaskFields
<1>4. Undisturbed(k) /\ ~SameServer(Me(k), You(k)) /\ HasBlock(Server(k), Mine(k))
      => NoRow(Server(k), Theirs(k))
  <2> SUFFICES ASSUME Undisturbed(k), ~SameServer(Me(k), You(k)), HasBlock(Server(k), Mine(k))
               PROVE  NoRow(Server(k), Theirs(k))
    OBVIOUS
  <2>2. PairIsSound(Server(k), Theirs(k))
    BY <1>3 DEF IInv, PairsAreSound
  <2>3. ~Raced(Server(k), Theirs(k)[1], Theirs(k)[2])
    BY DEF Undisturbed, Raced, Theirs
  <2>4. Server(k) = home[Theirs(k)[2]] /\ Server(k) # home[Theirs(k)[1]]
        /\ <<Theirs(k)[2], Theirs(k)[1]>> = Mine(k)
    BY DEF Server, Theirs, Mine, SameServer
  <2> QED BY <2>2, <2>3, <2>4 DEF PairIsSound
<1>5. LeavesPairsSound(k)
  BY <1>0, <1>1, <1>2, <1>4, WritersLeavePairs DEF NoRow
<1>6. CASE End(k)
  BY <1>0, <1>1, <1>5, <1>6, WriterEnds
<1>7. ASSUME NEW step \in {"promote", "send"}, slot' = [slot EXCEPT ![k].step = step, ![k].id = row]
      PROVE  slot' = [slot EXCEPT ![k] = Onward(k, step, row)]
  <2> HIDE DEF row
  <2>1. [slot[k] EXCEPT !.step = step, !.id = row] = Onward(k, step, row)
    BY <1>3, ErrandGoesOn DEF Onward, Me, You
  <2>2. slot' = [slot EXCEPT ![k] = [slot[k] EXCEPT !.step = step, !.id = row]]
    BY <1>7
  <2> QED BY <2>1, <2>2
<1>8. CASE /\ row # None /\ slot[k].op \in {"authorize", "Accept"}
           /\ slot' = [slot EXCEPT ![k].step = "promote", ![k].id = row]
  <2>1. slot' = [slot EXCEPT ![k] = Onward(k, "promote", row)]
    BY <1>7, <1>8
  <2>2. row # None /\ row \in Nat
    BY <1>0, <1>8
  <2>3. Undisturbed(k) => WriteIsFounded(k) /\ BlockStopsTask(k) /\ EchoIsForeseen(k)
    BY TaskFacts
  <2>4. slot[k].op = "authorize" => Subject(k) = Theirs(k)
    BY <1>8 DEF Subject
  <2>5. slot[k].op = "Accept" => Subject(k) = Mine(k)
    BY <1>8 DEF Subject
  <2>6. /\ Undisturbed(k) /\ slot[k].op = "authorize" /\ ~SameServer(Me(k), You(k))
        => ~HasBlock(Server(k), Mine(k))
    BY <2>2, <2>4, <1>4 DEF NoRow
  <2>7. Undisturbed(k) /\ slot[k].op = "Accept" => ~SameServer(Me(k), You(k))
    BY <2>2, <2>3, <2>5 DEF EchoIsForeseen, Found
  <2> HIDE DEF row
  <2>8. "promote" \in Steps /\ MayBeAt(slot[k].op, "promote")
    BY <1>8 DEF Steps, MayBeAt
  <2>9. Moves(k, Onward(k, "promote", row)) /\ NetIsRemote'
    BY <1>0, <1>1, <1>2, <2>1, <2>2, <2>8, WriterGoesOn
  <2>10. TaskIsSound(k)'
    <3> SUFFICES ASSUME Undisturbed(k)'
                 PROVE  WriteIsFounded(k)' /\ BlockStopsTask(k)' /\ EchoIsForeseen(k)'
      BY DEF TaskIsSound
    <3>1. Undisturbed(k)
      BY <1>0, <2>9, OnwardView
    <3>2. WriteIsFounded(k)'
      BY <1>0, <1>1, <2>9, OnwardView DEF WriteIsFounded
    <3>3. BlockStopsTask(k)'
      <4>1. ~(SameServer(Me(k), You(k))') /\ HasBlock(Server(k), Mine(k))' => slot[k].op = "Accept"
        BY <1>0, <1>8, <2>6, <2>9, <3>1, OnwardView DEF HasBlock
      <4> QED BY <1>0, <4>1, <2>9, OnwardView DEF BlockStopsTask
    <3>4. ~(At(k, "send")') /\ slot'[k].op = slot[k].op
      BY <1>0, <2>9, OnwardView
    <3>5. CASE slot[k].op = "Accept"
      <4>1. ~(SameServer(Me(k), You(k))')
        BY <1>0, <2>7, <2>9, <3>1, <3>5, OnwardView
      <4> QED BY <3>2, <3>3, <4>1 DEF EchoIsForeseen
    <3>6. CASE slot[k].op = "authorize"
      <4>1. EchoIsForeseen(k)'
        BY <3>4, <3>6 DEF EchoIsForeseen, Found
      <4> QED BY <3>2, <3>3, <4>1
    <3> QED BY <1>8, <3>5, <3>6
  <2> QED BY <2>9, <1>5, <2>10, MovesKeepIInv
<1>9. CASE /\ row # None /\ slot[k].op = "reject"
           /\ slot' = [slot EXCEPT ![k].step = "send", ![k].id = row]
  <2>1. slot' = [slot EXCEPT ![k] = Onward(k, "send", row)]
    BY <1>7, <1>9
  <2>2. row \in Nat /\ Subject(k) = Theirs(k)
    BY <1>0, <1>9 DEF Subject
  <2> HIDE DEF row
  <2>8. "send" \in Steps /\ MayBeAt(slot[k].op, "send")
    BY <1>9 DEF Steps, MayBeAt
  <2>9. Moves(k, Onward(k, "send", row)) /\ NetIsRemote'
    BY <1>0, <1>1, <1>2, <2>1, <2>2, <2>8, WriterGoesOn
  <2>10. Written(Server(k), Mine(k), Theirs(k), slot[k].op)'
    BY <1>0, <1>1, <1>9, <2>2, <2>9, OnwardView DEF Written
  <2>11. TaskIsSound(k)'
    BY <1>0, <1>9, <2>9, <2>10, SenderIsSound DEF ApiOps
  <2> QED BY <2>9, <1>5, <2>11, MovesKeepIInv
<1> QED BY <1>6, <1>8, <1>9 DEF Take

-----------------------------------------------------------------------------
(* Blocks                                                                  *)

IsCleared(U, T, k) == U = [T EXCEPT ![Server(k)] = Cleared(k, @)]

LEMMA RowsAreCleared ==
  ASSUME Typed, NEW k \in Slots, Busy(k), NEW T \in Tables, NEW U,
         IsCleared(U, T, k)
  PROVE  /\ U \in Tables
         /\ U[Server(k)][Mine(k)] = None /\ U[Server(k)][Theirs(k)] = None
         /\ \A s \in Servers : \A p \in Pairs :
              s # Server(k) \/ p \notin {Mine(k), Theirs(k)} => U[s][p] = T[s][p]
<1> DEFINE row == [T[Server(k)] EXCEPT ![Mine(k)] = None, ![Theirs(k)] = None]
<1>1. Server(k) \in Servers /\ Mine(k) \in Pairs /\ Theirs(k) \in Pairs /\ Mine(k) # Theirs(k)
  BY TaskFields
<1>2. T[Server(k)] \in [Pairs -> Nat]
  BY <1>1 DEF Tables
<1>3. /\ row \in [Pairs -> Nat] /\ row[Mine(k)] = None /\ row[Theirs(k)] = None
      /\ \A p \in Pairs : p \notin {Mine(k), Theirs(k)} => row[p] = T[Server(k)][p]
  BY <1>1, <1>2 DEF None
<1>4. U = [T EXCEPT ![Server(k)] = row]
  BY DEF IsCleared, Cleared
<1> HIDE DEF row
<1> QED BY <1>1, <1>3, <1>4 DEF Tables

LEMMA BlockKeeps ==
  ASSUME IInv, NEW k \in Slots, Block(k), home' = home
  PROVE  IInv'
<1>0. Typed /\ Busy(k) /\ slot[k].op \in {"block", "Block"} /\ slot[k].id \in Nat
      /\ UNCHANGED <<net, lastId>>
  <2>1. Typed /\ Busy(k) /\ At(k, "block") /\ UNCHANGED <<net, lastId>>
    BY DEF IInv, Block, At, bounds
  <2>2. slot[k].step = "block"
    BY <2>1 DEF At
  <2> QED BY <2>1, <2>2, TaskFields DEF MayBeAt
<1> DEFINE id == slot[k].id
<1>1. Server(k) \in Servers /\ Mine(k) \in Pairs /\ Theirs(k) \in Pairs /\ Mine(k) # Theirs(k)
  BY <1>0, TaskFields
<1>2. /\ follows' \in Tables
      /\ follows'[Server(k)][Mine(k)] = None /\ follows'[Server(k)][Theirs(k)] = None
      /\ \A s \in Servers : \A p \in Pairs :
           s # Server(k) \/ p \notin {Mine(k), Theirs(k)} => follows'[s][p] = follows[s][p]
  <2>1. follows \in Tables /\ IsCleared(follows', follows, k)
    BY <1>0 DEF Typed, Block, IsCleared
  <2> QED BY <1>0, <2>1, RowsAreCleared
<1>3. /\ pending' \in Tables
      /\ pending'[Server(k)][Mine(k)] = None /\ pending'[Server(k)][Theirs(k)] = None
      /\ \A s \in Servers : \A p \in Pairs :
           s # Server(k) \/ p \notin {Mine(k), Theirs(k)} => pending'[s][p] = pending[s][p]
  <2>1. pending \in Tables /\ IsCleared(pending', pending, k)
    BY <1>0 DEF Typed, Block, IsCleared
  <2> QED BY <1>0, <2>1, RowsAreCleared
<1>4. BlockRow(k) \in {Mine(k), Theirs(k)} /\ (slot[k].op = "block" => BlockRow(k) = Mine(k))
  BY DEF BlockRow
<1>5. /\ blocks' \in [Servers -> SUBSET Pairs]
      /\ BlockRow(k) \in blocks'[Server(k)]
      /\ \A s \in Servers : \A p \in Pairs :
           s # Server(k) \/ p \notin {Mine(k), Theirs(k)} => (p \in blocks'[s] <=> p \in blocks[s])
  <2>1. blocks \in [Servers -> SUBSET Pairs]
    BY <1>0 DEF Typed
  <2>2. blocks' = [blocks EXCEPT ![Server(k)] = blocks[Server(k)] \cup {BlockRow(k)}]
    BY DEF Block
  <2> QED BY <1>1, <1>4, <2>1, <2>2
<1>6. RowsStayOutside(k)
  BY <1>2, <1>3, <1>5 DEF RowsStayOutside, RowsKept
<1>7. raced' = raced /\ lastId' \in Nat /\ net' \in [Pairs -> Seq(Activity)]
  BY <1>0 DEF Block, Finish, Goto, End, Typed
<1>8. NetIsRemote'
  BY <1>0 DEF IInv, NetIsRemote, SameServer
<1>9. LeavesPairsSound(k)
  <2> SUFFICES ASSUME NEW s \in Servers, NEW p \in Pairs, s = Server(k), p \in {Mine(k), Theirs(k)}
               PROVE  PairIsSound(s, p)'
    BY DEF LeavesPairsSound
  <2>1. follows'[s][p] = None /\ pending'[s][p] = None
    BY <1>2, <1>3
  <2> QED BY <2>1 DEF PairIsSound, NoRow
<1>10. CASE slot[k].op = "block"
  <2>2. Goto(k, "send")
    BY <1>10 DEF Block, Finish, Sends
  <2>3. slot' = [slot EXCEPT ![k] = Onward(k, "send", id)]
    BY <1>0, <2>2, GotoIsOnward
  <2> HIDE DEF id
  <2>4. "send" \in Steps /\ MayBeAt(slot[k].op, "send") /\ id \in Nat
    BY <1>0, <1>10 DEF Steps, MayBeAt, id
  <2>5. Moves(k, Onward(k, "send", id))
    BY <1>0, <1>2, <1>3, <1>5, <1>6, <1>7, <2>3, <2>4, OnwardFits DEF Moves
  <2>6. Written(Server(k), Mine(k), Theirs(k), slot[k].op)'
    BY <1>0, <1>2, <1>3, <1>4, <1>5, <1>10, <2>5, OnwardView DEF Written, NoRow, HasBlock
  <2>7. TaskIsSound(k)'
    BY <1>0, <1>10, <2>5, <2>6, SenderIsSound DEF ApiOps
  <2> QED BY <1>8, <1>9, <2>5, <2>7, MovesKeepIInv
<1>11. CASE slot[k].op = "Block"
  <2>1. End(k)
    BY <1>11 DEF Block, Finish, Sends
  <2>2. Moves(k, FreeSlot)
    BY <1>0, <1>2, <1>3, <1>5, <1>6, <1>7, <2>1 DEF Moves, End
  <2> QED BY <1>0, <1>8, <1>9, <2>2, FreedIsSound, MovesKeepIInv
<1> QED BY <1>0, <1>10, <1>11

LEMMA UnblockKeeps ==
  ASSUME IInv, NEW k \in Slots, Unblock(k), home' = home
  PROVE  IInv'
<1>0. Typed /\ Busy(k) /\ slot[k].op \in {"unblock", "UndoBlock"} /\ slot[k].id \in Nat
      /\ UNCHANGED <<follows, pending, net, lastId>>
  <2>1. Typed /\ Busy(k) /\ At(k, "unblock") /\ UNCHANGED <<follows, pending, net, lastId>>
    BY DEF IInv, Unblock, At, bounds
  <2>2. slot[k].step = "unblock"
    BY <2>1 DEF At
  <2> QED BY <2>1, <2>2, TaskFields DEF MayBeAt
<1> DEFINE id == slot[k].id
<1>1. Server(k) \in Servers /\ Mine(k) \in Pairs /\ Theirs(k) \in Pairs /\ Mine(k) # Theirs(k)
  BY <1>0, TaskFields
<1>4. BlockRow(k) \in {Mine(k), Theirs(k)} /\ (slot[k].op = "unblock" => BlockRow(k) = Mine(k))
  BY DEF BlockRow
<1>5. /\ blocks' \in [Servers -> SUBSET Pairs]
      /\ BlockRow(k) \notin blocks'[Server(k)]
      /\ \A s \in Servers : blocks'[s] \subseteq blocks[s]
      /\ \A s \in Servers : \A p \in Pairs :
           s # Server(k) \/ p \notin {Mine(k), Theirs(k)} => (p \in blocks'[s] <=> p \in blocks[s])
  <2>1. blocks \in [Servers -> SUBSET Pairs]
    BY <1>0 DEF Typed
  <2>2. blocks' = [blocks EXCEPT ![Server(k)] = blocks[Server(k)] \ {BlockRow(k)}]
    BY DEF Unblock
  <2> QED BY <1>1, <1>4, <2>1, <2>2
<1>6. RowsStayOutside(k)
  BY <1>0, <1>5 DEF RowsStayOutside, RowsKept
<1>7. raced' = raced /\ lastId' \in Nat /\ net' \in [Pairs -> Seq(Activity)]
      /\ follows' \in Tables /\ pending' \in Tables
  BY <1>0 DEF Unblock, Finish, Goto, End, Typed
<1>8. NetIsRemote'
  BY <1>0 DEF IInv, NetIsRemote, SameServer
<1>9. LeavesPairsSound(k)
  <2> SUFFICES ASSUME NEW s \in Servers, NEW p \in Pairs PROVE PairIsSound(s, p)'
    BY DEF LeavesPairsSound
  <2>1. PairIsSound(s, p)
    BY DEF IInv, PairsAreSound
  <2> QED BY <1>0, <1>5, <1>7, <2>1 DEF PairIsSound, NoRow, HasBlock, Raced
<1>10. CASE slot[k].op = "unblock" /\ Goto(k, "send")
  <2>3. slot' = [slot EXCEPT ![k] = Onward(k, "send", id)]
    BY <1>0, <1>10, GotoIsOnward
  <2> HIDE DEF id
  <2>4. "send" \in Steps /\ MayBeAt(slot[k].op, "send") /\ id \in Nat
    BY <1>0, <1>10 DEF Steps, MayBeAt, id
  <2>5. Moves(k, Onward(k, "send", id))
    BY <1>0, <1>5, <1>6, <1>7, <2>3, <2>4, OnwardFits DEF Moves
  <2>6. Written(Server(k), Mine(k), Theirs(k), slot[k].op)'
    BY <1>0, <1>4, <1>5, <1>10, <2>5, OnwardView DEF Written, HasBlock
  <2>7. TaskIsSound(k)'
    BY <1>0, <1>10, <2>5, <2>6, SenderIsSound DEF ApiOps
  <2> QED BY <1>8, <1>9, <2>5, <2>7, MovesKeepIInv
<1>11. CASE End(k)
  <2>2. Moves(k, FreeSlot)
    BY <1>0, <1>5, <1>6, <1>7, <1>11 DEF Moves, End
  <2> QED BY <1>0, <1>8, <1>9, <2>2, FreedIsSound, MovesKeepIInv
<1>12. (slot[k].op = "unblock" /\ Goto(k, "send")) \/ End(k)
  BY <1>0 DEF Unblock, Finish, Sends
<1> QED BY <1>10, <1>11, <1>12

-----------------------------------------------------------------------------
(* Delivery                                                                *)

NewTask(op, x, y, id) == [op |-> op, step |-> FirstStep(op), me |-> x, you |-> y, id |-> id]

LEMMA NewTasksFit ==
  ASSUME NEW op \in ApiOps \cup Handlers, NEW x \in Accounts, NEW y \in Accounts, x # y, NEW id \in Nat
  PROVE  NewTask(op, x, y, id) \in Errand
<1>1. FirstStep(op) \in Steps /\ MayBeAt(op, FirstStep(op))
  BY DEF FirstStep, MayBeAt, Steps, ApiOps, Handlers
<1> QED BY <1>1 DEF NewTask, Errand

(* The first step writes nothing that a read would have had to found.      *)
LEMMA NewTaskIsSound ==
  ASSUME Typed, NEW k \in Slots, NEW op \in ApiOps \cup Handlers,
         NEW x \in Accounts, NEW y \in Accounts, NEW id \in Nat,
         slot'[k] = NewTask(op, x, y, id), home' = home, UNCHANGED tables,
         op \in Handlers /\ SameServer(x, y) /\ <<home[x], {x, y}>> \notin raced' =>
           Found(home[x], <<x, y>>, <<y, x>>, op, FirstStep(op)),
         op = "Follow" => SameServer(x, y) \/ ~HasBlock(home[x], <<x, y>>)
  PROVE  TaskIsSound(k)'
<1> SUFFICES ASSUME Undisturbed(k)'
             PROVE  WriteIsFounded(k)' /\ BlockStopsTask(k)' /\ EchoIsForeseen(k)'
  BY DEF TaskIsSound
<1>1. /\ slot'[k].op = op /\ slot'[k].step = FirstStep(op) /\ Me(k)' = x /\ You(k)' = y
      /\ Server(k)' = home[x] /\ Mine(k)' = <<x, y>> /\ Theirs(k)' = <<y, x>>
  BY DEF NewTask, Me, You, Server, Mine, Theirs
<1>2. /\ FirstStep(op) \in {"look", "read", "take", "block", "remove", "unblock"}
      /\ FirstStep(op) = "read" => op = "block"
  BY DEF FirstStep, ApiOps, Handlers
<1>3. /\ \A st \in {"establish", "promote", "request", "withdraw", "send"} : ~(At(k, st)')
      /\ At(k, "read")' => op = "block"
  BY <1>1, <1>2 DEF At
<1>4. SameServer(Me(k), You(k))' <=> SameServer(x, y)
  BY <1>1 DEF SameServer
<1>5. <<home[x], {x, y}>> \notin raced'
  BY <1>1 DEF Undisturbed, Raced
<1>6. WriteIsFounded(k)'
  BY <1>1, <1>3 DEF WriteIsFounded
<1>7. BlockStopsTask(k)'
  BY <1>1, <1>3, <1>4 DEF BlockStopsTask, HasBlock, tables
<1>8. EchoIsForeseen(k)'
  <2>1. CASE op \in Handlers
    <3>1. SameServer(x, y) => Found(home[x], <<x, y>>, <<y, x>>, op, FirstStep(op))
      BY <1>5, <2>1
    <3>2. SameServer(x, y) => Found(Server(k), Mine(k), Theirs(k), slot[k].op, slot[k].step)'
      BY <1>1, <3>1 DEF Found, Related, NoRow, HasBlock, tables
    <3> QED BY <1>3, <1>4, <3>2 DEF EchoIsForeseen
  <2>2. CASE op \in ApiOps
    <3>1. op \notin {"Follow", "Accept", "Reject", "Block", "UndoFollow", "UndoBlock"}
      BY <2>2 DEF ApiOps
    <3>2. Found(Server(k), Mine(k), Theirs(k), slot[k].op, slot[k].step)'
      BY <1>1, <3>1 DEF Found
    <3> QED BY <1>3, <3>2 DEF EchoIsForeseen
  <2> QED BY <2>1, <2>2
<1> QED BY <1>6, <1>7, <1>8

(* A free slot takes up a call or an activity.                             *)
LEMMA BeginKeepsIInv ==
  ASSUME IInv, NEW k \in Slots, ~Busy(k), NEW op \in ApiOps \cup Handlers,
         NEW x \in Accounts, NEW y \in Accounts, x # y, NEW id \in Nat,
         Begin(k, op, x, y, id), home' = home, UNCHANGED <<tables, lastId>>,
         net' \in [Pairs -> Seq(Activity)], NetIsRemote', TaskIsSound(k)'
  PROVE  IInv'
<1>0. Typed /\ OverlapsAreNoted /\ TasksAreSound /\ PairsAreSound
  BY DEF IInv
<1> DEFINE t == NewTask(op, x, y, id)
<1>1. t \in Errand /\ slot' = [slot EXCEPT ![k] = t]
  BY NewTasksFit DEF Begin, NewTask
<1>2. raced \subseteq raced'
  BY DEF Begin
<1>3. \A j \in Slots \ {k} : Busy(j) /\ Both(j) = {x, y} /\ Server(j) = home[x]
        => <<home[x], {x, y}>> \in raced'
  BY DEF Begin
<1>4. t.me = x /\ t.you = y
  BY DEF NewTask
<1> HIDE DEF t
<1>5. slot'[k] = t /\ \A j \in Slots \ {k} : slot'[j] = slot[j]
  BY <1>0, <1>1 DEF Typed
<1>6. Typed'
  BY <1>0, <1>1 DEF Typed, tables
<1>7. Both(k)' = {x, y} /\ Server(k)' = home[x]
  BY <1>4, <1>5 DEF Both, Server, Me, You
<1>8. \A j \in Slots \ {k} : /\ Busy(j)' <=> Busy(j)
                             /\ Both(j)' = Both(j) /\ Server(j)' = Server(j)
  BY <1>5 DEF Busy, Both, Server, Me, You
<1>9. OverlapsAreNoted'
  <2> SUFFICES ASSUME NEW i \in Slots, NEW j \in Slots, i # j, Busy(i)', Busy(j)',
                      Both(i)' = Both(j)', Server(i)' = Server(j)'
               PROVE  <<Server(j), Both(j)>>' \in raced'
    BY DEF OverlapsAreNoted
  <2>1. CASE i # k /\ j # k
    <3>1. <<Server(j), Both(j)>> \in raced
      BY <1>0, <1>8, <2>1 DEF OverlapsAreNoted
    <3> QED BY <1>2, <1>8, <2>1, <3>1
  <2>2. CASE i = k
    <3>1. j # k /\ Busy(j) /\ Both(j) = {x, y} /\ Server(j) = home[x]
      BY <1>7, <1>8, <2>2
    <3> QED BY <1>3, <1>8, <3>1
  <2>3. CASE j = k
    <3>1. i # k /\ Busy(i) /\ Both(i) = {x, y} /\ Server(i) = home[x]
      BY <1>7, <1>8, <2>3
    <3> QED BY <1>3, <1>7, <2>3, <3>1
  <2> QED BY <2>1, <2>2, <2>3
<1>10. TasksAreSound'
  <2> SUFFICES ASSUME NEW j \in Slots, j # k, Busy(j) PROVE TaskIsSound(j)'
    BY <1>8 DEF TasksAreSound, TaskIsSound, Undisturbed
  <2>1. RowsKept(Server(j), Mine(j)) /\ RowsKept(Server(j), Theirs(j))
    BY DEF RowsKept, tables
  <2> QED BY <1>0, <1>2, <1>5, <2>1, TaskKept DEF TasksAreSound
<1>11. PairsAreSound'
  <2> SUFFICES ASSUME NEW s \in Servers, NEW p \in Pairs PROVE PairIsSound(s, p)'
    BY DEF PairsAreSound
  <2>1. RowsKept(s, p) /\ RowsKept(s, <<p[2], p[1]>>)
    BY DEF RowsKept, tables
  <2> QED BY <1>0, <1>2, <2>1, PairKept DEF PairsAreSound
<1> QED BY <1>6, <1>9, <1>10, <1>11 DEF IInv

LEMMA SendRemoteKeeps ==
  ASSUME IInv, NEW k \in Slots, SendRemote(k), home' = home
  PROVE  IInv'
<1>0. Typed /\ Busy(k) /\ slot[k].id \in Nat /\ Mine(k) \in Pairs /\ ~SameServer(Me(k), You(k))
      /\ slot[k].op \in {"follow", "unfollow", "block", "unblock", "authorize", "reject", "Follow"}
      /\ UNCHANGED <<tables, lastId>>
  <2>1. Typed /\ Busy(k) /\ At(k, "send") /\ UNCHANGED <<tables, lastId>> /\ ~SameServer(Me(k), You(k))
    BY DEF IInv, SendRemote, At, bounds
  <2>2. slot[k].step = "send"
    BY <2>1 DEF At
  <2> QED BY <2>1, <2>2, TaskFields DEF MayBeAt
<1> DEFINE sent == [type |-> Sends[slot[k].op], id |-> slot[k].id]
<1>1. sent \in Activity
  BY <1>0 DEF Activity, Sends, Handlers
<1>2. net' = [net EXCEPT ![Mine(k)] = Append(net[Mine(k)], sent)] /\ End(k)
  BY DEF SendRemote
<1> HIDE DEF sent
<1>3. net' \in [Pairs -> Seq(Activity)] /\ \A p \in Pairs : p # Mine(k) => net'[p] = net[p]
  BY <1>0, <1>1, <1>2 DEF Typed
<1>4. NetIsRemote'
  <2> SUFFICES ASSUME NEW p \in Pairs, net'[p] # <<>> PROVE ~(SameServer(p[1], p[2])')
    BY DEF NetIsRemote
  <2>1. CASE p = Mine(k)
    BY <1>0, <2>1 DEF Mine, SameServer
  <2>2. CASE p # Mine(k)
    BY <1>3, <2>2 DEF IInv, NetIsRemote, SameServer
  <2> QED BY <2>1, <2>2
<1>5. Moves(k, FreeSlot)
  BY <1>0, <1>2, <1>3 DEF Moves, Typed, End, tables, RowsStayOutside, RowsKept
<1>6. LeavesPairsSound(k)
  BY <1>0, <1>2, ReadersLeavePairs DEF End
<1> QED BY <1>0, <1>4, <1>5, <1>6, FreedIsSound, MovesKeepIInv

LEMMA SendLocalKeeps ==
  ASSUME IInv, NEW k \in Slots, SendLocal(k), home' = home
  PROVE  IInv'
<1>0. Typed /\ Busy(k) /\ At(k, "send") /\ SameServer(Me(k), You(k))
      /\ slot[k].op \in {"follow", "unfollow", "block", "unblock", "authorize", "reject", "Follow"}
      /\ UNCHANGED <<tables, net, lastId>>
  <2>1. Typed /\ Busy(k) /\ At(k, "send") /\ UNCHANGED <<tables, net, lastId>> /\ SameServer(Me(k), You(k))
    BY DEF IInv, SendLocal, At, bounds
  <2>2. slot[k].step = "send"
    BY <2>1 DEF At
  <2> QED BY <2>1, <2>2, TaskFields DEF MayBeAt
<1>1. CASE End(k)
  BY <1>0, <1>1, EndKeepsIInv
<1>2. CASE Begin(k, Sends[slot[k].op], You(k), Me(k), slot[k].id)
  <2> DEFINE op == Sends[slot[k].op]
             t  == NewTask(op, You(k), Me(k), slot[k].id)
  <2>1. Me(k) \in Accounts /\ You(k) \in Accounts /\ Me(k) # You(k) /\ slot[k].id \in Nat
    BY <1>0, TaskFields
  <2>2. op \in Handlers
    BY <1>0 DEF Sends, Handlers
  <2>3. t \in Errand
    BY <2>1, <2>2, NewTasksFit
  <2>4. slot' = [slot EXCEPT ![k] = t] /\ raced \subseteq raced'
    BY <1>2 DEF Begin, NewTask
  <2>5. home[You(k)] = Server(k)
    BY <1>0 DEF SameServer, Server
  <2>6. {t.me, t.you} = Both(k) /\ home[t.me] = Server(k)
    BY <2>5 DEF NewTask, Both
  <2>7. Moves(k, t)
    <3> HIDE DEF t
    <3> QED BY <1>0, <2>3, <2>4, <2>6 DEF Moves, Typed, tables, RowsStayOutside, RowsKept
  <2>8. <<home[You(k)], {You(k), Me(k)}>> \notin raced' =>
          Found(home[You(k)], <<You(k), Me(k)>>, <<Me(k), You(k)>>, op, FirstStep(op))
    <3> SUFFICES ASSUME <<home[You(k)], {You(k), Me(k)}>> \notin raced'
                 PROVE  Found(Server(k), Theirs(k), Mine(k), op, FirstStep(op))
      BY <2>5 DEF Mine, Theirs
    <3>1. {You(k), Me(k)} = {Me(k), You(k)}
      OBVIOUS
    <3>2. Undisturbed(k)
      BY <1>0, <2>4, <2>5, <3>1 DEF Undisturbed, Raced
    <3>3. Written(Server(k), Mine(k), Theirs(k), slot[k].op)
          /\ Found(Server(k), Mine(k), Theirs(k), slot[k].op, slot[k].step)
      BY <1>0, <3>2, TaskFacts DEF EchoIsForeseen
    <3>4. slot[k].op # "Follow"
      BY <1>0, <3>3 DEF Found, At
    <3> QED BY <1>0, <3>3, <3>4 DEF Written, Found, Sends, FirstStep
  <2>9. slot'[k] = t
    BY <1>0, <2>4 DEF Typed
  <2>10. TaskIsSound(k)'
    <3>1. SameServer(You(k), Me(k))
      BY <1>0 DEF SameServer
    <3> QED BY <1>0, <2>1, <2>2, <2>8, <2>9, <3>1, NewTaskIsSound
  <2>11. NetIsRemote'
    BY <1>0 DEF IInv, NetIsRemote, SameServer
  <2>12. LeavesPairsSound(k)
    BY <1>0, <2>4, ReadersLeavePairs
  <2> HIDE DEF t
  <2> QED BY <2>7, <2>10, <2>11, <2>12, MovesKeepIInv
<1> QED BY <1>1, <1>2 DEF SendLocal

LEMMA CallKeeps ==
  ASSUME IInv, NEW k \in Slots, NEW op \in ApiOps, NEW p \in Pairs, Call(k, op, p[1], p[2]), home' = home
  PROVE  IInv'
<1>1. p[1] \in Accounts /\ p[2] \in Accounts /\ p[1] # p[2]
  BY DEF Pairs
<1>2. PICK x \in Accounts, y \in Accounts : x = p[1] /\ y = p[2] /\ x # y
  BY <1>1
<1>3. Typed /\ ~Busy(k) /\ Begin(k, op, x, y, None) /\ UNCHANGED <<tables, net, lastId>>
  BY <1>2 DEF IInv, Call
<1>4. slot'[k] = NewTask(op, x, y, None)
  BY <1>3 DEF Begin, NewTask, Typed
<1>5. op \in ApiOps \cup Handlers /\ op \notin Handlers /\ op # "Follow" /\ None \in Nat
  BY DEF ApiOps, Handlers, None
<1>6. TaskIsSound(k)'
  BY <1>3, <1>4, <1>5, NewTaskIsSound
<1>7. NetIsRemote' /\ net' \in [Pairs -> Seq(Activity)]
  BY <1>3 DEF IInv, NetIsRemote, SameServer, Typed
<1> QED BY <1>2, <1>3, <1>5, <1>6, <1>7, BeginKeepsIInv

LEMMA RemovalsKeepNet ==
  ASSUME IInv, NEW p \in Pairs, NEW i \in DOMAIN net[p], net' = [net EXCEPT ![p] = RemoveAt(@, i)],
         home' = home
  PROVE  net' \in [Pairs -> Seq(Activity)] /\ NetIsRemote'
<1>1. net \in [Pairs -> Seq(Activity)] /\ NetIsRemote
  BY DEF IInv, Typed
<1>2. RemoveAt(net[p], i) \in Seq(Activity) /\ (RemoveAt(net[p], i) # <<>> => net[p] # <<>>)
  BY <1>1, ActivitiesStayTyped
<1>3. net' = [net EXCEPT ![p] = RemoveAt(net[p], i)]
  OBVIOUS
<1> QED BY <1>1, <1>2, <1>3 DEF NetIsRemote, SameServer

LEMMA ReceiveKeeps ==
  ASSUME IInv, NEW k \in Slots, NEW p \in Pairs, NEW i \in DOMAIN net[p], Receive(k, p, i), home' = home
  PROVE  IInv'
<1>1. p[1] \in Accounts /\ p[2] \in Accounts /\ p[1] # p[2]
  BY DEF Pairs
<1>2. net[p] \in Seq(Activity) /\ net[p] # <<>> /\ net[p][i] \in Activity
  <2>1. net[p] \in Seq(Activity)
    BY DEF IInv, Typed
  <2> QED BY <2>1
<1>3. PICK x \in Accounts, y \in Accounts : x = p[2] /\ y = p[1] /\ x # y
  BY <1>1
<1>4. PICK op \in Handlers, id \in Nat : op = net[p][i].type /\ id = net[p][i].id
  BY <1>2 DEF Activity
<1>5. Typed /\ ~Busy(k) /\ Begin(k, op, x, y, id) /\ UNCHANGED <<tables, lastId>>
      /\ net' = [net EXCEPT ![p] = RemoveAt(@, i)] /\ ~Refuses(x, y)
  BY <1>3, <1>4 DEF IInv, Receive, Arrive, bounds
<1>6. ~SameServer(x, y)
  BY <1>2, <1>3 DEF IInv, NetIsRemote, SameServer
<1>7. slot'[k] = NewTask(op, x, y, id)
  BY <1>5 DEF Begin, NewTask, Typed
<1>8. TaskIsSound(k)'
  BY <1>5, <1>6, <1>7, NewTaskIsSound DEF Refuses
<1>9. NetIsRemote' /\ net' \in [Pairs -> Seq(Activity)]
  BY <1>5, RemovalsKeepNet
<1> QED BY <1>3, <1>5, <1>8, <1>9, BeginKeepsIInv

(* Steps that touch neither slots nor tables.                              *)
LEMMA NetKeepsIInv ==
  ASSUME IInv, home' = home, UNCHANGED <<tables, slot, lastId, raced>>,
         net' \in [Pairs -> Seq(Activity)], NetIsRemote'
  PROVE  IInv'
<1>1. Typed'
  BY DEF IInv, Typed, tables
<1>2. OverlapsAreNoted'
  BY DEF IInv, OverlapsAreNoted, Busy, Both, Server, Me, You
<1>3. TasksAreSound'
  <2> SUFFICES ASSUME NEW j \in Slots, Busy(j) PROVE TaskIsSound(j)'
    BY DEF TasksAreSound, TaskIsSound, Undisturbed, Busy
  <2>1. RowsKept(Server(j), Mine(j)) /\ RowsKept(Server(j), Theirs(j))
    BY DEF RowsKept, tables
  <2> QED BY <2>1, TaskKept DEF IInv, TasksAreSound
<1>4. PairsAreSound'
  <2> SUFFICES ASSUME NEW s \in Servers, NEW p \in Pairs PROVE PairIsSound(s, p)'
    BY DEF PairsAreSound
  <2>1. RowsKept(s, p) /\ RowsKept(s, <<p[2], p[1]>>)
    BY DEF RowsKept, tables
  <2> QED BY <2>1, PairKept DEF IInv, PairsAreSound
<1> QED BY <1>1, <1>2, <1>3, <1>4 DEF IInv

LEMMA DieKeeps ==
  ASSUME IInv, NEW k \in Slots, Die(k), home' = home
  PROVE  IInv'
BY EndKeepsIInv DEF Die

LEMMA LoseKeeps ==
  ASSUME IInv, NEW p \in Pairs, NEW i \in DOMAIN net[p], Lose(p, i), home' = home
  PROVE  IInv'
<1>1. NetIsRemote' /\ net' \in [Pairs -> Seq(Activity)]
  BY RemovalsKeepNet DEF Lose
<1> QED BY <1>1, NetKeepsIInv DEF Lose

LEMMA InitIsSound == Init => IInv
<1> SUFFICES ASSUME Init PROVE IInv
  OBVIOUS
<1>1. Typed
  BY SocialGraphAssumption DEF Init, Typed, Tables, None
<1>2. \A k \in Slots : ~Busy(k)
  BY DEF Init, Busy
<1>3. OverlapsAreNoted /\ TasksAreSound
  BY <1>2 DEF OverlapsAreNoted, TasksAreSound, TaskIsSound, Undisturbed
<1>4. NetIsRemote /\ PairsAreSound
  BY DEF Init, NetIsRemote, PairsAreSound, PairIsSound, HasBlock, None
<1> QED BY <1>1, <1>3, <1>4 DEF IInv

LEMMA StepKeepsIInv == IInv /\ [Next]_vars => IInv'
<1> SUFFICES ASSUME IInv, [Next]_vars PROVE IInv'
  OBVIOUS
<1>1. CASE UNCHANGED vars
  <2>1. home' = home /\ UNCHANGED <<tables, slot, lastId, raced, net>>
    BY <1>1 DEF vars, bounds, history
  <2>2. net' \in [Pairs -> Seq(Activity)] /\ NetIsRemote'
    BY <2>1 DEF IInv, Typed, NetIsRemote, SameServer
  <2> QED BY <2>1, <2>2, NetKeepsIInv
<1>2. ASSUME home' = home, NEW k \in Slots, TaskStep(k)
      PROVE  IInv'
  BY <1>2, LookUpKeeps, ReadFollowKeeps, HandleFollowKeeps, ReadUnfollowKeeps, ReadBlockKeeps, EstablishKeeps,
     RequestKeeps, RemoveFollowKeeps, WithdrawKeeps, TakeKeeps, PromoteKeeps, BlockKeeps,
     UnblockKeeps, SendRemoteKeeps, SendLocalKeeps DEF TaskStep
<1>3. CASE Next
  BY <1>2, <1>3, CallKeeps, ReceiveKeeps, DieKeeps, LoseKeeps DEF Next
<1> QED BY <1>1, <1>3

LEMMA IInvHolds == Spec => []IInv
BY InitIsSound, StepKeepsIInv, PTL DEF Spec

-----------------------------------------------------------------------------
(* No server holds a follow and a request of one pair, whatever tasks ran, *)
(* as long as no two tasks on the pair overlapped there.                   *)
THEOREM OnePendingOrFollowing == Spec => []OneRowPerPair
<1>1. IInv => OneRowPerPair
  BY DEF IInv, PairsAreSound, PairIsSound, OneRowPerPair
<1> QED BY <1>1, IInvHolds, PTL

(* Whom an account of another server blocks, does not follow it and has no *)
(* request with it, with the same exception.                               *)
THEOREM BlocksEndFollows == Spec => []BlockCutsFollower
<1>1. IInv => BlockCutsFollower
  <2> SUFFICES ASSUME IInv, NEW x \in Accounts, NEW y \in Accounts, x # y, ~SameServer(x, y),
                      HasBlock(home[x], <<x, y>>), ~Raced(home[x], x, y)
               PROVE  Standing(home[x], y, x) = "none"
    BY DEF BlockCutsFollower
  <2>1. <<y, x>> \in Pairs /\ home[x] \in Servers
    BY DEF Pairs, IInv, Typed
  <2>2. PairIsSound(home[x], <<y, x>>)
    BY <2>1 DEF IInv, PairsAreSound
  <2>3. ~Raced(home[x], y, x)
    <3>1. {x, y} = {y, x}
      OBVIOUS
    <3> QED BY <3>1 DEF Raced
  <2>4. NoRow(home[x], <<y, x>>)
    BY <2>2, <2>3 DEF PairIsSound, SameServer
  <2> QED BY <2>4 DEF NoRow, Standing
<1> QED BY <1>1, IInvHolds, PTL

-----------------------------------------------------------------------------
(* Handlers on the server of the sender                                    *)

Idle == UNCHANGED <<follows, pending>> /\ \A s \in Servers : blocks'[s] = blocks[s]

LEMMA SettingARowAgain ==
  ASSUME NEW T \in Tables, NEW s \in Servers, NEW p \in Pairs, NEW id, T[s][p] = id
  PROVE  [T EXCEPT ![s][p] = id] = T
<1>1. T[s] \in [Pairs -> Nat]
  BY DEF Tables
<1>2. [T[s] EXCEPT ![p] = id] = T[s]
  BY <1>1
<1>3. [T EXCEPT ![s][p] = id] = [T EXCEPT ![s] = [T[s] EXCEPT ![p] = id]]
  BY <1>1
<1> QED BY <1>2, <1>3 DEF Tables

(* An activity echoed on its own server finds everything done.             *)
LEMMA EchoedHandlerIsIdle ==
  ASSUME IInv, NEW k \in Slots, home' = home, TaskStep(k), slot[k].op \in Handlers,
         Undisturbed(k), SameServer(Me(k), You(k))
  PROVE  Idle
<1>1. Typed /\ Busy(k)
  BY DEF IInv, Undisturbed
<1>2. /\ At(k, "send") => Written(Server(k), Mine(k), Theirs(k), slot[k].op)
      /\ Found(Server(k), Mine(k), Theirs(k), slot[k].op, slot[k].step)
  BY TaskFacts DEF EchoIsForeseen
<1>3. Server(k) \in Servers /\ Mine(k) \in Pairs /\ Theirs(k) \in Pairs
      /\ MayBeAt(slot[k].op, slot[k].step)
  BY <1>1, TaskFields
<1>4. \A st : At(k, st) <=> slot[k].step = st
  BY <1>1 DEF At
<1>5. CASE slot[k].op = "Follow"
  <2>1. slot[k].step \in {"look", "read"}
    BY <1>2, <1>5 DEF Found
  <2>2. LookUp(k) \/ HandleFollow(k)
    BY <1>4, <1>5, <2>1 DEF TaskStep, ReadFollow, ReadUnfollow, ReadBlock, Establish, Request, RemoveFollow,
       Withdraw, Take, Promote, Block, Unblock, SendRemote, SendLocal
  <2> QED BY <2>2 DEF LookUp, HandleFollow, Idle, tables
<1>6. CASE slot[k].op \in {"Accept", "Reject"}
  <2>1. slot[k].step = "take" /\ pending[Server(k)][Mine(k)] = None /\ Subject(k) = Mine(k)
    BY <1>2, <1>6 DEF Found, Subject
  <2>2. Take(k)
    BY <1>4, <2>1 DEF TaskStep, LookUp, ReadFollow, HandleFollow, ReadUnfollow, ReadBlock, Establish, Request,
       RemoveFollow, Withdraw, Promote, Block, Unblock, SendRemote, SendLocal
  <2>3. pending' = [pending EXCEPT ![Server(k)][Mine(k)] = None]
    BY <2>1, <2>2 DEF Take, Taken, SetPending
  <2>4. pending' = pending
    BY <1>1, <1>3, <2>1, <2>3, SettingARowAgain DEF Typed
  <2> QED BY <2>2, <2>4 DEF Take, Idle
<1>7. CASE slot[k].op = "Block"
  <2>1. slot[k].step = "block"
    BY <1>3, <1>7 DEF MayBeAt
  <2>2. Block(k)
    BY <1>4, <2>1 DEF TaskStep, LookUp, ReadFollow, HandleFollow, ReadUnfollow, ReadBlock, Establish, Request,
       RemoveFollow, Withdraw, Take, Promote, Unblock, SendRemote, SendLocal
  <2>3. HasBlock(Server(k), Theirs(k)) /\ NoRow(Server(k), Mine(k)) /\ NoRow(Server(k), Theirs(k))
    BY <1>2, <1>7 DEF Found
  <2>4. ASSUME NEW T \in Tables, T[Server(k)][Mine(k)] = None, T[Server(k)][Theirs(k)] = None
        PROVE  [T EXCEPT ![Server(k)] = Cleared(k, @)] = T
    <3>1. T[Server(k)] \in [Pairs -> Nat]
      BY <1>3 DEF Tables
    <3>2. Cleared(k, T[Server(k)]) = T[Server(k)]
      BY <1>3, <2>4, <3>1 DEF Cleared
    <3> QED BY <3>2 DEF Tables
  <2>5. follows' = follows /\ pending' = pending
    BY <1>1, <2>2, <2>3, <2>4 DEF Typed, Block, NoRow
  <2>6. \A s \in Servers : blocks'[s] = blocks[s]
    <3>1. blocks' = [blocks EXCEPT ![Server(k)] = blocks[Server(k)] \cup {Theirs(k)}]
      BY <1>7, <2>2 DEF Block, BlockRow
    <3>2. blocks[Server(k)] \cup {Theirs(k)} = blocks[Server(k)]
      BY <2>3 DEF HasBlock
    <3> QED BY <1>1, <3>1, <3>2 DEF Typed
  <2> QED BY <2>5, <2>6 DEF Idle
<1>8. CASE slot[k].op = "UndoFollow"
  <2>1. slot[k].step = "remove" /\ follows[Server(k)][Theirs(k)] = None /\ Subject(k) = Theirs(k)
    BY <1>2, <1>3, <1>8 DEF Found, Subject, MayBeAt
  <2>2. RemoveFollow(k)
    BY <1>4, <2>1 DEF TaskStep, LookUp, ReadFollow, HandleFollow, ReadUnfollow, ReadBlock, Establish, Request,
       Withdraw, Take, Promote, Block, Unblock, SendRemote, SendLocal
  <2>3. follows' = [follows EXCEPT ![Server(k)][Theirs(k)] = None]
    BY <2>1, <2>2 DEF RemoveFollow, SetFollow
  <2>4. follows' = follows
    BY <1>1, <1>3, <2>1, <2>3, SettingARowAgain DEF Typed
  <2> QED BY <2>2, <2>4 DEF RemoveFollow, Idle
<1>9. CASE slot[k].op = "UndoBlock"
  <2>1. slot[k].step = "unblock"
    BY <1>3, <1>9 DEF MayBeAt
  <2>2. Unblock(k)
    BY <1>4, <2>1 DEF TaskStep, LookUp, ReadFollow, HandleFollow, ReadUnfollow, ReadBlock, Establish, Request,
       RemoveFollow, Withdraw, Take, Promote, Block, SendRemote, SendLocal
  <2>3. blocks' = [blocks EXCEPT ![Server(k)] = blocks[Server(k)] \ {Theirs(k)}]
    BY <1>9, <2>2 DEF Unblock, BlockRow
  <2>4. blocks[Server(k)] \ {Theirs(k)} = blocks[Server(k)]
    BY <1>2, <1>9 DEF Found, HasBlock
  <2> QED BY <1>1, <2>2, <2>3, <2>4 DEF Unblock, Idle, Typed
<1> QED BY <1>5, <1>6, <1>7, <1>8, <1>9 DEF Handlers

(* A step moves one slot: its own.                                         *)
LEMMA TaskStepsKeepOthers ==
  ASSUME Typed, NEW j \in Slots, NEW k \in Slots \ {j}, TaskStep(j)
  PROVE  slot'[k] = slot[k]
<1>1. \A t : slot' = [slot EXCEPT ![j] = t] => slot'[k] = slot[k]
  BY DEF Typed
<1>2. (\E step : Goto(j, step)) \/ End(j) => slot'[k] = slot[k]
  BY <1>1 DEF Goto, End
<1>3. \A op, x, y, id : Begin(j, op, x, y, id) => slot'[k] = slot[k]
  BY <1>1 DEF Begin
<1>4. CASE ReadFollow(j)
  BY <1>2, <1>4 DEF ReadFollow, Typed
<1>5. CASE Take(j) \/ LookUp(j)
  BY <1>2, <1>5 DEF Take, LookUp, Typed
<1>6. CASE SendLocal(j)
  BY <1>2, <1>3, <1>6 DEF SendLocal
<1>7. CASE Establish(j) \/ RemoveFollow(j) \/ Block(j) \/ Unblock(j)
  BY <1>2, <1>7 DEF Establish, RemoveFollow, Block, Unblock, Finish
<1>8. CASE HandleFollow(j) \/ ReadUnfollow(j) \/ ReadBlock(j)
  BY <1>2, <1>8 DEF HandleFollow, ReadUnfollow, ReadBlock
<1>9. CASE Request(j) \/ Withdraw(j) \/ Promote(j) \/ SendRemote(j)
  BY <1>2, <1>9 DEF Request, Withdraw, Promote, SendRemote
<1> QED BY <1>4, <1>5, <1>6, <1>7, <1>8, <1>9 DEF TaskStep

(* Between accounts of one server, the handler of an activity changes      *)
(* nothing that its sender has not already written.                        *)
THEOREM LocalEchoesAreIdle == Spec => LocalEchoIsIdle
<1> DEFINE EchoStep ==
      \A k \in Slots :
       /\ Busy(k) /\ slot[k].op \in Handlers /\ slot'[k] # slot[k]
       /\ SameServer(Me(k), You(k)) /\ ~Raced(Server(k), Me(k), You(k))
       => /\ UNCHANGED <<follows, pending>>
          /\ \A s \in Servers : \A p \in Pairs : HasBlock(s, p)' = HasBlock(s, p)
<1>1. IInv /\ [Next]_vars => [EchoStep]_vars
  <2> SUFFICES ASSUME IInv, Next, home' = home, NEW k \in Slots, Busy(k), slot[k].op \in Handlers,
                      slot'[k] # slot[k], SameServer(Me(k), You(k)), ~Raced(Server(k), Me(k), You(k))
               PROVE  /\ UNCHANGED <<follows, pending>>
                      /\ \A s \in Servers : \A p \in Pairs : HasBlock(s, p)' = HasBlock(s, p)
    BY DEF Next
  <2>1. Undisturbed(k) /\ Typed
    BY DEF Undisturbed, IInv
  <2>2. CASE UNCHANGED tables
    BY <2>2 DEF tables, HasBlock
  <2>3. CASE TaskStep(k)
    <3>1. Idle
      BY <2>1, <2>3, EchoedHandlerIsIdle
    <3>2. \A s \in Servers : \A p \in Pairs : HasBlock(s, p)' = HasBlock(s, p)
      BY <3>1 DEF Idle, HasBlock
    <3> QED BY <3>1, <3>2 DEF Idle
  <2>4. ASSUME NEW j \in Slots, j # k, TaskStep(j) PROVE FALSE
    BY <2>1, <2>4, TaskStepsKeepOthers
  <2>5. UNCHANGED tables \/ \E j \in Slots : TaskStep(j)
    BY DEF Next, Call, Receive, Arrive, Die, Lose
  <2> QED BY <2>2, <2>3, <2>4, <2>5
<1> QED BY <1>1, IInvHolds, PTL DEF Spec, LocalEchoIsIdle
-----------------------------------------------------------------------------
(* Type correctness.  The bounds of TypeOK rest on an account of calls:    *)
(* every activity on its way is paid for by an API call of its own, a call *)
(* of follow paying for the Accept that may come back as well.             *)

(* The tasks that may still send to p[2] on behalf of p[1].                *)
Sending(p) == {k \in Slots : Busy(k) /\ Mine(k) = p /\ slot[k].op \in ApiOps \cup {"Follow"}}

(* The Follows of p[2], not yet sent or not yet arrived, p[1] may answer.  *)
Asking(p) == {k \in Slots : Busy(k) /\ Theirs(k) = p /\ slot[k].op = "follow"}

Follows(q) == {i \in DOMAIN q : q[i].type = "Follow"}

Back(p) == <<p[2], p[1]>>

(* The calls of follow that have not minted their id.                      *)
Minting == {k \in Slots : (At(k, "look") \/ At(k, "read")) /\ slot[k].op = "follow"}

Owed(p) == Cardinality(Sending(p)) + Cardinality(Asking(p))

Due(p) == Len(net[p]) + Cardinality(Follows(net[Back(p)])) + Owed(p)

CallsPay ==
  /\ \A p \in Pairs : IsFiniteSet(Sending(p)) /\ IsFiniteSet(Asking(p)) /\ Due(p) <= calls
  /\ IsFiniteSet(Minting) /\ lastId + Cardinality(Minting) <= calls

RowsAreMinted(T, n) == \A s \in Servers : \A p \in Pairs : T[s][p] <= n

IdsAreMinted ==
  /\ RowsAreMinted(follows, lastId) /\ RowsAreMinted(pending, lastId)
  /\ \A k \in Slots : Busy(k) => slot[k].id <= lastId
  /\ \A p \in Pairs : \A i \in DOMAIN net[p] : net[p][i].id <= lastId

HistoryIsTyped ==
  /\ calls \in 0..MaxCalls /\ lost \in 0..MaxLosses /\ faults \in 0..MaxFaults
  /\ home \in Placements
  /\ raced \subseteq Servers \X SUBSET Accounts
  /\ withdrawn \subseteq Pairs
  /\ doubt \subseteq SUBSET Accounts

Ledger == CallsPay /\ IdsAreMinted /\ HistoryIsTyped

LEMMA OneElementMoves ==
  ASSUME NEW S, NEW T, NEW k, IsFiniteSet(S), T \ {k} = S \ {k}
  PROVE  /\ IsFiniteSet(T)
         /\ k \in S => T \subseteq S
         /\ k \in S \/ k \notin T => Cardinality(T) <= Cardinality(S)
         /\ k \in S /\ k \notin T => Cardinality(T) = Cardinality(S) - 1
         /\ Cardinality(T) <= Cardinality(S) + 1
         /\ Cardinality(S) \in Nat /\ Cardinality(T) \in Nat
<1> DEFINE R == S \ {k}
<1>1. IsFiniteSet(R) /\ Cardinality(R) = IF k \in S THEN Cardinality(S) - 1 ELSE Cardinality(S)
  BY FS_RemoveElement
<1>2. CASE k \in T
  <2>1. T = R \cup {k}
    BY <1>2
  <2>2. IsFiniteSet(T) /\ Cardinality(T) = Cardinality(R) + 1
    BY <1>1, <2>1, FS_AddElement
  <2> QED BY <1>1, <1>2, <2>2, FS_CardinalityType
<1>3. CASE k \notin T
  <2>1. T = R
    BY <1>3
  <2> QED BY <1>1, <1>3, <2>1, FS_CardinalityType
<1> QED BY <1>2, <1>3

(* An activity taken out of a queue.                                       *)
LEMMA RemovalCounts ==
  ASSUME NEW q \in Seq(Activity), NEW j \in DOMAIN q
  PROVE  LET r == RemoveAt(q, j) IN
         /\ r \in Seq(Activity)
         /\ Len(r) = Len(q) - 1
         /\ IsFiniteSet(Follows(q)) /\ IsFiniteSet(Follows(r))
         /\ Cardinality(Follows(q)) \in Nat /\ Cardinality(Follows(r)) \in Nat
         /\ Cardinality(Follows(r)) <= Cardinality(Follows(q))
         /\ q[j].type = "Follow" => Cardinality(Follows(r)) <= Cardinality(Follows(q)) - 1
         /\ \A i \in DOMAIN r : \E h \in DOMAIN q : r[i] = q[h]
<1> DEFINE r == RemoveAt(q, j)
           up(i) == IF i < j THEN i ELSE i + 1
<1> DEFINE head == SubSeq(q, 1, j - 1)
           tail == SubSeq(q, j + 1, Len(q))
<1>0. /\ j \in 1..Len(q) /\ Len(q) \in Nat
      /\ head \in Seq(Activity) /\ Len(head) = j - 1 /\ \A i \in 1..(j - 1) : head[i] = q[i]
      /\ tail \in Seq(Activity) /\ Len(tail) = Len(q) - j
      /\ \A i \in 1..(Len(q) - j) : tail[i] = q[i + j]
  <2>1. j \in 1..Len(q) /\ Len(q) \in Nat
    OBVIOUS
  <2>2. /\ head \in Seq(Activity) /\ Len(head) = j - 1
        /\ \A i \in 1..(j - 1) : head[i] = q[i]
    BY <2>1
  <2>3. /\ tail \in Seq(Activity) /\ Len(tail) = Len(q) - j
        /\ \A i \in 1..(Len(q) - j) : tail[i] = q[i + j]
    BY <2>1
  <2> QED BY <2>1, <2>2, <2>3
<1>R. r = head \o tail
  BY DEF RemoveAt
<1> HIDE DEF head, tail, r
<1>S. /\ r \in Seq(Activity) /\ Len(r) = Len(q) - 1
      /\ \A i \in 1..(j - 1) : r[i] = q[i]
      /\ \A i \in j..(Len(q) - 1) : r[i] = tail[i - (j - 1)]
  <2>1. /\ r \in Seq(Activity) /\ Len(r) = Len(head) + Len(tail)
        /\ \A i \in 1..(Len(head) + Len(tail)) :
             r[i] = IF i <= Len(head) THEN head[i] ELSE tail[i - Len(head)]
    BY <1>0, <1>R, ConcatProperties
  <2>2. Len(head) = j - 1 /\ Len(head) + Len(tail) = Len(q) - 1
    BY <1>0
  <2>3. \A i \in 1..(Len(q) - 1) : r[i] = IF i <= j - 1 THEN head[i] ELSE tail[i - (j - 1)]
    BY <2>1, <2>2
  <2>4. \A i \in 1..(j - 1) : r[i] = q[i]
    <3> SUFFICES ASSUME NEW i \in 1..(j - 1) PROVE r[i] = q[i]
      OBVIOUS
    <3>1. i \in 1..(Len(q) - 1) /\ i <= j - 1
      BY <1>0
    <3> QED BY <1>0, <2>3, <3>1
  <2>5. \A i \in j..(Len(q) - 1) : r[i] = tail[i - (j - 1)]
    <3> SUFFICES ASSUME NEW i \in j..(Len(q) - 1) PROVE r[i] = tail[i - (j - 1)]
      OBVIOUS
    <3>1. i \in 1..(Len(q) - 1) /\ ~(i <= j - 1)
      BY <1>0
    <3> QED BY <2>3, <3>1
  <2> QED BY <2>1, <2>2, <2>4, <2>5
<1>1. r \in Seq(Activity) /\ Len(r) = Len(q) - 1
      /\ \A i \in 1..Len(r) : up(i) \in 1..Len(q) /\ up(i) # j /\ r[i] = q[up(i)]
  <2>1. \A i \in j..(Len(q) - 1) : tail[i - (j - 1)] = q[i + 1]
    <3> SUFFICES ASSUME NEW i \in j..(Len(q) - 1) PROVE tail[i - (j - 1)] = q[i + 1]
      OBVIOUS
    <3>1. i - (j - 1) \in 1..(Len(q) - j) /\ (i - (j - 1)) + j = i + 1
      BY <1>0
    <3> QED BY <1>0, <3>1
  <2>2. DOMAIN r = 1..(Len(q) - 1) /\ Len(r) = Len(q) - 1
    BY <1>S
  <2> SUFFICES ASSUME NEW i \in 1..Len(r)
               PROVE  up(i) \in 1..Len(q) /\ up(i) # j /\ r[i] = q[up(i)]
    BY <1>S
  <2>3. CASE i < j
    <3>1. up(i) = i /\ i \in 1..(j - 1)
      BY <1>0, <2>3
    <3> QED BY <1>0, <1>S, <3>1
  <2>4. CASE i >= j
    <3>1. i \in j..(Len(q) - 1)
      BY <1>0, <1>S, <2>4
    <3>2. r[i] = tail[i - (j - 1)]
      BY <1>S, <3>1
    <3>3. tail[i - (j - 1)] = q[i + 1]
      BY <2>1, <3>1
    <3>4. up(i) = i + 1 /\ i + 1 \in 1..Len(q)
      BY <1>0, <2>4, <3>1
    <3> QED BY <2>4, <3>1, <3>2, <3>3, <3>4
  <2> QED BY <1>0, <2>3, <2>4
<1>2. IsFiniteSet(1..Len(q)) /\ Follows(q) \subseteq 1..Len(q)
  BY FS_Interval DEF Follows
<1>3. IsFiniteSet(Follows(q))
  BY <1>2, FS_Subset
<1> DEFINE f == [i \in Follows(r) |-> up(i)]
           T == Follows(q) \ {j}
<1>4. IsFiniteSet(T) /\ Cardinality(T) = IF j \in Follows(q) THEN Cardinality(Follows(q)) - 1
                                                             ELSE Cardinality(Follows(q))
  BY <1>3, FS_RemoveElement
<1>5. \A i \in Follows(r) : i \in 1..Len(r) /\ up(i) \in T
  BY <1>1 DEF Follows
<1>6. \A i, h \in Follows(r) : up(i) = up(h) => i = h
  BY <1>5
<1>7. f \in Injection(Follows(r), T)
  <2>1. f \in [Follows(r) -> T]
    BY <1>5
  <2>2. \A i, h \in Follows(r) : f[i] = f[h] => i = h
    BY <1>6
  <2> QED BY <2>1, <2>2 DEF Injection, IsInjective
<1>8. IsFiniteSet(Follows(r)) /\ Cardinality(Follows(r)) <= Cardinality(T)
  <2> HIDE DEF f, T
  <2> QED BY <1>4, <1>7, FS_Injection
<1>9. Cardinality(Follows(q)) \in Nat /\ Cardinality(Follows(r)) \in Nat
  BY <1>3, <1>8, FS_CardinalityType
<1>10. q[j].type = "Follow" => j \in Follows(q)
  BY DEF Follows
<1>11. \A i \in DOMAIN r : \E h \in DOMAIN q : r[i] = q[h]
  BY <1>1
<1>12. Cardinality(Follows(r)) <= Cardinality(Follows(q))
       /\ (q[j].type = "Follow" => Cardinality(Follows(r)) <= Cardinality(Follows(q)) - 1)
  BY <1>4, <1>8, <1>9, <1>10
<1> QED BY <1>1, <1>3, <1>8, <1>9, <1>11, <1>12 DEF r

(* An activity put at the end of one.                                      *)
LEMMA AppendCounts ==
  ASSUME NEW q \in Seq(Activity), NEW m \in Activity
  PROVE  LET r == Append(q, m) IN
         /\ r \in Seq(Activity)
         /\ Len(r) = Len(q) + 1
         /\ Cardinality(Follows(q)) \in Nat /\ Cardinality(Follows(r)) \in Nat
         /\ Cardinality(Follows(r)) <= Cardinality(Follows(q)) + 1
         /\ m.type # "Follow" => Cardinality(Follows(r)) = Cardinality(Follows(q))
         /\ \A i \in DOMAIN r : r[i] = m \/ \E h \in DOMAIN q : r[i] = q[h]
<1> DEFINE r == Append(q, m)
           n == Len(q) + 1
<1>1. r \in Seq(Activity) /\ Len(r) = n /\ r[n] = m /\ \A i \in 1..Len(q) : r[i] = q[i]
  OBVIOUS
<1>2. IsFiniteSet(1..Len(q)) /\ Follows(q) \subseteq 1..Len(q)
  BY FS_Interval DEF Follows
<1>3. IsFiniteSet(Follows(q))
  BY <1>2, FS_Subset
<1> HIDE DEF r
<1>4. DOMAIN r = 1..n /\ DOMAIN q = 1..Len(q) /\ Len(q) \in Nat
  BY <1>1
<1>5. Follows(r) \ {n} = Follows(q) \ {n} /\ n \notin Follows(q)
  BY <1>1, <1>4 DEF Follows
<1>6. m.type # "Follow" => n \notin Follows(r)
  BY <1>1 DEF Follows
<1>7. m.type # "Follow" => Follows(r) = Follows(q)
  BY <1>5, <1>6
<1>8. \A i \in DOMAIN r : r[i] = m \/ \E h \in DOMAIN q : r[i] = q[h]
  BY <1>1, <1>4
<1>9. /\ Cardinality(Follows(q)) \in Nat /\ Cardinality(Follows(r)) \in Nat
      /\ Cardinality(Follows(r)) <= Cardinality(Follows(q)) + 1
  BY <1>3, <1>5, OneElementMoves
<1> QED BY <1>1, <1>7, <1>8, <1>9 DEF r
(* The tasks that owe something after one slot has changed.                *)
LEMMA SlotCounts ==
  ASSUME Typed, CallsPay, NEW k \in Slots, NEW t \in Errand \cup {FreeSlot},
         slot' = [slot EXCEPT ![k] = t], NEW p \in Pairs
  PROVE  /\ IsFiniteSet(Sending(p)') /\ IsFiniteSet(Asking(p)')
         /\ Cardinality(Sending(p)) \in Nat /\ Cardinality(Sending(p)') \in Nat
         /\ Cardinality(Asking(p)) \in Nat /\ Cardinality(Asking(p)') \in Nat
         /\ k \in Sending(p) \/ k \notin Sending(p)' => Cardinality(Sending(p)') <= Cardinality(Sending(p))
         /\ k \in Asking(p) \/ k \notin Asking(p)' => Cardinality(Asking(p)') <= Cardinality(Asking(p))
         /\ k \in Sending(p) /\ k \notin Sending(p)' => Cardinality(Sending(p)') = Cardinality(Sending(p)) - 1
         /\ k \in Asking(p) /\ k \notin Asking(p)' => Cardinality(Asking(p)') = Cardinality(Asking(p)) - 1
         /\ Cardinality(Sending(p)') <= Cardinality(Sending(p)) + 1
         /\ Cardinality(Asking(p)') <= Cardinality(Asking(p)) + 1
<1>1. \A j \in Slots \ {k} : slot'[j] = slot[j]
  BY SlotsStayTyped
<1>2. Sending(p)' \ {k} = Sending(p) \ {k}
  BY <1>1 DEF Sending, Busy, Mine, Me, You
<1>3. Asking(p)' \ {k} = Asking(p) \ {k}
  BY <1>1 DEF Asking, Busy, Theirs, Me, You
<1>4. IsFiniteSet(Sending(p)) /\ IsFiniteSet(Asking(p))
  BY DEF CallsPay
<1> QED BY <1>2, <1>3, <1>4, OneElementMoves

LEMMA MintingCounts ==
  ASSUME Typed, CallsPay, NEW k \in Slots, NEW t \in Errand \cup {FreeSlot},
         slot' = [slot EXCEPT ![k] = t]
  PROVE  /\ IsFiniteSet(Minting')
         /\ Cardinality(Minting) \in Nat /\ Cardinality(Minting') \in Nat
         /\ k \in Minting \/ k \notin Minting' => Cardinality(Minting') <= Cardinality(Minting)
         /\ k \in Minting /\ k \notin Minting' => Cardinality(Minting') = Cardinality(Minting) - 1
         /\ Cardinality(Minting') <= Cardinality(Minting) + 1
<1>1. \A j \in Slots \ {k} : slot'[j] = slot[j]
  BY SlotsStayTyped
<1>2. Minting' \ {k} = Minting \ {k}
  BY <1>1 DEF Minting, At, Busy
<1>3. IsFiniteSet(Minting)
  BY DEF CallsPay
<1> QED BY <1>2, <1>3, OneElementMoves

(* What slot k owes, before and after.                                     *)
LEMMA SlotOwes ==
  ASSUME Typed, NEW k \in Slots, NEW t \in Errand \cup {FreeSlot}, slot' = [slot EXCEPT ![k] = t]
  PROVE  /\ \A p : k \in Sending(p) <=> Busy(k) /\ Mine(k) = p /\ slot[k].op \in ApiOps \cup {"Follow"}
         /\ \A p : k \in Asking(p) <=> Busy(k) /\ Theirs(k) = p /\ slot[k].op = "follow"
         /\ \A p : k \in Sending(p)' <=>
              t # FreeSlot /\ <<t.me, t.you>> = p /\ t.op \in ApiOps \cup {"Follow"}
         /\ \A p : k \in Asking(p)' <=> t # FreeSlot /\ <<t.you, t.me>> = p /\ t.op = "follow"
         /\ k \in Minting <=> Busy(k) /\ slot[k].step \in {"look", "read"} /\ slot[k].op = "follow"
         /\ k \in Minting' <=> t # FreeSlot /\ t.step \in {"look", "read"} /\ t.op = "follow"
<1>1. slot'[k] = t
  BY SlotsStayTyped
<1>2. /\ \A p : k \in Sending(p) <=> Busy(k) /\ Mine(k) = p /\ slot[k].op \in ApiOps \cup {"Follow"}
      /\ \A p : k \in Sending(p)' <=>
           t # FreeSlot /\ <<t.me, t.you>> = p /\ t.op \in ApiOps \cup {"Follow"}
  BY <1>1 DEF Sending, Busy, Mine, Me, You
<1>3. /\ \A p : k \in Asking(p) <=> Busy(k) /\ Theirs(k) = p /\ slot[k].op = "follow"
      /\ \A p : k \in Asking(p)' <=> t # FreeSlot /\ <<t.you, t.me>> = p /\ t.op = "follow"
  BY <1>1 DEF Asking, Busy, Theirs, Me, You
<1>4. /\ k \in Minting <=> Busy(k) /\ slot[k].step \in {"look", "read"} /\ slot[k].op = "follow"
      /\ k \in Minting' <=> t # FreeSlot /\ t.step \in {"look", "read"} /\ t.op = "follow"
  BY <1>1 DEF Minting, Busy, At
<1> QED BY <1>2, <1>3, <1>4

LEMMA QueuesCount ==
  ASSUME Typed, NEW p \in Pairs
  PROVE  /\ net[p] \in Seq(Activity) /\ Len(net[p]) \in Nat
         /\ Back(p) \in Pairs /\ Back(p) # p /\ Back(Back(p)) = p
         /\ Cardinality(Follows(net[Back(p)])) \in Nat
<1>1. Back(p) \in Pairs /\ Back(p) # p /\ Back(Back(p)) = p
  BY DEF Pairs, Back
<1>2. net[p] \in Seq(Activity) /\ net[Back(p)] \in Seq(Activity)
  BY <1>1 DEF Typed
<1>3. IsFiniteSet(1..Len(net[Back(p)])) /\ Follows(net[Back(p)]) \subseteq 1..Len(net[Back(p)])
  BY <1>2, FS_Interval DEF Follows
<1>4. IsFiniteSet(Follows(net[Back(p)]))
  BY <1>3, FS_Subset
<1> QED BY <1>1, <1>2, <1>4, FS_CardinalityType

(* A task that goes on, or ends, owes no more than before.                 *)
GoesOn(k, t) ==
  /\ Busy(k)
  /\ slot' = [slot EXCEPT ![k] = t]
  /\ t \in Errand \cup {FreeSlot}
  /\ t # FreeSlot => /\ t.op = slot[k].op /\ t.me = Me(k) /\ t.you = You(k)
                     /\ t.step # "look" /\ (t.step = "read" => slot[k].step = "look")

Mints(k) == k \in Minting /\ k \notin Minting' /\ lastId' = lastId + 1

LEMMA GoingOnPays ==
  ASSUME Typed, CallsPay, calls \in Nat, calls' = calls, net' = net, NEW k \in Slots, NEW t,
         GoesOn(k, t), lastId' = lastId \/ Mints(k)
  PROVE  CallsPay'
<1>1. t \in Errand \cup {FreeSlot} /\ slot' = [slot EXCEPT ![k] = t] /\ lastId \in Nat
  BY DEF GoesOn, Typed
<1>2. ASSUME NEW p \in Pairs
      PROVE  IsFiniteSet(Sending(p)') /\ IsFiniteSet(Asking(p)') /\ Due(p)' <= calls'
  <2>1. k \in Sending(p) \/ k \notin Sending(p)'
    <3>1. t # FreeSlot => t.op = slot[k].op /\ <<t.me, t.you>> = Mine(k) /\ Busy(k)
      BY DEF GoesOn, Mine
    <3>2. /\ k \in Sending(p) <=> Busy(k) /\ Mine(k) = p /\ slot[k].op \in ApiOps \cup {"Follow"}
          /\ k \in Sending(p)' <=>
               t # FreeSlot /\ <<t.me, t.you>> = p /\ t.op \in ApiOps \cup {"Follow"}
      BY <1>1, SlotOwes
    <3> QED BY <3>1, <3>2
  <2>2. k \in Asking(p) \/ k \notin Asking(p)'
    <3>1. t # FreeSlot => t.op = slot[k].op /\ <<t.you, t.me>> = Theirs(k) /\ Busy(k)
      BY DEF GoesOn, Theirs
    <3>2. /\ k \in Asking(p) <=> Busy(k) /\ Theirs(k) = p /\ slot[k].op = "follow"
          /\ k \in Asking(p)' <=> t # FreeSlot /\ <<t.you, t.me>> = p /\ t.op = "follow"
      BY <1>1, SlotOwes
    <3> QED BY <3>1, <3>2
  <2>3. Cardinality(Sending(p)') <= Cardinality(Sending(p))
        /\ Cardinality(Asking(p)') <= Cardinality(Asking(p))
    BY <1>1, <2>1, <2>2, SlotCounts
  <2>4. IsFiniteSet(Sending(p)') /\ IsFiniteSet(Asking(p)')
        /\ Cardinality(Sending(p)) \in Nat /\ Cardinality(Sending(p)') \in Nat
        /\ Cardinality(Asking(p)) \in Nat /\ Cardinality(Asking(p)') \in Nat
    BY <1>1, SlotCounts
  <2>5. Due(p) <= calls /\ Len(net[p]) \in Nat /\ Cardinality(Follows(net[Back(p)])) \in Nat
    BY QueuesCount DEF CallsPay
  <2>6. Due(p)' <= calls
    BY <2>3, <2>4, <2>5 DEF Due, Owed
  <2> QED BY <2>4, <2>6
<1>3. IsFiniteSet(Minting') /\ lastId' + Cardinality(Minting') <= calls'
  <2>1. k \in Minting \/ k \notin Minting'
    BY <1>1, SlotOwes DEF GoesOn
  <2>2. IsFiniteSet(Minting') /\ lastId + Cardinality(Minting) <= calls
    BY <1>1, MintingCounts DEF CallsPay
  <2>3. /\ Cardinality(Minting) \in Nat /\ Cardinality(Minting') \in Nat
        /\ Cardinality(Minting') <= Cardinality(Minting)
        /\ k \in Minting /\ k \notin Minting' => Cardinality(Minting') = Cardinality(Minting) - 1
    BY <1>1, <2>1, MintingCounts
  <2> QED BY <1>1, <2>2, <2>3 DEF Mints
<1> QED BY <1>2, <1>3 DEF CallsPay

(* A task step that neither sends nor begins another task.                 *)
Proceeds(k) ==
  /\ GoesOn(k, slot'[k])
  /\ slot'[k] # FreeSlot => slot'[k].id <= lastId'
  /\ lastId' = lastId \/ Mints(k)
  /\ UNCHANGED <<net, calls, lost, faults, raced>>
  /\ withdrawn' \subseteq withdrawn \cup {Mine(k), Theirs(k)}
  /\ doubt' \subseteq doubt \cup {Both(k)}
  /\ RowsAreMinted(follows', lastId') /\ RowsAreMinted(pending', lastId')

LEMMA ProceedingKeepsLedger ==
  ASSUME IInv, IInv', Ledger, NEW k \in Slots, Proceeds(k), home' = home
  PROVE  Ledger'
<1>1. /\ Typed /\ CallsPay /\ IdsAreMinted /\ HistoryIsTyped /\ Busy(k) /\ calls \in Nat /\ lastId \in Nat
      /\ lastId <= lastId' /\ net' = net /\ calls' = calls
  BY DEF IInv, Ledger, Typed, Proceeds, Mints, GoesOn, HistoryIsTyped
<1>2. CallsPay'
  BY <1>1, GoingOnPays DEF Proceeds
<1>3. IdsAreMinted'
  <2>1. \A j \in Slots : Busy(j)' => slot'[j].id <= lastId'
    <3> SUFFICES ASSUME NEW j \in Slots, slot'[j] # FreeSlot PROVE slot'[j].id <= lastId'
      BY DEF Busy
    <3>1. CASE j = k
      BY <3>1 DEF Proceeds
    <3>2. CASE j # k
      <4>1. slot'[j] = slot[j]
        BY <1>1, <3>2, SlotsStayTyped DEF Proceeds, GoesOn
      <4>2. slot[j].id <= lastId /\ slot[j].id \in Nat
        BY <1>1, <4>1, TaskFields DEF IdsAreMinted, Busy
      <4>3. lastId' \in Nat
        BY DEF IInv, Typed
      <4> QED BY <1>1, <4>1, <4>2, <4>3
    <3> QED BY <3>1, <3>2
  <2>2. \A p \in Pairs : \A i \in DOMAIN net'[p] : net'[p][i].id <= lastId'
    <3> SUFFICES ASSUME NEW p \in Pairs, NEW i \in DOMAIN net[p] PROVE net[p][i].id <= lastId'
      BY <1>1
    <3>1. net[p] \in Seq(Activity)
      BY <1>1 DEF Typed
    <3>2. net[p][i] \in Activity
      BY <3>1
    <3>3. net[p][i].id \in Nat /\ net[p][i].id <= lastId /\ lastId' \in Nat
      BY <1>1, <3>2 DEF Activity, IdsAreMinted, IInv, Typed
    <3> QED BY <1>1, <3>3
  <2>3. RowsAreMinted(follows, lastId)' /\ RowsAreMinted(pending, lastId)'
    BY DEF Proceeds, RowsAreMinted
  <2> QED BY <2>1, <2>2, <2>3 DEF IdsAreMinted
<1>4. HistoryIsTyped'
  <2>1. Mine(k) \in Pairs /\ Theirs(k) \in Pairs /\ Both(k) \subseteq Accounts
    BY <1>1, TaskFields DEF Both
  <2> QED BY <1>1, <2>1 DEF HistoryIsTyped, Proceeds
<1> QED BY <1>2, <1>3, <1>4 DEF Ledger

LEMMA RowsStayMinted ==
  ASSUME NEW T \in Tables, NEW U, NEW s \in Servers, NEW p \in Pairs, NEW id \in Nat,
         IsWritten(U, T, s, p, id), NEW n \in Nat, RowsAreMinted(T, n), id <= n
  PROVE  RowsAreMinted(U, n)
<1> SUFFICES ASSUME NEW r \in Servers, NEW q \in Pairs PROVE U[r][q] <= n
  BY DEF RowsAreMinted
<1>1. CASE r = s /\ q = p
  BY <1>1, RowsStayTyped
<1>2. CASE r # s \/ q # p
  <2>1. T[s] \in [Pairs -> Nat] /\ T[r] \in [Pairs -> Nat]
    BY DEF Tables
  <2>2. U = [T EXCEPT ![s] = [T[s] EXCEPT ![p] = id]]
    BY <2>1 DEF IsWritten
  <2>3. U[r] = IF r = s THEN [T[s] EXCEPT ![p] = id] ELSE T[r]
    BY <2>2 DEF Tables
  <2>4. U[r][q] = T[r][q]
    BY <1>2, <2>1, <2>3
  <2> QED BY <2>4 DEF RowsAreMinted
<1> QED BY <1>1, <1>2

LEMMA EndsProceed ==
  ASSUME Typed, NEW k \in Slots, Busy(k), End(k)
  PROVE  GoesOn(k, slot'[k]) /\ slot'[k] = FreeSlot /\ raced' = raced
BY DEF Typed, GoesOn, End

LEMMA GotosProceed ==
  ASSUME Typed, Typed', NEW k \in Slots, Busy(k), NEW step, Goto(k, step),
         step # "look", step = "read" => slot[k].step = "look"
  PROVE  GoesOn(k, slot'[k]) /\ slot'[k].id = slot[k].id /\ raced' = raced
<1>1. slot[k] \in Errand /\ slot' \in [Slots -> Errand \cup {FreeSlot}]
      /\ slot' = [slot EXCEPT ![k].step = step] /\ raced' = raced
  BY TaskFields DEF Typed, Goto
<1>2. slot'[k] = [slot[k] EXCEPT !.step = step]
  BY <1>1 DEF Typed
<1>3. slot'[k].op = slot[k].op /\ slot'[k].me = Me(k) /\ slot'[k].you = You(k)
      /\ slot'[k].id = slot[k].id /\ slot'[k].step = step
  BY <1>1, <1>2 DEF Errand, Me, You
<1>4. slot' = [slot EXCEPT ![k] = slot'[k]] /\ slot'[k] \in Errand \cup {FreeSlot}
  BY <1>1, <1>2 DEF Typed
<1> QED BY <1>1, <1>3, <1>4 DEF GoesOn

(* The steps that write through Goto, End or Finish and mint no id.        *)
LEMMA StepProceeds ==
  ASSUME Typed, Typed', IdsAreMinted, NEW k \in Slots, Busy(k),
         \/ End(k)
         \/ \E step : step \notin {"look", "read"} /\ Goto(k, step)
         \/ At(k, "look") /\ Goto(k, "read"),
         UNCHANGED <<net, bounds>>,
         withdrawn' \subseteq withdrawn \cup {Mine(k), Theirs(k)}, doubt' \subseteq doubt \cup {Both(k)},
         RowsAreMinted(follows', lastId), RowsAreMinted(pending', lastId)
  PROVE  Proceeds(k)
<1>1. GoesOn(k, slot'[k]) /\ raced' = raced /\ (slot'[k] # FreeSlot => slot'[k].id = slot[k].id)
  <2>1. CASE End(k)
    BY <2>1, EndsProceed
  <2>2. ASSUME NEW step, step \notin {"look", "read"}, Goto(k, step) PROVE  GoesOn(k, slot'[k]) /\ raced' = raced /\ (slot'[k] # FreeSlot => slot'[k].id = slot[k].id)
    BY <2>2, GotosProceed
  <2>3. CASE At(k, "look") /\ Goto(k, "read")
    BY <2>3, GotosProceed DEF At
  <2> QED BY <2>1, <2>2, <2>3
<1>2. slot[k].id <= lastId
  BY DEF IdsAreMinted
<1> QED BY <1>1, <1>2 DEF Proceeds, bounds

LEMMA WritesAreMinted ==
  ASSUME Typed, IdsAreMinted, NEW k \in Slots, Busy(k), NEW T \in Tables, RowsAreMinted(T, lastId), NEW U
  PROVE  /\ U = [T EXCEPT ![Server(k)][Subject(k)] = slot[k].id] => RowsAreMinted(U, lastId)
         /\ U = [T EXCEPT ![Server(k)][Subject(k)] = None] => RowsAreMinted(U, lastId)
         /\ IsCleared(U, T, k) => RowsAreMinted(U, lastId)
<1>1. Server(k) \in Servers /\ Subject(k) \in Pairs /\ slot[k].id \in Nat /\ None \in Nat
      /\ lastId \in Nat /\ slot[k].id <= lastId /\ None <= lastId
  BY TaskFields DEF IdsAreMinted, Typed, None
<1>2. IsCleared(U, T, k) => RowsAreMinted(U, lastId)
  <2> SUFFICES ASSUME IsCleared(U, T, k) PROVE RowsAreMinted(U, lastId)
    OBVIOUS
  <2>1. /\ U[Server(k)][Mine(k)] = None /\ U[Server(k)][Theirs(k)] = None
        /\ \A s \in Servers : \A p \in Pairs :
             s # Server(k) \/ p \notin {Mine(k), Theirs(k)} => U[s][p] = T[s][p]
    BY RowsAreCleared
  <2> QED BY <1>1, <2>1 DEF RowsAreMinted
<1>3. U = [T EXCEPT ![Server(k)][Subject(k)] = slot[k].id] => RowsAreMinted(U, lastId)
  <2>1. U = [T EXCEPT ![Server(k)][Subject(k)] = slot[k].id] => IsWritten(U, T, Server(k), Subject(k), slot[k].id)
    BY DEF IsWritten
  <2> QED BY <1>1, <2>1, RowsStayMinted
<1>4. U = [T EXCEPT ![Server(k)][Subject(k)] = None] => RowsAreMinted(U, lastId)
  <2>1. U = [T EXCEPT ![Server(k)][Subject(k)] = None] => IsWritten(U, T, Server(k), Subject(k), None)
    BY DEF IsWritten
  <2> QED BY <1>1, <2>1, RowsStayMinted
<1> QED BY <1>2, <1>3, <1>4

LEMMA TaskStepProceeds ==
  ASSUME IInv, IInv', Ledger, NEW k \in Slots, TaskStep(k), ~At(k, "send"), home' = home
  PROVE  Proceeds(k)
<1>1. /\ Typed /\ Typed' /\ IdsAreMinted /\ Busy(k) /\ lastId \in Nat
      /\ follows \in Tables /\ pending \in Tables
      /\ RowsAreMinted(follows, lastId) /\ RowsAreMinted(pending, lastId)
  BY DEF IInv, Ledger, Typed, IdsAreMinted, TaskStep, LookUp, ReadFollow, HandleFollow, ReadUnfollow, ReadBlock,
     Establish, Request, RemoveFollow, Withdraw, Take, Promote, Block, Unblock, SendRemote, SendLocal, At
<1>2. \A step : step \in Steps => step # "free"
  BY DEF Steps
<1>3. Finish(k) => End(k) \/ \E step : step \notin {"look", "read"} /\ Goto(k, step)
  BY DEF Finish
<1>4. Subject(k) \in {Mine(k), Theirs(k)}
  BY DEF Subject
<1>5. CASE ReadFollow(k)
  <2>1. CASE End(k) /\ UNCHANGED <<lastId, doubt>>
    BY <1>1, <1>5, <2>1, StepProceeds DEF ReadFollow, bounds, tables
  <2>2. CASE ~(End(k) /\ UNCHANGED <<lastId, doubt>>)
    <3>1. PICK flag \in LockedFlags(Me(k), You(k)) :
             /\ lastId' = lastId + 1
             /\ slot' = [slot EXCEPT ![k].step = Decision(Me(k), You(k), flag), ![k].id = lastId + 1]
             /\ doubt' = IF flag = (You(k) \in Locked) THEN doubt ELSE doubt \cup {Both(k)}
             /\ UNCHANGED raced
      BY <1>5, <2>2 DEF ReadFollow
    <3>2. PICK step : step = Decision(Me(k), You(k), flag)
      OBVIOUS
    <3>3. step \notin {"look", "read"}
      BY <3>2 DEF Decision
    <3>4. slot' = [slot EXCEPT ![k].step = step, ![k].id = lastId + 1]
      BY <3>1, <3>2
    <3>5. slot[k] \in Errand /\ slot' \in [Slots -> Errand \cup {FreeSlot}]
      BY <1>1, TaskFields DEF Typed
    <3>6. slot'[k] = [slot[k] EXCEPT !.step = step, !.id = lastId + 1]
      BY <1>1, <3>4 DEF Typed
    <3>7. slot'[k].op = slot[k].op /\ slot'[k].me = Me(k) /\ slot'[k].you = You(k)
          /\ slot'[k].id = lastId + 1 /\ slot'[k].step = step
      BY <3>5, <3>6 DEF Errand, Me, You
    <3>8. slot' = [slot EXCEPT ![k] = slot'[k]]
      BY <3>4, <3>6
    <3>9. GoesOn(k, slot'[k])
      BY <1>1, <3>3, <3>5, <3>7, <3>8 DEF GoesOn
    <3>10. k \in Minting /\ k \notin Minting'
      BY <1>1, <1>5, <3>3, <3>5, <3>7, <3>8, SlotOwes DEF ReadFollow, At
    <3>11. follows' = follows /\ pending' = pending
           /\ UNCHANGED <<net, calls, lost, faults, withdrawn>>
      BY <1>5 DEF ReadFollow, tables
    <3>12. RowsAreMinted(follows', lastId') /\ RowsAreMinted(pending', lastId')
      <4>1. \A s \in Servers : \A p \in Pairs : follows[s][p] \in Nat /\ pending[s][p] \in Nat
        BY <1>1 DEF Tables
      <4> QED BY <1>1, <3>1, <3>11, <4>1 DEF RowsAreMinted
    <3>13. doubt' \subseteq doubt \cup {Both(k)} /\ raced' = raced /\ lastId' = lastId + 1
      BY <3>1
    <3>14. slot'[k].id <= lastId'
      BY <1>1, <3>7, <3>13
    <3> QED BY <3>9, <3>10, <3>11, <3>12, <3>13, <3>14 DEF Proceeds, Mints
  <2> QED BY <2>1, <2>2
<1>6. CASE HandleFollow(k)
  <2>1. Decision(You(k), Me(k), Me(k) \in Locked) \notin {"look", "read"}
    BY DEF Decision
  <2> QED BY <1>1, <1>6, <2>1, StepProceeds DEF HandleFollow, tables
<1>7. CASE LookUp(k) \/ ReadUnfollow(k) \/ ReadBlock(k)
  <2>1. CASE LookUp(k)
    BY <1>1, <2>1, StepProceeds DEF LookUp, tables
  <2>2. CASE ReadUnfollow(k) \/ ReadBlock(k)
    BY <1>1, <2>2, StepProceeds DEF ReadUnfollow, ReadBlock, tables
  <2> QED BY <1>7, <2>1, <2>2
<1>8. CASE Establish(k)
  BY <1>1, <1>3, <1>8, WritesAreMinted, StepProceeds DEF Establish, SetFollow
<1>9. CASE Request(k)
  BY <1>1, <1>9, WritesAreMinted, StepProceeds DEF Request, SetPending
<1>10. CASE RemoveFollow(k)
  <2>1. withdrawn' \subseteq withdrawn \cup {Mine(k), Theirs(k)}
    BY <1>4, <1>10 DEF RemoveFollow
  <2> QED BY <1>1, <1>3, <1>10, <2>1, WritesAreMinted, StepProceeds DEF RemoveFollow, SetFollow
<1>11. CASE Withdraw(k)
  BY <1>1, <1>11, WritesAreMinted, StepProceeds DEF Withdraw, Taken, SetPending
<1>12. CASE Promote(k)
  BY <1>1, <1>12, WritesAreMinted, StepProceeds DEF Promote, SetFollow
<1>13. CASE Block(k)
  <2>1. IsCleared(follows', follows, k) /\ IsCleared(pending', pending, k)
    BY <1>13 DEF Block, IsCleared
  <2> QED BY <1>1, <1>3, <1>13, <2>1, WritesAreMinted, StepProceeds DEF Block
<1>14. CASE Unblock(k)
  BY <1>1, <1>3, <1>14, StepProceeds DEF Unblock
<1>15. CASE Take(k)
  <2> DEFINE row == pending[Server(k)][Subject(k)]
  <2>1. /\ RowsAreMinted(follows', lastId) /\ RowsAreMinted(pending', lastId)
        /\ UNCHANGED <<net, bounds, withdrawn>> /\ doubt' \subseteq doubt \cup {Both(k)}
    BY <1>1, <1>15, WritesAreMinted DEF Take, Taken, SetPending
  <2>2. CASE End(k)
    BY <1>1, <2>1, <2>2, StepProceeds
  <2>3. ASSUME NEW step \in {"promote", "send"},
               slot' = [slot EXCEPT ![k].step = step, ![k].id = row], UNCHANGED raced
        PROVE  Proceeds(k)
    <3>1. slot[k] \in Errand /\ slot' \in [Slots -> Errand \cup {FreeSlot}]
      BY <1>1, TaskFields DEF Typed
    <3>2. slot'[k] = [slot[k] EXCEPT !.step = step, !.id = row]
      BY <1>1, <2>3 DEF Typed
    <3>3. slot'[k].op = slot[k].op /\ slot'[k].me = Me(k) /\ slot'[k].you = You(k)
          /\ slot'[k].id = row /\ slot'[k].step = step
      BY <3>1, <3>2 DEF Errand, Me, You
    <3>4. slot' = [slot EXCEPT ![k] = slot'[k]]
      BY <2>3, <3>2
    <3>5. GoesOn(k, slot'[k])
      BY <1>1, <3>1, <3>3, <3>4 DEF GoesOn
    <3>6. row <= lastId
      BY <1>1, TaskFields DEF RowsAreMinted
    <3> QED BY <2>1, <2>3, <3>3, <3>5, <3>6 DEF Proceeds, bounds
  <2> QED BY <1>15, <2>2, <2>3 DEF Take
<1> QED BY <1>5, <1>6, <1>7, <1>8, <1>9, <1>10, <1>11, <1>12, <1>13, <1>14, <1>15 DEF TaskStep, SendRemote, SendLocal

(* The steps that begin, send or lose something mint no id.                *)
LEMMA IdsStayMinted ==
  ASSUME IdsAreMinted, UNCHANGED <<follows, pending, lastId>>,
         \A j \in Slots : slot'[j] \in {slot[j], FreeSlot} \/ slot'[j].id <= lastId,
         \A p \in Pairs : \A i \in DOMAIN net'[p] : net'[p][i].id <= lastId
  PROVE  IdsAreMinted'
<1>1. RowsAreMinted(follows, lastId)' /\ RowsAreMinted(pending, lastId)'
  BY DEF IdsAreMinted, RowsAreMinted
<1>2. \A j \in Slots : Busy(j)' => slot'[j].id <= lastId'
  BY DEF IdsAreMinted, Busy
<1> QED BY <1>1, <1>2 DEF IdsAreMinted

LEMMA SendRemotePays ==
  ASSUME IInv, IInv', Ledger, NEW k \in Slots, SendRemote(k), home' = home
  PROVE  Ledger'
<1>1. /\ Typed /\ CallsPay /\ IdsAreMinted /\ HistoryIsTyped /\ Busy(k) /\ calls \in Nat /\ lastId \in Nat
      /\ slot[k].step = "send" /\ UNCHANGED <<tables, bounds, withdrawn, doubt, raced>>
      /\ slot' = [slot EXCEPT ![k] = FreeSlot]
  BY DEF IInv, Ledger, Typed, HistoryIsTyped, SendRemote, At, End
<1>2. /\ slot[k].op \in {"follow", "unfollow", "block", "unblock", "authorize", "reject", "Follow"}
      /\ Mine(k) \in Pairs /\ Theirs(k) = Back(Mine(k)) /\ slot[k].id \in Nat /\ slot[k].id <= lastId
  BY <1>1, TaskFields DEF MayBeAt, IdsAreMinted, Mine, Theirs, Back
<1>3. PICK sent \in Activity :
        /\ sent.type = Sends[slot[k].op] /\ sent.id = slot[k].id
        /\ net' = [net EXCEPT ![Mine(k)] = Append(net[Mine(k)], sent)]
  <2> DEFINE sent == [type |-> Sends[slot[k].op], id |-> slot[k].id]
  <2>1. sent \in Activity
    BY <1>2 DEF Activity, Sends, Handlers
  <2>2. net' = [net EXCEPT ![Mine(k)] = Append(net[Mine(k)], sent)]
    BY DEF SendRemote
  <2> QED BY <2>1, <2>2
<1>4. sent.type = "Follow" <=> slot[k].op = "follow"
  BY <1>2, <1>3 DEF Sends
<1>5. net'[Mine(k)] = Append(net[Mine(k)], sent) /\ \A p \in Pairs : p # Mine(k) => net'[p] = net[p]
  BY <1>2, <1>3 DEF Typed, IInv
<1>6. /\ \A p : k \in Sending(p) <=> Mine(k) = p
      /\ \A p : k \in Asking(p) <=> Theirs(k) = p /\ slot[k].op = "follow"
      /\ \A p : k \notin Sending(p)' /\ k \notin Asking(p)'
      /\ k \notin Minting'
  BY <1>1, <1>2, SlotOwes DEF ApiOps
<1>7. ASSUME NEW p \in Pairs
      PROVE  IsFiniteSet(Sending(p)') /\ IsFiniteSet(Asking(p)') /\ Due(p)' <= calls'
  <2>1. /\ IsFiniteSet(Sending(p)') /\ IsFiniteSet(Asking(p)')
        /\ Cardinality(Sending(p)) \in Nat /\ Cardinality(Sending(p)') \in Nat
        /\ Cardinality(Asking(p)) \in Nat /\ Cardinality(Asking(p)') \in Nat
        /\ Cardinality(Sending(p)') <= Cardinality(Sending(p))
        /\ Cardinality(Asking(p)') <= Cardinality(Asking(p))
        /\ p = Mine(k) => Cardinality(Sending(p)') = Cardinality(Sending(p)) - 1
        /\ p = Theirs(k) /\ slot[k].op = "follow" => Cardinality(Asking(p)') = Cardinality(Asking(p)) - 1
    BY <1>1, <1>6, SlotCounts
  <2>2. /\ Back(p) \in Pairs /\ Back(p) # p /\ Back(Back(p)) = p
        /\ Len(net[p]) \in Nat /\ Cardinality(Follows(net[Back(p)])) \in Nat
        /\ net[p] \in Seq(Activity) /\ net[Back(p)] \in Seq(Activity)
    BY <1>1, QueuesCount
  <2>3. Due(p) <= calls /\ calls' = calls /\ calls \in Nat
    BY <1>1 DEF CallsPay, bounds
  <2>7. /\ Due(p) = Len(net[p]) + Cardinality(Follows(net[Back(p)]))
                   + (Cardinality(Sending(p)) + Cardinality(Asking(p)))
        /\ Due(p)' = Len(net'[p]) + Cardinality(Follows(net'[Back(p)]))
                    + (Cardinality(Sending(p)') + Cardinality(Asking(p)'))
    BY DEF Due, Owed
  <2>8. /\ Cardinality(Sending(p)) \in Nat /\ Cardinality(Sending(p)') \in Nat
        /\ Cardinality(Asking(p)) \in Nat /\ Cardinality(Asking(p)') \in Nat
        /\ Cardinality(Sending(p)') <= Cardinality(Sending(p))
        /\ Cardinality(Asking(p)') <= Cardinality(Asking(p))
    BY <2>1
  <2>4. CASE p = Mine(k)
    <3>1. Len(net'[p]) = Len(net[p]) + 1
      BY <1>5, <2>2, <2>4, AppendCounts
    <3>2. net'[Back(p)] = net[Back(p)]
      BY <1>5, <2>2, <2>4
    <3>3. Due(p)' <= calls
      <4>1. Cardinality(Sending(p)') = Cardinality(Sending(p)) - 1
        BY <2>1, <2>4
      <4>2. Len(net[p]) + Cardinality(Follows(net[Back(p)]))
              + (Cardinality(Sending(p)) + Cardinality(Asking(p))) <= calls
        BY <2>3, <2>7
      <4>3. Len(net'[p]) + Cardinality(Follows(net'[Back(p)]))
              + (Cardinality(Sending(p)') + Cardinality(Asking(p)')) <= calls
        <5>1. /\ Len(net[p]) \in Nat /\ Len(net'[p]) = Len(net[p]) + 1
              /\ Cardinality(Follows(net[Back(p)])) \in Nat
              /\ Cardinality(Follows(net'[Back(p)])) = Cardinality(Follows(net[Back(p)]))
          BY <2>2, <3>1, <3>2
        <5>2. /\ Cardinality(Sending(p)) \in Nat /\ Cardinality(Asking(p)) \in Nat
              /\ Cardinality(Asking(p)') \in Nat /\ Cardinality(Asking(p)') <= Cardinality(Asking(p))
          BY <2>8
        <5>3. calls \in Nat
          BY <2>3
        <5> QED BY <4>1, <4>2, <5>1, <5>2, <5>3
      <4> QED BY <2>7, <4>3
    <3> QED BY <2>1, <2>3, <3>3
  <2>5. CASE p = Theirs(k)
    <3>1. Back(p) = Mine(k) /\ p # Mine(k) /\ net'[p] = net[p]
      <4>1. Back(p) = Mine(k)
        BY <1>1, <1>2, <2>5, QueuesCount
      <4> QED BY <1>5, <2>2, <4>1
    <3>2. /\ Cardinality(Follows(net'[Back(p)])) \in Nat
          /\ Cardinality(Follows(net'[Back(p)])) <= Cardinality(Follows(net[Back(p)])) + 1
          /\ slot[k].op # "follow" => Cardinality(Follows(net'[Back(p)])) = Cardinality(Follows(net[Back(p)]))
      BY <1>3, <1>4, <1>5, <2>2, <3>1, AppendCounts
    <3>3. Due(p)' <= calls
      <4>1. /\ Cardinality(Sending(p)') <= Cardinality(Sending(p))
            /\ Cardinality(Asking(p)') <= Cardinality(Asking(p))
            /\ Cardinality(Follows(net'[Back(p)])) + Cardinality(Asking(p)')
                 <= Cardinality(Follows(net[Back(p)])) + Cardinality(Asking(p))
        <5>1. CASE slot[k].op = "follow"
          <6>1. Cardinality(Asking(p)') = Cardinality(Asking(p)) - 1
            BY <2>1, <2>5, <5>1
          <6> QED BY <2>2, <2>8, <3>2, <6>1
        <5>2. CASE slot[k].op # "follow"
          <6>1. Cardinality(Follows(net'[Back(p)])) = Cardinality(Follows(net[Back(p)]))
            BY <3>2, <5>2
          <6> QED BY <2>2, <2>8, <6>1
        <5> QED BY <2>8, <5>1, <5>2
      <4>2. Len(net'[p]) = Len(net[p]) /\ Len(net[p]) \in Nat /\ calls \in Nat
            /\ Cardinality(Follows(net[Back(p)])) \in Nat
        BY <2>2, <2>3, <3>1
      <4>3. Cardinality(Follows(net'[Back(p)])) \in Nat
        BY <3>2
      <4>4. Len(net'[p]) + Cardinality(Follows(net'[Back(p)]))
              + (Cardinality(Sending(p)') + Cardinality(Asking(p)')) <= calls
        <5>1. Len(net[p]) + Cardinality(Follows(net[Back(p)]))
              + (Cardinality(Sending(p)) + Cardinality(Asking(p))) <= calls
          BY <2>3, <2>7
        <5>2. PICK l \in Nat, f \in Nat, t \in Nat, a \in Nat :
                     /\ l = Len(net[p]) /\ f = Cardinality(Follows(net[Back(p)]))
                     /\ t = Cardinality(Sending(p)) /\ a = Cardinality(Asking(p))
          BY <2>2, <2>8
        <5>3. PICK ff \in Nat, tt \in Nat, aa \in Nat :
                     /\ ff = Cardinality(Follows(net'[Back(p)]))
                     /\ tt = Cardinality(Sending(p)') /\ aa = Cardinality(Asking(p)')
          BY <2>8, <4>3
        <5>4. tt <= t /\ ff + aa <= f + a /\ l + f + (t + a) <= calls /\ calls \in Nat
          BY <4>1, <4>2, <5>1, <5>2, <5>3
        <5>5. l + ff + (tt + aa) <= calls
          BY <5>4
        <5> QED BY <4>2, <5>2, <5>3, <5>5
      <4> QED BY <2>7, <4>4
    <3> QED BY <2>1, <2>3, <3>3
  <2>6. CASE p # Mine(k) /\ p # Theirs(k)
    <3>1. net'[p] = net[p] /\ net'[Back(p)] = net[Back(p)]
      BY <1>2, <1>5, <2>2, <2>6
    <3>2. Len(net'[p]) = Len(net[p]) /\ Len(net[p]) \in Nat
          /\ Cardinality(Follows(net'[Back(p)])) = Cardinality(Follows(net[Back(p)]))
          /\ Cardinality(Follows(net[Back(p)])) \in Nat
      BY <2>2, <3>1
    <3>3. Due(p)' <= calls
      BY <2>3, <2>7, <2>8, <3>2
    <3> QED BY <2>1, <2>3, <3>3
  <2> QED BY <2>4, <2>5, <2>6
<1>8. IsFiniteSet(Minting') /\ lastId' + Cardinality(Minting') <= calls'
  <2>1. IsFiniteSet(Minting') /\ Cardinality(Minting) \in Nat /\ Cardinality(Minting') \in Nat
        /\ Cardinality(Minting') <= Cardinality(Minting)
    BY <1>1, <1>6, MintingCounts
  <2>2. lastId + Cardinality(Minting) <= calls /\ lastId' = lastId /\ calls' = calls
    BY <1>1 DEF CallsPay, bounds
  <2> QED BY <1>1, <2>1, <2>2
<1>9. IdsAreMinted'
  <2>1. \A j \in Slots : slot'[j] \in {slot[j], FreeSlot}
    BY <1>1, SlotsStayTyped
  <2>2. ASSUME NEW p \in Pairs, NEW i \in DOMAIN net'[p] PROVE net'[p][i].id <= lastId
    <3>1. CASE p = Mine(k)
      <4>1. net'[p][i] = sent \/ \E h \in DOMAIN net[p] : net'[p][i] = net[p][h]
        <5>1. net[p] \in Seq(Activity) /\ net'[p] = Append(net[p], sent)
          BY <1>1, <1>5, <3>1, QueuesCount
        <5> QED BY <2>2, <5>1, AppendCounts
      <4> QED BY <1>1, <1>2, <1>3, <4>1 DEF IdsAreMinted
    <3>2. CASE p # Mine(k)
      BY <1>1, <1>5, <2>2, <3>2 DEF IdsAreMinted
    <3> QED BY <3>1, <3>2
  <2> QED BY <1>1, <2>1, <2>2, IdsStayMinted DEF tables, bounds
<1>10. HistoryIsTyped'
  BY <1>1 DEF HistoryIsTyped, bounds
<1> QED BY <1>7, <1>8, <1>9, <1>10 DEF Ledger, CallsPay

(* A new task in a free slot owes at most one activity to any account.     *)
LEMMA NewTaskOwes ==
  ASSUME Typed, CallsPay, NEW k \in Slots, ~Busy(k), NEW t \in Errand, slot' = [slot EXCEPT ![k] = t],
         NEW p \in Pairs
  PROVE  /\ IsFiniteSet(Sending(p)') /\ IsFiniteSet(Asking(p)')
         /\ Owed(p) \in Nat /\ Owed(p)' \in Nat
         /\ Owed(p)' <= Owed(p) + 1
         /\ t.op \in Handlers /\ (t.op = "Follow" => <<t.me, t.you>> # p) => Owed(p)' <= Owed(p)
<1>1. t.me # t.you /\ t # FreeSlot
  BY ErrandsAreBusy DEF Errand
<1>2. /\ k \in Sending(p)' <=> <<t.me, t.you>> = p /\ t.op \in ApiOps \cup {"Follow"}
      /\ k \in Asking(p)' <=> <<t.you, t.me>> = p /\ t.op = "follow"
  BY <1>1, SlotOwes
<1>3. k \notin Sending(p)' \/ k \notin Asking(p)'
  BY <1>1, <1>2
<1>4. t.op \in Handlers /\ (t.op = "Follow" => <<t.me, t.you>> # p)
        => k \notin Sending(p)' /\ k \notin Asking(p)'
  BY <1>2 DEF ApiOps, Handlers
<1>5. /\ IsFiniteSet(Sending(p)') /\ IsFiniteSet(Asking(p)')
      /\ Cardinality(Sending(p)) \in Nat /\ Cardinality(Sending(p)') \in Nat
      /\ Cardinality(Asking(p)) \in Nat /\ Cardinality(Asking(p)') \in Nat
      /\ k \notin Sending(p)' => Cardinality(Sending(p)') <= Cardinality(Sending(p))
      /\ k \notin Asking(p)' => Cardinality(Asking(p)') <= Cardinality(Asking(p))
      /\ Cardinality(Sending(p)') <= Cardinality(Sending(p)) + 1
      /\ Cardinality(Asking(p)') <= Cardinality(Asking(p)) + 1
  BY SlotCounts
<1>6. Owed(p) = Cardinality(Sending(p)) + Cardinality(Asking(p))
      /\ Owed(p)' = Cardinality(Sending(p)') + Cardinality(Asking(p)')
  BY DEF Owed
<1> QED BY <1>3, <1>4, <1>5, <1>6

LEMMA DuesAreSums ==
  ASSUME Typed, CallsPay, NEW p \in Pairs
  PROVE  /\ Due(p) = Len(net[p]) + Cardinality(Follows(net[Back(p)])) + Owed(p)
         /\ Due(p)' = Len(net'[p]) + Cardinality(Follows(net'[Back(p)])) + Owed(p)'
         /\ Due(p) <= calls
BY DEF Due, CallsPay

LEMMA CallPays ==
  ASSUME IInv, IInv', Ledger, NEW k \in Slots, NEW op \in ApiOps, NEW q \in Pairs,
         Call(k, op, q[1], q[2]), home' = home
  PROVE  Ledger'
<1>1. /\ Typed /\ Typed' /\ CallsPay /\ IdsAreMinted /\ HistoryIsTyped /\ ~Busy(k)
      /\ calls \in Nat /\ calls < MaxCalls /\ calls' = calls + 1 /\ lastId \in Nat
      /\ UNCHANGED <<tables, net, lastId, lost, faults, withdrawn, doubt>>
      /\ Begin(k, op, q[1], q[2], None)
  BY SocialGraphAssumption DEF IInv, Ledger, Typed, HistoryIsTyped, Call
<1>2. PICK t : t = NewTask(op, q[1], q[2], None)
  OBVIOUS
<1>3. slot' = [slot EXCEPT ![k] = t] /\ slot'[k] = t
  BY <1>1, <1>2 DEF Begin, NewTask, Typed
<1>4. t # FreeSlot /\ t.id = None /\ t.op = op
  BY <1>2 DEF NewTask, FreeSlot
<1>5. t \in Errand
  BY <1>1, <1>3, <1>4 DEF Typed
<1>6. ASSUME NEW p \in Pairs
      PROVE  IsFiniteSet(Sending(p)') /\ IsFiniteSet(Asking(p)') /\ Due(p)' <= calls'
  <2>1. IsFiniteSet(Sending(p)') /\ IsFiniteSet(Asking(p)') /\ Owed(p) \in Nat /\ Owed(p)' \in Nat
        /\ Owed(p)' <= Owed(p) + 1
    BY <1>1, <1>3, <1>5, NewTaskOwes
  <2>2. Len(net[p]) \in Nat /\ Cardinality(Follows(net[Back(p)])) \in Nat /\ net' = net
    BY <1>1, QueuesCount
  <2>3. Due(p)' <= calls + 1
    BY <1>1, <2>1, <2>2, DuesAreSums
  <2> QED BY <1>1, <2>1, <2>3
<1>7. IsFiniteSet(Minting') /\ lastId' + Cardinality(Minting') <= calls'
  <2>1. IsFiniteSet(Minting') /\ Cardinality(Minting) \in Nat /\ Cardinality(Minting') \in Nat
        /\ Cardinality(Minting') <= Cardinality(Minting) + 1
    BY <1>1, <1>3, <1>5, MintingCounts
  <2>2. lastId + Cardinality(Minting) <= calls /\ lastId' = lastId
    BY <1>1 DEF CallsPay
  <2> QED BY <1>1, <2>1, <2>2
<1>8. IdsAreMinted'
  <2>1. \A j \in Slots : slot'[j] \in {slot[j], FreeSlot} \/ slot'[j].id <= lastId
    <3>1. slot'[k].id <= lastId
      BY <1>1, <1>3, <1>4 DEF None
    <3> QED BY <1>1, <1>3, <1>5, <3>1, SlotsStayTyped
  <2> QED BY <1>1, <2>1, IdsStayMinted DEF tables, IdsAreMinted
<1>9. HistoryIsTyped'
  <2>1. q[1] \in Accounts /\ q[2] \in Accounts
    BY DEF Pairs
  <2>2. raced' \subseteq raced \cup {<<home[q[1]], {q[1], q[2]}>>}
    BY <1>1 DEF Begin
  <2>3. home[q[1]] \in Servers
    BY <1>1, <2>1 DEF Typed
  <2>4. raced' \subseteq Servers \X SUBSET Accounts
    BY <2>1, <2>2, <2>3, <1>1 DEF HistoryIsTyped
  <2>5. calls' \in 0..MaxCalls
    BY <1>1, SocialGraphAssumption
  <2> QED BY <1>1, <2>4, <2>5 DEF HistoryIsTyped
<1> QED BY <1>6, <1>7, <1>8, <1>9 DEF Ledger, CallsPay

LEMMA ReceivePays ==
  ASSUME IInv, IInv', Ledger, NEW k \in Slots, NEW q \in Pairs, NEW i \in DOMAIN net[q],
         Receive(k, q, i), home' = home
  PROVE  Ledger'
<1>1. /\ Typed /\ Typed' /\ CallsPay /\ IdsAreMinted /\ HistoryIsTyped /\ ~Busy(k)
      /\ calls \in Nat /\ lastId \in Nat
      /\ UNCHANGED <<tables, bounds, withdrawn>>
      /\ net' = [net EXCEPT ![q] = RemoveAt(net[q], i)]
      /\ doubt' \subseteq doubt \cup {{q[1], q[2]}}
      /\ Begin(k, net[q][i].type, q[2], q[1], net[q][i].id)
  BY DEF IInv, Ledger, Typed, HistoryIsTyped, Receive, Arrive
<1>2. /\ net[q] \in Seq(Activity) /\ net'[q] = RemoveAt(net[q], i)
      /\ \A p \in Pairs : p # q => net'[p] = net[p]
  BY <1>1 DEF Typed
<1>3. PICK msg \in Activity : msg = net[q][i]
  BY <1>2
<1>4. msg.type \in Handlers /\ msg.id \in Nat /\ msg.id <= lastId
  BY <1>1, <1>3 DEF Activity, IdsAreMinted
<1>5. PICK t : t = NewTask(msg.type, q[2], q[1], msg.id)
  OBVIOUS
<1>6. slot' = [slot EXCEPT ![k] = t] /\ slot'[k] = t
  BY <1>1, <1>3, <1>5 DEF Begin, NewTask, Typed
<1>7. t # FreeSlot /\ t.id = msg.id /\ t.op = msg.type /\ <<t.me, t.you>> = Back(q)
  BY <1>5 DEF NewTask, FreeSlot, Back
<1>8. t \in Errand
  BY <1>1, <1>6, <1>7 DEF Typed
<1>9. /\ Len(net'[q]) = Len(net[q]) - 1 /\ Len(net'[q]) \in Nat
      /\ Cardinality(Follows(net[q])) \in Nat /\ Cardinality(Follows(net'[q])) \in Nat
      /\ Cardinality(Follows(net'[q])) <= Cardinality(Follows(net[q]))
      /\ msg.type = "Follow" => Cardinality(Follows(net'[q])) <= Cardinality(Follows(net[q])) - 1
      /\ \A h \in DOMAIN net'[q] : \E j \in DOMAIN net[q] : net'[q][h] = net[q][j]
  <2>1. PICK r : r = RemoveAt(net[q], i)
    OBVIOUS
  <2>2. /\ Len(r) = Len(net[q]) - 1
        /\ Cardinality(Follows(net[q])) \in Nat /\ Cardinality(Follows(r)) \in Nat
        /\ Cardinality(Follows(r)) <= Cardinality(Follows(net[q]))
        /\ net[q][i].type = "Follow" => Cardinality(Follows(r)) <= Cardinality(Follows(net[q])) - 1
        /\ \A h \in DOMAIN r : \E j \in DOMAIN net[q] : r[h] = net[q][j]
    BY <1>2, <2>1, RemovalCounts
  <2>3. r \in Seq(Activity) /\ net'[q] = r
    BY <1>2, <2>1, RemovalCounts
  <2>4. Len(r) \in Nat
    BY <2>3
  <2> QED BY <1>3, <2>2, <2>3, <2>4
<1>10. ASSUME NEW p \in Pairs
      PROVE  IsFiniteSet(Sending(p)') /\ IsFiniteSet(Asking(p)') /\ Due(p)' <= calls'
  <2>1. /\ IsFiniteSet(Sending(p)') /\ IsFiniteSet(Asking(p)') /\ Owed(p) \in Nat /\ Owed(p)' \in Nat
        /\ Owed(p)' <= Owed(p) + 1
        /\ ~(msg.type = "Follow" /\ p = Back(q)) => Owed(p)' <= Owed(p)
    BY <1>1, <1>4, <1>6, <1>7, <1>8, NewTaskOwes
  <2>2. /\ Len(net[p]) \in Nat /\ Cardinality(Follows(net[Back(p)])) \in Nat /\ calls' = calls
        /\ Back(p) \in Pairs /\ Back(p) # p /\ Back(Back(p)) = p
    BY <1>1, QueuesCount DEF bounds
  <2>3. Len(net'[p]) \in Nat /\ Len(net'[p]) <= Len(net[p])
    BY <1>2, <1>9, <2>2
  <2>4. /\ Cardinality(Follows(net'[Back(p)])) \in Nat
        /\ Cardinality(Follows(net'[Back(p)])) + Owed(p)' <= Cardinality(Follows(net[Back(p)])) + Owed(p)
    <3>1. CASE p = Back(q)
      <4>1. Back(p) = q
        BY <1>1, <3>1, QueuesCount
      <4>2. CASE msg.type = "Follow"
        BY <1>9, <2>1, <4>1, <4>2
      <4>3. CASE msg.type # "Follow"
        BY <1>9, <2>1, <4>1, <4>3
      <4> QED BY <4>2, <4>3
    <3>2. CASE p # Back(q)
      <4>1. Back(p) # q
        BY <2>2, <3>2
      <4>2. net'[Back(p)] = net[Back(p)] /\ Owed(p)' <= Owed(p)
        BY <1>2, <2>1, <2>2, <3>2, <4>1
      <4> QED BY <2>1, <2>2, <4>2
    <3> QED BY <3>1, <3>2
  <2>5. Due(p)' <= calls
    <3>1. PICK l \in Nat, f \in Nat, o \in Nat :
                 l = Len(net[p]) /\ f = Cardinality(Follows(net[Back(p)])) /\ o = Owed(p)
      BY <2>1, <2>2
    <3>2. PICK ll \in Nat, ff \in Nat, oo \in Nat :
                 ll = Len(net'[p]) /\ ff = Cardinality(Follows(net'[Back(p)])) /\ oo = Owed(p)'
      BY <2>1, <2>3, <2>4
    <3>3. ll <= l /\ ff + oo <= f + o
      BY <2>3, <2>4, <3>1, <3>2
    <3>4. ll + ff + oo <= l + f + o
      BY <3>3
    <3>5. /\ Due(p) = Len(net[p]) + Cardinality(Follows(net[Back(p)])) + Owed(p)
          /\ Due(p)' = Len(net'[p]) + Cardinality(Follows(net'[Back(p)])) + Owed(p)'
          /\ Due(p) <= calls
      BY <1>1, DuesAreSums
    <3>6. calls \in Nat
      BY <1>1
    <3>7. Due(p) = l + f + o /\ Due(p)' = ll + ff + oo
      BY <3>1, <3>2, <3>5
    <3> QED BY <3>5, <3>6, <3>4, <3>7
  <2> QED BY <2>1, <2>2, <2>5
<1>11. IsFiniteSet(Minting') /\ lastId' + Cardinality(Minting') <= calls'
  <2>1. k \notin Minting'
    BY <1>1, <1>4, <1>6, <1>7, <1>8, SlotOwes DEF Handlers
  <2>2. IsFiniteSet(Minting') /\ Cardinality(Minting) \in Nat /\ Cardinality(Minting') \in Nat
        /\ Cardinality(Minting') <= Cardinality(Minting)
    BY <1>1, <1>6, <1>8, <2>1, MintingCounts
  <2>3. lastId + Cardinality(Minting) <= calls /\ lastId' = lastId /\ calls' = calls
    BY <1>1 DEF CallsPay, bounds
  <2> QED BY <1>1, <2>2, <2>3
<1>12. IdsAreMinted'
  <2>1. \A j \in Slots : slot'[j] \in {slot[j], FreeSlot} \/ slot'[j].id <= lastId
    <3>1. slot'[k].id <= lastId
      BY <1>4, <1>6, <1>7
    <3> QED BY <1>1, <1>6, <1>8, <3>1, SlotsStayTyped
  <2>2. \A p \in Pairs : \A h \in DOMAIN net'[p] : net'[p][h].id <= lastId
    BY <1>1, <1>2, <1>9 DEF IdsAreMinted
  <2> QED BY <1>1, <2>1, <2>2, IdsStayMinted DEF tables, bounds
<1>13. HistoryIsTyped'
  <2>1. q[1] \in Accounts /\ q[2] \in Accounts
    BY DEF Pairs
  <2>2. raced' \subseteq raced \cup {<<home[q[2]], {q[2], q[1]}>>}
    BY <1>1 DEF Begin
  <2>3. home[q[2]] \in Servers
    BY <1>1, <2>1 DEF Typed
  <2>4. raced' \subseteq Servers \X SUBSET Accounts
    BY <1>1, <2>1, <2>2, <2>3 DEF HistoryIsTyped
  <2> QED BY <1>1, <2>1, <2>4 DEF HistoryIsTyped, bounds
<1> QED BY <1>10, <1>11, <1>12, <1>13 DEF Ledger, CallsPay

LEMMA EndingPays ==
  ASSUME IInv, IInv', Ledger, NEW k \in Slots, Busy(k), End(k), UNCHANGED <<tables, net, calls, lastId>>
  PROVE  CallsPay' /\ IdsAreMinted'
<1>1. /\ Typed /\ CallsPay /\ IdsAreMinted /\ calls \in Nat /\ slot' = [slot EXCEPT ![k] = FreeSlot]
  BY DEF IInv, Ledger, HistoryIsTyped, End
<1>2. GoesOn(k, slot'[k])
  BY <1>1, EndsProceed
<1>3. CallsPay'
  BY <1>1, <1>2, GoingOnPays
<1>4. \A j \in Slots : slot'[j] \in {slot[j], FreeSlot}
  BY <1>1, SlotsStayTyped
<1>5. IdsAreMinted'
  BY <1>1, <1>4, IdsStayMinted DEF tables, IdsAreMinted
<1> QED BY <1>3, <1>5

LEMMA SendLocalPays ==
  ASSUME IInv, IInv', Ledger, NEW k \in Slots, SendLocal(k), home' = home
  PROVE  Ledger'
<1>1. /\ Typed /\ Typed' /\ CallsPay /\ IdsAreMinted /\ HistoryIsTyped /\ Busy(k) /\ slot[k].step = "send"
      /\ calls \in Nat /\ lastId \in Nat
      /\ UNCHANGED <<tables, net, bounds, withdrawn, doubt>>
      /\ End(k) \/ Begin(k, Sends[slot[k].op], You(k), Me(k), slot[k].id)
  BY DEF IInv, Ledger, Typed, HistoryIsTyped, SendLocal, At
<1>2. /\ slot[k].op \in {"follow", "unfollow", "block", "unblock", "authorize", "reject", "Follow"}
      /\ Me(k) \in Accounts /\ You(k) \in Accounts /\ Me(k) # You(k)
      /\ slot[k].id \in Nat /\ slot[k].id <= lastId /\ Server(k) \in Servers
  BY <1>1, TaskFields DEF MayBeAt, IdsAreMinted
<1>3. CASE End(k)
  <2>1. HistoryIsTyped'
    BY <1>1, <1>3 DEF HistoryIsTyped, End, bounds
  <2> QED BY <1>1, <1>3, <2>1, EndingPays DEF Ledger, bounds
<1>4. CASE Begin(k, Sends[slot[k].op], You(k), Me(k), slot[k].id)
  <2>1. PICK op \in Handlers : op = Sends[slot[k].op] /\ (op = "Follow" <=> slot[k].op = "follow")
    BY <1>2 DEF Handlers, Sends
  <2>2. PICK t : t = NewTask(op, You(k), Me(k), slot[k].id)
    OBVIOUS
  <2>3. slot' = [slot EXCEPT ![k] = t] /\ slot'[k] = t
    BY <1>1, <1>4, <2>1, <2>2 DEF Begin, NewTask, Typed
  <2>4. t # FreeSlot /\ t.id = slot[k].id /\ t.op = op /\ <<t.me, t.you>> = Theirs(k)
        /\ <<t.you, t.me>> = Mine(k)
    BY <2>2 DEF NewTask, FreeSlot, Mine, Theirs
  <2>5. t \in Errand
    BY <1>1, <2>3, <2>4 DEF Typed
  <2>6. Mine(k) # Theirs(k) /\ op # "follow" /\ slot[k].op \in ApiOps \cup {"Follow"}
        /\ op \notin ApiOps
    BY <1>2, <2>1 DEF Mine, Theirs, Handlers, ApiOps
  <2>7. ASSUME NEW p \in Pairs
        PROVE  IsFiniteSet(Sending(p)') /\ IsFiniteSet(Asking(p)') /\ Due(p)' <= calls'
    <3>1. /\ k \in Sending(p) <=> Mine(k) = p
          /\ k \in Asking(p) <=> Theirs(k) = p /\ slot[k].op = "follow"
          /\ k \in Sending(p)' <=> Theirs(k) = p /\ op = "Follow"
          /\ k \notin Asking(p)'
      <4>1. /\ k \in Sending(p) <=> Busy(k) /\ Mine(k) = p /\ slot[k].op \in ApiOps \cup {"Follow"}
            /\ k \in Asking(p) <=> Busy(k) /\ Theirs(k) = p /\ slot[k].op = "follow"
            /\ k \in Sending(p)' <=>
                 t # FreeSlot /\ <<t.me, t.you>> = p /\ t.op \in ApiOps \cup {"Follow"}
            /\ k \in Asking(p)' <=> t # FreeSlot /\ <<t.you, t.me>> = p /\ t.op = "follow"
        BY <1>1, <2>3, <2>5, SlotOwes
      <4> QED BY <1>1, <2>4, <2>6, <4>1
    <3>2. /\ IsFiniteSet(Sending(p)') /\ IsFiniteSet(Asking(p)')
          /\ Cardinality(Sending(p)) \in Nat /\ Cardinality(Sending(p)') \in Nat
          /\ Cardinality(Asking(p)) \in Nat /\ Cardinality(Asking(p)') \in Nat
          /\ Cardinality(Asking(p)') <= Cardinality(Asking(p))
          /\ Cardinality(Sending(p)') <= Cardinality(Sending(p)) + 1
          /\ k \notin Sending(p)' => Cardinality(Sending(p)') <= Cardinality(Sending(p))
          /\ k \in Asking(p) => Cardinality(Asking(p)') = Cardinality(Asking(p)) - 1
      BY <1>1, <2>3, <2>5, <3>1, SlotCounts
    <3>3. Owed(p) \in Nat /\ Owed(p)' \in Nat /\ Owed(p)' <= Owed(p)
      <4>1. CASE k \in Sending(p)'
        <5>1. k \in Asking(p)
          BY <2>1, <3>1, <4>1
        <5> QED BY <3>2, <5>1 DEF Owed
      <4>2. CASE k \notin Sending(p)'
        BY <3>2, <4>2 DEF Owed
      <4> QED BY <4>1, <4>2
    <3>4. Len(net[p]) \in Nat /\ Cardinality(Follows(net[Back(p)])) \in Nat /\ net' = net /\ calls' = calls
      BY <1>1, QueuesCount DEF bounds
    <3>5. Due(p)' <= calls
      BY <1>1, <3>3, <3>4, DuesAreSums
    <3> QED BY <3>2, <3>4, <3>5
  <2>8. IsFiniteSet(Minting') /\ lastId' + Cardinality(Minting') <= calls'
    <3>1. k \notin Minting'
      BY <1>1, <2>3, <2>4, <2>5, <2>6, SlotOwes
    <3>2. IsFiniteSet(Minting') /\ Cardinality(Minting) \in Nat /\ Cardinality(Minting') \in Nat
          /\ Cardinality(Minting') <= Cardinality(Minting)
      BY <1>1, <2>3, <2>5, <3>1, MintingCounts
    <3>3. lastId + Cardinality(Minting) <= calls /\ lastId' = lastId /\ calls' = calls
      BY <1>1 DEF CallsPay, bounds
    <3> QED BY <1>1, <3>2, <3>3
  <2>9. IdsAreMinted'
    <3>1. \A j \in Slots : slot'[j] \in {slot[j], FreeSlot} \/ slot'[j].id <= lastId
      <4>1. slot'[k].id <= lastId
        BY <1>2, <2>3, <2>4
      <4> QED BY <1>1, <2>3, <2>5, <4>1, SlotsStayTyped
    <3> QED BY <1>1, <3>1, IdsStayMinted DEF tables, bounds, IdsAreMinted
  <2>10. HistoryIsTyped'
    <3>1. raced' \subseteq raced \cup {<<home[You(k)], {You(k), Me(k)}>>}
      BY <1>4 DEF Begin
    <3>2. home[You(k)] \in Servers
      BY <1>1, <1>2 DEF Typed
    <3>3. raced' \subseteq Servers \X SUBSET Accounts
      BY <1>1, <1>2, <3>1, <3>2 DEF HistoryIsTyped
    <3> QED BY <1>1, <3>3 DEF HistoryIsTyped, bounds
  <2> QED BY <2>7, <2>8, <2>9, <2>10 DEF Ledger, CallsPay
<1> QED BY <1>1, <1>3, <1>4

LEMMA DiePays ==
  ASSUME IInv, IInv', Ledger, NEW k \in Slots, Die(k), home' = home
  PROVE  Ledger'
<1>1. CallsPay' /\ IdsAreMinted'
  BY EndingPays DEF Die
<1>2. HistoryIsTyped'
  <2>1. Both(k) \subseteq Accounts
    BY TaskFields DEF Die, IInv, Both
  <2> QED BY <2>1, SocialGraphAssumption DEF Die, End, HistoryIsTyped, Ledger
<1> QED BY <1>1, <1>2 DEF Ledger

LEMMA LosePays ==
  ASSUME IInv, IInv', Ledger, NEW q \in Pairs, NEW i \in DOMAIN net[q], Lose(q, i), home' = home
  PROVE  Ledger'
<1>1. /\ Typed /\ CallsPay /\ IdsAreMinted /\ HistoryIsTyped /\ calls \in Nat /\ lastId \in Nat
      /\ UNCHANGED <<tables, slot, calls, lastId, faults, raced, withdrawn>>
      /\ net' = [net EXCEPT ![q] = RemoveAt(net[q], i)]
  BY DEF IInv, Ledger, Typed, HistoryIsTyped, Lose
<1>2. /\ net[q] \in Seq(Activity) /\ net'[q] = RemoveAt(net[q], i)
      /\ \A p \in Pairs : p # q => net'[p] = net[p]
  BY <1>1 DEF Typed
<1>3. /\ Len(net'[q]) = Len(net[q]) - 1 /\ Len(net'[q]) \in Nat
      /\ Cardinality(Follows(net[q])) \in Nat /\ Cardinality(Follows(net'[q])) \in Nat
      /\ Cardinality(Follows(net'[q])) <= Cardinality(Follows(net[q]))
      /\ \A h \in DOMAIN net'[q] : \E j \in DOMAIN net[q] : net'[q][h] = net[q][j]
  <2>1. PICK r : r = RemoveAt(net[q], i)
    OBVIOUS
  <2>2. /\ Len(r) = Len(net[q]) - 1
        /\ Cardinality(Follows(net[q])) \in Nat /\ Cardinality(Follows(r)) \in Nat
        /\ Cardinality(Follows(r)) <= Cardinality(Follows(net[q]))
        /\ net[q][i].type = "Follow" => Cardinality(Follows(r)) <= Cardinality(Follows(net[q])) - 1
        /\ \A h \in DOMAIN r : \E j \in DOMAIN net[q] : r[h] = net[q][j]
    BY <1>2, <2>1, RemovalCounts
  <2>3. r \in Seq(Activity) /\ net'[q] = r
    BY <1>2, <2>1, RemovalCounts
  <2>4. Len(r) \in Nat
    BY <2>3
  <2> QED BY <2>2, <2>3, <2>4
<1>4. /\ \A p : Sending(p)' = Sending(p) /\ Asking(p)' = Asking(p)
      /\ Minting' = Minting
  BY <1>1 DEF Sending, Asking, Minting, At, Busy, Mine, Theirs, Me, You
<1>5. ASSUME NEW p \in Pairs PROVE Due(p)' <= calls
  <2>1. Owed(p)' = Owed(p) /\ Owed(p) \in Nat
    BY <1>1, <1>4, FS_CardinalityType DEF Owed, CallsPay
  <2>2. Len(net'[p]) \in Nat /\ Len(net[p]) \in Nat /\ Len(net'[p]) <= Len(net[p])
    BY <1>1, <1>2, <1>3, QueuesCount
  <2>3. /\ Cardinality(Follows(net[Back(p)])) \in Nat /\ Cardinality(Follows(net'[Back(p)])) \in Nat
        /\ Cardinality(Follows(net'[Back(p)])) <= Cardinality(Follows(net[Back(p)]))
    <3>1. Back(p) \in Pairs /\ Cardinality(Follows(net[Back(p)])) \in Nat
      BY <1>1, QueuesCount
    <3>2. CASE Back(p) = q
      BY <1>3, <3>1, <3>2
    <3>3. CASE Back(p) # q
      BY <1>2, <3>1, <3>3
    <3> QED BY <3>2, <3>3
  <2>4. /\ Due(p) = Len(net[p]) + Cardinality(Follows(net[Back(p)])) + Owed(p)
        /\ Due(p)' = Len(net'[p]) + Cardinality(Follows(net'[Back(p)])) + Owed(p)'
        /\ Due(p) <= calls
    BY <1>1, DuesAreSums
  <2> QED BY <1>1, <2>1, <2>2, <2>3, <2>4
<1>6. CallsPay'
  BY <1>1, <1>4, <1>5 DEF CallsPay
<1>7. IdsAreMinted'
  <2>1. \A p \in Pairs : \A h \in DOMAIN net'[p] : net'[p][h].id <= lastId
    BY <1>1, <1>2, <1>3 DEF IdsAreMinted
  <2> QED BY <1>1, <2>1, IdsStayMinted DEF tables, IdsAreMinted
<1>8. HistoryIsTyped'
  <2>1. q[1] \in Accounts /\ q[2] \in Accounts
    BY DEF Pairs
  <2> QED BY <1>1, <2>1, SocialGraphAssumption DEF HistoryIsTyped, Lose
<1> QED BY <1>6, <1>7, <1>8 DEF Ledger

LEMMA LedgerIsKept == IInv /\ IInv' /\ Ledger /\ [Next]_vars => Ledger'
<1> SUFFICES ASSUME IInv, IInv', Ledger, [Next]_vars PROVE Ledger'
  OBVIOUS
<1>1. CASE UNCHANGED vars
  <2>1. UNCHANGED <<follows, pending, blocks, home, net, slot, calls, lastId, lost, faults, raced,
                    withdrawn, doubt>>
    BY <1>1 DEF vars, tables, bounds, history
  <2>2. CallsPay'
    BY <2>1 DEF Ledger, CallsPay, Due, Owed, Sending, Asking, Minting, At, Busy, Mine, Theirs, Me, You
  <2>3. IdsAreMinted'
    BY <2>1 DEF Ledger, IdsAreMinted, RowsAreMinted, Busy
  <2>4. HistoryIsTyped'
    BY <2>1 DEF Ledger, HistoryIsTyped
  <2> QED BY <2>2, <2>3, <2>4 DEF Ledger
<1>2. ASSUME home' = home, NEW k \in Slots, TaskStep(k)
      PROVE  Ledger'
  <2>1. CASE ~At(k, "send")
    BY <1>2, <2>1, TaskStepProceeds, ProceedingKeepsLedger
  <2>2. CASE At(k, "send")
    <3>1. SendRemote(k) \/ SendLocal(k)
      BY <1>2, <2>2 DEF TaskStep, LookUp, ReadFollow, HandleFollow, ReadUnfollow, ReadBlock, Establish, Request,
         RemoveFollow, Withdraw, Take, Promote, Block, Unblock, At
    <3> QED BY <1>2, <3>1, SendRemotePays, SendLocalPays
  <2> QED BY <2>1, <2>2
<1>3. CASE Next
  BY <1>2, <1>3, CallPays, ReceivePays, DiePays, LosePays DEF Next
<1> QED BY <1>1, <1>3

LEMMA LedgerAtStart == Init => Ledger
<1> SUFFICES ASSUME Init PROVE Ledger
  OBVIOUS
<1>1. /\ \A p : Sending(p) = {} /\ Asking(p) = {}
      /\ Minting = {}
  BY DEF Init, Sending, Asking, Minting, Busy, At
<1>2. IsFiniteSet({}) /\ Cardinality({}) = 0
  BY FS_EmptySet
<1>3. ASSUME NEW p \in Pairs PROVE Due(p) <= calls
  <2>1. Back(p) \in Pairs
    BY DEF Pairs, Back
  <2>2. Len(net[p]) = 0 /\ Follows(net[Back(p)]) = {} /\ calls = 0
    BY <2>1 DEF Init, Follows
  <2>3. Owed(p) = 0
    BY <1>1, <1>2 DEF Owed
  <2>4. Cardinality(Follows(net[Back(p)])) = 0
    BY <1>2, <2>2
  <2> QED BY <2>2, <2>3, <2>4 DEF Due
<1>4. CallsPay
  <2>1. \A p \in Pairs : IsFiniteSet(Sending(p)) /\ IsFiniteSet(Asking(p))
    BY <1>1, <1>2
  <2>2. IsFiniteSet(Minting) /\ Cardinality(Minting) = 0
    BY <1>1, <1>2
  <2>3. lastId = 0 /\ calls = 0
    BY DEF Init
  <2> QED BY <1>3, <2>1, <2>2, <2>3 DEF CallsPay
<1>5. IdsAreMinted
  BY DEF Init, IdsAreMinted, RowsAreMinted, Busy, None
<1>6. HistoryIsTyped
  BY SocialGraphAssumption DEF Init, HistoryIsTyped
<1> QED BY <1>4, <1>5, <1>6 DEF Ledger

(* Every variable keeps its type, and nothing is minted, stored or on its  *)
(* way that some API call has not paid for.                                *)
THEOREM TypeCorrect == Spec => []TypeOK
<1>1. IInv /\ Ledger => TypeOK
  <2> SUFFICES ASSUME IInv, Ledger PROVE TypeOK
    OBVIOUS
  <2>1. /\ Typed /\ CallsPay /\ IdsAreMinted /\ HistoryIsTyped /\ MaxCalls \in Nat
        /\ calls \in Nat /\ calls <= MaxCalls /\ lastId \in Nat
    BY SocialGraphAssumption DEF IInv, Ledger, Typed, HistoryIsTyped
  <2>2. lastId <= MaxCalls
    BY <2>1, FS_CardinalityType DEF CallsPay
  <2>3. follows \in [Servers -> [Pairs -> Ids]] /\ pending \in [Servers -> [Pairs -> Ids]]
    <3>1. ASSUME NEW T \in Tables, RowsAreMinted(T, lastId) PROVE T \in [Servers -> [Pairs -> Ids]]
      <4>1. \A s \in Servers : T[s] \in [Pairs -> Nat]
        BY <3>1 DEF Tables
      <4>2. \A s \in Servers : \A p \in Pairs : T[s][p] \in Ids
        BY <2>1, <2>2, <3>1, <4>1 DEF RowsAreMinted, Ids
      <4>3. \A s \in Servers : T[s] \in [Pairs -> Ids]
        BY <4>1, <4>2
      <4> QED BY <3>1, <4>3 DEF Tables
    <3> QED BY <2>1, <3>1 DEF Typed, IdsAreMinted
  <2>4. ASSUME NEW p \in Pairs PROVE Len(net[p]) <= 2 * MaxCalls /\ ToSet(net[p]) \subseteq Message
    <3>1. /\ net[p] \in Seq(Activity) /\ Len(net[p]) \in Nat
          /\ Cardinality(Follows(net[Back(p)])) \in Nat
      BY <2>1, QueuesCount
    <3>2. Owed(p) \in Nat
      BY <2>1, FS_CardinalityType DEF CallsPay, Owed
    <3>3. Len(net[p]) <= calls
      BY <2>1, <3>1, <3>2, DuesAreSums
    <3>4. \A i \in DOMAIN net[p] : net[p][i] \in Activity /\ net[p][i].id <= lastId
      BY <2>1, <3>1 DEF IdsAreMinted
    <3>5. \A i \in DOMAIN net[p] : net[p][i] \in Message
      BY <2>1, <2>2, <3>4 DEF Activity, Message, Ids
    <3>6. ToSet(net[p]) \subseteq Message
      BY <3>5 DEF ToSet
    <3> QED BY <2>1, <3>1, <3>3, <3>6
  <2>5. slot \in [Slots -> Task \cup {FreeSlot}]
    <3>1. \A k \in Slots : Busy(k) => slot[k] \in Errand /\ slot[k].id <= lastId
      BY <2>1, TaskFields DEF IdsAreMinted
    <3>2. \A k \in Slots : Busy(k) => slot[k] \in Task
      BY <2>1, <2>2, <3>1 DEF Errand, Task, Ids
    <3> QED BY <2>1, <3>2 DEF Typed, Busy
  <2>6. blocks \in [Servers -> SUBSET Pairs] /\ DOMAIN net = Pairs /\ lastId \in 0..MaxCalls
    BY <2>1, <2>2 DEF Typed
  <2> QED BY <2>1, <2>3, <2>4, <2>5, <2>6 DEF TypeOK, HistoryIsTyped
<1> QED BY <1>1, InitIsSound, StepKeepsIInv, LedgerAtStart, LedgerIsKept, PTL DEF Spec
-----------------------------------------------------------------------------
(* Two servers agree.  Between two accounts that nothing has disturbed,    *)
(* the activities on their way in one direction are a sequence: the one    *)
(* being handled, those in the queue, the one about to be sent.  What      *)
(* follows is first said and shown of one relation in the abstract: of the *)
(* rows on both sides and of the sequences there and back.                 *)

Item == [at : Nat, type : Handlers, id : Nat]

Ends == {"UndoFollow", "Block"}

Carries(q, types) == \E m \in q : m.type \in types

Before(q, m, types) == \E h \in q : h.at < m.at /\ h.type \in types
After(q, m, types)  == \E h \in q : m.at < h.at /\ h.type \in types

Answers(r, type, id) == \E m \in r : m.type = type /\ m.id = id

Neither(f, g) == f = {} /\ g = {}

(* The last word of the follower is a Follow: its row is there, and no     *)
(* answer to it, nor a Block, is on its way back.                          *)
AskStands(locked, fx, px, q, r) ==
  \A m \in q : m.type = "Follow" /\ ~After(q, m, Ends) =>
    /\ ~Carries(r, {"Block"})
    /\ locked => /\ px = {m.id} /\ fx = {}
                 /\ ~Answers(r, "Accept", m.id) /\ ~Answers(r, "Reject", m.id)
    /\ ~locked => fx = {m.id} /\ px = {}

(* The last word is an Undo or a Block: the row is gone.                   *)
EndStands(fx, px, q) ==
  \A m \in q : m.type \in Ends /\ ~After(q, m, {"Follow"}) => Neither(fx, px)

(* The word is with the followee: the rows agree, or the activity that     *)
(* will make them agree is on its way back.                                *)
PendingIsAnswered(fy, py, r, id) ==
  \/ /\ py = {id} /\ fy = {}
     /\ ~Carries(r, {"Block"}) /\ ~Answers(r, "Accept", id) /\ ~Answers(r, "Reject", id)
  \/ /\ fy = {id} /\ py = {}
     /\ ~Carries(r, {"Block"}) /\ Answers(r, "Accept", id) /\ ~Answers(r, "Reject", id)
  \/ /\ Neither(fy, py)
     /\ Carries(r, {"Block"}) \/ (Answers(r, "Reject", id) /\ ~Answers(r, "Accept", id))

FollowIsShared(fy, py, r, id) ==
  \/ fy = {id} /\ py = {} /\ ~Carries(r, {"Block"})
  \/ Neither(fy, py) /\ Carries(r, {"Block"})

Level(fx, px, fy, py, r) ==
  \/ Neither(fx, px) /\ Neither(fy, py)
  \/ fx = {} /\ \E id \in px : px = {id} /\ PendingIsAnswered(fy, py, r, id)
  \/ px = {} /\ \E id \in fx : fx = {id} /\ FollowIsShared(fy, py, r, id)

(* A Follow on its way will not find a row, and has an id of its own.      *)
AsksAreFresh(fy, py, q) ==
  \A m \in q : m.type = "Follow" =>
    /\ m.id # None /\ m.id \notin py
    /\ Neither(fy, py) \/ Before(q, m, Ends)

AsksAreApart(q) ==
  \A m, o \in q : m.type = "Follow" /\ o.type = "Follow" /\ m.at < o.at =>
    /\ m.id # o.id
    /\ \E h \in q : m.at < h.at /\ h.at < o.at /\ h.type \in Ends

(* An id that a running follow has minted and not used yet.                *)
ClaimsAreFresh(py, claims, q, r) ==
  \A id \in claims :
    /\ id # None /\ id \notin py
    /\ ~Answers(r, "Accept", id) /\ ~Answers(r, "Reject", id) /\ ~Answers(q, "Follow", id)

Agreeing(locked, fx, px, fy, py, claims, q, r) ==
  /\ AskStands(locked, fx, px, q, r)
  /\ EndStands(fx, px, q)
  /\ ~Carries(q, Ends \cup {"Follow"}) => Level(fx, px, fy, py, r)
  /\ AsksAreFresh(fy, py, q)
  /\ AsksAreApart(q)
  /\ ClaimsAreFresh(py, claims, q, r)

(* A Follow and a Block that must cross.                                   *)
Doomed(q, r) ==
  /\ \E m \in q : 0 < m.at /\ m.type = "Follow"
  /\ \E m \in r : 0 < m.at /\ m.type = "Block"

AtEnd(q, m) == \A h \in q : h.at < m.at
Alone(q, m) == m \in q /\ \A h \in q : h.at = m.at => h = m

(* The follower asks.                                                      *)
LEMMA AskKeepsAgreement ==
  ASSUME NEW locked, NEW fx, NEW px, NEW fy, NEW py, NEW claims,
         NEW q \in SUBSET Item, NEW r \in SUBSET Item,
         Agreeing(locked, fx, px, fy, py, claims, q, r),
         Neither(fx, px), NEW m \in Item, m.type = "Follow", m.id \in claims, AtEnd(q, m),
         ~Carries(r, {"Block"}), NEW fx2, NEW px2,
         locked => px2 = {m.id} /\ fx2 = {}, ~locked => fx2 = {m.id} /\ px2 = {}
  PROVE  Agreeing(locked, fx2, px2, fy, py, {}, q \cup {m}, r)
<1> DEFINE p == q \cup {m}
<1>1. \A h \in q : h.at < m.at /\ h.at \in Nat /\ m.at \in Nat
  BY DEF AtEnd, Item
<1>2. /\ m.id # None /\ m.id \notin py
      /\ ~Answers(r, "Accept", m.id) /\ ~Answers(r, "Reject", m.id) /\ ~Answers(q, "Follow", m.id)
  BY DEF Agreeing, ClaimsAreFresh
<1>3. \A h \in q : h.type = "Follow" => After(q, h, Ends)
  BY DEF Agreeing, AskStands, Neither
<1>4. AskStands(locked, fx2, px2, p, r)
  BY <1>1, <1>2, <1>3 DEF AskStands, After
<1>5. EndStands(fx2, px2, p)
  BY <1>1 DEF EndStands, After, Ends
<1>6. Carries(q, Ends) => Before(p, m, Ends)
  BY <1>1 DEF Carries, Before
<1>7. ~Carries(q, Ends) => Neither(fy, py)
  <2> SUFFICES ASSUME ~Carries(q, Ends) PROVE Neither(fy, py)
    OBVIOUS
  <2>1. ~Carries(q, Ends \cup {"Follow"})
    BY <1>3 DEF Carries, After
  <2> QED BY <2>1 DEF Agreeing, Level, Neither
<1>8. AsksAreFresh(fy, py, p)
  <2> SUFFICES ASSUME NEW h \in p, h.type = "Follow"
               PROVE  h.id # None /\ h.id \notin py /\ (Neither(fy, py) \/ Before(p, h, Ends))
    BY DEF AsksAreFresh
  <2>1. CASE h \in q
    BY <2>1 DEF Agreeing, AsksAreFresh, Before
  <2>2. CASE h = m
    BY <1>2, <1>6, <1>7, <2>2
  <2> QED BY <2>1, <2>2
<1>9. AsksAreApart(p)
  <2> SUFFICES ASSUME NEW h \in p, NEW o \in p, h.type = "Follow", o.type = "Follow", h.at < o.at
               PROVE  h.id # o.id /\ \E e \in p : h.at < e.at /\ e.at < o.at /\ e.type \in Ends
    BY DEF AsksAreApart
  <2>1. CASE h \in q /\ o \in q
    BY <2>1 DEF Agreeing, AsksAreApart
  <2>2. CASE h \in q /\ o = m
    <3>1. h.id # m.id
      BY <1>2, <2>2 DEF Answers
    <3>2. PICK e \in q : h.at < e.at /\ e.type \in Ends
      BY <1>3, <2>2 DEF After
    <3> QED BY <1>1, <2>2, <3>1, <3>2
  <2>3. h # m
    <3> SUFFICES ASSUME h = m PROVE FALSE
      OBVIOUS
    <3>1. o \in q
      BY DEF Item
    <3>2. o.at < m.at /\ m.at < o.at /\ o.at \in Nat /\ m.at \in Nat
      BY <1>1, <3>1
    <3> QED BY <3>2
  <2> QED BY <2>1, <2>2, <2>3
<1>A. Carries(p, Ends \cup {"Follow"})
  BY DEF Carries
<1> QED BY <1>4, <1>5, <1>8, <1>9, <1>A DEF Agreeing, ClaimsAreFresh

(* The follower takes its word back, or blocks.                            *)
LEMMA EndKeepsAgreement ==
  ASSUME NEW locked, NEW fx, NEW px, NEW fy, NEW py, NEW claims,
         NEW q \in SUBSET Item, NEW r \in SUBSET Item,
         Agreeing(locked, fx, px, fy, py, claims, q, r),
         NEW m \in Item, m.type \in Ends, AtEnd(q, m)
  PROVE  Agreeing(locked, {}, {}, fy, py, claims, q \cup {m}, r)
<1> DEFINE p == q \cup {m}
<1>1. \A h \in q : h.at < m.at /\ h.at \in Nat /\ m.at \in Nat
  BY DEF AtEnd, Item
<1>2. m.type # "Follow"
  BY DEF Ends
<1>3. \A h \in p : h.type = "Follow" => h \in q /\ After(p, h, Ends)
  BY <1>1, <1>2 DEF After
<1>4. AskStands(locked, {}, {}, p, r)
  BY <1>3 DEF AskStands
<1>5. EndStands({}, {}, p)
  BY DEF EndStands, Neither
<1>6. AsksAreFresh(fy, py, p)
  BY <1>3 DEF Agreeing, AsksAreFresh, Before
<1>7. AsksAreApart(p)
  BY <1>3 DEF Agreeing, AsksAreApart
<1>8. Carries(p, Ends \cup {"Follow"})
  BY DEF Carries
<1>9. ClaimsAreFresh(py, claims, p, r)
  BY <1>2 DEF Agreeing, ClaimsAreFresh, Answers
<1> QED BY <1>4, <1>5, <1>6, <1>7, <1>8, <1>9 DEF Agreeing

(* The followee handles a Follow, and answers or makes a request of it.    *)
LEMMA AskedKeepsAgreement ==
  ASSUME NEW locked, NEW fx, NEW px, NEW fy, NEW py, NEW claims,
         NEW q \in SUBSET Item, NEW r \in SUBSET Item,
         Agreeing(locked, fx, px, fy, py, claims, q, r),
         NEW m \in Item, Alone(q, m), m.at = 0, m.type = "Follow",
         NEW fy2, NEW py2, NEW r2 \in SUBSET Item,
         locked => py2 = {m.id} /\ fy2 = {} /\ r2 = r,
         ~locked => /\ fy2 = {m.id} /\ py2 = {}
                    /\ \E a \in Item : a.type = "Accept" /\ a.id = m.id /\ r2 = r \cup {a}
  PROVE  Agreeing(locked, fx, px, fy2, py2, claims, q \ {m}, r2)
<1> DEFINE p == q \ {m}
<1>1. \A h \in p : h \in q /\ h.at \in Nat /\ 0 < h.at
  BY DEF Alone, Item
<1>2. \A h \in p : h.type = "Follow" => h.id # m.id /\ Before(p, h, Ends)
  <2> SUFFICES ASSUME NEW h \in p, h.type = "Follow" PROVE h.id # m.id /\ Before(p, h, Ends)
    OBVIOUS
  <2>1. m.id # h.id /\ \E e \in q : m.at < e.at /\ e.at < h.at /\ e.type \in Ends
    BY <1>1 DEF Agreeing, AsksAreApart, Alone
  <2> QED BY <2>1 DEF Before
<1>3. ~Carries(r2, {"Block"}) <=> ~Carries(r, {"Block"})
  BY DEF Carries
<1>4. AskStands(locked, fx, px, p, r2)
  <2> SUFFICES ASSUME NEW h \in p, h.type = "Follow", ~After(p, h, Ends)
               PROVE  /\ ~Carries(r2, {"Block"})
                      /\ locked => /\ px = {h.id} /\ fx = {}
                                   /\ ~Answers(r2, "Accept", h.id) /\ ~Answers(r2, "Reject", h.id)
                      /\ ~locked => fx = {h.id} /\ px = {}
    BY DEF AskStands
  <2>1. ~After(q, h, Ends)
    BY <1>1 DEF After, Alone
  <2>2. h \in q
    OBVIOUS
  <2> QED BY <1>3, <2>1, <2>2 DEF Agreeing, AskStands
<1>5. EndStands(fx, px, p)
  <2> SUFFICES ASSUME NEW h \in p, h.type \in Ends, ~After(p, h, {"Follow"}) PROVE Neither(fx, px)
    BY DEF EndStands
  <2>1. ~After(q, h, {"Follow"})
    BY <1>1 DEF After, Alone
  <2> QED BY <2>1 DEF Agreeing, EndStands
<1>6. ~Carries(p, Ends \cup {"Follow"}) => Level(fx, px, fy2, py2, r2)
  <2> SUFFICES ASSUME ~Carries(p, Ends \cup {"Follow"}) PROVE Level(fx, px, fy2, py2, r2)
    OBVIOUS
  <2>1. m \in q /\ ~After(q, m, Ends)
    BY DEF Carries, After, Alone
  <2>2. /\ ~Carries(r, {"Block"})
        /\ locked => /\ px = {m.id} /\ fx = {}
                     /\ ~Answers(r, "Accept", m.id) /\ ~Answers(r, "Reject", m.id)
        /\ ~locked => fx = {m.id} /\ px = {}
    BY <2>1 DEF Agreeing, AskStands
  <2>3. CASE locked
    BY <2>2, <2>3 DEF Level, PendingIsAnswered
  <2>4. CASE ~locked
    BY <1>3, <2>2, <2>4 DEF Level, FollowIsShared
  <2> QED BY <2>3, <2>4
<1>7. AsksAreFresh(fy2, py2, p)
  BY <1>2 DEF Agreeing, AsksAreFresh
<1>8. AsksAreApart(p)
  <2> SUFFICES ASSUME NEW h \in p, NEW o \in p, h.type = "Follow", o.type = "Follow", h.at < o.at
               PROVE  h.id # o.id /\ \E e \in p : h.at < e.at /\ e.at < o.at /\ e.type \in Ends
    BY DEF AsksAreApart
  <2>1. h.id # o.id
    BY DEF Agreeing, AsksAreApart
  <2>2. PICK e \in q : h.at < e.at /\ e.at < o.at /\ e.type \in Ends
    BY DEF Agreeing, AsksAreApart
  <2>3. e # m
    BY <2>2 DEF Ends
  <2> QED BY <2>1, <2>2, <2>3
<1>9. ClaimsAreFresh(py2, claims, p, r2)
  <2> SUFFICES ASSUME NEW id \in claims
               PROVE  /\ id # None /\ id \notin py2
                      /\ ~Answers(r2, "Accept", id) /\ ~Answers(r2, "Reject", id) /\ ~Answers(p, "Follow", id)
    BY DEF ClaimsAreFresh
  <2>1. /\ id # None /\ id \notin py
        /\ ~Answers(r, "Accept", id) /\ ~Answers(r, "Reject", id) /\ ~Answers(q, "Follow", id)
    BY DEF Agreeing, ClaimsAreFresh
  <2>2. id # m.id
    BY <2>1 DEF Answers, Alone
  <2>3. ~Answers(p, "Follow", id)
    BY <2>1 DEF Answers
  <2>4. ~Answers(r2, "Accept", id) /\ ~Answers(r2, "Reject", id)
    BY <2>1, <2>2 DEF Answers
  <2> QED BY <2>1, <2>2, <2>3, <2>4
<1> QED BY <1>4, <1>5, <1>6, <1>7, <1>8, <1>9 DEF Agreeing

(* The followee handles an Undo or a Block.                                *)
LEMMA EndedKeepsAgreement ==
  ASSUME NEW locked, NEW fx, NEW px, NEW fy, NEW py, NEW claims,
         NEW q \in SUBSET Item, NEW r \in SUBSET Item,
         Agreeing(locked, fx, px, fy, py, claims, q, r),
         NEW m \in Item, Alone(q, m), m.at = 0, m.type \in Ends
  PROVE  Agreeing(locked, fx, px, {}, {}, claims, q \ {m}, r)
<1> DEFINE p == q \ {m}
<1>1. \A h \in p : h \in q /\ h.at \in Nat /\ 0 < h.at
  BY DEF Alone, Item
<1>2. \A h \in p : \A types : ~After(p, h, types) => ~After(q, h, types)
  BY <1>1 DEF After, Alone
<1>3. AskStands(locked, fx, px, p, r)
  BY <1>1, <1>2 DEF Agreeing, AskStands
<1>4. EndStands(fx, px, p)
  BY <1>1, <1>2 DEF Agreeing, EndStands
<1>5. ~Carries(p, Ends \cup {"Follow"}) => Level(fx, px, {}, {}, r)
  <2> SUFFICES ASSUME ~Carries(p, Ends \cup {"Follow"}) PROVE Level(fx, px, {}, {}, r)
    OBVIOUS
  <2>1. m \in q /\ ~After(q, m, {"Follow"})
    BY DEF Carries, After, Alone
  <2> QED BY <2>1 DEF Agreeing, EndStands, Level, Neither
<1>6. AsksAreFresh({}, {}, p)
  BY DEF Agreeing, AsksAreFresh, Neither
<1>7. AsksAreApart(p)
  <2> SUFFICES ASSUME NEW h \in p, NEW o \in p, h.type = "Follow", o.type = "Follow", h.at < o.at
               PROVE  h.id # o.id /\ \E e \in p : h.at < e.at /\ e.at < o.at /\ e.type \in Ends
    BY DEF AsksAreApart
  <2>1. h.id # o.id
    BY DEF Agreeing, AsksAreApart
  <2>2. PICK e \in q : h.at < e.at /\ e.at < o.at /\ e.type \in Ends
    BY DEF Agreeing, AsksAreApart
  <2>3. e # m
    BY <1>1, <2>2 DEF Item
  <2> QED BY <2>1, <2>2, <2>3
<1>8. ClaimsAreFresh({}, claims, p, r)
  BY DEF Agreeing, ClaimsAreFresh, Answers
<1> QED BY <1>3, <1>4, <1>5, <1>6, <1>7, <1>8 DEF Agreeing

(* What r says to the relation.                                            *)
SaysTheSame(r, r2) ==
  /\ Carries(r2, {"Block"}) <=> Carries(r, {"Block"})
  /\ \A id \in Nat : /\ Answers(r2, "Accept", id) <=> Answers(r, "Accept", id)
                     /\ Answers(r2, "Reject", id) <=> Answers(r, "Reject", id)

(* The rows and claims of a relation are ids.                              *)
RowsAreIds(fx, px, fy, py, claims) ==
  /\ fx \subseteq Nat /\ px \subseteq Nat /\ fy \subseteq Nat /\ py \subseteq Nat /\ claims \subseteq Nat

LEMMA SameAnswersKeepAgreement ==
  ASSUME NEW locked, NEW fx, NEW px, NEW fy, NEW py, NEW claims,
         NEW q \in SUBSET Item, NEW r \in SUBSET Item,
         Agreeing(locked, fx, px, fy, py, claims, q, r), RowsAreIds(fx, px, fy, py, claims),
         NEW r2 \in SUBSET Item, SaysTheSame(r, r2)
  PROVE  Agreeing(locked, fx, px, fy, py, claims, q, r2)
<1>1. AskStands(locked, fx, px, q, r2)
  BY DEF Agreeing, AskStands, SaysTheSame, Item
<1>2. ~Carries(q, Ends \cup {"Follow"}) => Level(fx, px, fy, py, r2)
  <2> SUFFICES ASSUME ~Carries(q, Ends \cup {"Follow"}) PROVE Level(fx, px, fy, py, r2)
    OBVIOUS
  <2>1. Level(fx, px, fy, py, r)
    BY DEF Agreeing
  <2>2. \A id \in px : PendingIsAnswered(fy, py, r, id) => PendingIsAnswered(fy, py, r2, id)
    BY DEF PendingIsAnswered, SaysTheSame, RowsAreIds
  <2>3. \A id \in fx : FollowIsShared(fy, py, r, id) => FollowIsShared(fy, py, r2, id)
    BY DEF FollowIsShared, SaysTheSame
  <2> QED BY <2>1, <2>2, <2>3 DEF Level
<1>3. ClaimsAreFresh(py, claims, q, r2)
  BY DEF Agreeing, ClaimsAreFresh, SaysTheSame, RowsAreIds
<1> QED BY <1>1, <1>2, <1>3 DEF Agreeing

(* Two sequences with the same Follows, Undos and Blocks.                  *)
AsksTheSame(q, q2) == \A m \in Item : m.type \in Ends \cup {"Follow"} => (m \in q2 <=> m \in q)

LEMMA SameAsksKeepAgreement ==
  ASSUME NEW locked, NEW fx, NEW px, NEW fy, NEW py, NEW claims,
         NEW q \in SUBSET Item, NEW r \in SUBSET Item,
         Agreeing(locked, fx, px, fy, py, claims, q, r),
         NEW q2 \in SUBSET Item, AsksTheSame(q, q2)
  PROVE  Agreeing(locked, fx, px, fy, py, claims, q2, r)
<1>1. \A m \in q2 : m.type \in Ends \cup {"Follow"} => m \in q
  BY DEF AsksTheSame
<1>2. \A m \in q : m.type \in Ends \cup {"Follow"} => m \in q2
  BY DEF AsksTheSame
<1>3. \A m : /\ After(q2, m, Ends) <=> After(q, m, Ends)
             /\ Before(q2, m, Ends) <=> Before(q, m, Ends)
             /\ After(q2, m, {"Follow"}) <=> After(q, m, {"Follow"})
  BY <1>1, <1>2 DEF After, Before
<1>4. AskStands(locked, fx, px, q2, r)
  BY <1>1, <1>3 DEF Agreeing, AskStands
<1>5. EndStands(fx, px, q2)
  BY <1>1, <1>3 DEF Agreeing, EndStands
<1>6. Carries(q2, Ends \cup {"Follow"}) <=> Carries(q, Ends \cup {"Follow"})
  BY <1>1, <1>2 DEF Carries
<1>7. AsksAreFresh(fy, py, q2)
  BY <1>1, <1>3 DEF Agreeing, AsksAreFresh
<1>8. AsksAreApart(q2)
  <2> SUFFICES ASSUME NEW h \in q2, NEW o \in q2, h.type = "Follow", o.type = "Follow", h.at < o.at
               PROVE  h.id # o.id /\ \E e \in q2 : h.at < e.at /\ e.at < o.at /\ e.type \in Ends
    BY DEF AsksAreApart
  <2>1. h \in q /\ o \in q
    BY <1>1
  <2>2. h.id # o.id /\ \E e \in q : h.at < e.at /\ e.at < o.at /\ e.type \in Ends
    BY <2>1 DEF Agreeing, AsksAreApart
  <2> QED BY <1>2, <2>2
<1>9. \A id : Answers(q2, "Follow", id) <=> Answers(q, "Follow", id)
  BY <1>1, <1>2 DEF Answers
<1>A. ClaimsAreFresh(py, claims, q2, r)
  BY <1>9 DEF Agreeing, ClaimsAreFresh
<1> QED BY <1>4, <1>5, <1>6, <1>7, <1>8, <1>A DEF Agreeing

(* The recipient takes the next activity: all move up by one.              *)
Later(m) == [at |-> m.at + 1, type |-> m.type, id |-> m.id]

MovesUp(q, q2) ==
  /\ \A m \in q2 : Later(m) \in q
  /\ \A m \in q : \E h \in q2 : m = Later(h)

LEMMA MovingUpAsks ==
  ASSUME NEW locked, NEW fx, NEW px, NEW fy, NEW py, NEW claims,
         NEW q \in SUBSET Item, NEW r \in SUBSET Item,
         Agreeing(locked, fx, px, fy, py, claims, q, r),
         NEW q2 \in SUBSET Item, MovesUp(q, q2)
  PROVE  Agreeing(locked, fx, px, fy, py, claims, q2, r)
<1>1. \A m \in q2 : /\ Later(m) \in q /\ Later(m).type = m.type /\ Later(m).id = m.id
                    /\ m.at \in Nat /\ Later(m).at = m.at + 1
  BY DEF MovesUp, Later, Item
<1>2. \A m \in q : \E h \in q2 : m.type = h.type /\ m.id = h.id /\ m.at = h.at + 1
  BY DEF MovesUp, Later
<1>3. \A m \in q2 : /\ After(q, Later(m), Ends) => After(q2, m, Ends)
                    /\ After(q, Later(m), {"Follow"}) => After(q2, m, {"Follow"})
                    /\ Before(q, Later(m), Ends) => Before(q2, m, Ends)
  <2> SUFFICES ASSUME NEW m \in q2
               PROVE  /\ After(q, Later(m), Ends) => After(q2, m, Ends)
                      /\ After(q, Later(m), {"Follow"}) => After(q2, m, {"Follow"})
                      /\ Before(q, Later(m), Ends) => Before(q2, m, Ends)
    OBVIOUS
  <2>1. m.at \in Nat /\ Later(m).at = m.at + 1
    BY <1>1
  <2>2. \A h \in q : \E g \in q2 : h.type = g.type /\ h.at = g.at + 1 /\ g.at \in Nat
    BY <1>1, <1>2
  <2>3. ASSUME NEW types, After(q, Later(m), types) PROVE After(q2, m, types)
    BY <2>1, <2>2, <2>3 DEF After
  <2>4. ASSUME Before(q, Later(m), Ends) PROVE Before(q2, m, Ends)
    BY <2>1, <2>2, <2>4 DEF Before
  <2> QED BY <2>3, <2>4
<1>4. AskStands(locked, fx, px, q2, r)
  <2> SUFFICES ASSUME NEW m \in q2, m.type = "Follow", ~After(q2, m, Ends)
               PROVE  /\ ~Carries(r, {"Block"})
                      /\ locked => /\ px = {m.id} /\ fx = {}
                                   /\ ~Answers(r, "Accept", m.id) /\ ~Answers(r, "Reject", m.id)
                      /\ ~locked => fx = {m.id} /\ px = {}
    BY DEF AskStands
  <2>1. Later(m) \in q /\ Later(m).type = "Follow" /\ Later(m).id = m.id /\ ~After(q, Later(m), Ends)
    BY <1>1, <1>3
  <2>2. AskStands(locked, fx, px, q, r)
    BY DEF Agreeing
  <2> QED BY <2>1, <2>2 DEF AskStands
<1>5. EndStands(fx, px, q2)
  <2> SUFFICES ASSUME NEW m \in q2, m.type \in Ends, ~After(q2, m, {"Follow"}) PROVE Neither(fx, px)
    BY DEF EndStands
  <2>1. Later(m) \in q /\ Later(m).type \in Ends /\ ~After(q, Later(m), {"Follow"})
    BY <1>1, <1>3
  <2> QED BY <2>1 DEF Agreeing, EndStands
<1>6. Carries(q, Ends \cup {"Follow"}) => Carries(q2, Ends \cup {"Follow"})
  BY <1>2 DEF Carries
<1>7. AsksAreFresh(fy, py, q2)
  <2> SUFFICES ASSUME NEW m \in q2, m.type = "Follow"
               PROVE  m.id # None /\ m.id \notin py /\ (Neither(fy, py) \/ Before(q2, m, Ends))
    BY DEF AsksAreFresh
  <2>1. Later(m) \in q /\ Later(m).type = "Follow" /\ Later(m).id = m.id
    BY <1>1
  <2>2. m.id # None /\ m.id \notin py /\ (Neither(fy, py) \/ Before(q, Later(m), Ends))
    BY <2>1 DEF Agreeing, AsksAreFresh
  <2> QED BY <1>3, <2>2
<1>8. AsksAreApart(q2)
  <2> SUFFICES ASSUME NEW h \in q2, NEW o \in q2, h.type = "Follow", o.type = "Follow", h.at < o.at
               PROVE  h.id # o.id /\ \E e \in q2 : h.at < e.at /\ e.at < o.at /\ e.type \in Ends
    BY DEF AsksAreApart
  <2>1. /\ Later(h) \in q /\ Later(h).type = "Follow" /\ Later(h).id = h.id
        /\ Later(o) \in q /\ Later(o).type = "Follow" /\ Later(o).id = o.id
    BY <1>1
  <2>2. h.at \in Nat /\ o.at \in Nat /\ Later(h).at = h.at + 1 /\ Later(o).at = o.at + 1
    BY <1>1
  <2>3. Later(h).at < Later(o).at
    BY <2>2
  <2>4. h.id # o.id /\ \E e \in q : Later(h).at < e.at /\ e.at < Later(o).at /\ e.type \in Ends
    BY <2>1, <2>3 DEF Agreeing, AsksAreApart
  <2>5. PICK e \in q : Later(h).at < e.at /\ e.at < Later(o).at /\ e.type \in Ends
    BY <2>4
  <2>6. PICK g \in q2 : e.type = g.type /\ e.at = g.at + 1 /\ g.at \in Nat
    BY <1>1, <1>2
  <2>7. h.at < g.at /\ g.at < o.at
    BY <2>2, <2>5, <2>6
  <2> QED BY <2>4, <2>5, <2>6, <2>7
<1>9. \A id : Answers(q2, "Follow", id) => Answers(q, "Follow", id)
  BY <1>1 DEF Answers
<1>A. ClaimsAreFresh(py, claims, q2, r)
  BY <1>9 DEF Agreeing, ClaimsAreFresh
<1> QED BY <1>4, <1>5, <1>6, <1>7, <1>8, <1>A DEF Agreeing

LEMMA MovingUpAnswers ==
  ASSUME NEW r \in SUBSET Item, NEW r2 \in SUBSET Item, MovesUp(r, r2)
  PROVE  SaysTheSame(r, r2)
<1>1. \A m \in r2 : Later(m) \in r /\ Later(m).type = m.type /\ Later(m).id = m.id
  BY DEF MovesUp, Later
<1>2. \A m \in r : \E h \in r2 : m.type = h.type /\ m.id = h.id
  BY DEF MovesUp, Later
<1> QED BY <1>1, <1>2 DEF SaysTheSame, Carries, Answers

(* The followee authorizes a request.                                      *)
LEMMA AuthorizeKeepsAgreement ==
  ASSUME NEW locked, NEW fx, NEW px, NEW fy, NEW py, NEW claims,
         NEW q \in SUBSET Item, NEW r \in SUBSET Item,
         Agreeing(locked, fx, px, fy, py, claims, q, r),
         NEW a \in Item, a.type = "Accept", py = {a.id}, fy = {}
  PROVE  Agreeing(locked, fx, px, {a.id}, {}, claims, q, r \cup {a})
<1>1. Carries(r \cup {a}, {"Block"}) <=> Carries(r, {"Block"})
  BY DEF Carries
<1>2. \A id : /\ Answers(r \cup {a}, "Reject", id) <=> Answers(r, "Reject", id)
              /\ id # a.id => (Answers(r \cup {a}, "Accept", id) <=> Answers(r, "Accept", id))
  BY DEF Answers
<1>3. Answers(r \cup {a}, "Accept", a.id)
  BY DEF Answers
<1>4. \A m \in q : m.type = "Follow" => m.id # None /\ m.id # a.id /\ Before(q, m, Ends)
  BY DEF Agreeing, AsksAreFresh, Neither
<1>5. AskStands(locked, fx, px, q, r \cup {a})
  BY <1>1, <1>2, <1>4 DEF Agreeing, AskStands
<1>6. AsksAreFresh({a.id}, {}, q)
  BY <1>4 DEF AsksAreFresh
<1>7. ~Carries(q, Ends \cup {"Follow"}) => Level(fx, px, {a.id}, {}, r \cup {a})
  <2> SUFFICES ASSUME ~Carries(q, Ends \cup {"Follow"}) PROVE Level(fx, px, {a.id}, {}, r \cup {a})
    OBVIOUS
  <2>1. Level(fx, px, fy, py, r)
    BY DEF Agreeing
  <2>2. ~Neither(fy, py) /\ py # {}
    BY DEF Neither
  <2>3. PICK id \in px : px = {id} /\ fx = {} /\ PendingIsAnswered(fy, py, r, id)
    BY <2>1, <2>2 DEF Level, FollowIsShared
  <2>4. id = a.id /\ ~Carries(r, {"Block"}) /\ ~Answers(r, "Reject", id)
    BY <2>2, <2>3 DEF PendingIsAnswered
  <2>5. PendingIsAnswered({a.id}, {}, r \cup {a}, id)
    BY <1>1, <1>2, <1>3, <2>4 DEF PendingIsAnswered
  <2> QED BY <2>3, <2>5 DEF Level
<1>8. ClaimsAreFresh({}, claims, q, r \cup {a})
  BY <1>2 DEF Agreeing, ClaimsAreFresh
<1> QED BY <1>5, <1>6, <1>7, <1>8 DEF Agreeing

(* The followee rejects a request.                                         *)
LEMMA RejectKeepsAgreement ==
  ASSUME NEW locked, NEW fx, NEW px, NEW fy, NEW py, NEW claims,
         NEW q \in SUBSET Item, NEW r \in SUBSET Item,
         Agreeing(locked, fx, px, fy, py, claims, q, r),
         NEW a \in Item, a.type = "Reject", py = {a.id}
  PROVE  Agreeing(locked, fx, px, fy, {}, claims, q, r \cup {a})
<1>1. Carries(r \cup {a}, {"Block"}) <=> Carries(r, {"Block"})
  BY DEF Carries
<1>2. \A id : /\ Answers(r \cup {a}, "Accept", id) <=> Answers(r, "Accept", id)
              /\ id # a.id => (Answers(r \cup {a}, "Reject", id) <=> Answers(r, "Reject", id))
  BY DEF Answers
<1>3. Answers(r \cup {a}, "Reject", a.id)
  BY DEF Answers
<1>4. \A m \in q : m.type = "Follow" => m.id # None /\ m.id # a.id /\ Before(q, m, Ends)
  BY DEF Agreeing, AsksAreFresh, Neither
<1>5. AskStands(locked, fx, px, q, r \cup {a})
  BY <1>1, <1>2, <1>4 DEF Agreeing, AskStands
<1>6. AsksAreFresh(fy, {}, q)
  BY <1>4 DEF AsksAreFresh
<1>7. ~Carries(q, Ends \cup {"Follow"}) => Level(fx, px, fy, {}, r \cup {a})
  <2> SUFFICES ASSUME ~Carries(q, Ends \cup {"Follow"}) PROVE Level(fx, px, fy, {}, r \cup {a})
    OBVIOUS
  <2>1. Level(fx, px, fy, py, r)
    BY DEF Agreeing
  <2>2. ~Neither(fy, py) /\ py # {}
    BY DEF Neither
  <2>3. PICK id \in px : px = {id} /\ fx = {} /\ PendingIsAnswered(fy, py, r, id)
    BY <2>1, <2>2 DEF Level, FollowIsShared
  <2>4. id = a.id /\ fy = {} /\ ~Answers(r, "Accept", id)
    BY <2>2, <2>3 DEF PendingIsAnswered
  <2>5. PendingIsAnswered(fy, {}, r \cup {a}, id)
    BY <1>2, <1>3, <2>4 DEF PendingIsAnswered, Neither
  <2> QED BY <2>3, <2>5 DEF Level
<1>8. ClaimsAreFresh({}, claims, q, r \cup {a})
  BY <1>2 DEF Agreeing, ClaimsAreFresh
<1> QED BY <1>5, <1>6, <1>7, <1>8 DEF Agreeing

(* The followee blocks.                                                    *)
LEMMA CutKeepsAgreement ==
  ASSUME NEW locked, NEW fx, NEW px, NEW fy, NEW py, NEW claims,
         NEW q \in SUBSET Item, NEW r \in SUBSET Item,
         Agreeing(locked, fx, px, fy, py, claims, q, r),
         NEW b \in Item, b.type = "Block", ~Carries(q, {"Follow"})
  PROVE  Agreeing(locked, fx, px, {}, {}, claims, q, r \cup {b})
<1>1. Carries(r \cup {b}, {"Block"})
  BY DEF Carries
<1>2. \A id : /\ Answers(r \cup {b}, "Accept", id) <=> Answers(r, "Accept", id)
              /\ Answers(r \cup {b}, "Reject", id) <=> Answers(r, "Reject", id)
  BY DEF Answers
<1>3. AskStands(locked, fx, px, q, r \cup {b}) /\ AsksAreFresh({}, {}, q)
  BY DEF AskStands, AsksAreFresh, Carries
<1>4. ~Carries(q, Ends \cup {"Follow"}) => Level(fx, px, {}, {}, r \cup {b})
  BY <1>1 DEF Agreeing, Level, PendingIsAnswered, FollowIsShared, Neither
<1>5. ClaimsAreFresh({}, claims, q, r \cup {b})
  BY <1>2 DEF Agreeing, ClaimsAreFresh
<1> QED BY <1>3, <1>4, <1>5 DEF Agreeing

(* The follower handles an answer or a Block.                              *)
LEMMA AcceptedKeepsAgreement ==
  ASSUME NEW locked, NEW fx, NEW px, NEW fy, NEW py, NEW claims,
         NEW q \in SUBSET Item, NEW r \in SUBSET Item,
         Agreeing(locked, fx, px, fy, py, claims, q, r),
         NEW a \in r, a.type = "Accept", NEW fx2,
         \/ px = {} /\ fx2 = fx
         \/ px = {a.id} /\ fx = {} /\ fx2 = {a.id}
  PROVE  Agreeing(locked, fx2, {}, fy, py, claims, q, r \ {a})
<1> DEFINE s == r \ {a}
<1>1. Carries(s, {"Block"}) <=> Carries(r, {"Block"})
  BY DEF Carries
<1>2. \A id : /\ Answers(s, "Accept", id) => Answers(r, "Accept", id)
              /\ Answers(s, "Reject", id) <=> Answers(r, "Reject", id)
  BY DEF Answers
<1>3. Answers(r, "Accept", a.id)
  BY DEF Answers
<1>4. px # {} => /\ \A m \in q : m.type = "Follow" => After(q, m, Ends)
                 /\ \A m \in q : m.type \in Ends => After(q, m, {"Follow"})
  BY <1>3 DEF Agreeing, AskStands, EndStands, Neither
<1>5. AskStands(locked, fx2, {}, q, s)
  BY <1>1, <1>2, <1>4 DEF Agreeing, AskStands
<1>6. EndStands(fx2, {}, q)
  BY <1>4 DEF Agreeing, EndStands
<1>7. ~Carries(q, Ends \cup {"Follow"}) => Level(fx2, {}, fy, py, s)
  <2> SUFFICES ASSUME ~Carries(q, Ends \cup {"Follow"}) PROVE Level(fx2, {}, fy, py, s)
    OBVIOUS
  <2>1. Level(fx, px, fy, py, r)
    BY DEF Agreeing
  <2>2. CASE px = {}
    BY <1>1, <2>1, <2>2 DEF Level, FollowIsShared
  <2>3. CASE px = {a.id} /\ fx = {} /\ fx2 = {a.id}
    <3>1. PendingIsAnswered(fy, py, r, a.id)
      BY <2>1, <2>3 DEF Level, Neither
    <3>2. FollowIsShared(fy, py, s, a.id)
      BY <1>1, <1>3, <3>1 DEF PendingIsAnswered, FollowIsShared
    <3> QED BY <2>3, <3>2 DEF Level
  <2> QED BY <2>2, <2>3
<1>8. ClaimsAreFresh(py, claims, q, s)
  BY <1>2 DEF Agreeing, ClaimsAreFresh
<1> QED BY <1>5, <1>6, <1>7, <1>8 DEF Agreeing

LEMMA RejectedKeepsAgreement ==
  ASSUME NEW locked, NEW fx, NEW px, NEW fy, NEW py, NEW claims,
         NEW q \in SUBSET Item, NEW r \in SUBSET Item,
         Agreeing(locked, fx, px, fy, py, claims, q, r),
         NEW a \in r, a.type = "Reject", px = {} \/ (px = {a.id} /\ fx = {})
  PROVE  Agreeing(locked, fx, {}, fy, py, claims, q, r \ {a})
<1> DEFINE s == r \ {a}
<1>1. Carries(s, {"Block"}) <=> Carries(r, {"Block"})
  BY DEF Carries
<1>2. \A id : /\ Answers(s, "Reject", id) => Answers(r, "Reject", id)
              /\ Answers(s, "Accept", id) <=> Answers(r, "Accept", id)
  BY DEF Answers
<1>3. Answers(r, "Reject", a.id)
  BY DEF Answers
<1>4. px # {} => \A m \in q : m.type = "Follow" => After(q, m, Ends)
  BY <1>3 DEF Agreeing, AskStands
<1>5. AskStands(locked, fx, {}, q, s)
  BY <1>1, <1>2, <1>4 DEF Agreeing, AskStands
<1>6. EndStands(fx, {}, q)
  BY DEF Agreeing, EndStands, Neither
<1>7. ~Carries(q, Ends \cup {"Follow"}) => Level(fx, {}, fy, py, s)
  <2> SUFFICES ASSUME ~Carries(q, Ends \cup {"Follow"}) PROVE Level(fx, {}, fy, py, s)
    OBVIOUS
  <2>1. Level(fx, px, fy, py, r)
    BY DEF Agreeing
  <2>2. CASE px = {}
    BY <1>1, <2>1, <2>2 DEF Level, FollowIsShared
  <2>3. CASE px = {a.id} /\ fx = {}
    <3>1. PendingIsAnswered(fy, py, r, a.id)
      BY <2>1, <2>3 DEF Level, Neither
    <3>2. Neither(fy, py)
      BY <1>3, <3>1 DEF PendingIsAnswered
    <3> QED BY <2>3, <3>2 DEF Level, Neither
  <2> QED BY <2>2, <2>3
<1>8. ClaimsAreFresh(py, claims, q, s)
  BY <1>2 DEF Agreeing, ClaimsAreFresh
<1> QED BY <1>5, <1>6, <1>7, <1>8 DEF Agreeing

LEMMA BlockedKeepsAgreement ==
  ASSUME NEW locked, NEW fx, NEW px, NEW fy, NEW py, NEW claims,
         NEW q \in SUBSET Item, NEW r \in SUBSET Item,
         Agreeing(locked, fx, px, fy, py, claims, q, r),
         NEW b \in r, b.type = "Block"
  PROVE  Agreeing(locked, {}, {}, fy, py, claims, q, r \ {b})
<1> DEFINE s == r \ {b}
<1>1. Carries(r, {"Block"})
  BY DEF Carries
<1>2. \A id : /\ Answers(s, "Accept", id) <=> Answers(r, "Accept", id)
              /\ Answers(s, "Reject", id) <=> Answers(r, "Reject", id)
  BY DEF Answers
<1>3. AskStands(locked, {}, {}, q, s)
  BY <1>1 DEF Agreeing, AskStands
<1>4. EndStands({}, {}, q)
  BY DEF EndStands, Neither
<1>5. ~Carries(q, Ends \cup {"Follow"}) => Level({}, {}, fy, py, s)
  <2> SUFFICES ASSUME ~Carries(q, Ends \cup {"Follow"}) PROVE Neither(fy, py)
    BY DEF Level, Neither
  <2>1. Level(fx, px, fy, py, r)
    BY DEF Agreeing
  <2> QED BY <1>1, <2>1 DEF Level, PendingIsAnswered, FollowIsShared
<1>6. ClaimsAreFresh(py, claims, q, s)
  BY <1>2 DEF Agreeing, ClaimsAreFresh
<1> QED BY <1>3, <1>4, <1>5, <1>6 DEF Agreeing

(* A claim on a new id is made, and given up.                              *)
LEMMA ClaimKeepsAgreement ==
  ASSUME NEW locked, NEW fx, NEW px, NEW fy, NEW py, NEW claims,
         NEW q \in SUBSET Item, NEW r \in SUBSET Item,
         Agreeing(locked, fx, px, fy, py, claims, q, r),
         NEW claims2, ClaimsAreFresh(py, claims2, q, r)
  PROVE  Agreeing(locked, fx, px, fy, py, claims2, q, r)
  BY DEF Agreeing

-----------------------------------------------------------------------------
(* What the servers and the network hold of one relation.                  *)

Piece(at, type, id) == [at |-> at, type |-> type, id |-> id]

Queued(a) == {Piece(i, a[i].type, a[i].id) : i \in DOMAIN a}

(* The activity task t handles, until it has written what it says.         *)
Handling(t) ==
  {m \in {Piece(0, t.op, t.id)} : t.op \in Handlers /\ t.step \in Steps \ {"promote", "send"}}

(* The activity task t is going to send, once it has written what it says. *)
Leaving(t, at) ==
  {m \in {Piece(at, Sends[t.op], t.id)} :
     t.step = "send" \/ (t.step = "promote" /\ t.op = "authorize")}

Way(p) ==
  {m \in Item : \/ m \in Queued(net[p])
                \/ \E k \in Slots : Theirs(k) = p /\ m \in Handling(slot[k])
                \/ \E k \in Slots : Mine(k) = p /\ m \in Leaving(slot[k], Len(net[p]) + 1)}

Row(id) == {n \in {id} : n # None}

(* A row that has left pending is the follow that promote will write.      *)
Promoting(t, op) == {n \in {t.id} : t.step = "promote" /\ t.op = op}

Following(s, p) ==
  {id \in Nat : \/ id \in Row(follows[s][p])
                \/ \E k \in Slots : Server(k) = s /\ Mine(k) = p /\ id \in Promoting(slot[k], "Accept")
                \/ \E k \in Slots : Server(k) = s /\ Theirs(k) = p /\ id \in Promoting(slot[k], "authorize")}

Claim(t) == {n \in {t.id} : t.step \in {"establish", "request"} /\ t.op = "follow"}

Claims(p) == {id \in Nat : \E k \in Slots : Mine(k) = p /\ id \in Claim(slot[k])}

AgreeingOn(p) ==
  Agreeing(p[2] \in Locked,
           Following(home[p[1]], p), Row(pending[home[p[1]]][p]),
           Following(home[p[2]], p), Row(pending[home[p[2]]][p]),
           Claims(p), Way(p), Way(Back(p)))

(* Nothing has disturbed the two accounts of p so far.                     *)
Untouched(p) ==
  /\ ~SameServer(p[1], p[2]) /\ {p[1], p[2]} \notin doubt
  /\ ~Raced(home[p[1]], p[1], p[2]) /\ ~Raced(home[p[2]], p[1], p[2])

RelationHolds(p) ==
  Untouched(p) /\ p \notin withdrawn => Doomed(Way(p), Way(Back(p))) \/ AgreeingOn(p)

(* A step of a task between two servers that writes rows of its own two    *)
(* accounts on its own server, and may begin to send or cease to handle.   *)
Advances(k) ==
  /\ Undisturbed(k) /\ ~SameServer(Me(k), You(k))
  /\ GoesOn(k, slot'[k])
  /\ UNCHANGED <<home, net, raced>>
  /\ RowsStayOutside(k)
  /\ \A at : Leaving(slot[k], at) \subseteq Leaving(slot'[k], at)
  /\ Handling(slot'[k]) \subseteq Handling(slot[k])

(* No other task of the same server is on these two accounts.              *)
LEMMA UndisturbedIsAlone ==
  ASSUME Typed, OverlapsAreNoted, NEW k \in Slots, Undisturbed(k), NEW j \in Slots, j # k, Busy(j),
         Server(j) = Server(k)
  PROVE  Mine(j) # Mine(k) /\ Theirs(j) # Mine(k) /\ Mine(j) # Theirs(k) /\ Theirs(j) # Theirs(k)
<1>1. Both(j) # Both(k)
  BY DEF OverlapsAreNoted, Undisturbed, Raced, Both
<1> QED BY <1>1 DEF Both, Mine, Theirs

LEMMA IdleSlotsSayNothing ==
  ASSUME NEW t, t = FreeSlot
  PROVE  /\ Handling(t) = {} /\ Claim(t) = {}
         /\ \A at : Leaving(t, at) = {}
         /\ \A op : Promoting(t, op) = {}
BY DEF FreeSlot, Handling, Leaving, Promoting, Claim, Steps

LEMMA PiecesAreItems ==
  ASSUME NEW t \in Errand, NEW at \in Nat
  PROVE  Handling(t) \subseteq Item /\ Leaving(t, at) \subseteq Item
<1>1. Leaving(t, at) # {} => Sends[t.op] \in Handlers
  BY DEF Leaving, Errand, MayBeAt, Sends, Handlers
<1> QED BY <1>1 DEF Errand, Handling, Leaving, Item, Piece

LEMMA QueuesHoldItems ==
  ASSUME Typed, NEW p \in Pairs
  PROVE  /\ Queued(net[p]) \subseteq Item /\ Len(net[p]) \in Nat
         /\ \A m \in Queued(net[p]) : 0 < m.at /\ m.at <= Len(net[p])
<1>1. net[p] \in Seq(Activity)
  BY DEF Typed
<1>2. \A i \in DOMAIN net[p] : i \in Nat /\ 0 < i /\ i <= Len(net[p]) /\ net[p][i] \in Activity
  BY <1>1
<1> QED BY <1>1, <1>2 DEF Queued, Piece, Item, Activity

(* A task advances: the ways of its two accounts.                          *)
LEMMA AdvancesOnTheWay ==
  ASSUME Typed, Typed', OverlapsAreNoted, NEW k \in Slots, Advances(k),
         NEW p \in Pairs, p = Mine(k), NEW b \in Pairs, b = Theirs(k)
  PROVE  LET at == Len(net[p]) + 1 IN
         /\ Way(p)' = Way(p) \cup Leaving(slot'[k], at)
         /\ Leaving(slot'[k], at) \subseteq Item
         /\ Leaving(slot[k], at) = {} => \A m \in Leaving(slot'[k], at) : AtEnd(Way(p), m) /\ 0 < m.at
         /\ Way(b)' = Way(b) \ (Handling(slot[k]) \ Handling(slot'[k]))
         /\ \A m \in Handling(slot[k]) : Alone(Way(b), m) /\ m.at = 0 /\ m \in Item
         /\ \A m \in Way(b) : m.at = 0 => m \in Handling(slot[k])
<1> DEFINE at == Len(net[p]) + 1
<1>1. /\ Busy(k) /\ net' = net /\ slot'[k] \in Errand \cup {FreeSlot} /\ slot[k] \in Errand
      /\ slot'[k] # FreeSlot => slot'[k].me = Me(k) /\ slot'[k].you = You(k)
      /\ \A j \in Slots \ {k} : slot'[j] = slot[j]
  BY TaskFields DEF Advances, GoesOn, Typed
<1>2. /\ at \in Nat /\ Queued(net[p]) \subseteq Item /\ Queued(net[b]) \subseteq Item
      /\ \A m \in Queued(net[p]) \cup Queued(net[b]) : 0 < m.at
      /\ \A m \in Queued(net[p]) : m.at < at
  BY QueuesHoldItems DEF Item
<1>3. p # b /\ home[p[1]] # home[p[2]] /\ p[1] = Me(k) /\ p[2] = You(k) /\ b[1] = You(k) /\ b[2] = Me(k)
  BY DEF Advances, SameServer, Mine, Theirs
<1>4. \A j \in Slots \ {k} : Mine(j) = p \/ Theirs(j) = b => ~Busy(j)
  <2> SUFFICES ASSUME NEW j \in Slots \ {k}, Mine(j) = p \/ Theirs(j) = b, Busy(j) PROVE FALSE
    OBVIOUS
  <2>1. Server(j) = Server(k) /\ Mine(j) = Mine(k)
    BY <1>3 DEF Server, Mine, Theirs
  <2> QED BY <2>1, UndisturbedIsAlone DEF Advances
<1>5. \A j \in Slots \ {k} : Mine(j)' = Mine(j) /\ Theirs(j)' = Theirs(j)
  BY <1>1 DEF Mine, Theirs, Me, You
<1>6. \A j \in Slots : ~Busy(j) => Handling(slot[j]) = {} /\ Leaving(slot[j], at) = {}
  BY IdleSlotsSayNothing DEF Busy
<1>7. /\ Handling(slot[k]) \subseteq Item /\ Leaving(slot[k], at) \subseteq Item
      /\ Handling(slot'[k]) \subseteq Item /\ Leaving(slot'[k], at) \subseteq Item
  BY <1>1, <1>2, PiecesAreItems, IdleSlotsSayNothing
<1>8. /\ slot'[k] # FreeSlot => Mine(k)' = p /\ Theirs(k)' = b
      /\ slot'[k] = FreeSlot => Handling(slot'[k]) = {} /\ \A n : Leaving(slot'[k], n) = {}
  BY <1>1, IdleSlotsSayNothing DEF Mine, Theirs, Me, You
<1>9. Leaving(slot[k], at) \subseteq Leaving(slot'[k], at) /\ Handling(slot'[k]) \subseteq Handling(slot[k])
  BY DEF Advances
<1>A. \A m : m \in Way(p) <=>
        /\ m \in Item
        /\ \/ m \in Queued(net[p]) \/ m \in Leaving(slot[k], at)
           \/ \E j \in Slots \ {k} : Theirs(j) = p /\ m \in Handling(slot[j])
  BY <1>3, <1>4, <1>6 DEF Way
<1>B. \A m : m \in Way(p)' <=>
        /\ m \in Item
        /\ \/ m \in Queued(net[p]) \/ m \in Leaving(slot'[k], at)
           \/ \E j \in Slots \ {k} : Theirs(j) = p /\ m \in Handling(slot[j])
  BY <1>1, <1>3, <1>4, <1>5, <1>6, <1>8 DEF Way
<1>C. Way(p)' = Way(p) \cup Leaving(slot'[k], at)
  BY <1>7, <1>9, <1>A, <1>B
<1>D. ASSUME Leaving(slot[k], at) = {}, NEW m \in Leaving(slot'[k], at) PROVE AtEnd(Way(p), m) /\ 0 < m.at
  <2>1. m.at = at
    BY <1>D DEF Leaving, Piece
  <2>2. \A j \in Slots : \A h \in Handling(slot[j]) : h.at = 0
    BY DEF Handling, Piece
  <2> QED BY <1>2, <1>A, <1>D, <2>1, <2>2 DEF AtEnd
<1>E. \A m : m \in Way(b) <=>
        /\ m \in Item
        /\ \/ m \in Queued(net[b]) \/ m \in Handling(slot[k])
           \/ \E j \in Slots \ {k} : Mine(j) = b /\ m \in Leaving(slot[j], Len(net[b]) + 1)
  BY <1>3, <1>4, <1>6 DEF Way
<1>F. \A m : m \in Way(b)' <=>
        /\ m \in Item
        /\ \/ m \in Queued(net[b]) \/ m \in Handling(slot'[k])
           \/ \E j \in Slots \ {k} : Mine(j) = b /\ m \in Leaving(slot[j], Len(net[b]) + 1)
  BY <1>1, <1>3, <1>4, <1>5, <1>6, <1>8 DEF Way
<1>G. \A m \in Way(b) : m.at = 0 => m \in Handling(slot[k])
  <2>1. Len(net[b]) \in Nat
    BY QueuesHoldItems
  <2>2. \A j \in Slots : \A m \in Leaving(slot[j], Len(net[b]) + 1) : m.at # 0
    BY <2>1 DEF Leaving, Piece
  <2> QED BY <1>2, <1>E, <2>2
<1>H. \A m \in Handling(slot[k]) : m.at = 0 /\ m = Piece(0, slot[k].op, slot[k].id)
  BY DEF Handling, Piece
<1>I. \A j \in Slots : \A m \in Leaving(slot[j], Len(net[b]) + 1) : m.at # 0
  <2>1. Len(net[b]) \in Nat
    BY QueuesHoldItems
  <2> QED BY <2>1 DEF Leaving, Piece
<1>J. Way(b)' = Way(b) \ (Handling(slot[k]) \ Handling(slot'[k]))
  BY <1>2, <1>9, <1>E, <1>F, <1>H, <1>I
<1>K. \A m \in Handling(slot[k]) : Alone(Way(b), m) /\ m.at = 0 /\ m \in Item
  BY <1>7, <1>E, <1>G, <1>H DEF Alone
<1> QED BY <1>7, <1>C, <1>D, <1>G, <1>J, <1>K

(* ... and the rows and claims as its two servers see them.                *)
LEMMA AdvancesAtHome ==
  ASSUME Typed, Typed', OverlapsAreNoted, NEW k \in Slots, Advances(k),
         NEW p \in Pairs, p = Mine(k), NEW b \in Pairs, b = Theirs(k), NEW s, s = Server(k)
  PROVE  /\ Following(s, p) = Row(follows[s][p]) \cup Promoting(slot[k], "Accept")
         /\ Following(s, b) = Row(follows[s][b]) \cup Promoting(slot[k], "authorize")
         /\ Following(s, p)' = Row(follows'[s][p]) \cup Promoting(slot'[k], "Accept")
         /\ Following(s, b)' = Row(follows'[s][b]) \cup Promoting(slot'[k], "authorize")
         /\ Claims(p) = Claim(slot[k]) /\ Claims(p)' = Claim(slot'[k])
<1>1. /\ Busy(k) /\ home' = home /\ slot'[k] \in Errand \cup {FreeSlot} /\ slot[k] \in Errand
      /\ slot'[k] # FreeSlot => slot'[k].me = Me(k) /\ slot'[k].you = You(k)
      /\ \A j \in Slots \ {k} : slot'[j] = slot[j]
      /\ s \in Servers /\ p # b
  BY TaskFields DEF Advances, GoesOn, Typed
<1>2. \A j \in Slots \ {k} : Mine(j) = p => ~Busy(j)
  <2> SUFFICES ASSUME NEW j \in Slots \ {k}, Mine(j) = p, Busy(j) PROVE FALSE
    OBVIOUS
  <2>1. Server(j) = Server(k)
    BY DEF Server, Mine
  <2> QED BY <2>1, UndisturbedIsAlone DEF Advances
<1>3. \A j \in Slots \ {k} : Server(j) = s /\ (Mine(j) \in {p, b} \/ Theirs(j) \in {p, b}) => ~Busy(j)
  BY UndisturbedIsAlone DEF Advances
<1>4. \A j \in Slots \ {k} : Mine(j)' = Mine(j) /\ Theirs(j)' = Theirs(j) /\ Server(j)' = Server(j)
  BY <1>1 DEF Mine, Theirs, Me, You, Server
<1>5. \A j \in Slots : ~Busy(j) => Claim(slot[j]) = {} /\ \A op : Promoting(slot[j], op) = {}
  BY IdleSlotsSayNothing DEF Busy
<1>6. /\ slot'[k] # FreeSlot => Mine(k)' = p /\ Theirs(k)' = b /\ Server(k)' = s
      /\ slot'[k] = FreeSlot => Claim(slot'[k]) = {} /\ \A op : Promoting(slot'[k], op) = {}
  BY <1>1, IdleSlotsSayNothing DEF Mine, Theirs, Me, You, Server
<1>7. /\ Claim(slot[k]) \subseteq Nat /\ Claim(slot'[k]) \subseteq Nat
      /\ \A op : Promoting(slot[k], op) \subseteq Nat /\ Promoting(slot'[k], op) \subseteq Nat
  BY <1>1, <1>6 DEF Errand, Claim, Promoting
<1>8. \A q \in {p, b} : Row(follows[s][q]) \subseteq Nat /\ Row(follows'[s][q]) \subseteq Nat
  BY <1>1 DEF Typed, Tables, Row
<1>9. /\ Following(s, p) = Row(follows[s][p]) \cup Promoting(slot[k], "Accept")
      /\ Following(s, b) = Row(follows[s][b]) \cup Promoting(slot[k], "authorize")
  <2>1. Mine(k) # b /\ Theirs(k) # p
    BY <1>1
  <2> QED BY <1>3, <1>5, <1>7, <1>8, <2>1 DEF Following
<1>A. Following(s, p)' = Row(follows'[s][p]) \cup Promoting(slot'[k], "Accept")
  <2>1. \A id : id \in Following(s, p)' <=>
          /\ id \in Nat
          /\ \/ id \in Row(follows'[s][p])
             \/ \E j \in Slots : Server(j)' = s /\ Mine(j)' = p /\ id \in Promoting(slot'[j], "Accept")
             \/ \E j \in Slots : Server(j)' = s /\ Theirs(j)' = p /\ id \in Promoting(slot'[j], "authorize")
    BY DEF Following
  <2>2. \A j \in Slots \ {k} : Server(j)' = s /\ (Mine(j)' = p \/ Theirs(j)' = p)
                               => \A op : Promoting(slot'[j], op) = {}
    BY <1>1, <1>3, <1>4, <1>5
  <2>3. \A id : id \in Following(s, p)' <=>
          id \in Nat /\ (id \in Row(follows'[s][p]) \/ id \in Promoting(slot'[k], "Accept"))
    BY <1>1, <1>6, <2>1, <2>2
  <2> QED BY <1>7, <1>8, <2>3
<1>B. Following(s, b)' = Row(follows'[s][b]) \cup Promoting(slot'[k], "authorize")
  <2>1. \A id : id \in Following(s, b)' <=>
          /\ id \in Nat
          /\ \/ id \in Row(follows'[s][b])
             \/ \E j \in Slots : Server(j)' = s /\ Mine(j)' = b /\ id \in Promoting(slot'[j], "Accept")
             \/ \E j \in Slots : Server(j)' = s /\ Theirs(j)' = b /\ id \in Promoting(slot'[j], "authorize")
    BY DEF Following
  <2>2. \A j \in Slots \ {k} : Server(j)' = s /\ (Mine(j)' = b \/ Theirs(j)' = b)
                               => \A op : Promoting(slot'[j], op) = {}
    BY <1>1, <1>3, <1>4, <1>5
  <2>3. \A id : id \in Following(s, b)' <=>
          id \in Nat /\ (id \in Row(follows'[s][b]) \/ id \in Promoting(slot'[k], "authorize"))
    BY <1>1, <1>6, <2>1, <2>2
  <2> QED BY <1>7, <1>8, <2>3
<1>C. Claims(p) = Claim(slot[k])
  BY <1>2, <1>5, <1>7 DEF Claims
<1>D. Claims(p)' = Claim(slot'[k])
  <2>1. \A id : id \in Claims(p)' <=> id \in Nat /\ \E j \in Slots : Mine(j)' = p /\ id \in Claim(slot'[j])
    BY DEF Claims
  <2>2. \A j \in Slots \ {k} : Mine(j)' = p => Claim(slot'[j]) = {}
    BY <1>1, <1>2, <1>4, <1>5
  <2>3. \A id : id \in Claims(p)' <=> id \in Nat /\ id \in Claim(slot'[k])
    BY <1>1, <1>6, <2>1, <2>2
  <2> QED BY <1>7, <2>3
<1> QED BY <1>9, <1>A, <1>B, <1>C, <1>D

(* The other server, and the claims of the other account, stay as they are.*)
LEMMA AdvancesElsewhere ==
  ASSUME Typed, Typed', NEW k \in Slots, Advances(k), NEW q \in Pairs
  PROVE  /\ \A s \in Servers : s # Server(k) \/ q \notin {Mine(k), Theirs(k)} =>
              /\ Following(s, q)' = Following(s, q)
              /\ follows'[s][q] = follows[s][q] /\ pending'[s][q] = pending[s][q]
         /\ q # Mine(k) => Claims(q)' = Claims(q)
<1>1. /\ Busy(k) /\ net' = net /\ home' = home
      /\ slot'[k] # FreeSlot => slot'[k].me = Me(k) /\ slot'[k].you = You(k)
      /\ \A j \in Slots \ {k} : slot'[j] = slot[j]
  BY DEF Advances, GoesOn, Typed
<1>2. \A j \in Slots \ {k} : Mine(j)' = Mine(j) /\ Theirs(j)' = Theirs(j) /\ Server(j)' = Server(j)
  BY <1>1 DEF Mine, Theirs, Me, You, Server
<1>3. /\ slot'[k] # FreeSlot => Mine(k)' = Mine(k) /\ Theirs(k)' = Theirs(k) /\ Server(k)' = Server(k)
      /\ slot'[k] = FreeSlot =>
           /\ Claim(slot'[k]) = {} /\ \A op : Promoting(slot'[k], op) = {}
  BY <1>1, IdleSlotsSayNothing DEF Mine, Theirs, Me, You, Server
<1>4. ASSUME NEW s \in Servers, s # Server(k) \/ q \notin {Mine(k), Theirs(k)}
      PROVE  /\ Following(s, q)' = Following(s, q)
             /\ follows'[s][q] = follows[s][q] /\ pending'[s][q] = pending[s][q]
  <2>1. follows'[s][q] = follows[s][q] /\ pending'[s][q] = pending[s][q]
    BY <1>4 DEF Advances, RowsStayOutside, RowsKept
  <2>2. \A j \in Slots : \A id :
          /\ (Server(j)' = s /\ Mine(j)' = q /\ id \in Promoting(slot'[j], "Accept"))
             <=> (Server(j) = s /\ Mine(j) = q /\ id \in Promoting(slot[j], "Accept"))
          /\ (Server(j)' = s /\ Theirs(j)' = q /\ id \in Promoting(slot'[j], "authorize"))
             <=> (Server(j) = s /\ Theirs(j) = q /\ id \in Promoting(slot[j], "authorize"))
    BY <1>1, <1>2, <1>3, <1>4
  <2>3. \A id : id \in Following(s, q)' <=>
          /\ id \in Nat
          /\ \/ id \in Row(follows'[s][q])
             \/ \E j \in Slots : Server(j)' = s /\ Mine(j)' = q /\ id \in Promoting(slot'[j], "Accept")
             \/ \E j \in Slots : Server(j)' = s /\ Theirs(j)' = q /\ id \in Promoting(slot'[j], "authorize")
    BY DEF Following
  <2>4. \A id : id \in Following(s, q)' <=> id \in Following(s, q)
    BY <2>1, <2>2, <2>3 DEF Following
  <2> QED BY <2>1, <2>4 DEF Following
<1>5. q # Mine(k) => Claims(q)' = Claims(q)
  <2> SUFFICES ASSUME q # Mine(k) PROVE Claims(q)' = Claims(q)
    OBVIOUS
  <2>1. \A id : id \in Claims(q)' <=> id \in Nat /\ \E j \in Slots : Mine(j)' = q /\ id \in Claim(slot'[j])
    BY DEF Claims
  <2>2. \A j \in Slots : \A id : (Mine(j)' = q /\ id \in Claim(slot'[j])) <=> (Mine(j) = q /\ id \in Claim(slot[j]))
    BY <1>1, <1>2, <1>3
  <2>3. \A id : id \in Claims(q)' <=> id \in Claims(q)
    BY <2>1, <2>2 DEF Claims
  <2> QED BY <2>3 DEF Claims
<1> QED BY <1>4, <1>5

(* Histories only grow.                                                    *)
HistoryGrows == raced \subseteq raced' /\ doubt \subseteq doubt' /\ withdrawn \subseteq withdrawn'

LEMMA UntouchedBefore ==
  ASSUME home' = home, HistoryGrows, NEW q, Untouched(q)'
  PROVE  Untouched(q)
BY DEF HistoryGrows, Untouched, Raced, SameServer

(* Task k acts for the follower of the relation p.                         *)
LEMMA AsFollower ==
  ASSUME Typed, Typed', OverlapsAreNoted, NEW k \in Slots, Advances(k),
         NEW p \in Pairs, p = Mine(k), NEW b \in Pairs, b = Theirs(k),
         NEW s, s = Server(k), NEW o, o = home[You(k)], NEW y, y = You(k)
  PROVE  /\ AgreeingOn(p) <=>
              Agreeing(y \in Locked, Row(follows[s][p]) \cup Promoting(slot[k], "Accept"),
                       Row(pending[s][p]), Following(o, p), Row(pending[o][p]),
                       Claim(slot[k]), Way(p), Way(b))
         /\ AgreeingOn(p)' <=>
              Agreeing(y \in Locked, Row(follows'[s][p]) \cup Promoting(slot'[k], "Accept"),
                       Row(pending'[s][p]), Following(o, p), Row(pending[o][p]),
                       Claim(slot'[k]), Way(p)', Way(b)')
<1>1. p[1] = Me(k) /\ p[2] = y /\ Back(p) = b /\ home' = home /\ o # s /\ s = home[p[1]] /\ o = home[p[2]]
      /\ s \in Servers /\ o \in Servers /\ Busy(k)
  <2>1. Busy(k)
    BY DEF Advances, Undisturbed
  <2> QED BY <2>1, TaskFields DEF Advances, Mine, Theirs, Back, SameServer, Server, Typed
<1>2. Following(o, p)' = Following(o, p) /\ pending'[o][p] = pending[o][p]
  BY <1>1, AdvancesElsewhere
<1>3. AgreeingOn(p) <=>
        Agreeing(y \in Locked, Following(s, p), Row(pending[s][p]), Following(o, p), Row(pending[o][p]),
                 Claims(p), Way(p), Way(b))
  BY <1>1 DEF AgreeingOn
<1>4. home[p[1]]' = s /\ home[p[2]]' = o
  BY <1>1
<1>5. Following(home[p[1]], p)' = Following(s, p)' /\ Following(home[p[2]], p)' = Following(o, p)'
  BY <1>4 DEF Following
<1>6. AgreeingOn(p)' <=>
        Agreeing(y \in Locked, Following(s, p)', Row(pending'[s][p]), Following(o, p), Row(pending[o][p]),
                 Claims(p)', Way(p)', Way(b)')
  BY <1>1, <1>2, <1>4, <1>5 DEF AgreeingOn
<1> QED BY <1>3, <1>6, AdvancesAtHome

(* ... and for the followee of the relation b.                             *)
LEMMA AsFollowee ==
  ASSUME Typed, Typed', OverlapsAreNoted, NEW k \in Slots, Advances(k),
         NEW p \in Pairs, p = Mine(k), NEW b \in Pairs, b = Theirs(k),
         NEW s, s = Server(k), NEW o, o = home[You(k)], NEW x, x = Me(k)
  PROVE  /\ AgreeingOn(b) <=>
              Agreeing(x \in Locked, Following(o, b), Row(pending[o][b]),
                       Row(follows[s][b]) \cup Promoting(slot[k], "authorize"), Row(pending[s][b]),
                       Claims(b), Way(b), Way(p))
         /\ AgreeingOn(b)' <=>
              Agreeing(x \in Locked, Following(o, b), Row(pending[o][b]),
                       Row(follows'[s][b]) \cup Promoting(slot'[k], "authorize"), Row(pending'[s][b]),
                       Claims(b), Way(b)', Way(p)')
<1>1. b[1] = You(k) /\ b[2] = x /\ Back(b) = p /\ home' = home /\ o # s /\ s = home[b[2]] /\ o = home[b[1]]
      /\ s \in Servers /\ o \in Servers /\ Busy(k) /\ b # Mine(k)
  <2>1. Busy(k)
    BY DEF Advances, Undisturbed
  <2> QED BY <2>1, TaskFields DEF Advances, Mine, Theirs, Back, SameServer, Server, Typed
<1>2. Following(o, b)' = Following(o, b) /\ pending'[o][b] = pending[o][b] /\ Claims(b)' = Claims(b)
  BY <1>1, AdvancesElsewhere
<1>3. AgreeingOn(b) <=>
        Agreeing(x \in Locked, Following(o, b), Row(pending[o][b]), Following(s, b), Row(pending[s][b]),
                 Claims(b), Way(b), Way(p))
  BY <1>1 DEF AgreeingOn
<1>4. home[b[1]]' = o /\ home[b[2]]' = s
  BY <1>1
<1>5. Following(home[b[1]], b)' = Following(o, b)' /\ Following(home[b[2]], b)' = Following(s, b)'
  BY <1>4 DEF Following
<1>6. AgreeingOn(b)' <=>
        Agreeing(x \in Locked, Following(o, b), Row(pending[o][b]), Following(s, b)', Row(pending'[s][b]),
                 Claims(b), Way(b)', Way(p)')
  BY <1>1, <1>2, <1>4, <1>5 DEF AgreeingOn
<1> QED BY <1>3, <1>6, AdvancesAtHome

LEMMA DoomLasts ==
  ASSUME Typed, Typed', OverlapsAreNoted, NEW k \in Slots, Advances(k),
         NEW p \in Pairs, p = Mine(k), NEW b \in Pairs, b = Theirs(k)
  PROVE  /\ Doomed(Way(p), Way(b)) => Doomed(Way(p)', Way(b)')
         /\ Doomed(Way(b), Way(p)) => Doomed(Way(b)', Way(p)')
<1>1. /\ Way(p) \subseteq Way(p)'
      /\ \A m \in Way(b) : m \in Way(b)' \/ m.at = 0
  BY AdvancesOnTheWay
<1> QED BY <1>1 DEF Doomed

(* What is left to show of a step, of each of the two relations.           *)
LEMMA RelationsFollow ==
  ASSUME Typed, Typed', OverlapsAreNoted, NEW k \in Slots, Advances(k), HistoryGrows,
         NEW p \in Pairs, p = Mine(k), NEW b \in Pairs, b = Theirs(k)
  PROVE  /\ RelationHolds(p) /\ (Untouched(p)' /\ p \notin withdrawn' /\ AgreeingOn(p)
                                  => AgreeingOn(p)' \/ Doomed(Way(p)', Way(b)'))
            => RelationHolds(p)'
         /\ RelationHolds(b) /\ (Untouched(b)' /\ b \notin withdrawn' /\ AgreeingOn(b)
                                  => AgreeingOn(b)' \/ Doomed(Way(b)', Way(p)'))
            => RelationHolds(b)'
<1>1. Back(p) = b /\ Back(b) = p
  BY DEF Back, Mine, Theirs
<1>2. \A q : Untouched(q)' /\ q \notin withdrawn' => Untouched(q) /\ q \notin withdrawn
  BY UntouchedBefore DEF HistoryGrows, Advances
<1> QED BY <1>1, <1>2, DoomLasts DEF RelationHolds

LEMMA RelationsAreOfIds ==
  ASSUME Typed, NEW k \in Slots, Busy(k), NEW s \in Servers, NEW o, NEW q \in Pairs, NEW op
  PROVE  /\ Row(follows[s][q]) \cup Promoting(slot[k], op) \subseteq Nat
         /\ Row(pending[s][q]) \subseteq Nat /\ Claim(slot[k]) \subseteq Nat
         /\ Following(o, q) \subseteq Nat /\ Claims(q) \subseteq Nat
         /\ Way(q) \in SUBSET Item
<1>1. slot[k].id \in Nat
  BY TaskFields
<1>2. follows[s][q] \in Nat /\ pending[s][q] \in Nat
  BY DEF Typed, Tables
<1> QED BY <1>1, <1>2 DEF Row, Promoting, Claim, Following, Claims, Way

(* The step says nothing to the follower's relation.                       *)
LEMMA FollowerIsUnmoved ==
  ASSUME Typed, Typed', OverlapsAreNoted, NEW k \in Slots, Advances(k), HistoryGrows,
         NEW p \in Pairs, p = Mine(k), NEW b \in Pairs, b = Theirs(k), NEW s, s = Server(k),
         Row(follows'[s][p]) \cup Promoting(slot'[k], "Accept")
           = Row(follows[s][p]) \cup Promoting(slot[k], "Accept"),
         Row(pending'[s][p]) = Row(pending[s][p]), Claim(slot'[k]) = Claim(slot[k]),
         \A at : \A m \in Leaving(slot'[k], at) \ Leaving(slot[k], at) : m.type \notin Ends \cup {"Follow"},
         \A m \in Handling(slot[k]) \ Handling(slot'[k]) : m.type \notin {"Accept", "Reject", "Block"},
         RelationHolds(p)
  PROVE  RelationHolds(p)'
<1> SUFFICES ASSUME AgreeingOn(p) PROVE AgreeingOn(p)'
  BY RelationsFollow
<1>1. PICK o, y : o = home[You(k)] /\ y = You(k)
  OBVIOUS
<1>2. PICK fx, px, fy, py, c, q, r :
        /\ fx = Row(follows[s][p]) \cup Promoting(slot[k], "Accept")
        /\ px = Row(pending[s][p]) /\ fy = Following(o, p) /\ py = Row(pending[o][p])
        /\ c = Claim(slot[k]) /\ q = Way(p) /\ r = Way(b)
  OBVIOUS
<1>3. Busy(k) /\ s \in Servers /\ o \in Servers
  <2>1. Busy(k)
    BY DEF Advances, Undisturbed
  <2> QED BY <1>1, <2>1, TaskFields DEF Typed
<1>4. RowsAreIds(fx, px, fy, py, c) /\ q \in SUBSET Item /\ r \in SUBSET Item
  BY <1>2, <1>3, RelationsAreOfIds DEF RowsAreIds
<1>5. Agreeing(y \in Locked, fx, px, fy, py, c, q, r)
  BY <1>1, <1>2, AsFollower
<1>6. PICK q2, r2, at : q2 = Way(p)' /\ r2 = Way(b)' /\ at = Len(net[p]) + 1
  OBVIOUS
<1>7. /\ q2 = q \cup Leaving(slot'[k], at) /\ Leaving(slot'[k], at) \subseteq Item
      /\ r2 = r \ (Handling(slot[k]) \ Handling(slot'[k]))
  BY <1>2, <1>6, AdvancesOnTheWay
<1>8. Leaving(slot[k], at) \subseteq q
  <2>1. Leaving(slot[k], at) \subseteq Leaving(slot'[k], at)
    BY DEF Advances
  <2> QED BY <1>2, <1>6, <1>7, <2>1 DEF Way
<1>9. AsksTheSame(q, q2)
  BY <1>7, <1>8 DEF AsksTheSame
<1>A. SaysTheSame(r, r2)
  BY <1>7 DEF SaysTheSame, Carries, Answers
<1>B. q2 \in SUBSET Item /\ r2 \in SUBSET Item
  BY <1>4, <1>7
<1>C. Agreeing(y \in Locked, fx, px, fy, py, c, q2, r)
  BY <1>4, <1>5, <1>9, <1>B, SameAsksKeepAgreement
<1>D. Agreeing(y \in Locked, fx, px, fy, py, c, q2, r2)
  BY <1>4, <1>A, <1>B, <1>C, SameAnswersKeepAgreement
<1> QED BY <1>1, <1>2, <1>6, <1>D, AsFollower

(* ... and nothing to the followee's.                                      *)
LEMMA FolloweeIsUnmoved ==
  ASSUME Typed, Typed', OverlapsAreNoted, NEW k \in Slots, Advances(k), HistoryGrows,
         NEW p \in Pairs, p = Mine(k), NEW b \in Pairs, b = Theirs(k), NEW s, s = Server(k),
         Row(follows'[s][b]) \cup Promoting(slot'[k], "authorize")
           = Row(follows[s][b]) \cup Promoting(slot[k], "authorize"),
         Row(pending'[s][b]) = Row(pending[s][b]),
         \A at : \A m \in Leaving(slot'[k], at) \ Leaving(slot[k], at) :
           m.type \notin {"Accept", "Reject", "Block"},
         \A m \in Handling(slot[k]) \ Handling(slot'[k]) : m.type \notin Ends \cup {"Follow"},
         RelationHolds(b)
  PROVE  RelationHolds(b)'
<1> SUFFICES ASSUME AgreeingOn(b) PROVE AgreeingOn(b)'
  BY RelationsFollow
<1>1. PICK o, x : o = home[You(k)] /\ x = Me(k)
  OBVIOUS
<1>2. PICK fx, px, fy, py, c, q, r :
        /\ fx = Following(o, b) /\ px = Row(pending[o][b])
        /\ fy = Row(follows[s][b]) \cup Promoting(slot[k], "authorize") /\ py = Row(pending[s][b])
        /\ c = Claims(b) /\ q = Way(b) /\ r = Way(p)
  OBVIOUS
<1>3. Busy(k) /\ s \in Servers /\ o \in Servers
  <2>1. Busy(k)
    BY DEF Advances, Undisturbed
  <2> QED BY <1>1, <2>1, TaskFields DEF Typed
<1>4. RowsAreIds(fx, px, fy, py, c) /\ q \in SUBSET Item /\ r \in SUBSET Item
  BY <1>2, <1>3, RelationsAreOfIds DEF RowsAreIds
<1>5. Agreeing(x \in Locked, fx, px, fy, py, c, q, r)
  BY <1>1, <1>2, AsFollowee
<1>6. PICK q2, r2, at : q2 = Way(b)' /\ r2 = Way(p)' /\ at = Len(net[p]) + 1
  OBVIOUS
<1>7. /\ r2 = r \cup Leaving(slot'[k], at) /\ Leaving(slot'[k], at) \subseteq Item
      /\ q2 = q \ (Handling(slot[k]) \ Handling(slot'[k]))
  BY <1>2, <1>6, AdvancesOnTheWay
<1>8. Leaving(slot[k], at) \subseteq r
  <2>1. Leaving(slot[k], at) \subseteq Leaving(slot'[k], at)
    BY DEF Advances
  <2> QED BY <1>2, <1>6, <1>7, <2>1 DEF Way
<1>9. AsksTheSame(q, q2)
  BY <1>7 DEF AsksTheSame
<1>A. SaysTheSame(r, r2)
  BY <1>7, <1>8 DEF SaysTheSame, Carries, Answers
<1>B. q2 \in SUBSET Item /\ r2 \in SUBSET Item
  BY <1>4, <1>7
<1>C. Agreeing(x \in Locked, fx, px, fy, py, c, q2, r)
  BY <1>4, <1>5, <1>9, <1>B, SameAsksKeepAgreement
<1>D. Agreeing(x \in Locked, fx, px, fy, py, c, q2, r2)
  BY <1>4, <1>A, <1>B, <1>C, SameAnswersKeepAgreement
<1> QED BY <1>1, <1>2, <1>6, <1>D, AsFollowee

-----------------------------------------------------------------------------
(* What each step does to its slot and its rows.                           *)

Turns(k, t) == slot' = [slot EXCEPT ![k] = t] /\ slot'[k] = t /\ raced' = raced

LEMMA GotoTurns ==
  ASSUME Typed, NEW k \in Slots, Busy(k), NEW step, Goto(k, step)
  PROVE  Turns(k, Onward(k, step, slot[k].id))
BY GotoIsOnward DEF Turns, Typed

LEMMA EndTurns ==
  ASSUME Typed, NEW k \in Slots, End(k)
  PROVE  Turns(k, FreeSlot)
BY DEF End, Turns, Typed

LEMMA JumpTurns ==
  ASSUME Typed, NEW k \in Slots, Busy(k), NEW step, NEW id, raced' = raced,
         slot' = [slot EXCEPT ![k].step = step, ![k].id = id]
  PROVE  Turns(k, Onward(k, step, id))
<1>1. slot[k] \in Errand
  BY TaskFields
<1>2. [slot[k] EXCEPT !.step = step, !.id = id] = Onward(k, step, id)
  BY <1>1, ErrandGoesOn DEF Onward, Me, You
<1>3. slot' = [slot EXCEPT ![k] = [slot[k] EXCEPT !.step = step, !.id = id]]
  BY DEF Typed
<1> HIDE DEF Onward
<1> QED BY <1>2, <1>3 DEF Turns, Typed

LEMMA EstablishBrief ==
  ASSUME Typed, NEW k \in Slots, Establish(k)
  PROVE  /\ Busy(k) /\ slot[k].step = "establish" /\ slot[k].op \in {"follow", "Follow"}
         /\ Turns(k, Onward(k, "send", slot[k].id))
         /\ WritesSubject(k) /\ follows'[Server(k)][Subject(k)] = slot[k].id /\ pending' = pending
         /\ UNCHANGED <<withdrawn, doubt>>
<1>1. Busy(k) /\ slot[k].step = "establish" /\ pending' = pending /\ UNCHANGED <<blocks, withdrawn, doubt>>
  BY DEF Establish, At
<1>2. slot[k].op \in {"follow", "Follow"} /\ slot[k].id \in Nat
  BY <1>1, TaskFields DEF MayBeAt
<1>3. Goto(k, "send")
  BY <1>2 DEF Establish, Finish, Sends
<1> QED BY <1>1, <1>2, <1>3, GotoTurns, FollowIsWritten DEF Establish

LEMMA RequestBrief ==
  ASSUME Typed, NEW k \in Slots, Request(k)
  PROVE  /\ Busy(k) /\ slot[k].step = "request" /\ slot[k].op \in {"follow", "Follow"}
         /\ slot[k].op = "follow" => Turns(k, Onward(k, "send", slot[k].id))
         /\ slot[k].op = "Follow" => Turns(k, FreeSlot)
         /\ WritesSubject(k) /\ pending'[Server(k)][Subject(k)] = slot[k].id /\ follows' = follows
         /\ UNCHANGED <<withdrawn, doubt>>
<1>1. Busy(k) /\ slot[k].step = "request" /\ follows' = follows /\ UNCHANGED <<blocks, withdrawn, doubt>>
  BY DEF Request, At
<1>2. slot[k].op \in {"follow", "Follow"} /\ slot[k].id \in Nat
  BY <1>1, TaskFields DEF MayBeAt
<1>3. WritesSubject(k) /\ pending'[Server(k)][Subject(k)] = slot[k].id
  BY <1>1, <1>2, RequestIsWritten DEF Request
<1> QED BY <1>1, <1>2, <1>3, GotoTurns, EndTurns DEF Request

LEMMA RemoveFollowBrief ==
  ASSUME Typed, NEW k \in Slots, RemoveFollow(k)
  PROVE  /\ Busy(k) /\ slot[k].step = "remove" /\ slot[k].op \in {"unfollow", "UndoFollow"}
         /\ slot[k].op = "unfollow" => Turns(k, Onward(k, "send", slot[k].id))
         /\ slot[k].op = "UndoFollow" => Turns(k, FreeSlot)
         /\ WritesSubject(k) /\ follows'[Server(k)][Subject(k)] = None /\ pending' = pending
         /\ withdrawn \subseteq withdrawn' /\ doubt' = doubt
         /\ slot[k].op = "UndoFollow" /\ pending[Server(k)][Subject(k)] # None => Subject(k) \in withdrawn'
<1>1. /\ Busy(k) /\ slot[k].step = "remove" /\ pending' = pending /\ UNCHANGED <<blocks, doubt>>
      /\ withdrawn \subseteq withdrawn'
      /\ slot[k].op = "UndoFollow" /\ pending[Server(k)][Subject(k)] # None => Subject(k) \in withdrawn'
  BY DEF RemoveFollow, At
<1>2. slot[k].op \in {"unfollow", "UndoFollow"} /\ None \in Nat
  BY <1>1, TaskFields DEF MayBeAt, None
<1>3. WritesSubject(k) /\ follows'[Server(k)][Subject(k)] = None
  BY <1>1, <1>2, FollowIsWritten DEF RemoveFollow
<1>4. Finish(k)
  BY DEF RemoveFollow
<1>5. slot[k].op = "unfollow" => Goto(k, "send")
  BY <1>4 DEF Finish, Sends
<1>6. slot[k].op = "UndoFollow" => End(k)
  BY <1>4 DEF Finish, Sends
<1> QED BY <1>1, <1>2, <1>3, <1>5, <1>6, GotoTurns, EndTurns

LEMMA WithdrawBrief ==
  ASSUME Typed, NEW k \in Slots, Withdraw(k)
  PROVE  /\ Busy(k) /\ slot[k].step = "withdraw" /\ slot[k].op = "unfollow"
         /\ pending[Server(k)][Subject(k)] # None => Turns(k, Onward(k, "send", slot[k].id))
         /\ pending[Server(k)][Subject(k)] = None => Turns(k, FreeSlot)
         /\ WritesSubject(k) /\ pending'[Server(k)][Subject(k)] = None /\ follows' = follows
         /\ UNCHANGED <<withdrawn, doubt>>
<1>1. Busy(k) /\ slot[k].step = "withdraw" /\ follows' = follows /\ UNCHANGED <<blocks, withdrawn, doubt>>
  BY DEF Withdraw, At
<1>2. slot[k].op = "unfollow" /\ None \in Nat
  BY <1>1, TaskFields DEF MayBeAt, None
<1>3. WritesSubject(k) /\ pending'[Server(k)][Subject(k)] = None
  BY <1>1, <1>2, RequestIsWritten DEF Withdraw, Taken
<1> QED BY <1>1, <1>2, <1>3, GotoTurns, EndTurns DEF Withdraw

LEMMA TakeBrief ==
  ASSUME Typed, NEW k \in Slots, Take(k), NEW row, row = pending[Server(k)][Subject(k)]
  PROVE  /\ Busy(k) /\ slot[k].step = "take" /\ slot[k].op \in {"authorize", "reject", "Accept", "Reject"}
         /\ row = None => Turns(k, FreeSlot)
         /\ row # None /\ slot[k].op \in {"authorize", "Accept"} => Turns(k, Onward(k, "promote", row))
         /\ row # None /\ slot[k].op = "reject" => Turns(k, Onward(k, "send", row))
         /\ row # None /\ slot[k].op = "Reject" => Turns(k, FreeSlot)
         /\ WritesSubject(k) /\ pending'[Server(k)][Subject(k)] = None /\ follows' = follows
         /\ withdrawn' = withdrawn /\ doubt \subseteq doubt'
         /\ slot[k].op \in {"Accept", "Reject"} /\ row \notin {None, slot[k].id} => Both(k) \in doubt'
<1>1. /\ Busy(k) /\ slot[k].step = "take" /\ follows' = follows /\ UNCHANGED <<blocks, withdrawn>>
      /\ doubt \subseteq doubt'
      /\ slot[k].op \in {"Accept", "Reject"} /\ row \notin {None, slot[k].id} => Both(k) \in doubt'
  BY DEF Take, At
<1>2. slot[k].op \in {"authorize", "reject", "Accept", "Reject"} /\ None \in Nat
  BY <1>1, TaskFields DEF MayBeAt, None
<1>3. WritesSubject(k) /\ pending'[Server(k)][Subject(k)] = None
  BY <1>1, <1>2, RequestIsWritten DEF Take, Taken
<1>4. \/ row = None /\ End(k)
      \/ /\ row # None /\ slot[k].op \in {"authorize", "Accept"}
         /\ slot' = [slot EXCEPT ![k].step = "promote", ![k].id = row] /\ raced' = raced
      \/ /\ row # None /\ slot[k].op = "reject"
         /\ slot' = [slot EXCEPT ![k].step = "send", ![k].id = row] /\ raced' = raced
      \/ row # None /\ slot[k].op = "Reject" /\ End(k)
  BY DEF Take
<1>5. CASE End(k) /\ (row = None \/ slot[k].op = "Reject")
  BY <1>1, <1>2, <1>3, <1>5, EndTurns
<1>6. CASE /\ row # None /\ slot[k].op \in {"authorize", "Accept"}
           /\ slot' = [slot EXCEPT ![k].step = "promote", ![k].id = row] /\ raced' = raced
  <2>1. Turns(k, Onward(k, "promote", row))
    BY <1>1, <1>6, JumpTurns
  <2> QED BY <1>1, <1>2, <1>3, <1>6, <2>1
<1>7. CASE /\ row # None /\ slot[k].op = "reject"
           /\ slot' = [slot EXCEPT ![k].step = "send", ![k].id = row] /\ raced' = raced
  <2>1. Turns(k, Onward(k, "send", row))
    BY <1>1, <1>7, JumpTurns
  <2> QED BY <1>1, <1>2, <1>3, <1>7, <2>1
<1> QED BY <1>4, <1>5, <1>6, <1>7

LEMMA PromoteBrief ==
  ASSUME Typed, NEW k \in Slots, Promote(k)
  PROVE  /\ Busy(k) /\ slot[k].step = "promote" /\ slot[k].op \in {"authorize", "Accept"}
         /\ slot[k].op = "authorize" => Turns(k, Onward(k, "send", slot[k].id))
         /\ slot[k].op = "Accept" => Turns(k, FreeSlot)
         /\ WritesSubject(k) /\ follows'[Server(k)][Subject(k)] = slot[k].id /\ pending' = pending
         /\ UNCHANGED <<withdrawn, doubt>>
<1>1. Busy(k) /\ slot[k].step = "promote" /\ pending' = pending /\ UNCHANGED <<blocks, withdrawn, doubt>>
  BY DEF Promote, At
<1>2. slot[k].op \in {"authorize", "Accept"} /\ slot[k].id \in Nat
  BY <1>1, TaskFields DEF MayBeAt
<1>3. WritesSubject(k) /\ follows'[Server(k)][Subject(k)] = slot[k].id
  BY <1>1, <1>2, FollowIsWritten DEF Promote
<1> QED BY <1>1, <1>2, <1>3, GotoTurns, EndTurns DEF Promote

LEMMA BlockBrief ==
  ASSUME Typed, NEW k \in Slots, Block(k)
  PROVE  /\ Busy(k) /\ slot[k].step = "block" /\ slot[k].op \in {"block", "Block"}
         /\ slot[k].op = "block" => Turns(k, Onward(k, "send", slot[k].id))
         /\ slot[k].op = "Block" => Turns(k, FreeSlot)
         /\ \A p \in {Mine(k), Theirs(k)} : follows'[Server(k)][p] = None /\ pending'[Server(k)][p] = None
         /\ blocks'[Server(k)] = blocks[Server(k)] \cup {BlockRow(k)}
         /\ RowsStayOutside(k)
         /\ UNCHANGED <<withdrawn, doubt>>
<1>1. Busy(k) /\ slot[k].step = "block" /\ UNCHANGED <<withdrawn, doubt>>
  BY DEF Block, At
<1>2. slot[k].op \in {"block", "Block"} /\ Server(k) \in Servers
      /\ Mine(k) \in Pairs /\ Theirs(k) \in Pairs
  BY <1>1, TaskFields DEF MayBeAt
<1>3. IsCleared(follows', follows, k) /\ IsCleared(pending', pending, k)
      /\ blocks' = [blocks EXCEPT ![Server(k)] = @ \cup {BlockRow(k)}]
  BY DEF Block, IsCleared
<1>4. follows \in Tables /\ pending \in Tables /\ blocks \in [Servers -> SUBSET Pairs]
  BY DEF Typed
<1>5. /\ follows'[Server(k)][Mine(k)] = None /\ follows'[Server(k)][Theirs(k)] = None
      /\ \A s \in Servers : \A p \in Pairs :
           s # Server(k) \/ p \notin {Mine(k), Theirs(k)} => follows'[s][p] = follows[s][p]
  BY <1>1, <1>3, <1>4, RowsAreCleared
<1>6. /\ pending'[Server(k)][Mine(k)] = None /\ pending'[Server(k)][Theirs(k)] = None
      /\ \A s \in Servers : \A p \in Pairs :
           s # Server(k) \/ p \notin {Mine(k), Theirs(k)} => pending'[s][p] = pending[s][p]
  BY <1>1, <1>3, <1>4, RowsAreCleared
<1>7. /\ blocks'[Server(k)] = blocks[Server(k)] \cup {BlockRow(k)}
      /\ \A s \in Servers : s # Server(k) => blocks'[s] = blocks[s]
  BY <1>2, <1>3, <1>4
<1>8. BlockRow(k) \in {Mine(k), Theirs(k)}
  BY DEF BlockRow
<1>9. RowsStayOutside(k)
  BY <1>5, <1>6, <1>7, <1>8 DEF RowsStayOutside, RowsKept
<1>A. Finish(k)
  BY DEF Block
<1>B. slot[k].op = "block" => Goto(k, "send")
  BY <1>A DEF Finish, Sends
<1>C. slot[k].op = "Block" => End(k)
  BY <1>A DEF Finish, Sends
<1> QED BY <1>1, <1>2, <1>5, <1>6, <1>7, <1>9, <1>B, <1>C, GotoTurns, EndTurns

LEMMA UnblockBrief ==
  ASSUME Typed, NEW k \in Slots, Unblock(k)
  PROVE  /\ Busy(k) /\ slot[k].step = "unblock" /\ slot[k].op \in {"unblock", "UndoBlock"}
         /\ slot[k].op = "unblock" /\ HasBlock(Server(k), BlockRow(k)) => Turns(k, Onward(k, "send", slot[k].id))
         /\ slot[k].op = "UndoBlock" \/ ~HasBlock(Server(k), BlockRow(k)) => Turns(k, FreeSlot)
         /\ blocks'[Server(k)] = blocks[Server(k)] \ {BlockRow(k)}
         /\ RowsStayOutside(k)
         /\ UNCHANGED <<follows, pending, withdrawn, doubt>>
<1>1. Busy(k) /\ slot[k].step = "unblock" /\ UNCHANGED <<follows, pending, withdrawn, doubt>>
  BY DEF Unblock, At
<1>2. slot[k].op \in {"unblock", "UndoBlock"} /\ Server(k) \in Servers
  BY <1>1, TaskFields DEF MayBeAt
<1>3. blocks' = [blocks EXCEPT ![Server(k)] = @ \ {BlockRow(k)}] /\ blocks \in [Servers -> SUBSET Pairs]
  BY DEF Unblock, Typed
<1>4. /\ blocks'[Server(k)] = blocks[Server(k)] \ {BlockRow(k)}
      /\ \A s \in Servers : s # Server(k) => blocks'[s] = blocks[s]
  BY <1>2, <1>3
<1>5. BlockRow(k) \in {Mine(k), Theirs(k)}
  BY DEF BlockRow
<1>6. RowsStayOutside(k)
  BY <1>1, <1>4, <1>5 DEF RowsStayOutside, RowsKept
<1>7. HasBlock(Server(k), BlockRow(k)) => Finish(k)
  BY DEF Unblock
<1>8. ~HasBlock(Server(k), BlockRow(k)) => End(k)
  BY DEF Unblock
<1>9. slot[k].op = "unblock" /\ HasBlock(Server(k), BlockRow(k)) => Goto(k, "send")
  BY <1>7 DEF Finish, Sends
<1>A. slot[k].op = "UndoBlock" \/ ~HasBlock(Server(k), BlockRow(k)) => End(k)
  BY <1>7, <1>8 DEF Finish, Sends
<1> QED BY <1>1, <1>2, <1>4, <1>6, <1>9, <1>A, GotoTurns, EndTurns

(* The steps that read and decide.                                         *)
LEMMA LookUpBrief ==
  ASSUME Typed, NEW k \in Slots, LookUp(k)
  PROVE  /\ Busy(k) /\ slot[k].step = "look" /\ slot[k].op \in {"follow", "unfollow", "Follow"}
         /\ UNCHANGED tables /\ UNCHANGED <<withdrawn, doubt>>
         /\ \/ follows[Server(k)][Subject(k)] = None /\ Turns(k, Onward(k, "read", slot[k].id))
            \/ /\ follows[Server(k)][Subject(k)] # None
               /\ \/ slot[k].op = "unfollow" /\ Turns(k, Onward(k, "remove", slot[k].id))
                  \/ slot[k].op # "unfollow" /\ Turns(k, FreeSlot)
<1>1. Busy(k) /\ slot[k].step = "look" /\ UNCHANGED tables /\ UNCHANGED <<withdrawn, doubt>>
  BY DEF LookUp, At
<1>2. slot[k].op \in {"follow", "unfollow", "Follow"}
  BY <1>1, TaskFields DEF MayBeAt
<1>3. \/ follows[Server(k)][Subject(k)] = None /\ Goto(k, "read")
      \/ follows[Server(k)][Subject(k)] # None /\ slot[k].op = "unfollow" /\ Goto(k, "remove")
      \/ follows[Server(k)][Subject(k)] # None /\ slot[k].op # "unfollow" /\ End(k)
  BY DEF LookUp
<1> QED BY <1>1, <1>2, <1>3, GotoTurns, EndTurns

LEMMA ReadFollowBrief ==
  ASSUME Typed, NEW k \in Slots, ReadFollow(k)
  PROVE  /\ Busy(k) /\ slot[k].step = "read" /\ slot[k].op = "follow"
         /\ UNCHANGED tables /\ withdrawn' = withdrawn /\ doubt \subseteq doubt'
         /\ \/ Turns(k, FreeSlot)
            \/ /\ pending[Server(k)][Mine(k)] = None
               /\ \E step \in {"establish", "request"} :
                    /\ Turns(k, Onward(k, step, lastId + 1))
                    /\ ~SameServer(Me(k), You(k)) /\ Both(k) \notin doubt' => (step = "request" <=> You(k) \in Locked)
<1>1. Busy(k) /\ slot[k].step = "read" /\ slot[k].op = "follow" /\ UNCHANGED tables /\ withdrawn' = withdrawn
  BY DEF ReadFollow, At
<1>2. CASE End(k) /\ doubt' = doubt
  BY <1>1, <1>2, EndTurns
<1>3. CASE ~(End(k) /\ doubt' = doubt)
  <2>1. pending[Server(k)][Mine(k)] = None
    BY <1>3 DEF ReadFollow
  <2>2. PICK flag \in LockedFlags(Me(k), You(k)) :
             /\ slot' = [slot EXCEPT ![k].step = Decision(Me(k), You(k), flag), ![k].id = lastId + 1]
             /\ doubt' = IF flag = (You(k) \in Locked) THEN doubt ELSE doubt \cup {Both(k)}
             /\ raced' = raced
    BY <2>1 DEF ReadFollow
  <2>3. PICK step : step = Decision(Me(k), You(k), flag)
    OBVIOUS
  <2>4. step \in {"establish", "request"} /\ (~SameServer(Me(k), You(k)) => (step = "request" <=> flag))
    BY <2>3 DEF Decision
  <2>5. Turns(k, Onward(k, step, lastId + 1))
    BY <1>1, <2>2, <2>3, JumpTurns
  <2>6. flag \in BOOLEAN
    BY <2>2 DEF LockedFlags
  <2>7. doubt \subseteq doubt' /\ (Both(k) \notin doubt' => (flag <=> You(k) \in Locked))
    BY <2>2, <2>6
  <2> QED BY <1>1, <2>1, <2>4, <2>5, <2>7
<1> QED BY <1>2, <1>3

LEMMA HandleFollowBrief ==
  ASSUME Typed, NEW k \in Slots, HandleFollow(k)
  PROVE  /\ Busy(k) /\ slot[k].step = "read" /\ slot[k].op = "Follow"
         /\ UNCHANGED tables /\ UNCHANGED <<withdrawn, doubt>>
         /\ \/ pending[Server(k)][Theirs(k)] # None /\ Turns(k, FreeSlot)
            \/ \E step \in {"establish", "request"} :
                 /\ Turns(k, Onward(k, step, slot[k].id))
                 /\ ~SameServer(Me(k), You(k)) => (step = "request" <=> Me(k) \in Locked)
<1>1. Busy(k) /\ slot[k].step = "read" /\ slot[k].op = "Follow" /\ UNCHANGED tables
      /\ UNCHANGED <<withdrawn, doubt>>
  BY DEF HandleFollow, At
<1>2. CASE pending[Server(k)][Theirs(k)] # None
  BY <1>1, <1>2, EndTurns DEF HandleFollow
<1>3. CASE pending[Server(k)][Theirs(k)] = None
  <2>1. PICK step : step = Decision(You(k), Me(k), Me(k) \in Locked)
    OBVIOUS
  <2>2. step \in {"establish", "request"}
        /\ (~SameServer(Me(k), You(k)) => (step = "request" <=> Me(k) \in Locked))
    BY <2>1 DEF Decision, SameServer
  <2>3. Goto(k, step)
    BY <1>3, <2>1 DEF HandleFollow
  <2> QED BY <1>1, <2>2, <2>3, GotoTurns
<1> QED BY <1>2, <1>3

LEMMA ReadUnfollowBrief ==
  ASSUME Typed, NEW k \in Slots, ReadUnfollow(k)
  PROVE  /\ Busy(k) /\ slot[k].step = "read" /\ slot[k].op = "unfollow"
         /\ UNCHANGED tables /\ UNCHANGED <<withdrawn, doubt>>
         /\ Turns(k, FreeSlot) \/ Turns(k, Onward(k, "withdraw", slot[k].id))
<1>1. Busy(k) /\ slot[k].step = "read" /\ slot[k].op = "unfollow" /\ UNCHANGED tables
      /\ UNCHANGED <<withdrawn, doubt>>
  BY DEF ReadUnfollow, At
<1>2. End(k) \/ Goto(k, "withdraw")
  BY DEF ReadUnfollow
<1> QED BY <1>1, <1>2, GotoTurns, EndTurns

LEMMA ReadBlockBrief ==
  ASSUME Typed, NEW k \in Slots, ReadBlock(k)
  PROVE  /\ Busy(k) /\ slot[k].step = "read" /\ slot[k].op = "block"
         /\ UNCHANGED tables /\ UNCHANGED <<withdrawn, doubt>>
         /\ Turns(k, FreeSlot) \/ Turns(k, Onward(k, "block", slot[k].id))
<1>1. Busy(k) /\ slot[k].step = "read" /\ slot[k].op = "block" /\ UNCHANGED tables
      /\ UNCHANGED <<withdrawn, doubt>>
  BY DEF ReadBlock, At
<1>2. End(k) \/ Goto(k, "block")
  BY DEF ReadBlock
<1> QED BY <1>1, <1>2, GotoTurns, EndTurns

(* Steps other than a send neither withhold nor repeat an activity.        *)
Tidy(k) ==
  /\ \A at : Leaving(slot[k], at) \subseteq Leaving(slot'[k], at)
  /\ Handling(slot'[k]) \subseteq Handling(slot[k])

LEMMA TurnsAreTidy ==
  ASSUME Typed, NEW k \in Slots, Busy(k), slot[k].step # "send", NEW t, Turns(k, t),
         \/ t = FreeSlot /\ ~(slot[k].step = "promote" /\ slot[k].op = "authorize")
         \/ t = Onward(k, "send", slot[k].id)
         \/ slot[k].step # "promote" /\ \E step \in Steps : t = Onward(k, step, slot[k].id)
         \/ /\ slot[k].step # "promote"
            /\ \E step, id : t = Onward(k, step, id) /\ (step \in {"promote", "send"} \/ slot[k].op \notin Handlers)
  PROVE  Tidy(k)
<1>1. slot'[k] = t
  BY DEF Turns
<1>2. ~(slot[k].step = "promote" /\ slot[k].op = "authorize") => \A at : Leaving(slot[k], at) = {}
  BY DEF Leaving
<1>4. CASE t = FreeSlot /\ ~(slot[k].step = "promote" /\ slot[k].op = "authorize")
  BY <1>1, <1>2, <1>4, IdleSlotsSayNothing DEF Tidy
<1>5. CASE t = Onward(k, "send", slot[k].id)
  BY <1>1, <1>5 DEF Tidy, Onward, Leaving, Handling
<1>6. CASE slot[k].step # "promote" /\ \E step \in Steps : t = Onward(k, step, slot[k].id)
  BY <1>1, <1>2, <1>6, TaskFields DEF Tidy, Onward, Handling, Errand
<1>7. CASE /\ slot[k].step # "promote"
           /\ \E step, id : t = Onward(k, step, id) /\ (step \in {"promote", "send"} \/ slot[k].op \notin Handlers)
  BY <1>1, <1>2, <1>7 DEF Tidy, Onward, Handling
<1> QED BY <1>4, <1>5, <1>6, <1>7

LEMMA WritersStayAtHome ==
  ASSUME NEW k \in Slots, WritesSubject(k)
  PROVE  RowsStayOutside(k)
<1>1. Subject(k) \in {Mine(k), Theirs(k)}
  BY DEF Subject
<1> QED BY <1>1 DEF WritesSubject, RowsStayOutside, RowsKept

LEMMA TaskStepIsTidy ==
  ASSUME IInv, IInv', Ledger, NEW k \in Slots, TaskStep(k), ~At(k, "send"), home' = home
  PROVE  /\ GoesOn(k, slot'[k]) /\ UNCHANGED <<net, raced>> /\ HistoryGrows
         /\ RowsStayOutside(k) /\ Tidy(k)
<1>1. GoesOn(k, slot'[k]) /\ net' = net /\ raced' = raced
  BY TaskStepProceeds DEF Proceeds
<1>2. Typed /\ Busy(k) /\ slot[k].step # "send"
  BY <1>1 DEF IInv, GoesOn, At
<1>3. SUFFICES RowsStayOutside(k) /\ Tidy(k) /\ doubt \subseteq doubt' /\ withdrawn \subseteq withdrawn'
  BY <1>1 DEF HistoryGrows
<1>4. UNCHANGED tables => RowsStayOutside(k)
  BY DEF tables, RowsStayOutside, RowsKept
<1>5. {"read", "establish", "request", "remove", "withdraw", "block"} \subseteq Steps
  BY DEF Steps
<1>6. CASE ReadFollow(k)
  <2>1. slot[k].op \notin Handlers /\ slot[k].step # "promote"
    BY <1>2, <1>6, ReadFollowBrief DEF Handlers
  <2> QED BY <1>2, <1>4, <1>6, <2>1, ReadFollowBrief, TurnsAreTidy
<1>7. CASE HandleFollow(k)
  BY <1>2, <1>4, <1>5, <1>7, HandleFollowBrief, TurnsAreTidy
<1>8. CASE ReadUnfollow(k)
  BY <1>2, <1>4, <1>5, <1>8, ReadUnfollowBrief, TurnsAreTidy
<1>9. CASE ReadBlock(k)
  BY <1>2, <1>4, <1>5, <1>9, ReadBlockBrief, TurnsAreTidy
<1>A. CASE Establish(k)
  BY <1>2, <1>A, EstablishBrief, TurnsAreTidy, WritersStayAtHome
<1>B. CASE Request(k)
  BY <1>2, <1>B, RequestBrief, TurnsAreTidy, WritersStayAtHome
<1>C. CASE RemoveFollow(k)
  BY <1>2, <1>C, RemoveFollowBrief, TurnsAreTidy, WritersStayAtHome
<1>D. CASE Withdraw(k)
  BY <1>2, <1>D, WithdrawBrief, TurnsAreTidy, WritersStayAtHome
<1>E. CASE Take(k)
  BY <1>2, <1>E, TakeBrief, TurnsAreTidy, WritersStayAtHome
<1>F. CASE Promote(k)
  BY <1>2, <1>F, PromoteBrief, TurnsAreTidy, WritersStayAtHome
<1>G. CASE Block(k)
  BY <1>2, <1>G, BlockBrief, TurnsAreTidy
<1>H. CASE Unblock(k)
  BY <1>2, <1>H, UnblockBrief, TurnsAreTidy
<1>I. CASE LookUp(k)
  BY <1>2, <1>4, <1>5, <1>I, LookUpBrief, TurnsAreTidy
<1>J. ~SendRemote(k) /\ ~SendLocal(k)
  BY DEF SendRemote, SendLocal
<1> QED BY <1>6, <1>7, <1>8, <1>9, <1>A, <1>B, <1>C, <1>D, <1>E, <1>F, <1>G, <1>H, <1>I, <1>J DEF TaskStep

LEMMA TaskStepAdvances ==
  ASSUME IInv, IInv', Ledger, NEW k \in Slots, TaskStep(k), ~At(k, "send"), home' = home,
         Undisturbed(k), ~SameServer(Me(k), You(k))
  PROVE  Advances(k) /\ HistoryGrows
BY TaskStepIsTidy DEF Advances, Tidy

-----------------------------------------------------------------------------
(* The relations of the two accounts of a task that advances: p, in which  *)
(* it acts for the follower, and b, in which it acts for the followee.     *)

Between(k, p, b, s) ==
  /\ Typed /\ Typed' /\ OverlapsAreNoted /\ Advances(k) /\ HistoryGrows
  /\ p \in Pairs /\ p = Mine(k) /\ b \in Pairs /\ b = Theirs(k) /\ s = Server(k)

(* What is to be shown of them after the step.                             *)
LEMMA FollowerAgrees ==
  ASSUME NEW k \in Slots, NEW p, NEW b, NEW s, Between(k, p, b, s),
         NEW y, y = You(k), NEW o, o = home[You(k)],
         NEW fx, fx = Row(follows'[s][p]) \cup Promoting(slot'[k], "Accept"),
         NEW px, px = Row(pending'[s][p]), NEW fy, fy = Following(o, p), NEW py, py = Row(pending[o][p]),
         NEW c, c = Claim(slot'[k]), NEW q, q = Way(p)', NEW r, r = Way(b)',
         Agreeing(y \in Locked, fx, px, fy, py, c, q, r)
  PROVE  AgreeingOn(p)'
<1>1. AgreeingOn(p)' <=>
        Agreeing(y \in Locked, Row(follows'[s][p]) \cup Promoting(slot'[k], "Accept"),
                 Row(pending'[s][p]), Following(o, p), Row(pending[o][p]), Claim(slot'[k]), Way(p)', Way(b)')
  BY AsFollower DEF Between
<1> QED BY <1>1

LEMMA FolloweeAgrees ==
  ASSUME NEW k \in Slots, NEW p, NEW b, NEW s, Between(k, p, b, s),
         NEW x, x = Me(k), NEW o, o = home[You(k)],
         NEW fx, fx = Following(o, b), NEW px, px = Row(pending[o][b]),
         NEW fy, fy = Row(follows'[s][b]) \cup Promoting(slot'[k], "authorize"),
         NEW py, py = Row(pending'[s][b]), NEW c, c = Claims(b), NEW q, q = Way(b)', NEW r, r = Way(p)',
         Agreeing(x \in Locked, fx, px, fy, py, c, q, r)
  PROVE  AgreeingOn(b)'
<1>1. AgreeingOn(b)' <=>
        Agreeing(x \in Locked, Following(o, b), Row(pending[o][b]),
                 Row(follows'[s][b]) \cup Promoting(slot'[k], "authorize"), Row(pending'[s][b]),
                 Claims(b), Way(b)', Way(p)')
  BY AsFollowee DEF Between
<1> QED BY <1>1

SamePlace(s, q) == follows'[s][q] = follows[s][q] /\ pending'[s][q] = pending[s][q]

(* Steps that leave the rows of both relations and say nothing to them.    *)
LEMMA SilentStepsKeepRelations ==
  ASSUME NEW k \in Slots, NEW p, NEW b, NEW s, Between(k, p, b, s), SamePlace(s, p), SamePlace(s, b),
         slot[k].step \in {"look", "read", "withdraw", "unblock", "take"},
         slot[k].op \notin Handlers \ {"UndoBlock"},
         \/ slot'[k] = FreeSlot
         \/ \E step \in {"read", "remove", "withdraw", "block"} : \E id : slot'[k] = Onward(k, step, id)
         \/ slot[k].op = "unblock" /\ \E id : slot'[k] = Onward(k, "send", id),
         RelationHolds(p), RelationHolds(b)
  PROVE  RelationHolds(p)' /\ RelationHolds(b)'
<1>1. /\ Claim(slot[k]) = {} /\ \A m \in Handling(slot[k]) : m.type = "UndoBlock"
      /\ \A op : Promoting(slot[k], op) = {}
  BY DEF Claim, Handling, Promoting, Piece
<1>2. /\ Claim(slot'[k]) = {}
      /\ \A op : Promoting(slot'[k], op) = {}
      /\ \A at : \A m \in Leaving(slot'[k], at) : m.type = "UndoBlock"
  <2>1. CASE slot'[k] = FreeSlot
    BY <2>1, IdleSlotsSayNothing
  <2>2. ASSUME NEW step \in {"read", "remove", "withdraw", "block"}, NEW id, slot'[k] = Onward(k, step, id)
        PROVE  /\ Claim(slot'[k]) = {}
               /\ \A op : Promoting(slot'[k], op) = {}
               /\ \A at : Leaving(slot'[k], at) = {}
    BY <2>2 DEF Claim, Promoting, Leaving, Onward
  <2>3. ASSUME slot[k].op = "unblock", NEW id, slot'[k] = Onward(k, "send", id)
        PROVE  /\ Claim(slot'[k]) = {}
               /\ \A op : Promoting(slot'[k], op) = {}
               /\ \A at : \A m \in Leaving(slot'[k], at) : m.type = "UndoBlock"
    BY <2>3 DEF Claim, Promoting, Leaving, Onward, Piece, Sends
  <2> QED BY <2>1, <2>2, <2>3
<1>3. RelationHolds(p)'
  BY <1>1, <1>2, FollowerIsUnmoved DEF Between, SamePlace, Ends
<1>4. RelationHolds(b)'
  BY <1>1, <1>2, FolloweeIsUnmoved DEF Between, SamePlace, Ends
<1> QED BY <1>3, <1>4

LEMMA WaysAreMinted ==
  ASSUME Typed, IdsAreMinted, NEW q \in Pairs, NEW m \in Way(q)
  PROVE  m.id <= lastId
<1>1. \A k \in Slots : slot[k] # FreeSlot => slot[k].id <= lastId
  BY DEF IdsAreMinted, Busy
<1>2. CASE m \in Queued(net[q])
  BY <1>2 DEF IdsAreMinted, Queued, Piece
<1>3. ASSUME NEW k \in Slots, NEW at, m \in Handling(slot[k]) \/ m \in Leaving(slot[k], at)
      PROVE  m.id <= lastId
  <2>1. slot[k] # FreeSlot
    BY <1>3, IdleSlotsSayNothing
  <2>2. m.id = slot[k].id
    BY <1>3 DEF Handling, Leaving, Piece
  <2> QED BY <1>1, <2>1, <2>2
<1> QED BY <1>2, <1>3 DEF Way

(* follow mints an id that no row and no activity has.                     *)
LEMMA MintingKeepsRelations ==
  ASSUME NEW k \in Slots, NEW p, NEW b, NEW s, Between(k, p, b, s), SamePlace(s, p), SamePlace(s, b),
         IdsAreMinted, slot[k].step = "read", slot[k].op = "follow",
         NEW step \in {"establish", "request"}, slot'[k] = Onward(k, step, lastId + 1),
         RelationHolds(p), RelationHolds(b)
  PROVE  RelationHolds(p)' /\ RelationHolds(b)'
<1>1. /\ Handling(slot[k]) = {} /\ Handling(slot'[k]) = {}
      /\ \A op : Promoting(slot[k], op) = {} /\ Promoting(slot'[k], op) = {}
      /\ \A at : Leaving(slot'[k], at) = {}
      /\ Claim(slot'[k]) = {lastId + 1}
  BY DEF Claim, Handling, Promoting, Leaving, Onward, Handlers
<1>2. RelationHolds(b)'
  BY <1>1, FolloweeIsUnmoved DEF Between, SamePlace
<1>3. ASSUME AgreeingOn(p) PROVE AgreeingOn(p)'
  <2>1. PICK o, y : o = home[You(k)] /\ y = You(k)
    OBVIOUS
  <2>2. PICK fx, px, fy, py, c, q, r :
          /\ fx = Row(follows[s][p]) \cup Promoting(slot[k], "Accept")
          /\ px = Row(pending[s][p]) /\ fy = Following(o, p) /\ py = Row(pending[o][p])
          /\ c = Claim(slot[k]) /\ q = Way(p) /\ r = Way(b)
    OBVIOUS
  <2>3. Agreeing(y \in Locked, fx, px, fy, py, c, q, r)
    BY <1>3, <2>1, <2>2, AsFollower DEF Between
  <2>4. Way(p)' = q /\ Way(b)' = r /\ q \in SUBSET Item /\ r \in SUBSET Item
    <3>1. Way(p)' = q \cup Leaving(slot'[k], Len(net[p]) + 1) /\ Way(b)' = r \ (Handling(slot[k]) \ Handling(slot'[k]))
      BY <2>2, AdvancesOnTheWay DEF Between
    <3> QED BY <1>1, <2>2, <3>1 DEF Way
  <2>5. o \in Servers /\ lastId \in Nat /\ Busy(k)
    <3>1. Busy(k)
      BY DEF Between, Advances, Undisturbed
    <3> QED BY <2>1, <3>1, TaskFields DEF Between, Typed
  <2>6. \A id \in py : id <= lastId
    BY <2>2, <2>5 DEF Between, IdsAreMinted, RowsAreMinted, Row
  <2>7. \A m \in q \cup r : m.id <= lastId
    BY <2>2, WaysAreMinted DEF Between
  <2>8. lastId + 1 # None /\ ~(lastId + 1 <= lastId)
    BY <2>5 DEF None
  <2>9. ClaimsAreFresh(py, {lastId + 1}, q, r)
    BY <2>6, <2>7, <2>8 DEF ClaimsAreFresh, Answers
  <2>A. Agreeing(y \in Locked, fx, px, fy, py, {lastId + 1}, q, r)
    BY <2>3, <2>4, <2>9, ClaimKeepsAgreement
  <2>B. /\ Row(follows'[s][p]) \cup Promoting(slot'[k], "Accept") = fx
        /\ Row(pending'[s][p]) = px
    BY <1>1, <2>2 DEF SamePlace
  <2>C. Claim(slot'[k]) = {lastId + 1}
    BY <1>1
  <2> QED BY <2>1, <2>2, <2>4, <2>A, <2>B, <2>C, FollowerAgrees
<1> QED BY <1>2, <1>3, RelationsFollow DEF Between

(* follow writes its row, and will send.                                   *)
LEMMA AskKeepsRelations ==
  ASSUME NEW k \in Slots, NEW p, NEW b, NEW s, Between(k, p, b, s), SamePlace(s, b),
         slot[k].step \in {"establish", "request"}, slot[k].op = "follow",
         slot'[k] = Onward(k, "send", slot[k].id), NoRow(s, p),
         Both(k) \notin doubt => (slot[k].step = "request" <=> You(k) \in Locked),
         slot[k].step = "request" => follows'[s][p] = None /\ pending'[s][p] = slot[k].id,
         slot[k].step = "establish" => follows'[s][p] = slot[k].id /\ pending'[s][p] = None,
         RelationHolds(p), RelationHolds(b)
  PROVE  RelationHolds(p)' /\ RelationHolds(b)'
<1> DEFINE at == Len(net[p]) + 1
           m  == Piece(at, "Follow", slot[k].id)
<1>1. /\ Handling(slot[k]) = {} /\ Handling(slot'[k]) = {}
      /\ \A op : Promoting(slot[k], op) = {} /\ Promoting(slot'[k], op) = {}
      /\ \A n : Leaving(slot[k], n) = {} /\ Leaving(slot'[k], n) = {Piece(n, "Follow", slot[k].id)}
      /\ Claim(slot[k]) = {slot[k].id} /\ Claim(slot'[k]) = {}
  BY DEF Claim, Handling, Promoting, Leaving, Onward, Handlers, Sends
<1>2. RelationHolds(b)'
  <2>1. \A n : \A h \in Leaving(slot'[k], n) \ Leaving(slot[k], n) : h.type \notin {"Accept", "Reject", "Block"}
    BY <1>1 DEF Piece
  <2> QED BY <1>1, <2>1, FolloweeIsUnmoved DEF Between, SamePlace
<1>3. /\ Way(p)' = Way(p) \cup {m} /\ Way(b)' = Way(b) /\ Way(p) \in SUBSET Item /\ Way(b) \in SUBSET Item
      /\ m \in Item /\ AtEnd(Way(p), m) /\ 0 < m.at /\ m.type = "Follow" /\ m.id = slot[k].id
      /\ \A h \in Way(b) : h.at # 0
  <2>1. /\ Way(p)' = Way(p) \cup Leaving(slot'[k], at) /\ Leaving(slot'[k], at) \subseteq Item
        /\ Leaving(slot[k], at) = {} => \A h \in Leaving(slot'[k], at) : AtEnd(Way(p), h) /\ 0 < h.at
        /\ Way(b)' = Way(b) \ (Handling(slot[k]) \ Handling(slot'[k]))
        /\ \A h \in Way(b) : h.at = 0 => h \in Handling(slot[k])
    BY AdvancesOnTheWay DEF Between
  <2>2. m.type = "Follow" /\ m.id = slot[k].id
    BY DEF Piece
  <2>3. Leaving(slot'[k], at) = {m} /\ Leaving(slot[k], at) = {} /\ Handling(slot[k]) = {}
    BY <1>1
  <2> HIDE DEF m, at
  <2> QED BY <2>1, <2>2, <2>3 DEF Way
<1>4. ASSUME Untouched(p)', AgreeingOn(p) PROVE AgreeingOn(p)' \/ Doomed(Way(p)', Way(b)')
  <2>1. CASE Carries(Way(b), {"Block"})
    <3>1. PICK h \in Way(b) : h.type = "Block"
      BY <2>1 DEF Carries
    <3>2. h.at \in Nat /\ h.at # 0
      BY <1>3 DEF Item
    <3>3. 0 < h.at
      BY <3>2
    <3> HIDE DEF m, at
    <3> QED BY <1>3, <3>1, <3>3 DEF Doomed
  <2>2. CASE ~Carries(Way(b), {"Block"})
    <3>1. PICK o, y : o = home[You(k)] /\ y = You(k)
      OBVIOUS
    <3>2. PICK fx, px, fy, py, c, q, r, g :
            /\ fx = Row(follows[s][p]) \cup Promoting(slot[k], "Accept")
            /\ px = Row(pending[s][p]) /\ fy = Following(o, p) /\ py = Row(pending[o][p])
            /\ c = Claim(slot[k]) /\ q = Way(p) /\ r = Way(b) /\ g = m
      OBVIOUS
    <3>3. Agreeing(y \in Locked, fx, px, fy, py, c, q, r)
      BY <1>4, <3>1, <3>2, AsFollower DEF Between
    <3>4. Neither(fx, px) /\ g.id \in c
      BY <1>1, <1>3, <3>2 DEF Neither, NoRow, Row
    <3>5. slot[k].id # None
      BY <1>3, <3>2, <3>3, <3>4 DEF Agreeing, ClaimsAreFresh
    <3>6. PICK fx2, px2 : /\ fx2 = Row(follows'[s][p]) \cup Promoting(slot'[k], "Accept")
                          /\ px2 = Row(pending'[s][p])
      OBVIOUS
    <3>7. Both(k) \notin doubt
      <4>1. {p[1], p[2]} = Both(k)
        BY DEF Between, Mine, Both
      <4> QED BY <1>4, <4>1 DEF Untouched, Between, HistoryGrows
    <3>8. /\ y \in Locked => px2 = {g.id} /\ fx2 = {}
          /\ ~(y \in Locked) => fx2 = {g.id} /\ px2 = {}
      <4>1. g.id = slot[k].id /\ Promoting(slot'[k], "Accept") = {}
        BY <1>1, <1>3, <3>2
      <4> QED BY <3>1, <3>5, <3>6, <3>7, <4>1 DEF Row
    <3>9. g \in Item /\ g.type = "Follow" /\ AtEnd(q, g) /\ ~Carries(r, {"Block"})
          /\ q \in SUBSET Item /\ r \in SUBSET Item
      BY <1>3, <2>2, <3>2
    <3>A. Agreeing(y \in Locked, fx2, px2, fy, py, {}, q \cup {g}, r)
      BY <3>3, <3>4, <3>8, <3>9, AskKeepsAgreement
    <3>B. Claim(slot'[k]) = {} /\ Way(p)' = q \cup {g} /\ Way(b)' = r
      BY <1>1, <1>3, <3>2
    <3>C. AgreeingOn(p)'
      BY <3>1, <3>2, <3>6, <3>A, <3>B, FollowerAgrees
    <3> QED BY <3>C
  <2> QED BY <2>1, <2>2
<1> QED BY <1>2, <1>4, RelationsFollow DEF Between

LEMMA IdsOfAWay ==
  ASSUME NEW q
  PROVE  Way(q) \in SUBSET Item
BY DEF Way

(* unfollow deletes the row, and will send.                                *)
LEMMA EndKeepsRelations ==
  ASSUME NEW k \in Slots, NEW p, NEW b, NEW s, Between(k, p, b, s), SamePlace(s, b),
         slot[k].step \in {"remove", "withdraw"}, slot[k].op = "unfollow",
         slot'[k] = Onward(k, "send", slot[k].id),
         follows'[s][p] = None, pending'[s][p] = None,
         RelationHolds(p), RelationHolds(b)
  PROVE  RelationHolds(p)' /\ RelationHolds(b)'
<1>1. /\ Handling(slot[k]) = {} /\ Handling(slot'[k]) = {}
      /\ \A op : Promoting(slot[k], op) = {} /\ Promoting(slot'[k], op) = {}
      /\ \A n : Leaving(slot[k], n) = {} /\ Leaving(slot'[k], n) = {Piece(n, "UndoFollow", slot[k].id)}
      /\ Claim(slot[k]) = {} /\ Claim(slot'[k]) = {}
  BY DEF Claim, Handling, Promoting, Leaving, Onward, Handlers, Sends
<1>2. RelationHolds(b)'
  <2>1. \A n : \A h \in Leaving(slot'[k], n) \ Leaving(slot[k], n) : h.type \notin {"Accept", "Reject", "Block"}
    BY <1>1 DEF Piece
  <2> QED BY <1>1, <2>1, FolloweeIsUnmoved DEF Between, SamePlace
<1>3. PICK at, m : at = Len(net[p]) + 1 /\ m = Piece(at, "UndoFollow", slot[k].id)
  OBVIOUS
<1>4. m.type \in Ends /\ Leaving(slot'[k], at) = {m}
  BY <1>1, <1>3 DEF Piece, Ends
<1>5. Way(p)' = Way(p) \cup {m} /\ Way(b)' = Way(b) /\ m \in Item /\ AtEnd(Way(p), m)
  <2>1. /\ Way(p)' = Way(p) \cup Leaving(slot'[k], at) /\ Leaving(slot'[k], at) \subseteq Item
        /\ Leaving(slot[k], at) = {} => \A h \in Leaving(slot'[k], at) : AtEnd(Way(p), h)
        /\ Way(b)' = Way(b) \ (Handling(slot[k]) \ Handling(slot'[k]))
    BY <1>3, AdvancesOnTheWay DEF Between
  <2> QED BY <1>1, <1>4, <2>1
<1>6. ASSUME AgreeingOn(p) PROVE AgreeingOn(p)'
  <2>1. PICK o, y : o = home[You(k)] /\ y = You(k)
    OBVIOUS
  <2>2. PICK fx, px, fy, py, c, q, r :
          /\ fx = Row(follows[s][p]) \cup Promoting(slot[k], "Accept")
          /\ px = Row(pending[s][p]) /\ fy = Following(o, p) /\ py = Row(pending[o][p])
          /\ c = Claim(slot[k]) /\ q = Way(p) /\ r = Way(b)
    OBVIOUS
  <2>3. Agreeing(y \in Locked, fx, px, fy, py, c, q, r)
    BY <1>6, <2>1, <2>2, AsFollower DEF Between
  <2>4. q \in SUBSET Item /\ r \in SUBSET Item
    BY <2>2, IdsOfAWay
  <2>5. Agreeing(y \in Locked, {}, {}, fy, py, c, q \cup {m}, r)
    BY <1>4, <1>5, <2>2, <2>3, <2>4, EndKeepsAgreement
  <2>6. /\ Row(follows'[s][p]) \cup Promoting(slot'[k], "Accept") = {} /\ Row(pending'[s][p]) = {}
        /\ Claim(slot'[k]) = c /\ Way(p)' = q \cup {m} /\ Way(b)' = r
    BY <1>1, <1>5, <2>2 DEF Row
  <2> QED BY <2>1, <2>2, <2>5, <2>6, FollowerAgrees
<1> QED BY <1>2, <1>6, RelationsFollow DEF Between

(* promote writes what it has taken.                                       *)
LEMMA PromoteKeepsRelations ==
  ASSUME NEW k \in Slots, NEW p, NEW b, NEW s, Between(k, p, b, s),
         slot[k].step = "promote", slot[k].id # None,
         \/ /\ slot[k].op = "Accept" /\ slot'[k] = FreeSlot /\ SamePlace(s, b)
            /\ follows[s][p] = None /\ follows'[s][p] = slot[k].id /\ pending'[s][p] = pending[s][p]
         \/ /\ slot[k].op = "authorize" /\ slot'[k] = Onward(k, "send", slot[k].id) /\ SamePlace(s, p)
            /\ follows[s][b] = None /\ follows'[s][b] = slot[k].id /\ pending'[s][b] = pending[s][b],
         RelationHolds(p), RelationHolds(b)
  PROVE  RelationHolds(p)' /\ RelationHolds(b)'
<1>1. Row(None) = {} /\ Row(slot[k].id) = {slot[k].id} /\ Handling(slot[k]) = {} /\ Claim(slot[k]) = {}
  BY DEF Row, Handling, Claim
<1>2. CASE slot[k].op = "Accept"
  <2>1. /\ Promoting(slot[k], "Accept") = {slot[k].id} /\ Promoting(slot[k], "authorize") = {}
    BY <1>2 DEF Promoting
  <2>2. /\ slot'[k] = FreeSlot /\ SamePlace(s, b)
        /\ follows[s][p] = None /\ follows'[s][p] = slot[k].id /\ pending'[s][p] = pending[s][p]
    BY <1>2
  <2>3. /\ Claim(slot'[k]) = {} /\ \A op : Promoting(slot'[k], op) = {}
        /\ \A at : Leaving(slot'[k], at) = {}
    BY <2>2, IdleSlotsSayNothing
  <2>4. RelationHolds(p)'
    <3>1. /\ Row(follows'[s][p]) \cup Promoting(slot'[k], "Accept")
               = Row(follows[s][p]) \cup Promoting(slot[k], "Accept")
          /\ Row(pending'[s][p]) = Row(pending[s][p]) /\ Claim(slot'[k]) = Claim(slot[k])
      BY <1>1, <2>1, <2>2, <2>3
    <3>2. /\ \A at : \A m \in Leaving(slot'[k], at) \ Leaving(slot[k], at) :
                           m.type \notin Ends \cup {"Follow"}
          /\ \A m \in Handling(slot[k]) \ Handling(slot'[k]) :
                           m.type \notin {"Accept", "Reject", "Block"}
      BY <1>1, <2>3
    <3> QED BY <3>1, <3>2, FollowerIsUnmoved DEF Between
  <2>5. RelationHolds(b)'
    BY <1>1, <2>1, <2>2, <2>3, FolloweeIsUnmoved DEF Between, SamePlace
  <2> QED BY <2>4, <2>5
<1>3. CASE slot[k].op = "authorize"
  <2>1. /\ Promoting(slot[k], "authorize") = {slot[k].id} /\ Promoting(slot[k], "Accept") = {}
    BY <1>3 DEF Promoting
  <2>2. /\ slot'[k] = Onward(k, "send", slot[k].id) /\ SamePlace(s, p)
        /\ follows[s][b] = None /\ follows'[s][b] = slot[k].id /\ pending'[s][b] = pending[s][b]
    BY <1>3
  <2>3. /\ Claim(slot'[k]) = {} /\ \A op : Promoting(slot'[k], op) = {}
        /\ \A at : Leaving(slot'[k], at) = Leaving(slot[k], at)
    BY <1>3, <2>2 DEF Claim, Promoting, Leaving, Onward
  <2>4. RelationHolds(p)'
    <3>1. /\ Row(follows'[s][p]) \cup Promoting(slot'[k], "Accept")
               = Row(follows[s][p]) \cup Promoting(slot[k], "Accept")
          /\ Row(pending'[s][p]) = Row(pending[s][p]) /\ Claim(slot'[k]) = Claim(slot[k])
      BY <1>1, <2>1, <2>2, <2>3 DEF SamePlace
    <3>2. /\ \A at : \A m \in Leaving(slot'[k], at) \ Leaving(slot[k], at) :
                           m.type \notin Ends \cup {"Follow"}
          /\ \A m \in Handling(slot[k]) \ Handling(slot'[k]) :
                           m.type \notin {"Accept", "Reject", "Block"}
      BY <1>1, <2>3
    <3> QED BY <3>1, <3>2, FollowerIsUnmoved DEF Between
  <2>5. RelationHolds(b)'
    BY <1>1, <2>1, <2>2, <2>3, FolloweeIsUnmoved DEF Between
  <2> QED BY <2>4, <2>5
<1> QED BY <1>2, <1>3

(* block clears the rows of both relations, and will send.                 *)
LEMMA BlockingKeepsRelations ==
  ASSUME NEW k \in Slots, NEW p, NEW b, NEW s, Between(k, p, b, s),
         slot[k].step = "block", slot[k].op = "block", slot'[k] = Onward(k, "send", slot[k].id),
         follows'[s][p] = None, pending'[s][p] = None, follows'[s][b] = None, pending'[s][b] = None,
         RelationHolds(p), RelationHolds(b)
  PROVE  RelationHolds(p)' /\ RelationHolds(b)'
<1>1. /\ Handling(slot[k]) = {} /\ Handling(slot'[k]) = {}
      /\ \A op : Promoting(slot[k], op) = {} /\ Promoting(slot'[k], op) = {}
      /\ \A n : Leaving(slot[k], n) = {} /\ Leaving(slot'[k], n) = {Piece(n, "Block", slot[k].id)}
      /\ Claim(slot[k]) = {} /\ Claim(slot'[k]) = {}
  BY DEF Claim, Handling, Promoting, Leaving, Onward, Handlers, Sends
<1>2. PICK at, m : at = Len(net[p]) + 1 /\ m = Piece(at, "Block", slot[k].id)
  OBVIOUS
<1>3. m.type = "Block" /\ m.type \in Ends /\ Leaving(slot'[k], at) = {m}
  BY <1>1, <1>2 DEF Piece, Ends
<1>4. /\ Way(p)' = Way(p) \cup {m} /\ Way(b)' = Way(b) /\ m \in Item /\ AtEnd(Way(p), m) /\ 0 < m.at
      /\ \A h \in Way(b) : h.at # 0
  <2>1. /\ Way(p)' = Way(p) \cup Leaving(slot'[k], at) /\ Leaving(slot'[k], at) \subseteq Item
        /\ Leaving(slot[k], at) = {} => \A h \in Leaving(slot'[k], at) : AtEnd(Way(p), h) /\ 0 < h.at
        /\ Way(b)' = Way(b) \ (Handling(slot[k]) \ Handling(slot'[k]))
        /\ \A h \in Way(b) : h.at = 0 => h \in Handling(slot[k])
    BY <1>2, AdvancesOnTheWay DEF Between
  <2> QED BY <1>1, <1>3, <2>1
<1>5. Row(follows'[s][p]) = {} /\ Row(pending'[s][p]) = {} /\ Row(follows'[s][b]) = {} /\ Row(pending'[s][b]) = {}
  BY DEF Row
<1>6. ASSUME AgreeingOn(p) PROVE AgreeingOn(p)'
  <2>1. PICK o, y : o = home[You(k)] /\ y = You(k)
    OBVIOUS
  <2>2. PICK fx, px, fy, py, c, q, r :
          /\ fx = Row(follows[s][p]) \cup Promoting(slot[k], "Accept")
          /\ px = Row(pending[s][p]) /\ fy = Following(o, p) /\ py = Row(pending[o][p])
          /\ c = Claim(slot[k]) /\ q = Way(p) /\ r = Way(b)
    OBVIOUS
  <2>3. Agreeing(y \in Locked, fx, px, fy, py, c, q, r)
    BY <1>6, <2>1, <2>2, AsFollower DEF Between
  <2>4. q \in SUBSET Item /\ r \in SUBSET Item
    BY <2>2, IdsOfAWay
  <2>5. Agreeing(y \in Locked, {}, {}, fy, py, c, q \cup {m}, r)
    BY <1>3, <1>4, <2>2, <2>3, <2>4, EndKeepsAgreement
  <2>6. /\ Row(follows'[s][p]) \cup Promoting(slot'[k], "Accept") = {} /\ Row(pending'[s][p]) = {}
        /\ Claim(slot'[k]) = c /\ Way(p)' = q \cup {m} /\ Way(b)' = r
    BY <1>1, <1>4, <1>5, <2>2
  <2> QED BY <2>1, <2>2, <2>5, <2>6, FollowerAgrees
<1>7. ASSUME AgreeingOn(b) PROVE AgreeingOn(b)' \/ Doomed(Way(b)', Way(p)')
  <2>1. CASE Carries(Way(b), {"Follow"})
    <3>1. PICK h \in Way(b) : h.type = "Follow"
      BY <2>1 DEF Carries
    <3>2. h.at \in Nat /\ h.at # 0
      BY <1>4, IdsOfAWay DEF Item
    <3>3. 0 < h.at
      BY <3>2
    <3> QED BY <1>3, <1>4, <3>1, <3>3 DEF Doomed
  <2>2. CASE ~Carries(Way(b), {"Follow"})
    <3>1. PICK o, x : o = home[You(k)] /\ x = Me(k)
      OBVIOUS
    <3>2. PICK fx, px, fy, py, c, q, r :
            /\ fx = Following(o, b) /\ px = Row(pending[o][b])
            /\ fy = Row(follows[s][b]) \cup Promoting(slot[k], "authorize") /\ py = Row(pending[s][b])
            /\ c = Claims(b) /\ q = Way(b) /\ r = Way(p)
      OBVIOUS
    <3>3. Agreeing(x \in Locked, fx, px, fy, py, c, q, r)
      BY <1>7, <3>1, <3>2, AsFollowee DEF Between
    <3>4. q \in SUBSET Item /\ r \in SUBSET Item
      BY <3>2, IdsOfAWay
    <3>5. Agreeing(x \in Locked, fx, px, {}, {}, c, q, r \cup {m})
      BY <1>3, <1>4, <2>2, <3>2, <3>3, <3>4, CutKeepsAgreement
    <3>6. /\ Row(follows'[s][b]) \cup Promoting(slot'[k], "authorize") = {} /\ Row(pending'[s][b]) = {}
          /\ Way(b)' = q /\ Way(p)' = r \cup {m}
      BY <1>1, <1>4, <1>5, <3>2
    <3>7. AgreeingOn(b)'
      BY <3>1, <3>2, <3>5, <3>6, FolloweeAgrees
    <3> QED BY <3>7
  <2> QED BY <2>1, <2>2
<1> QED BY <1>6, <1>7, RelationsFollow DEF Between

(* The handler of Block clears them too.                                   *)
LEMMA BlockedKeepsRelations ==
  ASSUME NEW k \in Slots, NEW p, NEW b, NEW s, Between(k, p, b, s),
         slot[k].step = "block", slot[k].op = "Block", slot'[k] = FreeSlot,
         follows'[s][p] = None, pending'[s][p] = None, follows'[s][b] = None, pending'[s][b] = None,
         RelationHolds(p), RelationHolds(b)
  PROVE  RelationHolds(p)' /\ RelationHolds(b)'
<1>1. PICK m : m = Piece(0, "Block", slot[k].id)
  OBVIOUS
<1>2. /\ Handling(slot[k]) = {m} /\ Claim(slot[k]) = {} /\ \A op : Promoting(slot[k], op) = {}
      /\ m.type = "Block" /\ m.type \in Ends
  BY <1>1 DEF Claim, Handling, Promoting, Handlers, Piece, Ends, Steps
<1>3. /\ Handling(slot'[k]) = {} /\ Claim(slot'[k]) = {}
      /\ \A op : Promoting(slot'[k], op) = {}
      /\ \A n : Leaving(slot'[k], n) = {}
  BY IdleSlotsSayNothing
<1>4. Way(p)' = Way(p) /\ Way(b)' = Way(b) \ {m} /\ m \in Item /\ Alone(Way(b), m) /\ m.at = 0 /\ m \in Way(b)
  <2>1. /\ Way(p)' = Way(p) \cup Leaving(slot'[k], Len(net[p]) + 1)
        /\ Way(b)' = Way(b) \ (Handling(slot[k]) \ Handling(slot'[k]))
        /\ \A h \in Handling(slot[k]) : Alone(Way(b), h) /\ h.at = 0 /\ h \in Item
    BY AdvancesOnTheWay DEF Between
  <2> QED BY <1>2, <1>3, <2>1 DEF Alone
<1>5. Row(follows'[s][p]) = {} /\ Row(pending'[s][p]) = {} /\ Row(follows'[s][b]) = {} /\ Row(pending'[s][b]) = {}
  BY DEF Row
<1>6. ASSUME AgreeingOn(p) PROVE AgreeingOn(p)'
  <2>1. PICK o, y : o = home[You(k)] /\ y = You(k)
    OBVIOUS
  <2>2. PICK fx, px, fy, py, c, q, r :
          /\ fx = Row(follows[s][p]) \cup Promoting(slot[k], "Accept")
          /\ px = Row(pending[s][p]) /\ fy = Following(o, p) /\ py = Row(pending[o][p])
          /\ c = Claim(slot[k]) /\ q = Way(p) /\ r = Way(b)
    OBVIOUS
  <2>3. Agreeing(y \in Locked, fx, px, fy, py, c, q, r)
    BY <1>6, <2>1, <2>2, AsFollower DEF Between
  <2>4. q \in SUBSET Item /\ r \in SUBSET Item
    BY <2>2, IdsOfAWay
  <2>5. Agreeing(y \in Locked, {}, {}, fy, py, c, q, r \ {m})
    BY <1>2, <1>4, <2>2, <2>3, <2>4, BlockedKeepsAgreement
  <2>6. /\ Row(follows'[s][p]) \cup Promoting(slot'[k], "Accept") = {} /\ Row(pending'[s][p]) = {}
        /\ Claim(slot'[k]) = c /\ Way(p)' = q /\ Way(b)' = r \ {m}
    BY <1>2, <1>3, <1>4, <1>5, <2>2
  <2> QED BY <2>1, <2>2, <2>5, <2>6, FollowerAgrees
<1>7. ASSUME AgreeingOn(b) PROVE AgreeingOn(b)'
  <2>1. PICK o, x : o = home[You(k)] /\ x = Me(k)
    OBVIOUS
  <2>2. PICK fx, px, fy, py, c, q, r :
          /\ fx = Following(o, b) /\ px = Row(pending[o][b])
          /\ fy = Row(follows[s][b]) \cup Promoting(slot[k], "authorize") /\ py = Row(pending[s][b])
          /\ c = Claims(b) /\ q = Way(b) /\ r = Way(p)
    OBVIOUS
  <2>3. Agreeing(x \in Locked, fx, px, fy, py, c, q, r)
    BY <1>7, <2>1, <2>2, AsFollowee DEF Between
  <2>4. q \in SUBSET Item /\ r \in SUBSET Item
    BY <2>2, IdsOfAWay
  <2>5. Agreeing(x \in Locked, fx, px, {}, {}, c, q \ {m}, r)
    BY <1>2, <1>4, <2>2, <2>3, <2>4, EndedKeepsAgreement
  <2>6. /\ Row(follows'[s][b]) \cup Promoting(slot'[k], "authorize") = {} /\ Row(pending'[s][b]) = {}
        /\ Way(b)' = q \ {m} /\ Way(p)' = r
    BY <1>3, <1>4, <1>5, <2>2
  <2> QED BY <2>1, <2>2, <2>5, <2>6, FolloweeAgrees
<1> QED BY <1>6, <1>7, RelationsFollow DEF Between

(* authorize takes the request and will answer it.                         *)
LEMMA AuthorizeKeepsRelations ==
  ASSUME NEW k \in Slots, NEW p, NEW b, NEW s, Between(k, p, b, s), SamePlace(s, p),
         slot[k].step = "take", slot[k].op = "authorize",
         NEW row, row = pending[s][b], row # None, slot'[k] = Onward(k, "promote", row),
         follows[s][b] = None, follows'[s][b] = None, pending'[s][b] = None,
         RelationHolds(p), RelationHolds(b)
  PROVE  RelationHolds(p)' /\ RelationHolds(b)'
<1>1. PICK at, m : at = Len(net[p]) + 1 /\ m = Piece(at, "Accept", row)
  OBVIOUS
<1>2. /\ Handling(slot[k]) = {} /\ Handling(slot'[k]) = {} /\ Claim(slot[k]) = {} /\ Claim(slot'[k]) = {}
      /\ \A op : Promoting(slot[k], op) = {}
      /\ Promoting(slot'[k], "Accept") = {} /\ Promoting(slot'[k], "authorize") = {row}
      /\ \A n : Leaving(slot[k], n) = {} /\ Leaving(slot'[k], n) = {Piece(n, "Accept", row)}
      /\ m.type = "Accept" /\ m.id = row /\ Leaving(slot'[k], at) = {m}
  BY <1>1 DEF Claim, Handling, Promoting, Leaving, Onward, Handlers, Sends, Piece
<1>3. RelationHolds(p)'
  <2>1. \A n : \A h \in Leaving(slot'[k], n) \ Leaving(slot[k], n) : h.type \notin Ends \cup {"Follow"}
    BY <1>2 DEF Piece, Ends
  <2> QED BY <1>2, <2>1, FollowerIsUnmoved DEF Between, SamePlace
<1>4. Way(p)' = Way(p) \cup {m} /\ Way(b)' = Way(b) /\ m \in Item
  <2>1. /\ Way(p)' = Way(p) \cup Leaving(slot'[k], at) /\ Leaving(slot'[k], at) \subseteq Item
        /\ Way(b)' = Way(b) \ (Handling(slot[k]) \ Handling(slot'[k]))
    BY <1>1, AdvancesOnTheWay DEF Between
  <2> QED BY <1>2, <2>1
<1>5. ASSUME AgreeingOn(b) PROVE AgreeingOn(b)'
  <2>1. PICK o, x : o = home[You(k)] /\ x = Me(k)
    OBVIOUS
  <2>2. PICK fx, px, fy, py, c, q, r :
          /\ fx = Following(o, b) /\ px = Row(pending[o][b])
          /\ fy = Row(follows[s][b]) \cup Promoting(slot[k], "authorize") /\ py = Row(pending[s][b])
          /\ c = Claims(b) /\ q = Way(b) /\ r = Way(p)
    OBVIOUS
  <2>3. Agreeing(x \in Locked, fx, px, fy, py, c, q, r)
    BY <1>5, <2>1, <2>2, AsFollowee DEF Between
  <2>4. q \in SUBSET Item /\ r \in SUBSET Item
    BY <2>2, IdsOfAWay
  <2>5. py = {m.id} /\ fy = {}
    BY <1>2, <2>2 DEF Row
  <2>6. Agreeing(x \in Locked, fx, px, {m.id}, {}, c, q, r \cup {m})
    BY <1>2, <1>4, <2>3, <2>4, <2>5, AuthorizeKeepsAgreement
  <2>7. /\ Row(follows'[s][b]) \cup Promoting(slot'[k], "authorize") = {m.id} /\ Row(pending'[s][b]) = {}
        /\ Way(b)' = q /\ Way(p)' = r \cup {m}
    BY <1>2, <1>4, <2>2 DEF Row
  <2> QED BY <2>1, <2>2, <2>6, <2>7, FolloweeAgrees
<1> QED BY <1>3, <1>5, RelationsFollow DEF Between

(* reject takes it and will say so.                                        *)
LEMMA RejectKeepsRelations ==
  ASSUME NEW k \in Slots, NEW p, NEW b, NEW s, Between(k, p, b, s), SamePlace(s, p),
         slot[k].step = "take", slot[k].op = "reject",
         NEW row, row = pending[s][b], row # None, slot'[k] = Onward(k, "send", row),
         follows'[s][b] = follows[s][b], pending'[s][b] = None,
         RelationHolds(p), RelationHolds(b)
  PROVE  RelationHolds(p)' /\ RelationHolds(b)'
<1>1. PICK at, m : at = Len(net[p]) + 1 /\ m = Piece(at, "Reject", row)
  OBVIOUS
<1>2. /\ Handling(slot[k]) = {} /\ Handling(slot'[k]) = {} /\ Claim(slot[k]) = {} /\ Claim(slot'[k]) = {}
      /\ \A op : Promoting(slot[k], op) = {} /\ Promoting(slot'[k], op) = {}
      /\ \A n : Leaving(slot[k], n) = {} /\ Leaving(slot'[k], n) = {Piece(n, "Reject", row)}
      /\ m.type = "Reject" /\ m.id = row /\ Leaving(slot'[k], at) = {m}
  BY <1>1 DEF Claim, Handling, Promoting, Leaving, Onward, Handlers, Sends, Piece
<1>3. RelationHolds(p)'
  <2>1. \A n : \A h \in Leaving(slot'[k], n) \ Leaving(slot[k], n) : h.type \notin Ends \cup {"Follow"}
    BY <1>2 DEF Piece, Ends
  <2> QED BY <1>2, <2>1, FollowerIsUnmoved DEF Between, SamePlace
<1>4. Way(p)' = Way(p) \cup {m} /\ Way(b)' = Way(b) /\ m \in Item
  <2>1. /\ Way(p)' = Way(p) \cup Leaving(slot'[k], at) /\ Leaving(slot'[k], at) \subseteq Item
        /\ Way(b)' = Way(b) \ (Handling(slot[k]) \ Handling(slot'[k]))
    BY <1>1, AdvancesOnTheWay DEF Between
  <2> QED BY <1>2, <2>1
<1>5. ASSUME AgreeingOn(b) PROVE AgreeingOn(b)'
  <2>1. PICK o, x : o = home[You(k)] /\ x = Me(k)
    OBVIOUS
  <2>2. PICK fx, px, fy, py, c, q, r :
          /\ fx = Following(o, b) /\ px = Row(pending[o][b])
          /\ fy = Row(follows[s][b]) \cup Promoting(slot[k], "authorize") /\ py = Row(pending[s][b])
          /\ c = Claims(b) /\ q = Way(b) /\ r = Way(p)
    OBVIOUS
  <2>3. Agreeing(x \in Locked, fx, px, fy, py, c, q, r)
    BY <1>5, <2>1, <2>2, AsFollowee DEF Between
  <2>4. q \in SUBSET Item /\ r \in SUBSET Item
    BY <2>2, IdsOfAWay
  <2>5. py = {m.id}
    BY <1>2, <2>2 DEF Row
  <2>6. Agreeing(x \in Locked, fx, px, fy, {}, c, q, r \cup {m})
    BY <1>2, <1>4, <2>3, <2>4, <2>5, RejectKeepsAgreement
  <2>7. /\ Row(follows'[s][b]) \cup Promoting(slot'[k], "authorize") = fy /\ Row(pending'[s][b]) = {}
        /\ Way(b)' = q /\ Way(p)' = r \cup {m}
    BY <1>2, <1>4, <2>2 DEF Row
  <2> QED BY <2>1, <2>2, <2>6, <2>7, FolloweeAgrees
<1> QED BY <1>3, <1>5, RelationsFollow DEF Between

(* The handlers of Accept and Reject take the request, if it is still      *)
(* there; one that answers another Follow is in doubt.                     *)
LEMMA AnsweredKeepsRelations ==
  ASSUME NEW k \in Slots, NEW p, NEW b, NEW s, Between(k, p, b, s), SamePlace(s, b),
         slot[k].step = "take", slot[k].op \in {"Accept", "Reject"},
         NEW row, row = pending[s][p],
         row \notin {None, slot[k].id} => Both(k) \in doubt',
         row # None => follows[s][p] = None,
         slot'[k] = IF row # None /\ slot[k].op = "Accept" THEN Onward(k, "promote", row) ELSE FreeSlot,
         follows'[s][p] = follows[s][p], pending'[s][p] = None,
         RelationHolds(p), RelationHolds(b)
  PROVE  RelationHolds(p)' /\ RelationHolds(b)'
<1>1. PICK m : m = Piece(0, slot[k].op, slot[k].id)
  OBVIOUS
<1>2. /\ Handling(slot[k]) = {m} /\ Claim(slot[k]) = {} /\ \A op : Promoting(slot[k], op) = {}
      /\ m.type = slot[k].op /\ m.id = slot[k].id
  BY <1>1 DEF Claim, Handling, Promoting, Handlers, Piece, Steps
<1>3. /\ Handling(slot'[k]) = {} /\ Claim(slot'[k]) = {}
      /\ Promoting(slot'[k], "authorize") = {}
      /\ Promoting(slot'[k], "Accept") = {n \in {row} : row # None /\ slot[k].op = "Accept"}
      /\ \A n : Leaving(slot'[k], n) = {}
  <2>1. CASE row # None /\ slot[k].op = "Accept"
    BY <2>1 DEF Handling, Claim, Promoting, Leaving, Onward
  <2>2. CASE ~(row # None /\ slot[k].op = "Accept")
    BY <2>2, IdleSlotsSayNothing
  <2> QED BY <2>1, <2>2
<1>4. RelationHolds(b)'
  BY <1>2, <1>3, FolloweeIsUnmoved DEF Between, SamePlace, Ends
<1>5. Way(p)' = Way(p) /\ Way(b)' = Way(b) \ {m} /\ m \in Way(b)
  <2>1. /\ Way(p)' = Way(p) \cup Leaving(slot'[k], Len(net[p]) + 1)
        /\ Way(b)' = Way(b) \ (Handling(slot[k]) \ Handling(slot'[k]))
        /\ \A h \in Handling(slot[k]) : Alone(Way(b), h)
    BY AdvancesOnTheWay DEF Between
  <2> QED BY <1>2, <1>3, <2>1 DEF Alone
<1>6. ASSUME Untouched(p)', AgreeingOn(p) PROVE AgreeingOn(p)'
  <2>1. PICK o, y : o = home[You(k)] /\ y = You(k)
    OBVIOUS
  <2>2. PICK fx, px, fy, py, c, q, r :
          /\ fx = Row(follows[s][p]) \cup Promoting(slot[k], "Accept")
          /\ px = Row(pending[s][p]) /\ fy = Following(o, p) /\ py = Row(pending[o][p])
          /\ c = Claim(slot[k]) /\ q = Way(p) /\ r = Way(b)
    OBVIOUS
  <2>3. Agreeing(y \in Locked, fx, px, fy, py, c, q, r)
    BY <1>6, <2>1, <2>2, AsFollower DEF Between
  <2>4. q \in SUBSET Item /\ r \in SUBSET Item
    BY <2>2, IdsOfAWay
  <2>5. row \in {None, slot[k].id}
    <3>1. {p[1], p[2]} = Both(k)
      BY DEF Between, Mine, Both
    <3> QED BY <1>6, <3>1 DEF Untouched
  <2>6. PICK fx2 : fx2 = Row(follows'[s][p]) \cup Promoting(slot'[k], "Accept")
    OBVIOUS
  <2>7. \/ px = {}
        \/ px = {m.id} /\ fx = {}
    BY <1>2, <2>2, <2>5 DEF Row
  <2>8. /\ slot[k].op = "Accept" => \/ px = {} /\ fx2 = fx
                                    \/ px = {m.id} /\ fx = {} /\ fx2 = {m.id}
        /\ slot[k].op = "Reject" => fx2 = fx
    BY <1>2, <1>3, <2>2, <2>5, <2>6 DEF Row
  <2>9. Agreeing(y \in Locked, fx2, {}, fy, py, c, q, r \ {m})
    <3>1. CASE slot[k].op = "Accept"
      BY <1>2, <1>5, <2>2, <2>3, <2>4, <2>8, <3>1, AcceptedKeepsAgreement
    <3>2. CASE slot[k].op = "Reject"
      <4>1. m \in r /\ m.type = "Reject" /\ fx2 = fx
        BY <1>2, <1>5, <2>2, <2>8, <3>2
      <4>2. Agreeing(y \in Locked, fx, {}, fy, py, c, q, r \ {m})
        BY <2>3, <2>4, <2>7, <4>1, RejectedKeepsAgreement
      <4> QED BY <4>1, <4>2
    <3> QED BY <3>1, <3>2
  <2>A. /\ Row(pending'[s][p]) = {} /\ Claim(slot'[k]) = c /\ Way(p)' = q /\ Way(b)' = r \ {m}
    BY <1>2, <1>3, <1>5, <2>2 DEF Row
  <2> QED BY <2>1, <2>2, <2>6, <2>9, <2>A, FollowerAgrees
<1> QED BY <1>4, <1>6, RelationsFollow DEF Between

(* The handler of Follow reads, and goes on.                               *)
LEMMA ReadingKeepsRelations ==
  ASSUME NEW k \in Slots, NEW p, NEW b, NEW s, Between(k, p, b, s), SamePlace(s, p), SamePlace(s, b),
         slot[k].step \in {"look", "read"}, slot[k].op = "Follow",
         \E step \in {"read", "establish", "request"} : slot'[k] = Onward(k, step, slot[k].id),
         RelationHolds(p), RelationHolds(b)
  PROVE  RelationHolds(p)' /\ RelationHolds(b)'
<1>1. /\ Handling(slot'[k]) = Handling(slot[k]) /\ Claim(slot[k]) = {} /\ Claim(slot'[k]) = {}
      /\ \A op : Promoting(slot[k], op) = {} /\ Promoting(slot'[k], op) = {}
      /\ \A n : Leaving(slot'[k], n) = {}
  BY DEF Claim, Handling, Promoting, Leaving, Onward, Steps
<1>2. RelationHolds(p)'
  BY <1>1, FollowerIsUnmoved DEF Between, SamePlace
<1>3. RelationHolds(b)'
  BY <1>1, FolloweeIsUnmoved DEF Between, SamePlace
<1> QED BY <1>2, <1>3

(* It ends when it finds a row; a Follow on its way never does.            *)
LEMMA NoFollowFindsARow ==
  ASSUME NEW k \in Slots, NEW p, NEW b, NEW s, Between(k, p, b, s), SamePlace(s, p),
         slot[k].step \in {"look", "read"}, slot[k].op = "Follow", Related(s, b), slot'[k] = FreeSlot,
         RelationHolds(p), RelationHolds(b)
  PROVE  RelationHolds(p)' /\ RelationHolds(b)'
<1>1. PICK m : m = Piece(0, "Follow", slot[k].id)
  OBVIOUS
<1>2. /\ Handling(slot[k]) = {m} /\ Claim(slot[k]) = {} /\ \A op : Promoting(slot[k], op) = {}
      /\ m.type = "Follow" /\ m.at = 0
  BY <1>1 DEF Claim, Handling, Promoting, Handlers, Piece, Steps
<1>3. /\ Handling(slot'[k]) = {} /\ Claim(slot'[k]) = {}
      /\ \A op : Promoting(slot'[k], op) = {}
      /\ \A n : Leaving(slot'[k], n) = {}
  BY IdleSlotsSayNothing
<1>4. RelationHolds(p)'
  BY <1>2, <1>3, FollowerIsUnmoved DEF Between, SamePlace
<1>5. ~AgreeingOn(b)
  <2> SUFFICES ASSUME AgreeingOn(b) PROVE FALSE
    OBVIOUS
  <2>1. PICK o, x : o = home[You(k)] /\ x = Me(k)
    OBVIOUS
  <2>2. PICK fx, px, fy, py, c, q, r :
          /\ fx = Following(o, b) /\ px = Row(pending[o][b])
          /\ fy = Row(follows[s][b]) \cup Promoting(slot[k], "authorize") /\ py = Row(pending[s][b])
          /\ c = Claims(b) /\ q = Way(b) /\ r = Way(p)
    OBVIOUS
  <2>3. AsksAreFresh(fy, py, q)
    BY <2>1, <2>2, AsFollowee DEF Between, Agreeing
  <2>4. m \in q
    BY <1>2, <2>2, AdvancesOnTheWay DEF Between, Alone
  <2>5. \A h \in q : h.at \in Nat
    BY <2>2, IdsOfAWay DEF Item
  <2>6. ~Before(q, m, Ends)
    BY <1>2, <2>5 DEF Before
  <2>7. Neither(fy, py)
    BY <1>2, <2>3, <2>4, <2>6 DEF AsksAreFresh
  <2> QED BY <2>2, <2>7 DEF Neither, Related, NoRow, Row
<1> QED BY <1>4, <1>5, RelationsFollow DEF Between

(* It writes the row, and answers unless it is asked to wait.              *)
LEMMA AskedKeepsRelations ==
  ASSUME NEW k \in Slots, NEW p, NEW b, NEW s, Between(k, p, b, s), SamePlace(s, p),
         slot[k].step \in {"establish", "request"}, slot[k].op = "Follow",
         slot[k].step = "request" <=> Me(k) \in Locked,
         slot[k].step = "request" =>
           slot'[k] = FreeSlot /\ follows'[s][b] = None /\ pending'[s][b] = slot[k].id,
         slot[k].step = "establish" =>
           slot'[k] = Onward(k, "send", slot[k].id) /\ follows'[s][b] = slot[k].id /\ pending'[s][b] = None,
         RelationHolds(p), RelationHolds(b)
  PROVE  RelationHolds(p)' /\ RelationHolds(b)'
<1>1. PICK at, m, a : /\ at = Len(net[p]) + 1
                      /\ m = Piece(0, "Follow", slot[k].id) /\ a = Piece(at, "Accept", slot[k].id)
  OBVIOUS
<1>2. /\ Handling(slot[k]) = {m} /\ Claim(slot[k]) = {} /\ \A op : Promoting(slot[k], op) = {}
      /\ m.type = "Follow" /\ m.id = slot[k].id /\ a.type = "Accept" /\ a.id = slot[k].id
  BY <1>1 DEF Claim, Handling, Promoting, Handlers, Piece, Steps
<1>3. /\ Handling(slot'[k]) = {} /\ Claim(slot'[k]) = {} /\ \A op : Promoting(slot'[k], op) = {}
      /\ slot[k].step = "request" => \A n : Leaving(slot'[k], n) = {}
      /\ slot[k].step = "establish" => \A n : Leaving(slot'[k], n) = {Piece(n, "Accept", slot[k].id)}
  <2>1. CASE slot[k].step = "request"
    BY <2>1, IdleSlotsSayNothing
  <2>2. CASE slot[k].step = "establish"
    BY <2>2 DEF Handling, Claim, Promoting, Leaving, Onward, Sends
  <2> QED BY <2>1, <2>2
<1>4. RelationHolds(p)'
  <2>1. \A n : \A h \in Leaving(slot'[k], n) \ Leaving(slot[k], n) : h.type \notin Ends \cup {"Follow"}
    BY <1>3 DEF Piece, Ends
  <2> QED BY <1>2, <1>3, <2>1, FollowerIsUnmoved DEF Between, SamePlace
<1>5. /\ Way(b)' = Way(b) \ {m} /\ m \in Item /\ Alone(Way(b), m) /\ m.at = 0
      /\ slot[k].step = "request" => Way(p)' = Way(p)
      /\ slot[k].step = "establish" => Way(p)' = Way(p) \cup {a} /\ a \in Item
  <2>1. /\ Way(p)' = Way(p) \cup Leaving(slot'[k], at) /\ Leaving(slot'[k], at) \subseteq Item
        /\ Way(b)' = Way(b) \ (Handling(slot[k]) \ Handling(slot'[k]))
        /\ \A h \in Handling(slot[k]) : Alone(Way(b), h) /\ h.at = 0 /\ h \in Item
    BY <1>1, AdvancesOnTheWay DEF Between
  <2> QED BY <1>1, <1>2, <1>3, <2>1
<1>6. ASSUME AgreeingOn(b) PROVE AgreeingOn(b)'
  <2>1. PICK o, x : o = home[You(k)] /\ x = Me(k)
    OBVIOUS
  <2>2. PICK fx, px, fy, py, c, q, r :
          /\ fx = Following(o, b) /\ px = Row(pending[o][b])
          /\ fy = Row(follows[s][b]) \cup Promoting(slot[k], "authorize") /\ py = Row(pending[s][b])
          /\ c = Claims(b) /\ q = Way(b) /\ r = Way(p)
    OBVIOUS
  <2>3. Agreeing(x \in Locked, fx, px, fy, py, c, q, r)
    BY <1>6, <2>1, <2>2, AsFollowee DEF Between
  <2>4. q \in SUBSET Item /\ r \in SUBSET Item
    BY <2>2, IdsOfAWay
  <2>5. slot[k].id # None
    BY <1>2, <1>5, <2>2, <2>3 DEF Agreeing, AsksAreFresh, Alone
  <2>6. PICK fy2, py2, r2 :
          /\ fy2 = Row(follows'[s][b]) \cup Promoting(slot'[k], "authorize")
          /\ py2 = Row(pending'[s][b]) /\ r2 = Way(p)'
    OBVIOUS
  <2>7. x \in Locked => py2 = {m.id} /\ fy2 = {} /\ r2 = r
    BY <1>2, <1>3, <1>5, <2>1, <2>2, <2>5, <2>6 DEF Row
  <2>8. ~(x \in Locked) => fy2 = {m.id} /\ py2 = {} /\ a \in Item /\ r2 = r \cup {a}
    BY <1>2, <1>3, <1>5, <2>1, <2>2, <2>5, <2>6 DEF Row
  <2>9. r2 \in SUBSET Item
    BY <2>6, IdsOfAWay, <2>4, <2>7, <2>8
  <2>A. Agreeing(x \in Locked, fx, px, fy2, py2, c, q \ {m}, r2)
    BY <1>2, <1>5, <2>2, <2>3, <2>4, <2>7, <2>8, <2>9, AskedKeepsAgreement
  <2>B. Way(b)' = q \ {m}
    BY <1>5, <2>2
  <2> QED BY <2>1, <2>2, <2>6, <2>A, <2>B, FolloweeAgrees
<1> QED BY <1>4, <1>6, RelationsFollow DEF Between

(* The handler of Undo deletes the follow.                                 *)
LEMMA EndedKeepsRelations ==
  ASSUME NEW k \in Slots, NEW p, NEW b, NEW s, Between(k, p, b, s), SamePlace(s, p),
         slot[k].step = "remove", slot[k].op = "UndoFollow", slot'[k] = FreeSlot,
         follows'[s][b] = None, pending'[s][b] # None => b \in withdrawn',
         RelationHolds(p), RelationHolds(b)
  PROVE  RelationHolds(p)' /\ RelationHolds(b)'
<1>1. PICK m : m = Piece(0, "UndoFollow", slot[k].id)
  OBVIOUS
<1>2. /\ Handling(slot[k]) = {m} /\ Claim(slot[k]) = {} /\ \A op : Promoting(slot[k], op) = {}
      /\ m.type = "UndoFollow" /\ m.type \in Ends
  BY <1>1 DEF Claim, Handling, Promoting, Handlers, Piece, Steps, Ends
<1>3. /\ Handling(slot'[k]) = {} /\ Claim(slot'[k]) = {}
      /\ \A op : Promoting(slot'[k], op) = {}
      /\ \A n : Leaving(slot'[k], n) = {}
  BY IdleSlotsSayNothing
<1>4. RelationHolds(p)'
  BY <1>2, <1>3, FollowerIsUnmoved DEF Between, SamePlace
<1>5. Way(p)' = Way(p) /\ Way(b)' = Way(b) \ {m} /\ m \in Item /\ Alone(Way(b), m) /\ m.at = 0
  <2>1. /\ Way(p)' = Way(p) \cup Leaving(slot'[k], Len(net[p]) + 1)
        /\ Way(b)' = Way(b) \ (Handling(slot[k]) \ Handling(slot'[k]))
        /\ \A h \in Handling(slot[k]) : Alone(Way(b), h) /\ h.at = 0 /\ h \in Item
    BY AdvancesOnTheWay DEF Between
  <2> QED BY <1>2, <1>3, <2>1
<1>6. ASSUME b \notin withdrawn', AgreeingOn(b) PROVE AgreeingOn(b)'
  <2>1. PICK o, x : o = home[You(k)] /\ x = Me(k)
    OBVIOUS
  <2>2. PICK fx, px, fy, py, c, q, r :
          /\ fx = Following(o, b) /\ px = Row(pending[o][b])
          /\ fy = Row(follows[s][b]) \cup Promoting(slot[k], "authorize") /\ py = Row(pending[s][b])
          /\ c = Claims(b) /\ q = Way(b) /\ r = Way(p)
    OBVIOUS
  <2>3. Agreeing(x \in Locked, fx, px, fy, py, c, q, r)
    BY <1>6, <2>1, <2>2, AsFollowee DEF Between
  <2>4. q \in SUBSET Item /\ r \in SUBSET Item
    BY <2>2, IdsOfAWay
  <2>5. Agreeing(x \in Locked, fx, px, {}, {}, c, q \ {m}, r)
    BY <1>2, <1>5, <2>2, <2>3, <2>4, EndedKeepsAgreement
  <2>6. /\ Row(follows'[s][b]) \cup Promoting(slot'[k], "authorize") = {} /\ Row(pending'[s][b]) = {}
        /\ Way(b)' = q \ {m} /\ Way(p)' = r
    BY <1>3, <1>5, <1>6, <2>2 DEF Row
  <2> QED BY <2>1, <2>2, <2>5, <2>6, FolloweeAgrees
<1> QED BY <1>4, <1>6, RelationsFollow DEF Between

-----------------------------------------------------------------------------
(* Blocks, said in the same way: the last word on its way is what the      *)
(* blocker's server holds, and with nothing on its way the rows agree.     *)

Blocking == {"Block", "UndoBlock"}

BlocksAgree(hx, hy, q) ==
  /\ \A m \in q : m.type = "Block" /\ ~After(q, m, {"UndoBlock"}) => hx
  /\ \A m \in q : m.type = "UndoBlock" /\ ~After(q, m, {"Block"}) => ~hx
  /\ ~Carries(q, Blocking) => (hx <=> hy)

LEMMA SayingKeepsBlocks ==
  ASSUME NEW hx, NEW hy, NEW q \in SUBSET Item, BlocksAgree(hx, hy, q),
         NEW m \in Item, m.type \in Blocking, AtEnd(q, m), NEW hx2, hx2 <=> m.type = "Block"
  PROVE  BlocksAgree(hx2, hy, q \cup {m})
<1>1. \A h \in q : h.at < m.at
  BY DEF AtEnd
<1>2. \A h \in q : h.type = "Block" /\ ~After(q \cup {m}, h, {"UndoBlock"}) => hx2
  BY <1>1 DEF After, Blocking
<1>3. \A h \in q : h.type = "UndoBlock" /\ ~After(q \cup {m}, h, {"Block"}) => ~hx2
  BY <1>1 DEF After, Blocking
<1>4. Carries(q \cup {m}, Blocking)
  BY DEF Carries
<1> QED BY <1>2, <1>3, <1>4 DEF BlocksAgree

LEMMA HearingKeepsBlocks ==
  ASSUME NEW hx, NEW hy, NEW q \in SUBSET Item, BlocksAgree(hx, hy, q),
         NEW m \in Item, Alone(q, m), m.at = 0, m.type \in Blocking, NEW hy2, hy2 <=> m.type = "Block"
  PROVE  BlocksAgree(hx, hy2, q \ {m})
<1>1. \A h \in q \ {m} : h.at \in Nat /\ 0 < h.at
  BY DEF Alone, Item
<1>2. \A h \in q \ {m} : \A types : ~After(q \ {m}, h, types) => ~After(q, h, types)
  BY <1>1 DEF After
<1>3. ASSUME ~Carries(q \ {m}, Blocking) PROVE hx <=> hy2
  <2>1. ~After(q, m, {"UndoBlock"}) /\ ~After(q, m, {"Block"}) /\ m \in q
    BY <1>3 DEF After, Carries, Alone, Blocking
  <2> QED BY <2>1 DEF BlocksAgree, Blocking
<1> QED BY <1>2, <1>3 DEF BlocksAgree

LEMMA SilenceKeepsBlocks ==
  ASSUME NEW hx, NEW hy, NEW q \in SUBSET Item, BlocksAgree(hx, hy, q),
         NEW q2 \in SUBSET Item, \A m \in Item : m.type \in Blocking => (m \in q2 <=> m \in q)
  PROVE  BlocksAgree(hx, hy, q2)
<1>1. \A h \in q2 : \A types \in {{"Block"}, {"UndoBlock"}} : ~After(q2, h, types) => ~After(q, h, types)
  BY DEF After, Blocking
<1>2. Carries(q, Blocking) => Carries(q2, Blocking)
  BY DEF Carries
<1> QED BY <1>1, <1>2 DEF BlocksAgree, Blocking

LEMMA MovingUpKeepsBlocks ==
  ASSUME NEW hx, NEW hy, NEW q \in SUBSET Item, BlocksAgree(hx, hy, q),
         NEW q2 \in SUBSET Item, MovesUp(q, q2)
  PROVE  BlocksAgree(hx, hy, q2)
<1>1. \A m \in q2 : Later(m) \in q /\ Later(m).type = m.type /\ Later(m).at = m.at + 1
  BY DEF MovesUp, Later
<1>2. \A m \in q : \E h \in q2 : m.type = h.type /\ m.at = h.at + 1
  BY DEF MovesUp, Later
<1>3. \A m \in q2 : \A types : ~After(q2, m, types) => ~After(q, Later(m), types)
  <2> SUFFICES ASSUME NEW m \in q2, NEW types, After(q, Later(m), types) PROVE After(q2, m, types)
    OBVIOUS
  <2>1. PICK h \in q : Later(m).at < h.at /\ h.type \in types
    BY DEF After
  <2>2. PICK g \in q2 : h.type = g.type /\ h.at = g.at + 1
    BY <1>2
  <2>3. m.at \in Nat /\ g.at \in Nat
    BY DEF Item
  <2>4. m.at < g.at
    BY <1>1, <2>1, <2>2, <2>3
  <2> QED BY <2>1, <2>2, <2>4 DEF After
<1>4. Carries(q, Blocking) => Carries(q2, Blocking)
  BY <1>2 DEF Carries
<1> QED BY <1>1, <1>3, <1>4 DEF BlocksAgree

BlocksHold(p) ==
  Untouched(p) => BlocksAgree(HasBlock(home[p[1]], p), HasBlock(home[p[2]], p), Way(p))

-----------------------------------------------------------------------------
(* Steps that do not concern the two accounts of a relation.               *)

Mute(t) ==
  /\ Handling(t) = {} /\ Claim(t) = {}
  /\ \A op : Promoting(t, op) = {}
  /\ \A at : Leaving(t, at) = {}

Aside(t, q) == {t.me, t.you} # {q[1], q[2]} \/ Mute(t)

(* Nor does the task show in what either server makes of the relation.     *)
Unseen(t, q) == {t.me, t.you} # {q[1], q[2]} \/ (Claim(t) = {} /\ \A op : Promoting(t, op) = {})

SameViews(q) ==
  /\ home' = home
  /\ \A j \in Slots : slot'[j] = slot[j] \/ (Unseen(slot[j], q) /\ Unseen(slot'[j], q))
  /\ \A s \in Servers : RowsKept(s, q)

IsAside(q) ==
  /\ home' = home /\ HistoryGrows
  /\ net'[q] = net[q] /\ net'[Back(q)] = net[Back(q)]
  /\ \A j \in Slots : slot'[j] = slot[j] \/ (Aside(slot[j], q) /\ Aside(slot'[j], q))
  /\ \A s \in Servers : RowsKept(s, q)

LEMMA AsideSaysNothing ==
  ASSUME NEW t, NEW q \in Pairs, Aside(t, q), NEW r \in {q, Back(q)}, <<t.me, t.you>> = r \/ <<t.you, t.me>> = r
  PROVE  Mute(t)
<1>1. {r[1], r[2]} = {q[1], q[2]}
  BY DEF Back
<1>2. {t.me, t.you} = {r[1], r[2]}
  OBVIOUS
<1> QED BY <1>1, <1>2 DEF Aside

LEMMA UnseenShowsNothing ==
  ASSUME NEW t, NEW q \in Pairs, Unseen(t, q), <<t.me, t.you>> = q \/ <<t.you, t.me>> = q
  PROVE  Claim(t) = {} /\ \A op : Promoting(t, op) = {}
<1>1. {t.me, t.you} = {q[1], q[2]}
  OBVIOUS
<1> QED BY <1>1 DEF Unseen

LEMMA WaysStayAside ==
  ASSUME NEW q \in Pairs, IsAside(q), NEW r \in {q, Back(q)}
  PROVE  Way(r)' = Way(r)
<1>1. net'[r] = net[r]
  BY DEF IsAside
<1>2. \A j \in Slots : \A m, at :
        /\ (Theirs(j)' = r /\ m \in Handling(slot'[j])) <=> (Theirs(j) = r /\ m \in Handling(slot[j]))
        /\ (Mine(j)' = r /\ m \in Leaving(slot'[j], at)) <=> (Mine(j) = r /\ m \in Leaving(slot[j], at))
  <2> TAKE j \in Slots
  <2>1. CASE slot'[j] = slot[j]
    BY <2>1 DEF Theirs, Mine, Me, You
  <2>2. CASE Aside(slot[j], q) /\ Aside(slot'[j], q)
    <3>1. Theirs(j) = r \/ Mine(j) = r => Mute(slot[j])
      BY <2>2, AsideSaysNothing DEF Theirs, Mine, Me, You
    <3>2. Theirs(j)' = r \/ Mine(j)' = r => Mute(slot'[j])
      BY <2>2, AsideSaysNothing DEF Theirs, Mine, Me, You
    <3> QED BY <3>1, <3>2 DEF Mute
  <2> QED BY <2>1, <2>2 DEF IsAside
<1>3. \A m : m \in Way(r)' <=>
        /\ m \in Item
        /\ \/ m \in Queued(net[r])
           \/ \E j \in Slots : Theirs(j)' = r /\ m \in Handling(slot'[j])
           \/ \E j \in Slots : Mine(j)' = r /\ m \in Leaving(slot'[j], Len(net[r]) + 1)
  BY <1>1 DEF Way
<1>4. \A m : m \in Way(r)' <=> m \in Way(r)
  BY <1>2, <1>3 DEF Way
<1> QED BY <1>4 DEF Way

LEMMA ViewsAreTheSame ==
  ASSUME NEW q \in Pairs, SameViews(q)
  PROVE  Claims(q)' = Claims(q) /\ \A s \in Servers : Following(s, q)' = Following(s, q)
<1>1. \A j \in Slots : \A n, s :
        /\ (Mine(j)' = q /\ n \in Claim(slot'[j])) <=> (Mine(j) = q /\ n \in Claim(slot[j]))
        /\ (Server(j)' = s /\ Mine(j)' = q /\ n \in Promoting(slot'[j], "Accept"))
             <=> (Server(j) = s /\ Mine(j) = q /\ n \in Promoting(slot[j], "Accept"))
        /\ (Server(j)' = s /\ Theirs(j)' = q /\ n \in Promoting(slot'[j], "authorize"))
             <=> (Server(j) = s /\ Theirs(j) = q /\ n \in Promoting(slot[j], "authorize"))
  <2> TAKE j \in Slots
  <2>1. CASE slot'[j] = slot[j]
    <3>1. Mine(j)' = Mine(j) /\ Theirs(j)' = Theirs(j) /\ Server(j)' = Server(j)
      BY <2>1 DEF Theirs, Mine, Me, You, Server, SameViews
    <3> QED BY <2>1, <3>1
  <2>2. CASE Unseen(slot[j], q) /\ Unseen(slot'[j], q)
    <3>1. Theirs(j) = q \/ Mine(j) = q => Claim(slot[j]) = {} /\ \A op : Promoting(slot[j], op) = {}
      BY <2>2, UnseenShowsNothing DEF Theirs, Mine, Me, You
    <3>2. Theirs(j)' = q \/ Mine(j)' = q => Claim(slot'[j]) = {} /\ \A op : Promoting(slot'[j], op) = {}
      BY <2>2, UnseenShowsNothing DEF Theirs, Mine, Me, You
    <3> QED BY <3>1, <3>2
  <2> QED BY <2>1, <2>2 DEF SameViews
<1>2. Claims(q)' = Claims(q)
  <2>1. \A n : n \in Claims(q)' <=> n \in Nat /\ \E j \in Slots : Mine(j)' = q /\ n \in Claim(slot'[j])
    BY DEF Claims
  <2>2. \A n : n \in Claims(q)' <=> n \in Claims(q)
    BY <1>1, <2>1 DEF Claims
  <2> QED BY <2>2 DEF Claims
<1>3. ASSUME NEW s \in Servers PROVE Following(s, q)' = Following(s, q)
  <2>1. follows'[s][q] = follows[s][q]
    BY DEF SameViews, RowsKept
  <2>2. \A n : n \in Following(s, q)' <=>
          /\ n \in Nat
          /\ \/ n \in Row(follows'[s][q])
             \/ \E j \in Slots : Server(j)' = s /\ Mine(j)' = q /\ n \in Promoting(slot'[j], "Accept")
             \/ \E j \in Slots : Server(j)' = s /\ Theirs(j)' = q /\ n \in Promoting(slot'[j], "authorize")
    BY DEF Following
  <2>3. \A n : n \in Following(s, q)' <=> n \in Following(s, q)
    BY <1>1, <2>1, <2>2 DEF Following
  <2> QED BY <2>3 DEF Following
<1> QED BY <1>2, <1>3

(* Then only the ways can make a difference.                               *)
LEMMA WaysDecide ==
  ASSUME Typed, NEW q \in Pairs, SameViews(q)
  PROVE  /\ \E fx, px, fy, py, c :
              /\ RowsAreIds(fx, px, fy, py, c)
              /\ AgreeingOn(q) <=> Agreeing(q[2] \in Locked, fx, px, fy, py, c, Way(q), Way(Back(q)))
              /\ AgreeingOn(q)' <=> Agreeing(q[2] \in Locked, fx, px, fy, py, c, Way(q)', Way(Back(q))')
         /\ \E hx, hy :
              /\ BlocksHold(q) <=> (Untouched(q) => BlocksAgree(hx, hy, Way(q)))
              /\ BlocksHold(q)' <=> (Untouched(q)' => BlocksAgree(hx, hy, Way(q)'))
<1>1. PICK s \in Servers, o \in Servers : s = home[q[1]] /\ o = home[q[2]]
  <2>1. q[1] \in Accounts /\ q[2] \in Accounts
    BY DEF Pairs
  <2> QED BY <2>1 DEF Typed
<1>2. Claims(q)' = Claims(q) /\ Following(s, q)' = Following(s, q) /\ Following(o, q)' = Following(o, q)
  BY ViewsAreTheSame
<1>3. home[q[1]]' = s /\ home[q[2]]' = o
  BY <1>1 DEF SameViews
<1>4. Following(home[q[1]], q)' = Following(s, q)' /\ Following(home[q[2]], q)' = Following(o, q)'
  BY <1>3 DEF Following
<1>5. RowsKept(s, q) /\ RowsKept(o, q)
  BY DEF SameViews
<1>6. PICK fx, px, fy, py, c :
        /\ fx = Following(s, q) /\ px = Row(pending[s][q]) /\ fy = Following(o, q)
        /\ py = Row(pending[o][q]) /\ c = Claims(q)
  OBVIOUS
<1>7. RowsAreIds(fx, px, fy, py, c)
  <2>1. pending[s][q] \in Nat /\ pending[o][q] \in Nat
    BY DEF Typed, Tables
  <2> QED BY <1>6, <2>1 DEF RowsAreIds, Following, Claims, Row
<1>8. AgreeingOn(q) <=> Agreeing(q[2] \in Locked, fx, px, fy, py, c, Way(q), Way(Back(q)))
  BY <1>1, <1>6 DEF AgreeingOn
<1>9. AgreeingOn(q)' <=> Agreeing(q[2] \in Locked, fx, px, fy, py, c, Way(q)', Way(Back(q))')
  BY <1>2, <1>3, <1>4, <1>5, <1>6 DEF AgreeingOn, RowsKept
<1>A. PICK hx, hy : hx = HasBlock(home[q[1]], q) /\ hy = HasBlock(home[q[2]], q)
  OBVIOUS
<1>B. /\ HasBlock(home[q[1]], q)' <=> hx
      /\ HasBlock(home[q[2]], q)' <=> hy
  BY <1>1, <1>3, <1>5, <1>A DEF HasBlock, RowsKept
<1>C. BlocksHold(q) <=> (Untouched(q) => BlocksAgree(hx, hy, Way(q)))
  BY <1>A DEF BlocksHold
<1>D. BlocksHold(q)' <=> (Untouched(q)' => BlocksAgree(hx, hy, Way(q)'))
  BY <1>B DEF BlocksHold, BlocksAgree
<1>E. \E fx2, px2, fy2, py2, c2 :
        /\ RowsAreIds(fx2, px2, fy2, py2, c2)
        /\ AgreeingOn(q) <=> Agreeing(q[2] \in Locked, fx2, px2, fy2, py2, c2, Way(q), Way(Back(q)))
        /\ AgreeingOn(q)' <=> Agreeing(q[2] \in Locked, fx2, px2, fy2, py2, c2, Way(q)', Way(Back(q))')
  BY <1>7, <1>8, <1>9
<1> QED BY <1>C, <1>D, <1>E

LEMMA SameWaysStayInRelation ==
  ASSUME Typed, NEW q \in Pairs, SameViews(q), HistoryGrows, Way(q)' = Way(q), Way(Back(q))' = Way(Back(q)),
         RelationHolds(q), BlocksHold(q)
  PROVE  RelationHolds(q)' /\ BlocksHold(q)'
<1>1. AgreeingOn(q) => AgreeingOn(q)'
  BY WaysDecide
<1>2. (Untouched(q)' => Untouched(q)) /\ (q \notin withdrawn' => q \notin withdrawn)
  BY UntouchedBefore DEF SameViews, HistoryGrows
<1>3. BlocksHold(q)'
  BY <1>2, WaysDecide
<1>4. RelationHolds(q)'
  BY <1>1, <1>2 DEF RelationHolds
<1> QED BY <1>3, <1>4

LEMMA RelationsStayAside ==
  ASSUME Typed, NEW q \in Pairs, IsAside(q), RelationHolds(q), BlocksHold(q)
  PROVE  RelationHolds(q)' /\ BlocksHold(q)'
<1>1. Way(q)' = Way(q) /\ Way(Back(q))' = Way(Back(q))
  BY WaysStayAside
<1>2. SameViews(q)
  BY DEF IsAside, SameViews, Aside, Unseen, Mute
<1> QED BY <1>1, <1>2, SameWaysStayInRelation DEF IsAside

-----------------------------------------------------------------------------
(* The blocks of the two accounts of a task that advances.                 *)
LEMMA BlocksBetween ==
  ASSUME NEW k \in Slots, NEW p, NEW b, NEW s, Between(k, p, b, s), NEW o, o = home[You(k)]
  PROVE  /\ BlocksHold(p) <=> (Untouched(p) => BlocksAgree(p \in blocks[s], p \in blocks[o], Way(p)))
         /\ BlocksHold(b) <=> (Untouched(b) => BlocksAgree(b \in blocks[o], b \in blocks[s], Way(b)))
         /\ BlocksHold(p)' <=> (Untouched(p)' => BlocksAgree(p \in blocks'[s], p \in blocks[o], Way(p)'))
         /\ BlocksHold(b)' <=> (Untouched(b)' => BlocksAgree(b \in blocks[o], b \in blocks'[s], Way(b)'))
         /\ Untouched(p)' => Untouched(p)
         /\ Untouched(b)' => Untouched(b)
<1>1. home[p[1]] = s /\ home[p[2]] = o /\ home[b[1]] = o /\ home[b[2]] = s /\ home' = home
  BY DEF Between, Advances, Mine, Theirs, Server
<1>2. o \in Servers /\ o # s
  <2>1. Busy(k) /\ ~SameServer(Me(k), You(k))
    BY DEF Between, Advances, Undisturbed
  <2> QED BY <2>1, TaskFields DEF Between, Typed, SameServer, Server
<1>3. /\ p \in blocks'[o] <=> p \in blocks[o]
      /\ b \in blocks'[o] <=> b \in blocks[o]
  BY <1>2 DEF Between, Advances, RowsStayOutside, RowsKept
<1>4. /\ HasBlock(home[p[1]], p) <=> p \in blocks[s]
      /\ HasBlock(home[p[2]], p) <=> p \in blocks[o]
      /\ HasBlock(home[b[1]], b) <=> b \in blocks[o]
      /\ HasBlock(home[b[2]], b) <=> b \in blocks[s]
  BY <1>1 DEF HasBlock
<1>5. /\ HasBlock(home[p[1]], p)' <=> p \in blocks'[s]
      /\ HasBlock(home[p[2]], p)' <=> p \in blocks[o]
      /\ HasBlock(home[b[1]], b)' <=> b \in blocks[o]
      /\ HasBlock(home[b[2]], b)' <=> b \in blocks'[s]
  BY <1>1, <1>3 DEF HasBlock
<1>6. BlocksHold(p) <=> (Untouched(p) => BlocksAgree(p \in blocks[s], p \in blocks[o], Way(p)))
  BY <1>4 DEF BlocksHold, BlocksAgree
<1>7. BlocksHold(b) <=> (Untouched(b) => BlocksAgree(b \in blocks[o], b \in blocks[s], Way(b)))
  BY <1>4 DEF BlocksHold, BlocksAgree
<1>8. BlocksHold(p)' <=> (Untouched(p)' => BlocksAgree(p \in blocks'[s], p \in blocks[o], Way(p)'))
  BY <1>5 DEF BlocksHold, BlocksAgree
<1>9. BlocksHold(b)' <=> (Untouched(b)' => BlocksAgree(b \in blocks[o], b \in blocks'[s], Way(b)'))
  BY <1>5 DEF BlocksHold, BlocksAgree
<1>A. (Untouched(p)' => Untouched(p)) /\ (Untouched(b)' => Untouched(b))
  BY <1>1, UntouchedBefore DEF Between
<1> QED BY <1>6, <1>7, <1>8, <1>9, <1>A

(* The task says nothing of a block of its own, or says what it has done.  *)
LEMMA BlockerAgrees ==
  ASSUME NEW k \in Slots, NEW p, NEW b, NEW s, Between(k, p, b, s), BlocksHold(p),
         \/ /\ p \in blocks'[s] <=> p \in blocks[s]
            /\ \A at : \A m \in Leaving(slot'[k], at) \ Leaving(slot[k], at) : m.type \notin Blocking
         \/ \E type \in Blocking : \E id :
              /\ \A at : Leaving(slot[k], at) = {} /\ Leaving(slot'[k], at) = {Piece(at, type, id)}
              /\ p \in blocks'[s] <=> type = "Block"
  PROVE  BlocksHold(p)'
<1>1. PICK o, q, q2, at : o = home[You(k)] /\ q = Way(p) /\ q2 = Way(p)' /\ at = Len(net[p]) + 1
  OBVIOUS
<1>2. SUFFICES ASSUME Untouched(p)' PROVE BlocksAgree(p \in blocks'[s], p \in blocks[o], q2)
  BY <1>1, BlocksBetween
<1>3. BlocksAgree(p \in blocks[s], p \in blocks[o], q)
  BY <1>1, <1>2, BlocksBetween
<1>4. /\ q2 = q \cup Leaving(slot'[k], at) /\ Leaving(slot'[k], at) \subseteq Item
      /\ Leaving(slot[k], at) = {} => \A m \in Leaving(slot'[k], at) : AtEnd(q, m)
      /\ q \in SUBSET Item
  BY <1>1, AdvancesOnTheWay, IdsOfAWay DEF Between
<1>5. Leaving(slot[k], at) \subseteq q
  <2>1. Leaving(slot[k], at) \subseteq Leaving(slot'[k], at)
    BY DEF Between, Advances
  <2> QED BY <1>1, <1>4, <2>1 DEF Way, Between
<1>6. CASE /\ p \in blocks'[s] <=> p \in blocks[s]
           /\ \A n : \A m \in Leaving(slot'[k], n) \ Leaving(slot[k], n) : m.type \notin Blocking
  <2>1. q2 \in SUBSET Item /\ \A m \in Item : m.type \in Blocking => (m \in q2 <=> m \in q)
    BY <1>4, <1>5, <1>6
  <2>2. BlocksAgree(p \in blocks[s], p \in blocks[o], q2)
    BY <1>3, <1>4, <2>1, SilenceKeepsBlocks
  <2> QED BY <1>6, <2>2 DEF BlocksAgree
<1>7. ASSUME NEW type \in Blocking, NEW id,
             \A n : Leaving(slot[k], n) = {} /\ Leaving(slot'[k], n) = {Piece(n, type, id)},
             p \in blocks'[s] <=> type = "Block"
      PROVE  BlocksAgree(p \in blocks'[s], p \in blocks[o], q2)
  <2>1. PICK m : m = Piece(at, type, id)
    OBVIOUS
  <2>2. m.type = type /\ Leaving(slot[k], at) = {} /\ Leaving(slot'[k], at) = {m}
    BY <1>7, <2>1 DEF Piece
  <2>3. m \in Item /\ AtEnd(q, m) /\ q2 = q \cup {m} /\ m.type \in Blocking /\ (p \in blocks'[s] <=> m.type = "Block")
    BY <1>4, <1>7, <2>2
  <2>4. PICK hx, hy, hx2 : hx = (p \in blocks[s]) /\ hy = (p \in blocks[o]) /\ hx2 = (p \in blocks'[s])
    OBVIOUS
  <2>5. BlocksAgree(hx, hy, q) /\ (hx2 <=> m.type = "Block")
    BY <1>3, <2>3, <2>4
  <2>6. BlocksAgree(hx2, hy, q \cup {m})
    BY <1>4, <2>3, <2>5, SayingKeepsBlocks
  <2> QED BY <2>3, <2>4, <2>6
<1> QED BY <1>6, <1>7

(* It hears nothing of a block, or does what it has heard.                 *)
LEMMA BlockedAgrees ==
  ASSUME NEW k \in Slots, NEW p, NEW b, NEW s, Between(k, p, b, s), BlocksHold(b),
         \/ /\ b \in blocks'[s] <=> b \in blocks[s]
            /\ \A m \in Handling(slot[k]) \ Handling(slot'[k]) : m.type \notin Blocking
         \/ \E type \in Blocking : \E id :
              /\ Handling(slot[k]) = {Piece(0, type, id)} /\ Handling(slot'[k]) = {}
              /\ b \in blocks'[s] <=> type = "Block"
  PROVE  BlocksHold(b)'
<1>1. PICK o, q, q2 : o = home[You(k)] /\ q = Way(b) /\ q2 = Way(b)'
  OBVIOUS
<1>2. SUFFICES ASSUME Untouched(b)' PROVE BlocksAgree(b \in blocks[o], b \in blocks'[s], q2)
  BY <1>1, BlocksBetween
<1>3. BlocksAgree(b \in blocks[o], b \in blocks[s], q)
  BY <1>1, <1>2, BlocksBetween
<1>4. /\ q2 = q \ (Handling(slot[k]) \ Handling(slot'[k]))
      /\ \A m \in Handling(slot[k]) : Alone(q, m) /\ m.at = 0 /\ m \in Item
      /\ q \in SUBSET Item
  BY <1>1, AdvancesOnTheWay, IdsOfAWay DEF Between
<1>5. CASE /\ b \in blocks'[s] <=> b \in blocks[s]
           /\ \A m \in Handling(slot[k]) \ Handling(slot'[k]) : m.type \notin Blocking
  <2>1. q2 \in SUBSET Item /\ \A m \in Item : m.type \in Blocking => (m \in q2 <=> m \in q)
    BY <1>4, <1>5
  <2>2. BlocksAgree(b \in blocks[o], b \in blocks[s], q2)
    BY <1>3, <1>4, <2>1, SilenceKeepsBlocks
  <2> QED BY <1>5, <2>2 DEF BlocksAgree
<1>6. ASSUME NEW type \in Blocking, NEW id,
             Handling(slot[k]) = {Piece(0, type, id)}, Handling(slot'[k]) = {},
             b \in blocks'[s] <=> type = "Block"
      PROVE  BlocksAgree(b \in blocks[o], b \in blocks'[s], q2)
  <2>1. PICK m : m = Piece(0, type, id)
    OBVIOUS
  <2>2. m.type = type /\ m.type \in Blocking
    BY <2>1 DEF Piece
  <2>3. m \in Item /\ Alone(q, m) /\ m.at = 0 /\ q2 = q \ {m} /\ (b \in blocks'[s] <=> m.type = "Block")
    BY <1>4, <1>6, <2>1, <2>2
  <2>4. PICK hx, hy, hy2 : hx = (b \in blocks[o]) /\ hy = (b \in blocks[s]) /\ hy2 = (b \in blocks'[s])
    OBVIOUS
  <2>5. BlocksAgree(hx, hy, q) /\ (hy2 <=> m.type = "Block")
    BY <1>3, <2>3, <2>4
  <2>6. BlocksAgree(hx, hy2, q \ {m})
    BY <1>4, <2>2, <2>3, <2>5, HearingKeepsBlocks
  <2> QED BY <2>3, <2>4, <2>6
<1> QED BY <1>5, <1>6

-----------------------------------------------------------------------------
(* What an undisturbed task between two servers knows.                     *)

Informed(k) ==
  Undisturbed(k) /\ ~SameServer(Me(k), You(k)) =>
    /\ slot[k].op = "follow" /\ slot[k].step \in {"establish", "request"} =>
         /\ NoRow(Server(k), Mine(k))
         /\ Both(k) \notin doubt => (slot[k].step = "request" <=> You(k) \in Locked)
    /\ slot[k].op = "Follow" /\ slot[k].step \in {"establish", "request"} =>
         (slot[k].step = "request" <=> Me(k) \in Locked)
    /\ slot[k].op = "unfollow" /\ slot[k].step = "remove" => follows[Server(k)][Mine(k)] # None
    /\ slot[k].step = "promote" => slot[k].id # None /\ follows[Server(k)][Subject(k)] = None

LEMMA InformedKept ==
  ASSUME NEW j \in Slots, home' = home, raced \subseteq raced', doubt \subseteq doubt', slot'[j] = slot[j],
         \/ <<Server(j), Both(j)>> \in raced'
         \/ RowsKept(Server(j), Mine(j)) /\ RowsKept(Server(j), Theirs(j)),
         Informed(j)
  PROVE  Informed(j)'
<1>1. /\ Server(j)' = Server(j) /\ Mine(j)' = Mine(j) /\ Theirs(j)' = Theirs(j) /\ Me(j)' = Me(j)
      /\ You(j)' = You(j) /\ Subject(j)' = Subject(j) /\ Subject(j) \in {Mine(j), Theirs(j)}
      /\ Both(j)' = Both(j)
  BY DEF Server, Mine, Theirs, Me, You, Subject, Both
<1>2. SameServer(Me(j), You(j))' <=> SameServer(Me(j), You(j))
  BY <1>1 DEF SameServer
<1>3. Undisturbed(j)' => Undisturbed(j) /\ <<Server(j), Both(j)>> \notin raced'
  BY <1>1 DEF Undisturbed, Raced, Busy, Both
<1> SUFFICES ASSUME Undisturbed(j)', ~SameServer(Me(j), You(j)) PROVE Informed(j)'
  BY <1>2 DEF Informed
<1>4. RowsKept(Server(j), Mine(j)) /\ RowsKept(Server(j), Subject(j))
  BY <1>1, <1>3
<1> QED BY <1>1, <1>3, <1>4 DEF Informed, NoRow, RowsKept

(* A slot that is free, or whose task has another step before it.          *)
LEMMA NothingToKnow ==
  ASSUME NEW k \in Slots,
         slot'[k] = FreeSlot \/ slot'[k].step \notin {"establish", "request", "remove", "promote"}
  PROVE  Informed(k)'
BY DEF Informed, Undisturbed, Busy

LEMMA TurnedView ==
  ASSUME Typed, NEW k \in Slots, Busy(k), NEW step, NEW id, Turns(k, Onward(k, step, id)), home' = home
  PROVE  /\ slot'[k].op = slot[k].op /\ slot'[k].step = step /\ slot'[k].id = id
         /\ Me(k)' = Me(k) /\ You(k)' = You(k) /\ Server(k)' = Server(k) /\ Mine(k)' = Mine(k)
         /\ Subject(k)' = Subject(k) /\ Both(k)' = Both(k)
         /\ SameServer(Me(k), You(k))' <=> SameServer(Me(k), You(k))
         /\ Undisturbed(k)' => Undisturbed(k)
<1>1. /\ slot'[k].op = slot[k].op /\ slot'[k].step = step /\ slot'[k].id = id
      /\ Me(k)' = Me(k) /\ You(k)' = You(k) /\ raced' = raced
  BY DEF Turns, Onward, Me, You
<1>2. Server(k)' = Server(k) /\ Mine(k)' = Mine(k) /\ Subject(k)' = Subject(k) /\ Both(k)' = Both(k)
  BY <1>1 DEF Server, Mine, Theirs, Subject, Both
<1>3. SameServer(Me(k), You(k))' <=> SameServer(Me(k), You(k))
  BY <1>1 DEF SameServer
<1>4. Undisturbed(k)' => Undisturbed(k)
  BY <1>1, <1>2 DEF Undisturbed, Raced
<1> QED BY <1>1, <1>2, <1>3, <1>4

LEMMA FreedKnowsNothing ==
  ASSUME NEW k \in Slots, Turns(k, FreeSlot)
  PROVE  Informed(k)'
BY NothingToKnow DEF Turns

LEMMA SenderKnowsNothing ==
  ASSUME NEW k \in Slots, NEW step, NEW id, Turns(k, Onward(k, step, id)),
         step \notin {"establish", "request", "remove", "promote"}
  PROVE  Informed(k)'
BY NothingToKnow DEF Turns, Onward

LEMMA NoFollowWasFound ==
  ASSUME IInv, NEW k \in Slots, Undisturbed(k), slot[k].step = "read", slot[k].op # "block"
  PROVE  follows[Server(k)][Subject(k)] = None
BY TaskFacts DEF WriteIsFounded, At, Undisturbed

LEMMA TaskStaysInformed ==
  ASSUME IInv, NEW k \in Slots, TaskStep(k), ~At(k, "send"), home' = home
  PROVE  Informed(k)'
<1>1. Typed /\ PairsAreSound
  BY DEF IInv
<1>2. CASE ReadFollow(k)
  <2>1. CASE Turns(k, FreeSlot)
    BY <2>1, FreedKnowsNothing
  <2>2. ASSUME pending[Server(k)][Mine(k)] = None, NEW step \in {"establish", "request"},
               Turns(k, Onward(k, step, lastId + 1)),
               ~SameServer(Me(k), You(k)) /\ Both(k) \notin doubt' => (step = "request" <=> You(k) \in Locked)
        PROVE  Informed(k)'
    <3>1. slot[k].op = "follow" /\ slot[k].step = "read" /\ Busy(k) /\ UNCHANGED tables
      BY <1>1, <1>2, ReadFollowBrief
    <3>2. /\ slot'[k].op = "follow" /\ slot'[k].step = step
          /\ You(k)' = You(k) /\ Server(k)' = Server(k) /\ Mine(k)' = Mine(k) /\ Both(k)' = Both(k)
          /\ SameServer(Me(k), You(k))' <=> SameServer(Me(k), You(k))
          /\ Undisturbed(k)' => Undisturbed(k)
      BY <1>1, <2>2, <3>1, TurnedView
    <3>3. Undisturbed(k)' => NoRow(Server(k), Mine(k))'
      <4>1. Undisturbed(k)' => follows[Server(k)][Mine(k)] = None
        BY <3>1, <3>2, NoFollowWasFound DEF Subject
      <4> QED BY <2>2, <3>1, <3>2, <4>1 DEF NoRow, tables
    <3> QED BY <2>2, <3>2, <3>3 DEF Informed
  <2> QED BY <1>1, <1>2, <2>1, <2>2, ReadFollowBrief
<1>3. CASE HandleFollow(k)
  <2>1. CASE Turns(k, FreeSlot)
    BY <2>1, FreedKnowsNothing
  <2>2. ASSUME NEW step \in {"establish", "request"}, Turns(k, Onward(k, step, slot[k].id)),
               ~SameServer(Me(k), You(k)) => (step = "request" <=> Me(k) \in Locked)
        PROVE  Informed(k)'
    <3>1. slot[k].op = "Follow" /\ Busy(k)
      BY <1>1, <1>3, HandleFollowBrief
    <3>2. /\ slot'[k].op = "Follow" /\ slot'[k].step = step /\ Me(k)' = Me(k)
          /\ SameServer(Me(k), You(k))' <=> SameServer(Me(k), You(k))
      BY <1>1, <2>2, <3>1, TurnedView
    <3> QED BY <2>2, <3>2 DEF Informed
  <2> QED BY <1>1, <1>3, <2>1, <2>2, HandleFollowBrief
<1>4. CASE ReadUnfollow(k)
  <2>1. CASE Turns(k, FreeSlot)
    BY <2>1, FreedKnowsNothing
  <2>2. CASE Turns(k, Onward(k, "withdraw", slot[k].id))
    BY <2>2, SenderKnowsNothing
  <2> QED BY <1>1, <1>4, <2>1, <2>2, ReadUnfollowBrief
<1>5. CASE ReadBlock(k)
  BY <1>1, <1>5, ReadBlockBrief, FreedKnowsNothing, SenderKnowsNothing
<1>6. CASE Establish(k)
  BY <1>1, <1>6, EstablishBrief, SenderKnowsNothing
<1>7. CASE Request(k)
  BY <1>1, <1>7, RequestBrief, FreedKnowsNothing, SenderKnowsNothing
<1>8. CASE RemoveFollow(k)
  BY <1>1, <1>8, RemoveFollowBrief, FreedKnowsNothing, SenderKnowsNothing
<1>9. CASE Withdraw(k)
  BY <1>1, <1>9, WithdrawBrief, FreedKnowsNothing, SenderKnowsNothing
<1>A. CASE Take(k)
  <2>1. PICK row : row = pending[Server(k)][Subject(k)]
    OBVIOUS
  <2>2. CASE Turns(k, FreeSlot)
    BY <2>2, FreedKnowsNothing
  <2>3. CASE Turns(k, Onward(k, "send", row))
    BY <2>3, SenderKnowsNothing
  <2>4. CASE row # None /\ Turns(k, Onward(k, "promote", row)) /\ slot[k].op \in {"authorize", "Accept"}
    <3>1. Busy(k) /\ follows' = follows
      BY <1>1, <1>A, TakeBrief
    <3>2. /\ slot'[k].op = slot[k].op /\ slot'[k].step = "promote" /\ slot'[k].id = row
          /\ Server(k)' = Server(k) /\ Subject(k)' = Subject(k)
          /\ Undisturbed(k)' => Undisturbed(k)
      BY <1>1, <2>4, <3>1, TurnedView
    <3>3. Undisturbed(k) => follows[Server(k)][Subject(k)] = None
      <4>1. Server(k) \in Servers /\ Subject(k) \in Pairs /\ {Subject(k)[1], Subject(k)[2]} = Both(k)
        BY <1>1, <3>1, TaskFields DEF Subject, Mine, Theirs, Both
      <4>2. PairIsSound(Server(k), Subject(k))
        BY <1>1, <4>1 DEF PairsAreSound
      <4> QED BY <2>1, <2>4, <4>1, <4>2 DEF PairIsSound, Undisturbed, Raced, Both
    <3> QED BY <2>4, <3>1, <3>2, <3>3 DEF Informed
  <2> QED BY <1>1, <1>A, <2>1, <2>2, <2>3, <2>4, TakeBrief
<1>B. CASE Promote(k)
  BY <1>1, <1>B, PromoteBrief, FreedKnowsNothing, SenderKnowsNothing
<1>C. CASE Block(k)
  BY <1>1, <1>C, BlockBrief, FreedKnowsNothing, SenderKnowsNothing
<1>D. CASE Unblock(k)
  BY <1>1, <1>D, UnblockBrief, FreedKnowsNothing, SenderKnowsNothing
<1>E. CASE LookUp(k)
  <2>1. CASE Turns(k, FreeSlot)
    BY <2>1, FreedKnowsNothing
  <2>2. CASE Turns(k, Onward(k, "read", slot[k].id))
    BY <2>2, SenderKnowsNothing
  <2>3. CASE /\ slot[k].op = "unfollow" /\ follows[Server(k)][Subject(k)] # None
             /\ Turns(k, Onward(k, "remove", slot[k].id))
    <3>1. Busy(k) /\ UNCHANGED tables /\ Subject(k) = Mine(k)
      BY <1>1, <1>E, <2>3, LookUpBrief DEF Subject
    <3>2. /\ slot'[k].op = "unfollow" /\ slot'[k].step = "remove"
          /\ Server(k)' = Server(k) /\ Mine(k)' = Mine(k)
      BY <1>1, <2>3, <3>1, TurnedView
    <3> QED BY <2>3, <3>1, <3>2 DEF Informed, tables
  <2> QED BY <1>1, <1>E, <2>1, <2>2, <2>3, LookUpBrief
<1>F. ~SendRemote(k) /\ ~SendLocal(k)
  BY DEF SendRemote, SendLocal
<1> QED BY <1>2, <1>3, <1>4, <1>5, <1>6, <1>7, <1>8, <1>9, <1>A, <1>B, <1>C, <1>D, <1>E, <1>F DEF TaskStep

-----------------------------------------------------------------------------
(* Each step of an undisturbed task between two servers.                   *)

BothHold(p, b) == RelationHolds(p) /\ RelationHolds(b) /\ BlocksHold(p) /\ BlocksHold(b)

(* A task that is not about blocks.                                        *)
LEMMA OtherTasksKeepBlocks ==
  ASSUME NEW k \in Slots, NEW p, NEW b, NEW s, Between(k, p, b, s), BlocksHold(p), BlocksHold(b),
         slot[k].op \notin {"block", "unblock", "Block", "UndoBlock"}, blocks' = blocks
  PROVE  BlocksHold(p)' /\ BlocksHold(b)'
<1>1. slot'[k] \in Errand \cup {FreeSlot} /\ (slot'[k] # FreeSlot => slot'[k].op = slot[k].op)
  BY DEF Between, Advances, GoesOn
<1>2. \A at : \A m \in Leaving(slot'[k], at) : m.type \notin Blocking
  <2>1. CASE slot'[k] = FreeSlot
    BY <2>1, IdleSlotsSayNothing
  <2>2. CASE slot'[k] \in Errand /\ slot'[k].op = slot[k].op
    BY <2>2 DEF Leaving, Piece, Errand, MayBeAt, Sends, Blocking
  <2> QED BY <1>1, <2>1, <2>2
<1>3. \A m \in Handling(slot[k]) : m.type \notin Blocking
  BY DEF Handling, Piece, Blocking
<1>4. BlocksHold(p)'
  BY <1>2, BlockerAgrees
<1>5. BlocksHold(b)'
  BY <1>3, BlockedAgrees
<1> QED BY <1>4, <1>5

(* The rows a writer leaves alone.                                         *)
LEMMA WritersKeepTheOther ==
  ASSUME NEW k \in Slots, NEW p, NEW b, NEW s, Between(k, p, b, s), WritesSubject(k)
  PROVE  /\ Subject(k) = p => SamePlace(s, b)
         /\ Subject(k) = b => SamePlace(s, p)
         /\ blocks' = blocks /\ s \in Servers /\ p # b /\ Busy(k)
         /\ slot[k].op \in {"follow", "unfollow", "Accept", "Reject"} => Subject(k) = p
         /\ slot[k].op \notin {"follow", "unfollow", "Accept", "Reject"} => Subject(k) = b
<1>1. Busy(k)
  BY DEF Between, Advances, Undisturbed
<1>2. s \in Servers /\ p \in Pairs /\ b \in Pairs /\ p # b /\ p = Mine(k) /\ b = Theirs(k) /\ s = Server(k)
  BY <1>1, TaskFields DEF Between
<1>3. /\ slot[k].op \in {"follow", "unfollow", "Accept", "Reject"} => Subject(k) = p
      /\ slot[k].op \notin {"follow", "unfollow", "Accept", "Reject"} => Subject(k) = b
  BY <1>2 DEF Subject
<1>4. blocks' = blocks /\ \A q \in Pairs : q # Subject(k) => SamePlace(s, q)
  BY <1>2 DEF WritesSubject, SamePlace
<1> QED BY <1>1, <1>2, <1>3, <1>4

LEMMA FollowStepsHold ==
  ASSUME IInv, NEW k \in Slots, NEW p, NEW b, NEW s, Between(k, p, b, s), Informed(k), BothHold(p, b),
         Establish(k) \/ Request(k)
  PROVE  BothHold(p, b)'
<1>1. Typed /\ Undisturbed(k) /\ ~SameServer(Me(k), You(k)) /\ s = Server(k) /\ p = Mine(k) /\ b = Theirs(k)
  BY DEF Between, Advances
<1>2. /\ slot[k].op \in {"follow", "Follow"} /\ slot[k].step \in {"establish", "request"}
      /\ WritesSubject(k) /\ Busy(k)
      /\ slot[k].step = "establish" =>
           /\ slot'[k] = Onward(k, "send", slot[k].id)
           /\ follows'[s][Subject(k)] = slot[k].id /\ pending' = pending
      /\ slot[k].step = "request" =>
           /\ slot[k].op = "follow" => slot'[k] = Onward(k, "send", slot[k].id)
           /\ slot[k].op = "Follow" => slot'[k] = FreeSlot
           /\ pending'[s][Subject(k)] = slot[k].id /\ follows' = follows
  <2>1. CASE Establish(k)
    BY <1>1, <2>1, EstablishBrief DEF Turns
  <2>2. CASE Request(k)
    BY <1>1, <2>2, RequestBrief DEF Turns
  <2> QED BY <2>1, <2>2
<1>3. /\ slot[k].step = "establish" => pending[s][Subject(k)] = None
      /\ slot[k].step = "request" => follows[s][Subject(k)] = None
  BY <1>1, <1>2, TaskFacts DEF WriteIsFounded, At
<1>4. BlocksHold(p)' /\ BlocksHold(b)'
  BY <1>2, OtherTasksKeepBlocks DEF BothHold, WritesSubject
<1>5. CASE slot[k].op = "follow"
  <2>1. /\ NoRow(s, p)
        /\ Both(k) \notin doubt => (slot[k].step = "request" <=> You(k) \in Locked)
    BY <1>1, <1>2, <1>5 DEF Informed
  <2>2. Subject(k) = p /\ SamePlace(s, b)
    BY <1>2, <1>5, WritersKeepTheOther
  <2>3. slot'[k] = Onward(k, "send", slot[k].id)
    BY <1>2, <1>5
  <2>4. slot[k].step = "request" => follows'[s][p] = None /\ pending'[s][p] = slot[k].id
    BY <1>2, <2>1, <2>2 DEF NoRow
  <2>5. slot[k].step = "establish" => follows'[s][p] = slot[k].id /\ pending'[s][p] = None
    BY <1>2, <2>1, <2>2 DEF NoRow
  <2>6. RelationHolds(p)' /\ RelationHolds(b)'
    BY <1>2, <1>5, <2>1, <2>2, <2>3, <2>4, <2>5, AskKeepsRelations DEF BothHold
  <2> QED BY <1>4, <2>6 DEF BothHold
<1>6. CASE slot[k].op = "Follow"
  <2>1. slot[k].step = "request" <=> Me(k) \in Locked
    BY <1>1, <1>2, <1>6 DEF Informed
  <2>2. Subject(k) = b /\ SamePlace(s, p)
    BY <1>2, <1>6, WritersKeepTheOther
  <2>3. slot[k].step = "request" =>
          slot'[k] = FreeSlot /\ follows'[s][b] = None /\ pending'[s][b] = slot[k].id
    BY <1>2, <1>3, <1>6, <2>2
  <2>4. slot[k].step = "establish" =>
          slot'[k] = Onward(k, "send", slot[k].id) /\ follows'[s][b] = slot[k].id /\ pending'[s][b] = None
    BY <1>2, <1>3, <1>6, <2>2
  <2>5. RelationHolds(p)' /\ RelationHolds(b)'
    BY <1>2, <1>6, <2>1, <2>2, <2>3, <2>4, AskedKeepsRelations DEF BothHold
  <2> QED BY <1>4, <2>5 DEF BothHold
<1> QED BY <1>2, <1>5, <1>6

LEMMA UnfollowStepsHold ==
  ASSUME IInv, NEW k \in Slots, NEW p, NEW b, NEW s, Between(k, p, b, s), Informed(k), BothHold(p, b),
         RemoveFollow(k) \/ Withdraw(k)
  PROVE  BothHold(p, b)'
<1>1. Typed /\ Undisturbed(k) /\ ~SameServer(Me(k), You(k)) /\ s = Server(k) /\ p = Mine(k) /\ b = Theirs(k)
      /\ PairsAreSound
  BY DEF Between, Advances, IInv
<1>2. CASE RemoveFollow(k)
  <2>1. /\ slot[k].step = "remove" /\ slot[k].op \in {"unfollow", "UndoFollow"}
        /\ slot[k].op = "unfollow" => slot'[k] = Onward(k, "send", slot[k].id)
        /\ slot[k].op = "UndoFollow" => slot'[k] = FreeSlot
        /\ WritesSubject(k) /\ follows'[s][Subject(k)] = None /\ pending' = pending
        /\ slot[k].op = "UndoFollow" /\ pending[s][Subject(k)] # None => Subject(k) \in withdrawn'
    BY <1>1, <1>2, RemoveFollowBrief DEF Turns
  <2>2. BlocksHold(p)' /\ BlocksHold(b)'
    BY <2>1, OtherTasksKeepBlocks DEF BothHold, WritesSubject
  <2>3. CASE slot[k].op = "unfollow"
    <3>1. Subject(k) = p /\ SamePlace(s, b) /\ s \in Servers
      BY <2>1, <2>3, WritersKeepTheOther
    <3>2. follows[s][p] # None
      BY <1>1, <2>1, <2>3 DEF Informed
    <3>3. pending[s][p] = None
      <4>1. PairIsSound(s, p) /\ ~Raced(s, p[1], p[2])
        BY <1>1, <3>1 DEF PairsAreSound, Between, Undisturbed, Mine
      <4> QED BY <3>2, <4>1 DEF PairIsSound
    <3>4. RelationHolds(p)' /\ RelationHolds(b)'
      BY <2>1, <2>3, <3>1, <3>3, EndKeepsRelations DEF BothHold
    <3> QED BY <2>2, <3>4 DEF BothHold
  <2>4. CASE slot[k].op = "UndoFollow"
    <3>1. Subject(k) = b /\ SamePlace(s, p)
      BY <2>1, <2>4, WritersKeepTheOther
    <3>2. follows'[s][b] = None /\ (pending'[s][b] # None => b \in withdrawn') /\ slot'[k] = FreeSlot
      BY <2>1, <2>4, <3>1
    <3>3. RelationHolds(p)' /\ RelationHolds(b)'
      BY <2>1, <2>4, <3>1, <3>2, EndedKeepsRelations DEF BothHold
    <3> QED BY <2>2, <3>3 DEF BothHold
  <2> QED BY <2>1, <2>3, <2>4
<1>3. CASE Withdraw(k)
  <2>1. /\ Busy(k) /\ slot[k].step = "withdraw" /\ slot[k].op = "unfollow"
        /\ pending[s][Subject(k)] # None => slot'[k] = Onward(k, "send", slot[k].id)
        /\ pending[s][Subject(k)] = None => slot'[k] = FreeSlot
        /\ WritesSubject(k) /\ pending'[s][Subject(k)] = None /\ follows' = follows
    BY <1>1, <1>3, WithdrawBrief DEF Turns
  <2>2. BlocksHold(p)' /\ BlocksHold(b)'
    BY <2>1, OtherTasksKeepBlocks DEF BothHold, WritesSubject
  <2>3. Subject(k) = p /\ SamePlace(s, b)
    BY <2>1, WritersKeepTheOther
  <2>4. follows[s][p] = None
    BY <1>1, <2>1, TaskFacts DEF WriteIsFounded, At
  <2>5. CASE pending[s][p] # None
    <3>1. RelationHolds(p)' /\ RelationHolds(b)'
      BY <2>1, <2>3, <2>4, <2>5, EndKeepsRelations DEF BothHold
    <3> QED BY <2>2, <3>1 DEF BothHold
  <2>6. CASE pending[s][p] = None
    <3>1. SamePlace(s, p) /\ slot'[k] = FreeSlot
      BY <2>1, <2>3, <2>6 DEF SamePlace
    <3>2. "unfollow" \notin Handlers
      BY DEF Handlers
    <3>3. RelationHolds(p)' /\ RelationHolds(b)'
      BY <2>1, <2>3, <3>1, <3>2, SilentStepsKeepRelations DEF BothHold
    <3> QED BY <2>2, <3>3 DEF BothHold
  <2> QED BY <2>5, <2>6
<1> QED BY <1>2, <1>3

LEMMA TakeHolds ==
  ASSUME IInv, NEW k \in Slots, NEW p, NEW b, NEW s, Between(k, p, b, s), BothHold(p, b), Take(k)
  PROVE  BothHold(p, b)'
<1>1. Typed /\ Undisturbed(k) /\ s = Server(k) /\ p = Mine(k) /\ b = Theirs(k) /\ PairsAreSound
  BY DEF Between, Advances, IInv
<1>2. PICK row : row = pending[s][Subject(k)]
  OBVIOUS
<1>3. /\ slot[k].step = "take" /\ slot[k].op \in {"authorize", "reject", "Accept", "Reject"}
      /\ row = None => slot'[k] = FreeSlot
      /\ row # None /\ slot[k].op \in {"authorize", "Accept"} => slot'[k] = Onward(k, "promote", row)
      /\ row # None /\ slot[k].op = "reject" => slot'[k] = Onward(k, "send", row)
      /\ row # None /\ slot[k].op = "Reject" => slot'[k] = FreeSlot
      /\ WritesSubject(k) /\ pending'[s][Subject(k)] = None /\ follows' = follows
      /\ slot[k].op \in {"Accept", "Reject"} /\ row \notin {None, slot[k].id} => Both(k) \in doubt'
  BY <1>1, <1>2, TakeBrief DEF Turns
<1>4. BlocksHold(p)' /\ BlocksHold(b)'
  BY <1>3, OtherTasksKeepBlocks DEF BothHold, WritesSubject
<1>5. row # None => follows[s][Subject(k)] = None
  <2>1. s \in Servers /\ Subject(k) \in {p, b} /\ p \in Pairs /\ b \in Pairs
    BY <1>3, WritersKeepTheOther DEF Between
  <2>2. {Subject(k)[1], Subject(k)[2]} = Both(k)
    BY <1>1, <2>1 DEF Mine, Theirs, Both
  <2>3. PairIsSound(s, Subject(k))
    BY <1>1, <2>1 DEF PairsAreSound
  <2> QED BY <1>1, <1>2, <2>2, <2>3 DEF PairIsSound, Undisturbed, Raced, Both
<1>6. CASE slot[k].op \in {"Accept", "Reject"}
  <2>1. Subject(k) = p /\ SamePlace(s, b)
    BY <1>3, <1>6, WritersKeepTheOther
  <2>2. slot'[k] = IF row # None /\ slot[k].op = "Accept" THEN Onward(k, "promote", row) ELSE FreeSlot
    BY <1>3, <1>6
  <2>3. RelationHolds(p)' /\ RelationHolds(b)'
    BY <1>2, <1>3, <1>5, <1>6, <2>1, <2>2, AnsweredKeepsRelations DEF BothHold
  <2> QED BY <1>4, <2>3 DEF BothHold
<1>7. CASE slot[k].op \in {"authorize", "reject"}
  <2>1. Subject(k) = b /\ SamePlace(s, p)
    BY <1>3, <1>7, WritersKeepTheOther
  <2>2. CASE row = None
    <3>1. SamePlace(s, b) /\ slot'[k] = FreeSlot
      BY <1>2, <1>3, <2>1, <2>2 DEF SamePlace
    <3>2. slot[k].op \notin Handlers
      BY <1>7 DEF Handlers
    <3>3. RelationHolds(p)' /\ RelationHolds(b)'
      BY <1>3, <2>1, <3>1, <3>2, SilentStepsKeepRelations DEF BothHold
    <3> QED BY <1>4, <3>3 DEF BothHold
  <2>3. CASE row # None /\ slot[k].op = "authorize"
    <3>1. slot'[k] = Onward(k, "promote", row) /\ row = pending[s][b]
          /\ follows[s][b] = None /\ follows'[s][b] = None /\ pending'[s][b] = None
      BY <1>2, <1>3, <1>5, <2>1, <2>3
    <3>2. RelationHolds(p)' /\ RelationHolds(b)'
      BY <1>3, <2>1, <2>3, <3>1, AuthorizeKeepsRelations DEF BothHold
    <3> QED BY <1>4, <3>2 DEF BothHold
  <2>4. CASE row # None /\ slot[k].op = "reject"
    <3>1. slot'[k] = Onward(k, "send", row) /\ row = pending[s][b]
          /\ follows'[s][b] = follows[s][b] /\ pending'[s][b] = None
      BY <1>2, <1>3, <2>1, <2>4
    <3>2. RelationHolds(p)' /\ RelationHolds(b)'
      BY <1>3, <2>1, <2>4, <3>1, RejectKeepsRelations DEF BothHold
    <3> QED BY <1>4, <3>2 DEF BothHold
  <2> QED BY <1>7, <2>2, <2>3, <2>4
<1> QED BY <1>3, <1>6, <1>7

LEMMA PromoteHolds ==
  ASSUME NEW k \in Slots, NEW p, NEW b, NEW s, Between(k, p, b, s), Informed(k), BothHold(p, b), Promote(k)
  PROVE  BothHold(p, b)'
<1>1. Typed /\ Undisturbed(k) /\ ~SameServer(Me(k), You(k)) /\ s = Server(k)
  BY DEF Between, Advances
<1>2. /\ slot[k].step = "promote" /\ slot[k].op \in {"authorize", "Accept"}
      /\ slot[k].op = "authorize" => slot'[k] = Onward(k, "send", slot[k].id)
      /\ slot[k].op = "Accept" => slot'[k] = FreeSlot
      /\ WritesSubject(k) /\ follows'[s][Subject(k)] = slot[k].id /\ pending' = pending
  BY <1>1, PromoteBrief DEF Turns
<1>3. slot[k].id # None /\ follows[s][Subject(k)] = None
  BY <1>1, <1>2 DEF Informed
<1>4. BlocksHold(p)' /\ BlocksHold(b)'
  BY <1>2, OtherTasksKeepBlocks DEF BothHold, WritesSubject
<1>5. CASE slot[k].op = "Accept"
  <2>1. Subject(k) = p /\ SamePlace(s, b)
    BY <1>2, <1>5, WritersKeepTheOther
  <2>2. /\ slot'[k] = FreeSlot
        /\ follows[s][p] = None /\ follows'[s][p] = slot[k].id /\ pending'[s][p] = pending[s][p]
    BY <1>2, <1>3, <1>5, <2>1
  <2>3. RelationHolds(p)' /\ RelationHolds(b)'
    BY <1>2, <1>3, <1>5, <2>1, <2>2, PromoteKeepsRelations DEF BothHold
  <2> QED BY <1>4, <2>3 DEF BothHold
<1>6. CASE slot[k].op = "authorize"
  <2>1. Subject(k) = b /\ SamePlace(s, p)
    BY <1>2, <1>6, WritersKeepTheOther
  <2>2. /\ slot'[k] = Onward(k, "send", slot[k].id)
        /\ follows[s][b] = None /\ follows'[s][b] = slot[k].id /\ pending'[s][b] = pending[s][b]
    BY <1>2, <1>3, <1>6, <2>1
  <2>3. RelationHolds(p)' /\ RelationHolds(b)'
    BY <1>2, <1>3, <1>6, <2>1, <2>2, PromoteKeepsRelations DEF BothHold
  <2> QED BY <1>4, <2>3 DEF BothHold
<1> QED BY <1>2, <1>5, <1>6

LEMMA BlockStepsHold ==
  ASSUME NEW k \in Slots, NEW p, NEW b, NEW s, Between(k, p, b, s), BothHold(p, b), Block(k) \/ Unblock(k)
  PROVE  BothHold(p, b)'
<1>1. Typed /\ s = Server(k) /\ p = Mine(k) /\ b = Theirs(k)
  BY DEF Between
<1>2. /\ slot[k].op \in {"block", "unblock"} => BlockRow(k) = p
      /\ slot[k].op \in {"Block", "UndoBlock"} => BlockRow(k) = b
      /\ p # b
  <2>1. Busy(k)
    BY DEF Between, Advances, Undisturbed
  <2> QED BY <1>1, <2>1, TaskFields DEF BlockRow
<1>3. CASE Block(k)
  <2>1. /\ slot[k].step = "block" /\ slot[k].op \in {"block", "Block"}
        /\ slot[k].op = "block" => slot'[k] = Onward(k, "send", slot[k].id)
        /\ slot[k].op = "Block" => slot'[k] = FreeSlot
        /\ follows'[s][p] = None /\ pending'[s][p] = None /\ follows'[s][b] = None /\ pending'[s][b] = None
        /\ blocks'[s] = blocks[s] \cup {BlockRow(k)}
    BY <1>1, <1>3, BlockBrief DEF Turns
  <2>2. CASE slot[k].op = "block"
    <3>1. RelationHolds(p)' /\ RelationHolds(b)'
      BY <2>1, <2>2, BlockingKeepsRelations DEF BothHold
    <3>2. /\ \A at : Leaving(slot[k], at) = {} /\ Leaving(slot'[k], at) = {Piece(at, "Block", slot[k].id)}
          /\ Handling(slot[k]) = {}
      BY <2>1, <2>2 DEF Leaving, Handling, Onward, Sends, Handlers
    <3>3. /\ p \in blocks'[s]
          /\ b \in blocks'[s] <=> b \in blocks[s]
      BY <1>2, <2>1, <2>2
    <3>4. BlocksHold(p)'
      BY <3>2, <3>3, BlockerAgrees DEF BothHold, Blocking
    <3>5. BlocksHold(b)'
      BY <3>2, <3>3, BlockedAgrees DEF BothHold
    <3> QED BY <3>1, <3>4, <3>5 DEF BothHold
  <2>3. CASE slot[k].op = "Block"
    <3>1. RelationHolds(p)' /\ RelationHolds(b)'
      BY <2>1, <2>3, BlockedKeepsRelations DEF BothHold
    <3>2. /\ \A at : Leaving(slot'[k], at) = {}
          /\ Handling(slot[k]) = {Piece(0, "Block", slot[k].id)} /\ Handling(slot'[k]) = {}
      <4>1. slot'[k] = FreeSlot
        BY <2>1, <2>3
      <4>2. Handling(slot[k]) = {Piece(0, "Block", slot[k].id)}
        BY <2>1, <2>3 DEF Handling, Handlers, Steps
      <4> QED BY <4>1, <4>2, IdleSlotsSayNothing
    <3>3. /\ b \in blocks'[s]
          /\ p \in blocks'[s] <=> p \in blocks[s]
      BY <1>2, <2>1, <2>3
    <3>4. BlocksHold(p)'
      BY <3>2, <3>3, BlockerAgrees DEF BothHold
    <3>5. BlocksHold(b)'
      BY <3>2, <3>3, BlockedAgrees DEF BothHold, Blocking
    <3> QED BY <3>1, <3>4, <3>5 DEF BothHold
  <2> QED BY <2>1, <2>2, <2>3
<1>4. CASE Unblock(k)
  <2>1. /\ slot[k].step = "unblock" /\ slot[k].op \in {"unblock", "UndoBlock"}
        /\ slot[k].op = "unblock" /\ BlockRow(k) \in blocks[s] => slot'[k] = Onward(k, "send", slot[k].id)
        /\ slot[k].op = "UndoBlock" \/ BlockRow(k) \notin blocks[s] => slot'[k] = FreeSlot
        /\ blocks'[s] = blocks[s] \ {BlockRow(k)}
        /\ SamePlace(s, p) /\ SamePlace(s, b)
    BY <1>1, <1>4, UnblockBrief DEF Turns, SamePlace, HasBlock
  <2>2. RelationHolds(p)' /\ RelationHolds(b)'
    <3>1. slot[k].op \notin Handlers \ {"UndoBlock"}
      BY <2>1 DEF Handlers
    <3>2. \/ slot'[k] = FreeSlot
          \/ slot[k].op = "unblock" /\ slot'[k] = Onward(k, "send", slot[k].id)
      BY <2>1
    <3> QED BY <2>1, <3>1, <3>2, SilentStepsKeepRelations DEF BothHold
  <2>3. CASE slot[k].op = "unblock" /\ p \in blocks[s]
    <3>1. /\ \A at : Leaving(slot[k], at) = {} /\ Leaving(slot'[k], at) = {Piece(at, "UndoBlock", slot[k].id)}
          /\ Handling(slot[k]) = {}
      BY <1>2, <2>1, <2>3 DEF Leaving, Handling, Onward, Sends, Handlers
    <3>2. /\ p \notin blocks'[s]
          /\ b \in blocks'[s] <=> b \in blocks[s]
      BY <1>2, <2>1, <2>3
    <3>3. BlocksHold(p)'
      BY <3>1, <3>2, BlockerAgrees DEF BothHold, Blocking
    <3>4. BlocksHold(b)'
      BY <3>1, <3>2, BlockedAgrees DEF BothHold
    <3> QED BY <2>2, <3>3, <3>4 DEF BothHold
  <2>4. CASE slot[k].op = "unblock" /\ p \notin blocks[s]
    <3>1. /\ slot'[k] = FreeSlot
          /\ Handling(slot[k]) = {}
          /\ p \in blocks'[s] <=> p \in blocks[s]
          /\ b \in blocks'[s] <=> b \in blocks[s]
      BY <1>2, <2>1, <2>4 DEF Handling, Handlers
    <3>2. \A at : Leaving(slot'[k], at) = {}
      BY <3>1, IdleSlotsSayNothing
    <3>3. BlocksHold(p)'
      BY <3>1, <3>2, BlockerAgrees DEF BothHold
    <3>4. BlocksHold(b)'
      BY <3>1, BlockedAgrees DEF BothHold
    <3> QED BY <2>2, <3>3, <3>4 DEF BothHold
  <2>5. CASE slot[k].op = "UndoBlock"
    <3>1. slot'[k] = FreeSlot /\ Handling(slot[k]) = {Piece(0, "UndoBlock", slot[k].id)}
      BY <2>1, <2>5 DEF Handling, Handlers, Steps
    <3>2. Handling(slot'[k]) = {} /\ \A at : Leaving(slot'[k], at) = {}
      BY <3>1, IdleSlotsSayNothing
    <3>3. /\ b \notin blocks'[s]
          /\ p \in blocks'[s] <=> p \in blocks[s]
      BY <1>2, <2>1, <2>5
    <3>4. BlocksHold(p)'
      BY <3>2, <3>3, BlockerAgrees DEF BothHold
    <3>5. BlocksHold(b)'
      BY <3>1, <3>2, <3>3, BlockedAgrees DEF BothHold, Blocking
    <3> QED BY <2>2, <3>4, <3>5 DEF BothHold
  <2> QED BY <2>1, <2>3, <2>4, <2>5
<1> QED BY <1>3, <1>4

LEMMA ReadStepsHold ==
  ASSUME IInv, Ledger, NEW k \in Slots, NEW p, NEW b, NEW s, Between(k, p, b, s), BothHold(p, b),
         LookUp(k) \/ ReadFollow(k) \/ HandleFollow(k) \/ ReadUnfollow(k) \/ ReadBlock(k)
  PROVE  BothHold(p, b)'
<1>1. Typed /\ s = Server(k) /\ p = Mine(k) /\ b = Theirs(k) /\ IdsAreMinted
  BY DEF Between, Ledger
<1>2. /\ slot[k].step \in {"look", "read"} /\ slot[k].op \in {"follow", "Follow", "unfollow", "block"}
      /\ UNCHANGED tables
  BY <1>1, LookUpBrief, ReadFollowBrief, HandleFollowBrief, ReadUnfollowBrief, ReadBlockBrief
<1>3. SamePlace(s, p) /\ SamePlace(s, b) /\ blocks' = blocks
  BY <1>2 DEF SamePlace, tables
<1>4. BlocksHold(p)' /\ BlocksHold(b)'
  <2>1. CASE slot[k].op # "block"
    BY <1>2, <1>3, <2>1, OtherTasksKeepBlocks DEF BothHold
  <2>2. CASE slot[k].op = "block"
    <3>1. ReadBlock(k)
      BY <1>1, <2>2, LookUpBrief, ReadFollowBrief, HandleFollowBrief, ReadUnfollowBrief
    <3>2. slot'[k] = FreeSlot \/ slot'[k] = Onward(k, "block", slot[k].id)
      BY <1>1, <3>1, ReadBlockBrief DEF Turns
    <3>3. Handling(slot[k]) = {}
      BY <2>2 DEF Handling, Handlers
    <3>4. \A at : Leaving(slot'[k], at) = {}
      BY <3>2, IdleSlotsSayNothing DEF Leaving, Onward
    <3>5. BlocksHold(p)'
      BY <1>3, <3>4, BlockerAgrees DEF BothHold
    <3>6. BlocksHold(b)'
      BY <1>3, <3>3, BlockedAgrees DEF BothHold
    <3> QED BY <3>5, <3>6
  <2> QED BY <2>1, <2>2
<1>5. CASE /\ slot[k].op # "Follow"
           /\ \/ slot'[k] = FreeSlot
              \/ \E step \in {"read", "remove", "withdraw", "block"} : slot'[k] = Onward(k, step, slot[k].id)
  <2>1. slot[k].op \notin Handlers
    BY <1>2, <1>5 DEF Handlers
  <2>2. RelationHolds(p)' /\ RelationHolds(b)'
    BY <1>2, <1>3, <1>5, <2>1, SilentStepsKeepRelations DEF BothHold
  <2> QED BY <1>4, <2>2 DEF BothHold
<1>6. CASE /\ slot[k].step = "read" /\ slot[k].op = "follow"
           /\ \E step \in {"establish", "request"} : slot'[k] = Onward(k, step, lastId + 1)
  <2>1. RelationHolds(p)' /\ RelationHolds(b)'
    BY <1>1, <1>2, <1>3, <1>6, MintingKeepsRelations DEF BothHold
  <2> QED BY <1>4, <2>1 DEF BothHold
<1>7. CASE slot[k].op = "Follow" /\ Related(s, b) /\ slot'[k] = FreeSlot
  <2>1. RelationHolds(p)' /\ RelationHolds(b)'
    BY <1>2, <1>3, <1>7, NoFollowFindsARow DEF BothHold
  <2> QED BY <1>4, <2>1 DEF BothHold
<1>8. CASE /\ slot[k].op = "Follow"
           /\ \E step \in {"read", "establish", "request"} : slot'[k] = Onward(k, step, slot[k].id)
  <2>1. RelationHolds(p)' /\ RelationHolds(b)'
    BY <1>2, <1>3, <1>8, ReadingKeepsRelations DEF BothHold
  <2> QED BY <1>4, <2>1 DEF BothHold
<1>9. CASE ReadFollow(k)
  BY <1>1, <1>5, <1>6, <1>9, ReadFollowBrief DEF Turns
<1>A. CASE HandleFollow(k)
  BY <1>1, <1>7, <1>8, <1>A, HandleFollowBrief DEF Turns, Related, NoRow
<1>B. CASE ReadUnfollow(k)
  BY <1>1, <1>5, <1>B, ReadUnfollowBrief DEF Turns
<1>C. CASE ReadBlock(k)
  BY <1>1, <1>5, <1>C, ReadBlockBrief DEF Turns
<1>D. CASE LookUp(k)
  <2>1. slot[k].op = "Follow" => Subject(k) = b
    BY <1>1 DEF Subject
  <2>2. \/ slot'[k] = Onward(k, "read", slot[k].id)
        \/ slot[k].op = "unfollow" /\ slot'[k] = Onward(k, "remove", slot[k].id)
        \/ slot'[k] = FreeSlot /\ (slot[k].op = "Follow" => Related(s, b))
    BY <1>1, <1>D, <2>1, LookUpBrief DEF Turns, Related, NoRow
  <2>3. CASE slot[k].op = "Follow"
    BY <1>7, <1>8, <2>2, <2>3
  <2>4. CASE slot[k].op # "Follow"
    BY <1>5, <2>2, <2>4
  <2> QED BY <2>3, <2>4
<1> QED BY <1>9, <1>A, <1>B, <1>C, <1>D

-----------------------------------------------------------------------------
(* Every step.                                                             *)

Sides == \A p \in Pairs : RelationHolds(p) /\ BlocksHold(p)

Knowledge == \A k \in Slots : Informed(k)

(* Of two accounts that something has disturbed nothing is said.           *)
LEMMA TouchedPairsHold ==
  ASSUME NEW q, ~Untouched(q)'
  PROVE  RelationHolds(q)' /\ BlocksHold(q)'
BY DEF RelationHolds, BlocksHold

LEMMA DisturbedPairsHold ==
  ASSUME NEW k \in Slots, Busy(k), home' = home, raced \subseteq raced', NEW q \in {Mine(k), Theirs(k)},
         ~(Undisturbed(k) /\ ~SameServer(Me(k), You(k)))
  PROVE  RelationHolds(q)' /\ BlocksHold(q)'
<1>1. {q[1], q[2]} = Both(k) /\ Me(k) \in {q[1], q[2]} /\ You(k) \in {q[1], q[2]}
  BY DEF Mine, Theirs, Both
<1>2. CASE SameServer(Me(k), You(k))
  <2>1. SameServer(q[1], q[2])'
    BY <1>2 DEF SameServer, Mine, Theirs
  <2> QED BY <2>1, TouchedPairsHold DEF Untouched
<1>3. CASE Raced(Server(k), Me(k), You(k))
  <2>1. <<Server(k), {q[1], q[2]}>> \in raced' /\ Server(k) \in {home[q[1]], home[q[2]]}
    BY <1>1, <1>3 DEF Raced, Server, Both
  <2>2. ~Untouched(q)'
    BY <2>1 DEF Untouched, Raced
  <2> QED BY <2>2, TouchedPairsHold
<1> QED BY <1>2, <1>3 DEF Undisturbed

(* The tasks that a step of task k leaves alone stay informed.             *)
LEMMA OthersStayInformed ==
  ASSUME IInv, Knowledge, NEW k \in Slots, Busy(k), home' = home, HistoryGrows, RowsStayOutside(k),
         NEW j \in Slots \ {k}, slot'[j] = slot[j]
  PROVE  Informed(j)'
<1>1. CASE slot[j] = FreeSlot
  BY <1>1, NothingToKnow
<1>2. CASE Busy(j)
  <2>1. Typed /\ OverlapsAreNoted
    BY DEF IInv
  <2>2. Server(j) \in Servers /\ Mine(j) \in Pairs /\ Theirs(j) \in Pairs
    BY <1>2, <2>1, TaskFields
  <2>3. CASE <<Server(j), Both(j)>> \in raced
    BY <2>3, InformedKept DEF HistoryGrows, Knowledge
  <2>4. CASE <<Server(j), Both(j)>> \notin raced
    <3>1. Server(j) # Server(k) \/ Both(j) # Both(k)
      BY <1>2, <2>1, <2>4 DEF OverlapsAreNoted
    <3>2. Server(j) # Server(k) \/ (Mine(j) \notin {Mine(k), Theirs(k)} /\ Theirs(j) \notin {Mine(k), Theirs(k)})
      BY <3>1 DEF Both, Mine, Theirs
    <3>3. RowsKept(Server(j), Mine(j)) /\ RowsKept(Server(j), Theirs(j))
      BY <2>2, <3>2 DEF RowsStayOutside
    <3> QED BY <3>3, InformedKept DEF HistoryGrows, Knowledge
  <2> QED BY <2>3, <2>4
<1> QED BY <1>1, <1>2 DEF Busy

(* Two accounts are what a pair and a task have in common, or not.         *)
LEMMA OthersAreElsewhere ==
  ASSUME NEW k \in Slots, NEW q \in Pairs, q \notin {Mine(k), Theirs(k)}
  PROVE  Both(k) # {q[1], q[2]} /\ Back(q) \notin {Mine(k), Theirs(k)}
<1>1. q = <<q[1], q[2]>>
  BY DEF Pairs
<1>2. Both(k) # {q[1], q[2]}
  BY <1>1 DEF Both, Mine, Theirs
<1>3. Back(q) \notin {Mine(k), Theirs(k)}
  BY <1>1 DEF Back, Mine, Theirs
<1> QED BY <1>2, <1>3

LEMMA TaskStepKeepsSides ==
  ASSUME IInv, IInv', Ledger, NEW k \in Slots, TaskStep(k), ~At(k, "send"), home' = home, Knowledge, Sides
  PROVE  Knowledge' /\ Sides'
<1>1. /\ GoesOn(k, slot'[k]) /\ UNCHANGED <<net, raced>> /\ HistoryGrows /\ RowsStayOutside(k)
  BY TaskStepIsTidy
<1>2. Typed /\ Typed' /\ OverlapsAreNoted /\ Busy(k)
  BY <1>1 DEF IInv, GoesOn
<1>3. /\ \A j \in Slots \ {k} : slot'[j] = slot[j]
      /\ slot'[k] # FreeSlot => slot'[k].me = Me(k) /\ slot'[k].you = You(k)
  BY <1>1, <1>2 DEF GoesOn, Typed
<1>4. Knowledge'
  <2> SUFFICES ASSUME NEW j \in Slots PROVE Informed(j)'
    BY DEF Knowledge
  <2>1. CASE j = k
    BY <2>1, TaskStaysInformed
  <2>2. CASE j # k
    BY <1>1, <1>2, <1>3, <2>2, OthersStayInformed
  <2> QED BY <2>1, <2>2
<1>5. ASSUME NEW q \in Pairs, q \notin {Mine(k), Theirs(k)}
      PROVE  RelationHolds(q)' /\ BlocksHold(q)'
  <2>1. Both(k) # {q[1], q[2]}
    BY <1>5, OthersAreElsewhere
  <2>2. Aside(slot[k], q)
    BY <2>1 DEF Aside, Both, Me, You
  <2>3. Aside(slot'[k], q)
    <3>1. CASE slot'[k] = FreeSlot
      BY <3>1, IdleSlotsSayNothing DEF Aside, Mute
    <3>2. CASE slot'[k] # FreeSlot
      BY <1>3, <2>1, <3>2 DEF Aside, Both
    <3> QED BY <3>1, <3>2
  <2>4. \A s \in Servers : RowsKept(s, q)
    BY <1>1, <1>5 DEF RowsStayOutside
  <2>5. IsAside(q)
    BY <1>1, <1>3, <2>2, <2>3, <2>4 DEF IsAside
  <2> QED BY <1>2, <2>5, RelationsStayAside DEF Sides
<1>6. ASSUME NEW q \in {Mine(k), Theirs(k)}
      PROVE  RelationHolds(q)' /\ BlocksHold(q)'
  <2>1. CASE ~(Undisturbed(k) /\ ~SameServer(Me(k), You(k)))
    BY <1>1, <1>2, <2>1, DisturbedPairsHold
  <2>2. CASE Undisturbed(k) /\ ~SameServer(Me(k), You(k))
    <3>1. PICK p, b, s : p = Mine(k) /\ b = Theirs(k) /\ s = Server(k)
      OBVIOUS
    <3>2. Between(k, p, b, s)
      BY <1>2, <2>2, <3>1, TaskFields, TaskStepAdvances DEF Between
    <3>3. BothHold(p, b) /\ Informed(k)
      BY <3>2 DEF BothHold, Sides, Between, Knowledge
    <3>4. ~SendRemote(k) /\ ~SendLocal(k)
      BY DEF SendRemote, SendLocal
    <3>5. BothHold(p, b)'
      <4>1. CASE Establish(k) \/ Request(k)
        BY <3>2, <3>3, <4>1, FollowStepsHold
      <4>2. CASE RemoveFollow(k) \/ Withdraw(k)
        BY <3>2, <3>3, <4>2, UnfollowStepsHold
      <4>3. CASE Take(k)
        BY <3>2, <3>3, <4>3, TakeHolds
      <4>4. CASE Promote(k)
        BY <3>2, <3>3, <4>4, PromoteHolds
      <4>5. CASE Block(k) \/ Unblock(k)
        BY <3>2, <3>3, <4>5, BlockStepsHold
      <4>6. CASE LookUp(k) \/ ReadFollow(k) \/ HandleFollow(k) \/ ReadUnfollow(k) \/ ReadBlock(k)
        BY <3>2, <3>3, <4>6, ReadStepsHold
      <4> QED BY <3>4, <4>1, <4>2, <4>3, <4>4, <4>5, <4>6 DEF TaskStep
    <3> QED BY <1>6, <3>1, <3>5 DEF BothHold
  <2> QED BY <2>1, <2>2
<1>7. Sides'
  BY <1>5, <1>6 DEF Sides
<1> QED BY <1>4, <1>7

-----------------------------------------------------------------------------
(* Calls, deliveries and failures: steps that write no row.                *)

LEMMA NewTasksSayLittle ==
  ASSUME NEW op \in ApiOps \cup Handlers, NEW x, NEW y, NEW id, NEW t, t = NewTask(op, x, y, id)
  PROVE  /\ t.op = op /\ t.me = x /\ t.you = y /\ t.id = id
         /\ t.step \in {"look", "read", "take", "block", "remove", "unblock"}
         /\ op = "unfollow" => t.step = "look"
         /\ Claim(t) = {} /\ \A o : Promoting(t, o) = {}
         /\ \A at : Leaving(t, at) = {}
         /\ op \in Handlers => Handling(t) = {Piece(0, op, id)}
         /\ op \in ApiOps => Mute(t)
<1>1. t.op = op /\ t.me = x /\ t.you = y /\ t.id = id /\ t.step = FirstStep(op)
  BY DEF NewTask
<1>2. /\ FirstStep(op) \in {"look", "read", "take", "block", "remove", "unblock"}
      /\ op = "unfollow" => FirstStep(op) = "look"
  BY DEF FirstStep, ApiOps, Handlers
<1>3. Claim(t) = {} /\ \A o : Promoting(t, o) = {}
  BY <1>1, <1>2 DEF Claim, Promoting
<1>4. \A at : Leaving(t, at) = {}
  BY <1>1, <1>2 DEF Leaving
<1>5. op \in Handlers => Handling(t) = {Piece(0, op, id)}
  BY <1>1, <1>2 DEF Handling, Steps
<1>6. op \in ApiOps => Handling(t) = {}
  BY <1>1 DEF Handling, ApiOps, Handlers
<1> QED BY <1>1, <1>2, <1>3, <1>4, <1>5, <1>6 DEF Mute

(* The slot of task k is all such a step changes of the tasks.             *)
LeavesRows(k) ==
  /\ home' = home /\ UNCHANGED tables /\ HistoryGrows
  /\ \A j \in Slots \ {k} : slot'[j] = slot[j]
  /\ \/ slot'[k] \in {slot[k], FreeSlot}
     \/ \E op \in ApiOps \cup Handlers : \E x, y, id : slot'[k] = NewTask(op, x, y, id)

LEMMA KnowledgeStays ==
  ASSUME Knowledge, NEW k \in Slots, LeavesRows(k)
  PROVE  Knowledge'
<1> SUFFICES ASSUME NEW j \in Slots PROVE Informed(j)'
  BY DEF Knowledge
<1>1. CASE slot'[j] = slot[j]
  <2>1. RowsKept(Server(j), Mine(j)) /\ RowsKept(Server(j), Theirs(j))
    BY DEF RowsKept, tables, LeavesRows
  <2> QED BY <1>1, <2>1, InformedKept DEF HistoryGrows, Knowledge, LeavesRows
<1>2. CASE slot'[j] = FreeSlot
  BY <1>2, NothingToKnow
<1>3. ASSUME NEW op \in ApiOps \cup Handlers, NEW x, NEW y, NEW id, slot'[j] = NewTask(op, x, y, id)
      PROVE  Informed(j)'
  <2>1. /\ slot'[j].op = op /\ (op = "unfollow" => slot'[j].step = "look")
        /\ slot'[j].step \in {"look", "read", "take", "block", "remove", "unblock"}
    BY <1>3, NewTasksSayLittle
  <2> QED BY <2>1 DEF Informed
<1> QED BY <1>1, <1>2, <1>3 DEF LeavesRows

LEMMA SidesStayAside ==
  ASSUME Typed, Sides, NEW k \in Slots, LeavesRows(k), NEW q \in Pairs,
         slot'[k] = slot[k] \/ (Aside(slot[k], q) /\ Aside(slot'[k], q)),
         net'[q] = net[q], net'[Back(q)] = net[Back(q)]
  PROVE  RelationHolds(q)' /\ BlocksHold(q)'
<1>1. \A s \in Servers : RowsKept(s, q)
  BY DEF LeavesRows, tables, RowsKept
<1>2. IsAside(q)
  BY <1>1 DEF IsAside, LeavesRows
<1> QED BY <1>2, RelationsStayAside DEF Sides

(* The account called acts in a slot of its own, and has said nothing yet. *)
LEMMA CallKeepsSides ==
  ASSUME Typed, Knowledge, Sides, NEW k \in Slots, NEW op \in ApiOps, NEW p \in Pairs,
         Call(k, op, p[1], p[2]), home' = home
  PROVE  Knowledge' /\ Sides'
<1>1. /\ slot' = [slot EXCEPT ![k] = NewTask(op, p[1], p[2], None)] /\ slot[k] = FreeSlot
      /\ raced \subseteq raced' /\ UNCHANGED <<tables, net, withdrawn, doubt>>
  BY DEF Call, Begin, NewTask, Busy
<1>2. slot'[k] = NewTask(op, p[1], p[2], None) /\ \A j \in Slots \ {k} : slot'[j] = slot[j]
  BY <1>1 DEF Typed
<1>3. LeavesRows(k)
  BY <1>1, <1>2 DEF LeavesRows, HistoryGrows
<1>4. Mute(slot[k]) /\ Mute(slot'[k])
  BY <1>1, <1>2, IdleSlotsSayNothing, NewTasksSayLittle DEF Mute
<1>5. ASSUME NEW q \in Pairs PROVE RelationHolds(q)' /\ BlocksHold(q)'
  BY <1>1, <1>3, <1>4, SidesStayAside DEF Aside
<1> QED BY <1>3, <1>5, KnowledgeStays DEF Sides

(* The pairs that are not about the accounts of task k.                    *)
LEMMA OthersStayAside ==
  ASSUME Typed, Sides, NEW k \in Slots, Busy(k), LeavesRows(k),
         slot'[k] # FreeSlot => {slot'[k].me, slot'[k].you} = Both(k),
         NEW q \in Pairs, q \notin {Mine(k), Theirs(k)},
         net'[q] = net[q], net'[Back(q)] = net[Back(q)]
  PROVE  RelationHolds(q)' /\ BlocksHold(q)'
<1>1. Both(k) # {q[1], q[2]}
  BY OthersAreElsewhere
<1>2. Aside(slot[k], q)
  BY <1>1 DEF Aside, Both, Me, You
<1>3. Aside(slot'[k], q)
  <2>1. CASE slot'[k] = FreeSlot
    BY <2>1, IdleSlotsSayNothing DEF Aside, Mute
  <2>2. CASE slot'[k] # FreeSlot
    BY <1>1, <2>2 DEF Aside
  <2> QED BY <2>1, <2>2
<1> QED BY <1>2, <1>3, SidesStayAside

(* On one server nothing is claimed of the two accounts.                   *)
LEMMA SendLocalKeepsSides ==
  ASSUME IInv, Knowledge, Sides, NEW k \in Slots, SendLocal(k), home' = home
  PROVE  Knowledge' /\ Sides'
<1>0. Typed
  BY DEF IInv
<1>1. Busy(k) /\ SameServer(Me(k), You(k)) /\ UNCHANGED <<tables, net, withdrawn, doubt>> /\ At(k, "send")
  BY DEF SendLocal, At
<1>2. Sends[slot[k].op] \in Handlers
  BY <1>0, <1>1, TaskFields DEF At, MayBeAt, Sends, Handlers
<1>3. /\ raced \subseteq raced' /\ \A j \in Slots \ {k} : slot'[j] = slot[j]
      /\ \/ slot'[k] = FreeSlot
         \/ slot'[k] = NewTask(Sends[slot[k].op], You(k), Me(k), slot[k].id)
  BY <1>0 DEF SendLocal, End, Begin, NewTask, Typed
<1>4. LeavesRows(k)
  BY <1>1, <1>2, <1>3 DEF LeavesRows, HistoryGrows
<1>5. slot'[k] # FreeSlot => {slot'[k].me, slot'[k].you} = Both(k)
  BY <1>3 DEF NewTask, Both
<1>6. ASSUME NEW q \in Pairs PROVE RelationHolds(q)' /\ BlocksHold(q)'
  <2>1. CASE q \in {Mine(k), Theirs(k)}
    BY <1>0, <1>1, <1>3, <2>1, DisturbedPairsHold
  <2>2. CASE q \notin {Mine(k), Theirs(k)}
    BY <1>0, <1>1, <1>4, <1>5, <2>2, OthersStayAside
  <2> QED BY <2>1, <2>2
<1> QED BY <1>4, <1>6, KnowledgeStays DEF Sides

LEMMA DieKeepsSides ==
  ASSUME Typed, Knowledge, Sides, NEW k \in Slots, Die(k), home' = home
  PROVE  Knowledge' /\ Sides'
<1>1. /\ Busy(k) /\ UNCHANGED <<tables, net, withdrawn>> /\ raced' = raced
      /\ doubt' = doubt \cup {Both(k)}
      /\ slot'[k] = FreeSlot /\ \A j \in Slots \ {k} : slot'[j] = slot[j]
  BY DEF Die, End, Typed
<1>2. LeavesRows(k)
  BY <1>1 DEF LeavesRows, HistoryGrows
<1>3. ASSUME NEW q \in Pairs PROVE RelationHolds(q)' /\ BlocksHold(q)'
  <2>1. CASE q \in {Mine(k), Theirs(k)}
    <3>1. {q[1], q[2]} = Both(k)
      BY <2>1 DEF Mine, Theirs, Both
    <3>2. ~Untouched(q)'
      BY <1>1, <3>1 DEF Untouched
    <3> QED BY <3>2, TouchedPairsHold
  <2>2. CASE q \notin {Mine(k), Theirs(k)}
    BY <1>1, <1>2, <2>2, OthersStayAside
  <2> QED BY <2>1, <2>2
<1> QED BY <1>2, <1>3, KnowledgeStays DEF Sides

LEMMA LoseKeepsSides ==
  ASSUME Typed, Knowledge, Sides, NEW p \in Pairs, NEW i, Lose(p, i), home' = home
  PROVE  Knowledge' /\ Sides'
<1>1. /\ UNCHANGED <<tables, slot, raced, withdrawn>> /\ doubt' = doubt \cup {{p[1], p[2]}}
      /\ \A q \in Pairs : q # p => net'[q] = net[q]
  BY DEF Lose, Typed
<1>2. HistoryGrows
  BY <1>1 DEF HistoryGrows
<1>3. ASSUME NEW q \in Pairs PROVE RelationHolds(q)' /\ BlocksHold(q)'
  <2>1. CASE {q[1], q[2]} = {p[1], p[2]}
    <3>1. ~Untouched(q)'
      BY <1>1, <2>1 DEF Untouched
    <3> QED BY <3>1, TouchedPairsHold
  <2>2. CASE {q[1], q[2]} # {p[1], p[2]}
    <3>1. q # p /\ Back(q) # p /\ Back(q) \in Pairs
      BY <2>2 DEF Back, Pairs
    <3>2. \A s \in Servers : RowsKept(s, q)
      BY <1>1 DEF tables, RowsKept
    <3>3. IsAside(q)
      BY <1>1, <1>2, <3>1, <3>2 DEF IsAside
    <3> QED BY <3>3, RelationsStayAside DEF Sides
  <2> QED BY <2>1, <2>2
<1>4. Knowledge'
  <2> SUFFICES ASSUME NEW j \in Slots PROVE Informed(j)'
    BY DEF Knowledge
  <2>1. RowsKept(Server(j), Mine(j)) /\ RowsKept(Server(j), Theirs(j))
    BY <1>1 DEF RowsKept, tables
  <2> QED BY <1>1, <2>1, InformedKept DEF Knowledge
<1> QED BY <1>3, <1>4 DEF Sides

(* An activity that leaves for the queue was on its way before.            *)
LEMMA AppendQueues ==
  ASSUME NEW a \in Seq(Activity), NEW e \in Activity
  PROVE  /\ Queued(Append(a, e)) = Queued(a) \cup {Piece(Len(a) + 1, e.type, e.id)}
         /\ Len(Append(a, e)) = Len(a) + 1
<1> DEFINE n == Len(a) + 1
           c == Append(a, e)
<1>1. /\ DOMAIN a = 1..Len(a) /\ DOMAIN c = 1..n /\ Len(a) \in Nat /\ Len(c) = n
      /\ c[n] = e /\ \A i \in 1..Len(a) : c[i] = a[i]
  OBVIOUS
<1>2. \A i : i \in 1..n <=> i \in 1..Len(a) \/ i = n
  BY <1>1
<1> HIDE DEF c, n
<1>3. \A m : m \in Queued(c) <=> m \in Queued(a) \cup {Piece(n, e.type, e.id)}
  BY <1>1, <1>2 DEF Queued
<1> QED BY <1>1, <1>3 DEF c, n

LEMMA SendRemoteKeepsSides ==
  ASSUME IInv, Knowledge, Sides, NEW k \in Slots, SendRemote(k), home' = home
  PROVE  Knowledge' /\ Sides'
<1>0. Typed /\ OverlapsAreNoted
  BY DEF IInv
<1>1. /\ Busy(k) /\ ~SameServer(Me(k), You(k)) /\ slot[k].step = "send"
      /\ UNCHANGED <<tables, raced, withdrawn, doubt>>
      /\ slot'[k] = FreeSlot /\ \A j \in Slots \ {k} : slot'[j] = slot[j]
  BY <1>0 DEF SendRemote, At, End, Typed
<1>2. LeavesRows(k)
  BY <1>1 DEF LeavesRows, HistoryGrows
<1>3. PICK p \in Pairs, b \in Pairs : p = Mine(k) /\ b = Theirs(k)
  BY <1>0, <1>1, TaskFields
<1>4. /\ net'[p] = Append(net[p], [type |-> Sends[slot[k].op], id |-> slot[k].id])
      /\ \A q \in Pairs : q # p => net'[q] = net[q]
  BY <1>0, <1>3 DEF SendRemote, Typed
<1>5. p # b /\ Back(p) = b /\ Back(b) = p /\ home[p[1]] # home[p[2]]
  BY <1>0, <1>1, <1>3, TaskFields DEF Back, Mine, Theirs, SameServer
<1>6. ASSUME NEW q \in Pairs, q \notin {p, b} PROVE RelationHolds(q)' /\ BlocksHold(q)'
  <2>1. Back(q) \notin {p, b} /\ Back(q) \in Pairs
    BY <1>3, <1>6, OthersAreElsewhere DEF Back, Pairs
  <2>2. net'[q] = net[q] /\ net'[Back(q)] = net[Back(q)]
    BY <1>4, <1>6, <2>1
  <2> QED BY <1>0, <1>1, <1>2, <1>3, <1>6, <2>2, OthersStayAside
<1>7. CASE ~Undisturbed(k)
  BY <1>1, <1>2, <1>3, <1>6, <1>7, DisturbedPairsHold, KnowledgeStays DEF Sides
<1>8. CASE Undisturbed(k)
  <2>1. \A j \in Slots \ {k} : Mine(j) = p \/ Theirs(j) = b => ~Busy(j)
    <3> SUFFICES ASSUME NEW j \in Slots \ {k}, Mine(j) = p \/ Theirs(j) = b, Busy(j) PROVE FALSE
      OBVIOUS
    <3>1. Server(j) = Server(k) /\ Mine(j) = Mine(k)
      BY <1>3 DEF Server, Mine, Theirs
    <3> QED BY <1>0, <1>8, <3>1, UndisturbedIsAlone
  <2>2. PICK type \in Handlers, id \in Nat : type = Sends[slot[k].op] /\ id = slot[k].id
    BY <1>0, <1>1, TaskFields DEF MayBeAt, Sends, Handlers
  <2>3. PICK n \in Nat : n = Len(net[p]) + 1
    <3>1. Len(net[p]) \in Nat
      BY <1>0, QueuesHoldItems
    <3> QED BY <3>1
  <2>4. Queued(net'[p]) = Queued(net[p]) \cup {Piece(n, type, id)} /\ Len(net'[p]) = n
    <3>1. net[p] \in Seq(Activity) /\ [type |-> type, id |-> id] \in Activity
      BY <1>0 DEF Typed, Activity
    <3>2. /\ [type |-> type, id |-> id].type = type /\ [type |-> type, id |-> id].id = id
          /\ net'[p] = Append(net[p], [type |-> type, id |-> id])
      BY <1>4, <2>2
    <3> QED BY <2>3, <3>1, <3>2, AppendQueues
  <2>5. /\ \A at : Leaving(slot[k], at) = {Piece(at, type, id)}
        /\ Handling(slot[k]) = {} /\ Claim(slot[k]) = {} /\ \A op : Promoting(slot[k], op) = {}
        /\ Handling(slot'[k]) = {} /\ Claim(slot'[k]) = {} /\ \A op : Promoting(slot'[k], op) = {}
        /\ \A at : Leaving(slot'[k], at) = {}
    BY <1>1, <2>2, IdleSlotsSayNothing DEF Leaving, Handling, Claim, Promoting
  <2>6. \A j \in Slots \ {k} : ~Busy(j) => Handling(slot[j]) = {} /\ \A at : Leaving(slot[j], at) = {}
    BY IdleSlotsSayNothing DEF Busy
  <2>7. \A j \in Slots \ {k} : Mine(j)' = Mine(j) /\ Theirs(j)' = Theirs(j)
    BY <1>1 DEF Mine, Theirs, Me, You
  <2>8. Way(p)' = Way(p)
    <3>1. \A m : m \in Way(p) <=>
            /\ m \in Item
            /\ \/ m \in Queued(net[p]) \/ m = Piece(n, type, id)
               \/ \E j \in Slots \ {k} : Theirs(j) = p /\ m \in Handling(slot[j])
      <4>1. Mine(k) = p /\ \A m : m \notin Handling(slot[k])
        BY <1>3, <2>5
      <4>2. \A m : m \in Leaving(slot[k], Len(net[p]) + 1) <=> m = Piece(n, type, id)
        BY <2>3, <2>5
      <4>3. \A m : \A j \in Slots \ {k} :
               ~(Mine(j) = p /\ m \in Leaving(slot[j], Len(net[p]) + 1))
        BY <1>3, <2>1, <2>6
      <4> QED BY <4>1, <4>2, <4>3 DEF Way
    <3>2. \A m : m \in Way(p)' <=>
            /\ m \in Item
            /\ \/ m \in Queued(net'[p])
               \/ \E j \in Slots \ {k} : Theirs(j) = p /\ m \in Handling(slot[j])
      BY <1>1, <2>1, <2>5, <2>6, <2>7 DEF Way
    <3>3. \A m : m \in Way(p)' <=> m \in Way(p)
      BY <2>4, <3>1, <3>2
    <3> QED BY <3>3 DEF Way
  <2>9. Way(b)' = Way(b)
    <3>1. \A m : m \in Way(b) <=>
            /\ m \in Item
            /\ \/ m \in Queued(net[b])
               \/ \E j \in Slots \ {k} : Mine(j) = b /\ m \in Leaving(slot[j], Len(net[b]) + 1)
      BY <1>3, <1>5, <2>1, <2>5, <2>6 DEF Way
    <3>2. \A m : m \in Way(b)' <=>
            /\ m \in Item
            /\ \/ m \in Queued(net[b])
               \/ \E j \in Slots \ {k} : Mine(j) = b /\ m \in Leaving(slot[j], Len(net[b]) + 1)
      BY <1>1, <1>4, <1>5, <2>1, <2>5, <2>6, <2>7 DEF Way
    <3>3. \A m : m \in Way(b)' <=> m \in Way(b)
      BY <3>1, <3>2
    <3> QED BY <3>3 DEF Way
  <2>A. ASSUME NEW q \in {p, b} PROVE RelationHolds(q)' /\ BlocksHold(q)'
    <3>1. SameViews(q)
      BY <1>1, <1>2, <2>5 DEF SameViews, LeavesRows, Unseen, tables, RowsKept
    <3>2. Way(q)' = Way(q) /\ Way(Back(q))' = Way(Back(q))
      BY <1>5, <2>8, <2>9
    <3> QED BY <1>0, <1>2, <3>1, <3>2, SameWaysStayInRelation DEF Sides, LeavesRows
  <2> QED BY <1>2, <1>6, <2>A, KnowledgeStays DEF Sides
<1> QED BY <1>7, <1>8

-----------------------------------------------------------------------------
(* An activity arrives.                                                    *)

(* The first of a queue is taken: the others move up.                      *)
LEMMA FirstIsTaken ==
  ASSUME NEW a \in Seq(Activity), 1 \in DOMAIN a, NEW c, c = RemoveAt(a, 1)
  PROVE  /\ Len(c) = Len(a) - 1 /\ Len(a) \in Nat /\ Len(a) > 0
         /\ \A m \in Queued(c) : Later(m) \in Queued(a)
         /\ \A m \in Queued(a) : m = Piece(1, a[1].type, a[1].id) \/ \E h \in Queued(c) : m = Later(h)
<1>1. c = SubSeq(a, 1, 0) \o SubSeq(a, 2, Len(a))
  BY DEF RemoveAt
<1>2. Len(a) \in Nat /\ Len(a) > 0 /\ DOMAIN a = 1..Len(a)
  OBVIOUS
<1>3. c = SubSeq(a, 2, Len(a))
  BY <1>1
<1>4. /\ Len(c) = Len(a) - 1 /\ DOMAIN c = 1..(Len(a) - 1)
      /\ \A i \in 1..(Len(a) - 1) : c[i] = a[i + 1]
  <2>1. PICK j \in DOMAIN a : j = 1
    OBVIOUS
  <2>2. /\ SubSeq(a, j + 1, Len(a)) \in Seq(Activity) /\ Len(SubSeq(a, j + 1, Len(a))) = Len(a) - j
        /\ \A i \in 1..(Len(a) - j) : SubSeq(a, j + 1, Len(a))[i] = a[i + j]
    OBVIOUS
  <2>3. c = SubSeq(a, j + 1, Len(a))
    BY <1>3, <2>1
  <2>4. /\ c \in Seq(Activity) /\ Len(c) = Len(a) - j
        /\ \A i \in 1..(Len(a) - j) : c[i] = a[i + j]
    BY <2>2, <2>3, Zenon
  <2>5. Len(c) = Len(a) - 1 /\ \A i \in 1..(Len(a) - 1) : c[i] = a[i + 1]
    BY <2>1, <2>4, Zenon
  <2>6. DOMAIN c = 1..Len(c)
    BY <2>4
  <2> QED BY <2>5, <2>6, Zenon
<1>5. ASSUME NEW m \in Queued(c) PROVE Later(m) \in Queued(a)
  <2>1. PICK i \in 1..(Len(a) - 1) : m = Piece(i, c[i].type, c[i].id)
    BY <1>4 DEF Queued
  <2>2. i + 1 \in DOMAIN a /\ Later(m) = Piece(i + 1, a[i + 1].type, a[i + 1].id)
    BY <1>2, <1>4, <2>1 DEF Later, Piece
  <2> QED BY <2>2 DEF Queued
<1>6. ASSUME NEW m \in Queued(a)
      PROVE  m = Piece(1, a[1].type, a[1].id) \/ \E h \in Queued(c) : m = Later(h)
  <2>1. PICK i \in 1..Len(a) : m = Piece(i, a[i].type, a[i].id)
    BY <1>2 DEF Queued
  <2>2. CASE i = 1
    BY <2>1, <2>2
  <2>3. CASE i # 1
    <3>1. i - 1 \in 1..(Len(a) - 1) /\ (i - 1) + 1 = i
      BY <1>2, <2>3
    <3>2. c[i - 1] = a[i] /\ i - 1 \in DOMAIN c
      BY <1>4, <3>1
    <3>3. m = Later(Piece(i - 1, c[i - 1].type, c[i - 1].id))
      BY <2>1, <3>1, <3>2 DEF Later, Piece
    <3> QED BY <3>2, <3>3 DEF Queued
  <2> QED BY <2>2, <2>3
<1> QED BY <1>2, <1>4, <1>5, <1>6

(* What is to be known of an arrival that disturbs nothing.                *)
Arriving(k, p, b, type, id) ==
  /\ p \in Pairs /\ b \in Pairs /\ b = Back(p) /\ p = Back(b) /\ p # b
  /\ type \in Handlers /\ id \in Nat
  /\ net[p] \in Seq(Activity) /\ 1 \in DOMAIN net[p] /\ type = net[p][1].type /\ id = net[p][1].id
  /\ net'[p] = RemoveAt(net[p], 1) /\ net'[b] = net[b]
  /\ slot[k] = FreeSlot /\ slot'[k] = NewTask(type, p[2], p[1], id)
  /\ \A j \in Slots \ {k} : slot'[j] = slot[j] /\ (Mine(j) = b \/ Theirs(j) = p => ~Busy(j))
  /\ ~Crossing(p, 1)

LEMMA ArrivalOnTheWay ==
  ASSUME Typed, NEW k \in Slots, NEW p, NEW b, NEW type, NEW id, Arriving(k, p, b, type, id)
  PROVE  /\ MovesUp(Way(p), Way(p)') /\ Way(b)' = Way(b)
         /\ \A m \in Way(p)' : m.at = 0 => m.type = type
         /\ \A m \in Way(b) : 0 < m.at => m \in Queued(net[b])
<1>1. /\ Mine(k)' = b /\ Theirs(k)' = p /\ b # p
      /\ \A j \in Slots \ {k} : Mine(j)' = Mine(j) /\ Theirs(j)' = Theirs(j)
  <2>1. b = <<p[2], p[1]>> /\ p = <<p[1], p[2]>>
    BY DEF Arriving, Back
  <2>2. Me(k)' = p[2] /\ You(k)' = p[1]
    BY DEF Arriving, NewTask, Me, You
  <2> QED BY <2>1, <2>2 DEF Arriving, Mine, Theirs, Me, You
<1>2. /\ Handling(slot[k]) = {} /\ \A at : Leaving(slot[k], at) = {} /\ Leaving(slot'[k], at) = {}
      /\ Handling(slot'[k]) = {Piece(0, type, id)}
  BY IdleSlotsSayNothing, NewTasksSayLittle DEF Arriving
<1>3. \A j \in Slots \ {k} : Mine(j) = b \/ Theirs(j) = p =>
        Handling(slot[j]) = {} /\ \A at : Leaving(slot[j], at) = {}
  BY IdleSlotsSayNothing DEF Busy, Arriving
<1>4. PICK n \in Nat : n = Len(net'[p]) /\ Len(net[p]) = n + 1
  <2>1. Len(net'[p]) = Len(net[p]) - 1 /\ Len(net[p]) \in Nat /\ Len(net[p]) > 0
    BY FirstIsTaken DEF Arriving
  <2>2. Len(net[p]) - 1 \in Nat /\ Len(net[p]) = (Len(net[p]) - 1) + 1
    BY <2>1
  <2> QED BY <2>1, <2>2
<1>5. Piece(0, type, id) \in Item
  BY DEF Piece, Item, Arriving
<1>6. \A m : m \in Way(p) <=>
        /\ m \in Item
        /\ \/ m \in Queued(net[p])
           \/ \E j \in Slots \ {k} : Mine(j) = p /\ m \in Leaving(slot[j], n + 2)
  <2>1. Len(net[p]) + 1 = n + 2
    BY <1>4
  <2> QED BY <1>2, <1>3, <2>1 DEF Way
<1>7. \A m : m \in Way(p)' <=>
        /\ m \in Item
        /\ \/ m \in Queued(net'[p]) \/ m = Piece(0, type, id)
           \/ \E j \in Slots \ {k} : Mine(j) = p /\ m \in Leaving(slot[j], n + 1)
  BY <1>1, <1>2, <1>3, <1>4 DEF Way, Arriving
<1>8. \A m \in Item : Later(m) \in Item
  BY DEF Item, Later
<1>9. \A t : \A m : /\ m \in Leaving(t, n + 1) => Later(m) \in Leaving(t, n + 2)
                    /\ m \in Leaving(t, n + 2) => \E h \in Leaving(t, n + 1) : m = Later(h)
  <2>1. \A ty, i : Later(Piece(n + 1, ty, i)) = Piece(n + 2, ty, i)
    BY DEF Later, Piece
  <2> QED BY <2>1 DEF Leaving
<1>A. Later(Piece(0, type, id)) = Piece(1, type, id) /\ Piece(1, type, id) \in Queued(net[p])
  BY DEF Later, Piece, Queued, Arriving
<1>B. /\ \A m \in Queued(net'[p]) : Later(m) \in Queued(net[p])
      /\ \A m \in Queued(net[p]) : m = Piece(1, type, id) \/ \E h \in Queued(net'[p]) : m = Later(h)
  BY FirstIsTaken DEF Arriving
<1>C. ASSUME NEW m \in Way(p)' PROVE Later(m) \in Way(p)
  BY <1>6, <1>7, <1>8, <1>9, <1>A, <1>B
<1>D. \A h : Later(h) \in Item /\ h.at \in Nat /\ h = Piece(h.at, h.type, h.id) => h \in Item
  BY DEF Later, Piece, Item
<1>E. ASSUME NEW m \in Way(p) PROVE \E h \in Way(p)' : m = Later(h)
  <2>1. CASE m \in Queued(net[p])
    <3>1. CASE m = Piece(1, type, id)
      BY <1>5, <1>7, <1>A, <3>1
    <3>2. ASSUME NEW h \in Queued(net'[p]), m = Later(h) PROVE \E g \in Way(p)' : m = Later(g)
      <4>1. PICK i \in DOMAIN net'[p] : h = Piece(i, net'[p][i].type, net'[p][i].id)
        BY DEF Queued
      <4>2. net'[p] \in Seq(Activity)
        <5>1. net[p] \in Seq(Activity) /\ net'[p] = SubSeq(net[p], 1, 0) \o SubSeq(net[p], 2, Len(net[p]))
          BY DEF Arriving, RemoveAt
        <5> QED BY <5>1
      <4>3. i \in Nat /\ net'[p][i] \in Activity
        BY <4>2
      <4>4. h \in Item
        BY <4>1, <4>3 DEF Piece, Item, Activity
      <4> QED BY <1>7, <3>2, <4>4
    <3> QED BY <1>B, <2>1, <3>1, <3>2
  <2>2. ASSUME NEW j \in Slots \ {k}, Mine(j) = p, m \in Leaving(slot[j], n + 2)
        PROVE  \E h \in Way(p)' : m = Later(h)
    <3>1. PICK h \in Leaving(slot[j], n + 1) : m = Later(h)
      BY <1>9, <2>2
    <3>2. m \in Item
      BY <1>6
    <3>3. h.at = n + 1 /\ h = Piece(h.at, h.type, h.id)
      BY DEF Leaving, Piece
    <3>4. h \in Item
      BY <1>D, <3>1, <3>2, <3>3
    <3> QED BY <1>7, <2>2, <3>1, <3>4
  <2> QED BY <1>6, <2>1, <2>2
<1>F. Way(b)' = Way(b)
  <2>1. \A m : m \in Way(b)' <=>
          /\ m \in Item
          /\ \/ m \in Queued(net[b])
             \/ \E j \in Slots \ {k} : Theirs(j) = b /\ m \in Handling(slot[j])
    BY <1>1, <1>2, <1>3 DEF Way, Arriving
  <2>2. \A m : m \in Way(b) <=>
          /\ m \in Item
          /\ \/ m \in Queued(net[b])
             \/ \E j \in Slots \ {k} : Theirs(j) = b /\ m \in Handling(slot[j])
    BY <1>2, <1>3 DEF Way
  <2>3. \A m : m \in Way(b)' <=> m \in Way(b)
    BY <2>1, <2>2
  <2> QED BY <2>3 DEF Way
<1>G. ASSUME NEW m \in Way(p)', m.at = 0 PROVE m.type = type
  <2>1. m \notin Queued(net'[p])
    <3>1. SUFFICES ASSUME m \in Queued(net'[p]) PROVE FALSE
      OBVIOUS
    <3>2. Later(m) \in Queued(net[p]) /\ Later(m).at = 1
      BY <1>B, <1>G, <3>1 DEF Later
    <3>3. PICK i \in DOMAIN net'[p] : m.at = i
      BY <3>1 DEF Queued, Piece
    <3>4. net'[p] = SubSeq(net[p], 1, 0) \o SubSeq(net[p], 2, Len(net[p])) /\ net[p] \in Seq(Activity)
      BY DEF Arriving, RemoveAt
    <3>5. 0 \notin DOMAIN net'[p]
      BY <3>4
    <3> QED BY <1>G, <3>3, <3>5
  <2>2. \A j \in Slots : m \notin Leaving(slot[j], n + 1)
    BY <1>G DEF Leaving, Piece
  <2> QED BY <1>7, <2>1, <2>2 DEF Piece
<1>H. ASSUME NEW m \in Way(b), 0 < m.at PROVE m \in Queued(net[b])
  <2>1. \A j \in Slots : m \notin Handling(slot[j])
    BY <1>H DEF Handling, Piece
  <2> QED BY <1>2, <1>3, <2>1 DEF Way
<1> QED BY <1>C, <1>E, <1>F, <1>G, <1>H DEF MovesUp

LEMMA ArrivalFacts ==
  ASSUME IInv, NEW k \in Slots, NEW p \in Pairs, NEW i \in DOMAIN net[p], Receive(k, p, i), home' = home
  PROVE  /\ LeavesRows(k) /\ slot[k] = FreeSlot
         /\ \E op \in Handlers : \E id \in Nat : slot'[k] = NewTask(op, p[2], p[1], id)
         /\ \A q \in Pairs : q # p => net'[q] = net[q]
         /\ Untouched(p)' =>
              \E type, id : /\ Arriving(k, p, Back(p), type, id)
                            /\ slot'[k] = NewTask(type, p[2], p[1], id)
<1>1. /\ Typed /\ UNCHANGED <<tables, withdrawn>> /\ slot[k] = FreeSlot
      /\ net' = [net EXCEPT ![p] = RemoveAt(@, i)]
      /\ doubt' = IF i = 1 /\ ~Crossing(p, i) THEN doubt ELSE doubt \cup {{p[1], p[2]}}
  BY DEF IInv, Receive, Arrive, Busy
<1>2. PICK type \in Handlers, id \in Nat : type = net[p][i].type /\ id = net[p][i].id
  <2>1. net[p] \in Seq(Activity)
    BY <1>1 DEF Typed
  <2>2. net[p][i] \in Activity
    BY <2>1
  <2> QED BY <2>2 DEF Activity
<1>3. /\ slot' = [slot EXCEPT ![k] = NewTask(type, p[2], p[1], id)]
      /\ raced' = raced \cup {<<home[p[2]], {p[2], p[1]}>> : j \in
           {j \in Slots \ {k} : Busy(j) /\ Both(j) = {p[2], p[1]} /\ Server(j) = home[p[2]]}}
  BY <1>2 DEF Receive, Arrive, Begin, NewTask
<1>4. slot'[k] = NewTask(type, p[2], p[1], id) /\ \A j \in Slots \ {k} : slot'[j] = slot[j]
  BY <1>1, <1>3 DEF Typed
<1>5. LeavesRows(k)
  BY <1>1, <1>3, <1>4 DEF LeavesRows, HistoryGrows
<1>6. \A q \in Pairs : q # p => net'[q] = net[q]
  BY <1>1 DEF Typed
<1>7. ASSUME Untouched(p)' PROVE Arriving(k, p, Back(p), type, id)
  <2>1. i = 1 /\ ~Crossing(p, 1)
    <3>1. {p[1], p[2]} \notin doubt'
      BY <1>7 DEF Untouched
    <3> QED BY <1>1, <3>1
  <2>2. p[1] \in Accounts /\ p[2] \in Accounts /\ p[1] # p[2] /\ p = <<p[1], p[2]>>
    BY DEF Pairs
  <2>3. Back(p) \in Pairs /\ p = Back(Back(p)) /\ p # Back(p)
    BY <2>2 DEF Back, Pairs
  <2>4. ASSUME NEW j \in Slots \ {k}, Mine(j) = Back(p) \/ Theirs(j) = p PROVE ~Busy(j)
    <3>1. Me(j) = p[2] /\ You(j) = p[1]
      BY <2>2, <2>4 DEF Mine, Theirs, Back
    <3>2. Both(j) = {p[2], p[1]} /\ Server(j) = home[p[2]]
      BY <3>1 DEF Both, Server
    <3>3. Busy(j) => <<home[p[2]], {p[2], p[1]}>> \in raced'
      BY <1>3, <3>2
    <3>4. <<home[p[2]], {p[1], p[2]}>> \notin raced'
      BY <1>7 DEF Untouched, Raced
    <3> QED BY <3>3, <3>4
  <2>5. net[p] \in Seq(Activity) /\ net'[p] = RemoveAt(net[p], 1)
    BY <1>1, <2>1 DEF Typed
  <2> QED BY <1>1, <1>2, <1>4, <1>6, <2>1, <2>3, <2>4, <2>5 DEF Arriving
<1>8. /\ \E op \in Handlers : \E n \in Nat : slot'[k] = NewTask(op, p[2], p[1], n)
      /\ Untouched(p)' => \E ty, n : /\ Arriving(k, p, Back(p), ty, n)
                                     /\ slot'[k] = NewTask(ty, p[2], p[1], n)
  BY <1>4, <1>7
<1> QED BY <1>1, <1>5, <1>6, <1>8

LEMMA UntouchedBothWays ==
  ASSUME NEW p \in Pairs
  PROVE  (Untouched(Back(p)) <=> Untouched(p)) /\ (Untouched(Back(p))' <=> Untouched(p)')
<1>1. {Back(p)[1], Back(p)[2]} = {p[1], p[2]} /\ Back(p)[1] = p[2] /\ Back(p)[2] = p[1]
  BY DEF Back
<1> QED BY <1>1 DEF Untouched, SameServer, Raced

(* A Follow that would meet a Block makes the two cross: what is doomed    *)
(* has met no one yet.                                                     *)
LEMMA ArrivalKeepsDoom ==
  ASSUME Typed, NEW k \in Slots, NEW p, NEW b, NEW type, NEW id, Arriving(k, p, b, type, id)
  PROVE  /\ Doomed(Way(p), Way(b)) => Doomed(Way(p)', Way(b)')
         /\ Doomed(Way(b), Way(p)) => Doomed(Way(b)', Way(p)')
<1>1. /\ MovesUp(Way(p), Way(p)') /\ Way(b)' = Way(b)
      /\ \A m \in Way(p)' : m.at = 0 => m.type = type
      /\ \A m \in Way(b) : 0 < m.at => m \in Queued(net[b])
  BY ArrivalOnTheWay
<1>2. \A m \in Way(p) : \E h \in Way(p)' : h.type = m.type /\ h.at \in Nat
  <2>1. \A h \in Way(p)' : h.at \in Nat
    BY DEF Way, Item
  <2> QED BY <1>1, <2>1 DEF MovesUp, Later
<1>3. ASSUME NEW g \in Way(b), 0 < g.at PROVE {type, g.type} # {"Follow", "Block"}
  <2>1. g \in Queued(net[b]) /\ b = <<p[2], p[1]>> /\ b \in Pairs
    BY <1>1, <1>3 DEF Arriving, Back
  <2>2. PICK i \in DOMAIN net[b] : g = Piece(i, net[b][i].type, net[b][i].id)
    BY <2>1 DEF Queued
  <2>3. net[b][i] \in ToSet(net[<<p[2], p[1]>>]) /\ g.type = net[b][i].type
    BY <2>1, <2>2 DEF ToSet, Piece
  <2>4. ~Crossing(p, 1) /\ type = net[p][1].type
    BY DEF Arriving
  <2> QED BY <2>3, <2>4 DEF Crossing
<1>4. ASSUME NEW m \in Way(p), NEW g \in Way(b), 0 < g.at, {m.type, g.type} = {"Follow", "Block"}
      PROVE  \E h \in Way(p)' : 0 < h.at /\ h.type = m.type
  <2>1. PICK h \in Way(p)' : h.type = m.type /\ h.at \in Nat
    BY <1>2
  <2>2. h.at # 0
    BY <1>1, <1>3, <1>4, <2>1
  <2> QED BY <2>1, <2>2
<1>5. ASSUME Doomed(Way(p), Way(b)) PROVE Doomed(Way(p)', Way(b)')
  <2>1. PICK m \in Way(p), g \in Way(b) : m.type = "Follow" /\ 0 < g.at /\ g.type = "Block"
    BY <1>5 DEF Doomed
  <2>2. \E h \in Way(p)' : 0 < h.at /\ h.type = "Follow"
    BY <1>4, <2>1
  <2> QED BY <1>1, <2>1, <2>2 DEF Doomed
<1>6. ASSUME Doomed(Way(b), Way(p)) PROVE Doomed(Way(b)', Way(p)')
  <2>1. PICK g \in Way(b), m \in Way(p) : g.type = "Follow" /\ 0 < g.at /\ m.type = "Block"
    BY <1>6 DEF Doomed
  <2>2. \E h \in Way(p)' : 0 < h.at /\ h.type = "Block"
    BY <1>4, <2>1
  <2> QED BY <1>1, <2>1, <2>2 DEF Doomed
<1> QED BY <1>5, <1>6

LEMMA ArrivalKeepsSides ==
  ASSUME Typed, NEW k \in Slots, NEW p, NEW b, NEW type, NEW id, Arriving(k, p, b, type, id),
         LeavesRows(k), slot'[k] = NewTask(type, p[2], p[1], id), Sides, Untouched(p)'
  PROVE  RelationHolds(p)' /\ RelationHolds(b)' /\ BlocksHold(p)' /\ BlocksHold(b)'
<1>1. p \in Pairs /\ b \in Pairs /\ b = Back(p) /\ p = Back(b) /\ type \in Handlers
  BY DEF Arriving
<1>2. MovesUp(Way(p), Way(p)') /\ Way(b)' = Way(b)
  BY ArrivalOnTheWay
<1>3. SameViews(p) /\ SameViews(b)
  <2>1. Claim(slot[k]) = {} /\ \A op : Promoting(slot[k], op) = {}
    BY IdleSlotsSayNothing DEF Arriving
  <2>2. Claim(slot'[k]) = {} /\ \A op : Promoting(slot'[k], op) = {}
    BY <1>1, NewTasksSayLittle
  <2>3. \A q : Unseen(slot[k], q) /\ Unseen(slot'[k], q)
    BY <2>1, <2>2 DEF Unseen
  <2>4. \A q, s : RowsKept(s, q)
    BY DEF LeavesRows, tables, RowsKept
  <2> QED BY <2>3, <2>4 DEF SameViews, LeavesRows
<1>4. /\ Untouched(p)' /\ Untouched(b)' /\ Untouched(p) /\ Untouched(b)
      /\ (p \notin withdrawn' => p \notin withdrawn) /\ (b \notin withdrawn' => b \notin withdrawn)
  BY <1>1, UntouchedBothWays, UntouchedBefore DEF LeavesRows, HistoryGrows
<1>5. RelationHolds(p) /\ RelationHolds(b) /\ BlocksHold(p) /\ BlocksHold(b)
  BY <1>1 DEF Sides
<1>6. PICK v, v2, w : v = Way(p) /\ v2 = Way(p)' /\ w = Way(b) /\ v \in SUBSET Item /\ v2 \in SUBSET Item
                      /\ w \in SUBSET Item
  <2>1. \A q : Way(q) \in SUBSET Item /\ Way(q)' \in SUBSET Item
    BY DEF Way
  <2> QED BY <2>1
<1>7. MovesUp(v, v2) /\ SaysTheSame(v, v2)
  BY <1>2, <1>6, MovingUpAnswers
<1>8. RelationHolds(p)'
  <2>1. PICK fx, px, fy, py, c :
          /\ RowsAreIds(fx, px, fy, py, c)
          /\ AgreeingOn(p) <=> Agreeing(p[2] \in Locked, fx, px, fy, py, c, v, w)
          /\ AgreeingOn(p)' <=> Agreeing(p[2] \in Locked, fx, px, fy, py, c, v2, w)
    <3>1. PICK fx, px, fy, py, c :
            /\ RowsAreIds(fx, px, fy, py, c)
            /\ AgreeingOn(p) <=> Agreeing(p[2] \in Locked, fx, px, fy, py, c, Way(p), Way(Back(p)))
            /\ AgreeingOn(p)' <=> Agreeing(p[2] \in Locked, fx, px, fy, py, c, Way(p)', Way(Back(p))')
      BY <1>1, <1>3, WaysDecide
    <3>2. /\ Way(Back(p)) = w /\ Way(Back(p))' = w
          /\ Way(p) = v /\ Way(p)' = v2
      BY <1>1, <1>2, <1>6
    <3> QED BY <3>1, <3>2
  <2>2. PICK l : l = (p[2] \in Locked)
    OBVIOUS
  <2>3. Agreeing(l, fx, px, fy, py, c, v, w) => Agreeing(l, fx, px, fy, py, c, v2, w)
    BY <1>6, <1>7, MovingUpAsks
  <2>4. AgreeingOn(p) => AgreeingOn(p)'
    BY <2>1, <2>2, <2>3
  <2>5. Doomed(Way(p), Way(b)) => Doomed(Way(p)', Way(b)')
    BY ArrivalKeepsDoom
  <2> QED BY <1>1, <1>4, <1>5, <2>4, <2>5 DEF RelationHolds
<1>9. RelationHolds(b)'
  <2>1. PICK fx, px, fy, py, c :
          /\ RowsAreIds(fx, px, fy, py, c)
          /\ AgreeingOn(b) <=> Agreeing(b[2] \in Locked, fx, px, fy, py, c, w, v)
          /\ AgreeingOn(b)' <=> Agreeing(b[2] \in Locked, fx, px, fy, py, c, w, v2)
    <3>1. PICK fx, px, fy, py, c :
            /\ RowsAreIds(fx, px, fy, py, c)
            /\ AgreeingOn(b) <=> Agreeing(b[2] \in Locked, fx, px, fy, py, c, Way(b), Way(Back(b)))
            /\ AgreeingOn(b)' <=> Agreeing(b[2] \in Locked, fx, px, fy, py, c, Way(b)', Way(Back(b))')
      BY <1>1, <1>3, WaysDecide
    <3>2. /\ Way(Back(b)) = v /\ Way(Back(b))' = v2
          /\ Way(b) = w /\ Way(b)' = w
      BY <1>1, <1>2, <1>6
    <3> QED BY <3>1, <3>2
  <2>2. PICK l : l = (b[2] \in Locked)
    OBVIOUS
  <2>3. Agreeing(l, fx, px, fy, py, c, w, v) => Agreeing(l, fx, px, fy, py, c, w, v2)
    BY <1>6, <1>7, <2>1, SameAnswersKeepAgreement
  <2>4. AgreeingOn(b) => AgreeingOn(b)'
    BY <2>1, <2>2, <2>3
  <2>5. Doomed(Way(b), Way(p)) => Doomed(Way(b)', Way(p)')
    BY ArrivalKeepsDoom
  <2> QED BY <1>1, <1>4, <1>5, <2>4, <2>5 DEF RelationHolds
<1>A. BlocksHold(p)'
  <2>1. PICK hx, hy :
          /\ BlocksHold(p) <=> (Untouched(p) => BlocksAgree(hx, hy, v))
          /\ BlocksHold(p)' <=> (Untouched(p)' => BlocksAgree(hx, hy, v2))
    BY <1>1, <1>3, <1>6, WaysDecide
  <2>2. BlocksAgree(hx, hy, v) => BlocksAgree(hx, hy, v2)
    BY <1>6, <1>7, MovingUpKeepsBlocks
  <2> QED BY <1>4, <1>5, <2>1, <2>2
<1>B. BlocksHold(b)'
  <2>1. PICK hx, hy :
          /\ BlocksHold(b) <=> (Untouched(b) => BlocksAgree(hx, hy, w))
          /\ BlocksHold(b)' <=> (Untouched(b)' => BlocksAgree(hx, hy, w))
    BY <1>1, <1>2, <1>3, <1>6, WaysDecide
  <2> QED BY <1>4, <1>5, <2>1
<1> QED BY <1>8, <1>9, <1>A, <1>B

LEMMA ReceiveKeepsSides ==
  ASSUME IInv, Knowledge, Sides, NEW k \in Slots, NEW p \in Pairs, NEW i \in DOMAIN net[p],
         Receive(k, p, i), home' = home
  PROVE  Knowledge' /\ Sides'
<1>1. /\ LeavesRows(k) /\ slot[k] = FreeSlot /\ Typed
      /\ \E op \in Handlers : \E id \in Nat : slot'[k] = NewTask(op, p[2], p[1], id)
      /\ \A q \in Pairs : q # p => net'[q] = net[q]
  BY ArrivalFacts DEF IInv
<1>2. Back(p) \in Pairs /\ p = Back(Back(p)) /\ p = <<p[1], p[2]>>
  BY DEF Back, Pairs
<1>3. ASSUME NEW q \in Pairs, q \in {p, Back(p)} PROVE RelationHolds(q)' /\ BlocksHold(q)'
  <2>1. CASE Untouched(p)'
    <3>1. PICK type, id : Arriving(k, p, Back(p), type, id) /\ slot'[k] = NewTask(type, p[2], p[1], id)
      BY <2>1, ArrivalFacts
    <3>2. PICK b : b = Back(p)
      OBVIOUS
    <3>3. RelationHolds(p)' /\ RelationHolds(b)' /\ BlocksHold(p)' /\ BlocksHold(b)'
      BY <1>1, <2>1, <3>1, <3>2, ArrivalKeepsSides
    <3> QED BY <1>3, <3>2, <3>3
  <2>2. CASE ~Untouched(p)'
    <3>1. ~Untouched(q)'
      BY <1>3, <2>2, UntouchedBothWays
    <3> QED BY <3>1, TouchedPairsHold
  <2> QED BY <2>1, <2>2
<1>4. ASSUME NEW q \in Pairs, q \notin {p, Back(p)} PROVE RelationHolds(q)' /\ BlocksHold(q)'
  <2>1. Back(q) \in Pairs /\ Back(q) # p /\ {p[2], p[1]} # {q[1], q[2]}
    BY <1>2, <1>4 DEF Back, Pairs
  <2>2. Aside(slot'[k], q)
    BY <1>1, <2>1 DEF NewTask, Aside
  <2>3. Aside(slot[k], q)
    BY <1>1, IdleSlotsSayNothing DEF Aside, Mute
  <2> QED BY <1>1, <1>4, <2>1, <2>2, <2>3, SidesStayAside
<1>5. Sides'
  BY <1>3, <1>4 DEF Sides
<1> QED BY <1>1, <1>5, KnowledgeStays

-----------------------------------------------------------------------------
(* The result.                                                             *)

LEMMA SidesAreKept ==
  IInv /\ IInv' /\ Ledger /\ Knowledge /\ Sides /\ [Next]_vars => Knowledge' /\ Sides'
<1> SUFFICES ASSUME IInv, IInv', Ledger, Knowledge, Sides, [Next]_vars PROVE Knowledge' /\ Sides'
  OBVIOUS
<1>0. Typed
  BY DEF IInv
<1>1. CASE UNCHANGED vars
  <2>1. UNCHANGED <<home, follows, pending, blocks, net, slot, raced, withdrawn, doubt>>
    BY <1>1 DEF vars, tables, history
  <2>2. ASSUME NEW q \in Pairs PROVE RelationHolds(q)' /\ BlocksHold(q)'
    <3>1. IsAside(q)
      BY <2>1 DEF IsAside, HistoryGrows, RowsKept
    <3> QED BY <1>0, <3>1, RelationsStayAside DEF Sides
  <2>3. ASSUME NEW j \in Slots PROVE Informed(j)'
    <3>1. RowsKept(Server(j), Mine(j)) /\ RowsKept(Server(j), Theirs(j))
      BY <2>1 DEF RowsKept
    <3> QED BY <2>1, <3>1, InformedKept DEF Knowledge
  <2> QED BY <2>2, <2>3 DEF Sides, Knowledge
<1>2. ASSUME home' = home, NEW k \in Slots, TaskStep(k)
      PROVE  Knowledge' /\ Sides'
  <2>1. CASE ~At(k, "send")
    BY <1>2, <2>1, TaskStepKeepsSides
  <2>2. CASE At(k, "send")
    <3>1. SendRemote(k) \/ SendLocal(k)
      BY <1>2, <2>2 DEF TaskStep, LookUp, ReadFollow, HandleFollow, ReadUnfollow, ReadBlock, Establish, Request,
         RemoveFollow, Withdraw, Take, Promote, Block, Unblock, At
    <3> QED BY <1>2, <3>1, SendRemoteKeepsSides, SendLocalKeepsSides
  <2> QED BY <2>1, <2>2
<1>3. CASE Next
  BY <1>0, <1>2, <1>3, CallKeepsSides, ReceiveKeepsSides, DieKeepsSides, LoseKeepsSides DEF Next
<1> QED BY <1>1, <1>3

LEMMA SidesAtStart == Init => Knowledge /\ Sides
<1> SUFFICES ASSUME Init PROVE Knowledge /\ Sides
  OBVIOUS
<1>1. \A k \in Slots : slot[k] = FreeSlot /\ ~Busy(k)
  BY DEF Init, Busy
<1>2. Knowledge
  BY <1>1 DEF Knowledge, Informed, Undisturbed
<1>3. ASSUME NEW p \in Pairs PROVE RelationHolds(p) /\ BlocksHold(p)
  <2>1. Back(p) \in Pairs /\ p[1] \in Accounts /\ p[2] \in Accounts
    BY DEF Back, Pairs
  <2>2. PICK s \in Servers, o \in Servers : s = home[p[1]] /\ o = home[p[2]]
    BY <2>1, SocialGraphAssumption DEF Init
  <2>3. \A q \in Pairs : Queued(net[q]) = {}
    BY DEF Init, Queued
  <2>4. \A q \in Pairs : Way(q) = {}
    BY <1>1, <2>3, IdleSlotsSayNothing DEF Way
  <2>5. /\ Following(s, p) = {} /\ Following(o, p) = {} /\ Claims(p) = {}
        /\ Row(pending[s][p]) = {} /\ Row(pending[o][p]) = {}
    <3>1. follows[s][p] = None /\ follows[o][p] = None /\ pending[s][p] = None /\ pending[o][p] = None
      BY DEF Init
    <3> QED BY <1>1, <3>1, IdleSlotsSayNothing DEF Following, Claims, Row
  <2>6. AgreeingOn(p)
    <3>1. \A l : Agreeing(l, {}, {}, {}, {}, {}, {}, {})
      BY DEF Agreeing, AskStands, EndStands, Level, Neither, AsksAreFresh, AsksAreApart, ClaimsAreFresh
    <3> QED BY <2>1, <2>2, <2>4, <2>5, <3>1 DEF AgreeingOn
  <2>7. BlocksHold(p)
    BY <2>2, <2>4 DEF Init, BlocksHold, BlocksAgree, HasBlock, Carries
  <2> QED BY <2>6, <2>7 DEF RelationHolds
<1> QED BY <1>2, <1>3 DEF Sides

(* With nothing on its way, the two servers hold the same.                 *)
LEMMA QuietSidesAgree ==
  ASSUME IInv, Sides
  PROVE  SidesAgree
<1> SUFFICES ASSUME NEW x \in Accounts, NEW y \in Accounts,
                    x # y, ~SameServer(x, y), Quiet(x, y), {x, y} \notin doubt, <<x, y>> \notin withdrawn,
                    \A s \in Servers : ~Raced(s, x, y)
             PROVE  /\ Standing(home[x], x, y) = Standing(home[y], x, y)
                    /\ HasBlock(home[x], <<x, y>>) <=> HasBlock(home[y], <<x, y>>)
  BY DEF SidesAgree
<1>1. PICK s \in Servers, o \in Servers : s = home[x] /\ o = home[y]
  BY DEF IInv, Typed
<1>2. PICK p \in Pairs, b \in Pairs : p = <<x, y>> /\ b = <<y, x>> /\ b = Back(p) /\ p[1] = x /\ p[2] = y
  <2>1. <<x, y>> \in Pairs /\ <<y, x>> \in Pairs
    BY DEF Pairs
  <2>2. Back(<<x, y>>) = <<y, x>> /\ <<x, y>>[1] = x /\ <<x, y>>[2] = y
    BY DEF Back
  <2> QED BY <2>1, <2>2
<1>3. Untouched(p)
  BY <1>1, <1>2 DEF Untouched
<1>4. \A k \in Slots : Mine(k) \in {p, b} \/ Theirs(k) \in {p, b} => ~Busy(k)
  <2> SUFFICES ASSUME NEW k \in Slots, Mine(k) \in {p, b} \/ Theirs(k) \in {p, b} PROVE ~Busy(k)
    OBVIOUS
  <2>1. Both(k) = {x, y}
    BY <1>2 DEF Mine, Theirs, Both
  <2> QED BY <2>1 DEF Quiet
<1>5. \A k \in Slots : Mine(k) \in {p, b} \/ Theirs(k) \in {p, b} => Mute(slot[k])
  BY <1>4, IdleSlotsSayNothing DEF Busy, Mute
<1>6. Way(p) = {} /\ Way(b) = {}
  <2>1. Queued(net[p]) = {} /\ Queued(net[b]) = {}
    BY <1>2 DEF Quiet, Queued
  <2> QED BY <1>5, <2>1 DEF Way, Mute
<1>7. Following(s, p) = Row(follows[s][p]) /\ Following(o, p) = Row(follows[o][p])
  <2>1. follows[s][p] \in Nat /\ follows[o][p] \in Nat
    BY DEF IInv, Typed, Tables
  <2> QED BY <1>5, <2>1 DEF Following, Mute, Row
<1>8. RelationHolds(p) /\ BlocksHold(p)
  BY DEF Sides
<1>9. AgreeingOn(p)
  BY <1>2, <1>3, <1>6, <1>8 DEF RelationHolds, Doomed
<1>A. Level(Row(follows[s][p]), Row(pending[s][p]), Row(follows[o][p]), Row(pending[o][p]), {})
  BY <1>1, <1>2, <1>6, <1>7, <1>9 DEF AgreeingOn, Agreeing, Carries
<1>B. /\ Row(follows[s][p]) = {} <=> Row(follows[o][p]) = {}
      /\ Row(pending[s][p]) = {} <=> Row(pending[o][p]) = {}
  BY <1>A DEF Level, PendingIsAnswered, FollowIsShared, Neither, Answers, Carries
<1>C. /\ follows[s][p] # None <=> follows[o][p] # None
      /\ pending[s][p] # None <=> pending[o][p] # None
  BY <1>B DEF Row
<1>D. Standing(s, x, y) = Standing(o, x, y)
  BY <1>2, <1>C DEF Standing
<1>E. HasBlock(s, p) <=> HasBlock(o, p)
  BY <1>1, <1>2, <1>3, <1>6, <1>8 DEF BlocksHold, BlocksAgree, Carries
<1> QED BY <1>1, <1>2, <1>D, <1>E

(* However follows, requests, blocks and their undoing cross between two   *)
(* servers, both end up with the same view of a relation that nothing has  *)
(* disturbed and that nothing is on its way about.                         *)
THEOREM ServersAgree == Spec => []SidesAgree
BY InitIsSound, StepKeepsIInv, LedgerAtStart, LedgerIsKept, SidesAtStart, SidesAreKept, QuietSidesAgree,
   PTL DEF Spec
=============================================================================
