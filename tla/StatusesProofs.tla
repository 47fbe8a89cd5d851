--------------------------- MODULE StatusesProofs ---------------------------
(***************************************************************************)
(* Proofs about Posting, Polls, RemoteCopies and Timelines: an             *)
(* Idempotency-Key stands for one post, a post's text, media and history   *)
(* stay of one piece, a poll's counts are its ballots, a copy catches up   *)
(* with its author, and a walk through a timeline misses nothing.          *)
(***************************************************************************)
EXTENDS Posting, Polls, RemoteCopies, Timelines, FiniteSetTheorems, WellFoundedInduction, TLAPS

Creating(c) == client[c].step \in {"lookup", "create", "announce", "bind"}
Editing(c)  == client[c].step \in {"archive", "overwrite", "replace", "refetch"}
Deleting(c) == client[c].step \in {"delete", "tell"}

(* A creation whose transaction has not run.                               *)
Unborn(c) == On(c, "lookup") \/ On(c, "create")

HoldsKey(c, k) == Creating(c) /\ client[c].key = k

CallsAreCoherent ==
  \A c \in Clients :
    /\ Creating(c) => client[c].op = "create" /\ client[c].post = NoPost
    /\ Editing(c)  => client[c].op = "edit" /\ client[c].post \in Ids /\ client[c].key = NoKey
    /\ Deleting(c) => client[c].op = "delete" /\ client[c].post \in Ids /\ client[c].key = NoKey
    /\ On(c, "lookup") \/ On(c, "bind") => client[c].key \in Keys
    /\ On(c, "overwrite") => client[c].saw \in Ids

(* A request's id is its own, and no row knows it before it has written.   *)
IdsAreFresh ==
  /\ posts \subseteq 1..requests
  /\ \A q \in Ids : wasLive[q] \subseteq 1..requests
  /\ \A k \in Keys : made[k] \subseteq 1..requests
  /\ \A c \in Clients : Serving(c) => client[c].id \in 1..requests /\ client[c].post <= requests
  /\ \A c, d \in Clients : c # d /\ Serving(c) /\ Serving(d) => client[c].id # client[d].id
  /\ \A c \in Clients : Unborn(c) \/ On(c, "archive") \/ On(c, "overwrite") =>
       \A q \in Ids : client[c].id \notin wasLive[q]
  /\ \A c \in Clients : Unborn(c) =>
       /\ client[c].id \notin posts /\ \A k \in Keys : client[c].id \notin made[k]
       /\ \A d \in Clients : Serving(d) => client[d].post # client[c].id

(* A key that was never contended is held by one creation at most, is free *)
(* from that one's lookup to its bind, and else bound to its post.         *)
KeysAreHeld ==
  \A k \in Keys \ unsure :
    /\ \A c, d \in Clients : HoldsKey(c, k) /\ HoldsKey(d, k) => c = d
    /\ \A c \in Clients : HoldsKey(c, k) /\ ~On(c, "lookup") => bound[k] = NoPost
    /\ \A p \in made[k] \cap posts :
         \/ bound[k] = p
         \/ \E c \in Clients : HoldsKey(c, k) /\ ~Unborn(c) /\ client[c].id = p

RowsAreFilled ==
  \A p \in Ids :
    /\ p \in posts => text[p] \in Ids
    /\ p \notin posts => archive[p] = {} /\ wasLive[p] = {}

(* The one edit of a post saw its live text, and owes it its media.        *)
EditsAreWhole ==
  \A p \in posts \ mixed :
    /\ \A c, d \in Clients : Editing(c) /\ Editing(d) /\ client[c].post = p /\ client[d].post = p => c = d
    /\ wasLive[p] = archive[p] \cup {text[p]}
    /\ text[p] \notin archive[p]
    /\ \A c \in Clients : On(c, "overwrite") /\ client[c].post = p => client[c].saw = text[p]
    /\ \A c \in Clients : On(c, "replace") /\ client[c].post = p => client[c].id = text[p]
    /\ (\A c \in Clients : On(c, "replace") => client[c].post # p) => media[p] = text[p]

PostingSound ==
  /\ PostingTypeOK /\ CallsAreCoherent /\ IdsAreFresh
  /\ KeysAreHeld /\ RowsAreFilled /\ EditsAreWhole

-----------------------------------------------------------------------------
LEMMA PostingBegins == PostingInit => PostingSound
<1> SUFFICES ASSUME PostingInit PROVE PostingSound
  OBVIOUS
<1>1. \A c \in Clients : client[c].step = "waiting"
  BY DEF PostingInit, Waiting
<1>2. PostingTypeOK
  BY PostingAssumption DEF PostingInit, PostingTypeOK, Ids
<1>3. CallsAreCoherent /\ IdsAreFresh /\ KeysAreHeld /\ RowsAreFilled /\ EditsAreWhole
  BY <1>1 DEF PostingInit, CallsAreCoherent, IdsAreFresh, KeysAreHeld, RowsAreFilled, EditsAreWhole,
     Creating, Editing, Deleting, Unborn, HoldsKey, Serving, On
<1> QED BY <1>2, <1>3 DEF PostingSound

LEMMA ClientKinds ==
  ASSUME PostingTypeOK, NEW c \in Clients
  PROVE  /\ client[c].step # "waiting" <=> client[c] \in Request
         /\ client[c].step = "waiting" <=> client[c] = Waiting
         /\ Serving(c) <=> Creating(c) \/ Editing(c) \/ Deleting(c)
BY DEF PostingTypeOK, Request, Waiting, Serving, Creating, Editing, Deleting

LEMMA ClientGoesOn ==
  ASSUME PostingTypeOK, NEW c \in Clients, client[c] \in Request,
         NEW step \in {"lookup", "create", "announce", "bind", "archive", "overwrite",
                       "replace", "refetch", "delete", "tell"},
         Proceed(c, step)
  PROVE  \E r \in Request :
           /\ client' = [client EXCEPT ![c] = r]
           /\ r.step = step /\ r.op = client[c].op /\ r.key = client[c].key /\ r.id = client[c].id
           /\ r.post = client[c].post /\ r.saw = client[c].saw
<1> DEFINE r == [client[c] EXCEPT !.step = step]
<1>1. client' = [client EXCEPT ![c] = r]
  BY DEF Proceed
<1>2. /\ r \in Request /\ r.step = step /\ r.op = client[c].op /\ r.key = client[c].key
      /\ r.id = client[c].id /\ r.post = client[c].post /\ r.saw = client[c].saw
  BY DEF Request
<1> QED BY <1>1, <1>2

LEMMA ClientMoves ==
  ASSUME PostingTypeOK, NEW c \in Clients, NEW r \in Request \cup {Waiting},
         client' = [client EXCEPT ![c] = r]
  PROVE  /\ client' \in [Clients -> Request \cup {Waiting}]
         /\ client'[c] = r
         /\ \A d \in Clients \ {c} : client'[d] = client[d]
BY DEF PostingTypeOK

-----------------------------------------------------------------------------
(* Steps that change no table                                              *)

(* r is where request c may go without writing.                            *)
MovesOn(c, r) ==
  /\ r.step \in {"waiting", "create", "bind", "overwrite"}
  /\ r.step # "waiting" => /\ r.op = client[c].op /\ r.key = client[c].key
                           /\ r.id = client[c].id /\ r.post = client[c].post
  /\ r.step = "create" => On(c, "lookup") /\ bound[r.key] = NoPost
  /\ r.step = "bind" => On(c, "announce") /\ r.key \in Keys
  /\ r.step = "overwrite" => On(c, "archive") /\ r.post \in posts /\ r.saw = text[r.post]
  /\ r.step = "waiting" /\ On(c, "announce") => client[c].key \notin Keys \ unsure'
  /\ r.step = "waiting" /\ On(c, "bind") => client[c].key \in unsure'
  /\ r.step = "waiting" /\ On(c, "replace") => client[c].post \notin posts \ mixed'

LEMMA OnlyClientMoves ==
  ASSUME PostingSound, PostingTypeOK', NEW c \in Clients, NEW r \in Request \cup {Waiting},
         client' = [client EXCEPT ![c] = r], MovesOn(c, r), Serving(c),
         UNCHANGED <<tables, requests, made, wasLive>>, unsure \subseteq unsure', mixed \subseteq mixed'
  PROVE  PostingSound'
<1>0. /\ PostingTypeOK /\ CallsAreCoherent /\ IdsAreFresh /\ KeysAreHeld /\ RowsAreFilled /\ EditsAreWhole
      /\ UNCHANGED <<posts, text, media, archive, bound, requests, made, wasLive>>
  BY DEF PostingSound, tables
<1>1. client'[c] = r /\ \A d \in Clients \ {c} : client'[d] = client[d]
  BY <1>0, ClientMoves
<1>2. \A d \in Clients : Serving(d)' =>
        /\ Serving(d) /\ client'[d].op = client[d].op /\ client'[d].key = client[d].key
        /\ client'[d].id = client[d].id /\ client'[d].post = client[d].post
  BY <1>1 DEF Serving, MovesOn
<1>3. \A d \in Clients : /\ Creating(d)' => Creating(d)
                         /\ Editing(d)' => Editing(d)
                         /\ Deleting(d)' => Deleting(d)
  BY <1>1 DEF MovesOn, Creating, Editing, Deleting, On
<1>4. \A d \in Clients : Serving(d)' <=> Creating(d)' \/ Editing(d)' \/ Deleting(d)'
  BY <1>1, ClientKinds DEF Serving, Creating, Editing, Deleting, MovesOn, PostingSound
<1>5. CallsAreCoherent'
  <2>1. \A d \in Clients : On(d, "lookup")' \/ On(d, "bind")' => client'[d].key \in Keys
    BY <1>0, <1>1 DEF CallsAreCoherent, On, MovesOn
  <2>2. \A d \in Clients : On(d, "overwrite")' => client'[d].saw \in Ids
    <3>1. On(c, "overwrite")' => client'[c].saw \in Ids
      BY <1>0, <1>1 DEF On, MovesOn, RowsAreFilled, PostingTypeOK
    <3> QED BY <1>0, <1>1, <3>1 DEF CallsAreCoherent, On
  <2> QED BY <1>0, <1>2, <1>3, <1>4, <2>1, <2>2 DEF CallsAreCoherent
<1>6. \A d \in Clients : Unborn(d)' => Unborn(d)
  BY <1>1 DEF Unborn, On, MovesOn
<1>7. \A d \in Clients : On(d, "archive")' \/ On(d, "overwrite")' => On(d, "archive") \/ On(d, "overwrite")
  BY <1>1 DEF On, MovesOn
<1>8. \A d \in Clients : Unborn(d)' \/ On(d, "archive")' \/ On(d, "overwrite")' => Serving(d)'
  BY DEF Unborn, On, Serving
<1>9. IdsAreFresh'
  BY <1>0, <1>2, <1>6, <1>7, <1>8 DEF IdsAreFresh
<1>10. KeysAreHeld'
  <2> SUFFICES ASSUME NEW k \in Keys, k \notin unsure'
               PROVE  /\ \A d, e \in Clients : HoldsKey(d, k)' /\ HoldsKey(e, k)' => d = e
                      /\ \A d \in Clients : HoldsKey(d, k)' /\ ~On(d, "lookup")' => bound[k] = NoPost
                      /\ \A p \in made[k] \cap posts :
                           \/ bound[k] = p
                           \/ \E d \in Clients : HoldsKey(d, k)' /\ ~Unborn(d)' /\ client'[d].id = p
    BY <1>0 DEF KeysAreHeld
  <2>1. \A d \in Clients : HoldsKey(d, k)' => HoldsKey(d, k)
    BY <1>2, <1>3, <1>4 DEF HoldsKey
  <2>2. \A d \in Clients : HoldsKey(d, k)' /\ ~On(d, "lookup")' => ~On(d, "lookup") \/ bound[k] = NoPost
    BY <1>1 DEF HoldsKey, Creating, On, MovesOn
  <2>3. \A d \in Clients : HoldsKey(d, k) /\ ~Unborn(d) =>
          HoldsKey(d, k)' /\ ~Unborn(d)' /\ client'[d].id = client[d].id
    BY <1>1 DEF HoldsKey, Creating, Unborn, On, MovesOn
  <2> QED BY <1>0, <2>1, <2>2, <2>3 DEF KeysAreHeld
<1>11. RowsAreFilled'
  BY <1>0 DEF RowsAreFilled
<1>12. EditsAreWhole'
  <2> SUFFICES ASSUME NEW p \in posts, p \notin mixed'
               PROVE  /\ \A d, e \in Clients : Editing(d)' /\ Editing(e)' /\ client'[d].post = p /\ client'[e].post = p
                                               => d = e
                      /\ wasLive[p] = archive[p] \cup {text[p]}
                      /\ text[p] \notin archive[p]
                      /\ \A d \in Clients : On(d, "overwrite")' /\ client'[d].post = p => client'[d].saw = text[p]
                      /\ \A d \in Clients : On(d, "replace")' /\ client'[d].post = p => client'[d].id = text[p]
                      /\ (\A d \in Clients : On(d, "replace")' => client'[d].post # p) => media[p] = text[p]
    BY <1>0 DEF EditsAreWhole
  <2>0. p \in posts \ mixed
    OBVIOUS
  <2>1. \A d, e \in Clients : Editing(d)' /\ Editing(e)' /\ client'[d].post = p /\ client'[e].post = p => d = e
    BY <1>0, <1>2, <1>3, <1>4, <2>0 DEF EditsAreWhole
  <2>2. \A d \in Clients : On(d, "overwrite")' /\ client'[d].post = p => client'[d].saw = text[p]
    BY <1>0, <1>1, <2>0 DEF EditsAreWhole, On, MovesOn
  <2>3. \A d \in Clients : On(d, "replace")' /\ client'[d].post = p => client'[d].id = text[p]
    BY <1>0, <1>1, <2>0 DEF EditsAreWhole, On, MovesOn
  <2>4. \A d \in Clients : On(d, "replace") /\ client[d].post = p => On(d, "replace")' /\ client'[d].post = p
    BY <1>1, <2>0 DEF On, MovesOn
  <2> QED BY <1>0, <2>0, <2>1, <2>2, <2>3, <2>4 DEF EditsAreWhole
<1> QED BY <1>0, <1>5, <1>9, <1>10, <1>11, <1>12 DEF PostingSound

(* A request that is answered, or breaks off, without writing.             *)
LEMMA OnlyResponds ==
  ASSUME PostingSound, PostingTypeOK', NEW c \in Clients, Respond(c), Serving(c),
         On(c, "announce") => client[c].key \notin Keys \ unsure',
         On(c, "bind") => client[c].key \in unsure',
         On(c, "replace") => client[c].post \notin posts \ mixed',
         UNCHANGED <<tables, requests, made, wasLive>>, unsure \subseteq unsure', mixed \subseteq mixed'
  PROVE  PostingSound'
<1>1. client' = [client EXCEPT ![c] = Waiting] /\ Waiting \in Request \cup {Waiting}
  BY DEF Respond
<1>2. MovesOn(c, Waiting)
  BY DEF MovesOn, Waiting
<1> QED BY <1>1, <1>2, OnlyClientMoves

LEMMA RespondTyped ==
  ASSUME PostingTypeOK, NEW c \in Clients, Respond(c),
         UNCHANGED <<tables, requests, breaks, postingHistory>>
  PROVE  PostingTypeOK'
BY DEF PostingTypeOK, Respond, tables, postingHistory

LEMMA CheckOrReserveKeeps ==
  ASSUME PostingSound, NEW c \in Clients, CheckOrReserve(c)
  PROVE  PostingSound'
<1>0. PostingTypeOK /\ On(c, "lookup") /\ UNCHANGED <<tables, requests, breaks, postingHistory>>
  BY DEF PostingSound, CheckOrReserve
<1>1. Serving(c) /\ client[c] \in Request
  BY <1>0, ClientKinds DEF On, Serving
<1>2. CASE Respond(c)
  BY <1>0, <1>1, <1>2, RespondTyped, OnlyResponds DEF On, postingHistory
<1>3. CASE bound[client[c].key] = NoPost /\ Proceed(c, "create")
  <2>1. PICK r \in Request :
          /\ client' = [client EXCEPT ![c] = r]
          /\ r.step = "create" /\ r.op = client[c].op /\ r.key = client[c].key /\ r.id = client[c].id
          /\ r.post = client[c].post
    BY <1>0, <1>1, <1>3, ClientGoesOn
  <2>2. MovesOn(c, r)
    BY <1>0, <1>3, <2>1 DEF MovesOn
  <2>3. PostingTypeOK'
    BY <1>0, <2>1, ClientMoves DEF PostingTypeOK, tables, postingHistory
  <2> QED BY <1>0, <1>1, <2>1, <2>2, <2>3, OnlyClientMoves DEF postingHistory
<1> QED BY <1>2, <1>3 DEF CheckOrReserve

LEMMA AnnounceKeeps ==
  ASSUME PostingSound, NEW c \in Clients, Announce(c)
  PROVE  PostingSound'
<1>0. PostingTypeOK /\ On(c, "announce") /\ UNCHANGED <<tables, requests, breaks, postingHistory>>
  BY DEF PostingSound, Announce
<1>1. Serving(c) /\ client[c] \in Request
  BY <1>0, ClientKinds DEF On, Serving
<1>2. CASE client[c].key = NoKey /\ Respond(c)
  BY <1>0, <1>1, <1>2, RespondTyped, OnlyResponds, PostingAssumption DEF On, postingHistory
<1>3. CASE client[c].key # NoKey /\ Proceed(c, "bind")
  <2>1. PICK r \in Request :
          /\ client' = [client EXCEPT ![c] = r]
          /\ r.step = "bind" /\ r.op = client[c].op /\ r.key = client[c].key /\ r.id = client[c].id
          /\ r.post = client[c].post
    BY <1>0, <1>1, <1>3, ClientGoesOn
  <2>2. r.key \in Keys
    BY <1>3, <2>1 DEF Request
  <2>3. MovesOn(c, r)
    BY <1>0, <2>1, <2>2 DEF MovesOn
  <2>4. PostingTypeOK'
    BY <1>0, <2>1, ClientMoves DEF PostingTypeOK, tables, postingHistory
  <2> QED BY <1>0, <1>1, <2>1, <2>3, <2>4, OnlyClientMoves DEF postingHistory
<1> QED BY <1>2, <1>3 DEF Announce

LEMMA FetchRawKeeps ==
  ASSUME PostingSound, NEW c \in Clients, FetchRaw(c)
  PROVE  PostingSound'
<1>0. PostingTypeOK /\ On(c, "archive") /\ UNCHANGED <<tables, requests, breaks, postingHistory>>
  BY DEF PostingSound, FetchRaw
<1>1. Serving(c) /\ client[c] \in Request
  BY <1>0, ClientKinds DEF On, Serving
<1>2. CASE Respond(c)
  BY <1>0, <1>1, <1>2, RespondTyped, OnlyResponds DEF On, postingHistory
<1>3. CASE /\ client[c].post \in posts
           /\ client' = [client EXCEPT ![c].step = "overwrite", ![c].saw = text[client[c].post]]
  <2> DEFINE p == client[c].post
             u == [client[c] EXCEPT !.step = "overwrite"]
             r == [u EXCEPT !.saw = text[p]]
  <2>1. text[p] \in Ids
    BY <1>0, <1>3 DEF PostingSound, RowsAreFilled, PostingTypeOK
  <2>2. client' = [client EXCEPT ![c] = r]
    BY <1>3
  <2>3. u \in Request /\ u.step = "overwrite" /\ u.op = client[c].op /\ u.key = client[c].key
        /\ u.id = client[c].id /\ u.post = p
    BY <1>1 DEF Request
  <2>4. r \in Request /\ r.step = "overwrite" /\ r.op = client[c].op /\ r.key = client[c].key
        /\ r.id = client[c].id /\ r.post = p /\ r.saw = text[p]
    <3> HIDE DEF u
    <3> QED BY <2>1, <2>3 DEF Request
  <2> HIDE DEF r
  <2>5. MovesOn(c, r)
    BY <1>0, <1>3, <2>4 DEF MovesOn
  <2>6. PostingTypeOK'
    BY <1>0, <2>2, <2>4, ClientMoves DEF PostingTypeOK, tables, postingHistory
  <2> QED BY <1>0, <1>1, <2>2, <2>4, <2>5, <2>6, OnlyClientMoves DEF postingHistory
<1> QED BY <1>2, <1>3 DEF FetchRaw

LEMMA BreakKeeps ==
  ASSUME PostingSound, NEW c \in Clients, Break(c)
  PROVE  PostingSound'
<1>0. /\ PostingTypeOK /\ Serving(c) /\ Respond(c) /\ client[c] \in Request
      /\ UNCHANGED <<tables, requests, made, wasLive>>
  BY ClientKinds DEF PostingSound, Break, Serving
<1>1. breaks' \in 0..MaxBreaks
  BY <1>0, PostingAssumption DEF Break, PostingTypeOK
<1>2. /\ unsure \subseteq unsure' /\ unsure' \subseteq Keys
      /\ On(c, "announce") \/ On(c, "bind") => client[c].key = NoKey \/ client[c].key \in unsure'
  BY <1>0 DEF Break, PostingTypeOK, Request, On
<1>3. /\ mixed \subseteq mixed' /\ mixed' \subseteq Ids
      /\ On(c, "replace") => client[c].post \in mixed'
  <2>1. On(c, "replace") => client[c].post \in Ids
    BY DEF PostingSound, CallsAreCoherent, On, Editing
  <2> QED BY <1>0, <2>1 DEF Break, PostingTypeOK, On
<1>4. PostingTypeOK'
  BY <1>0, <1>1, <1>2, <1>3 DEF PostingTypeOK, tables, Respond
<1>5. On(c, "bind") => client[c].key \in Keys
  BY DEF PostingSound, CallsAreCoherent
<1> QED BY <1>0, <1>2, <1>3, <1>4, <1>5, OnlyResponds, PostingAssumption

LEMMA DeliveriesKeep ==
  ASSUME PostingSound, NEW c \in Clients, DeliverUpdate(c) \/ DeliverDelete(c)
  PROVE  PostingSound'
<1>1. /\ Serving(c) /\ Respond(c) /\ UNCHANGED <<tables, requests, breaks, postingHistory>>
      /\ ~On(c, "announce") /\ ~On(c, "bind") /\ ~On(c, "replace")
  BY DEF DeliverUpdate, DeliverDelete, On, Serving
<1> QED BY <1>1, RespondTyped, OnlyResponds DEF PostingSound, postingHistory

-----------------------------------------------------------------------------
(* Arrivals                                                                *)

LEMMA ArriveKeeps ==
  ASSUME PostingSound, NEW c \in Clients, NEW op \in {"create", "edit", "delete"},
         NEW key \in Keys \cup {NoKey}, NEW p, Arrive(c, op, key, p),
         op = "create" => p = NoPost, op # "create" => p \in posts /\ key = NoKey
  PROVE  PostingSound'
<1> DEFINE n == requests + 1
           step == CASE op = "create" -> IF key = NoKey THEN "create" ELSE "lookup"
                     [] op = "edit" -> "archive" [] op = "delete" -> "delete"
           r == [step |-> step, op |-> op, key |-> key, id |-> n, post |-> p, saw |-> NoPost]
<1>0. /\ PostingTypeOK /\ CallsAreCoherent /\ IdsAreFresh /\ KeysAreHeld /\ RowsAreFilled /\ EditsAreWhole
      /\ ~Serving(c) /\ requests' = n
      /\ UNCHANGED <<posts, text, media, archive, bound, breaks, made, wasLive>>
  BY DEF PostingSound, Arrive, tables
<1>1. requests \in Nat /\ MaxRequests \in Nat /\ n \in 1..MaxRequests /\ n \in Ids /\ n > requests
  BY <1>0, PostingAssumption DEF PostingTypeOK, Arrive, Ids
<1>2. /\ op = "create" /\ key = NoKey => step = "create"
      /\ op = "create" /\ key # NoKey => step = "lookup"
      /\ op = "edit" => step = "archive"
      /\ op = "delete" => step = "delete"
  OBVIOUS
<1>3. client' = [client EXCEPT ![c] = r]
  BY DEF Arrive
<1>4. p \in Ids \cup {NoPost} /\ p \in 0..requests /\ (op # "create" => p \in Ids)
  <2>1. CASE op = "create"
    <3>1. p = 0
      BY <2>1 DEF NoPost
    <3> QED BY <1>1, <2>1, <3>1 DEF NoPost
  <2>2. CASE op # "create"
    <3>1. p \in posts /\ posts \subseteq Ids /\ posts \subseteq 1..requests
      BY <1>0, <2>2 DEF PostingTypeOK, IdsAreFresh
    <3> QED BY <1>1, <3>1
  <2> QED BY <2>1, <2>2
<1>5. r.step = step /\ r.op = op /\ r.key = key /\ r.id = n /\ r.post = p /\ r.saw = NoPost
  OBVIOUS
<1> HIDE DEF step
<1>6. r \in Request
  BY <1>1, <1>2, <1>4 DEF Request
<1> HIDE DEF r
<1>7. client'[c] = r /\ \A d \in Clients \ {c} : client'[d] = client[d]
  BY <1>0, <1>3, <1>6, ClientMoves
<1>8. /\ unsure \subseteq unsure' /\ unsure' \subseteq Keys
      /\ \A k \in Keys : k = key /\ (\E d \in Clients : Serving(d) /\ client[d].key = k) => k \in unsure'
  BY <1>0 DEF Arrive, PostingTypeOK
<1>9. /\ mixed \subseteq mixed' /\ mixed' \subseteq Ids
      /\ \A d \in Clients : Editing(d) /\ client[d].post = p /\ op = "edit" => p \in mixed'
  <2>1. \A d \in Clients : Editing(d) => Serving(d) /\ client[d].op = "edit"
    BY <1>0 DEF Editing, Serving, CallsAreCoherent
  <2> QED BY <1>0, <1>4, <2>1 DEF Arrive, PostingTypeOK
<1>10. PostingTypeOK'
  <2>1. client' \in [Clients -> Request \cup {Waiting}]
    BY <1>0, <1>3, <1>6, ClientMoves
  <2> QED BY <1>0, <1>1, <1>8, <1>9, <2>1 DEF PostingTypeOK
<1>11. CallsAreCoherent'
  <2>1. \A d \in Clients \ {c} : /\ Creating(d)' = Creating(d) /\ Editing(d)' = Editing(d)
                                 /\ Deleting(d)' = Deleting(d)
                                 /\ \A st : On(d, st)' = On(d, st)
    BY <1>7 DEF Creating, Editing, Deleting, On
  <2>2. /\ Creating(c)' => op = "create"
        /\ Editing(c)' => op = "edit"
        /\ Deleting(c)' => op = "delete"
        /\ ~(On(c, "bind")') /\ ~(On(c, "overwrite")') /\ (On(c, "lookup")' => key \in Keys)
    BY <1>2, <1>5, <1>7 DEF Creating, Editing, Deleting, On
  <2> QED BY <1>0, <1>4, <1>5, <1>7, <2>1, <2>2 DEF CallsAreCoherent
<1>12. IdsAreFresh'
  <2>1. \A d \in Clients \ {c} : /\ Serving(d)' = Serving(d) /\ Unborn(d)' = Unborn(d)
                                 /\ \A st : On(d, st)' = On(d, st)
                                 /\ Serving(d) => client[d].id \in 1..requests /\ client[d].post <= requests
    BY <1>0, <1>7 DEF Serving, Unborn, On, IdsAreFresh
  <2>2. posts \subseteq 1..n /\ \A q \in Ids : wasLive[q] \subseteq 1..n /\ n \notin wasLive[q]
    BY <1>0, <1>1 DEF IdsAreFresh
  <2>3. n \notin posts /\ \A k \in Keys : made[k] \subseteq 1..n /\ n \notin made[k]
    BY <1>0, <1>1 DEF IdsAreFresh
  <2>4. \A d \in Clients : Serving(d) => client[d].id \in Nat /\ client[d].post \in Nat
    <3> SUFFICES ASSUME NEW d \in Clients, Serving(d) PROVE client[d].id \in Nat /\ client[d].post \in Nat
      OBVIOUS
    <3>1. client[d] \in Request
      BY <1>0, ClientKinds DEF Serving
    <3> QED BY <3>1 DEF Request, Ids, NoPost
  <2>5. \A d \in Clients : Serving(d)' => client'[d].id \in 1..n /\ client'[d].post <= n
    BY <1>1, <1>4, <1>5, <1>7, <2>1, <2>4
  <2>6. \A d, e \in Clients : d # e /\ Serving(d)' /\ Serving(e)' => client'[d].id # client'[e].id
    BY <1>0, <1>1, <1>5, <1>7, <2>1 DEF IdsAreFresh
  <2>7. \A d \in Clients : Unborn(d)' \/ On(d, "archive")' \/ On(d, "overwrite")' =>
          \A q \in Ids : client'[d].id \notin wasLive[q]
    BY <1>0, <1>5, <1>7, <2>1, <2>2 DEF IdsAreFresh
  <2>8. \A d \in Clients : Unborn(d)' =>
          client'[d].id \notin posts /\ \A k \in Keys : client'[d].id \notin made[k]
    BY <1>0, <1>5, <1>7, <2>1, <2>3 DEF IdsAreFresh
  <2>9. \A d, e \in Clients : Unborn(d)' /\ Serving(e)' => client'[e].post # client'[d].id
    <3>1. Unborn(c)' => op = "create" /\ p = NoPost
      BY <1>2, <1>5, <1>7 DEF Unborn, On
    <3>2. \A e \in Clients \ {c} : Serving(e)' => client'[e].post # n
      BY <1>1, <1>7, <2>1, <2>4
    <3>3. \A d \in Clients \ {c} : Unborn(d)' => client'[d].id # p
      <4>1. \A d \in Clients \ {c} : Unborn(d)' => Unborn(d) /\ Serving(d) /\ client'[d].id = client[d].id
        BY <1>7, <2>1 DEF Unborn, On, Serving
      <4>2. \A d \in Clients : Unborn(d) /\ Serving(d) => client[d].id # p
        BY <1>0, <1>1, <2>1, <2>4 DEF IdsAreFresh, NoPost
      <4> QED BY <4>1, <4>2
    <3>4. n # p
      BY <1>1, <1>4
    <3>5. \A d, e \in Clients \ {c} : Unborn(d)' /\ Serving(e)' => client'[e].post # client'[d].id
      BY <1>0, <1>7, <2>1 DEF IdsAreFresh
    <3> QED BY <1>5, <1>7, <3>2, <3>3, <3>4, <3>5
  <2> QED BY <1>0, <1>1, <2>2, <2>3, <2>5, <2>6, <2>7, <2>8, <2>9 DEF IdsAreFresh
<1>13. KeysAreHeld'
  <2> SUFFICES ASSUME NEW k \in Keys, k \notin unsure'
               PROVE  /\ \A d, e \in Clients : HoldsKey(d, k)' /\ HoldsKey(e, k)' => d = e
                      /\ \A d \in Clients : HoldsKey(d, k)' /\ ~On(d, "lookup")' => bound[k] = NoPost
                      /\ \A q \in made[k] \cap posts :
                           \/ bound[k] = q
                           \/ \E d \in Clients : HoldsKey(d, k)' /\ ~Unborn(d)' /\ client'[d].id = q
    BY <1>0 DEF KeysAreHeld
  <2>0. k \in Keys \ unsure
    BY <1>8
  <2>1. \A d \in Clients \ {c} : /\ HoldsKey(d, k)' <=> HoldsKey(d, k)
                                 /\ \A st : On(d, st)' = On(d, st)
                                 /\ Unborn(d)' = Unborn(d) /\ client'[d] = client[d]
    BY <1>7 DEF HoldsKey, Creating, On, Unborn
  <2>2. ~HoldsKey(c, k)
    BY <1>0 DEF HoldsKey, Creating, Serving
  <2>3. HoldsKey(c, k)' => k = key /\ op = "create" /\ On(c, "lookup")'
    BY <1>2, <1>5, <1>7, PostingAssumption DEF HoldsKey, Creating, On
  <2>4. HoldsKey(c, k)' => \A d \in Clients : ~HoldsKey(d, k)
    BY <1>8, <2>3 DEF HoldsKey, Creating, Serving
  <2>5. \A d, e \in Clients : HoldsKey(d, k)' /\ HoldsKey(e, k)' => d = e
    BY <1>0, <2>0, <2>1, <2>4 DEF KeysAreHeld
  <2>6. \A d \in Clients : HoldsKey(d, k)' /\ ~On(d, "lookup")' => bound[k] = NoPost
    <3> SUFFICES ASSUME NEW d \in Clients, HoldsKey(d, k)', ~(On(d, "lookup")') PROVE bound[k] = NoPost
      OBVIOUS
    <3>1. d # c /\ HoldsKey(d, k) /\ ~On(d, "lookup")
      BY <2>1, <2>3
    <3> QED BY <1>0, <2>0, <3>1 DEF KeysAreHeld
  <2>7. \A d \in Clients : HoldsKey(d, k) /\ ~Unborn(d) => HoldsKey(d, k)' /\ ~(Unborn(d)') /\ client'[d].id = client[d].id
    <3> SUFFICES ASSUME NEW d \in Clients, HoldsKey(d, k), ~Unborn(d)
                 PROVE  HoldsKey(d, k)' /\ ~(Unborn(d)') /\ client'[d].id = client[d].id
      OBVIOUS
    <3>1. d # c
      BY <2>2
    <3> QED BY <2>1, <3>1
  <2> QED BY <1>0, <2>0, <2>5, <2>6, <2>7 DEF KeysAreHeld
<1>14. RowsAreFilled'
  BY <1>0 DEF RowsAreFilled
<1>15. EditsAreWhole'
  <2> SUFFICES ASSUME NEW q \in posts, q \notin mixed'
               PROVE  /\ \A d, e \in Clients : Editing(d)' /\ Editing(e)' /\ client'[d].post = q /\ client'[e].post = q
                                               => d = e
                      /\ wasLive[q] = archive[q] \cup {text[q]}
                      /\ text[q] \notin archive[q]
                      /\ \A d \in Clients : On(d, "overwrite")' /\ client'[d].post = q => client'[d].saw = text[q]
                      /\ \A d \in Clients : On(d, "replace")' /\ client'[d].post = q => client'[d].id = text[q]
                      /\ (\A d \in Clients : On(d, "replace")' => client'[d].post # q) => media[q] = text[q]
    BY <1>0 DEF EditsAreWhole
  <2>0. q \in posts \ mixed
    BY <1>9
  <2>1. \A d \in Clients \ {c} : /\ Editing(d)' = Editing(d) /\ client'[d] = client[d]
                                 /\ \A st : On(d, st)' = On(d, st)
    BY <1>7 DEF Editing, On
  <2>2. /\ ~(On(c, "overwrite")') /\ ~(On(c, "replace")') /\ ~On(c, "replace")
        /\ Editing(c)' => op = "edit"
    BY <1>0, <1>2, <1>5, <1>7 DEF Editing, On, Serving
  <2>3. Editing(c)' /\ client'[c].post = q => \A d \in Clients \ {c} : ~(Editing(d)' /\ client'[d].post = q)
    BY <1>5, <1>7, <1>9, <2>1, <2>2
  <2> QED BY <1>0, <2>0, <2>1, <2>2, <2>3 DEF EditsAreWhole
<1> QED BY <1>10, <1>11, <1>12, <1>13, <1>14, <1>15 DEF PostingSound

-----------------------------------------------------------------------------
(* Steps that write                                                        *)

(* What a request that goes on within its operation leaves as it was.      *)
LEMMA OperationGoesOn ==
  ASSUME PostingSound, NEW c \in Clients, client[c] \in Request,
         NEW step \in {"announce", "replace", "refetch", "tell"}, Proceed(c, step),
         step = "announce" => Creating(c), step \in {"replace", "refetch"} => Editing(c),
         step = "tell" => Deleting(c)
  PROVE  /\ client' \in [Clients -> Request \cup {Waiting}]
         /\ CallsAreCoherent'
         /\ client'[c].step = step
         /\ \A d \in Clients \ {c} : client'[d] = client[d]
         /\ \A d \in Clients :
              /\ Serving(d)' = Serving(d) /\ Creating(d)' = Creating(d) /\ Editing(d)' = Editing(d)
              /\ Serving(d) => /\ client'[d].key = client[d].key /\ client'[d].id = client[d].id
                               /\ client'[d].post = client[d].post /\ client'[d].op = client[d].op
         /\ \A d \in Clients : d # c => Unborn(d)' = Unborn(d) /\ \A st : On(d, st)' = On(d, st)
<1>0. PostingTypeOK /\ CallsAreCoherent
  BY DEF PostingSound
<1>1. step \in {"lookup", "create", "announce", "bind", "archive", "overwrite", "replace", "refetch", "delete", "tell"}
  OBVIOUS
<1>2. PICK r \in Request :
        /\ client' = [client EXCEPT ![c] = r]
        /\ r.step = step /\ r.op = client[c].op /\ r.key = client[c].key /\ r.id = client[c].id
        /\ r.post = client[c].post
  BY <1>0, <1>1, ClientGoesOn
<1>3. /\ client' \in [Clients -> Request \cup {Waiting}]
      /\ client'[c] = r /\ \A d \in Clients \ {c} : client'[d] = client[d]
  BY <1>0, <1>2, ClientMoves
<1>4. /\ Serving(c)' /\ Serving(c) /\ (Creating(c)' <=> Creating(c)) /\ (Editing(c)' <=> Editing(c))
      /\ Deleting(c)' <=> Deleting(c)
  BY <1>0, <1>2, <1>3, ClientKinds DEF Serving, Creating, Editing, Deleting
<1>5. \A d \in Clients \ {c} :
        /\ Serving(d)' = Serving(d) /\ Creating(d)' = Creating(d) /\ Editing(d)' = Editing(d)
        /\ Deleting(d)' = Deleting(d) /\ Unborn(d)' = Unborn(d) /\ \A st : On(d, st)' = On(d, st)
  BY <1>3 DEF Serving, Creating, Editing, Deleting, Unborn, On
<1>6. ~(On(c, "lookup")') /\ ~(On(c, "bind")') /\ ~(On(c, "overwrite")')
  BY <1>2, <1>3 DEF On
<1>7. CallsAreCoherent'
  BY <1>0, <1>2, <1>3, <1>4, <1>5, <1>6 DEF CallsAreCoherent
<1>8. \A d \in Clients :
        /\ Serving(d)' = Serving(d) /\ Creating(d)' = Creating(d) /\ Editing(d)' = Editing(d)
        /\ Serving(d) => /\ client'[d].key = client[d].key /\ client'[d].id = client[d].id
                         /\ client'[d].post = client[d].post /\ client'[d].op = client[d].op
  <2>1. Serving(c)' = Serving(c) /\ Creating(c)' = Creating(c) /\ Editing(c)' = Editing(c)
    BY <1>4 DEF Serving, Creating, Editing
  <2> QED BY <1>2, <1>3, <1>5, <2>1
<1> QED BY <1>2, <1>3, <1>5, <1>7, <1>8

LEMMA CreatePostKeeps ==
  ASSUME PostingSound, NEW c \in Clients, Create(c)
  PROVE  PostingSound'
<1> DEFINE p == client[c].id
<1>0. /\ PostingTypeOK /\ CallsAreCoherent /\ IdsAreFresh /\ KeysAreHeld /\ RowsAreFilled /\ EditsAreWhole
      /\ On(c, "create") /\ Proceed(c, "announce")
      /\ UNCHANGED <<archive, bound, requests, breaks, unsure, mixed>>
  BY DEF PostingSound, Create
<1>1. client[c] \in Request /\ Creating(c) /\ Unborn(c) /\ Serving(c)
  BY <1>0, ClientKinds DEF On, Creating, Unborn, Serving
<1>2. /\ client' \in [Clients -> Request \cup {Waiting}]
      /\ CallsAreCoherent'
      /\ client'[c].step = "announce"
      /\ \A d \in Clients \ {c} : client'[d] = client[d]
      /\ \A d \in Clients :
           /\ Serving(d)' = Serving(d) /\ Creating(d)' = Creating(d) /\ Editing(d)' = Editing(d)
           /\ Serving(d) => /\ client'[d].key = client[d].key /\ client'[d].id = client[d].id
                            /\ client'[d].post = client[d].post /\ client'[d].op = client[d].op
      /\ \A d \in Clients : d # c => Unborn(d)' = Unborn(d) /\ \A st : On(d, st)' = On(d, st)
  BY <1>0, <1>1, OperationGoesOn
<1>3. /\ p \in Ids /\ p \in 1..requests /\ p \notin posts /\ \A k \in Keys : p \notin made[k]
      /\ \A d \in Clients : Serving(d) => client[d].post # p
      /\ \A d \in Clients \ {c} : Serving(d) => client[d].id # p
  BY <1>0, <1>1 DEF IdsAreFresh, Request
<1>4. /\ posts' = posts \cup {p} /\ text' = [text EXCEPT ![p] = p] /\ media' = [media EXCEPT ![p] = p]
      /\ wasLive' = [wasLive EXCEPT ![p] = {p}]
      /\ made' = [k \in Keys |-> IF k = client[c].key THEN made[k] \cup {p} ELSE made[k]]
  BY DEF Create
<1> HIDE DEF p
<1>5. PostingTypeOK'
  BY <1>0, <1>2, <1>3, <1>4 DEF PostingTypeOK
<1>6. ~(Unborn(c)') /\ ~(On(c, "archive")') /\ ~(On(c, "overwrite")') /\ ~(On(c, "replace")')
  BY <1>2 DEF Unborn, On
<1>7. IdsAreFresh'
  <2>1. \A q \in Ids : wasLive'[q] = IF q = p THEN {p} ELSE wasLive[q]
    BY <1>0, <1>4 DEF PostingTypeOK
  <2>2. \A k \in Keys : made'[k] \subseteq made[k] \cup {p}
    BY <1>4
  <2>3. \A d \in Clients : Unborn(d)' \/ On(d, "archive")' \/ On(d, "overwrite")' =>
          /\ d # c /\ Serving(d) /\ client'[d] = client[d] /\ (Unborn(d)' => Unborn(d))
          /\ Unborn(d) \/ On(d, "archive") \/ On(d, "overwrite")
    BY <1>2, <1>6 DEF Unborn, On, Serving
  <2>4. /\ posts' \subseteq 1..requests
        /\ \A q \in Ids : wasLive'[q] \subseteq 1..requests
        /\ \A k \in Keys : made'[k] \subseteq 1..requests
    BY <1>0, <1>3, <1>4, <2>1, <2>2 DEF IdsAreFresh
  <2>5. \A d \in Clients : Serving(d)' => client'[d].id \in 1..requests /\ client'[d].post <= requests
    BY <1>0, <1>2 DEF IdsAreFresh
  <2>6. \A d, e \in Clients : d # e /\ Serving(d)' /\ Serving(e)' => client'[d].id # client'[e].id
    BY <1>0, <1>2 DEF IdsAreFresh
  <2>7. \A d \in Clients : Unborn(d)' \/ On(d, "archive")' \/ On(d, "overwrite")' =>
          \A q \in Ids : client'[d].id \notin wasLive'[q]
    BY <1>0, <1>3, <2>1, <2>3 DEF IdsAreFresh
  <2>8. \A d \in Clients : Unborn(d)' =>
          /\ client'[d].id \notin posts' /\ \A k \in Keys : client'[d].id \notin made'[k]
          /\ \A e \in Clients : Serving(e)' => client'[e].post # client'[d].id
    <3> SUFFICES ASSUME NEW d \in Clients, Unborn(d)'
                 PROVE  /\ client'[d].id \notin posts' /\ \A k \in Keys : client'[d].id \notin made'[k]
                        /\ \A e \in Clients : Serving(e)' => client'[e].post # client'[d].id
      OBVIOUS
    <3>1. d # c /\ Serving(d) /\ client'[d] = client[d] /\ Unborn(d)
      BY <2>3
    <3>2. client[d].id # p
      BY <1>3, <3>1
    <3>3. \A e \in Clients : Serving(e)' => Serving(e) /\ client'[e].post = client[e].post
      BY <1>2
    <3> QED BY <1>0, <1>4, <2>2, <3>1, <3>2, <3>3 DEF IdsAreFresh
  <2> QED BY <1>0, <2>4, <2>5, <2>6, <2>7, <2>8 DEF IdsAreFresh
<1>8. KeysAreHeld'
  <2> SUFFICES ASSUME NEW k \in Keys, k \notin unsure
               PROVE  /\ \A d, e \in Clients : HoldsKey(d, k)' /\ HoldsKey(e, k)' => d = e
                      /\ \A d \in Clients : HoldsKey(d, k)' /\ ~(On(d, "lookup")') => bound[k] = NoPost
                      /\ \A q \in made'[k] \cap posts' :
                           \/ bound[k] = q
                           \/ \E d \in Clients : HoldsKey(d, k)' /\ ~(Unborn(d)') /\ client'[d].id = q
    BY <1>0 DEF KeysAreHeld
  <2>1. \A d \in Clients : HoldsKey(d, k)' <=> HoldsKey(d, k)
    BY <1>2 DEF HoldsKey, Creating, Serving
  <2>2. \A d \in Clients : HoldsKey(d, k)' /\ ~(On(d, "lookup")') => HoldsKey(d, k) /\ ~On(d, "lookup")
    BY <1>0, <1>2, <2>1 DEF On
  <2>3. \A d \in Clients : HoldsKey(d, k) /\ ~Unborn(d) => HoldsKey(d, k)' /\ ~(Unborn(d)') /\ client'[d].id = client[d].id
    BY <1>1, <1>2, <2>1 DEF HoldsKey
  <2>4. \A q \in made'[k] \cap posts' :
          q \in made[k] \cap posts \/ (q = p /\ HoldsKey(c, k)' /\ ~(Unborn(c)') /\ client'[c].id = q)
    <3>1. HoldsKey(c, k)' <=> k = client[c].key
      BY <1>1, <2>1 DEF HoldsKey
    <3>2. client'[c].id = p
      BY <1>1, <1>2 DEF p
    <3> QED BY <1>3, <1>4, <1>6, <3>1, <3>2
  <2> QED BY <1>0, <2>1, <2>2, <2>3, <2>4 DEF KeysAreHeld
<1>9. RowsAreFilled'
  BY <1>0, <1>3, <1>4 DEF RowsAreFilled, PostingTypeOK
<1>10. EditsAreWhole'
  <2> SUFFICES ASSUME NEW q \in posts', q \notin mixed
               PROVE  /\ \A d, e \in Clients : Editing(d)' /\ Editing(e)' /\ client'[d].post = q /\ client'[e].post = q
                                               => d = e
                      /\ wasLive'[q] = archive[q] \cup {text'[q]}
                      /\ text'[q] \notin archive[q]
                      /\ \A d \in Clients : On(d, "overwrite")' /\ client'[d].post = q => client'[d].saw = text'[q]
                      /\ \A d \in Clients : On(d, "replace")' /\ client'[d].post = q => client'[d].id = text'[q]
                      /\ (\A d \in Clients : On(d, "replace")' => client'[d].post # q) => media'[q] = text'[q]
    BY <1>0 DEF EditsAreWhole
  <2>1. \A d \in Clients : /\ Editing(d)' => Editing(d) /\ Serving(d) /\ client'[d].post = client[d].post
                           /\ On(d, "overwrite")' \/ On(d, "replace")' => Editing(d)'
                           /\ On(d, "overwrite")' => d # c /\ On(d, "overwrite")
                           /\ On(d, "replace")' => d # c /\ On(d, "replace")
                           /\ On(d, "replace") => On(d, "replace")'
                           /\ d # c => client'[d] = client[d]
    BY <1>0, <1>2, <1>6 DEF Editing, Serving, On
  <2>2. CASE q = p
    <3>1. archive[p] = {}
      BY <1>0, <1>3 DEF RowsAreFilled
    <3>2. wasLive'[p] = {p} /\ text'[p] = p /\ media'[p] = p
      BY <1>0, <1>3, <1>4 DEF PostingTypeOK
    <3>3. \A d \in Clients : Editing(d)' => client'[d].post # p
      BY <1>3, <2>1
    <3> QED BY <2>1, <2>2, <3>1, <3>2, <3>3
  <2>3. CASE q # p
    <3>1. q \in posts \ mixed /\ q \in Ids
      BY <1>0, <1>4, <2>3 DEF PostingTypeOK
    <3>2. wasLive'[q] = wasLive[q] /\ text'[q] = text[q] /\ media'[q] = media[q]
      BY <1>0, <1>4, <2>3, <3>1 DEF PostingTypeOK
    <3>3. \A d, e \in Clients : Editing(d)' /\ Editing(e)' /\ client'[d].post = q /\ client'[e].post = q => d = e
      BY <1>0, <2>1, <3>1 DEF EditsAreWhole
    <3>4. (\A d \in Clients : On(d, "replace")' => client'[d].post # q) => media'[q] = text'[q]
      <4>1. \A d \in Clients : On(d, "replace") => On(d, "replace")' /\ client'[d].post = client[d].post
        BY <2>1
      <4> QED BY <1>0, <3>1, <3>2, <4>1 DEF EditsAreWhole
    <3> QED BY <1>0, <2>1, <3>1, <3>2, <3>3, <3>4 DEF EditsAreWhole
  <2> QED BY <2>2, <2>3
<1> QED BY <1>2, <1>5, <1>7, <1>8, <1>9, <1>10 DEF PostingSound

(* The key is bound while its only request still holds it.                 *)
LEMMA BindKeeps ==
  ASSUME PostingSound, NEW c \in Clients, Bind(c)
  PROVE  PostingSound'
<1> DEFINE p == client[c].id
           key == client[c].key
<1>0. /\ PostingTypeOK /\ CallsAreCoherent /\ IdsAreFresh /\ KeysAreHeld /\ RowsAreFilled /\ EditsAreWhole
      /\ On(c, "bind") /\ client' = [client EXCEPT ![c] = Waiting]
      /\ UNCHANGED <<posts, text, media, archive, requests, breaks, made, wasLive, unsure, mixed>>
  BY DEF PostingSound, Bind, Respond, postingHistory
<1>1. client[c] \in Request /\ Creating(c) /\ ~Unborn(c) /\ Serving(c) /\ key \in Keys /\ HoldsKey(c, key) /\ p \in Ids
  <2>1. client[c] \in Request
    BY <1>0, ClientKinds DEF On
  <2> QED BY <1>0, <2>1 DEF On, Creating, Unborn, Serving, CallsAreCoherent, HoldsKey, Request
<1>2. client'[c].step = "waiting" /\ \A d \in Clients \ {c} : client'[d] = client[d]
  BY <1>0 DEF PostingTypeOK, Waiting
<1>3. /\ bound' \in [Keys -> Ids \cup {NoPost}]
      /\ \A k \in Keys \ {key} : bound'[k] = bound[k]
      /\ bound'[key] = IF bound[key] = NoPost /\ p \in posts THEN p ELSE bound[key]
  BY <1>0, <1>1 DEF Bind, PostingTypeOK
<1>4. PostingTypeOK'
  BY <1>0, <1>3 DEF PostingTypeOK
<1>5. \A d \in Clients : Serving(d)' => d # c
  BY <1>2 DEF Serving
<1>6. \A d \in Clients : /\ Creating(d)' \/ Editing(d)' \/ Deleting(d)' \/ Unborn(d)' => Serving(d)'
                         /\ \A st \in {"lookup", "bind", "archive", "overwrite", "replace"} : On(d, st)' => Serving(d)'
  BY DEF Serving, Creating, Editing, Deleting, Unborn, On
<1>7. \A d \in Clients \ {c} :
        /\ client'[d] = client[d] /\ Serving(d)' = Serving(d) /\ Creating(d)' = Creating(d)
        /\ Editing(d)' = Editing(d) /\ Deleting(d)' = Deleting(d) /\ Unborn(d)' = Unborn(d)
        /\ \A st : On(d, st)' = On(d, st)
  BY <1>2 DEF Serving, Creating, Editing, Deleting, Unborn, On
<1>8. CallsAreCoherent' /\ IdsAreFresh'
  BY <1>0, <1>5, <1>6, <1>7 DEF CallsAreCoherent, IdsAreFresh
<1>9. RowsAreFilled'
  BY <1>0 DEF RowsAreFilled
<1>10. EditsAreWhole'
  <2>1. ~On(c, "replace")
    BY <1>0 DEF On
  <2> QED BY <1>0, <1>5, <1>6, <1>7, <2>1 DEF EditsAreWhole
<1>11. KeysAreHeld'
  <2> SUFFICES ASSUME NEW k \in Keys, k \notin unsure
               PROVE  /\ \A d, e \in Clients : HoldsKey(d, k)' /\ HoldsKey(e, k)' => d = e
                      /\ \A d \in Clients : HoldsKey(d, k)' /\ ~(On(d, "lookup")') => bound'[k] = NoPost
                      /\ \A q \in made[k] \cap posts :
                           \/ bound'[k] = q
                           \/ \E d \in Clients : HoldsKey(d, k)' /\ ~(Unborn(d)') /\ client'[d].id = q
    BY <1>0 DEF KeysAreHeld
  <2>1. \A d \in Clients : HoldsKey(d, k)' => d # c /\ HoldsKey(d, k)
    BY <1>5, <1>6, <1>7 DEF HoldsKey
  <2>2. CASE k = key
    <3>1. \A d \in Clients : ~(HoldsKey(d, k)')
      BY <1>0, <1>1, <2>1, <2>2 DEF KeysAreHeld
    <3>2. bound[k] = NoPost
      BY <1>0, <1>1, <2>2 DEF KeysAreHeld, Unborn
    <3>3. \A q \in made[k] \cap posts : q = p
      <4>1. \A q \in posts : q # NoPost
        BY <1>0 DEF PostingTypeOK, Ids, NoPost
      <4> QED BY <1>0, <1>1, <2>2, <3>2, <4>1 DEF KeysAreHeld
    <3> QED BY <1>3, <2>2, <3>1, <3>2, <3>3
  <2>3. CASE k # key
    <3>1. bound'[k] = bound[k]
      BY <1>3, <2>3
    <3>2. ~HoldsKey(c, k)
      BY <2>3 DEF HoldsKey
    <3>3. \A d \in Clients : HoldsKey(d, k) /\ ~Unborn(d) => HoldsKey(d, k)' /\ ~(Unborn(d)') /\ client'[d].id = client[d].id
      BY <1>7, <3>2 DEF HoldsKey
    <3>4. \A d \in Clients : HoldsKey(d, k)' /\ ~(On(d, "lookup")') => HoldsKey(d, k) /\ ~On(d, "lookup")
      BY <1>7, <2>1
    <3> QED BY <1>0, <2>1, <3>1, <3>3, <3>4 DEF KeysAreHeld
  <2> QED BY <2>2, <2>3
<1> QED BY <1>0, <1>4, <1>8, <1>9, <1>10, <1>11 DEF PostingSound

(* Posts and keys do not depend on how far an edit is.                     *)
LEMMA EditKeepsKeys ==
  ASSUME PostingSound, NEW c \in Clients, client[c] \in Request, Editing(c),
         NEW step \in {"replace", "refetch"}, Proceed(c, step),
         UNCHANGED <<posts, bound, made, unsure>>
  PROVE  KeysAreHeld'
<1>1. /\ \A d \in Clients \ {c} : client'[d] = client[d]
      /\ \A d \in Clients : Creating(d)' = Creating(d)
      /\ \A d \in Clients : d # c => Unborn(d)' = Unborn(d) /\ \A st : On(d, st)' = On(d, st)
  BY OperationGoesOn
<1>2. ~Creating(c)
  BY DEF Creating, Editing
<1>3. \A d \in Clients : Creating(d) => d # c
  BY <1>2
<1>4. \A k \in Keys : \A d \in Clients : HoldsKey(d, k)' <=> HoldsKey(d, k)
  BY <1>1, <1>3 DEF HoldsKey
<1>5. \A k \in Keys : \A d \in Clients : HoldsKey(d, k) =>
        Unborn(d)' = Unborn(d) /\ client'[d] = client[d] /\ On(d, "lookup")' = On(d, "lookup")
  BY <1>1, <1>3 DEF HoldsKey
<1> QED BY <1>4, <1>5 DEF PostingSound, KeysAreHeld

LEMMA ApplyEditKeeps ==
  ASSUME PostingSound, NEW c \in Clients, ApplyEdit(c)
  PROVE  PostingSound'
<1> DEFINE p == client[c].post
           n == client[c].id
<1>0. /\ PostingTypeOK /\ CallsAreCoherent /\ IdsAreFresh /\ KeysAreHeld /\ RowsAreFilled /\ EditsAreWhole
      /\ On(c, "overwrite")
      /\ UNCHANGED <<posts, media, bound, requests, breaks, made, unsure, mixed>>
  BY DEF PostingSound, ApplyEdit
<1>1. client[c] \in Request /\ Editing(c) /\ Serving(c)
  BY <1>0, ClientKinds DEF On, Editing, Serving
<1>2. CASE Respond(c) /\ UNCHANGED <<archive, text, wasLive>>
  BY <1>0, <1>1, <1>2, RespondTyped, OnlyResponds DEF On, tables, postingHistory
<1>3. CASE /\ p \in posts
           /\ archive' = [archive EXCEPT ![p] = @ \cup {client[c].saw}]
           /\ text' = [text EXCEPT ![p] = n]
           /\ wasLive' = [wasLive EXCEPT ![p] = @ \cup {n}]
           /\ Proceed(c, "replace")
  <2>1. /\ client' \in [Clients -> Request \cup {Waiting}]
        /\ CallsAreCoherent'
        /\ client'[c].step = "replace"
        /\ \A d \in Clients \ {c} : client'[d] = client[d]
        /\ \A d \in Clients :
             /\ Serving(d)' = Serving(d) /\ Creating(d)' = Creating(d) /\ Editing(d)' = Editing(d)
             /\ Serving(d) => /\ client'[d].key = client[d].key /\ client'[d].id = client[d].id
                              /\ client'[d].post = client[d].post /\ client'[d].op = client[d].op
        /\ \A d \in Clients : d # c => Unborn(d)' = Unborn(d) /\ \A st : On(d, st)' = On(d, st)
    BY <1>1, <1>3, OperationGoesOn
  <2>2. /\ p \in Ids /\ n \in Ids /\ n \in 1..requests /\ client[c].saw \in Ids
        /\ \A q \in Ids : n \notin wasLive[q]
        /\ \A d \in Clients \ {c} : Serving(d) => client[d].id # n
    BY <1>0, <1>1, <1>3 DEF IdsAreFresh, CallsAreCoherent, Request, PostingTypeOK
  <2> DEFINE saw == client[c].saw
  <2>3. /\ archive' = [archive EXCEPT ![p] = @ \cup {saw}] /\ text' = [text EXCEPT ![p] = n]
        /\ wasLive' = [wasLive EXCEPT ![p] = @ \cup {n}] /\ p \in posts
    BY <1>3
  <2>4. client'[c].id = n /\ client'[c].post = p
    BY <1>1, <2>1
  <2>5. p \notin mixed => saw = text[p]
    BY <1>0, <1>3 DEF EditsAreWhole
  <2>6. p \notin mixed => \A d \in Clients \ {c} : Editing(d) => client[d].post # p
    BY <1>0, <1>1, <1>3 DEF EditsAreWhole
  <2> HIDE DEF p, n, saw
  <2>7. /\ \A q \in Ids : wasLive'[q] = IF q = p THEN wasLive[p] \cup {n} ELSE wasLive[q]
        /\ \A q \in Ids : archive'[q] = IF q = p THEN archive[p] \cup {saw} ELSE archive[q]
        /\ \A q \in Ids : text'[q] = IF q = p THEN n ELSE text[q]
    BY <1>0, <2>3 DEF PostingTypeOK
  <2>8. PostingTypeOK'
    BY <1>0, <2>1, <2>2, <2>3 DEF PostingTypeOK, saw
  <2>9. ~(Unborn(c)') /\ ~(On(c, "archive")') /\ ~(On(c, "overwrite")') /\ ~Unborn(c)
    BY <1>0, <2>1 DEF Unborn, On
  <2>10. IdsAreFresh'
    <3>1. \A d \in Clients : Unborn(d)' \/ On(d, "archive")' \/ On(d, "overwrite")' =>
            /\ d # c /\ Serving(d) /\ client'[d] = client[d] /\ (Unborn(d)' => Unborn(d))
            /\ Unborn(d) \/ On(d, "archive") \/ On(d, "overwrite")
      BY <2>1, <2>9 DEF Unborn, On, Serving
    <3>2. \A q \in Ids : wasLive'[q] \subseteq 1..requests
      BY <1>0, <2>2, <2>7 DEF IdsAreFresh
    <3>3. \A d \in Clients : Serving(d)' => client'[d].id \in 1..requests /\ client'[d].post <= requests
      BY <1>0, <2>1 DEF IdsAreFresh
    <3>4. \A d, e \in Clients : d # e /\ Serving(d)' /\ Serving(e)' => client'[d].id # client'[e].id
      BY <1>0, <2>1 DEF IdsAreFresh
    <3>5. \A d \in Clients : Unborn(d)' \/ On(d, "archive")' \/ On(d, "overwrite")' =>
            \A q \in Ids : client'[d].id \notin wasLive'[q]
      BY <1>0, <2>2, <2>7, <3>1 DEF IdsAreFresh
    <3>6. \A d \in Clients : Unborn(d)' =>
            /\ client'[d].id \notin posts /\ \A k \in Keys : client'[d].id \notin made[k]
            /\ \A e \in Clients : Serving(e)' => client'[e].post # client'[d].id
      BY <1>0, <2>1, <3>1 DEF IdsAreFresh
    <3> QED BY <1>0, <3>2, <3>3, <3>4, <3>5, <3>6 DEF IdsAreFresh
  <2>11. KeysAreHeld'
    BY <1>0, <1>1, <1>3, EditKeepsKeys
  <2>12. RowsAreFilled'
    BY <1>0, <2>2, <2>3, <2>7 DEF RowsAreFilled
  <2>13. EditsAreWhole'
    <3> SUFFICES ASSUME NEW q \in posts, q \notin mixed
                 PROVE  /\ \A d, e \in Clients : Editing(d)' /\ Editing(e)' /\ client'[d].post = q
                                                 /\ client'[e].post = q => d = e
                        /\ wasLive'[q] = archive'[q] \cup {text'[q]}
                        /\ text'[q] \notin archive'[q]
                        /\ \A d \in Clients : On(d, "overwrite")' /\ client'[d].post = q => client'[d].saw = text'[q]
                        /\ \A d \in Clients : On(d, "replace")' /\ client'[d].post = q => client'[d].id = text'[q]
                        /\ (\A d \in Clients : On(d, "replace")' => client'[d].post # q) => media[q] = text'[q]
      BY <1>0 DEF EditsAreWhole
    <3>0. q \in posts \ mixed /\ q \in Ids
      BY <1>0 DEF PostingTypeOK
    <3>1. \A d, e \in Clients : Editing(d)' /\ Editing(e)' /\ client'[d].post = q /\ client'[e].post = q => d = e
      <4>1. \A d \in Clients : Editing(d)' => Editing(d) /\ client'[d].post = client[d].post
        BY <2>1 DEF Editing, Serving
      <4> QED BY <1>0, <3>0, <4>1 DEF EditsAreWhole
    <3>2. \A d \in Clients : /\ On(d, "overwrite")' \/ (On(d, "replace")' /\ d # c) => Editing(d)
                             /\ On(d, "overwrite")' => d # c
                             /\ d # c => client'[d] = client[d] /\ \A st : On(d, st)' = On(d, st)
      BY <2>1, <2>9 DEF Editing, On
    <3>3. CASE q = p
      <4>1. \A d \in Clients : On(d, "overwrite")' \/ (On(d, "replace")' /\ d # c) => client'[d].post # q
        BY <2>6, <3>2, <3>3
      <4>2. wasLive[q] = archive[q] \cup {text[q]} /\ text[q] \notin archive[q] /\ saw = text[q]
        BY <1>0, <2>5, <3>0, <3>3 DEF EditsAreWhole
      <4>3. wasLive'[q] = archive'[q] \cup {text'[q]} /\ text'[q] \notin archive'[q] /\ text'[q] = n
        BY <2>2, <2>7, <3>0, <3>3, <4>2
      <4>4. On(c, "replace")' /\ client'[c].post = q
        BY <2>1, <2>4, <3>3 DEF On
      <4> QED BY <2>4, <3>1, <4>1, <4>3, <4>4
    <3>4. CASE q # p
      <4>1. wasLive'[q] = wasLive[q] /\ archive'[q] = archive[q] /\ text'[q] = text[q]
        BY <2>7, <3>0, <3>4
      <4>2. ~(On(c, "replace")' /\ client'[c].post = q) /\ ~On(c, "replace")
        BY <1>0, <2>4, <3>4 DEF On
      <4>3. \A d \in Clients : On(d, "overwrite")' /\ client'[d].post = q => client'[d].saw = text[q]
        BY <1>0, <3>0, <3>2 DEF EditsAreWhole
      <4>4. \A d \in Clients : On(d, "replace")' /\ client'[d].post = q => client'[d].id = text[q]
        BY <1>0, <3>0, <3>2, <4>2 DEF EditsAreWhole
      <4>5. (\A d \in Clients : On(d, "replace")' => client'[d].post # q) => media[q] = text[q]
        BY <1>0, <3>0, <3>2, <4>2 DEF EditsAreWhole
      <4> QED BY <1>0, <3>0, <3>1, <4>1, <4>3, <4>4, <4>5 DEF EditsAreWhole
    <3> QED BY <3>3, <3>4
  <2> QED BY <2>1, <2>8, <2>10, <2>11, <2>12, <2>13 DEF PostingSound
<1> QED BY <1>2, <1>3 DEF ApplyEdit

LEMMA ReplaceMediaKeeps ==
  ASSUME PostingSound, NEW c \in Clients, ReplaceMedia(c)
  PROVE  PostingSound'
<1> DEFINE p == client[c].post
           n == client[c].id
<1>0. /\ PostingTypeOK /\ CallsAreCoherent /\ IdsAreFresh /\ KeysAreHeld /\ RowsAreFilled /\ EditsAreWhole
      /\ On(c, "replace")
      /\ UNCHANGED <<posts, text, archive, bound, requests, breaks, made, wasLive, unsure, mixed>>
  BY DEF PostingSound, ReplaceMedia, postingHistory
<1>1. client[c] \in Request /\ Editing(c) /\ Serving(c)
  BY <1>0, ClientKinds DEF On, Editing, Serving
<1>2. CASE p \notin posts /\ Respond(c) /\ UNCHANGED media
  BY <1>0, <1>1, <1>2, RespondTyped, OnlyResponds DEF On, tables, postingHistory
<1>3. CASE p \in posts /\ media' = [media EXCEPT ![p] = n] /\ Proceed(c, "refetch")
  <2>1. /\ client' \in [Clients -> Request \cup {Waiting}]
        /\ CallsAreCoherent'
        /\ client'[c].step = "refetch"
        /\ \A d \in Clients \ {c} : client'[d] = client[d]
        /\ \A d \in Clients :
             /\ Serving(d)' = Serving(d) /\ Creating(d)' = Creating(d) /\ Editing(d)' = Editing(d)
             /\ Serving(d) => /\ client'[d].key = client[d].key /\ client'[d].id = client[d].id
                              /\ client'[d].post = client[d].post /\ client'[d].op = client[d].op
        /\ \A d \in Clients : d # c => Unborn(d)' = Unborn(d) /\ \A st : On(d, st)' = On(d, st)
    BY <1>1, <1>3, OperationGoesOn
  <2>2. p \in Ids /\ n \in Ids
    BY <1>0, <1>1, <1>3 DEF Request, PostingTypeOK
  <2>3. p \notin mixed => n = text[p] /\ \A d \in Clients \ {c} : Editing(d) => client[d].post # p
    BY <1>0, <1>1, <1>3 DEF EditsAreWhole
  <2>4. \A q \in Ids : media'[q] = IF q = p THEN n ELSE media[q]
    BY <1>0, <1>3, <2>2 DEF PostingTypeOK
  <2>5. PostingTypeOK'
    BY <1>0, <1>3, <2>1, <2>2 DEF PostingTypeOK
  <2>6. /\ ~(Unborn(c)') /\ ~(On(c, "archive")') /\ ~(On(c, "overwrite")') /\ ~(On(c, "replace")') /\ ~Unborn(c)
    BY <1>0, <2>1 DEF Unborn, On
  <2>7. IdsAreFresh'
    <3>1. \A d \in Clients : Unborn(d)' \/ On(d, "archive")' \/ On(d, "overwrite")' =>
            /\ d # c /\ Serving(d) /\ client'[d] = client[d] /\ (Unborn(d)' => Unborn(d))
            /\ Unborn(d) \/ On(d, "archive") \/ On(d, "overwrite")
      BY <2>1, <2>6 DEF Unborn, On, Serving
    <3>2. \A d \in Clients : Serving(d)' => client'[d].id \in 1..requests /\ client'[d].post <= requests
      BY <1>0, <2>1 DEF IdsAreFresh
    <3>3. \A d, e \in Clients : d # e /\ Serving(d)' /\ Serving(e)' => client'[d].id # client'[e].id
      BY <1>0, <2>1 DEF IdsAreFresh
    <3>4. \A d \in Clients : Unborn(d)' =>
            /\ client'[d].id \notin posts /\ \A k \in Keys : client'[d].id \notin made[k]
            /\ \A e \in Clients : Serving(e)' => client'[e].post # client'[d].id
      BY <1>0, <2>1, <3>1 DEF IdsAreFresh
    <3> QED BY <1>0, <3>1, <3>2, <3>3, <3>4 DEF IdsAreFresh
  <2>8. KeysAreHeld'
    BY <1>0, <1>1, <1>3, EditKeepsKeys
  <2>9. RowsAreFilled'
    BY <1>0 DEF RowsAreFilled
  <2>10. EditsAreWhole'
    <3> SUFFICES ASSUME NEW q \in posts, q \notin mixed
                 PROVE  /\ \A d, e \in Clients : Editing(d)' /\ Editing(e)' /\ client'[d].post = q
                                                 /\ client'[e].post = q => d = e
                        /\ \A d \in Clients : On(d, "overwrite")' /\ client'[d].post = q => client'[d].saw = text[q]
                        /\ \A d \in Clients : On(d, "replace")' /\ client'[d].post = q => client'[d].id = text[q]
                        /\ (\A d \in Clients : On(d, "replace")' => client'[d].post # q) => media'[q] = text[q]
      BY <1>0 DEF EditsAreWhole
    <3>0. q \in posts \ mixed /\ q \in Ids
      BY <1>0 DEF PostingTypeOK
    <3>1. \A d, e \in Clients : Editing(d)' /\ Editing(e)' /\ client'[d].post = q /\ client'[e].post = q => d = e
      <4>1. \A d \in Clients : Editing(d)' => Editing(d) /\ client'[d].post = client[d].post
        BY <2>1 DEF Editing, Serving
      <4> QED BY <1>0, <3>0, <4>1 DEF EditsAreWhole
    <3>2. \A d \in Clients : /\ On(d, "overwrite")' \/ On(d, "replace")' => d # c
                             /\ d # c => client'[d] = client[d] /\ \A st : On(d, st)' = On(d, st)
      BY <2>1, <2>6
    <3>3. \A d \in Clients : On(d, "overwrite")' /\ client'[d].post = q => client'[d].saw = text[q]
      BY <1>0, <3>0, <3>2 DEF EditsAreWhole
    <3>4. \A d \in Clients : On(d, "replace")' /\ client'[d].post = q => client'[d].id = text[q]
      BY <1>0, <3>0, <3>2 DEF EditsAreWhole
    <3>5. CASE q = p
      <4>1. media'[q] = text[q]
        BY <2>3, <2>4, <3>0, <3>5
      <4> QED BY <3>1, <3>3, <3>4, <4>1
    <3>6. CASE q # p
      <4>1. media'[q] = media[q]
        BY <2>4, <3>0, <3>6
      <4>2. (\A d \in Clients : On(d, "replace")' => client'[d].post # q) => media[q] = text[q]
        BY <1>0, <3>0, <3>2, <3>6 DEF EditsAreWhole
      <4> QED BY <3>1, <3>3, <3>4, <4>1, <4>2
    <3> QED BY <3>5, <3>6
  <2> QED BY <2>1, <2>5, <2>7, <2>8, <2>9, <2>10 DEF PostingSound
<1> QED BY <1>2, <1>3 DEF ReplaceMedia

LEMMA DeleteKeeps ==
  ASSUME PostingSound, NEW c \in Clients, Delete(c)
  PROVE  PostingSound'
<1> DEFINE p == client[c].post
<1>0. /\ PostingTypeOK /\ CallsAreCoherent /\ IdsAreFresh /\ KeysAreHeld /\ RowsAreFilled /\ EditsAreWhole
      /\ On(c, "delete") /\ Proceed(c, "tell")
      /\ UNCHANGED <<requests, breaks, made, unsure, mixed>>
  BY DEF PostingSound, Delete
<1>1. client[c] \in Request /\ Deleting(c) /\ Serving(c) /\ p \in Ids
  BY <1>0, ClientKinds DEF On, Deleting, Serving, CallsAreCoherent
<1>2. /\ client' \in [Clients -> Request \cup {Waiting}]
      /\ CallsAreCoherent'
      /\ client'[c].step = "tell"
      /\ \A d \in Clients \ {c} : client'[d] = client[d]
      /\ \A d \in Clients :
           /\ Serving(d)' = Serving(d) /\ Creating(d)' = Creating(d) /\ Editing(d)' = Editing(d)
           /\ Serving(d) => /\ client'[d].key = client[d].key /\ client'[d].id = client[d].id
                            /\ client'[d].post = client[d].post /\ client'[d].op = client[d].op
      /\ \A d \in Clients : d # c => Unborn(d)' = Unborn(d) /\ \A st : On(d, st)' = On(d, st)
  BY <1>0, <1>1, OperationGoesOn
<1>3. /\ posts' = posts \ {p} /\ text' = [text EXCEPT ![p] = NoPost] /\ media' = [media EXCEPT ![p] = NoPost]
      /\ archive' = [archive EXCEPT ![p] = {}] /\ wasLive' = [wasLive EXCEPT ![p] = {}]
      /\ bound' = [k \in Keys |-> IF bound[k] = p THEN NoPost ELSE bound[k]]
  BY DEF Delete
<1> HIDE DEF p
<1>4. /\ \A q \in Ids \ {p} : /\ text'[q] = text[q] /\ media'[q] = media[q] /\ archive'[q] = archive[q]
                              /\ wasLive'[q] = wasLive[q]
      /\ archive'[p] = {} /\ wasLive'[p] = {}
  BY <1>0, <1>1, <1>3 DEF PostingTypeOK
<1>5. PostingTypeOK'
  BY <1>0, <1>2, <1>3 DEF PostingTypeOK
<1>6. ~(Unborn(c)') /\ ~(On(c, "archive")') /\ ~(On(c, "overwrite")') /\ ~(On(c, "replace")') /\ ~On(c, "replace")
      /\ ~Creating(c) /\ ~Editing(c)
  BY <1>0, <1>2 DEF Unborn, On, Creating, Editing
<1>7. IdsAreFresh'
  <2>1. \A d \in Clients : Unborn(d)' \/ On(d, "archive")' \/ On(d, "overwrite")' =>
          /\ d # c /\ Serving(d) /\ client'[d] = client[d] /\ (Unborn(d)' => Unborn(d))
          /\ Unborn(d) \/ On(d, "archive") \/ On(d, "overwrite")
    BY <1>2, <1>6 DEF Unborn, On, Serving
  <2>2. \A d \in Clients : Serving(d)' => client'[d].id \in 1..requests /\ client'[d].post <= requests
    BY <1>0, <1>2 DEF IdsAreFresh
  <2>3. \A d, e \in Clients : d # e /\ Serving(d)' /\ Serving(e)' => client'[d].id # client'[e].id
    BY <1>0, <1>2 DEF IdsAreFresh
  <2>4. \A q \in Ids : wasLive'[q] \subseteq wasLive[q]
    BY <1>4
  <2>5. \A d \in Clients : Unborn(d)' \/ On(d, "archive")' \/ On(d, "overwrite")' =>
          \A q \in Ids : client'[d].id \notin wasLive'[q]
    BY <1>0, <2>1, <2>4 DEF IdsAreFresh
  <2>6. \A d \in Clients : Unborn(d)' =>
          /\ client'[d].id \notin posts' /\ \A k \in Keys : client'[d].id \notin made[k]
          /\ \A e \in Clients : Serving(e)' => client'[e].post # client'[d].id
    BY <1>0, <1>2, <1>3, <2>1 DEF IdsAreFresh
  <2> QED BY <1>0, <1>3, <2>2, <2>3, <2>4, <2>5, <2>6 DEF IdsAreFresh
<1>8. KeysAreHeld'
  <2>1. \A d \in Clients : Creating(d)' <=> Creating(d) /\ d # c
    BY <1>2, <1>6
  <2>2. \A k \in Keys : \A d \in Clients : HoldsKey(d, k)' <=> HoldsKey(d, k)
    BY <1>2, <1>6, <2>1 DEF HoldsKey
  <2>3. \A k \in Keys : \A d \in Clients : HoldsKey(d, k) =>
          Unborn(d)' = Unborn(d) /\ client'[d] = client[d] /\ On(d, "lookup")' = On(d, "lookup")
    BY <1>2, <1>6 DEF HoldsKey
  <2>4. \A k \in Keys : bound[k] = NoPost => bound'[k] = NoPost
    BY <1>3
  <2>5. \A k \in Keys : \A q \in posts' : bound[k] = q => bound'[k] = q
    BY <1>3
  <2> QED BY <1>0, <1>3, <2>2, <2>3, <2>4, <2>5 DEF KeysAreHeld
<1>9. RowsAreFilled'
  BY <1>0, <1>3, <1>4 DEF RowsAreFilled
<1>10. EditsAreWhole'
  <2> SUFFICES ASSUME NEW q \in posts', q \notin mixed
               PROVE  /\ \A d, e \in Clients : Editing(d)' /\ Editing(e)' /\ client'[d].post = q /\ client'[e].post = q
                                               => d = e
                      /\ wasLive'[q] = archive'[q] \cup {text'[q]}
                      /\ text'[q] \notin archive'[q]
                      /\ \A d \in Clients : On(d, "overwrite")' /\ client'[d].post = q => client'[d].saw = text'[q]
                      /\ \A d \in Clients : On(d, "replace")' /\ client'[d].post = q => client'[d].id = text'[q]
                      /\ (\A d \in Clients : On(d, "replace")' => client'[d].post # q) => media'[q] = text'[q]
    BY <1>0 DEF EditsAreWhole
  <2>0. q \in posts \ mixed /\ q \in Ids \ {p}
    BY <1>0, <1>3 DEF PostingTypeOK
  <2>1. wasLive'[q] = wasLive[q] /\ archive'[q] = archive[q] /\ text'[q] = text[q] /\ media'[q] = media[q]
    BY <1>4, <2>0
  <2>2. \A d \in Clients : /\ Editing(d)' \/ On(d, "overwrite")' \/ On(d, "replace")' \/ On(d, "replace") => d # c
                           /\ d # c => client'[d] = client[d] /\ Editing(d)' = Editing(d) /\ \A st : On(d, st)' = On(d, st)
    BY <1>2, <1>6
  <2>3. \A d, e \in Clients : Editing(d)' /\ Editing(e)' /\ client'[d].post = q /\ client'[e].post = q => d = e
    BY <1>0, <2>0, <2>2 DEF EditsAreWhole
  <2>4. /\ \A d \in Clients : On(d, "overwrite")' /\ client'[d].post = q => client'[d].saw = text[q]
        /\ \A d \in Clients : On(d, "replace")' /\ client'[d].post = q => client'[d].id = text[q]
        /\ (\A d \in Clients : On(d, "replace")' => client'[d].post # q) => media[q] = text[q]
    BY <1>0, <2>0, <2>2 DEF EditsAreWhole
  <2> QED BY <1>0, <2>0, <2>1, <2>3, <2>4 DEF EditsAreWhole
<1> QED BY <1>2, <1>5, <1>7, <1>8, <1>9, <1>10 DEF PostingSound

-----------------------------------------------------------------------------
LEMMA PostingStep == PostingSound /\ [PostingNext]_postingVars => PostingSound'
<1> SUFFICES ASSUME PostingSound, [PostingNext]_postingVars PROVE PostingSound'
  OBVIOUS
<1>1. CASE UNCHANGED postingVars
  BY <1>1 DEF postingVars, tables, postingHistory, PostingSound, PostingTypeOK, CallsAreCoherent, IdsAreFresh,
     KeysAreHeld, RowsAreFilled, EditsAreWhole, Creating, Editing, Deleting, Unborn, HoldsKey, Serving, On
<1>2. ASSUME NEW c \in Clients, NEW k \in Keys \cup {NoKey}, RequestPost(c, k) PROVE PostingSound'
  BY <1>2, ArriveKeeps DEF RequestPost
<1>3. ASSUME NEW c \in Clients, NEW p \in posts, RequestEdit(c, p) \/ RequestDelete(c, p) PROVE PostingSound'
  BY <1>3, ArriveKeeps DEF RequestEdit, RequestDelete
<1>4. CASE PostingNext
  BY <1>2, <1>3, <1>4, CheckOrReserveKeeps, CreatePostKeeps, AnnounceKeeps, BindKeeps, FetchRawKeeps, ApplyEditKeeps,
     ReplaceMediaKeeps, DeliveriesKeep, DeleteKeeps, BreakKeeps DEF PostingNext
<1> QED BY <1>1, <1>4

LEMMA PostingHolds == PostingSpec => []PostingSound
BY PostingBegins, PostingStep, PTL DEF PostingSpec

(* An Idempotency-Key that no two requests contended for and none left     *)
(* between commit and bind stands for one post, for any number of keys and *)
(* of requests.                                                            *)
THEOREM OnePostForAKey == PostingSpec => []OnePostPerKey
<1>1. PostingSound => OnePostPerKey
  <2> SUFFICES ASSUME PostingSound, NEW k \in Keys \ unsure
               PROVE  /\ Cardinality(made[k] \cap posts) <= 1
                      /\ (\A c \in Clients : Serving(c) => client[c].key # k) =>
                           \A p \in made[k] \cap posts : bound[k] = p
    BY DEF OnePostPerKey
  <2>1. \A p, q \in made[k] \cap posts : p = q
    <3>1. \A p \in posts : p # NoPost
      BY DEF PostingSound, PostingTypeOK, Ids, NoPost
    <3> QED BY <3>1 DEF PostingSound, KeysAreHeld, Unborn
  <2>2. Cardinality(made[k] \cap posts) <= 1
    <3>1. CASE made[k] \cap posts = {}
      BY <3>1, FS_EmptySet
    <3>2. CASE made[k] \cap posts # {}
      <4>1. PICK p : made[k] \cap posts = {p}
        BY <2>1, <3>2
      <4>2. Cardinality(made[k] \cap posts) = 1
        BY <4>1, FS_Singleton
      <4> QED BY <4>2
    <3> QED BY <3>1, <3>2
  <2>3. (\A c \in Clients : Serving(c) => client[c].key # k) => \A p \in made[k] \cap posts : bound[k] = p
    BY DEF PostingSound, KeysAreHeld, HoldsKey, Creating, Serving
  <2> QED BY <2>2, <2>3
<1> QED BY <1>1, PostingHolds, PTL

(* No edit loses a version of a post or leaves it with another's media,    *)
(* unless two edits of the post crossed or one broke off in between, for   *)
(* any number of posts, edits and deletions under way.                     *)
THEOREM EditsStayOnePiece == PostingSpec => []EditsStayWhole
<1>1. PostingSound => EditsStayWhole
  BY DEF PostingSound, EditsAreWhole, EditsStayWhole, On, Serving
<1> QED BY <1>1, PostingHolds, PTL

-----------------------------------------------------------------------------
(* Polls                                                                   *)

InTransaction(b) == Stage(b, "check") \/ Stage(b, "write")

(* The row's lock covers check and write; a request knows what it wrote.   *)
BoothsAreOrderly ==
  \A b \in Booths :
    /\ InTransaction(b) => lock = b /\ open
    /\ Stage(b, "write") => ~Refused(b) /\ ballots[Voter(b)] = {}
    /\ InUse(b) => (booth[b].wrote <=> Stage(b, "tally") \/ Stage(b, "deliver") \/ booth[b].echo)

BallotsAreCounted ==
  /\ \A o \in Options : IsFiniteSet({a \in Electors : o \in ballots[a]})
  /\ \A o \in Options : tally[o] = Cardinality({a \in Electors : o \in ballots[a]})
  /\ \A a \in Electors : ballots[a] = {} => cast[a] = {}
  /\ \A a \in Electors : ballots[a] # {} => cast[a] = {ballots[a]}
  /\ \A a \in Electors : ~multiple => Cardinality(ballots[a]) <= 1

AnswersAreTrue == \A b \in Booths : answer[b].excused \/ (answer[b].ok <=> answer[b].wrote)

PollsSound == PollsTypeOK /\ BoothsAreOrderly /\ BallotsAreCounted /\ AnswersAreTrue

LEMMA NoVotesYet ==
  ASSUME ballots = [a \in Electors |-> {}], tally = [o \in Options |-> 0], cast = [a \in Electors |-> {}]
  PROVE  BallotsAreCounted
<1>1. \A o \in Options : {a \in Electors : o \in ballots[a]} = {}
  OBVIOUS
<1> QED BY <1>1, FS_EmptySet DEF BallotsAreCounted

LEMMA PollsBegin == PollsInit => PollsSound
<1> SUFFICES ASSUME PollsInit PROVE PollsSound
  OBVIOUS
<1>1. PollsTypeOK
  <2>1. ballots \in [Electors -> SUBSET Options] /\ cast \in [Electors -> SUBSET Selections]
    BY DEF PollsInit
  <2>2. NoAnswer \in Answer
    BY DEF Answer, NoAnswer
  <2>3. /\ tally \in [Options -> Nat] /\ lock \in Booths \cup {NoBooth} /\ booth \in [Booths -> Vote \cup {Empty}]
        /\ votes \in 0..MaxVotes
    BY PollsAssumption DEF PollsInit
  <2>5. multiple \in BOOLEAN /\ closed \in BOOLEAN /\ open \in BOOLEAN
    BY DEF PollsInit
  <2>4. answer \in [Booths -> Answer]
    BY <2>2 DEF PollsInit
  <2> QED BY <2>1, <2>3, <2>4, <2>5 DEF PollsTypeOK
<1>2. BallotsAreCounted
  BY NoVotesYet DEF PollsInit
<1>3. BoothsAreOrderly /\ AnswersAreTrue
  BY DEF PollsInit, BoothsAreOrderly, AnswersAreTrue, InTransaction, Stage, InUse, Empty, NoAnswer
<1> QED BY <1>1, <1>2, <1>3 DEF PollsSound

LEMMA BoothKinds ==
  ASSUME PollsTypeOK, NEW b \in Booths
  PROVE  /\ booth[b].step # "empty" <=> booth[b] \in Vote
         /\ booth[b].step = "empty" <=> booth[b] = Empty
BY DEF PollsTypeOK, Vote, Empty

LEMMA VoteGoesOn ==
  ASSUME PollsTypeOK, NEW b \in Booths, booth[b] \in Vote,
         NEW step \in {"record", "check", "write", "tally", "deliver"}, Move(b, step)
  PROVE  \E r \in Vote :
           /\ booth' = [booth EXCEPT ![b] = r] /\ answer' = answer
           /\ r.step = step /\ r.who = booth[b].who /\ r.choices = booth[b].choices /\ r.late = booth[b].late
           /\ r.api = booth[b].api /\ r.echo = booth[b].echo /\ r.wrote = booth[b].wrote
<1> DEFINE r == [booth[b] EXCEPT !.step = step]
<1>1. booth' = [booth EXCEPT ![b] = r] /\ answer' = answer
  BY DEF Move
<1>2. /\ r \in Vote
      /\ r.step = step /\ r.who = booth[b].who /\ r.choices = booth[b].choices /\ r.late = booth[b].late
      /\ r.api = booth[b].api /\ r.echo = booth[b].echo /\ r.wrote = booth[b].wrote
  BY DEF Vote
<1> QED BY <1>1, <1>2

(* r is where request b may go while no ballot changes.                    *)
VoteFits(b, r) ==
  /\ r.step \in {"check", "write"} => lock' = b /\ open
  /\ r.step = "write" => /\ ~(r.late \/ (~multiple /\ Cardinality(r.choices) > 1))
                         /\ ballots[r.who] = {}
  /\ r.step # "empty" => (r.wrote <=> r.step \in {"tally", "deliver"} \/ r.echo)

LEMMA BoothMoves ==
  ASSUME PollsSound, NEW b \in Booths, NEW r \in Vote \cup {Empty},
         booth' = [booth EXCEPT ![b] = r], VoteFits(b, r),
         lock' \in {lock, b, NoBooth}, lock' = lock \/ lock \in {b, NoBooth},
         votes' \in 0..MaxVotes,
         answer' \in [Booths -> Answer], AnswersAreTrue',
         UNCHANGED <<multiple, closed, open, ballots, tally, cast>>
  PROVE  PollsSound'
<1>1. booth'[b] = r /\ \A d \in Booths \ {b} : booth'[d] = booth[d]
  BY DEF PollsSound, PollsTypeOK
<1>2. PollsTypeOK'
  BY DEF PollsSound, PollsTypeOK
<1>3. BallotsAreCounted'
  BY DEF PollsSound, BallotsAreCounted
<1>4. ASSUME NEW d \in Booths
      PROVE  /\ InTransaction(d)' => lock' = d /\ open
             /\ Stage(d, "write")' => ~(Refused(d)') /\ ballots[Voter(d)'] = {}
             /\ InUse(d)' => (booth'[d].wrote <=> Stage(d, "tally")' \/ Stage(d, "deliver")' \/ booth'[d].echo)
  <2>1. CASE d = b
    BY <1>1, <2>1 DEF VoteFits, InTransaction, Stage, Refused, Voter, InUse
  <2>2. CASE d # b
    <3>1. InTransaction(d) => lock = d /\ d # NoBooth
      BY PollsAssumption DEF PollsSound, BoothsAreOrderly
    <3>2. InTransaction(d) => lock' = d
      BY <2>2, <3>1
    <3> QED BY <1>1, <2>2, <3>2 DEF PollsSound, BoothsAreOrderly, InTransaction, Stage, Refused, Voter, InUse
  <2> QED BY <2>1, <2>2
<1> QED BY <1>2, <1>3, <1>4 DEF PollsSound, BoothsAreOrderly

(* A request's end, and what it answers.                                   *)
LEMMA Concludes ==
  ASSUME PollsSound, NEW b \in Booths, NEW ok \in BOOLEAN, NEW excused \in BOOLEAN, InUse(b),
         Conclude(b, ok, excused), booth[b].api => excused \/ (ok <=> booth[b].wrote),
         lock' \in {lock, NoBooth}, lock' = lock \/ lock \in {b, NoBooth},
         UNCHANGED <<multiple, closed, open, ballots, tally, cast, votes>>
  PROVE  PollsSound'
<1>1. booth[b] \in Vote
  BY BoothKinds DEF InUse, PollsSound
<1>2. booth[b].wrote \in BOOLEAN
  BY <1>1 DEF Vote
<1> DEFINE new == [ok |-> ok, wrote |-> booth[b].wrote, excused |-> excused]
<1>3. new \in Answer /\ (booth[b].api => new.excused \/ (new.ok <=> new.wrote))
  BY <1>2 DEF Answer
<1>4. answer' = answer \/ (booth[b].api /\ answer' = [answer EXCEPT ![b] = new])
  BY DEF Conclude
<1> HIDE DEF new
<1>5. answer' \in [Booths -> Answer] /\ AnswersAreTrue'
  BY <1>3, <1>4 DEF PollsSound, PollsTypeOK, AnswersAreTrue
<1>6. VoteFits(b, Empty)
  BY DEF VoteFits, Empty
<1>7. Empty \in Vote \cup {Empty} /\ booth' = [booth EXCEPT ![b] = Empty] /\ votes' \in 0..MaxVotes
  BY DEF Conclude, PollsSound, PollsTypeOK
<1> QED BY <1>5, <1>6, <1>7, BoothMoves

LEMMA ArrivalKeeps ==
  ASSUME PollsSound, NEW b \in Booths, NEW a \in Electors, NEW choices \in Selections, NEW api \in BOOLEAN,
         Arrival(b, a, choices, api)
  PROVE  PollsSound'
<1> DEFINE r == [step |-> "record", who |-> a, choices |-> choices, titles |-> {},
                 api |-> api, echo |-> FALSE, wrote |-> FALSE, late |-> closed]
<1>1. booth' = [booth EXCEPT ![b] = r] /\ UNCHANGED <<multiple, closed, open, ballots, tally, lock, cast>>
  BY DEF Arrival
<1>2. r \in Vote
  BY DEF Vote, PollsSound, PollsTypeOK
<1>3. VoteFits(b, r)
  BY DEF VoteFits
<1>4. votes' \in 0..MaxVotes
  BY PollsAssumption DEF Arrival, PollsSound, PollsTypeOK
<1>5. answer' \in [Booths -> Answer] /\ AnswersAreTrue'
  BY DEF Arrival, PollsSound, PollsTypeOK, AnswersAreTrue, NoAnswer, Answer
<1> HIDE DEF r
<1> QED BY <1>1, <1>2, <1>3, <1>4, <1>5, BoothMoves

LEMMA LockPollKeeps ==
  ASSUME PollsSound, NEW b \in Booths, LockPoll(b)
  PROVE  PollsSound'
<1>0. /\ Stage(b, "record") /\ lock = NoBooth /\ InUse(b)
      /\ UNCHANGED <<multiple, closed, open, ballots, tally, votes, cast>>
  BY DEF LockPoll, Stage, InUse
<1>1. booth[b] \in Vote
  BY <1>0, BoothKinds DEF InUse, PollsSound
<1>2. CASE open /\ lock' = b /\ Move(b, "check")
  <2>1. PICK r \in Vote :
          /\ booth' = [booth EXCEPT ![b] = r] /\ answer' = answer
          /\ r.step = "check" /\ r.echo = booth[b].echo /\ r.wrote = booth[b].wrote
    BY <1>1, <1>2, VoteGoesOn DEF PollsSound
  <2>2. VoteFits(b, r)
    BY <1>0, <1>2, <2>1 DEF VoteFits, PollsSound, BoothsAreOrderly, Stage
  <2>3. answer' \in [Booths -> Answer] /\ AnswersAreTrue' /\ votes' \in 0..MaxVotes
    BY <1>0, <2>1 DEF PollsSound, PollsTypeOK, AnswersAreTrue
  <2> QED BY <1>0, <1>2, <2>1, <2>2, <2>3, BoothMoves
<1>3. CASE Conclude(b, FALSE, TRUE) /\ UNCHANGED lock
  BY <1>0, <1>3, Concludes
<1> QED BY <1>2, <1>3 DEF LockPoll

LEMMA RefuseKeeps ==
  ASSUME PollsSound, NEW b \in Booths, Refuse(b)
  PROVE  PollsSound'
<1>0. /\ Stage(b, "check") /\ InUse(b) /\ Conclude(b, FALSE, booth[b].echo) /\ lock' = NoBooth
      /\ UNCHANGED <<multiple, closed, open, ballots, tally, votes, cast>>
  BY DEF Refuse, Stage, InUse
<1>1. booth[b] \in Vote /\ booth[b].echo \in BOOLEAN
  BY <1>0, BoothKinds DEF InUse, PollsSound, Vote
<1>2. lock = b /\ (booth[b].wrote <=> booth[b].echo)
  BY <1>0 DEF PollsSound, BoothsAreOrderly, InTransaction, Stage
<1> QED BY <1>0, <1>1, <1>2, Concludes

LEMMA TakeAsHandledKeeps ==
  ASSUME PollsSound, NEW b \in Booths, TakeAsHandled(b)
  PROVE  PollsSound'
<1>0. /\ Stage(b, "check") /\ InUse(b) /\ lock' = NoBooth
      /\ UNCHANGED <<multiple, closed, open, ballots, tally, votes, cast>>
  BY DEF TakeAsHandled, Stage, InUse
<1>1. booth[b] \in Vote
  BY <1>0, BoothKinds DEF InUse, PollsSound
<1>2. lock = b /\ (booth[b].wrote <=> booth[b].echo)
  BY <1>0 DEF PollsSound, BoothsAreOrderly, InTransaction, Stage
<1>3. CASE booth[b].echo /\ Move(b, "deliver")
  <2>1. PICK r \in Vote :
          /\ booth' = [booth EXCEPT ![b] = r] /\ answer' = answer
          /\ r.step = "deliver" /\ r.echo = booth[b].echo /\ r.wrote = booth[b].wrote
    BY <1>1, <1>3, VoteGoesOn DEF PollsSound
  <2>2. VoteFits(b, r)
    BY <1>2, <1>3, <2>1 DEF VoteFits
  <2>3. answer' \in [Booths -> Answer] /\ AnswersAreTrue' /\ votes' \in 0..MaxVotes
    BY <1>0, <2>1 DEF PollsSound, PollsTypeOK, AnswersAreTrue
  <2> QED BY <1>0, <1>2, <2>1, <2>2, <2>3, BoothMoves
<1>4. CASE ~booth[b].api /\ Conclude(b, TRUE, FALSE)
  BY <1>0, <1>2, <1>4, Concludes
<1> QED BY <1>3, <1>4 DEF TakeAsHandled

LEMMA AcceptKeeps ==
  ASSUME PollsSound, NEW b \in Booths, Accept(b)
  PROVE  PollsSound'
<1>0. /\ Stage(b, "check") /\ InUse(b) /\ Move(b, "write") /\ ~Refused(b) /\ ballots[Voter(b)] = {}
      /\ UNCHANGED <<multiple, closed, open, ballots, tally, lock, votes, cast>>
  BY DEF Accept, Stage, InUse, Duplicate
<1>1. booth[b] \in Vote
  BY <1>0, BoothKinds DEF InUse, PollsSound
<1>2. lock = b /\ open /\ (booth[b].wrote <=> booth[b].echo)
  BY <1>0 DEF PollsSound, BoothsAreOrderly, InTransaction, Stage
<1>3. PICK r \in Vote :
        /\ booth' = [booth EXCEPT ![b] = r] /\ answer' = answer
        /\ r.step = "write" /\ r.who = booth[b].who /\ r.choices = booth[b].choices /\ r.late = booth[b].late
        /\ r.echo = booth[b].echo /\ r.wrote = booth[b].wrote
  BY <1>0, <1>1, VoteGoesOn DEF PollsSound
<1>4. VoteFits(b, r)
  BY <1>0, <1>2, <1>3 DEF VoteFits, Refused, Voter
<1>5. answer' \in [Booths -> Answer] /\ AnswersAreTrue' /\ votes' \in 0..MaxVotes
  BY <1>0, <1>3 DEF PollsSound, PollsTypeOK, AnswersAreTrue
<1> QED BY <1>0, <1>3, <1>4, <1>5, BoothMoves

LEMMA ReadTallyKeeps ==
  ASSUME PollsSound, NEW b \in Booths, ReadTally(b)
  PROVE  PollsSound'
<1>0. /\ Stage(b, "tally") /\ InUse(b)
      /\ UNCHANGED <<multiple, closed, open, ballots, tally, lock, votes, cast>>
  BY DEF ReadTally, Stage, InUse
<1>1. booth[b] \in Vote /\ booth[b].wrote
  BY <1>0, BoothKinds DEF InUse, PollsSound, BoothsAreOrderly
<1>2. CASE Conclude(b, FALSE, TRUE)
  BY <1>0, <1>2, Concludes
<1>3. CASE /\ booth' = [booth EXCEPT ![b].step = "deliver", ![b].titles = ballots[Voter(b)]]
           /\ UNCHANGED answer
  <2> DEFINE u == [booth[b] EXCEPT !.step = "deliver"]
             r == [u EXCEPT !.titles = ballots[Voter(b)]]
  <2>1. booth' = [booth EXCEPT ![b] = r]
    BY <1>3
  <2>2. ballots[Voter(b)] \in SUBSET Options
    BY <1>1 DEF PollsSound, PollsTypeOK, Voter, Vote
  <2>3. u \in Vote /\ u.step = "deliver" /\ u.wrote
    BY <1>1 DEF Vote
  <2>4. r \in Vote /\ r.step = "deliver" /\ r.wrote
    <3> HIDE DEF u
    <3> QED BY <2>2, <2>3 DEF Vote
  <2> HIDE DEF r
  <2>5. VoteFits(b, r)
    BY <2>4 DEF VoteFits
  <2>6. answer' \in [Booths -> Answer] /\ AnswersAreTrue' /\ votes' \in 0..MaxVotes
    BY <1>0, <1>3 DEF PollsSound, PollsTypeOK, AnswersAreTrue
  <2> QED BY <1>0, <2>1, <2>4, <2>5, <2>6, BoothMoves
<1> QED BY <1>2, <1>3 DEF ReadTally

LEMMA DeliverVoteKeeps ==
  ASSUME PollsSound, NEW b \in Booths, DeliverVote(b)
  PROVE  PollsSound'
<1> DEFINE step == IF open THEN "record" ELSE "deliver"
<1>0. /\ Stage(b, "deliver") /\ InUse(b)
      /\ UNCHANGED <<multiple, closed, open, ballots, tally, lock, votes, answer, cast>>
  BY DEF DeliverVote, Stage, InUse
<1>1. booth[b] \in Vote /\ booth[b].wrote
  BY <1>0, BoothKinds DEF InUse, PollsSound, BoothsAreOrderly
<1>2. PICK t \in booth[b].titles :
        booth' = [booth EXCEPT ![b].step = IF open THEN "record" ELSE "deliver",
                               ![b].titles = @ \ {t}, ![b].choices = {t},
                               ![b].echo = TRUE, ![b].late = closed]
  BY DEF DeliverVote
<1> DEFINE r1 == [booth[b] EXCEPT !.step = IF open THEN "record" ELSE "deliver"]
           r2 == [r1 EXCEPT !.titles = @ \ {t}]
           r3 == [r2 EXCEPT !.choices = {t}]
           r4 == [r3 EXCEPT !.echo = TRUE]
           r  == [r4 EXCEPT !.late = closed]
<1>3. booth' = [booth EXCEPT ![b] = r]
  <2> DEFINE all == [booth[b] EXCEPT !.step = IF open THEN "record" ELSE "deliver",
                                     !.titles = @ \ {t}, !.choices = {t}, !.echo = TRUE, !.late = closed]
  <2>1. booth' = [booth EXCEPT ![b] = all]
    BY <1>2
  <2>2. all = r
    BY <1>1 DEF Vote
  <2> QED BY <2>1, <2>2
<1>4. t \in Options /\ {t} \in Selections /\ closed \in BOOLEAN /\ step \in {"record", "deliver"}
  <2>1. booth[b].titles \subseteq Options
    BY <1>1 DEF Vote
  <2>2. step \in {"record", "deliver"}
    OBVIOUS
  <2>3. closed \in BOOLEAN
    BY DEF PollsSound, PollsTypeOK
  <2>4. t \in Options /\ {t} \in Selections
    BY <2>1 DEF Selections
  <2> QED BY <2>2, <2>3, <2>4
<1>5. r1 \in Vote /\ r1.step = step /\ r1.wrote = booth[b].wrote
  BY <1>1, <1>4 DEF Vote
<1> HIDE DEF step, r1
<1>6. r2 \in Vote /\ r2.step = step /\ r2.wrote = booth[b].wrote
  BY <1>5 DEF Vote
<1> HIDE DEF r2
<1>7. r3 \in Vote /\ r3.step = step /\ r3.wrote = booth[b].wrote
  BY <1>4, <1>6 DEF Vote
<1> HIDE DEF r3
<1>8. r4 \in Vote /\ r4.step = step /\ r4.wrote = booth[b].wrote /\ r4.echo
  BY <1>7 DEF Vote
<1> HIDE DEF r4
<1>9. r \in Vote /\ r.step = step /\ r.wrote = booth[b].wrote /\ r.echo
  BY <1>4, <1>8 DEF Vote
<1> HIDE DEF r
<1>10. VoteFits(b, r)
  BY <1>1, <1>4, <1>9 DEF VoteFits
<1>11. answer' \in [Booths -> Answer] /\ AnswersAreTrue' /\ votes' \in 0..MaxVotes
  BY <1>0 DEF PollsSound, PollsTypeOK, AnswersAreTrue
<1> QED BY <1>0, <1>3, <1>9, <1>10, <1>11, BoothMoves

LEMMA VotedKeeps ==
  ASSUME PollsSound, NEW b \in Booths, Voted(b)
  PROVE  PollsSound'
<1>0. /\ Stage(b, "deliver") /\ InUse(b) /\ Conclude(b, TRUE, FALSE)
      /\ UNCHANGED <<multiple, closed, open, ballots, tally, lock, votes, cast>>
  BY DEF Voted, Stage, InUse
<1>1. booth[b].wrote = TRUE
  <2>1. booth[b] \in Vote /\ booth[b].wrote
    BY <1>0, BoothKinds DEF InUse, PollsSound, BoothsAreOrderly
  <2> QED BY <2>1 DEF Vote
<1> QED BY <1>0, <1>1, Concludes

LEMMA VoteFailsKeeps ==
  ASSUME PollsSound, NEW b \in Booths, VoteFails(b)
  PROVE  PollsSound'
BY Concludes DEF VoteFails

(* The ballot is the actor's first, and the only one of its transaction.   *)
LEMMA WriteBallotKeeps ==
  ASSUME PollsSound, NEW b \in Booths, WriteBallot(b)
  PROVE  PollsSound'
<1> DEFINE a == Voter(b)
           chosen == booth[b].choices
           For(o) == {e \in Electors : o \in ballots[e]}
           done == [booth[b] EXCEPT !.step = "tally", !.wrote = TRUE]
<1>0. /\ PollsTypeOK /\ BoothsAreOrderly /\ BallotsAreCounted /\ AnswersAreTrue
      /\ Stage(b, "write") /\ lock' = NoBooth /\ UNCHANGED <<multiple, closed, open, votes, answer>>
  BY DEF PollsSound, WriteBallot
<1>1. booth[b] \in Vote /\ a \in Electors /\ chosen \in Selections
  <2>1. booth[b] \in Vote
    BY <1>0, BoothKinds DEF Stage
  <2> QED BY <2>1 DEF Vote, Voter
<1>2. ~Refused(b) /\ ballots[a] = {} /\ lock = b /\ cast[a] = {}
  BY <1>0, <1>1 DEF BoothsAreOrderly, InTransaction, BallotsAreCounted
<1>3. /\ ballots' = [ballots EXCEPT ![a] = @ \cup chosen]
      /\ tally' = [o \in Options |-> IF o \in chosen THEN tally[o] + 1 ELSE tally[o]]
      /\ cast' = [cast EXCEPT ![a] = @ \cup {chosen}]
      /\ booth' = [booth EXCEPT ![b] = IF booth[b].api THEN done ELSE Empty]
  BY DEF WriteBallot
<1>4. done \in Vote /\ done.step = "tally" /\ done.wrote
  BY <1>1 DEF Vote
<1>5. PICK r \in Vote \cup {Empty} : /\ booth' = [booth EXCEPT ![b] = r]
                                     /\ r.step \in {"tally", "empty"}
                                     /\ r.step = "tally" => r.wrote
  <2> HIDE DEF done
  <2>1. PICK r \in {done, Empty} : booth' = [booth EXCEPT ![b] = r]
    BY <1>3
  <2>2. Empty.step = "empty"
    BY DEF Empty
  <2>3. r \in Vote \cup {Empty} /\ r.step \in {"tally", "empty"} /\ (r.step = "tally" => r.wrote)
    BY <1>4, <2>2
  <2> QED BY <2>1, <2>3
<1> HIDE DEF a, chosen, done
<1>6. /\ ballots'[a] = chosen /\ \A e \in Electors \ {a} : ballots'[e] = ballots[e]
      /\ ballots' \in [Electors -> SUBSET Options]
  BY <1>0, <1>1, <1>2, <1>3 DEF PollsTypeOK, Selections
<1>7. /\ cast'[a] = {chosen} /\ \A e \in Electors \ {a} : cast'[e] = cast[e]
      /\ cast' \in [Electors -> SUBSET Selections]
  BY <1>0, <1>1, <1>2, <1>3 DEF PollsTypeOK
<1>8. PollsTypeOK'
  <2>1. tally' \in [Options -> Nat]
    BY <1>0, <1>3 DEF PollsTypeOK
  <2>2. booth' \in [Booths -> Vote \cup {Empty}]
    BY <1>0, <1>5 DEF PollsTypeOK
  <2> QED BY <1>0, <1>6, <1>7, <2>1, <2>2 DEF PollsTypeOK
<1>9. BoothsAreOrderly'
  <2>1. booth'[b] = r /\ \A d \in Booths \ {b} : booth'[d] = booth[d]
    BY <1>0, <1>5 DEF PollsTypeOK
  <2>2. \A d \in Booths \ {b} : ~InTransaction(d)
    BY <1>0, <1>2 DEF BoothsAreOrderly
  <2>3. \A d \in Booths : ~(InTransaction(d)')
    BY <1>5, <2>1, <2>2 DEF InTransaction, Stage
  <2>4. \A d \in Booths : InUse(d)' =>
          (booth'[d].wrote <=> Stage(d, "tally")' \/ Stage(d, "deliver")' \/ booth'[d].echo)
    <3>1. InUse(b)' => r.wrote /\ Stage(b, "tally")'
      BY <1>5, <2>1 DEF InUse, Stage
    <3> QED BY <1>0, <2>1, <3>1 DEF BoothsAreOrderly, InUse, Stage
  <2> QED BY <2>3, <2>4 DEF BoothsAreOrderly, InTransaction
<1>10. AnswersAreTrue'
  BY <1>0 DEF AnswersAreTrue
<1>11. \A o \in Options : /\ IsFiniteSet(For(o)) /\ tally[o] = Cardinality(For(o))
                          /\ a \notin For(o)
  BY <1>0, <1>2 DEF BallotsAreCounted
<1>12. ASSUME NEW o \in Options
       PROVE  /\ IsFiniteSet({e \in Electors : o \in ballots'[e]})
              /\ tally'[o] = Cardinality({e \in Electors : o \in ballots'[e]})
  <2> DEFINE old == For(o)
  <2>1. IsFiniteSet(old) /\ tally[o] = Cardinality(old) /\ a \notin old
    BY <1>11
  <2>2. CASE o \in chosen
    <3>1. {e \in Electors : o \in ballots'[e]} = old \cup {a}
      BY <1>1, <1>6, <2>2
    <3> HIDE DEF old
    <3>2. IsFiniteSet(old \cup {a}) /\ Cardinality(old \cup {a}) = Cardinality(old) + 1
      BY <2>1, FS_AddElement
    <3>3. tally'[o] = tally[o] + 1
      BY <1>3, <2>2
    <3> QED BY <2>1, <3>1, <3>2, <3>3
  <2>3. CASE o \notin chosen
    <3>1. {e \in Electors : o \in ballots'[e]} = old
      BY <1>1, <1>2, <1>6, <2>3
    <3> HIDE DEF old
    <3>2. tally'[o] = tally[o]
      BY <1>3, <2>3
    <3> QED BY <2>1, <3>1, <3>2
  <2> QED BY <2>2, <2>3
<1>13. ~multiple => Cardinality(chosen) <= 1
  <2>1. IsFiniteSet(chosen)
    BY <1>1, PollsAssumption, FS_Subset DEF Selections
  <2>2. Cardinality(chosen) \in Nat
    BY <2>1, FS_CardinalityType
  <2>3. ~multiple => ~(Cardinality(chosen) > 1)
    BY <1>2 DEF Refused, chosen
  <2> QED BY <2>2, <2>3
<1>14. BallotsAreCounted'
  <2>1. chosen # {}
    BY <1>1 DEF Selections
  <2>2. \A e \in Electors : /\ ballots'[e] = {} => cast'[e] = {}
                            /\ ballots'[e] # {} => cast'[e] = {ballots'[e]}
                            /\ ~multiple => Cardinality(ballots'[e]) <= 1
    BY <1>0, <1>6, <1>7, <1>13, <2>1 DEF BallotsAreCounted
  <2> QED BY <1>0, <1>12, <2>2 DEF BallotsAreCounted
<1> QED BY <1>8, <1>9, <1>10, <1>14 DEF PollsSound

LEMMA ClosePollKeeps ==
  ASSUME PollsSound, ClosePoll
  PROVE  PollsSound'
BY DEF ClosePoll, PollsSound, PollsTypeOK, BoothsAreOrderly, BallotsAreCounted, AnswersAreTrue, InTransaction,
   Stage, Refused, Voter, InUse

LEMMA DeletePollKeeps ==
  ASSUME PollsSound, DeletePoll
  PROVE  PollsSound'
<1>0. /\ PollsTypeOK /\ BoothsAreOrderly /\ lock = NoBooth /\ open' = FALSE
      /\ ballots' = [a \in Electors |-> {}] /\ tally' = [o \in Options |-> 0] /\ cast' = [a \in Electors |-> {}]
      /\ UNCHANGED <<multiple, closed, lock, booth, votes, answer>>
  BY DEF PollsSound, DeletePoll
<1>1. PollsTypeOK'
  <2>1. ballots' \in [Electors -> SUBSET Options] /\ cast' \in [Electors -> SUBSET Selections]
        /\ tally' \in [Options -> Nat] /\ open' \in BOOLEAN
    BY <1>0
  <2> QED BY <1>0, <2>1 DEF PollsTypeOK
<1>2. \A b \in Booths : ~InTransaction(b)
  BY <1>0, PollsAssumption DEF BoothsAreOrderly
<1>3. BoothsAreOrderly'
  BY <1>0, <1>2 DEF BoothsAreOrderly, InTransaction, Stage, InUse
<1>4. BallotsAreCounted'
  <2>1. \A o \in Options : {a \in Electors : o \in ballots'[a]} = {}
    BY <1>0
  <2>2. \A o \in Options : /\ IsFiniteSet({a \in Electors : o \in ballots'[a]})
                           /\ tally'[o] = Cardinality({a \in Electors : o \in ballots'[a]})
    BY <1>0, <2>1, FS_EmptySet
  <2>3. \A a \in Electors : ballots'[a] = {} /\ cast'[a] = {} /\ Cardinality(ballots'[a]) <= 1
    BY <1>0, FS_EmptySet
  <2> QED BY <2>2, <2>3 DEF BallotsAreCounted
<1> QED BY <1>0, <1>1, <1>3, <1>4 DEF PollsSound, AnswersAreTrue

LEMMA PollsStep == PollsSound /\ [PollsNext]_pollsVars => PollsSound'
<1> SUFFICES ASSUME PollsSound, [PollsNext]_pollsVars PROVE PollsSound'
  OBVIOUS
<1>1. CASE UNCHANGED pollsVars
  BY <1>1 DEF pollsVars, PollsSound, PollsTypeOK, BoothsAreOrderly, BallotsAreCounted, AnswersAreTrue,
     InTransaction, Stage, Refused, Voter, InUse
<1>2. ASSUME NEW b \in Booths, NEW a \in Electors, NEW choices \in Selections, CallVote(b, a, choices)
      PROVE  PollsSound'
  BY <1>2, ArrivalKeeps DEF CallVote
<1>3. ASSUME NEW b \in Booths, NEW a \in Electors, NEW o \in Options, ReceiveVote(b, a, o)
      PROVE  PollsSound'
  <2>1. {o} \in Selections
    BY DEF Selections
  <2> QED BY <1>3, <2>1, ArrivalKeeps DEF ReceiveVote
<1>4. CASE PollsNext
  BY <1>2, <1>3, <1>4, LockPollKeeps, RefuseKeeps, TakeAsHandledKeeps, AcceptKeeps, WriteBallotKeeps, ReadTallyKeeps,
     DeliverVoteKeeps, VotedKeeps, VoteFailsKeeps, ClosePollKeeps, DeletePollKeeps DEF PollsNext
<1> QED BY <1>1, <1>4

LEMMA PollsHold == PollsSpec => []PollsSound
BY PollsBegin, PollsStep, PTL DEF PollsSpec

(* For any number of voters, options and requests: the counts are the      *)
(* ballots, a ballot is one accepted request's, and no caller is told that *)
(* a vote failed which was stored, or the reverse, without an excuse.      *)
THEOREM PollsCountBallots == PollsSpec => []BallotsStand
<1>1. PollsSound => BallotsStand
  BY DEF PollsSound, BallotsAreCounted, AnswersAreTrue, BallotsStand
<1> QED BY <1>1, PollsHold, PTL

-----------------------------------------------------------------------------
(* Copies of remote posts                                                  *)

Handles(h, n) == Working(h) /\ NoteOf(h) = n
EarlySteps    == {"check", "find", "insert"}
Ingesting(h)  == handler[h].step \in EarlySteps \cup Details \cup {"notify"}

(* What an ingestion has added before it takes a step.                     *)
AddedBefore(step) == IF step = "tags" THEN {} ELSE IF step = "mentions" THEN {"tags"} ELSE {"tags", "mentions"}

HandlersAreCoherent ==
  \A h \in Handlers : Working(h) =>
    /\ handler[h].version <= original[NoteOf(h)]
    /\ Ingesting(h) => /\ handler[h].version <= MaxVersions
                       /\ handler[h].id = ByCreate \/ handler[h].known
    /\ AtStep(h, "check") => handler[h].id = ByCreate
    /\ AtStep(h, "target") \/ AtStep(h, "apply") => handler[h].version >= 2

(* A Delete is under way, handled by one handler, or was handled.          *)
ActivitiesAreOnce(n) ==
  /\ \A v \in 1..Gone : <<n, v>> \in wire => v <= original[n]
  /\ handled[n] <= original[n]
  /\ <<n, Gone>> \in wire =>
       handled[n] # Gone /\ \A h \in Handlers : Handles(h, n) => handler[h].version # Gone
  /\ \A h \in Handlers : Handles(h, n) /\ handler[h].version = Gone =>
       handled[n] # Gone /\ \A g \in Handlers : Handles(g, n) /\ handler[g].version = Gone => g = h

(* Nothing but a Delete takes a row from under an Update.                  *)
TargetsStay(n) ==
  \A h \in Handlers : Handles(h, n) /\ AtStep(h, "apply") =>
    handled[n] = Gone \/ (Stored(n) /\ copy[n].id = handler[h].id)

CopyIsCurrent(n) ==
  Stored(n) => copy[n].version <= original[n] /\ (n \notin overtaken => handled[n] <= copy[n].version)

KnownStays(n) ==
  \A h \in Handlers :
    Handles(h, n) /\ handler[h].id = ByCreate /\ handler[h].known /\ handler[h].step \in {"find", "insert"} =>
      Stored(n) \/ handled[n] = Gone

(* The newest activity, the row, its details and the mention are each      *)
(* there, or under way, or in the hands of a handler.                      *)
NewestIsOwed(n) ==
  original[n] >= 2 =>
    \/ handled[n] = original[n]
    \/ <<n, original[n]>> \in wire
    \/ \E h \in Handlers : /\ Handles(h, n) /\ handler[h].version = original[n]
                           /\ AtStep(h, "target") \/ AtStep(h, "apply")
RowIsOwed(n) ==
  original[n] \in 1..MaxVersions =>
    \/ Stored(n)
    \/ <<n, 1>> \in wire
    \/ \E h \in Handlers : Handles(h, n) /\ handler[h].id = ByCreate /\ handler[h].step \in EarlySteps
DetailsAreOwed(n) ==
  Stored(n) =>
    \/ copy[n].details = Details
    \/ \E h \in Handlers : /\ Handles(h, n) /\ handler[h].id = copy[n].id /\ handler[h].step \in Details
                           /\ AddedBefore(handler[h].step) \subseteq copy[n].details
MentionIsOwed(n) ==
  Stored(n) /\ copy[n].id = ByCreate /\ n \notin overtaken =>
    \/ n \in told
    \/ \E h \in Handlers : /\ Handles(h, n) /\ handler[h].id = ByCreate /\ ~handler[h].known
                           /\ handler[h].step \in Details \cup {"notify"}

NoteIsSound(n) ==
  /\ ActivitiesAreOnce(n) /\ TargetsStay(n) /\ CopyIsCurrent(n) /\ KnownStays(n)
  /\ n \notin torn => NewestIsOwed(n) /\ RowIsOwed(n) /\ DetailsAreOwed(n) /\ MentionIsOwed(n)

CopiesSound == RemoteCopiesTypeOK /\ HandlersAreCoherent /\ \A n \in Notes : NoteIsSound(n)

-----------------------------------------------------------------------------
LEMMA CopiesBegin == RemoteCopiesInit => CopiesSound
<1> SUFFICES ASSUME RemoteCopiesInit PROVE CopiesSound
  OBVIOUS
<1>1. \A h \in Handlers : ~Working(h)
  BY DEF RemoteCopiesInit, Working, Unused
<1>2. RemoteCopiesTypeOK
  BY RemoteCopiesAssumption DEF RemoteCopiesInit, RemoteCopiesTypeOK, Unwritten, Gone
<1>3. \A n \in Notes : NoteIsSound(n)
  BY <1>1, RemoteCopiesAssumption
     DEF RemoteCopiesInit, NoteIsSound, ActivitiesAreOnce, TargetsStay, CopyIsCurrent, KnownStays, NewestIsOwed,
         RowIsOwed, DetailsAreOwed, MentionIsOwed, Handles, Stored, Unwritten, Gone
<1> QED BY <1>1, <1>2, <1>3 DEF CopiesSound, HandlersAreCoherent

LEMMA HandlerKinds ==
  ASSUME RemoteCopiesTypeOK, NEW h \in Handlers
  PROVE  Working(h) <=> handler[h] \in Handling
BY DEF RemoteCopiesTypeOK, Handling, Unused, Working, Details

LEMMA HandlerGoesOn ==
  ASSUME NEW h \in Handlers, handler[h] \in Handling,
         NEW step \in {"check", "find", "insert", "notify", "target", "apply"} \cup Details,
         GoTo(h, step)
  PROVE  \E r \in Handling :
           /\ handler' = [handler EXCEPT ![h] = r]
           /\ r.step = step /\ r.note = handler[h].note /\ r.version = handler[h].version
           /\ r.id = handler[h].id /\ r.known = handler[h].known
<1> DEFINE r == [handler[h] EXCEPT !.step = step]
<1>1. handler' = [handler EXCEPT ![h] = r]
  BY DEF GoTo
<1>2. /\ r \in Handling /\ r.step = step /\ r.note = handler[h].note /\ r.version = handler[h].version
      /\ r.id = handler[h].id /\ r.known = handler[h].known
  BY DEF Handling
<1> QED BY <1>1, <1>2

LEMMA HandlerMoves ==
  ASSUME RemoteCopiesTypeOK, NEW h \in Handlers, NEW r \in Handling \cup {Unused},
         handler' = [handler EXCEPT ![h] = r]
  PROVE  /\ handler' \in [Handlers -> Handling \cup {Unused}]
         /\ handler'[h] = r
         /\ \A g \in Handlers \ {h} : handler'[g] = handler[g]
BY DEF RemoteCopiesTypeOK

(* What a step leaves of a post it is not about.                           *)
SameOf(m) ==
  /\ original'[m] = original[m] /\ copy'[m] = copy[m] /\ handled'[m] = handled[m]
  /\ m \in told' <=> m \in told
  /\ m \in overtaken' <=> m \in overtaken
  /\ m \in torn' <=> m \in torn
  /\ \A v \in 1..Gone : <<m, v>> \in wire' <=> <<m, v>> \in wire

LEMMA OtherNotes ==
  ASSUME RemoteCopiesTypeOK, NEW m \in Notes, NoteIsSound(m), SameOf(m),
         \A g \in Handlers : Handles(g, m)' <=> Handles(g, m),
         \A g \in Handlers : Handles(g, m) => handler'[g] = handler[g]
  PROVE  NoteIsSound(m)'
<1>0. original[m] \in Unwritten..Gone /\ 1 \in 1..Gone /\ Gone \in 1..Gone
  BY RemoteCopiesAssumption DEF RemoteCopiesTypeOK, Unwritten, Gone
<1>1. (Stored(m)' <=> Stored(m)) /\ original'[m] = original[m] /\ copy'[m] = copy[m] /\ handled'[m] = handled[m]
  BY DEF SameOf, Stored
<1>2. ActivitiesAreOnce(m)'
  BY <1>0, <1>1 DEF NoteIsSound, ActivitiesAreOnce, SameOf
<1>3. TargetsStay(m)' /\ KnownStays(m)'
  BY <1>1 DEF NoteIsSound, TargetsStay, KnownStays, AtStep
<1>4. CopyIsCurrent(m)'
  BY <1>1 DEF NoteIsSound, CopyIsCurrent, SameOf
<1>5. NewestIsOwed(m) => NewestIsOwed(m)'
  BY <1>0, <1>1 DEF NewestIsOwed, SameOf, AtStep, Unwritten
<1>6. RowIsOwed(m) => RowIsOwed(m)'
  BY <1>0, <1>1 DEF RowIsOwed, SameOf
<1>7. DetailsAreOwed(m) => DetailsAreOwed(m)'
  BY <1>1 DEF DetailsAreOwed
<1>8. MentionIsOwed(m) => MentionIsOwed(m)'
  BY <1>1 DEF MentionIsOwed, SameOf
<1> QED BY <1>2, <1>3, <1>4, <1>5, <1>6, <1>7, <1>8 DEF NoteIsSound, SameOf

(* A handler works on one post, and its step leaves the others alone.      *)
LEMMA OneNoteMoves ==
  ASSUME CopiesSound, RemoteCopiesTypeOK', HandlersAreCoherent',
         NEW h \in Handlers, NEW n \in Notes, NEW r \in Handling \cup {Unused},
         handler' = [handler EXCEPT ![h] = r],
         Working(h) => NoteOf(h) = n, r # Unused => r.note = n,
         \A m \in Notes \ {n} : SameOf(m),
         NoteIsSound(n)'
  PROVE  CopiesSound'
<1>1. handler'[h] = r /\ \A g \in Handlers \ {h} : handler'[g] = handler[g]
  BY HandlerMoves DEF CopiesSound
<1>2. r = Unused => r.step = "unused"
  BY DEF Unused
<1>3. ASSUME NEW m \in Notes \ {n} PROVE NoteIsSound(m)'
  <2>1. ~Handles(h, m)
    BY DEF Handles
  <2>2. ~(Handles(h, m)')
    BY <1>1, <1>2 DEF Handles, Working, NoteOf
  <2>3. \A g \in Handlers : Handles(g, m)' <=> Handles(g, m)
    BY <1>1, <2>1, <2>2 DEF Handles, Working, NoteOf
  <2>4. \A g \in Handlers : Handles(g, m) => handler'[g] = handler[g]
    BY <1>1, <2>1
  <2> QED BY <2>3, <2>4, OtherNotes DEF CopiesSound
<1> QED BY <1>3 DEF CopiesSound

(* r is a state of the handling that h may be in next.                     *)
Sensible(r) ==
  r # Unused =>
    /\ r.version <= original[r.note]
    /\ r.step \in EarlySteps \cup Details \cup {"notify"} => r.version <= MaxVersions /\ (r.id = ByCreate \/ r.known)
    /\ r.step = "check" => r.id = ByCreate
    /\ r.step \in {"target", "apply"} => r.version >= 2

LEMMA CoherentMove ==
  ASSUME RemoteCopiesTypeOK, HandlersAreCoherent, NEW h \in Handlers, NEW r \in Handling \cup {Unused},
         handler' = [handler EXCEPT ![h] = r], Sensible(r), original' = original
  PROVE  HandlersAreCoherent'
<1>1. handler'[h] = r /\ \A g \in Handlers \ {h} : handler'[g] = handler[g]
  BY HandlerMoves
<1>2. r = Unused => r.step = "unused"
  BY DEF Unused
<1> SUFFICES ASSUME NEW g \in Handlers, Working(g)'
             PROVE  /\ handler'[g].version <= original'[handler'[g].note]
                    /\ Ingesting(g)' => /\ handler'[g].version <= MaxVersions
                                        /\ handler'[g].id = ByCreate \/ handler'[g].known
                    /\ AtStep(g, "check")' => handler'[g].id = ByCreate
                    /\ AtStep(g, "target")' \/ AtStep(g, "apply")' => handler'[g].version >= 2
  BY DEF HandlersAreCoherent, NoteOf
<1>3. CASE g = h
  BY <1>1, <1>2, <1>3 DEF Sensible, Working, Ingesting, AtStep
<1>4. CASE g # h
  BY <1>1, <1>4 DEF HandlersAreCoherent, Working, Ingesting, AtStep, NoteOf
<1> QED BY <1>3, <1>4

(* A step of h that writes neither the row nor an activity: what h leaves  *)
(* behind is done, kept, or excused.                                       *)
LeavesNothing(h, n, r) ==
  /\ r # Unused => r.note = n /\ r.version = handler[h].version
  /\ r.step = "apply" => Stored(n) /\ copy[n].id = r.id
  /\ r.id = ByCreate /\ r.known /\ r.step \in {"find", "insert"} =>
       \/ Stored(n)
       \/ handler[h].id = ByCreate /\ handler[h].known /\ handler[h].step \in {"find", "insert"}
  /\ n \notin torn' =>
       /\ AtStep(h, "target") \/ AtStep(h, "apply") => r.step \in {"target", "apply"}
       /\ handler[h].step \in EarlySteps /\ ~Stored(n) => r.step \in EarlySteps /\ r.id = handler[h].id
       /\ handler[h].step \in Details => copy[n].id # handler[h].id \/ ~Stored(n)
       /\ AtStep(h, "notify") => n \in told'

LEMMA OnlyHandlerMoves ==
  ASSUME CopiesSound, RemoteCopiesTypeOK',
         NEW h \in Handlers, NEW n \in Notes, NEW r \in Handling \cup {Unused},
         Handles(h, n), handler' = [handler EXCEPT ![h] = r], Sensible(r), LeavesNothing(h, n, r),
         UNCHANGED <<original, wire, copy, handled, overtaken>>,
         told \subseteq told', torn \subseteq torn',
         \A m \in Notes \ {n} : (m \in told' => m \in told) /\ (m \in torn' => m \in torn)
  PROVE  CopiesSound'
<1>0. RemoteCopiesTypeOK /\ HandlersAreCoherent /\ NoteIsSound(n)
  BY DEF CopiesSound
<1>1. handler'[h] = r /\ \A g \in Handlers \ {h} : handler'[g] = handler[g]
  BY <1>0, HandlerMoves
<1>2. r = Unused => r.step = "unused"
  BY DEF Unused
<1>3. HandlersAreCoherent'
  BY <1>0, CoherentMove
<1>4. \A g \in Handlers : Handles(g, n)' => Handles(g, n) /\ handler'[g].version = handler[g].version
  BY <1>1, <1>2 DEF Handles, Working, NoteOf, LeavesNothing
<1>5. \A g \in Handlers \ {h} : Handles(g, n)' <=> Handles(g, n)
  BY <1>1 DEF Handles, Working, NoteOf
<1>6. \A s \in {"check", "find", "insert", "tags", "mentions", "attachments", "notify", "target", "apply"} :
        r.step = s => Handles(h, n)'
  BY <1>1, <1>2 DEF Handles, Working, NoteOf, LeavesNothing
<1>7. ActivitiesAreOnce(n)'
  BY <1>0, <1>4 DEF NoteIsSound, ActivitiesAreOnce
<1>8. TargetsStay(n)'
  BY <1>0, <1>1, <1>5 DEF NoteIsSound, TargetsStay, AtStep, Stored, LeavesNothing
<1>9. CopyIsCurrent(n)'
  BY <1>0 DEF NoteIsSound, CopyIsCurrent, Stored
<1>10. KnownStays(n)'
  BY <1>0, <1>1, <1>5, <1>4 DEF NoteIsSound, KnownStays, Stored, LeavesNothing
<1>11. ASSUME n \notin torn' PROVE NewestIsOwed(n)' /\ RowIsOwed(n)' /\ DetailsAreOwed(n)' /\ MentionIsOwed(n)'
  <2>1. NewestIsOwed(n) /\ RowIsOwed(n) /\ DetailsAreOwed(n) /\ MentionIsOwed(n) /\ n \notin torn
    BY <1>0, <1>11 DEF NoteIsSound
  <2>2. NewestIsOwed(n)'
    <3>1. \A g \in Handlers : Handles(g, n) /\ (AtStep(g, "target") \/ AtStep(g, "apply")) =>
            /\ Handles(g, n)' /\ (AtStep(g, "target")' \/ AtStep(g, "apply")')
            /\ handler'[g].version = handler[g].version
      BY <1>1, <1>4, <1>5, <1>6, <1>11 DEF AtStep, LeavesNothing
    <3> QED BY <2>1, <3>1 DEF NewestIsOwed
  <2>3. RowIsOwed(n)'
    <3>1. ~Stored(n) => \A g \in Handlers : Handles(g, n) /\ handler[g].step \in EarlySteps =>
            Handles(g, n)' /\ handler'[g].step \in EarlySteps /\ handler'[g].id = handler[g].id
      BY <1>1, <1>5, <1>6, <1>11 DEF EarlySteps, LeavesNothing
    <3> QED BY <2>1, <3>1 DEF RowIsOwed, Stored
  <2>4. DetailsAreOwed(n)'
    <3>1. Stored(n) => \A g \in Handlers : Handles(g, n) /\ handler[g].step \in Details /\ handler[g].id = copy[n].id =>
            Handles(g, n)' /\ handler'[g] = handler[g]
      BY <1>1, <1>5, <1>11 DEF LeavesNothing
    <3> QED BY <2>1, <3>1 DEF DetailsAreOwed, Stored
  <2>5. MentionIsOwed(n)'
    <3>1. Stored(n) /\ copy[n].id = ByCreate /\ n \notin told' =>
            \A g \in Handlers :
              Handles(g, n) /\ handler[g].id = ByCreate /\ handler[g].step \in Details \cup {"notify"} =>
                Handles(g, n)' /\ handler'[g] = handler[g]
      BY <1>1, <1>5, <1>11 DEF LeavesNothing, AtStep
    <3> QED BY <2>1, <3>1 DEF MentionIsOwed, Stored
  <2> QED BY <2>2, <2>3, <2>4, <2>5
<1>12. NoteIsSound(n)'
  BY <1>7, <1>8, <1>9, <1>10, <1>11 DEF NoteIsSound
<1>13. \A m \in Notes \ {n} : SameOf(m)
  BY DEF SameOf
<1> QED BY <1>0, <1>2, <1>3, <1>12, <1>13, OneNoteMoves DEF Handles, LeavesNothing

LEMMA HandlingEnds ==
  ASSUME CopiesSound, NEW h \in Handlers, NEW n \in Notes, Handles(h, n), Release(h),
         LeavesNothing(h, n, Unused), losses' \in 0..MaxLosses,
         UNCHANGED <<original, wire, copy, handled, overtaken, fetches>>,
         told' \in {told, told \cup {n}}, torn' \in {torn, torn \cup {n}}
  PROVE  CopiesSound'
<1>1. handler' = [handler EXCEPT ![h] = Unused] /\ Sensible(Unused) /\ Unused \in Handling \cup {Unused}
  BY DEF Release, Sensible
<1>2. RemoteCopiesTypeOK'
  BY <1>1, HandlerMoves DEF CopiesSound, RemoteCopiesTypeOK
<1> QED BY <1>1, <1>2, OnlyHandlerMoves

-----------------------------------------------------------------------------
(* The steps of a handler that write no row                                *)

LEMMA HandlerTyped ==
  ASSUME RemoteCopiesTypeOK, NEW h \in Handlers, NEW r \in Handling, handler' = [handler EXCEPT ![h] = r],
         UNCHANGED <<original, wire, copy, told, fetches, losses, copyHistory>>
  PROVE  RemoteCopiesTypeOK'
BY HandlerMoves DEF RemoteCopiesTypeOK, copyHistory

LEMMA CheckIngestedKeeps ==
  ASSUME CopiesSound, NEW h \in Handlers, CheckIngested(h)
  PROVE  CopiesSound'
<1> DEFINE n == handler[h].note
           u == [handler[h] EXCEPT !.known = Stored(n)]
           r == [u EXCEPT !.step = "find"]
<1>0. /\ RemoteCopiesTypeOK /\ HandlersAreCoherent /\ AtStep(h, "check")
      /\ UNCHANGED <<original, wire, copy, told, fetches, losses, copyHistory>>
  BY DEF CopiesSound, CheckIngested
<1>1. handler[h] \in Handling /\ Working(h) /\ n \in Notes /\ Stored(n) \in BOOLEAN
  <2>1. Working(h)
    BY <1>0 DEF AtStep, Working
  <2>2. handler[h] \in Handling
    BY <1>0, <2>1, HandlerKinds
  <2> QED BY <2>1, <2>2 DEF Handling, Stored
<1>2. handler' = [handler EXCEPT ![h] = r]
  BY DEF CheckIngested, NoteOf
<1>3. u \in Handling /\ u.note = n /\ u.version = handler[h].version /\ u.id = handler[h].id /\ u.known = Stored(n)
  BY <1>1 DEF Handling
<1>4. /\ r \in Handling /\ r.note = n /\ r.version = handler[h].version /\ r.id = handler[h].id
      /\ r.known = Stored(n) /\ r.step = "find"
  <2> HIDE DEF u
  <2> QED BY <1>3 DEF Handling
<1> HIDE DEF r
<1>5. handler[h].version <= original[n] /\ handler[h].version <= MaxVersions /\ handler[h].id = ByCreate
  BY <1>0, <1>1 DEF HandlersAreCoherent, NoteOf, Ingesting, AtStep, EarlySteps
<1>6. Sensible(r)
  BY <1>0, <1>4, <1>5 DEF Sensible
<1>7. LeavesNothing(h, n, r)
  BY <1>0, <1>4 DEF LeavesNothing, EarlySteps, AtStep, Details
<1>8. Handles(h, n)
  BY <1>1 DEF Handles, NoteOf
<1>9. RemoteCopiesTypeOK'
  BY <1>0, <1>2, <1>4, HandlerTyped
<1> HIDE DEF n
<1> QED BY <1>0, <1>1, <1>2, <1>4, <1>6, <1>7, <1>8, <1>9, OnlyHandlerMoves DEF copyHistory

LEMMA FindByUriKeeps ==
  ASSUME CopiesSound, NEW h \in Handlers, FindByUri(h)
  PROVE  CopiesSound'
<1> DEFINE n == handler[h].note
<1>0. /\ RemoteCopiesTypeOK /\ HandlersAreCoherent /\ AtStep(h, "find") /\ NoteOf(h) = n
      /\ UNCHANGED <<original, wire, copy, told, fetches, losses, copyHistory>>
  BY DEF CopiesSound, FindByUri, NoteOf
<1>1. handler[h] \in Handling /\ Working(h) /\ n \in Notes /\ Handles(h, n)
  <2>1. Working(h)
    BY <1>0 DEF AtStep, Working
  <2>2. handler[h] \in Handling
    BY <1>0, <2>1, HandlerKinds
  <2> QED BY <1>0, <2>1, <2>2 DEF Handling, Handles
<1>2. handler[h].version <= original[n] /\ handler[h].version <= MaxVersions
      /\ (handler[h].id = ByCreate \/ handler[h].known)
  BY <1>0, <1>1 DEF HandlersAreCoherent, Ingesting, AtStep, EarlySteps
<1> HIDE DEF n
<1>3. CASE Stored(n) /\ Release(h)
  <2>1. LeavesNothing(h, n, Unused)
    BY <1>0, <1>3 DEF LeavesNothing, EarlySteps, AtStep, Details, Unused
  <2>2. losses' \in 0..MaxLosses
    BY <1>0 DEF RemoteCopiesTypeOK
  <2> QED BY <1>0, <1>1, <1>3, <2>1, <2>2, HandlingEnds DEF copyHistory
<1>4. ASSUME NEW step \in {"insert", "notify"}, GoTo(h, step), step = "notify" => Stored(n)
      PROVE  CopiesSound'
  <2>1. PICK r \in Handling :
          /\ handler' = [handler EXCEPT ![h] = r]
          /\ r.step = step /\ r.note = handler[h].note /\ r.version = handler[h].version
          /\ r.id = handler[h].id /\ r.known = handler[h].known
    BY <1>1, <1>4, HandlerGoesOn
  <2>2. r.note = n
    BY <2>1 DEF n
  <2>3. Sensible(r)
    BY <1>0, <1>2, <2>1, <2>2 DEF Sensible
  <2>4. LeavesNothing(h, n, r)
    BY <1>0, <1>4, <2>1, <2>2 DEF LeavesNothing, EarlySteps, AtStep, Details
  <2>5. RemoteCopiesTypeOK'
    BY <1>0, <2>1, HandlerTyped
  <2> QED BY <1>0, <1>1, <2>1, <2>3, <2>4, <2>5, OnlyHandlerMoves DEF copyHistory
<1> QED BY <1>0, <1>3, <1>4 DEF FindByUri, AfterIngest

LEMMA NotifyMentionKeeps ==
  ASSUME CopiesSound, NEW h \in Handlers, NotifyMention(h)
  PROVE  CopiesSound'
<1> DEFINE n == handler[h].note
<1>0. /\ RemoteCopiesTypeOK /\ AtStep(h, "notify") /\ NoteOf(h) = n /\ told' = told \cup {n} /\ Release(h)
      /\ UNCHANGED <<original, wire, copy, fetches, losses, copyHistory>>
  BY DEF CopiesSound, NotifyMention, NoteOf
<1>1. n \in Notes /\ Handles(h, n)
  <2>1. Working(h)
    BY <1>0 DEF AtStep, Working
  <2>2. handler[h] \in Handling
    BY <1>0, <2>1, HandlerKinds
  <2> QED BY <1>0, <2>1, <2>2 DEF Handling, Handles
<1> HIDE DEF n
<1>2. LeavesNothing(h, n, Unused)
  BY <1>0 DEF LeavesNothing, EarlySteps, AtStep, Details, Unused
<1>3. losses' \in 0..MaxLosses
  BY <1>0 DEF RemoteCopiesTypeOK
<1> QED BY <1>0, <1>1, <1>2, <1>3, HandlingEnds DEF copyHistory

LEMMA HandlingFailsKeeps ==
  ASSUME CopiesSound, NEW h \in Handlers, HandlingFails(h)
  PROVE  CopiesSound'
<1> DEFINE n == handler[h].note
<1>0. /\ RemoteCopiesTypeOK /\ Working(h) /\ NoteOf(h) = n /\ torn' = torn \cup {n} /\ Release(h)
      /\ losses < MaxLosses /\ losses' = losses + 1
      /\ UNCHANGED <<original, wire, copy, told, fetches, handled, overtaken>>
  BY DEF CopiesSound, HandlingFails, NoteOf
<1>1. n \in Notes /\ Handles(h, n)
  <2>1. handler[h] \in Handling
    BY <1>0, HandlerKinds
  <2> QED BY <1>0, <2>1 DEF Handling, Handles
<1> HIDE DEF n
<1>2. LeavesNothing(h, n, Unused)
  BY <1>0 DEF LeavesNothing, Unused
<1>3. losses' \in 0..MaxLosses
  BY <1>0, RemoteCopiesAssumption DEF RemoteCopiesTypeOK
<1> QED BY <1>0, <1>1, <1>2, <1>3, HandlingEnds

-----------------------------------------------------------------------------
(* The steps that write a row                                              *)

LEMMA HandlerFacts ==
  ASSUME CopiesSound, NEW h \in Handlers, Working(h)
  PROVE  /\ handler[h] \in Handling /\ NoteOf(h) \in Notes /\ Handles(h, NoteOf(h))
         /\ handler[h].version <= original[NoteOf(h)] /\ handler[h].id \in RowIds
         /\ handler[h].version \in 1..Gone /\ handler[h].known \in BOOLEAN
<1>1. handler[h] \in Handling
  BY HandlerKinds DEF CopiesSound
<1> QED BY <1>1 DEF CopiesSound, HandlersAreCoherent, Handling, NoteOf, Handles

LEMMA RowsAreRows ==
  ASSUME NEW c \in Copy
  PROVE  c # NoCopy
<1>1. "version" \in DOMAIN c
  BY DEF Copy
<1>2. "version" \notin DOMAIN NoCopy
  BY DEF NoCopy
<1> QED BY <1>1, <1>2

LEMMA InsertCopyKeeps ==
  ASSUME CopiesSound, NEW h \in Handlers, InsertCopy(h)
  PROVE  CopiesSound'
<1>a. Working(h) /\ AtStep(h, "insert")
  BY DEF InsertCopy, AtStep, Working
<1>n. PICK n \in Notes : n = NoteOf(h)
  BY <1>a, HandlerFacts
<1>0. /\ RemoteCopiesTypeOK /\ HandlersAreCoherent /\ AtStep(h, "insert") /\ NoteIsSound(n)
      /\ UNCHANGED <<original, wire, told, fetches, losses, handled, torn>>
      /\ handler[h] \in Handling /\ Working(h) /\ Handles(h, n) /\ n = handler[h].note
      /\ handler[h].version <= original[n] /\ handler[h].version <= MaxVersions
      /\ (handler[h].id = ByCreate \/ handler[h].known)
      /\ handler[h].id \in RowIds /\ handler[h].version \in 1..MaxVersions
  <2>1. handler[h].version <= MaxVersions /\ (handler[h].id = ByCreate \/ handler[h].known)
    BY <1>a DEF CopiesSound, HandlersAreCoherent, Ingesting, AtStep, EarlySteps
  <2> QED BY <1>a, <1>n, <2>1, HandlerFacts, RemoteCopiesAssumption DEF InsertCopy, CopiesSound, NoteOf, Gone
<1>1. CASE Stored(n) /\ Release(h) /\ UNCHANGED <<copy, overtaken>>
  <2>1. LeavesNothing(h, n, Unused)
    BY <1>0, <1>1 DEF LeavesNothing, EarlySteps, AtStep, Details, Unused
  <2>2. losses' \in 0..MaxLosses
    BY <1>0 DEF RemoteCopiesTypeOK
  <2> QED BY <1>0, <1>1, <2>1, <2>2, HandlingEnds
<1>2. CASE /\ ~Stored(n)
           /\ copy' = [copy EXCEPT ![n] = NewCopy(h)]
           /\ overtaken' = IF handler[h].version < handled[n] THEN overtaken \cup {n} ELSE overtaken
           /\ GoTo(h, "tags")
  <2>1. PICK r \in Handling :
          /\ handler' = [handler EXCEPT ![h] = r]
          /\ r.step = "tags" /\ r.note = handler[h].note /\ r.version = handler[h].version
          /\ r.id = handler[h].id /\ r.known = handler[h].known
    BY <1>0, <1>2, HandlerGoesOn DEF Details
  <2>2. PICK row \in Copy : /\ row = NewCopy(h) /\ row.id = handler[h].id /\ row.version = handler[h].version
                            /\ row.details = {} /\ row # NoCopy
    <3>1. /\ NewCopy(h) \in Copy /\ NewCopy(h).id = handler[h].id /\ NewCopy(h).version = handler[h].version
          /\ NewCopy(h).details = {}
      BY <1>0 DEF NewCopy, Copy
    <3> QED BY <3>1, RowsAreRows
  <2>3. /\ handler'[h] = r /\ (\A g \in Handlers \ {h} : handler'[g] = handler[g])
        /\ handler' \in [Handlers -> Handling \cup {Unused}]
    BY <1>0, <2>1, HandlerMoves
  <2>4. /\ copy'[n] = row /\ (\A m \in Notes \ {n} : copy'[m] = copy[m]) /\ Stored(n)'
        /\ copy' \in [Notes -> Copy \cup {NoCopy}]
    BY <1>0, <1>2, <2>2 DEF RemoteCopiesTypeOK, Stored
  <2>5. RemoteCopiesTypeOK'
    BY <1>0, <1>2, <2>3, <2>4 DEF RemoteCopiesTypeOK
  <2>6. \A g \in Handlers : Handles(g, n)' => Handles(g, n) /\ handler'[g].version = handler[g].version
    BY <1>0, <2>1, <2>3 DEF Handles, Working, NoteOf
  <2>7. \A g \in Handlers \ {h} : Handles(g, n)' <=> Handles(g, n)
    BY <2>3 DEF Handles, Working, NoteOf
  <2>8. Handles(h, n)'
    BY <1>0, <2>1, <2>3 DEF Handles, Working, NoteOf
  <2>9. ActivitiesAreOnce(n)'
    BY <1>0, <2>6 DEF NoteIsSound, ActivitiesAreOnce
  <2>10. TargetsStay(n)' /\ KnownStays(n)'
    BY <1>0, <1>2, <2>1, <2>3, <2>4, <2>7 DEF NoteIsSound, TargetsStay, KnownStays, AtStep
  <2>11. handled[n] \in 0..Gone /\ original[n] \in 0..Gone
    BY <1>0 DEF RemoteCopiesTypeOK, Unwritten
  <2>12. CopyIsCurrent(n)'
    BY <1>0, <1>2, <2>2, <2>4, <2>11 DEF CopyIsCurrent, Gone
  <2>13. ASSUME n \notin torn PROVE NewestIsOwed(n)' /\ RowIsOwed(n)' /\ DetailsAreOwed(n)' /\ MentionIsOwed(n)'
    <3>1. NewestIsOwed(n)
      BY <1>0, <2>13 DEF NoteIsSound
    <3>2. NewestIsOwed(n)'
      <4>1. \A g \in Handlers : Handles(g, n) /\ (AtStep(g, "target") \/ AtStep(g, "apply")) =>
              /\ Handles(g, n)' /\ handler'[g] = handler[g]
        BY <1>0, <2>3, <2>7 DEF AtStep
      <4> QED BY <1>0, <3>1, <4>1 DEF NewestIsOwed, AtStep
    <3>3. RowIsOwed(n)'
      BY <2>4 DEF RowIsOwed
    <3>4. DetailsAreOwed(n)'
      BY <2>1, <2>2, <2>3, <2>4, <2>8 DEF DetailsAreOwed, Details, AddedBefore
    <3>5. MentionIsOwed(n)'
      <4>1. CASE ~handler[h].known
        BY <2>1, <2>2, <2>3, <2>4, <2>8, <4>1 DEF MentionIsOwed, Details
      <4>2. CASE handler[h].known /\ handler[h].id # ByCreate
        BY <2>2, <2>4, <4>2 DEF MentionIsOwed
      <4>3. CASE handler[h].known /\ handler[h].id = ByCreate
        <5>1. handled[n] = Gone
          BY <1>0, <1>2, <4>3 DEF NoteIsSound, KnownStays, AtStep
        <5>2. n \in overtaken'
          BY <1>0, <1>2, <5>1, RemoteCopiesAssumption DEF Gone
        <5> QED BY <5>2 DEF MentionIsOwed
      <4> QED BY <4>1, <4>2, <4>3
    <3> QED BY <3>2, <3>3, <3>4, <3>5
  <2>14. NoteIsSound(n)'
    BY <1>0, <2>9, <2>10, <2>12, <2>13 DEF NoteIsSound
  <2>15. Sensible(r)
    BY <1>0, <2>1 DEF Sensible
  <2>16. HandlersAreCoherent'
    BY <1>0, <2>1, <2>15, CoherentMove
  <2>17. \A m \in Notes \ {n} : SameOf(m)
    BY <1>0, <1>2, <2>4 DEF SameOf
  <2>18. r.note = n
    BY <1>0, <2>1
  <2> QED BY <1>0, <2>1, <2>5, <2>14, <2>16, <2>17, <2>18, OneNoteMoves DEF Handles
<1> QED BY <1>n, <1>1, <1>2 DEF InsertCopy

LEMMA AddDetailKeeps ==
  ASSUME CopiesSound, NEW h \in Handlers, NEW detail \in Details, AddDetail(h, detail)
  PROVE  CopiesSound'
<1>a. Working(h) /\ AtStep(h, detail)
  BY DEF AddDetail, AtStep, Working, Details
<1>n. PICK n \in Notes : n = NoteOf(h)
  BY <1>a, HandlerFacts
<1>0. /\ RemoteCopiesTypeOK /\ HandlersAreCoherent /\ NoteIsSound(n)
      /\ UNCHANGED <<original, wire, told, fetches, losses, handled, overtaken, torn>>
      /\ handler[h] \in Handling /\ Handles(h, n) /\ n = handler[h].note
      /\ handler[h].version <= original[n] /\ handler[h].version <= MaxVersions
      /\ (handler[h].id = ByCreate \/ handler[h].known)
  <2>1. handler[h].version <= MaxVersions /\ (handler[h].id = ByCreate \/ handler[h].known)
    BY <1>a DEF CopiesSound, HandlersAreCoherent, Ingesting, AtStep, Details
  <2> QED BY <1>a, <1>n, <2>1, HandlerFacts DEF AddDetail, CopiesSound, NoteOf, copyHistory
<1>1. CASE Release(h) /\ UNCHANGED copy /\ ~(Stored(n) /\ copy[n].id = handler[h].id)
  <2>1. LeavesNothing(h, n, Unused)
    BY <1>a, <1>1 DEF LeavesNothing, EarlySteps, AtStep, Details, Unused
  <2>2. losses' \in 0..MaxLosses
    BY <1>0 DEF RemoteCopiesTypeOK
  <2> QED BY <1>0, <1>1, <2>1, <2>2, HandlingEnds
<1>2. ASSUME Stored(n), copy[n].id = handler[h].id, copy' = [copy EXCEPT ![n].details = @ \cup {detail}],
             NEW r \in Handling \cup {Unused}, handler' = [handler EXCEPT ![h] = r],
             r # Unused => /\ r.note = n /\ r.version = handler[h].version /\ r.id = handler[h].id
                           /\ r.known = handler[h].known,
             \/ detail = "tags" /\ r.step = "mentions" /\ r # Unused
             \/ detail = "mentions" /\ r.step = "attachments" /\ r # Unused
             \/ detail = "attachments" /\ r.step = "notify" /\ r # Unused
             \/ detail = "attachments" /\ r = Unused /\ handler[h].known
      PROVE  CopiesSound'
  <2>1. copy[n] \in Copy
    BY <1>0, <1>2 DEF RemoteCopiesTypeOK, Stored
  <2>2. PICK row \in Copy : /\ copy' = [copy EXCEPT ![n] = row] /\ row.id = copy[n].id
                            /\ row.version = copy[n].version /\ row.details = copy[n].details \cup {detail}
                            /\ row # NoCopy
    <3> DEFINE row == [copy[n] EXCEPT !.details = @ \cup {detail}]
    <3>1. copy' = [copy EXCEPT ![n] = row]
      BY <1>2
    <3>2. /\ row \in Copy /\ row.id = copy[n].id /\ row.version = copy[n].version
          /\ row.details = copy[n].details \cup {detail}
      BY <2>1 DEF Copy
    <3> HIDE DEF row
    <3>3. row # NoCopy
      BY <3>2, RowsAreRows
    <3> QED BY <3>1, <3>2, <3>3
  <2>3. /\ handler'[h] = r /\ (\A g \in Handlers \ {h} : handler'[g] = handler[g])
        /\ handler' \in [Handlers -> Handling \cup {Unused}]
    BY <1>0, <1>2, HandlerMoves
  <2>4. /\ copy'[n] = row /\ (\A m \in Notes \ {n} : copy'[m] = copy[m]) /\ Stored(n)'
        /\ copy' \in [Notes -> Copy \cup {NoCopy}]
    BY <1>0, <2>2 DEF RemoteCopiesTypeOK, Stored
  <2>5. RemoteCopiesTypeOK'
    BY <1>0, <1>2, <2>3, <2>4 DEF RemoteCopiesTypeOK
  <2>u. r = Unused => r.step = "unused"
    BY DEF Unused
  <2>6. \A g \in Handlers : Handles(g, n)' => Handles(g, n) /\ handler'[g].version = handler[g].version
    BY <1>0, <1>2, <2>3, <2>u DEF Handles, Working, NoteOf
  <2>7. \A g \in Handlers \ {h} : Handles(g, n)' <=> Handles(g, n)
    BY <2>3 DEF Handles, Working, NoteOf
  <2>8. r # Unused => Handles(h, n)'
    BY <1>2, <2>3 DEF Handles, Working, NoteOf
  <2>9. ActivitiesAreOnce(n)'
    BY <1>0, <2>6 DEF NoteIsSound, ActivitiesAreOnce
  <2>10. TargetsStay(n)' /\ KnownStays(n)'
    BY <1>0, <1>2, <2>u, <2>2, <2>3, <2>4, <2>7 DEF NoteIsSound, TargetsStay, KnownStays, AtStep
  <2>11. CopyIsCurrent(n)'
    BY <1>0, <1>2, <2>2, <2>4 DEF NoteIsSound, CopyIsCurrent
  <2>12. ASSUME n \notin torn PROVE NewestIsOwed(n)' /\ RowIsOwed(n)' /\ DetailsAreOwed(n)' /\ MentionIsOwed(n)'
    <3>1. NewestIsOwed(n) /\ DetailsAreOwed(n) /\ MentionIsOwed(n)
      BY <1>0, <2>12 DEF NoteIsSound
    <3>2. NewestIsOwed(n)'
      <4>1. \A g \in Handlers : Handles(g, n) /\ (AtStep(g, "target") \/ AtStep(g, "apply")) =>
              /\ Handles(g, n)' /\ handler'[g] = handler[g]
        BY <1>a, <2>3, <2>7 DEF AtStep, Details
      <4> QED BY <1>0, <3>1, <4>1 DEF NewestIsOwed, AtStep
    <3>3. RowIsOwed(n)'
      BY <2>4 DEF RowIsOwed
    <3>4. DetailsAreOwed(n)'
      <4>1. CASE copy[n].details = Details
        BY <2>2, <2>4, <4>1 DEF DetailsAreOwed
      <4>2. ASSUME NEW g \in Handlers \ {h}, Handles(g, n), handler[g].id = copy[n].id,
                   handler[g].step \in Details, AddedBefore(handler[g].step) \subseteq copy[n].details
            PROVE  DetailsAreOwed(n)'
        BY <2>2, <2>3, <2>4, <2>7, <4>2 DEF DetailsAreOwed
      <4>3. CASE AddedBefore(detail) \subseteq copy[n].details
        <5>1. detail = "attachments" => row.details = Details
          BY <2>1, <2>2, <4>3 DEF AddedBefore, Details, Copy
        <5>2. detail # "attachments" => /\ r # Unused /\ r.step \in Details
                                        /\ AddedBefore(r.step) \subseteq row.details
          BY <1>2, <2>2, <4>3 DEF AddedBefore, Details
        <5> QED BY <1>2, <2>2, <2>3, <2>4, <2>8, <5>1, <5>2 DEF DetailsAreOwed
      <4> QED BY <1>a, <1>2, <3>1, <4>1, <4>2, <4>3 DEF DetailsAreOwed, AtStep
    <3>5. MentionIsOwed(n)'
      <4>1. \A g \in Handlers : /\ Handles(g, n) /\ handler[g].id = ByCreate /\ ~handler[g].known
                                /\ handler[g].step \in Details \cup {"notify"}
                                => /\ Handles(g, n)' /\ handler'[g].id = ByCreate /\ ~handler'[g].known
                                   /\ handler'[g].step \in Details \cup {"notify"}
        BY <1>2, <2>3, <2>7, <2>8 DEF Details
      <4> QED BY <1>0, <1>2, <2>2, <2>4, <3>1, <4>1 DEF MentionIsOwed
    <3> QED BY <3>2, <3>3, <3>4, <3>5
  <2>13. NoteIsSound(n)'
    BY <1>0, <2>9, <2>10, <2>11, <2>12 DEF NoteIsSound
  <2>14. Sensible(r)
    BY <1>0, <1>2 DEF Sensible
  <2>15. HandlersAreCoherent'
    BY <1>0, <1>2, <2>14, CoherentMove
  <2>16. \A m \in Notes \ {n} : SameOf(m)
    BY <1>0, <2>4 DEF SameOf
  <2> QED BY <1>0, <1>2, <2>5, <2>13, <2>15, <2>16, OneNoteMoves DEF Handles
<1>3. ASSUME Stored(n), copy[n].id = handler[h].id, copy' = [copy EXCEPT ![n].details = @ \cup {detail}],
             NEW step \in {"mentions", "attachments", "notify"}, GoTo(h, step),
             \/ detail = "tags" /\ step = "mentions"
             \/ detail = "mentions" /\ step = "attachments"
             \/ detail = "attachments" /\ step = "notify"
      PROVE  CopiesSound'
  <2>1. PICK r \in Handling :
          /\ handler' = [handler EXCEPT ![h] = r]
          /\ r.step = step /\ r.note = handler[h].note /\ r.version = handler[h].version
          /\ r.id = handler[h].id /\ r.known = handler[h].known
    BY <1>0, <1>3, HandlerGoesOn DEF Details
  <2>2. r # Unused
    BY <1>3, <2>1 DEF Unused
  <2> QED BY <1>0, <1>2, <1>3, <2>1, <2>2
<1>4. ASSUME Stored(n), copy[n].id = handler[h].id, copy' = [copy EXCEPT ![n].details = @ \cup {detail}],
             detail = "attachments", handler[h].known, Release(h)
      PROVE  CopiesSound'
  BY <1>2, <1>4 DEF Release
<1> QED
  <2>1. CASE detail = "tags"
    BY <1>n, <1>1, <1>3, <2>1 DEF AddDetail
  <2>2. CASE detail = "mentions"
    BY <1>n, <1>1, <1>3, <2>2 DEF AddDetail
  <2>3. CASE detail = "attachments"
    BY <1>n, <1>1, <1>3, <1>4, <2>3 DEF AddDetail, AfterIngest
  <2> QED BY <2>1, <2>2, <2>3 DEF Details

(* Handling an activity to its end: h leaves, and handled[n] covers it.    *)
LEMMA HandledUpTo ==
  ASSUME RemoteCopiesTypeOK, NEW h \in Handlers, handler[h] \in Handling,
         NEW n \in Notes, n = NoteOf(h), Done(h)
  PROVE  /\ handled' \in [Notes -> 0..Gone]
         /\ \A m \in Notes \ {n} : handled'[m] = handled[m]
         /\ handled'[n] \in {handled[n], handler[h].version}
         /\ handled'[n] >= handled[n] /\ handled'[n] >= handler[h].version
<1>1. handled[n] \in 0..Gone /\ handler[h].version \in 1..Gone /\ handled \in [Notes -> 0..Gone]
  BY DEF RemoteCopiesTypeOK, Handling
<1>2. handled' = [handled EXCEPT ![n] = IF handled[n] < handler[h].version THEN handler[h].version ELSE handled[n]]
  BY DEF Done
<1>3. Gone \in Nat
  BY RemoteCopiesAssumption DEF Gone
<1> QED BY <1>1, <1>2, <1>3

(* That clears what the note's other parts say, but for row and content.   *)
LEMMA HandlingDone ==
  ASSUME CopiesSound, NEW h \in Handlers, NEW n \in Notes, n = NoteOf(h), handler[h].version >= 2,
         AtStep(h, "target") \/ AtStep(h, "apply"), Release(h), Done(h),
         UNCHANGED <<original, wire, told, fetches, losses, torn>>,
         copy' \in [Notes -> Copy \cup {NoCopy}], overtaken' \subseteq Notes,
         \A m \in Notes \ {n} : copy'[m] = copy[m] /\ (m \in overtaken' <=> m \in overtaken),
         TargetsStay(n)', CopyIsCurrent(n)', KnownStays(n)',
         n \notin torn => RowIsOwed(n)' /\ DetailsAreOwed(n)' /\ MentionIsOwed(n)'
  PROVE  CopiesSound'
<1>a. Working(h)
  BY DEF AtStep, Working
<1>0. /\ RemoteCopiesTypeOK /\ HandlersAreCoherent /\ NoteIsSound(n)
      /\ handler[h] \in Handling /\ Handles(h, n) /\ handler[h].version <= original[n]
      /\ handler[h].version \in 1..Gone
  BY <1>a, HandlerFacts DEF CopiesSound
<1>1. handler' = [handler EXCEPT ![h] = Unused] /\ Sensible(Unused) /\ Unused \in Handling \cup {Unused}
  BY DEF Release, Sensible
<1>2. /\ handler'[h] = Unused /\ (\A g \in Handlers \ {h} : handler'[g] = handler[g])
      /\ handler' \in [Handlers -> Handling \cup {Unused}]
  BY <1>0, <1>1, HandlerMoves
<1>3. /\ handled' \in [Notes -> 0..Gone] /\ (\A m \in Notes \ {n} : handled'[m] = handled[m])
      /\ handled'[n] \in {handled[n], handler[h].version}
      /\ handled'[n] >= handled[n] /\ handled'[n] >= handler[h].version
  BY <1>0, HandledUpTo
<1>4. RemoteCopiesTypeOK'
  BY <1>0, <1>2, <1>3 DEF RemoteCopiesTypeOK
<1>5. \A g \in Handlers : Handles(g, n)' => g # h /\ Handles(g, n) /\ handler'[g] = handler[g]
  BY <1>2 DEF Handles, Working, NoteOf, Unused
<1>6. \A g \in Handlers \ {h} : Handles(g, n) => Handles(g, n)'
  BY <1>2 DEF Handles, Working, NoteOf
<1>7. original[n] \in 0..Gone /\ handled[n] \in 0..Gone /\ handled[n] <= original[n]
  BY <1>0 DEF RemoteCopiesTypeOK, Unwritten, NoteIsSound, ActivitiesAreOnce
<1>8. ActivitiesAreOnce(n)'
  <2>1. handled'[n] <= original'[n]
    BY <1>0, <1>3, <1>7
  <2>2. <<n, Gone>> \in wire' => handled'[n] # Gone /\ \A g \in Handlers : Handles(g, n)' => handler'[g].version # Gone
    BY <1>0, <1>3, <1>5 DEF NoteIsSound, ActivitiesAreOnce
  <2>3. ASSUME NEW g \in Handlers, Handles(g, n)', handler'[g].version = Gone
        PROVE  handled'[n] # Gone /\ \A f \in Handlers : Handles(f, n)' /\ handler'[f].version = Gone => f = g
    <3>1. g # h /\ Handles(g, n) /\ handler[g].version = Gone
      BY <1>5, <2>3
    <3>2. handler[h].version # Gone /\ handled[n] # Gone
      BY <1>0, <3>1 DEF NoteIsSound, ActivitiesAreOnce
    <3>3. \A f \in Handlers : Handles(f, n) /\ handler[f].version = Gone => f = g
      BY <1>0, <3>1 DEF NoteIsSound, ActivitiesAreOnce
    <3> QED BY <1>3, <1>5, <3>2, <3>3
  <2> QED BY <1>0, <2>1, <2>2, <2>3 DEF ActivitiesAreOnce, NoteIsSound
<1>9. n \notin torn => NewestIsOwed(n)'
  <2> SUFFICES ASSUME n \notin torn, original[n] >= 2
               PROVE  \/ handled'[n] = original[n]
                      \/ <<n, original[n]>> \in wire
                      \/ \E g \in Handlers : /\ Handles(g, n)' /\ handler'[g].version = original[n]
                                             /\ AtStep(g, "target")' \/ AtStep(g, "apply")'
    BY DEF NewestIsOwed
  <2>1. \/ handled[n] = original[n]
        \/ <<n, original[n]>> \in wire
        \/ \E g \in Handlers : /\ Handles(g, n) /\ handler[g].version = original[n]
                               /\ AtStep(g, "target") \/ AtStep(g, "apply")
    BY <1>0 DEF NoteIsSound, NewestIsOwed
  <2>2. CASE handled[n] = original[n]
    BY <1>0, <1>3, <1>7, <2>2
  <2>3. CASE handler[h].version = original[n]
    BY <1>0, <1>3, <1>7, <2>3
  <2>4. ASSUME NEW g \in Handlers \ {h}, Handles(g, n), handler[g].version = original[n],
               AtStep(g, "target") \/ AtStep(g, "apply")
        PROVE  /\ Handles(g, n)' /\ handler'[g].version = original[n]
               /\ AtStep(g, "target")' \/ AtStep(g, "apply")'
    BY <1>2, <1>6, <2>4 DEF AtStep
  <2> QED BY <2>1, <2>2, <2>3, <2>4
<1>10. NoteIsSound(n)'
  BY <1>8, <1>9 DEF NoteIsSound
<1>11. HandlersAreCoherent'
  BY <1>0, <1>1, CoherentMove
<1>12. \A m \in Notes \ {n} : SameOf(m)
  BY <1>3 DEF SameOf
<1> QED BY <1>1, <1>4, <1>10, <1>11, <1>12, OneNoteMoves

LEMMA FindTargetKeeps ==
  ASSUME CopiesSound, NEW h \in Handlers, FindTarget(h)
  PROVE  CopiesSound'
<1>a. Working(h) /\ AtStep(h, "target")
  BY DEF FindTarget, AtStep, Working
<1>n. PICK n \in Notes : n = NoteOf(h)
  BY <1>a, HandlerFacts
<1>0. /\ RemoteCopiesTypeOK /\ HandlersAreCoherent /\ NoteIsSound(n)
      /\ UNCHANGED <<original, wire, copy, told, fetches, losses, overtaken, torn>>
      /\ handler[h] \in Handling /\ Handles(h, n) /\ n = handler[h].note
      /\ handler[h].version <= original[n] /\ handler[h].version >= 2 /\ handler[h].version \in 1..Gone
  BY <1>a, <1>n, HandlerFacts DEF FindTarget, CopiesSound, NoteOf, HandlersAreCoherent
<1>1. CASE /\ Stored(n) /\ UNCHANGED handled
           /\ handler' = [handler EXCEPT ![h].id = copy[n].id, ![h].step = "apply"]
  <2> DEFINE u == [handler[h] EXCEPT !.id = copy[n].id]
             next == [u EXCEPT !.step = "apply"]
  <2>1. copy[n].id \in RowIds
    BY <1>0, <1>1 DEF RemoteCopiesTypeOK, Stored, Copy
  <2>2. handler' = [handler EXCEPT ![h] = next]
    BY <1>1
  <2>3. u \in Handling /\ u.note = n /\ u.version = handler[h].version /\ u.id = copy[n].id
    BY <1>0, <2>1 DEF Handling
  <2>4. /\ next \in Handling /\ next.note = n /\ next.version = handler[h].version /\ next.id = copy[n].id
        /\ next.step = "apply"
    <3> HIDE DEF u
    <3> QED BY <2>3 DEF Handling
  <2> HIDE DEF next
  <2>5. PICK r \in Handling : /\ handler' = [handler EXCEPT ![h] = r] /\ r.note = n
                              /\ r.version = handler[h].version /\ r.id = copy[n].id /\ r.step = "apply"
    BY <2>2, <2>4
  <2>6. Sensible(r)
    BY <1>0, <2>5 DEF Sensible, EarlySteps, Details
  <2>7. LeavesNothing(h, n, r)
    BY <1>a, <1>1, <2>5 DEF LeavesNothing, EarlySteps, AtStep, Details
  <2>8. RemoteCopiesTypeOK'
    BY <1>0, <1>1, <2>5, HandlerTyped DEF copyHistory
  <2> QED BY <1>0, <1>1, <2>5, <2>6, <2>7, <2>8, OnlyHandlerMoves
<1>2. CASE ~Stored(n) /\ Release(h) /\ Done(h)
  <2>1. /\ handled'[n] \in {handled[n], handler[h].version} /\ handled'[n] >= handled[n]
        /\ handled[n] \in 0..Gone
    BY <1>0, <1>n, <1>2, HandledUpTo DEF RemoteCopiesTypeOK
  <2>2. handled[n] = Gone => handled'[n] = Gone
    BY <1>0, <2>1, RemoteCopiesAssumption DEF Gone
  <2>3. \A g \in Handlers : Handles(g, n)' => Handles(g, n) /\ handler'[g] = handler[g]
    BY <1>0, <1>2 DEF Handles, Working, NoteOf, Unused, Release, RemoteCopiesTypeOK
  <2>4. ~(Stored(n)')
    BY <1>0, <1>2 DEF Stored
  <2>5. TargetsStay(n)' /\ KnownStays(n)'
    BY <1>0, <1>2, <2>2, <2>3 DEF NoteIsSound, TargetsStay, KnownStays, AtStep
  <2>6. CopyIsCurrent(n)' /\ DetailsAreOwed(n)' /\ MentionIsOwed(n)'
    BY <2>4 DEF CopyIsCurrent, DetailsAreOwed, MentionIsOwed
  <2>7. n \notin torn => RowIsOwed(n)'
    <3>1. \A g \in Handlers : Handles(g, n) /\ handler[g].step \in EarlySteps => Handles(g, n)' /\ handler'[g] = handler[g]
      BY <1>a, <1>0, <1>2 DEF Handles, Working, NoteOf, Release, RemoteCopiesTypeOK, AtStep, EarlySteps
    <3> QED BY <1>0, <1>2, <3>1 DEF NoteIsSound, RowIsOwed
  <2>8. copy' \in [Notes -> Copy \cup {NoCopy}] /\ overtaken' \subseteq Notes
    BY <1>0 DEF RemoteCopiesTypeOK
  <2> QED BY <1>a, <1>n, <1>0, <1>2, <2>5, <2>6, <2>7, <2>8, HandlingDone
<1> QED BY <1>n, <1>1, <1>2 DEF FindTarget

LEMMA ApplyUpdateKeeps ==
  ASSUME CopiesSound, NEW h \in Handlers, ApplyUpdate(h)
  PROVE  CopiesSound'
<1>a. Working(h) /\ AtStep(h, "apply")
  BY DEF ApplyUpdate, AtStep, Working
<1>n. PICK n \in Notes : n = NoteOf(h)
  BY <1>a, HandlerFacts
<1> DEFINE v == handler[h].version
<1>0. /\ RemoteCopiesTypeOK /\ NoteIsSound(n) /\ Release(h) /\ Done(h)
      /\ UNCHANGED <<original, wire, told, fetches, losses, torn>>
      /\ handler[h] \in Handling /\ Handles(h, n) /\ n = handler[h].note
      /\ v <= original[n] /\ v >= 2 /\ v \in 1..MaxVersions
  BY <1>a, <1>n, HandlerFacts, RemoteCopiesAssumption
     DEF ApplyUpdate, CopiesSound, NoteOf, HandlersAreCoherent, Gone
<1>1. /\ handled'[n] \in {handled[n], v} /\ handled'[n] >= handled[n] /\ handled'[n] >= v
      /\ handled[n] \in 0..Gone /\ original[n] \in 0..Gone
  BY <1>0, <1>n, HandledUpTo DEF RemoteCopiesTypeOK, Unwritten
<1>2. handled[n] = Gone => handled'[n] = Gone
  BY <1>0, <1>1, RemoteCopiesAssumption DEF Gone
<1>3. \A g \in Handlers : Handles(g, n)' => Handles(g, n) /\ handler'[g] = handler[g]
  BY <1>0 DEF Handles, Working, NoteOf, Unused, Release, RemoteCopiesTypeOK
<1>4. \A g \in Handlers : Handles(g, n) /\ handler[g].step \in EarlySteps \cup Details \cup {"notify"}
                          => Handles(g, n)' /\ handler'[g] = handler[g]
  BY <1>a, <1>0 DEF Handles, Working, NoteOf, Release, RemoteCopiesTypeOK, AtStep, EarlySteps, Details
<1>5. CASE Targets(h)
  <2>0. Stored(n) /\ copy[n].id = handler[h].id /\ copy[n] \in Copy
    BY <1>0, <1>n, <1>5 DEF Targets, RemoteCopiesTypeOK, Stored
  <2>1. PICK row \in Copy : /\ copy' = [copy EXCEPT ![n] = row] /\ row.id = copy[n].id /\ row.version = v
                            /\ row.details = copy[n].details /\ row # NoCopy
    <3> DEFINE row == [copy[n] EXCEPT !.version = v]
    <3>1. copy' = [copy EXCEPT ![n] = row]
      BY <1>n, <1>5 DEF ApplyUpdate
    <3>2. /\ row \in Copy /\ row.id = copy[n].id /\ row.version = v
          /\ row.details = copy[n].details
      BY <1>0, <2>0 DEF Copy
    <3> HIDE DEF row
    <3>3. row # NoCopy
      BY <3>2, RowsAreRows
    <3> QED BY <3>1, <3>2, <3>3
  <2>2. overtaken' = IF v < handled[n] THEN overtaken \cup {n} ELSE overtaken
    BY <1>n, <1>5 DEF ApplyUpdate
  <2>3. /\ copy'[n] = row /\ (\A m \in Notes \ {n} : copy'[m] = copy[m]) /\ Stored(n)'
        /\ copy' \in [Notes -> Copy \cup {NoCopy}]
    BY <1>0, <2>1 DEF RemoteCopiesTypeOK, Stored
  <2>4. TargetsStay(n)' /\ KnownStays(n)'
    BY <1>0, <1>2, <1>3, <2>0, <2>1, <2>3 DEF NoteIsSound, TargetsStay, KnownStays, AtStep
  <2>5. CopyIsCurrent(n)'
    BY <1>0, <1>1, <2>1, <2>2, <2>3 DEF CopyIsCurrent
  <2>6. n \notin torn => RowIsOwed(n)' /\ DetailsAreOwed(n)' /\ MentionIsOwed(n)'
    <3>1. RowIsOwed(n)'
      BY <2>3 DEF RowIsOwed
    <3>2. n \notin torn => DetailsAreOwed(n)'
      BY <1>0, <1>4, <2>0, <2>1, <2>3 DEF NoteIsSound, DetailsAreOwed
    <3>3. n \notin torn => MentionIsOwed(n)'
      BY <1>0, <1>4, <2>0, <2>1, <2>2, <2>3 DEF NoteIsSound, MentionIsOwed
    <3> QED BY <3>1, <3>2, <3>3
  <2>7. overtaken' \subseteq Notes /\ \A m \in Notes \ {n} : m \in overtaken' <=> m \in overtaken
    BY <1>0, <2>2 DEF RemoteCopiesTypeOK
  <2> QED BY <1>a, <1>n, <1>0, <2>3, <2>4, <2>5, <2>6, <2>7, HandlingDone
<1>6. CASE ~Targets(h)
  <2>0. UNCHANGED <<copy, overtaken>> /\ ~(Stored(n) /\ copy[n].id = handler[h].id)
    BY <1>n, <1>6 DEF ApplyUpdate, Targets
  <2>1. handled[n] = Gone /\ handled'[n] = Gone
    BY <1>a, <1>0, <1>2, <2>0 DEF NoteIsSound, TargetsStay
  <2>2. TargetsStay(n)' /\ KnownStays(n)'
    BY <2>1 DEF TargetsStay, KnownStays
  <2>3. CopyIsCurrent(n)'
    BY <1>0, <2>0, <2>1 DEF NoteIsSound, CopyIsCurrent, Stored
  <2>4. n \notin torn => RowIsOwed(n)' /\ DetailsAreOwed(n)' /\ MentionIsOwed(n)'
    <3>1. n \notin torn => RowIsOwed(n)'
      BY <1>0, <1>4, <2>0 DEF NoteIsSound, RowIsOwed, Stored
    <3>2. n \notin torn => DetailsAreOwed(n)'
      BY <1>0, <1>4, <2>0 DEF NoteIsSound, DetailsAreOwed, Stored
    <3>3. n \notin torn => MentionIsOwed(n)'
      BY <1>0, <1>4, <2>0 DEF NoteIsSound, MentionIsOwed, Stored
    <3> QED BY <3>1, <3>2, <3>3
  <2>5. copy' \in [Notes -> Copy \cup {NoCopy}] /\ overtaken' \subseteq Notes
    BY <1>0, <2>0 DEF RemoteCopiesTypeOK
  <2> QED BY <1>a, <1>n, <1>0, <2>0, <2>2, <2>3, <2>4, <2>5, HandlingDone
<1> QED BY <1>5, <1>6

LEMMA ApplyDeleteKeeps ==
  ASSUME CopiesSound, NEW h \in Handlers, ApplyDelete(h)
  PROVE  CopiesSound'
<1>a. Working(h) /\ AtStep(h, "apply")
  BY DEF ApplyDelete, AtStep, Working
<1>n. PICK n \in Notes : n = NoteOf(h)
  BY <1>a, HandlerFacts
<1>0. /\ RemoteCopiesTypeOK /\ NoteIsSound(n) /\ Release(h) /\ Done(h)
      /\ UNCHANGED <<original, wire, told, fetches, losses, overtaken, torn>>
      /\ handler[h] \in Handling /\ Handles(h, n)
      /\ handler[h].version = Gone /\ Gone >= 2 /\ original[n] = Gone
  <2>1. original[n] \in 0..Gone /\ handler[h].version <= original[n]
    BY <1>a, <1>n, HandlerFacts DEF CopiesSound, RemoteCopiesTypeOK, Unwritten
  <2> QED BY <1>a, <1>n, <2>1, HandlerFacts, RemoteCopiesAssumption DEF ApplyDelete, CopiesSound, Gone
<1>1. handled'[n] = Gone
  <2>1. handled'[n] \in {handled[n], Gone} /\ handled'[n] >= Gone /\ handled[n] \in 0..Gone
    BY <1>0, <1>n, HandledUpTo DEF RemoteCopiesTypeOK
  <2> QED BY <2>1, RemoteCopiesAssumption DEF Gone
<1>2. Targets(h)
  BY <1>a, <1>n, <1>0 DEF NoteIsSound, TargetsStay, ActivitiesAreOnce, Targets
<1>3. copy' = [copy EXCEPT ![n] = NoCopy]
  BY <1>n, <1>2 DEF ApplyDelete
<1>4. /\ copy' \in [Notes -> Copy \cup {NoCopy}] /\ (\A m \in Notes \ {n} : copy'[m] = copy[m])
      /\ ~(Stored(n)')
  BY <1>0, <1>3 DEF RemoteCopiesTypeOK, Stored
<1>5. TargetsStay(n)' /\ KnownStays(n)'
  BY <1>1 DEF TargetsStay, KnownStays
<1>6. CopyIsCurrent(n)' /\ DetailsAreOwed(n)' /\ MentionIsOwed(n)'
  BY <1>4 DEF CopyIsCurrent, DetailsAreOwed, MentionIsOwed
<1>7. RowIsOwed(n)'
  BY <1>0, RemoteCopiesAssumption DEF RowIsOwed, Gone
<1>8. overtaken' \subseteq Notes
  BY <1>0 DEF RemoteCopiesTypeOK
<1> QED BY <1>a, <1>n, <1>0, <1>4, <1>5, <1>6, <1>7, <1>8, HandlingDone

-----------------------------------------------------------------------------
(* A handler takes up a post: an activity from the wire, or a search       *)

(* Until then h has nothing to do with any post.                           *)
LEMMA HandlingBegins ==
  ASSUME CopiesSound, RemoteCopiesTypeOK', NEW h \in Handlers, NEW n \in Notes, NEW r \in Handling,
         ~Working(h), handler' = [handler EXCEPT ![h] = r], r.note = n, Sensible(r),
         UNCHANGED <<original, copy, told, copyHistory>>,
         r.step # "apply", r.id = ByCreate /\ r.known => r.step \notin {"find", "insert"},
         ActivitiesAreOnce(n)',
         \A m \in Notes \ {n} : \A v \in 1..Gone : <<m, v>> \in wire' <=> <<m, v>> \in wire,
         \/ wire' = wire
         \/ wire' = wire \ {<<n, r.version>>} /\ r.step = "check" /\ r.version = 1 /\ r.id = ByCreate
         \/ wire' = wire \ {<<n, r.version>>} /\ r.step = "target"
  PROVE  CopiesSound'
<1>0. RemoteCopiesTypeOK /\ HandlersAreCoherent /\ NoteIsSound(n)
  BY DEF CopiesSound
<1>1. handler'[h] = r /\ \A g \in Handlers \ {h} : handler'[g] = handler[g]
  BY <1>0, HandlerMoves
<1>2. HandlersAreCoherent'
  BY <1>0, CoherentMove
<1>3. r.step # "unused" /\ r # Unused
  BY DEF Handling, Details, Unused
<1>4. Handles(h, n)' /\ ~Handles(h, n)
  BY <1>1, <1>3 DEF Handles, Working, NoteOf
<1>5. \A g \in Handlers \ {h} : Handles(g, n)' <=> Handles(g, n)
  BY <1>1 DEF Handles, Working, NoteOf
<1>6. \A g \in Handlers : Handles(g, n) => Handles(g, n)' /\ handler'[g] = handler[g]
  BY <1>1, <1>4, <1>5
<1>7. TargetsStay(n)' /\ CopyIsCurrent(n)' /\ KnownStays(n)'
  BY <1>0, <1>1, <1>5 DEF NoteIsSound, TargetsStay, CopyIsCurrent, KnownStays, AtStep, Stored, copyHistory
<1>8. ASSUME n \notin torn PROVE NewestIsOwed(n)' /\ RowIsOwed(n)' /\ DetailsAreOwed(n)' /\ MentionIsOwed(n)'
  <2>1. NewestIsOwed(n) /\ RowIsOwed(n) /\ DetailsAreOwed(n) /\ MentionIsOwed(n)
    BY <1>0, <1>8 DEF NoteIsSound
  <2>2. NewestIsOwed(n)'
    <3>1. original[n] >= 2 /\ <<n, original[n]>> \in wire =>
            \/ <<n, original[n]>> \in wire'
            \/ r.version = original[n] /\ r.step = "target"
      OBVIOUS
    <3> QED BY <1>1, <1>4, <1>6, <2>1, <3>1 DEF NewestIsOwed, AtStep, copyHistory
  <2>3. RowIsOwed(n)'
    <3>1. <<n, 1>> \in wire => \/ <<n, 1>> \in wire'
                               \/ r.step = "check" /\ r.id = ByCreate
      BY <1>3 DEF Sensible
    <3> QED BY <1>1, <1>4, <1>6, <2>1, <3>1 DEF RowIsOwed, Stored, EarlySteps
  <2>4. DetailsAreOwed(n)' /\ MentionIsOwed(n)'
    BY <1>6, <2>1 DEF DetailsAreOwed, MentionIsOwed, Stored, copyHistory
  <2> QED BY <2>2, <2>3, <2>4
<1>9. NoteIsSound(n)'
  BY <1>7, <1>8 DEF NoteIsSound, copyHistory, ActivitiesAreOnce
<1>10. \A m \in Notes \ {n} : SameOf(m)
  BY DEF SameOf, copyHistory
<1> QED BY <1>2, <1>3, <1>9, <1>10, OneNoteMoves

LEMMA ReceiveKeeps ==
  ASSUME CopiesSound, NEW h \in Handlers, NEW n \in Notes, NEW version \in 1..Gone, Receive(h, n, version)
  PROVE  CopiesSound'
<1> DEFINE r == [step |-> IF version = 1 THEN "check" ELSE "target", note |-> n, version |-> version,
                 id |-> ByCreate, known |-> FALSE]
<1>0. /\ RemoteCopiesTypeOK /\ NoteIsSound(n) /\ ~Working(h) /\ <<n, version>> \in wire
      /\ wire' = wire \ {<<n, version>>} /\ handler' = [handler EXCEPT ![h] = r]
      /\ UNCHANGED <<original, copy, told, fetches, losses, copyHistory>>
  BY DEF Receive, CopiesSound
<1>1. /\ r \in Handling /\ r.note = n /\ r.version = version /\ r.id = ByCreate /\ ~r.known
      /\ (version = 1 => r.step = "check") /\ (version # 1 => r.step = "target")
  BY RemoteCopiesAssumption DEF Handling, RowIds, ByCreate
<1> HIDE DEF r
<1>2. version <= original[n] /\ 1 <= MaxVersions
  BY <1>0, RemoteCopiesAssumption DEF NoteIsSound, ActivitiesAreOnce
<1>3. Sensible(r)
  BY <1>1, <1>2 DEF Sensible, EarlySteps, Details, Gone
<1>4. /\ handler'[h] = r /\ (\A g \in Handlers \ {h} : handler'[g] = handler[g])
      /\ handler' \in [Handlers -> Handling \cup {Unused}]
  BY <1>0, <1>1, HandlerMoves
<1>5. RemoteCopiesTypeOK'
  BY <1>0, <1>4 DEF RemoteCopiesTypeOK, copyHistory
<1>6. ActivitiesAreOnce(n)'
  <2>1. \A g \in Handlers \ {h} : Handles(g, n)' => Handles(g, n) /\ handler'[g] = handler[g]
    BY <1>4 DEF Handles, Working, NoteOf
  <2>2. \A v \in 1..Gone : <<n, v>> \in wire' => v <= original'[n]
    BY <1>0 DEF NoteIsSound, ActivitiesAreOnce
  <2>3. <<n, Gone>> \in wire' => handled'[n] # Gone /\ \A g \in Handlers : Handles(g, n)' => handler'[g].version # Gone
    BY <1>0, <1>1, <1>4, <2>1 DEF NoteIsSound, ActivitiesAreOnce, copyHistory
  <2>4. ASSUME NEW g \in Handlers, Handles(g, n)', handler'[g].version = Gone
        PROVE  handled'[n] # Gone /\ \A f \in Handlers : Handles(f, n)' /\ handler'[f].version = Gone => f = g
    <3>1. CASE version = Gone
      BY <1>0, <1>1, <1>4, <2>1, <2>4, <3>1 DEF NoteIsSound, ActivitiesAreOnce, copyHistory
    <3>2. CASE version # Gone
      BY <1>0, <1>1, <1>4, <2>1, <2>4, <3>2 DEF NoteIsSound, ActivitiesAreOnce, copyHistory
    <3> QED BY <3>1, <3>2
  <2> QED BY <1>0, <2>2, <2>3, <2>4 DEF ActivitiesAreOnce, NoteIsSound, copyHistory
<1>7. \A m \in Notes \ {n} : \A v \in 1..Gone : <<m, v>> \in wire' <=> <<m, v>> \in wire
  BY <1>0
<1>8. CASE version = 1
  BY <1>0, <1>1, <1>3, <1>5, <1>6, <1>7, <1>8, HandlingBegins
<1>9. CASE version # 1
  BY <1>0, <1>1, <1>3, <1>5, <1>6, <1>7, <1>9, HandlingBegins
<1> QED BY <1>8, <1>9

LEMMA FetchKeeps ==
  ASSUME CopiesSound, NEW h \in Handlers, NEW n \in Notes, Fetch(h, n)
  PROVE  CopiesSound'
<1> DEFINE r == [step |-> "find", note |-> n, version |-> original[n], id |-> fetches + 1, known |-> TRUE]
<1>0. /\ RemoteCopiesTypeOK /\ NoteIsSound(n) /\ ~Working(h) /\ fetches < MaxFetches /\ fetches' = fetches + 1
      /\ original[n] \in 1..MaxVersions /\ handler' = [handler EXCEPT ![h] = r]
      /\ UNCHANGED <<original, wire, copy, told, losses, copyHistory>>
  BY DEF Fetch, CopiesSound
<1>1. fetches + 1 \in 1..MaxFetches /\ original[n] \in 1..Gone /\ original[n] # Gone
  BY <1>0, RemoteCopiesAssumption DEF RemoteCopiesTypeOK, Gone
<1>2. /\ r \in Handling /\ r.note = n /\ r.version = original[n] /\ r.id # ByCreate /\ r.known
      /\ r.step = "find"
  BY <1>1, RemoteCopiesAssumption DEF Handling, RowIds, ByCreate
<1> HIDE DEF r
<1>3. Sensible(r)
  BY <1>0, <1>2 DEF Sensible
<1>4. /\ handler'[h] = r /\ (\A g \in Handlers \ {h} : handler'[g] = handler[g])
      /\ handler' \in [Handlers -> Handling \cup {Unused}]
  BY <1>0, <1>2, HandlerMoves
<1>5. RemoteCopiesTypeOK'
  BY <1>0, <1>1, <1>4 DEF RemoteCopiesTypeOK, copyHistory
<1>6. ActivitiesAreOnce(n)'
  <2>1. \A g \in Handlers \ {h} : Handles(g, n)' => Handles(g, n) /\ handler'[g] = handler[g]
    BY <1>4 DEF Handles, Working, NoteOf
  <2>2. \A g \in Handlers : Handles(g, n)' /\ handler'[g].version = Gone => Handles(g, n) /\ handler[g].version = Gone
    BY <1>1, <1>2, <1>4, <2>1
  <2>3. <<n, Gone>> \in wire' => handled'[n] # Gone /\ \A g \in Handlers : Handles(g, n)' => handler'[g].version # Gone
    BY <1>0, <2>2 DEF NoteIsSound, ActivitiesAreOnce, copyHistory
  <2> QED BY <1>0, <2>2, <2>3 DEF NoteIsSound, ActivitiesAreOnce, copyHistory
<1> QED BY <1>0, <1>2, <1>3, <1>5, <1>6, HandlingBegins

-----------------------------------------------------------------------------
(* The author's server, and losses                                         *)

LEMMA SendKeeps ==
  ASSUME CopiesSound, NEW n \in Notes, NEW version \in 1..Gone, Send(n, version),
         version > original[n], original[n] < Gone, version <= MaxVersions \/ version = Gone,
         original[n] = Unwritten => version = 1
  PROVE  CopiesSound'
<1>0. /\ RemoteCopiesTypeOK /\ HandlersAreCoherent /\ NoteIsSound(n)
      /\ original' = [original EXCEPT ![n] = version] /\ wire' = wire \cup {<<n, version>>}
      /\ UNCHANGED <<copy, told, handler, fetches, losses, copyHistory>>
  BY DEF Send, CopiesSound
<1>1. /\ original[n] \in 0..Gone /\ original'[n] = version /\ \A m \in Notes \ {n} : original'[m] = original[m]
      /\ MaxVersions \in Nat /\ Gone = MaxVersions + 1 /\ handled[n] \in 0..Gone
  BY <1>0, RemoteCopiesAssumption DEF RemoteCopiesTypeOK, Unwritten, Gone
<1>2. RemoteCopiesTypeOK'
  BY <1>0 DEF RemoteCopiesTypeOK, copyHistory, Unwritten, Activity
<1>3. \A h \in Handlers : Working(h) => NoteOf(h) \in Notes /\ handler[h].version \in 1..Gone
  BY <1>0, HandlerFacts DEF CopiesSound
<1>4. HandlersAreCoherent'
  BY <1>0, <1>1, <1>3 DEF HandlersAreCoherent, Working, NoteOf, AtStep, Ingesting
<1>5. \A h \in Handlers : Handles(h, n) => handler[h].version <= original[n] /\ handler[h].version \in 1..Gone
  BY <1>0, <1>3 DEF HandlersAreCoherent, Handles
<1>6. ActivitiesAreOnce(n)'
  BY <1>0, <1>1, <1>5 DEF NoteIsSound, ActivitiesAreOnce, copyHistory, Handles, Working, NoteOf
<1>7. CopyIsCurrent(n)'
  <2>1. Stored(n) => copy[n].version \in 1..MaxVersions
    BY <1>0 DEF RemoteCopiesTypeOK, Stored, Copy
  <2> QED BY <1>0, <1>1, <2>1 DEF NoteIsSound, CopyIsCurrent, copyHistory, Stored
<1>8. TargetsStay(n)' /\ KnownStays(n)'
  BY <1>0 DEF NoteIsSound, TargetsStay, KnownStays, copyHistory, Stored, Handles, Working, NoteOf, AtStep
<1>9. ASSUME n \notin torn PROVE NewestIsOwed(n)' /\ RowIsOwed(n)' /\ DetailsAreOwed(n)' /\ MentionIsOwed(n)'
  <2>1. RowIsOwed(n) /\ DetailsAreOwed(n) /\ MentionIsOwed(n)
    BY <1>0, <1>9 DEF NoteIsSound
  <2>2. NewestIsOwed(n)'
    BY <1>0, <1>1 DEF NewestIsOwed
  <2>3. RowIsOwed(n)'
    <3>1. CASE original[n] = Unwritten
      BY <1>0, <1>1, <3>1 DEF RowIsOwed
    <3>2. CASE original[n] # Unwritten
      BY <1>0, <1>1, <2>1, <3>2 DEF RowIsOwed, Stored, Handles, Working, NoteOf, Unwritten
    <3> QED BY <3>1, <3>2
  <2>4. DetailsAreOwed(n)' /\ MentionIsOwed(n)'
    BY <1>0, <2>1 DEF DetailsAreOwed, MentionIsOwed, Stored, Handles, Working, NoteOf, copyHistory
  <2> QED BY <2>2, <2>3, <2>4
<1>10. NoteIsSound(n)'
  BY <1>0, <1>6, <1>7, <1>8, <1>9 DEF NoteIsSound, copyHistory
<1>11. ASSUME NEW m \in Notes \ {n} PROVE NoteIsSound(m)'
  <2>1. SameOf(m)
    BY <1>0, <1>1 DEF SameOf, copyHistory
  <2>2. NoteIsSound(m)
    BY DEF CopiesSound
  <2> QED BY <1>0, <2>1, <2>2, OtherNotes DEF Handles, Working, NoteOf
<1> QED BY <1>2, <1>4, <1>10, <1>11 DEF CopiesSound

LEMMA WriteOrEditKeeps ==
  ASSUME CopiesSound, NEW n \in Notes, WriteOrEdit(n)
  PROVE  CopiesSound'
<1>1. original[n] \in 0..Gone /\ original[n] < MaxVersions /\ Send(n, original[n] + 1) /\ MaxVersions \in Nat
  BY RemoteCopiesAssumption DEF CopiesSound, RemoteCopiesTypeOK, Unwritten, WriteOrEdit
<1>2. PICK version \in 1..Gone : version = original[n] + 1
  BY <1>1 DEF Gone
<1> QED BY <1>1, <1>2, SendKeeps DEF Gone, Unwritten

LEMMA RetractKeeps ==
  ASSUME CopiesSound, NEW n \in Notes, Retract(n)
  PROVE  CopiesSound'
<1>1. original[n] \in 1..MaxVersions /\ Send(n, Gone) /\ MaxVersions \in Nat /\ Gone \in 1..Gone
  BY RemoteCopiesAssumption DEF Retract, Gone
<1>2. Gone > original[n] /\ original[n] # Unwritten
  BY <1>1 DEF Gone, Unwritten
<1> QED BY <1>1, <1>2, SendKeeps

LEMMA LoseKeeps ==
  ASSUME CopiesSound, NEW activity \in wire, Lose(activity)
  PROVE  CopiesSound'
<1>0. /\ RemoteCopiesTypeOK /\ HandlersAreCoherent /\ losses < MaxLosses /\ losses' = losses + 1
      /\ UNCHANGED <<original, copy, told, handler, fetches, handled, overtaken>>
  BY DEF CopiesSound, Lose
<1>1. PICK n \in Notes, version \in 1..Gone : activity = <<n, version>>
  BY <1>0 DEF RemoteCopiesTypeOK, Activity
<1>2. wire' = wire \ {<<n, version>>} /\ torn' = torn \cup {n}
  BY <1>1 DEF Lose
<1>3. RemoteCopiesTypeOK'
  BY <1>0, <1>2, RemoteCopiesAssumption DEF RemoteCopiesTypeOK
<1>4. HandlersAreCoherent'
  BY <1>0 DEF HandlersAreCoherent, Working, NoteOf, AtStep, Ingesting
<1>5. NoteIsSound(n)'
  BY <1>0, <1>2 DEF CopiesSound, NoteIsSound, ActivitiesAreOnce, TargetsStay, CopyIsCurrent, KnownStays, Handles,
     Working, NoteOf, AtStep, Stored
<1>6. ASSUME NEW m \in Notes \ {n} PROVE NoteIsSound(m)'
  <2>1. SameOf(m)
    BY <1>0, <1>2 DEF SameOf
  <2>2. NoteIsSound(m)
    BY DEF CopiesSound
  <2> QED BY <1>0, <2>1, <2>2, OtherNotes DEF Handles, Working, NoteOf
<1> QED BY <1>3, <1>4, <1>5, <1>6 DEF CopiesSound

LEMMA CopiesStep == CopiesSound /\ [RemoteCopiesNext]_remoteVars => CopiesSound'
<1> SUFFICES ASSUME CopiesSound, [RemoteCopiesNext]_remoteVars PROVE CopiesSound'
  OBVIOUS
<1>1. CASE UNCHANGED remoteVars
  <2>0. UNCHANGED <<original, wire, copy, told, handler, fetches, losses, handled, overtaken, torn>>
    BY <1>1 DEF remoteVars, copyHistory
  <2>1. \A n \in Notes : SameOf(n) /\ NoteIsSound(n)
    BY <2>0 DEF SameOf, CopiesSound
  <2>2. \A n \in Notes : NoteIsSound(n)'
    BY <2>0, <2>1, OtherNotes DEF Handles, Working, NoteOf, CopiesSound
  <2>3. RemoteCopiesTypeOK' /\ HandlersAreCoherent'
    BY <2>0 DEF CopiesSound, RemoteCopiesTypeOK, HandlersAreCoherent, Working, NoteOf, AtStep, Ingesting
  <2> QED BY <2>2, <2>3 DEF CopiesSound
<1>2. CASE RemoteCopiesNext
  BY <1>2, WriteOrEditKeeps, RetractKeeps, LoseKeeps, FetchKeeps, ReceiveKeeps, CheckIngestedKeeps, FindByUriKeeps,
     InsertCopyKeeps, AddDetailKeeps, NotifyMentionKeeps, FindTargetKeeps, ApplyUpdateKeeps, ApplyDeleteKeeps,
     HandlingFailsKeeps DEF RemoteCopiesNext
<1> QED BY <1>1, <1>2

LEMMA CopiesHold == RemoteCopiesSpec => []CopiesSound
BY CopiesBegin, CopiesStep, PTL DEF RemoteCopiesSpec

(* For any number of posts, edits, handlers and searches: once all of a    *)
(* post's activities are handled its copy is complete and at the author's  *)
(* version, or gone with the post, unless one was overtaken or torn off.   *)
THEOREM CopiesCatchUp == RemoteCopiesSpec => []CopiesFollowAuthor
<1>1. CopiesSound => CopiesFollowAuthor
  <2> SUFFICES ASSUME CopiesSound, NEW n \in Notes \ (overtaken \cup torn), AtPeace(n)
               PROVE  IF original[n] \in 1..MaxVersions
                        THEN /\ Stored(n)
                             /\ copy[n].version = original[n]
                             /\ copy[n].details = Details
                             /\ copy[n].id = ByCreate => n \in told
                        ELSE ~Stored(n)
    BY DEF CopiesFollowAuthor
  <2>0. /\ RemoteCopiesTypeOK /\ NoteIsSound(n) /\ MaxVersions \in Nat \ {0} /\ Gone = MaxVersions + 1
        /\ original[n] \in 0..Gone
    BY RemoteCopiesAssumption DEF CopiesSound, RemoteCopiesTypeOK, Unwritten, Gone
  <2>1. \A h \in Handlers : ~Handles(h, n)
    BY DEF AtPeace, Handles
  <2>2. original[n] # 0 => <<n, original[n]>> \notin wire /\ <<n, 1>> \notin wire
    BY <2>0 DEF AtPeace
  <2>3. original[n] >= 2 => handled[n] = original[n]
    BY <2>0, <2>1, <2>2 DEF NoteIsSound, NewestIsOwed
  <2>4. Stored(n) => /\ copy[n].version \in 1..MaxVersions /\ copy[n].version <= original[n]
                     /\ handled[n] <= copy[n].version
    BY <2>0 DEF NoteIsSound, CopyIsCurrent, RemoteCopiesTypeOK, Stored, Copy
  <2>5. CASE original[n] \in 1..MaxVersions
    <3>1. Stored(n)
      BY <2>0, <2>1, <2>2, <2>5 DEF NoteIsSound, RowIsOwed
    <3>2. copy[n].version = original[n]
      BY <2>3, <2>4, <2>5, <3>1
    <3>3. copy[n].details = Details
      BY <2>0, <2>1, <3>1 DEF NoteIsSound, DetailsAreOwed
    <3>4. copy[n].id = ByCreate => n \in told
      BY <2>0, <2>1, <3>1 DEF NoteIsSound, MentionIsOwed
    <3> QED BY <2>5, <3>1, <3>2, <3>3, <3>4
  <2>6. CASE original[n] \notin 1..MaxVersions
    BY <2>0, <2>3, <2>4, <2>6
  <2> QED BY <2>5, <2>6
<1> QED BY <1>1, CopiesHold, PTL

-----------------------------------------------------------------------------
(* Least and greatest elements                                             *)

LEMMA LeastNatural ==
  ASSUME NEW T, T \subseteq Nat, T # {}
  PROVE  \E m \in T : \A k \in T : m <= k
<1>1. PICK R : IsWellFoundedOn(R, Nat) /\ \A x, y \in Nat : x < y => <<x, y>> \in R
  <2> DEFINE R == OpToRel(<, Nat)
  <2>1. IsWellFoundedOn(R, Nat)
    BY NatLessThanWellFounded, Zenon
  <2>2. \A x, y \in Nat : x < y => <<x, y>> \in R
    BY Zenon DEF OpToRel
  <2> HIDE DEF R
  <2> QED BY <2>1, <2>2
<1>2. IsWellFoundedOn(R, Nat)
  BY <1>1
<1>3. PICK m \in T : \A k \in T : ~(<<k, m>> \in R)
  BY <1>2, WFMin, Zenon
<1>4. \A k \in T : k \in Nat /\ m \in Nat /\ ~(k < m)
  BY <1>1, <1>3
<1> QED BY <1>4

LEMMA GreatestBelow ==
  ASSUME NEW ceiling \in Nat, NEW T, T \subseteq 0..ceiling, T # {}
  PROVE  \E m \in T : \A k \in T : k <= m
<1> DEFINE mirror == {ceiling - k : k \in T}
<1>0. \A k \in T : k \in Nat /\ k <= ceiling /\ ceiling - k \in Nat
  <2>1. \A k \in T : k \in 0..ceiling
    OBVIOUS
  <2> QED BY <2>1
<1>1. mirror \subseteq Nat /\ mirror # {}
  BY <1>0
<1>2. PICK d \in mirror : \A k \in mirror : d <= k
  <2> HIDE DEF mirror
  <2> QED BY <1>1, LeastNatural
<1>3. PICK m \in T : d = ceiling - m
  OBVIOUS
<1>4. \A k \in T : ceiling - m <= ceiling - k
  BY <1>2, <1>3
<1> HIDE DEF mirror
<1> QED BY <1>0, <1>4

LEMMA MinOfNaturals ==
  ASSUME NEW T, T \subseteq Nat, T # {}
  PROVE  Min(T) \in T /\ \A k \in T : Min(T) <= k
<1>1. \E m \in T : \A k \in T : m <= k
  BY LeastNatural
<1> QED BY <1>1 DEF Min

LEMMA MaxBelow ==
  ASSUME NEW ceiling \in Nat, NEW T, T \subseteq 0..ceiling, T # {}
  PROVE  Max(T) \in T /\ \A k \in T : k <= Max(T)
<1>0. \A k \in T : k \in Nat
  <2>1. \A k \in T : k \in 0..ceiling
    OBVIOUS
  <2> QED BY <2>1
<1>1. \E m \in T : \A k \in T : m >= k
  <2>1. PICK m \in T : \A k \in T : k <= m
    BY GreatestBelow
  <2> QED BY <1>0, <2>1
<1>2. Max(T) \in T /\ \A k \in T : Max(T) >= k
  BY <1>1 DEF Max
<1> QED BY <1>0, <1>2

LEMMA TimelineFacts ==
  /\ MaxPosts \in Nat /\ Top = MaxPosts + 1 /\ Timeline \subseteq 0..MaxPosts /\ Timeline \subseteq Nat
  /\ \A S \in SUBSET Timeline : IsFiniteSet(S) /\ Cardinality(S) \in Nat
  /\ BatchLimit \in Nat \ {0} /\ PageLimit \in Nat \ {0}
<1>1. MaxPosts \in Nat /\ Top = MaxPosts + 1 /\ Timeline \subseteq 0..MaxPosts /\ Timeline \subseteq Nat
  BY TimelinesAssumption DEF Top, Timeline
<1>2. ASSUME NEW S \in SUBSET Timeline PROVE IsFiniteSet(S) /\ Cardinality(S) \in Nat
  <2>1. IsFiniteSet(Timeline)
    BY <1>1, FS_Interval DEF Timeline
  <2> QED BY <2>1, FS_Subset, FS_CardinalityType
<1>3. BatchLimit \in Nat \ {0} /\ PageLimit \in Nat \ {0}
  BY TimelinesAssumption DEF BatchLimit
<1> QED BY <1>1, <1>2, <1>3

(* Of the n highest ids each is above every other id of the set; there is  *)
(* one if the set has any; and fewer than n are the whole set.             *)
LEMMA HighestFacts ==
  ASSUME NEW S \in SUBSET Timeline, NEW n \in Nat \ {0}
  PROVE  /\ Highest(S, n) \subseteq S
         /\ \A p \in S \ Highest(S, n) : \A q \in Highest(S, n) : p < q
         /\ S # {} => Highest(S, n) # {}
         /\ Cardinality(Highest(S, n)) < n => Highest(S, n) = S
<1> DEFINE Above(p) == {q \in S : q > p}
<1>1. \A p \in S : p \in Highest(S, n) <=> Cardinality(Above(p)) < n
  BY DEF Highest
<1>2. PICK top : top = Highest(S, n) /\ top \subseteq S
  BY DEF Highest
<1>3. \A T \in SUBSET S : IsFiniteSet(T) /\ Cardinality(T) \in Nat
  BY TimelineFacts
<1>4. \A p \in S : p \in Nat /\ p \in 0..MaxPosts
  BY TimelineFacts
<1>5. ASSUME NEW p \in S \ top, NEW q \in top PROVE p < q
  <2> SUFFICES ASSUME ~(p < q) PROVE FALSE
    OBVIOUS
  <2>1. q < p
    BY <1>2, <1>4, <1>5
  <2>2. Above(p) \subseteq Above(q) /\ Above(q) \subseteq S
    BY <1>2, <1>4, <2>1
  <2>3. Cardinality(Above(p)) <= Cardinality(Above(q))
    BY <1>3, <2>2, FS_Subset
  <2>4. Cardinality(Above(q)) < n /\ Cardinality(Above(p)) \in Nat /\ Cardinality(Above(q)) \in Nat
    BY <1>1, <1>2, <1>3
  <2>5. Cardinality(Above(p)) < n
    <3> HIDE DEF Above
    <3> QED BY <2>3, <2>4
  <2> QED BY <1>1, <1>2, <1>5, <2>5
<1>6. ASSUME S # {} PROVE top # {}
  <2>1. PICK m \in S : \A k \in S : k <= m
    BY <1>4, <1>6, GreatestBelow, TimelineFacts
  <2>2. Above(m) = {}
    BY <1>4, <2>1
  <2>3. Cardinality(Above(m)) = 0
    BY <2>2, FS_EmptySet
  <2> QED BY <1>1, <1>2, <2>3
<1>7. ASSUME Cardinality(top) < n PROVE top = S
  <2> SUFFICES ASSUME S \ top # {} PROVE FALSE
    BY <1>2
  <2>1. S \ top \subseteq 0..MaxPosts
    BY <1>4
  <2>2. PICK m \in S \ top : \A k \in S \ top : k <= m
    <3> DEFINE rest == S \ top
    <3>1. rest # {} /\ rest \subseteq 0..MaxPosts
      BY <2>1
    <3> HIDE DEF rest
    <3>2. \E m \in rest : \A k \in rest : k <= m
      BY <3>1, GreatestBelow, TimelineFacts
    <3> QED BY <3>2 DEF rest
  <2>3. Above(m) \subseteq top
    BY <1>2, <1>4, <2>2
  <2>4. Cardinality(Above(m)) <= Cardinality(top)
    BY <1>2, <1>3, <2>3, FS_Subset
  <2>5. Cardinality(Above(m)) \in Nat /\ Cardinality(top) \in Nat
    BY <1>2, <1>3
  <2>6. Cardinality(Above(m)) < n
    <3> HIDE DEF Above
    <3> QED BY <1>7, <2>4, <2>5
  <2> QED BY <1>1, <1>2, <2>2, <2>6
<1> QED BY <1>2, <1>5, <1>6, <1>7

LEMMA LowestFacts ==
  ASSUME NEW S \in SUBSET Timeline, NEW n \in Nat \ {0}
  PROVE  /\ Lowest(S, n) \subseteq S
         /\ \A p \in S \ Lowest(S, n) : \A q \in Lowest(S, n) : q < p
         /\ S # {} => Lowest(S, n) # {}
<1> DEFINE Below(p) == {q \in S : q < p}
<1>1. \A p \in S : p \in Lowest(S, n) <=> Cardinality(Below(p)) < n
  BY DEF Lowest
<1>2. PICK low : low = Lowest(S, n) /\ low \subseteq S
  BY DEF Lowest
<1>3. \A T \in SUBSET S : IsFiniteSet(T) /\ Cardinality(T) \in Nat
  BY TimelineFacts
<1>4. \A p \in S : p \in Nat /\ p \in 0..MaxPosts
  BY TimelineFacts
<1>5. ASSUME NEW p \in S \ low, NEW q \in low PROVE q < p
  <2> SUFFICES ASSUME ~(q < p) PROVE FALSE
    OBVIOUS
  <2>1. p < q
    BY <1>2, <1>4, <1>5
  <2>2. Below(p) \subseteq Below(q) /\ Below(q) \subseteq S
    BY <1>2, <1>4, <2>1
  <2>3. Cardinality(Below(p)) <= Cardinality(Below(q))
    BY <1>3, <2>2, FS_Subset
  <2>4. Cardinality(Below(q)) < n /\ Cardinality(Below(p)) \in Nat /\ Cardinality(Below(q)) \in Nat
    BY <1>1, <1>2, <1>3
  <2>5. Cardinality(Below(p)) < n
    <3> HIDE DEF Below
    <3> QED BY <2>3, <2>4
  <2> QED BY <1>1, <1>2, <1>5, <2>5
<1>6. ASSUME S # {} PROVE low # {}
  <2>1. PICK m \in S : \A k \in S : m <= k
    <3>1. S \subseteq Nat
      BY <1>4
    <3> QED BY <1>6, <3>1, LeastNatural
  <2>2. Below(m) = {}
    BY <1>4, <2>1
  <2>3. Cardinality(Below(m)) = 0
    BY <2>2, FS_EmptySet
  <2> QED BY <1>1, <1>2, <2>3
<1> QED BY <1>2, <1>5, <1>6

-----------------------------------------------------------------------------
(* A walk through a timeline                                               *)

(* What the walk has still to pass.                                        *)
Ahead == {p \in Timeline : IF walk.mode = "older" THEN p < walk.cursor ELSE walk.cursor < p}

Filling == page # Closed

(* What is owed stands, and neither the viewer nor the open page hides it. *)
OwedIsDue ==
  /\ owed \subseteq shelf /\ owed \cap Of(shunned) = {}
  /\ walk = Ashore => owed = {}
  /\ Filling => Walking /\ owed \cap Of(page.hidden) = {}

(* The page holds what it has read of what is ahead, and goes down.        *)
PageIsAhead ==
  Filling =>
    /\ page.found \subseteq Ahead
    /\ \A p \in page.found : page.upper <= p
    /\ walk.mode = "older" => page.upper <= walk.cursor

(* What is owed was seen or is ahead, on the page or still to be read.     *)
OwedIsAhead ==
  \A p \in owed \ (walk.seen \cup skipped) :
    ~walk.ended /\ p \in Ahead /\ (Filling => p \in page.found \/ p < page.upper)

WalkIsSound ==
  walk # Ashore => /\ ~walk.repeated /\ walk.seen \cap Ahead = {}
                   /\ PageIsAhead /\ OwedIsAhead

TimelinesSound == TimelinesTypeOK /\ OwedIsDue /\ WalkIsSound

LEMMA TimelinesBegin == TimelinesInit => TimelinesSound
<1> SUFFICES ASSUME TimelinesInit PROVE TimelinesSound
  OBVIOUS
<1>1. TimelinesTypeOK
  BY TimelinesAssumption DEF TimelinesInit, TimelinesTypeOK
<1> QED BY <1>1 DEF TimelinesInit, TimelinesSound, OwedIsDue, WalkIsSound, Filling

LEMMA WalkFacts ==
  ASSUME TimelinesTypeOK
  PROVE  /\ walk # Ashore <=> walk \in Walk
         /\ Filling <=> page \in Page
         /\ minted \in Nat /\ owed \subseteq Timeline /\ shelf \subseteq Timeline /\ skipped \subseteq Timeline
<1>1. walk \in Walk => walk # Ashore
  BY DEF Walk, Ashore
<1>2. page \in Page => page # Closed
  BY DEF Page, Closed
<1> QED BY <1>1, <1>2, TimelinesAssumption DEF TimelinesTypeOK, Filling

(* Steps of the rest of the server: the walk stands still.                 *)
LEMMA ServerMoves ==
  ASSUME TimelinesSound, TimelinesTypeOK', UNCHANGED <<walk, page, skipped>>,
         owed' \subseteq owed, owed' \subseteq shelf', owed' \cap Of(shunned') = {}
  PROVE  TimelinesSound'
<1>1. OwedIsDue'
  BY DEF TimelinesSound, OwedIsDue, Filling, Walking, Of
<1>2. WalkIsSound'
  BY DEF TimelinesSound, WalkIsSound, PageIsAhead, OwedIsAhead, Filling, Ahead
<1> QED BY <1>1, <1>2 DEF TimelinesSound

LEMMA MintKeeps ==
  ASSUME TimelinesSound, Mint
  PROVE  TimelinesSound'
<1>1. minted + 1 \in Timeline /\ minted' \in 0..MaxPosts
  BY TimelinesAssumption DEF Mint, TimelinesSound, TimelinesTypeOK, Timeline
<1>2. TimelinesTypeOK'
  BY <1>1 DEF Mint, TimelinesSound, TimelinesTypeOK
<1> QED BY <1>2, ServerMoves DEF Mint, TimelinesSound, OwedIsDue

LEMMA PublishKeeps ==
  ASSUME TimelinesSound, NEW p \in Timeline, Publish(p)
  PROVE  TimelinesSound'
<1>1. TimelinesTypeOK'
  BY DEF Publish, TimelinesSound, TimelinesTypeOK
<1> QED BY <1>1, ServerMoves DEF Publish, TimelinesSound, OwedIsDue

LEMMA WithdrawKeeps ==
  ASSUME TimelinesSound, NEW p \in Timeline, Withdraw(p)
  PROVE  TimelinesSound'
<1>1. TimelinesTypeOK'
  BY DEF Withdraw, TimelinesSound, TimelinesTypeOK
<1> QED BY <1>1, ServerMoves DEF Withdraw, TimelinesSound, OwedIsDue

LEMMA ToggleKeeps ==
  ASSUME TimelinesSound, NEW w \in Writers, Toggle(w)
  PROVE  TimelinesSound'
<1>1. toggles' \in 0..MaxToggles
  BY TimelinesAssumption DEF Toggle, TimelinesSound, TimelinesTypeOK
<1>2. TimelinesTypeOK'
  BY <1>1 DEF Toggle, TimelinesSound, TimelinesTypeOK
<1>3. owed' \cap Of(shunned') = {}
  BY DEF Toggle, TimelinesSound, OwedIsDue, Of
<1> QED BY <1>2, <1>3, ServerMoves DEF Toggle, TimelinesSound, OwedIsDue

LEMMA StartWalkKeeps ==
  ASSUME TimelinesSound, NEW mode \in {"older", "newer"}, NEW cursor \in 0..Top, StartWalk(mode, cursor)
  PROVE  TimelinesSound'
<1> DEFINE w == [mode |-> mode, cursor |-> cursor, seen |-> {}, repeated |-> FALSE, ended |-> FALSE]
<1>1. /\ walk = Ashore /\ walk' = w
      /\ UNCHANGED <<minted, unborn, shelf, shunned, toggles, page, owed, skipped>>
  BY DEF StartWalk
<1>2. w \in Walk /\ ~w.repeated /\ w.seen = {}
  BY DEF Walk
<1> HIDE DEF w
<1>3. TimelinesTypeOK'
  BY <1>1, <1>2 DEF TimelinesSound, TimelinesTypeOK
<1>4. owed = {} /\ page = Closed
  BY <1>1 DEF TimelinesSound, OwedIsDue, Filling, Walking
<1>5. OwedIsDue'
  BY <1>1, <1>4 DEF OwedIsDue, Filling
<1>6. WalkIsSound'
  BY <1>1, <1>2, <1>4 DEF WalkIsSound, PageIsAhead, OwedIsAhead, Filling
<1> QED BY <1>3, <1>5, <1>6 DEF TimelinesSound

LEMMA OpenPageKeeps ==
  ASSUME TimelinesSound, OpenPage
  PROVE  TimelinesSound'
<1> DEFINE upper == IF walk.mode = "older" THEN walk.cursor ELSE Top
           opened == [step |-> "fill", hidden |-> shunned, found |-> {}, batches |-> 0, upper |-> upper]
<1>1. /\ Walking /\ walk \in Walk /\ page' = opened
      /\ owed' = owed \cup (InRange(shelf, Lower, page'.upper) \ Of(shunned))
      /\ UNCHANGED <<minted, unborn, shelf, shunned, toggles, walk, skipped>>
  BY WalkFacts DEF OpenPage, TimelinesSound, Walking
<1>2. upper \in 0..Top /\ (walk.mode = "older" => upper <= walk.cursor) /\ \A p \in Ahead : p < upper
  <2>1. walk.cursor \in 0..Top /\ Top \in Nat /\ \A p \in Timeline : p \in Nat /\ p < Top
    BY <1>1, TimelineFacts DEF Walk, Timeline
  <2> QED BY <1>1, <2>1 DEF Ahead
<1>3. PICK r \in Page : page' = r /\ r.hidden = shunned /\ r.found = {} /\ r.upper = upper
  <2>1. opened \in Page
    BY <1>2, TimelinesAssumption DEF Page, TimelinesSound, TimelinesTypeOK
  <2> QED BY <1>1, <2>1
<1>4. \A p \in InRange(shelf, Lower, upper) : p \in shelf /\ p \in Ahead
  <2>1. walk.cursor \in 0..Top /\ walk.mode \in {"older", "newer"} /\ shelf \subseteq Timeline
    BY <1>1, WalkFacts DEF Walk, TimelinesSound
  <2> QED BY <2>1 DEF InRange, Lower, Ahead
<1> HIDE DEF opened, upper
<1>5. owed' \subseteq shelf /\ owed' \cap Of(shunned) = {} /\ owed' \subseteq owed \cup Ahead
  BY <1>1, <1>3, <1>4 DEF TimelinesSound, OwedIsDue
<1>6. TimelinesTypeOK'
  BY <1>1, <1>3, <1>5 DEF TimelinesSound, TimelinesTypeOK
<1>7. walk # Ashore
  BY <1>1 DEF Walking
<1>8. OwedIsDue'
  BY <1>1, <1>3, <1>5, <1>7 DEF OwedIsDue, Walking, Of
<1>9. WalkIsSound'
  <2>1. ~walk.repeated /\ walk.seen \cap Ahead = {} /\ OwedIsAhead
    BY <1>7 DEF TimelinesSound, WalkIsSound
  <2>2. PageIsAhead'
    BY <1>1, <1>2, <1>3 DEF PageIsAhead
  <2>3. OwedIsAhead'
    BY <1>1, <1>2, <1>3, <1>5, <2>1 DEF OwedIsAhead, Ahead, Walking
  <2> QED BY <1>1, <2>1, <2>2, <2>3 DEF WalkIsSound, Ahead
<1> QED BY <1>6, <1>8, <1>9 DEF TimelinesSound

(* One batch: what is owed is now among the found or below the last id     *)
(* read, and a batch that is not full has read everything.                 *)
LEMMA BatchFacts ==
  ASSUME TimelinesSound, Filling, NEW batch, NEW found, NEW last,
         batch = Highest(InRange(shelf, Lower, page.upper), BatchLimit),
         found = page.found \cup (batch \ Of(page.hidden)),
         last = IF batch = {} THEN page.upper ELSE Min(batch)
  PROVE  /\ found \subseteq Ahead /\ \A p \in found : last <= p
         /\ last \in 0..Top /\ last <= page.upper
         /\ Cardinality(batch) < BatchLimit \/ last \in Timeline
         /\ \A p \in owed \ (walk.seen \cup skipped) :
              /\ p \in shelf /\ Lower < p /\ (p \in found \/ p < last)
              /\ Cardinality(batch) < BatchLimit => p \in found
<1> DEFINE range == InRange(shelf, Lower, page.upper)
           pending == owed \ (walk.seen \cup skipped)
<1>1. page \in Page /\ walk \in Walk /\ walk # Ashore /\ owed \subseteq shelf /\ shelf \subseteq Timeline
  BY WalkFacts DEF TimelinesSound, OwedIsDue, Walking
<1>2. /\ page.upper \in 0..Top /\ page.found \subseteq Timeline
      /\ walk.cursor \in 0..Top /\ walk.mode \in {"older", "newer"} /\ Top \in Nat
  BY <1>1, TimelineFacts DEF Page, Walk
<1>3. \A p \in Timeline : p \in Nat /\ 0 < p /\ p < Top
  BY TimelineFacts DEF Timeline
<1>4. range \subseteq shelf /\ \A p \in range : Lower < p /\ p < page.upper
  BY DEF InRange
<1>5. /\ batch \subseteq range /\ \A p \in range \ batch : \A q \in batch : p < q
      /\ range # {} => batch # {}
      /\ Cardinality(batch) < BatchLimit => batch = range
  BY <1>1, <1>4, HighestFacts, TimelineFacts
<1>6. batch \subseteq Timeline
  BY <1>1, <1>4, <1>5
<1>7. batch # {} => last \in batch /\ \A q \in batch : last <= q
  BY <1>6, MinOfNaturals, TimelineFacts
<1>8. PageIsAhead /\ OwedIsAhead
  BY <1>1 DEF TimelinesSound, WalkIsSound
<1>9. page.found \subseteq Ahead /\ \A p \in page.found : page.upper <= p
  BY <1>8 DEF PageIsAhead
<1>10. walk.mode = "older" => page.upper <= walk.cursor
  BY <1>8 DEF PageIsAhead
<1> HIDE DEF range
<1>11. last \in 0..Top /\ last <= page.upper
  <2>1. CASE batch = {}
    BY <1>2, <2>1
  <2>2. CASE batch # {}
    <3>1. last \in Timeline /\ last < page.upper
      BY <1>4, <1>5, <1>6, <1>7, <2>2
    <3> QED BY <1>2, <1>3, <3>1
  <2> QED BY <2>1, <2>2
<1>12. \A p \in range : p \in Ahead
  <2> SUFFICES ASSUME NEW p \in range PROVE p \in Ahead
    OBVIOUS
  <2>1. p \in Timeline /\ Lower < p /\ p < page.upper
    BY <1>1, <1>4
  <2>2. CASE walk.mode = "older"
    BY <1>2, <1>3, <1>10, <2>1, <2>2 DEF Ahead
  <2>3. CASE walk.mode = "newer"
    BY <1>2, <2>1, <2>3 DEF Ahead, Lower
  <2> QED BY <1>2, <2>2, <2>3
<1>13. found \subseteq Ahead
  BY <1>5, <1>9, <1>12
<1>14. \A p \in found : last <= p
  <2> SUFFICES ASSUME NEW p \in found PROVE last <= p
    OBVIOUS
  <2>1. CASE p \in page.found
    BY <1>2, <1>3, <1>9, <1>11, <2>1
  <2>2. CASE p \in batch
    BY <1>7, <2>2
  <2> QED BY <2>1, <2>2
<1>15. Cardinality(batch) < BatchLimit \/ last \in Timeline
  <2>1. batch = {} => Cardinality(batch) < BatchLimit
    BY FS_EmptySet, TimelineFacts
  <2> QED BY <1>6, <1>7, <2>1
<1>16. ASSUME NEW p \in pending
       PROVE  /\ p \in shelf /\ Lower < p /\ (p \in found \/ p < last)
              /\ Cardinality(batch) < BatchLimit => p \in found
  <2>1. p \in shelf /\ p \in Timeline /\ p \in Ahead /\ p \notin Of(page.hidden)
    BY <1>1, <1>8 DEF OwedIsAhead, TimelinesSound, OwedIsDue
  <2>2. p \in page.found \/ p < page.upper
    BY <1>8 DEF OwedIsAhead
  <2>3. Lower < p
    BY <1>2, <1>3, <2>1 DEF Lower, Ahead, NoCursor
  <2>4. CASE p \in page.found
    BY <2>1, <2>3, <2>4
  <2>5. CASE p < page.upper
    <3>1. p \in range
      BY <2>1, <2>3, <2>5 DEF range, InRange
    <3>2. CASE p \in batch
      BY <2>1, <2>3, <3>2
    <3>3. CASE p \notin batch
      BY <1>5, <1>7, <2>1, <2>3, <3>1, <3>3
    <3> QED BY <3>2, <3>3
  <2> QED BY <2>2, <2>4, <2>5
<1> QED BY <1>11, <1>13, <1>14, <1>15, <1>16

LEMMA GoOnKeeps ==
  ASSUME TimelinesSound, Filling, NEW found, NEW last, page.batches + 1 < MaxFill,
         found \subseteq Ahead, \A p \in found : last <= p, last \in 0..Top, last <= page.upper,
         \A p \in owed \ (walk.seen \cup skipped) : p \in found \/ p < last,
         page' = [page EXCEPT !.found = found, !.upper = last, !.batches = @ + 1],
         UNCHANGED <<minted, unborn, shelf, shunned, toggles, walk, owed, skipped>>
  PROVE  TimelinesSound'
<1>1. page \in Page /\ walk \in Walk /\ walk # Ashore
  BY WalkFacts DEF TimelinesSound, OwedIsDue, Walking
<1>2. page.batches + 1 \in 0..MaxFill /\ found \subseteq Timeline
  BY <1>1, TimelinesAssumption DEF Page, Ahead
<1>3. PICK r \in Page : page' = r /\ r.hidden = page.hidden /\ r.found = found /\ r.upper = last
  <2> DEFINE r == [step |-> "fill", hidden |-> page.hidden, upper |-> last, found |-> found,
                   batches |-> page.batches + 1]
  <2>1. r \in Page
    BY <1>1, <1>2 DEF Page
  <2>2. page = [step |-> page.step, hidden |-> page.hidden, upper |-> page.upper,
                found |-> page.found, batches |-> page.batches] /\ page.step = "fill"
    BY <1>1 DEF Page
  <2>3. page' = r
    BY <2>2
  <2> QED BY <2>1, <2>3
<1>4. TimelinesTypeOK'
  BY <1>3 DEF TimelinesSound, TimelinesTypeOK
<1>5. OwedIsDue'
  BY <1>3 DEF TimelinesSound, OwedIsDue, Walking, Filling, Of
<1>6. ~walk.repeated /\ walk.seen \cap Ahead = {} /\ PageIsAhead /\ OwedIsAhead
  BY <1>1 DEF TimelinesSound, WalkIsSound
<1>7. PageIsAhead'
  <2>1. walk.mode = "older" => last <= walk.cursor
    <3>1. walk.cursor \in 0..Top /\ page.upper \in 0..Top /\ Top \in Nat
      BY <1>1, TimelineFacts DEF Walk, Page
    <3>2. walk.mode = "older" => page.upper <= walk.cursor
      BY <1>6 DEF PageIsAhead
    <3> QED BY <3>1, <3>2
  <2> QED BY <1>3, <2>1 DEF PageIsAhead, Ahead
<1>8. OwedIsAhead'
  BY <1>3, <1>6 DEF OwedIsAhead, Ahead
<1> QED BY <1>4, <1>5, <1>6, <1>7, <1>8 DEF TimelinesSound, WalkIsSound, Ahead

(* A page that is served moves the walk past what it shows, and past what  *)
(* it read without finding anything to show.                               *)
LEMMA ServePageKeeps ==
  ASSUME TimelinesSound, Filling, NEW found, NEW capped \in BOOLEAN, NEW last,
         ServePage(found, capped, last),
         found \subseteq Ahead, \A p \in found : last <= p, last \in 0..Top, last <= page.upper,
         \A p \in owed \ (walk.seen \cup skipped) : p \in shelf /\ Lower < p /\ (p \in found \/ p < last),
         capped => last \in Timeline,
         ~capped /\ (walk.mode = "newer" \/ found = {}) =>
           owed \ (walk.seen \cup skipped) \subseteq found,
         UNCHANGED <<minted, unborn, shelf, shunned, toggles, owed>>
  PROVE  TimelinesSound'
<1>1. page \in Page /\ walk \in Walk /\ walk # Ashore
  BY WalkFacts DEF TimelinesSound, OwedIsDue, Walking
<1>2. /\ walk.cursor \in 0..Top /\ walk.mode \in {"older", "newer"} /\ walk.seen \subseteq Timeline
      /\ Top \in Nat /\ PageLimit \in Nat \ {0} /\ shelf \subseteq Timeline /\ skipped \subseteq Timeline
  BY <1>1, TimelineFacts DEF Walk, TimelinesSound, TimelinesTypeOK
<1>3. \A p \in Timeline : p \in Nat /\ 0 < p /\ p < Top /\ p \in 0..Top /\ p # NoCursor
  BY TimelineFacts DEF Timeline, NoCursor
<1>4. ~walk.ended /\ ~walk.repeated /\ walk.seen \cap Ahead = {} /\ PageIsAhead /\ OwedIsAhead
  BY <1>1 DEF TimelinesSound, WalkIsSound, OwedIsDue, Walking
<1>5. found \subseteq Timeline
  BY DEF Ahead
<1>6. PICK items : items = Paginate(found)
  OBVIOUS
<1>7. items \subseteq found /\ (found # {} => items # {})
  BY <1>2, <1>5, <1>6, HighestFacts, LowestFacts DEF Paginate
<1>8. walk.mode = "older" => \A p \in found \ items : \A q \in items : p < q
  BY <1>2, <1>5, <1>6, HighestFacts DEF Paginate
<1>9. walk.mode = "newer" => \A p \in found \ items : \A q \in items : q < p
  BY <1>2, <1>5, <1>6, LowestFacts DEF Paginate
<1>10. PICK link : link = Link(items, capped, last)
  OBVIOUS
<1>11. PICK cursor : cursor = IF link = NoCursor THEN walk.cursor ELSE link
  OBVIOUS
<1>12. items # {} /\ walk.mode = "older" => link \in items /\ \A q \in items : link <= q
  BY <1>5, <1>7, <1>10, MinOfNaturals, TimelineFacts DEF Link
<1>13. items # {} /\ walk.mode = "newer" => link \in items /\ \A q \in items : q <= link
  <2> SUFFICES ASSUME items # {}, walk.mode = "newer"
               PROVE  link \in items /\ \A q \in items : q <= link
    OBVIOUS
  <2>1. items \subseteq 0..MaxPosts /\ MaxPosts \in Nat
    BY <1>5, <1>7, TimelineFacts
  <2>2. link = Max(items)
    BY <1>10 DEF Link
  <2> QED BY <2>1, <2>2, MaxBelow
<1>14. items = {} => link = IF capped /\ walk.mode = "older" THEN last ELSE NoCursor
  BY <1>10 DEF Link
<1>15. cursor \in 0..Top
  <2>1. link \in Timeline \/ link = NoCursor
    BY <1>2, <1>5, <1>7, <1>12, <1>13, <1>14
  <2> QED BY <1>2, <1>3, <1>11, <2>1
<1>16. items \cap walk.seen = {}
  BY <1>4, <1>7
<1>17. PICK w \in Walk : /\ walk' = w /\ w.mode = walk.mode /\ w.cursor = cursor
                         /\ w.seen = walk.seen \cup items /\ ~w.repeated /\ (w.ended <=> link = NoCursor)
  <2>1. PICK ended \in BOOLEAN : ended <=> link = NoCursor
    OBVIOUS
  <2> DEFINE w == [mode |-> walk.mode, cursor |-> cursor, seen |-> walk.seen \cup items,
                   repeated |-> FALSE, ended |-> ended]
  <2>2. w \in Walk
    BY <1>2, <1>5, <1>7, <1>15 DEF Walk
  <2>3. walk' = [walk EXCEPT !.seen = @ \cup items,
                             !.repeated = @ \/ items \cap walk.seen # {},
                             !.ended = link = NoCursor,
                             !.cursor = IF link = NoCursor THEN @ ELSE link]
    BY <1>6, <1>10 DEF ServePage
  <2>4. walk = [mode |-> walk.mode, cursor |-> walk.cursor, seen |-> walk.seen,
                repeated |-> walk.repeated, ended |-> walk.ended] /\ walk.repeated = FALSE
    BY <1>1, <1>4 DEF Walk
  <2>5. (items \cap walk.seen # {}) = FALSE
    BY <1>16
  <2>6. (link = NoCursor) = ended
    BY <2>1
  <2>7. walk' = w
    BY <1>11, <2>3, <2>4, <2>5, <2>6
  <2> QED BY <2>1, <2>2, <2>7
<1>18. page' = Closed /\ ~Filling'
  BY DEF ServePage, Filling
<1>19. skipped' = IF capped /\ walk.mode = "newer" THEN skipped \cup InRange(shelf, Lower, last) ELSE skipped
  BY DEF ServePage
<1>20. TimelinesTypeOK'
  <2>1. skipped' \subseteq Timeline
    BY <1>2, <1>19 DEF InRange
  <2> QED BY <1>17, <1>18, <2>1 DEF TimelinesSound, TimelinesTypeOK
<1>21. walk' # Ashore
  BY <1>17 DEF Walk, Ashore
<1>22. OwedIsDue'
  BY <1>18, <1>21 DEF TimelinesSound, OwedIsDue, Of
<1>23. Ahead' = {p \in Timeline : IF walk.mode = "older" THEN p < cursor ELSE cursor < p}
  BY <1>17 DEF Ahead
<1>24. Ahead' \subseteq Ahead /\ items \cap Ahead' = {}
  <2>1. CASE items = {}
    <3>1. link # NoCursor => walk.mode = "older" /\ link = last
      BY <1>14, <2>1
    <3>2. walk.mode = "older" => last <= walk.cursor
      <4>1. page.upper \in 0..Top
        BY <1>1 DEF Page
      <4>2. walk.mode = "older" => page.upper <= walk.cursor
        BY <1>4, <1>18 DEF PageIsAhead
      <4> QED BY <1>2, <4>1, <4>2
    <3>3. walk.mode = "older" => cursor <= walk.cursor
      BY <1>2, <1>11, <3>1, <3>2
    <3>4. walk.mode = "newer" => cursor = walk.cursor
      BY <1>11, <3>1
    <3> QED BY <1>2, <1>3, <1>15, <1>23, <2>1, <3>3, <3>4 DEF Ahead
  <2>2. CASE items # {} /\ walk.mode = "older"
    <3>1. cursor = link /\ link \in Ahead /\ link \in Timeline
      BY <1>3, <1>5, <1>7, <1>11, <1>12, <2>2
    <3>2. link < walk.cursor
      BY <2>2, <3>1 DEF Ahead
    <3>3. \A p \in Timeline : p < link => p < walk.cursor
      BY <1>2, <1>3, <3>1, <3>2
    <3>4. \A q \in items : ~(q < link)
      BY <1>3, <1>5, <1>7, <1>12, <2>2, <3>1
    <3> QED BY <1>23, <2>2, <3>1, <3>3, <3>4 DEF Ahead
  <2>3. CASE items # {} /\ walk.mode = "newer"
    <3>1. cursor = link /\ link \in Ahead /\ link \in Timeline
      BY <1>3, <1>5, <1>7, <1>11, <1>13, <2>3
    <3>2. walk.cursor < link
      BY <2>3, <3>1 DEF Ahead
    <3>3. \A p \in Timeline : link < p => walk.cursor < p
      BY <1>2, <1>3, <3>1, <3>2
    <3>4. \A q \in items : ~(link < q)
      BY <1>3, <1>5, <1>7, <1>13, <2>3, <3>1
    <3> QED BY <1>23, <2>3, <3>1, <3>3, <3>4 DEF Ahead
  <2> QED BY <1>2, <2>1, <2>2, <2>3
<1>25. OwedIsAhead'
  <2> SUFFICES ASSUME NEW p \in owed, p \notin walk.seen, p \notin items, p \notin skipped'
               PROVE  link # NoCursor /\ p \in Ahead'
    BY <1>17, <1>18 DEF OwedIsAhead
  <2>1. p \in owed \ (walk.seen \cup skipped)
    BY <1>19
  <2>2. p \in shelf /\ Lower < p /\ p \in Timeline /\ (p \in found \/ p < last)
    BY <1>2, <2>1
  <2>3. capped /\ walk.mode = "newer" => p \in found
    BY <1>19, <2>2 DEF InRange
  <2>4. ~capped /\ (walk.mode = "newer" \/ found = {}) => p \in found
    BY <2>1
  <2>5. CASE items = {}
    <3>1. found = {} /\ capped /\ walk.mode = "older" /\ p < last
      BY <1>2, <1>7, <2>2, <2>3, <2>4, <2>5
    <3>2. link = last /\ link # NoCursor
      BY <1>3, <1>14, <2>5, <3>1
    <3> QED BY <1>11, <1>23, <2>2, <3>1, <3>2
  <2>6. CASE items # {} /\ walk.mode = "older"
    <3>1. cursor = link /\ link \in items /\ link \in Timeline
      BY <1>3, <1>5, <1>7, <1>11, <1>12, <2>6
    <3>2. last <= link
      BY <1>7, <3>1
    <3>3. p < link
      <4>1. CASE p \in found
        BY <1>8, <2>6, <3>1, <4>1
      <4>2. CASE p < last
        BY <1>3, <2>2, <3>1, <3>2, <4>2
      <4> QED BY <2>2, <4>1, <4>2
    <3> QED BY <1>3, <1>23, <2>2, <2>6, <3>1, <3>3
  <2>7. CASE items # {} /\ walk.mode = "newer"
    <3>1. cursor = link /\ link \in items /\ link \in Timeline
      BY <1>3, <1>5, <1>7, <1>11, <1>13, <2>7
    <3>2. p \in found
      BY <2>3, <2>4, <2>7
    <3>3. link < p
      BY <1>9, <2>7, <3>1, <3>2
    <3> QED BY <1>3, <1>23, <2>2, <2>7, <3>1, <3>3
  <2> QED BY <1>2, <2>5, <2>6, <2>7
<1>26. WalkIsSound'
  <2>1. walk'.seen \cap Ahead' = {} /\ ~walk'.repeated
    BY <1>4, <1>17, <1>24
  <2>2. PageIsAhead'
    BY <1>18 DEF PageIsAhead
  <2> QED BY <1>25, <2>1, <2>2 DEF WalkIsSound
<1> QED BY <1>20, <1>22, <1>26 DEF TimelinesSound

LEMMA FillBatchKeeps ==
  ASSUME TimelinesSound, FillBatch
  PROVE  TimelinesSound'
<1> DEFINE batch == Highest(InRange(shelf, Lower, page.upper), BatchLimit)
           found == page.found \cup (batch \ Of(page.hidden))
           last  == IF batch = {} THEN page.upper ELSE Min(batch)
           exhausted  == Cardinality(batch) < BatchLimit
           sufficient == walk.mode # "newer" /\ Cardinality(found) >= PageLimit
           capped == ~exhausted /\ ~sufficient /\ page.batches + 1 >= MaxFill
<1>1. /\ Filling
      /\ IF exhausted \/ sufficient \/ capped
           THEN ServePage(found, capped, last)
           ELSE /\ page' = [page EXCEPT !.found = found, !.upper = last, !.batches = @ + 1]
                /\ UNCHANGED <<walk, skipped>>
      /\ UNCHANGED <<minted, unborn, shelf, shunned, toggles, owed>>
  BY DEF FillBatch, Filling
<1>2. /\ found \subseteq Ahead /\ \A p \in found : last <= p
      /\ last \in 0..Top /\ last <= page.upper
      /\ exhausted \/ last \in Timeline
      /\ \A p \in owed \ (walk.seen \cup skipped) :
           /\ p \in shelf /\ Lower < p /\ (p \in found \/ p < last)
           /\ exhausted => p \in found
  <2>1. /\ batch = Highest(InRange(shelf, Lower, page.upper), BatchLimit)
        /\ found = page.found \cup (batch \ Of(page.hidden))
        /\ last = IF batch = {} THEN page.upper ELSE Min(batch)
    OBVIOUS
  <2>2. exhausted <=> Cardinality(batch) < BatchLimit
    OBVIOUS
  <2>3. Filling
    BY <1>1
  <2> HIDE DEF batch, found, last, exhausted, sufficient, capped
  <2>4. found \subseteq Ahead
    BY <2>1, <2>3, BatchFacts
  <2>5. \A p \in found : last <= p
    BY <2>1, <2>3, BatchFacts
  <2>6. last \in 0..Top /\ last <= page.upper
    BY <2>1, <2>3, BatchFacts
  <2>7. Cardinality(batch) < BatchLimit \/ last \in Timeline
    BY <2>1, <2>3, BatchFacts
  <2>8. \A p \in owed \ (walk.seen \cup skipped) :
          /\ p \in shelf /\ Lower < p /\ (p \in found \/ p < last)
          /\ Cardinality(batch) < BatchLimit => p \in found
    BY <2>1, <2>3, BatchFacts
  <2> QED BY <2>2, <2>4, <2>5, <2>6, <2>7, <2>8
<1>3. page \in Page
  BY <1>1, WalkFacts DEF TimelinesSound
<1>4. found = {} => ~sufficient
  <2>1. found = {} => Cardinality(found) = 0
    BY FS_EmptySet
  <2> QED BY <2>1, TimelineFacts
<1>5. walk.mode = "newer" => ~sufficient
  OBVIOUS
<1>6. page.batches \in Nat /\ MaxFill \in Nat
  BY <1>3, TimelinesAssumption DEF Page
<1>7. capped \in BOOLEAN
  OBVIOUS
<1>8. capped => ~exhausted
  OBVIOUS
<1>9. ~(exhausted \/ sufficient \/ capped) => page.batches + 1 < MaxFill
  BY <1>6
<1>10. (exhausted \/ sufficient \/ capped) /\ ~capped /\ ~sufficient => exhausted
  OBVIOUS
<1> HIDE DEF capped, exhausted, sufficient, last, found, batch
<1>11. CASE exhausted \/ sufficient \/ capped
  <2>1. ServePage(found, capped, last)
    BY <1>1, <1>11
  <2>2. ~capped /\ (walk.mode = "newer" \/ found = {}) =>
          owed \ (walk.seen \cup skipped) \subseteq found
    BY <1>2, <1>4, <1>5, <1>10, <1>11
  <2>3. capped => last \in Timeline
    BY <1>2, <1>8
  <2> QED BY <1>1, <1>2, <1>7, <2>1, <2>2, <2>3, ServePageKeeps
<1>12. CASE ~(exhausted \/ sufficient \/ capped)
  <2>1. /\ page' = [page EXCEPT !.found = found, !.upper = last, !.batches = @ + 1]
        /\ UNCHANGED <<minted, unborn, shelf, shunned, toggles, walk, owed, skipped>>
    BY <1>1, <1>12
  <2> QED BY <1>1, <1>2, <1>9, <1>12, <2>1, GoOnKeeps
<1> QED BY <1>11, <1>12

LEMMA TimelinesStep == TimelinesSound /\ [TimelinesNext]_timelinesVars => TimelinesSound'
<1> SUFFICES ASSUME TimelinesSound, [TimelinesNext]_timelinesVars PROVE TimelinesSound'
  OBVIOUS
<1>1. CASE Mint
  BY <1>1, MintKeeps
<1>2. ASSUME NEW p \in Timeline, Publish(p) PROVE TimelinesSound'
  BY <1>2, PublishKeeps
<1>3. ASSUME NEW p \in Timeline, Withdraw(p) PROVE TimelinesSound'
  BY <1>3, WithdrawKeeps
<1>4. ASSUME NEW w \in Writers, Toggle(w) PROVE TimelinesSound'
  BY <1>4, ToggleKeeps
<1>5. CASE StartWalk("older", Top)
  <2>1. Top \in 0..Top
    BY TimelineFacts
  <2> QED BY <1>5, <2>1, StartWalkKeeps
<1>6. ASSUME NEW from \in {NoCursor} \cup shelf, StartWalk("newer", from) PROVE TimelinesSound'
  <2>1. from \in 0..Top
    BY TimelineFacts, WalkFacts DEF TimelinesSound, NoCursor, Timeline
  <2> QED BY <1>6, <2>1, StartWalkKeeps
<1>7. CASE OpenPage
  BY <1>7, OpenPageKeeps
<1>8. CASE FillBatch
  BY <1>8, FillBatchKeeps
<1>9. CASE UNCHANGED timelinesVars
  <2>1. TimelinesTypeOK' /\ UNCHANGED <<walk, page, skipped, owed, shelf, shunned>>
    BY <1>9 DEF TimelinesSound, TimelinesTypeOK, timelinesVars
  <2> QED BY <2>1, ServerMoves DEF TimelinesSound, OwedIsDue
<1> QED BY <1>1, <1>2, <1>3, <1>4, <1>5, <1>6, <1>7, <1>8, <1>9 DEF TimelinesNext

LEMMA TimelinesHold == TimelinesSpec => []TimelinesSound
<1>1. TimelinesInit => TimelinesSound
  BY TimelinesBegin
<1>2. TimelinesSound /\ [TimelinesNext]_timelinesVars => TimelinesSound'
  BY TimelinesStep
<1> QED BY <1>1, <1>2, PTL DEF TimelinesSpec

(* timelines/service.rs: following the links to the end shows every post   *)
(* that was on the timeline when a page was opened and neither removed nor *)
(* hidden since, and none twice, for every page size, every number of      *)
(* candidates a batch reads and every limit on the batches of a page.      *)
THEOREM WalksAreSeamless == TimelinesSpec => []PagesAreSeamless
<1>1. TimelinesSound => PagesAreSeamless
  BY DEF TimelinesSound, WalkIsSound, OwedIsAhead, PagesAreSeamless
<1> QED BY <1>1, TimelinesHold, PTL
=============================================================================
