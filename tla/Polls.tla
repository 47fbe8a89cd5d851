------------------------------- MODULE Polls -------------------------------
(***************************************************************************)
(* Voting in one poll of a local author.  Members vote through the API and *)
(* their ballot is then delivered to the author, one Create(Note) per      *)
(* option, which runs the inbox handler inside the call; ballots of other  *)
(* servers arrive as one such Create per option, in any order.  All votes  *)
(* go through record_vote, whose transaction locks the polls row.          *)
(***************************************************************************)
EXTENDS Integers, FiniteSets

CONSTANTS
  Voters,      \* local actors
  Strangers,   \* actors of other servers
  Options,     \* options of the poll
  Booths,      \* requests running at once
  MaxVotes     \* bound: requests

NoBooth == "no booth"

ASSUME PollsAssumption ==
  /\ Voters \cap Strangers = {}
  /\ IsFiniteSet(Options)
  /\ NoBooth \notin Booths
  /\ MaxVotes \in Nat

VARIABLES
  multiple,   \* polls.multiple
  closed,     \* expires_at has passed
  open,       \* the polls row exists
  ballots,    \* ballots[a]: options in a's poll_votes rows
  tally,      \* tally[o]: poll_options.votes_count
  lock,       \* booth whose transaction holds the polls row, or NoBooth
  booth,      \* booth[b]: the request and its next step
  votes,
  answer,     \* answer[b]: how the last API call in b ended, and whose it was
  cast        \* history: cast[a], the selections record_vote accepted from a

pollsVars == <<multiple, closed, open, ballots, tally, lock, booth, votes, answer, cast>>

Electors == Voters \cup Strangers
Empty    == [step |-> "empty"]
Selections == (SUBSET Options) \ {{}}

(* api: a call of the API, else a handler; echo: the handler runs inside   *)
(* that call, after the call has written its ballot; late: now >= expires_at *)
(* when the clock was read; titles: the Creates still to be delivered.     *)
Vote == [step : {"record", "check", "write", "tally", "deliver"}, who : Electors,
         choices : Selections, titles : SUBSET Options,
         api : BOOLEAN, echo : BOOLEAN, wrote : BOOLEAN, late : BOOLEAN]

Answer == [ok : BOOLEAN, wrote : BOOLEAN, excused : BOOLEAN]
NoAnswer == [ok |-> FALSE, wrote |-> FALSE, excused |-> TRUE]

PollsTypeOK ==
  /\ multiple \in BOOLEAN /\ closed \in BOOLEAN /\ open \in BOOLEAN
  /\ ballots \in [Electors -> SUBSET Options]
  /\ tally \in [Options -> Nat]
  /\ lock \in Booths \cup {NoBooth}
  /\ booth \in [Booths -> Vote \cup {Empty}]
  /\ votes \in 0..MaxVotes
  /\ answer \in [Booths -> Answer]
  /\ cast \in [Electors -> SUBSET Selections]

InUse(b)     == booth[b].step # "empty"
Stage(b, st) == booth[b].step = st
Voter(b)     == booth[b].who
Move(b, st)  == booth' = [booth EXCEPT ![b].step = st] /\ UNCHANGED answer

(* The request ends; an API call answers its caller.                       *)
Conclude(b, ok, excused) ==
  /\ booth' = [booth EXCEPT ![b] = Empty]
  /\ answer' = IF booth[b].api
                 THEN [answer EXCEPT ![b] = [ok |-> ok, wrote |-> booth[b].wrote, excused |-> excused]]
                 ELSE answer

-----------------------------------------------------------------------------
Arrival(b, a, choices, api) ==
  /\ ~InUse(b)
  /\ open
  /\ votes < MaxVotes
  /\ votes' = votes + 1
  /\ booth' = [booth EXCEPT ![b] =
       [step |-> "record", who |-> a, choices |-> choices, titles |-> {},
        api |-> api, echo |-> FALSE, wrote |-> FALSE, late |-> closed]]
  /\ answer' = [answer EXCEPT ![b] = NoAnswer]
  /\ UNCHANGED <<multiple, closed, open, ballots, tally, lock, cast>>

(* PollService::vote finds the visible poll and reads the clock.           *)
CallVote(b, a, choices) == a \in Voters /\ Arrival(b, a, choices, TRUE)

(* CreateNoteHandler, try_record_vote: one Create names one option.        *)
ReceiveVote(b, a, o) == a \in Strangers /\ Arrival(b, a, {o}, FALSE)

-----------------------------------------------------------------------------
(* record_vote                                                             *)

LockPollShared(b) ==
  /\ Stage(b, "record")
  /\ open
  /\ Move(b, "check")
  /\ UNCHANGED <<multiple, closed, open, ballots, tally, lock, votes, cast>>

(* SELECT ... FOR UPDATE waits for the transaction that holds the row.     *)
LockPoll(b) ==
  /\ Stage(b, "record")
  /\ lock = NoBooth
  /\ IF open THEN lock' = b /\ Move(b, "check")
             ELSE Conclude(b, FALSE, TRUE) /\ UNCHANGED lock
  /\ UNCHANGED <<multiple, closed, open, ballots, tally, votes, cast>>

(* The deadline, then more than one option in a single-choice poll ...     *)
Refused(b) == booth[b].late \/ (~multiple /\ Cardinality(booth[b].choices) > 1)

(* ... then a second ballot in this poll, whatever its option.             *)
Duplicate(b) == ~Refused(b) /\ ballots[Voter(b)] # {}

(* Every refusal but a duplicate ends the request with an error, also when *)
(* it meets the delivery of a ballot just recorded.                        *)
Refuse(b) ==
  /\ Stage(b, "check")
  /\ Refused(b) \/ (Duplicate(b) /\ booth[b].api /\ ~booth[b].echo)
  /\ lock' = NoBooth
  /\ Conclude(b, FALSE, booth[b].echo)
  /\ UNCHANGED <<multiple, closed, open, ballots, tally, votes, cast>>

(* A handler reports a duplicate as handled.                               *)
TakeAsHandled(b) ==
  /\ Stage(b, "check")
  /\ Duplicate(b)
  /\ lock' = NoBooth
  /\ \/ booth[b].echo /\ Move(b, "deliver")
     \/ ~booth[b].api /\ Conclude(b, TRUE, FALSE)
  /\ UNCHANGED <<multiple, closed, open, ballots, tally, votes, cast>>

Accept(b) ==
  /\ Stage(b, "check")
  /\ ~Refused(b) /\ ~Duplicate(b)
  /\ Move(b, "write")
  /\ UNCHANGED <<multiple, closed, open, ballots, tally, lock, votes, cast>>

(* The poll_votes rows and their counts commit together.                   *)
WriteBallot(b) ==
  LET a == Voter(b)
      done == [booth[b] EXCEPT !.step = "tally", !.wrote = TRUE] IN
  /\ Stage(b, "write")
  /\ ballots' = [ballots EXCEPT ![a] = @ \cup booth[b].choices]
  /\ tally' = [o \in Options |-> IF o \in booth[b].choices THEN tally[o] + 1 ELSE tally[o]]
  /\ cast' = [cast EXCEPT ![a] = @ \cup {booth[b].choices}]
  /\ lock' = NoBooth
  /\ booth' = [booth EXCEPT ![b] = IF booth[b].api THEN done ELSE Empty]
  /\ UNCHANGED <<multiple, closed, open, votes, answer>>

-----------------------------------------------------------------------------
(* The rest of PollService::vote                                           *)

(* tally: the titles of the ballot as it is now stored.                    *)
ReadTally(b) ==
  /\ Stage(b, "tally")
  /\ IF open
       THEN /\ booth' = [booth EXCEPT ![b].step = "deliver", ![b].titles = ballots[Voter(b)]]
            /\ UNCHANGED answer
       ELSE Conclude(b, FALSE, TRUE)
  /\ UNCHANGED <<multiple, closed, open, ballots, tally, lock, votes, cast>>

(* deliver_vote: the next Create reaches the author's handler, which reads *)
(* the clock again; without a poll the Note is taken for an ordinary post. *)
DeliverVote(b) ==
  /\ Stage(b, "deliver")
  /\ \E t \in booth[b].titles :
       booth' = [booth EXCEPT ![b].step = IF open THEN "record" ELSE "deliver",
                              ![b].titles = @ \ {t}, ![b].choices = {t},
                              ![b].echo = TRUE, ![b].late = closed]
  /\ UNCHANGED <<multiple, closed, open, ballots, tally, lock, votes, answer, cast>>

Voted(b) ==
  /\ Stage(b, "deliver")
  /\ booth[b].titles = {}
  /\ Conclude(b, TRUE, FALSE)
  /\ UNCHANGED <<multiple, closed, open, ballots, tally, lock, votes, cast>>

(* A step fails or the process dies: the transaction rolls back.           *)
VoteFails(b) ==
  /\ InUse(b)
  /\ lock' = IF lock = b THEN NoBooth ELSE lock
  /\ Conclude(b, FALSE, TRUE)
  /\ UNCHANGED <<multiple, closed, open, ballots, tally, votes, cast>>

ClosePoll ==
  /\ ~closed
  /\ closed' = TRUE
  /\ UNCHANGED <<multiple, open, ballots, tally, lock, booth, votes, answer, cast>>

(* The post is deleted: its DELETE waits for the row; everything cascades. *)
DeletePoll ==
  /\ open /\ lock = NoBooth
  /\ open' = FALSE
  /\ ballots' = [a \in Electors |-> {}]
  /\ tally' = [o \in Options |-> 0]
  /\ cast' = [a \in Electors |-> {}]
  /\ UNCHANGED <<multiple, closed, lock, booth, votes, answer>>

(* insert_poll, in create_status' transaction.                             *)
PollsInit ==
  /\ multiple \in BOOLEAN
  /\ closed = FALSE /\ open = TRUE
  /\ ballots = [a \in Electors |-> {}]
  /\ tally = [o \in Options |-> 0]
  /\ lock = NoBooth
  /\ booth = [b \in Booths |-> Empty]
  /\ votes = 0
  /\ answer = [b \in Booths |-> NoAnswer]
  /\ cast = [a \in Electors |-> {}]

PollsNext ==
  \/ \E b \in Booths :
       \/ \E a \in Electors, choices \in Selections : CallVote(b, a, choices)
       \/ \E a \in Electors, o \in Options : ReceiveVote(b, a, o)
       \/ LockPoll(b) \/ Refuse(b) \/ TakeAsHandled(b) \/ Accept(b) \/ WriteBallot(b)
       \/ ReadTally(b) \/ DeliverVote(b) \/ Voted(b)
       \/ VoteFails(b)
  \/ ClosePoll \/ DeletePoll

PollsSpec == PollsInit /\ [][PollsNext]_pollsVars

-----------------------------------------------------------------------------
(* record_vote: the counts equal the stored votes; an actor's votes are    *)
(* those of one accepted request, never a mixture of two, and one option   *)
(* in a single-choice poll.  And PollService::vote tells its caller what   *)
(* happened: an error means that this call stored nothing, unless the poll *)
(* closed or was deleted, or a step failed, after it had stored the ballot.*)
BallotsStand ==
  /\ \A o \in Options : tally[o] = Cardinality({a \in Electors : o \in ballots[a]})
  /\ \A a \in Electors : ballots[a] # {} => cast[a] = {ballots[a]}
  /\ \A a \in Electors : ~multiple => Cardinality(ballots[a]) <= 1
  /\ \A b \in Booths : answer[b].excused \/ (answer[b].ok <=> answer[b].wrote)
=============================================================================
