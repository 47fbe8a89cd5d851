---------------------------- MODULE RemoteCopies ----------------------------
(***************************************************************************)
(* The copies a server keeps of another server's posts.  The author's      *)
(* server sends a Create, an Update per edit and a Delete, which arrive in *)
(* any order and at most once each; a search may fetch and ingest the post *)
(* meanwhile.  Ingestion is a sequence of statements, each on its own.     *)
(***************************************************************************)
EXTENDS Integers, FiniteSets

CONSTANTS
  Notes,         \* posts of other servers, each mentioning a local actor
  Handlers,      \* inbox handlers and searches running at once
  MaxVersions,   \* bound: versions of a post
  MaxFetches,    \* bound: searches that fetch a post
  MaxLosses      \* bound: lost activities, failed steps and dying processes

ASSUME RemoteCopiesAssumption ==
  /\ MaxVersions \in Nat \ {0} /\ MaxFetches \in Nat /\ MaxLosses \in Nat

VARIABLES
  original,   \* original[n]: version at the author's server, Unwritten or Gone
  wire,       \* activities under way: <<note, version>>
  copy,       \* copy[n]: statuses row and what belongs to it, or NoCopy
  told,       \* notes whose mention was notified
  handler,    \* handler[h]: the handler or search and its next step
  fetches,
  losses,
  handled,    \* history: handled[n], newest Update or Delete handled
  overtaken,  \* history: notes of which older content was stored after that
  torn        \* history: notes that lost an activity or whose handling broke off

copyHistory == <<handled, overtaken, torn>>
remoteVars == <<original, wire, copy, told, handler, fetches, losses, copyHistory>>

(* An activity is told by what it carries: version 1 a Create, later ones  *)
(* an Update, Gone a Delete.                                               *)
Unwritten == 0
Gone      == MaxVersions + 1
Activity  == Notes \X (1..Gone)

(* A row's id stands for who inserted it: the Create, or the search that   *)
(* fetched it.                                                             *)
ByCreate == 0
RowIds   == ByCreate..MaxFetches
Details  == {"tags", "mentions", "attachments"}
NoCopy   == [id |-> "none"]
Copy     == [id : RowIds, version : 1..MaxVersions, details : SUBSET Details]

Unused == [step |-> "unused"]
Handling == [step : {"check", "find", "insert", "notify", "target", "apply"} \cup Details,
             note : Notes, version : 1..Gone, id : RowIds, known : BOOLEAN]

RemoteCopiesTypeOK ==
  /\ original \in [Notes -> Unwritten..Gone]
  /\ wire \subseteq Activity
  /\ copy \in [Notes -> Copy \cup {NoCopy}]
  /\ told \subseteq Notes
  /\ handler \in [Handlers -> Handling \cup {Unused}]
  /\ fetches \in 0..MaxFetches /\ losses \in 0..MaxLosses
  /\ handled \in [Notes -> 0..Gone]
  /\ overtaken \subseteq Notes /\ torn \subseteq Notes

Working(h)      == handler[h].step # "unused"
AtStep(h, step) == handler[h].step = step
NoteOf(h)       == handler[h].note
Stored(n)       == copy[n] # NoCopy
GoTo(h, step)   == handler' = [handler EXCEPT ![h].step = step]
Release(h)      == handler' = [handler EXCEPT ![h] = Unused]

-----------------------------------------------------------------------------
(* The author's server                                                     *)

Send(n, version) ==
  /\ original' = [original EXCEPT ![n] = version]
  /\ wire' = wire \cup {<<n, version>>}
  /\ UNCHANGED <<copy, told, handler, fetches, losses, copyHistory>>

WriteOrEdit(n) == original[n] < MaxVersions /\ Send(n, original[n] + 1)

Retract(n) == original[n] \in 1..MaxVersions /\ Send(n, Gone)

Lose(activity) ==
  /\ losses < MaxLosses
  /\ losses' = losses + 1
  /\ wire' = wire \ {activity}
  /\ torn' = torn \cup {activity[1]}
  /\ UNCHANGED <<original, copy, told, handler, fetches, handled, overtaken>>

-----------------------------------------------------------------------------
(* The inbox has recorded the activity and dispatches it; a repetition is  *)
(* a duplicate from here on.                                               *)
Receive(h, n, version) ==
  /\ ~Working(h)
  /\ <<n, version>> \in wire
  /\ wire' = wire \ {<<n, version>>}
  /\ handler' = [handler EXCEPT ![h] =
       [step |-> IF version = 1 THEN "check" ELSE "target", note |-> n, version |-> version,
        id |-> ByCreate, known |-> FALSE]]
  /\ UNCHANGED <<original, copy, told, fetches, losses, copyHistory>>

(* resolve_url fetches the document as it is now and passes it to          *)
(* ingest_document.                                                        *)
Fetch(h, n) ==
  /\ ~Working(h)
  /\ fetches < MaxFetches
  /\ original[n] \in 1..MaxVersions
  /\ fetches' = fetches + 1
  /\ handler' = [handler EXCEPT ![h] =
       [step |-> "find", note |-> n, version |-> original[n], id |-> fetches + 1, known |-> TRUE]]
  /\ UNCHANGED <<original, wire, copy, told, losses, copyHistory>>

-----------------------------------------------------------------------------
(* CreateNoteHandler and ingest_note_object                                *)

(* already_ingested, read before the ingestion looks again.                *)
CheckIngested(h) ==
  /\ AtStep(h, "check")
  /\ handler' = [handler EXCEPT ![h].known = Stored(NoteOf(h)), ![h].step = "find"]
  /\ UNCHANGED <<original, wire, copy, told, fetches, losses, copyHistory>>

AfterIngest(h) == IF handler[h].known THEN Release(h) ELSE GoTo(h, "notify")

FindByUri(h) ==
  /\ AtStep(h, "find")
  /\ IF Stored(NoteOf(h)) THEN AfterIngest(h) ELSE GoTo(h, "insert")
  /\ UNCHANGED <<original, wire, copy, told, fetches, losses, copyHistory>>

NewCopy(h) == [id |-> handler[h].id, version |-> handler[h].version, details |-> {}]

UpsertCopy(h) ==
  LET n == NoteOf(h) IN
  /\ AtStep(h, "insert")
  /\ copy' = [copy EXCEPT ![n] = NewCopy(h)]
  /\ overtaken' = IF ~Stored(n) /\ handler[h].version < handled[n] THEN overtaken \cup {n}
                                                                   ELSE overtaken
  /\ GoTo(h, "tags")
  /\ UNCHANGED <<original, wire, told, fetches, losses, handled, torn>>

(* insert_status: the unique uri fails the slower of two ingestions.       *)
InsertCopy(h) ==
  LET n == NoteOf(h) IN
  /\ AtStep(h, "insert")
  /\ IF Stored(n)
       THEN Release(h) /\ UNCHANGED <<copy, overtaken>>
       ELSE /\ copy' = [copy EXCEPT ![n] = NewCopy(h)]
            /\ overtaken' = IF handler[h].version < handled[n] THEN overtaken \cup {n} ELSE overtaken
            /\ GoTo(h, "tags")
  /\ UNCHANGED <<original, wire, told, fetches, losses, handled, torn>>

(* persist_tags, insert_mentions, insert_remote_attachments; all refer to  *)
(* the row and fail when it has gone.                                      *)
AddDetail(h, detail) ==
  LET n == NoteOf(h) IN
  /\ AtStep(h, detail)
  /\ IF Stored(n) /\ copy[n].id = handler[h].id
       THEN /\ copy' = [copy EXCEPT ![n].details = @ \cup {detail}]
            /\ CASE detail = "tags" -> GoTo(h, "mentions")
                 [] detail = "mentions" -> GoTo(h, "attachments")
                 [] detail = "attachments" -> AfterIngest(h)
       ELSE Release(h) /\ UNCHANGED copy
  /\ UNCHANGED <<original, wire, told, fetches, losses, copyHistory>>

(* The mention is notified, unless the post was known before.              *)
NotifyMention(h) ==
  /\ AtStep(h, "notify")
  /\ told' = told \cup {NoteOf(h)}
  /\ Release(h)
  /\ UNCHANGED <<original, wire, copy, fetches, losses, copyHistory>>

-----------------------------------------------------------------------------
(* UpdateHandler and DeleteHandler                                         *)

Done(h) == handled' = [handled EXCEPT ![NoteOf(h)] = IF @ < handler[h].version
                                                       THEN handler[h].version ELSE @]

(* find_by_uri; an unknown post is ignored.  Then the signer is resolved.  *)
FindTarget(h) ==
  LET n == NoteOf(h) IN
  /\ AtStep(h, "target")
  /\ IF Stored(n)
       THEN /\ handler' = [handler EXCEPT ![h].id = copy[n].id, ![h].step = "apply"]
            /\ UNCHANGED handled
       ELSE Release(h) /\ Done(h)
  /\ UNCHANGED <<original, wire, copy, told, fetches, losses, overtaken, torn>>

Targets(h) == Stored(NoteOf(h)) /\ copy[NoteOf(h)].id = handler[h].id

(* apply_edit: whatever version is live is overwritten.                    *)
ApplyUpdate(h) ==
  LET n == NoteOf(h)
      v == handler[h].version IN
  /\ AtStep(h, "apply")
  /\ v # Gone
  /\ IF Targets(h)
       THEN /\ copy' = [copy EXCEPT ![n].version = v]
            /\ overtaken' = IF v < handled[n] THEN overtaken \cup {n} ELSE overtaken
       ELSE UNCHANGED <<copy, overtaken>>
  /\ Release(h)
  /\ Done(h)
  /\ UNCHANGED <<original, wire, told, fetches, losses, torn>>

(* delete_status.                                                          *)
ApplyDelete(h) ==
  /\ AtStep(h, "apply")
  /\ handler[h].version = Gone
  /\ copy' = IF Targets(h) THEN [copy EXCEPT ![NoteOf(h)] = NoCopy] ELSE copy
  /\ Release(h)
  /\ Done(h)
  /\ UNCHANGED <<original, wire, told, fetches, losses, overtaken, torn>>

(* A step fails or the process dies before it.                             *)
HandlingFails(h) ==
  /\ Working(h)
  /\ losses < MaxLosses
  /\ losses' = losses + 1
  /\ torn' = torn \cup {NoteOf(h)}
  /\ Release(h)
  /\ UNCHANGED <<original, wire, copy, told, fetches, handled, overtaken>>

RemoteCopiesInit ==
  /\ original = [n \in Notes |-> Unwritten]
  /\ wire = {}
  /\ copy = [n \in Notes |-> NoCopy]
  /\ told = {}
  /\ handler = [h \in Handlers |-> Unused]
  /\ fetches = 0 /\ losses = 0
  /\ handled = [n \in Notes |-> 0]
  /\ overtaken = {} /\ torn = {}

RemoteCopiesNext ==
  \/ \E n \in Notes : WriteOrEdit(n) \/ Retract(n)
  \/ \E activity \in wire : Lose(activity)
  \/ \E h \in Handlers :
       \/ \E n \in Notes : Fetch(h, n) \/ \E version \in 1..Gone : Receive(h, n, version)
       \/ CheckIngested(h) \/ FindByUri(h) \/ InsertCopy(h)
       \/ \E detail \in Details : AddDetail(h, detail)
       \/ NotifyMention(h)
       \/ FindTarget(h) \/ ApplyUpdate(h) \/ ApplyDelete(h)
       \/ HandlingFails(h)

RemoteCopiesSpec == RemoteCopiesInit /\ [][RemoteCopiesNext]_remoteVars

-----------------------------------------------------------------------------
AtPeace(n) ==
  /\ \A version \in 1..Gone : <<n, version>> \notin wire
  /\ \A h \in Handlers : Working(h) => NoteOf(h) # n

(* CreateNoteHandler, UpdateHandler, DeleteHandler, ingest_note_object:    *)
(* once all activities of a post are handled its copy is complete and at   *)
(* the author's version, or gone if the post is, in whatever order they    *)
(* came and whichever of Create and search stored it, and the mentioned    *)
(* member was told unless a search stored it.  That fails only if older    *)
(* content was stored after a later Update or Delete had been handled, or  *)
(* an activity was lost or its handling broke off.                         *)
CopiesFollowAuthor ==
  \A n \in Notes \ (overtaken \cup torn) : AtPeace(n) =>
    IF original[n] \in 1..MaxVersions
      THEN /\ Stored(n)
           /\ copy[n].version = original[n]
           /\ copy[n].details = Details
           /\ copy[n].id = ByCreate => n \in told
      ELSE ~Stored(n)
=============================================================================
