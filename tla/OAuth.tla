------------------------------- MODULE OAuth -------------------------------
(***************************************************************************)
(* From an application's registration to a request served with its token:  *)
(* the owner approves an application for one actor, the code is exchanged  *)
(* for a token, the token is presented and revoked.  Exchanges, requests   *)
(* and revocations run concurrently, each a sequence of single statements; *)
(* any of them may break off between two statements.                       *)
(***************************************************************************)
EXTENDS Integers, FiniteSets

CONSTANTS
  Apps,          \* applications
  RedirectOf,    \* RedirectOf[a]: the redirect URI a registers
  Owned,         \* actors of the instance's owner
  Foreign,       \* actor ids a form may carry that are not the owner's
  ScopeSets,     \* scope sets in requests, approvals and endpoints
  Flows,         \* requests running at once
  MaxCodes,      \* bound: approvals
  MaxFlows       \* bound: exchanges, authenticated requests and revocations

ASSUME OAuthAssumption ==
  /\ Owned \cap Foreign = {}
  /\ MaxCodes \in Nat /\ MaxFlows \in Nat

VARIABLES
  registered,  \* registered[a]: scopes in a's oauth_applications row, or Unregistered
  codes,       \* codes[c]: oauth_authorization_codes row, or NoCode
  lapsed,      \* codes whose expires_at has passed
  tokens,      \* oauth_access_tokens rows
  flow,        \* flow[f]: the request in flight and its next step
  flows,
  grants,      \* history: what the owner approved, per code
  served,      \* history: requests that passed authentication and scope check
  reported     \* history: tokens whose revocation was answered

oauthHistory == <<grants, served, reported>>
oauthVars == <<registered, codes, lapsed, tokens, flow, flows, oauthHistory>>

Codes == 1..MaxCodes
TokenIds == 1..MaxFlows
Redirects == {RedirectOf[a] : a \in Apps}
Unregistered == {"unregistered"}
NoCode == [row |-> "none"]
AtRest == [step |-> "rest"]

Code  == [app : Apps, actor : Owned, scopes : ScopeSets, redirect : Redirects, consumed : BOOLEAN]
Grant == [code : Codes, app : Apps, actor : Owned, scopes : ScopeSets, redirect : Redirects]

(* by, at, late: who exchanged the code, with which redirect URI, and      *)
(* whether the code had expired when the exchange read the clock.          *)
Token == [id : TokenIds, app : Apps, actor : Owned, scopes : ScopeSets, revoked : BOOLEAN,
          code : Codes, by : Apps, at : Redirects, late : BOOLEAN]

Exchange == [step : {"consume", "match", "issue"}, by : Apps, code : Codes, at : Redirects,
             verifier : BOOLEAN, late : BOOLEAN]
Call     == [step : {"resolve", "revoke", "report"}, token : TokenIds, need : ScopeSets \cup {{}},
             barred : BOOLEAN]
Served   == [token : TokenIds, need : ScopeSets, barred : BOOLEAN]

OAuthTypeOK ==
  /\ registered \in [Apps -> ScopeSets \cup {Unregistered}]
  /\ codes \in [Codes -> Code \cup {NoCode}]
  /\ lapsed \subseteq Codes
  /\ tokens \subseteq Token
  /\ flow \in [Flows -> Exchange \cup Call \cup {AtRest}]
  /\ flows \in 0..MaxFlows
  /\ grants \subseteq Grant
  /\ served \subseteq Served
  /\ reported \subseteq TokenIds

(* Scope::subsuming_top_level and ScopeSet::is_satisfied_by.               *)
SubsumingTopLevel(s) ==
  CASE s \in {"read:statuses", "read:lists"} -> {"read"}
    [] s \in {"write:statuses", "write:lists"} -> {"write"}
    [] OTHER -> {}

Satisfied(required, granted) ==
  \A s \in required : s \in granted \/ SubsumingTopLevel(s) \cap granted # {}

At(f, step)  == flow[f].step = step
Forward(f, step) == flow' = [flow EXCEPT ![f].step = step]
Finish(f)    == flow' = [flow EXCEPT ![f] = AtRest]
Issued(t)    == {u \in tokens : u.id = t}

-----------------------------------------------------------------------------
RegisterApp(a, scopes) ==
  /\ registered[a] = Unregistered
  /\ registered' = [registered EXCEPT ![a] = scopes]
  /\ UNCHANGED <<codes, lapsed, tokens, flow, flows, oauthHistory>>

TrustSelectedActor(actor) == TRUE

(* resolve_and_verify_selected_actor.                                      *)
OwnsActor(actor) == actor \in Owned

(* handle_consent_submission: the submitted context, actor and scopes are  *)
(* verified again; issue_authorization_code inserts the code.              *)
Approve(a, actor, scopes, redirect) ==
  /\ registered[a] # Unregistered
  /\ redirect = RedirectOf[a]
  /\ OwnsActor(actor)
  /\ Satisfied(scopes, registered[a])
  /\ \E c \in Codes :
       /\ codes[c] = NoCode /\ \A d \in 1..(c - 1) : codes[d] # NoCode
       /\ codes' = [codes EXCEPT ![c] = [app |-> a, actor |-> actor, scopes |-> scopes,
                                         redirect |-> redirect, consumed |-> FALSE]]
       /\ grants' = grants \cup {[code |-> c, app |-> a, actor |-> actor, scopes |-> scopes,
                                  redirect |-> redirect]}
  /\ UNCHANGED <<registered, lapsed, tokens, flow, flows, served, reported>>

(* The clock passes expires_at.                                            *)
Lapse(c) ==
  /\ codes[c] # NoCode /\ c \notin lapsed
  /\ lapsed' = lapsed \cup {c}
  /\ UNCHANGED <<registered, codes, tokens, flow, flows, oauthHistory>>

-----------------------------------------------------------------------------
Launch(f, request) ==
  /\ flow[f] = AtRest
  /\ flows < MaxFlows
  /\ flows' = flows + 1
  /\ flow' = [flow EXCEPT ![f] = request]
  /\ UNCHANGED <<registered, codes, lapsed, tokens, oauthHistory>>

(* exchange_token: the credentials are those of by; then the clock is read.*)
PresentCode(f, by, c, at, verifier) ==
  /\ registered[by] # Unregistered
  /\ codes[c] # NoCode
  /\ Launch(f, [step |-> "consume", by |-> by, code |-> c, at |-> at, verifier |-> verifier,
                late |-> c \in lapsed])

ConsumeAgain(f) ==
  /\ At(f, "consume")
  /\ IF flow[f].late
       THEN Finish(f) /\ UNCHANGED codes
       ELSE codes' = [codes EXCEPT ![flow[f].code].consumed = TRUE] /\ Forward(f, "match")
  /\ UNCHANGED <<registered, lapsed, tokens, flows, oauthHistory>>

(* consume_code: one conditional UPDATE.                                   *)
ConsumeCode(f) ==
  LET c == flow[f].code IN
  /\ At(f, "consume")
  /\ IF flow[f].late \/ codes[c].consumed
       THEN Finish(f) /\ UNCHANGED codes
       ELSE codes' = [codes EXCEPT ![c].consumed = TRUE] /\ Forward(f, "match")
  /\ UNCHANGED <<registered, lapsed, tokens, flows, oauthHistory>>

(* The code is used up also when it is another application's, was issued   *)
(* for another redirect URI, or comes with a verifier: no code carries a   *)
(* PKCE challenge.                                                         *)
MatchGrant(f) ==
  LET code == codes[flow[f].code] IN
  /\ At(f, "match")
  /\ IF code.app = flow[f].by /\ code.redirect = flow[f].at /\ ~flow[f].verifier
       THEN Forward(f, "issue")
       ELSE Finish(f)
  /\ UNCHANGED <<registered, codes, lapsed, tokens, flows, oauthHistory>>

IssueToken(f) ==
  LET x == flow[f]
      code == codes[x.code] IN
  /\ At(f, "issue")
  /\ tokens' = tokens \cup
       {[id |-> Cardinality(tokens) + 1, app |-> code.app, actor |-> code.actor,
         scopes |-> code.scopes, revoked |-> FALSE,
         code |-> x.code, by |-> x.by, at |-> x.at, late |-> x.late]}
  /\ Finish(f)
  /\ UNCHANGED <<registered, codes, lapsed, flows, oauthHistory>>

-----------------------------------------------------------------------------
(* A request with a bearer token arrives at an endpoint that needs scopes. *)
PresentToken(f, t, need) ==
  /\ Issued(t) # {}
  /\ Launch(f, [step |-> "resolve", token |-> t, need |-> need, barred |-> t \in reported])

(* authenticate and require_scope, on the row resolve_token reads.         *)
Authenticate(f) ==
  LET t == flow[f].token
      need == flow[f].need IN
  /\ At(f, "resolve")
  /\ served' = served \cup
       {[token |-> t, need |-> need, barred |-> flow[f].barred] :
          u \in {v \in Issued(t) : ~v.revoked /\ Satisfied(need, v.scopes)}}
  /\ Finish(f)
  /\ UNCHANGED <<registered, codes, lapsed, tokens, flows, grants, reported>>

PresentForRevocation(f, t) ==
  /\ Issued(t) # {}
  /\ Launch(f, [step |-> "revoke", token |-> t, need |-> {}, barred |-> FALSE])

(* revoke_token: one UPDATE; the answer is the same whatever it changed.   *)
RevokeToken(f) ==
  /\ At(f, "revoke")
  /\ tokens' = {IF u.id = flow[f].token THEN [u EXCEPT !.revoked = TRUE] ELSE u : u \in tokens}
  /\ Forward(f, "report")
  /\ UNCHANGED <<registered, codes, lapsed, flows, oauthHistory>>

ReportRevoked(f) ==
  /\ At(f, "report")
  /\ reported' = reported \cup {flow[f].token}
  /\ Finish(f)
  /\ UNCHANGED <<registered, codes, lapsed, tokens, flows, grants, served>>

(* A statement fails or the process dies before it.                        *)
BreakOff(f) ==
  /\ flow[f] # AtRest
  /\ Finish(f)
  /\ UNCHANGED <<registered, codes, lapsed, tokens, flows, oauthHistory>>

OAuthInit ==
  /\ registered = [a \in Apps |-> Unregistered]
  /\ codes = [c \in Codes |-> NoCode]
  /\ lapsed = {} /\ tokens = {}
  /\ flow = [f \in Flows |-> AtRest]
  /\ flows = 0
  /\ grants = {} /\ served = {} /\ reported = {}

OAuthNext ==
  \/ \E a \in Apps, scopes \in ScopeSets : RegisterApp(a, scopes)
  \/ \E a \in Apps, actor \in Owned \cup Foreign, scopes \in ScopeSets, r \in Redirects :
       Approve(a, actor, scopes, r)
  \/ \E c \in Codes : Lapse(c)
  \/ \E f \in Flows :
       \/ \E a \in Apps, c \in Codes, r \in Redirects, v \in BOOLEAN : PresentCode(f, a, c, r, v)
       \/ ConsumeCode(f) \/ MatchGrant(f) \/ IssueToken(f)
       \/ \E t \in TokenIds, need \in ScopeSets : PresentToken(f, t, need)
       \/ \E t \in TokenIds : PresentForRevocation(f, t)
       \/ Authenticate(f) \/ RevokeToken(f) \/ ReportRevoked(f)
       \/ BreakOff(f)

OAuthSpec == OAuthInit /\ [][OAuthNext]_oauthVars

-----------------------------------------------------------------------------
(* exchange_token, authenticate, require_scope, revoke_token: however      *)
(* exchanges race, a code becomes at most one token; the token is what the *)
(* owner approved, exchanged in time by the application it was approved    *)
(* for at its redirect URI; and a request is served with it only within    *)
(* the scopes its application registered, and never if it arrived after a  *)
(* revocation of the token was answered.                                   *)
TokensAreEarned ==
  /\ \A t \in tokens : \E g \in grants :
       /\ <<g.code, g.app, g.actor, g.scopes>> = <<t.code, t.app, t.actor, t.scopes>>
       /\ t.by = g.app /\ t.at = g.redirect /\ ~t.late
  /\ \A t, u \in tokens : t.code = u.code => t = u
  /\ \A s \in served : \A t \in Issued(s.token) :
       Satisfied(s.need, registered[t.app]) /\ ~s.barred
=============================================================================
