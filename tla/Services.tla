------------------------------ MODULE Services ------------------------------
(***************************************************************************)
(* The services that answer the API and feed the timelines, side by side.  *)
(* Their models share no variable, so interleaving them would add nothing: *)
(* a behaviour exercises one, the others rest in their initial states, and *)
(* what is explored is the sum of the components, not their product.       *)
(***************************************************************************)
EXTENDS Interactions, Posting, RemoteCopies, Polls, OAuth, SigningKeys, Timelines,
        Audience

VARIABLE part   \* the component this behaviour exercises

servicesVars == <<part, interactionVars, postingVars, remoteVars, pollsVars, oauthVars,
                  signingVars, timelinesVars, audienceVars>>

Parts == {"interactions", "posting", "remote", "polls", "oauth", "keys", "timelines",
          "audience"}

(* One type for all the components' tables, requests and bounds.           *)
TypeOK ==
  /\ part \in Parts
  /\ InteractionsTypeOK /\ PostingTypeOK /\ RemoteCopiesTypeOK /\ PollsTypeOK
  /\ OAuthTypeOK /\ SigningKeysTypeOK /\ TimelinesTypeOK /\ AudienceTypeOK

(* What resting components may start with is fixed.                        *)
Init ==
  /\ part \in Parts
  /\ InteractionsInit /\ PostingInit /\ RemoteCopiesInit /\ PollsInit
  /\ OAuthInit /\ SigningKeysInit /\ TimelinesInit /\ AudienceInit
  /\ part # "polls" => ~multiple
  /\ part # "timelines" => shunned = {}

StepInteractions ==
  /\ part = "interactions"
  /\ InteractionsNext
  /\ UNCHANGED <<part, postingVars, remoteVars, pollsVars, oauthVars, signingVars,
                 timelinesVars, audienceVars>>

StepPosting ==
  /\ part = "posting"
  /\ PostingNext
  /\ UNCHANGED <<part, interactionVars, remoteVars, pollsVars, oauthVars, signingVars,
                 timelinesVars, audienceVars>>

StepRemoteCopies ==
  /\ part = "remote"
  /\ RemoteCopiesNext
  /\ UNCHANGED <<part, interactionVars, postingVars, pollsVars, oauthVars, signingVars,
                 timelinesVars, audienceVars>>

StepPolls ==
  /\ part = "polls"
  /\ PollsNext
  /\ UNCHANGED <<part, interactionVars, postingVars, remoteVars, oauthVars, signingVars,
                 timelinesVars, audienceVars>>

StepOAuth ==
  /\ part = "oauth"
  /\ OAuthNext
  /\ UNCHANGED <<part, interactionVars, postingVars, remoteVars, pollsVars, signingVars,
                 timelinesVars, audienceVars>>

StepSigningKeys ==
  /\ part = "keys"
  /\ SigningKeysNext
  /\ UNCHANGED <<part, interactionVars, postingVars, remoteVars, pollsVars, oauthVars,
                 timelinesVars, audienceVars>>

StepTimelines ==
  /\ part = "timelines"
  /\ TimelinesNext
  /\ UNCHANGED <<part, interactionVars, postingVars, remoteVars, pollsVars, oauthVars,
                 signingVars, audienceVars>>

StepAudience ==
  /\ part = "audience"
  /\ AudienceNext
  /\ UNCHANGED <<part, interactionVars, postingVars, remoteVars, pollsVars, oauthVars,
                 signingVars, timelinesVars>>

Next == \/ StepInteractions \/ StepPosting \/ StepRemoteCopies \/ StepPolls
        \/ StepOAuth \/ StepSigningKeys \/ StepTimelines \/ StepAudience

Spec == Init /\ [][Next]_servicesVars
=============================================================================
