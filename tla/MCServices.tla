----------------------------- MODULE MCServices -----------------------------
(* One post, one key, one poll, one approval, two actors, five timeline    *)
(* posts; two requests at once everywhere.                                 *)
EXTENDS Services, TLC

CONSTANTS post, alice, bob, rem, slot1, slot2, theKey, noKey, app1, app2, foreign

MCAuthorOf   == post :> alice
MCRedirectOf == (app1 :> "one") @@ (app2 :> "two")
MCScopeSets  == {{"read"}, {"read:statuses"}, {"write:lists"}}
MCWriterOf   == <<alice, bob, bob, bob, bob>>

Symmetry == Permutations({slot1, slot2})
=============================================================================
