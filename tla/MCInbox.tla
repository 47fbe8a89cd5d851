------------------------------ MODULE MCInbox ------------------------------
EXTENDS Inbox, TLC

CONSTANTS r1, r2, note, follow, alice, remote, local

(* note comes from a remote actor, follow from another local actor.        *)
MCSignerOf == note :> remote @@ follow :> local

SlotSymmetry == Permutations({r1, r2})
=============================================================================
