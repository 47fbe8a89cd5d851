----------------------------- MODULE MCDelivery -----------------------------
EXTENDS Delivery, TLC

CONSTANTS w1, w2, a1, a2, i1, i2, l1, h1

MCHostOf == [i \in {i1, i2} |-> h1]
(* a1 goes to a local recipient and one inbox, a2 to another inbox.         *)
MCRecipients == a1 :> {l1, i1} @@ a2 :> {i2}
(* The host only verifies RFC 9421 signatures: the first knock is refused. *)
MCSupports == h1 :> {"rfc9421"}
(* One process claims one row at a time, the other both.                   *)
MCLimit == w1 :> 1 @@ w2 :> 2
(* The only process claims both.                                           *)
MCLimit1 == w1 :> 2
=============================================================================
