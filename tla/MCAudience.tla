----------------------------- MODULE MCAudience -----------------------------
(* One reader, one other resident, one account of another server.          *)
EXTENDS Audience

CONSTANTS alice, bob, rem
=============================================================================
