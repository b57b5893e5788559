---------------------------- MODULE MCMessaging -----------------------------
(***************************************************************************)
(* Small instances of Messaging for TLC: two conversations to mix up.      *)
(***************************************************************************)
EXTENDS Messaging

CONSTANTS rex, luna, nobody

MCPartners == {rex, luna}
=============================================================================
