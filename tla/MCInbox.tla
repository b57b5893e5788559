------------------------------ MODULE MCInbox -------------------------------
(***************************************************************************)
(* Small instances of Inbox for TLC.                                       *)
(***************************************************************************)
EXTENDS Inbox

CONSTANTS rex, luna

MCPartners == {rex, luna}

(* Two matches, one each.                                                  *)
OneEach == <<rex, luna>>

(* Two match documents for the same pair.                                  *)
BothRex == <<rex, rex>>
=============================================================================
