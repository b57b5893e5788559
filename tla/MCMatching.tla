----------------------------- MODULE MCMatching -----------------------------
(***************************************************************************)
(* Small instances of Matching for TLC.                                    *)
(***************************************************************************)
EXTENDS Matching

CONSTANTS a, b, c, noUid

(* Two users, every card: their own one and the missing one too.           *)
Pair == {a, b}
PairCards == Pair \X (Pair \union {noUid})

(* Three users: a and b, and a and c, meet each other, so that a query for *)
(* a returns documents about somebody else.                                *)
Trio == {a, b, c}
TrioCards == {<<a, b>>, <<b, a>>, <<a, c>>, <<c, a>>, <<b, b>>, <<c, noUid>>}
=============================================================================
