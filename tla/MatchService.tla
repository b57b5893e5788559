---------------------------- MODULE MatchService ----------------------------
(***************************************************************************)
(* What the matching half of PupTinder promises, with no phones, triggers  *)
(* or documents in it: users like users, and a pair who like each other    *)
(* may be matched, once and for good.  Matching.tla implements it.         *)
(***************************************************************************)

CONSTANT Users

VARIABLES
    likes,      \* the pairs <<u, v>> such that u accepted v
    matched     \* the unordered pairs {u, v} that are matched

vars == <<likes, matched>>

Init == likes = {} /\ matched = {}

(* A user accepts another user's dog; accepting it again changes nothing.  *)
Like(u, v) ==
    /\ u # v
    /\ likes' = likes \union {<<u, v>>}
    /\ UNCHANGED matched

Mutual(u, v) == <<u, v>> \in likes /\ <<v, u>> \in likes

(* The service matches two users only if each accepted the other.          *)
Match(u, v) ==
    /\ Mutual(u, v)
    /\ {u, v} \notin matched
    /\ matched' = matched \union {{u, v}}
    /\ UNCHANGED likes

Next == \E u, v \in Users : Like(u, v) \/ Match(u, v)

Spec == Init /\ [][Next]_vars
=============================================================================
