------------------------------ MODULE Matching ------------------------------
(***************************************************************************)
(* How two users become a match (FirebaseServer/functions/index.js and     *)
(* Api/ApiMatches.swift).                                                  *)
(*                                                                         *)
(* A phone writes the document profiles/u/swipedRight/v.  Its creation     *)
(* raises a Firestore event, and the platform runs the cloud function      *)
(* checkForMatchOnSwipeRight once or more for each event.  An invocation   *)
(* is a chain of three awaits, and one action below is the code between    *)
(* two of them:                                                            *)
(*                                                                         *)
(*   idle -> get -> query -> add -> made                                   *)
(*            |       |                                                    *)
(*       unrequited  known          (and failed or reclaimed on the way)   *)
(*                                                                         *)
(* attemptMatch is called without being returned, so the function has      *)
(* already answered the platform when the query and the add take place.    *)
(***************************************************************************)
EXTENDS Naturals

CONSTANTS
    Users,
    NoUid,           \* the empty uid "", what Home holds while it has no card
    Cards,           \* <<u, v>>: the card of v may be in front of u
    MaxDeliveries,   \* bound: how often the platform delivers one event
    CallsMayFail,    \* a database call may report an error
    MayReclaim       \* an instance that has answered may be taken away

ASSUME NoUidAssumption == NoUid \notin Users
ASSUME CardsAssumption == Cards \subseteq Users \X (Users \union {NoUid})
ASSUME DeliveriesAssumption == MaxDeliveries \in Nat \ {0}

VARIABLES
    sending,      \* the setData calls of phones that have not come back
    swipedRight,  \* the documents profiles/u/swipedRight/v, as pairs <<u, v>>
    pc,           \* where each invocation <<u, v, k>> is
    matches       \* the documents of the collection "matches"

vars == <<sending, swipedRight, pc, matches>>

Swipe == Users \X Users
Invocation == Users \X Users \X (1 .. MaxDeliveries)

Concluded == {"unrequited", "known", "made"}
State == {"idle", "get", "query", "add", "ignored", "failed", "reclaimed"}
           \union Concluded

(* The document an invocation adds: the id Firestore invents is never used *)
(* twice, and neither is the invocation that creates it.                   *)
MatchDoc == [id : Invocation, members : Swipe]
NewMatch(u, v, k) == [id |-> <<u, v, k>>, members |-> <<u, v>>]

TypeOK ==
    /\ sending \subseteq Swipe
    /\ swipedRight \subseteq Swipe
    /\ pc \in [Invocation -> State]
    /\ matches \subseteq MatchDoc

Init ==
    /\ sending = {}
    /\ swipedRight = {}
    /\ pc = [i \in Invocation |-> "idle"]
    /\ matches = {}

-----------------------------------------------------------------------------
(* The phone.                                                              *)

(* Mutation: the empty uid is not turned away.                             *)
SwipedRightOn_NoUidUnchecked(u, v) ==
    /\ <<u, v>> \in Cards
    /\ v # u
    /\ sending' = sending \union {<<u, v>>}
    /\ UNCHANGED <<swipedRight, pc, matches>>

(* swipedRightOn(uid: v) on the phone of u, called for the card in front   *)
(* of u: one's own uid and the empty uid are turned away.                  *)
SwipedRightOn(u, v) ==
    /\ <<u, v>> \in Cards
    /\ v # u
    /\ v # NoUid
    /\ sending' = sending \union {<<u, v>>}
    /\ UNCHANGED <<swipedRight, pc, matches>>

(* The write is applied.  Over an existing document it changes nothing and *)
(* raises no onCreate event.                                               *)
SwipeWritten(u, v) ==
    /\ <<u, v>> \in sending
    /\ sending' = sending \ {<<u, v>>}
    /\ swipedRight' = swipedRight \union {<<u, v>>}
    /\ UNCHANGED <<pc, matches>>

(* The write is refused: the caller only prints the error.                 *)
SwipeRefused(u, v) ==
    /\ CallsMayFail
    /\ <<u, v>> \in sending
    /\ sending' = sending \ {<<u, v>>}
    /\ UNCHANGED <<swipedRight, pc, matches>>

-----------------------------------------------------------------------------
(* The cloud function.  <<u, v, k>> is the k-th delivery of the event that *)
(* created profiles/u/swipedRight/v.                                       *)

Goto(u, v, k, s) == pc' = [pc EXCEPT ![<<u, v, k>>] = s]

(* Mutations: any match of u will do; only a document this side made will. *)
MemberOfAMatch_Any(u, v) == \E d \in matches : \E m \in 1 .. 2 : d.members[m] = u
MemberOfAMatch_Ordered(u, v) == \E d \in matches : d.members = <<u, v>>

(* Does memberOfAMatch(v, the documents whose members contain u) hold?     *)
MemberOfAMatch(u, v) ==
    \E d \in matches : \E m, n \in 1 .. 2 : d.members[m] = u /\ d.members[n] = v

(* checkForMatchOnSwipeRight up to its get().                              *)
Deliver(u, v, k) ==
    /\ <<u, v>> \in swipedRight
    /\ pc[<<u, v, k>>] = "idle"
    /\ Goto(u, v, k, IF u = v THEN "ignored" ELSE "get")
    /\ UNCHANGED <<sending, swipedRight, matches>>

(* Mutation: looks for u's own document instead of the other user's.       *)
CheckSwipedBack_OwnDoc(u, v, k) ==
    /\ pc[<<u, v, k>>] = "get"
    /\ Goto(u, v, k, IF <<u, v>> \in swipedRight THEN "query" ELSE "unrequited")
    /\ UNCHANGED <<sending, swipedRight, matches>>

(* The then() after the get(): if the other user's document exists, call   *)
(* attemptMatch, which sends its query.  Either way the function answers.  *)
CheckSwipedBack(u, v, k) ==
    /\ pc[<<u, v, k>>] = "get"
    /\ Goto(u, v, k, IF <<v, u>> \in swipedRight THEN "query" ELSE "unrequited")
    /\ UNCHANGED <<sending, swipedRight, matches>>

(* Mutation: the negation of the test is lost.                             *)
AttemptMatch_Inverted(u, v, k) ==
    /\ pc[<<u, v, k>>] = "query"
    /\ Goto(u, v, k, IF MemberOfAMatch(u, v) THEN "add" ELSE "known")
    /\ UNCHANGED <<sending, swipedRight, matches>>

(* The then() of attemptMatch: if the pair is not matched yet, call match, *)
(* which sends the add().                                                  *)
AttemptMatch(u, v, k) ==
    /\ pc[<<u, v, k>>] = "query"
    /\ Goto(u, v, k, IF MemberOfAMatch(u, v) THEN "known" ELSE "add")
    /\ UNCHANGED <<sending, swipedRight, matches>>

(* Mutation: one document is set over and over instead of a new one added. *)
MatchAdded_Overwrites(u, v, k) ==
    /\ pc[<<u, v, k>>] = "add"
    /\ Goto(u, v, k, "made")
    /\ matches' = {NewMatch(u, v, k)}
    /\ UNCHANGED <<sending, swipedRight>>

(* The add() is applied: nothing is looked at again.                       *)
MatchAdded(u, v, k) ==
    /\ pc[<<u, v, k>>] = "add"
    /\ Goto(u, v, k, "made")
    /\ matches' = matches \union {NewMatch(u, v, k)}
    /\ UNCHANGED <<sending, swipedRight>>

(* The get, the query or the add reports an error: it is logged, and the   *)
(* function asks for no retry.                                             *)
CallFails(u, v, k) ==
    /\ CallsMayFail
    /\ pc[<<u, v, k>>] \in {"get", "query", "add"}
    /\ Goto(u, v, k, "failed")
    /\ UNCHANGED <<sending, swipedRight, matches>>

(* The function has answered, and nobody waits for the query or the add.   *)
Reclaim(u, v, k) ==
    /\ MayReclaim
    /\ pc[<<u, v, k>>] \in {"query", "add"}
    /\ Goto(u, v, k, "reclaimed")
    /\ UNCHANGED <<sending, swipedRight, matches>>

-----------------------------------------------------------------------------
Work(u, v, k) ==
    CheckSwipedBack(u, v, k) \/ AttemptMatch(u, v, k) \/ MatchAdded(u, v, k)

Phone(u, v) == SwipedRightOn(u, v) \/ SwipeWritten(u, v) \/ SwipeRefused(u, v)

Invoke(u, v, k) ==
    Deliver(u, v, k) \/ Work(u, v, k) \/ CallFails(u, v, k) \/ Reclaim(u, v, k)

Next ==
    \/ \E u \in Users, v \in Users \union {NoUid} : Phone(u, v)
    \/ \E u, v \in Users, k \in 1 .. MaxDeliveries : Invoke(u, v, k)

Spec == Init /\ [][Next]_vars

(* An event is delivered at least once, and an instance that is neither    *)
(* failing nor reclaimed runs on.  Nothing makes a phone write, nothing    *)
(* makes a call fail, and nothing makes the platform deliver twice.        *)
Fairness ==
    \A u, v \in Users :
        /\ WF_vars(Deliver(u, v, 1))
        /\ \A k \in 1 .. MaxDeliveries : WF_vars(Work(u, v, k))

FairSpec == Spec /\ Fairness

-----------------------------------------------------------------------------
(* Properties.                                                             *)

Mutual(u, v) == <<u, v>> \in swipedRight /\ <<v, u>> \in swipedRight

Matched(u, v) == \E d \in matches : {d.members[1], d.members[2]} = {u, v}

(* Every match document names two different users who swiped right on      *)
(* each other, whatever the order of writes, deliveries and failures.      *)
SoundMatches ==
    \A d \in matches :
        /\ d.members[1] # d.members[2]
        /\ Mutual(d.members[1], d.members[2])

(* The event of u's swipe on v has been worked through to its end.         *)
Settled(u, v) == \E k \in 1 .. MaxDeliveries : pc[<<u, v, k>>] \in Concluded

(* When the events of two mutual swipes have each been worked through by   *)
(* one invocation, the users are matched: the two invocations cannot both  *)
(* miss the other user's document, and one that finds the pair known is    *)
(* right about it.                                                         *)
NoMissedMatch ==
    \A u, v \in Users : Settled(u, v) /\ Settled(v, u) => Matched(u, v)

(* The invocations about to add a document for u and v.                    *)
Adding(u, v) ==
    {i \in Invocation : pc[i] = "add" /\ {i[1], i[2]} = {u, v}}

(* Once two users are matched no further invocation sets out to match them *)
(* again: duplicates come only from the invocations that had already run   *)
(* their query when the first document was added.                          *)
WindowCloses ==
    [][\A u, v \in Users :
         Matched(u, v) => Adding(u, v)' \subseteq Adding(u, v)]_vars

(* index.js:34-36 says an attempt to match "will fail if match has already *)
(* been made between them": so no two documents are about one pair.        *)
AtMostOneMatch ==
    \A d, e \in matches :
        {d.members[1], d.members[2]} = {e.members[1], e.members[2]} => d = e

(* README.md:2: "If a dog who you accept also accepts you back, they will  *)
(* show up in your list of matches".                                       *)
MutualSwipesMatch ==
    \A u, v \in Users : Mutual(u, v) ~> Matched(u, v)

(* What every reachable state says of its past, and what makes the safety  *)
(* properties inductive.                                                   *)

(* Nobody swipes on themselves.                                            *)
NoSelfSwipe == \A s \in sending \union swipedRight : s[1] # s[2]

(* An invocation follows the document whose creation it is about.          *)
Triggered ==
    \A u, v \in Users, k \in 1 .. MaxDeliveries :
        pc[<<u, v, k>>] # "idle" => <<u, v>> \in swipedRight

(* An invocation past its get() with a "yes" has seen both documents.      *)
SawBoth ==
    \A u, v \in Users, k \in 1 .. MaxDeliveries :
        pc[<<u, v, k>>] \in {"query", "add", "known", "made"} => Mutual(u, v)

(* Of the invocations for two mutual swipes those of one side alone may    *)
(* have found nothing: the later document's see the earlier document.      *)
OneSideUnrequited ==
    \A u, v \in Users, k, l \in 1 .. MaxDeliveries :
        ~ (pc[<<u, v, k>>] = "unrequited" /\ pc[<<v, u, l>>] = "unrequited")

(* An invocation that ends well leaves its pair matched.                   *)
EndsMatched ==
    \A u, v \in Users, k \in 1 .. MaxDeliveries :
        pc[<<u, v, k>>] \in {"known", "made"} => Matched(u, v)

(* A match document is the work of one invocation for its two members.     *)
Provenance ==
    \A d \in matches :
        /\ d.members = <<d.id[1], d.id[2]>>
        /\ pc[d.id] = "made"

IInv ==
    /\ TypeOK
    /\ NoSelfSwipe
    /\ Triggered
    /\ SawBoth
    /\ OneSideUnrequited
    /\ EndsMatched
    /\ Provenance

(* Matching implements MatchService: a like is a swipedRight document, and *)
(* a pair is matched by its first match document.                          *)
Service == INSTANCE MatchService WITH
    likes <- swipedRight,
    matched <- {{d.members[1], d.members[2]} : d \in matches}

ServiceSpec == Service!Spec
=============================================================================
