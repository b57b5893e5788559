-------------------------------- MODULE Home --------------------------------
(***************************************************************************)
(* The screen with the dog to accept or reject (Home.swift, with           *)
(* getPotentialMatch and swipedRightOn of Api/ApiMatches.swift).           *)
(*                                                                         *)
(* A press on either button disables both and fetches a dog at random;     *)
(* the answer shows it and enables them.  The first dog is fetched too,    *)
(* but with the buttons enabled, so that its answer and that of a press    *)
(* may both be under way.  A fetch is a query for a uid and then a         *)
(* getProfileOf:                                                           *)
(*                                                                         *)
(*   query -> profile -> (shown, or asked again for one's own profile)     *)
(***************************************************************************)
EXTENDS Naturals, FiniteSets

CONSTANTS
    Users,         \* those with a profile
    Me,            \* the user of this phone
    NoUid,         \* "", and nothing on the card
    MaxFetches,    \* bound: how many fetches may be under way
    CallsMayFail   \* a database call may report an error, or nothing at all

ASSUME UsersAssumption == Me \in Users /\ NoUid \notin Users
ASSUME FetchesAssumption == MaxFetches \in Nat

Others == Users \ {Me}
Fetches == 1 .. MaxFetches

VARIABLES
    cameFrom,   \* the dog of the profile screen this screen came from, if any
    card,       \* dogName, dogProfileImage and breed
    uid,
    enabled,    \* the three buttons
    fetch,      \* the fetches under way
    liked       \* the uids swipedRightOn has accepted

vars == <<cameFrom, card, uid, enabled, fetch, liked>>

(* What becomes of the answer: getProfileOf called by viewDidLoad itself,  *)
(* makeInitialMatch, or makeMatchApiCall.                                  *)
For == {"profile screen", "initial", "match"}

None == [for |-> "none", at |-> "none", found |-> NoUid]
Fetch(f) == [for |-> f, at |-> "query", found |-> NoUid]
Getting(f, u) == [for |-> f, at |-> "profile", found |-> u]
Lost(f, u) == [for |-> f, at |-> "lost", found |-> u]

FetchState ==
    {None} \union {Fetch(f) : f \in For} \union {Getting(f, u) : f \in For, u \in Users}
           \union {Lost(f, u) : f \in For, u \in Users}

TypeOK ==
    /\ cameFrom \in Others \union {NoUid}
    /\ card \in Others \union {NoUid}
    /\ uid \in Others \union {NoUid}
    /\ enabled \in BOOLEAN
    /\ fetch \in [Fetches -> FetchState]
    /\ liked \subseteq Others

(* viewDidLoad.  Coming from the profile of somebody else, uid is theirs;  *)
(* and that profile is fetched, unless the way led through the messages.   *)
Init ==
    /\ cameFrom \in Others \union {NoUid}
    /\ uid = cameFrom
    /\ card = NoUid
    /\ enabled = TRUE
    /\ liked = {}
    /\ \E first \in {Fetch("initial")} \union
                      (IF cameFrom = NoUid THEN {} ELSE {Getting("profile screen", cameFrom)}) :
         fetch = [i \in Fetches |-> IF i = 1 THEN first ELSE None]

-----------------------------------------------------------------------------
Pending == {i \in Fetches : fetch[i] # None}

(* Mutation: the buttons are not disabled.                                 *)
AskForNext_StaysEnabled ==
    /\ UNCHANGED enabled
    /\ \E i \in Fetches \ Pending :
         /\ \A j \in Fetches \ Pending : i <= j
         /\ fetch' = [fetch EXCEPT ![i] = Fetch("match")]

(* disableButtons, and makeMatchApiCall.                                   *)
AskForNext ==
    /\ enabled' = FALSE
    /\ \E i \in Fetches \ Pending :
         /\ \A j \in Fetches \ Pending : i <= j
         /\ fetch' = [fetch EXCEPT ![i] = Fetch("match")]

XButton ==
    /\ enabled
    /\ AskForNext
    /\ UNCHANGED <<cameFrom, card, uid, liked>>

(* Mutation: swipedRightOn checks nothing.                                 *)
LoveButton_Unguarded ==
    /\ enabled
    /\ liked' = liked \union {uid}
    /\ AskForNext
    /\ UNCHANGED <<cameFrom, card, uid>>

(* loveButton: swipedRightOn turns away one's own and the empty uid.       *)
LoveButton ==
    /\ enabled
    /\ liked' = liked \union ({uid} \ {Me, NoUid})
    /\ AskForNext
    /\ UNCHANGED <<cameFrom, card, uid>>

-----------------------------------------------------------------------------
(* getPotentialMatch: the first profile from a random key on, one's own    *)
(* included.  If there is none the query is sent again with another key,   *)
(* which leaves everything as it was.                                      *)
QueryFinds(i, u) ==
    /\ fetch[i].at = "query"
    /\ fetch' = [fetch EXCEPT ![i] = Getting(@.for, u)]
    /\ UNCHANGED <<cameFrom, card, uid, enabled, liked>>

(* Mutation: the uid is not set.                                           *)
Show_CardOnly(u) == card' = u /\ UNCHANGED uid

Show(u) == card' = u /\ uid' = u

(* Mutations: the first answer is not compared with one's own uid; a card  *)
(* shown does not enable the buttons.                                      *)
ProfileArrives_OwnCard(i) ==
    /\ fetch[i].at = "profile"
    /\ IF fetch[i].found = Me /\ fetch[i].for = "match"
         THEN /\ fetch' = [fetch EXCEPT ![i] = Fetch("match")]
              /\ UNCHANGED <<card, uid, enabled>>
         ELSE /\ fetch' = [fetch EXCEPT ![i] = None]
              /\ Show(fetch[i].found)
              /\ enabled' = (enabled \/ fetch[i].for = "match")
    /\ UNCHANGED <<cameFrom, liked>>

ProfileArrives_StaysDisabled(i) ==
    /\ fetch[i].at = "profile"
    /\ IF fetch[i].found = Me
         THEN /\ fetch' = [fetch EXCEPT ![i] = Fetch("match")]
              /\ UNCHANGED <<card, uid>>
         ELSE /\ fetch' = [fetch EXCEPT ![i] = None]
              /\ Show(fetch[i].found)
    /\ UNCHANGED <<cameFrom, enabled, liked>>

(* getProfileOf has answered.  For one's own profile makeMatchApiCall is   *)
(* called, by itself as by makeInitialMatch; any other is shown, and only  *)
(* makeMatchApiCall enables the buttons.                                   *)
ProfileArrives(i) ==
    /\ fetch[i].at = "profile"
    /\ IF fetch[i].found = Me
         THEN /\ fetch' = [fetch EXCEPT ![i] = Fetch("match")]
              /\ UNCHANGED <<card, uid, enabled>>
         ELSE /\ fetch' = [fetch EXCEPT ![i] = None]
              /\ Show(fetch[i].found)
              /\ enabled' = (enabled \/ fetch[i].for = "match")
    /\ UNCHANGED <<cameFrom, liked>>

(* Mutation: the buttons are not enabled on an error.                      *)
FetchFails_StaysDisabled(i) ==
    /\ CallsMayFail
    /\ fetch[i].at \in {"query", "profile"}
    /\ fetch' = [fetch EXCEPT ![i] = None]
    /\ UNCHANGED <<cameFrom, card, uid, enabled, liked>>

(* Either call reports an error: the card stays, and makeMatchApiCall      *)
(* enables the buttons.                                                    *)
FetchFails(i) ==
    /\ CallsMayFail
    /\ fetch[i].at \in {"query", "profile"}
    /\ fetch' = [fetch EXCEPT ![i] = None]
    /\ enabled' = (enabled \/ fetch[i].for = "match")
    /\ UNCHANGED <<cameFrom, card, uid, liked>>

(* The picture is no image: getProfileOf calls nobody.                     *)
ProfileLost(i) ==
    /\ CallsMayFail
    /\ fetch[i].at = "profile"
    /\ fetch' = [fetch EXCEPT ![i] = Lost(@.for, @.found)]
    /\ UNCHANGED <<cameFrom, card, uid, enabled, liked>>

-----------------------------------------------------------------------------
Next ==
    \/ XButton
    \/ LoveButton
    \/ \E i \in Fetches :
         \/ \E u \in Users : QueryFinds(i, u)
         \/ ProfileArrives(i)
         \/ FetchFails(i)
         \/ ProfileLost(i)

Spec == Init /\ [][Next]_vars

(* Calls are answered, and the random keys do not name one's own profile   *)
(* for ever while there are others.  Nothing makes the user press.         *)
FairSpec ==
    /\ Spec
    /\ \A i \in Fetches :
         /\ SF_vars(\E u \in Others : QueryFinds(i, u))
         /\ WF_vars(ProfileArrives(i) \/ FetchFails(i))

-----------------------------------------------------------------------------
(* Properties.                                                             *)

(* What love would like is what the card shows, however the answers are    *)
(* ordered; or, before the first card, the dog whose profile the user came *)
(* from.                                                                   *)
LoveLikesTheCard == uid = card \/ (card = NoUid /\ uid = cameFrom)

(* Nobody is shown their own dog.                                          *)
NeverOneself == card # Me /\ Me \notin liked

(* The buttons are disabled only while a fetch is under way whose answer,  *)
(* whatever it is, enables them or asks on.                                *)
DisabledMeansFetching ==
    enabled \/ \E i \in Fetches : fetch[i].for = "match"

(* However the user presses and the answers come, no more than two fetches *)
(* overlap, not counting those that will never be answered.                *)
TwoFetchesAtMost ==
    Cardinality({i \in Pending : fetch[i].at # "lost"}) <= 2

(* The buttons come back after a press, unless a call is never answered.   *)
ButtonsComeBack ==
    ~ enabled ~> (enabled \/ \E i \in Fetches : fetch[i].at = "lost")
=============================================================================
