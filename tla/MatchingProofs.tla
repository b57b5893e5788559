--------------------------- MODULE MatchingProofs ---------------------------
(***************************************************************************)
(* Proofs about Matching, for every set of users, every set of cards and   *)
(* every number of deliveries, with and without failing calls and          *)
(* reclaimed instances.                                                    *)
(***************************************************************************)
EXTENDS Matching, TLAPS

USE NoUidAssumption, CardsAssumption, DeliveriesAssumption

(* The constants and variables keep their shapes.                          *)
THEOREM TypeCorrect == Spec => []TypeOK
<1>1. Init => TypeOK
  BY DEF Init, TypeOK, Invocation, State
<1>2. TypeOK /\ [Next]_vars => TypeOK'
  <2> SUFFICES ASSUME TypeOK, [Next]_vars PROVE TypeOK'
    OBVIOUS
  <2>1. ASSUME NEW u \in Users, NEW v \in Users \union {NoUid}, Phone(u, v)
        PROVE  TypeOK'
    BY <2>1 DEF TypeOK, Phone, SwipedRightOn, SwipeWritten, SwipeRefused, Swipe
  <2>2. ASSUME NEW u \in Users, NEW v \in Users, NEW k \in 1 .. MaxDeliveries,
               Invoke(u, v, k)
        PROVE  TypeOK'
    <3>1. <<u, v, k>> \in Invocation /\ <<u, v>> \in Swipe
      BY DEF Invocation, Swipe
    <3>2. CASE MatchAdded(u, v, k)
      <4>1. NewMatch(u, v, k) \in MatchDoc
        BY <3>1 DEF NewMatch, MatchDoc
      <4>2. matches' \subseteq MatchDoc
        BY <4>1, <3>2 DEF MatchAdded, TypeOK
      <4>3. pc' \in [Invocation -> State]
        BY <3>1, <3>2 DEF MatchAdded, Goto, TypeOK, State, Concluded
      <4> QED
        BY <4>2, <4>3, <3>2 DEF MatchAdded, TypeOK
    <3>3. CASE Deliver(u, v, k) \/ CheckSwipedBack(u, v, k)
      BY <3>1, <3>3 DEF Deliver, CheckSwipedBack, Goto, TypeOK, State, Concluded
    <3>4. CASE AttemptMatch(u, v, k)
      BY <3>1, <3>4 DEF AttemptMatch, Goto, TypeOK, State, Concluded
    <3>5. CASE CallFails(u, v, k) \/ Reclaim(u, v, k)
      BY <3>1, <3>5 DEF CallFails, Reclaim, Goto, TypeOK, State, Concluded
    <3> QED
      BY <2>2, <3>2, <3>3, <3>4, <3>5 DEF Invoke, Work
  <2>3. CASE UNCHANGED vars
    BY <2>3 DEF vars, TypeOK
  <2> QED
    BY <2>1, <2>2, <2>3 DEF Next
<1> QED
  BY <1>1, <1>2, PTL DEF Spec

-----------------------------------------------------------------------------
(* The inductive invariant.                                                *)

(* A step of one invocation leaves every other invocation where it was.    *)
LEMMA GotoOne ==
  ASSUME TypeOK, NEW u \in Users, NEW v \in Users, NEW k \in 1 .. MaxDeliveries,
         NEW s, Goto(u, v, k, s)
  PROVE  /\ \A x, y \in Users, m \in 1 .. MaxDeliveries :
              pc'[<<x, y, m>>] = IF x = u /\ y = v /\ m = k
                                   THEN s ELSE pc[<<x, y, m>>]
         /\ \A j \in Invocation :
              pc'[j] = IF j = <<u, v, k>> THEN s ELSE pc[j]
BY DEF Goto, TypeOK, Invocation

(* A pair stays matched when documents are added, and is matched by the    *)
(* document that names it.                                                 *)
LEMMA MatchedStays ==
  ASSUME NEW u, NEW v, matches \subseteq matches'
  PROVE  Matched(u, v) => Matched(u, v)'
BY DEF Matched

LEMMA MemberIsMatched ==
  ASSUME TypeOK, Provenance, SawBoth, NoSelfSwipe,
         NEW u \in Users, NEW v \in Users, u # v, MemberOfAMatch(u, v)
  PROVE  Matched(u, v)
<1>1. PICK d \in matches, m \in 1 .. 2, n \in 1 .. 2 :
        d.members[m] = u /\ d.members[n] = v
  BY DEF MemberOfAMatch
<1>2. d.members \in Users \X Users
  BY DEF TypeOK, MatchDoc, Swipe
<1>3. d.members = <<d.members[1], d.members[2]>>
  BY <1>2
<1>4. m \in {1, 2} /\ n \in {1, 2} /\ m # n
  BY <1>1
<1>5. {d.members[1], d.members[2]} = {u, v}
  BY <1>1, <1>4
<1> QED
  BY <1>5 DEF Matched

LEMMA InitInvariant == Init => IInv
BY DEF Init, IInv, TypeOK, NoSelfSwipe, Triggered, SawBoth, OneSideUnrequited,
       EndsMatched, Provenance, Invocation, State

(* What the phones do only adds documents profiles/u/swipedRight/v.        *)
LEMMA PhoneKeepsInvariant ==
  ASSUME IInv, TypeOK', NEW u \in Users, NEW v \in Users \union {NoUid}, Phone(u, v)
  PROVE  IInv'
<1> USE DEF IInv
<1>1. /\ pc' = pc /\ matches' = matches
      /\ swipedRight \subseteq swipedRight'
      /\ swipedRight' \subseteq swipedRight \union sending
      /\ \A s \in sending' : s \in sending \/ s[1] # s[2]
  BY DEF Phone, SwipedRightOn, SwipeWritten, SwipeRefused
<1>2. NoSelfSwipe'
  BY <1>1 DEF NoSelfSwipe
<1>3. Triggered'
  BY <1>1 DEF Triggered
<1>4. SawBoth'
  BY <1>1 DEF SawBoth, Mutual
<1>5. OneSideUnrequited' /\ EndsMatched' /\ Provenance'
  BY <1>1 DEF OneSideUnrequited, EndsMatched, Provenance, Matched
<1> QED
  BY <1>2, <1>3, <1>4, <1>5

(* An invocation that moves without adding a document needs to bring these *)
(* facts about the place it moves to.                                      *)
LEMMA MoveKeepsInvariant ==
  ASSUME IInv, TypeOK', NEW u \in Users, NEW v \in Users, NEW k \in 1 .. MaxDeliveries,
         NEW s, Goto(u, v, k, s), UNCHANGED <<sending, swipedRight, matches>>,
         pc[<<u, v, k>>] # "made",
         <<u, v>> \in swipedRight,
         s \in {"query", "add", "known", "made"} => Mutual(u, v),
         s = "unrequited" => <<v, u>> \notin swipedRight,
         s \in {"known", "made"} => Matched(u, v)
  PROVE  IInv'
<1> USE DEF IInv
<1>1. /\ \A x, y \in Users, m \in 1 .. MaxDeliveries :
            pc'[<<x, y, m>>] = IF x = u /\ y = v /\ m = k
                                 THEN s ELSE pc[<<x, y, m>>]
      /\ \A j \in Invocation : pc'[j] = IF j = <<u, v, k>> THEN s ELSE pc[j]
  BY GotoOne
<1>2. NoSelfSwipe'
  BY DEF NoSelfSwipe
<1>3. Triggered'
  BY <1>1 DEF Triggered
<1>4. SawBoth'
  BY <1>1 DEF SawBoth, Mutual
<1>5. OneSideUnrequited'
  <2> SUFFICES ASSUME NEW x \in Users, NEW y \in Users,
                      NEW m \in 1 .. MaxDeliveries, NEW l \in 1 .. MaxDeliveries,
                      pc'[<<x, y, m>>] = "unrequited", pc'[<<y, x, l>>] = "unrequited"
               PROVE  FALSE
    BY DEF OneSideUnrequited
  <2>1. CASE <<x, y>> = <<u, v>> /\ s = "unrequited"
    <3>1. <<y, x>> \notin swipedRight /\ x # y
      BY <2>1 DEF NoSelfSwipe
    <3> QED
      BY <3>1, <2>1, <1>1 DEF Triggered
  <2>2. CASE <<y, x>> = <<u, v>> /\ s = "unrequited"
    <3>1. <<x, y>> \notin swipedRight /\ x # y
      BY <2>2 DEF NoSelfSwipe
    <3> QED
      BY <3>1, <2>2, <1>1 DEF Triggered
  <2>3. pc[<<x, y, m>>] = "unrequited" \/ (<<x, y>> = <<u, v>> /\ s = "unrequited")
    BY <1>1
  <2>4. pc[<<y, x, l>>] = "unrequited" \/ (<<y, x>> = <<u, v>> /\ s = "unrequited")
    BY <1>1
  <2> QED
    BY <2>1, <2>2, <2>3, <2>4 DEF OneSideUnrequited
<1>6. EndsMatched'
  <2>1. \A x, y \in Users : Matched(x, y)' <=> Matched(x, y)
    BY DEF Matched
  <2> QED
    BY <1>1, <2>1 DEF EndsMatched
<1>7. Provenance'
  <2>1. \A d \in matches : d.id \in Invocation /\ d.id # <<u, v, k>>
    BY DEF TypeOK, MatchDoc, Provenance
  <2> QED
    BY <2>1, <1>1 DEF Provenance
<1> QED
  BY <1>2, <1>3, <1>4, <1>5, <1>6, <1>7

LEMMA AddKeepsInvariant ==
  ASSUME IInv, TypeOK', NEW u \in Users, NEW v \in Users, NEW k \in 1 .. MaxDeliveries,
         MatchAdded(u, v, k)
  PROVE  IInv'
<1> USE DEF IInv
<1> DEFINE d == NewMatch(u, v, k)
<1>1. /\ \A x, y \in Users, m \in 1 .. MaxDeliveries :
            pc'[<<x, y, m>>] = IF x = u /\ y = v /\ m = k
                                 THEN "made" ELSE pc[<<x, y, m>>]
      /\ \A j \in Invocation : pc'[j] = IF j = <<u, v, k>> THEN "made" ELSE pc[j]
  BY GotoOne DEF MatchAdded
<1>2. d.id = <<u, v, k>> /\ d.members = <<u, v>> /\ d.id \in Invocation
  BY DEF NewMatch, Invocation
<1>3. matches' = matches \union {d} /\ UNCHANGED <<sending, swipedRight>>
  BY DEF MatchAdded
<1>4. pc[<<u, v, k>>] = "add" /\ Mutual(u, v)
  BY DEF MatchAdded, SawBoth
<1>5. NoSelfSwipe'
  BY <1>3 DEF NoSelfSwipe
<1>6. Triggered' /\ SawBoth'
  BY <1>1, <1>3, <1>4 DEF Triggered, SawBoth, Mutual
<1>7. OneSideUnrequited'
  <2> SUFFICES ASSUME NEW x \in Users, NEW y \in Users,
                      NEW m \in 1 .. MaxDeliveries, NEW l \in 1 .. MaxDeliveries,
                      pc'[<<x, y, m>>] = "unrequited", pc'[<<y, x, l>>] = "unrequited"
               PROVE  FALSE
    BY DEF OneSideUnrequited
  <2>1. pc[<<x, y, m>>] = "unrequited" /\ pc[<<y, x, l>>] = "unrequited"
    BY <1>1
  <2> QED
    BY <2>1 DEF OneSideUnrequited
<1>8. EndsMatched'
  <2>1. Matched(u, v)'
    BY <1>2, <1>3 DEF Matched
  <2>2. \A x, y \in Users : Matched(x, y) => Matched(x, y)'
    BY <1>3 DEF Matched
  <2> QED
    BY <2>1, <2>2, <1>1 DEF EndsMatched
<1>9. Provenance'
  <2>1. ASSUME NEW e \in matches PROVE e.id \in Invocation /\ pc'[e.id] = "made"
    BY <1>1 DEF TypeOK, MatchDoc, Provenance
  <2> QED
    BY <2>1, <1>1, <1>2, <1>3 DEF Provenance
<1> QED
  BY <1>5, <1>6, <1>7, <1>8, <1>9

LEMMA InvokeKeepsInvariant ==
  ASSUME IInv, TypeOK', NEW u \in Users, NEW v \in Users, NEW k \in 1 .. MaxDeliveries,
         Invoke(u, v, k)
  PROVE  IInv'
<1> USE DEF IInv
<1>1. CASE Deliver(u, v, k)
  BY <1>1, MoveKeepsInvariant DEF Deliver
<1>2. CASE CheckSwipedBack(u, v, k)
  <2>1. <<u, v>> \in swipedRight
    BY <1>2 DEF CheckSwipedBack, Triggered
  <2>2. CASE <<v, u>> \in swipedRight
    <3>1. Goto(u, v, k, "query") /\ Mutual(u, v)
      BY <1>2, <2>1, <2>2 DEF CheckSwipedBack, Mutual
    <3> QED
      BY <3>1, <2>1, <1>2, MoveKeepsInvariant DEF CheckSwipedBack
  <2>3. CASE <<v, u>> \notin swipedRight
    <3>1. Goto(u, v, k, "unrequited")
      BY <1>2, <2>3 DEF CheckSwipedBack
    <3> QED
      BY <3>1, <2>1, <2>3, <1>2, MoveKeepsInvariant DEF CheckSwipedBack
  <2> QED
    BY <2>2, <2>3
<1>3. CASE AttemptMatch(u, v, k)
  <2>1. <<u, v>> \in swipedRight /\ Mutual(u, v) /\ u # v
    BY <1>3 DEF AttemptMatch, SawBoth, Mutual, NoSelfSwipe
  <2>2. CASE MemberOfAMatch(u, v)
    <3>1. Goto(u, v, k, "known") /\ Matched(u, v)
      BY <1>3, <2>1, <2>2, MemberIsMatched DEF AttemptMatch
    <3> QED
      BY <3>1, <2>1, <1>3, MoveKeepsInvariant DEF AttemptMatch
  <2>3. CASE ~ MemberOfAMatch(u, v)
    <3>1. Goto(u, v, k, "add")
      BY <1>3, <2>3 DEF AttemptMatch
    <3> QED
      BY <3>1, <2>1, <1>3, MoveKeepsInvariant DEF AttemptMatch
  <2> QED
    BY <2>2, <2>3
<1>4. CASE MatchAdded(u, v, k)
  BY <1>4, AddKeepsInvariant
<1>5. CASE CallFails(u, v, k) \/ Reclaim(u, v, k)
  <2>1. \E s \in {"failed", "reclaimed"} :
          Goto(u, v, k, s) /\ pc[<<u, v, k>>] \in {"get", "query", "add"}
    BY <1>5 DEF CallFails, Reclaim
  <2>2. UNCHANGED <<sending, swipedRight, matches>> /\ <<u, v>> \in swipedRight
    BY <1>5, <2>1 DEF CallFails, Reclaim, Triggered
  <2> QED
    BY <2>1, <2>2, MoveKeepsInvariant
<1> QED
  BY <1>1, <1>2, <1>3, <1>4, <1>5 DEF Invoke, Work

(* Every reachable state accounts for its past.                            *)
THEOREM Invariant == Spec => []IInv
<1>1. Init => IInv
  BY InitInvariant
<1>2. IInv /\ TypeOK' /\ [Next]_vars => IInv'
  <2> SUFFICES ASSUME IInv, TypeOK', [Next]_vars PROVE IInv'
    OBVIOUS
  <2>1. CASE Next
    BY <2>1, PhoneKeepsInvariant, InvokeKeepsInvariant DEF Next
  <2>2. CASE UNCHANGED vars
    BY <2>2 DEF vars, IInv, TypeOK, NoSelfSwipe, Triggered, SawBoth, Mutual,
                OneSideUnrequited, EndsMatched, Matched, Provenance
  <2> QED
    BY <2>1, <2>2
<1> QED
  BY <1>1, <1>2, TypeCorrect, PTL DEF Spec

-----------------------------------------------------------------------------
(* What follows from it.                                                   *)

(* Two users are matched only if they are two and swiped right on each     *)
(* other: no trigger, delivery or failure makes a match of anything less.  *)
THEOREM MatchesAreSound == Spec => []SoundMatches
<1>1. IInv => SoundMatches
  <2> SUFFICES ASSUME IInv, NEW d \in matches
               PROVE  d.members[1] # d.members[2] /\ Mutual(d.members[1], d.members[2])
    BY DEF SoundMatches
  <2>1. PICK u \in Users, v \in Users, k \in 1 .. MaxDeliveries : d.id = <<u, v, k>>
    BY DEF IInv, TypeOK, MatchDoc, Invocation
  <2>2. d.members[1] = u /\ d.members[2] = v /\ Mutual(u, v)
    <3>1. d.members = <<d.id[1], d.id[2]>> /\ pc[d.id] = "made"
      BY DEF IInv, Provenance
    <3>2. d.members = <<u, v>> /\ pc[<<u, v, k>>] = "made"
      BY <3>1, <2>1
    <3> QED
      BY <3>2 DEF IInv, SawBoth
  <2> QED
    BY <2>2 DEF IInv, NoSelfSwipe, Mutual
<1> QED
  BY <1>1, Invariant, PTL

(* When each of two mutual swipes has been worked through by some          *)
(* invocation, the two users are matched.                                  *)
THEOREM NoMatchIsMissed == Spec => []NoMissedMatch
<1>1. IInv => NoMissedMatch
  <2> SUFFICES ASSUME IInv, NEW u \in Users, NEW v \in Users,
                      Settled(u, v), Settled(v, u)
               PROVE  Matched(u, v)
    BY DEF NoMissedMatch
  <2>1. PICK k \in 1 .. MaxDeliveries : pc[<<u, v, k>>] \in Concluded
    BY DEF Settled
  <2>2. PICK l \in 1 .. MaxDeliveries : pc[<<v, u, l>>] \in Concluded
    BY DEF Settled
  <2>3. CASE pc[<<u, v, k>>] \in {"known", "made"}
    BY <2>3 DEF IInv, EndsMatched
  <2>4. CASE pc[<<v, u, l>>] \in {"known", "made"}
    <3>1. Matched(v, u)
      BY <2>4 DEF IInv, EndsMatched
    <3> QED
      BY <3>1 DEF Matched
  <2>5. pc[<<u, v, k>>] # "unrequited" \/ pc[<<v, u, l>>] # "unrequited"
    BY DEF IInv, OneSideUnrequited
  <2> QED
    BY <2>1, <2>2, <2>3, <2>4, <2>5 DEF Concluded
<1> QED
  BY <1>1, Invariant, PTL

(* Once two users are matched, no further invocation sets out to add a     *)
(* document for them.                                                      *)
THEOREM TheWindowCloses == Spec => WindowCloses
<1>1. ASSUME IInv, [Next]_vars, NEW u \in Users, NEW v \in Users, Matched(u, v),
             NEW i \in Adding(u, v)'
      PROVE  i \in Adding(u, v)
  <2>1. i \in Invocation /\ pc'[i] = "add" /\ {i[1], i[2]} = {u, v}
    BY <1>1 DEF Adding
  <2> SUFFICES ASSUME pc[i] # "add" PROVE FALSE
    BY <2>1 DEF Adding
  <2>2. PICK x \in Users, y \in Users, k \in 1 .. MaxDeliveries : Invoke(x, y, k)
    BY <1>1, <2>1 DEF Next, vars, Phone, SwipedRightOn, SwipeWritten, SwipeRefused
  <2>3. ASSUME NEW s, Goto(x, y, k, s) PROVE s = "add" /\ i = <<x, y, k>>
    BY <2>1, <2>3, <1>1, GotoOne DEF IInv
  <2>4. AttemptMatch(x, y, k)
    BY <2>2, <2>3 DEF Invoke, Work, Deliver, CheckSwipedBack, MatchAdded,
                      CallFails, Reclaim
  <2>5. ~ MemberOfAMatch(x, y)
    BY <2>3, <2>4 DEF AttemptMatch
  <2>6. {x, y} = {u, v}
    <3>1. Goto(x, y, k, "add")
      BY <2>4, <2>5 DEF AttemptMatch
    <3> QED
      BY <3>1, <2>3, <2>1
  <2>7. PICK d \in matches : {d.members[1], d.members[2]} = {x, y}
    BY <2>6, <1>1 DEF Matched
  <2>8. MemberOfAMatch(x, y)
    <3>1. \E m, n \in {1, 2} : d.members[m] = x /\ d.members[n] = y
      BY <2>7
    <3> QED
      BY <3>1 DEF MemberOfAMatch
  <2> QED
    BY <2>5, <2>8
<1>2. IInv /\ [Next]_vars
        => [\A u, v \in Users :
              Matched(u, v) => Adding(u, v)' \subseteq Adding(u, v)]_vars
  BY <1>1
<1> QED
  BY <1>2, Invariant, PTL DEF Spec, WindowCloses

(* Matching implements MatchService: the first document of a pair is the   *)
(* match, a further one changes nothing the service promises.              *)
THEOREM ImplementsService == Spec => ServiceSpec
<1> DEFINE P(S) == {{d.members[1], d.members[2]} : d \in S}
<1>1. Init => Service!Init
  BY DEF Init, Service!Init
<1>2. ASSUME IInv, [Next]_vars PROVE [Service!Next]_(Service!vars)
  <2>1. ASSUME NEW u \in Users, NEW v \in Users \union {NoUid}, Phone(u, v)
        PROVE  [Service!Next]_(Service!vars)
    <3>1. CASE SwipeWritten(u, v)
      <4>1. <<u, v>> \in sending /\ v \in Users /\ u # v
        <5>1. <<u, v>> \in sending
          BY <3>1 DEF SwipeWritten
        <5>2. <<u, v>> \in Users \X Users
          BY <5>1, <1>2 DEF IInv, TypeOK, Swipe
        <5>3. \A s \in sending : s[1] # s[2]
          BY <1>2 DEF IInv, NoSelfSwipe
        <5> QED
          BY <5>1, <5>2, <5>3
      <4>2. Service!Like(u, v)
        BY <3>1, <4>1 DEF SwipeWritten, Service!Like
      <4> QED
        BY <4>1, <4>2 DEF Service!Next
    <3>2. CASE SwipedRightOn(u, v) \/ SwipeRefused(u, v)
      BY <3>2 DEF SwipedRightOn, SwipeRefused, Service!vars
    <3> QED
      BY <2>1, <3>1, <3>2 DEF Phone
  <2>2. ASSUME NEW u \in Users, NEW v \in Users, NEW k \in 1 .. MaxDeliveries,
               Invoke(u, v, k)
        PROVE  [Service!Next]_(Service!vars)
    <3>1. CASE MatchAdded(u, v, k)
      <4>1. matches' = matches \union {NewMatch(u, v, k)} /\ swipedRight' = swipedRight
        BY <3>1 DEF MatchAdded
      <4>2. NewMatch(u, v, k).members[1] = u /\ NewMatch(u, v, k).members[2] = v
        BY DEF NewMatch
      <4>3. P(matches') = P(matches) \union {{u, v}}
        BY <4>1, <4>2
      <4>4. Service!Mutual(u, v)
        BY <3>1, <1>2 DEF MatchAdded, IInv, SawBoth, Mutual, Service!Mutual
      <4>5. CASE {u, v} \in P(matches)
        <5>1. P(matches') = P(matches)
          BY <4>3, <4>5
        <5> QED
          BY <4>1, <5>1 DEF Service!vars
      <4>6. CASE {u, v} \notin P(matches)
        <5>1. Service!Match(u, v)
          BY <4>1, <4>3, <4>4, <4>6 DEF Service!Match
        <5> QED
          BY <5>1 DEF Service!Next
      <4> QED
        BY <4>5, <4>6
    <3>2. CASE ~ MatchAdded(u, v, k)
      BY <2>2, <3>2 DEF Invoke, Work, Deliver, CheckSwipedBack, AttemptMatch,
                        CallFails, Reclaim, Service!vars
    <3> QED
      BY <3>1, <3>2
  <2>3. CASE UNCHANGED vars
    BY <2>3 DEF vars, Service!vars
  <2> QED
    BY <2>1, <2>2, <2>3, <1>2 DEF Next
<1> QED
  BY <1>1, <1>2, Invariant, PTL DEF Spec, ServiceSpec, Service!Spec
=============================================================================
