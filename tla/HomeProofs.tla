------------------------------ MODULE HomeProofs ------------------------------
(***************************************************************************)
(* Proofs about Home, for every set of users, every number of fetches and  *)
(* with and without failing calls.                                         *)
(***************************************************************************)
EXTENDS Home, FiniteSetTheorems, TLAPS

USE UsersAssumption, FetchesAssumption

(* What a fetch can be.                                                    *)
LEMMA FetchStates ==
  /\ None \in FetchState
  /\ \A f \in For : Fetch(f) \in FetchState
  /\ \A f \in For, u \in Users : Getting(f, u) \in FetchState /\ Lost(f, u) \in FetchState
BY DEF FetchState

(* A fetch at its query has found nothing yet, and one past it a user.     *)
LEMMA FetchShape ==
  ASSUME TypeOK, NEW i \in Fetches
  PROVE  /\ fetch[i] \in FetchState
         /\ fetch[i].at = "query" => fetch[i].for \in For
         /\ fetch[i].at = "profile" => fetch[i].for \in For /\ fetch[i].found \in Users
         /\ fetch[i].at \in {"query", "profile"} => fetch[i] # None
<1>1. fetch[i] \in FetchState
  BY DEF TypeOK
<1>2. CASE fetch[i] = None
  BY <1>1, <1>2 DEF None
<1>3. ASSUME NEW f \in For, fetch[i] = Fetch(f)
      PROVE  fetch[i].at = "query" /\ fetch[i].for \in For
  BY <1>3 DEF Fetch
<1>4. ASSUME NEW f \in For, NEW u \in Users, fetch[i] = Getting(f, u)
      PROVE  fetch[i].at = "profile" /\ fetch[i].for \in For /\ fetch[i].found \in Users
  BY <1>4 DEF Getting
<1>5. ASSUME NEW f \in For, NEW u \in Users, fetch[i] = Lost(f, u)
      PROVE  fetch[i].at = "lost"
  BY <1>5 DEF Lost
<1>6. None.at = "none"
  BY DEF None
<1> QED
  BY <1>1, <1>2, <1>3, <1>4, <1>5, <1>6 DEF FetchState

(* What AskForNext does to the fetches: one more is at its query.          *)
LEMMA AskedFor ==
  ASSUME TypeOK, AskForNext
  PROVE  \E i \in Fetches : /\ fetch[i] = None
                            /\ fetch' = [fetch EXCEPT ![i] = Fetch("match")]
                            /\ enabled' = FALSE
BY DEF AskForNext, Pending

(* The variables keep their types.                                         *)
THEOREM TypeCorrect == Spec => []TypeOK
<1>1. Init => TypeOK
  <2> SUFFICES ASSUME Init PROVE fetch \in [Fetches -> FetchState]
    BY DEF Init, TypeOK
  <2>1. PICK first \in {Fetch("initial"), Getting("profile screen", cameFrom)} :
          /\ fetch = [i \in Fetches |-> IF i = 1 THEN first ELSE None]
          /\ first = Fetch("initial") \/ cameFrom \in Others
    BY DEF Init
  <2>2. first \in FetchState
    BY <2>1, FetchStates DEF For, Others
  <2> QED
    BY <2>1, <2>2, FetchStates
<1>2. TypeOK /\ [Next]_vars => TypeOK'
  <2> SUFFICES ASSUME TypeOK, [Next]_vars PROVE TypeOK'
    OBVIOUS
  <2>1. CASE XButton \/ LoveButton
    <3>1. PICK i \in Fetches : fetch' = [fetch EXCEPT ![i] = Fetch("match")]
                                 /\ enabled' = FALSE
      BY <2>1, AskedFor DEF XButton, LoveButton
    <3>2. fetch' \in [Fetches -> FetchState]
      BY <3>1, FetchStates DEF TypeOK, For
    <3>3. liked' \subseteq Others
      BY <2>1 DEF XButton, LoveButton, TypeOK, Others
    <3> QED
      BY <3>1, <3>2, <3>3, <2>1 DEF TypeOK, XButton, LoveButton
  <2>2. ASSUME NEW i \in Fetches, NEW u \in Users, QueryFinds(i, u) PROVE TypeOK'
    <3>1. Getting(fetch[i].for, u) \in FetchState
      BY <2>2, FetchShape, FetchStates DEF QueryFinds
    <3>2. fetch' \in [Fetches -> FetchState]
      BY <2>2, <3>1 DEF QueryFinds, TypeOK
    <3> QED
      BY <2>2, <3>2 DEF TypeOK, QueryFinds
  <2>3. ASSUME NEW i \in Fetches, ProfileArrives(i) PROVE TypeOK'
    <3>1. fetch[i].found \in Users
      BY <2>3, FetchShape DEF ProfileArrives
    <3>2. fetch' \in [Fetches -> FetchState]
      BY <2>3, FetchStates DEF ProfileArrives, TypeOK, For
    <3>3. card' \in Others \union {NoUid} /\ uid' \in Others \union {NoUid}
      BY <2>3, <3>1 DEF ProfileArrives, TypeOK, Others, Show
    <3>4. enabled' \in BOOLEAN
      <4>1. enabled \in BOOLEAN
        BY DEF TypeOK
      <4>2. enabled' = enabled \/ enabled' = (enabled \/ fetch[i].for = "match")
        BY <2>3 DEF ProfileArrives
      <4> QED
        BY <4>1, <4>2, Zenon
    <3> QED
      BY <2>3, <3>2, <3>3, <3>4 DEF ProfileArrives, TypeOK
  <2>4. ASSUME NEW i \in Fetches, FetchFails(i) PROVE TypeOK'
    <3>1. fetch' \in [Fetches -> FetchState]
      BY <2>4, FetchStates DEF FetchFails, TypeOK
    <3> QED
      BY <2>4, <3>1 DEF FetchFails, TypeOK
  <2>5. ASSUME NEW i \in Fetches, ProfileLost(i) PROVE TypeOK'
    <3>1. Lost(fetch[i].for, fetch[i].found) \in FetchState
      BY <2>5, FetchShape, FetchStates DEF ProfileLost
    <3>2. fetch' \in [Fetches -> FetchState]
      BY <2>5, <3>1 DEF ProfileLost, TypeOK
    <3> QED
      BY <2>5, <3>2 DEF TypeOK, ProfileLost
  <2>6. CASE UNCHANGED vars
    BY <2>6 DEF vars, TypeOK
  <2> QED
    BY <2>1, <2>2, <2>3, <2>4, <2>5, <2>6 DEF Next
<1> QED
  BY <1>1, <1>2, PTL DEF Spec

-----------------------------------------------------------------------------
(* What love would like is what the card shows.                            *)
THEOREM LoveIsOfTheCard == Spec => []LoveLikesTheCard
<1>1. Init => LoveLikesTheCard
  BY DEF Init, LoveLikesTheCard
<1>2. LoveLikesTheCard /\ [Next]_vars => LoveLikesTheCard'
  BY DEF LoveLikesTheCard, Next, vars, XButton, LoveButton, QueryFinds, ProfileArrives,
         FetchFails, ProfileLost, Show
<1> QED
  BY <1>1, <1>2, PTL DEF Spec

(* Nobody is shown, or likes, their own dog.                               *)
THEOREM NobodyMeetsThemself == Spec => []NeverOneself
<1>1. Init => NeverOneself
  BY DEF Init, NeverOneself
<1>2. NeverOneself /\ [Next]_vars => NeverOneself'
  BY DEF NeverOneself, Next, vars, XButton, LoveButton, QueryFinds, ProfileArrives,
         FetchFails, ProfileLost, Show
<1> QED
  BY <1>1, <1>2, PTL DEF Spec

(* While the buttons are disabled a fetch is under way that can bring them *)
(* back.                                                                   *)
THEOREM DisabledIsFetching == Spec => []DisabledMeansFetching
<1>1. Init => DisabledMeansFetching
  BY DEF Init, DisabledMeansFetching
<1>2. TypeOK /\ DisabledMeansFetching /\ [Next]_vars => DisabledMeansFetching'
  <2> SUFFICES ASSUME TypeOK, DisabledMeansFetching, [Next]_vars, ~ enabled'
               PROVE  \E j \in Fetches : fetch'[j].for = "match"
    BY DEF DisabledMeansFetching
  <2>1. CASE XButton \/ LoveButton
    <3>1. PICK i \in Fetches : fetch' = [fetch EXCEPT ![i] = Fetch("match")]
      BY <2>1, AskedFor DEF XButton, LoveButton
    <3>2. fetch'[i].for = "match"
      BY <3>1 DEF TypeOK, Fetch
    <3> QED
      BY <3>2
  <2>2. CASE ~ (XButton \/ LoveButton)
    <3>1. ~ enabled
      BY <2>2 DEF Next, vars, QueryFinds, ProfileArrives, FetchFails, ProfileLost
    <3>2. PICK j \in Fetches : fetch[j].for = "match"
      BY <3>1 DEF DisabledMeansFetching
    <3>3. ASSUME NEW i \in Fetches, NEW u \in Users, QueryFinds(i, u)
          PROVE  fetch'[j].for = "match"
      BY <3>2, <3>3 DEF QueryFinds, TypeOK, Getting
    <3>4. ASSUME NEW i \in Fetches, ProfileArrives(i)
          PROVE  fetch'[j].for = "match"
      <4>1. CASE j # i
        BY <3>2, <3>4, <4>1 DEF ProfileArrives, TypeOK
      <4>2. CASE j = i
        <5>1. enabled' \/ fetch' = [fetch EXCEPT ![i] = Fetch("match")]
          BY <3>2, <3>4, <4>2, Zenon DEF ProfileArrives
        <5> QED
          BY <4>2, <5>1 DEF TypeOK, Fetch
      <4> QED
        BY <4>1, <4>2
    <3>5. ASSUME NEW i \in Fetches, FetchFails(i)
          PROVE  fetch'[j].for = "match"
      BY <3>2, <3>5 DEF FetchFails, TypeOK
    <3>6. ASSUME NEW i \in Fetches, ProfileLost(i)
          PROVE  fetch'[j].for = "match"
      BY <3>2, <3>6 DEF ProfileLost, TypeOK, Lost
    <3>7. UNCHANGED vars => fetch'[j].for = "match"
      BY <3>2 DEF vars
    <3> QED
      BY <2>2, <3>3, <3>4, <3>5, <3>6, <3>7 DEF Next
  <2> QED
    BY <2>1, <2>2
<1> QED
  BY <1>1, <1>2, TypeCorrect, PTL DEF Spec

-----------------------------------------------------------------------------
(* The fetches that will be answered.  That there are two at most is not   *)
(* inductive: a press adds one, so that enabled buttons must mean one at   *)
(* most.                                                                   *)
Live == {i \in Pending : fetch[i].at # "lost"}

OneWhenEnabled == TwoFetchesAtMost /\ (enabled => Cardinality(Live) <= 1)

LEMMA LiveIsFinite == IsFiniteSet(Live) /\ Cardinality(Live) \in Nat
<1>1. IsFiniteSet(Fetches)
  BY FS_Interval DEF Fetches
<1>2. IsFiniteSet(Live)
  BY <1>1, FS_Subset DEF Live, Pending
<1> QED
  BY <1>2, FS_CardinalityType

(* A call that ends takes one away.                                        *)
LEMMA OneLess ==
  ASSUME TypeOK, NEW i \in Fetches, fetch[i].at \in {"query", "profile"},
         NEW s, s = None \/ s.at = "lost",
         fetch' = [fetch EXCEPT ![i] = s]
  PROVE  Cardinality(Live') = Cardinality(Live) - 1
<1>1. i \in Live
  BY FetchShape DEF Live, Pending
<1>2. Live' = Live \ {i}
  BY DEF Live, Pending, TypeOK
<1> QED
  BY <1>1, <1>2, LiveIsFinite, FS_RemoveElement

(* A call that is followed by the next one takes none away.                *)
LEMMA NoneLess ==
  ASSUME TypeOK, NEW i \in Fetches, fetch[i].at \in {"query", "profile"},
         NEW s, s # None, s.at # "lost",
         fetch' = [fetch EXCEPT ![i] = s]
  PROVE  Cardinality(Live') = Cardinality(Live)
<1>1. i \in Live
  BY FetchShape DEF Live, Pending
<1>2. Live' = Live
  BY <1>1 DEF Live, Pending, TypeOK
<1> QED
  BY <1>2

(* No more than two fetches overlap.                                       *)
THEOREM TwoFetches == Spec => []TwoFetchesAtMost
<1> USE DEF OneWhenEnabled, TwoFetchesAtMost
<1>1. Init => OneWhenEnabled
  <2> SUFFICES ASSUME Init PROVE Cardinality(Live) <= 1
    BY LiveIsFinite DEF Live
  <2>1. Live \subseteq {1}
    BY DEF Init, Live, Pending, Fetches
  <2>2. IsFiniteSet({1}) /\ Cardinality({1}) = 1
    BY FS_Singleton
  <2> QED
    BY <2>1, <2>2, FS_Subset
<1>2. TypeOK /\ OneWhenEnabled /\ [Next]_vars => OneWhenEnabled'
  <2> SUFFICES ASSUME TypeOK, OneWhenEnabled, [Next]_vars
               PROVE  Cardinality(Live') <= 2 /\ (enabled' => Cardinality(Live') <= 1)
    BY DEF Live
  <2>0. /\ Cardinality(Live) <= 2 /\ (enabled => Cardinality(Live) <= 1)
        /\ Cardinality(Live) \in Nat
    BY LiveIsFinite DEF Live
  <2>1. CASE XButton \/ LoveButton
    <3>1. PICK i \in Fetches : fetch[i] = None /\ enabled' = FALSE
                                 /\ fetch' = [fetch EXCEPT ![i] = Fetch("match")]
      BY <2>1, AskedFor DEF XButton, LoveButton
    <3>2. Live' = Live \union {i} /\ i \notin Live
      BY <3>1 DEF Live, Pending, TypeOK, Fetch, None
    <3>3. Cardinality(Live') = Cardinality(Live) + 1
      BY <3>2, LiveIsFinite, FS_AddElement
    <3> QED
      BY <2>0, <2>1, <3>1, <3>3 DEF XButton, LoveButton
  <2>2. ASSUME NEW i \in Fetches, NEW u \in Users, QueryFinds(i, u)
        PROVE  Cardinality(Live') = Cardinality(Live) /\ enabled' = enabled
    BY <2>2, NoneLess DEF QueryFinds, Getting, None
  <2>3. ASSUME NEW i \in Fetches, ProfileArrives(i)
        PROVE  \/ Cardinality(Live') = Cardinality(Live) /\ enabled' = enabled
               \/ Cardinality(Live') = Cardinality(Live) - 1
    <3>1. CASE fetch[i].found = Me
      BY <2>3, <3>1, NoneLess DEF ProfileArrives, Fetch, None
    <3>2. CASE fetch[i].found # Me
      BY <2>3, <3>2, OneLess DEF ProfileArrives
    <3> QED
      BY <3>1, <3>2
  <2>4. ASSUME NEW i \in Fetches, FetchFails(i)
        PROVE  Cardinality(Live') = Cardinality(Live) - 1
    BY <2>4, OneLess DEF FetchFails
  <2>5. ASSUME NEW i \in Fetches, ProfileLost(i)
        PROVE  Cardinality(Live') = Cardinality(Live) - 1
    BY <2>5, OneLess DEF ProfileLost, Lost
  <2>6. CASE UNCHANGED vars
    BY <2>0, <2>6 DEF vars, Live, Pending
  <2> QED
    BY <2>0, <2>1, <2>2, <2>3, <2>4, <2>5, <2>6 DEF Next
<1>3. OneWhenEnabled => TwoFetchesAtMost
  OBVIOUS
<1> QED
  BY <1>1, <1>2, <1>3, TypeCorrect, PTL DEF Spec
=============================================================================
