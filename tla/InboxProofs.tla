----------------------------- MODULE InboxProofs -----------------------------
(***************************************************************************)
(* Proofs about Inbox, for any partners and match documents, any number of *)
(* loads, failures and changes of the database.                            *)
(***************************************************************************)
EXTENDS Inbox, WellFoundedInduction, TLAPS

USE OwnerAssumption, BoundsAssumption

(* How many leaves the load r still owes to its group.                     *)
Due(r) == (IF r.getMatches \in {"query", "fanout"} THEN 1 ELSE 0)
            + (IF r.getConversationsInfo \in {"query", "fanout"} THEN 1 ELSE 0)

(* Documents are waited for only in a fan-out, and both lists are asked    *)
(* for together.                                                           *)
FansOut(r) ==
    /\ Waiting(r.profiles) => r.getMatches = "fanout"
    /\ Waiting(r.infos) => r.getConversationsInfo = "fanout"
    /\ r.getMatches = "idle" <=> r.getConversationsInfo = "idle"

(* The count of the group is what is owed, but for completions that were   *)
(* called with an error; the tables wait as long as it is not 0.           *)
Balanced(r) ==
    /\ FansOut(r)
    /\ r.errors = 0 => r.group = Due(r)
    /\ r.getMatches # "idle" => (r.tables = "wait" <=> r.group > 0)

(* Lists that are not shown will be, by a load that is not over.           *)
ToBeShown ==
    \/ matchesCollection = profilesArray /\ conversationsTV = conversationsInfoArray
    \/ \E l \in Loads : load[l].getMatches # "idle" /\ load[l].tables # "done"

(* Once the app has stopped nothing is owed any more.                      *)
IInv ==
    /\ TypeOK
    /\ OnlyErrorsCrash
    /\ ~ crashed => ToBeShown /\ \A l \in Loads : Balanced(load[l])

(* The load l becomes r, but for what leaves do to its group and tables.   *)
Like(s, r) ==
    /\ s \in Load
    /\ s.getMatches = r.getMatches /\ s.getConversationsInfo = r.getConversationsInfo
    /\ s.profiles = r.profiles /\ s.infos = r.infos
    /\ s.profileArray = r.profileArray /\ s.infoArray = r.infoArray
    /\ s.errors = r.errors /\ s.claims = r.claims
    /\ s.globalError = r.globalError /\ s.trouble = r.trouble

LEMMA IdleIsALoad == Idle \in Load
<1>1. Nowhere \in [Docs -> Stage] /\ <<>> \in Seq(Partners)
  BY DEF Nowhere, Stage
<1> QED
  BY <1>1 DEF Idle, Load

(* getMatchDoc finds a document if there is one.                           *)
LEMMA MatchDocExists ==
  ASSUME matches \subseteq Nat, NEW p, MatchDocs(p) # {}
  PROVE  MatchDoc(p) \in MatchDocs(p)
<1>1. MatchDocs(p) \subseteq Nat
  BY DEF MatchDocs
<1> DEFINE Less == {s \in Nat \X Nat : s[1] < s[2]}
<1>2. IsWellFoundedOn(Less, Nat)
  BY NatLessThanWellFounded DEF OpToRel
<1>3. PICK d \in MatchDocs(p) : \A e \in MatchDocs(p) : ~ (<<e, d>> \in Less)
  BY <1>1, <1>2, WFMin
<1>4. \A e \in MatchDocs(p) : d <= e
  <2> SUFFICES ASSUME NEW e \in MatchDocs(p), ~ (d <= e) PROVE FALSE
    OBVIOUS
  <2>1. <<e, d>> \in Nat \X Nat /\ e < d
    BY <1>1
  <2>2. <<e, d>> \in Less
    BY <2>1
  <2> QED
    BY <1>3, <2>2
<1> QED
  BY <1>4 DEF MatchDoc

LEMMA Settled ==
  ASSUME NEW l \in Loads, NEW r \in Load, NEW n \in Nat, TypeOK, Settle(l, r, n)
  PROVE  \E s \in Load :
           /\ load' = [load EXCEPT ![l] = s]
           /\ Like(s, r)
           /\ \/ crashed' = TRUE /\ n > r.group
              \/ /\ crashed' = crashed
                 /\ n <= r.group
                 /\ s.group = r.group - n
                 /\ s.tables = IF n > 0 /\ r.group = n THEN "reload" ELSE r.tables
<1>1. r.group \in 0 .. 2
  BY DEF Load
<1>2. CASE n > r.group
  BY <1>2 DEF Settle, Like
<1>3. CASE ~ (n > r.group)
  <2>1. Leave(r, n) \in Load
    <3>1. r.group - n \in 0 .. 2
      BY <1>1, <1>3
    <3>2. ASSUME NEW g \in 0 .. 2, NEW t \in {"wait", "reload", "done"}
          PROVE  [r EXCEPT !.group = g, !.tables = t] \in Load
      BY DEF Load
    <3>3. r.tables \in {"wait", "reload", "done"}
      BY DEF Load
    <3> QED
      BY <3>1, <3>2, <3>3 DEF Leave
  <2>2. Like(Leave(r, n), r)
    BY <2>1 DEF Leave, Load, Like
  <2>3. /\ Leave(r, n).group = r.group - n
        /\ Leave(r, n).tables = IF n > 0 /\ r.group = n THEN "reload" ELSE r.tables
    BY DEF Leave, Load
  <2> QED
    BY <1>1, <1>3, <2>1, <2>2, <2>3 DEF Settle
<1> QED
  BY <1>2, <1>3

(* A step of the load l that pays n leaves for what it still owed, or      *)
(* reports an error, keeps the invariant.  Lists change only with a leave. *)
LEMMA SettleKeepsInvariant ==
  ASSUME IInv, ~ crashed, NEW l \in Loads, NEW r \in Load, NEW n \in Nat,
         Settle(l, r, n),
         load[l].getMatches # "idle", r.getMatches # "idle",
         FansOut(r),
         r.group = load[l].group, r.tables = load[l].tables,
         r.errors = 0 => load[l].errors = 0 /\ Due(load[l]) = Due(r) + n,
         n > 0 \/ UNCHANGED lists,
         matches' \subseteq Docs, talked' \subseteq matches', news' \in 0 .. MaxNews,
         profilesArray' \in Seq(Partners), conversationsInfoArray' \in Seq(Partners),
         failures' \in 0 .. MaxFailures,
         UNCHANGED display
  PROVE  IInv'
<1>1. PICK s \in Load :
        /\ load' = [load EXCEPT ![l] = s]
        /\ Like(s, r)
        /\ \/ crashed' = TRUE /\ n > r.group
           \/ /\ crashed' = crashed
              /\ n <= r.group
              /\ s.group = r.group - n
              /\ s.tables = IF n > 0 /\ r.group = n THEN "reload" ELSE r.tables
  BY Settled DEF IInv
<1>2. /\ load'[l] = s
      /\ \A k \in Loads : k # l => load'[k] = load[k]
      /\ load' \in [Loads -> Load]
  BY <1>1 DEF IInv, TypeOK
<1>3. TypeOK'
  BY <1>1, <1>2 DEF IInv, TypeOK, display
<1>4. r.group \in 0 .. 2 /\ Due(r) \in 0 .. 2
  BY DEF Load, Due
<1>5. Due(s) = Due(r) /\ FansOut(s) /\ s.errors = r.errors /\ s.getMatches # "idle"
  BY <1>1 DEF Like, Due, FansOut
<1>6. Balanced(load[l])
  BY DEF IInv
<1>7. OnlyErrorsCrash'
  <2> SUFFICES ASSUME crashed' PROVE load'[l].errors > 0
    BY DEF OnlyErrorsCrash
  <2>1. n > r.group
    BY <1>1
  <2>2. r.errors # 0
    BY <2>1, <1>4, <1>6 DEF Balanced
  <2> QED
    BY <2>2, <1>2, <1>5 DEF Load
<1>8. ASSUME ~ crashed' PROVE ToBeShown' /\ \A k \in Loads : Balanced(load'[k])
  <2>1. /\ n <= r.group
        /\ s.group = r.group - n
        /\ s.tables = IF n > 0 /\ r.group = n THEN "reload" ELSE r.tables
    BY <1>1, <1>8
  <2>2. s.tables = "wait" <=> s.group > 0
    BY <2>1, <1>4, <1>6 DEF Balanced
  <2>3. Balanced(s)
    BY <2>1, <2>2, <1>4, <1>5, <1>6 DEF Balanced
  <2>4. \A k \in Loads : Balanced(load'[k])
    BY <2>3, <1>2 DEF IInv
  <2>5. ToBeShown'
    <3>1. CASE n > 0
      <4>1. r.group > 0
        BY <3>1, <2>1, <1>4
      <4>2. r.tables = "wait"
        BY <4>1, <1>6 DEF Balanced
      <4> QED
        BY <4>2, <2>1, <1>2, <1>5 DEF ToBeShown
    <3>2. CASE n = 0
      <4>1. s.tables = load[l].tables
        BY <3>2, <2>1
      <4>2. ToBeShown /\ UNCHANGED <<lists, display>>
        BY <3>2 DEF IInv
      <4> QED
        BY <4>1, <4>2, <1>2, <1>5 DEF ToBeShown, lists, display
    <3> QED
      BY <3>1, <3>2
  <2> QED
    BY <2>4, <2>5
<1> QED
  BY <1>3, <1>7, <1>8 DEF IInv

(* getMatches pays its own leave with its last reply, and one more for     *)
(* each error it reports.                                                  *)
LEMMA MatchesStepKeepsInvariant ==
  ASSUME IInv, ~ crashed, NEW l \in Loads, NEW r \in Load, NEW before \in {0, 1},
         MatchesStep(l, r, before),
         load[l].getMatches \in {"query", "fanout"}, r.getMatches = "fanout",
         r.getConversationsInfo = load[l].getConversationsInfo, r.infos = load[l].infos,
         r.group = load[l].group, r.tables = load[l].tables,
         r.errors = 0 => load[l].errors = 0 /\ before = 0,
         failures' \in 0 .. MaxFailures,
         UNCHANGED <<database, conversationsInfoArray, display>>
  PROVE  IInv'
<1>1. /\ FansOut(load[l]) /\ TypeOK /\ UNCHANGED <<matches, talked, news, display>>
      /\ conversationsInfoArray' = conversationsInfoArray
      /\ load[l] \in Load
  BY DEF IInv, Balanced, TypeOK, database
<1>2. CASE Waiting(r.profiles)
  <2>1. FansOut(r)
    BY <1>1 DEF FansOut
  <2>2. r.errors = 0 => load[l].errors = 0 /\ Due(load[l]) = Due(r) + before
    BY DEF Due
  <2>3. Settle(l, r, before) /\ UNCHANGED lists
    BY <1>1, <1>2 DEF MatchesStep, lists
  <2> QED
    BY <1>1, <2>1, <2>2, <2>3, SettleKeepsInvariant DEF TypeOK, lists
<1>3. CASE ~ Waiting(r.profiles)
  <2> DEFINE s == [r EXCEPT !.getMatches = "done", !.claims = TRUE, !.profileArray = <<>>]
  <2>1. /\ s \in Load
        /\ s.getMatches = "done" /\ s.getConversationsInfo = r.getConversationsInfo
        /\ s.profiles = r.profiles /\ s.infos = r.infos
        /\ s.group = r.group /\ s.tables = r.tables /\ s.errors = r.errors
    <3>1. <<>> \in Seq(Partners)
      OBVIOUS
    <3>2. s \in Load
      BY <3>1 DEF Load
    <3> QED
      BY <3>2 DEF Load
  <2>2. FansOut(s)
    BY <1>1, <1>3, <2>1 DEF FansOut
  <2>3. s.errors = 0 => load[l].errors = 0 /\ Due(load[l]) = Due(s) + (before + 1)
    BY <2>1 DEF Due
  <2>4. Settle(l, s, before + 1) /\ profilesArray' = Replace(profilesArray, r.profileArray)
    BY <1>3 DEF MatchesStep
  <2>5. profilesArray' \in Seq(Partners)
    BY <1>1, <2>4 DEF TypeOK, Replace, Load
  <2>6. before + 1 \in Nat /\ before + 1 > 0
    OBVIOUS
  <2> HIDE DEF s
  <2> QED
    BY <1>1, <2>1, <2>2, <2>3, <2>4, <2>5, <2>6, SettleKeepsInvariant DEF TypeOK
<1> QED
  BY <1>2, <1>3

(* getConversationsInfo pays its leave with its last reply.                *)
LEMMA InfosStepKeepsInvariant ==
  ASSUME IInv, ~ crashed, NEW l \in Loads, NEW r \in Load,
         InfosStep(l, r),
         load[l].getConversationsInfo \in {"query", "fanout"},
         r.getConversationsInfo = "fanout",
         r.getMatches = load[l].getMatches, r.profiles = load[l].profiles,
         r.group = load[l].group, r.tables = load[l].tables, r.errors = load[l].errors,
         failures' \in 0 .. MaxFailures,
         UNCHANGED <<database, profilesArray, display>>
  PROVE  IInv'
<1>1. /\ FansOut(load[l]) /\ TypeOK /\ UNCHANGED <<matches, talked, news, display>>
      /\ profilesArray' = profilesArray
      /\ load[l] \in Load
  BY DEF IInv, Balanced, TypeOK, database
<1>2. load[l].getMatches # "idle"
  BY <1>1 DEF FansOut
<1>3. CASE Waiting(r.infos)
  <2>1. FansOut(r)
    BY <1>1, <1>2 DEF FansOut
  <2>2. Due(load[l]) = Due(r) + 0
    BY DEF Due
  <2>3. Settle(l, r, 0) /\ UNCHANGED lists
    BY <1>1, <1>3 DEF InfosStep, lists
  <2> QED
    BY <1>1, <1>2, <2>1, <2>2, <2>3, SettleKeepsInvariant DEF TypeOK, lists
<1>4. CASE ~ Waiting(r.infos)
  <2> DEFINE s == [r EXCEPT !.getConversationsInfo = "done", !.infoArray = <<>>]
  <2>1. /\ s \in Load
        /\ s.getConversationsInfo = "done" /\ s.getMatches = r.getMatches
        /\ s.profiles = r.profiles /\ s.infos = r.infos
        /\ s.group = r.group /\ s.tables = r.tables /\ s.errors = r.errors
    <3>1. <<>> \in Seq(Partners)
      OBVIOUS
    <3>2. s \in Load
      BY <3>1 DEF Load
    <3> QED
      BY <3>2 DEF Load
  <2>2. FansOut(s)
    BY <1>1, <1>2, <1>4, <2>1 DEF FansOut
  <2>3. Due(load[l]) = Due(s) + 1
    BY <2>1 DEF Due
  <2>4. Settle(l, s, 1)
    BY <1>4 DEF InfosStep
  <2>5. conversationsInfoArray' \in Seq(Partners)
    BY <1>1, <1>4 DEF InfosStep, TypeOK, Replace, Load
  <2> HIDE DEF s
  <2> QED
    BY <1>1, <1>2, <2>1, <2>2, <2>3, <2>4, <2>5, SettleKeepsInvariant DEF TypeOK
<1> QED
  BY <1>3, <1>4

(* A call that is put off, or lost, pays nothing and changes nothing else. *)
LEMMA WaitKeepsInvariant ==
  ASSUME IInv, ~ crashed, NEW l \in Loads, NEW r \in Load,
         load' = [load EXCEPT ![l] = r],
         load[l].getMatches # "idle", FansOut(r),
         r.getMatches = load[l].getMatches,
         r.getConversationsInfo = load[l].getConversationsInfo,
         r.group = load[l].group, r.tables = load[l].tables, r.errors = load[l].errors,
         failures' \in 0 .. MaxFailures,
         UNCHANGED <<database, lists, display, crashed>>
  PROVE  IInv'
<1>1. load'[l] = r /\ \A k \in Loads : k # l => load'[k] = load[k]
  BY DEF IInv, TypeOK
<1>2. TypeOK'
  BY DEF IInv, TypeOK, database, lists, display
<1>3. Balanced(r)
  BY DEF IInv, Balanced, Due
<1>4. ToBeShown'
  BY <1>1 DEF IInv, ToBeShown, lists, display
<1> QED
  BY <1>1, <1>2, <1>3, <1>4 DEF IInv, OnlyErrorsCrash

-----------------------------------------------------------------------------
(* The two fan-outs reply by reply.                                        *)
LEMMA AnswerKeepsInvariant ==
  ASSUME IInv, NEW l \in Loads, Answer(l)
  PROVE  IInv'
<1>1. /\ TypeOK /\ load[l] \in Load /\ failures \in 0 .. MaxFailures
      /\ ~ crashed => FansOut(load[l])
  BY DEF IInv, TypeOK, Balanced
<1>2. CASE MatchesQueried(l)
  <2> DEFINE r == [load[l] EXCEPT !.getMatches = "fanout",
                     !.profiles = [d \in Docs |-> IF d \in matches THEN "profile" ELSE "out"]]
  <2>1. r \in Load
    BY <1>1 DEF Load, Stage
  <2>2. /\ r.getMatches = "fanout" /\ r.getConversationsInfo = load[l].getConversationsInfo
        /\ r.infos = load[l].infos /\ r.errors = load[l].errors
        /\ r.group = load[l].group /\ r.tables = load[l].tables
    BY <1>1 DEF Load
  <2>3. /\ MatchesStep(l, r, 0) /\ ~ crashed /\ load[l].getMatches = "query"
        /\ UNCHANGED <<database, conversationsInfoArray, display, failures>>
    BY <1>2 DEF MatchesQueried
  <2> HIDE DEF r
  <2> QED
    BY <1>1, <2>1, <2>2, <2>3, MatchesStepKeepsInvariant
<1>3. CASE InfosQueried(l)
  <2> DEFINE r == [load[l] EXCEPT !.getConversationsInfo = "fanout",
                     !.infos = [d \in Docs |-> IF d \in matches THEN "first" ELSE "out"]]
  <2>1. r \in Load
    BY <1>1 DEF Load, Stage
  <2>2. /\ r.getConversationsInfo = "fanout" /\ r.getMatches = load[l].getMatches
        /\ r.profiles = load[l].profiles /\ r.errors = load[l].errors
        /\ r.group = load[l].group /\ r.tables = load[l].tables
    BY <1>1 DEF Load
  <2>3. /\ InfosStep(l, r) /\ ~ crashed /\ load[l].getConversationsInfo = "query"
        /\ UNCHANGED <<database, profilesArray, display, failures>>
    BY <1>3 DEF InfosQueried
  <2> HIDE DEF r
  <2> QED
    BY <1>1, <2>1, <2>2, <2>3, InfosStepKeepsInvariant
<1>4. ASSUME NEW d \in Docs, MatchProfileArrives(l, d) PROVE IInv'
  <2> DEFINE r == [load[l] EXCEPT !.profiles[d] = "out",
                                  !.profileArray = Append(@, Owner[d])]
  <2>1. load[l].getMatches = "fanout" /\ ~ crashed
    BY <1>1, <1>4 DEF MatchProfileArrives, FansOut, Waiting
  <2>2. Append(load[l].profileArray, Owner[d]) \in Seq(Partners)
    BY <1>1 DEF Load
  <2>3. r \in Load
    BY <1>1, <2>2 DEF Load, Stage
  <2>4. /\ r.getMatches = "fanout" /\ r.getConversationsInfo = load[l].getConversationsInfo
        /\ r.infos = load[l].infos /\ r.errors = load[l].errors
        /\ r.group = load[l].group /\ r.tables = load[l].tables
    BY <1>1, <2>1 DEF Load
  <2>5. /\ MatchesStep(l, r, 0)
        /\ UNCHANGED <<database, conversationsInfoArray, display, failures>>
    BY <1>4 DEF MatchProfileArrives
  <2> HIDE DEF r
  <2> QED
    BY <1>1, <2>1, <2>3, <2>4, <2>5, MatchesStepKeepsInvariant
<1>5. ASSUME NEW d \in Docs, FirstMessageQueried(l, d) PROVE IInv'
  <2> DEFINE r == [load[l] EXCEPT !.infos[d] = IF d \in talked THEN "profile" ELSE "out"]
  <2>1. load[l].getConversationsInfo = "fanout" /\ ~ crashed
    BY <1>1, <1>5 DEF FirstMessageQueried, FansOut, Waiting
  <2>2. r \in Load
    BY <1>1 DEF Load, Stage
  <2>3. /\ r.getConversationsInfo = "fanout" /\ r.getMatches = load[l].getMatches
        /\ r.profiles = load[l].profiles /\ r.errors = load[l].errors
        /\ r.group = load[l].group /\ r.tables = load[l].tables
    BY <1>1, <2>1 DEF Load
  <2>4. InfosStep(l, r) /\ UNCHANGED <<database, profilesArray, display, failures>>
    BY <1>5 DEF FirstMessageQueried
  <2> HIDE DEF r
  <2> QED
    BY <1>1, <2>1, <2>2, <2>3, <2>4, InfosStepKeepsInvariant
<1>6. ASSUME NEW d \in Docs, InfoProfileArrives(l, d) PROVE IInv'
  <2> DEFINE r == [load[l] EXCEPT !.infos[d] = "latest"]
  <2>1. load[l].getConversationsInfo = "fanout" /\ ~ crashed
    BY <1>1, <1>6 DEF InfoProfileArrives, FansOut, Waiting
  <2>2. r \in Load
    BY <1>1 DEF Load, Stage
  <2>3. /\ r.getConversationsInfo = "fanout" /\ r.getMatches = load[l].getMatches
        /\ r.profiles = load[l].profiles /\ r.errors = load[l].errors
        /\ r.group = load[l].group /\ r.tables = load[l].tables
    BY <1>1, <2>1 DEF Load
  <2>4. /\ load' = [load EXCEPT ![l] = r]
        /\ UNCHANGED <<database, lists, display, crashed, failures>>
    BY <1>6 DEF InfoProfileArrives
  <2>5. FansOut(r) /\ load[l].getMatches # "idle"
    BY <1>1, <2>1, <2>3 DEF FansOut
  <2> HIDE DEF r
  <2> QED
    BY <1>1, <2>1, <2>2, <2>3, <2>4, <2>5, WaitKeepsInvariant
<1>7. ASSUME NEW d \in Docs, LatestMessageArrives(l, d) PROVE IInv'
  <2>1. load[l].getConversationsInfo = "fanout" /\ ~ crashed
    BY <1>1, <1>7 DEF LatestMessageArrives, FansOut, Waiting
  <2>2. PICK r : /\ InfosStep(l, r)
                 /\ \/ r = [load[l] EXCEPT !.infos[d] = "out",
                                           !.infoArray = Append(@, Owner[d])]
                    \/ r = [load[l] EXCEPT !.infos[d] = "out", !.globalError = TRUE]
    BY <1>7 DEF LatestMessageArrives
  <2>3. Append(load[l].infoArray, Owner[d]) \in Seq(Partners)
    BY <1>1 DEF Load
  <2>4. r \in Load
    <3>1. [load[l] EXCEPT !.infos[d] = "out", !.infoArray = Append(@, Owner[d])] \in Load
      BY <1>1, <2>3 DEF Load, Stage
    <3>2. [load[l] EXCEPT !.infos[d] = "out", !.globalError = TRUE] \in Load
      BY <1>1 DEF Load, Stage
    <3> QED
      BY <2>2, <3>1, <3>2
  <2>5. /\ r.getConversationsInfo = "fanout" /\ r.getMatches = load[l].getMatches
        /\ r.profiles = load[l].profiles /\ r.errors = load[l].errors
        /\ r.group = load[l].group /\ r.tables = load[l].tables
    BY <1>1, <2>1, <2>2 DEF Load
  <2>6. UNCHANGED <<database, profilesArray, display, failures>>
    BY <1>7 DEF LatestMessageArrives
  <2> QED
    BY <1>1, <2>1, <2>2, <2>4, <2>5, <2>6, InfosStepKeepsInvariant
<1> QED
  BY <1>2, <1>3, <1>4, <1>5, <1>6, <1>7 DEF Answer

(* The same replies with an error, or without an answer.                   *)
LEMMA FailureKeepsInvariant ==
  ASSUME IInv, NEW l \in Loads, Failure(l)
  PROVE  IInv'
<1>1. /\ TypeOK /\ load[l] \in Load
      /\ ~ crashed => FansOut(load[l])
  BY DEF IInv, TypeOK, Balanced
<1>2. CallFails => failures' \in 0 .. MaxFailures
  BY <1>1 DEF CallFails, TypeOK
<1>3. CASE MatchesQueryFails(l)
  <2> DEFINE r == [load[l] EXCEPT !.getMatches = "done", !.errors = @ + 1, !.trouble = TRUE]
  <2>1. /\ ~ crashed /\ Settle(l, r, 1) /\ load[l].getMatches = "query"
        /\ failures' \in 0 .. MaxFailures /\ UNCHANGED <<database, lists, display>>
    BY <1>2, <1>3 DEF MatchesQueryFails
  <2>2. r \in Load /\ r.errors > 0
    <3>1. load[l].errors + 1 \in Nat /\ load[l].errors + 1 > 0
      BY <1>1 DEF Load
    <3>2. r \in Load
      BY <1>1, <3>1 DEF Load
    <3>3. r.errors = load[l].errors + 1
      BY <1>1 DEF Load
    <3> QED
      BY <3>1, <3>2, <3>3
  <2>3. /\ r.getMatches = "done" /\ r.getConversationsInfo = load[l].getConversationsInfo
        /\ r.profiles = load[l].profiles /\ r.infos = load[l].infos
        /\ r.group = load[l].group /\ r.tables = load[l].tables
    BY <1>1 DEF Load
  <2>4. FansOut(r)
    BY <1>1, <2>1, <2>3 DEF FansOut
  <2> HIDE DEF r
  <2> QED
    BY <1>1, <2>1, <2>2, <2>3, <2>4, SettleKeepsInvariant DEF TypeOK, database, lists
<1>4. CASE InfosQueryFails(l)
  <2> DEFINE r == [load[l] EXCEPT !.getConversationsInfo = "done",
                                  !.globalError = TRUE, !.trouble = TRUE]
  <2>1. /\ ~ crashed /\ Settle(l, r, 1) /\ load[l].getConversationsInfo = "query"
        /\ failures' \in 0 .. MaxFailures /\ UNCHANGED <<database, lists, display>>
    BY <1>2, <1>4 DEF InfosQueryFails
  <2>2. r \in Load
    BY <1>1 DEF Load
  <2>3. /\ r.getConversationsInfo = "done" /\ r.getMatches = load[l].getMatches
        /\ r.profiles = load[l].profiles /\ r.infos = load[l].infos
        /\ r.errors = load[l].errors
        /\ r.group = load[l].group /\ r.tables = load[l].tables
    BY <1>1 DEF Load
  <2>4. FansOut(r) /\ load[l].getMatches # "idle"
    BY <1>1, <2>1, <2>3 DEF FansOut
  <2>5. Due(load[l]) = Due(r) + 1
    BY <2>1, <2>3 DEF Due
  <2> HIDE DEF r
  <2> QED
    BY <1>1, <2>1, <2>2, <2>3, <2>4, <2>5, SettleKeepsInvariant DEF TypeOK, database, lists
<1>5. ASSUME NEW d \in Docs, MatchProfileFails(l, d) PROVE IInv'
  <2> DEFINE r == [load[l] EXCEPT !.profiles[d] = "out", !.errors = @ + 1, !.trouble = TRUE]
  <2>1. load[l].getMatches = "fanout" /\ ~ crashed
    BY <1>1, <1>5 DEF MatchProfileFails, FansOut, Waiting
  <2>2. r \in Load /\ r.errors > 0
    <3>1. load[l].errors + 1 \in Nat /\ load[l].errors + 1 > 0
      BY <1>1 DEF Load
    <3>2. r \in Load
      BY <1>1, <3>1 DEF Load, Stage
    <3>3. r.errors = load[l].errors + 1
      BY <1>1 DEF Load
    <3> QED
      BY <3>1, <3>2, <3>3
  <2>3. /\ r.getMatches = "fanout" /\ r.getConversationsInfo = load[l].getConversationsInfo
        /\ r.infos = load[l].infos
        /\ r.group = load[l].group /\ r.tables = load[l].tables
    BY <1>1, <2>1 DEF Load
  <2>4. /\ MatchesStep(l, r, 1) /\ failures' \in 0 .. MaxFailures
        /\ UNCHANGED <<database, conversationsInfoArray, display>>
    BY <1>2, <1>5 DEF MatchProfileFails
  <2> HIDE DEF r
  <2> QED
    BY <1>1, <2>1, <2>2, <2>3, <2>4, MatchesStepKeepsInvariant
<1>6. ASSUME NEW d \in Docs, InfoFails(l, d) PROVE IInv'
  <2> DEFINE r == [load[l] EXCEPT !.infos[d] = "out", !.globalError = TRUE, !.trouble = TRUE]
  <2>1. load[l].getConversationsInfo = "fanout" /\ ~ crashed
    BY <1>1, <1>6 DEF InfoFails, FansOut, Waiting
  <2>2. r \in Load
    BY <1>1 DEF Load, Stage
  <2>3. /\ r.getConversationsInfo = "fanout" /\ r.getMatches = load[l].getMatches
        /\ r.profiles = load[l].profiles /\ r.errors = load[l].errors
        /\ r.group = load[l].group /\ r.tables = load[l].tables
    BY <1>1, <2>1 DEF Load
  <2>4. /\ InfosStep(l, r) /\ failures' \in 0 .. MaxFailures
        /\ UNCHANGED <<database, profilesArray, display>>
    BY <1>2, <1>6 DEF InfoFails
  <2> HIDE DEF r
  <2> QED
    BY <1>1, <2>1, <2>2, <2>3, <2>4, InfosStepKeepsInvariant
<1>7. ASSUME NEW d \in Docs, MatchProfileLost(l, d) PROVE IInv'
  <2> DEFINE r == [load[l] EXCEPT !.profiles[d] = "lost", !.trouble = TRUE]
  <2>1. load[l].getMatches = "fanout" /\ ~ crashed
    BY <1>1, <1>7 DEF MatchProfileLost, FansOut, Waiting
  <2>2. r \in Load
    BY <1>1 DEF Load, Stage
  <2>3. /\ r.getMatches = load[l].getMatches
        /\ r.getConversationsInfo = load[l].getConversationsInfo
        /\ r.infos = load[l].infos /\ r.errors = load[l].errors
        /\ r.group = load[l].group /\ r.tables = load[l].tables
    BY <1>1 DEF Load
  <2>4. /\ load' = [load EXCEPT ![l] = r] /\ failures' \in 0 .. MaxFailures
        /\ UNCHANGED <<database, lists, display, crashed>>
    BY <1>2, <1>7 DEF MatchProfileLost
  <2>5. FansOut(r)
    BY <1>1, <2>1, <2>3 DEF FansOut
  <2> HIDE DEF r
  <2> QED
    BY <2>1, <2>2, <2>3, <2>4, <2>5, WaitKeepsInvariant
<1>8. ASSUME NEW d \in Docs, InfoLost(l, d) PROVE IInv'
  <2> DEFINE r == [load[l] EXCEPT !.infos[d] = "lost", !.trouble = TRUE]
  <2>1. load[l].getConversationsInfo = "fanout" /\ ~ crashed
    BY <1>1, <1>8 DEF InfoLost, FansOut, Waiting
  <2>2. r \in Load
    BY <1>1 DEF Load, Stage
  <2>3. /\ r.getMatches = load[l].getMatches
        /\ r.getConversationsInfo = load[l].getConversationsInfo
        /\ r.profiles = load[l].profiles /\ r.errors = load[l].errors
        /\ r.group = load[l].group /\ r.tables = load[l].tables
    BY <1>1 DEF Load
  <2>4. /\ load' = [load EXCEPT ![l] = r] /\ failures' \in 0 .. MaxFailures
        /\ UNCHANGED <<database, lists, display, crashed>>
    BY <1>2, <1>8 DEF InfoLost
  <2>5. FansOut(r) /\ load[l].getMatches # "idle"
    BY <1>1, <2>1, <2>3 DEF FansOut
  <2> HIDE DEF r
  <2> QED
    BY <2>1, <2>2, <2>3, <2>4, <2>5, WaitKeepsInvariant
<1> QED
  BY <1>3, <1>4, <1>5, <1>6, <1>7, <1>8 DEF Failure

LEMMA LoadDataKeepsInvariant ==
  ASSUME IInv, NEW l \in Loads, LoadData(l)
  PROVE  IInv'
<1> DEFINE r == [Idle EXCEPT !.group = 2, !.getMatches = "query",
                             !.getConversationsInfo = "query"]
<1>1. r \in Load
  <2>1. ASSUME NEW q \in Load, NEW g \in 0 .. 2
        PROVE  [q EXCEPT !.group = g] \in Load
    BY DEF Load
  <2>2. ASSUME NEW q \in Load
        PROVE  [q EXCEPT !.getMatches = "query", !.getConversationsInfo = "query"] \in Load
    BY DEF Load
  <2>3. 2 \in 0 .. 2
    OBVIOUS
  <2>4. [Idle EXCEPT !.group = 2] \in Load
    BY <2>1, <2>3, IdleIsALoad, Zenon
  <2>5. [[Idle EXCEPT !.group = 2] EXCEPT !.getMatches = "query",
                                          !.getConversationsInfo = "query"] \in Load
    BY <2>2, <2>4, Zenon
  <2>6. r = [[Idle EXCEPT !.group = 2] EXCEPT !.getMatches = "query",
                                              !.getConversationsInfo = "query"]
    BY DEF Idle
  <2> QED
    BY <2>5, <2>6, Zenon
<1>2. /\ r.getMatches = "query" /\ r.getConversationsInfo = "query" /\ r.group = 2
      /\ r.tables = "wait" /\ ~ Waiting(r.profiles) /\ ~ Waiting(r.infos)
  BY DEF Idle, Nowhere, Waiting
<1>3. /\ load' = [load EXCEPT ![l] = r]
      /\ UNCHANGED <<database, lists, display, crashed, failures>>
  BY DEF LoadData
<1> HIDE DEF r
<1>4. load'[l] = r /\ \A k \in Loads : k # l => load'[k] = load[k]
  BY <1>3 DEF IInv, TypeOK
<1>5. TypeOK'
  BY <1>1, <1>3 DEF IInv, TypeOK, database, lists, display
<1>6. Balanced(r)
  BY <1>2 DEF Balanced, FansOut, Due
<1>7. ToBeShown'
  BY <1>2, <1>3, <1>4 DEF ToBeShown, lists, display
<1>8. OnlyErrorsCrash'
  BY <1>3, <1>4 DEF LoadData, OnlyErrorsCrash
<1> QED
  BY <1>3, <1>4, <1>5, <1>6, <1>7, <1>8 DEF IInv

LEMMA ReloadDataKeepsInvariant ==
  ASSUME IInv, NEW l \in Loads, ReloadData(l)
  PROVE  IInv'
<1> DEFINE r == [load[l] EXCEPT !.tables = "done"]
<1>1. load[l] \in Load /\ Balanced(load[l]) /\ ~ crashed /\ load[l].tables = "reload"
  BY DEF ReloadData, IInv, TypeOK
<1>2. /\ r \in Load /\ r.tables = "done" /\ r.errors = load[l].errors
      /\ r.getMatches = load[l].getMatches /\ r.profiles = load[l].profiles
      /\ r.getConversationsInfo = load[l].getConversationsInfo
      /\ r.infos = load[l].infos /\ r.group = load[l].group
  BY <1>1 DEF Load
<1>3. /\ load' = [load EXCEPT ![l] = r]
      /\ matchesCollection' = profilesArray /\ conversationsTV' = conversationsInfoArray
      /\ loading' = FALSE
      /\ UNCHANGED <<database, lists, crashed, failures>>
  BY DEF ReloadData
<1> HIDE DEF r
<1>4. load'[l] = r /\ \A k \in Loads : k # l => load'[k] = load[k]
  BY <1>3 DEF IInv, TypeOK
<1>5. TypeOK'
  BY <1>2, <1>3 DEF IInv, TypeOK, database, lists
<1>6. Balanced(r)
  BY <1>1, <1>2 DEF Balanced, FansOut, Due
<1>7. ToBeShown'
  BY <1>3 DEF ToBeShown, lists
<1>8. OnlyErrorsCrash'
  BY <1>1, <1>3 DEF OnlyErrorsCrash
<1> QED
  BY <1>1, <1>4, <1>5, <1>6, <1>7, <1>8 DEF IInv

(* The strengthening of the safety properties of the loads.                *)
THEOREM Invariant == Spec => []IInv
<1>1. Init => IInv
  <2> SUFFICES ASSUME Init PROVE IInv
    OBVIOUS
  <2>1. <<>> \in Seq(Partners) /\ 0 \in 0 .. MaxNews /\ 0 \in 0 .. MaxFailures
    OBVIOUS
  <2>2. load \in [Loads -> Load]
    BY IdleIsALoad DEF Init
  <2>3. Balanced(Idle)
    BY DEF Balanced, FansOut, Due, Idle, Nowhere, Waiting
  <2>4. TypeOK
    BY <2>1, <2>2 DEF Init, TypeOK
  <2> QED
    BY <2>3, <2>4 DEF Init, IInv, OnlyErrorsCrash, ToBeShown
<1>2. IInv /\ [Next]_vars => IInv'
  <2> SUFFICES ASSUME IInv, [Next]_vars PROVE IInv'
    OBVIOUS
  <2>1. ASSUME NEW d \in Docs, MatchMade(d) PROVE IInv'
    <3>1. TypeOK'
      BY <2>1 DEF MatchMade, Changes, IInv, TypeOK, lists, display
    <3> QED
      BY <2>1, <3>1 DEF MatchMade, IInv, OnlyErrorsCrash, ToBeShown, lists, display
  <2>2. ASSUME NEW p \in Partners, MessageSent(p) PROVE IInv'
    <3>1. MatchDoc(p) \in matches
      BY <2>2, MatchDocExists DEF MessageSent, IInv, TypeOK, MatchDocs
    <3>2. talked' \subseteq matches'
      BY <2>2, <3>1 DEF MessageSent, IInv, TypeOK
    <3>3. news' \in 0 .. MaxNews
      BY <2>2 DEF MessageSent, Changes, IInv, TypeOK
    <3>4. TypeOK'
      BY <2>2, <3>2, <3>3 DEF MessageSent, IInv, TypeOK, lists, display
    <3> QED
      BY <2>2, <3>4 DEF MessageSent, IInv, OnlyErrorsCrash, ToBeShown, lists, display
  <2>3. CASE UNCHANGED vars
    BY <2>3 DEF vars, IInv, TypeOK, OnlyErrorsCrash, ToBeShown, database, lists, display
  <2> QED
    BY <2>1, <2>2, <2>3, AnswerKeepsInvariant, FailureKeepsInvariant,
       LoadDataKeepsInvariant, ReloadDataKeepsInvariant DEF Next
<1> QED
  BY <1>1, <1>2, PTL DEF Spec

(* The variables keep their types; no count of a group goes below 0.       *)
THEOREM TypeCorrect == Spec => []TypeOK
<1>1. IInv => TypeOK
  BY DEF IInv
<1> QED
  BY <1>1, Invariant, PTL

(* Only a completion called with an error on top stops the app.            *)
THEOREM ErrorsAloneCrash == Spec => []OnlyErrorsCrash
<1>1. IInv => OnlyErrorsCrash
  BY DEF IInv
<1> QED
  BY <1>1, Invariant, PTL

(* When no load is under way, the tables show what taps look up.           *)
THEOREM ShownWhenQuiet == Spec => []QuietMeansShown
<1>1. IInv => QuietMeansShown
  <2>1. Idle.getMatches = "idle"
    BY DEF Idle
  <2> QED
    BY <2>1 DEF IInv, ToBeShown, QuietMeansShown
<1> QED
  BY <1>1, Invariant, PTL

-----------------------------------------------------------------------------
(* What holds only where no pair has two match documents (see inbox_split  *)
(* for what happens otherwise).                                            *)
OnePerPair == IsInjective(Owner)

(* Errors come from trouble, and a document that is past its first message *)
(* has one.                                                                *)
Unfalse(r, withMessages) ==
    /\ r.errors > 0 \/ r.globalError => r.trouble
    /\ \A d \in Docs : r.infos[d] \in {"profile", "latest"} => d \in withMessages

(* A document that is still waited for has not been listed.                *)
Once(r) ==
    /\ IsInjective(r.profileArray) /\ IsInjective(r.infoArray)
    /\ \A d \in Docs : r.profiles[d] # "out" => Owner[d] \notin ToSet(r.profileArray)
    /\ \A d \in Docs : r.infos[d] # "out" => Owner[d] \notin ToSet(r.infoArray)
    /\ r.getMatches \in {"idle", "query"} => r.profileArray = <<>>
    /\ r.getConversationsInfo \in {"idle", "query"} => r.infoArray = <<>>

ListsInv ==
    /\ IsInjective(profilesArray) /\ IsInjective(conversationsInfoArray)
    /\ \A l \in Loads : Unfalse(load[l], talked) /\ Once(load[l])

LEMMA EmptyIsOnce == IsInjective(<<>>) /\ ToSet(<<>>) = {}
BY DEF IsInjective, ToSet

(* Appending what is not in a list.                                        *)
LEMMA AppendedOnce ==
  ASSUME NEW list \in Seq(Partners), NEW p \in Partners, IsInjective(list),
         p \notin ToSet(list)
  PROVE  /\ IsInjective(Append(list, p))
         /\ ToSet(Append(list, p)) = ToSet(list) \union {p}
<1> DEFINE longer == Append(list, p)
<1>1. /\ DOMAIN list = 1 .. Len(list) /\ Len(list) \in Nat
      /\ DOMAIN longer = 1 .. Len(list) + 1
      /\ \A i \in 1 .. Len(list) : longer[i] = list[i]
      /\ longer[Len(list) + 1] = p
  OBVIOUS
<1>2. \A i \in 1 .. Len(list) : list[i] # p
  BY <1>1 DEF ToSet
<1> HIDE DEF longer
<1>3. \A i \in DOMAIN longer : i \in 1 .. Len(list) \/ i = Len(list) + 1
  BY <1>1
<1>4. IsInjective(longer)
  BY <1>1, <1>2, <1>3 DEF IsInjective
<1>5. ToSet(longer) = ToSet(list) \union {p}
  <2>1. \A i \in 1 .. Len(list) : i \in DOMAIN longer
    BY <1>1
  <2>2. Len(list) + 1 \in DOMAIN longer
    BY <1>1
  <2> QED
    BY <1>1, <1>3, <2>1, <2>2 DEF ToSet
<1> QED
  BY <1>4, <1>5 DEF longer

LEMMA SettleKeepsLists ==
  ASSUME TypeOK, ListsInv, NEW l \in Loads, NEW r \in Load, NEW n \in Nat,
         Settle(l, r, n), Once(r), Unfalse(r, talked), talked' = talked,
         IsInjective(profilesArray'), IsInjective(conversationsInfoArray')
  PROVE  ListsInv'
<1>1. PICK s \in Load : load' = [load EXCEPT ![l] = s] /\ Like(s, r)
  BY Settled
<1>2. Once(s) /\ Unfalse(s, talked)
  BY <1>1 DEF Like, Once, Unfalse
<1>3. load'[l] = s /\ \A k \in Loads : k # l => load'[k] = load[k]
  BY <1>1 DEF TypeOK
<1> QED
  BY <1>2, <1>3 DEF ListsInv

LEMMA MatchesStepKeepsLists ==
  ASSUME TypeOK, ListsInv, NEW l \in Loads, NEW r \in Load, NEW before \in {0, 1},
         MatchesStep(l, r, before), Once(r), Unfalse(r, talked),
         UNCHANGED <<database, conversationsInfoArray>>
  PROVE  ListsInv'
<1>1. talked' = talked /\ IsInjective(conversationsInfoArray')
  BY DEF database, ListsInv
<1>2. CASE Waiting(r.profiles)
  BY <1>1, <1>2, SettleKeepsLists DEF MatchesStep, ListsInv
<1>3. CASE ~ Waiting(r.profiles)
  <2> DEFINE s == [r EXCEPT !.getMatches = "done", !.claims = TRUE, !.profileArray = <<>>]
  <2>1. s \in Load
    <3>1. <<>> \in Seq(Partners)
      OBVIOUS
    <3> QED
      BY <3>1 DEF Load
  <2>2. /\ s.profileArray = <<>> /\ s.infoArray = r.infoArray /\ s.infos = r.infos
        /\ s.getMatches = "done" /\ s.getConversationsInfo = r.getConversationsInfo
        /\ s.errors = r.errors /\ s.globalError = r.globalError /\ s.trouble = r.trouble
    BY DEF Load
  <2>3. Settle(l, s, before + 1) /\ profilesArray' = Replace(profilesArray, r.profileArray)
    BY <1>3 DEF MatchesStep
  <2>4. IsInjective(profilesArray')
    BY <2>3 DEF Replace, Once, ListsInv
  <2> HIDE DEF s
  <2>5. Once(s) /\ Unfalse(s, talked)
    BY <2>2, EmptyIsOnce DEF Once, Unfalse
  <2>6. before + 1 \in Nat
    OBVIOUS
  <2> QED
    BY <1>1, <2>1, <2>3, <2>4, <2>5, <2>6, SettleKeepsLists
<1> QED
  BY <1>2, <1>3

LEMMA InfosStepKeepsLists ==
  ASSUME TypeOK, ListsInv, NEW l \in Loads, NEW r \in Load,
         InfosStep(l, r), Once(r), Unfalse(r, talked),
         UNCHANGED <<database, profilesArray>>
  PROVE  ListsInv'
<1>1. talked' = talked /\ IsInjective(profilesArray')
  BY DEF database, ListsInv
<1>2. CASE Waiting(r.infos)
  BY <1>1, <1>2, SettleKeepsLists DEF InfosStep, ListsInv
<1>3. CASE ~ Waiting(r.infos)
  <2> DEFINE s == [r EXCEPT !.getConversationsInfo = "done", !.infoArray = <<>>]
  <2>1. s \in Load
    <3>1. <<>> \in Seq(Partners)
      OBVIOUS
    <3> QED
      BY <3>1 DEF Load
  <2>2. /\ s.infoArray = <<>> /\ s.profileArray = r.profileArray /\ s.profiles = r.profiles
        /\ s.getConversationsInfo = "done" /\ s.getMatches = r.getMatches /\ s.infos = r.infos
        /\ s.errors = r.errors /\ s.globalError = r.globalError /\ s.trouble = r.trouble
    BY DEF Load
  <2>3. Settle(l, s, 1)
    BY <1>3 DEF InfosStep
  <2>4. IsInjective(conversationsInfoArray')
    BY <1>3 DEF InfosStep, Replace, Once, ListsInv
  <2> HIDE DEF s
  <2>5. Once(s) /\ Unfalse(s, talked)
    BY <2>2, EmptyIsOnce DEF Once, Unfalse
  <2> QED
    BY <1>1, <2>1, <2>3, <2>4, <2>5, SettleKeepsLists
<1> QED
  BY <1>2, <1>3

(* The invariant keeps load[l] well typed and its fan-outs in order.       *)
LEMMA ListsOf ==
  ASSUME IInv, ListsInv, NEW l \in Loads
  PROVE  /\ TypeOK /\ load[l] \in Load
         /\ Unfalse(load[l], talked) /\ Once(load[l])
         /\ ~ crashed => FansOut(load[l])
BY DEF IInv, TypeOK, Balanced, ListsInv

LEMMA AnswerKeepsLists ==
  ASSUME OnePerPair, IInv, ListsInv, NEW l \in Loads, Answer(l)
  PROVE  ListsInv'
<1>1. /\ TypeOK /\ load[l] \in Load /\ Unfalse(load[l], talked) /\ Once(load[l])
      /\ ~ crashed => FansOut(load[l])
  BY ListsOf
<1>2. \A d, e \in Docs : Owner[d] = Owner[e] => d = e
  BY DEF OnePerPair, IsInjective
<1>3. CASE MatchesQueried(l)
  <2> DEFINE r == [load[l] EXCEPT !.getMatches = "fanout",
                     !.profiles = [d \in Docs |-> IF d \in matches THEN "profile" ELSE "out"]]
  <2>1. r \in Load
    BY <1>1 DEF Load, Stage
  <2>2. /\ r.getMatches = "fanout" /\ r.getConversationsInfo = load[l].getConversationsInfo
        /\ r.infos = load[l].infos /\ r.infoArray = load[l].infoArray
        /\ r.profileArray = load[l].profileArray /\ r.errors = load[l].errors
        /\ r.globalError = load[l].globalError /\ r.trouble = load[l].trouble
    BY <1>1 DEF Load
  <2>3. /\ MatchesStep(l, r, 0) /\ load[l].getMatches = "query"
        /\ UNCHANGED <<database, conversationsInfoArray>>
    BY <1>3 DEF MatchesQueried
  <2> HIDE DEF r
  <2>4. Once(r) /\ Unfalse(r, talked)
    BY <1>1, <2>2, <2>3, EmptyIsOnce DEF Once, Unfalse
  <2> QED
    BY <1>1, <2>1, <2>3, <2>4, MatchesStepKeepsLists
<1>4. CASE InfosQueried(l)
  <2> DEFINE r == [load[l] EXCEPT !.getConversationsInfo = "fanout",
                     !.infos = [d \in Docs |-> IF d \in matches THEN "first" ELSE "out"]]
  <2>1. r \in Load
    BY <1>1 DEF Load, Stage
  <2>2. /\ r.getConversationsInfo = "fanout" /\ r.getMatches = load[l].getMatches
        /\ r.profiles = load[l].profiles /\ r.infoArray = load[l].infoArray
        /\ r.profileArray = load[l].profileArray /\ r.errors = load[l].errors
        /\ r.globalError = load[l].globalError /\ r.trouble = load[l].trouble
        /\ \A d \in Docs : r.infos[d] \in {"first", "out"}
    BY <1>1 DEF Load
  <2>3. /\ InfosStep(l, r) /\ load[l].getConversationsInfo = "query"
        /\ UNCHANGED <<database, profilesArray>>
    BY <1>4 DEF InfosQueried
  <2> HIDE DEF r
  <2>4. Once(r) /\ Unfalse(r, talked)
    BY <1>1, <2>2, <2>3, EmptyIsOnce DEF Once, Unfalse
  <2> QED
    BY <1>1, <2>1, <2>3, <2>4, InfosStepKeepsLists
<1>5. ASSUME NEW d \in Docs, MatchProfileArrives(l, d) PROVE ListsInv'
  <2> DEFINE r == [load[l] EXCEPT !.profiles[d] = "out",
                                  !.profileArray = Append(@, Owner[d])]
  <2>1. load[l].getMatches = "fanout" /\ load[l].profiles[d] = "profile"
    BY <1>1, <1>5 DEF MatchProfileArrives, FansOut, Waiting
  <2>2. Append(load[l].profileArray, Owner[d]) \in Seq(Partners)
    BY <1>1 DEF Load
  <2>3. r \in Load
    BY <1>1, <2>2 DEF Load, Stage
  <2>4. /\ r.getMatches = "fanout" /\ r.getConversationsInfo = load[l].getConversationsInfo
        /\ r.profiles = [load[l].profiles EXCEPT ![d] = "out"]
        /\ r.profileArray = Append(load[l].profileArray, Owner[d])
        /\ r.infos = load[l].infos /\ r.infoArray = load[l].infoArray
        /\ r.errors = load[l].errors
        /\ r.globalError = load[l].globalError /\ r.trouble = load[l].trouble
    BY <1>1, <2>1 DEF Load
  <2>5. MatchesStep(l, r, 0) /\ UNCHANGED <<database, conversationsInfoArray>>
    BY <1>5 DEF MatchProfileArrives
  <2>6. /\ load[l].profileArray \in Seq(Partners) /\ IsInjective(load[l].profileArray)
        /\ Owner[d] \notin ToSet(load[l].profileArray) /\ Owner[d] \in Partners
        /\ load[l].profiles \in [Docs -> Stage]
    BY <1>1, <2>1 DEF Load, Once
  <2> HIDE DEF r
  <2>7. /\ IsInjective(r.profileArray)
        /\ ToSet(r.profileArray) = ToSet(load[l].profileArray) \union {Owner[d]}
    BY <2>4, <2>6, AppendedOnce
  <2>8. ASSUME NEW e \in Docs, r.profiles[e] # "out"
        PROVE  Owner[e] \notin ToSet(r.profileArray)
    <3>1. e # d /\ load[l].profiles[e] # "out"
      BY <2>4, <2>6, <2>8
    <3>2. Owner[e] # Owner[d] /\ Owner[e] \notin ToSet(load[l].profileArray)
      BY <1>1, <1>2, <3>1 DEF Once
    <3> QED
      BY <2>7, <3>2
  <2>9. Once(r) /\ Unfalse(r, talked)
    BY <1>1, <2>4, <2>7, <2>8 DEF Once, Unfalse
  <2> QED
    BY <1>1, <2>3, <2>5, <2>9, MatchesStepKeepsLists
<1>6. ASSUME NEW d \in Docs, FirstMessageQueried(l, d) PROVE ListsInv'
  <2> DEFINE r == [load[l] EXCEPT !.infos[d] = IF d \in talked THEN "profile" ELSE "out"]
  <2>1. load[l].getConversationsInfo = "fanout" /\ load[l].infos[d] = "first"
    BY <1>1, <1>6 DEF FirstMessageQueried, FansOut, Waiting
  <2>2. r \in Load
    BY <1>1 DEF Load, Stage
  <2>3. /\ r.getMatches = load[l].getMatches /\ r.getConversationsInfo = "fanout"
        /\ r.profiles = load[l].profiles /\ r.profileArray = load[l].profileArray
        /\ \A e \in Docs : r.infos[e] = IF e # d THEN load[l].infos[e]
                                         ELSE IF d \in talked THEN "profile" ELSE "out"
        /\ r.infoArray = load[l].infoArray /\ r.errors = load[l].errors
        /\ r.globalError = load[l].globalError /\ r.trouble = load[l].trouble
    BY <1>1, <2>1 DEF Load
  <2>4. InfosStep(l, r) /\ UNCHANGED <<database, profilesArray>>
    BY <1>6 DEF FirstMessageQueried
  <2> HIDE DEF r
  <2>5. Once(r) /\ Unfalse(r, talked)
    BY <1>1, <2>1, <2>3 DEF Once, Unfalse
  <2> QED
    BY <1>1, <2>2, <2>4, <2>5, InfosStepKeepsLists
<1>7. ASSUME NEW d \in Docs, InfoProfileArrives(l, d) PROVE ListsInv'
  <2> DEFINE r == [load[l] EXCEPT !.infos[d] = "latest"]
  <2>1. load[l].getConversationsInfo = "fanout" /\ load[l].infos[d] = "profile"
    BY <1>1, <1>7 DEF InfoProfileArrives, FansOut, Waiting
  <2>2. /\ r.getMatches = load[l].getMatches /\ r.getConversationsInfo = "fanout"
        /\ r.profiles = load[l].profiles /\ r.profileArray = load[l].profileArray
        /\ \A e \in Docs : r.infos[e] = IF e # d THEN load[l].infos[e] ELSE "latest"
        /\ r.infoArray = load[l].infoArray /\ r.errors = load[l].errors
        /\ r.globalError = load[l].globalError /\ r.trouble = load[l].trouble
    BY <1>1, <2>1 DEF Load
  <2>3. load' = [load EXCEPT ![l] = r] /\ UNCHANGED <<database, lists>>
    BY <1>7 DEF InfoProfileArrives
  <2> HIDE DEF r
  <2>4. Once(r) /\ Unfalse(r, talked)
    BY <1>1, <2>1, <2>2 DEF Once, Unfalse
  <2>5. load'[l] = r /\ \A k \in Loads : k # l => load'[k] = load[k]
    BY <1>1, <2>3 DEF TypeOK
  <2> QED
    BY <2>3, <2>4, <2>5 DEF ListsInv, database, lists
<1>8. ASSUME NEW d \in Docs, LatestMessageArrives(l, d) PROVE ListsInv'
  <2> DEFINE r == [load[l] EXCEPT !.infos[d] = "out", !.infoArray = Append(@, Owner[d])]
  <2>1. load[l].getConversationsInfo = "fanout" /\ load[l].infos[d] = "latest"
    BY <1>1, <1>8 DEF LatestMessageArrives, FansOut, Waiting
  <2>2. MatchDoc(Owner[d]) \in talked
    <3>1. d \in talked /\ talked \subseteq matches /\ matches \subseteq Nat
      BY <1>1, <2>1 DEF Unfalse, TypeOK
    <3>2. d \in MatchDocs(Owner[d])
      BY <3>1 DEF MatchDocs
    <3>3. MatchDoc(Owner[d]) \in MatchDocs(Owner[d])
      BY <3>1, <3>2, MatchDocExists
    <3>4. MatchDoc(Owner[d]) = d
      BY <1>1, <1>2, <3>3 DEF MatchDocs, TypeOK
    <3> QED
      BY <3>1, <3>4
  <2>3. Append(load[l].infoArray, Owner[d]) \in Seq(Partners)
    BY <1>1 DEF Load
  <2>4. r \in Load
    BY <1>1, <2>3 DEF Load, Stage
  <2>5. /\ r.getMatches = load[l].getMatches /\ r.getConversationsInfo = "fanout"
        /\ r.infos = [load[l].infos EXCEPT ![d] = "out"]
        /\ r.infoArray = Append(load[l].infoArray, Owner[d])
        /\ r.profiles = load[l].profiles /\ r.profileArray = load[l].profileArray
        /\ r.errors = load[l].errors
        /\ r.globalError = load[l].globalError /\ r.trouble = load[l].trouble
    BY <1>1, <2>1 DEF Load
  <2>6. InfosStep(l, r) /\ UNCHANGED <<database, profilesArray>>
    BY <1>8, <2>2 DEF LatestMessageArrives
  <2>7. /\ load[l].infoArray \in Seq(Partners) /\ IsInjective(load[l].infoArray)
        /\ Owner[d] \notin ToSet(load[l].infoArray) /\ Owner[d] \in Partners
        /\ load[l].infos \in [Docs -> Stage]
    BY <1>1, <2>1 DEF Load, Once
  <2> HIDE DEF r
  <2>8. /\ IsInjective(r.infoArray)
        /\ ToSet(r.infoArray) = ToSet(load[l].infoArray) \union {Owner[d]}
    BY <2>5, <2>7, AppendedOnce
  <2>9. ASSUME NEW e \in Docs, r.infos[e] # "out"
        PROVE  /\ Owner[e] \notin ToSet(r.infoArray)
               /\ r.infos[e] = load[l].infos[e]
    <3>1. e # d /\ load[l].infos[e] # "out" /\ r.infos[e] = load[l].infos[e]
      BY <2>5, <2>7, <2>9
    <3>2. Owner[e] # Owner[d] /\ Owner[e] \notin ToSet(load[l].infoArray)
      BY <1>1, <1>2, <3>1 DEF Once
    <3> QED
      BY <2>8, <3>1, <3>2
  <2>10. Once(r) /\ Unfalse(r, talked)
    BY <1>1, <2>5, <2>8, <2>9 DEF Once, Unfalse
  <2> QED
    BY <1>1, <2>4, <2>6, <2>10, InfosStepKeepsLists
<1> QED
  BY <1>3, <1>4, <1>5, <1>6, <1>7, <1>8 DEF Answer

LEMMA FailureKeepsLists ==
  ASSUME IInv, ListsInv, NEW l \in Loads, Failure(l)
  PROVE  ListsInv'
<1>1. /\ TypeOK /\ load[l] \in Load /\ Unfalse(load[l], talked) /\ Once(load[l])
      /\ ~ crashed => FansOut(load[l])
  BY ListsOf
<1>2. load[l].errors + 1 \in Nat
  BY <1>1 DEF Load
<1>3. CASE MatchesQueryFails(l)
  <2> DEFINE r == [load[l] EXCEPT !.getMatches = "done", !.errors = @ + 1, !.trouble = TRUE]
  <2>1. r \in Load
    BY <1>1, <1>2 DEF Load
  <2>2. /\ r.getMatches = "done" /\ r.getConversationsInfo = load[l].getConversationsInfo
        /\ r.profiles = load[l].profiles /\ r.profileArray = load[l].profileArray
        /\ r.infos = load[l].infos /\ r.infoArray = load[l].infoArray /\ r.trouble
    BY <1>1 DEF Load
  <2>3. Settle(l, r, 1) /\ UNCHANGED <<database, lists>>
    BY <1>3 DEF MatchesQueryFails
  <2> HIDE DEF r
  <2>4. Once(r) /\ Unfalse(r, talked)
    BY <1>1, <2>2 DEF Once, Unfalse
  <2> QED
    BY <1>1, <2>1, <2>3, <2>4, SettleKeepsLists DEF ListsInv, database, lists
<1>4. CASE InfosQueryFails(l)
  <2> DEFINE r == [load[l] EXCEPT !.getConversationsInfo = "done",
                                  !.globalError = TRUE, !.trouble = TRUE]
  <2>1. r \in Load
    BY <1>1 DEF Load
  <2>2. /\ r.getConversationsInfo = "done" /\ r.getMatches = load[l].getMatches
        /\ r.profiles = load[l].profiles /\ r.profileArray = load[l].profileArray
        /\ r.infos = load[l].infos /\ r.infoArray = load[l].infoArray /\ r.trouble
    BY <1>1 DEF Load
  <2>3. Settle(l, r, 1) /\ UNCHANGED <<database, lists>>
    BY <1>4 DEF InfosQueryFails
  <2> HIDE DEF r
  <2>4. Once(r) /\ Unfalse(r, talked)
    BY <1>1, <2>2 DEF Once, Unfalse
  <2> QED
    BY <1>1, <2>1, <2>3, <2>4, SettleKeepsLists DEF ListsInv, database, lists
<1>5. ASSUME NEW d \in Docs, MatchProfileFails(l, d) PROVE ListsInv'
  <2> DEFINE r == [load[l] EXCEPT !.profiles[d] = "out", !.errors = @ + 1, !.trouble = TRUE]
  <2>1. r \in Load
    BY <1>1, <1>2 DEF Load, Stage
  <2>2. /\ r.getConversationsInfo = load[l].getConversationsInfo
        /\ r.getMatches = load[l].getMatches
        /\ \A e \in Docs : r.profiles[e] = IF e # d THEN load[l].profiles[e] ELSE "out"
        /\ r.profileArray = load[l].profileArray
        /\ r.infos = load[l].infos /\ r.infoArray = load[l].infoArray /\ r.trouble
    BY <1>1 DEF Load
  <2>3. MatchesStep(l, r, 1) /\ UNCHANGED <<database, conversationsInfoArray>>
    BY <1>5 DEF MatchProfileFails
  <2> HIDE DEF r
  <2>4. Once(r) /\ Unfalse(r, talked)
    BY <1>1, <2>2 DEF Once, Unfalse
  <2> QED
    BY <1>1, <2>1, <2>3, <2>4, MatchesStepKeepsLists
<1>6. ASSUME NEW d \in Docs, InfoFails(l, d) PROVE ListsInv'
  <2> DEFINE r == [load[l] EXCEPT !.infos[d] = "out", !.globalError = TRUE, !.trouble = TRUE]
  <2>1. r \in Load
    BY <1>1 DEF Load, Stage
  <2>2. /\ r.getConversationsInfo = load[l].getConversationsInfo
        /\ r.getMatches = load[l].getMatches
        /\ \A e \in Docs : r.infos[e] = IF e # d THEN load[l].infos[e] ELSE "out"
        /\ r.profiles = load[l].profiles /\ r.profileArray = load[l].profileArray
        /\ r.infoArray = load[l].infoArray /\ r.trouble
    BY <1>1 DEF Load
  <2>3. InfosStep(l, r) /\ UNCHANGED <<database, profilesArray>>
    BY <1>6 DEF InfoFails
  <2> HIDE DEF r
  <2>4. Once(r) /\ Unfalse(r, talked)
    BY <1>1, <2>2 DEF Once, Unfalse
  <2> QED
    BY <1>1, <2>1, <2>3, <2>4, InfosStepKeepsLists
<1>7. ASSUME NEW d \in Docs, MatchProfileLost(l, d) PROVE ListsInv'
  <2> DEFINE r == [load[l] EXCEPT !.profiles[d] = "lost", !.trouble = TRUE]
  <2>1. load[l].profiles[d] # "out"
    BY <1>7 DEF MatchProfileLost
  <2>2. /\ r.getConversationsInfo = load[l].getConversationsInfo
        /\ r.getMatches = load[l].getMatches
        /\ \A e \in Docs : r.profiles[e] = IF e # d THEN load[l].profiles[e] ELSE "lost"
        /\ r.profileArray = load[l].profileArray
        /\ r.infos = load[l].infos /\ r.infoArray = load[l].infoArray /\ r.trouble
    BY <1>1 DEF Load
  <2>3. load' = [load EXCEPT ![l] = r] /\ UNCHANGED <<database, lists>>
    BY <1>7 DEF MatchProfileLost
  <2> HIDE DEF r
  <2>4. Once(r) /\ Unfalse(r, talked)
    BY <1>1, <2>1, <2>2 DEF Once, Unfalse
  <2>5. load'[l] = r /\ \A k \in Loads : k # l => load'[k] = load[k]
    BY <1>1, <2>3 DEF TypeOK
  <2> QED
    BY <2>3, <2>4, <2>5 DEF ListsInv, database, lists
<1>8. ASSUME NEW d \in Docs, InfoLost(l, d) PROVE ListsInv'
  <2> DEFINE r == [load[l] EXCEPT !.infos[d] = "lost", !.trouble = TRUE]
  <2>1. load[l].infos[d] # "out"
    BY <1>8 DEF InfoLost
  <2>2. /\ r.getConversationsInfo = load[l].getConversationsInfo
        /\ r.getMatches = load[l].getMatches
        /\ \A e \in Docs : r.infos[e] = IF e # d THEN load[l].infos[e] ELSE "lost"
        /\ r.profiles = load[l].profiles /\ r.profileArray = load[l].profileArray
        /\ r.infoArray = load[l].infoArray /\ r.trouble
    BY <1>1 DEF Load
  <2>3. load' = [load EXCEPT ![l] = r] /\ UNCHANGED <<database, lists>>
    BY <1>8 DEF InfoLost
  <2> HIDE DEF r
  <2>4. Once(r) /\ Unfalse(r, talked)
    BY <1>1, <2>1, <2>2 DEF Once, Unfalse
  <2>5. load'[l] = r /\ \A k \in Loads : k # l => load'[k] = load[k]
    BY <1>1, <2>3 DEF TypeOK
  <2> QED
    BY <2>3, <2>4, <2>5 DEF ListsInv, database, lists
<1> QED
  BY <1>3, <1>4, <1>5, <1>6, <1>7, <1>8 DEF Failure

(* With one match document per pair, no error is reported without a        *)
(* failure, and no list has a partner twice.                               *)
THEOREM ListsAreSound ==
  ASSUME OnePerPair
  PROVE  Spec => []ListsInv
<1>1. Init => ListsInv
  <2>1. Once(Idle) /\ Unfalse(Idle, talked)
    BY EmptyIsOnce DEF Once, Unfalse, Idle, Nowhere
  <2> QED
    BY <2>1, EmptyIsOnce DEF Init, ListsInv
<1>2. IInv /\ ListsInv /\ [Next]_vars => ListsInv'
  <2> SUFFICES ASSUME IInv, ListsInv, [Next]_vars PROVE ListsInv'
    OBVIOUS
  <2>1. ASSUME NEW l \in Loads, LoadData(l) PROVE ListsInv'
    <3> DEFINE r == [Idle EXCEPT !.group = 2, !.getMatches = "query",
                                 !.getConversationsInfo = "query"]
    <3>1. Once(r) /\ Unfalse(r, talked)
      BY EmptyIsOnce DEF Once, Unfalse, Idle, Nowhere
    <3>2. load' = [load EXCEPT ![l] = r] /\ UNCHANGED <<database, lists>>
      BY <2>1 DEF LoadData
    <3> HIDE DEF r
    <3>3. load'[l] = r /\ \A k \in Loads : k # l => load'[k] = load[k]
      BY <3>2 DEF IInv, TypeOK
    <3> QED
      BY <3>1, <3>2, <3>3 DEF ListsInv, database, lists
  <2>2. ASSUME NEW l \in Loads, ReloadData(l) PROVE ListsInv'
    <3> DEFINE r == [load[l] EXCEPT !.tables = "done"]
    <3>1. Once(r) /\ Unfalse(r, talked)
      <4>1. load[l] \in Load /\ Once(load[l]) /\ Unfalse(load[l], talked)
        BY ListsOf
      <4>2. /\ r.getConversationsInfo = load[l].getConversationsInfo
            /\ r.getMatches = load[l].getMatches
            /\ r.profiles = load[l].profiles /\ r.profileArray = load[l].profileArray
            /\ r.infos = load[l].infos /\ r.infoArray = load[l].infoArray
            /\ r.errors = load[l].errors
            /\ r.globalError = load[l].globalError /\ r.trouble = load[l].trouble
        BY <4>1 DEF Load
      <4> QED
        BY <4>1, <4>2 DEF Once, Unfalse
    <3>2. load' = [load EXCEPT ![l] = r] /\ UNCHANGED <<database, lists>>
      BY <2>2 DEF ReloadData
    <3> HIDE DEF r
    <3>3. load'[l] = r /\ \A k \in Loads : k # l => load'[k] = load[k]
      BY <3>2 DEF IInv, TypeOK
    <3> QED
      BY <3>1, <3>2, <3>3 DEF ListsInv, database, lists
  <2>3. ASSUME NEW d \in Docs, MatchMade(d) PROVE ListsInv'
    BY <2>3 DEF MatchMade, ListsInv, lists
  <2>4. ASSUME NEW p \in Partners, MessageSent(p) PROVE ListsInv'
    BY <2>4 DEF MessageSent, ListsInv, Unfalse, lists
  <2>5. CASE UNCHANGED vars
    BY <2>5 DEF vars, ListsInv, database, lists
  <2> QED
    BY <2>1, <2>2, <2>3, <2>4, <2>5, AnswerKeepsLists, FailureKeepsLists DEF Next
<1> QED
  BY <1>1, <1>2, Invariant, PTL DEF Spec

(* An error is reported only for a call that went wrong.                   *)
THEOREM ErrorsAreReal ==
  ASSUME OnePerPair
  PROVE  Spec => []NoFalseAlarm
<1>1. ListsInv => NoFalseAlarm
  BY DEF ListsInv, Unfalse, NoFalseAlarm
<1> QED
  BY <1>1, ListsAreSound, PTL

(* Overlapping loads do not mix.                                           *)
THEOREM RowsAreSingle ==
  ASSUME OnePerPair
  PROVE  Spec => []NoDoubleRows
<1>1. ListsInv => NoDoubleRows
  BY DEF ListsInv, Once, NoDoubleRows
<1> QED
  BY <1>1, ListsAreSound, PTL
=============================================================================
