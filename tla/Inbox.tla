------------------------------- MODULE Inbox --------------------------------
(***************************************************************************)
(* The screen with the matches and the conversations (Converstions.swift,  *)
(* with getMatches of ApiMatches.swift and getConversationsInfo and        *)
(* getLatestMessage of ApiMessages.swift).                                 *)
(*                                                                         *)
(* loadData runs when the view loads and again whenever it appears, so     *)
(* loads overlap.  A load asks for both lists at once and counts their     *)
(* answers with a DispatchGroup: 2 enters, a leave per call of either      *)
(* completion, and when the count is back at 0 the tables are reloaded.    *)
(* libdispatch stops the app at a leave without an enter.  Either list is  *)
(* a query followed by a fan-out over its documents with a group of its    *)
(* own.  Callbacks run on the main thread, one action each; the notify of  *)
(* an inner group is taken together with its last leave.                   *)
(***************************************************************************)
EXTENDS Naturals, SequencesExt

CONSTANTS
    Partners,
    Owner,         \* the partner a match document is about, by document id
    MaxLoads,      \* bound: how often loadData runs
    MaxFailures,   \* bound: how many calls report an error, or nothing at all
    MaxNews        \* bound: how often the database changes during the loads

Docs == DOMAIN Owner

ASSUME OwnerAssumption == Docs \subseteq Nat /\ Owner \in [Docs -> Partners]
ASSUME BoundsAssumption == MaxLoads \in Nat /\ MaxFailures \in Nat /\ MaxNews \in Nat

Loads == 1 .. MaxLoads

VARIABLES
    matches,                 \* the match documents there are
    talked,                  \* those with at least one message under them
    news,                    \* how often either has changed
    profilesArray,           \* the view's data source for the matches
    conversationsInfoArray,  \* and for the conversations
    matchesCollection,       \* the rows on display: as of the last reload
    conversationsTV,
    loading,                 \* is the loading image in front of them
    load,                    \* the calls of loadData
    failures,                \* how many of their calls have failed so far
    crashed                  \* libdispatch has stopped the app

lists == <<profilesArray, conversationsInfoArray>>
display == <<matchesCollection, conversationsTV, loading>>
database == <<matches, talked, news>>
vars == <<database, lists, display, load, failures, crashed>>

(* One call of loadData.  A document waits at a stage of the fan-out until *)
(* its reply; at "lost" it waits for a completion nobody will call.        *)
Stage == {"out", "first", "profile", "latest", "lost"}

Load == [
    group : 0 .. 2,              \* the count of the load's DispatchGroup
    tables : {"wait", "reload", "done"},
    getMatches : {"idle", "query", "fanout", "done"},
    profiles : [Docs -> Stage],
    profileArray : Seq(Partners),
    errors : Nat,                \* how often completion(nil, error) was called
    claims : BOOLEAN,            \* completion(profileArray, nil) was called
    getConversationsInfo : {"idle", "query", "fanout", "done"},
    infos : [Docs -> Stage],
    infoArray : Seq(Partners),
    globalError : BOOLEAN,
    trouble : BOOLEAN ]          \* history: a call failed or was never answered

Nowhere == [d \in Docs |-> "out"]

Idle == [
    group |-> 0, tables |-> "wait",
    getMatches |-> "idle", profiles |-> Nowhere, profileArray |-> <<>>,
    errors |-> 0, claims |-> FALSE,
    getConversationsInfo |-> "idle", infos |-> Nowhere, infoArray |-> <<>>,
    globalError |-> FALSE, trouble |-> FALSE]

TypeOK ==
    /\ matches \subseteq Docs
    /\ talked \subseteq matches
    /\ news \in 0 .. MaxNews
    /\ profilesArray \in Seq(Partners)
    /\ conversationsInfoArray \in Seq(Partners)
    /\ matchesCollection \in Seq(Partners)
    /\ conversationsTV \in Seq(Partners)
    /\ loading \in BOOLEAN
    /\ load \in [Loads -> Load]
    /\ failures \in 0 .. MaxFailures
    /\ crashed \in BOOLEAN

Init ==
    /\ matches \in SUBSET Docs
    /\ talked \in SUBSET matches
    /\ news = 0
    /\ profilesArray = <<>>
    /\ conversationsInfoArray = <<>>
    /\ matchesCollection = <<>>
    /\ conversationsTV = <<>>
    /\ loading = TRUE
    /\ load = [l \in Loads |-> Idle]
    /\ failures = 0
    /\ crashed = FALSE

-----------------------------------------------------------------------------
(* getMatchDoc(between: me, and: p).                                       *)
MatchDocs(p) == {d \in matches : Owner[d] = p}
MatchDoc(p) == CHOOSE d \in MatchDocs(p) : \A e \in MatchDocs(p) : d <= e

(* The load r after n leaves of its group: the leave that brings the count *)
(* to 0 queues the notify block.                                           *)
Leave(r, n) ==
    [r EXCEPT !.group = @ - n,
              !.tables = IF n > 0 /\ r.group = n THEN "reload" ELSE @]

(* Mutation: a count that goes below 0 unnoticed.                          *)
Settle_NoTrap(l, r, n) ==
    UNCHANGED crashed /\ load' = [load EXCEPT ![l] = Leave(r, n)]

(* The load l becomes r and leaves its group n times, or stops the app.    *)
Settle(l, r, n) ==
    IF n > r.group
      THEN crashed' = TRUE /\ load' = [load EXCEPT ![l] = r]
      ELSE UNCHANGED crashed /\ load' = [load EXCEPT ![l] = Leave(r, n)]

(* A completion replaces the list unless it brings nil.                    *)
Replace(list, new) == IF new = <<>> THEN list ELSE new

(* A call of the view goes wrong.                                          *)
CallFails == failures < MaxFailures /\ failures' = failures + 1

Waiting(stages) == \E d \in Docs : stages[d] # "out"

-----------------------------------------------------------------------------
(* loadData: both lists are asked for.                                     *)
LoadData(l) ==
    /\ ~ crashed
    /\ load[l] = Idle
    /\ \A k \in Loads : k < l => load[k] # Idle
    /\ load' = [load EXCEPT ![l] =
                  [Idle EXCEPT !.group = 2, !.getMatches = "query",
                               !.getConversationsInfo = "query"]]
    /\ UNCHANGED <<database, lists, display, crashed, failures>>

(* Mutation: one of the two tables is forgotten.                           *)
ReloadData_MatchesOnly(l) ==
    /\ ~ crashed
    /\ load[l].tables = "reload"
    /\ load' = [load EXCEPT ![l].tables = "done"]
    /\ matchesCollection' = profilesArray
    /\ loading' = FALSE
    /\ UNCHANGED <<database, lists, conversationsTV, crashed, failures>>

(* notify: the tables are reloaded from the lists, whoever filled them.    *)
ReloadData(l) ==
    /\ ~ crashed
    /\ load[l].tables = "reload"
    /\ load' = [load EXCEPT ![l].tables = "done"]
    /\ matchesCollection' = profilesArray
    /\ conversationsTV' = conversationsInfoArray
    /\ loading' = FALSE
    /\ UNCHANGED <<database, lists, crashed, failures>>

-----------------------------------------------------------------------------
(* getMatches.                                                             *)

(* Mutation: without a profile to show, the guard leaves and falls through *)
(* to the leave below it.                                                  *)
MatchesStep_NilLeavesTwice(l, r, before) ==
    IF Waiting(r.profiles)
      THEN Settle(l, r, before) /\ UNCHANGED profilesArray
      ELSE /\ Settle(l, [r EXCEPT !.getMatches = "done", !.claims = TRUE],
                     before + (IF r.profileArray = <<>> THEN 2 ELSE 1))
           /\ profilesArray' = Replace(profilesArray, r.profileArray)

(* The last leave of its own group: completion(profileArray, nil) whatever *)
(* happened before, on top of `before` calls of completion(nil, error).    *)
MatchesStep(l, r, before) ==
    IF Waiting(r.profiles)
      THEN Settle(l, r, before) /\ UNCHANGED profilesArray
      ELSE /\ Settle(l, [r EXCEPT !.getMatches = "done", !.claims = TRUE,
                                 !.profileArray = <<>>], before + 1)
           /\ profilesArray' = Replace(profilesArray, r.profileArray)

MatchesQueried(l) ==
    /\ ~ crashed
    /\ load[l].getMatches = "query"
    /\ MatchesStep(l,
         [load[l] EXCEPT !.getMatches = "fanout",
            !.profiles = [d \in Docs |-> IF d \in matches THEN "profile" ELSE "out"]],
         0)
    /\ UNCHANGED <<database, conversationsInfoArray, display, failures>>

MatchesQueryFails(l) ==
    /\ ~ crashed
    /\ CallFails
    /\ load[l].getMatches = "query"
    /\ Settle(l, [load[l] EXCEPT !.getMatches = "done", !.errors = @ + 1,
                             !.trouble = TRUE], 1)
    /\ UNCHANGED <<database, lists, display>>

(* Mutation: the result grows in the view's list, which loads share.       *)
MatchProfileArrives_SharedArray(l, d) ==
    /\ ~ crashed
    /\ load[l].profiles[d] = "profile"
    /\ MatchesStep(l,
         [load[l] EXCEPT !.profiles[d] = "out",
                         !.profileArray = Append(profilesArray, Owner[d])], 0)
    /\ UNCHANGED <<database, conversationsInfoArray, display, failures>>

(* getProfileOf has answered for one document.                             *)
MatchProfileArrives(l, d) ==
    /\ ~ crashed
    /\ load[l].profiles[d] = "profile"
    /\ MatchesStep(l,
         [load[l] EXCEPT !.profiles[d] = "out",
                         !.profileArray = Append(@, Owner[d])], 0)
    /\ UNCHANGED <<database, conversationsInfoArray, display, failures>>

(* ... with an error: completion(nil, error) is called, and the rest of    *)
(* the fan-out goes on.                                                    *)
MatchProfileFails(l, d) ==
    /\ ~ crashed
    /\ CallFails
    /\ load[l].profiles[d] = "profile"
    /\ MatchesStep(l,
         [load[l] EXCEPT !.profiles[d] = "out", !.errors = @ + 1,
                         !.trouble = TRUE], 1)
    /\ UNCHANGED <<database, conversationsInfoArray, display>>

(* getProfileOf gives up on a picture that is no image, and calls nobody.  *)
MatchProfileLost(l, d) ==
    /\ ~ crashed
    /\ CallFails
    /\ load[l].profiles[d] = "profile"
    /\ load' = [load EXCEPT ![l].profiles[d] = "lost", ![l].trouble = TRUE]
    /\ UNCHANGED <<database, lists, display, crashed>>

-----------------------------------------------------------------------------
(* getConversationsInfo.                                                   *)

(* The last leave of its group: the list, or the error of any document.    *)
InfosStep(l, r) ==
    IF Waiting(r.infos)
      THEN Settle(l, r, 0) /\ UNCHANGED conversationsInfoArray
      ELSE /\ Settle(l, [r EXCEPT !.getConversationsInfo = "done", !.infoArray = <<>>], 1)
           /\ conversationsInfoArray' =
                IF r.globalError THEN conversationsInfoArray
                                 ELSE Replace(conversationsInfoArray, r.infoArray)

InfosQueried(l) ==
    /\ ~ crashed
    /\ load[l].getConversationsInfo = "query"
    /\ InfosStep(l,
         [load[l] EXCEPT !.getConversationsInfo = "fanout",
            !.infos = [d \in Docs |-> IF d \in matches THEN "first" ELSE "out"]])
    /\ UNCHANGED <<database, profilesArray, display, failures>>

InfosQueryFails(l) ==
    /\ ~ crashed
    /\ CallFails
    /\ load[l].getConversationsInfo = "query"
    /\ Settle(l, [load[l] EXCEPT !.getConversationsInfo = "done",
                                 !.globalError = TRUE, !.trouble = TRUE], 1)
    /\ UNCHANGED <<database, lists, display>>

(* Mutations: a match without a message is not left out; it is left out    *)
(* without a leave.                                                        *)
FirstMessageQueried_All(l, d) ==
    /\ ~ crashed
    /\ load[l].infos[d] = "first"
    /\ InfosStep(l, [load[l] EXCEPT !.infos[d] = "profile"])
    /\ UNCHANGED <<database, profilesArray, display, failures>>

FirstMessageQueried_NoLeave(l, d) ==
    /\ ~ crashed
    /\ load[l].infos[d] = "first"
    /\ InfosStep(l,
         [load[l] EXCEPT !.infos[d] = IF d \in talked THEN "profile" ELSE "lost"])
    /\ UNCHANGED <<database, profilesArray, display, failures>>

(* Is there a first message under d?  A match without one is left out.     *)
FirstMessageQueried(l, d) ==
    /\ ~ crashed
    /\ load[l].infos[d] = "first"
    /\ InfosStep(l,
         [load[l] EXCEPT !.infos[d] = IF d \in talked THEN "profile" ELSE "out"])
    /\ UNCHANGED <<database, profilesArray, display, failures>>

InfoProfileArrives(l, d) ==
    /\ ~ crashed
    /\ load[l].infos[d] = "profile"
    /\ load' = [load EXCEPT ![l].infos[d] = "latest"]
    /\ UNCHANGED <<database, lists, display, crashed, failures>>

(* getLatestMessage looks the match document up again, by its members, and *)
(* calls it an error if no message is there.                               *)
LatestMessageArrives(l, d) ==
    /\ ~ crashed
    /\ load[l].infos[d] = "latest"
    /\ InfosStep(l,
         IF MatchDoc(Owner[d]) \in talked
           THEN [load[l] EXCEPT !.infos[d] = "out",
                                !.infoArray = Append(@, Owner[d])]
           ELSE [load[l] EXCEPT !.infos[d] = "out", !.globalError = TRUE])
    /\ UNCHANGED <<database, profilesArray, display, failures>>

(* Any of the three calls reports an error.                                *)
InfoFails(l, d) ==
    /\ ~ crashed
    /\ CallFails
    /\ load[l].infos[d] \in {"first", "profile", "latest"}
    /\ InfosStep(l, [load[l] EXCEPT !.infos[d] = "out", !.globalError = TRUE,
                                    !.trouble = TRUE])
    /\ UNCHANGED <<database, profilesArray, display>>

(* A profile whose picture is no image; or the query for the latest        *)
(* message fails, and the guard looks at the error of the call before,     *)
(* which is nil.                                                           *)
InfoLost(l, d) ==
    /\ ~ crashed
    /\ CallFails
    /\ load[l].infos[d] \in {"profile", "latest"}
    /\ load' = [load EXCEPT ![l].infos[d] = "lost", ![l].trouble = TRUE]
    /\ UNCHANGED <<database, lists, display, crashed>>

-----------------------------------------------------------------------------
(* Everybody else: the cloud function adds a match, somebody writes the    *)
(* first message of a conversation.                                        *)
Changes == news < MaxNews /\ news' = news + 1

MatchMade(d) ==
    /\ ~ crashed
    /\ d \notin matches
    /\ Changes
    /\ matches' = matches \union {d}
    /\ UNCHANGED <<talked, lists, display, load, crashed, failures>>

MessageSent(p) ==
    /\ ~ crashed
    /\ MatchDocs(p) # {}
    /\ MatchDoc(p) \notin talked
    /\ Changes
    /\ talked' = talked \union {MatchDoc(p)}
    /\ UNCHANGED <<matches, lists, display, load, crashed, failures>>

-----------------------------------------------------------------------------
Answer(l) ==
    \/ MatchesQueried(l)
    \/ InfosQueried(l)
    \/ \E d \in Docs :
         \/ MatchProfileArrives(l, d)
         \/ FirstMessageQueried(l, d)
         \/ InfoProfileArrives(l, d)
         \/ LatestMessageArrives(l, d)

Failure(l) ==
    \/ MatchesQueryFails(l)
    \/ InfosQueryFails(l)
    \/ \E d \in Docs :
         \/ MatchProfileFails(l, d)
         \/ MatchProfileLost(l, d)
         \/ InfoFails(l, d)
         \/ InfoLost(l, d)

Next ==
    \/ \E l \in Loads : LoadData(l) \/ Answer(l) \/ Failure(l) \/ ReloadData(l)
    \/ \E d \in Docs : MatchMade(d)
    \/ \E p \in Partners : MessageSent(p)

Spec == Init /\ [][Next]_vars

(* The main queue is served: as long as an answer or a reload is due, one  *)
(* is taken, and as a load makes finitely many calls none is put off for   *)
(* ever.  The calls that answer nobody owe nothing.                        *)
FairSpec == Spec /\ WF_vars(\E l \in Loads : Answer(l) \/ ReloadData(l))

-----------------------------------------------------------------------------
(* Properties.                                                             *)

(* When the loads are over, however they overlapped, what the tables show  *)
(* is what taps on their rows will look up.                                *)
QuietMeansShown ==
    (/\ ~ crashed
     /\ \E l \in Loads : load[l] # Idle
     /\ \A l \in Loads : load[l] = Idle \/ load[l].tables = "done")
      => matchesCollection = profilesArray /\ conversationsTV = conversationsInfoArray

(* A list reports an error only if a call made for it went wrong: a match  *)
(* nobody has written under yet is no error.                               *)
NoFalseAlarm ==
    \A l \in Loads : load[l].errors > 0 \/ load[l].globalError => load[l].trouble

(* The group of loadData is left too often only when getMatches has called *)
(* its completion with an error: all other ways through the two fan-outs   *)
(* leave exactly once.                                                     *)
OnlyErrorsCrash == crashed => \E l \in Loads : load[l].errors > 0

(* Overlapping loads do not mix: no list has a partner twice.              *)
NoDoubleRows ==
    /\ IsInjective(profilesArray) /\ IsInjective(conversationsInfoArray)
    /\ \A l \in Loads :
         IsInjective(load[l].profileArray) /\ IsInjective(load[l].infoArray)

(* A call of the load l waits for an answer that will not come.            *)
Stranded(l) ==
    /\ load[l].trouble
    /\ \E d \in Docs : load[l].profiles[d] = "lost" \/ load[l].infos[d] = "lost"

(* The load l is over, or can never be.                                    *)
Over(l) == load[l].tables = "done" \/ Stranded(l) \/ crashed

(* Loading ends: it never goes on for ever that a load is neither over,    *)
(* with the tables shown, nor held up by a call that is never answered.    *)
(* A reported error is no excuse.  What is excused is a picture that is no *)
(* image, and a query for the latest message that fails without a report.  *)
LoadingEnds == []<>(\A l \in Loads : load[l] = Idle \/ Over(l))

(* ApiMatches.swift:63: "If successful, completion's `error` argument will *)
(* be `nil`, else it will contain" the error.  So what getMatches reported *)
(* as an error it does not report as a success too.                        *)
AnswerStands == \A l \in Loads : ~ (load[l].errors > 0 /\ load[l].claims)
=============================================================================
