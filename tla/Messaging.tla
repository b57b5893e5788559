----------------------------- MODULE Messaging ------------------------------
(***************************************************************************)
(* A conversation on one phone (Api/ApiMessages.swift, MessageView.swift). *)
(*                                                                         *)
(* The object Api.messages is shared by every MessageView: it holds one    *)
(* delegate, one listener and the uid it is listening for.  A MessageView  *)
(* starts a chain of calls when it loads,                                  *)
(*                                                                         *)
(*   profile -> matchDoc -> listening     (or refused, failed, stuck)      *)
(*                                                                         *)
(* which ends by installing a Firestore listener and which the Back button *)
(* does not cancel.  The listener hands new messages to whoever is the     *)
(* delegate at that time.  Everything runs on the main thread, so a        *)
(* callback is one action.                                                 *)
(***************************************************************************)
EXTENDS Naturals, FiniteSets, SequencesExt

CONSTANTS
    Partners,       \* the users the user of this phone is matched with
    NoOne,          \* Swift's nil, for a uid or a view
    MaxViews,       \* bound: how many MessageViews are opened
    MaxMessages,    \* bound: how many messages are sent, by both sides
    MaxDocs,        \* bound: how many match documents a pair may have
    CallsMayFail,   \* a database call may report an error, or nothing at all
    BackWaits       \* the user presses Back only when nothing is loading

ASSUME NoOneAssumption == NoOne \notin Partners /\ NoOne \notin Nat
ASSUME BoundsAssumption ==
    MaxViews \in Nat /\ MaxMessages \in Nat /\ MaxDocs \in Nat \ {0}

Views == 1 .. MaxViews
Docs == 1 .. MaxDocs        \* the ids of match documents, in query order
Texts == 1 .. MaxMessages   \* each message has its own id

VARIABLES
    (* Api.messages *)
    delegate,
    messageListener,            \* the listener is named after its view
    listeningForMessagesWith,
    (* the MessageViews *)
    onScreen,                   \* the view in front of the user
    partner,                    \* conversationPartnerProfile
    chain,                      \* where the view's chain of calls is
    myProfile,                  \* has myProfile been loaded
    messages,                   \* what the view shows
    (* Firestore on this phone *)
    active,                     \* the listeners that have not been removed
    source,                     \* the match document a listener is on
    seen,                       \* how many messages it has handed out
    broken,                     \* the listeners that have reported an error
    (* the database, and the other phones *)
    docs,                       \* the match documents with each partner
    stored,                     \* the messages under each of them
    sending,                    \* sendMessage calls waiting for getMatchDoc
    sent                        \* how many messages have been sent

api == <<delegate, messageListener, listeningForMessagesWith>>
views == <<onScreen, partner, chain, myProfile, messages>>
listeners == <<active, source, seen, broken>>
database == <<docs, stored, sending, sent>>
vars == <<api, views, listeners, database>>

Loading == {"profile", "matchDoc"}
Chain == {"unopened", "none", "listening", "refused", "failed", "stuck"}
           \union Loading

TypeOK ==
    /\ delegate \in Views \union {NoOne}
    /\ messageListener \in Views \union {NoOne}
    /\ listeningForMessagesWith \in Partners \union {NoOne}
    /\ onScreen \in Views \union {NoOne}
    /\ partner \in [Views -> Partners \union {NoOne}]
    /\ chain \in [Views -> Chain]
    /\ myProfile \in [Views -> BOOLEAN]
    /\ messages \in [Views -> Seq(Texts)]
    /\ active \subseteq Views
    /\ source \in [Views -> Docs \union {0}]
    /\ seen \in [Views -> Nat]
    /\ broken \subseteq Views
    /\ docs \in [Partners -> SUBSET Docs]
    /\ stored \in [Partners -> [Docs -> Seq(Texts)]]
    /\ sending \subseteq [text : Texts, to : Partners]
    /\ sent \in 0 .. MaxMessages

Init ==
    /\ delegate = NoOne
    /\ messageListener = NoOne
    /\ listeningForMessagesWith = NoOne
    /\ onScreen = NoOne
    /\ partner = [v \in Views |-> NoOne]
    /\ chain = [v \in Views |-> "unopened"]
    /\ myProfile = [v \in Views |-> FALSE]
    /\ messages = [v \in Views |-> <<>>]
    /\ active = {}
    /\ source = [v \in Views |-> 0]
    /\ seen = [v \in Views |-> 0]
    /\ broken = {}
    /\ \E d \in Docs : docs = [p \in Partners |-> {d}]
    /\ stored = [p \in Partners |-> [d \in Docs |-> <<>>]]
    /\ sending = {}
    /\ sent = 0

-----------------------------------------------------------------------------
(* getMatchDoc(between: me, and: p): the first document of the query that  *)
(* has p as a member.                                                      *)
MatchDoc(p) == CHOOSE d \in docs[p] : \A e \in docs[p] : d <= e

(* A row or "start talking" presents the next MessageView.  It is loaded   *)
(* and, as nothing is animated, has appeared before any reply: it becomes  *)
(* the delegate.  If the partner's profile could not be loaded the view    *)
(* has none, and its viewDidLoad stops there.                              *)
Open(v, p) ==
    /\ onScreen = NoOne
    /\ chain[v] = "unopened"
    /\ \A w \in Views : w < v => chain[w] # "unopened"
    /\ p = NoOne => CallsMayFail
    /\ onScreen' = v
    /\ delegate' = v
    /\ partner' = [partner EXCEPT ![v] = p]
    /\ chain' = [chain EXCEPT ![v] = IF p = NoOne THEN "none" ELSE "profile"]
    /\ UNCHANGED <<messageListener, listeningForMessagesWith, myProfile, messages,
                   listeners, database>>

(* getProfile has answered, with or without a profile, and the group's     *)
(* notify calls startGettingMessages, which refuses if the flag is set.    *)
ProfileArrives(v, ok) ==
    /\ chain[v] = "profile"
    /\ ok \/ CallsMayFail
    /\ myProfile' = [myProfile EXCEPT ![v] = ok]
    /\ chain' = [chain EXCEPT ![v] =
                   IF listeningForMessagesWith = NoOne THEN "matchDoc" ELSE "refused"]
    /\ UNCHANGED <<api, onScreen, partner, messages, listeners, database>>

(* getProfileOf returns without calling its completion (a picture that is  *)
(* no image): the group is never left.                                     *)
ProfileNeverArrives(v) ==
    /\ CallsMayFail
    /\ chain[v] = "profile"
    /\ chain' = [chain EXCEPT ![v] = "stuck"]
    /\ UNCHANGED <<api, onScreen, partner, myProfile, messages, listeners, database>>

(* getMatchDoc has answered: add the listener and set the flag, whatever   *)
(* has become of the view and of the flag since the call.                  *)
ListenerAdded(v) ==
    /\ chain[v] = "matchDoc"
    /\ chain' = [chain EXCEPT ![v] = "listening"]
    /\ active' = active \union {v}
    /\ source' = [source EXCEPT ![v] = MatchDoc(partner[v])]
    /\ messageListener' = v
    /\ listeningForMessagesWith' = partner[v]
    /\ UNCHANGED <<delegate, onScreen, partner, myProfile, messages, seen, broken, database>>

MatchDocFails(v) ==
    /\ CallsMayFail
    /\ chain[v] = "matchDoc"
    /\ chain' = [chain EXCEPT ![v] = "failed"]
    /\ UNCHANGED <<api, onScreen, partner, myProfile, messages, listeners, database>>

(* onReceivedNewMessage of the view w, for a sequence of messages: they    *)
(* are dropped if it has no profile of its own or of the partner.          *)
Received(w, ms) ==
    IF w # NoOne /\ myProfile[w] /\ partner[w] # NoOne
      THEN messages' = [messages EXCEPT ![w] = @ \o ms]
      ELSE UNCHANGED messages

(* Mutation: goes through the documents instead of the changes.            *)
Snapshot_AllDocuments(v) ==
    /\ v \in active \ broken
    /\ LET all == stored[partner[v]][source[v]]
       IN  /\ seen[v] < Len(all)
           /\ seen' = [seen EXCEPT ![v] = Len(all)]
           /\ Received(delegate, all)
    /\ UNCHANGED <<api, onScreen, partner, chain, myProfile, active, source, broken,
                   database>>

(* The callback of the listener of v: the added documents go to the        *)
(* delegate.  They are the last ones, as messages are stored at the end.   *)
Snapshot(v) ==
    /\ v \in active \ broken
    /\ LET all == stored[partner[v]][source[v]]
       IN  /\ seen[v] < Len(all)
           /\ seen' = [seen EXCEPT ![v] = Len(all)]
           /\ Received(delegate, SubSeq(all, seen[v] + 1, Len(all)))
    /\ UNCHANGED <<api, onScreen, partner, chain, myProfile, active, source, broken,
                   database>>

(* The callback reports an error, which is printed.  Nothing more comes    *)
(* from this listener, and Api.messages keeps it and its flag.             *)
ListenerFails(v) ==
    /\ CallsMayFail
    /\ v \in active \ broken
    /\ broken' = broken \union {v}
    /\ UNCHANGED <<api, views, active, source, seen, database>>

(* Mutations: the listener is forgotten without being removed; the flag is *)
(* not cleared.                                                            *)
StopGettingMessages_WithoutRemove ==
    /\ messageListener' = NoOne
    /\ listeningForMessagesWith' =
         IF messageListener = NoOne THEN listeningForMessagesWith ELSE NoOne
    /\ UNCHANGED active

StopGettingMessages_KeepsFlag ==
    /\ active' = active \ {messageListener}
    /\ messageListener' = NoOne
    /\ UNCHANGED listeningForMessagesWith

(* stopGettingMessages: without a listener it only reports an error.       *)
StopGettingMessages ==
    /\ active' = active \ {messageListener}
    /\ messageListener' = NoOne
    /\ listeningForMessagesWith' =
         IF messageListener = NoOne THEN listeningForMessagesWith ELSE NoOne

(* The Back button stops whatever is listened to and dismisses the view.   *)
Back(v) ==
    /\ onScreen = v
    /\ BackWaits => chain[v] \notin Loading
    /\ StopGettingMessages
    /\ onScreen' = NoOne
    /\ UNCHANGED <<delegate, partner, chain, myProfile, messages, source, seen, broken,
                   database>>

-----------------------------------------------------------------------------
(* Mutation: a view without a partner sends too.                           *)
Send_Unguarded(v) ==
    /\ onScreen = v
    /\ sent < MaxMessages
    /\ sent' = sent + 1
    /\ sending' = sending \union {[text |-> sent + 1, to |-> partner[v]]}
    /\ UNCHANGED <<api, views, listeners, docs, stored>>

(* The send button: sendMessage asks for the match document.               *)
Send(v) ==
    /\ onScreen = v
    /\ partner[v] # NoOne
    /\ sent < MaxMessages
    /\ sent' = sent + 1
    /\ sending' = sending \union {[text |-> sent + 1, to |-> partner[v]]}
    /\ UNCHANGED <<api, views, listeners, docs, stored>>

(* getMatchDoc has answered: the message is stamped and written.           *)
SendWritten(s) ==
    /\ s \in sending
    /\ sending' = sending \ {s}
    /\ stored' = [stored EXCEPT ![s.to][MatchDoc(s.to)] = Append(@, s.text)]
    /\ UNCHANGED <<api, views, listeners, docs, sent>>

SendFails(s) ==
    /\ CallsMayFail
    /\ s \in sending
    /\ sending' = sending \ {s}
    /\ UNCHANGED <<api, views, listeners, docs, stored, sent>>

(* The partner's phone does the same.                                      *)
PartnerSends(p) ==
    /\ sent < MaxMessages
    /\ sent' = sent + 1
    /\ stored' = [stored EXCEPT ![p][MatchDoc(p)] = Append(@, sent + 1)]
    /\ UNCHANGED <<api, views, listeners, docs, sending>>

(* The cloud function adds a further match document for a pair: see        *)
(* AtMostOneMatch in Matching.                                             *)
MatchedAgain(p, d) ==
    /\ d \notin docs[p]
    /\ docs' = [docs EXCEPT ![p] = @ \union {d}]
    /\ UNCHANGED <<api, views, listeners, stored, sending, sent>>

-----------------------------------------------------------------------------
User(v) == (\E p \in Partners \union {NoOne} : Open(v, p)) \/ Back(v) \/ Send(v)

Reply(v) ==
    \/ \E ok \in BOOLEAN : ProfileArrives(v, ok)
    \/ ProfileNeverArrives(v)
    \/ ListenerAdded(v)
    \/ MatchDocFails(v)

Next ==
    \/ \E v \in Views : User(v) \/ Reply(v) \/ Snapshot(v) \/ ListenerFails(v)
    \/ \E s \in sending : SendWritten(s) \/ SendFails(s)
    \/ \E p \in Partners : PartnerSends(p) \/ \E d \in Docs : MatchedAgain(p, d)

Spec == Init /\ [][Next]_vars

(* Firebase answers a call, with an error if not with a result, and a      *)
(* listener that has something new says so until it fails.  Users may stop.*)
Fairness == \A v \in Views : WF_vars(Reply(v)) /\ WF_vars(Snapshot(v))

FairSpec == Spec /\ Fairness

-----------------------------------------------------------------------------
(* Properties.                                                             *)

(* ApiMessages.swift:166: "Get all messages in the conversation between    *)
(* the current user and a specific other user".  So a view shows messages  *)
(* of the conversation with its partner only.                              *)
OnlyPartnerMessages ==
    \A v \in Views : \A m \in ToSet(messages[v]) :
        partner[v] # NoOne /\ \E d \in Docs : m \in ToSet(stored[partner[v]][d])

(* No view shows a message twice, though views come and go and each new    *)
(* listener starts again from the first message.                           *)
ShownOnce == \A v \in Views : IsInjective(messages[v])

(* Api.messages keeps its books: what it says it listens for is what the   *)
(* one listener it can still remove listens for, that listener is alive,   *)
(* and no other one is.                                                    *)
OneListener ==
    /\ active = {messageListener} \ {NoOne}
    /\ listeningForMessagesWith =
         IF messageListener = NoOne THEN NoOne ELSE partner[messageListener]

(* What is stored in the conversation with p.                              *)
Conversation(p) == UNION {ToSet(stored[p][d]) : d \in Docs}

(* The partner of v is matched twice, and m is under the document that the *)
(* listener of v is not on: the first one when it was added.               *)
Elsewhere(v, m) ==
    /\ chain[v] = "listening"
    /\ Cardinality(docs[partner[v]]) > 1
    /\ m \notin ToSet(stored[partner[v]][source[v]])

(* A call made for the view v has failed, or has not been answered.        *)
CallFailed(v) ==
    \/ chain[v] \in {"failed", "stuck"}
    \/ chain[v] = "listening" /\ ~ myProfile[v]
    \/ v \in broken

(* ApiMessages.swift:166 again: "Get all messages in the conversation [...]*)
(* and then continue listening for new messages".  From the moment it is   *)
(* opened, the view in front of the user gets to show whatever is in the   *)
(* conversation with its partner, unless the user leaves it, one of its    *)
(* own calls fails, or the message is under a duplicate match document.  So*)
(* it is never refused its listener, and what happened to earlier views,   *)
(* whose calls fail and listeners break, makes no difference.              *)
MessagesShown ==
    \A v \in Views, m \in Texts :
        (onScreen = v /\ partner[v] # NoOne /\ m \in Conversation(partner[v]))
          ~> (m \in ToSet(messages[v]) \/ onScreen # v \/ CallFailed(v)
                \/ Elsewhere(v, m))
=============================================================================
