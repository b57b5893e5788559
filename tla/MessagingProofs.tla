--------------------------- MODULE MessagingProofs ---------------------------
(***************************************************************************)
(* Proofs about Messaging, for any partners and any number of views,       *)
(* messages and match documents.  The variables keep their types whatever  *)
(* the user does.  With a user who waits before going back, Api.messages   *)
(* keeps its books, and each view shows the first messages of its own      *)
(* match document, in their order.                                         *)
(***************************************************************************)
EXTENDS Messaging, WellFoundedInduction, SequenceTheorems, TLAPS

USE NoOneAssumption, BoundsAssumption

(* The variables that Back, startGettingMessages and the listener share.   *)
ListenerTypes ==
    /\ messageListener \in Views \union {NoOne}
    /\ onScreen \in Views \union {NoOne}
    /\ partner \in [Views -> Partners \union {NoOne}]
    /\ chain \in [Views -> Chain]

(* A view that is loading is in front of the user, so no two views load at *)
(* the same time; and once it has passed the check of the flag nobody sets *)
(* the flag before it does.                                                *)
LoadsInFront ==
    \A v \in Views :
        /\ chain[v] \in Loading => onScreen = v /\ partner[v] # NoOne
        /\ chain[v] = "matchDoc" => listeningForMessagesWith = NoOne

(* The listener is that of the view in front.                              *)
ListensInFront ==
    messageListener # NoOne =>
        /\ onScreen = messageListener
        /\ chain[messageListener] = "listening"
        /\ partner[messageListener] # NoOne

IInv == ListenerTypes /\ LoadsInFront /\ ListensInFront /\ OneListener

LEMMA InitInvariant == Init => IInv
BY DEF Init, IInv, ListenerTypes, LoadsInFront, ListensInFront, OneListener, Chain, Loading,
       Views

(* Opening a view: nothing is loading and nothing is listened to.          *)
LEMMA OpenKeepsInvariant ==
  ASSUME IInv, NEW v \in Views, NEW p \in Partners \union {NoOne}, Open(v, p)
  PROVE  IInv'
<1>1. NoOne \notin Views
  BY DEF Views
<1>2. messageListener = NoOne /\ \A w \in Views : chain[w] \notin Loading
  BY <1>1 DEF Open, IInv, LoadsInFront, ListensInFront, ListenerTypes
<1>3. ListenerTypes'
  BY DEF Open, IInv, ListenerTypes, Chain, Loading
<1>4. LoadsInFront'
  BY <1>2 DEF Open, IInv, ListenerTypes, LoadsInFront, Loading
<1>5. ListensInFront' /\ OneListener'
  BY <1>2 DEF Open, IInv, ListensInFront, OneListener, listeners
<1> QED
  BY <1>3, <1>4, <1>5 DEF IInv

(* The replies to a chain that does not end by listening.                  *)
LEMMA ChainKeepsInvariant ==
  ASSUME IInv, NEW v \in Views,
         \/ \E ok \in BOOLEAN : ProfileArrives(v, ok)
         \/ ProfileNeverArrives(v)
         \/ MatchDocFails(v)
  PROVE  IInv'
<1>1. PICK c \in Chain \ {"profile", "listening"} :
        /\ chain' = [chain EXCEPT ![v] = c]
        /\ chain[v] \in Loading
        /\ c = "matchDoc" => listeningForMessagesWith = NoOne
        /\ UNCHANGED <<api, onScreen, partner, active>>
  BY DEF ProfileArrives, ProfileNeverArrives, MatchDocFails, Chain, Loading, listeners
<1>2. messageListener # v
  BY <1>1 DEF IInv, ListensInFront, Loading, Views
<1>3. ListenerTypes'
  BY <1>1 DEF IInv, ListenerTypes, api
<1>4. LoadsInFront'
  BY <1>1 DEF IInv, ListenerTypes, LoadsInFront, api, Loading
<1>5. ListensInFront' /\ OneListener'
  BY <1>1, <1>2 DEF IInv, ListenerTypes, ListensInFront, OneListener, api
<1> QED
  BY <1>3, <1>4, <1>5 DEF IInv

(* The listener is added while there is none and no other view is loading. *)
LEMMA ListenerAddedKeepsInvariant ==
  ASSUME IInv, NEW v \in Views, ListenerAdded(v)
  PROVE  IInv'
<1>1. chain[v] = "matchDoc" /\ onScreen = v /\ partner[v] # NoOne /\ v # NoOne
      /\ \A w \in Views : w # v => chain[w] \notin Loading
  BY DEF ListenerAdded, IInv, LoadsInFront, Loading, Views
<1>2. messageListener = NoOne /\ active = {}
  <2>1. listeningForMessagesWith = NoOne
    BY <1>1 DEF IInv, LoadsInFront
  <2> QED
    BY <2>1 DEF IInv, OneListener, ListensInFront
<1>3. ListenerTypes'
  BY DEF ListenerAdded, IInv, ListenerTypes, Chain
<1>4. LoadsInFront'
  BY <1>1 DEF ListenerAdded, IInv, ListenerTypes, LoadsInFront, Loading
<1>5. ListensInFront' /\ OneListener'
  BY <1>1, <1>2 DEF ListenerAdded, IInv, ListenerTypes, ListensInFront, OneListener
<1> QED
  BY <1>3, <1>4, <1>5 DEF IInv

(* Going back after having waited leaves no listener and no chain behind.  *)
LEMMA BackKeepsInvariant ==
  ASSUME BackWaits, IInv, NEW v \in Views, Back(v)
  PROVE  IInv'
<1>1. /\ active' = {} /\ messageListener' = NoOne /\ listeningForMessagesWith' = NoOne
      /\ onScreen' = NoOne /\ UNCHANGED <<partner, chain>>
  BY DEF Back, StopGettingMessages, IInv, OneListener
<1>2. \A w \in Views : chain[w] \notin Loading
  BY DEF Back, IInv, LoadsInFront
<1>3. ListenerTypes'
  BY <1>1 DEF IInv, ListenerTypes
<1>4. LoadsInFront' /\ ListensInFront' /\ OneListener'
  BY <1>1, <1>2 DEF LoadsInFront, ListensInFront, OneListener, Loading
<1> QED
  BY <1>3, <1>4 DEF IInv

(* The strengthening of OneListener: with a user who waits, loading views  *)
(* and the listener are those of the view in front.                        *)
THEOREM Invariant ==
  ASSUME BackWaits
  PROVE  Spec => []IInv
<1>1. IInv /\ [Next]_vars => IInv'
  <2> SUFFICES ASSUME IInv, [Next]_vars PROVE IInv'
    OBVIOUS
  <2> DEFINE Books == <<messageListener, listeningForMessagesWith, onScreen, partner, chain,
                        active>>
  <2>1. UNCHANGED Books => IInv'
    BY DEF IInv, ListenerTypes, LoadsInFront, ListensInFront, OneListener
  <2>2. ASSUME NEW v \in Views, Send(v) \/ Snapshot(v) \/ ListenerFails(v)
        PROVE  UNCHANGED Books
    BY <2>2 DEF Send, Snapshot, ListenerFails, api, views, listeners
  <2>3. ASSUME NEW s \in sending, SendWritten(s) \/ SendFails(s) PROVE UNCHANGED Books
    BY <2>3 DEF SendWritten, SendFails, api, views, listeners
  <2>4. ASSUME NEW p \in Partners, PartnerSends(p) PROVE UNCHANGED Books
    BY <2>4 DEF PartnerSends, api, views, listeners
  <2>5. ASSUME NEW p \in Partners, NEW d \in Docs, MatchedAgain(p, d) PROVE UNCHANGED Books
    BY <2>5 DEF MatchedAgain, api, views, listeners
  <2>6. CASE UNCHANGED vars
    BY <2>1, <2>6 DEF vars, api, views, listeners
  <2>7. ASSUME NEW v \in Views, Reply(v) PROVE IInv'
    BY <2>7, ChainKeepsInvariant, ListenerAddedKeepsInvariant DEF Reply
  <2>8. ASSUME NEW v \in Views, User(v) PROVE IInv'
    BY <2>8, <2>1, <2>2, OpenKeepsInvariant, BackKeepsInvariant DEF User
  <2> HIDE DEF Books
  <2> QED
    BY <2>1, <2>2, <2>3, <2>4, <2>5, <2>6, <2>7, <2>8 DEF Next
<1> QED
  BY <1>1, InitInvariant, PTL DEF Spec

(* With a user who waits there is one listener at most, it is the one      *)
(* Api.messages can remove, and the flag names its partner.                *)
THEOREM BooksAreKept ==
  ASSUME BackWaits
  PROVE  Spec => []OneListener
<1>1. IInv => OneListener
  BY DEF IInv
<1> QED
  BY <1>1, Invariant, PTL

-----------------------------------------------------------------------------
(* Types, for patient and impatient users.  Every pair has a match         *)
(* document; only views with a partner load; and a listener is on a        *)
(* document of its partner.                                                *)
TypeInv ==
    /\ TypeOK
    /\ \A p \in Partners : docs[p] # {}
    /\ \A v \in Views :
         /\ chain[v] \in Loading \union {"listening"} => partner[v] # NoOne
         /\ chain[v] = "listening" => source[v] \in Docs
         /\ v \in active => chain[v] = "listening"

LEMMA MatchDocExists ==
  ASSUME TypeInv, NEW p \in Partners
  PROVE  MatchDoc(p) \in Docs
<1>1. docs[p] \subseteq Nat /\ docs[p] \subseteq Docs /\ docs[p] # {}
  <2>1. docs[p] \in SUBSET Docs /\ docs[p] # {}
    BY DEF TypeInv, TypeOK
  <2>2. Docs \subseteq Nat
    BY DEF Docs
  <2> QED
    BY <2>1, <2>2
<1> DEFINE Less == {s \in Nat \X Nat : s[1] < s[2]}
<1>2. IsWellFoundedOn(Less, Nat)
  BY NatLessThanWellFounded DEF OpToRel
<1>3. PICK d \in docs[p] : \A e \in docs[p] : ~ (<<e, d>> \in Less)
  BY <1>1, <1>2, WFMin
<1>4. \A e \in docs[p] : d <= e
  <2> SUFFICES ASSUME NEW e \in docs[p], ~ (d <= e) PROVE FALSE
    OBVIOUS
  <2>1. <<e, d>> \in Nat \X Nat /\ e < d
    BY <1>1
  <2>2. <<e, d>> \in Less
    BY <2>1
  <2> QED
    BY <1>3, <2>2
<1>5. MatchDoc(p) \in docs[p]
  BY <1>4 DEF MatchDoc
<1> QED
  BY <1>1, <1>5

(* One more message under a document.                                      *)
LEMMA StoredTypes ==
  ASSUME TypeInv, NEW p \in Partners, NEW m \in Texts,
         stored' = [stored EXCEPT ![p][MatchDoc(p)] = Append(@, m)]
  PROVE  stored' \in [Partners -> [Docs -> Seq(Texts)]]
<1>1. MatchDoc(p) \in Docs /\ stored \in [Partners -> [Docs -> Seq(Texts)]]
  BY MatchDocExists DEF TypeInv, TypeOK
<1>2. Append(stored[p][MatchDoc(p)], m) \in Seq(Texts)
  BY <1>1
<1> QED
  BY <1>1, <1>2

LEMMA ReceivedTypes ==
  ASSUME TypeInv, NEW w, NEW ms \in Seq(Texts), Received(w, ms),
         w \in Views \union {NoOne}
  PROVE  messages' \in [Views -> Seq(Texts)]
<1>1. CASE UNCHANGED messages
  BY <1>1 DEF TypeInv, TypeOK
<1>2. CASE w \in Views /\ messages' = [messages EXCEPT ![w] = @ \o ms]
  <2>1. messages[w] \o ms \in Seq(Texts)
    BY <1>2 DEF TypeInv, TypeOK
  <2> QED
    BY <1>2, <2>1 DEF TypeInv, TypeOK
<1> QED
  BY <1>1, <1>2 DEF Received

(* What a callback of the listener of v is about.                          *)
LEMMA SnapshotOf ==
  ASSUME TypeInv, NEW v \in Views, v \in active
  PROVE  /\ partner[v] \in Partners /\ source[v] \in Docs
         /\ stored[partner[v]][source[v]] \in Seq(Texts)
         /\ seen[v] \in Nat
BY DEF TypeInv, TypeOK, Docs

LEMMA ViewsKeepTypes ==
  ASSUME TypeInv, NEW v \in Views, User(v) \/ Reply(v) \/ Snapshot(v) \/ ListenerFails(v)
  PROVE  TypeInv'
<1> USE DEF api, views, listeners, database
<1>1. ASSUME NEW p \in Partners \union {NoOne}, Open(v, p) PROVE TypeInv'
  BY <1>1 DEF Open, TypeInv, TypeOK, Chain, Loading
<1>2. CASE Back(v)
  BY <1>2 DEF Back, StopGettingMessages, TypeInv, TypeOK
<1>3. CASE Send(v)
  <2>1. sent + 1 \in Texts /\ sent + 1 \in 0 .. MaxMessages
    BY <1>3, BoundsAssumption DEF Send, TypeInv, TypeOK, Texts
  <2>2. [text |-> sent + 1, to |-> partner[v]] \in [text : Texts, to : Partners]
    BY <1>3, <2>1 DEF Send, TypeInv, TypeOK
  <2> QED
    BY <1>3, <2>1, <2>2 DEF Send, TypeInv, TypeOK
<1>4. ASSUME NEW ok \in BOOLEAN, ProfileArrives(v, ok) PROVE TypeInv'
  BY <1>4 DEF ProfileArrives, TypeInv, TypeOK, Chain, Loading
<1>5. CASE ProfileNeverArrives(v) \/ MatchDocFails(v)
  BY <1>5 DEF ProfileNeverArrives, MatchDocFails, TypeInv, TypeOK, Chain, Loading
<1>6. CASE ListenerAdded(v)
  <2>1. partner[v] \in Partners /\ MatchDoc(partner[v]) \in Docs
    BY <1>6, MatchDocExists DEF ListenerAdded, TypeInv, TypeOK, Loading
  <2> QED
    BY <1>6, <2>1 DEF ListenerAdded, TypeInv, TypeOK, Chain
<1>7. CASE Snapshot(v)
  <2> DEFINE all == stored[partner[v]][source[v]]
  <2>1. all \in Seq(Texts) /\ seen[v] \in Nat
    BY <1>7, SnapshotOf DEF Snapshot
  <2>2. SubSeq(all, seen[v] + 1, Len(all)) \in Seq(Texts) /\ Len(all) \in Nat
    BY <2>1
  <2>3. messages' \in [Views -> Seq(Texts)]
    BY <1>7, <2>2, ReceivedTypes DEF Snapshot, TypeInv, TypeOK
  <2> QED
    BY <1>7, <2>2, <2>3 DEF Snapshot, TypeInv, TypeOK
<1>8. CASE ListenerFails(v)
  BY <1>8 DEF ListenerFails, TypeInv, TypeOK
<1> QED
  BY <1>1, <1>2, <1>3, <1>4, <1>5, <1>6, <1>7, <1>8 DEF User, Reply

(* The strengthening of TypeOK, whether or not the user waits.             *)
THEOREM Types == Spec => []TypeInv
<1>1. Init => TypeInv
  BY DEF Init, TypeInv, TypeOK, Chain, Loading
<1>2. TypeInv /\ [Next]_vars => TypeInv'
  <2> SUFFICES ASSUME TypeInv, [Next]_vars PROVE TypeInv'
    OBVIOUS
  <2> USE DEF api, views, listeners, database
  <2>1. ASSUME NEW s \in sending, SendWritten(s) PROVE TypeInv'
    <3>1. s.to \in Partners /\ s.text \in Texts
      BY DEF TypeInv, TypeOK
    <3>2. stored' \in [Partners -> [Docs -> Seq(Texts)]]
      BY <2>1, <3>1, StoredTypes DEF SendWritten
    <3> QED
      BY <2>1, <3>2 DEF SendWritten, TypeInv, TypeOK
  <2>2. ASSUME NEW s \in sending, SendFails(s) PROVE TypeInv'
    BY <2>2 DEF SendFails, TypeInv, TypeOK
  <2>3. ASSUME NEW p \in Partners, PartnerSends(p) PROVE TypeInv'
    <3>1. sent + 1 \in Texts /\ sent + 1 \in 0 .. MaxMessages
      BY <2>3, BoundsAssumption DEF PartnerSends, TypeInv, TypeOK, Texts
    <3>2. stored' \in [Partners -> [Docs -> Seq(Texts)]]
      BY <2>3, <3>1, StoredTypes DEF PartnerSends
    <3> QED
      BY <2>3, <3>1, <3>2 DEF PartnerSends, TypeInv, TypeOK
  <2>4. ASSUME NEW p \in Partners, NEW d \in Docs, MatchedAgain(p, d) PROVE TypeInv'
    BY <2>4 DEF MatchedAgain, TypeInv, TypeOK
  <2>5. CASE UNCHANGED vars
    BY <2>5 DEF vars, TypeInv, TypeOK
  <2> QED
    BY <2>1, <2>2, <2>3, <2>4, <2>5, ViewsKeepTypes DEF Next
<1> QED
  BY <1>1, <1>2, PTL DEF Spec

(* The variables keep their types.                                         *)
THEOREM TypeCorrect == Spec => []TypeOK
<1>1. TypeInv => TypeOK
  BY DEF TypeInv
<1> QED
  BY <1>1, Types, PTL

-----------------------------------------------------------------------------
(* Every message is stored once, under one document, or about to be.       *)
Under(p, d) == stored[p][d]

TextsOnce ==
    /\ \A p \in Partners, d \in Docs : \A i, j \in 1 .. Len(Under(p, d)) :
         Under(p, d)[i] = Under(p, d)[j] => i = j
    /\ \A p \in Partners, d \in Docs : \A i \in 1 .. Len(Under(p, d)) :
         /\ Under(p, d)[i] <= sent
         /\ \A s \in sending : s.text # Under(p, d)[i]
    /\ \A s, t \in sending : s.text = t.text => s = t
    /\ \A s \in sending : s.text <= sent

(* A view shows the first messages of its document, as many as its         *)
(* listener has handed out, or none without the user's own profile.        *)
ShowsFirst(v) ==
    IF chain[v] = "listening"
      THEN LET all == Under(partner[v], source[v])
           IN  /\ seen[v] <= Len(all)
               /\ Len(messages[v]) = IF myProfile[v] THEN seen[v] ELSE 0
               /\ \A i \in 1 .. Len(messages[v]) : messages[v][i] = all[i]
      ELSE seen[v] = 0 /\ messages[v] = <<>>

MessagesInv ==
    /\ TextsOnce
    /\ \A v \in Views : ShowsFirst(v)
    /\ onScreen # NoOne => delegate = onScreen

(* A new message goes to the end of one document, and to no other one.     *)
AtTheEnd(old, new, m) ==
    /\ old \in Seq(Texts) /\ new \in Seq(Texts)
    /\ Len(old) \in Nat
    /\ \A i \in 1 .. Len(old) : new[i] = old[i]
    /\ new = old \/ (Len(new) = Len(old) + 1 /\ new[Len(old) + 1] = m)

LEMMA StoredAtTheEnd ==
  ASSUME TypeInv, NEW p \in Partners, NEW m \in Texts,
         stored' = [stored EXCEPT ![p][MatchDoc(p)] = Append(@, m)]
  PROVE  \A q \in Partners, d \in Docs : AtTheEnd(stored[q][d], stored'[q][d], m)
<1>1. MatchDoc(p) \in Docs /\ stored \in [Partners -> [Docs -> Seq(Texts)]]
  BY MatchDocExists DEF TypeInv, TypeOK
<1>2. SUFFICES ASSUME NEW q \in Partners, NEW d \in Docs
               PROVE  AtTheEnd(stored[q][d], stored'[q][d], m)
  OBVIOUS
<1>3. stored[q][d] \in Seq(Texts)
  BY <1>1
<1>4. stored'[q][d] = IF q = p /\ d = MatchDoc(p) THEN Append(stored[q][d], m)
                                                  ELSE stored[q][d]
  BY <1>1
<1> QED
  BY <1>3, <1>4 DEF AtTheEnd

(* Storing a message that was stored nowhere and is not about to be.       *)
LEMMA StoringKeepsMessages ==
  ASSUME TypeInv, MessagesInv, NEW p \in Partners, NEW m \in Texts,
         stored' = [stored EXCEPT ![p][MatchDoc(p)] = Append(@, m)],
         m <= sent', sent <= sent', sent' \in Nat,
         sending' \subseteq sending, \A s \in sending' : s.text # m,
         \A q \in Partners, d \in Docs : \A i \in 1 .. Len(Under(q, d)) :
             Under(q, d)[i] # m,
         UNCHANGED <<api, views, listeners>>
  PROVE  MessagesInv'
<1>0. \A q \in Partners, d \in Docs : AtTheEnd(stored[q][d], stored'[q][d], m)
  BY StoredAtTheEnd
<1>1. TextsOnce'
  <2>1. ASSUME NEW q \in Partners, NEW d \in Docs, NEW i \in 1 .. Len(Under(q, d)')
        PROVE  /\ \/ i \in 1 .. Len(Under(q, d)) /\ Under(q, d)'[i] = Under(q, d)[i]
                  \/ i = Len(Under(q, d)) + 1 /\ Under(q, d)'[i] = m
               /\ Under(q, d)'[i] <= sent'
               /\ \A s \in sending' : s.text # Under(q, d)'[i]
    <3>0. AtTheEnd(Under(q, d), Under(q, d)', m)
      BY <1>0 DEF Under
    <3>1. \/ i \in 1 .. Len(Under(q, d)) /\ Under(q, d)'[i] = Under(q, d)[i]
          \/ i = Len(Under(q, d)) + 1 /\ Under(q, d)'[i] = m
      BY <3>0 DEF AtTheEnd
    <3>2. CASE i \in 1 .. Len(Under(q, d)) /\ Under(q, d)'[i] = Under(q, d)[i]
      <4>1. Under(q, d)[i] \in Nat /\ Under(q, d)[i] <= sent /\ sent \in Nat
        <5>1. Under(q, d)[i] \in Texts
          BY <3>0, <3>2 DEF AtTheEnd
        <5>2. sent \in Nat /\ Texts \subseteq Nat
          BY DEF TypeInv, TypeOK, Texts
        <5> QED
          BY <3>2, <5>1, <5>2 DEF MessagesInv, TextsOnce
      <4> QED
        BY <3>2, <4>1 DEF MessagesInv, TextsOnce
    <3> QED
      BY <3>1, <3>2
  <2>2. ASSUME NEW q \in Partners, NEW d \in Docs, NEW i \in 1 .. Len(Under(q, d)'),
               NEW j \in 1 .. Len(Under(q, d)'), Under(q, d)'[i] = Under(q, d)'[j]
        PROVE  i = j
    BY <2>1, <2>2 DEF MessagesInv, TextsOnce
  <2>3. \A s \in sending' : s.text <= sent'
    <3>1. \A s \in sending : s.text \in Nat /\ s.text <= sent /\ sent \in Nat
      BY DEF MessagesInv, TextsOnce, TypeInv, TypeOK, Texts
    <3> QED
      BY <3>1
  <2> QED
    BY <2>1, <2>2, <2>3 DEF MessagesInv, TextsOnce
<1>2. ASSUME NEW v \in Views PROVE ShowsFirst(v)'
  <2>1. UNCHANGED <<chain, partner, source, seen, messages, myProfile>>
    BY DEF views, listeners
  <2>2. CASE chain[v] # "listening"
    BY <2>1, <2>2 DEF MessagesInv, ShowsFirst
  <2>3. CASE chain[v] = "listening"
    <3>1. partner[v] \in Partners /\ source[v] \in Docs
      BY <2>3 DEF TypeInv, TypeOK, Loading
    <3> DEFINE all == Under(partner[v], source[v])
    <3>2. /\ all \in Seq(Texts) /\ Len(all') \in Nat /\ Len(all) <= Len(all')
          /\ \A i \in 1 .. Len(all) : all'[i] = all[i]
      <4>1. AtTheEnd(all, all', m)
        BY <1>0, <2>1, <3>1 DEF Under
      <4> QED
        BY <4>1 DEF AtTheEnd
    <3>3. /\ seen[v] <= Len(all) /\ seen[v] \in Nat
          /\ Len(messages[v]) = IF myProfile[v] THEN seen[v] ELSE 0
          /\ \A i \in 1 .. Len(messages[v]) : messages[v][i] = all[i]
      BY <2>3 DEF MessagesInv, ShowsFirst, TypeInv, TypeOK
    <3>4. \A i \in 1 .. Len(messages[v]) : i \in 1 .. Len(all)
      BY <3>2, <3>3
    <3> QED
      BY <2>1, <2>3, <3>2, <3>3, <3>4 DEF ShowsFirst
  <2> QED
    BY <2>2, <2>3
<1> QED
  BY <1>1, <1>2 DEF MessagesInv, api, views

(* A view none of whose variables change, while nothing is stored.         *)
LEMMA OtherViewsShow ==
  ASSUME NEW v \in Views, ShowsFirst(v), UNCHANGED stored,
         UNCHANGED <<chain[v], partner[v], source[v], seen[v], messages[v], myProfile[v]>>
  PROVE  ShowsFirst(v)'
BY DEF ShowsFirst, Under

(* While nothing is stored or sent, the texts stay as they are.            *)
LEMMA TextsStay ==
  ASSUME TextsOnce, UNCHANGED <<stored, sent>>, sending' \subseteq sending
  PROVE  TextsOnce'
BY DEF TextsOnce, Under

(* Appending the rest of a sequence to its beginning.                      *)
LEMMA Continued ==
  ASSUME NEW all \in Seq(Texts), NEW shown \in Seq(Texts), NEW longer,
         Len(shown) <= Len(all), \A i \in 1 .. Len(shown) : shown[i] = all[i],
         longer = shown \o SubSeq(all, Len(shown) + 1, Len(all))
  PROVE  Len(longer) = Len(all) /\ \A i \in 1 .. Len(all) : longer[i] = all[i]
<1> DEFINE rest == SubSeq(all, Len(shown) + 1, Len(all))
<1>1. Len(all) \in Nat /\ Len(shown) \in Nat
  OBVIOUS
<1>2. /\ rest \in Seq(Texts) /\ Len(rest) = Len(all) - Len(shown)
      /\ \A i \in 1 .. Len(rest) : rest[i] = all[Len(shown) + i]
  BY <1>1
<1> HIDE DEF rest
<1>3. /\ Len(shown \o rest) = Len(shown) + Len(rest)
      /\ \A i \in 1 .. Len(shown) + Len(rest) :
           (shown \o rest)[i] = IF i <= Len(shown) THEN shown[i] ELSE rest[i - Len(shown)]
  BY <1>2, ConcatProperties
<1>4. longer = shown \o rest /\ Len(shown) + Len(rest) = Len(all)
  BY <1>1, <1>2 DEF rest
<1>5. ASSUME NEW i \in 1 .. Len(all) PROVE longer[i] = all[i]
  <2>1. CASE i <= Len(shown)
    BY <2>1, <1>1, <1>3, <1>4
  <2>2. CASE ~ (i <= Len(shown))
    <3>1. i - Len(shown) \in 1 .. Len(rest) /\ Len(shown) + (i - Len(shown)) = i
      BY <2>2, <1>1, <1>2
    <3> QED
      BY <2>2, <3>1, <1>2, <1>3, <1>4
  <2> QED
    BY <2>1, <2>2
<1> QED
  BY <1>3, <1>4, <1>5

(* The callback of the listener in front: what follows what is shown.      *)
LEMMA SnapshotKeepsMessages ==
  ASSUME IInv, TypeInv, MessagesInv, NEW v \in Views, Snapshot(v)
  PROVE  MessagesInv'
<1>1. delegate = v /\ chain[v] = "listening" /\ partner[v] # NoOne
  BY DEF Snapshot, IInv, OneListener, ListensInFront, MessagesInv
<1> DEFINE all == Under(partner[v], source[v])
           new == SubSeq(all, seen[v] + 1, Len(all))
<1>2. /\ all \in Seq(Texts) /\ seen[v] \in Nat /\ seen[v] < Len(all)
      /\ seen' = [seen EXCEPT ![v] = Len(all)]
      /\ Received(v, new)
      /\ UNCHANGED <<api, onScreen, partner, chain, myProfile, active, source, database>>
  BY <1>1, SnapshotOf DEF Snapshot, Under
<1>3. /\ seen[v] <= Len(all)
      /\ messages[v] \in Seq(Texts)
      /\ Len(messages[v]) = IF myProfile[v] THEN seen[v] ELSE 0
      /\ \A i \in 1 .. Len(messages[v]) : messages[v][i] = all[i]
  BY <1>1 DEF MessagesInv, ShowsFirst, TypeInv, TypeOK
<1>4. v # NoOne
  BY DEF Views
<1>5. /\ Len(messages'[v]) = IF myProfile[v] THEN Len(all) ELSE 0
      /\ \A i \in 1 .. Len(messages'[v]) : messages'[v][i] = all[i]
  <2> HIDE DEF all
  <2>1. CASE ~ myProfile[v]
    BY <2>1, <1>2, <1>3 DEF Received
  <2>2. CASE myProfile[v]
    <3>1. messages'[v] = messages[v] \o new
      BY <2>2, <1>1, <1>2, <1>4 DEF Received, TypeInv, TypeOK
    <3>2. /\ Len(messages[v]) = seen[v] /\ Len(messages[v]) <= Len(all)
          /\ \A i \in 1 .. Len(messages[v]) : messages[v][i] = all[i]
      BY <2>2, <1>3
    <3>3. messages'[v] = messages[v] \o SubSeq(all, Len(messages[v]) + 1, Len(all))
      BY <3>1, <3>2
    <3> HIDE DEF new
    <3>4. /\ Len(messages'[v]) = Len(all)
          /\ \A i \in 1 .. Len(all) : messages'[v][i] = all[i]
      <4>1. PICK shown \in Seq(Texts), whole \in Seq(Texts) :
              shown = messages[v] /\ whole = all
        BY <1>2, <1>3
      <4>2. /\ Len(shown) <= Len(whole) /\ \A i \in 1 .. Len(shown) : shown[i] = whole[i]
            /\ messages'[v] = shown \o SubSeq(whole, Len(shown) + 1, Len(whole))
        BY <3>2, <3>3, <4>1
      <4>3. /\ Len(messages'[v]) = Len(whole)
            /\ \A i \in 1 .. Len(whole) : messages'[v][i] = whole[i]
        BY <4>2, Continued, Zenon
      <4> QED
        BY <4>1, <4>3
    <3> QED
      BY <2>2, <3>4
  <2> QED
    BY <2>1, <2>2
<1>6. ShowsFirst(v)'
  <2>1. /\ Under(partner[v], source[v])' = all /\ seen'[v] = Len(all) /\ Len(all) \in Nat
        /\ chain'[v] = "listening" /\ myProfile'[v] = myProfile[v]
    BY <1>1, <1>2 DEF Under, database, TypeInv, TypeOK
  <2> HIDE DEF all
  <2> QED
    BY <1>5, <2>1 DEF ShowsFirst
<1>7. ASSUME NEW w \in Views, w # v PROVE ShowsFirst(w)'
  <2>1. messages'[w] = messages[w] /\ seen'[w] = seen[w]
    BY <1>2, <1>7 DEF Received, TypeInv, TypeOK
  <2> QED
    BY <1>2, <2>1, OtherViewsShow DEF MessagesInv, database
<1> QED
  BY <1>2, <1>6, <1>7, TextsStay DEF MessagesInv, database, api

(* Opening a view: it shows nothing yet, and becomes the delegate.         *)
LEMMA OpenKeepsMessages ==
  ASSUME TypeInv, MessagesInv, NEW v \in Views, NEW p \in Partners \union {NoOne},
         Open(v, p)
  PROVE  MessagesInv'
<1>1. TextsOnce'
  BY TextsStay DEF MessagesInv, Open, database
<1>2. ASSUME NEW w \in Views PROVE ShowsFirst(w)'
  <2>1. CASE w # v
    BY <2>1, OtherViewsShow DEF MessagesInv, Open, TypeInv, TypeOK, listeners, database
  <2>2. CASE w = v
    <3>1. seen[v] = 0 /\ messages[v] = <<>>
      BY DEF MessagesInv, ShowsFirst, Open
    <3>2. chain'[v] # "listening" /\ seen'[v] = 0 /\ messages'[v] = <<>>
      BY <3>1 DEF Open, TypeInv, TypeOK, listeners
    <3> QED
      BY <2>2, <3>2 DEF ShowsFirst
  <2> QED
    BY <2>1, <2>2
<1> QED
  BY <1>1, <1>2 DEF MessagesInv, Open

(* The replies to the chain of v: it has shown nothing before the listener *)
(* is added, and shows nothing at that moment.                             *)
LEMMA ReplyKeepsMessages ==
  ASSUME TypeInv, MessagesInv, NEW v \in Views, Reply(v)
  PROVE  MessagesInv'
<1>1. /\ chain[v] \in Loading
      /\ UNCHANGED <<delegate, onScreen, partner, messages, seen, database>>
      /\ \A w \in Views \ {v} : UNCHANGED <<chain[w], source[w], myProfile[w]>>
  BY DEF Reply, ProfileArrives, ProfileNeverArrives, ListenerAdded, MatchDocFails, Loading,
         TypeInv, TypeOK, api, listeners, database
<1>2. seen[v] = 0 /\ messages[v] = <<>>
  BY <1>1 DEF MessagesInv, ShowsFirst, Loading
<1>3. TextsOnce'
  BY <1>1, TextsStay DEF MessagesInv, database
<1>4. ASSUME NEW w \in Views, w # v PROVE ShowsFirst(w)'
  BY <1>1, <1>4, OtherViewsShow DEF MessagesInv, database
<1>5. ShowsFirst(v)'
  <2>1. CASE chain'[v] # "listening"
    BY <1>1, <1>2, <2>1 DEF ShowsFirst
  <2>2. CASE chain'[v] = "listening"
    <3>1. partner'[v] \in Partners /\ source'[v] \in Docs
      BY <2>2, ViewsKeepTypes DEF TypeInv, TypeOK
    <3>2. Under(partner[v], source[v])' \in Seq(Texts)
      BY <1>1, <3>1 DEF Under, database, TypeInv, TypeOK
    <3>3. Len(Under(partner[v], source[v])') \in Nat
      BY <3>2
    <3>4. seen'[v] = 0 /\ messages'[v] = <<>> /\ Len(<<>>) = 0
      BY <1>1, <1>2
    <3>5. /\ 0 <= Len(Under(partner[v], source[v])')
          /\ Len(messages'[v]) = IF myProfile'[v] THEN seen'[v] ELSE 0
          /\ \A i \in 1 .. Len(messages'[v]) :
               messages'[v][i] = Under(partner[v], source[v])'[i]
      BY <3>3, <3>4
    <3> QED
      BY <2>2, <3>4, <3>5 DEF ShowsFirst
  <2> QED
    BY <2>1, <2>2
<1> QED
  BY <1>1, <1>3, <1>4, <1>5 DEF MessagesInv

(* Going back changes nothing that is shown, and leaves no view in front.  *)
LEMMA BackKeepsMessages ==
  ASSUME MessagesInv, NEW v \in Views, Back(v)
  PROVE  MessagesInv'
<1>1. TextsOnce'
  BY TextsStay DEF MessagesInv, Back, database
<1>2. ASSUME NEW w \in Views PROVE ShowsFirst(w)'
  BY OtherViewsShow DEF MessagesInv, Back, database
<1> QED
  BY <1>1, <1>2 DEF MessagesInv, Back

(* Sending gives the message a text that nobody has used.                  *)
LEMMA SendKeepsMessages ==
  ASSUME TypeInv, MessagesInv, NEW v \in Views, Send(v)
  PROVE  MessagesInv'
<1>1. /\ sent \in Nat /\ sent' = sent + 1 /\ UNCHANGED <<api, views, listeners, stored>>
      /\ sending' = sending \union {[text |-> sent + 1, to |-> partner[v]]}
  BY DEF Send, TypeInv, TypeOK
<1>2. \A s \in sending : s.text \in Nat /\ s.text <= sent
  BY DEF MessagesInv, TextsOnce, TypeInv, TypeOK, Texts
<1>3. \A p \in Partners, d \in Docs : \A i \in 1 .. Len(Under(p, d)) :
        Under(p, d)[i] \in Nat /\ Under(p, d)[i] <= sent
  <2> SUFFICES ASSUME NEW p \in Partners, NEW d \in Docs, NEW i \in 1 .. Len(Under(p, d))
               PROVE  Under(p, d)[i] \in Nat /\ Under(p, d)[i] <= sent
    OBVIOUS
  <2>1. Under(p, d) \in Seq(Texts)
    BY DEF Under, TypeInv, TypeOK
  <2>2. Under(p, d)[i] \in Texts
    BY <2>1
  <2> QED
    BY <2>2 DEF Texts, MessagesInv, TextsOnce
<1>4. TextsOnce'
  <2>1. \A p, d : Under(p, d)' = Under(p, d)
    BY <1>1 DEF Under
  <2>2. /\ \A p \in Partners, d \in Docs : \A i, j \in 1 .. Len(Under(p, d)') :
             Under(p, d)'[i] = Under(p, d)'[j] => i = j
        /\ \A p \in Partners, d \in Docs : \A i \in 1 .. Len(Under(p, d)') :
             Under(p, d)'[i] <= sent'
    BY <1>1, <1>3, <2>1 DEF MessagesInv, TextsOnce
  <2>3. \A p \in Partners, d \in Docs : \A i \in 1 .. Len(Under(p, d)') :
          \A s \in sending' : s.text # Under(p, d)'[i]
    BY <1>1, <1>3, <2>1 DEF MessagesInv, TextsOnce
  <2>4. /\ \A s, t \in sending' : s.text = t.text => s = t
        /\ \A s \in sending' : s.text <= sent'
    BY <1>1, <1>2 DEF MessagesInv, TextsOnce
  <2> QED
    BY <2>2, <2>3, <2>4 DEF TextsOnce
<1>5. ASSUME NEW w \in Views PROVE ShowsFirst(w)'
  BY <1>1, OtherViewsShow DEF MessagesInv, views, listeners
<1> QED
  BY <1>1, <1>4, <1>5 DEF MessagesInv, api, views

(* A message that was being sent is stored, under the first document.      *)
LEMMA SendWrittenKeepsMessages ==
  ASSUME TypeInv, MessagesInv, NEW s \in sending, SendWritten(s)
  PROVE  MessagesInv'
<1>1. s.to \in Partners /\ s.text \in Texts /\ sent \in Nat
  BY DEF TypeInv, TypeOK
<1>2. s.text <= sent /\ \A t \in sending' : t \in sending /\ t.text # s.text
  BY DEF SendWritten, MessagesInv, TextsOnce
<1>3. \A q \in Partners, d \in Docs : \A i \in 1 .. Len(Under(q, d)) :
        Under(q, d)[i] # s.text
  BY DEF MessagesInv, TextsOnce
<1>4. sent' = sent /\ sent <= sent' /\ sending' \subseteq sending
  BY <1>1 DEF SendWritten
<1> QED
  BY <1>1, <1>2, <1>3, <1>4, StoringKeepsMessages DEF SendWritten

(* The partner's message has a new text too.                               *)
LEMMA PartnerSendsKeepsMessages ==
  ASSUME TypeInv, MessagesInv, NEW p \in Partners, PartnerSends(p)
  PROVE  MessagesInv'
<1>1. /\ sent + 1 \in Texts /\ sent \in Nat /\ sent' = sent + 1 /\ sending' = sending
      /\ \A s \in sending : s.text \in Nat
  BY BoundsAssumption DEF PartnerSends, TypeInv, TypeOK, Texts
<1>2. \A s \in sending' : s.text # sent + 1
  BY <1>1 DEF MessagesInv, TextsOnce
<1>3. \A q \in Partners, d \in Docs : \A i \in 1 .. Len(Under(q, d)) :
        Under(q, d)[i] # sent + 1
  <2> SUFFICES ASSUME NEW q \in Partners, NEW d \in Docs, NEW i \in 1 .. Len(Under(q, d))
               PROVE  Under(q, d)[i] # sent + 1
    OBVIOUS
  <2>1. Under(q, d) \in Seq(Texts)
    BY DEF Under, TypeInv, TypeOK
  <2>2. Under(q, d)[i] \in Texts
    BY <2>1
  <2> QED
    BY <1>1, <2>2 DEF Texts, MessagesInv, TextsOnce
<1>4. sent + 1 <= sent' /\ sent <= sent' /\ sent' \in Nat /\ sending' \subseteq sending
  BY <1>1
<1> QED
  BY <1>1, <1>2, <1>3, <1>4, StoringKeepsMessages DEF PartnerSends

(* With a user who waits, a view shows the messages of its document from   *)
(* the first one on, each once, in the order in which they were stored.    *)
THEOREM MessagesAreInOrder ==
  ASSUME BackWaits
  PROVE  Spec => []MessagesInv
<1>1. Init => MessagesInv
  BY DEF Init, MessagesInv, TextsOnce, ShowsFirst, Under
<1>2. IInv /\ TypeInv /\ MessagesInv /\ [Next]_vars => MessagesInv'
  <2> SUFFICES ASSUME IInv, TypeInv, MessagesInv, [Next]_vars PROVE MessagesInv'
    OBVIOUS
  <2>1. UNCHANGED <<api, views, source, seen, stored, sent>> /\ sending' \subseteq sending
          => MessagesInv'
    BY OtherViewsShow, TextsStay DEF MessagesInv, api, views
  <2>2. ASSUME NEW v \in Views, User(v) PROVE MessagesInv'
    BY <2>2, OpenKeepsMessages, BackKeepsMessages, SendKeepsMessages DEF User
  <2>3. ASSUME NEW s \in sending, SendFails(s) PROVE MessagesInv'
    BY <2>1, <2>3 DEF SendFails, listeners
  <2>4. ASSUME NEW p \in Partners, NEW d \in Docs, MatchedAgain(p, d) PROVE MessagesInv'
    BY <2>1, <2>4 DEF MatchedAgain, listeners
  <2>5. CASE UNCHANGED vars
    BY <2>1, <2>5 DEF vars, database, listeners
  <2>6. ASSUME NEW v \in Views, ListenerFails(v) PROVE MessagesInv'
    BY <2>1, <2>6 DEF ListenerFails, database
  <2> QED
    BY <2>2, <2>3, <2>4, <2>5, <2>6, ReplyKeepsMessages, SnapshotKeepsMessages,
       SendWrittenKeepsMessages, PartnerSendsKeepsMessages DEF Next
<1> QED
  BY <1>1, <1>2, Invariant, Types, PTL DEF Spec

(* So no view shows a message twice, ...                                   *)
THEOREM NothingIsShownTwice ==
  ASSUME BackWaits
  PROVE  Spec => []ShownOnce
<1>1. TypeInv /\ MessagesInv => ShownOnce
  <2> SUFFICES ASSUME TypeInv, MessagesInv, NEW v \in Views PROVE IsInjective(messages[v])
    BY DEF ShownOnce
  <2>1. messages[v] \in Seq(Texts) /\ DOMAIN messages[v] = 1 .. Len(messages[v])
    BY DEF TypeInv, TypeOK
  <2>2. CASE chain[v] # "listening"
    <3>1. messages[v] = <<>>
      BY <2>2 DEF MessagesInv, ShowsFirst
    <3> QED
      BY <3>1 DEF IsInjective
  <2>3. CASE chain[v] = "listening"
    <3> DEFINE all == Under(partner[v], source[v])
    <3>1. partner[v] \in Partners /\ source[v] \in Docs
      BY <2>3 DEF TypeInv, TypeOK, Loading
    <3>2. \A i, j \in 1 .. Len(all) : all[i] = all[j] => i = j
      BY <3>1 DEF MessagesInv, TextsOnce
    <3>3. /\ seen[v] <= Len(all) /\ Len(messages[v]) = IF myProfile[v] THEN seen[v] ELSE 0
          /\ \A i \in 1 .. Len(messages[v]) : messages[v][i] = all[i]
      BY <2>3 DEF MessagesInv, ShowsFirst
    <3>4. all \in Seq(Texts)
      BY <3>1 DEF Under, TypeInv, TypeOK
    <3>5. Len(all) \in Nat /\ seen[v] \in Nat
      BY <3>4 DEF TypeInv, TypeOK
    <3> HIDE DEF all
    <3>6. \A i \in 1 .. Len(messages[v]) : i \in 1 .. Len(all)
      BY <3>3, <3>5
    <3>7. \A i, j \in 1 .. Len(messages[v]) : messages[v][i] = messages[v][j] => i = j
      BY <3>2, <3>3, <3>6
    <3> QED
      BY <2>1, <3>7 DEF IsInjective
  <2> QED
    BY <2>2, <2>3
<1> QED
  BY <1>1, MessagesAreInOrder, Types, PTL

(* ... and all it shows are messages of its own conversation.              *)
THEOREM ConversationsStayApart ==
  ASSUME BackWaits
  PROVE  Spec => []OnlyPartnerMessages
<1>1. TypeInv /\ MessagesInv => OnlyPartnerMessages
  <2> SUFFICES ASSUME TypeInv, MessagesInv, NEW v \in Views, NEW m \in ToSet(messages[v])
               PROVE  partner[v] # NoOne /\ \E d \in Docs : m \in ToSet(stored[partner[v]][d])
    BY DEF OnlyPartnerMessages
  <2>1. messages[v] \in Seq(Texts) /\ DOMAIN messages[v] = 1 .. Len(messages[v])
    BY DEF TypeInv, TypeOK
  <2>2. PICK i \in 1 .. Len(messages[v]) : messages[v][i] = m
    BY <2>1 DEF ToSet
  <2>3. chain[v] = "listening"
    BY <2>2 DEF MessagesInv, ShowsFirst
  <2> DEFINE all == Under(partner[v], source[v])
  <2>4. partner[v] \in Partners /\ partner[v] # NoOne /\ source[v] \in Docs
    BY <2>3 DEF TypeInv, TypeOK, Loading
  <2>5. /\ seen[v] <= Len(all) /\ Len(messages[v]) = IF myProfile[v] THEN seen[v] ELSE 0
        /\ messages[v][i] = all[i]
    BY <2>2, <2>3 DEF MessagesInv, ShowsFirst
  <2>6. all \in Seq(Texts) /\ all = stored[partner[v]][source[v]]
    BY <2>4 DEF Under, TypeInv, TypeOK
  <2>7. Len(all) \in Nat /\ DOMAIN all = 1 .. Len(all) /\ seen[v] \in Nat
    BY <2>6 DEF TypeInv, TypeOK
  <2> HIDE DEF all
  <2>8. i \in DOMAIN all /\ all[i] = m
    BY <2>2, <2>5, <2>7
  <2>9. m \in ToSet(all)
    BY <2>8 DEF ToSet
  <2> QED
    BY <2>4, <2>6, <2>9
<1> QED
  BY <1>1, MessagesAreInOrder, Types, PTL
=============================================================================
