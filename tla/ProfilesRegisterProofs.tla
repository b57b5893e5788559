----------------------- MODULE ProfilesRegisterProofs ------------------------
(***************************************************************************)
(* Proofs about Profiles for a patient user, for any profiles, any number  *)
(* of calls under way, and with and without failing calls: every upload    *)
(* works on the profile that is stored, so that no way of changing a part  *)
(* of it undoes another, and Profiles implements ProfileRegister.          *)
(***************************************************************************)
EXTENDS ProfilesTypes, FiniteSetTheorems

(* Where a call may be under way while screen s is in front of user u: a   *)
(* profile is created on the pages, and it and a save are uploads from the *)
(* start.                                                                  *)
CallInPlace(c, s, u) ==
    /\ u \in Users /\ c.uid = u /\ c.by = u
    /\ s # "login"
    /\ c.for \in {"create", "save"} => c.stage \in Puts
    /\ c.for = "edit" => c.stage \in Gets
    /\ c.for = "create" => c.asked = Fields /\ s \in {"page1", "page2", "page3", "page4"}
    /\ c.for = "save" => (c.live <=> s = "edit")
    /\ c.for \in Rewrites => c.asked = {c.for} /\ (c.live => s = c.for)

(* Two calls under way at a time: the two chains of one press, or a chain  *)
(* and the edit screen that the other chain has led to.                    *)
Together(c, d) ==
    /\ c.for \in Rewrites \union {"edit"} /\ d.for \in Rewrites \union {"edit"}
    /\ c.for \in Rewrites /\ d.for \in Rewrites =>
         c.for = d.for /\ c.profile[c.for] = d.profile[c.for]

InPlace ==
    /\ ~ crashed
    /\ \A i \in Pending : CallInPlace(call[i], screen, currentUser)
    /\ \A i, j \in Pending : i # j => Together(call[i], call[j])

(* p is what the user takes for stored, w, but for the fields fs; after a  *)
(* refused upload, h, its picture may be another one.                      *)
Works(p, fs, w, h) ==
    /\ w # None
    /\ Agree(p, w, InfoFields \ fs)
    /\ "picture" \in fs \/ h \/ p.picture = w.picture

(* So does every upload; a chain whose screen has gone repeats what its    *)
(* twin has stored; and a picture that has been put is still there.        *)
CallWorks(c, w, h, picture) ==
    /\ c.stage \in Puts => c.profile.gender # Blank
    /\ c.stage \in Puts /\ c.for # "create" => Works(c.profile, c.asked, w, h)
    /\ c.for \in Rewrites /\ ~ c.live => w # None /\ w[c.for] = c.profile[c.for]
    /\ c.stage = "getDocument" /\ w # None => h \/ c.profile.picture = w.picture
    /\ c.stage = "setDocument" /\ "picture" \in c.asked => picture = c.profile.picture

CallsWork ==
    \A i \in Pending :
        CallWorks(call[i], wanted[currentUser], half[currentUser], pictures[currentUser])

(* So does the edit screen once it has loaded.                             *)
FormWorks ==
    loaded => /\ screen = "edit" /\ form.gender # Blank
              /\ Works(form, changed, wanted[currentUser], half[currentUser])

PuttingPicture(u) ==
    \E i \in Pending : /\ call[i].stage = "setDocument" /\ "picture" \in call[i].asked
                       /\ call[i].uid = u

StoreWorks(u) ==
    /\ documents[u] = IF wanted[u] = None THEN None ELSE Info(wanted[u])
    /\ wanted[u] # None => wanted[u].gender # Blank
    /\ \/ half[u]
       \/ PuttingPicture(u)
       \/ pictures[u] = IF wanted[u] = None THEN None ELSE wanted[u].picture

PInv == InPlace /\ CallsWork /\ FormWorks /\ \A u \in Users : StoreWorks(u)

-----------------------------------------------------------------------------
(* A place is free, or there is a call in it.                              *)
LEMMA CallIsNotIdle == ASSUME NEW c \in Call PROVE c # Idle /\ c.for # "nothing"
BY DEF Call, Idle, Uploads, Rewrites

LEMMA PendingCall ==
  ASSUME TypeInv, NEW i \in Calls
  PROVE  /\ i \in Pending => call[i] \in Call
         /\ i \notin Pending => call[i] = Idle
         /\ call[i].stage # "idle" => i \in Pending
BY IdleTyped DEF TypeInv, CallsTyped, CallTyped, Pending

(* Calls that a screen has left behind are the same but for live.          *)
LEMMA LeftSame ==
  ASSUME NEW calls, NEW i \in Calls, calls[i] \in Call
  PROVE  /\ Left(calls)[i] \in Call /\ Left(calls)[i].live = FALSE
         /\ \A f \in {"for", "stage", "uid", "by", "profile", "asked"} :
              Left(calls)[i][f] = calls[i][f]
<1>1. Left(calls)[i] = [calls[i] EXCEPT !.live = FALSE]
  BY CallIsNotIdle DEF Left
<1> QED
  BY <1>1 DEF Call

LEMMA LeftIdle ==
  ASSUME NEW calls, NEW i \in Calls, calls[i] = Idle
  PROVE  Left(calls)[i] = Idle
BY DEF Left

(* Calls that do not differ but for live are in place, and work, alike.    *)
LEMMA LeftWorks ==
  ASSUME TypeInv, NEW s, InPlace, CallsWork, call' = Left(call), screen' = s, ~ crashed',
         Pending # {} => s # "login" /\ s # "edit" /\ screen \notin Rewrites,
         screen \in {"page1", "page2", "page3", "page4"} =>
           Pending = {} \/ s \in {"page1", "page2", "page3", "page4"},
         UNCHANGED <<store, currentUser>> \/ Pending = {}
  PROVE  InPlace' /\ CallsWork'
<1>1. \A i \in Calls : i \in Pending' <=> i \in Pending
  <2> SUFFICES ASSUME NEW i \in Calls PROVE i \in Pending' <=> i \in Pending
    OBVIOUS
  <2>1. CASE i \in Pending
    BY <2>1, PendingCall, LeftSame, CallIsNotIdle DEF Pending
  <2>2. CASE i \notin Pending
    BY <2>2, PendingCall, LeftIdle DEF Pending
  <2> QED
    BY <2>1, <2>2
<1>2. Pending' = Pending
  BY <1>1 DEF Pending
<1>3. CASE Pending = {}
  BY <1>2, <1>3 DEF InPlace, CallsWork
<1>4. CASE Pending # {}
  <2>1. ASSUME NEW i \in Pending
        PROVE  /\ CallInPlace(call'[i], screen', currentUser')
               /\ CallWorks(call'[i], wanted'[currentUser'], half'[currentUser'],
                            pictures'[currentUser'])
    <3> DEFINE c == call[i]
               d == call'[i]
    <3>1. i \in Calls /\ c \in Call
      BY PendingCall DEF Pending
    <3>2. /\ d \in Call /\ d.live = FALSE /\ d.for = c.for /\ d.stage = c.stage
          /\ d.uid = c.uid /\ d.by = c.by /\ d.profile = c.profile /\ d.asked = c.asked
      BY <3>1, LeftSame
    <3>3. /\ CallInPlace(c, screen, currentUser)
          /\ CallWorks(c, wanted[currentUser], half[currentUser], pictures[currentUser])
          /\ UNCHANGED <<wanted, half, pictures, currentUser>>
      BY <1>4 DEF InPlace, CallsWork, store
    <3>4. c.for \in Rewrites => ~ c.live
      BY <1>4, <3>3 DEF CallInPlace
    <3> HIDE DEF c, d
    <3>5. CallInPlace(d, screen', currentUser')
      BY <1>4, <3>2, <3>3 DEF CallInPlace
    <3>6. CallWorks(d, wanted'[currentUser'], half'[currentUser'], pictures'[currentUser'])
      BY <3>2, <3>3, <3>4 DEF CallWorks
    <3> QED
      BY <3>5, <3>6 DEF c, d
  <2>2. ASSUME NEW i \in Pending, NEW j \in Pending, i # j
        PROVE  Together(call'[i], call'[j])
    <3>1. /\ i \in Calls /\ j \in Calls /\ call[i] \in Call /\ call[j] \in Call
          /\ Together(call[i], call[j])
      BY <2>2, PendingCall DEF Pending, InPlace
    <3>2. /\ call'[i].for = call[i].for /\ call'[i].profile = call[i].profile
          /\ call'[j].for = call[j].for /\ call'[j].profile = call[j].profile
      BY <3>1, LeftSame
    <3> QED
      BY <3>1, <3>2 DEF Together
  <2> QED
    BY <1>2, <2>1, <2>2 DEF InPlace, CallsWork
<1> QED
  BY <1>3, <1>4

(* The store stands while the pictures that have been put are waited for.  *)
LEMMA StoreStays ==
  ASSUME UNCHANGED store,
         \A i \in Pending : call[i].stage = "setDocument" =>
             /\ i \in Pending' /\ call'[i].stage = "setDocument"
             /\ call'[i].asked = call[i].asked /\ call'[i].uid = call[i].uid,
         \A u \in Users : StoreWorks(u)
  PROVE  (\A u \in Users : StoreWorks(u))'
<1> SUFFICES ASSUME NEW u \in Users PROVE StoreWorks(u)'
  OBVIOUS
<1>1. StoreWorks(u) /\ UNCHANGED <<documents, wanted, half, pictures>>
  BY DEF store
<1>2. PuttingPicture(u) => PuttingPicture(u)'
  BY DEF PuttingPicture
<1> QED
  BY <1>1, <1>2 DEF StoreWorks

(* Something changes on the page.                                          *)
LEMMA StayWorks ==
  ASSUME PInv, UNCHANGED <<store, call, crashed, screen, currentUser>>, FormWorks'
  PROVE  PInv'
<1>1. UNCHANGED <<wanted, half, pictures>> /\ Pending' = Pending
  BY DEF store, Pending
<1>2. InPlace'
  BY <1>1 DEF PInv, InPlace
<1>3. CallsWork'
  BY <1>1 DEF PInv, CallsWork
<1>4. (\A u \in Users : StoreWorks(u))'
  BY <1>1, StoreStays DEF PInv
<1> QED
  BY <1>2, <1>3, <1>4 DEF PInv

(* Nothing has been loaded but on the edit screen.                         *)
LEMMA PageWorks ==
  ASSUME PInv, UNCHANGED <<store, call, crashed, screen, currentUser, loaded>>, screen # "edit"
  PROVE  PInv'
<1>1. FormWorks'
  BY DEF PInv, FormWorks
<1> QED
  BY <1>1, StayWorks

(* Another screen is shown.                                                *)
LEMMA TurnWorks ==
  ASSUME TypeInv, PInv, NEW s, NEW p, ShowWith(s, p), call' = Left(call),
         UNCHANGED <<store, crashed>>, UNCHANGED currentUser \/ Pending = {},
         Pending # {} => s # "login" /\ s # "edit" /\ screen \notin Rewrites,
         screen \in {"page1", "page2", "page3", "page4"} =>
           Pending = {} \/ s \in {"page1", "page2", "page3", "page4"}
  PROVE  PInv'
<1>1. /\ screen' = s /\ loaded' = FALSE /\ ~ crashed' /\ InPlace /\ CallsWork
      /\ \A u \in Users : StoreWorks(u)
  BY DEF ShowWith, PInv, InPlace
<1>2. UNCHANGED <<store, currentUser>> \/ Pending = {}
  OBVIOUS
<1>3. InPlace' /\ CallsWork'
  BY <1>1, <1>2, LeftWorks
<1>4. FormWorks'
  BY <1>1 DEF FormWorks
<1>5. \A i \in Pending : /\ i \in Pending' /\ call'[i].stage = call[i].stage
                         /\ call'[i].asked = call[i].asked /\ call'[i].uid = call[i].uid
  <2> SUFFICES ASSUME NEW i \in Pending
               PROVE  /\ i \in Pending' /\ call'[i].stage = call[i].stage
                      /\ call'[i].asked = call[i].asked /\ call'[i].uid = call[i].uid
    OBVIOUS
  <2>1. i \in Calls /\ call[i] \in Call
    BY PendingCall DEF Pending
  <2>2. /\ call'[i] \in Call /\ call'[i].stage = call[i].stage
        /\ call'[i].asked = call[i].asked /\ call'[i].uid = call[i].uid
    BY <2>1, LeftSame
  <2> QED
    BY <2>1, <2>2, CallIsNotIdle DEF Pending
<1>6. (\A u \in Users : StoreWorks(u))'
  BY <1>1, <1>5, StoreStays
<1> QED
  BY <1>3, <1>4, <1>6 DEF PInv

-----------------------------------------------------------------------------
(* Steps that start no call.                                               *)
LEMMA PagesWork ==
  ASSUME TypeInv, PInv, WizardNext
  PROVE  PInv' \/ CreateProfile \/ ContinueCharacteristics \/ ContinueTraits
<1> DEFINE Quiet == UNCHANGED <<store, call, crashed, screen, currentUser, loaded>>
           Turned(s) == /\ \E p : ShowWith(s, p)
                        /\ call' = Left(call) /\ UNCHANGED <<session, store, crashed>>
<1>1. ASSUME Stay, screen # "edit" PROVE PInv'
  BY <1>1, PageWorks DEF Stay, session
<1>2. ASSUME NEW s \in {"page1", "page2", "page3", "page4"}, Turned(s),
             screen \in {"page1", "page2", "page3", "page4"}
      PROVE  PInv'
  <2>1. PICK p : ShowWith(s, p)
    BY <1>2
  <2>2. screen \notin Rewrites /\ s # "login" /\ s # "edit" /\ UNCHANGED currentUser
    BY <1>2 DEF Rewrites, session
  <2> QED
    BY <1>2, <2>1, <2>2, TurnWorks
<1>3. CASE \/ \E p \in Pictures : PickPicture(p)
           \/ \E n \in Names \union {Blank} : TypeName(n)
           \/ \E b \in Breeds \union {Blank} : TypeBreed(b)
           \/ \E v \in Sizes : PressSize(v)
           \/ \E v \in Genders : PressGender(v)
  BY <1>1, <1>3 DEF PickPicture, TypeName, TypeBreed, PressSize, PressGender, OnPage1, OnPage
<1>4. CASE \/ \E b \in Breeds, v \in Sizes : GuessFound(b, v)
           \/ GuessNotFound \/ GuessLost
           \/ \E b \in Bios \union {Blank} : TypeBio(b)
           \/ \E r \in Characteristics \union Traits : Select(r)
  BY <1>1, <1>4 DEF GuessFound, GuessNotFound, GuessLost, TypeBio, Select, OnPage
<1>5. CASE Continue1 \/ Continue2 \/ Skip2 \/ Back2
  BY <1>2, <1>5 DEF Continue1, Continue2, Skip2, Back2, Turn, OnPage1, OnPage
<1>6. CASE Continue3 \/ Skip3 \/ Back3 \/ Back4
  BY <1>2, <1>6 DEF Continue3, Skip3, Back3, Back4, Turn, OnPage
<1> QED
  BY <1>3, <1>4, <1>5, <1>6 DEF WizardNext

(* The edit screen keeps showing a profile that works.                     *)
LEMMA ChangeWorks ==
  ASSUME TypeInv, PInv, NEW f \in Fields, NEW v, Change(f, v), f = "gender" => v # Blank
  PROVE  PInv'
<1>1. /\ IsProfile(form) /\ form' = [form EXCEPT ![f] = v] /\ changed' = changed \union {f}
      /\ UNCHANGED <<store, call, crashed, screen, currentUser, loaded>>
  BY ProfileFields DEF TypeInv, PageTyped, Change, session
<1>2. UNCHANGED <<wanted, half>>
  BY <1>1 DEF store
<1>3. \A g \in Fields : form'[g] = IF g = f THEN v ELSE form[g]
  BY <1>1 DEF IsProfile
<1>4. "picture" \in Fields /\ "gender" \in Fields /\ InfoFields \subseteq Fields
  BY DEF Fields, InfoFields
<1>5. FormWorks'
  <2> SUFFICES ASSUME loaded
               PROVE  /\ screen = "edit" /\ form'.gender # Blank
                      /\ Works(form', changed', wanted[currentUser], half[currentUser])
    BY <1>1, <1>2 DEF FormWorks
  <2>1. /\ screen = "edit" /\ form.gender # Blank
        /\ Works(form, changed, wanted[currentUser], half[currentUser])
    BY DEF PInv, FormWorks
  <2>2. Works(form', changed', wanted[currentUser], half[currentUser])
    BY <1>1, <1>3, <1>4, <2>1 DEF Works, Agree
  <2> QED
    BY <1>3, <1>4, <2>1, <2>2
<1> QED
  BY <1>1, <1>5, StayWorks

LEMMA EditsWork ==
  ASSUME TypeInv, PInv, Patient, EditNext
  PROVE  PInv' \/ OpenEdit \/ SaveButton
<1>1. ASSUME NEW u \in Users, SignUp(u) \/ Login(u) PROVE PInv'
  <2>1. Pending = {}
    BY <1>1 DEF PInv, InPlace, CallInPlace, SignUp, Login, At
  <2>2. PICK s : ShowWith(s, Empty) /\ call' = Left(call) /\ UNCHANGED <<store, crashed>>
    BY <1>1 DEF SignUp, Login
  <2> QED
    BY <2>1, <2>2, TurnWorks
<1>2. CASE Logout
  BY <1>2, TurnWorks DEF Logout, Waited
<1>3. ASSUME NEW s \in {"profile", "characteristics", "traits"}, At("edit"), Leave(s) PROVE PInv'
  <2>1. /\ ShowWith(s, Empty) /\ call' = Left(call) /\ UNCHANGED <<store, crashed, currentUser>>
        /\ screen = "edit" /\ screen \notin Rewrites
    BY <1>3 DEF Leave, At, session, Rewrites
  <2> QED
    BY <2>1, <1>3, TurnWorks
<1>4. CASE Cancel \/ EditCharacteristicsPressed \/ EditPersonalityPressed
  BY <1>3, <1>4 DEF Cancel, EditCharacteristicsPressed, EditPersonalityPressed
<1>5. {"picture", "name", "breed", "bio", "gender", "size"} \subseteq Fields
  BY DEF Fields, InfoFields
<1>6. CASE \/ \E p \in Pictures : EditPicture(p)
           \/ \E n \in Names : EditName(n)
           \/ \E b \in Breeds : EditBreed(b)
           \/ \E b \in Bios \union {Blank} : EditBio(b)
  BY <1>5, <1>6, ChangeWorks DEF EditPicture, EditName, EditBreed, EditBio
<1>7. CASE PressedGenderButton
  BY <1>5, <1>7, ChangeWorks, BlankAssumption DEF PressedGenderButton, Genders
<1>8. CASE PressedSizeButton
  BY <1>5, <1>8, ChangeWorks DEF PressedSizeButton
<1> QED
  BY <1>1, <1>2, <1>4, <1>6, <1>7, <1>8 DEF EditNext

-----------------------------------------------------------------------------
(* Steps that start calls, when none is under way.                         *)

(* The lowest free place is one place.                                     *)
LEMMA OneLowest ==
  ASSUME NEW i \in Places(1), NEW j \in Places(1)
  PROVE  i = j
<1>1. ASSUME NEW k \in Places(1), NEW l \in Places(1), k < l PROVE FALSE
  <2> DEFINE S == {m \in Calls \ Pending : m < l}
  <2>1. k \in S /\ Cardinality(S) < 1 /\ S \subseteq Calls
    BY <1>1 DEF Places
  <2>2. IsFiniteSet(Calls)
    BY FS_Interval, BoundsAssumption DEF Calls
  <2>3. IsFiniteSet(S)
    BY <2>1, <2>2, FS_Subset
  <2>4. Cardinality(S) \in Nat /\ Cardinality(S) # 0
    BY <2>1, <2>3, FS_EmptySet, FS_CardinalityType
  <2> HIDE DEF S
  <2> QED
    BY <2>1, <2>4
<1>2. i \in Int /\ j \in Int
  BY BoundsAssumption DEF Places, Calls
<1> QED
  BY <1>1, <1>2

(* The calls that a press has started are the only ones.                   *)
LEMMA StartWorks ==
  ASSUME TypeInv, PInv, Pending = {}, NEW n, NEW c \in Call, call' = Started(n, c),
         UNCHANGED <<store, crashed, screen, currentUser>>, FormWorks',
         CallInPlace(c, screen, currentUser), n = 1 \/ Together(c, c),
         CallWorks(c, wanted[currentUser], half[currentUser], pictures[currentUser])
  PROVE  PInv'
<1>1. UNCHANGED <<wanted, half, pictures>>
  BY DEF store
<1>2. \A i \in Calls : call'[i] = IF i \in Places(n) THEN c ELSE Idle
  BY PendingCall DEF Started
<1>3. \A i \in Calls : i \in Pending' <=> i \in Places(n)
  BY <1>2, CallIsNotIdle DEF Pending
<1>4. Pending' = Places(n)
  BY <1>3 DEF Pending, Places
<1>5. \A i \in Places(n) : i \in Calls /\ call'[i] = c
  BY <1>2 DEF Places
<1>6. \A i, j \in Places(n) : i # j => Together(c, c)
  BY OneLowest
<1>7. InPlace'
  BY <1>4, <1>5, <1>6 DEF PInv, InPlace
<1>8. CallsWork'
  BY <1>1, <1>4, <1>5 DEF CallsWork
<1>9. (\A u \in Users : StoreWorks(u))'
  BY StoreStays DEF PInv
<1> QED
  BY <1>7, <1>8, <1>9 DEF PInv

LEMMA CreateWorks ==
  ASSUME TypeInv, TypeInv', IInv', PInv, Patient, CreateProfile
  PROVE  PInv'
<1> DEFINE c == UploadProfile("create", form', Fields)
<1>1. /\ screen = "page4" /\ Pending = {} /\ call' = Started(1, c)
      /\ UNCHANGED <<store, crashed, screen, currentUser, loaded>>
  BY DEF CreateProfile, OnPage, Waited, session
<1>2. form' \in Profile /\ form'.gender # Blank
  BY <1>1 DEF TypeInv, PageTyped, IInv, PageOK, Complete, FirstFields
<1>3. CallTyped(c, currentUser)
  BY <1>1, <1>2, NewCallTyped DEF UploadProfile, Uploads, Puts, Gets
<1>4. /\ c.for = "create" /\ c.stage = "putPicture" /\ c.uid = currentUser /\ c.by = currentUser
      /\ c.profile = form' /\ c.asked = Fields /\ c.live
  BY DEF UploadProfile, NewCall
<1>5. currentUser \in Users
  BY <1>1 DEF TypeInv, SessionTyped
<1> HIDE DEF c
<1>6. c \in Call
  BY <1>3, <1>4 DEF CallTyped, Idle
<1>7. CallInPlace(c, screen, currentUser)
  BY <1>1, <1>4, <1>5 DEF CallInPlace, Puts, Gets, Rewrites
<1>8. CallWorks(c, wanted[currentUser], half[currentUser], pictures[currentUser])
  BY <1>2, <1>4 DEF CallWorks, Rewrites
<1>9. FormWorks'
  BY <1>1 DEF PInv, FormWorks
<1> QED
  BY <1>1, <1>6, <1>7, <1>8, <1>9, StartWorks

LEMMA SaveWorks ==
  ASSUME TypeInv, PInv, Patient, SaveButton
  PROVE  PInv'
<1> DEFINE c == UploadProfile("save", form, changed)
<1>1. /\ screen = "edit" /\ Pending = {} /\ call' = Started(1, c) /\ loaded
      /\ UNCHANGED <<store, crashed, screen, currentUser, loaded, form, changed>>
  BY DEF SaveButton, At, Waited, session, page, history
<1>2. /\ form \in Profile /\ form.gender # Blank /\ changed \in SUBSET Fields
      /\ Works(form, changed, wanted[currentUser], half[currentUser])
  BY <1>1 DEF TypeInv, PageTyped, PInv, FormWorks
<1>3. CallTyped(c, currentUser)
  BY <1>1, <1>2, NewCallTyped DEF UploadProfile, Uploads, Puts, Gets
<1>4. /\ c.for = "save" /\ c.stage = "putPicture" /\ c.uid = currentUser /\ c.by = currentUser
      /\ c.profile = form /\ c.asked = changed /\ c.live
  BY DEF UploadProfile, NewCall
<1>5. currentUser \in Users
  BY <1>1 DEF TypeInv, SessionTyped
<1> HIDE DEF c
<1>6. c \in Call
  BY <1>3, <1>4 DEF CallTyped, Idle
<1>7. CallInPlace(c, screen, currentUser)
  BY <1>1, <1>4, <1>5 DEF CallInPlace, Puts, Gets, Rewrites
<1>8. CallWorks(c, wanted[currentUser], half[currentUser], pictures[currentUser])
  BY <1>2, <1>4 DEF CallWorks, Rewrites
<1>9. FormWorks'
  BY <1>1 DEF PInv, FormWorks, store
<1> QED
  BY <1>1, <1>6, <1>7, <1>8, <1>9, StartWorks

(* Both chains of a press have its picks from the start.                   *)
LEMMA RewriteStarts ==
  ASSUME TypeInv, TypeInv', Patient, NEW f \in Rewrites, NEW n, Rewrite(f, n), screen = f
  PROVE  /\ Pending = {} /\ UNCHANGED <<store, crashed, screen, currentUser, loaded>>
         /\ \E c \in Call : /\ call' = Started(n, c)
                            /\ c.for = f /\ c.stage = "getPicture" /\ c.uid = currentUser
                            /\ c.by = currentUser /\ c.asked = {f} /\ c.live
<1> DEFINE q == [Empty EXCEPT ![f] = form'[f]]
           c == GetProfile(f, q, {f})
<1>1. /\ Pending = {} /\ call' = Repicked(Started(n, c), f)
      /\ UNCHANGED <<store, crashed, screen, currentUser, loaded>>
  BY DEF Rewrite, Waited, session
<1>2. f \in Fields /\ form'[f] \in ValuesOf[f] /\ screen # "login"
  BY ListFields, ProfileFields DEF TypeInv, PageTyped, Rewrites
<1>3. q \in Profile /\ q[f] = form'[f]
  BY <1>2, EmptyTyped, FieldTyped, ProfileFields DEF IsProfile
<1> HIDE DEF q
<1>4. CallTyped(c, currentUser)
  BY <1>2, <1>3, NewCallTyped DEF GetProfile, Uploads, Gets
<1>5. /\ c.for = f /\ c.stage = "getPicture" /\ c.uid = currentUser /\ c.by = currentUser
      /\ c.profile = q /\ c.asked = {f} /\ c.live
      /\ [c EXCEPT !.profile[f] = q[f]] = [c EXCEPT !.profile = [q EXCEPT ![f] = q[f]]]
  BY DEF GetProfile, NewCall
<1> HIDE DEF c
<1>6. c \in Call
  BY <1>4, <1>5 DEF CallTyped, Idle, Rewrites
<1>7. [c EXCEPT !.profile[f] = form'[f]] = c
  <2>1. [q EXCEPT ![f] = q[f]] = q
    BY <1>3 DEF Profile
  <2>2. [c EXCEPT !.profile = q] = c
    BY <1>5, <1>6 DEF Call
  <2> QED
    BY <1>3, <1>5, <2>1, <2>2
<1>8. \A i \in Calls : Started(n, c)[i] = IF i \in Places(n) THEN c ELSE Idle
  BY <1>1, PendingCall DEF Started
<1>9. \A i \in Calls : call'[i] = Started(n, c)[i]
  BY <1>1, <1>7, <1>8 DEF Repicked, Idle
<1>10. call' = Started(n, c)
  BY <1>1, <1>9 DEF Repicked, Started
<1> QED
  BY <1>1, <1>5, <1>6, <1>10

LEMMA RewriteWorks ==
  ASSUME TypeInv, TypeInv', PInv, Patient, NEW f \in Rewrites, NEW n, Rewrite(f, n), screen = f
  PROVE  PInv'
<1>1. Pending = {} /\ UNCHANGED <<store, crashed, screen, currentUser, loaded>>
  BY RewriteStarts
<1>2. PICK c \in Call : /\ call' = Started(n, c)
                        /\ c.for = f /\ c.stage = "getPicture" /\ c.uid = currentUser
                        /\ c.by = currentUser /\ c.asked = {f} /\ c.live
  BY RewriteStarts
<1>3. screen # "login" /\ screen # "edit" /\ currentUser \in Users
  BY DEF Rewrites, TypeInv, SessionTyped
<1>4. CallInPlace(c, screen, currentUser)
  BY <1>2, <1>3 DEF CallInPlace, Gets, Rewrites
<1>5. CallWorks(c, wanted[currentUser], half[currentUser], pictures[currentUser])
  BY <1>2 DEF CallWorks, Puts
<1>6. FormWorks'
  BY <1>1, <1>3 DEF PInv, FormWorks
<1>7. Together(c, c)
  BY <1>2 DEF Together
<1> QED
  BY <1>1, <1>2, <1>4, <1>5, <1>6, <1>7, StartWorks

(* An edit screen is shown while calls are under way.                      *)
LEMMA ShowEditWorks ==
  ASSUME TypeInv, NEW calls, NEW left, left = Left(calls), ShowEdit(calls), ~ crashed',
         UNCHANGED currentUser, screen # "login",
         \A i \in Calls : left[i] # Idle =>
             /\ left[i].for \in Rewrites \union {"edit"}
             /\ CallInPlace(left[i], "edit", currentUser)
             /\ CallWorks(left[i], wanted'[currentUser], half'[currentUser],
                          pictures'[currentUser]),
         \A i, j \in Calls : i # j /\ left[i] # Idle /\ left[j] # Idle => Together(left[i], left[j])
  PROVE  InPlace' /\ CallsWork' /\ FormWorks'
<1> DEFINE c == GetProfile("edit", Empty, {})
<1>1. PICK i \in Calls : call' = [left EXCEPT ![i] = c]
  BY DEF ShowEdit
<1>2. screen' = "edit" /\ loaded' = FALSE /\ currentUser \in Users
  BY DEF ShowEdit, ShowWith, TypeInv, SessionTyped
<1>3. /\ c.for = "edit" /\ c.stage = "getPicture" /\ c.uid = currentUser /\ c.by = currentUser
      /\ c.profile = Empty /\ c.asked = {} /\ c.live
  BY DEF GetProfile, NewCall
<1> HIDE DEF c
<1>4. \A j \in Calls : call'[j] = IF j = i THEN c ELSE left[j]
  BY <1>1 DEF Left
<1>5. \A j \in Pending' : j \in Calls /\ (j # i => left[j] # Idle)
  BY <1>4 DEF Pending
<1>6. CallInPlace(c, "edit", currentUser)
  BY <1>2, <1>3 DEF CallInPlace, Gets, Rewrites
<1>7. \A w, h, p : CallWorks(c, w, h, p)
  BY <1>3 DEF CallWorks, Puts, Rewrites
<1>8. ASSUME NEW d, d.for \in Rewrites \union {"edit"} PROVE Together(c, d) /\ Together(d, c)
  BY <1>3, <1>8 DEF Together, Rewrites
<1>9. InPlace'
  <2>1. \A j \in Pending' : CallInPlace(call'[j], screen', currentUser')
    BY <1>2, <1>4, <1>5, <1>6
  <2>2. \A j, k \in Pending' : j # k => Together(call'[j], call'[k])
    BY <1>4, <1>5, <1>8
  <2> QED
    BY <2>1, <2>2 DEF InPlace
<1>10. CallsWork'
  BY <1>4, <1>5, <1>7 DEF CallsWork
<1>11. FormWorks'
  BY <1>2 DEF FormWorks
<1> QED
  BY <1>9, <1>10, <1>11

LEMMA OpenEditWorks ==
  ASSUME TypeInv, PInv, Patient, OpenEdit
  PROVE  PInv'
<1>1. /\ screen = "profile" /\ Pending = {} /\ ShowEdit(call) /\ ~ crashed'
      /\ UNCHANGED <<store, crashed, currentUser>>
  BY DEF OpenEdit, At, Waited, session
<1>2. \A i \in Calls : Left(call)[i] = Idle
  BY <1>1, PendingCall, LeftIdle
<1>3. InPlace' /\ CallsWork' /\ FormWorks'
  BY <1>1, <1>2, ShowEditWorks
<1>4. (\A u \in Users : StoreWorks(u))'
  BY <1>1, StoreStays DEF PInv
<1> QED
  BY <1>3, <1>4 DEF PInv

-----------------------------------------------------------------------------
(* Answers.                                                                *)

(* A call goes on, or ends, among the others.                              *)
LEMMA GoesOn ==
  ASSUME TypeInv, InPlace, NEW i \in Pending, NEW c \in Call, call' = [call EXCEPT ![i] = c],
         UNCHANGED <<screen, currentUser>>, ~ crashed', CallInPlace(c, screen, currentUser),
         c.for = call[i].for, c.for \in Rewrites => c.profile[c.for] = call[i].profile[c.for]
  PROVE  /\ InPlace' /\ Pending' = Pending
         /\ \A j \in Pending : call'[j] = IF j = i THEN c ELSE call[j]
<1>1. \A j \in Calls : call'[j] = IF j = i THEN c ELSE call[j]
  BY DEF TypeInv, CallsTyped
<1>2. \A j \in Calls : j \in Pending' <=> j \in Pending
  BY <1>1, CallIsNotIdle DEF Pending
<1>3. Pending' = Pending /\ \A j \in Pending : call'[j] = IF j = i THEN c ELSE call[j]
  BY <1>1, <1>2 DEF Pending
<1>4. ASSUME NEW d, Together(call[i], d) \/ Together(d, call[i]) PROVE Together(c, d) /\ Together(d, c)
  BY <1>4 DEF Together
<1>5. \A j, k \in Pending : j # k => Together(call'[j], call'[k])
  BY <1>3, <1>4 DEF InPlace
<1> QED
  BY <1>3, <1>5 DEF InPlace

LEMMA Ends ==
  ASSUME TypeInv, InPlace, NEW i \in Calls, call' = [call EXCEPT ![i] = Idle],
         UNCHANGED <<screen, currentUser, crashed>>
  PROVE  InPlace' /\ Pending' = Pending \ {i} /\ \A j \in Pending' : call'[j] = call[j]
<1>1. \A j \in Calls : call'[j] = IF j = i THEN Idle ELSE call[j]
  BY DEF TypeInv, CallsTyped
<1>2. \A j \in Calls : j \in Pending' <=> j \in Pending /\ j # i
  BY <1>1 DEF Pending
<1>3. Pending' = Pending \ {i} /\ \A j \in Pending' : call'[j] = call[j]
  BY <1>1, <1>2 DEF Pending
<1> QED
  BY <1>3 DEF InPlace

(* Whose picture has been put: only the user's, and then no other call is  *)
(* under way, or only a chain or the edit screen that do not touch it.     *)
LEMMA WhosePicture ==
  ASSUME TypeInv, InPlace, NEW i \in Pending
  PROVE  /\ \A u \in Users : PuttingPicture(u) => u = currentUser
         /\ call[i].for \in Rewrites \union {"edit"} => "picture" \notin call[i].asked
                                                         \/ call[i].stage # "setDocument"
         /\ call[i].for \notin Rewrites \union {"edit"} => Pending = {i}
<1>1. /\ \A j \in Pending : CallInPlace(call[j], screen, currentUser)
      /\ \A j \in Pending : j # i => Together(call[i], call[j])
  BY DEF InPlace
<1>2. \A u \in Users : PuttingPicture(u) => u = currentUser
  BY <1>1 DEF PuttingPicture, CallInPlace
<1>3. call[i].for \in Rewrites \union {"edit"} => "picture" \notin call[i].asked
                                                   \/ call[i].stage # "setDocument"
  BY <1>1 DEF CallInPlace, Rewrites, Gets
<1>4. call[i].for \notin Rewrites \union {"edit"} => Pending = {i}
  BY <1>1 DEF Together
<1> QED
  BY <1>2, <1>3, <1>4

LEMMA GetEndsWorks ==
  ASSUME TypeInv, PInv, NEW i \in Calls, GetEnds(i)
  PROVE  PInv'
<1>1. /\ call' = [call EXCEPT ![i] = Idle] /\ call[i].stage # "setDocument"
      /\ UNCHANGED <<store, crashed, screen, currentUser, loaded, form, changed>>
  BY DEF GetEnds, session, page, history, Gets
<1>2. InPlace /\ UNCHANGED <<wanted, half, pictures>>
  BY <1>1 DEF PInv, store
<1>3. InPlace' /\ Pending' = Pending \ {i} /\ \A j \in Pending' : call'[j] = call[j]
  BY <1>1, <1>2, Ends
<1>4. CallsWork'
  BY <1>1, <1>2, <1>3 DEF PInv, CallsWork
<1>5. FormWorks'
  BY <1>1, <1>2 DEF PInv, FormWorks
<1>6. (\A u \in Users : StoreWorks(u))'
  BY <1>1, <1>3, StoreStays DEF PInv
<1> QED
  BY <1>3, <1>4, <1>5, <1>6 DEF PInv

(* The picture a chain, or the edit screen, gets is the stored one.        *)
LEMMA PictureArrivesWorks ==
  ASSUME TypeInv, TypeInv', PInv, NEW i \in Calls, PictureArrives(i)
  PROVE  PInv'
<1> DEFINE c == call[i]
           d == call'[i]
           w == wanted[currentUser]
<1>1. /\ c.stage = "getPicture"
      /\ call' = [call EXCEPT ![i].stage = "getDocument",
                              ![i].profile.picture = pictures[c.uid]]
      /\ UNCHANGED <<store, crashed, screen, currentUser, loaded, form, changed>>
  BY DEF PictureArrives, session, page, history
<1>2. i \in Pending /\ c \in Call
  BY <1>1, PendingCall
<1>3. CallInPlace(c, screen, currentUser) /\ CallWorks(c, w, half[currentUser], pictures[currentUser])
  BY <1>2 DEF PInv, InPlace, CallsWork
<1>4. call' = [call EXCEPT ![i] = d] /\ d.stage = "getDocument"
      /\ d.for = c.for /\ d.uid = c.uid /\ d.by = c.by /\ d.live = c.live /\ d.asked = c.asked
      /\ d.profile = [c.profile EXCEPT !.picture = pictures[c.uid]]
  BY <1>1, <1>2 DEF TypeInv, CallsTyped, Call
<1>5. d \in Call
  BY <1>4 DEF TypeInv, CallsTyped, CallTyped, Idle
<1>6. /\ d.profile.picture = pictures[currentUser]
      /\ \A f \in Rewrites : d.profile[f] = c.profile[f]
  BY <1>2, <1>3, <1>4 DEF CallInPlace, Call, Profile, Rewrites
<1>7. ~ PuttingPicture(currentUser)
  <2> SUFFICES ASSUME NEW j \in Pending, call[j].stage = "setDocument", "picture" \in call[j].asked
               PROVE  FALSE
    BY DEF PuttingPicture
  <2>1. Pending = {j}
    BY WhosePicture DEF PInv
  <2> QED
    BY <1>1, <1>2, <2>1
<1>8. w # None => half[currentUser] \/ d.profile.picture = w.picture
  BY <1>3, <1>6, <1>7 DEF PInv, StoreWorks, CallInPlace
<1>9. UNCHANGED <<wanted, half, pictures, screen, currentUser>> /\ InPlace /\ ~ crashed'
  BY <1>1 DEF store, PInv, InPlace
<1>10. CallInPlace(d, screen, currentUser)
  BY <1>1, <1>3, <1>4 DEF CallInPlace, Gets, Puts
<1>11. CallWorks(d, w, half[currentUser], pictures[currentUser])
  BY <1>3, <1>4, <1>6, <1>8 DEF CallWorks, Puts
<1> HIDE DEF c, d, w
<1>12. /\ InPlace' /\ Pending' = Pending
       /\ \A j \in Pending : call'[j] = IF j = i THEN d ELSE call[j]
  BY <1>2, <1>4, <1>5, <1>6, <1>9, <1>10, GoesOn DEF c
<1>13. CallsWork'
  BY <1>1, <1>9, <1>11, <1>12 DEF PInv, CallsWork, w
<1>14. FormWorks'
  BY <1>1, <1>9 DEF PInv, FormWorks
<1>15. (\A u \in Users : StoreWorks(u))'
  BY <1>1, <1>12, StoreStays DEF PInv, c
<1> QED
  BY <1>12, <1>13, <1>14, <1>15 DEF PInv

(* What a chain, or the edit screen, then reads is what the user takes for *)
(* stored.                                                                 *)
LEMMA ReadsWanted ==
  ASSUME TypeInv, PInv, NEW i \in Pending, call[i].stage = "getDocument",
         Stored(documents, call[i].uid), NEW p, NEW w,
         p = With(documents[call[i].uid], call[i].profile.picture), w = wanted[currentUser]
  PROVE  /\ w # None /\ w \in Profile /\ w.gender # Blank /\ IsProfile(p)
         /\ \A f \in InfoFields : p[f] = w[f]
         /\ half[currentUser] \/ p.picture = w.picture
<1>1. CallInPlace(call[i], screen, currentUser)
      /\ CallWorks(call[i], w, half[currentUser], pictures[currentUser])
  BY DEF PInv, InPlace, CallsWork
<1>2. /\ call[i].uid = currentUser /\ currentUser \in Users
      /\ w # None => half[currentUser] \/ call[i].profile.picture = w.picture
  BY <1>1 DEF CallInPlace, CallWorks
<1>3. documents[currentUser] = Info(w) /\ w # None /\ w.gender # Blank
  BY <1>2 DEF Stored, PInv, StoreWorks
<1>4. w \in Profile
  BY <1>2, <1>3 DEF TypeInv, StoreTyped
<1>5. \A f \in InfoFields : p[f] = w[f]
  BY <1>2, <1>3 DEF With, Info, Fields, InfoFields
<1>6. IsProfile(p) /\ p.picture = call[i].profile.picture
  BY DEF With, IsProfile, Fields
<1> QED
  BY <1>2, <1>3, <1>4, <1>5, <1>6

LEMMA DocumentArrivesWorks ==
  ASSUME TypeInv, TypeInv', IInv, PInv, NEW i \in Calls, DocumentArrives(i)
  PROVE  PInv'
<1> DEFINE c == call[i]
           w == wanted[currentUser]
           p == With(documents[c.uid], c.profile.picture)
<1>1. /\ c.stage = "getDocument" /\ Stored(documents, c.uid)
      /\ UNCHANGED <<store, crashed, screen, currentUser, changed>>
  BY DEF DocumentArrives, session, history
<1>2. i \in Pending /\ c \in Call
  BY <1>1, PendingCall
<1>3. /\ CallInPlace(c, screen, currentUser) /\ InPlace
      /\ CallWorks(c, w, half[currentUser], pictures[currentUser])
      /\ UNCHANGED <<wanted, half, pictures>> /\ ~ crashed'
  BY <1>1, <1>2 DEF PInv, InPlace, CallsWork, store
<1>4. /\ w # None /\ w \in Profile /\ w.gender # Blank /\ IsProfile(p)
      /\ \A f \in InfoFields : p[f] = w[f]
      /\ half[currentUser] \/ p.picture = w.picture
  <2> HIDE DEF p, w
  <2>1. p = With(documents[call[i].uid], call[i].profile.picture) /\ w = wanted[currentUser]
    BY DEF p, w
  <2> QED
    BY <1>1, <1>2, <2>1, ReadsWanted DEF c
<1>5. CASE c.for = "edit"
  <2>1. /\ call' = [call EXCEPT ![i] = Idle]
        /\ IF c.live THEN form' = Loaded(p) /\ loaded' = TRUE ELSE UNCHANGED <<form, loaded>>
    BY <1>5 DEF DocumentArrives
  <2>2. InPlace' /\ Pending' = Pending \ {i} /\ \A j \in Pending' : call'[j] = call[j]
    BY <1>1, <1>3, <2>1, Ends
  <2>3. CallsWork'
    BY <1>1, <1>3, <2>2 DEF PInv, CallsWork
  <2>4. FormWorks'
    <3>1. CASE ~ c.live
      BY <1>1, <1>3, <2>1, <3>1 DEF PInv, FormWorks
    <3>2. CASE c.live
      <4>1. form' = Loaded(p) /\ loaded' = TRUE
        BY <2>1, <3>2
      <4>2. screen = "edit"
        BY <1>5, <3>2 DEF IInv, CallsOK, CallOK
      <4>3. w.gender \in {"female", "male"}
        BY <1>4 DEF Profile, Genders
      <4>4. /\ "gender" \in Fields /\ "gender" \in InfoFields /\ InfoFields \subseteq Fields
            /\ "picture" \in Fields /\ "gender" # "picture"
        BY DEF Fields, InfoFields
      <4> HIDE DEF p, w
      <4>5. \A f \in Fields : form'[f] = IF f = "gender"
                                           THEN (IF p[f] = "female" THEN "female" ELSE "male")
                                           ELSE p[f]
        BY <1>4, <4>1, <4>4 DEF Loaded, IsProfile
      <4>6. form'.gender = w.gender /\ form'.picture = p.picture
            /\ \A f \in InfoFields : form'[f] = w[f]
        BY <1>4, <4>3, <4>4, <4>5
      <4>7. Works(form', changed, w, half[currentUser])
        BY <1>4, <4>6 DEF Works, Agree
      <4> QED
        BY <1>1, <1>3, <1>4, <4>1, <4>2, <4>6, <4>7 DEF FormWorks, w
    <3> QED
      BY <3>1, <3>2
  <2>5. (\A u \in Users : StoreWorks(u))'
    BY <1>1, <2>2, StoreStays DEF PInv
  <2> QED
    BY <2>2, <2>3, <2>4, <2>5 DEF PInv
<1>6. CASE c.for # "edit"
  <2> DEFINE d == call'[i]
             f == c.for
             q == [p EXCEPT ![f] = c.profile[f]]
  <2>1. /\ call' = [call EXCEPT ![i].stage = "putPicture", ![i].uid = currentUser, ![i].profile = q]
        /\ UNCHANGED <<form, loaded>>
    BY <1>6 DEF DocumentArrives
  <2>2. /\ call' = [call EXCEPT ![i] = d] /\ d.stage = "putPicture" /\ d.for = f
        /\ d.uid = currentUser /\ d.by = c.by /\ d.live = c.live /\ d.asked = c.asked
        /\ d.profile = q
    BY <1>2, <2>1 DEF TypeInv, CallsTyped, Call
  <2>3. d \in Call
    BY <2>2 DEF TypeInv, CallsTyped, CallTyped, Idle
  <2>4. /\ f \in Rewrites /\ c.asked = {f} /\ f \in Fields /\ f # "picture" /\ f # "gender"
        /\ "picture" \in Fields /\ "gender" \in Fields /\ "gender" \in InfoFields
        /\ InfoFields \subseteq Fields
    BY <1>1, <1>2, <1>3, <1>6 DEF CallInPlace, Call, Uploads, Rewrites, Fields, InfoFields, Puts
  <2> HIDE DEF p, w, f
  <2>5. \A g \in Fields : q[g] = IF g = f THEN c.profile[f] ELSE p[g]
    BY <1>4, <2>4 DEF IsProfile
  <2> HIDE DEF q
  <2>6. /\ q.gender = w.gender /\ q.picture = p.picture /\ q[f] = c.profile[f]
        /\ \A g \in InfoFields \ {f} : q[g] = w[g]
    BY <1>4, <2>4, <2>5
  <2>7. Works(q, {f}, w, half[currentUser])
    BY <1>4, <2>6 DEF Works, Agree
  <2> HIDE DEF c, d
  <2>8. CallInPlace(d, screen, currentUser)
    BY <1>3, <2>2, <2>4 DEF CallInPlace, Rewrites, Puts, f
  <2>9. CallWorks(d, w, half[currentUser], pictures[currentUser])
    BY <1>3, <1>4, <2>2, <2>4, <2>6, <2>7 DEF CallWorks, Puts, Rewrites, f
  <2>10. d.for = call[i].for /\ (d.for \in Rewrites => d.profile[d.for] = call[i].profile[d.for])
    BY <2>2, <2>6 DEF f, c
  <2>11. call' = [call EXCEPT ![i] = d] /\ UNCHANGED <<screen, currentUser>>
    BY <1>1, <2>2
  <2>12. /\ InPlace' /\ Pending' = Pending
         /\ \A j \in Pending : call'[j] = IF j = i THEN d ELSE call[j]
    BY <1>2, <1>3, <2>3, <2>8, <2>10, <2>11, GoesOn
  <2>13. CallsWork'
    BY <1>1, <1>3, <2>9, <2>12 DEF PInv, CallsWork, w
  <2>14. FormWorks'
    BY <1>1, <1>3, <2>1 DEF PInv, FormWorks
  <2>15. (\A u \in Users : StoreWorks(u))'
    BY <1>1, <2>12, StoreStays DEF PInv, c
  <2> QED
    BY <2>12, <2>13, <2>14, <2>15 DEF PInv
<1> QED
  BY <1>5, <1>6

(* A picture that is put is the one the document will stand beside, or     *)
(* waits for its document.                                                 *)
LEMMA PicturePutWorks ==
  ASSUME TypeInv, TypeInv', PInv, NEW i \in Calls, PicturePut(i)
  PROVE  PInv'
<1> DEFINE c == call[i]
           d == call'[i]
           u == currentUser
           w == wanted[currentUser]
           h == half[currentUser]
<1>1. /\ c.stage = "putPicture"
      /\ pictures' = [v \in Users |-> IF v = c.uid THEN c.profile.picture ELSE pictures[v]]
      /\ crashed' = (currentUser = NoUser)
      /\ call' = [call EXCEPT ![i].stage = "setDocument", ![i].uid = currentUser]
      /\ UNCHANGED <<documents, wanted, half, screen, currentUser, loaded, form, changed>>
  BY DEF PicturePut, session, page, history
<1>2. i \in Pending /\ c \in Call
  BY <1>1, PendingCall
<1>3. CallInPlace(c, screen, u) /\ CallWorks(c, w, h, pictures[u]) /\ InPlace
  BY <1>2 DEF PInv, InPlace, CallsWork
<1>4. u \in Users /\ c.uid = u /\ ~ crashed'
  BY <1>1, <1>3, NobodyAssumption DEF CallInPlace
<1>5. /\ call' = [call EXCEPT ![i] = d] /\ d.stage = "setDocument"
      /\ d.for = c.for /\ d.uid = u /\ d.by = c.by /\ d.live = c.live /\ d.asked = c.asked
      /\ d.profile = c.profile
  BY <1>1, <1>2 DEF TypeInv, CallsTyped, Call
<1>6. d \in Call
  BY <1>5 DEF TypeInv, CallsTyped, CallTyped, Idle
<1>7. pictures'[u] = c.profile.picture /\ \A v \in Users \ {u} : pictures'[v] = pictures[v]
  BY <1>1, <1>4
<1>8. CallInPlace(d, screen, u)
  BY <1>1, <1>3, <1>5 DEF CallInPlace, Gets, Puts
<1>9. CallWorks(d, w, h, pictures'[u])
  BY <1>1, <1>3, <1>5, <1>7 DEF CallWorks, Puts
<1>10. UNCHANGED <<screen, currentUser>>
  BY <1>1
<1> HIDE DEF c, d, u, w, h
<1>11. /\ InPlace' /\ Pending' = Pending
       /\ \A j \in Pending : call'[j] = IF j = i THEN d ELSE call[j]
  BY <1>2, <1>3, <1>4, <1>5, <1>6, <1>8, <1>10, GoesOn DEF c, u
<1>12. ASSUME NEW j \in Pending, j # i PROVE CallWorks(call[j], w, h, pictures'[u])
  <2>1. CallWorks(call[j], w, h, pictures[u])
    BY DEF PInv, CallsWork, w, h, u
  <2>2. "picture" \notin call[j].asked \/ call[j].stage # "setDocument"
    BY <1>2, <1>3, <1>12, WhosePicture
  <2> QED
    BY <2>1, <2>2 DEF CallWorks
<1>13. CallsWork'
  BY <1>1, <1>9, <1>11, <1>12 DEF CallsWork, w, h, u
<1>14. FormWorks'
  BY <1>1 DEF PInv, FormWorks
<1>15. ASSUME NEW v \in Users, v = u PROVE StoreWorks(v)'
  <2>1. CASE "picture" \in c.asked
    <3>1. PuttingPicture(v)'
      BY <1>2, <1>5, <1>10, <1>11, <1>15, <2>1 DEF PuttingPicture, u
    <3> QED
      BY <1>1, <1>4, <1>10, <1>15, <3>1 DEF PInv, StoreWorks, u
  <2>2. CASE "picture" \notin c.asked
    <3>1. c.for # "create"
      BY <1>3, <2>2 DEF CallInPlace, Fields
    <3>2. w # None /\ (h \/ c.profile.picture = w.picture)
      BY <1>1, <1>3, <2>2, <3>1 DEF CallWorks, Works, Puts
    <3> QED
      BY <1>1, <1>4, <1>7, <1>10, <1>15, <3>2 DEF PInv, StoreWorks, u, w, h
  <2> QED
    BY <2>1, <2>2
<1>16. ASSUME NEW v \in Users, v # u PROVE StoreWorks(v)'
  <2>1. ~ PuttingPicture(v) /\ StoreWorks(v)
    BY <1>2, <1>3, <1>16, WhosePicture DEF PInv, u
  <2> QED
    BY <1>1, <1>7, <1>16, <2>1 DEF StoreWorks
<1>17. ASSUME NEW v \in Users PROVE StoreWorks(v)'
  BY <1>15, <1>16
<1> QED
  BY <1>11, <1>13, <1>14, <1>17 DEF PInv

(* What was put stays put.                                                 *)
LEMMA UploadFailsWorks ==
  ASSUME TypeInv, PInv, NEW i \in Calls, UploadFails(i)
  PROVE  PInv'
<1> DEFINE c == call[i]
<1>1. /\ call' = [call EXCEPT ![i] = Idle] /\ c.stage \in Puts
      /\ half' = [v \in Users |-> half[v] \/ (v = c.uid /\ c.stage = "setDocument")]
      /\ UNCHANGED <<documents, pictures, wanted, crashed, screen, currentUser, loaded, form,
                     changed>>
  BY DEF UploadFails, session, page, history
<1>2. i \in Pending
  BY <1>1, PendingCall DEF Puts
<1>3. InPlace /\ CallInPlace(c, screen, currentUser)
  BY <1>2 DEF PInv, InPlace
<1>4. currentUser \in Users /\ c.uid = currentUser
  BY <1>3 DEF CallInPlace
<1>5. UNCHANGED <<screen, currentUser, crashed>>
  BY <1>1
<1>6. InPlace' /\ Pending' = Pending \ {i} /\ \A j \in Pending' : call'[j] = call[j]
  BY <1>1, <1>3, <1>5, Ends
<1>7. ASSUME NEW v \in Users, half[v] PROVE half'[v]
  BY <1>1, <1>7
<1>8. CallsWork'
  BY <1>1, <1>4, <1>6, <1>7 DEF PInv, CallsWork, CallWorks, Works
<1>9. FormWorks'
  BY <1>1, <1>4, <1>7 DEF PInv, FormWorks, Works, TypeInv, SessionTyped
<1>10. ASSUME NEW v \in Users PROVE StoreWorks(v)'
  <2>1. CASE half[v]
    BY <1>1, <1>7, <2>1 DEF PInv, StoreWorks
  <2>2. ASSUME PuttingPicture(v) PROVE half'[v] \/ PuttingPicture(v)'
    <3>1. PICK j \in Pending : /\ call[j].stage = "setDocument" /\ "picture" \in call[j].asked
                               /\ call[j].uid = v
      BY <2>2 DEF PuttingPicture
    <3>2. CASE j = i
      BY <1>1, <3>1, <3>2
    <3>3. CASE j # i
      BY <1>6, <3>1, <3>3 DEF PuttingPicture
    <3> QED
      BY <3>2, <3>3
  <2> QED
    BY <1>1, <2>1, <2>2 DEF PInv, StoreWorks
<1> QED
  BY <1>6, <1>8, <1>9, <1>10 DEF PInv

(* The upload that succeeds is the whole of what the user now takes for    *)
(* stored.                                                                 *)
LEMMA WritesWanted ==
  ASSUME TypeInv, PInv, NEW i \in Pending, call[i].stage = "setDocument", NEW c, c = call[i],
         NEW w, w = wanted[currentUser], NEW v, v = WantedNow(c)
  PROVE  /\ c \in Call /\ c.for \in Uploads /\ c.uid = currentUser /\ currentUser \in Users
         /\ v # None /\ v.gender # Blank /\ Info(v) = Info(c.profile)
         /\ \A f \in Fields : v[f] = IF f \in c.asked THEN c.profile[f] ELSE w[f]
         /\ w = None => c.asked = Fields
<1>1. c \in Call
  BY PendingCall DEF Pending
<1>2. CallInPlace(c, screen, currentUser)
      /\ CallWorks(c, w, half[currentUser], pictures[currentUser])
  BY DEF PInv, InPlace, CallsWork
<1>3. /\ c.for \in Uploads /\ c.uid = currentUser /\ currentUser \in Users
      /\ c.profile.gender # Blank
  BY <1>1, <1>2 DEF CallInPlace, CallWorks, Call, Gets, Puts
<1>4. /\ c.profile \in Profile /\ c.profile # None
      /\ "picture" \in Fields /\ "gender" \in Fields /\ "gender" \in InfoFields
      /\ InfoFields \subseteq Fields
  BY <1>1, BlankAssumption DEF Call, Fields, InfoFields
<1>5. CASE w = None
  <2>1. v = c.profile /\ c.asked = Fields
    BY <1>2, <1>3, <1>5 DEF WantedNow, CallInPlace, CallWorks, Works, Puts
  <2> QED
    BY <1>1, <1>3, <1>4, <2>1
<1>6. CASE w # None
  <2>1. v = [f \in Fields |-> IF f \in c.asked THEN c.profile[f] ELSE w[f]]
    BY <1>3, <1>6 DEF WantedNow
  <2>2. v \in Profile
    <3>1. w \in Profile
      BY <1>3, <1>6 DEF TypeInv, StoreTyped
    <3>2. [f \in Fields |-> IF f \in c.asked THEN c.profile[f] ELSE w[f]] \in Profile
      BY <1>4, <3>1, MixTyped
    <3> QED
      BY <2>1, <3>2
  <2>3. \A f \in InfoFields \ c.asked : c.profile[f] = w[f]
    <3>1. CASE c.for = "create"
      BY <1>2, <1>4, <3>1 DEF CallInPlace
    <3>2. CASE c.for # "create"
      BY <1>2, <3>2 DEF CallWorks, Works, Agree, Puts
    <3> QED
      BY <3>1, <3>2
  <2>4. \A f \in InfoFields : v[f] = c.profile[f]
    BY <1>4, <2>1, <2>3
  <2>5. Info(v) = Info(c.profile)
    BY <2>4 DEF Info
  <2> QED
    BY <1>1, <1>3, <1>4, <1>6, <2>1, <2>2, <2>4, <2>5, BlankAssumption
<1> QED
  BY <1>5, <1>6

LEMMA DocumentSetStores ==
  ASSUME TypeInv, PInv, NEW i \in Calls, DocumentSet(i)
  PROVE  (\A u \in Users : StoreWorks(u))'
<1> DEFINE c == call[i]
           w == wanted[currentUser]
           v == WantedNow(c)
<1>1. /\ c.stage = "setDocument"
      /\ documents' = [documents EXCEPT ![c.uid] = Info(c.profile)]
      /\ wanted' = [wanted EXCEPT ![c.uid] = v]
      /\ half' = [half EXCEPT ![c.uid] = @ /\ "picture" \notin c.asked]
      /\ UNCHANGED pictures
  BY DEF DocumentSet
<1>2. i \in Pending
  BY <1>1, PendingCall
<1> HIDE DEF v
<1>3. /\ c \in Call /\ c.uid = currentUser /\ currentUser \in Users
      /\ v # None /\ v.gender # Blank /\ Info(v) = Info(c.profile)
      /\ \A f \in Fields : v[f] = IF f \in c.asked THEN c.profile[f] ELSE w[f]
      /\ w = None => c.asked = Fields
  BY <1>1, <1>2, WritesWanted DEF v
<1>4. /\ CallWorks(c, w, half[currentUser], pictures[currentUser])
      /\ InPlace /\ \A u \in Users : StoreWorks(u)
  BY <1>2 DEF PInv, CallsWork
<1>5. DOMAIN documents = Users /\ DOMAIN wanted = Users /\ DOMAIN half = Users
  BY DEF TypeInv, StoreTyped
<1>6. \A u \in Users : u # currentUser =>
        documents'[u] = documents[u] /\ wanted'[u] = wanted[u] /\ half'[u] = half[u]
  BY <1>1, <1>3, <1>5
<1>7. /\ documents'[currentUser] = Info(c.profile) /\ wanted'[currentUser] = v
      /\ half'[currentUser] <=> (half[currentUser] /\ "picture" \notin c.asked)
  BY <1>1, <1>3, <1>5
<1> HIDE DEF c, w
<1>8. ASSUME NEW u \in Users, u # currentUser PROVE StoreWorks(u)'
  <2>1. ~ PuttingPicture(u) /\ StoreWorks(u)
    BY <1>2, <1>4, <1>8, WhosePicture
  <2> QED
    BY <1>1, <1>6, <1>8, <2>1 DEF StoreWorks
<1>9. ASSUME NEW u \in Users, u = currentUser PROVE StoreWorks(u)'
  <2>1. "picture" \in Fields
    BY DEF Fields
  <2>2. documents'[u] = Info(v) /\ wanted'[u] = v
    BY <1>3, <1>7, <1>9
  <2>3. CASE "picture" \in c.asked
    <3>1. pictures[u] = v.picture
      BY <1>1, <1>3, <1>4, <1>9, <2>1, <2>3 DEF CallWorks
    <3> QED
      BY <1>1, <1>3, <2>2, <3>1 DEF StoreWorks
  <2>4. CASE "picture" \notin c.asked
    <3>1. w # None /\ v.picture = w.picture
      BY <1>3, <2>1, <2>4
    <3>2. ~ PuttingPicture(u)
      <4> SUFFICES ASSUME NEW j \in Pending, call[j].stage = "setDocument",
                          "picture" \in call[j].asked
                   PROVE  FALSE
        BY DEF PuttingPicture
      <4>1. Pending = {j}
        BY <1>4, WhosePicture
      <4> QED
        BY <1>2, <2>4, <4>1 DEF c
    <3>3. half[u] \/ pictures[u] = w.picture
      BY <1>4, <1>9, <3>1, <3>2 DEF StoreWorks, w
    <3>4. half'[u] \/ pictures'[u] = v.picture
      BY <1>1, <1>7, <1>9, <2>4, <3>1, <3>3
    <3> QED
      BY <1>3, <2>2, <3>4 DEF StoreWorks
  <2> QED
    BY <2>3, <2>4
<1> QED
  BY <1>8, <1>9

(* It ends alone if it was a new profile or a save.                        *)
LEMMA UploadEndsWorks ==
  ASSUME TypeInv, PInv, NEW i \in Calls, DocumentSet(i), call[i].for \notin Rewrites
  PROVE  InPlace' /\ CallsWork' /\ FormWorks'
<1> DEFINE c == call[i]
           calls == [call EXCEPT ![i] = Idle]
<1>1. c.stage = "setDocument" /\ Success(c, calls) /\ UNCHANGED <<currentUser, crashed>>
  BY DEF DocumentSet, session
<1>2. i \in Pending
  BY <1>1, PendingCall
<1>3. c \in Call /\ c.for \in Uploads
  BY <1>1, <1>2, WritesWanted
<1>4. InPlace /\ CallInPlace(c, screen, currentUser)
  BY <1>2 DEF PInv, InPlace
<1>5. Pending = {i}
  BY <1>2, <1>3, <1>4, WhosePicture DEF Uploads, Rewrites
<1>6. \A j \in Calls : calls[j] = Idle
  BY <1>5, PendingCall DEF TypeInv, CallsTyped
<1>7. (\A j \in Calls : call'[j] = Idle) /\ ~ loaded'
  <2>1. CASE ~ c.live
    <3>1. call' = calls /\ UNCHANGED <<screen, loaded>>
      BY <1>1, <2>1 DEF Success, page
    <3>2. screen # "edit"
      BY <1>3, <1>4, <2>1 DEF CallInPlace, Uploads
    <3> QED
      BY <1>6, <3>1, <3>2 DEF PInv, FormWorks
  <2>2. CASE c.live
    <3>1. call' = Left(calls) /\ loaded' = FALSE
      BY <1>1, <2>2 DEF Success, ShowWith
    <3> QED
      BY <1>6, <3>1, LeftIdle
  <2> QED
    BY <2>1, <2>2
<1>8. Pending' = {} /\ ~ crashed'
  BY <1>1, <1>4, <1>7 DEF Pending, InPlace
<1> QED
  BY <1>7, <1>8 DEF InPlace, CallsWork, FormWorks

(* A chain leaves its twin behind, which repeats what is stored now.       *)
LEMMA ChainEndsWorks ==
  ASSUME TypeInv, PInv, NEW i \in Calls, DocumentSet(i), call[i].for \in Rewrites
  PROVE  InPlace' /\ CallsWork' /\ FormWorks'
<1> DEFINE c == call[i]
           calls == [call EXCEPT ![i] = Idle]
           w == wanted[currentUser]
           v == WantedNow(c)
           h == half[currentUser]
           f == c.for
<1>1. /\ c.stage = "setDocument" /\ Success(c, calls)
      /\ wanted' = [wanted EXCEPT ![c.uid] = v]
      /\ half' = [half EXCEPT ![c.uid] = @ /\ "picture" \notin c.asked]
      /\ UNCHANGED <<currentUser, crashed, pictures>>
  BY DEF DocumentSet, session
<1>2. i \in Pending
  BY <1>1, PendingCall
<1>3. InPlace /\ CallInPlace(c, screen, currentUser) /\ CallWorks(c, w, h, pictures[currentUser])
  BY <1>2 DEF PInv, InPlace, CallsWork
<1>4. c.asked = {f} /\ f \in Rewrites /\ f # "picture" /\ f \in Fields /\ InfoFields \subseteq Fields
      /\ "picture" \in Fields
  BY <1>3 DEF CallInPlace, Rewrites, Fields, InfoFields
<1> HIDE DEF v
<1>5. /\ c.uid = currentUser /\ currentUser \in Users /\ v # None /\ w # None
      /\ \A g \in Fields : v[g] = IF g = f THEN c.profile[f] ELSE w[g]
  BY <1>1, <1>2, <1>4, WritesWanted DEF v
<1>6. wanted'[currentUser] = v /\ (half'[currentUser] <=> h)
  BY <1>1, <1>4, <1>5 DEF TypeInv, StoreTyped
<1>7. \A j \in Calls : calls[j] = IF j = i THEN Idle ELSE call[j]
  BY DEF TypeInv, CallsTyped
<1> HIDE DEF c, w, h, f, calls
<1>8. CASE ~ c.live
  <2>1. call' = calls /\ UNCHANGED <<screen, form, loaded, changed>>
    BY <1>1, <1>8 DEF Success, page
  <2>2. InPlace' /\ Pending' = Pending \ {i} /\ \A j \in Pending' : call'[j] = call[j]
    BY <1>1, <1>3, <2>1, Ends DEF calls
  <2>3. w \in Profile /\ w[f] = c.profile[f]
    BY <1>3, <1>5, <1>8 DEF CallWorks, TypeInv, StoreTyped, w, f, c
  <2>4. v = w
    <3>1. v = [g \in Fields |-> IF g \in c.asked THEN c.profile[g] ELSE w[g]]
      BY <1>5 DEF v, WantedNow, w
    <3>2. w = [g \in Fields |-> w[g]]
      BY <2>3, ProfileFields DEF IsProfile
    <3> QED
      BY <1>4, <2>3, <3>1, <3>2
  <2>5. CallsWork'
    BY <1>1, <1>6, <2>2, <2>4 DEF PInv, CallsWork, CallWorks, Works, w, h
  <2>6. FormWorks'
    BY <1>1, <1>6, <2>1, <2>4 DEF PInv, FormWorks, Works, w, h
  <2> QED
    BY <2>2, <2>5, <2>6
<1>9. CASE c.live
  <2> DEFINE left == Left(calls)
  <2>1. ShowEdit(calls) /\ screen = f
    BY <1>1, <1>3, <1>9 DEF Success, CallInPlace, c, f
  <2>2. ASSUME NEW j \in Calls, left[j] # Idle
        PROVE  /\ j \in Pending /\ j # i /\ call[j] \in Call
               /\ left[j].live = FALSE /\ left[j].for = call[j].for
               /\ left[j].stage = call[j].stage /\ left[j].uid = call[j].uid
               /\ left[j].by = call[j].by /\ left[j].profile = call[j].profile
               /\ left[j].asked = call[j].asked
    <3>1. calls[j] # Idle
      BY <2>2, LeftIdle
    <3>2. j # i /\ calls[j] = call[j] /\ j \in Pending /\ call[j] \in Call
      BY <1>7, <3>1, PendingCall DEF Pending
    <3>3. /\ left[j].live = FALSE
          /\ \A g \in {"for", "stage", "uid", "by", "profile", "asked"} : left[j][g] = calls[j][g]
      BY <3>2, LeftSame
    <3> QED
      BY <3>2, <3>3
  <2> HIDE DEF left
  <2>3. ASSUME NEW j \in Pending, j # i
        PROVE  /\ call[j].for \in Rewrites \union {"edit"}
               /\ call[j].for \in Rewrites => call[j].for = f /\ call[j].profile[f] = c.profile[f]
               /\ CallInPlace(call[j], screen, currentUser)
               /\ CallWorks(call[j], w, h, pictures[currentUser])
    <3>1. Together(c, call[j]) /\ CallInPlace(call[j], screen, currentUser)
          /\ CallWorks(call[j], w, h, pictures[currentUser])
      BY <1>2, <2>3 DEF PInv, InPlace, CallsWork, c, w, h
    <3> QED
      BY <3>1 DEF Together, f, c
  <2>4. ASSUME NEW j \in Calls, left[j] # Idle
        PROVE  /\ left[j].for \in Rewrites \union {"edit"}
               /\ CallInPlace(left[j], "edit", currentUser)
               /\ CallWorks(left[j], wanted'[currentUser], half'[currentUser],
                            pictures'[currentUser])
    <3> DEFINE d == left[j]
               e == call[j]
    <3>1. /\ e \in Call /\ d.live = FALSE /\ d.for = e.for /\ d.stage = e.stage
          /\ d.uid = e.uid /\ d.by = e.by /\ d.profile = e.profile /\ d.asked = e.asked
      BY <2>2, <2>4
    <3>2. /\ e.for \in Rewrites \union {"edit"}
          /\ e.for \in Rewrites => e.for = f /\ e.profile[f] = c.profile[f]
          /\ CallInPlace(e, screen, currentUser) /\ CallWorks(e, w, h, pictures[currentUser])
      BY <2>2, <2>3, <2>4
    <3> HIDE DEF d, e
    <3>3. CallInPlace(d, "edit", currentUser)
      BY <3>1, <3>2 DEF CallInPlace, Rewrites
    <3>4. d.stage \in Puts \/ d.for = f => d.for = f /\ d.asked = {f}
      BY <1>4, <3>1, <3>2 DEF CallInPlace, Gets, Puts, Rewrites
    <3>5. v.picture = w.picture /\ v[f] = c.profile[f] /\ \A g \in InfoFields \ {f} : v[g] = w[g]
      BY <1>4, <1>5
    <3>6. /\ d.stage \in Puts => d.profile.gender # Blank
          /\ d.stage \in Puts /\ d.for # "create" => Works(d.profile, d.asked, v, h)
      BY <1>5, <3>1, <3>2, <3>4, <3>5 DEF CallWorks, Works, Agree
    <3>7. d.for \in Rewrites => v[d.for] = d.profile[d.for]
      BY <3>1, <3>2, <3>5
    <3>8. d.stage = "getDocument" => h \/ d.profile.picture = v.picture
      BY <1>5, <3>1, <3>2, <3>5 DEF CallWorks
    <3>9. d.stage = "setDocument" => "picture" \notin d.asked
      BY <1>4, <3>4 DEF Puts
    <3>10. CallWorks(d, v, h, pictures[currentUser])
      BY <1>5, <3>6, <3>7, <3>8, <3>9 DEF CallWorks
    <3>11. CallWorks(d, wanted'[currentUser], half'[currentUser], pictures'[currentUser])
      BY <1>1, <1>6, <3>10 DEF CallWorks, Works
    <3> QED
      BY <3>1, <3>2, <3>3, <3>11 DEF d
  <2>5. ASSUME NEW j \in Calls, NEW k \in Calls, j # k, left[j] # Idle, left[k] # Idle
        PROVE  Together(left[j], left[k])
    <3>1. /\ left[j].for = call[j].for /\ left[j].profile = call[j].profile
          /\ left[k].for = call[k].for /\ left[k].profile = call[k].profile
          /\ Together(call[j], call[k])
      BY <1>3, <2>2, <2>5 DEF InPlace
    <3> QED
      BY <3>1 DEF Together
  <2>6. ~ crashed' /\ UNCHANGED currentUser /\ screen # "login"
    BY <1>1, <1>3 DEF InPlace, CallInPlace
  <2> QED
    BY <2>1, <2>4, <2>5, <2>6, ShowEditWorks DEF left
<1> QED
  BY <1>8, <1>9

LEMMA DocumentSetWorks ==
  ASSUME TypeInv, PInv, NEW i \in Calls, DocumentSet(i)
  PROVE  PInv'
<1>1. InPlace' /\ CallsWork' /\ FormWorks'
  BY UploadEndsWorks, ChainEndsWorks
<1> QED
  BY <1>1, DocumentSetStores DEF PInv

-----------------------------------------------------------------------------
(* A patient user starts nothing before the last upload has been answered, *)
(* and every upload of theirs works on the stored profile.                 *)
THEOREM UploadsWork ==
  ASSUME Patient
  PROVE  Spec => []PInv
<1>1. Init => PInv
  <2> SUFFICES ASSUME Init PROVE PInv
    OBVIOUS
  <2>1. Pending = {}
    BY DEF Init, Pending
  <2>2. InPlace /\ CallsWork /\ FormWorks
    BY <2>1 DEF Init, InPlace, CallsWork, FormWorks
  <2>3. Existing # None
    BY ExistingAssumption, BlankAssumption
  <2>4. ASSUME NEW u \in Users PROVE StoreWorks(u)
    BY <2>3, ExistingAssumption DEF Init, StoreWorks
  <2> QED
    BY <2>2, <2>4 DEF PInv
<1>2. TypeInv /\ TypeInv' /\ IInv /\ IInv' /\ PInv /\ [Next]_vars => PInv'
  <2> SUFFICES ASSUME TypeInv, TypeInv', IInv, IInv', PInv, [Next]_vars PROVE PInv'
    OBVIOUS
  <2>1. CASE WizardNext
    <3>1. CASE CreateProfile
      BY <3>1, CreateWorks
    <3>2. CASE ContinueCharacteristics
      BY <3>2, RewriteWorks DEF ContinueCharacteristics, OnPage, Rewrites
    <3>3. CASE ContinueTraits
      BY <3>3, RewriteWorks DEF ContinueTraits, OnPage, Rewrites
    <3> QED
      BY <2>1, <3>1, <3>2, <3>3, PagesWork
  <2>2. CASE EditNext
    BY <2>2, EditsWork, OpenEditWorks, SaveWorks
  <2>3. ASSUME NEW i \in Calls, Answer(i) PROVE PInv'
    BY <2>3, PictureArrivesWorks, DocumentArrivesWorks, GetEndsWorks, PicturePutWorks,
       UploadFailsWorks, DocumentSetWorks DEF Answer
  <2>4. CASE UNCHANGED vars
    <3>1. /\ UNCHANGED <<store, call, crashed, screen, currentUser, loaded, form, changed>>
          /\ UNCHANGED <<wanted, half>>
      BY <2>4 DEF vars, session, store, page, history
    <3>2. FormWorks'
      BY <3>1 DEF PInv, FormWorks
    <3> QED
      BY <3>1, <3>2, StayWorks
  <2> QED
    BY <2>1, <2>2, <2>3, <2>4 DEF Next
<1> QED
  BY <1>1, <1>2, Invariant, Types, PTL DEF Spec

(* No way of changing a part of a profile undoes another.                  *)
THEOREM NoEditIsUndone ==
  ASSUME Patient
  PROVE  Spec => []EditsStand
<1>1. PInv => EditsStand
  <2> SUFFICES ASSUME PInv, Pending = {}, NEW u \in Users
               PROVE  IF wanted[u] = None
                        THEN documents[u] = None /\ (pictures[u] = None \/ half[u])
                        ELSE /\ documents[u] = Info(wanted[u])
                             /\ pictures[u] = wanted[u].picture \/ half[u]
    BY DEF EditsStand
  <2> QED
    BY DEF PInv, StoreWorks, PuttingPicture
<1> QED
  BY <1>1, UploadsWork, PTL

(* An upload writes the profile of the user who asked for it.              *)
THEOREM UploadsAreOwn ==
  ASSUME Patient
  PROVE  Spec => []OwnProfile
<1>1. TypeInv /\ PInv => OwnProfile
  BY PendingCall DEF PInv, InPlace, CallInPlace, OwnProfile, Puts
<1> QED
  BY <1>1, Types, UploadsWork, PTL

-----------------------------------------------------------------------------
(* Profiles implements ProfileRegister.                                    *)

Requests == [i \in Calls |-> Request(call[i])]

(* The steps of the register, one place at a time.                         *)
LEMMA RegisterRests ==
  ASSUME UNCHANGED documents, \A i \in Calls : Request(call'[i]) = Request(call[i])
  PROVE  [Register!Next]_(Register!vars)
<1>1. [i \in Calls |-> Request(call'[i])] = [i \in Calls |-> Request(call[i])]
  OBVIOUS
<1>2. UNCHANGED Register!vars
  BY <1>1 DEF Register!vars
<1> QED
  BY <1>2

LEMMA RegisterAsks ==
  ASSUME UNCHANGED documents, NEW S \in SUBSET Calls, NEW r, r # NoRequest, r.by \in Users,
         \A i \in Calls : Request(call[i]) = NoRequest,
         \A i \in Calls : Request(call'[i]) = IF i \in S THEN r ELSE NoRequest
  PROVE  [Register!Next]_(Register!vars)
<1>1. CASE S = {}
  BY <1>1, RegisterRests
<1>2. CASE S # {}
  <2> DEFINE old == [i \in Calls |-> Request(call[i])]
             new == [i \in Calls |-> Request(call'[i])]
  <2>1. \A i \in Calls : old[i] = NoRequest /\ new[i] = IF i \in S THEN r ELSE NoRequest
    OBVIOUS
  <2>2. DOMAIN old = Calls /\ DOMAIN new = Calls
    OBVIOUS
  <2> HIDE DEF old, new
  <2>3. {i \in DOMAIN old : new[i] # old[i]} = S
    BY <2>1, <2>2
  <2>4. Register!Ask
    BY <1>2, <2>1, <2>2, <2>3 DEF Register!Ask, Register!Places, old, new
  <2> QED
    BY <2>4 DEF Register!Next
<1> QED
  BY <1>1, <1>2

LEMMA RegisterDrops ==
  ASSUME UNCHANGED documents, NEW i \in Calls, Request(call'[i]) = NoRequest,
         \A j \in Calls : j # i => Request(call'[j]) = Request(call[j])
  PROVE  [Register!Next]_(Register!vars)
<1>1. CASE Request(call[i]) = NoRequest
  BY <1>1, RegisterRests
<1>2. CASE Request(call[i]) # NoRequest
  <2> DEFINE old == [j \in Calls |-> Request(call[j])]
             new == [j \in Calls |-> Request(call'[j])]
  <2>1. new = [old EXCEPT ![i] = NoRequest] /\ old[i] # NoRequest /\ i \in DOMAIN old
    BY <1>2
  <2>2. Register!Drop(i) /\ i \in Register!Places
    BY <2>1 DEF Register!Drop, Register!Places
  <2> QED
    BY <2>2 DEF Register!Next
<1> QED
  BY <1>1, <1>2

LEMMA RegisterTakes ==
  ASSUME NEW i \in Calls, NEW r, r = Request(call[i]), r # NoRequest,
         documents[r.by] = None => InfoFields \subseteq DOMAIN r.new,
         documents' = [documents EXCEPT ![r.by] =
                         [f \in InfoFields |-> IF f \in DOMAIN r.new THEN r.new[f] ELSE @[f]]],
         Request(call'[i]) = NoRequest,
         \A j \in Calls : j # i => Request(call'[j]) = Request(call[j])
  PROVE  [Register!Next]_(Register!vars)
<1> DEFINE old == [j \in Calls |-> Request(call[j])]
           new == [j \in Calls |-> Request(call'[j])]
<1>1. new = [old EXCEPT ![i] = NoRequest] /\ old[i] = r /\ i \in DOMAIN old
  OBVIOUS
<1>2. Register!Take(i) /\ i \in Register!Places
  BY <1>1 DEF Register!Take, Register!Places, Register!Replaced
<1> QED
  BY <1>2 DEF Register!Next

(* What a request is.                                                      *)
LEMMA NoUpload ==
  ASSUME NEW c, c.for \notin Uploads
  PROVE  Request(c) = NoRequest
BY DEF Request

LEMMA IdleRequest == Request(Idle) = NoRequest
BY NoUpload DEF Idle, Uploads, Rewrites

LEMMA UploadRequest ==
  ASSUME NEW c, c.for \in Uploads
  PROVE  /\ Request(c).by = c.by /\ DOMAIN Request(c).new = c.asked \ {"picture"}
         /\ \A f \in c.asked \ {"picture"} : Request(c).new[f] = c.profile[f]
         /\ c.by \in Users => Request(c) # NoRequest
BY NobodyAssumption DEF Request, NoRequest

LEMMA SameRequest ==
  ASSUME NEW c, NEW d, c.for = d.for, c.by = d.by, c.asked = d.asked,
         \A f \in c.asked \ {"picture"} : c.profile[f] = d.profile[f]
  PROVE  Request(c) = Request(d)
<1>1. [f \in c.asked \ {"picture"} |-> c.profile[f]] = [f \in d.asked \ {"picture"} |-> d.profile[f]]
  OBVIOUS
<1> QED
  BY <1>1 DEF Request

LEMMA LeftRequest ==
  ASSUME NEW calls, NEW i \in Calls, calls[i] \in Call \union {Idle}
  PROVE  Request(Left(calls)[i]) = Request(calls[i])
<1>1. CASE calls[i] = Idle
  BY <1>1, LeftIdle
<1>2. CASE calls[i] \in Call
  <2> DEFINE c == Left(calls)[i]
             d == calls[i]
  <2>1. c.for = d.for /\ c.by = d.by /\ c.asked = d.asked /\ c.profile = d.profile
    BY <1>2, LeftSame
  <2> HIDE DEF c, d
  <2>2. Request(c) = Request(d)
    BY <2>1, SameRequest
  <2> QED
    BY <2>2 DEF c, d
<1> QED
  BY <1>1, <1>2

(* Nothing but the screen changes, or it is left behind.                   *)
LEMMA ScreenStep ==
  ASSUME TypeInv, UNCHANGED documents, call' = call \/ call' = Left(call)
  PROVE  [Register!Next]_(Register!vars)
<1>1. CASE call' = call
  BY <1>1, RegisterRests
<1>2. CASE call' = Left(call)
  <2>1. ASSUME NEW i \in Calls PROVE Request(call'[i]) = Request(call[i])
    BY <1>2, LeftRequest DEF TypeInv, CallsTyped, CallTyped
  <2> QED
    BY <2>1, RegisterRests
<1> QED
  BY <1>1, <1>2

(* A press asks for one thing, if in two places.                           *)
LEMMA PressStep ==
  ASSUME TypeInv, Pending = {}, UNCHANGED documents, NEW n, NEW c \in Call, call' = Started(n, c),
         c.for \in Uploads
  PROVE  [Register!Next]_(Register!vars)
<1>1. \A i \in Calls : call[i] = Idle
  BY PendingCall
<1>2. Places(n) \in SUBSET Calls /\ \A i \in Calls : call'[i] = IF i \in Places(n) THEN c ELSE Idle
  BY <1>1 DEF Started, Places
<1>3. Request(c) # NoRequest /\ Request(c).by \in Users
  BY UploadRequest DEF Call
<1>4. /\ \A i \in Calls : Request(call[i]) = NoRequest
      /\ \A i \in Calls : Request(call'[i]) = IF i \in Places(n) THEN Request(c) ELSE NoRequest
  BY <1>1, <1>2, IdleRequest
<1> QED
  BY <1>2, <1>3, <1>4, RegisterAsks

LEMMA WizardStep ==
  ASSUME TypeInv, TypeInv', Patient, WizardNext
  PROVE  [Register!Next]_(Register!vars)
<1>1. CASE Stay
  BY <1>1, ScreenStep DEF Stay, store
<1>2. CASE call' = Left(call) /\ UNCHANGED store
  BY <1>2, ScreenStep DEF store
<1>3. CASE CreateProfile
  <2> DEFINE c == UploadProfile("create", form', Fields)
  <2>1. /\ screen # "login" /\ Pending = {} /\ call' = Started(1, c) /\ UNCHANGED documents
        /\ form' \in Profile
    BY <1>3 DEF CreateProfile, OnPage, Waited, store, TypeInv, PageTyped
  <2>2. CallTyped(c, currentUser)
    BY <2>1, NewCallTyped DEF UploadProfile, Uploads, Gets, Puts
  <2>3. c.for = "create"
    BY DEF UploadProfile, NewCall
  <2> HIDE DEF c
  <2>4. c \in Call /\ c.for \in Uploads
    BY <2>2, <2>3 DEF CallTyped, Idle, Uploads
  <2> QED
    BY <2>1, <2>4, PressStep
<1>4. ASSUME NEW f \in Rewrites, NEW n, Rewrite(f, n), screen = f
      PROVE  [Register!Next]_(Register!vars)
  <2>1. Pending = {} /\ UNCHANGED documents
    BY <1>4, RewriteStarts DEF store
  <2>2. PICK c \in Call : call' = Started(n, c) /\ c.for = f
    BY <1>4, RewriteStarts
  <2> QED
    BY <1>4, <2>1, <2>2, PressStep DEF Uploads
<1>5. CASE ContinueCharacteristics
  BY <1>4, <1>5 DEF ContinueCharacteristics, OnPage, Rewrites
<1>6. CASE ContinueTraits
  BY <1>4, <1>6 DEF ContinueTraits, OnPage, Rewrites
<1>7. CASE \/ \E p \in Pictures : PickPicture(p)
           \/ \E n \in Names \union {Blank} : TypeName(n)
           \/ \E b \in Breeds \union {Blank} : TypeBreed(b)
           \/ \E v \in Sizes : PressSize(v)
           \/ \E v \in Genders : PressGender(v)
           \/ \E b \in Breeds, v \in Sizes : GuessFound(b, v)
           \/ GuessNotFound \/ GuessLost
           \/ \E b \in Bios \union {Blank} : TypeBio(b)
           \/ \E r \in Characteristics \union Traits : Select(r)
  BY <1>1, <1>7 DEF PickPicture, TypeName, TypeBreed, PressSize, PressGender, GuessFound,
                    GuessNotFound, GuessLost, TypeBio, Select
<1>8. CASE \/ Continue1 \/ Continue2 \/ Skip2 \/ Back2
           \/ Continue3 \/ Skip3 \/ Back3 \/ Back4
  BY <1>2, <1>8 DEF Continue1, Continue2, Skip2, Back2, Continue3, Skip3, Back3, Back4, Turn
<1> QED
  BY <1>3, <1>5, <1>6, <1>7, <1>8 DEF WizardNext

(* A new edit screen asks for nothing.                                     *)
LEMMA ShowEditRequests ==
  ASSUME NEW calls, \A i \in Calls : calls[i] \in Call \union {Idle}, ShowEdit(calls)
  PROVE  \A i \in Calls : Request(call'[i]) = Request(calls[i])
<1> DEFINE c == GetProfile("edit", Empty, {})
<1>1. PICK i \in Calls : calls[i] = Idle /\ call' = [Left(calls) EXCEPT ![i] = c]
  BY DEF ShowEdit
<1>2. c.for \notin Uploads
  BY DEF GetProfile, NewCall, Uploads, Rewrites
<1> HIDE DEF c
<1>3. \A j \in Calls : call'[j] = IF j = i THEN c ELSE Left(calls)[j]
  BY <1>1 DEF Left
<1>4. Request(c) = Request(calls[i])
  BY <1>1, <1>2, NoUpload, IdleRequest
<1> QED
  BY <1>3, <1>4, LeftRequest

LEMMA EditStep ==
  ASSUME TypeInv, Patient, EditNext
  PROVE  [Register!Next]_(Register!vars)
<1>1. CASE call' = Left(call) /\ UNCHANGED store
  BY <1>1, ScreenStep DEF store
<1>2. ASSUME NEW f, NEW v, Change(f, v) PROVE [Register!Next]_(Register!vars)
  BY <1>2, ScreenStep DEF Change, store
<1>3. CASE OpenEdit
  <2>1. ShowEdit(call) /\ UNCHANGED documents
    BY <1>3 DEF OpenEdit, store
  <2>2. \A i \in Calls : call[i] \in Call \union {Idle}
    BY DEF TypeInv, CallsTyped, CallTyped
  <2>3. \A i \in Calls : Request(call'[i]) = Request(call[i])
    BY <2>1, <2>2, ShowEditRequests
  <2> QED
    BY <2>1, <2>3, RegisterRests
<1>4. CASE SaveButton
  <2> DEFINE c == UploadProfile("save", form, changed)
  <2>1. /\ screen # "login" /\ Pending = {} /\ call' = Started(1, c) /\ UNCHANGED documents
        /\ form \in Profile /\ changed \in SUBSET Fields
    BY <1>4 DEF SaveButton, At, Waited, store, TypeInv, PageTyped
  <2>2. CallTyped(c, currentUser)
    BY <2>1, NewCallTyped DEF UploadProfile, Uploads, Gets, Puts
  <2>3. c.for = "save"
    BY DEF UploadProfile, NewCall
  <2> HIDE DEF c
  <2>4. c \in Call /\ c.for \in Uploads
    BY <2>2, <2>3 DEF CallTyped, Idle, Uploads
  <2> QED
    BY <2>1, <2>4, PressStep
<1>5. CASE \/ \E u \in Users : SignUp(u) \/ Login(u)
           \/ Logout \/ Cancel \/ EditCharacteristicsPressed \/ EditPersonalityPressed
  BY <1>1, <1>5 DEF SignUp, Login, Logout, Cancel, EditCharacteristicsPressed,
                    EditPersonalityPressed, Leave
<1>6. CASE \/ \E p \in Pictures : EditPicture(p)
           \/ \E n \in Names : EditName(n)
           \/ \E b \in Breeds : EditBreed(b)
           \/ \E b \in Bios \union {Blank} : EditBio(b)
           \/ PressedGenderButton \/ PressedSizeButton
  BY <1>2, <1>6 DEF EditPicture, EditName, EditBreed, EditBio, PressedGenderButton,
                    PressedSizeButton
<1> QED
  BY <1>3, <1>4, <1>5, <1>6 DEF EditNext

(* An answer that stores nothing.                                          *)
LEMMA OneRequest ==
  ASSUME TypeInv, UNCHANGED documents, NEW i \in Calls, NEW d, call' = [call EXCEPT ![i] = d],
         Request(d) \in {Request(call[i]), NoRequest}
  PROVE  [Register!Next]_(Register!vars)
<1>1. \A j \in Calls : call'[j] = IF j = i THEN d ELSE call[j]
  BY DEF TypeInv, CallsTyped
<1>2. CASE Request(d) = Request(call[i])
  BY <1>1, <1>2, RegisterRests
<1>3. CASE Request(d) = NoRequest
  BY <1>1, <1>3, RegisterDrops
<1> QED
  BY <1>2, <1>3

LEMMA ReadingStep ==
  ASSUME TypeInv, PInv, NEW i \in Calls,
         PictureArrives(i) \/ DocumentArrives(i) \/ PicturePut(i)
  PROVE  [Register!Next]_(Register!vars)
<1> DEFINE c == call[i]
           d == call'[i]
<1>1. c.stage # "idle" /\ UNCHANGED documents
  BY DEF PictureArrives, DocumentArrives, PicturePut, store
<1>2. i \in Pending /\ c \in Call
  BY <1>1, PendingCall
<1>3. CallInPlace(c, screen, currentUser)
  BY <1>2 DEF PInv, InPlace
<1>4. DOMAIN call = Calls
  BY DEF TypeInv, CallsTyped
<1>5. ASSUME call' = [call EXCEPT ![i] = d], d.for = c.for, d.by = c.by, d.asked = c.asked,
             \A f \in c.asked \ {"picture"} : d.profile[f] = c.profile[f]
      PROVE  [Register!Next]_(Register!vars)
  <2>1. Request(d) = Request(call[i])
    <3> HIDE DEF c, d
    <3>1. Request(d) = Request(c)
      BY <1>5, SameRequest
    <3> QED
      BY <3>1 DEF c
  <2> HIDE DEF d
  <2> QED
    BY <1>1, <1>5, <2>1, OneRequest
<1>6. CASE PictureArrives(i)
  <2>1. call' = [call EXCEPT ![i].stage = "getDocument",
                             ![i].profile.picture = pictures[c.uid]]
    BY <1>6 DEF PictureArrives
  <2>2. /\ call' = [call EXCEPT ![i] = d]
        /\ d.for = c.for /\ d.by = c.by /\ d.asked = c.asked
        /\ d.profile = [c.profile EXCEPT !.picture = pictures[c.uid]]
    BY <1>2, <1>4, <2>1 DEF Call
  <2>3. \A f \in c.asked \ {"picture"} : d.profile[f] = c.profile[f]
    <3>1. IsProfile(c.profile) /\ c.asked \subseteq Fields
      BY <1>2, ProfileFields DEF Call
    <3> HIDE DEF c, d
    <3> QED
      BY <2>2, <3>1 DEF IsProfile
  <2> QED
    BY <1>5, <2>2, <2>3
<1>7. CASE PicturePut(i)
  <2>1. call' = [call EXCEPT ![i].stage = "setDocument", ![i].uid = currentUser]
    BY <1>7 DEF PicturePut
  <2>2. /\ call' = [call EXCEPT ![i] = d]
        /\ d.for = c.for /\ d.by = c.by /\ d.asked = c.asked /\ d.profile = c.profile
    BY <1>2, <1>4, <2>1 DEF Call
  <2> QED
    BY <1>5, <2>2
<1>8. CASE DocumentArrives(i) /\ c.for = "edit"
  <2>1. call' = [call EXCEPT ![i] = Idle]
    BY <1>8 DEF DocumentArrives
  <2> QED
    BY <1>1, <2>1, IdleRequest, OneRequest
<1>9. CASE DocumentArrives(i) /\ c.for # "edit"
  <2> DEFINE p == With(documents[c.uid], c.profile.picture)
             q == [p EXCEPT ![c.for] = c.profile[c.for]]
  <2>1. /\ c.stage = "getDocument"
        /\ call' = [call EXCEPT ![i].stage = "putPicture", ![i].uid = currentUser,
                                ![i].profile = q]
    BY <1>9 DEF DocumentArrives
  <2>2. /\ call' = [call EXCEPT ![i] = d]
        /\ d.for = c.for /\ d.by = c.by /\ d.asked = c.asked /\ d.profile = q
    BY <1>2, <1>4, <2>1 DEF Call
  <2>3. c.asked = {c.for} /\ c.for \in Fields
    BY <1>2, <1>3, <1>9, <2>1 DEF CallInPlace, Call, Uploads, Rewrites, Puts, Fields, InfoFields
  <2>4. IsProfile(p)
    BY DEF IsProfile, With
  <2>5. q[c.for] = c.profile[c.for]
    <3> HIDE DEF p, c
    <3> QED
      BY <2>3, <2>4 DEF IsProfile
  <2>6. \A f \in c.asked \ {"picture"} : d.profile[f] = c.profile[f]
    <3> HIDE DEF q, c, d
    <3> QED
      BY <2>2, <2>3, <2>5
  <2> QED
    BY <1>5, <2>2, <2>6
<1> QED
  BY <1>6, <1>7, <1>8, <1>9

(* An upload takes effect when its document is written.                    *)
LEMMA WritingStep ==
  ASSUME TypeInv, PInv, NEW i \in Calls, DocumentSet(i)
  PROVE  [Register!Next]_(Register!vars)
<1> DEFINE c == call[i]
           u == currentUser
           w == wanted[currentUser]
           v == WantedNow(c)
           r == Request(c)
           calls == [call EXCEPT ![i] = Idle]
<1>1. /\ c.stage = "setDocument" /\ Success(c, calls)
      /\ documents' = [documents EXCEPT ![c.uid] = Info(c.profile)]
  BY DEF DocumentSet
<1>2. i \in Pending
  BY <1>1, PendingCall
<1> HIDE DEF v
<1>3. /\ c \in Call /\ c.for \in Uploads /\ c.uid = u /\ u \in Users
      /\ Info(v) = Info(c.profile)
      /\ \A f \in Fields : v[f] = IF f \in c.asked THEN c.profile[f] ELSE w[f]
      /\ w = None => c.asked = Fields
  BY <1>1, <1>2, WritesWanted DEF v
<1>4. CallInPlace(c, screen, u) /\ StoreWorks(u)
  BY <1>2, <1>3 DEF PInv, InPlace
<1>5. /\ c.by = u /\ documents[u] = IF w = None THEN None ELSE Info(w)
  BY <1>4 DEF CallInPlace, StoreWorks
<1>6. w # None => Info(w) # None
  BY <1>3, BlankAssumption DEF TypeInv, StoreTyped
<1>7. DOMAIN documents = Users /\ InfoFields \subseteq Fields /\ "picture" \notin InfoFields
  BY DEF TypeInv, StoreTyped, Fields, InfoFields
<1>8. \A j \in Calls : calls[j] \in Call \union {Idle} /\ calls[j] = IF j = i THEN Idle ELSE call[j]
  BY DEF TypeInv, CallsTyped, CallTyped
<1>9. \A j \in Calls : Request(call'[j]) = Request(calls[j])
  <2> HIDE DEF c, calls
  <2>1. CASE call' = calls
    BY <2>1
  <2>2. CASE call' = Left(calls)
    BY <1>8, <2>2, LeftRequest
  <2>3. CASE ShowEdit(calls)
    BY <1>8, <2>3, ShowEditRequests
  <2> QED
    BY <1>1, <2>1, <2>2, <2>3 DEF Success
<1> HIDE DEF c, u, w, calls
<1>10. /\ r.by = u /\ r # NoRequest /\ DOMAIN r.new = c.asked \ {"picture"}
       /\ \A f \in c.asked \ {"picture"} : r.new[f] = c.profile[f]
  BY <1>3, <1>5, UploadRequest
<1> HIDE DEF r
<1>11. documents[r.by] = None => InfoFields \subseteq DOMAIN r.new
  BY <1>3, <1>5, <1>6, <1>7, <1>10
<1>12. Info(c.profile) =
         [f \in InfoFields |-> IF f \in DOMAIN r.new THEN r.new[f] ELSE documents[u][f]]
  <2>1. ASSUME NEW f \in InfoFields
        PROVE  c.profile[f] = IF f \in DOMAIN r.new THEN r.new[f] ELSE documents[u][f]
    <3>1. CASE f \in c.asked
      BY <1>7, <1>10, <2>1, <3>1
    <3>2. CASE f \notin c.asked
      <4>1. Info(w)[f] = w[f] /\ Info(v)[f] = v[f] /\ Info(c.profile)[f] = c.profile[f]
        BY <2>1 DEF Info
      <4>2. w # None /\ v[f] = w[f]
        BY <1>3, <1>7, <2>1, <3>2
      <4> QED
        BY <1>3, <1>5, <1>10, <3>2, <4>1, <4>2
    <3> QED
      BY <3>1, <3>2
  <2> QED
    BY <2>1 DEF Info
<1>13. documents' = [documents EXCEPT ![r.by] =
                       [f \in InfoFields |-> IF f \in DOMAIN r.new THEN r.new[f] ELSE @[f]]]
  BY <1>1, <1>3, <1>7, <1>10, <1>12
<1>14. Request(call'[i]) = NoRequest /\ \A j \in Calls : j # i => Request(call'[j]) = Request(call[j])
  BY <1>8, <1>9, IdleRequest
<1>15. r = Request(call[i])
  BY DEF r, c
<1> QED
  BY <1>10, <1>11, <1>13, <1>14, <1>15, RegisterTakes

(* For a patient user the profiles are the register: a press asks for some *)
(* fields of the user's own profile, and each request changes these fields *)
(* and no others, or is dropped (CreateProfile3.swift:53,                  *)
(* EditProfileViewController.swift:161).                                   *)
THEOREM ImplementsRegister ==
  ASSUME Patient
  PROVE  Spec => RegisterSpec
<1>1. Init => Register!Init
  <2> SUFFICES ASSUME Init PROVE Register!Init
    OBVIOUS
  <2>1. \A i \in Calls : Request(call[i]) = NoRequest
    BY IdleRequest DEF Init
  <2> QED
    BY <2>1 DEF Init, Register!Init, Register!Places
<1>2. TypeInv /\ TypeInv' /\ PInv /\ [Next]_vars => [Register!Next]_(Register!vars)
  <2> SUFFICES ASSUME TypeInv, TypeInv', PInv, [Next]_vars
               PROVE  [Register!Next]_(Register!vars)
    OBVIOUS
  <2>1. CASE WizardNext
    BY <2>1, WizardStep
  <2>2. CASE EditNext
    BY <2>2, EditStep
  <2>3. ASSUME NEW i \in Calls, Answer(i) PROVE [Register!Next]_(Register!vars)
    <3>1. CASE PictureArrives(i) \/ DocumentArrives(i) \/ PicturePut(i)
      BY <3>1, ReadingStep
    <3>2. CASE GetEnds(i) \/ UploadFails(i)
      <4>1. UNCHANGED documents /\ call' = [call EXCEPT ![i] = Idle]
        BY <3>2 DEF GetEnds, UploadFails, store
      <4> QED
        BY <4>1, IdleRequest, OneRequest
    <3>3. CASE DocumentSet(i)
      BY <3>3, WritingStep
    <3> QED
      BY <2>3, <3>1, <3>2, <3>3 DEF Answer
  <2>4. CASE UNCHANGED vars
    BY <2>4, ScreenStep DEF vars, store
  <2> QED
    BY <2>1, <2>2, <2>3, <2>4 DEF Next
<1> QED
  BY <1>1, <1>2, Types, UploadsWork, PTL DEF Spec, RegisterSpec, Register!Spec
=============================================================================
