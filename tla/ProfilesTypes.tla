---------------------------- MODULE ProfilesTypes ----------------------------
(***************************************************************************)
(* Proofs about Profiles, for patient and impatient users alike: the       *)
(* variables keep their types, and how often a row can get into a list.    *)
(***************************************************************************)
EXTENDS ProfilesProofs

(* The values of each field of a profile.                                  *)
ValuesOf ==
    [picture |-> Pictures \union {Blank}, name |-> Names \union {Blank},
     breed |-> Breeds \union {Blank}, size |-> Sizes \union {Blank},
     gender |-> Genders \union {Blank}, bio |-> Bios \union {Blank},
     traits |-> [Traits -> 0 .. MaxPicks],
     characteristics |-> [Characteristics -> 0 .. MaxPicks]]

LEMMA PictureValues == ValuesOf["picture"] = Pictures \union {Blank}
BY DEF ValuesOf

LEMMA ProfileFields ==
  ASSUME NEW p
  PROVE  p \in Profile <=> IsProfile(p) /\ \A f \in Fields : p[f] \in ValuesOf[f]
<1>1. ASSUME p \in Profile PROVE IsProfile(p) /\ \A f \in Fields : p[f] \in ValuesOf[f]
  BY <1>1 DEF Profile, IsProfile, Fields, InfoFields, ValuesOf
<1>2. ASSUME IsProfile(p), \A f \in Fields : p[f] \in ValuesOf[f] PROVE p \in Profile
  <2>1. /\ p.picture \in Pictures \union {Blank} /\ p.name \in Names \union {Blank}
        /\ p.breed \in Breeds \union {Blank} /\ p.size \in Sizes \union {Blank}
        /\ p.gender \in Genders \union {Blank} /\ p.bio \in Bios \union {Blank}
        /\ p.traits \in [Traits -> 0 .. MaxPicks]
        /\ p.characteristics \in [Characteristics -> 0 .. MaxPicks]
    BY <1>2 DEF Fields, InfoFields, ValuesOf
  <2>2. p = [picture |-> p.picture, name |-> p.name, breed |-> p.breed, size |-> p.size,
             gender |-> p.gender, bio |-> p.bio, traits |-> p.traits,
             characteristics |-> p.characteristics]
    BY <1>2 DEF IsProfile, Fields, InfoFields
  <2> QED
    BY <2>1, <2>2 DEF Profile
<1> QED
  BY <1>1, <1>2

LEMMA EmptyTyped == Empty \in Profile
<1>1. 0 \in 0 .. MaxPicks
  BY BoundsAssumption DEF MaxPicks
<1> QED
  BY <1>1 DEF Empty, Profile

(* A field gets a value of its own.                                        *)
LEMMA FieldTyped ==
  ASSUME NEW p \in Profile, NEW f \in Fields, NEW v \in ValuesOf[f]
  PROVE  [p EXCEPT ![f] = v] \in Profile
<1> DEFINE q == [p EXCEPT ![f] = v]
<1>1. IsProfile(p) /\ \A g \in Fields : p[g] \in ValuesOf[g]
  BY ProfileFields
<1>2. IsProfile(q) /\ \A g \in Fields : q[g] = IF g = f THEN v ELSE p[g]
  BY <1>1 DEF IsProfile
<1> HIDE DEF q
<1>3. q \in Profile
  BY <1>1, <1>2, ProfileFields
<1> QED
  BY <1>3 DEF q

(* Fields of two profiles make a profile.                                  *)
LEMMA MixTyped ==
  ASSUME NEW p \in Profile, NEW q \in Profile, NEW fs
  PROVE  [f \in Fields |-> IF f \in fs THEN p[f] ELSE q[f]] \in Profile
<1> DEFINE r == [f \in Fields |-> IF f \in fs THEN p[f] ELSE q[f]]
<1>1. \A f \in Fields : p[f] \in ValuesOf[f] /\ q[f] \in ValuesOf[f]
  BY ProfileFields
<1>2. IsProfile(r) /\ \A f \in Fields : r[f] \in ValuesOf[f]
  BY <1>1 DEF IsProfile
<1> HIDE DEF r
<1>3. r \in Profile
  BY <1>2, ProfileFields
<1> QED
  BY <1>3 DEF r

LEMMA HandedTyped ==
  ASSUME NEW p \in Profile, NEW fs
  PROVE  Handed(p, fs) \in Profile
BY EmptyTyped, MixTyped DEF Handed

(* A document is a profile without a picture, and becomes one with any.    *)
IsDocument(d) == With(d, Blank) \in Profile

LEMMA WithTyped ==
  ASSUME NEW d, IsDocument(d), NEW picture \in Pictures \union {Blank}
  PROVE  With(d, picture) \in Profile
<1>1. \A f \in Fields : With(d, Blank)[f] \in ValuesOf[f]
  BY ProfileFields DEF IsDocument
<1>2. /\ IsProfile(With(d, picture))
      /\ \A f \in Fields : With(d, picture)[f] =
           IF f = "picture" THEN picture ELSE With(d, Blank)[f]
  BY DEF With, IsProfile
<1>3. \A f \in Fields : With(d, picture)[f] \in ValuesOf[f]
  BY <1>1, <1>2, PictureValues
<1> QED
  BY <1>2, <1>3, ProfileFields

LEMMA InfoTyped ==
  ASSUME NEW p \in Profile
  PROVE  IsDocument(Info(p))
<1>1. \A f \in Fields : p[f] \in ValuesOf[f]
  BY ProfileFields
<1>2. /\ IsProfile(With(Info(p), Blank))
      /\ \A f \in Fields : With(Info(p), Blank)[f] = IF f = "picture" THEN Blank ELSE p[f]
  BY DEF With, Info, IsProfile, Fields
<1>3. \A f \in Fields : With(Info(p), Blank)[f] \in ValuesOf[f]
  BY <1>1, <1>2, PictureValues
<1> QED
  BY <1>2, <1>3, ProfileFields DEF IsDocument

-----------------------------------------------------------------------------
(* The parts of the invariant.                                             *)

SessionTyped ==
    /\ currentUser \in accounts \union {NoUser}
    /\ accounts \subseteq Users
    /\ currentUser = NoUser => screen = "login"

StoreTyped ==
    /\ DOMAIN documents = Users
    /\ \A u \in Users : documents[u] # None => IsDocument(documents[u])
    /\ pictures \in [Users -> Pictures \union {Blank, None}]
    /\ wanted \in [Users -> Profile \union {None}]
    /\ half \in [Users -> BOOLEAN]

(* A call while u is logged in: only rewriting chains and the edit screen  *)
(* read, and the screens that wait for a call are not the login screen.    *)
CallTyped(c, u) ==
    /\ c \in Call \union {Idle}
    /\ c.stage \in Gets => c.for \in Rewrites \union {"edit"}
    /\ c.live => u # NoUser

CallsTyped == DOMAIN call = Calls /\ call = [i \in Calls |-> call[i]]
              /\ \A i \in Calls : CallTyped(call[i], currentUser)

PageTyped ==
    /\ crashed \in BOOLEAN
    /\ screen \in Screens
    /\ form \in Profile
    /\ lit \in [size : SUBSET Sizes, gender : SUBSET Genders]
    /\ guess \in {"none", "asked", "lost"}
    /\ selected \subseteq Characteristics \union Traits
    /\ loaded \in BOOLEAN
    /\ approved \in Profile
    /\ pressed \in BOOLEAN
    /\ repeats \in 0 .. MaxRepeats
    /\ changed \subseteq Fields

(* How often a row can be in the lists p that screen s makes, when n steps *)
(* have been repeated and its button has been pressed or not.              *)
AtMost(list, n) == \A r \in DOMAIN list : list[r] <= n

ListsFit(s, p, n, button) ==
    /\ s = "page3" => AtMost(p.characteristics, n)
    /\ s = "page4" =>
         /\ AtMost(p.characteristics, n + 1)
         /\ AtMost(p.traits, IF button THEN n + 1 ELSE n)
    /\ s \in Rewrites => AtMost(p[s], IF button THEN n + 1 ELSE n)

TypeInv ==
    /\ SessionTyped /\ StoreTyped /\ CallsTyped /\ PageTyped
    /\ ListsFit(screen, form, repeats, pressed)

LEMMA TypeInvTypes == TypeInv => TypeOK
<1> SUFFICES ASSUME TypeInv PROVE TypeOK
  OBVIOUS
<1>1. call \in [Calls -> Call \union {Idle}]
  BY DEF TypeInv, CallsTyped, CallTyped
<1> QED
  BY <1>1 DEF TypeInv, SessionTyped, StoreTyped, PageTyped, IsDocument, TypeOK

(* The lists of a profile, and a list with the selected rows appended.     *)
LEMMA ListFields ==
  /\ Rewrites \subseteq Fields
  /\ \A f \in Rewrites : ValuesOf[f] = [IF f = "traits" THEN Traits ELSE Characteristics
                                          -> 0 .. MaxPicks]
BY DEF Rewrites, Fields, InfoFields, ValuesOf

LEMMA AppendedFits ==
  ASSUME NEW S, NEW list \in [S -> 0 .. MaxPicks], NEW n \in 0 .. MaxRepeats,
         AtMost(list, n)
  PROVE  Appended(list) \in [S -> 0 .. MaxPicks] /\ AtMost(Appended(list), n + 1)
<1>1. \A r \in S : list[r] \in Nat /\ list[r] <= n
  BY DEF AtMost
<1>2. n + 1 \in 0 .. MaxPicks /\ n \in Nat /\ MaxPicks \in Nat
  BY BoundsAssumption DEF MaxPicks
<1>3. /\ DOMAIN Appended(list) = S /\ Appended(list) = [r \in S |-> Appended(list)[r]]
      /\ \A r \in S : Appended(list)[r] = IF r \in selected THEN list[r] + 1 ELSE list[r]
  BY DEF Appended
<1>4. \A r \in S : Appended(list)[r] \in 0 .. MaxPicks /\ Appended(list)[r] <= n + 1
  BY <1>1, <1>2, <1>3
<1> QED
  BY <1>3, <1>4 DEF AtMost

LEMMA EmptyFits ==
  ASSUME NEW s, NEW n \in 0 .. MaxRepeats
  PROVE  ListsFit(s, Empty, n, FALSE)
<1>1. n \in Nat /\ 0 <= n /\ 0 <= n + 1
  BY BoundsAssumption
<1>2. \A f \in Rewrites : AtMost(Empty[f], n) /\ AtMost(Empty[f], n + 1)
  BY <1>1 DEF AtMost, Empty, Rewrites
<1> QED
  BY <1>2 DEF ListsFit, Rewrites

(* Steps that stay on the screen and change no list.                       *)
LEMMA StayKeepsTypes ==
  ASSUME TypeInv, form' \in Profile, \A f \in Rewrites : form'[f] = form[f],
         lit' \in [size : SUBSET Sizes, gender : SUBSET Genders],
         guess' \in {"none", "asked", "lost"},
         selected' \subseteq Characteristics \union Traits, changed' \subseteq Fields,
         UNCHANGED <<session, store, call, crashed, screen, loaded, approved, pressed, repeats>>
  PROVE  TypeInv'
<1>1. SessionTyped' /\ StoreTyped' /\ CallsTyped' /\ PageTyped'
  BY DEF TypeInv, SessionTyped, StoreTyped, CallsTyped, PageTyped, session, store
<1>2. ListsFit(screen, form, repeats, pressed)'
  BY DEF TypeInv, ListsFit, Rewrites
<1> QED
  BY <1>1, <1>2 DEF TypeInv

(* A screen that has just been presented.                                  *)
LEMMA ShowKeepsTypes ==
  ASSUME NEW s \in Screens, NEW p \in Profile, ShowWith(s, p),
         crashed' \in BOOLEAN, approved' \in Profile, repeats' \in 0 .. MaxRepeats,
         ListsFit(s, p, repeats', FALSE), SessionTyped', StoreTyped', CallsTyped'
  PROVE  TypeInv'
<1>1. PageTyped'
  BY DEF ShowWith, PageTyped
<1>2. ListsFit(screen, form, repeats, pressed)'
  BY DEF ShowWith
<1> QED
  BY <1>1, <1>2 DEF TypeInv

(* Calls that a screen has left behind, whoever is logged in then.         *)
LEMMA LeftTyped ==
  ASSUME NEW calls, NEW u, NEW v, \A i \in Calls : CallTyped(calls[i], u)
  PROVE  /\ DOMAIN Left(calls) = Calls /\ Left(calls) = [i \in Calls |-> Left(calls)[i]]
         /\ \A i \in Calls : CallTyped(Left(calls)[i], v)
<1>1. ASSUME NEW i \in Calls PROVE CallTyped(Left(calls)[i], v)
  <2>1. CASE calls[i] = Idle
    BY <2>1 DEF Left, CallTyped, Idle, Gets
  <2>2. CASE calls[i] # Idle
    <3>1. calls[i] \in Call /\ Left(calls)[i] = [calls[i] EXCEPT !.live = FALSE]
      BY <2>2 DEF Left, CallTyped
    <3>2. CallTyped(calls[i], u)
      OBVIOUS
    <3> QED
      BY <3>1, <3>2 DEF CallTyped, Call
  <2> QED
    BY <2>1, <2>2
<1> QED
  BY <1>1 DEF Left

LEMMA TurnKeepsTypes ==
  ASSUME TypeInv, NEW s \in Screens, NEW p \in Profile, ShowWith(s, p), call' = Left(call),
         approved' \in Profile, repeats' \in 0 .. MaxRepeats, ListsFit(s, p, repeats', FALSE),
         SessionTyped', UNCHANGED <<store, crashed>>
  PROVE  TypeInv'
<1>1. CallsTyped'
  BY LeftTyped DEF TypeInv, CallsTyped
<1>2. StoreTyped' /\ crashed' \in BOOLEAN
  BY DEF TypeInv, StoreTyped, PageTyped, store
<1> QED
  BY <1>1, <1>2, ShowKeepsTypes

(* n calls c are started.                                                  *)
LEMMA StartedTyped ==
  ASSUME TypeInv, NEW n, NEW c, CallTyped(c, currentUser)
  PROVE  /\ DOMAIN Started(n, c) = Calls /\ Started(n, c) = [i \in Calls |-> Started(n, c)[i]]
         /\ \A i \in Calls : CallTyped(Started(n, c)[i], currentUser)
BY DEF TypeInv, CallsTyped, Started

(* A call that the screen in front starts has somebody's uid.              *)
LEMMA NewCallTyped ==
  ASSUME TypeInv, screen # "login", NEW for \in Uploads \union {"edit"},
         NEW stage \in Gets \union Puts, stage \in Gets => for \in Rewrites \union {"edit"},
         NEW p \in Profile, NEW fs \in SUBSET Fields
  PROVE  CallTyped(NewCall(for, stage, p, fs), currentUser)
<1>1. currentUser \in Users /\ currentUser # NoUser
  BY NobodyAssumption DEF TypeInv, SessionTyped
<1> QED
  BY <1>1 DEF CallTyped, NewCall, Call

-----------------------------------------------------------------------------
(* The pages.                                                              *)
LEMMA ToggleTyped ==
  ASSUME TypeInv, NEW p \in Profile, NEW k \in {"size", "gender"},
         NEW v \in (IF k = "size" THEN Sizes ELSE Genders), Toggle(p, k, v)
  PROVE  /\ form' \in Profile /\ \A f \in Rewrites : form'[f] = p[f]
         /\ lit' \in [size : SUBSET Sizes, gender : SUBSET Genders]
<1>1. k \in Fields /\ k \notin Rewrites /\ v \in ValuesOf[k] /\ Blank \in ValuesOf[k]
  BY DEF Fields, InfoFields, Rewrites, ValuesOf
<1>2. PICK w \in ValuesOf[k] : form' = [p EXCEPT ![k] = w]
  BY <1>1 DEF Toggle
<1>3. OneOut(lit[k]) \subseteq lit[k]
  BY DEF OneOut
<1>4. lit' \in [size : SUBSET Sizes, gender : SUBSET Genders]
  <2>1. lit \in [size : SUBSET Sizes, gender : SUBSET Genders]
    BY DEF TypeInv, PageTyped
  <2>2. PICK s : lit' = [lit EXCEPT ![k] = s] /\ s \subseteq lit[k] \union {v}
    BY <1>3 DEF Toggle
  <2>3. CASE k = "size"
    BY <2>1, <2>2, <2>3
  <2>4. CASE k = "gender"
    BY <2>1, <2>2, <2>4
  <2> QED
    BY <2>3, <2>4
<1>5. form' \in Profile
  BY <1>1, <1>2, FieldTyped
<1>6. \A f \in Rewrites : form'[f] = p[f]
  BY <1>1, <1>2, ListFields, ProfileFields DEF IsProfile
<1> QED
  BY <1>4, <1>5, <1>6

(* A field other than the lists gets a value of its own.                   *)
LEMMA ChangeKeepsTypes ==
  ASSUME TypeInv, NEW f \in Fields \ Rewrites, NEW v \in ValuesOf[f],
         form' = [form EXCEPT ![f] = v], guess' \in {"none", "asked", "lost"},
         changed' \subseteq Fields,
         UNCHANGED <<session, store, call, crashed, screen, lit, selected, loaded, approved,
                     pressed, repeats>>
  PROVE  TypeInv'
<1>1. form \in Profile
  BY DEF TypeInv, PageTyped
<1>2. form' \in Profile
  BY <1>1, FieldTyped
<1>3. \A g \in Rewrites : form'[g] = form[g]
  BY <1>1, ListFields, ProfileFields DEF IsProfile
<1> QED
  BY <1>2, <1>3, StayKeepsTypes DEF TypeInv, PageTyped

LEMMA FieldValues ==
  /\ {"picture", "name", "breed", "size", "gender", "bio"} \subseteq Fields \ Rewrites
  /\ ValuesOf["picture"] = Pictures \union {Blank} /\ ValuesOf["name"] = Names \union {Blank}
  /\ ValuesOf["breed"] = Breeds \union {Blank} /\ ValuesOf["size"] = Sizes \union {Blank}
  /\ ValuesOf["gender"] = Genders \union {Blank} /\ ValuesOf["bio"] = Bios \union {Blank}
BY DEF Fields, InfoFields, Rewrites, ValuesOf

LEMMA Page1KeepsTypes ==
  ASSUME TypeInv,
         \/ \E p \in Pictures : PickPicture(p)
         \/ \E n \in Names \union {Blank} : TypeName(n)
         \/ \E b \in Breeds \union {Blank} : TypeBreed(b)
         \/ \E v \in Sizes : PressSize(v)
         \/ \E v \in Genders : PressGender(v)
         \/ \E b \in Breeds, v \in Sizes : GuessFound(b, v)
         \/ GuessNotFound
         \/ GuessLost
         \/ \E b \in Bios \union {Blank} : TypeBio(b)
         \/ \E r \in Characteristics \union Traits : Select(r)
  PROVE  TypeInv'
<1> USE DEF Stay, history
<1>1. PageTyped
  BY DEF TypeInv
<1>2. ASSUME NEW p \in Pictures, PickPicture(p) PROVE TypeInv'
  BY <1>2, FieldValues, <1>1, ChangeKeepsTypes DEF PickPicture, PageTyped
<1>3. ASSUME NEW n \in Names \union {Blank}, TypeName(n) PROVE TypeInv'
  BY <1>3, FieldValues, <1>1, ChangeKeepsTypes DEF TypeName, PageTyped
<1>4. ASSUME NEW b \in Breeds \union {Blank}, TypeBreed(b) PROVE TypeInv'
  BY <1>4, FieldValues, <1>1, ChangeKeepsTypes DEF TypeBreed, PageTyped
<1>5. ASSUME NEW b \in Bios \union {Blank}, TypeBio(b) PROVE TypeInv'
  BY <1>5, FieldValues, <1>1, ChangeKeepsTypes DEF TypeBio, PageTyped
<1>6. ASSUME NEW v \in Sizes, PressSize(v) PROVE TypeInv'
  <2>1. Toggle(form, "size", v) /\ form \in Profile
    BY <1>1, <1>6 DEF PressSize, PageTyped
  <2> QED
    BY <1>1, <1>6, <2>1, ToggleTyped, StayKeepsTypes DEF PressSize, PageTyped
<1>7. ASSUME NEW v \in Genders, PressGender(v) PROVE TypeInv'
  <2>1. Toggle(form, "gender", v) /\ form \in Profile
    BY <1>1, <1>7 DEF PressGender, PageTyped
  <2> QED
    BY <1>1, <1>7, <2>1, ToggleTyped, StayKeepsTypes DEF PressGender, PageTyped
<1>8. ASSUME NEW b \in Breeds, NEW v \in Sizes, GuessFound(b, v) PROVE TypeInv'
  <2> DEFINE o == [form EXCEPT !.breed = b]
             p == [o EXCEPT !.size = v]
  <2>0. {"breed", "size"} \subseteq Fields /\ b \in ValuesOf["breed"] /\ v \in ValuesOf["size"]
    BY FieldValues
  <2>1. o \in Profile /\ p \in Profile
    <3>1. o \in Profile
      BY <1>1, <2>0, FieldTyped DEF PageTyped
    <3> HIDE DEF o
    <3> QED
      BY <2>0, <3>1, FieldTyped
  <2>2. \A f \in Rewrites : p[f] = form[f]
    <3>1. IsProfile(form) /\ \A f \in Rewrites : f \in Fields /\ f # "breed" /\ f # "size"
      BY <1>1, ListFields, ProfileFields DEF PageTyped, Rewrites
    <3>2. IsProfile(o) /\ \A f \in Rewrites : o[f] = form[f]
      BY <3>1 DEF IsProfile
    <3> HIDE DEF o
    <3> QED
      BY <3>1, <3>2 DEF IsProfile
  <2>3. Toggle(p, "size", v)
    BY <1>8 DEF GuessFound
  <2> HIDE DEF o, p
  <2>4. /\ form' \in Profile /\ \A f \in Rewrites : form'[f] = p[f]
        /\ lit' \in [size : SUBSET Sizes, gender : SUBSET Genders]
    BY <2>1, <2>3, ToggleTyped
  <2>5. /\ guess' = "none" /\ selected' = selected
        /\ UNCHANGED <<session, store, call, crashed, screen, loaded, history>>
    BY <1>8 DEF GuessFound
  <2> QED
    BY <1>1, <2>2, <2>4, <2>5, StayKeepsTypes DEF PageTyped
<1>9. CASE GuessNotFound \/ GuessLost
  BY <1>1, <1>9, StayKeepsTypes DEF GuessNotFound, GuessLost, PageTyped
<1>10. ASSUME NEW r \in Characteristics \union Traits, Select(r) PROVE TypeInv'
  BY <1>1, <1>10, StayKeepsTypes DEF Select, PageTyped
<1> QED
  BY <1>2, <1>3, <1>4, <1>5, <1>6, <1>7, <1>8, <1>9, <1>10

(* The lists that a page hands on.                                         *)
LEMMA HandedLists ==
  ASSUME NEW p, NEW fs
  PROVE  \A f \in Rewrites : Handed(p, fs)[f] = IF f \in fs THEN p[f] ELSE Empty[f]
BY ListFields DEF Handed

(* From one page to another: only page 4 gets more than it was handed, and *)
(* only going back from it repeats a step.                                 *)
LEMMA PagesKeepTypes ==
  ASSUME TypeInv,
         \/ Continue1 \/ Continue2 \/ Skip2 \/ Back2 \/ Continue3 \/ Skip3 \/ Back3 \/ Back4
  PROVE  TypeInv'
<1> DEFINE P == FirstFields
           Q == FirstFields \union {"bio"}
           R == FirstFields \union {"bio", "characteristics"}
<1>1. /\ form \in Profile /\ approved \in Profile /\ Empty \in Profile
      /\ repeats \in 0 .. MaxRepeats /\ repeats \in Nat
  BY EmptyTyped, BoundsAssumption DEF TypeInv, PageTyped
<1>2. /\ screen = "page1" \/ screen = "page2" \/ screen = "page3" \/ screen = "page4"
      /\ UNCHANGED session
  BY DEF Continue1, Continue2, Skip2, Back2, Continue3, Skip3, Back3, Back4, OnPage1, OnPage,
         Turn, session
<1>3. SessionTyped'
  BY <1>2 DEF TypeInv, SessionTyped, session
<1>4. \A b \in Bios \union {Blank} : [approved EXCEPT !.bio = b] \in Profile
  BY <1>1, FieldTyped, FieldValues
<1>5. ASSUME NEW n \in 0 .. MaxRepeats
      PROVE  /\ \A f \in Rewrites : AtMost(Empty[f], n) /\ AtMost(Empty[f], n + 1)
             /\ n \in Nat /\ n + 1 \in Nat
  BY EmptyFits, BoundsAssumption DEF AtMost, Empty, Rewrites
<1>6. ASSUME NEW s \in Screens, NEW fs, "traits" \notin fs, NEW a \in Profile,
             NEW n \in 0 .. MaxRepeats,
             ShowWith(s, Handed(form, fs)), approved' = a, repeats' = n,
             "characteristics" \in fs => s = "page3" /\ AtMost(form.characteristics, n),
             s \notin Rewrites,
             call' = Left(call), UNCHANGED <<store, crashed>>
      PROVE  TypeInv'
  <2>1. Handed(form, fs) \in Profile
    BY <1>1, HandedTyped
  <2>2. ListsFit(s, Handed(form, fs), n, FALSE)
    BY <1>5, <1>6, HandedLists DEF ListsFit, Rewrites
  <2> QED
    BY <1>3, <1>6, <2>1, <2>2, TurnKeepsTypes
<1>7. CASE Continue1
  <2>1. Handed(form, P) \in Profile /\ "traits" \notin P /\ "characteristics" \notin P
    BY <1>1, HandedTyped DEF FirstFields
  <2> QED
    BY <1>1, <1>6, <1>7, <2>1 DEF Continue1, Turn, Screens, Rewrites
<1>8. CASE Continue2 \/ Skip2
  <2>1. form.bio \in Bios \union {Blank}
    BY <1>1 DEF Profile
  <2>2. approved' \in Profile
    BY <1>4, <1>8, <2>1 DEF Continue2, Skip2
  <2>3. "traits" \notin Q /\ "characteristics" \notin Q
    BY DEF FirstFields
  <2> QED
    BY <1>1, <1>6, <1>8, <2>2, <2>3 DEF Continue2, Skip2, Turn, Screens, Rewrites
<1>9. CASE Back2 \/ Back3
  <2>1. "traits" \notin P /\ "characteristics" \notin P /\ approved' \in Profile
    BY <1>1, <1>4, <1>9 DEF FirstFields, Back2, Back3
  <2> QED
    BY <1>1, <1>6, <1>9, <2>1 DEF Back2, Back3, Turn, Screens, Rewrites
<1>10. CASE Skip3
  <2>1. "traits" \notin Q /\ "characteristics" \notin Q
    BY DEF FirstFields
  <2> QED
    BY <1>1, <1>6, <1>10, <2>1 DEF Skip3, Turn, Screens, Rewrites
<1>11. CASE Back4
  <2>1. AtMost(form.characteristics, repeats + 1) /\ repeats < MaxRepeats
    BY <1>11 DEF Back4, OnPage, TypeInv, ListsFit
  <2>3. repeats + 1 \in 0 .. MaxRepeats
    BY <1>1, <2>1, BoundsAssumption
  <2>2. "traits" \notin R
    BY DEF FirstFields
  <2> QED
    BY <1>1, <1>6, <1>11, <2>1, <2>2, <2>3 DEF Back4, Turn, Screens, Rewrites
<1>12. CASE Continue3
  <2> DEFINE h == Handed(form, Q)
             l == Appended(form.characteristics)
             p == [h EXCEPT !.characteristics = l]
  <2>1. /\ ShowWith("page4", p) /\ call' = Left(call) /\ screen = "page3"
        /\ UNCHANGED <<store, crashed, approved, repeats>>
    BY <1>12 DEF Continue3, OnPage
  <2>2. form.characteristics \in [Characteristics -> 0 .. MaxPicks]
    BY <1>1 DEF Profile
  <2>3. AtMost(form.characteristics, repeats)
    BY <2>1 DEF TypeInv, ListsFit
  <2>4. l \in [Characteristics -> 0 .. MaxPicks] /\ AtMost(l, repeats + 1)
    BY <1>1, <2>2, <2>3, AppendedFits
  <2>5. h \in Profile /\ "traits" \notin Q /\ h.traits = Empty.traits
    BY <1>1, HandedTyped, HandedLists DEF FirstFields, Rewrites
  <2> HIDE DEF h, l
  <2>6. p \in Profile
    BY <2>4, <2>5 DEF Profile
  <2>7. p.characteristics = l /\ p.traits = Empty.traits
    BY <2>5 DEF Profile
  <2> HIDE DEF p
  <2>8. AtMost(p.traits, repeats)
    BY <1>1, <1>5, <2>7 DEF Rewrites
  <2>9. ListsFit("page4", p, repeats, FALSE)
    BY <2>4, <2>7, <2>8 DEF ListsFit, Rewrites
  <2> QED
    BY <1>1, <1>3, <2>1, <2>6, <2>9, TurnKeepsTypes DEF Screens
<1> QED
  BY <1>7, <1>8, <1>9, <1>10, <1>11, <1>12

-----------------------------------------------------------------------------
(* The buttons that start calls.                                           *)

(* The rows selected are appended to the list that the screen makes, and   *)
(* its button has been pressed.                                            *)
LEMMA PressFits ==
  ASSUME TypeInv, NEW f \in Rewrites, form' = [form EXCEPT ![f] = Appended(@)], Press,
         AtMost(form[f], IF pressed THEN repeats + 1 ELSE repeats)
  PROVE  /\ form' \in Profile /\ repeats' \in 0 .. MaxRepeats /\ repeats <= repeats'
         /\ AtMost(form'[f], repeats' + 1) /\ \A g \in Fields : g # f => form'[g] = form[g]
<1>1. /\ form \in Profile /\ IsProfile(form) /\ f \in Fields
      /\ repeats \in 0 .. MaxRepeats /\ repeats \in Nat
  BY ListFields, ProfileFields, BoundsAssumption DEF TypeInv, PageTyped
<1>2. repeats' \in 0 .. MaxRepeats /\ AtMost(form[f], repeats') /\ repeats <= repeats'
  BY <1>1, BoundsAssumption DEF Press
<1>3. PICK S : ValuesOf[f] = [S -> 0 .. MaxPicks]
  BY ListFields
<1>4. form[f] \in [S -> 0 .. MaxPicks]
  BY <1>1, <1>3, ProfileFields
<1>5. Appended(form[f]) \in ValuesOf[f] /\ AtMost(Appended(form[f]), repeats' + 1)
  BY <1>2, <1>3, <1>4, AppendedFits
<1>6. form' = [form EXCEPT ![f] = Appended(form[f])]
  OBVIOUS
<1>7. form'[f] = Appended(form[f]) /\ \A g \in Fields : g # f => form'[g] = form[g]
  BY <1>1, <1>6 DEF IsProfile
<1>8. form' \in Profile
  BY <1>1, <1>5, <1>6, FieldTyped
<1> QED
  BY <1>2, <1>5, <1>7, <1>8

LEMMA CreateKeepsTypes ==
  ASSUME TypeInv, CreateProfile
  PROVE  TypeInv'
<1>1. /\ screen = "page4" /\ form' = [form EXCEPT !.traits = Appended(@)] /\ Press
      /\ call' = Started(1, UploadProfile("create", form', Fields))
      /\ UNCHANGED <<session, store, crashed, screen, lit, guess, selected, loaded, approved,
                     changed>>
  BY DEF CreateProfile, OnPage
<1>2. /\ AtMost(form.traits, IF pressed THEN repeats + 1 ELSE repeats)
      /\ AtMost(form.characteristics, repeats + 1)
  BY <1>1 DEF TypeInv, ListsFit
<1>3. /\ form' \in Profile /\ repeats' \in 0 .. MaxRepeats /\ repeats <= repeats'
      /\ AtMost(form'["traits"], repeats' + 1)
      /\ \A g \in Fields : g # "traits" => form'[g] = form[g]
  BY <1>1, <1>2, PressFits DEF Rewrites
<1>4. form'.characteristics = form.characteristics
  BY <1>3 DEF Fields, InfoFields
<1>5. AtMost(form'.characteristics, repeats' + 1)
  <2>1. /\ form.characteristics \in [Characteristics -> Nat]
        /\ repeats \in Nat /\ repeats' \in Nat
    BY <1>3, BoundsAssumption DEF TypeInv, PageTyped, Profile
  <2> QED
    BY <1>2, <1>3, <1>4, <2>1 DEF AtMost
<1>6. ListsFit(screen, form, repeats, pressed)'
  BY <1>1, <1>3, <1>5 DEF ListsFit, Press, Rewrites
<1>7. CallTyped(UploadProfile("create", form', Fields), currentUser)
  BY <1>1, <1>3, NewCallTyped DEF UploadProfile, Uploads, Gets, Puts
<1>8. CallsTyped'
  BY <1>1, <1>7, StartedTyped DEF CallsTyped, session
<1>9. PageTyped'
  BY <1>1, <1>3 DEF TypeInv, PageTyped, Press
<1> QED
  BY <1>1, <1>6, <1>8, <1>9 DEF TypeInv, SessionTyped, StoreTyped, session, store

LEMMA RewriteKeepsTypes ==
  ASSUME TypeInv, NEW f \in Rewrites, NEW n, Rewrite(f, n), screen = f
  PROVE  TypeInv'
<1> DEFINE q == [Empty EXCEPT ![f] = form'[f]]
           c == GetProfile(f, q, {f})
<1>1. /\ form' = [form EXCEPT ![f] = Appended(@)] /\ Press /\ call' = Repicked(Started(n, c), f)
      /\ UNCHANGED <<session, store, crashed, screen, lit, guess, selected, loaded, approved,
                     changed>>
  BY DEF Rewrite
<1>2. AtMost(form[f], IF pressed THEN repeats + 1 ELSE repeats)
  BY DEF TypeInv, ListsFit
<1>3. /\ form' \in Profile /\ repeats' \in 0 .. MaxRepeats /\ AtMost(form'[f], repeats' + 1)
  BY <1>1, <1>2, PressFits
<1>4. f \in Fields /\ form'[f] \in ValuesOf[f]
  BY <1>3, ListFields, ProfileFields
<1>5. q \in Profile
  BY <1>4, EmptyTyped, FieldTyped
<1> HIDE DEF q
<1>6. CallTyped(c, currentUser)
  <2>1. screen # "login" /\ f \in Uploads \union {"edit"} /\ f \in Rewrites \union {"edit"}
    BY DEF Rewrites, Uploads
  <2> QED
    BY <1>4, <1>5, <2>1, NewCallTyped DEF GetProfile, Gets
<1> HIDE DEF c
<1>7. ASSUME NEW i \in Calls PROVE CallTyped(call'[i], currentUser)
  <2> DEFINE o == Started(n, c)[i]
  <2>1. CallTyped(o, currentUser)
    BY <1>6, StartedTyped
  <2>2. call'[i] = IF o.live /\ o.for = f /\ o.stage \in Gets
                     THEN [o EXCEPT !.profile[f] = form'[f]] ELSE o
    BY <1>1 DEF Repicked
  <2> HIDE DEF o
  <2>3. CASE o = Idle
    BY <2>1, <2>2, <2>3 DEF Idle
  <2>4. CASE o \in Call
    <3>1. [o.profile EXCEPT ![f] = form'[f]] \in Profile
      BY <1>4, <2>4, FieldTyped DEF Call
    <3>2. PICK p \in Profile : [o EXCEPT !.profile[f] = form'[f]] = [o EXCEPT !.profile = p]
      BY <3>1
    <3>3. [o EXCEPT !.profile = p] \in Call
      BY <2>4 DEF Call
    <3>4. CallTyped([o EXCEPT !.profile = p], currentUser)
      BY <2>1, <2>4, <3>3 DEF CallTyped, Call
    <3> QED
      BY <2>1, <2>2, <3>2, <3>4
  <2> QED
    BY <2>1, <2>3, <2>4 DEF CallTyped
<1>8. CallsTyped'
  <2>1. DOMAIN call' = Calls /\ call' = [i \in Calls |-> call'[i]]
    BY <1>1 DEF Repicked
  <2>2. \A i \in Calls : CallTyped(call'[i], currentUser')
    BY <1>1, <1>7 DEF session
  <2> QED
    BY <2>1, <2>2 DEF CallsTyped
<1>9. PageTyped'
  BY <1>1, <1>3 DEF TypeInv, PageTyped, Press
<1>10. ListsFit(screen, form, repeats, pressed)'
  BY <1>1, <1>3 DEF ListsFit, Press, Rewrites
<1> QED
  BY <1>1, <1>8, <1>9, <1>10 DEF TypeInv, SessionTyped, StoreTyped, session, store

LEMMA WizardKeepsTypes ==
  ASSUME TypeInv, WizardNext
  PROVE  TypeInv'
<1>1. CASE ContinueCharacteristics
  BY <1>1, RewriteKeepsTypes DEF ContinueCharacteristics, OnPage, Rewrites
<1>2. CASE ContinueTraits
  BY <1>2, RewriteKeepsTypes DEF ContinueTraits, OnPage, Rewrites
<1> QED
  BY <1>1, <1>2, Page1KeepsTypes, PagesKeepTypes, CreateKeepsTypes DEF WizardNext

-----------------------------------------------------------------------------
(* The edit screen and the session.                                        *)

(* The edit screen has been presented, and its call started.               *)
LEMMA ShowEditKeepsTypes ==
  ASSUME TypeInv, NEW calls, \A i \in Calls : CallTyped(calls[i], currentUser),
         currentUser # NoUser, ShowEdit(calls), approved' \in Profile, StoreTyped',
         UNCHANGED <<session, crashed, repeats>>
  PROVE  TypeInv'
<1> DEFINE c == GetProfile("edit", Empty, {})
<1>1. currentUser \in Users
  BY DEF TypeInv, SessionTyped
<1>2. CallTyped(c, currentUser)
  BY <1>1, EmptyTyped DEF CallTyped, GetProfile, NewCall, Call, Gets
<1>3. PICK i \in Calls : call' = [Left(calls) EXCEPT ![i] = c]
  BY DEF ShowEdit
<1> HIDE DEF c
<1>4. /\ DOMAIN call' = Calls /\ call' = [j \in Calls |-> call'[j]]
      /\ \A j \in Calls : call'[j] = IF j = i THEN c ELSE Left(calls)[j]
  BY <1>3 DEF Left
<1>5. \A j \in Calls : CallTyped(Left(calls)[j], currentUser)
  BY LeftTyped
<1>6. CallsTyped'
  BY <1>2, <1>4, <1>5 DEF CallsTyped, session
<1>7. ShowWith("edit", Empty) /\ "edit" \in Screens
  BY DEF ShowEdit, Screens
<1>8. SessionTyped'
  BY <1>7 DEF TypeInv, SessionTyped, session, ShowWith
<1>9. repeats' \in 0 .. MaxRepeats /\ crashed' \in BOOLEAN
  BY DEF TypeInv, PageTyped
<1>10. ListsFit("edit", Empty, repeats', FALSE)
  BY <1>9, EmptyFits
<1> QED
  BY <1>6, <1>7, <1>8, <1>9, <1>10, EmptyTyped, ShowKeepsTypes

LEMMA EditKeepsTypes ==
  ASSUME TypeInv, EditNext
  PROVE  TypeInv'
<1>1. /\ repeats \in 0 .. MaxRepeats /\ form \in Profile /\ approved \in Profile
      /\ guess \in {"none", "asked", "lost"} /\ changed \subseteq Fields
  BY DEF TypeInv, PageTyped
<1>2. ASSUME NEW s \in Screens, ShowWith(s, Empty), call' = Left(call),
             approved' \in Profile, SessionTyped', UNCHANGED <<store, crashed, repeats>>
      PROVE  TypeInv'
  BY <1>1, <1>2, EmptyTyped, EmptyFits, TurnKeepsTypes
<1>3. ASSUME NEW u \in Users, SignUp(u) \/ Login(u) PROVE TypeInv'
  <2>1. /\ ShowWith("page1", Empty) \/ ShowWith("profile", Empty)
        /\ currentUser' = u /\ u \in accounts' /\ accounts' \subseteq Users
        /\ call' = Left(call) /\ UNCHANGED <<store, crashed, repeats, approved>>
    BY <1>3 DEF SignUp, Login, TypeInv, SessionTyped
  <2>2. SessionTyped'
    BY <2>1, NobodyAssumption DEF SessionTyped
  <2> QED
    BY <1>1, <1>2, <2>1, <2>2 DEF Screens
<1>4. CASE Logout
  <2>1. SessionTyped'
    BY <1>4 DEF Logout, TypeInv, SessionTyped, ShowWith
  <2> QED
    BY <1>1, <1>2, <1>4, <2>1, EmptyTyped DEF Logout, Screens
<1>5. CASE Cancel \/ EditCharacteristicsPressed \/ EditPersonalityPressed
  <2>1. \/ Leave("profile") \/ Leave("characteristics") \/ Leave("traits")
    BY <1>5 DEF Cancel, EditCharacteristicsPressed, EditPersonalityPressed
  <2>2. screen = "edit"
    BY <1>5 DEF Cancel, EditCharacteristicsPressed, EditPersonalityPressed, At
  <2>3. SessionTyped'
    BY <2>1, <2>2 DEF Leave, TypeInv, SessionTyped, session
  <2> QED
    BY <1>1, <1>2, <2>1, <2>3 DEF Leave, Screens
<1>6. CASE OpenEdit
  <2>1. currentUser # NoUser /\ ShowEdit(call) /\ UNCHANGED <<session, store, crashed, approved, repeats>>
    BY <1>6 DEF OpenEdit, At, TypeInv, SessionTyped
  <2>2. StoreTyped'
    BY <2>1 DEF TypeInv, StoreTyped, store
  <2>3. \A i \in Calls : CallTyped(call[i], currentUser)
    BY DEF TypeInv, CallsTyped
  <2> QED
    BY <1>1, <2>1, <2>2, <2>3, ShowEditKeepsTypes
<1>7. ASSUME NEW f \in Fields \ Rewrites, NEW v \in ValuesOf[f], Change(f, v) PROVE TypeInv'
  BY <1>1, <1>7, ChangeKeepsTypes DEF Change
<1>8. CASE SaveButton
  <2> DEFINE c == UploadProfile("save", form, changed)
  <2>1. /\ call' = Started(1, c) /\ screen = "edit"
        /\ UNCHANGED <<session, store, crashed, page, history>>
    BY <1>8 DEF SaveButton, At
  <2>2. CallTyped(c, currentUser)
    BY <1>1, <2>1, NewCallTyped DEF UploadProfile, Uploads, Gets, Puts
  <2> HIDE DEF c
  <2>3. CallsTyped'
    BY <2>1, <2>2, StartedTyped DEF CallsTyped, session
  <2>4. SessionTyped' /\ StoreTyped' /\ PageTyped' /\ ListsFit(screen, form, repeats, pressed)'
    BY <2>1 DEF TypeInv, SessionTyped, StoreTyped, PageTyped, session, store, page, history
  <2> QED
    BY <2>3, <2>4 DEF TypeInv
<1>9. ASSUME NEW b, \/ b \in Pictures /\ EditPicture(b)
                    \/ b \in Names /\ EditName(b)
                    \/ b \in Breeds /\ EditBreed(b)
                    \/ b \in Bios \union {Blank} /\ EditBio(b)
      PROVE  TypeInv'
  BY <1>7, <1>9, FieldValues DEF EditPicture, EditName, EditBreed, EditBio
<1>10. CASE PressedGenderButton \/ PressedSizeButton
  BY <1>7, <1>10, FieldValues DEF PressedGenderButton, PressedSizeButton, Genders, Sizes
<1> QED
  BY <1>3, <1>4, <1>5, <1>6, <1>8, <1>9, <1>10 DEF EditNext

-----------------------------------------------------------------------------
(* The answers.                                                            *)

(* One call becomes c, and nothing on the screen changes.                  *)
LEMMA AnswerTyped ==
  ASSUME TypeInv, NEW i \in Calls, NEW c, call' = [call EXCEPT ![i] = c],
         CallTyped(c, currentUser), StoreTyped', crashed' \in BOOLEAN,
         UNCHANGED <<session, page, history>>
  PROVE  TypeInv'
<1>1. CallsTyped'
  <2>1. DOMAIN call' = Calls /\ call' = [j \in Calls |-> call'[j]]
    BY DEF TypeInv, CallsTyped
  <2>2. \A j \in Calls : CallTyped(call'[j], currentUser')
    BY DEF TypeInv, CallsTyped, session
  <2> QED
    BY <2>1, <2>2 DEF CallsTyped
<1>2. SessionTyped' /\ PageTyped' /\ ListsFit(screen, form, repeats, pressed)'
  BY DEF TypeInv, SessionTyped, PageTyped, session, page, history
<1> QED
  BY <1>1, <1>2 DEF TypeInv

LEMMA IdleTyped == Idle.stage = "idle" /\ \A u : CallTyped(Idle, u)
BY DEF CallTyped, Idle, Gets

LEMMA DocumentArrivesTyped ==
  ASSUME IInv, TypeInv, NEW i \in Calls, DocumentArrives(i)
  PROVE  TypeInv'
<1> DEFINE c == call[i]
           p == With(documents[c.uid], c.profile.picture)
<1>1. /\ c.stage = "getDocument" /\ Stored(documents, c.uid)
      /\ CallTyped(c, currentUser) /\ form \in Profile
      /\ UNCHANGED <<session, store, crashed, screen, lit, guess, selected, history>>
  BY DEF DocumentArrives, TypeInv, CallsTyped, PageTyped
<1>2. c \in Call /\ c.for \in Rewrites \union {"edit"}
  <2>1. c # Idle
    BY <1>1, IdleTyped
  <2>2. c.stage \in Gets
    BY <1>1 DEF Gets
  <2> QED
    BY <1>1, <2>1, <2>2 DEF CallTyped
<1>3. c.profile \in Profile /\ c.profile.picture \in Pictures \union {Blank}
  BY <1>2, ProfileFields, FieldValues DEF Call
<1>4. p \in Profile
  BY <1>1, <1>3, WithTyped DEF Stored, TypeInv, StoreTyped
<1>5. SessionTyped' /\ StoreTyped' /\ crashed' \in BOOLEAN
  BY <1>1 DEF TypeInv, SessionTyped, StoreTyped, PageTyped, session, store
<1> HIDE DEF p
<1>6. CASE c.for = "edit"
  <2>1. call' = [call EXCEPT ![i] = Idle]
    BY <1>6 DEF DocumentArrives
  <2>2. CallsTyped'
    <3>1. DOMAIN call' = Calls /\ call' = [j \in Calls |-> call'[j]]
      BY <2>1 DEF TypeInv, CallsTyped
    <3>2. \A j \in Calls : CallTyped(call'[j], currentUser')
      BY <1>1, <2>1, IdleTyped DEF TypeInv, CallsTyped, session
    <3> QED
      BY <3>1, <3>2 DEF CallsTyped
  <2>3. /\ form' = Loaded(p) \/ form' = form
        /\ loaded' = TRUE \/ loaded' = loaded
        /\ form' = Loaded(p) => c.live \/ form' = form
    BY <1>6 DEF DocumentArrives, p
  <2>4. Loaded(p) \in Profile
    <3>1. PICK g \in Genders : Loaded(p) = [p EXCEPT !["gender"] = g]
      BY DEF Loaded, Genders
    <3>2. "gender" \in Fields /\ g \in ValuesOf["gender"]
      BY FieldValues
    <3> QED
      BY <1>4, <3>1, <3>2, FieldTyped
  <2>5. PageTyped'
    BY <1>1, <2>3, <2>4 DEF TypeInv, PageTyped, history
  <2>6. ListsFit(screen, form, repeats, pressed)'
    <3>1. CASE c.live
      <4>1. CallOK(c, screen, approved)
        BY DEF IInv, CallsOK
      <4>2. screen' = "edit"
        BY <1>1, <1>6, <3>1, <4>1 DEF CallOK
      <4>3. \A q, n, button : ListsFit("edit", q, n, button)
        BY DEF ListsFit, Rewrites
      <4> QED
        BY <4>2, <4>3
    <3>2. CASE ~ c.live
      <4>1. UNCHANGED <<screen, form, repeats, pressed>>
        BY <1>1, <1>6, <3>2 DEF DocumentArrives, history
      <4> QED
        BY <4>1 DEF TypeInv
    <3> QED
      BY <3>1, <3>2
  <2> QED
    BY <1>5, <2>2, <2>5, <2>6 DEF TypeInv
<1>7. CASE c.for # "edit"
  <2> DEFINE q == [p EXCEPT ![c.for] = c.profile[c.for]]
             d == [call[i] EXCEPT !.stage = "putPicture", !.uid = currentUser, !.profile = q]
  <2>1. call' = [call EXCEPT ![i] = d] /\ UNCHANGED <<form, loaded>>
    BY <1>7 DEF DocumentArrives, p, TypeInv, CallsTyped
  <2>2. c.for \in Fields /\ c.profile[c.for] \in ValuesOf[c.for]
    BY <1>2, <1>3, <1>7, ListFields, ProfileFields
  <2>3. q \in Profile
    BY <1>4, <2>2, FieldTyped
  <2> HIDE DEF q
  <2>4. currentUser \in Users \union {NoUser}
    BY DEF TypeInv, SessionTyped
  <2>5. d \in Call /\ d.stage = "putPicture" /\ d.live = c.live
    BY <1>2, <2>3, <2>4 DEF Call, Puts
  <2> HIDE DEF d
  <2>6. CallTyped(d, currentUser)
    BY <1>1, <2>5 DEF CallTyped, Gets
  <2> QED
    BY <1>1, <1>5, <2>1, <2>6, AnswerTyped DEF page
<1> QED
  BY <1>6, <1>7

(* The picture of a profile arrives, or its upload is answered.            *)
LEMMA AnswerKeepsTypes ==
  ASSUME IInv, TypeInv, NEW i \in Calls, Answer(i)
  PROVE  TypeInv'
<1> DEFINE c == call[i]
<1>1. CallTyped(c, currentUser) /\ StoreTyped /\ crashed \in BOOLEAN
  BY DEF TypeInv, CallsTyped, PageTyped
<1>2. c.stage # "idle" => c \in Call
  BY <1>1 DEF CallTyped, Idle
<1>3. CASE PictureArrives(i)
  <2> DEFINE pic == pictures[c.uid]
             q == [c.profile EXCEPT !.picture = pic]
             d == [c EXCEPT !.stage = "getDocument", !.profile = q]
  <2>0. pic \in Pictures \union {Blank}
    BY <1>1, <1>3 DEF PictureArrives, Stored, StoreTyped
  <2>1. /\ c.stage = "getPicture" /\ pic \in Pictures \union {Blank}
        /\ call' = [call EXCEPT ![i] = d]
        /\ UNCHANGED <<session, store, crashed, page, history>>
    BY <1>3, <2>0 DEF PictureArrives, TypeInv, CallsTyped
  <2>2. c \in Call
    BY <1>2, <2>1
  <2>3. q \in Profile
    <3>1. c.profile \in Profile
      BY <2>2 DEF Call
    <3> QED
      BY <2>1, <3>1, FieldTyped, FieldValues
  <2> HIDE DEF q, pic
  <2>4. d \in Call /\ d.live = c.live /\ d.for = c.for
    BY <2>2, <2>3 DEF Call, Gets
  <2>5. CallTyped(d, currentUser)
    BY <1>1, <2>1, <2>4 DEF CallTyped, Gets
  <2> HIDE DEF d
  <2>6. StoreTyped'
    BY <1>1, <2>1 DEF StoreTyped, store
  <2> QED
    BY <1>1, <2>1, <2>5, <2>6, AnswerTyped
<1>4. CASE GetEnds(i) \/ UploadFails(i)
  <2>1. /\ call' = [call EXCEPT ![i] = Idle]
        /\ UNCHANGED <<session, documents, pictures, wanted, crashed, page, history>>
        /\ half' \in [Users -> BOOLEAN]
    BY <1>1, <1>4 DEF GetEnds, UploadFails, store, StoreTyped
  <2>2. StoreTyped'
    BY <1>1, <2>1 DEF StoreTyped
  <2> QED
    BY <1>1, <2>1, <2>2, IdleTyped, AnswerTyped
<1>5. CASE PicturePut(i)
  <2> DEFINE d == [c EXCEPT !.stage = "setDocument", !.uid = currentUser]
  <2>1. /\ c.stage = "putPicture" /\ call' = [call EXCEPT ![i] = d]
        /\ pictures' = [u \in Users |-> IF u = c.uid THEN c.profile.picture ELSE pictures[u]]
        /\ crashed' \in BOOLEAN
        /\ UNCHANGED <<session, documents, wanted, half, page, history>>
    BY <1>5 DEF PicturePut, TypeInv, CallsTyped
  <2>2. c \in Call /\ currentUser \in Users \union {NoUser}
    BY <1>2, <2>1 DEF TypeInv, SessionTyped
  <2>3. CallTyped(d, currentUser)
    <3>1. d \in Call /\ d.stage = "setDocument" /\ d.live = c.live
      BY <2>2 DEF Call, Puts
    <3> HIDE DEF d
    <3> QED
      BY <1>1, <3>1 DEF CallTyped, Gets
  <2> HIDE DEF d
  <2>4. c.profile.picture \in Pictures \union {Blank}
    BY <2>2, ProfileFields, FieldValues DEF Call
  <2>5. StoreTyped'
    BY <1>1, <2>1, <2>4 DEF StoreTyped
  <2> QED
    BY <2>1, <2>3, <2>5, AnswerTyped
<1>6. CASE DocumentSet(i)
  <2> DEFINE calls == [call EXCEPT ![i] = Idle]
  <2>1. /\ c.stage = "setDocument"
        /\ documents' = [documents EXCEPT ![c.uid] = Info(c.profile)]
        /\ wanted' = [wanted EXCEPT ![c.uid] = WantedNow(c)]
        /\ half' = [half EXCEPT ![c.uid] = @ /\ "picture" \notin c.asked]
        /\ Success(c, calls)
        /\ UNCHANGED <<session, pictures, crashed, repeats>>
    BY <1>6 DEF DocumentSet
  <2>2. c \in Call /\ c.profile \in Profile
    BY <1>2, <2>1 DEF Call
  <2>3. StoreTyped'
    <3>1. IsDocument(Info(c.profile))
      BY <2>2, InfoTyped
    <3>2. DOMAIN documents' = Users
          /\ \A u \in Users : documents'[u] = documents[u] \/ documents'[u] = Info(c.profile)
      BY <1>1, <2>1 DEF StoreTyped
    <3>3. c.uid \in Users => WantedNow(c) \in Profile
      <4>1. c.uid \in Users => wanted[c.uid] \in Profile \union {None}
        BY <1>1 DEF StoreTyped
      <4> QED
        BY <2>2, <4>1, MixTyped DEF WantedNow
    <3>4. wanted' \in [Users -> Profile \union {None}] /\ half' \in [Users -> BOOLEAN]
      BY <1>1, <2>1, <3>3 DEF StoreTyped
    <3> QED
      BY <1>1, <2>1, <3>1, <3>2, <3>4 DEF StoreTyped
  <2>4. \A j \in Calls : CallTyped(calls[j], currentUser)
    BY IdleTyped DEF TypeInv, CallsTyped
  <2>5. DOMAIN calls = Calls /\ calls = [j \in Calls |-> calls[j]]
    BY DEF TypeInv, CallsTyped
  <2> HIDE DEF calls
  <2>6. CASE ~ c.live
    <3>1. call' = calls /\ UNCHANGED <<page, approved, pressed, changed>>
      BY <2>1, <2>6 DEF Success
    <3>2. CallsTyped'
      BY <2>1, <2>4, <2>5, <3>1 DEF CallsTyped, session
    <3>3. SessionTyped' /\ PageTyped' /\ ListsFit(screen, form, repeats, pressed)'
      BY <2>1, <3>1 DEF TypeInv, SessionTyped, PageTyped, session, page
    <3> QED
      BY <2>3, <3>2, <3>3 DEF TypeInv
  <2>7. CASE c.live /\ c.for \in Rewrites
    <3>1. ShowEdit(calls) /\ approved' = Empty /\ currentUser # NoUser
      BY <1>1, <2>1, <2>7 DEF Success, CallTyped
    <3> QED
      BY <2>1, <2>3, <2>4, <3>1, EmptyTyped, ShowEditKeepsTypes
  <2>8. CASE c.live /\ c.for \notin Rewrites
    <3>1. /\ ShowWith("profile", Empty) /\ call' = Left(calls) /\ approved' = Empty
          /\ currentUser # NoUser
      BY <1>1, <2>1, <2>8 DEF Success, CallTyped
    <3>2. CallsTyped'
      BY <2>4, <3>1, LeftTyped DEF CallsTyped
    <3>3. SessionTyped' /\ crashed' \in BOOLEAN /\ repeats' \in 0 .. MaxRepeats
      BY <2>1, <3>1 DEF TypeInv, SessionTyped, PageTyped, session
    <3>4. ListsFit("profile", Empty, repeats', FALSE) /\ "profile" \in Screens
      BY <3>3, EmptyFits DEF Screens
    <3> QED
      BY <2>3, <3>1, <3>2, <3>3, <3>4, EmptyTyped, ShowKeepsTypes
  <2> QED
    BY <2>6, <2>7, <2>8
<1> QED
  BY <1>3, <1>4, <1>5, <1>6, DocumentArrivesTyped DEF Answer

(* The strengthening of TypeOK.                                            *)
THEOREM Types == Spec => []TypeInv
<1>1. Init => TypeInv
  <2> SUFFICES ASSUME Init PROVE TypeInv
    OBVIOUS
  <2>1. CallsTyped
    BY IdleTyped DEF Init, CallsTyped
  <2>2. SessionTyped
    BY DEF Init, SessionTyped
  <2>3. StoreTyped
    <3>1. Existing.picture \in Pictures \union {Blank} /\ IsDocument(Info(Existing))
      BY ExistingAssumption, InfoTyped, ProfileFields, FieldValues
    <3> QED
      BY <3>1, ExistingAssumption DEF Init, StoreTyped
  <2>3a. 0 \in 0 .. MaxRepeats
    BY BoundsAssumption
  <2>4. PageTyped /\ repeats \in 0 .. MaxRepeats
    BY <2>3a, EmptyTyped DEF Init, PageTyped, Screens
  <2>5. ListsFit(screen, form, repeats, pressed)
    BY <2>4, EmptyFits DEF Init
  <2> QED
    BY <2>1, <2>2, <2>3, <2>4, <2>5 DEF TypeInv
<1>2. IInv /\ TypeInv /\ [Next]_vars => TypeInv'
  <2> SUFFICES ASSUME IInv, TypeInv, [Next]_vars PROVE TypeInv'
    OBVIOUS
  <2>1. CASE UNCHANGED vars
    BY <2>1 DEF vars, session, store, page, history, TypeInv, SessionTyped, StoreTyped,
       CallsTyped, PageTyped
  <2> QED
    BY <2>1, WizardKeepsTypes, EditKeepsTypes, AnswerKeepsTypes DEF Next
<1> QED
  BY <1>1, <1>2, Invariant, PTL DEF Spec

(* The variables keep their types, and no call is started by nobody.       *)
THEOREM TypeCorrect == Spec => []TypeOK
BY Types, TypeInvTypes, PTL

-----------------------------------------------------------------------------
(* While no step has been repeated, no row is twice in any list: of the    *)
(* form, of a profile on its way, or of a stored one.                      *)
Once(p) == \A f \in Rewrites : AtMost(p[f], 1)

CallsOnce == \A i \in Calls : Once(call[i].profile)
DocumentsOnce == \A u \in Users : documents[u] # None => Once(documents[u])

ListsOnce == repeats = 0 => Once(form) /\ CallsOnce /\ DocumentsOnce

LEMMA EmptyOnce == Once(Empty) /\ Once(Idle.profile)
<1>1. Idle.profile = Empty
  BY DEF Idle
<1> QED
  BY <1>1 DEF Once, AtMost, Empty, Rewrites

LEMMA SameListsOnce ==
  ASSUME NEW p, NEW q, Once(p), \A f \in Rewrites : q[f] = p[f]
  PROVE  Once(q)
BY DEF Once

LEMMA LeftOnce ==
  ASSUME NEW calls, NEW u, \A i \in Calls : CallTyped(calls[i], u) /\ Once(calls[i].profile)
  PROVE  \A i \in Calls : Once(Left(calls)[i].profile)
<1> SUFFICES ASSUME NEW i \in Calls PROVE Once(Left(calls)[i].profile)
  OBVIOUS
<1>1. CASE calls[i] = Idle
  BY <1>1, EmptyOnce DEF Left
<1>2. CASE calls[i] # Idle
  <2>1. calls[i] \in Call /\ Left(calls)[i] = [calls[i] EXCEPT !.live = FALSE]
    BY <1>2 DEF Left, CallTyped
  <2>2. Left(calls)[i].profile = calls[i].profile
    BY <2>1 DEF Call
  <2> QED
    BY <2>2
<1> QED
  BY <1>1, <1>2

(* A new screen that leaves all calls behind.                              *)
LEMMA TurnOnce ==
  ASSUME TypeInv, CallsOnce, DocumentsOnce, NEW s, NEW p, ShowWith(s, p), Once(p),
         call' = Left(call), UNCHANGED documents
  PROVE  ListsOnce'
<1>1. CallsOnce'
  BY LeftOnce DEF CallsOnce, TypeInv, CallsTyped
<1>2. Once(form')
  BY DEF ShowWith
<1> QED
  BY <1>1, <1>2 DEF ListsOnce, DocumentsOnce

LEMMA PagesOnce ==
  ASSUME TypeInv, TypeInv', repeats' = 0, Once(form), CallsOnce, DocumentsOnce,
         \/ Continue1 \/ Continue2 \/ Skip2 \/ Back2 \/ Continue3 \/ Skip3 \/ Back3 \/ Back4
  PROVE  ListsOnce'
<1>1. ASSUME NEW fs PROVE Once(Handed(form, fs))
  BY HandedLists, EmptyOnce DEF Once
<1>2. UNCHANGED documents /\ call' = Left(call)
  BY DEF Continue1, Continue2, Skip2, Back2, Continue3, Skip3, Back3, Back4, Turn, store
<1>3. ASSUME NEW s, NEW fs, Turn(s, fs) PROVE ListsOnce'
  BY <1>1, <1>2, <1>3, TurnOnce DEF Turn
<1>4. CASE Continue1 \/ Continue2 \/ Skip2 \/ Back2 \/ Skip3 \/ Back3 \/ Back4
  BY <1>3, <1>4 DEF Continue1, Continue2, Skip2, Back2, Skip3, Back3, Back4
<1>5. CASE Continue3
  <2> DEFINE h == Handed(form, FirstFields \union {"bio"})
             p == [h EXCEPT !.characteristics = Appended(form.characteristics)]
  <2>1. ShowWith("page4", p) /\ screen' = "page4" /\ form' = p
    BY <1>5 DEF Continue3, ShowWith
  <2>2. AtMost(p.characteristics, 1)
    <3>1. AtMost(form'.characteristics, repeats' + 1)
      BY <2>1 DEF TypeInv, ListsFit
    <3> HIDE DEF p
    <3> QED
      BY <2>1, <3>1
  <2>3. IsProfile(h) /\ Once(h)
    BY <1>1, HandedIsAProfile
  <2> HIDE DEF h
  <2>4. p["traits"] = h["traits"]
    BY <2>3 DEF IsProfile, Fields, InfoFields
  <2>5. Once(p)
    BY <2>2, <2>3, <2>4 DEF Once, Rewrites
  <2> HIDE DEF p
  <2> QED
    BY <1>2, <2>1, <2>5, TurnOnce
<1> QED
  BY <1>4, <1>5

(* Only the buttons of page 4 and of the edit screen's lists, and going    *)
(* back from page 4, count as steps that may be repeated.                  *)
LEMMA StepsOnce ==
  ASSUME TypeInv, repeats' = 0, Once(form), CallsOnce, DocumentsOnce,
         \/ \E p \in Pictures : PickPicture(p)
         \/ \E n \in Names \union {Blank} : TypeName(n)
         \/ \E b \in Breeds \union {Blank} : TypeBreed(b)
         \/ \E v \in Sizes : PressSize(v)
         \/ \E v \in Genders : PressGender(v)
         \/ \E b \in Breeds, v \in Sizes : GuessFound(b, v)
         \/ GuessNotFound
         \/ GuessLost
         \/ \E b \in Bios \union {Blank} : TypeBio(b)
         \/ \E r \in Characteristics \union Traits : Select(r)
         \/ \E f \in Fields \ Rewrites : \E v : Change(f, v)
  PROVE  ListsOnce'
<1>1. IsProfile(form) /\ \A f \in Rewrites : f \in Fields
  BY ListFields, ProfileFields DEF TypeInv, PageTyped
<1>2. UNCHANGED <<call, documents>>
  BY DEF PickPicture, TypeName, TypeBreed, PressSize, PressGender, GuessFound, GuessNotFound,
         GuessLost, TypeBio, Select, Change, Stay, store
<1>3. ASSUME NEW p, NEW k \in {"size", "gender"}, NEW v, Toggle(p, k, v),
             \A f \in Rewrites : p[f] = form[f], IsProfile(p)
      PROVE  \A f \in Rewrites : form'[f] = form[f]
  BY <1>1, <1>3 DEF Toggle, IsProfile, Rewrites
<1>4. ASSUME NEW f \in Fields \ Rewrites, NEW v, form' = [form EXCEPT ![f] = v]
      PROVE  \A g \in Rewrites : form'[g] = form[g]
  BY <1>1, <1>4 DEF IsProfile
<1>5. \A f \in Rewrites : form'[f] = form[f]
  <2>1. ASSUME NEW p, PickPicture(p) \/ TypeName(p) \/ TypeBreed(p) \/ TypeBio(p)
        PROVE  \E f \in Fields \ Rewrites : form' = [form EXCEPT ![f] = p]
    BY <2>1, FieldValues DEF PickPicture, TypeName, TypeBreed, TypeBio
  <2>2. ASSUME NEW v, PressSize(v) \/ PressGender(v) PROVE \A f \in Rewrites : form'[f] = form[f]
    BY <1>1, <1>3, <2>2 DEF PressSize, PressGender
  <2>3. ASSUME NEW b, NEW v, GuessFound(b, v) PROVE \A f \in Rewrites : form'[f] = form[f]
    <3> DEFINE p == [form EXCEPT !.breed = b, !.size = v]
    <3>1. IsProfile(p) /\ \A f \in Rewrites : p[f] = form[f]
      BY <1>1 DEF IsProfile, Rewrites
    <3>2. Toggle(p, "size", v)
      BY <2>3 DEF GuessFound
    <3> HIDE DEF p
    <3> QED
      BY <1>3, <3>1, <3>2
  <2>4. ASSUME NEW r, GuessNotFound \/ GuessLost \/ Select(r) PROVE UNCHANGED form
    BY <2>4 DEF GuessNotFound, GuessLost, Select
  <2>5. ASSUME NEW f \in Fields \ Rewrites, NEW v, Change(f, v)
        PROVE  \A g \in Rewrites : form'[g] = form[g]
    BY <1>4, <2>5 DEF Change
  <2> QED
    BY <1>4, <2>1, <2>2, <2>3, <2>4, <2>5
<1> QED
  BY <1>2, <1>5, SameListsOnce DEF ListsOnce, CallsOnce, DocumentsOnce

LEMMA StartedOnce ==
  ASSUME CallsOnce, NEW n, NEW c, Once(c.profile)
  PROVE  \A i \in Calls : Once(Started(n, c)[i].profile)
BY DEF CallsOnce, Started

LEMMA CreateOnce ==
  ASSUME TypeInv, repeats' = 0, Once(form), CallsOnce, DocumentsOnce, CreateProfile
  PROVE  ListsOnce'
<1> DEFINE c == UploadProfile("create", form', Fields)
<1>1. /\ screen = "page4" /\ form' = [form EXCEPT !.traits = Appended(@)] /\ Press
      /\ call' = Started(1, c) /\ UNCHANGED documents
  BY DEF CreateProfile, OnPage, store
<1>2. AtMost(form["traits"], IF pressed THEN repeats + 1 ELSE repeats)
  BY <1>1 DEF TypeInv, ListsFit
<1>3. AtMost(form'["traits"], 0 + 1) /\ \A g \in Fields : g # "traits" => form'[g] = form[g]
  BY <1>1, <1>2, PressFits DEF Rewrites
<1>4. Once(form')
  BY <1>3 DEF Once, Rewrites, Fields, InfoFields
<1>5. c.profile = form'
  BY DEF UploadProfile, NewCall
<1> HIDE DEF c
<1>6. CallsOnce'
  BY <1>1, <1>4, <1>5, StartedOnce DEF CallsOnce
<1> QED
  BY <1>1, <1>4, <1>6 DEF ListsOnce, DocumentsOnce

LEMMA RewriteOnce ==
  ASSUME TypeInv, repeats' = 0, Once(form), CallsOnce, DocumentsOnce,
         NEW f \in Rewrites, NEW n, Rewrite(f, n), screen = f
  PROVE  ListsOnce'
<1> DEFINE q == [Empty EXCEPT ![f] = form'[f]]
           c == GetProfile(f, q, {f})
<1>1. /\ form' = [form EXCEPT ![f] = Appended(@)] /\ Press /\ call' = Repicked(Started(n, c), f)
      /\ UNCHANGED documents
  BY DEF Rewrite, store
<1>2. AtMost(form[f], IF pressed THEN repeats + 1 ELSE repeats)
  BY DEF TypeInv, ListsFit
<1>3. AtMost(form'[f], 0 + 1) /\ \A g \in Fields : g # f => form'[g] = form[g]
  BY <1>1, <1>2, PressFits
<1>4. Once(form') /\ AtMost(form'[f], 1)
  BY <1>3, ListFields DEF Once
<1>5. ASSUME NEW p, IsProfile(p), Once(p) PROVE Once([p EXCEPT ![f] = form'[f]])
  <2>1. \A g \in Rewrites : [p EXCEPT ![f] = form'[f]][g] = IF g = f THEN form'[f] ELSE p[g]
    BY <1>5, ListFields DEF IsProfile
  <2> QED
    BY <1>4, <1>5, <2>1 DEF Once
<1>6. Once(q) /\ c.profile = q
  BY <1>5, EmptyOnce, EmptyIsAProfile DEF GetProfile, NewCall
<1>7. f \in Fields /\ form'[f] \in ValuesOf[f]
  BY <1>1, <1>2, PressFits, ListFields, ProfileFields
<1>8. q \in Profile
  BY <1>7, EmptyTyped, FieldTyped
<1> HIDE DEF q
<1>9. CallTyped(c, currentUser)
  <2>1. screen # "login" /\ f \in Uploads \union {"edit"} /\ f \in Rewrites \union {"edit"}
    BY DEF Rewrites, Uploads
  <2> QED
    BY <1>7, <1>8, <2>1, NewCallTyped DEF GetProfile, Gets
<1> HIDE DEF c
<1>10. ASSUME NEW i \in Calls PROVE Once(call'[i].profile)
  <2> DEFINE o == Started(n, c)[i]
  <2>1. CallTyped(o, currentUser) /\ Once(o.profile)
    BY <1>6, <1>9, StartedTyped, StartedOnce
  <2>2. call'[i] = IF o.live /\ o.for = f /\ o.stage \in Gets
                     THEN [o EXCEPT !.profile[f] = form'[f]] ELSE o
    BY <1>1 DEF Repicked
  <2> HIDE DEF o
  <2>3. CASE o = Idle
    BY <2>1, <2>2, <2>3 DEF Idle
  <2>4. CASE o \in Call
    <3>1. IsProfile(o.profile)
      BY <2>4, ProfileFields DEF Call
    <3>2. [o EXCEPT !.profile[f] = form'[f]].profile = [o.profile EXCEPT ![f] = form'[f]]
      BY <2>4 DEF Call
    <3> QED
      BY <1>5, <2>1, <2>2, <3>1, <3>2
  <2> QED
    BY <2>1, <2>3, <2>4 DEF CallTyped
<1> QED
  BY <1>1, <1>4, <1>10 DEF ListsOnce, CallsOnce, DocumentsOnce

LEMMA ShowEditOnce ==
  ASSUME NEW calls, NEW u, \A i \in Calls : CallTyped(calls[i], u) /\ Once(calls[i].profile),
         ShowEdit(calls), DocumentsOnce'
  PROVE  ListsOnce'
<1> DEFINE c == GetProfile("edit", Empty, {})
<1>1. PICK i \in Calls : call' = [Left(calls) EXCEPT ![i] = c]
  BY DEF ShowEdit
<1>2. Once(c.profile)
  BY EmptyOnce DEF GetProfile, NewCall
<1> HIDE DEF c
<1>3. \A j \in Calls : call'[j] = IF j = i THEN c ELSE Left(calls)[j]
  BY <1>1 DEF Left
<1>4. CallsOnce'
  BY <1>2, <1>3, LeftOnce DEF CallsOnce
<1>5. Once(form')
  BY EmptyOnce DEF ShowEdit, ShowWith
<1> QED
  BY <1>4, <1>5 DEF ListsOnce

LEMMA EditOnce ==
  ASSUME TypeInv, repeats' = 0, Once(form), CallsOnce, DocumentsOnce, EditNext
  PROVE  ListsOnce'
<1>1. ASSUME NEW s, ShowWith(s, Empty), call' = Left(call), UNCHANGED documents
      PROVE  ListsOnce'
  BY <1>1, EmptyOnce, TurnOnce
<1>2. ASSUME NEW u \in Users, SignUp(u) \/ Login(u) PROVE ListsOnce'
  BY <1>1, <1>2 DEF SignUp, Login, store
<1>3. CASE Logout
  BY <1>1, <1>3 DEF Logout, store
<1>4. CASE Cancel \/ EditCharacteristicsPressed \/ EditPersonalityPressed
  BY <1>1, <1>4 DEF Cancel, EditCharacteristicsPressed, EditPersonalityPressed, Leave, store
<1>5. CASE OpenEdit
  <2>1. ShowEdit(call) /\ DocumentsOnce'
    BY <1>5 DEF OpenEdit, store, DocumentsOnce
  <2>2. \A i \in Calls : CallTyped(call[i], currentUser) /\ Once(call[i].profile)
    BY DEF TypeInv, CallsTyped, CallsOnce
  <2> QED
    BY <2>1, <2>2, ShowEditOnce
<1>6. CASE SaveButton
  <2> DEFINE c == UploadProfile("save", form, changed)
  <2>1. call' = Started(1, c) /\ UNCHANGED <<form, documents>>
    BY <1>6 DEF SaveButton, page, store
  <2>2. c.profile = form
    BY DEF UploadProfile, NewCall
  <2> HIDE DEF c
  <2>3. CallsOnce'
    BY <2>1, <2>2, StartedOnce DEF CallsOnce
  <2> QED
    BY <2>1, <2>3 DEF ListsOnce, DocumentsOnce
<1>7. ASSUME NEW v, \/ EditPicture(v) \/ EditName(v) \/ EditBreed(v) \/ EditBio(v)
                    \/ PressedGenderButton \/ PressedSizeButton
      PROVE  \E f \in Fields \ Rewrites : \E w : Change(f, w)
  BY <1>7, FieldValues DEF EditPicture, EditName, EditBreed, EditBio, PressedGenderButton,
     PressedSizeButton
<1> QED
  BY <1>2, <1>3, <1>4, <1>5, <1>6, <1>7, StepsOnce DEF EditNext

(* What a call carries when it is answered, and what it stores.            *)
LEMMA AnswerOnce ==
  ASSUME TypeInv, Once(form), CallsOnce, DocumentsOnce, NEW i \in Calls, Answer(i)
  PROVE  ListsOnce'
<1> DEFINE c == call[i]
<1>1. /\ CallTyped(c, currentUser) /\ Once(c.profile) /\ DOMAIN call = Calls
      /\ c.stage # "idle" => c \in Call
  BY DEF TypeInv, CallsTyped, CallTyped, CallsOnce, Idle
<1>2. ASSUME NEW d, call' = [call EXCEPT ![i] = d], Once(d.profile), UNCHANGED documents,
             Once(form')
      PROVE  ListsOnce'
  BY <1>1, <1>2 DEF ListsOnce, CallsOnce, DocumentsOnce
<1>3. CASE PictureArrives(i)
  <2> DEFINE d == [c EXCEPT !.stage = "getDocument", !.profile.picture = pictures[c.uid]]
  <2>1. call' = [call EXCEPT ![i] = d] /\ UNCHANGED <<documents, form>> /\ c \in Call
    BY <1>1, <1>3 DEF PictureArrives, page, store
  <2>2. d.profile = [c.profile EXCEPT !.picture = pictures[c.uid]] /\ IsProfile(c.profile)
    BY <2>1, ProfileFields DEF Call
  <2>3. \A f \in Rewrites : d.profile[f] = c.profile[f]
    BY <2>2 DEF IsProfile, Rewrites, Fields, InfoFields
  <2> HIDE DEF d
  <2>4. Once(d.profile)
    BY <1>1, <2>3, SameListsOnce
  <2> QED
    BY <1>2, <2>1, <2>4
<1>4. CASE GetEnds(i) \/ UploadFails(i)
  BY <1>2, <1>4, EmptyOnce DEF GetEnds, UploadFails, page, store
<1>5. CASE PicturePut(i)
  <2> DEFINE d == [c EXCEPT !.stage = "setDocument", !.uid = currentUser]
  <2>1. call' = [call EXCEPT ![i] = d] /\ UNCHANGED <<documents, form>> /\ c \in Call
    BY <1>1, <1>5 DEF PicturePut, page
  <2>2. d.profile = c.profile
    BY <2>1 DEF Call
  <2> HIDE DEF d
  <2> QED
    BY <1>1, <1>2, <2>1, <2>2
<1>6. CASE DocumentArrives(i)
  <2> DEFINE p == With(documents[c.uid], c.profile.picture)
  <2>1. c.stage = "getDocument" /\ c \in Call /\ Stored(documents, c.uid) /\ UNCHANGED documents
    <3>1. c.stage = "getDocument" /\ Stored(documents, c.uid) /\ UNCHANGED documents
      BY <1>6 DEF DocumentArrives, store
    <3> QED
      BY <1>1, <3>1
  <2>2. \A f \in Rewrites : p[f] = documents[c.uid][f]
    BY DEF With, Rewrites, Fields, InfoFields
  <2>3. Once(p) /\ IsProfile(p)
    <3>1. Once(documents[c.uid])
      BY <2>1 DEF DocumentsOnce, Stored
    <3>2. IsProfile(p)
      BY DEF IsProfile, With
    <3> HIDE DEF p
    <3> QED
      BY <2>2, <3>1, <3>2, SameListsOnce
  <2> HIDE DEF p
  <2>4. CASE c.for = "edit"
    <3>1. call' = [call EXCEPT ![i] = Idle] /\ (form' = Loaded(p) \/ form' = form)
      BY <1>6, <2>4 DEF DocumentArrives, p
    <3>2. \A f \in Rewrites : Loaded(p)[f] = p[f]
      BY <2>3 DEF Loaded, IsProfile, Rewrites, Fields, InfoFields
    <3>3. Once(form')
      BY <2>3, <3>1, <3>2, SameListsOnce
    <3> QED
      BY <1>2, <2>1, <3>1, <3>3, EmptyOnce
  <2>5. CASE c.for # "edit"
    <3> DEFINE q == [p EXCEPT ![c.for] = c.profile[c.for]]
               d == [c EXCEPT !.stage = "putPicture", !.uid = currentUser, !.profile = q]
    <3>1. call' = [call EXCEPT ![i] = d] /\ UNCHANGED form
      BY <1>6, <2>5 DEF DocumentArrives, p
    <3>2. d.profile = q
      BY <2>1 DEF Call
    <3>3. \A f \in Rewrites : q[f] = IF f = c.for THEN c.profile[f] ELSE p[f]
      BY <2>3, ListFields DEF IsProfile
    <3>4. Once(q)
      BY <1>1, <2>3, <3>3 DEF Once
    <3> HIDE DEF q, d
    <3> QED
      BY <1>2, <2>1, <3>1, <3>2, <3>4
  <2> QED
    BY <2>4, <2>5
<1>7. CASE DocumentSet(i)
  <2> DEFINE calls == [call EXCEPT ![i] = Idle]
  <2>1. documents' = [documents EXCEPT ![c.uid] = Info(c.profile)] /\ Success(c, calls)
    BY <1>7 DEF DocumentSet
  <2>2. DocumentsOnce'
    <3>1. \A f \in Rewrites : Info(c.profile)[f] = c.profile[f]
      BY DEF Info, Rewrites, InfoFields
    <3>2. Once(Info(c.profile))
      BY <1>1, <3>1, SameListsOnce
    <3>3. \A u \in Users : documents'[u] = documents[u] \/ documents'[u] = Info(c.profile)
      BY <2>1 DEF TypeInv, StoreTyped
    <3> QED
      BY <3>2, <3>3 DEF DocumentsOnce
  <2>3. \A j \in Calls : CallTyped(calls[j], currentUser) /\ Once(calls[j].profile)
    BY IdleTyped, EmptyOnce DEF TypeInv, CallsTyped, CallsOnce
  <2> HIDE DEF calls
  <2>4. CASE ~ c.live
    <3>1. call' = calls /\ UNCHANGED form
      BY <2>1, <2>4 DEF Success, page
    <3> QED
      BY <2>2, <2>3, <3>1 DEF ListsOnce, CallsOnce
  <2>5. CASE c.live /\ c.for \in Rewrites
    BY <2>1, <2>2, <2>3, <2>5, ShowEditOnce DEF Success
  <2>6. CASE c.live /\ c.for \notin Rewrites
    <3>1. ShowWith("profile", Empty) /\ call' = Left(calls)
      BY <2>1, <2>6 DEF Success
    <3>2. CallsOnce'
      BY <2>3, <3>1, LeftOnce DEF CallsOnce
    <3> QED
      BY <2>2, <3>1, <3>2, EmptyOnce DEF ListsOnce, ShowWith
  <2> QED
    BY <2>4, <2>5, <2>6
<1> QED
  BY <1>3, <1>4, <1>5, <1>6, <1>7 DEF Answer

(* repeats never goes down.                                                *)
LEMMA RepeatsGrow ==
  ASSUME TypeInv, [Next]_vars, repeats' = 0
  PROVE  repeats = 0
<1>1. repeats \in Nat
  BY BoundsAssumption DEF TypeInv, PageTyped
<1>2. CASE UNCHANGED repeats
  BY <1>2
<1>3. CASE repeats' = repeats + 1
  BY <1>1, <1>3
<1>4. CASE WizardNext
  <2>1. UNCHANGED repeats \/ repeats' = repeats + 1
    BY <1>4 DEF WizardNext, PickPicture, TypeName, TypeBreed, PressSize, PressGender, GuessFound,
       GuessNotFound, GuessLost, TypeBio, Select, Stay, history, Continue1, Continue2, Skip2,
       Back2, Continue3, Skip3, Back3, Back4, CreateProfile, ContinueCharacteristics,
       ContinueTraits, Rewrite, Press
  <2> QED
    BY <1>2, <1>3, <2>1
<1>5. CASE EditNext
  <2>1. UNCHANGED repeats
    BY <1>5 DEF EditNext, SignUp, Login, Logout, OpenEdit, EditPicture, EditName, EditBreed,
       EditBio, PressedGenderButton, PressedSizeButton, Change, SaveButton, history, Cancel,
       EditCharacteristicsPressed, EditPersonalityPressed, Leave
  <2> QED
    BY <2>1
<1>6. ASSUME NEW i \in Calls, Answer(i) PROVE UNCHANGED repeats
  BY <1>6 DEF Answer, PictureArrives, DocumentArrives, GetEnds, PicturePut, UploadFails,
     DocumentSet, history
<1> QED
  BY <1>2, <1>4, <1>5, <1>6 DEF Next, vars, history

(* If those who have a profile at the start have no row twice, a row gets  *)
(* into a list twice only by a repeated step.                              *)
THEOREM TwiceOnlyByRepeating ==
  ASSUME Once(Existing)
  PROVE  Spec => []OnceUnlessRepeated
<1>1. Init => ListsOnce
  <2> SUFFICES ASSUME Init PROVE Once(form) /\ CallsOnce /\ DocumentsOnce
    BY DEF ListsOnce
  <2>1. Once(form) /\ CallsOnce
    BY EmptyOnce DEF Init, CallsOnce
  <2>2. \A f \in Rewrites : Info(Existing)[f] = Existing[f]
    BY DEF Info, Rewrites, InfoFields
  <2>3. DocumentsOnce
    BY <2>2, SameListsOnce DEF Init, DocumentsOnce
  <2> QED
    BY <2>1, <2>3
<1>2. TypeInv /\ TypeInv' /\ ListsOnce /\ [Next]_vars => ListsOnce'
  <2> SUFFICES ASSUME TypeInv, TypeInv', ListsOnce, [Next]_vars, repeats' = 0 PROVE ListsOnce'
    BY DEF ListsOnce
  <2>1. Once(form) /\ CallsOnce /\ DocumentsOnce
    BY RepeatsGrow DEF ListsOnce
  <2>2. CASE UNCHANGED vars
    BY <2>1, <2>2 DEF vars, store, page, ListsOnce, CallsOnce, DocumentsOnce
  <2>3. CASE WizardNext
    <3>1. ASSUME ContinueCharacteristics \/ ContinueTraits PROVE ListsOnce'
      BY <2>1, <3>1, RewriteOnce DEF ContinueCharacteristics, ContinueTraits, OnPage, Rewrites
    <3> QED
      BY <2>1, <2>3, <3>1, StepsOnce, PagesOnce, CreateOnce DEF WizardNext
  <2> QED
    BY <2>1, <2>2, <2>3, EditOnce, AnswerOnce DEF Next
<1>3. TypeInv /\ ListsOnce => OnceUnlessRepeated
  <2> SUFFICES ASSUME TypeInv, ListsOnce PROVE OnceUnlessRepeated
    OBVIOUS
  <2>1. repeats = 0 \/ repeats > 0
    BY BoundsAssumption DEF TypeInv, PageTyped
  <2> QED
    BY <2>1 DEF ListsOnce, DocumentsOnce, Once, AtMost, OnceUnlessRepeated
<1> QED
  BY <1>1, <1>2, <1>3, Types, PTL DEF Spec
=============================================================================
