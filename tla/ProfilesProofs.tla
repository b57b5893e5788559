--------------------------- MODULE ProfilesProofs ----------------------------
(***************************************************************************)
(* Proofs about Profiles, for any users, texts, pictures and rows, patient *)
(* and impatient users, any number of calls under way, and with and        *)
(* without failing calls: how the pages of the wizard hand on what the     *)
(* user chose.                                                             *)
(***************************************************************************)
EXTENDS Profiles, TLAPS

(* A profile, and a call, have the fields they have whatever is in them.   *)
IsProfile(p) == p = [f \in Fields |-> p[f]]
IsCall(c) == c = [f \in {"for", "stage", "uid", "by", "live", "profile", "asked"} |-> c[f]]

Complete(p) == \A f \in FirstFields : p[f] # Blank
Agree(p, q, fs) == \A f \in fs : p[f] = q[f]

(* What holds of the call c while screen s is in front and a is approved:  *)
(* a profile is created from what is on page 4, and never read first.      *)
CallOK(c, s, a) ==
    /\ IsCall(c)
    /\ c.for = "create" =>
         /\ c.stage \in Puts
         /\ Complete(c.profile)
         /\ c.live => Agree(c.profile, a, FirstFields \union {"bio"})
    /\ c.live /\ c.for = "edit" => s = "edit"

CallsOK == DOMAIN call = Calls /\ \A i \in Calls : CallOK(call[i], screen, approved)

(* The form p of page s: page 1's check is what makes the pages after it   *)
(* complete.                                                               *)
PageOK(p, s, a) ==
    /\ IsProfile(p)
    /\ s \in {"page2", "page3", "page4"} => Agree(p, a, FirstFields) /\ Complete(p)
    /\ s \in {"page3", "page4"} => p.bio = a.bio

(* Icons are lit on page 1 only.                                           *)
LitOK ==
    /\ lit = [size |-> lit.size, gender |-> lit.gender]
    /\ LitIsStored
    /\ screen # "page1" => lit.size = {} /\ lit.gender = {}

IInv == CallsOK /\ PageOK(form, screen, approved) /\ IsProfile(approved) /\ LitOK

LEMMA EmptyIsAProfile == IsProfile(Empty)
BY DEF IsProfile, Empty, Fields, InfoFields

LEMMA HandedIsAProfile ==
  ASSUME NEW p, NEW fs
  PROVE  /\ IsProfile(Handed(p, fs))
         /\ \A f \in Fields \intersect fs : Handed(p, fs)[f] = p[f]
BY DEF IsProfile, Handed

LEMMA IdleIsOK == ASSUME NEW s, NEW a PROVE CallOK(Idle, s, a)
BY DEF Idle, CallOK, IsCall

(* A call that does not create a profile may read any.                     *)
LEMMA ReadProfile ==
  ASSUME NEW c, NEW q, NEW s, NEW a, CallOK(c, s, a), c.for # "create"
  PROVE  CallOK([c EXCEPT !.profile = q], s, a)
<1> DEFINE d == [c EXCEPT !.profile = q]
<1>1. IsCall(c)
  BY DEF CallOK
<1>2. IsCall(d) /\ d.for = c.for /\ d.live = c.live
  BY <1>1 DEF IsCall
<1> HIDE DEF d
<1>3. CallOK(d, s, a)
  BY <1>2 DEF CallOK
<1> QED
  BY <1>3 DEF d

(* Calls that a screen has left behind are nobody's.                       *)
LEMMA LeftIsOK ==
  ASSUME NEW calls, NEW s, NEW a, NEW t, NEW b,
         \A i \in Calls : CallOK(calls[i], s, a)
  PROVE  \A i \in Calls : CallOK(Left(calls)[i], t, b)
<1> SUFFICES ASSUME NEW i \in Calls PROVE CallOK(Left(calls)[i], t, b)
  OBVIOUS
<1>1. CASE calls[i] = Idle
  BY <1>1, IdleIsOK DEF Left
<1>2. CASE calls[i] # Idle
  <2>1. Left(calls)[i] = [calls[i] EXCEPT !.live = FALSE]
    BY <1>2 DEF Left
  <2>2. CallOK(calls[i], s, a)
    OBVIOUS
  <2> QED
    BY <2>1, <2>2 DEF CallOK, IsCall
<1> QED
  BY <1>1, <1>2

(* A screen that has just been presented is in order if it was handed what *)
(* it needs, and its calls are.                                            *)
LEMMA ShowKeepsInvariant ==
  ASSUME NEW s, NEW p, ShowWith(s, p), PageOK(p, s, approved'), IsProfile(approved'),
         DOMAIN call' = Calls, \A i \in Calls : CallOK(call'[i], s, approved')
  PROVE  IInv'
<1>1. LitOK'
  BY DEF ShowWith, LitOK, LitIsStored
<1>2. screen' = s /\ form' = p
  BY DEF ShowWith
<1> QED
  BY <1>1, <1>2 DEF IInv, CallsOK

(* The same for a screen that leaves all calls behind.                     *)
LEMMA TurnKeepsInvariant ==
  ASSUME IInv, NEW s, NEW p, ShowWith(s, p), PageOK(p, s, approved'), IsProfile(approved'),
         call' = Left(call)
  PROVE  IInv'
<1>1. DOMAIN call' = Calls
  BY DEF Left
<1>2. \A i \in Calls : CallOK(call'[i], s, approved')
  BY LeftIsOK DEF IInv, CallsOK
<1> QED
  BY <1>1, <1>2, ShowKeepsInvariant

(* And for the edit screen, which starts a call of its own.                *)
LEMMA ShowEditKeepsInvariant ==
  ASSUME NEW calls, NEW s, NEW a, \A i \in Calls : CallOK(calls[i], s, a),
         ShowEdit(calls), IsProfile(approved')
  PROVE  IInv'
<1>1. PICK i \in Calls :
        call' = [Left(calls) EXCEPT ![i] = GetProfile("edit", Empty, {})]
  BY DEF ShowEdit
<1>2. DOMAIN call' = Calls
  BY <1>1 DEF Left
<1>3. \A j \in Calls : CallOK(Left(calls)[j], "edit", approved')
  BY LeftIsOK
<1>4. CallOK(GetProfile("edit", Empty, {}), "edit", approved')
  BY DEF GetProfile, NewCall, CallOK, IsCall
<1>5. \A j \in Calls : call'[j] = IF j = i THEN GetProfile("edit", Empty, {})
                                 ELSE Left(calls)[j]
  BY <1>1 DEF Left
<1>6. \A j \in Calls : CallOK(call'[j], "edit", approved')
  BY <1>3, <1>4, <1>5
<1>7. PageOK(Empty, "edit", approved')
  BY EmptyIsAProfile DEF PageOK
<1> QED
  BY <1>2, <1>6, <1>7, ShowKeepsInvariant DEF ShowEdit

-----------------------------------------------------------------------------
(* Steps that stay on a screen.                                            *)

(* Only the form and the icons change.                                     *)
LEMMA StayKeepsInvariant ==
  ASSUME IInv, PageOK(form', screen, approved), LitOK',
         UNCHANGED <<call, screen, approved>>
  PROVE  IInv'
BY DEF IInv, CallsOK

(* A field that page s and its icons do not depend on.                     *)
LEMMA FieldKeepsInvariant ==
  ASSUME IInv, NEW f \in Fields, NEW v, form' = [form EXCEPT ![f] = v],
         screen \in {"page2", "page3", "page4"} => f \notin FirstFields,
         screen \in {"page3", "page4"} => f # "bio",
         screen = "page1" => f \notin {"size", "gender"},
         UNCHANGED <<call, screen, approved, lit>>
  PROVE  IInv'
<1>1. IsProfile(form') /\ \A g \in Fields : g # f => form'[g] = form[g]
  BY DEF IInv, PageOK, IsProfile
<1>2. FirstFields \subseteq Fields /\ {"bio", "size", "gender"} \subseteq Fields
  BY DEF FirstFields, Fields, InfoFields
<1>3. PageOK(form', screen, approved)
  BY <1>1, <1>2 DEF IInv, PageOK, Agree, Complete
<1>4. LitOK'
  BY <1>1, <1>2 DEF IInv, LitOK, LitIsStored
<1> QED
  BY <1>3, <1>4, StayKeepsInvariant

LEMMA OneOutOfOne ==
  ASSUME NEW icons, NEW x, icons \subseteq {x}
  PROVE  OneOut(icons) = {}
<1>1. CASE icons = {}
  BY <1>1 DEF OneOut
<1>2. CASE icons = {x}
  BY <1>2 DEF OneOut
<1> QED
  BY <1>1, <1>2

(* A press on an icon, by the user or by the breed guess, for a profile p  *)
(* in which the guess may have put its size already.                       *)
LEMMA ToggleKeepsInvariant ==
  ASSUME IInv, NEW p, NEW k \in {"size", "gender"}, NEW v, Toggle(p, k, v),
         IsProfile(p), \A g \in {"size", "gender"} \ {k} : p[g] = form[g],
         screen = "page1", UNCHANGED <<call, screen, approved>>
  PROVE  IInv'
<1>1. lit[k] \subseteq {form[k]} /\ lit = [size |-> lit.size, gender |-> lit.gender]
  BY DEF IInv, LitOK, LitIsStored
<1>2. PICK w : form' = [p EXCEPT ![k] = w]
  BY DEF Toggle
<1>3. k \in Fields /\ {"size", "gender"} \subseteq Fields
  BY DEF Fields, InfoFields
<1>4. IsProfile(form') /\ form'[k] = w /\ \A g \in Fields : g # k => form'[g] = p[g]
  BY <1>2, <1>3 DEF IsProfile
<1>5. lit'[k] \subseteq {form'[k]} /\ \E s : lit' = [lit EXCEPT ![k] = s]
  <2>1. CASE v \in lit[k]
    <3>1. lit' = [lit EXCEPT ![k] = @ \ {v}]
      BY <2>1 DEF Toggle
    <3>2. lit'[k] = {}
      BY <1>1, <2>1, <3>1
    <3> QED
      BY <3>1, <3>2
  <2>2. CASE v \notin lit[k]
    <3>1. lit' = [lit EXCEPT ![k] = {v} \union OneOut(@)] /\ form' = [p EXCEPT ![k] = v]
      BY <2>2 DEF Toggle
    <3>2. OneOut(lit[k]) = {}
      BY <1>1, OneOutOfOne
    <3>3. lit'[k] = {v}
      BY <1>1, <3>1, <3>2
    <3>4. form'[k] = v
      BY <1>3, <3>1 DEF IsProfile
    <3> QED
      BY <3>1, <3>3, <3>4
  <2> QED
    BY <2>1, <2>2
<1>6. /\ lit' = [size |-> lit'.size, gender |-> lit'.gender]
      /\ \A g \in {"size", "gender"} \ {k} : lit'[g] = lit[g]
  BY <1>1, <1>5
<1>7. LitOK'
  BY <1>3, <1>4, <1>5, <1>6 DEF IInv, LitOK, LitIsStored
<1>8. PageOK(form', screen, approved)
  BY <1>4 DEF PageOK
<1> QED
  BY <1>7, <1>8, StayKeepsInvariant

(* n calls c are started, if such a call is in order.                      *)
LEMMA StartedIsOK ==
  ASSUME IInv, NEW n, NEW c, CallOK(c, screen, approved)
  PROVE  \A i \in Calls : CallOK(Started(n, c)[i], screen, approved)
BY DEF IInv, CallsOK, Started

-----------------------------------------------------------------------------
(* The pages.                                                              *)
LEMMA Page1KeepsInvariant ==
  ASSUME IInv,
         \/ \E p \in Pictures : PickPicture(p)
         \/ \E n \in Names \union {Blank} : TypeName(n)
         \/ \E b \in Breeds \union {Blank} : TypeBreed(b)
         \/ \E v \in Sizes : PressSize(v)
         \/ \E v \in Genders : PressGender(v)
         \/ \E b \in Breeds, v \in Sizes : GuessFound(b, v)
         \/ GuessNotFound
         \/ GuessLost
  PROVE  IInv'
<1>1. {"picture", "name", "breed", "size", "gender"} \subseteq Fields /\ IsProfile(form)
  BY DEF Fields, InfoFields, IInv, PageOK
<1>2. screen = "page1" /\ UNCHANGED <<call, screen, approved>>
  BY DEF PickPicture, TypeName, TypeBreed, PressSize, PressGender, GuessFound, GuessNotFound,
         GuessLost, Stay, OnPage1, OnPage, history
<1>3. ASSUME NEW p, PickPicture(p) PROVE IInv'
  BY <1>1, <1>2, <1>3, FieldKeepsInvariant DEF PickPicture
<1>4. ASSUME NEW n, TypeName(n) PROVE IInv'
  BY <1>1, <1>2, <1>4, FieldKeepsInvariant DEF TypeName
<1>5. ASSUME NEW b, TypeBreed(b) PROVE IInv'
  BY <1>1, <1>2, <1>5, FieldKeepsInvariant DEF TypeBreed
<1>6. ASSUME NEW v, PressSize(v) \/ PressGender(v) PROVE IInv'
  BY <1>1, <1>2, <1>6, ToggleKeepsInvariant DEF PressSize, PressGender
<1>7. ASSUME NEW b, NEW v, GuessFound(b, v) PROVE IInv'
  <2> DEFINE p == [form EXCEPT !.breed = b, !.size = v]
  <2>1. IsProfile(p) /\ p["gender"] = form["gender"]
    BY <1>1 DEF IsProfile
  <2>2. Toggle(p, "size", v)
    BY <1>7 DEF GuessFound
  <2> HIDE DEF p
  <2> QED
    BY <1>2, <2>1, <2>2, ToggleKeepsInvariant
<1>8. ASSUME GuessNotFound \/ GuessLost PROVE IInv'
  <2>1. UNCHANGED <<form, lit>>
    BY <1>8 DEF GuessNotFound, GuessLost
  <2> QED
    BY <1>2, <2>1 DEF IInv, CallsOK, LitOK, LitIsStored
<1> QED
  BY <1>3, <1>4, <1>5, <1>6, <1>7, <1>8

(* A page after the first hands on the first page's fields, and its bio if *)
(* there is one.                                                           *)
LEMMA HandedPageIsOK ==
  ASSUME IInv, screen \in {"page2", "page3", "page4"},
         NEW fs, FirstFields \subseteq fs,
         NEW a, \A f \in FirstFields : a[f] = approved[f],
         NEW s, s \in {"page3", "page4"} =>
                  a.bio = IF "bio" \in fs THEN form.bio ELSE Blank
  PROVE  PageOK(Handed(form, fs), s, a)
<1>1. /\ IsProfile(Handed(form, fs))
      /\ \A f \in Fields \intersect fs : Handed(form, fs)[f] = form[f]
  BY HandedIsAProfile
<1>2. \A f \in FirstFields : f \in Fields \intersect fs
  BY DEF FirstFields, Fields, InfoFields
<1>3. \A f \in FirstFields : form[f] = approved[f] /\ form[f] # Blank
  BY DEF IInv, PageOK, Agree, Complete
<1>4. Handed(form, fs).bio = IF "bio" \in fs THEN form.bio ELSE Blank
  BY DEF Handed, Empty, Fields, InfoFields
<1>5. Agree(Handed(form, fs), a, FirstFields) /\ Complete(Handed(form, fs))
  BY <1>1, <1>2, <1>3 DEF Agree, Complete
<1> QED
  BY <1>1, <1>4, <1>5 DEF PageOK

(* What the ways between the pages hand on is what has been approved.      *)
LEMMA PagesKeepInvariant ==
  ASSUME IInv,
         \/ Continue1 \/ Continue2 \/ Skip2 \/ Back2 \/ Continue3 \/ Skip3 \/ Back3 \/ Back4
  PROVE  IInv'
<1> DEFINE P == FirstFields
           Q == FirstFields \union {"bio"}
<1>1. P \subseteq Fields /\ Q \subseteq Fields /\ "bio" \in Fields /\ "bio" \notin P
      /\ "characteristics" \in Fields /\ "characteristics" \notin Q
  BY DEF FirstFields, Fields, InfoFields
<1>2. IsProfile(form) /\ IsProfile(approved) /\ Empty.bio = Blank
  BY DEF IInv, PageOK, Empty
<1>3. ASSUME NEW b
      PROVE  LET a == [approved EXCEPT !.bio = b]
             IN  IsProfile(a) /\ a.bio = b /\ \A f \in P : a[f] = approved[f]
  BY <1>1, <1>2 DEF IsProfile
<1>4. ASSUME NEW fs
      PROVE  /\ IsProfile(Handed(form, fs))
             /\ \A f \in fs \intersect Fields : Handed(form, fs)[f] = form[f]
             /\ "bio" \notin fs => Handed(form, fs).bio = Blank
  BY <1>1, <1>2, HandedIsAProfile DEF Handed
<1>5. CASE Continue1
  <2>1. /\ ShowWith("page2", Handed(form, P)) /\ call' = Left(call)
        /\ approved' = Handed(form, P) /\ Complete(form)
    BY <1>5 DEF Continue1, Turn, ErrorCheck, Complete
  <2>2. PageOK(Handed(form, P), "page2", approved')
    BY <1>1, <1>4, <2>1 DEF PageOK, Agree, Complete
  <2> QED
    BY <1>4, <2>1, <2>2, TurnKeepsInvariant
<1>6. CASE Continue2
  <2>1. /\ ShowWith("page3", Handed(form, Q)) /\ call' = Left(call)
        /\ approved' = [approved EXCEPT !.bio = form.bio] /\ screen = "page2"
    BY <1>6 DEF Continue2, Turn, OnPage
  <2>2. /\ IsProfile(approved') /\ approved'.bio = form.bio
        /\ \A f \in P : approved'[f] = approved[f]
    BY <1>3, <2>1
  <2>3. PageOK(Handed(form, Q), "page3", approved')
    BY <2>1, <2>2, HandedPageIsOK
  <2> QED
    BY <2>1, <2>2, <2>3, TurnKeepsInvariant
<1>7. CASE Skip2
  <2>1. /\ ShowWith("page3", Handed(form, P)) /\ call' = Left(call)
        /\ approved' = [approved EXCEPT !.bio = Blank] /\ screen = "page2"
    BY <1>7 DEF Skip2, Turn, OnPage
  <2>2. PageOK(Handed(form, P), "page3", approved')
    BY <1>1, <1>3, <2>1, HandedPageIsOK DEF IInv, PageOK
  <2> QED
    BY <1>3, <2>1, <2>2, TurnKeepsInvariant
<1>8. CASE Back2
  <2>1. /\ ShowWith("page1", Handed(form, {"picture", "size", "gender"}))
        /\ call' = Left(call) /\ approved' = Empty
    BY <1>8 DEF Back2, Turn
  <2> QED
    BY <1>4, <2>1, EmptyIsAProfile, TurnKeepsInvariant DEF PageOK
<1>9. CASE Continue3
  <2> DEFINE p == [Handed(form, Q) EXCEPT !.characteristics = Appended(form.characteristics)]
  <2>1. /\ ShowWith("page4", p) /\ call' = Left(call)
        /\ approved' = approved /\ screen = "page3"
    BY <1>9 DEF Continue3, OnPage
  <2>2. IsProfile(p) /\ \A f \in Q : p[f] = form[f]
    BY <1>1, <1>4 DEF IsProfile
  <2> HIDE DEF p
  <2>3. PageOK(p, "page4", approved')
    BY <1>1, <2>1, <2>2 DEF IInv, PageOK, Agree, Complete
  <2> QED
    BY <1>2, <2>1, <2>3, TurnKeepsInvariant
<1>10. CASE Skip3
  <2>1. /\ ShowWith("page4", Handed(form, Q)) /\ call' = Left(call)
        /\ approved' = approved /\ screen = "page3"
    BY <1>10 DEF Skip3, Turn, OnPage
  <2>2. PageOK(Handed(form, Q), "page4", approved')
    BY <1>1, <2>1, HandedPageIsOK DEF IInv, PageOK
  <2> QED
    BY <1>2, <2>1, <2>2, TurnKeepsInvariant
<1>11. CASE Back3
  <2>1. /\ ShowWith("page2", Handed(form, P)) /\ call' = Left(call)
        /\ approved' = [approved EXCEPT !.bio = Blank] /\ screen = "page3"
    BY <1>11 DEF Back3, Turn, OnPage
  <2>2. PageOK(Handed(form, P), "page2", approved')
    BY <1>1, <1>3, <2>1, HandedPageIsOK DEF IInv, PageOK
  <2> QED
    BY <1>3, <2>1, <2>2, TurnKeepsInvariant
<1>12. CASE Back4
  <2> DEFINE R == FirstFields \union {"bio", "characteristics"}
  <2>1. /\ ShowWith("page3", Handed(form, R)) /\ call' = Left(call)
        /\ approved' = approved /\ screen = "page4"
    BY <1>12 DEF Back4, Turn, OnPage
  <2>2. PageOK(Handed(form, R), "page3", approved')
    BY <1>1, <2>1, HandedPageIsOK DEF IInv, PageOK
  <2> QED
    BY <1>2, <2>1, <2>2, TurnKeepsInvariant
<1> QED
  BY <1>5, <1>6, <1>7, <1>8, <1>9, <1>10, <1>11, <1>12

-----------------------------------------------------------------------------
(* The buttons that start calls.                                           *)
LEMMA CreateKeepsInvariant ==
  ASSUME IInv, CreateProfile
  PROVE  IInv'
<1> DEFINE c == UploadProfile("create", form', Fields)
<1>1. /\ screen = "page4" /\ form' = [form EXCEPT !.traits = Appended(@)]
      /\ call' = Started(1, c) /\ UNCHANGED <<screen, lit, approved>>
  BY DEF CreateProfile, OnPage
<1>2. /\ "traits" \in Fields /\ "traits" \notin FirstFields \union {"bio"}
      /\ FirstFields \union {"bio"} \subseteq Fields
  BY DEF Fields, InfoFields, FirstFields
<1>3. IsProfile(form') /\ \A f \in FirstFields \union {"bio"} : form'[f] = form[f]
  BY <1>1, <1>2 DEF IInv, PageOK, IsProfile
<1>4. /\ PageOK(form', screen, approved) /\ Complete(form')
      /\ Agree(form', approved, FirstFields \union {"bio"})
  BY <1>1, <1>3 DEF IInv, PageOK, Agree, Complete
<1>5. CallOK(c, screen, approved)
  <2>1. /\ c.for = "create" /\ c.stage \in Puts /\ c.profile = form' /\ IsCall(c)
    BY DEF UploadProfile, NewCall, Puts, IsCall
  <2> HIDE DEF c
  <2> QED
    BY <1>4, <2>1 DEF CallOK
<1>6. CallsOK'
  BY <1>1, <1>5, StartedIsOK DEF CallsOK, Started
<1>7. LitOK'
  <2>1. form'.size = form.size /\ form'.gender = form.gender
    BY <1>3 DEF FirstFields
  <2> QED
    BY <1>1, <2>1 DEF IInv, LitOK, LitIsStored
<1> QED
  BY <1>1, <1>4, <1>6, <1>7 DEF IInv

LEMMA RewriteKeepsInvariant ==
  ASSUME IInv, NEW f \in Rewrites, NEW n, Rewrite(f, n), screen = f
  PROVE  IInv'
<1> DEFINE c == GetProfile(f, [Empty EXCEPT ![f] = form'[f]], {f})
<1>1. /\ form' = [form EXCEPT ![f] = Appended(@)] /\ call' = Repicked(Started(n, c), f)
      /\ UNCHANGED <<screen, lit, approved>>
  BY DEF Rewrite
<1>2. screen \notin {"page1", "page2", "page3", "page4", "edit"} /\ f \in Fields
      /\ f \notin {"create", "edit"}
  BY DEF Rewrites, Fields, InfoFields
<1>3. PageOK(form', screen, approved)
  BY <1>1, <1>2 DEF IInv, PageOK, IsProfile
<1>4. LitOK'
  BY <1>1, <1>2 DEF IInv, LitOK, LitIsStored
<1>5. CallOK(c, screen, approved)
  BY <1>2 DEF GetProfile, NewCall, CallOK, IsCall
<1>6. \A i \in Calls : CallOK(Started(n, c)[i], screen, approved)
  BY <1>5, StartedIsOK
<1>7. ASSUME NEW i \in Calls PROVE CallOK(call'[i], screen, approved)
  <2> DEFINE o == Started(n, c)[i]
  <2>1. call'[i] = o \/ (o.for = f /\ call'[i] = [o EXCEPT !.profile[f] = form'[f]])
    BY <1>1 DEF Repicked
  <2>2. CallOK(o, screen, approved)
    BY <1>6
  <2> HIDE DEF o
  <2>3. ASSUME o.for = f
        PROVE  CallOK([o EXCEPT !.profile[f] = form'[f]], screen, approved)
    <3>1. PICK q : [o EXCEPT !.profile[f] = form'[f]] = [o EXCEPT !.profile = q]
      OBVIOUS
    <3>2. CallOK([o EXCEPT !.profile = q], screen, approved)
      BY <1>2, <2>2, <2>3, ReadProfile
    <3> QED
      BY <3>1, <3>2
  <2> QED
    BY <2>1, <2>2, <2>3
<1>8. CallsOK'
  BY <1>1, <1>7 DEF CallsOK, Repicked
<1> QED
  BY <1>1, <1>3, <1>4, <1>8 DEF IInv

LEMMA WizardKeepsInvariant ==
  ASSUME IInv, WizardNext
  PROVE  IInv'
<1>1. ASSUME NEW b \in Bios \union {Blank}, TypeBio(b) PROVE IInv'
  <2>1. "bio" \in Fields /\ "bio" \notin FirstFields
    BY DEF Fields, InfoFields, FirstFields
  <2> QED
    BY <1>1, <2>1, FieldKeepsInvariant DEF TypeBio, Stay, OnPage, history
<1>2. ASSUME NEW r, Select(r) PROVE IInv'
  BY <1>2 DEF Select, Stay, history, IInv, CallsOK, LitOK, LitIsStored
<1>3. CASE ContinueCharacteristics
  BY <1>3, RewriteKeepsInvariant DEF ContinueCharacteristics, OnPage, Rewrites
<1>4. CASE ContinueTraits
  BY <1>4, RewriteKeepsInvariant DEF ContinueTraits, OnPage, Rewrites
<1> QED
  BY <1>1, <1>2, <1>3, <1>4, Page1KeepsInvariant, PagesKeepInvariant, CreateKeepsInvariant
     DEF WizardNext

-----------------------------------------------------------------------------
(* The edit screen and the session.                                        *)
LEMMA EditKeepsInvariant ==
  ASSUME IInv, EditNext
  PROVE  IInv'
<1>1. IsProfile(Empty) /\ IsProfile(approved)
  BY EmptyIsAProfile DEF IInv
<1>2. ASSUME NEW s \in {"login", "page1", "profile", "characteristics", "traits"},
             ShowWith(s, Empty), call' = Left(call), approved' \in {approved, Empty}
      PROVE  IInv'
  BY <1>1, <1>2, TurnKeepsInvariant DEF PageOK
<1>3. ASSUME NEW u \in Users, SignUp(u) \/ Login(u) PROVE IInv'
  BY <1>2, <1>3 DEF SignUp, Login
<1>4. CASE Logout
  BY <1>2, <1>4 DEF Logout
<1>5. CASE Cancel \/ EditCharacteristicsPressed \/ EditPersonalityPressed
  BY <1>2, <1>5 DEF Cancel, EditCharacteristicsPressed, EditPersonalityPressed, Leave
<1>6. CASE OpenEdit
  BY <1>1, <1>6, ShowEditKeepsInvariant DEF OpenEdit, IInv, CallsOK
<1>7. ASSUME NEW f \in Fields, NEW v, Change(f, v) PROVE IInv'
  BY <1>7, FieldKeepsInvariant DEF Change, At
<1>8. CASE SaveButton
  <2> DEFINE c == UploadProfile("save", form, changed)
  <2>1. call' = Started(1, c) /\ UNCHANGED <<screen, form, lit, approved>>
    BY <1>8 DEF SaveButton, page, history
  <2>2. CallOK(c, screen, approved)
    BY DEF UploadProfile, NewCall, CallOK, IsCall
  <2>3. CallsOK'
    BY <2>1, <2>2, StartedIsOK DEF CallsOK, Started
  <2> QED
    BY <2>1, <2>3 DEF IInv, LitOK, LitIsStored
<1>9. {"picture", "name", "breed", "bio", "gender", "size"} \subseteq Fields
  BY DEF Fields, InfoFields
<1>10. ASSUME NEW v, EditPicture(v) \/ EditName(v) \/ EditBreed(v) \/ EditBio(v) PROVE IInv'
  BY <1>7, <1>9, <1>10 DEF EditPicture, EditName, EditBreed, EditBio
<1>11. CASE PressedGenderButton \/ PressedSizeButton
  BY <1>7, <1>9, <1>11 DEF PressedGenderButton, PressedSizeButton
<1> QED
  BY <1>3, <1>4, <1>5, <1>6, <1>8, <1>10, <1>11 DEF EditNext

-----------------------------------------------------------------------------
(* The answers.                                                            *)

(* One call becomes c, on the same screen.                                 *)
LEMMA AnswerStays ==
  ASSUME IInv, NEW i \in Calls, NEW c, call' = [call EXCEPT ![i] = c],
         CallOK(c, screen, approved), UNCHANGED <<screen, approved>>
  PROVE  CallsOK'
BY DEF IInv, CallsOK

LEMMA AnswerKeepsInvariant ==
  ASSUME IInv, NEW i \in Calls, Answer(i)
  PROVE  IInv'
<1>1. /\ CallOK(call[i], screen, approved) /\ IsCall(call[i]) /\ DOMAIN call = Calls
      /\ call[i].stage \in Gets => call[i].for # "create"
  BY DEF IInv, CallsOK, CallOK, Gets, Puts
<1>2. ASSUME UNCHANGED <<screen, form, lit, approved>>, CallsOK' PROVE IInv'
  BY <1>2 DEF IInv, LitOK, LitIsStored
<1>3. CASE PictureArrives(i)
  <2>1. PICK q : call' = [call EXCEPT ![i].stage = "getDocument", ![i].profile = q]
    BY <1>3 DEF PictureArrives
  <2> DEFINE b == [call[i] EXCEPT !.stage = "getDocument"]
             c == [b EXCEPT !.profile = q]
  <2>2. call' = [call EXCEPT ![i] = c]
    BY <1>1, <2>1
  <2>3. CallOK(b, screen, approved) /\ b.for # "create"
    <3>1. call[i].for # "create"
      BY <1>1, <1>3 DEF PictureArrives, Gets
    <3>2. IsCall(b) /\ b.for = call[i].for /\ b.live = call[i].live
      BY <1>1 DEF IsCall
    <3> HIDE DEF b
    <3> QED
      BY <1>1, <3>1, <3>2 DEF CallOK
  <2>4. CallOK(c, screen, approved)
    BY <2>3, ReadProfile
  <2> QED
    BY <1>2, <1>3, <2>2, <2>4, AnswerStays DEF PictureArrives, page, history
<1>4. CASE DocumentArrives(i)
  <2> DEFINE c == call[i]
             p == With(documents[c.uid], c.profile.picture)
  <2>1. /\ c.stage = "getDocument" /\ c.for # "create"
        /\ UNCHANGED <<screen, lit, approved>>
    BY <1>1, <1>4 DEF DocumentArrives, Gets, history
  <2>2. CASE c.for = "edit"
    <3>1. call' = [call EXCEPT ![i] = Idle]
      BY <1>4, <2>2 DEF DocumentArrives
    <3>2. CallsOK'
      BY <2>1, <3>1, IdleIsOK, AnswerStays
    <3>3. CASE c.live
      <4>1. form' = Loaded(p) /\ screen = "edit"
        BY <1>1, <1>4, <2>2, <3>3 DEF DocumentArrives, CallOK
      <4>2. IsProfile(form')
        BY <4>1 DEF IsProfile, Loaded, With
      <4> QED
        BY <2>1, <3>2, <4>1, <4>2 DEF IInv, PageOK, LitOK, LitIsStored
    <3>4. CASE ~ c.live
      BY <1>2, <1>4, <2>1, <2>2, <3>2, <3>4 DEF DocumentArrives
    <3> QED
      BY <3>3, <3>4
  <2>3. CASE c.for # "edit"
    <3>1. PICK q : call' = [call EXCEPT ![i].stage = "putPicture", ![i].uid = currentUser,
                                        ![i].profile = q]
      BY <1>4, <2>3 DEF DocumentArrives
    <3> DEFINE b == [call[i] EXCEPT !.stage = "putPicture", !.uid = currentUser]
               d == [b EXCEPT !.profile = q]
    <3>2. call' = [call EXCEPT ![i] = d]
      BY <1>1, <3>1
    <3>3. CallOK(d, screen, approved)
      <4>1. IsCall(b) /\ b.for = call[i].for /\ b.live = call[i].live
        BY <1>1 DEF IsCall
      <4> HIDE DEF b
      <4>2. CallOK(b, screen, approved) /\ b.for # "create"
        BY <1>1, <2>1, <2>3, <4>1 DEF CallOK
      <4> QED
        BY <4>2, ReadProfile
    <3>4. CallsOK' /\ UNCHANGED form
      BY <1>4, <2>1, <2>3, <3>2, <3>3, AnswerStays DEF DocumentArrives
    <3> QED
      BY <1>2, <2>1, <3>4
  <2> QED
    BY <2>2, <2>3
<1>5. CASE GetEnds(i) \/ UploadFails(i)
  BY <1>2, <1>5, IdleIsOK, AnswerStays DEF GetEnds, UploadFails, page, history
<1>6. CASE PicturePut(i)
  <2> DEFINE c == [call[i] EXCEPT !.stage = "setDocument", !.uid = currentUser]
  <2>1. call' = [call EXCEPT ![i] = c]
    BY <1>1, <1>6 DEF PicturePut
  <2>2. CallOK(c, screen, approved)
    <3>1. /\ IsCall(c) /\ c.for = call[i].for /\ c.live = call[i].live
          /\ c.stage \in Puts /\ c.profile = call[i].profile
      BY <1>1 DEF IsCall, Puts
    <3> HIDE DEF c
    <3> QED
      BY <1>1, <3>1 DEF CallOK
  <2> QED
    BY <1>2, <1>6, <2>1, <2>2, AnswerStays DEF PicturePut, page, history
<1>7. CASE DocumentSet(i)
  <2> DEFINE calls == [call EXCEPT ![i] = Idle]
  <2>1. Success(call[i], calls)
    BY <1>7 DEF DocumentSet
  <2>2. \A j \in Calls : CallOK(calls[j], screen, approved)
    BY IdleIsOK DEF IInv, CallsOK
  <2> HIDE DEF calls
  <2>3. CASE ~ call[i].live
    <3>1. call' = calls /\ UNCHANGED <<screen, form, lit, approved>>
      BY <2>1, <2>3 DEF Success, page
    <3>2. DOMAIN calls = Calls
      BY <1>1 DEF calls
    <3> QED
      BY <1>2, <2>2, <3>1, <3>2 DEF CallsOK
  <2>4. CASE call[i].live /\ call[i].for \in Rewrites
    BY <2>1, <2>2, <2>4, EmptyIsAProfile, ShowEditKeepsInvariant DEF Success
  <2>5. CASE call[i].live /\ call[i].for \notin Rewrites
    <3>1. ShowWith("profile", Empty) /\ call' = Left(calls) /\ approved' = Empty
      BY <2>1, <2>5 DEF Success
    <3>2. DOMAIN call' = Calls
      BY <3>1 DEF Left
    <3>3. \A j \in Calls : CallOK(call'[j], "profile", approved')
      BY <2>2, <3>1, LeftIsOK
    <3>4. PageOK(Empty, "profile", approved')
      BY EmptyIsAProfile DEF PageOK
    <3> QED
      BY <3>1, <3>2, <3>3, <3>4, EmptyIsAProfile, ShowKeepsInvariant
  <2> QED
    BY <2>3, <2>4, <2>5
<1> QED
  BY <1>3, <1>4, <1>5, <1>6, <1>7 DEF Answer

-----------------------------------------------------------------------------
(* What the three properties need of the pages, the icons and the calls.   *)
THEOREM Invariant == Spec => []IInv
<1>1. Init => IInv
  <2> SUFFICES ASSUME Init PROVE IInv
    OBVIOUS
  <2>1. CallsOK
    BY IdleIsOK DEF Init, CallsOK
  <2> QED
    BY <2>1, EmptyIsAProfile DEF Init, IInv, PageOK, LitOK, LitIsStored
<1>2. IInv /\ [Next]_vars => IInv'
  <2> SUFFICES ASSUME IInv, [Next]_vars PROVE IInv'
    OBVIOUS
  <2>1. CASE UNCHANGED vars
    BY <2>1 DEF vars, page, history, IInv, CallsOK, LitOK, LitIsStored
  <2> QED
    BY <2>1, WizardKeepsInvariant, EditKeepsInvariant, AnswerKeepsInvariant DEF Next
<1> QED
  BY <1>1, <1>2, PTL DEF Spec

(* No profile is created without picture, name, breed, size and gender.    *)
THEOREM CreatedComplete == Spec => []CompleteProfiles
<1>1. IInv => CompleteProfiles
  BY DEF IInv, CallsOK, CallOK, Complete, CompleteProfiles
<1> QED
  BY <1>1, Invariant, PTL

(* What the user confirmed on the first two pages is what gets uploaded.   *)
THEOREM ApprovedIsHandedOn == Spec => []HandedOn
<1>1. IInv => HandedOn
  BY DEF IInv, CallsOK, CallOK, PageOK, Agree, HandedOn
<1> QED
  BY <1>1, Invariant, PTL

(* The highlighted size and gender are those of the profile.               *)
THEOREM HighlightedIsStored == Spec => []LitIsStored
<1>1. IInv => LitIsStored
  BY DEF IInv, LitOK
<1> QED
  BY <1>1, Invariant, PTL
=============================================================================
