---------------------------- MODULE ProfileWizard ---------------------------
(***************************************************************************)
(* The four pages on which a profile is made (createProfileViews/) and the *)
(* breed guess of the first (Api/DogAPI.swift).                            *)
(*                                                                         *)
(* Every way from page to page presents a new page and hands it some of    *)
(* the variables of the old one.  form holds these variables; the name,    *)
(* breed and bio in it are the text of the page that asks for them, since  *)
(* its continue button replaces whatever was handed to it by that text.    *)
(***************************************************************************)
EXTENDS ProfileStore

OnPage(s) == ~ crashed /\ screen = s

(* Leaving a page for another one.                                         *)
Turn(s, fs) ==
    /\ ShowWith(s, Handed(form, fs))
    /\ call' = Left(call)
    /\ UNCHANGED <<session, store, crashed>>

(* Changing something on the page.                                         *)
Stay == UNCHANGED <<session, store, call, crashed, screen, loaded, history>>

-----------------------------------------------------------------------------
(* Page 1.                                                                 *)

OnPage1 == OnPage("page1") /\ guess = "none"

(* imagePickerController: the page takes no touches until the breed guess  *)
(* has been answered.                                                      *)
PickPicture(p) ==
    /\ OnPage1
    /\ form' = [form EXCEPT !.picture = p]
    /\ guess' = "asked"
    /\ Stay /\ UNCHANGED <<lit, selected>>

TypeName(n) ==
    /\ OnPage1
    /\ form' = [form EXCEPT !.name = n]
    /\ Stay /\ UNCHANGED <<lit, guess, selected>>

TypeBreed(b) ==
    /\ OnPage1
    /\ form' = [form EXCEPT !.breed = b]
    /\ Stay /\ UNCHANGED <<lit, guess, selected>>

(* The first icon of some goes out: an if with an else if.                 *)
OneOut(icons) == IF icons = {} THEN {} ELSE icons \ {CHOOSE i \in icons : TRUE}

(* Mutation: the other icons stay lit.                                     *)
Toggle_LeavesOthers(p, k, v) ==
    IF v \in lit[k]
      THEN /\ lit' = [lit EXCEPT ![k] = @ \ {v}]
           /\ form' = [p EXCEPT ![k] = Blank]
      ELSE /\ lit' = [lit EXCEPT ![k] = @ \union {v}]
           /\ form' = [p EXCEPT ![k] = v]

(* smallSizePressedGen and its likes, on variables p.  An icon that is lit *)
(* goes out and takes the value with it; else the first other icon that is *)
(* lit goes out, and this one lights up.                                   *)
Toggle(p, k, v) ==
    IF v \in lit[k]
      THEN /\ lit' = [lit EXCEPT ![k] = @ \ {v}]
           /\ form' = [p EXCEPT ![k] = Blank]
      ELSE /\ lit' = [lit EXCEPT ![k] = {v} \union OneOut(@)]
           /\ form' = [p EXCEPT ![k] = v]

PressSize(v) == OnPage1 /\ Toggle(form, "size", v) /\ Stay /\ UNCHANGED <<guess, selected>>
PressGender(v) == OnPage1 /\ Toggle(form, "gender", v) /\ Stay /\ UNCHANGED <<guess, selected>>

(* The guess names a breed: its text, its size, and a press on the icon of *)
(* that size, which puts it out if the user had lit it.                    *)
GuessFound(b, v) ==
    /\ OnPage("page1") /\ guess = "asked"
    /\ Toggle([form EXCEPT !.breed = b, !.size = v], "size", v)
    /\ guess' = "none"
    /\ Stay /\ UNCHANGED selected

GuessNotFound ==
    /\ OnPage("page1") /\ guess = "asked"
    /\ guess' = "none"
    /\ Stay /\ UNCHANGED <<form, lit, selected>>

(* Either request fails, or its answer is not JSON: nobody is told.        *)
GuessLost ==
    /\ CallsMayFail
    /\ OnPage("page1") /\ guess = "asked"
    /\ guess' = "lost"
    /\ Stay /\ UNCHANGED <<form, lit, selected>>

(* Mutation: the check forgets the size.                                   *)
ErrorCheck_NoSize == \A f \in FirstFields \ {"size"} : form[f] # Blank

ErrorCheck == \A f \in FirstFields : form[f] # Blank

(* continueButtonPressed, and prepare(for:).                               *)
Continue1 ==
    /\ OnPage1
    /\ ErrorCheck
    /\ Turn("page2", FirstFields)
    /\ approved' = Handed(form, FirstFields)
    /\ UNCHANGED repeats

-----------------------------------------------------------------------------
(* Page 2.                                                                 *)

TypeBio(b) ==
    /\ OnPage("page2")
    /\ form' = [form EXCEPT !.bio = b]
    /\ Stay /\ UNCHANGED <<lit, guess, selected>>

Continue2 ==
    /\ OnPage("page2")
    /\ form.bio # Blank
    /\ Turn("page3", FirstFields \union {"bio"})
    /\ approved' = [approved EXCEPT !.bio = form.bio]
    /\ UNCHANGED repeats

Skip2 ==
    /\ OnPage("page2")
    /\ Turn("page3", FirstFields)
    /\ approved' = [approved EXCEPT !.bio = Blank]
    /\ UNCHANGED repeats

(* The text fields and icons of the new page 1 are empty, while it is      *)
(* handed picture, size and gender as they were.                           *)
Back2 ==
    /\ OnPage("page2")
    /\ Turn("page1", {"picture", "size", "gender"})
    /\ approved' = Empty
    /\ UNCHANGED repeats

-----------------------------------------------------------------------------
(* Pages 3 and 4.                                                          *)

Select(r) ==
    /\ ~ crashed
    /\ \/ screen \in {"page3", "characteristics"} /\ r \in Characteristics
       \/ screen \in {"page4", "traits"} /\ r \in Traits
    /\ selected' = IF r \in selected THEN selected \ {r} ELSE selected \union {r}
    /\ Stay /\ UNCHANGED <<form, lit, guess>>

(* Mutation: prepare(for:) forgets the bio.                                *)
Continue3_NoBio ==
    /\ OnPage("page3")
    /\ selected # {}
    /\ ShowWith("page4", [Handed(form, FirstFields)
                             EXCEPT !.characteristics = Appended(form.characteristics)])
    /\ call' = Left(call)
    /\ UNCHANGED <<session, store, crashed, approved, repeats>>

(* continueButtonPressed, with a row selected, and prepare(for:).          *)
Continue3 ==
    /\ OnPage("page3")
    /\ selected # {}
    /\ ShowWith("page4", [Handed(form, FirstFields \union {"bio"})
                             EXCEPT !.characteristics = Appended(form.characteristics)])
    /\ call' = Left(call)
    /\ UNCHANGED <<session, store, crashed, approved, repeats>>

Skip3 ==
    /\ OnPage("page3")
    /\ Turn("page4", FirstFields \union {"bio"})
    /\ UNCHANGED <<approved, repeats>>

(* The bio is handed back too, and page 2 does not show it.                *)
Back3 ==
    /\ OnPage("page3")
    /\ Turn("page2", FirstFields)
    /\ approved' = [approved EXCEPT !.bio = Blank]
    /\ UNCHANGED repeats

(* createProfileButtonPressed.                                             *)
CreateProfile ==
    /\ OnPage("page4")
    /\ Waited /\ Room(1)
    /\ form' = [form EXCEPT !.traits = Appended(@)]
    /\ call' = Started(1, UploadProfile("create", form', Fields))
    /\ Press
    /\ UNCHANGED <<session, store, crashed, screen, lit, guess, selected, loaded, approved, changed>>

Back4 ==
    /\ OnPage("page4")
    /\ Turn("page3", FirstFields \union {"bio", "characteristics"})
    /\ repeats < MaxRepeats
    /\ repeats' = repeats + 1
    /\ UNCHANGED approved

-----------------------------------------------------------------------------
(* Pages 3 and 4 as the edit screen opens them, without skip and back.     *)

(* The chains already under way from this page read its picks when their   *)
(* document arrives, so that they see what is appended now.                *)
Repicked(calls, f) ==
    [i \in Calls |-> IF calls[i].live /\ calls[i].for = f /\ calls[i].stage \in Gets
                       THEN [calls[i] EXCEPT !.profile[f] = form'[f]]
                       ELSE calls[i]]

(* Mutation: each chain appends the rows for itself.                       *)
Rewrite_AppendsTwice(f, chains) ==
    /\ Waited /\ Room(chains)
    /\ form' = [form EXCEPT ![f] = IF chains = 2 THEN Appended(Appended(@)) ELSE Appended(@)]
    /\ call' = Repicked(Started(chains, GetProfile(f, [Empty EXCEPT ![f] = form'[f]], {f})), f)
    /\ Press
    /\ UNCHANGED <<session, store, crashed, screen, lit, guess, selected, loaded, approved, changed>>

(* getProfile, to upload it with one list replaced by the picks.           *)
Rewrite(f, chains) ==
    /\ Waited /\ Room(chains)
    /\ form' = [form EXCEPT ![f] = Appended(@)]
    /\ call' = Repicked(Started(chains, GetProfile(f, [Empty EXCEPT ![f] = form'[f]], {f})), f)
    /\ Press
    /\ UNCHANGED <<session, store, crashed, screen, lit, guess, selected, loaded, approved, changed>>

(* With a row selected, the chain is started twice.                        *)
ContinueCharacteristics ==
    /\ OnPage("characteristics")
    /\ Rewrite("characteristics", IF selected = {} THEN 1 ELSE 2)

ContinueTraits == OnPage("traits") /\ Rewrite("traits", 1)

WizardNext ==
    \/ \E p \in Pictures : PickPicture(p)
    \/ \E n \in Names \union {Blank} : TypeName(n)
    \/ \E b \in Breeds \union {Blank} : TypeBreed(b)
    \/ \E v \in Sizes : PressSize(v)
    \/ \E v \in Genders : PressGender(v)
    \/ \E b \in Breeds, v \in Sizes : GuessFound(b, v)
    \/ GuessNotFound
    \/ GuessLost
    \/ Continue1
    \/ \E b \in Bios \union {Blank} : TypeBio(b)
    \/ Continue2
    \/ Skip2
    \/ Back2
    \/ \E r \in Characteristics \union Traits : Select(r)
    \/ Continue3
    \/ Skip3
    \/ Back3
    \/ CreateProfile
    \/ Back4
    \/ ContinueCharacteristics
    \/ ContinueTraits
=============================================================================
