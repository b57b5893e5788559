---------------------------- MODULE ProfileStore ----------------------------
(***************************************************************************)
(* The profiles of the users and the calls that read and write them        *)
(* (Api/ApiProfile.swift), under a session that may change in between      *)
(* (Api/ApiAuth.swift).  A profile is kept in two places, its picture in   *)
(* Storage and the rest in a Firestore document:                           *)
(*                                                                         *)
(*   getProfile     getPicture -> getDocument                              *)
(*   uploadProfile  putPicture -> setDocument                              *)
(*                                                                         *)
(* Each call asks getUID anew for each path it writes to.  This module has *)
(* the state and the calls; ProfileWizard and ProfileEdit have the screens *)
(* that start them, and Profiles their answers.                            *)
(***************************************************************************)
EXTENDS Naturals, FiniteSets

CONSTANTS
    Users,
    NoUser,            \* the uid "" of a phone nobody is logged in on
    Pictures, Names, Breeds, Bios,
    Characteristics,   \* the rows of page 3
    Traits,            \* the rows of page 4
    Blank,             \* "", or the placeholder a screen shows instead
    None,              \* no document, no picture
    Existing,          \* the profile of those who have one at the start
    MaxCalls,          \* bound: how many calls may be under way
    MaxRepeats,        \* bound: how often the user repeats a step, see repeats
    MaxChanges,        \* bound: how many fields are changed on one edit screen
    CallsMayFail,      \* a call may report an error, or nothing at all
    Patient            \* the user waits: see Waited below

Sizes == {"small", "medium", "large"}
Genders == {"female", "male"}

(* A row may be in a list once, and once more for every repetition.        *)
MaxPicks == 1 + MaxRepeats

(* The fields that page 1 asks for, those of the Firestore document, all.  *)
FirstFields == {"picture", "name", "breed", "size", "gender"}
InfoFields == {"name", "breed", "size", "gender", "bio", "traits", "characteristics"}
Fields == {"picture"} \union InfoFields

(* A list of rows is kept as how often each row is in it.                  *)
Profile == [picture : Pictures \union {Blank}, name : Names \union {Blank},
            breed : Breeds \union {Blank}, size : Sizes \union {Blank},
            gender : Genders \union {Blank}, bio : Bios \union {Blank},
            traits : [Traits -> 0 .. MaxPicks],
            characteristics : [Characteristics -> 0 .. MaxPicks]]

Empty == [picture |-> Blank, name |-> Blank, breed |-> Blank, size |-> Blank,
          gender |-> Blank, bio |-> Blank, traits |-> [t \in Traits |-> 0],
          characteristics |-> [c \in Characteristics |-> 0]]

Info(p) == [f \in InfoFields |-> p[f]]
With(info, picture) == [f \in Fields |-> IF f = "picture" THEN picture ELSE info[f]]

ASSUME NobodyAssumption == NoUser \notin Users
ASSUME BlankAssumption ==
    /\ Blank \notin Pictures \union Names \union Breeds \union Bios \union Sizes \union Genders
    /\ None # Blank /\ None \notin Pictures /\ None \notin {Info(p) : p \in Profile}
    /\ None \notin Profile
ASSUME ExistingAssumption == Existing \in Profile /\ Existing.gender # Blank
ASSUME BoundsAssumption == MaxCalls \in Nat /\ MaxRepeats \in Nat /\ MaxChanges \in Nat

Calls == 1 .. MaxCalls

VARIABLES
    currentUser,   \* Auth.auth().currentUser
    accounts,      \* who has signed up
    documents,     \* the collection profiles
    pictures,      \* Storage's profilePictures/
    call,          \* the calls under way
    crashed,       \* Firestore has stopped the app
    screen,        \* the screen in front of the user
    form,          \* the profile its fields and variables hold
    lit,           \* the size and gender icons that are highlighted
    guess,         \* the breed guess of page 1
    selected,      \* the rows selected in its table
    loaded,        \* the edit screen shows the stored profile
    (* history *)
    wanted,        \* what the user has been told is stored
    half,          \* whose last upload was refused after its picture
    approved,      \* what the user confirmed on the first two pages
    pressed,       \* the button that ends this screen has been pressed
    repeats,       \* how often it was pressed again, or page 4 was left backwards
    changed        \* the fields the user has changed on this edit screen

store == <<documents, pictures, wanted, half>>
session == <<currentUser, accounts>>
page == <<screen, form, lit, guess, selected, loaded>>
history == <<approved, pressed, repeats, changed>>
vars == <<session, store, call, crashed, page, history>>

Rewrites == {"characteristics", "traits"}   \* also the field they rewrite
Uploads == {"create", "save"} \union Rewrites
Gets == {"getPicture", "getDocument"}
Puts == {"putPicture", "setDocument"}

Idle == [for |-> "nothing", stage |-> "idle", uid |-> NoUser, by |-> NoUser,
         live |-> FALSE, profile |-> Empty, asked |-> {}]

Call == [for : Uploads \union {"edit"}, stage : Gets \union Puts,
         uid : Users \union {NoUser}, by : Users, live : BOOLEAN, profile : Profile,
         asked : SUBSET Fields]

Pending == {i \in Calls : call[i] # Idle}

(* What a patient user waits for before starting a call or logging out.    *)
Waited == Patient => Pending = {}

-----------------------------------------------------------------------------
(* A call that the screen in front starts now, for the user logged in now. *)
(* by and asked are history: who pressed the button, and which fields this *)
(* was to change.                                                          *)
NewCall(for, stage, p, fs) ==
    [for |-> for, stage |-> stage, uid |-> currentUser, by |-> currentUser,
     live |-> TRUE, profile |-> p, asked |-> fs]

(* getProfile: the picture first.                                          *)
GetProfile(for, p, fs) == NewCall(for, "getPicture", p, fs)

(* uploadProfile: the picture first.                                       *)
UploadProfile(for, p, fs) == NewCall(for, "putPicture", p, fs)

(* Free places for n calls, the lowest.                                    *)
Places(n) == {i \in Calls \ Pending : Cardinality({j \in Calls \ Pending : j < i}) < n}
Room(n) == Cardinality(Calls \ Pending) >= n

Started(n, c) == [i \in Calls |-> IF i \in Places(n) THEN c ELSE call[i]]

(* A screen has been presented over the one that started these calls: they *)
(* run on, but their completions can present nothing any more.             *)
Left(calls) == [i \in Calls |-> IF calls[i] = Idle THEN Idle
                                ELSE [calls[i] EXCEPT !.live = FALSE]]

(* A fresh instance of a screen, given the fields fs of profile p.         *)
Handed(p, fs) == [f \in Fields |-> IF f \in fs THEN p[f] ELSE Empty[f]]

ShowWith(s, p) ==
    /\ screen' = s
    /\ form' = p
    /\ lit' = [size |-> {}, gender |-> {}]
    /\ guess' = "none"
    /\ selected' = {}
    /\ loaded' = FALSE
    /\ pressed' = FALSE
    /\ changed' = {}

(* The rows selected are appended to a list.                               *)
Appended(list) == [r \in DOMAIN list |-> IF r \in selected THEN list[r] + 1 ELSE list[r]]

(* The button that ends a screen is pressed.                               *)
Press ==
    /\ pressed' = TRUE
    /\ repeats' = IF pressed THEN repeats + 1 ELSE repeats
    /\ repeats' <= MaxRepeats
=============================================================================
