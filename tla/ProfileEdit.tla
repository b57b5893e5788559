----------------------------- MODULE ProfileEdit ----------------------------
(***************************************************************************)
(* The user's own profile, the screen that edits it, and the ways in and   *)
(* out (EditProfileViewController.swift, UserProfile.swift, loginSignUp/). *)
(***************************************************************************)
EXTENDS ProfileStore

At(s) == ~ crashed /\ screen = s

-----------------------------------------------------------------------------
(* The session.  Signing up and logging in are taken at their answer.      *)

SignUp(u) ==
    /\ At("login")
    /\ u \notin accounts
    /\ currentUser' = u
    /\ accounts' = accounts \union {u}
    /\ ShowWith("page1", Empty)
    /\ call' = Left(call)
    /\ UNCHANGED <<store, crashed, approved, repeats>>

(* loginPressed.  The home screen lies between it and the profile.         *)
Login(u) ==
    /\ At("login")
    /\ u \in accounts
    /\ currentUser' = u
    /\ ShowWith("profile", Empty)
    /\ call' = Left(call)
    /\ UNCHANGED <<accounts, store, crashed, approved, repeats>>

(* Mutation: no way leads on to the login screen.                          *)
Logout_Stays ==
    /\ At("profile") \/ (At("page1") /\ guess = "none")
    /\ Waited
    /\ currentUser' = NoUser
    /\ approved' = Empty
    /\ UNCHANGED <<accounts, store, call, crashed, page, pressed, repeats, changed>>

(* logoutPressed, and logoutButton of page 1: the login screen is shown    *)
(* also if signing out has failed.                                         *)
Logout ==
    /\ At("profile") \/ (At("page1") /\ guess = "none")
    /\ Waited
    /\ \/ currentUser' = NoUser
       \/ CallsMayFail /\ UNCHANGED currentUser
    /\ ShowWith("login", Empty)
    /\ call' = Left(call)
    /\ approved' = Empty
    /\ UNCHANGED <<accounts, store, crashed, repeats>>

-----------------------------------------------------------------------------
(* The edit screen.                                                        *)

(* A new edit screen, shown while calls are those under way: its           *)
(* viewDidLoad calls getProfile.                                           *)
ShowEdit(calls) ==
    /\ ShowWith("edit", Empty)
    /\ LET free == {i \in Calls : calls[i] = Idle}
       IN /\ free # {}
          /\ \E i \in free :
               /\ \A j \in free : i <= j
               /\ call' = [Left(calls) EXCEPT ![i] = GetProfile("edit", Empty, {})]

OpenEdit ==
    /\ At("profile")
    /\ Waited
    /\ ShowEdit(call)
    /\ UNCHANGED <<session, store, crashed, approved, repeats>>

(* The user gives field f the value v.                                     *)
Change(f, v) ==
    /\ At("edit")
    /\ Cardinality(changed \union {f}) <= MaxChanges
    /\ form' = [form EXCEPT ![f] = v]
    /\ changed' = changed \union {f}
    /\ UNCHANGED <<session, store, call, crashed, screen, lit, guess, selected, loaded,
                   approved, pressed, repeats>>

EditPicture(p) == Change("picture", p)
EditName(n) == Change("name", n)
EditBreed(b) == Change("breed", b)
EditBio(b) == Change("bio", b)

PressedGenderButton == Change("gender", IF form.gender = "female" THEN "male" ELSE "female")

PressedSizeButton ==
    Change("size", IF form.size = "small" THEN "medium"
                   ELSE IF form.size = "medium" THEN "large" ELSE "small")

(* savebutton: all that the screen shows, whether or not it has loaded.    *)
SaveButton ==
    /\ At("edit")
    /\ Waited /\ Room(1)
    /\ Patient => loaded
    /\ call' = Started(1, UploadProfile("save", form, changed))
    /\ UNCHANGED <<session, store, crashed, page, history>>

Leave(s) ==
    /\ ShowWith(s, Empty)
    /\ call' = Left(call)
    /\ UNCHANGED <<session, store, crashed, approved, repeats>>

Cancel == At("edit") /\ Leave("profile")
EditCharacteristicsPressed == At("edit") /\ Leave("characteristics")
EditPersonalityPressed == At("edit") /\ Leave("traits")

(* Of the three texts only the bio is also emptied here: the screen treats *)
(* them alike, and one is enough to see an empty text saved.               *)
EditNext ==
    \/ \E u \in Users : SignUp(u) \/ Login(u)
    \/ Logout
    \/ OpenEdit
    \/ \E p \in Pictures : EditPicture(p)
    \/ \E n \in Names : EditName(n)
    \/ \E b \in Breeds : EditBreed(b)
    \/ \E b \in Bios \union {Blank} : EditBio(b)
    \/ PressedGenderButton
    \/ PressedSizeButton
    \/ SaveButton
    \/ Cancel
    \/ EditCharacteristicsPressed
    \/ EditPersonalityPressed
=============================================================================
