------------------------------ MODULE Profiles ------------------------------
(***************************************************************************)
(* One phone that makes, shows and edits profiles: the screens of          *)
(* ProfileWizard and ProfileEdit over the calls of ProfileStore, and the   *)
(* answers to these calls.                                                 *)
(***************************************************************************)
EXTENDS ProfileWizard, ProfileEdit

(* The app has just been started, and some users have a profile.           *)
Init ==
    /\ currentUser = NoUser
    /\ accounts \in SUBSET Users
    /\ documents = [u \in Users |-> IF u \in accounts THEN Info(Existing) ELSE None]
    /\ pictures = [u \in Users |-> IF u \in accounts THEN Existing.picture ELSE None]
    /\ call = [i \in Calls |-> Idle]
    /\ crashed = FALSE
    /\ screen = "login"
    /\ form = Empty
    /\ lit = [size |-> {}, gender |-> {}]
    /\ guess = "none"
    /\ selected = {}
    /\ loaded = FALSE
    /\ wanted = [u \in Users |-> IF u \in accounts THEN Existing ELSE None]
    /\ half = [u \in Users |-> FALSE]
    /\ approved = Empty
    /\ pressed = FALSE
    /\ repeats = 0
    /\ changed = {}

-----------------------------------------------------------------------------
(* getProfile.                                                             *)

Stored(where, u) == u \in Users /\ where[u] # None

PictureArrives(i) ==
    /\ ~ crashed
    /\ call[i].stage = "getPicture"
    /\ Stored(pictures, call[i].uid)
    /\ call' = [call EXCEPT ![i].stage = "getDocument",
                            ![i].profile.picture = pictures[call[i].uid]]
    /\ UNCHANGED <<session, store, crashed, page, history>>

(* Mutation: a chain uploads the list as it was stored.                    *)
DocumentArrives_OldList(i) ==
    LET c == call[i]
        p == With(documents[c.uid], c.profile.picture)
    IN  /\ ~ crashed
        /\ c.stage = "getDocument"
        /\ Stored(documents, c.uid)
        /\ IF c.for = "edit"
             THEN /\ call' = [call EXCEPT ![i] = Idle]
                  /\ IF c.live
                       THEN form' = p /\ loaded' = TRUE
                       ELSE UNCHANGED <<form, loaded>>
             ELSE /\ call' = [call EXCEPT ![i].stage = "putPicture",
                                          ![i].uid = currentUser, ![i].profile = p]
                  /\ UNCHANGED <<form, loaded>>
        /\ UNCHANGED <<session, store, crashed, screen, lit, guess, selected, history>>

(* Mutation: the traits are not taken over.                                *)
Loaded_WithoutTraits(p) ==
    [p EXCEPT !.gender = IF @ = "female" THEN "female" ELSE "male",
              !.traits = form.traits]

(* What the edit screen shows of profile p; its own lists are empty.       *)
Loaded(p) == [p EXCEPT !.gender = IF @ = "female" THEN "female" ELSE "male"]

(* The edit screen, if it is still there, shows the profile; a rewriting   *)
(* chain uploads it, with the list that was picked, for the user who is    *)
(* logged in now.                                                          *)
DocumentArrives(i) ==
    LET c == call[i]
        p == With(documents[c.uid], c.profile.picture)
    IN  /\ ~ crashed
        /\ c.stage = "getDocument"
        /\ Stored(documents, c.uid)
        /\ IF c.for = "edit"
             THEN /\ call' = [call EXCEPT ![i] = Idle]
                  /\ IF c.live
                       THEN /\ form' = Loaded(p)
                            /\ loaded' = TRUE
                       ELSE UNCHANGED <<form, loaded>>
             ELSE /\ call' = [call EXCEPT ![i].stage = "putPicture",
                                          ![i].uid = currentUser,
                                          ![i].profile = [p EXCEPT ![c.for] = c.profile[c.for]]]
                  /\ UNCHANGED <<form, loaded>>
        /\ UNCHANGED <<session, store, crashed, screen, lit, guess, selected, history>>

(* The picture or the document is not there, the call fails, or the        *)
(* picture is no image and nobody is called: the screen stays as it was.   *)
GetEnds(i) ==
    /\ ~ crashed
    /\ \/ CallsMayFail /\ call[i].stage \in Gets
       \/ call[i].stage = "getPicture" /\ ~ Stored(pictures, call[i].uid)
       \/ call[i].stage = "getDocument" /\ ~ Stored(documents, call[i].uid)
    /\ call' = [call EXCEPT ![i] = Idle]
    /\ UNCHANGED <<session, store, crashed, page, history>>

-----------------------------------------------------------------------------
(* uploadProfile.                                                          *)

(* The picture is stored under the uid of when its upload began; the       *)
(* document is written under the uid of now, and an empty one stops the    *)
(* app.                                                                    *)
PicturePut(i) ==
    /\ ~ crashed
    /\ call[i].stage = "putPicture"
    /\ pictures' = [u \in Users |-> IF u = call[i].uid THEN call[i].profile.picture
                                    ELSE pictures[u]]
    /\ crashed' = (currentUser = NoUser)
    /\ call' = [call EXCEPT ![i].stage = "setDocument", ![i].uid = currentUser]
    /\ UNCHANGED <<session, documents, wanted, half, page, history>>

(* Either half is refused.  What was put stays put.                        *)
UploadFails(i) ==
    /\ CallsMayFail
    /\ ~ crashed
    /\ call[i].stage \in Puts
    /\ call' = [call EXCEPT ![i] = Idle]
    /\ half' = [u \in Users |-> half[u] \/ (u = call[i].uid /\ call[i].stage = "setDocument")]
    /\ UNCHANGED <<session, documents, pictures, wanted, crashed, page, history>>

(* Where a successful upload leads, if its screen is still there.          *)
Success(c, calls) ==
    IF ~ c.live
      THEN call' = calls /\ UNCHANGED <<page, approved, pressed, changed>>
      ELSE /\ approved' = Empty
           /\ IF c.for \in Rewrites
                THEN ShowEdit(calls)
                ELSE ShowWith("profile", Empty) /\ call' = Left(calls)

(* What the user now takes for stored: what was to be changed, and         *)
(* everything else as before.                                              *)
WantedNow(c) ==
    IF wanted[c.uid] = None
      THEN c.profile
      ELSE [f \in Fields |-> IF f \in c.asked THEN c.profile[f] ELSE wanted[c.uid][f]]

DocumentSet(i) ==
    LET c == call[i]
    IN  /\ ~ crashed
        /\ c.stage = "setDocument"
        /\ documents' = [documents EXCEPT ![c.uid] = Info(c.profile)]
        /\ wanted' = [wanted EXCEPT ![c.uid] = WantedNow(c)]
        /\ half' = [half EXCEPT ![c.uid] = @ /\ "picture" \notin c.asked]
        /\ Success(c, [call EXCEPT ![i] = Idle])
        /\ UNCHANGED <<session, pictures, crashed, repeats>>

-----------------------------------------------------------------------------
Answer(i) ==
    \/ PictureArrives(i)
    \/ DocumentArrives(i)
    \/ GetEnds(i)
    \/ PicturePut(i)
    \/ UploadFails(i)
    \/ DocumentSet(i)

Next == WizardNext \/ EditNext \/ \E i \in Calls : Answer(i)

Spec == Init /\ [][Next]_vars

-----------------------------------------------------------------------------
(* Properties.                                                             *)

Screens == {"login", "page1", "page2", "page3", "page4", "profile", "edit",
            "characteristics", "traits"}

(* The variables keep their types; only whoever is logged in sees screens  *)
(* other than the login screen, so that every call has somebody's uid.     *)
TypeOK ==
    /\ currentUser \in accounts \union {NoUser}
    /\ accounts \subseteq Users
    /\ currentUser = NoUser => screen = "login"
    /\ DOMAIN documents = Users
    /\ \A u \in Users : documents[u] # None => With(documents[u], Blank) \in Profile
    /\ pictures \in [Users -> Pictures \union {Blank, None}]
    /\ call \in [Calls -> Call \union {Idle}]
    /\ crashed \in BOOLEAN
    /\ screen \in Screens
    /\ form \in Profile
    /\ lit \in [size : SUBSET Sizes, gender : SUBSET Genders]
    /\ guess \in {"none", "asked", "lost"}
    /\ selected \subseteq Characteristics \union Traits
    /\ loaded \in BOOLEAN
    /\ wanted \in [Users -> Profile \union {None}]
    /\ half \in [Users -> BOOLEAN]
    /\ approved \in Profile
    /\ pressed \in BOOLEAN
    /\ repeats \in 0 .. MaxRepeats
    /\ changed \subseteq Fields

(* No profile is created without picture, name, breed, size and gender,    *)
(* whichever way the user goes through the pages and whenever the breed    *)
(* guess presses a button (CreateProfile1.swift, errorCheck).              *)
CompleteProfiles ==
    \A i \in Calls : call[i].for = "create" =>
        \A f \in FirstFields : call[i].profile[f] # Blank

(* The pages hand on what the user confirmed on pages 1 and 2 until the    *)
(* profile is uploaded (the variables of CreateProfile1.swift:28).         *)
HandedOn ==
    /\ screen \in {"page2", "page3", "page4"} =>
         \A f \in FirstFields : form[f] = approved[f]
    /\ screen \in {"page3", "page4"} => form.bio = approved.bio
    /\ \A i \in Calls : call[i].for = "create" /\ call[i].live =>
         \A f \in FirstFields \union {"bio"} : call[i].profile[f] = approved[f]

(* At most one size and one gender are highlighted on page 1, and those    *)
(* are the ones the profile gets, although the breed guess sets the size   *)
(* and then presses its button.                                            *)
LitIsStored ==
    \A k \in {"size", "gender"} : lit[k] \subseteq {form[k]}

(* When nothing is under way, what is stored is what the user was last     *)
(* told is stored: no way of changing one part of a profile undoes         *)
(* another.  Only a picture whose document was refused may stand beside    *)
(* the old document (ApiProfile.swift:68-91).                              *)
EditsStand ==
    Pending = {} => \A u \in Users :
        IF wanted[u] = None
          THEN documents[u] = None /\ (pictures[u] = None \/ half[u])
          ELSE /\ documents[u] = Info(wanted[u])
               /\ pictures[u] = wanted[u].picture \/ half[u]

(* A characteristic or trait is stored twice only if the user has gone     *)
(* back from page 4 or pressed the same last button twice                  *)
(* (CreateProfile3.swift:49, CreateProfile4.swift:67).                     *)
OnceUnlessRepeated ==
    repeats > 0 \/ \A u \in Users : documents[u] # None =>
        \A f \in Rewrites : \A r \in DOMAIN documents[u][f] : documents[u][f][r] <= 1

(* Profiles implements ProfileRegister: the register is the collection     *)
(* profiles, and an upload is a request from the press of its button on,   *)
(* through the calls that read, change and write a whole profile, to its   *)
(* last answer (CreateProfile3.swift:53, EditProfileViewController.swift:  *)
(* 161).                                                                   *)
NoRequest == [by |-> NoUser, new |-> [f \in {} |-> Blank]]

Request(c) ==
    IF c.for \in Uploads
      THEN [by |-> c.by, new |-> [f \in c.asked \ {"picture"} |-> c.profile[f]]]
      ELSE NoRequest

Register == INSTANCE ProfileRegister WITH
    Fields <- InfoFields,
    NoProfile <- None,
    register <- documents,
    request <- [i \in Calls |-> Request(call[i])]

RegisterSpec == Register!Spec

(* An upload writes the profile of the user who asked for it, and no       *)
(* other's (ApiProfile.swift:59).                                          *)
OwnProfile ==
    \A i \in Calls : call[i].stage \in Puts /\ ~ crashed => call[i].uid = call[i].by
=============================================================================
