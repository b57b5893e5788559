# PupTinder: specifications

TLA+ specifications of PupTinder, the iOS app and the cloud function of this
repository: what they do when calls overlap, fail, or come back late. The app
is Swift on the main thread with callbacks from Firebase; the only server code
is one Firestore trigger. There are next to no tests, so the repository's
comments and README are what the code is compared with.

Paths below are relative to the repository; `Api/` and the screens are in
`PupTinder/PupTinder/`.

## The system

| Part | State it keeps | Operations | Talks to |
| --- | --- | --- | --- |
| Cloud function (`FirebaseServer/functions/index.js`) | the collection `matches` | `checkForMatchOnSwipeRight`, `attemptMatch`, `match` | triggered by documents `profiles/u/swipedRight/v` |
| `Api.matches` (`Api/ApiMatches.swift`) | none | `getPotentialMatch`, `swipedRightOn`, `getMatches` | Firestore, `Api.profiles` |
| `Api.messages` (`Api/ApiMessages.swift`) | `delegate`, `messageListener`, `listeningForMessagesWith`, shared by all screens | `startGettingMessages`, `stopGettingMessages`, `sendMessage`, `getConversationsInfo`, `getLatestMessage` | Firestore, `Api.profiles`, the delegate |
| `Api.profiles` (`Api/ApiProfile.swift`) | none | `uploadProfile`, `getProfile`, `getProfileOf`, each in two steps: picture and document | Storage, Firestore |
| `Api.auth` (`Api/ApiAuth.swift`) | Firebase's current user | `signup`, `login`, `logout` | Firebase Auth; every other part asks `getUID` |
| Home (`Home.swift`) | the card, its `uid`, three buttons | love, cross, first and next card | `Api.matches` |
| Inbox (`Converstions.swift`) | two lists, two tables | `loadData`, taps, "start talking" | `Api.matches`, `Api.messages` |
| Conversation (`MessageView.swift`) | partner, own profile, messages shown | open, send, Back, `onReceivedNewMessage` | `Api.messages` |
| Wizard (`createProfileViews/`) | the profile under construction, handed from page to page | continue, skip, back, breed guess | `Api.profiles`, `Api/DogAPI.swift` |
| Profile and edit (`UserProfile.swift`, `EditProfileViewController.swift`) | a loaded profile | show, change, save | `Api.profiles`, `Api.auth` |

What is hard in it:

- **Concurrency.** Triggers run concurrently and more than once per event;
  screens start several calls and do not cancel them when they go; loads
  overlap. Everything on a phone runs on the main thread, so a race is always
  between *callbacks*, never inside one.
- **Failure.** A call may report an error, or (a picture that is no image, a
  guard on the wrong `error`) nothing at all. Nothing is retried.
- **Duplicates.** Nothing makes a match document unique, and half of the app
  looks a conversation up by its members.

What makes each part correct:

- matching: a match needs two mutual swipes; two mutual swipes lead to a match;
  one match per pair;
- conversation: a view shows the conversation with its partner, every message
  once, and no listener outlives its view;
- inbox: what is shown is what taps look up; an error is reported when and only
  when there is one; loading ends;
- home: love likes the dog on the screen; the buttons come back;
- profiles: nobody writes another user's profile; picture and document belong
  together; edits are not lost;
- wizard: what is uploaded is complete and is what the user chose.

`PROJECT.json` lists every hazard with its line and the properties aimed at it.

## Modules

| Module | About |
| --- | --- |
| `MatchService` | abstract: likes and matched pairs |
| `Matching` | swipe writes, event deliveries, and the function between its awaits; implements `MatchService` |
| `MatchingProofs` | theorems about `Matching` |
| `Messaging` | `Api.messages` and the `MessageView`s that share it |
| `Inbox` | `loadData` with its group, `getMatches`, `getConversationsInfo` |
| `Home` | the card, its buttons and the fetches under way, `getPotentialMatch` |
| `ProfileRegister` | abstract: one profile per user, and requests that change some of its fields |
| `ProfileStore` | the profiles in Storage and Firestore, the session, and the calls of `Api.profiles` |
| `ProfileWizard` | pages 1 to 4 and the breed guess, over `ProfileStore` |
| `ProfileEdit` | signing up, logging in and out, and the edit screen, over `ProfileStore` |
| `Profiles` | composes the two with the answers to the calls; implements `ProfileRegister` |
| `HomeProofs`, `InboxProofs`, `MessagingProofs`, `ProfilesProofs` | theorems about these |
| `ProfilesTypes` | more of them: the types of `Profiles`, and how often a row gets into a list |
| `ProfilesRegisterProofs` | and for a patient user: no edit is undone, `ProfileRegister` is implemented |
| `MCMatching`, `MCMessaging`, `MCInbox`, `MCHome`, `MCProfiles` | small instances for TLC |

A step named "Mutation" before a definition is a variant with a plausible bug.
`PROJECT.json` says which property notices it; none is part of a specification.

### Matching

`sending` holds the `setData` calls that have not come back, `swipedRight` the
documents `profiles/u/swipedRight/v`, `matches` the match documents. An
invocation of the function is named `<<u, v, k>>`, the k-th delivery of the
event for that document, and `pc` says where it is:

| Action | Code |
| --- | --- |
| `SwipedRightOn`, `SwipeWritten`, `SwipeRefused` | `swipedRightOn`, ApiMatches.swift:44-59 |
| `Deliver` | index.js:12-31, up to the `get()` |
| `CheckSwipedBack` | the `then` of the `get()`, index.js:32-40, and the query that `attemptMatch` sends at once |
| `AttemptMatch` | the `then` of the query, index.js:53-61 and 67-83 |
| `MatchAdded` | the `add()` of `match`, index.js:85-98 |
| `CallFails` | the three `catch`es: nothing but a log line |
| `Reclaim` | the platform stops an instance that has answered. The function answers at index.js:39, while the query and the add are still to come, because line 37 neither awaits nor returns `attemptMatch` |

A swipe repeated over an existing document raises no event (`onCreate`), so it
adds no invocation. The guard against matching a user with themself (line 18)
is in `Deliver`; the app's own guard (ApiMatches.swift:45) means it never bites.

### Messaging

One phone. The views are numbered in the order they are opened. `delegate`,
`messageListener` and `listeningForMessagesWith` are the three fields of
`Api.messages`; a listener is named after the view whose call installed it.
`chain` is how far the calls a view made when it loaded have come: `profile`
(`getProfile`), `matchDoc` (`getMatchDoc` in `startGettingMessages`), then
`listening`, `refused` by the check of the flag, `failed`, or `stuck`. Going
back does not stop the chain: the code has no way to. `Back` removes whatever
listener is installed at that time, or none. `seen[v]` is how many messages of its
document a view's listener has handed out: a snapshot brings those after them.
`broken` holds the listeners that have reported an error (`ListenerFails`,
ApiMessages.swift:187-191): the code prints it, and from then on the listener brings
nothing while `Api.messages` keeps it and its flag.

A view is presented without animation, so it has appeared and become the
delegate before any reply; `Open` does both. Match documents are numbered in the
order a query returns them. `MatchedAgain` is the duplicate that `matching_twice`
shows, with an id before or after the first one's.

### Inbox

`load[l]` is one call of `loadData`: the count of its `DispatchGroup`, whether
its notify is due, and the fan-outs of the two lists, document by document.
`Settle` is a leave, and stops the app if there is no enter for it, which is what
libdispatch does. A reply and what the code does on it, down to the `leave` and
the notify of an inner group, are one action. `trouble` is history: one of the
load's calls failed or was never answered.

### Home

`fetch[i]` is one fetch of a dog: at `query` while `getPotentialMatch` looks for a
uid, at `profile` while `getProfileOf` runs, and `for` says whose completion
gets the answer. `viewDidLoad`, `makeInitialMatch` and `makeMatchApiCall` treat
it differently: the first knows its uid, and only the last enables the buttons,
also on an error. A query that finds no document is sent again with another
random key, a stutter here. `lost` is a picture that is no image: `getProfileOf`
calls nobody. `liked` is what `swipedRightOn` has let through.

### Profiles

One phone, one screen in front. `screen` names it, `form` is the profile its text
fields and variables hold, `lit` and `selected` its highlighted icons and selected
rows. Every way to another page presents a new one, so `ShowWith` starts it afresh
with the fields that this way's `prepare(for:)` names (`Handed`).

`call[i]` is a call under way, with the screen it was `for`, the two steps of
`getProfile` and `uploadProfile` as its `stage`, the `uid` of the step it is at,
and `live` while the screen that started it is still in front (only then can its
completion present anything). Nothing cancels a call. The uid is asked for anew
when the second step of an upload begins (ApiProfile.swift:74).

| Action | Code |
| --- | --- |
| `PickPicture`, `TypeName`, `TypeBreed`, `PressSize`, `PressGender`, `Continue1` | CreateProfile1.swift; `Toggle` is the six `...PressedGen` functions, `ErrorCheck` is `errorCheck` |
| `GuessFound`, `GuessNotFound`, `GuessLost` | the completion of DogAPI.swift, or none |
| `TypeBio`, `Continue2`, `Skip2`, `Back2`; `Select`, `Continue3`, `Skip3`, `Back3`; `CreateProfile`, `Back4` | CreateProfile2 to 4.swift |
| `ContinueCharacteristics`, `ContinueTraits` | the same buttons of pages 3 and 4 when the edit screen has opened them (`Rewrite`) |
| `SignUp`, `Login`, `Logout` | SignUp.swift, Login.swift, UserProfile.swift and page 1, with ApiAuth.swift |
| `OpenEdit`, `EditPicture` ... `PressedSizeButton`, `SaveButton`, `Cancel`, `EditCharacteristicsPressed`, `EditPersonalityPressed` | EditProfileViewController.swift |
| `PictureArrives`, `DocumentArrives`, `GetEnds` | `getProfileOf`, `getProfilePicture` and the completions |
| `PicturePut`, `DocumentSet`, `UploadFails` | `uploadProfile`, `uploadProfilePicture` and the completions |

Two of the code's oddities are kept on purpose. The breed guess sets the size and
then presses its icon, which takes the size away again if the user had lit it
(`GuessFound` through `Toggle`). And with a row selected, continue on page 3 of the
edit screen starts the chain that reads and writes the profile twice
(`ContinueCharacteristics`); both read the one list of picks, so a later press is
seen by a chain that has not read it yet (`Repicked`).

With `Patient` the user lets calls end before starting another or logging out
(`Waited`) and saves the edit screen only once it has loaded. The app does not make
anybody wait, and this is what an impatient user can do in the model:

- log out while a picture is uploaded, and log in as somebody else: the document
  goes to the wrong user (`profiles_session`); or nobody does, and `document("")`
  stops the app (`crashed`);
- save before the screen has loaded: the dog of the storyboard replaces the stored
  one;
- save on the edit screen that the first of page 3's two uploads has opened: the
  second overwrites it.

History variables: `wanted` (what the user was last told is stored), `half` (an
upload whose document was refused after its picture), `approved` (what was
confirmed on pages 1 and 2), `pressed`, `repeats` and `changed`, and in a call `by`
and `asked`. No action of the app reads them but for the bounds.

Simplifications: the home screen between login and profile is skipped; signing up
and logging in are taken at their answer; of the three texts of the edit screen
only the bio can be emptied, since the code treats them alike; two `setData` of one
phone may take effect in either order, which is more than Firestore does. An icon's
background in the storyboard is taken to compare equal to `UIColor.white`, which is
what the highlighting rests on.

## Runs

| Run | Configuration | Bounds | Shows |
| --- | --- | --- | --- |
| `matching_safety` | `MatchingSafety.cfg` | 3 users, 2 pairs, 1 delivery; failures and reclaimed instances | `TypeOK`, `SoundMatches`, `NoMissedMatch`, `IInv`, `WindowCloses`, `ServiceSpec` |
| `matching_redelivery` | `MatchingRedelivery.cfg` | 2 users, 2 deliveries, no failure | `MutualSwipesMatch` under fairness, `NoMissedMatch`, `WindowCloses` |
| `matching_twice` | `MatchingTwice.cfg` | 2 users, 1 delivery | `AtMostOneMatch` is violated |
| `matching_lost` | `MatchingLost.cfg` | 2 users, instances may be reclaimed | `MutualSwipesMatch` is violated |
| `messaging_patient` | `MessagingPatient.cfg` | 2 partners, 2 views, 2 messages, 2 match documents a pair | `TypeOK`, `OnlyPartnerMessages`, `ShownOnce`, `OneListener`, `MessagesShown` under fairness |
| `messaging_early_back` | `MessagingEarlyBack.cfg` | 2 partners, 2 views, 1 message, no failure; a user who does not wait | `OnlyPartnerMessages` is violated |
| `inbox_loads` | `InboxLoads.cfg` | 2 loads, 2 matches, 1 failure, 1 change of the database | `TypeOK`, `QuietMeansShown`, `NoFalseAlarm`, `OnlyErrorsCrash`, `NoDoubleRows`, `LoadingEnds` |
| `inbox_two_answers` | `InboxTwoAnswers.cfg` | 1 load | `AnswerStands` is violated |
| `inbox_split` | `InboxSplit.cfg` | 1 load, 2 documents for one pair, no failure | `NoFalseAlarm` is violated |
| `home_cards` | `HomeCards.cfg` | 2 other dogs, 3 fetches at once; failing and unanswered calls | `TypeOK`, `LoveLikesTheCard`, `NeverOneself`, `DisabledMeansFetching`, `TwoFetchesAtMost`, `ButtonsComeBack` |
| `profiles_patient` | `ProfilesPatient.cfg` | 1 user, 2 calls, 1 repeated step, 1 field changed per edit screen; failing and unanswered calls; a patient user | `TypeOK`, `CompleteProfiles`, `HandedOn`, `LitIsStored`, `EditsStand`, `OnceUnlessRepeated`, `RegisterSpec` |
| `profiles_session` | `ProfilesSession.cfg` | 2 users, 3 calls, no failure; an impatient user | `OwnProfile` is violated |

What the violated properties say is quoted from the repository:

- *one match per pair* (index.js:34-36). Two invocations that both run their
  query before either has added make two documents. `WindowCloses` is what is
  left: after the first document nobody sets out to add another.
- *mutual swipes match* (README.md:2). The unawaited `attemptMatch` is lost with
  its instance, and no later swipe raises the event again. In
  `matching_redelivery`, where instances are not reclaimed, it holds.
- *the conversation with a specific user* (ApiMessages.swift:166). Back before the
  listener is installed leaves it behind; the next view is refused and receives
  the old conversation. With a user who waits (`BackWaits`), the same property
  and the stronger `OneListener` hold.
- *an error or a success* (ApiMatches.swift:63). `getMatches` reports both, and
  `loadData` leaves its group once too often. `OnlyErrorsCrash` says this is the
  only way that happens.
- *no error without a failure* (ApiMessages.swift:44-46). With a duplicate match
  document the list of conversations reports an error for good.
- *the profile of the current user* (ApiProfile.swift:59). The uid is asked for once
  for the picture and once for the document. A logout and a sign-up in between, and
  one user's document is written as the other's. `OwnProfile` holds by construction
  for a user who waits, and is not checked there; `RegisterSpec` says more.

What the properties that hold excuse. Some of what the code does wrong is in the model,
and the properties allow it by name:

- Without `BackWaits` the flag `listeningForMessagesWith`, checked before `getMatchDoc`
  and set after it, protects nothing: a view left early and the next one both pass the
  check, and the second listener takes the place of the first, which can never be
  removed. `OneListener` is violated there.
- `MessagesShown` speaks of the whole conversation, from the opening of a view on, but
  for the view's own failed calls (`CallFailed`) and for messages under a duplicate
  match document (`Elsewhere`). So a listener that reports an error after
  `startGettingMessages` has reported success (ApiMessages.swift:189), messages got and
  dropped because `getProfile` failed (MessageView.swift:51, against the comment at
  line 58), and messages under the document that the listener is not on
  (ApiMessages.swift:185, against "all messages" at line 166) are not violations. That
  later views suffer from none of these is what it does say.
- `LoadingEnds`, `ButtonsComeBack` and `DisabledMeansFetching` excuse a call that is
  never answered: `getLatestMessage` looks at the wrong `error` when its query fails
  (ApiMessages.swift:129), and `getProfileOf` returns without a word when a picture is
  no image (ApiProfile.swift:156), both against the comments that promise an error.
- `EditsStand` is for a patient user and allows a picture without its document
  (`half`), `OnceUnlessRepeated` allows rows twice after a repeated step, and a breed
  guess that is never answered leaves page 1 for good (`GuessLost`).

Bounds. Three users in two pairs are enough for a query to return documents
about somebody else; two deliveries are enough for an invocation to meet one of
its own event as well as those of the other. Two conversations are enough to mix
them up, two views to leave one and open another, two messages to be shown twice
or out of turn. Two loads overlap;
two documents give a fan-out a first and a last reply. Two other dogs tell an
old card from a new one, and a bound of three fetches shows that there are never
more than two (`TwoFetchesAtMost`). One failure is enough for every unbalanced
or lost call, since each needs one, and it keeps `inbox_loads` within minutes.

For `profiles_patient`: two pictures tell a new picture from an old one, and one
value besides the empty one does the same for each text, one row for each list,
three sizes and two genders being the code's own. Two calls are as many as a patient
user has under way (three give the same states). One repeated step is enough for a
row to be listed twice, which is the most `OnceUnlessRepeated` speaks of. One
field changed per edit screen is enough to lose an edit, as the next edit screen
writes all others back. Users share no state with a patient user, so there is one;
`profiles_session` needs two.

`CHECK_DEADLOCK FALSE` everywhere: users may stop, and the bounds stop them.

Fairness.

- `Matching`: an event is delivered at least once (Firestore's guarantee), and an
  instance that is neither failing nor reclaimed runs on. Phones, second
  deliveries, failures and reclaiming are never forced.
- `Messaging`: the calls a view made are answered, with a result, with an error or by
  the completion that is never called (`ProfileNeverArrives`), and a listener that has
  something new says so, unless it fails first: failing is an alternative, and
  disables the callback for good. Users are not fair, nor are messages on their way.
- `Inbox`: the main queue is served. A load makes finitely many calls, so fairness
  of "some answer or reload" is enough for all.
- `Home`: a call under way is answered, unless it is one that never is; and random
  keys do find another dog sooner or later (strong fairness, since between two
  tries a fetch is not at its query). The user need not press anything.
- `Profiles`: none. What is said of calls is said of the time they have ended.

## Proofs

Seven modules are checked by TLAPS, for all values of the constants: any users and
texts, any number of deliveries, loads, views and calls, with and without failures.
Every safety property that a passing run checks is among the theorems, and so are both
refinements. What is assumed beside the named assumptions of the modules (the empty
uid is no user, bounds are numbers, values are distinct, and the like) is named in the
theorem:

- `BackWaits`: the user goes back only when nothing is loading. The app lets them go
  back at any time; `messaging_early_back` shows what happens then; what it
  does to `OneListener` is described under the runs.
- `OnePerPair`: no two match documents are about the same pair. `inbox_split` shows
  what happens otherwise.
- `Patient`: the user lets calls end, as described above. Without it `profiles_session`
  is only one of the ways to go wrong.
- `Once(Existing)`: who has a profile at the start has no row in it twice. And of every
  such profile, patient user or not, `ExistingAssumption` says that it has a gender:
  page 1 lets no other be created, and the edit screen would turn a missing one into
  "male" and save it.

| Module | Theorem | States |
| --- | --- | --- |
| `MatchingProofs` | `TypeCorrect` | `Spec => []TypeOK` |
| | `Invariant` | `Spec => []IInv` |
| | `MatchesAreSound` | `Spec => []SoundMatches` |
| | `NoMatchIsMissed` | `Spec => []NoMissedMatch` |
| | `TheWindowCloses` | `Spec => WindowCloses` |
| | `ImplementsService` | `Spec => ServiceSpec` |
| `HomeProofs` | `TypeCorrect` | `Spec => []TypeOK` |
| | `LoveIsOfTheCard` | `Spec => []LoveLikesTheCard` |
| | `NobodyMeetsThemself` | `Spec => []NeverOneself` |
| | `DisabledIsFetching` | `Spec => []DisabledMeansFetching` |
| | `TwoFetches` | `Spec => []TwoFetchesAtMost` |
| `InboxProofs` | `Invariant` | `Spec => []IInv` |
| | `TypeCorrect` | `Spec => []TypeOK` |
| | `ErrorsAloneCrash` | `Spec => []OnlyErrorsCrash` |
| | `ShownWhenQuiet` | `Spec => []QuietMeansShown` |
| | `ListsAreSound` | `OnePerPair` gives `Spec => []ListsInv` |
| | `ErrorsAreReal` | `OnePerPair` gives `Spec => []NoFalseAlarm` |
| | `RowsAreSingle` | `OnePerPair` gives `Spec => []NoDoubleRows` |
| `MessagingProofs` | `Types` | `Spec => []TypeInv` |
| | `TypeCorrect` | `Spec => []TypeOK` |
| | `Invariant` | `BackWaits` gives `Spec => []IInv` |
| | `BooksAreKept` | `BackWaits` gives `Spec => []OneListener` |
| | `MessagesAreInOrder` | `BackWaits` gives `Spec => []MessagesInv` |
| | `NothingIsShownTwice` | `BackWaits` gives `Spec => []ShownOnce` |
| | `ConversationsStayApart` | `BackWaits` gives `Spec => []OnlyPartnerMessages` |
| `ProfilesProofs` | `Invariant` | `Spec => []IInv` |
| | `CreatedComplete` | `Spec => []CompleteProfiles` |
| | `ApprovedIsHandedOn` | `Spec => []HandedOn` |
| | `HighlightedIsStored` | `Spec => []LitIsStored` |
| `ProfilesTypes` | `Types` | `Spec => []TypeInv` |
| | `TypeCorrect` | `Spec => []TypeOK` |
| | `TwiceOnlyByRepeating` | `Once(Existing)` gives `Spec => []OnceUnlessRepeated` |
| `ProfilesRegisterProofs` | `UploadsWork` | `Patient` gives `Spec => []PInv` |
| | `NoEditIsUndone` | `Patient` gives `Spec => []EditsStand` |
| | `ImplementsRegister` | `Patient` gives `Spec => RegisterSpec` |

### Matching

`SoundMatches` is not inductive: that an added document is sound needs to know that
an invocation at `add` has seen both swipes. `NoMissedMatch` is not either: that two
invocations do not *both* end `unrequited` needs to know that an invocation only
exists once its own document does. `IInv` adds these:

- `NoSelfSwipe`, `Triggered`: an invocation follows its document;
- `SawBoth`: past the `get()` both documents exist, and they stay;
- `OneSideUnrequited`: if `<<u, v, k>>` finds nothing, v's document does not exist
  yet, so by `Triggered` no invocation for it has even started;
- `EndsMatched`, `Provenance`: an invocation that found or made a match is right
  about it.

The step proof is one lemma for the phones (documents only come), one for an
invocation that moves without adding (`MoveKeepsInvariant`, with what each target
needs to bring), one for the add; `InvokeKeepsInvariant` gives each action its
facts. `TheWindowCloses` and `ImplementsService` use `IInv` step by step.

### Home

`TwoFetchesAtMost` needs that while the buttons are enabled at most one fetch is live
(`OneWhenEnabled`): a press disables them and adds one, and only the answer to a fetch,
which is then gone, enables them. The others are inductive with the types.

### Inbox

`OnlyErrorsCrash` says nothing about why the count is right. `Balanced` does: the
count of a load's group is what its two calls still owe it (`Due`), unless a
completion has been called with an error. The inner fan-outs count their documents,
so the proof follows each document from its query to the last answer.
`QuietMeansShown` rests on `ToBeShown`: lists that are not shown belong to a load
whose notify is still to come.

`NoFalseAlarm` and `NoDoubleRows` hold where each pair has one match document, so that
a document and its partner are the same thing. Then the document that `getMatchDoc`
finds is the one that was asked about, and a document past `firstMessageQueried` has a
first message, which nobody takes away (`Unfalse`): an error is left only for a call
that went wrong. A document adds its partner to a list when its profile arrives and is
done then, and until it does the partner is not in the list (`Once`); loads append to
lists of their own, whose end result replaces what is shown.

### Messaging

`OneListener` is inductive once it is known that only the view in front loads
(`LoadsInFront`), that from the check of the flag until the listener is set nobody
sets the flag, and that the listener is that of the view in front (`ListensInFront`).
All three need the user who waits; what happens otherwise is described under the
runs.

What a view shows is a prefix: the messages of the document that its listener is on,
from the first one to `seen[v]`, or none without the user's own profile (`ShowsFirst`).
Documents only grow at their end (`AtTheEnd`), a snapshot extends the prefix by what
is new, and it goes to the right view because the delegate is the view in front. No
text is stored twice (`TextsOnce`), so a prefix shows no message twice, and it is of
the view's partner because the document is (`TypeInv`).

### Profiles

For patient and impatient users alike. Pages 2 to 4 are complete because page 1 lets
only complete forms through and every way on hands over the fields (`PageOK`); a call
that creates a profile is made on page 4 and never reads a profile first, so it keeps
what it was made with (`CallOK`); and calls of pages that were left are no longer
compared. The icons are lit on page 1 only (`LitOK`), and there both the press and
the breed guess change form and icon together.

The types need one thing that is not a type: that lists stay within their bound.
`ListsFit` says how full the lists on each page can be for the number of steps
repeated so far: a page's own list is one ahead of `repeats` once its button has been
pressed, and pressing it again, or coming back from page 4, counts. The same argument
with nothing repeated gives `OnceUnlessRepeated`.

For a patient user (`ProfilesRegisterProofs`) the invariant is `PInv`:

- `InPlace`: a call under way is the session's, and on a screen where it may be; two
  calls under way are the two chains of one press, with the same picks, or a chain and
  the edit screen that the other chain has led to (`Together`);
- `CallsWork`: what an upload writes is what the user takes for stored but for the
  fields it is to change (`Works`), so it undoes nothing; and a chain whose screen has
  gone writes the list that its twin has already stored, which is why two chains do no
  more than one;
- `FormWorks`: the same of the edit screen, once it has loaded;
- `StoreWorks`: the documents are what the user takes for stored, and so are the
  pictures, but after a refused document (`half`) or while one is still to be written
  (`PuttingPicture`).

`EditsStand` is `StoreWorks` when no call is under way. For the refinement every step
is one of: a press of an upload's button is `Ask`, in the places of its calls; the
writing of a document is `Take`; an upload that ends without is `Drop`; all others
change neither documents nor requests. That a document, which is written whole, is a
change of the requested fields alone is `Works` together with `StoreWorks`.

### Model-checked only

- Liveness (`MutualSwipesMatch`, `MessagesShown`, `LoadingEnds`, `ButtonsComeBack`):
  TLAPS does not do fairness.
- What is violated: `AtMostOneMatch`, `AnswerStands` and the like are shown by TLC's
  counterexamples. `OwnProfile` for a patient user is `UploadsAreOwn`, a small
  consequence of `InPlace`.
- That the bounds are never in the way: that two calls are all a patient user has under
  way, for one, is only seen in the states TLC finds.

## Not modelled, and why

- Timestamps and the order of messages and conversations by time; the hazards
  list says where the code could get them wrong.
- A write that the backend refuses after `sendMessage` has reported success.
- Layout, fonts, alerts, and what a picture shows: no property is about them.
- A second phone of the same user, which could write a profile between the reading
  and the writing of `Rewrite` or of the edit screen. The repository says nothing
  of two phones.
- The screen that only shows the user's own profile, and which of its cells
  `UITableView` reuses on pages 3 and 4 (the hazards list has the checkmarks).
- Taps in the inbox and its pop-up: they read the two lists and open a `MessageView`.
  `QuietMeansShown` says when what they read is what the tables show.
- The order of conversations, which needs the times of messages.
- `PupTinder/Pods`: vendored libraries, known by what the app sees of them.
- `AppDelegate`, `SceneDelegate`, the GIF decoder, `MatchesAndConversations`: no
  logic of the app's own.

## Plan

The modules were written in the order of the table above: matching, then the
conversations, the inbox and the cards, then the profiles; each was checked before it
was proved. What is left:

1. Taps and the pop-up of the inbox, which compose `Inbox` with `Messaging`; writes
   that are refused after `sendMessage` has reported success.
2. Proofs about what an impatient user can still rely on, beyond the wizard's
   properties and the types.

The app and the function are under 4000 lines of Swift and JavaScript; almost all other
code of the repository is `PupTinder/Pods`, and no plan covers that.
