SPECIFICATION Spec
CONSTANTS
    ann = ann
    bob = bob
    nobody = nobody
    photo = photo
    snapshot = snapshot
    rex = rex
    husky = husky
    woof = woof
    fluffy = fluffy
    calm = calm
    blank = blank
    none = none
    Users <- TwoUsers
    NoUser = nobody
    Pictures <- MCPictures
    Names <- MCNames
    Breeds <- MCBreeds
    Bios <- MCBios
    Characteristics <- MCCharacteristics
    Traits <- MCTraits
    Blank = blank
    None = none
    Existing <- MCExisting
    MaxCalls = 3
    MaxRepeats = 1
    MaxChanges = 1
    CallsMayFail = FALSE
    Patient = FALSE
CHECK_DEADLOCK FALSE
INVARIANT OwnProfile
