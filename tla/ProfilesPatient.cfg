SPECIFICATION Spec
CONSTANTS
    ann = ann
    bob = bob
    nobody = nobody
    photo = photo
    snapshot = snapshot
    rex = rex
    husky = husky
    woof = woof
    fluffy = fluffy
    calm = calm
    blank = blank
    none = none
    Users <- OneUser
    NoUser = nobody
    Pictures <- MCPictures
    Names <- MCNames
    Breeds <- MCBreeds
    Bios <- MCBios
    Characteristics <- MCCharacteristics
    Traits <- MCTraits
    Blank = blank
    None = none
    Existing <- MCExisting
    MaxCalls = 2
    MaxRepeats = 1
    MaxChanges = 1
    CallsMayFail = TRUE
    Patient = TRUE
CHECK_DEADLOCK FALSE
INVARIANTS TypeOK CompleteProfiles HandedOn LitIsStored EditsStand OnceUnlessRepeated
PROPERTY RegisterSpec
