----------------------------- MODULE MCProfiles -----------------------------
(***************************************************************************)
(* Small instances of Profiles for TLC.                                    *)
(***************************************************************************)
EXTENDS Profiles

CONSTANTS ann, bob, nobody, photo, snapshot, rex, husky, woof, fluffy, calm, blank, none

MCPictures == {photo, snapshot}
MCNames == {rex}
MCBreeds == {husky}
MCBios == {woof}
MCCharacteristics == {fluffy}
MCTraits == {calm}

OneUser == {ann}
TwoUsers == {ann, bob}

MCExisting ==
    [picture |-> photo, name |-> rex, breed |-> husky, size |-> "large",
     gender |-> "female", bio |-> woof, traits |-> [t \in {calm} |-> 1],
     characteristics |-> [c \in {fluffy} |-> 0]]
=============================================================================
