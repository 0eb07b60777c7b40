SPECIFICATION Spec
CONSTANTS
    Bytes = 3
    Chars = 4
    Drawn <- SomeIds
    Received <- SomeTexts
INVARIANTS
    IdComesBack
    TextComesBack
