CONSTANTS
    WordWidth = 4
    NumWords = 3
    HeaderUnits = 1

SPECIFICATION Spec

INVARIANT TypeOK
INVARIANT ScansMatchMeaning
INVARIANT EditsExact
