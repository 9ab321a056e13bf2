\* Well formed files, the same files with one token wrong, and short ones.
SPECIFICATION Spec
CONSTANTS
    Sources <- AllSources
INVARIANTS
    TypeOK
    RoundTrip
    ClosedIfSilent
    NothingSkipped
    NextSurvives
PROPERTIES
    ParseEnds
