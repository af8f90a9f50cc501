SPECIFICATION Spec
CONSTANTS
    Attempts = {a1, a2, a3}
    Contents = {c1, c2}
    NoFile = NoFile
SYMMETRY Symmetry
INVARIANTS
    FinalIsWhole
    AnswerIsWhole
PROPERTIES
    PublishedSurvives
    WrittenOnce
