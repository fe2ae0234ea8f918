\* Overlapping saves failing at any statement, a run and its retry between them.
CONSTANTS
    Session = {s1}
    Save = {a1, a2, a3}
    Run = {r1}
    Language = {py, js}
    Source = {x, y, long}
    TooLong = {long}
    AttemptBound = 2
SPECIFICATION Spec
INVARIANT TypeOK
INVARIANT LastSaveWins
INVARIANT VersionCountsSaves
INVARIANT ReadBackNotOlder
INVARIANT StoredFits
PROPERTY RunsNoOlderSource
SYMMETRY SaveSymmetry
CHECK_DEADLOCK FALSE
