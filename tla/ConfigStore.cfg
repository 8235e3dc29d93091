SPECIFICATION Spec
CONSTANTS
    Requests = {q1, q2}
    Values = {v1, v2}
    Ops = {"update", "settings", "import", "drop", "reload", "local", "password"}
    SaveMayFail = TRUE
    HandEdits = {{"pools", "settings"}}
SYMMETRY Symmetry
INVARIANTS StoredStays LiveInStep
