SPECIFICATION Spec
CONSTANTS
    k1 = k1
    k2 = k2
    k3 = k3
    a1 = a1
    a2 = a2
    Threads = {t1, t2}
    Routings = {r1, r2}
    Preloaded = a1
    Traffics <- MCTraffics
SYMMETRY Symmetry
INVARIANTS LocalRecordsHeld CachedRoutingForgotten HeldIsAdmitted
