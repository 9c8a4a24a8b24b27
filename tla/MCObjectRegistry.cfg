SPECIFICATION Spec
CONSTANTS
    Vehicles = {v1, v2}
    Manager = manager
    Addresses = {a1, a2, a3, a4}
    Requests <- MCRequests
    None = None
SYMMETRY MCSymmetry
INVARIANTS TypeOK WholeVehicles CacheIsExact Resolvable RemovalsAreActive
PROPERTIES SnapshotsAreStable
