SPECIFICATION Spec
CONSTANTS
    Requests = {r1, r2}
    Lower <- MCLower
    Changes <- MCChanges
    Revisions = {1, 2, 3}
    MaxRevision = 3
    None = None
INVARIANTS PlanesFollow ListenersAccounted StreamsAccounted CapacityFollows
PROPERTIES NoLostUpdate ImplementsPromise NothingHangs
