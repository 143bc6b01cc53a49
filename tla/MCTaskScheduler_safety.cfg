CONSTANTS
    None = None
    Client = {c1, c2}
    Task = {"version", "fetch", "sync", "abort"}
    Target <- MCTarget
    OnSuccess <- MCOnSuccess
    OnFailure <- MCOnFailure
SYMMETRY Symmetry
SPECIFICATION Spec
INVARIANTS
    TypeOK
    UpdateFindsTasks
    QueueHoldsPending
    UpdateIsBounded
    NoLostWakeup
    CompleteAfterCallback
PROPERTIES
    KeepsPromise
