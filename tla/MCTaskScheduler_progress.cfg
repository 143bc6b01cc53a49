CONSTANTS
    None = None
    Client = {c1, c2}
    Task = {"version", "fetch", "sync"}
    Target <- MCTarget
    OnSuccess <- MCOnSuccess
    OnFailure <- MCOnFailure
SPECIFICATION FairSpec
PROPERTIES
    EnqueuedCompletes
    WaitReturns
